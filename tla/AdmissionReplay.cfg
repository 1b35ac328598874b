SPECIFICATION Spec
CONSTANTS
    Fps = {f1}
    Nonces = {n1}
    Enabled = TRUE
    Ttl = 1
    Limit = 2
    Window = 2
PROPERTIES
    DuplicatesRefused
