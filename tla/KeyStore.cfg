SPECIFICATION Spec
CONSTANTS
 Tabs = {t1, t2}
 Pairs = {k1, k2, k3}
 None = None
INVARIANTS TabsMeet
