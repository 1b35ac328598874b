----------------------------- MODULE FileFrames -----------------------------
(***************************************************************************)
(* How large the frame of a file gets, from the page that offers it to the *)
(* relay that measures it: the envelope, the tag of AES-GCM, base64 and    *)
(* the rest of the message (page.tsx handleSendFile), against the limits   *)
(* of config.ts, validation.ts and handler.ts.                             *)
(***************************************************************************)
EXTENDS Integers

CONSTANTS
    MaxFileBytes,  \* MAX_FILE_BYTES of the page
    MaxFile,       \* config.maxFileSizeBytes of the relay
    MaxMessage,    \* config.maxMessageSizeBytes
    MaxHeader,     \* bytes of the header: name, type and hash as JSON
    MaxWrapping    \* bytes of the frame around the ciphertext

(* The two limits are configured apart; "Must stay in sync", page.tsx says. *)
(* The 8192 bytes of the relay are for header and wrapping: that they are   *)
(* enough is assumed too, as no code bounds the names in them.              *)
ASSUME FileConstants ==
    /\ MaxFile \in Nat
    /\ MaxFileBytes \in 0 .. MaxFile
    /\ MaxMessage \in Nat
    /\ MaxHeader \in Nat
    /\ MaxWrapping \in Nat
    /\ 4 * (MaxHeader + 6) + 3 * MaxWrapping <= 3 * 8192

CeilDiv(n, d) == (n + d - 1) \div d

(* The four bytes of the header's length, the header, the file.             *)
Envelope(size, header) == 4 + header + size

(* encryptMessage adds a tag, bufToB64 makes four characters of three bytes.*)
Base64(n) == 4 * CeilDiv(n + 16, 3)

FrameBytes(size, header, wrapping) == Base64(Envelope(size, header)) + wrapping

(* handleFileSelect.                                                        *)
Offered(size) == size <= MaxFileBytes

(* Mutant of WsMaxPayload: the tag and the base64 of the file alone.        *)
TightPayload == CeilDiv(4 * (MaxFile + 16), 3)

WsMaxPayload ==
    LET file == CeilDiv(4 * (MaxFile + 16), 3) + 8192
    IN IF file > MaxMessage THEN file ELSE MaxMessage

(* maxPayload of the WebSocket server and validatePayloadSize; then the     *)
(* file_size that a file message says of itself, where 0 counts as missing. *)
Taken(size, header, wrapping) ==
    /\ FrameBytes(size, header, wrapping) <= WsMaxPayload
    /\ size # 0
    /\ size <= MaxFile
=============================================================================
