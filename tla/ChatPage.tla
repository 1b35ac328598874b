------------------------------ MODULE ChatPage ------------------------------
(***************************************************************************)
(* What the pages of PeerSession send each other: messages and files,      *)
(* encrypted for one peer at a time behind an await (handleSendMessage,    *)
(* handleSendFile), passed on by the relay to that peer alone, and read    *)
(* with the secret the receiver has by then.  FileFrames measures the      *)
(* frames of files.                                                        *)
(*                                                                         *)
(* A page sends one thing at a time.  A ciphertext is told by its sender   *)
(* and receiver: the key pairs do not change, so whoever has a secret with *)
(* the sender can decrypt it.                                              *)
(***************************************************************************)
EXTENDS PeerSession, FileFrames

VARIABLES
    job,     \* what the page is sending, and the recipients still to encrypt for
    files    \* whose encrypted files are in `messages`, to be downloaded

chat == <<job, files>>

(* The messages travel among the frames of PeerSession, and a page is idle  *)
(* exactly when it has nobody left to encrypt for.                          *)
ChatTypeOK ==
    /\ TypeOK
    /\ job \in [Peers -> [kind : Kinds \cup {"none"}, to : SUBSET Peers]]
    /\ \A p \in Peers : job[p].kind = "none" <=> job[p].to = {}
    /\ files \in [Peers -> SUBSET Peers]

Idle == [kind |-> "none", to |-> {}]

ChatInit ==
    /\ Init
    /\ job = [p \in Peers |-> Idle]
    /\ files = [p \in Peers |-> {}]

Recipients(p) == {q \in shown[p] : IsReady(p, q)}

(* handleSendMessage or handleSendFile up to the first await.               *)
Submit(p, kind) ==
    /\ Move
    /\ active[p]
    /\ job[p] = Idle
    /\ Recipients(p) # {}
    /\ job' = [job EXCEPT ![p] = [kind |-> kind, to |-> Recipients(p)]]
    /\ UNCHANGED <<page, keys, up, down, links, relay, files>>

(* Mutant of Rest: the last recipient does not end the job.                  *)
RestOpen(p, q) == [job[p] EXCEPT !.to = @ \ {q}]

Rest(p, q) ==
    IF job[p].to = {q} THEN Idle ELSE [job[p] EXCEPT !.to = @ \ {q}]

(* After the await: the frame is sent, for the room and with the recipients *)
(* there were before it; whoever there is no secret with is passed over.    *)
(* Without a socket it is queued, and the queue is dropped when the page    *)
(* asks for its room again.                                                 *)
Encrypted(p, q) ==
    /\ q \in job[p].to
    /\ IF online[p] /\ q \in secrets[p]
       THEN Send(p, Message(job[p].kind, q))
       ELSE UNCHANGED up
    /\ job' = [job EXCEPT ![p] = Rest(p, q)]
    /\ UNCHANGED <<page, keys, down, links, relay, bounds, files>>

(* The sender's socket is in the room, and the recipient's is listed.       *)
Reaches(p, q) == Inside(p) /\ q \in members

(* forwardMessageToClient: the first socket listed for the recipient, which *)
(* may be an old one as long as the relay has not handled its close.        *)
Misses(p, q) == ~Reaches(p, q) \/ ghosts[q] > 0

ServeMessage(p) ==
    /\ up[p] # <<>>
    /\ LET frame == Head(up[p]) IN
        /\ frame.kind \in Kinds
        /\ \/ /\ Reaches(p, frame.to)
              /\ down' = [down EXCEPT ![frame.to] = Append(@, Notice(frame.kind, p))]
           \/ /\ Misses(p, frame.to)
              /\ UNCHANGED down
    /\ up' = [up EXCEPT ![p] = Tail(@)]
    /\ UNCHANGED <<page, keys, links, relay, bounds, chat>>

(* A file the relay does not take: the limits are those of FileFrames, and   *)
(* the header the longest.  What the page is told it does not look at.      *)
RefuseFile(p, size) ==
    /\ up[p] # <<>>
    /\ Head(up[p]).kind = "file"
    /\ Offered(size) /\ ~Taken(size, MaxHeader, MaxWrapping)
    /\ up' = [up EXCEPT ![p] = Tail(@)]
    /\ UNCHANGED <<page, keys, down, links, relay, bounds, chat>>

(* Mutant of ReceiveMessage: the secret is not asked for.                   *)
ReceiveMessageUnread(p) ==
    /\ Arrives(p)
    /\ LET frame == Head(down[p]) IN
        /\ frame.kind \in Kinds
        /\ files' = IF frame.kind = "file" THEN [files EXCEPT ![p] = @ \cup {frame.about}] ELSE files
    /\ UNCHANGED <<page, keys, up, links, relay, bounds, job>>

(* handleReceiveMessageFromServer: a file is kept to be downloaded.         *)
ReceiveMessage(p) ==
    /\ Arrives(p)
    /\ LET frame == Head(down[p]) IN
        /\ frame.kind \in Kinds
        /\ files' = IF frame.kind = "file" /\ frame.about \in secrets[p]
                    THEN [files EXCEPT ![p] = @ \cup {frame.about}]
                    ELSE files
    /\ UNCHANGED <<page, keys, up, links, relay, bounds, job>>

(* handleDownloadFile, with the secret there is by then.                    *)
CanDownload(p, q) == q \in secrets[p]

(* The other frames; the end of the room empties `messages`.                *)
ReceiveOther(p) ==
    /\ Receive(p)
    /\ files' = IF active'[p] THEN files ELSE [files EXCEPT ![p] = {}]
    /\ UNCHANGED job

ChatNext ==
    \/ \E p \in Peers :
        \/ \E kind \in Kinds : Submit(p, kind)
        \/ \E q \in Peers : Encrypted(p, q)
        \/ ServeMessage(p)
        \/ \E size \in 0 .. MaxFileBytes : RefuseFile(p, size)
        \/ ReceiveMessage(p)
        \/ /\ CreateRoom(p) \/ JoinRoom(p) \/ LeaveRoom(p)
           /\ files' = [files EXCEPT ![p] = {}]
           /\ UNCHANGED job
        \/ /\ Reload(p)
           /\ files' = [files EXCEPT ![p] = {}]
           /\ job' = [job EXCEPT ![p] = Idle]
        \/ ReceiveOther(p)
        \/ /\ \/ Redial(p) \/ Invite(p) \/ Open(p) \/ Drop(p) \/ Teardown(p)
              \/ ReceiveBye(p) \/ Serve(p) \/ ServeClose(p)
           /\ UNCHANGED chat
    \/ (Expire \/ Restart) /\ UNCHANGED chat

ChatSpec == ChatInit /\ [][ChatNext]_<<vars, chat>>

(* Frames that are on their way arrive and are handled, as are the closes   *)
(* of sockets, and a page whose socket closed connects again.               *)
Fairness ==
    \A p \in Peers :
        /\ WF_<<vars, chat>>(Open(p) /\ UNCHANGED chat)
        /\ WF_<<vars, chat>>(Serve(p) /\ UNCHANGED chat)
        /\ WF_<<vars, chat>>(ServeClose(p) /\ UNCHANGED chat)
        /\ WF_<<vars, chat>>(ServeMessage(p))
        /\ WF_<<vars, chat>>(ReceiveMessage(p))
        /\ WF_<<vars, chat>>(ReceiveOther(p))
        /\ WF_<<vars, chat>>(ReceiveBye(p) /\ UNCHANGED chat)

FairChatSpec == ChatSpec /\ Fairness

Together(p, q) == p \in members /\ q \in members /\ Trusts(p, q) /\ Trusts(q, p)

(* Of two pages that stay in the room and trust each other, each ends up    *)
(* ready for the other and stays so, through whatever reconnects, reloads   *)
(* and messages came before (handleKeyExchangeFromServer): unless the other *)
(* was overtaken by the close of its old socket, and dropped for it.        *)
Meet ==
    \A p \in Peers : \A q \in Peers \ {p} :
        <>[](Together(p, q) /\ q \notin overtaken) => <>[]IsReady(p, q)

(* Handshakes come to an end: once users and networks have done their last, *)
(* no key is sent any more, whoever answered whom and however joins, keys   *)
(* and resets crossed (onKeyReceived answers only what it has not sent to). *)
Quiet == <>[](\A p \in Peers : ~OnItsWay(Ask("key", NoToken), up[p]))

(* q has no secret with p and no key of p's on its way, though it would     *)
(* accept one, and the key is good.                                         *)
Unreadable(p, q) ==
    /\ p \notin secrets[q] \cup BadKeys
    /\ ~OnItsWay(Notice("key", p), down[q])
    /\ Trusts(q, p)

(* What the relay passes from one member to another can be read, by the     *)
(* time it is, if neither page has left and its sender still holds the      *)
(* receiver for ready, although it was encrypted behind an await and either *)
(* side may have reconnected or been reloaded meanwhile: save that one of   *)
(* the two is just back, so that the sender's new key is behind the message *)
(* or it has not been told.                                                 *)
DeliveredReadable ==
    [][\A p \in members : \A q \in members \ {p} :
        /\ ServeMessage(p) /\ Head(up[p]).to = q
        /\ active[p] /\ active[q] /\ IsReady(p, q) /\ Unreadable(p, q)
        => \/ OnItsWay(Notice("joined", q), down[p])
           \/ OnItsWay(Ask("key", NoToken), up[p])]_<<vars, chat>>

(* A file that is offered for download can be decrypted when the user gets  *)
(* round to it, whatever became of its sender (handleDownloadFile).         *)
FilesOpen == \A p \in Peers : \A q \in files[p] : CanDownload(p, q)

(* Of the files the page offers to send, the relay refuses none but empty   *)
(* ones, although it measures what a file has become on the way: neither    *)
(* side's limit, tag nor rounding of base64 keeps back the largest.         *)
OnlyEmptyFilesRefused ==
    [][\A p \in Peers, size \in 1 .. MaxFileBytes : ~RefuseFile(p, size)]_<<vars, chat>>
=============================================================================
