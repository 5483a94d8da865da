------------------------------ MODULE WSWrite -------------------------------
(***************************************************************************)
(* A WebSocket connection that is also written to: users call Write, and   *)
(* msgLoop writes what OnPacket returns, each on its own goroutine and     *)
(* without a lock, while WSConn reads and closes.  Write and write both    *)
(* test connected, and only then is the message the library's, which takes *)
(* it while the peer reads, blocks while it does not, and fails once the   *)
(* connection is closed.  Two goroutines in the library may make it panic. *)
(***************************************************************************)
EXTENDS WSConn

CONSTANT Writers     \* calls of Write by users

ASSUME WriterAssumption == Writers \cap Procs = {}

Writing == Writers \cup {Loop}

VARIABLES
    wpc,         \* "idle"; "again", before write's test of connected; "write", in the
                 \* library; "done"; msgLoop goes back to "idle"
    result,      \* what Write returned: "none" yet, "nil" or an "error"
    silent,      \* the peer's socket takes no more
    (* history *)
    sent,        \* the calls of Write whose message the library has taken
    lateSent,    \* lateSent[p]: messages of p taken after connected was cleared
    atClear      \* wpc when connected was cleared

writeVars == <<wpc, result, silent, sent, lateSent>>

WInit ==
    /\ Init
    /\ wpc = [p \in Writing |-> "idle"]
    /\ result = [p \in Writers |-> "none"]
    /\ silent = FALSE
    /\ sent = {} /\ lateSent = [p \in Writing |-> 0]
    /\ atClear = [p \in Writing |-> "none"]

Move(p, from, to) == wpc[p] = from /\ wpc' = [wpc EXCEPT ![p] = to]

\* Where p goes on after write: msgLoop does not look at the error.
After(p) == IF p = Loop THEN "idle" ELSE "done"

Returns(p, error) ==
    result' = IF p \in Writers THEN [result EXCEPT ![p] = error] ELSE result

----------------------------------------------------------------------------
WriteCall(p) ==
    /\ introduced
    /\ Move(p, "idle", IF connected THEN "again" ELSE "done")
    /\ Returns(p, IF connected THEN "none" ELSE "error")
    /\ UNCHANGED <<vars, silent, sent, lateSent, atClear>>

\* A write that leaves the test to Write.
WriteTestNothing(p) ==
    /\ Move(p, "again", "write")
    /\ UNCHANGED <<vars, result, silent, sent, lateSent, atClear>>

\* A connection closed by now takes no message, which is no error.
WriteTest(p) ==
    /\ Move(p, "again", IF connected THEN "write" ELSE After(p))
    /\ Returns(p, IF connected THEN "none" ELSE "nil")
    /\ UNCHANGED <<vars, silent, sent, lateSent, atClear>>

WriteMessage(p) ==
    /\ Move(p, "write", After(p))
    /\ connOpen /\ ~silent
    /\ Returns(p, "nil")
    /\ sent' = sent \cup ({p} \cap Writers)
    /\ lateSent' = IF connected THEN lateSent ELSE [lateSent EXCEPT ![p] = @ + 1]
    /\ UNCHANGED <<vars, silent, atClear>>

\* A write that drops the library's error.
WriteFailsSilently(p) ==
    /\ Move(p, "write", After(p))
    /\ ~connOpen \/ ended
    /\ Returns(p, "nil")
    /\ UNCHANGED <<vars, silent, sent, lateSent, atClear>>

\* The connection was closed, or the peer has left.
WriteFails(p) ==
    /\ Move(p, "write", After(p))
    /\ ~connOpen \/ ended
    /\ Returns(p, "error")
    /\ UNCHANGED <<vars, silent, sent, lateSent, atClear>>

Write(p) == WriteTest(p) \/ WriteMessage(p) \/ WriteFails(p)

\* The library notices that two goroutines write.
Panic ==
    /\ \E p, q \in Writing : p # q /\ wpc[p] = "write" /\ wpc[q] = "write"
    /\ crashed' = TRUE
    /\ UNCHANGED <<connVars, introduced, pc, packet, peerVars, history, writeVars, atClear>>

\* For good: that it reads again later is the library's taking its time.
PeerStalls ==
    /\ ~silent /\ ~ended /\ connOpen
    /\ silent' = TRUE
    /\ UNCHANGED <<vars, wpc, result, sent, lateSent, atClear>>

----------------------------------------------------------------------------
(* What WSConn has                                                         *)

NotesClear == atClear' = IF connected /\ ~connected' THEN wpc ELSE atClear

\* OnPacket returns a reply, or none.
ReplyOrNot ==
    /\ OnPacket
    /\ Move(Loop, "idle", "again") \/ UNCHANGED wpc
    /\ UNCHANGED <<result, silent, sent, lateSent, atClear>>

\* msgLoop goes on once its reply is written.
LoopGoesOn ==
    \/ wpc[Loop] = "idle" /\ ReplyOrNot
    \/ /\ wpc[Loop] = "idle" /\ MsgLoop /\ pc[Loop] # "packet"
       /\ NotesClear /\ UNCHANGED writeVars
    \/ Write(Loop)

CallerCloses(p) == HandleClose(p) /\ NotesClear /\ UNCHANGED writeVars

WNext ==
    /\ ~crashed
    /\ \/ \E p \in Writers : WriteCall(p) \/ Write(p)
       \/ \E p \in Calls : CallerCloses(p)
       \/ (OnConnect \/ PeerSend \/ PeerEnd \/ \E p \in Calls : CloseCall(p))
              /\ UNCHANGED <<writeVars, atClear>>
       \/ LoopGoesOn
       \/ PeerStalls \/ Panic

allVars == <<vars, writeVars, atClear>>

WriteSpec == WInit /\ [][WNext]_allVars

\* As in WSConn, and a Write under way goes on when it can: the peer need not
\* read.
FairWriteSpec ==
    /\ WriteSpec
    /\ \A p \in Writers : WF_writeVars(~crashed /\ Write(p))
    /\ \A p \in Calls : WF_vars(~crashed /\ CallerCloses(p))
    /\ WF_<<vars, writeVars>>(~crashed /\ LoopGoesOn)

----------------------------------------------------------------------------
\* Write returns nil for a message that was never given to the library only if
\* the connection was closed between the tests of connected in Write and in
\* write (conn_ws.go:88); one closed earlier or later is an error.
NilMeansSent ==
    \A p \in Writers : result[p] = "nil" => p \in sent \/ atClear[p] = "again"

\* After the clearing of connected, and so in and after OnClose, only messages
\* go out that were in the library then, one of each goroutine.
LateOnlyIfBegun == \A p \in Writing : lateSent[p] <= IF atClear[p] = "write" THEN 1 ELSE 0

\* Closing the connection frees the calls of Write that a peer that does not
\* read has blocked, as MsgLoopEnds says of a reply.
CloseFreesWriters ==
    ~connected ~> crashed \/ \A p \in Writers : wpc[p] \in {"idle", "done"}
=============================================================================
