------------------------------ MODULE Reconnect ------------------------------
(***************************************************************************)
(* Tool calls of the MCP server that share the connection slot of one        *)
(* workspace, the connections they make, and the server process at the far   *)
(* end of each, which must have the lock of the state directory to serve.    *)
(* The link (ssh) is external: it breaks without telling the far end, which  *)
(* then keeps the lock until it notices.                                     *)
(***************************************************************************)
EXTENDS Naturals, FiniteSets

CONSTANTS
    Calls, NoCall,
    Attempts,     \* CONNECT_ATTEMPTS
    MaxFaults     \* bound: broken links, dead servers, failed spawns, failed reads, timeouts

ASSUME ReconnectAssumption == Attempts \in Nat \ {0} /\ MaxFaults \in Nat /\ NoCall \notin Calls

(* A connection is named by the call and the attempt that make it; Earlier is *)
(* one that an earlier MCP process left behind.                              *)
Earlier == <<NoCall, 0>>
NoConn == <<NoCall, 1>>
Conns == (Calls \X (1..Attempts)) \cup {Earlier}

VARIABLES
    call,    \* each tool call: where it is, its connection and attempt
    mutex,   \* who holds the slot's mutex
    slot,    \* the connection in the slot
    conn,    \* each connection: link, server process, the Client's closed flag
    lock,    \* the connection whose server holds the directory lock
    faults   \* faults left

vars == <<call, mutex, slot, conn, lock, faults>>

NotMade == [link |-> "gone", srv |-> "none", closed |-> FALSE]
Made == [link |-> "up", srv |-> "starting", closed |-> FALSE]
LeftBehind == [link |-> "cut", srv |-> "serving", closed |-> TRUE]

TypeOK ==
    /\ call \in [Calls -> [at : {"start", "connect", "probe", "use", "ok", "error", "failed"},
                           n : Conns \union {NoConn}, attempt : 0..(Attempts + 1)]]
    /\ mutex \in Calls \union {NoCall}
    /\ slot \in Conns \union {NoConn} /\ lock \in Conns \union {NoConn}
    /\ conn \in [Conns -> [link : {"up", "cut", "gone"},
                           srv : {"none", "starting", "serving", "exited"}, closed : BOOLEAN]]
    /\ faults \in 0..MaxFaults

Init ==
    /\ call = [c \in Calls |-> [at |-> "start", n |-> NoConn, attempt |-> 0]]
    /\ mutex = NoCall /\ slot = NoConn
    /\ \/ conn = [n \in Conns |-> NotMade] /\ lock = NoConn
       \/ /\ conn = [n \in Conns |-> IF n = Earlier THEN LeftBehind ELSE NotMade]
          /\ lock = Earlier
    /\ faults = MaxFaults

(* Mutant of Held: a Client whose probe failed is kept.                      *)
HeldForever(n) == conn[n].srv # "none" /\ n # Earlier

(* The Client of n is in the slot or in a call's hands, so its stdin is open. *)
Held(n) == slot = n \/ \E c \in Calls : call[c].n = n

StdinEnded(n) == conn[n].link = "gone" \/ (conn[n].link = "up" /\ ~Held(n))
Fault == faults > 0 /\ faults' = faults - 1

-----------------------------------------------------------------------------
(* client().                                                                 *)

(* Mutant of Enter: whatever is in the slot is used.                         *)
EnterBlind(c) ==
    /\ call[c].at = "start"
    /\ mutex = NoCall
    /\ IF slot # NoConn
         THEN /\ call' = [call EXCEPT ![c].at = "use", ![c].n = slot]
              /\ UNCHANGED mutex
         ELSE /\ call' = [call EXCEPT ![c].at = "connect", ![c].attempt = 1]
              /\ mutex' = c
    /\ UNCHANGED <<slot, conn, lock, faults>>

(* The slot's connection if it is not known to be closed, or a new one.       *)
Enter(c) ==
    /\ call[c].at = "start"
    /\ mutex = NoCall
    /\ IF slot # NoConn /\ ~conn[slot].closed
         THEN /\ call' = [call EXCEPT ![c].at = "use", ![c].n = slot]
              /\ UNCHANGED mutex
         ELSE /\ call' = [call EXCEPT ![c].at = "connect", ![c].attempt = 1]
              /\ mutex' = c
    /\ UNCHANGED <<slot, conn, lock, faults>>

(* Mutant of Connect: one attempt too many.                                  *)
ConnectOnceMore(c) ==
    /\ call[c].at = "connect" /\ call[c].attempt <= Attempts + 1
    /\ conn' = [conn EXCEPT ![<<c, call[c].attempt>>] = Made]
    /\ call' = [call EXCEPT ![c].at = "probe", ![c].n = <<c, call[c].attempt>>]
    /\ UNCHANGED <<mutex, slot, lock, faults>>

Connect(c) ==
    /\ call[c].at = "connect" /\ call[c].attempt <= Attempts
    /\ conn' = [conn EXCEPT ![<<c, call[c].attempt>>] = Made]
    /\ call' = [call EXCEPT ![c].at = "probe", ![c].n = <<c, call[c].attempt>>]
    /\ UNCHANGED <<mutex, slot, lock, faults>>

(* This attempt is over; its Client, if any, is dropped.                     *)
NextAttempt(c) ==
    call' = [call EXCEPT ![c].at = "connect", ![c].n = NoConn, ![c].attempt = @ + 1]

ConnectFails(c) ==
    /\ call[c].at = "connect" /\ call[c].attempt <= Attempts
    /\ Fault
    /\ NextAttempt(c)
    /\ UNCHANGED <<mutex, slot, conn, lock>>

Answers(n) == conn[n].srv = "serving" /\ conn[n].link = "up" /\ ~conn[n].closed

(* Mutant of ProbeOk: the connection goes into the slot unprobed.            *)
ProbeSkipped(c) ==
    /\ call[c].at = "probe"
    /\ slot' = call[c].n
    /\ mutex' = NoCall
    /\ call' = [call EXCEPT ![c].at = "use"]
    /\ UNCHANGED <<conn, lock, faults>>
(* Mutant of ProbeOk: the mutex is not released.                             *)
ProbeOkHolding(c) ==
    /\ call[c].at = "probe"
    /\ Answers(call[c].n)
    /\ slot' = call[c].n
    /\ call' = [call EXCEPT ![c].at = "use"]
    /\ UNCHANGED <<mutex, conn, lock, faults>>
ProbeOk(c) ==
    /\ call[c].at = "probe"
    /\ Answers(call[c].n)
    /\ slot' = call[c].n
    /\ mutex' = NoCall
    /\ call' = [call EXCEPT ![c].at = "use"]
    /\ UNCHANGED <<conn, lock, faults>>

ProbeClosed(c) ==
    /\ call[c].at = "probe"
    /\ conn[call[c].n].closed
    /\ NextAttempt(c)
    /\ UNCHANGED <<mutex, slot, conn, lock, faults>>

(* The server is there but does not answer in time.                          *)
ProbeTimeout(c) ==
    /\ call[c].at = "probe"
    /\ Fault
    /\ NextAttempt(c)
    /\ UNCHANGED <<mutex, slot, conn, lock>>

GiveUp(c) ==
    /\ call[c].at = "connect" /\ call[c].attempt > Attempts
    /\ call' = [call EXCEPT ![c].at = "failed"]
    /\ mutex' = NoCall
    /\ UNCHANGED <<slot, conn, lock, faults>>

-----------------------------------------------------------------------------
(* The tool's own request, never repeated.                                   *)

UseOk(c) ==
    /\ call[c].at = "use"
    /\ Answers(call[c].n)
    /\ call' = [call EXCEPT ![c].at = "ok", ![c].n = NoConn]
    /\ UNCHANGED <<mutex, slot, conn, lock, faults>>

UseClosed(c) ==
    /\ call[c].at = "use"
    /\ conn[call[c].n].closed
    /\ call' = [call EXCEPT ![c].at = "error", ![c].n = NoConn]
    /\ UNCHANGED <<mutex, slot, conn, lock, faults>>

UseTimeout(c) ==
    /\ call[c].at = "use"
    /\ Fault
    /\ call' = [call EXCEPT ![c].at = "error", ![c].n = NoConn]
    /\ UNCHANGED <<mutex, slot, conn, lock>>

(* The Client's reader sees the end of the transport's stdout.  (A Client     *)
(* nobody holds has nobody to tell.)                                         *)
ReaderSees(n) ==
    /\ Held(n) /\ ~conn[n].closed
    /\ conn[n].link # "up" \/ conn[n].srv = "exited"
    /\ conn' = [conn EXCEPT ![n].closed = TRUE]
    /\ UNCHANGED <<call, mutex, slot, lock, faults>>

(* A read error (a line that is not UTF-8, say) ends the reader in the same   *)
(* way while the transport and the server go on: only dropping the Client,    *)
(* and with it stdin, ends them.                                             *)
ReaderFails(n) ==
    /\ Held(n) /\ ~conn[n].closed
    /\ conn[n].link = "up" /\ conn[n].srv # "exited"
    /\ Fault
    /\ conn' = [conn EXCEPT ![n].closed = TRUE]
    /\ UNCHANGED <<call, mutex, slot, lock>>

-----------------------------------------------------------------------------
(* The server process: acquire_dir_lock, then serve until stdin ends.  While  *)
(* it waits for the lock it does not look at stdin.                          *)

TakeLock(n) ==
    /\ conn[n].srv = "starting"
    /\ lock = NoConn
    /\ lock' = n
    /\ conn' = [conn EXCEPT ![n].srv = "serving"]
    /\ UNCHANGED <<call, mutex, slot, faults>>

(* The grace period is taken to outlast the shutdown of a server whose stdin  *)
(* has ended, which is what the code chose it for.                           *)
GraceExpires(n) ==
    /\ conn[n].srv = "starting"
    /\ lock # NoConn /\ ~StdinEnded(lock)
    /\ conn' = [conn EXCEPT ![n].srv = "exited"]
    /\ UNCHANGED <<call, mutex, slot, lock, faults>>

Exits(n) ==
    /\ conn' = [conn EXCEPT ![n].srv = "exited"]
    /\ lock' = IF lock = n THEN NoConn ELSE lock

(* Mutant of SeesEof: the server waits for the link, not for stdin.          *)
SeesGone(n) ==
    /\ conn[n].srv = "serving"
    /\ conn[n].link = "gone"
    /\ Exits(n)
    /\ UNCHANGED <<call, mutex, slot, faults>>
SeesEof(n) ==
    /\ conn[n].srv = "serving"
    /\ StdinEnded(n)
    /\ Exits(n)
    /\ UNCHANGED <<call, mutex, slot, faults>>

ServerDies(n) ==
    /\ conn[n].srv \in {"starting", "serving"}
    /\ Fault
    /\ Exits(n)
    /\ UNCHANGED <<call, mutex, slot>>

(* The client's end of the link goes; the far end learns of it later.        *)
LinkBreaks(n) ==
    /\ conn[n].link = "up" /\ conn[n].srv # "exited"
    /\ Fault
    /\ conn' = [conn EXCEPT ![n].link = "cut"]
    /\ UNCHANGED <<call, mutex, slot, lock>>

FarEndNotices(n) ==
    /\ conn[n].link = "cut" /\ conn[n].srv # "exited"
    /\ conn' = [conn EXCEPT ![n].link = "gone"]
    /\ UNCHANGED <<call, mutex, slot, lock, faults>>

Returned(c) == call[c].at \in {"ok", "error", "failed"}
Stop == (\A c \in Calls : Returned(c)) /\ UNCHANGED vars

CallStep(c) ==
    \/ Connect(c) \/ ProbeOk(c) \/ ProbeClosed(c) \/ GiveUp(c) \/ UseOk(c) \/ UseClosed(c)
ServerStep(n) == TakeLock(n) \/ GraceExpires(n) \/ SeesEof(n)

Next ==
    \/ \E c \in Calls :
        \/ Enter(c) \/ CallStep(c)
        \/ ConnectFails(c) \/ ProbeTimeout(c) \/ UseTimeout(c)
    \/ \E n \in Conns : \/ ReaderSees(n) \/ ServerStep(n) \/ FarEndNotices(n)
                        \/ ServerDies(n) \/ LinkBreaks(n) \/ ReaderFails(n)
    \/ Stop

Spec == Init /\ [][Next]_vars
(* Calls are polled and the slot's mutex is first come first served; servers  *)
(* and readers are running programs; and (external) the far end of a broken   *)
(* link notices in the end.  Faults are never forced.                        *)
FairSpec ==
    /\ Spec
    /\ \A c \in Calls : SF_vars(Enter(c)) /\ WF_vars(CallStep(c))
    /\ \A n \in Conns : WF_vars(ReaderSees(n)) /\ WF_vars(ServerStep(n)) /\ WF_vars(FarEndNotices(n))

-----------------------------------------------------------------------------
(* As long as nothing has happened to it, the connection that calls share is  *)
(* the one whose server has the state directory: what was probed stays usable *)
(* although other servers of this or an earlier process start and exit.      *)
SlotServes ==
    slot # NoConn /\ conn[slot].link = "up" /\ conn[slot].srv # "exited" => lock = slot

(* The same with the types: at most Attempts connections a call.             *)
SlotSound == TypeOK /\ SlotServes

(* A server that a call is waiting for gives up on the lock only because of   *)
(* a lost one: its link is cut and it has not noticed, or it is still that of *)
(* the slot, whose Client is closed but not dropped.  A Client that failed its *)
(* probe, or that a call was still using, never blocks.  (The second case is   *)
(* real: after a read error this process blocks itself.)                     *)
BlockedByLost ==
    [][\A n \in Conns : GraceExpires(n) /\ Held(n) =>
        conn[lock].link = "cut" \/ (lock = slot /\ conn[slot].closed)]_vars

(* Every tool call returns, whatever breaks and however calls queue up for    *)
(* the slot.                                                                 *)
CallsReturn == \A c \in Calls : <>Returned(c)

(* README.md 251: "so a killed session cannot leave an orphaned connection    *)
(* holding the remote state lock".  A server that nobody talks to any more    *)
(* exits, also one that got the lock only after its client had left.         *)
NoOrphan ==
    \A n \in Conns : (conn[n].srv \in {"starting", "serving"} /\ ~Held(n)) ~> conn[n].srv = "exited"

(* Nobody hangs: calls come back, and servers nobody needs go away.           *)
NobodyHangs == CallsReturn /\ NoOrphan

(* Once faults are over and everyone has learned of those there were, a call  *)
(* that begins succeeds; unless a read error has left a Client in the slot     *)
(* that is closed while its server lives, which nothing ever replaces.       *)
SlotDeaf ==
    slot # NoConn /\ conn[slot].closed /\ conn[slot].link = "up" /\ conn[slot].srv # "exited"
Settled ==
    /\ faults = 0 /\ ~SlotDeaf
    /\ \A n \in Conns : conn[n].link # "cut" \/ conn[n].srv = "exited"
    /\ \A n \in Conns : Held(n) /\ (conn[n].link # "up" \/ conn[n].srv = "exited") => conn[n].closed
Recovers == \A c \in Calls : (Settled /\ call[c].at = "start") ~> call[c].at = "ok"
=============================================================================
