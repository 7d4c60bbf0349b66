----------------------------- MODULE ClientConn -----------------------------
(***************************************************************************)
(* One agent_remote_client::Client (client/src/lib.rs): concurrent calls    *)
(* that share a transport child's stdin, the reply map and the reader task. *)
(* A call is a fresh request id.  The server at the other end (external)    *)
(* reads requests, answers in any order or never, or dies.                  *)
(***************************************************************************)
EXTENDS Integers, Sequences, FiniteSets

CONSTANTS
    Calls,      \* the calls made on this Client
    NoCall,
    PipeCap     \* chunks the stdin pipe holds before a write blocks

ASSUME ConnAssumption == NoCall \notin Calls /\ PipeCap \in Nat \ {0}

VARIABLES
    pc,         \* where each call is in send_request_with_timeout
    result,     \* what it returned
    lock,       \* holder of the stdin mutex
    inbuf,      \* the child's stdin: chunks written and not yet read
    partial,    \* the request whose body the server has read without its newline
    heard,      \* requests the server has read in full and not answered
    out,        \* the child's stdout: answers not yet read
    alive,      \* the transport child runs
    map,        \* reply_map
    chan,       \* each call's oneshot channel
    closed,     \* the persistent close flag
    reader,     \* the reader task
    taken,      \* the sender the reader has just removed from the map
    waiting,    \* calls registered with closed_notify
    woken       \* calls notify_waiters() has woken

vars == <<pc, result, lock, inbuf, partial, heard, out, alive, map, chan, closed, reader,
          taken, waiting, woken>>

ServerVars == <<inbuf, partial, heard, out, alive>>
ReaderVars == <<closed, reader, taken>>

Init ==
    /\ pc = [c \in Calls |-> "idle"] /\ result = [c \in Calls |-> "none"]
    /\ lock = NoCall /\ inbuf = <<>> /\ partial = NoCall /\ heard = {} /\ out = <<>>
    /\ alive = TRUE
    /\ map = {} /\ chan = [c \in Calls |-> "none"]
    /\ closed = FALSE /\ reader = "read" /\ taken = NoCall
    /\ waiting = {} /\ woken = {}

(* A call gives up its Notified future and returns.                         *)
Return(c, r) ==
    /\ pc' = [pc EXCEPT ![c] = "done"]
    /\ result' = [result EXCEPT ![c] = r]
    /\ waiting' = waiting \ {c}
    /\ woken' = woken \ {c}

Go(c, from, to) == pc[c] = from /\ pc' = [pc EXCEPT ![c] = to]

-----------------------------------------------------------------------------
(* send_request_with_timeout.                                                *)

(* A Client whose transport has ended fails fast.                           *)
Refuse(c) ==
    /\ pc[c] = "idle" /\ closed
    /\ Return(c, "closed")
    /\ UNCHANGED <<lock, ServerVars, map, chan, ReaderVars>>

Enter(c) ==
    /\ ~closed /\ Go(c, "idle", "enter")
    /\ UNCHANGED <<result, lock, ServerVars, map, chan, ReaderVars, waiting, woken>>

Register(c) ==
    /\ Go(c, "enter", "lock")
    /\ map' = map \cup {c}
    /\ chan' = [chan EXCEPT ![c] = "open"]
    /\ UNCHANGED <<result, lock, ServerVars, ReaderVars, waiting, woken>>

(* Mutant of Lock: the stdin mutex is not taken.                            *)
LockNot(c) ==
    /\ Go(c, "lock", "body")
    /\ UNCHANGED <<result, lock, ServerVars, map, chan, ReaderVars, waiting, woken>>

Lock(c) ==
    /\ lock = NoCall /\ Go(c, "lock", "body")
    /\ lock' = c
    /\ UNCHANGED <<result, ServerVars, map, chan, ReaderVars, waiting, woken>>

Write(c, part) ==
    /\ alive /\ Len(inbuf) < PipeCap
    /\ inbuf' = Append(inbuf, [call |-> c, part |-> part])

WriteBody(c) ==
    /\ Go(c, "body", "newline") /\ Write(c, "body")
    /\ UNCHANGED <<result, lock, partial, heard, out, alive, map, chan, ReaderVars, waiting,
                   woken>>

WriteNewline(c) ==
    /\ Go(c, "newline", "poll") /\ Write(c, "newline")
    /\ lock' = NoCall
    /\ UNCHANGED <<result, partial, heard, out, alive, map, chan, ReaderVars, waiting, woken>>

(* A broken pipe returns through `?`: the reply map keeps the entry.        *)
WriteFails(c) ==
    /\ pc[c] \in {"body", "newline"} /\ ~alive
    /\ Return(c, "io")
    /\ lock' = NoCall
    /\ UNCHANGED <<ServerVars, map, chan, ReaderVars>>

-----------------------------------------------------------------------------
(* The select: wait_closed() first, then the timeout, then the reply.       *)

(* wait_closed: the flag is already set.                                    *)
SeesClosed(c) ==
    /\ pc[c] \in {"poll", "recheck"} /\ closed
    /\ Return(c, "closed")
    /\ UNCHANGED <<lock, ServerVars, map, chan, ReaderVars>>

(* It is not: a Notified future is made, and the flag looked at again.      *)
Subscribe(c) ==
    /\ ~closed /\ Go(c, "poll", "subscribe")
    /\ UNCHANGED <<result, lock, ServerVars, map, chan, ReaderVars, waiting, woken>>

Subscribed(c) ==
    /\ Go(c, "subscribe", "recheck")
    /\ waiting' = waiting \cup {c}
    /\ UNCHANGED <<result, lock, ServerVars, map, chan, ReaderVars, woken>>

Await(c) ==
    /\ ~closed /\ Go(c, "recheck", "await")
    /\ UNCHANGED <<result, lock, ServerVars, map, chan, ReaderVars, waiting, woken>>

WakeClosed(c) ==
    /\ pc[c] = "await" /\ c \in woken
    /\ Return(c, "closed")
    /\ UNCHANGED <<lock, ServerVars, map, chan, ReaderVars>>

(* Mutant of Timeout: the waiter stays in the reply map.                    *)
TimeoutKeeps(c) ==
    /\ pc[c] = "await" /\ c \notin woken
    /\ Return(c, "timeout")
    /\ UNCHANGED <<lock, ServerVars, map, chan, ReaderVars>>

(* Mutant of Timeout: the timer is only armed for a dead transport.          *)
TimeoutDead(c) ==
    /\ pc[c] = "await" /\ c \notin woken /\ ~alive
    /\ Return(c, "timeout")
    /\ map' = map \ {c}
    /\ UNCHANGED <<lock, ServerVars, chan, ReaderVars>>

Timeout(c) ==
    /\ pc[c] = "await" /\ c \notin woken
    /\ Return(c, "timeout")
    /\ map' = map \ {c}
    /\ UNCHANGED <<lock, ServerVars, chan, ReaderVars>>

Receive(c) ==
    /\ pc[c] = "await" /\ c \notin woken /\ chan[c] \in {"sent", "dropped"}
    /\ Return(c, IF chan[c] = "sent" THEN "reply" ELSE "closed")
    /\ UNCHANGED <<lock, ServerVars, map, chan, ReaderVars>>

CallStep(c) ==
    \/ Refuse(c) \/ Enter(c) \/ Register(c) \/ Lock(c) \/ WriteBody(c) \/ WriteNewline(c)
    \/ WriteFails(c) \/ SeesClosed(c) \/ Subscribe(c) \/ Subscribed(c) \/ Await(c)
    \/ WakeClosed(c) \/ Receive(c)

-----------------------------------------------------------------------------
(* reader_loop and what connect()'s task does after it.                     *)

(* Mutant of ReaderTake: any waiter gets the answer.                         *)
ReaderTakeAny ==
    /\ reader = "read" /\ out # <<>>
    /\ out' = Tail(out)
    /\ \/ \E c \in map : map' = map \ {c} /\ taken' = c /\ reader' = "send"
       \/ map = {} /\ UNCHANGED <<map, taken, reader>>
    /\ UNCHANGED <<pc, result, lock, inbuf, partial, heard, alive, chan, closed, waiting, woken>>

ReaderTake ==
    /\ reader = "read" /\ out # <<>>
    /\ out' = Tail(out)
    /\ map' = map \ {Head(out)}
    /\ \/ /\ Head(out) \in map
          /\ taken' = Head(out) /\ reader' = "send"
       \/ /\ Head(out) \notin map          \* no handler for message
          /\ UNCHANGED <<taken, reader>>
    /\ UNCHANGED <<pc, result, lock, inbuf, partial, heard, alive, chan, closed, waiting, woken>>

ReaderSend ==
    /\ reader = "send"
    /\ chan' = [chan EXCEPT ![taken] = "sent"]
    /\ taken' = NoCall /\ reader' = "read"
    /\ UNCHANGED <<pc, result, lock, ServerVars, map, closed, waiting, woken>>

ReaderEof ==
    /\ reader = "read" /\ out = <<>> /\ ~alive
    /\ reader' = "flag"
    /\ UNCHANGED <<pc, result, lock, ServerVars, map, chan, closed, taken, waiting, woken>>

(* A read error (not UTF-8, say) ends the loop while the child still runs.    *)
ReaderError ==
    /\ reader = "read" /\ alive
    /\ reader' = "flag"
    /\ UNCHANGED <<pc, result, lock, ServerVars, map, chan, closed, taken, waiting, woken>>

(* Mutant of ReaderFlag: waiters are woken, but nothing outlasts the wakeup. *)
ReaderFlagNot ==
    /\ reader = "flag"
    /\ reader' = "drain"
    /\ UNCHANGED <<pc, result, lock, ServerVars, map, chan, closed, taken, waiting, woken>>

ReaderFlag ==
    /\ reader = "flag"
    /\ closed' = TRUE
    /\ reader' = "drain"
    /\ UNCHANGED <<pc, result, lock, ServerVars, map, chan, taken, waiting, woken>>

ReaderDrain ==
    /\ reader = "drain"
    /\ map' = {}
    /\ chan' = [c \in Calls |-> IF c \in map THEN "dropped" ELSE chan[c]]
    /\ reader' = "notify"
    /\ UNCHANGED <<pc, result, lock, ServerVars, closed, taken, waiting, woken>>

ReaderNotify ==
    /\ reader = "notify"
    /\ woken' = waiting
    /\ reader' = "gone"
    /\ UNCHANGED <<pc, result, lock, ServerVars, map, chan, closed, taken, waiting>>

ReaderStep ==
    ReaderTake \/ ReaderSend \/ ReaderEof \/ ReaderFlag \/ ReaderDrain \/ ReaderNotify

-----------------------------------------------------------------------------
(* The server end of the pipes.                                             *)

ServerRead ==
    /\ alive /\ inbuf # <<>>
    /\ inbuf' = Tail(inbuf)
    /\ \/ /\ Head(inbuf).part = "body"
          /\ partial' = Head(inbuf).call
          /\ UNCHANGED heard
       \/ /\ Head(inbuf).part = "newline"
          /\ heard' = heard \cup {partial}
          /\ partial' = NoCall
    /\ UNCHANGED <<pc, result, lock, out, alive, map, chan, ReaderVars, waiting, woken>>

ServerAnswer(c) ==
    /\ alive /\ c \in heard
    /\ heard' = heard \ {c}
    /\ out' = Append(out, c)
    /\ UNCHANGED <<pc, result, lock, inbuf, partial, alive, map, chan, ReaderVars, waiting,
                   woken>>

ServerDies ==
    /\ alive
    /\ alive' = FALSE
    /\ UNCHANGED <<pc, result, lock, inbuf, partial, heard, out, map, chan, ReaderVars, waiting,
                   woken>>

Idle ==
    /\ \A c \in Calls : pc[c] = "done"
    /\ UNCHANGED vars

Next ==
    \/ \E c \in Calls : CallStep(c) \/ Timeout(c) \/ ServerAnswer(c)
    \/ ReaderStep \/ ReaderError \/ ServerRead \/ ServerDies \/ Idle

Spec == Init /\ [][Next]_vars

(* The runtime polls ready tasks and its mutex is first come first served.   *)
(* The server owes nothing, and timers have their own assumption.            *)
Fairness ==
    /\ \A c \in Calls : WF_vars(CallStep(c)) /\ SF_vars(Lock(c))
    /\ WF_vars(ReaderStep)

FairSpec == Spec /\ Fairness

(* tokio's time driver: a timer that is due fires.                            *)
TimersFire == \A c \in Calls : WF_vars(Timeout(c))

-----------------------------------------------------------------------------
(* Properties.                                                               *)

CallPcs == {"idle", "enter", "lock", "body", "newline", "poll", "subscribe", "recheck",
            "await", "done"}

TypeOK ==
    /\ pc \in [Calls -> CallPcs]
    /\ result \in [Calls -> {"none", "closed", "io", "timeout", "reply"}]
    /\ lock \in Calls \cup {NoCall} /\ partial \in Calls \cup {NoCall}
    /\ inbuf \in Seq([call : Calls, part : {"body", "newline"}])
    /\ heard \in SUBSET Calls /\ out \in Seq(Calls) /\ alive \in BOOLEAN
    /\ map \in SUBSET Calls /\ waiting \in SUBSET Calls /\ woken \in SUBSET Calls
    /\ chan \in [Calls -> {"none", "open", "sent", "dropped"}]
    /\ closed \in BOOLEAN
    /\ reader \in {"read", "send", "flag", "drain", "notify", "gone"}
    /\ taken \in Calls \cup {NoCall}

(* What the server has read of an unfinished line, and the pipe behind it.    *)
Stream ==
    (IF partial = NoCall THEN <<>> ELSE <<[call |-> partial, part |-> "body"]>>) \o inbuf

(* Request lines are written under the stdin mutex: whatever the calls do,    *)
(* the bytes the server has read and the bytes in the pipe are whole lines,  *)
(* with at most the last one unfinished.                                     *)
WholeLines ==
    \A i \in 1..Len(Stream) :
        /\ (i % 2 = 1) <=> Stream[i].part = "body"
        /\ i % 2 = 0 => Stream[i].call = Stream[i - 1].call

(* A call told "closed" leaves is_closed() true, which is what makes the next *)
(* tool call reconnect (mcp, client()) instead of using a dead Client again.  *)
ClosedIsFinal == \A c \in Calls : result[c] = "closed" => closed

(* While the connection is open, the reply map holds calls that still wait;   *)
(* a call that timed out has left it, so its late answer reaches nobody.      *)
NoStaleWaiter ==
    \A c \in map : pc[c] # "done" \/ result[c] = "io" \/ closed

(* No answer is invented or handed to the wrong call: a call that got one had *)
(* been read by the server in full, and answered once.                        *)
Answered(c) == c \notin heard /\ \A i \in 1..Len(out) : out[i] # c
TrueReply ==
    \A c \in Calls : result[c] = "reply" =>
        Answered(c) /\ \A i \in 1..Len(inbuf) : inbuf[i].call # c

(* lib.rs, "the lost-wakeup window of a bare Notify": when the reader ends,   *)
(* on EOF or on an error of a server that still runs, every call that waits   *)
(* or comes to wait returns, even if no timer ever fires and however its      *)
(* steps interleave with the reader's last ones; when the child is gone, so   *)
(* do the calls that still have to write.                                     *)
EofReturns ==
    \A c \in Calls :
        /\ reader \notin {"read", "send"} /\ pc[c] \in {"poll", "subscribe", "recheck", "await"}
              ~> pc[c] = "done"
        /\ ~alive /\ pc[c] # "idle" ~> pc[c] = "done"

(* Once its line is written, a call returns whatever the server does, as long *)
(* as timers fire.                                                            *)
WrittenReturns == TimersFire => \A c \in Calls : pc[c] = "poll" ~> pc[c] = "done"

(* Concurrent calls are kept apart, on the way out and on the way back.      *)
CallsKeptApart == TypeOK /\ WholeLines /\ TrueReply
=============================================================================
