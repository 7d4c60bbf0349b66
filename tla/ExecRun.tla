------------------------------- MODULE ExecRun -------------------------------
(***************************************************************************)
(* One exec request from its checks to its result: the command's processes,  *)
(* the two pipes, the reader tasks, the bounded channel, the select loop     *)
(* with its timeout, the bounded drain, and the output windows.  What the    *)
(* processes do (write, fork, redirect, leave the process group, exit) is    *)
(* external.  The k-th byte of a stream is the number k, so that a window    *)
(* says which bytes it holds.                                                *)
(***************************************************************************)
EXTENDS Naturals, Sequences, FiniteSets, SequencesExt

CONSTANTS
    Procs, Leader,  \* the direct child and the descendants it may have
    Streams,        \* stdout and stderr
    PrefixLimit, SuffixLimit,
    ReadSize,       \* most bytes one read returns
    ChanCap,        \* events the channel holds
    PipeCap,        \* bytes a pipe holds
    MaxTimeout,     \* MAX_TIMEOUT_MS
    MaxBytes        \* bound: bytes all processes write

ASSUME ExecAssumption ==
    /\ Leader \in Procs
    /\ {PrefixLimit, SuffixLimit, ReadSize, ChanCap, PipeCap, MaxTimeout} \subseteq Nat \ {0}
    /\ MaxBytes \in Nat

VARIABLES
    req,      \* the request, and whether the system can run it
    pc,       \* the exec task: "check", "spawn", "loop", "reap", "drain", or how it ended
    proc,     \* each process: life, in the leader's group or not, the pipes it holds
    written,  \* bytes written to each stream
    pipe,     \* bytes in each pipe
    rd,       \* each reader task: "read", or "send" with a chunk, or "done"
    chan,     \* events in the channel
    cap,      \* the OutputCapture of each stream
    out       \* termination, drain_timed_out and error code of the outcome

vars == <<req, pc, proc, written, pipe, rd, chan, cap, out>>
procVars == <<proc, written>>
ioVars == <<pipe, rd, chan, cap>>

Ended == {"done", "rejected", "waitfailed", "dropped"}
Bytes == Nat \ {0}
IsChunk(q) == q \in Seq(Bytes) /\ Len(q) <= ReadSize
NoProc == [life |-> "none", grp |-> FALSE, fds |-> {}]
NoOutput == [prefix |-> <<>>, suffix |-> <<>>, total |-> 0]
NoOutcome == [term |-> "none", drain |-> FALSE, code |-> "none"]

Alive(p) == proc[p].life = "alive"
Holders(s) == {p \in Procs : Alive(p) /\ s \in proc[p].fds}
Count(f) == FoldFunction(LAMBDA a, b : a + b, 0, f)

TypeOK ==
    /\ pc \in {"check", "spawn", "loop", "reap", "drain"} \union Ended
    /\ proc \in [Procs -> [life : {"none", "alive", "zombie", "dead"}, grp : BOOLEAN,
                           fds : SUBSET Streams]]
    /\ written \in [Streams -> Nat]
    /\ \A s \in Streams :
        /\ pipe[s] \in Seq(Bytes) /\ Len(pipe[s]) <= PipeCap
        /\ rd[s].at \in {"read", "send", "done"} /\ IsChunk(rd[s].chunk)
        /\ cap[s].total \in Nat
        /\ Len(cap[s].prefix) <= PrefixLimit /\ Len(cap[s].suffix) <= SuffixLimit
    /\ Len(chan) <= ChanCap
    /\ \A k \in DOMAIN chan : chan[k].s \in Streams /\ IsChunk(chan[k].chunk)
    /\ out.term \in {"none", "exited", "signaled", "timedout"} /\ out.drain \in BOOLEAN

(* Requests that differ in what exec() looks at: an empty argv; no timeout,   *)
(* or one at or past its bounds; a profile that is declared or not; a         *)
(* directory; a program that can be started.                                 *)
NoTimeout == MaxTimeout + 2
Requests == [argv : BOOLEAN, timeout : 0..NoTimeout, profile : BOOLEAN,
             cwd : {"dir", "unresolvable", "missing"}, starts : BOOLEAN]

Init ==
    /\ req \in Requests
    /\ pc = "check"
    /\ proc = [p \in Procs |-> NoProc]
    /\ written = [s \in Streams |-> 0]
    /\ pipe = [s \in Streams |-> <<>>]
    /\ rd = [s \in Streams |-> [at |-> "done", chunk |-> <<>>]]
    /\ chan = <<>>
    /\ cap = [s \in Streams |-> NoOutput]
    /\ out = NoOutcome

-----------------------------------------------------------------------------
(* The checks, in the order of the code.                                     *)

DefaultTimeout == MaxTimeout
TimeoutOf(r) == IF r.timeout = NoTimeout THEN DefaultTimeout ELSE r.timeout
CheckError(r) ==
    CASE ~r.argv -> "INVALID_REQUEST"
      [] TimeoutOf(r) = 0 \/ TimeoutOf(r) > MaxTimeout -> "INVALID_REQUEST"
      [] ~r.profile -> "INVALID_REQUEST"
      [] r.cwd = "unresolvable" -> "PATH_OUTSIDE"
      [] r.cwd = "missing" -> "NOT_FOUND"
      [] OTHER -> "none"

Reject(code) == pc' = "rejected" /\ out' = [NoOutcome EXCEPT !.code = code]

Check ==
    /\ pc = "check"
    /\ req' = [req EXCEPT !.timeout = TimeoutOf(req)]
    /\ IF CheckError(req) # "none"
         THEN Reject(CheckError(req))
         ELSE pc' = "spawn" /\ UNCHANGED out
    /\ UNCHANGED <<procVars, ioVars>>

SpawnFails ==
    /\ pc = "spawn"
    /\ ~req.starts
    /\ Reject("EXEC_FAILED")
    /\ UNCHANGED <<req, procVars, ioVars>>

(* The child leads a new session and process group and holds both pipes.     *)
Spawn ==
    /\ pc = "spawn"
    /\ req.starts
    /\ pc' = "loop"
    /\ proc' = [proc EXCEPT ![Leader] = [life |-> "alive", grp |-> TRUE, fds |-> Streams]]
    /\ rd' = [s \in Streams |-> [at |-> "read", chunk |-> <<>>]]
    /\ UNCHANGED <<req, written, pipe, chan, cap, out>>

-----------------------------------------------------------------------------
(* The processes (external).                                                 *)

Write(p, s) ==
    /\ p \in Holders(s)
    /\ Len(pipe[s]) < PipeCap
    /\ Count(written) < MaxBytes
    /\ written' = [written EXCEPT ![s] = @ + 1]
    /\ pipe' = [pipe EXCEPT ![s] = Append(@, written[s] + 1)]
    /\ UNCHANGED <<req, pc, proc, rd, chan, cap, out>>

Fork(p, q) ==
    /\ Alive(p) /\ proc[q].life = "none"
    /\ proc' = [proc EXCEPT ![q] = proc[p]]
    /\ UNCHANGED <<req, pc, written, ioVars, out>>

Redirect(p, s) ==
    /\ p \in Holders(s)
    /\ proc' = [proc EXCEPT ![p].fds = @ \ {s}]
    /\ UNCHANGED <<req, pc, written, ioVars, out>>

(* setsid() or setpgid() of a descendant; the leader cannot leave its group. *)
LeaveGroup(p) ==
    /\ Alive(p) /\ p # Leader /\ proc[p].grp
    /\ proc' = [proc EXCEPT ![p].grp = FALSE]
    /\ UNCHANGED <<req, pc, written, ioVars, out>>

Exit(p) ==
    /\ Alive(p)
    /\ proc' = [proc EXCEPT ![p].life = IF p = Leader THEN "zombie" ELSE "dead"]
    /\ UNCHANGED <<req, pc, written, ioVars, out>>

-----------------------------------------------------------------------------
(* The reader tasks.                                                         *)

Read(s) ==
    /\ rd[s].at = "read"
    /\ \E n \in 1..Min({Len(pipe[s]), ReadSize}) :
        /\ rd' = [rd EXCEPT ![s] = [at |-> "send", chunk |-> SubSeq(pipe[s], 1, n)]]
        /\ pipe' = [pipe EXCEPT ![s] = SubSeq(@, n + 1, Len(@))]
    /\ UNCHANGED <<req, pc, procVars, chan, cap, out>>

ReadEof(s) ==
    /\ rd[s].at = "read"
    /\ pipe[s] = <<>> /\ Holders(s) = {}
    /\ rd' = [rd EXCEPT ![s].at = "done"]
    /\ UNCHANGED <<req, pc, procVars, pipe, chan, cap, out>>

(* Mutant of Send: an unbounded channel.                                     *)
SendUnbounded(s) ==
    /\ rd[s].at = "send"
    /\ pc \notin Ended
    /\ chan' = Append(chan, [s |-> s, chunk |-> rd[s].chunk])
    /\ rd' = [rd EXCEPT ![s] = [at |-> "read", chunk |-> <<>>]]
    /\ UNCHANGED <<req, pc, procVars, pipe, cap, out>>
Send(s) ==
    /\ rd[s].at = "send"
    /\ pc \notin Ended
    /\ Len(chan) < ChanCap
    /\ chan' = Append(chan, [s |-> s, chunk |-> rd[s].chunk])
    /\ rd' = [rd EXCEPT ![s] = [at |-> "read", chunk |-> <<>>]]
    /\ UNCHANGED <<req, pc, procVars, pipe, cap, out>>

(* The receiver is gone: the reader gives up and closes its end.             *)
SendFails(s) ==
    /\ rd[s].at = "send"
    /\ pc \in Ended
    /\ rd' = [rd EXCEPT ![s] = [at |-> "done", chunk |-> <<>>]]
    /\ UNCHANGED <<req, pc, procVars, pipe, chan, cap, out>>

-----------------------------------------------------------------------------
(* OutputCapture.                                                            *)

(* Mutant of Push: a chunk that fills the prefix is not split.               *)
PushWhole(c, bytes) ==
    IF Len(c.prefix) < PrefixLimit
      THEN [c EXCEPT !.prefix = SubSeq(@ \o bytes, 1, Min({PrefixLimit, Len(@ \o bytes)})),
                     !.total = @ + Len(bytes)]
      ELSE LET all == c.suffix \o bytes
           IN  [c EXCEPT !.suffix = SubSeq(all, Len(all) - Min({SuffixLimit, Len(all)}) + 1,
                                           Len(all)),
                         !.total = @ + Len(bytes)]
Push(c, bytes) ==
    LET n == Min({PrefixLimit - Len(c.prefix), Len(bytes)})
        all == c.suffix \o SubSeq(bytes, n + 1, Len(bytes))
    IN  [prefix |-> c.prefix \o SubSeq(bytes, 1, n),
         suffix |-> SubSeq(all, Len(all) - Min({SuffixLimit, Len(all)}) + 1, Len(all)),
         total |-> c.total + Len(bytes)]
Omitted(c) == c.total - (Len(c.prefix) + Len(c.suffix))

CaptureHead ==
    /\ chan # <<>>
    /\ cap' = [cap EXCEPT ![Head(chan).s] = Push(@, Head(chan).chunk)]
    /\ chan' = Tail(chan)

-----------------------------------------------------------------------------
(* The exec task.                                                            *)

(* Mutant of GroupKilled: only the leader gets the signal.                   *)
LeaderKilled == [proc EXCEPT ![Leader].life = IF @ = "alive" THEN "zombie" ELSE @]
(* killpg: every process that is in the group now.                           *)
GroupKilled ==
    [p \in Procs |-> IF Alive(p) /\ proc[p].grp
                       THEN [proc[p] EXCEPT !.life = IF p = Leader THEN "zombie" ELSE "dead"]
                       ELSE proc[p]]

TimeoutFires ==
    /\ pc = "loop"
    /\ proc' = GroupKilled
    /\ out' = [out EXCEPT !.term = "timedout"]
    /\ pc' = "reap"
    /\ UNCHANGED <<req, written, ioVars>>

LoopCapture ==
    /\ pc = "loop"
    /\ CaptureHead
    /\ UNCHANGED <<req, pc, procVars, pipe, rd, out>>

Reaped == [proc EXCEPT ![Leader].life = "dead"]

ChildExits ==
    /\ pc = "loop"
    /\ proc[Leader].life = "zombie"
    /\ \E t \in {"exited", "signaled"} : out' = [out EXCEPT !.term = t]
    /\ proc' = Reaped
    /\ pc' = "drain"
    /\ UNCHANGED <<req, written, ioVars>>

(* wait() itself fails: the error goes to the caller, and the Child that is   *)
(* dropped kills the leader (kill_on_drop).                                  *)
WaitFails ==
    /\ pc = "loop"
    /\ proc[Leader].life = "zombie"
    /\ out' = [NoOutcome EXCEPT !.code = "EXEC_FAILED"]
    /\ pc' = "waitfailed"
    /\ chan' = <<>>
    /\ UNCHANGED <<req, procVars, pipe, rd, cap>>

ReapKilled ==
    /\ pc = "reap"
    /\ proc[Leader].life = "zombie"
    /\ proc' = Reaped
    /\ pc' = "drain"
    /\ UNCHANGED <<req, written, ioVars, out>>

DrainCapture ==
    /\ pc = "drain"
    /\ CaptureHead
    /\ UNCHANGED <<req, pc, procVars, pipe, rd, out>>

(* recv() returns None: the channel is empty and both senders are dropped.   *)
(* Mutant: one of them is.                                                   *)
DrainEofOne ==
    /\ pc = "drain"
    /\ chan = <<>> /\ \E s \in Streams : rd[s].at = "done"
    /\ pc' = "done"
    /\ UNCHANGED <<req, procVars, ioVars, out>>
DrainEof ==
    /\ pc = "drain"
    /\ chan = <<>> /\ \A s \in Streams : rd[s].at = "done"
    /\ pc' = "done"
    /\ UNCHANGED <<req, procVars, ioVars, out>>

(* Mutant of DrainExpires: the deadline counts only while nobody writes.     *)
DrainExpiresIdle ==
    /\ pc = "drain"
    /\ \A s \in Streams : rd[s].at = "read" /\ Holders(s) = {}
    /\ pc' = "done"
    /\ proc' = GroupKilled
    /\ out' = [out EXCEPT !.drain = TRUE]
    /\ chan' = <<>>
    /\ UNCHANGED <<req, written, pipe, rd, cap>>
DrainExpires ==
    /\ pc = "drain"
    /\ pc' = "done"
    /\ proc' = GroupKilled
    /\ out' = [out EXCEPT !.drain = TRUE]
    /\ chan' = <<>>
    /\ UNCHANGED <<req, written, pipe, rd, cap>>

(* stdin of the server ends: the runtime drops the task, and with it the      *)
(* Child (which kills the leader) and the readers.                           *)
Dropped ==
    /\ pc \in {"loop", "reap", "drain"}
    /\ pc' = "dropped"
    /\ proc' = [proc EXCEPT ![Leader].life = IF @ = "alive" THEN "zombie" ELSE @]
    /\ rd' = [s \in Streams |-> [at |-> "done", chunk |-> <<>>]]
    /\ chan' = <<>>
    /\ UNCHANGED <<req, written, pipe, cap, out>>

Stop == pc \in Ended /\ UNCHANGED vars

Process == \E p \in Procs :
    \/ \E s \in Streams : Write(p, s) \/ Redirect(p, s)
    \/ \E q \in Procs : Fork(p, q)
    \/ LeaveGroup(p) \/ Exit(p)
Reader(s) == Read(s) \/ ReadEof(s) \/ Send(s) \/ SendFails(s)
Task ==
    \/ Check \/ Spawn \/ SpawnFails \/ LoopCapture \/ ChildExits \/ ReapKilled
    \/ DrainCapture \/ DrainEof
Timers == TimeoutFires \/ DrainExpires

Next == Task \/ Timers \/ Process \/ (\E s \in Streams : Reader(s)) \/ WaitFails \/ Dropped \/ Stop

Spec == Init /\ [][Next]_vars
(* The runtime polls the task, and a timer that is due fires: the loop looks  *)
(* at the clock on every turn, the drain's select picks among ready branches *)
(* at random.  Nothing is asked of the command's processes.                  *)
FairSpec == Spec /\ WF_vars(Task) /\ WF_vars(TimeoutFires) /\ WF_vars(DrainExpires)

-----------------------------------------------------------------------------
(* The windows hold the first and the last bytes of the stream, in order,     *)
(* however the output was cut into reads, and the byte count is exact.       *)
WindowsExact ==
    \A s \in Streams : LET c == cap[s] IN
        /\ c.prefix = [k \in 1..Min({PrefixLimit, c.total}) |-> k]
        /\ LET n == Min({SuffixLimit, c.total - Len(c.prefix)})
           IN  c.suffix = [k \in 1..n |-> c.total - n + k]
        /\ Omitted(c) = IF c.total > PrefixLimit + SuffixLimit
                          THEN c.total - PrefixLimit - SuffixLimit ELSE 0

(* A result without drain_timed_out has all output there will ever be: what   *)
(* was written has been captured, and nobody can write more.                 *)
CompleteOutput ==
    pc = "done" /\ ~out.drain => \A s \in Streams : cap[s].total = written[s] /\ Holders(s) = {}

(* What exec reports of the output is true.                                  *)
OutputTrue == TypeOK /\ WindowsExact /\ CompleteOutput

(* However exec ends, the leader is dead; and after a timeout or an expired   *)
(* drain so is every descendant that stayed in its process group.            *)
NoRunaway ==
    /\ pc \in Ended => ~Alive(Leader)
    /\ pc = "done" /\ (out.drain \/ out.term = "timedout") =>
        \A p \in Procs : Alive(p) => ~proc[p].grp

(* DESIGN.md 145: "every invocation reaches a terminal response within a      *)
(* bounded period", whatever the command's processes do.                     *)
Returns == <>(pc \in Ended)
=============================================================================
