---------------------------- MODULE ExecRunProofs ----------------------------
(***************************************************************************)
(* What exec reports of the output is true (OutputTrue), and it leaves no    *)
(* runaway behind (NoRunaway), for any command, descendants, streams, window *)
(* sizes, read size, channel, pipe and amount of output.                    *)
(***************************************************************************)
EXTENDS ExecRun, SequenceTheorems, TLAPS

Lives == {"none", "alive", "zombie", "dead"}
Processes == [life : Lives, grp : BOOLEAN, fds : SUBSET Streams]
Chunks == {q \in Seq(Bytes) : Len(q) <= ReadSize}
Readers == [at : {"read", "send", "done"}, chunk : Chunks]
Events == [s : Streams, chunk : Chunks]
Captures == [prefix : Seq(Bytes), suffix : Seq(Bytes), total : Nat]
Outcomes == [term : {"none", "exited", "signaled", "timedout"}, drain : BOOLEAN,
             code : {"none", "INVALID_REQUEST", "PATH_OUTSIDE", "NOT_FOUND", "EXEC_FAILED"}]

Types ==
    /\ pc \in {"check", "spawn", "loop", "reap", "drain"} \cup Ended
    /\ proc \in [Procs -> Processes] /\ written \in [Streams -> Nat]
    /\ pipe \in [Streams -> Seq(Bytes)] /\ \A s \in Streams : Len(pipe[s]) <= PipeCap
    /\ rd \in [Streams -> Readers]
    /\ chan \in Seq(Events) /\ Len(chan) <= ChanCap
    /\ cap \in [Streams -> Captures]
    /\ out \in Outcomes

(* The leader lives from the start to the end of the loop, in its group;     *)
(* once the group was killed it gets no new members.                        *)
Unstarted == {"check", "spawn", "rejected"}
GroupGone == \A p \in Procs : Alive(p) => ~proc[p].grp
ProcPart ==
    /\ pc \in Unstarted => \A p \in Procs : proc[p].life = "none"
    /\ pc \notin Unstarted => proc[Leader].life # "none" /\ proc[Leader].grp
    /\ pc \in ({"reap", "drain"} \cup Ended) => ~Alive(Leader)
    /\ pc = "reap" => out.term = "timedout"
    /\ pc \in {"reap", "drain", "done"} /\ out.term = "timedout" => GroupGone
    /\ out.drain => pc = "done" /\ GroupGone

(* The bytes q are those that follow the n-th.                               *)
Follows(q, n) == \A j \in 1..Len(q) : q[j] = n + j

Least(a, b) == IF a < b THEN a ELSE b

(* The windows, by place.                                                   *)
Windows(c) ==
    /\ Len(c.prefix) = Least(PrefixLimit, c.total) /\ Follows(c.prefix, 0)
    /\ Len(c.suffix) = Least(SuffixLimit, c.total - Len(c.prefix))
    /\ Follows(c.suffix, c.total - Len(c.suffix))

(* The way of a stream's bytes from the capture back to the pipe: f says how *)
(* many of them come before each event of the channel.                      *)
Way(s, f) ==
    LET n == Len(chan) + 1 IN
    /\ f[1] = cap[s].total
    /\ \A k \in 1..Len(chan) :
        /\ chan[k].s = s => Follows(chan[k].chunk, f[k]) /\ f[k + 1] = f[k] + Len(chan[k].chunk)
        /\ chan[k].s # s => f[k + 1] = f[k]
    /\ Follows(rd[s].chunk, f[n])
    /\ Follows(pipe[s], f[n] + Len(rd[s].chunk))
    /\ written[s] = f[n] + Len(rd[s].chunk) + Len(pipe[s])
WayPart ==
    pc \notin Ended =>
        \A s \in Streams : \E f \in [1..(Len(chan) + 1) -> Nat] : Way(s, f)

(* A reader that is done by itself has read all there will ever be.          *)
Dry(s) == Holders(s) = {} /\ pipe[s] = <<>> /\ rd[s].chunk = <<>>
DonePart ==
    /\ \A s \in Streams : rd[s].at \in {"read", "done"} => rd[s].chunk = <<>>
    /\ pc \in Unstarted => \A s \in Streams : rd[s].at = "done"
    /\ pc \notin Ended => \A s \in Streams : rd[s].at = "done" => Dry(s)
    /\ pc = "done" /\ ~out.drain =>
        \A s \in Streams : rd[s].at = "done" /\ Dry(s) /\ cap[s].total = written[s]

ExecInv ==
    /\ Types /\ ProcPart /\ WayPart /\ DonePart
    /\ \A s \in Streams : Windows(cap[s])


-----------------------------------------------------------------------------
(* What the assumptions give.                                               *)
LEMMA Known ==
  /\ Leader \in Procs
  /\ PrefixLimit \in Nat /\ SuffixLimit \in Nat /\ ReadSize \in Nat
  /\ ChanCap \in Nat /\ PipeCap \in Nat
  BY ExecAssumption DEF ExecAssumption

(* The smaller of two numbers.                                              *)
LEMMA MinOfTwo ==
  ASSUME NEW a \in Int, NEW b \in Int
  PROVE  Min({a, b}) = Least(a, b) /\ Least(a, b) \in Int
<1>1. Least(a, b) \in {a, b} /\ Least(a, b) <= a /\ Least(a, b) <= b /\ Least(a, b) \in Int
  BY DEF Least
<1>2. \E x \in {a, b} : \A y \in {a, b} : x <= y
  BY <1>1
<1>3. Min({a, b}) \in {a, b} /\ \A y \in {a, b} : Min({a, b}) <= y
  BY <1>2 DEF Min
<1> QED  BY <1>1, <1>3 DEF Least

-----------------------------------------------------------------------------
(* What happens to the processes.                                           *)

(* Who lives after the step has its pipes and its group from one who lived.  *)
Descends ==
    \A p \in Procs : proc'[p].life = "alive" =>
        \E q \in Procs : /\ proc[q].life = "alive" /\ proc'[p].fds \subseteq proc[q].fds
                         /\ proc'[p].grp => proc[q].grp
LeaderKept ==
    proc[Leader].life # "none" =>
        /\ proc'[Leader].life # "none" /\ proc'[Leader].grp = proc[Leader].grp
        /\ proc[Leader].life # "alive" => proc'[Leader].life # "alive"

(* Then nobody gets hold of a pipe that nobody held, or joins the group.     *)
LEMMA NothingComesBack ==
  ASSUME Descends
  PROVE  /\ GroupGone => GroupGone'
         /\ \A s \in Streams : Holders(s) = {} => Holders(s)' = {}
  BY DEF Descends, GroupGone, Holders, Alive

(* A step of a process: it forks, closes a pipe, leaves the group or exits.  *)
LEMMA ProcessMoves ==
  ASSUME Types, NEW p \in Procs,
         \/ \E q \in Procs : Fork(p, q)
         \/ \E s \in Streams : Redirect(p, s)
         \/ LeaveGroup(p) \/ Exit(p)
  PROVE  /\ UNCHANGED <<pc, written, pipe, rd, chan, cap, out>> /\ Alive(p)
         /\ proc' \in [Procs -> Processes] /\ Descends /\ LeaderKept
<1>1. proc \in [Procs -> Processes]
  BY DEF Types
<1>2. UNCHANGED <<pc, written, pipe, rd, chan, cap, out>> /\ Alive(p)
  BY DEF Fork, Redirect, LeaveGroup, Exit, ioVars, Holders
<1>3. ASSUME NEW q \in Procs, Fork(p, q)
      PROVE  proc' \in [Procs -> Processes] /\ Descends /\ LeaderKept
  <2>1. proc' = [proc EXCEPT ![q] = proc[p]] /\ proc[p].life = "alive" /\ proc[q].life = "none"
    BY <1>3 DEF Fork, Alive
  <2> QED  BY <1>1, <2>1, Known DEF Descends, LeaderKept
<1>4. ASSUME NEW s \in Streams, Redirect(p, s)
      PROVE  proc' \in [Procs -> Processes] /\ Descends /\ LeaderKept
  <2>1. proc' = [proc EXCEPT ![p].fds = @ \ {s}]
    BY <1>4 DEF Redirect
  <2>2. /\ proc' \in [Procs -> Processes]
        /\ \A q \in Procs : proc'[q].life = proc[q].life /\ proc'[q].grp = proc[q].grp
                            /\ proc'[q].fds \subseteq proc[q].fds
    BY <1>1, <2>1 DEF Processes
  <2> QED  BY <2>2, Known DEF Descends, LeaderKept
<1>5. CASE LeaveGroup(p)
  <2>1. proc' = [proc EXCEPT ![p].grp = FALSE] /\ p # Leader
    BY <1>5 DEF LeaveGroup
  <2>2. /\ proc' \in [Procs -> Processes]
        /\ \A q \in Procs : /\ proc'[q].life = proc[q].life /\ proc'[q].fds = proc[q].fds
                            /\ proc'[q].grp => proc[q].grp
                            /\ q # p => proc'[q].grp = proc[q].grp
    BY <1>1, <2>1 DEF Processes
  <2> QED  BY <1>2, <2>1, <2>2, Known DEF Descends, LeaderKept
<1>6. CASE Exit(p)
  <2>1. PICK life \in {"zombie", "dead"} : proc' = [proc EXCEPT ![p].life = life]
    BY <1>6 DEF Exit
  <2>2. /\ proc' \in [Procs -> Processes]
        /\ \A q \in Procs : /\ proc'[q].grp = proc[q].grp /\ proc'[q].fds = proc[q].fds
                            /\ proc'[q].life = proc[q].life \/ proc'[q].life \in {"zombie", "dead"}
    BY <1>1, <2>1 DEF Processes, Lives
  <2> QED  BY <1>2, <2>2, Known DEF Descends, LeaderKept
<1> QED  BY <1>2, <1>3, <1>4, <1>5, <1>6

(* killpg: whoever is in the group is dead, or a zombie.                     *)
LEMMA GroupDies ==
  ASSUME proc \in [Procs -> Processes], proc' = GroupKilled
  PROVE  /\ proc' \in [Procs -> Processes] /\ Descends /\ LeaderKept /\ GroupGone'
         /\ proc[Leader].grp => proc'[Leader].life # "alive"
<1>1. \A p \in Procs :
        /\ proc'[p] \in Processes /\ proc'[p].grp = proc[p].grp /\ proc'[p].fds = proc[p].fds
        /\ proc'[p].life = proc[p].life \/ proc'[p].life \in {"zombie", "dead"}
        /\ proc[p].grp => proc'[p].life # "alive"
  <2> SUFFICES ASSUME NEW p \in Procs
               PROVE  /\ proc'[p] \in Processes /\ proc'[p].grp = proc[p].grp
                      /\ proc'[p].fds = proc[p].fds
                      /\ proc'[p].life = proc[p].life \/ proc'[p].life \in {"zombie", "dead"}
                      /\ proc[p].grp => proc'[p].life # "alive"
    OBVIOUS
  <2>1. PICK life \in {"zombie", "dead"} : life = IF p = Leader THEN "zombie" ELSE "dead"
    OBVIOUS
  <2>2. proc'[p] = IF proc[p].life = "alive" /\ proc[p].grp
                     THEN [proc[p] EXCEPT !.life = life] ELSE proc[p]
    BY <2>1 DEF GroupKilled, Alive
  <2>3. proc[p] \in Processes
    OBVIOUS
  <2> QED  BY <2>2, <2>3 DEF Processes, Lives
<1>2. proc' \in [Procs -> Processes]
  BY <1>1 DEF GroupKilled
<1> QED  BY <1>1, <1>2, Known DEF Descends, LeaderKept, GroupGone, Alive

(* The leader is reaped, or killed by the drop of its Child.                 *)
LEMMA LeaderDies ==
  ASSUME proc \in [Procs -> Processes],
         NEW life \in Lives \ {"alive"}, proc' = [proc EXCEPT ![Leader].life = life],
         proc[Leader].life # "none" => life # "none"
  PROVE  /\ proc' \in [Procs -> Processes] /\ Descends /\ LeaderKept
         /\ proc'[Leader].life = life
<1>1. /\ proc' \in [Procs -> Processes] /\ proc'[Leader].life = life
      /\ \A p \in Procs : /\ proc'[p].grp = proc[p].grp /\ proc'[p].fds = proc[p].fds
                          /\ proc'[p].life = proc[p].life \/ p = Leader
  BY Known DEF Processes, Lives
<1> QED  BY <1>1, Known DEF Descends, LeaderKept


-----------------------------------------------------------------------------
(* Steps that move no byte.                                                 *)
Pcs == {"check", "spawn", "loop", "reap", "drain"} \cup Ended

(* A step of the task or of a process, up to what becomes of the processes.  *)
LEMMA NoByteMoves ==
  ASSUME ExecInv, UNCHANGED <<written, pipe, rd, cap>>,
         proc' \in [Procs -> Processes], Descends, pc' \in Pcs, out' \in Outcomes, ProcPart',
         pc \in Ended => UNCHANGED <<pc, out>>,
         pc \notin Ended => pc' # "done" \/ out'.drain,
         pc' \in Unstarted => pc \in Unstarted,
         chan' = chan \/ (chan' = <<>> /\ pc' \in Ended)
  PROVE  ExecInv'
<1> USE DEF ExecInv
<1>1. \A s \in Streams : Dry(s) => Dry(s)'
  BY NothingComesBack DEF Dry
<1>2. WayPart'
  BY DEF WayPart, Way
<1>3. DonePart'
  BY <1>1 DEF DonePart
<1>4. Types'
  <2>1. <<>> \in Seq(Events) /\ Len(<<>>) <= ChanCap
    BY Known
  <2>2. chan' \in Seq(Events) /\ Len(chan') <= ChanCap
    BY <2>1 DEF Types
  <2> QED  BY <2>2 DEF Types, Pcs
<1> QED  BY <1>2, <1>3, <1>4

(* The processes themselves.                                                *)
LEMMA ProcessSteps ==
  ASSUME ExecInv, NEW p \in Procs,
         \/ \E q \in Procs : Fork(p, q)
         \/ \E s \in Streams : Redirect(p, s)
         \/ LeaveGroup(p) \/ Exit(p)
  PROVE  ExecInv'
<1> USE DEF ExecInv
<1>1. /\ UNCHANGED <<pc, written, pipe, rd, chan, cap, out>> /\ Alive(p)
      /\ proc' \in [Procs -> Processes] /\ Descends /\ LeaderKept
  BY ProcessMoves
<1>2. pc \notin Unstarted
  BY <1>1 DEF ProcPart, Alive
<1>3. ProcPart'
  BY <1>1, <1>2, NothingComesBack DEF ProcPart, LeaderKept, Alive
<1>4. pc' \in Pcs /\ out' \in Outcomes /\ (pc' = "done" => pc \in Ended)
  BY <1>1 DEF Types, Pcs, Ended
<1> QED  BY <1>1, <1>3, <1>4, NoByteMoves

(* The checks, and a program that does not start.                           *)
LEMMA Checked ==
  ASSUME ExecInv, Check \/ SpawnFails
  PROVE  ExecInv'
<1> USE DEF ExecInv
<1>1. /\ UNCHANGED <<proc, written, pipe, rd, chan, cap>>
      /\ pc \in {"check", "spawn"} /\ pc' \in {"spawn", "rejected"}
  BY DEF Check, SpawnFails, Reject, procVars, ioVars
<1>2. out' = out \/ \E code \in {"INVALID_REQUEST", "PATH_OUTSIDE", "NOT_FOUND", "EXEC_FAILED"} :
                      out' = [NoOutcome EXCEPT !.code = code]
  BY DEF Check, SpawnFails, Reject, CheckError
<1>3. out' \in Outcomes /\ ~out'.drain
  <2>1. CASE out' = out
    BY <1>1, <2>1 DEF Types, ProcPart
  <2>2. ASSUME NEW code \in {"INVALID_REQUEST", "PATH_OUTSIDE", "NOT_FOUND", "EXEC_FAILED"},
               out' = [NoOutcome EXCEPT !.code = code]
        PROVE  out' \in Outcomes /\ ~out'.drain
    BY <2>2 DEF NoOutcome, Outcomes
  <2> QED  BY <1>2, <2>1, <2>2
<1>4. \A p \in Procs : proc'[p].life = "none"
  BY <1>1 DEF ProcPart, Unstarted
<1>5. ProcPart' /\ Descends
  BY <1>1, <1>3, <1>4, Known DEF ProcPart, Unstarted, Ended, Alive, Descends
<1>6. /\ proc' \in [Procs -> Processes] /\ pc' \in Pcs /\ pc \notin Ended /\ pc' # "done"
      /\ pc \in Unstarted
  BY <1>1 DEF Types, Pcs, Ended, Unstarted
<1> QED  BY <1>1, <1>3, <1>5, <1>6, NoByteMoves

(* The timeout, the end of the child, reaping it after the timeout, and a    *)
(* wait() that fails.                                                       *)
LEMMA LoopLeft ==
  ASSUME ExecInv, TimeoutFires \/ ChildExits \/ ReapKilled \/ WaitFails \/ DrainExpires
  PROVE  ExecInv'
<1> USE DEF ExecInv
<1>1. /\ UNCHANGED <<written, pipe, rd, cap>> /\ pc \in {"loop", "reap", "drain"}
      /\ pc' \in {"reap", "drain", "waitfailed", "done"}
      /\ chan' = chan \/ (chan' = <<>> /\ pc' \in Ended)
  BY DEF TimeoutFires, ChildExits, ReapKilled, WaitFails, DrainExpires, ioVars, procVars, Ended
<1>2. /\ pc' \in Pcs /\ pc \notin Ended /\ pc' \notin Unstarted /\ pc \notin Unstarted
      /\ proc \in [Procs -> Processes] /\ out \in Outcomes /\ pc # "done" /\ ~out.drain
      /\ proc[Leader].grp /\ proc[Leader].life # "none"
  BY <1>1 DEF Types, Pcs, Ended, Unstarted, ProcPart
<1>3. CASE TimeoutFires
  <2>1. pc' = "reap" /\ proc' = GroupKilled /\ out' = [out EXCEPT !.term = "timedout"]
    BY <1>3 DEF TimeoutFires
  <2>2. out' \in Outcomes /\ out'.term = "timedout" /\ ~out'.drain
    BY <1>2, <2>1 DEF Outcomes
  <2>3. /\ proc' \in [Procs -> Processes] /\ Descends /\ LeaderKept /\ GroupGone'
        /\ proc'[Leader].life # "alive"
    BY <1>2, <2>1, GroupDies
  <2>4. ProcPart'
    BY <1>2, <2>1, <2>2, <2>3 DEF ProcPart, LeaderKept, Alive
  <2> QED  BY <1>1, <1>2, <2>1, <2>2, <2>3, <2>4, NoByteMoves
<1>4. CASE DrainExpires
  <2>1. pc = "drain" /\ pc' = "done" /\ proc' = GroupKilled /\ out' = [out EXCEPT !.drain = TRUE]
    BY <1>4 DEF DrainExpires
  <2>2. out' \in Outcomes /\ out'.term = out.term /\ out'.drain
    BY <1>2, <2>1 DEF Outcomes
  <2>3. /\ proc' \in [Procs -> Processes] /\ Descends /\ LeaderKept /\ GroupGone'
        /\ proc'[Leader].life # "alive"
    BY <1>2, <2>1, GroupDies
  <2>4. ProcPart'
    BY <1>2, <2>1, <2>2, <2>3 DEF ProcPart, LeaderKept, Alive
  <2> QED  BY <1>1, <1>2, <2>1, <2>2, <2>3, <2>4, NoByteMoves
<1>5. CASE ChildExits \/ ReapKilled
  <2>1. /\ pc' = "drain" /\ proc' = [proc EXCEPT ![Leader].life = "dead"]
        /\ proc[Leader].life = "zombie"
        /\ \/ pc = "reap" /\ out' = out
           \/ pc = "loop" /\ \E t \in {"exited", "signaled"} : out' = [out EXCEPT !.term = t]
    BY <1>5 DEF ChildExits, ReapKilled, Reaped
  <2>2. /\ out' \in Outcomes /\ ~out'.drain
        /\ out'.term = "timedout" => pc = "reap" /\ out.term = "timedout"
    BY <1>2, <2>1 DEF Outcomes, ProcPart
  <2>3. /\ proc' \in [Procs -> Processes] /\ Descends /\ LeaderKept
        /\ proc'[Leader].life = "dead"
    BY <1>2, <2>1, LeaderDies DEF Lives
  <2>4. out'.term = "timedout" => GroupGone'
    BY <2>2, <2>3, NothingComesBack DEF ProcPart
  <2>5. ProcPart'
    BY <1>2, <2>1, <2>2, <2>3, <2>4 DEF ProcPart, LeaderKept, Alive
  <2> QED  BY <1>1, <1>2, <2>1, <2>2, <2>3, <2>5, NoByteMoves
<1>6. CASE WaitFails
  <2>1. /\ pc' = "waitfailed" /\ proc' = proc /\ proc[Leader].life = "zombie"
        /\ out' = [NoOutcome EXCEPT !.code = "EXEC_FAILED"]
    BY <1>6 DEF WaitFails, procVars
  <2>2. out' \in Outcomes /\ ~out'.drain /\ out'.term = "none"
    BY <2>1 DEF Outcomes, NoOutcome
  <2>3. Descends
    BY <2>1 DEF Descends
  <2>4. ProcPart'
    BY <1>2, <2>1, <2>2 DEF ProcPart, Alive
  <2> QED  BY <1>1, <1>2, <2>1, <2>2, <2>3, <2>4, NoByteMoves
<1> QED  BY <1>3, <1>4, <1>5, <1>6


(* The server goes away: the Child is dropped, and the readers with it.      *)
LEMMA TaskDropped ==
  ASSUME ExecInv, Dropped
  PROVE  ExecInv'
<1> USE DEF ExecInv
<1>1. PICK life \in Lives : life = IF proc[Leader].life = "alive" THEN "zombie"
                                                                  ELSE proc[Leader].life
  BY Known DEF Types, Processes, Lives
<1>2. /\ UNCHANGED <<written, pipe, cap, out>> /\ pc \in {"loop", "reap", "drain"}
      /\ pc' = "dropped" /\ chan' = <<>>
      /\ rd' = [s \in Streams |-> [at |-> "done", chunk |-> <<>>]]
      /\ proc' = [proc EXCEPT ![Leader].life = life]
  BY <1>1 DEF Dropped
<1>3. /\ pc \notin Unstarted /\ ~out.drain /\ pc' \in Ended /\ pc' \notin Unstarted
      /\ proc[Leader].grp /\ proc[Leader].life # "none" /\ proc \in [Procs -> Processes]
  BY <1>2 DEF Unstarted, Ended, ProcPart, Types
<1>4. /\ proc' \in [Procs -> Processes] /\ LeaderKept /\ proc'[Leader].life = life
      /\ life # "alive"
  BY <1>1, <1>2, <1>3, LeaderDies DEF Lives
<1>5. ProcPart'
  BY <1>2, <1>3, <1>4 DEF ProcPart, LeaderKept, Alive
<1>6. rd' \in [Streams -> Readers] /\ \A s \in Streams : rd'[s].chunk = <<>>
  <2>1. <<>> \in Chunks
    BY Known DEF Chunks
  <2> QED  BY <1>2, <2>1 DEF Readers
<1>7. chan' \in Seq(Events) /\ Len(chan') <= ChanCap
  BY <1>2, Known
<1>8. Types'
  BY <1>2, <1>3, <1>4, <1>6, <1>7 DEF Types
<1>9. DonePart' /\ WayPart'
  BY <1>2, <1>3, <1>6 DEF DonePart, WayPart
<1> QED  BY <1>2, <1>5, <1>8, <1>9

(* The child starts with both pipes.                                        *)
LEMMA Spawned ==
  ASSUME ExecInv, Spawn
  PROVE  ExecInv'
<1> USE DEF ExecInv
<1>1. /\ UNCHANGED <<written, pipe, chan, cap, out>> /\ pc = "spawn" /\ pc' = "loop"
      /\ proc' = [proc EXCEPT ![Leader] = [life |-> "alive", grp |-> TRUE, fds |-> Streams]]
      /\ rd' = [s \in Streams |-> [at |-> "read", chunk |-> <<>>]]
  BY DEF Spawn
<1>2. pc \in Unstarted /\ pc \notin Ended /\ pc' \notin Unstarted /\ pc' \notin Ended /\ ~out.drain
  BY <1>1 DEF Unstarted, Ended, ProcPart
<1>3. [life |-> "alive", grp |-> TRUE, fds |-> Streams] \in Processes
  BY DEF Processes, Lives
<1>4. /\ proc' \in [Procs -> Processes] /\ proc'[Leader].life = "alive" /\ proc'[Leader].grp
  BY <1>1, <1>3, Known DEF Types
<1>5. ProcPart'
  BY <1>1, <1>2, <1>4 DEF ProcPart
<1>6. /\ rd' \in [Streams -> Readers]
      /\ \A s \in Streams : rd'[s].chunk = <<>> /\ rd'[s].at = "read"
  <2>1. <<>> \in Chunks
    BY Known DEF Chunks
  <2> QED  BY <1>1, <2>1 DEF Readers
<1>7. \A s \in Streams : rd[s].chunk = <<>>
  BY <1>2 DEF DonePart
<1>8. WayPart'
  <2> SUFFICES ASSUME NEW s \in Streams
               PROVE  \E f \in [1..(Len(chan') + 1) -> Nat] : Way(s, f)'
    BY DEF WayPart
  <2>1. PICK f \in [1..(Len(chan) + 1) -> Nat] : Way(s, f)
    BY <1>2 DEF WayPart
  <2>2. Way(s, f)'
    BY <1>1, <1>6, <1>7, <2>1 DEF Way
  <2> QED  BY <1>1, <2>2
<1>9. DonePart'
  BY <1>1, <1>2, <1>6 DEF DonePart
<1>10. Types'
  BY <1>1, <1>4, <1>6 DEF Types
<1> QED  BY <1>1, <1>5, <1>8, <1>9, <1>10

(* The channel is empty and both readers are done: the output is complete.   *)
LEMMA DrainEnds ==
  ASSUME ExecInv, DrainEof
  PROVE  ExecInv'
<1> USE DEF ExecInv
<1>1. /\ UNCHANGED <<proc, written, pipe, rd, chan, cap, out>> /\ pc = "drain" /\ pc' = "done"
      /\ chan = <<>> /\ \A s \in Streams : rd[s].at = "done"
  BY DEF DrainEof, procVars, ioVars
<1>2. pc \notin Unstarted /\ pc \notin Ended /\ pc' \in Ended /\ pc' \notin Unstarted /\ ~out.drain
  BY <1>1 DEF Unstarted, Ended, ProcPart
<1>3. ProcPart'
  BY <1>1, <1>2 DEF ProcPart, Alive, GroupGone
<1>4. ASSUME NEW s \in Streams PROVE Dry(s) /\ cap[s].total = written[s]
  <2>1. Dry(s)
    BY <1>1, <1>2 DEF DonePart
  <2>2. PICK f \in [1..(Len(chan) + 1) -> Nat] : Way(s, f)
    BY <1>2 DEF WayPart
  <2>3. Len(chan) = 0 /\ Len(rd[s].chunk) = 0 /\ Len(pipe[s]) = 0
    BY <1>1, <2>1 DEF Dry
  <2>4. written[s] = f[1] + 0 + 0 /\ f[1] = cap[s].total /\ f[1] \in Nat
    BY <2>2, <2>3 DEF Way
  <2> QED  BY <2>1, <2>4
<1>5. \A s \in Streams : Dry(s)'
  BY <1>1, <1>4 DEF Dry, Holders, Alive
<1>6. DonePart' /\ WayPart'
  BY <1>1, <1>2, <1>4, <1>5 DEF DonePart, WayPart
<1>7. Types'
  BY <1>1, <1>2 DEF Types
<1> QED  BY <1>1, <1>3, <1>6, <1>7


-----------------------------------------------------------------------------
(* OutputCapture::push keeps the windows exact.                             *)
LEMMA PushExact ==
  ASSUME NEW c \in Captures, Windows(c), NEW bytes \in Seq(Bytes), Follows(bytes, c.total)
  PROVE  /\ Push(c, bytes) \in Captures /\ Windows(Push(c, bytes))
         /\ Push(c, bytes).total = c.total + Len(bytes)
<1> DEFINE P == PrefixLimit
           S == SuffixLimit
           T == c.total
           L == Len(bytes)
           a == Len(c.prefix)
           b == Len(c.suffix)
           n == Least(P - a, L)
           rest == SubSeq(bytes, n + 1, L)
           all == c.suffix \o rest
           m == Least(S, Len(all))
           d == Push(c, bytes)
(* T bytes so far, a of them in the prefix and b in the suffix; of L more,   *)
(* n go to the prefix.                                                       *)
<1>1. /\ P \in Nat /\ S \in Nat /\ T \in Nat /\ L \in Nat /\ a \in Nat /\ b \in Nat
      /\ c.prefix \in Seq(Bytes) /\ c.suffix \in Seq(Bytes)
  BY Known DEF Captures
<1>2. a = Least(P, T) /\ b = Least(S, T - a) /\ Follows(c.prefix, 0) /\ Follows(c.suffix, T - b)
  BY DEF Windows
<1>3. /\ n \in Nat /\ n <= L /\ n <= P - a /\ Min({P - a, L}) = n
      /\ n > 0 => a = T /\ b = 0
      /\ a + n = Least(P, T + L)
      /\ Least(S, b + (L - n)) = Least(S, (T + L) - (a + n))
      /\ Least(S, b + (L - n)) \in Nat /\ Least(S, b + (L - n)) <= b + (L - n)
  <2>1. Min({P - a, L}) = n
    BY <1>1, MinOfTwo
  <2>2. n = Least(P - a, L)
    OBVIOUS
  <2> HIDE DEF P, S, T, L, a, b, n
  <2>3. P \in Nat /\ S \in Nat /\ T \in Nat /\ L \in Nat
    BY <1>1
  <2>4. a = Least(P, T) /\ b = Least(S, T - a)
    BY <1>2
  <2>5. /\ n \in Nat /\ n <= L /\ n <= P - a
        /\ n > 0 => a = T /\ b = 0
        /\ a + n = Least(P, T + L)
        /\ Least(S, b + (L - n)) = Least(S, (T + L) - (a + n))
        /\ Least(S, b + (L - n)) \in Nat /\ Least(S, b + (L - n)) <= b + (L - n)
    <3>1. CASE T < P
      <4>1. a = T /\ T - a = 0 /\ b = 0
        BY <2>3, <2>4, <3>1 DEF Least
      <4>2. n \in Nat /\ n <= L /\ n <= P - a /\ a + n = Least(P, T + L)
        BY <2>2, <2>3, <3>1, <4>1 DEF Least
      <4>3. b + (L - n) = (T + L) - (a + n) /\ b + (L - n) \in Nat
        BY <2>3, <4>1, <4>2
      <4> QED  BY <2>3, <4>1, <4>2, <4>3 DEF Least
    <3>2. CASE ~(T < P)
      <4>1. a = P /\ P - a = 0 /\ n = 0
        BY <2>2, <2>3, <2>4, <3>2 DEF Least
      <4>2. b \in Nat /\ (b = S \/ b = T - a) /\ b <= T - a /\ a + n = Least(P, T + L)
        BY <2>3, <2>4, <3>2, <4>1 DEF Least
      <4>3. Least(S, b + (L - n)) = Least(S, (T + L) - (a + n))
        BY <2>3, <3>2, <4>1, <4>2 DEF Least
      <4> QED  BY <2>3, <4>1, <4>2, <4>3 DEF Least
    <3> QED  BY <3>1, <3>2
  <2> QED  BY <2>1, <2>5
<1>4. \A i \in 1..L : bytes[i] \in Bytes /\ bytes[i] = T + i
  BY DEF Follows
<1>5. /\ SubSeq(bytes, 1, n) \in Seq(Bytes) /\ Len(SubSeq(bytes, 1, n)) = n
      /\ \A i \in 1..n : SubSeq(bytes, 1, n)[i] = bytes[i]
  <2>1. \A i \in 1..n : bytes[i] \in Bytes
    BY <1>1, <1>3, <1>4
  <2>2. 1 \in Int /\ n \in Int
    BY <1>3
  <2> HIDE DEF n
  <2>3. /\ SubSeq(bytes, 1, n) \in Seq(Bytes)
        /\ Len(SubSeq(bytes, 1, n)) = IF 1 <= n THEN n - 1 + 1 ELSE 0
        /\ \A i \in 1..(n - 1 + 1) : SubSeq(bytes, 1, n)[i] = bytes[1 + i - 1]
    BY <2>1, <2>2, SubSeqProperties
  <2> QED  BY <1>3, <2>3
<1>6. /\ rest \in Seq(Bytes) /\ Len(rest) = L - n
      /\ \A i \in 1..Len(rest) : rest[i] = T + n + i
  <2>1. \A i \in (n + 1)..L : bytes[i] \in Bytes
    BY <1>1, <1>3, <1>4
  <2>2. n + 1 \in Int /\ L \in Int
    BY <1>1, <1>3
  <2> HIDE DEF n, L
  <2>3. /\ rest \in Seq(Bytes)
        /\ Len(rest) = IF n + 1 <= L THEN L - (n + 1) + 1 ELSE 0
        /\ \A i \in 1..(L - (n + 1) + 1) : rest[i] = bytes[(n + 1) + i - 1]
    BY <2>1, <2>2, SubSeqProperties
  <2> HIDE DEF rest
  <2>4. Len(rest) = L - n
    BY <1>1, <1>3, <2>3
  <2>5. ASSUME NEW i \in 1..Len(rest) PROVE rest[i] = T + n + i
    <3>1. i \in 1..(L - (n + 1) + 1) /\ (n + 1) + i - 1 \in 1..L /\ (n + 1) + i - 1 = n + i
      BY <1>1, <1>3, <2>4
    <3> QED  BY <1>1, <1>3, <1>4, <2>3, <3>1
  <2> QED  BY <2>3, <2>4, <2>5
<1>7. /\ all \in Seq(Bytes) /\ Len(all) = b + (L - n)
      /\ \A i \in 1..Len(all) : all[i] \in Bytes /\ all[i] = (T + L) - Len(all) + i
  <2> HIDE DEF rest, n
  <2>1. /\ all \in Seq(Bytes) /\ Len(all) = b + Len(rest)
        /\ \A i \in 1..(b + Len(rest)) :
               all[i] = IF i <= b THEN c.suffix[i] ELSE rest[i - b]
    BY <1>1, <1>6, ConcatProperties
  <2> HIDE DEF all, P, S, T, L, a, b
  <2>2. ASSUME NEW i \in 1..Len(all) PROVE all[i] = (T + L) - Len(all) + i
    <3>1. CASE i <= b
      <4>1. n = 0 /\ i \in 1..b
        BY <1>1, <1>3, <2>1, <1>6, <3>1
      <4>2. c.suffix[i] = T - b + i
        BY <1>2, <4>1 DEF Follows, b
      <4> QED  BY <1>1, <1>6, <2>1, <3>1, <4>1, <4>2
    <3>2. CASE i > b
      <4>1. i - b \in 1..Len(rest)
        BY <1>1, <1>3, <1>6, <2>1, <3>2
      <4>2. all[i] = T + n + (i - b)
        <5>1. all[i] = rest[i - b]
          BY <1>1, <1>6, <2>1, <3>2
        <5> QED  BY <1>6, <4>1, <5>1
      <4>3. T + n + (i - b) = (T + L) - (b + (L - n)) + i
        BY <1>1, <1>3
      <4> QED  BY <1>6, <2>1, <4>2, <4>3
    <3> QED  BY <1>1, <2>1, <3>1, <3>2
  <2>3. \A i \in 1..Len(all) : all[i] \in Bytes
    BY <2>1, ElementOfSeq
  <2> QED  BY <1>6, <2>1, <2>2, <2>3
<1>8. /\ m \in Nat /\ m <= Len(all) /\ Min({S, Len(all)}) = m /\ Len(all) \in Nat
      /\ m = Least(S, (T + L) - (a + n))
  <2> HIDE DEF all, n
  <2>1. Len(all) \in Nat
    BY <1>1, <1>3, <1>7
  <2>2. Min({S, Len(all)}) = m
    BY <1>1, <2>1, MinOfTwo
  <2>3. m = Least(S, b + (L - n))
    BY <1>7
  <2> HIDE DEF m, P, S, T, L, a, b
  <2> QED  BY <1>3, <1>7, <2>1, <2>2, <2>3
<1>9. PICK suffix : suffix = SubSeq(all, Len(all) - m + 1, Len(all))
  OBVIOUS
<1>10. /\ suffix \in Seq(Bytes) /\ Len(suffix) = m
       /\ \A i \in 1..m : suffix[i] = (T + L) - m + i
  <2> HIDE DEF all, m, L, T
  <2>1. \A i \in (Len(all) - m + 1)..Len(all) : all[i] \in Bytes
    BY <1>7, <1>8
  <2>2. Len(all) - m + 1 \in Int /\ Len(all) \in Int
    BY <1>8
  <2>3. /\ suffix \in Seq(Bytes)
        /\ Len(suffix) = IF Len(all) - m + 1 <= Len(all)
                           THEN Len(all) - (Len(all) - m + 1) + 1 ELSE 0
        /\ \A i \in 1..(Len(all) - (Len(all) - m + 1) + 1) :
               suffix[i] = all[(Len(all) - m + 1) + i - 1]
    BY <1>9, <2>1, <2>2, SubSeqProperties
  <2>4. Len(suffix) = m
    BY <1>8, <2>3
  <2>5. ASSUME NEW i \in 1..m PROVE suffix[i] = (T + L) - m + i
    <3>1. /\ i \in 1..(Len(all) - (Len(all) - m + 1) + 1)
          /\ (Len(all) - m + 1) + i - 1 \in 1..Len(all)
      BY <1>8
    <3>2. suffix[i] = (T + L) - Len(all) + ((Len(all) - m + 1) + i - 1)
      BY <1>7, <2>3, <3>1
    <3> QED  BY <1>1, <1>8, <3>2
  <2> QED  BY <2>3, <2>4, <2>5
<1>11. PICK prefix : prefix = c.prefix \o SubSeq(bytes, 1, n)
  OBVIOUS
<1>12. prefix \in Seq(Bytes) /\ Len(prefix) = a + n /\ \A i \in 1..(a + n) : prefix[i] = i
  <2> HIDE DEF n
  <2>1. /\ prefix \in Seq(Bytes) /\ Len(prefix) = a + n
        /\ \A i \in 1..(a + n) :
               prefix[i] = IF i <= a THEN c.prefix[i] ELSE SubSeq(bytes, 1, n)[i - a]
    BY <1>1, <1>5, <1>11, ConcatProperties
  <2>b. \A i \in 1..a : c.prefix[i] = 0 + i
    BY <1>2 DEF Follows
  <2> HIDE DEF P, S, T, L, a, b
  <2>2. ASSUME NEW i \in 1..(a + n) PROVE prefix[i] = i
    <3>1. CASE i <= a
      <4>1. i \in 1..a
        BY <1>1, <3>1
      <4> QED  BY <2>1, <2>b, <3>1, <4>1
    <3>2. CASE i > a
      <4>1. i - a \in 1..n /\ n > 0 /\ i - a \in 1..L
        BY <1>1, <1>3, <3>2
      <4>2. prefix[i] = bytes[i - a]
        BY <1>1, <1>5, <2>1, <3>2, <4>1
      <4>3. bytes[i - a] = T + (i - a) /\ T = a
        BY <1>3, <1>4, <4>1
      <4> QED  BY <1>1, <4>2, <4>3
    <3> QED  BY <1>1, <1>3, <3>1, <3>2
  <2> QED  BY <2>1, <2>2
<1>13. d = [prefix |-> prefix, suffix |-> suffix, total |-> T + L]
  BY <1>3, <1>8, <1>9, <1>11 DEF Push
<1> HIDE DEF d, m, n, all, rest
<1>14. d \in Captures /\ d.prefix = prefix /\ d.suffix = suffix /\ d.total = T + L
  BY <1>1, <1>10, <1>12, <1>13 DEF Captures
<1>15. Windows(d)
  <2> HIDE DEF T, L, a, b
  <2>1. Len(d.prefix) = Least(PrefixLimit, d.total)
    BY <1>3, <1>12, <1>14
  <2>2. Len(d.suffix) = Least(SuffixLimit, d.total - Len(d.prefix))
    BY <1>8, <1>10, <1>12, <1>14
  <2>3. Follows(d.prefix, 0)
    BY <1>12, <1>14 DEF Follows
  <2>4. Follows(d.suffix, d.total - Len(d.suffix))
    BY <1>10, <1>14 DEF Follows
  <2> QED  BY <2>1, <2>2, <2>3, <2>4 DEF Windows
<1> QED  BY <1>14, <1>15 DEF d


-----------------------------------------------------------------------------
(* Steps that move bytes.                                                   *)

(* The way of a stream that a step leaves alone.                            *)
LEMMA WayKept ==
  ASSUME NEW s \in Streams, NEW f, Way(s, f), chan' = chan, cap'[s] = cap[s], rd'[s] = rd[s],
         pipe'[s] = pipe[s], written'[s] = written[s]
  PROVE  Way(s, f)'
  BY DEF Way

(* Of each stream's fields.                                                 *)
LEMMA StreamTypes ==
  ASSUME Types, NEW s \in Streams
  PROVE  /\ pipe[s] \in Seq(Bytes) /\ Len(pipe[s]) \in Nat /\ Len(pipe[s]) <= PipeCap
         /\ rd[s] \in Readers /\ rd[s].chunk \in Seq(Bytes) /\ rd[s].chunk \in Chunks
         /\ Len(rd[s].chunk) \in Nat /\ Len(chan) \in Nat
         /\ written[s] \in Nat /\ cap[s] \in Captures /\ cap[s].total \in Nat
  BY DEF Types, Readers, Chunks, Captures

(* A process writes a byte.                                                 *)
LEMMA ByteWritten ==
  ASSUME ExecInv, NEW p \in Procs, NEW s \in Streams, Write(p, s)
  PROVE  ExecInv'
<1> USE DEF ExecInv
<1>1. PICK w : w = written[s] + 1
  OBVIOUS
<1>2. PICK q : q = Append(pipe[s], w)
  OBVIOUS
<1>3. /\ UNCHANGED <<pc, proc, rd, chan, cap, out>> /\ p \in Holders(s) /\ Len(pipe[s]) < PipeCap
      /\ written' = [written EXCEPT ![s] = w] /\ pipe' = [pipe EXCEPT ![s] = q]
  BY <1>1, <1>2 DEF Write
<1>4. w \in Bytes /\ written[s] \in Nat /\ pipe[s] \in Seq(Bytes) /\ Len(pipe[s]) \in Nat
  BY <1>1, StreamTypes DEF Bytes
<1>5. /\ q \in Seq(Bytes) /\ Len(q) = Len(pipe[s]) + 1 /\ q[Len(pipe[s]) + 1] = w
      /\ \A k \in 1..Len(pipe[s]) : q[k] = pipe[s][k]
  BY <1>2, <1>4, AppendProperties
<1>6. /\ written' \in [Streams -> Nat] /\ pipe' \in [Streams -> Seq(Bytes)]
      /\ pipe'[s] = q /\ written'[s] = w
      /\ \A t \in Streams : t # s => pipe'[t] = pipe[t] /\ written'[t] = written[t]
  BY <1>1, <1>3, <1>4, <1>5 DEF Types
<1>7. \A t \in Streams : Len(pipe'[t]) <= PipeCap
  BY <1>3, <1>4, <1>5, <1>6, Known DEF Types
<1>8. Types'
  BY <1>3, <1>6, <1>7 DEF Types
<1>9. ProcPart'
  BY <1>3 DEF ProcPart, GroupGone, Alive
<1>10. \A t \in Streams : Holders(t)' = Holders(t)
  BY <1>3 DEF Holders, Alive
<1>11. DonePart'
  <2>1. pc \notin Ended => rd[s].at # "done"
    BY <1>3 DEF DonePart, Dry
  <2>2. ~(pc = "done" /\ ~out.drain)
    BY <1>3 DEF DonePart, Dry
  <2>3. \A t \in Streams : t # s /\ Dry(t) => Dry(t)'
    BY <1>3, <1>6, <1>10 DEF Dry
  <2> QED  BY <1>3, <2>1, <2>2, <2>3 DEF DonePart
<1>12. WayPart'
  <2> SUFFICES ASSUME pc \notin Ended, NEW t \in Streams
               PROVE  \E f \in [1..(Len(chan) + 1) -> Nat] : Way(t, f)'
    BY <1>3 DEF WayPart
  <2>1. PICK f \in [1..(Len(chan) + 1) -> Nat] : Way(t, f)
    BY DEF WayPart
  <2>2. CASE t # s
    BY <1>3, <1>6, <2>1, <2>2, WayKept
  <2>3. CASE t = s
    <3>1. f[Len(chan) + 1] \in Nat /\ Len(rd[s].chunk) \in Nat
      BY StreamTypes
    <3>2. PICK n \in Nat : n = f[Len(chan) + 1] + Len(rd[s].chunk)
      BY <3>1
    <3>3. Follows(pipe[s], n) /\ written[s] = n + Len(pipe[s])
      BY <2>1, <2>3, <3>1, <3>2 DEF Way
    <3>4. Follows(q, n) /\ w = n + Len(q)
      <4>1. w = n + Len(q)
        BY <1>1, <1>4, <1>5, <3>3
      <4>2. ASSUME NEW j \in 1..Len(q) PROVE q[j] = n + j
        <5>1. CASE j = Len(pipe[s]) + 1
          BY <1>5, <4>1, <5>1
        <5>2. CASE j \in 1..Len(pipe[s])
          BY <1>5, <3>3, <5>2 DEF Follows
        <5> QED  BY <1>4, <1>5, <5>1, <5>2
      <4> QED  BY <4>1, <4>2 DEF Follows
    <3>5. Way(s, f)'
      BY <1>3, <1>6, <2>1, <2>3, <3>2, <3>4 DEF Way
    <3> QED  BY <2>3, <3>5
  <2> QED  BY <2>2, <2>3
<1> QED  BY <1>3, <1>8, <1>9, <1>11, <1>12

(* A reader takes a chunk from its pipe.                                    *)
LEMMA ChunkRead ==
  ASSUME ExecInv, NEW s \in Streams, Read(s)
  PROVE  ExecInv'
<1> USE DEF ExecInv
<1>0. pipe[s] \in Seq(Bytes) /\ Len(pipe[s]) \in Nat /\ rd[s] \in Readers
  BY StreamTypes
<1>1. PICK n \in 1..Min({Len(pipe[s]), ReadSize}) :
        /\ rd' = [rd EXCEPT ![s] = [at |-> "send", chunk |-> SubSeq(pipe[s], 1, n)]]
        /\ pipe' = [pipe EXCEPT ![s] = SubSeq(pipe[s], n + 1, Len(pipe[s]))]
  BY DEF Read
<1>2. n \in 1..Len(pipe[s]) /\ n <= ReadSize /\ n \in Nat /\ n <= Len(pipe[s])
  BY <1>0, Known, MinOfTwo DEF Least
<1>3. PICK q, r : q = SubSeq(pipe[s], 1, n) /\ r = SubSeq(pipe[s], n + 1, Len(pipe[s]))
  OBVIOUS
<1>4. /\ q \in Seq(Bytes) /\ Len(q) = n /\ \A i \in 1..n : q[i] = pipe[s][i]
  <2>1. \A i \in 1..n : pipe[s][i] \in Bytes
    BY <1>0, <1>2
  <2>2. /\ SubSeq(pipe[s], 1, n) \in Seq(Bytes)
        /\ Len(SubSeq(pipe[s], 1, n)) = IF 1 <= n THEN n - 1 + 1 ELSE 0
        /\ \A i \in 1..(n - 1 + 1) : SubSeq(pipe[s], 1, n)[i] = pipe[s][1 + i - 1]
    BY <1>2, <2>1, SubSeqProperties
  <2> QED  BY <1>2, <1>3, <2>2
<1>5. /\ r \in Seq(Bytes) /\ Len(r) = Len(pipe[s]) - n
      /\ \A i \in 1..Len(r) : n + i \in 1..Len(pipe[s]) /\ r[i] = pipe[s][n + i]
  <2>1. \A i \in (n + 1)..Len(pipe[s]) : pipe[s][i] \in Bytes
    BY <1>0, <1>2
  <2>2. PICK z \in Nat : z = Len(pipe[s])
    BY <1>0
  <2>3. /\ r \in Seq(Bytes)
        /\ Len(r) = IF n + 1 <= z THEN z - (n + 1) + 1 ELSE 0
        /\ \A i \in 1..(z - (n + 1) + 1) : r[i] = pipe[s][(n + 1) + i - 1]
    BY <1>2, <1>3, <2>1, <2>2, SubSeqProperties
  <2>4. Len(r) = z - n
    BY <1>2, <2>2, <2>3
  <2>5. ASSUME NEW i \in 1..Len(r) PROVE n + i \in 1..z /\ r[i] = pipe[s][n + i]
    <3>1. i \in 1..(z - (n + 1) + 1) /\ (n + 1) + i - 1 = n + i /\ n + i \in 1..z
      BY <1>2, <2>2, <2>4
    <3> QED  BY <2>3, <3>1
  <2> QED  BY <2>2, <2>3, <2>4, <2>5
<1>6. /\ UNCHANGED <<pc, proc, written, chan, cap, out>> /\ rd[s].at = "read"
      /\ rd' = [rd EXCEPT ![s] = [at |-> "send", chunk |-> q]]
      /\ pipe' = [pipe EXCEPT ![s] = r]
  BY <1>1, <1>3 DEF Read, procVars
<1>7. [at |-> "send", chunk |-> q] \in Readers
  BY <1>2, <1>4 DEF Readers, Chunks
<1>8. /\ rd' \in [Streams -> Readers] /\ pipe' \in [Streams -> Seq(Bytes)]
      /\ pipe'[s] = r /\ rd'[s].chunk = q /\ rd'[s].at = "send"
      /\ \A t \in Streams : t # s => pipe'[t] = pipe[t] /\ rd'[t] = rd[t]
  BY <1>5, <1>6, <1>7 DEF Types
<1>9. Types'
  <2>1. Len(r) <= PipeCap
    BY <1>0, <1>2, <1>5, Known, StreamTypes
  <2>2. \A t \in Streams : Len(pipe'[t]) <= PipeCap
    BY <1>8, <2>1 DEF Types
  <2> QED  BY <1>6, <1>8, <2>2 DEF Types
<1>10. ProcPart'
  BY <1>6 DEF ProcPart, GroupGone, Alive
<1>11. DonePart'
  <2>1. \A t \in Streams : Holders(t)' = Holders(t)
    BY <1>6 DEF Holders, Alive
  <2>2. ~(pc = "done" /\ ~out.drain) /\ pc \notin Unstarted
    BY <1>6 DEF DonePart
  <2>3. \A t \in Streams : t # s /\ Dry(t) => Dry(t)'
    BY <1>8, <2>1 DEF Dry
  <2> QED  BY <1>6, <1>8, <2>2, <2>3 DEF DonePart
<1>12. WayPart'
  <2> SUFFICES ASSUME pc \notin Ended, NEW t \in Streams
               PROVE  \E f \in [1..(Len(chan) + 1) -> Nat] : Way(t, f)'
    BY <1>6 DEF WayPart
  <2>1. PICK f \in [1..(Len(chan) + 1) -> Nat] : Way(t, f)
    BY DEF WayPart
  <2>2. CASE t # s
    BY <1>6, <1>8, <2>1, <2>2, WayKept
  <2>3. CASE t = s
    <3>1. PICK m \in Nat : m = f[Len(chan) + 1]
      BY StreamTypes
    <3>2. rd[s].chunk = <<>> /\ Len(rd[s].chunk) = 0
      BY <1>6 DEF DonePart
    <3>3. Follows(pipe[s], m) /\ written[s] = m + Len(pipe[s])
      BY <1>0, <2>1, <2>3, <3>1, <3>2 DEF Way
    <3>4. Follows(q, m)
      <4>1. ASSUME NEW i \in 1..n PROVE q[i] = m + i
        <5>1. i \in 1..Len(pipe[s])
          BY <1>0, <1>2
        <5> QED  BY <1>4, <3>3, <5>1 DEF Follows
      <4> QED  BY <1>4, <4>1 DEF Follows
    <3>5. Follows(r, m + Len(q))
      <4>1. ASSUME NEW i \in 1..Len(r) PROVE r[i] = (m + n) + i
        <5>1. pipe[s][n + i] = m + (n + i)
          BY <1>5, <3>3 DEF Follows
        <5> QED  BY <1>2, <1>5, <5>1
      <4> QED  BY <1>4, <4>1 DEF Follows
    <3>6. written[s] = m + Len(q) + Len(r)
      <4>1. PICK z \in Nat : z = Len(pipe[s])
        BY <1>0
      <4>2. Len(q) = n /\ Len(r) = z - n /\ n \in Nat /\ written[s] = m + z
        BY <1>2, <1>4, <1>5, <3>3, <4>1
      <4> QED  BY <4>2
    <3>7. Way(s, f)'
      BY <1>6, <1>8, <2>1, <2>3, <3>1, <3>4, <3>5, <3>6 DEF Way
    <3> QED  BY <2>3, <3>7
  <2> QED  BY <2>2, <2>3
<1> QED  BY <1>6, <1>9, <1>10, <1>11, <1>12


(* A reader finds its pipe empty and held by nobody.                        *)
LEMMA EofRead ==
  ASSUME ExecInv, NEW s \in Streams, ReadEof(s)
  PROVE  ExecInv'
<1> USE DEF ExecInv
<1>1. /\ UNCHANGED <<pc, proc, written, pipe, chan, cap, out>> /\ rd[s].at = "read"
      /\ pipe[s] = <<>> /\ Holders(s) = {} /\ rd' = [rd EXCEPT ![s].at = "done"]
  BY DEF ReadEof, procVars
<1>2. rd[s] \in Readers /\ rd[s].chunk = <<>>
  BY <1>1, StreamTypes DEF DonePart
<1>3. /\ rd' \in [Streams -> Readers] /\ rd'[s].at = "done"
      /\ \A t \in Streams : rd'[t].chunk = rd[t].chunk /\ (t # s => rd'[t] = rd[t])
  BY <1>1, <1>2 DEF Types, Readers
<1>4. Types'
  BY <1>1, <1>3 DEF Types
<1>5. ProcPart'
  BY <1>1 DEF ProcPart, GroupGone, Alive
<1>6. WayPart'
  <2> SUFFICES ASSUME pc \notin Ended, NEW t \in Streams
               PROVE  \E f \in [1..(Len(chan) + 1) -> Nat] : Way(t, f)'
    BY <1>1 DEF WayPart
  <2>1. PICK f \in [1..(Len(chan) + 1) -> Nat] : Way(t, f)
    BY DEF WayPart
  <2>2. Way(t, f)'
    BY <1>1, <1>3, <2>1 DEF Way
  <2> QED  BY <2>2
<1>7. DonePart'
  <2>1. \A t \in Streams : Holders(t)' = Holders(t)
    BY <1>1 DEF Holders, Alive
  <2>2. Dry(s)' /\ \A t \in Streams : Dry(t) => Dry(t)'
    BY <1>1, <1>2, <1>3, <2>1 DEF Dry
  <2> QED  BY <1>1, <1>2, <1>3, <2>2 DEF DonePart
<1> QED  BY <1>1, <1>4, <1>5, <1>6, <1>7

(* A reader whose receiver is gone gives up.                                *)
LEMMA SendGivenUp ==
  ASSUME ExecInv, NEW s \in Streams, SendFails(s)
  PROVE  ExecInv'
<1> USE DEF ExecInv
<1>1. /\ UNCHANGED <<pc, proc, written, pipe, chan, cap, out>> /\ rd[s].at = "send" /\ pc \in Ended
      /\ rd' = [rd EXCEPT ![s] = [at |-> "done", chunk |-> <<>>]]
  BY DEF SendFails, procVars
<1>2. [at |-> "done", chunk |-> <<>>] \in Readers
  BY Known DEF Readers, Chunks
<1>3. /\ rd' \in [Streams -> Readers] /\ rd'[s].at = "done" /\ rd'[s].chunk = <<>>
      /\ \A t \in Streams : t # s => rd'[t] = rd[t]
  BY <1>1, <1>2 DEF Types
<1>4. ProcPart' /\ WayPart'
  BY <1>1 DEF ProcPart, GroupGone, Alive, WayPart
<1>5. ~(pc = "done" /\ ~out.drain) /\ pc \notin Unstarted
  BY <1>1 DEF DonePart
<1>6. DonePart'
  BY <1>1, <1>3, <1>5 DEF DonePart
<1>7. Types'
  BY <1>1, <1>3 DEF Types
<1> QED  BY <1>1, <1>4, <1>6, <1>7

(* A reader puts its chunk into the channel: f is one longer.               *)
LEMMA ChunkSent ==
  ASSUME ExecInv, NEW s \in Streams, Send(s)
  PROVE  ExecInv'
<1> USE DEF ExecInv
<1>1. PICK e : e = [s |-> s, chunk |-> rd[s].chunk]
  OBVIOUS
<1>2. /\ UNCHANGED <<pc, proc, written, pipe, cap, out>> /\ rd[s].at = "send" /\ pc \notin Ended
      /\ Len(chan) < ChanCap /\ chan' = Append(chan, e)
      /\ rd' = [rd EXCEPT ![s] = [at |-> "read", chunk |-> <<>>]]
  BY <1>1 DEF Send, procVars
<1>3. /\ e \in Events /\ e.s = s /\ e.chunk = rd[s].chunk
      /\ chan \in Seq(Events) /\ Len(chan) \in Nat /\ rd[s].chunk \in Seq(Bytes)
      /\ Len(rd[s].chunk) \in Nat
  BY <1>1, StreamTypes DEF Events, Types
<1>4. /\ chan' \in Seq(Events) /\ Len(chan') = Len(chan) + 1 /\ chan'[Len(chan) + 1] = e
      /\ \A k \in 1..Len(chan) : chan'[k] = chan[k]
  BY <1>2, <1>3, AppendProperties
<1>5. [at |-> "read", chunk |-> <<>>] \in Readers
  BY Known DEF Readers, Chunks
<1>6. /\ rd' \in [Streams -> Readers] /\ rd'[s].at = "read" /\ rd'[s].chunk = <<>>
      /\ \A t \in Streams : t # s => rd'[t] = rd[t]
  BY <1>2, <1>5 DEF Types
<1>7. Types'
  <2>1. Len(chan') <= ChanCap
    BY <1>2, <1>3, <1>4, Known
  <2> QED  BY <1>2, <1>4, <1>6, <2>1 DEF Types
<1>8. ProcPart'
  BY <1>2 DEF ProcPart, GroupGone, Alive
<1>9. DonePart'
  <2>1. \A t \in Streams : Holders(t)' = Holders(t)
    BY <1>2 DEF Holders, Alive
  <2>2. pc \notin Unstarted
    BY <1>2 DEF DonePart
  <2>3. \A t \in Streams : t # s /\ Dry(t) => Dry(t)'
    BY <1>2, <1>6, <2>1 DEF Dry
  <2> QED  BY <1>2, <1>6, <2>2, <2>3 DEF DonePart, Ended
<1>10. WayPart'
  <2> SUFFICES ASSUME NEW t \in Streams
               PROVE  \E g \in [1..(Len(chan') + 1) -> Nat] : Way(t, g)'
    BY <1>2 DEF WayPart
  <2>1. PICK f \in [1..(Len(chan) + 1) -> Nat] : Way(t, f)
    BY <1>2 DEF WayPart
  <2>2. PICK z \in Nat : z = Len(chan)
    BY <1>3
  <2>3. PICK m \in Nat : m = IF t = s THEN f[z + 1] + Len(rd[s].chunk) ELSE f[z + 1]
    BY <1>3, <2>2
  <2>4. PICK g : g = [k \in 1..(z + 2) |-> IF k <= z + 1 THEN f[k] ELSE m]
    OBVIOUS
  <2>5. /\ g \in [1..(z + 2) -> Nat] /\ g[z + 2] = m
        /\ \A k \in 1..(z + 1) : g[k] = f[k]
    BY <2>2, <2>4
  <2>6. g[1] = cap'[t].total
    BY <1>2, <2>1, <2>5 DEF Way
  <2>7. ASSUME NEW k \in 1..Len(chan')
        PROVE  /\ chan'[k].s = t => /\ Follows(chan'[k].chunk, g[k])
                                    /\ g[k + 1] = g[k] + Len(chan'[k].chunk)
               /\ chan'[k].s # t => g[k + 1] = g[k]
    <3>1. CASE k = z + 1
      <4>1. chan'[k] = e /\ g[k] = f[z + 1] /\ g[k + 1] = m
        BY <1>4, <2>2, <2>5, <3>1
      <4>2. CASE t = s
        BY <1>3, <2>1, <2>2, <2>3, <4>1, <4>2 DEF Way
      <4>3. CASE t # s
        BY <1>3, <2>3, <4>1, <4>3
      <4> QED  BY <4>2, <4>3
    <3>2. CASE k # z + 1
      <4>1. k \in 1..z /\ k + 1 \in 1..(z + 1) /\ k \in 1..(z + 1)
        BY <1>4, <2>2, <3>2
      <4>2. chan'[k] = chan[k] /\ g[k] = f[k] /\ g[k + 1] = f[k + 1]
        BY <1>4, <2>2, <2>5, <4>1
      <4> QED  BY <2>1, <2>2, <4>1, <4>2 DEF Way
    <3> QED  BY <3>1, <3>2
  <2>8. /\ Follows(rd'[t].chunk, m) /\ Follows(pipe[t], m + Len(rd'[t].chunk))
        /\ written[t] = m + Len(rd'[t].chunk) + Len(pipe[t])
    <3>1. CASE t = s
      <4>1. Len(rd'[t].chunk) = 0 /\ m + 0 = m
        BY <1>6, <3>1
      <4> QED  BY <2>1, <2>2, <2>3, <3>1, <4>1 DEF Way, Follows
    <3>2. CASE t # s
      BY <1>6, <2>1, <2>2, <2>3, <3>2 DEF Way
    <3> QED  BY <3>1, <3>2
  <2>9. Way(t, g)'
    <3>1. Len(chan') + 1 = z + 2
      BY <1>4, <2>2
    <3> QED  BY <1>2, <2>5, <2>6, <2>7, <2>8, <3>1 DEF Way
  <2> QED  BY <1>4, <2>2, <2>5, <2>9
<1> QED  BY <1>2, <1>7, <1>8, <1>9, <1>10


(* The task takes the first event: f is one shorter.                        *)
LEMMA ChunkCaptured ==
  ASSUME ExecInv, LoopCapture \/ DrainCapture
  PROVE  ExecInv'
<1> USE DEF ExecInv
<1>1. /\ UNCHANGED <<pc, proc, written, pipe, rd, out>> /\ pc \in {"loop", "drain"}
      /\ chan # <<>> /\ chan' = Tail(chan)
      /\ cap' = [cap EXCEPT ![Head(chan).s] = Push(cap[Head(chan).s], Head(chan).chunk)]
  BY DEF LoopCapture, DrainCapture, CaptureHead, procVars
<1>2. pc \notin Ended /\ pc \notin Unstarted /\ chan \in Seq(Events)
  BY <1>1 DEF Ended, Unstarted, Types
<1>3. PICK e : e = Head(chan)
  OBVIOUS
<1>4. /\ e \in Events /\ e = chan[1] /\ Len(chan) \in Nat /\ Len(chan) > 0
      /\ chan' \in Seq(Events) /\ Len(chan') = Len(chan) - 1
      /\ \A k \in 1..Len(chan') : chan'[k] = chan[k + 1]
  BY <1>1, <1>2, <1>3, HeadTailProperties
<1>5. PICK s \in Streams : s = e.s
  BY <1>4 DEF Events
<1>6. e.chunk \in Seq(Bytes) /\ Len(e.chunk) \in Nat /\ cap[s] \in Captures
  BY <1>4, StreamTypes DEF Events, Chunks
<1>7. \A f : Way(s, f) => /\ f[1] = cap[s].total /\ Follows(e.chunk, f[1])
                          /\ f[2] = f[1] + Len(e.chunk)
  <2> SUFFICES ASSUME NEW f, Way(s, f)
               PROVE  /\ f[1] = cap[s].total /\ Follows(e.chunk, f[1])
                      /\ f[2] = f[1] + Len(e.chunk)
    OBVIOUS
  <2>1. 1 \in 1..Len(chan) /\ 1 + 1 = 2 /\ chan[1] = e
    BY <1>4
  <2> QED  BY <1>5, <2>1 DEF Way
<1>8. Follows(e.chunk, cap[s].total)
  <2>1. PICK f \in [1..(Len(chan) + 1) -> Nat] : Way(s, f)
    BY <1>2 DEF WayPart
  <2> QED  BY <1>7, <2>1
<1>9. PICK c : c = Push(cap[s], e.chunk)
  OBVIOUS
<1>10. c \in Captures /\ Windows(c) /\ c.total = cap[s].total + Len(e.chunk)
  BY <1>6, <1>8, <1>9, PushExact
<1>11. /\ cap' \in [Streams -> Captures] /\ cap'[s] = c
       /\ \A t \in Streams : t # s => cap'[t] = cap[t]
  <2>1. cap' = [cap EXCEPT ![s] = c]
    BY <1>1, <1>3, <1>5, <1>9
  <2> QED  BY <1>10, <2>1 DEF Types
<1>12. \A t \in Streams : Windows(cap'[t])
  BY <1>10, <1>11
<1>13. Types'
  <2>1. Len(chan') <= ChanCap
    BY <1>4, Known DEF Types
  <2> QED  BY <1>1, <1>4, <1>11, <2>1 DEF Types
<1>14. ProcPart'
  BY <1>1 DEF ProcPart, GroupGone, Alive
<1>15. DonePart'
  <2>1. \A t \in Streams : Dry(t)' = Dry(t)
    BY <1>1 DEF Dry, Holders, Alive
  <2> QED  BY <1>1, <1>2, <2>1 DEF DonePart
<1>16. WayPart'
  <2> SUFFICES ASSUME NEW t \in Streams
               PROVE  \E g \in [1..(Len(chan') + 1) -> Nat] : Way(t, g)'
    BY <1>2 DEF WayPart
  <2>1. PICK f \in [1..(Len(chan) + 1) -> Nat] : Way(t, f)
    BY <1>2 DEF WayPart
  <2>2. PICK z \in Nat : z + 1 = Len(chan)
    <3>1. Len(chan) - 1 \in Nat /\ (Len(chan) - 1) + 1 = Len(chan)
      BY <1>4
    <3> QED  BY <3>1
  <2>3. Len(chan') = z
    BY <1>4, <2>2
  <2>4. PICK g : g = [k \in 1..(z + 1) |-> f[k + 1]]
    OBVIOUS
  <2>5. \A k \in 1..(z + 1) : k + 1 \in 1..(Len(chan) + 1)
    BY <2>2
  <2>6. g \in [1..(z + 1) -> Nat] /\ \A k \in 1..(z + 1) : g[k] = f[k + 1]
    BY <2>4, <2>5
  <2>7. g[1] = cap'[t].total
    <3>1. g[1] = f[2]
      BY <2>2, <2>6
    <3>2. CASE t = s
      BY <1>7, <1>10, <1>11, <2>1, <3>1, <3>2
    <3>3. CASE t # s
      <4>1. 1 \in 1..Len(chan) /\ 1 + 1 = 2 /\ chan[1].s # t
        BY <1>4, <1>5, <3>3
      <4>2. f[2] = f[1] /\ f[1] = cap[t].total
        BY <2>1, <4>1 DEF Way
      <4> QED  BY <1>11, <3>1, <3>3, <4>2
    <3> QED  BY <3>2, <3>3
  <2>8. ASSUME NEW k \in 1..Len(chan')
        PROVE  /\ chan'[k].s = t => /\ Follows(chan'[k].chunk, g[k])
                                    /\ g[k + 1] = g[k] + Len(chan'[k].chunk)
               /\ chan'[k].s # t => g[k + 1] = g[k]
    <3>1. k + 1 \in 1..Len(chan) /\ k \in 1..(z + 1) /\ k + 1 \in 1..(z + 1)
      BY <2>2, <2>3
    <3>2. chan'[k] = chan[k + 1] /\ g[k] = f[k + 1] /\ g[k + 1] = f[(k + 1) + 1]
      BY <1>4, <2>6, <3>1
    <3> QED  BY <2>1, <3>1, <3>2 DEF Way
  <2>9. g[z + 1] = f[Len(chan) + 1]
    BY <2>2, <2>6
  <2>10. Way(t, g)'
    BY <1>1, <2>1, <2>3, <2>7, <2>8, <2>9 DEF Way
  <2> QED  BY <2>3, <2>6, <2>10
<1> QED  BY <1>12, <1>13, <1>14, <1>15, <1>16

-----------------------------------------------------------------------------
(* The invariant holds at the start ...                                     *)
LEMMA ExecStarts == Init => ExecInv
<1> SUFFICES ASSUME Init PROVE ExecInv
  OBVIOUS
<1>1. /\ pc = "check" /\ proc = [p \in Procs |-> NoProc] /\ written = [s \in Streams |-> 0]
      /\ pipe = [s \in Streams |-> <<>>]
      /\ rd = [s \in Streams |-> [at |-> "done", chunk |-> <<>>]]
      /\ chan = <<>> /\ cap = [s \in Streams |-> NoOutput] /\ out = NoOutcome
  BY DEF Init
<1>2. NoProc \in Processes /\ NoProc.life = "none"
  BY DEF NoProc, Processes, Lives
<1>3. <<>> \in Seq(Bytes) /\ Len(<<>>) = 0 /\ <<>> \in Seq(Events)
  OBVIOUS
<1>4. [at |-> "done", chunk |-> <<>>] \in Readers
  BY <1>3, Known DEF Readers, Chunks
<1>5. NoOutput \in Captures /\ Windows(NoOutput) /\ NoOutput.total = 0
  BY <1>3, Known DEF NoOutput, Captures, Windows, Least, Follows
<1>6. NoOutcome \in Outcomes /\ ~NoOutcome.drain /\ NoOutcome.term = "none"
  BY DEF NoOutcome, Outcomes
<1>7. Types
  <2>1. /\ proc \in [Procs -> Processes] /\ written \in [Streams -> Nat]
        /\ pipe \in [Streams -> Seq(Bytes)] /\ rd \in [Streams -> Readers]
        /\ cap \in [Streams -> Captures]
    BY <1>1, <1>2, <1>3, <1>4, <1>5
  <2>2. /\ \A s \in Streams : Len(pipe[s]) <= PipeCap
        /\ chan \in Seq(Events) /\ Len(chan) <= ChanCap
    BY <1>1, <1>3, Known
  <2> QED  BY <1>1, <1>6, <2>1, <2>2 DEF Types
<1>8. ProcPart
  BY <1>1, <1>2, <1>6 DEF ProcPart, Unstarted, Ended
<1>9. WayPart
  <2> SUFFICES ASSUME NEW s \in Streams
               PROVE  \E f \in [1..(Len(chan) + 1) -> Nat] : Way(s, f)
    BY DEF WayPart
  <2>1. Len(chan) = 0
    BY <1>1, <1>3
  <2>2. PICK f : f = [k \in 1..(Len(chan) + 1) |-> 0]
    OBVIOUS
  <2>3. f \in [1..(Len(chan) + 1) -> Nat] /\ f[1] = 0
    BY <2>1, <2>2
  <2>4. /\ cap[s].total = 0 /\ rd[s].chunk = <<>> /\ pipe[s] = <<>> /\ written[s] = 0
    BY <1>1, <1>5
  <2>5. Way(s, f)
    BY <1>3, <2>1, <2>3, <2>4 DEF Way, Follows
  <2> QED  BY <2>3, <2>5
<1>10. DonePart
  BY <1>1, <1>2 DEF DonePart, Dry, Holders, Alive, Ended
<1> QED  BY <1>1, <1>5, <1>7, <1>8, <1>9, <1>10 DEF ExecInv

(* ... and every step keeps it.                                             *)
LEMMA ExecSteps == ExecInv /\ [Next]_vars => ExecInv'
<1> SUFFICES ASSUME ExecInv, [Next]_vars PROVE ExecInv'
  OBVIOUS
<1>1. CASE Task
  BY <1>1, Checked, Spawned, LoopLeft, ChunkCaptured, DrainEnds DEF Task
<1>2. CASE Timers \/ WaitFails \/ Dropped
  BY <1>2, LoopLeft, TaskDropped DEF Timers
<1>3. CASE Process
  <2>1. PICK p \in Procs : \/ \E s \in Streams : Write(p, s) \/ Redirect(p, s)
                           \/ \E q \in Procs : Fork(p, q)
                           \/ LeaveGroup(p) \/ Exit(p)
    BY <1>3 DEF Process
  <2>2. ASSUME NEW s \in Streams, Write(p, s) PROVE ExecInv'
    BY <2>2, ByteWritten
  <2> QED  BY <2>1, <2>2, ProcessSteps
<1>4. ASSUME NEW s \in Streams, Reader(s) PROVE ExecInv'
  BY <1>4, ChunkRead, EofRead, ChunkSent, SendGivenUp DEF Reader
<1>5. CASE UNCHANGED vars
  <2> USE <1>5 DEF vars, ExecInv
  <2>1. Types' /\ ProcPart'
    BY DEF Types, ProcPart, GroupGone, Alive
  <2>2. WayPart'
    BY DEF WayPart, Way
  <2>3. DonePart'
    BY DEF DonePart, Dry, Holders, Alive
  <2> QED  BY <2>1, <2>2, <2>3
<1> QED  BY <1>1, <1>2, <1>3, <1>4, <1>5 DEF Next, Stop

(* exec reports exactly the first and the last bytes of each stream and how   *)
(* many there were, however they were cut into reads; a result that does not  *)
(* say the drain timed out has everything that will ever be written.         *)
THEOREM OutputIsTrue == Spec => []OutputTrue
<1>1. ExecInv => OutputTrue
  <2> SUFFICES ASSUME ExecInv PROVE OutputTrue
    OBVIOUS
  <2> USE DEF ExecInv
  <2>1. TypeOK
    <3>1. \A k \in DOMAIN chan : chan[k].s \in Streams /\ IsChunk(chan[k].chunk)
      <4> SUFFICES ASSUME NEW k \in DOMAIN chan
                   PROVE  chan[k].s \in Streams /\ IsChunk(chan[k].chunk)
        OBVIOUS
      <4>1. chan[k] \in Events
        BY DEF Types
      <4> QED  BY <4>1 DEF Events, Chunks, IsChunk
    <3>2. ASSUME NEW s \in Streams
          PROVE  /\ pipe[s] \in Seq(Bytes) /\ Len(pipe[s]) <= PipeCap
                 /\ rd[s].at \in {"read", "send", "done"} /\ IsChunk(rd[s].chunk)
                 /\ cap[s].total \in Nat
                 /\ Len(cap[s].prefix) <= PrefixLimit /\ Len(cap[s].suffix) <= SuffixLimit
      <4>1. cap[s] \in Captures /\ Windows(cap[s]) /\ rd[s] \in Readers
        BY StreamTypes
      <4>2. Len(cap[s].prefix) <= PrefixLimit /\ Len(cap[s].prefix) \in Nat
        BY <4>1, Known DEF Windows, Least, Captures
      <4>3. Len(cap[s].suffix) <= SuffixLimit
        BY <4>1, <4>2, Known DEF Windows, Least, Captures
      <4>4. rd[s].at \in {"read", "send", "done"} /\ IsChunk(rd[s].chunk)
        BY <4>1 DEF Readers, Chunks, IsChunk
      <4> QED  BY <4>2, <4>3, <4>4, StreamTypes
    <3>3. proc \in [Procs -> [life : {"none", "alive", "zombie", "dead"}, grp : BOOLEAN,
                              fds : SUBSET Streams]]
      BY DEF Types, Processes, Lives
    <3>4. out.term \in {"none", "exited", "signaled", "timedout"} /\ out.drain \in BOOLEAN
      BY DEF Types, Outcomes
    <3> QED  BY <3>1, <3>2, <3>3, <3>4 DEF TypeOK, Types
  <2>2. WindowsExact
    <3> SUFFICES ASSUME NEW s \in Streams, NEW c, c = cap[s]
                 PROVE  /\ c.prefix = [k \in 1..Min({PrefixLimit, c.total}) |-> k]
                        /\ LET n == Min({SuffixLimit, c.total - Len(c.prefix)})
                           IN  c.suffix = [k \in 1..n |-> c.total - n + k]
                        /\ Omitted(c) = IF c.total > PrefixLimit + SuffixLimit
                                          THEN c.total - PrefixLimit - SuffixLimit ELSE 0
      BY DEF WindowsExact
    <3>1. /\ Windows(c) /\ c.prefix \in Seq(Bytes) /\ c.suffix \in Seq(Bytes) /\ c.total \in Nat
          /\ Len(c.prefix) \in Nat /\ Len(c.suffix) \in Nat
      BY StreamTypes DEF Captures
    <3>2. PICK a, b : a = Len(c.prefix) /\ b = Len(c.suffix)
      OBVIOUS
    <3>3. /\ a \in Nat /\ b \in Nat
          /\ a = Least(PrefixLimit, c.total) /\ b = Least(SuffixLimit, c.total - a)
      BY <3>1, <3>2 DEF Windows
    <3>4. Min({PrefixLimit, c.total}) = a /\ Min({SuffixLimit, c.total - a}) = b
      BY <3>1, <3>3, MinOfTwo, Known
    <3>5. c.prefix = [k \in 1..a |-> k]
      <4>1. c.prefix \in [1..a -> Bytes]
        BY <3>1, <3>2, LenProperties
      <4>2. \A k \in 1..a : c.prefix[k] = k
        BY <3>1, <3>2 DEF Windows, Follows
      <4> QED  BY <4>1, <4>2
    <3>6. c.suffix = [k \in 1..b |-> c.total - b + k]
      <4>1. c.suffix \in [1..b -> Bytes]
        BY <3>1, <3>2, LenProperties
      <4>2. \A k \in 1..b : c.suffix[k] = c.total - b + k
        BY <3>1, <3>2 DEF Windows, Follows
      <4> QED  BY <4>1, <4>2
    <3>7. Omitted(c) = IF c.total > PrefixLimit + SuffixLimit
                         THEN c.total - PrefixLimit - SuffixLimit ELSE 0
      BY <3>1, <3>2, <3>3, Known DEF Omitted, Least
    <3> QED  BY <3>2, <3>4, <3>5, <3>6, <3>7
  <2>3. CompleteOutput
    BY DEF CompleteOutput, DonePart, Dry
  <2> QED  BY <2>1, <2>2, <2>3 DEF OutputTrue
<1> QED  BY <1>1, ExecStarts, ExecSteps, PTL DEF Spec

(* However exec ends, the leader is dead; after a timeout or an expired drain *)
(* so is every descendant that stayed in its process group.                 *)
THEOREM NothingRunsAway == Spec => []NoRunaway
<1>1. ExecInv => NoRunaway
  BY DEF ExecInv, ProcPart, NoRunaway, GroupGone, Alive, Unstarted, Types
<1> QED  BY <1>1, ExecStarts, ExecSteps, PTL DEF Spec
=============================================================================
