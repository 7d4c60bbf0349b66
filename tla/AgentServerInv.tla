--------------------------- MODULE AgentServerInv ---------------------------
(***************************************************************************)
(* The inductive invariant behind the theorems of AgentServerProofs.        *)
(***************************************************************************)
EXTENDS AgentServer

FsSteps == {"read", "prepare", "install", "commit"}

(* What a task's program counter says about its fields.  The write guard    *)
(* serialises mutations and prunes.                                         *)
TaskShape ==
    \A t \in Tasks :
        /\ task[t].pc # "idle" => task[t].rid \in Rids
        /\ task[t].pc \in FsSteps =>
               task[t].path \in Paths /\ BodyOf(t).kind \in FsKinds /\ guard = t
        /\ task[t].pc \in {"prepare", "install", "commit", "exec_append", "exec_push"}
               => task[t].op \in OpIds
        /\ task[t].pc \in {"exec_append", "exec_push", "remember", "stored"}
               => task[t].ans.st \in {"done", "error"}

(* Mutation records name their request and path.                            *)
RecordShape ==
    \A i \in OpIds : \A rec \in {ops[i], mops[i]} :
        rec.st \in {"prepared", "fs"} =>
            rec.rid \in Rids /\ rec.path \in Paths /\ rec.kind \in FsKinds

(* The owner of a running prune waits in its handler, holding the guard.    *)
PruneShape ==
    prune.stage # "idle" /\ prune.by # NoTask =>
        task[prune.by].pc = "begin" /\ BodyOf(prune.by).kind = "gc" /\ guard = prune.by

RecoveryShape ==
    recov # NoRecov => recov.rid \in Rids /\ recov.ans.st \in {"done", "error"}

TypeInv == TypeOK /\ TaskShape /\ RecordShape /\ PruneShape /\ RecoveryShape

(* Startup has no tasks, a dead process no prune.                           *)
PhaseInv ==
    /\ srv # "up" => \A t \in Tasks : task[t] = IdleTask
    /\ prune.stage # "idle" => srv = IF prune.by = NoTask THEN "recover" ELSE "up"

(* Operation ids in use: below the counter, and no two tasks share one.     *)
IdInv ==
    /\ \A t \in Tasks : task[t].op <= nextId
    /\ \A t, u \in Tasks : task[t].op # 0 /\ task[t].op = task[u].op => t = u
    /\ \A i \in OpIds : mops[i].st # "none" => i <= nextId
    /\ srv # "down" => \A e \in effects : e.op <= nextId

(* A task about to write its record for the first time writes over nothing. *)
FreshInv ==
    \A t \in Tasks :
        /\ task[t].pc \in {"prepare", "exec_append", "exec_push"} =>
               \A e \in effects : e.op # task[t].op
        /\ task[t].pc \in {"prepare", "install", "commit"} => mops[task[t].op].st = "none"

(* Write-ahead: the marker is in the log before the workspace is touched.   *)
WalInv ==
    \A t \in Tasks : task[t].pc \in {"install", "commit"} =>
        LET rec == ops[task[t].op] IN
        /\ rec.st = "prepared"
        /\ rec.rid = task[t].rid /\ rec.path = task[t].path /\ rec.new = task[t].new

(* What a prune is about to write back covers the effects as the log does.  *)
MemoryCovers ==
    \A e \in effects :
        LET rec == mops[e.op] IN
        \/ rec.st \in {"none", "aborted"}
        \/ /\ rec.st \in {"prepared", "fs"}
           /\ rec.rid = e.rid /\ rec.path = e.path /\ rec.new = e.new

CounterCovers ==
    prune.stage = "ops" => \A e \in effects : counter # Corrupt /\ e.op <= counter

(* Owners hold their claim in the table: SingleOwner, and nothing else.     *)
WalIInv ==
    /\ PhaseInv /\ IdInv /\ FreshInv /\ WalInv /\ MemoryCovers /\ CounterCovers
    /\ LoggedEffects

(* All of it: an invariant that every step preserves.                       *)
IInv == TypeInv /\ WalIInv /\ SingleOwner
=============================================================================
