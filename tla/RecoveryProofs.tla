--------------------------- MODULE RecoveryProofs ---------------------------
(***************************************************************************)
(* What the logs promise while nothing but crashes, restarts, duplicates,   *)
(* prunes and concurrency goes against the server. The operation log and    *)
(* the history: NoPhantom, HistoryExplainsFile, SafeUndo and BlobIsBefore.  *)
(* The request log, as long as nothing is pruned: AtMostOnce, AckedSurvives *)
(* and, for one request at a time, AnswerSurvives; and that the server then *)
(* implements IdempotentService. Then the operation ids, whatever fails:    *)
(* OpIdStable. Last, what is left of the answers when there are prunes:     *)
(* AckedUnlessPruned.                                                       *)
(***************************************************************************)
EXTENDS AgentServerProofs, FiniteSetTheorems

(* No I/O call has failed and nobody else has written to the workspace.     *)
Undisturbed == fails = 0 /\ externals = 0

(* How much of the history a gc request keeps.                              *)
Keep(b) == IF b.keep # NoLimit THEN b.keep ELSE HistoryLimit

(* A command may run while a gc request prunes: exec holds no guard, so the  *)
(* record of a command can be written between the prune's look at memory     *)
(* and its rewrite of the log, and is lost there until the next prune.      *)
Racy ==
    /\ \E r \in Rids : body[r].kind = "exec"
    /\ \E r \in Rids : body[r].kind = "gc" /\ Keep(body[r]) # NoLimit

-----------------------------------------------------------------------------
(* The operation log, the history in memory and the workspace.              *)

FsRecs == {"prepared", "fs"}

(* The mutation a record describes, and whether it was made.                *)
EffectOf(i) == [rid |-> ops[i].rid, op |-> i, path |-> ops[i].path,
                old |-> ops[i].old, new |-> ops[i].new]
Made(i) == EffectOf(i) \in effects

IsExec(rec) ==
    /\ rec.rid \in Rids /\ body[rec.rid].kind = "exec"
    /\ rec.kind \in {"exec", "rejected"}

(* A marker is true of the file; a committed record was really made.        *)
RecordPart(i) ==
    LET rec == ops[i] IN
    /\ rec.st # "none" => rec.ts < now
    /\ rec.st \in FsRecs => /\ rec.old # rec.new /\ rec.kind = body[rec.rid].kind
                            /\ rec.old # Absent => blobs[i] = rec.old
    /\ rec.st = "exec" => IsExec(rec)
    /\ rec.st = "fs" => Made(i)
    /\ rec.st = "prepared" => file[rec.path] = IF Made(i) THEN rec.new ELSE rec.old

(* Memory is the log, but for markers that were dropped, records that a      *)
(* prune has yet to take from the log, records of tasks that are about to    *)
(* store them, and records that a prune has lost.                           *)
Rewriting == prune.stage \in {"truncate", "counter", "ops"}
Dropped(i) == i \in prune.dropped /\ Rewriting /\ mops[i].st = "none"
Synced(i) ==
    \/ mops[i] = ops[i]
    \/ ops[i].st \in {"none", "aborted"} /\ mops[i].st = "none"
    \/ Dropped(i)
Writing(t, i) == task[t].pc \in {"install", "commit", "exec_push"} /\ task[t].op = i
Lost(i) ==
    /\ Racy /\ ops[i].st = "none"
    /\ mops[i].st = "exec" /\ mops[i].ts < now /\ IsExec(mops[i])
MemoryPart(i) ==
    /\ srv = "down" => mops[i].st = "none"
    /\ srv # "down" /\ i > nextId => ops[i].st = "none" /\ mops[i].st = "none"
    /\ srv = "recover" => Synced(i)
    /\ srv = "up" =>
           \/ Synced(i) /\ ops[i].st # "prepared"
           \/ mops[i].st = "none" /\ \E t \in Tasks : Writing(t, i)
           \/ Lost(i)

(* Every mutation is in the log, or was pruned.                             *)
EffectPart ==
    \A e \in effects :
        ops[e.op].st # "none" => ops[e.op].st \in FsRecs /\ e = EffectOf(e.op)

(* There is one marker at most, and it is newer than every mutation.        *)
OneMarker ==
    \A i, j \in OpIds : ops[i].st = "prepared" /\ i # j =>
        ops[j].st # "prepared" /\ (ops[j].st = "fs" => ops[j].ts < ops[i].ts)

(* What a handler has seen of its file is still true, and what an undo took  *)
(* from its target.                                                         *)
LookPart(t) ==
    LET me == task[t]
        f == file[me.path]
        kind == BodyOf(t).kind
        target == ops[BodyOf(t).target]
    IN
    /\ me.pc = "read" => /\ kind = "create" => f = Absent /\ me.new \in Contents
                         /\ kind = "edit" => f = me.old /\ f # Absent
                         /\ kind = "delete" => f = me.blob
                         /\ kind = "undo" => f = me.old /\ me.new # f
    /\ me.pc \in {"prepare", "install"} => /\ me.old = f /\ me.new # f
                                           /\ kind = "create" => f = Absent
                                           /\ me.old # Absent => blobs[me.op] = me.old
    /\ me.pc \in FsSteps /\ kind = "undo" => /\ target.st = "fs" /\ me.new = target.old
                                             /\ me.old = target.new

(* What a task has written for its operation.                               *)
WritePart(t) ==
    LET me == task[t]
        rec == ops[me.op]
    IN
    /\ me.pc \in {"prepare", "exec_append"} => rec.st = "none"
    /\ me.pc \in {"install", "commit"} => /\ rec = FsRecord(t, "prepared", rec.ts)
                                          /\ Made(me.op) <=> me.pc = "commit"
    /\ me.pc = "exec_push" => \/ rec = ExecRecord(t, me.ts)
                              \/ Racy /\ rec.st = "none" /\ me.ts < now
    /\ me.pc \in {"exec_append", "exec_push"} => /\ BodyOf(t).kind = "exec"
                                                 /\ mops[me.op].st = "none"

(* The newest record of a path explains the file, unless a marker does.      *)
On(p) == {i \in OpIds : ops[i].st = "fs" /\ ops[i].path = p}
MarkerOn(p) == \E m \in OpIds : ops[m].st = "prepared" /\ ops[m].path = p /\ Made(m)
Newest(p) ==
    \/ On(p) = {}
    \/ \E i \in On(p) : /\ \A j \in On(p) : ops[j].ts <= ops[i].ts
                        /\ file[p] = ops[i].new \/ MarkerOn(p)

(* The history in memory has the order of the log.                          *)
Ordered ==
    \A i \in OpIds : mops[i].st \in FsRecs =>
        /\ slot[i] < now
        /\ \A j \in OpIds : mops[j].st \in FsRecs =>
               (slot[i] <= slot[j] <=> ops[i].ts <= ops[j].ts)

(* A prune keeps the newest mutations.                                      *)
Upward ==
    \A i, j \in OpIds :
        mops[i].st = "fs" /\ ops[j].st = "fs" /\ ops[i].ts <= ops[j].ts => mops[j].st = "fs"

(* A prune meets no marker; what it drops is out of memory and nobody is      *)
(* about to write it, and it is out of the log before its blobs go.         *)
PrunePart ==
    /\ srv # "down" /\ prune.stage # "counter" => counter # Corrupt
    /\ prune.stage # "idle" =>
        /\ prune.by # NoTask => Keep(BodyOf(prune.by)) # NoLimit
        /\ \A i \in OpIds : ops[i].st # "prepared"
        /\ \A i \in prune.dropped :
              /\ i <= nextId /\ mops[i].st = "none"
              /\ ~Rewriting => ops[i].st = "none"
              /\ \A t \in Tasks : task[t].pc \in {"exec_append", "exec_push"} => task[t].op # i
        /\ Rewriting => Upward

StoreInv ==
    /\ file \in [Paths -> State]
    /\ \A i \in OpIds : RecordPart(i) /\ MemoryPart(i)
    /\ EffectPart /\ OneMarker
    /\ \A t \in Tasks : LookPart(t) /\ WritePart(t)
    /\ \A p \in Paths : Newest(p)
    /\ Ordered /\ PrunePart

-----------------------------------------------------------------------------
(* What StoreInv says of anything but tasks and prunes.                     *)
StoreRest ==
    /\ file \in [Paths -> State]
    /\ \A i \in OpIds : RecordPart(i) /\ MemoryPart(i)
    /\ EffectPart /\ OneMarker
    /\ \A p \in Paths : Newest(p)
    /\ Ordered

(* A task is about to write, or has written, its operation's record.        *)
Busy == FsSteps \cup {"exec_append", "exec_push"}

(* Nothing in the store changes but blobs of ids that are not in use yet.   *)
StoreSame ==
    /\ UNCHANGED <<file, ops, mops, slot, now, effects, body, srv, prune, counter>>
    /\ nextId' \in Nat /\ nextId <= nextId'
    /\ \A i \in OpIds : ops[i].st # "none" => blobs'[i] = blobs[i]

(* Requests do not change, so neither does what can race.                   *)
LEMMA RacySame ==
  ASSUME body' = body
  PROVE  (Racy' <=> Racy) /\ \A rec : IsExec(rec)' <=> IsExec(rec)
  BY DEF Racy, Keep, IsExec

(* Between prunes there is nothing to keep but the counter.                 *)
LEMMA PruneIdle ==
  ASSUME PrunePart, prune.stage = "idle", UNCHANGED <<prune, counter>>,
         srv' # "down" => srv # "down"
  PROVE  PrunePart'
  BY DEF PrunePart

(* The guard keeps mutations and prunes apart.                              *)
LEMMA FsNoPrune ==
  ASSUME TypeInv, PhaseInv, NEW t \in Tasks, task[t].pc \in FsSteps
  PROVE  srv = "up" /\ prune.stage = "idle"
<1>1. IdleTask.pc \notin FsSteps
  BY DEF IdleTask, FsSteps
<1> QED  BY <1>1, PruneAlone DEF PhaseInv

(* What else a task may do during a prune: take an id for a command and      *)
(* append the command's record.                                             *)
LEMMA PruneKept ==
  ASSUME TypeInv, StoreInv, NEW t \in Tasks, Moves(t), UNCHANGED <<prune, counter, body, mops>>,
         nextId' \in Nat, nextId <= nextId',
         task[t].pc = "begin" => task'[t].rid = task[t].rid,
         task'[t].pc \in {"exec_append", "exec_push"} =>
             \/ task[t].pc \in {"exec_append", "exec_push"} /\ task'[t].op = task[t].op
             \/ task'[t].op = nextId + 1,
         \A i \in OpIds : \/ ops'[i] = ops[i]
                          \/ task[t].pc = "exec_append" /\ task[t].op = i /\ ops'[i].st = "exec"
  PROVE  PrunePart'
<1>1. CASE prune.stage = "idle"
  BY <1>1, PruneIdle DEF Moves, StoreInv
<1>2. CASE prune.stage # "idle"
  <2>1. srv' = srv /\ \A u \in Tasks \ {t} : task'[u] = task[u]
    BY DEF Moves
  <2>2. prune.by # NoTask => Keep(BodyOf(prune.by))' # NoLimit
    <3> SUFFICES ASSUME prune.by # NoTask PROVE Keep(BodyOf(prune.by))' # NoLimit
      OBVIOUS
    <3>1. task[prune.by].pc = "begin" /\ prune.by \in Tasks
      BY <1>2 DEF TypeInv, TypeOK, PruneShape
    <3>2. task'[prune.by].rid = task[prune.by].rid
      BY <2>1, <3>1
    <3> QED  BY <1>2, <3>2 DEF StoreInv, PrunePart, BodyOf, Keep
  <2>3. \A i \in OpIds : ops'[i].st # "prepared"
    BY <1>2 DEF StoreInv, PrunePart
  <2>4. ASSUME NEW i \in prune.dropped
        PROVE  /\ i <= nextId' /\ mops[i].st = "none"
               /\ ~Rewriting => ops'[i].st = "none"
               /\ \A u \in Tasks : task'[u].pc \in {"exec_append", "exec_push"} => task'[u].op # i
    <3>1. i \in OpIds /\ i \in Nat /\ nextId \in Nat
      BY MaxOpsAssumption DEF MaxOpsAssumption, TypeInv, TypeOK, OpIds
    <3>2. /\ i <= nextId /\ mops[i].st = "none" /\ (~Rewriting => ops[i].st = "none")
          /\ \A u \in Tasks : task[u].pc \in {"exec_append", "exec_push"} => task[u].op # i
      BY <1>2 DEF StoreInv, PrunePart
    <3> QED  BY <2>1, <3>1, <3>2
  <2>5. Rewriting => Upward'
    <3> SUFFICES ASSUME Rewriting PROVE Upward'
      OBVIOUS
    <3>1. Upward
      BY <1>2 DEF StoreInv, PrunePart
    <3>2. \A i \in OpIds : ops'[i].st = "fs" => ops'[i] = ops[i]
      OBVIOUS
    <3>3. \A i \in OpIds : mops[i].st = "fs" => ops'[i] = ops[i]
      BY DEF StoreInv, WritePart
    <3> QED  BY <3>1, <3>2, <3>3 DEF Upward
  <2> QED  BY <1>2, <2>1, <2>2, <2>3, <2>4, <2>5 DEF StoreInv, PrunePart, Rewriting
<1> QED  BY <1>1, <1>2

(* Such a step keeps the store, if no task stops writing.                   *)
LEMMA RestKept ==
  ASSUME TypeInv, StoreInv, StoreSame,
         \A i \in OpIds, t \in Tasks : Writing(t, i) => Writing(t, i)'
  PROVE  StoreRest'
<1>1. file' \in [Paths -> State]
  BY DEF StoreInv, StoreSame
<1>2. \A i \in OpIds : RecordPart(i)'
  BY RacySame DEF StoreInv, StoreSame, RecordPart, Made, EffectOf, FsRecs
<1>3. \A i \in OpIds : MemoryPart(i)'
  <2> TAKE i \in OpIds
  <2>1. nextId \in Nat /\ i \in Nat
    BY MaxOpsAssumption DEF MaxOpsAssumption, OpIds, TypeInv, TypeOK
  <2>2. MemoryPart(i)
    BY DEF StoreInv
  <2>3. (Synced(i)' <=> Synced(i)) /\ (Lost(i)' <=> Lost(i))
    BY RacySame DEF StoreSame, Synced, Dropped, Rewriting, Lost
  <2> QED  BY <2>1, <2>2, <2>3 DEF StoreSame, MemoryPart
<1>4. EffectPart' /\ OneMarker' /\ Ordered'
  BY DEF StoreInv, StoreSame, EffectPart, OneMarker, Ordered, EffectOf
<1>5. \A p \in Paths : Newest(p)'
  BY DEF StoreInv, StoreSame, Newest, On, MarkerOn, Made, EffectOf
<1> QED  BY <1>1, <1>2, <1>3, <1>4, <1>5 DEF StoreRest

(* A step of t with operation k leaves every other task's part alone.       *)
LEMMA OthersKept ==
  ASSUME TypeInv, StoreInv, NEW t \in Tasks, Moves(t), body' = body, NEW k,
         \A u \in Tasks \ {t} : task[u].pc \in Logging => task[u].op # k,
         now' \in Nat, now <= now',
         \A i \in OpIds : i # k =>
             /\ ops'[i] = ops[i] /\ mops'[i] = mops[i] /\ blobs'[i] = blobs[i]
             /\ Made(i)' <=> Made(i),
         \A i \in OpIds : ops[i].st = "fs" => ops'[i] = ops[i],
         file' = file \/ task[t].pc \in FsSteps
  PROVE  \A u \in Tasks \ {t} : LookPart(u)' /\ WritePart(u)'
<1> TAKE u \in Tasks \ {t}
<1>1. LookPart(u) /\ WritePart(u) /\ task'[u] = task[u] /\ BodyOf(u)' = BodyOf(u)
  BY DEF StoreInv, Moves, BodyOf
<1>2. /\ task[u].pc \in FsSteps => guard = u
      /\ task[t].pc \in FsSteps => guard = t
      /\ task[u].pc # "idle" => BodyOf(u) \in Bodies
  BY DEF TypeInv, TypeOK, TaskShape, BodyOf
<1>3. task[u].pc \in FsSteps => file' = file
  BY <1>2
<1>4. task[u].pc \in Logging =>
         /\ task[u].op \in OpIds
         /\ ops'[task[u].op] = ops[task[u].op] /\ blobs'[task[u].op] = blobs[task[u].op]
         /\ mops'[task[u].op] = mops[task[u].op]
         /\ Made(task[u].op)' <=> Made(task[u].op)
  BY <1>1 DEF TypeInv, TaskShape, Logging
<1>5. task[u].pc \in FsSteps => BodyOf(u).target \in OpIds
  BY <1>2 DEF FsSteps, Bodies
<1>6. LookPart(u)'
  BY <1>1, <1>3, <1>4, <1>5 DEF LookPart, FsSteps, Logging
<1>7. WritePart(u)'
  <2>1. task[u].ts \in Nat /\ now \in Nat
    BY DEF TypeInv, TypeOK, TaskStates
  <2> QED  BY <1>1, <1>4, <2>1, RacySame DEF WritePart, Logging, FsRecord, ExecRecord
<1> QED  BY <1>6, <1>7

(* A task that neither starts nor stops writing, and whose step touches     *)
(* nothing in the store.                                                    *)
LEMMA QuietStore ==
  ASSUME TypeInv, StoreInv, NEW t \in Tasks, Moves(t), StoreSame, blobs' = blobs,
         task[t].pc \notin {"install", "commit", "exec_push"}, task'[t].pc \notin Busy,
         task[t].pc = "begin" => task'[t].rid = task[t].rid
  PROVE  StoreInv'
<1>1. \A i \in OpIds, u \in Tasks : Writing(u, i) => Writing(u, i)'
  BY DEF Writing, Moves
<1>2. StoreRest'
  BY <1>1, RestKept
<1>3. \A i \in OpIds : Made(i)' <=> Made(i)
  BY DEF Made, EffectOf, StoreSame
<1>4. \A u \in Tasks \ {t} : LookPart(u)' /\ WritePart(u)'
  <2>1. \A u \in Tasks \ {t} : task[u].pc \in Logging => task[u].op # 0
    BY DEF TypeInv, TaskShape, Logging, OpIds
  <2>2. now \in Nat
    BY DEF TypeInv, TypeOK
  <2>3. \A i \in OpIds : i # 0 =>
           /\ ops'[i] = ops[i] /\ mops'[i] = mops[i] /\ blobs'[i] = blobs[i]
           /\ Made(i)' <=> Made(i)
    BY <1>3 DEF StoreSame
  <2>4. now' \in Nat /\ now <= now' /\ ops' = ops /\ file' = file /\ body' = body
    BY <2>2 DEF StoreSame
  <2> QED  BY <2>1, <2>3, <2>4, OthersKept
<1>5. LookPart(t)' /\ WritePart(t)'
  BY DEF LookPart, WritePart, Busy, FsSteps
<1>6. PrunePart'
  BY PruneKept DEF StoreSame, Busy
<1> QED  BY <1>2, <1>4, <1>5, <1>6 DEF StoreRest, StoreInv

(* finish() moves its own task, whatever the handler.                       *)
LEMMA FinishTask ==
  ASSUME TypeInv, NEW t \in Tasks, NEW ans \in Answers, FinishWith(t, ans),
         srv = "up", srv' = srv
  PROVE  /\ Moves(t) /\ task'[t].pc = "remember" /\ task'[t].op = task[t].op
         /\ task'[t].rid = task[t].rid /\ task'[t].ans = ans /\ task'[t].say = ans
<1> DEFINE new == [task[t] EXCEPT !.pc = "remember", !.ans = ans, !.say = ans]
<1>1. task[t] \in TaskStates /\ task \in [Tasks -> TaskStates]
  BY DEF TypeInv, TypeOK
<1>2. new.say = ans
  BY <1>1 DEF TaskStates
<1>3. task' = [task EXCEPT ![t] = new]
  BY DEF FinishWith
<1> HIDE DEF new
<1>4. task'[t].say = ans
  BY <1>1, <1>2, <1>3
<1> QED  BY <1>4, FinishTypes, FinishMoves DEF TypeInv

(* Claiming, remembering and replaying.                                     *)
LEMMA ClaimStore ==
  ASSUME TypeInv, StoreInv, NEW t \in Tasks,
         \/ \E r \in Rids : ReceiveSeen(t, r) \/ ReceiveNew(t, r)
         \/ ClaimAppend(t) \/ ClaimLost(t) \/ ClaimWon(t)
         \/ RememberAppend(t) \/ RememberInsert(t)
  PROVE  StoreInv'
<1> USE DEF At, disk, tables, ghosts, bounds
<1>1. Quiet(t)
  BY QuietClaims
<1>2. nextId \in Nat /\ task[t] \in TaskStates
  BY DEF TypeInv, TypeOK
<1>3. StoreSame /\ blobs' = blobs
  <2>1. ASSUME NEW r \in Rids, ReceiveSeen(t, r) \/ ReceiveNew(t, r)
        PROVE  StoreSame /\ blobs' = blobs
    <3>1. UNCHANGED <<file, ops, mops, slot, now, effects, body, srv, blobs, nextId, prune, counter>>
      BY <2>1 DEF ReceiveSeen, ReceiveNew
    <3> QED  BY <1>2, <3>1 DEF StoreSame
  <2>2. CASE ~\E r \in Rids : ReceiveSeen(t, r) \/ ReceiveNew(t, r)
    BY <1>2, <2>2 DEF StoreSame, ClaimAppend, ClaimLost, ClaimWon, RememberAppend, RememberInsert
  <2> QED  BY <2>1, <2>2
<1>4. task[t].pc \notin {"install", "commit", "exec_push", "begin"}
  BY DEF ReceiveSeen, ReceiveNew, ClaimAppend, ClaimLost, ClaimWon, RememberAppend,
         RememberInsert
<1>5. task'[t].pc # "read"
  <2>1. CASE \E r \in Rids : ReceiveSeen(t, r)
    BY <2>1 DEF ReceiveSeen
  <2>2. ASSUME NEW r \in Rids, ReceiveNew(t, r) PROVE task'[t].pc # "read"
    BY <1>2, <2>2 DEF ReceiveNew, TypeInv, TypeOK, TaskStates
  <2>3. CASE ClaimAppend(t) \/ ClaimWon(t) \/ RememberAppend(t)
    BY <1>2, <2>3 DEF ClaimAppend, ClaimWon, RememberAppend, TypeInv, TypeOK, TaskStates
  <2>4. CASE ClaimLost(t) \/ RememberInsert(t)
    BY <2>4, IdleMoves DEF ClaimLost, RememberInsert
  <2> QED  BY <2>1, <2>2, <2>3, <2>4
<1>6. task'[t].pc \notin Busy
  BY <1>1, <1>5 DEF Quiet, Busy, FsSteps, Logging
<1> QED  BY <1>1, <1>3, <1>4, <1>6, QuietStore DEF Quiet

(* A handler that ends without having touched anything.                     *)
LEMMA FinishStore ==
  ASSUME TypeInv, StoreInv, NEW t \in Tasks, NEW ans \in Answers, FinishWith(t, ans),
         srv = "up", StoreSame, blobs' = blobs, task[t].pc \in {"begin", "read"}
  PROVE  StoreInv'
<1>1. Moves(t) /\ task'[t].pc = "remember" /\ task'[t].rid = task[t].rid
  BY FinishTask DEF StoreSame
<1> QED  BY <1>1, QuietStore DEF Busy, FsSteps

(* Handlers that end without a mutation.                                    *)
LEMMA RejectStore ==
  ASSUME TypeInv, StoreInv, NEW t \in Tasks, ReadOnly(t) \/ FsReadReject(t)
  PROVE  StoreInv'
<1> USE DEF At, disk, tables, ghosts, bounds
<1>1. nextId \in Nat /\ srv = "up" /\ task[t].pc \in {"begin", "read"} /\ task[t] \in TaskStates
  BY DEF TypeInv, TypeOK, ReadOnly, FsReadReject
<1>2. UNCHANGED <<file, ops, mops, blobs, slot, now, effects, body, srv, nextId, prune, counter>>
  BY DEF ReadOnly, FsReadReject
<1>3. Quiet(t)
  BY QuietHandlers
<1>4. task'[t].pc = "remember" /\ task'[t].rid = task[t].rid
  <2>1. \E ans : FinishWith(t, ans)
    BY DEF ReadOnly, FsReadReject
  <2> QED  BY <1>1, <2>1 DEF FinishWith, TypeInv, TypeOK, TaskStates
<1>5. StoreSame
  BY <1>1, <1>2 DEF StoreSame
<1> QED  BY <1>1, <1>2, <1>3, <1>4, <1>5, QuietStore DEF Quiet, Busy, FsSteps

(* In memory, a mutation is what the log has.                               *)
LEMMA MemoryTrue ==
  ASSUME StoreInv, srv = "up", NEW i \in OpIds, mops[i].st \in FsRecs
  PROVE  mops[i] = ops[i] /\ ops[i].st # "prepared"
  BY DEF StoreInv, MemoryPart, Synced, Dropped, Lost, FsRecs

(* The first look of a mutation is true, and an undo finds its target as it  *)
(* was left.                                                                *)
LEMMA CheckStore ==
  ASSUME TypeInv, StoreInv, NEW t \in Tasks, FsCheck(t)
  PROVE  StoreInv'
<1> DEFINE b == BodyOf(t)
           target == mops[b.target]
           path == IF b.kind = "undo" THEN target.path ELSE b.path
           f == IF path \in Paths THEN file[path] ELSE Absent
           error == CASE b.kind = "create" -> CreateError(f)
                      [] b.kind = "edit"   -> EditError(b, f)
                      [] b.kind = "delete" -> DeleteError(f)
                      [] OTHER             -> UndoError(target, f, blobs[b.target])
           old == IF b.kind \in {"edit", "undo"} THEN f ELSE Absent
           blob == IF b.kind = "delete" THEN f ELSE Absent
           new == CASE b.kind = "create" -> b.new
                    [] b.kind = "undo" /\ target.old # Absent -> blobs[b.target]
                    [] OTHER -> Absent
           next == [task[t] EXCEPT !.pc = "read", !.path = path, !.old = old,
                                   !.blob = blob, !.new = new]
<1>1. /\ b \in Bodies /\ b.kind \in FsKinds /\ b.target \in OpIds /\ srv = "up"
      /\ task[t] \in TaskStates /\ task[t].pc = "begin" /\ task[t].rid \in Rids
      /\ guard = NoTask /\ nextId \in Nat
  <2>1. /\ srv = "up" /\ task[t].pc = "begin" /\ b.kind \in FsKinds /\ guard = NoTask
    BY DEF FsCheck, At, Kind
  <2>2. nextId \in Nat /\ task[t] \in TaskStates /\ task[t].rid \in Rids /\ b \in Bodies
    BY <2>1 DEF TypeInv, TypeOK, TaskShape, BodyOf
  <2> QED  BY <2>1, <2>2 DEF Bodies
<1>2. /\ target \in Records /\ blobs[b.target] \in State
      /\ target.st = "fs" => target.path \in Paths
  BY <1>1 DEF TypeInv, TypeOK, RecordShape
<1>3. path \in Paths => f \in State
  BY DEF StoreInv
<1>4. error \in Codes
  <2>1. CreateError(f) \in Codes /\ EditError(b, f) \in Codes
    BY DEF Codes, CreateError, EditError
  <2>2. DeleteError(f) \in Codes /\ UndoError(target, f, blobs[b.target]) \in Codes
    BY DEF Codes, DeleteError, UndoError
  <2> HIDE DEF f, target, b
  <2> QED  BY <2>1, <2>2
<1>5. /\ UNCHANGED <<file, ops, mops, blobs, slot, now, effects, body, srv, nextId, prune, counter>>
      /\ \/ error # "none" /\ FinishWith(t, Err(error))
         \/ error = "none" /\ task' = [task EXCEPT ![t] = next]
  BY DEF FsCheck, disk, tables, ghosts
<1>6. StoreSame
  BY <1>1, <1>5 DEF StoreSame
<1>7. CASE error # "none"
  BY <1>1, <1>4, <1>5, <1>6, <1>7, ErrTypes, FinishStore
<1>8. CASE error = "none"
  <2> USE SentinelAssumption DEF SentinelAssumption
  <2>1. b.kind = "create" => f = Absent /\ new \in Contents /\ path \in Paths
    BY <1>1, <1>3, <1>8 DEF CreateError, Bodies, State
  <2>2. b.kind = "edit" => f = old /\ f # Absent /\ path \in Paths
    BY <1>1, <1>8 DEF EditError, Bodies
  <2>3. b.kind = "delete" => f = blob /\ path \in Paths
    BY <1>1 DEF Bodies
  <2>4. b.kind = "undo" =>
          /\ f = old /\ new # f /\ path \in Paths /\ ops[b.target].st = "fs"
          /\ new = ops[b.target].old /\ old = ops[b.target].new
    <3> SUFFICES ASSUME b.kind = "undo"
                 PROVE  /\ f = old /\ new # f /\ path \in Paths /\ ops[b.target].st = "fs"
                        /\ new = ops[b.target].old /\ old = ops[b.target].new
      OBVIOUS
    <3>1. UndoError(target, f, blobs[b.target]) = "none"
      BY <1>8
    <3>2. target.st = "fs" /\ f = target.new
      BY <3>1 DEF UndoError, IsCommitted
    <3>3. target = ops[b.target]
      BY <1>1, <3>2, MemoryTrue DEF FsRecs
    <3>4. target.old # target.new /\ (target.old # Absent => blobs[b.target] = target.old)
      BY <1>1, <3>2, <3>3 DEF StoreInv, RecordPart, FsRecs
    <3>5. new = target.old
      BY <3>4
    <3> QED  BY <1>2, <3>2, <3>3, <3>4, <3>5
  <2>5. path \in Paths
    BY <1>1, <2>1, <2>2, <2>3, <2>4 DEF FsKinds
  <2>6. /\ next.pc = "read" /\ next.path = path /\ next.rid = task[t].rid
        /\ next.old = old /\ next.new = new /\ next.blob = blob
    BY <1>1 DEF TaskStates
  <2>7. f = file[path]
    BY <2>5
  <2> HIDE DEF error, path, old, blob, new, f
  <2>8. task' = [task EXCEPT ![t] = next]
    BY <1>5, <1>8
  <2> HIDE DEF next
  <2>9. task'[t] = next /\ Moves(t)
    BY <1>1, <1>5, <2>8 DEF Moves, TypeInv, TypeOK
  <2>10. BodyOf(t)' = b
    BY <1>5, <2>6, <2>9 DEF BodyOf
  <2>11. LookPart(t)'
    <3> HIDE DEF b
    <3> QED BY <1>1, <1>5, <2>1, <2>2, <2>3, <2>4, <2>6, <2>7, <2>9, <2>10 DEF LookPart, FsSteps
  <2>12. WritePart(t)'
    BY <2>6, <2>9 DEF WritePart
  <2>13. StoreRest'
    BY <1>1, <1>6, <2>6, <2>9, RestKept DEF Writing, Moves
  <2>14. \A u \in Tasks \ {t} : LookPart(u)' /\ WritePart(u)'
    <3>1. now \in Nat /\ \A i \in OpIds : Made(i)' <=> Made(i)
      BY <1>5 DEF Made, EffectOf, TypeInv, TypeOK
    <3>2. \A u \in Tasks \ {t} : task[u].pc \in Logging => task[u].op # 0
      BY DEF TypeInv, TaskShape, Logging, OpIds
    <3>3. \A i \in OpIds : i # 0 =>
             /\ ops'[i] = ops[i] /\ mops'[i] = mops[i] /\ blobs'[i] = blobs[i]
             /\ Made(i)' <=> Made(i)
      BY <1>5, <3>1
    <3>4. now' \in Nat /\ now <= now' /\ ops' = ops /\ file' = file /\ body' = body
      BY <1>5, <3>1
    <3> QED  BY <2>9, <3>2, <3>3, <3>4, OthersKept
  <2>15. PrunePart'
    <3>1. task'[t].pc = "read" /\ task'[t].rid = task[t].rid
      BY <2>6, <2>9
    <3> QED  BY <1>1, <1>5, <2>9, <3>1, PruneKept
  <2> QED  BY <2>11, <2>12, <2>13, <2>14, <2>15 DEF StoreRest, StoreInv
<1> QED  BY <1>5, <1>7, <1>8

(* The id a task takes has no record yet.                                   *)
LEMMA FreshId ==
  ASSUME TypeInv, StoreInv, srv = "up", nextId < MaxOps
  PROVE  /\ nextId \in Nat /\ nextId + 1 \in OpIds
         /\ ops[nextId + 1].st = "none" /\ mops[nextId + 1].st = "none"
<1>1. nextId \in Nat /\ nextId + 1 \in OpIds
  BY MaxOpsAssumption DEF MaxOpsAssumption, OpIds, TypeInv, TypeOK
<1> QED  BY <1>1 DEF StoreInv, MemoryPart

(* A step that takes an id keeps everything but the part of its own task.   *)
LEMMA TakesIdStore ==
  ASSUME TypeInv, IdInv, StoreInv, NEW t \in Tasks, TakesId(t), nextId < MaxOps,
         UNCHANGED <<file, slot, now, body>>, task[t].pc \in {"begin", "read"},
         \A i \in OpIds : i # nextId + 1 => blobs'[i] = blobs[i],
         LookPart(t)', WritePart(t)'
  PROVE  StoreInv'
<1>1. /\ nextId \in Nat /\ nextId + 1 \in OpIds
      /\ ops[nextId + 1].st = "none" /\ mops[nextId + 1].st = "none"
  BY FreshId DEF TakesId, Moves
<1>2. StoreSame
  BY <1>1 DEF StoreSame, TakesId, Moves
<1>3. StoreRest'
  BY <1>2, RestKept DEF TakesId, Moves, Writing
<1>4. \A u \in Tasks \ {t} : task[u].pc \in Logging => task[u].op # nextId + 1
  <2> TAKE u \in Tasks \ {t}
  <2>1. task[u].op <= nextId /\ task[u].op \in 0..MaxOps
    BY DEF IdInv, TypeInv, TypeOK, TaskStates
  <2> QED  BY <1>1, <2>1, MaxOpsAssumption DEF MaxOpsAssumption
<1>5. \A i \in OpIds : Made(i)' <=> Made(i)
  BY DEF TakesId, Made, EffectOf
<1>6. \A u \in Tasks \ {t} : LookPart(u)' /\ WritePart(u)'
  <2>1. \A i \in OpIds : i # nextId + 1 =>
           /\ ops'[i] = ops[i] /\ mops'[i] = mops[i] /\ blobs'[i] = blobs[i]
           /\ Made(i)' <=> Made(i)
    BY <1>5 DEF TakesId
  <2>2. Moves(t) /\ file' = file /\ now \in Nat /\ \A i \in OpIds : ops[i].st = "fs" => ops'[i] = ops[i]
    BY DEF TakesId, TypeInv, TypeOK
  <2> QED  BY <1>4, <2>1, <2>2, OthersKept
<1>7. PrunePart'
  BY <1>1, PruneKept DEF TakesId
<1> QED  BY <1>3, <1>6, <1>7 DEF StoreRest, StoreInv

(* A command takes an id.                                                   *)
LEMMA ExecStartStore ==
  ASSUME TypeInv, IdInv, StoreInv, NEW t \in Tasks, ExecStart(t, TRUE) \/ ExecStart(t, FALSE)
  PROVE  StoreInv'
<1>1. TakesId(t)
  BY TakesIdSteps
<1>2. /\ task[t].pc = "begin" /\ BodyOf(t).kind = "exec" /\ nextId < MaxOps
      /\ UNCHANGED <<file, slot, now, body, blobs>> /\ srv = "up"
  BY DEF ExecStart, At, Kind, disk, tables
<1>3. task'[t].pc = "exec_append"
  <2>1. PICK ans : task' = [task EXCEPT ![t] = [@ EXCEPT !.pc = "exec_append",
                                !.op = nextId + 1, !.ans = ans, !.say = ans]]
    BY DEF ExecStart
  <2> QED  BY <2>1 DEF TypeInv, TypeOK, TaskStates
<1>4. task'[t].op = nextId + 1 /\ task'[t].rid = task[t].rid /\ UNCHANGED <<ops, mops>>
  BY <1>1 DEF TakesId
<1>5. LookPart(t)' /\ WritePart(t)'
  BY <1>2, <1>3, <1>4, FreshId DEF LookPart, WritePart, FsSteps, BodyOf
<1> QED  BY <1>1, <1>2, <1>5, TakesIdStore

(* The second look agrees with the first; what the mutation replaces is      *)
(* saved, and the mutation changes the file.                                *)
LEMMA BlobStore ==
  ASSUME TypeInv, IdInv, body \in Workloads, StoreInv, NEW t \in Tasks, FsBlob(t)
  PROVE  StoreInv'
<1> DEFINE look == SecondLook(t)
           f == file[task[t].path]
           b == BodyOf(t)
<1>1. TakesId(t)
  BY TakesIdSteps
<1>2. /\ task[t].pc = "read" /\ nextId < MaxOps /\ UNCHANGED <<file, slot, now, body, ops>>
      /\ SecondLookError(t, look) = "none" /\ srv = "up"
      /\ blobs' = IF look.blob = Absent THEN blobs ELSE [blobs EXCEPT ![nextId + 1] = look.blob]
      /\ task' = [task EXCEPT ![t] = [@ EXCEPT !.pc = "prepare", !.op = nextId + 1,
                    !.old = look.old, !.new = look.new, !.blob = look.blob]]
  BY DEF FsBlob, At, tables
<1>3. /\ b.kind \in FsKinds /\ task[t].path \in Paths /\ LookPart(t) /\ f \in State
      /\ task[t] \in TaskStates /\ task[t].rid \in Rids /\ b \in Bodies
  BY <1>2 DEF TypeInv, TypeOK, TaskShape, StoreInv, FsSteps, BodyOf
<1>4. f # Unresolvable
  BY <1>3, SentinelAssumption DEF SentinelAssumption, State
<1>5. look.old = f /\ look.new # f /\ (b.kind = "create" => f = Absent)
      /\ (look.old # Absent => look.blob = look.old)
  <2> USE SentinelAssumption DEF SentinelAssumption
  <2>1. CASE b.kind = "create"
    BY <1>2, <1>3, <1>4, <2>1 DEF SecondLook, LookPart
  <2>2. CASE b.kind = "edit"
    <3>1. f = task[t].old /\ f # Absent /\ f \in Contents
      BY <1>2, <1>3, <2>2 DEF LookPart, State
    <3>2. b.subst[f] # f
      BY <1>3, <2>2, <3>1, EditAssumption DEF EditAssumption, BodyOf
    <3> QED  BY <1>4, <2>2, <3>1, <3>2 DEF SecondLook
  <2>3. CASE b.kind = "delete"
    <3>1. look.old # Absent
      BY <1>2, <2>3 DEF SecondLookError, Kind
    <3> QED  BY <1>2, <1>3, <1>4, <2>3, <3>1 DEF SecondLook, LookPart
  <2>4. CASE b.kind = "undo"
    BY <1>2, <1>3, <1>4, <2>4 DEF SecondLook, LookPart
  <2> QED  BY <1>3, <2>1, <2>2, <2>3, <2>4 DEF FsKinds
<1>6. b.kind = "undo" => look.old = task[t].old /\ look.new = task[t].new
  BY DEF SecondLook
<1> HIDE DEF look
<1>7. /\ task'[t].pc = "prepare" /\ task'[t].op = nextId + 1 /\ task'[t].rid = task[t].rid
      /\ task'[t].old = look.old /\ task'[t].new = look.new /\ task'[t].path = task[t].path
  <2> DEFINE next == [task[t] EXCEPT !.pc = "prepare", !.op = nextId + 1,
                         !.old = look.old, !.new = look.new, !.blob = look.blob]
  <2>1. /\ next.pc = "prepare" /\ next.op = nextId + 1 /\ next.rid = task[t].rid
        /\ next.old = look.old /\ next.new = look.new /\ next.path = task[t].path
    BY <1>3 DEF TaskStates
  <2>2. task' = [task EXCEPT ![t] = next]
    BY <1>2
  <2> HIDE DEF next
  <2>3. task'[t] = next
    BY <2>2 DEF TypeInv, TypeOK
  <2> QED  BY <2>1, <2>3
<1>8. nextId + 1 \in OpIds /\ ops[nextId + 1].st = "none" /\ blobs \in [OpIds -> State]
  BY <1>2, FreshId DEF TypeInv, TypeOK
<1>9. look.old # Absent => blobs'[nextId + 1] = look.old
  BY <1>2, <1>5, <1>8
<1>10. \A i \in OpIds : i # nextId + 1 => blobs'[i] = blobs[i]
  BY <1>2, <1>8
<1>11. BodyOf(t)' = b /\ file' = file
  BY <1>2, <1>7 DEF BodyOf
<1> HIDE DEF b
<1>12. LookPart(t)'
  <2>1. b.kind = "undo" => /\ ops[b.target].st = "fs" /\ task[t].new = ops[b.target].old
                           /\ task[t].old = ops[b.target].new
    BY <1>2, <1>3 DEF LookPart, FsSteps, b
  <2> QED  BY <1>2, <1>5, <1>6, <1>7, <1>9, <1>11, <2>1 DEF LookPart, FsSteps
<1>13. WritePart(t)'
  BY <1>2, <1>7, <1>8 DEF WritePart
<1> QED  BY <1>1, <1>2, <1>10, <1>12, <1>13, TakesIdStore

(* While the server serves, a marker belongs to the task with the guard.    *)
LEMMA MarkerOwned ==
  ASSUME TypeInv, StoreInv, srv = "up", NEW i \in OpIds, ops[i].st = "prepared"
  PROVE  \E u \in Tasks : guard = u /\ task[u].op = i /\ task[u].pc \in {"install", "commit"}
<1>1. PICK u \in Tasks : Writing(u, i)
  BY DEF StoreInv, MemoryPart, Lost
<1>2. task[u].pc # "exec_push"
  <2> SUFFICES ASSUME task[u].pc = "exec_push" PROVE FALSE
    OBVIOUS
  <2>1. ops[i] = ExecRecord(u, task[u].ts) /\ task[u].ts \in Nat
    BY <1>1 DEF StoreInv, WritePart, Writing, TypeInv, TypeOK, TaskStates
  <2> QED  BY <2>1, ExecRecordTypes DEF TypeInv
<1> QED  BY <1>1, <1>2 DEF Writing, TypeInv, TaskShape, FsSteps

(* A task that mutates has its own marker, or nobody has one.               *)
LEMMA OwnMarker ==
  ASSUME TypeInv, StoreInv, srv = "up", NEW t \in Tasks, task[t].pc \in FsSteps,
         NEW i \in OpIds, ops[i].st = "prepared"
  PROVE  task[t].op = i /\ task[t].pc \in {"install", "commit"}
  BY MarkerOwned DEF TypeInv, TaskShape

(* No two tasks work on one operation.                                      *)
LEMMA OwnOperation ==
  ASSUME TypeInv, IdInv, NEW t \in Tasks, task[t].op \in OpIds
  PROVE  \A u \in Tasks \ {t} : task[u].op # task[t].op
  BY MaxOpsAssumption DEF MaxOpsAssumption, IdInv, OpIds

(* Records that a step does not write stay true if the file they name and    *)
(* their effects do.                                                        *)
LEMMA RecordKept ==
  ASSUME NEW i \in OpIds, RecordPart(i), ops'[i] = ops[i], blobs'[i] = blobs[i], body' = body,
         Made(i)' <=> Made(i), now \in Nat, now' \in Nat, now <= now', ops[i].ts \in Nat,
         ops[i].st = "prepared" => file'[ops[i].path] = file[ops[i].path]
  PROVE  RecordPart(i)'
<1>1. ops[i].ts < now => ops'[i].ts < now'
  OBVIOUS
<1> QED  BY <1>1, RacySame DEF RecordPart, FsRecs

(* So does what memory has of them, if nobody else finishes.                *)
LEMMA MemoryKept ==
  ASSUME NEW t \in Tasks, Moves(t), NEW i \in OpIds, MemoryPart(i), ops'[i] = ops[i],
         mops'[i] = mops[i], nextId' = nextId, task[t].op # i,
         UNCHANGED <<prune, body>>, now \in Nat, now' \in Nat, now <= now', mops[i].ts \in Nat
  PROVE  MemoryPart(i)'
<1>1. \A u \in Tasks : Writing(u, i) => Writing(u, i)'
  BY DEF Writing, Moves
<1>2. (Synced(i)' <=> Synced(i)) /\ (Lost(i) => Lost(i)')
  <2>1. mops[i].ts < now => mops'[i].ts < now'
    OBVIOUS
  <2> QED  BY <2>1, RacySame DEF Synced, Dropped, Rewriting, Lost
<1> QED  BY <1>1, <1>2 DEF MemoryPart, Moves

(* The marker is written before the file is touched.                        *)
LEMMA PrepareStore ==
  ASSUME TypeInv, PhaseInv, IdInv, FreshInv, StoreInv, NEW t \in Tasks, FsPrepare(t)
  PROVE  StoreInv'
<1>0. PICK k, marker : k = task[t].op /\ marker = FsRecord(t, "prepared", now)
  OBVIOUS
<1>1. /\ srv = "up" /\ task[t].pc = "prepare" /\ now' = now + 1
      /\ ops' = [ops EXCEPT ![k] = marker] /\ task' = [task EXCEPT ![t].pc = "install"]
      /\ UNCHANGED <<file, blobs, mops, slot, effects, body, nextId, srv, prune, counter>>
  BY <1>0 DEF FsPrepare, At, Stamp, tables, ghosts
<1>2. /\ k \in OpIds /\ task[t].rid \in Rids /\ task[t] \in TaskStates /\ now \in Nat
      /\ ops \in [OpIds -> Records] /\ mops \in [OpIds -> Records] /\ k <= nextId /\ task[t].path \in Paths /\ guard = t
      /\ mops[k].st = "none"
  BY <1>0, <1>1 DEF TypeInv, TypeOK, TaskShape, IdInv, FreshInv, FsSteps
<1>3. /\ marker.st = "prepared" /\ marker.rid = task[t].rid /\ marker.path = task[t].path
      /\ marker.old = task[t].old /\ marker.new = task[t].new /\ marker.ts = now
      /\ marker.kind = BodyOf(t).kind
  BY <1>0 DEF FsRecord
<1>4. /\ Moves(t) /\ task'[t].pc = "install" /\ task'[t].op = k /\ task'[t].rid = task[t].rid
      /\ task'[t].path = task[t].path /\ task'[t].old = task[t].old /\ task'[t].new = task[t].new
  BY <1>0, <1>1, <1>2 DEF Moves, TypeInv, TypeOK, TaskStates
<1>5. BodyOf(t)' = BodyOf(t) /\ BodyOf(t) = body[task[t].rid]
  BY <1>1, <1>4 DEF BodyOf
<1>6. LookPart(t) /\ ops[k].st = "none"
  BY <1>0, <1>1, <1>2 DEF StoreInv, WritePart
<1>7. ops'[k] = marker /\ \A i \in OpIds : i # k => ops'[i] = ops[i]
  BY <1>1, <1>2
<1>8. marker = FsRecord(t, "prepared", marker.ts)'
  BY <1>0, <1>3, <1>4, <1>5 DEF FsRecord
<1>9. \A e \in effects : e.op # k
  BY <1>0, <1>1 DEF FreshInv
<1>10. ~Made(k)' /\ \A i \in OpIds : i # k => (Made(i)' <=> Made(i))
  BY <1>1, <1>7, <1>9 DEF Made, EffectOf
<1>11. \A i \in OpIds : ops[i].st # "prepared"
  BY <1>1, OwnMarker DEF FsSteps
<1>12. \A i \in OpIds : RecordPart(i)'
  <2>1. RecordPart(k)'
    BY <1>0, <1>1, <1>2, <1>3, <1>5, <1>6, <1>7, <1>10 DEF RecordPart, LookPart, FsRecs
  <2>2. ASSUME NEW i \in OpIds, i # k PROVE RecordPart(i)'
    BY <1>1, <1>2, <1>7, <1>10, <2>2, RecordKept DEF StoreInv, Records
  <2> QED  BY <2>1, <2>2
<1>13. \A i \in OpIds : MemoryPart(i)'
  <2>1. MemoryPart(k)'
    BY <1>1, <1>2, <1>4, MaxOpsAssumption
       DEF MaxOpsAssumption, MemoryPart, Writing, TypeInv, TypeOK, OpIds
  <2>2. ASSUME NEW i \in OpIds, i # k PROVE MemoryPart(i)'
    BY <1>0, <1>1, <1>2, <1>4, <1>7, <2>2, MemoryKept DEF StoreInv, Records
  <2> QED  BY <2>1, <2>2
<1>14. EffectPart'
  BY <1>1, <1>7, <1>9 DEF StoreInv, EffectPart, EffectOf, TypeInv, TypeOK
<1>15. OneMarker'
  <2>1. \A j \in OpIds : ops[j].st = "fs" => ops[j].ts < now
    BY DEF StoreInv, RecordPart
  <2> QED  BY <1>3, <1>7, <1>11, <2>1 DEF OneMarker
<1>16. \A p \in Paths : Newest(p)'
  <2> TAKE p \in Paths
  <2>1. On(p)' = On(p) /\ ~MarkerOn(p)
    BY <1>3, <1>6, <1>7, <1>11 DEF On, MarkerOn
  <2>2. \A i \in On(p) : ops'[i] = ops[i]
    BY <1>6, <1>7 DEF On
  <2> QED  BY <1>1, <2>1, <2>2 DEF StoreInv, Newest
<1>17. Ordered'
  <2>1. \A i \in OpIds : mops[i].st \in FsRecs => ops'[i] = ops[i] /\ slot[i] < now /\ slot[i] \in Nat
    BY <1>2, <1>7 DEF StoreInv, Ordered, FsRecs, TypeInv, TypeOK
  <2> QED  BY <1>1, <1>2, <2>1 DEF StoreInv, Ordered
<1>18. LookPart(t)'
  BY <1>0, <1>1, <1>3, <1>4, <1>5, <1>6, <1>7 DEF LookPart, FsSteps
<1>19. WritePart(t)'
  BY <1>4, <1>7, <1>8, <1>10 DEF WritePart
<1>20. \A u \in Tasks \ {t} : LookPart(u)' /\ WritePart(u)'
  <2>1. \A u \in Tasks \ {t} : task[u].op # k
    BY <1>0, <1>2, OwnOperation
  <2>2. \A i \in OpIds : i # k =>
           /\ ops'[i] = ops[i] /\ mops'[i] = mops[i] /\ blobs'[i] = blobs[i]
           /\ Made(i)' <=> Made(i)
    BY <1>1, <1>7, <1>10
  <2>3. \A i \in OpIds : ops[i].st = "fs" => ops'[i] = ops[i]
    BY <1>6, <1>7
  <2>4. now' \in Nat /\ now <= now' /\ file' = file /\ body' = body
    BY <1>1, <1>2
  <2> QED  BY <1>4, <2>1, <2>2, <2>3, <2>4, OthersKept
<1>21. PrunePart'
  BY <1>1, FsNoPrune, PruneIdle DEF FsSteps, StoreInv
<1> QED  BY <1>1, <1>12, <1>13, <1>14, <1>15, <1>16, <1>17, <1>18, <1>19, <1>20, <1>21 DEF StoreInv

(* The file becomes what the marker says, and the effect is the marker's.   *)
LEMMA InstallStore ==
  ASSUME TypeInv, PhaseInv, IdInv, FreshInv, StoreInv, NEW t \in Tasks, FsInstall(t)
  PROVE  StoreInv'
<1>0. PICK k, p : k = task[t].op /\ p = task[t].path
  OBVIOUS
<1>1. /\ srv = "up" /\ task[t].pc = "install" /\ file' = [file EXCEPT ![p] = task[t].new]
      /\ effects' = effects \cup {[rid |-> task[t].rid, op |-> k, path |-> p,
                                   old |-> file[p], new |-> task[t].new]}
      /\ task' = [task EXCEPT ![t].pc = "commit"]
      /\ UNCHANGED <<ops, blobs, mops, slot, now, body, nextId, srv, prune, counter>>
  BY <1>0 DEF FsInstall, Install, At, disk, tables
<1>2. /\ k \in OpIds /\ task[t].rid \in Rids /\ task[t] \in TaskStates /\ now \in Nat
      /\ ops \in [OpIds -> Records] /\ mops \in [OpIds -> Records] /\ p \in Paths /\ task[t].new \in State
  BY <1>0, <1>1 DEF TypeInv, TypeOK, TaskShape, FsSteps, TaskStates
<1>3. /\ Moves(t) /\ task'[t].pc = "commit" /\ task'[t].op = k /\ task'[t].rid = task[t].rid
      /\ task'[t].path = p /\ task'[t].old = task[t].old /\ task'[t].new = task[t].new
  BY <1>0, <1>1, <1>2 DEF Moves, TypeInv, TypeOK, TaskStates
<1>4. BodyOf(t)' = BodyOf(t)
  BY <1>1, <1>3 DEF BodyOf
<1>5. /\ LookPart(t) /\ ops[k] = FsRecord(t, "prepared", ops[k].ts) /\ ~Made(k)
      /\ task[t].old = file[p] /\ file \in [Paths -> State]
  BY <1>0, <1>1, <1>2 DEF StoreInv, WritePart, LookPart
<1>6. /\ ops[k].st = "prepared" /\ ops[k].rid = task[t].rid /\ ops[k].path = p
      /\ ops[k].old = file[p] /\ ops[k].new = task[t].new
  BY <1>0, <1>5 DEF FsRecord
<1>7. effects' = effects \cup {EffectOf(k)}
  BY <1>1, <1>6 DEF EffectOf
<1>8. Made(k)' /\ \A i \in OpIds : i # k => (Made(i)' <=> Made(i))
  <2>1. \A i \in OpIds : EffectOf(i)' = EffectOf(i)
    BY <1>1 DEF EffectOf
  <2>2. \A i \in OpIds : i # k => EffectOf(i) # EffectOf(k)
    BY DEF EffectOf
  <2> QED  BY <1>2, <1>7, <2>1, <2>2 DEF Made
<1>9. \A i \in OpIds : ops[i].st = "prepared" => i = k
  BY <1>0, <1>1, OwnMarker DEF FsSteps
<1>10. file' \in [Paths -> State] /\ file'[p] = task[t].new
  BY <1>1, <1>2, <1>5
<1>11. \A i \in OpIds : RecordPart(i)'
  <2>1. RecordPart(k)'
    BY <1>1, <1>2, <1>6, <1>8, <1>10 DEF StoreInv, RecordPart, FsRecs
  <2>2. ASSUME NEW i \in OpIds, i # k PROVE RecordPart(i)'
    BY <1>1, <1>2, <1>8, <1>9, <2>2, RecordKept DEF StoreInv, Records
  <2> QED  BY <2>1, <2>2
<1>12. \A i \in OpIds : MemoryPart(i)'
  <2>1. MemoryPart(k)'
    <3>2. mops[k].st = "none"
      BY <1>0, <1>1 DEF FreshInv
    <3> QED  BY <1>1, <1>2, <1>3, <3>2 DEF StoreInv, MemoryPart, Writing
  <2>2. ASSUME NEW i \in OpIds, i # k PROVE MemoryPart(i)'
    BY <1>0, <1>1, <1>2, <1>3, <2>2, MemoryKept DEF StoreInv, Records
  <2> QED  BY <2>1, <2>2
<1>13. EffectPart'
  <2>1. \A i : EffectOf(i)' = EffectOf(i)
    BY <1>1 DEF EffectOf
  <2>2. EffectOf(k).op = k
    BY DEF EffectOf
  <2> QED  BY <1>1, <1>6, <1>7, <2>1, <2>2 DEF StoreInv, EffectPart, FsRecs
<1>14. OneMarker' /\ Ordered'
  BY <1>1 DEF StoreInv, OneMarker, Ordered
<1>15. \A q \in Paths : Newest(q)'
  <2> TAKE q \in Paths
  <2>1. On(q)' = On(q)
    BY <1>1 DEF On
  <2>2. CASE q = p
    BY <1>1, <1>2, <1>6, <1>8, <2>1, <2>2 DEF StoreInv, Newest, MarkerOn
  <2>3. CASE q # p
    <3>1. file'[q] = file[q]
      BY <1>1, <1>5, <2>3
    <3>2. MarkerOn(q) => MarkerOn(q)'
      BY <1>1, <1>8 DEF MarkerOn
    <3> QED  BY <1>1, <2>1, <3>1, <3>2 DEF StoreInv, Newest
  <2> QED  BY <2>2, <2>3
<1>16. LookPart(t)'
  BY <1>1, <1>3, <1>4, <1>5 DEF LookPart, FsSteps
<1>17. WritePart(t)'
  <2>1. PICK rec : rec = ops[k]
    OBVIOUS
  <2>2. rec = FsRecord(t, "prepared", rec.ts)'
    BY <1>0, <1>3, <1>4, <1>5, <2>1 DEF FsRecord
  <2> QED  BY <1>1, <1>3, <1>8, <2>1, <2>2 DEF WritePart
<1>18. \A u \in Tasks \ {t} : LookPart(u)' /\ WritePart(u)'
  <2>1. \A u \in Tasks \ {t} : task[u].op # k
    BY <1>0, <1>2, OwnOperation
  <2> QED  BY <1>1, <1>2, <1>3, <1>8, <2>1, OthersKept DEF FsSteps
<1>19. PrunePart'
  BY <1>1, FsNoPrune, PruneIdle DEF FsSteps, StoreInv
<1> QED  BY <1>10, <1>11, <1>12, <1>13, <1>14, <1>15, <1>16, <1>17, <1>18, <1>19 DEF StoreInv

(* Nothing has come between the checks and the install.                     *)
LEMMA NeverRefused ==
  ASSUME TypeInv, StoreInv, NEW t \in Tasks, FsInstallRefused(t)
  PROVE  FALSE
<1>1. task[t].pc = "install" /\ InstallError(t) # "none"
  BY DEF FsInstallRefused, At
<1>2. /\ task[t].new # file[task[t].path]
      /\ BodyOf(t).kind = "create" => file[task[t].path] = Absent
  BY <1>1 DEF StoreInv, LookPart
<1> QED  BY <1>1, <1>2 DEF InstallError, Kind

(* A committed mutation is answered with an answer.                         *)
LEMMA CommitAnswer ==
  ASSUME TypeInv, NEW t \in Tasks, task[t].pc = "commit"
  PROVE  FsAnswer(t) \in Answers /\ FsAnswer(t).st = "done"
<1>1. BodyOf(t) \in Bodies /\ task[t] \in TaskStates
  BY DEF TypeInv, TypeOK, TaskShape, BodyOf
<1>2. mops[BodyOf(t).target].old \in State
  BY <1>1 DEF TypeInv, TypeOK, Bodies, Records
<1>3. task[t].op \in 0..MaxOps /\ task[t].old \in State /\ task[t].new \in State
  BY <1>1 DEF TaskStates
<1> QED  BY <1>2, <1>3, AnswerTypes DEF FsAnswer

(* The commit replaces the marker by a record of what was done.             *)
LEMMA CommitStore ==
  ASSUME TypeInv, PhaseInv, IdInv, FreshInv, StoreInv, NEW t \in Tasks, FsCommit(t)
  PROVE  StoreInv'
<1>0. PICK k, rec : k = task[t].op /\ rec = FsRecord(t, "fs", now)
  OBVIOUS
<1>1. /\ srv = "up" /\ task[t].pc = "commit" /\ now' = now + 1 /\ FinishWith(t, FsAnswer(t))
      /\ ops' = [ops EXCEPT ![k] = rec] /\ mops' = [mops EXCEPT ![k] = rec]
      /\ slot' = [slot EXCEPT ![k] = now]
      /\ UNCHANGED <<file, blobs, effects, body, nextId, srv, prune, counter>>
  BY <1>0 DEF FsCommit, At, Stamp, ghosts
<1>2. /\ k \in OpIds /\ task[t].rid \in Rids /\ now \in Nat /\ k <= nextId
      /\ ops \in [OpIds -> Records] /\ mops \in [OpIds -> Records] /\ slot \in [OpIds -> Nat]
  BY <1>0, <1>1 DEF TypeInv, TypeOK, TaskShape, IdInv
<1>3. LookPart(t) /\ ops[k] = FsRecord(t, "prepared", ops[k].ts) /\ Made(k) /\ RecordPart(k)
  BY <1>0, <1>1, <1>2 DEF StoreInv, WritePart
<1>4. /\ ops[k].st = "prepared" /\ rec.st = "fs" /\ rec.ts = now /\ rec.rid = ops[k].rid
      /\ rec.kind = ops[k].kind /\ rec.path = ops[k].path /\ rec.old = ops[k].old
      /\ rec.new = ops[k].new
  BY <1>0, <1>3 DEF FsRecord
<1>5. /\ Moves(t) /\ task'[t].pc = "remember"
  <2>1. FsAnswer(t) \in Answers
    BY <1>1, CommitAnswer
  <2> QED  BY <1>1, <2>1, FinishTask
<1>6. /\ ops'[k] = rec /\ mops'[k] = rec /\ slot'[k] = now
      /\ \A i \in OpIds : i # k => ops'[i] = ops[i] /\ mops'[i] = mops[i] /\ slot'[i] = slot[i]
  BY <1>1, <1>2
<1>7. EffectOf(k)' = EffectOf(k) /\ \A i \in OpIds : i # k => EffectOf(i)' = EffectOf(i)
  BY <1>4, <1>6 DEF EffectOf
<1>8. \A i \in OpIds : EffectOf(i)' = EffectOf(i)
  BY <1>7
<1>9. \A i \in OpIds : Made(i)' <=> Made(i)
  BY <1>1, <1>8 DEF Made
<1>10. \A i \in OpIds : ops[i].st = "prepared" => i = k
  BY <1>0, <1>1, OwnMarker DEF FsSteps
<1>11. \A i \in OpIds : RecordPart(i)'
  <2>1. RecordPart(k)'
    BY <1>1, <1>2, <1>3, <1>4, <1>6, <1>9 DEF RecordPart, FsRecs
  <2>2. ASSUME NEW i \in OpIds, i # k PROVE RecordPart(i)'
    BY <1>1, <1>2, <1>6, <1>9, <2>2, RecordKept DEF StoreInv, Records
  <2> QED  BY <2>1, <2>2
<1>12. \A i \in OpIds : MemoryPart(i)'
  <2>1. MemoryPart(k)'
    BY <1>1, <1>2, <1>4, <1>6, MaxOpsAssumption
       DEF MaxOpsAssumption, MemoryPart, Synced, TypeInv, TypeOK, OpIds
  <2>2. ASSUME NEW i \in OpIds, i # k PROVE MemoryPart(i)'
    BY <1>0, <1>1, <1>2, <1>5, <1>6, <2>2, MemoryKept DEF StoreInv, Records
  <2> QED  BY <2>1, <2>2
<1>13. EffectPart'
  <2>1. \A e \in effects : e.op \in OpIds
    BY DEF TypeInv, TypeOK
  <2> QED  BY <1>1, <1>4, <1>6, <1>8, <2>1 DEF StoreInv, EffectPart, FsRecs
<1>14. OneMarker'
  BY <1>4, <1>6, <1>10 DEF OneMarker
<1>15. \A j \in OpIds : ops[j].st \in FsRecs => ops[j].ts < now /\ ops[j].ts \in Nat
  BY <1>2 DEF StoreInv, RecordPart, FsRecs, Records
<1>16. \A p \in Paths : Newest(p)'
  <2> TAKE p \in Paths
  <2>1. CASE p = rec.path
    <3>1. k \in On(p)' /\ \A j \in On(p)' : ops'[j].ts <= now
      BY <1>2, <1>4, <1>6, <1>15, <2>1 DEF On, FsRecs
    <3>2. file'[p] = ops'[k].new
      BY <1>1, <1>3, <1>4, <1>6, <2>1 DEF RecordPart
    <3>3. ops'[k].ts = now
      BY <1>4, <1>6
    <3> QED  BY <3>1, <3>2, <3>3 DEF Newest
  <2>2. CASE p # rec.path
    <3>1. On(p)' = On(p) /\ \A i \in On(p) : ops'[i] = ops[i]
      BY <1>4, <1>6, <2>2 DEF On
    <3>2. ~MarkerOn(p)
      BY <1>4, <1>10, <2>2 DEF MarkerOn
    <3> QED  BY <1>1, <3>1, <3>2 DEF StoreInv, Newest
  <2> QED  BY <2>1, <2>2
<1>17. Ordered'
  <2> SUFFICES ASSUME NEW i \in OpIds, mops'[i].st \in FsRecs
               PROVE  /\ slot'[i] < now'
                      /\ \A j \in OpIds : mops'[j].st \in FsRecs =>
                             (slot'[i] <= slot'[j] <=> ops'[i].ts <= ops'[j].ts)
    BY DEF Ordered
  <2>1. \A j \in OpIds : j # k /\ mops'[j].st \in FsRecs =>
           /\ slot'[j] = slot[j] /\ slot[j] \in Nat /\ slot[j] < now /\ mops[j].st \in FsRecs
           /\ ops'[j] = ops[j] /\ ops[j].ts \in Nat /\ ops[j].ts < now
    <3> TAKE j \in OpIds
    <3>1. j # k /\ mops'[j].st \in FsRecs => mops[j].st \in FsRecs /\ mops[j] = ops[j]
      BY <1>1, <1>6, MemoryTrue DEF FsRecs
    <3>2. j # k /\ mops'[j].st \in FsRecs => slot[j] \in Nat /\ slot[j] < now
      BY <1>2, <3>1 DEF StoreInv, Ordered
    <3> QED  BY <1>6, <1>15, <3>1, <3>2
  <2>2. slot'[k] = now /\ ops'[k].ts = now
    BY <1>4, <1>6
  <2>3. i # k => \A j \in OpIds : j # k /\ mops'[j].st \in FsRecs =>
           (slot[i] <= slot[j] <=> ops[i].ts <= ops[j].ts)
    BY <2>1 DEF StoreInv, Ordered
  <2> QED  BY <1>1, <1>2, <2>1, <2>2, <2>3
<1>18. LookPart(t)' /\ WritePart(t)'
  BY <1>5 DEF LookPart, WritePart, FsSteps
<1>19. \A u \in Tasks \ {t} : LookPart(u)' /\ WritePart(u)'
  <2>1. \A u \in Tasks \ {t} : task[u].op # k
    BY <1>0, <1>2, OwnOperation
  <2>2. \A i \in OpIds : ops[i].st = "fs" => ops'[i] = ops[i]
    BY <1>4, <1>6
  <2>3. \A i \in OpIds : i # k =>
           /\ ops'[i] = ops[i] /\ mops'[i] = mops[i] /\ blobs'[i] = blobs[i]
           /\ Made(i)' <=> Made(i)
    BY <1>1, <1>6, <1>9
  <2>4. now' \in Nat /\ now <= now' /\ file' = file /\ body' = body
    BY <1>1, <1>2
  <2> QED  BY <1>5, <2>1, <2>2, <2>3, <2>4, OthersKept
<1>20. PrunePart'
  BY <1>1, FsNoPrune, PruneIdle DEF FsSteps, StoreInv
<1> QED  BY <1>1, <1>11, <1>12, <1>13, <1>14, <1>16, <1>17, <1>18, <1>19, <1>20 DEF StoreInv

(* The record of a command enters the log...                                *)
LEMMA ExecAppendStore ==
  ASSUME TypeInv, PhaseInv, IdInv, FreshInv, StoreInv, NEW t \in Tasks, ExecAppend(t)
  PROVE  StoreInv'
<1>0. PICK k, rec : k = task[t].op /\ rec = ExecRecord(t, now)
  OBVIOUS
<1>1. /\ srv = "up" /\ task[t].pc = "exec_append" /\ now' = now + 1
      /\ ops' = [ops EXCEPT ![k] = rec]
      /\ task' = [task EXCEPT ![t] = [@ EXCEPT !.pc = "exec_push", !.ts = now]]
      /\ UNCHANGED <<file, blobs, mops, slot, effects, body, nextId, srv, prune, counter>>
  BY <1>0 DEF ExecAppend, At, Stamp, tables, ghosts
<1>2. /\ k \in OpIds /\ task[t].rid \in Rids /\ task[t] \in TaskStates /\ now \in Nat
      /\ ops \in [OpIds -> Records] /\ mops \in [OpIds -> Records] /\ k <= nextId /\ nextId \in Nat
  BY <1>0, <1>1, MaxOpsAssumption
     DEF MaxOpsAssumption, TypeInv, TypeOK, TaskShape, IdInv
<1>3. /\ rec.st = "exec" /\ rec.rid = task[t].rid /\ rec.ts = now
      /\ rec.kind \in {"exec", "rejected"}
  BY <1>0 DEF ExecRecord, NoRec
<1>4. /\ Moves(t) /\ task'[t].pc = "exec_push" /\ task'[t].op = k /\ task'[t].ts = now
      /\ task'[t].rid = task[t].rid /\ task'[t].ans = task[t].ans
  BY <1>0, <1>1, <1>2 DEF Moves, TypeInv, TypeOK, TaskStates
<1>5. BodyOf(t)' = BodyOf(t) /\ BodyOf(t) = body[task[t].rid]
  BY <1>1, <1>4 DEF BodyOf
<1>6. ops[k].st = "none" /\ mops[k].st = "none" /\ BodyOf(t).kind = "exec"
  <2>1. ops[k].st = "none" /\ BodyOf(t).kind = "exec"
    BY <1>0, <1>1 DEF StoreInv, WritePart
  <2> QED  BY <1>0, <1>1, <2>1 DEF StoreInv, WritePart
<1>7. ops'[k] = rec /\ \A i \in OpIds : i # k => ops'[i] = ops[i]
  BY <1>1, <1>2
<1>8. \A e \in effects : e.op # k
  BY <1>0, <1>1 DEF FreshInv
<1>9. ~Made(k)' /\ ~Made(k) /\ \A i \in OpIds : i # k => (Made(i)' <=> Made(i))
  BY <1>1, <1>7, <1>8 DEF Made, EffectOf
<1>10. \A i \in OpIds : RecordPart(i)'
  <2>1. RecordPart(k)'
    BY <1>1, <1>2, <1>3, <1>5, <1>6, <1>7 DEF RecordPart, FsRecs, IsExec
  <2>2. ASSUME NEW i \in OpIds, i # k PROVE RecordPart(i)'
    BY <1>1, <1>2, <1>7, <1>9, <2>2, RecordKept DEF StoreInv, Records
  <2> QED  BY <2>1, <2>2
<1>11. \A i \in OpIds : MemoryPart(i)'
  <2>1. MemoryPart(k)'
    BY <1>1, <1>2, <1>4, <1>6 DEF MemoryPart, Writing, OpIds
  <2>2. ASSUME NEW i \in OpIds, i # k PROVE MemoryPart(i)'
    BY <1>0, <1>1, <1>2, <1>4, <1>7, <2>2, MemoryKept DEF StoreInv, Records
  <2> QED  BY <2>1, <2>2
<1>12. EffectPart'
  BY <1>1, <1>7, <1>8 DEF StoreInv, EffectPart, EffectOf, TypeInv, TypeOK
<1>13. OneMarker'
  BY <1>3, <1>7 DEF StoreInv, OneMarker
<1>14. \A p \in Paths : Newest(p)'
  <2> TAKE p \in Paths
  <2>1. On(p)' = On(p) /\ (MarkerOn(p)' <=> MarkerOn(p))
    BY <1>3, <1>6, <1>7, <1>9 DEF On, MarkerOn
  <2>2. \A i \in On(p) : ops'[i] = ops[i]
    BY <1>6, <1>7 DEF On
  <2> QED  BY <1>1, <2>1, <2>2 DEF StoreInv, Newest
<1>15. Ordered'
  <2>1. \A i \in OpIds : mops[i].st \in FsRecs =>
           ops'[i] = ops[i] /\ slot[i] < now /\ slot[i] \in Nat
    BY <1>6, <1>7 DEF StoreInv, Ordered, FsRecs, TypeInv, TypeOK
  <2> QED  BY <1>1, <1>2, <2>1 DEF StoreInv, Ordered
<1>16. LookPart(t)'
  BY <1>4 DEF LookPart, FsSteps
<1>17. WritePart(t)'
  <2>1. rec = ExecRecord(t, task[t].ts)'
    BY <1>0, <1>4 DEF ExecRecord
  <2> QED  BY <1>1, <1>4, <1>5, <1>6, <1>7, <2>1 DEF WritePart
<1>18. \A u \in Tasks \ {t} : LookPart(u)' /\ WritePart(u)'
  <2>1. \A u \in Tasks \ {t} : task[u].op # k
    BY <1>0, <1>2, OwnOperation
  <2> QED  BY <1>1, <1>2, <1>4, <1>6, <1>7, <1>9, <2>1, OthersKept
<1>19. PrunePart'
  BY <1>0, <1>1, <1>2, <1>3, <1>4, <1>7, PruneKept
<1> QED  BY <1>1, <1>10, <1>11, <1>12, <1>13, <1>14, <1>15, <1>16, <1>17, <1>18, <1>19 DEF StoreInv

(* ...and then the history.                                                 *)
LEMMA ExecPushStore ==
  ASSUME TypeInv, PhaseInv, IdInv, FreshInv, StoreInv, NEW t \in Tasks, ExecPush(t)
  PROVE  StoreInv'
<1>0. PICK k, rec : k = task[t].op /\ rec = ExecRecord(t, task[t].ts)
  OBVIOUS
<1>1. /\ srv = "up" /\ task[t].pc = "exec_push" /\ now' = now + 1
      /\ mops' = [mops EXCEPT ![k] = rec] /\ slot' = [slot EXCEPT ![k] = now]
      /\ task' = [task EXCEPT ![t].pc = "remember"]
      /\ UNCHANGED <<file, ops, blobs, effects, body, nextId, srv, prune, counter>>
      /\ prune.stage = "idle"
  BY <1>0 DEF ExecPush, TablesFree, At, Stamp, disk, ghosts
<1>2. /\ k \in OpIds /\ now \in Nat /\ ops \in [OpIds -> Records] /\ mops \in [OpIds -> Records] /\ k <= nextId /\ nextId \in Nat
      /\ mops \in [OpIds -> Records] /\ slot \in [OpIds -> Nat]
  BY <1>0, <1>1, MaxOpsAssumption
     DEF MaxOpsAssumption, TypeInv, TypeOK, TaskShape, IdInv
<1>3. /\ rec.st = "exec" /\ rec.rid = task[t].rid /\ rec.ts = task[t].ts
      /\ rec.kind \in {"exec", "rejected"}
  BY <1>0 DEF ExecRecord, NoRec
<1>4. Moves(t) /\ task'[t].pc = "remember"
  BY <1>1 DEF Moves, TypeInv, TypeOK, TaskStates
<1>5. mops'[k] = rec /\ \A i \in OpIds : i # k => mops'[i] = mops[i] /\ slot'[i] = slot[i]
  BY <1>1, <1>2
<1>6. \A i : Made(i)' <=> Made(i)
  BY <1>1 DEF Made, EffectOf
<1>7. \A i \in OpIds : RecordPart(i)'
  <2> TAKE i \in OpIds
  <2> QED  BY <1>1, <1>2, <1>6, RecordKept DEF StoreInv, Records
<1>8. \A i \in OpIds : MemoryPart(i)'
  <2>1. MemoryPart(k)'
    <3>1. ops[k] = rec \/ (Racy /\ ops[k].st = "none" /\ task[t].ts < now)
      BY <1>0, <1>1 DEF StoreInv, WritePart
    <3>2. IsExec(rec)
      BY <1>0, <1>1, <1>3 DEF StoreInv, WritePart, IsExec, BodyOf, TypeInv, TaskShape
    <3>3. ops[k] = rec \/ Lost(k)'
      <4>1. task[t].ts \in Nat
        BY DEF TypeInv, TypeOK, TaskStates
      <4> QED  BY <1>1, <1>2, <1>3, <1>5, <3>1, <3>2, <4>1, RacySame DEF Lost
    <3> QED  BY <1>1, <1>2, <1>3, <1>5, <3>3 DEF MemoryPart, Synced, OpIds
  <2>2. ASSUME NEW i \in OpIds, i # k PROVE MemoryPart(i)'
    BY <1>0, <1>1, <1>2, <1>4, <1>5, <2>2, MemoryKept DEF StoreInv, Records
  <2> QED  BY <2>1, <2>2
<1>9. EffectPart' /\ OneMarker'
  BY <1>1 DEF StoreInv, EffectPart, EffectOf, OneMarker
<1>10. \A p \in Paths : Newest(p)'
  BY <1>1, <1>6 DEF StoreInv, Newest, On, MarkerOn
<1>11. Ordered'
  <2>1. \A i \in OpIds : mops'[i].st \in FsRecs =>
           mops[i].st \in FsRecs /\ slot'[i] = slot[i] /\ slot[i] < now /\ slot[i] \in Nat
    BY <1>2, <1>3, <1>5 DEF StoreInv, Ordered, FsRecs
  <2> QED  BY <1>1, <1>2, <2>1 DEF StoreInv, Ordered
<1>12. LookPart(t)' /\ WritePart(t)'
  BY <1>4 DEF LookPart, WritePart, FsSteps
<1>13. \A u \in Tasks \ {t} : LookPart(u)' /\ WritePart(u)'
  <2>1. \A u \in Tasks \ {t} : task[u].op # k
    BY <1>0, <1>2, OwnOperation
  <2> QED  BY <1>1, <1>2, <1>4, <1>5, <1>6, <2>1, OthersKept
<1>14. PrunePart'
  BY <1>1, PruneIdle DEF StoreInv
<1> QED  BY <1>1, <1>7, <1>8, <1>9, <1>10, <1>11, <1>12, <1>13, <1>14 DEF StoreInv

(* Nothing is asked of a task that does not run.                            *)
LEMMA IdleParts ==
  ASSUME \A t \in Tasks : task'[t] = IdleTask
  PROVE  \A t \in Tasks : LookPart(t)' /\ WritePart(t)'
<1>1. IdleTask.pc = "idle"
  BY DEF IdleTask
<1> QED  BY <1>1 DEF LookPart, WritePart, FsSteps

(* The process dies: the log and the workspace are as they are.             *)
LEMMA CrashStore ==
  ASSUME TypeInv, StoreInv, Crash
  PROVE  StoreInv'
<1>1. /\ UNCHANGED <<file, ops, blobs, now, effects, body>> /\ srv' = "down"
      /\ \A i \in OpIds : mops'[i] = NoRec
      /\ prune' = NoPrune /\ \A t \in Tasks : task'[t] = IdleTask
  BY DEF Crash, disk, ghosts
<1>2. NoRec.st = "none"
  BY DEF NoRec
<1>3. \A i : Made(i)' <=> Made(i)
  BY <1>1 DEF Made, EffectOf
<1>4. \A i \in OpIds : RecordPart(i)' /\ MemoryPart(i)'
  BY <1>1, <1>2, <1>3, RacySame DEF StoreInv, RecordPart, MemoryPart
<1>5. EffectPart' /\ OneMarker'
  BY <1>1 DEF StoreInv, EffectPart, EffectOf, OneMarker
<1>6. \A p \in Paths : Newest(p)'
  BY <1>1, <1>3 DEF StoreInv, Newest, On, MarkerOn
<1>7. Ordered'
  BY <1>1, <1>2 DEF Ordered, FsRecs
<1>8. \A t \in Tasks : LookPart(t)' /\ WritePart(t)'
  BY <1>1, IdleParts
<1>9. PrunePart'
  BY <1>1 DEF PrunePart, NoPrune
<1> QED  BY <1>1, <1>4, <1>5, <1>6, <1>7, <1>8, <1>9 DEF StoreInv

(* A new process reads the log back in the order it was written.            *)
LEMMA StartStore ==
  ASSUME TypeInv, PhaseInv, StoreInv, Start
  PROVE  StoreInv'
<1>1. /\ UNCHANGED <<file, ops, blobs, now, effects, body, task>> /\ srv' = "recover"
      /\ mops' = ops /\ slot' = [i \in OpIds |-> ops[i].ts]
      /\ \A t \in Tasks : task[t] = IdleTask
  BY DEF Start, disk, ghosts, PhaseInv
<1>2. nextId' \in 0..MaxOps /\ \A i \in OpIds : ops[i].st # "none" => i <= nextId'
  BY DEF Start, IsHighWater, Live
<1>3. \A i : Made(i)' <=> Made(i)
  BY <1>1 DEF Made, EffectOf
<1>4. \A i \in OpIds : RecordPart(i)'
  BY <1>1, <1>3, RacySame DEF StoreInv, RecordPart
<1>5. \A i \in OpIds : MemoryPart(i)'
  BY <1>1, <1>2, MaxOpsAssumption DEF MaxOpsAssumption, MemoryPart, Synced, OpIds
<1>6. EffectPart' /\ OneMarker'
  BY <1>1 DEF StoreInv, EffectPart, EffectOf, OneMarker
<1>7. \A p \in Paths : Newest(p)'
  BY <1>1, <1>3 DEF StoreInv, Newest, On, MarkerOn
<1>8. Ordered'
  <2>1. \A i \in OpIds : ops[i].st \in FsRecs => ops[i].ts < now
    BY DEF StoreInv, RecordPart, FsRecs
  <2> QED  BY <1>1, <2>1 DEF Ordered
<1>9. \A t \in Tasks : LookPart(t)' /\ WritePart(t)'
  <2>1. \A t \in Tasks : task'[t] = IdleTask
    BY <1>1
  <2> QED  BY <2>1, IdleParts
<1>10. PrunePart'
  <2>1. prune.stage = "idle" /\ prune' = prune /\ counter' = counter /\ counter # Corrupt
    BY DEF Start, disk, PhaseInv
  <2> QED  BY <2>1 DEF PrunePart
<1> QED  BY <1>1, <1>4, <1>5, <1>6, <1>7, <1>8, <1>9, <1>10 DEF StoreInv

(* Recovery rewrites one marker: a record if the mutation was made, nothing  *)
(* if it was not.                                                           *)
LEMMA MarkerOutcome ==
  ASSUME TypeInv, StoreInv, NEW i \in OpIds, srv = "recover", mops[i].st = "prepared"
  PROVE  /\ mops[i] = ops[i] /\ ops[i].st = "prepared"
         /\ Outcome(mops[i], file[mops[i].path]) = IF Made(i) THEN "committed" ELSE "noop"
<1>1. mops[i] = ops[i] /\ ops[i].st = "prepared"
  BY DEF StoreInv, MemoryPart, Synced, Dropped
<1>2. ops[i].old # ops[i].new /\ file[ops[i].path] = IF Made(i) THEN ops[i].new ELSE ops[i].old
  BY <1>1 DEF StoreInv, RecordPart, FsRecs
<1> QED  BY <1>1, <1>2 DEF Outcome

(* What recovery writes for a marker: the log and memory agree again.       *)
LEMMA RecoverMarkerStore ==
  ASSUME TypeInv, PhaseInv, StoreInv, NEW i \in OpIds, RecoverMarker(i)
  PROVE  StoreInv'
<1>0. PICK rec : rec = IF Made(i) THEN [mops[i] EXCEPT !.st = "fs", !.ts = now] ELSE Aborted(now)
  OBVIOUS
<1>1. /\ srv = "recover" /\ mops[i].st = "prepared" /\ now' = now + 1
      /\ UNCHANGED <<file, blobs, slot, effects, body, nextId, srv, task, prune, counter>>
      /\ prune.stage = "idle"
  BY DEF RecoverMarker, Recovering, TablesFree, Pending, Stamp, ghosts
<1>2. mops[i] = ops[i] /\ ops[i].st = "prepared"
      /\ Outcome(mops[i], file[mops[i].path]) = IF Made(i) THEN "committed" ELSE "noop"
  BY <1>1, MarkerOutcome
<1>3. /\ ops' = [ops EXCEPT ![i] = rec]
      /\ mops' = [mops EXCEPT ![i] = IF Made(i) THEN rec ELSE NoRec]
  BY <1>0, <1>2 DEF RecoverMarker
<1>4. /\ ops \in [OpIds -> Records] /\ mops \in [OpIds -> Records] /\ now \in Nat
      /\ slot \in [OpIds -> Nat] /\ \A t \in Tasks : task[t] = IdleTask
      /\ nextId \in Nat /\ i \in Nat
  BY <1>1, MaxOpsAssumption DEF MaxOpsAssumption, TypeInv, TypeOK, PhaseInv, OpIds
<1>5. /\ ops'[i] = rec /\ mops'[i] = (IF Made(i) THEN rec ELSE NoRec)
      /\ \A j \in OpIds : j # i => ops'[j] = ops[j] /\ mops'[j] = mops[j]
  BY <1>3, <1>4
<1>6. Made(i) => /\ rec.st = "fs" /\ rec.ts = now /\ rec.rid = ops[i].rid
                 /\ rec.kind = ops[i].kind /\ rec.path = ops[i].path
                 /\ rec.old = ops[i].old /\ rec.new = ops[i].new
  BY <1>0, <1>2, <1>4 DEF Records
<1>7. ~Made(i) => rec.st = "aborted" /\ rec.ts = now
  BY <1>0 DEF Aborted, NoRec
<1>8. NoRec.st = "none"
  BY DEF NoRec
<1>9. \A e \in effects : e.op = i => Made(i)
  BY <1>2 DEF StoreInv, EffectPart, Made
<1>10. Made(i)' <=> Made(i)
  <2>1. CASE Made(i)
    BY <1>1, <1>5, <1>6, <2>1 DEF Made, EffectOf
  <2>2. CASE ~Made(i)
    <3>1. \A e \in effects : e.op # i
      BY <1>9, <2>2
    <3> QED  BY <1>1, <2>2, <3>1 DEF Made, EffectOf
  <2> QED  BY <2>1, <2>2
<1>11. \A j \in OpIds : j # i => (Made(j)' <=> Made(j))
  BY <1>1, <1>5 DEF Made, EffectOf
<1>12. \A j \in OpIds : RecordPart(j)'
  <2>1. RecordPart(i)'
    <3>1. RecordPart(i) /\ now < now'
      BY <1>1, <1>4 DEF StoreInv
    <3> QED  BY <1>1, <1>2, <1>5, <1>6, <1>7, <1>10, <3>1 DEF RecordPart, FsRecs
  <2>2. ASSUME NEW j \in OpIds, j # i PROVE RecordPart(j)'
    <3>1. RecordPart(j) /\ ops[j].ts \in Nat
      BY <1>4 DEF StoreInv, Records
    <3> QED  BY <1>1, <1>4, <1>5, <1>11, <2>2, <3>1, RecordKept
  <2> QED  BY <2>1, <2>2
<1>13. \A j \in OpIds : MemoryPart(j)'
  <2>1. MemoryPart(i)'
    <3>1. i <= nextId
      BY <1>1, <1>2, <1>4 DEF StoreInv, MemoryPart
    <3> QED  BY <1>1, <1>4, <1>5, <1>7, <1>8, <3>1 DEF MemoryPart, Synced
  <2>2. ASSUME NEW j \in OpIds, j # i PROVE MemoryPart(j)'
    BY <1>1, <1>5, <2>2 DEF StoreInv, MemoryPart, Synced, Dropped, Rewriting
  <2> QED  BY <2>1, <2>2
<1>14. EffectPart'
  <2> SUFFICES ASSUME NEW e \in effects
               PROVE  ops'[e.op].st # "none" => ops'[e.op].st \in FsRecs /\ e = EffectOf(e.op)'
    BY <1>1 DEF EffectPart
  <2>1. /\ ops[e.op].st # "none" => ops[e.op].st \in FsRecs /\ e = EffectOf(e.op)
        /\ e.op \in OpIds
    BY DEF StoreInv, EffectPart, TypeInv, TypeOK
  <2>2. CASE e.op = i
    BY <1>2, <1>5, <1>6, <1>9, <2>1, <2>2 DEF EffectOf, FsRecs
  <2>3. CASE e.op # i
    BY <1>5, <2>1, <2>3 DEF EffectOf
  <2> QED  BY <2>2, <2>3
<1>15. \A j \in OpIds : j # i => ops[j].st # "prepared" /\ (ops[j].st = "fs" => ops[j].ts < ops[i].ts)
  BY <1>2 DEF StoreInv, OneMarker
<1>16. OneMarker'
  BY <1>5, <1>6, <1>7, <1>15 DEF OneMarker
<1>17. \A j \in OpIds : ops[j].st \in FsRecs => ops[j].ts < now /\ ops[j].ts \in Nat
  BY <1>4 DEF StoreInv, RecordPart, FsRecs, Records
<1>18. \A p \in Paths : Newest(p)'
  <2> TAKE p \in Paths
  <2>1. CASE Made(i) /\ p = ops[i].path
    <3>1. i \in On(p)' /\ \A j \in On(p)' : ops'[j].ts <= now
      BY <1>4, <1>5, <1>6, <1>17, <2>1 DEF On, FsRecs
    <3>2. file'[p] = ops'[i].new
      BY <1>1, <1>2, <1>5, <1>6, <2>1 DEF StoreInv, RecordPart
    <3>3. ops'[i].ts = now
      BY <1>5, <1>6, <2>1
    <3> QED  BY <3>1, <3>2, <3>3 DEF Newest
  <2>2. CASE ~(Made(i) /\ p = ops[i].path)
    <3>1. On(p)' = On(p) /\ \A j \in On(p) : ops'[j] = ops[j]
      BY <1>2, <1>5, <1>6, <1>7, <2>2 DEF On
    <3>2. ~MarkerOn(p)
      BY <1>2, <1>15, <2>2 DEF MarkerOn
    <3> QED  BY <1>1, <3>1, <3>2 DEF StoreInv, Newest
  <2> QED  BY <2>1, <2>2
<1>19. Ordered'
  <2> SUFFICES ASSUME NEW a \in OpIds, mops'[a].st \in FsRecs
               PROVE  /\ slot[a] < now'
                      /\ \A b \in OpIds : mops'[b].st \in FsRecs =>
                             (slot[a] <= slot[b] <=> ops'[a].ts <= ops'[b].ts)
    BY <1>1 DEF Ordered
  <2>1. \A j \in OpIds : mops'[j].st \in FsRecs =>
           /\ mops[j].st \in FsRecs /\ mops[j] = ops[j]
           /\ slot[j] \in Nat /\ slot[j] < now /\ ops[j].ts \in Nat /\ ops[j].ts < now
    <3> TAKE j \in OpIds
    <3>1. mops'[j].st \in FsRecs => mops[j].st \in FsRecs
      BY <1>1, <1>5 DEF FsRecs
    <3>2. mops[j].st \in FsRecs => mops[j] = ops[j]
      BY <1>1 DEF StoreInv, MemoryPart, Synced, Dropped, FsRecs
    <3>3. mops[j].st \in FsRecs => slot[j] \in Nat /\ slot[j] < now
      BY <1>4 DEF StoreInv, Ordered
    <3> QED  BY <1>17, <3>1, <3>2, <3>3
  <2>2. \A b \in OpIds : mops'[b].st \in FsRecs => (slot[a] <= slot[b] <=> ops[a].ts <= ops[b].ts)
    BY <2>1 DEF StoreInv, Ordered
  <2>3. \A j \in OpIds : j # i /\ mops'[j].st \in FsRecs => ops'[j] = ops[j] /\ ops[j].ts < ops[i].ts
    BY <1>5, <1>15, <2>1 DEF FsRecs
  <2>4. mops'[i].st \in FsRecs => ops'[i].ts = now
    BY <1>5, <1>6, <1>8 DEF FsRecs
  <2>5. ops[i].ts \in Nat
    BY <1>4 DEF Records
  <2> QED  BY <1>1, <1>4, <2>1, <2>2, <2>3, <2>4, <2>5
<1>20. \A t \in Tasks : LookPart(t)' /\ WritePart(t)'
  <2>1. \A t \in Tasks : task'[t] = IdleTask
    BY <1>1, <1>4
  <2> QED  BY <2>1, IdleParts
<1>21. PrunePart'
  BY <1>1, PruneIdle DEF StoreInv
<1> QED  BY <1>1, <1>12, <1>13, <1>14, <1>16, <1>18, <1>19, <1>20, <1>21 DEF StoreInv

(* What tasks have seen and written stays when none of it changes.          *)
LEMMA SameTasks ==
  ASSUME StoreInv, UNCHANGED <<file, ops, blobs, mops, now, effects, body, task>>
  PROVE  \A t \in Tasks : LookPart(t)' /\ WritePart(t)'
<1> TAKE t \in Tasks
<1>1. LookPart(t) /\ WritePart(t)
  BY DEF StoreInv
<1>2. LookPart(t)'
  BY <1>1 DEF LookPart, BodyOf
<1>3. /\ \A i : Made(i)' <=> Made(i)
      /\ \A st, ts : FsRecord(t, st, ts)' = FsRecord(t, st, ts)
      /\ \A ts : ExecRecord(t, ts)' = ExecRecord(t, ts)
  BY DEF Made, EffectOf, FsRecord, ExecRecord, BodyOf
<1>4. WritePart(t)'
  BY <1>1, <1>3, RacySame DEF WritePart, BodyOf
<1> QED  BY <1>2, <1>4

(* Steps that are about requests only, or about nothing.                    *)
LEMMA SameStore ==
  ASSUME TypeInv, StoreInv,
         UNCHANGED <<file, ops, blobs, mops, slot, now, effects, body, srv, nextId, task,
                     prune, counter>>
  PROVE  StoreInv'
<1>1. \A i : Made(i)' <=> Made(i)
  BY DEF Made, EffectOf
<1>2. StoreSame
  BY MaxOpsAssumption DEF StoreSame, TypeInv, TypeOK, MaxOpsAssumption
<1>3. StoreRest'
  BY <1>2, RestKept DEF Writing
<1>4. \A t \in Tasks : LookPart(t)' /\ WritePart(t)'
  BY <1>1, SameTasks
<1>5. PrunePart'
  BY DEF StoreInv, PrunePart, Keep, BodyOf, Rewriting, Upward
<1> QED  BY <1>3, <1>4, <1>5 DEF StoreRest, StoreInv

-----------------------------------------------------------------------------
(* Prunes.                                                                  *)

(* A prune that keeps a record keeps every later one.                       *)
LEMMA RetainedUp ==
  ASSUME NEW recs, NEW slots \in [OpIds -> Nat], NEW keep \in Nat,
         NEW i \in Retained(recs, slots, keep), NEW j \in Live(recs), slots[i] <= slots[j]
  PROVE  j \in Retained(recs, slots, keep)
<1> DEFINE Above(k) == {l \in Live(recs) : slots[l] > slots[k]}
<1>1. i \in OpIds /\ j \in OpIds /\ \A l \in Live(recs) : l \in OpIds
  BY DEF Retained, Live
<1>2. Above(j) \subseteq Above(i)
  <2> SUFFICES ASSUME NEW l \in Above(j) PROVE l \in Above(i)
    OBVIOUS
  <2>1. slots[l] \in Nat /\ slots[i] \in Nat /\ slots[j] \in Nat /\ slots[l] > slots[j]
    BY <1>1
  <2> QED  BY <2>1
<1>3. IsFiniteSet(OpIds)
  BY MaxOpsAssumption, FS_Interval DEF MaxOpsAssumption, OpIds
<1>4. IsFiniteSet(Above(i)) /\ IsFiniteSet(Above(j))
  <2>1. Above(i) \in SUBSET OpIds /\ Above(j) \in SUBSET OpIds
    BY <1>1
  <2> HIDE DEF Above
  <2> QED  BY <1>3, <2>1, FS_Subset
<1>5. Cardinality(Above(j)) <= Cardinality(Above(i))
  <2> HIDE DEF Above
  <2> QED  BY <1>2, <1>4, FS_Subset
<1>6. Cardinality(Above(j)) \in Nat /\ Cardinality(Above(i)) \in Nat
  <2> HIDE DEF Above
  <2> QED  BY <1>4, FS_CardinalityType
<1>7. Cardinality(Above(i)) < keep
  BY DEF Retained
<1>8. Cardinality(Above(j)) < keep
  <2> HIDE DEF Above
  <2> QED  BY <1>5, <1>6, <1>7
<1> QED  BY <1>8 DEF Retained

(* While no prune runs, a committed mutation in the log is in memory.       *)
LEMMA FsInMemory ==
  ASSUME StoreInv, srv # "down", srv \in {"down", "recover", "up"}, prune.stage = "idle",
         NEW i \in OpIds, ops[i].st = "fs"
  PROVE  mops[i] = ops[i]
<1> SUFFICES ASSUME mops[i] # ops[i] PROVE FALSE
  OBVIOUS
<1>1. PICK t \in Tasks : Writing(t, i)
  BY DEF StoreInv, MemoryPart, Synced, Dropped, Rewriting, Lost
<1>2. CASE task[t].pc = "exec_push"
  <2>1. ops[i] = ExecRecord(t, task[t].ts) \/ ops[i].st = "none"
    BY <1>1, <1>2 DEF StoreInv, WritePart, Writing
  <2> QED  BY <2>1 DEF ExecRecord, NoRec
<1>3. CASE task[t].pc \in {"install", "commit"}
  <2>1. ops[i] = FsRecord(t, "prepared", ops[i].ts)
    BY <1>1, <1>3 DEF StoreInv, WritePart, Writing
  <2> QED  BY <2>1 DEF FsRecord
<1> QED  BY <1>1, <1>2, <1>3 DEF Writing

(* A mutation in memory is in the log.                                      *)
LEMMA InLog ==
  ASSUME TypeInv, StoreInv, NEW i \in OpIds, mops[i].st \in FsRecs
  PROVE  mops[i] = ops[i]
  BY DEF StoreInv, MemoryPart, Synced, Dropped, Lost, FsRecs, TypeInv, TypeOK

(* The trimming of memory starts a prune; the log stays as it is.           *)
LEMMA TrimStore ==
  ASSUME TypeInv, StoreInv, NEW keep \in Nat, NEW by \in Tasks \cup {NoTask},
         PruneTrim(keep, by), prune.stage = "idle", srv # "down",
         UNCHANGED <<file, ops, blobs, slot, now, effects, body, srv, nextId, task, counter>>,
         \A i \in OpIds : ops[i].st # "prepared",
         by # NoTask => Keep(BodyOf(by)) # NoLimit
  PROVE  StoreInv'
<1>0. PICK kept : kept = Trim(mops, slot, keep)
  OBVIOUS
<1>1. /\ mops' = kept /\ prune'.stage = "truncate" /\ prune'.by = by
      /\ prune'.dropped = Live(mops) \ Live(kept)
  BY <1>0 DEF PruneTrim
<1>2. /\ mops \in [OpIds -> Records] /\ slot \in [OpIds -> Nat] /\ nextId \in Nat
      /\ srv \in {"recover", "up"} /\ NoRec.st = "none"
  BY MaxOpsAssumption DEF TypeInv, TypeOK, NoRec, MaxOpsAssumption
<1>3. \A i \in OpIds : mops'[i] \in {mops[i], NoRec}
  BY <1>0, <1>1, <1>2 DEF Trim
<1>4. \A i \in OpIds : i \in prune'.dropped <=> mops[i].st # "none" /\ mops'[i].st = "none"
  BY <1>1 DEF Live
<1>5. Rewriting'
  BY <1>1 DEF Rewriting
<1>6. \A i : Made(i)' <=> Made(i)
  BY DEF Made, EffectOf
<1>7. \A i \in OpIds : RecordPart(i)'
  BY <1>6, RacySame DEF StoreInv, RecordPart
<1>8. \A i \in OpIds : MemoryPart(i)'
  <2> TAKE i \in OpIds
  <2>1. MemoryPart(i)
    BY DEF StoreInv
  <2>2. Synced(i) => Synced(i)'
    <3> SUFFICES ASSUME Synced(i) PROVE Synced(i)'
      OBVIOUS
    <3>1. mops[i] = ops[i] \/ (ops[i].st \in {"none", "aborted"} /\ mops[i].st = "none")
      BY DEF Synced, Dropped, Rewriting
    <3> QED  BY <1>2, <1>3, <1>4, <1>5, <3>1 DEF Synced, Dropped
  <2>3. Lost(i) => Lost(i)' \/ (ops'[i].st = "none" /\ mops'[i].st = "none")
    BY <1>2, <1>3, RacySame DEF Lost
  <2>4. mops[i].st = "none" => mops'[i].st = "none"
    BY <1>2, <1>3
  <2>5. \A t \in Tasks : Writing(t, i)' <=> Writing(t, i)
    BY DEF Writing
  <2>6. ops'[i].st = "none" /\ mops'[i].st = "none" => Synced(i)'
    BY DEF Synced
  <2> QED  BY <1>2, <2>1, <2>2, <2>3, <2>4, <2>5, <2>6 DEF MemoryPart
<1>9. EffectPart' /\ OneMarker'
  BY DEF StoreInv, EffectPart, EffectOf, OneMarker
<1>10. \A p \in Paths : Newest(p)'
  BY <1>6 DEF StoreInv, Newest, On, MarkerOn
<1>11. Ordered'
  <2>1. \A i \in OpIds : mops'[i].st \in FsRecs => mops[i].st \in FsRecs
    BY <1>2, <1>3 DEF FsRecs
  <2> QED  BY <2>1 DEF StoreInv, Ordered
<1>12. \A t \in Tasks : LookPart(t)' /\ WritePart(t)'
  <2> TAKE t \in Tasks
  <2>1. LookPart(t)'
    BY DEF StoreInv, LookPart, BodyOf
  <2>2. task[t].pc \in {"exec_append", "exec_push"} => mops'[task[t].op].st = "none"
    BY <1>2, <1>3 DEF StoreInv, WritePart, TypeInv, TaskShape
  <2>3. WritePart(t)'
    BY <1>6, <2>2, RacySame DEF StoreInv, WritePart, BodyOf, FsRecord, ExecRecord
  <2> QED  BY <2>1, <2>3
<1>13. Upward'
  <2> SUFFICES ASSUME NEW i \in OpIds, NEW j \in OpIds, mops'[i].st = "fs", ops[j].st = "fs",
                      ops[i].ts <= ops[j].ts
               PROVE  mops'[j].st = "fs"
    BY DEF Upward
  <2>1. i \in Retained(mops, slot, keep) /\ mops[i].st = "fs"
    BY <1>0, <1>1, <1>2 DEF Trim
  <2>2. mops[j] = ops[j]
    BY <1>2, FsInMemory
  <2>3. slot[i] <= slot[j]
    BY <2>1, <2>2 DEF StoreInv, Ordered, FsRecs
  <2>4. j \in Live(mops)
    BY <2>2 DEF Live
  <2>5. j \in Retained(mops, slot, keep)
    BY <1>2, <2>1, <2>3, <2>4, RetainedUp
  <2> QED  BY <1>0, <1>1, <2>2, <2>5 DEF Trim
<1>14. \A i \in prune'.dropped :
          /\ i <= nextId' /\ mops'[i].st = "none"
          /\ \A t \in Tasks : task'[t].pc \in {"exec_append", "exec_push"} => task'[t].op # i
  <2> TAKE i \in prune'.dropped
  <2>1. i \in OpIds /\ mops[i].st # "none" /\ mops'[i].st = "none"
    BY <1>1, <1>4 DEF Live
  <2>2. i <= nextId /\ i \in Nat
    <3>1. MemoryPart(i)
      BY <2>1 DEF StoreInv
    <3>2. i \in Nat
      BY <2>1, MaxOpsAssumption DEF MaxOpsAssumption, OpIds
    <3>3. i > nextId => mops[i].st = "none"
      BY <1>2, <3>1 DEF MemoryPart
    <3> QED  BY <1>2, <2>1, <3>2, <3>3
  <2>3. \A t \in Tasks : task[t].pc \in {"exec_append", "exec_push"} => task[t].op # i
    BY <2>1 DEF StoreInv, WritePart
  <2> QED  BY <2>1, <2>2, <2>3
<1>15. PrunePart'
  <2>1. counter' # Corrupt
    BY DEF StoreInv, PrunePart
  <2>2. by # NoTask => Keep(BodyOf(by))' # NoLimit
    BY DEF Keep, BodyOf
  <2> QED  BY <1>1, <1>5, <1>13, <1>14, <2>1, <2>2 DEF PrunePart
<1> QED  BY <1>7, <1>8, <1>9, <1>10, <1>11, <1>12, <1>15 DEF StoreInv

(* gc is refused when there is no limit, and else starts a prune.           *)
LEMMA GcStore ==
  ASSUME TypeInv, PhaseInv, StoreInv, NEW t \in Tasks, GcBegin(t)
  PROVE  StoreInv'
<1> USE DEF At, disk, tables, ghosts, bounds
<1>1. /\ nextId \in Nat /\ srv = "up" /\ task[t].pc = "begin" /\ task[t].rid \in Rids
      /\ guard = NoTask /\ BodyOf(t) \in Bodies
  BY DEF TypeInv, TypeOK, TaskShape, GcBegin, BodyOf
<1>2. UNCHANGED <<file, ops, blobs, slot, now, effects, body, srv, nextId, counter>>
  BY DEF GcBegin
<1>3. CASE Keep(BodyOf(t)) = NoLimit
  <2>1. FinishWith(t, Err("InvalidRequest")) /\ UNCHANGED <<mops, prune>>
    BY <1>3 DEF GcBegin, Keep
  <2>2. StoreSame
    BY <1>1, <1>2, <2>1 DEF StoreSame
  <2>3. Err("InvalidRequest") \in Answers
    BY ErrTypes DEF Codes
  <2> QED  BY <1>1, <1>2, <2>1, <2>2, <2>3, FinishStore
<1>4. CASE Keep(BodyOf(t)) # NoLimit
  <2>1. PruneTrim(Keep(BodyOf(t)), t) /\ UNCHANGED task
    BY <1>4 DEF GcBegin, Keep
  <2>2. Keep(BodyOf(t)) \in Nat
    BY <1>1, <1>4, BoundsAssumption DEF BoundsAssumption, Keep, Bodies
  <2>3. prune.stage = "idle"
    BY <1>1, SentinelAssumption DEF SentinelAssumption, PhaseInv, TypeInv, TypeOK, PruneShape
  <2>4. \A i \in OpIds : ops[i].st # "prepared"
    BY <1>1, MarkerOwned, SentinelAssumption DEF SentinelAssumption
  <2> QED  BY <1>1, <1>2, <1>4, <2>1, <2>2, <2>3, <2>4, TrimStore
<1> QED  BY <1>3, <1>4

(* Recovery ends when no marker is left: the server serves, or first prunes. *)
LEMMA RecoverDoneStore ==
  ASSUME TypeInv, PhaseInv, StoreInv, RecoverDone
  PROVE  StoreInv'
<1>1. /\ UNCHANGED <<file, ops, blobs, slot, now, effects, body, nextId, task, counter>>
      /\ srv = "recover" /\ prune.stage = "idle"
      /\ \A i \in OpIds : mops[i].st # "prepared"
  BY DEF RecoverDone, Recovering, TablesFree, Pending, disk, ghosts
<1>2. \A i \in OpIds : ops[i].st # "prepared"
  BY <1>1 DEF StoreInv, MemoryPart, Synced, Dropped, Rewriting
<1>3. CASE HistoryLimit = NoLimit
  <2>1. srv' = "up" /\ UNCHANGED <<mops, prune>>
    BY <1>3 DEF RecoverDone
  <2>2. \A i : Made(i)' <=> Made(i)
    BY <1>1 DEF Made, EffectOf
  <2>3. \A i \in OpIds : RecordPart(i)'
    BY <1>1, <2>2, RacySame DEF StoreInv, RecordPart
  <2>4. \A i \in OpIds : MemoryPart(i)'
    BY <1>1, <1>2, <2>1 DEF StoreInv, MemoryPart, Synced, Dropped, Rewriting
  <2>5. EffectPart' /\ OneMarker' /\ Ordered'
    BY <1>1, <2>1 DEF StoreInv, EffectPart, EffectOf, OneMarker, Ordered
  <2>6. \A p \in Paths : Newest(p)'
    BY <1>1, <2>2 DEF StoreInv, Newest, On, MarkerOn
  <2>7. \A t \in Tasks : LookPart(t)' /\ WritePart(t)'
    BY <1>1, <2>1, SameTasks
  <2>8. PrunePart'
    BY <1>1, <2>1, PruneIdle DEF StoreInv
  <2> QED  BY <1>1, <2>3, <2>4, <2>5, <2>6, <2>7, <2>8 DEF StoreInv
<1>4. CASE HistoryLimit # NoLimit
  <2>1. PruneTrim(HistoryLimit, NoTask) /\ srv' = srv
    BY <1>4 DEF RecoverDone
  <2>2. HistoryLimit \in Nat
    BY <1>4, BoundsAssumption DEF BoundsAssumption
  <2> QED  BY <1>1, <1>2, <2>1, <2>2, TrimStore
<1> QED  BY <1>3, <1>4

(* The counter file and the request log.                                    *)
LEMMA PruneWritesStore ==
  ASSUME TypeInv, PhaseInv, StoreInv, PruneTruncate \/ PruneCounter \/ PruneReqs
  PROVE  StoreInv'
<1> USE DEF tables, ghosts
<1>1. UNCHANGED <<file, ops, blobs, mops, slot, now, effects, body, srv, nextId, task>>
  BY DEF PruneTruncate, PruneCounter, PruneReqs
<1>2. /\ prune'.by = prune.by /\ prune'.dropped = prune.dropped
      /\ prune.stage # "idle" /\ prune'.stage # "idle" /\ (Rewriting' <=> Rewriting)
      /\ prune'.stage # "counter" => counter' # Corrupt
  <2>1. prune \in [stage : {"idle", "truncate", "counter", "ops", "reqs", "blobs"},
                   by : Tasks \cup {NoTask}, dropped : SUBSET OpIds] /\ nextId \in Nat
    BY MaxOpsAssumption DEF MaxOpsAssumption, TypeInv, TypeOK
  <2>2. CASE PruneTruncate
    BY <2>1, <2>2 DEF PruneTruncate, Rewriting
  <2>3. CASE PruneCounter
    BY <2>1, <2>3 DEF PruneCounter, Rewriting, Corrupt
  <2>4. CASE PruneReqs
    <3>1. counter # Corrupt /\ counter' = counter
      BY <2>4, PruneAlone DEF StoreInv, PrunePart, PruneReqs
    <3> QED  BY <2>1, <2>4, <3>1 DEF PruneReqs, Rewriting
  <2> QED  BY <2>2, <2>3, <2>4
<1>3. \A i : Made(i)' <=> Made(i)
  BY <1>1 DEF Made, EffectOf
<1>4. \A i \in OpIds : RecordPart(i)'
  BY <1>1, <1>3, RacySame DEF StoreInv, RecordPart
<1>5. \A i \in OpIds : MemoryPart(i)'
  BY <1>1, <1>2, RacySame DEF StoreInv, MemoryPart, Synced, Dropped, Lost, Writing
<1>6. EffectPart' /\ OneMarker' /\ Ordered'
  BY <1>1 DEF StoreInv, EffectPart, EffectOf, OneMarker, Ordered
<1>7. \A p \in Paths : Newest(p)'
  BY <1>1, <1>3 DEF StoreInv, Newest, On, MarkerOn
<1>8. \A t \in Tasks : LookPart(t)' /\ WritePart(t)'
  BY <1>1, SameTasks
<1>9. PrunePart'
  BY <1>1, <1>2 DEF StoreInv, PrunePart, Keep, BodyOf, Upward
<1> QED  BY <1>1, <1>4, <1>5, <1>6, <1>7, <1>8, <1>9 DEF StoreInv

(* During a prune a record in memory is the one in the log, or one that only *)
(* memory has.                                                              *)
LEMMA PrunedMemory ==
  ASSUME TypeInv, PhaseInv, StoreInv, prune.stage # "idle", NEW i \in OpIds
  PROVE  mops[i] = ops[i] \/ mops[i].st = "none" \/ Lost(i)
<1>1. srv \in {"recover", "up"}
  BY PruneAlone DEF TypeInv, TypeOK
<1> QED  BY <1>1 DEF StoreInv, MemoryPart, Synced, Dropped

(* The log is rewritten: it is now what memory has.                         *)
LEMMA PruneOpsStore ==
  ASSUME TypeInv, PhaseInv, MemoryCovers, StoreInv, PruneOps
  PROVE  StoreInv'
<1> USE DEF tables, ghosts
<1>1. /\ UNCHANGED <<file, counter, blobs, mops, slot, now, effects, body, srv, nextId, task>>
      /\ prune.stage = "ops" /\ ops' = mops
  BY DEF PruneOps
<1>2. /\ prune'.by = prune.by /\ prune'.dropped = prune.dropped /\ prune'.stage = "reqs"
      /\ Rewriting /\ ~Rewriting'
  BY <1>1 DEF PruneOps, Rewriting, TypeInv, TypeOK
<1>3. srv # "down" /\ \A t \in Tasks : task[t].pc \notin FsSteps
  BY <1>1, PruneAlone
<1>4. \A i \in OpIds : ops[i].st # "prepared"
  BY <1>1 DEF StoreInv, PrunePart
<1>5. \A i \in OpIds : mops[i] = ops[i] \/ mops[i].st = "none" \/ Lost(i)
  BY <1>1, PrunedMemory
<1>6. \A i \in OpIds : mops[i].st # "prepared" /\ (mops[i].st = "fs" => mops[i] = ops[i])
  BY <1>4, <1>5 DEF Lost
<1>7. \A i \in OpIds : mops[i] = ops[i] => (Made(i)' <=> Made(i))
  BY <1>1 DEF Made, EffectOf
<1>8. \A i \in OpIds : RecordPart(i)'
  <2> TAKE i \in OpIds
  <2>1. CASE mops[i] = ops[i]
    BY <1>1, <1>7, <2>1, RacySame DEF StoreInv, RecordPart
  <2>2. CASE mops[i].st = "none"
    BY <1>1, <2>2 DEF RecordPart, FsRecs
  <2>3. CASE Lost(i)
    BY <1>1, <2>3, RacySame DEF RecordPart, FsRecs, Lost
  <2> QED  BY <1>5, <2>1, <2>2, <2>3
<1>9. \A i \in OpIds : MemoryPart(i)'
  <2> TAKE i \in OpIds
  <2>1. i > nextId => mops[i].st = "none"
    BY <1>3 DEF StoreInv, MemoryPart
  <2> QED  BY <1>1, <1>3, <1>6, <2>1 DEF MemoryPart, Synced
<1>10. EffectPart'
  <2> SUFFICES ASSUME NEW e \in effects, mops[e.op].st # "none"
               PROVE  mops[e.op].st \in FsRecs /\ e = EffectOf(e.op)'
    BY <1>1 DEF EffectPart
  <2>1. e.op \in OpIds
    BY DEF TypeInv, TypeOK
  <2>2. mops[e.op].st # "exec"
    BY DEF MemoryCovers
  <2>3. mops[e.op] = ops[e.op]
    BY <1>5, <2>1, <2>2 DEF Lost
  <2> QED  BY <1>1, <2>3 DEF StoreInv, EffectPart, EffectOf
<1>11. OneMarker'
  BY <1>1, <1>6 DEF OneMarker
<1>12. \A t \in Tasks : LookPart(t)'
  BY <1>1, <1>3 DEF LookPart, FsSteps
<1>13. \A t \in Tasks : WritePart(t)'
  <2> TAKE t \in Tasks
  <2>1. task[t].pc \in {"exec_append", "exec_push"} =>
          BodyOf(t).kind = "exec" /\ mops[task[t].op].st = "none"
    BY DEF StoreInv, WritePart
  <2>2. ASSUME task[t].pc = "exec_push" PROVE Racy /\ task[t].ts < now
    <3>1. task[t].op \in OpIds /\ task[t].rid \in Rids /\ task[t].ts \in Nat
      BY <2>2 DEF TypeInv, TypeOK, TaskShape, TaskStates
    <3>2. task[t].ts < now
      <4>1. CASE ops[task[t].op] = ExecRecord(t, task[t].ts)
        <5>1. ops[task[t].op].st # "none" /\ ops[task[t].op].ts = task[t].ts
          BY <4>1 DEF ExecRecord, NoRec
        <5> QED  BY <3>1, <5>1 DEF StoreInv, RecordPart
      <4> QED  BY <2>2, <4>1 DEF StoreInv, WritePart
    <3>3. prune.by # NoTask
      <4>1. srv = "up"
        BY <2>2 DEF PhaseInv, IdleTask
      <4> QED  BY <1>1, <4>1 DEF PhaseInv
    <3>4. /\ task[prune.by].rid \in Rids /\ BodyOf(prune.by).kind = "gc"
          /\ Keep(BodyOf(prune.by)) # NoLimit
      BY <1>1, <3>3 DEF TypeInv, TypeOK, TaskShape, PruneShape, StoreInv, PrunePart
    <3> QED  BY <2>1, <2>2, <3>1, <3>2, <3>4 DEF Racy, BodyOf
  <2> QED  BY <1>1, <1>3, <2>1, <2>2, RacySame DEF WritePart, BodyOf, FsSteps
<1>14. \A p \in Paths : Newest(p)'
  <2> TAKE p \in Paths
  <2>1. On(p)' = {i \in On(p) : mops[i].st = "fs"}
    BY <1>1, <1>6 DEF On
  <2>2. CASE On(p)' = {}
    BY <2>2 DEF Newest
  <2>3. CASE On(p)' # {}
    <3>1. PICK k \in On(p) : mops[k].st = "fs"
      BY <2>1, <2>3
    <3>2. PICK i \in On(p) : (\A j \in On(p) : ops[j].ts <= ops[i].ts) /\ file[p] = ops[i].new
      BY <1>4, <3>1 DEF StoreInv, Newest, MarkerOn
    <3>3. mops[i].st = "fs"
      BY <1>1, <1>2, <3>1, <3>2 DEF StoreInv, PrunePart, Upward, On
    <3>4. i \in On(p)' /\ \A j \in On(p)' : j \in OpIds /\ ops'[j] = ops[j]
      BY <1>1, <1>6, <2>1, <3>2, <3>3 DEF On
    <3>5. \A j \in On(p)' : ops'[j].ts <= ops'[i].ts
      BY <2>1, <3>2, <3>4
    <3>6. file'[p] = ops'[i].new
      BY <1>1, <3>2, <3>4
    <3> QED  BY <3>4, <3>5, <3>6 DEF Newest
  <2> QED  BY <2>2, <2>3
<1>15. Ordered'
  <2>1. \A i \in OpIds : mops[i].st \in FsRecs => ops'[i] = ops[i]
    BY <1>1, <1>6 DEF FsRecs
  <2> QED  BY <1>1, <2>1 DEF StoreInv, Ordered
<1>16. PrunePart'
  <2>1. counter # Corrupt /\ (prune.by # NoTask => Keep(BodyOf(prune.by)) # NoLimit)
    BY <1>1, <1>3 DEF StoreInv, PrunePart
  <2>2. \A i \in prune.dropped :
           /\ i <= nextId /\ mops[i].st = "none"
           /\ \A t \in Tasks : task[t].pc \in {"exec_append", "exec_push"} => task[t].op # i
    BY <1>1 DEF StoreInv, PrunePart
  <2> QED  BY <1>1, <1>2, <1>6, <2>1, <2>2 DEF PrunePart, Keep, BodyOf
<1> QED  BY <1>1, <1>8, <1>9, <1>10, <1>11, <1>12, <1>13, <1>14, <1>15, <1>16 DEF StoreInv

(* The blobs that go are those of records the log no longer has.            *)
LEMMA PruneBlobsStore ==
  ASSUME TypeInv, PhaseInv, StoreInv, PruneBlobs
  PROVE  StoreInv'
<1> USE DEF tables, ghosts
<1>1. /\ UNCHANGED <<file, ops, counter, mops, slot, now, effects, body, nextId>>
      /\ prune.stage = "blobs" /\ prune' = NoPrune
      /\ blobs' = [i \in OpIds |-> IF i \in prune.dropped THEN Absent ELSE blobs[i]]
  BY DEF PruneBlobs
<1>2. srv # "down" /\ (\A t \in Tasks : task[t].pc \notin FsSteps) /\ ~Rewriting
  BY <1>1, PruneAlone DEF Rewriting
<1>3. counter # Corrupt /\ \A i \in OpIds : ops[i].st # "prepared"
  BY <1>1, <1>2 DEF StoreInv, PrunePart
<1>4. /\ srv' = "up"
      /\ \A t \in Tasks : \/ task'[t] = task[t]
                          \/ task[t].pc = "begin" /\ task'[t].pc = "remember"
  <2>1. CASE prune.by = NoTask
    BY <1>1, <2>1 DEF PruneBlobs
  <2>2. CASE prune.by # NoTask
    <3>1. /\ prune.by \in Tasks /\ task[prune.by].pc = "begin" /\ srv = "up" /\ srv' = srv
          /\ FinishWith(prune.by, Done(0, Absent, Absent))
      BY <1>1, <2>2 DEF PruneBlobs, PhaseInv, TypeInv, TypeOK, PruneShape
    <3>2. Done(0, Absent, Absent) \in Answers
      BY AnswerTypes, MaxOpsAssumption DEF MaxOpsAssumption, State
    <3>3. Moves(prune.by) /\ task'[prune.by].pc = "remember"
      BY <3>1, <3>2, FinishTask
    <3> QED  BY <3>1, <3>3 DEF Moves
  <2> QED  BY <2>1, <2>2
<1>5. \A i \in OpIds : ops[i].st # "none" => blobs'[i] = blobs[i]
  BY <1>1, <1>2 DEF StoreInv, PrunePart
<1>6. \A i : Made(i)' <=> Made(i)
  BY <1>1 DEF Made, EffectOf
<1>7. \A i \in OpIds : RecordPart(i)'
  BY <1>1, <1>5, <1>6, RacySame DEF StoreInv, RecordPart, FsRecs
<1>8. \A i \in OpIds : MemoryPart(i)'
  <2> TAKE i \in OpIds
  <2>1. MemoryPart(i) /\ srv \in {"recover", "up"}
    BY <1>2 DEF StoreInv, TypeInv, TypeOK
  <2>2. Synced(i) => Synced(i)'
    BY <1>1, <1>2 DEF Synced, Dropped
  <2>3. Lost(i) => Lost(i)'
    BY <1>1, RacySame DEF Lost
  <2>4. \A t \in Tasks : Writing(t, i) => Writing(t, i)'
    BY <1>4 DEF Writing
  <2> QED  BY <1>1, <1>2, <1>3, <1>4, <2>1, <2>2, <2>3, <2>4 DEF MemoryPart
<1>9. EffectPart' /\ OneMarker' /\ Ordered'
  BY <1>1 DEF StoreInv, EffectPart, EffectOf, OneMarker, Ordered
<1>10. \A p \in Paths : Newest(p)'
  BY <1>1, <1>6 DEF StoreInv, Newest, On, MarkerOn
<1>11. \A t \in Tasks : LookPart(t)'
  BY <1>2, <1>4 DEF LookPart, FsSteps
<1>12. \A t \in Tasks : WritePart(t)'
  <2> TAKE t \in Tasks
  <2>1. CASE task'[t] = task[t]
    <3>1. \A ts : ExecRecord(t, ts)' = ExecRecord(t, ts)
      BY <2>1 DEF ExecRecord
    <3>2. WritePart(t) /\ task[t].pc \notin FsSteps
      BY <1>2 DEF StoreInv
    <3> QED  BY <1>1, <2>1, <3>1, <3>2, RacySame DEF WritePart, BodyOf, FsSteps
  <2>2. CASE task'[t].pc = "remember"
    BY <2>2 DEF WritePart
  <2> QED  BY <1>4, <2>1, <2>2
<1>13. PrunePart'
  BY <1>1, <1>3 DEF PrunePart, NoPrune
<1> QED  BY <1>1, <1>7, <1>8, <1>9, <1>10, <1>11, <1>12, <1>13 DEF StoreInv

(* The first start: no log, no tasks.                                       *)
LEMMA StoreInit == Init => StoreInv
<1> SUFFICES ASSUME Init PROVE StoreInv
  OBVIOUS
<1>1. /\ \A i \in OpIds : ops[i] = NoRec /\ mops[i] = NoRec
      /\ \A t \in Tasks : task[t] = IdleTask
      /\ srv = "down" /\ effects = {} /\ file \in [Paths -> State]
  BY FilesAssumption DEF FilesAssumption, Init
<1>2. NoRec.st = "none"
  BY DEF NoRec
<1>3. \A i \in OpIds : RecordPart(i) /\ MemoryPart(i)
  BY <1>1, <1>2 DEF RecordPart, MemoryPart, FsRecs
<1>4. EffectPart /\ OneMarker /\ Ordered
  BY <1>1, <1>2 DEF EffectPart, OneMarker, Ordered, FsRecs
<1>5. \A p \in Paths : Newest(p)
  BY <1>1, <1>2 DEF Newest, On
<1>6. \A t \in Tasks : LookPart(t) /\ WritePart(t)
  BY <1>1 DEF IdleTask, LookPart, WritePart, FsSteps
<1>7. PrunePart
  BY <1>1 DEF Init, PrunePart, NoPrune
<1> QED  BY <1>1, <1>3, <1>4, <1>5, <1>6, <1>7 DEF StoreInv

-----------------------------------------------------------------------------
(* The steps that are left when nothing fails.                              *)
CalmTask(t) ==
    \/ ClaimAppend(t) \/ ClaimLost(t) \/ ClaimWon(t)
    \/ RememberAppend(t) \/ RememberInsert(t)
    \/ ReadOnly(t) \/ FsCheck(t) \/ FsReadReject(t) \/ GcBegin(t)
    \/ ExecStart(t, TRUE) \/ ExecStart(t, FALSE) \/ ExecAppend(t) \/ ExecPush(t)
    \/ FsBlob(t) \/ FsPrepare(t) \/ FsInstall(t) \/ FsInstallRefused(t) \/ FsCommit(t)

CalmStep ==
    \/ \E t \in Tasks : \E r \in Rids : ReceiveSeen(t, r) \/ ReceiveNew(t, r)
    \/ \E t \in Tasks : CalmTask(t)
    \/ Crash \/ Start \/ RecoverStep
    \/ UNCHANGED vars

CalmPrune == PruneTruncate \/ PruneCounter \/ PruneOps \/ PruneReqs \/ PruneBlobs

(* A request is received, or a step of the server: in particular, what each  *)
(* step does to the counters of failures and foreign writes.                *)
LEMMA CalmSteps ==
  ASSUME TypeInv, [Next]_vars, Undisturbed'
  PROVE  Undisturbed /\ (CalmStep \/ CalmPrune)
<1> USE DEF Undisturbed, CalmStep
<1>0. fails \in Nat /\ externals \in Nat
  BY DEF TypeInv, TypeOK
<1>1. ASSUME NEW t \in Tasks, NEW r \in Rids, ReceiveSeen(t, r) \/ ReceiveNew(t, r)
      PROVE  Undisturbed /\ CalmStep
  <2>1. UNCHANGED <<fails, externals>>
    BY <1>1 DEF ReceiveSeen, ReceiveNew
  <2> HIDE DEF CalmStep
  <2>2. CalmStep
    BY <1>1 DEF CalmStep
  <2> QED  BY <2>1, <2>2
<1>2. ASSUME NEW t \in Tasks, TaskStep(t) PROVE Undisturbed /\ CalmStep
  <2>1. CASE \/ ClaimFail(t) \/ RememberFail(t) \/ ExecAppendFail(t) \/ FsBlobFail(t)
             \/ FsPrepareFail(t) \/ FsInstallFail(t) \/ FsCommitFail(t)
    <3>1. fails' = fails + 1
      BY <2>1 DEF Failing, ClaimFail, RememberFail, ExecAppendFail, FsBlobFail,
                  FsPrepareFail, FsInstallFail, FsCommitFail
    <3> QED  BY <1>0, <3>1
  <2>2. CASE CalmTask(t)
    <3>1. UNCHANGED <<fails, externals>>
      BY <2>2 DEF CalmTask, bounds, ClaimAppend, ClaimLost, ClaimWon, RememberAppend,
                  RememberInsert, ReadOnly, FsCheck, FsReadReject, GcBegin, ExecStart,
                  ExecAppend, ExecPush, FsBlob, FsPrepare, FsInstall, FsInstallRefused, FsCommit
    <3> QED  BY <2>2, <3>1
  <2> QED  BY <1>2, <2>1, <2>2 DEF TaskStep, CalmTask
<1>3. CASE PruneStep
  <2>1. CASE PruneFail
    BY <1>0, <2>1 DEF PruneFail, Failing
  <2>2. CASE CalmPrune
    <3>1. UNCHANGED <<fails, externals>>
      BY <2>2 DEF CalmPrune, PruneTruncate, PruneCounter, PruneOps, PruneReqs, PruneBlobs, bounds
    <3> QED  BY <2>2, <3>1
  <2> QED  BY <1>3, <2>1, <2>2 DEF PruneStep, CalmPrune
<1>4. CASE Crash \/ Start
  BY <1>4 DEF Crash, Start, bounds
<1>5. CASE RecoverStep
  <2>1. UNCHANGED <<fails, externals>>
    BY <1>5 DEF RecoverStep, RecoverMarker, RecoverRemember, RecoverStuck, RecoverDone, bounds
  <2> QED  BY <1>5, <2>1
<1>6. ASSUME NEW p \in Paths, NEW v \in State \cup {Unresolvable}, External(p, v)
      PROVE  Undisturbed /\ CalmStep
  BY <1>0, <1>6 DEF External
<1>7. CASE StartRefused \/ Waiting \/ UNCHANGED vars
  BY <1>7 DEF StartRefused, Waiting, vars, bounds
<1> QED  BY <1>1, <1>2, <1>3, <1>4, <1>5, <1>6, <1>7 DEF Next

(* The store survives every calm step.                                      *)
LEMMA StoreStep ==
  ASSUME IInv, body \in Workloads, StoreInv, CalmStep \/ CalmPrune
  PROVE  StoreInv'
<1> USE DEF IInv, WalIInv
<1>1. ASSUME NEW t \in Tasks, NEW r \in Rids, ReceiveSeen(t, r) \/ ReceiveNew(t, r)
      PROVE  StoreInv'
  BY <1>1, ClaimStore
<1>2. ASSUME NEW t \in Tasks, CalmTask(t) PROVE StoreInv'
  BY <1>2, ClaimStore, RejectStore, GcStore, CheckStore, ExecStartStore, ExecAppendStore, ExecPushStore,
     BlobStore, PrepareStore, InstallStore, NeverRefused, CommitStore DEF CalmTask
<1>3. CASE Crash \/ Start
  BY <1>3, CrashStore, StartStore
<1>4. CASE RecoverStep
  <2>1. ASSUME NEW i \in OpIds, RecoverMarker(i) PROVE StoreInv'
    BY <2>1, RecoverMarkerStore
  <2>2. CASE RecoverRemember \/ \E r \in Rids : RecoverStuck(r)
    <3>1. UNCHANGED <<file, ops, blobs, mops, slot, now, effects, body, srv, nextId, task,
                      prune, counter>>
      BY <2>2 DEF RecoverRemember, RecoverStuck, ghosts
    <3> QED  BY <3>1, SameStore
  <2>3. CASE RecoverDone
    BY <2>3, RecoverDoneStore
  <2> QED  BY <1>4, <2>1, <2>2, <2>3 DEF RecoverStep
<1>5. CASE UNCHANGED vars
  <2>1. UNCHANGED <<file, ops, blobs, mops, slot, now, effects, body, srv, nextId, task,
                    prune, counter>>
    BY <1>5 DEF vars, disk, tables, ghosts
  <2> QED  BY <2>1, SameStore
<1>6. CASE CalmPrune
  BY <1>6, PruneWritesStore, PruneOpsStore, PruneBlobsStore DEF CalmPrune
<1> QED  BY <1>1, <1>2, <1>3, <1>4, <1>5, <1>6 DEF CalmStep

(* Only an install adds to the effects, and an undo's target is an effect   *)
(* the undo has the contents of.                                            *)
LEMMA UndoStep ==
  ASSUME IInv, StoreInv, SafeUndo, CalmStep \/ CalmPrune
  PROVE  SafeUndo'
<1> USE DEF IInv
<1>1. ASSUME NEW t \in Tasks, FsInstall(t) PROVE SafeUndo'
  <2>1. /\ task[t].pc = "install" /\ body' = body
        /\ effects' = effects \cup
             {[rid |-> task[t].rid, op |-> task[t].op, path |-> task[t].path,
               old |-> file[task[t].path], new |-> task[t].new]}
    BY <1>1 DEF FsInstall, At, Install
  <2>2. task[t].rid \in Rids /\ BodyOf(t) \in Bodies
    BY <2>1 DEF TypeInv, TypeOK, TaskShape, BodyOf
  <2>3. task[t].old = file[task[t].path]
    BY <2>1 DEF StoreInv, LookPart
  <2>4. BodyOf(t).kind = "undo" =>
          /\ EffectOf(BodyOf(t).target) \in effects
          /\ EffectOf(BodyOf(t).target).op = BodyOf(t).target
          /\ EffectOf(BodyOf(t).target).new = task[t].old
          /\ EffectOf(BodyOf(t).target).old = task[t].new
    <3> SUFFICES ASSUME BodyOf(t).kind = "undo"
                 PROVE  /\ EffectOf(BodyOf(t).target) \in effects
                        /\ EffectOf(BodyOf(t).target).op = BodyOf(t).target
                        /\ EffectOf(BodyOf(t).target).new = task[t].old
                        /\ EffectOf(BodyOf(t).target).old = task[t].new
      OBVIOUS
    <3>1. /\ ops[BodyOf(t).target].st = "fs" /\ task[t].new = ops[BodyOf(t).target].old
          /\ task[t].old = ops[BodyOf(t).target].new
      BY <2>1 DEF StoreInv, LookPart, FsSteps
    <3>2. Made(BodyOf(t).target)
      BY <2>2, <3>1 DEF StoreInv, RecordPart, Bodies
    <3> QED  BY <3>1, <3>2 DEF Made, EffectOf
  <2> QED  BY <2>1, <2>3, <2>4 DEF SafeUndo, BodyOf
<1>2. CASE UNCHANGED <<effects, body>>
  BY <1>2 DEF SafeUndo
<1>3. UNCHANGED <<effects, body>> \/ \E t \in Tasks : FsInstall(t)
  <2> USE DEF ghosts
  <2>1. ASSUME NEW t \in Tasks, NEW r \in Rids, ReceiveSeen(t, r) \/ ReceiveNew(t, r)
        PROVE  UNCHANGED <<effects, body>>
    BY <2>1 DEF ReceiveSeen, ReceiveNew
  <2>2. ASSUME NEW t \in Tasks, CalmTask(t), ~FsInstall(t) PROVE UNCHANGED <<effects, body>>
    BY <2>2 DEF CalmTask, ClaimAppend, ClaimLost, ClaimWon, RememberAppend,
                RememberInsert, ReadOnly, FsCheck, FsReadReject, GcBegin, ExecStart,
                ExecAppend, ExecPush, FsBlob, FsPrepare, FsInstallRefused, FsCommit
  <2>3. CASE Crash \/ Start \/ RecoverStep \/ UNCHANGED vars
    BY <2>3 DEF Crash, Start, RecoverStep, RecoverMarker, RecoverRemember, RecoverStuck,
                RecoverDone, vars
  <2>4. CASE CalmPrune
    BY <2>4 DEF CalmPrune, PruneTruncate, PruneCounter, PruneOps, PruneReqs, PruneBlobs
  <2> QED  BY <2>1, <2>2, <2>3, <2>4 DEF CalmStep
<1> QED  BY <1>1, <1>2, <1>3

-----------------------------------------------------------------------------
(* What the invariant says of the history and the workspace.                *)

(* The log is true.                                                         *)
LEMMA StoreNoPhantom ==
  ASSUME TypeInv, StoreInv
  PROVE  NoPhantom
<1> SUFFICES ASSUME NEW i \in OpIds, mops[i].st = "fs"
             PROVE  \E e \in effects : /\ e.op = i /\ e.rid = mops[i].rid
                                       /\ e.old = mops[i].old /\ e.new = mops[i].new
  BY DEF NoPhantom
<1>1. mops[i] = ops[i]
  BY InLog DEF FsRecs
<1>2. EffectOf(i) \in effects
  BY <1>1 DEF StoreInv, RecordPart, Made
<1> QED  BY <1>1, <1>2 DEF EffectOf

(* Memory is the log while nobody holds the guard, so the newest record in   *)
(* memory is the newest of the log.                                         *)
LEMMA StoreExplains ==
  ASSUME IInv, StoreInv
  PROVE  HistoryExplainsFile
<1> SUFFICES ASSUME srv = "up", guard = NoTask, NEW p \in Paths
             PROVE  LET on == {i \in OpIds : mops[i].st = "fs" /\ mops[i].path = p} IN
                    IF on = {} THEN \A e \in effects : e.path = p => e.op <= counter
                    ELSE \E i \in on : /\ \A j \in on : slot[j] <= slot[i]
                                       /\ file[p] = mops[i].new
  BY DEF HistoryExplainsFile
<1> DEFINE on == {i \in OpIds : mops[i].st = "fs" /\ mops[i].path = p}
<1> USE DEF IInv, WalIInv
<1>0. prune.stage = "idle" /\ counter # Corrupt
  <2>1. prune.stage = "idle"
    BY SentinelAssumption DEF SentinelAssumption, PhaseInv, TypeInv, TypeOK, PruneShape
  <2> QED  BY <2>1 DEF StoreInv, PrunePart
<1>1. \A i \in OpIds : ops[i].st # "prepared"
  BY MarkerOwned, SentinelAssumption DEF SentinelAssumption
<1>2. \A i \in OpIds : ops[i].st = "fs" => mops[i] = ops[i]
  BY <1>0, FsInMemory
<1>3. \A i \in OpIds : mops[i].st = "fs" => mops[i] = ops[i]
  BY InLog DEF FsRecs
<1>4. on = On(p)
  BY <1>2, <1>3 DEF On
<1>5. CASE on = {}
  <2> SUFFICES ASSUME NEW e \in effects, e.path = p PROVE e.op <= counter
    BY <1>5
  <2>1. e.op \in OpIds /\ ops[e.op].st # "fs"
    <3>1. ops[e.op].st = "fs" => e = EffectOf(e.op)
      BY DEF StoreInv, EffectPart
    <3> QED  BY <1>4, <1>5, <3>1 DEF On, EffectOf, TypeInv, TypeOK
  <2>2. ops[e.op].st = "none"
    BY <1>1, <2>1 DEF StoreInv, EffectPart, FsRecs
  <2> QED  BY <1>0, <2>2 DEF LoggedEffects
<1>6. CASE on # {}
  <2>1. PICK i \in On(p) : /\ \A j \in On(p) : ops[j].ts <= ops[i].ts
                           /\ file[p] = ops[i].new \/ MarkerOn(p)
    BY <1>4, <1>6 DEF StoreInv, Newest
  <2>2. file[p] = mops[i].new
    BY <1>1, <1>2, <2>1 DEF MarkerOn, On
  <2>3. \A j \in On(p) : slot[j] <= slot[i]
    <3> TAKE j \in On(p)
    <3>1. /\ i \in OpIds /\ j \in OpIds /\ mops[i].st \in FsRecs /\ mops[j].st \in FsRecs
          /\ ops[j].ts <= ops[i].ts
      BY <1>4, <2>1 DEF FsRecs, On
    <3> QED  BY <3>1 DEF StoreInv, Ordered
  <2> QED  BY <1>4, <1>6, <2>1, <2>2, <2>3
<1> QED  BY <1>5, <1>6

(* What a record replaced is in its blob.                                   *)
LEMMA StoreBlobs ==
  ASSUME TypeInv, StoreInv
  PROVE  BlobIsBefore
<1> SUFFICES ASSUME NEW i \in OpIds, NEW rec \in {ops[i], mops[i]}, rec.st \in FsRecs,
                    rec.old # Absent
             PROVE  blobs[i] = rec.old
  BY DEF BlobIsBefore, FsRecs
<1>1. rec = ops[i]
  BY InLog DEF FsRecs
<1> QED  BY <1>1 DEF StoreInv, RecordPart

-----------------------------------------------------------------------------
(* What holds for good. Requests do not change.                             *)
CalmInv ==
    /\ IInv /\ body \in Workloads
    /\ Undisturbed => StoreInv /\ SafeUndo

(* No step changes what a request asks for.                                 *)
LEMMA BodyFixed ==
  ASSUME [Next]_vars
  PROVE  body' = body
<1>1. ASSUME NEW t \in Tasks, NEW r \in Rids, ReceiveSeen(t, r) \/ ReceiveNew(t, r)
      PROVE  body' = body
  BY <1>1 DEF ReceiveSeen, ReceiveNew
<1>2. ASSUME NEW t \in Tasks, TaskStep(t) PROVE body' = body
  BY <1>2 DEF TaskStep, ClaimAppend, ClaimFail, ClaimLost, ClaimWon, RememberAppend,
        RememberFail, RememberInsert, ReadOnly, FsCheck, FsReadReject, FsBlob, FsBlobFail,
        ExecStart, ExecAppend, ExecAppendFail, ExecPush, FsPrepare, FsPrepareFail, FsInstall,
        FsInstallRefused, FsInstallFail, FsCommit, FsCommitFail, GcBegin
<1>3. CASE PruneStep
  BY <1>3 DEF PruneStep, PruneTruncate, PruneCounter, PruneOps, PruneReqs, PruneBlobs, PruneFail
<1>4. CASE Crash \/ Start \/ StartRefused \/ Waiting \/ UNCHANGED vars
  BY <1>4 DEF Crash, Start, StartRefused, Waiting, vars
<1>5. CASE RecoverStep
  BY <1>5 DEF RecoverStep, RecoverMarker, RecoverRemember, RecoverStuck, RecoverDone
<1>6. ASSUME NEW p \in Paths, NEW v \in State \cup {Unresolvable}, External(p, v)
      PROVE  body' = body
  BY <1>6 DEF External
<1> QED  BY <1>1, <1>2, <1>3, <1>4, <1>5, <1>6 DEF Next

(* CalmInv is inductive.                                                    *)
LEMMA CalmInductive == Spec => []CalmInv
<1>1. Init => CalmInv
  <2> SUFFICES ASSUME Init PROVE CalmInv
    OBVIOUS
  <2>1. body \in Workloads /\ SafeUndo
    BY DEF Init, SafeUndo
  <2> QED  BY <2>1, InductiveInit, StoreInit DEF CalmInv
<1>2. CalmInv /\ [Next]_vars => CalmInv'
  <2> SUFFICES ASSUME CalmInv, [Next]_vars PROVE CalmInv'
    OBVIOUS
  <2>1. IInv' /\ (body \in Workloads)'
    BY InductiveStep, BodyFixed DEF CalmInv
  <2>2. ASSUME Undisturbed' PROVE StoreInv' /\ SafeUndo'
    <3>1. Undisturbed /\ (CalmStep \/ CalmPrune)
      BY <2>2, CalmSteps DEF CalmInv, IInv
    <3> QED  BY <3>1, StoreStep, UndoStep DEF CalmInv
  <2> QED  BY <2>1, <2>2 DEF CalmInv
<1> QED  BY <1>1, <1>2, PTL DEF Spec

(* Across crashes, recoveries and prunes the history only holds mutations    *)
(* that were really made (NoPhantom), when nothing fails.                   *)
THEOREM HistoryIsTrue == Spec => [](Undisturbed => NoPhantom)
<1>1. CalmInv => (Undisturbed => NoPhantom)
  BY StoreNoPhantom DEF CalmInv, IInv
<1> QED  BY <1>1, CalmInductive, PTL

(* Between mutations the newest record of a path says what its file holds    *)
(* (HistoryExplainsFile), however often the server died on the way and       *)
(* however much of the history was pruned.                                  *)
THEOREM HistoryExplains == Spec => [](Undisturbed => HistoryExplainsFile)
<1>1. CalmInv => (Undisturbed => HistoryExplainsFile)
  BY StoreExplains DEF CalmInv
<1> QED  BY <1>1, CalmInductive, PTL

(* An undo that went through found the file as its target left it and left   *)
(* it as its target found it (SafeUndo): handler and history agree on the    *)
(* target although they look at it in different steps, and a prune cannot    *)
(* take the target in between.                                              *)
THEOREM UndoIsSafe == Spec => [](Undisturbed => SafeUndo)
<1>1. CalmInv => (Undisturbed => SafeUndo)
  BY DEF CalmInv
<1> QED  BY <1>1, CalmInductive, PTL

(* Every record that replaced a file still has the bytes it replaced         *)
(* (BlobIsBefore), in the log and in memory: a prune removes a blob only      *)
(* after its record.                                                        *)
THEOREM BlobsAreKept == Spec => [](Undisturbed => BlobIsBefore)
<1>1. CalmInv => (Undisturbed => BlobIsBefore)
  BY StoreBlobs DEF CalmInv, IInv
<1> QED  BY <1>1, CalmInductive, PTL

-----------------------------------------------------------------------------
(* The server has no history limit and nobody calls gc with one.            *)
NeverPrunes ==
    /\ HistoryLimit = NoLimit
    /\ \A w \in Workloads : \A r \in Rids : w[r].kind = "gc" => w[r].keep = NoLimit

Unpruned == prune = NoPrune /\ counter = 0 /\ body \in Workloads

(* Then no command's record can get lost, and every mutation is in the log.  *)
Plain ==
    /\ ~Racy /\ prune.stage = "idle"
    /\ \A e \in effects : ops[e.op].st # "none"

(* Without prunes the counter file stays at 0 and bars no id.               *)
LEMMA UnprunedPlain ==
  ASSUME NeverPrunes, IInv, Unpruned
  PROVE  Plain
<1>1. ~Racy
  BY DEF NeverPrunes, Unpruned, Racy, Keep
<1>2. ASSUME NEW e \in effects PROVE ops[e.op].st # "none"
  <2>1. counter = 0 /\ counter # Corrupt /\ ~(e.op <= counter)
    BY MaxOpsAssumption DEF MaxOpsAssumption, Unpruned, Corrupt, OpIds, IInv, TypeInv, TypeOK
  <2> QED  BY <2>1 DEF IInv, WalIInv, LoggedEffects
<1> QED  BY <1>1, <1>2 DEF Plain, Unpruned, NoPrune

(* And no step is a prune's.                                                *)
LEMMA UnprunedCalm ==
  ASSUME Unpruned, CalmStep \/ CalmPrune
  PROVE  CalmStep
<1>1. prune.stage = "idle"
  BY DEF Unpruned, NoPrune
<1> QED  BY <1>1 DEF CalmPrune, PruneTruncate, PruneCounter, PruneOps, PruneReqs, PruneBlobs

(* Without a limit no step starts a prune, and failures change nothing      *)
(* about that.                                                              *)
LEMMA UnprunedStep ==
  ASSUME NeverPrunes, TypeInv, Unpruned, [Next]_vars
  PROVE  Unpruned'
<1> USE DEF Unpruned, disk
<1>0. prune.stage = "idle"
  BY DEF NoPrune
<1>1. ASSUME NEW t \in Tasks, NEW r \in Rids, ReceiveSeen(t, r) \/ ReceiveNew(t, r)
      PROVE  Unpruned'
  BY <1>1 DEF ReceiveSeen, ReceiveNew
<1>2. ASSUME NEW t \in Tasks, TaskStep(t) PROVE Unpruned'
  <2>1. CASE GcBegin(t)
    <3>1. task[t].rid \in Rids
      BY <2>1 DEF GcBegin, At, TypeInv, TaskShape
    <3>2. BodyOf(t).keep = NoLimit /\ HistoryLimit = NoLimit
      BY <2>1, <3>1 DEF NeverPrunes, BodyOf, GcBegin, Kind
    <3> QED  BY <2>1, <3>2 DEF GcBegin
  <2>2. CASE ~GcBegin(t)
    BY <1>2, <2>2 DEF TaskStep, ClaimAppend, ClaimFail, ClaimLost, ClaimWon, RememberAppend,
        RememberFail, RememberInsert, ReadOnly, FsCheck, FsReadReject, FsBlob, FsBlobFail,
        ExecStart, ExecAppend, ExecAppendFail, ExecPush, FsPrepare, FsPrepareFail, FsInstall,
        FsInstallRefused, FsInstallFail, FsCommit, FsCommitFail
  <2> QED  BY <2>1, <2>2
<1>3. CASE PruneStep
  BY <1>0, <1>3 DEF PruneStep, PruneTruncate, PruneCounter, PruneOps, PruneReqs, PruneBlobs,
                    PruneFail
<1>4. CASE Crash \/ Start
  BY <1>4 DEF Crash, Start
<1>5. CASE RecoverStep
  BY <1>5 DEF RecoverStep, RecoverMarker, RecoverRemember, RecoverStuck, RecoverDone,
              NeverPrunes
<1>6. ASSUME NEW p \in Paths, NEW v \in State \cup {Unresolvable}, External(p, v)
      PROVE  Unpruned'
  BY <1>6 DEF External
<1>7. CASE StartRefused \/ Waiting \/ UNCHANGED vars
  BY <1>7 DEF StartRefused, Waiting, vars
<1> QED  BY <1>1, <1>2, <1>3, <1>4, <1>5, <1>6, <1>7 DEF Next

(* A committed record of request r, and the answer it stands for.           *)
Committed(i, r) == IsCommitted(ops[i]) /\ ops[i].rid = r
Stored(i) == Reconstruct(i, ops[i])

(* A success is backed by the log: it is what recovery would answer.        *)
Backed(r, ans) ==
    /\ ans.st = "none" => ans = NoAnswer
    /\ ans.st = "error" => ans.op = 0
    /\ ans.st = "done" =>
           IF body[r].kind = "read" THEN ans.op = 0
           ELSE \E i \in OpIds : Committed(i, r) /\ Stored(i) = ans

(* The claim of a request is in the log and, if there is a process, in its   *)
(* table.                                                                   *)
Taken(r) == reqs[r].status # "none" /\ (srv # "down" => mreqs[r].status # "none")

(* Its record is in the log, its answer is not in the table yet.            *)
Late(t) == task[t].pc \in {"exec_push", "remember", "stored"}

(* The entries of a request, what it started and what was said about it.    *)
EntryPart(r, e) ==
    /\ e.status = "inprogress" => e.kind = body[r].kind
    /\ e.status \in {"none", "inprogress"} <=> e.ans.st = "none"
    /\ Backed(r, e.ans)
ClaimPart(r) ==
    /\ EntryPart(r, reqs[r]) /\ EntryPart(r, mreqs[r])
    /\ r \in stuck => mreqs[r].status = "inprogress" /\ reqs[r].status = "inprogress"
    /\ srv # "down" /\ mreqs[r].status = "none" => reqs[r].status \in {"none", "inprogress"}
    /\ runs[r] \in {0, 1} /\ (runs[r] = 1 => body[r].kind = "exec" /\ Taken(r))
    /\ \A a \in told : a[1] = r => Backed(r, a[2])

(* A request has one record, and its answer is the one the record stands    *)
(* for, wherever it is stored already.                                      *)
RecordClaim(i) ==
    LET r == ops[i].rid IN
    /\ RecordRid(ops[i]) # NoRid => /\ Taken(r)
                                    /\ \A j \in OpIds : RecordRid(ops[j]) = r => j = i
    /\ ops[i].st = "prepared" => reqs[r].status = "inprogress"
    /\ IsCommitted(ops[i]) =>
           /\ reqs[r].status = "inprogress" \/ reqs[r].ans = Stored(i)
           /\ srv = "recover" => r \in stuck \/ recov.rid = r \/ mreqs[r].ans = Stored(i)
           /\ srv = "up" => \/ mreqs[r].ans = Stored(i)
                            \/ \E t \in Tasks : task[t].rid = r /\ Late(t)

(* An owner has nothing behind it: no record, no command, no success told.   *)
OwnerPart(t) ==
    LET me == task[t] IN
    /\ me.pc \in {"insert", "stored"} => reqs[me.rid].status # "none"
    /\ Owns(t) /\ me.pc # "stored" => reqs[me.rid].status = "inprogress"
    /\ me.pc \in {"begin", "read", "prepare", "exec_append"} =>
           \A i \in OpIds : RecordRid(ops[i]) # me.rid
    /\ me.pc = "begin" => runs[me.rid] = 0
    /\ me.pc \in {"exec_append", "exec_push"} =>
           me.ans \in {Done(me.op, Absent, Absent), Err("ExecFailed")}
    /\ me.pc \in {"exec_append", "exec_push", "remember", "stored"} => me.say = me.ans
    /\ me.pc \in {"remember", "stored"} =>
           /\ Backed(me.rid, me.ans)
           /\ \A i \in OpIds : Committed(i, me.rid) => me.ans = Stored(i)
    /\ Owns(t) /\ BodyOf(t).kind # "read" => \A a \in told : a[1] = me.rid => a[2].st # "done"

(* Recovery owes the answer of a record that is in the log.                 *)
RecovPart ==
    /\ srv # "recover" => recov = NoRecov /\ stuck = {}
    /\ recov # NoRecov =>
           /\ reqs[recov.rid].status = "inprogress"
           /\ \E i \in OpIds : Committed(i, recov.rid) /\ recov.ans = Stored(i)

RequestInv ==
    /\ \A r \in Rids : ClaimPart(r)
    /\ \A i \in OpIds : RecordClaim(i)
    /\ \A t \in Tasks : OwnerPart(t)
    /\ RecovPart

-----------------------------------------------------------------------------
(* Committed records stay, so what they back stays backed.                  *)
LEMMA BackedKept ==
  ASSUME body' = body, \A i \in OpIds : IsCommitted(ops[i]) => ops'[i] = ops[i]
  PROVE  \A r, ans : Backed(r, ans) => Backed(r, ans)'
<1> TAKE r, ans
<1> SUFFICES ASSUME Backed(r, ans) PROVE Backed(r, ans)'
  OBVIOUS
<1>1. \A i \in OpIds : Committed(i, r) => Committed(i, r)' /\ Stored(i)' = Stored(i)
  BY DEF Committed, Stored
<1> QED  BY <1>1 DEF Backed

(* Markers and records name a request.                                      *)
LEMMA RecordRids ==
  ASSUME TypeInv, StoreInv, NEW i \in OpIds, ops[i].st \in {"prepared", "fs", "exec"}
  PROVE  ops[i].rid \in Rids
  BY DEF TypeInv, RecordShape, StoreInv, RecordPart, IsExec, FsRecs

(* A step of t that is about request r only needs to be looked at there.    *)
LEMMA RequestFrame ==
  ASSUME TypeInv, StoreInv, RequestInv, NEW t \in Tasks, NEW r \in Rids, Moves(t),
         UNCHANGED <<body, stuck, recov>>,
         \A q \in Rids \ {r} : reqs'[q] = reqs[q] /\ mreqs'[q] = mreqs[q] /\ runs'[q] = runs[q],
         reqs'[r].status # "none" \/ reqs'[r] = reqs[r],
         \A a \in told' : a \in told \/ a[1] = r,
         \A i \in OpIds : \/ ops'[i] = ops[i]
                          \/ /\ RecordRid(ops'[i]) = r /\ ~IsCommitted(ops[i])
                             /\ RecordRid(ops[i]) \in {NoRid, r},
         Late(t) => task[t].rid = r,
         ClaimPart(r)', OwnerPart(t)',
         \A u \in Tasks \ {t} : Owns(u) /\ task[u].rid = r => OwnerPart(u)',
         \A i \in OpIds : RecordRid(ops'[i]) = r => RecordClaim(i)'
  PROVE  RequestInv'
<1>1. \A q, ans : Backed(q, ans) => Backed(q, ans)'
  BY BackedKept
<1>2. srv = "up" /\ srv' = srv /\ \A u \in Tasks \ {t} : task'[u] = task[u]
  BY DEF Moves
<1>3. ASSUME NEW q \in Rids \ {r} PROVE ClaimPart(q)'
  <2>1. /\ ClaimPart(q) /\ reqs'[q] = reqs[q] /\ mreqs'[q] = mreqs[q] /\ runs'[q] = runs[q]
        /\ \A a \in told' : a[1] = q => a \in told
    BY DEF RequestInv
  <2>2. EntryPart(q, reqs[q])' /\ EntryPart(q, mreqs[q])'
    BY <1>1, <2>1 DEF ClaimPart, EntryPart
  <2> QED  BY <1>1, <1>2, <2>1, <2>2 DEF ClaimPart, Taken
<1>4. ASSUME NEW i \in OpIds, RecordRid(ops'[i]) # r PROVE RecordClaim(i)'
  <2>1. RecordClaim(i) /\ ops'[i] = ops[i]
    BY <1>4 DEF RequestInv
  <2>2. CASE ops[i].st \notin {"prepared", "fs", "exec"}
    BY <2>1, <2>2 DEF RecordClaim, RecordRid, IsCommitted
  <2>3. CASE ops[i].st \in {"prepared", "fs", "exec"}
    <3>1. PICK q \in Rids : q = ops[i].rid
      BY <2>3, RecordRids
    <3>2. q # r /\ q # NoRid /\ RecordRid(ops[i]) = q
      BY <1>4, <2>1, <2>3, <3>1, SentinelAssumption DEF SentinelAssumption, RecordRid
    <3>3. reqs'[q] = reqs[q] /\ mreqs'[q] = mreqs[q]
      BY <3>2
    <3>4. \A j \in OpIds : RecordRid(ops'[j]) = q => RecordRid(ops[j]) = q
      BY <3>2
    <3>5. Taken(q)' /\ \A j \in OpIds : RecordRid(ops'[j]) = q => j = i
      BY <1>2, <2>1, <3>1, <3>2, <3>3, <3>4 DEF RecordClaim, Taken
    <3>6. \A u \in Tasks : task[u].rid = q /\ Late(u) => task'[u].rid = q /\ Late(u)'
      BY <1>2, <3>2 DEF Late
    <3> QED  BY <1>2, <2>1, <3>1, <3>3, <3>5, <3>6 DEF RecordClaim, Stored
  <2> QED  BY <2>2, <2>3
<1>5. ASSUME NEW u \in Tasks \ {t}, ~(Owns(u) /\ task[u].rid = r) PROVE OwnerPart(u)'
  <2>1. OwnerPart(u) /\ task'[u] = task[u] /\ (Owns(u)' <=> Owns(u)) /\ BodyOf(u)' = BodyOf(u)
    BY <1>2 DEF RequestInv, Owns, BodyOf
  <2>2. CASE ~Owns(u)
    <3>1. task[u].pc = "insert" => task[u].rid \in Rids
      BY DEF TypeInv, TaskShape
    <3> QED  BY <2>1, <2>2, <3>1 DEF OwnerPart, Owns
  <2>3. CASE Owns(u)
    <3>1. PICK q \in Rids : q = task[u].rid
      BY <2>3 DEF Owns, TypeInv, TaskShape
    <3>2. q # r /\ reqs'[q] = reqs[q] /\ runs'[q] = runs[q] /\ q # NoRid
      BY <1>5, <2>3, <3>1, SentinelAssumption DEF SentinelAssumption
    <3>3. \A i \in OpIds : RecordRid(ops'[i]) = q => RecordRid(ops[i]) = q
      BY <3>2
    <3>4. \A i \in OpIds : Committed(i, q)' => Committed(i, q) /\ Stored(i)' = Stored(i)
      BY <3>2 DEF Committed, Stored, RecordRid, IsCommitted
    <3>5. \A a \in told' : a[1] = q => a \in told
      BY <3>2
    <3> QED  BY <1>1, <2>1, <3>1, <3>2, <3>3, <3>4, <3>5 DEF OwnerPart
  <2> QED  BY <2>2, <2>3
<1>6. RecovPart'
  BY <1>2 DEF RequestInv, RecovPart
<1> QED  BY <1>3, <1>4, <1>5, <1>6 DEF RequestInv

(* A step that writes nothing about requests or records.                    *)
LEMMA QuietRequests ==
  ASSUME TypeInv, StoreInv, RequestInv, NEW t \in Tasks, Moves(t), ~Late(t),
         UNCHANGED <<ops, reqs, mreqs, runs, told, stuck, recov, body>>, OwnerPart(t)'
  PROVE  RequestInv'
<1>1. \A q, ans : Backed(q, ans) => Backed(q, ans)'
  BY BackedKept
<1>2. \A r \in Rids : ClaimPart(r)'
  <2> TAKE r \in Rids
  <2>1. ClaimPart(r) /\ srv' = srv
    BY DEF RequestInv, Moves
  <2> QED  BY <1>1, <2>1 DEF ClaimPart, EntryPart, Taken
<1>3. \A i \in OpIds : RecordClaim(i)'
  <2> TAKE i \in OpIds
  <2>1. RecordClaim(i) /\ srv' = srv
    BY DEF RequestInv, Moves
  <2>2. \A u \in Tasks : Late(u) => Late(u)' /\ task'[u].rid = task[u].rid
    BY DEF Late, Moves
  <2> QED  BY <2>1, <2>2 DEF RecordClaim, Taken, Stored
<1>4. \A u \in Tasks \ {t} : OwnerPart(u)'
  <2> TAKE u \in Tasks \ {t}
  <2>1. OwnerPart(u) /\ task'[u] = task[u] /\ (Owns(u)' <=> Owns(u)) /\ BodyOf(u)' = BodyOf(u)
    BY DEF RequestInv, Owns, BodyOf, Moves
  <2>2. \A i \in OpIds : /\ \A q : Committed(i, q)' <=> Committed(i, q)
                         /\ Stored(i)' = Stored(i)
    BY DEF Committed, Stored
  <2> QED  BY <1>1, <2>1, <2>2 DEF OwnerPart
<1>5. RecovPart'
  BY DEF RequestInv, RecovPart, Moves, Committed, Stored
<1> QED  BY <1>2, <1>3, <1>4, <1>5 DEF RequestInv

(* A task that has not started to write ends with an error.                 *)
LEMMA ErrorRequests ==
  ASSUME TypeInv, StoreInv, RequestInv, NEW t \in Tasks, srv = "up", srv' = srv,
         task[t].pc \in {"begin", "read"}, NEW ans \in Answers, FinishWith(t, ans),
         Backed(task[t].rid, ans),
         UNCHANGED <<ops, reqs, mreqs, runs, told, stuck, recov, body>>
  PROVE  RequestInv'
<1>1. /\ Moves(t) /\ task'[t].pc = "remember" /\ task'[t].rid = task[t].rid
      /\ task'[t].ans = ans /\ task'[t].say = ans
  BY FinishTask
<1>2. \A q, a : Backed(q, a) => Backed(q, a)'
  BY BackedKept
<1>3. BodyOf(t)' = BodyOf(t) /\ OwnerPart(t) /\ task[t].rid \in Rids
  BY <1>1 DEF BodyOf, RequestInv, TypeInv, TaskShape
<1>4. \A i \in OpIds : ~Committed(i, task[t].rid)'
  <2>1. \A i \in OpIds : RecordRid(ops[i]) # task[t].rid
    BY <1>3 DEF OwnerPart
  <2> QED  BY <1>1, <2>1 DEF Committed, RecordRid, IsCommitted
<1>5. PICK rid : rid = task[t].rid
  OBVIOUS
<1>6. OwnerPart(t)'
  BY <1>1, <1>2, <1>3, <1>4, <1>5 DEF OwnerPart, Owns
<1> QED  BY <1>1, <1>6, QuietRequests DEF Late

(* An error needs no record behind it.                                      *)
LEMMA ErrBacked == \A r, code : Backed(r, Err(code))
<1>1. \A code : Err(code).st = "error" /\ Err(code).op = 0
  BY DEF Err, NoAnswer
<1> QED  BY <1>1 DEF Backed

(* Handlers that end without a mutation.                                    *)
LEMMA RejectRequests ==
  ASSUME NeverPrunes, TypeInv, Unpruned, StoreInv, RequestInv, NEW t \in Tasks,
         ReadOnly(t) \/ FsReadReject(t) \/ GcBegin(t)
  PROVE  RequestInv'
<1> USE DEF At, disk, tables, ghosts
<1>1. srv = "up" /\ srv' = srv /\ task[t].pc \in {"begin", "read"} /\ task[t].rid \in Rids
  BY DEF TypeInv, TaskShape, ReadOnly, FsReadReject, GcBegin
<1>2. CASE GcBegin(t)
  <2>1. BodyOf(t).keep = NoLimit /\ HistoryLimit = NoLimit
    BY <1>1, <1>2 DEF NeverPrunes, Unpruned, BodyOf, GcBegin, Kind
  <2>2. /\ FinishWith(t, Err("InvalidRequest"))
        /\ UNCHANGED <<ops, reqs, mreqs, runs, told, stuck, recov, body>>
    BY <1>2, <2>1 DEF GcBegin
  <2>3. Err("InvalidRequest") \in Answers
    BY ErrTypes DEF Codes
  <2> QED  BY <1>1, <2>2, <2>3, ErrorRequests, ErrBacked
<1>3. CASE FsReadReject(t)
  <2>1. SecondLookError(t, SecondLook(t)) \in Codes
    BY DEF SecondLookError, Codes
  <2>2. /\ FinishWith(t, Err(SecondLookError(t, SecondLook(t))))
        /\ UNCHANGED <<ops, reqs, mreqs, runs, told, stuck, recov, body>>
    BY <1>3 DEF FsReadReject
  <2> QED  BY <1>1, <2>1, <2>2, ErrTypes, ErrorRequests, ErrBacked
<1>4. CASE ReadOnly(t)
  <2>1. UNCHANGED <<ops, reqs, mreqs, runs, told, stuck, recov, body>>
    BY <1>4 DEF ReadOnly
  <2>2. PICK ans \in Answers : FinishWith(t, ans) /\ Backed(task[t].rid, ans)
    <3> DEFINE f == file[BodyOf(t).path]
    <3>1. BodyOf(t) \in Bodies /\ BodyOf(t).kind = "read"
      BY <1>1, <1>4 DEF ReadOnly, BodyOf, Kind, TypeInv, TypeOK
    <3>2. CASE f = Unresolvable
      BY <1>4, <3>2, ErrTypes, ErrBacked DEF ReadOnly, Codes
    <3>3. CASE f # Unresolvable /\ f = Absent
      BY <1>4, <3>3, ErrTypes, ErrBacked DEF ReadOnly, Codes
    <3>4. CASE f # Unresolvable /\ f # Absent
      <4>1. f \in State /\ Absent \in State /\ 0 \in 0..MaxOps
        BY <3>1, <3>4, MaxOpsAssumption
           DEF MaxOpsAssumption, TypeInv, TypeOK, Bodies, State
      <4>2. Done(0, Absent, f).st = "done" /\ Done(0, Absent, f).op = 0
        BY DEF Done
      <4>3. Backed(task[t].rid, Done(0, Absent, f))
        BY <3>1, <4>2 DEF Backed, BodyOf
      <4>4. FinishWith(t, Done(0, Absent, f))
        BY <1>4, <3>4 DEF ReadOnly
      <4> QED  BY <4>1, <4>3, <4>4, AnswerTypes
    <3> QED  BY <3>2, <3>3, <3>4
  <2> QED  BY <1>1, <2>1, <2>2, ErrorRequests
<1> QED  BY <1>2, <1>3, <1>4

(* A mutation on its way: the log and the tables are as before.             *)
LEMMA OnItsWay ==
  ASSUME TypeInv, StoreInv, RequestInv, NEW t \in Tasks, Moves(t),
         task'[t].rid = task[t].rid,
         \/ task[t].pc \in {"begin", "read"} /\ task'[t].pc \in {"read", "prepare"}
         \/ task[t].pc = "install" /\ task'[t].pc = "commit",
         UNCHANGED <<ops, reqs, mreqs, runs, told, stuck, recov, body>>
  PROVE  RequestInv'
<1>1. OwnerPart(t) /\ BodyOf(t)' = BodyOf(t) /\ Owns(t)
  BY DEF RequestInv, BodyOf, Owns
<1>2. OwnerPart(t)'
  BY <1>1 DEF OwnerPart, Owns
<1> QED  BY <1>2, QuietRequests DEF Late

(* The first look ends in an error, or goes on to the second.               *)
LEMMA FirstLook ==
  ASSUME TypeInv, NEW t \in Tasks, FsCheck(t)
  PROVE  (\E code \in Codes : FinishWith(t, Err(code))) \/ task'[t].pc = "read"
<1> DEFINE b == BodyOf(t)
           target == mops[b.target]
           path == IF b.kind = "undo" THEN target.path ELSE b.path
           f == IF path \in Paths THEN file[path] ELSE Absent
           error == CASE b.kind = "create" -> CreateError(f)
                      [] b.kind = "edit"   -> EditError(b, f)
                      [] b.kind = "delete" -> DeleteError(f)
                      [] OTHER             -> UndoError(target, f, blobs[b.target])
           old == IF b.kind \in {"edit", "undo"} THEN f ELSE Absent
           blob == IF b.kind = "delete" THEN f ELSE Absent
           new == CASE b.kind = "create" -> b.new
                    [] b.kind = "undo" /\ target.old # Absent -> blobs[b.target]
                    [] OTHER -> Absent
           next == [task[t] EXCEPT !.pc = "read", !.path = path, !.old = old,
                                   !.blob = blob, !.new = new]
<1>1. error \in Codes
  <2>1. CreateError(f) \in Codes /\ EditError(b, f) \in Codes
    BY DEF Codes, CreateError, EditError
  <2>2. DeleteError(f) \in Codes /\ UndoError(target, f, blobs[b.target]) \in Codes
    BY DEF Codes, DeleteError, UndoError
  <2> HIDE DEF f, target, b
  <2> QED  BY <2>1, <2>2
<1>2. FinishWith(t, Err(error)) \/ task' = [task EXCEPT ![t] = next]
  BY DEF FsCheck
<1> HIDE DEF error, path, old, blob, new
<1>3. next.pc = "read"
  BY DEF TypeInv, TypeOK, TaskStates
<1> HIDE DEF next
<1>4. task' = [task EXCEPT ![t] = next] => task'[t].pc = "read"
  BY <1>3 DEF TypeInv, TypeOK
<1> QED  BY <1>1, <1>2, <1>4

(* The first look, the blob and the install.                                *)
LEMMA MutationRequests ==
  ASSUME TypeInv, StoreInv, RequestInv, NEW t \in Tasks,
         FsCheck(t) \/ FsBlob(t) \/ FsInstall(t)
  PROVE  RequestInv'
<1> USE DEF At, disk, tables, ghosts
<1>1. CASE FsCheck(t)
  <2>1. /\ srv = "up" /\ srv' = srv /\ task[t].pc = "begin"
        /\ UNCHANGED <<ops, reqs, mreqs, runs, told, stuck, recov, body>>
    BY <1>1 DEF FsCheck
  <2>2. Quiet(t)
    BY <1>1, QuietFsCheck
  <2>3. (\E code \in Codes : FinishWith(t, Err(code))) \/ task'[t].pc = "read"
    BY <1>1, FirstLook
  <2>4. CASE \E code \in Codes : FinishWith(t, Err(code))
    BY <2>1, <2>4, ErrTypes, ErrorRequests, ErrBacked
  <2>5. CASE task'[t].pc = "read"
    BY <2>1, <2>2, <2>5, OnItsWay DEF Quiet, Unclaimed
  <2> QED  BY <2>3, <2>4, <2>5
<1>2. CASE FsBlob(t)
  <2>1. TakesId(t)
    BY <1>2, TakesIdSteps
  <2>2. task[t].pc = "read" /\ UNCHANGED <<ops, reqs, mreqs, runs, told, stuck, recov, body>>
    BY <1>2 DEF FsBlob
  <2>3. task'[t].pc = "prepare"
    <3>1. \E op, old, new, blob :
             task' = [task EXCEPT ![t] = [@ EXCEPT !.pc = "prepare", !.op = op,
                                             !.old = old, !.new = new, !.blob = blob]]
      BY <1>2 DEF FsBlob
    <3> QED  BY <3>1 DEF TypeInv, TypeOK, TaskStates
  <2> QED  BY <2>1, <2>2, <2>3, OnItsWay DEF TakesId
<1>3. CASE FsInstall(t)
  <2>1. /\ srv = "up" /\ srv' = srv /\ task[t].pc = "install"
        /\ task' = [task EXCEPT ![t].pc = "commit"]
        /\ UNCHANGED <<ops, reqs, mreqs, runs, told, stuck, recov, body>>
    BY <1>3 DEF FsInstall
  <2>2. Moves(t) /\ task'[t].pc = "commit" /\ task'[t].rid = task[t].rid
    BY <2>1 DEF Moves, TypeInv, TypeOK, TaskStates
  <2> QED  BY <2>1, <2>2, OnItsWay
<1> QED  BY <1>1, <1>2, <1>3

(* What a stored entry replays is backed if the entry is.                   *)
LEMMA ReplayBacked ==
  ASSUME NEW r, NEW e, Backed(r, e.ans)
  PROVE  Backed(r, Replay(e)) /\ (e.ans.st = "none" => Replay(e).st = "error")
<1>1. Backed(r, Err("InProgress")) /\ Err("InProgress").st = "error"
  BY ErrBacked DEF Err, NoAnswer
<1> QED  BY <1>1 DEF Replay

(* A duplicate that is answered from the table: the owner is not disturbed. *)
LEMMA ReplayRequests ==
  ASSUME TypeInv, StoreInv, SingleOwner, RequestInv, NEW t \in Tasks, NEW r \in Rids,
         Moves(t), task[t].pc \in {"idle", "insert"}, task'[t].pc = "idle",
         told' = told \cup {<<r, Replay(mreqs[r])>>},
         UNCHANGED <<ops, reqs, mreqs, runs, stuck, recov, body>>
  PROVE  RequestInv'
<1>1. PICK ans : ans = Replay(mreqs[r])
  OBVIOUS
<1>2. ClaimPart(r) /\ Backed(r, ans) /\ (mreqs[r].ans.st = "none" => ans.st = "error")
  BY <1>1, ReplayBacked DEF RequestInv, ClaimPart, EntryPart
<1>3. \A q, a : Backed(q, a) => Backed(q, a)'
  BY BackedKept
<1>4. srv' = srv /\ told' = told \cup {<<r, ans>>}
  BY <1>1 DEF Moves
<1>5. ClaimPart(r)'
  BY <1>2, <1>3, <1>4 DEF ClaimPart, EntryPart, Taken
<1>6. OwnerPart(t)'
  BY DEF OwnerPart, Owns
<1>7. \A u \in Tasks \ {t} : Owns(u) /\ task[u].rid = r => OwnerPart(u)'
  <2> TAKE u \in Tasks \ {t}
  <2> SUFFICES ASSUME Owns(u), task[u].rid = r PROVE OwnerPart(u)'
    OBVIOUS
  <2>1. OwnerPart(u) /\ task'[u] = task[u] /\ (Owns(u)' <=> Owns(u)) /\ BodyOf(u)' = BodyOf(u)
    BY DEF RequestInv, Owns, BodyOf, Moves
  <2>2. ans.st = "error"
    BY <1>2 DEF SingleOwner, ClaimPart, EntryPart
  <2>3. \A i \in OpIds : /\ \A q : Committed(i, q)' <=> Committed(i, q)
                         /\ Stored(i)' = Stored(i)
    BY DEF Committed, Stored
  <2>4. \A a \in told' : a \in told \/ a[2].st = "error"
    BY <1>4, <2>2
  <2> QED  BY <1>3, <2>1, <2>3, <2>4 DEF OwnerPart
<1>8. \A i \in OpIds : RecordClaim(i)'
  <2> TAKE i \in OpIds
  <2>1. RecordClaim(i) /\ srv' = srv
    BY DEF RequestInv, Moves
  <2>2. \A u \in Tasks : Late(u) => Late(u)' /\ task'[u].rid = task[u].rid
    BY DEF Late, Moves
  <2> QED  BY <2>1, <2>2 DEF RecordClaim, Taken, Stored
<1>9. \A a \in told' : a \in told \/ a[1] = r
  BY <1>4
<1> QED  BY <1>5, <1>6, <1>7, <1>8, <1>9, RequestFrame DEF Late

(* The steps of a claim, up to the second lookup.                           *)
LEMMA ClaimRequests ==
  ASSUME TypeInv, StoreInv, SingleOwner, RequestInv, NEW t \in Tasks,
         \/ \E r \in Rids : ReceiveSeen(t, r) \/ ReceiveNew(t, r)
         \/ ClaimAppend(t) \/ ClaimLost(t)
  PROVE  RequestInv'
<1> USE DEF At, disk, tables, ghosts
<1>0. Quiet(t) /\ Moves(t)
  BY QuietClaims DEF Quiet
<1>1. ASSUME NEW r \in Rids, ReceiveSeen(t, r) PROVE RequestInv'
  <2>1. /\ task[t].pc = "idle" /\ told' = told \cup {<<r, Replay(mreqs[r])>>} /\ task' = task
        /\ UNCHANGED <<ops, reqs, mreqs, runs, stuck, recov, body>>
    BY <1>1 DEF ReceiveSeen
  <2> QED  BY <1>0, <2>1, ReplayRequests
<1>2. ASSUME NEW r \in Rids, ReceiveNew(t, r) PROVE RequestInv'
  <2>1. /\ task[t].pc = "idle" /\ UNCHANGED <<ops, reqs, mreqs, runs, told, stuck, recov, body>>
        /\ task' = [task EXCEPT ![t] = [@ EXCEPT !.pc = "claim", !.rid = r]]
    BY <1>2 DEF ReceiveNew
  <2>2. task'[t].pc = "claim"
    BY <2>1 DEF TypeInv, TypeOK, TaskStates
  <2>3. OwnerPart(t)'
    BY <2>2 DEF OwnerPart, Owns
  <2> QED  BY <1>0, <2>1, <2>3, QuietRequests DEF Late
<1>3. CASE ClaimLost(t)
  <2>1. PICK r : r = task[t].rid
    OBVIOUS
  <2>2. /\ task[t].pc = "insert" /\ told' = told \cup {<<r, Replay(mreqs[r])>>} /\ r \in Rids
        /\ task' = [task EXCEPT ![t] = IdleTask] /\ srv = "up" /\ srv' = srv
        /\ UNCHANGED <<ops, reqs, mreqs, runs, stuck, recov, body>>
    BY <1>3, <2>1 DEF ClaimLost, TypeInv, TaskShape
  <2>3. task'[t].pc = "idle"
    BY <2>2, IdleMoves
  <2> QED  BY <1>0, <2>2, <2>3, ReplayRequests
<1>4. CASE ClaimAppend(t)
  <2>1. PICK r, e : r = task[t].rid /\ e = InProgress(body[r].kind)
    OBVIOUS
  <2>2. /\ task[t].pc = "claim" /\ r \in Rids /\ reqs' = [reqs EXCEPT ![r] = e]
        /\ task' = [task EXCEPT ![t].pc = "insert"] /\ srv = "up"
        /\ UNCHANGED <<ops, mreqs, runs, told, stuck, recov, body>>
    BY <1>4, <2>1 DEF ClaimAppend, BodyOf, TypeInv, TaskShape
  <2>3. e.status = "inprogress" /\ e.kind = body[r].kind /\ e.ans = NoAnswer
        /\ NoAnswer.st = "none"
    BY <2>1 DEF InProgress, NoEntry, NoAnswer
  <2>4. reqs'[r] = e /\ \A q \in Rids \ {r} : reqs'[q] = reqs[q]
    BY <2>2 DEF TypeInv, TypeOK
  <2>5. task'[t].pc = "insert" /\ task'[t].rid = r
    BY <2>1, <2>2 DEF TypeInv, TypeOK, TaskStates
  <2>6. \A q, a : Backed(q, a) => Backed(q, a)'
    BY <2>2, BackedKept
  <2>7. ClaimPart(r)'
    <3>1. Backed(r, e.ans)
      BY <2>3 DEF Backed
    <3>2. ClaimPart(r) /\ srv' = srv
      BY <1>0, <2>2 DEF RequestInv, Moves
    <3> QED  BY <2>2, <2>3, <2>4, <2>6, <3>1, <3>2 DEF ClaimPart, EntryPart, Taken
  <2>8. OwnerPart(t)'
    BY <2>3, <2>4, <2>5 DEF OwnerPart, Owns
  <2>9. \A u \in Tasks \ {t} : Owns(u) /\ task[u].rid = r => OwnerPart(u)'
    <3> TAKE u \in Tasks \ {t}
    <3> SUFFICES ASSUME Owns(u), task[u].rid = r PROVE OwnerPart(u)'
      OBVIOUS
    <3>1. OwnerPart(u) /\ task'[u] = task[u] /\ (Owns(u)' <=> Owns(u)) /\ BodyOf(u)' = BodyOf(u)
      BY <1>0, <2>2 DEF RequestInv, Owns, BodyOf, Moves
    <3>2. \A i \in OpIds : /\ \A q : Committed(i, q)' <=> Committed(i, q)
                           /\ Stored(i)' = Stored(i)
      BY <2>2 DEF Committed, Stored
    <3> QED  BY <2>2, <2>3, <2>4, <2>6, <3>1, <3>2 DEF OwnerPart
  <2>10. \A i \in OpIds : RecordRid(ops'[i]) = r => RecordClaim(i)'
    <3> TAKE i \in OpIds
    <3> SUFFICES ASSUME RecordRid(ops[i]) = r PROVE RecordClaim(i)'
      BY <2>2
    <3>1. RecordClaim(i) /\ srv' = srv /\ ops[i].rid = r
      BY <1>0, <2>2, SentinelAssumption DEF SentinelAssumption, RequestInv, Moves, RecordRid
    <3>2. \A u \in Tasks : Late(u) => Late(u)' /\ task'[u].rid = task[u].rid
      BY <1>0, <2>2 DEF Late, Moves
    <3> QED  BY <2>2, <2>3, <2>4, <3>1, <3>2 DEF RecordClaim, Taken, Stored
  <2>11. reqs'[r].status # "none"
    BY <2>3, <2>4
  <2> QED  BY <1>0, <2>2, <2>4, <2>7, <2>8, <2>9, <2>10, <2>11, RequestFrame DEF Late
<1> QED  BY <1>1, <1>2, <1>3, <1>4

(* Nobody else owns what an owner owns.                                     *)
LEMMA SoleOwner ==
  ASSUME SingleOwner, NEW t \in Tasks, Owns(t)
  PROVE  /\ \A u \in Tasks \ {t} : Owns(u) => task[u].rid # task[t].rid
         /\ mreqs[task[t].rid].status = "inprogress"
  BY DEF SingleOwner

(* A record makes its request taken.                                        *)
LEMMA RecordTakes ==
  ASSUME RequestInv, NEW r \in Rids, NEW i \in OpIds, RecordRid(ops[i]) = r
  PROVE  Taken(r) /\ \A j \in OpIds : RecordRid(ops[j]) = r => j = i
<1>1. r # NoRid /\ ops[i].rid = r
  BY SentinelAssumption DEF SentinelAssumption, RecordRid
<1> QED  BY <1>1 DEF RequestInv, RecordClaim

(* The second lookup finds nothing: the request has left no trace.          *)
LEMMA ClaimWonRequests ==
  ASSUME TypeInv, StoreInv, SingleOwner, RequestInv, NEW t \in Tasks, ClaimWon(t)
  PROVE  RequestInv'
<1> USE DEF At, disk, tables, ghosts
<1>0. PICK r, e : r = task[t].rid /\ e = InProgress(body[r].kind)
  OBVIOUS
<1>1. /\ srv = "up" /\ task[t].pc = "insert" /\ mreqs[r].status = "none"
      /\ mreqs' = [mreqs EXCEPT ![r] = e] /\ task' = [task EXCEPT ![t].pc = "begin"]
      /\ UNCHANGED <<ops, reqs, runs, told, stuck, recov, body>> /\ r \in Rids
  BY <1>0 DEF ClaimWon, BodyOf, TypeInv, TaskShape
<1>2. Moves(t) /\ srv' = srv
  BY QuietClaims DEF Quiet, Moves
<1>3. e.status = "inprogress" /\ e.kind = body[r].kind /\ e.ans = NoAnswer /\ NoAnswer.st = "none"
  BY <1>0 DEF InProgress, NoEntry, NoAnswer
<1>4. mreqs'[r] = e /\ \A q \in Rids \ {r} : mreqs'[q] = mreqs[q]
  BY <1>1 DEF TypeInv, TypeOK
<1>5. task'[t].pc = "begin" /\ task'[t].rid = r /\ BodyOf(t)' = body[r]
  BY <1>0, <1>1 DEF TypeInv, TypeOK, TaskStates, BodyOf
<1>6. \A q, a : Backed(q, a) => Backed(q, a)'
  BY <1>1, BackedKept
<1>7. ClaimPart(r) /\ reqs[r].status = "inprogress"
  BY <1>0, <1>1 DEF RequestInv, ClaimPart, OwnerPart
<1>8. \A i \in OpIds : RecordRid(ops[i]) # r
  BY <1>1, RecordTakes DEF Taken
<1>9. runs[r] = 0
  BY <1>1, <1>7 DEF ClaimPart, Taken
<1>10. body[r].kind # "read" => \A a \in told : a[1] = r => a[2].st # "done"
  <2>1. \A i \in OpIds : ~Committed(i, r)
    BY <1>8 DEF Committed, RecordRid, IsCommitted
  <2> QED  BY <1>7, <2>1 DEF ClaimPart, Backed
<1>11. ClaimPart(r)'
  <2>1. Backed(r, e.ans)
    BY <1>3 DEF Backed
  <2> QED  BY <1>1, <1>2, <1>3, <1>4, <1>6, <1>7, <2>1 DEF ClaimPart, EntryPart, Taken
<1>12. OwnerPart(t)'
  BY <1>1, <1>5, <1>7, <1>8, <1>9, <1>10 DEF OwnerPart, Owns
<1>13. \A u \in Tasks \ {t} : Owns(u) => task[u].rid # r
  BY <1>1 DEF SingleOwner
<1> QED  BY <1>1, <1>2, <1>4, <1>8, <1>11, <1>12, <1>13, RequestFrame DEF Late

(* While the server serves, a request with a marker has an owner before its  *)
(* commit.                                                                  *)
LEMMA MarkerHasOwner ==
  ASSUME TypeInv, StoreInv, srv = "up", NEW i \in OpIds, ops[i].st = "prepared"
  PROVE  \E u \in Tasks : task[u].rid = ops[i].rid /\ task[u].pc \in {"install", "commit"}
<1>1. PICK u \in Tasks : task[u].op = i /\ task[u].pc \in {"install", "commit"}
  BY MarkerOwned
<1>2. ops[i] = FsRecord(u, "prepared", ops[i].ts)
  BY <1>1 DEF StoreInv, WritePart
<1>3. ops[i].rid = task[u].rid
  BY <1>2 DEF FsRecord
<1> QED  BY <1>1, <1>3

(* finish(): the outcome goes to the log...                                 *)
LEMMA RememberAppendRequests ==
  ASSUME TypeInv, StoreInv, SingleOwner, RequestInv, NEW t \in Tasks, RememberAppend(t)
  PROVE  RequestInv'
<1> USE DEF At, disk, tables, ghosts
<1>0. PICK r, ans : r = task[t].rid /\ ans = task[t].ans
  OBVIOUS
<1>1. /\ srv = "up" /\ task[t].pc = "remember"
      /\ reqs' = [reqs EXCEPT ![r] = Terminal(ans.st, ans)]
      /\ task' = [task EXCEPT ![t].pc = "stored"]
      /\ UNCHANGED <<ops, mreqs, runs, told, stuck, recov, body>>
      /\ r \in Rids /\ ans.st \in {"done", "error"}
  BY <1>0 DEF RememberAppend, TypeInv, TaskShape
<1>2. Moves(t) /\ srv' = srv
  BY QuietClaims DEF Quiet, Moves
<1>3. /\ reqs'[r].status = ans.st /\ reqs'[r].ans = ans
      /\ \A q \in Rids \ {r} : reqs'[q] = reqs[q]
  BY <1>1 DEF TypeInv, TypeOK, Terminal, NoEntry
<1>4. /\ task'[t].pc = "stored" /\ task'[t].rid = r /\ BodyOf(t)' = BodyOf(t)
      /\ task'[t].ans = ans /\ task'[t].say = task[t].say
  BY <1>0, <1>1 DEF TypeInv, TypeOK, TaskStates, BodyOf
<1>5. \A q, a : Backed(q, a) => Backed(q, a)'
  BY <1>1, BackedKept
<1>6. ClaimPart(r) /\ OwnerPart(t) /\ Owns(t) /\ mreqs[r].status = "inprogress"
      /\ \A u \in Tasks \ {t} : Owns(u) => task[u].rid # r
  BY <1>0, <1>1, SoleOwner DEF RequestInv, Owns
<1>7. /\ Backed(r, ans) /\ task[t].say = ans
      /\ \A i \in OpIds : Committed(i, r) => ans = Stored(i)
  BY <1>0, <1>1, <1>6 DEF OwnerPart
<1>8. stuck = {}
  BY <1>1 DEF RequestInv, RecovPart
<1>9. ClaimPart(r)'
  BY <1>1, <1>2, <1>3, <1>5, <1>6, <1>7, <1>8 DEF ClaimPart, EntryPart, Taken
<1>10. \A i \in OpIds : /\ \A q : Committed(i, q)' <=> Committed(i, q)
                        /\ Stored(i)' = Stored(i)
  BY <1>1 DEF Committed, Stored
<1>11. OwnerPart(t)'
  BY <1>0, <1>1, <1>3, <1>4, <1>5, <1>6, <1>7, <1>10 DEF OwnerPart, Owns
<1>12. \A i \in OpIds : RecordRid(ops'[i]) = r => RecordClaim(i)'
  <2> TAKE i \in OpIds
  <2> SUFFICES ASSUME RecordRid(ops[i]) = r PROVE RecordClaim(i)'
    BY <1>1
  <2>1. RecordClaim(i) /\ ops[i].rid = r
    BY <1>1, SentinelAssumption DEF SentinelAssumption, RequestInv, RecordRid
  <2>2. ops[i].st # "prepared"
    BY <1>1, <1>6, <2>1, MarkerHasOwner DEF Owns
  <2>3. IsCommitted(ops[i]) => ans = Stored(i)
    BY <1>7, <2>1 DEF Committed
  <2>4. task'[t].rid = r /\ Late(t)'
    BY <1>4 DEF Late
  <2> QED  BY <1>1, <1>2, <1>3, <1>10, <2>1, <2>2, <2>3, <2>4 DEF RecordClaim, Taken
<1>13. reqs'[r].status # "none"
  BY <1>1, <1>3
<1> QED  BY <1>0, <1>1, <1>2, <1>3, <1>6, <1>9, <1>11, <1>12, <1>13, RequestFrame

(* ...and then to the table and the client.                                 *)
LEMMA RememberInsertRequests ==
  ASSUME TypeInv, StoreInv, SingleOwner, RequestInv, NEW t \in Tasks, RememberInsert(t)
  PROVE  RequestInv'
<1> USE DEF At, disk, tables, ghosts
<1>0. PICK r, ans : r = task[t].rid /\ ans = task[t].ans
  OBVIOUS
<1>1. /\ srv = "up" /\ task[t].pc = "stored"
      /\ mreqs' = [mreqs EXCEPT ![r] = Terminal(ans.st, ans)]
      /\ told' = told \cup {<<r, task[t].say>>}
      /\ task' = [task EXCEPT ![t] = IdleTask]
      /\ UNCHANGED <<ops, reqs, runs, stuck, recov, body>>
      /\ r \in Rids /\ ans.st \in {"done", "error"}
  BY <1>0 DEF RememberInsert, TypeInv, TaskShape
<1>2. Moves(t) /\ srv' = srv
  BY QuietClaims DEF Quiet, Moves
<1>3. /\ mreqs'[r].status = ans.st /\ mreqs'[r].ans = ans
      /\ \A q \in Rids \ {r} : mreqs'[q] = mreqs[q]
  BY <1>1 DEF TypeInv, TypeOK, Terminal, NoEntry
<1>4. task'[t].pc = "idle"
  BY <1>1, <1>2, IdleMoves
<1>5. \A q, a : Backed(q, a) => Backed(q, a)'
  BY <1>1, BackedKept
<1>6. ClaimPart(r) /\ OwnerPart(t) /\ Owns(t) /\ mreqs[r].status = "inprogress"
      /\ \A u \in Tasks \ {t} : Owns(u) => task[u].rid # r
  BY <1>0, <1>1, SoleOwner DEF RequestInv, Owns
<1>7. /\ Backed(r, ans) /\ task[t].say = ans /\ reqs[r].status # "none"
      /\ \A i \in OpIds : Committed(i, r) => ans = Stored(i)
  BY <1>0, <1>1, <1>6 DEF OwnerPart
<1>8. stuck = {} /\ told' = told \cup {<<r, ans>>}
  BY <1>1, <1>7 DEF RequestInv, RecovPart
<1>9. ClaimPart(r)'
  BY <1>1, <1>2, <1>3, <1>5, <1>6, <1>7, <1>8 DEF ClaimPart, EntryPart, Taken
<1>10. OwnerPart(t)'
  BY <1>4 DEF OwnerPart, Owns
<1>11. \A i \in OpIds : RecordRid(ops'[i]) = r => RecordClaim(i)'
  <2> TAKE i \in OpIds
  <2> SUFFICES ASSUME RecordRid(ops[i]) = r PROVE RecordClaim(i)'
    BY <1>1
  <2>1. RecordClaim(i) /\ ops[i].rid = r
    BY <1>1, SentinelAssumption DEF SentinelAssumption, RequestInv, RecordRid
  <2>2. IsCommitted(ops[i]) => ans = Stored(i)
    BY <1>7, <2>1 DEF Committed
  <2>3. Stored(i)' = Stored(i)
    BY <1>1 DEF Stored
  <2> QED  BY <1>1, <1>2, <1>3, <1>7, <2>1, <2>2, <2>3 DEF RecordClaim, Taken
<1>12. \A a \in told' : a \in told \/ a[1] = r
  BY <1>8
<1> QED  BY <1>0, <1>1, <1>2, <1>3, <1>6, <1>9, <1>10, <1>11, <1>12, RequestFrame

(* A command starts once: its request has not started one before.           *)
LEMMA ExecStartRequests ==
  ASSUME TypeInv, StoreInv, SingleOwner, RequestInv, NEW t \in Tasks,
         ExecStart(t, TRUE) \/ ExecStart(t, FALSE)
  PROVE  RequestInv'
<1> USE DEF At, disk, tables, ghosts
<1>0. PICK r, k : r = task[t].rid /\ k = nextId + 1
  OBVIOUS
<1>1. TakesId(t)
  BY TakesIdSteps
<1>2. /\ srv = "up" /\ task[t].pc = "begin" /\ BodyOf(t).kind = "exec"
      /\ UNCHANGED <<ops, reqs, mreqs, told, stuck, recov, body>> /\ r \in Rids
      /\ runs' = [runs EXCEPT ![r] = @ + 1] \/ runs' = runs
  BY <1>0 DEF ExecStart, Kind, TypeInv, TaskShape
<1>3. PICK ans \in {Done(k, Absent, Absent), Err("ExecFailed")} :
         task' = [task EXCEPT ![t] = [@ EXCEPT !.pc = "exec_append", !.op = k, !.ans = ans,
                                               !.say = ans]]
  BY <1>0 DEF ExecStart
<1>4. /\ task'[t].pc = "exec_append" /\ task'[t].op = k /\ task'[t].ans = ans
      /\ task'[t].say = ans /\ task'[t].rid = r /\ Moves(t) /\ srv' = srv
  <2> DEFINE next == [task[t] EXCEPT !.pc = "exec_append", !.op = k, !.ans = ans, !.say = ans]
  <2>1. next.pc = "exec_append" /\ next.op = k /\ next.ans = ans /\ next.say = ans
    BY DEF TypeInv, TypeOK, TaskStates
  <2> HIDE DEF next
  <2>2. task' = [task EXCEPT ![t] = next]
    BY <1>3 DEF next
  <2>3. task'[t] = next
    BY <2>2 DEF TypeInv, TypeOK
  <2> QED  BY <1>0, <1>1, <2>1, <2>3 DEF TakesId, Moves
<1>5. ClaimPart(r) /\ OwnerPart(t) /\ Owns(t) /\ mreqs[r].status = "inprogress"
      /\ \A u \in Tasks \ {t} : Owns(u) => task[u].rid # r
  BY <1>0, <1>2, SoleOwner DEF RequestInv, Owns
<1>6. runs[r] = 0 /\ reqs[r].status = "inprogress" /\ body[r].kind = "exec"
  BY <1>0, <1>2, <1>5 DEF OwnerPart, BodyOf
<1>7. runs'[r] \in {0, 1} /\ \A q \in Rids \ {r} : runs'[q] = runs[q]
  BY <1>2, <1>6 DEF TypeInv, TypeOK
<1>8. \A q, a : Backed(q, a) => Backed(q, a)'
  BY <1>2, BackedKept
<1>9. ClaimPart(r)'
  BY <1>2, <1>4, <1>5, <1>6, <1>7, <1>8 DEF ClaimPart, EntryPart, Taken
<1>10. BodyOf(t)' = BodyOf(t)
  BY <1>0, <1>2, <1>4 DEF BodyOf
<1>11. OwnerPart(t)'
  BY <1>0, <1>2, <1>3, <1>4, <1>5, <1>10 DEF OwnerPart, Owns
<1>12. \A i \in OpIds : RecordRid(ops'[i]) # r
  BY <1>0, <1>2, <1>5 DEF OwnerPart
<1> QED  BY <1>0, <1>2, <1>4, <1>5, <1>7, <1>9, <1>11, <1>12, RequestFrame DEF Late

(* The first record of a request, a marker or the record of its command.    *)
LEMMA FirstRecord ==
  ASSUME TypeInv, StoreInv, SingleOwner, RequestInv, NEW t \in Tasks, Moves(t),
         NEW r \in Rids, NEW k \in OpIds, NEW rec, r = task[t].rid, ops[k].st = "none",
         ops' = [ops EXCEPT ![k] = rec], rec.rid = r,
         \/ task[t].pc = "prepare" /\ task'[t].pc = "install" /\ rec.st = "prepared"
         \/ /\ task[t].pc = "exec_append" /\ task'[t].pc = "exec_push" /\ rec.st = "exec"
            /\ task'[t].ans = task[t].ans /\ task'[t].say = task[t].say
            /\ task'[t].op = task[t].op,
         task'[t].rid = r, UNCHANGED <<reqs, mreqs, runs, told, stuck, recov, body>>
  PROVE  RequestInv'
<1>1. /\ ops'[k] = rec /\ \A i \in OpIds : i # k => ops'[i] = ops[i]
      /\ RecordRid(rec) = r /\ RecordRid(ops[k]) = NoRid /\ ~IsCommitted(ops[k])
  BY DEF TypeInv, TypeOK, RecordRid, IsCommitted
<1>2. ClaimPart(r) /\ OwnerPart(t) /\ Owns(t) /\ mreqs[r].status = "inprogress"
      /\ \A u \in Tasks \ {t} : Owns(u) => task[u].rid # r
  BY SoleOwner DEF RequestInv, Owns
<1>3. reqs[r].status = "inprogress" /\ \A i \in OpIds : RecordRid(ops[i]) # r
  BY <1>2 DEF OwnerPart
<1>4. \A q, a : Backed(q, a) => Backed(q, a)'
  BY <1>1, BackedKept
<1>5. srv = "up" /\ srv' = srv /\ BodyOf(t)' = BodyOf(t)
  BY DEF Moves, BodyOf
<1>6. ClaimPart(r)'
  BY <1>2, <1>4, <1>5 DEF ClaimPart, EntryPart, Taken
<1>7. OwnerPart(t)'
  BY <1>2, <1>3, <1>5 DEF OwnerPart, Owns
<1>8. \A i \in OpIds : RecordRid(ops'[i]) = r => RecordClaim(i)'
  <2> TAKE i \in OpIds
  <2> SUFFICES ASSUME i = k PROVE RecordClaim(i)'
    BY <1>1, <1>3
  <2>1. Taken(r)' /\ \A j \in OpIds : RecordRid(ops'[j]) = r => j = k
    BY <1>1, <1>2, <1>3 DEF Taken
  <2>2. IsCommitted(rec) => task'[t].rid = r /\ Late(t)'
    BY DEF IsCommitted, Late
  <2> QED  BY <1>1, <1>3, <1>5, <2>1, <2>2 DEF RecordClaim
<1>9. \A i \in OpIds : \/ ops'[i] = ops[i]
                       \/ /\ RecordRid(ops'[i]) = r /\ ~IsCommitted(ops[i])
                          /\ RecordRid(ops[i]) \in {NoRid, r}
  BY <1>1
<1> QED  BY <1>2, <1>6, <1>7, <1>8, <1>9, RequestFrame DEF Late

(* The marker and the record of a command.                                  *)
LEMMA RecordRequests ==
  ASSUME TypeInv, StoreInv, SingleOwner, RequestInv, NEW t \in Tasks, FsPrepare(t) \/ ExecAppend(t)
  PROVE  RequestInv'
<1> USE DEF At, disk, tables, ghosts
<1>0. PICK k, r : k = task[t].op /\ r = task[t].rid
  OBVIOUS
<1>1. /\ srv = "up" /\ srv' = srv /\ task[t].pc \in {"prepare", "exec_append"}
      /\ UNCHANGED <<reqs, mreqs, runs, told, stuck, recov, body>>
  BY DEF FsPrepare, ExecAppend
<1>2. k \in OpIds /\ r \in Rids /\ ops[k].st = "none"
  BY <1>0, <1>1 DEF TypeInv, TaskShape, StoreInv, WritePart
<1>3. CASE FsPrepare(t)
  <2>1. PICK rec : rec = FsRecord(t, "prepared", now)
    OBVIOUS
  <2>2. rec.st = "prepared" /\ rec.rid = r
    BY <1>0, <2>1 DEF FsRecord
  <2>3. /\ task[t].pc = "prepare" /\ ops' = [ops EXCEPT ![k] = rec]
        /\ task' = [task EXCEPT ![t].pc = "install"]
    BY <1>0, <1>3, <2>1 DEF FsPrepare
  <2>4. Moves(t) /\ task'[t].pc = "install" /\ task'[t].rid = r
    BY <1>0, <1>1, <2>3 DEF Moves, TypeInv, TypeOK, TaskStates
  <2> QED  BY <1>0, <1>1, <1>2, <2>2, <2>3, <2>4, FirstRecord
<1>4. CASE ExecAppend(t)
  <2>1. PICK rec : rec = ExecRecord(t, now)
    OBVIOUS
  <2>2. rec.st = "exec" /\ rec.rid = r
    BY <1>0, <2>1 DEF ExecRecord, NoRec
  <2>3. /\ task[t].pc = "exec_append" /\ ops' = [ops EXCEPT ![k] = rec]
        /\ task' = [task EXCEPT ![t] = [@ EXCEPT !.pc = "exec_push", !.ts = now]]
    BY <1>0, <1>4, <2>1 DEF ExecAppend
  <2>4. /\ Moves(t) /\ task'[t].pc = "exec_push" /\ task'[t].rid = r /\ task'[t].op = k
        /\ task'[t].ans = task[t].ans /\ task'[t].say = task[t].say
    BY <1>0, <1>1, <2>3 DEF Moves, TypeInv, TypeOK, TaskStates
  <2> QED  BY <1>0, <1>1, <1>2, <2>2, <2>3, <2>4, FirstRecord
<1> QED  BY <1>3, <1>4

(* The answer of a command is the one its record stands for.                *)
LEMMA ExecPushRequests ==
  ASSUME TypeInv, Plain, StoreInv, SingleOwner, RequestInv, NEW t \in Tasks, ExecPush(t)
  PROVE  RequestInv'
<1> USE DEF At, disk, tables, ghosts
<1>0. PICK k, r, ans, rec : k = task[t].op /\ r = task[t].rid /\ ans = task[t].ans
                            /\ rec = ExecRecord(t, task[t].ts)
  OBVIOUS
<1>1. /\ srv = "up" /\ srv' = srv /\ task[t].pc = "exec_push" /\ r \in Rids /\ k \in OpIds
      /\ UNCHANGED <<ops, reqs, mreqs, runs, told, stuck, recov, body>>
      /\ task' = [task EXCEPT ![t].pc = "remember"]
  BY <1>0 DEF ExecPush, TypeInv, TaskShape
<1>2. /\ Moves(t) /\ task'[t].pc = "remember" /\ task'[t].rid = r /\ task'[t].op = k
      /\ task'[t].ans = ans /\ task'[t].say = task[t].say
  BY <1>0, <1>1 DEF Moves, TypeInv, TypeOK, TaskStates
<1>3. /\ ops[k] = rec /\ BodyOf(t).kind = "exec" /\ OwnerPart(t)
      /\ ans \in {Done(k, Absent, Absent), Err("ExecFailed")} /\ task[t].say = ans
      /\ Owns(t) /\ reqs[r].status = "inprogress"
  BY <1>0, <1>1 DEF Plain, StoreInv, WritePart, RequestInv, OwnerPart, Owns
<1>4. rec.st = "exec" /\ rec.rid = r /\ rec.old = Absent /\ rec.new = Absent
      /\ rec.kind = IF ans.st = "done" THEN "exec" ELSE "rejected"
  BY <1>0 DEF ExecRecord, NoRec
<1>5. Done(k, Absent, Absent).st = "done" /\ Err("ExecFailed").st = "error"
      /\ Err("ExecFailed").op = 0
  BY DEF Done, Err, NoAnswer
<1>6. Stored(k) = ans /\ Committed(k, r)
  BY <1>3, <1>4, <1>5 DEF Stored, Reconstruct, Committed, IsCommitted
<1>7. \A i \in OpIds : Committed(i, r) => i = k
  <2>1. RecordRid(ops[k]) = r
    BY <1>3, <1>4 DEF RecordRid
  <2> QED  BY <1>1, <2>1, RecordTakes DEF Committed, RecordRid, IsCommitted
<1>8. Backed(r, ans)
  BY <1>0, <1>1, <1>3, <1>5, <1>6 DEF Backed, BodyOf
<1>9. \A q, a : Backed(q, a) => Backed(q, a)'
  BY <1>1, BackedKept
<1>10. \A i \in OpIds : /\ \A q : Committed(i, q)' <=> Committed(i, q)
                        /\ Stored(i)' = Stored(i)
  BY <1>1 DEF Committed, Stored
<1>11. BodyOf(t)' = BodyOf(t)
  BY <1>0, <1>1, <1>2 DEF BodyOf
<1>12. OwnerPart(t)'
  BY <1>0, <1>1, <1>2, <1>3, <1>6, <1>7, <1>8, <1>9, <1>10, <1>11 DEF OwnerPart, Owns
<1>13. ClaimPart(r)'
  BY <1>1, <1>9 DEF RequestInv, ClaimPart, EntryPart, Taken
<1>14. \A i \in OpIds : RecordRid(ops'[i]) = r => RecordClaim(i)'
  <2> TAKE i \in OpIds
  <2>1. RecordClaim(i)
    BY DEF RequestInv
  <2>2. \A u \in Tasks : Late(u) => Late(u)' /\ task'[u].rid = task[u].rid
    BY <1>0, <1>2 DEF Late, Moves
  <2> QED  BY <1>1, <1>10, <2>1, <2>2 DEF RecordClaim, Taken
<1>15. \A u \in Tasks \ {t} : Owns(u) => task[u].rid # r
  BY <1>0, <1>3, SoleOwner
<1> QED  BY <1>0, <1>1, <1>2, <1>12, <1>13, <1>14, <1>15, RequestFrame

(* The answer of a mutation is the one its record stands for; for an undo   *)
(* because the target it reports is still the one it looked at.             *)
LEMMA CommitRequests ==
  ASSUME TypeInv, Plain, StoreInv, SingleOwner, RequestInv, NEW t \in Tasks, FsCommit(t)
  PROVE  RequestInv'
<1> USE DEF At, disk, tables, ghosts
<1>0. PICK k, r, ans, rec : k = task[t].op /\ r = task[t].rid /\ ans = FsAnswer(t)
                            /\ rec = FsRecord(t, "fs", now)
  OBVIOUS
<1>1. /\ srv = "up" /\ srv' = srv /\ task[t].pc = "commit" /\ r \in Rids /\ k \in OpIds
      /\ UNCHANGED <<reqs, mreqs, runs, told, stuck, recov, body>> /\ FinishWith(t, ans)
      /\ ops' = [ops EXCEPT ![k] = rec] /\ BodyOf(t).kind \in FsKinds /\ BodyOf(t) \in Bodies
  BY <1>0 DEF FsCommit, TypeInv, TypeOK, TaskShape, BodyOf, FsSteps
<1>2. /\ Moves(t) /\ task'[t].pc = "remember" /\ task'[t].rid = r
      /\ task'[t].ans = ans /\ task'[t].say = ans
  <2>1. ans \in Answers
    BY <1>0, <1>1, CommitAnswer
  <2> QED  BY <1>0, <1>1, <2>1, FinishTask
<1>3. ops'[k] = rec /\ \A i \in OpIds : i # k => ops'[i] = ops[i]
  BY <1>1 DEF TypeInv, TypeOK
<1>4. /\ ops[k].st = "prepared" /\ ops[k].rid = r /\ rec.st = "fs" /\ rec.rid = r
      /\ rec.kind = BodyOf(t).kind /\ rec.old = task[t].old /\ rec.new = task[t].new
  <2>1. ops[k] = FsRecord(t, "prepared", ops[k].ts)
    BY <1>0, <1>1 DEF StoreInv, WritePart
  <2> QED  BY <1>0, <2>1 DEF FsRecord
<1>5. ans = Done(k, IF BodyOf(t).kind = "undo" THEN rec.new ELSE rec.old, rec.new)
  <2>1. CASE BodyOf(t).kind # "undo"
    BY <1>0, <1>4, <2>1 DEF FsAnswer, Kind
  <2>2. CASE BodyOf(t).kind = "undo"
    <3>1. PICK i \in OpIds : i = BodyOf(t).target
      BY <1>1 DEF Bodies
    <3>2. ops[i].st = "fs" /\ task[t].new = ops[i].old
      BY <1>1, <2>2, <3>1 DEF StoreInv, LookPart, FsSteps
    <3>3. mops[i] = ops[i]
      BY <1>1, <3>2, FsInMemory DEF Plain
    <3> QED  BY <1>0, <1>4, <2>2, <3>1, <3>2, <3>3 DEF FsAnswer, Kind
  <2> QED  BY <2>1, <2>2
<1>6. Stored(k)' = ans /\ Committed(k, r)'
  <2>1. Reconstruct(k, rec) = ans
    BY <1>1, <1>4, <1>5 DEF Reconstruct, FsKinds
  <2> QED  BY <1>3, <1>4, <2>1 DEF Stored, Committed, IsCommitted
<1>7. /\ RecordRid(ops[k]) = r /\ RecordRid(rec) = r /\ ~IsCommitted(ops[k])
      /\ \A i \in OpIds : RecordRid(ops'[i]) = r => i = k
  <2>1. RecordRid(ops[k]) = r /\ RecordRid(rec) = r /\ ~IsCommitted(ops[k])
    BY <1>4 DEF RecordRid, IsCommitted
  <2>2. \A i \in OpIds : RecordRid(ops[i]) = r => i = k
    BY <1>1, <2>1, RecordTakes
  <2> QED  BY <1>3, <2>1, <2>2
<1>8. \A q, a : Backed(q, a) => Backed(q, a)'
  BY <1>1, <1>3, <1>7, BackedKept
<1>9. BodyOf(t)' = BodyOf(t) /\ BodyOf(t) = body[r]
  BY <1>0, <1>1, <1>2 DEF BodyOf
<1>10. Backed(r, ans)'
  <2>1. ans.st = "done" /\ body'[r].kind # "read"
    BY <1>1, <1>5, <1>9 DEF Done, FsKinds
  <2> QED  BY <1>1, <1>6, <2>1 DEF Backed
<1>11. ClaimPart(r) /\ OwnerPart(t) /\ Owns(t) /\ mreqs[r].status = "inprogress"
       /\ \A u \in Tasks \ {t} : Owns(u) => task[u].rid # r
  BY <1>0, <1>1, SoleOwner DEF RequestInv, Owns
<1>12. reqs[r].status = "inprogress"
  BY <1>0, <1>1, <1>11 DEF OwnerPart
<1>13. ClaimPart(r)'
  BY <1>1, <1>8, <1>11 DEF ClaimPart, EntryPart, Taken
<1>14. OwnerPart(t)'
  <2>1. \A i \in OpIds : Committed(i, r)' => i = k
    BY <1>7 DEF Committed, RecordRid, IsCommitted
  <2> QED  BY <1>0, <1>1, <1>2, <1>6, <1>9, <1>10, <1>11, <1>12, <2>1 DEF OwnerPart, Owns
<1>15. \A i \in OpIds : RecordRid(ops'[i]) = r => RecordClaim(i)'
  <2> TAKE i \in OpIds
  <2> SUFFICES ASSUME i = k PROVE RecordClaim(i)'
    BY <1>7
  <2>1. Taken(r)'
    BY <1>1, <1>11, <1>12 DEF Taken
  <2>2. task'[t].rid = r /\ Late(t)'
    BY <1>2 DEF Late
  <2> QED  BY <1>1, <1>3, <1>4, <1>7, <1>12, <2>1, <2>2 DEF RecordClaim
<1>16. \A i \in OpIds : \/ ops'[i] = ops[i]
                        \/ /\ RecordRid(ops'[i]) = r /\ ~IsCommitted(ops[i])
                           /\ RecordRid(ops[i]) \in {NoRid, r}
  BY <1>3, <1>7
<1> QED  BY <1>1, <1>2, <1>11, <1>13, <1>14, <1>15, <1>16, RequestFrame DEF Late

-----------------------------------------------------------------------------
(* Death and recovery.                                                      *)

(* Nothing is asked of a task that does not run.                            *)
LEMMA IdleOwners ==
  ASSUME \A t \in Tasks : task'[t] = IdleTask
  PROVE  \A t \in Tasks : OwnerPart(t)'
<1>1. IdleTask.pc = "idle"
  BY DEF IdleTask
<1> QED  BY <1>1 DEF OwnerPart, Owns

(* No entry, and what it stands for.                                        *)
LEMMA EmptyEntry ==
  ASSUME NEW r
  PROVE  NoEntry.status = "none" /\ NoEntry.ans.st = "none" /\ Backed(r, NoEntry.ans)
  BY DEF NoEntry, NoAnswer, Backed

(* The process dies: the request log is as it is.                           *)
LEMMA CrashRequests ==
  ASSUME TypeInv, StoreInv, RequestInv, Crash
  PROVE  RequestInv'
<1>1. /\ UNCHANGED <<ops, reqs, runs, told, body>> /\ srv' = "down" /\ recov' = NoRecov
      /\ stuck' = {} /\ \A r \in Rids : mreqs'[r] = NoEntry
      /\ \A t \in Tasks : task'[t] = IdleTask
  BY DEF Crash, disk, ghosts
<1>2. \A q, a : Backed(q, a) => Backed(q, a)'
  BY <1>1, BackedKept
<1>3. \A r \in Rids : ClaimPart(r)'
  <2> TAKE r \in Rids
  <2>1. ClaimPart(r)
    BY DEF RequestInv
  <2>2. NoEntry.status = "none" /\ NoEntry.ans.st = "none" /\ Backed(r, NoEntry.ans)
    BY EmptyEntry
  <2> QED  BY <1>1, <1>2, <2>1, <2>2 DEF ClaimPart, EntryPart, Taken
<1>4. \A i \in OpIds : RecordClaim(i)'
  <2> TAKE i \in OpIds
  <2>1. RecordClaim(i) /\ Stored(i)' = Stored(i)
    BY <1>1 DEF RequestInv, Stored
  <2> QED  BY <1>1, <2>1 DEF RecordClaim, Taken
<1>5. RecovPart'
  BY <1>1 DEF RecovPart
<1> QED  BY <1>1, <1>3, <1>4, <1>5, IdleOwners DEF RequestInv

(* A new process reads the requests back; the open ones are stuck.          *)
LEMMA StartRequests ==
  ASSUME TypeInv, PhaseInv, StoreInv, RequestInv, Start
  PROVE  RequestInv'
<1>1. /\ UNCHANGED <<ops, reqs, runs, told, body, recov, task>> /\ srv = "down"
      /\ srv' = "recover" /\ mreqs' = reqs
      /\ stuck' = {r \in Rids : reqs[r].status = "inprogress"}
      /\ \A t \in Tasks : task[t] = IdleTask
  BY DEF Start, disk, ghosts, PhaseInv
<1>2. \A q, a : Backed(q, a) => Backed(q, a)'
  BY <1>1, BackedKept
<1>3. \A r \in Rids : ClaimPart(r)'
  <2> TAKE r \in Rids
  <2>1. ClaimPart(r)
    BY DEF RequestInv
  <2> QED  BY <1>1, <1>2, <2>1 DEF ClaimPart, EntryPart, Taken
<1>4. \A i \in OpIds : RecordClaim(i)'
  <2> TAKE i \in OpIds
  <2>1. RecordClaim(i) /\ Stored(i)' = Stored(i)
    BY <1>1 DEF RequestInv, Stored
  <2>2. IsCommitted(ops[i]) => ops[i].rid \in Rids
    BY RecordRids DEF IsCommitted
  <2> QED  BY <1>1, <2>1, <2>2 DEF RecordClaim, Taken
<1>5. RecovPart'
  BY <1>1 DEF RequestInv, RecovPart
<1>6. \A t \in Tasks : task'[t] = IdleTask
  BY <1>1
<1> QED  BY <1>3, <1>4, <1>5, <1>6, IdleOwners DEF RequestInv

(* A marker that was made becomes a record whose answer recovery owes; one   *)
(* that was not is dropped.                                                 *)
LEMMA RecoverMarkerRequests ==
  ASSUME TypeInv, PhaseInv, StoreInv, RequestInv, NEW i \in OpIds, RecoverMarker(i)
  PROVE  RequestInv'
<1>0. PICK r, rec : /\ r = ops[i].rid
                    /\ rec = IF Made(i) THEN [ops[i] EXCEPT !.st = "fs", !.ts = now]
                             ELSE Aborted(now)
  OBVIOUS
<1>1. /\ srv = "recover" /\ srv' = srv /\ mops[i].st = "prepared" /\ recov = NoRecov
      /\ UNCHANGED <<reqs, mreqs, runs, told, stuck, body, task>>
  BY DEF RecoverMarker, Recovering, Pending, ghosts
<1>2. mops[i] = ops[i] /\ ops[i].st = "prepared"
      /\ Outcome(mops[i], file[mops[i].path]) = IF Made(i) THEN "committed" ELSE "noop"
  BY <1>1, MarkerOutcome
<1>3. /\ ops' = [ops EXCEPT ![i] = rec]
      /\ recov' = IF Made(i) THEN [rid |-> r, ans |-> Reconstruct(i, rec)] ELSE NoRecov
  BY <1>0, <1>2 DEF RecoverMarker
<1>4. ops'[i] = rec /\ \A j \in OpIds : j # i => ops'[j] = ops[j]
  BY <1>3 DEF TypeInv, TypeOK
<1>5. r \in Rids /\ RecordClaim(i) /\ ops[i] \in Records /\ r # NoRid
  BY <1>0, <1>2, RecordRids, SentinelAssumption
     DEF SentinelAssumption, RequestInv, TypeInv, TypeOK
<1>6. /\ Made(i) => rec.st = "fs" /\ rec.rid = r
      /\ ~Made(i) => rec.st = "aborted"
  BY <1>0, <1>5 DEF Records, Aborted, NoRec
<1>7. /\ RecordRid(ops[i]) = r /\ RecordRid(rec) = (IF Made(i) THEN r ELSE NoRid)
      /\ IsCommitted(rec) <=> Made(i)
      /\ ~IsCommitted(ops[i])
  BY <1>0, <1>2, <1>6 DEF RecordRid, IsCommitted
<1>8. Taken(r) /\ reqs[r].status = "inprogress"
      /\ \A j \in OpIds : RecordRid(ops[j]) = r => j = i
  BY <1>0, <1>2, <1>5, <1>7 DEF RecordClaim
<1>9. \A q, a : Backed(q, a) => Backed(q, a)'
  BY <1>1, <1>4, <1>7, BackedKept
<1>10. \A q \in Rids : ClaimPart(q)'
  <2> TAKE q \in Rids
  <2>1. ClaimPart(q)
    BY DEF RequestInv
  <2> QED  BY <1>1, <1>9, <2>1 DEF ClaimPart, EntryPart, Taken
<1>11. Taken(r)'
  BY <1>1, <1>8 DEF Taken
<1>12. RecordClaim(i)'
  <2>1. CASE Made(i)
    <3>1. recov'.rid = r
      BY <1>3, <2>1
    <3>2. \A j \in OpIds : RecordRid(ops'[j]) = r => j = i
      BY <1>4, <1>8
    <3> QED  BY <1>1, <1>4, <1>6, <1>8, <1>11, <2>1, <3>1, <3>2 DEF RecordClaim
  <2>2. CASE ~Made(i)
    BY <1>4, <1>6, <1>7, <2>2 DEF RecordClaim
  <2> QED  BY <2>1, <2>2
<1>13. ASSUME NEW j \in OpIds, j # i PROVE RecordClaim(j)'
  <2>1. RecordClaim(j) /\ ops'[j] = ops[j] /\ Stored(j)' = Stored(j)
    BY <1>4, <1>13 DEF RequestInv, Stored
  <2>2. CASE ops[j].st \notin {"prepared", "fs", "exec"}
    BY <2>1, <2>2 DEF RecordClaim, RecordRid, IsCommitted
  <2>3. CASE ops[j].st \in {"prepared", "fs", "exec"}
    <3>1. PICK q \in Rids : q = ops[j].rid
      BY <2>3, RecordRids
    <3>2. q # NoRid /\ RecordRid(ops[j]) = q /\ q # r
      BY <1>8, <1>13, <2>3, <3>1, SentinelAssumption DEF SentinelAssumption, RecordRid
    <3>3. \A m \in OpIds : RecordRid(ops'[m]) = q => RecordRid(ops[m]) = q
      BY <1>4, <1>7, <3>2
    <3>4. recov.rid # q
      BY <1>1, <3>2 DEF NoRecov
    <3>5. Taken(q)' /\ \A m \in OpIds : RecordRid(ops'[m]) = q => m = j
      BY <1>1, <2>1, <3>1, <3>2, <3>3 DEF RecordClaim, Taken
    <3> QED  BY <1>1, <2>1, <3>1, <3>4, <3>5 DEF RecordClaim
  <2> QED  BY <2>2, <2>3
<1>14. RecovPart'
  <2>1. CASE Made(i)
    <3>1. recov'.rid = r /\ recov'.ans = Reconstruct(i, rec)
      BY <1>3, <2>1
    <3>2. Committed(i, r)' /\ Stored(i)' = Reconstruct(i, rec)
      BY <1>4, <1>6, <1>7, <2>1 DEF Committed, Stored
    <3> QED  BY <1>1, <1>8, <3>1, <3>2 DEF RecovPart
  <2>2. CASE ~Made(i)
    BY <1>1, <1>3, <2>2 DEF RecovPart
  <2> QED  BY <2>1, <2>2
<1>15. \A t \in Tasks : task'[t] = IdleTask
  BY <1>1 DEF PhaseInv
<1> QED  BY <1>10, <1>12, <1>13, <1>14, <1>15, IdleOwners DEF RequestInv

(* Recovery settles one request, with the answer of its record if it has one. *)
LEMMA SettleRequests ==
  ASSUME TypeInv, PhaseInv, StoreInv, RequestInv, NEW r \in Rids,
         srv = "recover", srv' = srv, UNCHANGED <<ops, runs, told, body, task>>,
         NEW s \in {"done", "error"}, NEW ans, ans.st \in {"done", "error"}, Backed(r, ans),
         RememberNow(r, s, ans), stuck' = stuck \ {r}, recov' = NoRecov,
         recov.rid \in {NoRid, r},
         \A i \in OpIds : Committed(i, r) => ans = Stored(i),
         \A i \in OpIds : RecordRid(ops[i]) = r => ops[i].st # "prepared"
  PROVE  RequestInv'
<1>1. /\ reqs'[r] = Terminal(s, ans) /\ mreqs'[r] = Terminal(s, ans)
      /\ \A q \in Rids \ {r} : reqs'[q] = reqs[q] /\ mreqs'[q] = mreqs[q]
  BY DEF RememberNow, TypeInv, TypeOK
<1>2. Terminal(s, ans).status = s /\ Terminal(s, ans).ans = ans
  BY DEF Terminal, NoEntry
<1>3. \A q, a : Backed(q, a) => Backed(q, a)'
  BY BackedKept
<1>4. ClaimPart(r)'
  BY <1>1, <1>2, <1>3 DEF RequestInv, ClaimPart, EntryPart, Taken
<1>5. \A q \in Rids \ {r} : ClaimPart(q)'
  <2> TAKE q \in Rids \ {r}
  <2>1. ClaimPart(q)
    BY DEF RequestInv
  <2> QED  BY <1>1, <1>3, <2>1 DEF ClaimPart, EntryPart, Taken
<1>6. \A i \in OpIds : RecordClaim(i)'
  <2> TAKE i \in OpIds
  <2>1. RecordClaim(i) /\ Stored(i)' = Stored(i)
    BY DEF RequestInv, Stored
  <2>2. CASE ops[i].st \notin {"prepared", "fs", "exec"}
    BY <2>1, <2>2 DEF RecordClaim, RecordRid, IsCommitted
  <2>3. CASE ops[i].st \in {"prepared", "fs", "exec"}
    <3>1. PICK q \in Rids : q = ops[i].rid
      BY <2>3, RecordRids
    <3>2. q # NoRid /\ RecordRid(ops[i]) = q
      BY <2>3, <3>1, SentinelAssumption DEF SentinelAssumption, RecordRid
    <3>3. Taken(q)'
      BY <1>1, <1>2, <2>1, <3>1, <3>2 DEF RecordClaim, Taken
    <3>4. CASE q = r
      <4>1. IsCommitted(ops[i]) => ans = Stored(i)
        BY <3>1, <3>4 DEF Committed
      <4> QED  BY <1>1, <1>2, <2>1, <3>1, <3>2, <3>3, <3>4, <4>1 DEF RecordClaim
    <3>5. CASE q # r
      BY <1>1, <2>1, <3>1, <3>2, <3>3, <3>5 DEF RecordClaim
    <3> QED  BY <3>4, <3>5
  <2> QED  BY <2>2, <2>3
<1>7. RecovPart'
  BY DEF RecovPart
<1>8. \A t \in Tasks : task'[t] = IdleTask
  BY DEF PhaseInv
<1> QED  BY <1>4, <1>5, <1>6, <1>7, <1>8, IdleOwners DEF RequestInv

(* A record's answer is an answer its request can have.                     *)
LEMMA StoredBacked ==
  ASSUME TypeInv, StoreInv, NEW r \in Rids, NEW i \in OpIds, Committed(i, r)
  PROVE  Backed(r, Stored(i)) /\ Stored(i).st \in {"done", "error"}
<1>1. Stored(i).st \in {"done", "error"} /\ (Stored(i).st = "error" => Stored(i).op = 0)
  BY DEF Stored, Reconstruct, Done, Err, NoAnswer
<1>2. body[r].kind # "read"
  <2>1. CASE ops[i].st = "fs"
    BY <2>1 DEF StoreInv, RecordPart, FsRecs, Committed, TypeInv, RecordShape, FsKinds
  <2>2. CASE ops[i].st = "exec"
    BY <2>2 DEF StoreInv, RecordPart, IsExec, Committed
  <2> QED  BY <2>1, <2>2 DEF Committed, IsCommitted
<1> QED  BY <1>1, <1>2 DEF Backed

(* What recovery owes for a marker.                                         *)
LEMMA RecoverRememberRequests ==
  ASSUME TypeInv, PhaseInv, StoreInv, RequestInv, RecoverRemember
  PROVE  RequestInv'
<1>0. PICK r, ans : r = recov.rid /\ ans = recov.ans
  OBVIOUS
<1>1. /\ srv = "recover" /\ srv' = srv /\ recov # NoRecov /\ RememberNow(r, ans.st, ans)
      /\ recov' = NoRecov /\ stuck' = stuck \ {r}
      /\ UNCHANGED <<ops, runs, told, body, task>>
  BY <1>0 DEF RecoverRemember, Recovering, ghosts
<1>2. r \in Rids /\ ans.st \in {"done", "error"}
  BY <1>0, <1>1 DEF TypeInv, RecoveryShape
<1>3. PICK i \in OpIds : Committed(i, r) /\ ans = Stored(i)
  BY <1>0, <1>1 DEF RequestInv, RecovPart
<1>4. RecordRid(ops[i]) = r /\ ops[i].st # "prepared"
  BY <1>3 DEF Committed, RecordRid, IsCommitted
<1>5. \A j \in OpIds : RecordRid(ops[j]) = r => j = i
  BY <1>2, <1>4, RecordTakes
<1>6. \A j \in OpIds : Committed(j, r) => ans = Stored(j)
  BY <1>3, <1>5 DEF Committed, RecordRid, IsCommitted
<1>7. Backed(r, ans)
  BY <1>2, <1>3, StoredBacked
<1> QED  BY <1>0, <1>1, <1>2, <1>4, <1>5, <1>6, <1>7, SettleRequests

(* A request without a record can be tried again, unless it is a command.   *)
LEMMA RecoverStuckRequests ==
  ASSUME TypeInv, PhaseInv, Plain, StoreInv, RequestInv, NEW r \in Rids, RecoverStuck(r)
  PROVE  RequestInv'
<1>1. /\ srv = "recover" /\ srv' = srv /\ recov = NoRecov /\ recov' = NoRecov
      /\ stuck' = stuck \ {r} /\ r \in stuck /\ Pending = {}
      /\ UNCHANGED <<ops, runs, told, body, task>>
  BY DEF RecoverStuck, Recovering, ghosts
<1>2. recov.rid = NoRid /\ ClaimPart(r)
  BY <1>1 DEF NoRecov, RequestInv
<1>3. \A i \in OpIds : ops[i].st # "prepared" /\ (IsCommitted(ops[i]) => mops[i] = ops[i])
                       /\ (IsCommitted(mops[i]) => mops[i] = ops[i])
  BY <1>1 DEF Plain, Pending, StoreInv, MemoryPart, Synced, Dropped, Rewriting, IsCommitted
<1>4. \A i \in OpIds : i \in CommittedFor(r) <=> Committed(i, r)
  BY <1>3 DEF CommittedFor, Committed
<1>5. ASSUME NEW i \in CommittedFor(r), RememberNow(r, "done", Reconstruct(i, mops[i]))
      PROVE  RequestInv'
  <2>1. i \in OpIds /\ Committed(i, r) /\ Reconstruct(i, mops[i]) = Stored(i)
    BY <1>3, <1>4 DEF CommittedFor, Stored
  <2>2. RecordRid(ops[i]) = r
    BY <2>1 DEF Committed, RecordRid, IsCommitted
  <2>3. \A j \in OpIds : RecordRid(ops[j]) = r => j = i
    BY <2>1, <2>2, RecordTakes
  <2>4. \A j \in OpIds : Committed(j, r) => Stored(i) = Stored(j)
    BY <2>3 DEF Committed, RecordRid, IsCommitted
  <2>5. Backed(r, Stored(i)) /\ Stored(i).st \in {"done", "error"}
    BY <2>1, StoredBacked
  <2>6. RememberNow(r, "done", Stored(i))
    BY <1>5, <2>1
  <2> QED  BY <1>1, <1>2, <1>3, <2>4, <2>5, <2>6, SettleRequests
<1>6. CASE CommittedFor(r) = {} /\ RememberNow(r, "error", Err("ExecFailed"))
  <2>1. Backed(r, Err("ExecFailed")) /\ Err("ExecFailed").st = "error"
    BY ErrBacked DEF Err, NoAnswer
  <2>2. \A j \in OpIds : ~Committed(j, r)
    BY <1>4, <1>6
  <2> QED  BY <1>1, <1>2, <1>3, <1>6, <2>1, <2>2, SettleRequests
<1>7. CASE /\ CommittedFor(r) = {} /\ mreqs[r].kind # "exec"
           /\ mreqs' = [mreqs EXCEPT ![r] = NoEntry] /\ UNCHANGED reqs
  <2>1. mreqs'[r] = NoEntry /\ \A q \in Rids \ {r} : mreqs'[q] = mreqs[q]
    BY <1>7 DEF TypeInv, TypeOK
  <2>2. mreqs[r].status = "inprogress" /\ reqs[r].status = "inprogress" /\ body[r].kind # "exec"
    BY <1>1, <1>2, <1>7 DEF ClaimPart, EntryPart
  <2>3. runs[r] = 0
    BY <1>2, <2>2 DEF ClaimPart
  <2>4. \A i \in OpIds : RecordRid(ops[i]) # r
    <3>1. \A i \in OpIds : ~Committed(i, r)
      BY <1>4, <1>7
    <3> QED  BY <1>3, <3>1, SentinelAssumption
             DEF SentinelAssumption, Committed, RecordRid, IsCommitted
  <2>5. \A q, a : Backed(q, a) => Backed(q, a)'
    BY <1>1, BackedKept
  <2>6. ClaimPart(r)'
    <3>1. NoEntry.status = "none" /\ NoEntry.ans.st = "none" /\ Backed(r, NoEntry.ans)
      BY EmptyEntry
    <3> QED  BY <1>1, <1>2, <1>7, <2>1, <2>2, <2>3, <2>5, <3>1 DEF ClaimPart, EntryPart
  <2>7. \A q \in Rids \ {r} : ClaimPart(q)'
    <3> TAKE q \in Rids \ {r}
    <3>1. ClaimPart(q)
      BY DEF RequestInv
    <3> QED  BY <1>1, <1>7, <2>1, <2>5, <3>1 DEF ClaimPart, EntryPart, Taken
  <2>8. \A i \in OpIds : RecordClaim(i)'
    <3> TAKE i \in OpIds
    <3>1. RecordClaim(i) /\ Stored(i)' = Stored(i)
      BY <1>1 DEF RequestInv, Stored
    <3>2. CASE ops[i].st \notin {"fs", "exec"}
      BY <1>1, <1>3, <3>1, <3>2 DEF RecordClaim, RecordRid, IsCommitted
    <3>3. CASE ops[i].st \in {"fs", "exec"}
      <4>1. PICK q \in Rids : q = ops[i].rid
        BY <3>3, RecordRids
      <4>2. q # NoRid /\ RecordRid(ops[i]) = q /\ q # r
        BY <2>4, <3>3, <4>1, SentinelAssumption DEF SentinelAssumption, RecordRid
      <4>3. Taken(q)'
        BY <1>1, <1>7, <2>1, <3>1, <4>1, <4>2 DEF RecordClaim, Taken
      <4> QED  BY <1>1, <1>7, <2>1, <3>1, <3>3, <4>1, <4>2, <4>3 DEF RecordClaim
    <3> QED  BY <3>2, <3>3
  <2>9. RecovPart'
    BY <1>1 DEF RecovPart
  <2>10. \A t \in Tasks : task'[t] = IdleTask
    BY <1>1 DEF PhaseInv
  <2> QED  BY <2>6, <2>7, <2>8, <2>9, <2>10, IdleOwners DEF RequestInv
<1> QED  BY <1>5, <1>6, <1>7 DEF RecoverStuck

(* Nothing is stuck or owed any more: every record has its answer.          *)
LEMMA RecoverDoneRequests ==
  ASSUME NeverPrunes, TypeInv, PhaseInv, StoreInv, RequestInv, RecoverDone
  PROVE  RequestInv'
<1>1. /\ srv = "recover" /\ srv' = "up" /\ recov = NoRecov /\ stuck = {}
      /\ UNCHANGED <<ops, reqs, mreqs, runs, told, stuck, recov, body, task>>
  BY DEF RecoverDone, Recovering, disk, ghosts, NeverPrunes
<1>2. \A q, a : Backed(q, a) => Backed(q, a)'
  BY <1>1, BackedKept
<1>3. \A r \in Rids : ClaimPart(r)'
  <2> TAKE r \in Rids
  <2>1. ClaimPart(r)
    BY DEF RequestInv
  <2> QED  BY <1>1, <1>2, <2>1 DEF ClaimPart, EntryPart, Taken
<1>4. \A i \in OpIds : RecordClaim(i)'
  <2> TAKE i \in OpIds
  <2>1. RecordClaim(i) /\ Stored(i)' = Stored(i)
    BY <1>1 DEF RequestInv, Stored
  <2>2. IsCommitted(ops[i]) => ops[i].rid # recov.rid
    BY <1>1, RecordRids, SentinelAssumption DEF SentinelAssumption, IsCommitted, NoRecov
  <2> QED  BY <1>1, <2>1, <2>2 DEF RecordClaim, Taken
<1>5. RecovPart'
  BY <1>1 DEF RecovPart
<1>6. \A t \in Tasks : task'[t] = IdleTask
  BY <1>1 DEF PhaseInv
<1> QED  BY <1>3, <1>4, <1>5, <1>6, IdleOwners DEF RequestInv

(* A step that changes nothing.                                             *)
LEMMA SameRequests ==
  ASSUME RequestInv, UNCHANGED vars
  PROVE  RequestInv'
<1>1. UNCHANGED <<ops, reqs, mreqs, runs, told, stuck, recov, body, task, srv>>
  BY DEF vars, disk, tables, ghosts
<1>2. \A q, a : Backed(q, a) => Backed(q, a)'
  BY <1>1, BackedKept
<1>3. \A r \in Rids : ClaimPart(r)'
  BY <1>1, <1>2 DEF RequestInv, ClaimPart, EntryPart, Taken
<1>4. \A i \in OpIds : RecordClaim(i)'
  BY <1>1 DEF RequestInv, RecordClaim, Taken, Stored, Late
<1>5. \A t \in Tasks : OwnerPart(t)'
  BY <1>1, <1>2 DEF RequestInv, OwnerPart, Owns, BodyOf, Committed, Stored
<1>6. RecovPart'
  BY <1>1 DEF RequestInv, RecovPart, Committed, Stored
<1> QED  BY <1>3, <1>4, <1>5, <1>6 DEF RequestInv


(* Before the first process nothing is claimed, recorded or told.           *)
LEMMA RequestInit == Init => RequestInv
<1> SUFFICES ASSUME Init PROVE RequestInv
  OBVIOUS
<1>1. /\ \A i \in OpIds : ops[i] = NoRec
      /\ \A r \in Rids : reqs[r] = NoEntry /\ mreqs[r] = NoEntry /\ runs[r] = 0
      /\ \A t \in Tasks : task[t] = IdleTask
      /\ srv = "down" /\ recov = NoRecov /\ stuck = {} /\ told = {}
  BY DEF Init
<1>2. NoRec.st = "none" /\ IdleTask.pc = "idle"
  BY DEF NoRec, IdleTask
<1>3. \A r \in Rids : ClaimPart(r)
  BY <1>1, EmptyEntry DEF ClaimPart, EntryPart
<1>4. \A i \in OpIds : RecordClaim(i)
  BY <1>1, <1>2 DEF RecordClaim, RecordRid, IsCommitted
<1>5. \A t \in Tasks : OwnerPart(t)
  BY <1>1, <1>2 DEF OwnerPart, Owns
<1> QED  BY <1>1, <1>3, <1>4, <1>5 DEF RequestInv, RecovPart

(* The request log survives every calm step.                                *)
LEMMA RequestStep ==
  ASSUME NeverPrunes, IInv, Unpruned, StoreInv, RequestInv, CalmStep
  PROVE  RequestInv'
<1>0. Plain
  BY UnprunedPlain
<1> USE DEF IInv, WalIInv
<1>1. ASSUME NEW t \in Tasks, NEW r \in Rids, ReceiveSeen(t, r) \/ ReceiveNew(t, r)
      PROVE  RequestInv'
  BY <1>1, ClaimRequests
<1>2. ASSUME NEW t \in Tasks, CalmTask(t) PROVE RequestInv'
  BY <1>0, <1>2, ClaimRequests, ClaimWonRequests, RememberAppendRequests, RememberInsertRequests,
     RejectRequests, MutationRequests, ExecStartRequests, RecordRequests, ExecPushRequests,
     NeverRefused, CommitRequests DEF CalmTask
<1>3. CASE Crash \/ Start
  BY <1>3, CrashRequests, StartRequests
<1>4. CASE RecoverStep
  <2>1. ASSUME NEW i \in OpIds, RecoverMarker(i) PROVE RequestInv'
    BY <2>1, RecoverMarkerRequests
  <2>2. ASSUME NEW r \in Rids, RecoverStuck(r) PROVE RequestInv'
    BY <1>0, <2>2, RecoverStuckRequests
  <2>3. CASE RecoverRemember \/ RecoverDone
    BY <2>3, RecoverRememberRequests, RecoverDoneRequests
  <2> QED  BY <1>4, <2>1, <2>2, <2>3 DEF RecoverStep
<1>5. CASE UNCHANGED vars
  BY <1>5, SameRequests
<1> QED  BY <1>1, <1>2, <1>3, <1>4, <1>5 DEF CalmStep

-----------------------------------------------------------------------------
(* What the parts say together.                                             *)

(* Every mutation of a request has the request's only record.               *)
LEMMA RequestsRunOnce ==
  ASSUME TypeInv, Plain, StoreInv, RequestInv
  PROVE  AtMostOnce
<1> SUFFICES ASSUME NEW r \in Rids
             PROVE  /\ runs[r] <= 1
                    /\ \A e, f \in effects : e.rid = r /\ f.rid = r => e = f
  BY DEF AtMostOnce
<1>1. runs[r] <= 1
  BY DEF RequestInv, ClaimPart
<1>2. ASSUME NEW e \in effects, e.rid = r
      PROVE  e.op \in OpIds /\ e = EffectOf(e.op) /\ RecordRid(ops[e.op]) = r
  <2>1. e.op \in OpIds /\ e = EffectOf(e.op) /\ ops[e.op].st \in FsRecs
    BY DEF Plain, TypeInv, TypeOK, StoreInv, EffectPart
  <2>2. ops[e.op].rid = r
    BY <1>2, <2>1 DEF EffectOf
  <2> QED  BY <2>1, <2>2 DEF RecordRid, FsRecs
<1>3. ASSUME NEW e \in effects, NEW f \in effects, e.rid = r, f.rid = r PROVE e = f
  <2>1. RecordClaim(e.op) /\ RecordRid(ops[f.op]) = r /\ f.op \in OpIds
    BY <1>2, <1>3 DEF RequestInv
  <2>2. RecordRid(ops[e.op]) = r /\ r # NoRid /\ ops[e.op].rid = r /\ e.op \in OpIds
    BY <1>2, <1>3, SentinelAssumption DEF SentinelAssumption, RecordRid
  <2>3. e.op = f.op
    BY <2>1, <2>2 DEF RecordClaim
  <2> QED  BY <1>2, <1>3, <2>3
<1> QED  BY <1>1, <1>3


(* A success that was told has its record; no owner can be on its way to     *)
(* another answer.                                                          *)
LEMMA RequestsAcked ==
  ASSUME TypeInv, RequestInv
  PROVE  AckedSurvives
<1> SUFFICES ASSUME srv = "up", NEW a \in told, a[2].st = "done",
                    body[a[1]].kind \in FsKinds \cup {"exec"}
             PROVE  mreqs[a[1]].ans = a[2]
  BY DEF AckedSurvives
<1>0. PICK r \in Rids : r = a[1]
  BY DEF TypeInv, TypeOK
<1>1. Backed(r, a[2])
  BY <1>0 DEF RequestInv, ClaimPart
<1>2. PICK i \in OpIds : Committed(i, r) /\ Stored(i) = a[2]
  BY <1>0, <1>1 DEF Backed, FsKinds
<1>3. mreqs[r].ans = Stored(i) \/ \E t \in Tasks : task[t].rid = r /\ Late(t)
  BY <1>2 DEF RequestInv, RecordClaim, Committed
<1>4. ASSUME NEW t \in Tasks, task[t].rid = r, Late(t) PROVE FALSE
  BY <1>0, <1>4 DEF RequestInv, OwnerPart, Owns, Late, BodyOf, FsKinds
<1> QED  BY <1>0, <1>2, <1>3, <1>4

CalmRequests == CalmInv /\ Unpruned /\ (Undisturbed => RequestInv)

(* CalmRequests is inductive.                                               *)
LEMMA RequestsInductive ==
  ASSUME NeverPrunes
  PROVE  Spec => []CalmRequests
<1>1. Init => Unpruned /\ (Undisturbed => RequestInv)
  BY RequestInit DEF Init, Unpruned
<1>2. CalmInv /\ Unpruned /\ [Next]_vars => Unpruned'
  BY UnprunedStep DEF CalmInv, IInv
<1>3. CalmRequests /\ [Next]_vars => (Undisturbed => RequestInv)'
  <2> SUFFICES ASSUME CalmRequests, [Next]_vars, Undisturbed'
               PROVE  RequestInv'
    OBVIOUS
  <2>1. Undisturbed /\ CalmStep
    BY CalmSteps, UnprunedCalm DEF CalmRequests, CalmInv, IInv
  <2> QED  BY <2>1, RequestStep DEF CalmRequests, CalmInv
<1> QED  BY <1>1, <1>2, <1>3, CalmInductive, PTL DEF Spec, CalmRequests

(* A request mutates the workspace, or starts its command, at most once      *)
(* (AtMostOnce): however often it is sent, however many copies of it are     *)
(* handled at a time, and wherever the process dies.                        *)
THEOREM RequestsAtMostOnce ==
  ASSUME NeverPrunes
  PROVE  Spec => [](Undisturbed => AtMostOnce)
<1>1. CalmRequests => (Undisturbed => AtMostOnce)
  BY RequestsRunOnce, UnprunedPlain DEF CalmRequests, CalmInv, IInv
<1> QED  BY <1>1, RequestsInductive, PTL

(* A success the client was told is what the server answers for that        *)
(* request whenever it serves (AckedSurvives), whichever of the two logs     *)
(* the process had reached when it died.                                    *)
THEOREM SuccessSurvives ==
  ASSUME NeverPrunes
  PROVE  Spec => [](Undisturbed => AckedSurvives)
<1>1. CalmRequests => (Undisturbed => AckedSurvives)
  BY RequestsAcked DEF CalmRequests, CalmInv, IInv
<1> QED  BY <1>1, RequestsInductive, PTL

-----------------------------------------------------------------------------
(* One request at a time: a client that waits for its answer before it      *)
(* sends the next line.                                                     *)
Sequential == \A t, u \in Tasks : t = u

(* An answer that settles the request.                                      *)
Settles(ans) == ans.code \notin {"InProgress", "IoError"}

(* The table agrees with the log, and both with what was told.              *)
AnswerPart(r) ==
    /\ mreqs[r].ans.st # "none" => reqs[r].ans = mreqs[r].ans
    /\ \A a \in told : a[1] = r /\ Settles(a[2]) =>
           /\ a[2].st # "none" /\ reqs[r].ans = a[2]
           /\ srv # "down" => mreqs[r].ans = a[2]

(* A task that claims has no rival, one that remembers has reached the log. *)
StagePart(t) ==
    /\ task[t].pc = "stored" => reqs[task[t].rid].ans = task[t].ans
    /\ task[t].pc \in {"claim", "insert"} => mreqs[task[t].rid].status = "none"

AnswerInv == (\A r \in Rids : AnswerPart(r)) /\ (\A t \in Tasks : StagePart(t))

(* A request without an answer in the table has not been answered.          *)
LEMMA Unsettled ==
  ASSUME NEW r \in Rids, AnswerPart(r), srv # "down", mreqs[r].ans.st = "none"
  PROVE  \A a \in told : a[1] = r => ~Settles(a[2])
  BY DEF AnswerPart

(* A step that is about request r only.                                     *)
LEMMA AnswerFrame ==
  ASSUME AnswerInv, NEW r \in Rids, srv' # "down" => srv # "down",
         \A q \in Rids \ {r} : reqs'[q] = reqs[q] /\ mreqs'[q] = mreqs[q],
         \A a \in told' : a \in told \/ a[1] = r,
         AnswerPart(r)', \A t \in Tasks : StagePart(t)'
  PROVE  AnswerInv'
<1>1. ASSUME NEW q \in Rids \ {r} PROVE AnswerPart(q)'
  <2>1. AnswerPart(q) /\ \A a \in told' : a[1] = q => a \in told
    BY DEF AnswerInv
  <2>2. reqs'[q] = reqs[q] /\ mreqs'[q] = mreqs[q]
    OBVIOUS
  <2> QED  BY <2>1, <2>2 DEF AnswerPart
<1> QED  BY <1>1 DEF AnswerInv

(* The steps of the handlers leave the tables to finish().                  *)
LEMMA HandlerAnswers ==
  ASSUME AnswerInv, Sequential, NEW t \in Tasks, UNCHANGED <<reqs, mreqs, told, srv>>,
         task'[t].pc \notin {"claim", "insert", "stored"}
  PROVE  AnswerInv'
<1>1. \A r \in Rids : AnswerPart(r)'
  BY DEF AnswerInv, AnswerPart
<1>2. \A u \in Tasks : StagePart(u)'
  BY DEF Sequential, StagePart
<1> QED  BY <1>1, <1>2 DEF AnswerInv

(* finish() is the next step, whatever the answer.                          *)
LEMMA FinishPc ==
  ASSUME TypeInv, NEW t \in Tasks, NEW ans, FinishWith(t, ans)
  PROVE  task'[t].pc = "remember"
<1> DEFINE next == [task[t] EXCEPT !.pc = "remember", !.ans = ans, !.say = ans]
<1>1. next.pc = "remember"
  BY DEF TypeInv, TypeOK, TaskStates
<1>2. task' = [task EXCEPT ![t] = next]
  BY DEF FinishWith
<1> HIDE DEF next
<1> QED  BY <1>1, <1>2 DEF TypeInv, TypeOK

(* The handlers.                                                            *)
LEMMA HandlerSteps ==
  ASSUME NeverPrunes, TypeInv, Unpruned, NEW t \in Tasks,
         \/ ReadOnly(t) \/ FsCheck(t) \/ FsReadReject(t) \/ GcBegin(t)
         \/ ExecStart(t, TRUE) \/ ExecStart(t, FALSE) \/ ExecAppend(t) \/ ExecPush(t)
         \/ FsBlob(t) \/ FsPrepare(t) \/ FsInstall(t) \/ FsCommit(t)
  PROVE  /\ UNCHANGED <<reqs, mreqs, told, srv>>
         /\ task'[t].pc \notin {"claim", "insert", "stored"}
<1> USE DEF disk, tables, ghosts
<1>1. UNCHANGED <<told, srv, reqs>>
  BY DEF ReadOnly, FsCheck, FsReadReject, GcBegin, ExecStart, ExecAppend, ExecPush, FsBlob,
         FsPrepare, FsInstall, FsCommit
<1>2. CASE GcBegin(t)
  <2>1. task[t].rid \in Rids
    BY <1>2 DEF GcBegin, At, TypeInv, TaskShape
  <2>2. BodyOf(t).keep = NoLimit /\ HistoryLimit = NoLimit
    BY <1>2, <2>1 DEF NeverPrunes, Unpruned, BodyOf, GcBegin, Kind
  <2>3. FinishWith(t, Err("InvalidRequest")) /\ mreqs' = mreqs
    BY <1>2, <2>2 DEF GcBegin
  <2> QED  BY <1>1, <2>3, FinishPc
<1>3. CASE ReadOnly(t) \/ FsReadReject(t) \/ FsCommit(t)
  <2>1. (\E ans : FinishWith(t, ans)) /\ mreqs' = mreqs
    BY <1>3 DEF ReadOnly, FsReadReject, FsCommit
  <2> QED  BY <1>1, <2>1, FinishPc
<1>4. CASE FsCheck(t)
  <2>1. task'[t].pc \in {"remember", "read"}
    BY <1>4, FirstLook, FinishPc
  <2>2. mreqs' = mreqs
    BY <1>4 DEF FsCheck
  <2> QED  BY <1>1, <2>1, <2>2
<1>5. CASE ExecStart(t, TRUE) \/ ExecStart(t, FALSE) \/ FsBlob(t)
  <2>1. task'[t].pc \in {"prepare", "exec_append"}
    BY <1>5, TakesIdSteps DEF TakesId
  <2>2. mreqs' = mreqs
    BY <1>5 DEF ExecStart, FsBlob
  <2> QED  BY <1>1, <2>1, <2>2
<1>6. CASE ExecAppend(t) \/ ExecPush(t) \/ FsPrepare(t) \/ FsInstall(t)
  <2>1. mreqs' = mreqs
    BY <1>6 DEF ExecAppend, ExecPush, FsPrepare, FsInstall
  <2>2. CASE ExecAppend(t)
    <3>1. PICK ts : task' = [task EXCEPT ![t] = [@ EXCEPT !.pc = "exec_push", !.ts = ts]]
      BY <2>2 DEF ExecAppend
    <3>2. task'[t].pc = "exec_push"
      BY <3>1 DEF TypeInv, TypeOK, TaskStates
    <3> QED  BY <1>1, <2>1, <3>2
  <2>3. CASE ExecPush(t) \/ FsPrepare(t) \/ FsInstall(t)
    <3>1. \E pc \in {"remember", "install", "commit"} : task' = [task EXCEPT ![t].pc = pc]
      BY <2>3 DEF ExecPush, FsPrepare, FsInstall
    <3>2. task'[t].pc \in {"remember", "install", "commit"}
      BY <3>1 DEF TypeInv, TypeOK, TaskStates
    <3> QED  BY <1>1, <2>1, <3>2
  <2> QED  BY <1>6, <2>2, <2>3
<1> QED  BY <1>2, <1>3, <1>4, <1>5, <1>6


(* A copy of a request is answered from the table, or claims a request the   *)
(* table does not know.                                                     *)
LEMMA ReceiveAnswers ==
  ASSUME TypeInv, Sequential, AnswerInv, NEW t \in Tasks, NEW r \in Rids,
         ReceiveSeen(t, r) \/ ReceiveNew(t, r)
  PROVE  AnswerInv'
<1> USE DEF At, disk, tables, ghosts
<1>1. UNCHANGED <<reqs, mreqs, srv>> /\ srv = "up" /\ AnswerPart(r)
  BY DEF ReceiveSeen, ReceiveNew, AnswerInv
<1>2. CASE ReceiveSeen(t, r)
  <2>1. PICK ans : ans = Replay(mreqs[r])
    OBVIOUS
  <2>2. told' = told \cup {<<r, ans>>} /\ task' = task
    BY <1>2, <2>1 DEF ReceiveSeen
  <2>3. Settles(ans) => ans = mreqs[r].ans /\ ans.st # "none"
    BY <2>1 DEF Replay, Settles, Err, NoAnswer
  <2>4. AnswerPart(r)'
    BY <1>1, <2>2, <2>3 DEF AnswerPart
  <2>5. \A u \in Tasks : StagePart(u)'
    BY <1>1, <2>2 DEF AnswerInv, StagePart
  <2> QED  BY <1>1, <2>2, <2>4, <2>5, AnswerFrame
<1>3. CASE ReceiveNew(t, r)
  <2>1. /\ told' = told /\ mreqs[r].status = "none"
        /\ task' = [task EXCEPT ![t] = [@ EXCEPT !.pc = "claim", !.rid = r]]
    BY <1>3 DEF ReceiveNew
  <2>2. task'[t].pc = "claim" /\ task'[t].rid = r
    BY <2>1 DEF TypeInv, TypeOK, TaskStates
  <2>3. \A u \in Tasks : StagePart(u)'
    BY <1>1, <2>1, <2>2 DEF Sequential, StagePart
  <2>4. \A q \in Rids : AnswerPart(q)'
    BY <1>1, <2>1 DEF AnswerInv, AnswerPart
  <2> QED  BY <2>3, <2>4 DEF AnswerInv
<1> QED  BY <1>2, <1>3

(* The claim itself.  With one task it is never lost.                       *)
LEMMA ClaimAnswers ==
  ASSUME TypeInv, RequestInv, Sequential, AnswerInv, NEW t \in Tasks,
         ClaimAppend(t) \/ ClaimLost(t) \/ ClaimWon(t)
  PROVE  AnswerInv'
<1> USE DEF At, disk, tables, ghosts
<1>0. PICK r : r = task[t].rid
  OBVIOUS
<1>1. /\ srv = "up" /\ srv' = srv /\ task[t].pc \in {"claim", "insert"} /\ r \in Rids
      /\ mreqs[r].status = "none"
  BY <1>0 DEF ClaimAppend, ClaimLost, ClaimWon, AnswerInv, StagePart, TypeInv, TaskShape
<1>2. AnswerPart(r) /\ mreqs[r].ans.st = "none"
  BY <1>1 DEF AnswerInv, RequestInv, ClaimPart, EntryPart
<1>3. \A a \in told : a[1] = r => ~Settles(a[2])
  BY <1>1, <1>2, Unsettled
<1>4. PICK e : e = InProgress(BodyOf(t).kind)
  OBVIOUS
<1>5. e.ans.st = "none"
  BY <1>4 DEF InProgress, NoEntry, NoAnswer
<1>6. CASE ClaimAppend(t)
  <2>1. /\ reqs' = [reqs EXCEPT ![r] = e] /\ UNCHANGED <<mreqs, told>>
        /\ task' = [task EXCEPT ![t].pc = "insert"]
    BY <1>0, <1>4, <1>6 DEF ClaimAppend
  <2>2. task'[t].pc = "insert" /\ task'[t].rid = r
    BY <1>0, <2>1 DEF TypeInv, TypeOK, TaskStates
  <2>3. \A u \in Tasks : StagePart(u)'
    BY <1>1, <2>1, <2>2 DEF Sequential, StagePart
  <2>4. AnswerPart(r)'
    BY <1>1, <1>2, <1>3, <2>1 DEF AnswerPart
  <2> QED  BY <1>1, <2>1, <2>3, <2>4, AnswerFrame DEF TypeInv, TypeOK
<1>7. CASE ClaimWon(t)
  <2>1. /\ mreqs' = [mreqs EXCEPT ![r] = e] /\ UNCHANGED <<reqs, told>>
        /\ task' = [task EXCEPT ![t].pc = "begin"]
    BY <1>0, <1>4, <1>7 DEF ClaimWon
  <2>2. task'[t].pc = "begin" /\ mreqs'[r] = e
    BY <1>1, <2>1 DEF TypeInv, TypeOK, TaskStates
  <2>3. \A u \in Tasks : StagePart(u)'
    BY <2>2 DEF Sequential, StagePart
  <2>4. AnswerPart(r)'
    BY <1>1, <1>3, <1>5, <2>1, <2>2 DEF AnswerPart
  <2> QED  BY <1>1, <2>1, <2>3, <2>4, AnswerFrame DEF TypeInv, TypeOK
<1>8. CASE ClaimLost(t)
  BY <1>0, <1>1, <1>8 DEF ClaimLost
<1> QED  BY <1>6, <1>7, <1>8

(* finish(): log first, then table and client, all with the same answer.    *)
LEMMA RememberAnswers ==
  ASSUME TypeInv, SingleOwner, RequestInv, Sequential, AnswerInv, NEW t \in Tasks,
         RememberAppend(t) \/ RememberInsert(t)
  PROVE  AnswerInv'
<1> USE DEF At, disk, tables, ghosts
<1>0. PICK r, ans, e : r = task[t].rid /\ ans = task[t].ans /\ e = Terminal(ans.st, ans)
  OBVIOUS
<1>1. srv = "up" /\ srv' = srv /\ task[t].pc \in {"remember", "stored"} /\ r \in Rids
  BY <1>0 DEF RememberAppend, RememberInsert, TypeInv, TaskShape
<1>2. mreqs[r].status = "inprogress" /\ ans.st # "none" /\ task[t].say = ans
  BY <1>0, <1>1 DEF SingleOwner, Owns, TypeInv, TaskShape, RequestInv, OwnerPart
<1>3. AnswerPart(r) /\ mreqs[r].ans.st = "none"
  BY <1>1, <1>2 DEF AnswerInv, RequestInv, ClaimPart, EntryPart
<1>4. \A a \in told : a[1] = r => ~Settles(a[2])
  BY <1>1, <1>3, Unsettled
<1>5. e.ans = ans
  BY <1>0 DEF Terminal, NoEntry
<1>6. CASE RememberAppend(t)
  <2>1. /\ reqs' = [reqs EXCEPT ![r] = e] /\ UNCHANGED <<mreqs, told>>
        /\ task' = [task EXCEPT ![t].pc = "stored"]
    BY <1>0, <1>6 DEF RememberAppend
  <2>2. task'[t].pc = "stored" /\ task'[t].rid = r /\ task'[t].ans = ans /\ reqs'[r] = e
    BY <1>0, <1>1, <2>1 DEF TypeInv, TypeOK, TaskStates
  <2>3. \A u \in Tasks : StagePart(u)'
    BY <1>5, <2>2 DEF Sequential, StagePart
  <2>4. AnswerPart(r)'
    BY <1>1, <1>3, <1>4, <2>1 DEF AnswerPart
  <2> QED  BY <1>1, <2>1, <2>3, <2>4, AnswerFrame DEF TypeInv, TypeOK
<1>7. CASE RememberInsert(t)
  <2>1. /\ mreqs' = [mreqs EXCEPT ![r] = e] /\ told' = told \cup {<<r, ans>>}
        /\ task' = [task EXCEPT ![t] = IdleTask] /\ UNCHANGED reqs
        /\ task[t].pc = "stored"
    BY <1>0, <1>2, <1>7 DEF RememberInsert
  <2>2. task'[t].pc = "idle" /\ mreqs'[r] = e
    BY <1>1, <2>1 DEF TypeInv, TypeOK, IdleTask
  <2>3. reqs[r].ans = ans
    BY <1>0, <2>1 DEF AnswerInv, StagePart
  <2>4. \A u \in Tasks : StagePart(u)'
    BY <2>2 DEF Sequential, StagePart
  <2>5. AnswerPart(r)'
    BY <1>1, <1>2, <1>4, <1>5, <2>1, <2>2, <2>3 DEF AnswerPart
  <2> QED  BY <1>1, <2>1, <2>4, <2>5, AnswerFrame DEF TypeInv, TypeOK
<1> QED  BY <1>6, <1>7


(* No task runs outside of a serving process.                               *)
LEMMA IdleStages ==
  ASSUME \A t \in Tasks : task'[t] = IdleTask
  PROVE  \A t \in Tasks : StagePart(t)'
<1>1. IdleTask.pc = "idle"
  BY DEF IdleTask
<1> QED  BY <1>1 DEF StagePart

(* The process dies and a new one reads the request log.                    *)
LEMMA RestartAnswers ==
  ASSUME PhaseInv, AnswerInv, Crash \/ Start
  PROVE  AnswerInv'
<1> USE DEF disk, ghosts
<1>1. CASE Crash
  <2>1. /\ UNCHANGED <<reqs, told>> /\ srv' = "down" /\ \A t \in Tasks : task'[t] = IdleTask
        /\ \A r \in Rids : mreqs'[r] = NoEntry
    BY <1>1 DEF Crash
  <2>2. \A r \in Rids : AnswerPart(r)'
    BY <2>1, EmptyEntry DEF AnswerInv, AnswerPart
  <2> QED  BY <2>1, <2>2, IdleStages DEF AnswerInv
<1>2. CASE Start
  <2>1. UNCHANGED <<reqs, told>> /\ mreqs' = reqs /\ \A t \in Tasks : task'[t] = IdleTask
    BY <1>2 DEF Start, PhaseInv
  <2>2. \A r \in Rids : AnswerPart(r)'
    BY <2>1 DEF AnswerInv, AnswerPart
  <2> QED  BY <2>1, <2>2, IdleStages DEF AnswerInv
<1> QED  BY <1>1, <1>2

(* Recovery only settles requests that were never answered.                 *)
LEMMA RecoverAnswers ==
  ASSUME NeverPrunes, TypeInv, PhaseInv, RequestInv, AnswerInv, RecoverStep
  PROVE  AnswerInv'
<1> USE DEF disk, ghosts, Recovering
<1>1. told' = told /\ srv = "recover" /\ srv' # "down" /\ \A t \in Tasks : task'[t] = IdleTask
  <2>1. UNCHANGED <<told, task>> /\ srv = "recover" /\ srv' \in {srv, "up"}
    BY DEF RecoverStep, RecoverMarker, RecoverRemember, RecoverStuck, RecoverDone, NeverPrunes
  <2> QED  BY <2>1 DEF PhaseInv
<1>2. ASSUME NEW r \in Rids, reqs[r].status = "inprogress",
             \A q \in Rids \ {r} : reqs'[q] = reqs[q] /\ mreqs'[q] = mreqs[q],
             mreqs'[r].ans.st # "none" => reqs'[r] = mreqs'[r]
      PROVE  AnswerInv'
  <2>1. AnswerPart(r) /\ reqs[r].ans.st = "none"
    BY <1>2 DEF AnswerInv, RequestInv, ClaimPart, EntryPart
  <2>2. \A a \in told : a[1] = r => ~Settles(a[2])
    BY <2>1 DEF AnswerPart
  <2>3. AnswerPart(r)'
    BY <1>1, <1>2, <2>2 DEF AnswerPart
  <2> QED  BY <1>1, <1>2, <2>3, AnswerFrame, IdleStages
<1>3. CASE RecoverDone \/ \E i \in OpIds : RecoverMarker(i)
  <2>1. UNCHANGED <<reqs, mreqs>>
    BY <1>3 DEF RecoverDone, RecoverMarker, NeverPrunes
  <2>2. \A r \in Rids : AnswerPart(r)'
    BY <1>1, <2>1 DEF AnswerInv, AnswerPart
  <2> QED  BY <1>1, <2>2, IdleStages DEF AnswerInv
<1>4. CASE RecoverRemember
  <2>1. PICK r, e : r = recov.rid /\ e = Terminal(recov.ans.st, recov.ans)
    OBVIOUS
  <2>2. reqs' = [reqs EXCEPT ![r] = e] /\ mreqs' = [mreqs EXCEPT ![r] = e] /\ recov # NoRecov
    BY <1>4, <2>1 DEF RecoverRemember, RememberNow
  <2>3. r \in Rids /\ reqs[r].status = "inprogress"
    BY <2>1, <2>2 DEF TypeInv, RecoveryShape, RequestInv, RecovPart
  <2> QED  BY <1>2, <2>2, <2>3 DEF TypeInv, TypeOK
<1>5. ASSUME NEW r \in Rids, RecoverStuck(r) PROVE AnswerInv'
  <2>1. reqs[r].status = "inprogress"
    BY <1>5 DEF RecoverStuck, RequestInv, ClaimPart
  <2>2. \/ \E e : reqs' = [reqs EXCEPT ![r] = e] /\ mreqs' = [mreqs EXCEPT ![r] = e]
        \/ reqs' = reqs /\ mreqs' = [mreqs EXCEPT ![r] = NoEntry]
    BY <1>5 DEF RecoverStuck, RememberNow
  <2>3. \A q \in Rids \ {r} : reqs'[q] = reqs[q] /\ mreqs'[q] = mreqs[q]
    BY <2>2 DEF TypeInv, TypeOK
  <2>4. mreqs'[r].ans.st # "none" => reqs'[r] = mreqs'[r]
    BY <2>2, EmptyEntry DEF TypeInv, TypeOK
  <2> QED  BY <1>2, <2>1, <2>3, <2>4
<1> QED  BY <1>3, <1>4, <1>5 DEF RecoverStep

(* The answers survive every calm step of a server with one task.           *)
LEMMA AnswerStep ==
  ASSUME NeverPrunes, Sequential, IInv, Unpruned, StoreInv, RequestInv, AnswerInv, CalmStep
  PROVE  AnswerInv'
<1> USE DEF IInv, WalIInv
<1>1. ASSUME NEW t \in Tasks, NEW r \in Rids, ReceiveSeen(t, r) \/ ReceiveNew(t, r)
      PROVE  AnswerInv'
  BY <1>1, ReceiveAnswers
<1>2. ASSUME NEW t \in Tasks, CalmTask(t) PROVE AnswerInv'
  <2>1. CASE \/ ClaimAppend(t) \/ ClaimLost(t) \/ ClaimWon(t)
             \/ RememberAppend(t) \/ RememberInsert(t)
    BY <2>1, ClaimAnswers, RememberAnswers
  <2>2. CASE FsInstallRefused(t)
    BY <2>2, NeverRefused
  <2>3. CASE \/ ReadOnly(t) \/ FsCheck(t) \/ FsReadReject(t) \/ GcBegin(t)
             \/ ExecStart(t, TRUE) \/ ExecStart(t, FALSE) \/ ExecAppend(t) \/ ExecPush(t)
             \/ FsBlob(t) \/ FsPrepare(t) \/ FsInstall(t) \/ FsCommit(t)
    BY <2>3, HandlerSteps, HandlerAnswers
  <2> QED  BY <1>2, <2>1, <2>2, <2>3 DEF CalmTask
<1>3. CASE Crash \/ Start
  BY <1>3, RestartAnswers
<1>4. CASE RecoverStep
  BY <1>4, RecoverAnswers
<1>5. CASE UNCHANGED vars
  <2>1. UNCHANGED <<reqs, mreqs, told, srv, task>>
    BY <1>5 DEF vars, disk, tables, ghosts
  <2> QED  BY <2>1 DEF AnswerInv, AnswerPart, StagePart
<1> QED  BY <1>1, <1>2, <1>3, <1>4, <1>5 DEF CalmStep

(* Nothing is told at first.                                                *)
LEMMA AnswerInit == Init => AnswerInv
<1> SUFFICES ASSUME Init PROVE AnswerInv
  OBVIOUS
<1>1. told = {} /\ (\A r \in Rids : mreqs[r] = NoEntry) /\ \A t \in Tasks : task[t] = IdleTask
  BY DEF Init
<1>2. IdleTask.pc = "idle"
  BY DEF IdleTask
<1> QED  BY <1>1, <1>2, EmptyEntry DEF AnswerInv, AnswerPart, StagePart

(* A client that has one request out at a time finds every answer again,     *)
(* errors included (AnswerSurvives).  With more, the copy of a request that  *)
(* lost its claim may have rewritten the log line of an error.              *)
THEOREM AnswersSurvive ==
  ASSUME NeverPrunes, Sequential
  PROVE  Spec => [](Undisturbed => AnswerSurvives)
<1>1. Init => (Undisturbed => AnswerInv)
  BY AnswerInit
<1>2. CalmRequests /\ (Undisturbed => AnswerInv) /\ [Next]_vars => (Undisturbed => AnswerInv)'
  <2> SUFFICES ASSUME CalmRequests, Undisturbed => AnswerInv, [Next]_vars, Undisturbed'
               PROVE  AnswerInv'
    OBVIOUS
  <2>1. Undisturbed /\ CalmStep
    BY CalmSteps, UnprunedCalm DEF CalmRequests, CalmInv, IInv
  <2> QED  BY <2>1, AnswerStep DEF CalmRequests, CalmInv
<1>3. CalmRequests /\ (Undisturbed => AnswerInv) => (Undisturbed => AnswerSurvives)
  <2> SUFFICES ASSUME IInv, AnswerInv, srv = "up", NEW a \in told, Settles(a[2])
               PROVE  mreqs[a[1]].ans = a[2]
    BY DEF CalmRequests, CalmInv, AnswerSurvives, Settles
  <2>1. PICK r \in Rids : r = a[1]
    BY DEF IInv, TypeInv, TypeOK
  <2> QED  BY <2>1 DEF AnswerInv, AnswerPart
<1> QED  BY <1>1, <1>2, <1>3, RequestsInductive, PTL DEF Spec


-----------------------------------------------------------------------------
(* The server implements IdempotentService.                                 *)

(* The reports an answer adds.                                              *)
Reported(r, ans) ==
    IF ans.st = "done" /\ body[r].kind \in FsKinds THEN {<<r, ans.op, ans.new>>} ELSE {}

(* One more line to the client.                                             *)
LEMMA AckedGrows ==
  ASSUME NEW r, NEW ans, told' = told \cup {<<r, ans>>}, body' = body
  PROVE  Acked' = Acked \cup Reported(r, ans)
<1>1. <<r, ans>>[1] = r /\ <<r, ans>>[2] = ans
  OBVIOUS
<1>2. ASSUME NEW x \in Acked' PROVE x \in Acked \cup Reported(r, ans)
  <2>1. PICK a \in told' : /\ a[2].st = "done" /\ body[a[1]].kind \in FsKinds
                           /\ x = <<a[1], a[2].op, a[2].new>>
    BY DEF Acked
  <2>2. CASE a \in told
    BY <2>1, <2>2 DEF Acked
  <2>3. CASE a = <<r, ans>>
    BY <1>1, <2>1, <2>3 DEF Reported
  <2> QED  BY <2>1, <2>2, <2>3
<1>3. ASSUME NEW x \in Acked PROVE x \in Acked'
  BY DEF Acked
<1>4. ASSUME NEW x \in Reported(r, ans) PROVE x \in Acked'
  <2>1. ans.st = "done" /\ body[r].kind \in FsKinds /\ x = <<r, ans.op, ans.new>>
    BY DEF Reported
  <2> QED  BY <1>1, <2>1 DEF Acked
<1> QED  BY <1>2, <1>3, <1>4

(* A success that is told describes the effect of its request.              *)
LEMMA ReportsAreTrue ==
  ASSUME TypeInv', StoreInv', RequestInv', NEW r \in Rids, NEW ans, <<r, ans>> \in told',
         ans.st = "done", body'[r].kind \in FsKinds
  PROVE  \E e \in Fate'[r] : e.op = ans.op /\ e.new = ans.new
<1>1. Backed(r, ans)'
  <2>1. PICK a \in told' : a[1] = r /\ a[2] = ans
    OBVIOUS
  <2> QED  BY <2>1 DEF RequestInv, ClaimPart
<1>2. PICK i \in OpIds : Committed(i, r)' /\ Stored(i)' = ans
  BY <1>1 DEF Backed, FsKinds
<1>3. ops'[i].st = "fs" /\ ops'[i].rid = r
  BY <1>2 DEF Committed, IsCommitted, StoreInv, RecordPart, IsExec, FsKinds
<1>4. EffectOf(i)' \in effects'
  BY <1>3 DEF StoreInv, RecordPart, Made
<1>5. ans.op = i /\ ans.new = ops'[i].new
  <2>1. ops'[i].kind \in FsKinds
    BY <1>3 DEF TypeInv, RecordShape
  <2>2. Stored(i)'.op = i /\ Stored(i)'.new = ops'[i].new
    BY <2>1 DEF Stored, Reconstruct, Done, FsKinds
  <2> QED  BY <1>2, <2>2
<1>6. PICK path, old, new : path = ops'[i].path /\ old = ops'[i].old /\ new = ops'[i].new
  OBVIOUS
<1>7. EffectOf(i)' = [rid |-> r, op |-> i, path |-> path, old |-> old, new |-> new]
  BY <1>3, <1>6 DEF EffectOf
<1>8. [op |-> i, path |-> path, old |-> old, new |-> new] \in Fate'[r]
  BY <1>4, <1>7 DEF Fate
<1>9. /\ [op |-> i, path |-> path, old |-> old, new |-> new].op = i
      /\ [op |-> i, path |-> path, old |-> old, new |-> new].new = new
  OBVIOUS
<1> QED  BY <1>5, <1>6, <1>8, <1>9

(* A line to the client is a report, or says nothing about a mutation.      *)
LEMMA TellsService ==
  ASSUME TypeInv', StoreInv', RequestInv', NEW r \in Rids, NEW ans,
         told' = told \cup {<<r, ans>>}, UNCHANGED <<file, effects, body>>
  PROVE  Service!Report(r) \/ UNCHANGED Service!vars
<1>1. Acked' = Acked \cup Reported(r, ans) /\ Fate' = Fate
  BY AckedGrows DEF Fate
<1>2. CASE Reported(r, ans) = {}
  BY <1>1, <1>2 DEF Service!vars
<1>3. CASE Reported(r, ans) # {}
  <2>1. ans.st = "done" /\ body'[r].kind \in FsKinds
    BY <1>3 DEF Reported
  <2>2. <<r, ans>> \in told'
    OBVIOUS
  <2>3. PICK e \in Fate[r] : e.op = ans.op /\ e.new = ans.new
    BY <1>1, <2>1, <2>2, ReportsAreTrue
  <2>4. Acked' = Acked \cup {<<r, e.op, e.new>>}
    BY <1>1, <2>1, <2>3 DEF Reported
  <2> QED  BY <1>1, <2>4 DEF Service!Report
<1> QED  BY <1>2, <1>3


(* An install is the one step in which a request takes effect: the marker    *)
(* of its operation is the request's only record, and it was not made.      *)
LEMMA InstallService ==
  ASSUME TypeInv, WalInv, Plain, StoreInv, RequestInv, NEW t \in Tasks, FsInstall(t)
  PROVE  Service!Apply(task[t].rid, task[t].op, task[t].path, task[t].new)
<1>0. PICK r, k, p, new : /\ r = task[t].rid /\ k = task[t].op /\ p = task[t].path
                          /\ new = task[t].new
  OBVIOUS
<1>1. task[t].pc = "install" /\ r \in Rids /\ k \in OpIds /\ p \in Paths
  BY <1>0 DEF FsInstall, At, TypeInv, TaskShape, FsSteps
<1>2. PICK old : old = file[p]
  OBVIOUS
<1>3. /\ file' = [file EXCEPT ![p] = new] /\ UNCHANGED <<told, body>>
      /\ effects' = effects \cup
            {[rid |-> r, op |-> k, path |-> p, old |-> old, new |-> new]}
  BY <1>0, <1>2 DEF FsInstall, Install
<1>4. new # file[p]
  BY <1>0, <1>1 DEF StoreInv, LookPart
<1>5. ops[k].st = "prepared" /\ ops[k].rid = r /\ ~Made(k)
  BY <1>0, <1>1 DEF WalInv, StoreInv, WritePart
<1>6. ASSUME NEW e \in effects PROVE e.op # k /\ e.rid # r
  <2>1. e.op \in OpIds /\ e = EffectOf(e.op) /\ ops[e.op].st \in FsRecs
    BY DEF Plain, TypeInv, TypeOK, StoreInv, EffectPart
  <2>2. e.op # k
    BY <1>5, <2>1 DEF Made
  <2>3. e.rid = ops[e.op].rid
    BY <2>1 DEF EffectOf
  <2>4. RecordRid(ops[k]) = r /\ r # NoRid /\ RecordClaim(k)
    BY <1>1, <1>5, SentinelAssumption DEF SentinelAssumption, RecordRid, RequestInv
  <2>5. e.rid = r => RecordRid(ops[e.op]) = r
    BY <2>1, <2>3 DEF RecordRid, FsRecs
  <2> QED  BY <1>5, <2>1, <2>2, <2>4, <2>5 DEF RecordClaim
<1>7. Fate[r] = {}
  BY <1>1, <1>6 DEF Fate
<1>8. \A q \in Rids : \A e \in Fate[q] : e.op # k
  BY <1>6 DEF Fate
<1>9. Acked' = Acked
  BY <1>3 DEF Acked
<1>10. Fate' = [Fate EXCEPT ![r] = {[op |-> k, path |-> p, old |-> old, new |-> new]}]
  <2> DEFINE made == [rid |-> r, op |-> k, path |-> p, old |-> old, new |-> new]
             img(e) == [op |-> e.op, path |-> e.path, old |-> e.old, new |-> e.new]
             by(q, s) == {img(e) : e \in {f \in s : f.rid = q}}
  <2>1. made.rid = r /\ img(made) = [op |-> k, path |-> p, old |-> old, new |-> new]
    OBVIOUS
  <2>2. Fate = [q \in Rids |-> by(q, effects)] /\ Fate' = [q \in Rids |-> by(q, effects')]
    BY DEF Fate
  <2>3. effects' = effects \cup {made}
    BY <1>3
  <2> HIDE DEF made, img
  <2>4. by(r, effects') = {img(made)}
    BY <1>6, <2>1, <2>3
  <2>5. \A q \in Rids \ {r} : by(q, effects') = by(q, effects)
    BY <2>1, <2>3
  <2> HIDE DEF by
  <2> QED  BY <1>1, <2>1, <2>2, <2>4, <2>5
<1> QED  BY <1>0, <1>2, <1>3, <1>4, <1>7, <1>8, <1>9, <1>10 DEF Service!Apply


(* Every calm step is a step of the service, or invisible.                  *)
LEMMA ServiceStep ==
  ASSUME NeverPrunes, IInv, IInv', Unpruned, StoreInv, StoreInv', RequestInv, RequestInv',
         CalmStep
  PROVE  [Service!Next]_(Service!vars)
<1> USE DEF IInv, WalIInv
<1> DEFINE Goal == Service!Next \/ UNCHANGED Service!vars
<1> SUFFICES Goal
  OBVIOUS
<1>1. ASSUME NEW r \in Rids, NEW ans, told' = told \cup {<<r, ans>>},
             UNCHANGED <<file, effects, body>>
      PROVE  Goal
  BY <1>1, TellsService DEF Service!Next
<1>2. ASSUME UNCHANGED <<file, effects, told, body>> PROVE Goal
  BY <1>2 DEF Service!vars, Fate, Acked
<1> HIDE DEF Goal
<1>3. ASSUME NEW t \in Tasks, NEW r \in Rids, ReceiveSeen(t, r) \/ ReceiveNew(t, r) PROVE Goal
  <2>1. CASE ReceiveSeen(t, r)
    BY <1>1, <2>1 DEF ReceiveSeen
  <2>2. CASE ReceiveNew(t, r)
    BY <1>2, <2>2 DEF ReceiveNew, ghosts
  <2> QED  BY <1>3, <2>1, <2>2
<1>4. ASSUME NEW t \in Tasks, CalmTask(t) PROVE Goal
  <2>1. CASE ClaimLost(t) \/ RememberInsert(t)
    <3>1. task[t].rid \in Rids
      BY <2>1 DEF ClaimLost, RememberInsert, At, TypeInv, TaskShape
    <3>2. CASE ClaimLost(t)
      BY <1>1, <3>1, <3>2 DEF ClaimLost
    <3>3. CASE RememberInsert(t)
      BY <1>1, <3>1, <3>3 DEF RememberInsert
    <3> QED  BY <2>1, <3>2, <3>3
  <2>2. CASE FsInstall(t)
    <3>1. /\ task[t].rid \in Rids /\ task[t].op \in OpIds /\ task[t].path \in Paths
          /\ task[t].new \in State
      BY <2>2 DEF FsInstall, At, TypeInv, TypeOK, TaskShape, TaskStates, FsSteps
    <3> QED  BY <2>2, <3>1, UnprunedPlain, InstallService DEF Goal, Service!Next
  <2>3. CASE ~(ClaimLost(t) \/ RememberInsert(t) \/ FsInstall(t))
    <3>1. UNCHANGED <<file, effects, told, body>>
      BY <1>4, <2>3 DEF CalmTask, ghosts, ClaimAppend, ClaimWon, RememberAppend, ReadOnly,
         FsCheck, FsReadReject, GcBegin, ExecStart, ExecAppend, ExecPush, FsBlob, FsPrepare,
         FsInstallRefused, FsCommit
    <3> QED  BY <1>2, <3>1
  <2> QED  BY <2>1, <2>2, <2>3
<1>5. CASE Crash \/ Start \/ RecoverStep \/ UNCHANGED vars
  <2>1. UNCHANGED <<file, effects, told, body>>
    BY <1>5 DEF Crash, Start, RecoverStep, RecoverMarker, RecoverRemember, RecoverStuck,
                RecoverDone, vars, ghosts
  <2> QED  BY <1>2, <2>1
<1> QED  BY <1>3, <1>4, <1>5 DEF CalmStep

(* Nothing has happened at first.                                           *)
LEMMA ServiceInit == Init => Service!Init
<1> SUFFICES ASSUME Init PROVE Service!Init
  OBVIOUS
<1>1. effects = {} /\ told = {} /\ file \in [Paths -> State]
  BY FilesAssumption DEF FilesAssumption, Init
<1>2. Fate = [r \in Rids |-> {}] /\ Acked = {}
  BY <1>1 DEF Fate, Acked
<1> QED  BY <1>1, <1>2 DEF Service!Init

(* Without failing calls and foreign writes nothing disturbs the server.    *)
LEMMA NothingDisturbs ==
  ASSUME MaxFails = 0, MaxExternal = 0
  PROVE  Spec => []Undisturbed
<1>1. Init => Undisturbed
  BY DEF Init, Undisturbed
<1>2. Undisturbed /\ [Next]_vars => Undisturbed'
  <2> SUFFICES ASSUME Undisturbed, [Next]_vars PROVE UNCHANGED <<fails, externals>>
    BY DEF Undisturbed
  <2> USE DEF bounds
  <2>1. ~(fails < MaxFails) /\ ~(externals < MaxExternal)
    BY DEF Undisturbed
  <2>2. ASSUME NEW t \in Tasks, NEW r \in Rids, ReceiveSeen(t, r) \/ ReceiveNew(t, r)
        PROVE  UNCHANGED <<fails, externals>>
    BY <2>2 DEF ReceiveSeen, ReceiveNew
  <2>3. ASSUME NEW t \in Tasks, TaskStep(t) PROVE UNCHANGED <<fails, externals>>
    BY <2>1, <2>3 DEF TaskStep, Failing, ClaimAppend, ClaimFail, ClaimLost, ClaimWon,
       RememberAppend, RememberFail, RememberInsert, ReadOnly, FsCheck, FsReadReject, GcBegin,
       ExecStart, ExecAppend, ExecAppendFail, ExecPush, FsBlob, FsBlobFail, FsPrepare,
       FsPrepareFail, FsInstall, FsInstallRefused, FsInstallFail, FsCommit, FsCommitFail
  <2>4. CASE PruneStep
    BY <2>1, <2>4 DEF PruneStep, PruneTruncate, PruneCounter, PruneOps, PruneReqs, PruneBlobs,
                      PruneFail, Failing
  <2>5. CASE Crash \/ Start \/ StartRefused \/ RecoverStep \/ Waiting \/ UNCHANGED vars
    BY <2>5 DEF Crash, Start, StartRefused, RecoverStep, RecoverMarker, RecoverRemember,
                RecoverStuck, RecoverDone, Waiting, vars
  <2>6. ASSUME NEW p \in Paths, NEW v \in State \cup {Unresolvable}, External(p, v)
        PROVE  UNCHANGED <<fails, externals>>
    BY <2>1, <2>6 DEF External
  <2> QED  BY <2>2, <2>3, <2>4, <2>5, <2>6 DEF Next
<1> QED  BY <1>1, <1>2, PTL DEF Spec

(* The server implements the at-most-once service (ImplementsService): a     *)
(* mutation takes effect in one step, once per request and under an          *)
(* operation id of its own, and a success describes that effect.  Claims,    *)
(* logs, tables, crashes, recovery and replays do not show.                 *)
THEOREM ServiceImplemented ==
  ASSUME NeverPrunes, MaxFails = 0, MaxExternal = 0
  PROVE  Spec => ImplementsService
<1>1. CalmRequests /\ Undisturbed /\ (CalmRequests /\ Undisturbed)' /\ [Next]_vars
        => [Service!Next]_(Service!vars)
  <2> SUFFICES ASSUME CalmRequests, Undisturbed, CalmRequests', Undisturbed', [Next]_vars
               PROVE  [Service!Next]_(Service!vars)
    OBVIOUS
  <2>1. CalmStep
    BY CalmSteps, UnprunedCalm DEF CalmRequests, CalmInv, IInv
  <2> QED  BY <2>1, ServiceStep DEF CalmRequests, CalmInv
<1> QED  BY <1>1, ServiceInit, RequestsInductive, NothingDisturbs, PTL
         DEF Spec, ImplementsService, Service!Spec

-----------------------------------------------------------------------------
(* Operation ids, whatever fails and however much is pruned.                *)

(* Operation i is on record as one of request r: the client was told, or     *)
(* will be, or the history says so.                                         *)
ToldId(i, r) == \E a \in told : a[1] = r /\ a[2].op = i
Owed(i, r) ==
    \E t \in Tasks : /\ task[t].pc \in {"remember", "stored"} /\ task[t].rid = r
                     /\ task[t].ans.op = i \/ task[t].say.op = i
Known(i, r) ==
    \/ ToldId(i, r) \/ Owed(i, r)
    \/ reqs[r].ans.op = i \/ mreqs[r].ans.op = i
    \/ recov.rid = r /\ recov.ans.op = i
    \/ RecordRid(mops[i]) = r

(* Request r has operation i, known or not.                                 *)
Holds(i, r) ==
    \/ Known(i, r) \/ RecordRid(ops[i]) = r
    \/ \E t \in Tasks : task[t].rid = r /\ task[t].op = i

(* A restart gives i to nobody: a line of the log has it, or the counter     *)
(* file is above it or keeps the server from starting.                      *)
Barred(i) == ops[i].st # "none" \/ counter = Corrupt \/ i <= counter

(* An id has one request. One that is known is barred, and by the counter    *)
(* file alone while a prune is about to rewrite the log.                    *)
IdPart(i) ==
    /\ \A r, q \in Rids : Holds(i, r) /\ Holds(i, q) => r = q
    /\ \A r \in Rids : Holds(i, r) /\ srv # "down" => i <= nextId
    /\ \A r \in Rids : Known(i, r) => Barred(i) /\ (prune.stage = "ops" => i <= counter)

IdTask(t) ==
    LET me == task[t] IN
    /\ me.pc = "idle" => me.op = 0
    /\ me.pc \in {"exec_append", "exec_push"} =>
           /\ BodyOf(t).kind = "exec" /\ (me.ans.st = "error" => me.ans.op = 0)
           /\ me.ans.op \in {0, me.op} /\ me.say.op \in {0, me.op}
    /\ me.pc = "exec_push" => ops[me.op].st # "none"

IdPrune ==
    /\ prune.stage # "idle" /\ prune.by # NoTask => Keep(BodyOf(prune.by)) # NoLimit
    /\ prune.stage = "ops" => counter # Corrupt

IdsInv == (\A i \in OpIds : IdPart(i)) /\ (\A t \in Tasks : IdTask(t)) /\ IdPrune

-----------------------------------------------------------------------------
(* A step that gives at most one id, the next one, and only makes ids known  *)
(* that are barred.                                                         *)
LEMMA IdsFrame ==
  ASSUME TypeInv, IdsInv, NEW own,
         nextId' \in Nat, srv' # "down" => srv # "down" /\ nextId <= nextId',
         \A i \in OpIds, r \in Rids : Holds(i, r)' =>
             Holds(i, r) \/ (srv # "down" /\ i = nextId' /\ nextId < nextId' /\ r = own),
         \A i \in OpIds, r \in Rids : Known(i, r)' =>
             Barred(i)' /\ (prune'.stage = "ops" => i <= counter'),
         \A t \in Tasks : IdTask(t)',
         IdPrune'
  PROVE  IdsInv'
<1> SUFFICES ASSUME NEW i \in OpIds PROVE IdPart(i)'
  BY DEF IdsInv
<1>1. IdPart(i) /\ i \in Nat /\ nextId \in Nat
  BY IdTypes DEF IdsInv
<1>2. ASSUME NEW r \in Rids, NEW q \in Rids, Holds(i, r)', Holds(i, q)' PROVE r = q
  <2>1. CASE Holds(i, r) /\ Holds(i, q)
    BY <1>1, <2>1 DEF IdPart
  <2>2. CASE ~Holds(i, r)
    <3>1. srv # "down" /\ i = nextId' /\ nextId < nextId' /\ r = own
      BY <1>2, <2>2
    <3>2. ~Holds(i, q)
      BY <1>1, <3>1 DEF IdPart
    <3> QED  BY <1>2, <3>1, <3>2
  <2>3. CASE ~Holds(i, q)
    <3>1. srv # "down" /\ i = nextId' /\ nextId < nextId' /\ q = own
      BY <1>2, <2>3
    <3>2. ~Holds(i, r)
      BY <1>1, <3>1 DEF IdPart
    <3> QED  BY <1>2, <3>1, <3>2
  <2> QED  BY <2>1, <2>2, <2>3
<1>3. ASSUME NEW r \in Rids, Holds(i, r)', srv' # "down" PROVE i <= nextId'
  <2>1. CASE Holds(i, r)
    BY <1>1, <1>3, <2>1 DEF IdPart
  <2>2. CASE ~Holds(i, r)
    BY <1>1, <1>3, <2>2
  <2> QED  BY <2>1, <2>2
<1> QED  BY <1>2, <1>3 DEF IdPart

(* A step that makes nothing known and writes neither log nor counter.       *)
LEMMA KnownKept ==
  ASSUME IdsInv, UNCHANGED <<ops, counter>>, prune'.stage = "ops" => prune.stage = "ops",
         \A i \in OpIds, r \in Rids : Known(i, r)' => Known(i, r)
  PROVE  \A i \in OpIds, r \in Rids : Known(i, r)' =>
             Barred(i)' /\ (prune'.stage = "ops" => i <= counter')
  BY DEF IdsInv, IdPart, Barred

(* Requests that are under way when a prune begins are under way when it     *)
(* writes.                                                                  *)
LEMMA OthersIds ==
  ASSUME IdsInv, NEW t \in Tasks, Moves(t), body' = body,
         \A i \in OpIds : ops[i].st # "none" => ops'[i].st # "none",
         TypeInv
  PROVE  \A u \in Tasks : u # t => IdTask(u)'
<1>1. \A u \in Tasks : task[u].pc = "exec_push" => task[u].op \in OpIds
  BY DEF TypeInv, TaskShape
<1> QED  BY <1>1 DEF IdsInv, IdTask, Moves, BodyOf

(* The owner of a prune waits.                                              *)
LEMMA IdPruneKept ==
  ASSUME TypeInv, PhaseInv, IdsInv, NEW t \in Tasks, Moves(t), UNCHANGED <<prune, counter, body>>,
         task[t].pc = "begin" => task'[t].rid = task[t].rid
  PROVE  IdPrune'
<1>1. ASSUME prune.stage # "idle", prune.by # NoTask PROVE Keep(BodyOf(prune.by))' # NoLimit
  <2>1. task[prune.by].pc = "begin" /\ prune.by \in Tasks
    BY <1>1 DEF TypeInv, TypeOK, PruneShape
  <2>2. task'[prune.by].rid = task[prune.by].rid
    BY <2>1 DEF Moves
  <2> QED  BY <1>1, <2>2 DEF IdsInv, IdPrune, Keep, BodyOf
<1> QED  BY <1>1 DEF IdsInv, IdPrune

(* Errors, claims and entries that are taken from the table name no new id.  *)
LEMMA NoIds ==
  /\ \A code : Err(code).op = 0 /\ Err(code).st = "error"
  /\ \A e : Replay(e).op = 0 \/ Replay(e) = e.ans
  /\ NoAnswer.op = 0 /\ NoEntry.ans = NoAnswer
  /\ \A kind : InProgress(kind).ans = NoAnswer
  /\ \A status, ans : Terminal(status, ans).ans = ans
  /\ \A op, old, new : Done(op, old, new).op = op
  /\ IdleTask.pc = "idle" /\ IdleTask.op = 0 /\ IdleTask.rid = NoRid
  /\ 0 \notin OpIds
<1>1. \A code : Err(code).op = 0 /\ Err(code).st = "error"
  BY DEF Err, NoAnswer
<1>2. \A e : Replay(e).op = 0 \/ Replay(e) = e.ans
  BY <1>1 DEF Replay
<1>3. NoAnswer.op = 0 /\ NoEntry.ans = NoAnswer
  BY DEF NoAnswer, NoEntry
<1>4. \A kind : InProgress(kind).ans = NoAnswer
  BY DEF InProgress, NoEntry
<1>5. \A status, ans : Terminal(status, ans).ans = ans
  BY DEF Terminal, NoEntry
<1>6. \A op, old, new : Done(op, old, new).op = op
  BY DEF Done
<1>7. IdleTask.pc = "idle" /\ IdleTask.op = 0 /\ IdleTask.rid = NoRid
  BY DEF IdleTask
<1>8. 0 \notin OpIds
  BY DEF OpIds
<1> QED  BY <1>1, <1>2, <1>3, <1>4, <1>5, <1>6, <1>7, <1>8

(* A task that stays away from records, and tells, stores or owes only what  *)
(* is known.                                                                *)
LEMMA QuietIds ==
  ASSUME TypeInv, TypeInv', PhaseInv, IdsInv, NEW t \in Tasks, Quiet(t), UNCHANGED <<body, recov>>,
         \A i \in OpIds, r \in Rids :
             ToldId(i, r)' \/ reqs'[r].ans.op = i \/ mreqs'[r].ans.op = i => Known(i, r),
         task'[t].pc \in {"remember", "stored"} =>
             \A i \in OpIds : task'[t].ans.op = i \/ task'[t].say.op = i => Known(i, task'[t].rid),
         task'[t].pc = "idle" => task'[t].op = 0,
         task'[t].op = 0 \/ task'[t].rid = task[t].rid,
         task[t].pc = "begin" => task'[t].rid = task[t].rid
  PROVE  IdsInv'
<1>1. Moves(t) /\ UNCHANGED <<ops, counter, mops, prune>> /\ task'[t].pc \notin Logging
  BY DEF Quiet
<1>2. nextId \in Nat /\ nextId' \in Nat /\ nextId <= nextId' /\ srv # "down"
  BY IdTypes DEF Quiet, Moves
<1>3. \A i \in OpIds, r \in Rids : Known(i, r)' => Known(i, r)
  <2> TAKE i \in OpIds, r \in Rids
  <2>1. Owed(i, r)' => Known(i, r)
    BY <1>1 DEF Owed, Moves, Known
  <2>2. recov' = recov /\ mops'[i] = mops[i]
    BY <1>1
  <2> QED  BY <2>1, <2>2 DEF Known
<1>4. \A i \in OpIds, r \in Rids : Holds(i, r)' => Holds(i, r)
  <2> TAKE i \in OpIds, r \in Rids
  <2>1. \A u \in Tasks : task'[u].rid = r /\ task'[u].op = i => task[u].rid = r /\ task[u].op = i
    <3> TAKE u \in Tasks
    <3>1. CASE u = t
      BY <3>1, NoIds DEF Quiet
    <3>2. CASE u # t
      BY <1>1, <3>2 DEF Moves
    <3> QED  BY <3>1, <3>2
  <2> QED  BY <1>1, <1>3, <2>1 DEF Holds
<1>5. \A u \in Tasks : IdTask(u)'
  <2>1. IdTask(t)'
    BY <1>1 DEF IdTask, Logging
  <2>2. \A u \in Tasks : u # t => IdTask(u)'
    BY <1>1, OthersIds
  <2> QED  BY <2>1, <2>2
<1>6. IdPrune'
  BY <1>1, IdPruneKept
<1>7. \A i \in OpIds, r \in Rids : Known(i, r)' =>
             Barred(i)' /\ (prune'.stage = "ops" => i <= counter')
  BY <1>1, <1>3, KnownKept
<1> QED  BY <1>2, <1>4, <1>5, <1>6, <1>7, IdsFrame

(* Claims and replays.                                                      *)
LEMMA ClaimIds ==
  ASSUME TypeInv, TypeInv', PhaseInv, IdsInv, NEW t \in Tasks,
         \/ \E r \in Rids : ReceiveSeen(t, r) \/ ReceiveNew(t, r)
         \/ ClaimAppend(t) \/ ClaimFail(t) \/ ClaimLost(t) \/ ClaimWon(t)
  PROVE  IdsInv'
<1> USE DEF At, disk, tables, ghosts
<1>0. Quiet(t) /\ task[t] \in TaskStates /\ task \in [Tasks -> TaskStates] /\ IdTask(t)
  BY QuietClaims DEF TypeInv, TypeOK, IdsInv
<1>1. ASSUME NEW r \in Rids, ReceiveSeen(t, r) PROVE IdsInv'
  <2>1. /\ told' = told \cup {<<r, Replay(mreqs[r])>>}
        /\ UNCHANGED <<reqs, mreqs, task, body, recov>> /\ task[t].pc = "idle"
    BY <1>1 DEF ReceiveSeen
  <2>2. \A i \in OpIds, q \in Rids :
            ToldId(i, q)' \/ reqs'[q].ans.op = i \/ mreqs'[q].ans.op = i => Known(i, q)
    BY <2>1, NoIds DEF ToldId, Known
  <2> QED  BY <1>0, <2>1, <2>2, QuietIds DEF IdTask
<1>2. ASSUME NEW r \in Rids, ReceiveNew(t, r) PROVE IdsInv'
  <2>1. /\ UNCHANGED <<reqs, mreqs, told, body, recov>> /\ task[t].pc = "idle"
        /\ task'[t] = [task[t] EXCEPT !.pc = "claim", !.rid = r]
    BY <1>0, <1>2 DEF ReceiveNew
  <2>2. task'[t].pc = "claim" /\ task'[t].op = task[t].op
    BY <1>0, <2>1 DEF TaskStates
  <2>3. \A i \in OpIds, q \in Rids :
            ToldId(i, q)' \/ reqs'[q].ans.op = i \/ mreqs'[q].ans.op = i => Known(i, q)
    BY <2>1 DEF ToldId, Known
  <2> QED  BY <1>0, <2>1, <2>2, <2>3, QuietIds DEF IdTask
<1>3. CASE ClaimAppend(t) \/ ClaimWon(t)
  <2>1. PICK pc \in {"insert", "begin"} : /\ task' = [task EXCEPT ![t].pc = pc]
                                          /\ UNCHANGED <<told, body, recov>>
    BY <1>3 DEF ClaimAppend, ClaimWon
  <2>2. task'[t].pc = pc /\ task'[t].op = task[t].op /\ task'[t].rid = task[t].rid
    BY <1>0, <2>1 DEF TaskStates
  <2>3. \A q \in Rids : /\ reqs'[q].ans \in {reqs[q].ans, NoAnswer}
                        /\ mreqs'[q].ans \in {mreqs[q].ans, NoAnswer}
    BY <1>3, NoIds DEF ClaimAppend, ClaimWon, TypeInv, TypeOK
  <2>4. \A i \in OpIds, q \in Rids :
            ToldId(i, q)' \/ reqs'[q].ans.op = i \/ mreqs'[q].ans.op = i => Known(i, q)
    BY <2>1, <2>3, NoIds DEF ToldId, Known
  <2> QED  BY <1>0, <2>1, <2>2, <2>4, QuietIds
<1>4. CASE ClaimFail(t) \/ ClaimLost(t)
  <2>1. /\ task' = [task EXCEPT ![t] = IdleTask] /\ UNCHANGED <<body, recov, mreqs>>
        /\ srv = "up" /\ srv' = srv /\ task[t].rid \in Rids /\ task[t].pc # "begin"
    BY <1>4 DEF ClaimFail, ClaimLost, TypeInv, TaskShape
  <2>2. task'[t].pc = "idle" /\ task'[t].op = 0
    BY <2>1, IdleMoves
  <2>3. \A q \in Rids : reqs'[q].ans \in {reqs[q].ans, NoAnswer}
    BY <1>4, NoIds DEF ClaimFail, ClaimLost, TypeInv, TypeOK
  <2>4. PICK ans : /\ told' = told \cup {<<task[t].rid, ans>>}
                   /\ ans.op = 0 \/ ans = mreqs[task[t].rid].ans
    BY <1>4, NoIds DEF ClaimFail, ClaimLost
  <2>5. \A i \in OpIds, q \in Rids :
            ToldId(i, q)' \/ reqs'[q].ans.op = i \/ mreqs'[q].ans.op = i => Known(i, q)
    BY <2>1, <2>3, <2>4, NoIds DEF ToldId, Known
  <2> QED  BY <1>0, <2>1, <2>2, <2>5, QuietIds
<1> QED  BY <1>1, <1>2, <1>3, <1>4

(* What finish() stores and tells is what it owed.                          *)
LEMMA RememberIds ==
  ASSUME TypeInv, TypeInv', PhaseInv, IdsInv, NEW t \in Tasks,
         RememberAppend(t) \/ RememberFail(t) \/ RememberInsert(t)
  PROVE  IdsInv'
<1> USE DEF At, disk, tables, ghosts
<1>0. /\ Quiet(t) /\ task[t] \in TaskStates /\ task \in [Tasks -> TaskStates]
      /\ task[t].pc \in {"remember", "stored"} /\ task[t].rid \in Rids
      /\ UNCHANGED <<body, recov>> /\ srv = "up" /\ srv' = srv
  BY QuietClaims DEF TypeInv, TypeOK, TaskShape, RememberAppend, RememberFail, RememberInsert
<1>1. \A i \in OpIds : task[t].ans.op = i \/ task[t].say.op = i => Known(i, task[t].rid)
  BY <1>0 DEF Known, Owed
<1>2. \A q \in Rids : /\ \/ reqs'[q].ans = reqs[q].ans
                         \/ q = task[t].rid /\ reqs'[q].ans = task[t].ans
                      /\ \/ mreqs'[q].ans = mreqs[q].ans
                         \/ q = task[t].rid /\ mreqs'[q].ans = task[t].ans
  BY <1>0, NoIds DEF RememberAppend, RememberFail, RememberInsert, TypeInv, TypeOK
<1>3. \A i \in OpIds, q \in Rids : ToldId(i, q)' => Known(i, q)
  <2>1. \/ told' = told
        \/ told' = told \cup {<<task[t].rid, Err("IoError")>>}
        \/ told' = told \cup {<<task[t].rid, task[t].say>>}
    BY DEF RememberAppend, RememberFail, RememberInsert
  <2>2. CASE told' = told \cup {<<task[t].rid, task[t].say>>}
    BY <1>1, <2>2 DEF ToldId, Known
  <2> QED  BY <2>1, <2>2, NoIds DEF ToldId, Known
<1>4. \A i \in OpIds, q \in Rids :
          ToldId(i, q)' \/ reqs'[q].ans.op = i \/ mreqs'[q].ans.op = i => Known(i, q)
  <2> TAKE i \in OpIds, q \in Rids
  <2>1. reqs'[q].ans.op = i => Known(i, q)
    BY <1>1, <1>2 DEF Known
  <2>2. mreqs'[q].ans.op = i => Known(i, q)
    BY <1>1, <1>2 DEF Known
  <2> QED  BY <1>3, <2>1, <2>2
<1>5. CASE RememberAppend(t)
  <2>1. task' = [task EXCEPT ![t].pc = "stored"]
    BY <1>5 DEF RememberAppend
  <2>2. /\ task'[t].pc = "stored" /\ task'[t].op = task[t].op /\ task'[t].rid = task[t].rid
        /\ task'[t].ans = task[t].ans /\ task'[t].say = task[t].say
    BY <1>0, <2>1 DEF TaskStates
  <2> QED  BY <1>0, <1>1, <1>4, <2>2, QuietIds
<1>6. CASE RememberFail(t) \/ RememberInsert(t)
  <2>1. task' = [task EXCEPT ![t] = IdleTask]
    BY <1>6 DEF RememberFail, RememberInsert
  <2>2. task'[t].pc = "idle" /\ task'[t].op = 0
    BY <1>0, <2>1, IdleMoves
  <2> QED  BY <1>0, <1>4, <2>2, QuietIds
<1> QED  BY <1>5, <1>6

(* Handlers that end without an operation, and mutations on their way.       *)
LEMMA HandlerIds ==
  ASSUME TypeInv, TypeInv', PhaseInv, IdsInv, NEW t \in Tasks, Quiet(t),
         UNCHANGED <<body, recov, reqs, mreqs, told>>, task[t].rid \in Rids,
         task'[t].rid = task[t].rid, task'[t].pc \notin {"idle", "stored"},
         task'[t].pc = "remember" => task'[t].ans.op = 0 /\ task'[t].say.op = 0
  PROVE  IdsInv'
<1>1. \A i \in OpIds, q \in Rids :
          ToldId(i, q)' \/ reqs'[q].ans.op = i \/ mreqs'[q].ans.op = i => Known(i, q)
  BY DEF ToldId, Known
<1>2. task'[t].pc \in {"remember", "stored"} =>
          \A i \in OpIds : task'[t].ans.op = i \/ task'[t].say.op = i => Known(i, task'[t].rid)
  BY NoIds
<1> QED  BY <1>1, <1>2, QuietIds

(* Such a handler finishes with an answer that names no operation.          *)
LEMMA FinishIds ==
  ASSUME TypeInv, TypeInv', PhaseInv, IdsInv, NEW t \in Tasks,
         \/ ReadOnly(t) \/ FsReadReject(t) \/ FsBlobFail(t) \/ FsInstallRefused(t)
  PROVE  IdsInv'
<1> USE DEF At, disk, tables, ghosts
<1>1. /\ srv = "up" /\ srv' = srv /\ task[t].pc # "idle" /\ task[t].rid \in Rids
      /\ UNCHANGED <<body, recov, reqs, mreqs, told>>
  BY DEF ReadOnly, FsReadReject, FsBlobFail, FsInstallRefused, TypeInv, TaskShape
<1>2. PICK ans \in Answers : FinishWith(t, ans) /\ ans.op = 0
  <2>1. CASE ReadOnly(t)
    <3> DEFINE f == file[BodyOf(t).path]
    <3>1. BodyOf(t) \in Bodies
      BY <1>1 DEF BodyOf, TypeInv, TypeOK
    <3>2. CASE f = Unresolvable
      BY <2>1, <3>2, ErrTypes, NoIds DEF ReadOnly, Codes
    <3>3. CASE f # Unresolvable /\ f = Absent
      BY <2>1, <3>3, ErrTypes, NoIds DEF ReadOnly, Codes
    <3>4. CASE f # Unresolvable /\ f # Absent
      <4>1. f \in State /\ Absent \in State /\ 0 \in 0..MaxOps
        BY <3>1, <3>4, MaxOpsAssumption
           DEF MaxOpsAssumption, TypeInv, TypeOK, Bodies, State
      <4>2. FinishWith(t, Done(0, Absent, f))
        BY <2>1, <3>4 DEF ReadOnly
      <4> QED  BY <4>1, <4>2, AnswerTypes, NoIds
    <3> QED  BY <3>2, <3>3, <3>4
  <2>2. CASE ~ReadOnly(t)
    <3>1. \E code \in Codes : FinishWith(t, Err(code))
      BY <2>2 DEF FsReadReject, FsBlobFail, FsInstallRefused, SecondLookError, InstallError,
                  Codes
    <3> QED  BY <3>1, ErrTypes, NoIds
  <2> QED  BY <2>1, <2>2
<1>3. /\ task'[t].pc = "remember" /\ task'[t].rid = task[t].rid
      /\ task'[t].ans = ans /\ task'[t].say = ans
  BY <1>1, <1>2, FinishTask
<1> QED  BY <1>1, <1>2, <1>3, QuietHandlers, HandlerIds

(* The first look of a mutation, and the mutation itself.                   *)
LEMMA MutationIds ==
  ASSUME TypeInv, TypeInv', PhaseInv, IdsInv, NEW t \in Tasks, FsCheck(t)
  PROVE  IdsInv'
<1> USE DEF At, disk, tables, ghosts
<1>1. /\ srv = "up" /\ srv' = srv /\ task[t].pc = "begin" /\ task[t].rid \in Rids
      /\ UNCHANGED <<body, recov, reqs, mreqs, told>> /\ task[t] \in TaskStates
  BY DEF FsCheck, TypeInv, TypeOK, TaskShape
<1> DEFINE b == BodyOf(t)
           target == mops[b.target]
           path == IF b.kind = "undo" THEN target.path ELSE b.path
           f == IF path \in Paths THEN file[path] ELSE Absent
           error == CASE b.kind = "create" -> CreateError(f)
                      [] b.kind = "edit"   -> EditError(b, f)
                      [] b.kind = "delete" -> DeleteError(f)
                      [] OTHER             -> UndoError(target, f, blobs[b.target])
           old == IF b.kind \in {"edit", "undo"} THEN f ELSE Absent
           blob == IF b.kind = "delete" THEN f ELSE Absent
           new == CASE b.kind = "create" -> b.new
                    [] b.kind = "undo" /\ target.old # Absent -> blobs[b.target]
                    [] OTHER -> Absent
           next == [task[t] EXCEPT !.pc = "read", !.path = path, !.old = old,
                                   !.blob = blob, !.new = new]
<1>2. FinishWith(t, Err(error)) \/ task' = [task EXCEPT ![t] = next]
  BY DEF FsCheck
<1>3. error \in Codes
  BY DEF Codes, CreateError, EditError, DeleteError, UndoError
<1> HIDE DEF error, path, old, blob, new
<1>4. CASE FinishWith(t, Err(error))
  <2>1. Err(error) \in Answers /\ Err(error).op = 0
    BY <1>3, ErrTypes, NoIds
  <2>2. /\ task'[t].pc = "remember" /\ task'[t].rid = task[t].rid
        /\ task'[t].ans = Err(error) /\ task'[t].say = Err(error)
    BY <1>1, <1>4, <2>1, FinishTask
  <2> QED  BY <1>1, <2>1, <2>2, QuietFsCheck, HandlerIds
<1>5. CASE task' = [task EXCEPT ![t] = next]
  <2>1. next.pc = "read" /\ next.rid = task[t].rid
    BY <1>1 DEF TaskStates
  <2> HIDE DEF next
  <2>2. task'[t].pc = "read" /\ task'[t].rid = task[t].rid
    BY <1>5, <2>1 DEF TypeInv, TypeOK
  <2> QED  BY <1>1, <2>2, QuietFsCheck, HandlerIds
<1> QED  BY <1>2, <1>4, <1>5

(* A task that writes the record of its own operation, or comes to owe its   *)
(* answer once the record is in the log.                                    *)
LEMMA WriteIds ==
  ASSUME TypeInv, TypeInv', PhaseInv, IdsInv, NEW t \in Tasks, Moves(t), task[t].rid \in Rids,
         UNCHANGED <<counter, prune, body, recov, reqs, mreqs, told, nextId>>,
         task'[t].rid = task[t].rid, task'[t].op = task[t].op,
         \A i \in OpIds : \/ ops'[i] = ops[i]
                          \/ /\ i = task[t].op /\ ops'[i].st # "none"
                             /\ RecordRid(ops'[i]) = task[t].rid,
         \A i \in OpIds : \/ mops'[i] = mops[i]
                          \/ /\ i = task[t].op /\ ops'[i].st # "none" /\ prune.stage # "ops"
                             /\ RecordRid(mops'[i]) = task[t].rid,
         \A i \in OpIds : task'[t].pc = "remember" /\ (task'[t].ans.op = i \/ task'[t].say.op = i)
             => i = task[t].op /\ ops'[i].st # "none" /\ prune.stage # "ops",
         task'[t].pc # "stored", IdTask(t)'
  PROVE  IdsInv'
<1>1. nextId \in Nat /\ srv # "down"
  BY IdTypes DEF Moves
<1>2. ASSUME NEW i \in OpIds, NEW r \in Rids, Known(i, r)'
      PROVE  \/ Known(i, r)
             \/ i = task[t].op /\ r = task[t].rid /\ ops'[i].st # "none" /\ prune.stage # "ops"
  <2>1. CASE Owed(i, r)'
    BY <2>1 DEF Owed, Known, Moves
  <2>2. CASE ToldId(i, r)' \/ reqs'[r].ans.op = i \/ mreqs'[r].ans.op = i
             \/ (recov'.rid = r /\ recov'.ans.op = i)
    BY <2>2 DEF ToldId, Known
  <2>3. CASE RecordRid(mops'[i]) = r
    BY <2>3 DEF Known
  <2> QED  BY <1>2, <2>1, <2>2, <2>3 DEF Known
<1>3. \A i \in OpIds, r \in Rids : Holds(i, r)' => Holds(i, r)
  <2> TAKE i \in OpIds, r \in Rids
  <2>1. \A u \in Tasks : task'[u].rid = r /\ task'[u].op = i => task[u].rid = r /\ task[u].op = i
    BY DEF Moves
  <2>2. RecordRid(ops'[i]) = r => Holds(i, r)
    BY DEF Holds
  <2>3. Known(i, r)' => Holds(i, r)
    BY <1>2 DEF Holds
  <2> QED  BY <2>1, <2>2, <2>3 DEF Holds
<1>4. \A i \in OpIds : ops[i].st # "none" => ops'[i].st # "none"
  OBVIOUS
<1>5. ASSUME NEW i \in OpIds, NEW r \in Rids, Known(i, r)'
      PROVE  Barred(i)' /\ (prune'.stage = "ops" => i <= counter')
  <2>1. CASE Known(i, r)
    BY <1>4, <2>1 DEF IdsInv, IdPart, Barred
  <2>2. CASE ~Known(i, r)
    BY <1>2, <1>5, <2>2 DEF Barred
  <2> QED  BY <2>1, <2>2
<1>6. \A u \in Tasks : IdTask(u)'
  <2>1. \A u \in Tasks : u # t => IdTask(u)'
    BY <1>4, OthersIds
  <2> QED  BY <2>1
<1>7. IdPrune'
  BY IdPruneKept
<1> QED  BY <1>1, <1>3, <1>5, <1>6, <1>7, IdsFrame

(* A task of a mutation ends, or goes on, with its operation.               *)
LEMMA FsAnswerIds ==
  ASSUME TypeInv, NEW t \in Tasks, task[t].pc \in FsSteps, task[t].op \in OpIds
  PROVE  FsAnswer(t) \in Answers /\ FsAnswer(t).op = task[t].op
<1>1. BodyOf(t) \in Bodies /\ task[t] \in TaskStates
  BY DEF TypeInv, TypeOK, TaskShape, BodyOf, FsSteps
<1>2. mops[BodyOf(t).target].old \in State
  BY <1>1 DEF TypeInv, TypeOK, Bodies, Records
<1>3. task[t].op \in 0..MaxOps /\ task[t].old \in State /\ task[t].new \in State
  BY <1>1 DEF TaskStates
<1> QED  BY <1>2, <1>3, AnswerTypes, NoIds DEF FsAnswer

(* The steps of a mutation from its id on.                                  *)
LEMMA FsWriteIds ==
  ASSUME TypeInv, TypeInv', PhaseInv, IdsInv, NEW t \in Tasks,
         \/ FsPrepare(t) \/ FsPrepareFail(t) \/ FsInstall(t) \/ FsInstallFail(t)
         \/ FsCommit(t) \/ FsCommitFail(t)
  PROVE  IdsInv'
<1> USE DEF At, disk, tables, ghosts
<1>1. /\ srv = "up" /\ srv' = srv /\ task[t].pc \in FsSteps \ {"read"} /\ task[t].rid \in Rids
      /\ task[t].op \in OpIds /\ task[t] \in TaskStates
      /\ UNCHANGED <<counter, prune, body, recov, reqs, mreqs, told, nextId>>
      /\ ops \in [OpIds -> Records] /\ mops \in [OpIds -> Records]
      /\ task \in [Tasks -> TaskStates]
  BY DEF FsPrepare, FsPrepareFail, FsInstall, FsInstallFail, FsCommit, FsCommitFail, TypeInv,
         TypeOK, TaskShape, FsSteps
<1>2. prune.stage = "idle"
  BY <1>1, PruneAlone
<1>3. \A st, ts : /\ FsRecord(t, st, ts).st = st
                  /\ st \in {"prepared", "fs"} => RecordRid(FsRecord(t, st, ts)) = task[t].rid
  BY DEF FsRecord, RecordRid
<1>4. /\ ops' = ops \/ \E st \in {"prepared", "fs"} : ops' = [ops EXCEPT ![task[t].op] = FsRecord(t, st, now)]
      /\ mops' = mops \/ (/\ mops' = [mops EXCEPT ![task[t].op] = FsRecord(t, "fs", now)]
                          /\ ops' = [ops EXCEPT ![task[t].op] = FsRecord(t, "fs", now)])
  BY DEF FsPrepare, FsPrepareFail, FsInstall, FsInstallFail, FsCommit, FsCommitFail
<1>5. \A i \in OpIds : \/ ops'[i] = ops[i]
                       \/ /\ i = task[t].op /\ ops'[i].st # "none"
                          /\ RecordRid(ops'[i]) = task[t].rid
  BY <1>1, <1>3, <1>4
<1>6. \A i \in OpIds : \/ mops'[i] = mops[i]
                       \/ /\ i = task[t].op /\ ops'[i].st # "none" /\ prune.stage # "ops"
                          /\ RecordRid(mops'[i]) = task[t].rid
  BY <1>1, <1>2, <1>3, <1>4
<1>7. /\ Moves(t) /\ task'[t].rid = task[t].rid /\ task'[t].op = task[t].op
      /\ task'[t].pc \in {"install", "commit", "remember"}
      /\ \A i \in OpIds : task'[t].pc = "remember" /\ (task'[t].ans.op = i \/ task'[t].say.op = i)
             => i = task[t].op /\ ops'[i].st # "none" /\ prune.stage # "ops"
  <2>1. CASE FsPrepare(t) \/ FsInstall(t)
    <3>1. PICK pc \in {"install", "commit"} : task' = [task EXCEPT ![t].pc = pc]
      BY <2>1 DEF FsPrepare, FsInstall
    <3>2. task'[t].pc = pc /\ task'[t].rid = task[t].rid /\ task'[t].op = task[t].op
      BY <1>1, <3>1 DEF TaskStates
    <3> QED  BY <1>1, <3>1, <3>2 DEF Moves
  <2>2. CASE FsPrepareFail(t) \/ FsInstallFail(t) \/ FsCommitFail(t)
    <3>1. FinishWith(t, Err("IoError")) /\ Err("IoError") \in Answers
      BY <2>2, ErrTypes DEF FsPrepareFail, FsInstallFail, FsCommitFail, Codes
    <3> QED  BY <1>1, <3>1, FinishTask, NoIds
  <2>3. CASE FsCommit(t)
    <3>1. FinishWith(t, FsAnswer(t)) /\ FsAnswer(t) \in Answers /\ FsAnswer(t).op = task[t].op
      BY <1>1, <2>3, FsAnswerIds DEF FsCommit
    <3>2. ops'[task[t].op].st # "none"
      BY <1>1, <1>3, <2>3 DEF FsCommit
    <3> QED  BY <1>1, <1>2, <3>1, <3>2, FinishTask
  <2> QED  BY <2>1, <2>2, <2>3
<1>8. IdTask(t)'
  BY <1>7 DEF IdTask
<1> QED  BY <1>1, <1>5, <1>6, <1>7, <1>8, WriteIds

(* A command that has ended stores its record, then its answer.             *)
LEMMA ExecWriteIds ==
  ASSUME TypeInv, TypeInv', PhaseInv, IdsInv, NEW t \in Tasks,
         ExecAppend(t) \/ ExecAppendFail(t) \/ ExecPush(t)
  PROVE  IdsInv'
<1> USE DEF At, disk, tables, ghosts
<1>1. /\ srv = "up" /\ srv' = srv /\ task[t].pc \in {"exec_append", "exec_push"}
      /\ task[t].rid \in Rids /\ task[t].op \in OpIds /\ task[t] \in TaskStates
      /\ UNCHANGED <<counter, prune, body, recov, reqs, mreqs, told, nextId>>
      /\ ops \in [OpIds -> Records] /\ mops \in [OpIds -> Records]
      /\ task \in [Tasks -> TaskStates] /\ task[t].ans.st \in {"done", "error"} /\ IdTask(t)
  BY DEF ExecAppend, ExecAppendFail, ExecPush, TypeInv, TypeOK, TaskShape, IdsInv
<1>2. \A ts : ExecRecord(t, ts).st = "exec" /\ RecordRid(ExecRecord(t, ts)) = task[t].rid
  BY DEF ExecRecord, NoRec, RecordRid
<1>3. CASE ExecAppend(t)
  <2> DEFINE next == [task[t] EXCEPT !.pc = "exec_push", !.ts = now]
  <2>1. next.pc = "exec_push" /\ next.op = task[t].op /\ next.rid = task[t].rid
        /\ next.ans = task[t].ans /\ next.say = task[t].say
    BY <1>1 DEF TaskStates
  <2>2. /\ task' = [task EXCEPT ![t] = next] /\ mops' = mops
        /\ ops' = [ops EXCEPT ![task[t].op] = ExecRecord(t, now)] /\ task[t].pc = "exec_append"
    BY <1>3 DEF ExecAppend
  <2> HIDE DEF next
  <2>3. task'[t] = next /\ Moves(t)
    BY <1>1, <2>2 DEF Moves
  <2>4. \A i \in OpIds : \/ ops'[i] = ops[i]
                         \/ /\ i = task[t].op /\ ops'[i].st # "none"
                            /\ RecordRid(ops'[i]) = task[t].rid
    BY <1>1, <1>2, <2>2
  <2>5. ops'[task[t].op].st # "none" /\ BodyOf(t)' = BodyOf(t)
    BY <1>1, <1>2, <2>1, <2>2, <2>3 DEF BodyOf
  <2>6. IdTask(t)'
    BY <1>1, <2>1, <2>2, <2>3, <2>5 DEF IdTask
  <2> QED  BY <1>1, <2>1, <2>2, <2>3, <2>4, <2>6, WriteIds
<1>4. CASE ExecAppendFail(t)
  <2> DEFINE ans == IF task[t].ans.st = "done" THEN Err("IoError") ELSE task[t].ans
             next == [task[t] EXCEPT !.pc = "remember", !.say = Err("IoError"), !.ans = ans]
  <2>1. ans.op = 0
    BY <1>1, <1>4, NoIds DEF IdTask
  <2> HIDE DEF ans
  <2>2. next.pc = "remember" /\ next.op = task[t].op /\ next.rid = task[t].rid
        /\ next.ans = ans /\ next.say = Err("IoError")
    BY <1>1 DEF TaskStates
  <2>3. /\ task' = [task EXCEPT ![t] = next] /\ mops' = mops
        /\ ops' = ops \/ ops' = [ops EXCEPT ![task[t].op] = ExecRecord(t, now)]
    BY <1>4 DEF ExecAppendFail, ans
  <2> HIDE DEF next
  <2>4. task'[t] = next /\ Moves(t)
    BY <1>1, <2>3 DEF Moves
  <2>5. \A i \in OpIds : \/ ops'[i] = ops[i]
                         \/ /\ i = task[t].op /\ ops'[i].st # "none"
                            /\ RecordRid(ops'[i]) = task[t].rid
    BY <1>1, <1>2, <2>3
  <2>6. IdTask(t)'
    BY <2>2, <2>4 DEF IdTask
  <2>7. task'[t].ans.op = 0 /\ task'[t].say.op = 0
    BY <2>1, <2>2, <2>4, NoIds
  <2> QED  BY <1>1, <2>2, <2>3, <2>4, <2>5, <2>6, <2>7, NoIds, WriteIds
<1>5. CASE ExecPush(t)
  <2>1. /\ task' = [task EXCEPT ![t].pc = "remember"] /\ ops' = ops /\ prune.stage = "idle"
        /\ mops' = [mops EXCEPT ![task[t].op] = ExecRecord(t, task[t].ts)]
        /\ task[t].pc = "exec_push"
    BY <1>5 DEF ExecPush, TablesFree
  <2>2. /\ task'[t].pc = "remember" /\ task'[t].op = task[t].op /\ task'[t].rid = task[t].rid
        /\ task'[t].ans = task[t].ans /\ task'[t].say = task[t].say /\ Moves(t)
    BY <1>1, <2>1 DEF TaskStates, Moves
  <2>3. ops'[task[t].op].st # "none"
    BY <1>1, <2>1 DEF IdTask
  <2>4. \A i \in OpIds : \/ mops'[i] = mops[i]
                         \/ /\ i = task[t].op /\ ops'[i].st # "none" /\ prune.stage # "ops"
                            /\ RecordRid(mops'[i]) = task[t].rid
    BY <1>1, <1>2, <2>1, <2>3
  <2>5. \A i \in OpIds : task'[t].ans.op = i \/ task'[t].say.op = i => i = task[t].op
    BY <1>1, <2>2, NoIds DEF IdTask
  <2>6. IdTask(t)'
    BY <2>2 DEF IdTask
  <2> QED  BY <1>1, <2>1, <2>2, <2>3, <2>4, <2>5, <2>6, WriteIds
<1> QED  BY <1>3, <1>4, <1>5

(* The next id is nobody's.                                                 *)
LEMMA TakesIds ==
  ASSUME TypeInv, TypeInv', PhaseInv, IdsInv, NEW t \in Tasks,
         FsBlob(t) \/ ExecStart(t, TRUE) \/ ExecStart(t, FALSE)
  PROVE  IdsInv'
<1> USE DEF At, disk, tables, ghosts
<1>1. TakesId(t)
  BY TakesIdSteps
<1>2. /\ Moves(t) /\ task'[t].op = nextId + 1 /\ task'[t].rid = task[t].rid
      /\ nextId' = nextId + 1 /\ UNCHANGED <<ops, counter, mops, prune>>
      /\ task'[t].pc \in {"prepare", "exec_append"}
  BY <1>1 DEF TakesId
<1>3. UNCHANGED <<body, recov, reqs, mreqs, told>> /\ task[t].rid \in Rids
  BY DEF FsBlob, ExecStart, TypeInv, TaskShape
<1>4. nextId \in Nat /\ nextId' \in Nat /\ nextId < nextId' /\ srv # "down"
  BY <1>2, IdTypes DEF Moves
<1>5. \A i \in OpIds, r \in Rids : Known(i, r)' => Known(i, r)
  <2> TAKE i \in OpIds, r \in Rids
  <2>1. Owed(i, r)' => Owed(i, r)
    BY <1>2 DEF Owed, Moves
  <2> QED  BY <1>2, <1>3, <2>1 DEF Known, ToldId
<1>6. \A i \in OpIds, r \in Rids : Holds(i, r)' =>
          Holds(i, r) \/ (srv # "down" /\ i = nextId' /\ nextId < nextId' /\ r = task[t].rid)
  <2> TAKE i \in OpIds, r \in Rids
  <2>1. ASSUME NEW u \in Tasks, task'[u].rid = r, task'[u].op = i
        PROVE  \/ task[u].rid = r /\ task[u].op = i
               \/ i = nextId' /\ r = task[t].rid
    BY <1>2, <2>1 DEF Moves
  <2> QED  BY <1>2, <1>4, <1>5, <2>1 DEF Holds
<1>7. IdTask(t)'
  <2>1. CASE FsBlob(t)
    <3>1. task'[t].pc = "prepare"
      <4> DEFINE look == SecondLook(t)
                 next == [task[t] EXCEPT !.pc = "prepare", !.op = nextId + 1,
                              !.old = look.old, !.new = look.new, !.blob = look.blob]
      <4>1. next.pc = "prepare"
        BY DEF TypeInv, TypeOK, TaskStates
      <4>2. task' = [task EXCEPT ![t] = next]
        BY <2>1 DEF FsBlob
      <4> HIDE DEF next
      <4> QED  BY <4>1, <4>2 DEF TypeInv, TypeOK
    <3> QED  BY <3>1 DEF IdTask
  <2>2. CASE ExecStart(t, TRUE) \/ ExecStart(t, FALSE)
    <3>0. PICK k : k = nextId + 1
      OBVIOUS
    <3>1. PICK ans \in {Done(k, Absent, Absent), Err("ExecFailed")} :
             task' = [task EXCEPT ![t] = [@ EXCEPT !.pc = "exec_append", !.op = k, !.ans = ans,
                                                   !.say = ans]]
      BY <2>2, <3>0 DEF ExecStart
    <3> DEFINE next == [task[t] EXCEPT !.pc = "exec_append", !.op = k, !.ans = ans, !.say = ans]
    <3>2. next.pc = "exec_append" /\ next.op = k /\ next.ans = ans /\ next.say = ans
      BY DEF TypeInv, TypeOK, TaskStates
    <3>3. task' = [task EXCEPT ![t] = next]
      BY <3>1
    <3> HIDE DEF next
    <3>4. task'[t] = next
      BY <3>3 DEF TypeInv, TypeOK
    <3>5. ans.op \in {0, k} /\ (ans.st = "error" => ans.op = 0)
      BY NoIds DEF Done
    <3>6. BodyOf(t)'.kind = "exec"
      BY <1>2, <1>3, <2>2 DEF ExecStart, Kind, BodyOf
    <3> QED  BY <3>2, <3>4, <3>5, <3>6 DEF IdTask
  <2> QED  BY <2>1, <2>2
<1>8. \A u \in Tasks : IdTask(u)'
  <2>1. \A u \in Tasks : u # t => IdTask(u)'
    BY <1>2, <1>3, OthersIds
  <2> QED  BY <1>7, <2>1
<1>9. IdPrune'
  BY <1>2, <1>3, IdPruneKept
<1>10. \A i \in OpIds, r \in Rids : Known(i, r)' =>
             Barred(i)' /\ (prune'.stage = "ops" => i <= counter')
  BY <1>2, <1>5, KnownKept
<1> QED  BY <1>4, <1>6, <1>8, <1>9, <1>10, IdsFrame

-----------------------------------------------------------------------------
(* Prunes, crashes and recovery.                                            *)

(* A step that moves no task and makes nothing known.                       *)
LEMMA SameTaskIds ==
  ASSUME TypeInv, TypeInv', IdsInv, UNCHANGED <<ops, task, body, nextId>>,
         srv' # "down" => srv # "down",
         \A i \in OpIds, r \in Rids : Known(i, r)' => Known(i, r),
         \A i \in OpIds, r \in Rids : Known(i, r) =>
             Barred(i)' /\ (prune'.stage = "ops" => i <= counter'),
         IdPrune'
  PROVE  IdsInv'
<1>1. nextId \in Nat
  BY IdTypes
<1>2. \A i \in OpIds, r \in Rids : Holds(i, r)' => Holds(i, r)
  BY DEF Holds
<1>3. \A t \in Tasks : IdTask(t)'
  BY DEF IdsInv, IdTask, BodyOf
<1> QED  BY <1>1, <1>2, <1>3, IdsFrame

(* What a trim leaves in the tables was there.                              *)
LEMMA TrimKnown ==
  ASSUME TypeInv, NEW keep, NEW by, PruneTrim(keep, by),
         UNCHANGED <<told, task, reqs, recov>>
  PROVE  \A i \in OpIds, r \in Rids : Known(i, r)' => Known(i, r)
<1> TAKE i \in OpIds, r \in Rids
<1>1. mops'[i] \in {mops[i], NoRec}
  BY TrimTypes DEF PruneTrim, TypeInv, TypeOK
<1>2. mreqs'[r] \in {mreqs[r], NoEntry}
  BY DEF PruneTrim, TrimRequests
<1>3. RecordRid(NoRec) = NoRid /\ NoRid \notin Rids /\ NoEntry.ans.op = 0
  BY SentinelAssumption, NoIds DEF SentinelAssumption, RecordRid, NoRec
<1> QED  BY <1>1, <1>2, <1>3, NoIds DEF Known, ToldId, Owed

(* gc and the startup prune begin.                                          *)
LEMMA TrimIds ==
  ASSUME TypeInv, TypeInv', PhaseInv, IdsInv, (\E t \in Tasks : GcBegin(t)) \/ RecoverDone
  PROVE  IdsInv'
<1> USE DEF disk, ghosts
<1>1. ASSUME NEW t \in Tasks, GcBegin(t) PROVE IdsInv'
  <2>1. /\ srv = "up" /\ srv' = srv /\ task[t].pc = "begin" /\ task[t].rid \in Rids
        /\ UNCHANGED <<ops, counter, nextId, reqs, told, body, recov, effects>>
        /\ \/ FinishWith(t, Err("InvalidRequest")) /\ UNCHANGED <<mops, mreqs, prune>>
           \/ /\ PruneTrim(Keep(BodyOf(t)), t) /\ UNCHANGED task
              /\ Keep(BodyOf(t)) # NoLimit
    BY <1>1 DEF GcBegin, At, Keep, TypeInv, TaskShape
  <2>2. CASE FinishWith(t, Err("InvalidRequest")) /\ UNCHANGED <<mops, mreqs, prune>>
    <3>1. Err("InvalidRequest") \in Answers /\ Err("InvalidRequest").op = 0
      BY ErrTypes, NoIds DEF Codes
    <3>2. /\ Moves(t) /\ task'[t].pc = "remember" /\ task'[t].op = task[t].op
          /\ task'[t].rid = task[t].rid /\ task'[t].ans = Err("InvalidRequest")
          /\ task'[t].say = Err("InvalidRequest")
      BY <2>1, <2>2, <3>1, FinishTask
    <3>3. Quiet(t)
      BY <2>1, <2>2, <3>2 DEF Quiet, Logging
    <3> QED  BY <2>1, <2>2, <3>1, <3>2, <3>3, HandlerIds
  <2>3. CASE /\ PruneTrim(Keep(BodyOf(t)), t) /\ UNCHANGED task
             /\ Keep(BodyOf(t)) # NoLimit
    <3>1. \A i \in OpIds, r \in Rids : Known(i, r)' => Known(i, r)
      BY <2>1, <2>3, TrimKnown
    <3>2. prune'.stage = "truncate" /\ prune'.by = t
      BY <2>3 DEF PruneTrim
    <3>3. IdPrune'
      BY <2>1, <2>3, <3>2 DEF IdPrune, BodyOf, Keep
    <3>4. \A i \in OpIds, r \in Rids : Known(i, r) =>
              Barred(i)' /\ (prune'.stage = "ops" => i <= counter')
      BY <2>1, <3>2 DEF IdsInv, IdPart, Barred
    <3> QED  BY <2>1, <2>3, <3>1, <3>3, <3>4, SameTaskIds
  <2> QED  BY <2>1, <2>2, <2>3
<1>2. CASE RecoverDone
  <2>1. /\ srv = "recover" /\ srv' # "down" /\ prune.stage = "idle"
        /\ UNCHANGED <<ops, counter, nextId, reqs, told, body, recov, task>>
        /\ \/ UNCHANGED <<mops, mreqs, prune>>
           \/ PruneTrim(HistoryLimit, NoTask)
    BY <1>2 DEF RecoverDone, Recovering, TablesFree
  <2>2. \A i \in OpIds, r \in Rids : Known(i, r)' => Known(i, r)
    BY <2>1, TrimKnown DEF Known, ToldId, Owed
  <2>3. prune'.stage = "idle" \/ (prune'.stage = "truncate" /\ prune'.by = NoTask)
    BY <2>1 DEF PruneTrim
  <2>4. IdPrune'
    BY <2>3 DEF IdPrune
  <2>5. \A i \in OpIds, r \in Rids : Known(i, r) =>
            Barred(i)' /\ (prune'.stage = "ops" => i <= counter')
    BY <2>1, <2>3 DEF IdsInv, IdPart, Barred
  <2> QED  BY <2>1, <2>2, <2>4, <2>5, SameTaskIds
<1> QED  BY <1>1, <1>2

(* The counter is above every id before the log loses a line.               *)
LEMMA PruneWriteIds ==
  ASSUME TypeInv, TypeInv', PhaseInv, IdsInv, PruneTruncate \/ PruneCounter \/ PruneReqs
  PROVE  IdsInv'
<1> USE DEF tables, ghosts
<1>1. /\ prune.stage # "idle" /\ prune'.stage # "idle" /\ prune'.by = prune.by
      /\ UNCHANGED <<ops, mops, mreqs, told, recov, nextId, srv, task, body>>
      /\ prune'.stage = "ops" <=> PruneCounter
  BY DEF PruneTruncate, PruneCounter, PruneReqs, TypeInv, TypeOK
<1>2. srv # "down" /\ nextId \in Nat
  BY <1>1, PruneAlone, IdTypes
<1>3. \A i \in OpIds, r \in Rids : Known(i, r)' => Known(i, r)
  <2>1. reqs' = reqs \/ reqs' = mreqs
    BY DEF PruneTruncate, PruneCounter, PruneReqs
  <2> QED  BY <1>1, <2>1 DEF Known, ToldId, Owed
<1>4. ASSUME NEW i \in OpIds, NEW r \in Rids, Known(i, r)
      PROVE  Barred(i)' /\ (prune'.stage = "ops" => i <= counter')
  <2>1. i <= nextId /\ Barred(i)
    BY <1>2, <1>4 DEF IdsInv, IdPart, Holds
  <2>2. CASE PruneTruncate
    BY <1>1, <2>2 DEF PruneTruncate, Barred, PruneCounter
  <2>3. CASE PruneCounter
    BY <1>1, <2>1, <2>3 DEF PruneCounter, Barred
  <2>4. CASE PruneReqs
    BY <1>1, <2>1, <2>4 DEF PruneReqs, Barred, PruneCounter
  <2> QED  BY <2>2, <2>3, <2>4
<1>5. IdPrune'
  <2>1. prune'.stage = "ops" => counter' # Corrupt
    BY <1>1, <1>2 DEF PruneCounter, Corrupt
  <2> QED  BY <1>1, <2>1 DEF IdsInv, IdPrune, Keep, BodyOf
<1> QED  BY <1>1, <1>2, <1>3, <1>4, <1>5, SameTaskIds

(* The log is rewritten: what it loses, the counter bars. No command is      *)
(* about to store a record.                                                 *)
LEMMA PruneOpsIds ==
  ASSUME TypeInv, TypeInv', PhaseInv, ~Racy, IdsInv, PruneOps
  PROVE  IdsInv'
<1> USE DEF tables, ghosts
<1>1. /\ prune.stage = "ops" /\ prune'.stage = "reqs" /\ prune'.by = prune.by /\ ops' = mops
      /\ UNCHANGED <<counter, mops, mreqs, reqs, told, recov, nextId, srv, task, body>>
  BY DEF PruneOps, TypeInv, TypeOK
<1>2. srv # "down" /\ nextId \in Nat
  BY <1>1, PruneAlone, IdTypes
<1>3. \A i \in OpIds, r \in Rids : Known(i, r)' <=> Known(i, r)
  BY <1>1 DEF Known, ToldId, Owed
<1>4. \A i \in OpIds, r \in Rids : Holds(i, r)' => Holds(i, r)
  <2> TAKE i \in OpIds, r \in Rids
  <2>1. RecordRid(ops'[i]) = r => Known(i, r)
    BY <1>1 DEF Known
  <2> QED  BY <1>1, <1>3, <2>1 DEF Holds
<1>5. \A i \in OpIds, r \in Rids : Known(i, r)' =>
          Barred(i)' /\ (prune'.stage = "ops" => i <= counter')
  BY <1>1, <1>3 DEF IdsInv, IdPart, Barred
<1>6. ASSUME NEW t \in Tasks, task[t].pc = "exec_push" PROVE FALSE
  <2>1. BodyOf(t).kind = "exec" /\ task[t].rid \in Rids
    BY <1>6 DEF IdsInv, IdTask, TypeInv, TaskShape
  <2>2. IdleTask.pc = "idle"
    BY NoIds
  <2>3. srv = "up"
    BY <1>6, <2>2 DEF PhaseInv
  <2>4. prune.by # NoTask /\ prune.by \in Tasks
    BY <1>1, <2>3 DEF PhaseInv, TypeInv, TypeOK
  <2>5. /\ task[prune.by].rid \in Rids /\ BodyOf(prune.by).kind = "gc"
        /\ Keep(BodyOf(prune.by)) # NoLimit
    BY <1>1, <2>4 DEF TypeInv, PruneShape, TaskShape, IdsInv, IdPrune
  <2> QED  BY <2>1, <2>5 DEF Racy, BodyOf
<1>7. \A t \in Tasks : IdTask(t)'
  BY <1>1, <1>6 DEF IdsInv, IdTask, BodyOf
<1>8. IdPrune'
  BY <1>1 DEF IdsInv, IdPrune, Keep, BodyOf
<1> QED  BY <1>1, <1>2, <1>4, <1>5, <1>7, <1>8, IdsFrame

(* A prune ends, well or not.                                               *)
LEMMA PruneEndIds ==
  ASSUME TypeInv, TypeInv', PhaseInv, IdsInv, PruneBlobs \/ PruneFail
  PROVE  IdsInv'
<1> USE DEF disk, tables, ghosts
<1>1. /\ prune.stage # "idle" /\ prune' = NoPrune
      /\ UNCHANGED <<ops, counter, mops, mreqs, reqs, told, recov, nextId, body>>
  BY DEF PruneBlobs, PruneFail
<1>2. srv # "down" /\ nextId \in Nat /\ prune'.stage = "idle"
  BY <1>1, PruneAlone, IdTypes DEF NoPrune
<1>3. IdPrune'
  BY <1>2 DEF IdPrune
<1>4. CASE UNCHANGED task /\ srv' = "up"
  <2>1. \A i \in OpIds, r \in Rids : Known(i, r)' => Known(i, r)
    BY <1>1, <1>4 DEF Known, ToldId, Owed
  <2>2. \A i \in OpIds, r \in Rids : Known(i, r) =>
            Barred(i)' /\ (prune'.stage = "ops" => i <= counter')
    BY <1>1, <1>2 DEF IdsInv, IdPart, Barred
  <2> QED  BY <1>1, <1>2, <1>3, <1>4, <2>1, <2>2, SameTaskIds
<1>5. ASSUME prune.by # NoTask, srv' = srv, NEW ans \in Answers, ans.op = 0,
             FinishWith(prune.by, ans)
      PROVE  IdsInv'
  <2>1. PICK t \in Tasks : t = prune.by
    BY <1>5 DEF TypeInv, TypeOK
  <2>2. srv = "up"
    BY <1>1, <1>5 DEF PhaseInv
  <2>3. /\ Moves(t) /\ task'[t].pc = "remember" /\ task'[t].op = task[t].op
        /\ task'[t].rid = task[t].rid /\ task'[t].ans = ans /\ task'[t].say = ans
    BY <1>5, <2>1, <2>2, FinishTask
  <2>4. \A i \in OpIds, r \in Rids : Known(i, r)' => Known(i, r)
    <3> TAKE i \in OpIds, r \in Rids
    <3>1. Owed(i, r)' => Owed(i, r)
      BY <1>5, <2>3, NoIds DEF Owed, Moves
    <3> QED  BY <1>1, <3>1 DEF Known, ToldId
  <2>5. \A i \in OpIds, r \in Rids : Holds(i, r)' => Holds(i, r)
    <3> TAKE i \in OpIds, r \in Rids
    <3>1. \A u \in Tasks : task'[u].rid = task[u].rid /\ task'[u].op = task[u].op
      BY <2>3 DEF Moves
    <3> QED  BY <1>1, <2>4, <3>1 DEF Holds
  <2>6. \A u \in Tasks : IdTask(u)'
    <3>1. IdTask(t)'
      BY <2>3 DEF IdTask
    <3>2. \A u \in Tasks : u # t => IdTask(u)'
      BY <1>1, <2>3, OthersIds
    <3> QED  BY <3>1, <3>2
  <2>7. \A i \in OpIds, r \in Rids : Known(i, r)' =>
            Barred(i)' /\ (prune'.stage = "ops" => i <= counter')
    BY <1>1, <1>2, <2>4, KnownKept
  <2> QED  BY <1>1, <1>2, <1>3, <1>5, <2>5, <2>6, <2>7, IdsFrame
<1>6. CASE PruneBlobs
  <2>1. Done(0, Absent, Absent) \in Answers /\ Done(0, Absent, Absent).op = 0
    BY AnswerTypes, NoIds, MaxOpsAssumption DEF MaxOpsAssumption, State
  <2> QED  BY <1>4, <1>5, <1>6, <2>1 DEF PruneBlobs
<1>7. CASE PruneFail
  <2>1. Err("IoError") \in Answers
    BY AnswerTypes DEF Codes
  <2> QED  BY <1>5, <1>7, <2>1, NoIds DEF PruneFail
<1> QED  BY <1>6, <1>7

(* Death leaves what was told and the two logs.                             *)
LEMMA CrashIds ==
  ASSUME TypeInv, IdsInv, Crash
  PROVE  IdsInv'
<1>1. /\ srv' = "down" /\ prune'.stage = "idle" /\ nextId' = 0
      /\ UNCHANGED <<ops, reqs, counter, told>> /\ recov' = NoRecov
      /\ \A i \in OpIds : mops'[i] = NoRec
      /\ \A r \in Rids : mreqs'[r] = NoEntry
      /\ \A t \in Tasks : task'[t] = IdleTask
  BY DEF Crash, NoPrune, disk, ghosts
<1>2. RecordRid(NoRec) = NoRid /\ NoRid \notin Rids /\ NoRecov.rid = NoRid /\ nextId' \in Nat
  BY <1>1, SentinelAssumption DEF SentinelAssumption, RecordRid, NoRec, NoRecov
<1>3. \A i \in OpIds, r \in Rids : Known(i, r)' => Known(i, r)
  BY <1>1, <1>2, NoIds DEF Known, ToldId, Owed
<1>4. \A i \in OpIds, r \in Rids : Holds(i, r)' => Holds(i, r)
  BY <1>1, <1>2, <1>3, NoIds DEF Holds
<1>5. (\A t \in Tasks : IdTask(t)') /\ IdPrune'
  BY <1>1, NoIds DEF IdTask, IdPrune
<1>6. \A i \in OpIds, r \in Rids : Known(i, r)' =>
          Barred(i)' /\ (prune'.stage = "ops" => i <= counter')
  BY <1>1, <1>3, KnownKept
<1> QED  BY <1>1, <1>2, <1>4, <1>5, <1>6, IdsFrame

(* A restart continues above every id that is known or in the log.          *)
LEMMA StartIds ==
  ASSUME TypeInv, TypeInv', PhaseInv, IdsInv, Start
  PROVE  IdsInv'
<1>1. /\ srv = "down" /\ srv' = "recover" /\ mops' = ops /\ mreqs' = reqs /\ counter # Corrupt
      /\ UNCHANGED <<ops, reqs, counter, told, prune, task, recov, body>>
      /\ IsHighWater(nextId', counter, ops)
  BY DEF Start, disk, ghosts
<1>2. \A t \in Tasks : task[t].op = 0 /\ task[t].pc = "idle"
  BY <1>1, NoIds DEF PhaseInv
<1>3. /\ counter \in Nat /\ nextId' \in Nat /\ counter <= nextId'
      /\ \A i \in OpIds : ops[i].st # "none" => i <= nextId'
  BY <1>1, MaxOpsAssumption DEF MaxOpsAssumption, IsHighWater, Live, TypeInv, TypeOK
<1>4. prune.stage = "idle"
  BY <1>1 DEF PhaseInv
<1>5. \A i \in OpIds, r \in Rids : Known(i, r)' => Known(i, r) \/ RecordRid(ops[i]) = r
  BY <1>1 DEF Known, ToldId, Owed
<1>6. \A i \in OpIds, r \in Rids : Holds(i, r)' => Holds(i, r)
  BY <1>1, <1>5 DEF Holds
<1>7. ASSUME NEW i \in OpIds, NEW r \in Rids, Holds(i, r) PROVE Barred(i)
  <2>1. CASE Known(i, r)
    BY <2>1 DEF IdsInv, IdPart
  <2>2. CASE RecordRid(ops[i]) = r
    <3>1. NoRid \notin Rids
      BY SentinelAssumption DEF SentinelAssumption
    <3> QED  BY <2>2, <3>1 DEF Barred, RecordRid
  <2> QED  BY <1>2, <1>7, <2>1, <2>2, NoIds DEF Holds
<1>8. ASSUME NEW i \in OpIds PROVE IdPart(i)'
  <2>1. \A r, q \in Rids : Holds(i, r)' /\ Holds(i, q)' => r = q
    BY <1>6 DEF IdsInv, IdPart
  <2>2. i \in Nat
    BY IdTypes
  <2>3. \A r \in Rids : Holds(i, r)' => i <= nextId'
    BY <1>1, <1>3, <1>6, <1>7, <2>2 DEF Barred
  <2>4. \A r \in Rids : Known(i, r)' => Barred(i)'
    <3>1. \A r \in Rids : Known(i, r)' => Barred(i)
      BY <1>5, <1>7 DEF Holds
    <3> QED  BY <1>1, <3>1 DEF Barred
  <2>5. prune'.stage # "ops"
    BY <1>1, <1>4
  <2> QED  BY <2>1, <2>3, <2>4, <2>5 DEF IdPart
<1>9. (\A t \in Tasks : IdTask(t)') /\ IdPrune'
  BY <1>1, <1>2, <1>4 DEF IdTask, IdPrune
<1> QED  BY <1>8, <1>9 DEF IdsInv

(* Reconstructed answers name the record's id, or none.                     *)
LEMMA ReconstructIds ==
  \A i, rec : Reconstruct(i, rec).op \in {0, i}
<1> TAKE i, rec
<1>1. CASE rec.kind = "rejected"
  BY <1>1, NoIds DEF Reconstruct
<1>2. CASE rec.kind = "undo"
  BY <1>2, NoIds DEF Reconstruct
<1>3. CASE rec.kind \notin {"rejected", "undo"}
  BY <1>3, NoIds DEF Reconstruct
<1> QED  BY <1>1, <1>2, <1>3

(* A marker becomes a record of the same request, or nobody's.              *)
LEMMA RecoverMarkerIds ==
  ASSUME TypeInv, PhaseInv, IdsInv, NEW m \in OpIds, RecoverMarker(m)
  PROVE  IdsInv'
<1> DEFINE p == mops[m]
           committed == [p EXCEPT !.st = "fs", !.ts = now]
<1>1. /\ p \in Records /\ p.st = "prepared" /\ srv = "recover" /\ prune.stage = "idle"
      /\ ops \in [OpIds -> Records] /\ mops \in [OpIds -> Records] /\ recov = NoRecov
      /\ UNCHANGED <<counter, nextId, reqs, mreqs, told, prune, srv, task, body>>
      /\ \/ /\ ops' = [ops EXCEPT ![m] = committed] /\ mops' = [mops EXCEPT ![m] = committed]
            /\ recov' = [rid |-> p.rid, ans |-> Reconstruct(m, committed)]
         \/ /\ ops' = [ops EXCEPT ![m] = Aborted(now)] /\ mops' = [mops EXCEPT ![m] = NoRec]
            /\ recov' \in {NoRecov, [rid |-> p.rid, ans |-> Err("UndoConflict")]}
  BY DEF RecoverMarker, Pending, Recovering, TablesFree, TypeInv, TypeOK, ghosts
<1>2. committed.st = "fs" /\ committed.rid = p.rid /\ RecordRid(p) = p.rid
      /\ RecordRid(committed) = p.rid
  BY <1>1 DEF Records, RecordRid
<1> HIDE DEF committed
<1>3. /\ Aborted(now).st = "aborted" /\ RecordRid(Aborted(now)) = NoRid
      /\ RecordRid(NoRec) = NoRid /\ NoRid \notin Rids /\ NoRecov.rid = NoRid
  BY SentinelAssumption DEF SentinelAssumption, NoRec, Aborted, RecordRid, NoRecov
<1>4. /\ \A j \in OpIds : j # m => ops'[j] = ops[j] /\ mops'[j] = mops[j]
      /\ ops'[m].st # "none"
      /\ RecordRid(ops'[m]) \in {p.rid, NoRid} /\ RecordRid(mops'[m]) \in {p.rid, NoRid}
  BY <1>1, <1>2, <1>3
<1>5. \A r \in Rids : r = p.rid => Known(m, r)
  BY <1>2 DEF Known
<1>6. \A i \in OpIds, r \in Rids : recov'.rid = r /\ recov'.ans.op = i => Known(i, r)
  BY <1>1, <1>3, <1>5, NoIds, ReconstructIds
<1>7. \A i \in OpIds, r \in Rids : Known(i, r)' => Known(i, r)
  <2> TAKE i \in OpIds, r \in Rids
  <2>1. RecordRid(mops'[i]) = r => Known(i, r)
    BY <1>3, <1>4, <1>5 DEF Known
  <2> QED  BY <1>1, <1>6, <2>1 DEF Known, ToldId, Owed
<1>8. \A i \in OpIds, r \in Rids : Holds(i, r)' => Holds(i, r)
  <2> TAKE i \in OpIds, r \in Rids
  <2>1. RecordRid(ops'[i]) = r => Holds(i, r)
    BY <1>3, <1>4, <1>5 DEF Holds
  <2> QED  BY <1>1, <1>7, <2>1 DEF Holds
<1>9. \A i \in OpIds : ops[i].st # "none" => ops'[i].st # "none"
  BY <1>4
<1>10. \A i \in OpIds, r \in Rids : Known(i, r)' =>
          Barred(i)' /\ (prune'.stage = "ops" => i <= counter')
  BY <1>1, <1>7, <1>9 DEF IdsInv, IdPart, Barred
<1>11. \A t \in Tasks : IdTask(t)'
  <2>1. \A t \in Tasks : task[t].pc = "idle" /\ task[t].op = 0
    BY <1>1, NoIds DEF PhaseInv
  <2> QED  BY <1>1, <2>1 DEF IdTask
<1>12. IdPrune'
  BY <1>1 DEF IdPrune
<1>13. nextId \in Nat
  BY IdTypes
<1> QED  BY <1>1, <1>8, <1>10, <1>11, <1>12, <1>13, IdsFrame

(* Recovery stores answers of records that are in the history.              *)
LEMMA RecoverIds ==
  ASSUME TypeInv, TypeInv', PhaseInv, IdsInv, RecoverRemember \/ \E r \in Rids : RecoverStuck(r)
  PROVE  IdsInv'
<1> USE DEF ghosts, Recovering, TablesFree
<1>1. /\ srv = "recover" /\ srv' = srv /\ prune.stage = "idle"
      /\ UNCHANGED <<ops, counter, mops, nextId, prune, told, task, body>>
  BY DEF RecoverRemember, RecoverStuck
<1>2. reqs \in [Rids -> Entries] /\ mreqs \in [Rids -> Entries]
  BY DEF TypeInv, TypeOK
<1>3. ASSUME NEW q \in Rids, NEW status, NEW ans, RememberNow(q, status, ans),
             \A i \in OpIds : ans.op = i => Known(i, q), recov' \in {recov, NoRecov}
      PROVE  \A i \in OpIds, r \in Rids : Known(i, r)' => Known(i, r)
  <2> TAKE i \in OpIds, r \in Rids
  <2>1. /\ reqs'[r].ans = IF r = q THEN ans ELSE reqs[r].ans
        /\ mreqs'[r].ans = IF r = q THEN ans ELSE mreqs[r].ans
    BY <1>2, <1>3, NoIds DEF RememberNow
  <2>2. recov'.rid = r /\ recov'.ans.op = i => recov.rid = r /\ recov.ans.op = i
    BY <1>3, NoIds DEF NoRecov
  <2> QED  BY <1>1, <1>3, <2>1, <2>2 DEF Known, ToldId, Owed
<1>4. \A i \in OpIds, r \in Rids : Known(i, r)' => Known(i, r)
  <2>1. CASE RecoverRemember
    <3>1. recov.rid \in Rids
      BY <2>1 DEF RecoverRemember, TypeInv, RecoveryShape
    <3>2. \A i \in OpIds : recov.ans.op = i => Known(i, recov.rid)
      BY DEF Known
    <3> QED  BY <1>3, <2>1, <3>1, <3>2 DEF RecoverRemember
  <2>2. ASSUME NEW q \in Rids, RecoverStuck(q)
        PROVE  \A i \in OpIds, r \in Rids : Known(i, r)' => Known(i, r)
    <3>1. recov' = recov
      BY <2>2 DEF RecoverStuck
    <3>2. ASSUME NEW j \in CommittedFor(q), RememberNow(q, "done", Reconstruct(j, mops[j]))
          PROVE  \A i \in OpIds, r \in Rids : Known(i, r)' => Known(i, r)
      <4>1. j \in OpIds /\ RecordRid(mops[j]) = q
        BY <3>2 DEF CommittedFor, IsCommitted, RecordRid
      <4>2. Known(j, q)
        BY <4>1 DEF Known
      <4>3. \A i \in OpIds : Reconstruct(j, mops[j]).op = i => Known(i, q)
        BY <4>2, ReconstructIds, NoIds
      <4> QED  BY <1>3, <3>1, <3>2, <4>3
    <3>3. CASE RememberNow(q, "error", Err("ExecFailed"))
      BY <1>3, <3>1, <3>3, NoIds
    <3>4. CASE mreqs' = [mreqs EXCEPT ![q] = NoEntry] /\ UNCHANGED reqs
      <4> TAKE i \in OpIds, r \in Rids
      <4>1. mreqs'[r].ans = IF r = q THEN NoAnswer ELSE mreqs[r].ans
        BY <1>2, <3>4, NoIds
      <4> QED  BY <1>1, <3>1, <3>4, <4>1, NoIds DEF Known, ToldId, Owed
    <3> QED  BY <2>2, <3>2, <3>3, <3>4 DEF RecoverStuck
  <2> QED  BY <2>1, <2>2
<1>5. IdPrune'
  BY <1>1 DEF IdPrune
<1>6. \A i \in OpIds, r \in Rids : Known(i, r) =>
          Barred(i)' /\ (prune'.stage = "ops" => i <= counter')
  BY <1>1 DEF IdsInv, IdPart, Barred
<1> QED  BY <1>1, <1>4, <1>5, <1>6, SameTaskIds

(* Nothing to do with the server.                                           *)
LEMMA SameIds ==
  ASSUME TypeInv, TypeInv', IdsInv,
         UNCHANGED <<ops, counter, reqs, mops, mreqs, nextId, prune, srv, recov, task, body, told>>
  PROVE  IdsInv'
<1>1. \A i \in OpIds, r \in Rids : Known(i, r)' => Known(i, r)
  BY DEF Known, ToldId, Owed
<1>2. IdPrune'
  BY DEF IdsInv, IdPrune, Keep, BodyOf
<1>3. \A i \in OpIds, r \in Rids : Known(i, r) =>
          Barred(i)' /\ (prune'.stage = "ops" => i <= counter')
  BY DEF IdsInv, IdPart, Barred
<1> QED  BY <1>1, <1>2, <1>3, SameTaskIds

(* No step gives an id twice.                                               *)
LEMMA IdsStep ==
  ASSUME TypeInv, TypeInv', PhaseInv, ~Racy, IdsInv, [Next]_vars
  PROVE  IdsInv'
<1>1. ASSUME NEW t \in Tasks, TaskStep(t) PROVE IdsInv'
  <2>1. CASE ClaimAppend(t) \/ ClaimFail(t) \/ ClaimLost(t) \/ ClaimWon(t)
    BY <2>1, ClaimIds
  <2>2. CASE RememberAppend(t) \/ RememberFail(t) \/ RememberInsert(t)
    BY <2>2, RememberIds
  <2>3. CASE ReadOnly(t) \/ FsReadReject(t) \/ FsBlobFail(t) \/ FsInstallRefused(t)
    BY <2>3, FinishIds
  <2>4. CASE FsCheck(t)
    BY <2>4, MutationIds
  <2>5. CASE FsBlob(t) \/ ExecStart(t, TRUE) \/ ExecStart(t, FALSE)
    BY <2>5, TakesIds
  <2>6. CASE ExecAppend(t) \/ ExecAppendFail(t) \/ ExecPush(t)
    BY <2>6, ExecWriteIds
  <2>7. CASE \/ FsPrepare(t) \/ FsPrepareFail(t) \/ FsInstall(t) \/ FsInstallFail(t)
             \/ FsCommit(t) \/ FsCommitFail(t)
    BY <2>7, FsWriteIds
  <2>8. CASE GcBegin(t)
    BY <2>8, TrimIds
  <2> QED  BY <1>1, <2>1, <2>2, <2>3, <2>4, <2>5, <2>6, <2>7, <2>8 DEF TaskStep
<1>2. ASSUME NEW t \in Tasks, NEW r \in Rids, ReceiveSeen(t, r) \/ ReceiveNew(t, r)
      PROVE  IdsInv'
  BY <1>2, ClaimIds
<1>3. CASE PruneStep
  BY <1>3, PruneWriteIds, PruneOpsIds, PruneEndIds DEF PruneStep
<1>4. CASE RecoverStep
  BY <1>4, RecoverMarkerIds, RecoverIds, TrimIds DEF RecoverStep
<1>5. CASE Crash \/ Start
  BY <1>5, CrashIds, StartIds
<1>6. CASE StartRefused \/ Waiting \/ UNCHANGED vars
  BY <1>6, SameIds DEF StartRefused, Waiting, vars, disk, tables, ghosts
<1>7. ASSUME NEW p \in Paths, NEW v \in State \cup {Unresolvable}, External(p, v)
      PROVE  IdsInv'
  BY <1>7, SameIds DEF External, disk, tables, ghosts
<1> QED  BY <1>1, <1>2, <1>3, <1>4, <1>5, <1>6, <1>7 DEF Next

(* At first nobody has an id.                                               *)
LEMMA IdsInit == Init => IdsInv
<1> SUFFICES ASSUME Init PROVE IdsInv
  OBVIOUS
<1>1. /\ told = {} /\ recov = NoRecov /\ prune.stage = "idle"
      /\ \A t \in Tasks : task[t] = IdleTask
      /\ \A r \in Rids : reqs[r].ans.op = 0 /\ mreqs[r].ans.op = 0
      /\ \A i \in OpIds : ops[i] = NoRec /\ mops[i] = NoRec
  BY NoIds DEF Init, NoPrune
<1>2. RecordRid(NoRec) = NoRid /\ NoRid \notin Rids /\ NoRecov.rid = NoRid
  BY SentinelAssumption DEF SentinelAssumption, RecordRid, NoRec, NoRecov
<1>3. \A i \in OpIds, r \in Rids : ~Known(i, r)
  BY <1>1, <1>2, NoIds DEF Known, ToldId, Owed
<1>4. \A i \in OpIds, r \in Rids : ~Holds(i, r)
  BY <1>1, <1>2, <1>3, NoIds DEF Holds
<1>5. (\A t \in Tasks : IdTask(t)) /\ IdPrune
  BY <1>1, NoIds DEF IdTask, IdPrune
<1> QED  BY <1>3, <1>4, <1>5 DEF IdsInv, IdPart

(* An operation id the client was given names one request's operation for   *)
(* ever (OpIdStable, README "pruned operation ids are never reused"): across *)
(* crashes, failing I/O calls, startup prunes and gc, and whoever else       *)
(* writes to the workspace. The one exception is a command that runs while   *)
(* gc prunes: its record can be lost, and its id with it.                   *)
THEOREM IdsAreStable == Spec => [](~Racy => OpIdStable)
<1>1. Init => IInv /\ IdsInv
  BY InductiveInit, IdsInit
<1>2. IInv /\ (~Racy => IdsInv) /\ [Next]_vars => IInv' /\ (~Racy => IdsInv)'
  <2> SUFFICES ASSUME IInv, ~Racy => IdsInv, [Next]_vars, ~Racy' PROVE IInv' /\ IdsInv'
    BY InductiveStep
  <2>1. body' = body
    BY BodyFixed
  <2>2. ~Racy
    BY <2>1, RacySame
  <2> QED  BY <2>2, InductiveStep, IdsStep DEF IInv, WalIInv
<1>3. IInv /\ IdsInv => OpIdStable
  <2> SUFFICES ASSUME IInv, IdsInv, NEW a \in told, NEW b \in told, a[2].op # 0, a[2].op = b[2].op
               PROVE  a[1] = b[1]
    BY DEF OpIdStable
  <2>1. a \in Rids \X Answers /\ b \in Rids \X Answers
    BY DEF IInv, TypeInv, TypeOK
  <2>2. a[1] \in Rids /\ b[1] \in Rids /\ a[2].op \in 0..MaxOps
    BY <2>1 DEF Answers
  <2>3. a[2].op \in OpIds
    BY <2>2, MaxOpsAssumption DEF MaxOpsAssumption, OpIds
  <2>4. Holds(a[2].op, a[1]) /\ Holds(a[2].op, b[1])
    BY DEF Holds, Known, ToldId
  <2> QED  BY <2>2, <2>3, <2>4 DEF IdsInv, IdPart
<1> QED  BY <1>1, <1>2, <1>3, PTL DEF Spec

-----------------------------------------------------------------------------
(* What is answered, however much is pruned.                                *)

(* An answer that request r has been given, or may still be given.          *)
Said(r, ans) ==
    \/ <<r, ans>> \in told
    \/ reqs[r].ans = ans \/ mreqs[r].ans = ans
    \/ recov.rid = r /\ recov.ans = ans
    \/ \E t \in Tasks : /\ task[t].pc \in {"remember", "stored"}
                        /\ task[t].rid = r /\ task[t].ans = ans

(* What is reported of a mutation.                                          *)
Reply(e) ==
    IF body[e.rid].kind = "undo" THEN Done(e.op, e.new, e.new) ELSE Done(e.op, e.old, e.new)

(* The record of a command that was not started.                            *)
Rejected(i) == ops[i].st = "exec" /\ ops[i].kind = "rejected"

(* A success of a mutation reports a mutation of that request, and that of a *)
(* command names the command. Nobody is about to write the record of an      *)
(* operation that an answer names, and no rejected command is named.        *)
Sound(r, ans) ==
    /\ ans.op # 0 => ans.st = "done" /\ body[r].kind \in FsKinds \cup {"exec"}
    /\ ans.st = "done" /\ body[r].kind \in FsKinds => \E e \in effects : e.rid = r /\ ans = Reply(e)
    /\ ans.st = "done" /\ body[r].kind = "exec" =>
           ans.op \in OpIds /\ ans = Done(ans.op, Absent, Absent)
    /\ \A t \in Tasks : task[t].pc \in Logging => task[t].op # ans.op
    /\ ans.op \in OpIds => ~Rejected(ans.op)

(* Operation k is a command that request r has started.                     *)
Commands == {"exec_append", "exec_push"}
Started(k, r) ==
    \/ ops[k].st = "exec" /\ ops[k].kind = "exec" /\ ops[k].rid = r
    \/ \E t \in Tasks : /\ task[t].pc \in Commands
                        /\ task[t].rid = r /\ task[t].op = k /\ task[t].ans.st = "done"
    \/ \E ans \in Answers : Said(r, ans) /\ ans.op = k

(* A request that has started one command has one operation.                *)
OneStart(r) ==
    body[r].kind = "exec" => \A j, k \in OpIds :
        /\ Started(j, r) => runs[r] > 0
        /\ Started(j, r) /\ Started(k, r) => j = k \/ runs[r] > 1

SayTask(t) ==
    LET me == task[t] IN
    /\ me.pc \in {"exec_append", "exec_push", "remember", "stored"} => me.say = me.ans
    /\ me.pc \in Commands => me.ans \in {Done(me.op, Absent, Absent), Err("ExecFailed")}

(* The record of a command names no contents.                               *)
Bare(i) == ops[i].st = "exec" => ops[i].old = Absent /\ ops[i].new = Absent

SaidInv ==
    /\ \A r \in Rids : OneStart(r) /\ \A ans \in Answers : Said(r, ans) => Sound(r, ans)
    /\ \A t \in Tasks : SayTask(t)
    /\ \A i \in OpIds : Bare(i)

(* What the proofs so far provide.                                          *)
Calm == IInv /\ StoreInv /\ IdsInv /\ ~Racy

-----------------------------------------------------------------------------
(* An answer that names an operation makes it known.                        *)
LEMMA SaidKnown ==
  ASSUME IdsInv, NEW r \in Rids, NEW ans \in Answers, Said(r, ans), ans.op \in OpIds, srv # "down"
  PROVE  ans.op <= nextId
<1>1. PICK i \in OpIds : i = ans.op
  OBVIOUS
<1>2. Known(i, r)
  BY <1>1 DEF Said, Known, ToldId, Owed
<1>3. Holds(i, r)
  BY <1>2 DEF Holds
<1> QED  BY <1>1, <1>3 DEF IdsInv, IdPart

(* A step that adds sound answers only, and lets no task write the record of *)
(* an operation that has been answered.                                     *)
LEMMA SaidFrame ==
  ASSUME TypeInv, IdsInv, SaidInv, body' = body, effects \subseteq effects',
         \A r \in Rids, ans \in Answers : Said(r, ans)' => Said(r, ans) \/ Sound(r, ans)',
         \A t \in Tasks : task'[t].pc \in Logging =>
             \/ task[t].pc \in Logging /\ task'[t].op = task[t].op
             \/ srv # "down" /\ task'[t].op = nextId + 1,
         \A i \in OpIds : Rejected(i)' =>
             Rejected(i) \/ \E t \in Tasks : task[t].pc \in Logging /\ task[t].op = i,
         \A r \in Rids : OneStart(r)',
         \A t \in Tasks : SayTask(t)',
         \A i \in OpIds : Bare(i)'
  PROVE  SaidInv'
<1> SUFFICES ASSUME NEW r \in Rids, NEW ans \in Answers, Said(r, ans), Said(r, ans)'
             PROVE  Sound(r, ans)'
  BY DEF SaidInv
<1>1. Sound(r, ans) /\ ans.op \in 0..MaxOps /\ nextId \in Nat
  BY IdTypes DEF SaidInv, Answers
<1>2. ans.op # 0 => ans.op \in OpIds
  BY <1>1, MaxOpsAssumption DEF MaxOpsAssumption, OpIds
<1>3. ASSUME NEW t \in Tasks, task'[t].pc \in Logging PROVE task'[t].op # ans.op
  <2>1. CASE task[t].pc \in Logging /\ task'[t].op = task[t].op
    BY <1>1, <2>1 DEF Sound
  <2>2. CASE srv # "down" /\ task'[t].op = nextId + 1
    <3>1. ans.op <= nextId
      BY <1>1, <1>2, <2>2, SaidKnown
    <3> QED  BY <1>1, <2>2, <3>1
  <2> QED  BY <1>3, <2>1, <2>2
<1>4. ans.op \in OpIds => ~Rejected(ans.op)'
  BY <1>1 DEF Sound
<1>5. \A e : Reply(e)' = Reply(e)
  BY DEF Reply
<1> QED  BY <1>1, <1>3, <1>4, <1>5 DEF Sound

(* An answer that names no operation, and is no success of a mutation or a   *)
(* command.                                                                 *)
Vague(r, ans) == ans.op = 0 /\ (ans.st = "done" => body[r].kind \notin FsKinds \cup {"exec"})

LEMMA VagueSound ==
  ASSUME TypeInv, NEW r \in Rids, NEW ans \in Answers, Vague(r, ans)
  PROVE  Sound(r, ans)
<1>1. \A t \in Tasks : task[t].pc \in Logging => task[t].op \in OpIds
  BY DEF TypeInv, TaskShape, Logging
<1>2. 0 \notin OpIds
  BY DEF OpIds
<1> QED  BY <1>1, <1>2 DEF Vague, Sound

(* A step after which no more commands are answered, recorded or running.    *)
LEMMA StartsKept ==
  ASSUME SaidInv, UNCHANGED <<body, runs>>,
         \A k \in OpIds, r \in Rids : body[r].kind = "exec" /\ Started(k, r)' => Started(k, r)
  PROVE  \A r \in Rids : OneStart(r)'
<1> SUFFICES ASSUME NEW r \in Rids, body[r].kind = "exec", NEW j \in OpIds, NEW k \in OpIds,
                    Started(j, r)'
             PROVE  runs[r] > 0 /\ (Started(k, r)' => j = k \/ runs[r] > 1)
  BY DEF OneStart
<1>1. Started(j, r) /\ (Started(k, r)' => Started(k, r))
  OBVIOUS
<1> QED  BY <1>1 DEF SaidInv, OneStart

(* A step that starts no command.                                           *)
LEMMA SaidStep ==
  ASSUME TypeInv, TypeInv', IdsInv, SaidInv, UNCHANGED <<body, runs>>, effects \subseteq effects',
         \A r \in Rids, ans \in Answers : Said(r, ans)' =>
             \/ Said(r, ans) \/ Vague(r, ans)
             \/ Sound(r, ans)' /\ (body[r].kind = "exec" /\ ans.op \in OpIds => Started(ans.op, r)),
         \A t \in Tasks : task'[t].pc \in Logging =>
             \/ task[t].pc \in Logging /\ task'[t].op = task[t].op
             \/ srv # "down" /\ task'[t].op = nextId + 1,
         \A t \in Tasks : task'[t].pc \in Commands =>
             /\ task[t].pc \in Commands /\ task'[t].op = task[t].op
             /\ task'[t].rid = task[t].rid /\ task'[t].ans = task[t].ans,
         \A i \in OpIds : ops'[i].st = "exec" =>
             \/ ops'[i] = ops[i]
             \/ /\ Bare(i)'
                /\ \E t \in Tasks : /\ task[t].pc = "exec_append" /\ task[t].op = i
                                    /\ ops'[i].rid = task[t].rid
                                    /\ ops'[i].kind = "exec" => task[t].ans.st = "done",
         \A t \in Tasks : SayTask(t)'
  PROVE  SaidInv'
<1>1. ASSUME NEW r \in Rids, NEW ans \in Answers, Vague(r, ans) PROVE Sound(r, ans)'
  <2>1. \A t \in Tasks : task'[t].pc \in Logging => task'[t].op \in OpIds
    BY DEF TypeInv, TaskShape, Logging
  <2>2. 0 \notin OpIds
    BY NoIds
  <2> QED  BY <1>1, <2>1, <2>2 DEF Vague, Sound
<1>2. \A r \in Rids, ans \in Answers : Said(r, ans)' => Said(r, ans) \/ Sound(r, ans)'
  BY <1>1
<1>3. ASSUME NEW k \in OpIds, NEW r \in Rids, body[r].kind = "exec", Started(k, r)'
      PROVE  Started(k, r)
  <2>1. CASE ops'[k].st = "exec" /\ ops'[k].kind = "exec" /\ ops'[k].rid = r
    <3>1. CASE ops'[k] = ops[k]
      BY <2>1, <3>1 DEF Started
    <3>2. CASE ops'[k] # ops[k]
      <4>1. PICK t \in Tasks : /\ task[t].pc = "exec_append" /\ task[t].op = k
                               /\ ops'[k].rid = task[t].rid /\ task[t].ans.st = "done"
        BY <2>1, <3>2
      <4> QED  BY <2>1, <4>1 DEF Started, Commands
    <3> QED  BY <3>1, <3>2
  <2>2. CASE \E t \in Tasks : /\ task'[t].pc \in Commands
                              /\ task'[t].rid = r /\ task'[t].op = k /\ task'[t].ans.st = "done"
    BY <2>2 DEF Started
  <2>3. ASSUME NEW ans \in Answers, Said(r, ans)', ans.op = k PROVE Started(k, r)
    <3>1. CASE Said(r, ans)
      BY <2>3, <3>1 DEF Started
    <3>2. CASE Vague(r, ans)
      BY <2>3, <3>2, NoIds DEF Vague
    <3> QED  BY <1>3, <2>3, <3>1, <3>2
  <2> QED  BY <1>3, <2>1, <2>2, <2>3 DEF Started
<1>4. \A r \in Rids : OneStart(r)'
  BY <1>3, StartsKept
<1>5. \A i \in OpIds : Rejected(i)' =>
          Rejected(i) \/ \E t \in Tasks : task[t].pc \in Logging /\ task[t].op = i
  BY DEF Rejected, Logging
<1>6. \A i \in OpIds : Bare(i)'
  BY DEF Bare, SaidInv
<1> QED  BY <1>2, <1>4, <1>5, <1>6, SaidFrame

(* A task that stays away from records and adds vague answers only.         *)
LEMMA QuietSaid ==
  ASSUME TypeInv, TypeInv', IdsInv, SaidInv, NEW t \in Tasks, Moves(t),
         UNCHANGED <<ops, body, runs, effects>>, task'[t].pc \notin Logging, SayTask(t)',
         \A r \in Rids, ans \in Answers : Said(r, ans)' => Said(r, ans) \/ Vague(r, ans)
  PROVE  SaidInv'
<1>1. \A u \in Tasks : SayTask(u)'
  BY DEF SaidInv, SayTask, Moves
<1>2. \A u \in Tasks : task'[u].pc \in Logging => task'[u] = task[u]
  BY DEF Moves
<1>3. Commands \subseteq Logging
  BY DEF Commands, Logging
<1>4. \A u \in Tasks : task'[u].pc \in Logging =>
             \/ task[u].pc \in Logging /\ task'[u].op = task[u].op
             \/ srv # "down" /\ task'[u].op = nextId + 1
  BY <1>2
<1>5. \A u \in Tasks : task'[u].pc \in Commands =>
             /\ task[u].pc \in Commands /\ task'[u].op = task[u].op
             /\ task'[u].rid = task[u].rid /\ task'[u].ans = task[u].ans
  BY <1>2, <1>3
<1> QED  BY <1>1, <1>4, <1>5, SaidStep

-----------------------------------------------------------------------------
(* Where the records of answered operations are.                            *)

(* Request r was told of operation i, or a retry would be.                  *)
Given(i, r) == ToldId(i, r) \/ mreqs[r].ans.op = i

(* As long as the record of such an operation is there, a retry is answered  *)
(* with a success, a restart finds one, and nobody runs the request.        *)
AckPart(i, r) ==
    Given(i, r) =>
        /\ RecordRid(mops[i]) = r => mreqs[r].ans.st = "done" \/ r \in stuck
        /\ RecordRid(ops[i]) = r =>
               /\ reqs[r].status = "inprogress" \/ reqs[r].ans.st = "done"
               /\ \A t \in Tasks : Owns(t) => task[t].rid # r

(* Answers are stored as they are; a command is claimed in the log, and       *)
(* before it has a record there is none of its request.                     *)
AckTask(t) ==
    LET me == task[t] IN
    /\ me.pc = "stored" => reqs[me.rid].status = "inprogress" \/ reqs[me.rid].ans = me.ans
    /\ me.pc \notin {"idle", "claim"} /\ BodyOf(t).kind = "exec" => reqs[me.rid].status # "none"
    /\ me.pc \in {"begin", "exec_append"} /\ BodyOf(t).kind = "exec" =>
           \A i \in OpIds : RecordRid(ops[i]) # me.rid

(* A command has one record, and its request has not been forgotten then.   *)
ExecPart(r) ==
    body[r].kind = "exec" => \A j \in OpIds :
        /\ RecordRid(ops[j]) = r =>
               reqs[r].status # "none" /\ \A k \in OpIds : RecordRid(ops[k]) = r => k = j
        /\ RecordRid(mops[j]) = r => mreqs[r].status # "none"

Shaped(e) == e.status \in {"none", "inprogress"} => e.ans = NoAnswer
EntryShape(r) == Shaped(reqs[r]) /\ Shaped(mreqs[r])

RecovAck ==
    /\ srv # "recover" \/ prune.stage # "idle" => stuck = {} /\ recov = NoRecov
    /\ recov # NoRecov => recov.ans.st = "done"

AckInv ==
    /\ \A r \in Rids : ExecPart(r) /\ EntryShape(r)
    /\ \A i \in OpIds, r \in Rids : AckPart(i, r)
    /\ \A t \in Tasks : AckTask(t)
    /\ RecovAck

-----------------------------------------------------------------------------
(* What an answer that was given is about.                                  *)
LEMMA GivenSound ==
  ASSUME TypeInv, SaidInv, NEW i \in OpIds, NEW r \in Rids, Given(i, r)
  PROVE  /\ body[r].kind \in FsKinds \cup {"exec"} /\ ~Rejected(i)
         /\ \A t \in Tasks : task[t].pc \in Logging => task[t].op # i
         /\ mreqs[r].ans.op = i => mreqs[r].ans.st = "done"
<1>1. mreqs[r].ans \in Answers /\ \A a \in told : a[1] \in Rids /\ a[2] \in Answers /\ a = <<a[1], a[2]>>
  BY DEF TypeInv, TypeOK, Entries
<1>2. \A ans \in Answers : Said(r, ans) => Sound(r, ans)
  BY DEF SaidInv
<1>3. mreqs[r].ans.op = i => Sound(r, mreqs[r].ans)
  BY <1>1, <1>2 DEF Said
<1>4. PICK ans \in Answers : ans.op = i /\ Sound(r, ans)
  <2>1. CASE mreqs[r].ans.op = i
    BY <1>1, <1>3, <2>1
  <2>2. CASE ToldId(i, r)
    <3>1. PICK a \in told : a[1] = r /\ a[2].op = i
      BY <2>2 DEF ToldId
    <3> QED  BY <1>1, <1>2, <3>1 DEF Said
  <2> QED  BY <2>1, <2>2 DEF Given
<1>5. i # 0
  BY NoIds
<1> QED  BY <1>3, <1>4, <1>5 DEF Sound

(* Records that belong to a request.                                        *)
LEMMA RecordOf ==
  /\ \A r \in Rids : \A rec : RecordRid(rec) = r => rec.st \in {"fs", "exec", "prepared"} /\ rec.rid = r
  /\ \A rec : rec.st \in {"fs", "exec", "prepared"} => RecordRid(rec) = rec.rid
  /\ RecordRid(NoRec) \notin Rids
  BY SentinelAssumption DEF SentinelAssumption, RecordRid, NoRec

(* What is in memory is in the log.                                         *)
LEMMA MemoryLogged ==
  ASSUME Calm, NEW i \in OpIds, mops[i].st # "none"
  PROVE  mops[i] = ops[i]
<1>1. srv \in {"down", "recover", "up"} /\ MemoryPart(i) /\ ~Racy
  BY DEF Calm, IInv, TypeInv, TypeOK, StoreInv
<1> QED  BY <1>1 DEF MemoryPart, Synced, Dropped, Lost

(* What is in the log and was answered is in memory, unless a prune is about *)
(* to take it from the log.                                                 *)
LEMMA LogRemembered ==
  ASSUME Calm, NEW i \in OpIds, ops[i].st \in {"fs", "exec", "prepared"}, srv # "down", ~Rewriting,
         \A t \in Tasks : task[t].pc \in Logging => task[t].op # i
  PROVE  mops[i] = ops[i]
<1>1. srv \in {"down", "recover", "up"} /\ MemoryPart(i) /\ ~Racy
  BY DEF Calm, IInv, TypeInv, TypeOK, StoreInv
<1>2. \A t \in Tasks : ~Writing(t, i)
  BY DEF Writing, Logging
<1> QED  BY <1>1, <1>2 DEF MemoryPart, Synced, Dropped, Lost

(* A task that writes a record owns its request.                            *)
LEMMA LoggingOwns ==
  \A t \in Tasks : task[t].pc \in Logging => Owns(t)
  BY DEF Logging, Owns

(* A step of a task that leaves the table of requests alone: it writes no    *)
(* record of an operation that was given, and no answer for a request it     *)
(* does not own.                                                            *)
LEMMA AckFrame ==
  ASSUME Calm, SaidInv, AckInv, NEW t \in Tasks, Moves(t),
         UNCHANGED <<body, mreqs, recov, stuck>>, prune' = prune \/ prune.stage # "idle",
         Owns(t)' => Owns(t) /\ task'[t].rid = task[t].rid,
         \A i \in OpIds, r \in Rids : ToldId(i, r)' => Given(i, r),
         \A i \in OpIds : \/ ops'[i] = ops[i]
                          \/ /\ i = task[t].op /\ task[t].pc \in Logging
                             /\ RecordRid(ops'[i]) = task[t].rid
                             /\ BodyOf(t).kind = "exec" => task[t].pc = "exec_append",
         \A i \in OpIds : \/ mops'[i] = mops[i]
                          \/ /\ i = task[t].op /\ task[t].pc \in Logging
                             /\ RecordRid(mops'[i]) = task[t].rid,
         \A r \in Rids : \/ reqs'[r] = reqs[r]
                         \/ reqs'[r].status = "inprogress" /\ reqs'[r].ans = NoAnswer
                         \/ r = task[t].rid /\ Owns(t) /\ reqs'[r].status \in {"done", "error"},
         AckTask(t)'
  PROVE  AckInv'
<1> USE DEF Calm, IInv
<1>1. /\ \A u \in Tasks \ {t} : /\ task'[u] = task[u] /\ BodyOf(u)' = BodyOf(u)
                                /\ Owns(u)' <=> Owns(u)
      /\ srv' = srv
  BY DEF Moves, BodyOf, Owns
<1>2. \A u \in Tasks \ {t} : Owns(u) /\ Owns(t) => task[u].rid # task[t].rid
  BY DEF SingleOwner
<1>3. Owns(t) => mreqs[task[t].rid].status = "inprogress"
  BY DEF SingleOwner
<1>4. AckTask(t) /\ (task[t].pc \in Logging => Owns(t))
  BY LoggingOwns DEF AckInv
<1>5. ASSUME NEW i \in OpIds, NEW r \in Rids, Given(i, r)'
      PROVE  /\ RecordRid(mops'[i]) = r => mreqs'[r].ans.st = "done" \/ r \in stuck'
             /\ RecordRid(ops'[i]) = r =>
                  /\ reqs'[r].status = "inprogress" \/ reqs'[r].ans.st = "done"
                  /\ \A u \in Tasks : Owns(u)' => task'[u].rid # r
  <2>1. Given(i, r)
    BY <1>5 DEF Given
  <2>2. AckPart(i, r) /\ ops'[i] = ops[i] /\ mops'[i] = mops[i]
    BY <2>1, GivenSound DEF AckInv
  <2>3. CASE RecordRid(ops[i]) # r
    BY <2>1, <2>2, <2>3 DEF AckPart
  <2>4. CASE RecordRid(ops[i]) = r
    <3>1. /\ reqs[r].status = "inprogress" \/ reqs[r].ans.st = "done"
          /\ \A u \in Tasks : Owns(u) => task[u].rid # r
      BY <2>1, <2>2, <2>4 DEF AckPart
    <3>2. reqs'[r].status = "inprogress" \/ reqs'[r].ans.st = "done"
      BY <3>1
    <3>3. \A u \in Tasks : Owns(u)' => task'[u].rid # r
      BY <1>1, <3>1
    <3> QED  BY <2>1, <2>2, <3>2, <3>3 DEF AckPart
  <2> QED  BY <2>3, <2>4
<1>6. \A r \in Rids : reqs[r].status # "none" => reqs'[r].status # "none"
  OBVIOUS
<1>7. ASSUME NEW r \in Rids, body[r].kind = "exec", NEW j \in OpIds
      PROVE  /\ RecordRid(ops'[j]) = r =>
                  reqs'[r].status # "none" /\ \A k \in OpIds : RecordRid(ops'[k]) = r => k = j
             /\ RecordRid(mops'[j]) = r => mreqs'[r].status # "none"
  <2>1. ExecPart(r)
    BY DEF AckInv
  <2>2. ASSUME RecordRid(mops'[j]) = r PROVE mreqs[r].status # "none"
    BY <1>3, <1>4, <1>7, <2>1, <2>2 DEF ExecPart
  <2>3. CASE ~\E k \in OpIds : ops'[k] # ops[k] /\ RecordRid(ops'[k]) = r
    BY <1>6, <1>7, <2>1, <2>2, <2>3 DEF ExecPart
  <2>4. ASSUME NEW k \in OpIds, ops'[k] # ops[k], RecordRid(ops'[k]) = r
        PROVE  reqs'[r].status # "none" /\ \A i \in OpIds : RecordRid(ops'[i]) = r => i = k
    <3>1. k = task[t].op /\ task[t].rid = r /\ BodyOf(t).kind = "exec" /\ task[t].pc = "exec_append"
      BY <1>7, <2>4 DEF BodyOf
    <3>2. reqs[r].status # "none" /\ \A i \in OpIds : RecordRid(ops[i]) # r
      BY <1>4, <3>1 DEF AckTask
    <3> QED  BY <1>6, <3>1, <3>2
  <2> QED  BY <2>2, <2>3, <2>4
<1>8. \A r \in Rids : EntryShape(r)'
  BY DEF AckInv, EntryShape, Shaped
<1>9. ASSUME NEW u \in Tasks \ {t} PROVE AckTask(u)'
  <2>1. AckTask(u) /\ task'[u] = task[u] /\ BodyOf(u)' = BodyOf(u)
    BY <1>1 DEF AckInv
  <2>2. /\ task[u].pc # "idle" => task[u].rid \in Rids
        /\ task[u].pc \in {"stored", "begin", "exec_append"} => Owns(u)
    BY DEF TypeInv, TaskShape, Owns
  <2>3. task[u].pc = "stored" => reqs'[task[u].rid].status = "inprogress"
                                 \/ reqs'[task[u].rid].ans = task[u].ans
    BY <1>2, <2>1, <2>2 DEF AckTask
  <2>4. ASSUME task[u].pc \in {"begin", "exec_append"}, BodyOf(u).kind = "exec", NEW i \in OpIds
        PROVE  RecordRid(ops'[i]) # task[u].rid
    BY <1>2, <1>4, <2>1, <2>2, <2>4 DEF AckTask
  <2> QED  BY <1>6, <2>1, <2>2, <2>3, <2>4 DEF AckTask
<1>10. RecovAck'
  BY <1>1 DEF AckInv, RecovAck
<1> QED  BY <1>5, <1>7, <1>8, <1>9, <1>10 DEF AckInv, AckPart, ExecPart

-----------------------------------------------------------------------------
(* The steps of a task.                                                     *)

(* Entries of the table, and what they replay.                              *)
LEMMA EntryForms ==
  /\ NoEntry.status = "none" /\ NoEntry.ans = NoAnswer /\ NoAnswer.st = "none"
  /\ \A kind : InProgress(kind).status = "inprogress" /\ InProgress(kind).ans = NoAnswer
  /\ \A status, ans : Terminal(status, ans).status = status /\ Terminal(status, ans).ans = ans
  /\ \A e : Replay(e) = Err("InProgress") \/ Replay(e) = e.ans
<1>1. NoEntry.status = "none" /\ NoEntry.ans = NoAnswer /\ NoAnswer.st = "none"
  BY DEF NoEntry, NoAnswer
<1>2. \A kind : InProgress(kind).status = "inprogress" /\ InProgress(kind).ans = NoAnswer
  BY DEF InProgress, NoEntry
<1>3. \A status, ans : Terminal(status, ans).status = status /\ Terminal(status, ans).ans = ans
  BY DEF Terminal, NoEntry
<1>4. \A e : Replay(e) = Err("InProgress") \/ Replay(e) = e.ans
  BY DEF Replay
<1> QED  BY <1>1, <1>2, <1>3, <1>4

(* Errors, and no answer, name nothing.                                     *)
LEMMA ErrVague ==
  \A r : Vague(r, NoAnswer) /\ \A code : Vague(r, Err(code))
  BY NoIds, EntryForms DEF Vague

(* A request that is received, or found to be claimed.                      *)
LEMMA ReceiveAck ==
  ASSUME Calm, TypeInv', SaidInv, AckInv, NEW t \in Tasks,
         (\E r \in Rids : ReceiveSeen(t, r) \/ ReceiveNew(t, r)) \/ ClaimAppend(t) \/ ClaimLost(t)
  PROVE  SaidInv' /\ AckInv'
<1> USE DEF At, disk, tables, ghosts, Calm, IInv
<1>0. /\ Quiet(t) /\ Moves(t) /\ task[t] \in TaskStates /\ task \in [Tasks -> TaskStates]
      /\ UNCHANGED <<ops, mops, effects, prune>> /\ task'[t].pc \notin Logging
  BY QuietClaims DEF TypeInv, TypeOK, Quiet
<1>1. ASSUME NEW q \in Rids, told' = told \cup {<<q, Replay(mreqs[q])>>},
             UNCHANGED <<reqs, mreqs, recov, body, stuck, runs>>,
             task' = task \/ task'[t].pc = "idle", ~Owns(t)', task'[t].pc \in {"idle"}
      PROVE  SaidInv' /\ AckInv'
  <2>1. \A r \in Rids, ans \in Answers : Said(r, ans)' => Said(r, ans) \/ Vague(r, ans)
    <3> SUFFICES ASSUME NEW r \in Rids, NEW ans \in Answers, Said(r, ans)'
                 PROVE  Said(r, ans) \/ Vague(r, ans)
      OBVIOUS
    <3>1. CASE <<r, ans>> \in told'
      BY <1>1, <3>1, EntryForms, ErrVague DEF Said
    <3>2. CASE \E u \in Tasks : /\ task'[u].pc \in {"remember", "stored"}
                                /\ task'[u].rid = r /\ task'[u].ans = ans
      BY <1>0, <1>1, <3>2 DEF Said, Moves
    <3> QED  BY <1>1, <3>1, <3>2 DEF Said
  <2>2. SayTask(t)'
    BY <1>1 DEF SayTask, Commands
  <2>3. SaidInv'
    BY <1>0, <1>1, <2>1, <2>2, QuietSaid
  <2>4. \A i \in OpIds, r \in Rids : ToldId(i, r)' => Given(i, r)
    BY <1>1, EntryForms, NoIds DEF ToldId, Given
  <2>5. AckTask(t)'
    BY <1>1 DEF AckTask
  <2> QED  BY <1>0, <1>1, <2>3, <2>4, <2>5, AckFrame
<1>2. ASSUME NEW r \in Rids, ReceiveSeen(t, r) PROVE SaidInv' /\ AckInv'
  <2>1. /\ told' = told \cup {<<r, Replay(mreqs[r])>>} /\ task[t].pc = "idle"
        /\ UNCHANGED <<reqs, mreqs, recov, body, stuck, runs, task>>
    BY <1>2 DEF ReceiveSeen
  <2> QED  BY <1>1, <2>1 DEF Owns
<1>3. CASE ClaimLost(t)
  <2>1. /\ told' = told \cup {<<task[t].rid, Replay(mreqs[task[t].rid])>>} /\ task[t].rid \in Rids
        /\ UNCHANGED <<reqs, mreqs, recov, body, stuck, runs>> /\ srv = "up" /\ srv' = srv
        /\ task' = [task EXCEPT ![t] = IdleTask]
    BY <1>3 DEF ClaimLost, TypeInv, TaskShape
  <2>2. task'[t].pc = "idle"
    BY <2>1, IdleMoves
  <2> QED  BY <1>1, <2>1, <2>2 DEF Owns
<1>4. ASSUME NEW pc \in {"claim", "insert"}, task'[t].pc = pc,
             UNCHANGED <<mreqs, recov, body, stuck, runs, told>>,
             \A r \in Rids : \/ reqs'[r] = reqs[r]
                             \/ reqs'[r].status = "inprogress" /\ reqs'[r].ans = NoAnswer,
             AckTask(t)'
      PROVE  SaidInv' /\ AckInv'
  <2>1. \A r \in Rids, ans \in Answers : Said(r, ans)' => Said(r, ans) \/ Vague(r, ans)
    <3> SUFFICES ASSUME NEW r \in Rids, NEW ans \in Answers, Said(r, ans)'
                 PROVE  Said(r, ans) \/ Vague(r, ans)
      OBVIOUS
    <3>1. CASE reqs'[r].ans = ans
      BY <1>4, <3>1, ErrVague DEF Said
    <3>2. CASE \E u \in Tasks : /\ task'[u].pc \in {"remember", "stored"}
                                /\ task'[u].rid = r /\ task'[u].ans = ans
      BY <1>0, <1>4, <3>2 DEF Said, Moves
    <3> QED  BY <1>4, <3>1, <3>2 DEF Said
  <2>2. SayTask(t)' /\ ~Owns(t)'
    BY <1>4 DEF SayTask, Commands, Owns
  <2>3. SaidInv'
    BY <1>0, <1>4, <2>1, <2>2, QuietSaid
  <2>4. \A i \in OpIds, r \in Rids : ToldId(i, r)' => Given(i, r)
    BY <1>4 DEF ToldId, Given
  <2> QED  BY <1>0, <1>4, <2>2, <2>3, <2>4, AckFrame
<1>5. ASSUME NEW r \in Rids, ReceiveNew(t, r) PROVE SaidInv' /\ AckInv'
  <2>1. /\ UNCHANGED <<reqs, mreqs, recov, body, stuck, runs, told>>
        /\ task'[t] = [task[t] EXCEPT !.pc = "claim", !.rid = r]
    BY <1>0, <1>5 DEF ReceiveNew
  <2>2. task'[t].pc = "claim"
    BY <1>0, <2>1 DEF TaskStates
  <2>3. AckTask(t)'
    BY <2>2 DEF AckTask
  <2> QED  BY <1>4, <2>1, <2>2, <2>3
<1>6. CASE ClaimAppend(t)
  <2>1. /\ UNCHANGED <<mreqs, recov, body, stuck, runs, told>> /\ task[t].rid \in Rids
        /\ reqs' = [reqs EXCEPT ![task[t].rid] = InProgress(BodyOf(t).kind)]
        /\ task' = [task EXCEPT ![t].pc = "insert"]
    BY <1>6 DEF ClaimAppend, TypeInv, TaskShape
  <2>2. task'[t].pc = "insert" /\ task'[t].rid = task[t].rid
    BY <1>0, <2>1 DEF TaskStates
  <2>3. \A r \in Rids : reqs'[r] = IF r = task[t].rid THEN InProgress(BodyOf(t).kind) ELSE reqs[r]
    BY <2>1 DEF TypeInv, TypeOK
  <2>4. AckTask(t)'
    BY <2>1, <2>2, <2>3, EntryForms DEF AckTask
  <2> QED  BY <1>4, <2>1, <2>2, <2>3, <2>4, EntryForms
<1> QED  BY <1>2, <1>3, <1>5, <1>6

(* The writer of a record owns the record's request.                        *)
LEMMA RecordWriter ==
  ASSUME Calm, NEW u \in Tasks, task[u].pc \in Logging, NEW r \in Rids, RecordRid(ops[task[u].op]) = r
  PROVE  task[u].rid = r /\ Owns(u)
<1>1. WritePart(u) /\ ~Racy
  BY DEF Calm, StoreInv
<1>2. ops[task[u].op].st \in {"fs", "exec", "prepared"} /\ ops[task[u].op].rid = r
  BY RecordOf
<1>3. \A st, ts : FsRecord(u, st, ts).rid = task[u].rid /\ ExecRecord(u, ts).rid = task[u].rid
  BY DEF FsRecord, ExecRecord, NoRec
<1> QED  BY <1>1, <1>2, <1>3, LoggingOwns DEF WritePart, Logging

(* Who wins a claim finds no record of a given operation of the request, and *)
(* none at all if it is a command.                                          *)
LEMMA ClaimWonAck ==
  ASSUME Calm, TypeInv', SaidInv, AckInv, NEW t \in Tasks, ClaimWon(t)
  PROVE  SaidInv' /\ AckInv'
<1> USE DEF At, disk, tables, ghosts, Calm, IInv
<1>0. /\ Quiet(t) /\ Moves(t) /\ task[t] \in TaskStates /\ task \in [Tasks -> TaskStates]
      /\ UNCHANGED <<ops, mops, effects, prune>> /\ task'[t].pc \notin Logging
  BY QuietClaims DEF TypeInv, TypeOK, Quiet
<1> DEFINE q == task[t].rid
<1>1. /\ task[t].pc = "insert" /\ q \in Rids /\ mreqs[q].status = "none" /\ prune.stage = "idle"
      /\ UNCHANGED <<reqs, recov, body, stuck, runs, told>> /\ srv = "up" /\ srv' = srv
      /\ mreqs' = [mreqs EXCEPT ![q] = InProgress(BodyOf(t).kind)]
      /\ task' = [task EXCEPT ![t].pc = "begin"]
  BY DEF ClaimWon, TypeInv, TaskShape, TablesFree
<1>2. task'[t].pc = "begin" /\ task'[t].rid = q /\ BodyOf(t)' = BodyOf(t)
  BY <1>0, <1>1 DEF TaskStates, BodyOf
<1>3. \A r \in Rids : mreqs'[r] = IF r = q THEN InProgress(BodyOf(t).kind) ELSE mreqs[r]
  BY <1>1 DEF TypeInv, TypeOK
<1>4. mreqs[q].ans = NoAnswer /\ stuck = {} /\ ~Rewriting
  BY <1>1 DEF AckInv, EntryShape, Shaped, RecovAck, Rewriting
<1>5. SaidInv'
  <2>1. \A r \in Rids, ans \in Answers : Said(r, ans)' => Said(r, ans) \/ Vague(r, ans)
    <3> SUFFICES ASSUME NEW r \in Rids, NEW ans \in Answers, Said(r, ans)'
                 PROVE  Said(r, ans) \/ Vague(r, ans)
      OBVIOUS
    <3>1. CASE mreqs'[r].ans = ans
      BY <1>3, <3>1, ErrVague, EntryForms DEF Said
    <3>2. CASE \E u \in Tasks : /\ task'[u].pc \in {"remember", "stored"}
                                /\ task'[u].rid = r /\ task'[u].ans = ans
      BY <1>0, <1>2, <3>2 DEF Said, Moves
    <3> QED  BY <1>1, <3>1, <3>2 DEF Said
  <2>2. SayTask(t)'
    BY <1>2 DEF SayTask, Commands
  <2> QED  BY <1>0, <1>1, <2>1, <2>2, QuietSaid
<1>6. ASSUME NEW i \in OpIds, Given(i, q) PROVE RecordRid(mops[i]) # q /\ RecordRid(ops[i]) # q
  <2>1. RecordRid(mops[i]) # q
    BY <1>1, <1>4, <1>6, EntryForms DEF AckInv, AckPart
  <2>2. ASSUME RecordRid(ops[i]) = q PROVE FALSE
    <3>1. ops[i].st \in {"fs", "exec", "prepared"}
      BY <1>1, <2>2, RecordOf
    <3>2. mops[i] = ops[i]
      BY <1>1, <1>4, <1>6, <3>1, GivenSound, LogRemembered
    <3> QED  BY <2>1, <2>2, <3>2
  <2> QED  BY <2>1, <2>2
<1>7. \A i \in OpIds, r \in Rids : Given(i, r)' => Given(i, r)
  BY <1>1, <1>3, EntryForms, NoIds DEF Given, ToldId
<1>8. \A u \in Tasks : Owns(u)' => (Owns(u) /\ task'[u].rid = task[u].rid) \/ u = t
  BY <1>0 DEF Moves, Owns
<1>9. ASSUME NEW i \in OpIds, NEW r \in Rids PROVE AckPart(i, r)'
  <2>1. CASE r = q
    BY <1>0, <1>6, <1>7, <2>1 DEF AckPart
  <2>2. CASE r # q
    <3>1. AckPart(i, r) /\ mreqs'[r] = mreqs[r]
      BY <1>3, <2>2 DEF AckInv
    <3> QED  BY <1>0, <1>1, <1>2, <1>7, <1>8, <2>2, <3>1 DEF AckPart
  <2> QED  BY <2>1, <2>2
<1>10. \A r \in Rids : ExecPart(r)' /\ EntryShape(r)'
  BY <1>0, <1>1, <1>3, EntryForms DEF AckInv, ExecPart, EntryShape, Shaped
<1>11. \A u \in Tasks : u # t => AckTask(u)'
  BY <1>0, <1>1 DEF AckInv, AckTask, Moves, BodyOf
<1>12. AckTask(t)'
  <2>1. BodyOf(t).kind = "exec" => reqs[q].status # "none"
    BY <1>1 DEF AckInv, AckTask
  <2>2. ASSUME BodyOf(t).kind = "exec", NEW i \in OpIds, RecordRid(ops[i]) = q PROVE FALSE
    <3>1. ASSUME NEW u \in Tasks, task[u].pc \in Logging, task[u].op = i PROVE FALSE
      BY <1>1, <2>2, <3>1, RecordWriter DEF SingleOwner
    <3>2. ops[i].st \in {"fs", "exec", "prepared"}
      BY <1>1, <2>2, RecordOf
    <3>3. mops[i] = ops[i]
      BY <1>1, <1>4, <3>1, <3>2, LogRemembered
    <3> QED  BY <1>1, <2>2, <3>3 DEF AckInv, ExecPart, BodyOf
  <2> QED  BY <1>0, <1>1, <1>2, <2>1, <2>2 DEF AckTask
<1>13. RecovAck'
  BY <1>0, <1>1 DEF AckInv, RecovAck
<1> QED  BY <1>5, <1>9, <1>10, <1>11, <1>12, <1>13 DEF AckInv

(* What is answered is appended as it is.                                   *)
LEMMA RememberAppendAck ==
  ASSUME Calm, TypeInv', SaidInv, AckInv, NEW t \in Tasks, RememberAppend(t)
  PROVE  SaidInv' /\ AckInv'
<1> USE DEF At, disk, tables, ghosts, Calm, IInv
<1>0. /\ Moves(t) /\ task[t] \in TaskStates /\ task \in [Tasks -> TaskStates]
      /\ UNCHANGED <<ops, mops, effects, prune>> /\ task'[t].pc \notin Logging
  BY QuietClaims DEF TypeInv, TypeOK, Quiet
<1> DEFINE q == task[t].rid
           own == task[t].ans
<1>1. /\ task[t].pc = "remember" /\ q \in Rids /\ own.st \in {"done", "error"}
      /\ UNCHANGED <<mreqs, recov, body, stuck, runs, told>>
      /\ reqs' = [reqs EXCEPT ![q] = Terminal(own.st, own)]
      /\ task' = [task EXCEPT ![t].pc = "stored"]
  BY DEF RememberAppend, TypeInv, TaskShape
<1>2. /\ task'[t].pc = "stored" /\ task'[t].rid = q /\ task'[t].ans = own
      /\ task'[t].say = task[t].say
  BY <1>0, <1>1 DEF TaskStates
<1>3. \A r \in Rids : reqs'[r] = IF r = q THEN Terminal(own.st, own) ELSE reqs[r]
  BY <1>1 DEF TypeInv, TypeOK
<1>4. \A r \in Rids, ans \in Answers : Said(r, ans)' => Said(r, ans) \/ Vague(r, ans)
  <2> SUFFICES ASSUME NEW r \in Rids, NEW ans \in Answers, Said(r, ans)' PROVE Said(r, ans)
    OBVIOUS
  <2>1. CASE reqs'[r].ans = ans
    BY <1>1, <1>3, <2>1, EntryForms DEF Said
  <2>2. CASE \E u \in Tasks : /\ task'[u].pc \in {"remember", "stored"}
                              /\ task'[u].rid = r /\ task'[u].ans = ans
    BY <1>0, <1>1, <1>2, <2>2 DEF Said, Moves
  <2> QED  BY <1>1, <2>1, <2>2 DEF Said
<1>5. SayTask(t)'
  BY <1>1, <1>2 DEF SaidInv, SayTask, Commands
<1>6. SaidInv'
  BY <1>0, <1>1, <1>4, <1>5, QuietSaid
<1>7. AckTask(t)'
  BY <1>1, <1>2, <1>3, EntryForms DEF AckTask
<1>8. \A i \in OpIds, r \in Rids : ToldId(i, r)' => Given(i, r)
  BY <1>1 DEF ToldId, Given
<1>9. Owns(t) /\ Owns(t)'
  BY <1>1, <1>2 DEF Owns
<1>10. \A r \in Rids : \/ reqs'[r] = reqs[r]
                       \/ reqs'[r].status = "inprogress" /\ reqs'[r].ans = NoAnswer
                       \/ r = task[t].rid /\ Owns(t) /\ reqs'[r].status \in {"done", "error"}
  BY <1>1, <1>3, <1>9, EntryForms
<1> QED  BY <1>0, <1>1, <1>2, <1>6, <1>7, <1>8, <1>9, <1>10, AckFrame

(* An answer is told and put in the table. If it names an operation, it is a *)
(* success; what was given before has no records left.                      *)
LEMMA RememberInsertAck ==
  ASSUME Calm, TypeInv', SaidInv, AckInv, NEW t \in Tasks, RememberInsert(t)
  PROVE  SaidInv' /\ AckInv'
<1> USE DEF At, disk, tables, ghosts, Calm, IInv
<1>0. /\ Moves(t) /\ task[t] \in TaskStates /\ task \in [Tasks -> TaskStates]
      /\ UNCHANGED <<ops, mops, effects, prune>> /\ task'[t].pc \notin Logging
  BY QuietClaims DEF TypeInv, TypeOK, Quiet
<1> DEFINE q == task[t].rid
           own == task[t].ans
<1>1. /\ task[t].pc = "stored" /\ q \in Rids /\ own.st \in {"done", "error"} /\ own \in Answers
      /\ UNCHANGED <<reqs, recov, body, stuck, runs>> /\ srv = "up" /\ srv' = srv
      /\ mreqs' = [mreqs EXCEPT ![q] = Terminal(own.st, own)]
      /\ told' = told \cup {<<q, task[t].say>>}
      /\ task' = [task EXCEPT ![t] = IdleTask]
  BY <1>0 DEF RememberInsert, TypeInv, TaskShape, TaskStates
<1>2. task'[t].pc = "idle" /\ task[t].say = own
  BY <1>1, IdleMoves DEF SaidInv, SayTask
<1>3. \A r \in Rids : mreqs'[r] = IF r = q THEN Terminal(own.st, own) ELSE mreqs[r]
  BY <1>1 DEF TypeInv, TypeOK
<1>4. Said(q, own) /\ Sound(q, own) /\ Owns(t)
  BY <1>1 DEF Said, SaidInv, Owns
<1>5. \A r \in Rids, ans \in Answers : Said(r, ans)' => Said(r, ans) \/ Vague(r, ans)
  <2> SUFFICES ASSUME NEW r \in Rids, NEW ans \in Answers, Said(r, ans)' PROVE Said(r, ans)
    OBVIOUS
  <2>1. CASE mreqs'[r].ans = ans
    BY <1>3, <1>4, <2>1, EntryForms DEF Said
  <2>2. CASE \E u \in Tasks : /\ task'[u].pc \in {"remember", "stored"}
                              /\ task'[u].rid = r /\ task'[u].ans = ans
    BY <1>0, <1>2, <2>2 DEF Said, Moves
  <2>3. CASE <<r, ans>> \in told'
    BY <1>1, <1>2, <1>4, <2>3 DEF Said
  <2> QED  BY <1>1, <2>1, <2>2, <2>3 DEF Said
<1>6. SayTask(t)'
  BY <1>2 DEF SayTask, Commands
<1>7. SaidInv'
  BY <1>0, <1>1, <1>5, <1>6, QuietSaid
<1>8. \A i \in OpIds, r \in Rids : Given(i, r)' => Given(i, r) \/ (r = q /\ own.op = i)
  BY <1>1, <1>2, <1>3, EntryForms DEF Given, ToldId
<1>9. \A u \in Tasks : Owns(u)' => Owns(u) /\ task'[u].rid = task[u].rid /\ task[u].rid # q
  BY <1>0, <1>2, <1>4 DEF Moves, Owns, SingleOwner
<1>10. ASSUME NEW i \in OpIds, NEW r \in Rids PROVE AckPart(i, r)'
  <2>1. CASE r # q
    <3>1. AckPart(i, r) /\ mreqs'[r] = mreqs[r] /\ (Given(i, r)' => Given(i, r))
      BY <1>3, <1>8, <2>1 DEF AckInv
    <3> QED  BY <1>0, <1>1, <1>9, <3>1 DEF AckPart
  <2>2. CASE r = q /\ own.op = i
    <3>1. own.st = "done" /\ mreqs'[r].ans = own
      BY <1>3, <1>4, <2>2, NoIds, EntryForms DEF Sound
    <3>2. reqs[r].status = "inprogress" \/ reqs[r].ans = own
      BY <1>1, <2>2 DEF AckInv, AckTask
    <3> QED  BY <1>1, <1>9, <2>2, <3>1, <3>2 DEF AckPart
  <2>3. CASE r = q /\ own.op # i /\ Given(i, r)
    <3>1. RecordRid(ops[i]) # r
      BY <1>4, <2>3 DEF AckInv, AckPart
    <3>2. RecordRid(mops[i]) # r
      <4> SUFFICES ASSUME RecordRid(mops[i]) = r PROVE FALSE
        OBVIOUS
      <4>1. mops[i].st # "none"
        BY RecordOf
      <4> QED  BY <3>1, <4>1, MemoryLogged
    <3> QED  BY <1>0, <3>1, <3>2 DEF AckPart
  <2> QED  BY <1>8, <2>1, <2>2, <2>3 DEF AckPart
<1>11. \A r \in Rids : ExecPart(r)' /\ EntryShape(r)'
  BY <1>0, <1>1, <1>3, EntryForms DEF AckInv, ExecPart, EntryShape, Shaped
<1>12. \A u \in Tasks : AckTask(u)'
  BY <1>0, <1>1, <1>2 DEF AckInv, AckTask, Moves, BodyOf
<1>13. RecovAck'
  BY <1>0, <1>1 DEF AckInv, RecovAck
<1> QED  BY <1>7, <1>10, <1>11, <1>12, <1>13 DEF AckInv

(* A handler that goes on, or finishes without an operation.                *)
LEMMA HandlerAck ==
  ASSUME Calm, TypeInv', SaidInv, AckInv, NEW t \in Tasks, Moves(t),
         UNCHANGED <<ops, mops, reqs, mreqs, body, recov, stuck, told, effects, runs>>,
         prune' = prune \/ prune.stage # "idle",
         task[t].pc \in {"begin", "read"}, BodyOf(t).kind # "exec", task'[t].rid = task[t].rid,
         \/ task'[t].pc = "read"
         \/ /\ task'[t].pc = "remember" /\ task'[t].say = task'[t].ans
            /\ Vague(task[t].rid, task'[t].ans)
  PROVE  SaidInv' /\ AckInv'
<1> USE DEF Calm, IInv
<1>1. task'[t].pc \notin Logging /\ BodyOf(t)' = BodyOf(t) /\ Owns(t)
  BY DEF Logging, BodyOf, Owns
<1>2. \A r \in Rids, ans \in Answers : Said(r, ans)' => Said(r, ans) \/ Vague(r, ans)
  <2> SUFFICES ASSUME NEW r \in Rids, NEW ans \in Answers, Said(r, ans)'
               PROVE  Said(r, ans) \/ Vague(r, ans)
    OBVIOUS
  <2>1. CASE \E u \in Tasks : /\ task'[u].pc \in {"remember", "stored"}
                              /\ task'[u].rid = r /\ task'[u].ans = ans
    BY <2>1 DEF Said, Moves
  <2> QED  BY <2>1 DEF Said
<1>3. SayTask(t)'
  BY DEF SayTask, Commands
<1>4. SaidInv'
  BY <1>1, <1>2, <1>3, QuietSaid
<1>5. AckTask(t)'
  BY <1>1 DEF AckTask
<1>6. \A i \in OpIds, r \in Rids : ToldId(i, r)' => Given(i, r)
  BY DEF ToldId, Given
<1> QED  BY <1>1, <1>4, <1>5, <1>6, AckFrame

(* Reads, refusals and the first look of a mutation.                        *)
LEMMA LooksAck ==
  ASSUME Calm, TypeInv', SaidInv, AckInv, NEW t \in Tasks,
         ReadOnly(t) \/ FsReadReject(t) \/ FsCheck(t)
  PROVE  SaidInv' /\ AckInv'
<1> USE DEF At, disk, tables, ghosts, Calm, IInv
<1>1. /\ srv = "up" /\ srv' = srv /\ task[t].pc \in {"begin", "read"} /\ task[t].rid \in Rids
      /\ UNCHANGED <<ops, mops, reqs, mreqs, body, recov, stuck, told, effects, runs, prune>>
  BY DEF ReadOnly, FsReadReject, FsCheck, TypeInv, TaskShape
<1>2. Moves(t) /\ (task'[t].pc = "read" => task'[t].rid = task[t].rid)
  BY QuietHandlers, QuietFsCheck DEF Quiet, Unclaimed
<1>3. BodyOf(t).kind \in FsKinds \cup {"read"} /\ BodyOf(t).kind # "exec"
  BY DEF ReadOnly, FsReadReject, FsCheck, Kind, TypeInv, TaskShape, FsSteps, FsKinds
<1>4. ASSUME NEW ans \in Answers, FinishWith(t, ans), Vague(task[t].rid, ans)
      PROVE  SaidInv' /\ AckInv'
  BY <1>1, <1>3, <1>4, FinishTask, HandlerAck
<1>5. ASSUME NEW code \in Codes, FinishWith(t, Err(code)) PROVE SaidInv' /\ AckInv'
  BY <1>4, <1>5, ErrTypes, ErrVague
<1>6. CASE ReadOnly(t)
  <2> DEFINE f == file[BodyOf(t).path]
  <2>1. BodyOf(t) \in Bodies /\ BodyOf(t).kind = "read"
    BY <1>1, <1>6 DEF BodyOf, TypeInv, TypeOK, ReadOnly, Kind
  <2>2. CASE f = Unresolvable
    BY <1>5, <1>6, <2>2 DEF ReadOnly, Codes
  <2>3. CASE f # Unresolvable /\ f = Absent
    BY <1>5, <1>6, <2>3 DEF ReadOnly, Codes
  <2>4. CASE f # Unresolvable /\ f # Absent
    <3>1. f \in State /\ Absent \in State /\ 0 \in 0..MaxOps
      BY <2>1, <2>4, MaxOpsAssumption DEF MaxOpsAssumption, TypeInv, TypeOK, Bodies, State
    <3>2. FinishWith(t, Done(0, Absent, f))
      BY <1>6, <2>4 DEF ReadOnly
    <3>3. Done(0, Absent, f) \in Answers
      BY <3>1, AnswerTypes
    <3>4. Vague(task[t].rid, Done(0, Absent, f))
      BY <2>1, NoIds DEF Vague, BodyOf, FsKinds
    <3> QED  BY <1>4, <3>2, <3>3, <3>4
  <2> QED  BY <2>2, <2>3, <2>4
<1>7. CASE FsReadReject(t)
  <2>1. \E code \in Codes : FinishWith(t, Err(code))
    BY <1>7 DEF FsReadReject, SecondLookError, Codes
  <2> QED  BY <1>5, <2>1
<1>8. CASE FsCheck(t)
  <2>1. (\E code \in Codes : FinishWith(t, Err(code))) \/ task'[t].pc = "read"
    BY <1>8, FirstLook
  <2>2. CASE task'[t].pc = "read"
    BY <1>1, <1>2, <1>3, <2>2, HandlerAck
  <2> QED  BY <1>5, <2>1, <2>2
<1> QED  BY <1>6, <1>7, <1>8

(* A task of a mutation that has its operation, and writes its own record at *)
(* most.                                                                    *)
LEMMA MutationAck ==
  ASSUME Calm, TypeInv', SaidInv, AckInv, NEW t \in Tasks, Moves(t),
         task[t].pc \in FsSteps, task'[t].rid = task[t].rid,
         UNCHANGED <<reqs, mreqs, body, recov, stuck, told, runs, prune>>,
         effects \subseteq effects',
         \A i \in OpIds : \/ ops'[i] = ops[i]
                          \/ /\ i = task[t].op /\ task[t].pc \in Logging /\ ops'[i].st # "exec"
                             /\ RecordRid(ops'[i]) = task[t].rid,
         \A i \in OpIds : \/ mops'[i] = mops[i]
                          \/ /\ i = task[t].op /\ task[t].pc \in Logging
                             /\ RecordRid(mops'[i]) = task[t].rid,
         \/ /\ task'[t].pc \in {"prepare", "install", "commit"}
            /\ \/ task[t].pc \in Logging /\ task'[t].op = task[t].op
               \/ task'[t].op = nextId + 1
         \/ /\ task'[t].pc = "remember" /\ task'[t].say = task'[t].ans
            /\ task'[t].ans \in Answers => Sound(task[t].rid, task[t].ans)'
  PROVE  SaidInv' /\ AckInv'
<1> USE DEF Calm, IInv
<1>1. /\ BodyOf(t).kind \in FsKinds /\ BodyOf(t).kind # "exec" /\ BodyOf(t)' = BodyOf(t)
      /\ body[task[t].rid].kind # "exec" /\ Owns(t) /\ srv = "up" /\ task[t].rid \in Rids
  BY DEF TypeInv, TaskShape, FsSteps, FsKinds, BodyOf, Owns, Moves
<1>2. \A r \in Rids, ans \in Answers : Said(r, ans)' =>
             \/ Said(r, ans) \/ Vague(r, ans)
             \/ Sound(r, ans)' /\ (body[r].kind = "exec" /\ ans.op \in OpIds => Started(ans.op, r))
  <2> SUFFICES ASSUME NEW r \in Rids, NEW ans \in Answers, Said(r, ans)'
               PROVE  \/ Said(r, ans)
                      \/ Sound(r, ans)' /\ body[r].kind # "exec"
    OBVIOUS
  <2>1. CASE \E u \in Tasks : /\ task'[u].pc \in {"remember", "stored"}
                              /\ task'[u].rid = r /\ task'[u].ans = ans
    BY <1>1, <2>1 DEF Said, Moves
  <2> QED  BY <2>1 DEF Said
<1>3. \A u \in Tasks : SayTask(u)'
  <2>1. SayTask(t)'
    BY DEF SayTask, Commands
  <2> QED  BY <2>1 DEF SaidInv, SayTask, Moves
<1>4. \A u \in Tasks : task'[u].pc \in Logging =>
             \/ task[u].pc \in Logging /\ task'[u].op = task[u].op
             \/ srv # "down" /\ task'[u].op = nextId + 1
  BY <1>1 DEF Moves, Logging
<1>5. \A u \in Tasks : task'[u].pc \in Commands =>
             /\ task[u].pc \in Commands /\ task'[u].op = task[u].op
             /\ task'[u].rid = task[u].rid /\ task'[u].ans = task[u].ans
  BY DEF Moves, Commands
<1>6. SaidInv'
  <2>1. \A i \in OpIds : ops'[i].st = "exec" => ops'[i] = ops[i]
    OBVIOUS
  <2> QED  BY <1>2, <1>3, <1>4, <1>5, <2>1, SaidStep
<1>7. AckTask(t)'
  BY <1>1 DEF AckTask
<1>8. \A i \in OpIds, r \in Rids : ToldId(i, r)' => Given(i, r)
  BY DEF ToldId, Given
<1> QED  BY <1>1, <1>6, <1>7, <1>8, AckFrame

(* The blob, the marker and the mutation.                                   *)
LEMMA MutatesAck ==
  ASSUME Calm, TypeInv', SaidInv, AckInv, NEW t \in Tasks,
         FsBlob(t) \/ FsPrepare(t) \/ FsInstall(t)
  PROVE  SaidInv' /\ AckInv'
<1> USE DEF At, disk, tables, ghosts, Calm, IInv
<1>1. /\ srv = "up" /\ srv' = srv /\ task[t].pc \in {"read", "prepare", "install"}
      /\ UNCHANGED <<mops, reqs, mreqs, body, recov, stuck, told, runs, prune>>
      /\ effects \subseteq effects' /\ task[t] \in TaskStates /\ task \in [Tasks -> TaskStates]
  BY DEF FsBlob, FsPrepare, FsInstall, Install, TypeInv, TypeOK
<1>2. task[t].pc \in FsSteps
  BY <1>1 DEF FsSteps
<1>3. CASE FsBlob(t)
  <2>1. TakesId(t) /\ ops' = ops
    BY <1>3, TakesIdSteps DEF TakesId
  <2>2. task'[t].pc = "prepare"
    <3> DEFINE look == SecondLook(t)
               next == [task[t] EXCEPT !.pc = "prepare", !.op = nextId + 1,
                            !.old = look.old, !.new = look.new, !.blob = look.blob]
    <3>1. next.pc = "prepare"
      BY <1>1 DEF TaskStates
    <3>2. task' = [task EXCEPT ![t] = next]
      BY <1>3 DEF FsBlob
    <3> HIDE DEF next
    <3> QED  BY <1>1, <3>1, <3>2
  <2>3. Moves(t) /\ task'[t].rid = task[t].rid /\ task'[t].op = nextId + 1
    BY <2>1 DEF TakesId
  <2> QED  BY <1>1, <1>2, <2>1, <2>2, <2>3, MutationAck
<1>4. CASE FsPrepare(t) \/ FsInstall(t)
  <2>1. PICK pc \in {"install", "commit"} : task' = [task EXCEPT ![t].pc = pc]
    BY <1>4 DEF FsPrepare, FsInstall
  <2>2. /\ task'[t].pc = pc /\ task'[t].rid = task[t].rid /\ task'[t].op = task[t].op /\ Moves(t)
        /\ task[t].pc \in Logging
    BY <1>1, <1>4, <2>1 DEF TaskStates, Moves, Logging, FsPrepare, FsInstall
  <2>3. /\ FsRecord(t, "prepared", now).st = "prepared"
        /\ RecordRid(FsRecord(t, "prepared", now)) = task[t].rid
    BY DEF FsRecord, RecordRid
  <2>4. \A i \in OpIds : \/ ops'[i] = ops[i]
                         \/ /\ i = task[t].op /\ task[t].pc \in Logging /\ ops'[i].st # "exec"
                            /\ RecordRid(ops'[i]) = task[t].rid
    BY <1>4, <2>2, <2>3 DEF FsPrepare, FsInstall, TypeInv, TypeOK
  <2> QED  BY <1>1, <1>2, <2>2, <2>4, MutationAck
<1> QED  BY <1>3, <1>4

(* A committed mutation is answered with what it did.                       *)
LEMMA CommitReply ==
  ASSUME Calm, NEW t \in Tasks, task[t].pc = "commit"
  PROVE  /\ EffectOf(task[t].op) \in effects /\ EffectOf(task[t].op).rid = task[t].rid
         /\ FsAnswer(t) = Reply(EffectOf(task[t].op))
<1> USE DEF Calm, IInv
<1>0. PICK k : k = task[t].op
  OBVIOUS
<1>1. /\ ops[k] = FsRecord(t, "prepared", ops[k].ts) /\ Made(k) /\ LookPart(t)
      /\ BodyOf(t) \in Bodies /\ k \in OpIds
  BY <1>0 DEF StoreInv, WritePart, TypeInv, TypeOK, TaskShape, BodyOf
<1>2. /\ EffectOf(k).rid = task[t].rid /\ EffectOf(k).op = k
      /\ EffectOf(k).old = task[t].old /\ EffectOf(k).new = task[t].new
  BY <1>1 DEF EffectOf, FsRecord
<1>3. CASE BodyOf(t).kind = "undo"
  <2>1. PICK target \in OpIds : target = BodyOf(t).target
    BY <1>1 DEF Bodies
  <2>2. ops[target].st = "fs" /\ task[t].new = ops[target].old
    BY <1>1, <1>3, <2>1 DEF LookPart, FsSteps
  <2>3. prune.stage = "idle" /\ srv = "up"
    BY FsNoPrune DEF WalIInv, FsSteps
  <2>4. mops[target] = ops[target]
    BY <2>2, <2>3, FsInMemory
  <2>5. FsAnswer(t) = Done(k, task[t].new, task[t].new)
    BY <1>0, <1>3, <2>1, <2>2, <2>4 DEF FsAnswer, Kind
  <2> QED  BY <1>0, <1>1, <1>2, <1>3, <2>5 DEF Made, Reply, BodyOf
<1>4. CASE BodyOf(t).kind # "undo"
  BY <1>0, <1>1, <1>2, <1>4 DEF Made, Reply, BodyOf, FsAnswer, Kind
<1> QED  BY <1>3, <1>4

(* The commit.                                                              *)
LEMMA CommitAck ==
  ASSUME Calm, TypeInv', SaidInv, AckInv, NEW t \in Tasks, FsCommit(t)
  PROVE  SaidInv' /\ AckInv'
<1> USE DEF At, disk, tables, ghosts, Calm, IInv
<1>0. PICK k, rec : k = task[t].op /\ rec = FsRecord(t, "fs", now)
  OBVIOUS
<1>1. /\ srv = "up" /\ srv' = srv /\ task[t].pc = "commit" /\ FinishWith(t, FsAnswer(t))
      /\ ops' = [ops EXCEPT ![k] = rec] /\ mops' = [mops EXCEPT ![k] = rec]
      /\ UNCHANGED <<reqs, mreqs, body, recov, stuck, told, runs, effects, prune>>
  BY <1>0 DEF FsCommit
<1>2. /\ k \in OpIds /\ task[t].rid \in Rids /\ task[t].pc \in FsSteps /\ task[t].pc \in Logging
      /\ ops \in [OpIds -> Records] /\ mops \in [OpIds -> Records]
      /\ BodyOf(t).kind \in FsKinds
  BY <1>0, <1>1 DEF TypeInv, TypeOK, TaskShape, FsSteps, Logging
<1>3. rec.st = "fs" /\ RecordRid(rec) = task[t].rid
  BY <1>0 DEF FsRecord, RecordRid
<1>4. FsAnswer(t) \in Answers /\ FsAnswer(t).op = k /\ FsAnswer(t).st = "done"
  BY <1>0, <1>1, <1>2, FsAnswerIds, CommitAnswer
<1>5. /\ Moves(t) /\ task'[t].pc = "remember" /\ task'[t].rid = task[t].rid
      /\ task'[t].ans = FsAnswer(t) /\ task'[t].say = FsAnswer(t)
  BY <1>1, <1>4, FinishTask
<1>6. \E e \in effects : e.rid = task[t].rid /\ FsAnswer(t) = Reply(e)
  BY <1>1, CommitReply
<1>7. \A e : Reply(e)' = Reply(e)
  BY <1>1 DEF Reply
<1>8. \A u \in Tasks : task'[u].pc \in Logging => task'[u].op # k
  <2>1. \A u \in Tasks \ {t} : task[u].op # k
    BY <1>0, <1>2, OwnOperation DEF WalIInv
  <2> QED  BY <1>5, <2>1 DEF Moves, Logging
<1>9. ~Rejected(k)'
  BY <1>1, <1>2, <1>3 DEF Rejected
<1>10. PICK ans \in Answers : ans = FsAnswer(t)
  BY <1>4
<1>11. Sound(task[t].rid, ans)'
  <2>1. ans.op = k /\ ans.st = "done" /\ body[task[t].rid].kind \in FsKinds
        /\ body[task[t].rid].kind # "exec" /\ body' = body
    BY <1>1, <1>2, <1>4, <1>10 DEF BodyOf, FsKinds
  <2>2. \E e \in effects' : e.rid = task[t].rid /\ ans = Reply(e)'
    BY <1>1, <1>6, <1>7, <1>10
  <2> QED  BY <1>5, <1>8, <1>9, <2>1, <2>2 DEF Sound
<1>12. \A i \in OpIds : \/ ops'[i] = ops[i]
                        \/ /\ i = task[t].op /\ task[t].pc \in Logging /\ ops'[i].st # "exec"
                           /\ RecordRid(ops'[i]) = task[t].rid
  BY <1>0, <1>1, <1>2, <1>3
<1>13. \A i \in OpIds : \/ mops'[i] = mops[i]
                        \/ /\ i = task[t].op /\ task[t].pc \in Logging
                           /\ RecordRid(mops'[i]) = task[t].rid
  BY <1>0, <1>1, <1>2, <1>3
<1> QED  BY <1>1, <1>2, <1>5, <1>10, <1>11, <1>12, <1>13, MutationAck

(* A command starts, or is refused.                                         *)
LEMMA ExecStartAck ==
  ASSUME Calm, TypeInv', SaidInv, AckInv, NEW t \in Tasks, ExecStart(t, TRUE) \/ ExecStart(t, FALSE)
  PROVE  SaidInv' /\ AckInv'
<1> USE DEF At, disk, tables, ghosts, Calm, IInv
<1>0. PICK k, q : k = nextId + 1 /\ q = task[t].rid
  OBVIOUS
<1>1. /\ srv = "up" /\ srv' = srv /\ task[t].pc = "begin" /\ BodyOf(t).kind = "exec" /\ q \in Rids
      /\ UNCHANGED <<ops, mops, reqs, mreqs, body, recov, stuck, told, effects, prune>>
      /\ task[t] \in TaskStates /\ task \in [Tasks -> TaskStates]
  BY <1>0 DEF ExecStart, Kind, TypeInv, TypeOK, TaskShape
<1>2. PICK ans \in {Done(k, Absent, Absent), Err("ExecFailed")} :
          /\ task' = [task EXCEPT ![t] = [@ EXCEPT !.pc = "exec_append", !.op = k, !.ans = ans,
                                                   !.say = ans]]
          /\ \/ ans = Err("ExecFailed") /\ runs' = runs
             \/ ans = Done(k, Absent, Absent) /\ runs' = [runs EXCEPT ![q] = @ + 1]
  BY <1>0 DEF ExecStart
<1> DEFINE next == [task[t] EXCEPT !.pc = "exec_append", !.op = k, !.ans = ans, !.say = ans]
<1>3. /\ next.pc = "exec_append" /\ next.op = k /\ next.ans = ans /\ next.say = ans
      /\ next.rid = q
  BY <1>0, <1>1 DEF TaskStates
<1>4. task' = [task EXCEPT ![t] = next]
  BY <1>2
<1> HIDE DEF next
<1>5. /\ task'[t].pc = "exec_append" /\ task'[t].op = k /\ task'[t].ans = ans
      /\ task'[t].say = ans /\ task'[t].rid = q /\ Moves(t)
  BY <1>1, <1>3, <1>4 DEF Moves
<1>6. \A r \in Rids, a \in Answers : Said(r, a)' => Said(r, a)
  BY <1>1, <1>5 DEF Said, Moves
<1>7. ASSUME NEW j \in OpIds, NEW r \in Rids, Started(j, r)'
      PROVE  Started(j, r) \/ (j = k /\ r = q /\ ans.st = "done")
  <2>1. CASE ops'[j].st = "exec" /\ ops'[j].kind = "exec" /\ ops'[j].rid = r
    BY <1>1, <2>1 DEF Started
  <2>2. CASE \E u \in Tasks : /\ task'[u].pc \in Commands
                              /\ task'[u].rid = r /\ task'[u].op = j /\ task'[u].ans.st = "done"
    BY <1>5, <2>2 DEF Started, Moves
  <2>3. CASE \E a \in Answers : Said(r, a)' /\ a.op = j
    BY <1>6, <2>3 DEF Started
  <2> QED  BY <1>7, <2>1, <2>2, <2>3 DEF Started
<1>8. runs \in [Rids -> Nat]
  BY DEF TypeInv, TypeOK
<1>9. ASSUME NEW r \in Rids PROVE OneStart(r)'
  <2>1. OneStart(r)
    BY DEF SaidInv
  <2>2. CASE r # q \/ ans.st # "done"
    <3>1. runs'[r] = runs[r]
      BY <1>2, <1>8, <2>2 DEF Done
    <3>2. \A j \in OpIds : Started(j, r)' => Started(j, r)
      BY <1>7, <2>2
    <3> QED  BY <1>1, <2>1, <3>1, <3>2 DEF OneStart
  <2>3. CASE r = q /\ ans.st = "done"
    <3>1. runs'[r] = runs[r] + 1 /\ runs[r] \in Nat
      BY <1>2, <1>8, <2>3, NoIds
    <3>2. \A j \in OpIds : Started(j, r)' => j = k \/ runs[r] > 0
      BY <1>1, <1>0, <1>7, <2>1, <2>3 DEF OneStart, BodyOf
    <3>3. runs'[r] > 0 /\ (runs[r] > 0 => runs'[r] > 1)
      BY <3>1
    <3> QED  BY <3>2, <3>3 DEF OneStart
  <2> QED  BY <2>2, <2>3
<1>10. \A u \in Tasks : SayTask(u)'
  <2>1. SayTask(t)'
    BY <1>5 DEF SayTask, Commands
  <2> QED  BY <1>5, <2>1 DEF SaidInv, SayTask, Moves
<1>11. SaidInv'
  <2>1. \A i \in OpIds : Bare(i)' /\ (Rejected(i)' => Rejected(i))
    BY <1>1 DEF SaidInv, Bare, Rejected
  <2>2. \A u \in Tasks : task'[u].pc \in Logging =>
             \/ task[u].pc \in Logging /\ task'[u].op = task[u].op
             \/ srv # "down" /\ task'[u].op = nextId + 1
    BY <1>0, <1>1, <1>5 DEF Moves
  <2>3. \A i \in OpIds : Rejected(i)' =>
             Rejected(i) \/ \E u \in Tasks : task[u].pc \in Logging /\ task[u].op = i
    BY <2>1
  <2> QED  BY <1>1, <1>6, <1>9, <1>10, <2>1, <2>2, <2>3, SaidFrame
<1>12. AckTask(t)'
  <2>1. AckTask(t)
    BY DEF AckInv
  <2> QED  BY <1>0, <1>1, <1>5, <2>1 DEF AckTask
<1>13. Owns(t) /\ \A i \in OpIds, r \in Rids : ToldId(i, r)' => Given(i, r)
  BY <1>1 DEF ToldId, Given, Owns
<1> QED  BY <1>0, <1>1, <1>5, <1>11, <1>12, <1>13, AckFrame

(* A command that has ended stores its record.                              *)
LEMMA ExecAppendAck ==
  ASSUME Calm, TypeInv', SaidInv, AckInv, NEW t \in Tasks, ExecAppend(t)
  PROVE  SaidInv' /\ AckInv'
<1> USE DEF At, disk, tables, ghosts, Calm, IInv
<1>0. PICK k, rec : k = task[t].op /\ rec = ExecRecord(t, now)
  OBVIOUS
<1>1. /\ srv = "up" /\ srv' = srv /\ task[t].pc = "exec_append" /\ k \in OpIds
      /\ task[t].rid \in Rids /\ ops' = [ops EXCEPT ![k] = rec]
      /\ UNCHANGED <<mops, reqs, mreqs, body, recov, stuck, told, effects, runs, prune>>
      /\ task[t] \in TaskStates /\ task \in [Tasks -> TaskStates] /\ ops \in [OpIds -> Records]
  BY <1>0 DEF ExecAppend, TypeInv, TypeOK, TaskShape
<1>2. /\ rec.st = "exec" /\ rec.rid = task[t].rid /\ RecordRid(rec) = task[t].rid
      /\ rec.kind = "exec" => task[t].ans.st = "done"
      /\ rec.old = Absent /\ rec.new = Absent
  BY <1>0 DEF ExecRecord, NoRec, RecordRid
<1> DEFINE next == [task[t] EXCEPT !.pc = "exec_push", !.ts = now]
<1>3. /\ next.pc = "exec_push" /\ next.op = k /\ next.ans = task[t].ans
      /\ next.say = task[t].say /\ next.rid = task[t].rid
  BY <1>0, <1>1 DEF TaskStates
<1>4. task' = [task EXCEPT ![t] = next]
  BY DEF ExecAppend
<1> HIDE DEF next
<1>5. /\ task'[t].pc = "exec_push" /\ task'[t].op = k /\ task'[t].ans = task[t].ans
      /\ task'[t].say = task[t].say /\ task'[t].rid = task[t].rid /\ Moves(t)
  BY <1>1, <1>3, <1>4 DEF Moves
<1>6. \A r \in Rids, a \in Answers : Said(r, a)' => Said(r, a)
  BY <1>1, <1>5 DEF Said, Moves
<1>7. \A i \in OpIds : ops'[i].st = "exec" =>
             \/ ops'[i] = ops[i]
             \/ /\ Bare(i)'
                /\ \E u \in Tasks : /\ task[u].pc = "exec_append" /\ task[u].op = i
                                    /\ ops'[i].rid = task[u].rid
                                    /\ ops'[i].kind = "exec" => task[u].ans.st = "done"
  <2> TAKE i \in OpIds
  <2>1. CASE i = k
    <3>1. ops'[i] = rec
      BY <1>1, <2>1
    <3> QED  BY <1>0, <1>1, <1>2, <2>1, <3>1 DEF Bare
  <2>2. CASE i # k
    BY <1>1, <2>2
  <2> QED  BY <2>1, <2>2
<1>8. \A u \in Tasks : SayTask(u)'
  <2>1. SayTask(t)'
    BY <1>0, <1>1, <1>5 DEF SaidInv, SayTask, Commands
  <2> QED  BY <1>5, <2>1 DEF SaidInv, SayTask, Moves
<1>9. SaidInv'
  <2>1. \A u \in Tasks : task'[u].pc \in Logging =>
             \/ task[u].pc \in Logging /\ task'[u].op = task[u].op
             \/ srv # "down" /\ task'[u].op = nextId + 1
    BY <1>0, <1>1, <1>5 DEF Moves, Logging
  <2>2. \A u \in Tasks : task'[u].pc \in Commands =>
             /\ task[u].pc \in Commands /\ task'[u].op = task[u].op
             /\ task'[u].rid = task[u].rid /\ task'[u].ans = task[u].ans
    BY <1>0, <1>1, <1>5 DEF Moves, Commands
  <2> QED  BY <1>1, <1>6, <1>7, <1>8, <2>1, <2>2, SaidStep
<1>10. AckTask(t)'
  <2>1. AckTask(t)
    BY DEF AckInv
  <2> QED  BY <1>0, <1>1, <1>5, <2>1 DEF AckTask, BodyOf
<1>11. Owns(t) /\ \A i \in OpIds, r \in Rids : ToldId(i, r)' => Given(i, r)
  BY <1>1 DEF ToldId, Given, Owns
<1>12. \A i \in OpIds : \/ ops'[i] = ops[i]
                        \/ /\ i = task[t].op /\ task[t].pc \in Logging
                           /\ RecordRid(ops'[i]) = task[t].rid
                           /\ BodyOf(t).kind = "exec" => task[t].pc = "exec_append"
  BY <1>0, <1>1, <1>2 DEF Logging
<1> QED  BY <1>0, <1>1, <1>5, <1>9, <1>10, <1>11, <1>12, AckFrame

(* Its record is in the log before the answer is on its way.                *)
LEMMA ExecPushAck ==
  ASSUME Calm, TypeInv', SaidInv, AckInv, NEW t \in Tasks, ExecPush(t)
  PROVE  SaidInv' /\ AckInv'
<1> USE DEF At, disk, tables, ghosts, Calm, IInv
<1>0. PICK k, q : k = task[t].op /\ q = task[t].rid
  OBVIOUS
<1>1. /\ srv = "up" /\ srv' = srv /\ task[t].pc = "exec_push" /\ k \in OpIds /\ q \in Rids
      /\ task' = [task EXCEPT ![t].pc = "remember"]
      /\ mops' = [mops EXCEPT ![k] = ExecRecord(t, task[t].ts)]
      /\ UNCHANGED <<ops, reqs, mreqs, body, recov, stuck, told, effects, runs, prune>>
      /\ task[t] \in TaskStates /\ task \in [Tasks -> TaskStates] /\ mops \in [OpIds -> Records]
  BY <1>0 DEF ExecPush, TypeInv, TypeOK, TaskShape
<1>2. PICK ans \in Answers : ans = task[t].ans
  BY <1>1 DEF TaskStates
<1>3. /\ task'[t].pc = "remember" /\ task'[t].op = k /\ task'[t].ans = ans
      /\ task'[t].say = task[t].say /\ task'[t].rid = q /\ Moves(t)
  BY <1>0, <1>1, <1>2 DEF Moves, TaskStates
<1>4. ans \in {Done(k, Absent, Absent), Err("ExecFailed")} /\ task[t].say = ans
  BY <1>0, <1>1, <1>2 DEF SaidInv, SayTask, Commands
<1>5. /\ ops[k] = ExecRecord(t, task[t].ts) /\ body[q].kind = "exec"
  BY <1>0, <1>1 DEF StoreInv, WritePart, BodyOf
<1>6. /\ ExecRecord(t, task[t].ts).st = "exec" /\ RecordRid(ExecRecord(t, task[t].ts)) = q
      /\ ans.st = "done" => ExecRecord(t, task[t].ts).kind = "exec"
  BY <1>0, <1>2 DEF ExecRecord, NoRec, RecordRid
<1>7. ASSUME ans.st = "done"
      PROVE  Sound(q, ans)' /\ Started(ans.op, q) /\ ans.op \in OpIds
  <2>1. ans = Done(k, Absent, Absent) /\ ans.op = k
    BY <1>4, <1>7, NoIds
  <2>2. \A u \in Tasks : task'[u].pc \in Logging => task'[u].op # k
    <3>1. \A u \in Tasks \ {t} : task[u].op # k
      BY <1>0, <1>1, OwnOperation DEF WalIInv
    <3> QED  BY <1>3, <3>1 DEF Moves, Logging
  <2>3. ~Rejected(k)'
    BY <1>1, <1>5, <1>6, <1>7 DEF Rejected
  <2>4. Started(k, q)
    BY <1>0, <1>1, <1>2, <1>7 DEF Started, Commands
  <2>5. body'[q].kind = "exec" /\ "exec" \notin FsKinds
    BY <1>1, <1>5 DEF FsKinds
  <2>6. Sound(q, ans)'
    BY <1>1, <1>7, <2>1, <2>2, <2>3, <2>5 DEF Sound
  <2> QED  BY <1>1, <2>1, <2>4, <2>6
<1>8. \A r \in Rids, a \in Answers : Said(r, a)' =>
             \/ Said(r, a) \/ Vague(r, a)
             \/ Sound(r, a)' /\ (body[r].kind = "exec" /\ a.op \in OpIds => Started(a.op, r))
  <2> SUFFICES ASSUME NEW r \in Rids, NEW a \in Answers, Said(r, a)', ~Said(r, a)
               PROVE  \/ Vague(r, a)
                      \/ Sound(r, a)' /\ Started(a.op, r)
    OBVIOUS
  <2>1. r = q /\ a = ans
    BY <1>1, <1>3 DEF Said, Moves
  <2>2. ans.st # "done" => Vague(q, ans)
    BY <1>4, NoIds, ErrVague DEF Done
  <2> QED  BY <1>7, <2>1, <2>2
<1>9. \A u \in Tasks : SayTask(u)'
  <2>1. SayTask(t)'
    BY <1>3, <1>4 DEF SayTask, Commands
  <2> QED  BY <1>3, <2>1 DEF SaidInv, SayTask, Moves
<1>10. SaidInv'
  <2>1. \A u \in Tasks : task'[u].pc \in Logging =>
             \/ task[u].pc \in Logging /\ task'[u].op = task[u].op
             \/ srv # "down" /\ task'[u].op = nextId + 1
    BY <1>3 DEF Moves, Logging
  <2>2. \A u \in Tasks : task'[u].pc \in Commands =>
             /\ task[u].pc \in Commands /\ task'[u].op = task[u].op
             /\ task'[u].rid = task[u].rid /\ task'[u].ans = task[u].ans
    BY <1>3 DEF Moves, Commands
  <2>3. \A i \in OpIds : ops'[i] = ops[i]
    BY <1>1
  <2> QED  BY <1>1, <1>8, <1>9, <2>1, <2>2, <2>3, SaidStep
<1>11. AckTask(t)'
  <2>1. AckTask(t)
    BY DEF AckInv
  <2> QED  BY <1>0, <1>1, <1>3, <2>1 DEF AckTask, BodyOf
<1>12. Owns(t) /\ \A i \in OpIds, r \in Rids : ToldId(i, r)' => Given(i, r)
  BY <1>1 DEF ToldId, Given, Owns
<1>13. \A i \in OpIds : \/ mops'[i] = mops[i]
                        \/ /\ i = task[t].op /\ task[t].pc \in Logging
                           /\ RecordRid(mops'[i]) = task[t].rid
  BY <1>0, <1>1, <1>6 DEF Logging
<1> QED  BY <1>0, <1>1, <1>3, <1>10, <1>11, <1>12, <1>13, AckFrame

-----------------------------------------------------------------------------
(* Prunes, crashes and recovery.                                            *)

(* A step in which every task stays as it is or dies.                       *)
LEMMA SaidStill ==
  ASSUME TypeInv, TypeInv', IdsInv, SaidInv, UNCHANGED <<body, runs, effects>>,
         \A t \in Tasks : task'[t] = task[t] \/ task'[t] = IdleTask,
         \A i \in OpIds : ops'[i].st = "exec" => ops'[i] = ops[i],
         \A r \in Rids, ans \in Answers : Said(r, ans)' =>
             \/ Said(r, ans) \/ Vague(r, ans)
             \/ Sound(r, ans)' /\ (body[r].kind = "exec" /\ ans.op \in OpIds => Started(ans.op, r))
  PROVE  SaidInv'
<1>1. \A t \in Tasks : task'[t].pc # "idle" => task'[t] = task[t]
  BY NoIds
<1>2. \A t \in Tasks : SayTask(t)'
  <2> SUFFICES ASSUME NEW t \in Tasks PROVE SayTask(t)'
    OBVIOUS
  <2>1. CASE task'[t].pc = "idle"
    BY <2>1 DEF SayTask, Commands
  <2>2. CASE task'[t] = task[t]
    BY <2>2 DEF SaidInv, SayTask
  <2> QED  BY <1>1, <2>1, <2>2
<1>3. \A t \in Tasks : task'[t].pc \in Logging =>
             \/ task[t].pc \in Logging /\ task'[t].op = task[t].op
             \/ srv # "down" /\ task'[t].op = nextId + 1
  BY <1>1 DEF Logging
<1>4. \A t \in Tasks : task'[t].pc \in Commands =>
             /\ task[t].pc \in Commands /\ task'[t].op = task[t].op
             /\ task'[t].rid = task[t].rid /\ task'[t].ans = task[t].ans
  BY <1>1 DEF Commands
<1>5. effects \subseteq effects'
  OBVIOUS
<1> QED  BY <1>2, <1>3, <1>4, <1>5, SaidStep

(* A step that leaves answers, records and tasks alone.                     *)
LEMMA SameAck ==
  ASSUME Calm, TypeInv', SaidInv, AckInv, RecovAck',
         UNCHANGED <<ops, mops, reqs, mreqs, told, recov, stuck, task, body, effects, runs>>
  PROVE  SaidInv' /\ AckInv'
<1>1. \A r \in Rids, ans \in Answers : Said(r, ans)' => Said(r, ans)
  BY DEF Said
<1>2. SaidInv'
  BY <1>1, SaidStill DEF Calm, IInv
<1>3. \A i \in OpIds, r \in Rids : AckPart(i, r)'
  BY DEF AckInv, AckPart, Given, ToldId, Owns
<1>4. \A r \in Rids : ExecPart(r)' /\ EntryShape(r)'
  BY DEF AckInv, ExecPart, EntryShape, Shaped
<1>5. \A t \in Tasks : AckTask(t)'
  BY DEF AckInv, AckTask, BodyOf
<1> QED  BY <1>2, <1>3, <1>4, <1>5 DEF AckInv

(* A trim drops entries whose requests have no record left.                 *)
LEMMA TrimAck ==
  ASSUME Calm, TypeInv', SaidInv, AckInv, NEW keep, NEW by, PruneTrim(keep, by),
         stuck = {}, recov = NoRecov,
         UNCHANGED <<ops, reqs, told, recov, stuck, task, body, effects, runs>>
  PROVE  SaidInv' /\ AckInv'
<1> USE DEF Calm, IInv
<1>1. \A i \in OpIds : mops'[i] \in {mops[i], NoRec}
  BY TrimTypes DEF PruneTrim, TypeInv, TypeOK
<1>2. \A r \in Rids : mreqs'[r] \in {mreqs[r], NoEntry}
  BY DEF PruneTrim, TrimRequests
<1>3. \A i \in OpIds, r \in Rids : RecordRid(mops'[i]) = r => mreqs'[r] = mreqs[r]
  BY DEF PruneTrim, TrimRequests
<1>4. SaidInv'
  <2>1. \A r \in Rids, ans \in Answers : Said(r, ans)' => Said(r, ans) \/ Vague(r, ans)
    <3> SUFFICES ASSUME NEW r \in Rids, NEW ans \in Answers, Said(r, ans)'
                 PROVE  Said(r, ans) \/ Vague(r, ans)
      OBVIOUS
    <3>1. CASE mreqs'[r].ans = ans
      BY <1>2, <3>1, EntryForms, ErrVague DEF Said
    <3> QED  BY <3>1 DEF Said
  <2> QED  BY <2>1, SaidStill
<1>5. ASSUME NEW i \in OpIds, NEW r \in Rids PROVE AckPart(i, r)'
  <2>1. AckPart(i, r) /\ (Given(i, r)' => Given(i, r))
    BY <1>2, NoIds DEF AckInv, Given, ToldId
  <2>2. RecordRid(mops'[i]) = r => mops'[i] = mops[i] /\ mreqs'[r] = mreqs[r]
    BY <1>1, <1>3, RecordOf
  <2>3. \A t : Owns(t)' <=> Owns(t)
    BY DEF Owns
  <2> QED  BY <2>1, <2>2, <2>3 DEF AckPart
<1>6. ASSUME NEW r \in Rids PROVE ExecPart(r)' /\ EntryShape(r)'
  <2>1. \A i \in OpIds : RecordRid(mops'[i]) = r => mops'[i] = mops[i] /\ mreqs'[r] = mreqs[r]
    BY <1>1, <1>3, RecordOf
  <2>2. ExecPart(r)'
    BY <2>1 DEF AckInv, ExecPart
  <2> QED  BY <1>2, <2>2, EntryForms DEF AckInv, EntryShape, Shaped
<1>7. \A t \in Tasks : AckTask(t)'
  BY DEF AckInv, AckTask, BodyOf
<1>8. RecovAck'
  BY DEF RecovAck
<1> QED  BY <1>4, <1>5, <1>6, <1>7, <1>8 DEF AckInv

(* gc and the startup prune begin, or there is nothing to prune.            *)
LEMMA BeginsAck ==
  ASSUME Calm, TypeInv', SaidInv, AckInv, (\E t \in Tasks : GcBegin(t)) \/ RecoverDone
  PROVE  SaidInv' /\ AckInv'
<1> USE DEF disk, tables, ghosts, Calm, IInv
<1>1. ASSUME NEW t \in Tasks, GcBegin(t) PROVE SaidInv' /\ AckInv'
  <2>1. /\ srv = "up" /\ srv' = srv /\ task[t].pc = "begin" /\ task[t].rid \in Rids
        /\ BodyOf(t).kind = "gc"
        /\ UNCHANGED <<ops, reqs, told, body, recov, stuck, effects, runs>>
        /\ \/ FinishWith(t, Err("InvalidRequest")) /\ UNCHANGED <<mops, mreqs, prune>>
           \/ PruneTrim(Keep(BodyOf(t)), t) /\ UNCHANGED task
    BY <1>1 DEF GcBegin, At, Keep, Kind, TypeInv, TaskShape
  <2>2. CASE FinishWith(t, Err("InvalidRequest")) /\ UNCHANGED <<mops, mreqs, prune>>
    <3>1. Err("InvalidRequest") \in Answers
      BY ErrTypes DEF Codes
    <3>2. /\ Moves(t) /\ task'[t].pc = "remember" /\ task'[t].rid = task[t].rid
          /\ task'[t].ans = Err("InvalidRequest") /\ task'[t].say = Err("InvalidRequest")
      BY <2>1, <2>2, <3>1, FinishTask
    <3>3. Vague(task[t].rid, task'[t].ans)
      BY <3>2, ErrVague
    <3> QED  BY <2>1, <2>2, <3>2, <3>3, HandlerAck
  <2>3. CASE PruneTrim(Keep(BodyOf(t)), t) /\ UNCHANGED task
    <3>1. stuck = {} /\ recov = NoRecov
      BY <2>1 DEF AckInv, RecovAck
    <3> QED  BY <2>1, <2>3, <3>1, TrimAck
  <2> QED  BY <2>1, <2>2, <2>3
<1>2. CASE RecoverDone
  <2>1. /\ stuck = {} /\ recov = NoRecov
        /\ UNCHANGED <<ops, reqs, told, body, recov, stuck, task, effects, runs>>
        /\ \/ UNCHANGED <<mops, mreqs, prune>>
           \/ PruneTrim(HistoryLimit, NoTask)
    BY <1>2 DEF RecoverDone
  <2>2. RecovAck'
    BY <2>1 DEF RecovAck
  <2> QED  BY <2>1, <2>2, SameAck, TrimAck
<1> QED  BY <1>1, <1>2

(* No command runs while a prune does.                                      *)
LEMMA PruneNoExec ==
  ASSUME Calm, prune.stage # "idle", NEW t \in Tasks, task[t].pc # "idle"
  PROVE  BodyOf(t).kind # "exec"
<1> USE DEF Calm, IInv, WalIInv
<1>1. task[t].rid \in Rids /\ IdleTask.pc = "idle"
  BY NoIds DEF TypeInv, TaskShape
<1>2. srv = "up"
  BY <1>1 DEF PhaseInv
<1>3. prune.by # NoTask /\ prune.by \in Tasks
  BY <1>2 DEF PhaseInv, TypeInv, TypeOK
<1>4. /\ task[prune.by].rid \in Rids /\ BodyOf(prune.by).kind = "gc"
      /\ Keep(BodyOf(prune.by)) # NoLimit
  BY <1>3 DEF TypeInv, PruneShape, TaskShape, IdsInv, IdPrune
<1> QED  BY <1>1, <1>4 DEF Racy, BodyOf

(* The operation log is rewritten: nothing is added to it.                  *)
LEMMA PruneOpsAck ==
  ASSUME Calm, TypeInv', SaidInv, AckInv, PruneOps
  PROVE  SaidInv' /\ AckInv'
<1> USE DEF tables, ghosts, Calm, IInv
<1>1. /\ prune.stage = "ops" /\ ops' = mops
      /\ UNCHANGED <<mops, mreqs, reqs, told, recov, stuck, srv, task, body, effects, runs>>
  BY DEF PruneOps
<1>2. \A i \in OpIds : ops'[i].st # "none" => ops'[i] = ops[i]
  BY <1>1, MemoryLogged
<1>3. \A i \in OpIds, r \in Rids : RecordRid(ops'[i]) = r => ops'[i] = ops[i]
  BY <1>2, RecordOf
<1>4. SaidInv'
  <2>1. \A r \in Rids, ans \in Answers : Said(r, ans)' => Said(r, ans)
    BY <1>1 DEF Said
  <2> QED  BY <1>1, <1>2, <2>1, SaidStill
<1>5. ASSUME NEW i \in OpIds, NEW r \in Rids PROVE AckPart(i, r)'
  <2>1. AckPart(i, r) /\ (Given(i, r)' <=> Given(i, r)) /\ (\A t : Owns(t)' <=> Owns(t))
    BY <1>1 DEF AckInv, Given, ToldId, Owns
  <2>2. RecordRid(ops'[i]) = r => RecordRid(ops[i]) = r
    BY <1>3
  <2> QED  BY <1>1, <2>1, <2>2 DEF AckPart
<1>6. ASSUME NEW r \in Rids PROVE ExecPart(r)' /\ EntryShape(r)'
  <2>1. \A i \in OpIds : RecordRid(ops'[i]) = r => RecordRid(ops[i]) = r
    BY <1>3
  <2> QED  BY <1>1, <2>1 DEF AckInv, ExecPart, EntryShape, Shaped
<1>7. ASSUME NEW t \in Tasks PROVE AckTask(t)'
  <2>1. AckTask(t) /\ BodyOf(t)' = BodyOf(t) /\ (task[t].pc # "idle" => task[t].rid \in Rids)
    BY <1>1 DEF AckInv, BodyOf, TypeInv, TaskShape
  <2>2. ASSUME task[t].pc \in {"begin", "exec_append"}, BodyOf(t).kind = "exec" PROVE FALSE
    BY <1>1, <2>2, PruneNoExec
  <2> QED  BY <1>1, <2>1, <2>2 DEF AckTask
<1>8. RecovAck'
  BY <1>1 DEF AckInv, RecovAck
<1> QED  BY <1>4, <1>5, <1>6, <1>7, <1>8 DEF AckInv

(* The request log is rewritten: memory has an entry for every record that   *)
(* is left.                                                                 *)
LEMMA PruneReqsAck ==
  ASSUME Calm, TypeInv', SaidInv, AckInv, PruneReqs
  PROVE  SaidInv' /\ AckInv'
<1> USE DEF tables, ghosts, Calm, IInv
<1>1. /\ prune.stage = "reqs" /\ reqs' = mreqs
      /\ UNCHANGED <<ops, mops, mreqs, told, recov, stuck, srv, task, body, effects, runs>>
  BY DEF PruneReqs
<1>2. srv # "down" /\ ~Rewriting /\ stuck = {}
  BY <1>1, PruneAlone DEF WalIInv, Rewriting, AckInv, RecovAck
<1>3. SaidInv'
  <2>1. \A r \in Rids, ans \in Answers : Said(r, ans)' => Said(r, ans)
    BY <1>1 DEF Said
  <2> QED  BY <1>1, <2>1, SaidStill
<1>4. ASSUME NEW i \in OpIds, NEW r \in Rids PROVE AckPart(i, r)'
  <2>1. AckPart(i, r) /\ (Given(i, r)' <=> Given(i, r)) /\ (\A t : Owns(t)' <=> Owns(t))
    BY <1>1 DEF AckInv, Given, ToldId, Owns
  <2>2. ASSUME Given(i, r), RecordRid(ops[i]) = r PROVE mreqs[r].ans.st = "done"
    <3>1. ops[i].st \in {"fs", "exec", "prepared"}
      BY <2>2, RecordOf
    <3>2. \A t \in Tasks : task[t].pc \in Logging => task[t].op # i
      BY <2>2, GivenSound
    <3>3. mops[i] = ops[i]
      BY <1>2, <3>1, <3>2, LogRemembered
    <3> QED  BY <1>2, <2>1, <2>2, <3>3 DEF AckPart
  <2> QED  BY <1>1, <2>1, <2>2 DEF AckPart
<1>5. ASSUME NEW r \in Rids PROVE ExecPart(r)' /\ EntryShape(r)'
  <2>1. ExecPart(r) /\ EntryShape(r)
    BY DEF AckInv
  <2>2. ASSUME body[r].kind = "exec", NEW j \in OpIds, RecordRid(ops[j]) = r
        PROVE  mreqs[r].status # "none"
    <3>1. CASE \E u \in Tasks : task[u].pc \in Logging /\ task[u].op = j
      BY <2>2, <3>1, RecordWriter DEF SingleOwner
    <3>2. CASE \A u \in Tasks : task[u].pc \in Logging => task[u].op # j
      <4>1. ops[j].st \in {"fs", "exec", "prepared"}
        BY <2>2, RecordOf
      <4>2. mops[j] = ops[j]
        BY <1>2, <3>2, <4>1, LogRemembered
      <4> QED  BY <2>1, <2>2, <4>2 DEF ExecPart
    <3> QED  BY <3>1, <3>2
  <2>3. ExecPart(r)'
    BY <1>1, <2>1, <2>2 DEF ExecPart
  <2> QED  BY <1>1, <2>1, <2>3 DEF EntryShape
<1>6. ASSUME NEW t \in Tasks PROVE AckTask(t)'
  <2>1. BodyOf(t)' = BodyOf(t)
    BY <1>1 DEF BodyOf
  <2>2. task[t].pc # "idle" => BodyOf(t).kind # "exec"
    BY <1>1, PruneNoExec
  <2>3. task[t].pc = "stored" => mreqs[task[t].rid].status = "inprogress"
    BY DEF SingleOwner, Owns
  <2> QED  BY <1>1, <2>1, <2>2, <2>3 DEF AckTask
<1>7. RecovAck'
  BY <1>1 DEF AckInv, RecovAck
<1> QED  BY <1>3, <1>4, <1>5, <1>6, <1>7 DEF AckInv

(* The counter is written, and the prune ends.                              *)
LEMMA PruneRestAck ==
  ASSUME Calm, TypeInv', SaidInv, AckInv, PruneTruncate \/ PruneCounter \/ PruneBlobs
  PROVE  SaidInv' /\ AckInv'
<1> USE DEF disk, tables, ghosts, Calm, IInv
<1>1. /\ prune.stage # "idle"
      /\ UNCHANGED <<ops, mops, reqs, mreqs, told, recov, stuck, body, effects, runs>>
  BY DEF PruneTruncate, PruneCounter, PruneBlobs
<1>2. stuck = {} /\ recov = NoRecov /\ RecovAck'
  BY <1>1 DEF AckInv, RecovAck
<1>3. CASE task' = task
  BY <1>1, <1>2, <1>3, SameAck
<1>4. CASE prune.by # NoTask /\ FinishWith(prune.by, Done(0, Absent, Absent)) /\ srv' = srv
  <2>1. PICK t \in Tasks : t = prune.by
    BY <1>4 DEF TypeInv, TypeOK
  <2>2. srv = "up" /\ task[t].pc = "begin" /\ BodyOf(t).kind = "gc"
    BY <1>1, <1>4, <2>1 DEF WalIInv, PhaseInv, TypeInv, PruneShape
  <2>3. Done(0, Absent, Absent) \in Answers
    BY AnswerTypes, MaxOpsAssumption DEF MaxOpsAssumption, State
  <2>4. /\ Moves(t) /\ task'[t].pc = "remember" /\ task'[t].rid = task[t].rid
        /\ task'[t].ans = Done(0, Absent, Absent) /\ task'[t].say = Done(0, Absent, Absent)
    BY <1>4, <2>1, <2>2, <2>3, FinishTask
  <2>5. Vague(task[t].rid, task'[t].ans)
    BY <2>2, <2>4, NoIds DEF Vague, BodyOf, FsKinds
  <2> QED  BY <1>1, <2>2, <2>4, <2>5, HandlerAck
<1> QED  BY <1>3, <1>4 DEF PruneTruncate, PruneCounter, PruneBlobs

(* Death leaves what was told and the two logs.                             *)
LEMMA CrashAck ==
  ASSUME Calm, TypeInv', SaidInv, AckInv, Crash
  PROVE  SaidInv' /\ AckInv'
<1> USE DEF Calm, IInv
<1>1. /\ UNCHANGED <<ops, reqs, told, body, effects, runs>> /\ recov' = NoRecov /\ stuck' = {}
      /\ \A i \in OpIds : mops'[i] = NoRec
      /\ \A r \in Rids : mreqs'[r] = NoEntry
      /\ \A t \in Tasks : task'[t] = IdleTask
  BY DEF Crash, disk, ghosts
<1>2. \A t \in Tasks : AckTask(t)' /\ ~Owns(t)' /\ task'[t].pc \notin {"remember", "stored"}
  BY <1>1, NoIds DEF AckTask, Owns
<1>3. \A r \in Rids : NoRecov.rid # r
  BY SentinelAssumption DEF SentinelAssumption, NoRecov
<1>4. SaidInv'
  <2>1. \A r \in Rids, ans \in Answers : Said(r, ans)' => Said(r, ans) \/ Vague(r, ans)
    BY <1>1, <1>2, <1>3, EntryForms, ErrVague DEF Said
  <2> QED  BY <1>1, <2>1, SaidStill
<1>5. ASSUME NEW i \in OpIds, NEW r \in Rids PROVE AckPart(i, r)'
  <2>1. AckPart(i, r) /\ (Given(i, r)' => Given(i, r))
    BY <1>1, NoIds DEF AckInv, Given, ToldId
  <2> QED  BY <1>1, <1>2, <2>1, RecordOf DEF AckPart
<1>6. \A r \in Rids : ExecPart(r)' /\ EntryShape(r)'
  BY <1>1, RecordOf, EntryForms DEF AckInv, ExecPart, EntryShape, Shaped
<1>7. RecovAck'
  BY <1>1 DEF RecovAck
<1> QED  BY <1>2, <1>4, <1>5, <1>6, <1>7 DEF AckInv

(* A restart finds successes, and requests to look into.                    *)
LEMMA StartAck ==
  ASSUME Calm, TypeInv', SaidInv, AckInv, Start
  PROVE  SaidInv' /\ AckInv'
<1> USE DEF Calm, IInv
<1>1. /\ srv = "down" /\ srv' = "recover" /\ mops' = ops /\ mreqs' = reqs
      /\ UNCHANGED <<ops, reqs, told, prune, task, recov, body, effects, runs>>
      /\ stuck' = {r \in Rids : reqs[r].status = "inprogress"}
  BY DEF Start, disk, ghosts
<1>2. \A t \in Tasks : task[t] = IdleTask
  BY <1>1 DEF WalIInv, PhaseInv
<1>3. \A t \in Tasks : AckTask(t)' /\ ~Owns(t)'
  BY <1>1, <1>2, NoIds DEF AckTask, Owns
<1>4. SaidInv'
  <2>1. \A r \in Rids, ans \in Answers : Said(r, ans)' => Said(r, ans)
    BY <1>1 DEF Said
  <2> QED  BY <1>1, <2>1, SaidStill
<1>5. ASSUME NEW i \in OpIds, NEW r \in Rids PROVE AckPart(i, r)'
  <2> SUFFICES ASSUME Given(i, r)', RecordRid(ops[i]) = r
               PROVE  reqs[r].status = "inprogress" \/ reqs[r].ans.st = "done"
    BY <1>1, <1>3 DEF AckPart
  <2>1. CASE ToldId(i, r)
    BY <2>1 DEF AckInv, AckPart, Given
  <2>2. CASE reqs[r].ans.op = i
    <3>1. reqs[r].ans \in Answers
      BY DEF TypeInv, TypeOK, Entries
    <3>2. Sound(r, reqs[r].ans)
      BY <3>1 DEF SaidInv, Said
    <3> QED  BY <2>2, <3>2, NoIds DEF Sound
  <2> QED  BY <1>1, <2>1, <2>2 DEF Given, ToldId
<1>6. \A r \in Rids : ExecPart(r)' /\ EntryShape(r)'
  BY <1>1 DEF AckInv, ExecPart, EntryShape, Shaped
<1>7. RecovAck'
  <2>1. prune.stage = "idle"
    BY <1>1 DEF WalIInv, PhaseInv
  <2> QED  BY <1>1, <2>1 DEF AckInv, RecovAck
<1> QED  BY <1>3, <1>4, <1>5, <1>6, <1>7 DEF AckInv

(* What recovery reconstructs from the record of a mutation that was made is *)
(* the reply to it.                                                         *)
LEMMA ReconstructReply ==
  ASSUME NEW i \in OpIds, NEW rec, rec.rid = ops[i].rid, rec.old = ops[i].old, rec.new = ops[i].new,
         rec.kind = body[rec.rid].kind, rec.kind \in FsKinds
  PROVE  Reconstruct(i, rec) = Reply(EffectOf(i)) /\ Reconstruct(i, rec).st = "done"
         /\ Reconstruct(i, rec).op = i
<1>1. /\ EffectOf(i).rid = ops[i].rid /\ EffectOf(i).op = i
      /\ EffectOf(i).old = ops[i].old /\ EffectOf(i).new = ops[i].new
  BY DEF EffectOf
<1>2. rec.kind # "rejected"
  BY DEF FsKinds
<1>3. \A op, old, new : Done(op, old, new).st = "done"
  BY DEF Done
<1>4. CASE rec.kind = "undo"
  BY <1>1, <1>2, <1>3, <1>4, NoIds DEF Reconstruct, Reply
<1>5. CASE rec.kind # "undo"
  BY <1>1, <1>2, <1>3, <1>5, NoIds DEF Reconstruct, Reply
<1> QED  BY <1>4, <1>5

(* A marker becomes a record of the same request, and its answer is owed, or *)
(* nobody's.                                                                *)
LEMMA RecoverMarkerAck ==
  ASSUME Calm, TypeInv', SaidInv, AckInv, NEW m \in OpIds, RecoverMarker(m)
  PROVE  SaidInv' /\ AckInv'
<1> USE DEF Calm, IInv
<1>0. PICK p : p = mops[m]
  OBVIOUS
<1>1. /\ srv = "recover" /\ p.st = "prepared" /\ prune.stage = "idle" /\ recov = NoRecov
      /\ UNCHANGED <<reqs, mreqs, told, stuck, srv, prune, task, body, effects, runs>>
      /\ ops \in [OpIds -> Records] /\ mops \in [OpIds -> Records] /\ p \in Records
  BY <1>0 DEF RecoverMarker, Pending, Recovering, TablesFree, TypeInv, TypeOK, ghosts
<1>2. p = ops[m] /\ Outcome(p, file[p.path]) = IF Made(m) THEN "committed" ELSE "noop"
  BY <1>0, <1>1, MarkerOutcome
<1>3. p.rid \in Rids /\ p.kind \in FsKinds /\ p.kind = body[p.rid].kind /\ RecordRid(p) = p.rid
  BY <1>1, <1>2 DEF TypeInv, RecordShape, StoreInv, RecordPart, FsRecs, RecordRid
<1>4. \A t \in Tasks : task[t] = IdleTask
  BY <1>1 DEF WalIInv, PhaseInv
<1>5. \A t \in Tasks : AckTask(t)' /\ ~Owns(t)' /\ ~Owns(t) /\ task'[t].pc \notin Logging
  BY <1>1, <1>4, NoIds DEF AckTask, Owns, Logging
<1>6. ASSUME NEW rec, ops' = [ops EXCEPT ![m] = rec], rec.st # "exec", RecordRid(rec) \in {p.rid, NoRid},
             mops' = [mops EXCEPT ![m] = rec] \/ mops' = [mops EXCEPT ![m] = NoRec],
             recov' # NoRecov => /\ recov'.ans.st = "done" /\ recov'.rid \in Rids
                                 /\ body[recov'.rid].kind \in FsKinds
                                 /\ \A ans \in Answers : ans = recov'.ans =>
                                        Sound(recov.rid, ans)'
      PROVE  SaidInv' /\ AckInv'
  <2>1. /\ \A j \in OpIds : j # m => ops'[j] = ops[j] /\ mops'[j] = mops[j]
        /\ ops'[m] = rec /\ mops'[m] \in {rec, NoRec}
    BY <1>1, <1>6
  <2>2. \A j \in OpIds, r \in Rids : /\ RecordRid(ops'[j]) = r => RecordRid(ops[j]) = r
                                     /\ RecordRid(mops'[j]) = r => RecordRid(mops[j]) = r
    <3>1. NoRid \notin Rids
      BY SentinelAssumption DEF SentinelAssumption
    <3>2. RecordRid(ops[m]) = p.rid /\ RecordRid(mops[m]) = p.rid
      BY <1>0, <1>2, <1>3
    <3>3. \A r \in Rids : RecordRid(ops'[m]) = r \/ RecordRid(mops'[m]) = r => r = p.rid
      BY <1>6, <2>1, <3>1, RecordOf
    <3> QED  BY <2>1, <3>2, <3>3
  <2>3. \A r \in Rids, ans \in Answers : Said(r, ans)' =>
             \/ Said(r, ans) \/ Vague(r, ans)
             \/ Sound(r, ans)' /\ (body[r].kind = "exec" /\ ans.op \in OpIds => Started(ans.op, r))
    <3> SUFFICES ASSUME NEW r \in Rids, NEW ans \in Answers, Said(r, ans)', ~Said(r, ans)
                 PROVE  Sound(r, ans)' /\ body[r].kind # "exec"
      OBVIOUS
    <3>1. recov'.rid = r /\ recov'.ans = ans
      BY <1>1 DEF Said
    <3>2. recov' # NoRecov
      BY <3>1, SentinelAssumption DEF SentinelAssumption, NoRecov
    <3> QED  BY <1>6, <3>1, <3>2 DEF FsKinds
  <2>4. \A i \in OpIds : ops'[i].st = "exec" => ops'[i] = ops[i]
    BY <1>6, <2>1
  <2>5. SaidInv'
    BY <1>1, <2>3, <2>4, SaidStill
  <2>6. ASSUME NEW i \in OpIds, NEW r \in Rids PROVE AckPart(i, r)'
    <3>1. AckPart(i, r) /\ (Given(i, r)' => Given(i, r))
      BY <1>1 DEF AckInv, Given, ToldId
    <3> QED  BY <1>1, <1>5, <2>2, <3>1 DEF AckPart
  <2>7. \A r \in Rids : ExecPart(r)' /\ EntryShape(r)'
    BY <1>1, <2>2 DEF AckInv, ExecPart, EntryShape, Shaped
  <2>8. RecovAck'
    BY <1>1, <1>6 DEF RecovAck
  <2> QED  BY <1>5, <2>5, <2>6, <2>7, <2>8 DEF AckInv
<1>7. CASE Made(m)
  <2>1. PICK rec : rec = [p EXCEPT !.st = "fs", !.ts = now]
    OBVIOUS
  <2>2. /\ rec.st = "fs" /\ rec.rid = p.rid /\ rec.kind = p.kind /\ rec.old = p.old
        /\ rec.new = p.new /\ rec.path = p.path
    BY <1>1, <2>1 DEF Records
  <2>3. /\ ops' = [ops EXCEPT ![m] = rec] /\ mops' = [mops EXCEPT ![m] = rec]
        /\ recov' = [rid |-> p.rid, ans |-> Reconstruct(m, rec)]
    BY <1>0, <1>2, <1>7, <2>1 DEF RecoverMarker
  <2>4. /\ Reconstruct(m, rec) = Reply(EffectOf(m)) /\ Reconstruct(m, rec).st = "done"
        /\ Reconstruct(m, rec).op = m
    BY <1>2, <1>3, <2>2, ReconstructReply
  <2>5. ASSUME NEW ans \in Answers, ans = Reconstruct(m, rec) PROVE Sound(p.rid, ans)'
    <3>1. EffectOf(m) \in effects' /\ EffectOf(m).rid = p.rid /\ m # 0
      BY <1>1, <1>2, <1>7, NoIds DEF Made, EffectOf
    <3>2. \A e : Reply(e)' = Reply(e)
      BY <1>1 DEF Reply
    <3>3. ~Rejected(m)'
      BY <1>1, <2>2, <2>3 DEF Rejected
    <3>4. body'[p.rid].kind \in FsKinds /\ body'[p.rid].kind # "exec"
      BY <1>1, <1>3 DEF FsKinds
    <3> QED  BY <1>5, <2>4, <2>5, <3>1, <3>2, <3>3, <3>4 DEF Sound
  <2>6. RecordRid(rec) = p.rid
    BY <2>2 DEF RecordRid
  <2>7. recov'.rid = p.rid /\ recov'.ans = Reconstruct(m, rec)
    BY <2>3
  <2> QED  BY <1>3, <1>6, <2>2, <2>3, <2>4, <2>5, <2>6, <2>7
<1>8. CASE ~Made(m)
  <2>1. /\ ops' = [ops EXCEPT ![m] = Aborted(now)] /\ mops' = [mops EXCEPT ![m] = NoRec]
        /\ recov' = NoRecov
    BY <1>0, <1>2, <1>8 DEF RecoverMarker
  <2>2. Aborted(now).st # "exec" /\ RecordRid(Aborted(now)) = NoRid
    BY DEF Aborted, NoRec, RecordRid
  <2> QED  BY <1>6, <2>1, <2>2
<1> QED  BY <1>7, <1>8

(* Recovery stores an answer for a request nobody runs.                     *)
LEMMA SettleAck ==
  ASSUME Calm, TypeInv', SaidInv, AckInv, srv = "recover", prune.stage = "idle", NEW q \in Rids,
         UNCHANGED <<ops, mops, told, srv, prune, task, body, effects, runs>>,
         recov' = NoRecov, stuck' = stuck \ {q},
         \A r \in Rids : r # q => reqs'[r] = reqs[r] /\ mreqs'[r] = mreqs[r],
         Shaped(reqs'[q]), Shaped(mreqs'[q]),
         \A ans \in Answers : ans = reqs'[q].ans \/ ans = mreqs'[q].ans =>
             \/ Said(q, ans) \/ Vague(q, ans)
             \/ Sound(q, ans)' /\ (body[q].kind = "exec" /\ ans.op \in OpIds => Started(ans.op, q)),
         \A i \in OpIds : AckPart(i, q)', ExecPart(q)'
  PROVE  SaidInv' /\ AckInv'
<1> USE DEF Calm, IInv
<1>1. \A t \in Tasks : task[t] = IdleTask
  BY DEF WalIInv, PhaseInv
<1>2. \A t \in Tasks : AckTask(t)' /\ ~Owns(t)'
  BY <1>1, NoIds DEF AckTask, Owns
<1>3. \A r \in Rids, ans \in Answers : Said(r, ans)' =>
             \/ Said(r, ans) \/ Vague(r, ans)
             \/ Sound(r, ans)' /\ (body[r].kind = "exec" /\ ans.op \in OpIds => Started(ans.op, r))
  <2> SUFFICES ASSUME NEW r \in Rids, NEW ans \in Answers, Said(r, ans)', ~Said(r, ans)
               PROVE  \/ Vague(r, ans)
                      \/ Sound(r, ans)' /\ (body[r].kind = "exec" /\ ans.op \in OpIds => Started(ans.op, r))
    OBVIOUS
  <2>1. NoRecov.rid # r
    BY SentinelAssumption DEF SentinelAssumption, NoRecov
  <2>2. reqs'[r].ans = ans \/ mreqs'[r].ans = ans
    BY <2>1 DEF Said
  <2>3. r = q
    BY <2>2 DEF Said
  <2> QED  BY <2>2, <2>3
<1>4. SaidInv'
  BY <1>3, SaidStill
<1>5. ASSUME NEW i \in OpIds, NEW r \in Rids, r # q PROVE AckPart(i, r)'
  <2>1. AckPart(i, r) /\ (Given(i, r)' => Given(i, r)) /\ (r \in stuck => r \in stuck')
    BY <1>5 DEF AckInv, Given, ToldId
  <2> QED  BY <1>2, <1>5, <2>1 DEF AckPart
<1>6. \A r \in Rids : r # q => ExecPart(r)'
  BY DEF AckInv, ExecPart
<1>7. \A r \in Rids : EntryShape(r)'
  BY DEF AckInv, EntryShape
<1>8. RecovAck'
  BY DEF RecovAck
<1> QED  BY <1>2, <1>4, <1>5, <1>6, <1>7, <1>8 DEF AckInv

(* The answer that is owed for a marker is stored.                          *)
LEMMA RecoverRememberAck ==
  ASSUME Calm, TypeInv', SaidInv, AckInv, RecoverRemember
  PROVE  SaidInv' /\ AckInv'
<1> USE DEF Calm, IInv
<1>0. PICK own : own = recov.ans
  OBVIOUS
<1>1. PICK q \in Rids : q = recov.rid /\ own = recov.ans /\ own.st = "done"
  BY <1>0 DEF RecoverRemember, TypeInv, RecoveryShape, AckInv, RecovAck
<1>2. /\ srv = "recover" /\ prune.stage = "idle" /\ recov' = NoRecov /\ stuck' = stuck \ {q}
      /\ UNCHANGED <<ops, mops, told, srv, prune, task, body, effects, runs>>
      /\ reqs' = [reqs EXCEPT ![q] = Terminal("done", own)]
      /\ mreqs' = [mreqs EXCEPT ![q] = Terminal("done", own)]
      /\ reqs \in [Rids -> Entries] /\ mreqs \in [Rids -> Entries]
  BY <1>1 DEF RecoverRemember, RememberNow, Recovering, TablesFree, TypeInv, TypeOK, ghosts
<1>3. /\ reqs'[q].ans = own /\ mreqs'[q].ans = own
      /\ reqs'[q].status = "done" /\ mreqs'[q].status = "done"
      /\ \A r \in Rids : r # q => reqs'[r] = reqs[r] /\ mreqs'[r] = mreqs[r]
  BY <1>2, EntryForms
<1>4. Shaped(reqs'[q]) /\ Shaped(mreqs'[q])
  BY <1>3 DEF Shaped
<1>5. \A ans \in Answers : ans = reqs'[q].ans \/ ans = mreqs'[q].ans => Said(q, ans)
  BY <1>1, <1>3 DEF Said
<1>6. \A t \in Tasks : ~Owns(t)'
  <2>1. \A t \in Tasks : task'[t] = IdleTask
    BY <1>2 DEF WalIInv, PhaseInv
  <2> QED  BY <2>1, NoIds DEF Owns
<1>7. \A i \in OpIds : AckPart(i, q)'
  BY <1>1, <1>3, <1>6 DEF AckPart
<1>8. ExecPart(q)'
  <2>1. ExecPart(q)
    BY DEF AckInv
  <2> QED  BY <1>2, <1>3, <2>1 DEF ExecPart
<1> QED  BY <1>2, <1>3, <1>4, <1>5, <1>7, <1>8, SettleAck

(* A request that was in progress gets the answer of its record. Without a   *)
(* record there is no operation that was given.                             *)
LEMMA RecoverStuckAck ==
  ASSUME Calm, TypeInv', SaidInv, AckInv, NEW q \in Rids, RecoverStuck(q)
  PROVE  SaidInv' /\ AckInv'
<1> USE DEF Calm, IInv
<1>1. /\ srv = "recover" /\ prune.stage = "idle" /\ recov' = NoRecov /\ stuck' = stuck \ {q}
      /\ UNCHANGED <<ops, mops, told, srv, prune, task, body, effects, runs>>
      /\ reqs \in [Rids -> Entries] /\ mreqs \in [Rids -> Entries] /\ Pending = {}
  BY DEF RecoverStuck, Recovering, TablesFree, TypeInv, TypeOK, ghosts
<1>2. \A t \in Tasks : task'[t] = IdleTask
  BY <1>1 DEF WalIInv, PhaseInv
<1>3. \A t \in Tasks : ~Owns(t)' /\ task'[t].pc \notin Logging /\ task[t].pc \notin Logging
  BY <1>1, <1>2, NoIds DEF Owns, Logging
<1>4. ExecPart(q)
  BY DEF AckInv
<1>5. ASSUME NEW j \in CommittedFor(q), RememberNow(q, "done", Reconstruct(j, mops[j]))
      PROVE  SaidInv' /\ AckInv'
  <2>0. PICK own : own = Reconstruct(j, mops[j])
    OBVIOUS
  <2>1. j \in OpIds /\ mops[j].st \in {"fs", "exec"} /\ mops[j].rid = q
    BY <1>5 DEF CommittedFor, IsCommitted
  <2>2. mops[j] = ops[j]
    BY <2>1, MemoryLogged
  <2>3. /\ reqs'[q].ans = own /\ mreqs'[q].ans = own
        /\ reqs'[q].status = "done" /\ mreqs'[q].status = "done"
        /\ \A r \in Rids : r # q => reqs'[r] = reqs[r] /\ mreqs'[r] = mreqs[r]
    BY <1>1, <1>5, <2>0, EntryForms DEF RememberNow
  <2>4. Shaped(reqs'[q]) /\ Shaped(mreqs'[q])
    BY <2>3 DEF Shaped
  <2>5. ExecPart(q)'
    BY <1>1, <1>4, <2>3 DEF ExecPart
  <2>6. ASSUME own.st = "done",
               \A ans \in Answers : ans = own =>
                   \/ Said(q, ans) \/ Vague(q, ans)
                   \/ Sound(q, ans)' /\ (body[q].kind = "exec" /\ ans.op \in OpIds => Started(ans.op, q))
        PROVE  SaidInv' /\ AckInv'
    <3>1. \A i \in OpIds : AckPart(i, q)'
      BY <1>3, <2>3, <2>6 DEF AckPart
    <3>2. \A ans \in Answers : ans = reqs'[q].ans \/ ans = mreqs'[q].ans =>
                   \/ Said(q, ans) \/ Vague(q, ans)
                   \/ Sound(q, ans)' /\ (body[q].kind = "exec" /\ ans.op \in OpIds => Started(ans.op, q))
      BY <2>3, <2>6
    <3> QED  BY <1>1, <2>3, <2>4, <2>5, <3>1, <3>2, SettleAck
  <2>7. CASE mops[j].st = "fs"
    <3>1. ops[j].kind = body[q].kind /\ ops[j].kind \in FsKinds /\ Made(j)
      BY <2>1, <2>2, <2>7 DEF StoreInv, RecordPart, FsRecs, TypeInv, RecordShape
    <3>2. own = Reply(EffectOf(j)) /\ own.st = "done" /\ own.op = j
      BY <2>0, <2>1, <2>2, <3>1, ReconstructReply
    <3>3. ASSUME NEW ans \in Answers, ans = own PROVE Sound(q, ans)' /\ body[q].kind # "exec"
      <4>1. EffectOf(j) \in effects' /\ EffectOf(j).rid = q /\ j # 0
        BY <1>1, <2>1, <2>2, <3>1, NoIds DEF Made, EffectOf
      <4>2. \A e : Reply(e)' = Reply(e)
        BY <1>1 DEF Reply
      <4>3. ~Rejected(j)'
        BY <1>1, <2>2, <2>7 DEF Rejected
      <4>4. body'[q].kind \in FsKinds /\ body'[q].kind # "exec" /\ body' = body
        BY <1>1, <3>1 DEF FsKinds
      <4> QED  BY <1>3, <3>2, <3>3, <4>1, <4>2, <4>3, <4>4 DEF Sound
    <3> QED  BY <2>6, <3>2, <3>3
  <2>8. CASE mops[j].st = "exec" /\ mops[j].kind = "exec"
    <3>1. /\ ops[j].old = Absent /\ ops[j].new = Absent /\ body[q].kind = "exec"
      BY <2>1, <2>2, <2>8 DEF SaidInv, Bare, StoreInv, RecordPart, IsExec
    <3>2. own = Done(j, Absent, Absent) /\ own.st = "done" /\ own.op = j
      BY <2>0, <2>2, <2>8, <3>1 DEF Reconstruct, Done
    <3>3. Started(j, q)
      BY <2>1, <2>2, <2>8 DEF Started
    <3>4. ASSUME NEW ans \in Answers, ans = own PROVE Sound(q, ans)'
      <4>1. ~Rejected(j)'
        BY <1>1, <2>2, <2>8 DEF Rejected
      <4>2. body'[q].kind = "exec" /\ body'[q].kind \notin FsKinds
        BY <1>1, <3>1 DEF FsKinds
      <4> QED  BY <1>3, <2>1, <3>2, <3>4, <4>1, <4>2 DEF Sound
    <3> QED  BY <2>6, <3>2, <3>3, <3>4
  <2>9. CASE mops[j].st = "exec" /\ mops[j].kind # "exec"
    <3>1. ops[j].kind = "rejected" /\ body[q].kind = "exec"
      BY <2>1, <2>2, <2>9 DEF StoreInv, RecordPart, IsExec
    <3>2. own = Err("ExecFailed")
      BY <2>0, <2>2, <3>1 DEF Reconstruct
    <3>3. \A ans \in Answers : ans = reqs'[q].ans \/ ans = mreqs'[q].ans => Vague(q, ans)
      BY <2>3, <3>2, ErrVague
    <3>4. ASSUME NEW i \in OpIds, Given(i, q) PROVE RecordRid(ops[i]) # q
      <4>1. RecordRid(ops[j]) = q /\ Rejected(j)
        BY <2>1, <2>2, <2>9, <3>1 DEF RecordRid, Rejected
      <4>2. ~Rejected(i)
        BY <3>4, GivenSound
      <4> QED  BY <1>4, <2>1, <3>1, <4>1, <4>2 DEF ExecPart
    <3>5. ASSUME NEW i \in OpIds PROVE AckPart(i, q)'
      <4>1. Given(i, q)' => Given(i, q)
        BY <1>1, <2>3, <3>2, NoIds DEF Given, ToldId
      <4>2. RecordRid(mops[i]) = q => RecordRid(ops[i]) = q
        BY MemoryLogged, RecordOf
      <4> QED  BY <1>1, <3>4, <4>1, <4>2 DEF AckPart
    <3> QED  BY <1>1, <2>3, <2>4, <2>5, <3>3, <3>5, SettleAck
  <2> QED  BY <2>1, <2>7, <2>8, <2>9
<1>6. ASSUME CommittedFor(q) = {},
             \A r \in Rids : r # q => reqs'[r] = reqs[r] /\ mreqs'[r] = mreqs[r],
             Shaped(reqs'[q]), Shaped(mreqs'[q]),
             \A ans \in Answers : ans = reqs'[q].ans \/ ans = mreqs'[q].ans => Said(q, ans) \/ Vague(q, ans)
      PROVE  SaidInv' /\ AckInv'
  <2>1. ASSUME NEW i \in OpIds PROVE RecordRid(mops[i]) # q /\ RecordRid(ops[i]) # q
    <3>1. RecordRid(mops[i]) # q
      BY <1>1, <1>6, RecordOf DEF CommittedFor, IsCommitted, Pending
    <3>2. ASSUME RecordRid(ops[i]) = q PROVE FALSE
      <4>1. ops[i].st \in {"fs", "exec", "prepared"} /\ ~Rewriting
        BY <1>1, <3>2, RecordOf DEF Rewriting
      <4>2. mops[i] = ops[i]
        BY <1>1, <1>3, <4>1, LogRemembered
      <4> QED  BY <3>1, <3>2, <4>2
    <3> QED  BY <3>1, <3>2
  <2>2. (\A i \in OpIds : AckPart(i, q)') /\ ExecPart(q)'
    BY <1>1, <2>1 DEF AckPart, ExecPart
  <2> QED  BY <1>1, <1>6, <2>2, SettleAck
<1>7. CASE CommittedFor(q) = {} /\ RememberNow(q, "error", Err("ExecFailed"))
  <2>1. /\ reqs'[q].ans = Err("ExecFailed") /\ mreqs'[q].ans = Err("ExecFailed")
        /\ reqs'[q].status = "error" /\ mreqs'[q].status = "error"
        /\ \A r \in Rids : r # q => reqs'[r] = reqs[r] /\ mreqs'[r] = mreqs[r]
    BY <1>1, <1>7, EntryForms DEF RememberNow
  <2>2. Shaped(reqs'[q]) /\ Shaped(mreqs'[q])
    BY <2>1 DEF Shaped
  <2> QED  BY <1>6, <1>7, <2>1, <2>2, ErrVague
<1>8. CASE CommittedFor(q) = {} /\ mreqs' = [mreqs EXCEPT ![q] = NoEntry] /\ UNCHANGED reqs
  <2>1. /\ mreqs'[q].ans = NoAnswer
        /\ \A r \in Rids : r # q => reqs'[r] = reqs[r] /\ mreqs'[r] = mreqs[r]
    BY <1>1, <1>8, EntryForms
  <2>2. Shaped(reqs'[q]) /\ Shaped(mreqs'[q])
    BY <1>8, <2>1 DEF Shaped, AckInv, EntryShape
  <2>3. \A ans \in Answers : ans = reqs'[q].ans \/ ans = mreqs'[q].ans => Said(q, ans) \/ Vague(q, ans)
    BY <1>8, <2>1, ErrVague DEF Said
  <2> QED  BY <1>6, <1>8, <2>1, <2>2, <2>3
<1> QED  BY <1>5, <1>7, <1>8 DEF RecoverStuck

-----------------------------------------------------------------------------
(* At first nothing is answered and there are no records.                   *)
LEMMA AckInit == Init => SaidInv /\ AckInv
<1> SUFFICES ASSUME Init PROVE SaidInv /\ AckInv
  OBVIOUS
<1>1. /\ told = {} /\ recov = NoRecov /\ stuck = {}
      /\ \A t \in Tasks : task[t] = IdleTask
      /\ \A r \in Rids : reqs[r] = NoEntry /\ mreqs[r] = NoEntry
      /\ \A i \in OpIds : ops[i] = NoRec /\ mops[i] = NoRec
  BY DEF Init
<1>2. NoRec.st = "none" /\ \A r \in Rids : NoRecov.rid # r
  BY SentinelAssumption DEF SentinelAssumption, NoRec, NoRecov
<1>3. \A t \in Tasks : task[t].pc = "idle"
  BY <1>1, NoIds
<1>4. \A r \in Rids, ans \in Answers : Said(r, ans) => ans = NoAnswer
  BY <1>1, <1>2, <1>3, EntryForms DEF Said
<1>5. \A r \in Rids, ans \in Answers : Said(r, ans) => Sound(r, ans)
  BY <1>4, ErrVague, VagueSound, TypeInit
<1>6. \A r \in Rids : OneStart(r)
  <2>1. \A r \in Rids, k \in OpIds : ~Started(k, r)
    BY <1>1, <1>2, <1>3, <1>4, NoIds DEF Started, Commands
  <2> QED  BY <2>1 DEF OneStart
<1>7. SaidInv
  BY <1>1, <1>2, <1>3, <1>5, <1>6 DEF SaidInv, SayTask, Bare, Commands
<1>8. \A i \in OpIds, r \in Rids : ~Given(i, r)
  BY <1>1, NoIds DEF Given, ToldId
<1>9. \A i \in OpIds, r \in Rids : AckPart(i, r)
  BY <1>8 DEF AckPart
<1>10. \A r \in Rids : ExecPart(r) /\ EntryShape(r)
  BY <1>1, RecordOf, EntryForms DEF ExecPart, EntryShape, Shaped
<1>11. RecovAck /\ \A t \in Tasks : AckTask(t)
  BY <1>1, <1>3 DEF RecovAck, AckTask
<1> QED  BY <1>7, <1>9, <1>10, <1>11 DEF AckInv

(* Every step of a server that nothing fails.                               *)
LEMMA AckStep ==
  ASSUME Calm, TypeInv', SaidInv, AckInv, CalmStep \/ CalmPrune
  PROVE  SaidInv' /\ AckInv'
<1>1. ASSUME NEW t \in Tasks, CalmTask(t) PROVE SaidInv' /\ AckInv'
  <2>1. CASE ClaimAppend(t) \/ ClaimLost(t)
    BY <2>1, ReceiveAck
  <2>2. CASE ClaimWon(t) \/ RememberAppend(t) \/ RememberInsert(t)
    BY <2>2, ClaimWonAck, RememberAppendAck, RememberInsertAck
  <2>3. CASE ReadOnly(t) \/ FsCheck(t) \/ FsReadReject(t)
    BY <2>3, LooksAck
  <2>4. CASE GcBegin(t)
    BY <2>4, BeginsAck
  <2>5. CASE ExecStart(t, TRUE) \/ ExecStart(t, FALSE) \/ ExecAppend(t) \/ ExecPush(t)
    BY <2>5, ExecStartAck, ExecAppendAck, ExecPushAck
  <2>6. CASE FsBlob(t) \/ FsPrepare(t) \/ FsInstall(t) \/ FsCommit(t)
    BY <2>6, MutatesAck, CommitAck
  <2>7. CASE FsInstallRefused(t)
    BY <2>7, NeverRefused DEF Calm, IInv
  <2> QED  BY <1>1, <2>1, <2>2, <2>3, <2>4, <2>5, <2>6, <2>7 DEF CalmTask
<1>2. ASSUME NEW t \in Tasks, NEW r \in Rids, ReceiveSeen(t, r) \/ ReceiveNew(t, r)
      PROVE  SaidInv' /\ AckInv'
  BY <1>2, ReceiveAck
<1>3. CASE CalmPrune
  BY <1>3, PruneOpsAck, PruneReqsAck, PruneRestAck DEF CalmPrune
<1>4. CASE RecoverStep
  BY <1>4, RecoverMarkerAck, RecoverRememberAck, RecoverStuckAck, BeginsAck DEF RecoverStep
<1>5. CASE Crash \/ Start
  BY <1>5, CrashAck, StartAck
<1>6. CASE UNCHANGED vars
  <2>1. UNCHANGED <<ops, mops, reqs, mreqs, told, recov, stuck, task, body, effects, runs, srv, prune>>
    BY <1>6 DEF vars, disk, tables, ghosts
  <2>2. RecovAck'
    BY <2>1 DEF AckInv, RecovAck
  <2> QED  BY <2>1, <2>2, SameAck
<1> QED  BY <1>1, <1>2, <1>3, <1>4, <1>5, <1>6 DEF CalmStep

(* A success that was told and whose record is left is answered again.      *)
LEMMA AckedReplay ==
  ASSUME IInv, SaidInv, AckInv
  PROVE  AckedUnlessPruned
<1> SUFFICES ASSUME srv = "up", NEW a \in told, a[2].op # 0, RecordRid(mops[a[2].op]) = a[1]
             PROVE  mreqs[a[1]].ans.st = "done" /\ (mreqs[a[1]].ans = a[2] \/ Reran(a[1]))
  BY DEF AckedUnlessPruned
<1>1. PICK r \in Rids, own \in Answers : a = <<r, own>> /\ r = a[1] /\ own = a[2]
  BY DEF IInv, TypeInv, TypeOK
<1>2. own.op \in OpIds
  <2>1. own.op \in 0..MaxOps
    BY DEF Answers
  <2> QED  BY <1>1, <2>1, MaxOpsAssumption DEF MaxOpsAssumption, OpIds
<1>3. PICK ans \in Answers : ans = mreqs[r].ans
  BY DEF IInv, TypeInv, TypeOK, Entries
<1>4. ans.st = "done"
  <2>1. Given(own.op, r) /\ stuck = {}
    BY <1>1 DEF Given, ToldId, AckInv, RecovAck
  <2>2. AckPart(own.op, r)
    BY <1>2 DEF AckInv
  <2> QED  BY <1>1, <1>3, <2>1, <2>2 DEF AckPart
<1>5. Said(r, own) /\ Said(r, ans) /\ Sound(r, own) /\ Sound(r, ans) /\ OneStart(r)
  BY <1>1, <1>3 DEF Said, SaidInv
<1>6. own.st = "done" /\ body[r].kind \in FsKinds \cup {"exec"}
  BY <1>1, <1>5 DEF Sound
<1>7. CASE body[r].kind \in FsKinds
  <2>1. PICK e \in effects : e.rid = r /\ own = Reply(e)
    BY <1>5, <1>6, <1>7 DEF Sound
  <2>2. PICK f \in effects : f.rid = r /\ ans = Reply(f)
    BY <1>4, <1>5, <1>7 DEF Sound
  <2> QED  BY <1>1, <1>3, <1>4, <2>1, <2>2 DEF Reran
<1>8. CASE body[r].kind = "exec"
  <2>1. /\ own = Done(own.op, Absent, Absent) /\ ans = Done(ans.op, Absent, Absent)
        /\ ans.op \in OpIds
    BY <1>4, <1>5, <1>6, <1>8 DEF Sound
  <2>2. Started(own.op, r) /\ Started(ans.op, r)
    BY <1>5 DEF Started
  <2>3. own.op = ans.op \/ runs[r] > 1
    BY <1>2, <1>5, <1>8, <2>1, <2>2 DEF OneStart
  <2> QED  BY <1>1, <1>3, <1>4, <2>1, <2>3 DEF Reran
<1> QED  BY <1>6, <1>7, <1>8

(* What holds for good of answers and the records they name.                *)
AnsweredInv ==
    /\ CalmInv /\ (~Racy => IdsInv)
    /\ Undisturbed /\ ~Racy => SaidInv /\ AckInv

(* AnsweredInv is inductive.                                                *)
LEMMA AnsweredInductive == Spec => []AnsweredInv
<1>1. Init => AnsweredInv
  <2> SUFFICES ASSUME Init PROVE AnsweredInv
    OBVIOUS
  <2>1. body \in Workloads /\ SafeUndo
    BY DEF Init, SafeUndo
  <2> QED  BY <2>1, InductiveInit, StoreInit, IdsInit, AckInit DEF AnsweredInv, CalmInv
<1>2. AnsweredInv /\ [Next]_vars => AnsweredInv'
  <2> SUFFICES ASSUME AnsweredInv, [Next]_vars PROVE AnsweredInv'
    OBVIOUS
  <2>1. body' = body /\ IInv' /\ IInv /\ (body \in Workloads)'
    BY InductiveStep, BodyFixed DEF AnsweredInv, CalmInv
  <2>2. Racy' <=> Racy
    BY <2>1, RacySame
  <2>3. ASSUME Undisturbed' PROVE Undisturbed /\ (CalmStep \/ CalmPrune) /\ StoreInv' /\ SafeUndo'
    <3>1. Undisturbed /\ (CalmStep \/ CalmPrune)
      BY <2>1, <2>3, CalmSteps DEF IInv
    <3> QED  BY <3>1, StoreStep, UndoStep DEF AnsweredInv, CalmInv
  <2>4. ASSUME ~Racy PROVE IdsInv'
    BY <2>1, <2>4, IdsStep DEF AnsweredInv, IInv, WalIInv
  <2>5. ASSUME Undisturbed', ~Racy PROVE SaidInv' /\ AckInv'
    <3>1. Calm /\ SaidInv /\ AckInv /\ TypeInv'
      BY <2>1, <2>3, <2>5 DEF AnsweredInv, CalmInv, Calm, IInv
    <3> QED  BY <2>3, <2>5, <3>1, AckStep
  <2> QED  BY <2>1, <2>2, <2>3, <2>4, <2>5 DEF AnsweredInv, CalmInv
<1> QED  BY <1>1, <1>2, PTL DEF Spec

(* "The replay window equals the retention window" (README), for every       *)
(* history limit and every gc: across crashes and recoveries, as long as the *)
(* record of a success the client was told is in the history, the request    *)
(* has a success, and that success unless it ran twice (AckedUnlessPruned).  *)
(* The property itself speaks of servers that nothing fails; the one         *)
(* exception beyond it is a command that runs while gc prunes.              *)
THEOREM ReplayWindow == Spec => [](~Racy => AckedUnlessPruned)
<1>1. AnsweredInv => (~Racy => AckedUnlessPruned)
  <2> SUFFICES ASSUME AnsweredInv, ~Racy PROVE AckedUnlessPruned
    OBVIOUS
  <2>1. CASE Undisturbed
    BY <2>1, AckedReplay DEF AnsweredInv, CalmInv
  <2>2. CASE ~Undisturbed
    BY <2>2 DEF AckedUnlessPruned, Undisturbed
  <2> QED  BY <2>1, <2>2
<1> QED  BY <1>1, AnsweredInductive, PTL
=============================================================================
