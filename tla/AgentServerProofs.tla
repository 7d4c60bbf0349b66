-------------------------- MODULE AgentServerProofs --------------------------
(***************************************************************************)
(* The theorems that make up the inductive invariant of AgentServer (IInv,  *)
(* in AgentServerInv): types; no two tasks ever own one request; and every   *)
(* mutation of the workspace stays covered by the operation log.            *)
(***************************************************************************)
EXTENDS AgentServerInv, TLAPS

-----------------------------------------------------------------------------
(* Type correctness: the data of StoreData, then one lemma per action.      *)

(* The answers the handlers build are answers.                              *)
LEMMA AnswerTypes ==
    /\ NoAnswer \in Answers
    /\ \A op \in 0..MaxOps, old, new \in State :
           Done(op, old, new) \in Answers /\ Done(op, old, new).st = "done"
    /\ \A code \in Codes : Err(code) \in Answers /\ Err(code).st = "error"
<1> USE MaxOpsAssumption DEF MaxOpsAssumption, State
<1>1. NoAnswer \in Answers
  BY DEF NoAnswer, Answers, Codes
<1>2. \A op \in 0..MaxOps, old, new \in State :
         Done(op, old, new) \in Answers /\ Done(op, old, new).st = "done"
  BY DEF Answers, Codes, Done
<1>3. \A code \in Codes : Err(code) \in Answers /\ Err(code).st = "error"
  BY <1>1 DEF Err, Answers
<1> QED  BY <1>1, <1>2, <1>3

(* The lines the request log holds are entries.                             *)
LEMMA EntryTypes ==
    /\ NoEntry \in Entries
    /\ \A k \in Kinds : InProgress(k) \in Entries
    /\ \A s \in {"done", "error"}, a \in Answers : Terminal(s, a) \in Entries
  BY AnswerTypes DEF NoEntry, Entries, InProgress, Terminal

(* The empty record and the Aborted marker are records.                     *)
LEMMA RecordTypes ==
    /\ NoRec \in Records
    /\ \A ts \in Nat : Aborted(ts) \in Records
  BY DEF NoRec, Records, Aborted, State

(* A finished task is a task state.                                         *)
LEMMA TaskTypes == IdleTask \in TaskStates
  BY AnswerTypes, MaxOpsAssumption DEF MaxOpsAssumption, IdleTask, TaskStates, State

(* A request id already seen is answered with an answer.                    *)
LEMMA ReplayTypes == \A e \in Entries : Replay(e) \in Answers
  BY AnswerTypes DEF Replay, Entries, Codes

(* A task that finishes goes to "remember" and changes nothing else of itself. *)
LEMMA FinishTypes ==
    ASSUME TypeOK, NEW t \in Tasks, NEW ans \in Answers, FinishWith(t, ans)
    PROVE  /\ task' \in [Tasks -> TaskStates]
           /\ task'[t].pc = "remember" /\ task'[t].ans = ans
           /\ task'[t].rid = task[t].rid /\ task'[t].op = task[t].op
           /\ \A u \in Tasks : u # t => task'[u] = task[u]
<1> DEFINE new == [task[t] EXCEPT !.pc = "remember", !.ans = ans, !.say = ans]
<1>1. task[t] \in TaskStates /\ task \in [Tasks -> TaskStates]
  BY DEF TypeOK
<1>2. new \in TaskStates
  BY <1>1 DEF TaskStates
<1>3. new.pc = "remember" /\ new.ans = ans /\ new.rid = task[t].rid /\ new.op = task[t].op
  BY <1>1 DEF TaskStates
<1>4. task' = [task EXCEPT ![t] = new]
  BY DEF FinishWith
<1> HIDE DEF new
<1>5. task' \in [Tasks -> TaskStates] /\ task'[t] = new
  BY <1>1, <1>2, <1>4
<1>6. \A u \in Tasks : u # t => task'[u] = task[u]
  BY <1>1, <1>4
<1> QED  BY <1>3, <1>5, <1>6

(* finish() is entered with an outcome, by the task that lets go of the guard. *)
LEMMA FinishShape ==
    ASSUME TypeInv, NEW t \in Tasks, task[t].pc # "idle",
           NEW ans \in Answers, ans.st \in {"done", "error"}, FinishWith(t, ans),
           body' = body, guard' = guard \/ guard = t
    PROVE  TaskShape'
<1> USE FinishTypes DEF TypeInv
<1>1. \A u \in Tasks : u # t => task'[u] = task[u]
  OBVIOUS
<1>2. \A u \in Tasks : u # t /\ task[u].pc \in FsSteps => guard' = u
  BY DEF TaskShape
<1>3. task'[t].pc = "remember" /\ task'[t].ans.st \in {"done", "error"} /\ task'[t].rid \in Rids
  BY DEF TaskShape
<1> QED  BY <1>1, <1>2, <1>3 DEF TaskShape, FsSteps, BodyOf

(* handle_exec builds well-formed records.                                  *)
LEMMA ExecRecordTypes ==
    ASSUME TypeOK, NEW t \in Tasks, NEW ts \in Nat
    PROVE  /\ ExecRecord(t, ts) \in Records
           /\ ExecRecord(t, ts).st = "exec"
<1>1. task[t].rid \in Rids \cup {NoRid}
  BY DEF TypeOK, TaskStates
<1> QED  BY <1>1, RecordTypes DEF ExecRecord, Records

(* The mutating handlers build records that name their request and path.    *)
LEMMA FsRecordTypes ==
    ASSUME TypeInv, NEW t \in Tasks, task[t].pc \in FsSteps,
           NEW st \in {"prepared", "fs"}, NEW ts \in Nat
    PROVE  /\ FsRecord(t, st, ts) \in Records
           /\ FsRecord(t, st, ts).rid \in Rids
           /\ FsRecord(t, st, ts).path \in Paths
           /\ FsRecord(t, st, ts).kind \in FsKinds
<1>1. /\ task[t] \in TaskStates /\ task[t].rid \in Rids /\ task[t].path \in Paths
      /\ BodyOf(t).kind \in FsKinds
  BY DEF TypeInv, TypeOK, TaskShape, FsSteps
<1> QED  BY <1>1 DEF FsRecord, Records, TaskStates

(* An accepted second look yields real contents: NoMatch never gets through. *)
LEMMA SecondLookTypes ==
    ASSUME TypeInv, NEW t \in Tasks, task[t].pc = "read",
           SecondLookError(t, SecondLook(t)) = "none"
    PROVE  /\ SecondLook(t).old \in State
           /\ SecondLook(t).new \in State
           /\ SecondLook(t).blob \in State
<1> USE SentinelAssumption DEF SentinelAssumption, State
<1>1. /\ BodyOf(t) \in Bodies /\ BodyOf(t).kind \in FsKinds
      /\ task[t] \in TaskStates /\ file[task[t].path] \in State \cup {Unresolvable}
  BY DEF TypeInv, TypeOK, TaskShape, FsSteps, BodyOf
<1>2. CASE BodyOf(t).kind = "create"
  BY <1>1, <1>2 DEF SecondLook, TaskStates
<1>3. CASE BodyOf(t).kind = "edit"
  BY <1>1, <1>3 DEF SecondLook, SecondLookError, TaskStates, Bodies, Kind
<1>4. CASE BodyOf(t).kind = "delete"
  BY <1>1, <1>4 DEF SecondLook, TaskStates
<1>5. CASE BodyOf(t).kind = "undo"
  BY <1>1, <1>5 DEF SecondLook, TaskStates
<1> QED  BY <1>1, <1>2, <1>3, <1>4, <1>5 DEF FsKinds

(* A prune leaves every slot as it was or empties it.                       *)
LEMMA TrimTypes ==
    ASSUME NEW recs \in [OpIds -> Records], NEW slots, NEW keep,
           NEW entries \in [Rids -> Entries]
    PROVE  /\ Trim(recs, slots, keep) \in [OpIds -> Records]
           /\ \A i \in OpIds : Trim(recs, slots, keep)[i] \in {recs[i], NoRec}
           /\ TrimRequests(entries, Trim(recs, slots, keep)) \in [Rids -> Entries]
<1>1. \A i \in OpIds : Trim(recs, slots, keep)[i] \in {recs[i], NoRec}
  BY DEF Trim
<1>2. Trim(recs, slots, keep) \in [OpIds -> Records]
  BY RecordTypes DEF Trim
<1>3. \A kept : TrimRequests(entries, kept) \in [Rids -> Entries]
  BY EntryTypes DEF TrimRequests
<1> QED  BY <1>1, <1>2, <1>3

(* What recovery rebuilds from a record is an answer.                       *)
LEMMA ReconstructTypes ==
    ASSUME NEW i \in OpIds, NEW rec \in Records
    PROVE  /\ Reconstruct(i, rec) \in Answers
           /\ Reconstruct(i, rec).st \in {"done", "error"}
<1>1. i \in 0..MaxOps /\ rec.old \in State /\ rec.new \in State
  BY MaxOpsAssumption DEF MaxOpsAssumption, OpIds, Records
<1> QED  BY <1>1, AnswerTypes DEF Reconstruct, Codes

(* ReceiveSeen keeps the types.                                             *)
LEMMA TypeReceiveSeen ==
    ASSUME TypeInv, NEW t \in Tasks, NEW r \in Rids, ReceiveSeen(t, r) PROVE TypeInv'
<1> USE SentinelAssumption, MaxOpsAssumption
    DEF SentinelAssumption, MaxOpsAssumption, TypeInv, disk, tables, bounds, ghosts,
        ReceiveSeen, At
<1>1. told' \in SUBSET (Rids \X Answers)
  BY ReplayTypes DEF TypeOK
<1>2. TypeOK'
  BY <1>1 DEF TypeOK
<1>3. TaskShape'
  BY DEF TypeOK, TaskStates, TaskShape, FsSteps, PruneShape, BodyOf
<1>4. RecordShape'
  BY DEF TypeOK, RecordShape
<1>5. PruneShape'
  BY DEF TypeOK, TaskStates, TaskShape, FsSteps, PruneShape, BodyOf
<1>6. RecoveryShape'
  BY DEF RecoveryShape
<1> QED  BY <1>2, <1>3, <1>4, <1>5, <1>6

(* ReceiveNew keeps the types.                                              *)
LEMMA TypeReceiveNew ==
    ASSUME TypeInv, NEW t \in Tasks, NEW r \in Rids, ReceiveNew(t, r) PROVE TypeInv'
<1> DEFINE new == [task[t] EXCEPT !.pc = "claim", !.rid = r]
<1>0. task[t] \in TaskStates
  BY DEF TypeInv, TypeOK
<1>1. new \in TaskStates /\ new.pc = "claim" /\ new.rid = r
  BY <1>0 DEF TaskStates
<1> USE DEF TypeInv, disk, tables, bounds, ghosts, ReceiveNew, At
<1>2. task' = [task EXCEPT ![t] = new]
  OBVIOUS
<1> HIDE DEF new
<1>3. TypeOK'
  BY <1>1, <1>2 DEF TypeOK
<1>4. TaskShape'
  BY <1>1, <1>2 DEF TypeOK, TaskShape, FsSteps, BodyOf
<1>5. RecordShape' /\ RecoveryShape'
  BY DEF RecordShape, RecoveryShape
<1>6. PruneShape'
  BY <1>1, <1>2 DEF TypeOK, PruneShape, BodyOf
<1> QED  BY <1>3, <1>4, <1>5, <1>6

(* ReadOnly keeps the types.                                                *)
LEMMA TypeReadOnly ==
    ASSUME TypeInv, NEW t \in Tasks, ReadOnly(t) PROVE TypeInv'
<1> USE DEF TypeInv, disk, tables, bounds, ghosts, ReadOnly, At
<1>0. BodyOf(t) \in Bodies /\ task[t].pc = "begin" /\ BodyOf(t).kind = "read"
  BY DEF TypeOK, TaskShape, BodyOf, Kind
<1>1. PICK ans \in Answers : ans.st \in {"done", "error"} /\ FinishWith(t, ans)
  <2>1. CASE file[BodyOf(t).path] = Unresolvable
    BY <2>1, AnswerTypes DEF Codes
  <2>2. CASE file[BodyOf(t).path] # Unresolvable /\ file[BodyOf(t).path] = Absent
    BY <2>2, AnswerTypes DEF Codes
  <2>3. CASE file[BodyOf(t).path] # Unresolvable /\ file[BodyOf(t).path] # Absent
    <3>1. file[BodyOf(t).path] \in State /\ Absent \in State /\ 0 \in 0..MaxOps
      BY <1>0, <2>3, MaxOpsAssumption DEF MaxOpsAssumption, TypeOK, Bodies, State
    <3> QED  BY <2>3, <3>1, AnswerTypes
  <2> QED  BY <2>1, <2>2, <2>3
<1>2. TypeOK'
  BY <1>1, FinishTypes DEF TypeOK
<1>3. TaskShape'
  BY <1>0, <1>1, FinishShape
<1>4. RecordShape' /\ RecoveryShape'
  BY DEF RecordShape, RecoveryShape
<1>5. PruneShape'
  BY <1>0, <1>1, FinishTypes DEF TypeOK, PruneShape, BodyOf
<1> QED  BY <1>2, <1>3, <1>4, <1>5

(* ExecStart keeps the types.                                               *)
LEMMA TypeExecStart ==
    ASSUME TypeInv, NEW t \in Tasks, NEW started \in BOOLEAN, ExecStart(t, started)
    PROVE TypeInv'
<1> DEFINE ans == IF started THEN Done(nextId + 1, Absent, Absent) ELSE Err("ExecFailed")
           new == [task[t] EXCEPT !.pc = "exec_append", !.op = nextId + 1,
                                  !.ans = ans, !.say = ans]
<1>0. /\ task[t] \in TaskStates /\ task[t].pc = "begin" /\ task[t].rid \in Rids
      /\ BodyOf(t).kind = "exec"
      /\ nextId + 1 \in OpIds /\ nextId + 1 \in 0..MaxOps
  BY MaxOpsAssumption
     DEF MaxOpsAssumption, TypeInv, TypeOK, TaskShape, ExecStart, At, Kind, OpIds
<1>1. ans \in Answers /\ ans.st \in {"done", "error"}
  BY <1>0, AnswerTypes DEF Codes, State
<1>2. task' = [task EXCEPT ![t] = new] /\ nextId' = nextId + 1
  BY DEF ExecStart
<1> HIDE DEF ans
<1>3. /\ new \in TaskStates /\ new.pc = "exec_append" /\ new.rid = task[t].rid
      /\ new.op \in OpIds /\ new.ans = ans
  BY <1>0, <1>1 DEF TaskStates
<1> USE DEF TypeInv, disk, tables, bounds, ghosts, ExecStart, At
<1>4. runs' \in [Rids -> Nat]
  BY <1>0 DEF TypeOK
<1> HIDE DEF new
<1>5. TypeOK'
  BY <1>0, <1>2, <1>3, <1>4 DEF TypeOK
<1>6. TaskShape'
  BY <1>0, <1>1, <1>2, <1>3 DEF TypeOK, TaskShape, FsSteps, BodyOf
<1>7. RecordShape' /\ RecoveryShape'
  BY DEF RecordShape, RecoveryShape
<1>8. PruneShape'
  BY <1>0, <1>2 DEF TypeOK, PruneShape, BodyOf
<1> QED  BY <1>5, <1>6, <1>7, <1>8

(* ExecAppend keeps the types.                                              *)
LEMMA TypeExecAppend ==
    ASSUME TypeInv, NEW t \in Tasks, ExecAppend(t) PROVE TypeInv'
<1> DEFINE new == [task[t] EXCEPT !.pc = "exec_push", !.ts = now]
<1>0. /\ now \in Nat /\ task[t] \in TaskStates /\ task[t].pc = "exec_append"
      /\ task[t].op \in OpIds
  BY DEF TypeInv, TypeOK, TaskShape, ExecAppend, At
<1>3. /\ new \in TaskStates /\ new.pc = "exec_push" /\ new.rid = task[t].rid
      /\ new.op = task[t].op /\ new.ans = task[t].ans
  BY <1>0 DEF TaskStates
<1> USE DEF TypeInv, disk, tables, bounds, ghosts, ExecAppend, At, Stamp
<1>1. ops' = [ops EXCEPT ![task[t].op] = ExecRecord(t, now)]
  OBVIOUS
<1>2. ops' \in [OpIds -> Records]
  BY <1>0, <1>1, ExecRecordTypes DEF TypeOK
<1>4. task' = [task EXCEPT ![t] = new]
  OBVIOUS
<1> HIDE DEF new
<1>5. TypeOK'
  BY <1>0, <1>2, <1>3, <1>4 DEF TypeOK
<1>6. TaskShape'
  BY <1>0, <1>3, <1>4 DEF TypeOK, TaskShape, FsSteps, BodyOf
<1>7. RecordShape'
  BY <1>0, <1>1, ExecRecordTypes DEF TypeOK, RecordShape
<1>8. PruneShape' /\ RecoveryShape'
  BY <1>0, <1>4 DEF TypeOK, PruneShape, RecoveryShape, BodyOf
<1> QED  BY <1>5, <1>6, <1>7, <1>8

(* ExecAppendFail keeps the types.                                          *)
LEMMA TypeExecAppendFail ==
    ASSUME TypeInv, NEW t \in Tasks, ExecAppendFail(t) PROVE TypeInv'
<1> DEFINE new == [task[t] EXCEPT !.pc = "remember", !.say = Err("IoError"),
                       !.ans = IF task[t].ans.st = "done" THEN Err("IoError") ELSE task[t].ans]
<1>0. /\ now \in Nat /\ task[t] \in TaskStates /\ task[t].pc = "exec_append"
      /\ task[t].op \in OpIds /\ task[t].ans.st \in {"done", "error"}
  BY DEF TypeInv, TypeOK, TaskShape, ExecAppendFail, At
<1>1. /\ Err("IoError") \in Answers /\ Err("IoError").st = "error"
      /\ ExecRecord(t, now) \in Records /\ ExecRecord(t, now).st = "exec"
  BY <1>0, AnswerTypes, ExecRecordTypes DEF TypeInv, Codes
<1>3. /\ new \in TaskStates /\ new.pc = "remember" /\ new.rid = task[t].rid
      /\ new.ans.st \in {"done", "error"}
  BY <1>0, <1>1 DEF TaskStates
<1>4. task' = [task EXCEPT ![t] = new]
  BY DEF ExecAppendFail
<1> USE DEF TypeInv, disk, tables, bounds, ghosts, ExecAppendFail, At, Stamp, Failing
<1>2. ops' \in [OpIds -> Records]
  <2>1. CASE ops' = ops
    BY <2>1 DEF TypeOK
  <2>2. CASE ops' = [ops EXCEPT ![task[t].op] = ExecRecord(t, now)]
    BY <1>0, <1>1, <2>2 DEF TypeOK
  <2> QED  BY <2>1, <2>2
<1> HIDE DEF new
<1>5. TypeOK'
  BY <1>0, <1>2, <1>3, <1>4 DEF TypeOK
<1>6. TaskShape'
  BY <1>0, <1>3, <1>4 DEF TypeOK, TaskShape, FsSteps, BodyOf
<1>7. RecordShape'
  <2>1. CASE ops' = ops
    BY <2>1 DEF RecordShape
  <2>2. CASE ops' = [ops EXCEPT ![task[t].op] = ExecRecord(t, now)]
    BY <1>0, <1>1, <2>2 DEF TypeOK, RecordShape
  <2> QED  BY <2>1, <2>2
<1>8. PruneShape' /\ RecoveryShape'
  BY <1>0, <1>4 DEF TypeOK, PruneShape, RecoveryShape, BodyOf
<1> QED  BY <1>5, <1>6, <1>7, <1>8

(* ExecPush keeps the types.                                                *)
LEMMA TypeExecPush ==
    ASSUME TypeInv, NEW t \in Tasks, ExecPush(t) PROVE TypeInv'
<1> USE DEF TypeInv, disk, tables, bounds, ghosts, ExecPush, At, Stamp
<1> DEFINE new == ExecRecord(t, task[t].ts)
<1>0. /\ now \in Nat /\ task[t].ts \in Nat /\ task[t].op \in OpIds
      /\ task[t].pc = "exec_push"
  BY DEF TypeOK, TaskShape, TaskStates
<1>1. new \in Records /\ new.st = "exec"
  BY <1>0, ExecRecordTypes
<1>2. mops' = [mops EXCEPT ![task[t].op] = new]
  OBVIOUS
<1> HIDE DEF new
<1>3. mops' \in [OpIds -> Records] /\ slot' \in [OpIds -> Nat]
  BY <1>0, <1>1, <1>2 DEF TypeOK
<1>4. task' \in [Tasks -> TaskStates]
  BY DEF TypeOK, TaskStates
<1>5. TypeOK'
  BY <1>0, <1>3, <1>4 DEF TypeOK
<1>6. TaskShape'
  BY DEF TypeOK, TaskStates, TaskShape, FsSteps, BodyOf
<1>7. RecordShape'
  BY <1>0, <1>1, <1>2 DEF TypeOK, RecordShape
<1>8. PruneShape' /\ RecoveryShape'
  BY DEF TypeOK, TaskStates, PruneShape, RecoveryShape, BodyOf
<1> QED  BY <1>5, <1>6, <1>7, <1>8

(* ClaimAppend keeps the types.                                             *)
LEMMA TypeClaimAppend ==
    ASSUME TypeInv, NEW t \in Tasks, ClaimAppend(t) PROVE TypeInv'
<1> USE SentinelAssumption, MaxOpsAssumption
    DEF SentinelAssumption, MaxOpsAssumption, TypeInv, disk, tables, bounds, ghosts,
        ClaimAppend, At, BodyOf
<1>1. BodyOf(t).kind \in Kinds
  BY DEF TypeOK, TaskShape, Bodies
<1>2. task' \in [Tasks -> TaskStates]
  BY DEF TypeOK, TaskStates
<1>3. reqs' \in [Rids -> Entries]
  BY EntryTypes, <1>1 DEF TypeOK, TaskShape
<1>4. TypeOK'
  BY <1>2, <1>3 DEF TypeOK
<1>5. TaskShape'
  BY DEF TypeOK, TaskStates, TaskShape, FsSteps, PruneShape, BodyOf
<1>6. RecordShape'
  BY DEF TypeOK, RecordShape
<1>7. PruneShape'
  BY DEF TypeOK, TaskStates, TaskShape, FsSteps, PruneShape, BodyOf
<1>8. RecoveryShape'
  BY DEF RecoveryShape
<1> QED  BY <1>4, <1>5, <1>6, <1>7, <1>8

(* ClaimFail keeps the types.                                               *)
LEMMA TypeClaimFail ==
    ASSUME TypeInv, NEW t \in Tasks, ClaimFail(t) PROVE TypeInv'
<1> USE SentinelAssumption, MaxOpsAssumption
    DEF SentinelAssumption, MaxOpsAssumption, TypeInv, disk, tables, bounds, ghosts,
        ClaimFail, At, BodyOf, Failing
<1>1. BodyOf(t).kind \in Kinds
  BY DEF TypeOK, TaskShape, Bodies
<1>2. task' \in [Tasks -> TaskStates]
  BY TaskTypes DEF TypeOK
<1>3. reqs' \in [Rids -> Entries]
  BY EntryTypes, <1>1 DEF TypeOK, TaskShape
<1>4. told' \in SUBSET (Rids \X Answers)
  BY AnswerTypes DEF TypeOK, TaskShape, Codes
<1>5. TypeOK'
  BY <1>2, <1>3, <1>4 DEF TypeOK
<1>6. TaskShape'
  BY DEF TypeOK, TaskStates, TaskShape, FsSteps, PruneShape, BodyOf, IdleTask
<1>7. RecordShape'
  BY DEF TypeOK, RecordShape
<1>8. PruneShape'
  BY DEF TypeOK, TaskStates, TaskShape, FsSteps, PruneShape, BodyOf, IdleTask
<1>9. RecoveryShape'
  BY DEF RecoveryShape
<1> QED  BY <1>5, <1>6, <1>7, <1>8, <1>9

(* ClaimLost keeps the types.                                               *)
LEMMA TypeClaimLost ==
    ASSUME TypeInv, NEW t \in Tasks, ClaimLost(t) PROVE TypeInv'
<1> USE SentinelAssumption, MaxOpsAssumption
    DEF SentinelAssumption, MaxOpsAssumption, TypeInv, disk, tables, bounds, ghosts,
        ClaimLost, At
<1>1. task' \in [Tasks -> TaskStates]
  BY TaskTypes DEF TypeOK
<1>2. told' \in SUBSET (Rids \X Answers)
  BY ReplayTypes DEF TypeOK, TaskShape
<1>3. TypeOK'
  BY <1>1, <1>2 DEF TypeOK
<1>4. TaskShape'
  BY DEF TypeOK, TaskStates, TaskShape, FsSteps, PruneShape, BodyOf, IdleTask
<1>5. RecordShape'
  BY DEF TypeOK, RecordShape
<1>6. PruneShape'
  BY DEF TypeOK, TaskStates, TaskShape, FsSteps, PruneShape, BodyOf, IdleTask
<1>7. RecoveryShape'
  BY DEF RecoveryShape
<1> QED  BY <1>3, <1>4, <1>5, <1>6, <1>7

(* ClaimWon keeps the types.                                                *)
LEMMA TypeClaimWon ==
    ASSUME TypeInv, NEW t \in Tasks, ClaimWon(t) PROVE TypeInv'
<1> USE SentinelAssumption, MaxOpsAssumption
    DEF SentinelAssumption, MaxOpsAssumption, TypeInv, disk, tables, bounds, ghosts,
        ClaimWon, At, BodyOf
<1>1. BodyOf(t).kind \in Kinds
  BY DEF TypeOK, TaskShape, Bodies
<1>2. task' \in [Tasks -> TaskStates]
  BY DEF TypeOK, TaskStates
<1>3. mreqs' \in [Rids -> Entries]
  BY EntryTypes, <1>1 DEF TypeOK, TaskShape
<1>4. TypeOK'
  BY <1>2, <1>3 DEF TypeOK
<1>5. TaskShape'
  BY DEF TypeOK, TaskStates, TaskShape, FsSteps, PruneShape, BodyOf
<1>6. RecordShape'
  BY DEF TypeOK, RecordShape
<1>7. PruneShape'
  BY DEF TypeOK, TaskStates, TaskShape, FsSteps, PruneShape, BodyOf
<1>8. RecoveryShape'
  BY DEF RecoveryShape
<1> QED  BY <1>4, <1>5, <1>6, <1>7, <1>8

(* RememberAppend keeps the types.                                          *)
LEMMA TypeRememberAppend ==
    ASSUME TypeInv, NEW t \in Tasks, RememberAppend(t) PROVE TypeInv'
<1> USE SentinelAssumption, MaxOpsAssumption
    DEF SentinelAssumption, MaxOpsAssumption, TypeInv, disk, tables, bounds, ghosts,
        RememberAppend, At
<1>1. task' \in [Tasks -> TaskStates]
  BY DEF TypeOK, TaskStates
<1>2. reqs' \in [Rids -> Entries]
  BY EntryTypes DEF TypeOK, TaskShape, TaskStates
<1>3. TypeOK'
  BY <1>1, <1>2 DEF TypeOK
<1>4. TaskShape'
  BY DEF TypeOK, TaskStates, TaskShape, FsSteps, PruneShape, BodyOf
<1>5. RecordShape'
  BY DEF TypeOK, RecordShape
<1>6. PruneShape'
  BY DEF TypeOK, TaskStates, TaskShape, FsSteps, PruneShape, BodyOf
<1>7. RecoveryShape'
  BY DEF RecoveryShape
<1> QED  BY <1>3, <1>4, <1>5, <1>6, <1>7

(* RememberFail keeps the types.                                            *)
LEMMA TypeRememberFail ==
    ASSUME TypeInv, NEW t \in Tasks, RememberFail(t) PROVE TypeInv'
<1> USE SentinelAssumption, MaxOpsAssumption
    DEF SentinelAssumption, MaxOpsAssumption, TypeInv, disk, tables, bounds, ghosts,
        RememberFail, At, Failing
<1>1. task' \in [Tasks -> TaskStates]
  BY TaskTypes DEF TypeOK
<1>2. reqs' \in [Rids -> Entries]
  BY EntryTypes DEF TypeOK, TaskShape, TaskStates
<1>3. told' \in SUBSET (Rids \X Answers)
  BY AnswerTypes DEF TypeOK, TaskShape, Codes
<1>4. TypeOK'
  BY <1>1, <1>2, <1>3 DEF TypeOK
<1>5. TaskShape'
  BY DEF TypeOK, TaskStates, TaskShape, FsSteps, PruneShape, BodyOf, IdleTask
<1>6. RecordShape'
  BY DEF TypeOK, RecordShape
<1>7. PruneShape'
  BY DEF TypeOK, TaskStates, TaskShape, FsSteps, PruneShape, BodyOf, IdleTask
<1>8. RecoveryShape'
  BY DEF RecoveryShape
<1> QED  BY <1>4, <1>5, <1>6, <1>7, <1>8

(* RememberInsert keeps the types.                                          *)
LEMMA TypeRememberInsert ==
    ASSUME TypeInv, NEW t \in Tasks, RememberInsert(t) PROVE TypeInv'
<1> USE SentinelAssumption, MaxOpsAssumption
    DEF SentinelAssumption, MaxOpsAssumption, TypeInv, disk, tables, bounds, ghosts,
        RememberInsert, At
<1>1. task' \in [Tasks -> TaskStates]
  BY TaskTypes DEF TypeOK
<1>2. mreqs' \in [Rids -> Entries]
  BY EntryTypes DEF TypeOK, TaskShape, TaskStates
<1>3. told' \in SUBSET (Rids \X Answers)
  BY DEF TypeOK, TaskShape, TaskStates
<1>4. TypeOK'
  BY <1>1, <1>2, <1>3 DEF TypeOK
<1>5. TaskShape'
  BY DEF TypeOK, TaskStates, TaskShape, FsSteps, PruneShape, BodyOf, IdleTask
<1>6. RecordShape'
  BY DEF TypeOK, RecordShape
<1>7. PruneShape'
  BY DEF TypeOK, TaskStates, TaskShape, FsSteps, PruneShape, BodyOf, IdleTask
<1>8. RecoveryShape'
  BY DEF RecoveryShape
<1> QED  BY <1>4, <1>5, <1>6, <1>7, <1>8

(* FsCheck keeps the types.                                                 *)
LEMMA TypeFsCheck ==
    ASSUME TypeInv, NEW t \in Tasks, FsCheck(t) PROVE TypeInv'
<1> DEFINE b == BodyOf(t)
           target == mops[b.target]
           path == IF b.kind = "undo" THEN target.path ELSE b.path
           f == IF path \in Paths THEN file[path] ELSE Absent
           error == CASE b.kind = "create" -> CreateError(f)
                      [] b.kind = "edit"   -> EditError(b, f)
                      [] b.kind = "delete" -> DeleteError(f)
                      [] OTHER             -> UndoError(target, f, blobs[b.target])
           old == IF b.kind \in {"edit", "undo"} THEN f ELSE Absent
           blob == IF b.kind = "delete" THEN f ELSE Absent
           new == CASE b.kind = "create" -> b.new
                    [] b.kind = "undo" /\ target.old # Absent -> blobs[b.target]
                    [] OTHER -> Absent
           next == [task[t] EXCEPT !.pc = "read", !.path = path, !.old = old,
                                   !.blob = blob, !.new = new]
<1>1. /\ b \in Bodies /\ b.kind \in FsKinds /\ b.target \in OpIds
      /\ task[t] \in TaskStates /\ task[t].pc = "begin" /\ task[t].rid \in Rids
      /\ guard = NoTask
  BY DEF TypeInv, TypeOK, TaskShape, FsCheck, At, Kind, BodyOf, Bodies
<1>2. /\ target \in Records /\ blobs[b.target] \in State
      /\ target.st = "fs" => target.path \in Paths
  BY <1>1 DEF TypeInv, TypeOK, RecordShape
<1>3. f \in State \cup {Unresolvable}
  BY DEF TypeInv, TypeOK, State
<1>4. error \in Codes
  BY DEF Codes, CreateError, EditError, DeleteError, UndoError
<1>5. error = "none" => path \in Paths /\ old \in State /\ blob \in State /\ new \in State
  <2> SUFFICES ASSUME error = "none"
               PROVE  path \in Paths /\ old \in State /\ blob \in State /\ new \in State
    OBVIOUS
  <2>1. CASE b.kind = "create"
    BY <1>1, <2>1 DEF Bodies, State
  <2>2. CASE b.kind = "edit"
    BY <1>1, <1>3, <2>2 DEF Bodies, State, EditError
  <2>3. CASE b.kind = "delete"
    BY <1>1, <1>3, <2>3 DEF Bodies, State, DeleteError
  <2>4. CASE b.kind = "undo"
    <3>1. UndoError(target, f, blobs[b.target]) = "none"
      BY <2>4
    <3>2. target.st = "fs" /\ f # Unresolvable
      BY <3>1 DEF UndoError, IsCommitted
    <3> QED  BY <1>2, <1>3, <2>4, <3>2 DEF State
  <2> QED  BY <1>1, <2>1, <2>2, <2>3, <2>4 DEF FsKinds
<1>6. \/ error # "none" /\ FinishWith(t, Err(error)) /\ guard' = guard
      \/ error = "none" /\ guard' = t /\ task' = [task EXCEPT ![t] = next]
  BY DEF FsCheck
<1>7. /\ UNCHANGED <<file, disk, tables, nextId, prune, srv, recov, stuck, body, now, bounds,
                     ghosts>>
  BY DEF FsCheck
<1> HIDE DEF b, error
<1>8. CASE error # "none"
  <2>1. Err(error) \in Answers /\ Err(error).st = "error" /\ FinishWith(t, Err(error))
    BY <1>4, <1>6, <1>8, AnswerTypes
  <2> USE DEF TypeInv, disk, tables, bounds, ghosts
  <2>2. TypeOK'
    BY <1>6, <1>7, <1>8, <2>1, FinishTypes DEF TypeOK
  <2>3. TaskShape'
    BY <1>1, <1>6, <1>7, <1>8, <2>1, FinishShape
  <2>4. RecordShape' /\ RecoveryShape'
    BY <1>7 DEF RecordShape, RecoveryShape
  <2>5. PruneShape'
    BY <1>1, <1>7, SentinelAssumption DEF SentinelAssumption, TypeOK, PruneShape
  <2> QED  BY <2>2, <2>3, <2>4, <2>5
<1>9. CASE error = "none"
  <2> HIDE DEF path, old, blob, new
  <2>1. next \in TaskStates /\ next.pc = "read" /\ next.path = path /\ next.rid = task[t].rid
    BY <1>1, <1>5, <1>9 DEF TaskStates
  <2>2. task' = [task EXCEPT ![t] = next] /\ guard' = t /\ path \in Paths
    BY <1>5, <1>6, <1>9
  <2> HIDE DEF next
  <2> USE DEF TypeInv, disk, tables, bounds, ghosts
  <2>3. TypeOK'
    BY <1>7, <2>1, <2>2 DEF TypeOK
  <2>4. TaskShape'
    <3>1. \A u \in Tasks : task[u].pc \notin FsSteps
      BY <1>1, SentinelAssumption DEF SentinelAssumption, TaskShape
    <3>2. task'[t] = next /\ \A u \in Tasks : u # t => task'[u] = task[u]
      BY <2>2 DEF TypeOK
    <3>3. body[next.rid].kind \in FsKinds
      BY <1>1, <2>1 DEF b, BodyOf
    <3> QED  BY <1>1, <1>7, <2>1, <2>2, <3>1, <3>2, <3>3 DEF TaskShape, FsSteps, BodyOf
  <2>5. RecordShape' /\ RecoveryShape'
    BY <1>7 DEF RecordShape, RecoveryShape
  <2>6. PruneShape'
    BY <1>1, <1>7, SentinelAssumption DEF SentinelAssumption, TypeOK, PruneShape
  <2> QED  BY <2>3, <2>4, <2>5, <2>6
<1> QED  BY <1>8, <1>9

(* FsReadReject keeps the types.                                            *)
LEMMA TypeFsReadReject ==
    ASSUME TypeInv, NEW t \in Tasks, FsReadReject(t) PROVE TypeInv'
<1> DEFINE error == SecondLookError(t, SecondLook(t))
<1>1. error \in Codes
  BY DEF SecondLookError, Codes
<1>2. /\ FinishWith(t, Err(error)) /\ guard' = NoTask /\ task[t].pc = "read"
      /\ guard = t
      /\ UNCHANGED <<file, disk, tables, nextId, prune, srv, recov, stuck, body, now, bounds,
                     ghosts>>
  BY DEF TypeInv, FsReadReject, At, TaskShape, FsSteps
<1> HIDE DEF error
<1>3. Err(error) \in Answers /\ Err(error).st = "error"
  BY <1>1, AnswerTypes
<1> USE DEF TypeInv, disk, tables, bounds, ghosts
<1>4. TypeOK'
  BY <1>2, <1>3, FinishTypes DEF TypeOK
<1>5. TaskShape'
  BY <1>2, <1>3, FinishShape
<1>6. RecordShape' /\ RecoveryShape'
  BY <1>2 DEF RecordShape, RecoveryShape
<1>7. PruneShape'
  BY <1>2 DEF TypeOK, PruneShape
<1> QED  BY <1>4, <1>5, <1>6, <1>7

(* FsBlob keeps the types.                                                  *)
LEMMA TypeFsBlob ==
    ASSUME TypeInv, NEW t \in Tasks, FsBlob(t) PROVE TypeInv'
<1> DEFINE look == SecondLook(t)
           next == [task[t] EXCEPT !.pc = "prepare", !.op = nextId + 1, !.old = look.old,
                                   !.new = look.new, !.blob = look.blob]
<1>1. /\ task[t] \in TaskStates /\ task[t].pc = "read" /\ task[t].rid \in Rids
      /\ guard = t /\ nextId + 1 \in OpIds /\ nextId + 1 \in 0..MaxOps
  BY MaxOpsAssumption
     DEF MaxOpsAssumption, TypeInv, TypeOK, TaskShape, FsBlob, At, OpIds, FsSteps
<1>2. look.old \in State /\ look.new \in State /\ look.blob \in State
  BY SecondLookTypes DEF FsBlob, At
<1>3. /\ blobs' = IF look.blob = Absent THEN blobs
                  ELSE [blobs EXCEPT ![nextId + 1] = look.blob]
      /\ task' = [task EXCEPT ![t] = next] /\ nextId' = nextId + 1
      /\ UNCHANGED <<file, ops, reqs, counter, tables, guard, prune, srv, recov, stuck, body,
                     now, bounds, ghosts>>
  BY DEF FsBlob
<1> HIDE DEF look
<1>4. /\ next \in TaskStates /\ next.pc = "prepare" /\ next.rid = task[t].rid
      /\ next.path = task[t].path /\ next.op \in OpIds
  BY <1>1, <1>2 DEF TaskStates
<1> HIDE DEF next
<1>5. blobs' \in [OpIds -> State]
  BY <1>1, <1>2, <1>3 DEF TypeInv, TypeOK
<1> USE DEF TypeInv, tables, bounds, ghosts
<1>6. TypeOK'
  BY <1>1, <1>3, <1>4, <1>5 DEF TypeOK
<1>7. TaskShape'
  BY <1>1, <1>3, <1>4 DEF TypeOK, TaskShape, FsSteps, BodyOf
<1>8. RecordShape' /\ RecoveryShape'
  BY <1>3 DEF RecordShape, RecoveryShape
<1>9. PruneShape'
  BY <1>1, <1>3 DEF TypeOK, PruneShape, BodyOf
<1> QED  BY <1>6, <1>7, <1>8, <1>9

(* FsBlobFail keeps the types.                                              *)
LEMMA TypeFsBlobFail ==
    ASSUME TypeInv, NEW t \in Tasks, FsBlobFail(t) PROVE TypeInv'
<1>1. Err("IoError") \in Answers /\ Err("IoError").st = "error"
  BY AnswerTypes DEF Codes
<1> DEFINE look == SecondLook(t)
<1>2. /\ FinishWith(t, Err("IoError")) /\ guard' = NoTask /\ task[t].pc = "read"
      /\ guard = t /\ fails' = fails + 1 /\ nextId' = nextId + 1 /\ nextId < MaxOps
      /\ blobs' = [blobs EXCEPT ![nextId + 1] = look.blob] \/ UNCHANGED blobs
      /\ UNCHANGED <<file, ops, reqs, counter, tables, prune, srv, recov, stuck, body, now,
                     sends, crashes, externals, ghosts>>
  BY DEF TypeInv, FsBlobFail, At, Failing, TaskShape, FsSteps
<1>look. look.blob \in State
  BY SecondLookTypes DEF FsBlobFail, At
<1> HIDE DEF look
<1>blobs. blobs' \in [OpIds -> State]
  BY <1>2, <1>look, MaxOpsAssumption DEF MaxOpsAssumption, TypeInv, TypeOK, OpIds
<1> USE DEF TypeInv, tables, ghosts
<1>3. nextId' \in 0..MaxOps /\ fails' \in Nat
  BY <1>2, MaxOpsAssumption DEF MaxOpsAssumption, TypeOK
<1>4. TypeOK'
  BY <1>1, <1>2, <1>3, <1>blobs, FinishTypes DEF TypeOK
<1>5. TaskShape'
  BY <1>1, <1>2, FinishShape
<1>6. RecordShape' /\ RecoveryShape'
  BY <1>2 DEF RecordShape, RecoveryShape
<1>7. PruneShape'
  BY <1>2 DEF TypeOK, PruneShape
<1> QED  BY <1>4, <1>5, <1>6, <1>7

(* FsPrepare keeps the types.                                               *)
LEMMA TypeFsPrepare ==
    ASSUME TypeInv, NEW t \in Tasks, FsPrepare(t) PROVE TypeInv'
<1> DEFINE rec == FsRecord(t, "prepared", now)
<1>1. /\ task[t].pc = "prepare" /\ task[t].op \in OpIds /\ now \in Nat
      /\ ops' = [ops EXCEPT ![task[t].op] = rec]
  BY DEF TypeInv, TypeOK, TaskShape, FsPrepare, At
<1>2. rec \in Records /\ rec.rid \in Rids /\ rec.path \in Paths /\ rec.kind \in FsKinds
  BY <1>1, FsRecordTypes DEF FsSteps
<1> HIDE DEF rec
<1> USE DEF TypeInv, tables, bounds, ghosts, FsPrepare, At, Stamp
<1>3. task' \in [Tasks -> TaskStates]
  BY DEF TypeOK, TaskStates
<1>4. TypeOK'
  BY <1>1, <1>2, <1>3 DEF TypeOK
<1>5. TaskShape'
  BY DEF TypeOK, TaskStates, TaskShape, FsSteps, BodyOf
<1>6. RecordShape'
  BY <1>1, <1>2 DEF TypeOK, RecordShape
<1>7. PruneShape' /\ RecoveryShape'
  BY DEF TypeOK, TaskStates, PruneShape, RecoveryShape, BodyOf
<1> QED  BY <1>4, <1>5, <1>6, <1>7

(* FsPrepareFail keeps the types.                                           *)
LEMMA TypeFsPrepareFail ==
    ASSUME TypeInv, NEW t \in Tasks, FsPrepareFail(t) PROVE TypeInv'
<1> DEFINE rec == FsRecord(t, "prepared", now)
<1>1. /\ task[t].pc = "prepare" /\ task[t].op \in OpIds /\ now \in Nat /\ guard = t
      /\ ops' = ops \/ ops' = [ops EXCEPT ![task[t].op] = rec]
      /\ FinishWith(t, Err("IoError")) /\ guard' = NoTask
      /\ now' = now + 1 /\ fails' = fails + 1
      /\ UNCHANGED <<file, reqs, counter, blobs, tables, nextId, prune, srv, recov, stuck,
                     body, sends, crashes, externals, ghosts>>
  BY DEF TypeInv, TypeOK, TaskShape, FsSteps, FsPrepareFail, At, Stamp, Failing
<1>2. rec \in Records /\ rec.rid \in Rids /\ rec.path \in Paths /\ rec.kind \in FsKinds
  BY <1>1, FsRecordTypes DEF FsSteps
<1>3. Err("IoError") \in Answers /\ Err("IoError").st = "error"
  BY AnswerTypes DEF Codes
<1> HIDE DEF rec
<1> USE DEF TypeInv, tables, ghosts
<1>4. ops' \in [OpIds -> Records]
  BY <1>1, <1>2 DEF TypeOK
<1>5. TypeOK'
  BY <1>1, <1>3, <1>4, FinishTypes DEF TypeOK
<1>6. TaskShape'
  BY <1>1, <1>3, FinishShape
<1>7. RecordShape'
  BY <1>1, <1>2 DEF TypeOK, RecordShape
<1>8. PruneShape' /\ RecoveryShape'
  BY <1>1 DEF TypeOK, PruneShape, RecoveryShape
<1> QED  BY <1>5, <1>6, <1>7, <1>8

(* Installing puts a real content into the file.                            *)
LEMMA InstallTypes ==
    ASSUME TypeInv, NEW t \in Tasks, task[t].pc = "install", Install(t)
    PROVE  /\ file' \in [Paths -> State \cup {Unresolvable}]
           /\ effects' \in SUBSET [rid : Rids, op : OpIds, path : Paths,
                                   old : State \cup {Unresolvable}, new : State]
<1>1. /\ task[t].rid \in Rids /\ task[t].op \in OpIds /\ task[t].path \in Paths
      /\ task[t].new \in State /\ file[task[t].path] \in State \cup {Unresolvable}
  BY DEF TypeInv, TypeOK, TaskStates, TaskShape, FsSteps
<1> QED  BY <1>1 DEF Install, TypeInv, TypeOK

(* FsInstall keeps the types.                                               *)
LEMMA TypeFsInstall ==
    ASSUME TypeInv, NEW t \in Tasks, FsInstall(t) PROVE TypeInv'
<1>1. task[t].pc = "install" /\ Install(t)
  BY DEF FsInstall, At
<1>2. task' \in [Tasks -> TaskStates]
  BY DEF TypeInv, TypeOK, TaskStates, FsInstall
<1> USE DEF TypeInv, disk, tables, bounds, FsInstall, At
<1>3. TypeOK'
  BY <1>1, <1>2, InstallTypes DEF TypeOK
<1>4. TaskShape'
  BY DEF TypeOK, TaskStates, TaskShape, FsSteps, BodyOf
<1>5. RecordShape' /\ RecoveryShape'
  BY DEF RecordShape, RecoveryShape
<1>6. PruneShape'
  BY DEF TypeOK, TaskStates, PruneShape, BodyOf
<1> QED  BY <1>3, <1>4, <1>5, <1>6

(* FsInstallRefused keeps the types.                                        *)
LEMMA TypeFsInstallRefused ==
    ASSUME TypeInv, NEW t \in Tasks, FsInstallRefused(t) PROVE TypeInv'
<1> DEFINE error == InstallError(t)
<1>1. error \in Codes
  BY DEF InstallError, Codes
<1>2. /\ FinishWith(t, Err(error)) /\ guard' = NoTask /\ task[t].pc = "install"
      /\ guard = t
      /\ UNCHANGED <<file, disk, tables, nextId, prune, srv, recov, stuck, body, now, bounds,
                     ghosts>>
  BY DEF TypeInv, FsInstallRefused, At, TaskShape, FsSteps
<1> HIDE DEF error
<1>3. Err(error) \in Answers /\ Err(error).st = "error"
  BY <1>1, AnswerTypes
<1> USE DEF TypeInv, disk, tables, bounds, ghosts
<1>4. TypeOK'
  BY <1>2, <1>3, FinishTypes DEF TypeOK
<1>5. TaskShape'
  BY <1>2, <1>3, FinishShape
<1>6. RecordShape' /\ RecoveryShape'
  BY <1>2 DEF RecordShape, RecoveryShape
<1>7. PruneShape'
  BY <1>2 DEF TypeOK, PruneShape
<1> QED  BY <1>4, <1>5, <1>6, <1>7

(* FsInstallFail keeps the types.                                           *)
LEMMA TypeFsInstallFail ==
    ASSUME TypeInv, NEW t \in Tasks, FsInstallFail(t) PROVE TypeInv'
<1>1. Err("IoError") \in Answers /\ Err("IoError").st = "error"
  BY AnswerTypes DEF Codes
<1>2. /\ FinishWith(t, Err("IoError")) /\ guard' = NoTask /\ task[t].pc = "install"
      /\ guard = t /\ fails' = fails + 1
      /\ Install(t) \/ UNCHANGED <<file, effects>>
      /\ UNCHANGED <<disk, tables, nextId, prune, srv, recov, stuck, body, now, sends, crashes,
                     externals, runs, told>>
  BY DEF TypeInv, FsInstallFail, At, Failing, TaskShape, FsSteps
<1>3. /\ file' \in [Paths -> State \cup {Unresolvable}]
      /\ effects' \in SUBSET [rid : Rids, op : OpIds, path : Paths,
                              old : State \cup {Unresolvable}, new : State]
  BY <1>2, InstallTypes DEF TypeInv, TypeOK
<1> USE DEF TypeInv, disk, tables
<1>4. TypeOK'
  BY <1>1, <1>2, <1>3, FinishTypes DEF TypeOK
<1>5. TaskShape'
  BY <1>1, <1>2, FinishShape
<1>6. RecordShape' /\ RecoveryShape'
  BY <1>2 DEF RecordShape, RecoveryShape
<1>7. PruneShape'
  BY <1>2 DEF TypeOK, PruneShape
<1> QED  BY <1>4, <1>5, <1>6, <1>7

(* FsCommit keeps the types.                                                *)
LEMMA TypeFsCommit ==
    ASSUME TypeInv, NEW t \in Tasks, FsCommit(t) PROVE TypeInv'
<1> DEFINE rec == FsRecord(t, "fs", now)
           ans == FsAnswer(t)
<1>1. /\ task[t].pc = "commit" /\ task[t].op \in OpIds /\ now \in Nat /\ guard = t
      /\ BodyOf(t) \in Bodies /\ task[t] \in TaskStates
      /\ ops' = [ops EXCEPT ![task[t].op] = rec]
      /\ mops' = [mops EXCEPT ![task[t].op] = rec]
      /\ slot' = [slot EXCEPT ![task[t].op] = now]
      /\ FinishWith(t, ans) /\ guard' = NoTask /\ now' = now + 1
      /\ UNCHANGED <<file, reqs, counter, blobs, mreqs, nextId, prune, srv, recov, stuck,
                     body, bounds, ghosts>>
  BY DEF TypeInv, TypeOK, TaskShape, FsSteps, FsCommit, At, Stamp, BodyOf
<1>2. rec \in Records /\ rec.rid \in Rids /\ rec.path \in Paths /\ rec.kind \in FsKinds
  BY <1>1, FsRecordTypes DEF FsSteps
<1>3. ans \in Answers /\ ans.st = "done"
  <2>1. mops[BodyOf(t).target].old \in State
    BY <1>1 DEF TypeInv, TypeOK, Bodies, Records
  <2>2. task[t].op \in 0..MaxOps /\ task[t].old \in State /\ task[t].new \in State
    BY <1>1 DEF TaskStates
  <2> QED  BY <2>1, <2>2, AnswerTypes DEF FsAnswer
<1> HIDE DEF rec, ans
<1> USE DEF TypeInv, bounds, ghosts
<1>4. ops' \in [OpIds -> Records] /\ mops' \in [OpIds -> Records] /\ slot' \in [OpIds -> Nat]
  BY <1>1, <1>2 DEF TypeOK
<1>5. TypeOK'
  BY <1>1, <1>3, <1>4, FinishTypes DEF TypeOK
<1>6. TaskShape'
  BY <1>1, <1>3, FinishShape
<1>7. RecordShape'
  BY <1>1, <1>2 DEF TypeOK, RecordShape
<1>8. PruneShape' /\ RecoveryShape'
  BY <1>1 DEF TypeOK, PruneShape, RecoveryShape
<1> QED  BY <1>5, <1>6, <1>7, <1>8

(* FsCommitFail keeps the types.                                            *)
LEMMA TypeFsCommitFail ==
    ASSUME TypeInv, NEW t \in Tasks, FsCommitFail(t) PROVE TypeInv'
<1> DEFINE rec == FsRecord(t, "fs", now)
<1>1. /\ task[t].pc = "commit" /\ task[t].op \in OpIds /\ now \in Nat /\ guard = t
      /\ ops' = ops \/ ops' = [ops EXCEPT ![task[t].op] = rec]
      /\ FinishWith(t, Err("IoError")) /\ guard' = NoTask
      /\ now' = now + 1 /\ fails' = fails + 1
      /\ UNCHANGED <<file, reqs, counter, blobs, tables, nextId, prune, srv, recov, stuck,
                     body, sends, crashes, externals, ghosts>>
  BY DEF TypeInv, TypeOK, TaskShape, FsSteps, FsCommitFail, At, Stamp, Failing
<1>2. rec \in Records /\ rec.rid \in Rids /\ rec.path \in Paths /\ rec.kind \in FsKinds
  BY <1>1, FsRecordTypes DEF FsSteps
<1>3. Err("IoError") \in Answers /\ Err("IoError").st = "error"
  BY AnswerTypes DEF Codes
<1> HIDE DEF rec
<1> USE DEF TypeInv, tables, ghosts
<1>4. ops' \in [OpIds -> Records]
  BY <1>1, <1>2 DEF TypeOK
<1>5. TypeOK'
  BY <1>1, <1>3, <1>4, FinishTypes DEF TypeOK
<1>6. TaskShape'
  BY <1>1, <1>3, FinishShape
<1>7. RecordShape'
  BY <1>1, <1>2 DEF TypeOK, RecordShape
<1>8. PruneShape' /\ RecoveryShape'
  BY <1>1 DEF TypeOK, PruneShape, RecoveryShape
<1> QED  BY <1>5, <1>6, <1>7, <1>8

(* GcBegin keeps the types.                                                 *)
LEMMA TypeGcBegin ==
    ASSUME TypeInv, NEW t \in Tasks, GcBegin(t) PROVE TypeInv'
<1> DEFINE keep == IF BodyOf(t).keep # NoLimit THEN BodyOf(t).keep ELSE HistoryLimit
           kept == Trim(mops, slot, keep)
<1>1. /\ task[t].pc = "begin" /\ task[t].rid \in Rids /\ BodyOf(t).kind = "gc"
      /\ guard = NoTask
      /\ \/ /\ FinishWith(t, Err("InvalidRequest"))
            /\ UNCHANGED <<mops, mreqs, prune, guard>>
         \/ PruneTrim(keep, t) /\ guard' = t /\ UNCHANGED task
      /\ UNCHANGED <<file, disk, slot, nextId, srv, recov, stuck, body, now, bounds, ghosts>>
  BY DEF TypeInv, TaskShape, GcBegin, At, Kind, BodyOf
<1> USE DEF TypeInv, disk, bounds, ghosts
<1>2. CASE FinishWith(t, Err("InvalidRequest")) /\ UNCHANGED <<mops, mreqs, prune, guard>>
  <2>1. Err("InvalidRequest") \in Answers /\ Err("InvalidRequest").st = "error"
    BY AnswerTypes DEF Codes
  <2>2. TypeOK'
    BY <1>1, <1>2, <2>1, FinishTypes DEF TypeOK
  <2>3. TaskShape'
    BY <1>1, <1>2, <2>1, FinishShape
  <2>4. RecordShape' /\ RecoveryShape'
    BY <1>1, <1>2 DEF RecordShape, RecoveryShape
  <2>5. PruneShape'
    BY <1>1, <1>2, SentinelAssumption DEF SentinelAssumption, TypeOK, PruneShape
  <2> QED  BY <2>2, <2>3, <2>4, <2>5
<1>3. CASE PruneTrim(keep, t) /\ guard' = t /\ UNCHANGED task
  <2>1. /\ kept \in [OpIds -> Records] /\ TrimRequests(mreqs, kept) \in [Rids -> Entries]
        /\ \A i \in OpIds : kept[i] \in {mops[i], NoRec}
    BY TrimTypes DEF TypeOK
  <2>2. /\ mops' = kept /\ mreqs' = TrimRequests(mreqs, kept)
        /\ prune' = [stage |-> "truncate", by |-> t, dropped |-> Live(mops) \ Live(kept)]
    BY <1>3 DEF PruneTrim
  <2> HIDE DEF kept
  <2>3. TypeOK'
    BY <1>1, <1>3, <2>1, <2>2 DEF TypeOK, Live
  <2>4. TaskShape'
    <3>1. \A u \in Tasks : task[u].pc \notin FsSteps
      BY <1>1, SentinelAssumption DEF SentinelAssumption, TaskShape
    <3> QED  BY <1>1, <1>3, <3>1 DEF TaskShape
  <2>5. RecordShape'
    BY <1>1, <2>1, <2>2 DEF RecordShape, NoRec
  <2>6. PruneShape' /\ RecoveryShape'
    BY <1>1, <1>3, <2>2 DEF PruneShape, RecoveryShape, BodyOf
  <2> QED  BY <2>3, <2>4, <2>5, <2>6
<1> QED  BY <1>1, <1>2, <1>3

(* PruneBlobs keeps the types.                                              *)
LEMMA TypePruneBlobs ==
    ASSUME TypeInv, PruneBlobs PROVE TypeInv'
<1>1. /\ prune.stage = "blobs" /\ prune' = NoPrune
      /\ \/ prune.by = NoTask /\ srv' = "up" /\ UNCHANGED <<task, guard>>
         \/ /\ prune.by # NoTask /\ FinishWith(prune.by, Done(0, Absent, Absent))
            /\ guard' = NoTask /\ UNCHANGED srv
      /\ UNCHANGED <<file, ops, reqs, counter, tables, nextId, recov, stuck, body, now, bounds,
                     ghosts>>
  BY DEF PruneBlobs
<1>2. blobs' \in [OpIds -> State]
  BY DEF TypeInv, TypeOK, PruneBlobs, State
<1> USE DEF TypeInv, tables, bounds, ghosts, NoPrune
<1>3. CASE prune.by = NoTask /\ srv' = "up" /\ UNCHANGED <<task, guard>>
  <2>1. TypeOK'
    BY <1>1, <1>2, <1>3 DEF TypeOK
  <2>2. TaskShape'
    BY <1>1, <1>3 DEF TaskShape, BodyOf
  <2>3. RecordShape' /\ RecoveryShape' /\ PruneShape'
    BY <1>1 DEF RecordShape, RecoveryShape, PruneShape
  <2> QED  BY <2>1, <2>2, <2>3
<1>4. CASE /\ prune.by # NoTask /\ FinishWith(prune.by, Done(0, Absent, Absent))
           /\ guard' = NoTask /\ UNCHANGED srv
  <2>1. Done(0, Absent, Absent) \in Answers /\ Done(0, Absent, Absent).st = "done"
    BY AnswerTypes, MaxOpsAssumption DEF MaxOpsAssumption, State
  <2>2. prune.by \in Tasks /\ task[prune.by].pc = "begin" /\ guard = prune.by
    BY <1>1, <1>4 DEF TypeOK, PruneShape
  <2>3. TypeOK'
    BY <1>1, <1>2, <1>4, <2>1, <2>2, FinishTypes DEF TypeOK
  <2>4. TaskShape'
    BY <1>1, <1>4, <2>1, <2>2, FinishShape
  <2>5. RecordShape' /\ RecoveryShape' /\ PruneShape'
    BY <1>1 DEF RecordShape, RecoveryShape, PruneShape
  <2> QED  BY <2>3, <2>4, <2>5
<1> QED  BY <1>1, <1>3, <1>4

(* PruneFail keeps the types.                                               *)
LEMMA TypePruneFail ==
    ASSUME TypeInv, PruneFail PROVE TypeInv'
<1>1. /\ prune.stage # "idle" /\ prune.by # NoTask /\ prune' = NoPrune
      /\ FinishWith(prune.by, Err("IoError")) /\ guard' = NoTask /\ fails' = fails + 1
      /\ UNCHANGED <<file, disk, tables, nextId, srv, recov, stuck, body, now, sends, crashes,
                     externals, ghosts>>
  BY DEF PruneFail, Failing
<1>2. Err("IoError") \in Answers /\ Err("IoError").st = "error"
  BY AnswerTypes DEF Codes
<1>3. prune.by \in Tasks /\ task[prune.by].pc = "begin" /\ guard = prune.by
  BY <1>1 DEF TypeInv, TypeOK, PruneShape
<1> USE DEF TypeInv, disk, tables, ghosts, NoPrune
<1>4. TypeOK'
  BY <1>1, <1>2, <1>3, FinishTypes DEF TypeOK
<1>5. TaskShape'
  BY <1>1, <1>2, <1>3, FinishShape
<1>6. RecordShape' /\ RecoveryShape' /\ PruneShape'
  BY <1>1 DEF RecordShape, RecoveryShape, PruneShape
<1> QED  BY <1>4, <1>5, <1>6

(* Crash keeps the types.                                                   *)
LEMMA TypeCrash ==
    ASSUME TypeInv, Crash PROVE TypeInv'
<1> USE DEF TypeInv, disk, ghosts, Crash, NoPrune
<1>1. /\ mops' \in [OpIds -> Records] /\ mreqs' \in [Rids -> Entries]
      /\ task' \in [Tasks -> TaskStates] /\ slot' \in [OpIds -> Nat]
  BY RecordTypes, EntryTypes, TaskTypes
<1>2. recov' \in [rid : Rids \cup {NoRid}, ans : Answers]
  BY AnswerTypes DEF NoRecov
<1>3. TypeOK'
  BY <1>1, <1>2, MaxOpsAssumption DEF MaxOpsAssumption, TypeOK
<1>4. TaskShape'
  BY DEF TaskShape, IdleTask, FsSteps
<1>5. RecordShape'
  <2>1. \A i \in OpIds : ops'[i] = ops[i] /\ mops'[i].st = "none"
    BY DEF NoRec
  <2> QED  BY <2>1 DEF RecordShape
<1>6. PruneShape' /\ RecoveryShape'
  BY DEF PruneShape, RecoveryShape
<1> QED  BY <1>3, <1>4, <1>5, <1>6

(* Start keeps the types.                                                   *)
LEMMA TypeStart ==
    ASSUME TypeInv, Start PROVE TypeInv'
<1> USE DEF TypeInv, disk, bounds, ghosts, Start
<1>1. slot' \in [OpIds -> Nat]
  BY DEF TypeOK, Records
<1>2. TypeOK'
  BY <1>1 DEF TypeOK
<1>3. TaskShape' /\ PruneShape' /\ RecoveryShape'
  BY DEF TaskShape, PruneShape, RecoveryShape, BodyOf
<1>4. RecordShape'
  BY DEF RecordShape
<1> QED  BY <1>2, <1>3, <1>4

(* RecoverMarker keeps the types.                                           *)
LEMMA TypeRecoverMarker ==
    ASSUME TypeInv, NEW i \in OpIds, RecoverMarker(i) PROVE TypeInv'
<1> DEFINE p == mops[i]
           committed == [p EXCEPT !.st = "fs", !.ts = now]
<1>1. /\ p \in Records /\ p.st = "prepared" /\ now \in Nat
      /\ p.rid \in Rids /\ p.path \in Paths /\ p.kind \in FsKinds
  BY DEF TypeInv, TypeOK, RecordShape, RecoverMarker, Pending
<1>2. /\ now' = now + 1
      /\ \/ /\ ops' = [ops EXCEPT ![i] = committed] /\ mops' = [mops EXCEPT ![i] = committed]
            /\ recov' = [rid |-> p.rid, ans |-> Reconstruct(i, committed)]
         \/ /\ ops' = [ops EXCEPT ![i] = Aborted(now)] /\ mops' = [mops EXCEPT ![i] = NoRec]
            /\ \/ recov' = NoRecov
               \/ recov' = [rid |-> p.rid, ans |-> Err("UndoConflict")]
      /\ UNCHANGED <<file, reqs, counter, blobs, slot, mreqs, nextId, guard, prune, srv, stuck,
                     task, body, bounds, ghosts>>
  BY DEF RecoverMarker, Stamp
<1>3. /\ committed \in Records /\ committed.rid \in Rids /\ committed.path \in Paths
      /\ committed.kind \in FsKinds
  BY <1>1 DEF Records
<1>4. NoRec.st = "none" /\ Aborted(now).st = "aborted"
  BY DEF NoRec, Aborted
<1>5. Err("UndoConflict") \in Answers /\ Err("UndoConflict").st = "error"
  BY AnswerTypes DEF Codes
<1> HIDE DEF committed
<1>6. /\ Reconstruct(i, committed) \in Answers
      /\ Reconstruct(i, committed).st \in {"done", "error"}
  BY <1>3, ReconstructTypes
<1> USE DEF TypeInv, bounds, ghosts
<1>7. ops' \in [OpIds -> Records] /\ mops' \in [OpIds -> Records]
  BY <1>1, <1>2, <1>3, RecordTypes DEF TypeOK
<1>8. recov' \in [rid : Rids \cup {NoRid}, ans : Answers]
  BY <1>1, <1>2, <1>5, <1>6, AnswerTypes DEF NoRecov
<1>9. TypeOK'
  BY <1>1, <1>2, <1>7, <1>8 DEF TypeOK
<1>10. TaskShape' /\ PruneShape'
  BY <1>2 DEF TaskShape, PruneShape, BodyOf
<1>11. RecordShape'
  BY <1>2, <1>3, <1>4 DEF TypeOK, RecordShape
<1>12. RecoveryShape'
  BY <1>1, <1>2, <1>5, <1>6 DEF RecoveryShape
<1> QED  BY <1>9, <1>10, <1>11, <1>12

(* RecoverRemember keeps the types.                                         *)
LEMMA TypeRecoverRemember ==
    ASSUME TypeInv, RecoverRemember PROVE TypeInv'
<1> USE DEF TypeInv, bounds, ghosts, RecoverRemember
<1>1. reqs' \in [Rids -> Entries] /\ mreqs' \in [Rids -> Entries]
  BY EntryTypes DEF TypeOK, RecoveryShape, RememberNow
<1>2. recov' \in [rid : Rids \cup {NoRid}, ans : Answers]
  BY AnswerTypes DEF NoRecov
<1>3. TypeOK'
  BY <1>1, <1>2 DEF TypeOK
<1>4. TaskShape' /\ PruneShape' /\ RecordShape' /\ RecoveryShape'
  BY DEF TaskShape, PruneShape, RecordShape, RecoveryShape, BodyOf
<1> QED  BY <1>3, <1>4

(* RecoverStuck keeps the types.                                            *)
LEMMA TypeRecoverStuck ==
    ASSUME TypeInv, NEW r \in Rids, RecoverStuck(r) PROVE TypeInv'
<1>1. \A i \in OpIds : Reconstruct(i, mops[i]) \in Answers
  BY ReconstructTypes DEF TypeInv, TypeOK
<1>2. Err("ExecFailed") \in Answers
  BY AnswerTypes DEF Codes
<1>3. \A st \in {"done", "error"}, ans \in Answers : RememberNow(r, st, ans) =>
         reqs' \in [Rids -> Entries] /\ mreqs' \in [Rids -> Entries]
  BY EntryTypes DEF RememberNow, TypeInv, TypeOK
<1>4. \/ \E i \in OpIds : RememberNow(r, "done", Reconstruct(i, mops[i]))
      \/ RememberNow(r, "error", Err("ExecFailed"))
      \/ mreqs' = [mreqs EXCEPT ![r] = NoEntry] /\ UNCHANGED reqs
  BY DEF RecoverStuck, CommittedFor
<1>5. reqs' \in [Rids -> Entries] /\ mreqs' \in [Rids -> Entries]
  BY <1>1, <1>2, <1>3, <1>4, EntryTypes DEF TypeInv, TypeOK
<1> USE DEF TypeInv, bounds, ghosts, RecoverStuck
<1>6. TypeOK'
  BY <1>5 DEF TypeOK
<1>7. TaskShape' /\ PruneShape' /\ RecordShape' /\ RecoveryShape'
  BY DEF TaskShape, PruneShape, RecordShape, RecoveryShape, BodyOf
<1> QED  BY <1>6, <1>7

(* RecoverDone keeps the types.                                             *)
LEMMA TypeRecoverDone ==
    ASSUME TypeInv, RecoverDone PROVE TypeInv'
<1> DEFINE kept == Trim(mops, slot, HistoryLimit)
<1>1. /\ \/ srv' = "up" /\ UNCHANGED <<mops, mreqs, prune>>
         \/ PruneTrim(HistoryLimit, NoTask) /\ UNCHANGED srv
      /\ UNCHANGED <<file, disk, slot, nextId, guard, recov, stuck, task, body, now, bounds,
                     ghosts>>
  BY DEF RecoverDone
<1> USE DEF TypeInv, disk, bounds, ghosts
<1>2. TaskShape' /\ RecoveryShape'
  BY <1>1 DEF TaskShape, RecoveryShape, BodyOf
<1>3. CASE srv' = "up" /\ UNCHANGED <<mops, mreqs, prune>>
  <2>1. TypeOK'
    BY <1>1, <1>3 DEF TypeOK
  <2>2. RecordShape' /\ PruneShape'
    BY <1>1, <1>3 DEF RecordShape, PruneShape, BodyOf
  <2> QED  BY <1>2, <2>1, <2>2
<1>4. CASE PruneTrim(HistoryLimit, NoTask) /\ UNCHANGED srv
  <2>1. /\ kept \in [OpIds -> Records] /\ TrimRequests(mreqs, kept) \in [Rids -> Entries]
        /\ \A i \in OpIds : kept[i] \in {mops[i], NoRec}
    BY TrimTypes DEF TypeOK
  <2>2. /\ mops' = kept /\ mreqs' = TrimRequests(mreqs, kept)
        /\ prune' = [stage |-> "truncate", by |-> NoTask, dropped |-> Live(mops) \ Live(kept)]
    BY <1>4 DEF PruneTrim
  <2> HIDE DEF kept
  <2>3. TypeOK'
    BY <1>1, <1>4, <2>1, <2>2 DEF TypeOK, Live
  <2>4. RecordShape'
    BY <1>1, <2>1, <2>2 DEF RecordShape, NoRec
  <2>5. PruneShape'
    BY <2>2 DEF PruneShape
  <2> QED  BY <1>2, <2>3, <2>4, <2>5
<1> QED  BY <1>1, <1>3, <1>4

(* The rewrites of a prune (counter file, then both logs) keep the types.   *)
LEMMA TypePruneWrites ==
    ASSUME TypeInv, PruneTruncate \/ PruneCounter \/ PruneOps \/ PruneReqs PROVE TypeInv'
<1> USE DEF TypeInv, tables, bounds, ghosts
<1>1. CASE PruneTruncate
  BY <1>1 DEF PruneTruncate, TypeOK, TaskShape, PruneShape, RecordShape, RecoveryShape, BodyOf
<1>2. CASE PruneCounter
  BY <1>2 DEF PruneCounter, TypeOK, TaskShape, PruneShape, RecordShape, RecoveryShape, BodyOf
<1>3. CASE PruneOps
  BY <1>3 DEF PruneOps, TypeOK, TaskShape, PruneShape, RecordShape, RecoveryShape, BodyOf
<1>4. CASE PruneReqs
  BY <1>4 DEF PruneReqs, TypeOK, TaskShape, PruneShape, RecordShape, RecoveryShape, BodyOf
<1> QED  BY <1>1, <1>2, <1>3, <1>4

(* A change of the workspace from outside keeps the types.                  *)
LEMMA TypeExternal ==
    ASSUME TypeInv, NEW p \in Paths, NEW v \in State \cup {Unresolvable}, External(p, v)
    PROVE TypeInv'
<1> USE DEF TypeInv, disk, tables, ghosts, External
<1>1. TypeOK'
  BY DEF TypeOK
<1>2. TaskShape' /\ PruneShape' /\ RecordShape' /\ RecoveryShape'
  BY DEF TaskShape, PruneShape, RecordShape, RecoveryShape, BodyOf
<1> QED  BY <1>1, <1>2

(* Stutter keeps the types.                                                 *)
LEMMA TypeStutter ==
    ASSUME TypeInv, UNCHANGED vars PROVE TypeInv'
<1> USE DEF TypeInv, vars, disk, tables, bounds, ghosts
<1>1. TypeOK'
  BY DEF TypeOK
<1>2. TaskShape' /\ PruneShape' /\ RecordShape' /\ RecoveryShape'
  BY DEF TaskShape, PruneShape, RecordShape, RecoveryShape, BodyOf
<1> QED  BY <1>1, <1>2

(* The first start is well typed.                                           *)
LEMMA TypeInit == Init => TypeInv
<1> SUFFICES ASSUME Init PROVE TypeInv
  OBVIOUS
<1> USE DEF Init
<1>1. /\ ops \in [OpIds -> Records] /\ reqs \in [Rids -> Entries]
      /\ task \in [Tasks -> TaskStates] /\ mops \in [OpIds -> Records]
      /\ mreqs \in [Rids -> Entries]
  BY RecordTypes, EntryTypes, TaskTypes
<1>2. /\ recov \in [rid : Rids \cup {NoRid}, ans : Answers]
      /\ blobs \in [OpIds -> State] /\ slot \in [OpIds -> Nat] /\ runs \in [Rids -> Nat]
  BY AnswerTypes DEF NoRecov, State
<1>3. file \in [Paths -> State \cup {Unresolvable}] /\ body \in [Rids -> Bodies]
  BY WorkloadAssumption, FilesAssumption DEF WorkloadAssumption, FilesAssumption
<1>4. TypeOK
  BY <1>1, <1>2, <1>3, MaxOpsAssumption DEF MaxOpsAssumption, TypeOK, NoPrune
<1>5. TaskShape /\ PruneShape /\ RecoveryShape
  BY DEF TaskShape, IdleTask, FsSteps, PruneShape, NoPrune, RecoveryShape
<1>6. RecordShape
  <2>1. \A i \in OpIds : ops[i].st = "none" /\ mops[i].st = "none"
    BY DEF NoRec
  <2> QED  BY <2>1 DEF RecordShape
<1> QED  BY <1>4, <1>5, <1>6 DEF TypeInv

(* Every step of the server preserves the types and the shapes.             *)
LEMMA TypeStep == TypeInv /\ [Next]_vars => TypeInv'
<1> SUFFICES ASSUME TypeInv, [Next]_vars PROVE TypeInv'
  OBVIOUS
<1>1. ASSUME NEW t \in Tasks, TaskStep(t) PROVE TypeInv'
  BY <1>1, TypeClaimAppend, TypeClaimFail, TypeClaimLost, TypeClaimWon, TypeRememberAppend,
     TypeRememberFail, TypeRememberInsert, TypeReadOnly, TypeExecStart, TypeExecAppend,
     TypeExecAppendFail, TypeExecPush, TypeFsCheck, TypeFsReadReject, TypeFsBlob,
     TypeFsBlobFail, TypeFsPrepare, TypeFsPrepareFail, TypeFsInstall, TypeFsInstallRefused,
     TypeFsInstallFail, TypeFsCommit, TypeFsCommitFail, TypeGcBegin DEF TaskStep
<1>2. ASSUME NEW t \in Tasks, NEW r \in Rids, ReceiveSeen(t, r) \/ ReceiveNew(t, r)
      PROVE  TypeInv'
  BY <1>2, TypeReceiveSeen, TypeReceiveNew
<1>3. CASE PruneStep
  BY <1>3, TypePruneWrites, TypePruneBlobs, TypePruneFail DEF PruneStep
<1>4. CASE RecoverStep
  BY <1>4, TypeRecoverMarker, TypeRecoverRemember, TypeRecoverStuck, TypeRecoverDone
     DEF RecoverStep
<1>5. CASE Crash \/ Start
  BY <1>5, TypeCrash, TypeStart
<1>6. CASE StartRefused \/ Waiting \/ UNCHANGED vars
  BY <1>6, TypeStutter DEF StartRefused, Waiting
<1>7. ASSUME NEW p \in Paths, NEW v \in State \cup {Unresolvable}, External(p, v)
      PROVE  TypeInv'
  BY <1>7, TypeExternal
<1> QED  BY <1>1, <1>2, <1>3, <1>4, <1>5, <1>6, <1>7 DEF Next

(* Type correctness, for any number of requests, tasks, paths, contents,    *)
(* crashes and failures: no handler stores a value of another kind, whatever *)
(* it reads from a log, a blob or the workspace.                            *)
THEOREM TypeCorrect == Spec => []TypeOK
<1>1. TypeInv => TypeOK
  BY DEF TypeInv
<1> QED  BY <1>1, TypeInit, TypeStep, PTL DEF Spec


-----------------------------------------------------------------------------
(* The log and the owners.  The type part of each step is TypeStep.         *)

(* Steps of a task, by what they do to the state the log invariants are     *)
(* about.  A step moves its own task only.                                  *)
Moves(t) == srv = "up" /\ srv' = srv /\ \A u \in Tasks : u # t => task'[u] = task[u]

Unclaimed == {"idle", "claim", "insert"}
Logging == {"prepare", "install", "commit", "exec_append", "exec_push"}

(* Touches neither the operation log nor the workspace.                     *)
Quiet(t) ==
    /\ Moves(t)
    /\ task'[t].pc \notin Logging /\ task'[t].op \in {0, task[t].op}
    /\ task'[t].pc \in Unclaimed \/ task'[t].rid = task[t].rid
    /\ nextId' = nextId \/ nextId' = nextId + 1
    /\ UNCHANGED <<ops, counter, mops, effects, prune>>

(* Takes a fresh operation id.                                              *)
TakesId(t) ==
    /\ Moves(t)
    /\ task'[t].pc \in {"prepare", "exec_append"} /\ task'[t].op = nextId + 1
    /\ task'[t].rid = task[t].rid
    /\ nextId' = nextId + 1
    /\ UNCHANGED <<ops, counter, mops, effects, prune>>

(* Writes the record of its own operation to the log, to memory, or both.   *)
Writes(t, rec) ==
    /\ Moves(t)
    /\ task'[t].op = task[t].op /\ task'[t].rid = task[t].rid
    /\ ops' = ops \/ ops' = [ops EXCEPT ![task[t].op] = rec]
    /\ mops' = mops \/ mops' = [mops EXCEPT ![task[t].op] = rec]
    /\ UNCHANGED <<nextId, counter, effects, prune>>

(* finish() moves one task and keeps its operation and request.             *)
LEMMA FinishMoves ==
    ASSUME TypeOK, NEW t \in Tasks, NEW ans \in Answers, FinishWith(t, ans),
           srv = "up", srv' = srv
    PROVE  /\ Moves(t) /\ task'[t].pc = "remember" /\ task'[t].op = task[t].op
           /\ task'[t].rid = task[t].rid
  BY FinishTypes DEF Moves

(* Errors are answers.                                                      *)
LEMMA ErrTypes == \A code \in Codes : Err(code) \in Answers
  BY AnswerTypes

-----------------------------------------------------------------------------

(* A task that ends moves alone and lets go of its operation id.            *)
LEMMA IdleMoves ==
    ASSUME TypeInv, NEW t \in Tasks, srv = "up", srv' = srv,
           task' = [task EXCEPT ![t] = IdleTask]
    PROVE  Moves(t) /\ task'[t].pc = "idle" /\ task'[t].op = 0
<1>1. task' \in [Tasks -> TaskStates] /\ task'[t] = IdleTask
  BY TaskTypes DEF TypeInv, TypeOK
<1>2. \A u \in Tasks : u # t => task'[u] = task[u]
  BY DEF TypeInv, TypeOK
<1>3. IdleTask.pc = "idle" /\ IdleTask.op = 0
  BY DEF IdleTask
<1> QED  BY <1>1, <1>2, <1>3 DEF Moves

(* Claiming and remembering touch no record, id or file.                    *)
LEMMA QuietClaims ==
    ASSUME TypeInv, NEW t \in Tasks,
           \/ \E r \in Rids : ReceiveSeen(t, r) \/ ReceiveNew(t, r)
           \/ ClaimAppend(t) \/ ClaimFail(t) \/ ClaimLost(t) \/ ClaimWon(t)
           \/ RememberAppend(t) \/ RememberFail(t) \/ RememberInsert(t)
    PROVE  Quiet(t)
<1> USE DEF Quiet, Logging, Unclaimed, disk, tables, ghosts, At
<1>1. ASSUME NEW r \in Rids, ReceiveSeen(t, r) PROVE Quiet(t)
  BY <1>1 DEF ReceiveSeen, Moves, TypeInv, TypeOK
<1>2. ASSUME NEW r \in Rids, ReceiveNew(t, r) PROVE Quiet(t)
  <2> DEFINE new == [task[t] EXCEPT !.pc = "claim", !.rid = r]
  <2>1. task[t] \in TaskStates
    BY DEF TypeInv, TypeOK
  <2>2. new.pc = "claim" /\ new.op = task[t].op
    BY <2>1 DEF TaskStates
  <2>3. task' = [task EXCEPT ![t] = new]
    BY <1>2 DEF ReceiveNew
  <2> HIDE DEF new
  <2>4. task'[t] = new /\ Moves(t)
    BY <1>2, <2>3 DEF ReceiveNew, Moves, TypeInv, TypeOK
  <2> QED  BY <1>2, <2>2, <2>4 DEF ReceiveNew
<1>3. CASE ClaimAppend(t)
  BY <1>3 DEF ClaimAppend, Moves, TypeInv, TypeOK, TaskStates
<1>4. CASE ClaimFail(t)
  BY <1>4, IdleMoves DEF ClaimFail
<1>5. CASE ClaimLost(t)
  BY <1>5, IdleMoves DEF ClaimLost
<1>6. CASE ClaimWon(t)
  BY <1>6 DEF ClaimWon, Moves, TypeInv, TypeOK, TaskStates
<1>7. CASE RememberAppend(t)
  BY <1>7 DEF RememberAppend, Moves, TypeInv, TypeOK, TaskStates
<1>8. CASE RememberFail(t)
  BY <1>8, IdleMoves DEF RememberFail
<1>9. CASE RememberInsert(t)
  BY <1>9, IdleMoves DEF RememberInsert
<1> QED  BY <1>1, <1>2, <1>3, <1>4, <1>5, <1>6, <1>7, <1>8, <1>9

(* Rejections and read-only handlers touch no record or file.               *)
LEMMA QuietHandlers ==
    ASSUME TypeInv, NEW t \in Tasks,
           \/ ReadOnly(t) \/ FsReadReject(t) \/ FsBlobFail(t) \/ FsInstallRefused(t)
    PROVE  Quiet(t)
<1> USE DEF disk, tables, ghosts
<1>1. PICK ans \in Answers : FinishWith(t, ans)
  <2>1. CASE ReadOnly(t)
    <3>1. BodyOf(t) \in Bodies
      BY <2>1 DEF ReadOnly, At, BodyOf, TypeInv, TypeOK, TaskShape
    <3>2. CASE file[BodyOf(t).path] = Unresolvable
      BY <2>1, <3>2, ErrTypes DEF ReadOnly, Codes
    <3>3. CASE file[BodyOf(t).path] # Unresolvable /\ file[BodyOf(t).path] = Absent
      BY <2>1, <3>3, ErrTypes DEF ReadOnly, Codes
    <3>4. CASE file[BodyOf(t).path] # Unresolvable /\ file[BodyOf(t).path] # Absent
      <4>1. file[BodyOf(t).path] \in State /\ Absent \in State /\ 0 \in 0..MaxOps
        BY <3>1, <3>4, MaxOpsAssumption
           DEF MaxOpsAssumption, TypeInv, TypeOK, Bodies, State
      <4> QED  BY <2>1, <3>4, <4>1, AnswerTypes DEF ReadOnly
    <3> QED  BY <3>2, <3>3, <3>4
  <2>2. CASE FsReadReject(t)
    <3>1. SecondLookError(t, SecondLook(t)) \in Codes
      BY DEF SecondLookError, Codes
    <3> QED  BY <2>2, <3>1, ErrTypes DEF FsReadReject
  <2>3. CASE FsBlobFail(t)
    BY <2>3, ErrTypes DEF FsBlobFail, Codes
  <2>4. CASE FsInstallRefused(t)
    <3>1. InstallError(t) \in Codes
      BY DEF InstallError, Codes
    <3> QED  BY <2>4, <3>1, ErrTypes DEF FsInstallRefused
  <2> QED  BY <2>1, <2>2, <2>3, <2>4
<1>2. /\ srv = "up" /\ srv' = srv /\ UNCHANGED <<ops, counter, mops, effects, prune>>
      /\ nextId' = nextId \/ nextId' = nextId + 1
  BY DEF ReadOnly, FsReadReject, FsBlobFail, FsInstallRefused, At
<1>3. /\ Moves(t) /\ task'[t].pc = "remember" /\ task'[t].op = task[t].op
      /\ task'[t].rid = task[t].rid
  BY <1>1, <1>2, FinishMoves DEF TypeInv
<1> QED  BY <1>2, <1>3 DEF Quiet, Logging

(* The first look of a mutation touches no record, id or file.              *)
LEMMA QuietFsCheck ==
    ASSUME TypeInv, NEW t \in Tasks, FsCheck(t) PROVE Quiet(t)
<1>1. /\ srv = "up" /\ srv' = srv
      /\ UNCHANGED <<ops, counter, mops, effects, prune, nextId>>
  BY DEF FsCheck, At, disk, tables, ghosts
<1> DEFINE b == BodyOf(t)
           target == mops[b.target]
           path == IF b.kind = "undo" THEN target.path ELSE b.path
           f == IF path \in Paths THEN file[path] ELSE Absent
           error == CASE b.kind = "create" -> CreateError(f)
                      [] b.kind = "edit"   -> EditError(b, f)
                      [] b.kind = "delete" -> DeleteError(f)
                      [] OTHER             -> UndoError(target, f, blobs[b.target])
           old == IF b.kind \in {"edit", "undo"} THEN f ELSE Absent
           blob == IF b.kind = "delete" THEN f ELSE Absent
           new == CASE b.kind = "create" -> b.new
                    [] b.kind = "undo" /\ target.old # Absent -> blobs[b.target]
                    [] OTHER -> Absent
           next == [task[t] EXCEPT !.pc = "read", !.path = path, !.old = old,
                                   !.blob = blob, !.new = new]
<1>2. FinishWith(t, Err(error)) \/ task' = [task EXCEPT ![t] = next]
  BY DEF FsCheck
<1>3. error \in Codes
  BY DEF Codes, CreateError, EditError, DeleteError, UndoError
<1> HIDE DEF error, path, old, blob, new
<1>4. CASE FinishWith(t, Err(error))
  BY <1>1, <1>3, <1>4, ErrTypes, FinishMoves DEF Quiet, Logging, TypeInv
<1>5. CASE task' = [task EXCEPT ![t] = next]
  <2>1. task[t] \in TaskStates
    BY DEF TypeInv, TypeOK
  <2>2. next.pc = "read" /\ next.op = task[t].op /\ next.rid = task[t].rid
    BY <2>1 DEF TaskStates
  <2> HIDE DEF next
  <2>3. task'[t] = next /\ Moves(t)
    BY <1>1, <1>5 DEF Moves, TypeInv, TypeOK
  <2> QED  BY <1>1, <2>2, <2>3 DEF Quiet, Logging
<1> QED  BY <1>2, <1>4, <1>5

(* next_id is the only source of operation ids: a step that takes one takes the next. *)
LEMMA TakesIdSteps ==
    ASSUME TypeInv, NEW t \in Tasks,
           FsBlob(t) \/ ExecStart(t, TRUE) \/ ExecStart(t, FALSE)
    PROVE  TakesId(t)
<1>1. /\ srv = "up" /\ srv' = srv /\ nextId' = nextId + 1 /\ task[t] \in TaskStates
      /\ UNCHANGED <<ops, counter, mops, effects, prune>>
  BY DEF FsBlob, ExecStart, At, disk, tables, ghosts, TypeInv, TypeOK
<1>2. ASSUME NEW old, NEW new, NEW blob,
             task' = [task EXCEPT ![t] = [@ EXCEPT !.pc = "prepare", !.op = nextId + 1,
                                          !.old = old, !.new = new, !.blob = blob]]
      PROVE  TakesId(t)
  <2> DEFINE next == [task[t] EXCEPT !.pc = "prepare", !.op = nextId + 1,
                                     !.old = old, !.new = new, !.blob = blob]
  <2>1. next.pc = "prepare" /\ next.op = nextId + 1 /\ next.rid = task[t].rid
    BY <1>1 DEF TaskStates
  <2>2. task' = [task EXCEPT ![t] = next]
    BY <1>2
  <2> HIDE DEF next
  <2>3. task'[t] = next /\ Moves(t)
    BY <1>1, <2>2 DEF Moves, TypeInv, TypeOK
  <2> QED  BY <1>1, <2>1, <2>3 DEF TakesId
<1>3. ASSUME NEW ans,
             task' = [task EXCEPT ![t] = [@ EXCEPT !.pc = "exec_append", !.op = nextId + 1,
                                                   !.ans = ans, !.say = ans]]
      PROVE  TakesId(t)
  <2> DEFINE next == [task[t] EXCEPT !.pc = "exec_append", !.op = nextId + 1,
                                     !.ans = ans, !.say = ans]
  <2>1. next.pc = "exec_append" /\ next.op = nextId + 1 /\ next.rid = task[t].rid
    BY <1>1 DEF TaskStates
  <2>2. task' = [task EXCEPT ![t] = next]
    BY <1>3
  <2> HIDE DEF next
  <2>3. task'[t] = next /\ Moves(t)
    BY <1>1, <2>2 DEF Moves, TypeInv, TypeOK
  <2> QED  BY <1>1, <2>1, <2>3 DEF TakesId
<1>4. CASE FsBlob(t)
  BY <1>2, <1>4 DEF FsBlob
<1>5. CASE ExecStart(t, TRUE)
  BY <1>3, <1>5 DEF ExecStart
<1>6. CASE ExecStart(t, FALSE)
  BY <1>3, <1>6 DEF ExecStart
<1> QED  BY <1>4, <1>5, <1>6

(* The steps that write a record, and what they write.                      *)
LEMMA ExecWrites ==
    ASSUME TypeInv, NEW t \in Tasks, ExecAppend(t) \/ ExecAppendFail(t) \/ ExecPush(t)
    PROVE  \E rec \in Records : /\ Writes(t, rec) /\ rec.st = "exec"
                                /\ task[t].pc \in {"exec_append", "exec_push"}
                                /\ task[t].op \in OpIds
                                /\ task'[t].pc \in {"exec_push", "remember"}
<1>0. /\ task[t] \in TaskStates /\ task \in [Tasks -> TaskStates]
      /\ task[t].op \in OpIds /\ now \in Nat /\ task[t].ts \in Nat
  BY DEF TypeInv, TypeOK, TaskShape, TaskStates, ExecAppend, ExecAppendFail, ExecPush, At
<1>1. CASE ExecAppend(t)
  <2> DEFINE next == [task[t] EXCEPT !.pc = "exec_push", !.ts = now]
  <2>1. next.pc = "exec_push" /\ next.op = task[t].op /\ next.rid = task[t].rid
    BY <1>0 DEF TaskStates
  <2>2. task' = [task EXCEPT ![t] = next]
    BY <1>1 DEF ExecAppend
  <2> HIDE DEF next
  <2>3. task'[t] = next /\ Moves(t)
    BY <1>0, <1>1, <2>2 DEF Moves, ExecAppend, At
  <2>4. Writes(t, ExecRecord(t, now))
    BY <1>1, <2>1, <2>3 DEF Writes, ExecAppend, tables, ghosts
  <2> QED  BY <1>0, <1>1, <2>1, <2>3, <2>4, ExecRecordTypes DEF TypeInv, ExecAppend, At
<1>2. CASE ExecAppendFail(t)
  <2> DEFINE next == [task[t] EXCEPT !.pc = "remember", !.say = Err("IoError"),
                         !.ans = IF task[t].ans.st = "done" THEN Err("IoError") ELSE task[t].ans]
  <2>1. next.pc = "remember" /\ next.op = task[t].op /\ next.rid = task[t].rid
    BY <1>0 DEF TaskStates
  <2>2. task' = [task EXCEPT ![t] = next]
    BY <1>2 DEF ExecAppendFail
  <2> HIDE DEF next
  <2>3. task'[t] = next /\ Moves(t)
    BY <1>0, <1>2, <2>2 DEF Moves, ExecAppendFail, At
  <2>4. Writes(t, ExecRecord(t, now))
    BY <1>2, <2>1, <2>3 DEF Writes, ExecAppendFail, tables, ghosts
  <2> QED  BY <1>0, <1>2, <2>1, <2>3, <2>4, ExecRecordTypes DEF TypeInv, ExecAppendFail, At
<1>3. CASE ExecPush(t)
  <2>1. /\ task'[t].pc = "remember" /\ task'[t].op = task[t].op /\ Moves(t)
        /\ task'[t].rid = task[t].rid
    BY <1>0, <1>3 DEF Moves, ExecPush, At, TaskStates
  <2>2. Writes(t, ExecRecord(t, task[t].ts))
    BY <1>3, <2>1 DEF Writes, ExecPush, disk, ghosts
  <2> QED  BY <1>0, <1>3, <2>1, <2>2, ExecRecordTypes DEF TypeInv, ExecPush, At
<1> QED  BY <1>1, <1>2, <1>3

(* prepare and commit write the record of the task that holds the id.       *)
LEMMA FsWrites ==
    ASSUME TypeInv, NEW t \in Tasks,
           \/ FsPrepare(t) \/ FsPrepareFail(t) \/ FsCommit(t) \/ FsCommitFail(t)
    PROVE  \E rec \in Records :
              /\ Writes(t, rec) /\ rec.st \in {"prepared", "fs"} /\ task[t].op \in OpIds
              /\ rec.rid = task[t].rid /\ rec.path = task[t].path /\ rec.new = task[t].new
              /\ rec.st = "prepared" => task[t].pc = "prepare" /\ mops' = mops
              /\ rec.st = "fs" => task[t].pc = "commit"
              /\ \/ task'[t].pc = "remember"
                 \/ /\ task'[t].pc = "install" /\ rec.st = "prepared" /\ ops'[task[t].op] = rec
                    /\ task'[t].rid = task[t].rid /\ task'[t].path = task[t].path
                    /\ task'[t].new = task[t].new
<1> DEFINE marker == FsRecord(t, "prepared", now)
           final == FsRecord(t, "fs", now)
<1>0. /\ task[t] \in TaskStates /\ task \in [Tasks -> TaskStates] /\ task[t].op \in OpIds
      /\ now \in Nat /\ task[t].pc \in FsSteps /\ srv = "up" /\ srv' = srv
      /\ ops \in [OpIds -> Records]
  BY DEF TypeInv, TypeOK, TaskShape, FsSteps, FsPrepare, FsPrepareFail, FsCommit,
         FsCommitFail, At
<1>1. /\ marker \in Records /\ marker.st = "prepared" /\ marker.rid = task[t].rid
      /\ marker.path = task[t].path /\ marker.new = task[t].new
      /\ final \in Records /\ final.st = "fs" /\ final.rid = task[t].rid
      /\ final.path = task[t].path /\ final.new = task[t].new
  BY <1>0, FsRecordTypes DEF FsRecord
<1>2. Err("IoError") \in Answers
  BY AnswerTypes DEF Codes
<1>3. CASE FsPrepare(t)
  <2>1. /\ Moves(t) /\ task'[t].pc = "install" /\ task'[t].op = task[t].op
        /\ task'[t].rid = task[t].rid /\ task'[t].path = task[t].path
        /\ task'[t].new = task[t].new
    BY <1>0, <1>3 DEF FsPrepare, Moves, TaskStates
  <2>2. task[t].pc = "prepare" /\ ops' = [ops EXCEPT ![task[t].op] = marker] /\ mops' = mops
        /\ UNCHANGED <<nextId, counter, effects, prune>>
    BY <1>3 DEF FsPrepare, At, tables, ghosts
  <2> HIDE DEF marker, final
  <2>3. ops'[task[t].op] = marker
    BY <1>0, <1>1, <2>2
  <2>4. Writes(t, marker)
    BY <2>1, <2>2 DEF Writes
  <2> QED  BY <1>0, <1>1, <1>3, <2>1, <2>2, <2>3, <2>4
<1>4. CASE FsPrepareFail(t)
  <2>1. /\ Moves(t) /\ task'[t].pc = "remember" /\ task'[t].op = task[t].op
        /\ task'[t].rid = task[t].rid
    BY <1>0, <1>2, <1>4, FinishMoves DEF FsPrepareFail, TypeInv
  <2>2. /\ task[t].pc = "prepare" /\ mops' = mops
        /\ ops' = ops \/ ops' = [ops EXCEPT ![task[t].op] = marker]
        /\ UNCHANGED <<nextId, counter, effects, prune>>
    BY <1>4 DEF FsPrepareFail, At, tables, ghosts
  <2> HIDE DEF marker, final
  <2>3. Writes(t, marker)
    BY <2>1, <2>2 DEF Writes
  <2> QED  BY <1>0, <1>1, <1>4, <2>1, <2>2, <2>3
<1>5. CASE FsCommit(t)
  <2>1. FsAnswer(t) \in Answers
    <3>1. BodyOf(t) \in Bodies
      BY <1>0 DEF TypeInv, TypeOK, TaskShape, BodyOf, FsSteps
    <3>2. mops[BodyOf(t).target].old \in State
      BY <3>1 DEF TypeInv, TypeOK, Bodies, Records
    <3>3. task[t].op \in 0..MaxOps /\ task[t].old \in State /\ task[t].new \in State
      BY <1>0 DEF TaskStates
    <3> QED  BY <3>2, <3>3, AnswerTypes DEF FsAnswer
  <2>2. /\ Moves(t) /\ task'[t].pc = "remember" /\ task'[t].op = task[t].op
        /\ task'[t].rid = task[t].rid
    BY <1>0, <1>5, <2>1, FinishMoves DEF FsCommit, TypeInv
  <2>3. /\ task[t].pc = "commit" /\ mops' = [mops EXCEPT ![task[t].op] = final]
        /\ ops' = [ops EXCEPT ![task[t].op] = final]
        /\ UNCHANGED <<nextId, counter, effects, prune>>
    BY <1>5 DEF FsCommit, At, ghosts
  <2> HIDE DEF marker, final
  <2>4. Writes(t, final)
    BY <2>2, <2>3 DEF Writes
  <2> QED  BY <1>0, <1>1, <1>5, <2>2, <2>3, <2>4
<1>6. CASE FsCommitFail(t)
  <2>1. /\ Moves(t) /\ task'[t].pc = "remember" /\ task'[t].op = task[t].op
        /\ task'[t].rid = task[t].rid
    BY <1>0, <1>2, <1>6, FinishMoves DEF FsCommitFail, TypeInv
  <2>2. /\ task[t].pc = "commit" /\ mops' = mops
        /\ ops' = ops \/ ops' = [ops EXCEPT ![task[t].op] = final]
        /\ UNCHANGED <<nextId, counter, effects, prune>>
    BY <1>6 DEF FsCommitFail, At, tables, ghosts
  <2> HIDE DEF marker, final
  <2>3. Writes(t, final)
    BY <2>1, <2>2 DEF Writes
  <2> QED  BY <1>0, <1>1, <1>6, <2>1, <2>2, <2>3
<1> QED  BY <1>3, <1>4, <1>5, <1>6

-----------------------------------------------------------------------------
(* Preservation of the write-ahead invariant, class of step by class.       *)

LEMMA IdTypes ==
    ASSUME TypeInv
    PROVE  /\ nextId \in Nat
           /\ \A i \in OpIds : i \in Nat /\ i # 0
           /\ \A u \in Tasks : task[u].op \in Nat
           /\ \A e \in effects : e.op \in OpIds
<1> USE MaxOpsAssumption DEF MaxOpsAssumption, TypeInv, TypeOK
<1>1. nextId \in Nat
  OBVIOUS
<1>2. \A i \in OpIds : i \in Nat /\ i # 0
  BY DEF OpIds
<1>3. \A u \in Tasks : task[u].op \in Nat
  BY DEF TaskStates
<1>4. \A e \in effects : e.op \in OpIds
  OBVIOUS
<1> QED  BY <1>1, <1>2, <1>3, <1>4

(* A step that touches no record keeps the write-ahead invariant.           *)
LEMMA QuietWal ==
    ASSUME TypeInv, TypeInv', WalIInv, NEW t \in Tasks, Quiet(t) PROVE WalIInv'
<1> USE DEF WalIInv, Quiet, Moves
<1>1. nextId \in Nat /\ nextId <= nextId' /\ nextId' \in Nat
  BY MaxOpsAssumption DEF MaxOpsAssumption, TypeInv, TypeOK
<1>2. \A u \in Tasks : task'[u].op \in {0, task[u].op} /\ task[u].op \in Nat
  BY DEF TypeInv, TypeOK, TaskStates
<1>3. \A u \in Tasks : task'[u].pc \in Logging => task'[u] = task[u]
  OBVIOUS
<1>4. PhaseInv'
  BY DEF PhaseInv
<1>5. IdInv'
  <2>1. \A u \in Tasks : task'[u].op <= nextId'
    BY <1>1, <1>2 DEF IdInv
  <2>2. \A u, v \in Tasks : task'[u].op # 0 /\ task'[u].op = task'[v].op => u = v
    BY <1>2 DEF IdInv
  <2>3. \A i \in OpIds : mops'[i].st # "none" => i <= nextId'
    BY <1>1, MaxOpsAssumption DEF IdInv, OpIds, MaxOpsAssumption
  <2>4. \A e \in effects' : e.op <= nextId'
    BY <1>1, MaxOpsAssumption DEF IdInv, MaxOpsAssumption, TypeInv, TypeOK, OpIds
  <2> QED  BY <2>1, <2>2, <2>3, <2>4 DEF IdInv
<1>6. FreshInv'
  BY <1>3 DEF FreshInv, Logging
<1>7. WalInv'
  BY <1>3 DEF WalInv, Logging
<1>8. MemoryCovers' /\ CounterCovers' /\ LoggedEffects'
  BY DEF MemoryCovers, CounterCovers, LoggedEffects
<1> QED  BY <1>4, <1>5, <1>6, <1>7, <1>8

(* A fresh id is above every id in use, so it names no effect and no record. *)
LEMMA TakesIdWal ==
    ASSUME TypeInv, TypeInv', WalIInv, NEW t \in Tasks, TakesId(t) PROVE WalIInv'
<1> USE DEF WalIInv, TakesId, Moves
<1>1. /\ nextId \in Nat /\ nextId' = nextId + 1 /\ nextId + 1 # 0 /\ nextId' \in OpIds
      /\ \A u \in Tasks : task[u].op \in Nat /\ task[u].op <= nextId
      /\ \A e \in effects : e.op \in Nat /\ e.op <= nextId
  <2>1. nextId' = nextId + 1 /\ nextId' \in OpIds
    BY IdTypes, MaxOpsAssumption DEF MaxOpsAssumption, TypeInv, TypeOK, OpIds
  <2> QED  BY <2>1, IdTypes DEF IdInv
<1>2. PhaseInv'
  BY DEF PhaseInv
<1>3. IdInv'
  <2>1. \A u \in Tasks : task'[u].op <= nextId'
    BY <1>1
  <2>2. \A u, v \in Tasks : task'[u].op # 0 /\ task'[u].op = task'[v].op => u = v
    BY <1>1 DEF IdInv
  <2>3. \A i \in OpIds : mops'[i].st # "none" => i <= nextId'
    BY <1>1, MaxOpsAssumption DEF IdInv, OpIds, MaxOpsAssumption
  <2>4. \A e \in effects' : e.op <= nextId'
    BY <1>1
  <2> QED  BY <2>1, <2>2, <2>3, <2>4 DEF IdInv
<1>4. FreshInv'
  <2>1. \A e \in effects : e.op # nextId + 1
    BY <1>1
  <2>2. mops[nextId + 1].st = "none"
    BY <1>1 DEF IdInv
  <2> QED  BY <2>1, <2>2 DEF FreshInv
<1>5. WalInv'
  BY DEF WalInv
<1>6. MemoryCovers' /\ CounterCovers' /\ LoggedEffects'
  BY DEF MemoryCovers, CounterCovers, LoggedEffects
<1> QED  BY <1>2, <1>3, <1>4, <1>5, <1>6

(* A record is written over nothing that an effect relies on: either no     *)
(* effect has its id, or it agrees with the effect that has.                *)
Agrees(rec, id) ==
    \A e \in effects : e.op = id =>
        /\ rec.st \in {"prepared", "fs"}
        /\ rec.rid = e.rid /\ rec.path = e.path /\ rec.new = e.new

(* Writing one's own record keeps the invariant when it agrees with the effect made. *)
LEMMA WritesWal ==
    ASSUME TypeInv, TypeInv', WalIInv, NEW t \in Tasks, NEW rec \in Records,
           Writes(t, rec), task[t].op \in OpIds, task[t].pc \in Logging,
           rec.st # "none", Agrees(rec, task[t].op),
           \/ task'[t].pc = "remember"
           \/ task'[t].pc = "exec_push" /\ task[t].pc = "exec_append" /\ mops' = mops
           \/ /\ task'[t].pc = "install" /\ task[t].pc = "prepare" /\ mops' = mops
              /\ rec.st = "prepared" /\ ops'[task[t].op] = rec
              /\ rec.rid = task'[t].rid /\ rec.path = task'[t].path /\ rec.new = task'[t].new
    PROVE  WalIInv'
<1> USE DEF WalIInv, Writes, Moves
<1>0. /\ ops \in [OpIds -> Records] /\ mops \in [OpIds -> Records]
      /\ nextId \in Nat /\ task[t].op \in Nat /\ task[t].op # 0
      /\ \A u \in Tasks : task[u].op \in Nat
      /\ \A e \in effects : e.op \in OpIds
  BY IdTypes DEF TypeInv, TypeOK
<1>1. \A u \in Tasks : task'[u].op = task[u].op
  OBVIOUS
<1>2. \A i \in OpIds : i # task[t].op => ops'[i] = ops[i] /\ mops'[i] = mops[i]
  BY <1>0
<1>3. /\ ops'[task[t].op] \in {ops[task[t].op], rec}
      /\ mops'[task[t].op] \in {mops[task[t].op], rec}
  BY <1>0
<1>4. \A u \in Tasks : u # t /\ task[u].op # 0 => task[u].op # task[t].op
  BY <1>0 DEF IdInv
<1>5. \A u \in Tasks : task[u].pc \in Logging => task[u].op \in OpIds
  BY DEF TypeInv, TaskShape, Logging
<1>6. \A u \in Tasks : u # t /\ task[u].pc \in Logging =>
          /\ ops'[task[u].op] = ops[task[u].op] /\ mops'[task[u].op] = mops[task[u].op]
  BY <1>0, <1>2, <1>4, <1>5, MaxOpsAssumption DEF MaxOpsAssumption, OpIds
<1>7. PhaseInv'
  BY DEF PhaseInv
<1>8. IdInv'
  <2>1. \A i \in OpIds : mops'[i].st # "none" => i <= nextId'
    BY <1>2, <1>3 DEF IdInv
  <2>2. /\ \A u \in Tasks : task'[u].op <= nextId'
        /\ \A u, v \in Tasks : task'[u].op # 0 /\ task'[u].op = task'[v].op => u = v
        /\ \A e \in effects' : e.op <= nextId'
    BY <1>1 DEF IdInv
  <2> QED  BY <2>1, <2>2 DEF IdInv
<1>9. FreshInv'
  <2>1. ASSUME NEW u \in Tasks, u # t
        PROVE  /\ task'[u].pc \in {"prepare", "exec_append", "exec_push"} =>
                      \A e \in effects' : e.op # task'[u].op
               /\ task'[u].pc \in {"prepare", "install", "commit"} =>
                      mops'[task'[u].op].st = "none"
    BY <1>6, <2>1 DEF FreshInv, Logging
  <2>2. /\ task'[t].pc \in {"prepare", "exec_append", "exec_push"} =>
               \A e \in effects' : e.op # task'[t].op
        /\ task'[t].pc \in {"prepare", "install", "commit"} => mops'[task'[t].op].st = "none"
    BY DEF FreshInv
  <2> QED  BY <2>1, <2>2 DEF FreshInv
<1>10. WalInv'
  <2>1. ASSUME NEW u \in Tasks, u # t, task'[u].pc \in {"install", "commit"}
        PROVE  /\ ops'[task'[u].op].st = "prepared" /\ ops'[task'[u].op].rid = task'[u].rid
               /\ ops'[task'[u].op].path = task'[u].path
               /\ ops'[task'[u].op].new = task'[u].new
    BY <1>6, <2>1 DEF WalInv, Logging
  <2>2. task'[t].pc \in {"install", "commit"} =>
           /\ ops'[task'[t].op].st = "prepared" /\ ops'[task'[t].op].rid = task'[t].rid
           /\ ops'[task'[t].op].path = task'[t].path
           /\ ops'[task'[t].op].new = task'[t].new
    OBVIOUS
  <2> QED  BY <2>1, <2>2 DEF WalInv
<1>11. MemoryCovers'
  BY <1>0, <1>2, <1>3 DEF MemoryCovers, Agrees
<1>12. CounterCovers'
  BY DEF CounterCovers
<1>13. LoggedEffects'
  BY <1>0, <1>2, <1>3 DEF LoggedEffects, Agrees
<1> QED  BY <1>7, <1>8, <1>9, <1>10, <1>11, <1>12, <1>13

(* An exec record takes an id that no effect carries.                       *)
LEMMA ExecWritesWal ==
    ASSUME TypeInv, TypeInv', WalIInv, NEW t \in Tasks,
           ExecAppend(t) \/ ExecAppendFail(t) \/ ExecPush(t)
    PROVE  WalIInv'
<1>1. PICK rec \in Records : /\ Writes(t, rec) /\ rec.st = "exec" /\ task[t].op \in OpIds
                             /\ task[t].pc \in {"exec_append", "exec_push"}
                             /\ task'[t].pc \in {"exec_push", "remember"}
  BY ExecWrites
<1>2. Agrees(rec, task[t].op)
  BY <1>1 DEF WalIInv, FreshInv, Agrees
<1>3. task'[t].pc = "exec_push" => task[t].pc = "exec_append" /\ mops' = mops
  <2>1. CASE ExecAppend(t)
    BY <2>1 DEF ExecAppend, At, tables
  <2>2. CASE ExecAppendFail(t) \/ ExecPush(t)
    <3>1. task'[t].pc = "remember"
      <4>1. task \in [Tasks -> TaskStates] /\ task[t] \in TaskStates
        BY DEF TypeInv, TypeOK
      <4>2. CASE ExecPush(t)
        BY <4>1, <4>2 DEF ExecPush, TaskStates
      <4>3. CASE ExecAppendFail(t)
        <5> DEFINE next == [task[t] EXCEPT !.pc = "remember", !.say = Err("IoError"),
                               !.ans = IF task[t].ans.st = "done" THEN Err("IoError")
                                       ELSE task[t].ans]
        <5>1. next.pc = "remember"
          BY <4>1 DEF TaskStates
        <5>2. task' = [task EXCEPT ![t] = next]
          BY <4>3 DEF ExecAppendFail
        <5> HIDE DEF next
        <5> QED  BY <4>1, <5>1, <5>2
      <4> QED  BY <2>2, <4>2, <4>3
    <3> QED  BY <3>1
  <2> QED  BY <2>1, <2>2
<1> QED  BY <1>1, <1>2, <1>3, WritesWal DEF Logging

(* The commit record has the fields of the marker it supersedes.            *)
LEMMA FsWritesWal ==
    ASSUME TypeInv, TypeInv', WalIInv, NEW t \in Tasks,
           \/ FsPrepare(t) \/ FsPrepareFail(t) \/ FsCommit(t) \/ FsCommitFail(t)
    PROVE  WalIInv'
<1>1. PICK rec \in Records :
              /\ Writes(t, rec) /\ rec.st \in {"prepared", "fs"} /\ task[t].op \in OpIds
              /\ rec.rid = task[t].rid /\ rec.path = task[t].path /\ rec.new = task[t].new
              /\ rec.st = "prepared" => task[t].pc = "prepare" /\ mops' = mops
              /\ rec.st = "fs" => task[t].pc = "commit"
              /\ \/ task'[t].pc = "remember"
                 \/ /\ task'[t].pc = "install" /\ rec.st = "prepared" /\ ops'[task[t].op] = rec
                    /\ task'[t].rid = task[t].rid /\ task'[t].path = task[t].path
                    /\ task'[t].new = task[t].new
  BY FsWrites
<1>2. Agrees(rec, task[t].op)
  <2>1. CASE rec.st = "prepared"
    BY <1>1, <2>1 DEF WalIInv, FreshInv, Agrees
  <2>2. CASE rec.st = "fs"
    BY <1>1, <2>2 DEF WalIInv, WalInv, LoggedEffects, Agrees
  <2> QED  BY <1>1, <2>1, <2>2
<1> QED  BY <1>1, <1>2, WritesWal DEF Logging

(* The workspace is touched under the guard, with the marker in the log.    *)
LEMMA InstallWal ==
    ASSUME TypeInv, TypeInv', WalIInv, NEW t \in Tasks, task[t].pc = "install", Moves(t),
           task'[t].op = task[t].op, task'[t].pc \in {"commit", "remember"},
           task'[t].rid = task[t].rid,
           task'[t].pc = "commit" => task'[t].path = task[t].path /\ task'[t].new = task[t].new,
           Install(t) \/ effects' = effects,
           UNCHANGED <<ops, counter, mops, nextId, prune>>
    PROVE  WalIInv'
<1> USE DEF WalIInv, Moves
<1> DEFINE own == [rid |-> task[t].rid, op |-> task[t].op, path |-> task[t].path,
                   old |-> file[task[t].path], new |-> task[t].new]
<1>0. task[t].op \in OpIds /\ guard = t /\ task[t].op # 0
  BY IdTypes DEF TypeInv, TaskShape, FsSteps
<1>1. \A e \in effects' : e \in effects \/ e = own
  BY DEF Install
<1>2. own.rid = task[t].rid /\ own.op = task[t].op /\ own.path = task[t].path
      /\ own.new = task[t].new
  OBVIOUS
<1> HIDE DEF own
<1>3. \A u \in Tasks : task'[u].op = task[u].op
  OBVIOUS
<1>4. PhaseInv'
  BY DEF PhaseInv
<1>5. IdInv'
  <2>1. \A e \in effects' : e.op <= nextId'
    BY <1>1, <1>2 DEF IdInv
  <2>2. /\ \A u \in Tasks : task'[u].op <= nextId'
        /\ \A u, v \in Tasks : task'[u].op # 0 /\ task'[u].op = task'[v].op => u = v
        /\ \A i \in OpIds : mops'[i].st # "none" => i <= nextId'
    BY <1>3 DEF IdInv
  <2> QED  BY <2>1, <2>2 DEF IdInv
<1>6. FreshInv'
  <2>1. ASSUME NEW u \in Tasks, task'[u].pc \in {"prepare", "exec_append", "exec_push"}
        PROVE  \A e \in effects' : e.op # task'[u].op
    <3>1. u # t /\ task'[u] = task[u]
      BY <2>1
    <3>2. task[u].op # task[t].op
      BY <1>0, <3>1 DEF IdInv
    <3> QED  BY <1>1, <1>2, <2>1, <3>1, <3>2 DEF FreshInv
  <2>2. ASSUME NEW u \in Tasks, task'[u].pc \in {"prepare", "install", "commit"}
        PROVE  mops'[task'[u].op].st = "none"
    <3>1. CASE u = t
      BY <3>1 DEF FreshInv
    <3>2. CASE u # t
      BY <2>2, <3>2 DEF FreshInv
    <3> QED  BY <3>1, <3>2
  <2> QED  BY <2>1, <2>2 DEF FreshInv
<1>7. WalInv'
  <2>1. ASSUME NEW u \in Tasks, task'[u].pc \in {"install", "commit"}
        PROVE  /\ ops'[task'[u].op].st = "prepared" /\ ops'[task'[u].op].rid = task'[u].rid
               /\ ops'[task'[u].op].path = task'[u].path
               /\ ops'[task'[u].op].new = task'[u].new
    <3>1. CASE u = t
      BY <2>1, <3>1 DEF WalInv
    <3>2. CASE u # t
      BY <2>1, <3>2 DEF WalInv
    <3> QED  BY <3>1, <3>2
  <2> QED  BY <2>1 DEF WalInv
<1>8. MemoryCovers'
  BY <1>1, <1>2 DEF MemoryCovers, FreshInv
<1>9. prune.stage = "idle"
  BY <1>0 DEF PhaseInv, TypeInv, PruneShape
<1>10. CounterCovers'
  BY <1>9 DEF CounterCovers
<1>11. LoggedEffects'
  BY <1>1, <1>2 DEF LoggedEffects, WalInv
<1> QED  BY <1>4, <1>5, <1>6, <1>7, <1>8, <1>10, <1>11

(* rename, link and remove, succeeding or failing late, keep the invariant. *)
LEMMA InstallStepsWal ==
    ASSUME TypeInv, TypeInv', WalIInv, NEW t \in Tasks, FsInstall(t) \/ FsInstallFail(t)
    PROVE  WalIInv'
<1>1. /\ task[t].pc = "install" /\ srv = "up" /\ srv' = srv
      /\ UNCHANGED <<ops, counter, mops, nextId, prune>>
      /\ Install(t) \/ effects' = effects
  BY DEF FsInstall, FsInstallFail, At, disk, tables
<1>2. CASE FsInstall(t)
  <2>1. task \in [Tasks -> TaskStates] /\ task' = [task EXCEPT ![t].pc = "commit"]
    BY <1>2 DEF FsInstall, TypeInv, TypeOK
  <2>2. /\ Moves(t) /\ task'[t].pc = "commit" /\ task'[t].op = task[t].op
        /\ task'[t].rid = task[t].rid /\ task'[t].path = task[t].path
        /\ task'[t].new = task[t].new
    BY <1>1, <2>1 DEF Moves, TaskStates
  <2> QED  BY <1>1, <2>2, InstallWal
<1>3. CASE FsInstallFail(t)
  <2>1. Err("IoError") \in Answers
    BY AnswerTypes DEF Codes
  <2>2. /\ Moves(t) /\ task'[t].pc = "remember" /\ task'[t].op = task[t].op
        /\ task'[t].rid = task[t].rid
    BY <1>1, <1>3, <2>1, FinishMoves DEF FsInstallFail, TypeInv
  <2> QED  BY <1>1, <2>2, InstallWal
<1> QED  BY <1>2, <1>3

(* A prune holds the guard, or runs before the first task.                  *)
LEMMA PruneAlone ==
    ASSUME TypeInv, PhaseInv, prune.stage # "idle"
    PROVE  /\ srv # "down"
           /\ \A t \in Tasks : task[t].pc \notin FsSteps
<1>1. CASE prune.by = NoTask
  BY <1>1 DEF PhaseInv, IdleTask, FsSteps
<1>2. CASE prune.by # NoTask
  BY <1>2 DEF PhaseInv, TypeInv, PruneShape, TaskShape, FsSteps
<1> QED  BY <1>1, <1>2

(* Steps that leave the tasks and the workspace alone and only forget       *)
(* records that are in memory.                                              *)
LEMMA TrimWal ==
    ASSUME TypeInv, WalIInv, UNCHANGED <<ops, counter, effects, nextId, srv, task>>,
           \A i \in OpIds : mops'[i] \in {mops[i], NoRec},
           PhaseInv', prune'.stage # "ops"
    PROVE  WalIInv'
<1> USE DEF WalIInv
<1>1. NoRec.st = "none"
  BY DEF NoRec
<1>2. \A e \in effects : e.op \in OpIds
  BY IdTypes
<1>3. IdInv'
  BY <1>1 DEF IdInv
<1>4. FreshInv'
  <2>1. \A t \in Tasks : task[t].pc \in {"prepare", "install", "commit"} => task[t].op \in OpIds
    BY DEF TypeInv, TaskShape
  <2> QED  BY <1>1, <2>1 DEF FreshInv
<1>5. WalInv' /\ LoggedEffects' /\ CounterCovers'
  BY DEF WalInv, LoggedEffects, CounterCovers
<1>6. MemoryCovers'
  BY <1>1, <1>2 DEF MemoryCovers
<1> QED  BY <1>3, <1>4, <1>5, <1>6

(* A gc only forgets records in memory, and only when no mutation is under way. *)
LEMMA GcBeginWal ==
    ASSUME TypeInv, TypeInv', WalIInv, NEW t \in Tasks, GcBegin(t) PROVE WalIInv'
<1> DEFINE keep == IF BodyOf(t).keep # NoLimit THEN BodyOf(t).keep ELSE HistoryLimit
<1>1. /\ srv = "up" /\ srv' = srv
      /\ UNCHANGED <<ops, counter, nextId, effects>>
      /\ \/ FinishWith(t, Err("InvalidRequest")) /\ UNCHANGED <<mops, mreqs, prune, guard>>
         \/ PruneTrim(keep, t) /\ UNCHANGED task
  BY DEF GcBegin, At, disk, ghosts
<1>2. CASE FinishWith(t, Err("InvalidRequest")) /\ UNCHANGED <<mops, mreqs, prune, guard>>
  <2>1. Err("InvalidRequest") \in Answers
    BY AnswerTypes DEF Codes
  <2>2. /\ Moves(t) /\ task'[t].pc = "remember" /\ task'[t].op = task[t].op
        /\ task'[t].rid = task[t].rid
    BY <1>1, <1>2, <2>1, FinishMoves DEF TypeInv
  <2> QED  BY <1>1, <1>2, <2>2, QuietWal DEF Quiet, Logging
<1>3. CASE PruneTrim(keep, t) /\ UNCHANGED task
  <2>1. \A i \in OpIds : mops'[i] \in {mops[i], NoRec}
    BY <1>3, TrimTypes DEF PruneTrim, TypeInv, TypeOK
  <2>2. prune'.stage = "truncate" /\ prune'.by = t
    BY <1>3 DEF PruneTrim
  <2>3. PhaseInv'
    BY <1>1, <1>3, <2>2, SentinelAssumption DEF SentinelAssumption, PhaseInv
  <2> QED  BY <1>1, <1>3, <2>1, <2>2, <2>3, TrimWal
<1> QED  BY <1>1, <1>2, <1>3

(* The startup prune begins before the first task.                          *)
LEMMA RecoverDoneWal ==
    ASSUME TypeInv, WalIInv, RecoverDone PROVE WalIInv'
<1>1. /\ srv = "recover" /\ prune.stage = "idle"
      /\ UNCHANGED <<ops, counter, nextId, effects, task>>
      /\ \/ srv' = "up" /\ UNCHANGED <<mops, mreqs, prune>>
         \/ PruneTrim(HistoryLimit, NoTask) /\ UNCHANGED srv
  BY DEF RecoverDone, Recovering, TablesFree, disk, ghosts
<1>2. CASE srv' = "up" /\ UNCHANGED <<mops, mreqs, prune>>
  BY <1>1, <1>2 DEF WalIInv, PhaseInv, IdInv, FreshInv, WalInv, MemoryCovers, CounterCovers,
                    LoggedEffects
<1>3. CASE PruneTrim(HistoryLimit, NoTask) /\ UNCHANGED srv
  <2>1. \A i \in OpIds : mops'[i] \in {mops[i], NoRec}
    BY <1>3, TrimTypes DEF PruneTrim, TypeInv, TypeOK
  <2>2. prune'.stage = "truncate" /\ prune'.by = NoTask
    BY <1>3 DEF PruneTrim
  <2>3. PhaseInv'
    BY <1>1, <1>3, <2>2 DEF PhaseInv, WalIInv
  <2> QED  BY <1>1, <1>3, <2>1, <2>2, <2>3, TrimWal
<1> QED  BY <1>1, <1>2, <1>3

(* The counter file is written before the logs lose a record.               *)
LEMMA PruneWritesWal ==
    ASSUME TypeInv, TypeInv', WalIInv,
           \/ PruneTruncate \/ PruneCounter \/ PruneOps \/ PruneReqs
    PROVE  WalIInv'
<1> USE DEF WalIInv
<1>1. /\ prune.stage # "idle" /\ prune'.stage # "idle" /\ prune'.by = prune.by
      /\ UNCHANGED <<mops, effects, nextId, srv, task>>
  BY DEF PruneTruncate, PruneCounter, PruneOps, PruneReqs, tables, ghosts, TypeInv, TypeOK
<1>2. srv # "down" /\ \A t \in Tasks : task[t].pc \notin FsSteps
  BY <1>1, PruneAlone
<1>3. PhaseInv' /\ IdInv' /\ FreshInv' /\ MemoryCovers'
  BY <1>1 DEF PhaseInv, IdInv, FreshInv, MemoryCovers
<1>4. WalInv'
  BY <1>1, <1>2 DEF WalInv, FsSteps
<1>5. CASE PruneTruncate
  <2>1. ops' = ops /\ counter' = Corrupt /\ prune'.stage = "counter"
    BY <1>5 DEF PruneTruncate, TypeInv, TypeOK
  <2> QED  BY <1>1, <1>3, <1>4, <2>1 DEF CounterCovers, LoggedEffects
<1>6. CASE PruneCounter
  <2>1. ops' = ops /\ counter' = nextId /\ nextId \in Nat /\ Corrupt \notin Nat
    BY <1>6, IdTypes DEF PruneCounter, Corrupt
  <2>2. \A e \in effects : e.op <= nextId
    BY <1>2 DEF IdInv
  <2>3. LoggedEffects'
    BY <1>1, <2>1, <2>2 DEF LoggedEffects
  <2>4. CounterCovers'
    BY <1>1, <2>1, <2>2 DEF CounterCovers
  <2> QED  BY <1>3, <1>4, <2>3, <2>4
<1>7. CASE PruneOps
  <2>1. ops' = mops /\ counter' = counter /\ prune.stage = "ops" /\ prune'.stage = "reqs"
    BY <1>7 DEF PruneOps, TypeInv, TypeOK
  <2>2. LoggedEffects'
    BY <1>1, <2>1 DEF LoggedEffects, MemoryCovers, CounterCovers
  <2> QED  BY <1>3, <1>4, <2>1, <2>2 DEF CounterCovers
<1>8. CASE PruneReqs
  <2>1. ops' = ops /\ counter' = counter /\ prune'.stage = "blobs"
    BY <1>8 DEF PruneReqs, TypeInv, TypeOK
  <2> QED  BY <1>1, <1>3, <1>4, <2>1 DEF CounterCovers, LoggedEffects
<1> QED  BY <1>5, <1>6, <1>7, <1>8

(* A prune that ends, or fails half way, leaves the effects covered.        *)
LEMMA PruneEndsWal ==
    ASSUME TypeInv, TypeInv', WalIInv, PruneBlobs \/ PruneFail PROVE WalIInv'
<1>1. /\ prune.stage # "idle" /\ prune' = NoPrune
      /\ UNCHANGED <<ops, counter, mops, effects, nextId>>
  BY DEF PruneBlobs, PruneFail, disk, tables, ghosts
<1>2. CASE UNCHANGED task /\ srv' = "up"
  BY <1>1, <1>2 DEF WalIInv, PhaseInv, IdInv, FreshInv, WalInv, MemoryCovers, CounterCovers,
                    LoggedEffects, NoPrune, PruneBlobs
<1>3. CASE prune.by # NoTask /\ srv' = srv /\ \E ans \in Answers : FinishWith(prune.by, ans)
  <2> DEFINE t == prune.by
  <2>1. t \in Tasks /\ srv = "up"
    BY <1>1, <1>3 DEF WalIInv, PhaseInv, TypeInv, TypeOK
  <2>2. Moves(t) /\ task'[t].pc = "remember" /\ task'[t].op = task[t].op
    BY <1>3, <2>1, FinishMoves DEF TypeInv
  <2> HIDE DEF t
  <2> USE DEF WalIInv, Moves
  <2>3. \A u \in Tasks : task'[u].op = task[u].op
    BY <2>2
  <2>4. PhaseInv' /\ CounterCovers'
    BY <1>1, <1>3, <2>1 DEF PhaseInv, CounterCovers, NoPrune
  <2>5. IdInv'
    BY <1>1, <1>3, <2>3 DEF IdInv
  <2>6. FreshInv' /\ WalInv'
    BY <1>1, <2>2 DEF FreshInv, WalInv
  <2>7. MemoryCovers' /\ LoggedEffects'
    BY <1>1 DEF MemoryCovers, LoggedEffects
  <2> QED  BY <2>4, <2>5, <2>6, <2>7
<1>4. CASE PruneBlobs
  <2>1. Done(0, Absent, Absent) \in Answers
    BY AnswerTypes, MaxOpsAssumption DEF MaxOpsAssumption, State
  <2> QED  BY <1>2, <1>3, <1>4, <2>1 DEF PruneBlobs
<1>5. CASE PruneFail
  <2>1. Err("IoError") \in Answers
    BY AnswerTypes DEF Codes
  <2> QED  BY <1>3, <1>5, <2>1 DEF PruneFail
<1> QED  BY <1>4, <1>5

(* A death forgets memory only; the log still covers every effect.          *)
LEMMA CrashWal ==
    ASSUME TypeInv, WalIInv, Crash PROVE WalIInv'
<1> USE DEF WalIInv
<1>1. /\ srv' = "down" /\ prune'.stage = "idle" /\ nextId' = 0
      /\ UNCHANGED <<ops, counter, effects>>
      /\ \A i \in OpIds : mops'[i].st = "none"
      /\ \A t \in Tasks : task'[t] = IdleTask
  BY DEF Crash, NoPrune, NoRec, disk, ghosts
<1>2. IdleTask.pc = "idle" /\ IdleTask.op = 0
  BY DEF IdleTask
<1>3. PhaseInv' /\ IdInv' /\ FreshInv' /\ WalInv'
  BY <1>1, <1>2 DEF PhaseInv, IdInv, FreshInv, WalInv
<1>4. MemoryCovers'
  BY <1>1, IdTypes DEF MemoryCovers
<1>5. CounterCovers' /\ LoggedEffects'
  BY <1>1 DEF CounterCovers, LoggedEffects
<1> QED  BY <1>3, <1>4, <1>5

(* The restarted server allocates above every id an effect carries.         *)
LEMMA StartWal ==
    ASSUME TypeInv, TypeInv', WalIInv, Start PROVE WalIInv'
<1> USE DEF WalIInv
<1>1. /\ srv = "down" /\ srv' = "recover" /\ mops' = ops /\ counter # Corrupt
      /\ UNCHANGED <<ops, counter, effects, prune, task>>
      /\ IsHighWater(nextId', counter, ops)
  BY DEF Start, disk, ghosts
<1>2. \A t \in Tasks : task[t] = IdleTask
  BY <1>1 DEF PhaseInv
<1>3. IdleTask.pc = "idle" /\ IdleTask.op = 0
  BY DEF IdleTask
<1>4. /\ counter \in Nat /\ nextId' \in Nat /\ counter <= nextId'
      /\ \A i \in OpIds : ops[i].st # "none" => i <= nextId'
  BY <1>1, MaxOpsAssumption
     DEF MaxOpsAssumption, IsHighWater, Live, TypeInv, TypeOK
<1>5. \A e \in effects : e.op <= nextId'
  <2>1. \A e \in effects : e.op \in OpIds /\ e.op \in Nat
    BY IdTypes
  <2>2. ASSUME NEW e \in effects PROVE e.op <= nextId'
    <3>1. CASE ops[e.op].st = "none"
      <4>1. e.op <= counter
        BY <1>1, <3>1 DEF LoggedEffects
      <4> QED  BY <1>4, <2>1, <4>1
    <3>2. CASE ops[e.op].st # "none"
      BY <1>4, <2>1, <3>2
    <3> QED  BY <3>1, <3>2
  <2> QED  BY <2>2
<1>6. PhaseInv'
  <2>1. prune.stage = "idle"
    BY <1>1 DEF PhaseInv
  <2> QED  BY <1>1, <1>2, <2>1 DEF PhaseInv
<1>7. IdInv' /\ FreshInv' /\ WalInv'
  BY <1>1, <1>2, <1>3, <1>4, <1>5 DEF IdInv, FreshInv, WalInv
<1>8. MemoryCovers' /\ CounterCovers' /\ LoggedEffects'
  BY <1>1 DEF MemoryCovers, CounterCovers, LoggedEffects
<1> QED  BY <1>6, <1>7, <1>8

(* Recovery replaces a marker by a record with the marker's own fields.     *)
LEMMA RecoverMarkerWal ==
    ASSUME TypeInv, WalIInv, NEW i \in OpIds, RecoverMarker(i) PROVE WalIInv'
<1> USE DEF WalIInv
<1> DEFINE p == mops[i]
           committed == [p EXCEPT !.st = "fs", !.ts = now]
<1>1. /\ p \in Records /\ p.st = "prepared" /\ srv = "recover" /\ prune.stage = "idle"
      /\ ops \in [OpIds -> Records] /\ mops \in [OpIds -> Records]
      /\ UNCHANGED <<counter, nextId, effects, prune, srv, task>>
      /\ \/ ops' = [ops EXCEPT ![i] = committed] /\ mops' = [mops EXCEPT ![i] = committed]
         \/ ops' = [ops EXCEPT ![i] = Aborted(now)] /\ mops' = [mops EXCEPT ![i] = NoRec]
  BY DEF RecoverMarker, Pending, Recovering, TablesFree, TypeInv, TypeOK, ghosts
<1>2. /\ committed.st = "fs" /\ committed.rid = p.rid /\ committed.path = p.path
      /\ committed.new = p.new
  BY <1>1 DEF Records
<1>3. NoRec.st = "none" /\ Aborted(now).st = "aborted"
  BY DEF NoRec, Aborted
<1> HIDE DEF committed
<1>4. /\ \A j \in OpIds : j # i => ops'[j] = ops[j] /\ mops'[j] = mops[j]
      /\ \/ ops'[i] = committed /\ mops'[i] = committed
         \/ ops'[i].st = "aborted" /\ mops'[i].st = "none"
  BY <1>1, <1>3
<1>5. \A t \in Tasks : task[t] = IdleTask
  BY <1>1 DEF PhaseInv
<1>6. IdleTask.pc = "idle"
  BY DEF IdleTask
<1>7. PhaseInv' /\ FreshInv' /\ WalInv' /\ CounterCovers'
  BY <1>1, <1>5, <1>6 DEF PhaseInv, FreshInv, WalInv, CounterCovers
<1>8. IdInv'
  BY <1>1, <1>4 DEF IdInv
<1>9. \A e \in effects : e.op = i => e.rid = p.rid /\ e.path = p.path /\ e.new = p.new
  BY <1>1 DEF MemoryCovers
<1>10. MemoryCovers'
  BY <1>1, <1>2, <1>4, <1>9, IdTypes DEF MemoryCovers
<1>11. LoggedEffects'
  BY <1>1, <1>2, <1>4, <1>9, IdTypes DEF LoggedEffects
<1> QED  BY <1>7, <1>8, <1>10, <1>11

(* Steps on the request tables leave the write-ahead invariant alone.       *)
LEMMA OtherWal ==
    ASSUME TypeInv, WalIInv,
           UNCHANGED <<ops, counter, mops, effects, nextId, prune, srv, task>>
    PROVE  WalIInv'
  BY DEF WalIInv, PhaseInv, IdInv, FreshInv, WalInv, MemoryCovers, CounterCovers, LoggedEffects

(* Nothing has happened at the first start.                                 *)
LEMMA WalInit == Init => WalIInv
<1> SUFFICES ASSUME Init PROVE WalIInv
  OBVIOUS
<1>1. IdleTask.pc = "idle" /\ IdleTask.op = 0 /\ NoRec.st = "none" /\ NoPrune.stage = "idle"
  BY DEF IdleTask, NoRec, NoPrune
<1> QED  BY <1>1 DEF Init, WalIInv, PhaseInv, IdInv, FreshInv, WalInv, MemoryCovers,
                     CounterCovers, LoggedEffects

(* Every step preserves the write-ahead invariant.                          *)
LEMMA WalStep == TypeInv /\ TypeInv' /\ WalIInv /\ [Next]_vars => WalIInv'
<1> SUFFICES ASSUME TypeInv, TypeInv', WalIInv, [Next]_vars PROVE WalIInv'
  OBVIOUS
<1>1. ASSUME NEW t \in Tasks, TaskStep(t) PROVE WalIInv'
  <2>1. CASE \/ ClaimAppend(t) \/ ClaimFail(t) \/ ClaimLost(t) \/ ClaimWon(t)
             \/ RememberAppend(t) \/ RememberFail(t) \/ RememberInsert(t)
    BY <2>1, QuietClaims, QuietWal
  <2>2. CASE ReadOnly(t) \/ FsReadReject(t) \/ FsBlobFail(t) \/ FsInstallRefused(t)
    BY <2>2, QuietHandlers, QuietWal
  <2>3. CASE FsCheck(t)
    BY <2>3, QuietFsCheck, QuietWal
  <2>4. CASE FsBlob(t) \/ ExecStart(t, TRUE) \/ ExecStart(t, FALSE)
    BY <2>4, TakesIdSteps, TakesIdWal
  <2>5. CASE ExecAppend(t) \/ ExecAppendFail(t) \/ ExecPush(t)
    BY <2>5, ExecWritesWal
  <2>6. CASE FsPrepare(t) \/ FsPrepareFail(t) \/ FsCommit(t) \/ FsCommitFail(t)
    BY <2>6, FsWritesWal
  <2>7. CASE FsInstall(t) \/ FsInstallFail(t)
    BY <2>7, InstallStepsWal
  <2>8. CASE GcBegin(t)
    BY <2>8, GcBeginWal
  <2> QED  BY <1>1, <2>1, <2>2, <2>3, <2>4, <2>5, <2>6, <2>7, <2>8 DEF TaskStep
<1>2. ASSUME NEW t \in Tasks, NEW r \in Rids, ReceiveSeen(t, r) \/ ReceiveNew(t, r)
      PROVE  WalIInv'
  BY <1>2, QuietClaims, QuietWal
<1>3. CASE PruneStep
  BY <1>3, PruneWritesWal, PruneEndsWal DEF PruneStep
<1>4. CASE RecoverStep
  <2>1. ASSUME NEW i \in OpIds, RecoverMarker(i) PROVE WalIInv'
    BY <2>1, RecoverMarkerWal
  <2>2. CASE RecoverRemember
    BY <2>2, OtherWal DEF RecoverRemember, ghosts
  <2>3. ASSUME NEW r \in Rids, RecoverStuck(r) PROVE WalIInv'
    BY <2>3, OtherWal DEF RecoverStuck, ghosts
  <2>4. CASE RecoverDone
    BY <2>4, RecoverDoneWal
  <2> QED  BY <1>4, <2>1, <2>2, <2>3, <2>4 DEF RecoverStep
<1>5. CASE Crash \/ Start
  BY <1>5, CrashWal, StartWal
<1>6. CASE StartRefused \/ Waiting \/ UNCHANGED vars
  BY <1>6, OtherWal DEF StartRefused, Waiting, vars, disk, tables, ghosts
<1>7. ASSUME NEW p \in Paths, NEW v \in State \cup {Unresolvable}, External(p, v)
      PROVE  WalIInv'
  BY <1>7, OtherWal DEF External, disk, tables, ghosts
<1> QED  BY <1>1, <1>2, <1>3, <1>4, <1>5, <1>6, <1>7 DEF Next

(* The write-ahead rule holds for any number of tasks, requests, crashes,   *)
(* failing calls and outside writers: a mutation the server made stays      *)
(* covered by a record of its own operation, request, path and content, and *)
(* a record leaves the log only after the counter file bars its id.         *)
THEOREM WriteAhead == Spec => []LoggedEffects
<1>1. TypeInv /\ WalIInv /\ [Next]_vars => (TypeInv /\ WalIInv)'
  BY TypeStep, WalStep
<1>2. TypeInv /\ WalIInv => LoggedEffects
  BY DEF WalIInv
<1> QED  BY <1>1, <1>2, TypeInit, WalInit, PTL DEF Spec

-----------------------------------------------------------------------------
(* Owners.                                                                   *)

LEMMA OwnerKept ==
    ASSUME SingleOwner, NEW t \in Tasks, Moves(t), mreqs' = mreqs,
           task'[t].pc \in Unclaimed \/ (Owns(t) /\ task'[t].rid = task[t].rid)
    PROVE  SingleOwner'
<1>1. ASSUME NEW u \in Tasks, Owns(u)' PROVE Owns(u) /\ task'[u].rid = task[u].rid
  <2>1. CASE u = t
    BY <1>1, <2>1 DEF Owns, Unclaimed
  <2>2. CASE u # t
    BY <1>1, <2>2 DEF Owns, Moves
  <2> QED  BY <2>1, <2>2
<1> QED  BY <1>1 DEF SingleOwner

(* The second lookup decides: the entry an owner holds makes it fail.       *)
LEMMA OwnerClaimWon ==
    ASSUME TypeInv, SingleOwner, NEW t \in Tasks, ClaimWon(t) PROVE SingleOwner'
<1>1. /\ mreqs' = [mreqs EXCEPT ![task[t].rid] = InProgress(BodyOf(t).kind)]
      /\ mreqs[task[t].rid].status = "none"
      /\ task[t].rid \in Rids /\ mreqs \in [Rids -> Entries]
      /\ \A u \in Tasks : task'[u].rid = task[u].rid
      /\ \A u \in Tasks : u # t => task'[u] = task[u]
  BY DEF ClaimWon, At, TypeInv, TypeOK, TaskShape, TaskStates
<1>2. InProgress(BodyOf(t).kind).status = "inprogress"
  BY DEF InProgress, NoEntry
<1>3. \A u \in Tasks : u # t /\ Owns(u)' =>
         /\ Owns(u) /\ task'[u].rid # task[t].rid /\ task[u].rid \in Rids
  BY <1>1 DEF Owns, SingleOwner, TypeInv, TaskShape
<1>4. \A u \in Tasks : Owns(u)' => mreqs'[task'[u].rid].status = "inprogress"
  <2>1. ASSUME NEW u \in Tasks, Owns(u)', u # t
        PROVE  mreqs'[task'[u].rid].status = "inprogress"
    BY <1>1, <1>3, <2>1 DEF SingleOwner
  <2>2. mreqs'[task'[t].rid].status = "inprogress"
    BY <1>1, <1>2
  <2> QED  BY <2>1, <2>2
<1>5. \A u, v \in Tasks : Owns(u)' /\ Owns(v)' /\ task'[u].rid = task'[v].rid => u = v
  BY <1>1, <1>3 DEF SingleOwner
<1> QED  BY <1>4, <1>5 DEF SingleOwner

(* Storing the outcome ends the ownership.                                  *)
LEMMA OwnerRememberInsert ==
    ASSUME TypeInv, SingleOwner, NEW t \in Tasks, RememberInsert(t) PROVE SingleOwner'
<1>1. /\ mreqs' = [mreqs EXCEPT ![task[t].rid] = Terminal(task[t].ans.st, task[t].ans)]
      /\ task' = [task EXCEPT ![t] = IdleTask] /\ srv = "up" /\ srv' = srv
      /\ Owns(t) /\ mreqs \in [Rids -> Entries]
  BY DEF RememberInsert, At, Owns, TypeInv, TypeOK
<1>2. Moves(t) /\ task'[t].pc = "idle"
  BY <1>1, IdleMoves
<1>3. \A u \in Tasks : Owns(u)' =>
         u # t /\ Owns(u) /\ task'[u] = task[u] /\ task[u].rid \in Rids
  BY <1>2 DEF Owns, Moves, TypeInv, TaskShape
<1>4. \A u \in Tasks : Owns(u)' => task[u].rid # task[t].rid
  BY <1>1, <1>3 DEF SingleOwner
<1>5. \A u \in Tasks : Owns(u)' => mreqs'[task'[u].rid] = mreqs[task[u].rid]
  BY <1>1, <1>3, <1>4
<1> QED  BY <1>3, <1>5 DEF SingleOwner

(* A prune spares the requests in progress.                                 *)
LEMMA OwnerTrim ==
    ASSUME TypeInv, SingleOwner, UNCHANGED task, NEW kept,
           mreqs' = TrimRequests(mreqs, kept)
    PROVE  SingleOwner'
<1>1. \A u \in Tasks : Owns(u)' <=> Owns(u)
  BY DEF Owns
<1>2. \A u \in Tasks : Owns(u) => task[u].rid \in Rids
  BY DEF Owns, TypeInv, TaskShape
<1>3. \A u \in Tasks : Owns(u) => mreqs'[task[u].rid] = mreqs[task[u].rid]
  BY <1>2 DEF SingleOwner, TrimRequests
<1> QED  BY <1>1, <1>3 DEF SingleOwner

(* Without tasks nobody owns anything.                                      *)
LEMMA OwnerNone ==
    ASSUME \A t \in Tasks : task'[t] = IdleTask PROVE SingleOwner'
  BY DEF SingleOwner, Owns, IdleTask

(* Every step of a task preserves ownership.                                *)
LEMMA OwnerTask ==
    ASSUME TypeInv, SingleOwner, NEW t \in Tasks, TaskStep(t) PROVE SingleOwner'
<1>1. CASE ClaimAppend(t) \/ ClaimFail(t) \/ ClaimLost(t) \/ RememberAppend(t) \/ RememberFail(t)
  <2>1. Quiet(t)
    BY <1>1, QuietClaims
  <2>2. mreqs' = mreqs
    BY <1>1 DEF ClaimAppend, ClaimFail, ClaimLost, RememberAppend, RememberFail, tables
  <2>3. task'[t].pc \in Unclaimed \/ Owns(t)
    <3>1. CASE ClaimAppend(t) \/ RememberAppend(t)
      BY <3>1 DEF ClaimAppend, RememberAppend, At, Owns, Unclaimed, TypeInv, TypeOK, TaskStates
    <3>2. CASE ClaimFail(t) \/ ClaimLost(t) \/ RememberFail(t)
      <4>1. task' = [task EXCEPT ![t] = IdleTask] /\ srv = "up" /\ srv' = srv
        BY <3>2 DEF ClaimFail, ClaimLost, RememberFail, At
      <4> QED  BY <4>1, IdleMoves DEF Unclaimed
    <3> QED  BY <1>1, <3>1, <3>2
  <2>4. Moves(t) /\ (task'[t].pc \in Unclaimed \/ (Owns(t) /\ task'[t].rid = task[t].rid))
    BY <2>1, <2>3 DEF Quiet
  <2> QED  BY <2>2, <2>4, OwnerKept
<1>2. CASE \/ ReadOnly(t) \/ FsReadReject(t) \/ FsBlobFail(t) \/ FsInstallRefused(t)
           \/ FsCheck(t)
  <2>1. Quiet(t)
    BY <1>2, QuietHandlers, QuietFsCheck
  <2>2. mreqs' = mreqs /\ Owns(t)
    BY <1>2 DEF ReadOnly, FsReadReject, FsBlobFail, FsInstallRefused, FsCheck, At, Owns, tables
  <2>3. Moves(t) /\ (task'[t].pc \in Unclaimed \/ (Owns(t) /\ task'[t].rid = task[t].rid))
    BY <2>1, <2>2 DEF Quiet
  <2> QED  BY <2>2, <2>3, OwnerKept
<1>3. CASE FsBlob(t) \/ ExecStart(t, TRUE) \/ ExecStart(t, FALSE)
  <2>1. TakesId(t)
    BY <1>3, TakesIdSteps
  <2>2. mreqs' = mreqs /\ Owns(t)
    BY <1>3 DEF FsBlob, ExecStart, At, Owns, tables
  <2> QED  BY <2>1, <2>2, OwnerKept DEF TakesId
<1>4. CASE ExecAppend(t) \/ ExecAppendFail(t) \/ ExecPush(t)
  <2>1. Moves(t) /\ task'[t].rid = task[t].rid
    BY <1>4, ExecWrites DEF Writes
  <2>2. mreqs' = mreqs /\ Owns(t)
    BY <1>4 DEF ExecAppend, ExecAppendFail, ExecPush, At, Owns, tables
  <2> QED  BY <2>1, <2>2, OwnerKept
<1>5. CASE FsPrepare(t) \/ FsPrepareFail(t) \/ FsCommit(t) \/ FsCommitFail(t)
  <2>1. Moves(t) /\ task'[t].rid = task[t].rid
    BY <1>5, FsWrites DEF Writes
  <2>2. mreqs' = mreqs /\ Owns(t)
    BY <1>5 DEF FsPrepare, FsPrepareFail, FsCommit, FsCommitFail, At, Owns, tables
  <2> QED  BY <2>1, <2>2, OwnerKept
<1>6. CASE FsInstall(t) \/ FsInstallFail(t)
  <2>1. mreqs' = mreqs /\ Owns(t) /\ srv = "up" /\ srv' = srv
    BY <1>6 DEF FsInstall, FsInstallFail, At, Owns, tables
  <2>2. Moves(t) /\ task'[t].rid = task[t].rid
    <3>1. CASE FsInstall(t)
      <4>1. task \in [Tasks -> TaskStates] /\ task' = [task EXCEPT ![t].pc = "commit"]
        BY <3>1 DEF FsInstall, TypeInv, TypeOK
      <4> QED  BY <2>1, <4>1 DEF Moves, TaskStates
    <3>2. CASE FsInstallFail(t)
      <4>1. Err("IoError") \in Answers
        BY AnswerTypes DEF Codes
      <4> QED  BY <2>1, <3>2, <4>1, FinishMoves DEF FsInstallFail, TypeInv
    <3> QED  BY <1>6, <3>1, <3>2
  <2> QED  BY <2>1, <2>2, OwnerKept
<1>7. CASE GcBegin(t)
  <2> DEFINE keep == IF BodyOf(t).keep # NoLimit THEN BodyOf(t).keep ELSE HistoryLimit
  <2>1. /\ Owns(t) /\ srv = "up" /\ srv' = srv
        /\ \/ FinishWith(t, Err("InvalidRequest")) /\ mreqs' = mreqs
           \/ PruneTrim(keep, t) /\ UNCHANGED task
    BY <1>7 DEF GcBegin, At, Owns
  <2>2. CASE FinishWith(t, Err("InvalidRequest")) /\ mreqs' = mreqs
    <3>1. Err("InvalidRequest") \in Answers
      BY AnswerTypes DEF Codes
    <3> QED  BY <2>1, <2>2, <3>1, FinishMoves, OwnerKept DEF TypeInv
  <2>3. CASE PruneTrim(keep, t) /\ UNCHANGED task
    BY <2>3, OwnerTrim DEF PruneTrim
  <2> QED  BY <2>1, <2>2, <2>3
<1> QED  BY <1>1, <1>2, <1>3, <1>4, <1>5, <1>6, <1>7, OwnerClaimWon, OwnerRememberInsert
         DEF TaskStep

(* Writing the trimmed tables back preserves ownership.                     *)
LEMMA OwnerPrune ==
    ASSUME TypeInv, PhaseInv, SingleOwner, PruneStep PROVE SingleOwner'
<1>1. mreqs' = mreqs
  BY DEF PruneStep, PruneTruncate, PruneCounter, PruneOps, PruneReqs, PruneBlobs, PruneFail,
         tables
<1>2. CASE UNCHANGED task
  BY <1>1, <1>2 DEF SingleOwner, Owns
<1>3. CASE /\ prune.stage # "idle" /\ prune.by # NoTask /\ srv' = srv
           /\ \E ans \in Answers : FinishWith(prune.by, ans)
  <2>1. prune.by \in Tasks /\ srv = "up" /\ Owns(prune.by)
    BY <1>3 DEF PhaseInv, TypeInv, TypeOK, PruneShape, Owns
  <2>2. Moves(prune.by) /\ task'[prune.by].rid = task[prune.by].rid
    BY <1>3, <2>1, FinishMoves DEF TypeInv
  <2> QED  BY <1>1, <2>1, <2>2, OwnerKept
<1>4. Done(0, Absent, Absent) \in Answers /\ Err("IoError") \in Answers
  BY AnswerTypes, MaxOpsAssumption DEF MaxOpsAssumption, State, Codes
<1> QED  BY <1>2, <1>3, <1>4
         DEF PruneStep, PruneTruncate, PruneCounter, PruneOps, PruneReqs, PruneBlobs, PruneFail

(* Every step preserves ownership.                                          *)
LEMMA OwnerStep == TypeInv /\ PhaseInv /\ SingleOwner /\ [Next]_vars => SingleOwner'
<1> SUFFICES ASSUME TypeInv, PhaseInv, SingleOwner, [Next]_vars PROVE SingleOwner'
  OBVIOUS
<1>1. ASSUME NEW t \in Tasks, TaskStep(t) PROVE SingleOwner'
  BY <1>1, OwnerTask
<1>2. ASSUME NEW t \in Tasks, NEW r \in Rids, ReceiveSeen(t, r) \/ ReceiveNew(t, r)
      PROVE  SingleOwner'
  <2>1. CASE ReceiveSeen(t, r)
    BY <2>1 DEF ReceiveSeen, SingleOwner, Owns, tables
  <2>2. CASE ReceiveNew(t, r)
    <3> DEFINE new == [task[t] EXCEPT !.pc = "claim", !.rid = r]
    <3>1. task[t] \in TaskStates /\ task \in [Tasks -> TaskStates]
      BY DEF TypeInv, TypeOK
    <3>2. new.pc = "claim"
      BY <3>1 DEF TaskStates
    <3>3. task' = [task EXCEPT ![t] = new] /\ mreqs' = mreqs /\ srv = "up" /\ srv' = srv
      BY <2>2 DEF ReceiveNew, At, tables
    <3> HIDE DEF new
    <3>4. task'[t].pc \in Unclaimed /\ Moves(t)
      BY <3>1, <3>2, <3>3 DEF Unclaimed, Moves
    <3>5. task'[t].pc \in Unclaimed \/ (Owns(t) /\ task'[t].rid = task[t].rid)
      BY <3>4
    <3> QED  BY <3>3, <3>4, <3>5, OwnerKept
  <2> QED  BY <1>2, <2>1, <2>2
<1>3. CASE PruneStep
  BY <1>3, OwnerPrune
<1>4. CASE RecoverStep \/ Crash \/ Start
  <2>1. \A t \in Tasks : task'[t] = IdleTask
    BY <1>4 DEF PhaseInv, RecoverStep, RecoverMarker, RecoverRemember, RecoverStuck,
                RecoverDone, Recovering, Crash, Start
  <2> QED  BY <2>1, OwnerNone
<1>5. CASE StartRefused \/ Waiting \/ UNCHANGED vars
  BY <1>5 DEF StartRefused, Waiting, vars, tables, SingleOwner, Owns
<1>6. ASSUME NEW p \in Paths, NEW v \in State \cup {Unresolvable}, External(p, v)
      PROVE  SingleOwner'
  BY <1>6 DEF External, tables, SingleOwner, Owns
<1> QED  BY <1>1, <1>2, <1>3, <1>4, <1>5, <1>6 DEF Next

(* The first start satisfies the invariant, and every step keeps it.        *)
LEMMA InductiveInit == Init => IInv
<1>1. Init => SingleOwner
  BY DEF Init, SingleOwner, Owns, IdleTask
<1> QED  BY <1>1, TypeInit, WalInit DEF IInv

(* Each part is kept with the help of the ones before it.                   *)
LEMMA InductiveStep == IInv /\ [Next]_vars => IInv'
  BY TypeStep, WalStep, OwnerStep DEF IInv, WalIInv

(* The whole invariant: the shape of the tasks and records, the ids in use,  *)
(* the write-ahead order and the claims, kept by every step of the server.   *)
THEOREM Inductive == Spec => []IInv
  BY InductiveInit, InductiveStep, PTL DEF Spec

(* The claim is two lookups around an unlocked append, yet no interleaving  *)
(* of any number of duplicates, prunes and crashes lets two tasks own one   *)
(* request, or takes an owner's entry away.                                 *)
THEOREM OneOwner == Spec => []SingleOwner
<1>1. IInv => SingleOwner
  BY DEF IInv
<1> QED  BY <1>1, Inductive, PTL

=============================================================================
