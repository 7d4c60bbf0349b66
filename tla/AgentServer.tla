----------------------------- MODULE AgentServer -----------------------------
(***************************************************************************)
(* One agent-remote-server process and the state directory it outlives:     *)
(* OperationStore (store.rs), Server::new/handle/handle_exec/finish         *)
(* (server.rs) and the mutating handlers (fs_ops.rs, undo.rs).              *)
(*                                                                          *)
(* Every request line is a task of a multi-threaded runtime.  Within a task *)
(* each durable append, each update of a shared table and each access to    *)
(* the workspace is a step of its own; tasks interleave between steps, the  *)
(* process can die between any two of them, and an I/O call can fail.       *)
(***************************************************************************)
EXTENDS StoreData

CONSTANTS
    Workloads,      \* possible assignments of bodies to request ids
    InitialFiles,   \* possible workspaces at the very first start
    HistoryLimit,   \* --history-limit, or NoLimit
    MaxSends,       \* bound on request lines received
    MaxCrashes,     \* bound on process deaths
    MaxFails,       \* bound on failing I/O calls
    MaxExternal     \* bound on workspace changes by commands and users

Bodies == [kind : Kinds, path : Paths, base : Contents, new : Contents,
           subst : [Contents -> Contents \cup {NoMatch}],
           target : OpIds, keep : Nat \cup {NoLimit}]

ASSUME WorkloadAssumption == Workloads \subseteq [Rids -> Bodies]
(* fs_ops::edit refuses old_text = new_text: an edit that goes on changes the  *)
(* content.                                                                 *)
ASSUME EditAssumption ==
    \A w \in Workloads : \A r \in Rids :
        w[r].kind = "edit" => \A c \in Contents : w[r].subst[c] # c
ASSUME FilesAssumption == InitialFiles \subseteq [Paths -> State]
ASSUME BoundsAssumption ==
    /\ HistoryLimit \in Nat \cup {NoLimit}
    /\ MaxSends \in Nat /\ MaxCrashes \in Nat /\ MaxFails \in Nat /\ MaxExternal \in Nat

VARIABLES
    file,       \* workspace: Paths -> content, Absent or Unresolvable
    ops,        \* operations.jsonl: last record of each operation id
    reqs,       \* requests.jsonl: last line of each request id
    counter,    \* op-counter
    blobs,      \* blobs/<op>.before
    mops,       \* memory: OperationStore.records
    slot,       \* memory: position of each record in that vector
    mreqs,      \* memory: OperationStore.requests
    nextId,     \* memory: next_id
    guard,      \* memory: holder of write_lock
    prune,      \* memory: a prune in progress (it holds both table locks)
    srv,        \* "down", "recover", "up"
    recov,      \* the remember_* call recovery still owes for a marker
    stuck,      \* requests recovery found in progress and has not resolved
    task,       \* the live tasks
    body,       \* what each request id asks for (fixed for good)
    now,        \* logical clock behind timestamp_ms and vector positions
    sends, crashes, fails, externals,
    effects,    \* ghost: workspace mutations the server made
    runs,       \* ghost: how often each exec request started its command
    told        \* ghost: answers written to stdout

disk == <<ops, reqs, counter, blobs>>
tables == <<mops, slot, mreqs>>
bounds == <<sends, crashes, fails, externals>>
ghosts == <<effects, runs, told>>
vars == <<file, disk, tables, nextId, guard, prune, srv, recov, stuck, task,
          body, now, bounds, ghosts>>

TaskStates == [pc : {"idle", "claim", "insert", "begin", "read", "prepare", "install",
                     "commit", "exec_append", "exec_push", "remember", "stored"},
               rid : Rids \cup {NoRid}, path : Paths \cup {"none"}, op : 0..MaxOps,
               old : State, new : State, blob : State, ts : Nat,
               ans : Answers, say : Answers]

IdleTask == [pc |-> "idle", rid |-> NoRid, path |-> "none", op |-> 0, old |-> Absent,
             new |-> Absent, blob |-> Absent, ts |-> 0, ans |-> NoAnswer, say |-> NoAnswer]

NoPrune == [stage |-> "idle", by |-> NoTask, dropped |-> {}]
NoRecov == [rid |-> NoRid, ans |-> NoAnswer]

BodyOf(t) == body[task[t].rid]
Stamp == now' = now + 1
Failing == fails < MaxFails /\ fails' = fails + 1

(* parking_lot locks on records and requests: prune holds both throughout.  *)
TablesFree == prune.stage = "idle"

At(t, pc) == srv = "up" /\ task[t].pc = pc
Kind(t, kinds) == BodyOf(t).kind \in kinds

Init ==
    /\ file \in InitialFiles
    /\ ops = [i \in OpIds |-> NoRec] /\ mops = [i \in OpIds |-> NoRec]
    /\ reqs = [r \in Rids |-> NoEntry] /\ mreqs = [r \in Rids |-> NoEntry]
    /\ counter = 0 /\ nextId = 0
    /\ blobs = [i \in OpIds |-> Absent] /\ slot = [i \in OpIds |-> 0]
    /\ guard = NoTask /\ prune = NoPrune
    /\ srv = "down" /\ recov = NoRecov /\ stuck = {}
    /\ task = [t \in Tasks |-> IdleTask]
    /\ body \in Workloads
    /\ now = 1 /\ sends = 0 /\ crashes = 0 /\ fails = 0 /\ externals = 0
    /\ effects = {} /\ runs = [r \in Rids |-> 0] /\ told = {}

-----------------------------------------------------------------------------
(* claim_request and the replay arms of handle().                           *)

(* First lookup: an id already in the table is answered from it.            *)
ReceiveSeen(t, r) ==
    /\ At(t, "idle") /\ TablesFree /\ sends < MaxSends
    /\ mreqs[r].status # "none"
    /\ sends' = sends + 1
    /\ told' = told \cup {<<r, Replay(mreqs[r])>>}
    /\ UNCHANGED <<file, disk, tables, nextId, guard, prune, srv, recov, stuck, task, body,
                   now, crashes, fails, externals, effects, runs>>

ReceiveNew(t, r) ==
    /\ At(t, "idle") /\ TablesFree /\ sends < MaxSends
    /\ mreqs[r].status = "none"
    /\ sends' = sends + 1
    /\ task' = [task EXCEPT ![t] = [@ EXCEPT !.pc = "claim", !.rid = r]]
    /\ UNCHANGED <<file, disk, tables, nextId, guard, prune, srv, recov, stuck, body, now,
                   crashes, fails, externals, ghosts>>

(* The table is unlocked while the InProgress line is appended.             *)
ClaimAppend(t) ==
    /\ At(t, "claim")
    /\ reqs' = [reqs EXCEPT ![task[t].rid] = InProgress(BodyOf(t).kind)]
    /\ task' = [task EXCEPT ![t].pc = "insert"]
    /\ UNCHANGED <<file, ops, counter, blobs, tables, nextId, guard, prune, srv, recov, stuck,
                   body, now, bounds, ghosts>>

(* The claim could not be persisted: answered, not executed.  A failed      *)
(* append may have reached the file (write done, fsync failed) or not.      *)
ClaimFail(t) ==
    /\ At(t, "claim") /\ Failing
    /\ \/ reqs' = [reqs EXCEPT ![task[t].rid] = InProgress(BodyOf(t).kind)]
       \/ UNCHANGED reqs
    /\ told' = told \cup {<<task[t].rid, Err("IoError")>>}
    /\ task' = [task EXCEPT ![t] = IdleTask]
    /\ UNCHANGED <<file, ops, counter, blobs, tables, nextId, guard, prune, srv, recov, stuck,
                   body, now, sends, crashes, externals, effects, runs>>

(* Second lookup, relocked: whoever inserted meanwhile owns the request.    *)
ClaimLost(t) ==
    LET entry == mreqs[task[t].rid] IN
    /\ At(t, "insert") /\ TablesFree
    /\ entry.status # "none"
    /\ told' = told \cup {<<task[t].rid, Replay(entry)>>}
    /\ task' = [task EXCEPT ![t] = IdleTask]
    /\ UNCHANGED <<file, disk, tables, nextId, guard, prune, srv, recov, stuck, body, now,
                   bounds, effects, runs>>

(* Mutant of ClaimWon: inserts without the second lookup.                   *)
ClaimWonBlind(t) ==
    /\ At(t, "insert") /\ TablesFree
    /\ mreqs' = [mreqs EXCEPT ![task[t].rid] = InProgress(BodyOf(t).kind)]
    /\ task' = [task EXCEPT ![t].pc = "begin"]
    /\ UNCHANGED <<file, disk, mops, slot, nextId, guard, prune, srv, recov, stuck, body, now,
                   bounds, ghosts>>

ClaimWon(t) ==
    /\ At(t, "insert") /\ TablesFree
    /\ mreqs[task[t].rid].status = "none"
    /\ mreqs' = [mreqs EXCEPT ![task[t].rid] = InProgress(BodyOf(t).kind)]
    /\ task' = [task EXCEPT ![t].pc = "begin"]
    /\ UNCHANGED <<file, disk, mops, slot, nextId, guard, prune, srv, recov, stuck, body, now,
                   bounds, ghosts>>

-----------------------------------------------------------------------------
(* finish(): the handler's outcome is appended, then inserted, then told.   *)

FinishWith(t, ans) ==
    task' = [task EXCEPT ![t] = [@ EXCEPT !.pc = "remember", !.ans = ans, !.say = ans]]

(* Mutant of RememberAppend: only successes are persisted.                  *)
RememberAppendDone(t) ==
    /\ At(t, "remember")
    /\ reqs' = IF task[t].ans.st = "error" THEN reqs
               ELSE [reqs EXCEPT ![task[t].rid] = Terminal(task[t].ans.st, task[t].ans)]
    /\ task' = [task EXCEPT ![t].pc = "stored"]
    /\ UNCHANGED <<file, ops, counter, blobs, tables, nextId, guard, prune, srv, recov, stuck,
                   body, now, bounds, ghosts>>

RememberAppend(t) ==
    /\ At(t, "remember")
    /\ reqs' = [reqs EXCEPT ![task[t].rid] = Terminal(task[t].ans.st, task[t].ans)]
    /\ task' = [task EXCEPT ![t].pc = "stored"]
    /\ UNCHANGED <<file, ops, counter, blobs, tables, nextId, guard, prune, srv, recov, stuck,
                   body, now, bounds, ghosts>>

(* The table keeps the InProgress entry; the client is told of an I/O error.*)
RememberFail(t) ==
    /\ At(t, "remember") /\ Failing
    /\ \/ reqs' = [reqs EXCEPT ![task[t].rid] = Terminal(task[t].ans.st, task[t].ans)]
       \/ UNCHANGED reqs
    /\ told' = told \cup {<<task[t].rid, Err("IoError")>>}
    /\ task' = [task EXCEPT ![t] = IdleTask]
    /\ UNCHANGED <<file, ops, counter, blobs, tables, nextId, guard, prune, srv, recov, stuck,
                   body, now, sends, crashes, externals, effects, runs>>

RememberInsert(t) ==
    /\ At(t, "stored") /\ TablesFree
    /\ mreqs' = [mreqs EXCEPT ![task[t].rid] = Terminal(task[t].ans.st, task[t].ans)]
    /\ told' = told \cup {<<task[t].rid, task[t].say>>}
    /\ task' = [task EXCEPT ![t] = IdleTask]
    /\ UNCHANGED <<file, disk, mops, slot, nextId, guard, prune, srv, recov, stuck, body, now,
                   bounds, effects, runs>>

-----------------------------------------------------------------------------
(* Handlers that only look (list, stat, read, history, ...).                *)

ReadOnly(t) ==
    LET f == file[BodyOf(t).path] IN
    /\ At(t, "begin") /\ Kind(t, {"read"})
    /\ FinishWith(t, CASE f = Unresolvable -> Err("PathEscapes")
                       [] f = Absent       -> Err("NotFound")
                       [] OTHER            -> Done(0, Absent, f))
    /\ UNCHANGED <<file, disk, tables, nextId, guard, prune, srv, recov, stuck, body, now,
                   bounds, ghosts>>

-----------------------------------------------------------------------------
(* handle_exec: no write guard at any point.                                *)

ExecRecord(t, ts) ==
    [NoRec EXCEPT !.st = "exec", !.rid = task[t].rid, !.ts = ts,
                  !.kind = IF task[t].ans.st = "done" THEN "exec" ELSE "rejected"]

(* The id is taken up front; the command starts, or is rejected unstarted.  *)
ExecStart(t, started) ==
    /\ At(t, "begin") /\ Kind(t, {"exec"}) /\ nextId < MaxOps
    /\ nextId' = nextId + 1
    /\ LET ans == IF started THEN Done(nextId + 1, Absent, Absent) ELSE Err("ExecFailed") IN
       task' = [task EXCEPT ![t] = [@ EXCEPT !.pc = "exec_append", !.op = nextId + 1,
                                             !.ans = ans, !.say = ans]]
    /\ runs' = IF started THEN [runs EXCEPT ![task[t].rid] = @ + 1] ELSE runs
    /\ UNCHANGED <<file, disk, tables, guard, prune, srv, recov, stuck, body, now, bounds,
                   effects, told>>

ExecAppend(t) ==
    /\ At(t, "exec_append") /\ Stamp
    /\ ops' = [ops EXCEPT ![task[t].op] = ExecRecord(t, now)]
    /\ task' = [task EXCEPT ![t] = [@ EXCEPT !.pc = "exec_push", !.ts = now]]
    /\ UNCHANGED <<file, reqs, counter, blobs, tables, nextId, guard, prune, srv, recov, stuck,
                   body, bounds, ghosts>>

(* A completed command then finishes with the log error; a rejected one     *)
(* stores its own error but reports the log error.                          *)
ExecAppendFail(t) ==
    /\ At(t, "exec_append") /\ Failing /\ Stamp
    /\ \/ ops' = [ops EXCEPT ![task[t].op] = ExecRecord(t, now)]
       \/ UNCHANGED ops
    /\ task' = [task EXCEPT ![t] = [@ EXCEPT
                    !.pc = "remember", !.say = Err("IoError"),
                    !.ans = IF task[t].ans.st = "done" THEN Err("IoError")
                             ELSE task[t].ans]]
    /\ UNCHANGED <<file, reqs, counter, blobs, tables, nextId, guard, prune, srv, recov, stuck,
                   body, sends, crashes, externals, ghosts>>

ExecPush(t) ==
    /\ At(t, "exec_push") /\ TablesFree /\ Stamp
    /\ mops' = [mops EXCEPT ![task[t].op] = ExecRecord(t, task[t].ts)]
    /\ slot' = [slot EXCEPT ![task[t].op] = now]
    /\ task' = [task EXCEPT ![t].pc = "remember"]
    /\ UNCHANGED <<file, disk, mreqs, nextId, guard, prune, srv, recov, stuck, body, bounds,
                   ghosts>>

-----------------------------------------------------------------------------
(* create / edit / delete / undo: check, prepare, install, commit, all under *)
(* the write guard.  The guard is released before finish().                  *)

CreateError(f) ==
    CASE f = Unresolvable -> "PathEscapes"
      [] f \in Contents   -> "AlreadyExists"
      [] OTHER            -> "none"

EditError(b, f) ==
    CASE f = Unresolvable -> "PathEscapes"
      [] f = Absent       -> "NotFound"
      [] f # b.base       -> "StaleFile"
      [] OTHER            -> "none"

DeleteError(f) == IF f = Unresolvable THEN "PathEscapes" ELSE "none"

(* Mutant of UndoError: the file is not compared with the target's outcome. *)
UndoErrorBlind(target, f, blob) ==
    CASE ~IsCommitted(target) -> "OperationNotFound"
      [] target.st = "exec" \/ target.kind = "undo" -> "InvalidRequest"
      [] f = Unresolvable -> "PathEscapes"
      [] f = Absent /\ target.old = Absent -> "UndoConflict"
      [] target.old # Absent /\ blob = Absent -> "UndoConflict"
      [] OTHER -> "none"

(* find_record, then undo()'s table of (target.before, current) cases.      *)
UndoError(target, f, blob) ==
    CASE ~IsCommitted(target)                     -> "OperationNotFound"
      [] target.st = "exec"                       -> "InvalidRequest"
      [] target.kind = "undo"                     -> "InvalidRequest"
      [] f = Unresolvable                         -> "PathEscapes"
      [] f # target.new                           -> "UndoConflict"
      [] f = Absent /\ target.old = Absent        -> "UndoConflict"
      [] target.old # Absent /\ blob = Absent     -> "UndoConflict"
      [] OTHER                                    -> "none"

(* Takes the guard and runs the handler up to its first look at the file.   *)
(* edit hashes the file here and reads it in FsRead; delete reads it here   *)
(* and hashes it in FsRead.                                                 *)
FsCheck(t) ==
    LET b == BodyOf(t)
        target == mops[b.target]
        path == IF b.kind = "undo" THEN target.path ELSE b.path
        f == IF path \in Paths THEN file[path] ELSE Absent
        error == CASE b.kind = "create" -> CreateError(f)
                   [] b.kind = "edit"   -> EditError(b, f)
                   [] b.kind = "delete" -> DeleteError(f)
                   [] OTHER             -> UndoError(target, f, blobs[b.target])
    IN
    /\ At(t, "begin") /\ Kind(t, FsKinds) /\ guard = NoTask
    /\ \/ /\ error # "none"
          /\ FinishWith(t, Err(error))
          /\ UNCHANGED guard
       \/ /\ error = "none"
          /\ guard' = t
          /\ task' = [task EXCEPT ![t] = [@ EXCEPT
                !.pc = "read", !.path = path,
                !.old = IF b.kind \in {"edit", "undo"} THEN f ELSE Absent,
                !.blob = IF b.kind = "delete" THEN f ELSE Absent,
                !.new = CASE b.kind = "create" -> b.new
                          [] b.kind = "undo" /\ target.old # Absent -> blobs[b.target]
                          [] OTHER -> Absent]]
    /\ UNCHANGED <<file, disk, tables, nextId, prune, srv, recov, stuck, body, now, bounds,
                   ghosts>>

(* What the handler knows after its second look at the file.                *)
SecondLook(t) ==
    LET b == BodyOf(t)
        f == IF file[task[t].path] = Unresolvable THEN Absent ELSE file[task[t].path]
    IN CASE b.kind = "create" -> [old |-> Absent, new |-> task[t].new, blob |-> Absent]
         [] b.kind = "edit"   -> [old |-> task[t].old, blob |-> f,
                                  new |-> IF f = Absent THEN Absent ELSE b.subst[f]]
         [] b.kind = "delete" -> [old |-> f, new |-> Absent, blob |-> task[t].blob]
         [] OTHER             -> [old |-> task[t].old, new |-> task[t].new,
                                  blob |-> IF task[t].old = Absent THEN Absent ELSE f]

(* Mutant of SecondLookError: an edit whose text does not occur goes on.    *)
SecondLookErrorLax(t, look) ==
    CASE Kind(t, {"edit"}) /\ look.blob = Absent  -> "IoError"
      [] Kind(t, {"delete"}) /\ look.old = Absent -> "NotFound"
      [] OTHER                                    -> "none"

SecondLookError(t, look) ==
    CASE Kind(t, {"edit"}) /\ look.blob = Absent  -> "IoError"
      [] Kind(t, {"edit"}) /\ look.new = NoMatch  -> "NoMatch"
      [] Kind(t, {"delete"}) /\ look.old = Absent -> "NotFound"
      [] OTHER                                    -> "none"

FsReadReject(t) ==
    LET error == SecondLookError(t, SecondLook(t)) IN
    /\ At(t, "read") /\ error # "none"
    /\ FinishWith(t, Err(error))
    /\ guard' = NoTask
    /\ UNCHANGED <<file, disk, tables, nextId, prune, srv, recov, stuck, body, now, bounds,
                   ghosts>>

(* Mutant of FsBlob: the before-content is not saved.                       *)
FsBlobSkipped(t) ==
    LET look == SecondLook(t) IN
    /\ At(t, "read") /\ SecondLookError(t, look) = "none" /\ nextId < MaxOps
    /\ nextId' = nextId + 1
    /\ task' = [task EXCEPT ![t] = [@ EXCEPT !.pc = "prepare", !.op = nextId + 1,
                    !.old = look.old, !.new = look.new, !.blob = look.blob]]
    /\ UNCHANGED <<file, disk, tables, guard, prune, srv, recov, stuck, body, now, bounds,
                   ghosts>>

(* prepare_fs_record, first half: the id and the before-content blob.       *)
FsBlob(t) ==
    LET look == SecondLook(t) IN
    /\ At(t, "read") /\ SecondLookError(t, look) = "none" /\ nextId < MaxOps
    /\ nextId' = nextId + 1
    /\ blobs' = IF look.blob = Absent THEN blobs
                ELSE [blobs EXCEPT ![nextId + 1] = look.blob]
    /\ task' = [task EXCEPT ![t] = [@ EXCEPT !.pc = "prepare", !.op = nextId + 1,
                    !.old = look.old, !.new = look.new, !.blob = look.blob]]
    /\ UNCHANGED <<file, ops, reqs, counter, tables, guard, prune, srv, recov, stuck, body,
                   now, bounds, ghosts>>

FsBlobFail(t) ==
    LET look == SecondLook(t) IN
    /\ At(t, "read") /\ SecondLookError(t, look) = "none" /\ nextId < MaxOps
    /\ look.blob # Absent /\ Failing
    /\ nextId' = nextId + 1
    /\ \/ blobs' = [blobs EXCEPT ![nextId + 1] = look.blob]      \* written, not synced
       \/ UNCHANGED blobs
    /\ FinishWith(t, Err("IoError"))
    /\ guard' = NoTask
    /\ UNCHANGED <<file, ops, reqs, counter, tables, prune, srv, recov, stuck, body, now, sends, crashes,
                   externals, ghosts>>

FsRecord(t, st, ts) ==
    [st |-> st, rid |-> task[t].rid, kind |-> BodyOf(t).kind, path |-> task[t].path,
     old |-> task[t].old, new |-> task[t].new, ts |-> ts]

(* Mutant of FsPrepare: no marker is logged before the mutation.            *)
FsPrepareUnlogged(t) ==
    /\ At(t, "prepare") /\ Stamp
    /\ task' = [task EXCEPT ![t].pc = "install"]
    /\ UNCHANGED <<file, disk, tables, nextId, guard, prune, srv, recov, stuck, body, bounds,
                   ghosts>>

(* prepare_fs_record, second half: the marker.  It is not put in memory.    *)
FsPrepare(t) ==
    /\ At(t, "prepare") /\ Stamp
    /\ ops' = [ops EXCEPT ![task[t].op] = FsRecord(t, "prepared", now)]
    /\ task' = [task EXCEPT ![t].pc = "install"]
    /\ UNCHANGED <<file, reqs, counter, blobs, tables, nextId, guard, prune, srv, recov, stuck,
                   body, bounds, ghosts>>

FsPrepareFail(t) ==
    /\ At(t, "prepare") /\ Failing /\ Stamp
    /\ \/ ops' = [ops EXCEPT ![task[t].op] = FsRecord(t, "prepared", now)]
       \/ UNCHANGED ops
    /\ FinishWith(t, Err("IoError"))
    /\ guard' = NoTask
    /\ UNCHANGED <<file, reqs, counter, blobs, tables, nextId, prune, srv, recov, stuck, body,
                   sends, crashes, externals, ghosts>>

(* hard_link refuses an existing target, remove_file a missing one; a       *)
(* rename replaces whatever is there.                                       *)
InstallError(t) ==
    LET f == file[task[t].path] IN
    CASE Kind(t, {"create"}) /\ f # Absent        -> "AlreadyExists"
      [] task[t].new = Absent /\ f = Absent       -> "IoError"
      [] OTHER                                    -> "none"

Install(t) ==
    /\ file' = [file EXCEPT ![task[t].path] = task[t].new]
    /\ effects' = effects \cup
          {[rid |-> task[t].rid, op |-> task[t].op, path |-> task[t].path,
            old |-> file[task[t].path], new |-> task[t].new]}

FsInstall(t) ==
    /\ At(t, "install") /\ InstallError(t) = "none"
    /\ Install(t)
    /\ task' = [task EXCEPT ![t].pc = "commit"]
    /\ UNCHANGED <<disk, tables, nextId, guard, prune, srv, recov, stuck, body, now, bounds,
                   runs, told>>

(* The mutation is refused: the prepared marker stays in the log.           *)
FsInstallRefused(t) ==
    /\ At(t, "install") /\ InstallError(t) # "none"
    /\ FinishWith(t, Err(InstallError(t)))
    /\ guard' = NoTask
    /\ UNCHANGED <<file, disk, tables, nextId, prune, srv, recov, stuck, body, now, bounds,
                   ghosts>>

(* An I/O error, before the rename or (fsync) after it.                     *)
FsInstallFail(t) ==
    /\ At(t, "install") /\ InstallError(t) = "none" /\ Failing
    /\ \/ Install(t)
       \/ UNCHANGED <<file, effects>>
    /\ FinishWith(t, Err("IoError"))
    /\ guard' = NoTask
    /\ UNCHANGED <<disk, tables, nextId, prune, srv, recov, stuck, body, now, sends, crashes,
                   externals, runs, told>>

(* The answer of the handler: undo reports target.before_hash.              *)
FsAnswer(t) ==
    IF Kind(t, {"undo"})
    THEN Done(task[t].op, mops[BodyOf(t).target].old, task[t].new)
    ELSE Done(task[t].op, task[t].old, task[t].new)

(* Mutant of FsCommit: the guard is not released.                           *)
FsCommitHolding(t) ==
    /\ At(t, "commit") /\ TablesFree /\ Stamp
    /\ ops' = [ops EXCEPT ![task[t].op] = FsRecord(t, "fs", now)]
    /\ mops' = [mops EXCEPT ![task[t].op] = FsRecord(t, "fs", now)]
    /\ slot' = [slot EXCEPT ![task[t].op] = now]
    /\ FinishWith(t, FsAnswer(t))
    /\ UNCHANGED <<file, reqs, counter, blobs, mreqs, nextId, guard, prune, srv, recov, stuck,
                   body, bounds, ghosts>>

FsCommit(t) ==
    /\ At(t, "commit") /\ TablesFree /\ Stamp
    /\ ops' = [ops EXCEPT ![task[t].op] = FsRecord(t, "fs", now)]
    /\ mops' = [mops EXCEPT ![task[t].op] = FsRecord(t, "fs", now)]
    /\ slot' = [slot EXCEPT ![task[t].op] = now]
    /\ FinishWith(t, FsAnswer(t))
    /\ guard' = NoTask
    /\ UNCHANGED <<file, reqs, counter, blobs, mreqs, nextId, prune, srv, recov, stuck, body,
                   bounds, ghosts>>

FsCommitFail(t) ==
    /\ At(t, "commit") /\ Failing /\ Stamp
    /\ \/ ops' = [ops EXCEPT ![task[t].op] = FsRecord(t, "fs", now)]
       \/ UNCHANGED ops
    /\ FinishWith(t, Err("IoError"))
    /\ guard' = NoTask
    /\ UNCHANGED <<file, reqs, counter, blobs, tables, nextId, prune, srv, recov, stuck, body,
                   sends, crashes, externals, ghosts>>

-----------------------------------------------------------------------------
(* prune(keep), by a gc request or at startup.  Both tables stay locked     *)
(* until it returns, but nothing stops another task from appending to the   *)
(* two files it rewrites.                                                   *)

PruneTrim(keep, by) ==
    LET kept == Trim(mops, slot, keep) IN
    /\ mops' = kept
    /\ mreqs' = TrimRequests(mreqs, kept)
    /\ prune' = [stage |-> "truncate", by |-> by, dropped |-> Live(mops) \ Live(kept)]

(* Mutant of GcBegin: prunes without taking the write guard.                *)
GcBeginUnguarded(t) ==
    LET keep == IF BodyOf(t).keep # NoLimit THEN BodyOf(t).keep ELSE HistoryLimit IN
    /\ At(t, "begin") /\ Kind(t, {"gc"}) /\ TablesFree
    /\ keep # NoLimit
    /\ PruneTrim(keep, t)
    /\ UNCHANGED <<file, disk, slot, nextId, guard, srv, recov, stuck, task, body, now, bounds,
                   ghosts>>

GcBegin(t) ==
    LET keep == IF BodyOf(t).keep # NoLimit THEN BodyOf(t).keep ELSE HistoryLimit IN
    /\ At(t, "begin") /\ Kind(t, {"gc"}) /\ guard = NoTask
    /\ \/ /\ keep = NoLimit
          /\ FinishWith(t, Err("InvalidRequest"))
          /\ UNCHANGED <<mops, mreqs, prune, guard>>
       \/ /\ keep # NoLimit
          /\ PruneTrim(keep, t)
          /\ guard' = t
          /\ UNCHANGED task
    /\ UNCHANGED <<file, disk, slot, nextId, srv, recov, stuck, body, now, bounds, ghosts>>

(* The counter is written in place: truncated, then filled.                 *)
PruneTruncate ==
    /\ prune.stage = "truncate"
    /\ counter' = Corrupt
    /\ prune' = [prune EXCEPT !.stage = "counter"]
    /\ UNCHANGED <<file, ops, reqs, blobs, tables, nextId, guard, srv, recov, stuck, task,
                   body, now, bounds, ghosts>>

PruneCounter ==
    /\ prune.stage = "counter"
    /\ counter' = nextId
    /\ prune' = [prune EXCEPT !.stage = "ops"]
    /\ UNCHANGED <<file, ops, reqs, blobs, tables, nextId, guard, srv, recov, stuck, task,
                   body, now, bounds, ghosts>>

(* Mutant of PruneOps: the blobs go before the log that names them.         *)
PruneOpsLate ==
    /\ prune.stage = "ops"
    /\ blobs' = [i \in OpIds |-> IF i \in prune.dropped THEN Absent ELSE blobs[i]]
    /\ prune' = [prune EXCEPT !.stage = "reqs"]
    /\ UNCHANGED <<file, ops, reqs, counter, tables, nextId, guard, srv, recov, stuck, task,
                   body, now, bounds, ghosts>>

PruneOps ==
    /\ prune.stage = "ops"
    /\ ops' = mops
    /\ prune' = [prune EXCEPT !.stage = "reqs"]
    /\ UNCHANGED <<file, reqs, counter, blobs, tables, nextId, guard, srv, recov, stuck, task,
                   body, now, bounds, ghosts>>

PruneReqs ==
    /\ prune.stage = "reqs"
    /\ reqs' = mreqs
    /\ prune' = [prune EXCEPT !.stage = "blobs"]
    /\ UNCHANGED <<file, ops, counter, blobs, tables, nextId, guard, srv, recov, stuck, task,
                   body, now, bounds, ghosts>>

PruneBlobs ==
    /\ prune.stage = "blobs"
    /\ blobs' = [i \in OpIds |-> IF i \in prune.dropped THEN Absent ELSE blobs[i]]
    /\ prune' = NoPrune
    /\ \/ /\ prune.by = NoTask
          /\ srv' = "up"
          /\ UNCHANGED <<task, guard>>
       \/ /\ prune.by # NoTask
          /\ FinishWith(prune.by, Done(0, Absent, Absent))
          /\ guard' = NoTask
          /\ UNCHANGED srv
    /\ UNCHANGED <<file, ops, reqs, counter, tables, nextId, recov, stuck, body, now, bounds,
                   ghosts>>

(* gc reports the error; the tables stay trimmed.  (At startup the process  *)
(* exits: Crash.)                                                           *)
PruneFail ==
    /\ prune.stage # "idle" /\ prune.by # NoTask /\ Failing
    /\ prune' = NoPrune
    /\ FinishWith(prune.by, Err("IoError"))
    /\ guard' = NoTask
    /\ UNCHANGED <<file, disk, tables, nextId, srv, recov, stuck, body, now, sends, crashes,
                   externals, ghosts>>

-----------------------------------------------------------------------------
(* Process death and Server::new.                                           *)

(* SIGKILL, ssh loss (stdin EOF cancels every task), or a start that fails  *)
(* (an append, or the hash of a marker's file): everything in memory is gone.*)
Crash ==
    /\ srv # "down" /\ crashes < MaxCrashes
    /\ crashes' = crashes + 1
    /\ srv' = "down"
    /\ mops' = [i \in OpIds |-> NoRec] /\ slot' = [i \in OpIds |-> 0]
    /\ mreqs' = [r \in Rids |-> NoEntry]
    /\ nextId' = 0 /\ guard' = NoTask /\ prune' = NoPrune
    /\ recov' = NoRecov /\ stuck' = {}
    /\ task' = [t \in Tasks |-> IdleTask]
    /\ UNCHANGED <<file, disk, body, now, sends, fails, externals, ghosts>>

(* OperationStore::new: load both logs; records are ordered by timestamp.   *)
Start ==
    /\ srv = "down" /\ counter # Corrupt
    /\ srv' = "recover"
    /\ mops' = ops /\ slot' = [i \in OpIds |-> ops[i].ts]
    /\ mreqs' = reqs
    /\ \E n \in 0..MaxOps : IsHighWater(n, counter, ops) /\ nextId' = n
    /\ stuck' = {r \in Rids : reqs[r].status = "inprogress"}
    /\ UNCHANGED <<file, disk, guard, prune, recov, task, body, now, bounds, ghosts>>

(* "corrupt op-counter file": every start is refused from now on.           *)
StartRefused ==
    /\ srv = "down" /\ counter = Corrupt
    /\ UNCHANGED vars

Pending == {i \in OpIds : mops[i].st = "prepared"}

Recovering == srv = "recover" /\ TablesFree

(* recover(), first loop: the oldest unresolved marker against the file.    *)
(* (If the file cannot be hashed, the start fails before anything is         *)
(* written: Crash.)                                                         *)
RecoverMarker(i) ==
    LET p == mops[i]
        outcome == Outcome(p, file[p.path])
        committed == [p EXCEPT !.st = "fs", !.ts = now]
    IN
    /\ Recovering /\ recov = NoRecov
    /\ i \in Pending /\ \A j \in Pending : slot[i] <= slot[j]
    /\ Stamp
    /\ \/ /\ outcome = "committed"
          /\ ops' = [ops EXCEPT ![i] = committed]
          /\ mops' = [mops EXCEPT ![i] = committed]
          /\ recov' = [rid |-> p.rid, ans |-> Reconstruct(i, committed)]
       \/ /\ outcome # "committed"
          /\ ops' = [ops EXCEPT ![i] = Aborted(now)]
          /\ mops' = [mops EXCEPT ![i] = NoRec]
          /\ recov' = IF outcome = "noop" THEN NoRecov
                      ELSE [rid |-> p.rid, ans |-> Err("UndoConflict")]
    /\ UNCHANGED <<file, reqs, counter, blobs, slot, mreqs, nextId, guard, prune, srv, stuck,
                   task, body, bounds, ghosts>>

RememberNow(r, status, ans) ==
    /\ reqs' = [reqs EXCEPT ![r] = Terminal(status, ans)]
    /\ mreqs' = [mreqs EXCEPT ![r] = Terminal(status, ans)]

RecoverRemember ==
    /\ Recovering /\ recov # NoRecov
    /\ RememberNow(recov.rid, recov.ans.st, recov.ans)
    /\ recov' = NoRecov
    /\ stuck' = stuck \ {recov.rid}
    /\ UNCHANGED <<file, ops, counter, blobs, mops, slot, nextId, guard, prune, srv, task, body,
                   now, bounds, ghosts>>

(* Mutant of CommittedFor: the operation log is not searched.               *)
CommittedForNone(r) == {}

CommittedFor(r) == {i \in OpIds : IsCommitted(mops[i]) /\ mops[i].rid = r}

(* Mutant of RecoverStuck: a resolved request stays on the list.            *)
RecoverStuckAgain(r) ==
    /\ Recovering /\ recov = NoRecov /\ Pending = {} /\ r \in stuck
    /\ UNCHANGED vars

(* recover(), second loop: requests that were in progress at the crash.     *)
RecoverStuck(r) ==
    /\ Recovering /\ recov = NoRecov /\ Pending = {} /\ r \in stuck
    /\ stuck' = stuck \ {r}
    /\ \/ \E i \in CommittedFor(r) :
             /\ \A j \in CommittedFor(r) : slot[i] <= slot[j]
             /\ RememberNow(r, "done", Reconstruct(i, mops[i]))
       \/ /\ CommittedFor(r) = {} /\ mreqs[r].kind = "exec"
          /\ RememberNow(r, "error", Err("ExecFailed"))
       \/ /\ CommittedFor(r) = {} /\ mreqs[r].kind # "exec"
          /\ mreqs' = [mreqs EXCEPT ![r] = NoEntry]
          /\ UNCHANGED reqs
    /\ UNCHANGED <<file, ops, counter, blobs, mops, slot, nextId, guard, prune, srv, recov,
                   task, body, now, bounds, ghosts>>

(* Recovery is over: prune to the history limit, if there is one, and serve.*)
RecoverDone ==
    /\ Recovering /\ recov = NoRecov /\ Pending = {} /\ stuck = {}
    /\ \/ /\ HistoryLimit = NoLimit
          /\ srv' = "up"
          /\ UNCHANGED <<mops, mreqs, prune>>
       \/ /\ HistoryLimit # NoLimit
          /\ PruneTrim(HistoryLimit, NoTask)
          /\ UNCHANGED srv
    /\ UNCHANGED <<file, disk, slot, nextId, guard, recov, stuck, task, body, now, bounds,
                   ghosts>>

-----------------------------------------------------------------------------
(* Commands run by exec, and users, write to the workspace at any time.     *)
External(p, v) ==
    /\ externals < MaxExternal /\ v # file[p]
    /\ v = Unresolvable => srv = "down"
    /\ externals' = externals + 1
    /\ file' = [file EXCEPT ![p] = v]
    /\ UNCHANGED <<disk, tables, nextId, guard, prune, srv, recov, stuck, task, body, now,
                   sends, crashes, fails, ghosts>>

(* Nothing left to do: the server waits for the next line.                  *)
Waiting ==
    /\ srv = "up" /\ \A t \in Tasks : task[t].pc = "idle"
    /\ UNCHANGED vars

TaskStep(t) ==
    \/ ClaimAppend(t) \/ ClaimFail(t) \/ ClaimLost(t) \/ ClaimWon(t)
    \/ RememberAppend(t) \/ RememberFail(t) \/ RememberInsert(t)
    \/ ReadOnly(t)
    \/ ExecStart(t, TRUE) \/ ExecStart(t, FALSE) \/ ExecAppend(t) \/ ExecAppendFail(t)
    \/ ExecPush(t)
    \/ FsCheck(t) \/ FsReadReject(t) \/ FsBlob(t) \/ FsBlobFail(t) \/ FsPrepare(t)
    \/ FsPrepareFail(t) \/ FsInstall(t) \/ FsInstallRefused(t) \/ FsInstallFail(t)
    \/ FsCommit(t) \/ FsCommitFail(t)
    \/ GcBegin(t)

PruneStep ==
    \/ PruneTruncate \/ PruneCounter \/ PruneOps \/ PruneReqs \/ PruneBlobs \/ PruneFail

RecoverStep ==
    \/ \E i \in OpIds : RecoverMarker(i)
    \/ RecoverRemember
    \/ \E r \in Rids : RecoverStuck(r)
    \/ RecoverDone

Next ==
    \/ \E t \in Tasks : \/ \E r \in Rids : ReceiveSeen(t, r) \/ ReceiveNew(t, r)
                        \/ TaskStep(t)
    \/ PruneStep
    \/ Crash \/ Start \/ StartRefused \/ RecoverStep
    \/ \E p \in Paths, v \in State \cup {Unresolvable} : External(p, v)
    \/ Waiting

Spec == Init /\ [][Next]_vars

(* Tasks are polled until they finish, prune and startup are straight-line   *)
(* code.  Nothing forces the client to send, the process to die, an I/O call *)
(* to fail, or the workspace to change.                                      *)
Fairness ==
    /\ \A t \in Tasks : WF_vars(TaskStep(t))
    /\ WF_vars(PruneStep)
    /\ WF_vars(RecoverStep)

FairSpec == Spec /\ Fairness

-----------------------------------------------------------------------------
(* Properties.                                                               *)

TypeOK ==
    /\ file \in [Paths -> State \cup {Unresolvable}]
    /\ ops \in [OpIds -> Records] /\ mops \in [OpIds -> Records]
    /\ reqs \in [Rids -> Entries] /\ mreqs \in [Rids -> Entries]
    /\ counter \in 0..MaxOps \cup {Corrupt} /\ nextId \in 0..MaxOps
    /\ blobs \in [OpIds -> State] /\ slot \in [OpIds -> Nat]
    /\ guard \in Tasks \cup {NoTask}
    /\ prune \in [stage : {"idle", "truncate", "counter", "ops", "reqs", "blobs"},
                  by : Tasks \cup {NoTask}, dropped : SUBSET OpIds]
    /\ srv \in {"down", "recover", "up"}
    /\ recov \in [rid : Rids \cup {NoRid}, ans : Answers]
    /\ stuck \in SUBSET Rids
    /\ task \in [Tasks -> TaskStates]
    /\ body \in [Rids -> Bodies]
    /\ now \in Nat
    /\ sends \in Nat /\ crashes \in Nat /\ fails \in Nat /\ externals \in Nat
    /\ effects \in SUBSET [rid : Rids, op : OpIds, path : Paths,
                           old : State \cup {Unresolvable}, new : State]
    /\ runs \in [Rids -> Nat]
    /\ told \in SUBSET (Rids \X Answers)

(* Owners: tasks between winning the claim and storing the outcome.          *)
Owns(t) == task[t].pc \notin {"idle", "claim", "insert"}

(* Concurrent duplicates of a request never both run (server.rs, "so         *)
(* concurrent duplicate requests cannot both run"): two tasks never own the  *)
(* same request id, although the claim is not one locked step, and a prune   *)
(* never takes the entry that protects an owner.                             *)
SingleOwner ==
    /\ \A t, u \in Tasks : Owns(t) /\ Owns(u) /\ task[t].rid = task[u].rid => t = u
    /\ \A t \in Tasks : Owns(t) => mreqs[task[t].rid].status = "inprogress"

(* Write-ahead rule across crashes, recoveries and prunes: a mutation the    *)
(* server made stays covered by a log record of its own operation and        *)
(* request.  A record may leave the log only through a prune, and then the   *)
(* counter file already bars its id from being handed out again.             *)
LoggedEffects ==
    \A e \in effects :
        LET rec == ops[e.op] IN
        \/ rec.st = "none" /\ (counter = Corrupt \/ e.op <= counter)
        \/ rec.st = "aborted"
        \/ /\ rec.st \in {"prepared", "fs"}
           /\ rec.rid = e.rid /\ rec.path = e.path /\ rec.new = e.new

(* DESIGN.md: a crash between rename and commit "is reconciled on restart    *)
(* instead of leaving a phantom operation": every mutation in the history    *)
(* was really made, with the contents the record names.                      *)
NoPhantom ==
    \A i \in OpIds : mops[i].st = "fs" =>
        \E e \in effects : /\ e.op = i /\ e.rid = mops[i].rid
                           /\ e.old = mops[i].old /\ e.new = mops[i].new

(* "Server log = execution truth": between mutations, a file holds what the  *)
(* newest record in the history for its path says, and a path without        *)
(* records was not touched (or its records were pruned).                     *)
HistoryExplainsFile ==
    srv = "up" /\ guard = NoTask =>
        \A p \in Paths :
            LET on == {i \in OpIds : mops[i].st = "fs" /\ mops[i].path = p} IN
            IF on = {} THEN \A e \in effects : e.path = p => e.op <= counter
            ELSE \E i \in on : /\ \A j \in on : slot[j] <= slot[i]
                               /\ file[p] = mops[i].new

(* Idempotency: a request mutates the workspace, or starts its command, at   *)
(* most once, however often it is sent and whenever the server dies.         *)
AtMostOnce ==
    \A r \in Rids :
        /\ runs[r] <= 1
        /\ \A e, f \in effects : e.rid = r /\ f.rid = r => e = f

(* A success the client was told survives: whenever the server serves, the   *)
(* request still has exactly that answer (rebuilt from the operation log if  *)
(* the terminal line was lost).                                              *)
AckedSurvives ==
    srv = "up" => \A a \in told :
        /\ a[2].st = "done" /\ body[a[1]].kind \in FsKinds \cup {"exec"}
        => mreqs[a[1]].ans = a[2]

(* DESIGN.md: the replay window is the retention window.  While the record   *)
(* of a success the client was told is in the history, the request still has *)
(* a success and is not run again; and the same success, unless the request  *)
(* mutated the workspace twice (a prune can erase the claim of a request     *)
(* that is just starting, see README).                                       *)
Reran(r) == runs[r] > 1 \/ \E e, f \in effects : e.rid = r /\ f.rid = r /\ e # f
AckedUnlessPruned ==
    srv = "up" /\ fails = 0 /\ externals = 0 => \A a \in told :
        a[2].op # 0 /\ RecordRid(mops[a[2].op]) = a[1] =>
            /\ mreqs[a[1]].ans.st = "done"
            /\ mreqs[a[1]].ans = a[2] \/ Reran(a[1])

(* README "Request results persist across restarts; replaying a request_id   *)
(* returns the stored result": this holds for error answers too.             *)
AnswerSurvives ==
    srv = "up" => \A a \in told :
        a[2].code \notin {"InProgress", "IoError"} => mreqs[a[1]].ans = a[2]

(* README "pruned operation ids are never reused": an id the client was      *)
(* given names one request's operation for ever.                             *)
OpIdStable ==
    \A a, b \in told : a[2].op # 0 /\ a[2].op = b[2].op => a[1] = b[1]

(* README "Safe undo": an undo finds the file as its target left it and      *)
(* leaves it as its target found it.                                         *)
SafeUndo ==
    \A e \in effects : body[e.rid].kind = "undo" =>
        \E f \in effects : f.op = body[e.rid].target /\ e.old = f.new /\ e.new = f.old

(* store.rs "never a record pointing at a missing blob": every record that   *)
(* replaced a file, in the log or in memory, still has the bytes it replaced.*)
BlobIsBefore ==
    \A i \in OpIds : \A rec \in {ops[i], mops[i]} :
        rec.st \in {"prepared", "fs"} /\ rec.old # Absent => blobs[i] = rec.old

(* Every accepted request is eventually answered (or dies with the process): *)
(* no lock order deadlocks, no task waits on one that waits on it.           *)
Answered == \A t \in Tasks : []<>(task[t].pc = "idle")

(* Startup recovery terminates: the server serves, or the process died.      *)
Recovers == []<>(srv # "recover")

-----------------------------------------------------------------------------
(* The server as the abstract service: its effects are the fates, the        *)
(* successes on stdout are the reports.                                      *)
Fate ==
    [r \in Rids |-> {[op |-> e.op, path |-> e.path, old |-> e.old, new |-> e.new] :
                     e \in {f \in effects : f.rid = r}}]
Acked ==
    {<<a[1], a[2].op, a[2].new>> :
        a \in {b \in told : b[2].st = "done" /\ body[b[1]].kind \in FsKinds}}

Service == INSTANCE IdempotentService WITH
    States <- State, Ids <- OpIds, fate <- Fate, acked <- Acked

(* The server implements the at-most-once service: crashes, recoveries,      *)
(* duplicates and replays are invisible to a client that counts effects and  *)
(* compares successes.                                                       *)
ImplementsService == Service!Spec
=============================================================================
