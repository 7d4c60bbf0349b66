------------------------------ MODULE StoreData ------------------------------
(***************************************************************************)
(* The data of the operation store (server/src/store.rs, protocol/record.rs)*)
(* and the pure decisions the server takes on it: how a crashed mutation is *)
(* classified, which records a prune retains, what a stored request         *)
(* replays.  File contents stand for their own hash; Absent stands for a    *)
(* missing file, for before_hash = None and for the "sha256:" sentinel.     *)
(***************************************************************************)
EXTENDS Integers, FiniteSets

CONSTANTS
    Rids,           \* request ids
    NoRid,
    Tasks,          \* tokio tasks that can be live at once
    NoTask,
    Paths,          \* client paths
    Contents,       \* file contents
    Absent,         \* no file / no blob / no hash
    Unresolvable,   \* the path leaves the workspace (symlink swapped while down)
    NoMatch,        \* edit: old_text does not occur (or is ambiguous)
    MaxOps          \* bound on operation ids

ASSUME SentinelAssumption ==
    /\ NoRid \notin Rids
    /\ NoTask \notin Tasks
    /\ Absent \notin Contents
    /\ Unresolvable \notin Contents /\ Unresolvable # Absent
    /\ NoMatch \notin Contents

ASSUME MaxOpsAssumption == MaxOps \in Nat

OpIds == 1..MaxOps
NoLimit == -1       \* history_limit = None
Corrupt == -1       \* op-counter file truncated and not yet written

State == Contents \cup {Absent}

Codes == {"none", "AlreadyExists", "NotFound", "StaleFile", "NoMatch",
          "PathEscapes", "OperationNotFound", "InvalidRequest", "UndoConflict",
          "ExecFailed", "IoError", "InProgress"}

(* Request kinds; "read" stands for every handler that only looks.          *)
FsKinds == {"create", "edit", "delete", "undo"}
Kinds == FsKinds \cup {"exec", "read", "gc"}

-----------------------------------------------------------------------------
(* Wire answers and the StoredResult of a request.                          *)

Answers == [st : {"none", "done", "error"}, op : 0..MaxOps,
            old : State, new : State, code : Codes]

NoAnswer == [st |-> "none", op |-> 0, old |-> Absent, new |-> Absent, code |-> "none"]
Done(op, old, new) ==
    [st |-> "done", op |-> op, old |-> old, new |-> new, code |-> "none"]
Err(code) == [NoAnswer EXCEPT !.st = "error", !.code = code]

Entries == [status : {"none", "inprogress", "done", "error"},
            kind : Kinds \cup {"none"}, ans : Answers]

NoEntry == [status |-> "none", kind |-> "none", ans |-> NoAnswer]
InProgress(kind) == [NoEntry EXCEPT !.status = "inprogress", !.kind = kind]

(* remember_result / remember_error: op is dropped from a terminal line.  A *)
(* rejected exec that recovery reconstructs is an error message stored by   *)
(* remember_result, so the status names who stored it, not ans.st.          *)
Terminal(status, ans) == [NoEntry EXCEPT !.status = status, !.ans = ans]

(* What handle() answers for a request id it has already seen.              *)
Replay(entry) == IF entry.ans.st = "none" THEN Err("InProgress") ELSE entry.ans

-----------------------------------------------------------------------------
(* Operation records.  st is the record_kind; "none" means no line with     *)
(* that id in the log (or no slot in memory).  Transfer records are left    *)
(* to Uploads and Downloads, and with them their arms of the decisions      *)
(* below, which treat them as committed records of their request.           *)

Records == [st : {"none", "prepared", "fs", "exec", "aborted"},
            rid : Rids \cup {NoRid}, kind : FsKinds \cup {"exec", "rejected", "none"},
            path : Paths \cup {"none"}, old : State, new : State, ts : Nat]

NoRec == [st |-> "none", rid |-> NoRid, kind |-> "none", path |-> "none",
          old |-> Absent, new |-> Absent, ts |-> 0]

IsCommitted(rec) == rec.st \in {"fs", "exec"}

(* record_request_id: an Aborted marker belongs to no request.              *)
RecordRid(rec) == IF rec.st \in {"fs", "exec", "prepared"} THEN rec.rid ELSE NoRid

Live(recs) == {i \in OpIds : recs[i].st # "none"}

(* drop_prepared: the marker that supersedes a prepared line.               *)
Aborted(ts) == [NoRec EXCEPT !.st = "aborted", !.ts = ts]

(* Mutants of Outcome: every marker is taken for a commit, or for nothing.  *)
OutcomeAssumed(p, current) == "committed"
OutcomeDropped(p, current) == "noop"

(* recover(): the verdict on a prepared marker, given the file as it is.    *)
Outcome(p, current) ==
    IF current = p.old THEN "noop"
    ELSE IF current = p.new THEN "committed"
    ELSE "conflict"

(* reconstruct_result: the answer a committed record stands for.  An undo   *)
(* reports the content it restored, any other mutation what it replaced.    *)
(* (For a transfer it is the record's own fields.)                          *)
Reconstruct(id, rec) ==
    CASE rec.kind = "rejected" -> Err("ExecFailed")
      [] rec.kind = "undo"     -> Done(id, rec.new, rec.new)
      [] OTHER                 -> Done(id, rec.old, rec.new)

(* The records prune(keep) retains: the last `keep` slots of the table.     *)
Retained(recs, slots, keep) ==
    {i \in Live(recs) : Cardinality({j \in Live(recs) : slots[j] > slots[i]}) < keep}

Trim(recs, slots, keep) ==
    [i \in OpIds |-> IF i \in Retained(recs, slots, keep) THEN recs[i] ELSE NoRec]

(* Mutant of TrimRequests: only requests in flight survive.                 *)
TrimRequestsAll(reqs, kept) ==
    [r \in Rids |-> IF reqs[r].status = "inprogress" THEN reqs[r] ELSE NoEntry]

(* The request entries that survive it: in flight, or still referenced.     *)
TrimRequests(reqs, kept) ==
    [r \in Rids |-> IF \/ reqs[r].status = "inprogress"
                       \/ \E i \in OpIds : RecordRid(kept[i]) = r
                    THEN reqs[r] ELSE NoEntry]

(* Mutant of IsHighWater: the counter file is not read back.                *)
IsHighWaterLog(n, counter, recs) ==
    /\ n \in Live(recs) \cup {0}
    /\ \A i \in Live(recs) \cup {0} : i <= n

(* OperationStore::new: the id counter starts at the highest id seen.       *)
IsHighWater(n, counter, recs) ==
    /\ n \in Live(recs) \cup {counter}
    /\ \A i \in Live(recs) \cup {counter} : i <= n

=============================================================================
