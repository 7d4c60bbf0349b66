------------------------------- MODULE Uploads -------------------------------
(***************************************************************************)
(* Three-phase uploads to one target path: upload_file and its data plane   *)
(* (client/src/transfer.rs), upload_prepare / upload_commit / upload_abort  *)
(* and the staging sweeps (server/src/transfer.rs), and their arms of       *)
(* handle() (server.rs).  prepare and abort run without the write guard, so *)
(* they interleave with the steps of a commit; the bytes travel through a   *)
(* process that does not know the server; requests time out at the client   *)
(* while the server goes on; the server dies and forgets its registry.      *)
(***************************************************************************)
EXTENDS Integers, FiniteSets

CONSTANTS
    Uploads,        \* upload_file calls; each has a payload of its own
    NoUpload,
    NoFile, OldFile,
    MaxCrashes, MaxFails, MaxTimeouts

ASSUME UploadsAssumption ==
    /\ NoUpload \notin Uploads /\ NoFile # OldFile
    /\ {NoFile, OldFile} \cap (Uploads \X {"part", "bad", "full"}) = {}
    /\ MaxCrashes \in Nat /\ MaxFails \in Nat /\ MaxTimeouts \in Nat

VARIABLES
    overwrite,  \* the uploads that may replace the target
    pc,         \* where each upload_file call is
    result,     \* what it returned; "dirty" names a failed clean-up as well
    reply,      \* the server's answer to its current control request
    lost,       \* calls whose connection died with the server
    registry,   \* memory: UploadRegistry
    asked,      \* memory: control requests received and not yet begun
    job,        \* memory: where the commit task of each upload is
    guard,      \* memory: holder of write_lock
    log,        \* operations.jsonl: uploads recorded
    staging,    \* the .part files: "none", "empty", or what was received
    stale,      \* staging files not written to for STALE_STAGING_MAX_AGE
    target,     \* NoFile, OldFile, or <<upload, what was received>>
    crashes, fails, timeouts,
    installed   \* ghost: uploads that have become the target

client == <<pc, result, reply, lost>>
server == <<registry, asked, job, guard, log>>
files == <<staging, stale, target, installed>>
bounds == <<crashes, fails, timeouts>>
vars == <<overwrite, client, server, files, bounds>>

Init ==
    /\ overwrite \in SUBSET Uploads
    /\ pc = [u \in Uploads |-> "idle"] /\ result = [u \in Uploads |-> "none"]
    /\ reply = [u \in Uploads |-> "none"] /\ lost = {}
    /\ registry = {} /\ asked = {} /\ job = [u \in Uploads |-> "none"] /\ guard = NoUpload /\ log = {}
    /\ staging = [u \in Uploads |-> "none"] /\ stale = {}
    /\ target \in {NoFile, OldFile}
    /\ crashes = 0 /\ fails = 0 /\ timeouts = 0 /\ installed = {}

Failing == fails < MaxFails /\ fails' = fails + 1

(* The call sends a control request and waits for its answer.               *)
Send(u, to) ==
    /\ pc' = [pc EXCEPT ![u] = to]
    /\ reply' = [reply EXCEPT ![u] = "none"]
    /\ asked' = IF u \in lost THEN asked ELSE asked \cup {<<u, to>>}

Return(u, r) ==
    /\ pc' = [pc EXCEPT ![u] = "done"]
    /\ result' = [result EXCEPT ![u] = r]

(* The answer reaches the call unless it has stopped waiting for it.        *)
Answer(u, phase, r) ==
    reply' = IF pc[u] = phase /\ u \notin lost THEN [reply EXCEPT ![u] = r] ELSE reply

-----------------------------------------------------------------------------
(* upload_prepare.                                                          *)

Begin(u) ==
    /\ pc[u] = "idle" /\ Send(u, "prepare")
    /\ UNCHANGED <<overwrite, result, lost, registry, job, guard, log, files, bounds>>

(* Mutant of Sweepable: registered staging files are not spared.            *)
SweepableAll == {u \in stale : staging[u] # "none"}

(* sweep_stale_staging_*: old enough, and not in flight.                    *)
Sweepable == {u \in stale : staging[u] # "none" /\ u \notin registry}

Prepare(u) ==
    /\ <<u, "prepare">> \in asked
    /\ asked' = asked \ {<<u, "prepare">>}
    /\ \/ /\ target # NoFile /\ u \notin overwrite
          /\ Answer(u, "prepare", "err")
          /\ UNCHANGED <<registry, staging, stale>>
       \/ /\ target = NoFile \/ u \in overwrite
          /\ staging' = [v \in Uploads |-> IF v = u THEN "empty"
                                          ELSE IF v \in Sweepable THEN "none" ELSE staging[v]]
          /\ stale' = stale \ Sweepable
          /\ registry' = registry \cup {u}
          /\ Answer(u, "prepare", "ok")
    /\ UNCHANGED <<overwrite, pc, result, lost, job, guard, log, target, installed, bounds>>

(* gc's sweep of the tree, under the write guard.                           *)
GcSweep ==
    /\ guard = NoUpload /\ Sweepable # {}
    /\ staging' = [v \in Uploads |-> IF v \in Sweepable THEN "none" ELSE staging[v]]
    /\ stale' = stale \ Sweepable
    /\ UNCHANGED <<overwrite, client, server, target, installed, bounds>>

(* No staging path, nothing to abort: the error is returned as it is.       *)
PrepareFails(u) ==
    /\ pc[u] = "prepare" /\ (reply[u] = "err" \/ u \in lost)
    /\ Return(u, "early")
    /\ UNCHANGED <<overwrite, reply, lost, server, files, bounds>>

PrepareTimeout(u) ==
    /\ pc[u] = "prepare" /\ timeouts < MaxTimeouts
    /\ timeouts' = timeouts + 1
    /\ Return(u, "early")
    /\ UNCHANGED <<overwrite, reply, lost, server, files, crashes, fails>>

-----------------------------------------------------------------------------
(* stream_to_receiver and --transfer-receive.                               *)

StreamStart(u) ==
    /\ pc[u] = "prepare" /\ reply[u] = "ok"
    /\ pc' = [pc EXCEPT ![u] = "stream"]
    /\ UNCHANGED <<overwrite, result, reply, lost, server, files, bounds>>

(* Mutant of Verified: only the sizes are compared.                         *)
VerifiedSize(r) == r # "part"

(* Both ends agree on the size and on the SHA-256.                          *)
Verified(r) == r = "full"

(* The receiver has r in the end: everything, a part (the stream broke, the *)
(* source shrank), or as many other bytes.  A file that was swept under it  *)
(* is gone all the same.                                                    *)
Stream(u, r) ==
    /\ pc[u] = "stream"
    /\ staging' = [staging EXCEPT ![u] = IF @ = "none" THEN @ ELSE r]
    /\ stale' = stale \ {u}
    /\ \/ Verified(r) /\ Send(u, "commit")
       \/ ~Verified(r) /\ Send(u, "abort")
    /\ UNCHANGED <<overwrite, result, lost, registry, job, guard, log, target, installed, bounds>>

(* Time passes over an upload that makes no progress.                       *)
Age(u) ==
    /\ staging[u] # "none" /\ stale' = stale \cup {u}
    /\ UNCHANGED <<overwrite, client, server, staging, target, installed, bounds>>

-----------------------------------------------------------------------------
(* upload_commit, under the write guard.                                    *)

CommitEnds(u, r) ==
    /\ job' = [job EXCEPT ![u] = "none"]
    /\ guard' = NoUpload
    /\ Answer(u, "commit", r)

(* The registry entry is looked up and the staged size checked.             *)
CommitCheck(u) ==
    /\ <<u, "commit">> \in asked /\ guard = NoUpload
    /\ asked' = asked \ {<<u, "commit">>}
    /\ \/ /\ u \in registry /\ staging[u] \in {"bad", "full"}
          /\ job' = [job EXCEPT ![u] = "install"]
          /\ guard' = u
          /\ UNCHANGED reply
       \/ /\ u \notin registry \/ staging[u] \notin {"bad", "full"}
          /\ CommitEnds(u, "err")
    /\ UNCHANGED <<overwrite, pc, result, lost, registry, log, files, bounds>>

(* Mutant of CanInstall: renames whether or not the target exists.          *)
CanInstallAlways(u) == staging[u] # "none"

(* Mutant of CanInstall: does not notice that the staging file is gone.     *)
CanInstallMissing(u) == u \in overwrite \/ target = NoFile

(* rename replaces the target; hard_link refuses to.                        *)
CanInstall(u) == staging[u] # "none" /\ (u \in overwrite \/ target = NoFile)

CommitInstall(u) ==
    /\ job[u] = "install"
    /\ \/ /\ CanInstall(u)
          /\ target' = <<u, staging[u]>>
          /\ installed' = installed \cup {u}
          /\ staging' = IF u \in overwrite THEN [staging EXCEPT ![u] = "none"] ELSE staging
          /\ job' = [job EXCEPT ![u] = IF u \in overwrite THEN "record" ELSE "unlink"]
          /\ UNCHANGED <<guard, reply>>
       \/ /\ ~CanInstall(u)
          /\ CommitEnds(u, "err")
          /\ UNCHANGED <<staging, target, installed>>
    /\ UNCHANGED <<overwrite, pc, result, lost, registry, asked, log, stale, bounds>>

(* The staging name of a linked target is removed; an abort may have done so.*)
CommitUnlink(u) ==
    /\ job[u] = "unlink"
    /\ \/ /\ staging[u] # "none"
          /\ staging' = [staging EXCEPT ![u] = "none"]
          /\ job' = [job EXCEPT ![u] = "record"]
          /\ UNCHANGED <<guard, reply>>
       \/ /\ staging[u] = "none"
          /\ CommitEnds(u, "err")
          /\ UNCHANGED staging
    /\ UNCHANGED <<overwrite, pc, result, lost, registry, asked, log, stale, target, installed,
                   bounds>>

CommitRecord(u) ==
    /\ job[u] = "record"
    /\ log' = log \cup {u}
    /\ registry' = registry \ {u}
    /\ CommitEnds(u, "ok")
    /\ UNCHANGED <<overwrite, pc, result, lost, asked, files, bounds>>

(* Mutant of CommitFails: a failed step is reported as a success.           *)
CommitFailsQuietly(u) ==
    /\ job[u] \in {"install", "unlink", "record"} /\ Failing
    /\ CommitEnds(u, "ok")
    /\ UNCHANGED <<overwrite, pc, result, lost, registry, asked, log, files, crashes, timeouts>>

(* rename, link, unlink, fsync or the append fails; what was done stays.    *)
CommitFails(u) ==
    /\ job[u] \in {"install", "unlink", "record"} /\ Failing
    /\ CommitEnds(u, "err")
    /\ \/ UNCHANGED log
       \/ job[u] = "record" /\ log' = log \cup {u}       \* written, not synced
    /\ UNCHANGED <<overwrite, pc, result, lost, registry, asked, files, crashes, timeouts>>

(* The call learns how its commit went, or stops waiting.                   *)
CommitOk(u) ==
    /\ pc[u] = "commit" /\ reply[u] = "ok"
    /\ Return(u, "ok")
    /\ UNCHANGED <<overwrite, reply, lost, server, files, bounds>>

(* Mutant of CommitErr: the staged upload is not aborted.                   *)
CommitErrReturns(u) ==
    /\ pc[u] = "commit" /\ (reply[u] = "err" \/ u \in lost)
    /\ Return(u, "err")
    /\ UNCHANGED <<overwrite, reply, lost, server, files, bounds>>

CommitErr(u) ==
    /\ pc[u] = "commit" /\ (reply[u] = "err" \/ u \in lost)
    /\ Send(u, "abort")
    /\ UNCHANGED <<overwrite, result, lost, registry, job, guard, log, files, bounds>>

CommitTimeout(u) ==
    /\ pc[u] = "commit" /\ timeouts < MaxTimeouts
    /\ timeouts' = timeouts + 1
    /\ Send(u, "abort")
    /\ UNCHANGED <<overwrite, result, lost, registry, job, guard, log, files, crashes, fails>>

-----------------------------------------------------------------------------
(* upload_abort and abort_after.                                            *)

Abort(u) ==
    /\ <<u, "abort">> \in asked
    /\ asked' = asked \ {<<u, "abort">>}
    /\ \/ /\ u \in registry
          /\ registry' = registry \ {u}
          /\ staging' = [staging EXCEPT ![u] = "none"]
          /\ Answer(u, "abort", "ok")
       \/ /\ u \notin registry
          /\ Answer(u, "abort", "err")
          /\ UNCHANGED <<registry, staging>>
    /\ UNCHANGED <<overwrite, pc, result, lost, job, guard, log, stale, target, installed, bounds>>

AbortFails(u) ==
    /\ <<u, "abort">> \in asked /\ u \in registry /\ Failing
    /\ asked' = asked \ {<<u, "abort">>}
    /\ registry' = registry \ {u}
    /\ Answer(u, "abort", "err")
    /\ UNCHANGED <<overwrite, pc, result, lost, job, guard, log, files, crashes, timeouts>>

AbortTimeout(u) ==
    /\ pc[u] = "abort" /\ timeouts < MaxTimeouts
    /\ timeouts' = timeouts + 1
    /\ Return(u, "dirty")
    /\ UNCHANGED <<overwrite, reply, lost, server, files, crashes, fails>>

AbortDone(u) ==
    /\ pc[u] = "abort"
    /\ \/ reply[u] = "ok" /\ Return(u, "err")
       \/ (reply[u] = "err" \/ u \in lost) /\ Return(u, "dirty")
    /\ UNCHANGED <<overwrite, reply, lost, server, files, bounds>>

-----------------------------------------------------------------------------
(* The server dies; the next tool call connects to a new one.               *)
Crash ==
    /\ crashes < MaxCrashes
    /\ crashes' = crashes + 1
    /\ lost' = lost \cup {u \in Uploads : pc[u] \notin {"idle", "done"}}
    /\ registry' = {} /\ asked' = {} /\ job' = [u \in Uploads |-> "none"] /\ guard' = NoUpload
    /\ UNCHANGED <<overwrite, pc, result, reply, log, files, fails, timeouts>>

Idle ==
    /\ \A u \in Uploads : pc[u] = "done" /\ job[u] = "none"
    /\ asked = {}
    /\ UNCHANGED vars

Next ==
    \/ \E u \in Uploads :
          \/ Begin(u) \/ Prepare(u) \/ PrepareFails(u) \/ PrepareTimeout(u) \/ StreamStart(u)
          \/ \E r \in {"part", "bad", "full"} : Stream(u, r)
          \/ Age(u)
          \/ CommitCheck(u) \/ CommitInstall(u) \/ CommitUnlink(u) \/ CommitRecord(u)
          \/ CommitFails(u) \/ CommitOk(u) \/ CommitErr(u) \/ CommitTimeout(u)
          \/ Abort(u) \/ AbortFails(u) \/ AbortTimeout(u) \/ AbortDone(u)
    \/ GcSweep \/ Crash \/ Idle

Spec == Init /\ [][Next]_vars

-----------------------------------------------------------------------------
(* Properties.                                                               *)

TypeOK ==
    /\ overwrite \in SUBSET Uploads /\ lost \in SUBSET Uploads
    /\ pc \in [Uploads -> {"idle", "prepare", "stream", "commit", "abort", "done"}]
    /\ result \in [Uploads -> {"none", "early", "ok", "err", "dirty"}]
    /\ reply \in [Uploads -> {"none", "ok", "err"}]
    /\ registry \in SUBSET Uploads /\ log \in SUBSET Uploads /\ installed \in SUBSET Uploads
    /\ asked \in SUBSET (Uploads \X {"prepare", "commit", "abort"})
    /\ job \in [Uploads -> {"none", "install", "unlink", "record"}]
    /\ guard \in Uploads \cup {NoUpload}
    /\ staging \in [Uploads -> {"none", "empty", "part", "bad", "full"}]
    /\ stale \in SUBSET Uploads
    /\ target \in {NoFile, OldFile} \cup (Uploads \X {"part", "bad", "full"})
    /\ crashes \in Nat /\ fails \in Nat /\ timeouts \in Nat

(* README "Installation is atomic": the target is what it was, or the whole   *)
(* verified payload of one upload, whatever failed, raced or was swept.       *)
WholeTarget == target \in {NoFile, OldFile} \cup (Uploads \X {"full"})

(* README "Existing destinations are refused unless overwrite=true", also     *)
(* those that appear while the upload runs: no step of an upload without the  *)
(* flag replaces a file.                                                      *)
NoClobber ==
    [][target # NoFile /\ target' # target => \E u \in overwrite : target'[1] = u]_vars

(* A success is true: the upload became the target and its record is in the   *)
(* log; and the log names only uploads that became the target.                *)
OkIsLogged ==
    /\ \A u \in Uploads : result[u] = "ok" => u \in log
    /\ log \subseteq installed

(* transfer.rs "every failure must abort the prepared upload so the remote    *)
(* staging file is cleaned up": after a success, or a failure that does not   *)
(* mention the clean-up, nothing of the upload is left on the server.         *)
NoLitter ==
    \A u \in Uploads : result[u] \in {"ok", "err"} =>
        staging[u] = "none" /\ u \notin registry

(* transfer.rs "Staging paths of uploads currently in flight; the sweeps must *)
(* never touch these": a prepared upload keeps its staging file until its own *)
(* commit or abort, however long it stalls, unless the server forgot it.      *)
InFlightKept ==
    \A u \in registry :
        pc[u] = "stream" \/ <<u, "commit">> \in asked => staging[u] # "none"

(* README "a failed or disconnected transfer leaves the destination absent    *)
(* (or untouched)".  True as long as the commit is neither interrupted nor    *)
(* abandoned: losing a race to another upload, a sweep or a bad stream fails  *)
(* an upload only before its install.                                         *)
FailedUntouched ==
    crashes = 0 /\ fails = 0 /\ timeouts = 0 =>
        \A u \in Uploads : result[u] \in {"early", "err", "dirty"} => u \notin installed

(* Only whole verified payloads reach the target, and what is told and logged *)
(* is what was installed.                                                    *)
InstallsSound == TypeOK /\ WholeTarget /\ OkIsLogged

(* Staging files stay as long as their upload needs them and no longer, and a *)
(* failure that was neither interrupted nor abandoned leaves no trace.       *)
FailsClean == NoLitter /\ InFlightKept /\ FailedUntouched
=============================================================================
