---------------------------- MODULE UploadsProofs ----------------------------
(***************************************************************************)
(* InstallsSound, FailsClean and NoClobber for any number of concurrent     *)
(* uploads to one target, and any number of crashes, failing calls,         *)
(* timeouts and sweeps.                                                     *)
(***************************************************************************)
EXTENDS Uploads, TLAPS

(* The write guard is held exactly while a commit runs.                     *)
GuardHeld == \A u \in Uploads : guard = u <=> job[u] # "none"

Committing(u) == <<u, "commit">> \in asked \/ job[u] # "none"

(* Which control requests of a call can still reach the server.  Nothing    *)
(* brings a staging file back: a prepare is pending only before its answer. *)
RequestOrder(u) ==
    /\ pc[u] = "done" <=> result[u] # "none"
    /\ <<u, "prepare">> \in asked => \/ pc[u] = "prepare" /\ reply[u] = "none"
                                     \/ result[u] = "early"
    /\ Committing(u) => pc[u] \in {"commit", "abort", "done"} /\ result[u] # "early"
    /\ <<u, "commit">> \in asked => job[u] = "none"
    /\ <<u, "abort">> \in asked => pc[u] \in {"abort", "done"} /\ result[u] # "early"

(* The call has not come to its install, or never will.                     *)
BeforeInstall(u) ==
    \/ pc[u] \in {"idle", "prepare", "stream"} \/ result[u] = "early"
    \/ <<u, "commit">> \in asked \/ job[u] = "install"

(* How far the commit has come, and what it finds in the staging file.      *)
CommitStage(u) ==
    /\ Committing(u) => staging[u] \in {"none", "full"}
    /\ job[u] = "record" => staging[u] = "none"
    /\ job[u] \in {"unlink", "record"} \/ u \in log => u \in installed
    /\ BeforeInstall(u) => u \notin installed

(* The call knows that the server has nothing left of it.                   *)
CleanUp(u) ==
    \/ pc[u] \in {"commit", "abort"} /\ reply[u] = "ok"
    \/ result[u] \in {"ok", "err"}

(* The call counts on its staging file.                                     *)
InFlight(u) ==
    \/ pc[u] = "prepare" /\ reply[u] = "ok"
    \/ pc[u] = "stream" \/ <<u, "commit">> \in asked

(* What an answer tells the call about the server.                          *)
Told(u) ==
    /\ pc[u] = "commit" /\ reply[u] = "ok" => u \in log
    /\ result[u] = "ok" => u \in log
    /\ CleanUp(u) => staging[u] = "none" /\ u \notin registry
    /\ u \in registry /\ InFlight(u) => staging[u] # "none"

Quiet == crashes = 0 /\ fails = 0 /\ timeouts = 0

Failed(u) ==
    \/ pc[u] = "abort" \/ result[u] \in {"err", "dirty"}
    \/ pc[u] = "commit" /\ reply[u] = "err"

(* Without crashes, failing calls and timeouts the client and the server    *)
(* are never out of step.                                                   *)
InStep(u) ==
    /\ lost = {}
    /\ Committing(u) => pc[u] = "commit" /\ reply[u] = "none"
    /\ job[u] # "none" => u \in registry
    /\ job[u] = "unlink" => staging[u] # "none"
    /\ <<u, "abort">> \in asked => pc[u] = "abort" /\ reply[u] = "none"
    /\ Failed(u) => u \notin installed

UploadPart(u) == RequestOrder(u) /\ CommitStage(u) /\ Told(u) /\ (Quiet => InStep(u))

UploadInv == TypeOK /\ WholeTarget /\ GuardHeld /\ \A u \in Uploads : UploadPart(u)

-----------------------------------------------------------------------------
(* A step leaves an upload alone when it touches nothing of it.             *)
LeavesAlone(v) ==
    /\ UNCHANGED <<pc[v], result[v], reply[v], job[v], staging[v]>>
    /\ v \in registry' <=> v \in registry
    /\ v \in log' <=> v \in log
    /\ v \in installed' <=> v \in installed
    /\ \A x \in {"prepare", "commit", "abort"} : <<v, x>> \in asked' <=> <<v, x>> \in asked
    /\ Quiet' => Quiet /\ lost' = lost

(* What is true of an upload is about nothing else.                         *)
LEMMA PartKept ==
  ASSUME NEW v \in Uploads, UploadPart(v), LeavesAlone(v)
  PROVE  UploadPart(v)'
<1>1. RequestOrder(v)'
  BY DEF UploadPart, RequestOrder, Committing, LeavesAlone
<1>2. CommitStage(v)'
  BY DEF UploadPart, CommitStage, BeforeInstall, Committing, LeavesAlone
<1>3. Told(v)'
  BY DEF UploadPart, Told, CleanUp, InFlight, LeavesAlone
<1>4. Quiet' => InStep(v)'
  BY DEF UploadPart, InStep, Failed, Committing, LeavesAlone
<1> QED  BY <1>1, <1>2, <1>3, <1>4 DEF UploadPart

(* A sweep took the staging file of an upload that is not registered.       *)
Swept(v) ==
    /\ v \notin registry /\ staging'[v] = "none"
    /\ UNCHANGED <<pc[v], result[v], reply[v], job[v], log, installed>>
    /\ v \notin registry'
    /\ \A x \in {"prepare", "commit", "abort"} : <<v, x>> \in asked' <=> <<v, x>> \in asked
    /\ Quiet' => Quiet /\ lost' = lost

(* Such a sweep is noticed by the commit, never installed.                  *)
LEMMA SweptKept ==
  ASSUME NEW v \in Uploads, UploadPart(v), Swept(v)
  PROVE  UploadPart(v)'
<1>1. RequestOrder(v)'
  BY DEF UploadPart, RequestOrder, Committing, Swept
<1>2. CommitStage(v)'
  BY DEF UploadPart, CommitStage, BeforeInstall, Committing, Swept
<1>3. Told(v)'
  BY DEF UploadPart, Told, CleanUp, InFlight, Swept
<1>4. Quiet' => InStep(v)'
  BY DEF UploadPart, InStep, Failed, Committing, Swept
<1> QED  BY <1>1, <1>2, <1>3, <1>4 DEF UploadPart

(* So a step of one upload is judged by what it does to that one.           *)
LEMMA StepOf ==
  ASSUME UploadInv, NEW u \in Uploads, TypeOK', WholeTarget', GuardHeld', UploadPart(u)',
         \A v \in Uploads \ {u} : LeavesAlone(v)
  PROVE  UploadInv'
  BY PartKept DEF UploadInv

(* Nothing is staged, asked or installed at the start.                      *)
LEMMA UploadInit == Init => UploadInv
  BY UploadsAssumption
     DEF Init, UploadInv, TypeOK, WholeTarget, GuardHeld, UploadPart, RequestOrder, CommitStage,
         Told, InStep, Committing, BeforeInstall, CleanUp, InFlight, Failed

(* Steps of upload_file that only look at an answer or at the clock.        *)
LEMMA CallKept ==
  ASSUME UploadInv, NEW u \in Uploads,
         \/ Begin(u) \/ PrepareFails(u) \/ PrepareTimeout(u) \/ StreamStart(u) \/ CommitOk(u)
         \/ CommitErr(u) \/ CommitTimeout(u) \/ AbortTimeout(u) \/ AbortDone(u)
  PROVE  UploadInv'
<1> USE DEF Send, Return, Answer, CommitEnds, Failing, client, server, files, bounds
<1>0. TypeOK /\ WholeTarget /\ GuardHeld /\ UploadPart(u)
  BY DEF UploadInv
<1>1. CASE Begin(u)
  <2>1. TypeOK'
    BY <1>0, <1>1 DEF TypeOK, Begin
  <2>2. WholeTarget'
    BY <1>0, <1>1 DEF TypeOK, WholeTarget, Begin
  <2>3. GuardHeld'
    BY <1>0, <1>1, UploadsAssumption DEF TypeOK, GuardHeld, Begin
  <2>4. ASSUME NEW v \in Uploads \ {u} PROVE LeavesAlone(v)
    BY <1>0, <1>1 DEF TypeOK, LeavesAlone, Quiet, Begin
  <2>5. RequestOrder(u)'
    BY <1>0, <1>1 DEF TypeOK, UploadPart, RequestOrder, Committing, Begin
  <2>6. CommitStage(u)'
    BY <1>0, <1>1 DEF TypeOK, UploadPart, RequestOrder, CommitStage, BeforeInstall,
         Committing, Begin
  <2>7. Told(u)'
    BY <1>0, <1>1 DEF TypeOK, UploadPart, RequestOrder, CommitStage, Told, CleanUp,
         InFlight, Committing, Begin
  <2>8. Quiet' => InStep(u)'
    BY <1>0, <1>1 DEF TypeOK, UploadPart, RequestOrder, CommitStage, BeforeInstall,
         InStep, Failed, Quiet, Committing, Begin
  <2> QED  BY <2>1, <2>2, <2>3, <2>4, <2>5, <2>6, <2>7, <2>8, StepOf DEF UploadPart
<1>2. CASE PrepareFails(u)
  <2>1. TypeOK'
    BY <1>0, <1>2 DEF TypeOK, PrepareFails
  <2>2. WholeTarget'
    BY <1>0, <1>2 DEF TypeOK, WholeTarget, PrepareFails
  <2>3. GuardHeld'
    BY <1>0, <1>2, UploadsAssumption DEF TypeOK, GuardHeld, PrepareFails
  <2>4. ASSUME NEW v \in Uploads \ {u} PROVE LeavesAlone(v)
    BY <1>0, <1>2 DEF TypeOK, LeavesAlone, Quiet, PrepareFails
  <2>5. RequestOrder(u)'
    BY <1>0, <1>2 DEF TypeOK, UploadPart, RequestOrder, Committing, PrepareFails
  <2>6. CommitStage(u)'
    BY <1>0, <1>2 DEF TypeOK, UploadPart, RequestOrder, CommitStage, BeforeInstall,
         Committing, PrepareFails
  <2>7. Told(u)'
    BY <1>0, <1>2 DEF TypeOK, UploadPart, RequestOrder, CommitStage, Told, CleanUp,
         InFlight, Committing, PrepareFails
  <2>8. Quiet' => InStep(u)'
    BY <1>0, <1>2 DEF TypeOK, UploadPart, RequestOrder, CommitStage, BeforeInstall,
         InStep, Failed, Quiet, Committing, PrepareFails
  <2> QED  BY <2>1, <2>2, <2>3, <2>4, <2>5, <2>6, <2>7, <2>8, StepOf DEF UploadPart
<1>3. CASE PrepareTimeout(u)
  <2>1. TypeOK'
    BY <1>0, <1>3 DEF TypeOK, PrepareTimeout
  <2>2. WholeTarget'
    BY <1>0, <1>3 DEF TypeOK, WholeTarget, PrepareTimeout
  <2>3. GuardHeld'
    BY <1>0, <1>3, UploadsAssumption DEF TypeOK, GuardHeld, PrepareTimeout
  <2>4. ASSUME NEW v \in Uploads \ {u} PROVE LeavesAlone(v)
    BY <1>0, <1>3 DEF TypeOK, LeavesAlone, Quiet, PrepareTimeout
  <2>5. RequestOrder(u)'
    BY <1>0, <1>3 DEF TypeOK, UploadPart, RequestOrder, Committing, PrepareTimeout
  <2>6. CommitStage(u)'
    BY <1>0, <1>3 DEF TypeOK, UploadPart, RequestOrder, CommitStage, BeforeInstall,
         Committing, PrepareTimeout
  <2>7. Told(u)'
    BY <1>0, <1>3 DEF TypeOK, UploadPart, RequestOrder, CommitStage, Told, CleanUp,
         InFlight, Committing, PrepareTimeout
  <2>8. Quiet' => InStep(u)'
    BY <1>0, <1>3 DEF TypeOK, UploadPart, RequestOrder, CommitStage, BeforeInstall,
         InStep, Failed, Quiet, Committing, PrepareTimeout
  <2> QED  BY <2>1, <2>2, <2>3, <2>4, <2>5, <2>6, <2>7, <2>8, StepOf DEF UploadPart
<1>4. CASE StreamStart(u)
  <2>1. TypeOK'
    BY <1>0, <1>4 DEF TypeOK, StreamStart
  <2>2. WholeTarget'
    BY <1>0, <1>4 DEF TypeOK, WholeTarget, StreamStart
  <2>3. GuardHeld'
    BY <1>0, <1>4, UploadsAssumption DEF TypeOK, GuardHeld, StreamStart
  <2>4. ASSUME NEW v \in Uploads \ {u} PROVE LeavesAlone(v)
    BY <1>0, <1>4 DEF TypeOK, LeavesAlone, Quiet, StreamStart
  <2>5. RequestOrder(u)'
    BY <1>0, <1>4 DEF TypeOK, UploadPart, RequestOrder, Committing, StreamStart
  <2>6. CommitStage(u)'
    BY <1>0, <1>4 DEF TypeOK, UploadPart, RequestOrder, CommitStage, BeforeInstall,
         Committing, StreamStart
  <2>7. Told(u)'
    BY <1>0, <1>4 DEF TypeOK, UploadPart, RequestOrder, CommitStage, Told, CleanUp,
         InFlight, Committing, StreamStart
  <2>8. Quiet' => InStep(u)'
    BY <1>0, <1>4 DEF TypeOK, UploadPart, RequestOrder, CommitStage, BeforeInstall,
         InStep, Failed, Quiet, Committing, StreamStart
  <2> QED  BY <2>1, <2>2, <2>3, <2>4, <2>5, <2>6, <2>7, <2>8, StepOf DEF UploadPart
<1>5. CASE CommitOk(u)
  <2>1. TypeOK'
    BY <1>0, <1>5 DEF TypeOK, CommitOk
  <2>2. WholeTarget'
    BY <1>0, <1>5 DEF TypeOK, WholeTarget, CommitOk
  <2>3. GuardHeld'
    BY <1>0, <1>5, UploadsAssumption DEF TypeOK, GuardHeld, CommitOk
  <2>4. ASSUME NEW v \in Uploads \ {u} PROVE LeavesAlone(v)
    BY <1>0, <1>5 DEF TypeOK, LeavesAlone, Quiet, CommitOk
  <2>5. RequestOrder(u)'
    BY <1>0, <1>5 DEF TypeOK, UploadPart, RequestOrder, Committing, CommitOk
  <2>6. CommitStage(u)'
    BY <1>0, <1>5 DEF TypeOK, UploadPart, RequestOrder, CommitStage, BeforeInstall,
         Committing, CommitOk
  <2>7. Told(u)'
    BY <1>0, <1>5 DEF TypeOK, UploadPart, RequestOrder, CommitStage, Told, CleanUp,
         InFlight, Committing, CommitOk
  <2>8. Quiet' => InStep(u)'
    BY <1>0, <1>5 DEF TypeOK, UploadPart, RequestOrder, CommitStage, BeforeInstall,
         InStep, Failed, Quiet, Committing, CommitOk
  <2> QED  BY <2>1, <2>2, <2>3, <2>4, <2>5, <2>6, <2>7, <2>8, StepOf DEF UploadPart
<1>6. CASE CommitErr(u)
  <2>1. TypeOK'
    BY <1>0, <1>6 DEF TypeOK, CommitErr
  <2>2. WholeTarget'
    BY <1>0, <1>6 DEF TypeOK, WholeTarget, CommitErr
  <2>3. GuardHeld'
    BY <1>0, <1>6, UploadsAssumption DEF TypeOK, GuardHeld, CommitErr
  <2>4. ASSUME NEW v \in Uploads \ {u} PROVE LeavesAlone(v)
    BY <1>0, <1>6 DEF TypeOK, LeavesAlone, Quiet, CommitErr
  <2>5. RequestOrder(u)'
    BY <1>0, <1>6 DEF TypeOK, UploadPart, RequestOrder, Committing, CommitErr
  <2>6. CommitStage(u)'
    BY <1>0, <1>6 DEF TypeOK, UploadPart, RequestOrder, CommitStage, BeforeInstall,
         Committing, CommitErr
  <2>7. Told(u)'
    BY <1>0, <1>6 DEF TypeOK, UploadPart, RequestOrder, CommitStage, Told, CleanUp,
         InFlight, Committing, CommitErr
  <2>8. Quiet' => InStep(u)'
    BY <1>0, <1>6 DEF TypeOK, UploadPart, RequestOrder, CommitStage, BeforeInstall,
         InStep, Failed, Quiet, Committing, CommitErr
  <2> QED  BY <2>1, <2>2, <2>3, <2>4, <2>5, <2>6, <2>7, <2>8, StepOf DEF UploadPart
<1>7. CASE CommitTimeout(u)
  <2>1. TypeOK'
    BY <1>0, <1>7 DEF TypeOK, CommitTimeout
  <2>2. WholeTarget'
    BY <1>0, <1>7 DEF TypeOK, WholeTarget, CommitTimeout
  <2>3. GuardHeld'
    BY <1>0, <1>7, UploadsAssumption DEF TypeOK, GuardHeld, CommitTimeout
  <2>4. ASSUME NEW v \in Uploads \ {u} PROVE LeavesAlone(v)
    BY <1>0, <1>7 DEF TypeOK, LeavesAlone, Quiet, CommitTimeout
  <2>5. RequestOrder(u)'
    BY <1>0, <1>7 DEF TypeOK, UploadPart, RequestOrder, Committing, CommitTimeout
  <2>6. CommitStage(u)'
    BY <1>0, <1>7 DEF TypeOK, UploadPart, RequestOrder, CommitStage, BeforeInstall,
         Committing, CommitTimeout
  <2>7. Told(u)'
    BY <1>0, <1>7 DEF TypeOK, UploadPart, RequestOrder, CommitStage, Told, CleanUp,
         InFlight, Committing, CommitTimeout
  <2>8. Quiet' => InStep(u)'
    BY <1>0, <1>7 DEF TypeOK, UploadPart, RequestOrder, CommitStage, BeforeInstall,
         InStep, Failed, Quiet, Committing, CommitTimeout
  <2> QED  BY <2>1, <2>2, <2>3, <2>4, <2>5, <2>6, <2>7, <2>8, StepOf DEF UploadPart
<1>8. CASE AbortTimeout(u)
  <2>1. TypeOK'
    BY <1>0, <1>8 DEF TypeOK, AbortTimeout
  <2>2. WholeTarget'
    BY <1>0, <1>8 DEF TypeOK, WholeTarget, AbortTimeout
  <2>3. GuardHeld'
    BY <1>0, <1>8, UploadsAssumption DEF TypeOK, GuardHeld, AbortTimeout
  <2>4. ASSUME NEW v \in Uploads \ {u} PROVE LeavesAlone(v)
    BY <1>0, <1>8 DEF TypeOK, LeavesAlone, Quiet, AbortTimeout
  <2>5. RequestOrder(u)'
    BY <1>0, <1>8 DEF TypeOK, UploadPart, RequestOrder, Committing, AbortTimeout
  <2>6. CommitStage(u)'
    BY <1>0, <1>8 DEF TypeOK, UploadPart, RequestOrder, CommitStage, BeforeInstall,
         Committing, AbortTimeout
  <2>7. Told(u)'
    BY <1>0, <1>8 DEF TypeOK, UploadPart, RequestOrder, CommitStage, Told, CleanUp,
         InFlight, Committing, AbortTimeout
  <2>8. Quiet' => InStep(u)'
    BY <1>0, <1>8 DEF TypeOK, UploadPart, RequestOrder, CommitStage, BeforeInstall,
         InStep, Failed, Quiet, Committing, AbortTimeout
  <2> QED  BY <2>1, <2>2, <2>3, <2>4, <2>5, <2>6, <2>7, <2>8, StepOf DEF UploadPart
<1>9. CASE AbortDone(u)
  <2>1. TypeOK'
    BY <1>0, <1>9 DEF TypeOK, AbortDone
  <2>2. WholeTarget'
    BY <1>0, <1>9 DEF TypeOK, WholeTarget, AbortDone
  <2>3. GuardHeld'
    BY <1>0, <1>9, UploadsAssumption DEF TypeOK, GuardHeld, AbortDone
  <2>4. ASSUME NEW v \in Uploads \ {u} PROVE LeavesAlone(v)
    BY <1>0, <1>9 DEF TypeOK, LeavesAlone, Quiet, AbortDone
  <2>5. RequestOrder(u)'
    BY <1>0, <1>9 DEF TypeOK, UploadPart, RequestOrder, Committing, AbortDone
  <2>6. CommitStage(u)'
    BY <1>0, <1>9 DEF TypeOK, UploadPart, RequestOrder, CommitStage, BeforeInstall,
         Committing, AbortDone
  <2>7. Told(u)'
    BY <1>0, <1>9 DEF TypeOK, UploadPart, RequestOrder, CommitStage, Told, CleanUp,
         InFlight, Committing, AbortDone
  <2>8. Quiet' => InStep(u)'
    BY <1>0, <1>9 DEF TypeOK, UploadPart, RequestOrder, CommitStage, BeforeInstall,
         InStep, Failed, Quiet, Committing, AbortDone
  <2> QED  BY <2>1, <2>2, <2>3, <2>4, <2>5, <2>6, <2>7, <2>8, StepOf DEF UploadPart
<1> QED  BY <1>1, <1>2, <1>3, <1>4, <1>5, <1>6, <1>7, <1>8, <1>9

(* Steps of upload_commit, under the write guard.                           *)
LEMMA CommitKept ==
  ASSUME UploadInv, NEW u \in Uploads,
         CommitCheck(u) \/ CommitInstall(u) \/ CommitUnlink(u) \/ CommitRecord(u) \/ CommitFails(u)
  PROVE  UploadInv'
<1> USE DEF Send, Return, Answer, CommitEnds, Failing, client, server, files, bounds
<1>0. TypeOK /\ WholeTarget /\ GuardHeld /\ UploadPart(u)
  BY DEF UploadInv
<1>1. CASE CommitCheck(u)
  <2>1. TypeOK'
    BY <1>0, <1>1 DEF TypeOK, CommitCheck
  <2>2. WholeTarget'
    BY <1>0, <1>1 DEF TypeOK, WholeTarget, CommitCheck
  <2>3. GuardHeld'
    BY <1>0, <1>1, UploadsAssumption DEF TypeOK, GuardHeld, CommitCheck
  <2>4. ASSUME NEW v \in Uploads \ {u} PROVE LeavesAlone(v)
    BY <1>0, <1>1 DEF TypeOK, LeavesAlone, Quiet, CommitCheck
  <2>5. RequestOrder(u)'
    BY <1>0, <1>1 DEF TypeOK, UploadPart, RequestOrder, Committing, CommitCheck
  <2>6. CommitStage(u)'
    BY <1>0, <1>1 DEF TypeOK, UploadPart, RequestOrder, CommitStage, BeforeInstall,
         Committing, CommitCheck
  <2>7. Told(u)'
    BY <1>0, <1>1 DEF TypeOK, UploadPart, RequestOrder, CommitStage, Told, CleanUp,
         InFlight, Committing, CommitCheck
  <2>8. Quiet' => InStep(u)'
    BY <1>0, <1>1 DEF TypeOK, UploadPart, RequestOrder, CommitStage, BeforeInstall,
         InStep, Failed, Quiet, Committing, CommitCheck
  <2> QED  BY <2>1, <2>2, <2>3, <2>4, <2>5, <2>6, <2>7, <2>8, StepOf DEF UploadPart
<1>2. CASE CommitInstall(u)
  <2>1. TypeOK'
    BY <1>0, <1>2 DEF TypeOK, CommitInstall, CanInstall, UploadPart, CommitStage, Committing
  <2>2. WholeTarget'
    BY <1>0, <1>2 DEF TypeOK, WholeTarget, CommitInstall, CanInstall, UploadPart,
         CommitStage, Committing
  <2>3. GuardHeld'
    BY <1>0, <1>2, UploadsAssumption DEF TypeOK, GuardHeld, CommitInstall
  <2>4. ASSUME NEW v \in Uploads \ {u} PROVE LeavesAlone(v)
    BY <1>0, <1>2 DEF TypeOK, LeavesAlone, Quiet, CommitInstall
  <2>5. RequestOrder(u)'
    BY <1>0, <1>2 DEF TypeOK, UploadPart, RequestOrder, Committing, CommitInstall
  <2>6. CommitStage(u)'
    BY <1>0, <1>2 DEF TypeOK, UploadPart, RequestOrder, CommitStage, BeforeInstall,
         Committing, CommitInstall, CanInstall
  <2>7. Told(u)'
    BY <1>0, <1>2 DEF TypeOK, UploadPart, RequestOrder, CommitStage, Told, CleanUp,
         InFlight, Committing, CommitInstall
  <2>8. Quiet' => InStep(u)'
    BY <1>0, <1>2 DEF TypeOK, UploadPart, RequestOrder, CommitStage, BeforeInstall,
         InStep, Failed, Quiet, Committing, CommitInstall, CanInstall
  <2> QED  BY <2>1, <2>2, <2>3, <2>4, <2>5, <2>6, <2>7, <2>8, StepOf DEF UploadPart
<1>3. CASE CommitUnlink(u)
  <2>1. TypeOK'
    BY <1>0, <1>3 DEF TypeOK, CommitUnlink
  <2>2. WholeTarget'
    BY <1>0, <1>3 DEF TypeOK, WholeTarget, CommitUnlink
  <2>3. GuardHeld'
    BY <1>0, <1>3, UploadsAssumption DEF TypeOK, GuardHeld, CommitUnlink
  <2>4. ASSUME NEW v \in Uploads \ {u} PROVE LeavesAlone(v)
    BY <1>0, <1>3 DEF TypeOK, LeavesAlone, Quiet, CommitUnlink
  <2>5. RequestOrder(u)'
    BY <1>0, <1>3 DEF TypeOK, UploadPart, RequestOrder, Committing, CommitUnlink
  <2>6. CommitStage(u)'
    BY <1>0, <1>3 DEF TypeOK, UploadPart, RequestOrder, CommitStage, BeforeInstall,
         Committing, CommitUnlink
  <2>7. Told(u)'
    BY <1>0, <1>3 DEF TypeOK, UploadPart, RequestOrder, CommitStage, Told, CleanUp,
         InFlight, Committing, CommitUnlink
  <2>8. Quiet' => InStep(u)'
    BY <1>0, <1>3 DEF TypeOK, UploadPart, RequestOrder, CommitStage, BeforeInstall,
         InStep, Failed, Quiet, Committing, CommitUnlink
  <2> QED  BY <2>1, <2>2, <2>3, <2>4, <2>5, <2>6, <2>7, <2>8, StepOf DEF UploadPart
<1>4. CASE CommitRecord(u)
  <2>1. TypeOK'
    BY <1>0, <1>4 DEF TypeOK, CommitRecord
  <2>2. WholeTarget'
    BY <1>0, <1>4 DEF TypeOK, WholeTarget, CommitRecord
  <2>3. GuardHeld'
    BY <1>0, <1>4, UploadsAssumption DEF TypeOK, GuardHeld, CommitRecord
  <2>4. ASSUME NEW v \in Uploads \ {u} PROVE LeavesAlone(v)
    BY <1>0, <1>4 DEF TypeOK, LeavesAlone, Quiet, CommitRecord
  <2>5. RequestOrder(u)'
    BY <1>0, <1>4 DEF TypeOK, UploadPart, RequestOrder, Committing, CommitRecord
  <2>6. CommitStage(u)'
    BY <1>0, <1>4 DEF TypeOK, UploadPart, RequestOrder, CommitStage, BeforeInstall,
         Committing, CommitRecord
  <2>7. Told(u)'
    BY <1>0, <1>4 DEF TypeOK, UploadPart, RequestOrder, CommitStage, Told, CleanUp,
         InFlight, Committing, CommitRecord
  <2>8. Quiet' => InStep(u)'
    BY <1>0, <1>4 DEF TypeOK, UploadPart, RequestOrder, CommitStage, BeforeInstall,
         InStep, Failed, Quiet, Committing, CommitRecord
  <2> QED  BY <2>1, <2>2, <2>3, <2>4, <2>5, <2>6, <2>7, <2>8, StepOf DEF UploadPart
<1>5. CASE CommitFails(u)
  <2>1. TypeOK'
    BY <1>0, <1>5 DEF TypeOK, CommitFails
  <2>2. WholeTarget'
    BY <1>0, <1>5 DEF TypeOK, WholeTarget, CommitFails
  <2>3. GuardHeld'
    BY <1>0, <1>5, UploadsAssumption DEF TypeOK, GuardHeld, CommitFails
  <2>4. ASSUME NEW v \in Uploads \ {u} PROVE LeavesAlone(v)
    BY <1>0, <1>5 DEF TypeOK, LeavesAlone, Quiet, CommitFails
  <2>5. RequestOrder(u)'
    BY <1>0, <1>5 DEF TypeOK, UploadPart, RequestOrder, Committing, CommitFails
  <2>6. CommitStage(u)'
    BY <1>0, <1>5 DEF TypeOK, UploadPart, RequestOrder, CommitStage, BeforeInstall,
         Committing, CommitFails
  <2>7. Told(u)'
    BY <1>0, <1>5 DEF TypeOK, UploadPart, RequestOrder, CommitStage, Told, CleanUp,
         InFlight, Committing, CommitFails
  <2>8. Quiet' => InStep(u)'
    BY <1>0, <1>5 DEF TypeOK, UploadPart, RequestOrder, CommitStage, BeforeInstall,
         InStep, Failed, Quiet, Committing, CommitFails
  <2> QED  BY <2>1, <2>2, <2>3, <2>4, <2>5, <2>6, <2>7, <2>8, StepOf DEF UploadPart
<1> QED  BY <1>1, <1>2, <1>3, <1>4, <1>5

(* upload_abort, which does not wait for the guard.                         *)
LEMMA AbortKept ==
  ASSUME UploadInv, NEW u \in Uploads,
         Abort(u) \/ AbortFails(u)
  PROVE  UploadInv'
<1> USE DEF Send, Return, Answer, CommitEnds, Failing, client, server, files, bounds
<1>0. TypeOK /\ WholeTarget /\ GuardHeld /\ UploadPart(u)
  BY DEF UploadInv
<1>1. CASE Abort(u)
  <2>1. TypeOK'
    BY <1>0, <1>1 DEF TypeOK, Abort
  <2>2. WholeTarget'
    BY <1>0, <1>1 DEF TypeOK, WholeTarget, Abort
  <2>3. GuardHeld'
    BY <1>0, <1>1, UploadsAssumption DEF TypeOK, GuardHeld, Abort
  <2>4. ASSUME NEW v \in Uploads \ {u} PROVE LeavesAlone(v)
    BY <1>0, <1>1 DEF TypeOK, LeavesAlone, Quiet, Abort
  <2>5. RequestOrder(u)'
    BY <1>0, <1>1 DEF TypeOK, UploadPart, RequestOrder, Committing, Abort
  <2>6. CommitStage(u)'
    BY <1>0, <1>1 DEF TypeOK, UploadPart, RequestOrder, CommitStage, BeforeInstall,
         Committing, Abort
  <2>7. Told(u)'
    BY <1>0, <1>1 DEF TypeOK, UploadPart, RequestOrder, CommitStage, Told, CleanUp,
         InFlight, Committing, Abort
  <2>8. Quiet' => InStep(u)'
    BY <1>0, <1>1 DEF TypeOK, UploadPart, RequestOrder, CommitStage, BeforeInstall,
         InStep, Failed, Quiet, Committing, Abort
  <2> QED  BY <2>1, <2>2, <2>3, <2>4, <2>5, <2>6, <2>7, <2>8, StepOf DEF UploadPart
<1>2. CASE AbortFails(u)
  <2>1. TypeOK'
    BY <1>0, <1>2 DEF TypeOK, AbortFails
  <2>2. WholeTarget'
    BY <1>0, <1>2 DEF TypeOK, WholeTarget, AbortFails
  <2>3. GuardHeld'
    BY <1>0, <1>2, UploadsAssumption DEF TypeOK, GuardHeld, AbortFails
  <2>4. ASSUME NEW v \in Uploads \ {u} PROVE LeavesAlone(v)
    BY <1>0, <1>2 DEF TypeOK, LeavesAlone, Quiet, AbortFails
  <2>5. RequestOrder(u)'
    BY <1>0, <1>2 DEF TypeOK, UploadPart, RequestOrder, Committing, AbortFails
  <2>6. CommitStage(u)'
    BY <1>0, <1>2 DEF TypeOK, UploadPart, RequestOrder, CommitStage, BeforeInstall,
         Committing, AbortFails
  <2>7. Told(u)'
    BY <1>0, <1>2 DEF TypeOK, UploadPart, RequestOrder, CommitStage, Told, CleanUp,
         InFlight, Committing, AbortFails
  <2>8. Quiet' => InStep(u)'
    BY <1>0, <1>2 DEF TypeOK, UploadPart, RequestOrder, CommitStage, BeforeInstall,
         InStep, Failed, Quiet, Committing, AbortFails
  <2> QED  BY <2>1, <2>2, <2>3, <2>4, <2>5, <2>6, <2>7, <2>8, StepOf DEF UploadPart
<1> QED  BY <1>1, <1>2

(* upload_prepare: its sweep spares what is in flight.                       *)
LEMMA PrepareKept ==
  ASSUME UploadInv, NEW u \in Uploads, Prepare(u)
  PROVE  UploadInv'
<1> USE DEF Answer, bounds
<1>0. TypeOK /\ WholeTarget /\ GuardHeld /\ UploadPart(u)
  BY DEF UploadInv
<1>1. TypeOK'
  BY <1>0 DEF TypeOK, Prepare
<1>2. WholeTarget' /\ GuardHeld'
  BY <1>0 DEF WholeTarget, GuardHeld, Prepare
<1>3. UploadPart(u)'
  <2>1. RequestOrder(u)'
    BY <1>0 DEF TypeOK, UploadPart, RequestOrder, Committing, Prepare
  <2>2. CommitStage(u)'
    BY <1>0 DEF TypeOK, UploadPart, RequestOrder, CommitStage, BeforeInstall, Committing, Prepare
  <2>3. Told(u)'
    <3>1. /\ pc'[u] = pc[u] /\ result'[u] = result[u] /\ ~Committing(u) /\ ~Committing(u)'
          /\ \/ pc[u] = "prepare" /\ result[u] = "none"
             \/ pc[u] = "done" /\ result[u] = "early"
      <4>1. /\ pc' = pc /\ result' = result /\ job' = job
            /\ <<u, "commit">> \in asked' <=> <<u, "commit">> \in asked
        BY DEF Prepare
      <4>2. <<u, "prepare">> \in asked /\ RequestOrder(u)
        BY <1>0 DEF UploadPart, Prepare
      <4> QED  BY <1>0, <4>1, <4>2 DEF TypeOK, RequestOrder, Committing
    <3>2. reply'[u] = "ok" /\ pc[u] = "prepare" => staging'[u] = "empty"
      BY <1>0 DEF TypeOK, UploadPart, RequestOrder, Prepare
    <3> QED  BY <3>1, <3>2 DEF Told, CleanUp, InFlight, Committing
  <2>4. Quiet' => InStep(u)'
    BY <1>0 DEF TypeOK, UploadPart, RequestOrder, InStep, Failed, Quiet, Committing, Prepare
  <2> QED  BY <2>1, <2>2, <2>3, <2>4 DEF UploadPart
<1>4. ASSUME NEW v \in Uploads \ {u} PROVE UploadPart(v)'
  <2>1. UploadPart(v)
    BY DEF UploadInv
  <2>2. CASE staging'[v] = staging[v]
    <3>1. LeavesAlone(v)
      BY <1>0, <2>2 DEF TypeOK, LeavesAlone, Quiet, Prepare
    <3> QED  BY <2>1, <3>1, PartKept
  <2>3. CASE staging'[v] # staging[v]
    <3>1. staging'[v] = "none" /\ v \notin registry /\ v \notin registry'
      BY <1>0, <2>3 DEF TypeOK, Prepare, Sweepable
    <3>2. Swept(v)
      BY <1>0, <3>1 DEF TypeOK, Swept, Quiet, Prepare
    <3> QED  BY <2>1, <3>2, SweptKept
  <2> QED  BY <2>2, <2>3
<1> QED  BY <1>1, <1>2, <1>3, <1>4 DEF UploadInv

(* gc's sweep of the tree.                                                   *)
LEMMA SweepKept ==
  ASSUME UploadInv, GcSweep
  PROVE  UploadInv'
<1> USE DEF client, server, bounds
<1>0. TypeOK /\ WholeTarget /\ GuardHeld
  BY DEF UploadInv
<1>1. TypeOK'
  BY <1>0 DEF TypeOK, GcSweep
<1>2. WholeTarget' /\ GuardHeld'
  BY <1>0 DEF WholeTarget, GuardHeld, GcSweep
<1>3. ASSUME NEW v \in Uploads PROVE UploadPart(v)'
  <2>1. UploadPart(v)
    BY DEF UploadInv
  <2>2. CASE v \notin Sweepable
    <3>1. LeavesAlone(v)
      BY <1>0, <2>2 DEF TypeOK, LeavesAlone, Quiet, GcSweep
    <3> QED  BY <2>1, <3>1, PartKept
  <2>3. CASE v \in Sweepable
    <3>1. Swept(v)
      BY <1>0, <2>3 DEF TypeOK, Swept, Quiet, GcSweep, Sweepable
    <3> QED  BY <2>1, <3>1, SweptKept
  <2> QED  BY <2>2, <2>3
<1> QED  BY <1>1, <1>2, <1>3 DEF UploadInv

(* The bytes arrive, or some of them; only a verified stream asks for the    *)
(* commit.                                                                   *)
LEMMA StreamKept ==
  ASSUME UploadInv, NEW u \in Uploads, NEW r \in {"part", "bad", "full"}, Stream(u, r)
  PROVE  UploadInv'
<1> USE DEF Send, Verified, bounds
<1>0. TypeOK /\ WholeTarget /\ GuardHeld /\ UploadPart(u)
  BY DEF UploadInv
<1>1. TypeOK'
  BY <1>0 DEF TypeOK, Stream
<1>2. WholeTarget' /\ GuardHeld'
  BY <1>0 DEF WholeTarget, GuardHeld, Stream
<1>3. ASSUME NEW v \in Uploads \ {u} PROVE LeavesAlone(v)
  BY <1>0 DEF TypeOK, LeavesAlone, Quiet, Stream
<1>4. RequestOrder(u)'
  BY <1>0 DEF TypeOK, UploadPart, RequestOrder, Committing, Stream
<1>5. CommitStage(u)'
  BY <1>0 DEF TypeOK, UploadPart, RequestOrder, CommitStage, BeforeInstall, Committing, Stream
<1>6. Told(u)'
  BY <1>0 DEF TypeOK, UploadPart, RequestOrder, CommitStage, Told, CleanUp, InFlight,
       Committing, Stream
<1>7. Quiet' => InStep(u)'
  BY <1>0 DEF TypeOK, UploadPart, RequestOrder, CommitStage, BeforeInstall, InStep,
       Failed, Quiet, Committing, Stream
<1> QED  BY <1>1, <1>2, <1>3, <1>4, <1>5, <1>6, <1>7, StepOf DEF UploadPart

(* Time passes, or the server dies and forgets.                              *)
LEMMA RestKept ==
  ASSUME UploadInv, Crash \/ UNCHANGED vars \/ \E u \in Uploads : Age(u)
  PROVE  UploadInv'
<1> USE DEF client, server, files, bounds, vars
<1>0. TypeOK /\ WholeTarget /\ GuardHeld
  BY DEF UploadInv
<1>1. CASE Crash
  <2>1. TypeOK' /\ WholeTarget'
    BY <1>0, <1>1 DEF TypeOK, WholeTarget, Crash
  <2>2. GuardHeld'
    BY <1>1, UploadsAssumption DEF GuardHeld, Crash
  <2>3. ASSUME NEW v \in Uploads PROVE UploadPart(v)'
    <3>1. UploadPart(v)
      BY DEF UploadInv
    <3>2. /\ ~Quiet' /\ ~Committing(v)' /\ v \notin registry' /\ job'[v] = "none" /\ asked' = {}
          /\ UNCHANGED <<pc, result, reply, log, staging, installed>>
      BY <1>0, <1>1 DEF TypeOK, Quiet, Committing, Crash
    <3> QED  BY <3>1, <3>2 DEF UploadPart, RequestOrder, CommitStage, BeforeInstall, Told,
         CleanUp, InFlight
  <2> QED  BY <2>1, <2>2, <2>3 DEF UploadInv
<1>2. CASE UNCHANGED vars \/ \E u \in Uploads : Age(u)
  <2>1. TypeOK' /\ WholeTarget' /\ GuardHeld'
    BY <1>0, <1>2 DEF TypeOK, WholeTarget, GuardHeld, Age
  <2>2. ASSUME NEW v \in Uploads PROVE LeavesAlone(v)
    BY <1>2 DEF LeavesAlone, Quiet, Age
  <2> QED  BY <2>1, <2>2, PartKept DEF UploadInv
<1> QED  BY <1>1, <1>2

(* The invariant holds whatever crashes, fails, times out or is swept.       *)
LEMMA UploadInductive == Spec => []UploadInv
<1>1. UploadInv /\ [Next]_vars => UploadInv'
  <2> SUFFICES ASSUME UploadInv, [Next]_vars PROVE UploadInv'
    OBVIOUS
  <2> QED  BY CallKept, CommitKept, AbortKept, PrepareKept, SweepKept, StreamKept,
       RestKept DEF Next, Idle
<1> QED  BY <1>1, UploadInit, PTL DEF Spec

(* README "Installation is atomic": however many uploads race for a target,  *)
(* and whatever dies or fails between the steps, the target is a whole       *)
(* verified payload, and a success is in the log.                            *)
THEOREM InstallsAreSound == Spec => []InstallsSound
<1>1. UploadInv => InstallsSound
  <2> SUFFICES ASSUME UploadInv PROVE InstallsSound
    OBVIOUS
  <2>1. OkIsLogged
    BY DEF OkIsLogged, UploadInv, UploadPart, Told, CommitStage, TypeOK
  <2> QED  BY <2>1 DEF InstallsSound, UploadInv
<1> QED  BY <1>1, UploadInductive, PTL

(* A success, or a failure that reports no failed clean-up, leaves nothing   *)
(* on the server; a sweep never takes a file in flight; and a failure that   *)
(* nothing interrupted has not touched the target.                           *)
THEOREM FailuresAreClean == Spec => []FailsClean
<1>1. UploadInv => FailsClean
  <2> SUFFICES ASSUME UploadInv PROVE FailsClean
    OBVIOUS
  <2>1. NoLitter
    BY DEF NoLitter, UploadInv, UploadPart, Told, CleanUp
  <2>2. InFlightKept
    BY DEF InFlightKept, UploadInv, UploadPart, Told, InFlight, TypeOK
  <2>3. FailedUntouched
    BY DEF FailedUntouched, Quiet, UploadInv, UploadPart, CommitStage, BeforeInstall,
         InStep, Failed
  <2> QED  BY <2>1, <2>2, <2>3 DEF FailsClean
<1> QED  BY <1>1, UploadInductive, PTL

(* README "Existing destinations are refused unless overwrite=true", also    *)
(* when the destination appears between the check and the install.           *)
THEOREM NothingClobbered == Spec => NoClobber
<1>1. [Next]_vars => [target # NoFile /\ target' # target =>
                         \E u \in overwrite : target'[1] = u]_vars
  <2> SUFFICES ASSUME Next, target # NoFile, target' # target
               PROVE  \E u \in overwrite : target'[1] = u
    BY DEF vars
  <2>1. PICK u \in Uploads : CommitInstall(u)
    BY DEF Next, Begin, Prepare, PrepareFails, PrepareTimeout, StreamStart, Stream, Age,
         CommitCheck, CommitUnlink, CommitRecord, CommitFails, CommitOk, CommitErr,
         CommitTimeout, Abort, AbortFails, AbortTimeout, AbortDone, GcSweep, Crash, Idle, vars,
         files
  <2>2. target' = <<u, staging[u]>> /\ u \in overwrite
    BY <2>1 DEF CommitInstall, CanInstall
  <2> QED  BY <2>2
<1> QED  BY <1>1, PTL DEF Spec, NoClobber
=============================================================================
