--------------------------- MODULE ReconnectProofs ---------------------------
(***************************************************************************)
(* SlotSound and BlockedByLost for any number of tool calls, attempts  *)
(* and faults.                                                              *)
(***************************************************************************)
EXTENDS Reconnect, TLAPS

(* The slot's mutex is held exactly while its holder makes a connection.    *)
MutexHeld == \A c \in Calls : mutex = c <=> call[c].at \in {"connect", "probe"}

(* The directory lock is with the one server that serves.                   *)
LockHeld == \A n \in Conns : lock = n <=> conn[n].srv = "serving"

(* Attempts of c that have not been made.                                   *)
Unmade(c, k) ==
    \/ call[c].at = "start"
    \/ call[c].at = "connect" /\ call[c].attempt <= k
    \/ call[c].at = "probe" /\ call[c].attempt < k

(* They have no process, no lock and nobody who knows them.                 *)
FreshConn ==
    \A c \in Calls, k \in 1..Attempts : Unmade(c, k) =>
        /\ conn[<<c, k>>] = NotMade
        /\ slot # <<c, k>> /\ lock # <<c, k>>
        /\ \A d \in Calls : call[d].n # <<c, k>>

(* What a call holds, and why: its own connection while it probes it, and   *)
(* then one that was probed and has left the slot only after its server's   *)
(* end, because whoever replaced it has the lock.                           *)
CallHolds(c) ==
    LET me == call[c] IN
    /\ me.at = "start" => me.attempt = 0
    /\ me.at = "connect" => me.attempt \in 1..(Attempts + 1)
    /\ me.at = "probe" => me.attempt \in 1..Attempts /\ me.n = <<c, me.attempt>>
    /\ me.at = "use" => /\ me.n \in Conns /\ conn[me.n].srv \in {"serving", "exited"}
                        /\ me.n = slot \/ conn[me.n].srv = "exited"
    /\ me.at \notin {"probe", "use"} => me.n = NoConn

(* What is in the slot was probed; a call that replaces it found it closed. *)
SlotProbed ==
    slot # NoConn => /\ conn[slot].srv \in {"serving", "exited"}
                     /\ mutex # NoCall => conn[slot].closed

SlotInv ==
    /\ TypeOK /\ MutexHeld /\ LockHeld /\ FreshConn /\ SlotProbed
    /\ \A c \in Calls : CallHolds(c)

-----------------------------------------------------------------------------
(* What TypeOK says of one connection.                                      *)
ConnType ==
    [link : {"up", "cut", "gone"}, srv : {"none", "starting", "serving", "exited"},
     closed : BOOLEAN]

(* The two names that are not names of connections a call makes.            *)
LEMMA Names ==
  /\ NoConn \notin Conns /\ Earlier \in Conns
  /\ \A c \in Calls, k \in 1..Attempts : <<c, k>> \in Conns /\ <<c, k>> # Earlier
  BY ReconnectAssumption DEF NoConn, Conns, Earlier

(* The server an earlier process left behind is the only one at the start.  *)
LEMMA SlotInit == Init => SlotInv
<1> SUFFICES ASSUME Init PROVE SlotInv
  OBVIOUS
<1>a. NotMade \in ConnType /\ LeftBehind \in ConnType
  BY DEF NotMade, LeftBehind, ConnType
<1>b. conn \in [Conns -> ConnType]
  BY <1>a DEF Init
<1> USE ReconnectAssumption, Names DEF Init, NotMade, LeftBehind
<1>1. TypeOK
  BY <1>b DEF TypeOK, ConnType
<1>2. MutexHeld /\ LockHeld /\ SlotProbed
  BY DEF MutexHeld, LockHeld, SlotProbed
<1>3. FreshConn
  BY DEF FreshConn
<1>4. \A c \in Calls : CallHolds(c)
  BY DEF CallHolds
<1> QED  BY <1>1, <1>2, <1>3, <1>4 DEF SlotInv

(* A call takes what is in the slot, or the mutex to replace it.            *)
LEMMA EnterKept ==
  ASSUME SlotInv, NEW c \in Calls, Enter(c)
  PROVE  SlotInv'
<1> USE ReconnectAssumption, Names DEF NotMade
<1>0. TypeOK /\ MutexHeld /\ LockHeld /\ FreshConn /\ SlotProbed
  BY DEF SlotInv
<1>a. \A d \in Calls : CallHolds(d)
  BY DEF SlotInv
<1>1. TypeOK'
  BY <1>0, <1>a DEF TypeOK, CallHolds, Enter
<1>2. MutexHeld'
  BY <1>0 DEF TypeOK, MutexHeld, Enter
<1>3. LockHeld'
  BY <1>0, <1>a DEF TypeOK, LockHeld, FreshConn, Unmade, CallHolds, Enter
<1>5. FreshConn'
  BY <1>0, <1>a DEF TypeOK, FreshConn, Unmade, CallHolds, Enter
<1>6. SlotProbed'
  BY <1>0, <1>a DEF TypeOK, SlotProbed, MutexHeld, CallHolds, FreshConn, Unmade,
                    Enter
<1>7. \A d \in Calls : CallHolds(d)'
  BY <1>0, <1>a DEF TypeOK, CallHolds, SlotProbed, MutexHeld, FreshConn, Unmade, Enter
<1> QED  BY <1>1, <1>2, <1>3, <1>5, <1>6, <1>7 DEF SlotInv

(* The connection that is made has the name of its attempt.                 *)
LEMMA ConnectKept ==
  ASSUME SlotInv, NEW c \in Calls, Connect(c)
  PROVE  SlotInv'
<1> USE ReconnectAssumption, Names DEF Made, NotMade
<1>0. TypeOK /\ MutexHeld /\ LockHeld /\ FreshConn /\ SlotProbed
  BY DEF SlotInv
<1>a. \A d \in Calls : CallHolds(d)
  BY DEF SlotInv
<1>1. TypeOK'
  BY <1>0, <1>a DEF TypeOK, CallHolds, Connect
<1>2. MutexHeld'
  BY <1>0 DEF TypeOK, MutexHeld, Connect
<1>3. LockHeld'
  BY <1>0, <1>a DEF TypeOK, LockHeld, FreshConn, Unmade, CallHolds, Connect
<1>5. FreshConn'
  <2> SUFFICES ASSUME NEW b \in Calls, NEW k \in 1..Attempts, Unmade(b, k)'
               PROVE  /\ conn'[<<b, k>>] = NotMade /\ slot' # <<b, k>> /\ lock' # <<b, k>>
                      /\ \A d \in Calls : call'[d].n # <<b, k>>
    BY DEF FreshConn
  <2>1. Unmade(b, k) /\ <<b, k>> # <<c, call[c].attempt>>
    BY <1>0 DEF TypeOK, Unmade, Connect
  <2>2. /\ conn[<<b, k>>] = NotMade /\ slot # <<b, k>> /\ lock # <<b, k>>
        /\ \A d \in Calls : call[d].n # <<b, k>>
    BY <1>0, <2>1 DEF FreshConn
  <2>3. conn'[<<b, k>>] = NotMade
    BY <1>0, <2>1, <2>2 DEF TypeOK, Connect
  <2>4. \A d \in Calls : call'[d].n # <<b, k>>
    BY <1>0, <2>1, <2>2 DEF TypeOK, Connect
  <2> QED  BY <2>2, <2>3, <2>4 DEF Connect
<1>6. SlotProbed'
  BY <1>0, <1>a DEF TypeOK, SlotProbed, MutexHeld, CallHolds, FreshConn, Unmade,
                    Connect
<1>7. \A d \in Calls : CallHolds(d)'
  BY <1>0, <1>a DEF TypeOK, CallHolds, SlotProbed, MutexHeld, FreshConn, Unmade, Connect
<1> QED  BY <1>1, <1>2, <1>3, <1>5, <1>6, <1>7 DEF SlotInv

(* An attempt that fails leaves its connection to its end.                  *)
LEMMA AttemptKept ==
  ASSUME SlotInv, NEW c \in Calls, ConnectFails(c) \/ ProbeClosed(c) \/ ProbeTimeout(c)
  PROVE  SlotInv'
<1> USE ReconnectAssumption, Names DEF NextAttempt, Fault
<1>0. TypeOK /\ MutexHeld /\ LockHeld /\ FreshConn /\ SlotProbed
  BY DEF SlotInv
<1>a. \A d \in Calls : CallHolds(d)
  BY DEF SlotInv
<1>1. TypeOK'
  BY <1>0, <1>a DEF TypeOK, CallHolds, ConnectFails, ProbeClosed, ProbeTimeout
<1>2. MutexHeld'
  BY <1>0 DEF TypeOK, MutexHeld, ConnectFails, ProbeClosed, ProbeTimeout
<1>3. LockHeld'
  BY <1>0, <1>a DEF TypeOK, LockHeld, FreshConn, Unmade, CallHolds, ConnectFails, ProbeClosed,
                    ProbeTimeout
<1>5. FreshConn'
  BY <1>0, <1>a DEF TypeOK, FreshConn, Unmade, CallHolds, ConnectFails, ProbeClosed, ProbeTimeout
<1>6. SlotProbed'
  BY <1>0, <1>a DEF TypeOK, SlotProbed, MutexHeld, CallHolds, FreshConn, Unmade,
                    ConnectFails, ProbeClosed, ProbeTimeout
<1>7. \A d \in Calls : CallHolds(d)'
  BY <1>0, <1>a DEF TypeOK, CallHolds, SlotProbed, MutexHeld, FreshConn, Unmade, ConnectFails,
                    ProbeClosed, ProbeTimeout
<1> QED  BY <1>1, <1>2, <1>3, <1>5, <1>6, <1>7 DEF SlotInv

(* A probed connection goes into the slot when the mutex is given back.     *)
LEMMA ProbeKept ==
  ASSUME SlotInv, NEW c \in Calls, ProbeOk(c)
  PROVE  SlotInv'
<1> USE ReconnectAssumption, Names DEF Answers
<1>0. TypeOK /\ MutexHeld /\ LockHeld /\ FreshConn /\ SlotProbed
  BY DEF SlotInv
<1>a. \A d \in Calls : CallHolds(d)
  BY DEF SlotInv
<1>1. TypeOK'
  BY <1>0, <1>a DEF TypeOK, CallHolds, ProbeOk
<1>2. MutexHeld'
  BY <1>0 DEF TypeOK, MutexHeld, ProbeOk
<1>3. LockHeld'
  BY <1>0, <1>a DEF TypeOK, LockHeld, FreshConn, Unmade, CallHolds, ProbeOk
<1>5. FreshConn'
  <2> SUFFICES ASSUME NEW b \in Calls, NEW k \in 1..Attempts, Unmade(b, k)'
               PROVE  /\ conn'[<<b, k>>] = NotMade /\ slot' # <<b, k>> /\ lock' # <<b, k>>
                      /\ \A d \in Calls : call'[d].n # <<b, k>>
    BY DEF FreshConn
  <2>1. \A d \in Calls : call'[d].n = call[d].n
    BY <1>0 DEF TypeOK, ProbeOk
  <2>2. call'[c].at = "use" /\ \A d \in Calls \ {c} : call'[d] = call[d]
    BY <1>0 DEF TypeOK, ProbeOk
  <2>3. Unmade(b, k)
    BY <2>2 DEF Unmade
  <2>4. /\ conn[<<b, k>>] = NotMade /\ slot # <<b, k>> /\ lock # <<b, k>>
        /\ \A d \in Calls : call[d].n # <<b, k>>
    BY <1>0, <2>3 DEF FreshConn
  <2> QED  BY <2>1, <2>4 DEF ProbeOk
<1>6. SlotProbed'
  BY <1>0, <1>a DEF TypeOK, SlotProbed, MutexHeld, CallHolds, FreshConn, Unmade,
                    ProbeOk
<1>7. \A d \in Calls : CallHolds(d)'
  <2>1. mutex = c
    BY <1>0 DEF MutexHeld, ProbeOk
  <2>2. CallHolds(c)'
    <3>1. /\ call'[c].at = "use" /\ call'[c].n = call[c].n /\ slot' = call[c].n
          /\ call[c].at = "probe" /\ conn[call[c].n].srv = "serving"
      BY <1>0 DEF TypeOK, ProbeOk
    <3>2. call[c].n \in Conns
      BY <1>a, <3>1 DEF CallHolds
    <3> QED  BY <3>1, <3>2 DEF CallHolds, ProbeOk
  <2>3. ASSUME NEW d \in Calls \ {c} PROVE CallHolds(d)'
    <3>1. call'[d] = call[d]
      BY <1>0, <2>3 DEF TypeOK, ProbeOk
    <3>2. ASSUME call[d].at = "use", call[d].n = slot PROVE conn[slot].srv = "exited"
      <4>1. slot \in Conns /\ conn[slot].srv \in {"serving", "exited"} /\ conn[slot].closed
        BY <1>0, <1>a, <2>1, <2>3, <3>2 DEF CallHolds, SlotProbed
      <4>2. lock = call[c].n /\ ~conn[call[c].n].closed
        BY <1>0, <1>a DEF CallHolds, LockHeld, ProbeOk
      <4> QED  BY <1>0, <4>1, <4>2 DEF LockHeld
    <3> QED  BY <1>a, <2>3, <3>1, <3>2 DEF CallHolds, ProbeOk
  <2> QED  BY <2>2, <2>3
<1> QED  BY <1>1, <1>2, <1>3, <1>5, <1>6, <1>7 DEF SlotInv

(* A call that gives up lets go of the mutex.                               *)
LEMMA GiveUpKept ==
  ASSUME SlotInv, NEW c \in Calls, GiveUp(c)
  PROVE  SlotInv'
<1> USE ReconnectAssumption, Names DEF Fault
<1>0. TypeOK /\ MutexHeld /\ LockHeld /\ FreshConn /\ SlotProbed
  BY DEF SlotInv
<1>a. \A d \in Calls : CallHolds(d)
  BY DEF SlotInv
<1>1. TypeOK'
  BY <1>0, <1>a DEF TypeOK, CallHolds, GiveUp
<1>2. MutexHeld'
  BY <1>0 DEF TypeOK, MutexHeld, GiveUp
<1>3. LockHeld'
  BY <1>0, <1>a DEF TypeOK, LockHeld, FreshConn, Unmade, CallHolds, GiveUp
<1>5. FreshConn'
  BY <1>0, <1>a DEF TypeOK, FreshConn, Unmade, CallHolds, GiveUp
<1>6. SlotProbed'
  BY <1>0, <1>a DEF TypeOK, SlotProbed, MutexHeld, CallHolds, FreshConn, Unmade,
                    GiveUp
<1>7. \A d \in Calls : CallHolds(d)'
  BY <1>0, <1>a DEF TypeOK, CallHolds, SlotProbed, MutexHeld, FreshConn, Unmade, GiveUp
<1> QED  BY <1>1, <1>2, <1>3, <1>5, <1>6, <1>7 DEF SlotInv

(* A call that has its answer, or an error, lets go of its connection.      *)
LEMMA UseKept ==
  ASSUME SlotInv, NEW c \in Calls, UseOk(c) \/ UseClosed(c) \/ UseTimeout(c)
  PROVE  SlotInv'
<1> USE ReconnectAssumption, Names DEF Fault, Answers
<1>0. TypeOK /\ MutexHeld /\ LockHeld /\ FreshConn /\ SlotProbed
  BY DEF SlotInv
<1>a. \A d \in Calls : CallHolds(d)
  BY DEF SlotInv
<1>1. TypeOK'
  BY <1>0, <1>a DEF TypeOK, CallHolds, UseOk, UseClosed, UseTimeout
<1>2. MutexHeld'
  BY <1>0 DEF TypeOK, MutexHeld, UseOk, UseClosed, UseTimeout
<1>3. LockHeld'
  BY <1>0, <1>a DEF TypeOK, LockHeld, FreshConn, Unmade, CallHolds, UseOk, UseClosed, UseTimeout
<1>5. FreshConn'
  BY <1>0, <1>a DEF TypeOK, FreshConn, Unmade, CallHolds, UseOk, UseClosed, UseTimeout
<1>6. SlotProbed'
  BY <1>0, <1>a DEF TypeOK, SlotProbed, MutexHeld, CallHolds, FreshConn, Unmade,
                    UseOk, UseClosed, UseTimeout
<1>7. \A d \in Calls : CallHolds(d)'
  BY <1>0, <1>a DEF TypeOK, CallHolds, SlotProbed, MutexHeld, FreshConn, Unmade, UseOk,
                    UseClosed, UseTimeout
<1> QED  BY <1>1, <1>2, <1>3, <1>5, <1>6, <1>7 DEF SlotInv

(* A step of connection n, which has been made: what has ended has ended.   *)
ConnStep(n) ==
    /\ UNCHANGED <<call, mutex, slot>>
    /\ \A m \in Conns \ {n} : conn'[m] = conn[m]
    /\ conn[n] # NotMade \/ Held(n)
    /\ conn[n].closed => conn'[n].closed
    /\ conn[n].srv \in {"serving", "exited"} => conn'[n].srv \in {conn[n].srv, "exited"}

(* No call and nothing in the slot minds such a step.                       *)
LEMMA ConnKept ==
  ASSUME SlotInv, NEW n \in Conns, ConnStep(n), TypeOK', LockHeld'
  PROVE  SlotInv'
<1>0. TypeOK /\ MutexHeld /\ LockHeld /\ FreshConn /\ SlotProbed
  BY DEF SlotInv
<1>a. \A d \in Calls : CallHolds(d)
  BY DEF SlotInv
<1>1. MutexHeld'
  BY <1>0 DEF MutexHeld, ConnStep
<1>2. FreshConn'
  <2> SUFFICES ASSUME NEW c \in Calls, NEW k \in 1..Attempts, Unmade(c, k)'
               PROVE  /\ conn'[<<c, k>>] = NotMade /\ slot' # <<c, k>> /\ lock' # <<c, k>>
                      /\ \A d \in Calls : call'[d].n # <<c, k>>
    BY DEF FreshConn
  <2> DEFINE m == <<c, k>>
  <2>0. m \in Conns
    BY Names
  <2>1. Unmade(c, k)
    BY DEF Unmade, ConnStep
  <2>2. conn[m] = NotMade /\ slot # m /\ \A d \in Calls : call[d].n # m
    BY <1>0, <2>1 DEF FreshConn
  <2>3. m # n
    BY <2>2 DEF ConnStep, Held
  <2>4. conn'[m] = NotMade
    BY <2>0, <2>2, <2>3 DEF ConnStep
  <2>5. lock' # m
    BY <2>0, <2>4 DEF LockHeld, NotMade
  <2> QED  BY <2>2, <2>4, <2>5 DEF ConnStep
<1>3. SlotProbed'
  BY <1>0 DEF TypeOK, SlotProbed, ConnStep
<1>4. \A d \in Calls : CallHolds(d)'
  BY <1>0, <1>a DEF TypeOK, CallHolds, ConnStep
<1> QED  BY <1>1, <1>2, <1>3, <1>4 DEF SlotInv

(* A server takes the lock, gives up on it, or exits.                       *)
LEMMA ServerKept ==
  ASSUME SlotInv, NEW n \in Conns, TakeLock(n) \/ GraceExpires(n) \/ SeesEof(n) \/ ServerDies(n)
  PROVE  SlotInv'
<1>0. TypeOK /\ LockHeld
  BY DEF SlotInv
<1>1. CASE TakeLock(n)
  <2> USE Names DEF TakeLock
  <2>1. ConnStep(n)
    BY <1>0, <1>1 DEF TypeOK, ConnStep, NotMade
  <2>2. TypeOK'
    BY <1>0, <1>1 DEF TypeOK
  <2>3. LockHeld'
    BY <1>0, <1>1 DEF TypeOK, LockHeld
  <2> QED  BY <2>1, <2>2, <2>3, ConnKept
<1>2. CASE GraceExpires(n)
  <2> USE Names DEF GraceExpires
  <2>1. ConnStep(n)
    BY <1>0, <1>2 DEF TypeOK, ConnStep, NotMade
  <2>2. TypeOK'
    BY <1>0, <1>2 DEF TypeOK
  <2>3. LockHeld'
    BY <1>0, <1>2 DEF TypeOK, LockHeld
  <2> QED  BY <2>1, <2>2, <2>3, ConnKept
<1>3. CASE SeesEof(n)
  <2> USE Names DEF SeesEof, Exits
  <2>1. ConnStep(n)
    BY <1>0, <1>3 DEF TypeOK, ConnStep, NotMade
  <2>2. TypeOK'
    BY <1>0, <1>3 DEF TypeOK
  <2>3. LockHeld'
    BY <1>0, <1>3 DEF TypeOK, LockHeld
  <2> QED  BY <2>1, <2>2, <2>3, ConnKept
<1>4. CASE ServerDies(n)
  <2> USE Names DEF ServerDies, Exits, Fault
  <2>1. ConnStep(n)
    BY <1>0, <1>4 DEF TypeOK, ConnStep, NotMade
  <2>2. TypeOK'
    <3>1. conn' \in [Conns -> ConnType] /\ lock' \in Conns \cup {NoConn}
      BY <1>0, <1>4 DEF TypeOK, ConnType
    <3>2. faults' \in 0..MaxFaults
      BY <1>0, <1>4, ReconnectAssumption DEF TypeOK
    <3> QED  BY <1>0, <1>4, <3>1, <3>2 DEF TypeOK, ConnType
  <2>3. LockHeld'
    BY <1>0, <1>4 DEF TypeOK, LockHeld
  <2> QED  BY <2>1, <2>2, <2>3, ConnKept
<1> QED  BY <1>1, <1>2, <1>3, <1>4

(* The link ends, or the reader does.                                       *)
LEMMA LinkKept ==
  ASSUME SlotInv, NEW n \in Conns, ReaderSees(n) \/ ReaderFails(n) \/ LinkBreaks(n) \/ FarEndNotices(n)
  PROVE  SlotInv'
<1>0. TypeOK /\ LockHeld
  BY DEF SlotInv
<1>1. CASE ReaderSees(n)
  <2> USE Names DEF ReaderSees
  <2>1. ConnStep(n)
    BY <1>0, <1>1 DEF TypeOK, ConnStep, NotMade
  <2>2. TypeOK'
    BY <1>0, <1>1 DEF TypeOK
  <2>3. LockHeld'
    BY <1>0, <1>1 DEF TypeOK, LockHeld
  <2> QED  BY <2>1, <2>2, <2>3, ConnKept
<1>2. CASE LinkBreaks(n)
  <2> USE Names DEF LinkBreaks, Fault
  <2>1. ConnStep(n)
    BY <1>0, <1>2 DEF TypeOK, ConnStep, NotMade
  <2>2. TypeOK'
    BY <1>0, <1>2, ReconnectAssumption DEF TypeOK
  <2>3. LockHeld'
    BY <1>0, <1>2 DEF TypeOK, LockHeld
  <2> QED  BY <2>1, <2>2, <2>3, ConnKept
<1>3. CASE FarEndNotices(n)
  <2> USE Names DEF FarEndNotices
  <2>1. ConnStep(n)
    BY <1>0, <1>3 DEF TypeOK, ConnStep, NotMade
  <2>2. TypeOK'
    BY <1>0, <1>3 DEF TypeOK
  <2>3. LockHeld'
    BY <1>0, <1>3 DEF TypeOK, LockHeld
  <2> QED  BY <2>1, <2>2, <2>3, ConnKept
<1>4. CASE ReaderFails(n)
  <2> USE Names DEF ReaderFails, Fault
  <2>1. ConnStep(n)
    BY <1>0, <1>4 DEF TypeOK, ConnStep, NotMade
  <2>2. TypeOK'
    <3>1. conn' \in [Conns -> ConnType]
      BY <1>0, <1>4 DEF TypeOK, ConnType
    <3>2. faults' \in 0..MaxFaults
      BY <1>0, <1>4, ReconnectAssumption DEF TypeOK
    <3> QED  BY <1>0, <1>4, <3>1, <3>2 DEF TypeOK, ConnType
  <2>3. LockHeld'
    BY <1>0, <1>4 DEF TypeOK, LockHeld
  <2> QED  BY <2>1, <2>2, <2>3, ConnKept
<1> QED  BY <1>1, <1>2, <1>3, <1>4

(* The invariant is kept by every step.                                     *)
LEMMA SlotStep == SlotInv /\ [Next]_vars => SlotInv'
<1> SUFFICES ASSUME SlotInv, [Next]_vars PROVE SlotInv'
  OBVIOUS
<1>1. CASE UNCHANGED vars
  BY <1>1 DEF SlotInv, vars, TypeOK, MutexHeld, LockHeld, FreshConn, Unmade,
              SlotProbed, CallHolds
<1>2. ASSUME NEW c \in Calls, Enter(c) PROVE SlotInv'
  BY <1>2, EnterKept
<1>3. ASSUME NEW c \in Calls, Connect(c) PROVE SlotInv'
  BY <1>3, ConnectKept
<1>4. ASSUME NEW c \in Calls, ConnectFails(c) \/ ProbeClosed(c) \/ ProbeTimeout(c) PROVE SlotInv'
  BY <1>4, AttemptKept
<1>5. ASSUME NEW c \in Calls, ProbeOk(c) PROVE SlotInv'
  BY <1>5, ProbeKept
<1>6. ASSUME NEW c \in Calls, GiveUp(c) PROVE SlotInv'
  BY <1>6, GiveUpKept
<1>9. ASSUME NEW c \in Calls, UseOk(c) \/ UseClosed(c) \/ UseTimeout(c) PROVE SlotInv'
  BY <1>9, UseKept
<1>7. ASSUME NEW n \in Conns, TakeLock(n) \/ GraceExpires(n) \/ SeesEof(n) \/ ServerDies(n)
      PROVE  SlotInv'
  BY <1>7, ServerKept
<1>8. ASSUME NEW n \in Conns, ReaderSees(n) \/ ReaderFails(n) \/ LinkBreaks(n) \/ FarEndNotices(n)
      PROVE  SlotInv'
  BY <1>8, LinkKept
<1> QED  BY <1>1, <1>2, <1>3, <1>4, <1>5, <1>6, <1>7, <1>8, <1>9 DEF Next, CallStep, ServerStep,
                                                                     Stop

(* What is in the slot was probed, so it serves until something happens to  *)
(* it, and the one that serves has the lock.                                *)
THEOREM SlotIsSound == Spec => []SlotSound
<1>1. SlotInv => SlotSound
  BY DEF SlotInv, SlotSound, SlotServes, SlotProbed, LockHeld, TypeOK
<1> QED  BY <1>1, SlotInit, SlotStep, PTL DEF Spec

(* The server a call waits for is of a call that has the mutex.  If the one  *)
(* that has the lock is still linked, its Client is in the slot or with a   *)
(* call.  Whoever has the mutex found the slot's Client closed; what a call  *)
(* uses outside the slot has no server any more; and nobody else probes.    *)
LEMMA LostBlocks ==
  ASSUME SlotInv, NEW n \in Conns, GraceExpires(n), Held(n)
  PROVE  conn[lock].link = "cut" \/ (lock = slot /\ conn[slot].closed)
<1> SUFFICES ASSUME conn[lock].link # "cut" PROVE lock = slot /\ conn[slot].closed
  OBVIOUS
<1>0. TypeOK /\ MutexHeld /\ LockHeld /\ SlotProbed
  BY DEF SlotInv
<1>a. \A d \in Calls : CallHolds(d)
  BY DEF SlotInv
<1>1. lock \in Conns /\ conn[lock].link = "up" /\ Held(lock) /\ conn[lock].srv = "serving"
  BY <1>0 DEF GraceExpires, StdinEnded, TypeOK, LockHeld
<1>2. conn[n].srv = "starting"
  BY DEF GraceExpires
<1>3. PICK c \in Calls : call[c].n = n
  BY <1>0, <1>2, Names DEF Held, SlotProbed
<1>4. call[c].at = "probe"
  BY <1>a, <1>2, <1>3, Names DEF CallHolds
<1>5. mutex = c
  BY <1>0, <1>4 DEF MutexHeld
<1>6. lock = slot
  <2> SUFFICES ASSUME lock # slot PROVE FALSE
    OBVIOUS
  <2>1. PICK d \in Calls : call[d].n = lock
    BY <1>1 DEF Held
  <2>2. call[d].at = "probe"
    BY <1>a, <1>1, <2>1, Names DEF CallHolds
  <2>3. d = c
    BY <1>0, <1>5, <2>2 DEF MutexHeld
  <2> QED  BY <1>1, <1>2, <1>3, <2>1, <2>3
<1>7. conn[slot].closed
  BY <1>0, <1>1, <1>5, <1>6, ReconnectAssumption, Names DEF SlotProbed
<1> QED  BY <1>6, <1>7

(* A reconnect is blocked by a server with a cut link or by the closed Client *)
(* that the slot has not let go of, and by nothing else this process does.  *)
THEOREM OnlyLostBlock == Spec => BlockedByLost
<1>1. SlotInv => [\A n \in Conns : GraceExpires(n) /\ Held(n) =>
                    conn[lock].link = "cut" \/ (lock = slot /\ conn[slot].closed)]_vars
  BY LostBlocks
<1> QED  BY <1>1, SlotInit, SlotStep, PTL DEF Spec, BlockedByLost
=============================================================================
