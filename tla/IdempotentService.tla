-------------------------- MODULE IdempotentService --------------------------
(***************************************************************************)
(* What the server promises about mutating requests, with no logs, tables,  *)
(* tasks or crashes: a request takes effect at most once, in one atomic     *)
(* step that turns the file from one content into another, and a success    *)
(* answer always describes the effect that was made.                        *)
(***************************************************************************)
EXTENDS Naturals

CONSTANTS Rids, Paths, States, Ids

VARIABLES
    file,       \* Paths -> States
    fate,       \* Rids -> set with the effect of the request (empty: none yet)
    acked       \* successes reported: <<request, operation id, new content>>

vars == <<file, fate, acked>>

Init ==
    /\ file \in [Paths -> States]
    /\ fate = [r \in Rids |-> {}]
    /\ acked = {}

(* The request takes effect: the only way a file changes.                   *)
Apply(r, i, p, new) ==
    /\ fate[r] = {}
    /\ \A q \in Rids : \A e \in fate[q] : e.op # i
    /\ new # file[p]
    /\ fate' = [fate EXCEPT ![r] = {[op |-> i, path |-> p, old |-> file[p], new |-> new]}]
    /\ file' = [file EXCEPT ![p] = new]
    /\ UNCHANGED acked

(* Success is reported for a request that has taken effect, as often as the *)
(* request is sent.                                                         *)
Report(r) ==
    /\ \E e \in fate[r] : acked' = acked \cup {<<r, e.op, e.new>>}
    /\ UNCHANGED <<file, fate>>

Next ==
    \/ \E r \in Rids, i \in Ids, p \in Paths, new \in States : Apply(r, i, p, new)
    \/ \E r \in Rids : Report(r)

Spec == Init /\ [][Next]_vars
=============================================================================
