---------------------------- MODULE MCAgentServer ----------------------------
(***************************************************************************)
(* Small instances of AgentServer: one file with at most three contents,    *)
(* and the workloads (which request id asks for what) of the runs.          *)
(***************************************************************************)
EXTENDS AgentServerInv, TLC

CONSTANTS r1, r2, r3, c1, c2, c3, p1, t1, t2

Unused == [kind |-> "read", path |-> p1, base |-> c1, new |-> c1,
           subst |-> [c \in Contents |-> NoMatch], target |-> 1, keep |-> NoLimit]

Create(c) == [Unused EXCEPT !.kind = "create", !.new = c]
(* Replaces the text that c has and no other content has.                   *)
Edit(c, d) == [Unused EXCEPT !.kind = "edit", !.base = c, !.subst[c] = d]
(* Replaces a text every content has; d is the result from any of them.     *)
EditAny(c, d) == [Unused EXCEPT !.kind = "edit", !.base = c,
                                !.subst = [x \in Contents |-> IF x = d THEN c ELSE d]]
(* The text to replace does not occur (or is ambiguous).                    *)
EditMissing(c) == [Unused EXCEPT !.kind = "edit", !.base = c]
Delete == [Unused EXCEPT !.kind = "delete"]
Undo(i) == [Unused EXCEPT !.kind = "undo", !.target = i]
Exec == [Unused EXCEPT !.kind = "exec"]
Read == Unused
Gc(k) == [Unused EXCEPT !.kind = "gc", !.keep = k]

Two(a, b) == (r1 :> a) @@ (r2 :> b)
Three(a, b, c) == (r1 :> a) @@ (r2 :> b) @@ (r3 :> c)

AnyWorkspace == {[p \in Paths |-> Absent], [p \in Paths |-> c1]}
WithFile == {[p \in Paths |-> c1]}

(* Mutations that meet each other, an undo and a duplicate.                 *)
MutationWorkloads ==
    {Two(Edit(c1, c2), Undo(1)), Two(Create(c1), Delete), Two(Create(c1), Undo(1)),
     Two(Delete, Undo(1)), Two(Edit(c1, c2), Edit(c2, c1)), Two(Exec, Create(c1)),
     Two(EditMissing(c1), Undo(1)), Two(EditAny(c1, c2), EditAny(c2, c1)),
     Two(Create(c1), Gc(NoLimit))}

SequentialWorkloads == {Three(a, b, c) : a \in {Create(c1), Edit(c1, c2)},
                                         b \in {Undo(1), Delete, Edit(c1, c2)},
                                         c \in {Read, Undo(1), Undo(2), Exec}}

(* For failing writes and a workspace that others change: every mutation but *)
(* undo, whose answer depends on what the others wrote.                      *)
FailureWorkloads ==
    {Two(Edit(c1, c2), Edit(c2, c1)), Two(Create(c1), Delete), Two(EditAny(c1, c2), Exec)}

GcWorkloads == {Three(Edit(c1, c2), Undo(1), Gc(1)), Three(Delete, Create(c2), Gc(0)),
                Three(Create(c2), Read, Gc(NoLimit))}

(* One command, sent again after a crash.                                    *)
OneExec == {r1 :> Exec}
=============================================================================
