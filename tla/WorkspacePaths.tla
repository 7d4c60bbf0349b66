--------------------------- MODULE WorkspacePaths ---------------------------
(***************************************************************************)
(* Client paths in a tree with symbolic links.  A record keeps the path the  *)
(* client gave, so whoever comes back to an operation - recover() after a    *)
(* crash, an undo - resolves it once more, in the tree as it is then.  One   *)
(* mutation, its marker, and what comes back to it; others (external) may    *)
(* change the tree in between.  AgentServer sees the outcome only: a path     *)
(* resolves to one file or does not resolve.                                 *)
(*                                                                           *)
(* A path is the sequence of what stands between its slashes; an absolute    *)
(* one leaves out the first slash.                                           *)
(***************************************************************************)
EXTENDS Naturals, Sequences, FiniteSets, SequencesExt

CONSTANTS
    Root, ScratchRoot,  \* the two bases, canonical
    Trees,              \* directory trees to start from
    ClientPaths,        \* paths a client may send
    MaxLinks            \* links the kernel follows in one lookup

ASSUME PathAssumption ==
    /\ MaxLinks \in Nat
    /\ \A t \in Trees : {<<>>, Root, ScratchRoot} \subseteq DOMAIN t

VARIABLES
    tree,     \* a node for every absolute path that has one
    use,      \* the operation
    tampered  \* ghost: where the operation was when others changed the tree

pathVars == <<tree, use, tampered>>

Dir == [kind |-> "dir", to |-> <<>>, bytes |-> 0]
Link(p) == [kind |-> "link", to |-> p, bytes |-> 0]
File(b) == [kind |-> "file", to |-> <<>>, bytes |-> b]
NoBytes == 0     \* no file: before_hash = None, or the "sha256:" sentinel
Bytes == {1, 2}

NoUse == [at |-> "idle", op |-> "none", path |-> <<>>, abs |-> <<>>, was |-> NoBytes,
          becomes |-> NoBytes, before |-> {}, verdict |-> "none"]

-----------------------------------------------------------------------------
(* The kernel's lookup (external): the canonical path, or an error.          *)

Found(p) == [st |-> "found", path |-> p]
Missed(why) == [st |-> why, path |-> <<>>]

RECURSIVE Walk(_, _, _)
Walk(at, rest, links) ==
    IF rest = <<>> THEN Found(at)
    ELSE IF tree[at].kind = "file" THEN Missed("NotADirectory")
    ELSE IF Head(rest) \in {".", ""} THEN Walk(at, Tail(rest), links)
    ELSE LET next == Append(at, Head(rest)) IN
         IF next \notin DOMAIN tree THEN Missed("NotFound")
         ELSE IF tree[next].kind # "link" THEN Walk(next, Tail(rest), links)
         ELSE IF links = 0 THEN Missed("Loop")
         ELSE Walk(<<>>, tree[next].to \o Tail(rest), links - 1)

Canonicalize(p) == Walk(<<>>, p, MaxLinks)

(* The place a path's last name denotes, links before it followed: where a   *)
(* remove, a rename or a hard link acts.                                     *)
Place(p) ==
    LET parent == Canonicalize(Front(p))
    IN  IF parent.st # "found" THEN parent
        ELSE IF tree[parent.path].kind = "file" THEN Missed("NotADirectory")
        ELSE Found(Append(parent.path, Last(p)))

-----------------------------------------------------------------------------
(* resolve                                                                   *)

Components(raw) == SelectSeq(raw, LAMBDA c : c \notin {".", ""})

(* Mutant of CanonicalizeAncestor: a path that does not exist is taken as it *)
(* is.                                                                       *)
CanonicalizeAncestorNot(base, raw) ==
    LET whole == Canonicalize(base \o raw)
    IN  IF whole.st = "NotFound" THEN Found(base \o Components(raw)) ELSE whole
(* Mutant of CanonicalizeAncestor: a path that exists is only looked at.      *)
CanonicalizeAncestorLexical(base, raw) ==
    LET whole == Canonicalize(base \o raw)
    IN  IF whole.st = "found" /\ IsPrefix(base, whole.path) THEN Found(base \o Components(raw))
        ELSE IF whole.st = "NotFound" THEN Found(base \o Components(raw)) ELSE whole
(* The deepest ancestor that is there, and the names after it.               *)
CanonicalizeAncestor(base, raw) ==
    LET whole == Canonicalize(base \o raw)
        path == base \o Components(raw)
        upTo(k) == Canonicalize(SubSeq(path, 1, k))
        deepest == Max({k \in 0..(Len(path) - 1) : upTo(k).st # "NotFound"})
    IN  IF whole.st # "NotFound" THEN whole
        ELSE IF upTo(deepest).st # "found" THEN upTo(deepest)
        ELSE Found(upTo(deepest).path \o SubSeq(path, deepest + 1, Len(path)))

InScratch(rel) == rel # <<>> /\ Head(rel) = "@scratch"
Base(rel) == IF InScratch(rel) THEN ScratchRoot ELSE Root

Resolve(rel) ==
    LET raw == IF InScratch(rel) THEN Tail(rel) ELSE rel
        safe == CanonicalizeAncestor(Base(rel), raw)
    IN  CASE rel = <<>> -> Missed("InvalidRequest")
          [] Len(raw) > 1 /\ Head(raw) = "" -> Missed("PathOutsideRoot")
          [] Contains(raw, "..") -> Missed("PathOutsideRoot")
          [] safe.st # "found" -> Missed("IoError")
          [] ~IsPrefix(Base(rel), safe.path) -> Missed("PathOutsideRoot")
          [] OTHER -> safe

(* hash_file: what a regular file behind the path holds; anything else that  *)
(* is there counts as no file.                                               *)
HashFile(p) ==
    LET c == Canonicalize(p)
    IN  IF c.st = "found" /\ tree[c.path].kind = "file" THEN tree[c.path].bytes ELSE NoBytes

-----------------------------------------------------------------------------
(* A mutation: checks and marker, then the change.                           *)

CheckError(op, r, b) ==
    \/ r.st # "found"
    \/ /\ op = "create" /\ Place(r.path).st # "NotFound"
       /\ Place(r.path).st = "found" => Place(r.path).path \in DOMAIN tree
    \/ op # "create" /\ HashFile(r.path) = NoBytes
    \/ op = "edit" /\ HashFile(r.path) = b

Prepare(op, rel, b) ==
    /\ use.at = "idle"
    /\ LET r == Resolve(rel) IN
        use' = IF CheckError(op, r, b)
                 THEN [NoUse EXCEPT !.at = "refused", !.op = op, !.path = rel, !.abs = r.path]
                 ELSE [at |-> "prepared", op |-> op, path |-> rel, abs |-> r.path,
                       was |-> HashFile(r.path), becomes |-> IF op = "delete" THEN NoBytes ELSE b,
                       before |-> {tree}, verdict |-> "none"]
    /\ UNCHANGED <<tree, tampered>>

PutNode(p, node) == [q \in DOMAIN tree \union {p} |-> IF q = p THEN node ELSE tree[q]]
Without(p) == [q \in DOMAIN tree \ {p} |-> tree[q]]

(* create_dir_all for the parent of p: the directory p's last name is then   *)
(* in, unless something that is no directory is in the way.                  *)
Above(p) == {SubSeq(p, 1, k) : k \in 0..Len(p)}
MakeParent(p) ==
    LET dir == CanonicalizeAncestor(<<>>, Front(p))
    IN  IF dir.st = "found" /\ \E d \in Above(dir.path) \cap DOMAIN tree : tree[d].kind # "dir"
          THEN Missed("AlreadyExists") ELSE dir
WithFile(p, b) ==
    LET dir == MakeParent(p).path
    IN  [q \in DOMAIN tree \union Above(Append(dir, Last(p))) |->
            IF q = Append(dir, Last(p)) THEN File(b)
            ELSE IF q \in DOMAIN tree THEN tree[q] ELSE Dir]
Occupied(p, kinds) == p \in DOMAIN tree /\ tree[p].kind \in kinds

(* The trees a mutation can lead to; none if a call fails, which leaves the  *)
(* marker.  create hard-links a new file, edit renames one over the old,     *)
(* delete removes.                                                           *)
Changed(op, p, b) ==
    IF op = "delete"
      THEN IF Place(p).st = "found" /\ Occupied(Place(p).path, {"file", "link"})
             THEN {Without(Place(p).path)} ELSE {}
      ELSE LET dir == MakeParent(p)
               taken == IF op = "create" THEN {"dir", "file", "link"} ELSE {"dir"}
           IN  IF dir.st = "found" /\ ~Occupied(Append(dir.path, Last(p)), taken)
                 THEN {WithFile(p, b)} ELSE {}

Apply ==
    /\ use.at = "prepared"
    /\ LET to == Changed(use.op, use.abs, use.becomes) IN
        IF to = {} THEN use' = [use EXCEPT !.at = "failed"] /\ UNCHANGED tree
        ELSE use' = [use EXCEPT !.at = "applied"] /\ tree' \in to
    /\ UNCHANGED tampered

-----------------------------------------------------------------------------
(* The server died before the commit record, of the mutation or of its undo:  *)
(* recover() looks at the marker.                                            *)

(* Mutant of VerdictOn: the sentinel is compared with a hash.                *)
VerdictOnHash(now) ==
    CASE use.was = now -> "noop"
      [] use.becomes = now /\ now # NoBytes -> "committed"
      [] OTHER -> "conflict"
VerdictOn(now) ==
    CASE use.was = now -> "noop"
      [] use.becomes = now -> "committed"
      [] OTHER -> "conflict"

Recover ==
    /\ use.at \in {"prepared", "failed", "applied", "undoing", "undoFailed", "undone"}
    /\ LET r == Resolve(use.path) IN
        use' = [use EXCEPT
            !.at = IF @ \in {"applied", "undone"} THEN "recoveredDone" ELSE "recoveredNot",
            !.verdict = IF r.st = "found" THEN VerdictOn(HashFile(r.path)) ELSE "conflict"]
    /\ UNCHANGED <<tree, tampered>>

-----------------------------------------------------------------------------
(* undo, with the recorded path: the checks and a marker of its own, in which *)
(* before and after change places, then the change.                          *)

(* Mutant of UndoError: the content is not compared.                         *)
UndoErrorBlind(r) == r.st # "found" \/ (use.op # "delete" /\ HashFile(r.path) = NoBytes)
UndoError(r) == r.st # "found" \/ HashFile(r.path) # use.becomes

UndoPrepare ==
    /\ use.at = "applied"
    /\ LET r == Resolve(use.path) IN
        use' = IF UndoError(r)
                 THEN [use EXCEPT !.at = "conflict"]
                 ELSE [use EXCEPT !.at = "undoing", !.abs = r.path,
                                  !.was = use.becomes, !.becomes = use.was]
    /\ UNCHANGED <<tree, tampered>>

(* remove_file; or a temp file in the parent directory, renamed onto the      *)
(* place, which must not be a directory.  The content is not looked at again. *)
Reverted(p) ==
    LET at == Place(p)
    IN  CASE at.st # "found" -> {}
          [] use.becomes = NoBytes ->
                IF Occupied(at.path, {"file", "link"}) THEN {Without(at.path)} ELSE {}
          [] OTHER ->
                IF Occupied(at.path, {"dir"}) THEN {} ELSE {PutNode(at.path, File(use.becomes))}

UndoApply ==
    /\ use.at = "undoing"
    /\ LET to == Reverted(use.abs) IN
        IF to = {} THEN use' = [use EXCEPT !.at = "undoFailed"] /\ UNCHANGED tree
        ELSE use' = [use EXCEPT !.at = "undone"] /\ tree' \in to
    /\ UNCHANGED tampered

-----------------------------------------------------------------------------
(* Others (external) put or remove one node p, which has nothing below it, in *)
(* a directory that is there.                                                *)
Untouched == tampered = "never"
Tamper(p, changed) ==
    /\ use.at \in {"prepared", "applied", "undoing"} /\ Untouched
    /\ Front(p) \in DOMAIN tree /\ tree[Front(p)].kind = "dir"
    /\ \A q \in DOMAIN tree : IsPrefix(p, q) => q = p
    /\ changed # tree
    /\ tree' = changed
    /\ tampered' = use.at
    /\ UNCHANGED use

PathInit == tree \in Trees /\ use = NoUse /\ tampered = "never"

PathStep == Apply \/ Recover \/ UndoPrepare \/ UndoApply

PathTypeOK ==
    /\ <<>> \in DOMAIN tree
    /\ \A p \in DOMAIN tree : p # <<>> => Front(p) \in DOMAIN tree /\ tree[Front(p)].kind = "dir"
    /\ use.at \in {"idle", "refused", "prepared", "failed", "applied", "recoveredDone",
                   "recoveredNot", "undoing", "undoFailed", "undone", "conflict"}
    /\ use.verdict \in {"none", "noop", "committed", "conflict"}

-----------------------------------------------------------------------------
(* A path that ends in a slash or a dot is accepted for a file that is not    *)
(* there yet, and refused once it is; the properties about coming back to an  *)
(* operation leave it out.                                                   *)
Named == use.path # <<>> /\ Last(use.path) \notin {".", ""}

(* workspace.rs 24: "a path that is guaranteed to stay inside root even when  *)
(* intermediate components are symlinks pointing out": in whatever tree an    *)
(* operation meets, a path that resolves is under its base, and no link the   *)
(* kernel would follow on the way there leads anywhere else.                 *)
StaysInside ==
    use.at # "idle" =>
        \A rel \in ClientPaths : LET r == Resolve(rel) IN
            r.st = "found" =>
                /\ IsPrefix(Base(rel), r.path)
                /\ \A p \in Above(r.path) : Canonicalize(p) \in {Found(p), Missed("NotFound")}

(* README "Safe undo": while nobody else touches the tree, an undo is not     *)
(* refused and brings back every file and link as it was, through links too,  *)
(* however the path resolves by then.  One case is left out: the path itself  *)
(* is a link to the file a delete removed.                                   *)
Leaves(t) == {<<p, t[p]>> : p \in {q \in DOMAIN t : t[q].kind # "dir"}}
EndsInLink(t) ==
    LET p == Base(use.path) \o Components(use.path) IN p \in DOMAIN t /\ t[p].kind = "link"
UndoRestores ==
    Untouched =>
        /\ use.at \in {"conflict", "undoFailed"} => ~Named
        /\ use.at = "undone" => \A t \in use.before :
            (use.op = "delete" /\ EndsInLink(t)) \/ Leaves(tree) = Leaves(t)

(* DESIGN.md 214 "instead of clobbering later changes": whatever others did   *)
(* before the undo looked, it touches nothing but what the operation left.    *)
(* (A link to nothing counts as no file, and the undo of a delete replaces     *)
(* it.)  Between that look and the change the code syncs a marker and does not *)
(* look again, so what others do there is left out: it may be overwritten.   *)
UndoSpares ==
    [][use.at = "undoing" /\ use'.at = "undone" /\ tampered # "undoing" =>
        \A p \in DOMAIN tree :
            \/ p \in DOMAIN tree' /\ tree'[p] = tree[p]
            \/ tree[p] = File(use.was)
            \/ tree[p].kind = "link" /\ use.op = "delete"]_pathVars

(* Recovery finds out from the path whether a mutation or its undo happened,  *)
(* through links too and also when the path resolves elsewhere by then.      *)
RecoveryKnows ==
    Untouched /\ Named =>
                 /\ use.at = "recoveredDone" => use.verdict = "committed"
                 /\ use.at = "recoveredNot" => use.verdict = "noop"

(* Whoever comes back to an operation by its recorded path finds what it did. *)
OperationFound == PathTypeOK /\ UndoRestores /\ RecoveryKnows
=============================================================================
