------------------------------ MODULE MCReading ------------------------------
(***************************************************************************)
(* A remote file, a directory or a tree that others change, and one user of  *)
(* it: a paged read, a paged listing, a download, or a mutation whose path   *)
(* is resolved again later.  Readers change nothing remote and mutations      *)
(* have the write guard, so one user at a time is enough.                    *)
(***************************************************************************)
EXTENDS Paging, Downloads, WorkspacePaths

vars == <<fileVars, pageVars, downloadVars, pathVars>>

(* Plain and three-byte characters at both ends, and a file that is no text.  *)
SmallContents ==
    {<<>>, <<"a">>, <<"a", "L", "C", "C">>, <<"L", "C", "C", "a">>, <<"C", "a">>}

Offsets == 0..5

(* The workspace has the names a and b, and b below a; the scratch root and   *)
(* the world outside have a file a.  Links lead to files and directories in   *)
(* and out of the base, to themselves, to each other and to nothing.         *)
RootDir == <<"w">>
Scratch == <<"s">>
Outside == <<"o">>
In(base, n) == Append(base, n)
Fixed == {<<>>, RootDir, Scratch, Outside}
LinkTargets == {In(RootDir, "a"), In(RootDir, "b"), Outside, In(Outside, "a"), In(Outside, "x")}
Nodes == {Dir, File(1)} \union {Link(t) : t \in LinkTargets}
Places == {In(RootDir, "a"), In(RootDir, "b")}
Inner == In(In(RootDir, "a"), "b")

TreeOf(nodes) ==
    [p \in Fixed \union {In(Outside, "a"), In(Scratch, "a")} \union DOMAIN nodes |->
        IF p \in DOMAIN nodes THEN nodes[p] ELSE IF p \in Fixed THEN Dir ELSE File(1)]
SmallTrees ==
    {TreeOf(n) : n \in UNION {[ps -> Nodes] : ps \in SUBSET Places}}
    \union {TreeOf([p \in {In(RootDir, "a"), Inner} |-> IF p = Inner THEN n ELSE Dir]) : n \in Nodes}
SmallPaths ==
    {<<>>, <<".">>, <<"a">>, <<"a", "b">>, <<"a", ".", "b">>, <<"b", "a">>, <<"a", "b", "c">>, <<"", "a">>,
     <<"a", "..", "b">>, <<"a", ".">>, <<"a", "">>, <<"@scratch">>, <<"@scratch", "a">>, <<"@scratch", "a", "b">>}

Idle == pages.at = "idle" /\ listing.at = "idle" /\ call.at = "idle" /\ use.at = "idle"

(* Only a mutation looks at the tree, and at nothing else; a listing looks at *)
(* neither file, a paged read not at the local one.                          *)
PlainTree == TreeOf([p \in {} |-> Dir])
Init ==
    /\ FileInit /\ PageInit /\ DownloadInit /\ PathInit
    /\ tree = PlainTree \/ (name = NoFile /\ local = NoLocal)

Start ==
    /\ Idle
    /\ \/ /\ local = NoLocal /\ tree = PlainTree
          /\ \E o \in Offsets, l \in 0..(ReadMax + 1) : StartReading(o, l)
          /\ UNCHANGED <<downloadVars, pathVars>>
       \/ /\ local = NoLocal /\ tree = PlainTree /\ name = NoFile
          /\ \E d \in SUBSET Names, l \in 0..(ListMax + 1) : StartListing(d, l)
          /\ UNCHANGED <<downloadVars, pathVars>>
       \/ /\ tree = PlainTree
          /\ \E o \in BOOLEAN : StartDownload(o)
          /\ UNCHANGED <<pageVars, pathVars>>
       \/ /\ local = NoLocal /\ name = NoFile
          /\ \E op \in {"create", "edit", "delete"}, rel \in ClientPaths : Prepare(op, rel, 2)
          /\ UNCHANGED <<pageVars, downloadVars>>
    /\ UNCHANGED fileVars

(* Others change the file while it is read.                                  *)
ChangeFile ==
    /\ pages.at = "reading" \/ (call.at \in Receiving /\ ~Exited)
    /\ ChangeRemote
    /\ UNCHANGED <<pageVars, pathVars>>

ChangeAround ==
    \/ \E n \in Names : (AddEntry(n) \/ RemoveEntry(n)) /\ UNCHANGED <<downloadVars, pathVars>>
    \/ LocalAppears /\ UNCHANGED <<pageVars, pathVars>>
    \/ /\ \E p \in Places \union {Inner} :
            Tamper(p, Without(p)) \/ \E n \in Nodes \union {File(2)} : Tamper(p, PutNode(p, n))
       /\ UNCHANGED <<fileVars, pageVars, downloadVars>>

Reading == (ReadPage \/ ListPage) /\ UNCHANGED <<fileVars, downloadVars, pathVars>>
Calling == CallStep /\ UNCHANGED <<fileVars, pageVars, pathVars>>
Sending == SenderStep /\ UNCHANGED <<fileVars, pageVars, pathVars>>
Mutating == PathStep /\ UNCHANGED <<fileVars, pageVars, downloadVars>>

(* The user is through, or a download waits for ever (see DownloadReturns). *)
Stop ==
    /\ \/ pages.at \notin {"idle", "reading"} \/ listing.at \notin {"idle", "listing"}
       \/ use.at \in {"refused", "recoveredDone", "recoveredNot", "undoFailed", "undone", "conflict"}
       \/ Returned \/ (call.at = "wait" /\ call.received = "nospace")
    /\ UNCHANGED vars

Next ==
    \/ Start \/ Reading \/ Calling \/ Sending \/ ChangeFile \/ ChangeAround
    \/ FaultStep /\ UNCHANGED <<fileVars, pageVars, pathVars>>
    \/ Mutating \/ Stop

(* The agent goes on; the client's call is polled; the sender is a running    *)
(* program.  Nothing forces changes or faults.                               *)
FairSpec ==
    /\ Init /\ [][Next]_vars
    /\ WF_vars(Reading) /\ WF_vars(Calling) /\ WF_vars(Sending)

(* A paged read comes to its last page, and a download returns.              *)
ReadersReturn == PagesEnd /\ DownloadReturns
=============================================================================
