------------------------------ MODULE JsonlLog ------------------------------
(***************************************************************************)
(* One append-only JSONL file of the operation store (operations.jsonl and   *)
(* requests.jsonl are the same code), at the level of single writes.  A line *)
(* is written as two writes, the JSON text and its newline, and then synced; *)
(* a crash loses any suffix that was not synced and may cut the first piece   *)
(* of it in two.  The loader judges each line, refuses a damaged one, and     *)
(* repairs the last.  AgentServer sees the outcome only: a line is in the log *)
(* or it is not, and the last line of an id counts.                           *)
(***************************************************************************)
EXTENDS Naturals, Sequences, FiniteSets, SequencesExt

CONSTANTS
    Writers,      \* tasks that append: one record each at a time
    Guarded,      \* those that hold the write guard (mutations; exec and claims do not)
    NoWriter,     \* nobody holds the guard
    Ids,          \* operation or request ids
    NoId,         \* the id of a piece that is no record
    MaxVer,       \* lines per id
    MaxCrashes, MaxFails, MaxRewrites

ASSUME LogAssumption ==
    /\ Guarded \subseteq Writers /\ NoWriter \notin Writers /\ NoId \notin Ids
    /\ IsFiniteSet(Ids)
    /\ {MaxVer, MaxCrashes, MaxFails, MaxRewrites} \subseteq Nat

VARIABLES
    file,     \* the pieces in the file, in order
    synced,   \* how many of them are on stable storage
    gen,      \* which file the name denotes: a rewrite renames a new one over it
    mem,      \* the table: the version of each id, 0 for none
    wr,       \* what each writer does
    guard,    \* holder of the write guard
    phase,    \* "down", "read" (parsed, repair to come), "serving", "refused"
    begun,    \* ghost: versions handed to an append
    acked,    \* ghost: versions whose append returned Ok
    snap,     \* the lines a rewrite has put in its temporary file, or NoSnap
    left,     \* what is left of the budgets for crashes, failures and rewrites
    history   \* ghost: what has happened that the code does not defend against

vars == <<file, synced, gen, mem, wr, guard, phase, begun, acked, snap, left, history>>

Versions == 0..MaxVer
Piece(k, i, v) == [k |-> k, id |-> i, ver |-> v]
(* A whole JSON text; one cut between characters; one cut inside a           *)
(* character, which is no UTF-8; the newline.                                *)
Rec(i, v) == Piece("rec", i, v)
Cut == Piece("cut", NoId, 0)
Split == Piece("split", NoId, 0)
NL == Piece("nl", NoId, 0)
(* No rewrite is going on; its lines are never blank.                         *)
NoSnap == <<NL>>
Pieces == {Rec(i, v) : i \in Ids, v \in Versions} \union {Cut, Split, NL}

Idle == [at |-> "idle", rec |-> NL, gen |-> 0]
Appending == {w \in Writers : wr[w].at # "idle"}
Zero == [i \in Ids |-> 0]

TypeOK ==
    /\ file \in Seq(Pieces) /\ synced \in 0..Len(file) /\ gen \in Nat
    /\ mem \in [Ids -> Versions] /\ begun \in [Ids -> Versions] /\ acked \in [Ids -> Versions]
    /\ wr \in [Writers -> [at : {"idle", "open", "body", "nl", "sync"}, rec : Pieces, gen : 0..gen]]
    /\ guard \in Writers \union {NoWriter}
    /\ phase \in {"down", "read", "serving", "refused"}
    /\ snap \in Seq(Pieces)
    /\ left \in [crashes : 0..MaxCrashes, fails : 0..MaxFails, rewrites : 0..MaxRewrites]
    /\ history \in [failed : BOOLEAN, overlap : BOOLEAN, exposed : SUBSET Ids]

Init ==
    /\ file = <<>> /\ synced = 0 /\ gen = 0
    /\ mem = Zero /\ begun = Zero /\ acked = Zero
    /\ wr = [w \in Writers |-> Idle]
    /\ guard = NoWriter /\ phase = "down" /\ snap = NoSnap
    /\ left = [crashes |-> MaxCrashes, fails |-> MaxFails, rewrites |-> MaxRewrites]
    /\ history = [failed |-> FALSE, overlap |-> FALSE, exposed |-> {}]

-----------------------------------------------------------------------------
(* The loader.                                                               *)

(* Just past the last newline.                                               *)
ValidEnd(f) == Max({0} \union {p \in DOMAIN f : f[p] = NL})
(* The lines: the content before each newline, and the rest if there is one. *)
LineStart(f, e) == 1 + Max({0} \union {p \in 1..(e - 1) : f[p] = NL})
Ended(f) == {SubSeq(f, LineStart(f, e), e - 1) : e \in {p \in DOMAIN f : f[p] = NL}}
Rest(f) == SubSeq(f, ValidEnd(f) + 1, Len(f))

IsUtf8(line) == \A p \in DOMAIN line : line[p] # Split
IsJson(line) == Len(line) = 1 /\ line[1].k = "rec"

(* Mutant of ParseLine: damaged lines are skipped instead of refused.        *)
ParseLineLenient(line, ended) == IF IsJson(line) THEN "parsed" ELSE "blank"
(* Mutant of ParseLine: bad UTF-8 has become an empty text, which is looked  *)
(* at first.                                                                 *)
ParseLineTextFirst(line, ended) ==
    CASE IsJson(line) -> "parsed"
      [] ~IsUtf8(line) \/ line = <<>> -> IF ended THEN "refused" ELSE "blank"
      [] OTHER -> IF ended THEN "refused" ELSE "truncated"
ParseLine(line, ended) ==
    CASE IsUtf8(line) /\ line = <<>> -> IF ended THEN "refused" ELSE "blank"
      [] IsUtf8(line) /\ IsJson(line) -> "parsed"
      [] OTHER -> IF ended THEN "refused" ELSE "truncated"

Loadable(f) == \A line \in Ended(f) : ParseLine(line, TRUE) # "refused"

(* Places of the file at which a line that parses has its record.            *)
Parsed(f) == {p \in DOMAIN f : /\ f[p].k = "rec"
                               /\ p = 1 \/ f[p - 1] = NL
                               /\ p = Len(f) \/ f[p + 1] = NL}
(* The table the loader builds: a later line of an id replaces an earlier.   *)
Loaded(f) ==
    [i \in Ids |-> LET at == {p \in Parsed(f) : f[p].id = i}
                   IN  IF at = {} THEN 0 ELSE f[Max(at)].ver]

(* Mutant of Repaired: a record without its newline is left as it is.        *)
RepairedNot(f) ==
    IF ParseLine(Rest(f), FALSE) = "truncated" THEN SubSeq(f, 1, ValidEnd(f)) ELSE f
Repaired(f) ==
    CASE ParseLine(Rest(f), FALSE) = "truncated" -> SubSeq(f, 1, ValidEnd(f))
      [] ParseLine(Rest(f), FALSE) = "parsed" -> Append(f, NL)
      [] OTHER -> f

Load ==
    /\ phase = "down"
    /\ phase' = IF Loadable(file) THEN "read" ELSE "refused"
    /\ mem' = IF Loadable(file) THEN Loaded(file) ELSE Zero
    /\ UNCHANGED <<file, synced, gen, wr, guard, begun, acked, snap, left, history>>

Repair ==
    /\ phase = "read"
    /\ phase' = "serving"
    /\ file' = Repaired(file)
    /\ synced' = Len(file')
    /\ UNCHANGED <<gen, mem, wr, guard, begun, acked, snap, left, history>>

-----------------------------------------------------------------------------
(* An append: open the file by its name, write the text, write the newline,  *)
(* sync, update the table.                                                   *)

Release(w) == guard' = IF guard = w THEN NoWriter ELSE guard

AppendOpen(w, i) ==
    /\ phase = "serving"
    /\ wr[w].at = "idle"
    /\ begun[i] < MaxVer
    /\ \A u \in Appending : wr[u].rec.id # i
    /\ w \in Guarded => guard = NoWriter
    /\ guard' = IF w \in Guarded THEN w ELSE guard
    /\ begun' = [begun EXCEPT ![i] = @ + 1]
    /\ wr' = [wr EXCEPT ![w] = [at |-> "open", rec |-> Rec(i, begun[i] + 1), gen |-> gen]]
    /\ history' = [history EXCEPT !.overlap = @ \/ Appending # {}]
    /\ UNCHANGED <<file, synced, gen, mem, phase, acked, snap, left>>

(* A write reaches the file the writer opened, which may have been replaced. *)
Put(w, piece) == file' = IF wr[w].gen = gen THEN Append(file, piece) ELSE file

WriteBody(w) ==
    /\ wr[w].at = "open"
    /\ Put(w, wr[w].rec)
    /\ wr' = [wr EXCEPT ![w].at = "body"]
    /\ UNCHANGED <<synced, gen, mem, guard, phase, begun, acked, snap, left, history>>

WriteNewline(w) ==
    /\ wr[w].at = "body"
    /\ Put(w, NL)
    /\ wr' = [wr EXCEPT ![w].at = "nl"]
    /\ UNCHANGED <<synced, gen, mem, guard, phase, begun, acked, snap, left, history>>

Sync(w) ==
    /\ wr[w].at = "nl"
    /\ synced' = IF wr[w].gen = gen THEN Len(file) ELSE synced
    /\ wr' = [wr EXCEPT ![w].at = "sync"]
    /\ UNCHANGED <<file, gen, mem, guard, phase, begun, acked, snap, left, history>>

(* The table's lock is held by a rewrite from its snapshot to its rename.    *)
UpdateTable(w) ==
    /\ wr[w].at = "sync"
    /\ snap = NoSnap
    /\ LET r == wr[w].rec IN
        /\ mem' = [mem EXCEPT ![r.id] = r.ver]
        /\ acked' = [acked EXCEPT ![r.id] = r.ver]
    /\ wr' = [wr EXCEPT ![w] = Idle]
    /\ Release(w)
    /\ UNCHANGED <<file, synced, gen, phase, begun, snap, left, history>>

(* A write or the sync fails and the caller gets the error.  Of the text a    *)
(* part may have been written (disk full), of the newline nothing.           *)
AppendFail(w) ==
    /\ wr[w].at \in {"open", "body", "nl"}
    /\ left.fails > 0
    /\ left' = [left EXCEPT !.fails = @ - 1]
    /\ \/ file' = file
       \/ wr[w].at = "open" /\ \E part \in {Cut, Split} : Put(w, part)
    /\ wr' = [wr EXCEPT ![w] = Idle]
    /\ Release(w)
    /\ history' = [history EXCEPT !.failed = TRUE]
    /\ UNCHANGED <<synced, gen, mem, phase, begun, acked, snap>>

-----------------------------------------------------------------------------
(* prune() rewrites the file from the table.                                 *)

(* The ids it keeps, in the order of their lines.                            *)
Orders == {order \in SeqOf(Ids, Cardinality(Ids)) : IsInjective(order)}

(* A text and a newline for each of them.                                    *)
LinesOf(order) ==
    [p \in 1..(2 * Len(order)) |->
        IF p % 2 = 0 THEN NL ELSE LET i == order[(p + 1) \div 2] IN Rec(i, mem[i])]

RewriteTemp(w, order) ==
    /\ phase = "serving"
    /\ w \in Guarded /\ wr[w].at = "idle" /\ guard = NoWriter
    /\ left.rewrites > 0
    /\ \A k \in 1..Len(order) : mem[order[k]] > 0
    /\ left' = [left EXCEPT !.rewrites = @ - 1]
    /\ guard' = w
    /\ snap' = LinesOf(order)
    /\ UNCHANGED <<file, synced, gen, mem, wr, phase, begun, acked, history>>

(* Mutant of RewriteRename: the new file takes over what was synced of the   *)
(* old one.                                                                  *)
RewriteRenameStale ==
    /\ snap # NoSnap
    /\ file' = snap
    /\ gen' = gen + 1
    /\ mem' = Loaded(snap)
    /\ acked' = [i \in Ids |-> IF mem'[i] = 0 THEN 0 ELSE acked[i]]
    /\ snap' = NoSnap
    /\ guard' = NoWriter
    /\ history' = [history EXCEPT !.exposed = @ \union {wr[w].rec.id : w \in Appending}]
    /\ UNCHANGED <<synced, wr, phase, begun, left>>
(* The rename; what was pruned is forgotten on purpose, an append in flight   *)
(* is not.                                                                   *)
RewriteRename ==
    /\ snap # NoSnap
    /\ file' = snap
    /\ synced' = Len(snap)
    /\ gen' = gen + 1
    /\ mem' = Loaded(snap)
    /\ acked' = [i \in Ids |-> IF mem'[i] = 0 THEN 0 ELSE acked[i]]
    /\ snap' = NoSnap
    /\ guard' = NoWriter
    /\ history' = [history EXCEPT !.exposed = @ \union {wr[w].rec.id : w \in Appending}]
    /\ UNCHANGED <<wr, phase, begun, left>>

-----------------------------------------------------------------------------
(* The process or the machine dies.                                          *)

Crash ==
    /\ phase # "down"
    /\ left.crashes > 0
    /\ left' = [left EXCEPT !.crashes = @ - 1]
    /\ \E n \in synced..Len(file) :
        LET kept == SubSeq(file, 1, n) IN
        /\ \/ file' = kept
           \/ /\ n < Len(file) /\ file[n + 1].k = "rec"
              /\ \E part \in {Cut, Split} : file' = Append(kept, part)
        /\ synced' = Len(file')
    /\ wr' = [w \in Writers |-> Idle]
    /\ guard' = NoWriter
    /\ mem' = Zero
    /\ snap' = NoSnap
    /\ phase' = "down"
    /\ UNCHANGED <<gen, begun, acked, history>>

Halted == phase = "refused" /\ UNCHANGED vars
Done == phase = "serving" /\ Appending = {} /\ snap = NoSnap /\ UNCHANGED vars

Next ==
    \/ Load \/ Repair \/ RewriteRename \/ Crash \/ Halted \/ Done
    \/ \E w \in Writers :
        \/ \E i \in Ids : AppendOpen(w, i)
        \/ WriteBody(w) \/ WriteNewline(w) \/ Sync(w) \/ UpdateTable(w) \/ AppendFail(w)
        \/ \E order \in Orders : RewriteTemp(w, order)

Spec == Init /\ [][Next]_vars

-----------------------------------------------------------------------------
(* What the file would give a server that started now: either it refuses, or *)
(* every append that returned Ok is in its table, with that line or a later  *)
(* one of the same id.  (Not for an append that a rewrite overtook.)         *)
NoSilentLoss ==
    Loadable(file) => \A i \in Ids \ history.exposed : Loaded(file)[i] >= acked[i]

(* As long as appends have neither overlapped nor failed, crashes anywhere,  *)
(* torn lines and repeated repairs never make a server refuse its own log.   *)
Restartable == history.failed \/ history.overlap \/ Loadable(file)

(* With the same restriction, a server at rest has on disk what it has in    *)
(* its table, in lines that are all ended: the next append starts a line.    *)
TableIsLog ==
    \/ history.failed \/ history.overlap \/ history.exposed # {}
    \/ phase # "serving" \/ Appending # {} \/ snap # NoSnap
    \/ Loaded(file) = mem /\ Rest(file) = <<>>

(* Whatever crashes leave of the file, clean appends and the loader's repair  *)
(* keep it readable and equal to the table.                                  *)
CrashSafe == TypeOK /\ Restartable /\ TableIsLog

(* store.rs 80: "the in-memory tables and the on-disk logs never interleave   *)
(* across concurrent requests".  Appends that succeed leave a log that loads. *)
NeverInterleave == history.failed \/ Loadable(file)
=============================================================================
