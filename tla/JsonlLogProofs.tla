--------------------------- MODULE JsonlLogProofs ---------------------------
(***************************************************************************)
(* What was acknowledged is found again, or the log is refused               *)
(* (NoSilentLoss), and clean appends, crashes and repairs never make a       *)
(* server refuse its own log (CrashSafe), for any number of writers, ids,    *)
(* lines, crashes, failures and rewrites.                                    *)
(***************************************************************************)
EXTENDS JsonlLog, SequenceTheorems, FiniteSetTheorems, NaturalsInduction,
        WellFoundedInduction, TLAPS

-----------------------------------------------------------------------------
(* Least and greatest positions.                                            *)

(* A set of numbers that is not empty has a least one.                      *)
LEMMA HasMin ==
  ASSUME NEW S \in SUBSET Nat, S # {}
  PROVE  \E x \in S : \A y \in S : x <= y
<1> DEFINE R == OpToRel(<, Nat)
<1>1. IsWellFoundedOn(R, Nat)
  BY NatLessThanWellFounded
<1>2. \E x \in S : \A y \in S : ~ (<<y, x>> \in R)
  <2> HIDE DEF R
  <2> QED  BY <1>1, WFMin
<1>3. \A x, y \in Nat : <<y, x>> \in R <=> y < x
  BY DEF OpToRel
<1> HIDE DEF R
<1>4. PICK x \in S : \A y \in S : ~ (y < x)
  BY <1>2, <1>3
<1> QED  BY <1>4

(* A set of positions that is not empty has a last one.                     *)
LEMMA MaxIs ==
  ASSUME NEW n \in Nat, NEW S \in SUBSET (0..n), S # {}
  PROVE  Max(S) \in S /\ \A y \in S : Max(S) >= y
<1> DEFINE T == {n - p : p \in S}
<1>1. T \in SUBSET Nat /\ T # {}
  <2>1. PICK p \in S : TRUE
    OBVIOUS
  <2>2. n - p \in T
    OBVIOUS
  <2>3. \A q \in S : n - q \in Nat
    OBVIOUS
  <2> QED  BY <2>2, <2>3
<1>2. PICK x \in T : \A y \in T : x <= y
  <2> HIDE DEF T
  <2> QED  BY <1>1, HasMin
<1>3. PICK p \in S : x = n - p
  OBVIOUS
<1>4. \A q \in S : n - p <= n - q
  BY <1>2, <1>3
<1>5. \A q \in S : p >= q
  BY <1>4
<1> QED  BY <1>5 DEF Max

-----------------------------------------------------------------------------
(* Pieces and lines.                                                        *)

(* A piece is a record of its id and version, or one of the three others.   *)
LEMMA PieceFacts ==
  /\ \A i, v : Rec(i, v).k = "rec" /\ Rec(i, v).id = i /\ Rec(i, v).ver = v
  /\ NL.k # "rec" /\ Cut.k # "rec" /\ Split.k # "rec"
  /\ Cut # NL /\ Split # NL /\ Cut # Split
  /\ \A i \in Ids, v \in Versions : Rec(i, v) \in Pieces
  /\ {Cut, Split, NL} \subseteq Pieces
  /\ \A x \in Pieces : x.k = "rec" =>
        x.id \in Ids /\ x.ver \in Versions /\ x = Rec(x.id, x.ver)
  /\ \A x \in Pieces : x.k # "rec" => x \in {Cut, Split, NL}
  BY DEF Pieces, Rec, Piece, NL, Cut, Split

IsRec(f, p, i) == f[p].k = "rec" /\ f[p].id = i
EndedBy(f, p, n) == \E q \in (p + 1)..n : f[q] = NL

(* The places of an id.                                                     *)
PlacesOf(f, i) == {p \in Parsed(f) : f[p].id = i}

(* The loader takes the last line of an id, if there is one.                *)
LEMMA LoadedIs ==
  ASSUME NEW f \in Seq(Pieces), NEW i \in Ids
  PROVE  /\ Loaded(f) \in [Ids -> Versions]
         /\ PlacesOf(f, i) = {} => Loaded(f)[i] = 0
         /\ PlacesOf(f, i) # {} =>
              \E p \in PlacesOf(f, i) : /\ Loaded(f)[i] = f[p].ver
                                        /\ \A q \in PlacesOf(f, i) : q <= p
<1> USE LogAssumption DEF LogAssumption
<1>1. PICK n \in Nat : n = Len(f)
  OBVIOUS
<1>2. ASSUME NEW j \in Ids, PlacesOf(f, j) # {}
      PROVE  /\ Max(PlacesOf(f, j)) \in PlacesOf(f, j)
             /\ \A q \in PlacesOf(f, j) : Max(PlacesOf(f, j)) >= q
             /\ f[Max(PlacesOf(f, j))].ver \in Versions
             /\ PlacesOf(f, j) \subseteq Nat
  <2>1. PlacesOf(f, j) \in SUBSET (0..n)
    BY <1>1 DEF PlacesOf, Parsed
  <2>2. Max(PlacesOf(f, j)) \in PlacesOf(f, j) /\ \A q \in PlacesOf(f, j) : Max(PlacesOf(f, j)) >= q
    BY <1>2, <2>1, MaxIs
  <2>3. \A p \in Parsed(f) : f[p] \in Pieces /\ f[p].k = "rec"
    BY DEF Parsed
  <2> QED  BY <2>1, <2>2, <2>3, PieceFacts DEF PlacesOf
<1>3. \A j \in Ids : Loaded(f)[j] = IF PlacesOf(f, j) = {} THEN 0 ELSE f[Max(PlacesOf(f, j))].ver
  BY DEF Loaded, PlacesOf
<1>4. Loaded(f) \in [Ids -> Versions]
  <2>1. \A j \in Ids : Loaded(f)[j] \in Versions
    BY <1>2, <1>3 DEF Versions
  <2> QED  BY <2>1 DEF Loaded
<1> QED  BY <1>2, <1>3, <1>4

(* It builds a table.                                                       *)
LEMMA LoadedType ==
  ASSUME NEW f \in Seq(Pieces)
  PROVE  Loaded(f) \in [Ids -> Versions]
<1>1. \A i \in Ids : Loaded(f) \in [Ids -> Versions]
  BY LoadedIs
<1>2. CASE Ids = {}
  BY <1>2 DEF Loaded
<1> QED  BY <1>1, <1>2

(* In a log that is not refused, every record whose line is ended parses.   *)
LEMMA EndedParses ==
  ASSUME NEW f \in Seq(Pieces), Loadable(f), NEW p \in 1..Len(f), f[p].k = "rec",
         EndedBy(f, p, Len(f))
  PROVE  p \in Parsed(f)
<1> DEFINE After == {q \in (p + 1)..Len(f) : f[q] = NL}
<1>1. PICK e \in (p + 1)..Len(f) : f[e] = NL /\ \A q \in (p + 1)..Len(f) : f[q] = NL => e <= q
  <2>1. After \in SUBSET Nat /\ After # {}
    BY DEF EndedBy
  <2>2. PICK e \in After : \A q \in After : e <= q
    BY <2>1, HasMin
  <2> QED  BY <2>2
<1> DEFINE Before == {0} \union {q \in 1..(e - 1) : f[q] = NL}
<1>2. PICK s : s = Max(Before)
  OBVIOUS
<1>3. s \in Before /\ \A q \in Before : s >= q
  <2>1. Before \in SUBSET (0..(e - 1)) /\ Before # {} /\ e - 1 \in Nat
    OBVIOUS
  <2> QED  BY <1>2, <2>1, MaxIs
<1>4. s \in 0..(p - 1)
  BY <1>1, <1>3, PieceFacts
<1>5. LineStart(f, e) = s + 1
  BY <1>2, <1>4 DEF LineStart
<1>6. PICK line : line = SubSeq(f, s + 1, e - 1)
  OBVIOUS
<1>7. line \in Ended(f)
  <2>1. line = SubSeq(f, LineStart(f, e), e - 1) /\ e \in {q \in DOMAIN f : f[q] = NL}
    BY <1>1, <1>5, <1>6
  <2> HIDE DEF After, Before
  <2> QED  BY <2>1 DEF Ended
<1>8. IsUtf8(line) /\ IsJson(line)
  <2>1. ParseLine(line, TRUE) # "refused"
    BY <1>7 DEF Loadable
  <2>2. CASE IsUtf8(line) /\ line = <<>>
    BY <2>1, <2>2 DEF ParseLine
  <2>3. CASE ~(IsUtf8(line) /\ line = <<>>) /\ ~(IsUtf8(line) /\ IsJson(line))
    BY <2>1, <2>3 DEF ParseLine
  <2> QED  BY <2>2, <2>3
<1>9. Len(line) = e - 1 - s
  BY <1>1, <1>4, <1>6, SubSeqProperties
<1>10. e = p + 1 /\ s = p - 1
  <2>1. e - 1 - s = 1
    BY <1>8, <1>9 DEF IsJson
  <2> QED  BY <1>1, <1>4, <2>1
<1>11. p = 1 \/ f[p - 1] = NL
  BY <1>3, <1>10
<1> QED  BY <1>1, <1>10, <1>11 DEF Parsed

-----------------------------------------------------------------------------
(* The invariant.                                                           *)

Quiet == phase # "serving" => Appending = {} /\ snap = NoSnap

(* Versions only grow, in the file too.                                     *)
VersionPart ==
    /\ \A i \in Ids : mem[i] <= begun[i] /\ acked[i] <= begun[i]
    /\ \A p \in 1..Len(file), i \in Ids : IsRec(file, p, i) => file[p].ver <= begun[i]
    /\ \A p, q \in 1..Len(file), i \in Ids :
           p < q /\ IsRec(file, p, i) /\ IsRec(file, q, i) => file[p].ver <= file[q].ver

(* How far an append has come, unless a rewrite has overtaken it.           *)
AppendPart(w) ==
    LET me == wr[w] IN
    me.at # "idle" =>
        /\ \E i \in Ids : me.rec = Rec(i, begun[i])
        /\ me.rec.id \notin history.exposed =>
              /\ me.gen = gen
              /\ me.at # "open" => \E p \in 1..Len(file) :
                     /\ file[p] = me.rec
                     /\ me.at \in {"nl", "sync"} => EndedBy(file, p, Len(file))
                     /\ me.at = "sync" => EndedBy(file, p, synced)

(* What was acknowledged is on stable storage, in a line that is ended.     *)
KeptPart ==
    \A i \in Ids \ history.exposed : acked[i] > 0 =>
        \E p \in 1..Len(file) :
            IsRec(file, p, i) /\ file[p].ver >= acked[i] /\ EndedBy(file, p, synced)

(* The table has it too, so a rewrite keeps it.                             *)
MemPart ==
    phase \in {"read", "serving"} => \A i \in Ids \ history.exposed : mem[i] >= acked[i]
SnapPart ==
    snap # NoSnap =>
        /\ Len(snap) % 2 = 0
        /\ \A p \in 1..Len(snap) :
              IF p % 2 = 0 THEN snap[p] = NL
              ELSE \E i \in Ids : mem[i] > 0 /\ snap[p] = Rec(i, mem[i])

LossInv ==
    /\ TypeOK /\ Quiet /\ VersionPart /\ KeptPart /\ MemPart /\ SnapPart
    /\ \A w \in Writers : AppendPart(w)

(* What is kept is loaded: the line parses if the log is not refused, and   *)
(* later lines of the id have later versions.                               *)
LEMMA KeptIsLoaded ==
  ASSUME TypeOK, VersionPart, KeptPart
  PROVE  NoSilentLoss
<1> SUFFICES ASSUME Loadable(file), NEW i \in Ids, i \notin history.exposed
             PROVE  Loaded(file)[i] >= acked[i]
  BY DEF NoSilentLoss
<1> USE LogAssumption DEF LogAssumption
<1>0. file \in Seq(Pieces) /\ synced \in 0..Len(file) /\ acked[i] \in Nat
  BY DEF TypeOK, Versions
<1>1. CASE acked[i] = 0
  <2>1. Loaded(file)[i] \in Versions
    BY <1>0, LoadedIs
  <2> QED  BY <1>1, <2>1 DEF Versions
<1>2. CASE acked[i] > 0
  <2>1. PICK p \in 1..Len(file) :
           IsRec(file, p, i) /\ file[p].ver >= acked[i] /\ EndedBy(file, p, synced)
    BY <1>2 DEF KeptPart
  <2>2. p \in PlacesOf(file, i)
    <3>1. EndedBy(file, p, Len(file))
      BY <1>0, <2>1 DEF EndedBy
    <3> QED  BY <1>0, <2>1, <3>1, EndedParses DEF PlacesOf, IsRec
  <2>3. PICK q \in PlacesOf(file, i) : /\ Loaded(file)[i] = file[q].ver
                                       /\ \A r \in PlacesOf(file, i) : r <= q
    BY <1>0, <2>2, LoadedIs
  <2>4. q \in 1..Len(file) /\ IsRec(file, q, i) /\ p <= q
    <3>1. q \in DOMAIN file /\ file[q].k = "rec" /\ file[q].id = i
      BY DEF PlacesOf, Parsed
    <3>2. DOMAIN file = 1..Len(file)
      BY <1>0
    <3> QED  BY <2>2, <2>3, <3>1, <3>2 DEF IsRec
  <2>5. file[p].ver \in Nat /\ file[q].ver \in Nat
    BY <1>0, <2>1, <2>4, PieceFacts DEF IsRec, Versions
  <2>6. file[p].ver <= file[q].ver
    BY <2>1, <2>4, <2>5 DEF VersionPart
  <2> QED  BY <1>0, <2>1, <2>3, <2>5, <2>6
<1> QED  BY <1>0, <1>1, <1>2

-----------------------------------------------------------------------------
(* Steps that keep what is in the file.                                     *)

Grows(f, g) == g \in Seq(Pieces) /\ Len(f) <= Len(g) /\ \A p \in 1..Len(f) : g[p] = f[p]

(* A file grows by a piece, or not at all.                                  *)
LEMMA AppendGrows ==
  ASSUME NEW f \in Seq(Pieces), NEW x \in Pieces
  PROVE  /\ Grows(f, f) /\ Grows(f, Append(f, x))
         /\ Append(f, x) \in Seq(Pieces)
         /\ Len(Append(f, x)) = Len(f) + 1 /\ Append(f, x)[Len(f) + 1] = x
  BY DEF Grows

(* A record that was there and ended still is.                              *)
LEMMA EndedStays ==
  ASSUME NEW f \in Seq(Pieces), NEW g, Grows(f, g), NEW n \in 0..Len(f), NEW m \in 0..Len(g),
         n <= m, NEW p \in 1..Len(f), EndedBy(f, p, n)
  PROVE  EndedBy(g, p, m)
  BY DEF EndedBy, Grows

(* What was kept stays kept when the file grows.                            *)
LEMMA KeptGrows ==
  ASSUME TypeOK, TypeOK', KeptPart, Grows(file, file'), synced <= synced',
         UNCHANGED acked, history'.exposed = history.exposed
  PROVE  KeptPart'
<1> SUFFICES ASSUME NEW i \in Ids \ history.exposed, acked[i] > 0
             PROVE  \E p \in 1..Len(file') : /\ IsRec(file', p, i) /\ file'[p].ver >= acked[i]
                                             /\ EndedBy(file', p, synced')
  BY DEF KeptPart
<1>1. PICK p \in 1..Len(file) :
         IsRec(file, p, i) /\ file[p].ver >= acked[i] /\ EndedBy(file, p, synced)
  BY DEF KeptPart
<1>2. file \in Seq(Pieces) /\ synced \in 0..Len(file) /\ synced' \in 0..Len(file')
  BY DEF TypeOK
<1>3. EndedBy(file', p, synced')
  BY <1>1, <1>2, EndedStays
<1>4. p \in 1..Len(file') /\ file'[p] = file[p]
  BY <1>2 DEF Grows
<1> QED  BY <1>1, <1>3, <1>4 DEF IsRec

(* The progress of an append that does not move stays true.                 *)
LEMMA AppendGoes ==
  ASSUME TypeOK, TypeOK', Grows(file, file'), synced <= synced', UNCHANGED gen,
         history'.exposed = history.exposed,
         NEW w \in Writers, AppendPart(w), wr'[w] = wr[w],
         \A i \in Ids : wr[w].at # "idle" /\ wr[w].rec.id = i => begun'[i] = begun[i]
  PROVE  AppendPart(w)'
<1> SUFFICES ASSUME wr[w].at # "idle" PROVE AppendPart(w)'
  BY DEF AppendPart
<1>1. PICK me : me = wr[w]
  OBVIOUS
<1>2. \E i \in Ids : me.rec = Rec(i, begun'[i])
  <2>1. PICK i \in Ids : me.rec = Rec(i, begun[i])
    BY <1>1 DEF AppendPart
  <2>2. me.rec.id = i
    BY <2>1 DEF Rec, Piece
  <2> QED  BY <1>1, <2>1, <2>2
<1>3. file \in Seq(Pieces) /\ synced \in 0..Len(file) /\ synced' \in 0..Len(file')
      /\ Len(file) \in Nat /\ Len(file') \in Nat
  <2>1. file \in Seq(Pieces) /\ synced \in 0..Len(file)
    BY DEF TypeOK
  <2>2. file' \in Seq(Pieces) /\ synced' \in 0..Len(file')
    BY DEF TypeOK
  <2> QED  BY <2>1, <2>2
<1>4. ASSUME me.rec.id \notin history.exposed, me.at # "open"
      PROVE  \E p \in 1..Len(file') :
               /\ file'[p] = me.rec
               /\ me.at \in {"nl", "sync"} => EndedBy(file', p, Len(file'))
               /\ me.at = "sync" => EndedBy(file', p, synced')
  <2>1. PICK p \in 1..Len(file) :
               /\ file[p] = me.rec
               /\ me.at \in {"nl", "sync"} => EndedBy(file, p, Len(file))
               /\ me.at = "sync" => EndedBy(file, p, synced)
    BY <1>1, <1>4 DEF AppendPart
  <2>2. p \in 1..Len(file') /\ file'[p] = file[p] /\ Len(file) <= Len(file')
    BY <1>3 DEF Grows
  <2>3. EndedBy(file, p, Len(file)) => EndedBy(file', p, Len(file'))
    BY <1>3, <2>2, EndedStays
  <2>4. EndedBy(file, p, synced) => EndedBy(file', p, synced')
    BY <1>3, EndedStays
  <2> QED  BY <2>1, <2>2, <2>3, <2>4
<1>5. me.rec.id \notin history.exposed => me.gen = gen
  BY <1>1 DEF AppendPart
<1> QED  BY <1>1, <1>2, <1>4, <1>5 DEF AppendPart

(* The file as it is, and as it was.                                        *)
FileSame == UNCHANGED <<file, synced, gen, acked, history>>

(* A fresh log satisfies the invariant.                                     *)
LEMMA LossInit == Init => LossInv
<1> SUFFICES ASSUME Init PROVE LossInv
  OBVIOUS
<1> USE LogAssumption DEF LogAssumption, Init
<1>1. TypeOK
  BY PieceFacts DEF TypeOK, Idle, Zero, Versions, NoSnap
<1>2. Quiet /\ MemPart /\ SnapPart /\ \A w \in Writers : AppendPart(w)
  BY DEF Quiet, MemPart, SnapPart, AppendPart, Appending, Idle
<1>3. VersionPart
  BY DEF VersionPart, Zero
<1>4. KeptPart
  BY DEF KeptPart, Zero
<1> QED  BY <1>1, <1>2, <1>3, <1>4 DEF LossInv

-----------------------------------------------------------------------------
(* Every step keeps it.                                                     *)

(* Load: the table is the file's, and what was acknowledged is in it.       *)
LEMMA LossLoad ==
  ASSUME LossInv, Load
  PROVE  LossInv'
<1> USE LogAssumption DEF LogAssumption
<1>0. file \in Seq(Pieces) /\ \A i \in Ids : acked[i] \in Nat /\ begun[i] \in Nat
  BY DEF LossInv, TypeOK, Versions
<1>1. TypeOK'
  <2>1. mem' \in [Ids -> Versions]
    BY <1>0, LoadedType DEF Load, Zero, Versions
  <2>2. phase' \in {"read", "refused"}
    BY DEF Load
  <2>3. UNCHANGED <<file, synced, gen, wr, guard, begun, acked, snap, left, history>>
    BY DEF Load
  <2> QED  BY <2>1, <2>2, <2>3 DEF LossInv, TypeOK
<1>2. Quiet'
  BY DEF LossInv, Quiet, Load, Appending
<1>3. \A i \in Ids : mem'[i] <= begun[i]
  <2> TAKE i \in Ids
  <2>1. Zero[i] = 0
    BY DEF Zero
  <2>2. Loaded(file)[i] <= begun[i]
    <3>1. CASE PlacesOf(file, i) = {}
      BY <1>0, <3>1, LoadedIs
    <3>2. CASE PlacesOf(file, i) # {}
      <4>1. PICK p \in PlacesOf(file, i) : Loaded(file)[i] = file[p].ver
        BY <1>0, <3>2, LoadedIs
      <4>2. p \in 1..Len(file) /\ IsRec(file, p, i)
        BY <1>0 DEF PlacesOf, Parsed, IsRec
      <4> QED  BY <4>1, <4>2 DEF LossInv, VersionPart
    <3> QED  BY <3>1, <3>2
  <2> QED  BY <1>0, <2>1, <2>2 DEF Load
<1>4. VersionPart'
  BY <1>3 DEF LossInv, VersionPart, Load
<1>5. KeptPart' /\ SnapPart'
  BY DEF LossInv, KeptPart, SnapPart, Load, Quiet
<1>6. MemPart'
  <2>1. Loadable(file) => NoSilentLoss
    BY KeptIsLoaded DEF LossInv
  <2> QED  BY <2>1 DEF MemPart, Load, NoSilentLoss
<1>7. \A w \in Writers : AppendPart(w)'
  <2> TAKE w \in Writers
  <2>1. AppendPart(w)
    BY DEF LossInv
  <2> QED  BY <2>1 DEF AppendPart, Load
<1> QED  BY <1>1, <1>2, <1>4, <1>5, <1>6, <1>7 DEF LossInv

(* What the repair leaves of a file: all up to the last newline, and a      *)
(* record after it with a newline of its own.                               *)
LEMMA RepairedIs ==
  ASSUME NEW f \in Seq(Pieces)
  PROVE  /\ Repaired(f) \in Seq(Pieces)
         /\ \/ Repaired(f) = f
            \/ Repaired(f) = Append(f, NL)
            \/ \E n \in 0..Len(f) : /\ Repaired(f) = SubSeq(f, 1, n)
                                    /\ \A p \in 1..Len(f) : f[p] = NL => p <= n
                                    /\ n = 0 \/ f[n] = NL
<1>1. PICK n : n = ValidEnd(f)
  OBVIOUS
<1> DEFINE S == {0} \union {p \in DOMAIN f : f[p] = NL}
<1>2. n \in S /\ \A p \in S : n >= p
  <2>1. S \in SUBSET (0..Len(f)) /\ S # {} /\ Len(f) \in Nat
    OBVIOUS
  <2>2. n = Max(S)
    BY <1>1 DEF ValidEnd
  <2> HIDE DEF S
  <2> QED  BY <2>1, <2>2, MaxIs
<1>3. n \in 0..Len(f) /\ (\A p \in 1..Len(f) : f[p] = NL => p <= n) /\ (n = 0 \/ f[n] = NL)
  BY <1>2
<1>4. SubSeq(f, 1, n) \in Seq(Pieces) /\ Append(f, NL) \in Seq(Pieces)
  BY <1>3, PieceFacts, SubSeqProperties
<1>5. PICK v : v = ParseLine(Rest(f), FALSE)
  OBVIOUS
<1> HIDE DEF S
<1>6. CASE v = "truncated"
  BY <1>1, <1>3, <1>4, <1>5, <1>6 DEF Repaired
<1>7. CASE v = "parsed"
  BY <1>4, <1>5, <1>7 DEF Repaired
<1>8. CASE v \notin {"truncated", "parsed"}
  BY <1>5, <1>8 DEF Repaired
<1> QED  BY <1>6, <1>7, <1>8

(* Repair: it cuts off nothing that is ended.                               *)
LEMMA LossRepair ==
  ASSUME LossInv, Repair
  PROVE  LossInv'
<1> USE LogAssumption DEF LogAssumption
<1>0. /\ file \in Seq(Pieces) /\ file' = Repaired(file) /\ file' \in Seq(Pieces)
      /\ synced' = Len(file') /\ synced \in 0..Len(file)
  BY RepairedIs DEF LossInv, TypeOK, Repair
<1>1. TypeOK'
  BY <1>0 DEF LossInv, TypeOK, Repair
<1>2. PICK n \in 0..Len(file) : /\ \A p \in 1..n : p <= Len(file') /\ file'[p] = file[p]
                                /\ \A p \in 1..Len(file') : p <= n \/ file'[p] = NL
                                /\ \A p \in 1..Len(file) : file[p] = NL => p <= n
  <2>1. CASE file' = file
    BY <1>0, <2>1
  <2>2. CASE file' = Append(file, NL)
    BY <1>0, <2>2, PieceFacts
  <2>3. ASSUME NEW n \in 0..Len(file), file' = SubSeq(file, 1, n),
               \A p \in 1..Len(file) : file[p] = NL => p <= n
        PROVE  /\ \A p \in 1..n : p <= Len(file') /\ file'[p] = file[p]
               /\ \A p \in 1..Len(file') : p <= n \/ file'[p] = NL
    <3>1. Len(file') = n /\ \A p \in 1..n : file'[p] = file[p]
      BY <1>0, <2>3, SubSeqProperties
    <3> QED  BY <3>1
  <2> QED  BY <1>0, <2>1, <2>2, <2>3, RepairedIs
<1>3. Quiet'
  BY DEF LossInv, Quiet, Repair, Appending
<1>4. VersionPart'
  <2>1. \A p \in 1..Len(file'), i \in Ids :
           IsRec(file', p, i) => p \in 1..Len(file) /\ file'[p] = file[p]
    BY <1>0, <1>2, PieceFacts DEF IsRec
  <2>2. UNCHANGED <<mem, begun, acked>>
    BY DEF Repair
  <2> QED  BY <2>1, <2>2 DEF LossInv, VersionPart, IsRec
<1>5. KeptPart'
  <2> SUFFICES ASSUME NEW i \in Ids \ history.exposed, acked[i] > 0
               PROVE  \E p \in 1..Len(file') : /\ IsRec(file', p, i) /\ file'[p].ver >= acked[i]
                                               /\ EndedBy(file', p, synced')
    BY DEF KeptPart, Repair
  <2>1. PICK p \in 1..Len(file) :
           IsRec(file, p, i) /\ file[p].ver >= acked[i] /\ EndedBy(file, p, synced)
    BY DEF LossInv, KeptPart
  <2>2. PICK q \in (p + 1)..synced : file[q] = NL
    BY <2>1 DEF EndedBy
  <2>3. q \in 1..n /\ q <= Len(file') /\ file'[q] = NL /\ p \in 1..n /\ file'[p] = file[p]
    BY <1>0, <1>2, <2>2
  <2> QED  BY <1>0, <2>1, <2>2, <2>3 DEF EndedBy, IsRec
<1>6. MemPart' /\ SnapPart'
  BY DEF LossInv, MemPart, SnapPart, Repair, Quiet
<1>7. \A w \in Writers : AppendPart(w)'
  <2> TAKE w \in Writers
  <2>1. wr'[w].at = "idle"
    BY DEF LossInv, Quiet, Appending, Repair
  <2> QED  BY <2>1 DEF AppendPart
<1> QED  BY <1>1, <1>3, <1>4, <1>5, <1>6, <1>7 DEF LossInv

(* AppendOpen: a version that nobody has used.                              *)
LEMMA LossOpen ==
  ASSUME LossInv, NEW w \in Writers, NEW i \in Ids, AppendOpen(w, i)
  PROVE  LossInv'
<1> USE LogAssumption DEF LogAssumption
<1>0. /\ UNCHANGED <<file, synced, gen, mem, phase, acked, snap, left>>
      /\ history' = [history EXCEPT !.overlap = @ \/ Appending # {}]
      /\ begun[i] \in Versions /\ begun[i] + 1 \in Versions
      /\ begun' = [begun EXCEPT ![i] = begun[i] + 1] /\ begun' \in [Ids -> Versions]
      /\ wr' = [wr EXCEPT ![w] = [at |-> "open", rec |-> Rec(i, begun[i] + 1), gen |-> gen]]
      /\ phase = "serving" /\ wr[w].at = "idle" /\ \A u \in Appending : wr[u].rec.id # i
  <2>1. begun \in [Ids -> Versions]
    BY DEF LossInv, TypeOK
  <2>2. begun[i] \in Versions /\ begun[i] < MaxVer /\ begun' = [begun EXCEPT ![i] = begun[i] + 1]
    BY <2>1 DEF AppendOpen
  <2>3. begun[i] + 1 \in Versions
    BY <2>2 DEF Versions
  <2>4. begun' \in [Ids -> Versions]
    BY <2>1, <2>2, <2>3
  <2> QED  BY <2>2, <2>3, <2>4 DEF AppendOpen
<1>1. TypeOK'
  <2>1. history' \in [failed : BOOLEAN, overlap : BOOLEAN, exposed : SUBSET Ids]
    BY <1>0 DEF LossInv, TypeOK
  <2>2. guard' \in Writers \union {NoWriter}
    BY DEF LossInv, TypeOK, AppendOpen
  <2>3. wr' \in [Writers -> [at : {"idle", "open", "body", "nl", "sync"}, rec : Pieces, gen : 0..gen]]
    <3>1. [at |-> "open", rec |-> Rec(i, begun[i] + 1), gen |-> gen] \in
             [at : {"idle", "open", "body", "nl", "sync"}, rec : Pieces, gen : 0..gen]
      BY <1>0, PieceFacts DEF LossInv, TypeOK
    <3> QED  BY <1>0, <3>1 DEF LossInv, TypeOK
  <2> QED  BY <1>0, <2>1, <2>2, <2>3 DEF LossInv, TypeOK
<1>2. history'.exposed = history.exposed
  BY <1>0 DEF LossInv, TypeOK
<1>3. \A j \in Ids : begun[j] \in Nat /\ begun'[j] \in Nat /\ begun[j] <= begun'[j]
  <2>1. \A j \in Ids : begun[j] \in Nat
    BY DEF LossInv, TypeOK, Versions
  <2>2. begun \in [Ids -> Versions]
    BY DEF LossInv, TypeOK
  <2>3. \A j \in Ids : begun'[j] = IF j = i THEN begun[i] + 1 ELSE begun[j]
    BY <1>0, <2>2
  <2> QED  BY <2>1, <2>3
<1>4. Quiet' /\ MemPart' /\ SnapPart'
  <2>1. Quiet'
    BY <1>0 DEF Quiet
  <2>2. MemPart'
    BY <1>0, <1>2 DEF LossInv, MemPart
  <2>3. SnapPart'
    BY <1>0 DEF LossInv, SnapPart
  <2> QED  BY <2>1, <2>2, <2>3
<1>5. VersionPart'
  <2>1. \A j \in Ids : mem[j] \in Nat /\ acked[j] \in Nat
    BY DEF LossInv, TypeOK, Versions
  <2>2. \A p \in 1..Len(file), j \in Ids : IsRec(file, p, j) => file[p].ver \in Nat
    <3>1. \A p \in 1..Len(file) : file[p] \in Pieces
      BY DEF LossInv, TypeOK
    <3> QED  BY <3>1, PieceFacts DEF IsRec, Versions
  <2> QED  BY <1>0, <1>3, <2>1, <2>2 DEF LossInv, VersionPart, IsRec
<1>6. KeptPart'
  BY <1>0, <1>2 DEF LossInv, KeptPart, IsRec, EndedBy
<1>7. ASSUME NEW u \in Writers PROVE AppendPart(u)'
  <2>1. CASE u = w
    <3>1. wr'[w] = [at |-> "open", rec |-> Rec(i, begun[i] + 1), gen |-> gen]
      BY <1>0 DEF LossInv, TypeOK
    <3>2. begun'[i] = begun[i] + 1
      BY <1>0 DEF LossInv, TypeOK
    <3> QED  BY <1>0, <2>1, <3>1, <3>2 DEF AppendPart
  <2>2. CASE u # w
    <3>1. wr'[u] = wr[u] /\ AppendPart(u)
      BY <1>0, <2>2 DEF LossInv, TypeOK
    <3>2. \A j \in Ids : wr[u].at # "idle" /\ wr[u].rec.id = j => begun'[j] = begun[j]
      BY <1>0 DEF LossInv, TypeOK, Appending
    <3>3. Grows(file, file') /\ synced <= synced' /\ TypeOK
      BY <1>0 DEF LossInv, TypeOK, Grows
    <3> QED  BY <1>0, <1>1, <1>2, <3>1, <3>2, <3>3, AppendGoes
  <2> QED  BY <2>1, <2>2
<1> QED  BY <1>1, <1>4, <1>5, <1>6, <1>7 DEF LossInv

(* A piece a writer puts is the end of its file.                            *)
LEMMA PutGrows ==
  ASSUME TypeOK, NEW w \in Writers, NEW x \in Pieces, Put(w, x)
  PROVE  /\ Grows(file, file') /\ file' \in Seq(Pieces)
         /\ wr[w].gen = gen => file' = Append(file, x) /\ Len(file') = Len(file) + 1
                                 /\ file'[Len(file) + 1] = x
         /\ wr[w].gen # gen => file' = file
  BY AppendGrows DEF TypeOK, Put

(* The conjuncts about versions, for a piece that is put.                   *)
LEMMA VersionsPut ==
  ASSUME LossInv, NEW w \in Writers, NEW x \in Pieces, Put(w, x),
         x.k = "rec" => \E i \in Ids : x = Rec(i, begun[i]),
         UNCHANGED <<mem, begun, acked>>
  PROVE  VersionPart'
<1>1. CASE wr[w].gen # gen
  <2>1. file' = file
    BY <1>1, PutGrows DEF LossInv
  <2> QED  BY <2>1 DEF LossInv, VersionPart, IsRec
<1>2. CASE wr[w].gen = gen
  <2>1. PICK n \in Nat : n = Len(file)
    BY DEF LossInv, TypeOK
  <2>2. Len(file') = n + 1 /\ file'[n + 1] = x /\ \A p \in 1..n : file'[p] = file[p]
    BY <1>2, <2>1, PutGrows DEF LossInv, Grows
  <2>3. \A p \in 1..(n + 1), i \in Ids : IsRec(file', p, i) =>
           \/ p \in 1..n /\ file'[p] = file[p] /\ IsRec(file, p, i)
           \/ p = n + 1 /\ file'[p].ver = begun[i]
    BY <2>2, PieceFacts DEF IsRec
  <2>4. \A i \in Ids : begun[i] \in Nat
    BY DEF LossInv, TypeOK, Versions
  <2>5. \A p \in 1..n, i \in Ids : IsRec(file, p, i) => file[p].ver <= begun[i]
    BY <2>1 DEF LossInv, VersionPart
  <2>6. \A p, q \in 1..n, i \in Ids :
           p < q /\ IsRec(file, p, i) /\ IsRec(file, q, i) => file[p].ver <= file[q].ver
    BY <2>1 DEF LossInv, VersionPart
  <2>7. \A p \in 1..(n + 1), i \in Ids : IsRec(file', p, i) => file'[p].ver <= begun[i]
    BY <2>3, <2>4, <2>5
  <2>8. ASSUME NEW p \in 1..(n + 1), NEW q \in 1..(n + 1), NEW i \in Ids, p < q,
               IsRec(file', p, i), IsRec(file', q, i)
        PROVE  file'[p].ver <= file'[q].ver
    <3>1. p \in 1..n /\ file'[p] = file[p] /\ IsRec(file, p, i)
      BY <2>3, <2>8
    <3>2. CASE q \in 1..n /\ file'[q] = file[q] /\ IsRec(file, q, i)
      BY <2>6, <2>8, <3>1, <3>2
    <3>3. CASE q = n + 1 /\ file'[q].ver = begun[i]
      BY <2>5, <3>1, <3>3
    <3> QED  BY <2>3, <2>8, <3>2, <3>3
  <2> QED  BY <2>2, <2>7, <2>8 DEF LossInv, VersionPart
<1> QED  BY <1>1, <1>2

(* The next stage of an append.                                             *)
Moves(w, at) == wr' = [wr EXCEPT ![w].at = at]

(* It has a type, and the other appends stay where they are.                *)
LEMMA MovesFacts ==
  ASSUME TypeOK, NEW w \in Writers, NEW at \in {"body", "nl", "sync"}, Moves(w, at), UNCHANGED gen
  PROVE  /\ wr' \in [Writers -> [at : {"idle", "open", "body", "nl", "sync"}, rec : Pieces,
                                 gen : 0..gen]]
         /\ wr'[w].at = at /\ wr'[w].rec = wr[w].rec /\ wr'[w].gen = wr[w].gen
         /\ \A u \in Writers \ {w} : wr'[u] = wr[u]
  BY DEF TypeOK, Moves

(* A write, of the text or of the newline.                                  *)
LEMMA LossPut ==
  ASSUME LossInv, NEW w \in Writers, NEW x \in Pieces, Put(w, x),
         NEW at \in {"body", "nl"}, Moves(w, at),
         at = "body" => wr[w].at = "open" /\ x = wr[w].rec,
         at = "nl" => wr[w].at = "body" /\ x = NL,
         UNCHANGED <<synced, gen, mem, guard, phase, begun, acked, snap, left, history>>
  PROVE  LossInv'
<1> USE LogAssumption DEF LogAssumption
<1>0. TypeOK /\ AppendPart(w) /\ wr[w].at # "idle"
  BY DEF LossInv
<1>1. PICK n \in Nat : n = Len(file)
  BY <1>0 DEF TypeOK
<1>2. /\ Grows(file, file') /\ file' \in Seq(Pieces)
      /\ wr[w].gen = gen => Len(file') = n + 1 /\ file'[n + 1] = x
  BY <1>0, <1>1, PutGrows
<1>3. TypeOK'
  <2>1. synced' \in 0..Len(file')
    BY <1>0, <1>2 DEF TypeOK, Grows
  <2>2. wr' \in [Writers -> [at : {"idle", "open", "body", "nl", "sync"}, rec : Pieces, gen : 0..gen']]
    BY <1>0, MovesFacts
  <2> QED  BY <1>0, <1>2, <2>1, <2>2 DEF TypeOK
<1>4. Quiet' /\ MemPart' /\ SnapPart'
  <2>1. phase = "serving"
    BY <1>0 DEF LossInv, Quiet, Appending
  <2> QED  BY <2>1 DEF LossInv, Quiet, MemPart, SnapPart
<1>5. VersionPart'
  <2>1. x.k = "rec" => \E i \in Ids : x = Rec(i, begun[i])
    BY <1>0, PieceFacts DEF AppendPart
  <2> QED  BY <2>1, VersionsPut
<1>6. synced <= synced' /\ Len(file) <= Len(file')
  BY <1>0, <1>2 DEF TypeOK, Grows
<1>7. KeptPart'
  BY <1>0, <1>2, <1>3, <1>6, KeptGrows DEF LossInv
<1>8. ASSUME NEW u \in Writers PROVE AppendPart(u)'
  <2>1. CASE u # w
    BY <1>0, <1>2, <1>3, <1>6, <2>1, MovesFacts, AppendGoes DEF LossInv
  <2>2. CASE u = w
    <3>1. wr'[w].at = at /\ wr'[w].rec = wr[w].rec /\ wr'[w].gen = wr[w].gen
      BY <1>0, MovesFacts
    <3>2. PICK r, g : r = wr[w].rec /\ g = wr[w].gen
      OBVIOUS
    <3>3. (\E i \in Ids : r = Rec(i, begun[i])) /\ (r.id \notin history.exposed => g = gen)
      BY <1>0, <3>2 DEF AppendPart
    <3>4. ASSUME r.id \notin history.exposed
          PROVE  \E p \in 1..Len(file') : /\ file'[p] = r
                                          /\ at = "nl" => EndedBy(file', p, Len(file'))
      <4>1. Len(file') = n + 1 /\ file'[n + 1] = x
        BY <1>2, <3>2, <3>3, <3>4
      <4>2. CASE at = "body"
        BY <3>2, <4>1, <4>2
      <4>3. CASE at = "nl"
        <5>1. PICK p \in 1..n : file[p] = r
          BY <1>0, <1>1, <3>2, <3>4, <4>3 DEF AppendPart
        <5>2. file'[p] = r /\ p \in 1..Len(file')
          BY <1>1, <1>2, <4>1, <5>1 DEF Grows
        <5> QED  BY <4>1, <4>3, <5>1, <5>2 DEF EndedBy
      <4> QED  BY <4>2, <4>3
    <3> QED  BY <2>2, <3>1, <3>2, <3>3, <3>4 DEF AppendPart
  <2> QED  BY <2>1, <2>2
<1> QED  BY <1>3, <1>4, <1>5, <1>7, <1>8 DEF LossInv

(* Sync: what is in the file is on stable storage.                          *)
LEMMA LossSync ==
  ASSUME LossInv, NEW w \in Writers, Sync(w)
  PROVE  LossInv'
<1> USE LogAssumption DEF LogAssumption
<1>0. /\ TypeOK /\ AppendPart(w) /\ wr[w].at = "nl" /\ Moves(w, "sync")
      /\ UNCHANGED <<file, gen, mem, guard, phase, begun, acked, snap, left, history>>
      /\ synced' = IF wr[w].gen = gen THEN Len(file) ELSE synced
  BY DEF LossInv, Sync, Moves
<1>1. TypeOK'
  <2>1. synced' \in 0..Len(file')
    BY <1>0 DEF TypeOK
  <2>2. wr' \in [Writers -> [at : {"idle", "open", "body", "nl", "sync"}, rec : Pieces, gen : 0..gen']]
    BY <1>0, MovesFacts
  <2> QED  BY <1>0, <2>1, <2>2 DEF TypeOK
<1>2. Quiet' /\ MemPart' /\ SnapPart'
  <2>1. phase = "serving"
    BY <1>0 DEF LossInv, Quiet, Appending
  <2> QED  BY <1>0, <2>1 DEF LossInv, Quiet, MemPart, SnapPart
<1>3. VersionPart'
  BY <1>0 DEF LossInv, VersionPart, IsRec
<1>4. Grows(file, file') /\ synced <= synced'
  BY <1>0 DEF TypeOK, Grows
<1>5. KeptPart'
  BY <1>0, <1>1, <1>4, KeptGrows DEF LossInv
<1>6. ASSUME NEW u \in Writers PROVE AppendPart(u)'
  <2>1. CASE u # w
    BY <1>0, <1>1, <1>4, <2>1, MovesFacts, AppendGoes DEF LossInv
  <2>2. CASE u = w
    <3>1. wr'[w].at = "sync" /\ wr'[w].rec = wr[w].rec /\ wr'[w].gen = wr[w].gen
      BY <1>0, MovesFacts
    <3> QED  BY <1>0, <2>2, <3>1 DEF AppendPart
  <2> QED  BY <2>1, <2>2
<1> QED  BY <1>1, <1>2, <1>3, <1>5, <1>6 DEF LossInv

(* UpdateTable: the append returns Ok.                                      *)
LEMMA LossTable ==
  ASSUME LossInv, NEW w \in Writers, UpdateTable(w)
  PROVE  LossInv'
<1> USE LogAssumption DEF LogAssumption
<1>0. /\ TypeOK /\ AppendPart(w) /\ wr[w].at = "sync" /\ snap = NoSnap
      /\ UNCHANGED <<file, synced, gen, phase, begun, snap, left, history>>
  BY DEF LossInv, UpdateTable
<1>1. PICK i \in Ids : wr[w].rec = Rec(i, begun[i])
  BY <1>0 DEF AppendPart
<1>2. PICK v : v = begun[i]
  OBVIOUS
<1>3. /\ mem' = [mem EXCEPT ![i] = v] /\ acked' = [acked EXCEPT ![i] = v]
      /\ wr' = [wr EXCEPT ![w] = Idle] /\ v \in Versions
  <2>1. v \in Versions
    BY <1>0, <1>2 DEF TypeOK
  <2>2. wr[w].rec.id = i /\ wr[w].rec.ver = v
    BY <1>1, <1>2, PieceFacts
  <2> QED  BY <2>1, <2>2 DEF UpdateTable
<1>4. TypeOK'
  <2>1. mem' \in [Ids -> Versions] /\ acked' \in [Ids -> Versions]
    BY <1>0, <1>3 DEF TypeOK
  <2>2. wr' \in [Writers -> [at : {"idle", "open", "body", "nl", "sync"}, rec : Pieces, gen : 0..gen']]
    BY <1>0, <1>3, PieceFacts DEF TypeOK, Idle
  <2>3. guard' \in Writers \union {NoWriter}
    BY <1>0 DEF UpdateTable, Release, TypeOK
  <2> QED  BY <1>0, <2>1, <2>2, <2>3 DEF TypeOK
<1>5. phase = "serving"
  BY <1>0 DEF LossInv, Quiet, Appending
<1>6. Quiet' /\ SnapPart'
  BY <1>0, <1>5 DEF Quiet, SnapPart
<1>7. \A j \in Ids : /\ mem'[j] = IF j = i THEN v ELSE mem[j]
                     /\ acked'[j] = IF j = i THEN v ELSE acked[j]
  BY <1>0, <1>3 DEF TypeOK
<1>8. \A j \in Ids : mem[j] \in Nat /\ acked[j] \in Nat /\ begun[j] \in Nat
  BY <1>0 DEF TypeOK, Versions
<1>9. VersionPart' /\ MemPart'
  <2>0. VersionPart
    BY DEF LossInv
  <2>1. VersionPart'
    <3>1. \A j \in Ids : mem'[j] <= begun'[j] /\ acked'[j] <= begun'[j]
      <4>1. \A j \in Ids : mem[j] <= begun[j] /\ acked[j] <= begun[j]
        BY <2>0 DEF VersionPart
      <4>2. begun' = begun
        BY <1>0
      <4> QED  BY <1>2, <1>7, <1>8, <4>1, <4>2
    <3> QED  BY <1>0, <2>0, <3>1 DEF VersionPart, IsRec
  <2>2. \A j \in Ids \ history.exposed : mem[j] >= acked[j]
    BY <1>5 DEF LossInv, MemPart
  <2>3. \A j \in Ids \ history.exposed : mem'[j] >= acked'[j]
    BY <1>2, <1>7, <1>8, <2>2
  <2> QED  BY <1>0, <2>1, <2>3 DEF MemPart
<1>10. KeptPart'
  <2> SUFFICES ASSUME NEW j \in Ids \ history.exposed, acked'[j] > 0
               PROVE  \E p \in 1..Len(file) : /\ IsRec(file, p, j) /\ file[p].ver >= acked'[j]
                                              /\ EndedBy(file, p, synced)
    BY <1>0 DEF KeptPart, IsRec, EndedBy
  <2>1. CASE j # i
    BY <1>7, <2>1 DEF LossInv, KeptPart
  <2>2. CASE j = i
    <3>1. wr[w].rec.id = i /\ wr[w].rec.ver = v /\ wr[w].rec.k = "rec"
      BY <1>1, <1>2, PieceFacts
    <3>2. PICK p \in 1..Len(file) : file[p] = wr[w].rec /\ EndedBy(file, p, synced)
      BY <1>0, <2>2, <3>1 DEF AppendPart
    <3> QED  BY <1>2, <1>7, <1>8, <2>2, <3>1, <3>2 DEF IsRec
  <2> QED  BY <2>1, <2>2
<1>11. ASSUME NEW u \in Writers PROVE AppendPart(u)'
  <2>1. CASE u # w
    <3>1. wr'[u] = wr[u] /\ AppendPart(u)
      BY <1>0, <1>3, <2>1 DEF LossInv, TypeOK
    <3> QED  BY <1>0, <3>1 DEF AppendPart, EndedBy
  <2>2. CASE u = w
    BY <1>0, <1>3, <2>2 DEF AppendPart, TypeOK, Idle
  <2> QED  BY <2>1, <2>2
<1> QED  BY <1>4, <1>6, <1>9, <1>10, <1>11 DEF LossInv

(* AppendFail: at worst a torn text is left behind.                         *)
LEMMA LossFail ==
  ASSUME LossInv, NEW w \in Writers, AppendFail(w)
  PROVE  LossInv'
<1> USE LogAssumption DEF LogAssumption
<1>0. /\ TypeOK /\ wr[w].at # "idle"
      /\ UNCHANGED <<synced, gen, mem, phase, begun, acked, snap>>
      /\ wr' = [wr EXCEPT ![w] = Idle]
      /\ history' = [history EXCEPT !.failed = TRUE]
      /\ history'.exposed = history.exposed
  BY DEF LossInv, AppendFail, TypeOK
<1>1. Grows(file, file') /\ VersionPart'
  <2>1. CASE file' = file
    BY <1>0, <2>1 DEF LossInv, TypeOK, Grows, VersionPart, IsRec
  <2>2. ASSUME NEW x \in {Cut, Split}, Put(w, x) PROVE Grows(file, file') /\ VersionPart'
    BY <1>0, <2>2, PutGrows, VersionsPut, PieceFacts
  <2> QED  BY <2>1, <2>2 DEF AppendFail
<1>2. TypeOK'
  <2>1. synced' \in 0..Len(file') /\ file' \in Seq(Pieces)
    BY <1>0, <1>1 DEF TypeOK, Grows
  <2>2. wr' \in [Writers -> [at : {"idle", "open", "body", "nl", "sync"}, rec : Pieces, gen : 0..gen']]
    BY <1>0, PieceFacts DEF TypeOK, Idle
  <2>3. guard' \in Writers \union {NoWriter}
    BY <1>0 DEF AppendFail, Release, TypeOK
  <2>4. history' \in [failed : BOOLEAN, overlap : BOOLEAN, exposed : SUBSET Ids]
    BY <1>0 DEF TypeOK
  <2>5. left' \in [crashes : 0..MaxCrashes, fails : 0..MaxFails, rewrites : 0..MaxRewrites]
    <3>1. left \in [crashes : 0..MaxCrashes, fails : 0..MaxFails, rewrites : 0..MaxRewrites]
      BY <1>0 DEF TypeOK
    <3>2. PICK n : n = left.fails
      OBVIOUS
    <3>3. left' = [left EXCEPT !.fails = n - 1] /\ n > 0 /\ n \in 0..MaxFails
      BY <3>1, <3>2 DEF AppendFail
    <3>4. n - 1 \in 0..MaxFails
      BY <3>3
    <3> QED  BY <3>1, <3>3, <3>4
  <2> QED  BY <1>0, <2>1, <2>2, <2>3, <2>4, <2>5 DEF TypeOK
<1>3. phase = "serving"
  BY <1>0 DEF LossInv, Quiet, Appending
<1>4. Quiet' /\ SnapPart' /\ MemPart'
  BY <1>0, <1>3 DEF LossInv, Quiet, SnapPart, MemPart
<1>5. synced <= synced'
  BY <1>0 DEF TypeOK
<1>6. KeptPart'
  BY <1>0, <1>1, <1>2, <1>5, KeptGrows DEF LossInv
<1>7. ASSUME NEW u \in Writers PROVE AppendPart(u)'
  <2>1. CASE u # w
    <3>1. wr'[u] = wr[u] /\ AppendPart(u)
      BY <1>0, <2>1 DEF LossInv, TypeOK
    <3> QED  BY <1>0, <1>1, <1>2, <1>5, <3>1, AppendGoes
  <2>2. CASE u = w
    BY <1>0, <2>2 DEF AppendPart, TypeOK, Idle
  <2> QED  BY <2>1, <2>2
<1> QED  BY <1>1, <1>2, <1>4, <1>6, <1>7 DEF LossInv

(* The lines of a rewrite are those of the table.                           *)
LEMMA LinesAre ==
  ASSUME TypeOK, NEW order \in Orders, \A k \in 1..Len(order) : mem[order[k]] > 0
  PROVE  /\ LinesOf(order) \in Seq(Pieces) /\ Len(LinesOf(order)) % 2 = 0
         /\ \A p \in 1..Len(LinesOf(order)) :
              IF p % 2 = 0 THEN LinesOf(order)[p] = NL
              ELSE \E i \in Ids : mem[i] > 0 /\ LinesOf(order)[p] = Rec(i, mem[i])
<1> USE LogAssumption DEF LogAssumption
<1>1. PICK n \in Nat : order \in [1..n -> Ids]
  <2>1. Cardinality(Ids) \in Nat
    BY FS_CardinalityType
  <2> QED  BY <2>1 DEF Orders, SeqOf
<1>2. Len(order) = n
  BY <1>1
<1>3. PICK f : f = LinesOf(order)
  OBVIOUS
<1>4. f = [p \in 1..(2 * n) |->
        IF p % 2 = 0 THEN NL ELSE Rec(order[(p + 1) \div 2], mem[order[(p + 1) \div 2]])]
  BY <1>2, <1>3 DEF LinesOf
<1>5. ASSUME NEW p \in 1..(2 * n)
      PROVE  /\ f[p] \in Pieces
             /\ IF p % 2 = 0 THEN f[p] = NL
                ELSE \E i \in Ids : mem[i] > 0 /\ f[p] = Rec(i, mem[i])
  <2>1. CASE p % 2 = 0
    BY <1>4, <2>1, PieceFacts
  <2>2. CASE p % 2 # 0
    <3>1. PICK k : k = (p + 1) \div 2
      OBVIOUS
    <3>2. k \in 1..n
      BY <3>1, <2>2
    <3>3. PICK i \in Ids : i = order[k]
      BY <1>1, <3>2
    <3>4. mem[i] > 0 /\ mem[i] \in Versions /\ f[p] = Rec(i, mem[i])
      BY <1>2, <1>4, <2>2, <3>1, <3>2, <3>3 DEF TypeOK
    <3> QED  BY <2>2, <3>4, PieceFacts
  <2> QED  BY <2>1, <2>2
<1>6. f \in Seq(Pieces) /\ Len(f) = 2 * n
  <2>1. f \in [1..(2 * n) -> Pieces] /\ 2 * n \in Nat
    BY <1>4, <1>5
  <2> QED  BY <2>1
<1>7. (2 * n) % 2 = 0
  OBVIOUS
<1> QED  BY <1>3, <1>5, <1>6, <1>7

(* RewriteTemp: the new file is a copy of the table.                        *)
LEMMA LossTemp ==
  ASSUME LossInv, NEW w \in Writers, NEW order \in Orders, RewriteTemp(w, order)
  PROVE  LossInv'
<1> USE LogAssumption DEF LogAssumption
<1>0. /\ TypeOK /\ phase = "serving" /\ snap' = LinesOf(order)
      /\ UNCHANGED <<file, synced, gen, mem, wr, phase, begun, acked, history>>
      /\ \A k \in 1..Len(order) : mem[order[k]] > 0
  BY DEF LossInv, RewriteTemp
<1>1. TypeOK'
  <2>1. left' \in [crashes : 0..MaxCrashes, fails : 0..MaxFails, rewrites : 0..MaxRewrites]
    <3>1. left \in [crashes : 0..MaxCrashes, fails : 0..MaxFails, rewrites : 0..MaxRewrites]
      BY <1>0 DEF TypeOK
    <3>2. PICK n : n = left.rewrites
      OBVIOUS
    <3>3. left' = [left EXCEPT !.rewrites = n - 1] /\ n > 0 /\ n \in 0..MaxRewrites
      BY <3>1, <3>2 DEF RewriteTemp
    <3>4. n - 1 \in 0..MaxRewrites
      BY <3>3
    <3> QED  BY <3>1, <3>3, <3>4
  <2>2. snap' \in Seq(Pieces)
    BY <1>0, LinesAre
  <2>3. guard' \in Writers
    BY DEF RewriteTemp
  <2> QED  BY <1>0, <2>1, <2>2, <2>3 DEF TypeOK
<1>2. Quiet' /\ MemPart' /\ VersionPart'
  BY <1>0 DEF LossInv, Quiet, MemPart, VersionPart, IsRec
<1>3. KeptPart' /\ \A u \in Writers : AppendPart(u)'
  BY <1>0 DEF LossInv, KeptPart, AppendPart, IsRec, EndedBy
<1>4. SnapPart'
  BY <1>0, LinesAre DEF SnapPart
<1> QED  BY <1>1, <1>2, <1>3, <1>4 DEF LossInv

(* A file of whole lines, of which the last may not be ended or be torn.    *)
Torn(f) == Len(f) > 0 /\ f[Len(f)] \in {Cut, Split}
Lines(f) ==
    \A p \in 1..Len(f) :
        IF p % 2 = 0 THEN f[p] = NL ELSE f[p].k = "rec" \/ (p = Len(f) /\ Torn(f))
EndedLines(f) == Lines(f) /\ Len(f) % 2 = 0

(* In such a file every record parses.                                      *)
LEMMA LinesParse ==
  ASSUME NEW f \in Seq(Pieces), Lines(f), NEW i \in Ids
  PROVE  PlacesOf(f, i) = {p \in 1..Len(f) : IsRec(f, p, i)}
<1>1. ASSUME NEW p \in 1..Len(f), f[p].k = "rec" PROVE p \in Parsed(f)
  <2>1. PICK n \in Nat : n = Len(f)
    OBVIOUS
  <2>2. p \in 1..n /\ p % 2 = 1
    BY <1>1, <2>1, PieceFacts DEF Lines
  <2>3. p = 1 \/ (p - 1 \in 1..n /\ (p - 1) % 2 = 0)
    BY <2>2
  <2>4. p = n \/ (p + 1 \in 1..n /\ (p + 1) % 2 = 0)
    BY <2>2
  <2>5. \A q \in 1..n : q % 2 = 0 => f[q] = NL
    BY <2>1 DEF Lines
  <2> QED  BY <1>1, <2>1, <2>3, <2>4, <2>5 DEF Parsed
<1>2. \A p \in Parsed(f) : p \in 1..Len(f) /\ f[p].k = "rec"
  BY DEF Parsed
<1> QED  BY <1>1, <1>2 DEF PlacesOf, IsRec

(* RewriteRename: the records of the table, each in a line that is synced.  *)
LEMMA LossRename ==
  ASSUME LossInv, RewriteRename
  PROVE  LossInv'
<1> USE LogAssumption DEF LogAssumption
<1>0. /\ TypeOK /\ SnapPart /\ snap # NoSnap /\ file' = snap /\ synced' = Len(snap)
      /\ gen' = gen + 1 /\ mem' = Loaded(snap) /\ snap' = NoSnap
      /\ acked' = [i \in Ids |-> IF mem'[i] = 0 THEN 0 ELSE acked[i]]
      /\ history' = [history EXCEPT !.exposed = @ \union {wr[w].rec.id : w \in Appending}]
      /\ UNCHANGED <<wr, phase, begun, left>>
  BY DEF LossInv, RewriteRename
<1>1. snap \in Seq(Pieces) /\ EndedLines(snap)
  BY <1>0, PieceFacts DEF TypeOK, SnapPart, EndedLines, Lines
<1>2. \A p \in 1..Len(snap), i \in Ids : IsRec(snap, p, i) => /\ snap[p].ver = mem[i] /\ mem[i] > 0
                                                              /\ p % 2 = 1
  <2> TAKE p \in 1..Len(snap), i \in Ids
  <2>1. CASE p % 2 = 0
    BY <1>0, <2>1, PieceFacts DEF SnapPart, IsRec
  <2>2. CASE p % 2 # 0
    <3>1. PICK j \in Ids : mem[j] > 0 /\ snap[p] = Rec(j, mem[j])
      BY <1>0, <2>2 DEF SnapPart
    <3> QED  BY <2>2, <3>1, PieceFacts DEF IsRec
  <2> QED  BY <2>1, <2>2
<1>3. ASSUME NEW i \in Ids
      PROVE  \/ mem'[i] = 0
             \/ mem'[i] = mem[i] /\ \E p \in 1..Len(snap) : IsRec(snap, p, i)
  <2>1. PlacesOf(snap, i) = {p \in 1..Len(snap) : IsRec(snap, p, i)}
    BY <1>1, LinesParse DEF EndedLines
  <2>2. CASE PlacesOf(snap, i) = {}
    BY <1>0, <1>1, <2>2, LoadedIs
  <2>3. CASE PlacesOf(snap, i) # {}
    <3>1. PICK p \in PlacesOf(snap, i) : Loaded(snap)[i] = snap[p].ver
      BY <1>1, <2>3, LoadedIs
    <3> QED  BY <1>0, <1>2, <2>1, <3>1
  <2> QED  BY <2>2, <2>3
<1>4. \A i \in Ids : mem[i] \in Nat /\ acked[i] \in Nat /\ begun[i] \in Nat
  BY <1>0 DEF TypeOK, Versions
<1>5. history'.exposed = history.exposed \union {wr[w].rec.id : w \in Appending}
  BY <1>0 DEF TypeOK
<1>6. TypeOK'
  <2>1. mem' \in [Ids -> Versions]
    BY <1>0, <1>1, LoadedType
  <2>2. acked' \in [Ids -> Versions]
    BY <1>0 DEF TypeOK, Versions
  <2>3. wr' \in [Writers -> [at : {"idle", "open", "body", "nl", "sync"}, rec : Pieces, gen : 0..gen']]
    BY <1>0 DEF TypeOK
  <2>4. guard' \in Writers \union {NoWriter}
    BY DEF RewriteRename
  <2>5. history' \in [failed : BOOLEAN, overlap : BOOLEAN, exposed : SUBSET Ids]
    <3>1. \A w \in Appending : wr[w].rec.id \in Ids
      BY PieceFacts DEF LossInv, AppendPart, Appending
    <3>2. PICK E : E = history.exposed \union {wr[w].rec.id : w \in Appending}
      OBVIOUS
    <3>3. E \in SUBSET Ids /\ history' = [history EXCEPT !.exposed = E]
      BY <1>0, <3>1, <3>2 DEF TypeOK
    <3> QED  BY <1>0, <3>3 DEF TypeOK
  <2>6. snap' \in Seq(Pieces) /\ synced' \in 0..Len(file') /\ file' \in Seq(Pieces) /\ gen' \in Nat
    BY <1>0, <1>1, PieceFacts DEF NoSnap, TypeOK
  <2> QED  BY <1>0, <2>1, <2>2, <2>3, <2>4, <2>5, <2>6 DEF TypeOK
<1>7. Quiet' /\ SnapPart'
  BY <1>0 DEF LossInv, Quiet, SnapPart, Appending
<1>8. \A i \in Ids : acked'[i] = IF mem'[i] = 0 THEN 0 ELSE acked[i]
  BY <1>0
<1>9. VersionPart'
  <2>1. \A i \in Ids : mem[i] <= begun[i] /\ acked[i] <= begun[i]
    BY DEF LossInv, VersionPart
  <2>2. \A i \in Ids : mem'[i] <= begun[i] /\ acked'[i] <= begun[i]
    BY <1>3, <1>4, <1>8, <2>1
  <2> QED  BY <1>0, <1>2, <1>4, <2>1, <2>2 DEF VersionPart, IsRec
<1>10. phase = "serving"
  BY <1>0 DEF LossInv, Quiet
<1>11. \A i \in Ids \ history.exposed : mem[i] >= acked[i]
  BY <1>10 DEF LossInv, MemPart
<1>12. MemPart'
  BY <1>0, <1>3, <1>4, <1>5, <1>8, <1>11 DEF MemPart
<1>13. KeptPart'
  <2> SUFFICES ASSUME NEW i \in Ids \ history'.exposed, acked'[i] > 0
               PROVE  \E p \in 1..Len(snap) : /\ IsRec(snap, p, i) /\ snap[p].ver >= acked'[i]
                                              /\ EndedBy(snap, p, Len(snap))
    BY <1>0 DEF KeptPart, IsRec, EndedBy
  <2>1. mem'[i] # 0 /\ acked'[i] = acked[i]
    BY <1>4, <1>8
  <2>2. PICK p \in 1..Len(snap) : IsRec(snap, p, i)
    BY <1>3, <2>1
  <2>3. snap[p].ver = mem[i] /\ p % 2 = 1 /\ Len(snap) % 2 = 0
    BY <1>1, <1>2, <2>2 DEF EndedLines
  <2>4. PICK n \in Nat : n = Len(snap)
    BY <1>1
  <2>5. p + 1 \in (p + 1)..n /\ (p + 1) % 2 = 0
    BY <2>2, <2>3, <2>4
  <2>6. snap[p + 1] = NL
    BY <1>1, <2>4, <2>5 DEF EndedLines, Lines
  <2> QED  BY <1>5, <1>11, <2>1, <2>2, <2>3, <2>4, <2>5, <2>6 DEF EndedBy
<1>14. \A w \in Writers : AppendPart(w)'
  <2> SUFFICES ASSUME NEW w \in Writers, wr[w].at # "idle" PROVE AppendPart(w)'
    BY <1>0 DEF AppendPart
  <2>1. wr[w].rec.id \in history'.exposed
    BY <1>5 DEF Appending
  <2> QED  BY <1>0, <2>1 DEF LossInv, AppendPart
<1> QED  BY <1>6, <1>7, <1>9, <1>12, <1>13, <1>14 DEF LossInv

(* Crash: only what was not synced is lost.                                 *)
LEMMA LossCrash ==
  ASSUME LossInv, Crash
  PROVE  LossInv'
<1> USE LogAssumption DEF LogAssumption
<1>0. /\ TypeOK /\ UNCHANGED <<gen, begun, acked, history>>
      /\ wr' = [w \in Writers |-> Idle] /\ guard' = NoWriter /\ mem' = Zero /\ snap' = NoSnap
      /\ phase' = "down" /\ synced' = Len(file')
  BY DEF LossInv, Crash
<1>1. PICK n \in synced..Len(file) :
         \/ file' = SubSeq(file, 1, n)
         \/ n < Len(file) /\ \E x \in {Cut, Split} : file' = Append(SubSeq(file, 1, n), x)
  BY DEF Crash
<1>2. /\ n \in 0..Len(file) /\ SubSeq(file, 1, n) \in Seq(Pieces) /\ Len(SubSeq(file, 1, n)) = n
      /\ \A p \in 1..n : SubSeq(file, 1, n)[p] = file[p]
  BY <1>0, SubSeqProperties DEF TypeOK
<1>3. /\ file' \in Seq(Pieces) /\ n <= Len(file') /\ \A p \in 1..n : file'[p] = file[p]
      /\ \A p \in 1..Len(file') : p <= n \/ file'[p] \in {Cut, Split}
  <2>1. CASE file' = SubSeq(file, 1, n)
    BY <1>2, <2>1
  <2>2. ASSUME NEW x \in {Cut, Split}, file' = Append(SubSeq(file, 1, n), x)
        PROVE  /\ file' \in Seq(Pieces) /\ n <= Len(file') /\ \A p \in 1..n : file'[p] = file[p]
               /\ \A p \in 1..Len(file') : p <= n \/ file'[p] \in {Cut, Split}
    <3>1. PICK f \in Seq(Pieces) : f = SubSeq(file, 1, n)
      BY <1>2
    <3>2. file' = Append(f, x) /\ Len(f) = n /\ x \in Pieces
      BY <1>2, <2>2, <3>1, PieceFacts
    <3>3. file' \in Seq(Pieces) /\ Len(file') = n + 1 /\ file'[n + 1] = x /\ \A p \in 1..n : file'[p] = f[p]
      BY <3>2, AppendGrows DEF Grows
    <3> QED  BY <1>2, <3>1, <3>3
  <2> QED  BY <1>1, <2>1, <2>2
<1>4. TypeOK'
  <2>1. left' \in [crashes : 0..MaxCrashes, fails : 0..MaxFails, rewrites : 0..MaxRewrites]
    <3>1. left \in [crashes : 0..MaxCrashes, fails : 0..MaxFails, rewrites : 0..MaxRewrites]
      BY <1>0 DEF TypeOK
    <3>2. PICK c : c = left.crashes
      OBVIOUS
    <3>3. left' = [left EXCEPT !.crashes = c - 1] /\ c > 0 /\ c \in 0..MaxCrashes
      BY <3>1, <3>2 DEF Crash
    <3>4. c - 1 \in 0..MaxCrashes
      BY <3>3
    <3> QED  BY <3>1, <3>3, <3>4
  <2>2. wr' \in [Writers -> [at : {"idle", "open", "body", "nl", "sync"}, rec : Pieces, gen : 0..gen']]
    BY <1>0, PieceFacts DEF TypeOK, Idle
  <2>3. mem' \in [Ids -> Versions] /\ snap' \in Seq(Pieces) /\ synced' \in 0..Len(file')
    BY <1>0, <1>3, PieceFacts DEF Zero, Versions, NoSnap
  <2> QED  BY <1>0, <1>3, <2>1, <2>2, <2>3 DEF TypeOK
<1>5. Quiet' /\ MemPart' /\ SnapPart' /\ \A w \in Writers : AppendPart(w)'
  BY <1>0 DEF Quiet, MemPart, SnapPart, AppendPart, Appending, Idle
<1>6. VersionPart'
  <2>1. \A p \in 1..Len(file'), i \in Ids :
           IsRec(file', p, i) => p \in 1..Len(file) /\ file'[p] = file[p]
    BY <1>2, <1>3, PieceFacts DEF IsRec
  <2>2. \A i \in Ids : mem'[i] = 0 /\ begun[i] \in Nat
    BY <1>0 DEF Zero, TypeOK, Versions
  <2>3. \A p \in 1..Len(file'), i \in Ids : IsRec(file', p, i) => IsRec(file, p, i)
    BY <2>1 DEF IsRec
  <2>4. \A i \in Ids : mem'[i] <= begun'[i] /\ acked'[i] <= begun'[i]
    BY <1>0, <2>2 DEF LossInv, VersionPart
  <2> QED  BY <1>0, <2>1, <2>3, <2>4 DEF LossInv, VersionPart
<1>7. KeptPart'
  <2> SUFFICES ASSUME NEW i \in Ids \ history.exposed, acked[i] > 0
               PROVE  \E p \in 1..Len(file') : /\ IsRec(file', p, i) /\ file'[p].ver >= acked[i]
                                               /\ EndedBy(file', p, synced')
    BY <1>0 DEF KeptPart
  <2>1. PICK p \in 1..Len(file) :
           IsRec(file, p, i) /\ file[p].ver >= acked[i] /\ EndedBy(file, p, synced)
    BY DEF LossInv, KeptPart
  <2>2. PICK q \in (p + 1)..synced : file[q] = NL
    BY <2>1 DEF EndedBy
  <2>3. synced \in Nat /\ synced <= n /\ Len(file') \in Nat
    BY <1>0, <1>2, <1>3 DEF TypeOK
  <2>4. p \in 1..n /\ q \in 1..n
    BY <2>2, <2>3
  <2>5. file'[p] = file[p] /\ file'[q] = NL /\ p \in 1..Len(file') /\ q \in (p + 1)..Len(file')
    BY <1>2, <1>3, <2>2, <2>3, <2>4
  <2> QED  BY <1>0, <2>1, <2>5 DEF EndedBy, IsRec
<1> QED  BY <1>4, <1>5, <1>6, <1>7 DEF LossInv

(* Every step of the log keeps the invariant.                               *)
LEMMA LossNext == LossInv /\ [Next]_vars => LossInv'
<1> SUFFICES ASSUME LossInv, [Next]_vars PROVE LossInv'
  OBVIOUS
<1>1. ASSUME NEW w \in Writers, WriteBody(w) PROVE LossInv'
  <2>1. wr[w].rec \in Pieces
    BY DEF LossInv, TypeOK
  <2> QED  BY <1>1, <2>1, LossPut DEF WriteBody, Moves
<1>2. ASSUME NEW w \in Writers, WriteNewline(w) PROVE LossInv'
  BY <1>2, LossPut, PieceFacts DEF WriteNewline, Moves
<1>3. CASE UNCHANGED vars
  <2>1. UNCHANGED <<file, synced, gen, mem, wr, guard, phase, begun, acked, snap, left, history>>
    BY <1>3 DEF vars
  <2> QED  BY <2>1 DEF LossInv, TypeOK, Quiet, VersionPart, KeptPart, MemPart, SnapPart,
              AppendPart, Appending, IsRec, EndedBy
<1>4. CASE Next
  BY <1>1, <1>2, <1>3, <1>4, LossLoad, LossRepair, LossRename, LossCrash, LossOpen, LossSync,
     LossTable, LossFail, LossTemp DEF Next, Halted, Done
<1> QED  BY <1>3, <1>4

(* store.rs 80 and append_jsonl: an append that returned Ok is found by      *)
(* every server that accepts the log, whatever crashes, failures and        *)
(* rewrites come after it.                                                  *)
THEOREM NothingLost == Spec => []NoSilentLoss
<1>1. LossInv => NoSilentLoss
  BY KeptIsLoaded DEF LossInv
<1> QED  BY <1>1, LossInit, LossNext, PTL DEF Spec

-----------------------------------------------------------------------------
(* Appends that neither fail nor overlap.                                   *)

Clean == ~history.failed /\ ~history.overlap

Shape == Lines(file) /\ (phase = "serving" => ~Torn(file))
OneAppend == \A w, u \in Appending : w = u
OddPart ==
    phase = "serving" =>
        (Len(file) % 2 = 1 <=> \E w \in Writers : wr[w].at = "body" /\ wr[w].gen = gen)

(* The log is ahead of the table by the line of the append under way.       *)
Written(w) == wr[w].at \in {"body", "nl", "sync"}
TablePart ==
    history.exposed = {} /\ phase \in {"read", "serving"} =>
        /\ \A w \in Writers : Written(w) => Loaded(file)[wr[w].rec.id] = wr[w].rec.ver
        /\ \A i \in Ids : (\A w \in Writers : Written(w) => wr[w].rec.id # i)
               => Loaded(file)[i] = mem[i]

CleanPart == Shape /\ OneAppend /\ OddPart /\ TablePart

(* Where the last line starts.                                              *)
LEMMA LinesEnd ==
  ASSUME NEW f \in Seq(Pieces), Lines(f), NEW e \in 0..Len(f), e = 0 \/ f[e] = NL,
         NEW m \in e..Len(f), \A p \in (e + 1)..m : f[p] # NL
  PROVE  Max({0} \union {p \in 1..m : f[p] = NL}) = e
<1> DEFINE S == {0} \union {p \in 1..m : f[p] = NL}
<1>1. S \in SUBSET (0..m) /\ S # {} /\ m \in Nat /\ e \in S
  OBVIOUS
<1>2. \A p \in S : p <= e
  OBVIOUS
<1>3. Max(S) \in S /\ \A p \in S : Max(S) >= p
  <2> HIDE DEF S
  <2> QED  BY <1>1, MaxIs
<1>4. Max(S) = e
  <2>1. PICK x : x = Max(S)
    OBVIOUS
  <2>2. x \in S /\ e \in S /\ x >= e /\ x <= e /\ x \in Nat /\ e \in Nat
    <3>1. S \subseteq Nat
      BY <1>1
    <3> HIDE DEF S
    <3>2. x \in S /\ e \in S /\ x >= e
      BY <1>1, <1>3, <2>1
    <3> QED  BY <1>2, <3>1, <3>2
  <2> QED  BY <2>1, <2>2
<1> QED  BY <1>4

(* What the loader says of single lines.                                    *)
LEMMA ParseOne ==
  /\ \A x \in Pieces : x.k = "rec" => \A ended \in BOOLEAN : ParseLine(<<x>>, ended) = "parsed"
  /\ \A x \in {Cut, Split} : ParseLine(<<x>>, FALSE) = "truncated"
  /\ ParseLine(<<>>, FALSE) = "blank"
<1>1. ASSUME NEW x \in Pieces, x.k = "rec", NEW ended \in BOOLEAN
      PROVE  ParseLine(<<x>>, ended) = "parsed"
  <2>1. IsUtf8(<<x>>) /\ IsJson(<<x>>) /\ <<x>> # <<>>
    BY <1>1, PieceFacts DEF IsUtf8, IsJson
  <2> QED  BY <2>1 DEF ParseLine
<1>2. ASSUME NEW x \in {Cut, Split} PROVE ParseLine(<<x>>, FALSE) = "truncated"
  <2>1. ~IsJson(<<x>>) /\ <<x>> # <<>>
    BY PieceFacts DEF IsJson
  <2>2. ~(IsUtf8(<<x>>) /\ <<x>> = <<>>) /\ ~(IsUtf8(<<x>>) /\ IsJson(<<x>>))
    BY <2>1
  <2> QED  BY <2>2 DEF ParseLine
<1>3. ParseLine(<<>>, FALSE) = "blank"
  <2>1. IsUtf8(<<>>) /\ ~IsJson(<<>>)
    BY DEF IsUtf8, IsJson
  <2>2. (IsUtf8(<<>>) /\ <<>> = <<>>) /\ ~(IsUtf8(<<>>) /\ IsJson(<<>>))
    BY <2>1
  <2> QED  BY <2>2 DEF ParseLine
<1> QED  BY <1>1, <1>2, <1>3

(* A piece on its own.                                                      *)
LEMMA OnePiece ==
  ASSUME NEW f \in Seq(Pieces), NEW p \in 1..Len(f)
  PROVE  SubSeq(f, p, p) = <<f[p]>>
<1>1. PICK s : s = SubSeq(f, p, p)
  OBVIOUS
<1>2. s \in Seq(Pieces) /\ Len(s) = 1 /\ s[1] = f[p]
  BY <1>1, SubSeqProperties
<1>3. PICK t : t = <<f[p]>>
  OBVIOUS
<1>4. t \in Seq(Pieces) /\ Len(t) = 1 /\ t[1] = f[p]
  BY <1>3
<1>5. \A k \in 1..1 : s[k] = t[k]
  BY <1>2, <1>4
<1>6. s = t
  BY <1>2, <1>4, <1>5, SeqEqual
<1> QED  BY <1>1, <1>3, <1>6

(* A log of whole lines is never refused.                                   *)
LEMMA LinesLoad ==
  ASSUME NEW f \in Seq(Pieces), Lines(f)
  PROVE  Loadable(f)
<1> SUFFICES ASSUME NEW e \in DOMAIN f, f[e] = NL
             PROVE  ParseLine(SubSeq(f, LineStart(f, e), e - 1), TRUE) # "refused"
  BY DEF Loadable, Ended
<1>1. PICK n \in Nat : n = Len(f)
  OBVIOUS
<1>2. e \in 1..n /\ e % 2 = 0
  BY <1>1, PieceFacts DEF Lines, Torn
<1>3. e - 1 \in 1..n /\ (e - 1) % 2 = 1 /\ e - 2 \in 0..n /\ (e - 2) % 2 = 0 /\ e - 1 # n
  BY <1>2
<1>4. f[e - 1].k = "rec" /\ f[e - 1] \in Pieces
  BY <1>1, <1>3 DEF Lines
<1>5. e - 2 = 0 \/ f[e - 2] = NL
  BY <1>1, <1>3 DEF Lines
<1>6. \A p \in ((e - 2) + 1)..(e - 1) : f[p] # NL
  BY <1>2, <1>4, PieceFacts
<1>7. LineStart(f, e) = e - 1
  <2>1. e - 1 \in (e - 2)..n
    BY <1>3
  <2>2. Max({0} \union {p \in 1..(e - 1) : f[p] = NL}) = e - 2
    BY <1>1, <1>3, <1>5, <1>6, <2>1, LinesEnd
  <2> QED  BY <1>2, <2>2 DEF LineStart
<1>8. SubSeq(f, e - 1, e - 1) = <<f[e - 1]>>
  BY <1>1, <1>3, OnePiece
<1>9. ParseLine(<<f[e - 1]>>, TRUE) = "parsed"
  BY <1>4, ParseOne
<1> QED  BY <1>7, <1>8, <1>9

(* What is left after the last newline of such a log, and its repair.       *)
LEMMA LinesRest ==
  ASSUME NEW f \in Seq(Pieces), Lines(f)
  PROVE  /\ Len(f) % 2 = 0 => Rest(f) = <<>> /\ Repaired(f) = f
         /\ Len(f) % 2 = 1 /\ ~Torn(f) => Repaired(f) = Append(f, NL)
         /\ Len(f) % 2 = 1 /\ Torn(f) => Repaired(f) = SubSeq(f, 1, Len(f) - 1)
<1>1. PICK n \in Nat : n = Len(f)
  OBVIOUS
<1>2. DOMAIN f = 1..n
  BY <1>1
<1>3. CASE n % 2 = 0
  <2>1. n = 0 \/ f[n] = NL
    BY <1>1, <1>3 DEF Lines
  <2>2. n \in 0..n /\ n \in n..n /\ \A p \in (n + 1)..n : f[p] # NL
    OBVIOUS
  <2>3. ValidEnd(f) = n
    BY <1>1, <1>2, <2>1, <2>2, LinesEnd DEF ValidEnd
  <2>4. Rest(f) = <<>>
    BY <1>1, <2>3, SubSeqProperties DEF Rest
  <2>5. ParseLine(Rest(f), FALSE) = "blank"
    BY <2>4, ParseOne
  <2>6. Repaired(f) = f
    BY <2>5 DEF Repaired
  <2> QED  BY <1>1, <1>3, <2>4, <2>6
<1>4. CASE n % 2 = 1
  <2>1. n \in 1..n /\ n - 1 \in 0..n /\ (n - 1) % 2 = 0 /\ n \in (n - 1)..n
    BY <1>4
  <2>2. n - 1 = 0 \/ f[n - 1] = NL
    BY <1>1, <2>1 DEF Lines
  <2>3. f[n] \in Pieces /\ f[n] # NL
    BY <1>1, <1>4, <2>1, PieceFacts DEF Lines, Torn
  <2>4. \A p \in ((n - 1) + 1)..n : f[p] # NL
    BY <2>1, <2>3
  <2>5. ValidEnd(f) = n - 1
    BY <1>1, <1>2, <2>1, <2>2, <2>4, LinesEnd DEF ValidEnd
  <2>6. Rest(f) = <<f[n]>>
    <3>1. SubSeq(f, n, n) = <<f[n]>>
      BY <1>1, <2>1, OnePiece
    <3> QED  BY <1>1, <2>1, <2>5, <3>1 DEF Rest
  <2>7. CASE Torn(f)
    <3>1. f[n] \in {Cut, Split}
      BY <1>1, <2>7 DEF Torn
    <3>2. ParseLine(Rest(f), FALSE) = "truncated"
      BY <2>6, <3>1, ParseOne
    <3>3. Repaired(f) = SubSeq(f, 1, n - 1)
      BY <2>5, <3>2 DEF Repaired
    <3> QED  BY <1>1, <1>4, <2>7, <3>3
  <2>8. CASE ~Torn(f)
    <3>1. f[n].k = "rec"
      BY <1>1, <1>4, <2>1, <2>8 DEF Lines
    <3>2. ParseLine(Rest(f), FALSE) = "parsed"
      BY <2>3, <2>6, <3>1, ParseOne
    <3>3. Repaired(f) = Append(f, NL)
      BY <3>2 DEF Repaired
    <3> QED  BY <1>1, <1>4, <2>8, <3>3
  <2> QED  BY <2>7, <2>8
<1> QED  BY <1>1, <1>3, <1>4

(* The table of a file depends on its records only.                         *)
LEMMA LoadedSame ==
  ASSUME NEW f \in Seq(Pieces), Lines(f), NEW g \in Seq(Pieces), Lines(g), NEW i \in Ids,
         \A p \in 1..Len(f) : IsRec(f, p, i) => p \in 1..Len(g) /\ g[p] = f[p],
         \A p \in 1..Len(g) : IsRec(g, p, i) => p \in 1..Len(f) /\ g[p] = f[p]
  PROVE  Loaded(g)[i] = Loaded(f)[i]
<1>1. PICK S : S = PlacesOf(f, i)
  OBVIOUS
<1>2. PlacesOf(g, i) = S
  <2>1. S = {p \in 1..Len(f) : IsRec(f, p, i)} /\ PlacesOf(g, i) = {p \in 1..Len(g) : IsRec(g, p, i)}
    BY <1>1, LinesParse
  <2> QED  BY <2>1 DEF IsRec
<1>3. \A h : Loaded(h)[i] = IF PlacesOf(h, i) = {} THEN 0 ELSE h[Max(PlacesOf(h, i))].ver
  BY DEF Loaded, PlacesOf
<1>4. CASE S = {}
  BY <1>1, <1>2, <1>3, <1>4
<1>5. CASE S # {}
  <2>1. Max(S) \in S
    <3>1. S \in SUBSET (0..Len(f)) /\ Len(f) \in Nat
      BY <1>1, LinesParse
    <3> QED  BY <1>5, <3>1, MaxIs
  <2>2. g[Max(S)] = f[Max(S)]
    <3>1. Max(S) \in 1..Len(f) /\ IsRec(f, Max(S), i)
      BY <1>1, <2>1, LinesParse
    <3> QED  BY <3>1
  <2> QED  BY <1>1, <1>2, <1>3, <1>5, <2>2
<1> QED  BY <1>4, <1>5


(* An ended log is not torn.                                                *)
LEMMA EvenWhole ==
  ASSUME NEW f \in Seq(Pieces), Lines(f), Len(f) % 2 = 0
  PROVE  ~Torn(f)
<1>1. PICK n \in Nat : n = Len(f)
  OBVIOUS
<1>2. n > 0 => n \in 1..n /\ n % 2 = 0
  BY <1>1
<1> QED  BY <1>1, <1>2, PieceFacts DEF Lines, Torn

(* A record goes after the last newline: it is the last line of its id.     *)
LEMMA AddRecord ==
  ASSUME NEW f \in Seq(Pieces), Lines(f), Len(f) % 2 = 0, NEW x \in Pieces, x.k = "rec"
  PROVE  LET g == Append(f, x) IN
         /\ Lines(g) /\ ~Torn(g) /\ Len(g) % 2 = 1
         /\ Loaded(g)[x.id] = x.ver
         /\ \A i \in Ids : i # x.id => Loaded(g)[i] = Loaded(f)[i]
<1>1. PICK n \in Nat : n = Len(f)
  OBVIOUS
<1>2. PICK g : g = Append(f, x)
  OBVIOUS
<1>3. g \in Seq(Pieces) /\ Len(g) = n + 1 /\ g[n + 1] = x /\ \A p \in 1..n : g[p] = f[p]
  BY <1>1, <1>2, AppendGrows DEF Grows
<1>4. (n + 1) % 2 = 1 /\ n % 2 = 0
  BY <1>1
<1>5. \A p \in 1..n : IF p % 2 = 0 THEN f[p] = NL ELSE f[p].k = "rec"
  <2>1. ~Torn(f)
    BY EvenWhole
  <2> QED  BY <1>1, <2>1 DEF Lines
<1>6. \A p \in 1..(n + 1) : IF p % 2 = 0 THEN g[p] = NL ELSE g[p].k = "rec"
  <2> TAKE p \in 1..(n + 1)
  <2>1. CASE p = n + 1
    BY <1>3, <1>4, <2>1
  <2>2. CASE p \in 1..n
    BY <1>3, <1>5, <2>2
  <2> QED  BY <2>1, <2>2
<1>7. Lines(g)
  BY <1>3, <1>6 DEF Lines
<1>8. ~Torn(g)
  BY <1>3, PieceFacts DEF Torn
<1>9. x.id \in Ids
  BY PieceFacts
<1>10. Loaded(g)[x.id] = x.ver
  <2>1. PlacesOf(g, x.id) = {p \in 1..Len(g) : IsRec(g, p, x.id)}
    BY <1>3, <1>7, <1>9, LinesParse
  <2>2. n + 1 \in PlacesOf(g, x.id)
    BY <1>3, <2>1 DEF IsRec
  <2>3. PICK p \in PlacesOf(g, x.id) : /\ Loaded(g)[x.id] = g[p].ver
                                       /\ \A q \in PlacesOf(g, x.id) : q <= p
    BY <1>3, <1>9, <2>2, LoadedIs
  <2>4. p \in 1..(n + 1) /\ n + 1 <= p
    BY <1>3, <2>1, <2>2, <2>3
  <2>5. p = n + 1
    BY <2>4
  <2> QED  BY <1>3, <2>3, <2>5
<1>11. ASSUME NEW i \in Ids, i # x.id PROVE Loaded(g)[i] = Loaded(f)[i]
  <2>1. \A p \in 1..Len(f) : IsRec(f, p, i) => p \in 1..Len(g) /\ g[p] = f[p]
    BY <1>1, <1>3
  <2>2. \A p \in 1..Len(g) : IsRec(g, p, i) => p \in 1..Len(f) /\ g[p] = f[p]
    <3> SUFFICES ASSUME NEW p \in 1..(n + 1), IsRec(g, p, i) PROVE p \in 1..n /\ g[p] = f[p]
      BY <1>1, <1>3
    <3>1. p # n + 1
      BY <1>3, <1>11 DEF IsRec
    <3>2. p \in 1..n
      BY <3>1
    <3> QED  BY <1>3, <3>2
  <2> QED  BY <1>3, <1>7, <2>1, <2>2, LoadedSame
<1> QED  BY <1>2, <1>3, <1>4, <1>7, <1>8, <1>10, <1>11

(* A newline goes after a record: the table stays.                          *)
LEMMA AddNewline ==
  ASSUME NEW f \in Seq(Pieces), Lines(f), ~Torn(f), Len(f) % 2 = 1
  PROVE  LET g == Append(f, NL) IN
         /\ Lines(g) /\ ~Torn(g) /\ Len(g) % 2 = 0
         /\ \A i \in Ids : Loaded(g)[i] = Loaded(f)[i]
<1>1. PICK n \in Nat : n = Len(f)
  OBVIOUS
<1>2. PICK g : g = Append(f, NL)
  OBVIOUS
<1>3. g \in Seq(Pieces) /\ Len(g) = n + 1 /\ g[n + 1] = NL /\ \A p \in 1..n : g[p] = f[p]
  BY <1>1, <1>2, AppendGrows, PieceFacts DEF Grows
<1>4. (n + 1) % 2 = 0
  BY <1>1
<1>5. \A p \in 1..n : IF p % 2 = 0 THEN f[p] = NL ELSE f[p].k = "rec"
  BY <1>1 DEF Lines
<1>6. \A p \in 1..(n + 1) : IF p % 2 = 0 THEN g[p] = NL ELSE g[p].k = "rec"
  <2> TAKE p \in 1..(n + 1)
  <2>1. CASE p = n + 1
    BY <1>3, <1>4, <2>1
  <2>2. CASE p \in 1..n
    BY <1>3, <1>5, <2>2
  <2> QED  BY <2>1, <2>2
<1>7. Lines(g)
  BY <1>3, <1>6 DEF Lines
<1>8. ~Torn(g)
  BY <1>3, PieceFacts DEF Torn
<1>9. ASSUME NEW i \in Ids PROVE Loaded(g)[i] = Loaded(f)[i]
  <2>1. \A p \in 1..Len(f) : IsRec(f, p, i) => p \in 1..Len(g) /\ g[p] = f[p]
    BY <1>1, <1>3
  <2>2. \A p \in 1..Len(g) : IsRec(g, p, i) => p \in 1..Len(f) /\ g[p] = f[p]
    <3> SUFFICES ASSUME NEW p \in 1..(n + 1), IsRec(g, p, i) PROVE p \in 1..n /\ g[p] = f[p]
      BY <1>1, <1>3
    <3>1. p # n + 1
      BY <1>3, PieceFacts DEF IsRec
    <3>2. p \in 1..n
      BY <3>1
    <3> QED  BY <1>3, <3>2
  <2> QED  BY <1>3, <1>7, <2>1, <2>2, LoadedSame
<1> QED  BY <1>2, <1>3, <1>4, <1>7, <1>8, <1>9

(* A torn text is cut off: the table stays.                                 *)
LEMMA CutTorn ==
  ASSUME NEW f \in Seq(Pieces), Lines(f), Torn(f), Len(f) % 2 = 1
  PROVE  LET g == SubSeq(f, 1, Len(f) - 1) IN
         /\ Lines(g) /\ ~Torn(g) /\ Len(g) % 2 = 0
         /\ \A i \in Ids : Loaded(g)[i] = Loaded(f)[i]
<1>1. PICK n \in Nat : n = Len(f)
  OBVIOUS
<1>2. PICK g : g = SubSeq(f, 1, Len(f) - 1)
  OBVIOUS
<1>3. n >= 1 /\ n - 1 \in Nat /\ (n - 1) % 2 = 0
  BY <1>1
<1>4. g \in Seq(Pieces) /\ Len(g) = n - 1 /\ \A p \in 1..(n - 1) : g[p] = f[p]
  <2>1. \A p \in 1..(n - 1) : f[p] \in Pieces
    BY <1>1
  <2> QED  BY <1>1, <1>2, <1>3, <2>1, SubSeqProperties
<1>5. \A p \in 1..(n - 1) : IF p % 2 = 0 THEN f[p] = NL ELSE f[p].k = "rec"
  BY <1>1 DEF Lines
<1>6. Lines(g)
  BY <1>4, <1>5 DEF Lines
<1>7. ~Torn(g)
  BY <1>3, <1>4, <1>6, EvenWhole
<1>8. ASSUME NEW i \in Ids PROVE Loaded(g)[i] = Loaded(f)[i]
  <2>1. \A p \in 1..Len(g) : IsRec(g, p, i) => p \in 1..Len(f) /\ g[p] = f[p]
    BY <1>1, <1>4
  <2>2. \A p \in 1..Len(f) : IsRec(f, p, i) => p \in 1..Len(g) /\ g[p] = f[p]
    <3> SUFFICES ASSUME NEW p \in 1..n, IsRec(f, p, i) PROVE p \in 1..(n - 1) /\ g[p] = f[p]
      BY <1>1, <1>4
    <3>1. p # n
      BY <1>1, PieceFacts DEF IsRec, Torn
    <3>2. p \in 1..(n - 1)
      BY <3>1
    <3> QED  BY <1>4, <3>2
  <2> QED  BY <1>4, <1>6, <2>1, <2>2, LoadedSame
<1> QED  BY <1>2, <1>3, <1>4, <1>6, <1>7, <1>8


-----------------------------------------------------------------------------
(* Steps of a log whose appends neither fail nor overlap.                   *)

(* Only the serving process appends.                                        *)
LEMMA NoneAppends ==
  ASSUME LossInv, phase # "serving"
  PROVE  \A w \in Writers : wr[w].at = "idle"
  BY DEF LossInv, Quiet, Appending

(* A fresh log.                                                             *)
LEMMA CleanInit == Init => CleanPart
<1> SUFFICES ASSUME Init PROVE CleanPart
  OBVIOUS
<1>1. Shape
  BY DEF Init, Shape, Lines
<1> QED  BY <1>1 DEF Init, CleanPart, OneAppend, OddPart, TablePart, Appending, Idle

(* Load accepts whole lines, and the table is the file's.                   *)
LEMMA CleanLoad ==
  ASSUME LossInv, CleanPart, Load
  PROVE  CleanPart'
<1>1. file \in Seq(Pieces) /\ phase = "down" /\ Lines(file) /\ UNCHANGED <<file, wr, history>>
  BY DEF LossInv, TypeOK, Load, CleanPart, Shape
<1>2. phase' = "read" /\ mem' = Loaded(file)
  BY <1>1, LinesLoad DEF Load
<1>3. \A w \in Writers : wr'[w].at = "idle"
  BY <1>1, NoneAppends
<1> QED  BY <1>1, <1>2, <1>3 DEF CleanPart, Shape, Lines, Torn, OneAppend, OddPart, TablePart,
            Appending, Written

(* Repair leaves whole lines that are all ended.                            *)
LEMMA CleanRepair ==
  ASSUME LossInv, CleanPart, Repair
  PROVE  CleanPart'
<1>1. /\ file \in Seq(Pieces) /\ phase = "read" /\ phase' = "serving" /\ Lines(file)
      /\ file' = Repaired(file) /\ UNCHANGED <<gen, mem, wr, history>>
  BY DEF LossInv, TypeOK, Repair, CleanPart, Shape
<1>2. \A w \in Writers : wr[w].at = "idle"
  BY <1>1, NoneAppends
<1>3. history.exposed = {} => \A i \in Ids : Loaded(file)[i] = mem[i]
  BY <1>1, <1>2 DEF CleanPart, TablePart, Written
<1>4. /\ Lines(file') /\ ~Torn(file') /\ Len(file') % 2 = 0
      /\ \A i \in Ids : Loaded(file')[i] = Loaded(file)[i]
  <2>1. CASE Len(file) % 2 = 0
    BY <1>1, <2>1, LinesRest, EvenWhole
  <2>2. CASE Len(file) % 2 = 1 /\ Torn(file)
    <3>1. file' = SubSeq(file, 1, Len(file) - 1)
      BY <1>1, <2>2, LinesRest
    <3> QED  BY <1>1, <2>2, <3>1, CutTorn
  <2>3. CASE Len(file) % 2 = 1 /\ ~Torn(file)
    <3>1. file' = Append(file, NL)
      BY <1>1, <2>3, LinesRest
    <3> QED  BY <1>1, <2>3, <3>1, AddNewline
  <2>4. Len(file) % 2 \in {0, 1}
    BY <1>1
  <2> QED  BY <2>1, <2>2, <2>3, <2>4
<1>5. Shape'
  BY <1>4 DEF Shape, Lines, Torn
<1>6. Len(file') % 2 # 1
  BY <1>4
<1> QED  BY <1>1, <1>2, <1>3, <1>4, <1>5, <1>6 DEF CleanPart, OneAppend, OddPart, TablePart,
            Appending, Written

(* AppendOpen: with no overlap it is the only append.                       *)
LEMMA CleanOpen ==
  ASSUME LossInv, CleanPart, NEW w \in Writers, NEW i \in Ids, AppendOpen(w, i), Clean'
  PROVE  CleanPart'
<1>1. PICK me : me = [at |-> "open", rec |-> Rec(i, begun[i] + 1), gen |-> gen]
  OBVIOUS
<1>2. /\ phase = "serving" /\ wr' = [wr EXCEPT ![w] = me] /\ me.at = "open"
      /\ UNCHANGED <<file, gen, mem, phase>>
  BY <1>1 DEF AppendOpen
<1>3. Appending = {} /\ history'.exposed = history.exposed
  <2>1. PICK b : b = (history.overlap \/ Appending # {})
    OBVIOUS
  <2>2. history' = [history EXCEPT !.overlap = b]
    BY <2>1 DEF AppendOpen
  <2>3. history'.overlap = b /\ history'.exposed = history.exposed
    BY <2>2 DEF LossInv, TypeOK
  <2> QED  BY <2>1, <2>3 DEF Clean
<1>4. \A u \in Writers : wr[u].at = "idle"
  BY <1>3 DEF Appending
<1>5. \A u \in Writers : wr'[u] = IF u = w THEN me ELSE wr[u]
  BY <1>2 DEF LossInv, TypeOK
<1>6. \A u \in Writers : wr'[u].at \notin {"body", "nl", "sync"} /\ (u # w => wr'[u].at = "idle")
  BY <1>2, <1>4, <1>5
<1>7. Shape' /\ OneAppend'
  BY <1>2, <1>6 DEF CleanPart, Shape, Lines, Torn, OneAppend, Appending
<1>8. OddPart'
  BY <1>2, <1>4, <1>6 DEF CleanPart, OddPart
<1>9. TablePart'
  BY <1>2, <1>3, <1>4, <1>6 DEF CleanPart, TablePart, Written
<1> QED  BY <1>7, <1>8, <1>9 DEF CleanPart

(* Who appends is alone, and the log is being served.                       *)
LEMMA Alone ==
  ASSUME LossInv, CleanPart, NEW w \in Writers, wr[w].at # "idle"
  PROVE  phase = "serving" /\ \A u \in Writers : u # w => wr[u].at = "idle"
  BY DEF LossInv, Quiet, CleanPart, OneAppend, Appending

(* WriteBody: the text starts a line.                                       *)
LEMMA CleanBody ==
  ASSUME LossInv, CleanPart, NEW w \in Writers, WriteBody(w)
  PROVE  CleanPart'
<1>1. PICK me : me = wr[w]
  OBVIOUS
<1>2. /\ me.at = "open" /\ wr' = [wr EXCEPT ![w].at = "body"]
      /\ file' = IF me.gen = gen THEN Append(file, me.rec) ELSE file
      /\ UNCHANGED <<gen, mem, phase, history>>
  BY <1>1 DEF WriteBody, Put
<1>3. /\ file \in Seq(Pieces) /\ Lines(file) /\ phase = "serving" /\ ~Torn(file)
      /\ \A u \in Writers : u # w => wr[u].at = "idle"
  BY <1>1, <1>2, Alone DEF LossInv, TypeOK, CleanPart, Shape
<1>4. Len(file) % 2 = 0
  <2>1. ~ (Len(file) % 2 = 1)
    BY <1>1, <1>2, <1>3 DEF CleanPart, OddPart
  <2> QED  BY <1>3, <2>1
<1>5. /\ wr'[w].at = "body" /\ wr'[w].rec = me.rec /\ wr'[w].gen = me.gen
      /\ \A u \in Writers : u # w => wr'[u] = wr[u]
  BY <1>1, <1>2 DEF LossInv, TypeOK
<1>6. PICK i \in Ids : me.rec = Rec(i, begun[i])
  BY <1>1, <1>2 DEF LossInv, AppendPart
<1>7. me.rec \in Pieces /\ me.rec.k = "rec" /\ me.rec.id = i
  BY <1>1, <1>6, PieceFacts DEF LossInv, TypeOK
<1>8. OneAppend'
  BY <1>3, <1>5 DEF OneAppend, Appending
<1>9. CASE me.gen = gen
  <2>1. /\ Lines(file') /\ ~Torn(file') /\ Len(file') % 2 = 1
        /\ Loaded(file')[i] = me.rec.ver
        /\ \A j \in Ids : j # i => Loaded(file')[j] = Loaded(file)[j]
    BY <1>2, <1>3, <1>4, <1>7, <1>9, AddRecord
  <2>2. Shape'
    BY <2>1 DEF Shape, Lines, Torn
  <2>3. OddPart'
    BY <1>2, <1>5, <1>9, <2>1 DEF OddPart
  <2>4. TablePart'
    <3> SUFFICES ASSUME history.exposed = {} PROVE TablePart'
      BY <1>2 DEF TablePart
    <3>1. \A j \in Ids : Loaded(file)[j] = mem[j]
      BY <1>1, <1>2, <1>3 DEF CleanPart, TablePart, Written
    <3>2. \A u \in Writers : Written(u)' => u = w
      BY <1>3, <1>5 DEF Written
    <3>3. Written(w)'
      BY <1>5 DEF Written
    <3> QED  BY <1>2, <1>5, <1>7, <2>1, <3>1, <3>2, <3>3 DEF TablePart
  <2> QED  BY <1>8, <2>2, <2>3, <2>4 DEF CleanPart
<1>10. CASE me.gen # gen
  <2>1. history.exposed # {}
    BY <1>1, <1>2, <1>10 DEF LossInv, AppendPart
  <2>2. Shape' /\ TablePart'
    BY <1>2, <1>3, <1>10, <2>1 DEF Shape, Lines, Torn, TablePart
  <2>3. Len(file') % 2 # 1
    BY <1>2, <1>4, <1>10
  <2>4. OddPart'
    BY <1>2, <1>3, <1>5, <1>10, <2>3 DEF OddPart
  <2> QED  BY <1>8, <2>2, <2>4 DEF CleanPart
<1> QED  BY <1>9, <1>10

(* WriteNewline: the newline ends it.                                       *)
LEMMA CleanNewline ==
  ASSUME LossInv, CleanPart, NEW w \in Writers, WriteNewline(w)
  PROVE  CleanPart'
<1>1. PICK me : me = wr[w]
  OBVIOUS
<1>2. /\ me.at = "body" /\ wr' = [wr EXCEPT ![w].at = "nl"]
      /\ file' = IF me.gen = gen THEN Append(file, NL) ELSE file
      /\ UNCHANGED <<gen, mem, phase, history>>
  BY <1>1 DEF WriteNewline, Put
<1>3. /\ file \in Seq(Pieces) /\ Lines(file) /\ phase = "serving" /\ ~Torn(file)
      /\ \A u \in Writers : u # w => wr[u].at = "idle"
  BY <1>1, <1>2, Alone DEF LossInv, TypeOK, CleanPart, Shape
<1>4. Len(file) % 2 = 1 <=> me.gen = gen
  BY <1>1, <1>2, <1>3 DEF CleanPart, OddPart
<1>5. /\ wr'[w].at = "nl" /\ wr'[w].rec = me.rec /\ wr'[w].gen = me.gen
      /\ \A u \in Writers : u # w => wr'[u] = wr[u]
  BY <1>1, <1>2 DEF LossInv, TypeOK
<1>6. OneAppend'
  BY <1>3, <1>5 DEF OneAppend, Appending
<1>7. \A u \in Writers : wr'[u].at # "body"
  BY <1>3, <1>5
<1>8. \A u \in Writers : wr'[u].rec = wr[u].rec /\ (Written(u)' <=> Written(u))
  BY <1>1, <1>2, <1>3, <1>5 DEF Written
<1>9. CASE me.gen = gen
  <2>1. /\ Lines(file') /\ ~Torn(file') /\ Len(file') % 2 = 0
        /\ \A j \in Ids : Loaded(file')[j] = Loaded(file)[j]
    BY <1>2, <1>3, <1>4, <1>9, AddNewline
  <2>2. Len(file') % 2 # 1
    BY <2>1
  <2>3. Shape' /\ OddPart'
    BY <1>7, <2>1, <2>2 DEF Shape, Lines, Torn, OddPart
  <2>4. \A u \in Writers : Written(u) => wr[u].rec.id \in Ids
    BY PieceFacts DEF LossInv, AppendPart, Written
  <2>5. TablePart'
    BY <1>2, <1>8, <2>1, <2>4 DEF CleanPart, TablePart
  <2> QED  BY <1>6, <2>3, <2>5 DEF CleanPart
<1>10. CASE me.gen # gen
  <2>1. Shape' /\ OddPart' /\ TablePart'
    BY <1>2, <1>3, <1>4, <1>7, <1>8, <1>10 DEF CleanPart, Shape, Lines, Torn, OddPart, TablePart
  <2> QED  BY <1>6, <2>1 DEF CleanPart
<1> QED  BY <1>9, <1>10


(* Sync leaves the file as it is.                                           *)
LEMMA CleanSync ==
  ASSUME LossInv, CleanPart, NEW w \in Writers, Sync(w)
  PROVE  CleanPart'
<1>1. wr[w].at = "nl" /\ wr' = [wr EXCEPT ![w].at = "sync"]
      /\ UNCHANGED <<file, gen, mem, phase, history>>
  BY DEF Sync
<1>2. /\ wr'[w].at = "sync" /\ wr'[w].rec = wr[w].rec /\ wr'[w].gen = wr[w].gen
      /\ \A u \in Writers : u # w => wr'[u] = wr[u]
  BY <1>1 DEF LossInv, TypeOK
<1>3. OneAppend'
  BY <1>1, <1>2 DEF CleanPart, OneAppend, Appending
<1>4. \A u \in Writers : wr'[u].rec = wr[u].rec /\ (Written(u)' <=> Written(u))
  BY <1>1, <1>2 DEF Written
<1>5. \A u \in Writers : wr'[u].at = "body" /\ wr'[u].gen = gen <=> wr[u].at = "body" /\ wr[u].gen = gen
  BY <1>1, <1>2
<1>6. Shape' /\ OddPart'
  BY <1>1, <1>5 DEF CleanPart, Shape, Lines, Torn, OddPart
<1>7. TablePart'
  BY <1>1, <1>4 DEF CleanPart, TablePart
<1> QED  BY <1>3, <1>6, <1>7 DEF CleanPart

(* UpdateTable: the table catches up with the line.                         *)
LEMMA CleanTable ==
  ASSUME LossInv, CleanPart, NEW w \in Writers, UpdateTable(w)
  PROVE  CleanPart'
<1>1. PICK r : r = wr[w].rec
  OBVIOUS
<1>2. /\ wr[w].at = "sync" /\ wr' = [wr EXCEPT ![w] = Idle] /\ mem' = [mem EXCEPT ![r.id] = r.ver]
      /\ UNCHANGED <<file, gen, phase, history>>
  BY <1>1 DEF UpdateTable
<1>3. /\ phase = "serving" /\ \A u \in Writers : u # w => wr[u].at = "idle"
  BY <1>2, Alone
<1>4. \A u \in Writers : wr'[u].at = "idle"
  BY <1>2, <1>3 DEF LossInv, TypeOK, Idle
<1>5. Shape' /\ OneAppend'
  BY <1>2, <1>4 DEF CleanPart, Shape, Lines, Torn, OneAppend, Appending
<1>6. OddPart'
  BY <1>2, <1>3, <1>4 DEF CleanPart, OddPart
<1>7. TablePart'
  <2> SUFFICES ASSUME history.exposed = {} PROVE \A i \in Ids : Loaded(file)[i] = mem'[i]
    BY <1>2, <1>4 DEF TablePart, Written
  <2>1. Loaded(file)[r.id] = r.ver
    BY <1>1, <1>2, <1>3 DEF CleanPart, TablePart, Written
  <2>2. \A i \in Ids : i # r.id => Loaded(file)[i] = mem[i]
    BY <1>1, <1>2, <1>3 DEF CleanPart, TablePart, Written
  <2> QED  BY <1>2, <2>1, <2>2 DEF LossInv, TypeOK
<1> QED  BY <1>5, <1>6, <1>7 DEF CleanPart

(* RewriteRename: the new file is whole lines too, and the table is its.    *)
LEMMA CleanRename ==
  ASSUME LossInv, CleanPart, RewriteRename
  PROVE  CleanPart'
<1>1. /\ snap # NoSnap /\ file' = snap /\ gen' = gen + 1 /\ mem' = Loaded(snap)
      /\ history' = [history EXCEPT !.exposed = @ \union {wr[w].rec.id : w \in Appending}]
      /\ UNCHANGED <<wr, phase>>
  BY DEF RewriteRename
<1>2. snap \in Seq(Pieces) /\ EndedLines(snap)
  BY <1>1, PieceFacts DEF LossInv, TypeOK, SnapPart, EndedLines, Lines
<1>3. ~Torn(snap) /\ Len(snap) % 2 # 1
  BY <1>2, EvenWhole DEF EndedLines
<1>4. Shape' /\ OneAppend'
  BY <1>1, <1>2, <1>3 DEF CleanPart, Shape, EndedLines, Lines, Torn, OneAppend, Appending
<1>5. \A w \in Writers : wr[w].gen # gen'
  BY <1>1 DEF LossInv, TypeOK
<1>6. OddPart'
  BY <1>1, <1>3, <1>5 DEF OddPart
<1>7. TablePart'
  <2>1. history'.exposed = history.exposed \union {wr[w].rec.id : w \in Appending}
    BY <1>1 DEF LossInv, TypeOK
  <2>2. history'.exposed = {} => Appending = {}
    BY <2>1
  <2>3. history'.exposed = {} => \A w \in Writers : wr[w].at = "idle"
    BY <2>2 DEF Appending
  <2> QED  BY <1>1, <2>3 DEF TablePart, Written
<1> QED  BY <1>4, <1>6, <1>7 DEF CleanPart

(* Crash: whole lines, and perhaps a torn text after them.                  *)
LEMMA CleanCrash ==
  ASSUME LossInv, CleanPart, Crash
  PROVE  CleanPart'
<1>1. phase' = "down" /\ \A w \in Writers : wr'[w].at = "idle"
  BY DEF Crash, Idle
<1>2. file \in Seq(Pieces) /\ synced \in 0..Len(file) /\ Lines(file)
  BY DEF LossInv, TypeOK, CleanPart, Shape
<1>3. PICK n \in synced..Len(file) :
         \/ file' = SubSeq(file, 1, n)
         \/ /\ n < Len(file) /\ file[n + 1].k = "rec"
            /\ \E part \in {Cut, Split} : file' = Append(SubSeq(file, 1, n), part)
  BY DEF Crash
<1>4. PICK kept : kept = SubSeq(file, 1, n)
  OBVIOUS
<1>5. n \in Nat /\ n <= Len(file) /\ Len(file) \in Nat
  BY <1>2
<1>6. kept \in Seq(Pieces) /\ Len(kept) = n /\ \A p \in 1..n : kept[p] = file[p]
  BY <1>2, <1>4, <1>5, SubSeqProperties
<1>7. \A p \in 1..n : IF p % 2 = 0 THEN kept[p] = NL ELSE kept[p].k = "rec" \/ (p = Len(file) /\ Torn(file))
  BY <1>2, <1>5, <1>6 DEF Lines
<1>8. CASE file' = kept
  <2>1. ASSUME NEW p \in 1..n, p = Len(file), Torn(file) PROVE p = n /\ Torn(kept)
    <3>1. p = n
      BY <1>5, <2>1
    <3>2. kept[n] = file[n] /\ n > 0
      BY <1>5, <1>6, <3>1
    <3> QED  BY <1>5, <1>6, <2>1, <3>1, <3>2 DEF Torn
  <2>2. Lines(kept)
    BY <1>6, <1>7, <2>1 DEF Lines
  <2>3. Shape'
    BY <1>1, <1>8, <2>2 DEF Shape, Lines, Torn
  <2> QED  BY <1>1, <2>3 DEF CleanPart, OneAppend, Appending, OddPart, TablePart
<1>9. CASE file' # kept
  <2>1. n < Len(file) /\ file[n + 1].k = "rec"
    BY <1>3, <1>4, <1>9
  <2>2. PICK part \in {Cut, Split} : file' = Append(kept, part)
    BY <1>3, <1>4, <1>9
  <2>3. (n + 1) % 2 = 1
    <3>1. n + 1 \in 1..Len(file)
      BY <1>5, <2>1
    <3>2. (n + 1) % 2 # 0
      BY <1>2, <2>1, <3>1, PieceFacts DEF Lines
    <3> QED  BY <1>5, <3>2
  <2>4. part \in Pieces
    BY PieceFacts
  <2>5. Len(file') = n + 1 /\ file'[n + 1] = part /\ \A p \in 1..n : file'[p] = kept[p]
    BY <1>6, <2>2, <2>4, AppendGrows DEF Grows
  <2>6. Torn(file')
    BY <1>5, <2>5 DEF Torn
  <2>7. \A p \in 1..n : p # Len(file)
    BY <1>5, <2>1
  <2>8. \A p \in 1..(n + 1) :
           IF p % 2 = 0 THEN file'[p] = NL ELSE file'[p].k = "rec" \/ (p = n + 1 /\ Torn(file'))
    <3> TAKE p \in 1..(n + 1)
    <3>1. CASE p = n + 1
      BY <2>3, <2>6, <3>1
    <3>2. CASE p \in 1..n
      BY <1>7, <2>5, <2>7, <3>2
    <3> QED  BY <1>5, <3>1, <3>2
  <2>9. Shape'
    BY <1>1, <2>5, <2>8 DEF Shape, Lines, Torn
  <2> QED  BY <1>1, <2>9 DEF CleanPart, OneAppend, Appending, OddPart, TablePart
<1> QED  BY <1>8, <1>9

(* A clean log was clean before.                                            *)
LEMMA CleanBefore ==
  ASSUME LossInv, [Next]_vars, Clean'
  PROVE  Clean /\ \A w \in Writers : ~AppendFail(w)
<1>0. history \in [failed : BOOLEAN, overlap : BOOLEAN, exposed : SUBSET Ids]
  BY DEF LossInv, TypeOK
<1>1. ASSUME NEW w \in Writers, AppendFail(w) PROVE FALSE
  BY <1>0, <1>1 DEF AppendFail, Clean
<1>2. ASSUME NEW w \in Writers, NEW i \in Ids, AppendOpen(w, i) PROVE Clean
  <2>1. PICK b : b = (history.overlap \/ Appending # {})
    OBVIOUS
  <2>2. history' = [history EXCEPT !.overlap = b]
    BY <1>2, <2>1 DEF AppendOpen
  <2>3. history'.overlap = b /\ history'.failed = history.failed
    BY <1>0, <2>2
  <2> QED  BY <2>1, <2>3 DEF Clean
<1>3. ASSUME RewriteRename PROVE Clean
  <2>1. PICK E : E = history.exposed \union {wr[w].rec.id : w \in Appending}
    OBVIOUS
  <2>2. history' = [history EXCEPT !.exposed = E]
    BY <1>3, <2>1 DEF RewriteRename
  <2> QED  BY <1>0, <2>2 DEF Clean
<1>4. history' = history => Clean
  BY DEF Clean
<1>5. CASE Next
  BY <1>1, <1>2, <1>3, <1>4, <1>5 DEF Next, Load, Repair, Crash, Halted, Done, WriteBody,
     WriteNewline, Sync, UpdateTable, RewriteTemp, vars
<1>6. CASE UNCHANGED vars
  BY <1>1, <1>4, <1>6 DEF vars
<1> QED  BY <1>1, <1>5, <1>6

CleanInv == LossInv /\ (Clean => CleanPart)

(* Every step of a clean log keeps it whole and equal to the table.         *)
LEMMA CleanNext == CleanInv /\ [Next]_vars => CleanInv'
<1> SUFFICES ASSUME CleanInv, [Next]_vars, Clean' PROVE CleanPart'
  BY LossNext DEF CleanInv
<1>1. LossInv /\ CleanPart /\ \A w \in Writers : ~AppendFail(w)
  BY CleanBefore DEF CleanInv
<1>2. ASSUME UNCHANGED <<file, gen, mem, wr, phase, history>> PROVE CleanPart'
  BY <1>1, <1>2 DEF CleanPart, Shape, Lines, Torn, OneAppend, OddPart, TablePart, Appending, Written
<1>3. ASSUME NEW w \in Writers, NEW order, RewriteTemp(w, order) PROVE CleanPart'
  BY <1>2, <1>3 DEF RewriteTemp
<1>4. CASE UNCHANGED vars
  BY <1>2, <1>4 DEF vars
<1>5. CASE Next
  BY <1>1, <1>3, <1>4, <1>5, CleanLoad, CleanRepair, CleanRename, CleanCrash, CleanOpen, CleanBody,
     CleanNewline, CleanSync, CleanTable DEF Next, Halted, Done
<1> QED  BY <1>4, <1>5

(* load_jsonl and append_jsonl: as long as appends neither fail nor overlap, *)
(* crashes, torn lines and repairs never make a server refuse its own log,   *)
(* and at rest the log says what the table says, in lines that are ended.    *)
THEOREM LogStaysReadable == Spec => []CrashSafe
<1>1. CleanInv => CrashSafe
  <2> SUFFICES ASSUME CleanInv PROVE Restartable /\ TableIsLog
    BY DEF CleanInv, LossInv, CrashSafe
  <2>1. file \in Seq(Pieces) /\ mem \in [Ids -> Versions]
    BY DEF CleanInv, LossInv, TypeOK
  <2>2. Restartable
    BY <2>1, LinesLoad DEF CleanInv, Clean, CleanPart, Shape, Restartable
  <2>3. ASSUME Clean, history.exposed = {}, phase = "serving", Appending = {}
        PROVE  Loaded(file) = mem /\ Rest(file) = <<>>
    <3>1. Lines(file) /\ OddPart /\ TablePart
      BY <2>3 DEF CleanInv, CleanPart, Shape
    <3>2. \A w \in Writers : wr[w].at = "idle"
      BY <2>3 DEF Appending
    <3>3. \A i \in Ids : Loaded(file)[i] = mem[i]
      BY <2>3, <3>1, <3>2 DEF TablePart, Written
    <3>4. Loaded(file) = mem
      <4>1. Loaded(file) \in [Ids -> Versions]
        BY <2>1, LoadedType
      <4> QED  BY <2>1, <3>3, <4>1
    <3>5. Len(file) % 2 # 1
      BY <2>3, <3>1, <3>2 DEF OddPart
    <3>6. Len(file) % 2 = 0
      BY <2>1, <3>5
    <3> QED  BY <2>1, <3>1, <3>4, <3>6, LinesRest
  <2> QED  BY <2>2, <2>3 DEF TableIsLog, Clean
<1>2. Init => CleanInv
  BY LossInit, CleanInit DEF CleanInv
<1> QED  BY <1>1, <1>2, CleanNext, PTL DEF Spec
=============================================================================
