------------------------------- MODULE Paging -------------------------------
(***************************************************************************)
(* Reading a text file and listing a directory page by page.  Every call of  *)
(* read and of list stands alone: it looks at the file or the directory as   *)
(* it is then.  The agent (external) goes on from next_offset, and stops     *)
(* when a page of a file comes with another hash.  The directory itself      *)
(* stays.                                                                    *)
(*                                                                           *)
(* A character is one plain byte, or a lead byte "L" and two continuation    *)
(* bytes "C".                                                                *)
(***************************************************************************)
EXTENDS RemoteFile, FiniteSets, SequencesExt

CONSTANTS
    ReadMax,   \* READ_MAX_LIMIT
    ListMax,   \* LIST_MAX_LIMIT
    Names      \* names of directory entries, in their order

ASSUME PagingAssumption ==
    /\ ReadMax \in Nat \ {0} /\ ListMax \in Nat \ {0}
    /\ Names \subseteq Nat /\ IsFiniteSet(Names)

VARIABLES
    pages,    \* the agent's reading
    dir,      \* the entries of the directory
    added, removed,   \* ghosts: entries others added and removed while listing
    listing   \* the agent's listing

pageVars == <<pages, dir, added, removed, listing>>
dirVars == <<dir, added, removed, listing>>

NotReading == [at |-> "idle", start |-> 0, offset |-> 0, limit |-> 1, got |-> <<>>, hash |-> {}]
NotListing == [at |-> "idle", offset |-> 0, limit |-> 1, got |-> <<>>, before |-> {}]

-----------------------------------------------------------------------------
(* read                                                                      *)

(* String::from_utf8                                                         *)
IsUtf8(s) ==
    /\ \A i \in 1..Len(s) : s[i] = "L" => i + 2 <= Len(s)
    /\ \A i \in 1..Len(s) :
        s[i] = "C" <=> (i > 1 /\ s[i - 1] = "L") \/ (i > 2 /\ s[i - 2] = "L")

IsCharBoundary(s, k) == k = Len(s) \/ (k < Len(s) /\ s[k + 1] # "C")

(* Mutant of NearestBoundary: the largest boundary at or before k.           *)
BoundaryBefore(s, k) == CHOOSE j \in 0..k : /\ IsCharBoundary(s, j)
                                            /\ \A i \in (j + 1)..k : ~IsCharBoundary(s, i)
(* nearest_char_boundary_at_or_after                                         *)
NearestBoundary(s, k) == CHOOSE j \in k..Len(s) : /\ IsCharBoundary(s, j)
                                                  /\ \A i \in k..(j - 1) : ~IsCharBoundary(s, i)

ReadError(s, offset, limit) ==
    \/ ~IsUtf8(s)
    \/ limit = 0 \/ limit > ReadMax
    \/ offset > Len(s)
    \/ ~IsCharBoundary(s, offset)

Least(a, b) == IF a < b THEN a ELSE b
EndOf(s, offset, limit) ==
    LET end == Least(offset + limit, Len(s))
    IN  IF end >= Len(s) THEN Len(s) ELSE NearestBoundary(s, end)

(* Mutant of NextOffset: the limit is added, not the page's length.          *)
NextByLimit(s, offset, limit) == Least(offset + limit, Len(s))
(* The next offset, or the length of the file if nothing is left.            *)
NextOffset(s, offset, limit) == EndOf(s, offset, limit)

Page(s, offset, limit) == SubSeq(s, offset + 1, EndOf(s, offset, limit))

StartReading(offset, limit) ==
    /\ pages.at = "idle"
    /\ pages' = [NotReading EXCEPT !.at = "reading", !.start = offset, !.offset = offset,
                                   !.limit = limit]
    /\ UNCHANGED dirVars

(* The hash is that of the whole file; a content stands for its own hash.    *)
ReadPage ==
    /\ pages.at = "reading"
    /\ IF name = NoFile \/ ReadError(inode[name], pages.offset, pages.limit)
         THEN pages' = [pages EXCEPT !.at = "rejected"]
         ELSE LET s == inode[name]
                  truncated == EndOf(s, pages.offset, pages.limit) < Len(s)
              IN  pages' = IF pages.hash \notin {{}, {s}}
                             THEN [pages EXCEPT !.at = "changed"]
                             ELSE [pages EXCEPT
                                     !.at = IF truncated THEN "reading" ELSE "read",
                                     !.offset = NextOffset(s, pages.offset, pages.limit),
                                     !.got = @ \o Page(s, pages.offset, pages.limit),
                                     !.hash = {s}]
    /\ UNCHANGED dirVars

-----------------------------------------------------------------------------
(* list                                                                      *)

(* Sorted by name: each entry comes after the ones before it.                *)
Rank(d) == Cardinality({e \in dir : e < d})
Entries == [k \in 1..Cardinality(dir) |-> CHOOSE d \in dir : Rank(d) = k - 1]

(* The directory that is listed has the entries d.                           *)
StartListing(d, limit) ==
    /\ listing.at = "idle"
    /\ listing' = [NotListing EXCEPT !.at = "listing", !.limit = limit, !.before = d]
    /\ dir' = d
    /\ UNCHANGED <<pages, added, removed>>

(* Mutant of Slice: the page is one entry short.                             *)
SliceShort(offset, end) == SubSeq(Entries, offset + 1, end - 1)
Slice(offset, end) == SubSeq(Entries, offset + 1, end)

ListPage ==
    /\ listing.at = "listing"
    /\ IF listing.limit = 0 \/ listing.limit > ListMax
         THEN listing' = [listing EXCEPT !.at = "rejected"]
         ELSE LET end == Least(listing.offset + listing.limit, Len(Entries))
              IN  listing' = [listing EXCEPT
                      !.at = IF end < Len(Entries) THEN "listing" ELSE "listed",
                      !.offset = end,
                      !.got = @ \o Slice(listing.offset, end)]
    /\ UNCHANGED <<pages, dir, added, removed>>

(* Others (external) add and remove entries between two pages.               *)
AddEntry(n) ==
    /\ listing.at = "listing" /\ n \in Names \ dir
    /\ Changing
    /\ dir' = dir \union {n} /\ added' = added \union {n}
    /\ UNCHANGED <<name, inode, pages, removed, listing>>

RemoveEntry(n) ==
    /\ listing.at = "listing" /\ n \in dir
    /\ Changing
    /\ dir' = dir \ {n} /\ removed' = removed \union {n}
    /\ UNCHANGED <<name, inode, pages, added, listing>>

PageInit ==
    /\ pages = NotReading /\ listing = NotListing
    /\ dir = {} /\ added = {} /\ removed = {}

PageNext ==
    \/ /\ \/ \E offset, limit \in Nat : StartReading(offset, limit)
          \/ \E d \in SUBSET Names, limit \in Nat : StartListing(d, limit)
          \/ ReadPage \/ ListPage
       /\ UNCHANGED fileVars
    \/ /\ (\E c \in Contents : Install(c) \/ WriteInPlace(c)) \/ Unlink
       /\ UNCHANGED pageVars
    \/ \E n \in Names : AddEntry(n) \/ RemoveEntry(n)

PageSpec == FileInit /\ PageInit /\ [][PageNext]_<<pageVars, fileVars>>

PageTypeOK ==
    /\ pages.at \in {"idle", "reading", "read", "rejected", "changed"}
    /\ pages.offset \in Nat /\ pages.got \in Seq(Byte)
    /\ pages.hash \subseteq Contents /\ Cardinality(pages.hash) <= 1
    /\ listing.at \in {"idle", "listing", "listed", "rejected"}
    /\ listing.offset \in Nat /\ listing.got \in Seq(Names) /\ listing.before \subseteq Names
    /\ dir \subseteq Names /\ added \subseteq Names /\ removed \subseteq Names

-----------------------------------------------------------------------------
(* The pages of a reading join to the file its hash names, from the first    *)
(* offset to the end, whatever limit and however the file changed; and while *)
(* it does not change, an offset the server handed out is never refused.     *)
PagesJoin ==
    /\ pages.at = "read" =>
        \A s \in pages.hash : pages.got = SubSeq(s, pages.start + 1, Len(s))
    /\ pages.at \in {"rejected", "changed"} /\ changes = 0 => pages.offset = pages.start

(* fs_ops.rs 153: "Rounding up guarantees at least one codepoint is returned  *)
(* whenever data remains and limit > 0": a reading ends.                     *)
PagesEnd == []<>(pages.at # "reading")

(* A listing that nobody removed from has every entry that was there from     *)
(* the start, and one that nobody added to names no entry twice.  (Offsets    *)
(* count entries, so the other two do not hold.)                             *)
ListingCovers ==
    listing.at = "listed" =>
        /\ removed = {} => listing.before \subseteq Range(listing.got)
        /\ added = {} => IsInjective(listing.got)

(* Pages fit together, of files and of directories.                          *)
PagesSound == FileTypeOK /\ PageTypeOK /\ PagesJoin /\ ListingCovers
=============================================================================
