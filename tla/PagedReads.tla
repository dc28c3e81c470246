----------------------------- MODULE PagedReads ------------------------------
(***************************************************************************)
(* Walks over a listing that the server hands out page by page, while rows *)
(* are being added to it.  The SDK pages in three ways:                    *)
(*   events     read_events: a page of fewer rows than asked for is last;  *)
(*   sessions   list_sessions and resolve_id: the last page is the one     *)
(*              that reaches the total the server reports with it;         *)
(*   tolerant   the annotation lists, whose malformed rows land in         *)
(*              "rejected": the caller pages on row_count;                 *)
(*   members    a tolerant list that is paged in people, each of whom may  *)
(*              have several rows.                                         *)
(***************************************************************************)
EXTENDS Naturals, FiniteSets, SequencesExt

CONSTANTS
  PageSize,    \* rows (people) asked for per page
  MaxRows,     \* rows that the server holds at the start, at most
  MaxAdded     \* rows added during the walk, at most

ASSUME PagedAssumption ==
  PageSize \in Nat \ {0} /\ MaxRows \in Nat /\ MaxAdded \in Nat

Listing == {"events", "sessions", "tolerant", "members"}

VARIABLES
  listing,     \* which listing is read
  rows,        \* what the server holds, in the order of its pages
  begun,       \* what it held when the walk began
  malformed,   \* rows that do not parse
  several,     \* people with two rows
  clamp,       \* the page size that the server imposes without saying so
  pageNo,      \* the page to ask for next
  seen,        \* rows received, parsed or rejected
  walkAt       \* walking, ended or raised

pagedVars ==
  <<listing, rows, begun, malformed, several, clamp, pageNo, seen, walkAt>>

PagedInit ==
  /\ listing \in Listing
  /\ rows \in {[i \in 1 .. n |-> i] : n \in 0 .. MaxRows}
  /\ begun = Range(rows)
  /\ malformed \in SUBSET begun
  /\ several \in SUBSET begun
  /\ listing # "members" => several = {}
  /\ clamp \in {PageSize, PageSize - 1}
  /\ listing = "sessions" => clamp = PageSize
  /\ pageNo = 0
  /\ seen = {}
  /\ walkAt = "walking"

SmallerOf(a, b) == IF a < b THEN a ELSE b

\* What the server sends as page pageNo.
ServedPage == SubSeq(rows, pageNo * clamp + 1,
                     SmallerOf((pageNo + 1) * clamp, Len(rows)))

\* _parse_page: every row on its own.
Rejected == Range(ServedPage) \cap malformed
Items == Range(ServedPage) \ malformed
\* TolerantPage.row_count: items and rejected; two rows for some people.
RowCount == Cardinality(Items) + Cardinality(Rejected)
              + Cardinality(Range(ServedPage) \cap several)

\* read_events and the annotation lists: what the server sent falls short;
\* mutant: the rows that parse do.
ShortItems == Cardinality(Items) < PageSize
ShortPage == RowCount < PageSize
\* list_sessions and resolve_id: (page + 1) * page.size reaches page.total.
TotalReached == ServedPage = <<>> \/ (pageNo + 1) * PageSize >= Len(rows)

LastPage == IF listing = "sessions" THEN TotalReached ELSE ShortPage

ReadPage ==
  /\ walkAt = "walking"
  /\ IF Rejected # {} /\ listing \in {"events", "sessions"}
     THEN walkAt' = "raised" /\ UNCHANGED <<pageNo, seen>>
     ELSE /\ seen' = seen \cup Items \cup Rejected
          /\ walkAt' = IF LastPage THEN "ended" ELSE "walking"
          /\ pageNo' = pageNo + 1
  /\ UNCHANGED <<listing, rows, begun, malformed, several, clamp>>

\* A row is added anywhere: an orphan sorts among the events of its number.
RowAdded(i) ==
  /\ walkAt = "walking"
  /\ Len(rows) < Cardinality(begun) + MaxAdded
  /\ rows' = InsertAt(rows, i, Len(rows) + 1)
  /\ UNCHANGED <<listing, begun, malformed, several, clamp, pageNo, seen,
                 walkAt>>

PagedNext == ReadPage \/ \E i \in 1 .. Len(rows) + 1 : RowAdded(i)
PagedSpec == PagedInit /\ [][PagedNext]_pagedVars

----------------------------------------------------------------------------
\* A walk that ends without an error has received, parsed or rejected, every
\* row that was there when it began, whatever is added meanwhile, whichever
\* rows do not parse and however many rows a person has -- as long as the
\* server sends pages of the size it was asked for.
WalkIsComplete ==
  walkAt = "ended" /\ clamp = PageSize => begun \subseteq seen
==============================================================================
