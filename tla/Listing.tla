-------------------------------- MODULE Listing --------------------------------
(***************************************************************************)
(* A client that reads a list page by page: list_jobs of                   *)
(* app/services/job_service.py with the /scan/list endpoint, and likewise  *)
(* get_audit_logs, with the envelope of app/utils/pagination.py.  Newest   *)
(* come first, a page is an offset, and each page is two statements, a     *)
(* count and a select, between which other requests commit.  Rows are      *)
(* numbered in the order of their created_at, which are taken to differ.   *)
(***************************************************************************)
EXTENDS Naturals, Sequences, FiniteSets

CONSTANTS
    PageSize,      \* the client's page_size, from 1 up
    MaxRows,       \* bound of the rows ever inserted
    MaxDeletes     \* bound of the deletions

ASSUME PageSizeAssumption == PageSize \in Nat \ {0}
ASSUME RowBounds == MaxRows \in Nat /\ MaxDeletes \in Nat

VARIABLES
    rows,          \* the table
    newest,        \* the row inserted last
    walk,          \* the client: "count", "select" or "done"
    page,          \* the page asked for
    total,         \* the count the present page is answered with
    empty,         \* history: a page announced by has_next came empty
    shown,         \* history: rows the client was shown
    steady,        \* history: rows there all along
    deletes,       \* history: deletions so far
    late           \* history: a row came between the count and the select of this page

listVars == << rows, newest, walk, page, total, empty, shown, steady, deletes, late >>

-------------------------------------------------------------------------------
ListInit ==
    /\ newest \in 0..MaxRows
    /\ rows = 1..newest
    /\ walk = "count"
    /\ page = 1
    /\ total = 0
    /\ empty = FALSE
    /\ shown = {}
    /\ steady = rows
    /\ deletes = 0
    /\ late = FALSE

\* order_by(created_at.desc()).offset((page - 1) * page_size).limit(page_size)
Offset == (page - 1) * PageSize

Selected ==
    { r \in rows : LET newer == Cardinality({ s \in rows : s > r }) IN
                     Offset <= newer /\ newer < Offset + PageSize }

\* Bug: the division is rounded down.
FullPages == total \div PageSize

\* math.ceil(total / page_size)
TotalPages == (total + PageSize - 1) \div PageSize

\* Bug: one page further.
HasNextOrThis == page <= TotalPages

HasNext == page < TotalPages

Count ==
    /\ walk = "count"
    /\ total' = Cardinality(rows)
    /\ walk' = "select"
    /\ late' = FALSE
    /\ UNCHANGED << rows, newest, page, empty, shown, steady, deletes >>

Select ==
    /\ walk = "select"
    /\ shown' = shown \cup Selected
    /\ empty' = (empty \/ (page > 1 /\ Selected = {}))
    /\ IF HasNext THEN walk' = "count" /\ page' = page + 1
                  ELSE walk' = "done" /\ UNCHANGED page
    /\ UNCHANGED << rows, newest, total, steady, deletes, late >>

Insert ==
    /\ newest < MaxRows
    /\ newest' = newest + 1
    /\ rows' = rows \cup {newest'}
    /\ late' = (late \/ walk = "select")
    /\ UNCHANGED << walk, page, total, empty, shown, steady, deletes >>

Delete(r) ==
    /\ deletes < MaxDeletes
    /\ deletes' = deletes + 1
    /\ rows' = rows \ {r}
    /\ steady' = steady \ {r}
    /\ UNCHANGED << newest, walk, page, total, empty, shown, late >>

\* Once the walk is over nothing is of interest.
ListNext ==
    /\ walk # "done"
    /\ Count \/ Select \/ Insert \/ (\E r \in rows : Delete(r))

ListSpec == ListInit /\ [][ListNext]_listVars

-------------------------------------------------------------------------------
ListTypeOK ==
    /\ newest \in 0..MaxRows
    /\ rows \subseteq 1..newest
    /\ walk \in { "count", "select", "done" }
    /\ page \in 1..(MaxRows + 1)
    /\ total \in 0..MaxRows
    /\ { empty, late } \subseteq BOOLEAN
    /\ shown \subseteq 1..newest
    /\ steady \subseteq rows
    /\ deletes \in 0..MaxDeletes

\* A client that follows has_next to its end has been shown every scan that was there
\* all along, although new ones push the others from page to page as it reads.  Lost
\* are only those a deletion has pulled to a page already read, and one pushed off the
\* last page between its count and its select.
SteadyRowsAreShown ==
    walk = "done" /\ deletes = 0 /\ ~late => steady \subseteq shown

\* has_next does not announce a page that has nothing on it, unless rows were deleted.
NoEmptyPage == empty => deletes > 0
===============================================================================
