----------------------------- MODULE DataTable -----------------------------
(***************************************************************************)
(* DataTable, DataTablePagination and DataTableColumnHeader over TanStack  *)
(* Table: one table, its filter, its sorting, its pages, its selection and *)
(* its columns, while the consumer replaces `data` and sets `loading`.     *)
(*                                                                         *)
(* The component gives no getRowId, so a row is known by its place in      *)
(* `data`, and selection is a set of places.  What TanStack queues during  *)
(* a render runs before the next event, so an event and the page reset it  *)
(* causes are one step.  While `loading`, nothing is computed.             *)
(***************************************************************************)
EXTENDS Naturals, Sequences, FiniteSets

CONSTANTS Records,     \* what the rows stand for
          Contents,    \* the values of `data`: sequences of distinct records
          SortKey,     \* what each record is sorted by
          Filters,     \* the texts of the filter, and
          Passes,      \* the records each one lets through
          PageSizes,   \* pageSizeOptions
          FirstSize,   \* pageSize
          Accessors,   \* the columns with an accessor
          DisplayOnly, \* those without one
          ShowColumnVisibility

ASSUME TableAssumption ==
  /\ \A d \in Contents : /\ d \in Seq(Records)
                         /\ \A i, j \in DOMAIN d : d[i] = d[j] => i = j
  /\ SortKey \in [Records -> Nat]
  /\ Passes \in [Filters -> SUBSET Records]
  /\ PageSizes \subseteq Nat \ {0} /\ FirstSize \in PageSizes
  /\ ShowColumnVisibility \in BOOLEAN

VARIABLES
  data, loading,        \* what the consumer passes
  filter, sorting,      \* the filter's text; unsorted, asc or desc
  pageIndex, pageSize,
  selected,             \* rowSelection: places in `data`
  hidden,               \* the hidden columns
  late,                 \* did `data` change while loading
  picked,               \* history: the records the operator ticked
  moved                 \* history: has `data` changed while rows were ticked

givenVars  == <<data, loading, late>>
viewedVars == <<filter, sorting, pageIndex, pageSize>>
chosenVars == <<selected, picked, moved>>
tableVars  == <<givenVars, viewedVars, chosenVars, hidden>>

Sortable == Accessors
Hideable == Accessors

TableTypeOK ==
  /\ data \in Contents /\ loading \in BOOLEAN /\ late \in BOOLEAN
  /\ filter \in Filters /\ sorting \in {"unsorted", "asc", "desc"}
  /\ pageIndex \in Nat /\ pageSize \in PageSizes
  /\ selected \subseteq Nat
  /\ hidden \subseteq Hideable
  /\ picked \subseteq Records /\ moved \in BOOLEAN
-----------------------------------------------------------------------------
Filtered == {i \in DOMAIN data : data[i] \in Passes[filter]}

Key(i) == SortKey[data[i]]
Precedes(i, j) ==
  \/ sorting = "asc" /\ Key(i) < Key(j)
  \/ sorting = "desc" /\ Key(i) > Key(j)
  \/ (sorting = "unsorted" \/ Key(i) = Key(j)) /\ i < j

Position(i) == Cardinality({j \in Filtered : Precedes(j, i)})
PageCount   == (Cardinality(Filtered) + pageSize - 1) \div pageSize
PageRows    == {i \in Filtered : Position(i) \div pageSize = pageIndex}

CanPreviousPage == pageIndex > 0
CanNextPage     == pageIndex + 1 < PageCount

AllPageRowsSelected  == PageRows # {} /\ PageRows \subseteq selected
SomePageRowsSelected == ~AllPageRowsSelected /\ PageRows \cap selected # {}
-----------------------------------------------------------------------------
(* A new row model: TanStack goes back to the first page *)
ResetPage == pageIndex' = 0

SetFilterValue(f) ==
  /\ ~loading /\ f # filter
  /\ filter' = f
  /\ ResetPage
  /\ UNCHANGED <<givenVars, sorting, pageSize, chosenVars, hidden>>

(* The menu of the header: it sorts one way or the other, never back *)
ToggleSorting(desc, c) ==
  /\ ~loading /\ c \in Sortable \ hidden
  /\ sorting' = IF desc THEN "desc" ELSE "asc"
  /\ ResetPage
  /\ UNCHANGED <<givenVars, filter, pageSize, chosenVars, hidden>>

HideFromHeader(c) ==
  /\ ~loading /\ c \in Sortable \ hidden
  /\ hidden' = hidden \cup {c}
  /\ UNCHANGED <<givenVars, viewedVars, chosenVars>>

ToggleVisibility(c) ==
  /\ ~loading /\ ShowColumnVisibility /\ c \in Hideable
  /\ hidden' = IF c \in hidden THEN hidden \ {c} ELSE hidden \cup {c}
  /\ UNCHANGED <<givenVars, viewedVars, chosenVars>>

(* The page that holds the row at the top of the old one *)
SetPageSizeKeepsIndex(n) ==
  /\ ~loading /\ n # pageSize
  /\ pageSize' = n /\ pageIndex' = pageIndex
  /\ UNCHANGED <<givenVars, filter, sorting, chosenVars, hidden>>
SetPageSize(n) ==
  /\ ~loading /\ n # pageSize
  /\ pageSize' = n /\ pageIndex' = (pageSize * pageIndex) \div n
  /\ UNCHANGED <<givenVars, filter, sorting, chosenVars, hidden>>

GoTo(n) == pageIndex' = n /\ UNCHANGED <<givenVars, filter, sorting, pageSize, chosenVars, hidden>>
FirstPage    == ~loading /\ CanPreviousPage /\ GoTo(0)
PreviousPage == ~loading /\ CanPreviousPage /\ GoTo(pageIndex - 1)
NextPage     == ~loading /\ CanNextPage /\ GoTo(pageIndex + 1)
LastPage     == ~loading /\ CanNextPage /\ GoTo(PageCount - 1)
-----------------------------------------------------------------------------
RecordsAt(rows) == {data[i] : i \in rows}

Ticked(rows) ==
  /\ selected' = selected \cup rows
  /\ picked' = picked \cup RecordsAt(rows)
Unticked(rows) ==
  /\ selected' = selected \ rows
  /\ picked' = picked \ RecordsAt(rows)

ToggleSelectedByPosition(i) ==
  /\ ~loading /\ i \in PageRows
  /\ LET at == Position(i) + 1
     IN  /\ selected' = IF at \in selected THEN selected \ {at} ELSE selected \cup {at}
         /\ picked' = IF at \in selected THEN picked \ {data[i]} ELSE picked \cup {data[i]}
  /\ UNCHANGED <<givenVars, viewedVars, hidden, moved>>
ToggleSelected(i) ==
  /\ ~loading /\ i \in PageRows
  /\ IF i \in selected THEN Unticked({i}) ELSE Ticked({i})
  /\ UNCHANGED <<givenVars, viewedVars, hidden, moved>>

(* The box in the header: a press ticks every row of the page unless all are *)
ToggleAllPageRowsSelected ==
  /\ ~loading
  /\ IF AllPageRowsSelected THEN Unticked(PageRows) ELSE Ticked(PageRows)
  /\ UNCHANGED <<givenVars, viewedVars, hidden, moved>>
-----------------------------------------------------------------------------
(* The consumer passes another `data`: selection stays where it was *)
NewData(d) ==
  /\ d # data
  /\ data' = d
  /\ moved' = (moved \/ selected # {})
  /\ IF loading THEN late' = TRUE /\ UNCHANGED pageIndex ELSE late' = late /\ ResetPage
  /\ UNCHANGED <<loading, filter, sorting, pageSize, selected, picked, hidden>>

StartLoading ==
  /\ ~loading /\ loading' = TRUE
  /\ UNCHANGED <<data, late, viewedVars, chosenVars, hidden>>

(* The first render after `loading` computes what changed meanwhile *)
EndLoading ==
  /\ loading /\ loading' = FALSE
  /\ IF late THEN ResetPage ELSE UNCHANGED pageIndex
  /\ late' = FALSE
  /\ UNCHANGED <<data, filter, sorting, pageSize, chosenVars, hidden>>

TableInit ==
  /\ data \in Contents /\ loading \in BOOLEAN /\ late = FALSE
  /\ filter \in {f \in Filters : Passes[f] = Records} /\ sorting = "unsorted"
  /\ pageIndex = 0 /\ pageSize = FirstSize
  /\ selected = {} /\ picked = {} /\ moved = FALSE
  /\ hidden = {}

TableNext ==
  \/ \E f \in Filters : SetFilterValue(f)
  \/ \E c \in Accessors \cup DisplayOnly :
       HideFromHeader(c) \/ ToggleVisibility(c) \/ \E desc \in BOOLEAN : ToggleSorting(desc, c)
  \/ \E n \in PageSizes : SetPageSize(n)
  \/ FirstPage \/ PreviousPage \/ NextPage \/ LastPage
  \/ \E i \in DOMAIN data : ToggleSelected(i)
  \/ ToggleAllPageRowsSelected
  \/ \E d \in Contents : NewData(d)
  \/ StartLoading \/ EndLoading

TableSpec == TableInit /\ [][TableNext]_tableVars
-----------------------------------------------------------------------------
(* The page shown exists: the table says that nothing was found, and the     *)
(* pager "page 3 of 2", only if no row passes the filter, whatever filters,  *)
(* page sizes and data came before.                                          *)
PageInRange == ~loading => pageIndex = 0 \/ pageIndex < PageCount

(* What is ticked is what the operator ticked, through every sorting, filter *)
(* and page, as long as `data` was not replaced under a selection: then the  *)
(* ticks stay at their places and name other records.                        *)
SelectionFollowsRecords ==
  ~moved => selected \subseteq DOMAIN data /\ RecordsAt(selected) = picked
=============================================================================
