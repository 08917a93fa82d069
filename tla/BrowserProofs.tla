--------------------------- MODULE BrowserProofs ---------------------------
(***************************************************************************)
(* What the pages, the table and the controls guarantee: for any pages,    *)
(* releases, data and values; and what is computed for display.            *)
(***************************************************************************)
EXTENDS Browser, Display, SidebarProofs, FiniteSetTheorems, WellFoundedInduction

-----------------------------------------------------------------------------
(***************************************************************************)
(* The pages carry the sidebars: whatever the browser does is a step of    *)
(* the sidebars, or none.                                                  *)
(***************************************************************************)

LEMMA PageStepsAreSidebarSteps == FrontendTypeOK /\ FrontendNext => [Next]_sidebarVars
<1> SUFFICES ASSUME FrontendTypeOK, FrontendNext PROVE [Next]_sidebarVars
  OBVIOUS
<1>0. \A q \in Pages : PageTree[q] \in Trees
  BY FrontendAssumption DEF FrontendAssumption
<1>1. ASSUME NEW q \in Pages, Visit(q) PROVE [Next]_sidebarVars
  <2>1. \E r \in Pages : ResolvePage(r) \/ LoadPage(r)
    BY <1>1, FrontendAssumption DEF Visit, ErrorPage, FrontendAssumption
  <2> QED
    BY <1>0, <2>1 DEF ResolvePage, LoadPage, Next
<1>10. CASE FailedVisit
  <2>1. ErrorPage \in Pages
    BY FrontendAssumption DEF ErrorPage, FrontendAssumption
  <2> QED
    BY <1>0, <1>10, <2>1 DEF FailedVisit, ResolvePage, Next
<1>2. CASE Refresh
  <2>1. PICK q \in Pages : LoadPage(q)
    BY <1>2, FrontendAssumption DEF Refresh, FrontendTypeOK, FrontendAssumption, ErrorPage
  <2> QED
    BY <1>0, <2>1 DEF LoadPage, Next
<1>3. CASE Deploy
  BY <1>3 DEF Deploy
<1>4. CASE ToggleDetails
  BY <1>4 DEF ToggleDetails, Next
<1>5. ASSUME NEW o \in Overlays, OpenOverlay(o) PROVE [Next]_sidebarVars
  BY <1>5 DEF OpenOverlay, Next
<1>6. ASSUME NEW way \in Ways, CloseOverlay(way) PROVE [Next]_sidebarVars
  BY <1>6 DEF CloseOverlay, Next
<1>7. ASSUME NEW w \in Widths, ResizeWindow(w) PROVE [Next]_sidebarVars
  BY <1>7 DEF ResizeWindow, Next
<1>8. CASE SidebarEvent
  BY <1>8 DEF SidebarEvent, Next, FrontendTypeOK, TypeOK
<1>9. CASE Flush \/ SettleTree
  BY <1>9 DEF Flush, SettleTree, Next
<1> QED
  BY <1>1, <1>2, <1>3, <1>4, <1>5, <1>6, <1>7, <1>8, <1>9, <1>10 DEF FrontendNext

LEMMA FrontendTypeInit == FrontendInit => FrontendTypeOK
<1> SUFFICES ASSUME FrontendInit PROVE FrontendTypeOK
  OBVIOUS
<1>1. TypeOK
  BY TypeInit DEF FrontendInit
<1>2. page \in Pages /\ 1 \in Releases
  BY FrontendAssumption DEF FrontendInit, FrontendAssumption
<1>3. {client, version, server} \subseteq Releases /\ client <= version /\ version <= server
  BY <1>2 DEF FrontendInit
<1>4. visits \in 0 .. MaxVisits
  BY FrontendAssumption DEF FrontendInit, FrontendAssumption
<1>5. /\ unresolved \in BOOLEAN /\ details \in BOOLEAN /\ (details => page = "Home")
      /\ overlay \in Overlays \cup {"none"} /\ (overlay # "none" => page = "Gallery")
      /\ closedBy \in Ways \cup {"none", "page"} /\ tree = PageTree[page]
  BY DEF FrontendInit
<1> QED
  BY <1>1, <1>2, <1>3, <1>4, <1>5 DEF FrontendTypeOK

(* A new page shows nothing of the old one *)
LEMMA NewPageTypes ==
  ASSUME FrontendTypeOK, TypeOK', NEW q \in Pages, Shows(q), tree' = PageTree[q],
         {client', version'} \subseteq Releases, server' = server,
         client' <= version', version' <= server,
         unresolved' \in BOOLEAN, visits' \in 0 .. MaxVisits
  PROVE  FrontendTypeOK'
BY DEF Shows, FrontendTypeOK

(* The page stays, and with it its providers *)
LEMMA SamePageTypes ==
  ASSUME FrontendTypeOK, TypeOK', tree' = tree, UNCHANGED pageVars,
         details' \in BOOLEAN, details' => page = "Home",
         overlay' \in Overlays \cup {"none"}, overlay' # "none" => page = "Gallery",
         closedBy' \in Ways \cup {"none", "page"}
  PROVE  FrontendTypeOK'
BY DEF FrontendTypeOK, pageVars

LEMMA FrontendTypeStep == FrontendTypeOK /\ [FrontendNext]_vars => FrontendTypeOK'
<1> SUFFICES ASSUME FrontendTypeOK, [FrontendNext]_vars PROVE FrontendTypeOK'
  OBVIOUS
<1>0. TypeOK'
  <2>1. [Next]_sidebarVars
    BY PageStepsAreSidebarSteps DEF vars
  <2> QED
    BY <2>1, TypeStep DEF FrontendTypeOK
<1>1. CASE UNCHANGED vars
  BY <1>0, <1>1 DEF vars, pageVars, localVars, sidebarVars, FrontendTypeOK
<1>2. ASSUME NEW q \in Pages, LoadPage(q), UNCHANGED server, visits' \in 0 .. MaxVisits
      PROVE  FrontendTypeOK'
  <2>1. /\ Shows(q) /\ tree' = PageTree[q]
        /\ client' = server /\ version' = server /\ unresolved' = unresolved
    BY <1>2 DEF LoadPage, Load, FreshState
  <2>2. server \in Nat
    BY FrontendAssumption DEF FrontendTypeOK, FrontendAssumption
  <2> QED
    BY <1>0, <1>2, <2>1, <2>2, NewPageTypes DEF FrontendTypeOK
<1>11. ASSUME NEW q \in Pages, ResolvePage(q), UNCHANGED server, visits' \in 0 .. MaxVisits
       PROVE  FrontendTypeOK'
  <2>1. server \in Nat /\ client \in Nat /\ version \in Nat
    BY FrontendAssumption DEF FrontendTypeOK, FrontendAssumption
  <2>2. CASE q \in Bundle[client]
    <3>1. /\ Shows(q) /\ tree' = PageTree[q]
          /\ client' = client /\ version' = server /\ unresolved' = unresolved
      BY <1>11, <2>2 DEF ResolvePage, Mount, FreshState
    <3>2. client' <= version' /\ version' <= server
      BY <2>1, <3>1 DEF FrontendTypeOK
    <3> QED
      BY <1>0, <1>11, <3>1, <3>2, NewPageTypes DEF FrontendTypeOK
  <2>3. CASE q \notin Bundle[client]
    <3>1. /\ unresolved' = TRUE /\ closedBy' = "none" /\ page' = page
          /\ client' = client /\ version' = version
          /\ details' = details /\ overlay' = overlay /\ tree' = tree
      BY <1>11, <2>3 DEF ResolvePage, localVars, sidebarVars
    <3> QED
      BY <1>0, <1>11, <3>1 DEF FrontendTypeOK
  <2> QED
    BY <2>2, <2>3
<1>12. ErrorPage \in Pages
  BY FrontendAssumption DEF FrontendAssumption, ErrorPage
<1>3. ASSUME NEW q \in Pages, Visit(q) PROVE FrontendTypeOK'
  <2>1. visits' \in 0 .. MaxVisits /\ server' = server
    BY <1>3, FrontendAssumption DEF Visit, Asks, FrontendTypeOK, FrontendAssumption
  <2>2. \E r \in Pages : ResolvePage(r) \/ LoadPage(r)
    BY <1>3, <1>12 DEF Visit
  <2> QED
    BY <1>2, <1>11, <2>1, <2>2
<1>13. CASE FailedVisit
  <2>1. visits' \in 0 .. MaxVisits /\ server' = server
    BY <1>13, FrontendAssumption DEF FailedVisit, Asks, FrontendTypeOK, FrontendAssumption
  <2> QED
    BY <1>11, <1>12, <1>13, <2>1 DEF FailedVisit
<1>4. CASE Refresh
  <2>1. visits' \in 0 .. MaxVisits /\ server' = server
    BY <1>4, FrontendAssumption DEF Refresh, Asks, FrontendTypeOK, FrontendAssumption
  <2>2. PICK q \in Pages : LoadPage(q)
    BY <1>4, FrontendAssumption DEF Refresh, FrontendTypeOK, FrontendAssumption, ErrorPage
  <2> QED
    BY <1>2, <2>1, <2>2
<1>5. CASE Deploy
  <2>1. /\ server' = server + 1 /\ server' \in Releases
        /\ page' = page /\ client' = client /\ version' = version
        /\ unresolved' = unresolved /\ visits' = visits
        /\ details' = details /\ overlay' = overlay /\ closedBy' = "none" /\ tree' = tree
    BY <1>5 DEF Deploy, localVars, sidebarVars
  <2>2. version <= server'
    <3>1. version \in Nat /\ server \in Nat /\ version <= server
      BY FrontendAssumption DEF FrontendTypeOK, FrontendAssumption
    <3> QED
      BY <2>1, <3>1
  <2> QED
    BY <1>0, <2>1, <2>2 DEF FrontendTypeOK
<1>6. CASE ToggleDetails
  BY <1>0, <1>6, SamePageTypes DEF ToggleDetails, OtherEvent, FrontendTypeOK
<1>7. ASSUME NEW o \in Overlays, OpenOverlay(o) PROVE FrontendTypeOK'
  <2>1. closedBy' \in Ways \cup {"none", "page"}
    BY <1>7 DEF OpenOverlay, Ways
  <2> QED
    BY <1>0, <1>7, <2>1, SamePageTypes DEF OpenOverlay, OtherEvent, FrontendTypeOK
<1>8. ASSUME NEW way \in Ways, CloseOverlay(way) PROVE FrontendTypeOK'
  BY <1>0, <1>8, SamePageTypes DEF CloseOverlay, OtherEvent, FrontendTypeOK
<1>9. ASSUME NEW w \in Widths, ResizeWindow(w) PROVE FrontendTypeOK'
  <2>1. tree' = tree /\ details' = details /\ UNCHANGED pageVars
    BY <1>9 DEF ResizeWindow, Resize
  <2>2. closedBy' \in Ways \cup {"none", "page"} /\ overlay' \in {overlay, "none"}
    BY <1>9 DEF ResizeWindow, Ways
  <2> QED
    BY <1>0, <2>1, <2>2, SamePageTypes DEF FrontendTypeOK
<1>10. CASE SidebarEvent \/ Flush \/ SettleTree
  <2>1. PageStays /\ tree' = tree
    BY <1>10 DEF SidebarEvent, Flush, SettleTree, Shortcut, Click, CloseSheet, Press, ParentSets,
                 FlushEffects, Settle
  <2> QED
    BY <1>0, <2>1, SamePageTypes DEF PageStays, localVars, FrontendTypeOK
<1> QED
  BY <1>1, <1>3, <1>4, <1>5, <1>6, <1>7, <1>8, <1>9, <1>10, <1>13 DEF FrontendNext

(* The pages without fairness *)
SafePages == FrontendInit /\ [][FrontendNext]_vars

(* Pages, releases and layers keep their types; what is mounted is the page's. *)
THEOREM PagesTyped == SafePages => []FrontendTypeOK
BY FrontendTypeInit, FrontendTypeStep, PTL DEF SafePages

(* Every run of the pages is one of the sidebars. *)
THEOREM PagesRunSidebars == SafePages => SafeSpec
<1>1. FrontendInit => Init
  BY DEF FrontendInit
<1>2. FrontendTypeOK /\ [FrontendNext]_vars => [Next]_sidebarVars
  BY PageStepsAreSidebarSteps DEF vars, sidebarVars
<1> QED
  BY <1>1, <1>2, PagesTyped, PTL DEF SafePages, SafeSpec
-----------------------------------------------------------------------------
(***************************************************************************)
(* Pages and layers.                                                       *)
(***************************************************************************)

(* Whenever deploys come, a visit of a tab that is in step with its own       *)
(* bundle gives it the error page or the bundle of the server's release, and  *)
(* resolvePage finds the page.                                                *)
THEOREM AnswersAlwaysFit == SafePages => AnswersFitTheBundle
<1> DEFINE Fits == visits' > visits /\ version = client =>
                     /\ page' = ErrorPage \/ client' = server
                     /\ unresolved' = unresolved
<1>1. ASSUME FrontendTypeOK, [FrontendNext]_vars PROVE [Fits]_vars
  <2> SUFFICES ASSUME FrontendTypeOK, FrontendNext, visits' > visits, version = client
               PROVE  /\ page' = ErrorPage \/ client' = server
                      /\ unresolved' = unresolved
    BY <1>1
  <2>1. visits' # visits
    BY DEF FrontendTypeOK
  <2>2. ASSUME NEW q, LoadPage(q)
        PROVE  client' = server /\ unresolved' = unresolved
    BY <2>2 DEF LoadPage
  <2>3. ASSUME NEW q \in Pages, Visit(q)
        PROVE  client' = server /\ unresolved' = unresolved
    <3>1. CASE version = server
      BY <2>3, <3>1 DEF Visit, ResolvePage
    <3>2. CASE version # server
      BY <2>2, <2>3, <3>2 DEF Visit
    <3> QED
      BY <3>1, <3>2
  <2>4. CASE FailedVisit
    <3>1. ErrorPage \in Bundle[client]
      BY FrontendAssumption DEF FrontendTypeOK, FrontendAssumption, ErrorPage
    <3> QED
      BY <2>4, <3>1 DEF FailedVisit, ResolvePage, Shows
  <2>5. CASE Refresh
    BY <2>2, <2>5 DEF Refresh
  <2>6. ~Deploy /\ ~ToggleDetails /\ ~SidebarEvent /\ ~Flush /\ ~SettleTree
    BY <2>1 DEF Deploy, ToggleDetails, SidebarEvent, Flush, SettleTree, PageStays, pageVars
  <2>7. /\ ~\E o \in Overlays : OpenOverlay(o)
        /\ ~\E way \in Ways : CloseOverlay(way)
        /\ ~\E w \in Widths : ResizeWindow(w)
    BY <2>1 DEF OpenOverlay, CloseOverlay, ResizeWindow, pageVars
  <2> QED
    BY <2>3, <2>4, <2>5, <2>6, <2>7 DEF FrontendNext
<1>2. FrontendTypeOK /\ [FrontendNext]_vars => [Fits]_vars
  BY <1>1
<1> QED
  BY <1>2, PagesTyped, PTL DEF SafePages, AnswersFitTheBundle

LEMMA AlertLayer ==
  /\ "alertDialog" \in Overlays
  /\ LayerOf["alertDialog"].modal
  /\ LayerOf["alertDialog"].ways = {"escape", "action", "cancel"}
BY DEF Overlays, LayerOf, GalleryAlertDialog, AlertDialog, Layer, AlertDialogContent,
       AlertDialogAction, AlertDialogCancel

LEMMA AlertStep ==
  ASSUME [FrontendNext]_vars, overlay = "alertDialog", overlay' # overlay, closedBy' # "page"
  PROVE  closedBy' \in {"action", "cancel", "escape"} /\ ~SheetOnTop
<1>1. ASSUME NEW o \in Overlays, OpenOverlay(o) PROVE FALSE
  BY <1>1, AlertLayer DEF OpenOverlay, Reachable, IsModal
<1>2. ASSUME NEW w \in Widths, ResizeWindow(w) PROVE FALSE
  BY <1>2, AlertLayer DEF ResizeWindow
<1>3. ASSUME NEW q \in Pages, Visit(q) PROVE FALSE
  BY <1>3 DEF Visit, ResolvePage, LoadPage, Shows, localVars
<1>9. ~FailedVisit
  BY DEF FailedVisit, ResolvePage, Shows, localVars
<1>4. ~Refresh /\ ~Deploy /\ ~ToggleDetails
  BY DEF Refresh, LoadPage, Shows, Deploy, ToggleDetails, localVars
<1>5. ~SidebarEvent /\ ~Flush /\ ~SettleTree
  BY DEF SidebarEvent, Flush, SettleTree, PageStays, localVars
<1>6. ~UNCHANGED vars
  BY DEF vars, localVars
<1>7. PICK way \in Ways : CloseOverlay(way)
  BY <1>1, <1>2, <1>3, <1>4, <1>5, <1>6, <1>9 DEF FrontendNext
<1>8. way \in {"escape", "action", "cancel"}
  BY <1>7, AlertLayer DEF CloseOverlay
<1> QED
  BY <1>7, <1>8 DEF CloseOverlay

(* An alert dialog is answered, or the page goes: no sheet on top of it, no  *)
(* press beside it and no resize takes the question away.                    *)
THEOREM AlertsAnswered == SafePages => AlertNeedsAnswer
<1>1. [FrontendNext]_vars =>
        [overlay = "alertDialog" /\ overlay' # overlay /\ closedBy' # "page"
           => closedBy' \in {"action", "cancel", "escape"} /\ ~SheetOnTop]_vars
  BY AlertStep
<1> QED
  BY <1>1, PTL DEF SafePages, AlertNeedsAnswer
-----------------------------------------------------------------------------
(***************************************************************************)
(* The table.                                                              *)
(***************************************************************************)

LEMMA PagesOfTable ==
  ASSUME TableTypeOK
  PROVE  /\ Filtered \subseteq DOMAIN data /\ PageRows \subseteq DOMAIN data
         /\ Cardinality(Filtered) \in Nat /\ PageCount \in Nat
         /\ data \in Seq(Records) /\ pageSize \in Nat \ {0}
<1>1. data \in Seq(Records) /\ pageSize \in Nat \ {0}
  BY TableAssumption DEF TableAssumption, TableTypeOK
<1>2. Filtered \subseteq DOMAIN data /\ PageRows \subseteq DOMAIN data
  BY DEF Filtered, PageRows
<1>3. Cardinality(Filtered) \in Nat
  <2>1. DOMAIN data = 1 .. Len(data) /\ Len(data) \in Nat
    BY <1>1
  <2>2. IsFiniteSet(DOMAIN data)
    <3>1. 1 \in Int /\ Len(data) \in Int
      BY <2>1
    <3>2. IsFiniteSet(1 .. Len(data))
      BY ONLY <3>1, FS_Interval
    <3> QED
      BY <2>1, <3>2
  <2>3. IsFiniteSet(Filtered)
    BY <1>2, <2>2, FS_Subset
  <2> QED
    BY <2>3, FS_CardinalityType
<1>4. PageCount \in Nat
  BY <1>1, <1>3 DEF PageCount
<1> QED
  BY <1>1, <1>2, <1>3, <1>4

LEMMA TableTypeInit == TableInit => TableTypeOK
<1> SUFFICES ASSUME TableInit PROVE TableTypeOK
  OBVIOUS
<1> QED
  BY TableAssumption DEF TableInit, TableTypeOK, TableAssumption, Hideable

LEMMA TableTypeStep == TableTypeOK /\ [TableNext]_tableVars => TableTypeOK'
<1> SUFFICES ASSUME TableTypeOK, [TableNext]_tableVars PROVE TableTypeOK'
  OBVIOUS
<1> USE DEF givenVars, viewedVars, chosenVars, TableTypeOK
<1>0. /\ PageRows \subseteq DOMAIN data /\ PageCount \in Nat /\ data \in Seq(Records)
      /\ DOMAIN data \subseteq Nat /\ RecordsAt(PageRows) \subseteq Records
      /\ \A i \in DOMAIN data : data[i] \in Records
  BY PagesOfTable DEF RecordsAt
<1>1. CASE UNCHANGED tableVars
  BY <1>1 DEF tableVars
<1>2. ASSUME NEW f \in Filters, SetFilterValue(f) PROVE TableTypeOK'
  BY <1>2 DEF SetFilterValue, ResetPage
<1>3. ASSUME NEW c \in Accessors \cup DisplayOnly, HideFromHeader(c) PROVE TableTypeOK'
  BY <1>3 DEF HideFromHeader, Sortable, Hideable
<1>4. ASSUME NEW c \in Accessors \cup DisplayOnly, ToggleVisibility(c) PROVE TableTypeOK'
  BY <1>4 DEF ToggleVisibility, Hideable
<1>5. ASSUME NEW c \in Accessors \cup DisplayOnly, NEW desc \in BOOLEAN, ToggleSorting(desc, c)
      PROVE  TableTypeOK'
  BY <1>5 DEF ToggleSorting, ResetPage
<1>6. ASSUME NEW n \in PageSizes, SetPageSize(n) PROVE TableTypeOK'
  <2>1. n \in Nat \ {0} /\ pageSize * pageIndex \in Nat
    BY TableAssumption DEF TableAssumption
  <2>2. pageIndex' \in Nat
    BY <1>6, <2>1 DEF SetPageSize
  <2> QED
    BY <1>6, <2>2 DEF SetPageSize
<1>7. CASE FirstPage \/ PreviousPage \/ NextPage \/ LastPage
  <2>1. pageIndex' \in Nat
    BY <1>0, <1>7 DEF FirstPage, PreviousPage, NextPage, LastPage, GoTo, CanPreviousPage,
                      CanNextPage
  <2> QED
    BY <1>7, <2>1 DEF FirstPage, PreviousPage, NextPage, LastPage, GoTo
<1>8. ASSUME NEW i \in DOMAIN data, ToggleSelected(i) PROVE TableTypeOK'
  BY <1>0, <1>8 DEF ToggleSelected, Ticked, Unticked, RecordsAt
<1>9. CASE ToggleAllPageRowsSelected
  BY <1>0, <1>9 DEF ToggleAllPageRowsSelected, Ticked, Unticked
<1>10. ASSUME NEW d \in Contents, NewData(d) PROVE TableTypeOK'
  <2>1. late' \in BOOLEAN /\ moved' \in BOOLEAN
    BY <1>10 DEF NewData
  <2>2. pageIndex' \in Nat
    BY <1>10 DEF NewData, ResetPage
  <2> QED
    BY <1>10, <2>1, <2>2 DEF NewData
<1>11. CASE StartLoading
  BY <1>11 DEF StartLoading
<1>12. CASE EndLoading
  <2>1. pageIndex' \in Nat
    BY <1>12 DEF EndLoading, ResetPage
  <2> QED
    BY <1>12, <2>1 DEF EndLoading
<1> QED
  BY <1>1, <1>2, <1>3, <1>4, <1>5, <1>6, <1>7, <1>8, <1>9, <1>10, <1>11, <1>12 DEF TableNext

(* The table keeps its types. *)
THEOREM TableTyped == TableSpec => []TableTypeOK
BY TableTypeInit, TableTypeStep, PTL DEF TableSpec

LEMMA SelectionStep ==
  TableTypeOK /\ SelectionFollowsRecords /\ [TableNext]_tableVars => SelectionFollowsRecords'
<1> SUFFICES ASSUME TableTypeOK, SelectionFollowsRecords, [TableNext]_tableVars
             PROVE  SelectionFollowsRecords'
  OBVIOUS
<1> USE DEF givenVars, viewedVars, chosenVars
<1>0. PageRows \subseteq DOMAIN data /\ \A i, j \in DOMAIN data : data[i] = data[j] => i = j
  BY PagesOfTable, TableAssumption DEF TableAssumption, TableTypeOK
<1>1. ASSUME UNCHANGED <<data, chosenVars>> PROVE SelectionFollowsRecords'
  BY <1>1 DEF SelectionFollowsRecords, RecordsAt
<1>2. ASSUME NEW rows, rows \subseteq DOMAIN data, Ticked(rows), UNCHANGED <<data, moved>>
      PROVE  SelectionFollowsRecords'
  BY <1>2 DEF Ticked, SelectionFollowsRecords, RecordsAt
<1>3. ASSUME NEW rows, rows \subseteq DOMAIN data, Unticked(rows), UNCHANGED <<data, moved>>
      PROVE  SelectionFollowsRecords'
  <2> SUFFICES ASSUME ~moved
               PROVE  /\ selected' \subseteq DOMAIN data
                      /\ {data[i] : i \in selected'} = picked'
    BY <1>3 DEF SelectionFollowsRecords, RecordsAt
  <2>1. selected \subseteq DOMAIN data /\ {data[i] : i \in selected} = picked
    BY DEF SelectionFollowsRecords, RecordsAt
  <2>2. selected' = selected \ rows /\ picked' = picked \ {data[i] : i \in rows}
    BY <1>3 DEF Unticked, RecordsAt
  <2>3. \A i \in selected \ rows : data[i] \notin {data[j] : j \in rows}
    BY <1>0, <1>3, <2>1
  <2> QED
    BY <2>1, <2>2, <2>3
<1>4. CASE UNCHANGED tableVars
  BY <1>1, <1>4 DEF tableVars
<1>5. ASSUME NEW f \in Filters, SetFilterValue(f) PROVE SelectionFollowsRecords'
  BY <1>1, <1>5 DEF SetFilterValue
<1>6. ASSUME NEW c \in Accessors \cup DisplayOnly, NEW desc \in BOOLEAN,
             HideFromHeader(c) \/ ToggleVisibility(c) \/ ToggleSorting(desc, c)
      PROVE  SelectionFollowsRecords'
  BY <1>1, <1>6 DEF HideFromHeader, ToggleVisibility, ToggleSorting
<1>7. ASSUME NEW n \in PageSizes, SetPageSize(n) PROVE SelectionFollowsRecords'
  BY <1>1, <1>7 DEF SetPageSize
<1>8. CASE FirstPage \/ PreviousPage \/ NextPage \/ LastPage
  BY <1>1, <1>8 DEF FirstPage, PreviousPage, NextPage, LastPage, GoTo
<1>9. ASSUME NEW i \in DOMAIN data, ToggleSelected(i) PROVE SelectionFollowsRecords'
  BY <1>2, <1>3, <1>9 DEF ToggleSelected
<1>10. CASE ToggleAllPageRowsSelected
  BY <1>0, <1>2, <1>3, <1>10 DEF ToggleAllPageRowsSelected
<1>11. ASSUME NEW d \in Contents, NewData(d) PROVE SelectionFollowsRecords'
  BY <1>11 DEF NewData, SelectionFollowsRecords, RecordsAt
<1>12. CASE StartLoading \/ EndLoading
  BY <1>1, <1>12 DEF StartLoading, EndLoading
<1> QED
  BY <1>4, <1>5, <1>6, <1>7, <1>8, <1>9, <1>10, <1>11, <1>12 DEF TableNext

(* The ticks stay on the records that were ticked until `data` is replaced   *)
(* under them, for any records, filters, sort keys and page sizes.           *)
THEOREM SelectionAlwaysFollows == TableSpec => []SelectionFollowsRecords
<1>1. TableInit => SelectionFollowsRecords
  BY DEF TableInit, SelectionFollowsRecords, RecordsAt
<1> QED
  BY <1>1, SelectionStep, TableTyped, PTL DEF TableSpec

(* How many pages a number of rows fills *)
LEMMA LastPageHolds ==
  ASSUME NEW rows \in Nat, NEW k \in Nat, NEW n \in Nat \ {0}, k < rows
  PROVE  k \div n \in Nat /\ k \div n < (rows + n - 1) \div n
<1> DEFINE q == k \div n
           Q == (rows + n - 1) \div n
<1>1. q \in Nat /\ n * q <= k
  OBVIOUS
<1>2. Q \in Nat /\ rows + n - 1 < n * Q + n
  OBVIOUS
<1>3. n * q < n * Q
  BY <1>1, <1>2
<1> HIDE DEF q, Q
<1>4. q < Q
  BY <1>1, <1>2, <1>3
<1> QED
  BY <1>1, <1>4 DEF q, Q

LEMMA PageHolds ==
  ASSUME NEW rows \in Nat, NEW i \in Nat, NEW n \in Nat \ {0}, i < (rows + n - 1) \div n
  PROVE  n * i < rows
<1> DEFINE Q == (rows + n - 1) \div n
<1>1. Q \in Nat /\ n * Q <= rows + n - 1
  OBVIOUS
<1>2. n * (i + 1) <= n * Q
  BY <1>1
<1>3. n * (i + 1) = n * i + n
  OBVIOUS
<1> QED
  BY <1>1, <1>2, <1>3

(* While the table loads, the page counts for `data` as it was before *)
PageInv == /\ late => loading
           /\ ~late => pageIndex = 0 \/ pageIndex < PageCount

LEMMA PageStep == TableTypeOK /\ PageInv /\ [TableNext]_tableVars => PageInv'
<1> SUFFICES ASSUME TableTypeOK, PageInv, [TableNext]_tableVars PROVE PageInv'
  OBVIOUS
<1> USE DEF givenVars, viewedVars, chosenVars
<1>0. /\ Cardinality(Filtered) \in Nat /\ PageCount \in Nat /\ pageIndex \in Nat
      /\ pageSize \in Nat \ {0}
  BY PagesOfTable DEF TableTypeOK
<1>1. ASSUME UNCHANGED <<data, filter, pageSize>> PROVE PageCount' = PageCount
  BY <1>1 DEF PageCount, Filtered
<1>2. ASSUME UNCHANGED <<givenVars, filter, pageSize, pageIndex>> PROVE PageInv'
  BY <1>1, <1>2 DEF PageInv
<1>3. ASSUME UNCHANGED <<loading, late>>, pageIndex' = 0 PROVE PageInv'
  BY <1>3 DEF PageInv
<1>4. CASE UNCHANGED tableVars
  BY <1>2, <1>4 DEF tableVars
<1>5. ASSUME NEW f \in Filters, SetFilterValue(f) PROVE PageInv'
  BY <1>3, <1>5 DEF SetFilterValue, ResetPage
<1>6. ASSUME NEW c \in Accessors \cup DisplayOnly, NEW desc \in BOOLEAN, ToggleSorting(desc, c)
      PROVE  PageInv'
  BY <1>3, <1>6 DEF ToggleSorting, ResetPage
<1>7. ASSUME NEW c \in Accessors \cup DisplayOnly, HideFromHeader(c) \/ ToggleVisibility(c)
      PROVE  PageInv'
  BY <1>2, <1>7 DEF HideFromHeader, ToggleVisibility
<1>8. ASSUME NEW n \in PageSizes, SetPageSize(n) PROVE PageInv'
  <2>1. n \in Nat \ {0} /\ pageSize' = n /\ pageIndex' = (pageSize * pageIndex) \div n
        /\ UNCHANGED <<givenVars, filter>>
    BY <1>8, TableAssumption DEF SetPageSize, TableAssumption
  <2>2. PageCount' = (Cardinality(Filtered) + n - 1) \div n
    BY <2>1 DEF PageCount, Filtered
  <2>3. CASE pageIndex = 0
    <3>1. pageSize * pageIndex = 0 /\ 0 \div n = 0
      BY <1>0, <2>1, <2>3
    <3> QED
      BY <1>3, <2>1, <3>1
  <2>4. CASE pageIndex < PageCount
    <3>1. pageSize * pageIndex < Cardinality(Filtered) /\ pageSize * pageIndex \in Nat
      BY <1>0, <2>4, PageHolds DEF PageCount
    <3>2. pageIndex' < PageCount'
      BY <1>0, <2>1, <2>2, <3>1, LastPageHolds
    <3> QED
      BY <2>1, <3>2 DEF PageInv
  <2>5. CASE late
    BY <2>1, <2>5 DEF PageInv
  <2> QED
    BY <2>3, <2>4, <2>5 DEF PageInv
<1>9. CASE FirstPage \/ PreviousPage \/ NextPage \/ LastPage
  <2>1. PageCount' = PageCount /\ UNCHANGED <<loading, late>> /\ ~late
    BY <1>1, <1>9 DEF FirstPage, PreviousPage, NextPage, LastPage, GoTo, PageInv
  <2>2. pageIndex' = 0 \/ pageIndex' < PageCount
    <3>1. CASE FirstPage
      BY <3>1 DEF FirstPage, GoTo
    <3>2. CASE PreviousPage
      BY <1>0, <2>1, <3>2 DEF PreviousPage, GoTo, PageInv, CanPreviousPage
    <3>3. CASE NextPage \/ LastPage
      BY <1>0, <3>3 DEF NextPage, LastPage, GoTo, CanNextPage
    <3> QED
      BY <1>9, <3>1, <3>2, <3>3
  <2> QED
    BY <2>1, <2>2 DEF PageInv
<1>10. ASSUME NEW i \in DOMAIN data, ToggleSelected(i) PROVE PageInv'
  BY <1>2, <1>10 DEF ToggleSelected
<1>11. CASE ToggleAllPageRowsSelected
  BY <1>2, <1>11 DEF ToggleAllPageRowsSelected
<1>12. ASSUME NEW d \in Contents, NewData(d) PROVE PageInv'
  BY <1>12 DEF NewData, ResetPage, PageInv
<1>13. CASE StartLoading
  BY <1>1, <1>13 DEF StartLoading, PageInv
<1>14. CASE EndLoading
  BY <1>1, <1>14 DEF EndLoading, ResetPage, PageInv
<1> QED
  BY <1>4, <1>5, <1>6, <1>7, <1>8, <1>9, <1>10, <1>11, <1>12, <1>13, <1>14 DEF TableNext

(* The page shown exists after any filter, page size and data, those that    *)
(* came while the table was loading included.                                *)
THEOREM PageAlwaysInRange == TableSpec => []PageInRange
<1>1. TableInit => PageInv
  BY DEF TableInit, PageInv
<1>2. PageInv => PageInRange
  BY DEF PageInv, PageInRange
<1> QED
  BY <1>1, <1>2, PageStep, TableTyped, PTL DEF TableSpec
-----------------------------------------------------------------------------
(***************************************************************************)
(* The controls.                                                           *)
(***************************************************************************)

(* An effect that is still to run sets what the thumb already has *)
ThumbInv ==
  control = "ownSlider" /\ ~overtaken => internal = chosen /\ (pending => initial = chosen)

LEMMA ControlsTypeInit == ControlsInit => ControlsTypeOK
<1> SUFFICES ASSUME ControlsInit PROVE ControlsTypeOK
  OBVIOUS
<1>1. pending \in BOOLEAN
  <2>1. pending = (control \in Sliders)
    BY DEF ControlsInit
  <2>2. CASE control \in Sliders
    BY <2>1, <2>2
  <2>3. CASE control \notin Sliders
    BY <2>1, <2>3
  <2> QED
    BY <2>2, <2>3
<1>on. on \in BOOLEAN
  <2>1. CASE control \in Binary
    BY <2>1 DEF ControlsInit
  <2>2. CASE control \notin Binary
    BY <2>2 DEF ControlsInit
  <2> QED
    BY <2>1, <2>2
<1>2. chosen \in Values \cup {NoValue} /\ initial \in Values
  BY DEF ControlsInit
<1>3. chosen = NoValue => control \in Clearable \cup Keeping \cup Binary
  BY ControlsAssumption DEF ControlsInit, ControlsAssumption
<1> QED
  BY <1>1, <1>on, <1>2, <1>3 DEF ControlsInit, ControlsTypeOK

LEMMA ControlsStep ==
  ControlsTypeOK /\ ThumbInv /\ [ControlsNext]_controlVars => ControlsTypeOK' /\ ThumbInv'
<1> SUFFICES ASSUME ControlsTypeOK, ThumbInv, [ControlsNext]_controlVars
             PROVE  ControlsTypeOK' /\ ThumbInv'
  OBVIOUS
<1> USE DEF sliderVars
<1>1. CASE UNCHANGED controlVars
  BY <1>1 DEF controlVars, ControlsTypeOK, ThumbInv
<1>2. ASSUME NEW v \in Values, Choose(v) PROVE ControlsTypeOK' /\ ThumbInv'
  <2>1. control # "ownSlider"
    BY <1>2 DEF Choose, Clearable, Keeping, AccordionClears, ToggleGroupClears, TabsKeeps,
                RadioGroupKeeps, SelectKeeps, GalleryAccordion, GalleryToggleGroup, GalleryTabs,
                GalleryRadioGroup, GallerySelectValue
  <2> QED
    BY <1>2, <2>1 DEF Choose, ControlsTypeOK, ThumbInv
<1>3. ASSUME NEW v \in Values, HandleValueChange(v) PROVE ControlsTypeOK' /\ ThumbInv'
  <2>1. overtaken' \in BOOLEAN
    BY <1>3 DEF HandleValueChange
  <2>2. ControlsTypeOK'
    BY <1>3, <2>1, ControlsAssumption DEF HandleValueChange, ControlsTypeOK, ControlsAssumption
  <2>3. ThumbInv'
    BY <1>3 DEF HandleValueChange, ThumbInv
  <2> QED
    BY <2>2, <2>3
<1>4. ASSUME NEW v \in Values, NewDefault(v) PROVE ControlsTypeOK' /\ ThumbInv'
  BY <1>4 DEF NewDefault, ControlsTypeOK, ThumbInv
<1>5. CASE Flip
  <2>1. control # "ownSlider"
    BY <1>5 DEF Flip, Binary, CheckboxRoot, CollapsibleRoot, ToggleRoot, SwitchRoot,
                GalleryCheckbox, GalleryCollapsible, GalleryToggle, ControlledSwitch
  <2>2. on' \in BOOLEAN
    BY <1>5 DEF Flip
  <2> QED
    BY <1>5, <2>1, <2>2 DEF Flip, ControlsTypeOK, ThumbInv
<1>6. CASE RunEffect
  BY <1>6 DEF RunEffect, ControlsTypeOK, ThumbInv, IsControlled
<1> QED
  BY <1>1, <1>2, <1>3, <1>4, <1>5, <1>6 DEF ControlsNext

LEMMA ControlsInitially == ControlsInit => ControlsTypeOK /\ ThumbInv
<1>1. ControlsInit => ThumbInv
  BY DEF ControlsInit, ThumbInv, Sliders
<1> QED
  BY <1>1, ControlsTypeInit

(* The number beside a slider is the place of its thumb, for any values. *)
THEOREM SliderAlwaysShowsItsThumb == ControlsSpec => []SliderShowsItsThumb
<1>1. ThumbInv => SliderShowsItsThumb
  BY DEF ThumbInv, SliderShowsItsThumb, Output, IsControlled
<1> QED
  BY <1>1, ControlsInitially, ControlsStep, PTL DEF ControlsSpec
-----------------------------------------------------------------------------
(* All of it together is well typed. *)
THEOREM BrowserTyped == BrowserSpec => []BrowserTypeOK
<1> DEFINE Inv == BrowserTypeOK /\ ThumbInv
<1>1. BrowserInit => Inv
  BY FrontendTypeInit, TableTypeInit, ControlsInitially DEF BrowserInit, BrowserTypeOK
<1>2. Inv /\ [BrowserNext]_allVars => Inv'
  <2> SUFFICES ASSUME Inv, [BrowserNext]_allVars PROVE Inv'
    OBVIOUS
  <2>1. [FrontendNext]_vars /\ [TableNext]_tableVars /\ [ControlsNext]_controlVars
    BY DEF BrowserNext, AppStep, EffectsStep, TableStep, ControlStep, FrontendNext, allVars
  <2> QED
    BY <2>1, FrontendTypeStep, TableTypeStep, ControlsStep DEF BrowserTypeOK
<1> QED
  BY <1>1, <1>2, PTL DEF BrowserSpec
-----------------------------------------------------------------------------
(***************************************************************************)
(* What is displayed.                                                      *)
(***************************************************************************)

(* Every set of naturals that is not empty has a least member. *)
LEMMA LeastNatural ==
  ASSUME NEW S \in SUBSET Nat, S # {} PROVE \E m \in S : \A k \in S : m <= k
<1> DEFINE Less == OpToRel(<, Nat)
<1>1. IsWellFoundedOn(Less, Nat)
  BY NatLessThanWellFounded
<1>2. PICK m \in S : \A k \in S : ~ (<<k, m>> \in Less)
  BY <1>1, WFMin
<1>3. ASSUME NEW k \in Nat, NEW n \in Nat, k < n PROVE <<k, n>> \in Less
  <2>1. <<k, n>> \in Nat \X Nat /\ <<k, n>>[1] < <<k, n>>[2]
    BY <1>3
  <2> QED
    BY ONLY <2>1 DEF OpToRel
<1> QED
  <2>1. \A k \in S : ~ (k < m)
    BY <1>2, <1>3
  <2> QED
    BY <2>1
(* FieldError (field.tsx:177-190): whatever the list, of the messages that say *)
(* something each is shown exactly once, at the place of its first; the alert  *)
(* is there if there is one, and without one only for two ways of saying none. *)
THEOREM FieldErrorsOnce ==
  ASSUME NEW M, NEW errors \in Seq(M)
  PROVE  LET said == {errors[i] : i \in DOMAIN errors} \ {Undefined, ""}
         IN  /\ FieldErrorItems(errors) = said
             /\ said # {} => FieldErrorAlert(errors)
             /\ FieldErrorAlert(errors) /\ said = {} =>
                  {Undefined, ""} \subseteq {errors[i] : i \in DOMAIN errors}
             /\ \A i \in UniqueErrors(errors) : \A j \in DOMAIN errors : errors[j] = errors[i] => i <= j
<1> DEFINE said == {errors[i] : i \in DOMAIN errors} \ {Undefined, ""}
<1> USE DEF Shown
<1>0. DOMAIN errors = 1 .. Len(errors) /\ Len(errors) \in Nat
  OBVIOUS
<1>1. ASSUME NEW i \in DOMAIN errors
      PROVE  \E j \in UniqueErrors(errors) : errors[j] = errors[i]
  <2> DEFINE S == {k \in DOMAIN errors : errors[k] = errors[i]}
  <2>1. S \in SUBSET Nat /\ S # {}
    BY <1>0
  <2>2. PICK j \in S : \A k \in S : j <= k
    BY <2>1, LeastNatural
  <2>3. j \in UniqueErrors(errors)
    BY <1>0, <2>2 DEF UniqueErrors
  <2> QED
    BY <2>2, <2>3
<1>2. UniqueErrors(errors) \subseteq DOMAIN errors
  BY DEF UniqueErrors
<1>3. FieldErrorItems(errors) = said
  BY <1>1, <1>2 DEF FieldErrorItems
<1>4. IsFiniteSet(UniqueErrors(errors))
  <2>1. IsFiniteSet(DOMAIN errors)
    BY <1>0, FS_Interval
  <2> QED
    BY <1>2, <2>1, FS_Subset
<1>5. ASSUME said # {} PROVE FieldErrorAlert(errors)
  <2>1. PICK i \in DOMAIN errors : errors[i] \notin {Undefined, ""}
    BY <1>5
  <2>2. i \in 1 .. Len(errors)
    BY <1>0, <2>1
  <2>3. errors # <<>>
    BY <1>0, <2>2
  <2> QED
    BY <1>3, <1>5, <2>3 DEF FieldErrorAlert
<1>6. ASSUME FieldErrorAlert(errors), said = {}
      PROVE  {Undefined, ""} \subseteq {errors[i] : i \in DOMAIN errors}
  <2>1. Cardinality(UniqueErrors(errors)) # 1 /\ errors # <<>>
    BY <1>3, <1>6 DEF FieldErrorAlert
  <2>2. 1 \in DOMAIN errors
    BY <1>0, <2>1
  <2>3. PICK u \in UniqueErrors(errors) : errors[u] = errors[1]
    BY <1>1, <2>2
  <2>4. UniqueErrors(errors) # {u}
    BY <2>1, FS_Singleton
  <2>5. PICK v \in UniqueErrors(errors) : v # u
    BY <2>3, <2>4
  <2>6. errors[u] # errors[v]
    BY <1>0, <1>2, <2>3, <2>5 DEF UniqueErrors
  <2>7. errors[u] \in {Undefined, ""} /\ errors[v] \in {Undefined, ""}
    BY <1>2, <1>6, <2>3, <2>5
  <2> QED
    BY <1>2, <2>3, <2>5, <2>6, <2>7
<1>7. \A i \in UniqueErrors(errors) : \A j \in DOMAIN errors : errors[j] = errors[i] => i <= j
  BY <1>0 DEF UniqueErrors
<1> QED
  BY <1>3, <1>5, <1>6, <1>7

(* Notifications: the badge is shown exactly when an entry has its mark, for    *)
(* any entries, unless the consumer gives a count of its own.                  *)
LEMMA BadgeMatchesMarks ==
  ASSUME NEW read \in Seq(BOOLEAN)
  PROVE  Badge(TotalUnread(Undefined, read)).shown <=> Marked(read) # {}
<1>1. Marked(read) \subseteq 1 .. Len(read) /\ Len(read) \in Nat
  BY DEF Marked
<1>2. IsFiniteSet(Marked(read))
  <2>1. IsFiniteSet(1 .. Len(read))
    BY <1>1, FS_Interval
  <2> QED
    BY <1>1, <2>1, FS_Subset
<1>3. Cardinality(Marked(read)) \in Nat /\ (Cardinality(Marked(read)) = 0 <=> Marked(read) = {})
  BY <1>2, FS_CardinalityType, FS_EmptySet
<1>4. TotalUnread(Undefined, read) = Cardinality(Marked(read))
  BY DEF TotalUnread, Marked
<1>5. ASSUME NEW n \in Nat PROVE Badge(n).shown <=> n # 0
  <2>1. Badge(n).shown <=> n > 0
    BY Zenon DEF Badge
  <2>2. n > 0 <=> n # 0
    OBVIOUS
  <2> QED
    BY Zenon, <2>1, <2>2
<1> QED
  BY <1>3, <1>4, <1>5
=============================================================================
