------------------------------ MODULE Frontend ------------------------------
(***************************************************************************)
(* The browser side of the application: the pages Inertia shows, a deploy  *)
(* of the server under an open tab, the layers of the gallery, and the     *)
(* sidebars of the page.  The gallery mounts two providers; a consumer     *)
(* page (none is in the repository yet) mounts one whose `open` its parent *)
(* holds in one of the ways the props allow.                               *)
(*                                                                         *)
(* One layer of the gallery is open at a time; the sheet of a sidebar may  *)
(* come on top of it, because the shortcut works behind a modal layer.     *)
(***************************************************************************)
EXTENDS Sidebar, Overlays

CONSTANTS Pages,      \* the pages of all releases
          PageTree,   \* the providers each one mounts
          Bundle,     \* release -> the pages under app/frontend/pages
          MaxVisits   \* bound: visits and loads

Releases == DOMAIN Bundle

ASSUME FrontendAssumption ==
  /\ {"Home", "Gallery", "Error"} \subseteq Pages
  /\ PageTree \in [Pages -> Trees]
  /\ Releases \subseteq Nat /\ 1 \in Releases
  /\ \A r \in Releases : {"Home", "Error"} \subseteq Bundle[r] /\ Bundle[r] \subseteq Pages
  /\ MaxVisits \in Nat

VARIABLES
  page,        \* the page shown
  client,      \* the release whose bundle the tab runs
  version,     \* the release of the page last shown, sent with every visit
  server,      \* the release the server runs
  unresolved,  \* did resolvePage throw
  visits,      \* bounded by MaxVisits
  details,     \* Home: detailsOpen
  overlay,     \* the layer of the gallery that is open
  closedBy     \* how the last step closed a layer, "none" if it did not

pageVars    == <<page, client, version, server, unresolved, visits>>
localVars   == <<details, overlay>>
vars        == <<pageVars, localVars, closedBy, sidebarVars>>

Overlays == DOMAIN LayerOf
IsModal(o) == o # "none" /\ LayerOf[o].modal
SheetOnTop == \E p \in tree : SheetShown(p)
Reachable  == ~SheetOnTop /\ ~IsModal(overlay)

FrontendTypeOK ==
  /\ TypeOK
  /\ page \in Pages /\ tree = PageTree[page]
  /\ {client, version, server} \subseteq Releases /\ client <= version /\ version <= server
  /\ unresolved \in BOOLEAN /\ visits \in 0 .. MaxVisits
  /\ details \in BOOLEAN /\ (details => page = "Home")
  /\ overlay \in Overlays \cup {"none"} /\ (overlay # "none" => page = "Gallery")
  /\ closedBy \in Ways \cup {"none", "page"}
-----------------------------------------------------------------------------
(* What the server may answer to any visit: a failure *)
ErrorPage == "Error"

(* The two providers of the gallery: an application shell with a trigger,    *)
(* and a sidebar that does not collapse and has none.                        *)
AppShellSidebar == "icon"
GalleryAppShell ==
  [mode |-> "own", defaultOpen |-> TRUE, collapsible |-> AppShellSidebar, clicks |-> {FALSE}]
GallerySidebar ==
  [mode |-> "own", defaultOpen |-> TRUE, collapsible |-> "none", clicks |-> {}]

(* A new page: its local state starts again, and what was open is gone *)
ShowsUnderTheLayer(q) ==
  /\ page' = q
  /\ details' = FALSE
  /\ overlay' = overlay /\ closedBy' = "none"
Shows(q) ==
  /\ page' = q
  /\ details' = FALSE
  /\ overlay' = "none" /\ closedBy' = "page"

(* resolvePage: the component, or an error that names the page and leaves  *)
(* the tab with the page and the version it had                            *)
ResolvePage(q) ==
  IF q \in Bundle[client]
    THEN /\ Shows(q) /\ Mount(PageTree[q])
         /\ version' = server
         /\ UNCHANGED <<client, unresolved>>
    ELSE /\ unresolved' = TRUE /\ closedBy' = "none"
         /\ UNCHANGED <<page, client, version, localVars, sidebarVars>>

LoadPage(q) ==
  /\ Shows(q) /\ Load(PageTree[q])
  /\ client' = server /\ version' = server
  /\ UNCHANGED unresolved

Asks == visits < MaxVisits /\ visits' = visits + 1 /\ UNCHANGED server

(* A visit that carries the version of an older release is answered 409: *)
(* the tab loads the page anew, or what its failure gives.               *)
VisitIgnoresTheVersion(q) ==
  /\ Asks /\ q \in Bundle[server] \ {ErrorPage}
  /\ ResolvePage(q)
Visit(q) ==
  /\ Asks /\ q \in Bundle[server] \ {ErrorPage}
  /\ IF version = server THEN ResolvePage(q) ELSE \E r \in {q, ErrorPage} : LoadPage(r)

(* A visit that raises is answered by exceptions_app, above the middleware  *)
(* that compares the versions: the error page reaches an old bundle with    *)
(* the new version.  A visit that is not a GET, which is compared with      *)
(* nothing either, fails too: no route takes one.                           *)
FailedVisit == Asks /\ ResolvePage(ErrorPage)

(* The operator reloads; a page that fails, or that the new release lacks, *)
(* is an error page                                                        *)
Refresh ==
  /\ Asks
  /\ \E q \in {page, ErrorPage} \cap Bundle[server] : LoadPage(q)

Deploy ==
  /\ server + 1 \in Releases
  /\ server' = server + 1
  /\ closedBy' = "none"
  /\ UNCHANGED <<page, client, version, unresolved, visits, localVars, sidebarVars>>

ToggleDetails ==
  /\ page = "Home"
  /\ details' = ~details
  /\ OtherEvent
  /\ closedBy' = "none"
  /\ UNCHANGED <<pageVars, overlay>>
-----------------------------------------------------------------------------
OpenOverlay(o) ==
  /\ page = "Gallery" /\ Reachable /\ overlay # o
  /\ overlay' = o
  /\ closedBy' = IF overlay = "none" THEN "none" ELSE "outside"
  /\ OtherEvent
  /\ UNCHANGED <<pageVars, details>>

(* Escape and a press go to the layer on top; under a sheet a layer that *)
(* does not hold the focus loses it.                                     *)
CloseOverlay(way) ==
  /\ overlay # "none" /\ way \in LayerOf[overlay].ways \ {"resize"}
  /\ SheetOnTop => way \in {"focus", "leave"}
  /\ overlay' = "none" /\ closedBy' = way
  /\ OtherEvent
  /\ UNCHANGED <<pageVars, details>>

ResizeWindow(w) ==
  /\ Resize(w)
  /\ IF overlay # "none" /\ "resize" \in LayerOf[overlay].ways
       THEN overlay' = "none" /\ closedBy' = "resize"
       ELSE UNCHANGED overlay /\ closedBy' = "none"
  /\ UNCHANGED <<pageVars, details>>

PageStays == closedBy' = "none" /\ UNCHANGED <<pageVars, localVars>>

(* The triggers are in the page, outside of the sheet *)
SidebarEvent ==
  /\ \/ Shortcut
     \/ \E p \in tree : \/ Reachable /\ \E again \in BOOLEAN : Click(p, again)
                        \/ \E way \in SidebarSheet.ways : CloseSheet(p)
                        \/ (~IsModal(overlay) \/ SheetOnTop) /\ Press(p)
                        \/ ParentSets(p)
  /\ PageStays

Flush      == FlushEffects /\ PageStays
SettleTree == Settle /\ PageStays

FrontendInit ==
  /\ Init
  /\ page \in Bundle[1] /\ tree = PageTree[page]
  /\ client = 1 /\ version = 1 /\ server = 1 /\ unresolved = FALSE /\ visits = 0
  /\ details = FALSE /\ overlay = "none" /\ closedBy = "none"

FrontendNext ==
  \/ \E q \in Pages : Visit(q)
  \/ FailedVisit \/ Refresh \/ Deploy \/ ToggleDetails
  \/ \E o \in Overlays : OpenOverlay(o)
  \/ \E way \in Ways : CloseOverlay(way)
  \/ \E w \in Widths : ResizeWindow(w)
  \/ SidebarEvent
  \/ Flush \/ SettleTree

FrontendSpec == FrontendInit /\ [][FrontendNext]_vars /\ WF_vars(Flush) /\ WF_vars(SettleTree)
-----------------------------------------------------------------------------
(* A tab whose version is that of its bundle gets no page of a later        *)
(* release but the error page, and resolvePage finds what it gets: the      *)
(* check loads the tab anew first.  After an error page the tab may hold a  *)
(* version that is not its bundle's.  From then on its visits pass the      *)
(* check, run new props against the old bundle, and throw in resolvePage    *)
(* for a page the bundle lacks, until it is reloaded or stale once more:    *)
(* inertia_rails.rb:2-4 does not hold of it.                                *)
AnswersFitTheBundle ==
  [][visits' > visits /\ version = client =>
       /\ page' = ErrorPage \/ client' = server
       /\ unresolved' = unresolved]_vars

(* An alert dialog goes away because it was answered, or because the page   *)
(* did.  Nothing on top of it, no press beside it and no resize closes it.  *)
AlertNeedsAnswer ==
  [][overlay = "alertDialog" /\ overlay' # overlay /\ closedBy' # "page"
       => closedBy' \in {"action", "cancel", "escape"} /\ ~SheetOnTop]_vars
=============================================================================
