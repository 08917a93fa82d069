------------------------------ MODULE Sidebar ------------------------------
(***************************************************************************)
(* SidebarProvider, Sidebar, SidebarTrigger, SidebarRail and useIsMobile:  *)
(* the providers of one page, the `keydown` listeners they leave on the    *)
(* window, and the cookie they all write.                                  *)
(*                                                                         *)
(* React commits a tree first and runs its effects later.  `phase` follows *)
(* that: "committed" (rendered, effects pending: the listeners of the tree *)
(* before are still on the window), "measured" (effects run, useIsMobile   *)
(* has set its state, the render that shows it is pending) and "ready".    *)
(* The render an event causes runs pending effects first and its own       *)
(* effects before the next event, so every handled event ends "ready".     *)
(* Widths are tenths of a CSS pixel: a zoomed window has a fraction of one. *)
(***************************************************************************)
EXTENDS Integers

CONSTANTS Providers,    \* the SidebarProviders of all pages
          Trees,        \* the sets of providers a page mounts together
          Earlier,      \* pairs <<p, q>>: the effects of p run before those of q
          Mode,         \* how the consumer passes `open` and `onOpenChange`
          Collapsible,  \* the `collapsible` of the Sidebar in each provider
          Clicks,       \* per provider: {} without a trigger or a rail, {FALSE} with one,
                        \* BOOLEAN with one whose own onClick may toggle too
          CollapsedAction, \* the providers with an onCollapsedAction
          DefaultOpen,  \* `defaultOpen`, and the first `open` of a parent
          Widths,       \* bound: the widths of the window
          NoProvider    \* in the place of a provider

(* own: neither prop.  controlled: both, the parent accepts what it is told. *)
(* refusing: both, the parent keeps its value.  listener: only onOpenChange. *)
(* fixed: only open.                                                         *)
Modes == {"own", "controlled", "refusing", "listener", "fixed"}

ASSUME SidebarAssumption ==
  /\ Trees \subseteq SUBSET Providers
  /\ Earlier \subseteq Providers \X Providers
  /\ Mode \in [Providers -> Modes]
  /\ Collapsible \in [Providers -> {"offcanvas", "icon", "none"}]
  /\ Clicks \in [Providers -> SUBSET BOOLEAN]
  /\ CollapsedAction \subseteq Providers
  /\ DefaultOpen \in [Providers -> BOOLEAN]
  /\ Widths \subseteq Nat
  /\ NoProvider \notin Providers

VARIABLES
  width,      \* of the window
  edge,       \* history: a fraction above 767 since the query last changed
  tree,       \* the mounted providers
  phase,      \* how far React is with the tree
  inner,      \* _open
  parent,     \* the `open` the parent holds
  openMobile, \* openMobile
  mobile,     \* the state of useIsMobile
  listeners,  \* on the window: a handler and what it captured
  before,     \* pairs <<p, q>>: the listener of p runs before that of q
  cookie,     \* sidebar_state: {} or the value it holds
  lastWriter  \* history: the mounted provider that wrote it last

viewVars   == <<width, edge>>
stateVars  == <<inner, parent, openMobile, mobile>>
windowVars == <<listeners, before>>
cookieVars == <<cookie, lastWriter>>
sidebarVars == <<viewVars, tree, phase, stateVars, windowVars, cookieVars>>

Listener == [owner : Providers, live : BOOLEAN, open : BOOLEAN, mobile : BOOLEAN]

TypeOK ==
  /\ width \in Widths /\ edge \in BOOLEAN
  /\ tree \in SUBSET Providers
  /\ phase \in {"committed", "measured", "ready"}
  /\ inner \in [Providers -> BOOLEAN] /\ parent \in [Providers -> BOOLEAN]
  /\ openMobile \in [Providers -> BOOLEAN] /\ mobile \in [Providers -> BOOLEAN]
  /\ listeners \subseteq Listener
  /\ before \subseteq Providers \X Providers
  /\ cookie \in {{}, {TRUE}, {FALSE}}
  /\ lastWriter \in Providers \cup {NoProvider}
-----------------------------------------------------------------------------
(* The window: innerWidth is a whole number, the media query is not rounded. *)
MobileBreakpoint == 768
Narrow(w) == w \div 10 < MobileBreakpoint

QueryOneTooWide(w) == w <= 10 * MobileBreakpoint
Query(w) == w <= 10 * (MobileBreakpoint - 1)

(* `md:block`, the only way the desktop sidebar is shown *)
Desktop(w) == w >= 10 * MobileBreakpoint

(* What a provider renders with *)
Open(p) == IF Mode[p] \in {"controlled", "refusing", "fixed"} THEN parent[p] ELSE inner[p]
IsMobile(p) == phase = "ready" /\ mobile[p]

SheetShown(p)   == p \in tree /\ Collapsible[p] # "none" /\ IsMobile(p) /\ openMobile[p]
DesktopShown(p) == p \in tree /\ \/ Collapsible[p] = "none"
                                 \/ ~IsMobile(p) /\ Desktop(width)

(* The closure of this render, as it stands in the context and in the effect *)
Handler(p) == [owner |-> p, live |-> TRUE, open |-> Open(p), mobile |-> IsMobile(p)]

(* The effect of [toggleSidebar].  Pending effects run first: the cleanups   *)
(* of the tree before, then the new listeners in tree order.                 *)
Registered ==
  IF phase = "committed" THEN {Handler(p) : p \in tree} ELSE listeners
RegisteredOrder ==
  IF phase = "committed" THEN {e \in Earlier : e[1] \in tree /\ e[2] \in tree} ELSE before

(* It runs again where the callback changed, after the cleanup of the old    *)
(* one, so that the listeners that changed come last.                        *)
ReboundUnlessIsMobile ==
  {p \in tree : ~\E l \in Registered : l.live /\ l.owner = p /\ l.open = Open(p)'}
Rebound == {p \in tree : Handler(p)' \notin Registered}
RebindLeavesTheOld ==
  /\ listeners' = Registered \cup {Handler(p)' : p \in Rebound}
  /\ before' = RegisteredOrder
Rebind ==
  /\ listeners' = {l \in Registered : l.owner \notin Rebound} \cup {Handler(p)' : p \in Rebound}
  /\ before' = {e \in RegisteredOrder : e[1] \notin Rebound /\ e[2] \notin Rebound}
               \cup {<<p, q>> : p \in tree \ Rebound, q \in Rebound}
               \cup {e \in Earlier : e[1] \in Rebound /\ e[2] \in Rebound}

(* useIsMobile measures when its effect runs *)
MeasuredOnlyOnChange == mobile
Measured == [p \in Providers |-> IF phase = "committed" /\ p \in tree THEN Narrow(width)
                                                                   ELSE mobile[p]]

(* The render after an event, with its effects; those pending run first *)
Rendered == phase' = "ready" /\ Rebind
-----------------------------------------------------------------------------
(* setOpen and toggleSidebar.  The handlers in `run` are called in one       *)
(* event, each one `again` more time or not.  A call on the desktop computes *)
(* the value from the `open` its closure captured, so calling twice changes  *)
(* nothing; openMobile takes an updater function, so calling twice undoes.   *)
(* A closure whose tree is gone still writes the cookie.                     *)
Sets(run, p)  == {l \in run : l.live /\ l.owner = p /\ ~l.mobile}
Flips(run, p) == {l \in run : l.live /\ l.owner = p /\ l.mobile}
Writes(run)   == {l \in run : ~l.mobile}

(* no other one writes after it *)
Final(run, l) == \A k \in Writes(run) : k = l \/ <<l.owner, k.owner>> \notin before

Told(run, p, old, modes) ==
  IF Sets(run, p) # {} /\ Mode[p] \in modes
    THEN ~(CHOOSE l \in Sets(run, p) : TRUE).open ELSE old[p]

WriteCookie(run) ==
  IF Writes(run) = {} THEN UNCHANGED cookieVars
  ELSE \E l \in Writes(run) :
         /\ Final(run, l)
         /\ cookie' = {~l.open}
         /\ lastWriter' = IF l.live THEN l.owner ELSE NoProvider

ToggleSidebarByUpdater(run, again) ==
  /\ inner' = [p \in Providers |-> IF again THEN inner[p] ELSE Told(run, p, inner, {"own", "fixed"})]
  /\ parent' = [p \in Providers |-> Told(run, p, parent, {"controlled"})]
  /\ openMobile' = [p \in Providers |->
                      IF Flips(run, p) # {} /\ ~again THEN ~openMobile[p] ELSE openMobile[p]]
  /\ WriteCookie(run)
ToggleSidebar(run, again) ==
  /\ inner' = [p \in Providers |-> Told(run, p, inner, {"own", "fixed"})]
  /\ parent' = [p \in Providers |-> Told(run, p, parent, {"controlled"})]
  /\ openMobile' = [p \in Providers |->
                      IF Flips(run, p) # {} /\ ~again THEN ~openMobile[p] ELSE openMobile[p]]
  /\ WriteCookie(run)

(* Ctrl+B or Meta+B: every listener on the window runs.  Those of a tree     *)
(* that is gone change no state, so they cause no render.                    *)
Shortcut ==
  /\ listeners # {}
  /\ ToggleSidebar(listeners, FALSE)
  /\ mobile' = mobile
  /\ IF \E l \in listeners : l.live THEN Rendered ELSE UNCHANGED <<phase, windowVars>>
  /\ UNCHANGED <<viewVars, tree>>

(* A click on the trigger or the rail; `again`: the consumer's own onClick   *)
(* toggles too, before the trigger does.                                     *)
Click(p, again) ==
  /\ p \in tree /\ again \in Clicks[p]
  /\ ToggleSidebar({Handler(p)}, again)
  /\ mobile' = Measured
  /\ Rendered
  /\ UNCHANGED <<viewVars, tree>>

(* The sheet asks to close: Escape, or a press outside of it *)
CloseSheet(p) ==
  /\ SheetShown(p)
  /\ openMobile' = [openMobile EXCEPT ![p] = FALSE]
  /\ UNCHANGED <<viewVars, tree, inner, parent, mobile, cookieVars>>
  /\ Rendered

(* A menu button inside the sidebar: where the desktop bar is collapsed, the *)
(* collapsed action runs in the place of onClick.  Here it is the usual one, *)
(* setOpen(true).                                                            *)
Press(p) ==
  /\ p \in CollapsedAction
  /\ SheetShown(p) \/ DesktopShown(p)
  /\ ~Open(p)
  /\ inner' = IF Mode[p] \in {"own", "fixed"} THEN [inner EXCEPT ![p] = TRUE] ELSE inner
  /\ parent' = IF Mode[p] = "controlled" THEN [parent EXCEPT ![p] = TRUE] ELSE parent
  /\ cookie' = {TRUE} /\ lastWriter' = p
  /\ mobile' = Measured
  /\ UNCHANGED <<viewVars, tree, openMobile>>
  /\ Rendered

(* Any other event React handles renders too *)
OtherEvent ==
  /\ mobile' = Measured
  /\ UNCHANGED <<viewVars, tree, inner, parent, openMobile, cookieVars>>
  /\ Rendered

(* A parent that holds `open` changes it by itself *)
ParentSets(p) ==
  /\ p \in tree /\ Mode[p] \in {"controlled", "refusing", "fixed"}
  /\ parent' = [parent EXCEPT ![p] = ~parent[p]]
  /\ mobile' = Measured
  /\ UNCHANGED <<viewVars, tree, inner, openMobile, cookieVars>>
  /\ Rendered

(* The window is resized.  The listener of useIsMobile hears a change of the *)
(* media query, not of the width, and measures then.                         *)
Resize(w) ==
  /\ w # width
  /\ width' = w
  /\ edge' = ((~Query(w) /\ ~Desktop(w)) \/ (edge /\ Query(w) = Query(width)))
  /\ UNCHANGED <<tree, inner, parent, openMobile, cookieVars>>
  /\ IF Query(w) # Query(width) /\ phase # "committed"
       THEN /\ mobile' = [p \in Providers |-> IF p \in tree THEN Narrow(w) ELSE mobile[p]]
            /\ Rendered
       ELSE UNCHANGED <<mobile, phase, windowVars>>
-----------------------------------------------------------------------------
(* React replaces the tree: state starts again, the window keeps the old     *)
(* listeners until the effects of the new tree run.                          *)
FreshState(S) ==
  /\ tree' = S
  /\ phase' = "committed"
  /\ inner' = DefaultOpen
  /\ parent' = DefaultOpen
  /\ openMobile' = [p \in Providers |-> FALSE]
  /\ mobile' = [p \in Providers |-> FALSE]
  /\ lastWriter' = NoProvider

Mount(S) ==
  /\ FreshState(S)
  /\ listeners' = {[l EXCEPT !.live = FALSE] : l \in listeners}
  /\ UNCHANGED <<viewVars, before, cookie>>

(* The document is loaded again: only the cookie is left *)
Load(S) ==
  /\ FreshState(S)
  /\ listeners' = {} /\ before' = {}
  /\ UNCHANGED <<viewVars, cookie>>

FlushEffects ==
  /\ phase = "committed"
  /\ phase' = "measured"
  /\ mobile' = Measured
  /\ UNCHANGED <<viewVars, tree, inner, parent, openMobile, cookieVars>>
  /\ Rebind

Settle ==
  /\ phase = "measured"
  /\ UNCHANGED <<viewVars, tree, stateVars, cookieVars>>
  /\ Rendered

Init ==
  /\ width \in Widths /\ edge = (~Query(width) /\ ~Desktop(width))
  /\ tree \in Trees /\ phase = "committed"
  /\ inner = DefaultOpen /\ parent = DefaultOpen
  /\ openMobile = [p \in Providers |-> FALSE]
  /\ mobile = [p \in Providers |-> FALSE]
  /\ listeners = {} /\ before = {}
  /\ cookie = {} /\ lastWriter = NoProvider

Next ==
  \/ \E S \in Trees : Mount(S) \/ Load(S)
  \/ FlushEffects \/ Settle
  \/ Shortcut \/ OtherEvent
  \/ \E p \in Providers : CloseSheet(p) \/ ParentSets(p) \/ Press(p)
                          \/ \E again \in BOOLEAN : Click(p, again)
  \/ \E w \in Widths : Resize(w)

Spec == Init /\ [][Next]_sidebarVars /\ WF_sidebarVars(FlushEffects) /\ WF_sidebarVars(Settle)
-----------------------------------------------------------------------------
(* Once the effects of a tree have run, each of its providers has exactly    *)
(* one listener on the window, which captured what the provider now shows:   *)
(* the cleanup of the effect at sidebar.tsx:100 leaves nothing behind and    *)
(* its dependency list misses no change.                                     *)
FreshHandlers == phase # "committed" => listeners = {Handler(p) : p \in tree}

(* A mounted provider that keeps its own `open` and was the last to write    *)
(* the cookie shows what the cookie says, however many providers answered    *)
(* the same key press and in whatever order.                                 *)
CookieOfLastWriter ==
  \A p \in tree : lastWriter = p /\ Mode[p] = "own" => cookie = {Open(p)}

(* Every provider whose hook has measured says "mobile" while the media      *)
(* query of use-mobile.ts matches.  It says so on a wider window only if the *)
(* width has been between 767 and 768 pixels since the query last changed.   *)
HookFollowsViewport ==
  phase # "committed" =>
    \A p \in tree : /\ Query(width) => mobile[p]
                    /\ mobile[p] /\ ~Query(width) => edge

(* While every provider shows its phone layout no event writes the cookie:   *)
(* no stale handler takes a phone for a desktop.  The one that does so is    *)
(* the collapsed action of a menu button, which minds the bar of the desktop *)
(* even where that is out of sight.                                          *)
PhoneLeavesTheCookie ==
  [][tree # {} /\ (\A p \in tree : IsMobile(p))
       => cookie' = cookie \/ \E p \in tree : Press(p)]_sidebarVars

(* On a window as narrow as a phone every provider comes to show its phone   *)
(* layout, unless the window widens or the page goes first: it is rendered   *)
(* as on a desktop, and measured only when its effects run.                  *)
PhoneLayoutComes ==
  \A p \in Providers :
    p \in tree /\ Query(width) ~> p \notin tree \/ ~Query(width) \/ IsMobile(p)
=============================================================================
