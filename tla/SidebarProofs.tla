--------------------------- MODULE SidebarProofs ---------------------------
(***************************************************************************)
(* What the sidebars of a page guarantee, for any providers, pages, widths *)
(* and ways to pass `open`.                                                *)
(***************************************************************************)
EXTENDS Sidebar, TLAPS

-----------------------------------------------------------------------------
(***************************************************************************)
(* Types.                                                                  *)
(***************************************************************************)

LEMMA OpenIsBoolean == ASSUME TypeOK, NEW p \in Providers
                       PROVE  Open(p) \in BOOLEAN /\ IsMobile(p) \in BOOLEAN
BY DEF TypeOK, Open, IsMobile

LEMMA HandlersAreListeners == TypeOK => {Handler(p) : p \in tree} \subseteq Listener
<1> SUFFICES ASSUME TypeOK, NEW p \in tree PROVE Handler(p) \in Listener
  OBVIOUS
<1> QED
  BY OpenIsBoolean DEF TypeOK, Handler, Listener

(* After a render the listeners are those of before or new ones *)
LEMMA RebindTypes ==
  ASSUME TypeOK, Rebind, tree' = tree,
         \A p \in Providers : Open(p)' \in BOOLEAN /\ IsMobile(p)' \in BOOLEAN,
         SidebarAssumption
  PROVE  listeners' \subseteq Listener /\ before' \subseteq Providers \X Providers
<1>1. Registered \subseteq Listener
  BY HandlersAreListeners DEF Registered, TypeOK
<1>2. RegisteredOrder \subseteq Providers \X Providers
  BY DEF RegisteredOrder, TypeOK, SidebarAssumption
<1>3. Rebound \subseteq Providers
  BY DEF Rebound, TypeOK
<1>4. \A p \in Rebound : Handler(p)' \in Listener
  BY <1>3 DEF Handler, Listener
<1>5. listeners' \subseteq Listener
  BY <1>1, <1>4 DEF Rebind
<1>6. before' \subseteq Providers \X Providers
  BY <1>2, <1>3 DEF Rebind, TypeOK, SidebarAssumption
<1> QED
  BY <1>5, <1>6

(* What the handlers of one event may change *)
LEMMA ToggleTypes ==
  ASSUME TypeOK, NEW run, run \subseteq Listener, NEW again \in BOOLEAN,
         ToggleSidebar(run, again)
  PROVE  /\ inner' \in [Providers -> BOOLEAN] /\ parent' \in [Providers -> BOOLEAN]
         /\ openMobile' \in [Providers -> BOOLEAN]
         /\ cookie' \in {{}, {TRUE}, {FALSE}} /\ lastWriter' \in Providers \cup {NoProvider}
<1>1. ASSUME NEW p \in Providers, NEW old \in [Providers -> BOOLEAN], NEW modes
      PROVE  Told(run, p, old, modes) \in BOOLEAN
  <2>1. Sets(run, p) # {} => (CHOOSE l \in Sets(run, p) : TRUE) \in Listener
    BY DEF Sets
  <2> QED
    BY <2>1 DEF Told, Listener
<1>2. inner' \in [Providers -> BOOLEAN] /\ parent' \in [Providers -> BOOLEAN]
  BY <1>1 DEF ToggleSidebar, TypeOK
<1>3. openMobile' \in [Providers -> BOOLEAN]
  BY DEF ToggleSidebar, TypeOK
<1>4. cookie' \in {{}, {TRUE}, {FALSE}} /\ lastWriter' \in Providers \cup {NoProvider}
  <2>1. CASE Writes(run) = {}
    BY <2>1 DEF ToggleSidebar, WriteCookie, cookieVars, TypeOK
  <2>2. CASE Writes(run) # {}
    <3>1. PICK l \in Writes(run) : /\ cookie' = {~l.open}
                                   /\ lastWriter' = IF l.live THEN l.owner ELSE NoProvider
      BY <2>2 DEF ToggleSidebar, WriteCookie
    <3>2. l.open \in BOOLEAN /\ l.owner \in Providers
      BY DEF Writes, Listener
    <3> QED
      BY <3>1, <3>2
  <2> QED
    BY <2>1, <2>2
<1> QED
  BY <1>2, <1>3, <1>4

LEMMA MeasuredTypes == TypeOK => Measured \in [Providers -> BOOLEAN]
<1> SUFFICES ASSUME TypeOK, NEW p \in Providers PROVE Measured[p] \in BOOLEAN
  BY DEF Measured
<1>1. Narrow(width) \in BOOLEAN
  BY DEF Narrow
<1> QED
  BY <1>1 DEF Measured, TypeOK

(* A render keeps the types, whatever the event set *)
LEMMA RenderTypes ==
  ASSUME TypeOK, Rendered, UNCHANGED tree,
         width' \in Widths, edge' \in BOOLEAN,
         inner' \in [Providers -> BOOLEAN], parent' \in [Providers -> BOOLEAN],
         openMobile' \in [Providers -> BOOLEAN], mobile' \in [Providers -> BOOLEAN],
         cookie' \in {{}, {TRUE}, {FALSE}}, lastWriter' \in Providers \cup {NoProvider}
  PROVE  TypeOK'
<1>1. \A p \in Providers : Open(p)' \in BOOLEAN /\ IsMobile(p)' \in BOOLEAN
  BY DEF Open, IsMobile
<1>2. listeners' \subseteq Listener /\ before' \subseteq Providers \X Providers
  BY <1>1, RebindTypes, SidebarAssumption DEF Rendered
<1> QED
  BY <1>2 DEF TypeOK, Rendered

LEMMA EdgeTypes == TypeOK => edge \in BOOLEAN /\ width \in Nat
BY SidebarAssumption DEF TypeOK, SidebarAssumption

LEMMA TypeInit == Init => TypeOK
<1> SUFFICES ASSUME Init PROVE TypeOK
  OBVIOUS
<1>1. edge \in BOOLEAN
  BY DEF Init
<1>2. listeners \subseteq Listener /\ before \subseteq Providers \X Providers
  BY DEF Init
<1> QED
  BY <1>1, <1>2, SidebarAssumption DEF Init, TypeOK, SidebarAssumption

LEMMA FreshTypes ==
  ASSUME TypeOK, NEW S \in Trees, FreshState(S), UNCHANGED viewVars, UNCHANGED cookie,
         listeners' \subseteq Listener, before' \subseteq Providers \X Providers
  PROVE  TypeOK'
BY SidebarAssumption DEF FreshState, TypeOK, SidebarAssumption, viewVars

LEMMA TypeStep == TypeOK /\ [Next]_sidebarVars => TypeOK'
<1> SUFFICES ASSUME TypeOK, [Next]_sidebarVars PROVE TypeOK'
  OBVIOUS
<1> USE DEF viewVars, cookieVars
<1>0. Measured \in [Providers -> BOOLEAN]
  BY MeasuredTypes
<1>1. CASE UNCHANGED sidebarVars
  BY <1>1 DEF sidebarVars, stateVars, windowVars, TypeOK
<1>2. ASSUME NEW S \in Trees, Mount(S) PROVE TypeOK'
  <2>1. ASSUME NEW l \in Listener PROVE [l EXCEPT !.live = FALSE] \in Listener
    BY DEF Listener
  <2>2. listeners' \subseteq Listener
    BY <1>2, <2>1 DEF Mount, TypeOK
  <2> QED
    BY <1>2, <2>2, FreshTypes DEF Mount, TypeOK
<1>3. ASSUME NEW S \in Trees, Load(S) PROVE TypeOK'
  BY <1>3, FreshTypes DEF Load
<1>4. CASE FlushEffects
  <2>1. \A p \in Providers : Open(p)' \in BOOLEAN /\ IsMobile(p)' \in BOOLEAN
    BY <1>4 DEF FlushEffects, Open, IsMobile, TypeOK
  <2>2. listeners' \subseteq Listener /\ before' \subseteq Providers \X Providers
    BY <1>4, <2>1, RebindTypes, SidebarAssumption DEF FlushEffects
  <2> QED
    BY <1>0, <1>4, <2>2 DEF FlushEffects, TypeOK
<1>5. CASE Settle
  BY <1>5, RenderTypes DEF Settle, TypeOK, stateVars
<1>6. CASE Shortcut
  <2>1. /\ inner' \in [Providers -> BOOLEAN] /\ parent' \in [Providers -> BOOLEAN]
        /\ openMobile' \in [Providers -> BOOLEAN]
        /\ cookie' \in {{}, {TRUE}, {FALSE}} /\ lastWriter' \in Providers \cup {NoProvider}
    BY <1>6, ToggleTypes DEF Shortcut, TypeOK
  <2>2. CASE Rendered
    BY <1>6, <2>1, <2>2, RenderTypes DEF Shortcut, TypeOK
  <2>3. CASE UNCHANGED <<phase, windowVars>>
    BY <1>6, <2>1, <2>3 DEF Shortcut, TypeOK, windowVars
  <2> QED
    BY <1>6, <2>2, <2>3 DEF Shortcut
<1>7. CASE OtherEvent
  BY <1>0, <1>7, RenderTypes DEF OtherEvent, TypeOK
<1>8. ASSUME NEW p \in Providers, CloseSheet(p) PROVE TypeOK'
  BY <1>8, RenderTypes DEF CloseSheet, TypeOK
<1>9. ASSUME NEW p \in Providers, ParentSets(p) PROVE TypeOK'
  BY <1>0, <1>9, RenderTypes DEF ParentSets, TypeOK
<1>10. ASSUME NEW p \in Providers, Press(p) PROVE TypeOK'
  <2>1. inner' \in [Providers -> BOOLEAN] /\ parent' \in [Providers -> BOOLEAN]
    BY <1>10 DEF Press, TypeOK
  <2> QED
    BY <1>0, <1>10, <2>1, RenderTypes DEF Press, TypeOK
<1>11. ASSUME NEW p \in Providers, NEW again \in BOOLEAN, Click(p, again) PROVE TypeOK'
  <2>1. {Handler(p)} \subseteq Listener
    BY <1>11, HandlersAreListeners DEF Click
  <2>2. /\ inner' \in [Providers -> BOOLEAN] /\ parent' \in [Providers -> BOOLEAN]
        /\ openMobile' \in [Providers -> BOOLEAN]
        /\ cookie' \in {{}, {TRUE}, {FALSE}} /\ lastWriter' \in Providers \cup {NoProvider}
    BY <1>11, <2>1, ToggleTypes DEF Click
  <2> QED
    BY <1>0, <1>11, <2>2, RenderTypes DEF Click, TypeOK
<1>12. ASSUME NEW w \in Widths, Resize(w) PROVE TypeOK'
  <2>1. width' \in Widths /\ edge' \in BOOLEAN
    BY <1>12 DEF Resize, TypeOK
  <2>2. CASE Query(w) # Query(width) /\ phase # "committed"
    <3>1. Narrow(w) \in BOOLEAN
      BY DEF Narrow
    <3>2. mobile' \in [Providers -> BOOLEAN]
      BY <1>12, <2>2, <3>1 DEF Resize, TypeOK
    <3> QED
      BY <1>12, <2>1, <2>2, <3>2, RenderTypes DEF Resize, TypeOK
  <2>3. CASE ~(Query(w) # Query(width) /\ phase # "committed")
    BY <1>12, <2>1, <2>3 DEF Resize, TypeOK, windowVars
  <2> QED
    BY <2>2, <2>3
<1> QED
  BY <1>1, <1>2, <1>3, <1>4, <1>5, <1>6, <1>7, <1>8, <1>9, <1>10, <1>11, <1>12 DEF Next

(* The sidebars without their fairness *)
SafeSpec == Init /\ [][Next]_sidebarVars

(* Providers, listeners and cookie keep their types. *)
THEOREM SidebarTypes == SafeSpec => []TypeOK
<1>1. Init => TypeOK
  BY TypeInit
<1>2. TypeOK /\ [Next]_sidebarVars => TypeOK'
  BY TypeStep
<1> QED
  BY <1>1, <1>2, PTL DEF SafeSpec
-----------------------------------------------------------------------------
(***************************************************************************)
(* The listeners on the window.                                            *)
(***************************************************************************)

(* Before the effects run, all that is on the window is of a tree that is gone *)
DeadUntilFlush == phase = "committed" => \A l \in listeners : ~l.live

HandlersInv == FreshHandlers /\ DeadUntilFlush

LEMMA RegisteredFresh == FreshHandlers => Registered = {Handler(p) : p \in tree}
BY DEF FreshHandlers, Registered

LEMMA RebindFresh ==
  ASSUME Registered = {Handler(p) : p \in tree}, Rebind, tree' = tree
  PROVE  listeners' = {Handler(p)' : p \in tree}
<1>1. \A p \in tree : Handler(p).owner = p /\ Handler(p)'.owner = p
  BY DEF Handler
<1>2. \A p \in tree \ Rebound : Handler(p)' = Handler(p)
  BY <1>1 DEF Rebound
<1>3. \A l \in Registered : l.owner \notin Rebound => l \in {Handler(p)' : p \in tree}
  BY <1>1, <1>2
<1>4. \A p \in tree \ Rebound : Handler(p)' \in Registered /\ Handler(p)'.owner \notin Rebound
  BY <1>1, <1>2
<1>5. Rebound \subseteq tree
  BY DEF Rebound
<1> QED
  BY <1>3, <1>4, <1>5 DEF Rebind

LEMMA RenderFresh ==
  ASSUME FreshHandlers, Rendered, tree' = tree
  PROVE  HandlersInv'
<1>1. listeners' = {Handler(p)' : p \in tree}
  BY RegisteredFresh, RebindFresh DEF Rendered
<1> QED
  BY <1>1 DEF HandlersInv, FreshHandlers, DeadUntilFlush, Rendered

LEMMA HandlersStep == TypeOK /\ HandlersInv /\ [Next]_sidebarVars => HandlersInv'
<1> SUFFICES ASSUME TypeOK, HandlersInv, [Next]_sidebarVars PROVE HandlersInv'
  OBVIOUS
<1> USE DEF viewVars, cookieVars, HandlersInv
<1>1. CASE UNCHANGED sidebarVars
  BY <1>1 DEF sidebarVars, stateVars, windowVars, FreshHandlers, DeadUntilFlush, Handler, Open,
              IsMobile
<1>2. ASSUME NEW S \in Trees, Mount(S) PROVE HandlersInv'
  <2>1. ASSUME NEW l \in listeners PROVE ~[l EXCEPT !.live = FALSE].live
    BY DEF TypeOK, Listener
  <2> QED
    BY <1>2, <2>1 DEF Mount, FreshState, FreshHandlers, DeadUntilFlush
<1>3. ASSUME NEW S \in Trees, Load(S) PROVE HandlersInv'
  BY <1>3 DEF Load, FreshState, FreshHandlers, DeadUntilFlush
<1>4. CASE FlushEffects
  <2>1. listeners' = {Handler(p)' : p \in tree}
    BY <1>4, RegisteredFresh, RebindFresh DEF FlushEffects
  <2> QED
    BY <1>4, <2>1 DEF FlushEffects, FreshHandlers, DeadUntilFlush
<1>5. CASE Settle
  BY <1>5, RenderFresh DEF Settle
<1>6. CASE Shortcut
  <2>1. CASE \E l \in listeners : l.live
    BY <1>6, <2>1, RenderFresh DEF Shortcut
  <2>2. CASE ~\E l \in listeners : l.live
    <3>1. phase = "committed"
      <4>1. \A p \in tree : Handler(p).live
        BY DEF Handler
      <4> QED
        BY <1>6, <2>2, <4>1 DEF Shortcut, FreshHandlers
    <3> QED
      BY <1>6, <2>2, <3>1 DEF Shortcut, windowVars, FreshHandlers, DeadUntilFlush
  <2> QED
    BY <2>1, <2>2
<1>7. CASE OtherEvent
  BY <1>7, RenderFresh DEF OtherEvent
<1>8. ASSUME NEW p \in Providers, CloseSheet(p) PROVE HandlersInv'
  BY <1>8, RenderFresh DEF CloseSheet
<1>9. ASSUME NEW p \in Providers, ParentSets(p) PROVE HandlersInv'
  BY <1>9, RenderFresh DEF ParentSets
<1>10. ASSUME NEW p \in Providers, Press(p) PROVE HandlersInv'
  BY <1>10, RenderFresh DEF Press
<1>11. ASSUME NEW p \in Providers, NEW again \in BOOLEAN, Click(p, again) PROVE HandlersInv'
  BY <1>11, RenderFresh DEF Click
<1>12. ASSUME NEW w \in Widths, Resize(w) PROVE HandlersInv'
  <2>1. CASE Query(w) # Query(width) /\ phase # "committed"
    BY <1>12, <2>1, RenderFresh DEF Resize
  <2>2. CASE ~(Query(w) # Query(width) /\ phase # "committed")
    BY <1>12, <2>2 DEF Resize, windowVars, FreshHandlers, DeadUntilFlush, Handler, Open, IsMobile
  <2> QED
    BY <2>1, <2>2
<1> QED
  BY <1>1, <1>2, <1>3, <1>4, <1>5, <1>6, <1>7, <1>8, <1>9, <1>10, <1>11, <1>12 DEF Next

LEMMA HandlersInvariant == SafeSpec => []HandlersInv
<1>1. Init => HandlersInv
  BY DEF Init, HandlersInv, FreshHandlers, DeadUntilFlush
<1> QED
  BY <1>1, HandlersStep, SidebarTypes, PTL DEF SafeSpec

(* In every state after the effects of a page have run, the window has one   *)
(* listener for each of its providers, up to date, and no other.             *)
THEOREM HandlersAlwaysFresh == SafeSpec => []FreshHandlers
<1>1. HandlersInv => FreshHandlers
  BY DEF HandlersInv
<1> QED
  BY <1>1, HandlersInvariant, PTL
-----------------------------------------------------------------------------
(***************************************************************************)
(* The phone layout.                                                       *)
(***************************************************************************)

(* A width between the two breakpoints is remembered *)
EdgeRemembered == ~Query(width) /\ ~Desktop(width) => edge

ViewportInv == HookFollowsViewport /\ EdgeRemembered

(* What useIsMobile measures is what its media query says, but for those widths *)
LEMMA MeasureVersusQuery ==
  ASSUME NEW w \in Nat
  PROVE  (Query(w) => Narrow(w)) /\ (Narrow(w) => Query(w) \/ ~Desktop(w))
BY DEF Query, Narrow, Desktop, MobileBreakpoint

LEMMA MeasuredFollows ==
  ASSUME TypeOK, ViewportInv, NEW p \in tree
  PROVE  /\ Query(width) => Measured[p]
         /\ Measured[p] /\ ~Query(width) => edge
<1>1. width \in Nat /\ p \in Providers
  BY EdgeTypes DEF TypeOK
<1>2. CASE phase = "committed"
  <2>1. Measured[p] = Narrow(width)
    BY <1>1, <1>2 DEF Measured
  <2> QED
    BY <1>1, <2>1, MeasureVersusQuery DEF ViewportInv, EdgeRemembered
<1>3. CASE phase # "committed"
  <2>1. Measured[p] = mobile[p]
    BY <1>1, <1>3 DEF Measured
  <2> QED
    BY <1>3, <2>1 DEF ViewportInv, HookFollowsViewport
<1> QED
  BY <1>2, <1>3

LEMMA MeasuringStep ==
  ASSUME TypeOK, ViewportInv, mobile' = Measured, UNCHANGED <<tree, width, edge>>
  PROVE  ViewportInv'
<1>1. EdgeRemembered'
  BY DEF ViewportInv, EdgeRemembered, Query, Desktop
<1>2. HookFollowsViewport'
  BY MeasuredFollows DEF HookFollowsViewport, Query
<1> QED
  BY <1>1, <1>2 DEF ViewportInv

LEMMA KeepingStep ==
  ASSUME ViewportInv, UNCHANGED <<mobile, tree, width, edge>>,
         phase = "committed" => phase' = "committed"
  PROVE  ViewportInv'
BY DEF ViewportInv, HookFollowsViewport, EdgeRemembered, Query, Desktop

LEMMA ViewportStep ==
  TypeOK /\ HandlersInv /\ ViewportInv /\ [Next]_sidebarVars => ViewportInv'
<1> SUFFICES ASSUME TypeOK, HandlersInv, ViewportInv, [Next]_sidebarVars PROVE ViewportInv'
  OBVIOUS
<1> USE DEF viewVars
<1>1. CASE UNCHANGED sidebarVars
  BY <1>1, KeepingStep DEF sidebarVars, stateVars
<1>2. ASSUME NEW S \in Trees, Mount(S) \/ Load(S) PROVE ViewportInv'
  BY <1>2 DEF Mount, Load, FreshState, ViewportInv, HookFollowsViewport, EdgeRemembered, Query,
              Desktop
<1>3. CASE FlushEffects
  BY <1>3, MeasuringStep DEF FlushEffects
<1>4. CASE Settle
  BY <1>4, KeepingStep DEF Settle, stateVars
<1>5. CASE Shortcut
  <2>1. phase = "committed" => phase' = "committed"
    BY <1>5 DEF Shortcut, HandlersInv, DeadUntilFlush
  <2> QED
    BY <1>5, <2>1, KeepingStep DEF Shortcut
<1>6. CASE OtherEvent
  BY <1>6, MeasuringStep DEF OtherEvent
<1>7. ASSUME NEW p \in Providers, CloseSheet(p) PROVE ViewportInv'
  BY <1>7, KeepingStep DEF CloseSheet, SheetShown, IsMobile
<1>8. ASSUME NEW p \in Providers, ParentSets(p) PROVE ViewportInv'
  BY <1>8, MeasuringStep DEF ParentSets
<1>9. ASSUME NEW p \in Providers, Press(p) PROVE ViewportInv'
  BY <1>9, MeasuringStep DEF Press
<1>10. ASSUME NEW p \in Providers, NEW again \in BOOLEAN, Click(p, again) PROVE ViewportInv'
  BY <1>10, MeasuringStep DEF Click
<1>11. ASSUME NEW w \in Widths, Resize(w) PROVE ViewportInv'
  <2>1. w \in Nat /\ width' = w /\ tree' = tree
    BY <1>11, SidebarAssumption DEF Resize, SidebarAssumption
  <2>2. EdgeRemembered'
    BY <1>11 DEF Resize, EdgeRemembered, Query, Desktop
  <2>3. CASE Query(w) # Query(width) /\ phase # "committed"
    <3>1. \A p \in tree : mobile'[p] = Narrow(w)
      BY <1>11, <2>3 DEF Resize, TypeOK
    <3>2. \A p \in tree : /\ Query(w) => mobile'[p]
                          /\ mobile'[p] /\ ~Query(w) => ~Desktop(w)
      BY <2>1, <3>1, MeasureVersusQuery
    <3>3. ~Query(w) /\ ~Desktop(w) => edge'
      BY <2>1, <2>2 DEF EdgeRemembered, Query, Desktop
    <3>4. HookFollowsViewport'
      BY <2>1, <3>2, <3>3 DEF HookFollowsViewport, Query
    <3> QED
      BY <2>2, <3>4 DEF ViewportInv
  <2>4. CASE Query(w) = Query(width) /\ phase # "committed"
    <3>1. mobile' = mobile /\ phase' = phase /\ (edge => edge')
      BY <1>11, <2>4 DEF Resize
    <3>2. HookFollowsViewport'
      BY <2>1, <2>4, <3>1 DEF ViewportInv, HookFollowsViewport, Query
    <3> QED
      BY <2>2, <3>2 DEF ViewportInv
  <2>5. CASE phase = "committed"
    BY <1>11, <2>2, <2>5 DEF Resize, ViewportInv, HookFollowsViewport
  <2> QED
    BY <2>3, <2>4, <2>5
<1> QED
  BY <1>1, <1>2, <1>3, <1>4, <1>5, <1>6, <1>7, <1>8, <1>9, <1>10, <1>11 DEF Next

(* The hook agrees with the media query once it has measured, for any widths *)
(* but those between the two breakpoints.                                    *)
THEOREM HookAlwaysFollows == SafeSpec => []HookFollowsViewport
<1>1. Init => ViewportInv
  BY DEF Init, ViewportInv, HookFollowsViewport, EdgeRemembered
<1>2. ViewportInv => HookFollowsViewport
  BY DEF ViewportInv
<1> QED
  BY <1>1, <1>2, ViewportStep, SidebarTypes, HandlersInvariant, PTL DEF SafeSpec
-----------------------------------------------------------------------------
(***************************************************************************)
(* The cookie.                                                             *)
(***************************************************************************)

(* One handler, or those of the window, called in one event *)
Consistent(run) == \A l \in run : l.live => l.owner \in tree /\ l = Handler(l.owner)

LEMMA ListenersConsistent == TypeOK /\ HandlersInv => Consistent(listeners)
<1> SUFFICES ASSUME TypeOK, HandlersInv, NEW l \in listeners, l.live
             PROVE  l.owner \in tree /\ l = Handler(l.owner)
  BY DEF Consistent
<1>1. phase # "committed"
  BY DEF HandlersInv, DeadUntilFlush
<1>2. PICK p \in tree : l = Handler(p)
  BY <1>1 DEF HandlersInv, FreshHandlers
<1>3. Handler(p).owner = p
  BY DEF Handler
<1> QED
  BY <1>2, <1>3

LEMMA ToggleKeepsCookie ==
  ASSUME TypeOK, CookieOfLastWriter, NEW run, run \subseteq Listener, Consistent(run),
         NEW again, ToggleSidebar(run, again), tree' = tree
  PROVE  CookieOfLastWriter'
<1> SUFFICES ASSUME NEW p \in tree, lastWriter' = p, Mode[p] = "own"
             PROVE  cookie' = {inner'[p]}
  BY DEF CookieOfLastWriter, Open
<1>1. p \in Providers /\ p # NoProvider
  BY SidebarAssumption DEF TypeOK, SidebarAssumption
<1>2. inner'[p] = IF Sets(run, p) # {} THEN ~(CHOOSE l \in Sets(run, p) : TRUE).open ELSE inner[p]
  BY <1>1 DEF ToggleSidebar, Told
<1>3. CASE Writes(run) = {}
  <2>1. Sets(run, p) = {}
    BY <1>3 DEF Sets, Writes
  <2>2. cookie' = cookie /\ lastWriter' = lastWriter
    BY <1>3 DEF ToggleSidebar, WriteCookie, cookieVars
  <2> QED
    BY <1>2, <2>1, <2>2 DEF CookieOfLastWriter, Open
<1>4. CASE Writes(run) # {}
  <2>1. PICK l \in Writes(run) : /\ cookie' = {~l.open}
                                 /\ lastWriter' = IF l.live THEN l.owner ELSE NoProvider
    BY <1>4 DEF ToggleSidebar, WriteCookie
  <2>2. l \in run /\ ~l.mobile /\ l.live /\ l.owner = p
    BY <1>1, <2>1 DEF Writes
  <2>3. l \in Sets(run, p)
    BY <2>2 DEF Sets
  <2>4. \A k \in Sets(run, p) : k = Handler(p)
    BY DEF Sets, Consistent
  <2>5. (CHOOSE k \in Sets(run, p) : TRUE) = l
    BY <2>3, <2>4
  <2> QED
    BY <1>2, <2>1, <2>3, <2>5
<1> QED
  BY <1>3, <1>4

LEMMA CookieStep ==
  TypeOK /\ HandlersInv /\ CookieOfLastWriter /\ [Next]_sidebarVars => CookieOfLastWriter'
<1> SUFFICES ASSUME TypeOK, HandlersInv, CookieOfLastWriter, [Next]_sidebarVars
             PROVE  CookieOfLastWriter'
  OBVIOUS
<1> USE DEF cookieVars
<1>0. ASSUME UNCHANGED <<tree, inner, cookieVars>> PROVE CookieOfLastWriter'
  BY <1>0 DEF CookieOfLastWriter, Open
<1>1. CASE UNCHANGED sidebarVars
  BY <1>0, <1>1 DEF sidebarVars, stateVars
<1>2. ASSUME NEW S \in Trees, Mount(S) \/ Load(S) PROVE CookieOfLastWriter'
  <2>1. tree' = S /\ lastWriter' = NoProvider
    BY <1>2 DEF Mount, Load, FreshState
  <2> QED
    BY <2>1, SidebarAssumption DEF CookieOfLastWriter, SidebarAssumption
<1>3. CASE FlushEffects \/ Settle \/ OtherEvent
  BY <1>0, <1>3 DEF FlushEffects, Settle, OtherEvent, stateVars
<1>4. CASE Shortcut
  BY <1>4, ToggleKeepsCookie, ListenersConsistent DEF Shortcut, TypeOK
<1>5. ASSUME NEW p \in Providers, CloseSheet(p) \/ ParentSets(p) PROVE CookieOfLastWriter'
  BY <1>0, <1>5 DEF CloseSheet, ParentSets
<1>6. ASSUME NEW p \in Providers, Press(p) PROVE CookieOfLastWriter'
  <2>1. tree' = tree /\ lastWriter' = p /\ cookie' = {TRUE}
    BY <1>6 DEF Press
  <2>2. Mode[p] = "own" => inner'[p] = TRUE
    BY <1>6 DEF Press, TypeOK
  <2> QED
    BY <2>1, <2>2 DEF CookieOfLastWriter, Open
<1>7. ASSUME NEW p \in Providers, NEW again \in BOOLEAN, Click(p, again)
      PROVE  CookieOfLastWriter'
  <2>1. {Handler(p)} \subseteq Listener /\ p \in tree
    BY <1>7, HandlersAreListeners DEF Click
  <2>2. Consistent({Handler(p)})
    BY <2>1 DEF Consistent, Handler
  <2> QED
    BY <1>7, <2>1, <2>2, ToggleKeepsCookie DEF Click
<1>8. ASSUME NEW w \in Widths, Resize(w) PROVE CookieOfLastWriter'
  BY <1>0, <1>8 DEF Resize
<1> QED
  BY <1>1, <1>2, <1>3, <1>4, <1>5, <1>6, <1>7, <1>8 DEF Next

(* The cookie says what its last writer shows, however many providers answer *)
(* one key press and in whatever order their listeners run.                  *)
THEOREM CookieAlwaysOfLastWriter == SafeSpec => []CookieOfLastWriter
<1>1. Init => CookieOfLastWriter
  BY SidebarAssumption DEF Init, CookieOfLastWriter, SidebarAssumption
<1> QED
  BY <1>1, CookieStep, SidebarTypes, HandlersInvariant, PTL DEF SafeSpec

LEMMA PhoneStep ==
  ASSUME HandlersInv, [Next]_sidebarVars,
         phase = "ready", \A p \in tree : IsMobile(p), cookie' # cookie
  PROVE  \E p \in tree : Press(p)
<1> USE DEF cookieVars
<1>1. \A p \in tree : Handler(p).mobile = IsMobile(p)
  BY DEF Handler
<1>2. ~UNCHANGED sidebarVars
  BY DEF sidebarVars
<1>3. ~Shortcut
  <2>1. ASSUME Shortcut PROVE FALSE
    <3>1. Writes(listeners) = {}
      BY <1>1 DEF HandlersInv, FreshHandlers, Writes
    <3> QED
      BY <2>1, <3>1 DEF Shortcut, ToggleSidebar, WriteCookie
  <2> QED
    BY <2>1
<1>4. ASSUME NEW p \in Providers, NEW again \in BOOLEAN, Click(p, again) PROVE FALSE
  <2>1. Writes({Handler(p)}) = {}
    BY <1>1, <1>4 DEF Click, Writes
  <2> QED
    BY <1>4, <2>1 DEF Click, ToggleSidebar, WriteCookie
<1>5. ASSUME NEW S \in Trees, Mount(S) \/ Load(S) PROVE FALSE
  BY <1>5 DEF Mount, Load
<1>6. ~FlushEffects /\ ~Settle /\ ~OtherEvent
  BY DEF FlushEffects, Settle, OtherEvent
<1>7. ASSUME NEW p \in Providers, CloseSheet(p) \/ ParentSets(p) PROVE FALSE
  BY <1>7 DEF CloseSheet, ParentSets
<1>8. ASSUME NEW w \in Widths, Resize(w) PROVE FALSE
  BY <1>8 DEF Resize
<1>9. PICK p \in Providers : Press(p)
  BY <1>2, <1>3, <1>4, <1>5, <1>6, <1>7, <1>8 DEF Next
<1>10. p \in tree
  BY <1>9 DEF Press, SheetShown, DesktopShown
<1> QED
  BY <1>9, <1>10

(* On a page whose providers all show the phone layout no stale handler      *)
(* writes the cookie of the desktop.                                         *)
THEOREM PhoneAlwaysLeavesTheCookie == SafeSpec => PhoneLeavesTheCookie
<1>1. HandlersInv /\ [Next]_sidebarVars =>
        [tree # {} /\ (\A p \in tree : IsMobile(p))
           => cookie' = cookie \/ \E p \in tree : Press(p)]_sidebarVars
  BY PhoneStep DEF IsMobile
<1> QED
  BY <1>1, HandlersInvariant, PTL DEF SafeSpec, PhoneLeavesTheCookie
=============================================================================
