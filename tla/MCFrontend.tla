----------------------------- MODULE MCFrontend -----------------------------
(***************************************************************************)
(* The gallery is the one of the repository; the pages Controlled, Own and *)
(* Listener, and the table, stand for consumers to come.                   *)
(***************************************************************************)
EXTENDS Browser, Display, TLC

CONSTANTS appShell, sidebar, controlled, own, listener, a, b, c

MCProviders == {appShell, sidebar, controlled, own, listener}
MCPages == {"Home", "Gallery", "Error", "Controlled", "Own", "Listener"}
MCPageTree == [q \in MCPages |->
  CASE q = "Gallery"    -> {appShell, sidebar}
    [] q = "Controlled" -> {controlled}
    [] q = "Own"        -> {own}
    [] q = "Listener"   -> {listener}
    [] OTHER            -> {}]
MCTrees == {MCPageTree[q] : q \in MCPages}
MCEarlier == {<<appShell, sidebar>>}
Consumer(how, open) == [mode |-> how, defaultOpen |-> open, collapsible |-> "icon", clicks |-> BOOLEAN]
Mounted == (appShell :> GalleryAppShell) @@ (sidebar :> GallerySidebar)
           @@ (controlled :> Consumer("controlled", TRUE)) @@ (own :> Consumer("own", TRUE))
           @@ (listener :> Consumer("listener", FALSE))
MCMode == [p \in MCProviders |-> Mounted[p].mode]
MCCollapsible == [p \in MCProviders |-> Mounted[p].collapsible]
MCClicks == [p \in MCProviders |-> Mounted[p].clicks]
MCDefaultOpen == [p \in MCProviders |-> Mounted[p].defaultOpen]
MCCollapsedAction == {controlled}
MCWidths == {7670, 7675, 7680, 7690}
MCBundle == <<MCPages \ {"Listener"}, MCPages \ {"Own"}>>

MCRecords == {a, b, c}
MCContents == {<<a, b, c>>, <<b, c>>, <<c, a>>, <<>>}
MCSortKey == (a :> 2) @@ (b :> 1) @@ (c :> 2)
MCPasses == [all |-> MCRecords, some |-> {b, c}]
-----------------------------------------------------------------------------
(* The scenes that are not chosen start, and stay, in one state. *)
MCInit ==
  /\ BrowserInit
  /\ scene # "app" => page = "Home" /\ width = 7690
  /\ scene # "table" => data = <<>> /\ loading
  /\ scene # "control" => control = "toggle" /\ on /\ initial = 1 /\ chosen = NoValue

MCSpec == MCInit /\ [][BrowserNext]_allVars /\ BrowserFairness
-----------------------------------------------------------------------------
(* field.tsx: each message that says something is listed once, and an alert  *)
(* without a message appears only for two ways of saying nothing.            *)
Lists == UNION {[1 .. n -> {Undefined, "", "one", "two"}] : n \in 0 .. 4}
ASSUME FieldErrorReference ==
  \A errors \in Lists :
    LET said == {errors[i] : i \in DOMAIN errors} \ {Undefined, ""}
    IN  /\ FieldErrorItems(errors) = said
        /\ said # {} => FieldErrorAlert(errors)
        /\ FieldErrorAlert(errors) /\ said = {} =>
             {Undefined, ""} \subseteq {errors[i] : i \in DOMAIN errors}
        /\ \A i \in UniqueErrors(errors) : \A j \in DOMAIN errors : errors[j] = errors[i] => i <= j

(* notifications.tsx: without a count of the consumer the badge is there     *)
(* exactly when some entry has its mark; a count of zero hides it.           *)
ASSUME BadgeReference ==
  /\ \A read \in UNION {[1 .. n -> BOOLEAN] : n \in 0 .. 4} :
       /\ Badge(TotalUnread(Undefined, read)).shown = (Marked(read) # {})
       /\ ~Badge(TotalUnread(0, read)).shown
  /\ ~Badge(99).plus /\ Badge(100).plus

(* profile.tsx: one or two letters, the first of the name first *)
ASSUME InitialsReference ==
  \A words \in UNION {[1 .. n -> {<<"x">>, <<"y", "z">>}] : n \in 0 .. 3} :
    /\ Len(Initials(words)) \in 1 .. 2
    /\ words # <<>> => Head(Initials(words)) = Head(Head(words))
    /\ Fallback(Undefined, words) = Initials(words) /\ Fallback("", words) = ""
=============================================================================
