--------------------------- MODULE SwarmLabProofs ---------------------------
(***************************************************************************)
(* What the guardrail of the Swarm lab guarantees, for any daemons,        *)
(* invocations and resources.                                              *)
(***************************************************************************)
EXTENDS SwarmLab, TLAPS

-----------------------------------------------------------------------------
(***************************************************************************)
(* Types.                                                                  *)
(***************************************************************************)

LEMMA ToIsDaemon == ASSUME TypeOK, NEW p \in Tool
                    PROVE  To(p) \in Daemon /\ Current(To(p)) \in Swarms
BY DEF TypeOK, To, Current, Swarms

LEMMA TypeInit == Init => TypeOK
<1> SUFFICES ASSUME Init PROVE TypeOK
  OBVIOUS
<1> USE LabAssumption DEF LabAssumption
<1>1. made \subseteq Swarms
  BY DEF Init, Current, Swarms
<1>2. <<context, 0>> \in Swarms
  BY DEF Init, Swarms
<1>3. inside \in [Daemon -> SUBSET Resource] /\ unused \subseteq Resource
  BY DEF Init
<1>4. context \in Daemon /\ active \subseteq Daemon /\ gen \in [Daemon -> 0 .. MaxSwarms]
  BY DEF Init
<1>5. /\ at \in [Tool -> Places] /\ command \in [Tool -> Commands]
      /\ host \in [Tool -> Daemon \cup {Context}]
      /\ kind \in [Tool -> 1 .. Kinds]
      /\ todo \in [Tool -> SUBSET Resource] /\ stuck \in [Tool -> BOOLEAN]
  BY DEF Init, Places, Commands
<1>6. node \in [Tool -> Swarms]
  BY <1>2 DEF Init
<1> QED
  BY <1>1, <1>3, <1>4, <1>5, <1>6 DEF Init, TypeOK

LEMMA TypeStep == TypeOK /\ [Next]_vars => TypeOK'
<1> SUFFICES ASSUME TypeOK, [Next]_vars PROVE TypeOK'
  OBVIOUS
<1> USE LabAssumption DEF LabAssumption, TypeOK, Goto, daemonVars, toolVars, historyVars
<1>1. CASE UNCHANGED vars
  BY <1>1 DEF vars
<1>2. ASSUME NEW p \in Tool, NEW c \in Commands, NEW h \in Daemon \cup {Context},
             Begin(p, c, h)
      PROVE  TypeOK'
  BY <1>2 DEF Begin, FirstPlace, Commands, Places
<1>3. ASSUME NEW p \in Tool, Up(p) PROVE TypeOK'
  <2>1. To(p) \in Daemon /\ Current(To(p)) \in Swarms
    BY ToIsDaemon
  <2>2. CASE Endpoint(p)       BY <2>2 DEF Endpoint, Places
  <2>3. CASE AlreadyOurs(p)    BY <2>3 DEF AlreadyOurs, Places
  <2>4. CASE StillInactive(p)  BY <2>4 DEF StillInactive, Places
  <2>5. CASE ReadState(p)      BY <2>5 DEF ReadState, Places
  <2>6. CASE SwarmInit(p)
    <3>1. gen'[To(p)] \in 0 .. MaxSwarms /\ gen' \in [Daemon -> 0 .. MaxSwarms]
      BY <2>1, <2>6 DEF SwarmInit, NewSwarm
    <3>2. <<To(p), gen'[To(p)]>> \in Swarms
      BY <2>1, <3>1 DEF Swarms
    <3> QED
      BY <2>1, <2>6, <3>1, <3>2 DEF SwarmInit, NewSwarm, Places
  <2>7. CASE InspectSelf(p)    BY <2>1, <2>7 DEF InspectSelf, Places
  <2>8. CASE AddLabel(p)       BY <2>8 DEF AddLabel, Places
  <2> QED
    BY <1>3, <2>2, <2>3, <2>4, <2>5, <2>6, <2>7, <2>8 DEF Up
<1>4. ASSUME NEW p \in Tool, Down(p) PROVE TypeOK'
  <2>1. To(p) \in Daemon /\ Current(To(p)) \in Swarms
    BY ToIsDaemon
  <2>2. CASE DownState(p)    BY <2>2 DEF DownState, Places
  <2>3. CASE DownAllowed(p)  BY <2>3 DEF DownAllowed, Places
  <2>4. CASE DownRefused(p)  BY <2>4 DEF DownRefused, Places
  <2>5. CASE List(p)         BY <2>1, <2>5 DEF List, Places
  <2>6. ASSUME NEW r \in Resource, Remove(p, r) PROVE TypeOK'
    BY <2>1, <2>6 DEF Remove, RemoveNext
  <2>7. ASSUME NEW r \in Resource, RemoveFails(p, r) PROVE TypeOK'
    BY <2>7 DEF RemoveFails, RemoveNext
  <2>8. CASE AllRemoved(p)   BY <2>8 DEF AllRemoved, Places
  <2>9. CASE SwarmLeave(p)   BY <2>1, <2>9 DEF SwarmLeave, Dissolve, Places
  <2> QED
    BY <1>4, <2>2, <2>3, <2>4, <2>5, <2>6, <2>7, <2>8, <2>9 DEF Down
<1>5. ASSUME NEW p \in Tool, Example(p) PROVE TypeOK'
  <2>1. CASE ExampleLab(p)  BY <2>1 DEF ExampleLab, Places
  <2>2. ASSUME NEW r \in Resource, Create(p, r) PROVE TypeOK'
    <3>1. To(p) \in Daemon
      BY ToIsDaemon
    <3> QED
      BY <2>2, <3>1 DEF Create, Places
  <2> QED
    BY <1>5, <2>1, <2>2 DEF Example
<1>6. ASSUME NEW p \in Tool, Die(p) PROVE TypeOK'
  BY <1>6 DEF Die, Places
<1>7. ASSUME NEW d \in Daemon, OtherInit(d) PROVE TypeOK'
  BY <1>7 DEF OtherInit, NewSwarm
<1>8. ASSUME NEW d \in Daemon, OtherLeave(d) PROVE TypeOK'
  BY <1>8 DEF OtherLeave, Dissolve
<1>9. ASSUME NEW d \in Daemon, UseContext(d) PROVE TypeOK'
  BY <1>9 DEF UseContext
<1> QED
  BY <1>1, <1>2, <1>3, <1>4, <1>5, <1>6, <1>7, <1>8, <1>9 DEF Next

\* The variables keep their types.
THEOREM TypeCorrect == Spec => []TypeOK
BY TypeInit, TypeStep, PTL DEF Spec

-----------------------------------------------------------------------------
(***************************************************************************)
(* Only the lab.                                                           *)
(***************************************************************************)

\* The places of `up` that come after the endpoint was judged, and those of
\* every command at which the swarm of its daemon is taken for the lab.
Judged  == {"lab", "inactive", "state", "init", "inspect", "label"}
Trusted == {"state", "init", "inspect", "label", "list", "leave"}

Trusts(p) == at[p] \in Trusted \/ (at[p] = "remove" /\ command[p] = "down")

\* Which command stands where.
CommandInv ==
  \A p \in Tool :
    /\ at[p] \in {"exampleLab", "create"} => command[p] = "example"
    /\ at[p] = "leave" => command[p] = "down"

LabInv ==
  /\ labelled \cup left \subseteq made
  /\ \A s \in made : s[1] \in Claimable
  /\ \A p \in Tool :
       /\ at[p] \in Judged => To(p) \in Claimable
       /\ Trusts(p) /\ To(p) \in active => Current(To(p)) \in made
       /\ at[p] = "label" => node[p] \in made

LEMMA CommandStep == ASSUME TypeOK, CommandInv, [Next]_vars PROVE CommandInv'
<1> USE DEF TypeOK, CommandInv, Goto, daemonVars, toolVars, historyVars
<1>1. CASE UNCHANGED vars
  BY <1>1 DEF vars
<1>2. ASSUME NEW p \in Tool, NEW c \in Commands, NEW h \in Daemon \cup {Context},
             Begin(p, c, h)
      PROVE  CommandInv'
  <2>1. /\ FirstPlace(c) \in {"exampleLab", "create"} => c = "example"
        /\ FirstPlace(c) # "leave"
    BY DEF FirstPlace, Commands
  <2> QED
    BY <1>2, <2>1 DEF Begin
<1>3. ASSUME NEW p \in Tool, Up(p) PROVE CommandInv'
  BY <1>3 DEF Up, Endpoint, AlreadyOurs, StillInactive, ReadState, SwarmInit,
              InspectSelf, AddLabel
<1>4. ASSUME NEW p \in Tool, Down(p) PROVE CommandInv'
  <2>1. CASE DownState(p) \/ DownAllowed(p) \/ DownRefused(p) \/ List(p)
    BY <2>1 DEF DownState, DownAllowed, DownRefused, List
  <2>2. ASSUME NEW r \in Resource, Remove(p, r) \/ RemoveFails(p, r) PROVE CommandInv'
    BY <2>2 DEF Remove, RemoveFails, RemoveNext
  <2>3. CASE AllRemoved(p) \/ SwarmLeave(p)
    BY <2>3 DEF AllRemoved, SwarmLeave
  <2> QED
    BY <1>4, <2>1, <2>2, <2>3 DEF Down
<1>5. ASSUME NEW p \in Tool, Example(p) PROVE CommandInv'
  <2>1. CASE ExampleLab(p)
    BY <2>1 DEF ExampleLab
  <2>2. ASSUME NEW r \in Resource, Create(p, r) PROVE CommandInv'
    BY <2>2 DEF Create
  <2> QED
    BY <1>5, <2>1, <2>2 DEF Example
<1>6. ASSUME NEW p \in Tool, Die(p) PROVE CommandInv'
  BY <1>6 DEF Die
<1>7. ASSUME NEW d \in Daemon, OtherInit(d) \/ OtherLeave(d) \/ UseContext(d)
      PROVE  CommandInv'
  BY <1>7 DEF OtherInit, OtherLeave, UseContext
<1> QED
  BY <1>1, <1>2, <1>3, <1>4, <1>5, <1>6, <1>7 DEF Next

\* What got in the way, and a cut-off `up`, are remembered.
LEMMA HistoryGrows == ASSUME [Next]_vars
                      PROVE  (disturbed => disturbed') /\ (cut => cut')
<1> USE DEF historyVars
<1>1. CASE UNCHANGED vars
  BY <1>1 DEF vars
<1>2. ASSUME NEW p \in Tool, NEW c \in Commands, NEW h \in Daemon \cup {Context},
             Begin(p, c, h)
      PROVE  (disturbed => disturbed') /\ (cut => cut')
  BY <1>2 DEF Begin
<1>3. ASSUME NEW p \in Tool, Up(p) PROVE (disturbed => disturbed') /\ (cut => cut')
  BY <1>3 DEF Up, Endpoint, AlreadyOurs, StillInactive, ReadState, SwarmInit,
              InspectSelf, AddLabel
<1>4. ASSUME NEW p \in Tool, Down(p) PROVE (disturbed => disturbed') /\ (cut => cut')
  BY <1>4 DEF Down, DownState, DownAllowed, DownRefused, List, Remove, RemoveFails,
              RemoveNext, AllRemoved, SwarmLeave
<1>5. ASSUME NEW p \in Tool, Example(p) PROVE (disturbed => disturbed') /\ (cut => cut')
  BY <1>5 DEF Example, ExampleLab, Create
<1>6. ASSUME NEW p \in Tool, Die(p) PROVE (disturbed => disturbed') /\ (cut => cut')
  BY <1>6 DEF Die
<1>7. ASSUME NEW d \in Daemon, OtherInit(d) \/ OtherLeave(d) \/ UseContext(d)
      PROVE  (disturbed => disturbed') /\ (cut => cut')
  <2>1. CASE OtherInit(d)   BY <2>1 DEF OtherInit
  <2>2. CASE OtherLeave(d)  BY <2>2 DEF OtherLeave
  <2>3. CASE UseContext(d)  BY <2>3 DEF UseContext
  <2> QED
    BY <1>7, <2>1, <2>2, <2>3
<1> QED
  BY <1>1, <1>2, <1>3, <1>4, <1>5, <1>6, <1>7 DEF Next

LEMMA LabStep == ASSUME TypeOK, CommandInv, [Next]_vars, ~disturbed => LabInv
                 PROVE  ~disturbed' => LabInv'
<1> SUFFICES ASSUME ~disturbed' PROVE LabInv'
  OBVIOUS
<1>0. ~disturbed /\ LabInv
  BY HistoryGrows
<1> USE <1>0, LabAssumption DEF LabAssumption, TypeOK, LabInv, Trusts, Trusted, Judged, To, Current,
      Goto, daemonVars, toolVars, historyVars
<1>1. CASE UNCHANGED vars
  BY <1>1 DEF vars
<1>2. ASSUME NEW p \in Tool, NEW c \in Commands, NEW h \in Daemon \cup {Context},
             Begin(p, c, h)
      PROVE  LabInv'
  <2>1. FirstPlace(c) \in {"endpoint", "downState", "downLab", "exampleLab"}
    BY DEF FirstPlace, Commands
  <2> QED
    BY <1>2, <2>1 DEF Begin
<1>3. ASSUME NEW p \in Tool, Up(p) PROVE LabInv'
  <2>1. CASE Endpoint(p)       BY <2>1 DEF Endpoint
  <2>2. CASE AlreadyOurs(p)    BY <2>2 DEF AlreadyOurs, LabDaemon
  <2>3. CASE StillInactive(p)  BY <2>3 DEF StillInactive
  <2>4. CASE ReadState(p)      BY <2>4 DEF ReadState
  <2>5. CASE SwarmInit(p)
    <3>1. /\ made' = made \cup {Current(To(p))'}
          /\ To(p) \in Claimable
          /\ \A q \in Tool : To(q)' = To(q)
      BY <2>5 DEF SwarmInit, NewSwarm
    <3>2. \A q \in Tool : To(q) # To(p) =>
             Current(To(q))' = Current(To(q)) /\ (To(q) \in active' <=> To(q) \in active)
      BY <2>5 DEF SwarmInit, NewSwarm
    <3>3. labelled' \cup left' \subseteq made'
      BY <2>5 DEF SwarmInit, NewSwarm
    <3>4. \A s \in made' : s[1] \in Claimable
      BY <3>1
    <3>5. ASSUME NEW q \in Tool
          PROVE  /\ at'[q] \in Judged => To(q)' \in Claimable
                 /\ Trusts(q)' /\ To(q)' \in active' => Current(To(q))' \in made'
                 /\ at'[q] = "label" => node'[q] \in made'
      <4>1. CASE To(q) = To(p)
        BY <2>5, <3>1, <4>1 DEF SwarmInit
      <4>2. CASE To(q) # To(p)
        <5>1. q # p
          BY <4>2
        <5>2. at'[q] = at[q] /\ command'[q] = command[q] /\ node'[q] = node[q]
          BY <2>5, <5>1 DEF SwarmInit
        <5> QED
          BY <3>1, <3>2, <4>2, <5>2
      <4> QED
        BY <4>1, <4>2
    <3> QED
      BY <3>3, <3>4, <3>5
  <2>6. CASE InspectSelf(p)    BY <2>6 DEF InspectSelf
  <2>7. CASE AddLabel(p)       BY <2>7 DEF AddLabel
  <2> QED
    BY <1>3, <2>1, <2>2, <2>3, <2>4, <2>5, <2>6, <2>7 DEF Up
<1>4. ASSUME NEW p \in Tool, Down(p) PROVE LabInv'
  <2>1. CASE DownState(p)    BY <2>1 DEF DownState
  <2>2. CASE DownAllowed(p)  BY <2>2 DEF DownAllowed, LabDaemon
  <2>3. CASE DownRefused(p)  BY <2>3 DEF DownRefused
  <2>4. CASE List(p)         BY <2>4 DEF List
  <2>5. ASSUME NEW r \in Resource, Remove(p, r) PROVE LabInv'
    BY <2>5 DEF Remove, RemoveNext
  <2>6. ASSUME NEW r \in Resource, RemoveFails(p, r) PROVE LabInv'
    BY <2>6 DEF RemoveFails, RemoveNext
  <2>7. CASE AllRemoved(p)   BY <2>7 DEF AllRemoved
  <2>8. CASE SwarmLeave(p)
    <3>1. Current(To(p)) \in made
      BY <2>8 DEF SwarmLeave, Dissolve
    <3> QED
      BY <2>8, <3>1 DEF SwarmLeave, Dissolve
  <2> QED
    BY <1>4, <2>1, <2>2, <2>3, <2>4, <2>5, <2>6, <2>7, <2>8 DEF Down
<1>5. ASSUME NEW p \in Tool, Example(p) PROVE LabInv'
  <2>1. CASE ExampleLab(p)
    BY <2>1 DEF ExampleLab
  <2>2. ASSUME NEW r \in Resource, Create(p, r) PROVE LabInv'
    BY <2>2 DEF Create, CommandInv
  <2> QED
    BY <1>5, <2>1, <2>2 DEF Example
<1>6. ASSUME NEW p \in Tool, Die(p) PROVE LabInv'
  BY <1>6 DEF Die
<1>7. ASSUME NEW d \in Daemon, OtherInit(d) PROVE LabInv'
  <2>1. \A p \in Tool : Running(p) => To(p) # d
    BY <1>7 DEF OtherInit
  <2> QED
    BY <1>7, <2>1 DEF OtherInit, NewSwarm, Running
<1>8. ASSUME NEW d \in Daemon, OtherLeave(d) PROVE LabInv'
  BY <1>8 DEF OtherLeave, Dissolve
<1>9. ASSUME NEW d \in Daemon, UseContext(d) PROVE LabInv'
  <2>1. \A p \in Tool : Running(p) => host[p] # Context
    BY <1>9 DEF UseContext
  <2> QED
    BY <1>9, <2>1 DEF UseContext, Running
<1> QED
  BY <1>1, <1>2, <1>3, <1>4, <1>5, <1>6, <1>7, <1>8, <1>9 DEF Next

\* The tool labels and destroys the swarms it made and no others, and makes
\* them on claimable daemons, as long as nobody changes the destination of a
\* running command or initialises a swarm under it.
THEOREM OnlyTheLabAlways == Spec => []OnlyTheLab
<1>1. Init => CommandInv /\ (~disturbed => LabInv)
  BY DEF Init, CommandInv, LabInv, Trusts, Trusted, Judged, Current
<1>2. TypeOK /\ CommandInv /\ (~disturbed => LabInv) /\ [Next]_vars
        => CommandInv' /\ (~disturbed' => LabInv')
  BY CommandStep, LabStep
<1>3. (~disturbed => LabInv) => OnlyTheLab
  BY DEF LabInv, OnlyTheLab
<1> QED
  BY <1>1, <1>2, <1>3, TypeCorrect, PTL DEF Spec

-----------------------------------------------------------------------------
(***************************************************************************)
(* Nothing is lost.                                                        *)
(***************************************************************************)

\* While `down` lists, every resource of the kinds it is through with is on its
\* list or came late; once it removes, every resource is, unless a removal
\* failed; when it leaves, nothing but what came late is there.
LossInv ==
  \A p \in Tool :
    /\ at[p] \in {"idle", "downState", "downLab"} => kind[p] = 1
    /\ at[p] = "list" =>
         \A r \in inside[To(p)] : KindOf[r] < kind[p] => r \in todo[p] \cup late
    /\ at[p] = "remove" /\ command[p] = "down" /\ ~stuck[p] =>
         inside[To(p)] \subseteq todo[p] \cup late
    /\ at[p] = "leave" => inside[To(p)] \subseteq late

LEMMA LossStep == ASSUME TypeOK, CommandInv, [Next]_vars, ~disturbed => LossInv
                  PROVE  ~disturbed' => LossInv'
<1> SUFFICES ASSUME ~disturbed' PROVE LossInv'
  OBVIOUS
<1>0. ~disturbed /\ LossInv
  BY HistoryGrows
<1> USE <1>0, LabAssumption DEF LabAssumption, TypeOK, LossInv, To,
      Goto, daemonVars, toolVars, historyVars
<1>1. CASE UNCHANGED vars
  BY <1>1 DEF vars
<1>2. ASSUME NEW p \in Tool, NEW c \in Commands, NEW h \in Daemon \cup {Context},
             Begin(p, c, h)
      PROVE  LossInv'
  <2>1. FirstPlace(c) \in {"endpoint", "downState", "downLab", "exampleLab"}
    BY DEF FirstPlace, Commands
  <2> QED
    BY <1>2, <2>1 DEF Begin
<1>3. ASSUME NEW p \in Tool, Up(p) PROVE LossInv'
  <2>1. CASE Endpoint(p)       BY <2>1 DEF Endpoint
  <2>2. CASE AlreadyOurs(p)    BY <2>2 DEF AlreadyOurs
  <2>3. CASE StillInactive(p)  BY <2>3 DEF StillInactive
  <2>4. CASE ReadState(p)      BY <2>4 DEF ReadState
  <2>5. CASE SwarmInit(p)      BY <2>5 DEF SwarmInit, NewSwarm
  <2>6. CASE InspectSelf(p)    BY <2>6 DEF InspectSelf
  <2>7. CASE AddLabel(p)       BY <2>7 DEF AddLabel
  <2> QED
    BY <1>3, <2>1, <2>2, <2>3, <2>4, <2>5, <2>6, <2>7 DEF Up
<1>4. ASSUME NEW p \in Tool, Down(p) PROVE LossInv'
  <2>1. CASE DownState(p)    BY <2>1 DEF DownState
  <2>2. CASE DownAllowed(p)  BY <2>2 DEF DownAllowed
  <2>3. CASE DownRefused(p)  BY <2>3 DEF DownRefused
  <2>4. CASE List(p)
    <3>1. \A r \in inside[To(p)] : KindOf[r] <= kind[p] => r \in todo'[p] \cup late
      BY <2>4 DEF List
    <3>2. CASE kind[p] < Kinds
      <4>1. at'[p] = "list" /\ kind'[p] = kind[p] + 1
        BY <2>4, <3>2 DEF List
      <4> QED
        BY <2>4, <3>1, <4>1 DEF List
    <3>3. CASE ~(kind[p] < Kinds)
      <4>1. at'[p] = "remove" /\ inside[To(p)] \subseteq todo'[p] \cup late
        BY <2>4, <3>1, <3>3 DEF List
      <4> QED
        BY <2>4, <4>1 DEF List
    <3> QED
      BY <3>2, <3>3
  <2>5. ASSUME NEW r \in Resource, Remove(p, r) PROVE LossInv'
    BY <2>5 DEF Remove, RemoveNext
  <2>6. ASSUME NEW r \in Resource, RemoveFails(p, r) PROVE LossInv'
    BY <2>6 DEF RemoveFails, RemoveNext
  <2>7. CASE AllRemoved(p)   BY <2>7 DEF AllRemoved
  <2>8. CASE SwarmLeave(p)   BY <2>8 DEF SwarmLeave, Dissolve
  <2> QED
    BY <1>4, <2>1, <2>2, <2>3, <2>4, <2>5, <2>6, <2>7, <2>8 DEF Down
<1>5. ASSUME NEW p \in Tool, Example(p) PROVE LossInv'
  <2>1. CASE ExampleLab(p)
    BY <2>1 DEF ExampleLab
  <2>2. ASSUME NEW r \in Resource, Create(p, r) PROVE LossInv'
    <3>1. CASE InventoryInUse
      <4>1. late' = late \cup {r}
        BY <2>2, <3>1 DEF Create
      <4> QED
        BY <2>2, <4>1 DEF Create, CommandInv
    <3>2. CASE ~InventoryInUse
      BY <2>2, <3>2 DEF Create, CommandInv, InventoryInUse
    <3> QED
      BY <3>1, <3>2
  <2> QED
    BY <1>5, <2>1, <2>2 DEF Example
<1>6. ASSUME NEW p \in Tool, Die(p) PROVE LossInv'
  BY <1>6 DEF Die
<1>7. ASSUME NEW d \in Daemon, OtherInit(d) PROVE LossInv'
  BY <1>7 DEF OtherInit, NewSwarm
<1>8. ASSUME NEW d \in Daemon, OtherLeave(d) PROVE LossInv'
  BY <1>8 DEF OtherLeave, Dissolve
<1>9. ASSUME NEW d \in Daemon, UseContext(d) PROVE LossInv'
  <2>1. \A p \in Tool : Running(p) => host[p] # Context
    BY <1>9 DEF UseContext
  <2> QED
    BY <1>9, <2>1 DEF UseContext, Running
<1> QED
  BY <1>1, <1>2, <1>3, <1>4, <1>5, <1>6, <1>7, <1>8, <1>9 DEF Next

\* A lab is left only when every resource its `down` could have listed has been
\* removed: what is in it then was created after the inventory had begun.
THEOREM LeaveLosesNothingAlways == Spec => LeaveLosesNothing
<1>1. Init => CommandInv /\ (~disturbed => LossInv)
  BY DEF Init, CommandInv, LossInv
<1>2. TypeOK /\ CommandInv /\ (~disturbed => LossInv) /\ [Next]_vars
        => CommandInv' /\ (~disturbed' => LossInv')
  BY CommandStep, LossStep
<1>3. (~disturbed => LossInv)
        => [\A p \in Tool :
             SwarmLeave(p) /\ ~disturbed => inside[To(p)] \subseteq late]_vars
  BY DEF LossInv, SwarmLeave
<1> QED
  BY <1>1, <1>2, <1>3, TypeCorrect, PTL DEF Spec, LeaveLosesNothing

-----------------------------------------------------------------------------
(***************************************************************************)
(* The tool can take down what it made.                                    *)
(***************************************************************************)

\* Swarms are numbered upwards, and every running swarm of the tool's making is
\* labelled or has an `up` that is about to label it.
FreshInv == \A s \in made : s[2] <= gen[s[1]]

Labelling(p, d) ==
  \/ at[p] = "inspect" /\ To(p) = d
  \/ at[p] = "label" /\ To(p) = d /\ node[p] = Current(d)

OwnInv ==
  \A d \in active :
    Current(d) \in made =>
      Current(d) \in labelled \/ \E p \in Tool : Labelling(p, d)

LEMMA FreshStep == ASSUME TypeOK, FreshInv, [Next]_vars PROVE FreshInv'
<1> USE LabAssumption DEF LabAssumption, TypeOK, FreshInv, daemonVars, toolVars, historyVars
<1>1. CASE UNCHANGED <<made, gen>>
  BY <1>1
<1>2. ASSUME NEW p \in Tool, SwarmInit(p) PROVE FreshInv'
  <2>1. To(p) \in Daemon
    BY ToIsDaemon
  <2>2. \A d \in Daemon : gen'[d] >= gen[d]
    BY <1>2, <2>1 DEF SwarmInit, NewSwarm
  <2>3. \A s \in made : s[1] \in Daemon /\ s[2] \in Nat
    BY DEF Swarms
  <2>4. \A s \in made : s[2] <= gen'[s[1]]
    BY <1>2, <2>1, <2>2, <2>3 DEF SwarmInit, NewSwarm
  <2>5. made' = made \cup {<<To(p), gen'[To(p)]>>} /\ gen'[To(p)] \in Nat
    BY <1>2, <2>1 DEF SwarmInit, NewSwarm
  <2> QED
    BY <2>4, <2>5
<1>3. ASSUME NEW d \in Daemon, OtherInit(d) PROVE FreshInv'
  <2>1. \A e \in Daemon : gen'[e] >= gen[e] /\ gen'[e] \in Nat
    BY <1>3 DEF OtherInit, NewSwarm
  <2>2. \A s \in made : s[1] \in Daemon /\ s[2] \in Nat
    BY DEF Swarms
  <2> QED
    BY <1>3, <2>1, <2>2 DEF OtherInit
<1>4. ASSUME NEW p \in Tool, Up(p), ~SwarmInit(p) PROVE FreshInv'
  BY <1>1, <1>4 DEF Up, Endpoint, AlreadyOurs, StillInactive, ReadState, InspectSelf, AddLabel
<1>5. ASSUME NEW p \in Tool, Down(p) PROVE FreshInv'
  BY <1>1, <1>5 DEF Down, DownState, DownAllowed, DownRefused, List, Remove, RemoveFails,
                    RemoveNext, AllRemoved, SwarmLeave, Dissolve
<1>6. ASSUME NEW p \in Tool, Example(p) \/ Die(p) PROVE FreshInv'
  BY <1>1, <1>6 DEF Example, ExampleLab, Create, Die
<1>7. ASSUME NEW p \in Tool, NEW c \in Commands, NEW h \in Daemon \cup {Context},
             Begin(p, c, h)
      PROVE  FreshInv'
  BY <1>1, <1>7 DEF Begin
<1>8. ASSUME NEW d \in Daemon, OtherLeave(d) \/ UseContext(d) PROVE FreshInv'
  BY <1>1, <1>8 DEF OtherLeave, UseContext, Dissolve
<1>9. CASE UNCHANGED vars
  BY <1>1, <1>9 DEF vars
<1> QED
  BY <1>2, <1>3, <1>4, <1>5, <1>6, <1>7, <1>8, <1>9 DEF Next

LEMMA OwnStep == ASSUME TypeOK, FreshInv, [Next]_vars, ~disturbed /\ ~cut => OwnInv
                 PROVE  ~disturbed' /\ ~cut' => OwnInv'
<1> SUFFICES ASSUME ~disturbed', ~cut' PROVE OwnInv'
  OBVIOUS
<1>0. ~disturbed /\ ~cut /\ OwnInv
  BY HistoryGrows
<1> USE <1>0, LabAssumption DEF LabAssumption, TypeOK, OwnInv, Labelling, To, Current,
      Goto, daemonVars, toolVars, historyVars
<1>1. CASE UNCHANGED vars
  BY <1>1 DEF vars
<1>2. ASSUME NEW p \in Tool, NEW c \in Commands, NEW h \in Daemon \cup {Context},
             Begin(p, c, h)
      PROVE  OwnInv'
  BY <1>2 DEF Begin
<1>3. ASSUME NEW p \in Tool, Up(p) PROVE OwnInv'
  <2>1. CASE Endpoint(p)       BY <2>1 DEF Endpoint
  <2>2. CASE AlreadyOurs(p)    BY <2>2 DEF AlreadyOurs
  <2>3. CASE StillInactive(p)  BY <2>3 DEF StillInactive
  <2>4. CASE ReadState(p)      BY <2>4 DEF ReadState
  <2>5. CASE SwarmInit(p)
    <3> SUFFICES ASSUME NEW d \in active', Current(d)' \in made', Current(d)' \notin labelled'
                 PROVE  \E q \in Tool : Labelling(q, d)'
      OBVIOUS
    <3>1. CASE d = To(p)
      <4>1. Labelling(p, d)'
        BY <2>5, <3>1 DEF SwarmInit, NewSwarm
      <4> QED
        BY <4>1
    <3>2. CASE d # To(p)
      <4>1. d \in active /\ Current(d) \in made /\ Current(d) \notin labelled
        BY <2>5, <3>2 DEF SwarmInit, NewSwarm
      <4>2. PICK q \in Tool : Labelling(q, d)
        BY <4>1
      <4>3. Labelling(q, d)'
        BY <2>5, <3>2, <4>2 DEF SwarmInit, NewSwarm
      <4> QED
        BY <4>3
    <3> QED
      BY <3>1, <3>2
  <2>6. CASE InspectSelf(p)    BY <2>6 DEF InspectSelf
  <2>7. CASE AddLabel(p)       BY <2>7 DEF AddLabel
  <2> QED
    BY <1>3, <2>1, <2>2, <2>3, <2>4, <2>5, <2>6, <2>7 DEF Up
<1>4. ASSUME NEW p \in Tool, Down(p) PROVE OwnInv'
  <2>1. CASE DownState(p)    BY <2>1 DEF DownState
  <2>2. CASE DownAllowed(p)  BY <2>2 DEF DownAllowed
  <2>3. CASE DownRefused(p)  BY <2>3 DEF DownRefused
  <2>4. CASE List(p)         BY <2>4 DEF List
  <2>5. ASSUME NEW r \in Resource, Remove(p, r) PROVE OwnInv'
    BY <2>5 DEF Remove, RemoveNext
  <2>6. ASSUME NEW r \in Resource, RemoveFails(p, r) PROVE OwnInv'
    BY <2>6 DEF RemoveFails, RemoveNext
  <2>7. CASE AllRemoved(p)   BY <2>7 DEF AllRemoved
  <2>8. CASE SwarmLeave(p)   BY <2>8 DEF SwarmLeave, Dissolve
  <2> QED
    BY <1>4, <2>1, <2>2, <2>3, <2>4, <2>5, <2>6, <2>7, <2>8 DEF Down
<1>5. ASSUME NEW p \in Tool, Example(p) PROVE OwnInv'
  <2>1. CASE ExampleLab(p)
    BY <2>1 DEF ExampleLab
  <2>2. ASSUME NEW r \in Resource, Create(p, r) PROVE OwnInv'
    BY <2>2 DEF Create
  <2> QED
    BY <1>5, <2>1, <2>2 DEF Example
<1>6. ASSUME NEW p \in Tool, Die(p) PROVE OwnInv'
  BY <1>6 DEF Die
<1>7. ASSUME NEW d \in Daemon, OtherInit(d) PROVE OwnInv'
  <2>1. <<d, gen'[d]>> \notin made
    BY <1>7 DEF OtherInit, NewSwarm, FreshInv
  <2> QED
    BY <1>7, <2>1 DEF OtherInit, NewSwarm
<1>8. ASSUME NEW d \in Daemon, OtherLeave(d) PROVE OwnInv'
  BY <1>8 DEF OtherLeave, Dissolve
<1>9. ASSUME NEW d \in Daemon, UseContext(d) PROVE OwnInv'
  <2>1. \A p \in Tool : Running(p) => host[p] # Context
    BY <1>9 DEF UseContext
  <2> QED
    BY <1>9, <2>1 DEF UseContext, Running
<1> QED
  BY <1>1, <1>2, <1>3, <1>4, <1>5, <1>6, <1>7, <1>8, <1>9 DEF Next

\* A swarm of the tool's making that `down` refuses has its `up` still underway,
\* or an `up` was cut off before it applied the label.
THEOREM OwnUnlessCutAlways == Spec => OwnUnlessCut
<1>1. Init => FreshInv /\ (~disturbed /\ ~cut => OwnInv)
  <2> SUFFICES ASSUME Init PROVE FreshInv /\ OwnInv
    OBVIOUS
  <2>1. \A s \in made : \E d \in Daemon : s = <<d, 0>> /\ gen[d] = 0
    BY DEF Init, Current
  <2>2. FreshInv
    BY <2>1 DEF FreshInv
  <2>3. OwnInv
    BY DEF Init, OwnInv
  <2> QED
    BY <2>2, <2>3
<1>2. TypeOK /\ FreshInv /\ (~disturbed /\ ~cut => OwnInv) /\ [Next]_vars
        => FreshInv' /\ (~disturbed' /\ ~cut' => OwnInv')
  BY FreshStep, OwnStep
<1>3. (~disturbed /\ ~cut => OwnInv)
        => [\A p \in Tool :
             DownRefused(p) /\ Own(To(p)) => UpUnderway(To(p)) \/ disturbed \/ cut]_vars
  BY DEF OwnInv, DownRefused, Own, LabDaemon, Labelling, UpUnderway
<1> QED
  BY <1>1, <1>2, <1>3, TypeCorrect, PTL DEF Spec, OwnUnlessCut
=============================================================================
