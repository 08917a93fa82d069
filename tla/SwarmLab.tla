------------------------------ MODULE SwarmLab ------------------------------
(***************************************************************************)
(* bin/swarm-lab and the guardrail of lib/gates/swarm_lab.rb: `up`, `down` *)
(* and `reset`, and the test harness that creates resources in the lab,    *)
(* against daemons that other people use as well.                          *)
(*                                                                         *)
(* Every docker command is a step of its own.  Each one goes to the daemon *)
(* that DOCKER_HOST or, without it, the current docker context names when  *)
(* the command runs.  One that fails ends the script, like a crash or an   *)
(* interrupt, except where an action says otherwise.  The states of a node *)
(* beside `active` and `inactive`, in which every command refuses or       *)
(* fails, are left out.                                                    *)
(***************************************************************************)
EXTENDS Naturals

CONSTANTS Daemon,     \* the Docker daemons within reach
          Claimable,  \* those lab.claimable_endpoints allows
          Tool,       \* invocations of bin/swarm-lab, and test examples
          Resource,   \* the names lab_name gives, each used once
          Kinds,      \* the kinds of resource, in the order of the inventory
          KindOf,     \* the kind of each resource
          Context,    \* in the place of a daemon: no DOCKER_HOST
          MaxSwarms   \* bound: swarms a daemon is initialised with

ASSUME LabAssumption ==
  /\ Claimable \subseteq Daemon
  /\ Context \notin Daemon
  /\ Kinds \in Nat \ {0}
  /\ KindOf \in [Resource -> 1 .. Kinds]
  /\ MaxSwarms \in Nat

VARIABLES
  active,     \* the daemons that run a swarm
  gen,        \* how many swarms each one has run: its current swarm's identity
  labelled,   \* the swarms whose node carries the label
  inside,     \* the labelled resources in each daemon's swarm
  unused,     \* the names not given yet
  context,    \* the daemon of the current docker context
  at,         \* where each invocation is
  command,    \* its command
  host,       \* its DOCKER_HOST
  node,       \* `up`: the node id it read
  kind,       \* the kind it lists next
  todo,       \* the resources it has still to remove
  stuck,      \* did a removal fail
  made,       \* history: the swarms `up` initialised
  left,       \* history: the swarms `down` left
  late,       \* history: resources created while an inventory was in use
  disturbed,  \* history: did another destination or swarm get in the way
  cut         \* history: did an `up` end between `swarm init` and the label

daemonVars  == <<active, gen, labelled, inside, unused, context>>
toolVars    == <<at, command, host, node, kind, todo, stuck>>
historyVars == <<made, left, late, disturbed, cut>>
vars == <<daemonVars, toolVars, historyVars>>

Commands == {"up", "down", "reset", "example"}
Places   == {"idle", "endpoint", "lab", "inactive", "state", "init", "inspect",
             "label", "downState", "downLab", "list", "remove", "leave",
             "exampleLab", "create", "ended"}
Swarms   == Daemon \X (0 .. MaxSwarms)

Running(p) == at[p] \notin {"idle", "ended"}

\* The daemon a command of p goes to now, its swarm, and lab_daemon?.
To(p)        == IF host[p] = Context THEN context ELSE host[p]
Current(d)   == <<d, gen[d]>>
LabDaemon(d) == d \in active /\ Current(d) \in labelled

TypeOK ==
  /\ active \subseteq Daemon
  /\ gen \in [Daemon -> 0 .. MaxSwarms]
  /\ labelled \subseteq Swarms /\ made \subseteq Swarms /\ left \subseteq Swarms
  /\ inside \in [Daemon -> SUBSET Resource]
  /\ unused \subseteq Resource /\ late \subseteq Resource
  /\ context \in Daemon
  /\ at \in [Tool -> Places]
  /\ command \in [Tool -> Commands]
  /\ host \in [Tool -> Daemon \cup {Context}]
  /\ node \in [Tool -> Swarms]
  /\ kind \in [Tool -> 1 .. Kinds]
  /\ todo \in [Tool -> SUBSET Resource]
  /\ stuck \in [Tool -> BOOLEAN]
  /\ disturbed \in BOOLEAN /\ cut \in BOOLEAN

\* Some daemons run a swarm already, which on a claimable one may be the lab,
\* with what a crashed test run has left in it.
Init ==
  /\ active \in SUBSET Daemon
  /\ gen = [d \in Daemon |-> 0]
  /\ made \in SUBSET {Current(d) : d \in active \cap Claimable}
  /\ labelled = made
  /\ inside \in [Daemon -> SUBSET Resource]
  /\ \A d \in Daemon :
       /\ ~LabDaemon(d) => inside[d] = {}
       /\ \A e \in Daemon \ {d} : inside[d] \cap inside[e] = {}
  /\ unused = Resource \ UNION {inside[d] : d \in Daemon}
  /\ context \in Daemon
  /\ at = [p \in Tool |-> "idle"]
  /\ command = [p \in Tool |-> "up"]
  /\ host = [p \in Tool |-> Context]
  /\ node = [p \in Tool |-> <<context, 0>>]
  /\ kind = [p \in Tool |-> 1]
  /\ todo = [p \in Tool |-> {}]
  /\ stuck = [p \in Tool |-> FALSE]
  /\ left = {} /\ late = {}
  /\ disturbed = FALSE /\ cut = FALSE

Goto(p, place) == at' = [at EXCEPT ![p] = place]

FirstPlace(c) ==
  CASE c = "up"      -> "endpoint"
    [] c = "down"    -> "downState"
    [] c = "reset"   -> "downLab"
    [] c = "example" -> "exampleLab"

Begin(p, c, h) ==
  /\ at[p] = "idle"
  /\ Goto(p, FirstPlace(c))
  /\ command' = [command EXCEPT ![p] = c]
  /\ host' = [host EXCEPT ![p] = h]
  /\ UNCHANGED <<daemonVars, node, kind, todo, stuck, historyVars>>

-----------------------------------------------------------------------------
(***************************************************************************)
(* up.                                                                     *)
(***************************************************************************)

\* Faulty variant: only DOCKER_HOST is judged.
EndpointUnlessContext(p) ==
  /\ at[p] = "endpoint"
  /\ Goto(p, IF host[p] \in Claimable \cup {Context} THEN "lab" ELSE "ended")
  /\ UNCHANGED <<daemonVars, command, host, node, kind, todo, stuck, historyVars>>

\* assert_claimable_endpoint!, which `up` runs twice before it reads anything
\* it decides on.
Endpoint(p) ==
  /\ at[p] = "endpoint"
  /\ Goto(p, IF To(p) \in Claimable THEN "lab" ELSE "ended")
  /\ UNCHANGED <<daemonVars, command, host, node, kind, todo, stuck, historyVars>>

\* assert_claimable!: already ours, or not active.
AlreadyOurs(p) ==
  /\ at[p] = "lab"
  /\ Goto(p, IF LabDaemon(To(p)) THEN "state" ELSE "inactive")
  /\ UNCHANGED <<daemonVars, command, host, node, kind, todo, stuck, historyVars>>

StillInactive(p) ==
  /\ at[p] = "inactive"
  /\ Goto(p, IF To(p) \in active THEN "ended" ELSE "state")
  /\ UNCHANGED <<daemonVars, command, host, node, kind, todo, stuck, historyVars>>

\* `up` reads the state once more; an active swarm is taken for the lab.
ReadState(p) ==
  /\ at[p] = "state"
  /\ Goto(p, IF To(p) \in active THEN "inspect" ELSE "init")
  /\ UNCHANGED <<daemonVars, command, host, node, kind, todo, stuck, historyVars>>

NewSwarm(d) ==
  /\ d \notin active /\ gen[d] < MaxSwarms
  /\ active' = active \cup {d}
  /\ gen' = [gen EXCEPT ![d] = @ + 1]
  /\ UNCHANGED <<labelled, inside, unused, context>>

\* Faulty variant: the label is left to the next `up`.
SwarmInitOnly(p) ==
  /\ at[p] = "init"
  /\ NewSwarm(To(p))
  /\ made' = made \cup {<<To(p), gen'[To(p)]>>}
  /\ Goto(p, "ended")
  /\ UNCHANGED <<command, host, node, kind, todo, stuck, left, late, disturbed, cut>>

SwarmInit(p) ==
  /\ at[p] = "init"
  /\ NewSwarm(To(p))
  /\ made' = made \cup {<<To(p), gen'[To(p)]>>}
  /\ Goto(p, "inspect")
  /\ UNCHANGED <<command, host, node, kind, todo, stuck, left, late, disturbed, cut>>

InspectSelf(p) ==
  /\ at[p] = "inspect" /\ To(p) \in active
  /\ node' = [node EXCEPT ![p] = Current(To(p))]
  /\ Goto(p, "label")
  /\ UNCHANGED <<daemonVars, command, host, kind, todo, stuck, historyVars>>

\* node update names the node, so another swarm's daemon refuses it.
AddLabel(p) ==
  /\ at[p] = "label" /\ To(p) \in active /\ Current(To(p)) = node[p]
  /\ labelled' = labelled \cup {node[p]}
  /\ Goto(p, "ended")
  /\ UNCHANGED <<active, gen, inside, unused, context,
                 command, host, node, kind, todo, stuck, historyVars>>

-----------------------------------------------------------------------------
(***************************************************************************)
(* down and reset.                                                         *)
(***************************************************************************)

DownState(p) ==
  /\ at[p] = "downState"
  /\ Goto(p, IF To(p) \in active THEN "downLab" ELSE "ended")
  /\ UNCHANGED <<daemonVars, command, host, node, kind, todo, stuck, historyVars>>

\* assert_lab!
DownAllowed(p) ==
  /\ at[p] = "downLab" /\ LabDaemon(To(p))
  /\ Goto(p, "list")
  /\ UNCHANGED <<daemonVars, command, host, node, kind, todo, stuck, historyVars>>

DownRefused(p) ==
  /\ at[p] = "downLab" /\ ~LabDaemon(To(p))
  /\ Goto(p, "ended")
  /\ UNCHANGED <<daemonVars, command, host, node, kind, todo, stuck, historyVars>>

\* Faulty variant: the kind after the last one.
ListPastLast(p) ==
  /\ at[p] = "list" /\ To(p) \in active
  /\ kind' = [kind EXCEPT ![p] = @ + 1]
  /\ Goto(p, IF kind[p] < Kinds THEN "list" ELSE "remove")
  /\ UNCHANGED <<daemonVars, command, host, node, todo, stuck, historyVars>>

\* Faulty variant: a listing that fails reads as an empty one.
ListNothing(p) ==
  /\ at[p] = "list"
  /\ todo' \in {todo, [todo EXCEPT ![p] = @ \cup
                  {r \in inside[To(p)] : KindOf[r] = kind[p]}]}
  /\ kind' = [kind EXCEPT ![p] = IF @ < Kinds THEN @ + 1 ELSE 1]
  /\ Goto(p, IF kind[p] < Kinds THEN "list" ELSE "remove")
  /\ UNCHANGED <<daemonVars, command, host, node, stuck, historyVars>>

\* orphaned_resources: one listing for each kind, of what is labelled.  Outside
\* a swarm there is none of services, secrets and configs.
List(p) ==
  /\ at[p] = "list" /\ To(p) \in active
  /\ todo' = [todo EXCEPT ![p] = @ \cup {r \in inside[To(p)] : KindOf[r] = kind[p]}]
  /\ kind' = [kind EXCEPT ![p] = IF @ < Kinds THEN @ + 1 ELSE 1]
  /\ Goto(p, IF kind[p] < Kinds THEN "list" ELSE "remove")
  /\ UNCHANGED <<daemonVars, command, host, node, stuck, historyVars>>

RemoveNext(p, r) ==
  /\ at[p] = "remove" /\ r \in todo[p]
  /\ \A q \in todo[p] : KindOf[r] <= KindOf[q]
  /\ todo' = [todo EXCEPT ![p] = @ \ {r}]
  /\ UNCHANGED <<active, gen, labelled, unused, context,
                 at, command, host, node, kind, historyVars>>

\* Removing what is already gone is no failure.
Remove(p, r) ==
  /\ RemoveNext(p, r)
  /\ inside' = [inside EXCEPT ![To(p)] = @ \ {r}]
  /\ UNCHANGED stuck

\* A removal that fails is remembered, and the rest are still attempted.
RemoveFails(p, r) ==
  /\ RemoveNext(p, r)
  /\ stuck' = [stuck EXCEPT ![p] = TRUE]
  /\ UNCHANGED inside

AllRemoved(p) ==
  /\ at[p] = "remove" /\ todo[p] = {}
  /\ Goto(p, IF command[p] = "down" /\ ~stuck[p] THEN "leave" ELSE "ended")
  /\ UNCHANGED <<daemonVars, command, host, node, kind, todo, stuck, historyVars>>

\* A swarm is gone with everything in it.
Dissolve(d) ==
  /\ d \in active
  /\ active' = active \ {d}
  /\ inside' = [inside EXCEPT ![d] = {}]
  /\ UNCHANGED <<gen, labelled, unused, context>>

SwarmLeave(p) ==
  /\ at[p] = "leave"
  /\ Dissolve(To(p))
  /\ left' = left \cup {Current(To(p))}
  /\ Goto(p, "ended")
  /\ UNCHANGED <<command, host, node, kind, todo, stuck, made, late, disturbed, cut>>

-----------------------------------------------------------------------------
(***************************************************************************)
(* A test example: create_lab_service and its like, and their cleanup.     *)
(***************************************************************************)

ExampleLab(p) ==
  /\ at[p] = "exampleLab"
  /\ Goto(p, IF LabDaemon(To(p)) THEN "create" ELSE "ended")
  /\ UNCHANGED <<daemonVars, command, host, node, kind, todo, stuck, historyVars>>

InventoryInUse == \E p \in Tool : at[p] \in {"list", "remove", "leave"}

Create(p, r) ==
  /\ at[p] = "create" /\ To(p) \in active /\ r \in unused
  /\ inside' = [inside EXCEPT ![To(p)] = @ \cup {r}]
  /\ unused' = unused \ {r}
  /\ todo' = [todo EXCEPT ![p] = {r}]
  /\ Goto(p, "remove")
  /\ late' = IF InventoryInUse THEN late \cup {r} ELSE late
  /\ UNCHANGED <<active, gen, labelled, context,
                 command, host, node, kind, stuck, made, left, disturbed, cut>>

-----------------------------------------------------------------------------
(***************************************************************************)
(* What else happens.                                                      *)
(***************************************************************************)

\* The script is killed, or a docker command fails.
Die(p) ==
  /\ Running(p)
  /\ Goto(p, "ended")
  /\ cut' = (cut \/ at[p] \in {"inspect", "label"})
  /\ UNCHANGED <<daemonVars, command, host, node, kind, todo, stuck,
                 made, left, late, disturbed>>

\* Somebody initialises a swarm, or leaves one, or selects another context.
OtherInit(d) ==
  /\ NewSwarm(d)
  /\ disturbed' = (disturbed \/ \E p \in Tool : Running(p) /\ To(p) = d)
  /\ UNCHANGED <<toolVars, made, left, late, cut>>

OtherLeave(d) == Dissolve(d) /\ UNCHANGED <<toolVars, historyVars>>

UseContext(d) ==
  /\ d # context
  /\ context' = d
  /\ disturbed' = (disturbed \/ \E p \in Tool : Running(p) /\ host[p] = Context)
  /\ UNCHANGED <<active, gen, labelled, inside, unused, toolVars,
                 made, left, late, cut>>

Up(p)   == Endpoint(p) \/ AlreadyOurs(p) \/ StillInactive(p) \/ ReadState(p)
             \/ SwarmInit(p) \/ InspectSelf(p) \/ AddLabel(p)
Down(p) == DownState(p) \/ DownAllowed(p) \/ DownRefused(p) \/ List(p)
             \/ (\E r \in Resource : Remove(p, r) \/ RemoveFails(p, r))
             \/ AllRemoved(p) \/ SwarmLeave(p)
Example(p) == ExampleLab(p) \/ \E r \in Resource : Create(p, r)

Next ==
  \/ \E p \in Tool :
       \/ \E c \in Commands, h \in Daemon \cup {Context} : Begin(p, c, h)
       \/ Up(p) \/ Down(p) \/ Example(p) \/ Die(p)
  \/ \E d \in Daemon : OtherInit(d) \/ OtherLeave(d) \/ UseContext(d)

Spec == Init /\ [][Next]_vars

-----------------------------------------------------------------------------
(***************************************************************************)
(* Properties.                                                             *)
(***************************************************************************)

\* The guardrail (lib/gates/swarm_lab.rb:16-21): the tool labels and destroys
\* no swarm but those it made, and makes them on claimable daemons only,
\* unless the destination of a running command was changed, or somebody else
\* initialised a swarm there, between the check and the use.
OnlyTheLab ==
  ~disturbed =>
    /\ labelled \cup left \subseteq made
    /\ \A s \in made : s[1] \in Claimable

\* `down` leaves a swarm only when the harness has nothing in it, but for what
\* was created while the inventory was being used (bin/swarm-lab:120-128).
LeaveLosesNothing ==
  [][\A p \in Tool :
       SwarmLeave(p) /\ ~disturbed => inside[To(p)] \subseteq late]_vars

\* A swarm of the tool's own making is accepted by `down` and `reset`, once
\* the `up` that made it is over, unless one was cut off.
Own(d) == d \in active /\ Current(d) \in made
UpUnderway(d) ==
  \E p \in Tool : at[p] \in {"inspect", "label"} /\ To(p) = d

DownTakesItsOwn ==
  [][\A p \in Tool :
       DownRefused(p) /\ Own(To(p)) => UpUnderway(To(p)) \/ disturbed]_vars

OwnUnlessCut ==
  [][\A p \in Tool :
       DownRefused(p) /\ Own(To(p)) => UpUnderway(To(p)) \/ disturbed \/ cut]_vars
=============================================================================
