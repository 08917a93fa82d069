----------------------------- MODULE AtomicStore -----------------------------
(***************************************************************************)
(* What the state scripts of the loop promise about tasks.json and         *)
(* review-state.json: a command either applies its update to the current   *)
(* document in one indivisible step, or it fails and changes nothing.      *)
(* An update is identified with the process that makes it, and a document  *)
(* with the set of updates it contains.                                    *)
(***************************************************************************)
CONSTANT Proc

VARIABLES store,     \* the updates the document contains
          outcome    \* what became of each process's command

TypeOK ==
  /\ store \subseteq Proc
  /\ outcome \in [Proc -> {"pending", "applied", "failed"}]

Init ==
  /\ store = {}
  /\ outcome = [p \in Proc |-> "pending"]

Apply(p) ==
  /\ outcome[p] = "pending"
  /\ outcome' = [outcome EXCEPT ![p] = "applied"]
  /\ store' = store \cup {p}

Fail(p) ==
  /\ outcome[p] = "pending"
  /\ outcome' = [outcome EXCEPT ![p] = "failed"]
  /\ UNCHANGED store

Next == \E p \in Proc : Apply(p) \/ Fail(p)

vars == <<store, outcome>>

Spec == Init /\ [][Next]_vars
=============================================================================
