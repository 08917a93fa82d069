---------------------------- MODULE MCReviewState ----------------------------
(***************************************************************************)
(* Small instances of ReviewState.  The plugin itself passes one status to *)
(* `set`: the Stop hook's ready_for_review (stop-gate.sh:119).             *)
(***************************************************************************)
EXTENDS ReviewState

CONSTANTS c1, c2, c3

MCCaller      == {c1, c2, c3}
MCInitialiser == {c1, c2}
HookOnly      == {"ready_for_review"}
AnyStatus     == Statuses
OneCaller     == {c1}
==============================================================================
