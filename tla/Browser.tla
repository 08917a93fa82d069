------------------------------ MODULE Browser ------------------------------
(***************************************************************************)
(* The browser in three scenes that share nothing, chosen at the start:    *)
(* the application with its pages and sidebars, one table, one control.    *)
(***************************************************************************)
EXTENDS Frontend, DataTable, Controls

VARIABLE scene

allVars == <<scene, vars, tableVars, controlVars>>

BrowserInit ==
  /\ scene \in {"app", "table", "control"}
  /\ FrontendInit /\ TableInit /\ ControlsInit

AppStep     == scene = "app" /\ FrontendNext /\ UNCHANGED <<tableVars, controlVars>>
EffectsStep == (Flush \/ SettleTree) /\ UNCHANGED <<tableVars, controlVars>>
TableStep   == scene = "table" /\ phase = "ready" /\ TableNext /\ UNCHANGED <<vars, controlVars>>
ControlStep == scene = "control" /\ phase = "ready" /\ ControlsNext /\ UNCHANGED <<vars, tableVars>>

BrowserNext == UNCHANGED scene /\ (AppStep \/ EffectsStep \/ TableStep \/ ControlStep)

BrowserFairness ==
  /\ WF_allVars(Flush /\ UNCHANGED <<scene, tableVars, controlVars>>)
  /\ WF_allVars(SettleTree /\ UNCHANGED <<scene, tableVars, controlVars>>)

BrowserSpec == BrowserInit /\ [][BrowserNext]_allVars /\ BrowserFairness

(* One type invariant for the pages, the table and the control *)
BrowserTypeOK == FrontendTypeOK /\ TableTypeOK /\ ControlsTypeOK
=============================================================================
