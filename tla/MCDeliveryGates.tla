-------------------------- MODULE MCDeliveryGates --------------------------
(* One tree passes everything, one fails the tests, one is refused as a     *)
(* change: a file in it may not be committed.  No tree passes both types of *)
(* the suite but the good one, and each of the others passes one of them.   *)
EXTENDS DeliveryGates, TLC

CONSTANTS good, broken, stray, static, test

MCTrees == {good, broken, stray}
MCChecks == <<"tests", "secret-scan", "diff-boundary">>
MCReads == <<"tree", "staged", "boundary">>
MCPasses == <<{good, stray}, MCTrees, MCTrees>>
MCRefuses == <<{}, {<<good, stray>>, <<broken, stray>>}, {<<good, stray>>, <<good, broken>>}>>
MCJobs == {static}
MCCommands ==
  (static :> <<MCTrees, {good, broken}>>) @@ (test :> <<{good, stray}, {good, broken}>>)
MCBudgets == {<<2, 0, 1>>, <<1, 0, 2>>, <<1, 1, 1>>, <<0, 2, 0>>, <<0, 1, 2>>}
=============================================================================
