----------------------------- MODULE MCSwarmLab -----------------------------
(***************************************************************************)
(* Small instances of SwarmLab: a local daemon and a remote one, and       *)
(* resources of two kinds.                                                 *)
(***************************************************************************)
EXTENDS SwarmLab, TLC

CONSTANTS local, remote, t1, t2, svc, net

OneOfEach == svc :> 1 @@ net :> 2
Interchangeable == Permutations({t1, t2})
=============================================================================
