----------------------------- MODULE MCStateLock -----------------------------
(***************************************************************************)
(* Small instances of StateLock: three invocations, so that two waiters    *)
(* can meet a lock whose owner has gone.                                   *)
(***************************************************************************)
EXTENDS StateLock

CONSTANTS p1, p2, p3

MCProc     == {p1, p2, p3}
MCMayCrash == {p1, p2}
MCMayTerm  == {p1}
Nobody     == {}
=============================================================================
