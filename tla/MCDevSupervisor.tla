--------------------------- MODULE MCDevSupervisor ---------------------------
(***************************************************************************)
(* Small instances of DevSupervisor: the three processes of the script, of *)
(* which the last two may have no command.                                 *)
(***************************************************************************)
EXTENDS DevSupervisor

LastTwo == {2, 3}
Nobody  == {}
==============================================================================
