------------------------------ MODULE MCSCAts ------------------------------
(* Instances of SCAts for TLC.                                             *)
EXTENDS SCAts

Cmd(id, t, valid) == [CmdId |-> id, Timestamp |-> t, valid |-> valid]

(* Two commands in one second of which one is corrupt, with a third later; *)
(* a table stored out of order; one with an ambiguous pair (same time and  *)
(* id); one that is over at the first second.                              *)
SmallTables ==
  {<<Cmd(1, 2, TRUE), Cmd(2, 2, FALSE), Cmd(3, 4, TRUE)>>,
   <<Cmd(3, 4, TRUE), Cmd(2, 3, TRUE), Cmd(1, 2, TRUE)>>,
   <<Cmd(1, 3, TRUE), Cmd(1, 3, FALSE)>>,
   <<Cmd(1, 1, TRUE)>>}
=============================================================================
