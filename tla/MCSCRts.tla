------------------------------ MODULE MCSCRts ------------------------------
(* Instances of SCRts for TLC.                                             *)
EXTENDS SCRts, TLC

R(delay, length, valid) == [Delay |-> delay, Length |-> length, valid |-> valid]

(* A table that begins at once, with a burst that holds a corrupt command; *)
(* one with longer commands that begins later, with what looks like a      *)
(* header in the middle of its second and an over-long one left behind its *)
(* end; the empty table.  An RTS whose table is replaced lands at another  *)
(* command, in the middle of one, or behind the last.                      *)
Burst == [starts |-> <<1, 4, 8>>,
          at |-> (1 :> R(0, 2, TRUE)) @@ (4 :> R(0, 3, FALSE)) @@ (8 :> R(1, 2, TRUE))]
Later == [starts |-> <<1, 5>>,
          at |-> (1 :> R(1, 3, TRUE)) @@ (5 :> R(1, 4, TRUE))
                   @@ (8 :> R(0, 3, FALSE)) @@ (11 :> R(1, 9, FALSE))]
Empty == [starts |-> << >>, at |-> << >>]
Tables == {Burst, Later, Empty}

(* All files good; one missing; one that cannot be loaded.                 *)
Dirs == {<<Burst, Later>>, <<Later, Absent>>, <<Broken, Later>>}
=============================================================================
