----------------------------- MODULE MCSCHTask -----------------------------
(* Instances of SCHTask for TLC.                                           *)
EXTENDS SCHTask, TLC

E(state, period, remainder, group) ==
  [enable_state |-> state, period |-> period, remainder |-> remainder, group_data |-> group]

NoGroups == {NoGroup}
SomeGroups == {NoGroup, "HK"}

Unused == E("UNUSED", 0, 0, NoGroup)

Image(f) == [p \in Positions |-> IF p \in DOMAIN f THEN f[p] ELSE Unused]

(* Nothing to do: for what is about frames only.                           *)
IdleTables == {Image(<< >>)}

(* Two entries of one slot with different periods, a group over two slots, *)
(* one of a single member; a table whose remainder is out of range.        *)
WorkTables ==
  {Image(<<0, 0>> :> E("ENABLED", 2, 1, NoGroup) @@ <<0, 1>> :> E("DISABLED", 3, 0, "HK")
         @@ <<1, 0>> :> E("ENABLED", 2, 0, "HK")),
   Image(<<1, 0>> :> E("ENABLED", 1, 0, "HK")),
   Image(<<1, 1>> :> E("ENABLED", 2, 2, "HK"))}
=============================================================================
