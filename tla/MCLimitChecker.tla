--------------------------- MODULE MCLimitChecker ---------------------------
(* Instances of LimitChecker for TLC.                                      *)
EXTENDS LimitChecker

CONSTANTS w1, w2, w3, m1, m2

W(mid, op, v) == [message_id |-> mid, operator_id |-> op, value |-> v]
A(state, max, eq, means) ==
  [default_state |-> state, max_fail_before_rts |-> max, rpn_equation |-> eq, means |-> means]

(* Two watchpoints on one message, one on another; a table that looks at   *)
(* the second message only; one with a value half a word from the data.    *)
Both  == [w \in Watchpoints |->
  CASE w = w1 -> W(m1, "GREATER_THAN", 0) [] w = w2 -> W(m1, "LESS_THAN", 1)
    [] w = w3 -> W(m2, "EQUAL_TO", 2)]
Second == [w \in Watchpoints |->
  CASE w = w1 -> W(m2, "GREATER_THAN_OR_EQUAL_TO", 2) [] OTHER -> W(NoMid, "EQUAL_TO", 0)]
Far == [Both EXCEPT ![w1].value = -4]

(* Equations over one and two messages; one that breaks, before one that   *)
(* does not; one that has no end mark.                                     *)
OneOfEach == <<A("ACTIVE", 1, <<w1, w3, "NOT", "AND">>, {{w1}}),
               A("PASSIVE", 2, <<w1, w2, "NOT", "AND">>, {{w1}})>>
Broken    == <<A("ACTIVE", 1, <<w1, "AND">>, {}), A("ACTIVE", 1, <<w1>>, {{w1}})>>
Endless   == <<A("ACTIVE", 2, <<w1, "NOT", "NOT", "NOT", "NOT">>, {}),
               A("ACTIVE", 1, <<w1, w2, "OR">>, {{w1}, {w2}, {w1, w2}})>>

WDTs == {Both, Second, Far}
ADTs == {OneOfEach, Broken, Endless}

(* What the tables say their equations mean is what they mean.             *)
ASSUME TablesMean == EquationsMean
=============================================================================
