--------------------------- MODULE MCHealthSafety ---------------------------
(* Instances of HealthSafety for TLC.                                      *)
EXTENDS HealthSafety

CONSTANTS a, m

A(name, cycles, action) == [AppName |-> name, CycleCount |-> cycles, ActionType |-> action]
E(name, id, action)     == [AppName |-> name, EventId |-> id, ActionType |-> action]

(* The application is restarted, or reported and watched at another entry. *)
AppTables ==
  {<<A(a, 2, "APP_RESTART"), A(NoApp, 0, m)>>, <<A(NoApp, 0, m), A(a, 2, m)>>}

(* An event HS answers with an event it answers; an error of HS, for which *)
(* it restarts itself; one that resets all.                                *)
EventTables ==
  {<<E("HS", "ACTION_INF", "SEND_EVENT"), E("HS", "ERR", "APP_RESTART"),
     E(a, "ERR", "PROCESSOR_RESET")>>}

MessageTables == {[n \in Messages |-> TRUE]}
=============================================================================
