---------------------------- MODULE LimitChecker ----------------------------
(***************************************************************************)
(* The limit checker LC (ofsw/cfs/lc/fsw/src): watchpoints compare a       *)
(* member of a telemetry message with a value, actionpoints combine        *)
(* watchpoints by an equation in reverse polish notation, and one that is  *)
(* TRUE often enough in a row orders a relative time sequence from SC.     *)
(*                                                                         *)
(* Abstracted: a message is its MID and the one value the watchpoints look *)
(* at; the command pipe is the choice of the next command; the hash table  *)
(* is the lookup it computes; the counters of the telemetry packet, which  *)
(* LC never reads, are left out.                                           *)
(***************************************************************************)
EXTENDS Integers, Sequences, FiniteSets

CONSTANTS
  Watchpoints,          (* indexes of the watchpoint table                 *)
  Mids, NoMid,          (* message IDs; that of an unused watchpoint       *)
  LC_MAX_ACTIONPOINTS,
  LC_MAX_RPN_EQU_SIZE,  (* elements of an equation, its end mark included  *)
  WDTables, DefaultWDT, (* watchpoint tables; the one of the file          *)
  ADTables, DefaultADT, (* actionpoint tables; the one of the file         *)
  Data,                 (* values in telemetry                             *)
  Word,                 (* a difference wraps at this (2^32)               *)
  CountMod,             (* ActionpointFailureCount wraps at this (2^8)     *)
  PipeDepth,            (* messages TlmPipe holds                          *)
  MaxGround,            (* bound: ground commands, table loads, restarts   *)
  MaxFaults             (* bound: calls of the software bus that fail      *)

Actionpoints == 1..LC_MAX_ACTIONPOINTS
Operators    == {"AND", "OR", "NOT"}
States       == {"DISABLED", "PASSIVE", "ACTIVE"}

WatchpointDefinition ==
  [message_id : Mids \union {NoMid},
   operator_id : {"EQUAL_TO", "NOT_EQUAL_TO", "LESS_THAN", "LESS_THAN_OR_EQUAL_TO",
                  "GREATER_THAN_OR_EQUAL_TO", "GREATER_THAN"},
   value : Int]

(* means: the sets of watchpoints whose being TRUE, the others being       *)
(* FALSE, the author of the equation takes for an alarm.                   *)
ActionpointDefinition ==
  [default_state : States, max_fail_before_rts : Nat,
   rpn_equation : Seq(Watchpoints \union Operators), means : SUBSET SUBSET Watchpoints]

ASSUME LcAssumption ==
  /\ LC_MAX_ACTIONPOINTS \in Nat /\ LC_MAX_RPN_EQU_SIZE \in Nat
  /\ WDTables \subseteq [Watchpoints -> WatchpointDefinition] /\ DefaultWDT \in WDTables
  /\ ADTables \subseteq [Actionpoints -> ActionpointDefinition] /\ DefaultADT \in ADTables
  /\ Data \subseteq Int /\ NoMid \notin Mids /\ Operators \intersect Watchpoints = {}
  /\ Word \in Nat \ {0} /\ CountMod \in Nat \ {0}
  /\ PipeDepth \in Nat /\ MaxGround \in Nat /\ MaxFaults \in Nat

Message == [mid : Mids, data : Data]

VARIABLES
  pipe, subscribed,        (* TlmPipe, and the MIDs that are routed to it  *)
  task, tlm_received,      (* the task; this cycle took a message          *)
  wdt, adt,                (* the tables                                   *)
  listed, lookup,          (* Subscriptions[]; the watchpoints of a MID    *)
  LcEnabled,
  WatchpointUpdated, WatchpointState,
  ActionpointState, ActionpointEval, ActionpointFailureCount,
  ground, faults,          (* commands and faults so far                   *)
  hist                     (* history, see History                         *)

bus    == <<pipe, subscribed>>
tables == <<wdt, adt, listed, lookup>>
points == <<WatchpointUpdated, WatchpointState>>
states == <<ActionpointState, ActionpointEval, ActionpointFailureCount>>
vars   == <<bus, task, tlm_received, tables, LcEnabled, points, states, ground, faults, hist>>

(* latest: value of the last message of this cycle (Silent: none); orders: *)
(* RTSs sent since the actionpoint was last set by command or start-up;    *)
(* streak: evaluations in a row that are an alarm for the table's author;  *)
(* ready: it was ACTIVE when LC was enabled, or LC was enabled when it was *)
(* set ACTIVE, and neither was commanded otherwise since;                  *)
(* trusted: since start-up every subscription and lookup could be made and *)
(* no watchpoint compared values half a word apart.                        *)
Silent == [heard |-> FALSE]
Value(x) == [heard |-> TRUE, value |-> x]
History ==
  [latest : [Mids -> {Silent} \union {Value(x) : x \in Data}],
   orders : [Actionpoints -> 0..2],
   streak : [Actionpoints -> 0..CountMod],
   ready : [Actionpoints -> BOOLEAN],
   trusted : BOOLEAN]

-----------------------------------------------------------------------------
(* Comparison of a watchpoint: the sign of a 32-bit difference.            *)
Signed(n) == IF 2 * n >= Word THEN n - Word ELSE n
Difference(x, v) == Signed((x - v) % Word)

EvalWp(operator, diff) ==
  \/ operator = "EQUAL_TO" /\ diff = 0
  \/ operator = "NOT_EQUAL_TO" /\ diff # 0
  \/ operator = "LESS_THAN" /\ diff < 0
  \/ operator = "LESS_THAN_OR_EQUAL_TO" /\ diff <= 0
  \/ operator = "GREATER_THAN_OR_EQUAL_TO" /\ diff >= 0
  \/ operator = "GREATER_THAN" /\ diff > 0

(* What the comparison is to be, whatever the width.                       *)
Holds(wp, x) == EvalWp(wp.operator_id, x - wp.value)

Narrow(t) == \A w \in Watchpoints, x \in Data :
  2 * (x - t[w].value) \in -(Word - 1)..(Word - 1)

-----------------------------------------------------------------------------
(* The stack machine: the top of the stack is the head of the sequence; an *)
(* operator that finds too few operands ends it.                           *)
Truth(b) == IF b THEN 1 ELSE 0

Apply(m, e, on) ==
  LET st == m.stack
      To(s) == [ok |-> TRUE, stack |-> s]
  IN  CASE m.ok /\ e \in Watchpoints -> To(<<Truth(on[e])>> \o st)
        [] m.ok /\ e = "NOT" /\ Len(st) >= 1 -> To(<<1 - st[1]>> \o Tail(st))
        [] m.ok /\ e = "AND" /\ Len(st) >= 2 ->
             To(<<Truth(st[1] = 1 /\ st[2] = 1)>> \o Tail(Tail(st)))
        [] m.ok /\ e = "OR" /\ Len(st) >= 2 ->
             To(<<Truth(st[1] = 1 \/ st[2] = 1)>> \o Tail(Tail(st)))
        [] OTHER -> [ok |-> FALSE, stack |-> << >>]

Solve(equation, on) ==
  LET after[i \in 0..Len(equation)] ==
        IF i = 0 THEN [ok |-> TRUE, stack |-> << >>] ELSE Apply(after[i - 1], equation[i], on)
  IN  after[Len(equation)]

Terminated(equation) == Len(equation) < LC_MAX_RPN_EQU_SIZE
NamedIn(equation) == {w \in Watchpoints : \E i \in DOMAIN equation : equation[i] = w}
Named(a) == NamedIn(adt[a].rpn_equation)

(* Of a set of tables: an equation is TRUE only for what its author takes  *)
(* for an alarm.                                                           *)
EquationsMean ==
  \A t \in ADTables, a \in Actionpoints, on \in [Watchpoints -> BOOLEAN] :
    LET equation == t[a].rpn_equation
        m == Solve(equation, on)
    IN  m.ok /\ Terminated(equation) /\ Head(m.stack) = 1 =>
          {w \in NamedIn(equation) : on[w]} \in t[a].means

-----------------------------------------------------------------------------
(* Subscriptions.  Those that are not listed yet are made one by one, done *)
(* are those before the first that fails; the lookup is made last.         *)
MidsOf(t) == {t[w].message_id : w \in Watchpoints} \ {NoMid}
Lookup(t) == [m \in Mids |-> {w \in Watchpoints : t[w].message_id = m}]

Subscribe(t, before, done) ==
  /\ done \subseteq MidsOf(t) \ listed
  /\ subscribed' = before \union done
  /\ listed' = listed \union done
  /\ \/ done = MidsOf(t) \ listed /\ lookup' = Lookup(t)
        /\ hist' = [hist EXCEPT !.trusted = @ /\ Narrow(t)] /\ UNCHANGED faults
     \/ done # MidsOf(t) \ listed /\ faults < MaxFaults /\ faults' = faults + 1
        /\ hist' = [hist EXCEPT !.trusted = FALSE] /\ UNCHANGED lookup

(* AppInit: the tables are those of the files, LC is disabled.             *)
Start ==
  [subscribed |-> MidsOf(DefaultWDT), lookup |-> Lookup(DefaultWDT),
   state |-> [a \in Actionpoints |-> DefaultADT[a].default_state],
   hist |-> [latest |-> [m \in Mids |-> Silent],
             orders |-> [a \in Actionpoints |-> 0],
             streak |-> [a \in Actionpoints |-> 0],
             ready |-> [a \in Actionpoints |-> FALSE],
             trusted |-> Narrow(DefaultWDT)]]

Init ==
  /\ pipe = << >> /\ subscribed = Start.subscribed
  /\ task = "waiting" /\ tlm_received = FALSE
  /\ wdt = DefaultWDT /\ adt = DefaultADT
  /\ listed = Start.subscribed /\ lookup = Start.lookup
  /\ LcEnabled = FALSE
  /\ WatchpointUpdated = [w \in Watchpoints |-> FALSE]
  /\ WatchpointState = [w \in Watchpoints |-> FALSE]
  /\ ActionpointState = Start.state
  /\ ActionpointEval = [a \in Actionpoints |-> FALSE]
  /\ ActionpointFailureCount = [a \in Actionpoints |-> 0]
  /\ ground = 0 /\ faults = 0
  /\ hist = Start.hist

-----------------------------------------------------------------------------
(* Telemetry is published at any time; a full pipe takes none.             *)
SendTelemetry ==
  /\ task # "ended" /\ Len(pipe) < PipeDepth
  /\ \E m \in subscribed, x \in Data : pipe' = Append(pipe, [mid |-> m, data |-> x])
  /\ UNCHANGED <<subscribed, task, tlm_received, tables, LcEnabled, points, states,
                 ground, faults, hist>>

-----------------------------------------------------------------------------
(* Fault: the results of the last cycle are kept.                          *)
EvalTickKeepsResults ==
  /\ task = "waiting" /\ task' = "draining" /\ tlm_received' = FALSE
  /\ hist' = [hist EXCEPT !.latest = [m \in Mids |-> Silent]]
  /\ UNCHANGED <<bus, tables, LcEnabled, points, states, ground, faults>>

(* LC_EVAL_WPAP_MID: the results of the last cycle are cleared, then the   *)
(* pipe is drained, then the actionpoints are processed.                   *)
EvalTick ==
  /\ task = "waiting" /\ task' = "draining" /\ tlm_received' = FALSE
  /\ WatchpointUpdated' = [w \in Watchpoints |-> FALSE]
  /\ WatchpointState' = [w \in Watchpoints |-> FALSE]
  /\ hist' = [hist EXCEPT !.latest = [m \in Mids |-> Silent]]
  /\ UNCHANGED <<bus, tables, LcEnabled, states, ground, faults>>

(* A watchpoint the lookup has under another MID than the table reads some *)
(* other bytes of the message: misread is what it finds.                   *)
Drain ==
  /\ task = "draining" /\ pipe # << >>
  /\ LET m == Head(pipe).mid
         x == Head(pipe).data
     IN  /\ \E misread \in [{w \in lookup[m] : wdt[w].message_id # m} -> BOOLEAN] :
              WatchpointState' = [w \in Watchpoints |->
                IF w \notin lookup[m] THEN WatchpointState[w]
                ELSE IF wdt[w].message_id # m THEN misread[w]
                ELSE EvalWp(wdt[w].operator_id, Difference(x, wdt[w].value))]
         /\ WatchpointUpdated' =
              [w \in Watchpoints |-> w \in lookup[m] \/ WatchpointUpdated[w]]
         /\ hist' = [hist EXCEPT !.latest[m] = Value(x)]
  /\ pipe' = Tail(pipe) /\ tlm_received' = TRUE
  /\ UNCHANGED <<subscribed, task, tables, LcEnabled, states, ground, faults>>

(* An error of the pipe other than that it is empty ends the application.  *)
TlmError ==
  /\ task = "draining" /\ faults < MaxFaults /\ faults' = faults + 1
  /\ task' = "ended"
  /\ UNCHANGED <<bus, tlm_received, tables, LcEnabled, points, states, ground, hist>>

-----------------------------------------------------------------------------
(* One actionpoint.  It is looked at if any of its watchpoints has news;   *)
(* an equation that breaks ends the cycle, one without end mark has no     *)
(* result.                                                                 *)
Verdict(a) ==
  LET equation == adt[a].rpn_equation
      m == Solve(equation, WatchpointState)
  IN  CASE \A w \in Named(a) : ~WatchpointUpdated[w] -> "untouched"
        [] OTHER -> CASE ~m.ok -> "broken"
                      [] m.ok /\ ~Terminated(equation) -> "endless"
                      [] m.ok /\ Terminated(equation) /\ Head(m.stack) = 1 -> "alarm"
                      [] OTHER -> "pass"

(* Fault: the count is as wide as the limit.                               *)
FailuresWide(a) == ActionpointFailureCount[a] + 1

Failures(a) == (ActionpointFailureCount[a] + 1) % CountMod

(* Fault: one failure more than the table asks for.                        *)
ConfirmedLate(a) == Failures(a) > adt[a].max_fail_before_rts

Confirmed(a) == Failures(a) >= adt[a].max_fail_before_rts

Armed(a) == LcEnabled /\ ActionpointState[a] = "ACTIVE"

(* What the author of the table takes for an alarm, and says of the        *)
(* messages of this cycle.                                                 *)
Raised == {w \in Watchpoints : /\ wdt[w].message_id \in Mids
                               /\ hist.latest[wdt[w].message_id].heard
                               /\ Holds(wdt[w], hist.latest[wdt[w].message_id].value)}
Meant(a) == Raised \intersect Named(a) \in adt[a].means
AtMost(n, limit) == IF n > limit THEN limit ELSE n

(* v: the verdicts of this cycle.  An equation that is FALSE starts the    *)
(* count again.                                                            *)
(* Fault: an equation that is FALSE leaves the count alone.                *)
CountKept(a, v) == IF v[a] = "alarm" THEN Failures(a) ELSE ActionpointFailureCount[a]
Count(a, v) == CASE v[a] = "alarm" -> Failures(a)
                 [] v[a] = "pass" -> 0
                 [] OTHER -> ActionpointFailureCount[a]

Trips(a, v) == v[a] = "alarm" /\ Confirmed(a)

(* An actionpoint that trips is made PASSIVE, but for the one at which the *)
(* cycle stops.                                                            *)
(* Fault: it keeps its state.                                              *)
PassivatesNever(a, v, stop) == FALSE
(* Fault: it is made PASSIVE before its order is sent.                     *)
PassivatesFirst(a, v, stop) == a <= stop /\ Trips(a, v)
Passivates(a, v, stop) == a < stop /\ Trips(a, v)

(* The actionpoints before stop are processed; at stop an equation breaks  *)
(* or the order cannot be sent, which ends the cycle.                      *)
ProcessActionpoints(stop) ==
  LET v        == [a \in Actionpoints |-> Verdict(a)]
      Heard(a) == a <= stop /\ v[a] \in {"alarm", "pass"}
  IN  /\ \A a \in Actionpoints : a < stop => v[a] # "broken"
      /\ \/ (stop \in Actionpoints => v[stop] = "broken") /\ UNCHANGED faults
         \/ /\ stop \in Actionpoints /\ Trips(stop, v) /\ Armed(stop)
            /\ faults < MaxFaults /\ faults' = faults + 1
      /\ ActionpointEval' = [a \in Actionpoints |->
           IF Heard(a) THEN v[a] = "alarm" ELSE ActionpointEval[a]]
      /\ ActionpointFailureCount' = [a \in Actionpoints |->
           IF Heard(a) THEN Count(a, v) ELSE ActionpointFailureCount[a]]
      /\ ActionpointState' = [a \in Actionpoints |->
           IF Passivates(a, v, stop) THEN "PASSIVE" ELSE ActionpointState[a]]
      /\ hist' = [hist EXCEPT
           !.orders = [a \in Actionpoints |->
             IF a < stop /\ Trips(a, v) /\ Armed(a) THEN AtMost(@[a] + 1, 2) ELSE @[a]],
           !.streak = [a \in Actionpoints |->
             IF Heard(a) THEN IF Meant(a) THEN AtMost(@[a] + 1, CountMod) ELSE 0 ELSE @[a]]]

Finish == task = "draining" /\ pipe = << >> /\ task' = "waiting"

EndCycle ==
  /\ Finish
  /\ IF tlm_received
     THEN \E stop \in 1..(LC_MAX_ACTIONPOINTS + 1) : ProcessActionpoints(stop)
     ELSE UNCHANGED <<states, faults, hist>>
  /\ UNCHANGED <<bus, tlm_received, tables, LcEnabled, points, ground>>

-----------------------------------------------------------------------------
(* Commands, taken between cycles.                                         *)
Ground == task = "waiting" /\ ground < MaxGround /\ ground' = ground + 1

SetGlobalState(on) ==
  /\ Ground /\ LcEnabled' = on
  /\ hist' = [hist EXCEPT !.ready = [a \in Actionpoints |-> on /\ ActionpointState[a] = "ACTIVE"]]
  /\ UNCHANGED <<bus, task, tlm_received, tables, points, states, faults>>

SetActionpointState(a, new) ==
  /\ Ground /\ ActionpointState' = [ActionpointState EXCEPT ![a] = new]
  /\ hist' = [hist EXCEPT !.orders[a] = 0, !.ready[a] = LcEnabled /\ new = "ACTIVE"]
  /\ UNCHANGED <<bus, task, tlm_received, tables, LcEnabled, points, ActionpointEval,
                 ActionpointFailureCount, faults>>

ResetActionpointStates ==
  /\ Ground
  /\ ActionpointState' = [a \in Actionpoints |-> adt[a].default_state]
  /\ hist' = [hist EXCEPT
       !.orders = [a \in Actionpoints |-> 0],
       !.ready = [a \in Actionpoints |-> LcEnabled /\ adt[a].default_state = "ACTIVE"]]
  /\ UNCHANGED <<bus, task, tlm_received, tables, LcEnabled, points, ActionpointEval,
                 ActionpointFailureCount, faults>>

(* A housekeeping request finds a table loaded.  A new actionpoint table   *)
(* takes effect as it is; for a watchpoint table all that is listed is     *)
(* unsubscribed, and what the new table needs is subscribed.               *)
ManageActionpointTable(t) ==
  /\ Ground /\ adt' = t
  /\ UNCHANGED <<bus, task, tlm_received, wdt, listed, lookup, LcEnabled, points, states,
                 faults, hist>>

ManageWatchpointTable(t) ==
  /\ Ground /\ wdt' = t
  /\ \E done \in SUBSET (MidsOf(t) \ listed) : Subscribe(t, subscribed \ listed, done)
  /\ UNCHANGED <<pipe, task, tlm_received, adt, LcEnabled, points, states>>

(* The application is started again.                                       *)
Restart ==
  /\ task \in {"waiting", "ended"} /\ ground < MaxGround /\ ground' = ground + 1
  /\ pipe' = << >> /\ subscribed' = Start.subscribed
  /\ task' = "waiting" /\ tlm_received' = FALSE
  /\ wdt' = DefaultWDT /\ adt' = DefaultADT
  /\ listed' = Start.subscribed /\ lookup' = Start.lookup
  /\ LcEnabled' = FALSE
  /\ WatchpointUpdated' = [w \in Watchpoints |-> FALSE]
  /\ WatchpointState' = [w \in Watchpoints |-> FALSE]
  /\ ActionpointState' = Start.state
  /\ ActionpointEval' = [a \in Actionpoints |-> FALSE]
  /\ ActionpointFailureCount' = [a \in Actionpoints |-> 0]
  /\ hist' = Start.hist /\ UNCHANGED faults

Next ==
  \/ SendTelemetry
  \/ EvalTick \/ Drain \/ TlmError \/ EndCycle
  \/ \E on \in BOOLEAN : SetGlobalState(on)
  \/ \E a \in Actionpoints, new \in States : SetActionpointState(a, new)
  \/ ResetActionpointStates
  \/ \E t \in ADTables \ {adt} : ManageActionpointTable(t)
  \/ \E t \in WDTables : ManageWatchpointTable(t)
  \/ Restart

Spec == Init /\ [][Next]_vars

(* The scheduler sends its tick; the task drains its pipe faster than      *)
(* telemetry fills it, so a drained pipe is found empty in the end.        *)
FairSpec == Spec /\ WF_vars(EvalTick) /\ WF_vars(Drain) /\ SF_task(Finish)

-----------------------------------------------------------------------------
(***************************************************************************)
(* Properties                                                              *)
(***************************************************************************)

(* Every variable keeps to its type.                                       *)
BusOK ==
  /\ pipe \in Seq(Message) /\ Len(pipe) <= PipeDepth
  /\ subscribed \subseteq Mids
TablesOK ==
  /\ wdt \in WDTables /\ adt \in ADTables
  /\ listed \subseteq Mids /\ lookup \in [Mids -> SUBSET Watchpoints]
TaskOK ==
  /\ task \in {"waiting", "draining", "ended"} /\ tlm_received \in BOOLEAN
  /\ LcEnabled \in BOOLEAN
  /\ ground \in 0..MaxGround /\ faults \in 0..MaxFaults
PointsOK ==
  /\ WatchpointUpdated \in [Watchpoints -> BOOLEAN]
  /\ WatchpointState \in [Watchpoints -> BOOLEAN]
StatesOK ==
  /\ ActionpointState \in [Actionpoints -> States]
  /\ ActionpointEval \in [Actionpoints -> BOOLEAN]
  /\ ActionpointFailureCount \in [Actionpoints -> 0..(CountMod - 1)]
PastOK == hist \in History
TypeOK == BusOK /\ TablesOK /\ TaskOK /\ PointsOK /\ StatesOK /\ PastOK

(* While a cycle is under way the watchpoints say what the messages of     *)
(* this cycle say: one has news if a message of its MID came, and is TRUE  *)
(* if the latest such message meets its comparison.                        *)
WatchpointsRight ==
  (hist.trusted /\ task = "draining") =>
    \A w \in Watchpoints :
      /\ WatchpointUpdated[w] <=> /\ wdt[w].message_id \in Mids
                                  /\ hist.latest[wdt[w].message_id].heard
      /\ WatchpointState[w] <=> w \in Raised

(* From one setting of an actionpoint to the next it orders its RTS at     *)
(* most once.                                                              *)
OneShot == \A a \in Actionpoints : hist.orders[a] <= 1

(* An actionpoint that is ACTIVE while LC is enabled stays so until its    *)
(* order was sent or ground commands otherwise, whatever goes wrong.       *)
ArmedUntilOrdered ==
  \A a \in Actionpoints :
    (hist.ready[a] /\ hist.orders[a] = 0) => (LcEnabled /\ ActionpointState[a] = "ACTIVE")

(* An RTS is ordered only by an ACTIVE actionpoint of an enabled LC, after *)
(* as many evaluations in a row as its table asks for that all were an     *)
(* alarm as its author means it, each of messages of its own cycle.        *)
AlarmConfirmed ==
  [][\A a \in Actionpoints : hist'.orders[a] > hist.orders[a] =>
       /\ LcEnabled /\ ActionpointState[a] = "ACTIVE"
       /\ hist.trusted => hist'.streak[a] >= adt[a].max_fail_before_rts]_vars

(* An alarm that goes on is answered: an actionpoint that looks at one     *)
(* message, is ready, and hears of nothing but its alarm, again and again, *)
(* orders its RTS, unless its equation or one before it is ill formed.     *)
Watched(a) == {wdt[w].message_id : w \in Named(a)}
Alarming(a, msg) ==
  {w \in Named(a) : Holds(wdt[w], msg.data)} \in adt[a].means
Pending(a) == \E i \in DOMAIN pipe : pipe[i].mid \in Watched(a)
OnlyAlarms(a) ==
  /\ Cardinality(Watched(a)) = 1
  /\ \A i \in DOMAIN pipe : pipe[i].mid \in Watched(a) => Alarming(a, pipe[i])
Solvable == {p \in ADTables \X Actionpoints :
  /\ Terminated(p[1][p[2]].rpn_equation)
  /\ \A b \in 1..p[2], on \in [Watchpoints -> BOOLEAN] : Solve(p[1][b].rpn_equation, on).ok}
AlarmAnswered ==
  \A a \in Actionpoints :
    ~ /\ []<>Pending(a)
      /\ <>[](OnlyAlarms(a) /\ <<adt, a>> \in Solvable)
      /\ <>[](hist.trusted /\ hist.ready[a] /\ hist.orders[a] = 0 /\ task # "ended")

(* lc_task.c:141 "we need to drop our current subscriptions, update the    *)
(* table, and then subscribe to everything in the new table": LC receives  *)
(* what its watchpoints look at.                                           *)
SubscribedToTable == hist.trusted => MidsOf(wdt) \subseteq subscribed
=============================================================================
