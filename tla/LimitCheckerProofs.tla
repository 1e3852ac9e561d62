------------------------- MODULE LimitCheckerProofs -------------------------
(***************************************************************************)
(* Theorems about the limit checker, for every set of tables, every length *)
(* of an equation, every width of the counts and every depth of the pipe.  *)
(***************************************************************************)
EXTENDS LimitChecker, SequenceTheorems, TLAPS

(* A comparison is TRUE or FALSE.                                          *)
LEMMA EvalTyped ==
  ASSUME NEW op, NEW d  PROVE EvalWp(op, d) \in BOOLEAN
  BY Zenon DEF EvalWp

(* One more failure is a count again.                                      *)
LEMMA FailuresTyped ==
  ASSUME StatesOK, NEW a \in Actionpoints
  PROVE  Failures(a) \in 0..(CountMod - 1)
  BY LcAssumption DEF Failures, StatesOK

(* What the fields of a table, of a message and of the history are.        *)
LEMMA TableFields ==
  /\ \A t \in WDTables : t \in [Watchpoints -> WatchpointDefinition]
  /\ \A t \in WDTables, w \in Watchpoints :
       t[w].message_id \in Mids \union {NoMid} /\ t[w].value \in Int
  /\ \A t \in ADTables, a \in Actionpoints :
       t[a].default_state \in States /\ t[a].max_fail_before_rts \in Nat
<1>1. \A t \in WDTables : t \in [Watchpoints -> WatchpointDefinition]
  BY LcAssumption
<1>2. \A t \in ADTables : t \in [Actionpoints -> ActionpointDefinition]
  BY LcAssumption
<1>3. \A d \in ActionpointDefinition :
        d.default_state \in States /\ d.max_fail_before_rts \in Nat
  BY DEF ActionpointDefinition
<1>4. \A d \in WatchpointDefinition : d.message_id \in Mids \union {NoMid} /\ d.value \in Int
  BY DEF WatchpointDefinition
<1> QED BY <1>1, <1>2, <1>3, <1>4

LEMMA MidsTyped ==
  ASSUME NEW t \in WDTables
  PROVE  MidsOf(t) \subseteq Mids /\ Lookup(t) \in [Mids -> SUBSET Watchpoints]
  BY TableFields DEF MidsOf, Lookup

LEMMA HistoryFields ==
  ASSUME NEW h \in History
  PROVE  /\ h.latest \in [Mids -> {Silent} \union {Value(x) : x \in Data}]
         /\ h.orders \in [Actionpoints -> 0..2]
         /\ h.streak \in [Actionpoints -> 0..CountMod]
         /\ h.ready \in [Actionpoints -> BOOLEAN]
         /\ h.trusted \in BOOLEAN
  BY DEF History

(* A field of the history replaced by another value of its type.           *)
LEMMA HistoryUpdates ==
  ASSUME NEW h \in History
  PROVE  /\ \A l \in [Mids -> {Silent} \union {Value(x) : x \in Data}] :
              [h EXCEPT !.latest = l] \in History
         /\ \A r \in [Actionpoints -> BOOLEAN] : [h EXCEPT !.ready = r] \in History
         /\ \A b \in BOOLEAN : [h EXCEPT !.trusted = b] \in History
         /\ \A o \in [Actionpoints -> 0..2], s \in [Actionpoints -> 0..CountMod] :
              [h EXCEPT !.orders = o, !.streak = s] \in History
         /\ \A o \in [Actionpoints -> 0..2], r \in [Actionpoints -> BOOLEAN] :
              [h EXCEPT !.orders = o, !.ready = r] \in History
  BY DEF History

-----------------------------------------------------------------------------
(* Every variable keeps to its type.  First the start.                     *)
LEMMA StartTyped ==
  /\ Start.subscribed \subseteq Mids
  /\ Start.lookup \in [Mids -> SUBSET Watchpoints]
  /\ Start.state \in [Actionpoints -> States]
  /\ Start.hist \in History
<1>1. DefaultWDT \in WDTables /\ DefaultADT \in ADTables
  BY LcAssumption
<1>2. Start.subscribed \subseteq Mids /\ Start.lookup \in [Mids -> SUBSET Watchpoints]
  BY <1>1, MidsTyped DEF Start
<1>3. Start.state \in [Actionpoints -> States]
  BY <1>1, TableFields DEF Start
<1>4. Start.hist \in History
  <2>1. Narrow(DefaultWDT) \in BOOLEAN
    BY DEF Narrow
  <2>2. Start.hist =
          [latest |-> [m \in Mids |-> Silent],
           orders |-> [a \in Actionpoints |-> 0],
           streak |-> [a \in Actionpoints |-> 0],
           ready |-> [a \in Actionpoints |-> FALSE],
           trusted |-> Narrow(DefaultWDT)]
    BY DEF Start
  <2> QED BY <2>1, <2>2, LcAssumption DEF History
<1> QED BY <1>2, <1>3, <1>4

LEMMA TypeInit == Init => TypeOK
<1> SUFFICES ASSUME Init  PROVE TypeOK
  OBVIOUS
<1>1. BusOK
  <2>1. pipe \in Seq(Message) /\ Len(pipe) <= PipeDepth
    BY LcAssumption DEF Init
  <2> QED BY <2>1, StartTyped DEF Init, BusOK
<1>2. TablesOK
  BY LcAssumption, StartTyped DEF Init, TablesOK
<1>3. TaskOK
  <2>1. ground \in 0..MaxGround /\ faults \in 0..MaxFaults
    BY LcAssumption DEF Init
  <2> QED BY <2>1 DEF Init, TaskOK
<1>4. PointsOK
  BY DEF Init, PointsOK
<1>5. StatesOK
  BY LcAssumption, StartTyped DEF Init, StatesOK
<1>6. PastOK
  BY StartTyped DEF Init, PastOK
<1> QED BY <1>1, <1>2, <1>3, <1>4, <1>5, <1>6 DEF TypeOK

(* What an action leaves alone stays well typed.                           *)
LEMMA Untouched ==
  /\ BusOK /\ UNCHANGED bus => BusOK'
  /\ TablesOK /\ UNCHANGED tables => TablesOK'
  /\ TaskOK /\ UNCHANGED <<task, tlm_received, LcEnabled, ground, faults>> => TaskOK'
  /\ PointsOK /\ UNCHANGED points => PointsOK'
  /\ StatesOK /\ UNCHANGED states => StatesOK'
  /\ PastOK /\ UNCHANGED hist => PastOK'
  BY DEF BusOK, TablesOK, TaskOK, PointsOK, StatesOK, PastOK, bus, tables, points, states

LEMMA TypeCycle ==
  TypeOK /\ (SendTelemetry \/ EvalTick \/ Drain \/ TlmError) => TypeOK'
<1> SUFFICES ASSUME TypeOK  PROVE SendTelemetry \/ EvalTick \/ Drain \/ TlmError => TypeOK'
  OBVIOUS
<1> USE DEF TypeOK
<1>1. ASSUME SendTelemetry  PROVE TypeOK'
  <2>1. PICK m \in subscribed, x \in Data : pipe' = Append(pipe, [mid |-> m, data |-> x])
    BY <1>1 DEF SendTelemetry
  <2>2. [mid |-> m, data |-> x] \in Message
    BY <2>1 DEF BusOK, Message
  <2>3. pipe' \in Seq(Message) /\ Len(pipe') <= PipeDepth
    BY <1>1, <2>1, <2>2, LcAssumption DEF SendTelemetry, BusOK
  <2>4. BusOK'
    BY <1>1, <2>3 DEF SendTelemetry, BusOK
  <2> QED BY <1>1, <2>4, Untouched DEF SendTelemetry
<1>2. ASSUME EvalTick  PROVE TypeOK'
  <2>1. PointsOK'
    BY <1>2 DEF EvalTick, PointsOK
  <2>2. TaskOK'
    BY <1>2 DEF EvalTick, TaskOK
  <2>3. PastOK'
    BY <1>2, HistoryUpdates DEF EvalTick, PastOK
  <2> QED BY <1>2, <2>1, <2>2, <2>3, Untouched DEF EvalTick
<1>3. ASSUME Drain  PROVE TypeOK'
  <2>1. Head(pipe) \in Message /\ Tail(pipe) \in Seq(Message) /\ Len(Tail(pipe)) <= PipeDepth
    BY <1>3, LcAssumption, HeadTailProperties DEF Drain, BusOK
  <2>2. Head(pipe).mid \in Mids /\ Head(pipe).data \in Data
    BY <2>1 DEF Message
  <2>3. BusOK'
    BY <1>3, <2>1 DEF Drain, BusOK
  <2>4. TaskOK'
    BY <1>3 DEF Drain, TaskOK
  <2>5. PICK misread \in [{w \in lookup[Head(pipe).mid] :
                             wdt[w].message_id # Head(pipe).mid} -> BOOLEAN] :
          WatchpointState' = [w \in Watchpoints |->
            IF w \notin lookup[Head(pipe).mid] THEN WatchpointState[w]
            ELSE IF wdt[w].message_id # Head(pipe).mid THEN misread[w]
            ELSE EvalWp(wdt[w].operator_id, Difference(Head(pipe).data, wdt[w].value))]
    BY <1>3 DEF Drain
  <2>6. \A w \in Watchpoints : WatchpointState'[w] \in BOOLEAN
    <3>1. ASSUME NEW w \in Watchpoints  PROVE WatchpointState'[w] \in BOOLEAN
      <4>1. CASE w \notin lookup[Head(pipe).mid]
        <5>1. WatchpointState'[w] = WatchpointState[w]
          BY <2>5, <4>1
        <5> QED BY <5>1 DEF PointsOK
      <4>2. CASE /\ w \in lookup[Head(pipe).mid]
                 /\ wdt[w].message_id # Head(pipe).mid
        <5>1. misread[w] \in BOOLEAN
          BY <2>5, <4>2
        <5>2. WatchpointState'[w] = misread[w]
          BY <2>5, <4>2
        <5> QED BY <5>1, <5>2
      <4>3. CASE /\ w \in lookup[Head(pipe).mid]
                 /\ wdt[w].message_id = Head(pipe).mid
        <5>1. WatchpointState'[w] =
                EvalWp(wdt[w].operator_id, Difference(Head(pipe).data, wdt[w].value))
          BY <2>5, <4>3
        <5> QED BY <5>1, EvalTyped
      <4> QED BY <4>1, <4>2, <4>3
    <3> QED BY <3>1
  <2>7. WatchpointUpdated' = [w \in Watchpoints |->
                               w \in lookup[Head(pipe).mid] \/ WatchpointUpdated[w]]
    BY <1>3 DEF Drain
  <2>8. PointsOK'
    BY <2>5, <2>6, <2>7 DEF PointsOK
  <2>9. PastOK'
    <3>1. hist' = [hist EXCEPT !.latest = [@ EXCEPT ![Head(pipe).mid] = Value(Head(pipe).data)]]
      BY <1>3 DEF Drain
    <3>2. [hist.latest EXCEPT ![Head(pipe).mid] = Value(Head(pipe).data)]
            \in [Mids -> {Silent} \union {Value(x) : x \in Data}]
      BY <2>2, HistoryFields DEF PastOK
    <3> QED BY <3>1, <3>2, HistoryUpdates DEF PastOK
  <2> QED BY <1>3, <2>3, <2>4, <2>8, <2>9, Untouched DEF Drain
<1>4. ASSUME TlmError  PROVE TypeOK'
  <2>1. TaskOK'
    BY <1>4, LcAssumption DEF TlmError, TaskOK
  <2> QED BY <1>4, <2>1, Untouched DEF TlmError
<1> QED BY <1>1, <1>2, <1>3, <1>4

(* The actionpoints of a cycle.                                            *)
LEMMA TypeProcess ==
  ASSUME StatesOK, PastOK, TaskOK, NEW stop \in 1..(LC_MAX_ACTIONPOINTS + 1),
         ProcessActionpoints(stop)
  PROVE  StatesOK' /\ PastOK' /\ faults' \in 0..MaxFaults
<1> DEFINE v == [a \in Actionpoints |-> Verdict(a)]
           Heard(a) == a <= stop /\ v[a] \in {"alarm", "pass"}
<1>1. faults' \in 0..MaxFaults
  BY LcAssumption DEF ProcessActionpoints, TaskOK
<1>2. StatesOK'
  <2>1. \A a \in Actionpoints : Count(a, v) \in 0..(CountMod - 1)
    BY FailuresTyped, LcAssumption DEF Count, StatesOK
  <2>2. ActionpointFailureCount' = [a \in Actionpoints |->
          IF Heard(a) THEN Count(a, v) ELSE ActionpointFailureCount[a]]
    BY DEF ProcessActionpoints
  <2>3. ActionpointEval' = [a \in Actionpoints |->
          IF Heard(a) THEN v[a] = "alarm" ELSE ActionpointEval[a]]
    BY DEF ProcessActionpoints
  <2>4. ActionpointState' = [a \in Actionpoints |->
          IF Passivates(a, v, stop) THEN "PASSIVE" ELSE ActionpointState[a]]
    BY DEF ProcessActionpoints
  <2> HIDE DEF v, Heard
  <2>5. ActionpointFailureCount' \in [Actionpoints -> 0..(CountMod - 1)]
    BY <2>1, <2>2 DEF StatesOK
  <2>6. ActionpointEval' \in [Actionpoints -> BOOLEAN]
    BY <2>3 DEF StatesOK
  <2>7. ActionpointState' \in [Actionpoints -> States]
    BY <2>4 DEF StatesOK, States
  <2> QED BY <2>5, <2>6, <2>7 DEF StatesOK
<1>3. PastOK'
  <2> DEFINE o == [a \in Actionpoints |->
               IF a < stop /\ Trips(a, v) /\ Armed(a) THEN AtMost(hist.orders[a] + 1, 2)
               ELSE hist.orders[a]]
             s == [a \in Actionpoints |->
               IF Heard(a) THEN IF Meant(a) THEN AtMost(hist.streak[a] + 1, CountMod) ELSE 0
               ELSE hist.streak[a]]
  <2>1. hist' = [hist EXCEPT !.orders = o, !.streak = s]
    BY DEF ProcessActionpoints
  <2>2. \A a \in Actionpoints : hist.orders[a] \in 0..2 /\ hist.streak[a] \in 0..CountMod
    BY HistoryFields DEF PastOK
  <2> HIDE DEF v, Heard
  <2>3. \A n \in 0..2 : AtMost(n + 1, 2) \in 0..2
    BY DEF AtMost
  <2>4. \A n \in 0..CountMod : AtMost(n + 1, CountMod) \in 0..CountMod
    BY LcAssumption DEF AtMost
  <2>5. o \in [Actionpoints -> 0..2]
    BY <2>2, <2>3
  <2>6. s \in [Actionpoints -> 0..CountMod]
    BY <2>2, <2>4, LcAssumption
  <2> HIDE DEF o, s
  <2> QED BY <2>1, <2>5, <2>6, HistoryUpdates DEF PastOK
<1> QED BY <1>1, <1>2, <1>3

LEMMA TypeEndCycle == TypeOK /\ EndCycle => TypeOK'
<1> SUFFICES ASSUME TypeOK, EndCycle  PROVE TypeOK'
  OBVIOUS
<1> USE DEF TypeOK
<1>1. StatesOK' /\ PastOK' /\ faults' \in 0..MaxFaults
  <2>1. CASE tlm_received
    BY <2>1, TypeProcess DEF EndCycle
  <2>2. CASE ~tlm_received
    BY <2>2, Untouched DEF EndCycle, TaskOK, states
  <2> QED BY <2>1, <2>2
<1>2. TaskOK'
  BY <1>1 DEF EndCycle, Finish, TaskOK
<1> QED BY <1>1, <1>2, Untouched DEF EndCycle

LEMMA TypeGround ==
  ASSUME TypeOK
  PROVE  /\ \A on \in BOOLEAN : SetGlobalState(on) => TypeOK'
         /\ \A a \in Actionpoints, new \in States : SetActionpointState(a, new) => TypeOK'
         /\ ResetActionpointStates => TypeOK'
<1> USE DEF TypeOK
<1>1. ASSUME NEW on \in BOOLEAN, SetGlobalState(on)  PROVE TypeOK'
  <2>1. TaskOK'
    BY <1>1, LcAssumption DEF SetGlobalState, Ground, TaskOK
  <2>2. [a \in Actionpoints |-> on /\ ActionpointState[a] = "ACTIVE"] \in [Actionpoints -> BOOLEAN]
    OBVIOUS
  <2>3. PastOK'
    BY <1>1, <2>2, HistoryUpdates DEF SetGlobalState, PastOK
  <2> QED BY <1>1, <2>1, <2>3, Untouched DEF SetGlobalState
<1>2. ASSUME NEW a \in Actionpoints, NEW new \in States, SetActionpointState(a, new)
      PROVE  TypeOK'
  <2>1. TaskOK'
    BY <1>2, LcAssumption DEF SetActionpointState, Ground, TaskOK
  <2>2. StatesOK'
    BY <1>2 DEF SetActionpointState, StatesOK
  <2>3. [hist.orders EXCEPT ![a] = 0] \in [Actionpoints -> 0..2]
    BY HistoryFields DEF PastOK
  <2>4. [hist.ready EXCEPT ![a] = LcEnabled /\ new = "ACTIVE"] \in [Actionpoints -> BOOLEAN]
    BY HistoryFields DEF PastOK, TaskOK
  <2>5. hist' = [hist EXCEPT !.orders = [hist.orders EXCEPT ![a] = 0],
                             !.ready = [hist.ready EXCEPT ![a] = LcEnabled /\ new = "ACTIVE"]]
    BY <1>2 DEF SetActionpointState, PastOK, History
  <2>6. PastOK'
    BY <2>3, <2>4, <2>5, HistoryUpdates DEF PastOK
  <2> QED BY <1>2, <2>1, <2>2, <2>6, Untouched DEF SetActionpointState
<1>3. ASSUME ResetActionpointStates  PROVE TypeOK'
  <2>1. TaskOK'
    BY <1>3, LcAssumption DEF ResetActionpointStates, Ground, TaskOK
  <2>2. StatesOK'
    BY <1>3, TableFields DEF ResetActionpointStates, StatesOK, TablesOK
  <2>3. [a \in Actionpoints |-> 0] \in [Actionpoints -> 0..2]
    OBVIOUS
  <2>4. [a \in Actionpoints |-> LcEnabled /\ adt[a].default_state = "ACTIVE"]
          \in [Actionpoints -> BOOLEAN]
    BY DEF TaskOK
  <2>5. PastOK'
    BY <1>3, <2>3, <2>4, HistoryUpdates DEF ResetActionpointStates, PastOK
  <2> QED BY <1>3, <2>1, <2>2, <2>5, Untouched DEF ResetActionpointStates
<1> QED BY <1>1, <1>2, <1>3

LEMMA TypeTables ==
  ASSUME TypeOK
  PROVE  /\ \A t \in ADTables : ManageActionpointTable(t) => TypeOK'
         /\ \A t \in WDTables : ManageWatchpointTable(t) => TypeOK'
         /\ Restart => TypeOK'
<1> USE DEF TypeOK
<1>1. ASSUME NEW t \in ADTables, ManageActionpointTable(t)  PROVE TypeOK'
  <2>1. TaskOK'
    BY <1>1, LcAssumption DEF ManageActionpointTable, Ground, TaskOK
  <2>2. TablesOK'
    BY <1>1 DEF ManageActionpointTable, TablesOK
  <2> QED BY <1>1, <2>1, <2>2, Untouched DEF ManageActionpointTable
<1>2. ASSUME NEW t \in WDTables, ManageWatchpointTable(t)  PROVE TypeOK'
  <2>1. PICK done \in SUBSET (MidsOf(t) \ listed) : Subscribe(t, subscribed \ listed, done)
    BY <1>2 DEF ManageWatchpointTable
  <2>2. done \subseteq Mids
    BY <2>1, MidsTyped
  <2>3. BusOK'
    BY <1>2, <2>1, <2>2 DEF ManageWatchpointTable, Subscribe, BusOK
  <2>4. lookup' \in [Mids -> SUBSET Watchpoints]
    BY <2>1, MidsTyped DEF Subscribe, TablesOK
  <2>5. TablesOK'
    BY <1>2, <2>1, <2>2, <2>4 DEF ManageWatchpointTable, Subscribe, TablesOK
  <2>6. faults' \in 0..MaxFaults
    BY <2>1, LcAssumption DEF Subscribe, TaskOK
  <2>7. TaskOK'
    BY <1>2, <2>6, LcAssumption DEF ManageWatchpointTable, Ground, TaskOK
  <2>8. (hist.trusted /\ Narrow(t)) \in BOOLEAN
    BY HistoryFields DEF PastOK, Narrow
  <2>9. PastOK'
    BY <2>1, <2>8, HistoryUpdates DEF Subscribe, PastOK
  <2> QED BY <1>2, <2>3, <2>5, <2>7, <2>9, Untouched DEF ManageWatchpointTable
<1>3. ASSUME Restart  PROVE TypeOK'
  <2>1. BusOK'
    <3>1. pipe' \in Seq(Message) /\ Len(pipe') <= PipeDepth
      BY <1>3, LcAssumption DEF Restart
    <3> QED BY <1>3, <3>1, StartTyped DEF Restart, BusOK
  <2>2. TablesOK'
    BY <1>3, LcAssumption, StartTyped DEF Restart, TablesOK
  <2>3. TaskOK'
    <3>1. ground' \in 0..MaxGround /\ faults' \in 0..MaxFaults
      BY <1>3, LcAssumption DEF Restart, TaskOK
    <3> QED BY <1>3, <3>1 DEF Restart, TaskOK
  <2>4. PointsOK'
    BY <1>3 DEF Restart, PointsOK
  <2>5. StatesOK'
    BY <1>3, LcAssumption, StartTyped DEF Restart, StatesOK
  <2>6. PastOK'
    BY <1>3, StartTyped DEF Restart, PastOK
  <2> QED BY <2>1, <2>2, <2>3, <2>4, <2>5, <2>6
<1> QED BY <1>1, <1>2, <1>3

LEMMA TypeStep == TypeOK /\ [Next]_vars => TypeOK'
<1> SUFFICES ASSUME TypeOK, [Next]_vars  PROVE TypeOK'
  OBVIOUS
<1>1. CASE Next
  BY <1>1, TypeCycle, TypeEndCycle, TypeGround, TypeTables DEF Next
<1>2. CASE UNCHANGED vars
  BY <1>2, Untouched DEF TypeOK, vars, bus, tables, points, states
<1> QED BY <1>1, <1>2

(* Every variable of the limit checker keeps to its type, whatever the     *)
(* tables, the messages and the commands are.                              *)
THEOREM TypeCorrect == Spec => []TypeOK
  BY TypeInit, TypeStep, PTL DEF Spec

-----------------------------------------------------------------------------
(* The orders of an actionpoint.  It is ACTIVE only if it has ordered      *)
(* nothing since it was set; with that both invariants are inductive.      *)
OrderInv == \A a \in Actionpoints : ActionpointState[a] = "ACTIVE" => hist.orders[a] = 0

Settled == OneShot /\ ArmedUntilOrdered /\ OrderInv

(* What a cycle does to one actionpoint, in the terms of the orders.       *)
LEMMA ProcessOne ==
  ASSUME TypeOK, NEW stop \in 1..(LC_MAX_ACTIONPOINTS + 1), ProcessActionpoints(stop),
         NEW a \in Actionpoints
  PROVE  LET v == [b \in Actionpoints |-> Verdict(b)]
         IN  /\ hist'.ready = hist.ready /\ hist'.trusted = hist.trusted
             /\ hist'.latest = hist.latest
             /\ ActionpointState'[a] =
                  IF a < stop /\ Trips(a, v) THEN "PASSIVE" ELSE ActionpointState[a]
             /\ hist'.orders[a] =
                  IF a < stop /\ Trips(a, v) /\ Armed(a) THEN AtMost(hist.orders[a] + 1, 2)
                  ELSE hist.orders[a]
             /\ hist'.streak[a] =
                  IF a <= stop /\ v[a] \in {"alarm", "pass"}
                  THEN IF Meant(a) THEN AtMost(hist.streak[a] + 1, CountMod) ELSE 0
                  ELSE hist.streak[a]
             /\ ActionpointFailureCount'[a] =
                  IF a <= stop /\ v[a] \in {"alarm", "pass"} THEN Count(a, v)
                  ELSE ActionpointFailureCount[a]
  BY DEF ProcessActionpoints, Passivates, TypeOK, PastOK, History

LEMMA SettledInit == Init => Settled
<1> SUFFICES ASSUME Init  PROVE Settled
  OBVIOUS
<1>1. \A a \in Actionpoints : hist.orders[a] = 0 /\ ~hist.ready[a]
  BY DEF Init, Start
<1> QED BY <1>1 DEF Settled, OneShot, ArmedUntilOrdered, OrderInv

(* All that matters to the orders of an actionpoint is left alone.         *)
LEMMA SettledUntouched ==
  ASSUME Settled, UNCHANGED <<LcEnabled, ActionpointState>>,
         hist'.orders = hist.orders, hist'.ready = hist.ready
  PROVE  Settled'
  BY DEF Settled, OneShot, ArmedUntilOrdered, OrderInv

LEMMA SettledEndCycle == TypeOK /\ Settled /\ EndCycle => Settled'
<1> SUFFICES ASSUME TypeOK, Settled, EndCycle  PROVE Settled'
  OBVIOUS
<1>1. CASE ~tlm_received
  BY <1>1, SettledUntouched DEF EndCycle, states
<1>2. CASE tlm_received
  <2>1. PICK stop \in 1..(LC_MAX_ACTIONPOINTS + 1) : ProcessActionpoints(stop)
    BY <1>2 DEF EndCycle
  <2>2. LcEnabled' = LcEnabled
    BY DEF EndCycle
  <2>3. \A a \in Actionpoints : hist.orders[a] \in 0..2
    BY HistoryFields DEF TypeOK, PastOK
  <2>4. AtMost(0 + 1, 2) = 1
    BY DEF AtMost
  <2>5. ASSUME NEW a \in Actionpoints
        PROVE  /\ hist'.orders[a] <= 1
               /\ hist'.ready[a] /\ hist'.orders[a] = 0 =>
                    LcEnabled' /\ ActionpointState'[a] = "ACTIVE"
               /\ ActionpointState'[a] = "ACTIVE" => hist'.orders[a] = 0
    <3> DEFINE trips == Trips(a, [b \in Actionpoints |-> Verdict(b)])
    <3>1. /\ hist'.ready = hist.ready
          /\ ActionpointState'[a] =
               IF a < stop /\ trips THEN "PASSIVE" ELSE ActionpointState[a]
          /\ hist'.orders[a] =
               IF a < stop /\ trips /\ Armed(a) THEN AtMost(hist.orders[a] + 1, 2)
               ELSE hist.orders[a]
      BY <2>1, ProcessOne
    <3> HIDE DEF trips
    <3>2. /\ hist.orders[a] <= 1
          /\ hist.ready[a] /\ hist.orders[a] = 0 =>
               LcEnabled /\ ActionpointState[a] = "ACTIVE"
          /\ ActionpointState[a] = "ACTIVE" => hist.orders[a] = 0
      BY DEF Settled, OneShot, ArmedUntilOrdered, OrderInv
    <3>3. CASE a < stop /\ trips /\ Armed(a)
      <4>1. hist.orders[a] = 0
        BY <3>2, <3>3 DEF Armed
      <4>2. hist'.orders[a] = 1 /\ ActionpointState'[a] = "PASSIVE"
        BY <3>1, <3>3, <4>1, <2>4
      <4> QED BY <4>2
    <3>4. CASE a < stop /\ trips /\ ~Armed(a)
      <4>1. hist'.orders[a] = hist.orders[a] /\ ActionpointState'[a] = "PASSIVE"
        BY <3>1, <3>4
      <4>2. ~(LcEnabled /\ ActionpointState[a] = "ACTIVE")
        BY <3>4 DEF Armed
      <4>3. ~(hist'.ready[a] /\ hist'.orders[a] = 0)
        BY <3>1, <3>2, <4>1, <4>2
      <4> QED BY <3>2, <4>1, <4>3
    <3>5. CASE ~(a < stop /\ trips)
      <4>1. hist'.orders[a] = hist.orders[a] /\ ActionpointState'[a] = ActionpointState[a]
        BY <3>1, <3>5
      <4> QED BY <3>1, <3>2, <4>1, <2>2
    <3> QED BY <3>3, <3>4, <3>5
  <2> QED BY <2>5 DEF Settled, OneShot, ArmedUntilOrdered, OrderInv
<1> QED BY <1>1, <1>2 DEF EndCycle, TypeOK, TaskOK

LEMMA SettledGround ==
  ASSUME TypeOK, Settled
  PROVE  /\ \A on \in BOOLEAN : SetGlobalState(on) => Settled'
         /\ \A a \in Actionpoints, new \in States : SetActionpointState(a, new) => Settled'
         /\ ResetActionpointStates => Settled'
<1>1. ASSUME NEW on \in BOOLEAN, SetGlobalState(on)  PROVE Settled'
  <2>1. hist'.orders = hist.orders
        /\ \A a \in Actionpoints : hist'.ready[a] = (on /\ ActionpointState[a] = "ACTIVE")
    BY <1>1 DEF SetGlobalState, TypeOK, PastOK, History
  <2>2. LcEnabled' = on /\ ActionpointState' = ActionpointState
    BY <1>1 DEF SetGlobalState, states
  <2> QED BY <2>1, <2>2 DEF Settled, OneShot, ArmedUntilOrdered, OrderInv
<1>2. ASSUME NEW a \in Actionpoints, NEW new \in States, SetActionpointState(a, new)
      PROVE  Settled'
  <2>1. /\ hist'.orders = [hist.orders EXCEPT ![a] = 0]
        /\ hist'.ready = [hist.ready EXCEPT ![a] = LcEnabled /\ new = "ACTIVE"]
    BY <1>2 DEF SetActionpointState, TypeOK, PastOK, History
  <2>2. LcEnabled' = LcEnabled /\ ActionpointState' = [ActionpointState EXCEPT ![a] = new]
    BY <1>2 DEF SetActionpointState
  <2>3. /\ hist.orders \in [Actionpoints -> 0..2] /\ hist.ready \in [Actionpoints -> BOOLEAN]
        /\ ActionpointState \in [Actionpoints -> States]
    BY HistoryFields DEF TypeOK, PastOK, StatesOK
  <2>4. ASSUME NEW b \in Actionpoints
        PROVE  /\ hist'.orders[b] <= 1
               /\ hist'.ready[b] /\ hist'.orders[b] = 0 =>
                    LcEnabled' /\ ActionpointState'[b] = "ACTIVE"
               /\ ActionpointState'[b] = "ACTIVE" => hist'.orders[b] = 0
    <3>1. CASE b = a
      <4>1. /\ hist'.orders[b] = 0 /\ ActionpointState'[b] = new
            /\ hist'.ready[b] => LcEnabled /\ new = "ACTIVE"
        BY <2>1, <2>2, <2>3, <3>1
      <4> QED BY <2>2, <4>1
    <3>2. CASE b # a
      <4>1. /\ hist'.orders[b] = hist.orders[b] /\ hist'.ready[b] = hist.ready[b]
            /\ ActionpointState'[b] = ActionpointState[b]
        BY <2>1, <2>2, <2>3, <3>2
      <4> QED BY <2>2, <4>1 DEF Settled, OneShot, ArmedUntilOrdered, OrderInv
    <3> QED BY <3>1, <3>2
  <2> QED BY <2>4 DEF Settled, OneShot, ArmedUntilOrdered, OrderInv
<1>3. ASSUME ResetActionpointStates  PROVE Settled'
  <2>1. \A a \in Actionpoints :
          /\ hist'.orders[a] = 0
          /\ hist'.ready[a] => LcEnabled /\ adt[a].default_state = "ACTIVE"
    BY <1>3 DEF ResetActionpointStates, TypeOK, PastOK, History
  <2>2. LcEnabled' = LcEnabled
        /\ \A a \in Actionpoints : ActionpointState'[a] = adt[a].default_state
    BY <1>3 DEF ResetActionpointStates
  <2> QED BY <2>1, <2>2 DEF Settled, OneShot, ArmedUntilOrdered, OrderInv
<1> QED BY <1>1, <1>2, <1>3

LEMMA SettledStep == TypeOK /\ Settled /\ [Next]_vars => Settled'
<1> SUFFICES ASSUME TypeOK, Settled, [Next]_vars  PROVE Settled'
  OBVIOUS
<1>1. CASE SendTelemetry \/ TlmError \/ \E t \in ADTables : ManageActionpointTable(t)
  BY <1>1, SettledUntouched DEF SendTelemetry, TlmError, ManageActionpointTable, states
<1>2. CASE EvalTick \/ Drain
  <2>1. UNCHANGED <<LcEnabled, ActionpointState>>
    BY <1>2 DEF EvalTick, Drain, states
  <2>2. hist'.orders = hist.orders /\ hist'.ready = hist.ready
    BY <1>2 DEF EvalTick, Drain, TypeOK, PastOK, History
  <2> QED BY <2>1, <2>2, SettledUntouched
<1>3. CASE \E t \in WDTables : ManageWatchpointTable(t)
  <2>1. UNCHANGED <<LcEnabled, ActionpointState>>
    BY <1>3 DEF ManageWatchpointTable, states
  <2>2. hist'.orders = hist.orders /\ hist'.ready = hist.ready
    BY <1>3 DEF ManageWatchpointTable, Subscribe, TypeOK, PastOK, History
  <2> QED BY <2>1, <2>2, SettledUntouched
<1>4. CASE Restart
  <2>1. \A a \in Actionpoints : hist'.orders[a] = 0 /\ ~hist'.ready[a]
    BY <1>4 DEF Restart, Start
  <2> QED BY <2>1 DEF Settled, OneShot, ArmedUntilOrdered, OrderInv
<1>5. CASE UNCHANGED vars
  BY <1>5, SettledUntouched DEF vars, states
<1> QED BY <1>1, <1>2, <1>3, <1>4, <1>5, SettledEndCycle, SettledGround DEF Next

(* Both hold together with the invariant that makes them inductive.        *)
LEMMA AlwaysSettled == Spec => []Settled
<1>1. Init => Settled
  BY SettledInit
<1>2. TypeOK /\ Settled /\ [Next]_vars => Settled'
  BY SettledStep
<1> QED BY <1>1, <1>2, TypeCorrect, PTL DEF Spec

(* From one setting of an actionpoint to the next it orders its RTS at     *)
(* most once, whatever the tables, the messages and the failures are.      *)
THEOREM OrderedOnce == Spec => []OneShot
<1>1. Settled => OneShot
  BY DEF Settled
<1> QED BY <1>1, AlwaysSettled, PTL

(* An actionpoint that is ACTIVE in an enabled LC stays so until its order *)
(* was sent or ground commands otherwise.                                  *)
THEOREM NoOrderLost == Spec => []ArmedUntilOrdered
<1>1. Settled => ArmedUntilOrdered
  BY DEF Settled
<1> QED BY <1>1, AlwaysSettled, PTL

-----------------------------------------------------------------------------
(* A wrapped difference has the sign of the difference, if that is less    *)
(* than half a word.                                                       *)
LEMMA NarrowDifference ==
  ASSUME NEW x \in Int, NEW v \in Int, 2 * (x - v) \in -(Word - 1)..(Word - 1)
  PROVE  Difference(x, v) = x - v
<1>1. PICK d \in Int : d = x - v
  OBVIOUS
<1>2. 2 * d < Word /\ -(2 * d) < Word /\ Word \in Nat \ {0}
  BY <1>1, LcAssumption
<1>3. CASE d >= 0
  <2>1. d % Word = d
    BY <1>2, <1>3
  <2> QED BY <1>1, <1>2, <1>3, <2>1 DEF Difference, Signed
<1>4. CASE d < 0
  <2>1. d % Word = d + Word
    <3>1. d + Word \in 0..(Word - 1)
      BY <1>2, <1>4
    <3> QED BY <1>2, <1>4, <3>1
  <2> QED BY <1>1, <1>2, <1>4, <2>1 DEF Difference, Signed
<1> QED BY <1>1, <1>3, <1>4

(* The watchpoints of a cycle.  The lookup is that of the table, and its   *)
(* values can be compared.                                                 *)
Known == hist.trusted => lookup = Lookup(wdt) /\ Narrow(wdt)

LEMMA KnownInit == Init => Known
  BY DEF Init, Start, Known

LEMMA KnownStep == TypeOK /\ Known /\ [Next]_vars => Known'
<1> SUFFICES ASSUME TypeOK, Known, [Next]_vars  PROVE Known'
  OBVIOUS
<1>1. CASE \/ SendTelemetry \/ EvalTick \/ Drain \/ TlmError \/ EndCycle
           \/ \E on \in BOOLEAN : SetGlobalState(on)
           \/ \E a \in Actionpoints, new \in States : SetActionpointState(a, new)
           \/ ResetActionpointStates
           \/ \E t \in ADTables : ManageActionpointTable(t)
           \/ UNCHANGED vars
  <2>1. wdt' = wdt /\ lookup' = lookup
    BY <1>1 DEF SendTelemetry, EvalTick, Drain, TlmError, EndCycle, SetGlobalState,
                SetActionpointState, ResetActionpointStates, ManageActionpointTable,
                vars, tables
  <2>2. hist'.trusted = hist.trusted
    BY <1>1 DEF SendTelemetry, EvalTick, Drain, TlmError, EndCycle, SetGlobalState,
                SetActionpointState, ResetActionpointStates, ManageActionpointTable,
                ProcessActionpoints, vars, TypeOK, PastOK, History
  <2> QED BY <2>1, <2>2 DEF Known
<1>2. ASSUME NEW t \in WDTables, ManageWatchpointTable(t)  PROVE Known'
  <2>1. PICK done \in SUBSET (MidsOf(t) \ listed) : Subscribe(t, subscribed \ listed, done)
    BY <1>2 DEF ManageWatchpointTable
  <2>2. wdt' = t
    BY <1>2 DEF ManageWatchpointTable
  <2>3. hist'.trusted => lookup' = Lookup(t) /\ Narrow(t)
    BY <2>1 DEF Subscribe, TypeOK, PastOK, History
  <2> QED BY <2>2, <2>3 DEF Known
<1>3. CASE Restart
  BY <1>3 DEF Restart, Start, Known
<1> QED BY <1>1, <1>2, <1>3 DEF Next

LEMMA RightInit == Init => WatchpointsRight
  BY DEF Init, WatchpointsRight

LEMMA RightDrain ==
  ASSUME TypeOK, Known, WatchpointsRight, Drain  PROVE WatchpointsRight'
<1>1. SUFFICES ASSUME hist'.trusted, NEW w \in Watchpoints
               PROVE  /\ WatchpointUpdated'[w] <=>
                           /\ wdt'[w].message_id \in Mids
                           /\ hist'.latest[wdt'[w].message_id].heard
                      /\ WatchpointState'[w] <=> w \in Raised'
  BY DEF WatchpointsRight
<1>2. PICK m \in Mids, x \in Data : m = Head(pipe).mid /\ x = Head(pipe).data
  <2>1. Head(pipe) \in Message
    BY HeadTailProperties DEF Drain, TypeOK, BusOK
  <2> QED BY <2>1 DEF Message
<1>3. /\ wdt' = wdt /\ wdt \in WDTables
      /\ hist'.latest = [hist.latest EXCEPT ![m] = Value(x)]
      /\ hist'.trusted = hist.trusted
  BY <1>2 DEF Drain, TypeOK, TablesOK, PastOK, History, tables
<1>4. hist.latest \in [Mids -> {Silent} \union {Value(y) : y \in Data}]
  BY HistoryFields DEF TypeOK, PastOK
<1>5. hist.trusted /\ lookup[m] = {u \in Watchpoints : wdt[u].message_id = m} /\ Narrow(wdt)
  BY <1>1, <1>3 DEF Known, Lookup
<1>6. WatchpointUpdated'[w] <=> w \in lookup[m] \/ WatchpointUpdated[w]
  BY <1>2 DEF Drain
<1>7. /\ WatchpointUpdated[w] <=> /\ wdt[w].message_id \in Mids
                                  /\ hist.latest[wdt[w].message_id].heard
      /\ WatchpointState[w] <=> w \in Raised
  BY <1>5 DEF Drain, WatchpointsRight
<1>8. CASE wdt[w].message_id = m
  <2>1. w \in lookup[m]
    BY <1>5, <1>8
  <2>2. hist'.latest[wdt'[w].message_id] = Value(x)
    BY <1>3, <1>4, <1>8
  <2>3. Value(x).heard /\ Value(x).value = x
    BY DEF Value
  <2>4. WatchpointState'[w] = EvalWp(wdt[w].operator_id, Difference(x, wdt[w].value))
    BY <1>2, <1>8, <2>1 DEF Drain
  <2>5. Difference(x, wdt[w].value) = x - wdt[w].value
    <3>1. x \in Int /\ wdt[w].value \in Int
      BY <1>3, LcAssumption, TableFields
    <3>2. 2 * (x - wdt[w].value) \in -(Word - 1)..(Word - 1)
      BY <1>5 DEF Narrow
    <3> QED BY <3>1, <3>2, NarrowDifference
  <2>6. WatchpointState'[w] <=> Holds(wdt[w], x)
    BY <2>4, <2>5 DEF Holds
  <2>7. w \in Raised' <=> Holds(wdt[w], x)
    BY <1>3, <1>8, <2>2, <2>3 DEF Raised
  <2> QED BY <1>3, <1>6, <1>8, <2>1, <2>2, <2>3, <2>6, <2>7
<1>9. CASE wdt[w].message_id # m
  <2>1. w \notin lookup[m]
    BY <1>5, <1>9
  <2>2. wdt[w].message_id \in Mids =>
          hist'.latest[wdt'[w].message_id] = hist.latest[wdt[w].message_id]
    BY <1>3, <1>4, <1>9
  <2>3. WatchpointState'[w] = WatchpointState[w]
    BY <1>2, <2>1 DEF Drain
  <2>4. w \in Raised' <=> w \in Raised
    BY <1>3, <2>2 DEF Raised
  <2> QED BY <1>3, <1>6, <1>7, <2>1, <2>2, <2>3, <2>4
<1> QED BY <1>8, <1>9

LEMMA RightStep == TypeOK /\ Known /\ WatchpointsRight /\ [Next]_vars => WatchpointsRight'
<1> SUFFICES ASSUME TypeOK, Known, WatchpointsRight, [Next]_vars  PROVE WatchpointsRight'
  OBVIOUS
<1>1. CASE EvalTick
  <2>1. /\ wdt' = wdt /\ WatchpointUpdated' = [w \in Watchpoints |-> FALSE]
        /\ WatchpointState' = [w \in Watchpoints |-> FALSE]
        /\ hist'.latest = [m \in Mids |-> Silent]
    BY <1>1 DEF EvalTick, tables, TypeOK, PastOK, History
  <2>2. ~Silent.heard
    BY DEF Silent
  <2>3. Raised' = {}
    BY <2>1, <2>2 DEF Raised
  <2> QED BY <2>1, <2>2, <2>3 DEF WatchpointsRight
<1>2. CASE SendTelemetry \/ UNCHANGED vars
  <2>1. UNCHANGED <<wdt, WatchpointUpdated, WatchpointState, hist, task>>
    BY <1>2 DEF SendTelemetry, vars, points, tables
  <2>2. Raised' = Raised
    BY <2>1 DEF Raised
  <2> QED BY <2>1, <2>2 DEF WatchpointsRight
<1>3. CASE \/ TlmError \/ EndCycle
           \/ \E on \in BOOLEAN : SetGlobalState(on)
           \/ \E a \in Actionpoints, new \in States : SetActionpointState(a, new)
           \/ ResetActionpointStates
           \/ \E t \in ADTables : ManageActionpointTable(t)
           \/ \E t \in WDTables : ManageWatchpointTable(t)
           \/ Restart
  <2>1. task' # "draining"
    BY <1>3 DEF TlmError, EndCycle, Finish, SetGlobalState, SetActionpointState,
                ResetActionpointStates, ManageActionpointTable, ManageWatchpointTable,
                Restart, Ground
  <2> QED BY <2>1 DEF WatchpointsRight
<1> QED BY <1>1, <1>2, <1>3, RightDrain DEF Next

(* While a cycle is under way the watchpoints say what the messages of     *)
(* this cycle say, as long as every subscription could be made and no      *)
(* difference is as large as half a word.                                  *)
THEOREM WatchpointsFaithful == Spec => []WatchpointsRight
<1>1. Init => Known /\ WatchpointsRight
  BY KnownInit, RightInit
<1>2. TypeOK /\ (Known /\ WatchpointsRight) /\ [Next]_vars => (Known /\ WatchpointsRight)'
  BY KnownStep, RightStep
<1> QED BY <1>1, <1>2, TypeCorrect, PTL DEF Spec

-----------------------------------------------------------------------------
(* The counts.  As long as the watchpoints are right a count is never      *)
(* ahead of the alarms in a row.                                           *)
CountInv ==
  hist.trusted => \A a \in Actionpoints : ActionpointFailureCount[a] <= hist.streak[a]

LEMMA AlarmMeant ==
  ASSUME EquationsMean, TypeOK, WatchpointsRight, hist.trusted, task = "draining",
         NEW a \in Actionpoints, Verdict(a) = "alarm"
  PROVE  Meant(a)
<1> DEFINE equation == adt[a].rpn_equation
           m == Solve(equation, WatchpointState)
<1>1. m.ok /\ Terminated(equation) /\ Head(m.stack) = 1
  BY Zenon DEF Verdict
<1>2. adt \in ADTables /\ WatchpointState \in [Watchpoints -> BOOLEAN]
  BY DEF TypeOK, TablesOK, PointsOK
<1>3. {w \in NamedIn(equation) : WatchpointState[w]} \in adt[a].means
  BY <1>1, <1>2, Zenon DEF EquationsMean
<1>4. Raised \intersect Named(a) = {w \in NamedIn(equation) : WatchpointState[w]}
  BY DEF WatchpointsRight, Named, NamedIn, Raised
<1> QED BY <1>3, <1>4 DEF Meant

(* What a cycle makes of the count and of the alarms in a row.             *)
LEMMA CountCycle ==
  ASSUME EquationsMean, TypeOK, WatchpointsRight, CountInv, task = "draining", hist.trusted,
         NEW stop \in 1..(LC_MAX_ACTIONPOINTS + 1), ProcessActionpoints(stop),
         NEW a \in Actionpoints
  PROVE  /\ ActionpointFailureCount'[a] <= hist'.streak[a]
         /\ a <= stop /\ Verdict(a) = "alarm" => Failures(a) <= hist'.streak[a]
<1> DEFINE v == [b \in Actionpoints |-> Verdict(b)]
<1>1. /\ hist'.streak[a] =
           IF a <= stop /\ v[a] \in {"alarm", "pass"}
           THEN IF Meant(a) THEN AtMost(hist.streak[a] + 1, CountMod) ELSE 0
           ELSE hist.streak[a]
      /\ ActionpointFailureCount'[a] =
           IF a <= stop /\ v[a] \in {"alarm", "pass"} THEN Count(a, v)
           ELSE ActionpointFailureCount[a]
  BY ProcessOne
<1>2. v[a] = Verdict(a)
  OBVIOUS
<1> HIDE DEF v
<1>3. /\ ActionpointFailureCount[a] \in 0..(CountMod - 1)
      /\ hist.streak[a] \in 0..CountMod
      /\ ActionpointFailureCount[a] <= hist.streak[a]
  BY HistoryFields DEF TypeOK, StatesOK, PastOK, CountInv
<1>4. CASE a <= stop /\ v[a] = "alarm"
  <2>1. Meant(a)
    BY <1>2, <1>4, AlarmMeant
  <2>2. hist'.streak[a] = AtMost(hist.streak[a] + 1, CountMod)
    BY <1>1, <1>4, <2>1
  <2>3. ActionpointFailureCount'[a] = Failures(a)
    BY <1>1, <1>4 DEF Count
  <2>4. PICK c \in Nat, k \in Nat :
          c = ActionpointFailureCount[a] /\ k = CountMod /\ c < k
    BY <1>3, LcAssumption
  <2>5. (c + 1) % k <= c + 1 /\ (c + 1) % k <= k
    <3>1. CASE c + 1 < k
      BY <2>4, <3>1
    <3>2. CASE c + 1 = k
      BY <2>4, <3>2
    <3> QED BY <2>4, <3>1, <3>2
  <2>6. Failures(a) <= AtMost(hist.streak[a] + 1, CountMod)
    BY <1>3, <2>4, <2>5 DEF Failures, AtMost
  <2> QED BY <2>2, <2>3, <2>6
<1>5. CASE a <= stop /\ v[a] = "pass"
  <2>1. ActionpointFailureCount'[a] = 0
    BY <1>1, <1>5 DEF Count
  <2>2. hist'.streak[a] \in Nat
    BY <1>1, <1>3, <1>5, LcAssumption DEF AtMost
  <2> QED BY <1>2, <1>5, <2>1, <2>2
<1>6. CASE ~(a <= stop /\ v[a] \in {"alarm", "pass"})
  <2>1. ActionpointFailureCount'[a] = ActionpointFailureCount[a]
        /\ hist'.streak[a] = hist.streak[a]
    BY <1>1, <1>6
  <2> QED BY <1>2, <1>3, <1>6, <2>1
<1> QED BY <1>4, <1>5, <1>6

LEMMA CountInit == Init => CountInv
<1> SUFFICES ASSUME Init  PROVE CountInv
  OBVIOUS
<1>1. \A a \in Actionpoints : ActionpointFailureCount[a] = 0 /\ hist.streak[a] = 0
  BY DEF Init, Start
<1> QED BY <1>1 DEF CountInv

LEMMA CountStep ==
  ASSUME EquationsMean
  PROVE  TypeOK /\ WatchpointsRight /\ CountInv /\ [Next]_vars => CountInv'
<1> SUFFICES ASSUME TypeOK, WatchpointsRight, CountInv, [Next]_vars  PROVE CountInv'
  OBVIOUS
<1>1. CASE EndCycle
  <2>1. CASE ~tlm_received
    BY <1>1, <2>1 DEF EndCycle, CountInv, states
  <2>2. CASE tlm_received
    <3>1. PICK stop \in 1..(LC_MAX_ACTIONPOINTS + 1) : ProcessActionpoints(stop)
      BY <1>1, <2>2 DEF EndCycle
    <3>2. task = "draining" /\ hist'.trusted = hist.trusted
      BY <1>1, <3>1 DEF EndCycle, Finish, ProcessActionpoints, TypeOK, PastOK, History
    <3>3. hist.trusted => \A a \in Actionpoints : ActionpointFailureCount'[a] <= hist'.streak[a]
      BY <3>1, <3>2, CountCycle
    <3> QED BY <3>2, <3>3 DEF CountInv
  <2> QED BY <2>1, <2>2
<1>2. CASE \/ SendTelemetry \/ EvalTick \/ Drain \/ TlmError
           \/ \E on \in BOOLEAN : SetGlobalState(on)
           \/ \E a \in Actionpoints, new \in States : SetActionpointState(a, new)
           \/ ResetActionpointStates
           \/ \E t \in ADTables : ManageActionpointTable(t)
           \/ UNCHANGED vars
  <2>1. ActionpointFailureCount' = ActionpointFailureCount
    BY <1>2 DEF SendTelemetry, EvalTick, Drain, TlmError, SetGlobalState,
                SetActionpointState, ResetActionpointStates, ManageActionpointTable,
                vars, states
  <2>2. hist'.trusted = hist.trusted /\ hist'.streak = hist.streak
    BY <1>2 DEF SendTelemetry, EvalTick, Drain, TlmError, SetGlobalState,
                SetActionpointState, ResetActionpointStates, ManageActionpointTable,
                vars, TypeOK, PastOK, History
  <2> QED BY <2>1, <2>2 DEF CountInv
<1>3. CASE \E t \in WDTables : ManageWatchpointTable(t)
  <2>1. ActionpointFailureCount' = ActionpointFailureCount
    BY <1>3 DEF ManageWatchpointTable, states
  <2>2. (hist'.trusted => hist.trusted) /\ hist'.streak = hist.streak
    BY <1>3 DEF ManageWatchpointTable, Subscribe, TypeOK, PastOK, History
  <2> QED BY <2>1, <2>2 DEF CountInv
<1>4. CASE Restart
  <2>1. \A a \in Actionpoints : ActionpointFailureCount'[a] = 0 /\ hist'.streak[a] = 0
    BY <1>4 DEF Restart, Start
  <2> QED BY <2>1 DEF CountInv
<1> QED BY <1>1, <1>2, <1>3, <1>4 DEF Next

(* Only a cycle that is processed makes orders more.                       *)
LEMMA OrdersOnlyByCycle ==
  ASSUME TypeOK, [Next]_vars, NEW a \in Actionpoints, hist'.orders[a] > hist.orders[a]
  PROVE  EndCycle /\ tlm_received
<1>1. hist.orders \in [Actionpoints -> 0..2]
  BY HistoryFields DEF TypeOK, PastOK
<1>2. CASE \/ SendTelemetry \/ EvalTick \/ Drain \/ TlmError \/ (EndCycle /\ ~tlm_received)
           \/ \E on \in BOOLEAN : SetGlobalState(on)
           \/ \E t \in ADTables : ManageActionpointTable(t)
           \/ \E t \in WDTables : ManageWatchpointTable(t)
           \/ UNCHANGED vars
  <2>1. hist'.orders = hist.orders
    BY <1>2 DEF SendTelemetry, EvalTick, Drain, TlmError, EndCycle, SetGlobalState,
                ManageActionpointTable, ManageWatchpointTable, Subscribe,
                vars, TypeOK, PastOK, History
  <2> QED BY <1>1, <2>1
<1>3. CASE ResetActionpointStates \/ Restart
  <2>1. ResetActionpointStates => hist'.orders[a] = 0
    BY DEF ResetActionpointStates, TypeOK, PastOK, History
  <2>2. Restart => hist'.orders[a] = 0
    BY DEF Restart, Start
  <2> QED BY <1>1, <1>3, <2>1, <2>2
<1>4. CASE \E b \in Actionpoints, new \in States : SetActionpointState(b, new)
  <2>1. PICK b \in Actionpoints : hist'.orders = [hist.orders EXCEPT ![b] = 0]
    BY <1>4 DEF SetActionpointState, TypeOK, PastOK, History
  <2>2. hist'.orders[a] = 0 \/ hist'.orders[a] = hist.orders[a]
    BY <1>1, <2>1
  <2> QED BY <1>1, <2>2
<1> QED BY <1>2, <1>3, <1>4 DEF Next

(* An RTS is ordered only by an ACTIVE actionpoint of an enabled LC, after *)
(* as many alarms in a row as the table asks for.                          *)
LEMMA ConfirmedStep ==
  ASSUME EquationsMean, TypeOK, WatchpointsRight, CountInv, [Next]_vars,
         NEW a \in Actionpoints, hist'.orders[a] > hist.orders[a]
  PROVE  /\ LcEnabled /\ ActionpointState[a] = "ACTIVE"
         /\ hist.trusted => hist'.streak[a] >= adt[a].max_fail_before_rts
<1>1. EndCycle /\ tlm_received
  BY OrdersOnlyByCycle
<1>2. PICK stop \in 1..(LC_MAX_ACTIONPOINTS + 1) : ProcessActionpoints(stop)
  BY <1>1 DEF EndCycle
<1>3. task = "draining"
  BY <1>1 DEF EndCycle, Finish
<1>4. hist.orders[a] \in 0..2
  BY HistoryFields DEF TypeOK, PastOK
<1>5. a < stop /\ Trips(a, [b \in Actionpoints |-> Verdict(b)]) /\ Armed(a)
  <2>1. ~(a < stop /\ Trips(a, [b \in Actionpoints |-> Verdict(b)]) /\ Armed(a)) =>
          hist'.orders[a] = hist.orders[a]
    BY <1>2, ProcessOne
  <2> QED BY <1>4, <2>1
<1>6. Verdict(a) = "alarm" /\ Failures(a) >= adt[a].max_fail_before_rts
  BY <1>5 DEF Trips, Confirmed
<1>7. hist.trusted => Failures(a) <= hist'.streak[a]
  <2>1. a <= stop
    <3>1. a < stop
      BY <1>5
    <3> QED BY <3>1, LcAssumption DEF Actionpoints
  <2> QED BY <1>2, <1>3, <1>6, <2>1, CountCycle
<1>8. /\ Failures(a) \in Nat /\ adt[a].max_fail_before_rts \in Nat
      /\ hist'.streak[a] \in Nat
  <2>1. hist' \in History
    BY TypeStep DEF TypeOK, PastOK
  <2> QED BY <2>1, FailuresTyped, TableFields, HistoryFields, LcAssumption DEF TypeOK, TablesOK
<1> QED BY <1>5, <1>6, <1>7, <1>8 DEF Armed

(* If the equations mean what the author of the table takes them to mean,  *)
(* an RTS is ordered only for alarms that were confirmed as often as the   *)
(* table asks for, each by messages of its own cycle.                      *)
THEOREM AlarmsConfirmed ==
  ASSUME EquationsMean
  PROVE  Spec => AlarmConfirmed
<1>1. TypeOK /\ WatchpointsRight /\ CountInv /\ [Next]_vars => CountInv'
  BY CountStep
<1>2. Spec => []CountInv
  BY <1>1, CountInit, TypeCorrect, WatchpointsFaithful, PTL DEF Spec
<1>3. TypeOK /\ WatchpointsRight /\ CountInv /\ [Next]_vars =>
        [\A a \in Actionpoints : hist'.orders[a] > hist.orders[a] =>
           /\ LcEnabled /\ ActionpointState[a] = "ACTIVE"
           /\ hist.trusted => hist'.streak[a] >= adt[a].max_fail_before_rts]_vars
  BY ConfirmedStep
<1> QED BY <1>2, <1>3, TypeCorrect, WatchpointsFaithful, PTL DEF Spec, AlarmConfirmed
=============================================================================
