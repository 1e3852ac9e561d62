------------------------- MODULE HealthSafetyProofs -------------------------
(***************************************************************************)
(* Theorems about health and safety, for every set of applications and of  *)
(* tables, every width of the counts and every depth of the event pipe.    *)
(***************************************************************************)
EXTENDS HealthSafety, SequenceTheorems, TLAPS

(* The inductive invariant: a monitor runs on a table that was loaded, and *)
(* HS acts on an entry in use whose count is the one its table asks for.   *)
PhaseOK ==
  /\ task \in {"apps", "acting"} => monitored["AMT"]
  /\ task \in {"events", "matching"} => monitored["EMT"]
  /\ task = "acting" =>
       Entry.AppName # NoApp /\ StaticAppCounts[next] = Entry.CycleCount

(* Whether a counter differs from the one HS saw agrees with what its      *)
(* application did; the count of an entry lies between the checks that     *)
(* found nothing done and those that may have, and stays below the limit   *)
(* unless HS is about to act.                                              *)
EntryOK(i) ==
  /\ progress[i] = "none" => ~moved[i]
  /\ progress[i] = "ran" => moved[i]
  /\ Supervised(i) =>
       /\ silent[i] <= StaticAppCounts[i] /\ StaticAppCounts[i] <= idle[i]
       /\ \/ StaticAppCounts[i] < table["AMT"][i].CycleCount
          \/ task = "acting" /\ next = i
HsInv == TypeOK /\ PhaseOK /\ \A i \in Entries : EntryOK(i)

(* What the fields of an entry are.                                        *)
LEMMA EntryFields ==
  ASSUME TablesOK, table["AMT"] # NoTable, NEW i \in Entries
  PROVE  /\ table["AMT"][i].AppName \in Apps \union {NoApp}
         /\ table["AMT"][i].CycleCount \in 0..(CountMod - 1)
         /\ table["AMT"][i].CycleCount \in Nat
<1>1. table["AMT"] \in AMTs
  BY DEF TablesOK, Loaded
<1>2. table["AMT"][i] \in AppMonitorEntry
  BY <1>1, HsAssumption
<1> QED BY <1>2, HsAssumption DEF AppMonitorEntry

(* The event pipe takes events up to its depth.                            *)
LEMMA FillTyped ==
  ASSUME BusOK, NEW msgs \in Seq(Event)
  PROVE  Fill(msgs) \in Seq(Event) /\ Len(Fill(msgs)) <= HS_EVENT_PIPE_DEPTH
<1> DEFINE p == pipe \o msgs
<1>1. p \in Seq(Event)
  BY DEF BusOK
<1>2. CASE Len(p) <= HS_EVENT_PIPE_DEPTH
  BY <1>1, <1>2 DEF Fill
<1>3. CASE ~(Len(p) <= HS_EVENT_PIPE_DEPTH)
  <2>1. SubSeq(p, 1, HS_EVENT_PIPE_DEPTH) \in Seq(Event)
    BY <1>1, <1>3, HsAssumption
  <2>2. Len(SubSeq(p, 1, HS_EVENT_PIPE_DEPTH)) = HS_EVENT_PIPE_DEPTH
    BY <1>1, <1>3, HsAssumption
  <2> QED BY <1>3, <2>1, <2>2, HsAssumption DEF Fill
<1> QED BY <1>2, <1>3

(* The events of HS itself are events.                                     *)
LEMMA HsEvents == HsAction \in Event /\ HsError \in Event
  BY HsAssumption DEF HsAction, HsError, Event

(* A report leaves the bus well.                                           *)
LEMMA ReportTyped ==
  ASSUME BusOK, NEW msgs \in Seq(Event), Report(msgs), wakeup' \in BOOLEAN
  PROVE  BusOK'
<1>1. pipe' = Fill(msgs) \/ pipe' = pipe
  BY DEF Report
<1>2. pipe' \in Seq(Event) /\ Len(pipe') <= HS_EVENT_PIPE_DEPTH
  BY <1>1, FillTyped DEF BusOK
<1> QED BY <1>2 DEF BusOK

(* An error that HS reports leaves the bus well.                           *)
LEMMA ErrorTyped ==
  ASSUME BusOK, Report(<<HsError>>), wakeup' = wakeup
  PROVE  BusOK'
<1>1. <<HsError>> \in Seq(Event) /\ wakeup' \in BOOLEAN
  BY HsEvents DEF BusOK
<1> QED BY <1>1, ReportTyped

(* What an action does to the bus, the locks and the applications.         *)
LEMMA PerformTyped ==
  ASSUME BusOK, TablesOK, CountsOK, wakeup' \in BOOLEAN,
         NEW type, NEW x, NEW then, Perform(type, x, then)
  PROVE  /\ BusOK'
         /\ locked' \in [TableNames -> BOOLEAN]
         /\ app' \in [Apps -> {"absent", "initializing", "running", "waiting"}]
         /\ task' \in {"reset", then}
<1>1. /\ <<HsAction>> \in Seq(Event) /\ <<HsAction, HsError>> \in Seq(Event)
      /\ <<HsError>> \in Seq(Event)
  BY HsEvents
<1>2. CASE type \in Messages /\ PerformMessageAction(type) /\ task' = then /\ UNCHANGED app
  <2>1. Report(<<HsAction>>) \/ Report(<<HsAction, HsError>>)
    BY <1>2 DEF PerformMessageAction
  <2>2. locked' \in [TableNames -> BOOLEAN]
    BY <1>2 DEF PerformMessageAction, TablesOK, TableNames
  <2> QED BY <1>1, <1>2, <2>1, <2>2, ReportTyped DEF CountsOK
<1>3. CASE Report(<<HsAction>>) /\ task' \in {"reset", then}
           /\ (RestartApp(x) \/ UNCHANGED app) /\ UNCHANGED locked
  <2>1. app' \in [Apps -> {"absent", "initializing", "running", "waiting"}]
    BY <1>3 DEF RestartApp, CountsOK
  <2> QED BY <1>1, <1>3, <2>1, ReportTyped DEF TablesOK
<1> QED BY <1>2, <1>3 DEF Perform

-----------------------------------------------------------------------------
(* Every variable keeps to its type.                                       *)
LEMMA Untouched ==
  /\ BusOK /\ UNCHANGED bus => BusOK'
  /\ ControlOK /\ UNCHANGED <<control, ground, faults>> => ControlOK'
  /\ TablesOK /\ UNCHANGED <<tables, monitored>> => TablesOK'
  /\ CountsOK /\ UNCHANGED <<counts, app>> => CountsOK'
  BY DEF BusOK, ControlOK, TablesOK, CountsOK, bus, control, tables, counts

(* New tables are tables, whichever loads were applied.                    *)
LEMMA ManageTyped ==
  ASSUME TablesOK, Manage
  PROVE  /\ table' \in Loaded /\ pending' \in Loaded
         /\ \A n \in TableNames : table[n] # NoTable => table'[n] # NoTable
  BY DEF Manage, TablesOK, Loaded, Updates, TableNames

(* The counts after a load.                                                *)
LEMMA ResetTyped ==
  ASSUME ResetCounts, app' \in [Apps -> {"absent", "initializing", "running", "waiting"}]
  PROVE  CountsOK'
  BY HsAssumption DEF ResetCounts, CountsOK

(* The types hold at start.                                                *)
LEMMA TypeInit == Init => TypeOK
<1> SUFFICES ASSUME Init  PROVE TypeOK
  OBVIOUS
<1>1. BusOK
  <2>1. << >> \in Seq(Event) /\ Len(<< >>) <= HS_EVENT_PIPE_DEPTH
    BY HsAssumption
  <2> QED BY <2>1 DEF Init, BusOK
<1>2. ControlOK
  <2>1. next \in Nat /\ taken \in 0..HS_EVENT_PIPE_DEPTH
    BY HsAssumption DEF Init
  <2>2. ground \in 0..MaxGround /\ faults \in 0..MaxFaults
    BY HsAssumption DEF Init
  <2> QED BY <2>1, <2>2, HsEvents DEF Init, ControlOK
<1>3. TablesOK
  BY DEF Init, TablesOK, Loaded, TableNames
<1>4. CountsOK
  BY HsAssumption DEF Init, CountsOK
<1> QED BY <1>1, <1>2, <1>3, <1>4 DEF TypeOK

(* Steps of the rest of the system keep the types, and a restart does.     *)
LEMMA TypeOutside ==
  ASSUME TypeOK,
         \/ SendTick \/ WakeupError \/ Restart \/ \E e \in Event : SendEvent(e)
         \/ \E n \in TableNames : \E t \in TablesOf[n] : LoadTable(n, t)
         \/ \E x \in Apps : RunLoop(x) \/ Create(x) \/ Delete(x)
  PROVE  TypeOK'
<1> USE DEF TypeOK
<1>1. CASE SendTick
  <2>1. BusOK'
    BY <1>1 DEF SendTick, BusOK
  <2> QED BY <1>1, <2>1, Untouched DEF SendTick
<1>2. CASE WakeupError
  <2>1. ground' \in 0..MaxGround /\ faults' \in 0..MaxFaults
    BY <1>2, HsAssumption DEF WakeupError, ControlOK
  <2>2. ControlOK'
    BY <1>2, <2>1 DEF WakeupError, ControlOK
  <2>3. BusOK'
    BY <1>2, ErrorTyped DEF WakeupError
  <2> QED BY <1>2, <2>2, <2>3, Untouched DEF WakeupError
<1>3. CASE Restart
  <2>1. BusOK'
    <3>1. << >> \in Seq(Event) /\ Len(<< >>) <= HS_EVENT_PIPE_DEPTH
      BY HsAssumption
    <3> QED BY <1>3, <3>1 DEF Restart, BusOK
  <2>2. ControlOK'
    <3>1. next' \in Nat /\ taken' \in 0..HS_EVENT_PIPE_DEPTH
      BY <1>3, HsAssumption DEF Restart
    <3>2. ground' \in 0..MaxGround /\ faults' \in 0..MaxFaults
      BY <1>3, HsAssumption DEF Restart, ControlOK
    <3> QED BY <1>3, <3>1, <3>2, HsEvents DEF Restart, ControlOK
  <2>3. TablesOK'
    BY <1>3 DEF Restart, TablesOK, Loaded, TableNames
  <2>4. app' \in [Apps -> {"absent", "initializing", "running", "waiting"}]
    BY <1>3 DEF Restart, CountsOK
  <2>5. CountsOK'
    BY <1>3, <2>4, ResetTyped DEF Restart
  <2> QED BY <2>1, <2>2, <2>3, <2>5
<1>4. ASSUME NEW e \in Event, SendEvent(e)  PROVE TypeOK'
  <2>1. <<e>> \in Seq(Event)
    OBVIOUS
  <2>2. BusOK'
    BY <1>4, <2>1, FillTyped DEF SendEvent, BusOK
  <2> QED BY <1>4, <2>2, Untouched DEF SendEvent
<1>5. ASSUME NEW n \in TableNames, NEW t \in TablesOf[n], LoadTable(n, t)  PROVE TypeOK'
  <2>1. ground' \in 0..MaxGround /\ faults' \in 0..MaxFaults
    BY <1>5, HsAssumption DEF LoadTable, ControlOK
  <2>2. ControlOK'
    BY <1>5, <2>1 DEF LoadTable, ControlOK, control
  <2>3. pending' \in Loaded
    BY <1>5 DEF LoadTable, TablesOK, Loaded, TablesOf, TableNames
  <2>4. TablesOK'
    BY <1>5, <2>3 DEF LoadTable, TablesOK
  <2> QED BY <1>5, <2>2, <2>4, Untouched DEF LoadTable
<1>6. ASSUME NEW x \in Apps, NEW known \in BOOLEAN, Counted(x, known),
             UNCHANGED <<StaticAppCounts, silent, idle>>,
             app' \in [Apps -> {"absent", "initializing", "running", "waiting"}]
      PROVE  CountsOK'
  BY <1>6 DEF Counted, CountsOK
<1>7. ASSUME NEW x \in Apps, RunLoop(x) \/ Create(x)  PROVE TypeOK'
  <2>1. app' \in [Apps -> {"absent", "initializing", "running", "waiting"}]
    BY <1>7 DEF RunLoop, Create, CountsOK
  <2>2. CountsOK'
    BY <1>6, <1>7, <2>1 DEF RunLoop, Create
  <2> QED BY <1>7, <2>2, Untouched DEF RunLoop, Create
<1>8. ASSUME NEW x \in Apps, Delete(x)  PROVE TypeOK'
  <2>1. ground' \in 0..MaxGround /\ faults' \in 0..MaxFaults
    BY <1>8, HsAssumption DEF Delete, ControlOK
  <2>2. ControlOK'
    BY <1>8, <2>1 DEF Delete, ControlOK, control
  <2>3. CountsOK'
    BY <1>8 DEF Delete, CountsOK, counts
  <2> QED BY <1>8, <2>2, <2>3, Untouched DEF Delete
<1> QED BY <1>1, <1>2, <1>3, <1>4, <1>5, <1>7, <1>8

(* Steps of the application monitor keep the types.                        *)
LEMMA TypeApps ==
  ASSUME TypeOK, Tick \/ SkipApp \/ CheckApp \/ ActOnApp \/ AppsEnd
  PROVE  TypeOK'
<1> USE DEF TypeOK
<1>1. next \in Nat /\ HS_MAX_CRITICAL_APPS \in Nat /\ 1 \in 1..(HS_MAX_CRITICAL_APPS + 1)
  BY HsAssumption DEF ControlOK
<1>2. ASSUME next \in Entries  PROVE next + 1 \in 1..(HS_MAX_CRITICAL_APPS + 1)
  BY <1>1, <1>2 DEF Entries
<1>3. CASE Tick
  <2>1. BusOK'
    BY <1>3 DEF Tick, BusOK
  <2>2. ControlOK'
    BY <1>1, <1>3 DEF Tick, StartMonitor, ControlOK
  <2>3. TablesOK'
    <3>1. locked' \in [TableNames -> BOOLEAN]
      BY <1>3 DEF Tick, StartMonitor, TablesOK, TableNames
    <3>2. monitored' = monitored
      BY <1>3 DEF Tick
    <3> QED BY <1>3, <3>1, <3>2, ManageTyped DEF Tick, TablesOK, TableNames
  <2>4. CountsOK'
    BY <1>3, ResetTyped, Untouched DEF Tick, CountsOK
  <2> QED BY <2>1, <2>2, <2>3, <2>4
<1>4. CASE SkipApp
  <2>1. BusOK'
    BY <1>4, ErrorTyped DEF SkipApp, BusOK
  <2>2. ControlOK'
    BY <1>1, <1>2, <1>4 DEF SkipApp, ControlOK
  <2> QED BY <1>4, <2>1, <2>2, Untouched DEF SkipApp
<1>5. CASE CheckApp
  <2>1. ControlOK'
    BY <1>1, <1>2, <1>5 DEF CheckApp, ControlOK
  <2>2. \A c \in 0..(CountMod - 1) : Capped(c + 1) \in 0..(CountMod - 1)
    BY HsAssumption DEF Capped
  <2>3. \A c \in 0..(CountMod - 1) : (c + 1) % CountMod \in 0..(CountMod - 1)
    BY HsAssumption
  <2>4. 0 \in 0..(CountMod - 1)
    BY HsAssumption
  <2>5. /\ silent' \in [Entries -> 0..(CountMod - 1)]
        /\ idle' \in [Entries -> 0..(CountMod - 1)]
    BY <1>5, <2>2, <2>4 DEF CheckApp, Observed, CountsOK
  <2>6. StaticAppCounts' \in [Entries -> 0..(CountMod - 1)]
    BY <1>5, <2>3 DEF CheckApp, CountsOK
  <2>7. /\ moved' \in [Entries -> BOOLEAN]
        /\ progress' \in [Entries -> {"none", "ran", "unknown"}]
    BY <1>5 DEF CheckApp, Observed, CountsOK
  <2>8. CountsOK'
    BY <1>5, <2>5, <2>6, <2>7 DEF CheckApp, CountsOK
  <2> QED BY <1>5, <2>1, <2>8, Untouched DEF CheckApp
<1>6. CASE ActOnApp
  <2>1. next \in Entries /\ wakeup' \in BOOLEAN
    BY <1>6 DEF ActOnApp, ControlOK, BusOK
  <2>2. /\ BusOK' /\ locked' \in [TableNames -> BOOLEAN] /\ task' \in {"reset", "apps"}
        /\ app' \in [Apps -> {"absent", "initializing", "running", "waiting"}]
    BY <1>6, <2>1, PerformTyped DEF ActOnApp
  <2>3. ControlOK'
    BY <1>1, <1>2, <1>6, <2>1, <2>2 DEF ActOnApp, ControlOK
  <2>4. TablesOK'
    BY <1>6, <2>2 DEF ActOnApp, TablesOK
  <2>5. CountsOK'
    <3>1. 0 \in 0..(CountMod - 1)
      BY HsAssumption
    <3> QED BY <1>6, <2>2, <3>1 DEF ActOnApp, CountsOK
  <2> QED BY <2>2, <2>3, <2>4, <2>5
<1>7. CASE AppsEnd
  <2>1. ControlOK'
    BY <1>1, <1>7 DEF AppsEnd, ControlOK
  <2>2. TablesOK'
    BY <1>7 DEF AppsEnd, TablesOK, TableNames
  <2> QED BY <1>7, <2>1, <2>2, Untouched DEF AppsEnd
<1> QED BY <1>3, <1>4, <1>5, <1>6, <1>7

(* Steps of the commands and of the event monitor keep the types.          *)
LEMMA TypeEvents ==
  ASSUME TypeOK, Commands \/ TakeEvent \/ MatchEvent \/ NextEvent \/ EventsEnd
  PROVE  TypeOK'
<1> USE DEF TypeOK
<1>1. /\ next \in Nat /\ HS_MAX_CRITICAL_EVENTS \in Nat /\ HS_EVENT_PIPE_DEPTH \in Nat
      /\ taken \in 0..HS_EVENT_PIPE_DEPTH /\ faults \in 0..MaxFaults /\ MaxFaults \in Nat
      /\ 1 \in 1..(HS_MAX_CRITICAL_EVENTS + 1)
  BY HsAssumption DEF ControlOK
<1>2. CASE Commands
  <2>1. faults' \in 0..MaxFaults
    BY <1>1, <1>2 DEF Commands
  <2>2. ControlOK'
    <3>1. PICK error \in BOOLEAN :
            \/ task' = "events" /\ failed' = error
            \/ task' = AfterPass(error) /\ UNCHANGED failed
      BY <1>2 DEF Commands
    <3>2. task' \in {"events", "ended", "waiting"} /\ failed' \in BOOLEAN
      BY <3>1 DEF AfterPass, ControlOK
    <3> QED BY <1>2, <2>1, <3>2 DEF Commands, ControlOK
  <2>3. TablesOK'
    BY <1>2 DEF Commands, TablesOK, TableNames
  <2>4. BusOK'
    BY <1>2, ErrorTyped DEF Commands, BusOK
  <2> QED BY <1>2, <2>2, <2>3, <2>4, Untouched DEF Commands
<1>3. CASE TakeEvent
  <2>1. /\ event' \in Event /\ pipe' \in Seq(Event) /\ Len(pipe') <= HS_EVENT_PIPE_DEPTH
        /\ taken' \in 0..HS_EVENT_PIPE_DEPTH
    BY <1>1, <1>3 DEF TakeEvent, BusOK
  <2>2. BusOK' /\ ControlOK'
    BY <1>1, <1>3, <2>1 DEF TakeEvent, BusOK, ControlOK
  <2> QED BY <1>3, <2>2, Untouched DEF TakeEvent
<1>4. CASE MatchEvent
  <2>1. next' \in 1..(HS_MAX_CRITICAL_EVENTS + 1) /\ next' \in Nat
    BY <1>1, <1>4 DEF MatchEvent, EventSlots
  <2>2. CASE Matches
    <3>1. wakeup' \in BOOLEAN
      BY <1>4 DEF MatchEvent, BusOK
    <3>2. /\ BusOK' /\ locked' \in [TableNames -> BOOLEAN] /\ task' \in {"reset", "matching"}
          /\ app' \in [Apps -> {"absent", "initializing", "running", "waiting"}]
          /\ failed' \in BOOLEAN
      BY <1>4, <2>2, <3>1, PerformTyped DEF MatchEvent, RestartsHS
    <3>3. ControlOK' /\ TablesOK' /\ CountsOK'
      BY <1>4, <2>1, <3>2 DEF MatchEvent, ControlOK, TablesOK, CountsOK, counts
    <3> QED BY <3>2, <3>3
  <2>3. CASE ~Matches
    <3>1. ControlOK'
      BY <1>4, <2>1, <2>3 DEF MatchEvent, ControlOK
    <3>2. UNCHANGED <<bus, tables, monitored, counts, app>>
      BY <1>4, <2>3 DEF MatchEvent, bus, tables
    <3> QED BY <3>1, <3>2, Untouched
  <2> QED BY <2>2, <2>3
<1>5. CASE NextEvent
  <2>1. ControlOK'
    BY <1>1, <1>5, HsEvents DEF NextEvent, ControlOK
  <2> QED BY <1>5, <2>1, Untouched DEF NextEvent
<1>6. CASE EventsEnd
  <2>1. faults' \in 0..MaxFaults /\ taken' \in 0..HS_EVENT_PIPE_DEPTH
    BY <1>1, <1>6 DEF EventsEnd
  <2>2. ControlOK'
    BY <1>6, <2>1 DEF EventsEnd, ControlOK, AfterPass
  <2>3. TablesOK'
    BY <1>6 DEF EventsEnd, TablesOK, TableNames
  <2>4. BusOK'
    BY <1>6, ErrorTyped DEF EventsEnd, BusOK
  <2> QED BY <1>6, <2>2, <2>3, <2>4, Untouched DEF EventsEnd
<1> QED BY <1>2, <1>3, <1>4, <1>5, <1>6

(* Every variable keeps to its type: the event pipe never holds more than  *)
(* its depth, the count of an entry never leaves its width, and a monitor  *)
(* that is enabled has a table.                                            *)
THEOREM TypeCorrect == Spec => []TypeOK
<1>1. TypeOK /\ UNCHANGED vars => TypeOK'
  BY Untouched DEF TypeOK, vars
<1>2. TypeOK /\ [Next]_vars => TypeOK'
  BY <1>1, TypeOutside, TypeApps, TypeEvents DEF Next, Task
<1> QED BY <1>2, TypeInit, PTL DEF Spec

-----------------------------------------------------------------------------
(* Steps that leave tables and counts alone, and neither begin nor end an  *)
(* action on an application, keep the invariant.                           *)
LEMMA Kept ==
  ASSUME HsInv, TypeOK', UNCHANGED <<table, monitored, counts>>,
         \/ task' = task /\ next' = next
         \/ /\ task # "acting" /\ task' # "acting"
            /\ task' = "apps" => task = "apps"
            /\ task' \in {"events", "matching"} => monitored["EMT"]
  PROVE  HsInv'
  BY DEF HsInv, PhaseOK, EntryOK, Supervised, Entry, counts

(* Nothing is counted at the start.                                        *)
LEMMA InvInit == Init => HsInv
<1> SUFFICES ASSUME Init  PROVE HsInv
  OBVIOUS
<1>1. TypeOK
  BY TypeInit
<1>2. \A i \in Entries : Supervised(i) => 0 < table["AMT"][i].CycleCount
  BY <1>1, EntryFields DEF TypeOK, Supervised
<1> QED BY <1>1, <1>2 DEF Init, HsInv, PhaseOK, EntryOK

(* Nothing is counted after a load of the table of applications.           *)
LEMMA InvReset ==
  ASSUME TypeOK', ResetCounts, task' # "acting"
  PROVE  \A i \in Entries : EntryOK(i)'
<1>1. \A i \in Entries : Supervised(i)' => 0 < table'["AMT"][i].CycleCount
  BY DEF Supervised
<1> QED BY <1>1 DEF ResetCounts, EntryOK

(* Applications keep the invariant: what runs differs from what HS saw.    *)
LEMMA InvCounted ==
  ASSUME HsInv, TypeOK', NEW x \in Apps, RunLoop(x) \/ Create(x)
  PROVE  HsInv'
<1>1. PICK known \in BOOLEAN : Counted(x, known)
  BY DEF RunLoop, Create
<1>2. UNCHANGED <<control, table, monitored, StaticAppCounts, silent, idle>>
  BY DEF RunLoop, Create, tables
<1>3. ASSUME NEW i \in Entries  PROVE EntryOK(i)'
  <2>1. EntryOK(i)
    BY DEF HsInv
  <2>2. progress'[i] = "none" => ~moved'[i]
    BY <1>1, <2>1 DEF Counted, EntryOK, HsInv, TypeOK, CountsOK
  <2>3. progress'[i] = "ran" => moved'[i]
    BY <1>1, <2>1 DEF Counted, EntryOK, HsInv, TypeOK, CountsOK
  <2> QED BY <1>2, <2>1, <2>2, <2>3 DEF EntryOK, Supervised, control
<1>4. PhaseOK'
  BY <1>2 DEF HsInv, PhaseOK, Entry, control
<1> QED BY <1>3, <1>4 DEF HsInv

(* Steps of the rest of the system keep the invariant.                     *)
LEMMA InvOutside ==
  ASSUME HsInv,
         \/ SendTick \/ WakeupError \/ Restart \/ \E e \in Event : SendEvent(e)
         \/ \E n \in TableNames : \E t \in TablesOf[n] : LoadTable(n, t)
         \/ \E x \in Apps : RunLoop(x) \/ Create(x) \/ Delete(x)
  PROVE  HsInv'
<1>1. TypeOK'
  BY TypeOutside DEF HsInv
<1>2. CASE SendTick \/ \E e \in Event : SendEvent(e)
  BY <1>1, <1>2, Kept DEF SendTick, SendEvent, control, tables
<1>3. CASE WakeupError
  BY <1>1, <1>3, Kept DEF WakeupError, tables
<1>4. CASE Restart
  BY <1>1, <1>4, InvReset DEF Restart, HsInv, PhaseOK
<1>5. CASE \E n \in TableNames : \E t \in TablesOf[n] : LoadTable(n, t)
  BY <1>1, <1>5, Kept DEF LoadTable, control
<1>6. CASE \E x \in Apps : RunLoop(x) \/ Create(x)
  BY <1>1, <1>6, InvCounted
<1>7. CASE \E x \in Apps : Delete(x)
  BY <1>1, <1>7, Kept DEF Delete, control, tables
<1> QED BY <1>2, <1>3, <1>4, <1>5, <1>6, <1>7

(* A tick begins a pass, on a new table with counts of zero.               *)
LEMMA InvTick ==
  ASSUME HsInv, Tick
  PROVE  HsInv'
<1>1. TypeOK'
  BY TypeApps DEF HsInv
<1>2. task' \in {"apps", "commands"} /\ (task' = "apps" => monitored'["AMT"])
  BY DEF Tick, StartMonitor
<1>3. CASE "AMT" \in Updates
  <2>1. \A i \in Entries : EntryOK(i)'
    BY <1>1, <1>2, <1>3, InvReset DEF Tick
  <2> QED BY <1>1, <1>2, <2>1 DEF HsInv, PhaseOK
<1>4. CASE "AMT" \notin Updates
  <2>1. table'["AMT"] = table["AMT"]
    BY <1>4 DEF Tick, Manage, TableNames
  <2>2. UNCHANGED counts /\ task = "waiting"
    BY <1>4 DEF Tick
  <2>3. \A i \in Entries : EntryOK(i)'
    BY <1>2, <2>1, <2>2 DEF HsInv, EntryOK, Supervised, counts
  <2> QED BY <1>1, <1>2, <2>3 DEF HsInv, PhaseOK
<1> QED BY <1>3, <1>4

(* A check counts an entry that stood still, and acts at the limit.        *)
LEMMA InvCheck ==
  ASSUME HsInv, CheckApp
  PROVE  HsInv'
<1>1. TypeOK'
  BY TypeApps DEF HsInv
<1>2. /\ task = "apps" /\ next \in Entries /\ Observed(next) /\ Entry.AppName # NoApp
      /\ UNCHANGED <<table, monitored>> /\ monitored["AMT"] /\ table["AMT"] # NoTable
  BY DEF CheckApp, tables, HsInv, PhaseOK, TypeOK, TablesOK
<1>3. /\ Entry.CycleCount \in Nat /\ Entry.CycleCount <= CountMod - 1 /\ CountMod \in Nat
      /\ \A i \in Entries : /\ StaticAppCounts[i] \in 0..(CountMod - 1)
                            /\ silent[i] \in Nat /\ idle[i] \in 0..(CountMod - 1)
  BY <1>2, EntryFields, HsAssumption DEF HsInv, TypeOK, CountsOK, Entry
<1>4. EntryOK(next) /\ (Supervised(next) <=> Entry.CycleCount > 0)
  BY <1>2 DEF HsInv, Supervised, Entry
<1>5. /\ ~moved'[next] /\ progress'[next] = "none"
      /\ silent'[next] = IF progress[next] = "none" THEN Capped(silent[next] + 1) ELSE 0
      /\ idle'[next] = IF progress[next] # "ran" THEN Capped(idle[next] + 1) ELSE idle[next]
  BY <1>2 DEF Observed, HsInv, TypeOK, CountsOK
<1> PICK k \in Entries : k = next
  BY <1>2
<1>6. ASSUME NEW i \in Entries, i # k  PROVE EntryOK(i)'
  <2>1. /\ moved'[i] = moved[i] /\ progress'[i] = progress[i] /\ silent'[i] = silent[i]
        /\ idle'[i] = idle[i] /\ StaticAppCounts'[i] = StaticAppCounts[i]
    BY <1>2, <1>6 DEF CheckApp, Observed, HsInv, TypeOK, CountsOK
  <2> QED BY <1>2, <2>1 DEF HsInv, EntryOK, Supervised
<1>7. CASE moved[next]
  <2>1. StaticAppCounts' = StaticAppCounts /\ task' = "apps"
    BY <1>2, <1>7 DEF CheckApp
  <2>2. silent'[next] = 0
    BY <1>4, <1>5, <1>7 DEF EntryOK
  <2>3. idle'[next] >= idle[next]
    BY <1>2, <1>3, <1>5 DEF Capped
  <2>4. Supervised(next) => /\ silent'[next] <= StaticAppCounts'[next]
                            /\ StaticAppCounts'[next] <= idle'[next]
    <3>1. idle'[next] \in Nat
      BY <1>2, <1>3, <1>5 DEF Capped
    <3> QED BY <1>2, <1>3, <1>4, <2>1, <2>2, <2>3, <3>1 DEF EntryOK
  <2>5. Supervised(next) => StaticAppCounts'[next] < Entry.CycleCount
    BY <1>2, <1>4, <2>1 DEF EntryOK, Entry
  <2>6. EntryOK(k)'
    BY <1>2, <1>5, <2>4, <2>5 DEF EntryOK, Supervised, Entry
  <2>7. PhaseOK'
    BY <1>2, <2>1 DEF PhaseOK
  <2> QED BY <1>1, <1>6, <2>6, <2>7 DEF HsInv
<1>8. CASE ~moved[next]
  <2>1. StaticAppCounts'[next] = (StaticAppCounts[next] + 1) % CountMod
    BY <1>2, <1>8 DEF CheckApp, HsInv, TypeOK, CountsOK
  <2>2. /\ task' \in {"apps", "acting"}
        /\ task' = "acting" => next' = next /\ StaticAppCounts'[next] = Entry.CycleCount
        /\ StaticAppCounts'[next] = Entry.CycleCount => task' = "acting" /\ next' = next
    BY <1>2, <1>8 DEF CheckApp
  <2>3. progress[next] # "ran"
    BY <1>4, <1>8 DEF EntryOK
  <2>4. ASSUME Supervised(next)
        PROVE  /\ StaticAppCounts'[next] = StaticAppCounts[next] + 1
               /\ StaticAppCounts'[next] <= Entry.CycleCount
               /\ silent'[next] <= StaticAppCounts'[next]
               /\ StaticAppCounts'[next] <= idle'[next]
    <3>1. StaticAppCounts[next] < Entry.CycleCount
      BY <1>2, <1>4, <2>4 DEF EntryOK, Entry
    <3>2. StaticAppCounts'[next] = StaticAppCounts[next] + 1
      BY <1>2, <1>3, <2>1, <3>1
    <3>3. silent[next] <= StaticAppCounts[next] /\ StaticAppCounts[next] <= idle[next]
      BY <1>4, <2>4 DEF EntryOK
    <3>4. silent'[next] <= silent[next] + 1
      BY <1>2, <1>3, <1>5 DEF Capped
    <3>5. idle'[next] = Capped(idle[next] + 1)
      BY <1>5, <2>3
    <3>6. StaticAppCounts[next] + 1 <= Capped(idle[next] + 1)
      BY <1>2, <1>3, <3>1, <3>3 DEF Capped
    <3>7. silent'[next] \in Nat
      BY <1>2, <1>3, <1>5 DEF Capped
    <3> QED BY <1>2, <1>3, <3>1, <3>2, <3>3, <3>4, <3>5, <3>6, <3>7
  <2>5. StaticAppCounts'[next] \in Nat
    BY <1>1, <1>2 DEF TypeOK, CountsOK
  <2>6. Supervised(next) => \/ StaticAppCounts'[next] < Entry.CycleCount
                            \/ task' = "acting" /\ next' = next
    BY <1>3, <2>2, <2>4, <2>5
  <2>7. EntryOK(k)'
    BY <1>2, <1>5, <2>4, <2>6 DEF EntryOK, Supervised, Entry
  <2>8. PhaseOK'
    BY <1>2, <2>2 DEF PhaseOK, Entry
  <2> QED BY <1>1, <1>6, <2>7, <2>8 DEF HsInv
<1> QED BY <1>7, <1>8

(* An action sets the count of its entry back.                             *)
LEMMA InvAct ==
  ASSUME HsInv, ActOnApp
  PROVE  HsInv'
<1>1. TypeOK'
  BY TypeApps DEF HsInv
<1>2. task = "acting" /\ next \in Entries /\ monitored["AMT"] /\ UNCHANGED <<table, monitored>>
  BY DEF ActOnApp, HsInv, PhaseOK, TypeOK, ControlOK
<1>3. task' \in {"reset", "apps"}
  BY DEF ActOnApp, Perform
<1>4. ASSUME NEW i \in Entries  PROVE EntryOK(i)'
  <2>1. EntryOK(i)
    BY DEF HsInv
  <2>2. UNCHANGED <<moved, progress>>
    BY DEF ActOnApp
  <2>3. CASE i = next
    <3>1. StaticAppCounts'[i] = 0 /\ silent'[i] = 0 /\ idle'[i] = 0
      BY <2>3 DEF ActOnApp, HsInv, TypeOK, CountsOK
    <3>2. Supervised(i) => 0 < table["AMT"][i].CycleCount
      BY DEF Supervised
    <3> QED BY <1>2, <2>1, <2>2, <3>1, <3>2 DEF EntryOK, Supervised
  <2>4. CASE i # next
    <3>1. /\ StaticAppCounts'[i] = StaticAppCounts[i] /\ silent'[i] = silent[i]
          /\ idle'[i] = idle[i]
      BY <2>4 DEF ActOnApp, HsInv, TypeOK, CountsOK
    <3> QED BY <1>2, <2>1, <2>2, <2>4, <3>1 DEF EntryOK, Supervised
  <2> QED BY <2>3, <2>4
<1>5. PhaseOK'
  BY <1>2, <1>3 DEF PhaseOK
<1> QED BY <1>1, <1>4, <1>5 DEF HsInv

(* The rest of a pass keeps the invariant.                                 *)
LEMMA InvPass ==
  ASSUME HsInv, \/ SkipApp \/ AppsEnd \/ Commands
                \/ TakeEvent \/ MatchEvent \/ NextEvent \/ EventsEnd
  PROVE  HsInv'
<1>1. TypeOK'
  BY TypeApps, TypeEvents DEF HsInv
<1>2. CASE SkipApp
  BY <1>1, <1>2, Kept DEF SkipApp, tables
<1>3. CASE AppsEnd
  BY <1>1, <1>3, Kept DEF AppsEnd
<1>4. CASE Commands
  <2>1. /\ task = "commands" /\ task' \in {"events", "ended", "waiting"}
        /\ task' = "events" => monitored["EMT"]
    BY <1>4 DEF Commands, AfterPass
  <2> QED BY <1>1, <1>4, <2>1, Kept DEF Commands
<1>5. CASE TakeEvent \/ NextEvent
  <2>1. /\ task \in {"events", "matching"} /\ task' \in {"events", "matching"}
        /\ monitored["EMT"]
    BY <1>5 DEF TakeEvent, NextEvent, HsInv, PhaseOK
  <2> QED BY <1>1, <1>5, <2>1, Kept DEF TakeEvent, NextEvent, tables
<1>6. CASE MatchEvent
  <2>1. task = "matching" /\ task' \in {"reset", "matching"} /\ monitored["EMT"]
    BY <1>6 DEF MatchEvent, Perform, HsInv, PhaseOK
  <2> QED BY <1>1, <1>6, <2>1, Kept DEF MatchEvent
<1>7. CASE EventsEnd
  <2>1. task = "events" /\ task' \in {"ended", "waiting"}
    BY <1>7 DEF EventsEnd, AfterPass
  <2> QED BY <1>1, <1>7, <2>1, Kept DEF EventsEnd
<1> QED BY <1>2, <1>3, <1>4, <1>5, <1>6, <1>7

(* The invariant holds.                                                    *)
LEMMA Invariant == Spec => []HsInv
<1>1. HsInv /\ UNCHANGED vars => HsInv'
  <2> SUFFICES ASSUME HsInv, UNCHANGED vars  PROVE HsInv'
    OBVIOUS
  <2>1. TypeOK'
    BY Untouched DEF HsInv, TypeOK, vars
  <2> QED BY <2>1, Kept DEF vars, control, tables
<1>2. HsInv /\ [Next]_vars => HsInv'
  BY <1>1, InvOutside, InvTick, InvCheck, InvAct, InvPass DEF Next, Task
<1> QED BY <1>2, InvInit, PTL DEF Spec

-----------------------------------------------------------------------------
(* An application that does nothing from check to check is acted on at the *)
(* check its table asks for, for every table and every order of loads,     *)
(* restarts and events.                                                    *)
THEOREM InTime == Spec => []ActedOnInTime
<1>1. HsInv => ActedOnInTime
  <2> SUFFICES ASSUME HsInv, NEW i \in Entries, Supervised(i)
               PROVE  \/ silent[i] < table["AMT"][i].CycleCount
                      \/ task = "acting" /\ next = i
    BY DEF ActedOnInTime
  <2>1. /\ silent[i] \in Nat /\ StaticAppCounts[i] \in Nat
        /\ table["AMT"][i].CycleCount \in Nat
    BY EntryFields, HsAssumption DEF HsInv, TypeOK, CountsOK, Supervised
  <2>2. EntryOK(i)
    BY DEF HsInv
  <2> QED BY <2>1, <2>2 DEF EntryOK
<1> QED BY <1>1, Invariant, PTL

(* HS acts only on an application that may have done nothing at as many    *)
(* checks as its table asks for, since the last action or load.            *)
THEOREM WithCause == Spec => []ActedOnWithCause
<1>1. HsInv => ActedOnWithCause
  <2> SUFFICES ASSUME HsInv, task = "acting"  PROVE idle[next] >= Entry.CycleCount
    BY DEF ActedOnWithCause
  <2>1. /\ next \in Entries /\ table["AMT"] # NoTable /\ Entry.AppName # NoApp
        /\ StaticAppCounts[next] = Entry.CycleCount
    BY DEF HsInv, PhaseOK, TypeOK, ControlOK, TablesOK
  <2>2. idle[next] \in Nat /\ Entry.CycleCount \in Nat
    BY <2>1, EntryFields, HsAssumption DEF HsInv, TypeOK, CountsOK, Entry
  <2>3. EntryOK(next)
    BY <2>1 DEF HsInv
  <2>4. Entry.CycleCount > 0 => Supervised(next)
    BY <2>1 DEF Supervised, Entry
  <2> QED BY <2>1, <2>2, <2>3, <2>4 DEF EntryOK
<1> QED BY <1>1, Invariant, PTL
=============================================================================
