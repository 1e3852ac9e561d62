---------------------------- MODULE HealthSafety ----------------------------
(***************************************************************************)
(* Health and safety HS (ofsw/cfs/hs/fsw/src): once a second the task      *)
(* looks at the execution counters of the applications in its table and    *)
(* acts on those that stood still too often, then takes the events that    *)
(* came and acts on the critical ones.  Meanwhile applications run, hang,  *)
(* end and are restarted, and ground loads tables.                         *)
(*                                                                         *)
(* Abstracted: of the execution counter of an application and the count    *)
(* HS saw last, whether they differ; the data of messages; names, so that  *)
(* an application ID names one application; HS's counters and its packet.  *)
(* Tables are valid: validation looks at action types and checksums only.  *)
(* The errors of HS_Init that end HS before its loop are left out.         *)
(***************************************************************************)
EXTENDS Integers, Sequences

CONSTANTS
  HS_MAX_CRITICAL_APPS, HS_MAX_CRITICAL_EVENTS,
  HS_EVENT_PIPE_DEPTH,
  Apps, NoApp,               (* applications; the name of an unused entry  *)
  EventIds,                  (* identifiers of events                      *)
  Messages,                  (* numbers of message actions                 *)
  AMTs, EMTs, MATs, NoTable, (* tables; none was loaded, no load pending   *)
  CountMod,                  (* StaticAppCounts wraps; 2^32                *)
  MaxGround,                 (* bound: loads, restarts of HS, exits        *)
  MaxFaults                  (* bound: errors of pipes                     *)

Entries     == 1..HS_MAX_CRITICAL_APPS
EventSlots  == 1..HS_MAX_CRITICAL_EVENTS
TableNames  == {"AMT", "EMT", "MAT"}
ActionTypes == {"PROCESSOR_RESET", "APP_RESTART", "SEND_EVENT"} \union Messages

AppMonitorEntry ==
  [AppName : Apps \union {NoApp}, CycleCount : 0..(CountMod - 1), ActionType : ActionTypes]
Event == [AppName : Apps \union {"HS"}, EventId : EventIds]
EventMonitorEntry ==
  [AppName : Apps \union {"HS", NoApp}, EventId : EventIds, ActionType : ActionTypes]

(* HS reports an action; HS reports an error.                              *)
HsAction == [AppName |-> "HS", EventId |-> "ACTION_INF"]
HsError  == [AppName |-> "HS", EventId |-> "ERR"]

TablesOf == [AMT |-> AMTs, EMT |-> EMTs, MAT |-> MATs]
Loaded == [AMT : AMTs \union {NoTable}, EMT : EMTs \union {NoTable}, MAT : MATs \union {NoTable}]

ASSUME HsAssumption ==
  /\ HS_MAX_CRITICAL_APPS \in Nat /\ HS_MAX_CRITICAL_EVENTS \in Nat
  /\ HS_EVENT_PIPE_DEPTH \in Nat /\ CountMod \in Nat \ {0}
  /\ NoApp \notin Apps /\ "HS" \notin Apps /\ {"ACTION_INF", "ERR"} \subseteq EventIds
  /\ AMTs \subseteq [Entries -> AppMonitorEntry]
  /\ EMTs \subseteq [EventSlots -> EventMonitorEntry]
  /\ MATs \subseteq [Messages -> BOOLEAN]
  /\ NoTable \notin AMTs /\ NoTable \notin EMTs /\ NoTable \notin MATs
  /\ MaxGround \in Nat /\ MaxFaults \in Nat

VARIABLES
  wakeup, pipe,              (* WakeupPipe holds its tick; EventPipe       *)
  task, next, taken, event,  (* the task, its entry and events in a loop,  *)
  failed,                    (* the event at hand; RunStatus is an error   *)
                             (* or ES is asked to restart HS               *)
  table, pending, locked,    (* the three tables, their loads and locks    *)
  monitored,                 (* AppMonitorStatus and EventMonitorStatus    *)
  StaticAppCounts, moved,    (* the count; ExecutionCounter differs from   *)
                             (* PrevAppCounts                              *)
  app,                       (* states of the applications                 *)
  progress, silent, idle,    (* history, per entry: what the application   *)
                             (* did since the check before; checks in a    *)
                             (* row it did nothing before, and all those   *)
                             (* it may have done nothing before, since     *)
                             (* the last action                            *)
  ground, faults

bus     == <<wakeup, pipe>>
control == <<task, next, taken, event, failed>>
tables  == <<table, pending, locked>>
counts  == <<StaticAppCounts, moved, progress, silent, idle>>
vars    == <<bus, control, tables, monitored, counts, app, ground, faults>>

-----------------------------------------------------------------------------
(* HS_Init: a table whose file cannot be loaded leaves its monitor         *)
(* disabled.  PrevAppCounts is 0, which a counter may be or not.           *)
Init ==
  /\ wakeup = FALSE /\ pipe = << >>
  /\ task = "waiting" /\ next = 1 /\ taken = 0 /\ event = HsError /\ failed = FALSE
  /\ table \in Loaded
  /\ pending = [n \in TableNames |-> NoTable] /\ locked = [n \in TableNames |-> FALSE]
  /\ monitored = [n \in {"AMT", "EMT"} |-> table[n] # NoTable]
  /\ StaticAppCounts = [i \in Entries |-> 0] /\ moved \in [Entries -> BOOLEAN]
  /\ app = [a \in Apps |-> "initializing"]
  /\ progress = [i \in Entries |-> "unknown"]
  /\ silent = [i \in Entries |-> 0] /\ idle = [i \in Entries |-> 0]
  /\ ground = 0 /\ faults = 0

-----------------------------------------------------------------------------
(* The rest of the system.  The tick comes once a second; a full pipe      *)
(* takes no message.                                                       *)
Alive == task \notin {"ended", "reset"}

SendTick ==
  /\ Alive /\ ~wakeup /\ wakeup' = TRUE
  /\ UNCHANGED <<pipe, control, tables, monitored, counts, app, ground, faults>>

(* Fault: nothing bounds it.                                               *)
FillAlways(msgs) == pipe \o msgs

Fill(msgs) ==
  LET p == pipe \o msgs
  IN  IF Len(p) <= HS_EVENT_PIPE_DEPTH THEN p ELSE SubSeq(p, 1, HS_EVENT_PIPE_DEPTH)

SendEvent(e) ==
  /\ Alive /\ monitored["EMT"] /\ Len(pipe) < HS_EVENT_PIPE_DEPTH /\ pipe' = Fill(<<e>>)
  /\ UNCHANGED <<wakeup, control, tables, monitored, counts, app, ground, faults>>

LoadTable(n, t) ==
  /\ pending[n] = NoTable /\ ground < MaxGround
  /\ pending' = [pending EXCEPT ![n] = t] /\ ground' = ground + 1
  /\ UNCHANGED <<bus, control, table, locked, monitored, counts, app, faults>>

(* Executive services.  Each pass of the loop of an application counts, to *)
(* a value other than HS saw, unless that is not a value of this counter:  *)
(* PrevAppCounts is 0 at first, and a task that is created goes on with    *)
(* the counter it finds.                                                   *)
Watching(a) == {i \in Entries : table["AMT"] # NoTable /\ table["AMT"][i].AppName = a}
Counted(a, known) ==
  /\ progress' = [i \in Entries |-> IF i \notin Watching(a) THEN progress[i]
                                    ELSE IF known /\ progress[i] # "unknown" THEN "ran"
                                    ELSE "unknown"]
  /\ moved' \in [Entries -> BOOLEAN]
  /\ \A i \in Entries : /\ i \notin Watching(a) => moved'[i] = moved[i]
                        /\ progress'[i] = "ran" => (moved'[i] \/ i \notin Watching(a))

RunLoop(a) ==
  /\ app[a] # "absent"
  /\ app' = [app EXCEPT ![a] = IF @ = "initializing" THEN "running" ELSE @]
  /\ Counted(a, TRUE)
  /\ UNCHANGED <<bus, control, tables, monitored, StaticAppCounts, silent, idle, ground, faults>>

Create(a) ==
  /\ app[a] = "absent" /\ app' = [app EXCEPT ![a] = "initializing"]
  /\ Counted(a, FALSE)
  /\ UNCHANGED <<bus, control, tables, monitored, StaticAppCounts, silent, idle, ground, faults>>

(* A restart takes the application down first; others exit or crash.       *)
Delete(a) ==
  /\ app[a] # "absent" /\ app' = [app EXCEPT ![a] = "absent"]
  /\ IF app[a] = "waiting" THEN UNCHANGED ground
     ELSE ground < MaxGround /\ ground' = ground + 1
  /\ UNCHANGED <<bus, control, tables, monitored, counts, faults>>

-----------------------------------------------------------------------------
(* Actions of HS.  Only an application that runs can be restarted; the     *)
(* name of one that is absent leaves AppId at 0, a core application, which *)
(* cannot be restarted.                                                    *)
RestartApp(a) ==
  app' = [b \in Apps |-> IF b = a /\ app[b] = "running" THEN "waiting" ELSE app[b]]

Report(msgs) == pipe' = IF monitored["EMT"] THEN Fill(msgs) ELSE pipe

(* HS_PerformMessageAction, after the event of its caller.  A table that   *)
(* was never loaded is released; else it stays locked and the application  *)
(* monitor table is released.                                              *)
PerformMessageAction(m) ==
  IF table["MAT"] = NoTable
  THEN Report(<<HsAction, HsError>>) /\ locked' = [locked EXCEPT !["MAT"] = FALSE]
  ELSE /\ Report(IF table["MAT"][m] THEN <<HsAction>> ELSE <<HsAction, HsError>>)
       /\ locked' = [locked EXCEPT !["MAT"] = TRUE, !["AMT"] = FALSE]

Perform(type, a, then) ==
  \/ /\ type = "PROCESSOR_RESET" /\ Report(<<HsAction>>) /\ task' = "reset"
     /\ UNCHANGED <<app, locked>>
  \/ /\ type = "APP_RESTART" /\ Report(<<HsAction>>) /\ task' = then
     /\ RestartApp(a) /\ UNCHANGED locked
  \/ /\ type = "SEND_EVENT" /\ Report(<<HsAction>>) /\ task' = then
     /\ UNCHANGED <<app, locked>>
  \/ /\ type \in Messages /\ PerformMessageAction(type) /\ task' = then
     /\ UNCHANGED app

-----------------------------------------------------------------------------
(* HS_TaskMain at a tick: loads are applied to tables that are not locked; *)
(* a new application monitor table resets the counts.  Then the monitor    *)
(* begins.                                                                 *)
Updates == {n \in TableNames : pending[n] # NoTable /\ ~locked[n]}

ResetCounts ==
  /\ StaticAppCounts' = [i \in Entries |-> 0] /\ moved' \in [Entries -> BOOLEAN]
  /\ progress' = [i \in Entries |-> "unknown"]
  /\ silent' = [i \in Entries |-> 0] /\ idle' = [i \in Entries |-> 0]

Manage ==
  /\ table' = [n \in TableNames |-> IF n \in Updates THEN pending[n] ELSE table[n]]
  /\ pending' = [n \in TableNames |-> IF n \in Updates THEN NoTable ELSE pending[n]]

StartMonitor ==
  /\ task' = IF monitored["AMT"] THEN "apps" ELSE "commands"
  /\ next' = 1 /\ locked' = [locked EXCEPT !["AMT"] = @ \/ monitored["AMT"]]

(* Fault: the counts are kept.                                             *)
TickKeepsCounts ==
  /\ task = "waiting" /\ wakeup /\ wakeup' = FALSE
  /\ Manage /\ StartMonitor
  /\ IF "AMT" \in Updates
     THEN /\ silent' = [i \in Entries |-> 0] /\ idle' = [i \in Entries |-> 0]
          /\ progress' = [i \in Entries |-> "unknown"] /\ moved' \in [Entries -> BOOLEAN]
          /\ UNCHANGED StaticAppCounts
     ELSE UNCHANGED counts
  /\ UNCHANGED <<pipe, taken, event, failed, monitored, app, ground, faults>>

Tick ==
  /\ task = "waiting" /\ wakeup /\ wakeup' = FALSE
  /\ Manage /\ StartMonitor
  /\ IF "AMT" \in Updates THEN ResetCounts ELSE UNCHANGED counts
  /\ UNCHANGED <<pipe, taken, event, failed, monitored, app, ground, faults>>

WakeupError ==
  /\ task = "waiting" /\ faults < MaxFaults /\ faults' = faults + 1 /\ task' = "ended"
  /\ Report(<<HsError>>)
  /\ UNCHANGED <<wakeup, next, taken, event, failed, tables, monitored, counts, app, ground>>

-----------------------------------------------------------------------------
(* HS_MonitorApplications, entry next.  Applications go on between the     *)
(* look at a counter and the action.                                       *)
Entry == table["AMT"][next]

SkipApp ==
  /\ task = "apps" /\ next \in Entries /\ next' = next + 1
  /\ \/ Entry.AppName = NoApp /\ UNCHANGED pipe
     \/ Entry.AppName # NoApp /\ app[Entry.AppName] = "absent" /\ Report(<<HsError>>)
  /\ UNCHANGED <<wakeup, task, taken, event, failed, tables, monitored, counts, app, ground, faults>>

Capped(n) == IF n < CountMod THEN n ELSE CountMod - 1

Observed(i) ==
  /\ moved' = [moved EXCEPT ![i] = FALSE]
  /\ progress' = [progress EXCEPT ![i] = "none"]
  /\ silent' = [silent EXCEPT ![i] = IF progress[i] = "none" THEN Capped(@ + 1) ELSE 0]
  /\ idle' = [idle EXCEPT ![i] = IF progress[i] # "ran" THEN Capped(@ + 1) ELSE @]

CheckApp ==
  /\ task = "apps" /\ next \in Entries
  /\ Entry.AppName # NoApp /\ app[Entry.AppName] # "absent"
  /\ Observed(next)
  /\ IF moved[next] THEN task' = task /\ next' = next + 1 /\ UNCHANGED StaticAppCounts
     ELSE /\ StaticAppCounts' = [StaticAppCounts EXCEPT ![next] = (@ + 1) % CountMod]
          /\ IF StaticAppCounts'[next] = Entry.CycleCount
             THEN task' = "acting" /\ next' = next
             ELSE task' = task /\ next' = next + 1
  /\ UNCHANGED <<bus, taken, event, failed, tables, monitored, app, ground, faults>>

(* Fault: the count is not reset.                                          *)
ActKeepsCount ==
  /\ task = "acting" /\ next' = next + 1
  /\ Perform(Entry.ActionType, Entry.AppName, "apps")
  /\ silent' = [silent EXCEPT ![next] = 0] /\ idle' = [idle EXCEPT ![next] = 0]
  /\ UNCHANGED <<wakeup, taken, event, failed, table, pending, monitored, StaticAppCounts, moved,
                 progress, ground, faults>>

ActOnApp ==
  /\ task = "acting" /\ next' = next + 1
  /\ Perform(Entry.ActionType, Entry.AppName, "apps")
  /\ StaticAppCounts' = [StaticAppCounts EXCEPT ![next] = 0]
  /\ silent' = [silent EXCEPT ![next] = 0] /\ idle' = [idle EXCEPT ![next] = 0]
  /\ UNCHANGED <<wakeup, taken, event, failed, table, pending, monitored, moved, progress,
                 ground, faults>>

AppsEnd ==
  /\ task = "apps" /\ next = HS_MAX_CRITICAL_APPS + 1
  /\ task' = "commands" /\ next' = 1 /\ locked' = [locked EXCEPT !["AMT"] = FALSE]
  /\ UNCHANGED <<bus, taken, event, failed, table, pending, monitored, counts, app,
                 ground, faults>>

-----------------------------------------------------------------------------
(* Commands change no state but counters; an error of their pipe ends HS   *)
(* after this pass.                                                        *)
AfterPass(error) == IF error THEN "ended" ELSE "waiting"

Commands ==
  /\ task = "commands"
  /\ \E error \in BOOLEAN :
       /\ IF error THEN faults < MaxFaults /\ faults' = faults + 1 /\ Report(<<HsError>>)
          ELSE UNCHANGED <<faults, pipe>>
       /\ IF monitored["EMT"] THEN task' = "events" /\ failed' = error
          ELSE task' = AfterPass(error) /\ UNCHANGED failed
  /\ locked' = [locked EXCEPT !["EMT"] = @ \/ monitored["EMT"]]
  /\ UNCHANGED <<wakeup, next, taken, event, table, pending, monitored, counts, app, ground>>

(* HS_MonitorEvents takes up to HS_EVENT_PIPE_DEPTH events, compares each  *)
(* with every entry and acts on those that match.                          *)
(* Fault: events are taken until none is left.                             *)
TakeEventAlways ==
  /\ task = "events" /\ pipe # << >>
  /\ event' = Head(pipe) /\ pipe' = Tail(pipe)
  /\ task' = "matching" /\ next' = 1
  /\ UNCHANGED <<wakeup, taken, failed, tables, monitored, counts, app, ground, faults>>

TakeEvent ==
  /\ task = "events" /\ taken < HS_EVENT_PIPE_DEPTH /\ pipe # << >>
  /\ event' = Head(pipe) /\ pipe' = Tail(pipe)
  /\ task' = "matching" /\ next' = 1 /\ taken' = taken + 1
  /\ UNCHANGED <<wakeup, failed, tables, monitored, counts, app, ground, faults>>

Slot == table["EMT"][next]
Matches == [AppName |-> Slot.AppName, EventId |-> Slot.EventId] = event

(* A restart of HS itself, which its loop sees after this pass.            *)
RestartsHS == Slot.AppName = "HS" /\ Slot.ActionType = "APP_RESTART"

MatchEvent ==
  /\ task = "matching" /\ next \in EventSlots /\ next' = next + 1
  /\ IF Matches THEN /\ Perform(Slot.ActionType, Slot.AppName, "matching")
                     /\ failed' = (failed \/ RestartsHS)
     ELSE UNCHANGED <<task, pipe, app, locked, failed>>
  /\ UNCHANGED <<wakeup, taken, event, table, pending, monitored, counts, ground, faults>>

NextEvent ==
  /\ task = "matching" /\ next = HS_MAX_CRITICAL_EVENTS + 1 /\ task' = "events"
  /\ event' = HsError /\ next' = 1
  /\ UNCHANGED <<bus, taken, failed, tables, monitored, counts, app, ground, faults>>

EventsEnd ==
  /\ task = "events"
  /\ \/ (taken = HS_EVENT_PIPE_DEPTH \/ pipe = << >>) /\ UNCHANGED <<faults, pipe>>
     \/ faults < MaxFaults /\ faults' = faults + 1 /\ Report(<<HsError>>)
  /\ task' = AfterPass(failed) /\ taken' = 0 /\ failed' = FALSE
  /\ locked' = [locked EXCEPT !["EMT"] = FALSE]
  /\ UNCHANGED <<wakeup, next, event, table, pending, monitored, counts, app, ground>>

-----------------------------------------------------------------------------
(* HS is started again, or the processor is and all applications with it.  *)
Restart ==
  /\ task \in {"waiting", "ended", "reset"} /\ ground < MaxGround /\ ground' = ground + 1
  /\ wakeup' = FALSE /\ pipe' = << >>
  /\ task' = "waiting" /\ next' = 1 /\ taken' = 0 /\ event' = HsError /\ failed' = FALSE
  /\ table' \in Loaded
  /\ pending' = [n \in TableNames |-> NoTable] /\ locked' = [n \in TableNames |-> FALSE]
  /\ monitored' = [n \in {"AMT", "EMT"} |-> table'[n] # NoTable]
  /\ ResetCounts
  /\ IF task = "reset" THEN app' = [a \in Apps |-> "initializing"] ELSE UNCHANGED app
  /\ UNCHANGED faults

Task ==
  \/ Tick \/ SkipApp \/ CheckApp \/ ActOnApp \/ AppsEnd \/ Commands
  \/ TakeEvent \/ MatchEvent \/ NextEvent \/ EventsEnd

Next ==
  \/ Task \/ WakeupError \/ Restart \/ SendTick
  \/ \E e \in Event : e.AppName \in Apps /\ SendEvent(e)
  \/ \E n \in TableNames : \E t \in TablesOf[n] : LoadTable(n, t)
  \/ \E a \in Apps : RunLoop(a) \/ Create(a) \/ Delete(a)

Spec == Init /\ [][Next]_vars

(* The task is scheduled, and the tick comes; nothing is asked of other    *)
(* applications.                                                           *)
FairSpec == Spec /\ WF_vars(Task) /\ WF_vars(SendTick)

-----------------------------------------------------------------------------
(***************************************************************************)
(* Properties                                                              *)
(***************************************************************************)

(* Every variable keeps to its type.                                       *)
BusOK ==
  wakeup \in BOOLEAN /\ pipe \in Seq(Event) /\ Len(pipe) <= HS_EVENT_PIPE_DEPTH
ControlOK ==
  /\ task \in {"waiting", "apps", "acting", "commands", "events", "matching", "ended", "reset"}
  /\ next \in Nat /\ (task = "apps" => next \in 1..(HS_MAX_CRITICAL_APPS + 1))
  /\ (task = "acting" => next \in Entries)
  /\ (task = "matching" => next \in 1..(HS_MAX_CRITICAL_EVENTS + 1))
  /\ taken \in 0..HS_EVENT_PIPE_DEPTH /\ event \in Event /\ failed \in BOOLEAN
  /\ ground \in 0..MaxGround /\ faults \in 0..MaxFaults
TablesOK ==
  /\ table \in Loaded /\ pending \in Loaded
  /\ locked \in [TableNames -> BOOLEAN] /\ monitored \in [{"AMT", "EMT"} -> BOOLEAN]
  /\ \A n \in {"AMT", "EMT"} : monitored[n] => table[n] # NoTable
CountsOK ==
  /\ StaticAppCounts \in [Entries -> 0..(CountMod - 1)] /\ moved \in [Entries -> BOOLEAN]
  /\ progress \in [Entries -> {"none", "ran", "unknown"}]
  /\ silent \in [Entries -> 0..(CountMod - 1)] /\ idle \in [Entries -> 0..(CountMod - 1)]
  /\ app \in [Apps -> {"absent", "initializing", "running", "waiting"}]
TypeOK == BusOK /\ ControlOK /\ TablesOK /\ CountsOK

(* An application that does nothing from check to check is acted on at the *)
(* check its table asks for, whatever was loaded and counted before.       *)
Supervised(i) ==
  table["AMT"] # NoTable /\ table["AMT"][i].AppName # NoApp /\ table["AMT"][i].CycleCount > 0
ActedOnInTime ==
  \A i \in Entries : Supervised(i) =>
    silent[i] < table["AMT"][i].CycleCount \/ (task = "acting" /\ next = i)

(* HS acts on an application only if since the last action, or the load of *)
(* this table, as many checks found it may have done nothing since the     *)
(* check before: what another application, or one that ran, did not do is  *)
(* not held against it.                                                    *)
ActedOnWithCause == task = "acting" => idle[next] >= Entry.CycleCount

(* An application that hangs is acted on again and again, however many     *)
(* events come, those HS causes itself included.                           *)
HungIsAnswered ==
  \A i \in Entries :
    <>[](/\ Alive /\ monitored["AMT"] /\ Supervised(i) /\ progress[i] = "none"
         /\ app[table["AMT"][i].AppName] # "absent")
      => []<>(task = "acting" /\ next = i)

(* cfe_tbl.h:496 "An application must always release the returned table    *)
(* address using the CFE_TBL_ReleaseAddress function prior to either a     *)
(* CFE_TBL_Update call or any blocking call".                              *)
ReleasedBeforeWaiting == task = "waiting" => \A n \in TableNames : ~locked[n]
=============================================================================
