------------------------------ MODULE SCHTask ------------------------------
(***************************************************************************)
(* The scheduler app: ofsw/cfs/sch/fsw/src/sch_task.c.                     *)
(*                                                                         *)
(* A major frame (one second, begun by a tone) has TotalSlots minor        *)
(* frames.  In each the task wakes up on a binary semaphore and performs   *)
(* the activities of one slot of its schedule table.  Two callbacks give   *)
(* the semaphore: SCH_1Hz_Callback on the tone, in a cFE task of higher    *)
(* priority, and SCH_Timer_Callback, a signal handler that interrupts the  *)
(* scheduler task.  All three read and write MinorFrame and                *)
(* IgnoreMajorFrame, nobody locks: a step here is what lies between two    *)
(* accesses of the task to them.  Time is in half minor frames, the unit   *)
(* of SCH_SYNC_SLOT_DRIFT_WINDOW.                                          *)
(***************************************************************************)
EXTENDS Integers, FiniteSets

CONSTANTS
  TotalSlots,        (* SCH_TOTAL_SLOTS                                    *)
  EntriesPerSlot,    (* SCH_ENTRIES_PER_SLOT                               *)
  MaxSlotsPerWakeup, (* SCH_MAX_SLOTS_PER_WAKEUP                           *)
  MaxLagCount,       (* SCH_MAX_LAG_COUNT                                  *)
  MaxNoisyMF,        (* SCH_MAX_NOISY_MF                                   *)
  StartupPeriod,     (* SCH_STARTUP_PERIOD, in half minor frames           *)
  Groups, NoGroup,   (* group_data of entries and commands; its 0          *)
  ScheduleTables,    (* the table images ground may load, bad ones as well *)
  MaxStray,          (* bound: tones that come when none is expected       *)
  MaxMissed,         (* bound: tones that do not come when expected        *)
  MaxOverrun,        (* bound: half frames that pass while the task works  *)
  MaxGround          (* bound: ground commands and loads                   *)

Slots     == 0..(TotalSlots - 1)
Entries   == 0..(EntriesPerSlot - 1)
Positions == Slots \X Entries
MajorFrame == 2 * TotalSlots

(* An entry of the schedule table.  Its activity (to send the message of   *)
(* its msg_index) has no state of its own.                                 *)
Entry == [enable_state : {"UNUSED", "ENABLED", "DISABLED"},
          period : Nat, remainder : Nat, group_data : Groups]

(* An image never loaded is zero.                                          *)
Zero == [p \in Positions |-> [enable_state |-> "UNUSED", period |-> 0,
                              remainder |-> 0, group_data |-> NoGroup]]

ASSUME SchAssumption ==
  /\ TotalSlots \in Nat /\ TotalSlots >= 2
  /\ EntriesPerSlot \in Nat \ {0}
  /\ MaxSlotsPerWakeup \in 1..TotalSlots
  /\ MaxLagCount \in Nat \ {0}
  /\ MaxNoisyMF \in Nat \ {0}
  /\ StartupPeriod \in Nat \ {0}
  /\ MaxStray \in Nat /\ MaxMissed \in Nat /\ MaxOverrun \in Nat /\ MaxGround \in Nat
  /\ NoGroup \in Groups
  /\ ScheduleTables \subseteq [Positions -> Entry]

VARIABLES
  MinorFrame, CurrentSlot, LastSlot, CatchUpCount,
  NoisyMajorFrameCount, IgnoreMajorFrame,
  pc,             (* where the task stands: see the actions                *)
  next_frame, slots_to_process,   (* its local variables                   *)
  semaphore,      (* SCH_TimingSemaphore is full                           *)
  timer,          (* half frames until the timer expires                   *)
  handler,        (* where SCH_Timer_Callback stands, "none" if not called *)
  schedule,       (* the active schedule table                             *)
  loaded,         (* it was loaded at least once                           *)
  pending,        (* the images, at most one, that wait for CFE_TBL_Manage *)
  locked,         (* the address of the table was taken and not released   *)
  age,            (* half frames since the last tone, modulo a major frame *)
  toned,          (* a tone came in this half frame                        *)
  stray, missed, overrun, ground,
  hist            (* see NoHistory                                         *)

task   == <<pc, next_frame, slots_to_process>>
slots  == <<CurrentSlot, LastSlot, CatchUpCount>>
sync   == <<NoisyMajorFrameCount, IgnoreMajorFrame>>
timing == <<semaphore, timer, handler>>
tables == <<schedule, loaded, pending, locked>>
world  == <<age, toned, stray, missed, overrun>>
vars   == <<MinorFrame, slots, sync, task, timing, tables, world, ground, hist>>

(* heard: a tone came while the task waited, and it has not processed      *)
(* slots since; unexpected: so did a tone in the wrong frame; synced: a    *)
(* tone came in the wrong frame and the task has not woken up since.       *)
(* inPhase: the last tone was valid and found the task waiting for slot 0, *)
(* and the task has kept up since.                                         *)
(* batch: the slots the last wake-up processed.                            *)
(* performed: the activities it performed.                                 *)
(* passes: enabled passes of each position since its activity was last     *)
(* performed, -1 if it was not since the table was loaded.                 *)
NoHistory == [heard |-> FALSE, unexpected |-> FALSE, synced |-> FALSE,
              inPhase |-> FALSE, batch |-> {}, performed |-> {},
              passes |-> [p \in Positions |-> -1]]

History == [heard : BOOLEAN, unexpected : BOOLEAN, synced : BOOLEAN,
            inPhase : BOOLEAN, batch : SUBSET Slots, performed : SUBSET Positions,
            passes : [Positions -> Nat \union {-1}]]

(* SCH_ScheduleTblValidationFunc                                           *)
Valid(table) ==
  \A p \in Positions :
    table[p].enable_state # "UNUSED" => table[p].remainder < table[p].period

-----------------------------------------------------------------------------
(* SCH_Init: the file of the schedule table is loaded if it is valid; a    *)
(* tone may come, and set the timer, before the last OS_TimerSet.          *)
Init ==
  /\ MinorFrame = 0 /\ CurrentSlot = 0 /\ LastSlot = TotalSlots - 1
  /\ CatchUpCount = 0 /\ NoisyMajorFrameCount = 0 /\ IgnoreMajorFrame = FALSE
  /\ pc = "wait" /\ next_frame = 0 /\ slots_to_process = 1
  /\ semaphore \in BOOLEAN /\ timer = StartupPeriod /\ handler = "none"
  /\ \/ \E file \in ScheduleTables : Valid(file) /\ schedule = file /\ loaded = TRUE
     \/ schedule = Zero /\ loaded = FALSE
  /\ pending = {} /\ locked = FALSE
  /\ age \in 0..(MajorFrame - 1) /\ toned = FALSE
  /\ stray = 0 /\ missed = 0 /\ overrun = 0 /\ ground = 0
  /\ hist = [NoHistory EXCEPT !.heard = semaphore]

(* OS_TimerSet: the timer expires once after start, then every minor frame.*)
TimerSet(start) == timer' = start

-----------------------------------------------------------------------------
(* The callbacks.                                                          *)

(* A tone is expected a major frame after the last one.                    *)
Expected == age = 0 /\ ~toned

(* SCH_1Hz_Callback; what it does to an ignored tone is nothing.           *)
Tone ==
  /\ ~IgnoreMajorFrame
  /\ \/ Expected /\ UNCHANGED stray
     \/ ~Expected /\ stray < MaxStray /\ stray' = stray + 1
  /\ TimerSet(2)
  /\ MinorFrame' = 0
  /\ \/ /\ MinorFrame # 0
        /\ IgnoreMajorFrame' = (NoisyMajorFrameCount + 1 >= MaxNoisyMF)
        /\ NoisyMajorFrameCount' = IF IgnoreMajorFrame' THEN 0 ELSE NoisyMajorFrameCount + 1
     \/ /\ MinorFrame = 0
        /\ NoisyMajorFrameCount' = 0
        /\ UNCHANGED IgnoreMajorFrame
  /\ semaphore' = TRUE
  /\ age' = 0 /\ toned' = TRUE
  /\ hist' = [hist EXCEPT !.synced = @ \/ MinorFrame # 0,
                          !.heard = @ \/ pc = "wait",
                          !.unexpected = @ \/ MinorFrame # 0,
                          !.inPhase = /\ pc = "wait" /\ handler = "none"
                                      /\ MinorFrame = 0 /\ CurrentSlot = 0]
  /\ UNCHANGED <<slots, task, handler, tables, missed, overrun, ground>>

(* SCH_Timer_Callback up to the check for a missing tone.                  *)
CheckTone ==
  /\ handler = "called"
  /\ handler' = IF MinorFrame = 0 /\ ~IgnoreMajorFrame THEN "missing" ELSE "checked"
  /\ UNCHANGED <<MinorFrame, slots, sync, task, semaphore, timer, tables, world, ground, hist>>

(* Faults: the frame after a missing tone is as long as any; the semaphore *)
(* is given only if a tone is missing.                                     *)
GiveWithoutMakingUp ==
  /\ handler \in {"missing", "checked"}
  /\ IF handler = "missing" THEN TimerSet(2) ELSE UNCHANGED timer
  /\ semaphore' = TRUE
  /\ handler' = "none"
  /\ UNCHANGED <<MinorFrame, slots, sync, task, tables, world, ground, hist>>

GiveIfMissing ==
  /\ handler \in {"missing", "checked"}
  /\ IF handler = "missing"
     THEN TimerSet(1) /\ semaphore' = TRUE
     ELSE UNCHANGED <<timer, semaphore>>
  /\ handler' = "none"
  /\ UNCHANGED <<MinorFrame, slots, sync, task, tables, world, ground, hist>>

(* The rest of it: after a tone that is missing the next frame is shorter  *)
(* by what the wait for it was longer.                                     *)
GiveSemaphore ==
  /\ handler \in {"missing", "checked"}
  /\ IF handler = "missing" THEN TimerSet(1) ELSE UNCHANGED timer
  /\ semaphore' = TRUE
  /\ handler' = "none"
  /\ UNCHANGED <<MinorFrame, slots, sync, task, tables, world, ground, hist>>

(* Half a minor frame passes.  That a callback takes as long is left out,  *)
(* that the task does is bounded.                                          *)
KeptUp == pc = "wait" /\ ~semaphore

Advance ==
  /\ handler = "none"
  /\ \/ KeptUp /\ UNCHANGED overrun
     \/ ~KeptUp /\ overrun < MaxOverrun /\ overrun' = overrun + 1
  /\ \/ Expected /\ ~IgnoreMajorFrame /\ missed < MaxMissed /\ missed' = missed + 1
     \/ (~Expected \/ IgnoreMajorFrame) /\ UNCHANGED missed
  /\ IF timer = 1 THEN timer' = 2 /\ handler' = "called"
                  ELSE timer' = timer - 1 /\ UNCHANGED handler
  /\ age' = (age + 1) % MajorFrame /\ toned' = FALSE
  /\ hist' = [hist EXCEPT !.inPhase = @ /\ KeptUp]
  /\ UNCHANGED <<MinorFrame, slots, sync, task, semaphore, tables, stray, ground>>

-----------------------------------------------------------------------------
(* The task, SCH_TaskMain.  A handler that was called runs first.          *)
At(place) == pc = place /\ handler = "none"

Wake ==
  /\ At("wait") /\ semaphore
  /\ semaphore' = FALSE
  /\ next_frame' = (MinorFrame + 1) % TotalSlots
  /\ pc' = IF next_frame' = 0 THEN "extend" ELSE "compare"
  /\ hist' = [hist EXCEPT !.synced = FALSE]
  /\ UNCHANGED <<MinorFrame, slots, sync, slots_to_process, timer, handler, tables,
                 world, ground>>

(* Before the first slot the timer is set to give the tone some time.      *)
ExtendTimer ==
  /\ At("extend")
  /\ IF IgnoreMajorFrame THEN UNCHANGED timer ELSE TimerSet(3)
  /\ pc' = "commands"
  /\ UNCHANGED <<MinorFrame, slots, sync, next_frame, slots_to_process, semaphore,
                 handler, tables, world, ground, hist>>

(* SCH_ProcessCommandPackets handles what is in the pipe, if anything.  A  *)
(* command that takes the address of the table releases it in the end.     *)
Command ==
  /\ At("commands")
  /\ ground < MaxGround /\ ground' = ground + 1
  /\ UNCHANGED <<MinorFrame, slots, NoisyMajorFrameCount, task, timing, loaded, pending,
                 world, hist>>

(* SCH_SetEntryStateCmd takes an entry from one state to the other.        *)
Opposite(state) == IF state = "ENABLED" THEN "DISABLED" ELSE "ENABLED"

SetEntryStateCmd(p, state) ==
  /\ Command
  /\ IF p \in Positions /\ loaded /\ schedule[p].enable_state = Opposite(state)
     THEN schedule' = [schedule EXCEPT ![p].enable_state = state]
     ELSE UNCHANGED schedule
  /\ locked' = (locked /\ p \notin Positions)
  /\ UNCHANGED IgnoreMajorFrame

(* SCH_SetGroupStateCmd                                                    *)
SetGroupStateCmd(group, state) ==
  /\ Command
  /\ schedule' = [p \in Positions |->
       IF loaded /\ schedule[p].group_data = group /\ schedule[p].enable_state = Opposite(state)
       THEN [schedule[p] EXCEPT !.enable_state = state] ELSE schedule[p]]
  /\ locked' = FALSE
  /\ UNCHANGED IgnoreMajorFrame

(* SCH_EnableSyncCmd                                                       *)
EnableSyncCmd ==
  /\ Command
  /\ IgnoreMajorFrame' = FALSE
  /\ UNCHANGED <<schedule, locked>>

(* SCH_SendDiagCmd: if the message table was never loaded, the address of  *)
(* the schedule table stays taken.                                         *)
SendDiagCmd(messages) ==
  /\ Command
  /\ locked' = (loaded /\ ~messages)
  /\ UNCHANGED <<schedule, IgnoreMajorFrame>>

(* SCH_ReportHousekeeping: a load that waits is applied unless the address *)
(* of the table is taken.                                                  *)
ReportHousekeeping ==
  /\ At("commands")
  /\ \/ /\ ~locked /\ \E image \in pending :
             /\ schedule' = image
             /\ hist' = [hist EXCEPT !.passes = NoHistory.passes, !.performed = {}]
        /\ loaded' = TRUE
        /\ pending' = {}
     \/ /\ locked \/ pending = {}
        /\ UNCHANGED <<schedule, loaded, pending, hist>>
  /\ UNCHANGED <<MinorFrame, slots, sync, task, timing, locked, world, ground>>

(* Ground loads and activates an image: it waits if it passes validation.  *)
LoadTable(image) ==
  /\ ground < MaxGround /\ ground' = ground + 1
  /\ Valid(image)
  /\ pending' = {image}
  /\ UNCHANGED <<MinorFrame, slots, sync, task, timing, schedule, loaded, locked, world, hist>>

CommandsDone ==
  /\ At("commands")
  /\ pc' = "compare"
  /\ UNCHANGED <<MinorFrame, slots, sync, next_frame, slots_to_process, timing, tables,
                 world, ground, hist>>

(* How far the task is behind, and how much of it this wake-up may do.     *)
Behind == (TotalSlots + next_frame - CurrentSlot) % TotalSlots

Lesser(a, b) == IF a <= b THEN a ELSE b

(* Fault: what was caught up before is not counted.                        *)
AllowedWhole == MaxSlotsPerWakeup

Allowed == Lesser(MaxLagCount - CatchUpCount, MaxSlotsPerWakeup)

(* Fault: a wake-up that is on time does not set how many slots to process.*)
CompareKeepsCount ==
  LET count == Lesser(Behind, Allowed)
  IN  /\ At("compare")
      /\ LastSlot' = CurrentSlot
      /\ IF CurrentSlot = MinorFrame
         THEN UNCHANGED <<slots_to_process, CatchUpCount>> /\ pc' = "process"
         ELSE IF CatchUpCount < MaxLagCount
         THEN /\ slots_to_process' = count
              /\ CatchUpCount' = IF count = Behind THEN 0 ELSE CatchUpCount + count
              /\ pc' = "process"
         ELSE slots_to_process' = 1 /\ CatchUpCount' = 0 /\ pc' = "skip"
      /\ UNCHANGED <<MinorFrame, CurrentSlot, sync, next_frame, timing, tables, world,
                     ground, hist>>

Compare ==
  LET count == Lesser(Behind, Allowed)
  IN  /\ At("compare")
      /\ LastSlot' = CurrentSlot
      /\ \/ /\ CurrentSlot = MinorFrame
           /\ slots_to_process' = 1
           /\ pc' = "process"
           /\ UNCHANGED CatchUpCount
        \/ /\ CurrentSlot # MinorFrame /\ CatchUpCount < MaxLagCount
           /\ slots_to_process' = count
           /\ CatchUpCount' = IF count = Behind THEN 0 ELSE CatchUpCount + count
           /\ pc' = "process"
        \/ /\ CurrentSlot # MinorFrame /\ CatchUpCount >= MaxLagCount
           /\ slots_to_process' = 1
           /\ CatchUpCount' = 0
           /\ pc' = "skip"
      /\ UNCHANGED <<MinorFrame, CurrentSlot, sync, next_frame, timing, tables, world,
                     ground, hist>>

(* MinorFrame is read again for the slot to skip to.                       *)
Skip ==
  /\ At("skip")
  /\ CurrentSlot' = MinorFrame
  /\ pc' = "process"
  /\ UNCHANGED <<MinorFrame, LastSlot, CatchUpCount, sync, next_frame, slots_to_process,
                 timing, tables, world, ground, hist>>

(* An enabled entry on a pass of its slot.                                 *)
Due(entry) == entry.enable_state = "ENABLED" /\ entry.remainder = 0

(* Fault: the remainder goes down while the entry is disabled.             *)
PassIfDisabled(entry) ==
  IF entry.enable_state = "UNUSED" THEN entry
  ELSE [entry EXCEPT !.remainder = IF @ = 0 THEN entry.period - 1 ELSE @ - 1]

Pass(entry) ==
  IF entry.enable_state # "ENABLED" THEN entry
  ELSE [entry EXCEPT !.remainder = IF @ = 0 THEN entry.period - 1 ELSE @ - 1]

Batch == {(CurrentSlot + k) % TotalSlots : k \in 0..(slots_to_process - 1)}

(* The slots are processed, and the frame ends.                            *)
ProcessSlots ==
  LET performed == {p \in Positions : p[1] \in Batch /\ Due(schedule[p])}
      passed == {p \in Positions : p[1] \in Batch /\ schedule[p].enable_state = "ENABLED"}
  IN  /\ At("process")
      /\ schedule' = [p \in Positions |-> IF p[1] \in Batch THEN Pass(schedule[p])
                                          ELSE schedule[p]]
      /\ MinorFrame' = next_frame
      /\ LastSlot' = (CurrentSlot + slots_to_process) % TotalSlots
      /\ CurrentSlot' = next_frame
      /\ pc' = "wait"
      /\ locked' = FALSE
      /\ hist' = [hist EXCEPT !.heard = FALSE, !.unexpected = FALSE,
                              !.batch = Batch, !.performed = performed,
                              !.passes = [p \in Positions |->
                                 IF p \in performed THEN 0
                                 ELSE IF p \in passed /\ @[p] >= 0 THEN @[p] + 1 ELSE @[p]]]
      /\ UNCHANGED <<CatchUpCount, sync, next_frame, slots_to_process, timing, loaded,
                     pending, world, ground>>

Next ==
  \/ Tone \/ CheckTone \/ GiveSemaphore \/ Advance
  \/ Wake \/ ExtendTimer \/ CommandsDone \/ Compare \/ Skip \/ ProcessSlots
  \/ \E state \in {"ENABLED", "DISABLED"} :
       \/ \E p \in (0..TotalSlots) \X (0..EntriesPerSlot) : SetEntryStateCmd(p, state)
       \/ \E group \in Groups : SetGroupStateCmd(group, state)
  \/ EnableSyncCmd
  \/ \E messages \in BOOLEAN : SendDiagCmd(messages)
  \/ ReportHousekeeping
  \/ \E image \in ScheduleTables : LoadTable(image)

Spec == Init /\ [][Next]_vars

(* The task runs when it can, callbacks do too, time passes, and a tone     *)
(* comes when the bound on missing ones leaves no choice.                  *)
TaskStep == Wake \/ ExtendTimer \/ CommandsDone \/ Compare \/ Skip \/ ProcessSlots

FairSpec == /\ Spec
            /\ WF_vars(TaskStep)
            /\ WF_vars(CheckTone \/ GiveSemaphore)
            /\ WF_vars(Advance)
            /\ WF_vars(Expected /\ Tone)

-----------------------------------------------------------------------------
(***************************************************************************)
(* Properties                                                              *)
(***************************************************************************)

(* Every variable keeps to its type: MinorFrame and CurrentSlot index the  *)
(* table, and the unsigned MaxLagCount - CatchUpCount does not underflow.  *)
TypeOK ==
  /\ {MinorFrame, CurrentSlot, LastSlot, next_frame} \subseteq Slots
  /\ CatchUpCount \in 0..MaxLagCount
  /\ NoisyMajorFrameCount \in 0..(MaxNoisyMF - 1) /\ IgnoreMajorFrame \in BOOLEAN
  /\ pc \in {"wait", "extend", "commands", "compare", "skip", "process"}
  /\ slots_to_process \in 0..MaxSlotsPerWakeup
  /\ semaphore \in BOOLEAN /\ timer \in Nat \ {0}
  /\ handler \in {"none", "called", "missing", "checked"}
  /\ schedule \in [Positions -> Entry] /\ loaded \in BOOLEAN /\ locked \in BOOLEAN
  /\ pending \subseteq ScheduleTables
  /\ age \in 0..(MajorFrame - 1) /\ toned \in BOOLEAN
  /\ hist \in History

(* The remainder of an entry in use stays below its period, so neither the *)
(* decrement nor period - 1 leaves the range of uint16: validation, the    *)
(* commands and the task itself all have to keep to it.                    *)
RemainderBelowPeriod ==
  \A p \in Positions : schedule[p].enable_state # "UNUSED" =>
    schedule[p].remainder \in 0..(schedule[p].period - 1)

Processing == pc = "process" /\ pc' = "wait"

(* An enabled activity is performed on exactly every period-th pass of its *)
(* slot; passes while it is disabled do not count, and nothing else (late  *)
(* wake-ups, catch-up, commands to other entries) shifts it.               *)
PeriodKept ==
  [][Processing =>
       \A p \in Positions :
         p[1] \in Batch /\ schedule[p].enable_state = "ENABLED" /\ hist.passes[p] >= 0 =>
           (p \in hist'.performed <=> hist.passes[p] = schedule[p].period - 1)]_vars

(* A tone that comes while the task waits takes effect with its next       *)
(* wake-up: the major frame goes on with slot 1.                           *)
SyncTakesEffect ==
  [][Processing /\ hist.heard => CurrentSlot' = 1]_vars

(* After a valid tone, as long as the task keeps up, slot s is processed   *)
(* exactly s minor frames after the tone, major frame after major frame;   *)
(* without tones only slot 0 may be late, by the drift window.             *)
PhaseKept ==
  [][Processing /\ hist.inPhase =>
       /\ slots_to_process = 1
       /\ age = 2 * CurrentSlot \/ (CurrentSlot = 0 /\ age = 1)]_vars

(* The scheduler is a cyclic executive: it processes slot after slot, and  *)
(* leaves out or repeats some only once for an unexpected tone; neither    *)
(* valid nor missing tones, overruns or collapsed gives of the semaphore   *)
(* disturb the order.                                                      *)
Cycle == INSTANCE CyclicExecutive WITH
           slot <- CurrentSlot, batch <- hist.batch, called <- hist.unexpected,
           MaxBatch <- MaxSlotsPerWakeup

CyclicOrder == Cycle!Spec

(* Each slot is processed again and again, also after stray tones have     *)
(* been ignored.                                                           *)
EverySlotAgain == \A s \in Slots : []<>(s \in hist.batch)

(* sch_task.c, SCH_1Hz_Callback: "Unexpected major frame -- sync anyways": *)
(* after a tone in the wrong frame the frame is the first until the task   *)
(* wakes up.                                                               *)
SyncAnyways == hist.synced => MinorFrame = 0
=============================================================================
