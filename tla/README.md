# Verification of the Moon Express lander flight software

The repository holds the flight software of a lunar lander (`bender/phil/ofsw`, on NASA's cFE and OSAL), its test
bench, simulation models and ground software (`boxy`).  This directory holds TLA+ modules that model the flight
applications whose logic is their own, TLC configurations that check the modules on small instances, and proofs for
TLAPS.  Paths below are relative to `src/bender/phil/ofsw/` unless they begin with `bender` or `boxy`.

## 1. Inventory

The applications are cFE tasks.  Each waits on a pipe of the software bus, on a semaphore or on a device, handles one
message at a time, and keeps its state in one static structure `<APP>_AppData`; tables are owned by an app and changed
by ground through the cFE table services, which apply a load when the app calls `CFE_TBL_Manage`.  Nobody locks
anything: an app is alone with its data unless callbacks share them (SCH).

| Component | State | Operations | Interacts with | Hard behaviour | What makes it correct |
|---|---|---|---|---|---|
| **SC, absolute time sequences** `cfs/sc` `sc_ats.c`, `sc_task.c` | two tables, the sorted index `ATSCmdInfo` of the one that runs, position, next command as reported, continue-on-failure | start, stop, switch, jump, continue-on-failure, 10 Hz tick, housekeeping | table services, time, software bus | loads while an index of the old image is in use; late ticks, stepped clocks; failures in the middle of a second | each command is sent once, in its second, from the table it was indexed from; the engine ends; telemetry agrees |
| **SC, relative time sequences** `sc_rts.c`, `sc_task.c` | up to 256 tables, `RTSInfo` per sequence, continue-on-failure, reported next RTS | start, stop, enable, disable, continue-on-failure, tick, housekeeping, start-up from a directory | as above | loads into running sequences, disables that wait for the end, a clock that wraps, buffers that are missing, restarts | commands in order and at their distance, disables hold, bookkeeping consistent, the reported next one is the earliest |
| **SC pipe** `sc_task.c` | pipe of 12 messages | sequences may command SC itself | software bus | bursts compete with ticks | order, lost and late ticks harmless |
| **SCH scheduler** `cfs/sch` | `MinorFrame`, `CurrentSlot`, `LastSlot`, `CatchUpCount`, `NoisyMajorFrameCount`, `IgnoreMajorFrame`, schedule and message tables, a timer, a binary semaphore | one minor frame of the task, 1 Hz callback, timer callback, enable/disable entry or group, enable sync, diagnostics, housekeeping | cFE time (tone), OSAL timer, every app (the ticks are its messages) | callbacks change what the task has read; gives of a binary semaphore collapse; late, early, missing and spurious tones | slots in order, phase kept, periods honoured, catch-up bounded |
| **LC limit checker** `cfs/lc` | watchpoint and actionpoint tables, results, subscriptions and their list, lookup by message, `LcEnabled`, failure counts | evaluate cycle, set state of LC or of actionpoints, table updates | telemetry of all apps, SC (starts RTSs) | watchpoints without news, several messages in a cycle, counts and differences that wrap, table changes between cycles, an order that cannot be sent, an equation that breaks the cycle | an RTS is ordered after a confirmed alarm of an armed actionpoint, once per arming, and no alarm that goes on stays unanswered |
| **HS health and safety** `cfs/hs` | three monitor tables, static counters of the monitored apps | 1 Hz wake-up, app monitor, event monitor, message actions | cFE executive (restarts apps), event services | counters that advance between samples and start anew, tables loaded under counts, actions that come back as events, tables missing | an app that hangs is acted on in time and again and again, one that runs is not |
| **HK housekeeping** `cfs/hk` | copy table, run-time table of 256 entries, output packets in a memory pool | combine input packets, send output packets, table changes | telemetry of all apps | set-up that stops half way, blocks returned entry by entry, input of the old table in the pipe, a table that stays locked | no block is lost or shared, no input is copied past its packet, routes are those of the table, a load takes effect |
| **DS data storage** `cfs/ds` | counters | a stub | | | |
| **CI command ingest** `src/ci` | frame buffers | read a frame from device or socket, send it on the bus | devices | short and bad frames | only whole frames go on |
| **CSL Simulink layer** `src/csl` | a ring of commands per input, sequence numbers, tick counters, model inputs and outputs | receive, step, re-initialise, clear queues | generated control models, software bus | bounded passes over the pipe, rings that wrap and are cleared, sequence numbers that wrap and start over while reader and writer remember the old ones | each command is presented once, in order; a reset costs at most one; the model's commands are published once |
| **fsw_lib** `src/fsw_lib` | none | CRC | | | |
| **cFE, OSAL, VxWorks** `cfe`, `osal`, `os` | vendored | | | | external here |
| **Ground simulators** `bender/phil/gsse` | device registers | thrusters, IMU, GPS and so on for the bench | CSL | | pure input and output |
| **Simulink, Monte Carlo** `bender/phil/wsim`, `bender/calculon` | | numerics | | | |
| **Dictionaries** `bender/clamps` | | command and telemetry dictionary | | | used here as documentation |
| **boxy** `boxy` | | ITOS procedures, Python and web tools of the operators | | | |

Interactions that carry the system: SCH sends the tick messages; SC, LC and HS work on them; LC and ground start RTSs
in SC; HS restarts apps; every app's tables change under `CFE_TBL_Manage`, which the app calls from its housekeeping.

The hazards, each with its line in the code and the properties that watch it, are listed in `PROJECT.json`.

## 2. Modules

### `SCAts`: the ATS engine

One action per handler: `StartATSCmd`, `StopATSCmd`, `SwitchATSCmd`, `JumpATSCmd`, `ContATSOnFailCmd`,
`ReportHousekeeping` (which applies the loads that wait, and stops an ATS whose table it updates) and `Tick`
(`SC_RunSequences` calling `SC_ATS_Update`).  SC is one task that takes its messages one by one, so a handler is one
step.  `LoadTable`, `StepClock` and `Second` are the environment, `Restart` is cFE starting the app again.  Variables
have the names of the fields of `SC_AppData`.  What is abstracted:

* a command is its id, its time and whether its checksum is right; its bytes, length and offset in the table are not
  there, because what they are taken from is what `IndexMatchesTable` is about;
* `CmdCtr` and `CmdErrCtr` are the `verdict` of a step, `AtsCmdCtr` and `AtsCmdErrCtr` the growth of `hist.sent` and
  `hist.failed`;  `hist` (what became of each command since start or jump) is an auxiliary variable;
* `qsort` leaves commands with equal time and id in any order: `Indexes` is the set of outcomes;
* a tick may come anywhere in a second (ten do), at least one does unless `StepClock` says otherwise;
* NOOP, counter reset and the length check change counters only and are left out.

The slot after the end of `ATSCmdInfo` reads as 0: what lies there is `RTSInfo[0]`, with `NextCmdTime` where a
`Timestamp` would be, which is 0 while RTS 1 is idle (`Stamp`).

### `SCRts`: the RTS engine

`StartRTSCmd`, `StopRTSCmd`, `DisableRTSCmd`, `EnableRTSCmd`, `ContRTSOnFailCmd`, `ReportHousekeeping` (applies loads to
running sequences too, and finds the next one due), `Tick` (`SC_RTS_UpdateAll`), `Restart` (`SC_RTS_Register` reads the
directory).  A table is its buffer: `at` says at which byte offsets a header with a message id can be read, and the
delay, length and checksum found there, `starts` where its own commands begin (`IsTable`: a fact of every buffer, as
`SC_RTS_Validate` accepts all).  Elsewhere the buffer is blank.  The engine keeps `NextCmdPtr` and `NextCmdLength` as the
code does, and goes on with them after housekeeping has replaced the table under a running RTS: it may then stand at
another command, in the middle of one, or at zeros, where it completes (`SCRtsReplaced.cfg`).  An iteration of the loop of
`SC_RTS_SendCommands` is a step, `SendCommand`; `sending` holds the RTSs a tick or a start has found due, in whose order
they follow, and the task does nothing else until that is empty (`Waiting`).  The software bus may have no buffer for any
command (`ZeroCopyGetPtr` returns NULL), has none for one longer than `MaxLength`, and a copy that is shorter than the
message in it claims may have either checksum (`Checksums`).  Offsets and lengths are in small units (`DelaySize`,
`MinLength`, `MaxLength`).  Time is in ticks and wraps at `TimeMod`; `After` is `CFE_TIME_Compare` with its rollover rule.
The copy to a NULL buffer is a fault, after which the app can only be restarted; that the target may map address 0 and
the app go on is left out.
`SC_RTS_TIME_TOLERANCE` (1 ms) is below the tick and abstracted.

### `SCHTask` and `CyclicExecutive`: the scheduler

Three actors share `MinorFrame` and `IgnoreMajorFrame` without a lock: the task (`SCH_TaskMain`), `SCH_1Hz_Callback`,
which the cFE time task calls, of higher priority, and `SCH_Timer_Callback`, which VxWorks runs as a signal handler in
the context of the task that created the timer.  So `Tone` is one step that may come anywhere, the timer callback has
two (`CheckTone`, `GiveSemaphore`: a tone may come between them) and no step of the task comes between these, and the
task's loop is cut where it reads or writes a shared variable: `Wake` (waits for the semaphore, computes `next_frame`),
`ExtendTimer`, the commands (one action per handler that changes state, and `ReportHousekeeping`) and `CommandsDone`,
`Compare`, `Skip`, `ProcessSlots` (the slots and the end of the frame).  Time goes on in half minor frames, the unit of
the drift window: `Advance`, only bounded while the task works (`MaxOverrun`).  Abstracted:

* `age` is the time since the last tone modulo a major frame; a tone is expected when it is 0.  `MaxStray` tones may come
  besides, `MaxMissed` may not come;
* what an activity does (it sends a message) has no state; which activities were performed is in `hist`;
* the counters of the housekeeping packet, NOOP, counter reset, length checks;
* the message table; whether it was ever loaded is an input of `SendDiagCmd`, because it decides whether the address of
  the schedule table is released (`locked`; the next frame of the task releases it);
* deletion and restart of the app.

`CyclicExecutive` is what the scheduler promises: slots in cyclic order, one or a few at a time, for ever; an unexpected
tone excuses one break of the order.  `SCHTask` implements it with `slot <- CurrentSlot`, `batch` the slots the last
wake-up processed, `called <- hist.unexpected` (`CyclicOrder`).

The promise cannot be stronger.  A scheduler with missing tones only (none stray) and one overrun may see a tone that
comes on time as unexpected: the timer callback finds `MinorFrame = 0` twice while the task is busy with slot 0, and
shortens two frames (`sch_task.c:311-313`).  It is ahead of the tone then, until the tone comes in frame 2 or later and
the task, which has more to catch up than `SCH_MAX_SLOTS_PER_WAKEUP`, leaves slots out.  Also `same_slot_count` goes up
with every wake-up that is on time (`sch_task.c:99`, because line 165 saves a `CurrentSlot` already advanced), although
`sch_task.h:106` has it as "Number of times SCH woke up in the same slot as last time".

### `CSLQueue` and `CommandQueue`: the Simulink interface layer

The task pends on the event `CSL_CMD_PIPE_EVENT` that every message of the pipe sets (`Wakeup`), reads at most `PipeDepth`
messages in a pass (`Receive`: one disjunct per message and command handler), and at the end of the pass makes one step
if a tick was among them (`EndPass`, `Step`): `Present` hands the head of each ring to the model under a new sequence
number, `ModelStep` is the model, `Cleanup` takes the command off its ring, `Publish` sends what the model issued.
Messages arrive between any two reads.  `PipeError` and `Restart` end and start the app.  The generated model is external:
it takes a command whose sequence number is not the one it read last, and may issue one command a step.  A ring's byte
pointers are slot numbers, a command is its serial number and its `Size`: its data fit a slot behind the header that
`sl_enqueue_msg` writes before them, or fill it without one and spill over the header in the next slot
(`csl_app.c:1037`; `sl_rcv_msg` accepts data of up to `siz` bytes), or are refused.  A slot behind the ring's last
(`CSL_QUEUE_LEN` is greater than `CSL_MAX_RCVMSG`) is never read, and the header of a free slot is written when a command
is put there, so a spill is harmful only if it takes the last place of a ring and the head lies in the next slot: the
oldest command is `Garbled` then, its message id and command code are wrong when it is presented (`CSLQueueSpills.cfg`).
`CommandQueue` is what the layer promises of the rings: FIFO queues with hand-over, refusal when full, a drop of all
that is queued, and such an overrun of the oldest (`Overrun`) as the only other thing that happens to a command;
`FirstInFirstOut` is the refinement.

`SeqMod` 3 stands for 2^16: the number a reset meets is then the one before, the one at hand or the next, all the cases
there are.  Left out: the telemetry packet and all counters but `CmdErrorCounter` (its increment is part of `Enqueue`),
the parameter table, and the errors of `csl_app_init`.  No application of this repository defines `MY_RT_MID`, so
outputs are published at every step.  Met while modelling, and kept as the code has it:

* a message is counted twice (`csl_app.c:1065` and `1111`; `1008` and `1115`);
* the sequence of an output is taken over before the software bus is asked for a buffer (`565`): without one the command
  is not sent later;
* commands are taken off their rings before a simulator's start time, when the model does not run;
* several ticks read in one pass make one step.

### `LimitChecker`: watchpoints and actionpoints

A cycle is `EvalTick` (results of the last cycle are forgotten), `Drain` for each message of the telemetry pipe until it is
empty (`Finish`), or `TlmError`, and `ProcessActionpoints` in `EndCycle`, where the orders, each of which may fail, and the
equations, any of which may break and end the cycle, follow the code's order.  Telemetry comes at any time.  `SetGlobalState`,
`SetActionpointState`, `ResetActionpointStates`, `ManageActionpointTable` and `ManageWatchpointTable` come between cycles,
as the command pipe is polled there; `Restart` starts LC again.  The equation's stack machine is the recursive function `Solve`; a
watchpoint's comparison is the sign of a difference modulo `Word` (2^32, here 8), the failure count is modulo `CountMod`
(2^8, here 3).  `means` is an auxiliary field of an actionpoint: the sets of watchpoints its author takes for an alarm.
The hash table is the lookup it computes; the packet's counters and housekeeping, which LC never reads, are left out.

`hist.trusted` says that every subscription and lookup could be made and no watchpoint compares values half a word apart:
beyond that the code compares the wrong way round (`lc_task_watchpoint_table.c:191`), and promises nothing.  Other
places where the code differs from its comments or from what one expects, all as modelled unless they say otherwise:

* `lc_task.h:244` has `LcEnabled` as "global enable for LC. If false, all incoming TLM messages are ignored"; a disabled
  LC evaluates, counts, and makes actionpoints that trip `PASSIVE`, so that they do not fire once it is enabled;
* `lc_task.h:166` says "0=disabled, 1=enabled" although 1 is `PASSIVE`; a table load keeps states and counts, and with them the
  streak of alarms, of the old table (`lc_task.h:269` speaks of default states);
* a count limit above 255 is never reached (`uint8` against `uint16`; the tables of the runs have none), and arming anew does not reset the count;
* one bucket of the hash table is given one entry too many (`lc_task_watchpoint_table.c:90`) and `Subscriptions[]` may
  overflow its 40 places over several loads (not modelled: the lookup and list are sets here);
* `NOT` of a watchpoint without a message is TRUE; an equation that fills all its elements is never evaluated;
* a failed subscription leaves the old lookup in front of the new table.

### `Housekeeping`: the combiner

`SetupEntry` and `UnloadEntry` take one entry of the copy table each, so that messages, failures of a subscription or
of an allocation, and errors of the pipe come between any two; `SetupEnd` and `UnloadEnd` close the loops, the update
of the table lies between them.  `ProcessPacket` copies an input to every entry that has it, `ReportHousekeeping` sends a packet and
marks its entries absent.  The memory pool of cFE is an external part, as HK uses it: blocks of fixed sizes, each with a
header, never coalesced; address 0 stands for no block, and its use is a fault or, on this target, goes unnoticed
(`UseAddresses`).  A packet is its message id and length.  HK's own packet and counters and the errors of `HK_Init`
before the set-up are left out; validation accepts every table, so tables are not restricted, but they are assumed not to
name HK's own messages.  Kept as the code has it:

* `HK_SetupTables` returns the status of its last call, which is a positive size when that was an allocation: `HK_Init`
  then ends the app without a word, unless the last new thing of the table was a subscription (a table without
  entries ends it too);
* `hk_task.c:305` compares the length of an *input* with the end of the data in the *output*, in 16 bits, in which
  `MsgLen` and `entry_end` (`382`, `390`) are worked out too: the end of an entry may wrap (`End`; `Extent` is the true
  one), and validation accepts every offset.  A packet with such an entry gets too small a block, the length check
  passes, and the data are copied behind the block: `overrun` (`HKWrappedEnd.cfg`), after which the model goes on only
  with a restart, or as if nothing was hit;
* the copy table stays locked after `ProcessPacket` (`287`), until a request or an unload releases it;
* flags of presence are not cleared by a load: an entry of a new table may count as present before data came.

### `HealthSafety`: monitors and actions

At each tick of 1 Hz (`Tick`) HS applies the loads of its three tables, unless a table is locked, looks at each entry of
the application table (`SkipApp`, `CheckApp`, `ActOnApp`, one entry a step), polls its commands (`Commands`) and takes
the events that came (`TakeEvent`, `MatchEvent`, `NextEvent`, one entry a step).  Between any two steps applications run
(`RunLoop`), end, crash or are restarted by the executive (`Delete`, `Create`), events and loads come.  HS's own errors and actions
come back as events, and an entry of the event table that names HS may restart it (`RestartsHS`, after the pass).  Of an execution
counter the model keeps whether it differs from what HS saw (`moved`); the counter of a task that was created anew may
be any.  `progress`, `silent` and `idle` are history: what applications really did, against which the counts are held.
An application's id is its name.  Commands touch counters only; the utilisation of the processor is left out, as are
`Cooldown`, `MAX_RESTART_ACTIONS`, the watchdog and the execution counter table, which are defined and not implemented.
Kept as the code has it:

* `hs_message_actions.c:49` releases the application table's handle in place of the message table's, which stays locked
  for ever (run `HSTableStuck`); that the application table is unlocked in the middle of its loop does no harm, for
  updates come at ticks only;
* a `CycleCount` of 0 acts only after the count wraps; the count is not reset when the counter moves, so cycles without
  progress need not be consecutive (`ActedOnWithCause` says what is left);
* an absent application only causes an event; one that still initialises, or waits to be restarted, is not restarted;
* a monitor whose table could not be loaded at start is disabled for good, for there is no command to enable it;
* the restart of an application from the event monitor ignores that the name was not found (application 0, a core
  application, refuses);
* HS's own events come back into its event pipe and may match an entry.

### MC and proof modules

`MC<module>` gives the constants of a module their values for TLC; `<module>Proofs` extends the module and holds its
theorems.

## 3. Runs

| Run | Shows | Bounds |
|---|---|---|
| `SCAts` | types; the index belongs to the active table while an ATS executes; reported next command; each command dealt with once; none skipped without a late tick; sent in its second only; `COMPLETE` means all were dealt with; a running ATS ends | 4 tables (a burst with a corrupt command, one stored out of order, an ambiguous pair, one already over), index of 3 + 1, 4 seconds, 5 ground actions: enough for load, start, load again, switch or jump, housekeeping, restart in one behaviour |
| `SCRts` | types; disables hold; order; distance; completion; reported next RTS; a running RTS ends, or the app faults | 2 sequences, 3 tables of commands of length 2 to 4 (a burst with a corrupt command; longer ones with what looks like a header in the middle of a command and an over-long one behind the end; an empty one), 3 directories (all good, one absent, one broken), clock of 8 ticks so that runs straddle the wrap, 3 ground actions: start, load and housekeeping, or a load while it waits and another start |
| `SCRtsBuffers` | violation: a corrupt command keeps its buffer | the same |
| `SCHFrames` | types; slots keep their place after the tone; refinement of `CyclicExecutive` with its fairness; every slot comes again and again, also after tones are ignored for noise | 4 slots, catch-up of 2 per wake-up and 3 in all, 3 stray tones (two unexpected ones make the tone ignored, a third comes after), 2 missing, 2 half frames of overrun, any phase of the tone at start, 1 ground action (sync is enabled again, or the address of the table stays taken) |
| `SCHTables` | periods honoured | 3 slots of 2 entries, tables with two periods in one slot, a group over two slots, a bad remainder; 2 ground actions (load after a change, change after a load, load while the address is taken), 1 stray and 1 missing tone, so that slots are repeated and left out |
| `SCHSyncLost` | violation: a tone in the wrong frame that comes while the task is busy is overwritten at the end of its frame | |
| `CSLQueue` | types; a reset costs at most one command; the model's commands published once; refinement of `CommandQueue`; queued commands are handed over or the app ends | 1 ring of 2 slots and 1 other input, sequence numbers modulo 3, `CmdErrorCounter` of one value (nothing reads it), pipe of 2, 3 commands of any size, 2 CSL commands or restarts, 1 command of the model: full ring, wrapped pointers and two resets in a row |
| `LimitChecker` | types; watchpoints say what the cycle's messages say; one order per arming; armed until ordered; orders only on confirmed alarms; alarms answered | 3 watchpoints on 2 messages, 2 actionpoints, 3 tables of each kind (half a word apart, broken, without an end), differences modulo 8, counts modulo 3, pipe of 1, 3 ground actions, 1 failing call |
| `LCResubscribed` | violation: after a load LC is no longer subscribed to what the new table shares with the old | the same |
| `Housekeeping` | types; no block lost or shared; nothing copied past a packet unless an end wraps; routes and marks agree; loads take effect | 3 entries, 2 inputs, 2 packets, 5 tables (an input in two packets, a packet that outgrows its block in the next table, one no block holds, an entry whose end wraps, an unused entry), ends modulo 16 for 2^16, blocks of 2 and 4 in a pool that runs out, pipe of 2, 2 loads or restarts, 1 failing call |
| `HealthSafety` | types; who hangs is acted on in time, again and again; nobody without cause | 1 application, 2 entries, 3 event entries (one feeds itself, one restarts HS for its own error, one resets all), 2 application tables that exchange entry and limit, event pipe of 1, counts modulo 3, 1 ground action, 1 error; tables missing at start |
| `HSTableStuck` | violation: HS waits while its message table is locked | the same without errors |

Between them the runs of a module take every action of it; `Skip` of `SCHTask` needs the three stray tones of
`SCHFrames`, loads that change something need `SCHTables`.

Ground actions and failing calls are counted (`MaxGround`, `MaxControl`, `MaxFaults`), because nothing else bounds them;
all other state is finite.  Two sequences are enough for `SCRts`: sequences meet only in `ReportHousekeeping`, which compares two at a
time (that this needs times less than half the range apart, the proof for any number showed, see section 4).  Two entries are enough for `HealthSafety`, whose entries share only the position of the loop, and three for
`Housekeeping`, where two share a packet and a third exchanges its input.  Deadlock is not checked where an app may end and
restarts are bounded (CSL, LC, HS).

Fairness, where a run checks liveness:

* SC: weak fairness of `Tick` and of the passing of time: the scheduler sends the tick every 100 ms, SC waits for
  messages with `CFE_SB_PEND_FOREVER` and does nothing that blocks, and time passes.  Nothing is assumed of ground or of
  housekeeping.
* SCH: weak fairness of the task's steps (it blocks on nothing but the semaphore, `CFE_SB_POLL` is used for commands), of
  the timer callback (an interrupt), of time, and of a tone that is expected once no more may be missed;
  `EverySlotAgain` and the fairness of `CyclicExecutive` follow from these.
* CSL: weak fairness of the tick and of the task's steps.
* LC: weak fairness of the tick and of `Drain`, strong fairness of `Finish`: LC reads until the pipe is empty
  (`lc_task.c:65`), without a limit, so a cycle ends only if LC drains faster than telemetry fills, which its priority
  and the rate of telemetry give it and the code does not.
* HK: weak fairness of the task, strong fairness of the request for HK's own packet: the scheduler repeats it, and now
  and then the pipe has room for it.
* HS: weak fairness of the task and of the tick.

The violations are disagreements of the code with what it says; each is quoted in `PROJECT.json` under `findings`.
Three more have a configuration beside the runs, which TLC refutes within a few steps (`tlc -config <name>.cfg MC<module>`):

| Configuration | Statement of the source | What TLC shows |
|---|---|---|
| `SCRtsReplaced.cfg`, of `MCSCRts` | `LastCommandWasSent`: `sc_rts.c:260` "We've just sent the last command" | An RTS is started and waits for its first command; ground loads a table of shorter commands and housekeeping applies it. The engine goes on with the old length (`sc_rts.c:211`, `248`), finds zeros between two commands of the new table, and finishes as complete with commands of it left |
| `CSLQueueSpills.cfg`, of `MCCSLQueue` | `CommandsFit`: `csl_app.c:973` "its size will be <= the max specified in CSCMsg->siz" | Two commands are queued after an earlier one was handed over, so the head is in slot 1; the second, in slot 0, has data of full `siz`, and its header pushes its end over the header of the head, which the model then finds in its input |
| `HKWrappedEnd.cfg`, of `MCHousekeeping` | `LargestEndHeld`: `hk_task.c:385` "Calculate the message size by looking for the largest known ending spot" | With a table whose first entry ends at offset 14 + 3 of 16, the packet gets the block of the other entry; an input passes the check against 1, and is copied at offset 14 |

What the models prove in spite of these is stated with the exception named: `FinishedMeansAll` for a table that is not
replaced as it runs, `FirstInFirstOut` with `Overrun`, `PacketsFit` with `Wraps`.

Others were met while modelling and are part of the models or outside their bounds, but have no configuration:

* `SC_MAX_ATS_CMDS` + 1 commands leave `ATSCmdInfo` without an end (`sc_ats.c:76`); tables of the runs are shorter;
* with continue-on-failure an RTS command for which the software bus has no buffer is copied to address 0
  (`sc_rts.c:214`; the fault of `SCRts`);
* an RTS whose file could not be loaded stays `UNLOADED` after ground has loaded its table (`sc_rts.c:70`);
* the offset and length an RTS keeps over a load may also make it send bytes of the middle of a command, if their
  checksum happens to be right (`sc_rts.c:227`);
* an HK packet shorter than its own header is possible in a block of 8 bytes; the time stamp is then written behind it
  (`hk_task.c:269`; blocks and headers of the runs are not that small);
* a wake-up of the scheduler may leave slots out that `skip_slot_count` does not show;
* the divergences listed under `CSLQueue`, `LimitChecker`, `Housekeeping` and `HealthSafety` above.

## 4. Proofs

Assumptions: that sizes are positive where the code divides or indexes by them, and tables are made of entries
(`AtsAssumption`, `RtsAssumption`, `CslAssumption`, `LcAssumption`, `HkAssumption`, `HsAssumption`).  They hold for every
value the code could be configured with.  `SchAssumption` asks for at least two slots and for a catch-up per wake-up of
at most the slots there are (100 and 5 in `sch_cfg.h`): with more, a wake-up could process a slot twice.  `RtsDelaysFit`
asks that a delay be less than half the range of the clock, or `CFE_TIME_Compare` would take what is to come for past;
a delay is a `uint16` of seconds (`sc_rts.c:187`) and the clock has 32 bits of them, so every table satisfies it.  Only
`DelaysAreKept` and `PaceKept` need it.

`SCAtsProofs`.  `TypeCorrect` is inductive by itself.  `EngineConsistent` proves `TypeOK /\ Consistent`, where
`Consistent` joins `IndexMatchesTable`, `TelemetryOfNext` and `EachCommandOnce`: an executing engine stands at a slot of
an index of the *active* table.  The types alone cannot give it: the sort in `SC_ATS_Prepare` and the stop in
`SC_ReportHousekeeping` are what keeps index and table together, and the position is in range only because the engine
stops at a zero time stamp.  `SendsAreTimely` (an action property) follows with the same case split over the handlers.

`CompletionIsTotal` needs no more than `Consistent` and that a sorted index is an ascending one with its free slots last:
the zero at which `SC_ATS_Update` stops is then behind every command, and all before it were dealt with.
`NothingFallsBehind` needs an invariant about *all* the commands still to come, because a tick may pass several:
`OnSchedule` says each of them lies ahead of the clock, or in this second before its first tick, or was late at the start
already.  A tick keeps it because it handles every command up to now and not only one.  `DoesNotOutlive` proves
`AheadOfClock`, the safe half of `AtsEnds`: after a tick in a later second than that of the start, an ATS still executing
waits for a time to come, so an ATS past its last command is over at the next tick, even if the clock was stepped.

`SCRtsProofs`.  `EveryRtsGood` proves the inductive invariant `IInv`: types, and for each RTS that its info is sound,
a disable is kept, the number of attempted commands is the position, and, unless its table was replaced as it ran, offset
and length are those of the command at that position (`AtCommand`).  They need each other: that the table of an
executing RTS exists follows from `RtsConsistent` and not from the types; that a command is handled at all only while its
RTS executes needs that the RTSs `sending` do; that `Status` returns to `IDLE` with the pending disable applied is what
`DisableHolds` needs.  `NextCommand` is the arithmetic of offsets: behind a command of a table lies its next one, or
nothing that has a header.

`InOrder` and `FinishIsTotal` hold for tables of any lengths and offsets, and say of an RTS whose table was replaced only
that its commands were counted: offset and length then mean nothing, as `SCRtsReplaced.cfg` shows.
`DelaysAreKept` rests on `AllPaced`: the time an RTS waits for is the last command's plus a delay of its table, modulo the
range of the clock, and without clock steps not more than that delay has gone by.  `After` is no order on a clock that
wraps, so what a tick finds due is translated to elapsed time first (`DueWhenElapsed`), and here `RtsDelaysFit`
is needed.  `ReportsEarliest` is an induction over the RTSs the loop has seen (`Earliest`).  It failed at first, and was
right to: with three RTSs, two of them exactly half the range apart, `After` may go round in a circle and the loop report
one that is not earliest; TLC's instance has two RTSs and could not meet it.  `AroundNow`, the hypothesis of the property,
now leaves that distance out.

`SCHTaskProofs`.  `ScheduleSound` proves `TypeOK /\ TablesSound`.  The types are not inductive: that `period - 1` is a
number, and so that the remainder has its type, follows only from the remainder being below the period, which is what
validation, the commands and the task have to keep up together; that images which wait are valid is part of it.
`TablesSound` also ties the remainder to the passes counted in the history, from which `PeriodsHonoured` (the action
property `PeriodKept`) follows.  `FramesAligned` proves `FramesSound`: unless an unexpected tone came, the slot due is
that of `MinorFrame`, `next_frame` is one further and one slot is processed; a tone heard while the task waits is in
`MinorFrame` and then in `next_frame`.  `TonesTaken` (`SyncTakesEffect`) and `ImplementsCycle` rest on it; the latter is
the safety part of `CyclicOrder`: initial states map to initial states, and each step to a step of `CyclicExecutive` or
to a stutter, for every number of slots and every limit of catch-up.  `PhaseHolds` rests on `Phased`, which says for
each place the task, the timer's callback and the wait may be at how long ago the tone was and how long the timer has
left (`Begun`, `Awaited`, `Expired`, `Working`).  `PhaseKept` speaks only of the moment a slot is processed; the timer is
set one slot earlier, and the longer frame before slot 0 (`ExtendTimer`) is made up for by the tone, or by the shorter
frame after a missing one, only if the wait between them is described exactly.

`CSLQueueProofs`.  `LossInv` strengthens `ResetCostsOne`: the commands lost *and the one about to be lost* (`Owed`: the
number the model read last is the one the next command is given) together stay below the resets; a simulator that has not
started has lost none.  `PublishInv` does the same with the difference of `outSeq` and `sndSeq`.  Both hold for every
modulus above 1.  `RingInv` says that tail is head plus count, wrapped; with it `RingsAreQueues` proves the whole of
`FirstInFirstOut`: hand-over is the tail of the abstract queue, an enqueued command its new last element, a clear a drop.  A command that
spills reaches a waiting one only if that is the head and the ring is then full: any other slot behind the tail is free
(`EnqueueAppends`).

`LimitCheckerProofs`.  `Settled` joins `OneShot` and `ArmedUntilOrdered` with `OrderInv`, that an actionpoint which has
ordered is no longer armed.  `Known` (the lookup is that of the table, and the table's values are near) makes
`WatchpointsRight` inductive.  `CountInv` (the count never exceeds the true streak of alarms, also when it wraps) and the
hypothesis `EquationsMean`, that the equations mean what their author says, give `AlarmsConfirmed`; the hypothesis is
needed because what a stack machine computes is found by recursion over its equation, and TLC checks it for the tables of
the runs (`TablesMean`).

`HousekeepingProofs`.  `HkInv` adds to the types that entries with one input agree on being subscribed and the routes are
those marked (`InputsOK`), that entries point to one block exactly if they share a packet and a block is free exactly if
nobody points to it (`PacketsOK`), and what the loops have done so far (`LoopOK`, `CompleteOK`): a table may be replaced
only because the loop before has cleared *every* entry.  `PoolSound` and `RoutesSound` follow.  `PacketsHold` needs that a
block holds the *wrapped* ends of all entries that point to it (`BehindWraps`): an entry reaches behind its block only if
its end wraps.

`HealthSafetyProofs`.  `HsInv` holds each count between what really happened: the checks in a row for which the
application surely did nothing, and all those for which it may have done nothing, with the count below the limit unless
HS is about to act; equality is enough for the code's comparison only because no count is ever beyond.  `InTime` and
`WithCause` are the two sides of it.

Proved and not run, because a theorem says more: `RtsConsistent` (`InfoConsistent`), `NoStartWhenBanned`
(`BannedStaysDown`), `RemainderBelowPeriod` (`RemaindersBounded`), `SyncTakesEffect` (`TonesTaken`),
`NeverWronglyMissing` (`NoneWronglyMissing`).

Every property of a passing run that is not liveness is proved.  Only model-checked: liveness (`AtsEnds`, `RtsEnds`,
`EverySlotAgain`, the fairness of `CyclicOrder`, `QueuesDrain`, `AlarmAnswered`, `LoadTakesEffect`, `HungIsAnswered`),
which is out of the prover's reach, as is what the function `Solve` computes for every equation.

## 5. Plan and what is not modelled

Done: `SCAts`, `SCRts`, `SCHTask` with `CyclicExecutive`, `CSLQueue` with `CommandQueue`, `LimitChecker`,
`Housekeeping`, `HealthSafety`, each with its runs and proofs.  Left:

1. proofs of the safe halves of the other liveness properties, as `DoesNotOutlive` is for `AtsEnds`;
2. LC composed with `SCRts` through the pipe of SC, with its depth of 12.

SC's pipe has no module.  A command that a sequence sends to SC itself comes by the same pipe as one of ground and is
handled after the handler that sent it, so `SCAts` and `SCRts` take it as one of ground; what a full pipe loses is a
command as if not sent or a tick that comes late, which both have.

Not modelled, and why: DS (a stub), CI and the simulators (copy bytes between a device and the bus), fsw_lib (a CRC),
the vendored cFE and OSAL (external definitions of what the apps use), models and scripts of `wsim` and `calculon`
(numerics; the CSPICE and MICE libraries among them are third-party code), dictionaries (data), `boxy` (operator tools).
They are by far the larger part of the repository's lines; the flight applications with logic of their own are the
modelled ones.
