--------------------------- MODULE SCHTaskProofs ---------------------------
(***************************************************************************)
(* Theorems about the scheduler app, for every number of slots and entries,*)
(* every limit of catch-up and every schedule table.                       *)
(***************************************************************************)
EXTENDS SCHTask, TLAPS

(* What the assumption says of the sizes.                                  *)
LEMMA Sizes ==
  /\ TotalSlots \in Nat /\ TotalSlots >= 2
  /\ EntriesPerSlot \in Nat /\ EntriesPerSlot >= 1
  /\ MaxSlotsPerWakeup \in Nat /\ 1 <= MaxSlotsPerWakeup /\ MaxSlotsPerWakeup <= TotalSlots
  /\ MaxLagCount \in Nat /\ MaxLagCount >= 1
  /\ MaxNoisyMF \in Nat /\ MaxNoisyMF >= 1
  /\ StartupPeriod \in Nat \ {0}
  /\ MajorFrame \in Nat /\ MajorFrame >= 4
BY SchAssumption DEF MajorFrame

(* An entry that was never below its period may not be in use.             *)
Sound(entry) == entry.enable_state # "UNUSED" => entry.remainder \in 0..(entry.period - 1)

(* The history counts the passes the remainder has left.                   *)
InStep(entry, passes) ==
  passes >= 0 => /\ entry.enable_state # "UNUSED"
                 /\ entry.remainder + passes = entry.period - 1

(* The schedule is made of sound entries, in step with their history, and  *)
(* the image that waits is one that passed validation.                     *)
TablesSound ==
  /\ \A p \in Positions : Sound(schedule[p]) /\ InStep(schedule[p], hist.passes[p])
  /\ \A image \in pending : Valid(image)

-----------------------------------------------------------------------------
(* A slot number is one taken modulo SCH_TOTAL_SLOTS.                      *)
LEMMA ModRange ==
  ASSUME NEW a \in Int
  PROVE  a % TotalSlots \in Slots
BY Sizes DEF Slots

(* A pass keeps an entry sound: neither subtraction leaves the range.      *)
LEMMA PassTyped ==
  ASSUME NEW entry \in Entry, Sound(entry)
  PROVE  Pass(entry) \in Entry /\ Sound(Pass(entry))
<1>1. CASE entry.enable_state # "ENABLED"
  BY <1>1 DEF Pass
<1>2. CASE entry.enable_state = "ENABLED"
  <2> DEFINE r == IF entry.remainder = 0 THEN entry.period - 1 ELSE entry.remainder - 1
  <2>1. entry.remainder \in 0..(entry.period - 1) /\ entry.period \in Nat
    BY <1>2 DEF Sound, Entry
  <2>2. r \in 0..(entry.period - 1) /\ r \in Nat
    BY <2>1
  <2>3. Pass(entry) = [entry EXCEPT !.remainder = r]
    BY <1>2 DEF Pass
  <2>4. Pass(entry) \in Entry /\ Pass(entry).remainder = r /\ Pass(entry).period = entry.period
    BY <2>2, <2>3 DEF Entry
  <2> QED BY <2>2, <2>4 DEF Sound
<1> QED BY <1>1, <1>2

(* A pass takes the entry one step on, or, if it is due, to the start.     *)
LEMMA PassInStep ==
  ASSUME NEW entry \in Entry, Sound(entry), NEW passes \in Nat \union {-1},
         InStep(entry, passes)
  PROVE  /\ InStep(Pass(entry), IF Due(entry) THEN 0
                                ELSE IF entry.enable_state = "ENABLED" /\ passes >= 0
                                     THEN passes + 1 ELSE passes)
         /\ entry.enable_state = "ENABLED" /\ passes >= 0 =>
              (Due(entry) <=> passes = entry.period - 1)
<1>1. CASE entry.enable_state # "ENABLED"
  BY <1>1 DEF Pass, Due
<1>2. CASE entry.enable_state = "ENABLED"
  <2>1. entry.remainder \in 0..(entry.period - 1) /\ entry.period \in Nat
    BY <1>2 DEF Sound, Entry
  <2>2. passes >= 0 => entry.remainder + passes = entry.period - 1
    BY DEF InStep
  <2>3. CASE entry.remainder = 0
    <3>1. /\ Pass(entry).remainder = entry.period - 1 /\ Pass(entry).period = entry.period
          /\ Pass(entry).enable_state = "ENABLED"
      BY <1>2, <2>3 DEF Pass, Entry
    <3>2. Due(entry)
      BY <1>2, <2>3 DEF Due
    <3>3. InStep(Pass(entry), 0)
      BY <3>1, <2>1 DEF InStep
    <3>4. passes >= 0 => passes = entry.period - 1
      BY <2>1, <2>2, <2>3
    <3> QED BY <3>2, <3>3, <3>4
  <2>4. CASE entry.remainder # 0
    <3>1. /\ Pass(entry).remainder = entry.remainder - 1 /\ Pass(entry).period = entry.period
          /\ Pass(entry).enable_state = "ENABLED"
      BY <1>2, <2>4 DEF Pass, Entry
    <3>2. ~Due(entry)
      BY <2>4 DEF Due
    <3>3. passes >= 0 => InStep(Pass(entry), passes + 1)
      BY <3>1, <2>1, <2>2 DEF InStep
    <3>4. passes >= 0 => passes # entry.period - 1
      BY <2>1, <2>2, <2>4
    <3>5. ~(passes >= 0) => InStep(Pass(entry), passes)
      BY DEF InStep
    <3> QED BY <1>2, <3>2, <3>3, <3>4, <3>5
  <2> QED BY <2>3, <2>4
<1> QED BY <1>1, <1>2

(* Ground changes the state of an entry, between enabled and disabled.     *)
LEMMA SetStateSound ==
  ASSUME NEW entry \in Entry, Sound(entry), NEW passes \in Nat \union {-1},
         InStep(entry, passes),
         NEW state \in {"ENABLED", "DISABLED"}, entry.enable_state = Opposite(state)
  PROVE  LET e == [entry EXCEPT !.enable_state = state]
         IN  e \in Entry /\ Sound(e) /\ InStep(e, passes)
BY DEF Entry, Sound, InStep, Opposite

-----------------------------------------------------------------------------
(* SCH_Init leaves everything within its type.                             *)
LEMMA InitTyped == Init => TypeOK
<1> SUFFICES ASSUME Init  PROVE TypeOK
  OBVIOUS
<1>1. Zero \in [Positions -> Entry]
  BY SchAssumption DEF Zero, Entry
<1>2. schedule \in [Positions -> Entry] /\ loaded \in BOOLEAN
  BY <1>1, SchAssumption DEF Init
<1>3. NoHistory \in History
  BY DEF NoHistory, History
<1>4. hist \in History
  BY <1>3 DEF Init, History
<1>5. {MinorFrame, CurrentSlot, LastSlot, next_frame} \subseteq Slots
  BY Sizes DEF Init, Slots
<1>6. /\ CatchUpCount \in 0..MaxLagCount /\ NoisyMajorFrameCount \in 0..(MaxNoisyMF - 1)
      /\ slots_to_process \in 0..MaxSlotsPerWakeup /\ timer \in Nat \ {0}
      /\ age \in 0..(MajorFrame - 1)
  BY Sizes DEF Init
<1>7. /\ IgnoreMajorFrame \in BOOLEAN /\ semaphore \in BOOLEAN /\ locked \in BOOLEAN
      /\ toned \in BOOLEAN /\ pc = "wait" /\ handler = "none" /\ pending = {}
  BY DEF Init
<1> QED BY <1>2, <1>4, <1>5, <1>6, <1>7 DEF TypeOK

(* Each step keeps the types, given that the entries are sound.            *)
LEMMA TypeStep == TypeOK /\ TablesSound /\ [Next]_vars => TypeOK'
<1> SUFFICES ASSUME TypeOK, TablesSound, [Next]_vars  PROVE TypeOK'
  OBVIOUS
<1> USE DEF task, slots, sync, timing, tables, world
<1>1. CASE Tone
  <2>1. hist' \in History
    BY <1>1 DEF Tone, TypeOK, History
  <2>2. 0 \in Slots /\ 0 \in 0..(MajorFrame - 1)
    BY Sizes DEF Slots
  <2>3. NoisyMajorFrameCount' \in 0..(MaxNoisyMF - 1) /\ IgnoreMajorFrame' \in BOOLEAN
    <3> DEFINE many == NoisyMajorFrameCount + 1 >= MaxNoisyMF
    <3>1. CASE MinorFrame = 0
      BY <1>1, <3>1, Sizes DEF Tone, TypeOK
    <3>2. CASE MinorFrame # 0
      <4>1. IgnoreMajorFrame' = many
        BY <1>1, <3>2 DEF Tone
      <4>2. NoisyMajorFrameCount' = IF many THEN 0 ELSE NoisyMajorFrameCount + 1
        BY <1>1, <3>2, <4>1 DEF Tone
      <4>3. NoisyMajorFrameCount' \in 0..(MaxNoisyMF - 1)
        BY <4>2, Sizes DEF TypeOK
      <4>4. many \in BOOLEAN
        OBVIOUS
      <4> QED BY <4>1, <4>3, <4>4
    <3> QED BY <3>1, <3>2
  <2> QED BY <1>1, <2>1, <2>2, <2>3 DEF Tone, TypeOK, TimerSet
<1>2. CASE CheckTone
  BY <1>2 DEF CheckTone, TypeOK
<1>3. CASE GiveSemaphore
  BY <1>3 DEF GiveSemaphore, TypeOK, TimerSet
<1>4. CASE Advance
  <2>1. hist' \in History
    BY <1>4 DEF Advance, TypeOK, History
  <2>2. age' \in 0..(MajorFrame - 1)
    BY <1>4, Sizes DEF Advance, TypeOK
  <2>3. timer' \in Nat \ {0}
    BY <1>4 DEF Advance, TypeOK
  <2>4. handler' \in {"none", "called"}
    BY <1>4 DEF Advance
  <2> QED BY <1>4, <2>1, <2>2, <2>3, <2>4 DEF Advance, TypeOK
<1>5. CASE Wake
  <2>1. hist' \in History
    BY <1>5 DEF Wake, TypeOK, History
  <2>2. next_frame' \in Slots
    BY <1>5, ModRange DEF Wake, TypeOK, Slots
  <2> QED BY <1>5, <2>1, <2>2 DEF Wake, TypeOK
<1>6. CASE ExtendTimer
  BY <1>6 DEF ExtendTimer, TypeOK, TimerSet
<1>7. CASE CommandsDone
  BY <1>7 DEF CommandsDone, TypeOK
<1>8. CASE Compare
  <2> DEFINE count == Lesser(Behind, Allowed)
  <2>1. Behind \in Slots
    <3>1. TotalSlots + next_frame - CurrentSlot \in Int
      BY Sizes DEF TypeOK, Slots
    <3> QED BY <3>1, ModRange DEF Behind
  <2>2. CASE CurrentSlot = MinorFrame \/ CatchUpCount >= MaxLagCount
    BY <1>8, <2>2, Sizes DEF Compare, TypeOK
  <2>3. CASE CurrentSlot # MinorFrame /\ CatchUpCount < MaxLagCount
    <3>1. CatchUpCount \in Nat /\ MaxLagCount - CatchUpCount \in Nat
      BY <2>3, Sizes DEF TypeOK
    <3>2. /\ Allowed \in Nat /\ Allowed <= MaxLagCount - CatchUpCount
          /\ Allowed <= MaxSlotsPerWakeup
      BY <3>1, Sizes DEF Allowed, Lesser
    <3>3. count \in Nat /\ count <= Allowed
      BY <2>1, <3>2, Sizes DEF Lesser, Slots
    <3>4. count \in 0..MaxSlotsPerWakeup /\ CatchUpCount + count \in 0..MaxLagCount
      BY <3>1, <3>2, <3>3, Sizes
    <3>5. slots_to_process' \in 0..MaxSlotsPerWakeup /\ CatchUpCount' \in 0..MaxLagCount
      BY <1>8, <2>3, <3>4, <3>1, Sizes DEF Compare
    <3>6. pc' = "process"
      BY <1>8, <2>3, <3>1, Sizes DEF Compare
    <3>7. LastSlot' = CurrentSlot
      BY <1>8 DEF Compare
    <3>8. UNCHANGED <<MinorFrame, CurrentSlot, sync, next_frame, timing, tables, world,
                      ground, hist>>
      BY <1>8 DEF Compare
    <3> HIDE DEF count
    <3> QED BY <3>5, <3>6, <3>7, <3>8 DEF TypeOK
  <2>4. CatchUpCount \in Int /\ MaxLagCount \in Int
    BY Sizes DEF TypeOK
  <2> QED BY <2>2, <2>3, <2>4
<1>9. CASE Skip
  BY <1>9 DEF Skip, TypeOK
<1>10. CASE ProcessSlots
  <2> DEFINE performed == {p \in Positions : p[1] \in Batch /\ Due(schedule[p])}
  <2>1. schedule' \in [Positions -> Entry]
    BY <1>10, PassTyped DEF ProcessSlots, TypeOK, TablesSound
  <2>2. Batch \subseteq Slots
    BY ModRange DEF Batch, TypeOK, Slots
  <2>3. hist'.passes \in [Positions -> Nat \union {-1}]
    BY <1>10 DEF ProcessSlots, TypeOK, History
  <2>4. hist' \in History
    BY <1>10, <2>2, <2>3 DEF ProcessSlots, TypeOK, History
  <2>5. LastSlot' \in Slots
    BY <1>10, ModRange DEF ProcessSlots, TypeOK, Slots
  <2>6. {MinorFrame', CurrentSlot', next_frame'} \subseteq Slots
    BY <1>10 DEF ProcessSlots, TypeOK
  <2> QED BY <1>10, <2>1, <2>4, <2>5, <2>6 DEF ProcessSlots, TypeOK
<1>11. ASSUME NEW p \in (0..TotalSlots) \X (0..EntriesPerSlot),
              NEW state \in {"ENABLED", "DISABLED"}, SetEntryStateCmd(p, state)
       PROVE  TypeOK'
  <2>1. schedule' \in [Positions -> Entry]
    BY <1>11 DEF SetEntryStateCmd, TypeOK, Entry
  <2>2. locked' \in BOOLEAN
    BY <1>11 DEF SetEntryStateCmd
  <2> QED BY <1>11, <2>1, <2>2 DEF SetEntryStateCmd, Command, TypeOK
<1>12. ASSUME NEW group \in Groups, NEW state \in {"ENABLED", "DISABLED"},
              SetGroupStateCmd(group, state)
       PROVE  TypeOK'
  <2>1. \A p \in Positions : [schedule[p] EXCEPT !.enable_state = state] \in Entry
    BY DEF TypeOK, Entry
  <2>2. schedule' \in [Positions -> Entry]
    BY <1>12, <2>1 DEF SetGroupStateCmd, TypeOK
  <2> QED BY <1>12, <2>2 DEF SetGroupStateCmd, Command, TypeOK
<1>13. CASE EnableSyncCmd
  BY <1>13 DEF EnableSyncCmd, Command, TypeOK
<1>14. ASSUME NEW messages \in BOOLEAN, SendDiagCmd(messages)
       PROVE  TypeOK'
  <2>1. locked' \in BOOLEAN
    BY <1>14 DEF SendDiagCmd
  <2> QED BY <1>14, <2>1 DEF SendDiagCmd, Command, TypeOK
<1>15. CASE ReportHousekeeping
  <2>1. hist' \in History
    <3>1. NoHistory.passes \in [Positions -> Nat \union {-1}]
      BY DEF NoHistory
    <3>2. hist \in History
      BY DEF TypeOK
    <3>3. [hist EXCEPT !.passes = NoHistory.passes, !.performed = {}] \in History
      BY <3>1, <3>2 DEF History
    <3> QED BY <1>15, <3>2, <3>3 DEF ReportHousekeeping
  <2>2. schedule' \in [Positions -> Entry] /\ pending' \subseteq ScheduleTables
    BY <1>15, SchAssumption DEF ReportHousekeeping, TypeOK
  <2> QED BY <1>15, <2>1, <2>2 DEF ReportHousekeeping, TypeOK
<1>16. ASSUME NEW image \in ScheduleTables, LoadTable(image)
       PROVE  TypeOK'
  BY <1>16 DEF LoadTable, TypeOK
<1>17. CASE UNCHANGED vars
  BY <1>17 DEF vars, TypeOK
<1> QED BY <1>1, <1>2, <1>3, <1>4, <1>5, <1>6, <1>7, <1>8, <1>9, <1>10, <1>11, <1>12,
           <1>13, <1>14, <1>15, <1>16, <1>17 DEF Next

-----------------------------------------------------------------------------
(* A step that leaves the schedule alone keeps it sound.                   *)
LEMMA TablesKept ==
  ASSUME TablesSound, UNCHANGED <<schedule, pending>>, hist'.passes = hist.passes
  PROVE  TablesSound'
BY DEF TablesSound

(* The first schedule is a valid file or zero.                             *)
LEMMA TablesInit == Init => TablesSound
<1> SUFFICES ASSUME Init, NEW p \in Positions
             PROVE  Sound(schedule[p]) /\ InStep(schedule[p], hist.passes[p])
  BY DEF Init, TablesSound
<1>1. hist.passes[p] = -1
  BY DEF Init, NoHistory
<1>2. CASE schedule = Zero
  BY <1>1, <1>2 DEF Zero, Sound, InStep
<1>3. CASE schedule \in ScheduleTables /\ Valid(schedule)
  <2>1. schedule[p] \in Entry
    BY <1>3, SchAssumption
  <2> QED BY <1>1, <1>3, <2>1 DEF Valid, Entry, Sound, InStep
<1> QED BY <1>2, <1>3 DEF Init

(* What ProcessSlots does to an entry, and to the count of its passes.     *)
LEMMA SlotsProcessed ==
  ASSUME TypeOK, TablesSound, ProcessSlots, NEW p \in Positions
  PROVE  /\ Sound(schedule'[p]) /\ InStep(schedule'[p], hist'.passes[p])
         /\ p[1] \in Batch /\ schedule[p].enable_state = "ENABLED" /\ hist.passes[p] >= 0 =>
              (p \in hist'.performed <=> hist.passes[p] = schedule[p].period - 1)
<1> DEFINE performed == {q \in Positions : q[1] \in Batch /\ Due(schedule[q])}
           passed == {q \in Positions : q[1] \in Batch /\ schedule[q].enable_state = "ENABLED"}
<1>1. /\ schedule[p] \in Entry /\ Sound(schedule[p])
      /\ InStep(schedule[p], hist.passes[p]) /\ hist.passes[p] \in Nat \union {-1}
  BY DEF TypeOK, TablesSound, History
<1>2. hist'.performed = performed
  BY DEF ProcessSlots, TypeOK, History
<1>3. hist'.passes[p] = IF p \in performed THEN 0
                        ELSE IF p \in passed /\ hist.passes[p] >= 0 THEN hist.passes[p] + 1
                        ELSE hist.passes[p]
  BY DEF ProcessSlots, TypeOK, History
<1>4. schedule'[p] = IF p[1] \in Batch THEN Pass(schedule[p]) ELSE schedule[p]
  BY DEF ProcessSlots
<1>5. CASE p[1] \in Batch
  <2>1. hist'.passes[p] = IF Due(schedule[p]) THEN 0
                          ELSE IF schedule[p].enable_state = "ENABLED" /\ hist.passes[p] >= 0
                          THEN hist.passes[p] + 1 ELSE hist.passes[p]
    BY <1>3, <1>5
  <2>2. schedule'[p] = Pass(schedule[p])
    BY <1>4, <1>5
  <2>3. Sound(schedule'[p])
    BY <1>1, <2>2, PassTyped
  <2>4. InStep(schedule'[p], hist'.passes[p])
    BY <1>1, <2>1, <2>2, PassInStep
  <2>5. p \in hist'.performed <=> Due(schedule[p])
    BY <1>2, <1>5
  <2>6. schedule[p].enable_state = "ENABLED" /\ hist.passes[p] >= 0 =>
          (Due(schedule[p]) <=> hist.passes[p] = schedule[p].period - 1)
    BY <1>1, PassInStep
  <2> QED BY <2>3, <2>4, <2>5, <2>6
<1>6. CASE p[1] \notin Batch
  BY <1>1, <1>3, <1>4, <1>6
<1> QED BY <1>5, <1>6

(* Each step keeps the schedule sound and in step with its history.        *)
LEMMA TablesStep == TypeOK /\ TablesSound /\ [Next]_vars => TablesSound'
<1> SUFFICES ASSUME TypeOK, TablesSound, [Next]_vars  PROVE TablesSound'
  OBVIOUS
<1> USE DEF task, slots, sync, timing, tables, world
<1>1. CASE Tone \/ Advance \/ Wake
  <2>1. hist'.passes = hist.passes
    BY <1>1 DEF Tone, Advance, Wake, TypeOK, History
  <2>2. UNCHANGED <<schedule, pending>>
    BY <1>1 DEF Tone, Advance, Wake
  <2> QED BY <2>1, <2>2, TablesKept
<1>2. CASE CheckTone \/ GiveSemaphore \/ ExtendTimer \/ CommandsDone \/ Compare \/ Skip
  <2>1. UNCHANGED <<schedule, pending, hist>>
    BY <1>2 DEF CheckTone, GiveSemaphore, ExtendTimer, CommandsDone, Compare, Skip
  <2> QED BY <2>1, TablesKept
<1>3. CASE ProcessSlots
  <2>1. UNCHANGED pending
    BY <1>3 DEF ProcessSlots
  <2>2. \A p \in Positions : Sound(schedule'[p]) /\ InStep(schedule'[p], hist'.passes[p])
    BY <1>3, SlotsProcessed
  <2> QED BY <2>1, <2>2 DEF TablesSound
<1>4. ASSUME NEW q, NEW state \in {"ENABLED", "DISABLED"}, SetEntryStateCmd(q, state)
      PROVE  TablesSound'
  <2>1. UNCHANGED <<pending, hist>>
    BY <1>4 DEF SetEntryStateCmd, Command
  <2>2. \A p \in Positions : \/ schedule'[p] = schedule[p]
                              \/ /\ schedule[p].enable_state = Opposite(state)
                                 /\ schedule'[p] = [schedule[p] EXCEPT !.enable_state = state]
    BY <1>4 DEF SetEntryStateCmd, TypeOK
  <2>3. \A p \in Positions : Sound(schedule'[p]) /\ InStep(schedule'[p], hist.passes[p])
    <3> SUFFICES ASSUME NEW p \in Positions
                 PROVE  Sound(schedule'[p]) /\ InStep(schedule'[p], hist.passes[p])
      OBVIOUS
    <3>1. /\ schedule[p] \in Entry /\ Sound(schedule[p])
          /\ hist.passes[p] \in Nat \union {-1} /\ InStep(schedule[p], hist.passes[p])
      BY DEF TypeOK, TablesSound, History
    <3>2. CASE schedule'[p] = schedule[p]
      BY <3>1, <3>2
    <3>3. CASE /\ schedule[p].enable_state = Opposite(state)
               /\ schedule'[p] = [schedule[p] EXCEPT !.enable_state = state]
      BY <3>1, <3>3, SetStateSound
    <3> QED BY <2>2, <3>2, <3>3
  <2> QED BY <2>1, <2>3 DEF TablesSound
<1>5. ASSUME NEW group, NEW state \in {"ENABLED", "DISABLED"}, SetGroupStateCmd(group, state)
      PROVE  TablesSound'
  <2>1. UNCHANGED <<pending, hist>>
    BY <1>5 DEF SetGroupStateCmd, Command
  <2>2. \A p \in Positions : \/ schedule'[p] = schedule[p]
                              \/ /\ schedule[p].enable_state = Opposite(state)
                                 /\ schedule'[p] = [schedule[p] EXCEPT !.enable_state = state]
    BY <1>5 DEF SetGroupStateCmd, TypeOK
  <2>3. \A p \in Positions : Sound(schedule'[p]) /\ InStep(schedule'[p], hist.passes[p])
    <3> SUFFICES ASSUME NEW p \in Positions
                 PROVE  Sound(schedule'[p]) /\ InStep(schedule'[p], hist.passes[p])
      OBVIOUS
    <3>1. /\ schedule[p] \in Entry /\ Sound(schedule[p])
          /\ hist.passes[p] \in Nat \union {-1} /\ InStep(schedule[p], hist.passes[p])
      BY DEF TypeOK, TablesSound, History
    <3>2. CASE schedule'[p] = schedule[p]
      BY <3>1, <3>2
    <3>3. CASE /\ schedule[p].enable_state = Opposite(state)
               /\ schedule'[p] = [schedule[p] EXCEPT !.enable_state = state]
      BY <3>1, <3>3, SetStateSound
    <3> QED BY <2>2, <3>2, <3>3
  <2> QED BY <2>1, <2>3 DEF TablesSound
<1>6. CASE EnableSyncCmd \/ \E messages \in BOOLEAN : SendDiagCmd(messages)
  <2>1. UNCHANGED <<schedule, pending, hist>>
    BY <1>6 DEF EnableSyncCmd, SendDiagCmd, Command
  <2> QED BY <2>1, TablesKept
<1>7. CASE ReportHousekeeping
  <2>1. CASE UNCHANGED <<schedule, pending, hist>>
    BY <2>1, TablesKept
  <2>2. ASSUME NEW image \in pending, schedule' = image, pending' = {},
               hist' = [hist EXCEPT !.passes = NoHistory.passes, !.performed = {}]
        PROVE  TablesSound'
    <3>1. \A p \in Positions : hist'.passes[p] = -1
      BY <2>2 DEF NoHistory, TypeOK, History
    <3>2. image \in [Positions -> Entry] /\ Valid(image)
      BY <2>2, SchAssumption DEF TypeOK, TablesSound
    <3>3. \A p \in Positions : Sound(image[p])
      BY <3>2 DEF Valid, Sound, Entry
    <3> QED BY <2>2, <3>1, <3>3 DEF TablesSound, InStep
  <2> QED BY <1>7, <2>1, <2>2 DEF ReportHousekeeping
<1>8. ASSUME NEW image \in ScheduleTables, LoadTable(image)
      PROVE  TablesSound'
  BY <1>8 DEF LoadTable, TablesSound
<1>9. CASE UNCHANGED vars
  BY <1>9, TablesKept DEF vars
<1> QED BY <1>1, <1>2, <1>3, <1>4, <1>5, <1>6, <1>7, <1>8, <1>9 DEF Next

(* Nothing else ends a frame.                                              *)
LEMMA OnlyProcessSlots ==
  ASSUME [Next]_vars, Processing  PROVE ProcessSlots
BY DEF Processing, Next, vars, task, slots, sync, timing, tables, world, Tone, CheckTone,
   GiveSemaphore, Advance, Wake, ExtendTimer, CommandsDone, Compare, Skip,
   SetEntryStateCmd, SetGroupStateCmd, EnableSyncCmd, SendDiagCmd, Command,
   ReportHousekeeping, LoadTable, At

(* The inductive invariant: the types, and what the schedule is.  The      *)
(* types alone are not inductive, because period - 1 is a number only for  *)
(* entries whose remainder is below the period.                            *)
THEOREM ScheduleSound == Spec => [](TypeOK /\ TablesSound)
BY InitTyped, TablesInit, TypeStep, TablesStep, PTL DEF Spec

(* Every variable of SCH_AppData keeps to its type: MinorFrame and         *)
(* CurrentSlot never index beyond the table, CatchUpCount never exceeds    *)
(* SCH_MAX_LAG_COUNT.                                                      *)
THEOREM SchTypeCorrect == Spec => []TypeOK
BY ScheduleSound, PTL

(* The remainder of an entry in use is below its period, whatever ground   *)
(* loads, enables or disables.                                             *)
THEOREM RemaindersBounded == Spec => []RemainderBelowPeriod
<1>1. TablesSound => RemainderBelowPeriod
  BY DEF TablesSound, RemainderBelowPeriod, Sound
<1> QED BY <1>1, ScheduleSound, PTL

(* SCH_TaskMain performs an enabled activity on every period-th pass of    *)
(* its slot, and on no other.                                              *)
THEOREM PeriodsHonoured == Spec => PeriodKept
<1> DEFINE A == Processing =>
       \A p \in Positions :
         p[1] \in Batch /\ schedule[p].enable_state = "ENABLED" /\ hist.passes[p] >= 0 =>
           (p \in hist'.performed <=> hist.passes[p] = schedule[p].period - 1)
<1>1. TypeOK /\ TablesSound /\ [Next]_vars => [A]_vars
  <2> SUFFICES ASSUME TypeOK, TablesSound, [Next]_vars, Processing  PROVE A
    OBVIOUS
  <2>1. ProcessSlots
    BY OnlyProcessSlots
  <2> QED BY <2>1, SlotsProcessed
<1>2. Spec => [][A]_vars
  BY <1>1, ScheduleSound, PTL DEF Spec
<1> QED BY <1>2 DEF PeriodKept

-----------------------------------------------------------------------------
(* A tone the task heard while it waited is in MinorFrame, then in the     *)
(* frame the task has computed from it.                                    *)
HeardSound ==
  hist.heard => IF pc = "wait" THEN MinorFrame = 0 ELSE next_frame = 1

(* Without an unexpected tone the slot due is that of the minor frame, the *)
(* task is never behind, and never skips.                                  *)
Aligned ==
  ~hist.unexpected => /\ CurrentSlot = MinorFrame
                      /\ pc # "wait" => next_frame = (MinorFrame + 1) % TotalSlots
                      /\ pc = "process" => slots_to_process = 1
                      /\ pc # "skip"

FramesSound == HeardSound /\ Aligned

(* After frame 0 comes frame 1.                                            *)
LEMMA FrameOne == 1 % TotalSlots = 1 /\ 0 + 1 = 1
BY Sizes

(* Each step of the task and of the callbacks keeps the frames sound.      *)
LEMMA FramesStep == TypeOK /\ FramesSound /\ [Next]_vars => FramesSound'
<1> SUFFICES ASSUME TypeOK, FramesSound, [Next]_vars  PROVE FramesSound'
  OBVIOUS
<1> USE DEF task, slots, sync, timing, tables, world, FramesSound, HeardSound, Aligned
<1>1. CASE Tone
  <2>1. /\ hist'.heard = (hist.heard \/ pc = "wait")
        /\ hist'.unexpected = (hist.unexpected \/ MinorFrame # 0)
    BY <1>1 DEF Tone, TypeOK, History
  <2>2. MinorFrame' = 0 /\ UNCHANGED <<CurrentSlot, task>>
    BY <1>1 DEF Tone
  <2> QED BY <2>1, <2>2
<1>2. CASE Wake
  <2>1. hist'.heard = hist.heard /\ hist'.unexpected = hist.unexpected
    BY <1>2 DEF Wake, TypeOK, History
  <2>2. /\ pc = "wait" /\ pc' \in {"extend", "compare"}
        /\ next_frame' = (MinorFrame + 1) % TotalSlots
        /\ UNCHANGED <<MinorFrame, CurrentSlot>>
    BY <1>2 DEF Wake, At
  <2> QED BY <2>1, <2>2, FrameOne
<1>3. CASE Compare
  <2>1. /\ pc = "compare" /\ pc' \in {"process", "skip"}
        /\ CurrentSlot = MinorFrame => pc' = "process" /\ slots_to_process' = 1
        /\ UNCHANGED <<MinorFrame, CurrentSlot, next_frame, hist>>
    BY <1>3 DEF Compare, At
  <2> QED BY <2>1
<1>4. CASE ProcessSlots
  <2>1. hist'.heard = FALSE /\ hist'.unexpected = FALSE
    BY <1>4 DEF ProcessSlots, TypeOK, History
  <2>2. pc' = "wait" /\ MinorFrame' = next_frame /\ CurrentSlot' = next_frame
    BY <1>4 DEF ProcessSlots
  <2> QED BY <2>1, <2>2
<1>5. CASE Skip
  BY <1>5 DEF Skip, At
<1>6. CASE ExtendTimer \/ CommandsDone
  BY <1>6 DEF ExtendTimer, CommandsDone, At
<1>7. CASE UNCHANGED <<MinorFrame, CurrentSlot, task, hist>>
  BY <1>7
<1>9. CASE Advance \/ ReportHousekeeping
  <2>1. hist'.heard = hist.heard /\ hist'.unexpected = hist.unexpected
    BY <1>9 DEF Advance, ReportHousekeeping, TypeOK, History
  <2>2. UNCHANGED <<MinorFrame, CurrentSlot, task>>
    BY <1>9 DEF Advance, ReportHousekeeping
  <2> QED BY <2>1, <2>2
<1>10. CASE CheckTone \/ GiveSemaphore \/ EnableSyncCmd \/ UNCHANGED vars
  BY <1>10, <1>7 DEF CheckTone, GiveSemaphore, EnableSyncCmd, Command, vars
<1>11. CASE \E state \in {"ENABLED", "DISABLED"} :
              \/ \E p \in (0..TotalSlots) \X (0..EntriesPerSlot) : SetEntryStateCmd(p, state)
              \/ \E group \in Groups : SetGroupStateCmd(group, state)
  BY <1>11, <1>7 DEF SetEntryStateCmd, SetGroupStateCmd, Command
<1>12. CASE \/ \E messages \in BOOLEAN : SendDiagCmd(messages)
            \/ \E image \in ScheduleTables : LoadTable(image)
  BY <1>12, <1>7 DEF SendDiagCmd, LoadTable, Command
<1> QED BY <1>1, <1>2, <1>3, <1>4, <1>5, <1>6, <1>9, <1>10, <1>11, <1>12 DEF Next

(* The inductive invariant of the frames: a tone that was heard is not     *)
(* lost, and only an unexpected one puts task and minor frame apart.       *)
THEOREM FramesAligned == Spec => [](TypeOK /\ FramesSound)
<1>1. Init => FramesSound
  BY DEF Init, NoHistory, FramesSound, HeardSound, Aligned
<1> QED BY <1>1, FramesStep, SchTypeCorrect, PTL DEF Spec

(* SCH_1Hz_Callback while the task waits: the major frame begins with the  *)
(* next wake-up, whatever happens between the two.                         *)
THEOREM TonesTaken == Spec => SyncTakesEffect
<1> DEFINE A == Processing /\ hist.heard => CurrentSlot' = 1
<1>1. TypeOK /\ FramesSound /\ [Next]_vars => [A]_vars
  <2> SUFFICES ASSUME FramesSound, [Next]_vars, Processing, hist.heard  PROVE CurrentSlot' = 1
    OBVIOUS
  <2>1. ProcessSlots
    BY OnlyProcessSlots
  <2> QED BY <2>1 DEF ProcessSlots, Processing, FramesSound, HeardSound
<1>2. Spec => [][A]_vars
  BY <1>1, FramesAligned, PTL DEF Spec
<1> QED BY <1>2 DEF SyncTakesEffect

-----------------------------------------------------------------------------
(* A step of the scheduler is one of the cyclic executive or a stutter.    *)
LEMMA CycleStep ==
  ASSUME TypeOK, FramesSound, [Next]_vars
  PROVE  [Cycle!Next]_<<CurrentSlot, hist.batch, hist.unexpected>>
<1> DEFINE same == UNCHANGED <<CurrentSlot, hist.batch, hist.unexpected>>
<1> USE DEF task, slots, sync, timing, tables, world
<1>1. CASE Tone
  <2>1. /\ hist'.batch = hist.batch
        /\ hist'.unexpected = (hist.unexpected \/ MinorFrame # 0)
    BY <1>1 DEF Tone, TypeOK, History
  <2>2. UNCHANGED CurrentSlot
    BY <1>1 DEF Tone
  <2>3. CASE MinorFrame # 0
    BY <2>1, <2>2, <2>3 DEF Cycle!Call, Cycle!Next
  <2>4. CASE MinorFrame = 0
    <3>1. hist.unexpected \in BOOLEAN
      BY DEF TypeOK, History
    <3> QED BY <2>1, <2>2, <2>4, <3>1
  <2> QED BY <2>3, <2>4
<1>2. CASE Skip
  <2>1. hist.unexpected = TRUE
    BY <1>2 DEF Skip, At, FramesSound, Aligned, TypeOK, History
  <2>2. CurrentSlot' \in Slots /\ UNCHANGED hist
    BY <1>2 DEF Skip, TypeOK
  <2> QED BY <2>1, <2>2 DEF Cycle!LeaveOut, Cycle!Next, Cycle!Slots, Slots
<1>3. CASE ProcessSlots
  <2> DEFINE n == slots_to_process
  <2>1. hist'.unexpected = FALSE /\ hist'.batch = Batch
    BY <1>3 DEF ProcessSlots, TypeOK, History
  <2>2. CurrentSlot' = next_frame /\ pc = "process" /\ next_frame \in Slots
        /\ n \in 0..MaxSlotsPerWakeup
    BY <1>3 DEF ProcessSlots, TypeOK, At
  <2>3. CASE hist.unexpected
    BY <2>1, <2>2, <2>3 DEF Cycle!Process, Cycle!Next, Cycle!Slots, Slots, Batch
  <2>4. CASE ~hist.unexpected
    <3>1. n = 1 /\ next_frame = (CurrentSlot + n) % TotalSlots
      BY <2>2, <2>4 DEF FramesSound, Aligned
    <3> QED BY <2>1, <2>2, <3>1 DEF Cycle!Process, Cycle!Next, Batch
  <2> QED BY <2>3, <2>4
<1>4. CASE Advance \/ ReportHousekeeping \/ Wake
  <2>1. hist'.batch = hist.batch /\ hist'.unexpected = hist.unexpected
    BY <1>4 DEF Advance, ReportHousekeeping, Wake, TypeOK, History
  <2>2. UNCHANGED CurrentSlot
    BY <1>4 DEF Advance, ReportHousekeeping, Wake
  <2> QED BY <2>1, <2>2
<1>5. CASE UNCHANGED <<CurrentSlot, hist>>
  BY <1>5
<1>6. CASE CheckTone \/ GiveSemaphore \/ ExtendTimer \/ CommandsDone \/ Compare
           \/ EnableSyncCmd \/ UNCHANGED vars
  BY <1>6, <1>5 DEF CheckTone, GiveSemaphore, ExtendTimer, CommandsDone, Compare,
                    EnableSyncCmd, Command, vars
<1>7. CASE \E state \in {"ENABLED", "DISABLED"} :
              \/ \E p \in (0..TotalSlots) \X (0..EntriesPerSlot) : SetEntryStateCmd(p, state)
              \/ \E group \in Groups : SetGroupStateCmd(group, state)
  BY <1>7, <1>5 DEF SetEntryStateCmd, SetGroupStateCmd, Command
<1>8. CASE \/ \E messages \in BOOLEAN : SendDiagCmd(messages)
           \/ \E image \in ScheduleTables : LoadTable(image)
  BY <1>8, <1>5 DEF SendDiagCmd, LoadTable, Command
<1> QED BY <1>1, <1>2, <1>3, <1>4, <1>6, <1>7, <1>8 DEF Next

(* The safety part of CyclicOrder: the scheduler starts as the cyclic      *)
(* executive does, and each of its steps is one of it or leaves it alone:  *)
(* slots are left out or repeated only once per unexpected tone.           *)
THEOREM ImplementsCycle ==
  Spec => Cycle!Init /\ [][Cycle!Next]_<<CurrentSlot, hist.batch, hist.unexpected>>
<1>1. Init => Cycle!Init
  BY DEF Init, Cycle!Init, NoHistory
<1>2. TypeOK /\ FramesSound /\ [Next]_vars
        => [Cycle!Next]_<<CurrentSlot, hist.batch, hist.unexpected>>
  BY CycleStep
<1> QED BY <1>1, <1>2, FramesAligned, PTL DEF Spec

-----------------------------------------------------------------------------
(***************************************************************************)
(* The phase of the minor frames against the tone.  A slot begins on the   *)
(* timer: slot s of the major frame 2 * s half frames after the tone, slot *)
(* 0 on the tone, or a half frame later if the tone is missing.            *)
(***************************************************************************)
Begun(m) == \/ age = 2 * m /\ timer = 2
            \/ m = 0 /\ age = 1 /\ timer = 1

(* The task waits for slot m, whose time has not come.                     *)
Awaited(m) ==
  IF m = 0 THEN (age = 0 /\ timer = 1) \/ age + timer = MajorFrame + 1
  ELSE age + timer = 2 * m

(* The timer has expired for slot m, and its callback runs.                *)
Expired(m) ==
  /\ ~semaphore /\ timer = 2
  /\ IF m = 0 THEN age = 1 /\ handler # "checked"
              ELSE age = 2 * m /\ handler # "missing"

(* The task works on slot m.  For slot 0 to come, it gives the tone time.  *)
Working(m) ==
  /\ handler = "none" /\ ~semaphore
  /\ next_frame = (m + 1) % TotalSlots
  /\ pc # "skip"
  /\ pc = "process" => slots_to_process = 1
  /\ pc = "extend" => next_frame = 0
  /\ IF next_frame = 0 /\ pc # "extend" THEN timer = 3 /\ age = 2 * m ELSE Begun(m)

Phased ==
  hist.inPhase =>
    /\ ~IgnoreMajorFrame
    /\ CurrentSlot = MinorFrame
    /\ pc # "wait" => Working(MinorFrame)
    /\ pc = "wait" /\ handler # "none" => Expired(MinorFrame)
    /\ pc = "wait" /\ handler = "none" =>
         IF semaphore THEN Begun(MinorFrame) ELSE Awaited(MinorFrame)

(* After the last of n numbers comes the first.                            *)
LEMMA Successor ==
  ASSUME NEW n \in Nat, n >= 2, NEW m \in 0..(n - 1)
  PROVE  (m + 1) % n = IF m + 1 = n THEN 0 ELSE m + 1
<1> DEFINE q == (m + 1) \div n
           r == (m + 1) % n
<1>1. /\ m \in Int /\ 0 <= m /\ m < n /\ n \in Int
      /\ q \in Int /\ r \in Int /\ 0 <= r /\ r < n /\ m + 1 = n * q + r
  OBVIOUS
<1> HIDE DEF q, r
<1>2. q = 0 \/ q = 1
  <2>1. ASSUME q >= 2  PROVE FALSE
    <3>1. n * q >= n * 2
      BY <1>1, <2>1
    <3> QED BY <1>1, <3>1
  <2>2. ASSUME q <= -1  PROVE FALSE
    <3>1. n * q <= n * (-1)
      BY <1>1, <2>2
    <3> QED BY <1>1, <3>1
  <2> QED BY <1>1, <2>1, <2>2
<1>3. r = m + 1 \/ r = m + 1 - n
  BY <1>1, <1>2
<1> QED BY <1>1, <1>3 DEF r

(* Half a frame passes while the task waits: a slot comes closer, or its   *)
(* time is there.                                                          *)
LEMMA AdvancePhased ==
  ASSUME TypeOK, Phased, Advance  PROVE Phased'
<1> SUFFICES ASSUME hist'.inPhase  PROVE Phased'
  BY DEF Phased
<1>1. hist.inPhase /\ pc = "wait" /\ ~semaphore /\ handler = "none"
  BY DEF Advance, KeptUp, TypeOK, History
<1>2. /\ UNCHANGED <<MinorFrame, CurrentSlot, IgnoreMajorFrame, pc, semaphore>>
      /\ age' = (age + 1) % MajorFrame
      /\ IF timer = 1 THEN timer' = 2 /\ handler' = "called"
                      ELSE timer' = timer - 1 /\ UNCHANGED handler
  BY DEF Advance, slots, sync, task
<1>3. /\ MinorFrame \in Int /\ 0 <= MinorFrame /\ 2 * MinorFrame <= MajorFrame - 2
      /\ age \in Int /\ 0 <= age /\ age < MajorFrame
      /\ timer \in Int /\ timer >= 1 /\ MajorFrame \in Int /\ MajorFrame >= 4
  BY Sizes DEF TypeOK, Slots, MajorFrame
<1>4. age' = IF age + 1 = MajorFrame THEN 0 ELSE age + 1
  <2>1. MajorFrame \in Nat /\ MajorFrame >= 2 /\ age \in 0..(MajorFrame - 1)
    BY Sizes DEF TypeOK
  <2> QED BY <1>2, <2>1, Successor
<1>5. Awaited(MinorFrame) /\ ~IgnoreMajorFrame /\ CurrentSlot = MinorFrame
  BY <1>1 DEF Phased
<1>6. CASE timer = 1
  <2>1. Expired(MinorFrame)'
    BY <1>1, <1>2, <1>3, <1>4, <1>5, <1>6 DEF Awaited, Expired
  <2> QED BY <1>1, <1>2, <1>5, <1>6, <2>1 DEF Phased
<1>7. CASE timer # 1
  <2>1. Awaited(MinorFrame)'
    BY <1>2, <1>3, <1>4, <1>5, <1>7 DEF Awaited
  <2> QED BY <1>1, <1>2, <1>5, <1>7, <2>1 DEF Phased
<1> QED BY <1>6, <1>7

(* The task takes up a slot that has begun.                                *)
LEMMA WakePhased ==
  ASSUME TypeOK, Phased, Wake  PROVE Phased'
<1> SUFFICES ASSUME hist'.inPhase  PROVE Phased'
  BY DEF Phased
<1>1. hist.inPhase /\ pc = "wait" /\ semaphore /\ handler = "none"
  BY DEF Wake, At, TypeOK, History
<1>2. /\ UNCHANGED <<MinorFrame, CurrentSlot, IgnoreMajorFrame, handler, age, timer>>
      /\ ~semaphore' /\ next_frame' = (MinorFrame + 1) % TotalSlots
      /\ pc' = IF next_frame' = 0 THEN "extend" ELSE "compare"
  BY DEF Wake, slots, sync, world
<1>3. Begun(MinorFrame) /\ ~IgnoreMajorFrame /\ CurrentSlot = MinorFrame
  BY <1>1 DEF Phased
<1>4. Working(MinorFrame)'
  BY <1>1, <1>2, <1>3 DEF Begun, Working
<1> QED BY <1>1, <1>2, <1>3, <1>4 DEF Phased

(* It leaves it with the timer set for the next.                           *)
LEMMA ProcessPhased ==
  ASSUME TypeOK, Phased, ProcessSlots  PROVE Phased'
<1> SUFFICES ASSUME hist'.inPhase  PROVE Phased'
  BY DEF Phased
<1>1. hist.inPhase /\ pc = "process"
  BY DEF ProcessSlots, At, TypeOK, History
<1>2. /\ UNCHANGED <<IgnoreMajorFrame, handler, semaphore, age, timer>>
      /\ MinorFrame' = next_frame /\ CurrentSlot' = next_frame /\ pc' = "wait"
  BY DEF ProcessSlots, sync, timing, world
<1>3. Working(MinorFrame) /\ ~IgnoreMajorFrame
  BY <1>1 DEF Phased
<1>4. /\ MinorFrame \in Slots /\ MinorFrame \in Int /\ 0 <= MinorFrame
      /\ TotalSlots \in Int /\ TotalSlots >= 2 /\ MajorFrame = 2 * TotalSlots
  BY Sizes DEF TypeOK, Slots, MajorFrame
<1>5. next_frame = IF MinorFrame + 1 = TotalSlots THEN 0 ELSE MinorFrame + 1
  BY <1>3, <1>4, Sizes, Successor DEF Working, Slots
<1>6. Awaited(next_frame)
  BY <1>1, <1>3, <1>4, <1>5 DEF Working, Begun, Awaited
<1>7. Awaited(MinorFrame)'
  BY <1>2, <1>6 DEF Awaited
<1> QED BY <1>2, <1>3, <1>7 DEF Phased, Working

(* A step that does not touch what the phase is about.                     *)
LEMMA SamePhased ==
  ASSUME Phased, hist'.inPhase => hist.inPhase,
         UNCHANGED <<MinorFrame, CurrentSlot, task, timing, age>>,
         IgnoreMajorFrame' \in {IgnoreMajorFrame, FALSE}
  PROVE  Phased'
  BY DEF Phased, Working, Expired, Begun, Awaited, task, timing

LEMMA PhasedStep == TypeOK /\ Phased /\ [Next]_vars => Phased'
<1> SUFFICES ASSUME TypeOK, Phased, [Next]_vars  PROVE Phased'
  OBVIOUS
<1> USE DEF slots, sync, world
<1>1. CASE Tone
  <2>1. hist'.inPhase => /\ pc = "wait" /\ handler = "none"
                         /\ MinorFrame = 0 /\ CurrentSlot = 0
    BY <1>1 DEF Tone, TypeOK, History
  <2>2. /\ ~IgnoreMajorFrame /\ MinorFrame' = 0 /\ semaphore' = TRUE
        /\ timer' = 2 /\ age' = 0 /\ UNCHANGED <<CurrentSlot, pc, handler>>
        /\ MinorFrame = 0 => UNCHANGED IgnoreMajorFrame
    BY <1>1 DEF Tone, TimerSet, task
  <2> QED BY <2>1, <2>2 DEF Phased, Begun
<1>2. CASE CheckTone
  <2>1. hist.inPhase => pc = "wait" /\ Expired(MinorFrame) /\ ~IgnoreMajorFrame
    BY <1>2 DEF CheckTone, Phased, Working
  <2>2. /\ handler' = IF MinorFrame = 0 /\ ~IgnoreMajorFrame THEN "missing" ELSE "checked"
        /\ UNCHANGED <<MinorFrame, CurrentSlot, IgnoreMajorFrame, pc, semaphore, timer, age, hist>>
    BY <1>2 DEF CheckTone, task
  <2> QED BY <2>1, <2>2 DEF Phased, Expired
<1>3. CASE GiveSemaphore
  <2>1. handler # "none" /\ (hist.inPhase => pc = "wait" /\ Expired(MinorFrame))
    BY <1>3 DEF GiveSemaphore, Phased, Working
  <2>2. /\ handler \in {"missing", "checked"} /\ handler' = "none" /\ semaphore' = TRUE
        /\ timer' = IF handler = "missing" THEN 1 ELSE timer
        /\ UNCHANGED <<MinorFrame, CurrentSlot, IgnoreMajorFrame, pc, age, hist>>
    BY <1>3 DEF GiveSemaphore, TimerSet, task
  <2> QED BY <2>1, <2>2 DEF Phased, Expired, Begun
<1>4. CASE Advance
  BY <1>4, AdvancePhased
<1>5. CASE Wake
  BY <1>5, WakePhased
<1>6. CASE ExtendTimer
  <2>1. /\ pc = "extend" /\ pc' = "commands"
        /\ timer' = IF IgnoreMajorFrame THEN timer ELSE 3
        /\ UNCHANGED <<MinorFrame, CurrentSlot, IgnoreMajorFrame, next_frame,
                       slots_to_process, semaphore, handler, age, hist>>
    BY <1>6 DEF ExtendTimer, TimerSet, At
  <2>2. MinorFrame = 0 => (MinorFrame + 1) % TotalSlots # 0
    BY Sizes, FrameOne
  <2> QED BY <2>1, <2>2 DEF Phased, Working, Begun
<1>7. CASE CommandsDone
  <2>1. /\ pc = "commands" /\ pc' = "compare"
        /\ UNCHANGED <<MinorFrame, CurrentSlot, IgnoreMajorFrame, next_frame,
                       slots_to_process, timer, semaphore, handler, age, hist>>
    BY <1>7 DEF CommandsDone, At, timing
  <2> QED BY <2>1 DEF Phased, Working, Begun
<1>8. CASE Compare
  <2>1. /\ pc = "compare" /\ pc' \in {"process", "skip"}
        /\ CurrentSlot = MinorFrame => pc' = "process" /\ slots_to_process' = 1
        /\ UNCHANGED <<MinorFrame, CurrentSlot, IgnoreMajorFrame, next_frame,
                       timer, semaphore, handler, age, hist>>
    BY <1>8 DEF Compare, At, timing
  <2> QED BY <2>1 DEF Phased, Working, Begun
<1>9. CASE Skip
  <2>1. ~hist.inPhase /\ UNCHANGED hist
    BY <1>9 DEF Skip, At, Phased, Working
  <2> QED BY <2>1 DEF Phased
<1>10. CASE ProcessSlots
  BY <1>10, ProcessPhased
<1>11. ASSUME NEW p, NEW state, SetEntryStateCmd(p, state)  PROVE Phased'
  BY <1>11, SamePhased DEF SetEntryStateCmd, Command
<1>12. ASSUME NEW group, NEW state, SetGroupStateCmd(group, state)  PROVE Phased'
  BY <1>12, SamePhased DEF SetGroupStateCmd, Command
<1>13. CASE EnableSyncCmd
  BY <1>13, SamePhased DEF EnableSyncCmd, Command
<1>14. ASSUME NEW messages, SendDiagCmd(messages)  PROVE Phased'
  BY <1>14, SamePhased DEF SendDiagCmd, Command
<1>15. CASE ReportHousekeeping
  <2>1. hist'.inPhase = hist.inPhase
    BY <1>15 DEF ReportHousekeeping, TypeOK, History
  <2> QED BY <1>15, <2>1, SamePhased DEF ReportHousekeeping
<1>16. ASSUME NEW image, LoadTable(image)  PROVE Phased'
  BY <1>16, SamePhased DEF LoadTable
<1>17. CASE UNCHANGED vars
  BY <1>17, SamePhased DEF vars
<1> QED BY <1>1, <1>2, <1>3, <1>4, <1>5, <1>6, <1>7, <1>8, <1>9, <1>10, <1>11, <1>12,
           <1>13, <1>14, <1>15, <1>16, <1>17 DEF Next

(* The inductive invariant of the phase: at each place of the task, of the *)
(* timer's callback and of the wait, how long ago the tone was and when    *)
(* the timer expires.                                                      *)
THEOREM AlwaysPhased == Spec => []Phased
<1>1. Init => Phased
  BY DEF Init, NoHistory, Phased
<1> QED BY <1>1, PhasedStep, SchTypeCorrect, PTL DEF Spec

(* A scheduler that keeps up processes slot s exactly s minor frames after *)
(* a valid tone, in every major frame, for any number of slots: the        *)
(* extension of the timer before slot 0 and the shorter frame after a      *)
(* missing tone make up for each other.                                    *)
THEOREM PhaseHolds == Spec => PhaseKept
<1> DEFINE A == Processing /\ hist.inPhase =>
      /\ slots_to_process = 1
      /\ age = 2 * CurrentSlot \/ (CurrentSlot = 0 /\ age = 1)
<1>1. TypeOK /\ Phased /\ [Next]_vars => [A]_vars
  <2> SUFFICES ASSUME Phased, Processing, hist.inPhase  PROVE A
    OBVIOUS
  <2>1. Working(MinorFrame) /\ CurrentSlot = MinorFrame /\ pc = "process"
    BY DEF Phased, Processing
  <2> QED BY <2>1 DEF Working, Begun
<1>2. Spec => [][A]_vars
  BY <1>1, AlwaysPhased, SchTypeCorrect, PTL DEF Spec
<1> QED BY <1>2 DEF PhaseKept
=============================================================================
