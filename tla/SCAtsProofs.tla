---------------------------- MODULE SCAtsProofs ----------------------------
(***************************************************************************)
(* Theorems about the ATS engine, for every set of tables, every size of   *)
(* the index and every horizon.                                            *)
(***************************************************************************)
EXTENDS SCAts, TLAPS

(* SC_ATS_Prepare fills the slots of an index with commands of the table   *)
(* and nothing else.                                                       *)
LEMMA IndexesTyped ==
  ASSUME NEW table \in AtsTables, NEW index \in Indexes(table)
  PROVE  index \in Index
<1> DEFINE n == CmdCount(table)
<1>1. table \in Seq(Entry) /\ Len(table) \in Nat /\ MaxCmds \in Nat
  BY AtsAssumption
<1>2. n \in 0..Len(table) /\ n \in Nat
  BY <1>1 DEF CmdCount
<1>3. PICK p \in [1..n -> 1..n] :
        index = [i \in Slots |-> IF i < n THEN table[p[i + 1]] ELSE Empty]
  BY DEF Indexes
<1>4. ASSUME NEW i \in Slots  PROVE index[i] \in Entry \union {Empty}
  <2>1. CASE i < n
    <3>1. p[i + 1] \in 1..Len(table)
      BY <1>2, <2>1, <1>1 DEF Slots
    <3>2. table[p[i + 1]] \in Entry
      BY <1>1, <3>1
    <3> QED BY <1>3, <2>1, <3>2
  <2>2. CASE ~(i < n)
    BY <1>3, <2>2
  <2> QED BY <2>1, <2>2
<1> QED BY <1>3, <1>4 DEF Index

(* The time and id of a slot are numbers, and a slot with a time is one of *)
(* the array.                                                              *)
LEMMA StampTyped ==
  ASSUME NEW index \in Index, NEW i \in Int
  PROVE  /\ Stamp(index, i) \in Nat
         /\ Id(index, i) \in Nat
         /\ Stamp(index, i) # 0 => i \in Slots
  BY DEF Stamp, Id, Index, Entry, Empty

(* A history that begins now is a history.                                 *)
LEMMA FreshTyped ==
  ASSUME TypeOK, NEW i \in 0..(MaxCmds + 1)
  PROVE  Fresh(i) \in History
  BY DEF TypeOK, Fresh, History

(* What Begin, PointAt and the history updates leave behind has its type.  *)
LEMMA BeginTyped ==
  ASSUME TypeOK, NEW n \in 1..2, Begin(n)
  PROVE  /\ AtsState' = "EXECUTING" /\ AtsNumber' = n
         /\ ATSCmdInfo' \in Indexes(active[n]) /\ active[n] # NoTable
         /\ ATSCmdInfo' \in Index
         /\ NextATSCmdIndex' \in Slots
         /\ NextAtsTime' = Stamp(ATSCmdInfo', NextATSCmdIndex')
         /\ NextAtsTime' # 0
         /\ AtsCmdNumber' = Id(ATSCmdInfo', NextATSCmdIndex')
         /\ hist' = Fresh(NextATSCmdIndex') /\ hist' \in History
         /\ NextATSCmdIndex' \in 0..(MaxCmds + 1)
         /\ NextAtsTime' \in Nat /\ AtsCmdNumber' \in Nat
<1>1. active[n] \in AtsTables
  BY DEF TypeOK, Begin
<1>2. PICK index \in Indexes(active[n]), i \in Slots :
        /\ Stamp(index, i) # 0
        /\ ATSCmdInfo' = index
        /\ PointAt(index, i)
        /\ hist' = Fresh(i)
  BY DEF Begin
<1>3. index \in Index
  BY <1>1, IndexesTyped
<1> i \in Int /\ i \in 0..(MaxCmds + 1)
  BY AtsAssumption DEF Slots
<1>4. Stamp(index, i) \in Nat /\ Id(index, i) \in Nat
  BY ONLY <1>3, StampTyped, i \in Int
<1>5. Fresh(i) \in History
  BY FreshTyped
<1>6. /\ NextATSCmdIndex' = i /\ NextAtsTime' = Stamp(index, i)
      /\ AtsCmdNumber' = Id(index, i)
  BY <1>2 DEF PointAt
<1>7. AtsState' = "EXECUTING" /\ AtsNumber' = n /\ active[n] # NoTable
  BY DEF Begin
<1> QED BY <1>2, <1>3, <1>4, <1>5, <1>6, <1>7

LEMMA CannotBeginTyped ==
  ASSUME TypeOK, NEW n \in 1..2, CannotBegin(n)
  PROVE  ATSCmdInfo' \in Index
<1>1. CASE active[n] = NoTable
  BY <1>1 DEF CannotBegin, TypeOK
<1>2. CASE active[n] # NoTable
  <2>1. active[n] \in AtsTables
    BY <1>2 DEF TypeOK
  <2> QED BY <1>2, <2>1, IndexesTyped DEF CannotBegin
<1> QED BY <1>1, <1>2

(* The steps of the engine within a tick, one lemma each.                  *)
LEMMA OverrunTyped ==
  ASSUME TypeOK, NEW i \in NextATSCmdIndex..(MaxCmds + 1), OverrunTheEnd(i)
  PROVE  /\ AtsState' = "IDLE" /\ AtsNumber' = 0 /\ AtsCmdNumber' = 0
         /\ NextAtsTime' = 0
         /\ NextATSCmdIndex' = NextATSCmdIndex /\ ATSCmdInfo' = ATSCmdInfo
         /\ hist' \in History
<1>1. NextATSCmdIndex..(i - 1) \subseteq Slots
  BY AtsAssumption DEF TypeOK, Slots
<1> QED BY <1>1 DEF OverrunTheEnd, Stop, TypeOK, History

LEMMA PassedTyped ==
  ASSUME TypeOK, NEW i \in NextATSCmdIndex..(MaxCmds + 1),
         NEW sent, sent \subseteq Slots, NEW failed, failed \subseteq Slots,
         Passed(i, sent, failed)
  PROVE  hist' \in History
<1>1. NextATSCmdIndex..(i - 1) \subseteq Slots
  BY AtsAssumption DEF TypeOK, Slots
<1> QED BY <1>1 DEF Passed, TypeOK, History

LEMMA ProceedTyped ==
  ASSUME TypeOK, NEW e \in 0..(MaxCmds + 1), Proceed(e)
  PROVE  /\ NextATSCmdIndex' = e
         /\ NextAtsTime' \in Nat /\ AtsCmdNumber' \in Nat
         /\ AtsState' \in {"IDLE", "EXECUTING"} /\ AtsNumber' \in 0..2
<1>1. Stamp(ATSCmdInfo, e) \in Nat /\ Id(ATSCmdInfo, e) \in Nat
  BY StampTyped, AtsAssumption DEF TypeOK
<1> QED BY <1>1 DEF Proceed, PointAt, Stop, TypeOK

LEMMA SendDueTyped ==
  ASSUME TypeOK, NEW i \in NextATSCmdIndex..(MaxCmds + 1), SendDue(i)
  PROVE  /\ NextATSCmdIndex' \in 0..(MaxCmds + 1)
         /\ ATSCmdInfo' = ATSCmdInfo
         /\ NextAtsTime' \in Nat /\ AtsCmdNumber' \in Nat
         /\ AtsState' \in {"IDLE", "EXECUTING"} /\ AtsNumber' \in 0..2
         /\ hist' \in History
<1>1. PICK e \in i..(MaxCmds + 1) :
        \E failed \in SUBSET (i..(e - 1)) :
          SendAll(i, e, failed) \/ SendUntilFailure(i, e, failed)
  <2>1. PICK e \in i..(MaxCmds + 1) :
          \E noBuffer \in SUBSET (i..(e - 1)) :
            LET failed == noBuffer \union {k \in i..(e - 1) : ~ATSCmdInfo[k].valid}
            IN  SendAll(i, e, failed) \/ SendUntilFailure(i, e, failed)
    BY DEF SendDue
  <2> QED BY <2>1
<1> PICK failed \in SUBSET (i..(e - 1)) :
      SendAll(i, e, failed) \/ SendUntilFailure(i, e, failed)
  BY <1>1
<1>2. /\ i \in 0..(MaxCmds + 1) /\ e \in 0..(MaxCmds + 1)
      /\ i..(e - 1) \subseteq Slots
  BY AtsAssumption DEF TypeOK, Slots
<1>3. CASE SendAll(i, e, failed)
  <2>1. hist' \in History
    BY <1>2, <1>3, PassedTyped DEF SendAll
  <2> QED BY <1>2, <1>3, <2>1, ProceedTyped DEF SendAll
<1>4. CASE SendUntilFailure(i, e, failed)
  <2>1. PICK f \in failed : Passed(i, i..(f - 1), {f}) /\ NextATSCmdIndex' = f
    BY <1>4 DEF SendUntilFailure
  <2>2. f \in Slots /\ i..(f - 1) \subseteq Slots /\ f \in 0..(MaxCmds + 1)
    BY <1>2, AtsAssumption DEF Slots
  <2>3. hist' \in History
    BY <2>1, <2>2, PassedTyped
  <2> QED BY <1>4, <2>1, <2>2, <2>3 DEF SendUntilFailure, Stop
<1> QED BY <1>3, <1>4

(* The position of the engine after a tick that does not leave it alone.   *)
LEMMA TickTyped ==
  ASSUME TypeOK, Tick, engine' # engine
  PROVE  /\ NextATSCmdIndex' \in 0..(MaxCmds + 1)
         /\ ATSCmdInfo' = ATSCmdInfo
         /\ NextAtsTime' \in Nat /\ AtsCmdNumber' \in Nat
         /\ AtsState' \in {"IDLE", "EXECUTING"} /\ AtsNumber' \in 0..2
         /\ hist' \in History
<1>1. PICK i \in NextATSCmdIndex..(MaxCmds + 1) : OverrunTheEnd(i) \/ SendDue(i)
  BY DEF Tick
<1>2. CASE OverrunTheEnd(i)
  BY <1>2, OverrunTyped DEF TypeOK
<1>3. CASE SendDue(i)
  BY <1>3, SendDueTyped
<1> QED BY <1>1, <1>2, <1>3

(* The flags need no more than themselves.                                 *)
LEMMA FlagsTyped ==
  ASSUME FlagsOK, [Next]_vars  PROVE FlagsOK'
<1> USE DEF clock, tables, engine, FlagsOK, Ack, Nak, Stop
<1>1. ASSUME NEW n \in 0..3, StartATSCmd(n)  PROVE FlagsOK'
  BY <1>1 DEF StartATSCmd
<1>2. CASE StopATSCmd
  BY <1>2 DEF StopATSCmd
<1>3. CASE SwitchATSCmd
  BY <1>3 DEF SwitchATSCmd
<1>4. ASSUME NEW t \in 1..(MaxTime + 1), JumpATSCmd(t)  PROVE FlagsOK'
  BY <1>4 DEF JumpATSCmd
<1>5. ASSUME NEW flag \in 0..2, ContATSOnFailCmd(flag)  PROVE FlagsOK'
  BY <1>5 DEF ContATSOnFailCmd
<1>6. ASSUME NEW n \in 1..2, NEW image \in AtsTables, LoadTable(n, image)  PROVE FlagsOK'
  BY <1>6 DEF LoadTable
<1>7. CASE ReportHousekeeping
  BY <1>7 DEF ReportHousekeeping, ManageTables
<1>8. CASE Tick
  <2>1. stopReason' \in {stopReason, "COMPLETE", "ERROR"}
    BY <1>8 DEF Tick, OverrunTheEnd, SendDue, SendAll, SendUntilFailure, Proceed
  <2> QED BY <1>8, <2>1 DEF Tick
<1>9. CASE Second
  BY <1>9 DEF Second
<1>10. ASSUME NEW t \in 1..MaxTime, StepClock(t)  PROVE FlagsOK'
  BY <1>10 DEF StepClock
<1>11. CASE Restart
  BY <1>11 DEF Restart
<1>12. CASE UNCHANGED vars
  BY <1>12 DEF vars
<1> QED BY <1>1, <1>2, <1>3, <1>4, <1>5, <1>6, <1>7, <1>8, <1>9, <1>10, <1>11, <1>12
        DEF Next

(* Type correctness: whatever ground does, and whatever fails, every       *)
(* variable of the engine keeps to its type; in particular NextATSCmdIndex *)
(* stays within one slot of the array.                                     *)
THEOREM TypeCorrect == Spec => []TypeOK
<1>1. Init => TypeOK
  <2> SUFFICES ASSUME Init  PROVE TypeOK
    OBVIOUS
  <2>1. ATSCmdInfo \in Index /\ NextATSCmdIndex \in 0..(MaxCmds + 1)
    BY AtsAssumption DEF Init, Index
  <2>2. hist \in History
    BY AtsAssumption DEF Init, Fresh, History
  <2>3. FlagsOK
    BY DEF Init, FlagsOK
  <2> QED BY <2>1, <2>2, <2>3, AtsAssumption DEF Init, TypeOK
<1>2. TypeOK /\ [Next]_vars => TypeOK'
  <2> SUFFICES ASSUME TypeOK, [Next]_vars  PROVE TypeOK'
    OBVIOUS
  <2> USE DEF clock, tables
  <2>0. FlagsOK' /\ (Ground => ground' \in 0..MaxGround)
    BY FlagsTyped, AtsAssumption DEF TypeOK, Ground
  <2>1. ASSUME NEW n \in 0..3, StartATSCmd(n)  PROVE TypeOK'
    <3>1. CASE UNCHANGED engine
      BY <2>0, <2>1, <3>1 DEF StartATSCmd, engine, TypeOK
    <3>2. CASE n \in 1..2 /\ Begin(n)
      BY <2>0, <2>1, <3>2, BeginTyped DEF StartATSCmd, TypeOK
    <3>3. CASE /\ n \in 1..2 /\ CannotBegin(n)
               /\ UNCHANGED <<AtsState, AtsNumber, AtsCmdNumber, NextAtsTime,
                             NextATSCmdIndex, stopReason, hist>>
      BY <2>0, <2>1, <3>3, CannotBeginTyped DEF StartATSCmd, TypeOK
    <3> QED BY <2>1, <3>1, <3>2, <3>3 DEF StartATSCmd
  <2>2. CASE StopATSCmd
    BY <2>0, <2>2 DEF StopATSCmd, Stop, engine, TypeOK
  <2>3. CASE SwitchATSCmd
    <3> DEFINE other == IF AtsNumber = 2 THEN 1 ELSE 2
    <3>1. CASE UNCHANGED engine
      BY <2>0, <2>3, <3>1 DEF SwitchATSCmd, engine, TypeOK
    <3>2. CASE Begin(other)
      BY <2>0, <2>3, <3>2, BeginTyped DEF SwitchATSCmd, TypeOK
    <3>3. CASE CannotBegin(other) /\ Stop("COMMAND") /\ UNCHANGED <<NextATSCmdIndex, hist>>
      BY <2>0, <2>3, <3>3, CannotBeginTyped DEF SwitchATSCmd, Stop, TypeOK
    <3> QED BY <2>3, <3>1, <3>2, <3>3 DEF SwitchATSCmd
  <2>4. ASSUME NEW t \in 1..(MaxTime + 1), JumpATSCmd(t)  PROVE TypeOK'
    <3>1. CASE UNCHANGED engine
      BY <2>0, <2>4, <3>1 DEF JumpATSCmd, engine, TypeOK
    <3>2. CASE Stop("ATS_JUMP") /\ UNCHANGED <<NextATSCmdIndex, hist, ATSCmdInfo>>
      BY <2>0, <2>4, <3>2 DEF JumpATSCmd, Stop, TypeOK
    <3>3. ASSUME NEW i \in 0..(MaxCmds + 1), PointAt(ATSCmdInfo, i),
                 hist' = [Fresh(i) EXCEPT !.smooth = hist.smooth],
                 UNCHANGED <<AtsState, AtsNumber, stopReason, ATSCmdInfo>>
          PROVE  TypeOK'
      <4>1. hist' \in History
        BY <3>3, FreshTyped DEF TypeOK, History
      <4> ATSCmdInfo \in Index /\ i \in Int
        BY AtsAssumption DEF TypeOK
      <4>2. Stamp(ATSCmdInfo, i) \in Nat /\ Id(ATSCmdInfo, i) \in Nat
        BY ONLY StampTyped, ATSCmdInfo \in Index, i \in Int
      <4>3. /\ NextATSCmdIndex' \in 0..(MaxCmds + 1)
            /\ NextAtsTime' \in Nat /\ AtsCmdNumber' \in Nat
        BY <3>3, <4>2 DEF PointAt
      <4>4. UNCHANGED <<AtsState, AtsNumber, ATSCmdInfo>>
        BY <3>3
      <4> QED BY <2>0, <2>4, <4>1, <4>3, <4>4 DEF JumpATSCmd, TypeOK
    <3> QED BY <2>4, <3>1, <3>2, <3>3 DEF JumpATSCmd
  <2>5. ASSUME NEW flag \in 0..2, ContATSOnFailCmd(flag)  PROVE TypeOK'
    BY <2>0, <2>5 DEF ContATSOnFailCmd, engine, TypeOK
  <2>6. ASSUME NEW n \in 1..2, NEW image \in AtsTables, LoadTable(n, image)  PROVE TypeOK'
    BY <2>0, <2>6 DEF LoadTable, engine, TypeOK
  <2>7. CASE ReportHousekeeping
    BY <2>0, <2>7 DEF ReportHousekeeping, ManageTables, Stop, engine, TypeOK
  <2>8. CASE Tick
    <3>1. CASE UNCHANGED engine
      BY <2>0, <2>8, <3>1 DEF Tick, engine, TypeOK
    <3>2. CASE engine' # engine
      BY <2>0, <2>8, <3>2, TickTyped DEF Tick, TypeOK
    <3> QED BY <3>1, <3>2
  <2>9. CASE Second
    BY <2>0, <2>9, AtsAssumption DEF Second, engine, TypeOK
  <2>10. ASSUME NEW t \in 1..MaxTime, StepClock(t)  PROVE TypeOK'
    BY <2>0, <2>10 DEF StepClock, TypeOK, History
  <2>11. CASE Restart
    <3>1. hist' \in History
      BY <2>11, FreshTyped, AtsAssumption DEF Restart
    <3>2. ATSCmdInfo' \in Index /\ NextATSCmdIndex' \in 0..(MaxCmds + 1)
      BY <2>11, AtsAssumption DEF Restart, Index
    <3> QED BY <2>0, <2>11, <3>1, <3>2 DEF Restart, Stop, TypeOK
  <2>12. CASE UNCHANGED vars
    BY <2>0, <2>12 DEF vars, engine, TypeOK
  <2> QED BY <2>1, <2>2, <2>3, <2>4, <2>5, <2>6, <2>7, <2>8, <2>9, <2>10, <2>11, <2>12
          DEF Next
<1> QED BY <1>1, <1>2, PTL DEF Spec

-----------------------------------------------------------------------------
(***************************************************************************)
(* The inductive invariant of the engine: its telemetry, its index and its *)
(* history each follow its position.  TypeOK bounds the position; with it  *)
(* the three are inductive together.                                       *)
(***************************************************************************)
Consistent == TelemetryOfNext /\ IndexMatchesTable /\ EachCommandOnce

(* A stopped engine is consistent, whatever index and history it keeps.    *)
LEMMA StoppedConsistent ==
  ASSUME NEW reason, Stop(reason)  PROVE Consistent'
  BY DEF Stop, Consistent, TelemetryOfNext, IndexMatchesTable, EachCommandOnce

(* So is one that has just begun or jumped to a command.                   *)
LEMMA BegunConsistent ==
  ASSUME TypeOK, NEW n \in 1..2, Begin(n), UNCHANGED active
  PROVE  Consistent'
<1>1. TelemetryOfNext'
  BY BeginTyped DEF TelemetryOfNext, Stamp, Id
<1>2. IndexMatchesTable'
  BY BeginTyped DEF IndexMatchesTable
<1>3. EachCommandOnce'
  <2>1. PICK i \in Slots : NextATSCmdIndex' = i /\ hist' = Fresh(i)
    BY BeginTyped
  <2>2. i..(i - 1) = {} /\ i <= i
    BY <2>1, AtsAssumption DEF Slots
  <2> QED BY <2>1, <2>2 DEF EachCommandOnce, Fresh
<1> QED BY <1>1, <1>2, <1>3 DEF Consistent

LEMMA PointedTelemetry ==
  ASSUME TypeOK, NEW e \in 0..(MaxCmds + 1), PointAt(ATSCmdInfo, e),
         Stamp(ATSCmdInfo, e) # 0, UNCHANGED <<AtsState, ATSCmdInfo>>,
         AtsState = "EXECUTING"
  PROVE  TelemetryOfNext'
<1>1. e \in Slots
  BY DEF Stamp
<1> QED BY <1>1 DEF PointAt, TelemetryOfNext, Stamp, Id

LEMMA JumpedConsistent ==
  ASSUME TypeOK, Consistent, AtsState = "EXECUTING",
         NEW i \in 0..(MaxCmds + 1), PointAt(ATSCmdInfo, i), Stamp(ATSCmdInfo, i) # 0,
         hist' = [Fresh(i) EXCEPT !.smooth = hist.smooth],
         UNCHANGED <<AtsState, AtsNumber, ATSCmdInfo, active>>
  PROVE  Consistent'
<1>1. TelemetryOfNext'
  BY PointedTelemetry
<1>2. IndexMatchesTable'
  BY DEF Consistent, IndexMatchesTable
<1>3. EachCommandOnce'
  <2>1. i..(i - 1) = {} /\ i <= i
    BY AtsAssumption
  <2>2. NextATSCmdIndex' = i
    BY DEF PointAt
  <2> QED BY <2>1, <2>2 DEF EachCommandOnce, Fresh
<1> QED BY <1>1, <1>2, <1>3 DEF Consistent

(* A tick deals with the commands from the old position to the new one,    *)
(* each in one of the three ways.                                          *)
LEMMA DealtWith ==
  ASSUME TypeOK, Consistent, AtsState = "EXECUTING",
         NEW i \in NextATSCmdIndex..(MaxCmds + 1), NEW e \in i..(MaxCmds + 1),
         NEW failed \in SUBSET (i..(e - 1)),
         Passed(i, (i..(e - 1)) \ failed, failed)
  PROVE  /\ hist'.first = hist.first /\ hist'.first <= e
         /\ hist'.sent \union hist'.failed \union hist'.skipped = hist'.first..(e - 1)
         /\ hist'.sent \intersect hist'.failed = {}
         /\ hist'.sent \intersect hist'.skipped = {}
         /\ hist'.failed \intersect hist'.skipped = {}
<1> DEFINE p == NextATSCmdIndex
           sent == (i..(e - 1)) \ failed
<1>1. /\ hist'.first = hist.first
      /\ hist'.sent = hist.sent \union sent
      /\ hist'.failed = hist.failed \union failed
      /\ hist'.skipped = hist.skipped \union (p..(i - 1))
  BY DEF Passed, TypeOK, History
<1>2. /\ hist.first \in Nat /\ hist.first <= p
      /\ hist.sent \union hist.failed \union hist.skipped = hist.first..(p - 1)
      /\ hist.sent \intersect hist.failed = {}
      /\ hist.sent \intersect hist.skipped = {}
      /\ hist.failed \intersect hist.skipped = {}
  BY AtsAssumption DEF Consistent, EachCommandOnce, TypeOK, History
<1>3. p \in Nat /\ i \in Nat /\ e \in Nat /\ p <= i /\ i <= e
  BY AtsAssumption DEF TypeOK
<1>4. sent \union failed = i..(e - 1) /\ sent \intersect failed = {}
  OBVIOUS
<1>5. hist.first..(e - 1) = (hist.first..(p - 1)) \union (p..(i - 1)) \union (i..(e - 1))
  BY <1>2, <1>3
<1>6. /\ (hist.first..(p - 1)) \intersect (p..(i - 1)) = {}
      /\ (hist.first..(p - 1)) \intersect (i..(e - 1)) = {}
      /\ (p..(i - 1)) \intersect (i..(e - 1)) = {}
  BY <1>2, <1>3
<1>7. hist'.sent \union hist'.failed \union hist'.skipped = hist'.first..(e - 1)
  BY <1>1, <1>2, <1>4, <1>5
<1>8. /\ hist'.sent \intersect hist'.failed = {}
      /\ hist'.sent \intersect hist'.skipped = {}
      /\ hist'.failed \intersect hist'.skipped = {}
  BY <1>1, <1>2, <1>4, <1>6
<1>9. hist'.first <= e
  BY <1>1, <1>2, <1>3
<1> QED BY <1>1, <1>7, <1>8, <1>9

LEMMA SentConsistent ==
  ASSUME TypeOK, Consistent, AtsState = "EXECUTING",
         NEW i \in NextATSCmdIndex..(MaxCmds + 1), NEW e \in i..(MaxCmds + 1),
         NEW failed \in SUBSET (i..(e - 1)),
         SendAll(i, e, failed), UNCHANGED active
  PROVE  Consistent'
<1>1. CASE Stamp(ATSCmdInfo, e) = 0
  <2>1. Stop("COMPLETE")
    BY <1>1 DEF SendAll, Proceed
  <2> QED BY <2>1, StoppedConsistent
<1>2. CASE Stamp(ATSCmdInfo, e) # 0
  <2>1. /\ PointAt(ATSCmdInfo, e) /\ NextATSCmdIndex' = e
        /\ UNCHANGED <<AtsState, AtsNumber, ATSCmdInfo>>
    BY <1>2 DEF SendAll, Proceed, PointAt
  <2>2. e \in 0..(MaxCmds + 1)
    BY AtsAssumption DEF TypeOK
  <2>3. TelemetryOfNext'
    BY <1>2, <2>1, <2>2, PointedTelemetry
  <2>4. IndexMatchesTable'
    BY <2>1 DEF Consistent, IndexMatchesTable
  <2>5. Passed(i, (i..(e - 1)) \ failed, failed)
    BY DEF SendAll
  <2>6. EachCommandOnce'
    BY <2>1, <2>5, DealtWith DEF EachCommandOnce
  <2> QED BY <2>3, <2>4, <2>6 DEF Consistent
<1> QED BY <1>1, <1>2

LEMMA TickConsistent ==
  ASSUME TypeOK, Consistent, Tick, engine' # engine
  PROVE  Consistent'
<1>1. AtsState = "EXECUTING" /\ UNCHANGED active
  BY DEF Tick, tables
<1>2. PICK i \in NextATSCmdIndex..(MaxCmds + 1) : OverrunTheEnd(i) \/ SendDue(i)
  BY DEF Tick
<1>3. CASE OverrunTheEnd(i)
  BY <1>3, StoppedConsistent DEF OverrunTheEnd
<1>4. CASE SendDue(i)
  <2>1. PICK e \in i..(MaxCmds + 1) :
          \E failed \in SUBSET (i..(e - 1)) :
            SendAll(i, e, failed) \/ SendUntilFailure(i, e, failed)
    <3>1. PICK e \in i..(MaxCmds + 1) :
            \E noBuffer \in SUBSET (i..(e - 1)) :
              LET failed == noBuffer \union {k \in i..(e - 1) : ~ATSCmdInfo[k].valid}
              IN  SendAll(i, e, failed) \/ SendUntilFailure(i, e, failed)
      BY <1>4 DEF SendDue
    <3> QED BY <3>1
  <2> PICK failed \in SUBSET (i..(e - 1)) :
        SendAll(i, e, failed) \/ SendUntilFailure(i, e, failed)
    BY <2>1
  <2>2. CASE SendAll(i, e, failed)
    BY <1>1, <2>2, SentConsistent
  <2>3. CASE SendUntilFailure(i, e, failed)
    BY <2>3, StoppedConsistent DEF SendUntilFailure
  <2> QED BY <2>2, <2>3
<1> QED BY <1>2, <1>3, <1>4

(* Nothing outside the engine's variables and the active tables matters.   *)
LEMMA StillConsistent ==
  ASSUME Consistent, UNCHANGED <<AtsState, AtsNumber, AtsCmdNumber, NextAtsTime,
           NextATSCmdIndex, ATSCmdInfo, hist, active>>
  PROVE  Consistent'
  BY DEF Consistent, TelemetryOfNext, IndexMatchesTable, EachCommandOnce

LEMMA ConsistentStep ==
  ASSUME TypeOK, Consistent, [Next]_vars  PROVE Consistent'
<1> USE DEF clock, tables
<1>1. ASSUME NEW n \in 0..3, StartATSCmd(n)  PROVE Consistent'
  <2>1. CASE UNCHANGED engine
    BY <1>1, <2>1, StillConsistent DEF StartATSCmd, engine
  <2>2. CASE n \in 1..2 /\ Begin(n)
    BY <1>1, <2>2, BegunConsistent DEF StartATSCmd
  <2>3. CASE AtsState # "EXECUTING" /\ UNCHANGED <<AtsState, AtsNumber, AtsCmdNumber, NextAtsTime>>
    BY <2>3 DEF Consistent, TelemetryOfNext, IndexMatchesTable, EachCommandOnce
  <2> QED BY <1>1, <2>1, <2>2, <2>3 DEF StartATSCmd
<1>2. CASE StopATSCmd
  BY <1>2, StillConsistent, StoppedConsistent DEF StopATSCmd, engine
<1>3. CASE SwitchATSCmd
  <2> DEFINE other == IF AtsNumber = 2 THEN 1 ELSE 2
  <2>1. CASE UNCHANGED engine
    BY <1>3, <2>1, StillConsistent DEF SwitchATSCmd, engine
  <2>2. CASE Begin(other)
    BY <1>3, <2>2, BegunConsistent DEF SwitchATSCmd
  <2>3. CASE Stop("COMMAND")
    BY <2>3, StoppedConsistent
  <2> QED BY <1>3, <2>1, <2>2, <2>3 DEF SwitchATSCmd
<1>4. ASSUME NEW t \in 1..(MaxTime + 1), JumpATSCmd(t)  PROVE Consistent'
  <2>1. CASE UNCHANGED engine
    BY <1>4, <2>1, StillConsistent DEF JumpATSCmd, engine
  <2>2. CASE Stop("ATS_JUMP")
    BY <2>2, StoppedConsistent
  <2>3. CASE AtsState = "EXECUTING" /\ ~UNCHANGED engine /\ ~Stop("ATS_JUMP")
    <3>1. PICK i \in 0..(MaxCmds + 1) :
            /\ Stamp(ATSCmdInfo, i) # 0
            /\ PointAt(ATSCmdInfo, i)
            /\ hist' = [Fresh(i) EXCEPT !.smooth = hist.smooth]
            /\ UNCHANGED <<AtsState, AtsNumber, stopReason>>
            /\ UNCHANGED ATSCmdInfo
      BY <1>4, <2>3 DEF JumpATSCmd
    <3> QED BY <1>4, <2>3, <3>1, JumpedConsistent DEF JumpATSCmd
  <2> QED BY <1>4, <2>1, <2>2, <2>3 DEF JumpATSCmd
<1>5. ASSUME NEW flag \in 0..2, ContATSOnFailCmd(flag)  PROVE Consistent'
  BY <1>5, StillConsistent DEF ContATSOnFailCmd, engine
<1>6. ASSUME NEW n \in 1..2, NEW image \in AtsTables, LoadTable(n, image)  PROVE Consistent'
  BY <1>6, StillConsistent DEF LoadTable, engine
<1>7. CASE ReportHousekeeping
  <2>1. CASE Stop("TABLE_UPDATE")
    BY <2>1, StoppedConsistent
  <2>2. CASE /\ AtsState = "EXECUTING" => pending[AtsNumber] = NoTable
             /\ UNCHANGED engine
    <3>1. AtsState = "EXECUTING" => AtsNumber \in 1..2
      BY DEF Consistent, IndexMatchesTable
    <3>2. AtsState = "EXECUTING" => active'[AtsNumber] = active[AtsNumber]
      BY <1>7, <2>2, <3>1 DEF ReportHousekeeping, ManageTables
    <3>3. TelemetryOfNext' /\ EachCommandOnce'
      BY <2>2 DEF Consistent, TelemetryOfNext, EachCommandOnce, engine
    <3>4. IndexMatchesTable'
      BY <2>2, <3>2 DEF Consistent, IndexMatchesTable, engine
    <3> QED BY <3>3, <3>4 DEF Consistent
  <2> QED BY <1>7, <2>1, <2>2 DEF ReportHousekeeping
<1>8. CASE Tick
  <2>1. CASE UNCHANGED engine
    BY <1>8, <2>1, StillConsistent DEF Tick, engine
  <2> QED BY <1>8, <2>1, TickConsistent
<1>9. CASE Second
  BY <1>9, StillConsistent DEF Second, engine
<1>10. ASSUME NEW t \in 1..MaxTime, StepClock(t)  PROVE Consistent'
  BY <1>10 DEF StepClock, Consistent, TelemetryOfNext, IndexMatchesTable,
               EachCommandOnce, TypeOK, History
<1>11. CASE Restart
  BY <1>11, StoppedConsistent DEF Restart
<1>12. CASE UNCHANGED vars
  BY <1>12, StillConsistent DEF vars, engine
<1> QED BY <1>1, <1>2, <1>3, <1>4, <1>5, <1>6, <1>7, <1>8, <1>9, <1>10, <1>11, <1>12
        DEF Next

(* The inductive invariant holds in every reachable state: telemetry,      *)
(* index and history all follow the engine.                                *)
THEOREM EngineConsistent == Spec => [](TypeOK /\ Consistent)
<1>1. Init => Consistent
  BY DEF Init, Consistent, TelemetryOfNext, IndexMatchesTable, EachCommandOnce
<1>2. TypeOK /\ Consistent /\ [Next]_vars => Consistent'
  BY ConsistentStep
<1> QED BY <1>1, <1>2, TypeCorrect, PTL DEF Spec

(* SC_HkPacket tells ground the truth about the next command.              *)
THEOREM TelemetryCorrect == Spec => []TelemetryOfNext
<1>1. Consistent => TelemetryOfNext
  BY DEF Consistent
<1> QED BY <1>1, EngineConsistent, PTL

(* SC_ATS_Update never applies the index of one table image to another:    *)
(* the stop in SC_ReportHousekeeping and the sort in SC_ATS_Prepare are    *)
(* enough, whatever ground loads, starts or switches in between.           *)
THEOREM IndexCorrect == Spec => []IndexMatchesTable
<1>1. Consistent => IndexMatchesTable
  BY DEF Consistent
<1> QED BY <1>1, EngineConsistent, PTL

(* Between its starting point and its position an ATS has dealt with each  *)
(* command in exactly one way: none is lost and none is sent again.        *)
THEOREM ExactlyOnce == Spec => []EachCommandOnce
<1>1. Consistent => EachCommandOnce
  BY DEF Consistent
<1> QED BY <1>1, EngineConsistent, PTL

(***************************************************************************)
(* The sends of one tick, seen against the clock.                          *)
(***************************************************************************)
OnTime ==
  AtsState = "EXECUTING" =>
    \A i \in hist'.sent \ hist.sent :
      ATSCmdInfo[i].Timestamp = now /\ ATSCmdInfo[i].valid

(* A history that starts over, or stays, has sent nothing new.             *)
LEMMA NothingSent ==
  ASSUME hist' = hist \/ hist'.sent = {}  PROVE OnTime
  BY DEF OnTime

LEMMA SendDueOnTime ==
  ASSUME TypeOK, NEW i \in NextATSCmdIndex..(MaxCmds + 1), SendDue(i)
  PROVE  OnTime
<1>1. PICK e \in i..(MaxCmds + 1) :
        /\ DueUntil(i, e)
        /\ \E noBuffer \in SUBSET (i..(e - 1)) :
              LET failed == noBuffer \union {k \in i..(e - 1) : ~ATSCmdInfo[k].valid}
              IN  SendAll(i, e, failed) \/ SendUntilFailure(i, e, failed)
  BY DEF SendDue
<1> PICK noBuffer \in SUBSET (i..(e - 1)) :
      LET failed == noBuffer \union {k \in i..(e - 1) : ~ATSCmdInfo[k].valid}
      IN  SendAll(i, e, failed) \/ SendUntilFailure(i, e, failed)
  BY <1>1
<1> DEFINE failed == noBuffer \union {k \in i..(e - 1) : ~ATSCmdInfo[k].valid}
<1>2. \A k \in i..(e - 1) : k \in Slots /\ ATSCmdInfo[k].Timestamp = now
  <2>1. \A k \in i..(e - 1) : k \in Slots
    BY AtsAssumption DEF TypeOK, Slots
  <2> QED BY <1>1, <2>1 DEF DueUntil, Stamp
<1>3. CASE SendAll(i, e, failed)
  <2>1. hist'.sent = hist.sent \union ((i..(e - 1)) \ failed)
    BY <1>3 DEF SendAll, Passed, TypeOK, History
  <2> QED BY <1>2, <2>1 DEF OnTime
<1>4. CASE SendUntilFailure(i, e, failed)
  <2>1. PICK f \in failed : /\ \A k \in i..(f - 1) : k \notin failed
                            /\ Passed(i, i..(f - 1), {f})
    BY <1>4 DEF SendUntilFailure
  <2>2. hist'.sent = hist.sent \union (i..(f - 1))
    BY <2>1 DEF Passed, TypeOK, History
  <2>3. \A k \in i..(f - 1) : k \in i..(e - 1) /\ ATSCmdInfo[k].valid
    <3>1. f \in i..(e - 1) /\ i \in Int /\ e \in Int
      BY <2>1
    <3>2. \A k \in i..(f - 1) : k \in i..(e - 1)
      BY <3>1
    <3> QED BY <2>1, <3>2
  <2> QED BY <1>2, <2>2, <2>3 DEF OnTime
<1> QED BY <1>3, <1>4

(* A stored command goes out in the second it was scheduled for, and never *)
(* with a wrong checksum, whatever the clock or ground do in between.      *)
THEOREM SendsAreTimely == Spec => SentOnTime
<1>1. TypeOK /\ [Next]_vars => OnTime
  <2> SUFFICES ASSUME TypeOK, [Next]_vars  PROVE OnTime
    OBVIOUS
  <2>1. ASSUME NEW n \in 0..3, StartATSCmd(n)  PROVE OnTime
    BY <2>1, BeginTyped, NothingSent DEF StartATSCmd, engine, Fresh
  <2>2. CASE StopATSCmd
    BY <2>2, NothingSent DEF StopATSCmd, engine
  <2>3. CASE SwitchATSCmd
    <3> DEFINE other == IF AtsNumber = 2 THEN 1 ELSE 2
    <3>1. hist' = hist \/ Begin(other)
      BY <2>3 DEF SwitchATSCmd, engine
    <3> QED BY <3>1, BeginTyped, NothingSent DEF Fresh
  <2>4. ASSUME NEW t \in 1..(MaxTime + 1), JumpATSCmd(t)  PROVE OnTime
    <3>1. hist' = hist \/ \E i \in 0..(MaxCmds + 1) :
            hist' = [Fresh(i) EXCEPT !.smooth = hist.smooth]
      BY <2>4 DEF JumpATSCmd, engine
    <3> QED BY <3>1, NothingSent DEF Fresh
  <2>5. ASSUME NEW flag \in 0..2, ContATSOnFailCmd(flag)  PROVE OnTime
    BY <2>5, NothingSent DEF ContATSOnFailCmd, engine
  <2>6. ASSUME NEW n \in 1..2, NEW image \in AtsTables, LoadTable(n, image)  PROVE OnTime
    BY <2>6, NothingSent DEF LoadTable, engine
  <2>7. CASE ReportHousekeeping
    BY <2>7, NothingSent DEF ReportHousekeeping, engine
  <2>8. CASE Tick
    <3>1. CASE UNCHANGED engine
      BY <3>1, NothingSent DEF engine
    <3>2. ASSUME NEW i \in NextATSCmdIndex..(MaxCmds + 1), OverrunTheEnd(i)  PROVE OnTime
      <4>1. hist'.sent = hist.sent
        BY <3>2 DEF OverrunTheEnd, TypeOK, History
      <4> QED BY <4>1 DEF OnTime
    <3> QED BY <2>8, <3>1, <3>2, SendDueOnTime DEF Tick
  <2>9. CASE Second
    BY <2>9, NothingSent DEF Second, engine
  <2>10. ASSUME NEW t \in 1..MaxTime, StepClock(t)  PROVE OnTime
    <3>1. hist'.sent = hist.sent
      BY <2>10 DEF StepClock, TypeOK, History
    <3> QED BY <3>1 DEF OnTime
  <2>11. CASE Restart
    BY <2>11, NothingSent DEF Restart, Fresh
  <2>12. CASE UNCHANGED vars
    BY <2>12, NothingSent DEF vars, engine
  <2> QED BY <2>1, <2>2, <2>3, <2>4, <2>5, <2>6, <2>7, <2>8, <2>9, <2>10, <2>11, <2>12
          DEF Next
<1>2. Spec => [][OnTime]_vars
  BY <1>1, TypeCorrect, PTL DEF Spec
<1> QED BY <1>2, PTL DEF SentOnTime, OnTime

-----------------------------------------------------------------------------
(***************************************************************************)
(* What the sort of SC_ATS_Prepare gives the loops that walk over its      *)
(* index: the times ascend, and after a zero there are only zeros.         *)
(***************************************************************************)
Ascending(index) ==
  \A i, j \in Slots :
    i < j /\ index[j].Timestamp # 0 =>
      index[i].Timestamp # 0 /\ index[i].Timestamp <= index[j].Timestamp

LEMMA IndexesAscend ==
  ASSUME NEW table \in AtsTables, NEW index \in Indexes(table)
  PROVE  Ascending(index)
<1> DEFINE n == CmdCount(table)
<1>1. table \in Seq(Entry) /\ Len(table) \in Nat /\ MaxCmds \in Nat
  BY AtsAssumption
<1>2. n \in 0..Len(table) /\ n \in Nat
  BY <1>1 DEF CmdCount
<1>3. PICK p \in [1..n -> 1..n] :
        /\ \A i, j \in 1..n : i < j => ~Before(table[p[j]], table[p[i]])
        /\ index = [i \in Slots |-> IF i < n THEN table[p[i + 1]] ELSE Empty]
  BY DEF Indexes
<1> HIDE DEF n
<1> SUFFICES ASSUME NEW i \in Slots, NEW j \in Slots, i < j, index[j].Timestamp # 0
             PROVE  index[i].Timestamp # 0 /\ index[i].Timestamp <= index[j].Timestamp
  BY DEF Ascending
<1>4. j < n
  BY <1>3 DEF Empty
<1>5. i + 1 \in 1..n /\ j + 1 \in 1..n /\ i + 1 < j + 1 /\ i < n
  BY <1>1, <1>2, <1>4 DEF Slots
<1>6. index[i] = table[p[i + 1]] /\ index[j] = table[p[j + 1]]
  BY <1>3, <1>4, <1>5
<1>7. table[p[i + 1]] \in Entry /\ table[p[j + 1]] \in Entry
  <2>1. p[i + 1] \in 1..Len(table) /\ p[j + 1] \in 1..Len(table)
    BY <1>1, <1>2, <1>3, <1>5
  <2> QED BY <1>1, <2>1
<1>8. ~Before(table[p[j + 1]], table[p[i + 1]])
  BY <1>3, <1>5
<1> QED BY <1>6, <1>7, <1>8 DEF Before, Entry

(* So the index of an ATS that executes is in order.                       *)
LEMMA RunsInOrder ==
  ASSUME TypeOK, Consistent, AtsState = "EXECUTING"
  PROVE  Ascending(ATSCmdInfo)
<1>1. AtsNumber \in 1..2 /\ active[AtsNumber] # NoTable /\ ATSCmdInfo \in Indexes(active[AtsNumber])
  BY DEF Consistent, IndexMatchesTable
<1>2. active[AtsNumber] \in AtsTables
  BY <1>1 DEF TypeOK
<1> QED BY <1>1, <1>2, IndexesAscend

(* A tick of an ATS that executes overruns its end, or sends the commands  *)
(* due: all, or those up to the first failure.                             *)
LEMMA TickCases ==
  ASSUME TypeOK, Tick, AtsState = "EXECUTING"
  PROVE  \E i \in NextATSCmdIndex..(MaxCmds + 1) :
           /\ FirstAtOrAfter(ATSCmdInfo, NextATSCmdIndex, now, i)
           /\ \/ OverrunTheEnd(i)
              \/ \E e \in i..(MaxCmds + 1) : \E failed \in SUBSET (i..(e - 1)) :
                   /\ Stamp(ATSCmdInfo, i) # 0
                   /\ DueUntil(i, e)
                   /\ SendAll(i, e, failed) \/ SendUntilFailure(i, e, failed)
<1>1. PICK i \in NextATSCmdIndex..(MaxCmds + 1) :
        /\ FirstAtOrAfter(ATSCmdInfo, NextATSCmdIndex, now, i)
        /\ OverrunTheEnd(i) \/ SendDue(i)
  BY DEF Tick
<1>2. CASE SendDue(i)
  <2>0. PICK e \in i..(MaxCmds + 1) :
          /\ DueUntil(i, e)
          /\ \E noBuffer \in SUBSET (i..(e - 1)) :
               LET failed == noBuffer \union {k \in i..(e - 1) : ~ATSCmdInfo[k].valid}
               IN  SendAll(i, e, failed) \/ SendUntilFailure(i, e, failed)
    BY <1>2 DEF SendDue
  <2>1. PICK noBuffer \in SUBSET (i..(e - 1)) :
          LET failed == noBuffer \union {k \in i..(e - 1) : ~ATSCmdInfo[k].valid}
          IN  SendAll(i, e, failed) \/ SendUntilFailure(i, e, failed)
    BY <2>0
  <2> DEFINE failed == noBuffer \union {k \in i..(e - 1) : ~ATSCmdInfo[k].valid}
  <2>2. failed \in SUBSET (i..(e - 1)) /\ Stamp(ATSCmdInfo, i) # 0
    BY <1>2 DEF SendDue
  <2>3. SendAll(i, e, failed) \/ SendUntilFailure(i, e, failed)
    BY <2>1
  <2> HIDE DEF failed
  <2> QED BY <1>1, <2>0, <2>2, <2>3
<1> QED BY <1>1, <1>2

(***************************************************************************)
(* "Completed ATS": the zero that ends the loop is the end of the table.   *)
(***************************************************************************)
Completed ==
  AtsState = "EXECUTING" /\ AtsState' = "IDLE" /\ stopReason' = "COMPLETE" =>
    \A i \in Slots : i >= hist.first /\ ATSCmdInfo[i].Timestamp # 0 =>
      i \in hist'.sent \union hist'.failed \union hist'.skipped

(* Every other stop gives another reason.                                  *)
LEMMA OnlyTickCompletes ==
  ASSUME [Next]_vars, AtsState = "EXECUTING", AtsState' = "IDLE", stopReason' = "COMPLETE"
  PROVE  Tick
<1> USE DEF engine
<1>1. ASSUME NEW n, StartATSCmd(n)  PROVE FALSE
  BY <1>1 DEF StartATSCmd
<1>2. ~StopATSCmd
  BY DEF StopATSCmd, Stop
<1>3. ~SwitchATSCmd
  BY DEF SwitchATSCmd, Stop, Begin
<1>4. ASSUME NEW t, JumpATSCmd(t)  PROVE FALSE
  BY <1>4 DEF JumpATSCmd, Stop
<1>5. ~ReportHousekeeping /\ ~Restart
  BY DEF ReportHousekeeping, Restart, Stop
<1>6. AtsState' # AtsState
  OBVIOUS
<1> QED BY <1>1, <1>2, <1>3, <1>4, <1>5, <1>6
        DEF Next, vars, ContATSOnFailCmd, LoadTable, Second, StepClock

(* SC_ATS_Update reports completion only when no command from the starting *)
(* point on is left: the sort has put the free slots, and with them the    *)
(* zero it stops at, behind every command.                                 *)
THEOREM CompletionIsTotal == Spec => CompletedMeansAll
<1>1. TypeOK /\ Consistent /\ [Next]_vars => Completed
  <2> SUFFICES ASSUME TypeOK, Consistent, [Next]_vars, AtsState = "EXECUTING",
                      AtsState' = "IDLE", stopReason' = "COMPLETE",
                      NEW k \in Slots, k >= hist.first, ATSCmdInfo[k].Timestamp # 0
               PROVE  k \in hist'.sent \union hist'.failed \union hist'.skipped
    BY DEF Completed
  <2>1. PICK i \in NextATSCmdIndex..(MaxCmds + 1) :
          \/ OverrunTheEnd(i)
          \/ \E e \in i..(MaxCmds + 1) : \E failed \in SUBSET (i..(e - 1)) :
               SendAll(i, e, failed) \/ SendUntilFailure(i, e, failed)
    BY OnlyTickCompletes, TickCases
  <2>2. PICK e \in i..(MaxCmds + 1) : \E failed \in SUBSET (i..(e - 1)) : SendAll(i, e, failed)
    BY <2>1 DEF OverrunTheEnd, SendUntilFailure, Stop
  <2>3. PICK failed \in SUBSET (i..(e - 1)) : SendAll(i, e, failed)
    BY <2>2
  <2>4. Stamp(ATSCmdInfo, e) = 0
    BY <2>3 DEF SendAll, Proceed
  <2>5. hist'.sent \union hist'.failed \union hist'.skipped = hist.first..(e - 1)
    <3>1. Passed(i, (i..(e - 1)) \ failed, failed)
      BY <2>3 DEF SendAll
    <3> QED BY <3>1, DealtWith
  <2>6. e \in Int /\ 0 <= e /\ e <= MaxCmds + 1 /\ k \in Int /\ hist.first \in Int
    BY AtsAssumption DEF TypeOK, Slots, History
  <2>7. k < e
    <3> SUFFICES ASSUME e <= k  PROVE FALSE
      BY <2>6
    <3>1. e \in Slots /\ ATSCmdInfo[e].Timestamp = 0
      BY <2>4, <2>6, AtsAssumption DEF Slots, Stamp
    <3>2. Ascending(ATSCmdInfo)
      BY RunsInOrder
    <3> QED BY <2>6, <3>1, <3>2 DEF Ascending
  <2> QED BY <2>5, <2>6, <2>7
<1>2. Spec => [][Completed]_vars
  BY <1>1, EngineConsistent, PTL DEF Spec
<1> QED BY <1>2, PTL DEF CompletedMeansAll, Completed

-----------------------------------------------------------------------------
(***************************************************************************)
(* The commands still to come, seen against the clock: as long as time     *)
(* goes on from second to second, they lie in the future, or in this       *)
(* second if it has had no tick, or they were late when the engine was     *)
(* started or jumped.                                                      *)
(***************************************************************************)
InTime(stamp) ==
  \/ stamp <= hist.startedAt
  \/ stamp = now /\ ~ticked
  \/ stamp > now

OnSchedule ==
  AtsState = "EXECUTING" /\ hist.smooth =>
    \A k \in Slots : k >= NextATSCmdIndex /\ ATSCmdInfo[k].Timestamp # 0 =>
      InTime(ATSCmdInfo[k].Timestamp)

(* The times in an index are numbers.                                      *)
LEMMA IndexEntries ==
  ASSUME NEW index \in Index, NEW k \in Slots
  PROVE  index[k].Timestamp \in Nat
  BY DEF Index, Entry, Empty

LEMMA StoppedSchedule ==
  ASSUME AtsState' = "IDLE"  PROVE OnSchedule'
  BY DEF OnSchedule

(* Whatever it starts from, an engine that starts now has nothing behind   *)
(* it but commands that were late already.                                 *)
LEMMA StartedSchedule ==
  ASSUME TypeOK, ATSCmdInfo' \in Index, now' = now, hist'.startedAt = now
  PROVE  OnSchedule'
  BY IndexEntries DEF OnSchedule, InTime, TypeOK

LEMMA SameSchedule ==
  ASSUME OnSchedule, UNCHANGED <<now, ticked, AtsState, NextATSCmdIndex, ATSCmdInfo, hist>>
  PROVE  OnSchedule'
  BY DEF OnSchedule, InTime

(* The command a tick stops at lies in the future, and the index is in     *)
(* order: so do all after it.                                              *)
LEMMA TickLeavesFuture ==
  ASSUME TypeOK, Consistent, Tick, AtsState = "EXECUTING", AtsState' # "IDLE"
  PROVE  /\ UNCHANGED <<now, AtsState>> /\ hist'.startedAt = hist.startedAt
         /\ \A k \in Slots : k >= NextATSCmdIndex' /\ ATSCmdInfo'[k].Timestamp # 0 =>
              ATSCmdInfo'[k].Timestamp > now
<1>0. PICK i \in NextATSCmdIndex..(MaxCmds + 1) :
        /\ FirstAtOrAfter(ATSCmdInfo, NextATSCmdIndex, now, i)
        /\ \/ OverrunTheEnd(i)
           \/ \E e \in i..(MaxCmds + 1) : \E failed \in SUBSET (i..(e - 1)) :
                /\ Stamp(ATSCmdInfo, i) # 0
                /\ DueUntil(i, e)
                /\ SendAll(i, e, failed) \/ SendUntilFailure(i, e, failed)
  BY TickCases
<1>1. PICK e \in i..(MaxCmds + 1) : \E failed \in SUBSET (i..(e - 1)) :
        /\ Stamp(ATSCmdInfo, i) # 0
        /\ DueUntil(i, e)
        /\ SendAll(i, e, failed) \/ SendUntilFailure(i, e, failed)
  BY <1>0 DEF OverrunTheEnd, Stop
<1>2. PICK failed \in SUBSET (i..(e - 1)) : SendAll(i, e, failed)
  BY <1>1 DEF SendUntilFailure, Stop
<1>3. Stamp(ATSCmdInfo, e) # 0 /\ NextATSCmdIndex' = e /\ ATSCmdInfo' = ATSCmdInfo
  BY <1>2 DEF SendAll, Proceed, Stop, PointAt
<1>4. i \in Int /\ e \in Int /\ i <= e /\ now \in Int /\ 0 <= i
  BY AtsAssumption DEF TypeOK
<1>5. e \in Slots /\ Stamp(ATSCmdInfo, e) = ATSCmdInfo[e].Timestamp
  BY <1>3 DEF Stamp
<1>6. Ascending(ATSCmdInfo)
  BY RunsInOrder
<1>7. Stamp(ATSCmdInfo, e) > now
  <2>1. Stamp(ATSCmdInfo, e) # now /\ Stamp(ATSCmdInfo, e) \in Int
    BY <1>1, <1>5, IndexEntries DEF DueUntil, TypeOK
  <2>2. CASE e = i
    BY <1>0, <1>1, <1>4, <2>1, <2>2 DEF FirstAtOrAfter
  <2>3. CASE e # i
    <3>1. e - 1 \in i..(e - 1) /\ e - 1 \in Slots /\ e - 1 < e
      BY <1>4, <1>5, <2>3, AtsAssumption DEF Slots
    <3>2. ATSCmdInfo[e - 1].Timestamp = now
      BY <1>1, <3>1 DEF DueUntil, Stamp
    <3> QED BY <1>3, <1>4, <1>5, <1>6, <2>1, <3>1, <3>2 DEF Ascending
  <2> QED BY <2>2, <2>3
<1>8. ASSUME NEW k \in Slots, k >= e, ATSCmdInfo[k].Timestamp # 0
      PROVE  ATSCmdInfo[k].Timestamp > now
  <2>1. ATSCmdInfo[k].Timestamp \in Int /\ ATSCmdInfo[e].Timestamp \in Int
    BY <1>5, IndexEntries DEF TypeOK
  <2>2. k = e \/ e < k
    BY <1>4, <1>8, AtsAssumption DEF Slots
  <2>3. ATSCmdInfo[e].Timestamp <= ATSCmdInfo[k].Timestamp
    BY <1>5, <1>6, <1>8, <2>1, <2>2 DEF Ascending
  <2> QED BY <1>4, <1>5, <1>7, <2>1, <2>3
<1>9. now' = now
  BY DEF Tick
<1>10. AtsState' = AtsState /\ hist'.startedAt = hist.startedAt
  <2>1. AtsState' = AtsState
    BY <1>2 DEF SendAll, Proceed, Stop
  <2>2. hist'.startedAt = hist.startedAt
    BY <1>2 DEF SendAll, Passed, TypeOK, History
  <2> QED BY <2>1, <2>2
<1> QED BY <1>3, <1>8, <1>9, <1>10

LEMMA TickSchedule ==
  ASSUME TypeOK, Consistent, Tick  PROVE OnSchedule'
<1>1. CASE AtsState # "EXECUTING"
  BY <1>1 DEF Tick, engine, OnSchedule
<1>2. CASE AtsState = "EXECUTING" /\ AtsState' = "IDLE"
  BY <1>2, StoppedSchedule
<1>3. CASE AtsState = "EXECUTING" /\ AtsState' # "IDLE"
  BY <1>3, TickLeavesFuture DEF OnSchedule, InTime
<1> QED BY <1>1, <1>2, <1>3

LEMMA SecondSchedule ==
  ASSUME TypeOK, OnSchedule, Second  PROVE OnSchedule'
<1>1. ticked /\ now \in Nat /\ now' = now + 1 /\ ~ticked' /\ UNCHANGED engine
  BY DEF Second, TypeOK
<1> SUFFICES ASSUME AtsState = "EXECUTING", hist.smooth,
                    NEW k \in Slots, k >= NextATSCmdIndex, ATSCmdInfo[k].Timestamp # 0
             PROVE  InTime(ATSCmdInfo[k].Timestamp)'
  BY <1>1 DEF OnSchedule, engine, Slots
<1>2. InTime(ATSCmdInfo[k].Timestamp)
  BY DEF OnSchedule
<1>3. ATSCmdInfo[k].Timestamp \in Nat
  BY IndexEntries DEF TypeOK
<1> QED BY <1>1, <1>2, <1>3 DEF InTime, engine

LEMMA ScheduleStep ==
  ASSUME TypeOK, TypeOK', Consistent, OnSchedule, [Next]_vars  PROVE OnSchedule'
<1>0. ATSCmdInfo' \in Index
  BY DEF TypeOK
<1>1. ASSUME NEW n \in 0..3, StartATSCmd(n)  PROVE OnSchedule'
  <2>1. AtsState' = "IDLE" \/ Begin(n) \/ UNCHANGED engine
    BY <1>1 DEF StartATSCmd, TypeOK
  <2>2. UNCHANGED <<now, ticked>>
    BY <1>1 DEF StartATSCmd, clock
  <2> QED BY <1>0, <2>1, <2>2, StoppedSchedule, StartedSchedule, SameSchedule
          DEF Begin, Fresh, engine
<1>2. CASE StopATSCmd
  BY <1>2, StoppedSchedule, SameSchedule DEF StopATSCmd, Stop, engine, clock
<1>3. CASE SwitchATSCmd
  <2> DEFINE other == IF AtsNumber = 2 THEN 1 ELSE 2
  <2>1. AtsState' = "IDLE" \/ Begin(other) \/ UNCHANGED engine
    BY <1>3 DEF SwitchATSCmd, Stop
  <2>2. UNCHANGED <<now, ticked>>
    BY <1>3 DEF SwitchATSCmd, clock
  <2> QED BY <1>0, <2>1, <2>2, StoppedSchedule, StartedSchedule, SameSchedule
          DEF Begin, Fresh, engine
<1>4. ASSUME NEW t \in 1..(MaxTime + 1), JumpATSCmd(t)  PROVE OnSchedule'
  <2>1. UNCHANGED <<now, ticked>>
    BY <1>4 DEF JumpATSCmd, clock
  <2>2. \/ AtsState' = "IDLE"
        \/ \E i \in 0..(MaxCmds + 1) : hist' = [Fresh(i) EXCEPT !.smooth = hist.smooth]
        \/ UNCHANGED engine
    BY <1>4 DEF JumpATSCmd, Stop
  <2> QED BY <1>0, <2>1, <2>2, StoppedSchedule, StartedSchedule, SameSchedule
          DEF Fresh, engine
<1>5. ASSUME NEW flag \in 0..2, ContATSOnFailCmd(flag)  PROVE OnSchedule'
  BY <1>5, SameSchedule DEF ContATSOnFailCmd, engine, clock
<1>6. ASSUME NEW n \in 1..2, NEW image \in AtsTables, LoadTable(n, image)  PROVE OnSchedule'
  BY <1>6, SameSchedule DEF LoadTable, engine, clock
<1>7. CASE ReportHousekeeping
  BY <1>7, StoppedSchedule, SameSchedule DEF ReportHousekeeping, Stop, engine, clock
<1>8. CASE Tick
  BY <1>8, TickSchedule
<1>9. CASE Second
  BY <1>9, SecondSchedule
<1>10. ASSUME NEW t \in 1..MaxTime, StepClock(t)  PROVE OnSchedule'
  BY <1>10 DEF StepClock, OnSchedule, TypeOK, History
<1>11. CASE Restart
  BY <1>11, StoppedSchedule DEF Restart, Stop
<1>12. CASE UNCHANGED vars
  BY <1>12, SameSchedule DEF vars, engine, clock
<1> QED BY <1>1, <1>2, <1>3, <1>4, <1>5, <1>6, <1>7, <1>8, <1>9, <1>10, <1>11, <1>12
        DEF Next

(* While time goes on evenly, no command still to come of an ATS that      *)
(* executes falls behind the clock.                                        *)
THEOREM RunsOnSchedule == Spec => []OnSchedule
<1>1. Init => OnSchedule
  BY DEF Init, OnSchedule
<1>2. TypeOK /\ TypeOK' /\ Consistent /\ OnSchedule /\ [Next]_vars => OnSchedule'
  BY ScheduleStep
<1> QED BY <1>1, <1>2, EngineConsistent, PTL DEF Spec

(* What a step adds to the skipped commands was late from the beginning.   *)
SkippedLate ==
  AtsState = "EXECUTING" /\ hist'.smooth =>
    \A i \in hist'.skipped \ hist.skipped :
      ATSCmdInfo[i].Timestamp <= hist.startedAt

LEMMA TickSkips ==
  ASSUME TypeOK, OnSchedule, Tick, AtsState = "EXECUTING"  PROVE SkippedLate
<1>1. PICK i \in NextATSCmdIndex..(MaxCmds + 1) :
        /\ FirstAtOrAfter(ATSCmdInfo, NextATSCmdIndex, now, i)
        /\ \/ OverrunTheEnd(i)
           \/ \E e \in i..(MaxCmds + 1) : \E failed \in SUBSET (i..(e - 1)) :
                SendAll(i, e, failed) \/ SendUntilFailure(i, e, failed)
  BY TickCases
<1>2. /\ hist'.smooth = hist.smooth
      /\ hist'.skipped = hist.skipped \union (NextATSCmdIndex..(i - 1))
  <2>1. \/ OverrunTheEnd(i)
        \/ \E e, failed : Passed(i, (i..(e - 1)) \ failed, failed)
        \/ \E f : Passed(i, i..(f - 1), {f})
    BY <1>1 DEF SendAll, SendUntilFailure
  <2> QED BY <2>1 DEF OverrunTheEnd, Passed, TypeOK, History
<1> SUFFICES ASSUME hist.smooth, NEW k \in NextATSCmdIndex..(i - 1)
             PROVE  ATSCmdInfo[k].Timestamp <= hist.startedAt
  BY <1>2 DEF SkippedLate
<1>3. 0 < Stamp(ATSCmdInfo, k) /\ Stamp(ATSCmdInfo, k) < now
  BY <1>1 DEF FirstAtOrAfter
<1>4. k \in Slots /\ ATSCmdInfo[k].Timestamp = Stamp(ATSCmdInfo, k)
  BY <1>3 DEF Stamp
<1>5. NextATSCmdIndex \in Int /\ k >= NextATSCmdIndex /\ now \in Int
      /\ ATSCmdInfo[k].Timestamp \in Int
  BY <1>4, IndexEntries, AtsAssumption DEF TypeOK
<1>6. InTime(ATSCmdInfo[k].Timestamp)
  BY <1>3, <1>4, <1>5 DEF OnSchedule
<1> QED BY <1>3, <1>4, <1>5, <1>6 DEF InTime

(* An ATS loses no command to its own pace: with a tick in every second,   *)
(* SC_ATS_Update skips only what was late when ground started or jumped.   *)
THEOREM NothingFallsBehind == Spec => NothingSkipped
<1>1. TypeOK /\ OnSchedule /\ [Next]_vars => SkippedLate
  <2> SUFFICES ASSUME TypeOK, OnSchedule, [Next]_vars, AtsState = "EXECUTING"
               PROVE  SkippedLate
    BY DEF SkippedLate
  <2>1. CASE Tick
    BY <2>1, TickSkips
  <2>2. CASE ~Tick
    <3>1. hist'.skipped = {} \/ hist'.skipped = hist.skipped
      <4> USE DEF engine, Fresh
      <4>1. ASSUME NEW n \in 0..3, StartATSCmd(n)  PROVE hist'.skipped \in {{}, hist.skipped}
        BY <4>1 DEF StartATSCmd, Begin
      <4>2. CASE SwitchATSCmd
        BY <4>2 DEF SwitchATSCmd, Begin
      <4>3. ASSUME NEW t \in 1..(MaxTime + 1), JumpATSCmd(t)
            PROVE  hist'.skipped \in {{}, hist.skipped}
        BY <4>3 DEF JumpATSCmd
      <4>4. ASSUME NEW t \in 1..MaxTime, StepClock(t)  PROVE hist'.skipped = hist.skipped
        BY <4>4 DEF StepClock, TypeOK, History
      <4> QED BY <2>2, <4>1, <4>2, <4>3, <4>4
              DEF Next, vars, StopATSCmd, ContATSOnFailCmd, LoadTable, ReportHousekeeping,
                  Second, Restart
    <3> QED BY <3>1 DEF SkippedLate
  <2> QED BY <2>1, <2>2
<1>2. Spec => [][SkippedLate]_vars
  BY <1>1, EngineConsistent, RunsOnSchedule, PTL DEF Spec
<1> QED BY <1>2 DEF NothingSkipped, SkippedLate

(***************************************************************************)
(* The safe half of AtsEnds: an ATS that executes waits for a time to come,*)
(* so that it cannot outlive its last command.                             *)
(***************************************************************************)
AheadOfClock ==
  AtsState = "EXECUTING" /\ ticked /\ hist.startedAt # now => NextAtsTime > now

LEMMA SameAhead ==
  ASSUME AheadOfClock, UNCHANGED <<now, ticked, AtsState, NextAtsTime, hist>>
  PROVE  AheadOfClock'
  BY DEF AheadOfClock

LEMMA AheadStep ==
  ASSUME TypeOK, TypeOK', Consistent, Consistent', AheadOfClock, [Next]_vars
  PROVE  AheadOfClock'
<1>0. ASSUME now' = now, hist'.startedAt = now \/ AtsState' = "IDLE"  PROVE AheadOfClock'
  BY <1>0 DEF AheadOfClock
<1>1. ASSUME NEW n \in 0..3, StartATSCmd(n)  PROVE AheadOfClock'
  <2>1. AtsState' = "IDLE" \/ Begin(n) \/ UNCHANGED engine
    BY <1>1 DEF StartATSCmd, TypeOK
  <2>2. UNCHANGED <<now, ticked>>
    BY <1>1 DEF StartATSCmd, clock
  <2> QED BY <1>0, <2>1, <2>2, SameAhead DEF Begin, Fresh, engine
<1>2. CASE StopATSCmd
  BY <1>0, <1>2, SameAhead DEF StopATSCmd, Stop, engine, clock
<1>3. CASE SwitchATSCmd
  <2> DEFINE other == IF AtsNumber = 2 THEN 1 ELSE 2
  <2>1. AtsState' = "IDLE" \/ Begin(other) \/ UNCHANGED engine
    BY <1>3 DEF SwitchATSCmd, Stop
  <2>2. UNCHANGED <<now, ticked>>
    BY <1>3 DEF SwitchATSCmd, clock
  <2> QED BY <1>0, <2>1, <2>2, SameAhead DEF Begin, Fresh, engine
<1>4. ASSUME NEW t \in 1..(MaxTime + 1), JumpATSCmd(t)  PROVE AheadOfClock'
  <2>1. UNCHANGED <<now, ticked>>
    BY <1>4 DEF JumpATSCmd, clock
  <2>2. \/ AtsState' = "IDLE"
        \/ \E i \in 0..(MaxCmds + 1) : hist' = [Fresh(i) EXCEPT !.smooth = hist.smooth]
        \/ UNCHANGED engine
    BY <1>4 DEF JumpATSCmd, Stop
  <2> QED BY <1>0, <2>1, <2>2, SameAhead DEF Fresh, engine
<1>5. ASSUME NEW flag \in 0..2, ContATSOnFailCmd(flag)  PROVE AheadOfClock'
  BY <1>5, SameAhead DEF ContATSOnFailCmd, engine, clock
<1>6. ASSUME NEW n \in 1..2, NEW image \in AtsTables, LoadTable(n, image)
      PROVE  AheadOfClock'
  BY <1>6, SameAhead DEF LoadTable, engine, clock
<1>7. CASE ReportHousekeeping
  BY <1>0, <1>7, SameAhead DEF ReportHousekeeping, Stop, engine, clock
<1>8. CASE Tick
  <2>1. CASE AtsState # "EXECUTING"
    BY <1>8, <2>1 DEF Tick, engine, AheadOfClock
  <2>2. CASE AtsState = "EXECUTING" /\ AtsState' = "IDLE"
    BY <2>2 DEF AheadOfClock
  <2>3. CASE AtsState = "EXECUTING" /\ AtsState' # "IDLE"
    <3>1. /\ NextATSCmdIndex' \in Slots /\ NextAtsTime' # 0
          /\ NextAtsTime' = ATSCmdInfo'[NextATSCmdIndex'].Timestamp
      BY <1>8, <2>3, TickLeavesFuture DEF Consistent, TelemetryOfNext
    <3>2. NextATSCmdIndex' >= NextATSCmdIndex'
      BY <3>1, AtsAssumption DEF Slots
    <3>3. NextAtsTime' > now /\ now' = now
      BY <1>8, <2>3, <3>1, <3>2, TickLeavesFuture
    <3> QED BY <3>3 DEF AheadOfClock
  <2> QED BY <2>1, <2>2, <2>3
<1>9. CASE Second
  BY <1>9 DEF Second, AheadOfClock
<1>10. ASSUME NEW t \in 1..MaxTime, StepClock(t)  PROVE AheadOfClock'
  BY <1>10 DEF StepClock, AheadOfClock
<1>11. CASE Restart
  BY <1>11 DEF Restart, Stop, AheadOfClock
<1>12. CASE UNCHANGED vars
  BY <1>12, SameAhead DEF vars, engine, clock
<1> QED BY <1>1, <1>2, <1>3, <1>4, <1>5, <1>6, <1>7, <1>8, <1>9, <1>10, <1>11, <1>12
        DEF Next

(* Once SC has handled a tick of a second after the one of the start or    *)
(* jump, an ATS that still executes has its next command in the future,    *)
(* however the clock was stepped: one whose last command is past is over.  *)
THEOREM DoesNotOutlive == Spec => []AheadOfClock
<1>1. Init => AheadOfClock
  BY DEF Init, AheadOfClock
<1>2. TypeOK /\ TypeOK' /\ Consistent /\ Consistent' /\ AheadOfClock /\ [Next]_vars
        => AheadOfClock'
  BY AheadStep
<1> QED BY <1>1, <1>2, EngineConsistent, PTL DEF Spec
=============================================================================
