------------------------------- MODULE SCAts -------------------------------
(***************************************************************************)
(* The absolute time sequence (ATS) engine of the Stored Command app:      *)
(* ofsw/cfs/sc/fsw/src/sc_ats.c and the ATS command handlers of sc_task.c. *)
(*                                                                         *)
(* SC keeps two ATS tables.  Starting one builds ATSCmdInfo, an index of   *)
(* its commands sorted by time, and from then on every 10 Hz tick sends    *)
(* the commands whose timestamp is the current second.  Ground commands,   *)
(* housekeeping requests (which apply pending table loads) and ticks are   *)
(* messages of one task, so each handler is one action; what varies is     *)
(* their order, the clock, and whether the software bus has a buffer.      *)
(***************************************************************************)
EXTENDS Integers, Sequences, FiniteSets

CONSTANTS
  AtsTables,   (* the table images ground may load: sequences of entries   *)
  NoTable,     (* content of a table that was never loaded                 *)
  MaxCmds,     (* SC_MAX_ATS_CMDS                                          *)
  MaxTime,     (* bound: the last second of spacecraft time                *)
  MaxGround    (* bound: how often ground acts or the clock is stepped     *)

(* A command of an ATS table; valid says whether its checksum is right.    *)
Entry == [CmdId : Nat \ {0}, Timestamp : Nat \ {0}, valid : BOOLEAN]

(* A zeroed slot of ATSCmdInfo: its Timestamp 0 ends the sequence.         *)
Empty == [CmdId |-> 0, Timestamp |-> 0, valid |-> FALSE]

ASSUME AtsAssumption ==
  /\ MaxCmds \in Nat \ {0}
  /\ MaxTime \in Nat \ {0}
  /\ MaxGround \in Nat
  /\ AtsTables \subseteq Seq(Entry)
  /\ NoTable \notin AtsTables

VARIABLES
  now,                  (* spacecraft time, in seconds                     *)
  ticked,               (* a tick was handled in this second               *)
  ground,               (* ground actions and clock steps so far           *)
  active, pending,      (* ATS tables: active image, image waiting for HK  *)
  AtsState, AtsNumber, AtsCmdNumber, NextAtsTime, ContinueAtsOnFailure,
  NextATSCmdIndex, ATSCmdInfo,
  verdict,              (* the command counter the last step incremented   *)
  stopReason,           (* what the last SC_ATS_Stop event said            *)
  hist                  (* history of the current activation, see Fresh    *)

tables  == <<active, pending>>
clock   == <<now, ticked>>
engine  == <<AtsState, AtsNumber, AtsCmdNumber, NextAtsTime,
             NextATSCmdIndex, ATSCmdInfo, stopReason, hist>>
vars    == <<clock, ground, tables, engine, ContinueAtsOnFailure, verdict>>

Slots == 0..MaxCmds
Index == [Slots -> Entry \union {Empty}]

History == [first : 0..(MaxCmds + 1), startedAt : Nat, smooth : BOOLEAN,
            sent : SUBSET Slots, failed : SUBSET Slots, skipped : SUBSET Slots]

(* Since when the engine runs from which slot, and what became of the      *)
(* commands it passed: sent, failed (no buffer or bad checksum), skipped.  *)
(* smooth: the clock was not stepped since.                                *)
Fresh(i) == [first |-> i, startedAt |-> now, smooth |-> TRUE,
             sent |-> {}, failed |-> {}, skipped |-> {}]

-----------------------------------------------------------------------------
(* SC_ATS_CompareCmds: by time, then by command id.                        *)
Before(a, b) ==
  \/ a.Timestamp < b.Timestamp
  \/ a.Timestamp = b.Timestamp /\ a.CmdId < b.CmdId

(* The commands SC_ATS_Prepare reads: its loop stops after MaxCmds + 1.    *)
CmdCount(table) == IF Len(table) <= MaxCmds THEN Len(table) ELSE MaxCmds + 1

(* The indexes SC_ATS_Prepare can build of a table.  qsort leaves the      *)
(* order of commands with the same time and id open.                       *)
Indexes(table) ==
  LET n == CmdCount(table)
      Sorted == {p \in [1..n -> 1..n] :
                   \A i, j \in 1..n : i < j =>
                     p[i] # p[j] /\ ~Before(table[p[j]], table[p[i]])}
  IN  {[i \in Slots |-> IF i < n THEN table[p[i + 1]] ELSE Empty] : p \in Sorted}

(* Timestamp of a slot.  What follows the array is RTSInfo[0], whose       *)
(* NextCmdTime.Seconds lies where a Timestamp would: 0 while RTS 1 is idle. *)
Stamp(index, i) == IF i \in Slots THEN index[i].Timestamp ELSE 0
Id(index, i)    == IF i \in Slots THEN index[i].CmdId ELSE 0

(* The search loops of Prepare, Update and Jump: i is the first slot from  *)
(* "from" on that is not before t, or the end of the sequence.             *)
FirstAtOrAfter(index, from, t, i) ==
  /\ Stamp(index, i) = 0 \/ t <= Stamp(index, i)
  /\ \A k \in from..(i - 1) : 0 < Stamp(index, k) /\ Stamp(index, k) < t

(* Fault: one command a tick.                                              *)
DueOneByOne(i, e) ==
  /\ e = i => Stamp(ATSCmdInfo, i) # now
  /\ e # i => e = i + 1 /\ Stamp(ATSCmdInfo, i) = now

(* The commands due now are those of the slots i..(e - 1).                 *)
DueUntil(i, e) ==
  /\ Stamp(ATSCmdInfo, e) # now
  /\ \A k \in i..(e - 1) : Stamp(ATSCmdInfo, k) = now

(* Fault: the countdown to the next command in place of its time.          *)
PointAtCountdown(index, i) ==
  /\ NextATSCmdIndex' = i
  /\ NextAtsTime' = Stamp(index, i) - now
  /\ AtsCmdNumber' = Id(index, i)

(* Fault: one increment too many.                                          *)
PointPast(index, i) ==
  /\ NextATSCmdIndex' = i + 1
  /\ NextAtsTime' = Stamp(index, i + 1)
  /\ AtsCmdNumber' = Id(index, i + 1)

PointAt(index, i) ==
  /\ NextATSCmdIndex' = i
  /\ NextAtsTime' = Stamp(index, i)
  /\ AtsCmdNumber' = Id(index, i)

(* Fault: the time of the next command outlives the ATS.                   *)
StopKeepsTime(reason) ==
  /\ AtsState' = "IDLE"
  /\ AtsNumber' = 0
  /\ AtsCmdNumber' = 0
  /\ NextAtsTime' = NextAtsTime
  /\ stopReason' = reason

(* SC_ATS_Stop: leaves NextATSCmdIndex and ATSCmdInfo as they are.         *)
Stop(reason) ==
  /\ AtsState' = "IDLE"
  /\ AtsNumber' = 0
  /\ AtsCmdNumber' = 0
  /\ NextAtsTime' = 0
  /\ stopReason' = reason

(* SC_ATS_Prepare succeeds and its caller sets the state.                  *)
Begin(n) ==
  /\ active[n] # NoTable
  /\ \E index \in Indexes(active[n]), i \in Slots :
       /\ FirstAtOrAfter(index, 0, now, i)
       /\ Stamp(index, i) # 0
       /\ ATSCmdInfo' = index
       /\ PointAt(index, i)
       /\ hist' = Fresh(i)
  /\ AtsNumber' = n
  /\ AtsState' = "EXECUTING"

(* SC_ATS_Prepare fails: no table, or all of it in the past, in which case *)
(* ATSCmdInfo has been overwritten already.                                *)
CannotBegin(n) ==
  \/ active[n] = NoTable /\ UNCHANGED ATSCmdInfo
  \/ /\ active[n] # NoTable
     /\ \E index \in Indexes(active[n]) :
          /\ \A i \in Slots : Stamp(index, i) < now
          /\ ATSCmdInfo' = index

-----------------------------------------------------------------------------
Init ==
  /\ now = 1 /\ ticked = FALSE /\ ground = 0
  /\ active = [n \in 1..2 |-> NoTable]
  /\ pending = [n \in 1..2 |-> NoTable]
  /\ AtsState = "IDLE" /\ AtsNumber = 0 /\ AtsCmdNumber = 0 /\ NextAtsTime = 0
  /\ NextATSCmdIndex = 0
  /\ ATSCmdInfo = [i \in Slots |-> Empty]
  /\ ContinueAtsOnFailure = TRUE
  /\ verdict = "none" /\ stopReason = "none"
  /\ hist = Fresh(0)

(* What every ground command does besides its handler.                     *)
Ground == ground < MaxGround /\ ground' = ground + 1
Ack    == verdict' = "CmdCtr"
Nak    == verdict' = "CmdErrCtr"

(* SC_StartATSCmd *)
StartATSCmd(n) ==
  /\ Ground
  /\ \/ /\ n \notin 1..2 \/ AtsState = "EXECUTING"
        /\ Nak
        /\ UNCHANGED engine
     \/ /\ n \in 1..2 /\ AtsState # "EXECUTING"
        /\ \/ Begin(n) /\ Ack /\ UNCHANGED stopReason
           \/ /\ CannotBegin(n) /\ Nak
              /\ UNCHANGED <<AtsState, AtsNumber, AtsCmdNumber, NextAtsTime,
                             NextATSCmdIndex, stopReason, hist>>
  /\ UNCHANGED <<clock, tables, ContinueAtsOnFailure>>

(* SC_StopATSCmd *)
StopATSCmd ==
  /\ Ground
  /\ \/ AtsState # "EXECUTING" /\ Nak /\ UNCHANGED engine
     \/ /\ AtsState = "EXECUTING" /\ Ack /\ Stop("COMMAND")
        /\ UNCHANGED <<NextATSCmdIndex, ATSCmdInfo, hist>>
  /\ UNCHANGED <<clock, tables, ContinueAtsOnFailure>>

(* SC_SwitchATSCmd stops the running ATS before it knows whether the other *)
(* one can begin.                                                          *)
SwitchATSCmd ==
  /\ Ground
  /\ \/ AtsState # "EXECUTING" /\ Nak /\ UNCHANGED engine
     \/ /\ AtsState = "EXECUTING"
        /\ LET other == IF AtsNumber = 2 THEN 1 ELSE 2
           IN  \/ Begin(other) /\ Ack /\ stopReason' = "COMMAND"
               \/ /\ CannotBegin(other) /\ Nak /\ Stop("COMMAND")
                  /\ UNCHANGED <<NextATSCmdIndex, hist>>
  /\ UNCHANGED <<clock, tables, ContinueAtsOnFailure>>

(* SC_JumpATSCmd and SC_ATS_Jump: the search starts at the first command,  *)
(* so a jump may go back.                                                  *)
JumpATSCmd(t) ==
  /\ Ground
  /\ \/ AtsState # "EXECUTING" /\ Nak /\ UNCHANGED engine
     \/ /\ AtsState = "EXECUTING" /\ Ack
        /\ \E i \in 0..(MaxCmds + 1) :
             /\ FirstAtOrAfter(ATSCmdInfo, 0, t, i)
             /\ \/ /\ Stamp(ATSCmdInfo, i) = 0
                   /\ Stop("ATS_JUMP")
                   /\ UNCHANGED <<NextATSCmdIndex, hist>>
                \/ /\ Stamp(ATSCmdInfo, i) # 0
                   /\ PointAt(ATSCmdInfo, i)
                   /\ hist' = [Fresh(i) EXCEPT !.smooth = hist.smooth]
                   /\ UNCHANGED <<AtsState, AtsNumber, stopReason>>
        /\ UNCHANGED ATSCmdInfo
  /\ UNCHANGED <<clock, tables, ContinueAtsOnFailure>>

(* SC_ContATSOnFailCmd: anything but a boolean is refused.                 *)
ContATSOnFailCmd(flag) ==
  /\ Ground
  /\ \/ flag \in {0, 1} /\ Ack /\ ContinueAtsOnFailure' = (flag = 1)
     \/ flag \notin {0, 1} /\ Nak /\ UNCHANGED ContinueAtsOnFailure
  /\ UNCHANGED <<clock, tables, engine>>

(* Ground loads and activates a table image: it waits for CFE_TBL_Manage.  *)
LoadTable(n, image) ==
  /\ Ground
  /\ pending' = [pending EXCEPT ![n] = image]
  /\ verdict' = "none"
  /\ UNCHANGED <<clock, active, engine, ContinueAtsOnFailure>>

(* The table services apply the loads that wait.                           *)
ManageTables ==
  /\ active' = [n \in 1..2 |-> IF pending[n] = NoTable THEN active[n] ELSE pending[n]]
  /\ pending' = [n \in 1..2 |-> NoTable]

(* Fault: an ATS whose table is updated goes on.                           *)
ReportWithoutStop ==
  /\ ManageTables
  /\ verdict' = "none"
  /\ UNCHANGED <<clock, ground, engine, ContinueAtsOnFailure>>

(* SC_ReportHousekeeping: manage both tables; an update of the table that  *)
(* is executing stops it.                                                  *)
ReportHousekeeping ==
  /\ ManageTables
  /\ verdict' = "none"
  /\ \/ /\ AtsState = "EXECUTING" /\ pending[AtsNumber] # NoTable
        /\ Stop("TABLE_UPDATE")
        /\ UNCHANGED <<NextATSCmdIndex, ATSCmdInfo, hist>>
     \/ /\ AtsState = "EXECUTING" => pending[AtsNumber] = NoTable
        /\ UNCHANGED engine
  /\ UNCHANGED <<clock, ground, ContinueAtsOnFailure>>

(* Fault: the overrun is noticed, but the ATS is not stopped.              *)
OverrunIgnored(i) ==
  /\ Stamp(ATSCmdInfo, i) = 0
  /\ UNCHANGED engine

(* SC_ATS_Update when every command left is in the past.                   *)
OverrunTheEnd(i) ==
  /\ Stamp(ATSCmdInfo, i) = 0
  /\ Stop("ERROR")
  /\ hist' = [hist EXCEPT !.skipped = @ \union (NextATSCmdIndex..(i - 1))]
  /\ UNCHANGED <<NextATSCmdIndex, ATSCmdInfo>>

(* The end of the send loop of SC_ATS_Update: what comes next is slot e.   *)
(* Fault: looks one slot too far for the end of the sequence.              *)
ProceedEarly(e) ==
  \/ /\ Stamp(ATSCmdInfo, e + 1) # 0
     /\ PointAt(ATSCmdInfo, e)
     /\ UNCHANGED <<AtsState, AtsNumber, stopReason>>
  \/ /\ Stamp(ATSCmdInfo, e + 1) = 0
     /\ Stop("COMPLETE")
     /\ NextATSCmdIndex' = e

Proceed(e) ==
  \/ /\ Stamp(ATSCmdInfo, e) # 0
     /\ PointAt(ATSCmdInfo, e)
     /\ UNCHANGED <<AtsState, AtsNumber, stopReason>>
  \/ /\ Stamp(ATSCmdInfo, e) = 0
     /\ Stop("COMPLETE")
     /\ NextATSCmdIndex' = e

Passed(i, sent, failed) ==
  hist' = [hist EXCEPT !.skipped = @ \union (NextATSCmdIndex..(i - 1)),
                       !.sent = @ \union sent, !.failed = @ \union failed]

(* The send loop over the commands i..(e - 1) due now, of which some may   *)
(* fail: all the way, or up to the first failure.                          *)
SendAll(i, e, failed) ==
  /\ failed = {} \/ ContinueAtsOnFailure
  /\ Passed(i, (i..(e - 1)) \ failed, failed)
  /\ Proceed(e)
  /\ UNCHANGED ATSCmdInfo

SendUntilFailure(i, e, failed) ==
  /\ ~ContinueAtsOnFailure
  /\ \E f \in failed :
       /\ \A k \in i..(f - 1) : k \notin failed
       /\ Passed(i, i..(f - 1), {f})
       /\ NextATSCmdIndex' = f
  /\ Stop("ERROR")
  /\ UNCHANGED ATSCmdInfo

(* Fault: the checksum is not looked at.                                   *)
SendUnchecked(i) ==
  /\ Stamp(ATSCmdInfo, i) # 0
  /\ \E e \in i..(MaxCmds + 1) :
       /\ DueUntil(i, e)
       /\ \E failed \in SUBSET (i..(e - 1)) :
            SendAll(i, e, failed) \/ SendUntilFailure(i, e, failed)

(* noBuffer: the commands for which CFE_SB_ZeroCopyGetPtr returned NULL.   *)
SendDue(i) ==
  /\ Stamp(ATSCmdInfo, i) # 0
  /\ \E e \in i..(MaxCmds + 1) :
       /\ DueUntil(i, e)
       /\ \E noBuffer \in SUBSET (i..(e - 1)) :
            LET failed == noBuffer \union
                          {k \in i..(e - 1) : ~ATSCmdInfo[k].valid}
            IN  SendAll(i, e, failed) \/ SendUntilFailure(i, e, failed)

(* The 10 Hz tick: SC_ATS_Update as SC_RunSequences calls it.              *)
Tick ==
  /\ ticked' = TRUE
  /\ verdict' = "none"
  /\ \/ AtsState # "EXECUTING" /\ UNCHANGED engine
     \/ /\ AtsState = "EXECUTING"
        /\ \E i \in NextATSCmdIndex..(MaxCmds + 1) :
             /\ FirstAtOrAfter(ATSCmdInfo, NextATSCmdIndex, now, i)
             /\ OverrunTheEnd(i) \/ SendDue(i)
  /\ UNCHANGED <<now, ground, tables, ContinueAtsOnFailure>>

(* The clock reaches the next second: SC has handled at least one of the   *)
(* ten ticks of this one.                                                  *)
Second ==
  /\ now < MaxTime /\ ticked
  /\ now' = now + 1
  /\ ticked' = FALSE
  /\ verdict' = "none"
  /\ UNCHANGED <<ground, tables, engine, ContinueAtsOnFailure>>

(* Spacecraft time is set, or SC slept through seconds.                    *)
StepClock(t) ==
  /\ Ground
  /\ t # now
  /\ now' = t
  /\ ticked' = FALSE
  /\ hist' = [hist EXCEPT !.smooth = FALSE]
  /\ verdict' = "none"
  /\ UNCHANGED <<tables, AtsState, AtsNumber, AtsCmdNumber, NextAtsTime,
                 NextATSCmdIndex, ATSCmdInfo, stopReason, ContinueAtsOnFailure>>

(* cFE restarts the app (HS may order it): SC_Init with a clean data       *)
(* segment; its ATS tables are registered anew and empty.                  *)
Restart ==
  /\ Ground
  /\ active' = [n \in 1..2 |-> NoTable]
  /\ pending' = [n \in 1..2 |-> NoTable]
  /\ Stop("none")
  /\ NextATSCmdIndex' = 0
  /\ ATSCmdInfo' = [i \in Slots |-> Empty]
  /\ hist' = Fresh(0)
  /\ ContinueAtsOnFailure' = TRUE
  /\ verdict' = "none"
  /\ UNCHANGED clock

Next ==
  \/ \E n \in 0..3 : StartATSCmd(n)
  \/ StopATSCmd
  \/ SwitchATSCmd
  \/ \E t \in 1..(MaxTime + 1) : JumpATSCmd(t)
  \/ \E flag \in 0..2 : ContATSOnFailCmd(flag)
  \/ \E n \in 1..2, image \in AtsTables : LoadTable(n, image)
  \/ ReportHousekeeping
  \/ Tick
  \/ Second
  \/ \E t \in 1..MaxTime : StepClock(t)
  \/ Restart

Spec == Init /\ [][Next]_vars

(* The task serves its pipe, the scheduler ticks it, time passes; nothing  *)
(* is assumed of ground.                                                   *)
FairSpec == Spec /\ WF_vars(Tick) /\ WF_vars(Second)

-----------------------------------------------------------------------------
(***************************************************************************)
(* Properties                                                              *)
(***************************************************************************)

(* Every variable keeps to its type.                                       *)
FlagsOK ==
  /\ ticked \in BOOLEAN
  /\ ContinueAtsOnFailure \in BOOLEAN
  /\ verdict \in {"none", "CmdCtr", "CmdErrCtr"}
  /\ stopReason \in {"none", "COMPLETE", "COMMAND", "ERROR", "ATS_JUMP", "TABLE_UPDATE"}

TypeOK ==
  /\ FlagsOK
  /\ now \in 1..MaxTime /\ ground \in 0..MaxGround
  /\ active \in [1..2 -> AtsTables \union {NoTable}]
  /\ pending \in [1..2 -> AtsTables \union {NoTable}]
  /\ AtsState \in {"IDLE", "EXECUTING"} /\ AtsNumber \in 0..2
  /\ AtsCmdNumber \in Nat /\ NextAtsTime \in Nat
  /\ NextATSCmdIndex \in 0..(MaxCmds + 1)
  /\ ATSCmdInfo \in Index
  /\ hist \in History

(* While an ATS executes, the index it runs from is an index of the table  *)
(* image that is active now: SC_ATS_Update takes the command's bytes from  *)
(* the table and its offset, length and time from ATSCmdInfo, which was    *)
(* built when the ATS started, whatever has been loaded since.             *)
IndexMatchesTable ==
  AtsState = "EXECUTING" =>
    /\ AtsNumber \in 1..2
    /\ active[AtsNumber] # NoTable
    /\ ATSCmdInfo \in Indexes(active[AtsNumber])

(* The telemetry of the next command (AtsCmdNumber, NextAtsTime) always    *)
(* agrees with the engine's own position, and says nothing when idle.      *)
TelemetryOfNext ==
  IF AtsState = "EXECUTING"
  THEN /\ NextATSCmdIndex \in Slots
       /\ NextAtsTime = ATSCmdInfo[NextATSCmdIndex].Timestamp
       /\ NextAtsTime # 0
       /\ AtsCmdNumber = ATSCmdInfo[NextATSCmdIndex].CmdId
  ELSE AtsNumber = 0 /\ NextAtsTime = 0 /\ AtsCmdNumber = 0

(* Every command the engine has passed since it was started or jumped was  *)
(* dealt with exactly once: sent, counted as an error, or skipped.         *)
EachCommandOnce ==
  AtsState = "EXECUTING" =>
    /\ hist.first <= NextATSCmdIndex
    /\ hist.sent \union hist.failed \union hist.skipped
         = hist.first..(NextATSCmdIndex - 1)
    /\ hist.sent \intersect hist.failed = {}
    /\ hist.sent \intersect hist.skipped = {}
    /\ hist.failed \intersect hist.skipped = {}

(* As long as the clock is not stepped and SC gets a tick every second,    *)
(* the only commands an ATS can skip are those of the very second in which *)
(* it was started or jumped (whose last tick may already be over).         *)
NothingSkipped ==
  [][AtsState = "EXECUTING" /\ hist'.smooth =>
       \A i \in hist'.skipped \ hist.skipped :
         ATSCmdInfo[i].Timestamp <= hist.startedAt]_vars

(* A command is sent in exactly the second of its timestamp, and only if   *)
(* its checksum is right.                                                  *)
SentOnTime ==
  [][AtsState = "EXECUTING" =>
       \A i \in hist'.sent \ hist.sent :
         ATSCmdInfo[i].Timestamp = now /\ ATSCmdInfo[i].valid]_vars

(* "Completed ATS" is reported only when no command from the starting      *)
(* point to the end of the sequence was left out.                          *)
CompletedMeansAll ==
  [][AtsState = "EXECUTING" /\ AtsState' = "IDLE" /\ stopReason' = "COMPLETE" =>
       \A i \in Slots : i >= hist.first /\ ATSCmdInfo[i].Timestamp # 0 =>
         i \in hist'.sent \union hist'.failed \union hist'.skipped]_vars

(* A running ATS comes to an end, however ground has started, jumped and   *)
(* reloaded it before it leaves it alone.                                  *)
AtsEnds == AtsState = "EXECUTING" ~> AtsState = "IDLE"
=============================================================================
