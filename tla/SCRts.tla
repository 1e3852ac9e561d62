------------------------------- MODULE SCRts -------------------------------
(***************************************************************************)
(* The relative time sequence (RTS) engine of the Stored Command app:      *)
(* ofsw/cfs/sc/fsw/src/sc_rts.c and the RTS handlers of sc_task.c.         *)
(*                                                                         *)
(* An RTS table is a buffer of commands one after the other, each with a   *)
(* delay in seconds before it.  The engine keeps the offset and the length *)
(* of the next command, and a load replaces the buffer under a running RTS *)
(* without touching them.  The commands of one tick go out in a loop, here *)
(* a step each, SendCommand; the task does nothing else until it is done.  *)
(* The loop ends at a command with a delay, at the end of the table, or at *)
(* a failure: a buffer the software bus does not have, a bad checksum.     *)
(* Time is spacecraft time in ticks of the 10 Hz scheduler message and     *)
(* wraps like the clock it models.                                         *)
(***************************************************************************)
EXTENDS Integers, Sequences, FiniteSets

CONSTANTS
  NumRts,       (* SC_NUMBER_OF_RTS                                        *)
  RtsTables,    (* table images, see IsTable                               *)
  Directories,  (* what SC may find in SC_FILENAME_PATH: see Registered    *)
  NoTable,      (* content of a table that was never loaded                *)
  Absent,       (* the directory has no file for this RTS                  *)
  Broken,       (* it has one, which CFE_TBL_Load refuses                  *)
  TicksPerSec,  (* ticks in a second                                       *)
  TimeMod,      (* spacecraft time wraps at this many ticks                *)
  DelaySize,    (* sizeof(uint16), the delay before a command              *)
  MinLength,    (* CFE_SB_GetTotalMsgLength of a header of zeros           *)
  MaxLength,    (* the longest message the bus has a buffer for            *)
  MaxGround     (* bound: how often ground acts or the clock is stepped    *)

Rts  == 1..NumRts
Time == 0..(TimeMod - 1)

(* What lies at an offset: the delay before the header, the length in it,  *)
(* and whether the checksum of a message of that length is right.          *)
RtsRow == [Delay : Nat, Length : Nat, valid : BOOLEAN]

Blank == [Delay |-> 0, Length |-> MinLength, valid |-> FALSE]

(* at: the offsets where a header with a message id can be read and there  *)
(* is room for one, those in the middle of a command or behind the last    *)
(* included; elsewhere the buffer is blank.  starts: the commands of the   *)
(* table, the first behind the first delay, each behind the one before it. *)
(* Every buffer has exactly one such list, and SC_RTS_Validate accepts all.*)
Behind(table, p) == p + table.at[p].Length + DelaySize

IsTable(t) ==
  /\ t = [starts |-> t.starts, at |-> t.at]
  /\ t.starts \in Seq(Nat)
  /\ DOMAIN t.at \subseteq Nat /\ t.at \in [DOMAIN t.at -> RtsRow]
  /\ DelaySize \in DOMAIN t.at <=> t.starts # << >>
  /\ t.starts # << >> => t.starts[1] = DelaySize
  /\ \A k \in DOMAIN t.starts :
       /\ t.starts[k] \in DOMAIN t.at
       /\ IF k < Len(t.starts) THEN t.starts[k + 1] = Behind(t, t.starts[k])
          ELSE Behind(t, t.starts[k]) \notin DOMAIN t.at

ASSUME RtsAssumption ==
  /\ NumRts \in Nat \ {0}
  /\ TicksPerSec \in Nat \ {0}
  /\ TimeMod \in Nat \ {0}
  /\ MaxGround \in Nat
  /\ DelaySize \in Nat \ {0} /\ MinLength \in Nat /\ MaxLength \in Nat
  /\ \A table \in RtsTables : IsTable(table)
  /\ Directories # {}
  /\ Directories \subseteq [Rts -> RtsTables \union {Absent, Broken}]
  /\ {NoTable, Absent, Broken} \intersect RtsTables = {}
  /\ Absent # Broken

(* A delay (16 bits of seconds) is less than half the range of the clock   *)
(* (32 bits), or CFE_TIME_Compare would take what is to come for past.     *)
ASSUME RtsDelaysFit ==
  \A table \in RtsTables : \A p \in DOMAIN table.at :
    table.at[p].Delay * TicksPerSec + TimeMod \div 2 < TimeMod

VARIABLES
  now,                   (* spacecraft time                                *)
  ticked,                (* a tick was handled since the clock moved       *)
  ground,                (* ground actions and clock steps so far          *)
  registered,            (* RTSs with a table handle                       *)
  active, pending,       (* RTS tables: active image, image waiting for HK *)
  RTSInfo, ContinueRtsOnFailure,
  sending,               (* RTSs whose loop SC_RTS_UpdateAll has to run    *)
  NextRtsNumber, NextRtsTime, RtsExecutingStatus,   (* as last reported    *)
  verdict,               (* the command counter the last step incremented  *)
  faulted,               (* a command was copied to a NULL buffer          *)
  leaked,                (* a zero-copy buffer was neither sent nor freed  *)
  hist                   (* history of each RTS, see NoRun                 *)

tables  == <<registered, active, pending>>
clock   == <<now, ticked>>
report  == <<NextRtsNumber, NextRtsTime, RtsExecutingStatus>>
damage  == <<faulted, leaked>>
vars    == <<clock, ground, tables, RTSInfo, ContinueRtsOnFailure, sending,
             report, verdict, damage, hist>>

Info == [Status : {"UNLOADED", "IDLE", "EXECUTING"},
         EnableState : {"DISABLED", "ENABLED"},
         NextCmdPtr : Nat, NextCmdLength : Nat, NextCmdNum : Nat,
         NextCmdTime : Time, DisableOnFinish : BOOLEAN]

History == [attempted : Nat, last : Time, stepped : BOOLEAN, swapped : BOOLEAN,
            banned : BOOLEAN]

(* History of an RTS: commands attempted in its current or last run, when  *)
(* the last of them (or the start) was, whether the clock was stepped or   *)
(* the table replaced since, and whether the last enable or disable that   *)
(* ground had accepted was a disable.                                      *)
NoRun == [attempted |-> 0, last |-> 0, stepped |-> FALSE, swapped |-> FALSE,
          banned |-> FALSE]

-----------------------------------------------------------------------------
(* CFE_TIME_Compare: a difference beyond half the range is a rollover.     *)
After(a, b) == \/ a > b /\ a - b <= TimeMod \div 2
               \/ a < b /\ b - a > TimeMod \div 2

(* Faults: the carry is lost; seconds are taken for ticks.                 *)
PlusWide(t, seconds)  == t + seconds * TicksPerSec
PlusTicks(t, seconds) == (t + seconds) % TimeMod

Plus(t, seconds) == (t + seconds * TicksPerSec) % TimeMod

Read(table, p) == IF p \in DOMAIN table.at THEN table.at[p] ELSE Blank

(* Fault: the pending disable is dropped.                                  *)
StoppedStillEnabled(info) ==
  [info EXCEPT !.Status = "IDLE", !.NextCmdPtr = 0, !.NextCmdLength = 0,
     !.NextCmdNum = 0, !.NextCmdTime = 0,
     !.DisableOnFinish = FALSE]

(* SC_RTS_Stop, with its pending disable.                                  *)
Stopped(info) ==
  [info EXCEPT !.Status = "IDLE", !.NextCmdPtr = 0, !.NextCmdLength = 0,
     !.NextCmdNum = 0, !.NextCmdTime = 0,
     !.EnableState = IF info.DisableOnFinish THEN "DISABLED" ELSE @,
     !.DisableOnFinish = FALSE]

Executing(r) == RTSInfo[r].Status = "EXECUTING"

(* Faults: the length of the first command is kept; the delay between the  *)
(* commands is left out.                                                   *)
AfterCommandSameLength(info, table, t) ==
  LET p == info.NextCmdPtr + info.NextCmdLength + DelaySize
  IN  IF p \in DOMAIN table.at
      THEN [info EXCEPT !.NextCmdPtr = p, !.NextCmdNum = @ + 1,
                        !.NextCmdTime = Plus(t, Read(table, p).Delay)]
      ELSE Stopped(info)

AfterCommandNoDelay(info, table, t) ==
  LET p == info.NextCmdPtr + info.NextCmdLength
  IN  IF p \in DOMAIN table.at
      THEN [info EXCEPT !.NextCmdPtr = p, !.NextCmdLength = Read(table, p).Length,
                        !.NextCmdNum = @ + 1, !.NextCmdTime = Plus(t, Read(table, p).Delay)]
      ELSE Stopped(info)

(* The set-up for the next command: it lies behind the one just handled,   *)
(* as long as that was, and without a header there the RTS is complete.    *)
AfterCommand(info, table, t) ==
  LET p == info.NextCmdPtr + info.NextCmdLength + DelaySize
  IN  IF p \in DOMAIN table.at
      THEN [info EXCEPT !.NextCmdPtr = p, !.NextCmdLength = Read(table, p).Length,
                        !.NextCmdNum = @ + 1, !.NextCmdTime = Plus(t, Read(table, p).Delay)]
      ELSE Stopped(info)

(* What the checksum of the copy can say.  If the message there claims to  *)
(* be longer than what was copied, the buffer's old content counts too.    *)
Checksums(info, table) ==
  LET here == Read(table, info.NextCmdPtr)
  IN  IF info.NextCmdLength >= MinLength /\ info.NextCmdLength >= here.Length
      THEN {here.valid} ELSE BOOLEAN

(* The loop goes on with a command that has no delay.                      *)
GoesOn(info, table) ==
  info.Status = "EXECUTING" /\ Read(table, info.NextCmdPtr).Delay = 0

-----------------------------------------------------------------------------
(* SC_RTS_Register on a clean RTSInfo: every file rts_<n>*.tbl with a      *)
(* number in range registers a table; if its file can be loaded, the RTS   *)
(* is idle and enabled.                                                    *)
Registered(dir) == {r \in Rts : dir[r] # Absent}
Loaded(dir)     == {r \in Rts : dir[r] \notin {Absent, Broken}}

TablesOf(dir) == [r \in Rts |-> IF r \in Loaded(dir) THEN dir[r] ELSE NoTable]

InfoOf(dir) ==
  [r \in Rts |->
     [Status |-> IF r \in Loaded(dir) THEN "IDLE" ELSE "UNLOADED",
      EnableState |-> IF r \in Loaded(dir) THEN "ENABLED" ELSE "DISABLED",
      NextCmdPtr |-> 0, NextCmdLength |-> 0, NextCmdNum |-> 0, NextCmdTime |-> 0,
      DisableOnFinish |-> FALSE]]

Init ==
  /\ now \in Time /\ ticked = FALSE /\ ground = 0
  /\ \E dir \in Directories :
       registered = Registered(dir) /\ active = TablesOf(dir) /\ RTSInfo = InfoOf(dir)
  /\ pending = [r \in Rts |-> NoTable]
  /\ ContinueRtsOnFailure = TRUE /\ sending = {}
  /\ NextRtsNumber = 0 /\ NextRtsTime = 0 /\ RtsExecutingStatus = {}
  /\ verdict = "none" /\ faulted = FALSE /\ leaked = FALSE
  /\ hist = [r \in Rts |-> NoRun]

(* The task waits for its next message.                                    *)
Waiting == ~faulted /\ sending = {}

(* What every ground command does besides its handler.                     *)
Ground == Waiting /\ ground < MaxGround /\ ground' = ground + 1
Ack    == verdict' = "CmdCtr"
Nak    == verdict' = "CmdErrCtr"

(* SC_RTS_Start: the delay of the first command counts from now; without   *)
(* one the first commands go out at once.  (The table was loaded when the  *)
(* RTS left UNLOADED, so CFE_TBL_GetAddress does not fail.)                *)
Start(r) ==
  LET first == Read(active[r], DelaySize)
      begun == [RTSInfo[r] EXCEPT !.Status = "EXECUTING", !.NextCmdPtr = DelaySize,
                                  !.NextCmdLength = first.Length, !.NextCmdNum = 1,
                                  !.NextCmdTime = Plus(now, first.Delay)]
      run   == [NoRun EXCEPT !.last = now, !.banned = hist[r].banned]
  IN  /\ RTSInfo' = [RTSInfo EXCEPT ![r] = begun]
      /\ hist' = [hist EXCEPT ![r] = run]
      /\ sending' = IF first.Delay = 0 THEN {r} ELSE {}

(* SC_StartRTSCmd *)
StartRTSCmd(r) ==
  /\ Ground
  /\ \/ /\ r \in Rts /\ RTSInfo[r].Status = "IDLE" /\ RTSInfo[r].EnableState = "ENABLED"
        /\ Start(r) /\ Ack
     \/ /\ r \in Rts => RTSInfo[r].Status # "IDLE" \/ RTSInfo[r].EnableState = "DISABLED"
        /\ Nak /\ UNCHANGED <<RTSInfo, hist, sending>>
  /\ UNCHANGED <<clock, tables, ContinueRtsOnFailure, report, damage>>

(* An iteration of the loop of SC_RTS_SendCommands, in the order in which  *)
(* SC_RTS_UpdateAll takes the RTSs.  A command without a buffer ends the   *)
(* RTS, or is copied to NULL; one with a bad checksum ends it too unless   *)
(* it is to continue, and keeps its buffer.                                *)
SendCommand(r) ==
  LET info     == RTSInfo[r]
      handled  == [hist[r] EXCEPT !.attempted = @ + 1, !.last = now]
      leave(i) == /\ RTSInfo' = [RTSInfo EXCEPT ![r] = i]
                  /\ hist' = [hist EXCEPT ![r] = handled]
                  /\ sending' = IF GoesOn(i, active[r]) THEN sending ELSE sending \ {r}
  IN  /\ ~faulted
      /\ r \in sending /\ \A q \in sending : r <= q
      /\ \/ /\ ContinueRtsOnFailure /\ faulted' = TRUE
            /\ UNCHANGED <<RTSInfo, hist, sending, leaked>>
         \/ /\ ~ContinueRtsOnFailure /\ leave(Stopped(info))
            /\ UNCHANGED damage
         \/ /\ info.NextCmdLength <= MaxLength
            /\ \E valid \in Checksums(info, active[r]) :
                 /\ leaked' = (leaked \/ ~valid)
                 /\ leave(IF valid \/ ContinueRtsOnFailure
                          THEN AfterCommand(info, active[r], now) ELSE Stopped(info))
            /\ UNCHANGED faulted
      /\ verdict' = "none"
      /\ UNCHANGED <<clock, ground, tables, ContinueRtsOnFailure, report>>

(* SC_StopRTSCmd *)
StopRTSCmd(r) ==
  /\ Ground
  /\ \/ /\ r \in Rts /\ Executing(r)
        /\ RTSInfo' = [RTSInfo EXCEPT ![r] = Stopped(@)] /\ Ack
     \/ /\ r \in Rts => ~Executing(r)
        /\ Nak /\ UNCHANGED RTSInfo
  /\ UNCHANGED <<clock, tables, ContinueRtsOnFailure, sending, report,
                 damage, hist>>

(* SC_DisableRTSCmd: a running RTS is disabled when it finishes.           *)
DisableRTSCmd(r) ==
  /\ Ground
  /\ \/ /\ r \in Rts /\ RTSInfo[r].Status # "UNLOADED" /\ RTSInfo[r].EnableState # "DISABLED"
        /\ RTSInfo' = IF Executing(r)
                      THEN [RTSInfo EXCEPT ![r].DisableOnFinish = TRUE]
                      ELSE [RTSInfo EXCEPT ![r].EnableState = "DISABLED"]
        /\ hist' = [hist EXCEPT ![r].banned = TRUE]
        /\ Ack
     \/ /\ r \in Rts => RTSInfo[r].Status = "UNLOADED" \/ RTSInfo[r].EnableState = "DISABLED"
        /\ Nak /\ UNCHANGED <<RTSInfo, hist>>
  /\ UNCHANGED <<clock, tables, ContinueRtsOnFailure, sending, report, damage>>

(* SC_EnableRTSCmd: also takes back a disable that is still pending.       *)
EnableRTSCmd(r) ==
  /\ Ground
  /\ \/ /\ r \in Rts /\ RTSInfo[r].Status # "UNLOADED"
        /\ RTSInfo[r].EnableState = "DISABLED" \/ RTSInfo[r].DisableOnFinish
        /\ RTSInfo' = IF RTSInfo[r].EnableState = "ENABLED"
                      THEN [RTSInfo EXCEPT ![r].DisableOnFinish = FALSE]
                      ELSE [RTSInfo EXCEPT ![r].EnableState = "ENABLED"]
        /\ hist' = [hist EXCEPT ![r].banned = FALSE]
        /\ Ack
     \/ /\ r \in Rts => \/ RTSInfo[r].Status = "UNLOADED"
                        \/ RTSInfo[r].EnableState = "ENABLED" /\ ~RTSInfo[r].DisableOnFinish
        /\ Nak /\ UNCHANGED <<RTSInfo, hist>>
  /\ UNCHANGED <<clock, tables, ContinueRtsOnFailure, sending, report, damage>>

(* SC_ContRTSOnFailCmd: anything but a boolean is refused.                 *)
ContRTSOnFailCmd(flag) ==
  /\ Ground
  /\ \/ flag \in {0, 1} /\ Ack /\ ContinueRtsOnFailure' = (flag = 1)
     \/ flag \notin {0, 1} /\ Nak /\ UNCHANGED ContinueRtsOnFailure
  /\ UNCHANGED <<clock, tables, RTSInfo, sending, report, damage, hist>>

(* Ground loads and activates a table image: it waits for CFE_TBL_Manage.  *)
LoadTable(r, image) ==
  /\ Ground
  /\ r \in registered
  /\ pending' = [pending EXCEPT ![r] = image]
  /\ verdict' = "none"
  /\ UNCHANGED <<clock, registered, active, RTSInfo, ContinueRtsOnFailure, sending,
                 report, damage, hist>>

(* The loop of SC_ReportHousekeeping over RTSs 1..i: the next command of   *)
(* all, where a reported time of 0 counts as none found yet.               *)
(* Fault: the first candidate has to come before time 0.                   *)
SoonerThanZero(next, r) ==
  IF Executing(r) /\ After(next.time, RTSInfo[r].NextCmdTime)
  THEN [number |-> r, time |-> RTSInfo[r].NextCmdTime]
  ELSE next

Sooner(next, r) ==
  IF Executing(r) /\ (After(next.time, RTSInfo[r].NextCmdTime) \/ next.time = 0)
  THEN [number |-> r, time |-> RTSInfo[r].NextCmdTime]
  ELSE next

NextRts[i \in 0..NumRts] ==
  IF i = 0 THEN [number |-> 0, time |-> 0] ELSE Sooner(NextRts[i - 1], i)

(* SC_ReportHousekeeping: applies pending loads, to a running RTS as well, *)
(* and collects the status of all RTSs.                                    *)
ReportHousekeeping ==
  /\ Waiting
  /\ active' = [r \in Rts |-> IF pending[r] = NoTable THEN active[r] ELSE pending[r]]
  /\ pending' = [r \in Rts |-> NoTable]
  /\ hist' = [r \in Rts |-> [hist[r] EXCEPT !.swapped = @ \/ pending[r] # NoTable]]
  /\ RtsExecutingStatus' = {r \in Rts : Executing(r)}
  /\ NextRtsNumber' = NextRts[NumRts].number
  /\ NextRtsTime' = NextRts[NumRts].time
  /\ verdict' = "none"
  /\ UNCHANGED <<clock, ground, registered, RTSInfo, ContinueRtsOnFailure, sending,
                 damage>>

(* Fault: a next time of 0 is taken for none.                              *)
DueUnlessZero == {r \in Rts : /\ Executing(r) /\ RTSInfo[r].NextCmdTime # 0
                              /\ ~After(RTSInfo[r].NextCmdTime, now)}

(* SC_RTS_UpdateAll: an executing RTS whose next time is not after now.    *)
Due == {r \in Rts : Executing(r) /\ ~After(RTSInfo[r].NextCmdTime, now)}

(* The 10 Hz tick: SC_RTS_UpdateAll as SC_RunSequences calls it.           *)
Tick ==
  /\ Waiting
  /\ ticked' = TRUE /\ sending' = Due
  /\ verdict' = "none"
  /\ UNCHANGED <<now, ground, tables, RTSInfo, ContinueRtsOnFailure, report, damage,
                 hist>>

(* Time goes on after SC has handled the tick.                             *)
Advance ==
  /\ Waiting /\ ticked
  /\ now' = (now + 1) % TimeMod
  /\ ticked' = FALSE
  /\ verdict' = "none"
  /\ UNCHANGED <<ground, tables, RTSInfo, ContinueRtsOnFailure, sending, report,
                 damage, hist>>

(* Spacecraft time is set, or SC misses ticks.                             *)
StepClock(t) ==
  /\ Ground
  /\ t # now /\ now' = t
  /\ ticked' = FALSE
  /\ hist' = [r \in Rts |-> [hist[r] EXCEPT !.stepped = TRUE]]
  /\ verdict' = "none"
  /\ UNCHANGED <<tables, RTSInfo, ContinueRtsOnFailure, sending, report,
                 damage>>

(* The app starts over, ordered by HS or ground, or because it faulted:    *)
(* SC_Init with a clean data segment reads the directory again.            *)
Restart ==
  /\ \/ ~faulted /\ ground < MaxGround /\ ground' = ground + 1
     \/ faulted /\ UNCHANGED ground
  /\ \E dir \in Directories :
       registered' = Registered(dir) /\ active' = TablesOf(dir) /\ RTSInfo' = InfoOf(dir)
  /\ pending' = [r \in Rts |-> NoTable]
  /\ ContinueRtsOnFailure' = TRUE /\ sending' = {}
  /\ NextRtsNumber' = 0 /\ NextRtsTime' = 0 /\ RtsExecutingStatus' = {}
  /\ verdict' = "none" /\ faulted' = FALSE /\ UNCHANGED leaked
  /\ hist' = [r \in Rts |-> NoRun]
  /\ UNCHANGED clock

Next ==
  \/ \E r \in 0..(NumRts + 1) :
       StartRTSCmd(r) \/ StopRTSCmd(r) \/ DisableRTSCmd(r) \/ EnableRTSCmd(r)
  \/ \E flag \in 0..2 : ContRTSOnFailCmd(flag)
  \/ \E r \in Rts, image \in RtsTables : LoadTable(r, image)
  \/ ReportHousekeeping
  \/ Tick
  \/ \E r \in Rts : SendCommand(r)
  \/ Advance
  \/ \E t \in Time : StepClock(t)
  \/ Restart

Spec == Init /\ [][Next]_vars

(* The task serves its pipe, the scheduler ticks it, time passes; nothing  *)
(* is assumed of ground.                                                   *)
FairSpec ==
  /\ Spec
  /\ WF_vars(Tick) /\ WF_vars(Advance) /\ WF_vars(\E r \in Rts : SendCommand(r))

-----------------------------------------------------------------------------
(***************************************************************************)
(* Properties                                                              *)
(***************************************************************************)

(* Every variable keeps to its type.                                       *)
FlagsOK ==
  /\ ticked \in BOOLEAN /\ ContinueRtsOnFailure \in BOOLEAN
  /\ verdict \in {"none", "CmdCtr", "CmdErrCtr"}
  /\ faulted \in BOOLEAN /\ leaked \in BOOLEAN

ReportOK ==
  /\ NextRtsNumber \in 0..NumRts /\ NextRtsTime \in Time
  /\ RtsExecutingStatus \subseteq Rts

TypeOK ==
  /\ FlagsOK
  /\ ReportOK
  /\ now \in Time /\ ground \in 0..MaxGround
  /\ registered \subseteq Rts /\ sending \subseteq Rts
  /\ active \in [Rts -> RtsTables \union {NoTable}]
  /\ pending \in [Rts -> RtsTables \union {NoTable}]
  /\ RTSInfo \in [Rts -> Info]
  /\ hist \in [Rts -> History]

(* The fields of RTSInfo agree with each other and with the table: only a  *)
(* loaded, enabled RTS executes; a disable is pending only for an RTS that *)
(* executes; one that does not has no next command left over.              *)
Sound(info, table) ==
  /\ info.Status = "EXECUTING" => info.EnableState = "ENABLED" /\ info.NextCmdNum >= 1
  /\ info.Status # "EXECUTING" => /\ info.NextCmdNum = 0 /\ info.NextCmdTime = 0
                                  /\ ~info.DisableOnFinish
  /\ info.Status = "UNLOADED" => info.EnableState = "DISABLED"
  /\ info.Status # "UNLOADED" => table # NoTable

RtsConsistent == \A r \in Rts : Sound(RTSInfo[r], active[r])

(* Whatever else happens, an RTS that ground disabled (while it ran or     *)
(* not) and did not enable again is disabled, or runs with the disable     *)
(* pending; in particular it cannot be started once it has finished.       *)
Barred(info) ==
  info.EnableState = "DISABLED" \/ (info.Status = "EXECUTING" /\ info.DisableOnFinish)

DisableHolds == \A r \in Rts : hist[r].banned => Barred(RTSInfo[r])

(* A disabled RTS does not start.                                          *)
NoStartWhenBanned ==
  [][\A r \in Rts : hist[r].banned /\ ~Executing(r) => ~Executing(r)']_vars

(* An executing RTS has attempted exactly the commands before its next     *)
(* one: none was passed over, none was handled twice.  Unless its table    *)
(* was replaced since its start, offset and length are those of that       *)
(* command in the table (for an empty table nothing is said of them).      *)
AtCommand(info, table) ==
  table.starts # << >> =>
    /\ info.NextCmdNum \in DOMAIN table.starts
    /\ info.NextCmdPtr = table.starts[info.NextCmdNum]
    /\ info.NextCmdLength = Read(table, info.NextCmdPtr).Length

CommandsInOrder ==
  \A r \in Rts : Executing(r) =>
    /\ hist[r].attempted = RTSInfo[r].NextCmdNum - 1
    /\ ~hist[r].swapped => AtCommand(RTSInfo[r], active[r])

(* The commands of an RTS keep their distance: unless its table is         *)
(* replaced while it runs, each comes no earlier than its delay after the  *)
(* one before it, and without clock steps not a tick later either.         *)
DelaysKept ==
  [][\A r \in Rts :
       /\ Executing(r) /\ ~hist[r].swapped
       /\ hist'[r].attempted > hist[r].attempted
       => LET delay   == Read(active[r], RTSInfo[r].NextCmdPtr).Delay * TicksPerSec
              elapsed == (now - hist[r].last) % TimeMod
          IN  /\ elapsed >= delay
              /\ ~hist[r].stepped => elapsed = delay]_vars

(* An RTS that finishes without failures has attempted its whole table,    *)
(* unless that was replaced while it ran.                                  *)
FinishedMeansAll ==
  [][\A r \in Rts :
       /\ Executing(r) /\ ~Executing(r)' /\ ContinueRtsOnFailure
       /\ ~hist[r].swapped /\ hist'[r].attempted > hist[r].attempted
       => hist'[r].attempted >= Len(active[r].starts)]_vars

(* sc_rts.c: "We've just sent the last command", where the loop completes  *)
(* an RTS: the command just handled is the last one of the active table.   *)
LastCommandWasSent ==
  [][\A r \in Rts :
       /\ Executing(r) /\ ~Executing(r)' /\ ContinueRtsOnFailure
       /\ hist'[r].attempted > hist[r].attempted
       => \A k \in DOMAIN active[r].starts :
            active[r].starts[k] <= RTSInfo[r].NextCmdPtr]_vars

(* Housekeeping reports which RTSs execute and, of the next commands of    *)
(* them, one that no other comes before.  That is promised for times that  *)
(* lie around now, less than half the range of the clock from each other   *)
(* (further apart, CFE_TIME_Compare is no order), none of them exactly 0,  *)
(* which SC_ReportHousekeeping takes for none.                             *)
AroundNow(t) ==
  LET quarter == TimeMod \div 4
  IN  /\ t # 0
      /\ (t - now) % TimeMod <= quarter \/ (now - t) % TimeMod < quarter

HkReportsEarliest ==
  [][ReportHousekeeping
       /\ (\A r \in Rts : Executing(r) => AroundNow(RTSInfo[r].NextCmdTime))
     => IF RtsExecutingStatus' = {}
        THEN NextRtsNumber' = 0 /\ NextRtsTime' = 0
        ELSE /\ NextRtsNumber' \in RtsExecutingStatus'
             /\ NextRtsTime' = RTSInfo[NextRtsNumber'].NextCmdTime
             /\ \A r \in RtsExecutingStatus' :
                  ~After(NextRtsTime', RTSInfo[r].NextCmdTime)]_vars

(* Every RTS that runs comes to an end, or its app faults.                 *)
RtsEnds == \A r \in Rts : Executing(r) ~> ~Executing(r) \/ faulted

(* cfe_sb.h: "Applications should be written as if CFE_SB_ZeroCopyGetPtr   *)
(* is equivalent to a malloc() and CFE_SB_ZeroCopySend is equivalent to a  *)
(* free()": no buffer is lost.                                             *)
BuffersReturned == ~leaked
=============================================================================
