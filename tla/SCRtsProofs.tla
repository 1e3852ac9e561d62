---------------------------- MODULE SCRtsProofs ----------------------------
(***************************************************************************)
(* Theorems about the RTS engine, for every number of sequences, every set *)
(* of tables and every clock range.                                        *)
(***************************************************************************)
EXTENDS SCRts, FiniteSetTheorems, WellFoundedInduction, TLAPS

(* Spacecraft time stays in range.                                         *)
LEMMA TimeWraps ==
  ASSUME NEW t \in Int  PROVE t % TimeMod \in Time
  BY RtsAssumption DEF Time

LEMMA PlusTyped ==
  ASSUME NEW t \in Time, NEW seconds \in Nat  PROVE Plus(t, seconds) \in Time
<1>1. seconds * TicksPerSec \in Int
  BY RtsAssumption
<1>2. t + seconds * TicksPerSec \in Int
  BY <1>1, RtsAssumption DEF Time
<1> QED BY <1>2, TimeWraps DEF Plus

(* A set of natural numbers that is not empty has a least member.          *)
LessThan == {ss \in Nat \X Nat : ss[1] < ss[2]}

LEMMA LeastNatural ==
  ASSUME NEW S, S \subseteq Nat, S # {}
  PROVE  \E n \in S : \A m \in S : n <= m
<1>1. IsWellFoundedOn(LessThan, Nat)
  BY NatLessThanWellFounded, Zenon DEF OpToRel, LessThan
<1>2. PICK n \in S : \A m \in S : ~(<<m, n>> \in LessThan)
  BY <1>1, WFMin
<1>3. ASSUME NEW m \in S, m < n  PROVE FALSE
  <2>1. <<m, n>> \in Nat \X Nat /\ <<m, n>>[1] < <<m, n>>[2]
    BY <1>3
  <2>2. <<m, n>> \in LessThan
    BY <2>1, Zenon DEF LessThan
  <2> QED BY <1>2, <2>2
<1> QED BY <1>3

(* What can be read of a table.                                            *)
LEMMA TableParts ==
  ASSUME NEW table \in RtsTables
  PROVE  /\ table.starts \in Seq(Nat) /\ DOMAIN table.starts = 1..Len(table.starts)
         /\ Len(table.starts) \in Nat
         /\ DOMAIN table.at \subseteq Nat
         /\ \A p \in DOMAIN table.at : table.at[p] \in RtsRow
<1>1. IsTable(table)
  BY RtsAssumption
<1>2. table.starts \in Seq(Nat) /\ table.at \in [DOMAIN table.at -> RtsRow]
      /\ DOMAIN table.at \subseteq Nat
  BY <1>1 DEF IsTable
<1> QED BY <1>2

LEMMA ReadTyped ==
  ASSUME NEW table \in RtsTables, NEW p
  PROVE  /\ Read(table, p) \in RtsRow
         /\ Read(table, p).Delay \in Nat /\ Read(table, p).Length \in Nat
<1>1. Read(table, p) \in RtsRow
  BY TableParts, RtsAssumption DEF Read, Blank, RtsRow
<1> QED BY <1>1 DEF RtsRow

-----------------------------------------------------------------------------
(***************************************************************************)
(* One RTS: what its info, table and history say of each other, and what   *)
(* sending its commands and stopping it make of that.                      *)
(***************************************************************************)
InStep(info, h) == info.Status = "EXECUTING" => h.attempted = info.NextCmdNum - 1

InPlace(info, table, h) ==
  info.Status = "EXECUTING" /\ ~h.swapped => AtCommand(info, table)

Good(info, table, h) ==
  /\ info \in Info /\ h \in History
  /\ Sound(info, table)
  /\ h.banned => Barred(info)
  /\ InStep(info, h)
  /\ InPlace(info, table, h)

(* A stopped RTS is idle, and disabled if that was pending.                *)
LEMMA StoppedGood ==
  ASSUME NEW table, table # NoTable, NEW info \in Info, NEW h \in History,
         info.Status = "EXECUTING", h.banned => Barred(info)
  PROVE  Good(Stopped(info), table, h)
<1>1. Stopped(info) \in Info
  <2> DEFINE enabled == IF info.DisableOnFinish THEN "DISABLED" ELSE info.EnableState
  <2>1. 0 \in Nat /\ 0 \in Time /\ enabled \in {"DISABLED", "ENABLED"}
    BY RtsAssumption DEF Time, Info
  <2>2. Stopped(info) = [info EXCEPT !.Status = "IDLE", !.NextCmdPtr = 0,
                           !.NextCmdLength = 0, !.NextCmdNum = 0, !.NextCmdTime = 0,
                           !.EnableState = enabled, !.DisableOnFinish = FALSE]
    BY DEF Stopped
  <2> HIDE DEF enabled
  <2>3. Stopped(info) = [Status |-> "IDLE", EnableState |-> enabled, NextCmdPtr |-> 0,
                         NextCmdLength |-> 0, NextCmdNum |-> 0, NextCmdTime |-> 0,
                         DisableOnFinish |-> FALSE]
    BY <2>2 DEF Info
  <2> QED BY <2>1, <2>3 DEF Info
<1>2. /\ Stopped(info).Status = "IDLE" /\ Stopped(info).NextCmdNum = 0
      /\ Stopped(info).NextCmdTime = 0 /\ Stopped(info).DisableOnFinish = FALSE
      /\ info.DisableOnFinish => Stopped(info).EnableState = "DISABLED"
      /\ ~info.DisableOnFinish => Stopped(info).EnableState = info.EnableState
  BY DEF Stopped, Info
<1> QED BY <1>1, <1>2 DEF Good, Sound, Barred, InStep, InPlace

(* What lies behind a command of a table is the next command, or the end.  *)
LEMMA NextInPlace ==
  ASSUME NEW table \in RtsTables, NEW info \in Info, AtCommand(info, table),
         table.starts # << >>,
         info.NextCmdPtr + info.NextCmdLength + DelaySize \in DOMAIN table.at
  PROVE  /\ info.NextCmdNum + 1 \in DOMAIN table.starts
         /\ table.starts[info.NextCmdNum + 1]
              = info.NextCmdPtr + info.NextCmdLength + DelaySize
<1> DEFINE k == info.NextCmdNum
<1>1. /\ k \in DOMAIN table.starts /\ info.NextCmdPtr = table.starts[k]
      /\ info.NextCmdLength = Read(table, table.starts[k]).Length
  BY DEF AtCommand
<1>2. /\ table.starts[k] \in DOMAIN table.at
      /\ IF k < Len(table.starts) THEN table.starts[k + 1] = Behind(table, table.starts[k])
         ELSE Behind(table, table.starts[k]) \notin DOMAIN table.at
  BY <1>1, RtsAssumption DEF IsTable
<1>3. Behind(table, table.starts[k]) = info.NextCmdPtr + info.NextCmdLength + DelaySize
  BY <1>1, <1>2 DEF Behind, Read
<1>4. k < Len(table.starts) /\ k \in 1..Len(table.starts) /\ Len(table.starts) \in Nat
  BY <1>1, <1>2, <1>3, TableParts
<1> QED BY <1>2, <1>3, <1>4, TableParts

(* A command of an RTS handled: it waits for the next one, or stops.       *)
Handled(h, t) == [h EXCEPT !.attempted = @ + 1, !.last = t]

LEMMA HandledTyped ==
  ASSUME NEW h \in History, NEW t \in Time
  PROVE  /\ Handled(h, t) \in History /\ Handled(h, t).attempted = h.attempted + 1
         /\ Handled(h, t).last = t /\ Handled(h, t).banned = h.banned
         /\ Handled(h, t).swapped = h.swapped /\ Handled(h, t).stepped = h.stepped
<1> DEFINE n == h.attempted + 1
<1>1. n \in Nat /\ Handled(h, t) = [h EXCEPT !.attempted = n, !.last = t]
  BY DEF Handled, History
<1> HIDE DEF n
<1>2. /\ Handled(h, t) \in History /\ Handled(h, t).attempted = n
      /\ Handled(h, t).last = t /\ Handled(h, t).banned = h.banned
      /\ Handled(h, t).swapped = h.swapped /\ Handled(h, t).stepped = h.stepped
  BY <1>1 DEF History
<1> QED BY <1>2 DEF n

LEMMA NextCommand ==
  ASSUME NEW table \in RtsTables, NEW info \in Info, NEW t \in Time,
         AfterCommand(info, table, t) # Stopped(info)
  PROVE  LET p    == info.NextCmdPtr + info.NextCmdLength + DelaySize
             next == AfterCommand(info, table, t)
         IN  /\ p \in DOMAIN table.at
             /\ next \in Info /\ next.Status = info.Status
             /\ next.EnableState = info.EnableState
             /\ next.DisableOnFinish = info.DisableOnFinish
             /\ next.NextCmdPtr = p /\ next.NextCmdLength = Read(table, p).Length
             /\ next.NextCmdNum = info.NextCmdNum + 1
             /\ next.NextCmdTime = Plus(t, Read(table, p).Delay)
<1> DEFINE p    == info.NextCmdPtr + info.NextCmdLength + DelaySize
           len  == Read(table, p).Length
           due  == Plus(t, Read(table, p).Delay)
           num  == info.NextCmdNum + 1
           next == [info EXCEPT !.NextCmdPtr = p, !.NextCmdLength = len,
                                !.NextCmdNum = num, !.NextCmdTime = due]
<1>1. p \in DOMAIN table.at /\ AfterCommand(info, table, t) = next
  BY DEF AfterCommand
<1>2. p \in Nat /\ len \in Nat /\ due \in Time /\ num \in Nat
  BY <1>1, TableParts, ReadTyped, PlusTyped DEF Info
<1> HIDE DEF p, len, due, num
<1>3. /\ next \in Info /\ next.Status = info.Status /\ next.EnableState = info.EnableState
      /\ next.DisableOnFinish = info.DisableOnFinish /\ next.NextCmdPtr = p
      /\ next.NextCmdLength = len /\ next.NextCmdNum = num
      /\ next.NextCmdTime = due
  BY <1>2 DEF Info
<1> HIDE DEF next
<1> QED BY <1>1, <1>3 DEF p, len, due, num

LEMMA HandledGood ==
  ASSUME NEW table \in RtsTables, NEW info, NEW h, NEW t \in Time, NEW next,
         Good(info, table, h), info.Status = "EXECUTING",
         next = Stopped(info) \/ next = AfterCommand(info, table, t)
  PROVE  Good(next, table, Handled(h, t))
<1> DEFINE h2 == Handled(h, t)
<1>1. info \in Info /\ h \in History /\ table # NoTable
  BY RtsAssumption DEF Good
<1>2. /\ h2 \in History /\ h2.attempted = h.attempted + 1 /\ h2.banned = h.banned
      /\ h2.swapped = h.swapped
  BY <1>1, HandledTyped
<1>3. h2.banned => Barred(info)
  BY <1>2 DEF Good
<1> HIDE DEF h2
<1>4. CASE next = Stopped(info)
  BY <1>1, <1>2, <1>3, <1>4, StoppedGood DEF h2
<1>5. CASE next # Stopped(info) /\ next = AfterCommand(info, table, t)
  <2> DEFINE p == info.NextCmdPtr + info.NextCmdLength + DelaySize
  <2>1. /\ p \in DOMAIN table.at
        /\ next \in Info /\ next.Status = "EXECUTING"
        /\ next.EnableState = info.EnableState
        /\ next.DisableOnFinish = info.DisableOnFinish
        /\ next.NextCmdPtr = p /\ next.NextCmdLength = Read(table, p).Length
        /\ next.NextCmdNum = info.NextCmdNum + 1
    BY <1>1, <1>5, NextCommand
  <2>2. info.NextCmdNum \in Nat /\ info.NextCmdNum >= 1
    BY <1>1 DEF Good, Info, Sound
  <2>3. Sound(next, table)
    BY <1>1, <2>1, <2>2 DEF Good, Sound
  <2>4. h2.banned => Barred(next)
    BY <1>3, <2>1 DEF Barred
  <2>5. InStep(next, h2)
    <3>1. h.attempted = info.NextCmdNum - 1
      BY DEF Good, InStep
    <3> QED BY <1>2, <2>1, <2>2, <3>1 DEF InStep
  <2>6. InPlace(next, table, h2)
    <3> SUFFICES ASSUME ~h.swapped, table.starts # << >>
                 PROVE  /\ next.NextCmdNum \in DOMAIN table.starts
                        /\ next.NextCmdPtr = table.starts[next.NextCmdNum]
      BY <1>2, <2>1 DEF InPlace, AtCommand
    <3>1. AtCommand(info, table)
      BY DEF Good, InPlace
    <3> QED BY <1>1, <2>1, <3>1, NextInPlace
  <2> QED BY <1>2, <2>1, <2>3, <2>4, <2>5, <2>6 DEF Good, h2
<1> QED BY <1>4, <1>5

-----------------------------------------------------------------------------
(***************************************************************************)
(* What SC_ReportHousekeeping reports is defined by recursion on the       *)
(* number of the RTS; that the recursion defines a function, and which     *)
(* values it takes, follows from the least number where it would fail.     *)
(***************************************************************************)
None == [number |-> 0, time |-> 0]

Follows(g, k) == g = [i \in 0..k |-> IF i = 0 THEN None ELSE Sooner(g[i - 1], i)]

LEMMA RecursionWorks ==
  ASSUME NEW k \in Nat  PROVE \E g : Follows(g, k)
<1> DEFINE bad == {m \in Nat : ~ \E g : Follows(g, m)}
<1>1. SUFFICES ASSUME bad # {}  PROVE FALSE
  OBVIOUS
<1>2. PICK m \in bad : \A j \in bad : m <= j
  BY <1>1, LeastNatural
<1>3. CASE m = 0
  <2> DEFINE g == [i \in 0..m |-> None]
  <2>1. \A i \in 0..m : i = 0
    BY <1>3
  <2>2. Follows(g, m)
    BY <2>1 DEF Follows
  <2> QED BY <2>2
<1>4. CASE m # 0
  <2>1. m - 1 \in Nat /\ m - 1 \notin bad
    BY <1>2, <1>4
  <2>2. PICK g : Follows(g, m - 1)
    BY <2>1
  <2> DEFINE next == [i \in 0..m |-> IF i = m THEN Sooner(g[m - 1], m) ELSE g[i]]
  <2>3. ASSUME NEW i \in 0..m
        PROVE  next[i] = IF i = 0 THEN None ELSE Sooner(next[i - 1], i)
    <3>1. CASE i = 0
      BY <1>4, <2>1, <2>2, <3>1 DEF Follows
    <3>2. CASE i # 0 /\ i # m
      <4>1. i \in 0..(m - 1) /\ i - 1 \in 0..m /\ i - 1 # m
        BY <3>2
      <4>2. g[i] = Sooner(g[i - 1], i)
        BY <2>2, <3>2, <4>1 DEF Follows
      <4>3. next[i] = g[i] /\ next[i - 1] = g[i - 1]
        BY <3>2, <4>1
      <4> QED BY <3>2, <4>2, <4>3
    <3>3. CASE i # 0 /\ i = m
      <4>1. m - 1 \in 0..m /\ m - 1 # m
        BY <2>1
      <4>2. next[m] = Sooner(g[m - 1], m) /\ next[m - 1] = g[m - 1]
        BY <3>3, <4>1
      <4> QED BY <3>3, <4>2
    <3> QED BY <3>1, <3>2, <3>3
  <2>4. DOMAIN next = 0..m
    OBVIOUS
  <2>5. next = [i \in 0..m |-> next[i]]
    OBVIOUS
  <2> HIDE DEF next
  <2>6. Follows(next, m)
    BY <2>3, <2>5 DEF Follows
  <2> QED BY <2>6
<1> QED BY <1>3, <1>4

LEMMA NextRtsUnfolds ==
  /\ NextRts[0] = None
  /\ \A i \in 1..NumRts : NextRts[i] = Sooner(NextRts[i - 1], i)
<1>1. NumRts \in Nat
  BY RtsAssumption
<1>2. Follows(NextRts, NumRts)
  BY <1>1, RecursionWorks DEF NextRts, Follows, None
<1> QED BY <1>1, <1>2 DEF Follows

(* The report names an RTS and gives a time.                               *)
LEMMA NextRtsTyped ==
  ASSUME RTSInfo \in [Rts -> Info]
  PROVE  NextRts[NumRts] \in [number : 0..NumRts, time : Time]
<1> DEFINE Kind == [number : 0..NumRts, time : Time]
           bad  == {i \in 0..NumRts : NextRts[i] \notin Kind}
<1>1. NumRts \in Nat /\ 0 \in Time /\ None \in Kind
  BY RtsAssumption DEF None, Time
<1>2. SUFFICES ASSUME bad # {}  PROVE FALSE
  BY <1>1
<1>3. PICK i \in bad : \A j \in bad : i <= j
  <2>1. bad \subseteq Nat
    BY <1>1
  <2> HIDE DEF bad
  <2> QED BY <1>2, <2>1, LeastNatural
<1>4. i # 0
  BY <1>1, <1>3, NextRtsUnfolds
<1>5. i - 1 \in 0..NumRts /\ i - 1 \notin bad /\ i \in 1..NumRts
  BY <1>1, <1>3, <1>4
<1>6. Sooner(NextRts[i - 1], i) \in Kind
  BY <1>5 DEF Sooner, Rts, Info
<1> QED BY <1>3, <1>5, <1>6, NextRtsUnfolds

-----------------------------------------------------------------------------
(***************************************************************************)
(* The inductive invariant: types, and each RTS good.  The types alone are *)
(* not inductive: that the table of an RTS that executes is there to be    *)
(* read follows only from RtsConsistent.                                   *)
(***************************************************************************)
AllGood == \A r \in Rts : Good(RTSInfo[r], active[r], hist[r])

(* Whoever has commands to send in this tick is due.                       *)
IInv == TypeOK /\ AllGood /\ sending \subseteq Due

(* The tables that can be active.                                          *)
LEMMA LoadedTable ==
  ASSUME TypeOK, NEW r \in Rts, Sound(RTSInfo[r], active[r]),
         RTSInfo[r].Status # "UNLOADED"
  PROVE  active[r] \in RtsTables /\ active[r] # NoTable
  BY DEF TypeOK, Sound

(* Changing one RTS, and leaving it good, keeps the invariant.             *)
LEMMA OneChanged ==
  ASSUME TypeOK, AllGood, NEW r \in Rts, NEW info, NEW h,
         Good(info, active[r], h),
         RTSInfo' = [RTSInfo EXCEPT ![r] = info],
         hist' = [hist EXCEPT ![r] = h],
         UNCHANGED active
  PROVE  /\ AllGood'
         /\ RTSInfo' \in [Rts -> Info] /\ hist' \in [Rts -> History]
<1>1. info \in Info /\ h \in History
  BY DEF Good
<1>2. RTSInfo' \in [Rts -> Info] /\ hist' \in [Rts -> History]
  BY <1>1 DEF TypeOK
<1>3. ASSUME NEW q \in Rts  PROVE Good(RTSInfo'[q], active'[q], hist'[q])
  BY <1>3 DEF TypeOK, AllGood
<1> QED BY <1>2, <1>3 DEF AllGood

LEMMA NoneChanged ==
  ASSUME TypeOK, AllGood, UNCHANGED <<RTSInfo, hist, active>>
  PROVE  /\ AllGood'
         /\ RTSInfo' \in [Rts -> Info] /\ hist' \in [Rts -> History]
  BY DEF TypeOK, AllGood

(* A clean start leaves every RTS good.                                    *)
LEMMA StartedGood ==
  ASSUME NEW dir \in Directories, NEW h, h = NoRun, NEW r \in Rts
  PROVE  Good(InfoOf(dir)[r], TablesOf(dir)[r], h)
<1>1. 0 \in Nat /\ 0 \in Time
  BY RtsAssumption DEF Time
<1>2. h \in History /\ h.banned = FALSE
  BY <1>1 DEF NoRun, History
<1>3. CASE r \in Loaded(dir)
  <2>1. InfoOf(dir)[r] = [Status |-> "IDLE", EnableState |-> "ENABLED", NextCmdNum |-> 0,
                          NextCmdPtr |-> 0, NextCmdLength |-> 0, NextCmdTime |-> 0,
                          DisableOnFinish |-> FALSE]
    BY <1>3 DEF InfoOf
  <2>2. TablesOf(dir)[r] # NoTable
    BY <1>3, RtsAssumption DEF TablesOf, Loaded
  <2>3. InfoOf(dir)[r] \in Info
    BY <1>1, <2>1 DEF Info
  <2> QED BY <1>2, <2>1, <2>2, <2>3 DEF Good, Sound, InStep, InPlace
<1>4. CASE r \notin Loaded(dir)
  <2>1. InfoOf(dir)[r] = [Status |-> "UNLOADED", EnableState |-> "DISABLED", NextCmdNum |-> 0,
                          NextCmdPtr |-> 0, NextCmdLength |-> 0, NextCmdTime |-> 0,
                          DisableOnFinish |-> FALSE]
    BY <1>4 DEF InfoOf
  <2>2. InfoOf(dir)[r] \in Info
    BY <1>1, <2>1 DEF Info
  <2> QED BY <1>2, <2>1, <2>2 DEF Good, Sound, InStep, InPlace
<1> QED BY <1>3, <1>4

LEMMA TablesTyped ==
  ASSUME NEW dir \in Directories
  PROVE  TablesOf(dir) \in [Rts -> RtsTables \union {NoTable}]
  BY RtsAssumption DEF TablesOf, Loaded

-----------------------------------------------------------------------------
(* The handlers, one lemma each: what they make of AllGood.                *)
Kept == AllGood' /\ RTSInfo' \in [Rts -> Info] /\ hist' \in [Rts -> History]

LEMMA StartKeeps ==
  ASSUME TypeOK, AllGood, NEW r \in Rts, Start(r), UNCHANGED active,
         RTSInfo[r].Status = "IDLE", RTSInfo[r].EnableState = "ENABLED"
  PROVE  Kept
<1> DEFINE table == active[r]
           first == Read(table, DelaySize)
           begun == [RTSInfo[r] EXCEPT !.Status = "EXECUTING", !.NextCmdPtr = DelaySize,
                                       !.NextCmdLength = first.Length, !.NextCmdNum = 1,
                                       !.NextCmdTime = Plus(now, first.Delay)]
           run   == [NoRun EXCEPT !.last = now, !.banned = hist[r].banned]
<1>1. /\ Good(RTSInfo[r], table, hist[r]) /\ RTSInfo[r] \in Info /\ hist[r] \in History
      /\ now \in Time
  BY DEF AllGood, TypeOK
<1>2. table \in RtsTables /\ table # NoTable
  BY <1>1, LoadedTable DEF Good
<1>3. /\ begun \in Info /\ begun.Status = "EXECUTING" /\ begun.NextCmdNum = 1
      /\ begun.EnableState = "ENABLED" /\ begun.NextCmdPtr = DelaySize
      /\ begun.NextCmdLength = first.Length
  <2> DEFINE due == Plus(now, first.Delay)
             len == first.Length
  <2>1. due \in Time /\ len \in Nat /\ 1 \in Nat /\ DelaySize \in Nat
    BY <1>1, <1>2, ReadTyped, PlusTyped, RtsAssumption
  <2>2. begun = [RTSInfo[r] EXCEPT !.Status = "EXECUTING", !.NextCmdPtr = DelaySize,
                   !.NextCmdLength = len, !.NextCmdNum = 1, !.NextCmdTime = due]
    OBVIOUS
  <2> HIDE DEF due, len, begun
  <2>3. /\ begun \in Info /\ begun.Status = "EXECUTING" /\ begun.NextCmdNum = 1
        /\ begun.EnableState = "ENABLED" /\ begun.NextCmdPtr = DelaySize
        /\ begun.NextCmdLength = len
    BY <1>1, <2>1, <2>2 DEF Info
  <2> QED BY <2>3 DEF len
<1>4. run \in History /\ run.attempted = 0 /\ run.banned = FALSE
  <2>1. hist[r].banned = FALSE
    BY <1>1 DEF Good, Barred, History
  <2> QED BY <1>1, <2>1 DEF NoRun, History
<1>5. RTSInfo' = [RTSInfo EXCEPT ![r] = begun] /\ hist' = [hist EXCEPT ![r] = run]
  BY DEF Start
<1> HIDE DEF begun, run
<1>6. InPlace(begun, table, run)
  <2>1. table.starts # << >> => 1 \in DOMAIN table.starts /\ table.starts[1] = DelaySize
    BY <1>2, TableParts, RtsAssumption DEF IsTable
  <2> QED BY <1>3, <2>1 DEF InPlace, AtCommand
<1>7. Good(begun, table, run)
  BY <1>2, <1>3, <1>4, <1>6 DEF Good, Sound, InStep
<1> QED BY <1>5, <1>7, OneChanged DEF Kept

LEMMA StopKeeps ==
  ASSUME TypeOK, AllGood, NEW r \in Rts, Executing(r), UNCHANGED <<active, hist>>,
         RTSInfo' = [RTSInfo EXCEPT ![r] = Stopped(@)]
  PROVE  Kept
<1>1. Good(RTSInfo[r], active[r], hist[r]) /\ RTSInfo[r].Status = "EXECUTING"
  BY DEF AllGood, Executing
<1>2. active[r] # NoTable
  BY <1>1, LoadedTable DEF Good
<1>3. Good(Stopped(RTSInfo[r]), active[r], hist[r])
  BY <1>1, <1>2, StoppedGood DEF Good
<1>4. hist' = [hist EXCEPT ![r] = hist[r]]
  BY DEF TypeOK
<1>5. RTSInfo' = [RTSInfo EXCEPT ![r] = Stopped(RTSInfo[r])]
  OBVIOUS
<1> QED BY <1>3, <1>4, <1>5, OneChanged DEF Kept

(* A disable that has to wait, and one that has not.                       *)
LEMMA DisableKeeps ==
  ASSUME TypeOK, AllGood, NEW r \in Rts, UNCHANGED active,
         RTSInfo[r].Status # "UNLOADED",
         RTSInfo' = IF Executing(r)
                    THEN [RTSInfo EXCEPT ![r].DisableOnFinish = TRUE]
                    ELSE [RTSInfo EXCEPT ![r].EnableState = "DISABLED"],
         hist' = [hist EXCEPT ![r].banned = TRUE]
  PROVE  Kept
<1> DEFINE h == [hist[r] EXCEPT !.banned = TRUE]
           waiting  == [RTSInfo[r] EXCEPT !.DisableOnFinish = TRUE]
           disabled == [RTSInfo[r] EXCEPT !.EnableState = "DISABLED"]
<1>1. Good(RTSInfo[r], active[r], hist[r]) /\ hist[r] \in History /\ RTSInfo[r] \in Info
  BY DEF AllGood, TypeOK
<1>2. /\ h \in History /\ h.attempted = hist[r].attempted
      /\ h.swapped = hist[r].swapped
      /\ hist' = [hist EXCEPT ![r] = h]
  BY <1>1 DEF History
<1>3. CASE Executing(r)
  <2>1. /\ waiting \in Info /\ waiting.DisableOnFinish = TRUE
        /\ waiting.Status = "EXECUTING" /\ waiting.EnableState = RTSInfo[r].EnableState
        /\ waiting.NextCmdNum = RTSInfo[r].NextCmdNum
        /\ waiting.NextCmdPtr = RTSInfo[r].NextCmdPtr
        /\ waiting.NextCmdLength = RTSInfo[r].NextCmdLength
    BY <1>1, <1>3 DEF Info, Executing
  <2>2. RTSInfo' = [RTSInfo EXCEPT ![r] = waiting]
    BY <1>3
  <2> HIDE DEF waiting, h
  <2>3. Good(waiting, active[r], h)
    <3>1. InPlace(waiting, active[r], h)
      BY <1>1, <1>2, <1>3, <2>1 DEF Good, InPlace, AtCommand, Executing
    <3> QED BY <1>1, <1>2, <1>3, <2>1, <3>1 DEF Good, Sound, Barred, InStep, Executing
  <2> QED BY <1>2, <2>2, <2>3, OneChanged DEF Kept
<1>4. CASE ~Executing(r)
  <2>1. /\ disabled \in Info /\ disabled.EnableState = "DISABLED"
        /\ disabled.Status = RTSInfo[r].Status /\ disabled.Status # "EXECUTING"
        /\ disabled.NextCmdNum = RTSInfo[r].NextCmdNum
        /\ disabled.NextCmdTime = RTSInfo[r].NextCmdTime
        /\ disabled.DisableOnFinish = RTSInfo[r].DisableOnFinish
    BY <1>1, <1>4 DEF Info, Executing
  <2>2. RTSInfo' = [RTSInfo EXCEPT ![r] = disabled]
    BY <1>4
  <2> HIDE DEF disabled, h
  <2>3. Good(disabled, active[r], h)
    BY <1>1, <1>2, <1>4, <2>1 DEF Good, Sound, Barred, InStep, InPlace, Executing
  <2> QED BY <1>2, <2>2, <2>3, OneChanged DEF Kept
<1> QED BY <1>3, <1>4

LEMMA EnableKeeps ==
  ASSUME TypeOK, AllGood, NEW r \in Rts, UNCHANGED active,
         RTSInfo[r].Status # "UNLOADED",
         RTSInfo' = IF RTSInfo[r].EnableState = "ENABLED"
                    THEN [RTSInfo EXCEPT ![r].DisableOnFinish = FALSE]
                    ELSE [RTSInfo EXCEPT ![r].EnableState = "ENABLED"],
         hist' = [hist EXCEPT ![r].banned = FALSE]
  PROVE  Kept
<1> DEFINE h == [hist[r] EXCEPT !.banned = FALSE]
           kept == [RTSInfo[r] EXCEPT !.DisableOnFinish = FALSE]
           enabled == [RTSInfo[r] EXCEPT !.EnableState = "ENABLED"]
<1>1. Good(RTSInfo[r], active[r], hist[r]) /\ hist[r] \in History /\ RTSInfo[r] \in Info
  BY DEF AllGood, TypeOK
<1>2. /\ h \in History /\ h.attempted = hist[r].attempted /\ h.banned = FALSE
      /\ h.swapped = hist[r].swapped /\ hist' = [hist EXCEPT ![r] = h]
  BY <1>1 DEF History
<1>3. CASE RTSInfo[r].EnableState = "ENABLED"
  <2>1. /\ kept \in Info /\ kept.DisableOnFinish = FALSE
        /\ kept.Status = RTSInfo[r].Status /\ kept.EnableState = "ENABLED"
        /\ kept.NextCmdNum = RTSInfo[r].NextCmdNum
        /\ kept.NextCmdPtr = RTSInfo[r].NextCmdPtr
        /\ kept.NextCmdLength = RTSInfo[r].NextCmdLength
        /\ kept.NextCmdTime = RTSInfo[r].NextCmdTime
    BY <1>1, <1>3 DEF Info
  <2>2. RTSInfo' = [RTSInfo EXCEPT ![r] = kept]
    BY <1>3
  <2> HIDE DEF kept, h
  <2>3. Good(kept, active[r], h)
    BY <1>1, <1>2, <2>1 DEF Good, Sound, InStep, InPlace, AtCommand
  <2> QED BY <1>2, <2>2, <2>3, OneChanged DEF Kept
<1>4. CASE RTSInfo[r].EnableState # "ENABLED"
  <2>1. /\ enabled \in Info /\ enabled.EnableState = "ENABLED"
        /\ enabled.Status = RTSInfo[r].Status
        /\ enabled.NextCmdNum = RTSInfo[r].NextCmdNum
        /\ enabled.NextCmdPtr = RTSInfo[r].NextCmdPtr
        /\ enabled.NextCmdLength = RTSInfo[r].NextCmdLength
        /\ enabled.NextCmdTime = RTSInfo[r].NextCmdTime
        /\ enabled.DisableOnFinish = RTSInfo[r].DisableOnFinish
    BY <1>1 DEF Info
  <2>2. RTSInfo' = [RTSInfo EXCEPT ![r] = enabled]
    BY <1>4
  <2> HIDE DEF enabled, h
  <2>3. Good(enabled, active[r], h)
    BY <1>1, <1>2, <2>1 DEF Good, Sound, InStep, InPlace, AtCommand
  <2> QED BY <1>2, <2>2, <2>3, OneChanged DEF Kept
<1> QED BY <1>3, <1>4

(* One iteration of the send loop, by how it can go.                       *)
LEMMA SendCases ==
  ASSUME NEW r \in Rts, SendCommand(r)
  PROVE  \/ UNCHANGED <<RTSInfo, hist, sending>>
         \/ \E next :
              /\ next = Stopped(RTSInfo[r]) \/ next = AfterCommand(RTSInfo[r], active[r], now)
              /\ next = AfterCommand(RTSInfo[r], active[r], now) \/ ~ContinueRtsOnFailure
              /\ RTSInfo' = [RTSInfo EXCEPT ![r] = next]
              /\ hist' = [hist EXCEPT ![r] = Handled(hist[r], now)]
              /\ sending' = IF GoesOn(next, active[r]) THEN sending ELSE sending \ {r}
  BY DEF SendCommand, Handled

LEMMA SendKeeps ==
  ASSUME IInv, NEW r \in Rts, SendCommand(r)  PROVE Kept
<1>1. /\ UNCHANGED active /\ now \in Time /\ RTSInfo[r].Status = "EXECUTING"
      /\ Good(RTSInfo[r], active[r], hist[r]) /\ TypeOK /\ AllGood
  BY DEF SendCommand, tables, IInv, TypeOK, AllGood, Due, Executing
<1>2. active[r] \in RtsTables
  BY <1>1, LoadedTable DEF Good
<1>3. CASE UNCHANGED <<RTSInfo, hist>>
  BY <1>1, <1>3, NoneChanged DEF Kept
<1>4. ASSUME NEW next,
             next = Stopped(RTSInfo[r]) \/ next = AfterCommand(RTSInfo[r], active[r], now),
             RTSInfo' = [RTSInfo EXCEPT ![r] = next],
             hist' = [hist EXCEPT ![r] = Handled(hist[r], now)]
      PROVE  Kept
  <2>1. Good(next, active[r], Handled(hist[r], now))
    BY <1>1, <1>2, <1>4, HandledGood
  <2> QED BY <1>1, <1>4, <2>1, OneChanged DEF Kept
<1> QED BY <1>3, <1>4, SendCases

(* A new table for an RTS is a table.                                      *)
LEMMA HousekeepingKeeps ==
  ASSUME TypeOK, AllGood, ReportHousekeeping  PROVE Kept
<1>1. ASSUME NEW r \in Rts  PROVE Good(RTSInfo'[r], active'[r], hist'[r])
  <2>1. Good(RTSInfo[r], active[r], hist[r]) /\ hist[r] \in History
    BY DEF AllGood, TypeOK
  <2>2. /\ active[r] # NoTable => active'[r] # NoTable
        /\ ~hist'[r].swapped => active'[r] = active[r] /\ ~hist[r].swapped
    BY <2>1 DEF ReportHousekeeping, History
  <2>3. RTSInfo'[r] = RTSInfo[r]
    BY DEF ReportHousekeeping
  <2>4. /\ hist'[r] \in History /\ hist'[r].attempted = hist[r].attempted
        /\ hist'[r].banned = hist[r].banned
    BY <2>1 DEF ReportHousekeeping, History
  <2> QED BY <2>1, <2>2, <2>3, <2>4 DEF Good, Sound, InStep, InPlace
<1>2. \A r \in Rts : hist'[r] \in History
  BY <1>1 DEF Good
<1>3. hist' = [r \in Rts |-> hist'[r]]
  BY DEF ReportHousekeeping
<1>4. RTSInfo' \in [Rts -> Info]
  BY DEF ReportHousekeeping, TypeOK
<1>5. hist' \in [Rts -> History]
  BY <1>2, <1>3
<1> QED BY <1>1, <1>4, <1>5 DEF Kept, AllGood

(* A clock step touches the histories only.                                *)
LEMMA StepClockKeeps ==
  ASSUME TypeOK, AllGood, NEW t \in Time, StepClock(t)  PROVE Kept
<1>1. ASSUME NEW r \in Rts  PROVE Good(RTSInfo'[r], active'[r], hist'[r])
  <2>1. Good(RTSInfo[r], active[r], hist[r]) /\ hist[r] \in History
    BY DEF AllGood, TypeOK
  <2>2. RTSInfo' = RTSInfo /\ active' = active
    BY DEF StepClock, tables
  <2>3. /\ hist'[r] \in History /\ hist'[r].attempted = hist[r].attempted
        /\ hist'[r].banned = hist[r].banned /\ hist'[r].swapped = hist[r].swapped
    BY <2>1 DEF StepClock, History
  <2> QED BY <2>1, <2>2, <2>3 DEF Good, InStep, InPlace
<1>2. \A r \in Rts : hist'[r] \in History
  BY <1>1 DEF Good
<1>3. hist' = [r \in Rts |-> hist'[r]]
  BY DEF StepClock
<1>4. RTSInfo' \in [Rts -> Info]
  BY DEF StepClock, TypeOK
<1>5. hist' \in [Rts -> History]
  BY <1>2, <1>3
<1> QED BY <1>1, <1>4, <1>5 DEF Kept, AllGood

(* The initial state and a restart are good.                               *)
LEMMA InitGood ==
  ASSUME Init  PROVE IInv
<1>1. PICK dir \in Directories :
        registered = Registered(dir) /\ active = TablesOf(dir) /\ RTSInfo = InfoOf(dir)
  BY DEF Init
<1>2. \A r \in Rts : Good(RTSInfo[r], active[r], hist[r])
  BY <1>1, StartedGood DEF Init
<1>3. RTSInfo \in [Rts -> Info] /\ hist \in [Rts -> History]
  <2>1. RTSInfo = [r \in Rts |-> RTSInfo[r]] /\ hist = [r \in Rts |-> hist[r]]
    BY <1>1 DEF Init, InfoOf
  <2> QED BY <1>2, <2>1 DEF Good
<1>4. /\ active \in [Rts -> RtsTables \union {NoTable}]
      /\ pending \in [Rts -> RtsTables \union {NoTable}]
  BY <1>1, TablesTyped DEF Init
<1>5. registered \subseteq Rts
  BY <1>1 DEF Registered
<1>6. now \in Time /\ ground \in 0..MaxGround /\ FlagsOK /\ ReportOK
  <2>1. now \in Time /\ ground \in 0..MaxGround
    BY RtsAssumption DEF Init
  <2>2. FlagsOK
    BY DEF Init, FlagsOK
  <2>3. ReportOK
    BY RtsAssumption DEF Init, ReportOK, Time
  <2> QED BY <2>1, <2>2, <2>3
<1>7. sending = {}
  BY DEF Init
<1> QED BY <1>2, <1>3, <1>4, <1>5, <1>6, <1>7 DEF IInv, TypeOK, AllGood

LEMMA RestartKeeps ==
  ASSUME Restart
  PROVE  /\ Kept
         /\ registered' \subseteq Rts
         /\ active' \in [Rts -> RtsTables \union {NoTable}]
         /\ pending' \in [Rts -> RtsTables \union {NoTable}]
<1>1. PICK dir \in Directories :
        registered' = Registered(dir) /\ active' = TablesOf(dir) /\ RTSInfo' = InfoOf(dir)
  BY DEF Restart
<1>2. \A r \in Rts : Good(RTSInfo'[r], active'[r], hist'[r])
  BY <1>1, StartedGood DEF Restart
<1>3. RTSInfo' \in [Rts -> Info] /\ hist' \in [Rts -> History]
  <2>1. RTSInfo' = [r \in Rts |-> RTSInfo'[r]] /\ hist' = [r \in Rts |-> hist'[r]]
    BY <1>1 DEF Restart, InfoOf
  <2> QED BY <1>2, <2>1 DEF Good
<1>4. /\ active' \in [Rts -> RtsTables \union {NoTable}]
      /\ pending' \in [Rts -> RtsTables \union {NoTable}]
  BY <1>1, TablesTyped DEF Restart
<1>5. registered' \subseteq Rts
  BY <1>1 DEF Registered
<1> QED BY <1>2, <1>3, <1>4, <1>5 DEF Kept, AllGood

(* The actions by name, as Next lists them.                                *)
LEMMA NextCases ==
  ASSUME Next
  PROVE  \/ \E r \in 0..(NumRts + 1) : StartRTSCmd(r)
         \/ \E r \in 0..(NumRts + 1) : StopRTSCmd(r)
         \/ \E r \in 0..(NumRts + 1) : DisableRTSCmd(r)
         \/ \E r \in 0..(NumRts + 1) : EnableRTSCmd(r)
         \/ \E flag \in 0..2 : ContRTSOnFailCmd(flag)
         \/ \E r \in Rts, image \in RtsTables : LoadTable(r, image)
         \/ ReportHousekeeping
         \/ Tick
         \/ \E r \in Rts : SendCommand(r)
         \/ Advance
         \/ \E t \in Time : StepClock(t)
         \/ Restart
  BY DEF Next

(* The flags need no more than themselves.                                 *)
LEMMA FlagsTyped ==
  ASSUME FlagsOK, Next  PROVE FlagsOK'
<1> USE DEF clock, report, damage, Ack, Nak
<1>1. verdict' \in {"none", "CmdCtr", "CmdErrCtr"}
  BY NextCases DEF StartRTSCmd, StopRTSCmd, DisableRTSCmd, EnableRTSCmd,
     ContRTSOnFailCmd, LoadTable, ReportHousekeeping, Tick, SendCommand, Advance, StepClock, Restart
<1>2. ticked' \in BOOLEAN
  BY NextCases DEF StartRTSCmd, StopRTSCmd, DisableRTSCmd, EnableRTSCmd,
     ContRTSOnFailCmd, LoadTable, ReportHousekeeping, Tick, SendCommand, Advance, StepClock, Restart,
     FlagsOK
<1>3. ContinueRtsOnFailure' \in BOOLEAN
  BY NextCases DEF StartRTSCmd, StopRTSCmd, DisableRTSCmd, EnableRTSCmd,
     ContRTSOnFailCmd, LoadTable, ReportHousekeeping, Tick, SendCommand, Advance, StepClock, Restart,
     FlagsOK
<1>4. faulted' \in BOOLEAN /\ leaked' \in BOOLEAN
  <2>1. \/ UNCHANGED damage
        \/ faulted' = FALSE /\ leaked' = leaked
        \/ \E r \in Rts : SendCommand(r)
    BY NextCases DEF StartRTSCmd, StopRTSCmd, DisableRTSCmd, EnableRTSCmd,
       ContRTSOnFailCmd, LoadTable, ReportHousekeeping, Tick, Advance, StepClock, Restart
  <2>2. ASSUME NEW r \in Rts, SendCommand(r)
        PROVE  faulted' \in BOOLEAN /\ leaked' \in BOOLEAN
    BY <2>2 DEF SendCommand, FlagsOK
  <2> QED BY <2>1, <2>2 DEF FlagsOK
<1> QED BY <1>1, <1>2, <1>3, <1>4 DEF FlagsOK

(* The report is about RTSs there are.                                     *)
LEMMA ReportTyped ==
  ASSUME ReportOK, RTSInfo \in [Rts -> Info], Next  PROVE ReportOK'
<1>1. CASE UNCHANGED report
  BY <1>1 DEF report, ReportOK
<1>2. CASE ReportHousekeeping
  <2>1. NextRts[NumRts] \in [number : 0..NumRts, time : Time]
    BY NextRtsTyped
  <2>2. NextRts[NumRts].number \in 0..NumRts /\ NextRts[NumRts].time \in Time
    BY <2>1
  <2> QED BY <1>2, <2>2 DEF ReportHousekeeping, ReportOK
<1>3. CASE Restart
  BY <1>3, RtsAssumption DEF Restart, ReportOK, Time
<1>4. UNCHANGED report \/ ReportHousekeeping \/ Restart
  BY NextCases DEF StartRTSCmd, StopRTSCmd, DisableRTSCmd, EnableRTSCmd,
     ContRTSOnFailCmd, LoadTable, Tick, SendCommand, Advance, StepClock
<1> QED BY <1>1, <1>2, <1>3, <1>4

(* A command keeps what it changes in order; so do the other steps.        *)
LEMMA StepKeeps ==
  ASSUME IInv, Next  PROVE Kept
<1> USE DEF IInv
<1>1. CASE UNCHANGED <<RTSInfo, hist, active>>
  BY <1>1, NoneChanged DEF Kept
<1>2. ASSUME NEW r \in 0..(NumRts + 1), StartRTSCmd(r)  PROVE Kept
  <2>1. UNCHANGED active
    BY <1>2 DEF StartRTSCmd, tables
  <2>2. \/ UNCHANGED <<RTSInfo, hist>>
        \/ /\ r \in Rts /\ Start(r)
           /\ RTSInfo[r].Status = "IDLE" /\ RTSInfo[r].EnableState = "ENABLED"
    BY <1>2 DEF StartRTSCmd
  <2> QED BY <1>1, <2>1, <2>2, StartKeeps
<1>3. ASSUME NEW r \in 0..(NumRts + 1), StopRTSCmd(r)  PROVE Kept
  <2>1. UNCHANGED <<active, hist>>
    BY <1>3 DEF StopRTSCmd, tables
  <2>2. \/ UNCHANGED RTSInfo
        \/ /\ r \in Rts /\ Executing(r)
           /\ RTSInfo' = [RTSInfo EXCEPT ![r] = Stopped(@)]
    BY <1>3 DEF StopRTSCmd
  <2> QED BY <1>1, <2>1, <2>2, StopKeeps
<1>4. ASSUME NEW r \in 0..(NumRts + 1), DisableRTSCmd(r)  PROVE Kept
  <2>1. UNCHANGED active
    BY <1>4 DEF DisableRTSCmd, tables
  <2>2. \/ UNCHANGED <<RTSInfo, hist>>
        \/ /\ r \in Rts /\ RTSInfo[r].Status # "UNLOADED"
           /\ RTSInfo' = IF Executing(r)
                         THEN [RTSInfo EXCEPT ![r].DisableOnFinish = TRUE]
                         ELSE [RTSInfo EXCEPT ![r].EnableState = "DISABLED"]
           /\ hist' = [hist EXCEPT ![r].banned = TRUE]
    BY <1>4 DEF DisableRTSCmd
  <2> QED BY <1>1, <2>1, <2>2, DisableKeeps
<1>5. ASSUME NEW r \in 0..(NumRts + 1), EnableRTSCmd(r)  PROVE Kept
  <2>1. UNCHANGED active
    BY <1>5 DEF EnableRTSCmd, tables
  <2>2. \/ UNCHANGED <<RTSInfo, hist>>
        \/ /\ r \in Rts /\ RTSInfo[r].Status # "UNLOADED"
           /\ RTSInfo' = IF RTSInfo[r].EnableState = "ENABLED"
                         THEN [RTSInfo EXCEPT ![r].DisableOnFinish = FALSE]
                         ELSE [RTSInfo EXCEPT ![r].EnableState = "ENABLED"]
           /\ hist' = [hist EXCEPT ![r].banned = FALSE]
    BY <1>5 DEF EnableRTSCmd
  <2> QED BY <1>1, <2>1, <2>2, EnableKeeps
<1>6. ASSUME NEW flag \in 0..2, ContRTSOnFailCmd(flag)  PROVE Kept
  BY <1>1, <1>6 DEF ContRTSOnFailCmd, tables
<1>7. ASSUME NEW r \in Rts, NEW image \in RtsTables, LoadTable(r, image)  PROVE Kept
  BY <1>1, <1>7 DEF LoadTable
<1>8. CASE ReportHousekeeping
  BY <1>8, HousekeepingKeeps
<1>9. CASE Tick
  BY <1>1, <1>9 DEF Tick, tables
<1>13. ASSUME NEW r \in Rts, SendCommand(r)  PROVE Kept
  BY <1>13, SendKeeps
<1>10. CASE Advance
  BY <1>1, <1>10 DEF Advance, tables
<1>11. ASSUME NEW t \in Time, StepClock(t)  PROVE Kept
  BY <1>11, StepClockKeeps
<1>12. CASE Restart
  BY <1>12, RestartKeeps
<1> QED
  BY <1>2, <1>3, <1>4, <1>5, <1>6, <1>7, <1>8, <1>9, <1>10, <1>11, <1>12, <1>13,
     NextCases

(* The clock, the bound on ground and the tables.                          *)
TablesOK ==
  /\ registered \subseteq Rts
  /\ active \in [Rts -> RtsTables \union {NoTable}]
  /\ pending \in [Rts -> RtsTables \union {NoTable}]

LEMMA TableStep ==
  ASSUME TablesOK, Next  PROVE TablesOK'
<1>1. CASE UNCHANGED tables
  BY <1>1 DEF tables, TablesOK
<1>2. CASE ReportHousekeeping
  BY <1>2 DEF ReportHousekeeping, TablesOK
<1>3. ASSUME NEW r \in Rts, NEW image \in RtsTables, LoadTable(r, image)  PROVE TablesOK'
  BY <1>3 DEF LoadTable, TablesOK
<1>4. CASE Restart
  BY <1>4, RestartKeeps DEF TablesOK
<1>5. \/ UNCHANGED tables \/ ReportHousekeeping \/ Restart
      \/ \E r \in Rts, image \in RtsTables : LoadTable(r, image)
  BY NextCases DEF StartRTSCmd, StopRTSCmd, DisableRTSCmd, EnableRTSCmd,
     ContRTSOnFailCmd, Tick, SendCommand, Advance, StepClock
<1> QED BY <1>1, <1>2, <1>3, <1>4, <1>5

LEMMA ClockStep ==
  ASSUME now \in Time, ground \in 0..MaxGround, Next
  PROVE  now' \in Time /\ ground' \in 0..MaxGround
<1>1. now' = now \/ now' \in Time \/ now' = (now + 1) % TimeMod
  BY NextCases DEF StartRTSCmd, StopRTSCmd, DisableRTSCmd, EnableRTSCmd,
     ContRTSOnFailCmd, LoadTable, ReportHousekeeping, Tick, SendCommand, Advance, StepClock, Restart,
     clock
<1>2. (now + 1) % TimeMod \in Time
  BY TimeWraps, RtsAssumption DEF Time
<1>3. ground' = ground \/ (ground < MaxGround /\ ground' = ground + 1)
  BY NextCases DEF StartRTSCmd, StopRTSCmd, DisableRTSCmd, EnableRTSCmd,
     ContRTSOnFailCmd, LoadTable, ReportHousekeeping, Tick, SendCommand, Advance, StepClock, Restart,
     Ground
<1> QED BY <1>1, <1>2, <1>3, RtsAssumption

(* Who is due stays so while the loops run: one that goes on has a command *)
(* without a delay, and nothing but SendCommand touches the others.        *)
LEMMA NoDelayIsDue ==
  ASSUME NEW t \in Time  PROVE Plus(t, 0) = t /\ ~After(t, t)
<1>1. t \in Int /\ 0 <= t /\ t < TimeMod /\ 0 * TicksPerSec = 0
  BY RtsAssumption DEF Time
<1>2. (t + 0) % TimeMod = t
  BY <1>1, RtsAssumption
<1>3. TimeMod \div 2 >= 0
  BY RtsAssumption
<1> QED BY <1>1, <1>2, <1>3 DEF Plus, After

LEMMA SendingStep ==
  ASSUME IInv, Next  PROVE sending' \subseteq Due'
<1>0. RTSInfo \in [Rts -> Info] /\ now \in Time
  BY DEF IInv, TypeOK
<1>1. CASE sending' = {}
  BY <1>1
<1>2. CASE Tick
  BY <1>2 DEF Tick, Due, Executing
<1>3. ASSUME NEW r \in 0..(NumRts + 1), StartRTSCmd(r)  PROVE sending' \subseteq Due'
  <2>1. CASE r \in Rts /\ Start(r) /\ UNCHANGED now /\ RTSInfo[r].Status = "IDLE"
    <3> DEFINE first == Read(active[r], DelaySize)
    <3>1. /\ RTSInfo'[r].Status = "EXECUTING"
          /\ RTSInfo'[r].NextCmdTime = Plus(now, first.Delay)
          /\ sending' = IF first.Delay = 0 THEN {r} ELSE {}
      BY <1>0, <2>1 DEF Start, Info
    <3> HIDE DEF first
    <3> QED BY <1>0, <2>1, <3>1, NoDelayIsDue DEF Due, Executing
  <2>2. CASE UNCHANGED sending /\ sending = {}
    BY <2>2
  <2> QED BY <1>3, <2>1, <2>2 DEF StartRTSCmd, Ground, Waiting, clock
<1>4. ASSUME NEW r \in Rts, SendCommand(r)  PROVE sending' \subseteq Due'
  <2>1. UNCHANGED now /\ sending \subseteq Due
    BY <1>4 DEF SendCommand, clock, IInv
  <2>2. CASE UNCHANGED <<RTSInfo, hist, sending>>
    BY <2>1, <2>2 DEF Due, Executing
  <2>3. ASSUME NEW next,
               next = Stopped(RTSInfo[r]) \/ next = AfterCommand(RTSInfo[r], active[r], now),
               RTSInfo' = [RTSInfo EXCEPT ![r] = next],
               sending' = IF GoesOn(next, active[r]) THEN sending ELSE sending \ {r}
        PROVE  sending' \subseteq Due'
    <3>1. RTSInfo'[r] = next /\ \A q \in Rts \ {r} : RTSInfo'[q] = RTSInfo[q]
      BY <1>0, <2>3
    <3>2. \A q \in sending \ {r} : q \in Due'
      BY <2>1, <3>1 DEF Due, Executing
    <3>3. ASSUME GoesOn(next, active[r])  PROVE r \in Due'
      <4>1. next # Stopped(RTSInfo[r])
        <5>1. RTSInfo[r] \in Info
          BY <1>0
        <5>2. Stopped(RTSInfo[r]).Status = "IDLE"
          BY <5>1 DEF Stopped, Info
        <5> QED BY <3>3, <5>2 DEF GoesOn
      <4>2. active[r] \in RtsTables
        <5>1. RTSInfo[r].Status = "EXECUTING"
          BY <1>4, <2>1 DEF SendCommand, Due, Executing
        <5> QED BY <5>1, LoadedTable DEF IInv, AllGood, Good
      <4>3. /\ next.Status = "EXECUTING" /\ Read(active[r], next.NextCmdPtr).Delay = 0
            /\ next.NextCmdTime = Plus(now, Read(active[r], next.NextCmdPtr).Delay)
        <5>1. RTSInfo[r] \in Info
          BY <1>0
        <5> QED BY <1>0, <2>3, <3>3, <4>1, <4>2, <5>1, NextCommand DEF GoesOn
      <4> QED BY <1>0, <2>1, <3>1, <4>3, NoDelayIsDue DEF Due, Executing
    <3> QED BY <2>3, <3>2, <3>3
  <2> QED BY <1>4, <2>2, <2>3, SendCases
<1>5. ASSUME Waiting, UNCHANGED sending  PROVE sending' = {}
  BY <1>5 DEF Waiting
<1> QED
  BY <1>1, <1>2, <1>3, <1>4, <1>5, NextCases
  DEF StopRTSCmd, DisableRTSCmd, EnableRTSCmd, ContRTSOnFailCmd, LoadTable,
      ReportHousekeeping, Advance, StepClock, Restart, Ground

LEMMA StepInvariant ==
  ASSUME IInv, [Next]_vars  PROVE IInv'
<1>1. CASE Next
  <2>1. FlagsOK' /\ ReportOK'
    BY <1>1, FlagsTyped, ReportTyped DEF IInv, TypeOK
  <2>2. TablesOK'
    BY <1>1, TableStep DEF IInv, TypeOK, TablesOK
  <2>3. now' \in Time /\ ground' \in 0..MaxGround
    BY <1>1, ClockStep DEF IInv, TypeOK
  <2>4. Kept
    BY <1>1, StepKeeps
  <2>5. sending' \subseteq Due' /\ sending' \subseteq Rts
    BY <1>1, SendingStep DEF Due
  <2> QED BY <2>1, <2>2, <2>3, <2>4, <2>5 DEF IInv, TypeOK, TablesOK, Kept
<1>2. CASE UNCHANGED vars
  BY <1>2 DEF IInv, TypeOK, FlagsOK, ReportOK, AllGood, Due, Executing, vars, clock,
     tables, report, damage
<1> QED BY <1>1, <1>2

-----------------------------------------------------------------------------
(* Every RTS stays good: its info, table and history agree in every        *)
(* reachable state, which is what the theorems below rest on.              *)
THEOREM EveryRtsGood == Spec => []IInv
<1>1. Init => IInv
  BY InitGood
<1>2. IInv /\ [Next]_vars => IInv'
  BY StepInvariant
<1> QED BY <1>1, <1>2, PTL DEF Spec

(* Every variable keeps to its type; among others, no sum of times leaves  *)
(* the clock's range.                                                      *)
THEOREM RtsTypeCorrect == Spec => []TypeOK
<1>1. IInv => TypeOK
  BY DEF IInv
<1> QED BY <1>1, EveryRtsGood, PTL

(* Only loaded, enabled RTSs execute; a disable is pending only for one    *)
(* that executes.                                                          *)
THEOREM InfoConsistent == Spec => []RtsConsistent
<1>1. IInv => RtsConsistent
  BY DEF IInv, AllGood, Good, RtsConsistent
<1> QED BY <1>1, EveryRtsGood, PTL

(* A disable that ground did not take back holds, however the RTS it found *)
(* running comes to its end.                                               *)
THEOREM DisableIsKept == Spec => []DisableHolds
<1>1. IInv => DisableHolds
  BY DEF IInv, AllGood, Good, DisableHolds
<1> QED BY <1>1, EveryRtsGood, PTL

(* No command of an executing RTS is passed over or handled twice,         *)
(* whichever fail, and the offset the engine keeps is that of the next row *)
(* of its table, until that is replaced.                                   *)
THEOREM InOrder == Spec => []CommandsInOrder
<1>1. IInv => CommandsInOrder
  BY DEF IInv, AllGood, Good, InStep, InPlace, Executing, CommandsInOrder
<1> QED BY <1>1, EveryRtsGood, PTL

(* Only SC_RTS_Start makes an RTS execute that did not.                    *)
LEMMA OnlyStartStarts ==
  ASSUME IInv, Next, NEW r \in Rts, ~Executing(r), Executing(r)'
  PROVE  StartRTSCmd(r) /\ RTSInfo[r].EnableState = "ENABLED"
<1> USE DEF Executing
<1>1. RTSInfo \in [Rts -> Info] /\ RTSInfo[r] \in Info
  BY DEF IInv, TypeOK
<1>2. RTSInfo'[r] # RTSInfo[r]
  OBVIOUS
<1>3. ASSUME NEW q \in 0..(NumRts + 1), StartRTSCmd(q)
      PROVE  StartRTSCmd(r) /\ RTSInfo[r].EnableState = "ENABLED"
  <2>1. q \in Rts /\ Start(q) /\ RTSInfo[q].EnableState = "ENABLED"
    BY <1>2, <1>3 DEF StartRTSCmd
  <2>2. RTSInfo'[r] # RTSInfo[r] => q = r
    BY <1>1, <2>1 DEF Start
  <2> QED BY <1>2, <1>3, <2>1, <2>2
<1>4. ASSUME NEW q \in 0..(NumRts + 1), StopRTSCmd(q)  PROVE FALSE
  <2>1. q \in Rts /\ RTSInfo[q].Status = "EXECUTING"
        /\ RTSInfo' = [RTSInfo EXCEPT ![q] = Stopped(@)]
    BY <1>2, <1>4 DEF StopRTSCmd
  <2> QED BY <1>1, <1>2, <2>1
<1>5. ASSUME NEW q \in 0..(NumRts + 1), DisableRTSCmd(q)  PROVE FALSE
  <2>1. q \in Rts /\ \/ RTSInfo' = [RTSInfo EXCEPT ![q].DisableOnFinish = TRUE]
                     \/ RTSInfo' = [RTSInfo EXCEPT ![q].EnableState = "DISABLED"]
    BY <1>2, <1>5 DEF DisableRTSCmd
  <2> QED BY <1>1, <2>1 DEF Info
<1>6. ASSUME NEW q \in 0..(NumRts + 1), EnableRTSCmd(q)  PROVE FALSE
  <2>1. q \in Rts /\ \/ RTSInfo' = [RTSInfo EXCEPT ![q].DisableOnFinish = FALSE]
                     \/ RTSInfo' = [RTSInfo EXCEPT ![q].EnableState = "ENABLED"]
    BY <1>2, <1>6 DEF EnableRTSCmd
  <2> QED BY <1>1, <2>1 DEF Info
<1>7. ASSUME NEW q \in Rts, SendCommand(q)  PROVE FALSE
  <2>1. q \in Due
    BY <1>7 DEF SendCommand, IInv
  <2>2. RTSInfo' = RTSInfo \/ \E i : RTSInfo' = [RTSInfo EXCEPT ![q] = i]
    BY <1>7, SendCases
  <2>3. q = r
    BY <1>1, <1>2, <2>2
  <2> QED BY <2>1, <2>3 DEF Due
<1>8. CASE Restart
  <2>1. PICK dir \in Directories : RTSInfo' = InfoOf(dir)
    BY <1>8 DEF Restart
  <2> QED BY <2>1 DEF InfoOf
<1>9. ~UNCHANGED RTSInfo
  BY <1>2
<1> QED
  BY <1>3, <1>4, <1>5, <1>6, <1>7, <1>8, <1>9, NextCases
  DEF ContRTSOnFailCmd, LoadTable, ReportHousekeeping, Tick, Advance, StepClock

(* An RTS that ground disabled does not start before ground enables it.    *)
THEOREM BannedStaysDown == Spec => NoStartWhenBanned
<1>1. IInv /\ [Next]_vars =>
        [\A r \in Rts : hist[r].banned /\ ~Executing(r) => ~Executing(r)']_vars
  <2> SUFFICES ASSUME IInv, Next, NEW r \in Rts, hist[r].banned, ~Executing(r),
                      Executing(r)'
               PROVE  FALSE
    OBVIOUS
  <2>1. RTSInfo[r].EnableState = "ENABLED"
    BY OnlyStartStarts
  <2>2. Barred(RTSInfo[r])
    BY DEF IInv, AllGood, Good
  <2> QED BY <2>1, <2>2 DEF Barred, Executing
<1>2. Spec => [][\A r \in Rts : hist[r].banned /\ ~Executing(r) => ~Executing(r)']_vars
  BY <1>1, EveryRtsGood, PTL DEF Spec
<1> QED BY <1>2, PTL DEF NoStartWhenBanned

-----------------------------------------------------------------------------
(***************************************************************************)
(* The pace of an RTS.  Until the table under it is replaced, the time it  *)
(* waits for is a delay of its table after the last command, and as long   *)
(* as the clock is not stepped that time has not gone by: the tick it      *)
(* falls on, or the loop it is queued for, has still to be handled.        *)
(***************************************************************************)
Paced(info, table, h, t, done, queued) ==
  info.Status = "EXECUTING" /\ ~h.swapped =>
    LET delay   == Read(table, info.NextCmdPtr).Delay
        elapsed == (t - h.last) % TimeMod
    IN  /\ info.NextCmdTime = Plus(h.last, delay)
        /\ ~h.stepped => /\ elapsed <= delay * TicksPerSec
                         /\ done /\ ~queued => elapsed # delay * TicksPerSec

AllPaced ==
  \A r \in Rts : Paced(RTSInfo[r], active[r], hist[r], now, ticked, r \in sending)

(* The remainder of what lies less than one range off the clock's own.     *)
LEMMA Remainder ==
  ASSUME NEW x \in Int, -TimeMod <= x, x < 2 * TimeMod
  PROVE  x % TimeMod = IF x < 0 THEN x + TimeMod
                       ELSE IF x < TimeMod THEN x ELSE x - TimeMod
<1> DEFINE q == x \div TimeMod
           r == x % TimeMod
<1>1. /\ TimeMod \in Int /\ TimeMod > 0
      /\ q \in Int /\ r \in Int /\ 0 <= r /\ r < TimeMod /\ x = TimeMod * q + r
  BY RtsAssumption
<1> HIDE DEF q, r
<1>2. q > -2 /\ q < 2
  <2>1. ASSUME q >= 2  PROVE FALSE
    <3>1. TimeMod * q >= TimeMod * 2
      BY <1>1, <2>1
    <3> QED BY <1>1, <3>1
  <2>2. ASSUME q <= -2  PROVE FALSE
    <3>1. TimeMod * q <= TimeMod * (-2)
      BY <1>1, <2>2
    <3> QED BY <1>1, <3>1
  <2> QED BY <1>1, <2>1, <2>2
<1>3. r = x - TimeMod * q /\ (q = -1 \/ q = 0 \/ q = 1)
  BY <1>1, <1>2
<1>4. r = x + TimeMod \/ r = x \/ r = x - TimeMod
  BY <1>1, <1>3
<1> QED BY <1>1, <1>4 DEF r

(* The difference of two times, and the time a short delay leads to.       *)
LEMMA Apart ==
  ASSUME NEW a \in Time, NEW b \in Time
  PROVE  /\ (a - b) % TimeMod = IF a >= b THEN a - b ELSE a - b + TimeMod
         /\ (a - b) % TimeMod \in Time
<1>1. a \in Int /\ b \in Int /\ TimeMod \in Int /\ 0 <= a /\ a < TimeMod
      /\ 0 <= b /\ b < TimeMod
  BY RtsAssumption DEF Time
<1>2. (a - b) % TimeMod = IF a >= b THEN a - b ELSE a - b + TimeMod
  BY <1>1, Remainder
<1>3. (a - b) % TimeMod \in Time
  BY <1>1, TimeWraps
<1> QED BY <1>2, <1>3

LEMMA Later ==
  ASSUME NEW a \in Time, NEW d \in Nat, d < TimeMod
  PROVE  (a + d) % TimeMod = IF a + d < TimeMod THEN a + d ELSE a + d - TimeMod
<1>1. a \in Int /\ TimeMod \in Int /\ 0 <= a /\ a < TimeMod
  BY RtsAssumption DEF Time
<1> QED BY <1>1, Remainder

(* Half the range, as the comparison of times sees it.                     *)
LEMMA HalfRange ==
  /\ TimeMod \in Int /\ TimeMod \div 2 \in Int
  /\ 2 * (TimeMod \div 2) <= TimeMod /\ TimeMod < 2 * (TimeMod \div 2) + 2
  BY RtsAssumption

(* A time that is a delay after the last command is not after now exactly  *)
(* when the delay has gone by, as long as neither is near half the range.  *)
LEMMA DueWhenElapsed ==
  ASSUME NEW last \in Time, NEW t \in Time, NEW delay \in Nat,
         delay + TimeMod \div 2 < TimeMod
  PROVE  LET next == (last + delay) % TimeMod
             elapsed == (t - last) % TimeMod
         IN  /\ ~After(next, t) => elapsed >= delay
             /\ elapsed = delay => ~After(next, t)
<1> DEFINE next == (last + delay) % TimeMod
           elapsed == (t - last) % TimeMod
<1>1. /\ last \in Int /\ 0 <= last /\ last < TimeMod
      /\ t \in Int /\ 0 <= t /\ t < TimeMod /\ delay < TimeMod /\ TimeMod > 0
  BY HalfRange, RtsAssumption DEF Time
<1>2. next = IF last + delay < TimeMod THEN last + delay ELSE last + delay - TimeMod
  BY <1>1, Later
<1>3. elapsed = IF t >= last THEN t - last ELSE t - last + TimeMod
  BY Apart
<1> HIDE DEF next, elapsed
<1>4. ~After(next, t) => elapsed >= delay
  BY <1>1, <1>2, <1>3, HalfRange DEF After
<1>5. elapsed = delay => ~After(next, t)
  BY <1>1, <1>2, <1>3, HalfRange DEF After
<1> QED BY <1>4, <1>5 DEF next, elapsed

(* A tick later, a tick more has gone by.                                  *)
LEMMA OneMore ==
  ASSUME NEW last \in Time, NEW t \in Time, ((t - last) % TimeMod) + 1 < TimeMod
  PROVE  (((t + 1) % TimeMod) - last) % TimeMod = ((t - last) % TimeMod) + 1
<1>1. /\ last \in Int /\ 0 <= last /\ last < TimeMod /\ TimeMod \in Int
      /\ t \in Int /\ 0 <= t /\ t < TimeMod
  BY RtsAssumption DEF Time
<1> DEFINE u == (t + 1) % TimeMod
           e == (t - last) % TimeMod
<1>2. e = IF t >= last THEN t - last ELSE t - last + TimeMod
  BY Apart
<1>3. CASE TimeMod = 1
  BY <1>1, <1>2, <1>3
<1>4. CASE TimeMod > 1
  <2>1. u = IF t + 1 < TimeMod THEN t + 1 ELSE t + 1 - TimeMod
    BY <1>4, Later
  <2> HIDE DEF u
  <2>2. u \in Time
    BY <1>1, <2>1 DEF Time
  <2>3. (u - last) % TimeMod = IF u >= last THEN u - last ELSE u - last + TimeMod
    BY <2>2, Apart
  <2> HIDE DEF e
  <2>4. (u - last) % TimeMod = e + 1
    <3>1. e + 1 < TimeMod
      BY DEF e
    <3> QED BY <1>1, <1>2, <2>1, <2>3, <3>1
  <2> QED BY <2>4 DEF u, e
<1> QED BY <1>1, <1>3, <1>4

(* What a delay can be.                                                    *)
LEMMA DelayFits ==
  ASSUME NEW table \in RtsTables, NEW p
  PROVE  LET delay == Read(table, p).Delay
         IN  /\ delay \in Nat /\ delay * TicksPerSec \in Nat
             /\ delay * TicksPerSec + TimeMod \div 2 < TimeMod
             /\ delay # 0 => delay * TicksPerSec > 0
<1> DEFINE delay == Read(table, p).Delay
<1>1. delay \in Nat /\ TicksPerSec \in Nat \ {0}
  BY ReadTyped, RtsAssumption
<1>2. delay * TicksPerSec + TimeMod \div 2 < TimeMod
  <2>1. CASE p \in DOMAIN table.at
    BY <2>1, RtsDelaysFit DEF Read
  <2>2. CASE p \notin DOMAIN table.at
    <3>1. delay = 0 /\ 0 * TicksPerSec = 0
      <4>1. delay = 0
        BY <2>2 DEF Read, Blank
      <4>2. 0 * TicksPerSec = 0
        BY RtsAssumption
      <4> QED BY <4>1, <4>2
    <3>2. TimeMod \div 2 < TimeMod /\ TimeMod \div 2 \in Int
      BY HalfRange, RtsAssumption
    <3> HIDE DEF delay
    <3>3. delay * TicksPerSec = 0
      BY <3>1
    <3> QED BY <3>2, <3>3
  <2> QED BY <2>1, <2>2
<1> HIDE DEF delay
<1>3. delay * TicksPerSec \in Nat /\ (delay # 0 => delay * TicksPerSec > 0)
  BY <1>1
<1> QED BY <1>1, <1>2, <1>3 DEF delay

(* An RTS that waits from now on is on pace, if it is queued whenever its  *)
(* next command has no delay.                                              *)
LEMMA WaitingPaced ==
  ASSUME NEW table \in RtsTables, NEW info, NEW h, NEW t \in Time, NEW done, NEW queued,
         info.NextCmdTime = Plus(t, Read(table, info.NextCmdPtr).Delay), h.last = t,
         Read(table, info.NextCmdPtr).Delay = 0 => queued
  PROVE  Paced(info, table, h, t, done, queued)
<1> DEFINE delay == Read(table, info.NextCmdPtr).Delay
<1>1. (t - t) % TimeMod = 0
  BY Apart, RtsAssumption DEF Time
<1>2. delay \in Nat /\ delay * TicksPerSec \in Nat
      /\ (delay # 0 => delay * TicksPerSec > 0)
  BY DelayFits
<1> HIDE DEF delay
<1>3. 0 <= delay * TicksPerSec /\ (~queued => 0 # delay * TicksPerSec)
  BY <1>2 DEF delay
<1> QED BY <1>1, <1>3 DEF Paced, delay

-----------------------------------------------------------------------------
(***************************************************************************)
(* What a step makes of one RTS: it sends commands of it, starts it, ends  *)
(* it, or leaves its run alone.                                            *)
(***************************************************************************)
SameRun(r) ==
  /\ RTSInfo'[r].Status = RTSInfo[r].Status
  /\ RTSInfo'[r].NextCmdPtr = RTSInfo[r].NextCmdPtr
  /\ RTSInfo'[r].NextCmdTime = RTSInfo[r].NextCmdTime
  /\ hist'[r].attempted = hist[r].attempted
  /\ hist'[r].last = hist[r].last

SameView(r) ==
  /\ UNCHANGED <<now, ticked>>
  /\ active'[r] = active[r]
  /\ hist'[r].stepped = hist[r].stepped
  /\ hist'[r].swapped = hist[r].swapped
  /\ (r \in sending') = (r \in sending)

Ended(r) == RTSInfo'[r].Status # "EXECUTING" /\ hist'[r].attempted <= hist[r].attempted

LEMMA StepCases ==
  ASSUME IInv, Next, NEW r \in Rts
  PROVE  \/ SendCommand(r)
         \/ Start(r) /\ RTSInfo[r].Status = "IDLE" /\ UNCHANGED <<now, ticked, active>>
         \/ Ended(r)
         \/ SameRun(r) /\ (SameView(r) \/ ReportHousekeeping \/ Tick \/ Advance
                             \/ \E t \in Time : StepClock(t))
<1>0. /\ RTSInfo \in [Rts -> Info] /\ RTSInfo[r] \in Info
      /\ hist \in [Rts -> History] /\ hist[r] \in History /\ hist[r].attempted \in Nat
  BY DEF IInv, TypeOK, History
<1> USE DEF tables, clock, Executing
<1>1. CASE UNCHANGED <<RTSInfo, hist, now, ticked, active, sending>>
  BY <1>1 DEF SameRun, SameView
<1>2. ASSUME NEW q \in 0..(NumRts + 1), StartRTSCmd(q)
      PROVE  \/ Start(r) /\ RTSInfo[r].Status = "IDLE" /\ UNCHANGED <<now, ticked, active>>
             \/ SameRun(r) /\ SameView(r)
  <2>1. CASE Start(q) /\ q \in Rts /\ q # r
    <3>1. RTSInfo'[r] = RTSInfo[r] /\ hist'[r] = hist[r] /\ r \notin sending'
      BY <1>0, <2>1 DEF Start
    <3> QED BY <1>2, <3>1 DEF StartRTSCmd, Ground, Waiting, SameRun, SameView
  <2> QED BY <1>2, <2>1 DEF StartRTSCmd, SameRun, SameView
<1>3. ASSUME NEW q \in 0..(NumRts + 1), StopRTSCmd(q)
      PROVE  Ended(r) \/ (SameRun(r) /\ SameView(r))
  <2>1. CASE q = r /\ RTSInfo' = [RTSInfo EXCEPT ![q] = Stopped(@)]
    <3>1. RTSInfo'[r].Status = "IDLE"
      BY <1>0, <2>1 DEF Stopped, Info
    <3> QED BY <1>0, <1>3, <3>1 DEF StopRTSCmd, Ended
  <2>2. CASE q # r \/ RTSInfo' = RTSInfo
    <3>1. RTSInfo'[r] = RTSInfo[r]
      <4>1. RTSInfo' = RTSInfo \/ RTSInfo' = [RTSInfo EXCEPT ![q] = Stopped(RTSInfo[q])]
        BY <1>3 DEF StopRTSCmd
      <4> QED BY <1>0, <2>2, <4>1
    <3> QED BY <1>3, <3>1 DEF StopRTSCmd, SameRun, SameView
  <2> QED BY <1>3, <2>1, <2>2 DEF StopRTSCmd
<1>4. ASSUME NEW q \in 0..(NumRts + 1), DisableRTSCmd(q)
      PROVE  SameRun(r) /\ SameView(r)
  <2>1. UNCHANGED <<now, ticked, active, sending>>
    BY <1>4 DEF DisableRTSCmd
  <2>2. CASE UNCHANGED <<RTSInfo, hist>>
    BY <2>1, <2>2 DEF SameRun, SameView
  <2>3. CASE /\ q \in Rts /\ hist' = [hist EXCEPT ![q].banned = TRUE]
             /\ \/ RTSInfo' = [RTSInfo EXCEPT ![q].DisableOnFinish = TRUE]
                \/ RTSInfo' = [RTSInfo EXCEPT ![q].EnableState = "DISABLED"]
    BY <1>0, <2>1, <2>3 DEF SameRun, SameView, Info, History
  <2> QED BY <1>4, <2>2, <2>3 DEF DisableRTSCmd
<1>5. ASSUME NEW q \in 0..(NumRts + 1), EnableRTSCmd(q)
      PROVE  SameRun(r) /\ SameView(r)
  <2>1. UNCHANGED <<now, ticked, active, sending>>
    BY <1>5 DEF EnableRTSCmd
  <2>2. CASE UNCHANGED <<RTSInfo, hist>>
    BY <2>1, <2>2 DEF SameRun, SameView
  <2>3. CASE /\ q \in Rts /\ hist' = [hist EXCEPT ![q].banned = FALSE]
             /\ \/ RTSInfo' = [RTSInfo EXCEPT ![q].DisableOnFinish = FALSE]
                \/ RTSInfo' = [RTSInfo EXCEPT ![q].EnableState = "ENABLED"]
    BY <1>0, <2>1, <2>3 DEF SameRun, SameView, Info, History
  <2> QED BY <1>5, <2>2, <2>3 DEF EnableRTSCmd
<1>6. ASSUME NEW flag \in 0..2, ContRTSOnFailCmd(flag)
      PROVE  UNCHANGED <<RTSInfo, hist, now, ticked, active, sending>>
  BY <1>6 DEF ContRTSOnFailCmd
<1>7. ASSUME NEW q \in Rts, NEW image \in RtsTables, LoadTable(q, image)
      PROVE  UNCHANGED <<RTSInfo, hist, now, ticked, active, sending>>
  BY <1>7 DEF LoadTable
<1>8. CASE ReportHousekeeping
  BY <1>0, <1>8 DEF ReportHousekeeping, SameRun, History
<1>9. CASE Advance
  BY <1>9 DEF Advance, SameRun
<1>10. ASSUME NEW t \in Time, StepClock(t)  PROVE SameRun(r)
  BY <1>0, <1>10 DEF StepClock, SameRun, History
<1>12. CASE Tick
  BY <1>12 DEF Tick, SameRun
<1>13. ASSUME NEW q \in Rts, SendCommand(q), q # r  PROVE SameRun(r) /\ SameView(r)
  <2>1. UNCHANGED <<now, ticked, active>>
    BY <1>13 DEF SendCommand
  <2>2. /\ RTSInfo'[r] = RTSInfo[r] /\ hist'[r] = hist[r]
        /\ (r \in sending') = (r \in sending)
    <3>1. CASE UNCHANGED <<RTSInfo, hist, sending>>
      BY <3>1
    <3>2. ASSUME NEW i, NEW h, RTSInfo' = [RTSInfo EXCEPT ![q] = i],
                 hist' = [hist EXCEPT ![q] = h], sending' = sending \/ sending' = sending \ {q}
          PROVE  /\ RTSInfo'[r] = RTSInfo[r] /\ hist'[r] = hist[r]
                 /\ (r \in sending') = (r \in sending)
      BY <1>0, <1>13, <3>2
    <3> QED BY <1>13, <3>1, <3>2, SendCases
  <2> QED BY <2>1, <2>2 DEF SameRun, SameView
<1>11. CASE Restart
  <2>1. RTSInfo'[r].Status # "EXECUTING"
    BY <1>11 DEF Restart, InfoOf
  <2>2. hist'[r].attempted = 0
    BY <1>11 DEF Restart, NoRun
  <2> QED BY <1>0, <2>1, <2>2 DEF Ended
<1> QED
  BY <1>1, <1>2, <1>3, <1>4, <1>5, <1>6, <1>7, <1>8, <1>9, <1>10, <1>11, <1>12, <1>13,
     NextCases

(* Only the loop it is queued for adds to the commands of a running RTS.   *)
LEMMA OnlyLoopSends ==
  ASSUME IInv, [Next]_vars, NEW r \in Rts, Executing(r),
         hist'[r].attempted > hist[r].attempted
  PROVE  /\ SendCommand(r) /\ r \in Due /\ UNCHANGED active
         /\ \E next :
              /\ next = Stopped(RTSInfo[r]) \/ next = AfterCommand(RTSInfo[r], active[r], now)
              /\ next = AfterCommand(RTSInfo[r], active[r], now) \/ ~ContinueRtsOnFailure
              /\ RTSInfo'[r] = next /\ hist'[r] = Handled(hist[r], now)
<1>1. /\ RTSInfo \in [Rts -> Info] /\ hist \in [Rts -> History]
      /\ hist[r].attempted \in Nat
  BY DEF IInv, TypeOK, History
<1>2. Next
  BY <1>1 DEF vars
<1>3. SendCommand(r)
  <2>1. ~Ended(r) /\ ~SameRun(r)
    <3>1. CASE Ended(r)
      <4>1. hist'[r].attempted \in Nat
        BY <1>2, StepInvariant DEF IInv, TypeOK, History
      <4> QED BY <1>1, <3>1, <4>1 DEF Ended
    <3> QED BY <1>1, <3>1 DEF SameRun
  <2> QED BY <1>2, <2>1, StepCases DEF Executing
<1>4. r \in Due /\ UNCHANGED active
  BY <1>3 DEF SendCommand, tables, IInv
<1>5. ~UNCHANGED hist
  BY <1>1
<1> QED BY <1>1, <1>3, <1>4, <1>5, SendCases

-----------------------------------------------------------------------------
(***************************************************************************)
(* An RTS that finishes without failures, and the end of its table.        *)
(***************************************************************************)
LEMMA FinishedAttempts ==
  ASSUME NEW table \in RtsTables, NEW info, NEW h, NEW t \in Time,
         Good(info, table, h), info.Status = "EXECUTING", ~h.swapped,
         AfterCommand(info, table, t).Status # "EXECUTING"
  PROVE  h.attempted + 1 >= Len(table.starts)
<1> DEFINE k == info.NextCmdNum
           p == info.NextCmdPtr + info.NextCmdLength + DelaySize
<1>1. info \in Info /\ k \in Nat /\ h.attempted = k - 1 /\ Len(table.starts) \in Nat
  BY TableParts DEF Good, Info, InStep
<1>2. CASE table.starts = << >>
  BY <1>1, <1>2 DEF Good, Sound
<1>3. CASE table.starts # << >>
  <2>1. /\ k \in DOMAIN table.starts /\ info.NextCmdPtr = table.starts[k]
        /\ info.NextCmdLength = Read(table, table.starts[k]).Length
    BY <1>3 DEF Good, InPlace, AtCommand
  <2>2. p \notin DOMAIN table.at
    BY <1>1 DEF AfterCommand, Info
  <2>3. /\ table.starts[k] \in DOMAIN table.at
        /\ k < Len(table.starts) =>
             /\ table.starts[k + 1] = Behind(table, table.starts[k])
             /\ table.starts[k + 1] \in DOMAIN table.at
    <3>1. k < Len(table.starts) => k + 1 \in DOMAIN table.starts
      BY <1>1, TableParts
    <3> QED BY <2>1, <3>1, RtsAssumption DEF IsTable
  <2>4. Behind(table, table.starts[k]) = p
    BY <2>1, <2>3 DEF Behind, Read
  <2>5. ~(k < Len(table.starts))
    BY <2>2, <2>3, <2>4
  <2> QED BY <1>1, <2>5
<1> QED BY <1>2, <1>3

(* SC_RTS_SendCommands completes an RTS without a failure only behind the  *)
(* last command of its table, as long as that is not replaced.             *)
THEOREM FinishIsTotal == Spec => FinishedMeansAll
<1> DEFINE Finished ==
      \A r \in Rts :
        /\ Executing(r) /\ ~Executing(r)' /\ ContinueRtsOnFailure
        /\ ~hist[r].swapped /\ hist'[r].attempted > hist[r].attempted
        => hist'[r].attempted >= Len(active[r].starts)
<1>1. IInv /\ [Next]_vars => Finished
  <2> SUFFICES ASSUME IInv, [Next]_vars, NEW r \in Rts, Executing(r), ~Executing(r)',
                      ContinueRtsOnFailure, ~hist[r].swapped,
                      hist'[r].attempted > hist[r].attempted
               PROVE  hist'[r].attempted >= Len(active[r].starts)
    OBVIOUS
  <2>1. /\ RTSInfo'[r] = AfterCommand(RTSInfo[r], active[r], now)
        /\ hist'[r] = Handled(hist[r], now)
    BY OnlyLoopSends
  <2>2. /\ Good(RTSInfo[r], active[r], hist[r]) /\ RTSInfo[r].Status = "EXECUTING"
        /\ now \in Time /\ hist[r] \in History
    BY DEF IInv, TypeOK, AllGood, Executing
  <2>3. active[r] \in RtsTables
    BY <2>2, LoadedTable DEF IInv, Good
  <2>4. AfterCommand(RTSInfo[r], active[r], now).Status # "EXECUTING"
    BY <2>1 DEF Executing
  <2>5. hist'[r].attempted = hist[r].attempted + 1
    BY <2>1, <2>2, HandledTyped
  <2> QED BY <2>2, <2>3, <2>4, <2>5, FinishedAttempts
<1>2. Spec => [][Finished]_vars
  BY <1>1, EveryRtsGood, PTL DEF Spec
<1> QED BY <1>2 DEF FinishedMeansAll

-----------------------------------------------------------------------------
(***************************************************************************)
(* Each step keeps the pace.                                               *)
(***************************************************************************)
PacedNext(r) == Paced(RTSInfo'[r], active'[r], hist'[r], now', ticked', r \in sending')

LEMMA StartPaced ==
  ASSUME IInv, NEW r \in Rts, RTSInfo[r].Status = "IDLE", Start(r),
         UNCHANGED <<now, ticked, active>>
  PROVE  PacedNext(r)
<1> DEFINE first == Read(active[r], DelaySize)
<1>1. /\ RTSInfo \in [Rts -> Info] /\ RTSInfo[r] \in Info /\ hist \in [Rts -> History]
      /\ hist[r] \in History /\ now \in Time
  BY DEF IInv, TypeOK
<1>2. active[r] \in RtsTables
  BY LoadedTable DEF IInv, AllGood, Good
<1>3. /\ RTSInfo'[r].NextCmdPtr = DelaySize
      /\ RTSInfo'[r].NextCmdTime = Plus(now, first.Delay)
      /\ hist'[r].last = now
      /\ first.Delay = 0 => r \in sending'
  BY <1>1 DEF Start, Info, NoRun
<1> HIDE DEF first
<1>4. /\ RTSInfo'[r].NextCmdTime = Plus(now, Read(active[r], RTSInfo'[r].NextCmdPtr).Delay)
      /\ Read(active[r], RTSInfo'[r].NextCmdPtr).Delay = 0 => r \in sending'
  BY <1>3 DEF first
<1>5. Paced(RTSInfo'[r], active[r], hist'[r], now, ticked', r \in sending')
  BY <1>1, <1>2, <1>3, <1>4, WaitingPaced
<1> QED BY <1>5 DEF PacedNext

LEMMA SendPaced ==
  ASSUME IInv, AllPaced, NEW r \in Rts, SendCommand(r)
  PROVE  PacedNext(r)
<1>1. /\ RTSInfo \in [Rts -> Info] /\ RTSInfo[r] \in Info /\ hist \in [Rts -> History]
      /\ hist[r] \in History /\ now \in Time
      /\ RTSInfo[r].Status = "EXECUTING" /\ UNCHANGED <<now, ticked, active>>
  BY DEF IInv, TypeOK, SendCommand, clock, tables, Due, Executing
<1>2. active[r] \in RtsTables
  BY <1>1, LoadedTable DEF IInv, AllGood, Good
<1>3. CASE UNCHANGED <<RTSInfo, hist, sending>>
  BY <1>1, <1>3 DEF AllPaced, PacedNext
<1>4. ASSUME NEW next,
             next = Stopped(RTSInfo[r]) \/ next = AfterCommand(RTSInfo[r], active[r], now),
             RTSInfo' = [RTSInfo EXCEPT ![r] = next],
             hist' = [hist EXCEPT ![r] = Handled(hist[r], now)],
             sending' = IF GoesOn(next, active[r]) THEN sending ELSE sending \ {r}
      PROVE  PacedNext(r)
  <2>1. RTSInfo'[r] = next /\ hist'[r].last = now
    BY <1>1, <1>4, HandledTyped
  <2>2. CASE next = Stopped(RTSInfo[r])
    <3>1. next.Status = "IDLE"
      BY <1>1, <2>2 DEF Stopped, Info
    <3> QED BY <2>1, <3>1 DEF PacedNext, Paced
  <2>3. CASE next # Stopped(RTSInfo[r])
    <3>1. /\ next.Status = "EXECUTING"
          /\ next.NextCmdTime = Plus(now, Read(active[r], next.NextCmdPtr).Delay)
      BY <1>1, <1>2, <1>4, <2>3, NextCommand
    <3>2. Read(active[r], next.NextCmdPtr).Delay = 0 => r \in sending'
      BY <1>4, <3>1 DEF GoesOn, SendCommand
    <3>3. Paced(next, active[r], hist'[r], now, ticked', r \in sending')
      BY <1>1, <1>2, <2>1, <3>1, <3>2, WaitingPaced
    <3> QED BY <1>1, <2>1, <3>3 DEF PacedNext
  <2> QED BY <2>2, <2>3
<1> QED BY <1>3, <1>4, SendCases

LEMMA TickPaced ==
  ASSUME IInv, AllPaced, NEW r \in Rts, Tick
  PROVE  PacedNext(r)
<1>1. /\ RTSInfo[r] \in Info /\ hist[r] \in History /\ now \in Time
      /\ Good(RTSInfo[r], active[r], hist[r])
      /\ Paced(RTSInfo[r], active[r], hist[r], now, ticked, r \in sending)
  BY DEF IInv, TypeOK, AllGood, AllPaced
<1>2. /\ UNCHANGED <<now, active, RTSInfo, hist>> /\ sending' = Due
  BY DEF Tick, tables
<1> SUFFICES ASSUME RTSInfo[r].Status = "EXECUTING", ~hist[r].swapped, ~hist[r].stepped,
                    r \notin Due
             PROVE  (now - hist[r].last) % TimeMod
                      # Read(active[r], RTSInfo[r].NextCmdPtr).Delay * TicksPerSec
  BY <1>1, <1>2 DEF Paced, PacedNext
<1> DEFINE delay == Read(active[r], RTSInfo[r].NextCmdPtr).Delay
<1>3. After(RTSInfo[r].NextCmdTime, now)
  BY DEF Due, Executing
<1>4. RTSInfo[r].NextCmdTime = Plus(hist[r].last, delay)
  BY <1>1 DEF Paced
<1>5. active[r] \in RtsTables
  BY <1>1, LoadedTable DEF IInv, Good
<1>6. /\ delay * TicksPerSec \in Nat
      /\ delay * TicksPerSec + TimeMod \div 2 < TimeMod
  BY <1>5, DelayFits
<1>7. hist[r].last \in Time
  BY <1>1 DEF History
<1> HIDE DEF delay
<1>8. (now - hist[r].last) % TimeMod # delay * TicksPerSec
  BY <1>1, <1>3, <1>4, <1>6, <1>7, DueWhenElapsed DEF Plus
<1> QED BY <1>8 DEF delay

LEMMA AdvancePaced ==
  ASSUME IInv, AllPaced, NEW r \in Rts, Advance
  PROVE  PacedNext(r)
<1>1. /\ RTSInfo[r] \in Info /\ hist[r] \in History /\ now \in Time
      /\ Good(RTSInfo[r], active[r], hist[r])
      /\ Paced(RTSInfo[r], active[r], hist[r], now, ticked, r \in sending)
  BY DEF IInv, TypeOK, AllGood, AllPaced
<1>2. /\ ticked /\ ~ticked' /\ now' = (now + 1) % TimeMod /\ r \notin sending
      /\ RTSInfo'[r] = RTSInfo[r] /\ hist'[r] = hist[r] /\ active'[r] = active[r]
  BY DEF Advance, Waiting, tables
<1> SUFFICES ASSUME RTSInfo[r].Status = "EXECUTING", ~hist[r].swapped, ~hist[r].stepped
             PROVE  (now' - hist[r].last) % TimeMod
                      <= Read(active[r], RTSInfo[r].NextCmdPtr).Delay * TicksPerSec
  BY <1>1, <1>2 DEF Paced, PacedNext
<1> DEFINE delay == Read(active[r], RTSInfo[r].NextCmdPtr).Delay
           elapsed == (now - hist[r].last) % TimeMod
<1>3. elapsed <= delay * TicksPerSec /\ elapsed # delay * TicksPerSec
  BY <1>1, <1>2 DEF Paced
<1>4. active[r] \in RtsTables
  BY <1>1, LoadedTable DEF IInv, Good
<1>5. /\ delay * TicksPerSec \in Nat
      /\ delay * TicksPerSec + TimeMod \div 2 < TimeMod
  BY <1>4, DelayFits
<1>6. hist[r].last \in Time
  BY <1>1 DEF History
<1>7. elapsed \in Time
  BY <1>1, <1>6, Apart
<1>8. /\ elapsed + 1 <= delay * TicksPerSec /\ elapsed + 1 < TimeMod
  <2> HIDE DEF elapsed, delay
  <2> QED BY <1>3, <1>5, <1>7, HalfRange, RtsAssumption DEF Time
<1>9. (now' - hist[r].last) % TimeMod = elapsed + 1
  BY <1>1, <1>2, <1>6, <1>8, OneMore
<1> QED BY <1>8, <1>9

LEMMA PaceStep ==
  ASSUME IInv, IInv', AllPaced, [Next]_vars  PROVE AllPaced'
<1> SUFFICES ASSUME NEW r \in Rts
             PROVE  PacedNext(r)
  BY DEF AllPaced, PacedNext
<1>1. Paced(RTSInfo[r], active[r], hist[r], now, ticked, r \in sending)
      /\ hist[r] \in History
      /\ hist \in [Rts -> History]
  BY DEF AllPaced, IInv, TypeOK
<1>2. CASE UNCHANGED vars
  BY <1>1, <1>2 DEF vars, clock, tables, PacedNext
<1>3. CASE Tick
  BY <1>3, TickPaced
<1>10. CASE SendCommand(r)
  BY <1>10, SendPaced
<1>4. CASE Start(r) /\ RTSInfo[r].Status = "IDLE" /\ UNCHANGED <<now, ticked, active>>
  BY <1>4, StartPaced
<1>5. CASE Ended(r)
  BY <1>5 DEF Ended, Paced, PacedNext
<1>6. CASE SameRun(r) /\ SameView(r)
  BY <1>1, <1>6 DEF SameRun, SameView, Paced, PacedNext
<1>7. CASE SameRun(r) /\ ReportHousekeeping
  <2>1. CASE pending[r] = NoTable
    <3>1. SameView(r)
      BY <1>1, <1>7, <2>1 DEF ReportHousekeeping, SameView, clock, History
    <3> QED BY <1>1, <1>7, <3>1 DEF SameRun, SameView, Paced, PacedNext
  <2>2. CASE pending[r] # NoTable
    <3>1. hist'[r].swapped
      BY <1>1, <1>7, <2>2 DEF ReportHousekeeping, History
    <3> QED BY <3>1 DEF Paced, PacedNext
  <2> QED BY <2>1, <2>2
<1>8. CASE Advance
  BY <1>8, AdvancePaced
<1>9. ASSUME NEW t \in Time, SameRun(r), StepClock(t)
      PROVE  PacedNext(r)
  <2>1. hist'[r].stepped /\ hist'[r].swapped = hist[r].swapped /\ active'[r] = active[r]
    BY <1>1, <1>9 DEF StepClock, tables, History
  <2> QED BY <1>1, <1>9, <2>1 DEF SameRun, Paced, PacedNext
<1> QED BY <1>2, <1>3, <1>4, <1>5, <1>6, <1>7, <1>8, <1>9, <1>10, StepCases

(* The time an RTS waits for is a delay of its table after its last        *)
(* command, and without clock steps it has not gone by unserved.           *)
THEOREM PaceKept == Spec => []AllPaced
<1>1. Init => AllPaced
  <2> SUFFICES ASSUME Init, NEW r \in Rts  PROVE RTSInfo[r].Status # "EXECUTING"
    BY DEF AllPaced, Paced
  <2> QED BY DEF Init, InfoOf
<1>2. IInv /\ IInv' /\ AllPaced /\ [Next]_vars => AllPaced'
  BY PaceStep
<1> QED BY <1>1, <1>2, EveryRtsGood, PTL DEF Spec

(* SC_RTS_UpdateAll sends no command of a running RTS before its delay has *)
(* gone by, not even where the clock wraps, and without clock steps not a  *)
(* tick later.                                                             *)
THEOREM DelaysAreKept == Spec => DelaysKept
<1> DEFINE Kept1(r) ==
      LET delay   == Read(active[r], RTSInfo[r].NextCmdPtr).Delay * TicksPerSec
          elapsed == (now - hist[r].last) % TimeMod
      IN  /\ elapsed >= delay
          /\ ~hist[r].stepped => elapsed = delay
<1>1. IInv /\ AllPaced /\ [Next]_vars =>
        \A r \in Rts :
          /\ Executing(r) /\ ~hist[r].swapped
          /\ hist'[r].attempted > hist[r].attempted
          => Kept1(r)
  <2> SUFFICES ASSUME IInv, AllPaced, [Next]_vars, NEW r \in Rts, Executing(r),
                      ~hist[r].swapped, hist'[r].attempted > hist[r].attempted
               PROVE  Kept1(r)
    OBVIOUS
  <2> DEFINE delay == Read(active[r], RTSInfo[r].NextCmdPtr).Delay
             elapsed == (now - hist[r].last) % TimeMod
  <2>1. /\ RTSInfo[r].NextCmdTime = Plus(hist[r].last, delay)
        /\ ~hist[r].stepped => elapsed <= delay * TicksPerSec
    BY DEF AllPaced, Paced, Executing
  <2>2. ~After(RTSInfo[r].NextCmdTime, now)
    BY OnlyLoopSends DEF Due
  <2>3. active[r] \in RtsTables
    BY LoadedTable DEF IInv, AllGood, Good, Executing
  <2>4. /\ delay * TicksPerSec \in Nat
        /\ delay * TicksPerSec + TimeMod \div 2 < TimeMod
    BY <2>3, DelayFits
  <2>5. hist[r].last \in Time /\ now \in Time
    BY DEF IInv, TypeOK, History
  <2>6. elapsed \in Int
    <3>1. elapsed \in Time
      BY <2>5, Apart
    <3> HIDE DEF elapsed
    <3> QED BY <3>1 DEF Time
  <2>7. elapsed >= delay * TicksPerSec
    BY <2>1, <2>2, <2>4, <2>5, DueWhenElapsed DEF Plus
  <2> HIDE DEF delay, elapsed
  <2>9. elapsed >= delay * TicksPerSec /\ (~hist[r].stepped => elapsed = delay * TicksPerSec)
    BY <2>1, <2>4, <2>6, <2>7
  <2> QED BY <2>9 DEF delay, elapsed
<1>2. Spec => [][\A r \in Rts :
                   /\ Executing(r) /\ ~hist[r].swapped
                   /\ hist'[r].attempted > hist[r].attempted
                   => Kept1(r)]_vars
  BY <1>1, EveryRtsGood, PaceKept, PTL DEF Spec
<1> QED BY <1>2 DEF DelaysKept

-----------------------------------------------------------------------------
(***************************************************************************)
(* The next command that SC_ReportHousekeeping finds.  Around now,         *)
(* CFE_TIME_Compare orders times as their distances from now.              *)
(***************************************************************************)
Distance(t) ==
  IF (t - now) % TimeMod <= TimeMod \div 4 THEN (t - now) % TimeMod
  ELSE -((now - t) % TimeMod)

LEMMA AfterIsFarther ==
  ASSUME now \in Time, NEW a \in Time, NEW b \in Time, AroundNow(a), AroundNow(b)
  PROVE  /\ Distance(a) \in Int /\ Distance(b) \in Int
         /\ After(a, b) <=> Distance(a) > Distance(b)
<1> DEFINE quarter == TimeMod \div 4
           da == Distance(a)
           db == Distance(b)
<1>1. /\ now \in Int /\ 0 <= now /\ now < TimeMod
      /\ a \in Int /\ 0 <= a /\ a < TimeMod
      /\ b \in Int /\ 0 <= b /\ b < TimeMod
      /\ TimeMod \in Int /\ quarter \in Int /\ 4 * quarter <= TimeMod /\ 0 <= quarter
  BY RtsAssumption DEF Time
<1>2. /\ da \in Int /\ (da < 0 => -quarter < da) /\ da <= quarter
      /\ da = a - now \/ da = a - now + TimeMod \/ da = a - now - TimeMod
  <2>1. /\ (a - now) % TimeMod = IF a >= now THEN a - now ELSE a - now + TimeMod
        /\ (now - a) % TimeMod = IF now >= a THEN now - a ELSE now - a + TimeMod
    BY Apart
  <2>2. (a - now) % TimeMod <= quarter \/ (now - a) % TimeMod < quarter
    BY DEF AroundNow
  <2>3. da = IF (a - now) % TimeMod <= quarter THEN (a - now) % TimeMod
             ELSE -((now - a) % TimeMod)
    BY DEF Distance
  <2> HIDE DEF da, quarter
  <2> QED BY <1>1, <2>1, <2>2, <2>3
<1>3. /\ db \in Int /\ (db < 0 => -quarter < db) /\ db <= quarter
      /\ db = b - now \/ db = b - now + TimeMod \/ db = b - now - TimeMod
  <2>1. /\ (b - now) % TimeMod = IF b >= now THEN b - now ELSE b - now + TimeMod
        /\ (now - b) % TimeMod = IF now >= b THEN now - b ELSE now - b + TimeMod
    BY Apart
  <2>2. (b - now) % TimeMod <= quarter \/ (now - b) % TimeMod < quarter
    BY DEF AroundNow
  <2>3. db = IF (b - now) % TimeMod <= quarter THEN (b - now) % TimeMod
             ELSE -((now - b) % TimeMod)
    BY DEF Distance
  <2> HIDE DEF db, quarter
  <2> QED BY <1>1, <2>1, <2>2, <2>3
<1> HIDE DEF da, db, quarter
<1>4. After(a, b) <=> da > db
  BY <1>1, <1>2, <1>3, HalfRange DEF After
<1> QED BY <1>2, <1>3, <1>4 DEF da, db

(* Of the RTSs 1..i, the report names one that executes and whose next     *)
(* time no other comes before, if any executes.                            *)
Earliest(i) ==
  IF \A r \in 1..i : ~Executing(r) THEN NextRts[i] = None
  ELSE LET p == NextRts[i].number
       IN  /\ p \in 1..i /\ Executing(p)
           /\ NextRts[i].time = RTSInfo[p].NextCmdTime
           /\ \A r \in 1..i : Executing(r) => ~After(NextRts[i].time, RTSInfo[r].NextCmdTime)

AllAroundNow == \A r \in Rts : Executing(r) => AroundNow(RTSInfo[r].NextCmdTime)

LEMMA EarliestStep ==
  ASSUME TypeOK, AllAroundNow, NEW i \in Rts, Earliest(i - 1)
  PROVE  Earliest(i)
<1> DEFINE T(r) == RTSInfo[r].NextCmdTime
           prev == NextRts[i - 1]
<1>1. NumRts \in Nat /\ i \in 1..NumRts /\ now \in Time
  BY RtsAssumption DEF Rts, TypeOK
<1>2. \A r \in 1..i : r \in Rts /\ (r = i \/ r \in 1..(i - 1))
  BY <1>1 DEF Rts
<1>3. \A r \in Rts : T(r) \in Time
  BY DEF TypeOK, Info
<1>4. \A r, q \in Rts : Executing(r) /\ Executing(q) =>
        /\ Distance(T(r)) \in Int
        /\ After(T(r), T(q)) <=> Distance(T(r)) > Distance(T(q))
  BY <1>1, <1>3, AfterIsFarther DEF AllAroundNow
<1>5. \A r \in Rts : Executing(r) => T(r) # 0
  BY DEF AllAroundNow, AroundNow
<1>6. NextRts[i] = Sooner(prev, i)
  BY <1>1, NextRtsUnfolds
<1> HIDE DEF T
<1>7. CASE ~Executing(i)
  <2>1. NextRts[i] = prev
    BY <1>6, <1>7 DEF Sooner
  <2> QED BY <1>1, <1>2, <1>7, <2>1 DEF Earliest
<1>8. CASE Executing(i) /\ \A r \in 1..(i - 1) : ~Executing(r)
  <2>1. prev = None
    BY <1>8 DEF Earliest
  <2>2. NextRts[i] = [number |-> i, time |-> T(i)]
    BY <1>6, <1>8, <2>1 DEF Sooner, None, T
  <2>3. ~After(T(i), T(i))
    BY <1>4, <1>8
  <2> QED BY <1>1, <1>2, <1>8, <2>2, <2>3 DEF Earliest, T
<1>9. CASE Executing(i) /\ ~ \A r \in 1..(i - 1) : ~Executing(r)
  <2> DEFINE p == prev.number
  <2>1. /\ p \in 1..(i - 1) /\ Executing(p) /\ prev.time = T(p)
        /\ \A r \in 1..(i - 1) : Executing(r) => ~After(T(p), T(r))
    BY <1>9 DEF Earliest, T
  <2>2. p \in Rts /\ p \in 1..i /\ i \in 1..i
    BY <1>1, <2>1 DEF Rts
  <2> HIDE DEF p
  <2>3. CASE After(T(p), T(i))
    <3>1. NextRts[i] = [number |-> i, time |-> T(i)]
      BY <1>6, <1>9, <2>1, <2>3 DEF Sooner, T
    <3>2. ASSUME NEW r \in 1..i, Executing(r)  PROVE ~After(T(i), T(r))
      BY <1>2, <1>4, <1>9, <2>1, <2>2, <2>3, <3>2
    <3> QED BY <1>9, <2>2, <3>1, <3>2 DEF Earliest, T
  <2>4. CASE ~After(T(p), T(i))
    <3>1. NextRts[i] = prev
      BY <1>5, <1>6, <2>1, <2>2, <2>4 DEF Sooner, T
    <3>2. ASSUME NEW r \in 1..i, Executing(r)  PROVE ~After(T(p), T(r))
      BY <1>2, <2>1, <2>4, <3>2
    <3> QED BY <1>9, <2>1, <2>2, <3>1, <3>2 DEF Earliest, T, p
  <2> QED BY <2>3, <2>4
<1> QED BY <1>7, <1>8, <1>9

LEMMA ReportIsEarliest ==
  ASSUME TypeOK, AllAroundNow  PROVE Earliest(NumRts)
<1> DEFINE bad == {i \in 0..NumRts : ~Earliest(i)}
<1>1. NumRts \in Nat
  BY RtsAssumption
<1>2. SUFFICES ASSUME bad # {}  PROVE FALSE
  BY <1>1
<1>3. PICK i \in bad : \A j \in bad : i <= j
  <2>1. bad \subseteq Nat
    BY <1>1
  <2> HIDE DEF bad
  <2> QED BY <1>2, <2>1, LeastNatural
<1>4. i # 0
  <2>1. Earliest(0)
    BY NextRtsUnfolds DEF Earliest
  <2> QED BY <1>3, <2>1
<1>5. i \in Rts /\ i - 1 \in 0..NumRts /\ i - 1 \notin bad
  BY <1>1, <1>3, <1>4 DEF Rts
<1> QED BY <1>3, <1>5, EarliestStep

(* The loop of SC_ReportHousekeeping finds the earliest next command, for  *)
(* any number of RTSs, while their times lie around now and none is 0.     *)
THEOREM ReportsEarliest == Spec => HkReportsEarliest
<1> DEFINE Report ==
      IF RtsExecutingStatus' = {}
      THEN NextRtsNumber' = 0 /\ NextRtsTime' = 0
      ELSE /\ NextRtsNumber' \in RtsExecutingStatus'
           /\ NextRtsTime' = RTSInfo[NextRtsNumber'].NextCmdTime
           /\ \A r \in RtsExecutingStatus' : ~After(NextRtsTime', RTSInfo[r].NextCmdTime)
<1>1. IInv /\ [Next]_vars =>
        (ReportHousekeeping
           /\ (\A r \in Rts : Executing(r) => AroundNow(RTSInfo[r].NextCmdTime))
         => Report)
  <2> SUFFICES ASSUME IInv, ReportHousekeeping, AllAroundNow  PROVE Report
    BY DEF AllAroundNow
  <2>1. /\ RtsExecutingStatus' = {r \in Rts : Executing(r)}
        /\ NextRtsNumber' = NextRts[NumRts].number
        /\ NextRtsTime' = NextRts[NumRts].time
    BY DEF ReportHousekeeping
  <2>2. Earliest(NumRts)
    BY ReportIsEarliest DEF IInv
  <2> QED BY <2>1, <2>2 DEF Earliest, None, Rts
<1>2. Spec => [][ReportHousekeeping
                   /\ (\A r \in Rts : Executing(r) => AroundNow(RTSInfo[r].NextCmdTime))
                 => Report]_vars
  BY <1>1, EveryRtsGood, PTL DEF Spec
<1> QED BY <1>2 DEF HkReportsEarliest
=============================================================================
