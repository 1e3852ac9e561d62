------------------------- MODULE HousekeepingProofs -------------------------
(***************************************************************************)
(* Theorems about the housekeeping combiner, for every set of copy tables, *)
(* every number of entries and every pool.                                 *)
(***************************************************************************)
EXTENDS Housekeeping, SequenceTheorems, TLAPS

(* What the fields of a table are.                                         *)
LEMMA TableFields ==
  ASSUME NEW t \in Tables, NEW e \in Entries
  PROVE  /\ t[e].input_mid \in InputMids \union {NoMid}
         /\ t[e].output_mid \in OutputMids \union {NoMid}
         /\ Extent(t, e) \in Nat /\ End(t, e) \in Nat
         /\ Extent(t, e) < LengthMod => End(t, e) = Extent(t, e)
<1>1. t[e] \in CopyTableEntry
  BY HkAssumption
<1>2. Extent(t, e) \in Nat
  BY <1>1, HkAssumption DEF CopyTableEntry, Extent
<1>3. End(t, e) \in Nat /\ (Extent(t, e) < LengthMod => End(t, e) = Extent(t, e))
  BY <1>2, HkAssumption DEF End
<1> QED BY <1>1, <1>2, <1>3 DEF CopyTableEntry

(* The two fields of the entries, as functions.                            *)
LEMMA MidsTyped ==
  ASSUME TableOK
  PROVE  /\ input_mid \in [Entries -> InputMids \union {NoMid}]
         /\ output_mid \in [Entries -> OutputMids \union {NoMid}]
         /\ \A e \in Entries : /\ input_mid[e] = table[e].input_mid
                               /\ output_mid[e] = table[e].output_mid
  BY TableFields DEF TableOK, input_mid, output_mid

(* The message IDs change with the table only.                             *)
LEMMA MidsSame == table' = table => input_mid' = input_mid /\ output_mid' = output_mid
  BY DEF input_mid, output_mid

(* The size of a block is one of the pool's, and holds what it is for.     *)
LEMMA BlockFits ==
  ASSUME NEW t \in Tables, NEW i \in Entries, NEW c \in BlockSize(t, i)
  PROVE  /\ c \in BlockSizes /\ c \in Nat
         /\ \A e \in i..HK_COPY_TABLE_ENTRIES :
              t[e].output_mid = t[i].output_mid => End(t, e) <= c
  BY HkAssumption DEF BlockSize, Fitting

-----------------------------------------------------------------------------
(* Every variable keeps to its type.                                       *)
LEMMA Untouched ==
  /\ BusOK /\ UNCHANGED bus => BusOK'
  /\ ControlOK /\ UNCHANGED <<control, ground, faults>> => ControlOK'
  /\ TableOK /\ UNCHANGED copytbl => TableOK'
  /\ RuntimeOK /\ UNCHANGED <<subscribed, present, copied>> => RuntimeOK'
  /\ PoolOK /\ UNCHANGED <<pool, address>> => PoolOK'
  BY DEF BusOK, ControlOK, TableOK, RuntimeOK, PoolOK, bus, control, copytbl, pool

(* The types hold at boot.                                                 *)
LEMMA TypeInit == Init => TypeOK
<1> SUFFICES ASSUME Init  PROVE TypeOK
  OBVIOUS
<1>1. BusOK
  BY HkAssumption DEF Init, BusOK
<1>2. ControlOK
  <2>1. /\ next \in 1..(HK_COPY_TABLE_ENTRIES + 1)
        /\ ground \in 0..MaxGround /\ faults \in 0..MaxFaults
    BY HkAssumption DEF Init
  <2> QED BY <2>1 DEF Init, ControlOK
<1>3. TableOK
  BY DEF Init, TableOK
<1>4. RuntimeOK
  BY DEF Init, RuntimeOK
<1>5. PoolOK
  BY HkAssumption DEF Init, PoolOK
<1> QED BY <1>1, <1>2, <1>3, <1>4, <1>5 DEF TypeOK

(* Steps of the rest of the system keep the types, and a restart does.     *)
LEMMA TypeOutside ==
  ASSUME TypeOK,
         SendPacket \/ SendRequest \/ PipeError \/ Restart \/ \E t \in Tables : LoadTable(t)
  PROVE  TypeOK'
<1> USE DEF TypeOK
<1>1. ASSUME NEW msg \in Packet \union Request, Send(msg)  PROVE TypeOK'
  <2>1. pipe' \in Seq(Packet \union Request) /\ Len(pipe') <= PipeDepth
    BY <1>1, HkAssumption DEF Send, BusOK
  <2>2. BusOK'
    BY <1>1, <2>1 DEF Send, BusOK
  <2> QED BY <1>1, <2>2, Untouched DEF Send, runtime
<1>2. CASE SendPacket \/ SendRequest
  BY <1>1, <1>2 DEF SendPacket, SendRequest
<1>3. CASE PipeError
  <2>1. ControlOK'
    BY <1>3, HkAssumption DEF PipeError, ControlOK, Stopped
  <2> QED BY <1>3, <2>1, Untouched DEF PipeError, runtime
<1>4. CASE Restart
  <2>1. BusOK'
    BY <1>4, HkAssumption DEF Restart, BusOK
  <2>2. ControlOK'
    <3>1. /\ next' \in 1..(HK_COPY_TABLE_ENTRIES + 1)
          /\ ground' \in 0..MaxGround /\ faults' \in 0..MaxFaults
      BY <1>4, HkAssumption DEF Restart, ControlOK
    <3> QED BY <1>4, <3>1 DEF Restart, ControlOK
  <2>3. TableOK'
    BY <1>4 DEF Restart, TableOK
  <2>4. RuntimeOK'
    BY <1>4 DEF Restart, RuntimeOK
  <2>5. PoolOK'
    BY <1>4, HkAssumption DEF Restart, PoolOK
  <2> QED BY <2>1, <2>2, <2>3, <2>4, <2>5
<1>5. CASE \E t \in Tables : LoadTable(t)
  <2>1. ControlOK'
    BY <1>5, HkAssumption DEF LoadTable, ControlOK, control
  <2>2. TableOK'
    BY <1>5 DEF LoadTable, TableOK
  <2> QED BY <1>5, <2>1, <2>2, Untouched DEF LoadTable, runtime
<1> QED BY <1>2, <1>3, <1>4, <1>5

(* A block that was taken is one of the pool's, and was not in use.        *)
LEMMA PoolTyped ==
  ASSUME TypeOK, NEW i \in Entries, NEW a \in 1..(Len(blocks) + 1),
         GetPoolBuf(BlockSize(table, i), a)
  PROVE  /\ blocks' \in Seq(BlockSizes) /\ room' \in 0..PoolSize
         /\ Len(blocks') >= Len(blocks) /\ a \in 1..Len(blocks')
         /\ \A k \in 1..Len(blocks) : blocks'[k] = blocks[k]
         /\ blocks'[a] \in BlockSize(table, i)
         /\ free' \subseteq 1..Len(blocks')
         /\ \A k \in 1..Len(blocks') : k \in free' <=> (k \in free /\ k # a)
         /\ a \in free \/ a \notin 1..Len(blocks)
         /\ \A k \in 1..Len(blocks') : k \in 1..Len(blocks) \/ k = a
<1>1. CASE a \in FreeOf(BlockSize(table, i)) /\ free' = free \ {a} /\ UNCHANGED <<blocks, room>>
  BY <1>1 DEF TypeOK, PoolOK, FreeOf
<1>2. ASSUME NEW c \in BlockSize(table, i), c + BlockHeader < room,
             room' = room - (c + BlockHeader), blocks' = Append(blocks, c),
             a = Len(blocks) + 1, UNCHANGED free
      PROVE  /\ blocks' \in Seq(BlockSizes) /\ room' \in 0..PoolSize
             /\ Len(blocks') = Len(blocks) + 1
             /\ \A k \in 1..Len(blocks) : blocks'[k] = blocks[k]
             /\ blocks'[a] = c
  <2>1. c \in BlockSizes /\ c \in Nat
    BY <1>2, BlockFits DEF TypeOK, TableOK
  <2>2. room' \in 0..PoolSize
    BY <1>2, <2>1, HkAssumption DEF TypeOK, PoolOK
  <2>3. blocks' \in Seq(BlockSizes) /\ Len(blocks') = Len(blocks) + 1
    BY <1>2, <2>1 DEF TypeOK, PoolOK
  <2>4. (\A k \in 1..Len(blocks) : blocks'[k] = blocks[k]) /\ blocks'[a] = c
    BY <1>2, <2>1 DEF TypeOK, PoolOK
  <2> QED BY <2>2, <2>3, <2>4
<1>3. CASE /\ FreeOf(BlockSize(table, i)) = {} /\ a = Len(blocks) + 1
           /\ \E c \in BlockSize(table, i) :
                /\ c + BlockHeader < room /\ room' = room - (c + BlockHeader)
                /\ blocks' = Append(blocks, c)
           /\ UNCHANGED free
  <2>1. PICK c \in BlockSize(table, i) :
          /\ c + BlockHeader < room /\ room' = room - (c + BlockHeader)
          /\ blocks' = Append(blocks, c)
    BY <1>3
  <2>2. /\ blocks' \in Seq(BlockSizes) /\ room' \in 0..PoolSize
        /\ Len(blocks') = Len(blocks) + 1
        /\ \A k \in 1..Len(blocks) : blocks'[k] = blocks[k]
        /\ blocks'[a] = c
    BY <1>2, <1>3, <2>1
  <2>3. Len(blocks) \in Nat /\ free \subseteq 1..Len(blocks)
    BY DEF TypeOK, PoolOK
  <2> QED BY <1>3, <2>2, <2>3
<1> QED BY <1>1, <1>3 DEF GetPoolBuf

(* Set-up of an entry keeps the types: an allocation makes the pool        *)
(* longer, never shorter.                                                  *)
LEMMA TypeSetup == TypeOK /\ SetupEntry => TypeOK'
<1> SUFFICES ASSUME TypeOK, SetupEntry  PROVE TypeOK'
  OBVIOUS
<1> USE DEF TypeOK
<1>1. next \in Entries /\ next \in Nat /\ HK_COPY_TABLE_ENTRIES \in Nat
  BY HkAssumption DEF SetupEntry, Entries
<1>2. TableOK'
  BY Untouched DEF SetupEntry
<1>3. input_mid \in [Entries -> InputMids \union {NoMid}]
  BY MidsTyped
<1>4. CASE CannotSubscribe(next)
  <2>1. faults' \in 0..MaxFaults /\ next' \in 1..(HK_COPY_TABLE_ENTRIES + 1)
    BY <1>1, <1>4, HkAssumption DEF CannotSubscribe, ControlOK
  <2>2. ControlOK'
    BY <1>4, <2>1 DEF CannotSubscribe, SetupEntry, ControlOK
  <2>3. BusOK' /\ RuntimeOK' /\ PoolOK'
    BY <1>4, Untouched DEF CannotSubscribe, SetupEntry, bus
  <2> QED BY <1>2, <2>2, <2>3
<1>5. CASE Subscribe(next) /\ Allocate(next) /\ UNCHANGED faults
  <2>1. BusOK'
    <3>1. routes' \subseteq InputMids
      BY <1>1, <1>3, <1>5 DEF Subscribe, WantsInput, BusOK
    <3> QED BY <3>1 DEF SetupEntry, BusOK
  <2>2. ControlOK'
    <3>1. next' \in 1..(HK_COPY_TABLE_ENTRIES + 1)
      BY <1>1, <1>5 DEF Allocate, Entries
    <3>2. Status' \in BOOLEAN
      BY <1>5, Zenon DEF Allocate, ControlOK, WantsInput
    <3> QED BY <1>5, <3>1, <3>2 DEF SetupEntry, ControlOK
  <2>3. RuntimeOK'
    <3>1. subscribed' \in [Entries -> BOOLEAN]
      BY <1>5 DEF Subscribe, RuntimeOK
    <3>2. copied' \in [Entries -> BOOLEAN]
      BY <1>5 DEF Allocate, RuntimeOK
    <3> QED BY <3>1, <3>2 DEF SetupEntry, RuntimeOK
  <2>4. PoolOK'
    <3>1. CASE UNCHANGED <<address, copied, pool>>
      BY <3>1, Untouched
    <3>2. ASSUME NEW a \in 1..(Len(blocks) + 1), GetPoolBuf(BlockSize(table, next), a),
                 address' = [e \in Entries |->
                               IF e \in SameFrom(output_mid, next) THEN a ELSE address[e]]
          PROVE  PoolOK'
      <4>1. /\ blocks' \in Seq(BlockSizes) /\ room' \in 0..PoolSize
            /\ Len(blocks') >= Len(blocks) /\ a \in 1..Len(blocks')
            /\ free' \subseteq 1..Len(blocks')
        BY <1>1, <3>2, PoolTyped
      <4>2. Len(blocks) \in Nat /\ Len(blocks') \in Nat
        BY <4>1 DEF PoolOK
      <4>3. address' \in [Entries -> 0..Len(blocks')]
        BY <3>2, <4>1, <4>2 DEF PoolOK
      <4> QED BY <4>1, <4>3 DEF PoolOK
    <3> QED BY <1>5, <3>1, <3>2 DEF Allocate
  <2> QED BY <1>2, <2>1, <2>2, <2>3, <2>4
<1> QED BY <1>4, <1>5 DEF SetupEntry

(* The other steps of a load keep the types.                               *)
LEMMA TypeLoad ==
  TypeOK /\ (SetupEnd \/ ManageCopyTable \/ UnloadEntry \/ UnloadEnd \/ Update) => TypeOK'
<1> SUFFICES ASSUME TypeOK
             PROVE  SetupEnd \/ ManageCopyTable \/ UnloadEntry \/ UnloadEnd \/ Update => TypeOK'
  OBVIOUS
<1> USE DEF TypeOK
<1>1. ASSUME SetupEnd  PROVE TypeOK'
  <2>1. ControlOK' /\ TableOK'
    BY <1>1 DEF SetupEnd, ControlOK, TableOK, Stopped
  <2> QED BY <1>1, <2>1, Untouched DEF SetupEnd, runtime
<1>2. ASSUME ManageCopyTable  PROVE TypeOK'
  <2>1. BusOK'
    <3>1. pipe' \in Seq(Packet \union Request) /\ Len(pipe') <= PipeDepth
      BY <1>2, HkAssumption DEF ManageCopyTable, BusOK
    <3> QED BY <1>2, <3>1 DEF ManageCopyTable, BusOK
  <2>2. next' \in 1..(HK_COPY_TABLE_ENTRIES + 1) /\ task' \in {"idle", "unloading"}
    BY <1>2, HkAssumption DEF ManageCopyTable, ControlOK
  <2>3. ControlOK' /\ TableOK'
    BY <1>2, <2>2 DEF ManageCopyTable, ControlOK, TableOK
  <2> QED BY <1>2, <2>1, <2>3, Untouched DEF ManageCopyTable, runtime
<1>3. ASSUME UnloadEntry  PROVE TypeOK'
  <2>1. next \in Entries /\ next \in Nat /\ HK_COPY_TABLE_ENTRIES \in Nat
    BY <1>3, HkAssumption DEF UnloadEntry, Entries
  <2>2. BusOK'
    BY <1>3 DEF UnloadEntry, Unsubscribe, BusOK
  <2>3. ControlOK'
    <3>1. next' \in 1..(HK_COPY_TABLE_ENTRIES + 1)
      BY <1>3, <2>1 DEF UnloadEntry, Entries
    <3> QED BY <1>3, <3>1 DEF UnloadEntry, ControlOK
  <2>4. RuntimeOK'
    BY <1>3 DEF UnloadEntry, Unsubscribe, PutPoolBuf, RuntimeOK
  <2>5. PoolOK'
    <3>1. CASE address[next] = 0
      BY <1>3, <3>1 DEF UnloadEntry, PutPoolBuf, PoolOK
    <3>2. CASE address[next] # 0
      <4>1. Len(blocks) \in Nat /\ address[next] \in 1..Len(blocks)
        BY <2>1, <3>2 DEF PoolOK
      <4>2. free' \subseteq 1..Len(blocks)
        BY <1>3, <3>2, <4>1 DEF UnloadEntry, PutPoolBuf, PoolOK
      <4>3. address' = [e \in Entries |->
                          IF e \in SameFrom(output_mid, next) THEN 0 ELSE address[e]]
        BY <1>3, <3>2 DEF UnloadEntry, PutPoolBuf
      <4>4. \A e \in Entries : address[e] \in 0..Len(blocks)
        BY DEF PoolOK
      <4>5. address' \in [Entries -> 0..Len(blocks)]
        BY <4>1, <4>3, <4>4
      <4> QED BY <1>3, <4>2, <4>5 DEF UnloadEntry, PoolOK
    <3> QED BY <3>1, <3>2
  <2>6. TableOK'
    BY <1>3, Untouched DEF UnloadEntry
  <2> QED BY <2>2, <2>3, <2>4, <2>5, <2>6
<1>4. ASSUME UnloadEnd  PROVE TypeOK'
  <2>1. ControlOK' /\ TableOK'
    BY <1>4 DEF UnloadEnd, ControlOK, TableOK
  <2> QED BY <1>4, <2>1, Untouched DEF UnloadEnd, runtime
<1>5. ASSUME Update  PROVE TypeOK'
  <2>1. next' \in 1..(HK_COPY_TABLE_ENTRIES + 1)
    BY <1>5, HkAssumption DEF Update
  <2>2. ControlOK'
    BY <1>5, <2>1 DEF Update, ControlOK
  <2>3. TableOK'
    BY <1>5 DEF Update, TableOK
  <2> QED BY <1>5, <2>2, <2>3, Untouched DEF Update, runtime
<1> QED BY <1>1, <1>2, <1>3, <1>4, <1>5

(* The handlers of requests and packets keep the types.                    *)
LEMMA TypeMessages == TypeOK /\ (ReportHousekeeping \/ ProcessPacket) => TypeOK'
<1> SUFFICES ASSUME TypeOK  PROVE ReportHousekeeping \/ ProcessPacket => TypeOK'
  OBVIOUS
<1> USE DEF TypeOK
<1>1. ASSUME pipe # << >>, pipe' = Tail(pipe), UNCHANGED routes  PROVE BusOK'
  BY <1>1, HkAssumption DEF BusOK
<1>2. ASSUME NEW as, NEW behind, UseAddresses(as, behind),
             UNCHANGED <<next, Status, ground, faults>>
      PROVE  ControlOK'
  BY <1>2 DEF UseAddresses, ControlOK, Stopped
<1>3. ASSUME locked' \in BOOLEAN, UNCHANGED <<table, pending>>  PROVE TableOK'
  BY <1>3 DEF TableOK
<1>4. ASSUME ReportHousekeeping  PROVE TypeOK'
  <2>1. RuntimeOK'
    BY <1>4 DEF ReportHousekeeping, Absent, RuntimeOK
  <2>2. BusOK' /\ TableOK' /\ ControlOK'
    BY <1>1, <1>2, <1>3, <1>4 DEF ReportHousekeeping
  <2> QED BY <1>4, <2>1, <2>2, Untouched DEF ReportHousekeeping
<1>5. ASSUME ProcessPacket  PROVE TypeOK'
  <2>1. RuntimeOK'
    BY <1>5 DEF ProcessPacket, RuntimeOK
  <2>2. BusOK' /\ TableOK' /\ ControlOK'
    BY <1>1, <1>2, <1>3, <1>5 DEF ProcessPacket
  <2> QED BY <1>5, <2>1, <2>2, Untouched DEF ProcessPacket
<1> QED BY <1>4, <1>5

(* Every variable of HK keeps to its type: no address leaves the pool.     *)
THEOREM TypeCorrect == Spec => []TypeOK
<1>1. TypeOK /\ [Next]_vars => TypeOK'
  <2>1. TypeOK /\ UNCHANGED vars => TypeOK'
    BY Untouched DEF TypeOK, vars, bus, control, copytbl, runtime, pool
  <2> QED BY <2>1, TypeOutside, TypeSetup, TypeLoad, TypeMessages DEF Next, Task
<1> QED BY <1>1, TypeInit, PTL DEF Spec
-----------------------------------------------------------------------------
(***************************************************************************)
(* The inductive invariant: entries of one input are subscribed together,  *)
(* entries of one packet share a block, the loops have dealt with all the  *)
(* entries before theirs.                                                  *)
(***************************************************************************)
InputsOK ==
  /\ \A e, f \in Entries : input_mid[e] = input_mid[f] => subscribed[e] = subscribed[f]
  /\ \A e \in Entries : subscribed[e] => input_mid[e] # NoMid
  /\ \A m : m \in routes <=> \E e \in Entries : subscribed[e] /\ input_mid[e] = m

PacketsOK ==
  /\ \A e, f \in Entries : output_mid[e] = output_mid[f] => address[e] = address[f]
  /\ \A e, f \in Entries :
       address[e] # 0 /\ address[e] = address[f] => output_mid[e] = output_mid[f]
  /\ \A e \in Entries : address[e] # 0 => output_mid[e] # NoMid
  /\ \A k \in 1..Len(blocks) : k \in free <=> \A e \in Entries : address[e] # k
  /\ \A e \in Entries : address[e] # 0 => End(table, e) <= blocks[address[e]]

SetUp(e) ==
  /\ input_mid[e] # NoMid => subscribed[e]
  /\ output_mid[e] # NoMid => address[e] # 0
Cleared(e) == ~subscribed[e] /\ address[e] = 0

LoopOK ==
  /\ task \in {"booting", "loading"} /\ next \in Entries =>
       \A e \in Entries : e < next => SetUp(e)
  /\ task = "unloading" => \A e \in Entries : e < next => Cleared(e)
  /\ task = "updating" => \A e \in Entries : Cleared(e)

Excused ==
  \/ faults > 0
  \/ \E e \in Entries : output_mid[e] # NoMid /\ address[e] = 0
  \/ \A e \in Entries : input_mid[e] # NoMid => subscribed[e]
CompleteOK ==
  (task = "idle" \/ (task \in {"booting", "loading"} /\ next = HK_COPY_TABLE_ENTRIES + 1)) =>
    Excused

HkInv == TypeOK /\ InputsOK /\ PacketsOK /\ LoopOK /\ CompleteOK

(* The invariant holds at boot.                                            *)
LEMMA InvInit == Init => HkInv
<1> SUFFICES ASSUME Init  PROVE HkInv
  OBVIOUS
<1>1. TypeOK
  BY TypeInit
<1>2. InputsOK
  BY DEF Init, InputsOK
<1>3. PacketsOK
  BY DEF Init, PacketsOK
<1>4. LoopOK
  BY HkAssumption DEF Init, LoopOK, Entries
<1>5. CompleteOK
  <2>1. next = HK_COPY_TABLE_ENTRIES + 1 => Entries = {}
    BY HkAssumption DEF Init, Entries
  <2> QED BY <2>1 DEF Init, CompleteOK, Excused
<1> QED BY <1>1, <1>2, <1>3, <1>4, <1>5 DEF HkInv

(* Steps that leave the table, the runtime table and the pool alone.       *)
LEMMA PartsKept ==
  /\ InputsOK /\ UNCHANGED <<table, subscribed, routes>> => InputsOK'
  /\ PacketsOK /\ UNCHANGED <<table, address, blocks, free>> => PacketsOK'
  /\ /\ Excused /\ UNCHANGED <<table, subscribed, address>>
     /\ ControlOK /\ faults' \in {faults, faults + 1}
     => Excused'
<1>1. InputsOK /\ UNCHANGED <<table, subscribed, routes>> => InputsOK'
  BY MidsSame DEF InputsOK
<1>2. PacketsOK /\ UNCHANGED <<table, address, blocks, free>> => PacketsOK'
  BY MidsSame DEF PacketsOK, End, Extent
<1>3. ASSUME Excused, UNCHANGED <<table, subscribed, address>>,
             ControlOK, faults' \in {faults, faults + 1}
      PROVE  Excused'
  <2>1. faults > 0 => faults' > 0
    BY <1>3, HkAssumption DEF ControlOK
  <2> QED BY <1>3, <2>1, MidsSame DEF Excused
<1> QED BY <1>1, <1>2, <1>3

(* Steps of the rest of the system keep the invariant, and a restart       *)
(* does.                                                                   *)
LEMMA InvOutside ==
  ASSUME HkInv,
         SendPacket \/ SendRequest \/ PipeError \/ Restart \/ \E t \in Tables : LoadTable(t)
  PROVE  HkInv'
<1> USE DEF HkInv
<1>1. TypeOK'
  BY TypeOutside
<1>2. ASSUME UNCHANGED <<table, subscribed, address, routes, blocks, free>>,
             faults' \in {faults, faults + 1},
             UNCHANGED <<task, next>> \/ task' = "ended"
      PROVE  HkInv'
  <2>1. InputsOK' /\ PacketsOK'
    BY <1>2, PartsKept
  <2>2. LoopOK'
    BY <1>2, MidsSame DEF LoopOK, SetUp, Cleared
  <2>3. CompleteOK'
    BY <1>2, PartsKept DEF CompleteOK, TypeOK
  <2> QED BY <1>1, <2>1, <2>2, <2>3
<1>3. faults \in Nat
  BY HkAssumption DEF TypeOK, ControlOK
<1>4. CASE SendPacket \/ SendRequest
  BY <1>2, <1>3, <1>4 DEF SendPacket, SendRequest, Send, control, copytbl, runtime, pool
<1>5. CASE PipeError
  BY <1>2, <1>3, <1>5 DEF PipeError, bus, copytbl, runtime, pool
<1>6. CASE \E t \in Tables : LoadTable(t)
  BY <1>2, <1>3, <1>6 DEF LoadTable, bus, control, runtime, pool
<1>7. CASE Restart
  <2>1. InputsOK'
    BY <1>7 DEF Restart, InputsOK
  <2>2. PacketsOK'
    BY <1>7 DEF Restart, PacketsOK
  <2>3. LoopOK'
    BY <1>7, HkAssumption DEF Restart, LoopOK, Entries
  <2>4. CompleteOK'
    <3>1. next' = HK_COPY_TABLE_ENTRIES + 1 => Entries = {}
      BY <1>7, HkAssumption DEF Restart, Entries
    <3> QED BY <1>7, <3>1 DEF Restart, CompleteOK, Excused
  <2> QED BY <1>1, <2>1, <2>2, <2>3, <2>4
<1> QED BY <1>4, <1>5, <1>6, <1>7

(* The handlers of requests and packets keep the invariant.                *)
LEMMA InvMessages == HkInv /\ (ReportHousekeeping \/ ProcessPacket) => HkInv'
<1> SUFFICES ASSUME HkInv, ReportHousekeeping \/ ProcessPacket  PROVE HkInv'
  OBVIOUS
<1> USE DEF HkInv
<1>1. /\ UNCHANGED <<table, subscribed, address, routes, blocks, free, next, faults>>
      /\ task = "idle" /\ task' \in {"idle"} \union Stopped
  BY DEF ReportHousekeeping, ProcessPacket, UseAddresses, Stopped, pool
<1>2. InputsOK' /\ PacketsOK'
  BY <1>1, PartsKept
<1>3. faults \in Nat
  BY HkAssumption DEF TypeOK, ControlOK
<1>4. LoopOK' /\ CompleteOK'
  BY <1>1, <1>3, PartsKept DEF LoopOK, CompleteOK, TypeOK, Stopped
<1> QED BY <1>2, <1>4, TypeMessages

-----------------------------------------------------------------------------
(* What set-up of an entry does to the inputs: no entry before it has this *)
(* input and is not subscribed, so all with this input are marked.         *)
LEMMA SubscribeSets ==
  ASSUME HkInv, SetupEntry, Subscribe(next)
  PROVE  /\ \A e \in Entries : subscribed'[e] <=>
              subscribed[e] \/ (input_mid[next] # NoMid /\ input_mid[e] = input_mid[next])
         /\ \A m : m \in routes' <=>
              m \in routes \/ (input_mid[next] # NoMid /\ m = input_mid[next])
<1> USE DEF HkInv
<1>1. /\ next \in Entries /\ next \in Nat
      /\ \A e \in Entries : e < next => SetUp(e)
      /\ \A e \in Entries : e \in Nat /\ e <= HK_COPY_TABLE_ENTRIES
  BY HkAssumption DEF SetupEntry, LoopOK, Entries
<1>2. CASE WantsInput(next)
  <2>1. \A e \in Entries : input_mid[e] = input_mid[next] => ~(e < next)
    BY <1>1, <1>2 DEF InputsOK, SetUp, WantsInput
  <2>2. \A e \in Entries : input_mid[e] = input_mid[next] <=> e \in SameFrom(input_mid, next)
    BY <1>1, <2>1, HkAssumption DEF SameFrom, Entries
  <2> QED BY <1>2, <2>2 DEF Subscribe, WantsInput, TypeOK, RuntimeOK
<1>3. CASE ~WantsInput(next)
  BY <1>1, <1>3 DEF Subscribe, WantsInput, InputsOK
<1> QED BY <1>2, <1>3

(* Set-up of an entry keeps the entries of one input together.             *)
LEMMA InputsSetUp ==
  ASSUME HkInv, SetupEntry, Subscribe(next)  PROVE InputsOK'
<1>1. input_mid' = input_mid /\ next \in Entries
  BY MidsSame DEF SetupEntry, copytbl
<1>2. /\ \A e \in Entries : subscribed'[e] <=>
           subscribed[e] \/ (input_mid[next] # NoMid /\ input_mid[e] = input_mid[next])
      /\ \A m : m \in routes' <=>
           m \in routes \/ (input_mid[next] # NoMid /\ m = input_mid[next])
  BY SubscribeSets
<1>3. /\ subscribed \in [Entries -> BOOLEAN] /\ subscribed' \in [Entries -> BOOLEAN]
  BY TypeSetup DEF HkInv, TypeOK, RuntimeOK
<1>4. \A e, f \in Entries : input_mid[e] = input_mid[f] => subscribed'[e] = subscribed'[f]
  BY <1>2, <1>3 DEF HkInv, InputsOK
<1>5. \A e \in Entries : subscribed'[e] => input_mid[e] # NoMid
  BY <1>2 DEF HkInv, InputsOK
<1>6. \A m : m \in routes' <=> \E e \in Entries : subscribed'[e] /\ input_mid[e] = m
  BY <1>1, <1>2 DEF HkInv, InputsOK
<1> QED BY <1>1, <1>4, <1>5, <1>6 DEF InputsOK

(* What an allocation does to the packets.                                 *)
LEMMA PacketsAllocated ==
  ASSUME HkInv, SetupEntry, WantsPacket(next), NEW a \in 1..(Len(blocks) + 1),
         GetPoolBuf(BlockSize(table, next), a),
         address' = [e \in Entries |-> IF e \in SameFrom(output_mid, next) THEN a ELSE address[e]]
  PROVE  /\ PacketsOK'
         /\ \A e \in Entries : address[e] # 0 => address'[e] # 0
         /\ address'[next] # 0
<1> USE DEF HkInv
<1>1. /\ next \in Entries /\ next \in Nat
      /\ \A e \in Entries : e < next => SetUp(e)
      /\ \A e \in Entries : e \in Nat /\ e <= HK_COPY_TABLE_ENTRIES
      /\ table' = table /\ input_mid' = input_mid /\ output_mid' = output_mid
  BY HkAssumption, MidsSame DEF SetupEntry, LoopOK, Entries, copytbl
<1>2. \A e \in Entries : output_mid[e] = output_mid[next] => ~(e < next)
  BY <1>1 DEF PacketsOK, SetUp, WantsPacket
<1>3. \A e \in Entries : output_mid[e] = output_mid[next] <=> e \in SameFrom(output_mid, next)
  BY <1>1, <1>2, HkAssumption DEF SameFrom, Entries
<1>4. \A e \in Entries :
        address'[e] = IF output_mid[e] = output_mid[next] THEN a ELSE address[e]
  BY <1>3
<1>5. /\ Len(blocks') >= Len(blocks) /\ a \in 1..Len(blocks')
      /\ \A k \in 1..Len(blocks) : blocks'[k] = blocks[k]
      /\ blocks'[a] \in BlockSize(table, next)
      /\ \A k \in 1..Len(blocks') : k \in free' <=> (k \in free /\ k # a)
      /\ a \in free \/ a \notin 1..Len(blocks)
      /\ \A k \in 1..Len(blocks') : k \in 1..Len(blocks) \/ k = a
      /\ Len(blocks) \in Nat /\ Len(blocks') \in Nat
  BY <1>1, PoolTyped DEF TypeOK, PoolOK
<1>6. /\ a # 0 /\ \A e \in Entries : address[e] # a /\ address[e] \in 0..Len(blocks)
      /\ free \subseteq 1..Len(blocks)
  BY <1>5 DEF PacketsOK, TypeOK, PoolOK
<1>7. \A e, f \in Entries : output_mid[e] = output_mid[f] => address'[e] = address'[f]
  BY <1>4 DEF PacketsOK
<1>8. \A e, f \in Entries :
        address'[e] # 0 /\ address'[e] = address'[f] => output_mid[e] = output_mid[f]
  BY <1>4, <1>6 DEF PacketsOK
<1>9. \A e \in Entries : address'[e] # 0 => output_mid[e] # NoMid
  BY <1>4 DEF PacketsOK, WantsPacket
<1>10. \A k \in 1..Len(blocks') : k \in free' <=> \A e \in Entries : address'[e] # k
  <2> SUFFICES ASSUME NEW k \in 1..Len(blocks')
               PROVE  k \in free' <=> \A e \in Entries : address'[e] # k
    OBVIOUS
  <2>1. CASE k = a
    BY <1>1, <1>4, <1>5, <2>1
  <2>2. CASE k # a
    <3>1. \A e \in Entries : address[e] # 0 => output_mid[e] # output_mid[next]
      BY <1>1 DEF PacketsOK, WantsPacket
    <3>2. \A e \in Entries : address'[e] = k <=> address[e] = k
      BY <1>4, <1>5, <2>2, <3>1
    <3> QED BY <1>5, <2>2, <3>2 DEF PacketsOK
  <2> QED BY <2>1, <2>2
<1>11. \A e \in Entries : address'[e] # 0 => End(table, e) <= blocks'[address'[e]]
  <2> SUFFICES ASSUME NEW e \in Entries, address'[e] # 0
               PROVE  End(table, e) <= blocks'[address'[e]]
    OBVIOUS
  <2>1. CASE output_mid[e] = output_mid[next]
    <3>1. e \in next..HK_COPY_TABLE_ENTRIES
      BY <1>1, <1>2, <2>1, HkAssumption
    <3>2. table[e].output_mid = table[next].output_mid
      BY <1>1, <2>1, MidsTyped DEF TypeOK
    <3> QED BY <1>1, <1>4, <1>5, <2>1, <3>1, <3>2, BlockFits DEF TypeOK, TableOK
  <2>2. CASE output_mid[e] # output_mid[next]
    <3>1. address'[e] = address[e] /\ address[e] \in 1..Len(blocks)
      BY <1>4, <1>5, <1>6, <2>2
    <3> QED BY <1>5, <3>1 DEF PacketsOK
  <2> QED BY <2>1, <2>2
<1>12. PacketsOK'
  BY <1>1, <1>7, <1>8, <1>9, <1>10, <1>11 DEF PacketsOK, End, Extent
<1> QED BY <1>1, <1>4, <1>6, <1>12

(* Set-up of an entry keeps the invariant, whichever call fails.           *)
LEMMA InvSetup == HkInv /\ SetupEntry => HkInv'
<1> SUFFICES ASSUME HkInv, SetupEntry  PROVE HkInv'
  OBVIOUS
<1> USE DEF HkInv
<1>1. /\ next \in Entries /\ next \in Nat /\ HK_COPY_TABLE_ENTRIES \in Nat
      /\ \A e \in Entries : e < next => SetUp(e)
      /\ \A e \in Entries : e \in Nat /\ e <= HK_COPY_TABLE_ENTRIES
      /\ HK_COPY_TABLE_ENTRIES + 1 \notin Entries
      /\ table' = table /\ input_mid' = input_mid /\ output_mid' = output_mid
      /\ task' = task /\ task \in {"booting", "loading"}
  BY HkAssumption, MidsSame DEF SetupEntry, LoopOK, Entries, copytbl
<1>2. TypeOK'
  BY TypeSetup
<1>3. CASE CannotSubscribe(next)
  <2>1. InputsOK' /\ PacketsOK'
    BY <1>1, <1>3, PartsKept DEF CannotSubscribe, pool
  <2>2. LoopOK'
    BY <1>1, <1>3 DEF CannotSubscribe, LoopOK
  <2>3. faults' > 0
    BY <1>3, HkAssumption DEF CannotSubscribe, TypeOK, ControlOK
  <2>4. CompleteOK'
    BY <2>3 DEF CompleteOK, Excused
  <2> QED BY <1>2, <2>1, <2>2, <2>4
<1>4. CASE Subscribe(next) /\ Allocate(next)
  <2>1. InputsOK'
    BY <1>4, InputsSetUp
  <2>2. /\ \A e \in Entries : subscribed[e] => subscribed'[e]
        /\ input_mid[next] # NoMid => subscribed'[next]
    BY <1>1, <1>4, SubscribeSets
  <2>3. ASSUME PacketsOK', next' = next + 1,
               \A e \in Entries : address[e] # 0 => address'[e] # 0,
               output_mid[next] # NoMid => address'[next] # 0
        PROVE  HkInv'
    <3>1. \A e \in Entries : e < next + 1 => e < next \/ e = next
      BY <1>1
    <3>2. \A e \in Entries : e < next + 1 => SetUp(e)'
      BY <1>1, <2>2, <2>3, <3>1 DEF SetUp
    <3>3. LoopOK'
      BY <1>1, <2>3, <3>2 DEF LoopOK
    <3>4. ASSUME next' = HK_COPY_TABLE_ENTRIES + 1  PROVE Excused'
      <4>1. \A e \in Entries : e < next + 1
        BY <1>1, <2>3, <3>4
      <4> QED BY <1>1, <3>2, <4>1 DEF Excused, SetUp
    <3>5. CompleteOK'
      BY <1>1, <3>4 DEF CompleteOK
    <3> QED BY <1>2, <2>1, <2>3, <3>3, <3>5
  <2>4. CASE ~WantsPacket(next) /\ next' = next + 1 /\ UNCHANGED <<address, copied, pool>>
    <3>1. PacketsOK'
      BY <1>1, <2>4, PartsKept DEF pool
    <3> QED BY <2>3, <2>4, <3>1 DEF WantsPacket
  <2>5. ASSUME WantsPacket(next), next' = next + 1, NEW a \in 1..(Len(blocks) + 1),
               GetPoolBuf(BlockSize(table, next), a),
               address' = [e \in Entries |->
                             IF e \in SameFrom(output_mid, next) THEN a ELSE address[e]]
        PROVE  HkInv'
    BY <2>3, <2>5, PacketsAllocated
  <2>6. CASE /\ WantsPacket(next) /\ next' = HK_COPY_TABLE_ENTRIES + 1
             /\ UNCHANGED <<address, copied, pool>>
    <3>1. PacketsOK'
      BY <1>1, <2>6, PartsKept DEF pool
    <3>2. LoopOK'
      BY <1>1, <2>6 DEF LoopOK
    <3>3. CompleteOK'
      BY <1>1, <2>6 DEF CompleteOK, Excused, WantsPacket
    <3> QED BY <1>2, <2>1, <3>1, <3>2, <3>3
  <2> QED BY <1>4, <2>4, <2>5, <2>6 DEF Allocate
<1> QED BY <1>3, <1>4 DEF SetupEntry

-----------------------------------------------------------------------------
(* What clearing of an entry does: nothing before it holds its input or    *)
(* its packet, so no entry does any more.                                  *)
LEMMA InputsCleared ==
  ASSUME HkInv, UnloadEntry
  PROVE  /\ \A e \in Entries :
              subscribed'[e] <=> subscribed[e] /\ input_mid[e] # input_mid[next]
         /\ \A m : m \in routes' <=> m \in routes /\ m # input_mid[next]
<1> USE DEF HkInv
<1>1. /\ next \in Entries /\ next \in Nat
      /\ \A e \in Entries : e < next => Cleared(e)
      /\ \A e \in Entries : e \in Nat /\ e <= HK_COPY_TABLE_ENTRIES
  BY HkAssumption DEF UnloadEntry, LoopOK, Entries
<1>2. CASE subscribed[next]
  <2>1. \A e \in Entries : input_mid[e] = input_mid[next] => ~(e < next)
    BY <1>1, <1>2 DEF InputsOK, Cleared
  <2>2. \A e \in Entries : input_mid[e] = input_mid[next] <=> e \in SameFrom(input_mid, next)
    BY <1>1, <2>1, HkAssumption DEF SameFrom, Entries
  <2> QED BY <1>2, <2>2 DEF UnloadEntry, Unsubscribe, TypeOK, RuntimeOK
<1>3. CASE ~subscribed[next]
  <2>1. \A e \in Entries : subscribed[e] => input_mid[e] # input_mid[next]
    BY <1>1, <1>3 DEF InputsOK
  <2> QED BY <1>3, <2>1 DEF UnloadEntry, Unsubscribe, InputsOK
<1> QED BY <1>2, <1>3

(* The packet of the entry is returned, and nothing points to it any       *)
(* more.                                                                   *)
LEMMA PacketsCleared ==
  ASSUME HkInv, UnloadEntry
  PROVE  /\ \A e \in Entries :
              address'[e] = IF output_mid[e] = output_mid[next] THEN 0 ELSE address[e]
         /\ \A k \in 1..Len(blocks) : k \in free' <=> k \in free \/ k = address[next]
<1> USE DEF HkInv
<1>1. /\ next \in Entries /\ next \in Nat
      /\ \A e \in Entries : e < next => Cleared(e)
      /\ \A e \in Entries : e \in Nat /\ e <= HK_COPY_TABLE_ENTRIES
  BY HkAssumption DEF UnloadEntry, LoopOK, Entries
<1>2. CASE address[next] # 0
  <2>1. \A e \in Entries : output_mid[e] = output_mid[next] => ~(e < next)
    BY <1>1, <1>2 DEF PacketsOK, Cleared
  <2>2. \A e \in Entries : output_mid[e] = output_mid[next] <=> e \in SameFrom(output_mid, next)
    BY <1>1, <2>1, HkAssumption DEF SameFrom, Entries
  <2> QED BY <1>2, <2>2 DEF UnloadEntry, PutPoolBuf
<1>3. CASE address[next] = 0
  <2>1. \A e \in Entries : output_mid[e] = output_mid[next] => address[e] = 0
    BY <1>1, <1>3 DEF PacketsOK
  <2> QED BY <1>3, <2>1 DEF UnloadEntry, PutPoolBuf
<1> QED BY <1>2, <1>3

(* Clearing of an entry keeps the invariant.                               *)
LEMMA InvUnload == HkInv /\ UnloadEntry => HkInv'
<1> SUFFICES ASSUME HkInv, UnloadEntry  PROVE HkInv'
  OBVIOUS
<1> USE DEF HkInv
<1>1. /\ next \in Entries /\ next \in Nat /\ next' = next + 1
      /\ \A e \in Entries : e < next => Cleared(e)
      /\ \A e \in Entries : e \in Nat
      /\ table' = table /\ input_mid' = input_mid /\ output_mid' = output_mid
      /\ blocks' = blocks /\ task' = "unloading"
  BY HkAssumption, MidsSame DEF UnloadEntry, LoopOK, Entries, copytbl
<1>2. TypeOK'
  BY TypeLoad
<1>3. /\ \A e \in Entries :
           subscribed'[e] <=> subscribed[e] /\ input_mid[e] # input_mid[next]
      /\ \A m : m \in routes' <=> m \in routes /\ m # input_mid[next]
  BY InputsCleared
<1>4. /\ \A e \in Entries :
           address'[e] = IF output_mid[e] = output_mid[next] THEN 0 ELSE address[e]
      /\ \A k \in 1..Len(blocks) : k \in free' <=> k \in free \/ k = address[next]
  BY PacketsCleared
<1>5. InputsOK'
  <2>1. subscribed \in [Entries -> BOOLEAN] /\ subscribed' \in [Entries -> BOOLEAN]
    BY <1>2 DEF TypeOK, RuntimeOK
  <2>2. \A e, f \in Entries : input_mid[e] = input_mid[f] => subscribed'[e] = subscribed'[f]
    BY <1>3, <2>1 DEF InputsOK
  <2>3. \A e \in Entries : subscribed'[e] => input_mid[e] # NoMid
    BY <1>3 DEF InputsOK
  <2>4. \A m : m \in routes' <=> \E e \in Entries : subscribed'[e] /\ input_mid[e] = m
    BY <1>3 DEF InputsOK
  <2> QED BY <1>1, <2>2, <2>3, <2>4 DEF InputsOK
<1>6. PacketsOK'
  <2>1. \A e, f \in Entries : output_mid[e] = output_mid[f] => address'[e] = address'[f]
    BY <1>4 DEF PacketsOK
  <2>2. \A e, f \in Entries :
          address'[e] # 0 /\ address'[e] = address'[f] => output_mid[e] = output_mid[f]
    BY <1>4 DEF PacketsOK
  <2>3. \A e \in Entries : address'[e] # 0 => output_mid[e] # NoMid
    BY <1>4 DEF PacketsOK
  <2>4. \A k \in 1..Len(blocks) : k \in free' <=> \A e \in Entries : address'[e] # k
    <3> SUFFICES ASSUME NEW k \in 1..Len(blocks)
                 PROVE  k \in free' <=> \A e \in Entries : address'[e] # k
      OBVIOUS
    <3>1. k # 0 /\ Len(blocks) \in Nat
      BY DEF TypeOK, PoolOK
    <3>2. CASE k = address[next]
      <4>1. \A e \in Entries : address[e] = k => output_mid[e] = output_mid[next]
        BY <1>1, <3>1, <3>2 DEF PacketsOK
      <4> QED BY <1>4, <3>1, <3>2, <4>1
    <3>3. CASE k # address[next]
      <4>1. \A e \in Entries : address[e] = k => output_mid[e] # output_mid[next]
        BY <1>1, <3>3 DEF PacketsOK
      <4>2. \A e \in Entries : address'[e] = k <=> address[e] = k
        BY <1>4, <3>1, <4>1
      <4> QED BY <1>4, <3>3, <4>2 DEF PacketsOK
    <3> QED BY <3>2, <3>3
  <2>5. \A e \in Entries : address'[e] # 0 => End(table, e) <= blocks[address'[e]]
    BY <1>4 DEF PacketsOK
  <2> QED BY <1>1, <2>1, <2>2, <2>3, <2>4, <2>5 DEF PacketsOK, End, Extent
<1>7. LoopOK'
  <2>1. \A e \in Entries : e < next + 1 => e < next \/ e = next
    BY <1>1
  <2>2. \A e \in Entries : e < next + 1 => Cleared(e)'
    BY <1>1, <1>3, <1>4, <2>1 DEF Cleared
  <2> QED BY <1>1, <2>2 DEF LoopOK
<1>8. CompleteOK'
  BY <1>1 DEF CompleteOK
<1> QED BY <1>2, <1>5, <1>6, <1>7, <1>8

(* The other steps of a load keep the invariant: the table changes only    *)
(* when all entries are clear.                                             *)
LEMMA InvLoad == HkInv /\ (SetupEnd \/ ManageCopyTable \/ UnloadEnd \/ Update) => HkInv'
<1> SUFFICES ASSUME HkInv, SetupEnd \/ ManageCopyTable \/ UnloadEnd \/ Update  PROVE HkInv'
  OBVIOUS
<1> USE DEF HkInv
<1>1. TypeOK'
  BY TypeLoad
<1>2. faults \in Nat /\ HK_COPY_TABLE_ENTRIES \in Nat
  BY HkAssumption DEF TypeOK, ControlOK
<1>3. CASE SetupEnd
  <2>1. InputsOK' /\ PacketsOK'
    BY <1>3, PartsKept DEF SetupEnd, bus, runtime, pool
  <2>2. LoopOK'
    BY <1>3 DEF SetupEnd, LoopOK
  <2>3. Excused'
    BY <1>2, <1>3, PartsKept DEF SetupEnd, CompleteOK, TypeOK, runtime
  <2>4. CompleteOK'
    BY <2>3 DEF CompleteOK
  <2> QED BY <1>1, <2>1, <2>2, <2>4
<1>4. CASE ManageCopyTable
  <2>1. InputsOK' /\ PacketsOK'
    BY <1>4, PartsKept DEF ManageCopyTable, runtime, pool
  <2>2. \A e \in Entries : ~(e < 1)
    BY DEF Entries
  <2>3. LoopOK'
    BY <1>4, <2>2 DEF ManageCopyTable, LoopOK
  <2>4. CompleteOK'
    BY <1>2, <1>4, PartsKept DEF ManageCopyTable, CompleteOK, TypeOK, runtime
  <2> QED BY <1>1, <2>1, <2>3, <2>4
<1>5. CASE UnloadEnd
  <2>1. InputsOK' /\ PacketsOK'
    BY <1>5, PartsKept DEF UnloadEnd, bus, runtime, pool
  <2>2. \A e \in Entries : e < next
    BY <1>2, <1>5 DEF UnloadEnd, Entries
  <2>3. LoopOK'
    BY <1>5, <2>2 DEF UnloadEnd, LoopOK, Cleared, runtime
  <2>4. CompleteOK'
    BY <1>5 DEF UnloadEnd, CompleteOK
  <2> QED BY <1>1, <2>1, <2>3, <2>4
<1>6. CASE Update
  <2>1. \A e \in Entries : ~subscribed[e] /\ address[e] = 0
    BY <1>6 DEF Update, LoopOK, Cleared
  <2>2. InputsOK'
    <3>1. \A m : m \notin routes
      BY <2>1 DEF InputsOK
    <3>2. subscribed' = subscribed /\ routes' = routes
      BY <1>6 DEF Update, bus, runtime
    <3>3. \A e \in Entries : subscribed'[e] = FALSE
      BY <2>1, <3>2 DEF TypeOK, RuntimeOK
    <3> QED BY <3>1, <3>2, <3>3 DEF InputsOK
  <2>3. PacketsOK'
    BY <1>6, <2>1 DEF Update, PacketsOK, runtime, pool
  <2>4. \A e \in Entries : ~(e < 1)
    BY DEF Entries
  <2>5. LoopOK'
    BY <1>6, <2>4 DEF Update, LoopOK
  <2>6. next' = HK_COPY_TABLE_ENTRIES + 1 => Entries = {}
    BY <1>2, <1>6 DEF Update, Entries
  <2>7. CompleteOK'
    BY <1>6, <2>6 DEF Update, CompleteOK, Excused
  <2> QED BY <1>1, <2>2, <2>3, <2>5, <2>7
<1> QED BY <1>3, <1>4, <1>5, <1>6

(* The invariant holds.                                                    *)
LEMMA Invariant == Spec => []HkInv
<1>1. HkInv /\ UNCHANGED vars => HkInv'
  <2> SUFFICES ASSUME HkInv, UNCHANGED vars  PROVE HkInv'
    OBVIOUS
  <2> USE DEF HkInv, vars, bus, control, copytbl, runtime, pool
  <2>1. TypeOK'
    BY Untouched DEF TypeOK
  <2>2. InputsOK' /\ PacketsOK'
    BY PartsKept
  <2>3. LoopOK' /\ CompleteOK'
    BY MidsSame DEF LoopOK, CompleteOK, SetUp, Cleared, Excused
  <2> QED BY <2>1, <2>2, <2>3
<1>2. HkInv /\ [Next]_vars => HkInv'
  BY <1>1, InvOutside, InvSetup, InvUnload, InvLoad, InvMessages DEF Next, Task
<1> QED BY <1>2, InvInit, PTL DEF Spec

-----------------------------------------------------------------------------
(* The blocks in use are those the runtime table points to, none is lost   *)
(* and no two packets share one, in the middle of a load too, whatever     *)
(* tables were loaded and whichever allocation failed.                     *)
THEOREM PoolSound == Spec => []PoolAccounted
<1>1. HkInv => PoolAccounted
  <2> SUFFICES ASSUME HkInv  PROVE PoolAccounted
    OBVIOUS
  <2>1. free \subseteq 1..Len(blocks) /\ Len(blocks) \in Nat
    BY DEF HkInv, TypeOK, PoolOK
  <2>2. \A k \in 1..Len(blocks) : k \in free <=> k \notin {address[e] : e \in Entries}
    <3>1. \A k \in 1..Len(blocks) : k \in free <=> \A e \in Entries : address[e] # k
      BY DEF HkInv, PacketsOK
    <3> QED BY <3>1
  <2>3. free = (1..Len(blocks)) \ {address[e] : e \in Entries}
    BY <2>1, <2>2
  <2> QED BY <2>3 DEF HkInv, PacketsOK, PoolAccounted
<1> QED BY <1>1, Invariant, PTL

(* Nothing is behind its block but what wraps: the size of a block is      *)
(* never less than the end of an entry, as that was worked out.            *)
LEMMA BehindWraps ==
  ASSUME HkInv, NEW e \in Entries, Behind(e)  PROVE Wraps(e)
<1>1. End(table, e) <= blocks[address[e]] /\ Extent(table, e) > blocks[address[e]]
  BY DEF HkInv, PacketsOK, Behind
<1>2. blocks[address[e]] \in Nat
  <2>1. address[e] \in 1..Len(blocks)
    <3>1. address[e] \in 0..Len(blocks) /\ address[e] # 0 /\ Len(blocks) \in Nat
      BY DEF Behind, HkInv, TypeOK, PoolOK
    <3> QED BY <3>1
  <2>2. blocks \in Seq(BlockSizes)
    BY DEF HkInv, TypeOK, PoolOK
  <2>3. blocks[address[e]] \in BlockSizes
    BY <2>1, <2>2
  <2> QED BY <2>3, HkAssumption
<1>3. /\ Extent(table, e) \in Nat /\ LengthMod \in Nat
      /\ Extent(table, e) < LengthMod => End(table, e) = Extent(table, e)
  BY TableFields, HkAssumption DEF HkInv, TypeOK, TableOK
<1> QED BY <1>1, <1>2, <1>3 DEF Wraps

OverrunOK == task = "overrun" => \E e \in Entries : Wraps(e)

(* HK gets behind a block by an entry that wraps only, and the table stays *)
(* as it is until HK is started again.                                     *)
LEMMA OverrunNext == HkInv /\ OverrunOK /\ [Next]_vars => OverrunOK'
<1> SUFFICES ASSUME HkInv, OverrunOK, [Next]_vars, task' = "overrun"
             PROVE  (\E e \in Entries : Wraps(e))'
  BY DEF OverrunOK
<1>1. \/ task = "overrun" /\ table' = table
      \/ ProcessPacket /\ \E e \in Entries : Behind(e)
  <2>1. CASE SendPacket \/ SendRequest \/ (\E t \in Tables : LoadTable(t)) \/ UNCHANGED vars
    BY <2>1 DEF SendPacket, SendRequest, Send, LoadTable, vars, control, copytbl
  <2>2. ~(PipeError \/ Restart \/ SetupEnd \/ ManageCopyTable \/ UnloadEnd \/ Update)
    BY DEF PipeError, Restart, SetupEnd, ManageCopyTable, UnloadEnd, Update
  <2>3. ~(SetupEntry \/ UnloadEntry)
    BY DEF SetupEntry, UnloadEntry
  <2>4. ~ReportHousekeeping
    BY DEF ReportHousekeeping, UseAddresses
  <2>5. CASE ProcessPacket
    BY <2>5 DEF ProcessPacket, UseAddresses
  <2> QED BY <2>1, <2>2, <2>3, <2>4, <2>5 DEF Next, Task
<1>2. table' = table /\ \E e \in Entries : Wraps(e)
  BY <1>1, BehindWraps DEF OverrunOK, ProcessPacket
<1> QED BY <1>2 DEF Wraps, Extent

(* What is copied to a packet stays within its block of memory, and HK     *)
(* writes over other memory only for an entry whose end wraps.             *)
THEOREM PacketsHold == Spec => []PacketsFit
<1>1. HkInv /\ OverrunOK => PacketsFit
  BY BehindWraps DEF OverrunOK, PacketsFit
<1>2. Init => OverrunOK
  BY DEF Init, OverrunOK
<1>3. Spec => []OverrunOK
  BY <1>2, OverrunNext, Invariant, PTL DEF Spec
<1> QED BY <1>1, <1>3, Invariant, PTL

(* The software bus routes to HK what the runtime table marks, and HK that *)
(* waits with no failure behind it has subscribed to all it needs.         *)
THEOREM RoutesSound == Spec => []RoutesAsMarked
<1>1. HkInv => RoutesAsMarked
  <2> SUFFICES ASSUME HkInv  PROVE RoutesAsMarked
    OBVIOUS
  <2>1. routes = {input_mid[e] : e \in {f \in Entries : subscribed[f]}}
    BY DEF HkInv, InputsOK
  <2>2. ASSUME task = "idle", faults = 0,
               \A e \in Entries : output_mid[e] = NoMid \/ address[e] # 0
        PROVE  \A e \in Entries : input_mid[e] # NoMid => subscribed[e]
    BY <2>2 DEF HkInv, CompleteOK, Excused
  <2> QED BY <2>1, <2>2 DEF RoutesAsMarked
<1> QED BY <1>1, Invariant, PTL

(* An entry whose data are in its packet is never counted as missing.      *)
THEOREM NoneWronglyMissing == Spec => []NeverWronglyMissing
<1>1. Init => NeverWronglyMissing
  BY DEF Init, NeverWronglyMissing
<1>2. TypeOK /\ NeverWronglyMissing /\ [Next]_vars => NeverWronglyMissing'
  <2> SUFFICES ASSUME TypeOK, NeverWronglyMissing, [Next]_vars
               PROVE  NeverWronglyMissing'
    OBVIOUS
  <2>1. ASSUME \A e \in Entries : copied'[e] => copied[e], UNCHANGED present
        PROVE  NeverWronglyMissing'
    BY <2>1 DEF NeverWronglyMissing
  <2>2. CASE \/ SendPacket \/ SendRequest \/ PipeError \/ SetupEnd \/ ManageCopyTable
             \/ UnloadEnd \/ Update \/ UNCHANGED vars
             \/ \E t \in Tables : LoadTable(t)
    BY <2>1, <2>2 DEF SendPacket, SendRequest, Send, PipeError, SetupEnd, ManageCopyTable,
       UnloadEnd, Update, LoadTable, vars, runtime
  <2>3. CASE Restart
    BY <2>3 DEF Restart, NeverWronglyMissing
  <2>4. CASE SetupEntry
    <3>1. \A e \in Entries : copied'[e] => copied[e]
      BY <2>4 DEF SetupEntry, CannotSubscribe, Allocate
    <3> QED BY <2>1, <2>4, <3>1 DEF SetupEntry
  <2>5. CASE UnloadEntry
    <3>1. \A e \in Entries : copied'[e] => copied[e]
      BY <2>5 DEF UnloadEntry, PutPoolBuf
    <3> QED BY <2>1, <2>5, <3>1 DEF UnloadEntry
  <2>6. CASE ReportHousekeeping
    BY <2>6 DEF ReportHousekeeping, Absent, NeverWronglyMissing
  <2>7. CASE ProcessPacket
    BY <2>7 DEF ProcessPacket, NeverWronglyMissing
  <2> QED BY <2>2, <2>3, <2>4, <2>5, <2>6, <2>7 DEF Next, Task
<1> QED BY <1>1, <1>2, TypeCorrect, PTL DEF Spec
=============================================================================
