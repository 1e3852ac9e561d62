---------------------------- MODULE Housekeeping ----------------------------
(***************************************************************************)
(* The housekeeping combiner HK (ofsw/cfs/hk/fsw/src/hk_task.c): it copies *)
(* pieces of the packets of other applications into packets of its own, as *)
(* its copy table says, and sends these on request.  A load of the copy    *)
(* table unsubscribes its input and returns its packets to a memory pool,  *)
(* entry by entry, and sets up the new table in the same way, while the    *)
(* software bus goes on.                                                   *)
(*                                                                         *)
(* Abstracted: a packet is its MID and length, a block of memory the order *)
(* of its creation; what is copied is left out, and with it the offset in  *)
(* the input.  The counters of HK's own packet, which HK never reads, and  *)
(* the commands that only touch them are left out; so are validation,      *)
(* which accepts every table, and the errors of HK_Init that come before   *)
(* the table is set up.                                                    *)
(***************************************************************************)
EXTENDS Integers, Sequences, FiniteSets

CONSTANTS
  HK_COPY_TABLE_ENTRIES,
  InputMids, OutputMids, NoMid,  (* message IDs; that of an unused field   *)
  Tables, NoTable,               (* copy tables; no load is pending        *)
  BlockSizes,                    (* block sizes of the memory pool         *)
  BlockHeader, PoolSize,         (* descriptor of a block; the whole pool  *)
  Lengths,                       (* lengths of packets                     *)
  LengthMod,                     (* lengths wrap at this (2^16)            *)
  PipeDepth,                     (* messages CmdPipe holds                 *)
  MaxGround,                     (* bound: table loads and restarts        *)
  MaxFaults                      (* bound: calls that fail                 *)

Entries == 1..HK_COPY_TABLE_ENTRIES

CopyTableEntry ==
  [input_mid : InputMids \union {NoMid}, output_mid : OutputMids \union {NoMid},
   output_offset : 0..(LengthMod - 1), num_bytes : 0..(LengthMod - 1)]

ASSUME HkAssumption ==
  /\ HK_COPY_TABLE_ENTRIES \in Nat /\ LengthMod \in Nat \ {0} /\ NoMid \notin InputMids \union OutputMids
  /\ Tables \subseteq [Entries -> CopyTableEntry] /\ NoTable \notin Tables
  /\ BlockSizes \subseteq Nat /\ BlockHeader \in Nat /\ PoolSize \in Nat /\ Lengths \subseteq Nat
  /\ PipeDepth \in Nat /\ MaxGround \in Nat /\ MaxFaults \in Nat

Packet  == [mid : InputMids, length : Lengths]
Request == [MsgIdToSend : OutputMids \union {"HK_HK_TLM_MID"}]

VARIABLES
  pipe, routes,              (* CmdPipe, and the input routed to it        *)
  task, next, Status,        (* the task; its entry in a loop; whether the *)
                             (* status of HK_SetupTables is CFE_SUCCESS    *)
  table, pending, locked,    (* the copy table, its load, its lock         *)
  subscribed, present,       (* the runtime table: input_mid_subscribed,   *)
  address,                   (* input_mid_present, output_mid_address      *)
  blocks, free, room,        (* the pool: sizes of the blocks, those that  *)
                             (* are free, bytes left to create others      *)
  copied,                    (* history: the entry was copied to its       *)
                             (* packet since this was sent or set up       *)
  ground, faults             (* loads, restarts and faults so far          *)

bus     == <<pipe, routes>>
control == <<task, next, Status>>
copytbl == <<table, pending, locked>>
runtime == <<subscribed, present, address>>
pool    == <<blocks, free, room>>
vars    == <<bus, control, copytbl, runtime, pool, copied, ground, faults>>

(* HK has ended, took an exception, or wrote over memory behind a block,   *)
(* after which it may do anything: what follows is not modelled.           *)
Stopped == {"ended", "faulted", "overrun"}

-----------------------------------------------------------------------------
(* Boot: the runtime table is cleared, the pool is created anew, and the   *)
(* table of the file is to be set up.                                      *)
Init ==
  /\ pipe = << >> /\ routes = {}
  /\ task = "booting" /\ next = 1 /\ Status = FALSE
  /\ table \in Tables /\ pending = NoTable /\ locked = TRUE
  /\ subscribed = [e \in Entries |-> FALSE] /\ present = [e \in Entries |-> FALSE]
  /\ address = [e \in Entries |-> 0]
  /\ blocks = << >> /\ free = {} /\ room = PoolSize
  /\ copied = [e \in Entries |-> FALSE]
  /\ ground = 0 /\ faults = 0

-----------------------------------------------------------------------------
(* The rest of the system: a full pipe takes no message; a table is loaded *)
(* unless a load is pending.                                               *)
Send(msg) ==
  /\ task \notin Stopped /\ Len(pipe) < PipeDepth
  /\ pipe' = Append(pipe, msg)
  /\ UNCHANGED <<routes, control, copytbl, runtime, pool, copied, ground, faults>>

SendPacket  == \E p \in Packet : p.mid \in routes /\ Send(p)
SendRequest == \E r \in Request : Send(r)

LoadTable(t) ==
  /\ pending = NoTable /\ ground < MaxGround
  /\ pending' = t /\ ground' = ground + 1
  /\ UNCHANGED <<bus, control, table, locked, runtime, pool, copied, faults>>

-----------------------------------------------------------------------------
(* Memory of the pool.  The block for the packet of entry i is of the      *)
(* least size that holds the end of every entry of the packet from i on,   *)
(* which is worked out in 16 bits.                                         *)
Extent(t, e) == t[e].output_offset + t[e].num_bytes
End(t, e) == Extent(t, e) % LengthMod

(* Fault: only the entry at hand is looked at.                             *)
FittingOne(t, i) == {c \in BlockSizes : End(t, i) <= c}

Fitting(t, i) ==
  {c \in BlockSizes : \A e \in i..HK_COPY_TABLE_ENTRIES :
     t[e].output_mid = t[i].output_mid => End(t, e) <= c}

BlockSize(t, i) == {c \in Fitting(t, i) : \A d \in Fitting(t, i) : c <= d}
FreeOf(sizes) == {a \in free : blocks[a] \in sizes}

(* Fault: the bytes left are not looked at.                                *)
GetPoolBufUnchecked(sizes, a) ==
  \/ a \in FreeOf(sizes) /\ free' = free \ {a} /\ UNCHANGED <<blocks, room>>
  \/ /\ FreeOf(sizes) = {} /\ a = Len(blocks) + 1
     /\ \E c \in sizes : blocks' = Append(blocks, c) /\ room' = room - (c + BlockHeader)
     /\ UNCHANGED free

(* A block of the size is taken from the free ones, or else created.       *)
GetPoolBuf(sizes, a) ==
  \/ a \in FreeOf(sizes) /\ free' = free \ {a} /\ UNCHANGED <<blocks, room>>
  \/ /\ FreeOf(sizes) = {} /\ a = Len(blocks) + 1
     /\ \E c \in sizes : /\ c + BlockHeader < room /\ room' = room - (c + BlockHeader)
                         /\ blocks' = Append(blocks, c)
     /\ UNCHANGED free

OutOfMemory(sizes) ==
  FreeOf(sizes) = {} /\ \A c \in sizes : c + BlockHeader >= room

-----------------------------------------------------------------------------
(* HK_SetupTables, entry i: its input is subscribed and its packet is      *)
(* allocated unless that was done for an entry before it.  A failure ends  *)
(* the loop.  Status is that of the last call: CFE_SUCCESS of a            *)
(* subscription, the size of an allocation, or an error.                   *)
SameFrom(mid, i) == {e \in i..HK_COPY_TABLE_ENTRIES : mid[e] = mid[i]}
input_mid  == [e \in Entries |-> table[e].input_mid]
output_mid == [e \in Entries |-> table[e].output_mid]

WantsInput(i)  == input_mid[i] # NoMid /\ ~subscribed[i]
WantsPacket(i) == output_mid[i] # NoMid /\ address[i] = 0

CannotSubscribe(i) ==
  /\ WantsInput(i) /\ faults < MaxFaults /\ faults' = faults + 1
  /\ next' = HK_COPY_TABLE_ENTRIES + 1 /\ Status' = FALSE
  /\ UNCHANGED <<routes, subscribed, address, copied, pool>>

Subscribe(i) ==
  IF WantsInput(i)
  THEN /\ routes' = routes \union {input_mid[i]}
       /\ subscribed' = [e \in Entries |-> subscribed[e] \/ e \in SameFrom(input_mid, i)]
  ELSE UNCHANGED <<routes, subscribed>>

Allocate(i) ==
  \/ /\ ~WantsPacket(i) /\ next' = i + 1 /\ Status' = (WantsInput(i) \/ Status)
     /\ UNCHANGED <<address, copied, pool>>
  \/ /\ WantsPacket(i) /\ next' = i + 1 /\ Status' = FALSE
     /\ \E a \in 1..(Len(blocks) + 1) :
          /\ GetPoolBuf(BlockSize(table, i), a)
          /\ address' = [e \in Entries |-> IF e \in SameFrom(output_mid, i) THEN a ELSE address[e]]
     /\ copied' = [e \in Entries |-> copied[e] /\ e \notin SameFrom(output_mid, i)]
  \/ /\ WantsPacket(i) /\ OutOfMemory(BlockSize(table, i))
     /\ next' = HK_COPY_TABLE_ENTRIES + 1 /\ Status' = FALSE
     /\ UNCHANGED <<address, copied, pool>>

SetupEntry ==
  /\ task \in {"booting", "loading"} /\ next \in Entries
  /\ \/ CannotSubscribe(next)
     \/ Subscribe(next) /\ Allocate(next) /\ UNCHANGED faults
  /\ UNCHANGED <<pipe, task, copytbl, present, ground>>

(* After start-up a status other than CFE_SUCCESS ends the application,    *)
(* that of a last call that was an allocation too; after a load nobody     *)
(* looks at it.                                                            *)
SetupEnd ==
  /\ task \in {"booting", "loading"} /\ next = HK_COPY_TABLE_ENTRIES + 1
  /\ task' = IF task = "booting" /\ ~Status THEN "ended" ELSE "idle"
  /\ locked' = FALSE
  /\ UNCHANGED <<bus, next, Status, table, pending, runtime, pool, copied, ground, faults>>

-----------------------------------------------------------------------------
(* HK_ManageCopyTable, in the handler of the request for HK's own packet.  *)
IsRequest(msg) == "MsgIdToSend" \in DOMAIN msg

ManageCopyTable ==
  /\ task = "idle" /\ pipe # << >> /\ IsRequest(Head(pipe))
  /\ Head(pipe).MsgIdToSend = "HK_HK_TLM_MID" /\ pipe' = Tail(pipe)
  /\ IF pending = NoTable THEN UNCHANGED <<task, next, locked>>
     ELSE task' = "unloading" /\ next' = 1 /\ locked' = TRUE
  /\ UNCHANGED <<routes, Status, table, pending, runtime, pool, copied, ground, faults>>

(* HK_UnloadTables, entry i: its input is unsubscribed, its packet goes    *)
(* back to the pool.                                                       *)
Unsubscribe(i) ==
  IF subscribed[i]
  THEN /\ routes' = routes \ {input_mid[i]}
       /\ subscribed' = [e \in Entries |-> subscribed[e] /\ e \notin SameFrom(input_mid, i)]
  ELSE UNCHANGED <<routes, subscribed>>

(* Fault: the other entries of the packet keep its address.                *)
PutPoolBufOnly(i) ==
  IF address[i] # 0
  THEN /\ free' = free \union {address[i]}
       /\ address' = [address EXCEPT ![i] = 0]
       /\ copied' = [copied EXCEPT ![i] = FALSE]
  ELSE UNCHANGED <<free, address, copied>>

PutPoolBuf(i) ==
  IF address[i] # 0
  THEN /\ free' = free \union {address[i]}
       /\ address' = [e \in Entries |-> IF e \in SameFrom(output_mid, i) THEN 0 ELSE address[e]]
       /\ copied' = [e \in Entries |-> copied[e] /\ e \notin SameFrom(output_mid, i)]
  ELSE UNCHANGED <<free, address, copied>>

(* Fault: what was subscribed stays marked.                                *)
UnloadEntryMarked ==
  /\ task = "unloading" /\ next \in Entries /\ next' = next + 1
  /\ routes' = IF subscribed[next] THEN routes \ {input_mid[next]} ELSE routes
  /\ PutPoolBuf(next)
  /\ UNCHANGED <<pipe, task, Status, copytbl, subscribed, present, blocks, room, ground, faults>>

UnloadEntry ==
  /\ task = "unloading" /\ next \in Entries /\ next' = next + 1
  /\ Unsubscribe(next) /\ PutPoolBuf(next)
  /\ UNCHANGED <<pipe, task, Status, copytbl, present, blocks, room, ground, faults>>

(* Fault: the address of the table is not released.                        *)
UnloadEndLocked ==
  /\ task = "unloading" /\ next = HK_COPY_TABLE_ENTRIES + 1
  /\ task' = "updating"
  /\ UNCHANGED <<bus, next, Status, copytbl, runtime, pool, copied, ground, faults>>

UnloadEnd ==
  /\ task = "unloading" /\ next = HK_COPY_TABLE_ENTRIES + 1
  /\ task' = "updating" /\ locked' = FALSE
  /\ UNCHANGED <<bus, next, Status, table, pending, runtime, pool, copied, ground, faults>>

(* CFE_TBL_Update, which leaves a locked table alone; then the table is    *)
(* set up, whichever it is.                                                *)
Update ==
  /\ task = "updating" /\ task' = "loading" /\ next' = 1 /\ locked' = TRUE
  /\ Status' = FALSE
  /\ IF locked \/ pending = NoTable THEN UNCHANGED <<table, pending>>
     ELSE table' = pending /\ pending' = NoTable
  /\ UNCHANGED <<bus, runtime, pool, copied, ground, faults>>

-----------------------------------------------------------------------------
(* A use of address 0: the task takes an exception, or goes on where the   *)
(* target maps it.  Data copied behind a block may hit memory in use.      *)
UseAddresses(as, behind) ==
  \/ UNCHANGED task
  \/ 0 \in as /\ task' = "faulted"
  \/ behind /\ task' = "overrun"

Behind(e) == address[e] # 0 /\ Extent(table, e) > blocks[address[e]]

(* HK_ReportHousekeeping: the packet is sent, what is absent was counted,  *)
(* and all its entries are absent from now on.                             *)
Absent(out) == [e \in Entries |-> present[e] /\ output_mid[e] # out]

ReportHousekeeping ==
  /\ task = "idle" /\ pipe # << >> /\ IsRequest(Head(pipe))
  /\ Head(pipe).MsgIdToSend \in OutputMids /\ pipe' = Tail(pipe)
  /\ locked' = FALSE
  /\ LET out == Head(pipe).MsgIdToSend
         es  == {e \in Entries : output_mid[e] = out}
     IN  /\ present' = Absent(out)
         /\ copied' = [e \in Entries |-> copied[e] /\ e \notin es]
         /\ UseAddresses({address[e] : e \in es}, FALSE)
  /\ UNCHANGED <<routes, next, Status, table, pending, subscribed, address, pool, ground, faults>>

(* HK_ProcessPacket: every entry with this input is copied, if the packet  *)
(* is as long as the entry's end, in 16 bits; the table stays locked.      *)
ProcessPacket ==
  /\ task = "idle" /\ pipe # << >> /\ ~IsRequest(Head(pipe)) /\ pipe' = Tail(pipe)
  /\ locked' = TRUE
  /\ LET p  == Head(pipe)
         es == {e \in Entries : input_mid[e] = p.mid /\ End(table, e) <= p.length}
     IN  /\ UseAddresses({address[e] : e \in es}, \E e \in es : Behind(e))
         /\ IF task' \in Stopped THEN UNCHANGED <<present, copied>>
            ELSE /\ present' = [e \in Entries |-> present[e] \/ e \in es]
                 /\ copied' = [e \in Entries |->
                      copied[e] \/ (e \in es /\ address[e] # 0 /\ ~Behind(e))]
  /\ UNCHANGED <<routes, next, Status, table, pending, subscribed, address, pool, ground, faults>>

PipeError ==
  /\ task = "idle" /\ faults < MaxFaults /\ faults' = faults + 1
  /\ task' = "ended"
  /\ UNCHANGED <<bus, next, Status, copytbl, runtime, pool, copied, ground>>

Restart ==
  /\ task \in {"idle"} \union Stopped /\ ground < MaxGround /\ ground' = ground + 1
  /\ pipe' = << >> /\ routes' = {}
  /\ task' = "booting" /\ next' = 1 /\ Status' = FALSE
  /\ table' \in Tables /\ pending' = NoTable /\ locked' = TRUE
  /\ subscribed' = [e \in Entries |-> FALSE] /\ present' = [e \in Entries |-> FALSE]
  /\ address' = [e \in Entries |-> 0]
  /\ blocks' = << >> /\ free' = {} /\ room' = PoolSize
  /\ copied' = [e \in Entries |-> FALSE]
  /\ UNCHANGED faults

Task ==
  \/ SetupEntry \/ SetupEnd
  \/ ManageCopyTable \/ UnloadEntry \/ UnloadEnd \/ Update
  \/ ReportHousekeeping \/ ProcessPacket

Next ==
  \/ Task \/ PipeError \/ Restart
  \/ SendPacket \/ SendRequest
  \/ \E t \in Tables : LoadTable(t)

Spec == Init /\ [][Next]_vars

(* The task is scheduled; the scheduler asks for HK's own packet again and *)
(* again, and now and then the pipe has room for it.                       *)
FairSpec ==
  /\ Spec /\ WF_vars(Task)
  /\ SF_vars(Send([MsgIdToSend |-> "HK_HK_TLM_MID"]))

-----------------------------------------------------------------------------
(***************************************************************************)
(* Properties                                                              *)
(***************************************************************************)

(* Every variable keeps to its type.                                       *)
BusOK ==
  /\ pipe \in Seq(Packet \union Request) /\ Len(pipe) <= PipeDepth
  /\ routes \subseteq InputMids
ControlOK ==
  /\ task \in {"booting", "idle", "unloading", "updating", "loading"} \union Stopped
  /\ next \in 1..(HK_COPY_TABLE_ENTRIES + 1) /\ Status \in BOOLEAN
  /\ ground \in 0..MaxGround /\ faults \in 0..MaxFaults
TableOK ==
  table \in Tables /\ pending \in Tables \union {NoTable} /\ locked \in BOOLEAN
RuntimeOK ==
  /\ subscribed \in [Entries -> BOOLEAN] /\ present \in [Entries -> BOOLEAN]
  /\ copied \in [Entries -> BOOLEAN]
PoolOK ==
  /\ blocks \in Seq(BlockSizes) /\ free \subseteq 1..Len(blocks) /\ room \in 0..PoolSize
  /\ address \in [Entries -> 0..Len(blocks)]
TypeOK == BusOK /\ ControlOK /\ TableOK /\ RuntimeOK /\ PoolOK

(* The blocks in use are those the runtime table points to, in the middle  *)
(* of a load too: none is lost, none is used after it was returned, and no *)
(* two packets share one.                                                  *)
PoolAccounted ==
  /\ free = (1..Len(blocks)) \ {address[e] : e \in Entries}
  /\ \A e, f \in Entries :
       address[e] # 0 => (address[e] = address[f] <=> output_mid[e] = output_mid[f])

(* What is copied stays within its packet: the block an entry points to    *)
(* holds the entry, whatever tables were loaded before this one, and only  *)
(* an entry whose end wraps in 16 bits takes HK behind a block.            *)
Wraps(e) == Extent(table, e) >= LengthMod

PacketsFit ==
  /\ \A e \in Entries : Behind(e) => Wraps(e)
  /\ task = "overrun" => \E e \in Entries : Wraps(e)

(* "Calculate the message size by looking for the largest known ending     *)
(* spot" (hk_task.c:385): a packet has room for every entry, and what is   *)
(* copied on the way of a message does not leave it.                       *)
LargestEndHeld == task # "overrun"

(* The software bus routes to HK what the runtime table marks subscribed,  *)
(* no more and no less, and HK that waits with no failure behind it has    *)
(* subscribed to all its table needs.                                      *)
RoutesAsMarked ==
  /\ routes = {input_mid[e] : e \in {f \in Entries : subscribed[f]}}
  /\ (task = "idle" /\ faults = 0 /\ \A e \in Entries : output_mid[e] = NoMid \/ address[e] # 0) =>
       \A e \in Entries : input_mid[e] # NoMid => subscribed[e]

(* An entry whose data are in the packet is never counted as missing: what *)
(* is done for other packets and other inputs leaves it present.           *)
NeverWronglyMissing == \A e \in Entries : copied[e] => present[e]

(* A load takes effect although packets leave the copy table locked, or    *)
(* the application stops.                                                  *)
LoadTakesEffect ==
  pending # NoTable ~> (pending = NoTable \/ task \in Stopped)
=============================================================================
