------------------------------ MODULE CSLQueue ------------------------------
(***************************************************************************)
(* The CSL app layer around a Simulink model (ofsw/src/csl/csl_app.c): its *)
(* command pipe, the ring buffer of every command input, the step that     *)
(* hands one command of each to the model, and the commands the model      *)
(* itself sends.                                                           *)
(*                                                                         *)
(* Model and layer talk through shared structures: a command is new to its *)
(* reader if the Sequence of its header is not the one read last.  Byte    *)
(* pointers into a ring (qhd, qtl) are abstracted to slot numbers; a       *)
(* command is abstracted to a serial number, its length to whether header  *)
(* and data fit a slot.  The array of a ring has CSL_QUEUE_LEN > CSL_MAX_  *)
(* RCVMSG slots: those behind the ring's last are never read.  No          *)
(* application defines MY_RT_MID: outputs are published with every step.   *)
(***************************************************************************)
EXTENDS Integers, Sequences, FiniteSets

CONSTANTS
  Inputs,       (* the command inputs of the model, those with a queue     *)
  TlmInputs,    (* its other inputs                                        *)
  CSL_MAX_RCVMSG,  (* slots of a ring                                      *)
  SeqMod,       (* Sequence wraps at this (2^16)                           *)
  ErrMod,       (* CmdErrorCounter wraps at this (2^8)                     *)
  PipeDepth,    (* messages the pipe holds; also the most one pass reads   *)
  CSL_SL_BUS_PIPE_LIM,  (* of those, from one of the other inputs          *)
  Blank,        (* content of an input or a slot never written             *)
  Garbled,      (* a command whose header was overwritten in its slot      *)
  MaxCmds,      (* bound: commands sent to the model                       *)
  MaxControl,   (* bound: commands sent to CSL, and restarts               *)
  MaxIssued     (* bound: commands the model sends                         *)

ASSUME CslAssumption ==
  /\ CSL_MAX_RCVMSG \in Nat \ {0}
  /\ SeqMod \in Nat \ {0, 1}
  /\ ErrMod \in Nat \ {0}
  /\ PipeDepth \in Nat \ {0} /\ CSL_SL_BUS_PIPE_LIM \in Nat
  /\ MaxCmds \in Nat /\ MaxControl \in Nat /\ MaxIssued \in Nat
  /\ Blank \notin 1..MaxCmds /\ Garbled \notin (1..MaxCmds) \union {Blank}

Commands == 1..MaxCmds
Content  == Commands \union {Blank, Garbled}
Controls == {"CSL_RESET", "CSL_INIT", "CSL_RESET_SEQ", "CSL_CLEAR_QUEUE", "CSL_EXIT"}
Slots    == 0..(CSL_MAX_RCVMSG - 1)
Sequence == 0..(SeqMod - 1)

(* User data of a command: fits a slot of siz bytes with the header before *)
(* it; fits only without (accepted all the same); or is longer than siz.   *)
Size == {"fits", "spills", "long"}

(* Messages: a command, telemetry for the model, the tick, and commands to *)
(* CSL itself.                                                             *)
Message ==
  [kind : {"command"}, input : Inputs, cmd : Commands, size : Size]
    \union [kind : {"telemetry"}, input : TlmInputs]
    \union [kind : {"tick"}] \union [kind : Controls]

VARIABLES
  pipe, event,             (* CmdPipe; CSL_CMD_PIPE_EVENT is set           *)
  task, left, gotTickMsg,  (* the task, reads left in this pass            *)
  RunStatus,               (* the app is to run on                         *)
  ring, qhd, qtl, qcnt,    (* the queue of each input                      *)
  seq,                     (* of each input: Sequence last given out       *)
  mptr,                    (* of each input: header and command presented  *)
  CmdErrorCounter,
  seen, outSeq,            (* model: Sequence it read last, and of its     *)
                           (* own latest command                           *)
  started,                 (* simulators: their start time has come        *)
  sndSeq,                  (* CSL_MsgSnd.seq: Sequence published last      *)
  sent, control,           (* commands sent to the model and to CSL        *)
  lost, hist               (* history, see History                         *)

bus    == <<pipe, event, sent, control>>
loop   == <<task, left, gotTickMsg, RunStatus>>
queues == <<ring, qhd, qtl, qcnt>>
ports  == <<seq, mptr>>
model  == <<seen, outSeq, started, sndSeq>>
past   == <<lost, hist>>
vars   == <<bus, loop, queues, ports, CmdErrorCounter, model, past>>

(* lost[i]: commands presented to the running model that it took for old;  *)
(* resets: of the sequence numbers; late: the simulator started late;      *)
(* issued: commands the model sent; out: those that CSL tried to publish;  *)
(* inits: of the model.                                                    *)
History == [resets : Nat, late : {0, 1}, issued : Nat, out : Nat, inits : Nat]

-----------------------------------------------------------------------------
(* Slot k places after slot p: pointers wrap at the end of the ring.       *)
Wrap(p) == IF p >= CSL_MAX_RCVMSG THEN p - CSL_MAX_RCVMSG ELSE p

EmptyQueues ==
  /\ qhd = [i \in Inputs |-> 0]
  /\ qtl = [i \in Inputs |-> 0]
  /\ qcnt = [i \in Inputs |-> 0]

Init ==
  /\ pipe = << >> /\ event = FALSE /\ sent = 0 /\ control = 0
  /\ task = "waiting" /\ left = 0 /\ gotTickMsg = FALSE /\ RunStatus = TRUE
  /\ ring = [i \in Inputs |-> [s \in Slots |-> Blank]]
  /\ EmptyQueues
  /\ seq = [i \in Inputs |-> 0]
  /\ mptr = [i \in Inputs |-> [Sequence |-> 0, cmd |-> Blank]]
  /\ CmdErrorCounter = 0
  /\ seen = [i \in Inputs |-> 0] /\ outSeq = 0 /\ sndSeq = 0
  /\ started \in BOOLEAN
  /\ lost = [i \in Inputs |-> 0]
  /\ hist = [resets |-> 0, late |-> IF started THEN 0 ELSE 1,
             issued |-> 0, out |-> 0, inits |-> 0]

-----------------------------------------------------------------------------
(* Messages arrive at any time.  One for which the pipe has no room, or    *)
(* that is beyond the limit of its subscription, is lost, which is as if   *)
(* it had not been sent.                                                   *)
Put(msg) ==
  /\ task # "ended" /\ Len(pipe) < PipeDepth
  /\ pipe' = Append(pipe, msg) /\ event' = TRUE

SendCommand ==
  /\ sent < MaxCmds /\ sent' = sent + 1
  /\ \E i \in Inputs, size \in Size :
       Put([kind |-> "command", input |-> i, cmd |-> sent + 1, size |-> size])
  /\ UNCHANGED <<control, loop, queues, ports, CmdErrorCounter, model, past>>

SendTelemetry ==
  /\ \E i \in TlmInputs :
       LET msg == [kind |-> "telemetry", input |-> i]
       IN  /\ Cardinality({k \in DOMAIN pipe : pipe[k] = msg}) < CSL_SL_BUS_PIPE_LIM
           /\ Put(msg)
  /\ UNCHANGED <<sent, control, loop, queues, ports, CmdErrorCounter, model, past>>

SendTick ==
  /\ Put([kind |-> "tick"])
  /\ UNCHANGED <<sent, control, loop, queues, ports, CmdErrorCounter, model, past>>

SendControl ==
  /\ control < MaxControl /\ control' = control + 1
  /\ \E c \in Controls : Put([kind |-> c])
  /\ UNCHANGED <<sent, loop, queues, ports, CmdErrorCounter, model, past>>

(* The start time of a simulator comes.                                    *)
StartTime ==
  /\ ~started /\ started' = TRUE
  /\ UNCHANGED <<bus, loop, queues, ports, CmdErrorCounter, seen, outSeq, sndSeq, past>>

-----------------------------------------------------------------------------
(* CSL_MAIN pends on the event; every pass then reads at most PipeDepth    *)
(* messages.                                                               *)
Wakeup ==
  /\ task = "waiting" /\ event
  /\ event' = FALSE
  /\ task' = "draining" /\ left' = PipeDepth
  /\ UNCHANGED <<pipe, sent, control, gotTickMsg, RunStatus>>
  /\ UNCHANGED <<queues, ports, CmdErrorCounter, model, past>>

Refuse ==
  /\ CmdErrorCounter' = (CmdErrorCounter + 1) % ErrMod
  /\ UNCHANGED <<queues, past>>

(* The slots of a ring with command c put in at t; its end may spill over  *)
(* the header in the slot behind.                                          *)
Written(slots, t, c, spills) ==
  [s \in Slots |-> IF s = t THEN c
                  ELSE IF spills /\ s = t + 1 THEN Garbled ELSE slots[s]]

(* Fault: the last slot of the ring is forgotten in the comparison.        *)
EnqueueOneMore(i, c, spills) ==
  IF qcnt[i] <= CSL_MAX_RCVMSG
  THEN /\ ring' = [ring EXCEPT ![i] = Written(@, qtl[i], c, spills)]
       /\ qtl' = [qtl EXCEPT ![i] = Wrap(@ + 1)]
       /\ qcnt' = [qcnt EXCEPT ![i] = @ + 1]
       /\ UNCHANGED <<qhd, CmdErrorCounter, past>>
  ELSE Refuse

(* sl_enqueue_msg                                                          *)
Enqueue(i, c, spills) ==
  IF qcnt[i] < CSL_MAX_RCVMSG
  THEN /\ ring' = [ring EXCEPT ![i] = Written(@, qtl[i], c, spills)]
       /\ qtl' = [qtl EXCEPT ![i] = Wrap(@ + 1)]
       /\ qcnt' = [qcnt EXCEPT ![i] = @ + 1]
       /\ UNCHANGED <<qhd, CmdErrorCounter, past>>
  ELSE Refuse

ReceiveCommand(msg) ==
  /\ msg.kind = "command"
  /\ IF msg.size # "long" THEN Enqueue(msg.input, msg.cmd, msg.size = "spills")
     ELSE Refuse
  /\ UNCHANGED <<ports, model, gotTickMsg, RunStatus>>

(* sl_msg_manage: the data in the input is overwritten at once.            *)
ReceiveTelemetry(msg) ==
  /\ msg.kind = "telemetry"
  /\ UNCHANGED <<ports, queues, model, CmdErrorCounter, past, gotTickMsg, RunStatus>>

ReceiveTick(msg) ==
  /\ msg.kind = "tick"
  /\ gotTickMsg' = TRUE
  /\ UNCHANGED <<ports, queues, model, CmdErrorCounter, past, RunStatus>>

(* csl_clear_queue.  Fault: the tail is left where it is.                  *)
ClearQueueNotTail ==
  /\ qhd' = [i \in Inputs |-> 0]
  /\ qcnt' = [i \in Inputs |-> 0]
  /\ UNCHANGED <<ring, qtl>>

ClearQueue ==
  /\ qhd' = [i \in Inputs |-> 0]
  /\ qtl' = [i \in Inputs |-> 0]
  /\ qcnt' = [i \in Inputs |-> 0]
  /\ UNCHANGED ring

(* csl_reset_sequence_numbers                                              *)
ResetSequences == seq' = [i \in Inputs |-> 0]

(* sl_mdl_term and sl_mdl_init: generated code, which clears what the      *)
(* model remembers and, as it is configured, its inputs and outputs.       *)
InitModel ==
  \/ /\ seen' = [i \in Inputs |-> 0] /\ outSeq' = 0
     /\ mptr' = [i \in Inputs |-> [Sequence |-> 0, cmd |-> Blank]]
  \/ UNCHANGED <<seen, outSeq, mptr>>

ReceiveReset(msg) ==
  /\ msg.kind = "CSL_RESET"
  /\ CmdErrorCounter' = 0
  /\ UNCHANGED <<ports, queues, model, past, gotTickMsg, RunStatus>>

ReceiveInit(msg) ==
  /\ msg.kind = "CSL_INIT"
  /\ ClearQueue /\ ResetSequences /\ InitModel
  /\ CmdErrorCounter' = 0
  /\ hist' = [hist EXCEPT !.resets = @ + 1, !.inits = @ + 1] /\ UNCHANGED lost
  /\ UNCHANGED <<started, sndSeq, gotTickMsg, RunStatus>>

ReceiveResetSeq(msg) ==
  /\ msg.kind = "CSL_RESET_SEQ"
  /\ ResetSequences
  /\ hist' = [hist EXCEPT !.resets = @ + 1] /\ UNCHANGED lost
  /\ UNCHANGED <<mptr, queues, model, CmdErrorCounter, gotTickMsg, RunStatus>>

ReceiveClear(msg) ==
  /\ msg.kind = "CSL_CLEAR_QUEUE"
  /\ ClearQueue
  /\ UNCHANGED <<seq, mptr, model, CmdErrorCounter, past, gotTickMsg, RunStatus>>

ReceiveExit(msg) ==
  /\ msg.kind = "CSL_EXIT"
  /\ RunStatus' = FALSE
  /\ UNCHANGED <<ports, queues, model, CmdErrorCounter, past, gotTickMsg>>

(* One round of the loop of csl_app_pipe.                                  *)
Receive ==
  /\ task = "draining" /\ left > 0 /\ pipe # << >>
  /\ pipe' = Tail(pipe) /\ left' = left - 1
  /\ LET msg == Head(pipe)
     IN  \/ ReceiveCommand(msg) \/ ReceiveTelemetry(msg) \/ ReceiveTick(msg)
         \/ ReceiveReset(msg) \/ ReceiveInit(msg) \/ ReceiveResetSeq(msg)
         \/ ReceiveClear(msg) \/ ReceiveExit(msg)
  /\ UNCHANGED <<event, sent, control, task>>

-----------------------------------------------------------------------------
(* csl_do_step.                                                            *)
Queued == {i \in Inputs : qcnt[i] > 0}

(* sl_increment_cmd_msg_sequence.  Fault: the number stays as it is.       *)
PresentSameNumber ==
  /\ seq' = seq
  /\ mptr' = [i \in Inputs |->
                IF i \in Queued THEN [Sequence |-> seq'[i], cmd |-> ring[i][qhd[i]]]
                ELSE mptr[i]]

Present ==
  /\ seq' = [i \in Inputs |-> IF i \in Queued THEN (seq[i] + 1) % SeqMod ELSE seq[i]]
  /\ mptr' = [i \in Inputs |->
                IF i \in Queued THEN [Sequence |-> seq'[i], cmd |-> ring[i][qhd[i]]]
                ELSE mptr[i]]

(* sl_mdl_step: the model acts on what is new, and may send a command.     *)
ModelStep(raise) ==
  IF started
  THEN /\ seen' = [i \in Inputs |-> mptr'[i].Sequence]
       /\ outSeq' = IF raise THEN (outSeq + 1) % SeqMod ELSE outSeq
  ELSE UNCHANGED <<seen, outSeq>>

(* sl_msg_cleanup.                                                         *)
Cleanup ==
  /\ qhd' = [i \in Inputs |-> IF i \in Queued THEN Wrap(qhd[i] + 1) ELSE qhd[i]]
  /\ qcnt' = [i \in Inputs |-> IF i \in Queued THEN qcnt[i] - 1 ELSE qcnt[i]]
  /\ UNCHANGED <<ring, qtl>>

(* csl_publish_outputs: the Sequence is taken over before the buffer is    *)
(* asked for, so a command is tried once, with or without a buffer.        *)
(* Fault: it is not taken over.                                            *)
PublishAgain == UNCHANGED sndSeq

Publish == sndSeq' = outSeq'

Step ==
  /\ \E raise \in BOOLEAN :
       /\ raise => started /\ hist.issued < MaxIssued
       /\ Present
       /\ ModelStep(raise)
       /\ Cleanup
       /\ Publish
       /\ lost' = [i \in Inputs |->
                     IF started /\ i \in Queued /\ seq'[i] = seen[i]
                     THEN lost[i] + 1 ELSE lost[i]]
       /\ hist' = [hist EXCEPT !.issued = IF raise THEN @ + 1 ELSE @,
                               !.out = IF outSeq' # sndSeq THEN @ + 1 ELSE @]
  /\ UNCHANGED <<started, CmdErrorCounter>>

(* The end of the main loop deletes the pipe.                              *)
End == task' = "ended" /\ pipe' = << >> /\ event' = FALSE

(* The task pends on the event again.  Fault: the event is cleared here    *)
(* rather than when the task wakes up.                                     *)
RestClearsEvent == task' = "waiting" /\ event' = FALSE /\ UNCHANGED pipe

Rest == task' = "waiting" /\ UNCHANGED <<pipe, event>>

(* The pipe is empty or the pass has read its share.                       *)
EndPass ==
  /\ task = "draining" /\ (left = 0 \/ pipe = << >>)
  /\ left' = 0 /\ gotTickMsg' = FALSE
  /\ IF RunStatus THEN Rest ELSE End
  /\ \/ gotTickMsg /\ Step
     \/ ~gotTickMsg /\ UNCHANGED <<queues, ports, CmdErrorCounter, model, past>>
  /\ UNCHANGED <<sent, control, RunStatus>>

(* CFE_SB_RcvMsg fails: the app ends, a tick it has read is forgotten.     *)
PipeError ==
  /\ task = "draining" /\ left > 0
  /\ End /\ RunStatus' = FALSE
  /\ left' = 0 /\ gotTickMsg' = FALSE
  /\ UNCHANGED <<sent, control, queues, ports, CmdErrorCounter, model, past>>

(* ES starts the app again: csl_app_init and sl_init, with a new pipe.     *)
Restart ==
  /\ task = "ended" /\ control < MaxControl /\ control' = control + 1
  /\ task' = "waiting" /\ RunStatus' = TRUE
  /\ ClearQueue /\ ResetSequences /\ InitModel /\ sndSeq' = 0
  /\ CmdErrorCounter' = 0
  /\ hist' = [hist EXCEPT !.resets = @ + 1, !.inits = @ + 1] /\ UNCHANGED lost
  /\ UNCHANGED <<pipe, event, sent, left, gotTickMsg, started>>

Send == SendCommand \/ SendTelemetry \/ SendTick \/ SendControl

Next == Send \/ StartTime \/ Wakeup \/ Receive \/ EndPass \/ PipeError \/ Restart

Spec == Init /\ [][Next]_vars

(* The scheduler ticks, the app runs when it can.                          *)
FairSpec ==
  /\ Spec
  /\ WF_vars(SendTick)
  /\ WF_vars(Wakeup) /\ WF_vars(Receive) /\ WF_vars(EndPass)

-----------------------------------------------------------------------------
(***************************************************************************)
(* Properties                                                              *)
(***************************************************************************)

(* Every variable keeps to its type.                                       *)
PipeOK ==
  /\ pipe \in Seq(Message) /\ Len(pipe) <= PipeDepth /\ event \in BOOLEAN
  /\ sent \in 0..MaxCmds /\ control \in 0..MaxControl

LoopOK ==
  /\ task \in {"waiting", "draining", "ended"}
  /\ left \in 0..PipeDepth /\ gotTickMsg \in BOOLEAN /\ RunStatus \in BOOLEAN

QueuesOK ==
  /\ ring \in [Inputs -> [Slots -> Content]]
  /\ qhd \in [Inputs -> Slots] /\ qtl \in [Inputs -> Slots]
  /\ qcnt \in [Inputs -> 0..CSL_MAX_RCVMSG]
  /\ CmdErrorCounter \in 0..(ErrMod - 1)

PortsOK ==
  /\ seq \in [Inputs -> Sequence]
  /\ mptr \in [Inputs -> [Sequence : Sequence, cmd : Content]]
  /\ seen \in [Inputs -> Sequence] /\ outSeq \in Sequence
  /\ started \in BOOLEAN /\ sndSeq \in Sequence

PastOK == lost \in [Inputs -> Nat] /\ hist \in History

TypeOK == PipeOK /\ LoopOK /\ QueuesOK /\ PortsOK /\ PastOK

(* The rings, with their pointers that wrap and are reset, are the queues  *)
(* of CommandQueue: commands reach the model in the order they came, none  *)
(* twice, none that was dropped or refused, and none with another's header *)
(* but the oldest of a ring that a command too long for its slot fills.    *)
Pending(i) == [k \in 1..qcnt[i] |-> ring[i][Wrap(qhd[i] + k - 1)]]

Q == INSTANCE CommandQueue WITH
       Capacity <- CSL_MAX_RCVMSG,
       queue <- [i \in Inputs |-> Pending(i)],
       given <- [i \in Inputs |-> mptr[i].cmd]

FirstInFirstOut == Q!Spec

(* "its size will be <= the max specified in CSCMsg->siz" (csl_app.c:973), *)
(* siz being a slot: no command is overwritten before the model has it.    *)
CommandsFit == \A i \in Inputs : mptr[i].cmd # Garbled

(* The model misses a command only because the sequence numbers started    *)
(* over: at most one per input for each time they did (and one for the     *)
(* late start of a simulator), however they wrap.                          *)
ResetCostsOne == \A i \in Inputs : lost[i] <= hist.resets + hist.late

(* Every command of the model is published exactly once, but for at most   *)
(* one missing or repeated each time the model is initialized, which does  *)
(* not start CSL_MsgSnd.seq over.                                          *)
PublishedOnce ==
  /\ hist.issued <= hist.out + hist.inits
  /\ hist.out <= hist.issued + hist.inits

(* A command that was queued is handed over or dropped, or the app ends.   *)
QueuesDrain == \A i \in Inputs : qcnt[i] > 0 ~> qcnt[i] = 0 \/ task = "ended"

=============================================================================
