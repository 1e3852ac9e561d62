--------------------------- MODULE CSLQueueProofs ---------------------------
(***************************************************************************)
(* Theorems about the CSL layer, for every number of inputs, every size of *)
(* the rings and the pipe, and every width of the sequence numbers.        *)
(***************************************************************************)
EXTENDS CSLQueue, SequenceTheorems, TLAPS

(* Slot numbers stay in the ring; the slot after a queue's last is its     *)
(* tail, and one more round of the ring changes nothing.                   *)
LEMMA WrapTyped ==
  ASSUME NEW p \in 0..(2 * CSL_MAX_RCVMSG - 1)  PROVE Wrap(p) \in Slots
  BY CslAssumption DEF Wrap, Slots

LEMMA WrapPlus ==
  ASSUME NEW p \in Slots, NEW n \in 0..CSL_MAX_RCVMSG
  PROVE  /\ Wrap(p + 1) \in Slots
         /\ n < CSL_MAX_RCVMSG => Wrap(Wrap(p + n) + 1) = Wrap(p + (n + 1))
         /\ n > 0 => Wrap(Wrap(p + 1) + (n - 1)) = Wrap(p + n)
  BY CslAssumption DEF Wrap, Slots

(* Two slots of a queue that is not full are different ones.               *)
LEMMA WrapInjective ==
  ASSUME NEW p \in Slots, NEW m \in 0..(CSL_MAX_RCVMSG - 1),
         NEW n \in 0..(CSL_MAX_RCVMSG - 1), m # n
  PROVE  Wrap(p + m) # Wrap(p + n)
  BY CslAssumption DEF Wrap, Slots

(* The next sequence number is another one.                                *)
LEMMA NextSequence ==
  ASSUME NEW s \in Sequence
  PROVE  (s + 1) % SeqMod \in Sequence /\ (s + 1) % SeqMod # s
<1>1. CASE s + 1 < SeqMod
  <2>1. (s + 1) % SeqMod = s + 1
    BY <1>1, CslAssumption DEF Sequence
  <2> QED BY <1>1, <2>1, CslAssumption DEF Sequence
<1>2. CASE s + 1 = SeqMod
  <2>1. (s + 1) % SeqMod = 0
    BY <1>2, CslAssumption DEF Sequence
  <2> QED BY <1>2, <2>1, CslAssumption DEF Sequence
<1> QED BY <1>1, <1>2, CslAssumption DEF Sequence

(* What the fields of a message are.                                       *)
LEMMA MessageFields ==
  ASSUME NEW msg \in Message, msg.kind = "command"
  PROVE  msg.input \in Inputs /\ msg.cmd \in Commands /\ msg.size \in Size
  BY DEF Message, Controls, Size

(* What the history becomes when sequence numbers start over, with or      *)
(* without the model, and when a step issues a and publishes b commands.   *)
LEMMA HistoryUpdates ==
  ASSUME NEW h \in History
  PROVE  /\ [h EXCEPT !.resets = @ + 1] \in History
         /\ [h EXCEPT !.resets = @ + 1, !.inits = @ + 1] \in History
         /\ \A a, b \in {0, 1} : [h EXCEPT !.issued = @ + a, !.out = @ + b] \in History
<1> USE DEF History
<1>1. [h EXCEPT !.resets = @ + 1] \in History
  OBVIOUS
<1>2. [h EXCEPT !.resets = @ + 1, !.inits = @ + 1] \in History
  <2>1. h.resets + 1 \in Nat /\ h.inits + 1 \in Nat
    OBVIOUS
  <2> QED BY <2>1
<1>3. ASSUME NEW a \in {0, 1}, NEW b \in {0, 1}
      PROVE  [h EXCEPT !.issued = @ + a, !.out = @ + b] \in History
  <2>1. h.issued + a \in Nat /\ h.out + b \in Nat
    OBVIOUS
  <2> QED BY <2>1
<1> QED BY <1>1, <1>2, <1>3

-----------------------------------------------------------------------------
(* Every variable keeps to its type.  First the messages and the pipe.     *)
LEMMA TypeInit == Init => TypeOK
<1> SUFFICES ASSUME Init  PROVE TypeOK
  OBVIOUS
<1>1. PipeOK /\ LoopOK
  <2>1. pipe \in Seq(Message) /\ Len(pipe) <= PipeDepth
    BY CslAssumption DEF Init
  <2>2. sent \in 0..MaxCmds /\ control \in 0..MaxControl /\ left \in 0..PipeDepth
    BY CslAssumption DEF Init
  <2> QED BY <2>1, <2>2 DEF Init, PipeOK, LoopOK
<1>2. QueuesOK
  <2>1. ring \in [Inputs -> [Slots -> Content]]
    BY DEF Init, Content
  <2> QED BY <2>1, CslAssumption DEF Init, EmptyQueues, QueuesOK, Slots
<1>3. PortsOK
  <2>1. 0 \in Sequence
    BY CslAssumption DEF Sequence
  <2> QED BY <2>1 DEF Init, PortsOK, Content
<1>4. PastOK
  BY DEF Init, PastOK, History
<1> QED BY <1>1, <1>2, <1>3, <1>4 DEF TypeOK

LEMMA PutTyped ==
  ASSUME PipeOK, NEW msg \in Message, Put(msg)
  PROVE  pipe' \in Seq(Message) /\ Len(pipe') <= PipeDepth /\ event' \in BOOLEAN
<1>1. pipe' \in Seq(Message) /\ Len(pipe') <= PipeDepth
  BY CslAssumption DEF PipeOK, Put
<1> QED BY <1>1 DEF Put

(* What an action leaves alone stays well typed.                           *)
LEMMA Untouched ==
  /\ LoopOK /\ UNCHANGED loop => LoopOK'
  /\ QueuesOK /\ UNCHANGED <<queues, CmdErrorCounter>> => QueuesOK'
  /\ PortsOK /\ UNCHANGED <<ports, model>> => PortsOK'
  /\ PastOK /\ UNCHANGED past => PastOK'
  BY DEF LoopOK, QueuesOK, PortsOK, PastOK, loop, queues, ports, model, past

LEMMA TypeSend == TypeOK /\ Send => TypeOK'
<1> SUFFICES ASSUME TypeOK, Send  PROVE PipeOK'
  BY Untouched DEF TypeOK, Send, SendCommand, SendTelemetry, SendTick, SendControl
<1> USE DEF TypeOK
<1>1. CASE SendCommand
  <2>1. PICK i \in Inputs, size \in Size :
          Put([kind |-> "command", input |-> i, cmd |-> sent + 1, size |-> size])
    BY <1>1 DEF SendCommand
  <2>2. sent + 1 \in Commands /\ sent' \in 0..MaxCmds /\ control' = control
    BY <1>1, CslAssumption DEF SendCommand, PipeOK, Commands
  <2>3. [kind |-> "command", input |-> i, cmd |-> sent + 1, size |-> size] \in Message
    BY <2>2 DEF Message
  <2>4. pipe' \in Seq(Message) /\ Len(pipe') <= PipeDepth /\ event' \in BOOLEAN
    BY <2>1, <2>3, PutTyped
  <2> QED BY <2>2, <2>4 DEF PipeOK
<1>2. CASE SendTelemetry
  <2>1. PICK i \in TlmInputs : Put([kind |-> "telemetry", input |-> i])
    BY <1>2 DEF SendTelemetry
  <2>2. [kind |-> "telemetry", input |-> i] \in Message
    BY DEF Message
  <2> QED BY <1>2, <2>1, <2>2, PutTyped DEF PipeOK, SendTelemetry
<1>3. CASE SendTick
  <2>1. [kind |-> "tick"] \in Message
    BY DEF Message
  <2> QED BY <1>3, <2>1, PutTyped DEF PipeOK, SendTick
<1>4. CASE SendControl
  <2>1. PICK c \in Controls : Put([kind |-> c])
    BY <1>4 DEF SendControl
  <2>2. [kind |-> c] \in Message
    BY DEF Message
  <2>3. control' \in 0..MaxControl /\ sent' = sent
    BY <1>4, CslAssumption DEF SendControl, PipeOK
  <2>4. pipe' \in Seq(Message) /\ Len(pipe') <= PipeDepth /\ event' \in BOOLEAN
    BY <2>1, <2>2, PutTyped
  <2> QED BY <2>3, <2>4 DEF PipeOK
<1> QED BY <1>1, <1>2, <1>3, <1>4 DEF Send

(* The parts of a handler.                                                 *)
LEMMA ClearTyped ==
  ASSUME QueuesOK, ClearQueue, CmdErrorCounter' \in 0..(ErrMod - 1)  PROVE QueuesOK'
  BY CslAssumption DEF QueuesOK, ClearQueue, Slots

LEMMA RestartTyped ==
  ASSUME PortsOK, ResetSequences, InitModel, started' = started, sndSeq' \in Sequence
  PROVE  PortsOK'
<1>1. 0 \in Sequence
  BY CslAssumption DEF Sequence
<1>2. CASE UNCHANGED <<seen, outSeq, mptr>>
  BY <1>1, <1>2 DEF PortsOK, ResetSequences
<1>3. CASE /\ seen' = [i \in Inputs |-> 0] /\ outSeq' = 0
           /\ mptr' = [i \in Inputs |-> [Sequence |-> 0, cmd |-> Blank]]
  BY <1>1, <1>3 DEF PortsOK, ResetSequences, Content
<1> QED BY <1>2, <1>3 DEF InitModel

LEMMA RefuseTyped ==
  ASSUME QueuesOK, Refuse  PROVE QueuesOK' /\ past' = past
<1>1. CmdErrorCounter' \in 0..(ErrMod - 1)
  BY CslAssumption DEF QueuesOK, Refuse
<1> QED BY <1>1 DEF QueuesOK, Refuse, queues

LEMMA EnqueueTyped ==
  ASSUME QueuesOK, NEW i \in Inputs, NEW c \in Commands, NEW spills \in BOOLEAN,
         Enqueue(i, c, spills)
  PROVE  QueuesOK' /\ past' = past
<1>1. CASE qcnt[i] < CSL_MAX_RCVMSG
  <2>1. Wrap(qtl[i] + 1) \in Slots
    BY WrapPlus, CslAssumption DEF QueuesOK
  <2>2. ring' \in [Inputs -> [Slots -> Content]]
    <3>1. ring' = [ring EXCEPT ![i] = Written(ring[i], qtl[i], c, spills)]
      BY <1>1 DEF Enqueue, QueuesOK
    <3>2. Written(ring[i], qtl[i], c, spills) \in [Slots -> Content]
      BY DEF QueuesOK, Written, Content
    <3> QED BY <3>1, <3>2 DEF QueuesOK
  <2>3. qtl' \in [Inputs -> Slots]
    BY <1>1, <2>1 DEF QueuesOK, Enqueue
  <2>4. qcnt' \in [Inputs -> 0..CSL_MAX_RCVMSG]
    <3>1. qcnt[i] + 1 \in 0..CSL_MAX_RCVMSG
      BY <1>1, CslAssumption DEF QueuesOK
    <3> QED BY <1>1, <3>1 DEF QueuesOK, Enqueue
  <2>5. UNCHANGED <<qhd, CmdErrorCounter, past>>
    BY <1>1 DEF Enqueue
  <2> QED BY <2>2, <2>3, <2>4, <2>5 DEF QueuesOK
<1>2. CASE ~(qcnt[i] < CSL_MAX_RCVMSG)
  BY <1>2, RefuseTyped DEF Enqueue
<1> QED BY <1>1, <1>2

LEMMA TypeReceive == TypeOK /\ Receive => TypeOK'
<1> SUFFICES ASSUME TypeOK, Receive  PROVE TypeOK'
  OBVIOUS
<1> DEFINE msg == Head(pipe)
<1>1. msg \in Message /\ pipe' \in Seq(Message) /\ Len(pipe') <= PipeDepth
  BY CslAssumption DEF TypeOK, PipeOK, Receive
<1>2. left' \in 0..PipeDepth
  BY CslAssumption DEF TypeOK, LoopOK, Receive
<1>3. PipeOK'
  BY <1>1 DEF TypeOK, PipeOK, Receive
<1>4. gotTickMsg' \in BOOLEAN /\ RunStatus' \in BOOLEAN => LoopOK'
  BY <1>2 DEF TypeOK, LoopOK, Receive
<1>5. 0 \in 0..(ErrMod - 1) /\ 0 \in Sequence
  BY CslAssumption DEF Sequence
<1> HIDE DEF msg
<1> USE DEF TypeOK
<1>6. CASE ReceiveCommand(msg)
  <2>1. QueuesOK' /\ past' = past
    <3>1. msg.input \in Inputs /\ msg.cmd \in Commands
      BY <1>1, <1>6, MessageFields DEF ReceiveCommand
    <3>2. (msg.size = "spills") \in BOOLEAN
      OBVIOUS
    <3> QED BY <1>6, <3>1, <3>2, EnqueueTyped, RefuseTyped DEF ReceiveCommand
  <2>2. LoopOK'
    BY <1>4, <1>6 DEF ReceiveCommand, LoopOK
  <2> QED BY <1>3, <1>6, <2>1, <2>2, Untouched DEF ReceiveCommand
<1>7. CASE ReceiveTelemetry(msg) \/ ReceiveTick(msg) \/ ReceiveExit(msg)
  <2>1. LoopOK'
    BY <1>4, <1>7 DEF ReceiveTelemetry, ReceiveTick, ReceiveExit, LoopOK
  <2> QED BY <1>3, <1>7, <2>1, Untouched DEF ReceiveTelemetry, ReceiveTick, ReceiveExit
<1>8. CASE ReceiveReset(msg)
  <2>1. QueuesOK' /\ LoopOK'
    BY <1>4, <1>5, <1>8 DEF ReceiveReset, LoopOK, QueuesOK, queues
  <2> QED BY <1>3, <1>8, <2>1, Untouched DEF ReceiveReset
<1>9. CASE ReceiveInit(msg)
  <2>1. QueuesOK' /\ LoopOK'
    BY <1>4, <1>5, <1>9, ClearTyped DEF ReceiveInit, LoopOK
  <2>2. PortsOK'
    BY <1>9, RestartTyped DEF ReceiveInit, PortsOK
  <2>3. PastOK'
    BY <1>9, HistoryUpdates DEF ReceiveInit, PastOK
  <2> QED BY <1>3, <2>1, <2>2, <2>3
<1>10. CASE ReceiveResetSeq(msg)
  <2>1. PortsOK'
    BY <1>5, <1>10 DEF ReceiveResetSeq, ResetSequences, PortsOK, model
  <2>2. PastOK'
    BY <1>10, HistoryUpdates DEF ReceiveResetSeq, PastOK
  <2>3. LoopOK'
    BY <1>4, <1>10 DEF ReceiveResetSeq, LoopOK
  <2> QED BY <1>3, <1>10, <2>1, <2>2, <2>3, Untouched DEF ReceiveResetSeq
<1>11. CASE ReceiveClear(msg)
  <2>1. QueuesOK' /\ LoopOK'
    BY <1>4, <1>11, ClearTyped DEF ReceiveClear, LoopOK, QueuesOK
  <2> QED BY <1>3, <1>11, <2>1, Untouched DEF ReceiveClear, ports
<1> QED
  BY <1>6, <1>7, <1>8, <1>9, <1>10, <1>11 DEF Receive, msg

(* A step.                                                                 *)
LEMMA StepHistory ==
  ASSUME TypeOK, Step
  PROVE  \E raise \in BOOLEAN, a, b \in {0, 1} :
           /\ raise => started
           /\ ModelStep(raise)
           /\ (a = 1 <=> raise)
           /\ (b = 1 <=> outSeq' # sndSeq)
           /\ hist' = [hist EXCEPT !.issued = @ + a, !.out = @ + b]
<1>1. PICK raise \in BOOLEAN :
        /\ raise => started
        /\ ModelStep(raise)
        /\ hist' = [hist EXCEPT !.issued = IF raise THEN @ + 1 ELSE @,
                                !.out = IF outSeq' # sndSeq THEN @ + 1 ELSE @]
  BY DEF Step
<1> DEFINE a == IF raise THEN 1 ELSE 0
           b == IF outSeq' # sndSeq THEN 1 ELSE 0
<1>2. hist.issued \in Nat /\ hist.out \in Nat
  BY DEF TypeOK, PastOK, History
<1>3. (IF raise THEN hist.issued + 1 ELSE hist.issued) = hist.issued + a
  BY <1>2
<1>4. (IF outSeq' # sndSeq THEN hist.out + 1 ELSE hist.out) = hist.out + b
  BY <1>2
<1>5. hist' = [hist EXCEPT !.issued = @ + a, !.out = @ + b]
  BY <1>1, <1>3, <1>4, Zenon DEF TypeOK, PastOK, History
<1>6. a \in {0, 1} /\ b \in {0, 1} /\ (a = 1 <=> raise) /\ (b = 1 <=> outSeq' # sndSeq)
  OBVIOUS
<1> QED BY <1>1, <1>5, <1>6, Zenon

LEMMA StepTyped ==
  ASSUME TypeOK, Step  PROVE QueuesOK' /\ PortsOK' /\ PastOK'
<1> USE DEF TypeOK
<1>1. seq' \in [Inputs -> Sequence]
  BY NextSequence DEF Step, Present, PortsOK
<1>2. mptr' \in [Inputs -> [Sequence : Sequence, cmd : Content]]
  BY <1>1 DEF Step, Present, PortsOK, QueuesOK
<1>3. seen' \in [Inputs -> Sequence] /\ outSeq' \in Sequence
  BY <1>2, NextSequence DEF Step, ModelStep, PortsOK
<1>4. PortsOK'
  BY <1>1, <1>2, <1>3 DEF Step, Publish, PortsOK
<1>5. QueuesOK'
  <2>1. \A i \in Inputs : Wrap(qhd[i] + 1) \in Slots
    BY WrapPlus, CslAssumption DEF QueuesOK
  <2>2. qhd' \in [Inputs -> Slots]
    BY <2>1 DEF Step, Cleanup, QueuesOK
  <2>3. qcnt' \in [Inputs -> 0..CSL_MAX_RCVMSG]
    BY CslAssumption DEF Step, Cleanup, Queued, QueuesOK
  <2> QED BY <2>2, <2>3 DEF Step, Cleanup, QueuesOK
<1>6. lost' \in [Inputs -> Nat]
  BY DEF Step, PastOK
<1>7. hist' \in History
  BY StepHistory, HistoryUpdates DEF PastOK
<1> QED BY <1>4, <1>5, <1>6, <1>7 DEF PastOK

LEMMA TypeEndPass == TypeOK /\ EndPass => TypeOK'
<1> SUFFICES ASSUME TypeOK, EndPass  PROVE TypeOK'
  OBVIOUS
<1> USE DEF TypeOK
<1>1. pipe' \in Seq(Message) /\ Len(pipe') <= PipeDepth /\ event' \in BOOLEAN
  <2>1. CASE Rest
    BY <2>1 DEF Rest, PipeOK
  <2>2. CASE End
    <3>1. pipe' \in Seq(Message) /\ Len(pipe') <= PipeDepth
      BY <2>2, CslAssumption DEF End
    <3> QED BY <2>2, <3>1 DEF End
  <2> QED BY <2>1, <2>2 DEF EndPass
<1>2. PipeOK'
  BY <1>1 DEF EndPass, PipeOK
<1>3. LoopOK'
  <2>1. left' \in 0..PipeDepth
    BY CslAssumption DEF EndPass
  <2> QED BY <2>1 DEF EndPass, Rest, End, LoopOK
<1>4. CASE Step
  BY <1>2, <1>3, <1>4, StepTyped
<1>5. CASE UNCHANGED <<queues, ports, CmdErrorCounter, model, past>>
  BY <1>2, <1>3, <1>5, Untouched
<1> QED BY <1>4, <1>5 DEF EndPass

LEMMA TypeRestart == TypeOK /\ Restart => TypeOK'
<1> SUFFICES ASSUME TypeOK, Restart  PROVE TypeOK'
  OBVIOUS
<1> USE DEF TypeOK
<1>1. 0 \in Sequence /\ 0 \in 0..(ErrMod - 1) /\ control' \in 0..MaxControl
  BY CslAssumption DEF Restart, PipeOK, Sequence
<1>2. QueuesOK' /\ PortsOK'
  BY <1>1, ClearTyped, RestartTyped DEF Restart
<1>3. PastOK'
  BY HistoryUpdates DEF Restart, PastOK
<1>4. PipeOK' /\ LoopOK'
  BY <1>1 DEF Restart, PipeOK, LoopOK
<1> QED BY <1>2, <1>3, <1>4

LEMMA TypeNext == TypeOK /\ [Next]_vars => TypeOK'
<1> SUFFICES ASSUME TypeOK, [Next]_vars  PROVE TypeOK'
  OBVIOUS
<1>1. CASE Send
  BY <1>1, TypeSend
<1>2. CASE StartTime
  BY <1>2, Untouched DEF TypeOK, StartTime, PipeOK, PortsOK, bus, ports
<1>3. CASE Wakeup
  <2>1. left' \in 0..PipeDepth
    BY <1>3, CslAssumption DEF Wakeup
  <2>2. PipeOK' /\ LoopOK'
    BY <1>3, <2>1 DEF TypeOK, Wakeup, PipeOK, LoopOK
  <2> QED BY <1>3, <2>2, Untouched DEF TypeOK, Wakeup
<1>4. CASE Receive
  BY <1>4, TypeReceive
<1>5. CASE EndPass
  BY <1>5, TypeEndPass
<1>6. CASE PipeError
  <2>1. left' \in 0..PipeDepth /\ pipe' \in Seq(Message) /\ Len(pipe') <= PipeDepth
    BY <1>6, CslAssumption DEF PipeError, End
  <2>2. PipeOK' /\ LoopOK'
    BY <1>6, <2>1 DEF TypeOK, PipeError, End, PipeOK, LoopOK
  <2> QED BY <1>6, <2>2, Untouched DEF TypeOK, PipeError
<1>7. CASE Restart
  BY <1>7, TypeRestart
<1>8. CASE UNCHANGED vars
  BY <1>8, Untouched DEF TypeOK, vars, bus, PipeOK
<1> QED BY <1>1, <1>2, <1>3, <1>4, <1>5, <1>6, <1>7, <1>8 DEF Next

(* Every variable keeps to its type, whatever the sizes.                   *)
THEOREM TypeCorrect == Spec => []TypeOK
  BY TypeInit, TypeNext, PTL DEF Spec

-----------------------------------------------------------------------------
(* The sequence numbers of input i agree: the model has read the command   *)
(* presented last, and that bears the number given out last.               *)
InStep(i) == seq[i] = seen[i] /\ seq[i] = mptr[i].Sequence

Owed(i) == IF InStep(i) THEN 0 ELSE 1

(* One lost command is paid for by each reset; a further one may be owed   *)
(* while the numbers disagree.                                             *)
LossInv ==
  \A i \in Inputs :
    /\ lost[i] + Owed(i) <= hist.resets + hist.late
    /\ ~started => hist.late = 1 /\ lost[i] = 0

LEMMA LossFacts ==
  ASSUME TypeOK, NEW i \in Inputs
  PROVE  /\ lost[i] \in Nat /\ hist.resets \in Nat /\ hist.late \in {0, 1}
         /\ Owed(i) \in {0, 1}
  BY DEF TypeOK, PastOK, History, Owed

LEMMA LossInit == Init => LossInv
  BY DEF Init, LossInv, Owed, InStep

(* What a step makes of the numbers of an input.                           *)
LEMMA StepNumbers ==
  ASSUME TypeOK, Step, NEW i \in Inputs
  PROVE  /\ i \in Queued => seq'[i] = (seq[i] + 1) % SeqMod /\ mptr'[i].Sequence = seq'[i]
         /\ i \notin Queued => seq'[i] = seq[i] /\ mptr'[i] = mptr[i]
         /\ started => seen'[i] = mptr'[i].Sequence
  BY DEF Step, Present, ModelStep

(* A step presents a number the model has read only if the numbers         *)
(* disagreed, and afterwards they agree.                                   *)
LEMMA LossStep ==
  ASSUME TypeOK, LossInv, Step  PROVE LossInv'
<1>1. UNCHANGED <<started, hist.resets, hist.late>>
  BY StepHistory DEF Step, TypeOK, PastOK, History
<1> SUFFICES ASSUME NEW i \in Inputs
             PROVE  /\ lost'[i] + Owed(i)' <= hist'.resets + hist'.late
                    /\ ~started' => hist'.late = 1 /\ lost'[i] = 0
  BY DEF LossInv
<1>3. /\ lost[i] \in Nat /\ hist.resets \in Nat /\ hist.late \in {0, 1}
      /\ Owed(i) \in {0, 1} /\ Owed(i)' \in {0, 1}
  BY LossFacts DEF Owed
<1>4. lost'[i] = IF started /\ i \in Queued /\ seq'[i] = seen[i] THEN lost[i] + 1 ELSE lost[i]
  BY DEF Step, TypeOK, PastOK
<1>5. seq[i] \in Sequence /\ seen[i] \in Sequence
  BY DEF TypeOK, PortsOK
<1>6. CASE ~started
  BY <1>1, <1>3, <1>4, <1>6 DEF LossInv
<1>7. CASE started /\ i \in Queued
  <2>1. seq'[i] # seq[i] /\ mptr'[i].Sequence = seq'[i] /\ seen'[i] = seq'[i]
    BY <1>5, <1>7, NextSequence, StepNumbers
  <2>2. Owed(i)' = 0
    BY <2>1 DEF Owed, InStep
  <2>3. lost'[i] <= lost[i] + Owed(i)
    BY <1>3, <1>4, <2>1 DEF Owed, InStep
  <2> QED BY <1>1, <1>3, <1>4, <1>7, <2>2, <2>3 DEF LossInv
<1>8. CASE started /\ i \notin Queued
  <2>1. seq'[i] = seq[i] /\ mptr'[i] = mptr[i] /\ seen'[i] = mptr[i].Sequence
    BY <1>8, StepNumbers
  <2>2. Owed(i)' <= Owed(i)
    BY <2>1 DEF Owed, InStep
  <2> QED BY <1>1, <1>3, <1>4, <1>8, <2>2 DEF LossInv
<1> QED BY <1>6, <1>7, <1>8

(* A reset is paid for whatever it does to the numbers.                    *)
LEMMA LossReset ==
  ASSUME TypeOK, LossInv, hist'.resets = hist.resets + 1,
         UNCHANGED <<started, lost, hist.late>>
  PROVE  LossInv'
<1> SUFFICES ASSUME NEW i \in Inputs
             PROVE  /\ lost'[i] + Owed(i)' <= hist'.resets + hist'.late
                    /\ ~started' => hist'.late = 1 /\ lost'[i] = 0
  BY DEF LossInv
<1>1. Owed(i)' \in {0, 1} /\ Owed(i) \in {0, 1}
  BY DEF Owed
<1> QED BY <1>1, LossFacts DEF LossInv

LEMMA LossNext == TypeOK /\ LossInv /\ [Next]_vars => LossInv'
<1> SUFFICES ASSUME TypeOK, LossInv, [Next]_vars  PROVE LossInv'
  OBVIOUS
<1> DEFINE msg == Head(pipe)
<1>1. CASE UNCHANGED <<ports, seen, started, past>>
  BY <1>1 DEF LossInv, Owed, InStep, ports, past
<1>2. CASE StartTime
  BY <1>2 DEF StartTime, LossInv, Owed, InStep, ports, past
<1>3. CASE Step
  BY <1>3, LossStep
<1>4. CASE ReceiveInit(msg) \/ Restart
  <2>1. hist' = [hist EXCEPT !.resets = @ + 1, !.inits = @ + 1] /\ UNCHANGED <<started, lost>>
    BY <1>4 DEF ReceiveInit, Restart
  <2> QED BY <2>1, LossReset DEF TypeOK, PastOK, History
<1>5. CASE ReceiveResetSeq(msg)
  <2>1. hist' = [hist EXCEPT !.resets = @ + 1] /\ UNCHANGED <<started, lost>>
    BY <1>5 DEF ReceiveResetSeq, model
  <2> QED BY <2>1, LossReset DEF TypeOK, PastOK, History
<1>6. Send \/ Wakeup \/ PipeError \/ UNCHANGED vars => UNCHANGED <<ports, seen, started, past>>
  BY DEF Send, SendCommand, SendTelemetry, SendTick, SendControl, Wakeup, PipeError, vars, model
<1>7. Receive => \/ UNCHANGED <<ports, seen, started, past>>
                 \/ ReceiveInit(msg) \/ ReceiveResetSeq(msg)
  BY DEF Receive, ReceiveCommand, Enqueue, Refuse, ReceiveTelemetry, ReceiveTick, ReceiveReset,
         ReceiveClear, ReceiveExit, ports, model
<1>8. EndPass => Step \/ UNCHANGED <<ports, seen, started, past>>
  BY DEF EndPass, model
<1> QED BY <1>1, <1>2, <1>3, <1>4, <1>5, <1>6, <1>7, <1>8 DEF Next

(* The model misses at most one command for each reset of its numbers.     *)
THEOREM LossBounded == Spec => []ResetCostsOne
<1>1. TypeOK /\ LossInv => ResetCostsOne
  <2> SUFFICES ASSUME TypeOK, LossInv, NEW i \in Inputs
               PROVE  lost[i] <= hist.resets + hist.late
    BY DEF ResetCostsOne
  <2> QED BY LossFacts DEF LossInv
<1> QED BY <1>1, LossInit, LossNext, TypeInit, TypeNext, PTL DEF Spec

-----------------------------------------------------------------------------
(* A command of the model is published in the step that issues it, unless  *)
(* the model and CSL_MsgSnd.seq disagree on the number of the last one.    *)
Apart == IF outSeq # sndSeq THEN 1 ELSE 0

PublishInv ==
  /\ hist.issued + Apart <= hist.out + hist.inits
  /\ hist.out + Apart <= hist.issued + hist.inits

LEMMA PublishFacts ==
  ASSUME PastOK
  PROVE  hist.issued \in Nat /\ hist.out \in Nat /\ hist.inits \in Nat /\ Apart \in {0, 1}
  BY DEF PastOK, History, Apart

LEMMA PublishInit == Init => PublishInv
  BY DEF Init, PublishInv, Apart

LEMMA PublishStep ==
  ASSUME TypeOK, PublishInv, Step  PROVE PublishInv'
<1>1. PICK raise \in BOOLEAN, a \in {0, 1}, b \in {0, 1} :
        /\ raise => started
        /\ ModelStep(raise)
        /\ (a = 1 <=> raise)
        /\ (b = 1 <=> outSeq' # sndSeq)
        /\ hist' = [hist EXCEPT !.issued = @ + a, !.out = @ + b]
  BY StepHistory
<1>2. /\ hist'.issued = hist.issued + a
      /\ hist'.out = hist.out + b
      /\ hist'.inits = hist.inits
  BY <1>1 DEF TypeOK, PastOK, History
<1>3. Apart' = 0
  BY DEF Step, Publish, Apart
<1>4. Apart = 0 => a = b
  <2> SUFFICES ASSUME outSeq = sndSeq  PROVE raise <=> outSeq' # outSeq
    BY <1>1 DEF Apart
  <2>1. (outSeq + 1) % SeqMod # outSeq
    BY NextSequence DEF TypeOK, PortsOK
  <2> QED BY <1>1, <2>1 DEF ModelStep
<1>5. hist.issued \in Nat /\ hist.out \in Nat /\ hist.inits \in Nat /\ Apart \in {0, 1}
  BY PublishFacts DEF TypeOK
<1> QED BY <1>2, <1>3, <1>4, <1>5 DEF PublishInv

LEMMA PublishNext == TypeOK /\ PublishInv /\ [Next]_vars => PublishInv'
<1> SUFFICES ASSUME TypeOK, PublishInv, [Next]_vars  PROVE PublishInv'
  OBVIOUS
<1> DEFINE msg == Head(pipe)
<1>1. CASE UNCHANGED <<outSeq, sndSeq, hist>>
  BY <1>1 DEF PublishInv, Apart
<1>2. CASE Step
  BY <1>2, PublishStep
<1>3. CASE ReceiveInit(msg) \/ Restart
  <2>1. hist' = [hist EXCEPT !.resets = @ + 1, !.inits = @ + 1]
    BY <1>3 DEF ReceiveInit, Restart
  <2>2. hist'.issued = hist.issued /\ hist'.out = hist.out /\ hist'.inits = hist.inits + 1
    BY <2>1 DEF TypeOK, PastOK, History
  <2>3. Apart' \in {0, 1}
    BY DEF Apart
  <2> QED BY <2>2, <2>3, PublishFacts DEF TypeOK, PublishInv
<1>4. CASE ReceiveResetSeq(msg)
  <2>1. hist' = [hist EXCEPT !.resets = @ + 1] /\ UNCHANGED <<outSeq, sndSeq>>
    BY <1>4 DEF ReceiveResetSeq, model
  <2>2. hist'.issued = hist.issued /\ hist'.out = hist.out /\ hist'.inits = hist.inits
    BY <2>1 DEF TypeOK, PastOK, History
  <2> QED BY <2>1, <2>2 DEF PublishInv, Apart
<1>5. Send \/ StartTime \/ Wakeup \/ PipeError \/ UNCHANGED vars
        => UNCHANGED <<outSeq, sndSeq, hist>>
  BY DEF Send, SendCommand, SendTelemetry, SendTick, SendControl, StartTime, Wakeup, PipeError,
         vars, model, past
<1>6. Receive => \/ UNCHANGED <<outSeq, sndSeq, hist>>
                 \/ ReceiveInit(msg) \/ ReceiveResetSeq(msg)
  BY DEF Receive, ReceiveCommand, Enqueue, Refuse, ReceiveTelemetry, ReceiveTick, ReceiveReset,
         ReceiveClear, ReceiveExit, model, past
<1>7. EndPass => Step \/ UNCHANGED <<outSeq, sndSeq, hist>>
  BY DEF EndPass, model, past
<1> QED BY <1>1, <1>2, <1>3, <1>4, <1>5, <1>6, <1>7 DEF Next

(* Commands of the model are published once each, but for initializations. *)
THEOREM PublishingBounded == Spec => []PublishedOnce
<1>1. TypeOK /\ PublishInv => PublishedOnce
  BY PublishFacts DEF TypeOK, PublishInv, PublishedOnce
<1> QED BY <1>1, PublishInit, PublishNext, TypeInit, TypeNext, PTL DEF Spec

-----------------------------------------------------------------------------
(* The tail of a ring is the slot after the queue's last.                  *)
RingInv == \A i \in Inputs : qtl[i] = Wrap(qhd[i] + qcnt[i])

LEMMA PendingSeq ==
  ASSUME QueuesOK, NEW i \in Inputs
  PROVE  /\ Pending(i) \in Seq(Content) /\ Len(Pending(i)) = qcnt[i]
         /\ \A k \in 1..qcnt[i] : Pending(i)[k] = ring[i][Wrap(qhd[i] + k - 1)]
         /\ qcnt[i] \in Nat
         /\ Pending(i) = << >> <=> qcnt[i] = 0
<1>1. qcnt[i] \in 0..CSL_MAX_RCVMSG /\ CSL_MAX_RCVMSG \in Nat /\ qhd[i] \in Slots
  BY CslAssumption DEF QueuesOK
<1>2. \A k \in 1..qcnt[i] : ring[i][Wrap(qhd[i] + k - 1)] \in Content
  <2> SUFFICES ASSUME NEW k \in 1..qcnt[i]  PROVE ring[i][Wrap(qhd[i] + k - 1)] \in Content
    OBVIOUS
  <2>1. qhd[i] + k - 1 \in 0..(2 * CSL_MAX_RCVMSG - 1)
    BY <1>1, CslAssumption DEF Slots
  <2>2. Wrap(qhd[i] + k - 1) \in Slots
    BY <2>1, WrapTyped
  <2> QED BY <2>2 DEF QueuesOK, Content
<1>3. Pending(i) \in [1..qcnt[i] -> Content]
  BY <1>2 DEF Pending
<1>4. Pending(i) \in Seq(Content) /\ Len(Pending(i)) = qcnt[i]
  BY <1>1, <1>3
<1>5. Pending(i) = << >> <=> qcnt[i] = 0
  BY <1>4, EmptySeq
<1> QED BY <1>1, <1>4, <1>5 DEF Pending

(* What leaves the rings alone leaves the queues alone.                    *)
LEMMA SameQueues ==
  ASSUME UNCHANGED queues
  PROVE  [i \in Inputs |-> Pending(i)]' = [i \in Inputs |-> Pending(i)] /\ (RingInv => RingInv')
  BY DEF queues, Pending, RingInv

LEMMA ClearEmpties ==
  ASSUME ClearQueue, QueuesOK'
  PROVE  [i \in Inputs |-> Pending(i)]' = [i \in Inputs |-> << >>] /\ RingInv'
<1>1. ASSUME NEW i \in Inputs  PROVE Pending(i)' = << >>
  <2>1. qcnt'[i] = 0
    BY DEF ClearQueue
  <2>2. (Pending(i) = << >> <=> qcnt[i] = 0)'
    BY PTL, PendingSeq
  <2> QED BY <2>1, <2>2
<1>2. RingInv'
  BY CslAssumption DEF ClearQueue, RingInv, Wrap
<1> QED BY <1>1, <1>2

(* The facts about a queue, in the next state.                             *)
LEMMA PendingNext ==
  ASSUME QueuesOK', NEW i \in Inputs
  PROVE  /\ Pending(i)' \in Seq(Content) /\ Len(Pending(i)') = qcnt'[i]
         /\ \A k \in 1..qcnt'[i] : Pending(i)'[k] = ring'[i][Wrap(qhd'[i] + k - 1)]
<1>1. (/\ Pending(i) \in Seq(Content) /\ Len(Pending(i)) = qcnt[i]
       /\ \A k \in 1..qcnt[i] : Pending(i)[k] = ring[i][Wrap(qhd[i] + k - 1)])'
  BY PTL, PendingSeq
<1>2. Content' = Content
  BY DEF Content
<1> QED BY <1>1, <1>2

(* A command that is enqueued becomes the last of its queue; what it spills *)
(* meets another command only in the slot of the first, when it fills the  *)
(* ring.                                                                   *)
LEMMA EnqueueAppends ==
  ASSUME QueuesOK, QueuesOK', RingInv, NEW i \in Inputs, NEW c \in Commands,
         NEW spills \in BOOLEAN, Enqueue(i, c, spills), qcnt[i] < CSL_MAX_RCVMSG
  PROVE  /\ \/ Pending(i)' = Append(Pending(i), c)
            \/ /\ Len(Pending(i)) > 0 /\ Len(Pending(i)) + 1 = CSL_MAX_RCVMSG
               /\ Pending(i)' = <<Garbled>> \o Append(Tail(Pending(i)), c)
         /\ \A j \in Inputs \ {i} : Pending(j)' = Pending(j)
         /\ RingInv'
<1>1. /\ ring' = [ring EXCEPT ![i] = Written(ring[i], qtl[i], c, spills)]
      /\ qtl' = [qtl EXCEPT ![i] = Wrap(@ + 1)]
      /\ qcnt' = [qcnt EXCEPT ![i] = @ + 1]
      /\ qhd' = qhd
  BY DEF Enqueue, QueuesOK
<1>2. /\ qhd[i] \in Slots /\ qcnt[i] \in 0..CSL_MAX_RCVMSG /\ CSL_MAX_RCVMSG \in Nat \ {0}
      /\ qtl[i] = Wrap(qhd[i] + qcnt[i]) /\ qtl[i] \in Slots
  BY CslAssumption DEF QueuesOK, RingInv
<1>3. qcnt'[i] = qcnt[i] + 1
  BY <1>1 DEF QueuesOK
<1>4. /\ ring'[i] = Written(ring[i], qtl[i], c, spills)
      /\ \A j \in Inputs \ {i} : ring'[j] = ring[j]
  BY <1>1 DEF QueuesOK
<1>5. /\ ring'[i][qtl[i]] = c
      /\ \A s \in Slots : s # qtl[i] /\ ~(spills /\ s = qtl[i] + 1) => ring'[i][s] = ring[i][s]
      /\ \A s \in Slots : spills /\ s = qtl[i] + 1 => ring'[i][s] = Garbled
  BY <1>2, <1>4 DEF Written, Slots
<1> DEFINE old == Pending(i)
           new == Pending(i)'
<1>6. /\ old \in Seq(Content) /\ Len(old) = qcnt[i]
      /\ \A k \in 1..qcnt[i] : old[k] = ring[i][Wrap(qhd[i] + k - 1)]
      /\ new \in Seq(Content) /\ Len(new) = qcnt[i] + 1
      /\ \A k \in 1..(qcnt[i] + 1) : new[k] = ring'[i][Wrap(qhd[i] + k - 1)]
      /\ c \in Content
  <2>1. /\ old \in Seq(Content) /\ Len(old) = qcnt[i]
        /\ \A k \in 1..qcnt[i] : old[k] = ring[i][Wrap(qhd[i] + k - 1)]
    BY PendingSeq
  <2>2. /\ new \in Seq(Content) /\ Len(new) = qcnt'[i]
        /\ \A k \in 1..qcnt'[i] : new[k] = ring'[i][Wrap(qhd'[i] + k - 1)]
    BY PendingNext
  <2>3. c \in Content
    BY DEF Content
  <2> HIDE DEF old, new
  <2> QED BY <1>1, <1>3, <2>1, <2>2, <2>3
<1>7. new[qcnt[i] + 1] = c
  <2>1. qhd[i] + (qcnt[i] + 1) - 1 = qhd[i] + qcnt[i] /\ qcnt[i] + 1 \in 1..(qcnt[i] + 1)
    BY <1>2 DEF Slots
  <2> QED BY <1>2, <1>5, <1>6, <2>1
<1>8. ASSUME NEW k \in 1..qcnt[i]
      PROVE  \/ new[k] = old[k]
             \/ k = 1 /\ qcnt[i] + 1 = CSL_MAX_RCVMSG /\ new[k] = Garbled
  <2>1. k - 1 \in 0..(CSL_MAX_RCVMSG - 1) /\ k \in 1..(qcnt[i] + 1)
        /\ qhd[i] + (k - 1) = qhd[i] + k - 1
    BY <1>2 DEF Slots
  <2>2. Wrap(qhd[i] + k - 1) \in Slots /\ Wrap(qhd[i] + k - 1) # qtl[i]
    BY <1>2, <2>1 DEF Wrap, Slots
  <2>3. Wrap(qhd[i] + k - 1) = qtl[i] + 1 => k = 1 /\ qcnt[i] + 1 = CSL_MAX_RCVMSG
    BY <1>2, <2>1 DEF Wrap, Slots
  <2>4. new[k] = ring'[i][Wrap(qhd[i] + k - 1)] /\ old[k] = ring[i][Wrap(qhd[i] + k - 1)]
    BY <1>6, <2>1
  <2> QED BY <1>5, <2>2, <2>3, <2>4
<1>9. ASSUME \A k \in 1..qcnt[i] : new[k] = old[k]
      PROVE  new = Append(old, c)
  <2> DEFINE t == Append(old, c)
  <2>1. /\ t \in Seq(Content) /\ Len(t) = qcnt[i] + 1
        /\ \A k \in 1..qcnt[i] : t[k] = old[k]
        /\ t[qcnt[i] + 1] = c
    BY <1>6, AppendProperties
  <2>2. \A k \in 1..(qcnt[i] + 1) : new[k] = t[k]
    BY <1>2, <1>7, <1>9, <2>1
  <2> HIDE DEF old, new, t
  <2> QED BY <1>6, <2>1, <2>2, SeqEqual DEF t
<1>10. ASSUME qcnt[i] > 0, new[1] = Garbled, \A k \in 2..qcnt[i] : new[k] = old[k]
       PROVE  new = <<Garbled>> \o Append(Tail(old), c)
  <2> DEFINE u == Append(Tail(old), c)
             t == <<Garbled>> \o u
  <2>1. old # << >>
    BY <1>2, <1>6, <1>10
  <2>2. /\ Tail(old) \in Seq(Content) /\ Len(Tail(old)) = qcnt[i] - 1
        /\ \A k \in 1..(qcnt[i] - 1) : Tail(old)[k] = old[k + 1]
    BY <1>2, <1>6, <2>1, HeadTailProperties
  <2>3. /\ u \in Seq(Content) /\ Len(u) = qcnt[i]
        /\ \A k \in 1..(qcnt[i] - 1) : u[k] = old[k + 1]
        /\ u[qcnt[i]] = c
    BY <1>2, <1>6, <1>10, <2>2, AppendProperties
  <2> HIDE DEF old, new, u
  <2>4. <<Garbled>> \in Seq(Content) /\ Len(<<Garbled>>) = 1
    BY DEF Content
  <2>5. /\ t \in Seq(Content) /\ Len(t) = qcnt[i] + 1 /\ t[1] = Garbled
        /\ \A k \in 2..(qcnt[i] + 1) : t[k] = u[k - 1]
    BY <1>2, <2>3, <2>4, ConcatProperties
  <2> HIDE DEF t
  <2>6. ASSUME NEW k \in 1..(qcnt[i] + 1)  PROVE new[k] = t[k]
    <3>1. CASE k = 1
      BY <1>10, <2>5, <3>1
    <3>2. CASE k \in 2..qcnt[i]
      <4>1. k - 1 \in 1..(qcnt[i] - 1) /\ (k - 1) + 1 = k
        BY <1>2, <3>2
      <4>2. t[k] = u[k - 1]
        BY <1>2, <2>5, <3>2
      <4>3. u[k - 1] = old[(k - 1) + 1]
        BY <2>3, <4>1
      <4>4. new[k] = old[k]
        BY <1>10, <3>2
      <4> QED BY <4>1, <4>2, <4>3, <4>4
    <3>3. CASE k = qcnt[i] + 1
      <4>1. k \in 2..(qcnt[i] + 1) /\ k - 1 = qcnt[i]
        BY <1>2, <1>10, <3>3
      <4>2. t[k] = u[k - 1]
        BY <2>5, <4>1
      <4>3. u[qcnt[i]] = c
        BY <2>3
      <4>4. new[k] = c
        BY <1>7, <3>3
      <4> QED BY <4>1, <4>2, <4>3, <4>4
    <3>4. k = 1 \/ k \in 2..qcnt[i] \/ k = qcnt[i] + 1
      BY <1>2
    <3> QED BY <3>1, <3>2, <3>3, <3>4
  <2>7. new = t
    BY <1>6, <2>5, <2>6, SeqEqual
  <2> QED BY <2>7 DEF t, u
<1>11. \/ new = Append(old, c)
       \/ Len(old) > 0 /\ Len(old) + 1 = CSL_MAX_RCVMSG /\ new = <<Garbled>> \o Append(Tail(old), c)
  <2>1. CASE \A k \in 1..qcnt[i] : new[k] = old[k]
    BY <1>9, <2>1
  <2>2. CASE ~(\A k \in 1..qcnt[i] : new[k] = old[k])
    <3>1. qcnt[i] > 0 /\ qcnt[i] + 1 = CSL_MAX_RCVMSG /\ new[1] = Garbled
      BY <1>2, <1>8, <2>2
    <3>2. \A k \in 2..qcnt[i] : new[k] = old[k]
      BY <1>2, <1>8
    <3> QED BY <1>6, <1>10, <3>1, <3>2
  <2> QED BY <2>1, <2>2
<1>12. ASSUME NEW j \in Inputs \ {i}  PROVE Pending(j)' = Pending(j)
  <2>1. ring'[j] = ring[j] /\ qhd'[j] = qhd[j] /\ qcnt'[j] = qcnt[j]
    BY <1>1, <1>4 DEF QueuesOK
  <2> QED BY <2>1 DEF Pending
<1>13. RingInv'
  <2> SUFFICES ASSUME NEW j \in Inputs  PROVE qtl'[j] = Wrap(qhd'[j] + qcnt'[j])
    BY DEF RingInv
  <2>1. CASE j = i
    <3>1. qtl'[i] = Wrap(qtl[i] + 1) /\ qhd'[i] = qhd[i]
      BY <1>1 DEF QueuesOK
    <3>2. Wrap(Wrap(qhd[i] + qcnt[i]) + 1) = Wrap(qhd[i] + (qcnt[i] + 1))
      BY <1>2, WrapPlus
    <3> QED BY <1>2, <1>3, <2>1, <3>1, <3>2
  <2>2. CASE j # i
    BY <1>1, <2>2 DEF QueuesOK, RingInv
  <2> QED BY <2>1, <2>2
<1> QED BY <1>11, <1>12, <1>13

(* A step takes the first of every queue that holds a command.             *)
LEMMA StepTakes ==
  ASSUME QueuesOK, QueuesOK', PortsOK, RingInv, Step, NEW i \in Inputs
  PROVE  /\ Pending(i)' = IF Pending(i) = << >> THEN << >> ELSE Tail(Pending(i))
         /\ mptr'[i].cmd = IF Pending(i) = << >> THEN mptr[i].cmd ELSE Head(Pending(i))
         /\ qtl'[i] = Wrap(qhd'[i] + qcnt'[i])
<1>1. /\ qhd[i] \in Slots /\ qcnt[i] \in 0..CSL_MAX_RCVMSG /\ CSL_MAX_RCVMSG \in Nat \ {0}
      /\ qtl[i] = Wrap(qhd[i] + qcnt[i])
  BY CslAssumption DEF QueuesOK, RingInv
<1>2. ring' = ring /\ qtl' = qtl
  BY DEF Step, Cleanup
<1>3. CASE qcnt[i] = 0
  <2>1. qhd'[i] = qhd[i] /\ qcnt'[i] = qcnt[i] /\ mptr'[i] = mptr[i]
    BY <1>3 DEF Step, Cleanup, Present, Queued
  <2>2. Pending(i) = << >>
    BY <1>3, PendingSeq
  <2>3. Pending(i)' = Pending(i)
    BY <1>2, <2>1 DEF Pending
  <2> QED BY <1>1, <1>2, <2>1, <2>2, <2>3
<1>4. CASE qcnt[i] > 0
  <2>1. /\ qhd'[i] = Wrap(qhd[i] + 1) /\ qcnt'[i] = qcnt[i] - 1
        /\ mptr'[i].cmd = ring[i][qhd[i]]
    BY <1>4 DEF Step, Cleanup, Present, Queued
  <2>2. Pending(i) # << >> /\ Pending(i) \in Seq(Content) /\ Len(Pending(i)) = qcnt[i]
    BY <1>1, <1>4, PendingSeq
  <2>3. Head(Pending(i)) = ring[i][qhd[i]]
    <3>1. Head(Pending(i)) = Pending(i)[1]
      BY <2>2
    <3>2. Pending(i)[1] = ring[i][Wrap(qhd[i] + 1 - 1)]
      BY <1>1, <1>4, PendingSeq
    <3>3. Wrap(qhd[i] + 1 - 1) = qhd[i]
      BY <1>1 DEF Wrap, Slots
    <3> QED BY <3>1, <3>2, <3>3
  <2>4. Pending(i)' = Tail(Pending(i))
    <3> DEFINE s == Pending(i)'
               t == Tail(Pending(i))
    <3>1. s \in Seq(Content) /\ Len(s) = qcnt[i] - 1
      BY <2>1, PendingNext
    <3>2. /\ t \in Seq(Content) /\ Len(t) = qcnt[i] - 1
          /\ \A k \in 1..(qcnt[i] - 1) : t[k] = Pending(i)[k + 1]
      BY <2>2, HeadTailProperties
    <3>3. ASSUME NEW k \in 1..(qcnt[i] - 1)  PROVE s[k] = t[k]
      <4>1. s[k] = ring[i][Wrap(Wrap(qhd[i] + 1) + k - 1)]
        BY <1>2, <2>1, PendingNext
      <4>2. t[k] = ring[i][Wrap(qhd[i] + (k + 1) - 1)]
        <5>1. k + 1 \in 1..qcnt[i]
          BY <1>1
        <5> QED BY <3>2, <5>1, PendingSeq
      <4>3. Wrap(Wrap(qhd[i] + 1) + k - 1) = Wrap(qhd[i] + (k + 1) - 1)
        BY <1>1 DEF Wrap, Slots
      <4> QED BY <4>1, <4>2, <4>3
    <3> HIDE DEF s, t
    <3>4. s = t
      <4>1. Len(s) = Len(t) /\ \A k \in 1..Len(s) : s[k] = t[k]
        BY <3>1, <3>2, <3>3
      <4> QED BY <3>1, <3>2, <4>1, SeqEqual
    <3> QED BY <3>4 DEF s, t
  <2>5. qtl[i] = Wrap(Wrap(qhd[i] + 1) + (qcnt[i] - 1))
    BY <1>1, <1>4, WrapPlus
  <2> QED BY <1>2, <2>1, <2>2, <2>3, <2>4, <2>5
<1> QED BY <1>1, <1>3, <1>4

(* Every step of the layer is one of the queues or leaves them alone.      *)
LEMMA QueueStep ==
  ASSUME TypeOK, TypeOK', RingInv, [Next]_vars
  PROVE  RingInv' /\ [Q!Next]_<<[i \in Inputs |-> Pending(i)], [i \in Inputs |-> mptr[i].cmd]>>
<1> DEFINE msg == Head(pipe)
           queue == [i \in Inputs |-> Pending(i)]
           given == [i \in Inputs |-> mptr[i].cmd]
<1> USE DEF TypeOK
<1>1. CASE UNCHANGED <<queues, mptr>>
  BY <1>1, SameQueues
<1>2. CASE ClearQueue /\ (InitModel \/ UNCHANGED mptr)
  <2>1. queue' = [i \in Inputs |-> << >>] /\ RingInv'
    BY <1>2, ClearEmpties
  <2>2. given' \in {given, [i \in Inputs |-> Blank]}
    BY <1>2 DEF InitModel
  <2>3. Q!Drop
    BY <2>1, <2>2 DEF Q!Drop
  <2> QED BY <2>1, <2>3 DEF Q!Next
<1>3. CASE Step
  <2>1. queue' = [i \in Inputs |-> IF queue[i] = << >> THEN << >> ELSE Tail(queue[i])]
    BY <1>3, StepTakes
  <2>2. given' = [i \in Inputs |-> IF queue[i] = << >> THEN given[i] ELSE Head(queue[i])]
    BY <1>3, StepTakes
  <2>3. RingInv'
    BY <1>3, StepTakes DEF RingInv
  <2>4. Q!HandOver
    BY <2>1, <2>2 DEF Q!HandOver
  <2> QED BY <2>3, <2>4 DEF Q!Next
<1>4. CASE Receive /\ ReceiveCommand(msg)
  <2>1. msg \in Message
    BY <1>4, CslAssumption DEF PipeOK, Receive
  <2>2. PICK i \in Inputs, c \in Commands : i = msg.input /\ c = msg.cmd /\ mptr' = mptr
    BY <1>4, <2>1, MessageFields DEF ReceiveCommand, ports
  <2>3. CASE msg.size # "long" /\ qcnt[i] < CSL_MAX_RCVMSG
    <3>1. Enqueue(i, c, msg.size = "spills") /\ (msg.size = "spills") \in BOOLEAN
      BY <1>4, <2>2, <2>3 DEF ReceiveCommand
    <3>2. /\ \/ Pending(i)' = Append(Pending(i), c)
             \/ /\ Len(Pending(i)) > 0 /\ Len(Pending(i)) + 1 = CSL_MAX_RCVMSG
                /\ Pending(i)' = <<Garbled>> \o Append(Tail(Pending(i)), c)
          /\ \A j \in Inputs \ {i} : Pending(j)' = Pending(j)
          /\ RingInv'
      BY <2>2, <2>3, <3>1, EnqueueAppends
    <3>3. queue' = [queue EXCEPT ![i] = Pending(i)']
      BY <2>2, <3>2
    <3>4. Len(queue[i]) < CSL_MAX_RCVMSG /\ queue[i] = Pending(i)
      BY <2>2, <2>3, PendingSeq
    <3>5. given' = given
      BY <2>2
    <3>6. Q!Accept(i, c) \/ Q!Overrun(i, c)
      <4>1. CASE Pending(i)' = Append(Pending(i), c)
        <5>1. queue' = [queue EXCEPT ![i] = Append(@, c)]
          BY <3>3, <3>4, <4>1
        <5> QED BY <3>4, <3>5, <5>1, Zenon DEF Q!Accept
      <4>2. CASE /\ Len(Pending(i)) > 0 /\ Len(Pending(i)) + 1 = CSL_MAX_RCVMSG
                 /\ Pending(i)' = <<Garbled>> \o Append(Tail(Pending(i)), c)
        <5>1. queue' = [queue EXCEPT ![i] = <<Garbled>> \o Append(Tail(@), c)]
          BY <3>3, <3>4, <4>2
        <5>2. Len(queue[i]) > 0 /\ Len(queue[i]) + 1 = CSL_MAX_RCVMSG
          BY <3>4, <4>2
        <5> QED BY <3>5, <5>1, <5>2, Zenon DEF Q!Overrun
      <4> QED BY <3>2, <4>1, <4>2
    <3> QED BY <3>2, <3>6 DEF Q!Next
  <2>4. CASE ~(msg.size # "long" /\ qcnt[i] < CSL_MAX_RCVMSG)
    <3>1. Refuse
      BY <1>4, <2>2, <2>4 DEF ReceiveCommand, Enqueue
    <3> QED BY <1>1, <2>2, <3>1 DEF Refuse
  <2> QED BY <2>3, <2>4
<1>5. Send \/ StartTime \/ Wakeup \/ PipeError \/ UNCHANGED vars => UNCHANGED <<queues, mptr>>
  BY DEF Send, SendCommand, SendTelemetry, SendTick, SendControl, StartTime, Wakeup, PipeError,
         vars, ports
<1>6. Receive => \/ UNCHANGED <<queues, mptr>>
                 \/ ClearQueue /\ (InitModel \/ UNCHANGED mptr)
                 \/ Receive /\ ReceiveCommand(msg)
  BY DEF Receive, ReceiveTelemetry, ReceiveTick, ReceiveReset, ReceiveInit, ReceiveResetSeq,
         ReceiveClear, ReceiveExit, ports
<1>7. EndPass => Step \/ UNCHANGED <<queues, mptr>>
  BY DEF EndPass, ports
<1>8. Restart => ClearQueue /\ InitModel
  BY DEF Restart
<1> QED BY <1>1, <1>2, <1>3, <1>4, <1>5, <1>6, <1>7, <1>8 DEF Next

LEMMA QueueInit == Init => RingInv /\ Q!Init
<1> SUFFICES ASSUME Init  PROVE RingInv /\ Q!Init
  OBVIOUS
<1>1. RingInv
  BY CslAssumption DEF Init, EmptyQueues, RingInv, Wrap
<1>2. \A i \in Inputs : Pending(i) = << >>
  BY TypeInit, PendingSeq DEF Init, EmptyQueues, TypeOK
<1> QED BY <1>1, <1>2 DEF Q!Init, Init

(* The rings are first-in-first-out queues, whatever their size, however   *)
(* their pointers wrap and whenever they are cleared; a command longer     *)
(* than its slot spoils no other than the oldest of a ring it fills.       *)
THEOREM RingsAreQueues == Spec => FirstInFirstOut
<1>1. Init => TypeOK /\ RingInv /\ Q!Init
  BY TypeInit, QueueInit
<1>2. /\ TypeOK /\ RingInv /\ [Next]_vars
      => /\ TypeOK' /\ RingInv'
         /\ [Q!Next]_<<[i \in Inputs |-> Pending(i)], [i \in Inputs |-> mptr[i].cmd]>>
  BY TypeNext, QueueStep
<1> QED BY <1>1, <1>2, PTL DEF Spec, FirstInFirstOut, Q!Spec

=============================================================================
