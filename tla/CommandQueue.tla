---------------------------- MODULE CommandQueue ----------------------------
(***************************************************************************)
(* What the Simulink interface layer promises of the commands addressed to *)
(* a model (ofsw/src/csl/csl_app.c): each input has a first-in-first-out   *)
(* queue of at most Capacity commands; a step hands the oldest of every    *)
(* queue to the model; a command that finds its queue full is refused;     *)
(* ground can drop all that is queued.  A command too long for its place   *)
(* may spoil another: the oldest, when it takes the last place.            *)
(***************************************************************************)
EXTENDS Integers, Sequences

CONSTANTS Inputs, Commands, Capacity, Blank, Garbled

VARIABLES
  queue,   (* of each input, the commands not yet handed over             *)
  given    (* of each input, the command the model finds there            *)

Init == /\ queue = [i \in Inputs |-> << >>]
        /\ given = [i \in Inputs |-> Blank]

Accept(i, c) ==
  /\ Len(queue[i]) < Capacity
  /\ queue' = [queue EXCEPT ![i] = Append(@, c)]
  /\ UNCHANGED given

Overrun(i, c) ==
  /\ Len(queue[i]) > 0 /\ Len(queue[i]) + 1 = Capacity
  /\ queue' = [queue EXCEPT ![i] = <<Garbled>> \o Append(Tail(@), c)]
  /\ UNCHANGED given

HandOver ==
  /\ queue' = [i \in Inputs |-> IF queue[i] = << >> THEN << >> ELSE Tail(queue[i])]
  /\ given' = [i \in Inputs |-> IF queue[i] = << >> THEN given[i] ELSE Head(queue[i])]

(* The model may be initialized with it.                                   *)
Drop ==
  /\ queue' = [i \in Inputs |-> << >>]
  /\ given' \in {given, [i \in Inputs |-> Blank]}

Next == \/ HandOver \/ Drop
        \/ \E i \in Inputs, c \in Commands : Accept(i, c) \/ Overrun(i, c)

Spec == Init /\ [][Next]_<<queue, given>>

=============================================================================
