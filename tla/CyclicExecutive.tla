-------------------------- MODULE CyclicExecutive --------------------------
(***************************************************************************)
(* What the scheduler app promises of its slots: it processes them in      *)
(* cyclic order, one or, when it is late, a few at a time, and never       *)
(* stops.  A call to synchronise excuses one break of the order           *)
(* (ofsw/cfs/sch/fsw/src/sch_task.c, SCH_TaskMain).                        *)
(***************************************************************************)
EXTENDS Integers

CONSTANTS TotalSlots, MaxBatch

VARIABLES
  slot,    (* the slot due next                                            *)
  batch,   (* the slots processed last                                     *)
  called   (* a call to synchronise came since                             *)

Slots == 0..(TotalSlots - 1)

Init == slot = 0 /\ batch = {} /\ called = FALSE

Call == called' = TRUE /\ UNCHANGED <<slot, batch>>

(* A wake-up may find that its slot was processed before: n is 0.          *)
Process(n) ==
  /\ batch' = {(slot + k) % TotalSlots : k \in 0..(n - 1)}
  /\ \/ slot' = (slot + n) % TotalSlots
     \/ called /\ slot' \in Slots
  /\ called' = FALSE

(* Being too late to catch up it leaves the slots out.                     *)
LeaveOut == called /\ slot' \in Slots /\ UNCHANGED <<batch, called>>

Next == Call \/ LeaveOut \/ \E n \in 0..MaxBatch : Process(n)

Progress == \E n \in 1..MaxBatch : Process(n)

Spec == Init /\ [][Next]_<<slot, batch, called>> /\ WF_<<slot, batch, called>>(Progress)

=============================================================================
