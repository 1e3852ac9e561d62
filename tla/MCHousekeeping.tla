--------------------------- MODULE MCHousekeeping ---------------------------
(* Instances of Housekeeping for TLC.                                      *)
EXTENDS Housekeeping

CONSTANTS a, b, x, y

C(in, out, offset, bytes) ==
  [input_mid |-> in, output_mid |-> out, output_offset |-> offset, num_bytes |-> bytes]
Unused == C(NoMid, NoMid, 0, 0)

(* Two inputs in one packet; one input in two packets, the last call of    *)
(* whose set-up is an allocation, and for which the pool has room after    *)
(* Longer but not after Joined; a packet that is longer by a later entry;  *)
(* one that no block holds; one with an entry whose end wraps to 1.        *)
Joined == <<C(a, x, 0, 1), C(b, x, 1, 1), Unused>>
Split  == <<C(b, x, 0, 3), C(a, y, 0, 1), C(b, y, 1, 2)>>
Longer == <<C(a, y, 0, 1), C(b, y, 1, 3), C(a, y, 2, 1)>>
TooBig == <<C(a, x, 0, 9), C(b, y, 0, 1), Unused>>

Wrapped == <<C(a, x, LengthMod - 2, 3), C(b, x, 0, 2), Unused>>

CopyTables == {Joined, Split, Longer, TooBig, Wrapped}
=============================================================================
