-------------------------------- MODULE Stat --------------------------------
(***************************************************************************)
(* The counters of one simulation (stat.h, stat.cc).  Every component      *)
(* holds a reference to the same Stat object and increments it; PrintStat  *)
(* writes them to the round's _Stats.txt file and ResetStat clears them    *)
(* for the next round.                                                     *)
(***************************************************************************)
EXTENDS Naturals, Sequences

\* How many faulty bits one burst had: the four counters kept per request.
BLCounters == {"single_fault_in_BL_num", "double_fault_in_BL_num",
               "triple_fault_in_BL_num", "others_fault_in_BL_num"}

Counters == BLCounters \cup
  {"executed_request_num", "fault_request_num", "correct_request_num",
   "executed_column_num", "fault_column_num", "correct_column_num",
   "all_fault_bit_num", "hard_fault_bit_num", "vrt_fault_bit_num",
   "single_fault_in_column_num", "double_fault_in_column_num",
   "triple_fault_in_column_num", "others_fault_in_column_num"}

Stats == [Counters -> Nat]

\* logical_adjacent_fault_in_column_num is left out: nothing increments it.

(* Mutant: the bit counter is forgotten. *)
ResetOrderWithoutBits ==
  <<"executed_request_num", "fault_request_num", "correct_request_num",
    "executed_column_num", "fault_column_num", "correct_column_num",
    "hard_fault_bit_num", "vrt_fault_bit_num",
    "single_fault_in_column_num", "double_fault_in_column_num",
    "triple_fault_in_column_num", "others_fault_in_column_num">>

\* The assignments of ResetStat, in order.  all_fault_bit_num is cleared twice,
\* the four per-request fault classes never.
ResetOrder ==
  <<"executed_request_num", "fault_request_num", "correct_request_num",
    "executed_column_num", "fault_column_num", "correct_column_num",
    "all_fault_bit_num", "hard_fault_bit_num", "vrt_fault_bit_num",
    "all_fault_bit_num",
    "single_fault_in_column_num", "double_fault_in_column_num",
    "triple_fault_in_column_num", "others_fault_in_column_num">>

\* The increment of a counter under a condition.
One(p) == IF p THEN 1 ELSE 0

=============================================================================
