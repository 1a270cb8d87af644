---------------------------- MODULE FaultyMemory ----------------------------
(***************************************************************************)
(* What the simulator promises of one request, whatever its fault model:   *)
(* the array stores the burst, the burst read back has lost every stored 1 *)
(* that sits on a hard fault and any choice of those on a weak cell, and   *)
(* the ledger gains one verdict and the exact number of lost bits, in one  *)
(* step.  Nothing else about the array or the faults ever changes.         *)
(***************************************************************************)
EXTENDS Naturals, FiniteSets

CONSTANTS Cells,  \* coordinates of the array
          Places  \* bit positions of one burst

VARIABLES array,   \* the places of each cell that store a 1
          hard,    \* the places of each cell that always fail
          weak,    \* the places of each cell that may fail
          busy,    \* a request is being served
          target,  \* its cell
          faulty, correct, lost  \* the ledger

ledgerVars == <<array, hard, weak, busy, target, faulty, correct, lost>>

Init ==
  /\ array \in [Cells -> SUBSET Places]
  /\ hard \in [Cells -> SUBSET Places]
  /\ weak \in [Cells -> SUBSET Places]
  /\ busy = FALSE
  /\ target \in Cells
  /\ faulty = 0 /\ correct = 0 /\ lost = 0

Accept(c, ones) ==
  /\ ~busy
  /\ busy' = TRUE
  /\ target' = c
  /\ array' = [array EXCEPT ![c] = ones]
  /\ UNCHANGED <<hard, weak, faulty, correct, lost>>

Judge(failing) ==
  LET gone == array[target] \cap (hard[target] \cup failing)
  IN /\ busy
     /\ busy' = FALSE
     /\ lost' = lost + Cardinality(gone)
     /\ faulty' = IF gone = {} THEN faulty ELSE faulty + 1
     /\ correct' = IF gone = {} THEN correct + 1 ELSE correct
     /\ UNCHANGED <<array, hard, weak, target>>

Next ==
  \/ \E c \in Cells, ones \in SUBSET Places : Accept(c, ones)
  \/ \E failing \in SUBSET weak[target] : Judge(failing)

Spec == Init /\ [][Next]_ledgerVars
=============================================================================
