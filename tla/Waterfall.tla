------------------------------ MODULE Waterfall ------------------------------
(***************************************************************************)
(* generation/allocations.py: how one payment is spread over what a        *)
(* contract still owes.                                                    *)
(*                                                                         *)
(* A contract's installments are kept here as one row of slots, oldest     *)
(* installment first and, inside each installment, fees, then interest,    *)
(* then principal: the order in which allocate_payment() consumes them.    *)
(* Amounts are integers (cents); the code uses Decimal for the same reason.*)
(***************************************************************************)
EXTENDS Integers

Least(a, b) == IF a <= b THEN a ELSE b
AtLeastZero(a) == IF a < 0 THEN 0 ELSE a
Clip(x, low, high) == IF x < low THEN low ELSE IF x > high THEN high ELSE x

(***************************************************************************)
(* The totals 0, r[1], r[1]+r[2], ... of the first n entries of r.         *)
(***************************************************************************)
RunningTotal(r, n) ==
    LET total[k \in 0..n] == IF k = 0 THEN 0 ELSE total[k - 1] + r[k]
    IN  total

Total(r, n) == RunningTotal(r, n)[n]

(***************************************************************************)
(* The local variable `remaining` of allocate_payment() after slot s.      *)
(***************************************************************************)
Unallocated(amount, open, n) ==
    LET left[s \in 0..n] ==
            IF s = 0 THEN amount
            ELSE LET before == left[s - 1]
                 IN  before - Least(before, open[s])
    IN  left

\* A slip in which the first open slot takes everything.
AllocateUncapped(amount, open, n) ==
    [s \in 1..n |-> IF open[s] > 0 /\ \A t \in 1..s - 1 : open[t] = 0 THEN amount ELSE 0]

\* A slip in which the loop walks the installments newest-first.
AllocateNewestFirst(amount, open, n) ==
    LET left == Unallocated(amount, [s \in 1..n |-> open[n + 1 - s]], n)
    IN  [s \in 1..n |-> Least(left[n - s], open[s])]

(***************************************************************************)
(* What allocate_payment() gives each slot.  The early `break` once        *)
(* nothing is left is the zero that every later slot receives.             *)
(***************************************************************************)
Allocate(amount, open, n) ==
    LET left == Unallocated(amount, open, n)
    IN  [s \in 1..n |-> Least(left[s - 1], open[s])]

(***************************************************************************)
(* What the row r still owes once `amount` of it, counted from its oldest  *)
(* slot on, is paid: the reference the waterfall is compared with.         *)
(***************************************************************************)
OldestFirst(r, amount, n) ==
    LET before == RunningTotal(r, n)
    IN  [s \in 1..n |-> Clip(before[s] - amount, 0, r[s])]
=============================================================================
