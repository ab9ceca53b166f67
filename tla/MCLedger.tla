------------------------------- MODULE MCLedger -------------------------------
(***************************************************************************)
(* Two contracts of two installments for TLC.  The first is disbursed in   *)
(* month 1 and pays on the second day of each month; the second is         *)
(* disbursed in month 2, has a fee, and falls due on the month end itself. *)
(* The amounts make partial payments stop inside an installment and inside *)
(* a slot, and leave more than the tolerance of one cent open.             *)
(***************************************************************************)
EXTENDS Ledger

MCTerm == <<2, 2>>
MCSchedule == <<<<0, 4, 6, 0, 4, 6>>, <<2, 2, 6, 0, 2, 8>>>>
MCDueDate == <<<<5, 8>>, <<9, 12>>>>
MCDisbursed == <<2, 4>>

MCContactDpd == {1, 4}
=============================================================================
