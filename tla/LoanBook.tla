------------------------------- MODULE LoanBook -------------------------------
(***************************************************************************)
(* What the ledger promises about each loan, with no schedule, month or    *)
(* allocation in sight (docs/state_machines.md, "Contracts").  A loan is   *)
(* performing until it is settled or charged off, once and for good; what  *)
(* is collected only grows; a charge-off loses exactly what was not        *)
(* collected; and at most one recovery follows it.                         *)
(***************************************************************************)
EXTENDS Integers

CONSTANTS Loans, Owed, Tolerance

VARIABLES state, collected, lost, recovered

bookVars == <<state, collected, lost, recovered>>

NotRecovered == -1

Init ==
    /\ state = [l \in Loans |-> "performing"]
    /\ collected = [l \in Loans |-> 0]
    /\ lost = [l \in Loans |-> 0]
    /\ recovered = [l \in Loans |-> NotRecovered]

\* A month passes for a performing loan: something is collected, perhaps
\* nothing, and the loan is settled, goes on, or is charged off.
Collect(l, amount) ==
    /\ state[l] = "performing"
    /\ collected' = [collected EXCEPT ![l] = @ + amount]
    /\ LET rest == Owed[l] - collected[l] - amount
       IN  \/ /\ rest <= Tolerance
              /\ state' = [state EXCEPT ![l] = "settled"]
              /\ UNCHANGED lost
           \/ /\ rest > Tolerance
              /\ UNCHANGED <<state, lost>>
           \/ /\ rest > Tolerance
              /\ state' = [state EXCEPT ![l] = "charged_off"]
              /\ lost' = [lost EXCEPT ![l] = rest]
    /\ UNCHANGED recovered

\* Some charged-off loans, none of which recovered before, recover a part.
Recover(S) ==
    /\ S # {}
    /\ \A l \in S : state[l] = "charged_off" /\ recovered[l] = NotRecovered
    /\ \A l \in Loans : IF l \in S THEN recovered'[l] \in 0..lost[l]
                                   ELSE recovered'[l] = recovered[l]
    /\ UNCHANGED <<state, collected, lost>>

Next ==
    \/ \E l \in Loans : \E amount \in 0..(Owed[l] - collected[l]) : Collect(l, amount)
    \/ \E S \in SUBSET Loans : Recover(S)

Spec == Init /\ [][Next]_bookVars
=============================================================================
