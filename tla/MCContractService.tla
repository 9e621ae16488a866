-------------------------- MODULE MCContractService --------------------------
(***************************************************************************)
(* Small instances of ContractService: one row, two requests at a time.    *)
(***************************************************************************)
EXTENDS ContractService, TLC

CONSTANTS client, freelancer, owner, r1, q1, q2

MCAddress == {client, freelancer, owner}
MCRow == {r1}
MCRequest == {q1, q2}
RequestSymmetry == Permutations(MCRequest)

\* No property here reads the logs of the last transaction, and no action does: states
\* that differ in them only are one.
WithoutLogs == <<contractCounter, contracts, milestones, balance, deposited, paid,
                 rowVars, req, lost, lateBound>>

\* The one deal of an instance, from the amounts createContract may be called with.
Amounts == CHOOSE a \in AmountLists : TRUE
MCDeal == [r \in MCRow |-> [client |-> client, freelancer |-> freelancer,
                            total |-> SumFunction(Amounts), amounts |-> Amounts]]
OneMilestone == {<<60>>}
TwoMilestones == {<<20, 40>>}
=============================================================================
