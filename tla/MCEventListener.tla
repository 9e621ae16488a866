--------------------------- MODULE MCEventListener ---------------------------
(***************************************************************************)
(* Small instances of EventListener: one contract of one milestone,        *)
(* one request at a time, two jobs, and the wallets that a run lets act.   *)
(***************************************************************************)
EXTENDS EventListener

CONSTANTS client, freelancer, owner, r1, q1

MCAddress == {client, freelancer, owner}
MCRow == {r1}
MCRequest == {q1}

\* The one deal of an instance, from the amounts createContract may be called with.
Amounts == CHOOSE a \in AmountLists : TRUE
MCDeal == [r \in MCRow |-> [client |-> client, freelancer |-> freelancer,
                            total |-> SumFunction(Amounts), amounts |-> Amounts]]
OneMilestone == {<<60>>}
=============================================================================
