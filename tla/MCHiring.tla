------------------------------ MODULE MCHiring ------------------------------
(***************************************************************************)
(* Small instances of Hiring: one job, three freelancers, three acceptances  *)
(* at a time.                                                              *)
(***************************************************************************)
EXTENDS Hiring, TLC

CONSTANTS client, owner, f1, f2, f3, r1, q1, q2, q3

MCAddress == {client, owner, f1, f2, f3}
MCFreelancer == {f1, f2, f3}
MCRow == {r1}
MCRequest == {q1, q2, q3}
MCDeal == [r \in MCRow |-> [client |-> client, total |-> 60, amounts |-> <<60>>]]
OneMilestone == {<<60>>}

FreelancerRequestSymmetry == Permutations(MCFreelancer) \union Permutations(MCRequest)
=============================================================================
