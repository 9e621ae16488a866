----------------------------- MODULE MCGigEscrow -----------------------------
(***************************************************************************)
(* Small instances of GigEscrow.  Amounts are chosen for the fee's integer *)
(* division: 2.5% of 60 is 1.5 and rounds down, 2.5% of 40 is exactly 1.   *)
(* createContract accepts an amount of zero, so one list is <<0>>.         *)
(***************************************************************************)
EXTENDS GigEscrow, TLC

CONSTANTS client, freelancer, owner \* the accounts: two users' and the backend's

MCAddress == {client, freelancer, owner}
OneOrTwoMilestones == {<<0>>, <<40, 60>>}
OneMilestone == {<<60>>}
OneToThreeMilestones == {<<60>>, <<40, 60>>, <<60, 0, 60>>, <<60, 40, 200>>}
MCTotals == {0, 60, 100, 120, 300}

UserSymmetry == Permutations({client, freelancer})
=============================================================================
