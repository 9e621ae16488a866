---------------------------- MODULE EscrowLedger ----------------------------
(***************************************************************************)
(* What an escrow owes the two parties, with the machinery left out: a     *)
(* ledger with one account per contract.  A contract is funded once, pays  *)
(* out of its own account only, and ends once, with nothing left in it.    *)
(* GigEscrow is shown to implement it as long as no resolution of a        *)
(* dispute drains the pool its contracts share.                            *)
(***************************************************************************)
EXTENDS Naturals

CONSTANT Ids \* the contracts

VARIABLES held, \* ether in each contract's account
          phase \* "open" before funding, "locked" while funded, "settled" at the end

ledgerVars == <<held, phase>>

Init ==
    /\ held = [c \in Ids |-> 0]
    /\ phase = [c \in Ids |-> "open"]

Only(c) ==
    \A d \in Ids \ {c} : held'[d] = held[d] /\ phase'[d] = phase[d]

\* The client locks the ether of a contract.
Deposit(c) ==
    /\ phase[c] = "open"
    /\ phase'[c] = "locked"
    /\ held'[c] \in Nat
    /\ Only(c)

\* Some of the contract's ether goes out.
Release(c) ==
    /\ phase[c] = "locked"
    /\ phase'[c] = "locked"
    /\ held'[c] \in 0 .. held[c]
    /\ Only(c)

\* The contract ends and what is left of its ether goes out: none stays behind.
Settle(c) ==
    /\ phase[c] \in {"open", "locked"}
    /\ phase'[c] = "settled"
    /\ held'[c] = 0
    /\ Only(c)

Next == \E c \in Ids : Deposit(c) \/ Release(c) \/ Settle(c)

Spec == Init /\ [][Next]_ledgerVars
=============================================================================
