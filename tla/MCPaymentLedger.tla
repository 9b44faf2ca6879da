-------------------------- MODULE MCPaymentLedger --------------------------
(***************************************************************************)
(* Instances of PaymentLedger for TLC.                                     *)
(***************************************************************************)
EXTENDS PaymentLedger, TLC

Symmetry == Permutations(Procs)

\* Forms staff may submit, the second with a transaction reference.
Forms ==
  {[amount |-> 1, key |-> "k1", ref |-> "none"],
   [amount |-> 1, key |-> "k2", ref |-> "t2"],
   [amount |-> 1, key |-> "k3", ref |-> "none"]}

\* A payment the website took, under a reference a member of staff may enter too.
Paid == {[amount |-> 2, key |-> "legacy", ref |-> "t2"]}
=============================================================================
