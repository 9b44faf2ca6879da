------------------------------ MODULE MCDesks -------------------------------
(***************************************************************************)
(* An instance of Desks for TLC.                                           *)
(***************************************************************************)
EXTENDS Desks, TLC

\* Requests are interchangeable.
Symmetry == Permutations(Procs)
=============================================================================
