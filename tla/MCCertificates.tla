--------------------------- MODULE MCCertificates ---------------------------
(***************************************************************************)
(* Instances of Certificates for TLC.                                      *)
(***************************************************************************)
EXTENDS Certificates, TLC

\* Requests are interchangeable, and so are records.
Symmetry == Permutations(Procs) \cup Permutations(Records)
=============================================================================
