--------------------------- MODULE MCWebsiteInbox ---------------------------
(***************************************************************************)
(* Instances of WebsiteInbox for TLC.                                      *)
(***************************************************************************)
EXTENDS WebsiteInbox, TLC

\* Handlers are interchangeable.
Symmetry == Permutations(Procs)

\* Staff raise the invoice.
FewTransitions == Guarded("selected", "payment_pending", <<"has_payment_plan">>)

NoTransitions == {}
=============================================================================
