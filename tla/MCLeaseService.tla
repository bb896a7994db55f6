--------------------------- MODULE MCLeaseService ---------------------------
(***************************************************************************)
(* LeaseService on small instances.  Holders and clients are               *)
(* interchangeable, each among themselves.                                 *)
(***************************************************************************)
EXTENDS LeaseService, TLC

ServiceSymmetry == Permutations(Holder) \cup Permutations(Client)

\* As NoAudit in MCLeaseStore: what a step adds to the log does not depend on
\* what the log holds.
ServiceNoAudit ==
    <<[db EXCEPT !.audit = <<>>],
      IF tx = NoTx THEN NoTx ELSE [tx EXCEPT !.work.audit = <<>>],
      clock, called, phase, bootAt>>
=============================================================================
