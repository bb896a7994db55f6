---------------------------- MODULE MCLeaseStore ----------------------------
(***************************************************************************)
(* LeaseStore on small instances.  Holders are interchangeable: no code    *)
(* looks at a holder's name except to compare it with another.  Resources  *)
(* are not (ExpireAll visits them in key order).                           *)
(***************************************************************************)
EXTENDS AuditQueries, TLC

HolderSymmetry == Permutations(Holder)

\* No action reads the audit log, so a run whose properties do not read it
\* either, and whose MaxAudit is never reached, may identify states by the rest.
NoAudit ==
    <<[db EXCEPT !.audit = <<>>],
      IF tx = NoTx THEN NoTx ELSE [tx EXCEPT !.work.audit = <<>>]>>
=============================================================================
