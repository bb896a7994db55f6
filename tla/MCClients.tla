------------------------------ MODULE MCClients ------------------------------
(***************************************************************************)
(* Clients on small instances.  Holders and slots are interchangeable, each *)
(* among themselves.                                                       *)
(***************************************************************************)
EXTENDS Clients, TLC

ClientsSymmetry == Permutations(Holder) \cup Permutations(Client)

\* As NoAudit in MCLeaseStore; and bootAt is read by nothing after Recover.
ClientsNoAudit ==
    <<[db EXCEPT !.audit = <<>>],
      IF tx = NoTx THEN NoTx ELSE [tx EXCEPT !.work.audit = <<>>],
      clock, called, phase, IF phase = "recovering" THEN bootAt ELSE 0, clientVars>>
=============================================================================
