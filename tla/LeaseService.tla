---------------------------- MODULE LeaseService ----------------------------
(***************************************************************************)
(* The running service: the store of LeaseStore, the wall clock, the       *)
(* requests net/http serves concurrently, and the process that is killed   *)
(* and started again.                                                      *)
(*                                                                         *)
(* Every method of Service reads s.clk.Now() and then calls the store,     *)
(* which waits for bbolt's write lock: the instant a handler works with    *)
(* may be old by the time its transaction runs.  A request is therefore    *)
(* two actions, ReadClock and Serve.  What the request asks for is chosen  *)
(* when it is served: nothing depends on it earlier.                       *)
(*                                                                         *)
(* main opens the database, sweeps what died while the process was down,   *)
(* then listens.                                                           *)
(*                                                                         *)
(* The clock does not go back.  That is an assumption of this model: the   *)
(* code reads the wall clock with time.Now(), which may be set back, also  *)
(* between a death and a restart.  TenantNotEvicted rests on it.           *)
(***************************************************************************)
EXTENDS LeaseStore

CONSTANTS
    Client,   \* the requests that may be in flight at once
    Idle      \* the client has no request in flight

ASSUME IdleAssumption == Idle \notin Client

VARIABLES
    clock,    \* the wall clock
    called,   \* what Now answered to the request of each client
    phase,    \* where main is
    bootAt    \* what Now answered to Recover

svcVars == <<db, tx, clock, called, phase, bootAt>>

Phase == {"down", "recovering", "sweeping", "serving"}

\* Types, and no instant in use is ahead of the clock.
SvcTypeOK ==
    /\ TypeOK
    /\ clock \in Instant
    /\ called \in [Client -> Instant \cup {Idle}]
    /\ phase \in Phase
    /\ bootAt \in Instant
    /\ bootAt <= clock
    /\ \A p \in Client : called[p] # Idle => called[p] <= clock
    /\ tx # NoTx => tx.now <= clock

SvcInit ==
    /\ Init
    /\ clock \in Instant /\ \A n \in Instant : clock <= n
    /\ called = [p \in Client |-> Idle]
    /\ phase = "down"
    /\ bootAt = clock

-----------------------------------------------------------------------------
\* Time passes, up to the last instant of the model.
Tick ==
    /\ clock' = clock + 1
    /\ clock' \in Instant
    /\ UNCHANGED <<db, tx, called, phase, bootAt>>

\* A handler was called and read the clock.
ReadClock(p) ==
    /\ phase = "serving"
    /\ called[p] = Idle
    /\ called' = [called EXCEPT ![p] = clock]
    /\ UNCHANGED <<db, tx, clock, phase, bootAt>>

\* The handler got the write lock: its transaction runs with the instant it
\* read.  One with a loop holds the lock until the loop's last step.
Serve(p) ==
    /\ phase = "serving"
    /\ called[p] # Idle
    /\ Call(called[p])
    /\ called' = [called EXCEPT ![p] = Idle]
    /\ UNCHANGED <<clock, phase, bootAt>>

\* The request only reads, or fails a check: the store is left as it was.
ServeUnchanged(p) ==
    /\ phase = "serving"
    /\ called[p] # Idle
    /\ tx = NoTx
    /\ called' = [called EXCEPT ![p] = Idle]
    /\ UNCHANGED <<db, tx, clock, phase, bootAt>>

\* The handler that holds the lock goes on.
Work ==
    /\ TxStep
    /\ UNCHANGED <<clock, called, phase, bootAt>>

\* A commit fails: the handler answers an error and the process lives on.
CommitFails ==
    /\ phase = "serving"
    /\ Crash
    /\ UNCHANGED <<clock, called, phase, bootAt>>

-----------------------------------------------------------------------------
\* Mutant: what an interrupted transaction wrote is found in the file.
DieKeepingWork ==
    /\ phase # "down"
    /\ phase' = "down"
    /\ called' = [p \in Client |-> Idle]
    /\ db' = IF tx = NoTx THEN db ELSE tx.work
    /\ tx' = NoTx
    /\ UNCHANGED <<clock, bootAt>>

\* The process is killed, or log.Fatal ends it because the sweep failed.
Die ==
    /\ phase # "down"
    /\ phase' = "down"
    /\ called' = [p \in Client |-> Idle]
    /\ tx' = NoTx
    /\ UNCHANGED <<db, clock, bootAt>>

\* main opens the file and Recover reads the clock.
Boot ==
    /\ phase = "down"
    /\ phase' = "recovering"
    /\ bootAt' = clock
    /\ UNCHANGED <<db, tx, clock, called>>

Recover ==
    /\ phase = "recovering"
    /\ ExpireAll(bootAt)
    /\ phase' = "sweeping"
    /\ UNCHANGED <<clock, called, bootAt>>

\* Mutant: main listens without waiting for the sweep.
ListenUnswept ==
    /\ phase \in {"recovering", "sweeping"}
    /\ phase' = "serving"
    /\ UNCHANGED <<db, tx, clock, called, bootAt>>

\* Recover has returned: the sweep is committed.
Listen ==
    /\ phase = "sweeping"
    /\ tx = NoTx
    /\ phase' = "serving"
    /\ UNCHANGED <<db, tx, clock, called, bootAt>>

SvcNext ==
    \/ Tick
    \/ \E p \in Client : ReadClock(p) \/ Serve(p) \/ ServeUnchanged(p)
    \/ Work
    \/ CommitFails
    \/ Die
    \/ Boot
    \/ Recover
    \/ Listen

SvcSpec == SvcInit /\ [][SvcNext]_svcVars

\* The Go scheduler runs the handler that holds the lock, and sync.Mutex, in
\* starvation mode, hands bbolt's write lock to each waiter in turn.  Nothing
\* makes clients call, a process die, or anybody start it again.
Fairness ==
    /\ WF_svcVars(Work)
    /\ \A p \in Client : SF_svcVars(Serve(p) \/ ServeUnchanged(p))

FairSvcSpec == SvcSpec /\ Fairness

-----------------------------------------------------------------------------
(* Properties *)

\* The service is the store, called at the instants its clock answered and
\* losing its open transaction when it dies: whatever holds of LeaseStore for
\* calls at arbitrary instants holds of the service.
ImplementsStore == Init /\ [][Next]_vars

\* An entry the step wrote says the lease on r was given back by its holder.
GivenBack(r) ==
    \E i \in Len(db.audit) + 1 .. Len(db'.audit) :
        /\ db'.audit[i].action \in {"release", "bulk_release"}
        /\ db'.audit[i].resource = r
        /\ db'.audit[i].holder = db.leases[r].holder
        /\ db'.audit[i].token = db.leases[r].token

\* Nobody loses a lease the clock says is alive: not to an acquire, a
\* promotion or a sweep whose instant was read long ago, nor to a restart.
\* Its token stays on the resource until its holder gives it back.
TenantNotEvicted ==
    [][\A r \in Resource :
          Active(db.leases[r], clock) =>
              \/ db'.leases[r] # NoLease /\ db'.leases[r].token = db.leases[r].token
              \/ GivenBack(r)]_svcVars

\* After a restart no request is served while a lease that was dead when main
\* started is still in the table.
SweptBeforeServing ==
    [][phase # "serving" /\ phase' = "serving" => tx = NoTx /\ Dead(db, bootAt) = {}]_svcVars

\* A request that has read the clock is answered, or dies with the process:
\* every transaction gives the write lock back.
RequestsFinish ==
    \A p \in Client : called[p] # Idle ~> called[p] = Idle

-----------------------------------------------------------------------------
(* Properties the documentation states and the code does not have *)

\* README: a lease whose deadline has passed is dead; it is not renewed.
DeadLeaseNotRevived ==
    [][\A r \in Resource :
          db.leases[r] # NoLease /\ ~Active(db.leases[r], clock) /\ db'.leases[r] # NoLease =>
              \/ db'.leases[r].token # db.leases[r].token
              \/ ~Active(db'.leases[r], clock)]_svcVars

\* types.go: waiters are promoted automatically when a lease is released or
\* expires.
ExpiryPromotesWaiter ==
    \A r \in Resource :
        r \in Dead(db, clock) /\ Pending(db, r) # {} ~>
            ~(r \in Dead(db, clock) /\ Pending(db, r) # {})
=============================================================================
