------------------------------ MODULE Handlers ------------------------------
(***************************************************************************)
(* Requests of the running service that take more than one transaction.    *)
(*                                                                         *)
(* An acquire by policy looks its time-to-live up in one transaction and   *)
(* grants in a later one.  GET /diagnostics reads the usage of the         *)
(* holders, the state of the queue and the state of the resources in three *)
(* read transactions, the first and the third with an instant of their     *)
(* own.  A read transaction sees the committed database, whatever a writer *)
(* has open, and does not wait for the write lock.                         *)
(***************************************************************************)
EXTENDS LeaseService

CONSTANTS
    Policy,     \* policy names
    NoPolicy,   \* there is no policy record under this name
    Reader      \* the diagnostics requests that may be in flight at once

ASSUME StateAssumption == NoLease \notin [holder: Holder, token: Nat, active: BOOLEAN]

VARIABLES
    policies,   \* the committed policies bucket
    chosen,     \* the policy an acquire of each client was resolved with
    report      \* what each reader has been told, complete or not

handlersVars == <<svcVars, policies, chosen, report>>

Choice == [policy: Policy, ttl: TTL]

\* What the views answer.
Usage == [Holder -> [active: Nat, queued: Nat]]
Summary == [total: Nat, pending: Nat, granted: Nat, cancelled: Nat]
States == [Resource -> [holder: Holder, token: Token, active: BOOLEAN] \cup {NoLease}]

\* A report, by how far the request has come.
Report == [stage: {"called"}, now: Instant]
          \cup [stage: {"holders"}, holders: Usage]
          \cup [stage: {"waiters"}, holders: Usage, waiters: Summary]
          \cup [stage: {"clock"}, holders: Usage, waiters: Summary, now: Instant]
          \cup [stage: {"answered"}, waiters: Summary, resources: States]

HandlersInit ==
    /\ SvcInit
    /\ policies = [n \in Policy |-> NoPolicy]
    /\ chosen = [p \in Client |-> Idle]
    /\ report = [v \in Reader |-> Idle]

-----------------------------------------------------------------------------
(* The views, as functions of a database and an instant *)

\* Mutant: a lease counts whether it is active or not.
HolderUsageOfTheDead(d, now) ==
    [h \in Holder |->
        [active |-> Cardinality({r \in Resource : d.leases[r] # NoLease /\ d.leases[r].holder = h}),
         queued |-> Cardinality(PendingByHolder(d, h))]]

\* Holders that have neither are left out of the answer.
HolderUsage(d, now) ==
    [h \in Holder |->
        [active |-> Cardinality({r \in Resource : Active(d.leases[r], now) /\ d.leases[r].holder = h}),
         queued |-> Cardinality(PendingByHolder(d, h))]]

InStatus(d, status) == Cardinality({i \in DOMAIN d.waiters : d.waiters[i].status = status})

WaiterSummary(d) ==
    [total |-> Len(d.waiters),
     pending |-> InStatus(d, "pending"),
     granted |-> InStatus(d, "granted"),
     cancelled |-> InStatus(d, "cancelled")]

ResourceStates(d, now) ==
    [r \in Resource |->
        IF d.leases[r] = NoLease THEN NoLease
        ELSE [holder |-> d.leases[r].holder, token |-> d.leases[r].token,
              active |-> Active(d.leases[r], now)]]

Stats(d, now) ==
    LET held == {r \in Resource : d.leases[r] # NoLease} IN
    [leases |-> Cardinality(held),
     active |-> Cardinality({r \in held : Active(d.leases[r], now)}),
     expired |-> Cardinality({r \in held : ~Active(d.leases[r], now)}),
     next |-> d.next,
     holders |-> Cardinality({h \in Holder : d.holders[h] # Unregistered}),
     waiters |-> Len(d.waiters),
     pending |-> InStatus(d, "pending"),
     policies |-> Cardinality({n \in Policy : policies[n] # NoPolicy}),
     audit |-> Len(d.audit)]

-----------------------------------------------------------------------------
(* Policies *)

\* Mutant: a policy that exists is overwritten.
PutPolicyAgain(n, ttl) ==
    /\ phase = "serving" /\ tx = NoTx
    /\ policies' = [policies EXCEPT ![n] = ttl]
    /\ UNCHANGED <<svcVars, chosen, report>>

\* POST /policies creates a policy once; nothing changes or deletes one.
PutPolicy(n, ttl) ==
    /\ phase = "serving" /\ tx = NoTx
    /\ policies[n] = NoPolicy
    /\ policies' = [policies EXCEPT ![n] = ttl]
    /\ UNCHANGED <<svcVars, chosen, report>>

\* ttlFor, before the acquire reads the clock.  An unknown policy is refused.
ChoosePolicy(p, n) ==
    /\ phase = "serving"
    /\ called[p] = Idle /\ chosen[p] = Idle
    /\ policies[n] # NoPolicy
    /\ chosen' = [chosen EXCEPT ![p] = [policy |-> n, ttl |-> policies[n]]]
    /\ UNCHANGED <<svcVars, policies, report>>

\* The acquire of a client that has resolved its policy.
AcquireByPolicy(p) ==
    /\ phase = "serving"
    /\ called[p] # Idle /\ chosen[p] # Idle
    /\ \E r \in Resource, h \in Holder : Acquire(r, h, called[p], chosen[p].ttl)
    /\ called' = [called EXCEPT ![p] = Idle]
    /\ chosen' = [chosen EXCEPT ![p] = Idle]
    /\ UNCHANGED <<clock, phase, bootAt, policies, report>>

RefuseByPolicy(p) ==
    /\ ServeUnchanged(p)
    /\ chosen[p] # Idle
    /\ chosen' = [chosen EXCEPT ![p] = Idle]
    /\ UNCHANGED <<policies, report>>

-----------------------------------------------------------------------------
(* GET /diagnostics.  Of a complete report the reader remembers the queue   *)
(* and the resources, until it asks again; `now' is the clock's last answer *)
(* to its request.                                                          *)

Stage(v) == IF report[v] = Idle THEN "answered" ELSE report[v].stage

Tell(v, told) ==
    /\ phase = "serving"
    /\ report' = [report EXCEPT ![v] = told]
    /\ UNCHANGED <<svcVars, policies, chosen>>

CallDiagnostics(v) ==
    /\ Stage(v) = "answered"
    /\ Tell(v, [stage |-> "called", now |-> clock])

\* Mutant: the view is computed in an Update, which waits for the write lock.
ReadHoldersLocked(v) ==
    /\ Stage(v) = "called" /\ tx = NoTx
    /\ Tell(v, [stage |-> "holders", holders |-> HolderUsage(db, report[v].now)])

ReadHolders(v) ==
    /\ Stage(v) = "called"
    /\ Tell(v, [stage |-> "holders", holders |-> HolderUsage(db, report[v].now)])

ReadWaiters(v) ==
    /\ Stage(v) = "holders"
    /\ Tell(v, [stage |-> "waiters", holders |-> report[v].holders,
                waiters |-> WaiterSummary(db)])

\* Mutant: the instant is rounded up, as one in whole seconds may be.
ReadClockAgainRoundedUp(v) ==
    /\ Stage(v) = "waiters"
    /\ Tell(v, [stage |-> "clock", holders |-> report[v].holders,
                waiters |-> report[v].waiters, now |-> clock + 1])

ReadClockAgain(v) ==
    /\ Stage(v) = "waiters"
    /\ Tell(v, [stage |-> "clock", holders |-> report[v].holders,
                waiters |-> report[v].waiters, now |-> clock])

ReadResources(v) ==
    /\ Stage(v) = "clock"
    /\ Tell(v, [stage |-> "answered", waiters |-> report[v].waiters,
                resources |-> ResourceStates(db, report[v].now)])

Diagnose(v) ==
    ReadHolders(v) \/ ReadWaiters(v) \/ ReadClockAgain(v) \/ ReadResources(v)

-----------------------------------------------------------------------------
(* The rest of the service *)

\* A process that dies answers nobody; the readers remember what they were told.
DieAnswering ==
    /\ Die
    /\ chosen' = [p \in Client |-> Idle]
    /\ report' = [v \in Reader |-> IF Stage(v) = "answered" THEN report[v] ELSE Idle]
    /\ UNCHANGED policies

\* A client without a policy in mind makes any call of the store.
ServePlain(p) == chosen[p] = Idle /\ (Serve(p) \/ ServeUnchanged(p))

ServiceStep ==
    /\ \/ Tick \/ Work \/ CommitFails \/ Boot \/ Recover \/ Listen
       \/ \E p \in Client : ReadClock(p) \/ ServePlain(p)
    /\ UNCHANGED <<policies, chosen, report>>

HandlersNext ==
    \/ ServiceStep
    \/ DieAnswering
    \/ \E n \in Policy, ttl \in TTL : PutPolicy(n, ttl)
    \/ \E p \in Client :
          \/ \E n \in Policy : ChoosePolicy(p, n)
          \/ AcquireByPolicy(p) \/ RefuseByPolicy(p)
    \/ \E v \in Reader : CallDiagnostics(v) \/ Diagnose(v)

HandlersSpec == HandlersInit /\ [][HandlersNext]_handlersVars

\* As in LeaseService; a reader needs only be scheduled, for it never waits.
HandlersFairness ==
    /\ WF_handlersVars(Work /\ UNCHANGED <<policies, chosen, report>>)
    /\ \A p \in Client :
          SF_handlersVars(\/ ServePlain(p) /\ UNCHANGED <<policies, chosen, report>>
                          \/ AcquireByPolicy(p) \/ RefuseByPolicy(p))
    /\ \A v \in Reader : WF_handlersVars(Diagnose(v))

FairHandlersSpec == HandlersSpec /\ HandlersFairness

-----------------------------------------------------------------------------
(* Properties *)

\* The shapes, on top of the service's: a report holds what its stage has read,
\* and no instant that it is to use is ahead of the clock.
HandlersTypeOK ==
    /\ SvcTypeOK
    /\ policies \in [Policy -> TTL \cup {NoPolicy}]
    /\ chosen \in [Client -> Choice \cup {Idle}]
    /\ report \in [Reader -> Report \cup {Idle}]
    /\ \A v \in Reader : Stage(v) \in {"called", "clock"} => report[v].now <= clock

\* The four views are computed by scans of their own.  Of one snapshot at one
\* instant they tell the same: a holder is counted as many active leases as
\* resources are shown active under its name, the queues add up to the pending
\* waiters, and the statistics count both.
ViewsAgree ==
    \A now \in Instant :
        LET usage == HolderUsage(db, now)
            states == ResourceStates(db, now)
            shown == {r \in Resource : states[r] # NoLease /\ states[r].active}
            \* as many marks as the queues of the holders sum up to
            queued == UNION {{h} \X (1 .. usage[h].queued) : h \in Holder}
        IN  /\ \A h \in Holder :
                  usage[h].active = Cardinality({r \in shown : states[r].holder = h})
            /\ Cardinality(queued) = WaiterSummary(db).pending
            /\ Stats(db, now).active = Cardinality(shown)
            /\ Stats(db, now).pending = WaiterSummary(db).pending

\* A lease acquired by policy lives as long as the policy says when it is
\* granted, although the policy was read before the clock and the write lock.
PolicyHonoured ==
    [][\A p \in Client, r \in Resource :
          chosen[p] # Idle /\ chosen'[p] = Idle /\ Granted(r) =>
              db'.leases[r].deadline =
                  db'.leases[r].acquired + policies[chosen[p].policy]]_handlersVars

\* What a reader was told was committed, and no crash or restart takes it back:
\* a token it saw is below the counter and no older one is on the resource, and
\* no waiter it saw counted, granted or cancelled is missing later.
ToldForGood ==
    \A v \in Reader :
        Stage(v) = "answered" /\ report[v] # Idle =>
            /\ \A r \in Resource :
                  report[v].resources[r] # NoLease =>
                      /\ report[v].resources[r].token < db.next
                      /\ db.leases[r] # NoLease =>
                            report[v].resources[r].token <= db.leases[r].token
            /\ \A part \in {"total", "granted", "cancelled"} :
                  report[v].waiters[part] <= WaiterSummary(db)[part]

\* GET /diagnostics is answered however long writers keep the lock, or dies
\* with the process.
ReadersFinish ==
    \A v \in Reader : Stage(v) # "answered" ~> Stage(v) = "answered"

-----------------------------------------------------------------------------
(* A property the documentation states and the code does not have *)

\* observability.go: Diagnostics gathers the views "in one consistent request".
DiagnosticsConsistent ==
    [][\A v \in Reader :
          Stage(v) = "clock" /\ Stage(v)' = "answered" /\ report'[v] # Idle =>
              \A h \in Holder :
                  report[v].holders[h].active =
                      Cardinality({r \in Resource :
                          /\ report'[v].resources[r] # NoLease
                          /\ report'[v].resources[r].holder = h
                          /\ report'[v].resources[r].active})]_handlersVars
=============================================================================
