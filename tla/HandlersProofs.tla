--------------------------- MODULE HandlersProofs ---------------------------
(***************************************************************************)
(* Requests that take more than one transaction, for any number of them at *)
(* once: they leave the service what it is, a policy is honoured although  *)
(* it was read in an earlier transaction than the one that grants, and     *)
(* nothing that a reader was told is taken back.                           *)
(***************************************************************************)
EXTENDS Handlers, LeaseServiceProofs, AuditProofs

-----------------------------------------------------------------------------
(* What a commit leaves of what was read before it *)

Part == {"total", "granted", "cancelled"}

InState(d, status) == {i \in DOMAIN d.waiters : d.waiters[i].status = status}

LEMMA QueueIsFinite ==
    ASSUME NEW d \in DB, NEW S, S \subseteq DOMAIN d.waiters
    PROVE  IsFiniteSet(S) /\ Cardinality(S) \in Nat
<1>1. DOMAIN d.waiters = 1 .. Len(d.waiters) /\ Len(d.waiters) \in Int
  BY DEF DB
<1>2. IsFiniteSet(1 .. Len(d.waiters))
  BY <1>1, FS_Interval
<1>3. IsFiniteSet(S)
  BY <1>1, <1>2, FS_Subset
<1> QED BY <1>3, FS_CardinalityType

LEMMA SummaryType ==
    ASSUME NEW d \in DB, NEW part \in Part
    PROVE  WaiterSummary(d)[part] \in Nat
<1>1. Len(d.waiters) \in Nat
  BY DEF DB
<1>2. InStatus(d, "granted") \in Nat /\ InStatus(d, "cancelled") \in Nat
  BY QueueIsFinite DEF InStatus
<1> QED BY <1>1, <1>2 DEF WaiterSummary, Part

\* The queue only grows, and nobody's grant or cancellation is undone.
LEMMA SummaryGrows ==
    ASSUME NEW d0 \in DB, NEW d \in DB, Lives(d0, d), NEW part \in Part
    PROVE  WaiterSummary(d0)[part] <= WaiterSummary(d)[part]
<1>a. d0.waiters \in Seq(Waiter) /\ d.waiters \in Seq(Waiter)
  BY DEF DB
<1>1. /\ DOMAIN d0.waiters = 1 .. Len(d0.waiters) /\ Len(d0.waiters) \in Nat
      /\ DOMAIN d.waiters = 1 .. Len(d.waiters) /\ Len(d.waiters) \in Nat
  BY <1>a
<1>b. \A i \in DOMAIN d0.waiters : i \in DOMAIN d.waiters
  BY DEF Lives
<1>2. Len(d0.waiters) <= Len(d.waiters)
  <2>1. CASE Len(d0.waiters) = 0
    BY <1>1, <2>1
  <2>2. CASE Len(d0.waiters) # 0
    <3>1. Len(d0.waiters) \in DOMAIN d0.waiters
      BY <1>1, <2>2
    <3> QED BY <1>1, <1>b, <3>1
  <2> QED BY <2>1, <2>2
<1>3. ASSUME NEW status, status # "pending" PROVE InStatus(d0, status) <= InStatus(d, status)
  <2>1. InState(d0, status) \subseteq InState(d, status)
    BY <1>3 DEF InState, Lives
  <2>2. IsFiniteSet(InState(d, status))
    BY QueueIsFinite DEF InState
  <2> QED BY <2>1, <2>2, FS_Subset DEF InState, InStatus
<1>4. InStatus(d0, "granted") <= InStatus(d, "granted")
  BY <1>3
<1>5. InStatus(d0, "cancelled") <= InStatus(d, "cancelled")
  BY <1>3
<1> QED BY <1>2, <1>4, <1>5 DEF WaiterSummary, Part

\* Of a report, the part that has been told stands in d.
CountsStand(told, d) ==
    \A part \in Part :
        told.waiters[part] \in Nat /\ told.waiters[part] <= WaiterSummary(d)[part]

TokensStand(told, d) ==
    \A r \in Resource :
        told.resources[r] # NoLease =>
            /\ told.resources[r].token \in Nat /\ told.resources[r].token < d.next
            /\ d.leases[r] # NoLease => told.resources[r].token <= d.leases[r].token

Stands(told, d) ==
    told # Idle =>
        /\ told.stage \in {"waiters", "clock", "answered"} => CountsStand(told, d)
        /\ told.stage = "answered" => TokensStand(told, d)

LEMMA CountsRead ==
    ASSUME NEW d \in DB, NEW told, told.waiters = WaiterSummary(d)
    PROVE  CountsStand(told, d)
<1> SUFFICES ASSUME NEW part \in Part
             PROVE  /\ told.waiters[part] \in Nat
                    /\ told.waiters[part] <= WaiterSummary(d)[part]
  BY DEF CountsStand
<1>1. WaiterSummary(d)[part] \in Nat
  BY SummaryType
<1> QED BY <1>1

LEMMA TokensRead ==
    ASSUME NEW d \in DB, Issued(d), NEW now, NEW told, told.resources = ResourceStates(d, now)
    PROVE  TokensStand(told, d)
<1> SUFFICES ASSUME NEW r \in Resource, told.resources[r] # NoLease
             PROVE  /\ told.resources[r].token \in Nat /\ told.resources[r].token < d.next
                    /\ d.leases[r] # NoLease => told.resources[r].token <= d.leases[r].token
  BY DEF TokensStand
<1>1. d.leases[r] # NoLease /\ told.resources[r].token = d.leases[r].token
  BY DEF ResourceStates
<1>2. d.leases[r].token \in Nat /\ d.leases[r].token < d.next
  BY <1>1 DEF Issued, DB, Lease, Token
<1> QED BY <1>1, <1>2

LEMMA StandsLater ==
    ASSUME NEW d0 \in DB, NEW d \in DB, Newer(d0, d), Lives(d0, d), NEW told, Stands(told, d0)
    PROVE  Stands(told, d)
<1>1. ASSUME CountsStand(told, d0) PROVE CountsStand(told, d)
  <2> SUFFICES ASSUME NEW part \in Part
               PROVE  /\ told.waiters[part] \in Nat
                      /\ told.waiters[part] <= WaiterSummary(d)[part]
    BY DEF CountsStand
  <2>1. /\ WaiterSummary(d0)[part] <= WaiterSummary(d)[part]
        /\ WaiterSummary(d0)[part] \in Nat /\ WaiterSummary(d)[part] \in Nat
    BY SummaryGrows, SummaryType
  <2> QED BY <1>1, <2>1 DEF CountsStand
<1>2. ASSUME TokensStand(told, d0) PROVE TokensStand(told, d)
  <2> SUFFICES ASSUME NEW r \in Resource, told.resources[r] # NoLease
               PROVE  /\ told.resources[r].token \in Nat /\ told.resources[r].token < d.next
                      /\ d.leases[r] # NoLease => told.resources[r].token <= d.leases[r].token
    BY DEF TokensStand
  <2> DEFINE t == told.resources[r].token
  <2>1. /\ t \in Nat /\ t < d0.next /\ d0.next <= d.next /\ d0.next \in Nat /\ d.next \in Nat
        /\ d0.leases[r] # NoLease => t <= d0.leases[r].token
    BY <1>2 DEF TokensStand, Newer, DB, Token
  <2>2. ASSUME d.leases[r] # NoLease PROVE t <= d.leases[r].token
    <3>1. CASE d0.leases[r] # NoLease /\ d0.leases[r].token = d.leases[r].token
      BY <2>1, <3>1
    <3>2. CASE d.leases[r].token \in d0.next .. d.next - 1
      BY <2>1, <3>2
    <3> QED BY <2>2, <3>1, <3>2 DEF Newer
  <2> QED BY <2>1, <2>2
<1> QED BY <1>1, <1>2 DEF Stands

-----------------------------------------------------------------------------
(* The requests leave the service what it is *)

\* What an acquire was resolved with is what its policy says for good.
Choices ==
    /\ policies \in [Policy -> TTL \cup {NoPolicy}]
    /\ chosen \in [Client -> Choice \cup {Idle}]
    /\ \A p \in Client :
          chosen[p] # Idle =>
              /\ policies[chosen[p].policy] # NoPolicy
              /\ chosen[p].ttl = policies[chosen[p].policy]

Reports == DOMAIN report = Reader /\ \A v \in Reader : Stands(report[v], db)

Handled == LockInv /\ QueueInv /\ StampsOK /\ TxNow /\ Choices /\ Reports

LEMMA ChoiceType ==
    ASSUME Choices, NEW p \in Client, chosen[p] # Idle
    PROVE  chosen[p].policy \in Policy /\ chosen[p].ttl \in TTL
<1>1. chosen[p] \in Choice
  BY DEF Choices
<1> QED BY <1>1 DEF Choice

LEMMA HandlersStep ==
    ASSUME Choices, [HandlersNext]_handlersVars
    PROVE  [SvcNext]_svcVars
<1>1. CASE ServiceStep \/ DieAnswering
  BY <1>1 DEF ServiceStep, DieAnswering, ServePlain, SvcNext
<1>2. ASSUME NEW n \in Policy, NEW ttl \in TTL, PutPolicy(n, ttl) PROVE UNCHANGED svcVars
  BY <1>2 DEF PutPolicy, svcVars
<1>3. ASSUME NEW p \in Client, NEW n \in Policy, ChoosePolicy(p, n) PROVE UNCHANGED svcVars
  BY <1>3 DEF ChoosePolicy, svcVars
<1>4. ASSUME NEW p \in Client, AcquireByPolicy(p) PROVE SvcNext
  <2>1. PICK r \in Resource, h \in Holder : Acquire(r, h, called[p], chosen[p].ttl)
    BY <1>4 DEF AcquireByPolicy
  <2>2. chosen[p].ttl \in TTL
    BY <1>4, ChoiceType DEF AcquireByPolicy
  <2>3. LeaseOps(called[p])
    BY <2>1, <2>2 DEF LeaseOps
  <2>4. Serve(p)
    BY <1>4, <2>3 DEF AcquireByPolicy, Serve, Call
  <2> QED BY <2>4 DEF SvcNext
<1>5. ASSUME NEW p \in Client, RefuseByPolicy(p) PROVE SvcNext
  BY <1>5 DEF RefuseByPolicy, SvcNext
<1>6. ASSUME NEW v \in Reader, CallDiagnostics(v) \/ Diagnose(v) PROVE UNCHANGED svcVars
  BY <1>6 DEF CallDiagnostics, Diagnose, ReadHolders, ReadWaiters, ReadClockAgain, ReadResources,
              Tell
<1>7. CASE UNCHANGED handlersVars
  BY <1>7 DEF handlersVars
<1> QED BY <1>1, <1>2, <1>3, <1>4, <1>5, <1>6, <1>7 DEF HandlersNext

LEMMA ChoicesStep ==
    ASSUME Choices, [HandlersNext]_handlersVars
    PROVE  Choices'
<1>1. CASE UNCHANGED <<policies, chosen>>
  BY <1>1 DEF Choices
<1>2. CASE policies' = policies /\ chosen' = [p \in Client |-> Idle]
  BY <1>2 DEF Choices
<1>3. ASSUME NEW p \in Client, policies' = policies, chosen' = [chosen EXCEPT ![p] = Idle]
      PROVE  Choices'
  BY <1>3 DEF Choices
<1>4. ASSUME NEW n \in Policy, NEW ttl \in TTL, PutPolicy(n, ttl) PROVE Choices'
  <2>1. /\ policies[n] = NoPolicy /\ policies' = [policies EXCEPT ![n] = ttl]
        /\ chosen' = chosen
    BY <1>4 DEF PutPolicy
  <2>2. policies' \in [Policy -> TTL \cup {NoPolicy}]
    BY <2>1 DEF Choices
  <2>3. ASSUME NEW p \in Client, chosen[p] # Idle
        PROVE  policies'[chosen[p].policy] = policies[chosen[p].policy]
    BY <2>1, <2>3, ChoiceType DEF Choices
  <2> QED BY <2>1, <2>2, <2>3 DEF Choices
<1>5. ASSUME NEW p \in Client, NEW n \in Policy, ChoosePolicy(p, n) PROVE Choices'
  <2> DEFINE choice == [policy |-> n, ttl |-> policies[n]]
  <2>1. /\ policies[n] # NoPolicy /\ policies' = policies
        /\ chosen' = [chosen EXCEPT ![p] = choice]
    BY <1>5 DEF ChoosePolicy
  <2>2. choice \in Choice /\ choice.policy = n /\ choice.ttl = policies[n]
    BY <2>1 DEF Choices, Choice
  <2> HIDE DEF choice
  <2> QED BY <2>1, <2>2 DEF Choices
<1>6. CASE ServiceStep
  BY <1>1, <1>6 DEF ServiceStep
<1>7. CASE DieAnswering
  BY <1>2, <1>7 DEF DieAnswering
<1>8. ASSUME NEW p \in Client, AcquireByPolicy(p) \/ RefuseByPolicy(p) PROVE Choices'
  BY <1>3, <1>8 DEF AcquireByPolicy, RefuseByPolicy
<1>9. ASSUME NEW v \in Reader, CallDiagnostics(v) \/ Diagnose(v) PROVE Choices'
  BY <1>1, <1>9 DEF CallDiagnostics, Diagnose, ReadHolders, ReadWaiters, ReadClockAgain,
                    ReadResources, Tell
<1>10. CASE UNCHANGED handlersVars
  BY <1>1, <1>10 DEF handlersVars
<1> QED BY <1>4, <1>5, <1>6, <1>7, <1>8, <1>9, <1>10 DEF HandlersNext

-----------------------------------------------------------------------------
(* What was told stands *)

\* A report is told from the committed database, which the telling leaves alone.
LEMMA ToldStands ==
    ASSUME db \in DB, Issued(db), Reports, NEW v \in Reader, CallDiagnostics(v) \/ Diagnose(v)
    PROVE  \E told : Stands(told, db) /\ Tell(v, told)
<1>1. Stands(report[v], db)
  BY DEF Reports
<1>2. CASE CallDiagnostics(v)
  <2> DEFINE told == [stage |-> "called", now |-> clock]
  <2>1. Tell(v, told) /\ Stands(told, db)
    BY <1>2 DEF CallDiagnostics, Stands
  <2> QED BY <2>1
<1>3. CASE ReadHolders(v)
  <2> DEFINE told == [stage |-> "holders", holders |-> HolderUsage(db, report[v].now)]
  <2>1. Tell(v, told)
    BY <1>3 DEF ReadHolders
  <2>2. Stands(told, db)
    BY DEF Stands
  <2> QED BY <2>1, <2>2
<1>4. CASE ReadWaiters(v)
  <2> DEFINE told == [stage |-> "waiters", holders |-> report[v].holders,
                      waiters |-> WaiterSummary(db)]
  <2>1. Tell(v, told)
    BY <1>4 DEF ReadWaiters
  <2>2. told.waiters = WaiterSummary(db) /\ told.stage = "waiters"
    OBVIOUS
  <2> HIDE DEF told
  <2>3. Stands(told, db)
    BY <2>2, CountsRead DEF Stands
  <2> QED BY <2>1, <2>3
<1>5. CASE ReadClockAgain(v)
  <2> DEFINE told == [stage |-> "clock", holders |-> report[v].holders,
                      waiters |-> report[v].waiters, now |-> clock]
  <2>1. Tell(v, told) /\ Stage(v) = "waiters"
    BY <1>5 DEF ReadClockAgain
  <2>2. told.waiters = report[v].waiters /\ told.stage = "clock"
    OBVIOUS
  <2>3. CountsStand(report[v], db)
    BY <1>1, <2>1 DEF Stage, Stands
  <2> HIDE DEF told
  <2>4. Stands(told, db)
    BY <2>2, <2>3 DEF Stands, CountsStand
  <2> QED BY <2>1, <2>4
<1>6. CASE ReadResources(v)
  <2> DEFINE told == [stage |-> "answered", waiters |-> report[v].waiters,
                      resources |-> ResourceStates(db, report[v].now)]
  <2>1. Tell(v, told) /\ Stage(v) = "clock"
    BY <1>6 DEF ReadResources
  <2>2. /\ told.waiters = report[v].waiters /\ told.stage = "answered"
        /\ told.resources = ResourceStates(db, report[v].now)
    OBVIOUS
  <2>3. CountsStand(report[v], db)
    BY <1>1, <2>1 DEF Stage, Stands
  <2> HIDE DEF told
  <2>4. CountsStand(told, db)
    BY <2>2, <2>3 DEF CountsStand
  <2>5. TokensStand(told, db)
    BY <2>2, TokensRead
  <2>6. Stands(told, db)
    BY <2>4, <2>5 DEF Stands
  <2> QED BY <2>1, <2>6
<1> QED BY <1>2, <1>3, <1>4, <1>5, <1>6 DEF Diagnose

LEMMA ReportsStep ==
    ASSUME Handled, [HandlersNext]_handlersVars, LockInv'
    PROVE  Reports'
<1>1. Newer(db, db') /\ Lives(db, db')
  BY HandlersStep, StepImplements, InvStep, QueueInvStep DEF Handled, LockInv
<1>2. db \in DB /\ Issued(db) /\ db' \in DB
  BY LockHere DEF Handled, LockInv, Inv, TypeInv, TypeOK
<1>3. DOMAIN report = Reader /\ \A v \in Reader : Stands(report[v], db')
  BY <1>1, <1>2, StandsLater DEF Handled, Reports
<1>4. CASE report' = report
  <2>1. \A v \in Reader : Stands(report'[v], db')
    BY <1>3, <1>4
  <2> QED BY <1>3, <1>4, <2>1 DEF Reports
<1>5. ASSUME NEW v \in Reader, CallDiagnostics(v) \/ Diagnose(v) PROVE Reports'
  <2>1. PICK told : Stands(told, db) /\ Tell(v, told)
    BY <1>2, <1>5, ToldStands DEF Handled
  <2>2. report' = [report EXCEPT ![v] = told] /\ db' = db
    BY <2>1 DEF Tell, svcVars
  <2>3. DOMAIN report' = Reader /\ \A u \in Reader : Stands(report'[u], db')
    BY <1>3, <2>1, <2>2
  <2> QED BY <2>3 DEF Reports
<1>6. CASE DieAnswering
  <2>1. \A v \in Reader : report'[v] \in {report[v], Idle}
    BY <1>6 DEF DieAnswering
  <2>2. Stands(Idle, db')
    BY DEF Stands
  <2>3. \A v \in Reader : Stands(report'[v], db')
    BY <1>3, <2>1, <2>2
  <2>4. DOMAIN report' = Reader
    BY <1>6 DEF DieAnswering
  <2> QED BY <2>3, <2>4 DEF Reports
<1>7. CASE ServiceStep \/ UNCHANGED handlersVars
  BY <1>4, <1>7 DEF ServiceStep, handlersVars
<1>8. ASSUME NEW n \in Policy, NEW ttl \in TTL, PutPolicy(n, ttl) PROVE Reports'
  BY <1>4, <1>8 DEF PutPolicy
<1>9. ASSUME NEW p \in Client,
             (\E n \in Policy : ChoosePolicy(p, n)) \/ AcquireByPolicy(p) \/ RefuseByPolicy(p)
      PROVE  Reports'
  BY <1>4, <1>9 DEF ChoosePolicy, AcquireByPolicy, RefuseByPolicy
<1> QED BY <1>5, <1>6, <1>7, <1>8, <1>9 DEF HandlersNext

LEMMA HandledInit == HandlersInit => Handled
<1> SUFFICES ASSUME HandlersInit PROVE Handled
  OBVIOUS
<1>1. SvcInit /\ Init
  BY DEF HandlersInit, SvcInit
<1>2. LockInv /\ QueueInv /\ StampsOK /\ TxNow
  BY <1>1, LockInvInit, QueueInvInit, StampsInit DEF Init, TxNow
<1>3. Choices /\ Reports
  BY DEF HandlersInit, Choices, Reports, Stands
<1> QED BY <1>2, <1>3 DEF Handled

LEMMA HandledStep ==
    ASSUME Handled, [HandlersNext]_handlersVars
    PROVE  Handled'
<1>1. [SvcNext]_svcVars /\ [Next]_vars /\ TypeOK
  BY HandlersStep, StepImplements DEF Handled, LockInv, Inv, TypeInv
<1>2. LockInv' /\ QueueInv' /\ StampsOK' /\ TxNow'
  BY <1>1, LockInvStep, QueueInvStep, StampsStep, TxNowStep DEF Handled
<1>3. Choices' /\ Reports'
  BY <1>2, ChoicesStep, ReportsStep DEF Handled
<1> QED BY <1>2, <1>3 DEF Handled

LEMMA HandledInvariant == HandlersSpec => []Handled
<1>1. Handled /\ [HandlersNext]_handlersVars => Handled'
  BY HandledStep
<1> QED BY <1>1, HandledInit, PTL DEF HandlersSpec

-----------------------------------------------------------------------------
(* What was told has its shape *)

\* Told at clk or before.
Shaped(told, clk) ==
    /\ told \in Report \cup {Idle}
    /\ told # Idle /\ told.stage \in {"called", "clock"} => told.now <= clk

Shapes == report \in [Reader -> Report \cup {Idle}] /\ \A v \in Reader : Shaped(report[v], clock)

LEMMA UsageType ==
    ASSUME NEW d \in DB, NEW now
    PROVE  HolderUsage(d, now) \in Usage
<1> SUFFICES ASSUME NEW h \in Holder
             PROVE  /\ Cardinality({r \in Resource : Active(d.leases[r], now)
                                                    /\ d.leases[r].holder = h}) \in Nat
                    /\ Cardinality(PendingByHolder(d, h)) \in Nat
  BY DEF HolderUsage, Usage
<1>1. Cardinality(ActiveResources(d, h, now)) \in Nat
  BY CountType DEF CountActiveByHolder
<1>2. Cardinality(PendingByHolder(d, h)) \in Nat
  BY QueueIsFinite DEF PendingByHolder
<1> QED BY <1>1, <1>2 DEF ActiveResources

LEMMA SummaryShape ==
    ASSUME NEW d \in DB
    PROVE  WaiterSummary(d) \in Summary
<1>1. /\ Len(d.waiters) \in Nat
      /\ InStatus(d, "pending") \in Nat
      /\ InStatus(d, "granted") \in Nat
      /\ InStatus(d, "cancelled") \in Nat
  BY QueueIsFinite DEF InStatus, DB
<1> QED BY <1>1 DEF WaiterSummary, Summary

LEMMA StatesType ==
    ASSUME NEW d \in DB, NEW now
    PROVE  ResourceStates(d, now) \in States
<1> SUFFICES ASSUME NEW r \in Resource, d.leases[r] # NoLease
             PROVE  [holder |-> d.leases[r].holder, token |-> d.leases[r].token,
                     active |-> Active(d.leases[r], now)]
                      \in [holder: Holder, token: Token, active: BOOLEAN]
  BY DEF ResourceStates, States
<1>1. d.leases[r].holder \in Holder /\ d.leases[r].token \in Token
  BY DEF DB, Lease
<1>2. Active(d.leases[r], now) \in BOOLEAN
  BY DEF Active
<1> QED BY <1>1, <1>2

\* What a report of each stage holds.
LEMMA ReportFields ==
    ASSUME NEW told \in Report
    PROVE  /\ told.stage \in {"waiters", "clock"} => told.holders \in Usage
           /\ told.stage \in {"waiters", "clock"} => told.waiters \in Summary
BY DEF Report

LEMMA ToldShaped ==
    ASSUME db \in DB, clock \in Instant, Shapes, NEW v \in Reader,
           CallDiagnostics(v) \/ Diagnose(v)
    PROVE  \E told : Shaped(told, clock) /\ Tell(v, told)
<1>0. clock \in Nat
  BY TimeAssumption
<1>1. report[v] \in Report \cup {Idle}
  BY DEF Shapes
<1>2. CASE CallDiagnostics(v)
  <2> DEFINE told == [stage |-> "called", now |-> clock]
  <2>1. told \in Report /\ told.now <= clock
    BY <1>0 DEF Report
  <2>2. Tell(v, told)
    BY <1>2 DEF CallDiagnostics
  <2> HIDE DEF told
  <2> QED BY <2>1, <2>2 DEF Shaped
<1>3. CASE ReadHolders(v)
  <2> DEFINE told == [stage |-> "holders", holders |-> HolderUsage(db, report[v].now)]
  <2>1. told \in Report /\ told.stage = "holders"
    BY UsageType DEF Report
  <2>2. Tell(v, told)
    BY <1>3 DEF ReadHolders
  <2> HIDE DEF told
  <2> QED BY <2>1, <2>2 DEF Shaped
<1>4. CASE ReadWaiters(v)
  <2> DEFINE told == [stage |-> "waiters", holders |-> report[v].holders,
                      waiters |-> WaiterSummary(db)]
  <2>a. report[v] \in Report /\ report[v].stage = "holders" /\ Tell(v, told)
    BY <1>1, <1>4 DEF ReadWaiters, Stage
  <2>b. report[v].holders \in Usage
    BY <2>a DEF Report
  <2>1. told \in Report /\ told.stage = "waiters"
    BY <2>b, SummaryShape DEF Report
  <2> HIDE DEF told
  <2> QED BY <2>1, <2>a DEF Shaped
<1>5. CASE ReadClockAgain(v)
  <2> DEFINE told == [stage |-> "clock", holders |-> report[v].holders,
                      waiters |-> report[v].waiters, now |-> clock]
  <2>a. report[v] \in Report /\ report[v].stage = "waiters" /\ Tell(v, told)
    BY <1>1, <1>5 DEF ReadClockAgain, Stage
  <2>1. told \in Report /\ told.now <= clock
    BY <1>0, <2>a, ReportFields DEF Report
  <2> HIDE DEF told
  <2> QED BY <2>1, <2>a DEF Shaped
<1>6. CASE ReadResources(v)
  <2> DEFINE told == [stage |-> "answered", waiters |-> report[v].waiters,
                      resources |-> ResourceStates(db, report[v].now)]
  <2>a. report[v] \in Report /\ report[v].stage = "clock" /\ Tell(v, told)
    BY <1>1, <1>6 DEF ReadResources, Stage
  <2>1. told \in Report /\ told.stage = "answered"
    BY <2>a, ReportFields, StatesType DEF Report
  <2> HIDE DEF told
  <2> QED BY <2>1, <2>a DEF Shaped
<1> QED BY <1>2, <1>3, <1>4, <1>5, <1>6 DEF Diagnose

\* The clock does not go back.
LEMMA ClockForward ==
    ASSUME StampsOK, [SvcNext]_svcVars
    PROVE  clock \in Nat /\ clock' \in Nat /\ clock <= clock'
<1>1. clock \in Nat
  BY TimeAssumption DEF StampsOK
<1>2. clock' = clock \/ clock' = clock + 1
  BY DEF SvcNext, Tick, ReadClock, Serve, ServeUnchanged, Work, CommitFails, Die, Boot, Recover,
         Listen, svcVars
<1> QED BY <1>1, <1>2

LEMMA ShapesStep ==
    ASSUME Handled, Shapes, [HandlersNext]_handlersVars
    PROVE  Shapes'
<1>1. clock \in Nat /\ clock' \in Nat /\ clock <= clock'
  BY HandlersStep, ClockForward DEF Handled
<1>2. ASSUME NEW told, Shaped(told, clock) PROVE Shaped(told, clock')
  <2>1. CASE told # Idle /\ told.stage \in {"called", "clock"}
    <3>1. told.now \in Nat /\ told.now <= clock
      BY <1>2, <2>1, TimeAssumption DEF Shaped, Report
    <3> QED BY <1>1, <1>2, <3>1 DEF Shaped
  <2> QED BY <1>2, <2>1 DEF Shaped
<1>3. CASE report' = report
  BY <1>2, <1>3 DEF Shapes
<1>4. ASSUME NEW v \in Reader, CallDiagnostics(v) \/ Diagnose(v) PROVE Shapes'
  <2>1. db \in DB /\ clock \in Instant
    BY LockHere DEF Handled, StampsOK
  <2>2. PICK told : Shaped(told, clock) /\ Tell(v, told)
    BY <1>4, <2>1, ToldShaped
  <2>3. report' = [report EXCEPT ![v] = told]
    BY <2>2 DEF Tell
  <2>4. report' \in [Reader -> Report \cup {Idle}]
    BY <2>2, <2>3 DEF Shapes, Shaped
  <2>5. \A u \in Reader : Shaped(report'[u], clock)
    BY <2>2, <2>3 DEF Shapes
  <2> QED BY <1>2, <2>4, <2>5 DEF Shapes
<1>5. CASE DieAnswering
  <2>1. report' = [v \in Reader |-> IF Stage(v) = "answered" THEN report[v] ELSE Idle]
    BY <1>5 DEF DieAnswering
  <2>2. \A v \in Reader : report'[v] \in {report[v], Idle}
    BY <2>1
  <2>3. report' \in [Reader -> Report \cup {Idle}]
    BY <2>1 DEF Shapes
  <2>4. Shaped(Idle, clock')
    BY DEF Shaped
  <2>5. \A v \in Reader : Shaped(report'[v], clock')
    BY <1>2, <2>2, <2>4 DEF Shapes
  <2> QED BY <2>3, <2>5 DEF Shapes
<1>6. CASE ServiceStep \/ UNCHANGED handlersVars
  BY <1>3, <1>6 DEF ServiceStep, handlersVars
<1>7. ASSUME NEW n \in Policy, NEW ttl \in TTL, PutPolicy(n, ttl) PROVE Shapes'
  BY <1>3, <1>7 DEF PutPolicy
<1>8. ASSUME NEW p \in Client,
             (\E n \in Policy : ChoosePolicy(p, n)) \/ AcquireByPolicy(p) \/ RefuseByPolicy(p)
      PROVE  Shapes'
  BY <1>3, <1>8 DEF ChoosePolicy, AcquireByPolicy, RefuseByPolicy
<1> QED BY <1>4, <1>5, <1>6, <1>7, <1>8 DEF HandlersNext

-----------------------------------------------------------------------------
(* The theorems *)

\* Requests of several transactions add nothing to what the service may do:
\* whatever is proved of it holds while they run.
THEOREM HandlersImplementService == HandlersSpec => SvcSpec
<1>1. HandlersInit => SvcInit
  BY DEF HandlersInit
<1>2. Handled /\ [HandlersNext]_handlersVars => [SvcNext]_svcVars
  BY HandlersStep DEF Handled
<1> QED BY <1>1, <1>2, HandledInvariant, PTL DEF HandlersSpec, SvcSpec

\* Policies, the choices made of them and what readers have been told keep their
\* shapes, and no instant that a request is yet to use is ahead of the clock.
THEOREM HandlersTypeCorrect == HandlersSpec => []HandlersTypeOK
<1>1. HandlersInit => Handled /\ Shapes
  <2> SUFFICES ASSUME HandlersInit PROVE Shapes
    BY HandledInit
  <2>1. report \in [Reader -> Report \cup {Idle}] /\ \A v \in Reader : report[v] = Idle
    BY DEF HandlersInit
  <2> QED BY <2>1 DEF Shapes, Shaped
<1>2. (Handled /\ Shapes) /\ [HandlersNext]_handlersVars => (Handled /\ Shapes)'
  BY HandledStep, ShapesStep
<1>3. ASSUME Handled, Shapes PROVE HandlersTypeOK
  <2>1. SvcTypeOK
    BY <1>3 DEF Handled, LockInv, Inv, TypeInv, StampsOK, TxNow, SvcTypeOK
  <2>2. \A v \in Reader : Stage(v) \in {"called", "clock"} => report[v].now <= clock
    BY <1>3 DEF Shapes, Shaped, Stage
  <2> QED BY <1>3, <2>1, <2>2 DEF Handled, Choices, Shapes, HandlersTypeOK
<1>4. Handled /\ Shapes => HandlersTypeOK
  BY <1>3
<1> QED BY <1>1, <1>2, <1>4, PTL DEF HandlersSpec

\* What a diagnostics request was answered is not taken back by any later
\* commit, kill or restart, whatever was open when each part of it was read.
THEOREM ReportsAreForGood == HandlersSpec => []ToldForGood
<1>1. ASSUME Handled PROVE ToldForGood
  <2> SUFFICES ASSUME NEW v \in Reader, Stage(v) = "answered", report[v] # Idle
               PROVE  CountsStand(report[v], db) /\ TokensStand(report[v], db)
    BY DEF ToldForGood, CountsStand, TokensStand, Part
  <2>1. report[v].stage = "answered" /\ Stands(report[v], db)
    BY <1>1 DEF Handled, Reports, Stage
  <2> QED BY <2>1 DEF Stands
<1>2. Handled => ToldForGood
  BY <1>1
<1> QED BY <1>2, HandledInvariant, PTL

\* An acquire by policy grants for as long as its policy says when it grants,
\* though any number of transactions, and of new policies, may have committed
\* since it read the policy.
THEOREM PoliciesAreHonoured == HandlersSpec => PolicyHonoured
<1> DEFINE Step ==
        \A p \in Client, r \in Resource :
            chosen[p] # Idle /\ chosen'[p] = Idle /\ Granted(r) =>
                db'.leases[r].deadline =
                    db'.leases[r].acquired + policies[chosen[p].policy]
<1>1. ASSUME Handled, [HandlersNext]_handlersVars PROVE Step
  <2>a. Choices /\ db \in DB
    BY <1>1, LockHere DEF Handled
  <2>b. db' = db => Step
    BY DEF Granted
  <2>c. chosen' = chosen => Step
    OBVIOUS
  <2>1. ASSUME NEW q \in Client, AcquireByPolicy(q) PROVE Step
    <3> SUFFICES ASSUME NEW p \in Client, NEW r \in Resource,
                        chosen[p] # Idle, chosen'[p] = Idle, Granted(r)
                 PROVE  db'.leases[r].deadline =
                            db'.leases[r].acquired + policies[chosen[p].policy]
      OBVIOUS
    <3>1. p = q
      BY <2>a, <2>1 DEF AcquireByPolicy, Choices
    <3>2. PICK s \in Resource, h \in Holder : Acquire(s, h, called[q], chosen[q].ttl)
      BY <2>1 DEF AcquireByPolicy
    <3>3. db' = Grant(db, s, h, chosen[q].ttl, called[q], "acquire")
      BY <3>2 DEF Acquire, Update
    <3>4. db'.leases[s] = NewLease(db, h, chosen[q].ttl, called[q]) /\ OnlyAt(db, db', s)
      BY <2>a, <3>3, GrantFields
    <3>5. r = s
      BY <3>4 DEF Granted, OnlyAt
    <3> QED BY <2>a, <3>1, <3>4, <3>5 DEF NewLease, Choices
  <2>2. ASSUME NEW q \in Client, RefuseByPolicy(q) PROVE db' = db
    BY <2>2 DEF RefuseByPolicy, ServeUnchanged
  <2>3. CASE DieAnswering
    BY <2>b, <2>3 DEF DieAnswering, Die
  <2>4. ASSUME NEW v \in Reader, CallDiagnostics(v) \/ Diagnose(v) PROVE chosen' = chosen
    BY <2>4 DEF CallDiagnostics, Diagnose, ReadHolders, ReadWaiters, ReadClockAgain,
                ReadResources, Tell
  <2>5. CASE ServiceStep \/ UNCHANGED handlersVars
    BY <2>c, <2>5 DEF ServiceStep, handlersVars
  <2>6. ASSUME NEW n \in Policy, NEW ttl \in TTL, PutPolicy(n, ttl) PROVE chosen' = chosen
    BY <2>6 DEF PutPolicy
  <2>7. ASSUME NEW q \in Client, NEW n \in Policy, ChoosePolicy(q, n) PROVE db' = db
    BY <2>7 DEF ChoosePolicy, svcVars
  <2> QED BY <1>1, <2>b, <2>c, <2>1, <2>2, <2>3, <2>4, <2>5, <2>6, <2>7 DEF HandlersNext
<1>2. Handled /\ [HandlersNext]_handlersVars => Step
  BY <1>1
<1> QED BY <1>2, HandledInvariant, PTL DEF HandlersSpec, PolicyHonoured

-----------------------------------------------------------------------------
(* The views of one snapshot *)

\* The pending waiters are as many as the queues of the holders sum up to: the
\* n-th waiter of a holder is the n-th mark in its queue.
LEMMA QueuesAddUp ==
    ASSUME NEW d \in DB
    PROVE  Cardinality(UNION {{h} \X (1 .. Cardinality(PendingByHolder(d, h))) : h \in Holder})
             = InStatus(d, "pending")
<1> DEFINE P == InState(d, "pending")
           Q(h) == PendingByHolder(d, h)
           M == UNION {{h} \X (1 .. Cardinality(Q(h))) : h \in Holder}
           mark == [i \in P |-> <<d.waiters[i].holder, Rank(Q(d.waiters[i].holder), i)>>]
<1>1. /\ DOMAIN d.waiters = 1 .. Len(d.waiters) /\ Len(d.waiters) \in Nat
      /\ \A i \in DOMAIN d.waiters : d.waiters[i].holder \in Holder
  <2>1. d.waiters \in Seq(Waiter)
    BY DEF DB
  <2>2. \A i \in DOMAIN d.waiters : d.waiters[i] \in Waiter
    BY <2>1
  <2> QED BY <2>1, <2>2 DEF Waiter
<1>2. \A h \in Holder : Q(h) \in SUBSET Nat /\ IsFiniteSet(Q(h)) /\ Q(h) \subseteq P
  <2> SUFFICES ASSUME NEW h \in Holder
               PROVE  Q(h) \in SUBSET Nat /\ IsFiniteSet(Q(h)) /\ Q(h) \subseteq P
    OBVIOUS
  <2>1. Q(h) \subseteq DOMAIN d.waiters /\ Q(h) \subseteq P
    BY DEF PendingByHolder, InState
  <2>2. IsFiniteSet(Q(h))
    BY <2>1, QueueIsFinite
  <2> QED BY <1>1, <2>1, <2>2
<1>3. \A i \in P : d.waiters[i].holder \in Holder /\ i \in Q(d.waiters[i].holder)
  BY <1>1 DEF InState, PendingByHolder
<1>4. \A h \in Holder : \A i \in Q(h) : i \in P /\ d.waiters[i].holder = h
  BY DEF InState, PendingByHolder
<1>5. IsFiniteSet(P)
  BY QueueIsFinite DEF InState
<1> HIDE DEF P, Q, mark, M
<1>6. \A h \in Holder : \A i \in Q(h) :
          Rank(Q(h), i) \in 1 .. Cardinality(Q(h)) /\ Nth(Q(h), Rank(Q(h), i)) = i
  BY <1>2, NthRank
<1>7. \A h \in Holder : \A k \in 1 .. Cardinality(Q(h)) :
          Nth(Q(h), k) \in Q(h) /\ Rank(Q(h), Nth(Q(h), k)) = k
  BY <1>2, NthRank
<1>8. \A i \in P : mark[i] = <<d.waiters[i].holder, Rank(Q(d.waiters[i].holder), i)>>
  BY DEF mark
<1>9. mark \in [P -> M]
  <2>1. \A i \in P : mark[i] \in {d.waiters[i].holder} \X (1 .. Cardinality(Q(d.waiters[i].holder)))
    <3> SUFFICES ASSUME NEW i \in P
                 PROVE  mark[i] \in {d.waiters[i].holder}
                                      \X (1 .. Cardinality(Q(d.waiters[i].holder)))
      OBVIOUS
    <3>1. Rank(Q(d.waiters[i].holder), i) \in 1 .. Cardinality(Q(d.waiters[i].holder))
      BY <1>3, <1>6
    <3> HIDE DEF Q
    <3> QED BY <1>8, <3>1
  <2>2. \A i \in P : mark[i] \in M
    BY <1>3, <2>1 DEF M
  <2> QED BY <2>2 DEF mark
<1>10. \A i, j \in P : mark[i] = mark[j] => i = j
  <2> SUFFICES ASSUME NEW i \in P, NEW j \in P, mark[i] = mark[j] PROVE i = j
    OBVIOUS
  <2>1. /\ d.waiters[i].holder = d.waiters[j].holder
        /\ Rank(Q(d.waiters[i].holder), i) = Rank(Q(d.waiters[j].holder), j)
    BY <1>8
  <2>2. /\ Nth(Q(d.waiters[i].holder), Rank(Q(d.waiters[i].holder), i)) = i
        /\ Nth(Q(d.waiters[j].holder), Rank(Q(d.waiters[j].holder), j)) = j
    BY <1>3, <1>6
  <2> QED BY <2>1, <2>2
<1>11. \A m \in M : \E i \in P : mark[i] = m
  <2> SUFFICES ASSUME NEW m \in M PROVE \E i \in P : mark[i] = m
    OBVIOUS
  <2>1. PICK h \in Holder : m \in {h} \X (1 .. Cardinality(Q(h)))
    BY DEF M
  <2>2. PICK k \in 1 .. Cardinality(Q(h)) : m = <<h, k>>
    BY <2>1
  <2>3. Nth(Q(h), k) \in P /\ d.waiters[Nth(Q(h), k)].holder = h /\ Rank(Q(h), Nth(Q(h), k)) = k
    BY <1>4, <1>7
  <2> QED BY <1>8, <2>2, <2>3
<1>12. ExistsBijection(P, M)
  BY <1>9, <1>10, <1>11 DEF ExistsBijection, Bijection, Injection, Surjection, IsInjective
<1>13. Cardinality(M) = Cardinality(P)
  BY <1>5, <1>12, FS_Bijection
<1> QED BY <1>13 DEF M, P, Q, InState, InStatus

LEMMA StateNotNull ==
    ASSUME NEW d \in DB, NEW r \in Resource, d.leases[r] # NoLease, NEW now
    PROVE  [holder |-> d.leases[r].holder, token |-> d.leases[r].token,
            active |-> Active(d.leases[r], now)] # NoLease
<1>1. d.leases[r].holder \in Holder /\ d.leases[r].token \in Nat
  BY DEF DB, Lease, Token
<1>2. Active(d.leases[r], now) \in BOOLEAN
  BY DEF Active
<1> QED BY <1>1, <1>2, StateAssumption

\* The four views, computed by scans of their own, tell the same of one
\* snapshot at one instant (usage.go, stats.go, resource_states.go,
\* waiter_summary.go).
THEOREM ViewsTellTheSame == HandlersSpec => []ViewsAgree
<1>1. ASSUME db \in DB, NEW now \in Instant
      PROVE  LET usage == HolderUsage(db, now)
                 states == ResourceStates(db, now)
                 shown == {r \in Resource : states[r] # NoLease /\ states[r].active}
                 queued == UNION {{h} \X (1 .. usage[h].queued) : h \in Holder}
             IN  /\ \A h \in Holder :
                       usage[h].active = Cardinality({r \in shown : states[r].holder = h})
                 /\ Cardinality(queued) = WaiterSummary(db).pending
                 /\ Stats(db, now).active = Cardinality(shown)
                 /\ Stats(db, now).pending = WaiterSummary(db).pending
  <2> DEFINE usage == HolderUsage(db, now)
             states == ResourceStates(db, now)
             shown == {r \in Resource : states[r] # NoLease /\ states[r].active}
  <2>1. ASSUME NEW r \in Resource
        PROVE  /\ r \in shown <=> Active(db.leases[r], now)
               /\ r \in shown => states[r].holder = db.leases[r].holder
    BY <1>1, StateNotNull DEF ResourceStates, Active
  <2>2. ASSUME NEW h \in Holder
        PROVE  usage[h].active = Cardinality({r \in shown : states[r].holder = h})
    <3>1. {r \in shown : states[r].holder = h}
            = {r \in Resource : Active(db.leases[r], now) /\ db.leases[r].holder = h}
      BY <2>1
    <3> QED BY <3>1 DEF HolderUsage
  <2>3. Cardinality(UNION {{h} \X (1 .. usage[h].queued) : h \in Holder}) = WaiterSummary(db).pending
    <3>1. \A h \in Holder : usage[h].queued = Cardinality(PendingByHolder(db, h))
      BY DEF HolderUsage
    <3>2. UNION {{h} \X (1 .. usage[h].queued) : h \in Holder}
            = UNION {{h} \X (1 .. Cardinality(PendingByHolder(db, h))) : h \in Holder}
      BY <3>1
    <3> QED BY <1>1, <3>2, QueuesAddUp DEF WaiterSummary
  <2>4. {r \in {s \in Resource : db.leases[s] # NoLease} : Active(db.leases[r], now)} = shown
    BY <2>1 DEF Active
  <2> QED BY <2>2, <2>3, <2>4 DEF Stats, WaiterSummary
<1>2. db \in DB => ViewsAgree
  BY <1>1 DEF ViewsAgree
<1>3. HandlersTypeOK => db \in DB
  BY DEF HandlersTypeOK, SvcTypeOK, TypeOK
<1> QED BY <1>2, <1>3, HandlersTypeCorrect, PTL
=============================================================================
