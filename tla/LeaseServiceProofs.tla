------------------------- MODULE LeaseServiceProofs -------------------------
(***************************************************************************)
(* Proofs about LeaseService: it implements LeaseStore, so the theorems    *)
(* about the store hold of the running service, across kills and restarts; *)
(* it takes no live lease away; it serves nobody before its sweep is done. *)
(***************************************************************************)
EXTENDS LeaseService, BatchProofs

\* The part of SvcTypeOK that is about the service's own variables.
StampsOK ==
    /\ clock \in Instant
    /\ called \in [Client -> Instant \cup {Idle}]
    /\ phase \in Phase
    /\ bootAt \in Instant
    /\ bootAt <= clock
    /\ \A p \in Client : called[p] # Idle => called[p] <= clock

LEMMA StampsInit == SvcInit => StampsOK
BY TimeAssumption DEF SvcInit, StampsOK, Phase

LEMMA StampsStep == StampsOK /\ [SvcNext]_svcVars => StampsOK'
<1> SUFFICES ASSUME StampsOK, [SvcNext]_svcVars PROVE StampsOK'
  OBVIOUS
<1> USE DEF StampsOK
<1>1. CASE Tick
  <2>1. /\ clock \in Nat /\ clock' = clock + 1 /\ clock' \in Instant
        /\ called' = called /\ phase' = phase /\ bootAt' = bootAt /\ bootAt \in Nat
    BY <1>1, TimeAssumption DEF Tick
  <2>2. ASSUME NEW p \in Client, called[p] # Idle PROVE called[p] <= clock + 1
    <3>1. called[p] \in Nat /\ called[p] <= clock
      BY <2>2, TimeAssumption
    <3> QED BY <2>1, <3>1
  <2>3. bootAt <= clock + 1
    BY <2>1
  <2> QED BY <2>1, <2>2, <2>3
<1>2. ASSUME NEW p \in Client, ReadClock(p) PROVE StampsOK'
  BY <1>2, TimeAssumption DEF ReadClock
<1>3. ASSUME NEW p \in Client, Serve(p) \/ ServeUnchanged(p) PROVE StampsOK'
  BY <1>3 DEF Serve, ServeUnchanged
<1>4. CASE Work \/ CommitFails
  BY <1>4 DEF Work, CommitFails
<1>5. CASE Die
  BY <1>5 DEF Die, Phase
<1>6. CASE Boot
  BY <1>6, TimeAssumption DEF Boot, Phase
<1>7. CASE Recover \/ Listen
  BY <1>7 DEF Recover, Listen, Phase
<1>8. CASE UNCHANGED svcVars
  BY <1>8 DEF svcVars
<1> QED BY <1>1, <1>2, <1>3, <1>4, <1>5, <1>6, <1>7, <1>8 DEF SvcNext

LEMMA StampsInvariant == SvcSpec => []StampsOK
BY StampsInit, StampsStep, PTL DEF SvcSpec

\* A step of the service is a step of the store or leaves it alone.
LEMMA StepImplements ==
    ASSUME StampsOK, [SvcNext]_svcVars
    PROVE  [Next]_vars
<1>1. CASE Tick \/ Boot \/ Listen
  BY <1>1 DEF Tick, Boot, Listen, vars
<1>2. ASSUME NEW p \in Client, ReadClock(p) \/ ServeUnchanged(p) PROVE [Next]_vars
  BY <1>2 DEF ReadClock, ServeUnchanged, vars
<1>3. ASSUME NEW p \in Client, Serve(p) PROVE [Next]_vars
  <2>1. called[p] \in Instant
    BY <1>3 DEF Serve, StampsOK
  <2> QED BY <1>3, <2>1 DEF Serve, Next
<1>4. CASE Work \/ CommitFails
  BY <1>4 DEF Work, CommitFails, Next
<1>5. CASE Die
  <2>1. CASE tx = NoTx
    BY <1>5, <2>1 DEF Die, vars
  <2>2. CASE tx # NoTx
    BY <1>5, <2>2 DEF Die, Crash, Next
  <2> QED BY <2>1, <2>2
<1>6. CASE Recover
  <2>1. Call(bootAt) /\ bootAt \in Instant
    BY <1>6 DEF Recover, Call, StampsOK
  <2> QED BY <2>1 DEF Next
<1>7. CASE UNCHANGED svcVars
  BY <1>7 DEF svcVars, vars
<1> QED BY <1>1, <1>2, <1>3, <1>4, <1>5, <1>6, <1>7 DEF SvcNext

\* The service, with its stale instants, its kills and its restarts, behaves
\* like the store called at arbitrary instants.
THEOREM ServiceImplementsStore == SvcSpec => ImplementsStore
<1>1. SvcInit => Init
  BY DEF SvcInit
<1>2. StampsOK /\ [SvcNext]_svcVars => [Next]_vars
  BY StepImplements
<1> QED BY <1>1, <1>2, StampsInvariant, PTL DEF SvcSpec, ImplementsStore

\* So a token refused once is refused for ever by the running service too,
\* whatever its requests' instants and however often it is restarted.
THEOREM ServiceRefusesStaleHolder == SvcSpec => []StaleTokenRejected /\ FencingMonotone
<1>1. SvcSpec => Spec
  BY ServiceImplementsStore DEF ImplementsStore, Spec
<1> QED BY <1>1, StaleHolderRefused, FencingIncreases

\* The running service is a fenced lock, whose holds no crash takes back.
THEOREM ServiceIsFencedLock == SvcSpec => ImplementsFencedLock
<1>1. SvcSpec => Spec
  BY ServiceImplementsStore DEF ImplementsStore, Spec
<1> QED BY <1>1, StoreIsFencedLock

\* What the store promises of its batches, sweeps, quotas and waiters, it
\* promises with requests in flight, stale instants, kills and restarts.
THEOREM ServiceKeepsPromises ==
    SvcSpec =>
        /\ BulkAcquireAllOrNothing /\ BulkReleaseAllOrNothing /\ SweepComplete
        /\ GrantsWithinQuota /\ WaiterLeftOnlyAtCap /\ []BatchChecksHold
<1>1. SvcSpec => Spec
  BY ServiceImplementsStore DEF ImplementsStore, Spec
<1> QED BY <1>1, BatchesAcquireAll, BatchesReleaseAll, SweepsAreComplete, GrantsRespectQuotas,
           WaitersLeftAtCap, LoopsActAsChecked

-----------------------------------------------------------------------------
(* The instant of the open transaction *)

TxNow == tx # NoTx => tx.now \in Nat /\ tx.now <= clock

\* A call opens a transaction with its own instant or none; a step of the open
\* one keeps its instant.
LEMMA CallNow ==
    ASSUME NEW now \in Instant, Call(now)
    PROVE  tx' # NoTx => tx'.now = now
<1>1. ASSUME NEW d, Update(d) PROVE tx' = NoTx
  BY <1>1 DEF Update
<1>2. CASE LeaseOps(now)
  <2>1. \E d : Update(d)
    BY <1>2 DEF LeaseOps, Acquire, Renew, Release, Transfer, EnqueueWaiter, EnqueuePending,
                EnqueueImmediate
  <2> QED BY <1>1, <2>1
<1>3. CASE HolderOps(now) \/ \E i \in DOMAIN db.waiters : CancelWaiter(i)
  <2>1. \E d : Update(d)
    BY <1>3 DEF HolderOps, PutHolder, SetQuota, DeleteHolder, CancelWaiter
  <2> QED BY <1>1, <2>1
<1>4. ASSUME NEW h, NEW asked, NEW ttl, BulkAcquireBegin(h, asked, now, ttl)
      PROVE  tx'.now = now
  BY <1>4 DEF BulkAcquireBegin, Begin
<1>5. ASSUME NEW h, NEW asked, NEW tokens, BulkReleaseBegin(h, asked, tokens, now)
      PROVE  tx'.now = now
  BY <1>5 DEF BulkReleaseBegin, Begin
<1>6. ASSUME NEW asked, ExpireBegin(asked, now) PROVE tx'.now = now
  BY <1>6 DEF ExpireBegin, Begin
<1>7. CASE BulkOps(now) \/ ExpireAll(now)
  BY <1>4, <1>5, <1>6, <1>7 DEF BulkOps, ExpireAll
<1> QED BY <1>2, <1>3, <1>7 DEF Call

LEMMA WorkNow ==
    ASSUME tx \in Tx, TxStep
    PROVE  tx' # NoTx => tx'.now = tx.now
<1>1. ASSUME NEW todo, NEW d, Iterate(todo, d) PROVE tx'.now = tx.now
  <2>1. tx' = [tx EXCEPT !.work = d, !.done = tx.done + 1]
    BY <1>1 DEF Iterate
  <2>2. CASE tx.op = "bulk_acquire"
    BY <2>1, <2>2 DEF Tx
  <2>3. CASE tx.op = "bulk_release"
    BY <2>1, <2>3 DEF Tx
  <2>4. CASE tx.op = "expire"
    BY <2>1, <2>4 DEF Tx
  <2> QED BY <2>2, <2>3, <2>4 DEF Tx
<1>2. ASSUME NEW todo, Commit(todo) PROVE tx' = NoTx
  BY <1>2 DEF Commit
<1> QED BY <1>1, <1>2 DEF TxStep, BulkAcquireStep, BulkReleaseStep, ExpireStep

LEMMA TxNowStep ==
    ASSUME TypeOK, StampsOK, TxNow, [SvcNext]_svcVars
    PROVE  TxNow'
<1>1. clock \in Nat /\ \A n \in Instant : n \in Nat
  BY TimeAssumption DEF StampsOK
<1>2. CASE UNCHANGED tx /\ (clock' = clock \/ clock' = clock + 1)
  BY <1>1, <1>2 DEF TxNow
<1>3. CASE tx' = NoTx
  BY <1>3 DEF TxNow
<1>4. CASE Tick \/ Boot \/ Listen \/ UNCHANGED svcVars
  BY <1>2, <1>4 DEF Tick, Boot, Listen, svcVars
<1>5. ASSUME NEW p \in Client, ReadClock(p) \/ ServeUnchanged(p) PROVE TxNow'
  BY <1>2, <1>5 DEF ReadClock, ServeUnchanged
<1>6. ASSUME NEW p \in Client, Serve(p) PROVE TxNow'
  <2>1. called[p] \in Instant /\ called[p] <= clock /\ Call(called[p]) /\ clock' = clock
    BY <1>6 DEF Serve, StampsOK
  <2>2. tx' # NoTx => tx'.now = called[p]
    BY <2>1, CallNow
  <2> QED BY <1>1, <2>1, <2>2 DEF TxNow
<1>7. CASE Work
  <2>1. TxStep /\ clock' = clock /\ tx # NoTx /\ tx \in Tx
    BY <1>7 DEF Work, TypeOK, TxStep, BulkAcquireStep, BulkReleaseStep, ExpireStep
  <2> QED BY <2>1, WorkNow DEF TxNow
<1>8. CASE CommitFails \/ Die
  BY <1>3, <1>8 DEF CommitFails, Crash, Die
<1>9. CASE Recover
  <2>1. bootAt \in Instant /\ bootAt <= clock /\ Call(bootAt) /\ clock' = clock
    BY <1>9 DEF Recover, Call, StampsOK
  <2>2. tx' # NoTx => tx'.now = bootAt
    BY <2>1, CallNow
  <2> QED BY <1>1, <2>1, <2>2 DEF TxNow
<1> QED BY <1>4, <1>5, <1>6, <1>7, <1>8, <1>9 DEF SvcNext

\* The service's variables keep their shapes, and no instant that a request or
\* the open transaction works with is ahead of the clock.
THEOREM ServiceTypeCorrect == SvcSpec => []SvcTypeOK
<1>1. SvcSpec => []TypeOK
  <2>1. SvcSpec => Spec
    BY ServiceImplementsStore DEF ImplementsStore, Spec
  <2> QED BY <2>1, TypeCorrect
<1>2. SvcInit => TxNow
  BY DEF SvcInit, Init, TxNow
<1>3. TypeOK /\ StampsOK /\ TxNow /\ [SvcNext]_svcVars => TxNow'
  BY TxNowStep
<1>4. TypeOK /\ StampsOK /\ TxNow => SvcTypeOK
  BY DEF StampsOK, TxNow, SvcTypeOK
<1> QED BY <1>1, <1>2, <1>3, <1>4, StampsInvariant, PTL DEF SvcSpec
-----------------------------------------------------------------------------
(* No live lease is taken away.  A transaction spares the leases that are    *)
(* active at its instant, step by step: it touches only leases that are not, *)
(* but for those whose release its caller asks for, and these it logs.  Its  *)
(* instant is never ahead of the clock, so a lease that is alive by the      *)
(* clock is among the spared.                                                *)

\* An entry that says the lease d0 has on r was given back by its holder.
Return(d0, r, entry) ==
    /\ entry.action \in {"release", "bulk_release"}
    /\ entry.resource = r
    /\ entry.holder = d0.leases[r].holder
    /\ entry.token = d0.leases[r].token

\* Since d0 the log has such an entry.
Returned(d0, d, r) ==
    \E i \in Len(d0.audit) + 1 .. Len(d.audit) : Return(d0, r, d.audit[i])

Kept(d0, d, r) == d.leases[r] # NoLease /\ d.leases[r].token = d0.leases[r].token

\* d came from d0 without taking a lease that is active at now.
Spares(d0, d, now) ==
    /\ Len(d0.audit) <= Len(d.audit)
    /\ \A r \in Resource :
          Active(d0.leases[r], now) => Kept(d0, d, r) \/ Returned(d0, d, r)

LEMMA SparesRefl ==
    ASSUME NEW d \in DB, NEW now
    PROVE  Spares(d, d, now)
BY DEF Spares, Kept, Active, DB

\* A step on r that logs x.
LEMMA SparesStep ==
    ASSUME NEW d0 \in DB, NEW d \in DB, NEW e \in DB, NEW now, Spares(d0, d, now),
           NEW r \in Resource, NEW x, e.audit = Append(d.audit, x),
           \A s \in Resource \ {r} : e.leases[s] = d.leases[s],
           Active(d0.leases[r], now) =>
               Kept(d0, e, r) \/ Returned(d0, d, r) \/ Return(d0, r, x)
    PROVE  Spares(d0, e, now) /\ (Return(d0, r, x) => Returned(d0, e, r))
<1> DEFINE n == Len(d.audit) + 1
<1>1. /\ Len(d0.audit) \in Nat /\ Len(d.audit) \in Nat /\ Len(e.audit) = n
      /\ e.audit[n] = x /\ \A i \in 1 .. Len(d.audit) : e.audit[i] = d.audit[i]
      /\ Len(d0.audit) <= Len(d.audit)
  BY DEF DB, Spares
<1>2. ASSUME NEW s \in Resource, Returned(d0, d, s) PROVE Returned(d0, e, s)
  <2>1. PICK i \in Len(d0.audit) + 1 .. Len(d.audit) : Return(d0, s, d.audit[i])
    BY <1>2 DEF Returned
  <2>2. i \in Len(d0.audit) + 1 .. Len(e.audit) /\ e.audit[i] = d.audit[i]
    BY <1>1, <2>1
  <2> QED BY <2>1, <2>2 DEF Returned
<1>3. Return(d0, r, x) => Returned(d0, e, r)
  <2>1. n \in Len(d0.audit) + 1 .. Len(e.audit)
    BY <1>1
  <2> QED BY <1>1, <2>1 DEF Returned
<1>4. ASSUME NEW s \in Resource, Active(d0.leases[s], now)
      PROVE  Kept(d0, e, s) \/ Returned(d0, e, s)
  <2>1. CASE s = r
    BY <1>2, <1>3, <1>4, <2>1
  <2>2. CASE s # r
    BY <1>2, <1>4, <2>2 DEF Spares, Kept
  <2> QED BY <2>1, <2>2
<1>5. Len(d0.audit) <= Len(e.audit)
  BY <1>1
<1> QED BY <1>3, <1>4, <1>5 DEF Spares

\* A step that touches neither the leases nor the log.
LEMMA SparesBeside ==
    ASSUME NEW d0, NEW d, NEW e, NEW now, Spares(d0, d, now),
           e.leases = d.leases, e.audit = d.audit
    PROVE  Spares(d0, e, now)
BY DEF Spares, Kept, Returned

\* A resource whose lease is dead at now, or was given back, may be granted.
LEMMA GrantSpares ==
    ASSUME NEW d0 \in DB, NEW d \in DB, NEW now \in Instant, Spares(d0, d, now),
           NEW r \in Resource, ~Active(d0.leases[r], now) \/ Returned(d0, d, r),
           NEW h \in Holder, NEW ttl \in TTL, NEW action \in GrantAction
    PROVE  Spares(d0, Grant(d, r, h, ttl, now, action), now)
<1> DEFINE e == Grant(d, r, h, ttl, now, action)
           x == [action |-> action, resource |-> r, holder |-> h, token |-> d.next]
<1>1. e \in DB
  BY GrantType
<1>2. e.audit = Append(d.audit, x)
  BY DEF Grant, AppendAudit, PutLease, AllocToken, DB
<1>3. \A s \in Resource \ {r} : e.leases[s] = d.leases[s]
  BY DEF Grant, AppendAudit, PutLease, AllocToken, DB
<1> HIDE DEF e, x
<1>4. Spares(d0, e, now)
  BY <1>1, <1>2, <1>3, SparesStep
<1> QED BY <1>4 DEF e

LEMMA PromoteSpares ==
    ASSUME NEW d0 \in DB, NEW d \in DB, NEW now \in Instant, Spares(d0, d, now),
           NEW r \in Resource, ~Active(d0.leases[r], now) \/ Returned(d0, d, r)
    PROVE  Spares(d0, PromoteWaiterFor(d, r, now), now)
<1>1. CASE PromoteWaiterFor(d, r, now) = d
  BY <1>1
<1>2. ASSUME NEW i \in Pending(d, r), i \in DOMAIN d.waiters, d.waiters[i] \in Waiter,
             PromoteWaiterFor(d, r, now) =
               SetWaiterStatus(Grant(d, r, d.waiters[i].holder, d.waiters[i].ttl, now,
                                     "waiter_grant"),
                               i, "granted", d.next)
      PROVE  Spares(d0, PromoteWaiterFor(d, r, now), now)
  <2> DEFINE g == Grant(d, r, d.waiters[i].holder, d.waiters[i].ttl, now, "waiter_grant")
  <2>1. d.waiters[i].holder \in Holder /\ d.waiters[i].ttl \in TTL
    BY <1>2 DEF Waiter
  <2>2. g \in DB /\ Spares(d0, g, now)
    BY <2>1, GrantType, GrantSpares DEF GrantAction
  <2> HIDE DEF g
  <2>3. /\ SetWaiterStatus(g, i, "granted", d.next).leases = g.leases
        /\ SetWaiterStatus(g, i, "granted", d.next).audit = g.audit
    BY <2>2 DEF SetWaiterStatus, DB
  <2>4. Spares(d0, SetWaiterStatus(g, i, "granted", d.next), now)
    BY <2>2, <2>3, SparesBeside
  <2> QED BY <1>2, <2>4 DEF g
<1> QED BY <1>1, <1>2, PromoteCases

\* A lease may be ended if it is dead at now, or its holder gives it back.
LEMMA EndSpares ==
    ASSUME NEW d0 \in DB, NEW d \in DB, NEW now, Spares(d0, d, now),
           NEW r \in Resource, d.leases[r] # NoLease, NEW action \in EndAction,
           \/ ~Active(d0.leases[r], now)
           \/ action \in {"release", "bulk_release"} /\ d.leases[r] = d0.leases[r]
    PROVE  /\ Spares(d0, EndLease(d, r, action), now)
           /\ \/ ~Active(d0.leases[r], now)
              \/ Returned(d0, EndLease(d, r, action), r)
<1> DEFINE e == EndLease(d, r, action)
           x == [action |-> action, resource |-> r, holder |-> d.leases[r].holder,
                 token |-> d.leases[r].token]
<1>1. e \in DB
  BY EndLeaseType
<1>2. e.audit = Append(d.audit, x)
  BY DEF EndLease, AppendAudit, PutLease, DB
<1>3. \A s \in Resource \ {r} : e.leases[s] = d.leases[s]
  BY EndLeaseLeases
<1>4. ~Active(d0.leases[r], now) \/ Return(d0, r, x)
  BY DEF Return
<1> HIDE DEF e, x
<1>5. Spares(d0, e, now) /\ (Return(d0, r, x) => Returned(d0, e, r))
  BY <1>1, <1>2, <1>3, <1>4, SparesStep
<1> QED BY <1>4, <1>5 DEF e

-----------------------------------------------------------------------------
(* The transactions *)

\* What the open transaction has done spares what is active at its instant, and
\* the resources a batch of grants or a sweep was begun for have no such lease.
LoopSpares ==
    tx # NoTx =>
        /\ Spares(db, tx.work, tx.now)
        /\ tx.op \in {"bulk_acquire", "expire"} =>
               \A i \in DOMAIN tx.asked : ~Active(db.leases[tx.asked[i]], tx.now)

LEMMA UpdateSpares ==
    ASSUME NEW d, Update(d), NEW now, Spares(db, d, now)
    PROVE  Spares(db, db', now) /\ LoopSpares'
BY DEF Update, LoopSpares

\* A lease that stays on its resource under its token.
LEMMA KeepSpares ==
    ASSUME db \in DB, NEW now \in Instant, NEW r \in Resource, NEW l \in Lease,
           l.token = db.leases[r].token, NEW action \in {"renew", "transfer"},
           NEW h \in Holder, NEW t \in Token,
           Update(AppendAudit(PutLease(db, r, l), action, r, h, t))
    PROVE  Spares(db, db', now) /\ LoopSpares'
<1> DEFINE d == AppendAudit(PutLease(db, r, l), action, r, h, t)
           x == [action |-> action, resource |-> r, holder |-> h, token |-> t]
<1>1. d \in DB
  BY PutLeaseType, AppendAuditType DEF AuditAction
<1>2. d.audit = Append(db.audit, x)
  BY DEF AppendAudit, PutLease, DB
<1>3. d.leases[r] = l /\ \A s \in Resource \ {r} : d.leases[s] = db.leases[s]
  BY DEF AppendAudit, PutLease, DB
<1>4. Kept(db, d, r)
  BY <1>3, LeaseNotNull DEF Kept
<1>5. Spares(db, db, now)
  BY SparesRefl
<1> HIDE DEF d, x
<1>6. Spares(db, d, now)
  BY <1>1, <1>2, <1>3, <1>4, <1>5, SparesStep
<1>7. Update(d)
  BY DEF d
<1> QED BY <1>6, <1>7, UpdateSpares

LEMMA LeaseOpsSpare ==
    ASSUME LockInv, NEW r \in Resource, NEW h \in Holder, NEW now \in Instant,
           \/ \E ttl \in TTL : Acquire(r, h, now, ttl)
           \/ \E t \in 1..MaxToken, ttl \in TTL : Renew(r, h, t, now, ttl)
           \/ \E t \in 1..MaxToken : Release(r, h, t, now)
           \/ \E t \in 1..MaxToken, newHolder \in Holder : Transfer(r, h, t, newHolder, now)
           \/ \E ttl \in TTL : EnqueueWaiter(r, h, ttl, now)
    PROVE  Spares(db, db', now) /\ LoopSpares'
<1>a. db \in DB /\ Spares(db, db, now)
  BY LockHere, SparesRefl
<1>1. ASSUME NEW ttl \in TTL, Acquire(r, h, now, ttl)
      PROVE  Spares(db, db', now) /\ LoopSpares'
  <2>1. ~Active(db.leases[r], now) /\ Update(Grant(db, r, h, ttl, now, "acquire"))
    BY <1>1 DEF Acquire
  <2>2. Spares(db, Grant(db, r, h, ttl, now, "acquire"), now)
    BY <1>a, <2>1, GrantSpares DEF GrantAction
  <2> QED BY <2>1, <2>2, UpdateSpares
<1>2. ASSUME NEW t \in 1..MaxToken, NEW ttl \in TTL, Renew(r, h, t, now, ttl)
      PROVE  Spares(db, db', now) /\ LoopSpares'
  <2> DEFINE l == [db.leases[r] EXCEPT !.deadline = now + ttl]
  <2>1. db.leases[r] \in Lease /\ t \in Token
    BY <1>2, <1>a, BoundAssumption DEF Renew, RenewError, DB, Token
  <2>2. l \in Lease /\ l.token = db.leases[r].token
    BY <2>1, TimeAssumption DEF Lease
  <2>3. Update(AppendAudit(PutLease(db, r, l), "renew", r, h, t))
    BY <1>2 DEF Renew
  <2> HIDE DEF l
  <2> QED BY <1>a, <2>1, <2>2, <2>3, KeepSpares
<1>3. ASSUME NEW t \in 1..MaxToken, Release(r, h, t, now)
      PROVE  Spares(db, db', now) /\ LoopSpares'
  <2> DEFINE e == EndLease(db, r, "release")
  <2>1. db.leases[r] # NoLease /\ Update(PromoteWaiterFor(e, r, now))
    BY <1>3 DEF Release, ReleaseError
  <2>2. e \in DB /\ Spares(db, e, now) /\ (~Active(db.leases[r], now) \/ Returned(db, e, r))
    BY <1>a, <2>1, EndLeaseType, EndSpares DEF EndAction
  <2> HIDE DEF e
  <2>3. Spares(db, PromoteWaiterFor(e, r, now), now)
    BY <1>a, <2>2, PromoteSpares
  <2> QED BY <2>1, <2>3, UpdateSpares
<1>4. ASSUME NEW t \in 1..MaxToken, NEW newHolder \in Holder, Transfer(r, h, t, newHolder, now)
      PROVE  Spares(db, db', now) /\ LoopSpares'
  <2> DEFINE l == [db.leases[r] EXCEPT !.holder = newHolder]
  <2>1. db.leases[r] \in Lease /\ t \in Token
    BY <1>4, <1>a, BoundAssumption DEF Transfer, ReleaseError, DB, Token
  <2>2. l \in Lease /\ l.token = db.leases[r].token
    BY <2>1 DEF Lease
  <2>3. Update(AppendAudit(PutLease(db, r, l), "transfer", r, newHolder, t))
    BY <1>4 DEF Transfer
  <2> HIDE DEF l
  <2> QED BY <1>a, <2>1, <2>2, <2>3, KeepSpares
<1>5. ASSUME NEW ttl \in TTL, EnqueueWaiter(r, h, ttl, now)
      PROVE  Spares(db, db', now) /\ LoopSpares'
  <2>1. ASSUME NEW d \in DB, Spares(db, d, now), NEW status, NEW t,
               Update(AddWaiter(d, r, h, ttl, now, status, t))
        PROVE  Spares(db, db', now) /\ LoopSpares'
    <3>1. /\ AddWaiter(d, r, h, ttl, now, status, t).leases = d.leases
          /\ AddWaiter(d, r, h, ttl, now, status, t).audit = d.audit
      BY <2>1 DEF AddWaiter, DB
    <3>2. Spares(db, AddWaiter(d, r, h, ttl, now, status, t), now)
      BY <2>1, <3>1, SparesBeside
    <3> QED BY <2>1, <3>2, UpdateSpares
  <2>2. CASE EnqueuePending(r, h, ttl, now)
    <3>1. Handover(db, r, now) \in DB /\ Spares(db, Handover(db, r, now), now)
      BY <1>a, PromoteType, PromoteSpares DEF Handover
    <3> QED BY <2>1, <2>2, <3>1 DEF EnqueuePending
  <2>3. CASE EnqueueImmediate(r, h, ttl, now)
    <3>1. /\ Grant(db, r, h, ttl, now, "acquire") \in DB
          /\ Spares(db, Grant(db, r, h, ttl, now, "acquire"), now)
      BY <1>a, <2>3, GrantType, GrantSpares DEF GrantAction, EnqueueImmediate
    <3> QED BY <2>1, <2>3, <3>1 DEF EnqueueImmediate
  <2> QED BY <1>5, <2>2, <2>3 DEF EnqueueWaiter
<1> QED BY <1>1, <1>2, <1>3, <1>4, <1>5

LEMMA OtherOpsSpare ==
    ASSUME LockInv, NEW now \in Instant,
           HolderOps(now) \/ \E i \in DOMAIN db.waiters : CancelWaiter(i)
    PROVE  Spares(db, db', now) /\ LoopSpares'
<1>a. db \in DB /\ Spares(db, db, now)
  BY LockHere, SparesRefl
<1>1. ASSUME NEW d, Update(d), d.leases = db.leases, d.audit = db.audit
      PROVE  Spares(db, db', now) /\ LoopSpares'
  <2>1. Spares(db, d, now)
    BY <1>1, <1>a, SparesBeside
  <2> QED BY <1>1, <2>1, UpdateSpares
<1>2. ASSUME NEW h, NEW cap, Update([db EXCEPT !.holders = [db.holders EXCEPT ![h] = cap]])
      PROVE  Spares(db, db', now) /\ LoopSpares'
  <2>1. /\ [db EXCEPT !.holders = [db.holders EXCEPT ![h] = cap]].leases = db.leases
        /\ [db EXCEPT !.holders = [db.holders EXCEPT ![h] = cap]].audit = db.audit
    BY <1>a DEF DB
  <2> QED BY <1>1, <1>2, <2>1
<1>3. ASSUME NEW i, CancelWaiter(i) PROVE Spares(db, db', now) /\ LoopSpares'
  <2>1. /\ SetWaiterStatus(db, i, "cancelled", db.waiters[i].token).leases = db.leases
        /\ SetWaiterStatus(db, i, "cancelled", db.waiters[i].token).audit = db.audit
    BY <1>a DEF SetWaiterStatus, DB
  <2> QED BY <1>1, <1>3, <2>1 DEF CancelWaiter
<1> QED BY <1>2, <1>3 DEF HolderOps, PutHolder, SetQuota, DeleteHolder

LEMMA BulkOpsSpare ==
    ASSUME LockInv, NEW now \in Instant, BulkOps(now) \/ ExpireAll(now)
    PROVE  Spares(db, db', now) /\ LoopSpares'
<1>a. db \in DB /\ Spares(db, db, now)
  BY LockHere, SparesRefl
<1> DEFINE Opened ==
        /\ db' = db /\ tx'.work = db /\ tx'.now = now
        /\ tx'.op \in {"bulk_acquire", "expire"} =>
               \A i \in DOMAIN tx'.asked : ~Active(db.leases[tx'.asked[i]], now)
<1>1. ASSUME NEW h, NEW asked, NEW ttl, BulkAcquireBegin(h, asked, now, ttl) PROVE Opened
  BY <1>1 DEF BulkAcquireBegin, Begin
<1>2. ASSUME NEW h, NEW asked, NEW tokens, BulkReleaseBegin(h, asked, tokens, now) PROVE Opened
  BY <1>2 DEF BulkReleaseBegin, Begin
<1>3. ASSUME NEW asked, ExpireBegin(asked, now) PROVE Opened
  <2>1. \A i \in DOMAIN asked : asked[i] \in Dead(db, now)
    BY <1>3 DEF ExpireBegin
  <2> QED BY <1>3, <2>1 DEF ExpireBegin, Begin, Dead
<1>4. Opened
  BY <1>1, <1>2, <1>3 DEF BulkOps, ExpireAll
<1> QED BY <1>a, <1>4 DEF LoopSpares

\* A call made at now takes no lease that is active at now.
LEMMA CallSpares ==
    ASSUME LockInv, NEW now \in Instant, Call(now)
    PROVE  Spares(db, db', now) /\ LoopSpares'
<1>1. CASE LeaseOps(now)
  BY <1>1, LeaseOpsSpare DEF LeaseOps
<1>2. CASE HolderOps(now) \/ \E i \in DOMAIN db.waiters : CancelWaiter(i)
  BY <1>2, OtherOpsSpare
<1>3. CASE BulkOps(now) \/ ExpireAll(now)
  BY <1>3, BulkOpsSpare
<1> QED BY <1>1, <1>2, <1>3 DEF Call

LEMMA IterateSpares ==
    ASSUME LoopSpares, tx # NoTx, tx \in Tx, NEW todo, NEW d, Iterate(todo, d),
           Spares(db, d, tx.now)
    PROVE  db' = db /\ LoopSpares'
<1>1. /\ db' = db /\ tx'.work = d /\ tx'.now = tx.now
      /\ tx'.op = tx.op /\ tx'.asked = tx.asked
  BY IterateFields
<1> QED BY <1>1 DEF LoopSpares

\* Its loop spares them too.  A batch of releases ends no lease but one that it
\* found on the resource when it began, and that its caller asked to release.
LEMMA TxStepSpares ==
    ASSUME LockInv, LoopSpares, TxStep
    PROVE  \/ db' = db /\ LoopSpares'
           \/ tx' = NoTx /\ Spares(db, db', tx.now)
<1>a. /\ tx # NoTx /\ tx \in Tx /\ db \in DB /\ Spares(db, tx.work, tx.now)
      /\ \A i \in DOMAIN tx.asked : ToDo(tx, tx.done, i) => NotGranted(db, tx.work, tx.asked[i])
  BY DEF LockInv, LoopTurns, LoopSpares, Inv, TypeInv, TypeOK, TxStep, BulkAcquireStep,
         BulkReleaseStep, ExpireStep
<1>b. /\ tx.work \in DB /\ tx.now \in Instant
      /\ tx.asked \in Seq(Resource) /\ tx.done \in Nat
      /\ Len(tx.asked) \in Nat /\ DOMAIN tx.asked = 1..Len(tx.asked)
  BY <1>a DEF Tx
<1>c. ASSUME NEW todo, Commit(todo) PROVE tx' = NoTx /\ Spares(db, db', tx.now)
  BY <1>a, <1>c DEF Commit
<1>1. CASE BulkAcquireStep
  <2> DEFINE k == tx.done + 1
             r == tx.asked[k]
             d == Grant(tx.work, r, tx.holder, tx.ttl, tx.now, "bulk_acquire")
  <2>1. CASE Iterate(Len(tx.asked), d)
    <3>1. k \in DOMAIN tx.asked /\ r \in Resource
      BY <1>b, <2>1 DEF Iterate
    <3>2. tx.holder \in Holder /\ tx.ttl \in TTL /\ tx.op = "bulk_acquire"
      BY <1>1, <1>a DEF Tx, BulkAcquireStep
    <3>3. ~Active(db.leases[r], tx.now)
      BY <1>a, <3>1, <3>2 DEF LoopSpares
    <3>4. Spares(db, d, tx.now)
      BY <1>a, <1>b, <3>1, <3>2, <3>3, GrantSpares DEF GrantAction
    <3> HIDE DEF d
    <3> QED BY <1>a, <2>1, <3>4, IterateSpares
  <2> QED BY <1>1, <1>c, <2>1 DEF BulkAcquireStep
<1>2. CASE BulkReleaseStep
  <2> DEFINE k == tx.done + 1
             r == tx.asked[k]
             e == EndLease(tx.work, r, "bulk_release")
             d == PromoteWaiterFor(e, r, tx.now)
  <2>1. CASE Iterate(Len(tx.asked), d)
    <3>1. k \in DOMAIN tx.asked /\ r \in Resource
      BY <1>b, <2>1 DEF Iterate
    <3>2. tx.op = "bulk_release"
      BY <1>2 DEF BulkReleaseStep
    <3>3. tx.work.leases[r] # NoLease /\ tx.work.leases[r] = db.leases[r]
      BY <1>a, <1>b, <3>1, <3>2 DEF ToDo, NotGranted, LockInv, Inv, TypeInv, LoopInv
    <3>4. /\ e \in DB /\ Spares(db, e, tx.now)
          /\ ~Active(db.leases[r], tx.now) \/ Returned(db, e, r)
      BY <1>a, <1>b, <3>1, <3>3, EndLeaseType, EndSpares DEF EndAction
    <3> HIDE DEF e
    <3>5. Spares(db, d, tx.now)
      BY <1>a, <1>b, <3>1, <3>4, PromoteSpares
    <3> HIDE DEF d
    <3> QED BY <1>a, <2>1, <3>5, IterateSpares
  <2> QED BY <1>2, <1>c, <2>1 DEF BulkReleaseStep
<1>3. CASE ExpireStep
  <2> DEFINE n == Len(tx.asked)
  <2>a. tx.op = "expire" /\ \A i \in DOMAIN tx.asked : ~Active(db.leases[tx.asked[i]], tx.now)
    BY <1>3, <1>a DEF ExpireStep, LoopSpares
  <2>1. CASE tx.done < n /\ Iterate(2 * n, EndLease(tx.work, tx.asked[tx.done + 1], "expire"))
    <3> DEFINE k == tx.done + 1
               r == tx.asked[k]
               d == EndLease(tx.work, r, "expire")
    <3>1. k \in DOMAIN tx.asked /\ r \in Resource
      BY <1>b, <2>1
    <3>2. tx.work.leases[r] # NoLease
      BY <1>a, <1>b, <2>a, <2>1, <3>1 DEF LockInv, Inv, TypeInv, LoopInv
    <3>3. Spares(db, d, tx.now)
      BY <1>a, <1>b, <2>a, <3>1, <3>2, EndSpares DEF EndAction
    <3>4. Iterate(2 * n, d)
      BY <2>1
    <3> HIDE DEF d
    <3> QED BY <1>a, <3>3, <3>4, IterateSpares
  <2>2. CASE n <= tx.done
             /\ Iterate(2 * n, PromoteWaiterFor(tx.work, tx.asked[tx.done + 1 - n], tx.now))
    <3> DEFINE k == tx.done + 1 - n
               r == tx.asked[k]
               d == PromoteWaiterFor(tx.work, r, tx.now)
    <3>1. k \in DOMAIN tx.asked /\ r \in Resource
      BY <1>b, <2>2 DEF Iterate
    <3>2. Spares(db, d, tx.now)
      BY <1>a, <1>b, <2>a, <3>1, PromoteSpares
    <3>3. Iterate(2 * n, d)
      BY <2>2
    <3> HIDE DEF d
    <3> QED BY <1>a, <3>2, <3>3, IterateSpares
  <2> QED BY <1>3, <1>c, <2>1, <2>2 DEF ExpireStep
<1> QED BY <1>1, <1>2, <1>3 DEF TxStep

-----------------------------------------------------------------------------
(* The service *)

SparesInv == LockInv /\ LoopSpares /\ StampsOK /\ TxNow

LEMMA SparesInvInit == SvcInit => SparesInv
<1>1. SvcInit => LoopSpares /\ TxNow
  BY DEF SvcInit, Init, LoopSpares, TxNow
<1>2. SvcInit => LockInv
  BY LockInvInit DEF SvcInit
<1> QED BY <1>1, <1>2, StampsInit DEF SparesInv

\* Each step spares what is active at an instant that the clock has reached.
LEMMA ServiceSpares ==
    ASSUME SparesInv, [SvcNext]_svcVars
    PROVE  LoopSpares' /\ \E now \in Nat : now <= clock /\ Spares(db, db', now)
<1>a. /\ LockInv /\ LoopSpares /\ StampsOK /\ TxNow /\ db \in DB /\ clock \in Nat
      /\ \A n \in Instant : n \in Nat
  BY LockHere, TimeAssumption DEF SparesInv, StampsOK
<1> DEFINE Goal == LoopSpares' /\ \E now \in Nat : now <= clock /\ Spares(db, db', now)
<1>b. CASE db' = db /\ LoopSpares'
  BY <1>a, <1>b, SparesRefl
<1>c. CASE db' = db /\ (tx' = tx \/ tx' = NoTx)
  <2>1. LoopSpares'
    BY <1>a, <1>c DEF LoopSpares
  <2> QED BY <1>b, <1>c, <2>1
<1>1. CASE Tick \/ Boot \/ Listen \/ UNCHANGED svcVars
  BY <1>c, <1>1 DEF Tick, Boot, Listen, svcVars
<1>2. ASSUME NEW p \in Client, ReadClock(p) \/ ServeUnchanged(p) PROVE Goal
  BY <1>c, <1>2 DEF ReadClock, ServeUnchanged
<1>3. ASSUME NEW p \in Client, Serve(p) PROVE Goal
  <2>1. called[p] \in Instant /\ called[p] <= clock /\ Call(called[p])
    BY <1>3, <1>a DEF Serve, StampsOK
  <2>2. Spares(db, db', called[p]) /\ LoopSpares'
    BY <1>a, <2>1, CallSpares
  <2> QED BY <1>a, <2>1, <2>2
<1>4. CASE Work
  <2>1. TxStep /\ tx # NoTx
    BY <1>4 DEF Work, TxStep, BulkAcquireStep, BulkReleaseStep, ExpireStep
  <2>2. CASE db' = db /\ LoopSpares'
    BY <1>b, <2>2
  <2>3. CASE tx' = NoTx /\ Spares(db, db', tx.now)
    BY <1>a, <2>1, <2>3 DEF TxNow, LoopSpares
  <2> QED BY <1>a, <2>1, <2>2, <2>3, TxStepSpares
<1>5. CASE CommitFails \/ Die
  BY <1>c, <1>5 DEF CommitFails, Crash, Die
<1>6. CASE Recover
  <2>1. bootAt \in Instant /\ bootAt <= clock /\ Call(bootAt)
    BY <1>6, <1>a DEF Recover, Call, StampsOK
  <2>2. Spares(db, db', bootAt) /\ LoopSpares'
    BY <1>a, <2>1, CallSpares
  <2> QED BY <1>a, <2>1, <2>2
<1> QED BY <1>1, <1>2, <1>3, <1>4, <1>5, <1>6 DEF SvcNext

LEMMA SparesInvStep == SparesInv /\ [SvcNext]_svcVars => SparesInv'
<1> SUFFICES ASSUME SparesInv, [SvcNext]_svcVars PROVE SparesInv'
  OBVIOUS
<1>1. LockInv /\ StampsOK /\ TxNow /\ TypeOK
  BY DEF SparesInv, LockInv, Inv, TypeInv
<1>2. LockInv'
  BY <1>1, StepImplements, LockInvStep
<1> QED BY <1>1, <1>2, ServiceSpares, StampsStep, TxNowStep DEF SparesInv

\* Nobody loses a lease that the clock says is alive, unless its holder gives it
\* back: not to a request or a sweep whose instant was read before any number of
\* other commits, not to a batch half of whose work is done, not to a crash.
THEOREM NoTenantEvicted == SvcSpec => TenantNotEvicted
<1> DEFINE Step ==
        \A r \in Resource :
            Active(db.leases[r], clock) =>
                \/ db'.leases[r] # NoLease /\ db'.leases[r].token = db.leases[r].token
                \/ GivenBack(r)
<1>1. SparesInv /\ [SvcNext]_svcVars => Step
  <2> SUFFICES ASSUME SparesInv, [SvcNext]_svcVars, NEW r \in Resource,
                      Active(db.leases[r], clock)
               PROVE  \/ db'.leases[r] # NoLease /\ db'.leases[r].token = db.leases[r].token
                      \/ GivenBack(r)
    OBVIOUS
  <2>1. PICK now \in Nat : now <= clock /\ Spares(db, db', now)
    BY ServiceSpares
  <2>2. clock \in Nat /\ db \in DB
    BY LockHere, TimeAssumption DEF SparesInv, StampsOK
  <2>3. Active(db.leases[r], now)
    <3>1. db.leases[r] # NoLease /\ clock < db.leases[r].deadline
      BY DEF Active
    <3>2. db.leases[r].deadline \in Nat
      BY <2>2, <3>1 DEF DB, Lease
    <3> QED BY <2>1, <2>2, <3>1, <3>2 DEF Active
  <2>4. Kept(db, db', r) \/ Returned(db, db', r)
    BY <2>1, <2>3 DEF Spares
  <2>5. Returned(db, db', r) => GivenBack(r)
    BY DEF Returned, Return, GivenBack
  <2> QED BY <2>4, <2>5 DEF Kept
<1>2. SvcSpec => []SparesInv
  BY SparesInvInit, SparesInvStep, PTL DEF SvcSpec
<1> QED BY <1>1, <1>2, PTL DEF SvcSpec, TenantNotEvicted

-----------------------------------------------------------------------------
(* No request is served before the sweep of the restart is committed.  The  *)
(* sweep works with the instant of the boot: as long as it is open it is    *)
(* the only transaction, and when it is not it has left nothing dead.       *)

BootInv ==
    /\ phase \in {"down", "recovering"} => tx = NoTx
    /\ phase = "sweeping" =>
          IF tx = NoTx THEN Dead(db, bootAt) = {}
          ELSE tx.op = "expire" /\ tx.now = bootAt

SweepInv == BatchInv /\ StampsOK /\ BootInv

\* Recover begins the sweep.
LEMMA RecoverBegins ==
    ASSUME db \in DB, StampsOK, Recover
    PROVE  tx' # NoTx /\ tx'.op = "expire" /\ tx'.now = bootAt
<1> DEFINE n == Cardinality(Dead(db, bootAt))
<1>1. n \in Nat
  BY ResourceAssumption, FS_Subset, FS_CardinalityType DEF Dead
<1>2. PICK asked \in Listing(n) : ExpireBegin(asked, bootAt)
  BY DEF Recover, ExpireAll
<1>3. tx' = [op |-> "expire", now |-> bootAt, asked |-> asked, done |-> 0, work |-> db]
  BY <1>2 DEF ExpireBegin, Begin
<1> HIDE DEF n
<1>4. asked \in Seq(Resource) /\ bootAt \in Instant
  BY <1>1, <1>2 DEF Listing, StampsOK
<1>5. tx' \in Tx
  BY <1>3, <1>4 DEF Tx
<1> QED BY <1>3, <1>5, TxAssumption

\* What a sweep commits has no lease that was dead at its instant.
LEMMA SweptClean ==
    ASSUME BatchInv, tx # NoTx, tx.op = "expire", Open, Committing
    PROVE  Dead(db', tx.now) = {}
<1>1. SweptSoFar /\ Untouched /\ db' = tx.work /\ \A i \in DOMAIN tx.asked : i <= tx.done
  BY DEF BatchInv, SoFar, Committing
<1>2. SUFFICES ASSUME NEW r \in Resource, tx.work.leases[r] # NoLease
               PROVE  Active(tx.work.leases[r], tx.now)
  BY <1>1 DEF Dead
<1>3. CASE r \in Dead(db, tx.now)
  <2>1. PICK i \in DOMAIN tx.asked : tx.asked[i] = r
    BY <1>1, <1>3 DEF SweptSoFar
  <2> QED BY <1>1, <1>2, <2>1 DEF SweptSoFar, GivenToWaiter
<1>4. CASE r \notin Dead(db, tx.now)
  <2>1. \A i \in DOMAIN tx.asked : tx.asked[i] # r
    BY <1>1, <1>4 DEF SweptSoFar
  <2>2. tx.work.leases[r] = db.leases[r]
    BY <1>1, <2>1 DEF Untouched
  <2> QED BY <1>2, <1>4, <2>2 DEF Dead
<1> QED BY <1>3, <1>4

LEMMA BootInvStep ==
    ASSUME SweepInv, [SvcNext]_svcVars
    PROVE  BootInv'
<1>a. BatchInv /\ StampsOK /\ BootInv /\ db \in DB
  BY LockHere DEF SweepInv, BatchInv
<1> DEFINE Same == db' = db /\ tx' = tx /\ phase' = phase /\ bootAt' = bootAt
<1>b. Same => BootInv'
  BY <1>a DEF BootInv, Dead
<1>1. CASE Tick \/ UNCHANGED svcVars
  BY <1>b, <1>1 DEF Tick, svcVars
<1>2. ASSUME NEW p \in Client, ReadClock(p) \/ Serve(p) \/ ServeUnchanged(p) PROVE BootInv'
  BY <1>2 DEF ReadClock, Serve, ServeUnchanged, BootInv
<1>3. CASE CommitFails
  BY <1>3 DEF CommitFails, BootInv
<1>4. CASE Die \/ Listen
  BY <1>4 DEF Die, Listen, BootInv
<1>5. CASE Boot
  BY <1>a, <1>5 DEF Boot, BootInv
<1>6. CASE Recover
  <2>1. tx' # NoTx /\ tx'.op = "expire" /\ tx'.now = bootAt
    BY <1>a, <1>6, RecoverBegins
  <2> QED BY <1>6, <2>1 DEF Recover, BootInv
<1>7. CASE Work
  <2>1. TxStep /\ phase' = phase /\ bootAt' = bootAt
    BY <1>7 DEF Work
  <2>2. Open /\ LockInv
    BY <1>a, <2>1, TxStepCases DEF BatchInv
  <2>3. tx # NoTx
    BY <2>2 DEF Open
  <2>4. SUFFICES ASSUME phase = "sweeping" PROVE BootInv'
    BY <1>a, <2>1, <2>3 DEF BootInv
  <2>5. tx.op = "expire" /\ tx.now = bootAt
    BY <1>a, <2>3, <2>4 DEF BootInv
  <2>6. CASE Committing
    <3>1. Dead(db', bootAt) = {}
      BY <1>a, <2>2, <2>3, <2>5, <2>6, SweptClean
    <3>2. tx' = NoTx /\ Dead(db, bootAt)' = {}
      BY <2>1, <2>6, <3>1 DEF Committing, Dead
    <3> QED BY <2>1, <2>4, <3>2 DEF BootInv
  <2>7. ASSUME NEW k \in DOMAIN tx.asked,
               Acquiring(k) \/ Releasing(k) \/ Reaping(k) \/ Promoting(k)
        PROVE  BootInv'
    <3>1. tx'.op = tx.op /\ tx'.now = tx.now
      BY <2>7 DEF Acquiring, Releasing, Reaping, Promoting, Iterated
    <3>2. tx' # NoTx
      BY <2>2, <2>7, StaysOpen
    <3> QED BY <2>1, <2>4, <2>5, <3>1, <3>2 DEF BootInv
  <2> QED BY <2>1, <2>2, <2>6, <2>7, TxStepCases
<1> QED BY <1>1, <1>2, <1>3, <1>4, <1>5, <1>6, <1>7 DEF SvcNext

LEMMA SweepInvInit == SvcInit => SweepInv
<1>1. SvcInit => BatchInv /\ BootInv
  BY BatchInvInit DEF SvcInit, Init, BootInv
<1> QED BY <1>1, StampsInit DEF SweepInv

LEMMA SweepInvStep == SweepInv /\ [SvcNext]_svcVars => SweepInv'
<1> SUFFICES ASSUME SweepInv, [SvcNext]_svcVars PROVE SweepInv'
  OBVIOUS
<1>1. BatchInv'
  BY StepImplements, BatchInvStep DEF SweepInv
<1> QED BY <1>1, StampsStep, BootInvStep DEF SweepInv

\* After a kill at any point, no request is served while a lease that was dead
\* when main started is still in the table.
THEOREM SweepBeforeService == SvcSpec => SweptBeforeServing
<1>1. SweepInv /\ [SvcNext]_svcVars =>
          (phase # "serving" /\ phase' = "serving" => tx = NoTx /\ Dead(db, bootAt) = {})
  BY DEF SweepInv, BootInv, SvcNext, Tick, ReadClock, Serve, ServeUnchanged, Work, CommitFails,
         Die, Boot, Recover, Listen, svcVars
<1> QED BY <1>1, SweepInvInit, SweepInvStep, PTL DEF SvcSpec, SweptBeforeServing

-----------------------------------------------------------------------------
(* No token is on two resources *)

Distinct(d) ==
    \A r, s \in Resource :
        d.leases[r] # NoLease /\ d.leases[s] # NoLease /\ d.leases[r].token = d.leases[s].token
            => r = s

\* A step that issues tokens is a turn-over.
LEMMA IssuesByTurns ==
    ASSUME LockInv, [Next]_vars
    PROVE  db'.next = db.next \/ Turns(db, db')
<1>a. db \in DB
  BY LockHere
<1>1. CASE TurnStep \/ UNCHANGED db
  BY <1>1 DEF TurnStep
<1>2. ASSUME NEW now \in Instant, Call(now) PROVE db'.next = db.next \/ Turns(db, db')
  <2>1. ASSUME NEW r \in Resource, NEW h \in Holder,
               \/ \E ttl \in TTL : Acquire(r, h, now, ttl)
               \/ \E t \in 1..MaxToken, ttl \in TTL : Renew(r, h, t, now, ttl)
               \/ \E t \in 1..MaxToken : Release(r, h, t, now)
               \/ \E ttl \in TTL : EnqueueWaiter(r, h, ttl, now)
        PROVE  TurnStep
    BY <2>1, LeaseOpsTurn
  <2>2. ASSUME NEW r \in Resource, NEW h \in Holder, NEW t \in 1..MaxToken,
               NEW newHolder \in Holder, Transfer(r, h, t, newHolder, now)
        PROVE  db'.next = db.next
    BY <1>a, <2>2 DEF Transfer, Update, AppendAudit, PutLease, DB
  <2>3. CASE LeaseOps(now)
    BY <1>1, <2>1, <2>2, <2>3 DEF LeaseOps
  <2>4. CASE HolderOps(now) \/ \E i \in DOMAIN db.waiters : CancelWaiter(i)
    BY <1>1, <2>4, OtherOpsTurn
  <2>5. CASE BulkOps(now) \/ ExpireAll(now)
    BY <1>1, <2>5, BulkOpsTurn
  <2> QED BY <1>2, <2>3, <2>4, <2>5 DEF Call
<1>3. CASE TxStep
  BY <1>1, <1>3, TxStepTurns
<1>4. CASE Crash \/ UNCHANGED vars
  BY <1>1, <1>4 DEF Crash, vars
<1> QED BY <1>2, <1>3, <1>4 DEF Next

LEMMA DistinctStep ==
    ASSUME LockInv, [Next]_vars, Distinct(db)
    PROVE  Distinct(db')
<1>1. Inv' /\ Newer(db, db')
  BY InvStep DEF LockInv
<1>2. db \in DB /\ db' \in DB /\ Issued(db) /\ db.next \in Nat /\ db'.next \in Nat
  BY <1>1, LockHere DEF Inv, TypeInv, TypeOK, DB, Token
<1>3. SUFFICES ASSUME NEW r \in Resource, NEW s \in Resource,
                      db'.leases[r] # NoLease, db'.leases[s] # NoLease,
                      db'.leases[r].token = db'.leases[s].token, r # s
               PROVE  FALSE
  BY DEF Distinct
<1>4. \A u \in {r, s} :
          \/ db.leases[u] # NoLease /\ db.leases[u].token = db'.leases[u].token
             /\ db.leases[u].token < db.next /\ db.leases[u].token \in Nat
          \/ FreshSince(db, db', u)
  BY <1>1, <1>2, <1>3 DEF Newer, FreshSince, Issued, DB, Lease, Token
<1>5. CASE \A u \in {r, s} : FreshSince(db, db', u)
  <2>1. db'.leases[r].token \in db.next .. db'.next - 1
    BY <1>5 DEF FreshSince
  <2>2. db'.next # db.next
    BY <1>2, <2>1
  <2>3. IssuedOnce(db, db')
    BY <2>2, IssuesByTurns DEF Turns
  <2>4. PICK u \in Resource :
            \A v \in Resource \ {u} :
                FreshSince(db, db', v) => db'.leases[v].token # db'.leases[r].token
    BY <2>1, <2>3 DEF IssuedOnce
  <2> QED BY <1>3, <1>5, <2>4
<1>6. CASE \A u \in {r, s} : ~FreshSince(db, db', u)
  BY <1>3, <1>4, <1>6 DEF Distinct
<1>7. ASSUME NEW u \in {r, s}, NEW v \in {r, s}, FreshSince(db, db', u), ~FreshSince(db, db', v)
      PROVE  FALSE
  <2>1. db'.leases[u].token \in db.next .. db'.next - 1
    BY <1>7 DEF FreshSince
  <2>2. db'.leases[v].token \in Nat /\ db'.leases[v].token < db.next
    BY <1>4, <1>7
  <2>3. db'.leases[u].token = db'.leases[v].token
    BY <1>3
  <2> QED BY <1>2, <2>1, <2>2, <2>3
<1> QED BY <1>5, <1>6, <1>7
=============================================================================
