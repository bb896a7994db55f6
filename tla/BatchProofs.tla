----------------------------- MODULE BatchProofs -----------------------------
(***************************************************************************)
(* What the transactions with a loop promise when they commit: BulkAcquire *)
(* and BulkRelease are all or nothing, a sweep is complete, no transaction *)
(* lifts a holder over its quota, and one that frees a resource leaves its *)
(* waiter only at its cap.  For every set of resources, holders, instants  *)
(* and caps, for batches of any length and queues of any length.           *)
(*                                                                         *)
(* Each of them is a claim about the last iteration, so what is inductive  *)
(* is a claim about how far the loop has come: the invariants here speak   *)
(* of the resources that the open transaction has done with, and, for the  *)
(* checks that it made before its loop, of those it has yet to visit.      *)
(***************************************************************************)
EXTENDS WaiterProofs

-----------------------------------------------------------------------------
(* What the functions a transaction is made of leave behind, by bucket *)

\* The lease that a grant writes.
NewLease(d, h, ttl, now) ==
    [holder |-> h, token |-> d.next, acquired |-> now, deadline |-> now + ttl]

\* e is d but for the lease on r.
OnlyAt(d, e, r) == \A s \in Resource \ {r} : e.leases[s] = d.leases[s]

LEMMA NewLeaseType ==
    ASSUME NEW d \in DB, NEW h \in Holder, NEW ttl \in TTL, NEW now \in Instant
    PROVE  /\ NewLease(d, h, ttl, now) \in Lease
           /\ NewLease(d, h, ttl, now) # NoLease
           /\ Active(NewLease(d, h, ttl, now), now)
<1>1. NewLease(d, h, ttl, now) \in Lease
  BY TimeAssumption DEF NewLease, Lease, DB
<1>2. NewLease(d, h, ttl, now) # NoLease
  BY <1>1, LeaseNotNull
<1>3. now < now + ttl
  BY TimeAssumption
<1> QED BY <1>1, <1>2, <1>3 DEF NewLease, Active

LEMMA GrantFields ==
    ASSUME NEW d \in DB, NEW r \in Resource, NEW h, NEW ttl, NEW now, NEW action
    PROVE  LET e == Grant(d, r, h, ttl, now, action) IN
           /\ e.leases[r] = NewLease(d, h, ttl, now) /\ OnlyAt(d, e, r)
           /\ e.next = d.next + 1 /\ e.waiters = d.waiters /\ e.holders = d.holders
BY DEF Grant, AppendAudit, PutLease, AllocToken, DB, NewLease, OnlyAt

LEMMA EndFields ==
    ASSUME NEW d \in DB, NEW r \in Resource, NEW action
    PROVE  LET e == EndLease(d, r, action) IN
           /\ e.leases[r] = NoLease /\ OnlyAt(d, e, r)
           /\ e.next = d.next /\ e.waiters = d.waiters /\ e.holders = d.holders
BY DEF EndLease, AppendAudit, PutLease, DB, OnlyAt

\* Waiter i is granted the lease on r.
PromotedAt(d, e, r, now, i) ==
    /\ i \in Pending(d, r) /\ i \in DOMAIN d.waiters
    /\ d.waiters[i] \in Waiter
    /\ d.waiters[i].holder \in Holder /\ d.waiters[i].ttl \in TTL
    /\ WithinQuota(d, d.waiters[i].holder, now, 1)
    /\ e.leases[r] = NewLease(d, d.waiters[i].holder, d.waiters[i].ttl, now)
    /\ OnlyAt(d, e, r)
    /\ e.next = d.next + 1 /\ e.holders = d.holders
    /\ e.waiters = [d.waiters EXCEPT ![i] = [d.waiters[i] EXCEPT !.status = "granted",
                                                                 !.token = d.next]]

LEMMA PromoteFields ==
    ASSUME NEW d \in DB, NEW r \in Resource, NEW now \in Instant
    PROVE  \/ PromoteWaiterFor(d, r, now) = d
           \/ \E i : PromotedAt(d, PromoteWaiterFor(d, r, now), r, now, i)
<1> SUFFICES ASSUME NEW i \in Pending(d, r), i \in DOMAIN d.waiters, d.waiters[i] \in Waiter,
                    WithinQuota(d, d.waiters[i].holder, now, 1),
                    PromoteWaiterFor(d, r, now) =
                      SetWaiterStatus(Grant(d, r, d.waiters[i].holder, d.waiters[i].ttl,
                                            now, "waiter_grant"),
                                      i, "granted", d.next)
             PROVE  PromotedAt(d, PromoteWaiterFor(d, r, now), r, now, i)
  BY PromoteCases
<1> DEFINE g == Grant(d, r, d.waiters[i].holder, d.waiters[i].ttl, now, "waiter_grant")
           e == SetWaiterStatus(g, i, "granted", d.next)
<1>1. d.waiters[i].holder \in Holder /\ d.waiters[i].ttl \in TTL
  BY DEF Waiter
<1>2. g \in DB
  BY <1>1, GrantType DEF GrantAction
<1>3. /\ g.leases[r] = NewLease(d, d.waiters[i].holder, d.waiters[i].ttl, now)
      /\ OnlyAt(d, g, r)
      /\ g.next = d.next + 1 /\ g.waiters = d.waiters /\ g.holders = d.holders
  BY GrantFields
<1> HIDE DEF g
<1>4. /\ e.leases = g.leases /\ e.next = g.next /\ e.holders = g.holders
      /\ e.waiters = [g.waiters EXCEPT ![i] = [g.waiters[i] EXCEPT !.status = "granted",
                                                                   !.token = d.next]]
  BY <1>2 DEF SetWaiterStatus, DB
<1>5. PromoteWaiterFor(d, r, now) = e
  BY DEF g
<1> HIDE DEF e
<1> QED BY <1>1, <1>3, <1>4, <1>5 DEF PromotedAt, OnlyAt

LEMMA PromotedWaiters ==
    ASSUME NEW d \in DB, NEW e, NEW r \in Resource, NEW now \in Instant, NEW i,
           PromotedAt(d, e, r, now, i)
    PROVE  /\ DOMAIN e.waiters = DOMAIN d.waiters
           /\ d.waiters[i].resource = r /\ d.waiters[i].status = "pending"
           /\ e.waiters[i].status = "granted" /\ e.waiters[i].token = d.next
           /\ \A j \in DOMAIN d.waiters \ {i} : e.waiters[j] = d.waiters[j]
BY DEF PromotedAt, Pending, Waiter

-----------------------------------------------------------------------------
(* The steps of an open transaction *)

\* An iteration that leaves the copy as d.
Copied(d) == tx' = [tx EXCEPT !.work = d, !.done = tx.done + 1]

Iterated(d) ==
    /\ Copied(d)
    /\ db' = db /\ tx'.work = d /\ tx'.done = tx.done + 1
    /\ tx'.op = tx.op /\ tx'.asked = tx.asked /\ tx'.now = tx.now
    /\ tx.op = "bulk_acquire" => tx'.holder = tx.holder

Acquiring(k) ==
    /\ tx.op = "bulk_acquire" /\ k = tx.done + 1
    /\ tx.holder \in Holder /\ tx.ttl \in TTL
    /\ NotGranted(db, tx.work, tx.asked[k])
    /\ Iterated(Grant(tx.work, tx.asked[k], tx.holder, tx.ttl, tx.now, "bulk_acquire"))

Releasing(k) ==
    /\ tx.op = "bulk_release" /\ k = tx.done + 1
    /\ tx.work.leases[tx.asked[k]] # NoLease
    /\ tx.work.leases[tx.asked[k]] = db.leases[tx.asked[k]]
    /\ Iterated(PromoteWaiterFor(EndLease(tx.work, tx.asked[k], "bulk_release"),
                                 tx.asked[k], tx.now))

Reaping(k) ==
    /\ tx.op = "expire" /\ k = tx.done + 1
    /\ tx.work.leases[tx.asked[k]] # NoLease
    /\ tx.work.leases[tx.asked[k]] = db.leases[tx.asked[k]]
    /\ Iterated(EndLease(tx.work, tx.asked[k], "expire"))

Promoting(k) ==
    /\ tx.op = "expire" /\ Len(tx.asked) <= tx.done /\ k = tx.done + 1 - Len(tx.asked)
    /\ NotGranted(db, tx.work, tx.asked[k])
    /\ Iterated(PromoteWaiterFor(tx.work, tx.asked[k], tx.now))

\* The commit after the last iteration: nothing is left to do.
Committing ==
    /\ \A i \in DOMAIN tx.asked : i <= tx.done /\ ~ToDo(tx, tx.done, i)
    /\ tx.done = IF tx.op = "expire" THEN 2 * Len(tx.asked) ELSE Len(tx.asked)
    /\ db' = tx.work /\ tx' = NoTx

\* What is known of an open transaction, whatever its loop.
Open ==
    /\ tx # NoTx /\ tx \in Tx /\ tx.op \in {"bulk_acquire", "bulk_release", "expire"}
    /\ db \in DB /\ tx.work \in DB /\ tx.now \in Instant
    /\ tx.asked \in Seq(Resource) /\ tx.done \in Nat
    /\ Len(tx.asked) \in Nat /\ DOMAIN tx.asked = 1 .. Len(tx.asked)
    /\ \A i \in DOMAIN tx.asked : tx.asked[i] \in Resource
    /\ \A i, j \in DOMAIN tx.asked : tx.asked[i] = tx.asked[j] => i = j
    /\ Issued(db) /\ Turns(db, tx.work)

LEMMA OpenTx ==
    ASSUME LockInv, tx # NoTx
    PROVE  Open
<1>1. tx \in Tx /\ db \in DB /\ LoopInv
  BY DEF LockInv, Inv, TypeInv, TypeOK
<1>2. /\ tx.work \in DB /\ tx.now \in Instant /\ tx.asked \in Seq(Resource) /\ tx.done \in Nat
      /\ tx.op \in {"bulk_acquire", "bulk_release", "expire"}
  BY <1>1 DEF Tx
<1>3. /\ Len(tx.asked) \in Nat /\ DOMAIN tx.asked = 1 .. Len(tx.asked)
      /\ \A i \in DOMAIN tx.asked : tx.asked[i] \in Resource
  BY <1>2
<1> QED BY <1>1, <1>2, <1>3 DEF Open, LoopInv, LockInv, LoopTurns

\* What the loop has yet to visit is as it was when the loop began.
LEMMA Unvisited ==
    ASSUME LockInv, tx # NoTx, NEW k \in DOMAIN tx.asked, ToDo(tx, tx.done, k)
    PROVE  NotGranted(db, tx.work, tx.asked[k])
BY DEF LockInv, LoopTurns

\* Every step of an open transaction is the iteration of one resource, or the
\* commit that follows the last one.
LEMMA TxStepCases ==
    ASSUME LockInv, TxStep
    PROVE  /\ Open
           /\ \/ Committing
              \/ \E k \in DOMAIN tx.asked :
                    Acquiring(k) \/ Releasing(k) \/ Reaping(k) \/ Promoting(k)
<1>1. tx # NoTx
  BY DEF TxStep, BulkAcquireStep, BulkReleaseStep, ExpireStep
<1>2. Open
  BY <1>1, OpenTx
<1>3. /\ tx \in Tx /\ tx.done \in Nat /\ Len(tx.asked) \in Nat
      /\ DOMAIN tx.asked = 1 .. Len(tx.asked)
  BY <1>2 DEF Open
<1>4. ASSUME NEW todo, NEW d, Iterate(todo, d) PROVE Iterated(d)
  <2>1. /\ db' = db /\ tx'.work = d /\ tx'.done = tx.done + 1
        /\ tx'.op = tx.op /\ tx'.asked = tx.asked /\ tx'.now = tx.now
    BY <1>3, <1>4, IterateFields
  <2>2. ASSUME tx.op = "bulk_acquire" PROVE tx'.holder = tx.holder
    <3>1. tx' = [tx EXCEPT !.work = d, !.done = tx.done + 1]
      BY <1>4 DEF Iterate
    <3> QED BY <1>3, <2>2, <3>1 DEF Tx
  <2>3. Copied(d)
    BY <1>4 DEF Iterate, Copied
  <2> QED BY <2>1, <2>2, <2>3 DEF Iterated
<1>5. ASSUME NEW k \in DOMAIN tx.asked, ToDo(tx, tx.done, k), tx.done < k,
             tx.op # "bulk_acquire"
      PROVE  /\ tx.work.leases[tx.asked[k]] # NoLease
             /\ tx.work.leases[tx.asked[k]] = db.leases[tx.asked[k]]
  <2>1. tx.work.leases[tx.asked[k]] # NoLease
    BY <1>1, <1>5 DEF LockInv, Inv, TypeInv, LoopInv
  <2> QED BY <1>1, <1>5, <2>1, Unvisited DEF NotGranted
<1>6. CASE BulkAcquireStep
  <2>1. tx.op = "bulk_acquire" /\ tx.holder \in Holder /\ tx.ttl \in TTL
    BY <1>3, <1>6 DEF BulkAcquireStep, Tx
  <2> DEFINE k == tx.done + 1
             d == Grant(tx.work, tx.asked[k], tx.holder, tx.ttl, tx.now, "bulk_acquire")
  <2>2. CASE Iterate(Len(tx.asked), d)
    <3>1. k \in DOMAIN tx.asked
      BY <1>3, <2>2 DEF Iterate
    <3>2. Iterated(d)
      BY <1>4, <2>2
    <3>a. NotGranted(db, tx.work, tx.asked[k])
      BY <1>1, <1>3, <2>1, <3>1, Unvisited DEF ToDo
    <3>3. Acquiring(k)
      BY <2>1, <3>2, <3>a DEF Acquiring
    <3> QED BY <1>2, <3>1, <3>3
  <2>3. CASE Commit(Len(tx.asked))
    <3>1. Committing
      BY <1>3, <2>1, <2>3 DEF Commit, Committing, ToDo
    <3> QED BY <1>2, <3>1
  <2> QED BY <1>6, <2>2, <2>3 DEF BulkAcquireStep
<1>7. CASE BulkReleaseStep
  <2>1. tx.op = "bulk_release"
    BY <1>7 DEF BulkReleaseStep
  <2> DEFINE k == tx.done + 1
             d == PromoteWaiterFor(EndLease(tx.work, tx.asked[k], "bulk_release"),
                                   tx.asked[k], tx.now)
  <2>2. CASE Iterate(Len(tx.asked), d)
    <3>1. k \in DOMAIN tx.asked
      BY <1>3, <2>2 DEF Iterate
    <3>2. Iterated(d)
      BY <1>4, <2>2
    <3>3. ToDo(tx, tx.done, k) /\ tx.done < k
      BY <1>3, <2>1 DEF ToDo
    <3>4. Releasing(k)
      BY <1>5, <2>1, <3>1, <3>2, <3>3 DEF Releasing
    <3> QED BY <1>2, <3>1, <3>4
  <2>3. CASE Commit(Len(tx.asked))
    <3>1. Committing
      BY <1>3, <2>1, <2>3 DEF Commit, Committing, ToDo
    <3> QED BY <1>2, <3>1
  <2> QED BY <1>7, <2>2, <2>3 DEF BulkReleaseStep
<1>8. CASE ExpireStep
  <2> DEFINE n == Len(tx.asked)
  <2>1. tx.op = "expire"
    BY <1>8 DEF ExpireStep
  <2>2. CASE tx.done < n /\ Iterate(2 * n, EndLease(tx.work, tx.asked[tx.done + 1], "expire"))
    <3> DEFINE k == tx.done + 1
    <3>1. k \in DOMAIN tx.asked
      BY <1>3, <2>2
    <3>2. Iterated(EndLease(tx.work, tx.asked[k], "expire"))
      BY <1>4, <2>2
    <3>3. ToDo(tx, tx.done, k) /\ tx.done < k
      BY <1>3, <2>1 DEF ToDo
    <3>4. Reaping(k)
      BY <1>5, <2>1, <3>1, <3>2, <3>3 DEF Reaping
    <3> QED BY <1>2, <3>1, <3>4
  <2>3. CASE n <= tx.done
             /\ Iterate(2 * n, PromoteWaiterFor(tx.work, tx.asked[tx.done + 1 - n], tx.now))
    <3> DEFINE k == tx.done + 1 - n
    <3>1. k \in DOMAIN tx.asked
      BY <1>3, <2>3 DEF Iterate
    <3>2. Iterated(PromoteWaiterFor(tx.work, tx.asked[k], tx.now))
      BY <1>4, <2>3
    <3>3. ToDo(tx, tx.done, k)
      BY <1>3, <2>1, <2>3 DEF ToDo
    <3>4. NotGranted(db, tx.work, tx.asked[k])
      BY <1>1, <3>1, <3>3, Unvisited
    <3>5. Promoting(k)
      BY <2>1, <2>3, <3>2, <3>4 DEF Promoting
    <3> QED BY <1>2, <3>1, <3>5
  <2>4. CASE Commit(2 * n)
    <3>1. Committing
      BY <1>3, <2>1, <2>4 DEF Commit, Committing, ToDo
    <3> QED BY <1>2, <3>1
  <2> QED BY <1>8, <2>2, <2>3, <2>4 DEF ExpireStep
<1> QED BY <1>6, <1>7, <1>8 DEF TxStep

\* After an iteration it is still open.
LEMMA StaysOpen ==
    ASSUME Open, NEW k \in DOMAIN tx.asked,
           Acquiring(k) \/ Releasing(k) \/ Reaping(k) \/ Promoting(k)
    PROVE  tx' \in Tx /\ tx' # NoTx
<1>1. tx.asked[k] \in Resource /\ tx.work \in DB /\ tx.now \in Instant
  BY DEF Open
<1>2. ASSUME NEW d \in DB, Iterated(d) PROVE tx' \in Tx
  <2>1. tx' = [tx EXCEPT !.work = d, !.done = tx.done + 1] /\ tx.done + 1 \in Nat /\ tx \in Tx
    BY <1>2 DEF Iterated, Copied, Open
  <2>2. CASE tx.op = "bulk_acquire"
    BY <2>1, <2>2 DEF Tx
  <2>3. CASE tx.op = "bulk_release"
    BY <2>1, <2>3 DEF Tx
  <2>4. CASE tx.op = "expire"
    BY <2>1, <2>4 DEF Tx
  <2> QED BY <2>2, <2>3, <2>4 DEF Open
<1>3. CASE Acquiring(k)
  <2>1. Grant(tx.work, tx.asked[k], tx.holder, tx.ttl, tx.now, "bulk_acquire") \in DB
    BY <1>1, <1>3, GrantType DEF Acquiring, GrantAction
  <2> QED BY <1>2, <1>3, <2>1, TxAssumption DEF Acquiring
<1>4. CASE Releasing(k)
  <2>1. EndLease(tx.work, tx.asked[k], "bulk_release") \in DB
    BY <1>1, <1>4, EndLeaseType DEF Releasing, EndAction
  <2>2. PromoteWaiterFor(EndLease(tx.work, tx.asked[k], "bulk_release"), tx.asked[k], tx.now) \in DB
    BY <1>1, <2>1, PromoteType
  <2> QED BY <1>2, <1>4, <2>2, TxAssumption DEF Releasing
<1>5. CASE Reaping(k)
  <2>1. EndLease(tx.work, tx.asked[k], "expire") \in DB
    BY <1>1, <1>5, EndLeaseType DEF Reaping, EndAction
  <2> QED BY <1>2, <1>5, <2>1, TxAssumption DEF Reaping
<1>6. CASE Promoting(k)
  <2>1. PromoteWaiterFor(tx.work, tx.asked[k], tx.now) \in DB
    BY <1>1, PromoteType
  <2> QED BY <1>2, <1>6, <2>1, TxAssumption DEF Promoting
<1> QED BY <1>3, <1>4, <1>5, <1>6

\* Only the open transaction itself commits while it is open.
LEMMA CommitsItself ==
    ASSUME [Next]_vars, tx # NoTx, db' # db
    PROVE  TxStep
<1>1. ASSUME NEW now \in Instant, Call(now) PROVE FALSE
  <2>1. ASSUME NEW d, Update(d) PROVE FALSE
    BY <2>1 DEF Update
  <2>2. ASSUME NEW t, NEW grants, NEW ended, Begin(t, grants, ended) PROVE FALSE
    BY <2>2 DEF Begin
  <2>3. CASE LeaseOps(now)
    BY <2>1, <2>3 DEF LeaseOps, Acquire, Renew, Release, Transfer, EnqueueWaiter,
                      EnqueuePending, EnqueueImmediate
  <2>4. CASE HolderOps(now) \/ \E i \in DOMAIN db.waiters : CancelWaiter(i)
    BY <2>1, <2>4 DEF HolderOps, PutHolder, SetQuota, DeleteHolder, CancelWaiter
  <2>5. CASE BulkOps(now) \/ ExpireAll(now)
    BY <2>2, <2>5 DEF BulkOps, ExpireAll, BulkAcquireBegin, BulkReleaseBegin, ExpireBegin
  <2> QED BY <1>1, <2>3, <2>4, <2>5 DEF Call
<1> QED BY <1>1 DEF Next, Crash, vars

\* The three ways a transaction with a loop begins.
LEMMA BulkBegins ==
    ASSUME NEW now \in Instant, BulkOps(now) \/ ExpireAll(now)
    PROVE  /\ db' = db /\ tx'.work = db /\ tx'.done = 0 /\ tx'.now = now
           /\ \/ /\ tx'.op = "bulk_acquire" /\ tx'.holder \in Holder
                 /\ WithinQuota(db, tx'.holder, now, Len(tx'.asked))
              \/ tx'.op = "bulk_release"
              \/ /\ tx'.op = "expire"
                 /\ {tx'.asked[i] : i \in DOMAIN tx'.asked} = Dead(db, now)
<1>1. ASSUME NEW h \in Holder, NEW asked, NEW ttl, BulkAcquireBegin(h, asked, now, ttl)
      PROVE  /\ db' = db /\ tx'.work = db /\ tx'.done = 0 /\ tx'.now = now
             /\ tx'.op = "bulk_acquire" /\ tx'.holder \in Holder
             /\ WithinQuota(db, tx'.holder, now, Len(tx'.asked))
  BY <1>1 DEF BulkAcquireBegin, Begin
<1>2. ASSUME NEW h, NEW asked, NEW tokens, BulkReleaseBegin(h, asked, tokens, now)
      PROVE  /\ db' = db /\ tx'.work = db /\ tx'.done = 0 /\ tx'.now = now
             /\ tx'.op = "bulk_release"
  BY <1>2 DEF BulkReleaseBegin, Begin
<1>3. ASSUME NEW asked, ExpireBegin(asked, now)
      PROVE  /\ db' = db /\ tx'.work = db /\ tx'.done = 0 /\ tx'.now = now
             /\ tx'.op = "expire"
             /\ {tx'.asked[i] : i \in DOMAIN tx'.asked} = Dead(db, now)
  BY <1>3 DEF ExpireBegin, Begin
<1> QED BY <1>1, <1>2, <1>3 DEF BulkOps, ExpireAll

\* A step of the store that leaves a transaction open begins it on the
\* database, takes an iteration of it, or leaves it as it was.
LEMMA OpenSteps ==
    ASSUME LockInv, [Next]_vars, tx' # NoTx
    PROVE  \/ \E now \in Instant : BulkOps(now) \/ ExpireAll(now)
           \/ /\ tx # NoTx /\ Open
              /\ \E k \in DOMAIN tx.asked :
                    Acquiring(k) \/ Releasing(k) \/ Reaping(k) \/ Promoting(k)
           \/ UNCHANGED <<db, tx>>
<1>1. ASSUME NEW now \in Instant, Call(now), ~(BulkOps(now) \/ ExpireAll(now)) PROVE FALSE
  <2>1. ASSUME NEW d, Update(d) PROVE FALSE
    BY <2>1 DEF Update
  <2>2. CASE LeaseOps(now)
    BY <2>1, <2>2 DEF LeaseOps, Acquire, Renew, Release, Transfer, EnqueueWaiter,
                      EnqueuePending, EnqueueImmediate
  <2>3. CASE HolderOps(now) \/ \E i \in DOMAIN db.waiters : CancelWaiter(i)
    BY <2>1, <2>3 DEF HolderOps, PutHolder, SetQuota, DeleteHolder, CancelWaiter
  <2> QED BY <1>1, <2>2, <2>3 DEF Call
<1>2. CASE TxStep
  <2>1. ~Committing
    BY DEF Committing
  <2> QED BY <1>2, <2>1, TxStepCases DEF Open
<1>3. ~Crash
  BY DEF Crash
<1> QED BY <1>1, <1>2, <1>3 DEF Next, vars

-----------------------------------------------------------------------------
(* All or nothing *)

\* A loop touches only what it was asked to.
Untouched ==
    \A r \in Resource :
        (\A i \in DOMAIN tx.asked : tx.asked[i] # r) => tx.work.leases[r] = db.leases[r]

AcquiredSoFar ==
    /\ tx.done <= Len(tx.asked)
    /\ tx.work.next = db.next + tx.done
    /\ \A i \in DOMAIN tx.asked :
          i <= tx.done =>
              /\ tx.work.leases[tx.asked[i]] # NoLease
              /\ tx.work.leases[tx.asked[i]].holder = tx.holder
              /\ tx.work.leases[tx.asked[i]].token = db.next + i - 1

ReleasedSoFar ==
    \A i \in DOMAIN tx.asked :
        i <= tx.done =>
            \/ tx.work.leases[tx.asked[i]] = NoLease
            \/ FreshSince(db, tx.work, tx.asked[i])

\* d came from d0 by giving r, at now, to a waiter that was pending in d0.
GivenToWaiter(d0, d, now, r) ==
    /\ Active(d.leases[r], now) /\ FreshSince(d0, d, r)
    /\ \E w \in Pending(d0, r) :
          /\ w \in DOMAIN d.waiters /\ d.waiters[w].status = "granted"
          /\ d.waiters[w].token = d.leases[r].token

SweptSoFar ==
    /\ {tx.asked[i] : i \in DOMAIN tx.asked} = Dead(db, tx.now)
    /\ DOMAIN tx.work.waiters = DOMAIN db.waiters
    /\ \A i \in DOMAIN tx.asked :
          i <= tx.done =>
              \/ tx.work.leases[tx.asked[i]] = NoLease
              \/ GivenToWaiter(db, tx.work, tx.now, tx.asked[i])

SoFar ==
    /\ Untouched
    /\ tx.op = "bulk_acquire" => AcquiredSoFar
    /\ tx.op = "bulk_release" => ReleasedSoFar
    /\ tx.op = "expire" => SweptSoFar

\* What an iteration leaves alone: every other resource of the list.
LEMMA OthersOfList ==
    ASSUME Open, NEW k \in DOMAIN tx.asked, NEW d, OnlyAt(tx.work, d, tx.asked[k])
    PROVE  /\ \A i \in DOMAIN tx.asked \ {k} :
                 d.leases[tx.asked[i]] = tx.work.leases[tx.asked[i]]
           /\ \A r \in Resource :
                 (\A i \in DOMAIN tx.asked : tx.asked[i] # r) => d.leases[r] = tx.work.leases[r]
BY DEF Open, OnlyAt

LEMMA AcquiringSoFar ==
    ASSUME Open, SoFar, NEW k \in DOMAIN tx.asked, Acquiring(k)
    PROVE  SoFar'
<1> DEFINE r == tx.asked[k]
           e == Grant(tx.work, r, tx.holder, tx.ttl, tx.now, "bulk_acquire")
<1>1. /\ r \in Resource /\ tx.work \in DB /\ tx.done \in Nat /\ DOMAIN tx.asked = 1 .. Len(tx.asked)
      /\ Len(tx.asked) \in Nat /\ db.next \in Nat /\ tx.holder \in Holder /\ tx.ttl \in TTL
      /\ tx.now \in Instant /\ k = tx.done + 1
  BY DEF Open, Acquiring, DB, Token
<1>2. Iterated(e) /\ tx.op = "bulk_acquire"
  BY DEF Acquiring
<1>3. /\ e.leases[r] = NewLease(tx.work, tx.holder, tx.ttl, tx.now) /\ OnlyAt(tx.work, e, r)
      /\ e.next = tx.work.next + 1
  BY <1>1, GrantFields
<1>4. /\ NewLease(tx.work, tx.holder, tx.ttl, tx.now) # NoLease
      /\ NewLease(tx.work, tx.holder, tx.ttl, tx.now).holder = tx.holder
      /\ NewLease(tx.work, tx.holder, tx.ttl, tx.now).token = tx.work.next
  BY <1>1, NewLeaseType DEF NewLease
<1> HIDE DEF e
<1>5. /\ \A i \in DOMAIN tx.asked \ {k} : e.leases[tx.asked[i]] = tx.work.leases[tx.asked[i]]
      /\ \A s \in Resource :
            (\A i \in DOMAIN tx.asked : tx.asked[i] # s) => e.leases[s] = tx.work.leases[s]
  BY <1>3, OthersOfList
<1>6. Untouched'
  BY <1>2, <1>5 DEF SoFar, Untouched, Iterated
<1>7. AcquiredSoFar
  BY <1>2 DEF SoFar
<1>8. tx'.done <= Len(tx'.asked) /\ tx'.work.next = db'.next + tx'.done
  <2>1. tx'.work = e /\ tx'.done = tx.done + 1 /\ tx'.asked = tx.asked /\ db' = db
    BY <1>2 DEF Iterated
  <2>2. tx.done + 1 <= Len(tx.asked)
    BY <1>1
  <2>3. tx.work.next = db.next + tx.done
    BY <1>7 DEF AcquiredSoFar
  <2>4. e.next = db.next + (tx.done + 1)
    BY <1>1, <1>3, <2>3
  <2> QED BY <2>1, <2>2, <2>4
<1>9. ASSUME NEW i \in DOMAIN tx.asked, i <= tx.done + 1
      PROVE  /\ e.leases[tx.asked[i]] # NoLease
             /\ e.leases[tx.asked[i]].holder = tx.holder
             /\ e.leases[tx.asked[i]].token = db.next + i - 1
  <2>1. CASE i = k
    BY <1>1, <1>3, <1>4, <1>7, <2>1 DEF AcquiredSoFar
  <2>2. CASE i # k
    BY <1>1, <1>5, <1>7, <1>9, <2>2 DEF AcquiredSoFar
  <2> QED BY <2>1, <2>2
<1>10. AcquiredSoFar'
  BY <1>2, <1>8, <1>9 DEF AcquiredSoFar, Iterated
<1> QED BY <1>2, <1>6, <1>10 DEF SoFar, Iterated

\* A resource is fresh in a later copy if it was in an earlier one.
LEMMA FreshLater ==
    ASSUME NEW d0 \in DB, NEW d \in DB, NEW e, NEW r \in Resource, FreshSince(d0, d, r),
           e.leases[r] = d.leases[r], e.next \in Nat, d.next <= e.next
    PROVE  FreshSince(d0, e, r)
BY DEF FreshSince, DB, Token

\* What a promotion grants is fresh and active.
LEMMA PromotedFresh ==
    ASSUME NEW d0 \in DB, NEW d \in DB, d0.next <= d.next, NEW e, NEW r \in Resource,
           NEW now \in Instant, NEW i, PromotedAt(d, e, r, now, i)
    PROVE  /\ FreshSince(d0, e, r) /\ Active(e.leases[r], now)
           /\ e.leases[r].token = d.next /\ e.leases[r].acquired = now
           /\ e.leases[r].holder = d.waiters[i].holder
<1>1. /\ e.leases[r] = NewLease(d, d.waiters[i].holder, d.waiters[i].ttl, now)
      /\ d.waiters[i].holder \in Holder /\ d.waiters[i].ttl \in TTL /\ e.next = d.next + 1
  BY DEF PromotedAt
<1>2. e.leases[r] # NoLease /\ Active(e.leases[r], now)
  BY <1>1, NewLeaseType
<1>3. /\ e.leases[r].token = d.next /\ e.leases[r].acquired = now
      /\ e.leases[r].holder = d.waiters[i].holder
  BY <1>1 DEF NewLease
<1>4. d0.next \in Nat /\ d.next \in Nat
  BY DEF DB, Token
<1> QED BY <1>1, <1>2, <1>3, <1>4 DEF FreshSince

\* What ending a lease and offering its resource to a waiter leaves there.
LEMMA ReplaceFields ==
    ASSUME NEW d0 \in DB, NEW d \in DB, d0.next <= d.next, NEW r \in Resource,
           d.leases[r] # NoLease, NEW now \in Instant, NEW action \in EndAction
    PROVE  LET e == PromoteWaiterFor(EndLease(d, r, action), r, now) IN
           /\ OnlyAt(d, e, r) /\ e.next \in Nat /\ d.next <= e.next
           /\ e.leases[r] = NoLease \/ FreshSince(d0, e, r)
<1> DEFINE m == EndLease(d, r, action)
           e == PromoteWaiterFor(m, r, now)
<1>1. m \in DB /\ m.leases[r] = NoLease /\ OnlyAt(d, m, r) /\ m.next = d.next
  BY EndLeaseType, EndFields
<1>2. d.next \in Nat
  BY DEF DB, Token
<1> HIDE DEF m
<1>3. ASSUME e = m
      PROVE  OnlyAt(d, e, r) /\ e.next \in Nat /\ d.next <= e.next /\ e.leases[r] = NoLease
  BY <1>1, <1>2, <1>3
<1>4. ASSUME NEW i, PromotedAt(m, e, r, now, i)
      PROVE  /\ OnlyAt(d, e, r) /\ e.next \in Nat /\ d.next <= e.next
             /\ FreshSince(d0, e, r)
  <2>1. FreshSince(d0, e, r)
    BY <1>1, <1>4, PromotedFresh
  <2> QED BY <1>1, <1>2, <1>4, <2>1 DEF PromotedAt, OnlyAt
<1>5. e = m \/ \E i : PromotedAt(m, e, r, now, i)
  BY <1>1, PromoteFields
<1> HIDE DEF e
<1> QED BY <1>3, <1>4, <1>5 DEF e, m

LEMMA ReleasingSoFar ==
    ASSUME Open, SoFar, NEW k \in DOMAIN tx.asked, Releasing(k)
    PROVE  SoFar'
<1> DEFINE r == tx.asked[k]
           e == PromoteWaiterFor(EndLease(tx.work, r, "bulk_release"), r, tx.now)
<1>1. /\ r \in Resource /\ tx.work \in DB /\ db \in DB /\ tx.done \in Nat
      /\ DOMAIN tx.asked = 1 .. Len(tx.asked) /\ Len(tx.asked) \in Nat
      /\ db.next <= tx.work.next /\ tx.now \in Instant /\ k = tx.done + 1
      /\ \A i \in DOMAIN tx.asked : tx.asked[i] \in Resource
  BY DEF Open, Releasing, Turns
<1>2. Iterated(e) /\ tx.op = "bulk_release" /\ tx.work.leases[r] # NoLease
  BY DEF Releasing
<1>3. /\ OnlyAt(tx.work, e, r) /\ e.next \in Nat /\ tx.work.next <= e.next
      /\ e.leases[r] = NoLease \/ FreshSince(db, e, r)
  BY <1>1, <1>2, ReplaceFields DEF EndAction
<1> HIDE DEF e
<1>4. /\ \A i \in DOMAIN tx.asked \ {k} : e.leases[tx.asked[i]] = tx.work.leases[tx.asked[i]]
      /\ \A s \in Resource :
            (\A i \in DOMAIN tx.asked : tx.asked[i] # s) => e.leases[s] = tx.work.leases[s]
  BY <1>3, OthersOfList
<1>5. Untouched'
  BY <1>2, <1>4 DEF SoFar, Untouched, Iterated
<1>6. ASSUME NEW i \in DOMAIN tx.asked, i <= tx.done + 1
      PROVE  e.leases[tx.asked[i]] = NoLease \/ FreshSince(db, e, tx.asked[i])
  <2>1. CASE i = k
    BY <1>3, <2>1
  <2>2. CASE i # k
    <3>1. i <= tx.done
      BY <1>1, <1>6, <2>2
    <3>2. tx.work.leases[tx.asked[i]] = NoLease \/ FreshSince(db, tx.work, tx.asked[i])
      BY <1>2, <3>1 DEF SoFar, ReleasedSoFar
    <3> QED BY <1>1, <1>3, <1>4, <2>2, <3>2, FreshLater
  <2> QED BY <2>1, <2>2
<1>7. ReleasedSoFar'
  BY <1>2, <1>6 DEF ReleasedSoFar, Iterated
<1> QED BY <1>2, <1>5, <1>7 DEF SoFar, Iterated

\* A waiter that a loop promotes was pending when the loop began.
LEMMA PendingBefore ==
    ASSUME NEW d0 \in DB, NEW d \in DB, Lives(d0, d), DOMAIN d.waiters = DOMAIN d0.waiters,
           NEW r, NEW i \in Pending(d, r)
    PROVE  i \in Pending(d0, r)
<1>1. /\ i \in DOMAIN d0.waiters /\ i \in DOMAIN d.waiters
      /\ d.waiters[i].resource = r /\ d.waiters[i].status = "pending"
  BY DEF Pending
<1>2. CASE d.waiters[i] = d0.waiters[i]
  BY <1>1, <1>2 DEF Pending
<1>3. CASE d.waiters[i] # d0.waiters[i]
  <2>1. d0.waiters[i] \in Waiter
    BY <1>1 DEF DB
  <2>2. /\ d0.waiters[i].status = "pending"
        /\ d.waiters[i] = [d0.waiters[i] EXCEPT !.status = d.waiters[i].status,
                                                !.token = d.waiters[i].token]
    BY <1>1, <1>3 DEF Lives
  <2>3. d.waiters[i].resource = d0.waiters[i].resource
    BY <2>1, <2>2 DEF Waiter
  <2> QED BY <1>1, <2>2, <2>3 DEF Pending
<1> QED BY <1>2, <1>3

\* A resource given to a waiter stays given, if every granted waiter is left alone.
LEMMA StillGiven ==
    ASSUME NEW d0 \in DB, NEW d \in DB, NEW now, NEW r \in Resource,
           GivenToWaiter(d0, d, now, r), NEW e, e.leases[r] = d.leases[r],
           e.next \in Nat, d.next <= e.next, DOMAIN e.waiters = DOMAIN d.waiters,
           \A w \in DOMAIN d.waiters :
               d.waiters[w].status = "granted" => e.waiters[w] = d.waiters[w]
    PROVE  GivenToWaiter(d0, e, now, r)
<1>1. FreshSince(d0, e, r)
  BY FreshLater DEF GivenToWaiter
<1> QED BY <1>1 DEF GivenToWaiter

LEMMA ReapingSoFar ==
    ASSUME Open, SoFar, NEW k \in DOMAIN tx.asked, Reaping(k)
    PROVE  SoFar'
<1> DEFINE r == tx.asked[k]
           e == EndLease(tx.work, r, "expire")
<1>1. /\ r \in Resource /\ tx.work \in DB /\ db \in DB /\ tx.done \in Nat
      /\ DOMAIN tx.asked = 1 .. Len(tx.asked) /\ Len(tx.asked) \in Nat
      /\ tx.work.next \in Nat /\ k = tx.done + 1
      /\ \A i \in DOMAIN tx.asked : tx.asked[i] \in Resource
  BY DEF Open, Reaping, DB, Token
<1>2. Iterated(e) /\ tx.op = "expire"
  BY DEF Reaping
<1>3. /\ e.leases[r] = NoLease /\ OnlyAt(tx.work, e, r)
      /\ e.next = tx.work.next /\ e.waiters = tx.work.waiters
  BY <1>1, EndFields
<1> HIDE DEF e
<1>4. /\ \A i \in DOMAIN tx.asked \ {k} : e.leases[tx.asked[i]] = tx.work.leases[tx.asked[i]]
      /\ \A s \in Resource :
            (\A i \in DOMAIN tx.asked : tx.asked[i] # s) => e.leases[s] = tx.work.leases[s]
  BY <1>3, OthersOfList
<1>5. Untouched'
  BY <1>2, <1>4 DEF SoFar, Untouched, Iterated
<1>6. SweptSoFar
  BY <1>2 DEF SoFar
<1>7. ASSUME NEW i \in DOMAIN tx.asked, i <= tx.done + 1
      PROVE  e.leases[tx.asked[i]] = NoLease \/ GivenToWaiter(db, e, tx.now, tx.asked[i])
  <2>1. CASE i = k
    BY <1>3, <2>1
  <2>2. CASE i # k
    <3>1. i <= tx.done
      BY <1>1, <1>7, <2>2
    <3>2. tx.work.leases[tx.asked[i]] = NoLease \/ GivenToWaiter(db, tx.work, tx.now, tx.asked[i])
      BY <1>6, <3>1 DEF SweptSoFar
    <3> QED BY <1>1, <1>3, <1>4, <2>2, <3>2, StillGiven
  <2> QED BY <2>1, <2>2
<1>8. SweptSoFar'
  BY <1>2, <1>3, <1>6, <1>7 DEF SweptSoFar, Iterated, Dead
<1> QED BY <1>2, <1>5, <1>8 DEF SoFar, Iterated

LEMMA PromotingSoFar ==
    ASSUME Open, SoFar, Lives(db, tx.work), NEW k \in DOMAIN tx.asked, Promoting(k)
    PROVE  SoFar'
<1> DEFINE r == tx.asked[k]
           e == PromoteWaiterFor(tx.work, r, tx.now)
<1>1. /\ r \in Resource /\ tx.work \in DB /\ db \in DB /\ tx.done \in Nat
      /\ DOMAIN tx.asked = 1 .. Len(tx.asked) /\ Len(tx.asked) \in Nat
      /\ tx.work.next \in Nat /\ db.next <= tx.work.next /\ tx.now \in Instant
      /\ \A i \in DOMAIN tx.asked : tx.asked[i] \in Resource /\ i <= tx.done
  BY DEF Open, Promoting, DB, Token, Turns
<1>2. Iterated(e) /\ tx.op = "expire"
  BY DEF Promoting
<1>3. SweptSoFar
  BY <1>2 DEF SoFar
<1>4. e = tx.work \/ \E w : PromotedAt(tx.work, e, r, tx.now, w)
  BY <1>1, PromoteFields
<1> HIDE DEF e
<1>5. OnlyAt(tx.work, e, r) /\ DOMAIN e.waiters = DOMAIN tx.work.waiters
  BY <1>1, <1>4, PromotedWaiters DEF PromotedAt, OnlyAt
<1>6. /\ \A i \in DOMAIN tx.asked \ {k} : e.leases[tx.asked[i]] = tx.work.leases[tx.asked[i]]
      /\ \A s \in Resource :
            (\A i \in DOMAIN tx.asked : tx.asked[i] # s) => e.leases[s] = tx.work.leases[s]
  BY <1>5, OthersOfList
<1>7. Untouched'
  BY <1>2, <1>6 DEF SoFar, Untouched, Iterated
<1>8. ASSUME NEW w, PromotedAt(tx.work, e, r, tx.now, w)
      PROVE  /\ GivenToWaiter(db, e, tx.now, r)
             /\ e.next \in Nat /\ tx.work.next <= e.next
             /\ \A v \in DOMAIN tx.work.waiters :
                   tx.work.waiters[v].status = "granted" => e.waiters[v] = tx.work.waiters[v]
  <2>1. /\ w \in Pending(tx.work, r) /\ w \in DOMAIN tx.work.waiters /\ e.next = tx.work.next + 1
    BY <1>8 DEF PromotedAt
  <2>2. /\ tx.work.waiters[w].status = "pending"
        /\ e.waiters[w].status = "granted" /\ e.waiters[w].token = tx.work.next
        /\ \A v \in DOMAIN tx.work.waiters \ {w} : e.waiters[v] = tx.work.waiters[v]
    BY <1>8, <2>1 DEF PromotedAt, Pending, Waiter
  <2>3. /\ FreshSince(db, e, r) /\ Active(e.leases[r], tx.now)
        /\ e.leases[r].token = tx.work.next
    BY <1>1, <1>8, PromotedFresh
  <2>4. w \in Pending(db, r)
    BY <1>1, <1>3, <2>1, PendingBefore DEF SweptSoFar
  <2> QED BY <1>1, <1>5, <2>1, <2>2, <2>3, <2>4 DEF GivenToWaiter
<1>9. ASSUME NEW i \in DOMAIN tx.asked
      PROVE  e.leases[tx.asked[i]] = NoLease \/ GivenToWaiter(db, e, tx.now, tx.asked[i])
  <2>1. tx.work.leases[tx.asked[i]] = NoLease \/ GivenToWaiter(db, tx.work, tx.now, tx.asked[i])
    BY <1>1, <1>3 DEF SweptSoFar
  <2>2. CASE e = tx.work
    BY <2>1, <2>2
  <2>3. ASSUME NEW w, PromotedAt(tx.work, e, r, tx.now, w)
        PROVE  e.leases[tx.asked[i]] = NoLease \/ GivenToWaiter(db, e, tx.now, tx.asked[i])
    <3>1. CASE i = k
      BY <1>8, <2>3, <3>1
    <3>2. CASE i # k
      <4>1. e.leases[tx.asked[i]] = tx.work.leases[tx.asked[i]]
        BY <1>6, <3>2
      <4>2. /\ e.next \in Nat /\ tx.work.next <= e.next
            /\ \A v \in DOMAIN tx.work.waiters :
                  tx.work.waiters[v].status = "granted" => e.waiters[v] = tx.work.waiters[v]
        BY <1>8, <2>3
      <4> QED BY <1>1, <1>5, <2>1, <4>1, <4>2, StillGiven
    <3> QED BY <3>1, <3>2
  <2> QED BY <1>4, <2>2, <2>3
<1>10. SweptSoFar'
  BY <1>2, <1>3, <1>5, <1>9 DEF SweptSoFar, Iterated, Dead
<1> QED BY <1>2, <1>7, <1>10 DEF SoFar, Iterated

-----------------------------------------------------------------------------
(* What is inductive *)

BatchInv == LockInv /\ QueueInv /\ (tx # NoTx => SoFar)

LEMMA BatchInvInit == Init => BatchInv
BY LockInvInit, QueueInvInit DEF Init, BatchInv

LEMMA BatchInvStep ==
    ASSUME BatchInv, [Next]_vars
    PROVE  BatchInv'
<1>1. LockInv' /\ QueueInv'
  BY LockInvStep, QueueInvStep DEF BatchInv
<1>2. SUFFICES ASSUME tx' # NoTx PROVE SoFar'
  BY <1>1 DEF BatchInv
<1>3. CASE UNCHANGED <<db, tx>>
  BY <1>2, <1>3 DEF BatchInv, SoFar, Untouched, AcquiredSoFar, ReleasedSoFar, SweptSoFar
<1>4. ASSUME NEW now \in Instant, BulkOps(now) \/ ExpireAll(now) PROVE SoFar'
  <2>1. db \in DB /\ db' = db
    BY <1>4, BulkBegins, LockHere DEF BatchInv
  <2>2. /\ tx'.work = db /\ tx'.done = 0 /\ tx'.now = now
        /\ tx'.op = "expire" => {tx'.asked[i] : i \in DOMAIN tx'.asked} = Dead(db, now)
    BY <1>4, BulkBegins
  <2>3. tx' \in Tx
    BY <1>1, <1>2 DEF LockInv, Inv, TypeInv, TypeOK
  <2>4. Len(tx'.asked) \in Nat /\ DOMAIN tx'.asked = 1 .. Len(tx'.asked) /\ db.next \in Nat
    BY <2>1, <2>3 DEF Tx, DB, Token
  <2>5. \A i \in DOMAIN tx'.asked : ~(i <= tx'.done)
    BY <2>2, <2>4
  <2> QED BY <2>1, <2>2, <2>4, <2>5 DEF SoFar, Untouched, AcquiredSoFar, ReleasedSoFar,
                                         SweptSoFar, Dead
<1>5. ASSUME tx # NoTx, Open, NEW k \in DOMAIN tx.asked,
             Acquiring(k) \/ Releasing(k) \/ Reaping(k) \/ Promoting(k)
      PROVE  SoFar'
  <2>1. SoFar /\ Lives(db, tx.work)
    BY <1>5 DEF BatchInv, QueueInv
  <2> QED BY <1>5, <2>1, AcquiringSoFar, ReleasingSoFar, ReapingSoFar, PromotingSoFar
<1> QED BY <1>2, <1>3, <1>4, <1>5, OpenSteps DEF BatchInv

LEMMA BatchInvariant == Spec => []BatchInv
<1>1. BatchInv /\ [Next]_vars => BatchInv'
  BY BatchInvStep
<1> QED BY <1>1, BatchInvInit, PTL DEF Spec

\* A committed batch or sweep is its last iteration's copy.
LEMMA BatchCommits ==
    ASSUME BatchInv, [Next]_vars, tx # NoTx, db' # db
    PROVE  /\ Open /\ SoFar /\ Committing /\ db' = tx.work
           /\ tx.op = "expire" => \A i \in DOMAIN tx.asked : i <= tx.done
<1>1. TxStep
  BY CommitsItself
<1>2. ~(\E k \in DOMAIN tx.asked : Acquiring(k) \/ Releasing(k) \/ Reaping(k) \/ Promoting(k))
  BY DEF Acquiring, Releasing, Reaping, Promoting, Iterated
<1> QED BY <1>1, <1>2, TxStepCases DEF BatchInv, Committing

\* What is fresh since the last commit carries a token not seen there.
LEMMA FreshIsGranted ==
    ASSUME db \in DB, Issued(db), NEW r \in Resource, FreshSince(db, db', r)
    PROVE  Granted(r)
<1>1. db'.leases[r] # NoLease /\ db'.leases[r].token \in db.next .. db'.next - 1
  BY DEF FreshSince
<1>2. ASSUME db.leases[r] # NoLease PROVE db.leases[r].token # db'.leases[r].token
  <2>1. db.leases[r].token \in Nat /\ db.leases[r].token < db.next /\ db.next \in Nat
    BY <1>2 DEF Issued, DB, Lease, Token
  <2> QED BY <1>1, <2>1
<1> QED BY <1>1, <1>2 DEF Granted

\* All or nothing: a BulkAcquire that commits has granted every resource it
\* was asked for, the i-th under the i-th token from the counter, to its own
\* caller, and changed no other.
THEOREM BatchesAcquireAll == Spec => BulkAcquireAllOrNothing
<1>1. ASSUME BatchInv, [Next]_vars, tx # NoTx, tx.op = "bulk_acquire", db' # db,
             NEW r \in Resource
      PROVE  IF \E i \in DOMAIN tx.asked : tx.asked[i] = r
             THEN \E i \in DOMAIN tx.asked :
                     /\ tx.asked[i] = r
                     /\ Granted(r)
                     /\ db'.leases[r].holder = tx.holder
                     /\ db'.leases[r].token = db.next + i - 1
             ELSE db'.leases[r] = db.leases[r]
  <2>1. Open /\ SoFar /\ Committing /\ db' = tx.work
    BY <1>1, BatchCommits
  <2>2. AcquiredSoFar /\ Untouched
    BY <1>1, <2>1 DEF SoFar
  <2>3. /\ db \in DB /\ Issued(db) /\ tx.done \in Nat /\ db.next \in Nat
        /\ DOMAIN tx.asked = 1 .. Len(tx.asked) /\ Len(tx.asked) \in Nat
        /\ \A i \in DOMAIN tx.asked : i <= tx.done
    BY <2>1 DEF Open, Committing, DB, Token
  <2>4. ASSUME NEW i \in DOMAIN tx.asked, tx.asked[i] = r
        PROVE  /\ Granted(r) /\ db'.leases[r].holder = tx.holder
               /\ db'.leases[r].token = db.next + i - 1
    <3>1. /\ db'.leases[r] # NoLease /\ db'.leases[r].holder = tx.holder
          /\ db'.leases[r].token = db.next + i - 1
      BY <2>1, <2>2, <2>3, <2>4 DEF AcquiredSoFar
    <3>2. i \in 1 .. tx.done /\ db'.next = db.next + tx.done
      BY <2>1, <2>2, <2>3, <2>4 DEF AcquiredSoFar
    <3>3. db.next + i - 1 \in db.next .. db'.next - 1
      BY <2>3, <3>2
    <3>4. FreshSince(db, db', r)
      BY <3>1, <3>3 DEF FreshSince
    <3> QED BY <2>3, <3>1, <3>4, FreshIsGranted
  <2>5. CASE \E i \in DOMAIN tx.asked : tx.asked[i] = r
    BY <2>4, <2>5
  <2>6. CASE ~(\E i \in DOMAIN tx.asked : tx.asked[i] = r)
    BY <2>1, <2>2, <2>6 DEF Untouched
  <2> QED BY <2>5, <2>6
<1> DEFINE Step ==
      tx # NoTx /\ tx.op = "bulk_acquire" /\ db' # db =>
          \A r \in Resource :
              IF \E i \in DOMAIN tx.asked : tx.asked[i] = r
              THEN \E i \in DOMAIN tx.asked :
                      /\ tx.asked[i] = r
                      /\ Granted(r)
                      /\ db'.leases[r].holder = tx.holder
                      /\ db'.leases[r].token = db.next + i - 1
              ELSE db'.leases[r] = db.leases[r]
<1>2. BatchInv /\ [Next]_vars => Step
  BY <1>1
<1> QED BY <1>2, BatchInvariant, PTL DEF Spec, BulkAcquireAllOrNothing

\* All or nothing: a BulkRelease that commits has ended every lease it was
\* asked to; where there is a lease again, the same batch granted it.
THEOREM BatchesReleaseAll == Spec => BulkReleaseAllOrNothing
<1>1. ASSUME BatchInv, [Next]_vars, tx # NoTx, tx.op = "bulk_release", db' # db,
             NEW r \in Resource
      PROVE  IF \E i \in DOMAIN tx.asked : tx.asked[i] = r
             THEN db'.leases[r] = NoLease \/ Granted(r)
             ELSE db'.leases[r] = db.leases[r]
  <2>1. Open /\ SoFar /\ Committing /\ db' = tx.work
    BY <1>1, BatchCommits
  <2>2. ReleasedSoFar /\ Untouched
    BY <1>1, <2>1 DEF SoFar
  <2>3. ASSUME NEW i \in DOMAIN tx.asked, tx.asked[i] = r
        PROVE  db'.leases[r] = NoLease \/ Granted(r)
    <3>1. db'.leases[r] = NoLease \/ FreshSince(db, db', r)
      BY <2>1, <2>2, <2>3 DEF Committing, ReleasedSoFar
    <3> QED BY <2>1, <3>1, FreshIsGranted DEF Open
  <2>4. CASE \E i \in DOMAIN tx.asked : tx.asked[i] = r
    BY <2>3, <2>4
  <2>5. CASE ~(\E i \in DOMAIN tx.asked : tx.asked[i] = r)
    BY <2>1, <2>2, <2>5 DEF Untouched
  <2> QED BY <2>4, <2>5
<1> DEFINE Step ==
      tx # NoTx /\ tx.op = "bulk_release" /\ db' # db =>
          \A r \in Resource :
              IF \E i \in DOMAIN tx.asked : tx.asked[i] = r
              THEN db'.leases[r] = NoLease \/ Granted(r)
              ELSE db'.leases[r] = db.leases[r]
<1>2. BatchInv /\ [Next]_vars => Step
  BY <1>1
<1> QED BY <1>2, BatchInvariant, PTL DEF Spec, BulkReleaseAllOrNothing

\* A sweep that commits leaves no lease that was dead at its instant, keeps
\* every one that was alive, and where it reaped it granted only to a waiter
\* that was pending before it began.
THEOREM SweepsAreComplete == Spec => SweepComplete
<1>1. ASSUME BatchInv, [Next]_vars, tx # NoTx, tx.op = "expire", db' # db, NEW r \in Resource
      PROVE  /\ Active(db.leases[r], tx.now) => db'.leases[r] = db.leases[r]
             /\ db'.leases[r] # NoLease => Active(db'.leases[r], tx.now)
             /\ Granted(r) =>
                   \E w \in Pending(db, r) : db'.waiters[w].token = db'.leases[r].token
  <2>1. /\ Open /\ SoFar /\ db' = tx.work
        /\ \A i \in DOMAIN tx.asked : i <= tx.done
    BY <1>1, BatchCommits
  <2>2. SweptSoFar /\ Untouched
    BY <1>1, <2>1 DEF SoFar
  <2>3. CASE r \in Dead(db, tx.now)
    <3>1. PICK i \in DOMAIN tx.asked : tx.asked[i] = r
      BY <2>2, <2>3 DEF SweptSoFar
    <3>2. db'.leases[r] = NoLease \/ GivenToWaiter(db, db', tx.now, r)
      BY <2>1, <2>2, <3>1 DEF SweptSoFar
    <3>3. ~Active(db.leases[r], tx.now)
      BY <2>3 DEF Dead
    <3> QED BY <3>2, <3>3 DEF GivenToWaiter, Granted
  <2>4. CASE r \notin Dead(db, tx.now)
    <3>1. db'.leases[r] = db.leases[r]
      BY <2>1, <2>2, <2>4 DEF SweptSoFar, Untouched
    <3> QED BY <2>4, <3>1 DEF Dead, Granted
  <2> QED BY <2>3, <2>4
<1> DEFINE Step ==
      tx # NoTx /\ tx.op = "expire" /\ tx' = NoTx /\ db' # db =>
          \A r \in Resource :
              /\ Active(db.leases[r], tx.now) => db'.leases[r] = db.leases[r]
              /\ db'.leases[r] # NoLease => Active(db'.leases[r], tx.now)
              /\ Granted(r) =>
                    \E w \in Pending(db, r) : db'.waiters[w].token = db'.leases[r].token
<1>2. BatchInv /\ [Next]_vars => Step
  BY <1>1
<1> QED BY <1>2, BatchInvariant, PTL DEF Spec, SweepComplete

-----------------------------------------------------------------------------
(* Counting the leases of a holder *)

LEMMA CountType ==
    ASSUME NEW d \in DB, NEW h, NEW now
    PROVE  /\ IsFiniteSet(ActiveResources(d, h, now))
           /\ CountActiveByHolder(d, h, now) \in Nat
<1>1. ActiveResources(d, h, now) \subseteq Resource /\ IsFiniteSet(Resource)
  BY ResourceAssumption DEF ActiveResources
<1>2. IsFiniteSet(ActiveResources(d, h, now))
  BY <1>1, FS_Subset
<1> QED BY <1>2, FS_CardinalityType DEF CountActiveByHolder

LEMMA CapType ==
    ASSUME NEW d \in DB, NEW h \in Holder
    PROVE  HolderQuotaCap(d, h) \in Nat
BY CapAssumption DEF HolderQuotaCap, DB

\* Touching r alone adds at most one to the count of a holder, and nothing if
\* that holder has no live lease on r afterwards.
LEMMA CountTouched ==
    ASSUME NEW d \in DB, NEW e \in DB, NEW r \in Resource, OnlyAt(d, e, r), NEW h, NEW now
    PROVE  /\ CountActiveByHolder(e, h, now) <= CountActiveByHolder(d, h, now) + 1
           /\ r \notin ActiveResources(e, h, now) =>
                 CountActiveByHolder(e, h, now) <= CountActiveByHolder(d, h, now)
<1> DEFINE D == ActiveResources(d, h, now)
           E == ActiveResources(e, h, now)
<1>1. IsFiniteSet(D) /\ Cardinality(D) \in Nat /\ Cardinality(E) \in Nat
  BY CountType DEF CountActiveByHolder
<1>2. E \subseteq D \cup {r} /\ (r \notin E => E \subseteq D)
  BY DEF ActiveResources, OnlyAt
<1>3. /\ IsFiniteSet(D \cup {r})
      /\ Cardinality(D \cup {r}) <= Cardinality(D) + 1
  BY <1>1, FS_AddElement
<1>4. Cardinality(D \cup {r}) \in Nat
  BY <1>3, FS_CardinalityType
<1> HIDE DEF D, E
<1>5. Cardinality(E) <= Cardinality(D \cup {r})
  BY <1>2, <1>3, FS_Subset
<1>6. r \notin E => Cardinality(E) <= Cardinality(D)
  BY <1>1, <1>2, FS_Subset
<1> QED BY <1>1, <1>3, <1>4, <1>5, <1>6 DEF CountActiveByHolder, D, E

\* And takes nothing away from a holder that had no live lease on r.
LEMMA CountLeft ==
    ASSUME NEW d \in DB, NEW e \in DB, NEW r \in Resource, OnlyAt(d, e, r), NEW h, NEW now,
           r \notin ActiveResources(d, h, now)
    PROVE  CountActiveByHolder(d, h, now) <= CountActiveByHolder(e, h, now)
BY CountTouched DEF OnlyAt

\* Room for m at d is room for n at e, if the caps are the same.
LEMMA RoomCarries ==
    ASSUME NEW d \in DB, NEW e \in DB, e.holders = d.holders, NEW h \in Holder, NEW now,
           NEW m \in Nat, NEW n \in Nat,
           CountActiveByHolder(e, h, now) + n <= CountActiveByHolder(d, h, now) + m,
           WithinQuota(d, h, now, m)
    PROVE  WithinQuota(e, h, now, n)
<1>1. /\ CountActiveByHolder(e, h, now) \in Nat /\ CountActiveByHolder(d, h, now) \in Nat
      /\ HolderQuotaCap(d, h) \in Nat /\ HolderQuotaCap(e, h) = HolderQuotaCap(d, h)
  BY CountType, CapType DEF HolderQuotaCap
<1> QED BY <1>1 DEF WithinQuota

-----------------------------------------------------------------------------
(* Quotas *)

\* Whoever has been granted a lease since d0 is within its cap at d.
QuotaKept(d0, d, now) ==
    \A r \in Resource :
        FreshSince(d0, d, r) =>
            /\ d.leases[r].acquired = now
            /\ WithinQuota(d, d.leases[r].holder, now, 0)

LEMMA QuotaKeptRefl ==
    ASSUME NEW d \in DB, NEW now
    PROVE  QuotaKept(d, d, now)
BY DEF QuotaKept, FreshSince, DB, Token

\* A lease that a step left alone is not fresh for the first time.
LEMMA FreshBefore ==
    ASSUME NEW d0 \in DB, NEW d \in DB, Issued(d0), Turns(d0, d), NEW e, NEW r \in Resource,
           e.leases[r] = d.leases[r], FreshSince(d0, e, r)
    PROVE  FreshSince(d0, d, r)
<1>1. d.leases[r] # NoLease /\ d.leases[r].token \in d0.next .. e.next - 1
  BY DEF FreshSince
<1>2. ~NotGranted(d0, d, r)
  <2>1. SUFFICES ASSUME d.leases[r] = d0.leases[r] PROVE FALSE
    BY <1>1 DEF NotGranted
  <2>2. d0.leases[r].token \in Nat /\ d0.leases[r].token < d0.next /\ d0.next \in Nat
    BY <1>1, <2>1 DEF Issued, DB, Lease, Token
  <2> QED BY <1>1, <2>1, <2>2
<1> QED BY <1>2 DEF Turns

\* A grant that the quota allows.
LEMMA GrantKeepsQuota ==
    ASSUME NEW d0 \in DB, NEW d \in DB, NEW e \in DB, Issued(d0), Turns(d0, d), NEW now,
           QuotaKept(d0, d, now), NEW r \in Resource, NEW h \in Holder,
           WithinQuota(d, h, now, 1), OnlyAt(d, e, r), e.holders = d.holders,
           e.leases[r].holder = h, e.leases[r].acquired = now
    PROVE  QuotaKept(d0, e, now)
<1>1. WithinQuota(e, h, now, 0)
  <2>1. /\ CountActiveByHolder(e, h, now) + 0 <= CountActiveByHolder(d, h, now) + 1
        /\ CountActiveByHolder(e, h, now) \in Nat
    BY CountTouched, CountType
  <2> QED BY <2>1, RoomCarries
<1>2. ASSUME NEW s \in Resource, FreshSince(d0, e, s)
      PROVE  e.leases[s].acquired = now /\ WithinQuota(e, e.leases[s].holder, now, 0)
  <2>1. CASE e.leases[s].holder = h /\ s = r
    BY <1>1, <2>1
  <2>2. CASE s # r
    <3> DEFINE g == d.leases[s].holder
    <3>1. e.leases[s] = d.leases[s] /\ d.leases[s] # NoLease
      BY <1>2, <2>2 DEF OnlyAt, FreshSince
    <3>2. FreshSince(d0, d, s)
      BY <1>2, <3>1, FreshBefore
    <3>3. d.leases[s].acquired = now /\ WithinQuota(d, g, now, 0) /\ g \in Holder
      BY <3>1, <3>2 DEF QuotaKept, DB, Lease
    <3>4. CASE g = h
      BY <1>1, <3>1, <3>3, <3>4
    <3>5. CASE g # h
      <4>1. r \notin ActiveResources(e, g, now)
        BY <3>5 DEF ActiveResources
      <4>2. /\ CountActiveByHolder(e, g, now) <= CountActiveByHolder(d, g, now)
            /\ CountActiveByHolder(e, g, now) \in Nat /\ CountActiveByHolder(d, g, now) \in Nat
        BY <4>1, CountTouched, CountType
      <4>3. CountActiveByHolder(e, g, now) + 0 <= CountActiveByHolder(d, g, now) + 0
        BY <4>2
      <4> HIDE DEF g
      <4>4. WithinQuota(e, g, now, 0)
        BY <3>3, <4>3, RoomCarries
      <4> QED BY <3>1, <3>3, <4>4 DEF g
    <3> QED BY <3>4, <3>5
  <2> QED BY <2>1, <2>2
<1> QED BY <1>2 DEF QuotaKept

\* The end of a lease.
LEMMA EndKeepsQuota ==
    ASSUME NEW d0 \in DB, NEW d \in DB, NEW e \in DB, Issued(d0), Turns(d0, d), NEW now,
           QuotaKept(d0, d, now), NEW r \in Resource, OnlyAt(d, e, r), e.holders = d.holders,
           e.leases[r] = NoLease
    PROVE  QuotaKept(d0, e, now)
<1> SUFFICES ASSUME NEW s \in Resource, FreshSince(d0, e, s)
             PROVE  e.leases[s].acquired = now /\ WithinQuota(e, e.leases[s].holder, now, 0)
  BY DEF QuotaKept
<1>1. s # r /\ e.leases[s] = d.leases[s] /\ d.leases[s] # NoLease
  BY DEF OnlyAt, FreshSince
<1> DEFINE g == d.leases[s].holder
<1>2. FreshSince(d0, d, s)
  BY <1>1, FreshBefore
<1>3. d.leases[s].acquired = now /\ WithinQuota(d, g, now, 0) /\ g \in Holder
  BY <1>1, <1>2 DEF QuotaKept, DB, Lease
<1>4. r \notin ActiveResources(e, g, now)
  BY DEF ActiveResources, Active
<1>5. /\ CountActiveByHolder(e, g, now) <= CountActiveByHolder(d, g, now)
      /\ CountActiveByHolder(e, g, now) \in Nat /\ CountActiveByHolder(d, g, now) \in Nat
  BY <1>4, CountTouched, CountType
<1>6. CountActiveByHolder(e, g, now) + 0 <= CountActiveByHolder(d, g, now) + 0
  BY <1>5
<1> HIDE DEF g
<1>7. WithinQuota(e, g, now, 0)
  BY <1>3, <1>6, RoomCarries
<1> QED BY <1>1, <1>3, <1>7 DEF g

\* A promotion checks the quota of the waiter it picks.
LEMMA PromoteKeepsQuota ==
    ASSUME NEW d0 \in DB, NEW d \in DB, Issued(d0), Turns(d0, d), NEW now \in Instant,
           QuotaKept(d0, d, now), NEW r \in Resource
    PROVE  QuotaKept(d0, PromoteWaiterFor(d, r, now), now)
<1> DEFINE e == PromoteWaiterFor(d, r, now)
<1>1. e \in DB
  BY PromoteType
<1>2. e = d \/ \E i : PromotedAt(d, e, r, now, i)
  BY PromoteFields
<1> HIDE DEF e
<1>3. ASSUME NEW i, PromotedAt(d, e, r, now, i) PROVE QuotaKept(d0, e, now)
  <2> DEFINE h == d.waiters[i].holder
  <2>1. /\ h \in Holder /\ WithinQuota(d, h, now, 1) /\ OnlyAt(d, e, r) /\ e.holders = d.holders
        /\ e.leases[r] = NewLease(d, h, d.waiters[i].ttl, now)
    BY <1>3 DEF PromotedAt
  <2>2. e.leases[r].holder = h /\ e.leases[r].acquired = now
    BY <2>1 DEF NewLease
  <2> HIDE DEF h
  <2> QED BY <1>1, <2>1, <2>2, GrantKeepsQuota
<1>4. QuotaKept(d0, e, now)
  BY <1>2, <1>3
<1> QED BY <1>4 DEF e

LEMMA BesideKeepsQuota ==
    ASSUME NEW d0, NEW d, NEW e, NEW now, QuotaKept(d0, d, now),
           e.leases = d.leases, e.next = d.next, e.holders = d.holders
    PROVE  QuotaKept(d0, e, now)
BY DEF QuotaKept, FreshSince, WithinQuota, HolderQuotaCap, CountActiveByHolder, ActiveResources

\* The grant of an operation that has checked the quota.
LEMMA GrantOpKeepsQuota ==
    ASSUME NEW d0 \in DB, NEW d \in DB, Issued(d0), Turns(d0, d), NEW now \in Instant,
           QuotaKept(d0, d, now), NEW r \in Resource, NEW h \in Holder, NEW ttl \in TTL,
           NEW action \in GrantAction, WithinQuota(d, h, now, 1)
    PROVE  QuotaKept(d0, Grant(d, r, h, ttl, now, action), now)
<1> DEFINE e == Grant(d, r, h, ttl, now, action)
<1>1. /\ e \in DB /\ OnlyAt(d, e, r) /\ e.holders = d.holders
      /\ e.leases[r] = NewLease(d, h, ttl, now)
  BY GrantType, GrantFields
<1> HIDE DEF e
<1>2. e.leases[r].holder = h /\ e.leases[r].acquired = now
  BY <1>1 DEF NewLease
<1>3. QuotaKept(d0, e, now)
  BY <1>1, <1>2, GrantKeepsQuota
<1> QED BY <1>3 DEF e

LEMMA EndOpKeepsQuota ==
    ASSUME NEW d0 \in DB, NEW d \in DB, Issued(d0), Turns(d0, d), NEW now,
           QuotaKept(d0, d, now), NEW r \in Resource, d.leases[r] # NoLease,
           NEW action \in EndAction
    PROVE  QuotaKept(d0, EndLease(d, r, action), now)
<1> DEFINE e == EndLease(d, r, action)
<1>1. /\ e \in DB /\ OnlyAt(d, e, r) /\ e.holders = d.holders /\ e.leases[r] = NoLease
  BY EndLeaseType, EndFields
<1> HIDE DEF e
<1>2. QuotaKept(d0, e, now)
  BY <1>1, EndKeepsQuota
<1> QED BY <1>2 DEF e

\* A batch that has yet to grant n leases has room for n.
QuotaSoFar ==
    /\ QuotaKept(db, tx.work, tx.now)
    /\ tx.op = "bulk_acquire" =>
          WithinQuota(tx.work, tx.holder, tx.now, Len(tx.asked) - tx.done)

LEMMA IterationKeepsQuota ==
    ASSUME Open, SoFar, QuotaSoFar, NEW k \in DOMAIN tx.asked,
           Acquiring(k) \/ Releasing(k) \/ Reaping(k) \/ Promoting(k)
    PROVE  QuotaSoFar'
<1> DEFINE r == tx.asked[k]
<1>1. /\ r \in Resource /\ tx.work \in DB /\ db \in DB /\ tx.done \in Nat /\ tx.now \in Instant
      /\ DOMAIN tx.asked = 1 .. Len(tx.asked) /\ Len(tx.asked) \in Nat
      /\ Issued(db) /\ Turns(db, tx.work) /\ QuotaKept(db, tx.work, tx.now)
  BY DEF Open, QuotaSoFar
<1>2. ASSUME NEW e, Iterated(e), QuotaKept(db, e, tx.now),
             tx.op = "bulk_acquire" =>
                 WithinQuota(e, tx.holder, tx.now, Len(tx.asked) - (tx.done + 1))
      PROVE  QuotaSoFar'
  BY <1>2 DEF QuotaSoFar, Iterated, QuotaKept, FreshSince
<1>3. CASE Acquiring(k)
  <2> DEFINE n == Len(tx.asked) - tx.done
             h == tx.holder
             e == Grant(tx.work, r, h, tx.ttl, tx.now, "bulk_acquire")
  <2>1. /\ h \in Holder /\ tx.ttl \in TTL /\ tx.op = "bulk_acquire" /\ Iterated(e)
        /\ k = tx.done + 1
    BY <1>3 DEF Acquiring
  <2>2. n \in Nat \ {0} /\ n - 1 \in Nat /\ n - 1 = Len(tx.asked) - (tx.done + 1)
    BY <1>1, <2>1
  <2>3. WithinQuota(tx.work, h, tx.now, n)
    BY <2>1 DEF QuotaSoFar
  <2>4. e \in DB /\ OnlyAt(tx.work, e, r) /\ e.holders = tx.work.holders
    BY <1>1, <2>1, GrantType, GrantFields DEF GrantAction
  <2>5. /\ CountActiveByHolder(tx.work, h, tx.now) \in Nat
        /\ CountActiveByHolder(e, h, tx.now) \in Nat
        /\ CountActiveByHolder(e, h, tx.now) <= CountActiveByHolder(tx.work, h, tx.now) + 1
    BY <1>1, <2>4, CountType, CountTouched
  <2>6. WithinQuota(tx.work, h, tx.now, 1)
    <3>1. CountActiveByHolder(tx.work, h, tx.now) + 1 <= CountActiveByHolder(tx.work, h, tx.now) + n
      BY <2>2, <2>5
    <3> HIDE DEF n
    <3> QED BY <1>1, <2>1, <2>2, <2>3, <3>1, RoomCarries
  <2>7. QuotaKept(db, e, tx.now)
    BY <1>1, <2>1, <2>6, GrantOpKeepsQuota DEF GrantAction
  <2> HIDE DEF e
  <2>8. WithinQuota(e, h, tx.now, n - 1)
    <3>1. CountActiveByHolder(e, h, tx.now) + (n - 1) <= CountActiveByHolder(tx.work, h, tx.now) + n
      BY <2>2, <2>5
    <3> HIDE DEF n
    <3> QED BY <1>1, <2>1, <2>2, <2>3, <2>4, <3>1, RoomCarries
  <2> QED BY <1>2, <2>1, <2>2, <2>7, <2>8
<1>4. CASE Releasing(k)
  <2> DEFINE m == EndLease(tx.work, r, "bulk_release")
  <2>1. /\ tx.work.leases[r] # NoLease /\ tx.work.leases[r] = db.leases[r]
        /\ tx.op = "bulk_release" /\ Iterated(PromoteWaiterFor(m, r, tx.now))
    BY <1>4 DEF Releasing
  <2>2. NotGranted(db, tx.work, r)
    BY <2>1 DEF NotGranted
  <2>3. m \in DB /\ Turns(db, m) /\ QuotaKept(db, m, tx.now)
    BY <1>1, <2>1, <2>2, EndLeaseType, EndLeaseTurns, EndOpKeepsQuota DEF EndAction
  <2> HIDE DEF m
  <2>4. QuotaKept(db, PromoteWaiterFor(m, r, tx.now), tx.now)
    BY <1>1, <2>3, PromoteKeepsQuota
  <2> QED BY <1>2, <2>1, <2>4
<1>5. CASE Reaping(k)
  <2>1. /\ tx.work.leases[r] # NoLease /\ tx.op = "expire"
        /\ Iterated(EndLease(tx.work, r, "expire"))
    BY <1>5 DEF Reaping
  <2>2. QuotaKept(db, EndLease(tx.work, r, "expire"), tx.now)
    BY <1>1, <2>1, EndOpKeepsQuota DEF EndAction
  <2> QED BY <1>2, <2>1, <2>2
<1>6. CASE Promoting(k)
  <2>1. tx.op = "expire" /\ Iterated(PromoteWaiterFor(tx.work, r, tx.now))
    BY <1>6 DEF Promoting
  <2>2. QuotaKept(db, PromoteWaiterFor(tx.work, r, tx.now), tx.now)
    BY <1>1, PromoteKeepsQuota
  <2> QED BY <1>2, <2>1, <2>2
<1> QED BY <1>3, <1>4, <1>5, <1>6

QuotaInv == BatchInv /\ (tx # NoTx => QuotaSoFar)

LEMMA QuotaInvInit == Init => QuotaInv
BY BatchInvInit DEF Init, QuotaInv

LEMMA QuotaInvStep ==
    ASSUME QuotaInv, [Next]_vars
    PROVE  QuotaInv'
<1>1. BatchInv'
  BY BatchInvStep DEF QuotaInv
<1>2. SUFFICES ASSUME tx' # NoTx PROVE QuotaSoFar'
  BY <1>1 DEF QuotaInv
<1>3. CASE UNCHANGED <<db, tx>>
  BY <1>2, <1>3 DEF QuotaInv, QuotaSoFar, QuotaKept, FreshSince
<1>4. ASSUME NEW now \in Instant, BulkOps(now) \/ ExpireAll(now) PROVE QuotaSoFar'
  <2>1. db \in DB
    BY LockHere DEF QuotaInv, BatchInv
  <2>2. /\ db' = db /\ tx'.work = db /\ tx'.done = 0 /\ tx'.now = now
        /\ tx'.op = "bulk_acquire" => WithinQuota(db, tx'.holder, now, Len(tx'.asked))
    BY <1>4, BulkBegins
  <2>3. tx' \in Tx
    BY <1>1, <1>2 DEF BatchInv, LockInv, Inv, TypeInv, TypeOK
  <2>4. Len(tx'.asked) - tx'.done = Len(tx'.asked)
    BY <2>2, <2>3 DEF Tx
  <2>5. QuotaKept(db, db, now)
    BY <2>1, QuotaKeptRefl
  <2> QED BY <2>2, <2>4, <2>5 DEF QuotaSoFar, QuotaKept, FreshSince
<1>5. ASSUME tx # NoTx, Open, NEW k \in DOMAIN tx.asked,
             Acquiring(k) \/ Releasing(k) \/ Reaping(k) \/ Promoting(k)
      PROVE  QuotaSoFar'
  BY <1>5, IterationKeepsQuota DEF QuotaInv, BatchInv
<1> QED BY <1>2, <1>3, <1>4, <1>5, OpenSteps DEF QuotaInv, BatchInv

LEMMA QuotaInvariant == Spec => []QuotaInv
<1>1. QuotaInv /\ [Next]_vars => QuotaInv'
  BY QuotaInvStep
<1> QED BY <1>1, QuotaInvInit, PTL DEF Spec

\* What GrantsWithinQuota says of a step made at now.
QuotaStep(now) ==
    \A r \in Resource :
        /\ Granted(r) =>
              WithinQuota(db', db'.leases[r].holder, db'.leases[r].acquired, 0)
        /\ Transferred(r) =>
              /\ Active(db'.leases[r], now)
              /\ WithinQuota(db', db'.leases[r].holder, now, 0)

LEMMA TurnsKeepQuota ==
    ASSUME db \in DB, Issued(db), NEW now, Turns(db, db'), QuotaKept(db, db', now)
    PROVE  QuotaStep(now)
<1> SUFFICES ASSUME NEW r \in Resource
             PROVE  /\ Granted(r) => FreshSince(db, db', r)
                    /\ ~Transferred(r)
  BY DEF QuotaStep, QuotaKept
<1>1. CASE NotGranted(db, db', r)
  BY <1>1 DEF NotGranted, Granted, Transferred
<1>2. CASE FreshSince(db, db', r)
  <2>1. Granted(r)
    BY <1>2, FreshIsGranted
  <2> QED BY <1>2, <2>1 DEF Granted, Transferred
<1> QED BY <1>1, <1>2 DEF Turns

LEMMA HoldsKeepQuota ==
    ASSUME NEW now,
           \A r \in Resource :
               \/ db'.leases[r] = db.leases[r]
               \/ /\ db.leases[r] # NoLease
                  /\ db'.leases[r].holder = db.leases[r].holder
                  /\ db'.leases[r].token = db.leases[r].token
    PROVE  QuotaStep(now)
BY DEF QuotaStep, Granted, Transferred

LEMMA UpdateKeepsQuota ==
    ASSUME LockInv, NEW now, NEW d, Update(d), Turns(db, d), QuotaKept(db, d, now)
    PROVE  QuotaStep(now)
<1>1. db \in DB /\ Issued(db) /\ db' = d
  BY LockHere DEF Update
<1> QED BY <1>1, TurnsKeepQuota

LEMMA LeaseOpsKeepQuota ==
    ASSUME LockInv, NEW now \in Instant, LeaseOps(now)
    PROVE  QuotaStep(now)
<1>a. /\ db \in DB /\ Issued(db) /\ Turns(db, db) /\ QuotaKept(db, db, now)
      /\ \A r \in Resource : NotGranted(db, db, r)
  BY LockHere, QuotaKeptRefl
<1>1. ASSUME NEW r \in Resource, NEW h \in Holder, NEW ttl \in TTL, Acquire(r, h, now, ttl)
      PROVE  QuotaStep(now)
  <2> DEFINE e == Grant(db, r, h, ttl, now, "acquire")
  <2>1. Update(e) /\ WithinQuota(db, h, now, 1)
    BY <1>1 DEF Acquire
  <2>2. Turns(db, e) /\ QuotaKept(db, e, now)
    BY <1>a, <2>1, GrantOpTurns, GrantOpKeepsQuota DEF GrantAction
  <2> HIDE DEF e
  <2> QED BY <2>1, <2>2, UpdateKeepsQuota
<1>2. ASSUME NEW r \in Resource, NEW h \in Holder, NEW t, NEW ttl \in TTL, Renew(r, h, t, now, ttl)
      PROVE  QuotaStep(now)
  <2> DEFINE l == [db.leases[r] EXCEPT !.deadline = now + ttl]
  <2>1. db.leases[r] # NoLease /\ db.leases[r] \in Lease
    BY <1>2, <1>a DEF Renew, RenewError, DB
  <2>2. l.holder = db.leases[r].holder /\ l.token = db.leases[r].token
    BY <2>1 DEF Lease
  <2>3. db' = AppendAudit(PutLease(db, r, l), "renew", r, h, t)
    BY <1>2 DEF Renew, Update
  <2> HIDE DEF l
  <2>4. db'.leases[r] = l /\ \A s \in Resource \ {r} : db'.leases[s] = db.leases[s]
    BY <1>a, <2>3 DEF AppendAudit, PutLease, DB
  <2> QED BY <2>1, <2>2, <2>4, HoldsKeepQuota
<1>3. ASSUME NEW r \in Resource, NEW h \in Holder, NEW t, Release(r, h, t, now)
      PROVE  QuotaStep(now)
  <2> DEFINE m == EndLease(db, r, "release")
  <2>1. db.leases[r] # NoLease /\ Update(PromoteWaiterFor(m, r, now))
    BY <1>3 DEF Release, ReleaseError
  <2>2. m \in DB /\ Turns(db, m) /\ m.leases[r] = NoLease /\ QuotaKept(db, m, now)
    BY <1>a, <2>1, EndLeaseType, EndLeaseTurns, EndOpKeepsQuota DEF EndAction
  <2> HIDE DEF m
  <2>3. NotGranted(db, m, r)
    BY <2>2 DEF NotGranted
  <2>4. Turns(db, PromoteWaiterFor(m, r, now)) /\ QuotaKept(db, PromoteWaiterFor(m, r, now), now)
    BY <1>a, <2>2, <2>3, PromoteTurns, PromoteKeepsQuota
  <2> QED BY <2>1, <2>4, UpdateKeepsQuota
<1>4. ASSUME NEW r \in Resource, NEW h \in Holder, NEW t, NEW newHolder \in Holder,
             Transfer(r, h, t, newHolder, now)
      PROVE  QuotaStep(now)
  <2> DEFINE l == [db.leases[r] EXCEPT !.holder = newHolder]
             e == AppendAudit(PutLease(db, r, l), "transfer", r, newHolder, t)
  <2>1. /\ db.leases[r] # NoLease /\ db.leases[r] \in Lease
        /\ db.leases[r].token = t /\ Active(db.leases[r], now)
        /\ WithinQuota(db, newHolder, now, 1) /\ db' = e
    BY <1>4, <1>a DEF Transfer, ReleaseError, DB, Update
  <2>2. /\ l \in Lease /\ l.holder = newHolder /\ l.token = db.leases[r].token
        /\ l.deadline = db.leases[r].deadline
    BY <2>1 DEF Lease
  <2>3. l # NoLease
    BY <2>2, LeaseNotNull
  <2>4. Active(l, now)
    BY <2>1, <2>2, <2>3 DEF Active
  <2> HIDE DEF l
  <2>5. e \in DB
    <3>1. PutLease(db, r, l) \in DB
      BY <1>a, <2>2, PutLeaseType
    <3>2. t \in Token /\ "transfer" \in AuditAction
      BY <2>1 DEF Lease, AuditAction
    <3> QED BY <3>1, <3>2, AppendAuditType
  <2>6. e.leases[r] = l /\ OnlyAt(db, e, r) /\ e.holders = db.holders
    BY <1>a DEF AppendAudit, PutLease, DB, OnlyAt
  <2> HIDE DEF e
  <2>7. WithinQuota(e, newHolder, now, 0)
    <3>1. /\ CountActiveByHolder(e, newHolder, now) \in Nat
          /\ CountActiveByHolder(e, newHolder, now) <= CountActiveByHolder(db, newHolder, now) + 1
      BY <1>a, <2>5, <2>6, CountType, CountTouched
    <3>2. CountActiveByHolder(e, newHolder, now) + 0 <= CountActiveByHolder(db, newHolder, now) + 1
      BY <3>1
    <3> QED BY <1>a, <2>1, <2>5, <2>6, <3>2, RoomCarries
  <2>8. ASSUME NEW s \in Resource PROVE ~Granted(s) /\ (Transferred(s) => s = r)
    BY <2>1, <2>2, <2>6 DEF Granted, Transferred, OnlyAt
  <2> QED BY <2>1, <2>2, <2>4, <2>6, <2>7, <2>8 DEF QuotaStep
<1>5. ASSUME NEW r \in Resource, NEW h \in Holder, NEW ttl \in TTL, EnqueueWaiter(r, h, ttl, now)
      PROVE  QuotaStep(now)
  <2>1. ASSUME NEW d \in DB, Turns(db, d), QuotaKept(db, d, now), NEW status, NEW t,
               Update(AddWaiter(d, r, h, ttl, now, status, t))
        PROVE  QuotaStep(now)
    <3> DEFINE e == AddWaiter(d, r, h, ttl, now, status, t)
    <3>1. e.leases = d.leases /\ e.next = d.next /\ e.holders = d.holders
      BY <2>1 DEF AddWaiter, DB
    <3>2. Update(e)
      BY <2>1
    <3> HIDE DEF e
    <3>3. Turns(db, e) /\ QuotaKept(db, e, now)
      BY <2>1, <3>1, BesideTurns, BesideKeepsQuota
    <3> QED BY <3>2, <3>3, UpdateKeepsQuota
  <2>2. CASE EnqueuePending(r, h, ttl, now)
    <3>1. /\ Handover(db, r, now) \in DB /\ Turns(db, Handover(db, r, now))
          /\ QuotaKept(db, Handover(db, r, now), now)
      BY <1>a, PromoteType, PromoteTurns, PromoteKeepsQuota DEF Handover
    <3> QED BY <2>1, <2>2, <3>1 DEF EnqueuePending
  <2>3. CASE EnqueueImmediate(r, h, ttl, now)
    <3>1. WithinQuota(db, h, now, 1)
      BY <2>3 DEF EnqueueImmediate
    <3>2. /\ Grant(db, r, h, ttl, now, "acquire") \in DB
          /\ Turns(db, Grant(db, r, h, ttl, now, "acquire"))
          /\ QuotaKept(db, Grant(db, r, h, ttl, now, "acquire"), now)
      BY <1>a, <3>1, GrantType, GrantOpTurns, GrantOpKeepsQuota DEF GrantAction
    <3> QED BY <2>1, <2>3, <3>2 DEF EnqueueImmediate
  <2> QED BY <1>5, <2>2, <2>3 DEF EnqueueWaiter
<1> QED BY <1>1, <1>2, <1>3, <1>4, <1>5 DEF LeaseOps

LEMMA OtherOpsKeepQuota ==
    ASSUME LockInv, NEW now, HolderOps(now) \/ \E i \in DOMAIN db.waiters : CancelWaiter(i)
    PROVE  QuotaStep(now)
<1>1. db \in DB
  BY LockHere
<1>2. db'.leases = db.leases
  BY <1>1 DEF HolderOps, PutHolder, SetQuota, DeleteHolder, CancelWaiter, SetWaiterStatus,
              Update, DB
<1> QED BY <1>2, HoldsKeepQuota

\* Quotas: whoever a transaction gives leases to is within its cap at the
\* transaction's instant, counting all it holds then: a batch that grants many,
\* a sweep that promotes the same waiter on many resources, and a transfer
\* included.
THEOREM GrantsRespectQuotas == Spec => GrantsWithinQuota
<1> DEFINE Step ==
        \A r \in Resource :
            /\ Granted(r) =>
                  WithinQuota(db', db'.leases[r].holder, db'.leases[r].acquired, 0)
            /\ \A now \in Instant :
                  Transferred(r) /\ RanAt(now) =>
                      /\ Active(db'.leases[r], now)
                      /\ WithinQuota(db', db'.leases[r].holder, now, 0)
<1>1. ASSUME QuotaInv, [Next]_vars PROVE [Step]_vars
  <2>a. LockInv /\ db \in DB /\ Issued(db)
    BY <1>1, LockHere DEF QuotaInv, BatchInv
  <2>1. ASSUME NEW now \in Instant, RanAt(now), db' # db PROVE QuotaStep(now)
    <3>1. CASE tx # NoTx
      <4>1. Open /\ db' = tx.work /\ now = tx.now
        BY <1>1, <2>1, <3>1, BatchCommits DEF QuotaInv, RanAt
      <4>2. Turns(db, db') /\ QuotaKept(db, db', now)
        BY <1>1, <3>1, <4>1 DEF Open, QuotaInv, QuotaSoFar
      <4> QED BY <2>a, <4>2, TurnsKeepQuota
    <3>2. CASE tx = NoTx
      <4>1. Call(now)
        BY <2>1, <3>2 DEF RanAt
      <4>2. ~(BulkOps(now) \/ ExpireAll(now))
        BY <2>1, <2>a, BulkOpsTurn
      <4> QED BY <2>a, <4>1, <4>2, LeaseOpsKeepQuota, OtherOpsKeepQuota DEF Call
    <3> QED BY <3>1, <3>2
  <2>2. db' = db => Step
    BY DEF Granted, Transferred
  <2>3. ASSUME db' # db PROVE \E now \in Instant : RanAt(now)
    <3>1. CASE tx # NoTx
      BY <2>a, <3>1, OpenTx DEF Open, RanAt
    <3>2. CASE tx = NoTx
      BY <1>1, <2>3, <3>2 DEF Next, TxStep, BulkAcquireStep, BulkReleaseStep, ExpireStep, Crash,
                              RanAt, vars
    <3> QED BY <3>1, <3>2
  <2>4. ASSUME db' # db PROVE Step
    <3>1. PICK now \in Instant : QuotaStep(now)
      BY <2>1, <2>3, <2>4
    <3>2. \A r \in Resource :
             Granted(r) => WithinQuota(db', db'.leases[r].holder, db'.leases[r].acquired, 0)
      BY <3>1 DEF QuotaStep
    <3> QED BY <2>1, <2>4, <3>2 DEF QuotaStep
  <2> QED BY <2>2, <2>4
<1>2. QuotaInv /\ [Next]_vars => [Step]_vars
  BY <1>1
<1> QED BY <1>2, QuotaInvariant, PTL DEF Spec, GrantsWithinQuota

-----------------------------------------------------------------------------
(* The checks made before a loop *)

\* What a loop has yet to visit still passes the check it began with, and what
\* a sweep has reaped stays free until it promotes there.
ChecksSoFar ==
    \A i \in DOMAIN tx.asked :
        LET r == tx.asked[i] IN
        /\ tx.op = "bulk_acquire" /\ tx.done < i => ~Active(tx.work.leases[r], tx.now)
        /\ tx.op = "bulk_release" /\ tx.done < i =>
              /\ tx.work.leases[r] = db.leases[r]
              /\ Active(tx.work.leases[r], tx.now) /\ tx.work.leases[r].holder = tx.holder
        /\ tx.op = "expire" /\ ToDo(tx, tx.done, i) =>
              /\ ~Active(tx.work.leases[r], tx.now)
              /\ i <= tx.done => tx.work.leases[r] = NoLease

\* The loop of each batch, and of a sweep, begins with them checked.
LEMMA ChecksBegin ==
    ASSUME NEW now \in Instant, BulkOps(now) \/ ExpireAll(now)
    PROVE  ChecksSoFar'
<1>1. ASSUME NEW h, NEW asked, NEW ttl, BulkAcquireBegin(h, asked, now, ttl)
      PROVE  ChecksSoFar'
  <2>1. /\ tx'.op = "bulk_acquire" /\ tx'.work = db /\ tx'.asked = asked /\ tx'.now = now
        /\ \A i \in DOMAIN asked : ~Active(db.leases[asked[i]], now)
    BY <1>1 DEF BulkAcquireBegin, Begin
  <2> QED BY <2>1 DEF ChecksSoFar, Active
<1>2. ASSUME NEW h, NEW asked, NEW tokens, BulkReleaseBegin(h, asked, tokens, now)
      PROVE  ChecksSoFar'
  <2>1. /\ tx'.op = "bulk_release" /\ tx'.work = db /\ tx'.asked = asked /\ tx'.now = now
        /\ tx'.holder = h /\ db' = db
        /\ \A i \in DOMAIN asked : ReleaseError(db, asked[i], h, tokens[i], now) = ""
    BY <1>2 DEF BulkReleaseBegin, Begin
  <2>2. \A i \in DOMAIN asked : Active(db.leases[asked[i]], now) /\ db.leases[asked[i]].holder = h
    BY <2>1 DEF ReleaseError
  <2> QED BY <2>1, <2>2 DEF ChecksSoFar, Active
<1>3. ASSUME NEW n \in Nat, NEW asked \in Listing(n), ExpireBegin(asked, now)
      PROVE  ChecksSoFar'
  <2>1. /\ tx'.op = "expire" /\ tx'.work = db /\ tx'.asked = asked /\ tx'.now = now
        /\ tx'.done = 0
        /\ \A i \in DOMAIN asked : asked[i] \in Dead(db, now)
    BY <1>3 DEF ExpireBegin, Begin
  <2>2. \A i \in DOMAIN asked : i \in Nat /\ ~(i <= 0)
    BY DEF Listing
  <2> QED BY <2>1, <2>2 DEF ChecksSoFar, Active, Dead
<1>4. Cardinality(Dead(db, now)) \in Nat
  <2>1. Dead(db, now) \subseteq Resource
    BY DEF Dead
  <2> QED BY <2>1, ResourceAssumption, FS_Subset, FS_CardinalityType
<1> QED BY <1>1, <1>2, <1>3, <1>4 DEF BulkOps, ExpireAll

\* An iteration on the k-th resource of the list leaves the others as checked,
\* and a resource that it is to come back to free.
LEMMA ChecksKept ==
    ASSUME Open, ChecksSoFar, NEW k \in DOMAIN tx.asked, NEW e,
           Iterated(e), OnlyAt(tx.work, e, tx.asked[k]),
           tx.op = "bulk_release" => tx'.holder = tx.holder,
           tx.op # "expire" => k = tx.done + 1,
           tx.op = "expire" =>
               \/ k = tx.done + 1 /\ e.leases[tx.asked[k]] = NoLease
               \/ k = tx.done + 1 - Len(tx.asked)
    PROVE  ChecksSoFar'
<1>1. /\ tx.done \in Nat /\ Len(tx.asked) \in Nat /\ DOMAIN tx.asked = 1 .. Len(tx.asked)
  BY DEF Open
<1>2. /\ db' = db /\ tx'.work = e /\ tx'.done = tx.done + 1
      /\ tx'.op = tx.op /\ tx'.asked = tx.asked /\ tx'.now = tx.now
  BY DEF Iterated
<1>3. \A i \in DOMAIN tx.asked \ {k} : e.leases[tx.asked[i]] = tx.work.leases[tx.asked[i]]
  BY OthersOfList
<1>4. ASSUME NEW i \in DOMAIN tx.asked, tx.done + 1 < i
      PROVE  i # k /\ tx.done < i
  BY <1>1, <1>4 DEF Open
<1>5. CASE tx.op = "bulk_acquire"
  BY <1>2, <1>3, <1>4, <1>5 DEF ChecksSoFar, Active
<1>6. CASE tx.op = "bulk_release"
  BY <1>2, <1>3, <1>4, <1>6 DEF ChecksSoFar, Active
<1>7. CASE tx.op = "expire"
  <2>1. ASSUME NEW i \in DOMAIN tx.asked, ToDo(tx', tx.done + 1, i)
        PROVE  /\ ~Active(e.leases[tx.asked[i]], tx.now)
               /\ i <= tx.done + 1 => e.leases[tx.asked[i]] = NoLease
    <3>1. tx.done + 1 < Len(tx.asked) + i
      BY <1>2, <1>7, <2>1 DEF ToDo
    <3>2. CASE i = k
      <4>1. e.leases[tx.asked[k]] = NoLease
        BY <1>1, <1>7, <3>1, <3>2
      <4> QED BY <3>2, <4>1 DEF Active
    <3>3. CASE i # k
      <4>1. ToDo(tx, tx.done, i) /\ e.leases[tx.asked[i]] = tx.work.leases[tx.asked[i]]
        BY <1>1, <1>3, <1>7, <3>1, <3>3 DEF ToDo
      <4>2. i <= tx.done + 1 => i <= tx.done
        BY <1>1, <1>7, <3>1, <3>3
      <4> QED BY <1>7, <4>1, <4>2 DEF ChecksSoFar
    <3> QED BY <3>2, <3>3
  <2> QED BY <1>2, <1>7, <2>1 DEF ChecksSoFar
<1> QED BY <1>5, <1>6, <1>7 DEF Open

LEMMA PromoteOnlyAt ==
    ASSUME NEW d \in DB, NEW r \in Resource, NEW now \in Instant
    PROVE  OnlyAt(d, PromoteWaiterFor(d, r, now), r)
<1>1. CASE PromoteWaiterFor(d, r, now) = d
  BY <1>1 DEF OnlyAt
<1>2. ASSUME NEW i, PromotedAt(d, PromoteWaiterFor(d, r, now), r, now, i)
      PROVE  OnlyAt(d, PromoteWaiterFor(d, r, now), r)
  BY <1>2 DEF PromotedAt
<1> QED BY <1>1, <1>2, PromoteFields

LEMMA IterationKeepsChecks ==
    ASSUME Open, ChecksSoFar, NEW k \in DOMAIN tx.asked,
           Acquiring(k) \/ Releasing(k) \/ Reaping(k) \/ Promoting(k)
    PROVE  ChecksSoFar'
<1> DEFINE r == tx.asked[k]
<1>1. r \in Resource /\ tx.work \in DB /\ tx.now \in Instant /\ tx \in Tx
  BY DEF Open
<1>2. CASE Acquiring(k)
  <2>1. OnlyAt(tx.work, Grant(tx.work, r, tx.holder, tx.ttl, tx.now, "bulk_acquire"), r)
    BY <1>1, GrantFields
  <2> QED BY <1>2, <2>1, ChecksKept DEF Acquiring
<1>3. CASE Releasing(k)
  <2> DEFINE m == EndLease(tx.work, r, "bulk_release")
             e == PromoteWaiterFor(m, r, tx.now)
  <2>1. tx.work.leases[r] # NoLease /\ tx.op = "bulk_release" /\ Iterated(e) /\ k = tx.done + 1
    BY <1>3 DEF Releasing
  <2>2. m \in DB /\ OnlyAt(tx.work, m, r)
    BY <1>1, <2>1, EndLeaseType, EndFields DEF EndAction
  <2>3. tx'.holder = tx.holder
    BY <1>1, <2>1 DEF Iterated, Copied, Tx
  <2> HIDE DEF m
  <2>4. OnlyAt(m, e, r)
    BY <1>1, <2>2, PromoteOnlyAt
  <2>5. OnlyAt(tx.work, e, r)
    BY <2>2, <2>4 DEF OnlyAt
  <2> HIDE DEF e
  <2> QED BY <2>1, <2>3, <2>5, ChecksKept
<1>4. CASE Reaping(k)
  <2> DEFINE e == EndLease(tx.work, r, "expire")
  <2>1. tx.op = "expire" /\ Iterated(e) /\ k = tx.done + 1
    BY <1>4 DEF Reaping
  <2>2. OnlyAt(tx.work, e, r) /\ e.leases[r] = NoLease
    BY <1>1, EndFields
  <2> HIDE DEF e
  <2> QED BY <2>1, <2>2, ChecksKept
<1>5. CASE Promoting(k)
  <2> DEFINE e == PromoteWaiterFor(tx.work, r, tx.now)
  <2>1. tx.op = "expire" /\ Iterated(e) /\ k = tx.done + 1 - Len(tx.asked)
    BY <1>5 DEF Promoting
  <2>2. OnlyAt(tx.work, e, r)
    BY <1>1, PromoteOnlyAt
  <2> HIDE DEF e
  <2> QED BY <2>1, <2>2, ChecksKept
<1> QED BY <1>2, <1>3, <1>4, <1>5

CheckInv == QuotaInv /\ (tx # NoTx => ChecksSoFar)

LEMMA CheckInvInit == Init => CheckInv
BY QuotaInvInit DEF Init, CheckInv

LEMMA CheckInvStep ==
    ASSUME CheckInv, [Next]_vars
    PROVE  CheckInv'
<1>1. QuotaInv'
  BY QuotaInvStep DEF CheckInv
<1>2. SUFFICES ASSUME tx' # NoTx PROVE ChecksSoFar'
  BY <1>1 DEF CheckInv
<1>3. CASE UNCHANGED <<db, tx>>
  BY <1>2, <1>3 DEF CheckInv, ChecksSoFar, Active, ToDo
<1>4. ASSUME tx # NoTx, Open, NEW k \in DOMAIN tx.asked,
             Acquiring(k) \/ Releasing(k) \/ Reaping(k) \/ Promoting(k)
      PROVE  ChecksSoFar'
  BY <1>4, IterationKeepsChecks DEF CheckInv
<1> QED BY <1>2, <1>3, <1>4, ChecksBegin, OpenSteps DEF CheckInv, QuotaInv, BatchInv

\* What the loop needs of its next iteration, from what it has kept so far.
LEMMA ChecksAtIteration ==
    ASSUME CheckInv
    PROVE  BatchChecksHold
<1> SUFFICES ASSUME tx # NoTx, NEW i \in DOMAIN tx.asked
             PROVE  LET r == tx.asked[i]
                        next == tx.done + 1
                    IN  /\ tx.op = "bulk_acquire" /\ i = next =>
                              /\ ~Active(tx.work.leases[r], tx.now)
                              /\ WithinQuota(tx.work, tx.holder, tx.now, 1)
                        /\ tx.op = "bulk_release" /\ i = next =>
                              ReleaseError(tx.work, r, tx.holder, db.leases[r].token, tx.now) = ""
                        /\ tx.op = "expire" /\ i = next => r \in Dead(tx.work, tx.now)
                        /\ tx.op = "expire" /\ i + Len(tx.asked) = next =>
                              tx.work.leases[r] = NoLease
  <2>1. tx # NoTx => tx.op \in {"bulk_acquire", "bulk_release", "expire"}
    BY OpenTx DEF CheckInv, QuotaInv, BatchInv, Open
  <2> QED BY <2>1 DEF BatchChecksHold
<1> DEFINE r == tx.asked[i]
<1>1. /\ Open /\ ChecksSoFar /\ QuotaSoFar /\ LoopInv
  BY OpenTx DEF CheckInv, QuotaInv, BatchInv, LockInv, Inv, TypeInv
<1>2. /\ tx.done \in Nat /\ i \in Nat /\ Len(tx.asked) \in Nat /\ i \in 1 .. Len(tx.asked)
      /\ r \in Resource /\ tx.work \in DB /\ tx \in Tx /\ tx.now \in Instant
  BY <1>1 DEF Open
<1>3. ASSUME i = tx.done + 1 PROVE tx.done < i /\ ToDo(tx, tx.done, i)
  BY <1>2, <1>3 DEF ToDo
<1>4. ASSUME tx.op = "bulk_acquire", i = tx.done + 1
      PROVE  WithinQuota(tx.work, tx.holder, tx.now, 1)
  <2> DEFINE n == Len(tx.asked) - tx.done
  <2>1. n \in Nat /\ 1 <= n
    BY <1>2, <1>4
  <2>2. WithinQuota(tx.work, tx.holder, tx.now, n) /\ tx.holder \in Holder
    BY <1>1, <1>2, <1>4 DEF QuotaSoFar, Tx
  <2>3. CountActiveByHolder(tx.work, tx.holder, tx.now) \in Nat
    BY <1>2, CountType
  <2> HIDE DEF n
  <2>4. CountActiveByHolder(tx.work, tx.holder, tx.now) + 1
          <= CountActiveByHolder(tx.work, tx.holder, tx.now) + n
    BY <2>1, <2>3
  <2> QED BY <1>2, <2>1, <2>2, <2>4, RoomCarries
<1>5. ASSUME tx.op = "bulk_release", i = tx.done + 1
      PROVE  ReleaseError(tx.work, r, tx.holder, db.leases[r].token, tx.now) = ""
  BY <1>1, <1>3, <1>5 DEF ChecksSoFar, ReleaseError, Active
<1>6. ASSUME tx.op = "expire", i = tx.done + 1
      PROVE  r \in Dead(tx.work, tx.now)
  BY <1>1, <1>2, <1>3, <1>6 DEF ChecksSoFar, LoopInv, Dead
<1>7. ASSUME tx.op = "expire", i + Len(tx.asked) = tx.done + 1
      PROVE  tx.work.leases[r] = NoLease
  <2>1. i <= tx.done /\ ToDo(tx, tx.done, i)
    BY <1>2, <1>7 DEF ToDo
  <2> QED BY <1>1, <1>7, <2>1 DEF ChecksSoFar
<1>8. tx.op = "bulk_acquire" /\ i = tx.done + 1 => ~Active(tx.work.leases[r], tx.now)
  BY <1>1, <1>3 DEF ChecksSoFar
<1> QED BY <1>4, <1>5, <1>6, <1>7, <1>8

\* Check-then-act inside one transaction is safe here: a loop visits each of
\* its resources as the check before the loop found it, with room in the quota,
\* and a sweep promotes only where it has left no lease.
THEOREM LoopsActAsChecked == Spec => []BatchChecksHold
<1>1. CheckInv /\ [Next]_vars => CheckInv'
  BY CheckInvStep
<1>2. CheckInv => BatchChecksHold
  BY ChecksAtIteration
<1> QED BY <1>1, <1>2, CheckInvInit, PTL DEF Spec

-----------------------------------------------------------------------------
(* The waiter that a freed resource leaves behind *)

\* Ids sort by key rank, and no two have the same: there is one oldest waiter.
LEMMA OldestIsUnique ==
    ASSUME NEW d \in DB, NEW r, NEW i \in OldestPendingWaiter(d, r),
           NEW j \in OldestPendingWaiter(d, r)
    PROVE  i = j
<1>1. /\ i \in Pending(d, r) /\ j \in Pending(d, r) /\ i \in Nat /\ j \in Nat
      /\ d.waiters[i] \in Waiter /\ d.waiters[j] \in Waiter
  BY DEF OldestPendingWaiter, Pending, DB
<1>2. d.waiters[i].created \in Nat /\ d.waiters[j].created \in Nat
  BY <1>1 DEF Waiter
<1>3. KeyRank(i) \in Nat /\ KeyRank(j) \in Nat
  BY <1>1 DEF KeyRank
<1>4. KeyRank(i) <= KeyRank(j) /\ KeyRank(j) <= KeyRank(i)
  BY <1>1, <1>2 DEF OldestPendingWaiter
<1>5. KeyRank(i) = KeyRank(j)
  BY <1>3, <1>4
<1> QED BY <1>1, <1>5 DEF KeyRank

\* A promotion that leaves r free found its oldest waiter at its cap, if any.
LEMMA PromoteLeaves ==
    ASSUME NEW d \in DB, NEW r \in Resource, NEW now \in Instant,
           PromoteWaiterFor(d, r, now).leases[r] = NoLease
    PROVE  /\ PromoteWaiterFor(d, r, now) = d
           /\ \A i \in OldestPendingWaiter(d, r) : ~WithinQuota(d, d.waiters[i].holder, now, 1)
<1> DEFINE e == PromoteWaiterFor(d, r, now)
<1>1. e = d
  <2>1. ASSUME NEW i, PromotedAt(d, e, r, now, i) PROVE e.leases[r] # NoLease
    <3>1. /\ d.waiters[i].holder \in Holder /\ d.waiters[i].ttl \in TTL
          /\ e.leases[r] = NewLease(d, d.waiters[i].holder, d.waiters[i].ttl, now)
      BY <2>1 DEF PromotedAt
    <3> QED BY <3>1, NewLeaseType
  <2> QED BY <2>1, PromoteFields
<1>2. ASSUME NEW i \in OldestPendingWaiter(d, r), WithinQuota(d, d.waiters[i].holder, now, 1)
      PROVE  FALSE
  <2> DEFINE j == CHOOSE j \in OldestPendingWaiter(d, r) : TRUE
             w == d.waiters[j]
             g == Grant(d, r, w.holder, w.ttl, now, "waiter_grant")
  <2>1. j \in OldestPendingWaiter(d, r)
    BY <1>2
  <2> HIDE DEF j
  <2>2. i = j
    BY <1>2, <2>1, OldestIsUnique
  <2>3. e = SetWaiterStatus(g, j, "granted", d.next)
    BY <1>2, <2>2 DEF PromoteWaiterFor, j
  <2>4. j \in DOMAIN d.waiters /\ w \in Waiter
    BY <2>1 DEF OldestPendingWaiter, Pending, DB
  <2>5. g.next = d.next + 1 /\ g \in DB
    <3>1. w.holder \in Holder /\ w.ttl \in TTL
      BY <2>4 DEF Waiter
    <3> QED BY <3>1, GrantType, GrantFields DEF GrantAction
  <2> HIDE DEF g
  <2>6. SetWaiterStatus(g, j, "granted", d.next).next = g.next
    BY <2>5 DEF SetWaiterStatus, DB
  <2>7. d.next \in Nat
    BY DEF DB, Token
  <2>8. d = SetWaiterStatus(g, j, "granted", d.next)
    BY <1>1, <2>3
  <2>9. d.next = g.next
    BY <2>6, <2>8
  <2> QED BY <2>5, <2>7, <2>9
<1> QED BY <1>1, <1>2

\* The queue of r is as before if only another resource's waiter was promoted.
LEMMA OldestElsewhere ==
    ASSUME NEW d \in DB, NEW e, NEW k \in Resource, NEW now \in Instant, NEW i,
           PromotedAt(d, e, k, now, i), NEW r \in Resource \ {k}
    PROVE  /\ OldestPendingWaiter(e, r) = OldestPendingWaiter(d, r)
           /\ \A j \in OldestPendingWaiter(d, r) : e.waiters[j] = d.waiters[j]
<1>1. /\ DOMAIN e.waiters = DOMAIN d.waiters /\ d.waiters[i].resource = k
      /\ \A j \in DOMAIN d.waiters \ {i} : e.waiters[j] = d.waiters[j]
  BY PromotedWaiters
<1>a. e.waiters[i].resource = k
  <2>1. /\ d.waiters[i] \in Waiter /\ i \in DOMAIN d.waiters
        /\ e.waiters = [d.waiters EXCEPT ![i] = [d.waiters[i] EXCEPT !.status = "granted",
                                                                     !.token = d.next]]
    BY DEF PromotedAt
  <2>2. e.waiters[i] = [d.waiters[i] EXCEPT !.status = "granted", !.token = d.next]
    BY <2>1
  <2> QED BY <1>1, <2>1, <2>2 DEF Waiter
<1>2. Pending(e, r) = Pending(d, r) /\ i \notin Pending(d, r)
  BY <1>1, <1>a DEF Pending
<1>3. \A j \in Pending(d, r) : e.waiters[j] = d.waiters[j]
  BY <1>1, <1>2 DEF Pending
<1> QED BY <1>2, <1>3 DEF OldestPendingWaiter

\* The leases as a loop that made d from d0 found them when it came to the i-th
\* resource of its list: further down they are those it began with.
InTurn(d0, d, asked, i) ==
    [s \in Resource |->
        IF \E j \in DOMAIN asked : i < j /\ asked[j] = s THEN d0.leases[s] ELSE d.leases[s]]

\* The holder of the waiter that r, free in d, leaves behind is at its cap.
LeftIn(d, leases, r, now) ==
    \A w \in OldestPendingWaiter(d, r) : AtCap(d, leases, d.waiters[w].holder, now)

\* A loop is done with them: nothing on their list is to be visited again.
LeftSoFar ==
    \A i \in DOMAIN tx.asked :
        ~ToDo(tx, tx.done, i) /\ tx.work.leases[tx.asked[i]] = NoLease =>
            LeftIn(tx.work, InTurn(db, tx.work, tx.asked, i), tx.asked[i], tx.now)

\* No room for one more, counted by the code on d, is a cap that is reached in
\* any table where the same leases of h live.
LEMMA NoRoomIsAtCap ==
    ASSUME NEW d \in DB, NEW h \in Holder, NEW now, NEW leases,
           \A s \in Resource :
               leases[s] # NoLease /\ leases[s].holder = h /\ now < leases[s].deadline
                   <=> s \in ActiveResources(d, h, now),
           ~WithinQuota(d, h, now, 1)
    PROVE  AtCap(d, leases, h, now)
<1>1. CountActiveByHolder(d, h, now) \in Nat /\ HolderQuotaCap(d, h) \in Nat
  BY CountType, CapType
<1>2. {s \in Resource : leases[s] # NoLease /\ leases[s].holder = h /\ now < leases[s].deadline}
        = ActiveResources(d, h, now)
  BY DEF ActiveResources
<1>3. /\ HolderQuotaCap(d, h) # 0
      /\ HolderQuotaCap(d, h) <= CountActiveByHolder(d, h, now)
  BY <1>1 DEF WithinQuota
<1> QED BY <1>2, <1>3 DEF AtCap, CountActiveByHolder

\* The loop comes to its k-th resource r, frees it on the copy e and promotes
\* nobody: the leases it counts are those of its turn.
LEMMA LeavesInTurn ==
    ASSUME Open, NEW k \in DOMAIN tx.asked, NEW e \in DB,
           OnlyAt(tx.work, e, tx.asked[k]),
           PromoteWaiterFor(e, tx.asked[k], tx.now).leases[tx.asked[k]] = NoLease,
           \A j \in DOMAIN tx.asked :
               k < j =>
                   \/ tx.work.leases[tx.asked[j]] = db.leases[tx.asked[j]]
                   \/ /\ ~Active(tx.work.leases[tx.asked[j]], tx.now)
                      /\ ~Active(db.leases[tx.asked[j]], tx.now)
    PROVE  /\ PromoteWaiterFor(e, tx.asked[k], tx.now) = e
           /\ LeftIn(e, InTurn(db, e, tx.asked, k), tx.asked[k], tx.now)
<1> DEFINE r == tx.asked[k]
           leases == InTurn(db, e, tx.asked, k)
<1>1. r \in Resource /\ tx.now \in Instant /\ DOMAIN tx.asked \subseteq Nat
  BY DEF Open
<1>2. /\ PromoteWaiterFor(e, r, tx.now) = e
      /\ \A w \in OldestPendingWaiter(e, r) : ~WithinQuota(e, e.waiters[w].holder, tx.now, 1)
  BY <1>1, PromoteLeaves
<1>3. ASSUME NEW s \in Resource, NEW h
      PROVE  leases[s] # NoLease /\ leases[s].holder = h /\ tx.now < leases[s].deadline
                 <=> s \in ActiveResources(e, h, tx.now)
  <2>1. CASE \E j \in DOMAIN tx.asked : k < j /\ tx.asked[j] = s
    <3>1. PICK j \in DOMAIN tx.asked : k < j /\ tx.asked[j] = s
      BY <2>1
    <3>2. s # r
      BY <1>1, <3>1 DEF Open
    <3>3. leases[s] = db.leases[s] /\ e.leases[s] = tx.work.leases[s]
      BY <2>1, <3>2 DEF InTurn, OnlyAt
    <3> HIDE DEF leases
    <3> QED BY <3>1, <3>3 DEF ActiveResources, Active
  <2>2. CASE ~ \E j \in DOMAIN tx.asked : k < j /\ tx.asked[j] = s
    <3>1. leases[s] = e.leases[s]
      BY <2>2 DEF InTurn
    <3> HIDE DEF leases
    <3> QED BY <3>1 DEF ActiveResources, Active
  <2> QED BY <2>1, <2>2
<1> HIDE DEF leases
<1>4. ASSUME NEW w \in OldestPendingWaiter(e, r)
      PROVE  AtCap(e, leases, e.waiters[w].holder, tx.now)
  <2>1. w \in DOMAIN e.waiters
    BY DEF OldestPendingWaiter, Pending
  <2>a. e.waiters[w] \in Waiter
    BY <2>1 DEF DB
  <2>2. e.waiters[w].holder \in Holder
    BY <2>a DEF Waiter
  <2> QED BY <1>2, <1>3, <2>2, NoRoomIsAtCap
<1> QED BY <1>2, <1>4 DEF LeftIn, leases

\* An iteration at the k-th resource, which comes after all that the loop is
\* done with, leaves what these left behind as it was.
LEMMA IterationLeaves ==
    ASSUME Open, LeftSoFar, NEW k \in DOMAIN tx.asked, NEW e \in DB, Iterated(e),
           OnlyAt(tx.work, e, tx.asked[k]), e.holders = tx.work.holders,
           \A s \in Resource \ {tx.asked[k]} :
               /\ OldestPendingWaiter(e, s) = OldestPendingWaiter(tx.work, s)
               /\ \A w \in OldestPendingWaiter(tx.work, s) : e.waiters[w] = tx.work.waiters[w],
           \A i \in DOMAIN tx.asked \ {k} :
               ~ToDo(tx, tx.done + 1, i) => i < k /\ ~ToDo(tx, tx.done, i),
           /\ ~ToDo(tx, tx.done + 1, k)
           /\ e.leases[tx.asked[k]] = NoLease
           => LeftIn(e, InTurn(db, e, tx.asked, k), tx.asked[k], tx.now)
    PROVE  LeftSoFar'
<1>1. ASSUME NEW i \in DOMAIN tx.asked, ~ToDo(tx, tx.done + 1, i),
             e.leases[tx.asked[i]] = NoLease
      PROVE  LeftIn(e, InTurn(db, e, tx.asked, i), tx.asked[i], tx.now)
  <2>1. CASE i = k
    BY <1>1, <2>1
  <2>2. CASE i # k
    <3> DEFINE s == tx.asked[i]
    <3>1. /\ i < k /\ ~ToDo(tx, tx.done, i) /\ s \in Resource \ {tx.asked[k]}
      BY <1>1, <2>2 DEF Open
    <3>2. tx.work.leases[s] = NoLease
      BY <1>1, <3>1 DEF OnlyAt
    <3>3. LeftIn(tx.work, InTurn(db, tx.work, tx.asked, i), s, tx.now)
      BY <3>1, <3>2 DEF LeftSoFar
    <3>4. InTurn(db, e, tx.asked, i) = InTurn(db, tx.work, tx.asked, i)
      BY <3>1 DEF InTurn, OnlyAt
    <3> QED BY <3>1, <3>3, <3>4 DEF LeftIn, AtCap, HolderQuotaCap
  <2> QED BY <2>1, <2>2
<1>2. \A i : ToDo(tx, tx.done, i)' <=> ToDo(tx, tx.done + 1, i)
  BY DEF ToDo, Iterated
<1>3. db' = db /\ tx'.work = e /\ tx'.asked = tx.asked /\ tx'.now = tx.now
  BY DEF Iterated
<1> QED BY <1>1, <1>2, <1>3 DEF LeftSoFar

LEMMA ReleasingLeaves ==
    ASSUME Open, ChecksSoFar, LeftSoFar, NEW k \in DOMAIN tx.asked, Releasing(k)
    PROVE  LeftSoFar'
<1> DEFINE r == tx.asked[k]
           m == EndLease(tx.work, r, "bulk_release")
           e == PromoteWaiterFor(m, r, tx.now)
<1>1. /\ r \in Resource /\ tx.work \in DB /\ tx.now \in Instant /\ tx.done \in Nat
      /\ tx.op = "bulk_release" /\ k = tx.done + 1 /\ tx.work.leases[r] # NoLease
      /\ Iterated(e) /\ DOMAIN tx.asked \subseteq Nat
  BY DEF Open, Releasing
<1>2. /\ m \in DB /\ OnlyAt(tx.work, m, r)
      /\ m.waiters = tx.work.waiters /\ m.holders = tx.work.holders
  BY <1>1, EndLeaseType, EndFields DEF EndAction
<1>3. \A s \in Resource : OldestPendingWaiter(m, s) = OldestPendingWaiter(tx.work, s)
  BY <1>2 DEF OldestPendingWaiter, Pending
<1> HIDE DEF m
<1>4. \A j \in DOMAIN tx.asked : k < j => tx.work.leases[tx.asked[j]] = db.leases[tx.asked[j]]
  BY <1>1 DEF ChecksSoFar
<1>5. e.leases[r] = NoLease => LeftIn(e, InTurn(db, e, tx.asked, k), r, tx.now)
  BY <1>2, <1>4, LeavesInTurn
<1>6. e \in DB /\ (e = m \/ \E i : PromotedAt(m, e, r, tx.now, i))
  BY <1>1, <1>2, PromoteType, PromoteFields
<1> HIDE DEF e
<1>7. OnlyAt(tx.work, e, r) /\ e.holders = tx.work.holders
  BY <1>2, <1>6 DEF PromotedAt, OnlyAt
<1>8. ASSUME NEW s \in Resource \ {r}
      PROVE  /\ OldestPendingWaiter(e, s) = OldestPendingWaiter(tx.work, s)
             /\ \A w \in OldestPendingWaiter(tx.work, s) : e.waiters[w] = tx.work.waiters[w]
  BY <1>1, <1>2, <1>3, <1>6, OldestElsewhere
<1>9. \A i \in DOMAIN tx.asked \ {k} : ~ToDo(tx, tx.done + 1, i) => i < k /\ ~ToDo(tx, tx.done, i)
  BY <1>1 DEF ToDo
<1> QED BY <1>1, <1>5, <1>6, <1>7, <1>8, <1>9, IterationLeaves

\* While a sweep reaps it is done with nothing.
LEMMA ReapingLeaves ==
    ASSUME Open, NEW k \in DOMAIN tx.asked, Reaping(k)
    PROVE  LeftSoFar'
<1>1. /\ tx.done \in Nat /\ tx'.op = "expire" /\ k = tx.done + 1
      /\ tx'.asked = tx.asked /\ tx'.done = tx.done + 1
      /\ DOMAIN tx.asked = 1 .. Len(tx.asked) /\ Len(tx.asked) \in Nat
  BY DEF Open, Reaping, Iterated
<1>2. \A i \in DOMAIN tx'.asked : ToDo(tx', tx'.done, i)
  BY <1>1 DEF ToDo
<1> QED BY <1>2 DEF LeftSoFar

LEMMA PromotingLeaves ==
    ASSUME Open, SoFar, ChecksSoFar, LeftSoFar, NEW k \in DOMAIN tx.asked, Promoting(k)
    PROVE  LeftSoFar'
<1> DEFINE r == tx.asked[k]
           e == PromoteWaiterFor(tx.work, r, tx.now)
<1>1. /\ r \in Resource /\ tx.work \in DB /\ tx.now \in Instant /\ tx.done \in Nat
      /\ tx.op = "expire" /\ Len(tx.asked) <= tx.done /\ k = tx.done + 1 - Len(tx.asked)
      /\ Iterated(e) /\ DOMAIN tx.asked = 1 .. Len(tx.asked) /\ Len(tx.asked) \in Nat
  BY DEF Open, Promoting
<1>2. ASSUME NEW j \in DOMAIN tx.asked, k < j
      PROVE  /\ ~Active(tx.work.leases[tx.asked[j]], tx.now)
             /\ ~Active(db.leases[tx.asked[j]], tx.now)
  <2>1. ToDo(tx, tx.done, j)
    BY <1>1, <1>2 DEF ToDo
  <2>2. tx.asked[j] \in Dead(db, tx.now)
    BY <1>1 DEF SoFar, SweptSoFar
  <2> QED BY <1>1, <2>1, <2>2 DEF ChecksSoFar, Dead
<1>3. OnlyAt(tx.work, tx.work, r)
  BY DEF OnlyAt
<1>4. e.leases[r] = NoLease => LeftIn(e, InTurn(db, e, tx.asked, k), r, tx.now)
  BY <1>1, <1>2, <1>3, LeavesInTurn
<1>5. e \in DB /\ (e = tx.work \/ \E i : PromotedAt(tx.work, e, r, tx.now, i))
  BY <1>1, PromoteType, PromoteFields
<1> HIDE DEF e
<1>6. OnlyAt(tx.work, e, r) /\ e.holders = tx.work.holders
  BY <1>3, <1>5 DEF PromotedAt
<1>7. ASSUME NEW s \in Resource \ {r}
      PROVE  /\ OldestPendingWaiter(e, s) = OldestPendingWaiter(tx.work, s)
             /\ \A w \in OldestPendingWaiter(tx.work, s) : e.waiters[w] = tx.work.waiters[w]
  BY <1>1, <1>5, OldestElsewhere
<1>8. \A i \in DOMAIN tx.asked \ {k} : ~ToDo(tx, tx.done + 1, i) => i < k /\ ~ToDo(tx, tx.done, i)
  BY <1>1 DEF ToDo
<1> QED BY <1>1, <1>4, <1>5, <1>6, <1>7, <1>8, IterationLeaves

LeftInv == CheckInv /\ (tx # NoTx /\ tx.op # "bulk_acquire" => LeftSoFar)

LEMMA LeftInvInit == Init => LeftInv
BY CheckInvInit DEF Init, LeftInv

\* When it begins a loop is done with nothing.
LEMMA LeftBegins ==
    ASSUME NEW now \in Instant, BulkOps(now) \/ ExpireAll(now), tx'.asked \in Seq(Resource)
    PROVE  LeftSoFar'
<1>1. tx'.done = 0
  BY BulkBegins
<1>2. \A i \in DOMAIN tx'.asked : ToDo(tx', tx'.done, i)
  <2>1. DOMAIN tx'.asked = 1 .. Len(tx'.asked) /\ Len(tx'.asked) \in Nat
    OBVIOUS
  <2> QED BY <1>1, <2>1 DEF ToDo
<1> QED BY <1>2 DEF LeftSoFar

LEMMA LeftInvStep ==
    ASSUME LeftInv, [Next]_vars
    PROVE  LeftInv'
<1>1. CheckInv'
  BY CheckInvStep DEF LeftInv
<1>2. SUFFICES ASSUME tx' # NoTx, tx'.op # "bulk_acquire" PROVE LeftSoFar'
  BY <1>1 DEF LeftInv
<1>3. CASE UNCHANGED <<db, tx>>
  BY <1>2, <1>3 DEF LeftInv, LeftSoFar, ToDo
<1>4. ASSUME NEW now \in Instant, BulkOps(now) \/ ExpireAll(now) PROVE LeftSoFar'
  <2>1. tx' \in Tx
    BY <1>1, <1>2 DEF CheckInv, QuotaInv, BatchInv, LockInv, Inv, TypeInv, TypeOK
  <2>2. tx'.asked \in Seq(Resource)
    BY <2>1 DEF Tx
  <2> QED BY <1>4, <2>2, LeftBegins
<1>5. ASSUME tx # NoTx, Open, NEW k \in DOMAIN tx.asked,
             Acquiring(k) \/ Releasing(k) \/ Reaping(k) \/ Promoting(k)
      PROVE  LeftSoFar'
  <2>1. tx'.op = tx.op
    BY <1>5 DEF Acquiring, Releasing, Reaping, Promoting, Iterated
  <2>2. LeftSoFar /\ ChecksSoFar /\ SoFar /\ ~Acquiring(k)
    BY <1>2, <1>5, <2>1 DEF LeftInv, CheckInv, QuotaInv, BatchInv, Acquiring
  <2> QED BY <1>5, <2>2, ReleasingLeaves, ReapingLeaves, PromotingLeaves
<1> QED BY <1>2, <1>3, <1>4, <1>5, OpenSteps DEF LeftInv, CheckInv, QuotaInv, BatchInv

LEMMA LeftInvariant == Spec => []LeftInv
<1>1. LeftInv /\ [Next]_vars => LeftInv'
  BY LeftInvStep
<1> QED BY <1>1, LeftInvInit, PTL DEF Spec

\* What WaiterLeftOnlyAtCap says of a step.
LeftStep ==
    \A r \in Resource, now \in Instant :
        /\ db.leases[r] # NoLease /\ db'.leases[r] = NoLease
        /\ RanAt(now)
        => \A i \in OldestPendingWaiter(db', r) :
              AtCap(db', LeasesInTurn(r), db'.waiters[i].holder, now)

\* A transaction of this kind frees no resource.
FreesNothing(d0, d) ==
    \A r \in Resource : d0.leases[r] # NoLease => d.leases[r] # NoLease

LEMMA PutFreesNothing ==
    ASSUME NEW d0 \in DB, NEW d, NEW r \in Resource, NEW l \in Lease,
           d.leases = [d0.leases EXCEPT ![r] = l]
    PROVE  FreesNothing(d0, d)
BY LeaseNotNull DEF FreesNothing, DB

LEMMA PromoteFreesNothing ==
    ASSUME NEW d \in DB, NEW r \in Resource, NEW now \in Instant
    PROVE  FreesNothing(d, PromoteWaiterFor(d, r, now))
<1> DEFINE e == PromoteWaiterFor(d, r, now)
<1>1. ASSUME NEW i, PromotedAt(d, e, r, now, i) PROVE FreesNothing(d, e)
  <2>1. /\ d.waiters[i].holder \in Holder /\ d.waiters[i].ttl \in TTL /\ OnlyAt(d, e, r)
        /\ e.leases[r] = NewLease(d, d.waiters[i].holder, d.waiters[i].ttl, now)
    BY <1>1 DEF PromotedAt
  <2>2. e.leases[r] # NoLease
    BY <2>1, NewLeaseType
  <2> QED BY <2>1, <2>2 DEF FreesNothing, OnlyAt
<1>2. e = d \/ \E i : PromotedAt(d, e, r, now, i)
  BY PromoteFields
<1> HIDE DEF e
<1>3. FreesNothing(d, e)
  BY <1>1, <1>2 DEF FreesNothing
<1> QED BY <1>3 DEF e

LEMMA GrantFreesNothing ==
    ASSUME NEW d \in DB, NEW r \in Resource, NEW h \in Holder, NEW ttl \in TTL,
           NEW now \in Instant, NEW action
    PROVE  FreesNothing(d, Grant(d, r, h, ttl, now, action))
<1> DEFINE e == Grant(d, r, h, ttl, now, action)
<1>1. e.leases[r] = NewLease(d, h, ttl, now) /\ OnlyAt(d, e, r)
  BY GrantFields
<1>2. NewLease(d, h, ttl, now) # NoLease
  BY NewLeaseType
<1> HIDE DEF e
<1>3. FreesNothing(d, e)
  BY <1>1, <1>2 DEF FreesNothing, OnlyAt
<1> QED BY <1>3 DEF e

\* A call at now that leaves no transaction open has no list to go on with.
LeftNow(now) ==
    \A r \in Resource :
        db.leases[r] # NoLease /\ db'.leases[r] = NoLease => LeftIn(db', db'.leases, r, now)

LEMMA LeaseOpsLeave ==
    ASSUME db \in DB, NEW now \in Instant, LeaseOps(now)
    PROVE  LeftNow(now)
<1>a. FreesNothing(db, db') => LeftNow(now)
  BY DEF FreesNothing, LeftNow
<1>1. ASSUME NEW r \in Resource, NEW h \in Holder, NEW ttl \in TTL, Acquire(r, h, now, ttl)
      PROVE  FreesNothing(db, db')
  <2>1. db' = Grant(db, r, h, ttl, now, "acquire")
    BY <1>1 DEF Acquire, Update
  <2> QED BY <2>1, GrantFreesNothing
<1>2. ASSUME NEW r \in Resource, NEW h \in Holder, NEW t, NEW ttl \in TTL, Renew(r, h, t, now, ttl)
      PROVE  FreesNothing(db, db')
  <2> DEFINE l == [db.leases[r] EXCEPT !.deadline = now + ttl]
  <2>1. db.leases[r] \in Lease
    BY <1>2 DEF Renew, RenewError, DB
  <2>2. l \in Lease
    BY <2>1, TimeAssumption DEF Lease
  <2>3. db' = AppendAudit(PutLease(db, r, l), "renew", r, h, t)
    BY <1>2 DEF Renew, Update
  <2> HIDE DEF l
  <2>4. db'.leases = [db.leases EXCEPT ![r] = l]
    BY <2>3 DEF AppendAudit, PutLease, DB
  <2> QED BY <2>2, <2>4, PutFreesNothing
<1>3. ASSUME NEW r \in Resource, NEW h \in Holder, NEW t, Release(r, h, t, now)
      PROVE  LeftNow(now)
  <2> DEFINE m == EndLease(db, r, "release")
             e == PromoteWaiterFor(m, r, now)
  <2>1. db.leases[r] # NoLease /\ db' = e
    BY <1>3 DEF Release, ReleaseError, Update
  <2>2. m \in DB /\ OnlyAt(db, m, r)
    BY <2>1, EndLeaseType, EndFields DEF EndAction
  <2> HIDE DEF m
  <2>3. FreesNothing(m, e)
    BY <2>2, PromoteFreesNothing
  <2>4. ASSUME e.leases[r] = NoLease PROVE LeftIn(e, e.leases, r, now)
    <3>1. /\ e = m
          /\ \A w \in OldestPendingWaiter(m, r) : ~WithinQuota(m, m.waiters[w].holder, now, 1)
      BY <2>2, <2>4, PromoteLeaves
    <3> HIDE DEF e
    <3> SUFFICES ASSUME NEW w \in OldestPendingWaiter(m, r)
                 PROVE  AtCap(m, m.leases, m.waiters[w].holder, now)
      BY <3>1 DEF LeftIn
    <3>2. w \in DOMAIN m.waiters
      BY DEF OldestPendingWaiter, Pending
    <3>a. m.waiters[w] \in Waiter
      BY <2>2, <3>2 DEF DB
    <3>3. m.waiters[w].holder \in Holder
      BY <3>a DEF Waiter
    <3>4. \A s \in Resource :
              m.leases[s] # NoLease /\ m.leases[s].holder = m.waiters[w].holder
              /\ now < m.leases[s].deadline
                  <=> s \in ActiveResources(m, m.waiters[w].holder, now)
      BY DEF ActiveResources, Active
    <3> QED BY <2>2, <3>1, <3>3, <3>4, NoRoomIsAtCap
  <2> HIDE DEF e
  <2>5. ASSUME NEW s \in Resource, db.leases[s] # NoLease, e.leases[s] = NoLease
        PROVE  s = r
    BY <2>2, <2>3, <2>5 DEF FreesNothing, OnlyAt
  <2> QED BY <2>1, <2>4, <2>5 DEF LeftNow
<1>4. ASSUME NEW r \in Resource, NEW h \in Holder, NEW t, NEW newHolder \in Holder,
             Transfer(r, h, t, newHolder, now)
      PROVE  FreesNothing(db, db')
  <2> DEFINE l == [db.leases[r] EXCEPT !.holder = newHolder]
  <2>1. db.leases[r] \in Lease
    BY <1>4 DEF Transfer, ReleaseError, DB
  <2>2. l \in Lease
    BY <2>1 DEF Lease
  <2>3. db' = AppendAudit(PutLease(db, r, l), "transfer", r, newHolder, t)
    BY <1>4 DEF Transfer, Update
  <2> HIDE DEF l
  <2>4. db'.leases = [db.leases EXCEPT ![r] = l]
    BY <2>3 DEF AppendAudit, PutLease, DB
  <2> QED BY <2>2, <2>4, PutFreesNothing
<1>5. ASSUME NEW r \in Resource, NEW h \in Holder, NEW ttl \in TTL, EnqueueWaiter(r, h, ttl, now)
      PROVE  FreesNothing(db, db')
  <2>1. ASSUME NEW d \in DB, FreesNothing(db, d), NEW status, NEW t,
               db' = AddWaiter(d, r, h, ttl, now, status, t)
        PROVE  FreesNothing(db, db')
    <3>1. db'.leases = d.leases
      BY <2>1 DEF AddWaiter, DB
    <3> QED BY <2>1, <3>1 DEF FreesNothing
  <2>2. CASE EnqueuePending(r, h, ttl, now)
    <3>1. Handover(db, r, now) \in DB /\ FreesNothing(db, Handover(db, r, now))
      BY PromoteType, PromoteFreesNothing DEF Handover, FreesNothing
    <3>2. db' = AddWaiter(Handover(db, r, now), r, h, ttl, now, "pending", 0)
      BY <2>2 DEF EnqueuePending, Update
    <3> QED BY <2>1, <3>1, <3>2
  <2>3. CASE EnqueueImmediate(r, h, ttl, now)
    <3>1. /\ Grant(db, r, h, ttl, now, "acquire") \in DB
          /\ FreesNothing(db, Grant(db, r, h, ttl, now, "acquire"))
      BY GrantType, GrantFreesNothing DEF GrantAction
    <3>2. db' = AddWaiter(Grant(db, r, h, ttl, now, "acquire"), r, h, ttl, now, "granted", db.next)
      BY <2>3 DEF EnqueueImmediate, Update
    <3> QED BY <2>1, <3>1, <3>2
  <2> QED BY <1>5, <2>2, <2>3 DEF EnqueueWaiter
<1> QED BY <1>a, <1>1, <1>2, <1>3, <1>4, <1>5 DEF LeaseOps

\* Nobody waits for a free resource without reason: a transaction that frees
\* one and leaves its oldest waiter pending found the holder of that waiter at
\* its cap when it came to the resource, counting the leases alive then.
THEOREM WaitersLeftAtCap == Spec => WaiterLeftOnlyAtCap
<1>1. ASSUME LeftInv, [Next]_vars PROVE [LeftStep]_vars
  <2>a. LockInv /\ db \in DB
    BY <1>1, LockHere DEF LeftInv, CheckInv, QuotaInv, BatchInv
  <2>b. db'.leases = db.leases => LeftStep
    BY DEF LeftStep
  <2>1. CASE tx # NoTx /\ db' # db
    <3>1. /\ Open /\ SoFar /\ Committing /\ db' = tx.work
      BY <1>1, <2>1, BatchCommits DEF LeftInv, CheckInv, QuotaInv
    <3>2. CASE tx.op # "bulk_acquire"
      <4> SUFFICES ASSUME NEW r \in Resource, db.leases[r] # NoLease, db'.leases[r] = NoLease
                   PROVE  LeftIn(db', LeasesInTurn(r), r, tx.now)
        BY <2>1 DEF LeftStep, LeftIn, RanAt
      <4>1. PICK i \in DOMAIN tx.asked : tx.asked[i] = r
        BY <3>1 DEF SoFar, Untouched
      <4>2. LeftIn(db', InTurn(db, db', tx.asked, i), r, tx.now)
        BY <1>1, <2>1, <3>1, <3>2, <4>1 DEF LeftInv, LeftSoFar, Committing
      <4>3. LeasesInTurn(r) = InTurn(db, db', tx.asked, i)
        <5>1. \A s \in Resource :
                 (\E k, j \in DOMAIN tx.asked : k < j /\ tx.asked[k] = r /\ tx.asked[j] = s)
                   <=> \E j \in DOMAIN tx.asked : i < j /\ tx.asked[j] = s
          BY <3>1, <4>1 DEF Open
        <5> QED BY <2>1, <5>1 DEF LeasesInTurn, InTurn
      <4> QED BY <4>2, <4>3
    <3>3. CASE tx.op = "bulk_acquire"
      <4>1. FreesNothing(db, db')
        BY <3>1, <3>3 DEF SoFar, AcquiredSoFar, Untouched, Committing, FreesNothing
      <4> QED BY <4>1 DEF FreesNothing, LeftStep
    <3> QED BY <3>2, <3>3
  <2>2. CASE tx = NoTx
    <3>1. ASSUME NEW now \in Instant, Call(now) PROVE LeftNow(now)
      <4>a. db'.leases = db.leases => LeftNow(now)
        BY DEF LeftNow
      <4>1. CASE BulkOps(now) \/ ExpireAll(now)
        BY <2>a, <4>1, <4>a, BulkOpsTurn
      <4>2. CASE HolderOps(now) \/ \E i \in DOMAIN db.waiters : CancelWaiter(i)
        <5>1. db'.leases = db.leases
          BY <2>a, <4>2 DEF HolderOps, PutHolder, SetQuota, DeleteHolder, CancelWaiter,
                            SetWaiterStatus, Update, DB
        <5> QED BY <4>a, <5>1
      <4> QED BY <2>a, <3>1, <4>1, <4>2, LeaseOpsLeave DEF Call
    <3>2. db' \in DB
      BY <1>1, LeftInvStep DEF LeftInv, CheckInv, QuotaInv, BatchInv, LockInv, Inv, TypeInv, TypeOK
    <3>3. \A r \in Resource : LeasesInTurn(r) = db'.leases
      BY <2>2, <3>2 DEF LeasesInTurn, DB
    <3> QED BY <2>2, <3>1, <3>3 DEF LeftStep, LeftNow, LeftIn, RanAt
  <2>3. db' = db => LeftStep
    BY <2>b
  <2> QED BY <1>1, <2>1, <2>2, <2>3
<1>2. LeftInv /\ [Next]_vars => [LeftStep]_vars
  BY <1>1
<1> QED BY <1>2, LeftInvariant, PTL DEF Spec, WaiterLeftOnlyAtCap, LeftStep
=============================================================================
