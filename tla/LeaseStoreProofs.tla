-------------------------- MODULE LeaseStoreProofs --------------------------
(***************************************************************************)
(* Proofs about LeaseStore, for every set of resources, holders and        *)
(* instants and every bound.                                               *)
(*                                                                         *)
(* A transaction is a composition of a few functions on databases, so the  *)
(* proofs are too: one lemma per function says what it preserves, and the  *)
(* theorems put them together, once for the committed database and once    *)
(* for the copy an open transaction works on.                              *)
(*                                                                         *)
(* In this order: types; the audit log and the lease table; the store as   *)
(* an implementation of FencedLock.                                        *)
(***************************************************************************)
EXTENDS LeaseStore, TLAPS, FiniteSetTheorems

-----------------------------------------------------------------------------
(* Types *)

LEMMA AllocTokenType ==
    ASSUME NEW d \in DB
    PROVE  AllocToken(d) \in DB
<1>1. d.next + 1 \in Token
  BY DEF DB, Token
<1> QED BY <1>1 DEF AllocToken, DB

LEMMA PutLeaseType ==
    ASSUME NEW d \in DB, NEW r \in Resource, NEW l \in Lease \cup {NoLease}
    PROVE  PutLease(d, r, l) \in DB
BY DEF PutLease, DB

LEMMA AppendAuditType ==
    ASSUME NEW d \in DB, NEW action \in AuditAction, NEW r \in Resource,
           NEW h \in Holder, NEW t \in Token
    PROVE  AppendAudit(d, action, r, h, t) \in DB
<1>1. [action |-> action, resource |-> r, holder |-> h, token |-> t] \in AuditEntry
  BY DEF AuditEntry
<1>2. Append(d.audit, [action |-> action, resource |-> r, holder |-> h, token |-> t])
        \in Seq(AuditEntry)
  BY <1>1 DEF DB
<1> QED BY <1>2 DEF AppendAudit, DB

LEMMA GrantType ==
    ASSUME NEW d \in DB, NEW r \in Resource, NEW h \in Holder, NEW ttl \in TTL,
           NEW now \in Instant, NEW action \in GrantAction
    PROVE  Grant(d, r, h, ttl, now, action) \in DB
<1> DEFINE l == [holder |-> h, token |-> d.next, acquired |-> now, deadline |-> now + ttl]
<1>1. d.next \in Token
  BY DEF DB
<1>2. l \in Lease
  BY <1>1, TimeAssumption DEF Lease
<1>3. PutLease(AllocToken(d), r, l) \in DB
  BY <1>2, AllocTokenType, PutLeaseType
<1>4. action \in AuditAction
  BY DEF AuditAction
<1> HIDE DEF l
<1>5. AppendAudit(PutLease(AllocToken(d), r, l), action, r, h, d.next) \in DB
  BY <1>1, <1>3, <1>4, AppendAuditType
<1> QED BY <1>5 DEF Grant, l

LEMMA EndLeaseType ==
    ASSUME NEW d \in DB, NEW r \in Resource, d.leases[r] # NoLease,
           NEW action \in EndAction
    PROVE  EndLease(d, r, action) \in DB
<1>1. d.leases[r].holder \in Holder /\ d.leases[r].token \in Token
  BY DEF DB, Lease
<1>2. PutLease(d, r, NoLease) \in DB
  BY PutLeaseType
<1>3. action \in AuditAction
  BY DEF AuditAction
<1> QED BY <1>1, <1>2, <1>3, AppendAuditType DEF EndLease

LEMMA AddWaiterType ==
    ASSUME NEW d \in DB, NEW r \in Resource, NEW h \in Holder, NEW ttl \in TTL,
           NEW now \in Instant, NEW status \in {"pending", "granted", "cancelled"},
           NEW t \in Nat
    PROVE  AddWaiter(d, r, h, ttl, now, status, t) \in DB
<1> DEFINE w == [resource |-> r, holder |-> h, ttl |-> ttl, created |-> now,
                 status |-> status, token |-> t]
<1>1. w \in Waiter
  BY TimeAssumption DEF Waiter
<1>2. Append(d.waiters, w) \in Seq(Waiter)
  BY <1>1 DEF DB
<1> QED BY <1>2 DEF AddWaiter, DB

LEMMA SetWaiterStatusType ==
    ASSUME NEW d \in DB, NEW i \in DOMAIN d.waiters,
           NEW status \in {"pending", "granted", "cancelled"}, NEW t \in Nat
    PROVE  SetWaiterStatus(d, i, status, t) \in DB
<1> DEFINE w == [d.waiters[i] EXCEPT !.status = status, !.token = t]
<1>1. d.waiters \in Seq(Waiter)
  BY DEF DB
<1>2. d.waiters[i] \in Waiter
  BY <1>1
<1>3. w \in Waiter
  BY <1>2 DEF Waiter
<1> HIDE DEF w
<1>4. [d.waiters EXCEPT ![i] = w] \in Seq(Waiter)
  BY <1>1, <1>3
<1>5. [d EXCEPT !.waiters = [d.waiters EXCEPT ![i] = w]] \in DB
  BY <1>4 DEF DB
<1> QED BY <1>5 DEF SetWaiterStatus, w

\* A promotion grants the lease to one pending waiter of r, or changes nothing.
LEMMA PromoteCases ==
    ASSUME NEW d \in DB, NEW r \in Resource, NEW now \in Instant
    PROVE  \/ PromoteWaiterFor(d, r, now) = d
           \/ \E i \in Pending(d, r) :
                 /\ i \in DOMAIN d.waiters
                 /\ d.waiters[i] \in Waiter
                 /\ WithinQuota(d, d.waiters[i].holder, now, 1)
                 /\ PromoteWaiterFor(d, r, now) =
                      SetWaiterStatus(Grant(d, r, d.waiters[i].holder, d.waiters[i].ttl,
                                            now, "waiter_grant"),
                                      i, "granted", d.next)
<1>1. CASE OldestPendingWaiter(d, r) = {}
  BY <1>1 DEF PromoteWaiterFor
<1>2. CASE OldestPendingWaiter(d, r) # {}
  <2> DEFINE i == CHOOSE i \in OldestPendingWaiter(d, r) : TRUE
  <2>1. i \in OldestPendingWaiter(d, r)
    BY <1>2
  <2>2. i \in Pending(d, r) /\ i \in DOMAIN d.waiters
    BY <2>1 DEF OldestPendingWaiter, Pending
  <2>3. d.waiters[i] \in Waiter
    BY <2>2 DEF DB
  <2>4. CASE WithinQuota(d, d.waiters[i].holder, now, 1)
    <3>1. PromoteWaiterFor(d, r, now) =
            SetWaiterStatus(Grant(d, r, d.waiters[i].holder, d.waiters[i].ttl, now,
                                  "waiter_grant"),
                            i, "granted", d.next)
      BY <1>2, <2>4 DEF PromoteWaiterFor
    <3> QED BY <2>2, <2>3, <2>4, <3>1
  <2>5. CASE ~WithinQuota(d, d.waiters[i].holder, now, 1)
    BY <1>2, <2>5 DEF PromoteWaiterFor
  <2> QED BY <2>4, <2>5
<1> QED BY <1>1, <1>2

LEMMA PromoteType ==
    ASSUME NEW d \in DB, NEW r \in Resource, NEW now \in Instant
    PROVE  PromoteWaiterFor(d, r, now) \in DB
<1>1. CASE PromoteWaiterFor(d, r, now) = d
  BY <1>1
<1>2. ASSUME NEW i \in Pending(d, r), i \in DOMAIN d.waiters, d.waiters[i] \in Waiter,
             PromoteWaiterFor(d, r, now) =
               SetWaiterStatus(Grant(d, r, d.waiters[i].holder, d.waiters[i].ttl, now,
                                     "waiter_grant"),
                               i, "granted", d.next)
      PROVE  PromoteWaiterFor(d, r, now) \in DB
  <2> DEFINE g == Grant(d, r, d.waiters[i].holder, d.waiters[i].ttl, now, "waiter_grant")
  <2>1. d.waiters[i].holder \in Holder /\ d.waiters[i].ttl \in TTL
    BY <1>2 DEF Waiter
  <2>2. g \in DB
    BY <2>1, GrantType DEF GrantAction
  <2>3. g.waiters = d.waiters
    BY DEF Grant, AppendAudit, PutLease, AllocToken, DB
  <2>4. d.next \in Nat
    BY DEF DB, Token
  <2> HIDE DEF g
  <2>5. SetWaiterStatus(g, i, "granted", d.next) \in DB
    BY <1>2, <2>2, <2>3, <2>4, SetWaiterStatusType
  <2> QED BY <1>2, <2>5 DEF g
<1> QED BY <1>1, <1>2, PromoteCases

-----------------------------------------------------------------------------
(* The open transaction *)

\* A loop works on distinct resources, and a loop that ends leases has not yet
\* touched those it still has to end: an iteration finds the lease it deletes.
LoopInv ==
    tx # NoTx =>
        /\ \A i, j \in DOMAIN tx.asked : tx.asked[i] = tx.asked[j] => i = j
        /\ tx.op # "bulk_acquire" =>
              \A i \in DOMAIN tx.asked :
                  tx.done < i => tx.work.leases[tx.asked[i]] # NoLease

TypeInv == TypeOK /\ LoopInv

LEMMA TypeInit == Init => TypeInv
BY DEF Init, TypeInv, TypeOK, LoopInv, EmptyDB, DB, Token

\* What a transaction without a loop does, whatever it computes.
LEMMA UpdateType ==
    ASSUME TypeInv, NEW d, Update(d), d \in DB
    PROVE  TypeInv'
BY DEF TypeInv, TypeOK, LoopInv, Update

LEMMA HandoverType ==
    ASSUME NEW d \in DB, NEW r \in Resource, NEW now \in Instant
    PROVE  Handover(d, r, now) \in DB
BY PromoteType DEF Handover

LEMMA LeaseOpsType ==
    ASSUME TypeInv, NEW now \in Instant, LeaseOps(now)
    PROVE  TypeInv'
<1> SUFFICES ASSUME NEW r \in Resource, NEW h \in Holder,
                    \/ \E ttl \in TTL : Acquire(r, h, now, ttl)
                    \/ \E t \in 1..MaxToken, ttl \in TTL : Renew(r, h, t, now, ttl)
                    \/ \E t \in 1..MaxToken : Release(r, h, t, now)
                    \/ \E t \in 1..MaxToken, newHolder \in Holder :
                          Transfer(r, h, t, newHolder, now)
                    \/ \E ttl \in TTL : EnqueueWaiter(r, h, ttl, now)
             PROVE  TypeInv'
  BY DEF LeaseOps
<1>a. db \in DB /\ db.leases[r] \in Lease \cup {NoLease} /\ db.next \in Token
  BY DEF TypeInv, TypeOK, DB
<1>1. ASSUME NEW ttl \in TTL, Acquire(r, h, now, ttl) PROVE TypeInv'
  <2>1. Grant(db, r, h, ttl, now, "acquire") \in DB
    BY <1>a, GrantType DEF GrantAction
  <2> QED BY <1>1, <2>1, UpdateType DEF Acquire
<1>2. ASSUME NEW t \in 1..MaxToken, NEW ttl \in TTL, Renew(r, h, t, now, ttl)
      PROVE  TypeInv'
  <2> DEFINE l == [db.leases[r] EXCEPT !.deadline = now + ttl]
  <2>1. db.leases[r] \in Lease
    BY <1>2, <1>a DEF Renew, RenewError
  <2>2. l \in Lease /\ t \in Token
    BY <2>1, TimeAssumption, BoundAssumption DEF Lease, Token
  <2>3. PutLease(db, r, l) \in DB
    BY <1>a, <2>2, PutLeaseType
  <2> HIDE DEF l
  <2>4. AppendAudit(PutLease(db, r, l), "renew", r, h, t) \in DB
    BY <2>2, <2>3, AppendAuditType DEF AuditAction
  <2> QED BY <1>2, <2>4, UpdateType DEF Renew, l
<1>3. ASSUME NEW t \in 1..MaxToken, Release(r, h, t, now) PROVE TypeInv'
  <2>1. db.leases[r] # NoLease
    BY <1>3 DEF Release, ReleaseError
  <2>2. EndLease(db, r, "release") \in DB
    BY <1>a, <2>1, EndLeaseType DEF EndAction
  <2>3. PromoteWaiterFor(EndLease(db, r, "release"), r, now) \in DB
    BY <2>2, PromoteType
  <2> QED BY <1>3, <2>3, UpdateType DEF Release
<1>4. ASSUME NEW t \in 1..MaxToken, NEW newHolder \in Holder,
             Transfer(r, h, t, newHolder, now)
      PROVE  TypeInv'
  <2> DEFINE l == [db.leases[r] EXCEPT !.holder = newHolder]
  <2>1. db.leases[r] \in Lease
    BY <1>4, <1>a DEF Transfer, ReleaseError
  <2>2. l \in Lease /\ t \in Token
    BY <2>1, BoundAssumption DEF Lease, Token
  <2>3. PutLease(db, r, l) \in DB
    BY <1>a, <2>2, PutLeaseType
  <2> HIDE DEF l
  <2>4. AppendAudit(PutLease(db, r, l), "transfer", r, newHolder, t) \in DB
    BY <2>2, <2>3, AppendAuditType DEF AuditAction
  <2> QED BY <1>4, <2>4, UpdateType DEF Transfer, l
<1>5. ASSUME NEW ttl \in TTL, EnqueueWaiter(r, h, ttl, now) PROVE TypeInv'
  <2>1. CASE EnqueuePending(r, h, ttl, now)
    <3>1. AddWaiter(Handover(db, r, now), r, h, ttl, now, "pending", 0) \in DB
      BY <1>a, HandoverType, AddWaiterType
    <3> QED BY <2>1, <3>1, UpdateType DEF EnqueuePending
  <2>2. CASE EnqueueImmediate(r, h, ttl, now)
    <3>1. Grant(db, r, h, ttl, now, "acquire") \in DB
      BY <1>a, GrantType DEF GrantAction
    <3>2. AddWaiter(Grant(db, r, h, ttl, now, "acquire"), r, h, ttl, now, "granted", db.next)
            \in DB
      BY <1>a, <3>1, AddWaiterType DEF Token
    <3> QED BY <2>2, <3>2, UpdateType DEF EnqueueImmediate
  <2> QED BY <1>5, <2>1, <2>2 DEF EnqueueWaiter
<1> QED BY <1>1, <1>2, <1>3, <1>4, <1>5

LEMMA HolderOpsType ==
    ASSUME TypeInv, NEW now \in Instant, HolderOps(now)
    PROVE  TypeInv'
<1>1. ASSUME NEW h \in Holder, NEW cap \in Cap \cup {Unregistered}
      PROVE  [db EXCEPT !.holders = [db.holders EXCEPT ![h] = cap]] \in DB
  BY DEF TypeInv, TypeOK, DB
<1>2. ASSUME NEW h \in Holder, NEW cap \in Cap, PutHolder(h, cap) \/ SetQuota(h, cap)
      PROVE  TypeInv'
  BY <1>1, <1>2, UpdateType DEF PutHolder, SetQuota
<1>3. ASSUME NEW h \in Holder, DeleteHolder(h, now) PROVE TypeInv'
  BY <1>1, <1>3, UpdateType DEF DeleteHolder
<1> QED BY <1>2, <1>3 DEF HolderOps

LEMMA CancelType ==
    ASSUME TypeInv, NEW i \in DOMAIN db.waiters, CancelWaiter(i)
    PROVE  TypeInv'
<1>1. db \in DB /\ db.waiters[i] \in Waiter
  BY DEF TypeInv, TypeOK, DB
<1>2. db.waiters[i].token \in Nat
  BY <1>1 DEF Waiter
<1>3. SetWaiterStatus(db, i, "cancelled", db.waiters[i].token) \in DB
  BY <1>1, <1>2, SetWaiterStatusType
<1> QED BY <1>3, UpdateType DEF CancelWaiter
\* Beginning a transaction on a list of distinct resources.
LEMMA BulkOpsType ==
    ASSUME TypeInv, NEW now \in Instant, BulkOps(now) \/ ExpireAll(now)
    PROVE  TypeInv'
<1>a. db \in DB
  BY DEF TypeInv, TypeOK
<1>b. ASSUME NEW n \in Nat, NEW asked \in Listing(n)
      PROVE  /\ asked \in Seq(Resource) /\ DOMAIN asked = 1..n /\ Len(asked) = n
             /\ \A i, j \in DOMAIN asked : asked[i] = asked[j] => i = j
  BY <1>b DEF Listing
<1>1. ASSUME NEW h \in Holder, NEW n \in 1..MaxBulk, NEW asked \in Listing(n),
             NEW ttl \in TTL, BulkAcquireBegin(h, asked, now, ttl)
      PROVE  TypeInv'
  <2>1. n \in Nat
    BY BoundAssumption
  <2>2. tx' = [op |-> "bulk_acquire", holder |-> h, ttl |-> ttl, now |-> now,
               asked |-> asked, done |-> 0, work |-> db] /\ db' = db
    BY <1>1 DEF BulkAcquireBegin, Begin
  <2>3. tx' \in Tx
    BY <1>a, <1>b, <2>1, <2>2 DEF Tx
  <2>4. LoopInv'
    BY <1>b, <2>1, <2>2 DEF LoopInv
  <2> QED BY <1>a, <2>2, <2>3, <2>4 DEF TypeInv, TypeOK
<1>2. ASSUME NEW h \in Holder, NEW n \in 1..MaxBulk, NEW asked \in Listing(n),
             NEW tokens \in [1..n -> 1..MaxToken], BulkReleaseBegin(h, asked, tokens, now)
      PROVE  TypeInv'
  <2>1. n \in Nat
    BY BoundAssumption
  <2>2. tx' = [op |-> "bulk_release", holder |-> h, now |-> now,
               asked |-> asked, done |-> 0, work |-> db] /\ db' = db
    BY <1>2 DEF BulkReleaseBegin, Begin
  <2>3. tx' \in Tx
    BY <1>a, <1>b, <2>1, <2>2 DEF Tx
  <2>4. \A i \in DOMAIN asked : db.leases[asked[i]] # NoLease
    BY <1>2 DEF BulkReleaseBegin, ReleaseError
  <2>5. LoopInv'
    BY <1>b, <2>1, <2>2, <2>4 DEF LoopInv
  <2> QED BY <1>a, <2>2, <2>3, <2>5 DEF TypeInv, TypeOK
<1>3. ASSUME ExpireAll(now) PROVE TypeInv'
  <2>1. Cardinality(Dead(db, now)) \in Nat
    BY ResourceAssumption, FS_Subset, FS_CardinalityType DEF Dead
  <2>2. PICK asked \in Listing(Cardinality(Dead(db, now))) : ExpireBegin(asked, now)
    BY <1>3 DEF ExpireAll
  <2>3. tx' = [op |-> "expire", now |-> now, asked |-> asked, done |-> 0, work |-> db]
        /\ db' = db
    BY <2>2 DEF ExpireBegin, Begin
  <2>4. tx' \in Tx
    BY <1>a, <1>b, <2>1, <2>3 DEF Tx
  <2>5. \A i \in DOMAIN asked : db.leases[asked[i]] # NoLease
    BY <2>2 DEF ExpireBegin, Dead
  <2>6. LoopInv'
    BY <1>b, <2>1, <2>3, <2>5 DEF LoopInv
  <2> QED BY <1>a, <2>3, <2>4, <2>6 DEF TypeInv, TypeOK
<1> QED BY <1>1, <1>2, <1>3 DEF BulkOps

\* The copy after an iteration is a database, and the iteration only touches
\* the lease of its own resource.
LEMMA PromoteLeases ==
    ASSUME NEW d \in DB, NEW r \in Resource, NEW now \in Instant, NEW s \in Resource, s # r
    PROVE  PromoteWaiterFor(d, r, now).leases[s] = d.leases[s]
<1>1. CASE PromoteWaiterFor(d, r, now) = d
  BY <1>1
<1>2. ASSUME NEW i \in Pending(d, r),
             PromoteWaiterFor(d, r, now) =
               SetWaiterStatus(Grant(d, r, d.waiters[i].holder, d.waiters[i].ttl, now,
                                     "waiter_grant"),
                               i, "granted", d.next)
      PROVE  PromoteWaiterFor(d, r, now).leases[s] = d.leases[s]
  BY <1>2 DEF SetWaiterStatus, Grant, AppendAudit, PutLease, AllocToken, DB
<1> QED BY <1>1, <1>2, PromoteCases

LEMMA EndLeaseLeases ==
    ASSUME NEW d \in DB, NEW r \in Resource, NEW action, NEW s \in Resource, s # r
    PROVE  EndLease(d, r, action).leases[s] = d.leases[s]
BY DEF EndLease, AppendAudit, PutLease, DB

LEMMA CommitType ==
    ASSUME TypeInv, tx # NoTx, NEW todo, Commit(todo)
    PROVE  TypeInv'
BY DEF TypeInv, TypeOK, LoopInv, Commit, Tx

LEMMA TxStepType ==
    ASSUME TypeInv, TxStep
    PROVE  TypeInv'
<1>a. tx # NoTx /\ tx \in Tx
  BY DEF TypeInv, TypeOK, TxStep, BulkAcquireStep, BulkReleaseStep, ExpireStep
<1>b. /\ tx.work \in DB /\ tx.now \in Instant
      /\ tx.asked \in Seq(Resource) /\ tx.done \in Nat
      /\ Len(tx.asked) \in Nat /\ DOMAIN tx.asked = 1..Len(tx.asked)
  BY <1>a DEF Tx
\* An iteration on resource k of the list keeps the type of the transaction,
\* and the loop invariant if it leaves the leases of the later ones alone.
<1>c. ASSUME NEW todo, NEW d \in DB, Iterate(todo, d)
      PROVE  /\ db' = db /\ tx' \in Tx
             /\ tx'.op = tx.op /\ tx'.asked = tx.asked
             /\ tx'.done = tx.done + 1 /\ tx'.work = d
  <2>1. tx' = [tx EXCEPT !.work = d, !.done = tx.done + 1] /\ db' = db
    BY <1>c DEF Iterate
  <2>2. tx.done + 1 \in Nat
    BY <1>b
  <2>3. CASE tx.op = "bulk_acquire"
    BY <1>a, <1>c, <2>1, <2>2, <2>3 DEF Tx
  <2>4. CASE tx.op = "bulk_release"
    BY <1>a, <1>c, <2>1, <2>2, <2>4 DEF Tx
  <2>5. CASE tx.op = "expire"
    BY <1>a, <1>c, <2>1, <2>2, <2>5 DEF Tx
  <2> QED BY <1>a, <2>3, <2>4, <2>5 DEF Tx
<1>d. ASSUME NEW todo, NEW d \in DB, Iterate(todo, d),
             tx.op # "bulk_acquire" =>
                \A i \in DOMAIN tx.asked :
                    tx.done + 1 < i => d.leases[tx.asked[i]] # NoLease
      PROVE  TypeInv'
  <2>1. LoopInv'
    BY <1>a, <1>c, <1>d DEF LoopInv, TypeInv
  <2>2. TypeOK'
    BY <1>a, <1>c, <1>d DEF TypeOK, TypeInv
  <2> QED BY <2>1, <2>2 DEF TypeInv
<1>1. CASE BulkAcquireStep
  <2> DEFINE r == tx.asked[tx.done + 1]
             d == Grant(tx.work, r, tx.holder, tx.ttl, tx.now, "bulk_acquire")
  <2>1. CASE Iterate(Len(tx.asked), d)
    <3>1. r \in Resource
      BY <1>b, <2>1 DEF Iterate
    <3>2. tx.holder \in Holder /\ tx.ttl \in TTL /\ tx.op = "bulk_acquire"
      BY <1>1, <1>a DEF Tx, BulkAcquireStep
    <3>3. d \in DB
      BY <1>b, <3>1, <3>2, GrantType DEF GrantAction
    <3> HIDE DEF d
    <3> QED BY <1>d, <2>1, <3>2, <3>3
  <2>2. CASE Commit(Len(tx.asked))
    BY <1>a, <2>2, CommitType
  <2> QED BY <1>1, <2>1, <2>2 DEF BulkAcquireStep
<1>2. CASE BulkReleaseStep
  <2> DEFINE r == tx.asked[tx.done + 1]
             e == EndLease(tx.work, r, "bulk_release")
             d == PromoteWaiterFor(e, r, tx.now)
  <2>1. CASE Iterate(Len(tx.asked), d)
    <3>1. r \in Resource /\ tx.done + 1 \in DOMAIN tx.asked
      BY <1>b, <2>1 DEF Iterate
    <3>2. tx.op = "bulk_release"
      BY <1>2 DEF BulkReleaseStep
    <3>3. tx.work.leases[r] # NoLease
      BY <1>a, <1>b, <3>1, <3>2 DEF TypeInv, LoopInv
    <3>4. e \in DB
      BY <1>b, <3>1, <3>3, EndLeaseType DEF EndAction
    <3>5. d \in DB
      BY <1>b, <3>1, <3>4, PromoteType
    <3>6. ASSUME NEW i \in DOMAIN tx.asked, tx.done + 1 < i
          PROVE  d.leases[tx.asked[i]] # NoLease
      <4>1. tx.asked[i] \in Resource /\ tx.asked[i] # r /\ i \in Nat
        BY <1>a, <1>b, <3>1, <3>6 DEF TypeInv, LoopInv
      <4>2. tx.work.leases[tx.asked[i]] # NoLease
        BY <1>a, <1>b, <3>2, <3>6, <4>1 DEF TypeInv, LoopInv
      <4>3. e.leases[tx.asked[i]] = tx.work.leases[tx.asked[i]]
        BY <1>b, <3>1, <4>1, EndLeaseLeases
      <4> HIDE DEF e
      <4>4. d.leases[tx.asked[i]] = e.leases[tx.asked[i]]
        BY <1>b, <3>1, <3>4, <4>1, PromoteLeases
      <4> QED BY <4>2, <4>3, <4>4
    <3> HIDE DEF d
    <3> QED BY <1>d, <2>1, <3>5, <3>6
  <2>2. CASE Commit(Len(tx.asked))
    BY <1>a, <2>2, CommitType
  <2> QED BY <1>2, <2>1, <2>2 DEF BulkReleaseStep
<1>3. CASE ExpireStep
  <2> DEFINE n == Len(tx.asked)
  <2>0. tx.op = "expire"
    BY <1>3 DEF ExpireStep
  <2>1. CASE tx.done < n /\ Iterate(2 * n, EndLease(tx.work, tx.asked[tx.done + 1], "expire"))
    <3> DEFINE r == tx.asked[tx.done + 1]
               d == EndLease(tx.work, r, "expire")
    <3>1. r \in Resource /\ tx.done + 1 \in DOMAIN tx.asked
      BY <1>b, <2>1
    <3>2. tx.work.leases[r] # NoLease
      BY <1>a, <1>b, <2>0, <3>1 DEF TypeInv, LoopInv
    <3>3. d \in DB
      BY <1>b, <3>1, <3>2, EndLeaseType DEF EndAction
    <3>4. ASSUME NEW i \in DOMAIN tx.asked, tx.done + 1 < i
          PROVE  d.leases[tx.asked[i]] # NoLease
      <4>1. tx.asked[i] \in Resource /\ tx.asked[i] # r /\ i \in Nat
        BY <1>a, <1>b, <3>1, <3>4 DEF TypeInv, LoopInv
      <4>2. tx.work.leases[tx.asked[i]] # NoLease
        BY <1>a, <1>b, <2>0, <3>4, <4>1 DEF TypeInv, LoopInv
      <4> QED BY <1>b, <3>1, <4>1, <4>2, EndLeaseLeases
    <3> HIDE DEF d
    <3> QED BY <1>d, <2>1, <3>3, <3>4 DEF d
  <2>2. CASE n <= tx.done
             /\ Iterate(2 * n, PromoteWaiterFor(tx.work, tx.asked[tx.done + 1 - n], tx.now))
    <3> DEFINE r == tx.asked[tx.done + 1 - n]
               d == PromoteWaiterFor(tx.work, r, tx.now)
    <3>1. r \in Resource
      BY <1>b, <2>2 DEF Iterate
    <3>2. d \in DB
      BY <1>b, <3>1, PromoteType
    <3>3. \A i \in DOMAIN tx.asked : ~(tx.done + 1 < i)
      BY <1>b, <2>2
    <3> HIDE DEF d
    <3> QED BY <1>d, <2>2, <3>2, <3>3 DEF d
  <2>3. CASE Commit(2 * n)
    BY <1>a, <2>3, CommitType
  <2> QED BY <1>3, <2>1, <2>2, <2>3 DEF ExpireStep
<1> QED BY <1>1, <1>2, <1>3 DEF TxStep

LEMMA CrashType ==
    ASSUME TypeInv, Crash
    PROVE  TypeInv'
BY DEF TypeInv, TypeOK, LoopInv, Crash

LEMMA TypeStep == TypeInv /\ [Next]_vars => TypeInv'
<1> SUFFICES ASSUME TypeInv, [Next]_vars PROVE TypeInv'
  OBVIOUS
<1>1. ASSUME NEW now \in Instant, Call(now) PROVE TypeInv'
  BY <1>1, LeaseOpsType, HolderOpsType, CancelType, BulkOpsType DEF Call
<1>2. CASE TxStep
  BY <1>2, TxStepType
<1>3. CASE Crash
  BY <1>3, CrashType
<1>4. CASE UNCHANGED vars
  BY <1>4 DEF vars, TypeInv, TypeOK, LoopInv
<1> QED BY <1>1, <1>2, <1>3, <1>4 DEF Next

\* Every bucket, and the copy of an open transaction, only ever holds records
\* of its own shape; in particular no loop deletes or logs a lease that is not
\* there.
THEOREM TypeCorrect == Spec => []TypeOK
<1>1. Spec => []TypeInv
  BY TypeInit, TypeStep, PTL DEF Spec
<1> QED BY <1>1, PTL DEF TypeInv

-----------------------------------------------------------------------------
(* The audit log and the lease table *)

\* Inductive form of StaleRejected: a superseded token is not on its resource.
StaleGone(d) ==
    \A i \in Grants(d) :
        Superseded(d, i) /\ d.leases[d.audit[i].resource] # NoLease =>
            d.leases[d.audit[i].resource].token # d.audit[i].token

\* The entries about r that show a token in use.
Issues(d, r) == {i \in About(d, r) : d.audit[i].action \notin EndAction}

\* Their tokens never fall, and the last of them is the one of the lease.
IssuedInOrder(d) ==
    \A r \in Resource :
        /\ \A i, j \in Issues(d, r) : i < j => d.audit[i].token <= d.audit[j].token
        /\ \A i \in Issues(d, r) : d.audit[i].token < d.next
        /\ d.leases[r] # NoLease =>
              /\ \E i \in Issues(d, r) : d.audit[i].token = d.leases[r].token
              /\ \A i \in Issues(d, r) : d.audit[i].token <= d.leases[r].token

LogInv(d) ==
    /\ GrantedOnceInOrder(d)
    /\ ReplaysToLeases(d)
    /\ StaleGone(d)
    /\ IssuedInOrder(d)

\* No entry of d0 is lost, moved or rewritten.
LogGrows(d0, d) ==
    \A i \in DOMAIN d0.audit : i \in DOMAIN d.audit /\ d.audit[i] = d0.audit[i]

\* d puts on a resource of d0 no token but its own or one issued since d0.
Newer(d0, d) ==
    /\ LogGrows(d0, d)
    /\ d0.next <= d.next
    /\ \A r \in Resource :
          d.leases[r] # NoLease =>
              \/ d0.leases[r] # NoLease /\ d0.leases[r].token = d.leases[r].token
              \/ d.leases[r].token \in d0.next .. d.next - 1

\* What a transaction does to the lease table, the counter and the log is a
\* sequence of these effects on one resource.
SameLog(d, e) == e.leases = d.leases /\ e.next = d.next /\ e.audit = d.audit

Logged(d, e, r, action, l) ==
    /\ l \in Lease
    /\ e.audit = Append(d.audit, [action |-> action, resource |-> r,
                                  holder |-> l.holder, token |-> l.token])

GrantEffect(d, e, r) ==
    \E action \in GrantAction, l \in Lease :
        /\ Logged(d, e, r, action, l)
        /\ l.token = d.next
        /\ e.next = d.next + 1
        /\ e.leases = [d.leases EXCEPT ![r] = l]

EndEffect(d, e, r) ==
    \E action \in EndAction, l \in Lease :
        /\ Logged(d, e, r, action, l)
        /\ e.next = d.next
        /\ e.leases = [d.leases EXCEPT ![r] = NoLease]

KeepEffect(d, e, r) ==
    \E action \in {"renew", "transfer"}, l \in Lease :
        /\ Logged(d, e, r, action, l)
        /\ d.leases[r] # NoLease
        /\ l.token = d.leases[r].token
        /\ e.next = d.next
        /\ e.leases = [d.leases EXCEPT ![r] = l]

\* An entry more on r: the entries before are as they were.
LEMMA LoggedEntries ==
    ASSUME NEW d \in DB, NEW e \in DB, NEW r \in Resource, NEW action, NEW l,
           Logged(d, e, r, action, l)
    PROVE  LET n == Len(d.audit) + 1 IN
           /\ n \in Nat \ {0}
           /\ DOMAIN d.audit = 1 .. n - 1
           /\ DOMAIN e.audit = 1 .. n
           /\ \A i \in 1 .. n - 1 : e.audit[i] = d.audit[i]
           /\ e.audit[n].action = action
           /\ e.audit[n].resource = r
           /\ e.audit[n].holder = l.holder
           /\ e.audit[n].token = l.token
BY DEF Logged, DB

LEMMA LoggedSets ==
    ASSUME NEW d \in DB, NEW e \in DB, NEW r \in Resource, NEW action, NEW l,
           Logged(d, e, r, action, l)
    PROVE  LET n == Len(d.audit) + 1 IN
           /\ About(e, r) = About(d, r) \cup {n}
           /\ \A s \in Resource \ {r} : About(e, s) = About(d, s)
           /\ Grants(e) = IF action \in GrantAction THEN Grants(d) \cup {n} ELSE Grants(d)
           /\ \A i \in Grants(d) : i < n
           /\ \A s \in Resource : \A i \in About(d, s) : i < n
<1> DEFINE n == Len(d.audit) + 1
<1>1. /\ n \in Nat \ {0}
      /\ DOMAIN d.audit = 1 .. n - 1
      /\ DOMAIN e.audit = 1 .. n
      /\ \A i \in 1 .. n - 1 : e.audit[i] = d.audit[i]
      /\ e.audit[n].action = action
      /\ e.audit[n].resource = r
  BY LoggedEntries
<1> HIDE DEF n
<1>2. About(e, r) = About(d, r) \cup {n}
  <2>1. 1 .. n = (1 .. n - 1) \cup {n}
    BY <1>1
  <2>2. \A i \in 1 .. n - 1 : e.audit[i].resource = d.audit[i].resource
    BY <1>1
  <2>3. n \in Nat /\ n \notin 1 .. n - 1
    BY <1>1
  <2>4. \A i : i \in About(e, r) <=> i \in About(d, r) \/ i = n
    BY <1>1, <2>1, <2>2 DEF About
  <2> QED BY <2>4
<1>3. \A s \in Resource \ {r} : About(e, s) = About(d, s)
  BY <1>1 DEF About
<1>4. CASE action \in GrantAction
  BY <1>1, <1>2, <1>3, <1>4 DEF About, Grants, n
<1>5. CASE action \notin GrantAction
  BY <1>1, <1>2, <1>3, <1>5 DEF About, Grants, n
<1> QED BY <1>4, <1>5

\* The last entry about r is the new one: the lease table replays again if it
\* agrees with that entry, and is the same elsewhere.
LEMMA ReplayStep ==
    ASSUME NEW d \in DB, NEW e \in DB, NEW r \in Resource, NEW action \in AuditAction,
           NEW l \in Lease, Logged(d, e, r, action, l), ReplaysToLeases(d),
           NEW k, e.leases = [d.leases EXCEPT ![r] = k],
           k = NoLease <=> action \in EndAction,
           k # NoLease => k = l
    PROVE  ReplaysToLeases(e)
<1> DEFINE n == Len(d.audit) + 1
<1>1. /\ n \in Nat \ {0}
      /\ DOMAIN d.audit = 1 .. n - 1
      /\ \A i \in 1 .. n - 1 : e.audit[i] = d.audit[i]
      /\ e.audit[n].action = action
      /\ e.audit[n].holder = l.holder
      /\ e.audit[n].token = l.token
  BY LoggedEntries
<1>2. /\ About(e, r) = About(d, r) \cup {n}
      /\ \A s \in Resource \ {r} : About(e, s) = About(d, s)
      /\ \A s \in Resource : \A i \in About(d, s) : i < n
  BY LoggedSets
<1>3. \A s \in Resource : About(d, s) \subseteq 1 .. n - 1
  BY <1>1 DEF About
<1> HIDE DEF n
<1>4. ASSUME NEW s \in Resource
      PROVE  /\ e.leases[s] = NoLease <=>
                   \A i \in About(e, s) :
                       IsLast(i, About(e, s)) => e.audit[i].action \in EndAction
             /\ \A i \in About(e, s) :
                   IsLast(i, About(e, s)) /\ e.leases[s] # NoLease =>
                       /\ e.audit[i].holder = e.leases[s].holder
                       /\ e.audit[i].token = e.leases[s].token
  <2>1. CASE s = r
    <3>1. e.leases[r] = k
      BY DEF DB
    <3>2. \A i \in About(e, r) : IsLast(i, About(e, r)) <=> i = n
      BY <1>1, <1>2, <1>3 DEF IsLast
    <3> QED BY <1>1, <1>2, <2>1, <3>1, <3>2
  <2>2. CASE s # r
    <3>1. e.leases[s] = d.leases[s] /\ About(e, s) = About(d, s)
      BY <1>2, <2>2 DEF DB
    <3>2. \A i \in About(d, s) : e.audit[i] = d.audit[i]
      BY <1>1, <1>3
    <3> QED BY <3>1, <3>2 DEF ReplaysToLeases
  <2> QED BY <2>1, <2>2
<1> QED BY <1>4 DEF ReplaysToLeases

LEMMA LeaseNotNull == NoLease \notin Lease
BY NullAssumption DEF Lease, Token

LEMMA EntryType ==
    ASSUME NEW d \in DB, NEW i \in DOMAIN d.audit
    PROVE  i \in Nat /\ d.audit[i] \in AuditEntry /\ d.audit[i].resource \in Resource
<1>1. d.audit \in Seq(AuditEntry)
  BY DEF DB
<1>2. d.audit[i] \in AuditEntry /\ i \in Nat
  BY <1>1
<1> QED BY <1>2 DEF AuditEntry

\* The tokens granted so far are those below the counter.
LEMMA GrantTokens ==
    ASSUME NEW d \in DB, GrantedOnceInOrder(d), NEW i \in Grants(d)
    PROVE  i \in DOMAIN d.audit /\ d.audit[i].token \in 1 .. d.next - 1
BY DEF GrantedOnceInOrder, Grants

\* An entry that grants nothing keeps the order of the grants.
LEMMA OrderKept ==
    ASSUME NEW d \in DB, NEW e \in DB, NEW r \in Resource, NEW action, NEW l,
           Logged(d, e, r, action, l), action \notin GrantAction, e.next = d.next,
           GrantedOnceInOrder(d)
    PROVE  GrantedOnceInOrder(e)
<1>1. Grants(e) = Grants(d)
  BY LoggedSets
<1>2. \A i \in Grants(d) : e.audit[i] = d.audit[i]
  BY LoggedEntries DEF Grants
<1>3. {e.audit[i].token : i \in Grants(e)} = {d.audit[i].token : i \in Grants(d)}
  BY <1>1, <1>2
<1> QED BY <1>1, <1>2, <1>3 DEF GrantedOnceInOrder

\* A grant whose token is the counter, which it increments, extends the order.
LEMMA OrderExtended ==
    ASSUME NEW d \in DB, NEW e \in DB, NEW r \in Resource, NEW action \in GrantAction, NEW l,
           Logged(d, e, r, action, l), l.token = d.next, e.next = d.next + 1,
           GrantedOnceInOrder(d)
    PROVE  GrantedOnceInOrder(e)
<1> DEFINE n == Len(d.audit) + 1
<1>1. /\ n \in Nat \ {0}
      /\ e.audit[n].token = d.next
      /\ Grants(e) = Grants(d) \cup {n}
      /\ \A i \in Grants(d) : i < n /\ e.audit[i] = d.audit[i]
  BY LoggedEntries, LoggedSets DEF Grants
<1>2. \A i \in Grants(d) : i \in Nat /\ d.audit[i].token \in 1 .. d.next - 1
  BY GrantTokens, EntryType
<1>3. d.next \in Nat \ {0}
  BY DEF DB, Token
<1> HIDE DEF n
<1>4. \A i, j \in Grants(e) : i < j => e.audit[i].token < e.audit[j].token
  <2> SUFFICES ASSUME NEW i \in Grants(e), NEW j \in Grants(e), i < j
               PROVE  e.audit[i].token < e.audit[j].token
    OBVIOUS
  <2>1. i \in Grants(d)
    BY <1>1, <1>2
  <2>2. CASE j \in Grants(d)
    BY <1>1, <2>1, <2>2 DEF GrantedOnceInOrder
  <2>3. CASE j = n
    BY <1>1, <1>2, <1>3, <2>1, <2>3
  <2> QED BY <1>1, <2>2, <2>3
<1>5. {e.audit[i].token : i \in Grants(e)} = {d.audit[i].token : i \in Grants(d)} \cup {d.next}
  BY <1>1
<1>6. {e.audit[i].token : i \in Grants(e)} = 1 .. e.next - 1
  <2>1. {e.audit[i].token : i \in Grants(e)} = (1 .. d.next - 1) \cup {d.next}
    BY <1>5 DEF GrantedOnceInOrder
  <2>2. (1 .. d.next - 1) \cup {d.next} = 1 .. e.next - 1
    BY <1>3
  <2> QED BY <2>1, <2>2
<1> QED BY <1>4, <1>6 DEF GrantedOnceInOrder

\* An entry more on r, whose lease becomes k: the order holds again if a token
\* that is given to r is not below those that r had.
LEMMA IssuedStep ==
    ASSUME NEW d \in DB, NEW e \in DB, NEW r \in Resource, NEW action \in AuditAction,
           NEW l \in Lease, Logged(d, e, r, action, l), IssuedInOrder(d),
           NEW k, e.leases = [d.leases EXCEPT ![r] = k],
           k # NoLease => k = l /\ action \notin EndAction,
           action \notin EndAction =>
               l.token < e.next /\ \A i \in Issues(d, r) : d.audit[i].token <= l.token,
           d.next <= e.next
    PROVE  IssuedInOrder(e)
<1> DEFINE n == Len(d.audit) + 1
<1>1. /\ n \in Nat \ {0}
      /\ DOMAIN d.audit = 1 .. n - 1
      /\ \A i \in 1 .. n - 1 : e.audit[i] = d.audit[i]
      /\ e.audit[n].action = action
      /\ e.audit[n].token = l.token
  BY LoggedEntries
<1>2. /\ About(e, r) = About(d, r) \cup {n}
      /\ \A s \in Resource \ {r} : About(e, s) = About(d, s)
  BY LoggedSets
<1> HIDE DEF n
<1>3. ASSUME NEW s \in Resource
      PROVE  /\ Issues(d, s) \subseteq 1 .. n - 1
             /\ \A i \in Issues(d, s) : e.audit[i] = d.audit[i] /\ d.audit[i].token \in Nat
  <2>1. Issues(d, s) \subseteq DOMAIN d.audit
    BY DEF Issues, About
  <2>2. \A i \in DOMAIN d.audit : d.audit[i].token \in Nat
    BY EntryType DEF AuditEntry, Token
  <2> QED BY <1>1, <2>1, <2>2
<1>4. /\ Issues(e, r) = IF action \in EndAction THEN Issues(d, r) ELSE Issues(d, r) \cup {n}
      /\ \A s \in Resource \ {r} : Issues(e, s) = Issues(d, s)
  <2>1. \A s \in Resource : About(d, s) \subseteq 1 .. n - 1
    BY <1>1 DEF About
  <2> QED BY <1>1, <1>2, <2>1 DEF Issues
<1>5. d.next \in Nat /\ e.next \in Nat /\ l.token \in Nat
  BY DEF DB, Token, Lease
<1>6. ASSUME NEW s \in Resource \ {r}
      PROVE  /\ e.leases[s] = d.leases[s] /\ Issues(e, s) = Issues(d, s)
             /\ \A i \in Issues(d, s) : e.audit[i] = d.audit[i] /\ d.audit[i].token \in Nat
  BY <1>3, <1>4 DEF DB
<1>7. e.leases[r] = k
  BY DEF DB
<1>8. ASSUME NEW s \in Resource
      PROVE  /\ \A i, j \in Issues(e, s) : i < j => e.audit[i].token <= e.audit[j].token
             /\ \A i \in Issues(e, s) : e.audit[i].token < e.next
             /\ e.leases[s] # NoLease =>
                   /\ \E i \in Issues(e, s) : e.audit[i].token = e.leases[s].token
                   /\ \A i \in Issues(e, s) : e.audit[i].token <= e.leases[s].token
  <2>1. CASE s # r
    <3>1. /\ \A i, j \in Issues(d, s) : i < j => d.audit[i].token <= d.audit[j].token
          /\ \A i \in Issues(d, s) : d.audit[i].token < d.next
          /\ d.leases[s] # NoLease =>
                /\ \E i \in Issues(d, s) : d.audit[i].token = d.leases[s].token
                /\ \A i \in Issues(d, s) : d.audit[i].token <= d.leases[s].token
      BY DEF IssuedInOrder
    <3> QED BY <1>5, <1>6, <2>1, <3>1
  <2>2. CASE s = r /\ action \in EndAction
    <3>1. Issues(e, s) = Issues(d, s) /\ e.leases[s] = NoLease
      BY <1>4, <1>7, <2>2
    <3>2. /\ \A i, j \in Issues(d, s) : i < j => d.audit[i].token <= d.audit[j].token
          /\ \A i \in Issues(d, s) : d.audit[i].token < d.next
      BY DEF IssuedInOrder
    <3> QED BY <1>3, <1>5, <3>1, <3>2
  <2>3. CASE s = r /\ action \notin EndAction
    <3>1. /\ Issues(e, s) = Issues(d, s) \cup {n}
          /\ e.leases[s] # NoLease => e.leases[s].token = l.token
          /\ l.token < e.next
          /\ \A i \in Issues(d, s) : d.audit[i].token <= l.token
      BY <1>4, <1>7, <2>3
    <3>2. /\ \A i, j \in Issues(d, s) : i < j => d.audit[i].token <= d.audit[j].token
          /\ \A i \in Issues(d, s) : d.audit[i].token < d.next
      BY DEF IssuedInOrder
    <3>3. \A i \in Issues(d, s) : i \in Nat /\ i < n
      BY <1>1, <1>3
    <3>4. /\ \A i \in Issues(d, s) : e.audit[i].token = d.audit[i].token
          /\ \A i \in Issues(d, s) : d.audit[i].token \in Nat
          /\ e.audit[n].token = l.token
      BY <1>1, <1>3
    <3>5. \A i, j \in Issues(e, s) : i < j => e.audit[i].token <= e.audit[j].token
      <4> SUFFICES ASSUME NEW i \in Issues(e, s), NEW j \in Issues(e, s), i < j
                   PROVE  e.audit[i].token <= e.audit[j].token
        OBVIOUS
      <4>1. i \in Issues(d, s)
        BY <1>1, <3>1, <3>3
      <4>2. CASE j \in Issues(d, s)
        BY <3>2, <3>4, <4>1, <4>2
      <4>3. CASE j = n
        BY <2>3, <3>1, <3>4, <4>1, <4>3
      <4> QED BY <3>1, <4>2, <4>3
    <3>6. \A i \in Issues(e, s) : e.audit[i].token < e.next
      BY <1>5, <3>1, <3>2, <3>4
    <3>7. \A i \in Issues(e, s) : e.audit[i].token <= l.token
      BY <1>5, <2>3, <3>1, <3>4
    <3> QED BY <3>1, <3>4, <3>5, <3>6, <3>7
  <2> QED BY <2>1, <2>2, <2>3
<1> QED BY <1>8 DEF IssuedInOrder

LEMMA GrantEffectInv ==
    ASSUME NEW d \in DB, NEW e \in DB, NEW r \in Resource, GrantEffect(d, e, r), LogInv(d)
    PROVE  LogInv(e)
<1> DEFINE n == Len(d.audit) + 1
<1>1. PICK action \in GrantAction, l \in Lease :
        /\ Logged(d, e, r, action, l)
        /\ l.token = d.next
        /\ e.next = d.next + 1
        /\ e.leases = [d.leases EXCEPT ![r] = l]
  BY DEF GrantEffect
<1>2. GrantedOnceInOrder(e)
  BY <1>1, OrderExtended DEF LogInv
<1>3. ReplaysToLeases(e)
  <2>1. action \in AuditAction /\ action \notin EndAction
    BY DEF AuditAction, GrantAction, EndAction
  <2> QED BY <1>1, <2>1, ReplayStep, LeaseNotNull DEF LogInv
<1>4. StaleGone(e)
  <2> SUFFICES ASSUME NEW i \in Grants(e), Superseded(e, i),
                      e.leases[e.audit[i].resource] # NoLease
               PROVE  e.leases[e.audit[i].resource].token # e.audit[i].token
    BY DEF StaleGone
  <2>1. /\ Grants(e) = Grants(d) \cup {n} /\ n \in Nat
        /\ DOMAIN e.audit = 1 .. n
        /\ About(e, r) = About(d, r) \cup {n}
        /\ \A s \in Resource \ {r} : About(e, s) = About(d, s)
        /\ \A j \in Grants(d) : j < n
        /\ \A j \in 1 .. n - 1 : e.audit[j] = d.audit[j]
        /\ DOMAIN d.audit = 1 .. n - 1
    BY <1>1, LoggedEntries, LoggedSets
  <2> HIDE DEF n
  <2>2. i # n
    BY <2>1 DEF Superseded, About
  <2>3. i \in Grants(d) /\ i \in 1 .. n - 1 /\ e.audit[i] = d.audit[i]
    BY <2>1, <2>2 DEF Grants
  <2>4. d.audit[i].token \in 1 .. d.next - 1 /\ d.next \in Nat
    BY <2>3, GrantTokens DEF LogInv, DB, Token
  <2>5. d.audit[i].resource \in Resource
    BY <2>1, <2>3, EntryType
  <2>6. CASE d.audit[i].resource = r
    BY <1>1, <2>3, <2>4, <2>6 DEF DB
  <2>7. CASE d.audit[i].resource # r
    <3>1. Superseded(d, i)
      BY <2>1, <2>3, <2>5, <2>7 DEF Superseded, About
    <3>2. e.leases[d.audit[i].resource] = d.leases[d.audit[i].resource]
      BY <1>1, <2>5, <2>7 DEF DB
    <3> QED BY <2>3, <3>1, <3>2 DEF LogInv, StaleGone
  <2> QED BY <2>6, <2>7
<1>5. IssuedInOrder(e)
  <2>1. action \in AuditAction /\ d.next \in Nat
    BY DEF AuditAction, GrantAction, DB, Token
  <2>2. \A i \in Issues(d, r) : d.audit[i].token <= l.token
    <3> SUFFICES ASSUME NEW i \in Issues(d, r) PROVE d.audit[i].token <= l.token
      OBVIOUS
    <3>1. d.audit[i].token < d.next
      BY DEF LogInv, IssuedInOrder
    <3>2. d.audit[i].token \in Nat
      BY EntryType DEF Issues, About, AuditEntry, Token
    <3> QED BY <1>1, <2>1, <3>1, <3>2
  <2>3. action \notin EndAction
    BY DEF GrantAction, EndAction
  <2>4. l.token < e.next /\ d.next <= e.next
    BY <1>1, <2>1
  <2> QED BY <1>1, <2>1, <2>2, <2>3, <2>4, IssuedStep DEF LogInv
<1> QED BY <1>2, <1>3, <1>4, <1>5 DEF LogInv

LEMMA EndEffectInv ==
    ASSUME NEW d \in DB, NEW e \in DB, NEW r \in Resource, EndEffect(d, e, r), LogInv(d)
    PROVE  LogInv(e)
<1> DEFINE n == Len(d.audit) + 1
<1>1. PICK action \in EndAction, l \in Lease :
        /\ Logged(d, e, r, action, l)
        /\ e.next = d.next
        /\ e.leases = [d.leases EXCEPT ![r] = NoLease]
  BY DEF EndEffect
<1>2. action \in AuditAction /\ action \notin GrantAction
  BY DEF AuditAction, GrantAction, EndAction
<1>3. GrantedOnceInOrder(e)
  BY <1>1, <1>2, OrderKept DEF LogInv
<1>4. ReplaysToLeases(e)
  BY <1>1, <1>2, ReplayStep DEF LogInv
<1>5. StaleGone(e)
  <2> SUFFICES ASSUME NEW i \in Grants(e), Superseded(e, i),
                      e.leases[e.audit[i].resource] # NoLease
               PROVE  e.leases[e.audit[i].resource].token # e.audit[i].token
    BY DEF StaleGone
  <2>1. /\ Grants(e) = Grants(d) /\ n \in Nat
        /\ \A s \in Resource \ {r} : About(e, s) = About(d, s)
        /\ \A j \in 1 .. n - 1 : e.audit[j] = d.audit[j]
        /\ DOMAIN d.audit = 1 .. n - 1
    BY <1>1, <1>2, LoggedEntries, LoggedSets
  <2> HIDE DEF n
  <2>2. i \in Grants(d) /\ i \in 1 .. n - 1 /\ e.audit[i] = d.audit[i]
    BY <2>1 DEF Grants
  <2>3. d.audit[i].resource \in Resource
    BY <2>1, <2>2, EntryType
  <2>4. d.audit[i].resource # r
    BY <1>1, <2>2 DEF DB
  <2>5. Superseded(d, i)
    BY <2>1, <2>2, <2>3, <2>4 DEF Superseded, About
  <2>6. e.leases[d.audit[i].resource] = d.leases[d.audit[i].resource]
    BY <1>1, <2>3, <2>4 DEF DB
  <2> QED BY <2>2, <2>5, <2>6 DEF LogInv, StaleGone
<1>6. IssuedInOrder(e)
  <2>1. d.next <= e.next
    BY <1>1 DEF DB, Token
  <2> QED BY <1>1, <1>2, <2>1, IssuedStep DEF LogInv
<1> QED BY <1>3, <1>4, <1>5, <1>6 DEF LogInv

LEMMA KeepEffectInv ==
    ASSUME NEW d \in DB, NEW e \in DB, NEW r \in Resource, KeepEffect(d, e, r), LogInv(d)
    PROVE  LogInv(e)
<1> DEFINE n == Len(d.audit) + 1
<1>1. PICK action \in {"renew", "transfer"}, l \in Lease :
        /\ Logged(d, e, r, action, l)
        /\ d.leases[r] # NoLease
        /\ l.token = d.leases[r].token
        /\ e.next = d.next
        /\ e.leases = [d.leases EXCEPT ![r] = l]
  BY DEF KeepEffect
<1>2. action \in AuditAction /\ action \notin GrantAction \cup EndAction
  BY DEF AuditAction, GrantAction, EndAction
<1>3. GrantedOnceInOrder(e)
  BY <1>1, <1>2, OrderKept DEF LogInv
<1>4. ReplaysToLeases(e)
  BY <1>1, <1>2, ReplayStep, LeaseNotNull DEF LogInv
<1>5. StaleGone(e)
  <2> SUFFICES ASSUME NEW i \in Grants(e), Superseded(e, i),
                      e.leases[e.audit[i].resource] # NoLease
               PROVE  e.leases[e.audit[i].resource].token # e.audit[i].token
    BY DEF StaleGone
  <2>1. /\ Grants(e) = Grants(d) /\ n \in Nat
        /\ About(e, r) = About(d, r) \cup {n}
        /\ \A s \in Resource \ {r} : About(e, s) = About(d, s)
        /\ \A j \in 1 .. n - 1 : e.audit[j] = d.audit[j]
        /\ DOMAIN d.audit = 1 .. n - 1
        /\ e.audit[n].action = action
    BY <1>1, <1>2, LoggedEntries, LoggedSets
  <2> HIDE DEF n
  <2>2. i \in Grants(d) /\ i \in 1 .. n - 1 /\ e.audit[i] = d.audit[i]
    BY <2>1 DEF Grants
  <2>3. d.audit[i].resource \in Resource
    BY <2>1, <2>2, EntryType
  <2>4. Superseded(d, i)
    <3>1. PICK j \in About(e, d.audit[i].resource) :
            i < j /\ e.audit[j].action \in GrantAction \cup EndAction
      BY <2>2 DEF Superseded
    <3>2. j # n
      BY <1>2, <2>1, <3>1
    <3>3. j \in About(d, d.audit[i].resource) /\ e.audit[j] = d.audit[j]
      BY <2>1, <2>3, <3>1, <3>2 DEF About
    <3> QED BY <3>1, <3>3 DEF Superseded
  <2>5. d.leases[d.audit[i].resource] # NoLease
        /\ e.leases[d.audit[i].resource].token = d.leases[d.audit[i].resource].token
    BY <1>1, <2>2, <2>3 DEF DB
  <2> QED BY <2>2, <2>4, <2>5 DEF LogInv, StaleGone
<1>6. IssuedInOrder(e)
  <2>1. d.next <= e.next
    BY <1>1 DEF DB, Token
  <2>2. \A i \in Issues(d, r) : d.audit[i].token <= l.token
    BY <1>1 DEF LogInv, IssuedInOrder
  <2>3. l.token < e.next
    <3>1. PICK i \in Issues(d, r) : d.audit[i].token = d.leases[r].token
      BY <1>1 DEF LogInv, IssuedInOrder
    <3>2. d.audit[i].token < d.next
      BY DEF LogInv, IssuedInOrder
    <3> QED BY <1>1, <3>1, <3>2
  <2> QED BY <1>1, <1>2, <2>1, <2>2, <2>3, IssuedStep DEF LogInv
<1> QED BY <1>3, <1>4, <1>5, <1>6 DEF LogInv
-----------------------------------------------------------------------------
(* The functions a transaction is made of have these effects *)

\* d is a database a transaction that began on d0 may have come to.
Good(d0, d) == d \in DB /\ LogInv(d) /\ Newer(d0, d)

LEMMA NewerRefl == ASSUME NEW d \in DB PROVE Newer(d, d)
BY DEF Newer, LogGrows, DB, Token

\* Each effect adds one entry at the end.
LEMMA EffectGrows ==
    ASSUME NEW d0 \in DB, NEW d \in DB, NEW e \in DB, LogGrows(d0, d), NEW r \in Resource,
           GrantEffect(d, e, r) \/ EndEffect(d, e, r) \/ KeepEffect(d, e, r)
    PROVE  LogGrows(d0, e)
<1>1. PICK action, l : Logged(d, e, r, action, l)
  BY DEF GrantEffect, EndEffect, KeepEffect
<1>2. \A i \in DOMAIN d.audit : i \in DOMAIN e.audit /\ e.audit[i] = d.audit[i]
  BY <1>1, LoggedEntries
<1> QED BY <1>2 DEF LogGrows

LEMMA EffectGood ==
    ASSUME NEW d0 \in DB, NEW d, Good(d0, d), NEW e \in DB,
           \/ SameLog(d, e)
           \/ \E r \in Resource :
                 GrantEffect(d, e, r) \/ EndEffect(d, e, r) \/ KeepEffect(d, e, r)
    PROVE  Good(d0, e)
<1>a. d \in DB /\ d0.next \in Nat /\ d.next \in Nat /\ e.next \in Nat
  BY DEF Good, DB, Token
<1>1. CASE SameLog(d, e)
  <2>1. LogInv(e)
    BY <1>1 DEF SameLog, Good, LogInv, GrantedOnceInOrder, Grants, ReplaysToLeases, About,
                StaleGone, Superseded, IssuedInOrder, Issues
  <2>2. Newer(d0, e)
    BY <1>1 DEF SameLog, Good, Newer, LogGrows
  <2> QED BY <2>1, <2>2 DEF Good
<1>2. ASSUME NEW r \in Resource, GrantEffect(d, e, r) PROVE Good(d0, e)
  <2>1. LogInv(e)
    BY <1>a, <1>2, GrantEffectInv DEF Good
  <2>2. Newer(d0, e)
    <3>1. LogGrows(d0, e)
      BY <1>a, <1>2, EffectGrows DEF Good, Newer
    <3> QED BY <1>a, <1>2, <3>1 DEF GrantEffect, Good, Newer, DB
  <2> QED BY <2>1, <2>2 DEF Good
<1>3. ASSUME NEW r \in Resource, EndEffect(d, e, r) PROVE Good(d0, e)
  <2>1. LogInv(e)
    BY <1>a, <1>3, EndEffectInv DEF Good
  <2>2. Newer(d0, e)
    <3>1. LogGrows(d0, e)
      BY <1>a, <1>3, EffectGrows DEF Good, Newer
    <3> QED BY <1>a, <1>3, <3>1 DEF EndEffect, Good, Newer, DB
  <2> QED BY <2>1, <2>2 DEF Good
<1>4. ASSUME NEW r \in Resource, KeepEffect(d, e, r) PROVE Good(d0, e)
  <2>1. LogInv(e)
    BY <1>a, <1>4, KeepEffectInv DEF Good
  <2>2. Newer(d0, e)
    <3>1. LogGrows(d0, e)
      BY <1>a, <1>4, EffectGrows DEF Good, Newer
    <3> QED BY <1>a, <1>4, <3>1 DEF KeepEffect, Good, Newer, DB
  <2> QED BY <2>1, <2>2 DEF Good
<1> QED BY <1>1, <1>2, <1>3, <1>4

LEMMA GrantGood ==
    ASSUME NEW d0 \in DB, NEW d, Good(d0, d), NEW r \in Resource, NEW h \in Holder,
           NEW ttl \in TTL, NEW now \in Instant, NEW action \in GrantAction
    PROVE  Good(d0, Grant(d, r, h, ttl, now, action))
<1> DEFINE e == Grant(d, r, h, ttl, now, action)
           l == [holder |-> h, token |-> d.next, acquired |-> now, deadline |-> now + ttl]
<1>1. d \in DB /\ e \in DB
  BY GrantType DEF Good
<1>2. l \in Lease
  BY <1>1, TimeAssumption DEF Lease, DB
<1>3. /\ e.next = d.next + 1
      /\ e.leases = [d.leases EXCEPT ![r] = l]
      /\ e.audit = Append(d.audit, [action |-> action, resource |-> r, holder |-> h,
                                    token |-> d.next])
  BY <1>1 DEF Grant, AppendAudit, PutLease, AllocToken, DB
<1>4. l.token = d.next /\ l.holder = h
  OBVIOUS
<1> HIDE DEF e, l
<1>5. GrantEffect(d, e, r)
  BY <1>2, <1>3, <1>4 DEF GrantEffect, Logged
<1> QED BY <1>1, <1>5, EffectGood DEF e

LEMMA EndLeaseGood ==
    ASSUME NEW d0 \in DB, NEW d, Good(d0, d), NEW r \in Resource,
           d.leases[r] # NoLease, NEW action \in EndAction
    PROVE  Good(d0, EndLease(d, r, action))
<1> DEFINE e == EndLease(d, r, action)
<1>1. d \in DB /\ e \in DB
  BY EndLeaseType DEF Good
<1>2. d.leases[r] \in Lease
  BY <1>1 DEF DB
<1>3. /\ e.next = d.next
      /\ e.leases = [d.leases EXCEPT ![r] = NoLease]
      /\ e.audit = Append(d.audit, [action |-> action, resource |-> r,
                                    holder |-> d.leases[r].holder,
                                    token |-> d.leases[r].token])
  BY <1>1 DEF EndLease, AppendAudit, PutLease, DB
<1> HIDE DEF e
<1>4. EndEffect(d, e, r)
  BY <1>2, <1>3 DEF EndEffect, Logged
<1> QED BY <1>1, <1>4, EffectGood DEF e

\* Renew and Transfer: another deadline or holder under the same token.
LEMMA KeepGood ==
    ASSUME NEW d0 \in DB, NEW d, Good(d0, d), NEW r \in Resource, NEW l \in Lease,
           d.leases[r] # NoLease, l.token = d.leases[r].token,
           NEW action \in {"renew", "transfer"}
    PROVE  Good(d0, AppendAudit(PutLease(d, r, l), action, r, l.holder, l.token))
<1> DEFINE e == AppendAudit(PutLease(d, r, l), action, r, l.holder, l.token)
<1>1. d \in DB
  BY DEF Good
<1>2. e \in DB
  BY <1>1, PutLeaseType, AppendAuditType DEF Lease, AuditAction
<1>3. /\ e.next = d.next
      /\ e.leases = [d.leases EXCEPT ![r] = l]
      /\ e.audit = Append(d.audit, [action |-> action, resource |-> r,
                                    holder |-> l.holder, token |-> l.token])
  BY <1>1 DEF AppendAudit, PutLease, DB
<1> HIDE DEF e
<1>4. KeepEffect(d, e, r)
  BY <1>3 DEF KeepEffect, Logged
<1> QED BY <1>2, <1>4, EffectGood DEF e

\* Waiters and holders are beside the log.
LEMMA BesideGood ==
    ASSUME NEW d0 \in DB, NEW d, Good(d0, d), NEW e \in DB, SameLog(d, e)
    PROVE  Good(d0, e)
BY EffectGood

LEMMA SetWaiterStatusGood ==
    ASSUME NEW d0 \in DB, NEW d, Good(d0, d), NEW i \in DOMAIN d.waiters,
           NEW status \in {"pending", "granted", "cancelled"}, NEW t \in Nat
    PROVE  Good(d0, SetWaiterStatus(d, i, status, t))
<1>1. d \in DB
  BY DEF Good
<1>2. SetWaiterStatus(d, i, status, t) \in DB
  BY <1>1, SetWaiterStatusType
<1>3. SameLog(d, SetWaiterStatus(d, i, status, t))
  BY <1>1 DEF SetWaiterStatus, SameLog, DB
<1> QED BY <1>2, <1>3, BesideGood

LEMMA AddWaiterGood ==
    ASSUME NEW d0 \in DB, NEW d, Good(d0, d), NEW r \in Resource, NEW h \in Holder,
           NEW ttl \in TTL, NEW now \in Instant,
           NEW status \in {"pending", "granted", "cancelled"}, NEW t \in Nat
    PROVE  Good(d0, AddWaiter(d, r, h, ttl, now, status, t))
<1>1. d \in DB
  BY DEF Good
<1>2. AddWaiter(d, r, h, ttl, now, status, t) \in DB
  BY <1>1, AddWaiterType
<1>3. SameLog(d, AddWaiter(d, r, h, ttl, now, status, t))
  BY <1>1 DEF AddWaiter, SameLog, DB
<1> QED BY <1>2, <1>3, BesideGood

LEMMA PromoteGood ==
    ASSUME NEW d0 \in DB, NEW d, Good(d0, d), NEW r \in Resource, NEW now \in Instant
    PROVE  Good(d0, PromoteWaiterFor(d, r, now))
<1>a. d \in DB
  BY DEF Good
<1>1. CASE PromoteWaiterFor(d, r, now) = d
  BY <1>1
<1>2. ASSUME NEW i \in Pending(d, r), i \in DOMAIN d.waiters, d.waiters[i] \in Waiter,
             PromoteWaiterFor(d, r, now) =
               SetWaiterStatus(Grant(d, r, d.waiters[i].holder, d.waiters[i].ttl, now,
                                     "waiter_grant"),
                               i, "granted", d.next)
      PROVE  Good(d0, PromoteWaiterFor(d, r, now))
  <2> DEFINE g == Grant(d, r, d.waiters[i].holder, d.waiters[i].ttl, now, "waiter_grant")
  <2>1. d.waiters[i].holder \in Holder /\ d.waiters[i].ttl \in TTL
    BY <1>2 DEF Waiter
  <2>2. Good(d0, g)
    BY <2>1, GrantGood DEF GrantAction
  <2>3. g.waiters = d.waiters
    BY <1>a DEF Grant, AppendAudit, PutLease, AllocToken, DB
  <2>4. d.next \in Nat
    BY <1>a DEF DB, Token
  <2> HIDE DEF g
  <2>5. Good(d0, SetWaiterStatus(g, i, "granted", d.next))
    BY <1>2, <2>2, <2>3, <2>4, SetWaiterStatusGood
  <2> QED BY <1>2, <2>5 DEF g
<1> QED BY <1>a, <1>1, <1>2, PromoteCases
-----------------------------------------------------------------------------
(* The invariant of the store and its theorems *)

Inv ==
    /\ TypeInv
    /\ LogInv(db)
    /\ tx # NoTx => Good(db, tx.work)

LEMMA InvInit == Init => Inv
<1> SUFFICES ASSUME Init PROVE Inv
  OBVIOUS
<1>1. TypeInv
  BY TypeInit
<1>2. db = EmptyDB /\ tx = NoTx
  BY DEF Init
<1>3. GrantedOnceInOrder(EmptyDB) /\ ReplaysToLeases(EmptyDB) /\ StaleGone(EmptyDB)
      /\ IssuedInOrder(EmptyDB)
  BY DEF EmptyDB, GrantedOnceInOrder, Grants, ReplaysToLeases, About, StaleGone,
         IssuedInOrder, Issues
<1> QED BY <1>1, <1>2, <1>3 DEF Inv, LogInv

\* A transaction without a loop ends on a database that came from the old one.
LEMMA UpdateGood ==
    ASSUME NEW d, Update(d), Good(db, d)
    PROVE  tx' = NoTx /\ Good(db, db')
BY DEF Update

LEMMA LeaseOpsGood ==
    ASSUME Inv, NEW now \in Instant, LeaseOps(now)
    PROVE  tx' = NoTx /\ Good(db, db')
<1> SUFFICES ASSUME NEW r \in Resource, NEW h \in Holder,
                    \/ \E ttl \in TTL : Acquire(r, h, now, ttl)
                    \/ \E t \in 1..MaxToken, ttl \in TTL : Renew(r, h, t, now, ttl)
                    \/ \E t \in 1..MaxToken : Release(r, h, t, now)
                    \/ \E t \in 1..MaxToken, newHolder \in Holder :
                          Transfer(r, h, t, newHolder, now)
                    \/ \E ttl \in TTL : EnqueueWaiter(r, h, ttl, now)
             PROVE  tx' = NoTx /\ Good(db, db')
  BY DEF LeaseOps
<1>a. /\ db \in DB /\ Good(db, db)
      /\ db.leases[r] \in Lease \cup {NoLease} /\ db.next \in Nat
  BY NewerRefl DEF Inv, TypeInv, TypeOK, Good, DB, Token
<1>1. ASSUME NEW ttl \in TTL, Acquire(r, h, now, ttl) PROVE tx' = NoTx /\ Good(db, db')
  BY <1>a, <1>1, GrantGood, UpdateGood DEF Acquire, GrantAction
<1>2. ASSUME NEW t \in 1..MaxToken, NEW ttl \in TTL, Renew(r, h, t, now, ttl)
      PROVE  tx' = NoTx /\ Good(db, db')
  <2> DEFINE l == [db.leases[r] EXCEPT !.deadline = now + ttl]
  <2>1. db.leases[r] \in Lease /\ db.leases[r] # NoLease
        /\ db.leases[r].holder = h /\ db.leases[r].token = t
    BY <1>2, <1>a DEF Renew, RenewError
  <2>2. l \in Lease /\ l.holder = h /\ l.token = t
    BY <2>1, TimeAssumption DEF Lease
  <2> HIDE DEF l
  <2>3. Good(db, AppendAudit(PutLease(db, r, l), "renew", r, l.holder, l.token))
    BY <1>a, <2>1, <2>2, KeepGood
  <2>4. Good(db, AppendAudit(PutLease(db, r, l), "renew", r, h, t))
    BY <2>2, <2>3
  <2> QED BY <1>2, <2>4, UpdateGood DEF Renew, l
<1>3. ASSUME NEW t \in 1..MaxToken, Release(r, h, t, now) PROVE tx' = NoTx /\ Good(db, db')
  <2>1. db.leases[r] # NoLease
    BY <1>3 DEF Release, ReleaseError
  <2>2. Good(db, EndLease(db, r, "release"))
    BY <1>a, <2>1, EndLeaseGood DEF EndAction
  <2>3. Good(db, PromoteWaiterFor(EndLease(db, r, "release"), r, now))
    BY <1>a, <2>2, PromoteGood
  <2> QED BY <1>3, <2>3, UpdateGood DEF Release
<1>4. ASSUME NEW t \in 1..MaxToken, NEW newHolder \in Holder,
             Transfer(r, h, t, newHolder, now)
      PROVE  tx' = NoTx /\ Good(db, db')
  <2> DEFINE l == [db.leases[r] EXCEPT !.holder = newHolder]
  <2>1. db.leases[r] \in Lease /\ db.leases[r] # NoLease /\ db.leases[r].token = t
    BY <1>4, <1>a DEF Transfer, ReleaseError
  <2>2. l \in Lease /\ l.holder = newHolder /\ l.token = t
    BY <2>1 DEF Lease
  <2> HIDE DEF l
  <2>3. Good(db, AppendAudit(PutLease(db, r, l), "transfer", r, l.holder, l.token))
    BY <1>a, <2>1, <2>2, KeepGood
  <2>4. Good(db, AppendAudit(PutLease(db, r, l), "transfer", r, newHolder, t))
    BY <2>2, <2>3
  <2> QED BY <1>4, <2>4, UpdateGood DEF Transfer, l
<1>5. ASSUME NEW ttl \in TTL, EnqueueWaiter(r, h, ttl, now)
      PROVE  tx' = NoTx /\ Good(db, db')
  <2>1. CASE EnqueuePending(r, h, ttl, now)
    <3>1. Good(db, Handover(db, r, now))
      BY <1>a, PromoteGood DEF Handover
    <3>2. Good(db, AddWaiter(Handover(db, r, now), r, h, ttl, now, "pending", 0))
      BY <1>a, <3>1, AddWaiterGood
    <3> QED BY <2>1, <3>2, UpdateGood DEF EnqueuePending
  <2>2. CASE EnqueueImmediate(r, h, ttl, now)
    <3>1. Good(db, Grant(db, r, h, ttl, now, "acquire"))
      BY <1>a, GrantGood DEF GrantAction
    <3>2. Good(db, AddWaiter(Grant(db, r, h, ttl, now, "acquire"),
                             r, h, ttl, now, "granted", db.next))
      BY <1>a, <3>1, AddWaiterGood
    <3> QED BY <2>2, <3>2, UpdateGood DEF EnqueueImmediate
  <2> QED BY <1>5, <2>1, <2>2 DEF EnqueueWaiter
<1> QED BY <1>1, <1>2, <1>3, <1>4, <1>5

LEMMA HolderOpsGood ==
    ASSUME Inv, NEW now \in Instant, HolderOps(now)
    PROVE  tx' = NoTx /\ Good(db, db')
<1>a. db \in DB /\ Good(db, db)
  BY NewerRefl DEF Inv, TypeInv, TypeOK, Good
<1>1. ASSUME NEW h \in Holder, NEW cap \in Cap \cup {Unregistered}
      PROVE  Good(db, [db EXCEPT !.holders = [db.holders EXCEPT ![h] = cap]])
  <2>1. [db EXCEPT !.holders = [db.holders EXCEPT ![h] = cap]] \in DB
    BY <1>a DEF DB
  <2>2. SameLog(db, [db EXCEPT !.holders = [db.holders EXCEPT ![h] = cap]])
    BY <1>a DEF SameLog, DB
  <2> QED BY <1>a, <2>1, <2>2, BesideGood
<1>2. ASSUME NEW h \in Holder, NEW cap \in Cap, PutHolder(h, cap) \/ SetQuota(h, cap)
      PROVE  tx' = NoTx /\ Good(db, db')
  BY <1>1, <1>2, UpdateGood DEF PutHolder, SetQuota
<1>3. ASSUME NEW h \in Holder, DeleteHolder(h, now) PROVE tx' = NoTx /\ Good(db, db')
  BY <1>1, <1>3, UpdateGood DEF DeleteHolder
<1> QED BY <1>2, <1>3 DEF HolderOps

LEMMA CancelGood ==
    ASSUME Inv, NEW i \in DOMAIN db.waiters, CancelWaiter(i)
    PROVE  tx' = NoTx /\ Good(db, db')
<1>1. db \in DB /\ Good(db, db) /\ db.waiters[i] \in Waiter
  BY NewerRefl DEF Inv, TypeInv, TypeOK, Good, DB
<1>2. db.waiters[i].token \in Nat
  BY <1>1 DEF Waiter
<1>3. Good(db, SetWaiterStatus(db, i, "cancelled", db.waiters[i].token))
  BY <1>1, <1>2, SetWaiterStatusGood
<1> QED BY <1>3, UpdateGood DEF CancelWaiter

LEMMA BulkOpsGood ==
    ASSUME Inv, NEW now \in Instant, BulkOps(now) \/ ExpireAll(now)
    PROVE  db' = db /\ (tx' # NoTx => Good(db, tx'.work))
<1>1. Good(db, db)
  BY NewerRefl DEF Inv, TypeInv, TypeOK, Good
<1>2. ASSUME NEW h, NEW asked, NEW ttl, BulkAcquireBegin(h, asked, now, ttl)
      PROVE  db' = db /\ tx'.work = db
  BY <1>2 DEF BulkAcquireBegin, Begin
<1>3. ASSUME NEW h, NEW asked, NEW tokens, BulkReleaseBegin(h, asked, tokens, now)
      PROVE  db' = db /\ tx'.work = db
  BY <1>3 DEF BulkReleaseBegin, Begin
<1>4. ASSUME NEW asked, ExpireBegin(asked, now)
      PROVE  db' = db /\ tx'.work = db
  BY <1>4 DEF ExpireBegin, Begin
<1>5. db' = db /\ tx'.work = db
  BY <1>2, <1>3, <1>4 DEF BulkOps, ExpireAll
<1> QED BY <1>1, <1>5

LEMMA TxStepGood ==
    ASSUME Inv, TxStep
    PROVE  \/ db' = db /\ Good(db, tx'.work)
           \/ db' = tx.work /\ tx' = NoTx /\ Good(db, db')
<1>a. tx # NoTx /\ tx \in Tx /\ Good(db, tx.work) /\ db \in DB
  BY DEF Inv, TypeInv, TypeOK, TxStep, BulkAcquireStep, BulkReleaseStep, ExpireStep
<1>b. /\ tx.work \in DB /\ tx.now \in Instant
      /\ tx.asked \in Seq(Resource) /\ tx.done \in Nat
      /\ Len(tx.asked) \in Nat /\ DOMAIN tx.asked = 1..Len(tx.asked)
  BY <1>a DEF Tx
<1>c. ASSUME NEW todo, NEW d, Iterate(todo, d), Good(db, d)
      PROVE  db' = db /\ Good(db, tx'.work)
  <2>1. tx'.work = d
    <3>1. tx' = [tx EXCEPT !.work = d, !.done = tx.done + 1]
      BY <1>c DEF Iterate
    <3>2. CASE tx.op = "bulk_acquire"
      BY <1>a, <3>1, <3>2 DEF Tx
    <3>3. CASE tx.op = "bulk_release"
      BY <1>a, <3>1, <3>3 DEF Tx
    <3>4. CASE tx.op = "expire"
      BY <1>a, <3>1, <3>4 DEF Tx
    <3> QED BY <1>a, <3>2, <3>3, <3>4 DEF Tx
  <2> QED BY <1>c, <2>1 DEF Iterate
<1>d. ASSUME NEW todo, Commit(todo)
      PROVE  db' = tx.work /\ tx' = NoTx /\ Good(db, db')
  BY <1>a, <1>d DEF Commit
<1>1. CASE BulkAcquireStep
  <2> DEFINE r == tx.asked[tx.done + 1]
             d == Grant(tx.work, r, tx.holder, tx.ttl, tx.now, "bulk_acquire")
  <2>1. CASE Iterate(Len(tx.asked), d)
    <3>1. r \in Resource
      BY <1>b, <2>1 DEF Iterate
    <3>2. tx.holder \in Holder /\ tx.ttl \in TTL
      BY <1>1, <1>a DEF Tx, BulkAcquireStep
    <3>3. Good(db, d)
      BY <1>a, <1>b, <3>1, <3>2, GrantGood DEF GrantAction
    <3> HIDE DEF d
    <3> QED BY <1>c, <2>1, <3>3
  <2> QED BY <1>1, <1>d, <2>1 DEF BulkAcquireStep
<1>2. CASE BulkReleaseStep
  <2> DEFINE r == tx.asked[tx.done + 1]
             e == EndLease(tx.work, r, "bulk_release")
             d == PromoteWaiterFor(e, r, tx.now)
  <2>1. CASE Iterate(Len(tx.asked), d)
    <3>1. r \in Resource /\ tx.done + 1 \in DOMAIN tx.asked
      BY <1>b, <2>1 DEF Iterate
    <3>2. tx.work.leases[r] # NoLease
      BY <1>2, <1>a, <1>b, <3>1 DEF Inv, TypeInv, LoopInv, BulkReleaseStep
    <3>3. Good(db, e)
      BY <1>a, <1>b, <3>1, <3>2, EndLeaseGood DEF EndAction
    <3> HIDE DEF e
    <3>4. Good(db, d)
      BY <1>a, <1>b, <3>1, <3>3, PromoteGood
    <3> HIDE DEF d
    <3> QED BY <1>c, <2>1, <3>4 DEF d, e
  <2> QED BY <1>2, <1>d, <2>1 DEF BulkReleaseStep
<1>3. CASE ExpireStep
  <2> DEFINE n == Len(tx.asked)
  <2>1. CASE tx.done < n /\ Iterate(2 * n, EndLease(tx.work, tx.asked[tx.done + 1], "expire"))
    <3>1. tx.asked[tx.done + 1] \in Resource /\ tx.done + 1 \in DOMAIN tx.asked
      BY <1>b, <2>1
    <3>2. tx.work.leases[tx.asked[tx.done + 1]] # NoLease
      BY <1>3, <1>a, <1>b, <3>1 DEF Inv, TypeInv, LoopInv, ExpireStep
    <3>3. Good(db, EndLease(tx.work, tx.asked[tx.done + 1], "expire"))
      BY <1>a, <1>b, <3>1, <3>2, EndLeaseGood DEF EndAction
    <3> QED BY <1>c, <2>1, <3>3
  <2>2. CASE n <= tx.done
             /\ Iterate(2 * n, PromoteWaiterFor(tx.work, tx.asked[tx.done + 1 - n], tx.now))
    <3>1. tx.asked[tx.done + 1 - n] \in Resource
      BY <1>b, <2>2 DEF Iterate
    <3>2. Good(db, PromoteWaiterFor(tx.work, tx.asked[tx.done + 1 - n], tx.now))
      BY <1>a, <1>b, <3>1, PromoteGood
    <3> QED BY <1>c, <2>2, <3>2
  <2> QED BY <1>3, <1>d, <2>1, <2>2 DEF ExpireStep
<1> QED BY <1>1, <1>2, <1>3 DEF TxStep

\* Every step keeps the invariant, and what it commits came from what was there.
LEMMA InvStep ==
    ASSUME Inv, [Next]_vars
    PROVE  Inv' /\ Newer(db, db')
<1>1. TypeInv'
  BY TypeStep DEF Inv
<1>2. Newer(db, db)
  BY NewerRefl DEF Inv, TypeInv, TypeOK
<1>3. CASE tx' = NoTx /\ Good(db, db')
  BY <1>1, <1>3 DEF Inv, Good
<1>4. CASE db' = db /\ (tx' # NoTx => Good(db, tx'.work))
  BY <1>1, <1>2, <1>4 DEF Inv
<1>5. ASSUME NEW now \in Instant, Call(now)
      PROVE  \/ tx' = NoTx /\ Good(db, db')
             \/ db' = db /\ (tx' # NoTx => Good(db, tx'.work))
  BY <1>5, LeaseOpsGood, HolderOpsGood, CancelGood, BulkOpsGood DEF Call
<1>6. CASE Crash
  BY <1>4, <1>6 DEF Crash
<1>7. CASE UNCHANGED vars
  BY <1>4, <1>7 DEF vars, Inv
<1> QED BY <1>3, <1>4, <1>5, <1>6, <1>7, TxStepGood DEF Next

LEMMA InvInvariant == Spec => []Inv
<1>1. Inv /\ [Next]_vars => Inv'
  BY InvStep
<1> QED BY <1>1, InvInit, PTL DEF Spec
\* What Inv says of every database a reader or a commit may see.
LEMMA InvDatabases ==
    ASSUME Inv, NEW d \in Databases
    PROVE  d \in DB /\ LogInv(d)
<1>1. CASE d = db
  BY <1>1 DEF Inv, TypeInv, TypeOK
<1>2. CASE tx # NoTx /\ d = tx.work
  BY <1>2 DEF Inv, Good
<1> QED BY <1>1, <1>2 DEF Databases

\* Fencing tokens: whatever transactions ran, however their loops were cut
\* short, the log shows every token below the counter granted exactly once, in
\* increasing order.  (README: tokens only increase; no token is allocated
\* for no lease.)
THEOREM TokensInOrder == Spec => []TokensGrantedOnceInOrder
<1>1. Inv => TokensGrantedOnceInOrder
  BY InvDatabases DEF TokensGrantedOnceInOrder, LogInv
<1> QED BY <1>1, InvInvariant, PTL

\* The audit log and the lease table, two buckets written by separate calls,
\* never tell different stories.
THEOREM AuditReplays == Spec => []AuditReplaysToLeases
<1>1. Inv => AuditReplaysToLeases
  BY InvDatabases DEF AuditReplaysToLeases, LogInv
<1> QED BY <1>1, InvInvariant, PTL

\* A token that is not the one on the resource is refused by every operation.
LEMMA WrongTokenRefused ==
    ASSUME NEW d, NEW r, NEW h, NEW t, NEW now,
           d.leases[r] # NoLease => d.leases[r].token # t
    PROVE  RenewError(d, r, h, t, now) # "" /\ ReleaseError(d, r, h, t, now) # ""
BY DEF RenewError, ReleaseError

\* A holder whose lease was ended or granted again is refused with its old
\* token for ever, even when it held the resource again in between.
THEOREM StaleHolderRefused == Spec => []StaleTokenRejected
<1>1. Inv => StaleTokenRejected
  <2> SUFFICES ASSUME Inv, NEW d \in Databases, NEW i \in Grants(d), Superseded(d, i),
                      NEW h \in Holder, NEW now \in Instant
               PROVE  /\ RenewError(d, d.audit[i].resource, h, d.audit[i].token, now) # ""
                      /\ ReleaseError(d, d.audit[i].resource, h, d.audit[i].token, now) # ""
    BY DEF StaleTokenRejected, StaleRejected
  <2>1. StaleGone(d)
    BY InvDatabases DEF LogInv
  <2>2. d.leases[d.audit[i].resource] # NoLease =>
            d.leases[d.audit[i].resource].token # d.audit[i].token
    BY <2>1 DEF StaleGone
  <2> QED BY <2>2, WrongTokenRefused
<1> QED BY <1>1, InvInvariant, PTL

\* A transaction that changes the token on a resource installs one that no
\* earlier transaction issued on any resource.
THEOREM FencingIncreases == Spec => FencingMonotone
<1>1. ASSUME Inv, [Next]_vars
      PROVE  [\A r \in Resource :
                 Granted(r) => db'.leases[r].token \in db.next .. db'.next - 1]_vars
  BY <1>1, InvStep DEF Newer, Granted
<1>2. Inv /\ [Next]_vars =>
          [\A r \in Resource :
              Granted(r) => db'.leases[r].token \in db.next .. db'.next - 1]_vars
  BY <1>1
<1> QED BY <1>2, InvInvariant, PTL DEF Spec, FencingMonotone

-----------------------------------------------------------------------------
(* The store implements FencedLock.  A transaction that turns resources     *)
(* over is a sequence of grants and ends.  It is one TurnOver only if no    *)
(* token it issued is lost again before it commits: no iteration of a loop  *)
(* may touch a resource that an earlier one granted.  That is what Turns    *)
(* and LoopTurns say.                                                       *)

\* The lease d has on r was granted since d0.
FreshSince(d0, d, r) ==
    d.leases[r] # NoLease /\ d.leases[r].token \in d0.next .. d.next - 1

\* The lease d has on r was not granted since d0.
NotGranted(d0, d, r) == d.leases[r] = NoLease \/ d.leases[r] = d0.leases[r]

\* Of the tokens issued since d0 each one is on exactly one resource of d.
IssuedOnce(d0, d) ==
    \A t \in d0.next .. d.next - 1 :
        \E r \in Resource :
            /\ FreshSince(d0, d, r) /\ d.leases[r].token = t
            /\ \A s \in Resource \ {r} : FreshSince(d0, d, s) => d.leases[s].token # t

\* d came from d0 by grants and ends, none of them on a resource granted before.
Turns(d0, d) ==
    /\ d0.next <= d.next
    /\ \A r \in Resource : NotGranted(d0, d, r) \/ FreshSince(d0, d, r)
    /\ IssuedOnce(d0, d)

\* Every lease carries a token that was issued.
Issued(d) == \A r \in Resource : d.leases[r] # NoLease => d.leases[r].token < d.next

LEMMA TurnsRefl == ASSUME NEW d \in DB PROVE Turns(d, d)
BY DEF Turns, NotGranted, IssuedOnce, DB, Token

LEMMA IssuedLater ==
    ASSUME NEW d0 \in DB, NEW d \in DB, Issued(d0), Newer(d0, d)
    PROVE  Issued(d)
<1> SUFFICES ASSUME NEW r \in Resource, d.leases[r] # NoLease
             PROVE  d.leases[r].token < d.next
  BY DEF Issued
<1>1. d0.next \in Nat /\ d.next \in Nat /\ d.leases[r].token \in Nat
  BY DEF DB, Token, Lease
<1>2. CASE d0.leases[r] # NoLease /\ d0.leases[r].token = d.leases[r].token
  BY <1>1, <1>2 DEF Issued, Newer
<1>3. CASE d.leases[r].token \in d0.next .. d.next - 1
  BY <1>1, <1>3
<1> QED BY <1>2, <1>3 DEF Newer

\* A transaction may grant a resource that it has not granted yet.
LEMMA GrantTurns ==
    ASSUME NEW d0 \in DB, NEW d \in DB, NEW e \in DB, Issued(d0), Turns(d0, d),
           NEW r \in Resource, NotGranted(d0, d, r),
           NEW l \in Lease, l.token = d.next, e.next = d.next + 1,
           e.leases = [d.leases EXCEPT ![r] = l]
    PROVE  Turns(d0, e)
<1>1. d0.next \in Nat /\ d.next \in Nat /\ d0.next <= d.next
  BY DEF DB, Token, Turns
<1>2. e.leases[r] = l /\ l # NoLease /\ FreshSince(d0, e, r)
  <2>1. e.leases[r] = l
    BY DEF DB
  <2>2. l # NoLease
    BY LeaseNotNull
  <2> QED BY <1>1, <2>1, <2>2 DEF FreshSince
<1>3. \A s \in Resource \ {r} : e.leases[s] = d.leases[s]
  BY DEF DB
<1>4. ~FreshSince(d0, d, r)
  <2>1. CASE d.leases[r] = NoLease
    BY <2>1 DEF FreshSince
  <2>2. CASE d.leases[r] = d0.leases[r] /\ d.leases[r] # NoLease
    <3>1. d0.leases[r].token \in Nat /\ d0.leases[r].token < d0.next
      BY <2>2 DEF DB, Lease, Token, Issued
    <3> QED BY <1>1, <2>2, <3>1 DEF FreshSince
  <2> QED BY <2>1, <2>2 DEF NotGranted
<1>5. \A s \in Resource \ {r} : FreshSince(d0, d, s) => FreshSince(d0, e, s)
  BY <1>1, <1>3 DEF FreshSince
<1>6. \A s \in Resource \ {r} :
          FreshSince(d0, e, s) => FreshSince(d0, d, s) \/ NotGranted(d0, d, s)
  BY DEF Turns
<1>7. ASSUME NEW s \in Resource \ {r}, FreshSince(d0, e, s)
      PROVE  FreshSince(d0, d, s)
  <2>1. SUFFICES ASSUME NotGranted(d0, d, s) PROVE FALSE
    BY <1>6, <1>7
  <2>2. d.leases[s] # NoLease /\ d.leases[s] = d0.leases[s]
    BY <1>3, <1>7, <2>1 DEF FreshSince, NotGranted
  <2>3. d0.leases[s].token \in Nat /\ d0.leases[s].token < d0.next
    BY <2>2 DEF DB, Lease, Token, Issued
  <2> QED BY <1>1, <1>3, <1>7, <2>2, <2>3 DEF FreshSince
<1>8. \A s \in Resource : NotGranted(d0, e, s) \/ FreshSince(d0, e, s)
  BY <1>2, <1>3, <1>5 DEF Turns, NotGranted
<1>9. ASSUME NEW t \in d0.next .. e.next - 1
      PROVE  \E s \in Resource :
                /\ FreshSince(d0, e, s) /\ e.leases[s].token = t
                /\ \A u \in Resource \ {s} : FreshSince(d0, e, u) => e.leases[u].token # t
  <2>1. CASE t = d.next
    <3>1. \A u \in Resource \ {r} : FreshSince(d0, e, u) => e.leases[u].token # t
      BY <1>1, <1>3, <1>7, <2>1 DEF FreshSince
    <3> QED BY <1>2, <2>1, <3>1
  <2>2. CASE t # d.next
    <3>1. t \in d0.next .. d.next - 1
      BY <1>1, <2>2
    <3>2. PICK s \in Resource :
              /\ FreshSince(d0, d, s) /\ d.leases[s].token = t
              /\ \A u \in Resource \ {s} : FreshSince(d0, d, u) => d.leases[u].token # t
      BY <3>1 DEF Turns, IssuedOnce
    <3>3. s # r
      BY <1>4, <3>2
    <3>4. FreshSince(d0, e, s) /\ e.leases[s].token = t
      BY <1>3, <1>5, <3>2, <3>3
    <3>5. \A u \in Resource \ {s} : FreshSince(d0, e, u) => e.leases[u].token # t
      BY <1>2, <1>3, <1>7, <2>2, <3>2
    <3> QED BY <3>4, <3>5
  <2> QED BY <2>1, <2>2
<1> QED BY <1>1, <1>8, <1>9 DEF Turns, IssuedOnce

\* A transaction may end a lease that it has not granted itself.
LEMMA EndTurns ==
    ASSUME NEW d0 \in DB, NEW d \in DB, NEW e \in DB, Issued(d0), Turns(d0, d),
           NEW r \in Resource, NotGranted(d0, d, r), e.next = d.next,
           e.leases = [d.leases EXCEPT ![r] = NoLease]
    PROVE  Turns(d0, e)
<1>1. d0.next \in Nat /\ d.next \in Nat /\ d0.next <= d.next
  BY DEF DB, Token, Turns
<1>2. e.leases[r] = NoLease /\ \A s \in Resource \ {r} : e.leases[s] = d.leases[s]
  BY DEF DB
<1>3. ~FreshSince(d0, d, r)
  <2>1. CASE d.leases[r] = NoLease
    BY <2>1 DEF FreshSince
  <2>2. CASE d.leases[r] = d0.leases[r] /\ d.leases[r] # NoLease
    <3>1. d0.leases[r].token \in Nat /\ d0.leases[r].token < d0.next
      BY <2>2 DEF DB, Lease, Token, Issued
    <3> QED BY <1>1, <2>2, <3>1 DEF FreshSince
  <2> QED BY <2>1, <2>2 DEF NotGranted
<1>4. \A s \in Resource : FreshSince(d0, e, s) <=> FreshSince(d0, d, s)
  BY <1>2, <1>3 DEF FreshSince
<1>5. \A s \in Resource : NotGranted(d0, e, s) \/ FreshSince(d0, e, s)
  BY <1>2, <1>4 DEF Turns, NotGranted
<1>6. IssuedOnce(d0, e)
  BY <1>2, <1>3, <1>4 DEF Turns, IssuedOnce
<1> QED BY <1>1, <1>5, <1>6 DEF Turns

\* A step that leaves leases and counter alone.
LEMMA BesideTurns ==
    ASSUME NEW d0, NEW d, NEW e, Turns(d0, d), e.leases = d.leases, e.next = d.next
    PROVE  Turns(d0, e)
BY DEF Turns, NotGranted, FreshSince, IssuedOnce

-----------------------------------------------------------------------------
(* The functions a transaction is made of *)

LEMMA GrantOpTurns ==
    ASSUME NEW d0 \in DB, NEW d \in DB, Issued(d0), Turns(d0, d),
           NEW r \in Resource, NotGranted(d0, d, r), NEW h \in Holder, NEW ttl \in TTL,
           NEW now \in Instant, NEW action \in GrantAction
    PROVE  Turns(d0, Grant(d, r, h, ttl, now, action))
<1> DEFINE e == Grant(d, r, h, ttl, now, action)
           l == [holder |-> h, token |-> d.next, acquired |-> now, deadline |-> now + ttl]
<1>1. e \in DB
  BY GrantType
<1>2. l \in Lease /\ l.token = d.next
  BY TimeAssumption DEF Lease, DB
<1>3. e.next = d.next + 1 /\ e.leases = [d.leases EXCEPT ![r] = l]
  BY DEF Grant, AppendAudit, PutLease, AllocToken, DB
<1> HIDE DEF e, l
<1>4. Turns(d0, e)
  BY <1>1, <1>2, <1>3, GrantTurns
<1> QED BY <1>4 DEF e

LEMMA EndLeaseTurns ==
    ASSUME NEW d0 \in DB, NEW d \in DB, Issued(d0), Turns(d0, d),
           NEW r \in Resource, NotGranted(d0, d, r), d.leases[r] # NoLease,
           NEW action \in EndAction
    PROVE  /\ Turns(d0, EndLease(d, r, action))
           /\ EndLease(d, r, action).leases[r] = NoLease
<1> DEFINE e == EndLease(d, r, action)
<1>1. e \in DB
  BY EndLeaseType
<1>2. e.next = d.next /\ e.leases = [d.leases EXCEPT ![r] = NoLease]
  BY DEF EndLease, AppendAudit, PutLease, DB
<1>3. e.leases[r] = NoLease
  BY <1>2 DEF DB
<1> HIDE DEF e
<1>4. Turns(d0, e)
  BY <1>1, <1>2, EndTurns
<1> QED BY <1>3, <1>4 DEF e

LEMMA PromoteTurns ==
    ASSUME NEW d0 \in DB, NEW d \in DB, Issued(d0), Turns(d0, d),
           NEW r \in Resource, NotGranted(d0, d, r), NEW now \in Instant
    PROVE  Turns(d0, PromoteWaiterFor(d, r, now))
<1>1. CASE PromoteWaiterFor(d, r, now) = d
  BY <1>1
<1>2. ASSUME NEW i \in Pending(d, r), i \in DOMAIN d.waiters, d.waiters[i] \in Waiter,
             PromoteWaiterFor(d, r, now) =
               SetWaiterStatus(Grant(d, r, d.waiters[i].holder, d.waiters[i].ttl, now,
                                     "waiter_grant"),
                               i, "granted", d.next)
      PROVE  Turns(d0, PromoteWaiterFor(d, r, now))
  <2> DEFINE g == Grant(d, r, d.waiters[i].holder, d.waiters[i].ttl, now, "waiter_grant")
  <2>1. d.waiters[i].holder \in Holder /\ d.waiters[i].ttl \in TTL
    BY <1>2 DEF Waiter
  <2>2. g \in DB /\ Turns(d0, g)
    BY <2>1, GrantType, GrantOpTurns DEF GrantAction
  <2> HIDE DEF g
  <2>3. /\ SetWaiterStatus(g, i, "granted", d.next).leases = g.leases
        /\ SetWaiterStatus(g, i, "granted", d.next).next = g.next
    BY <2>2 DEF SetWaiterStatus, DB
  <2>4. Turns(d0, SetWaiterStatus(g, i, "granted", d.next))
    BY <2>2, <2>3, BesideTurns
  <2> QED BY <1>2, <2>4 DEF g
<1> QED BY <1>1, <1>2, PromoteCases

-----------------------------------------------------------------------------
(* The transactions *)

\* After `done' iterations of the loop t, one has yet to come for the i-th
\* resource.  A sweep visits each resource twice.
ToDo(t, done, i) == IF t.op = "expire" THEN done < Len(t.asked) + i ELSE done < i

\* What the loop has yet to visit, it has not granted.
LoopTurns ==
    tx # NoTx =>
        /\ Turns(db, tx.work)
        /\ \A i \in DOMAIN tx.asked : ToDo(tx, tx.done, i) => NotGranted(db, tx.work, tx.asked[i])

LockInv == Inv /\ Issued(db) /\ LoopTurns

LEMMA LockInvInit == Init => LockInv
<1>1. Init => Issued(db) /\ LoopTurns
  BY DEF Init, EmptyDB, Issued, LoopTurns
<1> QED BY <1>1, InvInit DEF LockInv

\* A step that changes no hold, or turns resources over.
TurnStep ==
    \/ Holds(db') = Holds(db) /\ db'.next = db.next
    \/ Turns(db, db')

LEMMA UpdateTurns ==
    ASSUME NEW d, Update(d), Turns(db, d)
    PROVE  tx' = NoTx /\ TurnStep
BY DEF Update, TurnStep

LEMMA UpdateKeeps ==
    ASSUME NEW d, Update(d), Holds(d) = Holds(db), d.next = db.next
    PROVE  tx' = NoTx /\ TurnStep
BY DEF Update, TurnStep

LEMMA LockHere ==
    ASSUME LockInv
    PROVE  /\ db \in DB /\ db.next \in Nat /\ Issued(db) /\ Turns(db, db)
           /\ \A r \in Resource : NotGranted(db, db, r)
<1>1. db \in DB
  BY DEF LockInv, Inv, TypeInv, TypeOK
<1> QED BY <1>1, TurnsRefl DEF LockInv, NotGranted, DB, Token

\* All transactions without a loop but a transfer.
LEMMA LeaseOpsTurn ==
    ASSUME LockInv, NEW r \in Resource, NEW h \in Holder, NEW now \in Instant,
           \/ \E ttl \in TTL : Acquire(r, h, now, ttl)
           \/ \E t \in 1..MaxToken, ttl \in TTL : Renew(r, h, t, now, ttl)
           \/ \E t \in 1..MaxToken : Release(r, h, t, now)
           \/ \E ttl \in TTL : EnqueueWaiter(r, h, ttl, now)
    PROVE  tx' = NoTx /\ TurnStep
<1>a. /\ db \in DB /\ db.next \in Nat /\ Issued(db) /\ Turns(db, db)
      /\ NotGranted(db, db, r)
  BY LockHere
<1>1. ASSUME NEW ttl \in TTL, Acquire(r, h, now, ttl) PROVE tx' = NoTx /\ TurnStep
  <2>1. Turns(db, Grant(db, r, h, ttl, now, "acquire"))
    BY <1>a, GrantOpTurns DEF GrantAction
  <2> QED BY <1>1, <2>1, UpdateTurns DEF Acquire
<1>2. ASSUME NEW t \in 1..MaxToken, NEW ttl \in TTL, Renew(r, h, t, now, ttl)
      PROVE  tx' = NoTx /\ TurnStep
  <2> DEFINE l == [db.leases[r] EXCEPT !.deadline = now + ttl]
             d == AppendAudit(PutLease(db, r, l), "renew", r, h, t)
  <2>1. db.leases[r] \in Lease /\ db.leases[r] # NoLease
    BY <1>2, <1>a DEF Renew, RenewError, DB
  <2>2. l \in Lease /\ l.holder = db.leases[r].holder /\ l.token = db.leases[r].token
    BY <2>1, TimeAssumption DEF Lease
  <2>3. l # NoLease
    BY <2>2, LeaseNotNull
  <2>4. d.next = db.next /\ d.leases = [db.leases EXCEPT ![r] = l]
    BY <1>a DEF AppendAudit, PutLease, DB
  <2>5. Update(d)
    BY <1>2 DEF Renew
  <2> HIDE DEF l, d
  <2>6. d.leases[r] = l /\ \A s \in Resource \ {r} : d.leases[s] = db.leases[s]
    BY <1>a, <2>4 DEF DB
  <2>7. \A s \in Resource : Holds(d)[s] = Holds(db)[s]
    BY <2>1, <2>2, <2>3, <2>6 DEF Holds
  <2>8. Holds(d) = Holds(db)
    BY <2>7 DEF Holds
  <2> QED BY <2>4, <2>5, <2>8, UpdateKeeps
<1>3. ASSUME NEW t \in 1..MaxToken, Release(r, h, t, now) PROVE tx' = NoTx /\ TurnStep
  <2> DEFINE e == EndLease(db, r, "release")
  <2>1. db.leases[r] # NoLease
    BY <1>3 DEF Release, ReleaseError
  <2>2. e \in DB /\ Turns(db, e) /\ e.leases[r] = NoLease
    BY <1>a, <2>1, EndLeaseType, EndLeaseTurns DEF EndAction
  <2>3. Update(PromoteWaiterFor(e, r, now))
    BY <1>3 DEF Release
  <2> HIDE DEF e
  <2>4. Turns(db, PromoteWaiterFor(e, r, now))
    BY <1>a, <2>2, PromoteTurns DEF NotGranted
  <2> QED BY <2>3, <2>4, UpdateTurns
<1>4. ASSUME NEW ttl \in TTL, EnqueueWaiter(r, h, ttl, now)
      PROVE  tx' = NoTx /\ TurnStep
  <2>1. ASSUME NEW d \in DB, Turns(db, d), NEW status, NEW t,
               Update(AddWaiter(d, r, h, ttl, now, status, t))
        PROVE  tx' = NoTx /\ TurnStep
    <3>1. /\ AddWaiter(d, r, h, ttl, now, status, t).leases = d.leases
          /\ AddWaiter(d, r, h, ttl, now, status, t).next = d.next
      BY <2>1 DEF AddWaiter, DB
    <3>2. Turns(db, AddWaiter(d, r, h, ttl, now, status, t))
      BY <2>1, <3>1, BesideTurns
    <3> QED BY <2>1, <3>2, UpdateTurns
  <2>2. CASE EnqueuePending(r, h, ttl, now)
    <3>1. Handover(db, r, now) \in DB /\ Turns(db, Handover(db, r, now))
      BY <1>a, PromoteType, PromoteTurns DEF Handover
    <3> QED BY <2>1, <2>2, <3>1 DEF EnqueuePending
  <2>3. CASE EnqueueImmediate(r, h, ttl, now)
    <3>1. /\ Grant(db, r, h, ttl, now, "acquire") \in DB
          /\ Turns(db, Grant(db, r, h, ttl, now, "acquire"))
      BY <1>a, GrantType, GrantOpTurns DEF GrantAction
    <3> QED BY <2>1, <2>3, <3>1 DEF EnqueueImmediate
  <2> QED BY <1>4, <2>2, <2>3 DEF EnqueueWaiter
<1> QED BY <1>1, <1>2, <1>3, <1>4

LEMMA OtherOpsTurn ==
    ASSUME LockInv, NEW now \in Instant,
           HolderOps(now) \/ \E i \in DOMAIN db.waiters : CancelWaiter(i)
    PROVE  tx' = NoTx /\ TurnStep
<1>a. db \in DB
  BY LockHere
<1>1. ASSUME NEW d, Update(d), d.leases = db.leases, d.next = db.next
      PROVE  tx' = NoTx /\ TurnStep
  BY <1>1, UpdateKeeps DEF Holds
<1>2. ASSUME NEW h, NEW cap, Update([db EXCEPT !.holders = [db.holders EXCEPT ![h] = cap]])
      PROVE  tx' = NoTx /\ TurnStep
  <2>1. /\ [db EXCEPT !.holders = [db.holders EXCEPT ![h] = cap]].leases = db.leases
        /\ [db EXCEPT !.holders = [db.holders EXCEPT ![h] = cap]].next = db.next
    BY <1>a DEF DB
  <2> QED BY <1>1, <1>2, <2>1
<1>3. ASSUME NEW i, CancelWaiter(i) PROVE tx' = NoTx /\ TurnStep
  <2>1. /\ SetWaiterStatus(db, i, "cancelled", db.waiters[i].token).leases = db.leases
        /\ SetWaiterStatus(db, i, "cancelled", db.waiters[i].token).next = db.next
    BY <1>a DEF SetWaiterStatus, DB
  <2> QED BY <1>1, <1>3, <2>1 DEF CancelWaiter
<1> QED BY <1>2, <1>3 DEF HolderOps, PutHolder, SetQuota, DeleteHolder

LEMMA BulkOpsTurn ==
    ASSUME LockInv, NEW now \in Instant, BulkOps(now) \/ ExpireAll(now)
    PROVE  db' = db /\ LoopTurns'
<1>1. Turns(db, db) /\ \A r \in Resource : NotGranted(db, db, r)
  BY LockHere
<1>2. ASSUME NEW h, NEW asked, NEW ttl, BulkAcquireBegin(h, asked, now, ttl)
      PROVE  db' = db /\ tx'.work = db
  BY <1>2 DEF BulkAcquireBegin, Begin
<1>3. ASSUME NEW h, NEW asked, NEW tokens, BulkReleaseBegin(h, asked, tokens, now)
      PROVE  db' = db /\ tx'.work = db
  BY <1>3 DEF BulkReleaseBegin, Begin
<1>4. ASSUME NEW asked, ExpireBegin(asked, now)
      PROVE  db' = db /\ tx'.work = db
  BY <1>4 DEF ExpireBegin, Begin
<1>5. db' = db /\ tx'.work = db
  BY <1>2, <1>3, <1>4 DEF BulkOps, ExpireAll
<1>6. \A r : NotGranted(db, db, r)
  BY DEF NotGranted
<1> QED BY <1>1, <1>5, <1>6 DEF LoopTurns

\* What an iteration keeps of the open transaction.
LEMMA IterateFields ==
    ASSUME tx \in Tx, NEW todo, NEW d, Iterate(todo, d)
    PROVE  /\ db' = db /\ tx'.work = d /\ tx'.done = tx.done + 1
           /\ tx'.op = tx.op /\ tx'.asked = tx.asked /\ tx'.now = tx.now
<1>1. db' = db /\ tx' = [tx EXCEPT !.work = d, !.done = tx.done + 1]
  BY DEF Iterate
<1>2. CASE tx.op = "bulk_acquire"
  BY <1>1, <1>2 DEF Tx
<1>3. CASE tx.op = "bulk_release"
  BY <1>1, <1>3 DEF Tx
<1>4. CASE tx.op = "expire"
  BY <1>1, <1>4 DEF Tx
<1> QED BY <1>2, <1>3, <1>4 DEF Tx

\* An iteration touches one resource, and grants it only if it is done with it.
LEMMA IterateTurns ==
    ASSUME LockInv, tx # NoTx, tx \in Tx, NEW todo, NEW d, Iterate(todo, d), Turns(db, d),
           NEW k \in DOMAIN tx.asked,
           \A s \in Resource \ {tx.asked[k]} : d.leases[s] = tx.work.leases[s],
           ToDo(tx, tx.done + 1, k) => NotGranted(db, d, tx.asked[k])
    PROVE  db' = db /\ LoopTurns'
<1>1. /\ db' = db /\ tx'.work = d /\ tx'.done = tx.done + 1
      /\ tx'.op = tx.op /\ tx'.asked = tx.asked
  BY IterateFields
<1>2. /\ tx.asked \in Seq(Resource) /\ tx.done \in Nat /\ Len(tx.asked) \in Nat
      /\ DOMAIN tx.asked = 1 .. Len(tx.asked)
  BY DEF Tx
<1>3. ASSUME NEW i \in DOMAIN tx.asked, ToDo(tx, tx.done + 1, i) PROVE NotGranted(db, d, tx.asked[i])
  <2>1. CASE i = k
    BY <1>3, <2>1
  <2>2. CASE i # k
    <3>1. ToDo(tx, tx.done, i)
      BY <1>1, <1>2, <1>3 DEF ToDo
    <3>2. tx.asked[i] \in Resource /\ tx.asked[i] # tx.asked[k]
      BY <1>2, <2>2 DEF LockInv, Inv, TypeInv, LoopInv
    <3>3. NotGranted(db, tx.work, tx.asked[i])
      BY <3>1 DEF LockInv, LoopTurns
    <3>4. d.leases[tx.asked[i]] = tx.work.leases[tx.asked[i]]
      BY <3>2
    <3> QED BY <3>3, <3>4 DEF NotGranted
  <2> QED BY <2>1, <2>2
<1>4. \A i : ToDo(tx, tx.done, i)' <=> ToDo(tx, tx.done + 1, i)
  BY <1>1 DEF ToDo
<1> QED BY <1>1, <1>3, <1>4 DEF LoopTurns

LEMMA TxStepTurns ==
    ASSUME LockInv, TxStep
    PROVE  \/ db' = db /\ LoopTurns'
           \/ tx' = NoTx /\ TurnStep
<1>a. /\ tx # NoTx /\ tx \in Tx /\ db \in DB /\ Issued(db) /\ Turns(db, tx.work)
      /\ \A i \in DOMAIN tx.asked : ToDo(tx, tx.done, i) => NotGranted(db, tx.work, tx.asked[i])
  BY DEF LockInv, LoopTurns, Inv, TypeInv, TypeOK, TxStep, BulkAcquireStep, BulkReleaseStep,
         ExpireStep
<1>b. /\ tx.work \in DB /\ tx.now \in Instant
      /\ tx.asked \in Seq(Resource) /\ tx.done \in Nat
      /\ Len(tx.asked) \in Nat /\ DOMAIN tx.asked = 1..Len(tx.asked)
  BY <1>a DEF Tx
<1>c. ASSUME NEW todo, Commit(todo) PROVE tx' = NoTx /\ TurnStep
  BY <1>a, <1>c DEF Commit, TurnStep
<1>1. CASE BulkAcquireStep
  <2> DEFINE k == tx.done + 1
             r == tx.asked[k]
             d == Grant(tx.work, r, tx.holder, tx.ttl, tx.now, "bulk_acquire")
  <2>1. CASE Iterate(Len(tx.asked), d)
    <3>1. k \in DOMAIN tx.asked /\ r \in Resource
      BY <1>b, <2>1 DEF Iterate
    <3>2. tx.holder \in Holder /\ tx.ttl \in TTL /\ tx.op = "bulk_acquire"
      BY <1>1, <1>a DEF Tx, BulkAcquireStep
    <3>3. NotGranted(db, tx.work, r)
      BY <1>a, <1>b, <3>1, <3>2 DEF ToDo
    <3>4. Turns(db, d)
      BY <1>a, <1>b, <3>1, <3>2, <3>3, GrantOpTurns DEF GrantAction
    <3>5. \A s \in Resource \ {r} : d.leases[s] = tx.work.leases[s]
      BY <1>b DEF Grant, AppendAudit, PutLease, AllocToken, DB
    <3> HIDE DEF d
    <3>6. ~ToDo(tx, tx.done + 1, k)
      BY <1>b, <3>2 DEF ToDo
    <3> HIDE DEF k
    <3> QED BY <1>a, <2>1, <3>1, <3>4, <3>5, <3>6, IterateTurns
  <2> QED BY <1>1, <1>c, <2>1 DEF BulkAcquireStep
<1>2. CASE BulkReleaseStep
  <2> DEFINE k == tx.done + 1
             r == tx.asked[k]
             e == EndLease(tx.work, r, "bulk_release")
             d == PromoteWaiterFor(e, r, tx.now)
  <2>1. CASE Iterate(Len(tx.asked), d)
    <3>1. k \in DOMAIN tx.asked /\ r \in Resource
      BY <1>b, <2>1 DEF Iterate
    <3>2. tx.op = "bulk_release"
      BY <1>2 DEF BulkReleaseStep
    <3>3. NotGranted(db, tx.work, r) /\ tx.work.leases[r] # NoLease
      BY <1>a, <1>b, <3>1, <3>2 DEF ToDo, LockInv, Inv, TypeInv, LoopInv
    <3>4. e \in DB /\ Turns(db, e) /\ e.leases[r] = NoLease
      BY <1>a, <1>b, <3>1, <3>3, EndLeaseType, EndLeaseTurns DEF EndAction
    <3>5. \A s \in Resource \ {r} : e.leases[s] = tx.work.leases[s]
      BY <1>b, <3>1, EndLeaseLeases
    <3> HIDE DEF e
    <3>6. NotGranted(db, e, r)
      BY <3>4 DEF NotGranted
    <3>7. Turns(db, d)
      BY <1>a, <1>b, <3>1, <3>4, <3>6, PromoteTurns
    <3>8. \A s \in Resource \ {r} : d.leases[s] = tx.work.leases[s]
      BY <1>b, <3>1, <3>4, <3>5, PromoteLeases
    <3> HIDE DEF d
    <3>9. ~ToDo(tx, tx.done + 1, k)
      BY <1>b, <3>2 DEF ToDo
    <3> HIDE DEF k
    <3> QED BY <1>a, <2>1, <3>1, <3>7, <3>8, <3>9, IterateTurns
  <2> QED BY <1>2, <1>c, <2>1 DEF BulkReleaseStep
<1>3. CASE ExpireStep
  <2> DEFINE n == Len(tx.asked)
  <2>a. tx.op = "expire"
    BY <1>3 DEF ExpireStep
  <2>1. CASE tx.done < n /\ Iterate(2 * n, EndLease(tx.work, tx.asked[tx.done + 1], "expire"))
    <3> DEFINE k == tx.done + 1
               r == tx.asked[k]
               d == EndLease(tx.work, r, "expire")
    <3>1. k \in DOMAIN tx.asked /\ r \in Resource
      BY <1>b, <2>1
    <3>2. NotGranted(db, tx.work, r) /\ tx.work.leases[r] # NoLease
      BY <1>a, <1>b, <2>a, <2>1, <3>1 DEF ToDo, LockInv, Inv, TypeInv, LoopInv
    <3>3. Turns(db, d) /\ d.leases[r] = NoLease
      BY <1>a, <1>b, <3>1, <3>2, EndLeaseTurns DEF EndAction
    <3>4. \A s \in Resource \ {r} : d.leases[s] = tx.work.leases[s]
      BY <1>b, <3>1, EndLeaseLeases
    <3> HIDE DEF d
    <3>5. NotGranted(db, d, r)
      BY <3>3 DEF NotGranted
    <3>6. Iterate(2 * n, d)
      BY <2>1 DEF d
    <3> HIDE DEF k
    <3> QED BY <1>a, <3>1, <3>3, <3>4, <3>5, <3>6, IterateTurns
  <2>2. CASE n <= tx.done
             /\ Iterate(2 * n, PromoteWaiterFor(tx.work, tx.asked[tx.done + 1 - n], tx.now))
    <3> DEFINE k == tx.done + 1 - n
               r == tx.asked[k]
               d == PromoteWaiterFor(tx.work, r, tx.now)
    <3>1. k \in DOMAIN tx.asked /\ r \in Resource
      BY <1>b, <2>2 DEF Iterate
    <3>2. NotGranted(db, tx.work, r)
      BY <1>a, <1>b, <2>a, <2>2, <3>1 DEF ToDo
    <3>3. Turns(db, d)
      BY <1>a, <1>b, <3>1, <3>2, PromoteTurns
    <3>4. \A s \in Resource \ {r} : d.leases[s] = tx.work.leases[s]
      BY <1>b, <3>1, PromoteLeases
    <3>5. Iterate(2 * n, d)
      BY <2>2
    <3> HIDE DEF d
    <3>6. ~ToDo(tx, tx.done + 1, k)
      BY <1>b, <2>a, <2>2 DEF ToDo
    <3> HIDE DEF k
    <3> QED BY <1>a, <3>1, <3>3, <3>4, <3>5, <3>6, IterateTurns
  <2> QED BY <1>3, <1>c, <2>1, <2>2 DEF ExpireStep
<1> QED BY <1>1, <1>2, <1>3 DEF TxStep

-----------------------------------------------------------------------------
(* The refinement *)

LEMMA LockInvStep ==
    ASSUME LockInv, [Next]_vars
    PROVE  LockInv'
<1>1. Inv' /\ Newer(db, db')
  BY InvStep DEF LockInv
<1>2. db \in DB /\ db' \in DB
  BY <1>1 DEF LockInv, Inv, TypeInv, TypeOK
<1>3. Issued(db')
  BY <1>1, <1>2, IssuedLater DEF LockInv
<1>4. CASE tx' = NoTx
  BY <1>1, <1>3, <1>4 DEF LockInv, LoopTurns
<1>5. CASE LoopTurns'
  BY <1>1, <1>3, <1>5 DEF LockInv
<1>6. CASE UNCHANGED vars
  BY <1>1, <1>3, <1>6 DEF LockInv, vars, LoopTurns
<1>7. CASE Crash
  BY <1>4, <1>7 DEF Crash
<1>8. CASE TxStep
  BY <1>4, <1>5, <1>8, TxStepTurns
<1>9. ASSUME NEW now \in Instant, Call(now) PROVE LockInv'
  <2>1. CASE LeaseOps(now)
    BY <1>4, <2>1, LeaseOpsGood DEF LockInv
  <2>2. CASE HolderOps(now) \/ \E i \in DOMAIN db.waiters : CancelWaiter(i)
    BY <1>4, <2>2, OtherOpsTurn
  <2>3. CASE BulkOps(now) \/ ExpireAll(now)
    BY <1>5, <2>3, BulkOpsTurn
  <2> QED BY <1>9, <2>1, <2>2, <2>3 DEF Call
<1> QED BY <1>6, <1>7, <1>8, <1>9 DEF Next

LEMMA HoldType ==
    ASSUME NEW d \in DB, NEW r \in Resource, d.leases[r] # NoLease
    PROVE  /\ Holds(d)[r] = [holder |-> d.leases[r].holder, token |-> d.leases[r].token]
           /\ Holds(d)[r] # NoLease
           /\ Holds(d)[r].holder = d.leases[r].holder
           /\ Holds(d)[r].token = d.leases[r].token
           /\ d.leases[r].holder \in Holder /\ d.leases[r].token \in Nat
<1>1. d.leases[r].holder \in Holder /\ d.leases[r].token \in Nat
  BY DEF DB, Lease, Token
<1>2. Holds(d)[r] = [holder |-> d.leases[r].holder, token |-> d.leases[r].token]
  BY DEF Holds
<1>3. Holds(d)[r] \in [holder: Holder, token: Nat]
  BY <1>1, <1>2
<1>4. Holds(d)[r].holder = d.leases[r].holder /\ Holds(d)[r].token = d.leases[r].token
  BY <1>2
<1> QED BY <1>1, <1>2, <1>3, <1>4, FreeAssumption

LEMMA TurnsIsTurnOver ==
    ASSUME db \in DB, db' \in DB, Turns(db, db')
    PROVE  Lock!TurnOver
<1>1. db.next \in Nat \ {0} /\ db'.next \in Nat \ {0} /\ db.next <= db'.next
  BY DEF DB, Token, Turns
<1>a. \A r \in Resource :
          db'.leases[r] # NoLease =>
              /\ Holds(db')[r] # NoLease
              /\ Holds(db')[r].holder \in Holder
              /\ Holds(db')[r].token = db'.leases[r].token
  <2> DEFINE d == db'
  <2>1. d \in DB
    OBVIOUS
  <2> HIDE DEF d
  <2>2. \A r \in Resource :
            d.leases[r] # NoLease =>
                /\ Holds(d)[r] # NoLease
                /\ Holds(d)[r].holder \in Holder
                /\ Holds(d)[r].token = d.leases[r].token
    BY <2>1, HoldType
  <2> QED BY <2>2 DEF d
<1>2. db'.next - 1 \in Nat /\ db.next - 1 <= db'.next - 1
  BY <1>1
<1>3. (db.next - 1) + 1 .. db'.next - 1 = db.next .. db'.next - 1
  BY <1>1
<1>4. \A r \in Resource : (Lock!Fresh(r)) <=> FreshSince(db, db', r)
  <2> SUFFICES ASSUME NEW r \in Resource
               PROVE  (Lock!Fresh(r)) <=> FreshSince(db, db', r)
    OBVIOUS
  <2>1. CASE db'.leases[r] = NoLease
    <3>1. Holds(db')[r] = NoLease
      BY <2>1 DEF Holds
    <3> QED BY <2>1, <3>1 DEF Lock!Fresh, FreshSince
  <2>2. CASE db'.leases[r] # NoLease
    <3>1. /\ Holds(db')[r] # NoLease
          /\ Holds(db')[r].holder \in Holder
          /\ Holds(db')[r].token = db'.leases[r].token
      BY <1>a, <2>2
    <3> QED BY <1>3, <2>2, <3>1 DEF Lock!Fresh, FreshSince
  <2> QED BY <2>1, <2>2
<1>5. ASSUME NEW r \in Resource
      PROVE  \/ Holds(db')[r] = Holds(db)[r] \/ Holds(db')[r] = NoLease
             \/ Lock!Fresh(r)
  <2>1. CASE db'.leases[r] = NoLease
    BY <2>1 DEF Holds
  <2>2. CASE db'.leases[r] = db.leases[r]
    BY <2>2 DEF Holds
  <2>3. CASE FreshSince(db, db', r)
    BY <1>4, <2>3
  <2> QED BY <2>1, <2>2, <2>3 DEF Turns, NotGranted
<1>6. ASSUME NEW t \in db.next .. db'.next - 1
      PROVE  \E r \in Resource :
                /\ (Lock!Fresh(r)) /\ Holds(db')[r].token = t
                /\ \A s \in Resource \ {r} : (Lock!Fresh(s)) => Holds(db')[s].token # t
  <2>1. PICK r \in Resource :
            /\ FreshSince(db, db', r) /\ db'.leases[r].token = t
            /\ \A s \in Resource \ {r} : FreshSince(db, db', s) => db'.leases[s].token # t
    BY DEF Turns, IssuedOnce
  <2>2. \A s \in Resource :
            FreshSince(db, db', s) => Holds(db')[s].token = db'.leases[s].token
    BY <1>a DEF FreshSince
  <2> QED BY <1>4, <2>1, <2>2
<1>7. Holds(db') = [r \in Resource |-> Holds(db')[r]]
  BY DEF Holds
<1> QED BY <1>2, <1>3, <1>5, <1>6, <1>7 DEF Lock!TurnOver

LEMMA TransferIsHandOver ==
    ASSUME db \in DB, NEW r \in Resource, NEW h \in Holder, NEW t, NEW newHolder \in Holder,
           NEW now \in Instant, Transfer(r, h, t, newHolder, now)
    PROVE  Lock!HandOver(r, newHolder)
<1> DEFINE l == [db.leases[r] EXCEPT !.holder = newHolder]
<1>1. db.leases[r] \in Lease /\ db.leases[r] # NoLease
  BY DEF Transfer, ReleaseError, DB
<1>2. l \in Lease /\ l.holder = newHolder /\ l.token = db.leases[r].token
  BY <1>1 DEF Lease
<1>3. l # NoLease
  BY <1>2, LeaseNotNull
<1>4. db' = AppendAudit(PutLease(db, r, l), "transfer", r, newHolder, t)
  BY DEF Transfer, Update
<1> HIDE DEF l
<1>5. db'.next = db.next /\ db'.leases = [db.leases EXCEPT ![r] = l]
  BY <1>4 DEF AppendAudit, PutLease, DB
<1>6. db'.leases[r] = l /\ \A s \in Resource \ {r} : db'.leases[s] = db.leases[s]
  BY <1>5 DEF DB
<1>7. Holds(db)[r] # NoLease /\ Holds(db)[r].token = db.leases[r].token
  BY <1>1, HoldType
<1>8. Holds(db')[r] = [holder |-> newHolder, token |-> Holds(db)[r].token]
  BY <1>2, <1>3, <1>6, <1>7 DEF Holds
<1>9. \A s \in Resource \ {r} : Holds(db')[s] = Holds(db)[s]
  BY <1>6 DEF Holds
<1>10. Holds(db') = [Holds(db) EXCEPT ![r] = [holder |-> newHolder,
                                             token |-> Holds(db)[r].token]]
  BY <1>8, <1>9 DEF Holds
<1> QED BY <1>5, <1>7, <1>10 DEF Lock!HandOver

LEMMA LockStep ==
    ASSUME LockInv, [Next]_vars
    PROVE  [Lock!Next]_(Lock!vars)
<1>1. db \in DB /\ db' \in DB
  <2>1. LockInv'
    BY LockInvStep
  <2> QED BY <2>1 DEF LockInv, Inv, TypeInv, TypeOK
<1>2. CASE db' = db
  BY <1>2 DEF Lock!vars
<1>3. CASE TurnStep
  <2>1. CASE Turns(db, db')
    <3>1. Lock!TurnOver
      BY <1>1, <2>1, TurnsIsTurnOver
    <3> QED BY <3>1 DEF Lock!Next
  <2>2. CASE Holds(db') = Holds(db) /\ db'.next = db.next
    BY <2>2 DEF Lock!vars
  <2> QED BY <1>3, <2>1, <2>2 DEF TurnStep
<1>4. ASSUME NEW now \in Instant, Call(now) PROVE [Lock!Next]_(Lock!vars)
  <2>1. ASSUME NEW r \in Resource, NEW h \in Holder,
               \/ \E ttl \in TTL : Acquire(r, h, now, ttl)
               \/ \E t \in 1..MaxToken, ttl \in TTL : Renew(r, h, t, now, ttl)
               \/ \E t \in 1..MaxToken : Release(r, h, t, now)
               \/ \E ttl \in TTL : EnqueueWaiter(r, h, ttl, now)
        PROVE  [Lock!Next]_(Lock!vars)
    <3>1. TurnStep
      BY <2>1, LeaseOpsTurn
    <3> QED BY <1>3, <3>1
  <2>2. ASSUME NEW r \in Resource, NEW h \in Holder, NEW t \in 1..MaxToken,
               NEW newHolder \in Holder, Transfer(r, h, t, newHolder, now)
        PROVE  [Lock!Next]_(Lock!vars)
    <3>1. Lock!HandOver(r, newHolder)
      BY <1>1, <2>2, TransferIsHandOver
    <3> QED BY <3>1 DEF Lock!Next
  <2>3. CASE LeaseOps(now)
    BY <2>1, <2>2, <2>3 DEF LeaseOps
  <2>4. CASE HolderOps(now) \/ \E i \in DOMAIN db.waiters : CancelWaiter(i)
    <3>1. TurnStep
      BY <2>4, OtherOpsTurn
    <3> QED BY <1>3, <3>1
  <2>5. CASE BulkOps(now) \/ ExpireAll(now)
    <3>1. db' = db
      BY <2>5, BulkOpsTurn
    <3> QED BY <1>2, <3>1
  <2> QED BY <1>4, <2>3, <2>4, <2>5 DEF Call
<1>5. CASE TxStep
  BY <1>2, <1>3, <1>5, TxStepTurns
<1>6. CASE Crash
  BY <1>2, <1>6 DEF Crash
<1>7. CASE UNCHANGED vars
  BY <1>2, <1>7 DEF vars
<1> QED BY <1>4, <1>5, <1>6, <1>7 DEF Next

LEMMA LockInitially == Init => Lock!Init
<1> SUFFICES ASSUME Init PROVE Lock!Init
  OBVIOUS
<1>1. Holds(EmptyDB) = [r \in Resource |-> NoLease] /\ EmptyDB.next - 1 = 0
  BY DEF Holds, EmptyDB
<1> QED BY <1>1 DEF Init, Lock!Init

\* What the store promises its clients: whichever transactions run, batches and
\* sweeps that promote waiters on many resources included, and whichever are
\* lost, each commit turns resources over to tokens never issued before, every
\* one of them on exactly one resource, or hands one token to a new holder.
THEOREM StoreIsFencedLock == Spec => ImplementsFencedLock
<1>1. LockInv /\ [Next]_vars => LockInv'
  BY LockInvStep
<1>2. LockInv /\ [Next]_vars => [Lock!Next]_(Lock!vars)
  BY LockStep
<1> QED BY <1>1, <1>2, LockInvInit, LockInitially, PTL
        DEF Spec, ImplementsFencedLock, Lock!Spec
=============================================================================
