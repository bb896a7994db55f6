----------------------------- MODULE LeaseStore -----------------------------
(***************************************************************************)
(* The bbolt store of the lease service (internal/store): leases, fencing  *)
(* tokens, waiters, holders with quotas, and the audit log.                *)
(*                                                                         *)
(* `db' is the committed content of the database file; every handler runs  *)
(* inside db.Update, so it is one transaction: a function from a database  *)
(* to the database it commits.  A handler without a loop over its          *)
(* resources is one action.  BulkAcquire, BulkRelease and ExpireAll loop:  *)
(* they begin a transaction on a copy of the database, take one step per   *)
(* iteration, and commit; a crash in between loses the copy.  bbolt admits *)
(* one writer, so no other Update runs while `tx' is open, and readers see *)
(* `db' only.                                                              *)
(*                                                                         *)
(* Each handler is given the instant `now' by its caller.  Nothing in the  *)
(* store orders the instants of successive calls, so neither does this     *)
(* module: LeaseService adds the clock.  A call that fails changes         *)
(* nothing and is not an action; what it answers is an ...Error operator.  *)
(***************************************************************************)
EXTENDS Integers, Sequences, FiniteSets

CONSTANTS
    Resource,      \* resource names, numbered by their rank in bbolt's key order
    Holder,        \* holder names
    TTL,           \* the time-to-live values callers ask for
    Cap,           \* the values of MaxConcurrent; 0 is no cap
    Instant,       \* the instants callers pass as now
    NoLease,       \* there is no lease record under this key
    Unregistered,  \* there is no holder record under this key
    NoTx,          \* no looping transaction is open
    MaxToken,      \* bound: fencing tokens are issued up to this one
    MaxWaiters,    \* bound: waiters ever enqueued
    MaxAudit,      \* bound: audit entries ever written
    MaxBulk        \* the service's MaxBulkSize, a bound on a bulk request

ASSUME ResourceAssumption == Resource \subseteq Nat /\ IsFiniteSet(Resource)
ASSUME TimeAssumption == Instant \subseteq Nat /\ TTL \subseteq Nat \ {0}
ASSUME CapAssumption == Cap \subseteq Nat
ASSUME NullAssumption == NoLease \notin [holder: Holder, token: Nat, acquired: Nat, deadline: Nat]
ASSUME FreeAssumption == NoLease \notin [holder: Holder, token: Nat]
ASSUME BoundAssumption == {MaxToken, MaxWaiters, MaxAudit, MaxBulk} \subseteq Nat

VARIABLES
    db,   \* the committed database
    tx    \* the looping transaction that is open, or NoTx

vars == <<db, tx>>

-----------------------------------------------------------------------------
(* What the buckets hold *)

Token == Nat \ {0}

Lease == [holder: Holder, token: Token, acquired: Nat, deadline: Nat]

Waiter == [resource: Resource, holder: Holder, ttl: TTL, created: Nat,
           status: {"pending", "granted", "cancelled"}, token: Nat]

GrantAction == {"acquire", "bulk_acquire", "waiter_grant"}
EndAction == {"release", "bulk_release", "expire"}
AuditAction == GrantAction \cup EndAction \cup {"renew", "transfer"}

AuditEntry == [action: AuditAction, resource: Resource, holder: Holder, token: Token]

\* Waiters and audit entries are never deleted and are numbered from 1, so
\* both buckets are sequences; a waiter's id is "w-<its index>".
DB == [leases: [Resource -> Lease \cup {NoLease}],
       next: Token,
       holders: [Holder -> Cap \cup {Unregistered}],
       waiters: Seq(Waiter),
       audit: Seq(AuditEntry)]

EmptyDB == [leases |-> [r \in Resource |-> NoLease],
            next |-> 1,
            holders |-> [h \in Holder |-> Unregistered],
            waiters |-> <<>>,
            audit |-> <<>>]

Tx == [op: {"bulk_acquire"}, holder: Holder, ttl: TTL, now: Instant,
       asked: Seq(Resource), done: Nat, work: DB]
      \cup
      [op: {"bulk_release"}, holder: Holder, now: Instant,
       asked: Seq(Resource), done: Nat, work: DB]
      \cup
      [op: {"expire"}, now: Instant,
       asked: Seq(Resource), done: Nat, work: DB]

ASSUME TxAssumption == NoTx \notin Tx

-----------------------------------------------------------------------------
(* Helpers that run inside a transaction: they take the database d *)

\* The lease exists and its deadline is strictly after now.
Active(lease, now) == lease # NoLease /\ now < lease.deadline

HolderQuotaCap(d, h) == IF d.holders[h] = Unregistered THEN 0 ELSE d.holders[h]

\* Mutant: a lease that has run out and was not reaped still counts.
ActiveResourcesEver(d, h, now) ==
    {r \in Resource : d.leases[r] # NoLease /\ d.leases[r].holder = h}

ActiveResources(d, h, now) ==
    {r \in Resource : Active(d.leases[r], now) /\ d.leases[r].holder = h}

CountActiveByHolder(d, h, now) == Cardinality(ActiveResources(d, h, now))

\* enforceQuota lets h gain `add' leases at now.
WithinQuota(d, h, now, add) ==
    \/ HolderQuotaCap(d, h) = 0
    \/ CountActiveByHolder(d, h, now) + add <= HolderQuotaCap(d, h)

\* Mutant: the counter is read but the increment is not persisted.
AllocTokenLost(d) == d

AllocToken(d) == [d EXCEPT !.next = @ + 1]

PutLease(d, r, lease) == [d EXCEPT !.leases = [d.leases EXCEPT ![r] = lease]]

AppendAudit(d, action, r, h, t) ==
    [d EXCEPT !.audit =
        Append(@, [action |-> action, resource |-> r, holder |-> h, token |-> t])]

\* Mutant: the lease carries the counter after the increment.
GrantAfterIncrement(d, r, h, ttl, now, action) ==
    AppendAudit(
        PutLease(AllocToken(d), r,
                 [holder |-> h, token |-> d.next + 1, acquired |-> now, deadline |-> now + ttl]),
        action, r, h, d.next + 1)

\* Allocate a token, write the lease that carries it, log the grant.
Grant(d, r, h, ttl, now, action) ==
    AppendAudit(
        PutLease(AllocToken(d), r,
                 [holder |-> h, token |-> d.next, acquired |-> now, deadline |-> now + ttl]),
        action, r, h, d.next)

\* Mutant: the two names passed to appendAudit are swapped.
EndLeaseNamesSwapped(d, r, action) ==
    AppendAudit(PutLease(d, r, NoLease), action, d.leases[r].holder, r, d.leases[r].token)

\* Delete the lease on r and log why.
EndLease(d, r, action) ==
    AppendAudit(PutLease(d, r, NoLease), action, r, d.leases[r].holder, d.leases[r].token)

AddWaiter(d, r, h, ttl, now, status, t) ==
    [d EXCEPT !.waiters =
        Append(@, [resource |-> r, holder |-> h, ttl |-> ttl, created |-> now,
                   status |-> status, token |-> t])]

SetWaiterStatus(d, i, status, t) ==
    [d EXCEPT !.waiters =
        [d.waiters EXCEPT ![i] = [d.waiters[i] EXCEPT !.status = status, !.token = t]]]

Pending(d, r) ==
    {i \in DOMAIN d.waiters : d.waiters[i].resource = r /\ d.waiters[i].status = "pending"}

\* bbolt iterates waiters in the lexicographic order of their ids: "w-1",
\* "w-10", "w-11", ..., "w-2", ....  This is that order for ids below 100.
KeyRank(i) == IF i < 10 THEN 100 * i ELSE 10 * i + 1

\* The scan keeps the first waiter it meets with the least CreatedAt.
OldestPendingWaiter(d, r) ==
    {i \in Pending(d, r) :
        \A j \in Pending(d, r) :
            \/ d.waiters[i].created < d.waiters[j].created
            \/ /\ d.waiters[i].created = d.waiters[j].created
               /\ KeyRank(i) <= KeyRank(j)}

\* Mutant: the promoted waiter is left pending.
PromoteForgettingStatus(d, r, now) ==
    IF OldestPendingWaiter(d, r) = {} THEN d
    ELSE LET w == d.waiters[CHOOSE i \in OldestPendingWaiter(d, r) : TRUE]
         IN  IF WithinQuota(d, w.holder, now, 1)
             THEN Grant(d, r, w.holder, w.ttl, now, "waiter_grant")
             ELSE d

\* Mutant: a promotion does not enforce the quota.
PromoteOverQuota(d, r, now) ==
    IF OldestPendingWaiter(d, r) = {} THEN d
    ELSE LET i == CHOOSE i \in OldestPendingWaiter(d, r) : TRUE
             w == d.waiters[i]
         IN  SetWaiterStatus(Grant(d, r, w.holder, w.ttl, now, "waiter_grant"),
                             i, "granted", d.next)

\* Grant r to its oldest pending waiter, unless that waiter is over its quota.
PromoteWaiterFor(d, r, now) ==
    IF OldestPendingWaiter(d, r) = {} THEN d
    ELSE LET i == CHOOSE i \in OldestPendingWaiter(d, r) : TRUE
             w == d.waiters[i]
         IN  IF WithinQuota(d, w.holder, now, 1)
             THEN SetWaiterStatus(Grant(d, r, w.holder, w.ttl, now, "waiter_grant"),
                                  i, "granted", d.next)
             ELSE d

-----------------------------------------------------------------------------
(* What a refused call answers, in the order the handler checks; "" is success *)

RenewError(d, r, h, t, now) ==
    LET current == d.leases[r] IN
    IF current = NoLease THEN "ErrNotHeld"
    ELSE IF ~Active(current, now) THEN "ErrExpired"
    ELSE IF current.holder # h \/ current.token # t THEN "ErrNotHolder"
    ELSE ""

\* Mutant: the holder is compared, the token is not.
ReleaseErrorIgnoringToken(d, r, h, t, now) ==
    LET current == d.leases[r] IN
    IF current = NoLease THEN "ErrNotHeld"
    ELSE IF current.holder # h THEN "ErrNotHolder"
    ELSE IF ~Active(current, now) THEN "ErrExpired"
    ELSE ""

\* Also the checks of Transfer, before its quota, and of a BulkRelease entry.
ReleaseError(d, r, h, t, now) ==
    LET current == d.leases[r] IN
    IF current = NoLease THEN "ErrNotHeld"
    ELSE IF current.holder # h \/ current.token # t THEN "ErrNotHolder"
    ELSE IF ~Active(current, now) THEN "ErrExpired"
    ELSE ""

-----------------------------------------------------------------------------
(* Transactions without a loop *)

\* The bounds of the model: a transaction that would exceed one is not taken.
Bounded(d) ==
    /\ d.next <= MaxToken + 1
    /\ Len(d.waiters) <= MaxWaiters
    /\ Len(d.audit) <= MaxAudit

Update(d) ==
    /\ tx = NoTx
    /\ Bounded(d)
    /\ db' = d
    /\ UNCHANGED tx

\* Mutant: a holder acquires again what it holds already.
AcquireReentrant(r, h, now, ttl) ==
    /\ Active(db.leases[r], now) => db.leases[r].holder = h
    /\ WithinQuota(db, h, now, 1)
    /\ Update(Grant(db, r, h, ttl, now, "acquire"))

Acquire(r, h, now, ttl) ==
    /\ ~Active(db.leases[r], now)
    /\ WithinQuota(db, h, now, 1)
    /\ Update(Grant(db, r, h, ttl, now, "acquire"))

Renew(r, h, t, now, ttl) ==
    /\ RenewError(db, r, h, t, now) = ""
    /\ Update(AppendAudit(PutLease(db, r, [db.leases[r] EXCEPT !.deadline = now + ttl]),
                          "renew", r, h, t))

Release(r, h, t, now) ==
    /\ ReleaseError(db, r, h, t, now) = ""
    /\ Update(PromoteWaiterFor(EndLease(db, r, "release"), r, now))

\* Mutant: the audit entry names the old holder.
TransferLogsOldHolder(r, h, t, newHolder, now) ==
    /\ newHolder # h
    /\ ReleaseError(db, r, h, t, now) = ""
    /\ WithinQuota(db, newHolder, now, 1)
    /\ Update(AppendAudit(PutLease(db, r, [db.leases[r] EXCEPT !.holder = newHolder]),
                          "transfer", r, h, t))

\* The service refuses a transfer to oneself.
Transfer(r, h, t, newHolder, now) ==
    /\ newHolder # h
    /\ ReleaseError(db, r, h, t, now) = ""
    /\ WithinQuota(db, newHolder, now, 1)
    /\ Update(AppendAudit(PutLease(db, r, [db.leases[r] EXCEPT !.holder = newHolder]),
                          "transfer", r, newHolder, t))

\* An expired lease goes to a pending waiter first, if one can be promoted.
Handover(d, r, now) ==
    IF d.leases[r] # NoLease /\ ~Active(d.leases[r], now)
    THEN PromoteWaiterFor(d, r, now)
    ELSE d

EnqueuePending(r, h, ttl, now) ==
    /\ Active(db.leases[r], now) \/ Handover(db, r, now) # db
    /\ Update(AddWaiter(Handover(db, r, now), r, h, ttl, now, "pending", 0))

EnqueueImmediate(r, h, ttl, now) ==
    /\ ~Active(db.leases[r], now)
    /\ Handover(db, r, now) = db
    /\ WithinQuota(db, h, now, 1)
    /\ Update(AddWaiter(Grant(db, r, h, ttl, now, "acquire"),
                        r, h, ttl, now, "granted", db.next))

EnqueueWaiter(r, h, ttl, now) ==
    EnqueuePending(r, h, ttl, now) \/ EnqueueImmediate(r, h, ttl, now)

\* Mutant: a waiter that is no longer pending can be cancelled.
CancelAnyWaiter(i) == Update(SetWaiterStatus(db, i, "cancelled", db.waiters[i].token))

CancelWaiter(i) ==
    /\ db.waiters[i].status = "pending"
    /\ Update(SetWaiterStatus(db, i, "cancelled", db.waiters[i].token))

PutHolder(h, cap) ==
    /\ db.holders[h] = Unregistered
    /\ Update([db EXCEPT !.holders = [db.holders EXCEPT ![h] = cap]])

SetQuota(h, cap) ==
    /\ db.holders[h] # Unregistered
    /\ Update([db EXCEPT !.holders = [db.holders EXCEPT ![h] = cap]])

PendingByHolder(d, h) ==
    {i \in DOMAIN d.waiters : d.waiters[i].holder = h /\ d.waiters[i].status = "pending"}

DeleteHolder(h, now) ==
    /\ db.holders[h] # Unregistered
    /\ CountActiveByHolder(db, h, now) = 0
    /\ PendingByHolder(db, h) = {}
    /\ Update([db EXCEPT !.holders = [db.holders EXCEPT ![h] = Unregistered]])

-----------------------------------------------------------------------------
(* Transactions with a loop: begin on a copy, one step per iteration, commit *)

\* Mutant: a list may name a resource twice.
ListingRepeating(n) == [1..n -> Resource]

\* A list of resources without duplicates (the service refuses duplicates).
Listing(n) ==
    {s \in [1..n -> Resource] : \A i, j \in 1..n : s[i] = s[j] => i = j}

\* The resources of a list that have a waiter to promote.
Awaited(asked) == {i \in DOMAIN asked : Pending(db, asked[i]) # {}}

\* The bounds again: begin only if `grants' tokens and `ended' more entries fit.
Begin(t, grants, ended) ==
    /\ tx = NoTx
    /\ db.next + grants <= MaxToken + 1
    /\ Len(db.audit) + grants + ended <= MaxAudit
    /\ tx' = t
    /\ UNCHANGED db

\* One iteration of `todo', which leaves the copy as d.
Iterate(todo, d) ==
    /\ tx.done < todo
    /\ tx' = [tx EXCEPT !.work = d, !.done = @ + 1]
    /\ UNCHANGED db

\* Mutant: one transaction per iteration; what it committed stays.
CommitEachIteration(todo) ==
    /\ tx.done \in 1 .. todo
    /\ db' = tx.work
    /\ tx' = IF tx.done = todo THEN NoTx ELSE tx

Commit(todo) ==
    /\ tx.done = todo
    /\ db' = tx.work
    /\ tx' = NoTx

\* Mutant: the quota is checked for one more lease, not for the whole batch.
BulkAcquireBeginQuotaOfOne(h, asked, now, ttl) ==
    /\ \A i \in DOMAIN asked : ~Active(db.leases[asked[i]], now)
    /\ WithinQuota(db, h, now, 1)
    /\ Begin([op |-> "bulk_acquire", holder |-> h, ttl |-> ttl, now |-> now,
              asked |-> asked, done |-> 0, work |-> db], Len(asked), 0)

BulkAcquireBegin(h, asked, now, ttl) ==
    /\ \A i \in DOMAIN asked : ~Active(db.leases[asked[i]], now)
    /\ WithinQuota(db, h, now, Len(asked))
    /\ Begin([op |-> "bulk_acquire", holder |-> h, ttl |-> ttl, now |-> now,
              asked |-> asked, done |-> 0, work |-> db], Len(asked), 0)

\* Mutant: the transaction is committed and the write lock not given back.
BulkAcquireStepKeepingLock ==
    /\ tx # NoTx /\ tx.op = "bulk_acquire"
    /\ \/ Iterate(Len(tx.asked),
                  Grant(tx.work, tx.asked[tx.done + 1], tx.holder, tx.ttl, tx.now,
                        "bulk_acquire"))
       \/ tx.done = Len(tx.asked) /\ db' = tx.work /\ UNCHANGED tx

BulkAcquireStep ==
    /\ tx # NoTx /\ tx.op = "bulk_acquire"
    /\ \/ Iterate(Len(tx.asked),
                  Grant(tx.work, tx.asked[tx.done + 1], tx.holder, tx.ttl, tx.now,
                        "bulk_acquire"))
       \/ Commit(Len(tx.asked))

\* An entry carries the token its caller believes in; every entry must match.
BulkReleaseBegin(h, asked, tokens, now) ==
    /\ \A i \in DOMAIN asked : ReleaseError(db, asked[i], h, tokens[i], now) = ""
    /\ Begin([op |-> "bulk_release", holder |-> h, now |-> now,
              asked |-> asked, done |-> 0, work |-> db],
             Cardinality(Awaited(asked)), Len(asked))

BulkReleaseStep ==
    /\ tx # NoTx /\ tx.op = "bulk_release"
    /\ \/ Iterate(Len(tx.asked),
                  LET r == tx.asked[tx.done + 1]
                  IN  PromoteWaiterFor(EndLease(tx.work, r, "bulk_release"), r, tx.now))
       \/ Commit(Len(tx.asked))

\* Mutant: the cursor skips the key after the one that was deleted.
DeadSkippingNext(d, now) ==
    {r \in Resource :
        /\ d.leases[r] # NoLease /\ ~Active(d.leases[r], now)
        /\ Cardinality({s \in Resource :
               s < r /\ d.leases[s] # NoLease /\ ~Active(d.leases[s], now)}) % 2 = 0}

\* The dead leases, in key order.
Dead(d, now) == {r \in Resource : d.leases[r] # NoLease /\ ~Active(d.leases[r], now)}

ExpireBegin(asked, now) ==
    /\ {asked[i] : i \in DOMAIN asked} = Dead(db, now)
    /\ \A i, j \in DOMAIN asked : i < j => asked[i] < asked[j]
    /\ Begin([op |-> "expire", now |-> now, asked |-> asked, done |-> 0, work |-> db],
             Cardinality(Awaited(asked)), Len(asked))

\* A first pass reaps every dead lease, a second one promotes their waiters.
ExpireStep ==
    /\ tx # NoTx /\ tx.op = "expire"
    /\ LET n == Len(tx.asked) IN
       \/ /\ tx.done < n
          /\ Iterate(2 * n, EndLease(tx.work, tx.asked[tx.done + 1], "expire"))
       \/ /\ n <= tx.done
          /\ Iterate(2 * n, PromoteWaiterFor(tx.work, tx.asked[tx.done + 1 - n], tx.now))
       \/ Commit(2 * n)

\* The process dies, or the commit fails: bbolt keeps the last committed state.
Crash ==
    /\ tx # NoTx
    /\ tx' = NoTx
    /\ UNCHANGED db

-----------------------------------------------------------------------------
Init == db = EmptyDB /\ tx = NoTx

LeaseOps(now) ==
    \E r \in Resource, h \in Holder :
        \/ \E ttl \in TTL : Acquire(r, h, now, ttl)
        \/ \E t \in 1..MaxToken, ttl \in TTL : Renew(r, h, t, now, ttl)
        \/ \E t \in 1..MaxToken : Release(r, h, t, now)
        \/ \E t \in 1..MaxToken, newHolder \in Holder : Transfer(r, h, t, newHolder, now)
        \/ \E ttl \in TTL : EnqueueWaiter(r, h, ttl, now)

HolderOps(now) ==
    \E h \in Holder :
        \/ \E cap \in Cap : PutHolder(h, cap) \/ SetQuota(h, cap)
        \/ DeleteHolder(h, now)

BulkOps(now) ==
    \E h \in Holder, n \in 1..MaxBulk : \E asked \in Listing(n) :
        \/ \E ttl \in TTL : BulkAcquireBegin(h, asked, now, ttl)
        \/ \E tokens \in [1..n -> 1..MaxToken] : BulkReleaseBegin(h, asked, tokens, now)

ExpireAll(now) ==
    \E asked \in Listing(Cardinality(Dead(db, now))) : ExpireBegin(asked, now)

\* A call of the store made with the instant now, up to its loop if it has one.
Call(now) ==
    \/ LeaseOps(now)
    \/ HolderOps(now)
    \/ \E i \in DOMAIN db.waiters : CancelWaiter(i)
    \/ BulkOps(now)
    \/ ExpireAll(now)

TxStep == BulkAcquireStep \/ BulkReleaseStep \/ ExpireStep

Next == (\E now \in Instant : Call(now)) \/ TxStep \/ Crash

Spec == Init /\ [][Next]_vars

-----------------------------------------------------------------------------
(* Properties.  A property of the database is stated of the committed one   *)
(* and, because a loop's copy may be the next one, of the open copy too.    *)

Databases == {db} \cup (IF tx = NoTx THEN {} ELSE {tx.work})

\* Every bucket holds records of its own shape, and so does an open copy.
TypeOK ==
    /\ db \in DB
    /\ tx \in Tx \cup {NoTx}

\* The entries of the audit log that gave out a token.
Grants(d) == {i \in DOMAIN d.audit : d.audit[i].action \in GrantAction}

\* Whatever mix of acquires, promotions and bulk grants ran, and whichever
\* crashed, the log shows every token below the counter granted once, in
\* increasing order: no token is skipped (allocated for no lease), reused or
\* issued out of order, by any of the four places that allocate one.
GrantedOnceInOrder(d) ==
    /\ \A i, j \in Grants(d) : i < j => d.audit[i].token < d.audit[j].token
    /\ {d.audit[i].token : i \in Grants(d)} = 1 .. d.next - 1

TokensGrantedOnceInOrder == \A d \in Databases : GrantedOnceInOrder(d)

\* Entries about r; the last one tells the state of the lease on r.
About(d, r) == {i \in DOMAIN d.audit : d.audit[i].resource = r}
IsLast(i, S) == i \in S /\ \A j \in S : j <= i

\* The audit log replays to the lease table: a resource has a lease exactly
\* when its last entry does not end one, and that entry names the holder and
\* token of the lease.  Each handler writes the two buckets separately.
ReplaysToLeases(d) ==
    \A r \in Resource :
        /\ d.leases[r] = NoLease <=>
               \A i \in About(d, r) :
                   IsLast(i, About(d, r)) => d.audit[i].action \in EndAction
        /\ \A i \in About(d, r) :
               IsLast(i, About(d, r)) /\ d.leases[r] # NoLease =>
                   /\ d.audit[i].holder = d.leases[r].holder
                   /\ d.audit[i].token = d.leases[r].token

AuditReplaysToLeases == \A d \in Databases : ReplaysToLeases(d)

\* A grant recorded at i is superseded by a later end or grant on its resource.
Superseded(d, i) ==
    \E j \in About(d, d.audit[i].resource) :
        i < j /\ d.audit[j].action \in GrantAction \cup EndAction

\* A fencing token that was superseded is dead for good: whoever presents it,
\* at whatever instant, is refused a renewal, a release and a transfer, even
\* after any number of later grants, hand-overs and transfers of the resource.
StaleRejected(d) ==
    \A i \in Grants(d) :
        Superseded(d, i) =>
            \A h \in Holder, now \in Instant :
                /\ RenewError(d, d.audit[i].resource, h, d.audit[i].token, now) # ""
                /\ ReleaseError(d, d.audit[i].resource, h, d.audit[i].token, now) # ""

StaleTokenRejected == \A d \in Databases : StaleRejected(d)

\* A waiter says "granted" exactly when the log has the grant of its token to
\* its holder on its resource, and no two waiters share a grant; one that is
\* pending or cancelled never received a token; and no promotion is logged
\* that no waiter knows of, whatever cancellation or crash it raced with.
MatchGrants(d) ==
    /\ \A w \in DOMAIN d.waiters :
          IF d.waiters[w].status = "granted"
          THEN /\ \E i \in Grants(d) :
                     /\ d.audit[i].action \in {"acquire", "waiter_grant"}
                     /\ d.audit[i].resource = d.waiters[w].resource
                     /\ d.audit[i].holder = d.waiters[w].holder
                     /\ d.audit[i].token = d.waiters[w].token
               /\ \A v \in DOMAIN d.waiters \ {w} :
                     d.waiters[v].token # d.waiters[w].token
          ELSE d.waiters[w].token = 0
    /\ \A i \in DOMAIN d.audit :
          d.audit[i].action = "waiter_grant" =>
              \E w \in DOMAIN d.waiters :
                  /\ d.waiters[w].status = "granted"
                  /\ d.waiters[w].token = d.audit[i].token

WaitersMatchGrants == \A d \in Databases : MatchGrants(d)

\* A loop checks all of its list first and never again, and a promotion does
\* not look at the lease it replaces.  Even so every iteration does what a
\* single call, with its own checks, would do on the copy at that point: the
\* grants before it have used up neither the resource nor the quota, no
\* promotion has taken a lease that is still to be released, and the second
\* pass of a sweep promotes only on resources that are still free.
BatchChecksHold ==
    tx # NoTx =>
        \A i \in DOMAIN tx.asked :
            LET r == tx.asked[i]
                next == tx.done + 1
            IN  CASE tx.op = "bulk_acquire" ->
                        i = next =>
                            /\ ~Active(tx.work.leases[r], tx.now)
                            /\ WithinQuota(tx.work, tx.holder, tx.now, 1)
                  [] tx.op = "bulk_release" ->
                        i = next =>
                            ReleaseError(tx.work, r, tx.holder, db.leases[r].token, tx.now) = ""
                  [] tx.op = "expire" ->
                        /\ i = next => r \in Dead(tx.work, tx.now)
                        /\ i + Len(tx.asked) = next => tx.work.leases[r] = NoLease

-----------------------------------------------------------------------------
(* What a committed transaction may do *)

\* The transaction put a lease on r that carries another token than before.
Granted(r) ==
    /\ db'.leases[r] # NoLease
    /\ db.leases[r] # NoLease => db.leases[r].token # db'.leases[r].token

\* The transaction gave the lease on r to another holder under its token.
Transferred(r) ==
    /\ db.leases[r] # NoLease /\ db'.leases[r] # NoLease
    /\ db.leases[r].token = db'.leases[r].token
    /\ db.leases[r].holder # db'.leases[r].holder

\* A resource only ever changes token to one that was never issued before,
\* on any resource: a client that saw a larger token can refuse a smaller one.
FencingMonotone ==
    [][\A r \in Resource :
          Granted(r) => db'.leases[r].token \in db.next .. db'.next - 1]_vars

\* A waiter keeps its identity and leaves "pending" at most once: a promotion
\* and a cancellation that race cannot both win, nor a waiter be queued again.
WaiterLifecycle ==
    [][\A i \in DOMAIN db.waiters :
          /\ i \in DOMAIN db'.waiters
          /\ db'.waiters[i] # db.waiters[i] =>
                /\ db.waiters[i].status = "pending"
                /\ db'.waiters[i] = [db.waiters[i] EXCEPT !.status = db'.waiters[i].status,
                                                          !.token = db'.waiters[i].token]]_vars

\* The transaction that commits ran at now: a single call, or the open loop.
RanAt(now) == IF tx = NoTx THEN Call(now) ELSE now = tx.now

\* When a transaction gives leases to h at now, all of them together with
\* those h kept stay within the cap h has: also when one transaction promotes
\* h on several resources, or h is both releasing and promoted.
GrantsWithinQuota ==
    [][\A r \in Resource :
          /\ Granted(r) =>
                WithinQuota(db', db'.leases[r].holder, db'.leases[r].acquired, 0)
          /\ \A now \in Instant :
                Transferred(r) /\ RanAt(now) =>
                    /\ Active(db'.leases[r], now)
                    /\ WithinQuota(db', db'.leases[r].holder, now, 0)]_vars

\* All or nothing: a committed BulkAcquire has granted every resource it was
\* asked for, in order, with consecutive tokens, and changed no other.
BulkAcquireAllOrNothing ==
    [][tx # NoTx /\ tx.op = "bulk_acquire" /\ db' # db =>
          \A r \in Resource :
              IF \E i \in DOMAIN tx.asked : tx.asked[i] = r
              THEN \E i \in DOMAIN tx.asked :
                      /\ tx.asked[i] = r
                      /\ Granted(r)
                      /\ db'.leases[r].holder = tx.holder
                      /\ db'.leases[r].token = db.next + i - 1
              ELSE db'.leases[r] = db.leases[r]]_vars

\* All or nothing: a committed BulkRelease has ended every lease it was asked
\* to, whoever was promoted meanwhile, and touched no other resource.
BulkReleaseAllOrNothing ==
    [][tx # NoTx /\ tx.op = "bulk_release" /\ db' # db =>
          \A r \in Resource :
              IF \E i \in DOMAIN tx.asked : tx.asked[i] = r
              THEN db'.leases[r] = NoLease \/ Granted(r)
              ELSE db'.leases[r] = db.leases[r]]_vars

\* A sweep that commits leaves no dead lease, keeps every live one, and gives
\* a reaped resource to nobody but a waiter that was pending before.
SweepComplete ==
    [][tx # NoTx /\ tx.op = "expire" /\ tx' = NoTx /\ db' # db =>
          \A r \in Resource :
              /\ Active(db.leases[r], tx.now) => db'.leases[r] = db.leases[r]
              /\ db'.leases[r] # NoLease => Active(db'.leases[r], tx.now)
              /\ Granted(r) =>
                    \E w \in Pending(db, r) : db'.waiters[w].token = db'.leases[r].token]_vars

\* h has as many live leases in this table as d lets it have.
AtCap(d, leases, h, now) ==
    /\ HolderQuotaCap(d, h) # 0
    /\ HolderQuotaCap(d, h) <=
          Cardinality({s \in Resource : /\ leases[s] # NoLease /\ leases[s].holder = h
                                        /\ now < leases[s].deadline})

\* The leases as a loop finds them when it has freed r and offers it to its
\* waiters: those further down its list are still what they were.
LeasesInTurn(r) ==
    [s \in Resource |->
        IF /\ tx # NoTx
           /\ \E i, j \in DOMAIN tx.asked : i < j /\ tx.asked[i] = r /\ tx.asked[j] = s
        THEN db.leases[s] ELSE db'.leases[s]]

\* A transaction that frees a resource leaves its oldest waiter pending only if
\* the holder of that waiter is at its cap, counting at the instant of the
\* transaction what is alive by then: what earlier iterations of a batch or a
\* sweep ended no longer counts and what they granted does; a lease that the
\* batch has yet to release counts, a dead one that a sweep reaped does not.
WaiterLeftOnlyAtCap ==
    [][\A r \in Resource, now \in Instant :
          /\ db.leases[r] # NoLease /\ db'.leases[r] = NoLease
          /\ RanAt(now)
          => \A i \in OldestPendingWaiter(db', r) :
                AtCap(db', LeasesInTurn(r), db'.waiters[i].holder, now)]_vars

\* Who holds each resource, under which token.  A lease that is only renewed is
\* the same hold.
Holds(d) ==
    [r \in Resource |->
        IF d.leases[r] = NoLease THEN NoLease
        ELSE [holder |-> d.leases[r].holder, token |-> d.leases[r].token]]

Lock == INSTANCE FencedLock
    WITH Free <- NoLease, held <- Holds(db), issued <- db.next - 1

\* Every transaction, a batch that grants and promotes on several resources
\* and a crash in its midst included, is one step of the fenced lock.
ImplementsFencedLock == Lock!Spec

-----------------------------------------------------------------------------
(* Properties the documentation states and the code does not have *)

\* types.go: a "FIFO queue of clients waiting for a held resource": a lease is
\* granted on a resource only to the waiter that has been queued longest.
QueueIsFIFO ==
    [][\A r \in Resource : Granted(r) =>
          \A i \in Pending(db, r) :
              \E j \in Pending(db, r) :
                  /\ j <= i
                  /\ db'.waiters[j].token = db'.leases[r].token]_vars
=============================================================================
