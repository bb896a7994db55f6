# Verification of the lease and fencing-token service

TLA+ models of the service in `src/`, TLC configurations that check them on
small instances, and TLAPS proofs for every instance. `PROJECT.json` lists the
components, the runs, the source lines each definition stands for, the hazards
and the theorems.

## 1. Inventory

The program is one process: an HTTP server (`main.go`) over a service
(`internal/lease`) over a store (`internal/store`) in one bbolt file. Every
method of the store runs in one transaction, `db.Update` (one writer at a time)
or `db.View` (a snapshot). net/http serves each request in a goroutine of its
own, so requests are concurrent and meet only at bbolt's write lock.

| Component | State | Operations | Talks to |
| --- | --- | --- | --- |
| Leases and fencing tokens, `store/lease.go`, `store/store.go` | buckets `leases` (one record per resource) and `meta` (the next token) | Acquire, Renew, Release, Transfer, BulkAcquire, BulkRelease, ExpireAll; Inspect, List, NextToken read | quota, waiters and audit, in the same transaction |
| Waiters, `store/waiter.go` | `waiters`, `waiter_seq` | EnqueueWaiter, CancelWaiter; promoteWaiterFor from Release, BulkRelease, ExpireAll, EnqueueWaiter; ListWaiters reads | leases, quota, audit |
| Holders and quota, `store/holder.go` | `holders` | PutHolder, SetQuota, DeleteHolder; enforceQuota from every operation that gives a lease | counts the active leases |
| Audit, `store/store.go`, `store/audit.go`, `lease/token_health.go` | `audit`, `audit_seq` | appendAudit from every lease operation; ListAudit, TokenHistory and CheckTokenHealth read | - |
| Service and clock, `lease/service.go`, `clock/clock.go` | none of its own | validates a request, looks up its policy, reads the clock, calls the store; Recover sweeps at start-up | the store |
| HTTP and main, `main.go` | none | decode, call, encode; open, recover, listen | the service |
| Policies, `store/policy.go` | `policies` | PutPolicy (create only); ttlFor reads one before an acquire | the service |
| Observability, `lease/observability.go`, `store/usage.go`, `stats.go`, `resource_states.go`, `waiter_summary.go` | none | HolderUsage, WaiterSummary, ResourceStates, Stats; Diagnostics reads three of them | reads all buckets |
| Tags, `store/tag.go` | `tags`, `tag_idx` (its inverse) | AddTag, RemoveTag; GetTags, ListResources | nothing |
| Programs that hold leases (not in the repository) | what they believe they hold | ask, retry, give up, ask what they hold | the HTTP API |
| bbolt (external) | the file | begin, commit, roll back | - |

What makes each of them correct:

- **Leases and tokens**: one holder per resource; a token is given out once, in
  increasing order, without gaps, even when a batch is interrupted; a superseded
  token is refused for ever; a live lease is never taken away; batches are all or
  nothing. In one sentence: the store is a *fenced lock*.
- **Waiters**: a waiter leaves the queue once, by exactly one of promotion and
  cancellation; its record agrees with a grant; none is left on a freed resource
  unless its holder is at its cap.
- **Quota**: no transaction that gives leases takes a holder past its cap.
- **Audit**: the log replays to the lease table; the health check never complains
  of a log the store wrote; who pages through the log while it grows misses nothing.
- **Service**: the sweep of a restart is over before the first request is served;
  requests are answered; nothing the store promises is lost when the process is
  killed; an acquire by policy gets the policy's time.
- **Observability**: the views agree on one snapshot; what was told stays true.
- **Clients**: a careful program that may believe it holds a resource holds it,
  whatever answers were lost and whatever was retried.
- **Tags**: the two buckets mirror each other and no update is lost.

What is hard here: the instant a handler works with is read before it waits for
the write lock, so it may be arbitrarily old; three operations loop over
resources in one transaction that a crash can interrupt; one transaction may
promote several waiters of one capped holder; cancellations race with
promotions; some requests take several transactions; a client that gave up on a
request cannot call it back; deadlines, sweeps and restarts meet at a boundary
instant; two buckets must agree. `PROJECT.json` has these as hazards, at their
lines.

## 2. The modules

```
FencedLock                          abstract: what a client is promised
    ^ (INSTANCE, refinement mapping)
LeaseStore <-- AuditQueries <-- MCLeaseStore     runs on the store alone
    ^
LeaseService <-- MCLeaseService                  the running service
    ^   ^
    |   Clients  <-- MCClients                   and the programs it serves
    Handlers     <-- MCHandlers                  and requests of many transactions

Tags <-- MCTags

LeaseStoreProofs <-- WaiterProofs <-- BatchProofs <-- LeaseServiceProofs
LeaseStoreProofs <-- AuditProofs
LeaseServiceProofs, AuditProofs <-- HandlersProofs
LeaseServiceProofs <-- ClientsProofs
TagsProofs
```

An arrow points to the module that is extended.

### FencedLock

The abstract specification: a resource is free or held by one holder under one
token; a step turns any number of resources over to tokens never issued before,
each of them on exactly one resource, or changes the holder of one resource under
its token. It knows no deadlines, waiters, quotas, transactions or crashes.
`LeaseStore` implements it under the mapping `held <- Holds(db)`, `issued <- db.next - 1`
(`ImplementsFencedLock`), so a batch that releases two resources and promotes two
waiters, ten iterations with as many chances to crash, is one atomic step to
whoever looks at the database.

### LeaseStore

`db` is the committed content of the file: `leases` (resource to lease record or
`NoLease`), `next` (the fencing counter), `holders` (holder to cap or
`Unregistered`), `waiters` and `audit` (sequences: both buckets are numbered from
1 and nothing is deleted from them). `tx` is the transaction of a handler that
loops, with the copy `work` it writes to, or `NoTx`.

A handler without a loop over its resources is one action, on `db`. It is built
from operators that take a database and return one (`Grant`, `EndLease`,
`PromoteWaiterFor`, ...), named after the helpers of the code. `BulkAcquire`,
`BulkRelease` and `ExpireAll` are a `...Begin` action with the checks, a `...Step`
per iteration, and `Commit`; `Crash` throws the copy away, at any iteration. That
is what `db.Update` does with a killed process, an error and a failing commit.

Abstractions, each where no control depends on the detail:

- Resources are numbers, their rank in bbolt's key order, because `ExpireAll`
  visits them in that order. Holders are model values.
- A lease has no `ttl_seconds`: it is only echoed. Its deadline and its instant
  of acquisition are kept.
- Audit entries have no instant and no detail text. Their index is their `seq`.
- A waiter's id is its index; `KeyRank` is the lexicographic order of `"w-<n>"`.
  It is exact for ids below 100, far beyond any run, and no theorem unfolds it.
- A failing call changes nothing and is not an action. What it answers is
  `RenewError` or `ReleaseError`, in the order the handler checks.
- Decode errors of stored JSON and missing buckets end the transaction without
  a commit, like `Crash`. One does not: holderQuotaCap (lease.go:83) takes a holder
  record it cannot read for one without a cap. The store writes no such record.
- What the service's validation refuses (empty names, a transfer to oneself,
  duplicates in a bulk request) is not offered to the store: see `Listing`.
- The counters are 64 bits wide in the code and unbounded in the model: at a
  million grants a second they last 290 000 years.

The instants of successive calls are unrelated in `LeaseStore`, which is what the
store itself assumes. So its properties hold for clocks that go back, too.

### AuditQueries

`ListAudit` (filter, offset, page size), `TokenHistory` and `CheckTokenHealth` as
functions of a database, and the two properties that relate them to the store's
actions. Page sizes 100 and 1000 are the constants `DefaultLimit` and `MaxLimit`,
scaled to 1 and 2, so that pages are full, cut short and empty in a log of three.
What a query collects while its cursor walks the log is stated by rank rather than
by recursion: `Places` are the entries that pass the filter, `Nth(S, k)` is the k-th
of them, and `InOrder` lists them ascending. `AllResources` is the empty filter.
The health check accepts repeated tokens although its answer is called
`strictly_increasing` (token_health.go:19 compares with `<`): renewals and transfers
repeat one, so it has to.

### LeaseService

Extends `LeaseStore` with the clock, the requests in flight and the life of the
process. `called[p]` is what `Now` answered to the request of client `p`; `Serve(p)`
later runs any call of the store with that instant, once the lock is free. What a
request asks for is chosen when it is served, as nothing depends on it earlier.
`phase` follows `main`: down, recovering (open, and the clock is read), sweeping,
serving. `Die` kills the process in any phase. `CommitFails` answers an error and
lives on; during the sweep that is `Die`, because `main` calls `log.Fatalf`.

The clock does not go back. This is an assumption of the model, not of the code:
`RealClock` is `time.Now()`, and the instants that the store keeps are compared as wall
time, which an operator may set back. TenantNotEvicted and what Clients and its
proofs say of beliefs rest on it; the properties of the store do not.

`ImplementsStore` says that every behaviour of the service is one of the store.

### Handlers

Extends `LeaseService` with the requests that take several transactions. An
acquire by policy is `ChoosePolicy` (ttlFor's read transaction), `ReadClock`, and
`AcquireByPolicy` or `RefuseByPolicy`, in the order of the service's code.
`GET /diagnostics` is `CallDiagnostics`, `ReadHolders`, `ReadWaiters`,
`ReadClockAgain`, `ReadResources`, each a snapshot of its own; readers wait for no
lock. `HolderUsage`, `WaiterSummary`, `ResourceStates` and `Stats` are functions of a
database and an instant. The reader remembers its last complete answer, across
deaths of the process, which is what lets `ToldForGood` speak of crashes. That the
queue lengths of the holders sum up to the queue lengths of the resources is stated
without a sum: as many marks as the holders' counts tell are as many as are queued.
`Report` is the shape of an answer at each stage of the request.

### Clients

Extends `LeaseService` with what its answers let a program conclude. A slot of
`request` is one HTTP request; `waits` is what each program waits for. Answers are
lost (`LoseAnswer`), programs stop waiting (`StopWaiting`, for the operations in
`Abandonable`) while the handler goes on, since no handler looks at the context of
its request; they ask again, and ask `GET /leases` what they hold. `believes` is the
lease a program was last told, `givenUp` the tokens it has asked to release or
transfer. The programs are assumptions, not code of the repository: they are
careful in the ways the head of the module states.

### Tags

The two buckets, and for each client its request and the copy its transaction
works on. The transaction is taken write by write (`PutTags`, `PutTagIndex`,
`Commit`), since the hazard is what happens between the two buckets; `Fail` and
`Restart` interrupt it, and `WriteLockFree` is bbolt's single writer. A sorted list
is modelled by how often each name is in it.

## 3. The runs

Every bound is a constant of the .cfg: `MaxToken` tokens, `MaxWaiters` waiters,
`MaxAudit` entries, `MaxBulk` resources in a batch, `Instant` the instants of the
model. A step that would exceed a bound is not taken, and begins no loop it could
not finish. `MaxAudit = 1000` stands for no bound, in runs whose view leaves the
log out of the state (`NoAudit` and its kin): no action reads the log, and no
property of those runs depends on entries of earlier steps.

| Run | Instance | Shows |
| --- | --- | --- |
| Locking | 1 resource, 2 holders, 3 tokens, 2 waiters, 2 instants, 4 log entries | TypeOK, StaleTokenRejected, AuditReplaysToLeases, WaitersMatchGrants, WaiterLifecycle, HealthAgreesWithLease over every mix of single-resource operations. A token that is superseded, transferred and regranted needs three tokens; two waiters are what it takes to promote the wrong one, or one twice. |
| BulkLog | 2 resources, 2 holders with cap 1, 3 tokens, 3 log entries, 1 waiter | TokensGrantedOnceInOrder, FencingMonotone, GrantsWithinQuota, BulkAcquireAllOrNothing, PagesNeverShift with batches, sweeps and crashes between iterations: a batch of two is over the cap of one, and fits an uncapped, unregistered holder |
| Batches | 2 resources, 1 holder with cap 1 or none, 2 waiters, 4 tokens | BatchChecksHold, GrantsWithinQuota, BulkReleaseAllOrNothing, SweepComplete, WaiterLeftOnlyAtCap, ImplementsFencedLock: two leases and two promotions take four tokens, and one holder is enough to be promoted twice, or once and then passed over |
| Clocked | 2 clients, 3 instants, ttl 2 | SvcTypeOK, TenantNotEvicted, SweptBeforeServing, ImplementsStore: two clients are what it takes for one to be served between the other's clock read and its turn; a ttl of 2 lets a request be one instant late inside a lease's life, and later than it |
| Handling | 1 client, 1 reader, 1 policy, 2 ttls, batches of one | HandlersTypeOK, ViewsAgree, ToldForGood, PolicyHonoured; RequestsFinish and ReadersFinish under fairness. Two ttls are what it takes to get the wrong one; the one client's calls come between the transactions of the reader |
| Trusting | 2 programs, 2 slots, ttl 2, 3 instants, acquire, release and transfer may be abandoned | ClientsTypeOK, BelieverHolds: two slots let an abandoned request be served after a later one |
| Tagging | 2 resources, 2 tags, 2 clients | TypeOK, TagsMirrorIndex, TagsChangeOnRequest |

Each state is explored to the end of its instance. Holders, clients and tags are
symmetric where the code only compares their names; resources are not, because of
the key order. Clients ask for one time-to-live in Trusting: with two of them a
shorter renewal is what its program asked for.

Five runs expect a violation. Each states what a document or a comment says and
shows a behaviour of the code that differs:

| Run | The text | The code |
| --- | --- | --- |
| Overtaken | types.go:11: waiters are a FIFO queue for a held resource | an Acquire takes an expired lease past its pending waiter |
| Shortened | types.go:26: a lease is an exclusive, time-bounded hold | an abandoned renewal, served after a later one, moves the deadline back below what the client was told; the resource is granted again while the client believes in it. This is why Trusting leaves renewals out of `Abandonable` |
| Torn | observability.go:29: the views of diagnostics come "in one consistent request" | three transactions and two instants: one answer contradicts itself |
| Revival | BENZHI_README.md:10: a dead lease is not renewed | a renewal that waited for the lock past the deadline renews it |
| Unpromoted | types.go:11: waiters are promoted when a lease expires | only when some later call sweeps or enqueues |

Differences of the same kind that have no run, because they are plain from the
code or follow from one above:

- The oldest waiter is promoted when its resource is freed, says types.go:80, without
  a condition; it is passed over, and not looked at again until the next release or
  sweep, if its holder is at its cap (lease.go:139). WaiterLeftOnlyAtCap is what the
  code keeps of that promise: no other reason passes a waiter over.
- waiter.go:97 says the minimum seq is promoted; it is the least `CreatedAt`, an
  instant read before the write lock, with ties in key order ("w-10" before "w-2").
- A renewal that revives a lease can take its holder past its cap (types.go:47).
- Renew answers ErrExpired also to a caller the lease never belonged to
  (errors.go:22), as it checks the deadline first.
- Queueing and cancelling a waiter write no audit entry, though the audit is a
  "history of every state change" (types.go:14).
- An entry's time is written under `json:"-"` and read back as zero
  (audit.go:19).
- handleQuota and the tag handlers answer with what a second transaction reads,
  whose error they ignore: the answer may be somebody else's write.

**Fairness.** `Work` is weakly fair: the goroutine that holds the write lock is
scheduled, and nothing in its loop waits. `Serve(p) \/ ServeUnchanged(p)` is strongly
fair: the lock is taken and given back again and again, and Go's `sync.Mutex`, in
starvation mode, hands it to the goroutine that waited longest. A reader (`Diagnose`)
is weakly fair: it waits for no lock, so it need only be scheduled. Nothing else is
fair: no client need call, the clock need not advance, the process need not die or
be started again.

## 4. The proofs

For every value of the constants, under the assumptions named in the modules:
resources are a finite set of naturals, instants and caps are naturals,
time-to-lives are positive, and the null values (`NoLease`, `NoTx`, `Idle`,
`AllResources`) are not records, clients or resources. `BelieversHold` and `HoldsAreExclusive` have one more hypothesis,
`Steady`, explained below.

- **LeaseStoreProofs**: `TypeCorrect`, `TokensInOrder`, `AuditReplays`,
  `StaleHolderRefused`, `FencingIncreases`. The invariants are not inductive as they
  stand. A bulk operation commits a copy, so whatever is claimed of `db` must be
  claimed of the copy, at every iteration; and an old token is refused only because
  the lease on a resource carries the token of the last grant in the log. `Inv` is
  therefore `TypeInv` (with what each loop has done so far, `LoopInv`), `LogInv` of `db`
  (the grants are the tokens 1 .. next - 1 in order, and the log replays to the
  leases), and the same of the open copy, which is also no older than `db`. Each
  helper has a lemma that it preserves the invariant of a database
  (`GrantEffect`, `EndEffect`, `KeepEffect`), each handler one that cites them.
  Of the log, `LogInv` also has that the tokens of a resource never fall from one entry
  that shows them in use to the next (`IssuedInOrder`), and `Newer` that a copy only adds to the log of `db`
  (`LogGrows`); AuditProofs rests on these two.
  - `StoreIsFencedLock`, the refinement. A transaction is one `TurnOver` only if no
    token it issued is lost again before it commits: a sweep that promoted a waiter
    must not reap that lease in a later iteration. `LockInv` adds that (`LoopTurns`:
    what a loop has still to visit, it has not granted), and that every lease carries
    a token below the counter (`Issued`).
- **AuditProofs**: `HealthIsTrue` and `PagesAreStable`, for logs of any length. The lemmas
  are about ranks: the k-th of a finite set of places exists, is the only one, and
  stays the k-th when later places are added (`NthRank`, `NthOrder`, `NthStays`). So a
  list that `InOrder` makes keeps what it had when the log grows (`FoundAgain`), and two
  pages that meet at an offset are one stretch of the longer list (`PagesMeet`), which is
  `PagesNeverShift`. The health check sees tokens in order by `IssuedInOrder`, and the last
  of them is the lease's because the log replays to the leases.
- **WaiterProofs**: `WaitersTellTheTruth` and `WaitersLeaveOnce`, for queues of any
  length. `QueueInv` carries both properties through the copies of the loops. That
  two waiters never share a grant follows from the order of the tokens: a waiter's
  token is in the log, hence below the counter that the next promotion gives out.
- **BatchProofs**: `BatchesAcquireAll`, `BatchesReleaseAll`, `SweepsAreComplete`,
  `GrantsRespectQuotas`, `WaitersLeftAtCap`, `LoopsActAsChecked`. All but the last are
  claims about the commit, so what is inductive says how far the open transaction
  has come.
  - `BatchInv` adds to `LockInv` and `QueueInv` what the loop has done with the resources
    up to `done` (`SoFar`: acquired under consecutive tokens, released or regranted,
    reaped or given to a waiter that was pending before) and that the rest is
    `Untouched`.
  - `QuotaInv` adds `QuotaSoFar`: every lease that the copy has and `db` has not keeps
    its holder within its cap at the instant of the transaction. A promotion counts
    the leases of its holder first, so the argument is about cardinalities: the
    active leases grow by one element, and an iteration that ends a lease never
    makes them more. A `BulkAcquire` checks once, for the whole list, so its invariant
    is that there is room for what the loop has still to do. The cap cannot
    change meanwhile, as the transaction is the only writer.
  - `CheckInv` adds `ChecksSoFar` to `QuotaInv`: what a loop has yet to visit passes the
    check it began with, and what a sweep has reaped stays free until it promotes there.
    By it `LoopsActAsChecked`: check-then-act is safe in every loop, since an iteration
    touches its own resource only and the room for the rest of a batch is in `QuotaInv`.
  - `LeftInv` adds `LeftSoFar` to `CheckInv`: where the loop has done with a resource and
    left it free, the holder of its oldest waiter is at its cap in the leases as they
    were in that resource's turn (`InTurn`: what comes later in the list is as the loop
    began with). A later iteration writes only later resources, so it changes neither
    that table nor the queue. In the turn itself, what enforceQuota counts in the copy is
    what is alive in that table: the resources to come are untouched in a batch, and in
    a sweep they are dead on both sides, by `ChecksSoFar`.
- **LeaseServiceProofs**: `ServiceImplementsStore`, that each step of the service is
  a step of the store or leaves it alone; it needs that the instants in flight are
  instants (`StampsOK`). By it `ServiceRefusesStaleHolder`, `ServiceIsFencedLock` and
  `ServiceKeepsPromises` (the theorems of BatchProofs), across restarts.
  `ServiceTypeCorrect` adds that no instant in use, that of the open transaction
  included (`TxNow`), is ahead of the clock.
  - `NoTenantEvicted`: a transaction spares every lease that is active at its own
    instant, iteration by iteration (`Spares`, `LoopSpares`); the instant is never ahead
    of the clock, so a lease alive by the clock is among them. A batch of releases
    needs `LoopTurns` again: what it ends is what its caller held when it began, not
    what it has just promoted somebody to.
  - `SweepBeforeService`: `SweepInv` adds to `BatchInv` that the only transaction between
    boot and service is the sweep of `bootAt`, and that it has left nothing dead when
    it is over (`BootInv`).
- **HandlersProofs**: `HandlersImplementService`, `HandlersTypeCorrect`,
  `ReportsAreForGood`, `PoliciesAreHonoured`, `ViewsTellTheSame`. `Handled` adds to the invariants below it
  that a report `Stands`: each count a reader was told is at most what the store
  counts now, and each token it was told is issued and no newer than the one on its
  resource. Counts of granted and cancelled waiters only grow because
  a waiter never comes back (`WaiterLifecycle`), tokens because of `FencingMonotone`; both
  hold of a commit and of the death that may follow it. `Shapes`, for the type invariant,
  says that a report has what its stage has read, and that the instant it is still to
  use is not ahead of the clock. `Choices` says that the
  time a policy gave is still that policy's: the table is create-only. That the four
  views agree rests on one bijection, from the pending waiters to the marks that the
  holders' counts stand for: each to its holder and its rank in that holder's queue
  (`QueuesAddUp`, with the ranks of AuditProofs).
- **ClientsProofs**: `ClientsDriveService` (programs only make the service take its own
  steps), `ClientsTypeCorrect`, `BelieversHold`, `HoldsAreExclusive`. A *claim* is a lease a
  program believes in or is about to be told. `ClaimsInv` says that a claim that is
  alive and not given up is in the store, under its token and at least as long
  (`ClaimsBacked`). A program believes in no lease it has given up
  (`BelievesKept`). This is inductive with six further facts: a claimed token stays with
  its resource (`ClaimTokens`, `ClaimsApart`); no deadline is further ahead of the clock
  than one time-to-live (`AllSoon`); a program waits for what it asked to renew and for
  every answer on its way (`Waiting`); a renewal on its way, whose instant may be old,
  ends no earlier than what its program was told (`Renewing`); and a release or
  transfer on its way carries a token that its program has given up (`GivingUp`).
  Everybody else works with instants not ahead of the clock and is turned away by
  the lease. `ClaimsInv` was checked by TLC before it was proved, on the instance of
  Trusting and on one with two resources.

  `Steady` is: renewals are not in `Abandonable`, and all ask for the same time-to-live.
  It is what Trusting assumes, and it is no more than is needed: a program that
  abandons a renewal can be overtaken by it, which run Shortened shows, and one that
  asks for a shorter time gets a shorter lease.
- **TagsProofs**: `TagsTypeCorrect`, `BucketsMirror`, `NoTagUpdateLost`. The invariant
  adds that at most one transaction is open and that its copy is the committed
  buckets with the edits made so far (`Copy`).

Every safety invariant and every action property of a passing run is a theorem.
Only model-checked are RequestsFinish and ReadersFinish: liveness under fairness,
which the prover does not reach. The five runs that expect a violation are
counterexamples, with nothing to prove. What the proofs take from the model and not
from the code is what section 2 calls an abstraction.

## 5. Not modelled, and the plan

Not modelled: encoding and decoding of HTTP and JSON (pure I/O), flags, logging,
`smoke.go` and the tests (drivers of the same operations), the inside of bbolt, the
validation of names and ranges (what it refuses changes nothing), the second read
of the quota and tag handlers (nothing says whose write they must answer), and
clients that batch, sweep or cancel while others retry (LeaseService has the
calls, without their answers).

What could be added, in this order:

1. `BulkRelease` against the same releases one by one: what a batch may promote that
   they may not, and the reverse. `LoopsActAsChecked` says that each iteration may be
   taken as a single call; it does not compare the two outcomes.
2. The second reads of the quota and tag handlers, once a document says whose write
   they must answer.
3. Policies and batches in `Clients`, whose programs so far acquire, wait, renew,
   release, transfer and inspect.
