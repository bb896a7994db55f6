----------------------------- MODULE WaiterProofs -----------------------------
(***************************************************************************)
(* Waiters: the record of a waiter agrees with the audit log               *)
(* (WaitersMatchGrants), and each waiter leaves the queue once             *)
(* (WaiterLifecycle), for every set of resources, holders and instants and *)
(* for queues of any length.                                               *)
(*                                                                         *)
(* That no two waiters share a grant rests on the order of the tokens: a   *)
(* promotion gives its waiter the counter, and every token that a waiter   *)
(* has is in the log, so it is below the counter.                          *)
(***************************************************************************)
EXTENDS LeaseStoreProofs

\* A waiter of d0 is in d as it was, or was pending in d0 and left the queue.
Lives(d0, d) ==
    \A i \in DOMAIN d0.waiters :
        /\ i \in DOMAIN d.waiters
        /\ d.waiters[i] # d0.waiters[i] =>
              /\ d0.waiters[i].status = "pending"
              /\ d.waiters[i] = [d0.waiters[i] EXCEPT !.status = d.waiters[i].status,
                                                      !.token = d.waiters[i].token]

Served(d0, d) == Good(d0, d) /\ MatchGrants(d) /\ Lives(d0, d)

\* The grant that a granted waiter w points to.
Backed(d, w) ==
    \E i \in Grants(d) :
        /\ d.audit[i].action \in {"acquire", "waiter_grant"}
        /\ d.audit[i].resource = w.resource
        /\ d.audit[i].holder = w.holder
        /\ d.audit[i].token = w.token

-----------------------------------------------------------------------------
(* The queue *)

LEMMA LivesRefl == ASSUME NEW d PROVE Lives(d, d)
BY DEF Lives

LEMMA LivesSame ==
    ASSUME NEW d0, NEW d, NEW e, Lives(d0, d), e.waiters = d.waiters
    PROVE  Lives(d0, e)
BY DEF Lives

LEMMA LivesAdd ==
    ASSUME NEW d0 \in DB, NEW d \in DB, NEW e, Lives(d0, d), NEW w,
           e.waiters = Append(d.waiters, w)
    PROVE  Lives(d0, e)
<1>1. \A i \in DOMAIN d.waiters : i \in DOMAIN e.waiters /\ e.waiters[i] = d.waiters[i]
  BY DEF DB
<1> QED BY <1>1 DEF Lives

LEMMA LivesLeave ==
    ASSUME NEW d0 \in DB, NEW d \in DB, NEW e, Lives(d0, d),
           NEW i \in DOMAIN d.waiters, d.waiters[i].status = "pending", NEW status, NEW t,
           e.waiters = SetWaiterStatus(d, i, status, t).waiters
    PROVE  Lives(d0, e)
<1>0. e.waiters = [d.waiters EXCEPT ![i] = [d.waiters[i] EXCEPT !.status = status, !.token = t]]
  BY DEF SetWaiterStatus, DB
<1>1. DOMAIN e.waiters = DOMAIN d.waiters /\ \A j \in DOMAIN d.waiters \ {i} : e.waiters[j] = d.waiters[j]
  BY <1>0
<1>2. d.waiters[i] \in Waiter
  BY DEF DB
<1>3. e.waiters[i] = [d.waiters[i] EXCEPT !.status = status, !.token = t]
  BY <1>0
<1>4. ASSUME i \in DOMAIN d0.waiters
      PROVE  /\ d0.waiters[i].status = "pending"
             /\ e.waiters[i] = [d0.waiters[i] EXCEPT !.status = e.waiters[i].status,
                                                     !.token = e.waiters[i].token]
  <2>1. d0.waiters[i] \in Waiter
    BY <1>4 DEF DB
  <2>2. e.waiters[i].status = status /\ e.waiters[i].token = t
    BY <1>2, <1>3 DEF Waiter
  <2>3. CASE d.waiters[i] = d0.waiters[i]
    BY <1>3, <2>2, <2>3
  <2>4. CASE d.waiters[i] # d0.waiters[i]
    <3>1. /\ d0.waiters[i].status = "pending"
          /\ d.waiters[i] = [d0.waiters[i] EXCEPT !.status = d.waiters[i].status,
                                                  !.token = d.waiters[i].token]
      BY <1>4, <2>4 DEF Lives
    <3>2. /\ d.waiters[i].resource = d0.waiters[i].resource
          /\ d.waiters[i].holder = d0.waiters[i].holder
          /\ d.waiters[i].ttl = d0.waiters[i].ttl
          /\ d.waiters[i].created = d0.waiters[i].created
      BY <2>1, <3>1 DEF Waiter
    <3>3. [d.waiters[i] EXCEPT !.status = status, !.token = t]
            = [d0.waiters[i] EXCEPT !.status = status, !.token = t]
      <4> DEFINE v == d.waiters[i]
                 w == d0.waiters[i]
      <4>1. /\ v \in Waiter /\ w \in Waiter
            /\ v.resource = w.resource /\ v.holder = w.holder
            /\ v.ttl = w.ttl /\ v.created = w.created
        BY <1>2, <2>1, <3>2
      <4> HIDE DEF v, w
      <4>2. [v EXCEPT !.status = status, !.token = t] = [w EXCEPT !.status = status, !.token = t]
        BY <4>1 DEF Waiter
      <4> QED BY <4>2 DEF v, w
    <3> QED BY <1>3, <2>2, <3>1, <3>3
  <2> QED BY <2>3, <2>4
<1>5. ASSUME NEW j \in DOMAIN d0.waiters
      PROVE  /\ j \in DOMAIN e.waiters
             /\ e.waiters[j] # d0.waiters[j] =>
                   /\ d0.waiters[j].status = "pending"
                   /\ e.waiters[j] = [d0.waiters[j] EXCEPT !.status = e.waiters[j].status,
                                                           !.token = e.waiters[j].token]
  <2>1. j \in DOMAIN e.waiters
    BY <1>1, <1>5 DEF Lives
  <2>2. CASE j = i
    BY <1>4, <1>5, <2>1, <2>2
  <2>3. CASE j # i
    <3>1. e.waiters[j] = d.waiters[j]
      BY <1>1, <2>1, <2>3
    <3> QED BY <1>5, <2>1, <3>1 DEF Lives
  <2> QED BY <2>2, <2>3
<1> QED BY <1>5 DEF Lives

-----------------------------------------------------------------------------
(* Waiters and grants *)

\* An entry more leaves the earlier ones, and their grants, where they were.
LEMMA BackedLater ==
    ASSUME NEW d \in DB, NEW e \in DB, NEW x, e.audit = Append(d.audit, x), NEW w, Backed(d, w)
    PROVE  Backed(e, w)
<1>1. \A i \in DOMAIN d.audit : i \in DOMAIN e.audit /\ e.audit[i] = d.audit[i]
  BY DEF DB
<1> QED BY <1>1 DEF Backed, Grants

\* A granted waiter's token is below the counter; another waiter has none.
LEMMA WaiterTokens ==
    ASSUME NEW d \in DB, LogInv(d), MatchGrants(d), NEW w \in DOMAIN d.waiters
    PROVE  d.waiters[w].token # d.next
<1>1. d.next \in Nat \ {0}
  BY DEF DB, Token
<1>2. CASE d.waiters[w].status = "granted"
  <2>1. PICK i \in Grants(d) : d.audit[i].token = d.waiters[w].token
    BY <1>2 DEF MatchGrants
  <2>2. d.audit[i].token \in 1 .. d.next - 1
    BY GrantTokens DEF LogInv
  <2> QED BY <1>1, <2>1, <2>2
<1>3. CASE d.waiters[w].status # "granted"
  BY <1>1, <1>3 DEF MatchGrants
<1> QED BY <1>2, <1>3

\* An entry that is no promotion, and no waiter touched.
LEMMA MatchLogged ==
    ASSUME NEW d \in DB, NEW e \in DB, MatchGrants(d), e.waiters = d.waiters,
           NEW x, e.audit = Append(d.audit, x), x.action # "waiter_grant"
    PROVE  MatchGrants(e)
<1>1. \A w : Backed(d, w) => Backed(e, w)
  BY BackedLater
<1>2. \A w \in DOMAIN d.waiters : d.waiters[w].status = "granted" => Backed(d, d.waiters[w])
  BY DEF MatchGrants, Backed
<1>3. \A i \in DOMAIN e.audit :
          e.audit[i].action = "waiter_grant" =>
              i \in DOMAIN d.audit /\ e.audit[i] = d.audit[i]
  <2>1. \A i \in DOMAIN e.audit :
            (i \in DOMAIN d.audit /\ e.audit[i] = d.audit[i]) \/ e.audit[i] = x
    BY DEF DB
  <2> QED BY <2>1
<1>4. \A w \in DOMAIN e.waiters : e.waiters[w].status = "granted" => Backed(e, e.waiters[w])
  BY <1>1, <1>2
<1>5. ASSUME NEW w \in DOMAIN e.waiters
      PROVE  IF e.waiters[w].status = "granted"
             THEN Backed(e, e.waiters[w]) /\ \A v \in DOMAIN e.waiters \ {w} :
                                                e.waiters[v].token # e.waiters[w].token
             ELSE e.waiters[w].token = 0
  BY <1>4 DEF MatchGrants
<1>6. ASSUME NEW i \in DOMAIN e.audit, e.audit[i].action = "waiter_grant"
      PROVE  \E w \in DOMAIN e.waiters :
                e.waiters[w].status = "granted" /\ e.waiters[w].token = e.audit[i].token
  BY <1>3, <1>6 DEF MatchGrants
<1> QED BY <1>5, <1>6 DEF MatchGrants, Backed

\* A promotion: waiter i gets the counter, and the log has an entry of it.
LEMMA MatchPromoted ==
    ASSUME NEW d \in DB, NEW e \in DB, LogInv(d), MatchGrants(d), NEW r \in Resource,
           NEW i \in Pending(d, r),
           e.audit = Append(d.audit, [action |-> "waiter_grant", resource |-> r,
                                      holder |-> d.waiters[i].holder, token |-> d.next]),
           e.waiters = [d.waiters EXCEPT ![i] = [d.waiters[i] EXCEPT !.status = "granted",
                                                                     !.token = d.next]]
    PROVE  MatchGrants(e)
<1> DEFINE n == Len(d.audit) + 1
<1>1. /\ i \in DOMAIN d.waiters /\ d.waiters[i] \in Waiter /\ d.waiters[i].resource = r
      /\ d.waiters[i].status = "pending"
  BY DEF Pending, DB
<1>2. /\ DOMAIN e.waiters = DOMAIN d.waiters
      /\ e.waiters[i].status = "granted" /\ e.waiters[i].token = d.next
      /\ e.waiters[i].resource = r /\ e.waiters[i].holder = d.waiters[i].holder
      /\ \A w \in DOMAIN d.waiters \ {i} : e.waiters[w] = d.waiters[w]
  BY <1>1 DEF Waiter
<1>3. /\ n \in DOMAIN e.audit
      /\ e.audit[n].action = "waiter_grant" /\ e.audit[n].resource = r
      /\ e.audit[n].holder = d.waiters[i].holder /\ e.audit[n].token = d.next
      /\ \A j \in DOMAIN e.audit :
            j # n => j \in DOMAIN d.audit /\ e.audit[j] = d.audit[j]
  BY DEF DB
<1>4. \A w \in DOMAIN d.waiters : d.waiters[w].token # d.next
  BY WaiterTokens
<1> HIDE DEF n
<1>5. Backed(e, e.waiters[i])
  BY <1>2, <1>3 DEF Backed, Grants, GrantAction
<1>6. ASSUME NEW w \in DOMAIN d.waiters \ {i}, e.waiters[w].status = "granted"
      PROVE  Backed(e, e.waiters[w]) /\ \A v \in DOMAIN e.waiters \ {w} :
                                           e.waiters[v].token # e.waiters[w].token
  <2>1. d.waiters[w].status = "granted" /\ e.waiters[w] = d.waiters[w]
    BY <1>2, <1>6
  <2>2. Backed(d, d.waiters[w]) /\ \A v \in DOMAIN d.waiters \ {w} :
                                      d.waiters[v].token # d.waiters[w].token
    BY <2>1 DEF MatchGrants, Backed
  <2>3. Backed(e, e.waiters[w])
    BY <2>1, <2>2, BackedLater
  <2> QED BY <1>2, <1>4, <2>1, <2>2, <2>3
<1>7. ASSUME NEW w \in DOMAIN e.waiters
      PROVE  IF e.waiters[w].status = "granted"
             THEN Backed(e, e.waiters[w]) /\ \A v \in DOMAIN e.waiters \ {w} :
                                                e.waiters[v].token # e.waiters[w].token
             ELSE e.waiters[w].token = 0
  <2>1. CASE w = i
    BY <1>2, <1>4, <1>5, <2>1
  <2>2. CASE w # i /\ e.waiters[w].status = "granted"
    BY <1>2, <1>6, <2>2
  <2>3. CASE w # i /\ e.waiters[w].status # "granted"
    BY <1>2, <2>3 DEF MatchGrants
  <2> QED BY <2>1, <2>2, <2>3
<1>8. ASSUME NEW j \in DOMAIN e.audit, e.audit[j].action = "waiter_grant"
      PROVE  \E w \in DOMAIN e.waiters :
                e.waiters[w].status = "granted" /\ e.waiters[w].token = e.audit[j].token
  <2>1. CASE j = n
    BY <1>1, <1>2, <1>3, <2>1
  <2>2. CASE j # n
    <3>1. PICK w \in DOMAIN d.waiters :
              d.waiters[w].status = "granted" /\ d.waiters[w].token = d.audit[j].token
      BY <1>3, <1>8, <2>2 DEF MatchGrants
    <3>2. w # i
      BY <1>1, <3>1
    <3> QED BY <1>2, <1>3, <2>2, <3>1, <3>2
  <2> QED BY <2>1, <2>2
<1> QED BY <1>7, <1>8 DEF MatchGrants, Backed

\* A waiter leaves the queue without a grant.
LEMMA MatchCancelled ==
    ASSUME NEW d \in DB, NEW e \in DB, MatchGrants(d),
           NEW i \in DOMAIN d.waiters, d.waiters[i].status = "pending",
           e.audit = d.audit,
           e.waiters = [d.waiters EXCEPT ![i] = [d.waiters[i] EXCEPT
                                                     !.status = "cancelled",
                                                     !.token = d.waiters[i].token]]
    PROVE  MatchGrants(e)
<1>1. d.waiters[i] \in Waiter /\ d.waiters[i].token = 0
  BY DEF DB, MatchGrants
<1>2. /\ DOMAIN e.waiters = DOMAIN d.waiters
      /\ e.waiters[i].status = "cancelled" /\ e.waiters[i].token = 0
      /\ \A w \in DOMAIN d.waiters \ {i} : e.waiters[w] = d.waiters[w]
  BY <1>1 DEF Waiter
<1>3. \A w \in DOMAIN d.waiters : e.waiters[w].token = d.waiters[w].token
  BY <1>1, <1>2
<1>4. \A w \in DOMAIN d.waiters :
          /\ e.waiters[w].status = "granted" => w # i
          /\ d.waiters[w].status = "granted" => w # i
  BY <1>2
<1>5. Grants(e) = Grants(d)
  BY DEF Grants
<1>6. \A w \in DOMAIN d.waiters :
          e.waiters[w].status = "granted" =>
              Backed(e, e.waiters[w]) /\ \A v \in DOMAIN e.waiters \ {w} :
                                            e.waiters[v].token # e.waiters[w].token
  BY <1>2, <1>3, <1>4, <1>5 DEF MatchGrants, Backed
<1>7. \A w \in DOMAIN e.waiters : e.waiters[w].status # "granted" => e.waiters[w].token = 0
  BY <1>2 DEF MatchGrants
<1>8. \A j \in DOMAIN e.audit :
          e.audit[j].action = "waiter_grant" =>
              \E w \in DOMAIN e.waiters :
                 e.waiters[w].status = "granted" /\ e.waiters[w].token = e.audit[j].token
  BY <1>2, <1>4 DEF MatchGrants
<1> QED BY <1>6, <1>7, <1>8 DEF MatchGrants, Backed

\* A waiter joins the queue, or is recorded with the grant it got at once.
LEMMA MatchAdded ==
    ASSUME NEW d \in DB, NEW e \in DB, MatchGrants(d), NEW w \in Waiter, e.audit = d.audit,
           e.waiters = Append(d.waiters, w),
           \/ w.status = "pending" /\ w.token = 0
           \/ /\ w.status = "granted" /\ w.token # 0 /\ Backed(d, w)
              /\ \A v \in DOMAIN d.waiters : d.waiters[v].token # w.token
    PROVE  MatchGrants(e)
<1> DEFINE n == Len(d.waiters) + 1
<1>1. /\ DOMAIN e.waiters = DOMAIN d.waiters \cup {n} /\ n \notin DOMAIN d.waiters
      /\ e.waiters[n] = w
      /\ \A v \in DOMAIN d.waiters : e.waiters[v] = d.waiters[v]
  BY DEF DB
<1> HIDE DEF n
<1>2. \A v : Backed(e, v) <=> Backed(d, v)
  BY DEF Backed, Grants
<1>3. ASSUME NEW v \in DOMAIN d.waiters, d.waiters[v].status = "granted"
      PROVE  d.waiters[v].token # w.token
  <2>1. CASE w.status = "granted"
    BY <2>1
  <2>2. CASE w.token = 0
    <3>1. PICK i \in Grants(d) : d.audit[i].token = d.waiters[v].token
      BY <1>3 DEF MatchGrants
    <3>2. d.audit[i] \in AuditEntry
      BY EntryType DEF Grants
    <3> QED BY <2>2, <3>1, <3>2 DEF AuditEntry, Token
  <2> QED BY <2>1, <2>2
<1>4. ASSUME NEW v \in DOMAIN d.waiters
      PROVE  IF e.waiters[v].status = "granted"
             THEN Backed(e, e.waiters[v]) /\ \A u \in DOMAIN e.waiters \ {v} :
                                                e.waiters[u].token # e.waiters[v].token
             ELSE e.waiters[v].token = 0
  <2>1. CASE d.waiters[v].status = "granted"
    <3>1. Backed(d, d.waiters[v]) /\ \A u \in DOMAIN d.waiters \ {v} :
                                        d.waiters[u].token # d.waiters[v].token
      BY <2>1 DEF MatchGrants, Backed
    <3> QED BY <1>1, <1>2, <1>3, <2>1, <3>1
  <2>2. CASE d.waiters[v].status # "granted"
    BY <1>1, <2>2 DEF MatchGrants
  <2> QED BY <2>1, <2>2
<1>5. IF e.waiters[n].status = "granted"
      THEN Backed(e, e.waiters[n]) /\ \A u \in DOMAIN e.waiters \ {n} :
                                         e.waiters[u].token # e.waiters[n].token
      ELSE e.waiters[n].token = 0
  BY <1>1, <1>2
<1>6. \A j \in DOMAIN e.audit :
          e.audit[j].action = "waiter_grant" =>
              \E v \in DOMAIN e.waiters :
                 e.waiters[v].status = "granted" /\ e.waiters[v].token = e.audit[j].token
  BY <1>1 DEF MatchGrants
<1> QED BY <1>1, <1>4, <1>5, <1>6 DEF MatchGrants, Backed

-----------------------------------------------------------------------------
(* The functions a transaction is made of *)

LEMMA LoggedServed ==
    ASSUME NEW d0 \in DB, NEW d \in DB, NEW e, Served(d0, d), Good(d0, e),
           e.waiters = d.waiters, NEW x, e.audit = Append(d.audit, x),
           x.action # "waiter_grant"
    PROVE  Served(d0, e)
BY LivesSame, MatchLogged DEF Served, Good

LEMMA GrantServed ==
    ASSUME NEW d0 \in DB, NEW d, Served(d0, d), NEW r \in Resource, NEW h \in Holder,
           NEW ttl \in TTL, NEW now \in Instant, NEW action \in {"acquire", "bulk_acquire"}
    PROVE  Served(d0, Grant(d, r, h, ttl, now, action))
<1> DEFINE e == Grant(d, r, h, ttl, now, action)
           x == [action |-> action, resource |-> r, holder |-> h, token |-> d.next]
<1>1. d \in DB /\ Good(d0, d)
  BY DEF Served, Good
<1>2. Good(d0, e)
  BY <1>1, GrantGood DEF GrantAction
<1>3. e.audit = Append(d.audit, x) /\ e.waiters = d.waiters
  BY <1>1 DEF Grant, AppendAudit, PutLease, AllocToken, DB
<1>4. x.action # "waiter_grant"
  OBVIOUS
<1> HIDE DEF e, x
<1>5. Served(d0, e)
  BY <1>1, <1>2, <1>3, <1>4, LoggedServed
<1> QED BY <1>5 DEF e

LEMMA EndServed ==
    ASSUME NEW d0 \in DB, NEW d, Served(d0, d), NEW r \in Resource,
           d.leases[r] # NoLease, NEW action \in EndAction
    PROVE  Served(d0, EndLease(d, r, action))
<1> DEFINE e == EndLease(d, r, action)
           x == [action |-> action, resource |-> r, holder |-> d.leases[r].holder,
                 token |-> d.leases[r].token]
<1>1. d \in DB /\ Good(d0, d)
  BY DEF Served, Good
<1>2. Good(d0, e)
  BY <1>1, EndLeaseGood
<1>3. e.audit = Append(d.audit, x) /\ e.waiters = d.waiters
  BY <1>1 DEF EndLease, AppendAudit, PutLease, DB
<1>4. x.action # "waiter_grant"
  BY DEF EndAction
<1> HIDE DEF e, x
<1>5. Served(d0, e)
  BY <1>1, <1>2, <1>3, <1>4, LoggedServed
<1> QED BY <1>5 DEF e

LEMMA KeepServed ==
    ASSUME NEW d0 \in DB, NEW d, Served(d0, d), NEW r \in Resource, NEW l \in Lease,
           d.leases[r] # NoLease, l.token = d.leases[r].token,
           NEW action \in {"renew", "transfer"}
    PROVE  Served(d0, AppendAudit(PutLease(d, r, l), action, r, l.holder, l.token))
<1> DEFINE e == AppendAudit(PutLease(d, r, l), action, r, l.holder, l.token)
           x == [action |-> action, resource |-> r, holder |-> l.holder, token |-> l.token]
<1>1. d \in DB /\ Good(d0, d)
  BY DEF Served, Good
<1>2. Good(d0, e)
  BY <1>1, KeepGood
<1>3. e.audit = Append(d.audit, x) /\ e.waiters = d.waiters
  BY <1>1 DEF AppendAudit, PutLease, DB
<1>4. x.action # "waiter_grant"
  OBVIOUS
<1> HIDE DEF e, x
<1>5. Served(d0, e)
  BY <1>1, <1>2, <1>3, <1>4, LoggedServed
<1> QED BY <1>5 DEF e

LEMMA PromoteServed ==
    ASSUME NEW d0 \in DB, NEW d, Served(d0, d), NEW r \in Resource, NEW now \in Instant
    PROVE  Served(d0, PromoteWaiterFor(d, r, now))
<1>a. d \in DB /\ Good(d0, d) /\ LogInv(d) /\ MatchGrants(d) /\ Lives(d0, d)
  BY DEF Served, Good
<1>1. CASE PromoteWaiterFor(d, r, now) = d
  BY <1>1
<1>2. ASSUME NEW i \in Pending(d, r), i \in DOMAIN d.waiters, d.waiters[i] \in Waiter,
             PromoteWaiterFor(d, r, now) =
               SetWaiterStatus(Grant(d, r, d.waiters[i].holder, d.waiters[i].ttl, now,
                                     "waiter_grant"),
                               i, "granted", d.next)
      PROVE  Served(d0, PromoteWaiterFor(d, r, now))
  <2> DEFINE e == PromoteWaiterFor(d, r, now)
  <2>1. e \in DB /\ Good(d0, e)
    BY <1>a, PromoteGood DEF Good
  <2>2. /\ e.audit = Append(d.audit, [action |-> "waiter_grant", resource |-> r,
                                      holder |-> d.waiters[i].holder, token |-> d.next])
        /\ e.waiters = [d.waiters EXCEPT ![i] = [d.waiters[i] EXCEPT !.status = "granted",
                                                                     !.token = d.next]]
    BY <1>a, <1>2 DEF SetWaiterStatus, Grant, AppendAudit, PutLease, AllocToken, DB
  <2>3. d.waiters[i].status = "pending"
    BY DEF Pending
  <2> HIDE DEF e
  <2>4. MatchGrants(e)
    BY <1>a, <2>1, <2>2, MatchPromoted
  <2>5. Lives(d0, e)
    <3>1. e.waiters = SetWaiterStatus(d, i, "granted", d.next).waiters
      BY <1>a, <2>2 DEF SetWaiterStatus, DB
    <3> QED BY <1>a, <1>2, <2>3, <3>1, LivesLeave
  <2> QED BY <2>1, <2>4, <2>5 DEF Served, e
<1> QED BY <1>a, <1>1, <1>2, PromoteCases

LEMMA AddPendingServed ==
    ASSUME NEW d0 \in DB, NEW d, Served(d0, d), NEW r \in Resource, NEW h \in Holder,
           NEW ttl \in TTL, NEW now \in Instant
    PROVE  Served(d0, AddWaiter(d, r, h, ttl, now, "pending", 0))
<1> DEFINE e == AddWaiter(d, r, h, ttl, now, "pending", 0)
           w == [resource |-> r, holder |-> h, ttl |-> ttl, created |-> now,
                 status |-> "pending", token |-> 0]
<1>1. d \in DB /\ Good(d0, d) /\ MatchGrants(d) /\ Lives(d0, d)
  BY DEF Served, Good
<1>2. e \in DB /\ Good(d0, e)
  BY <1>1, AddWaiterGood DEF Good
<1>3. e.audit = d.audit /\ e.waiters = Append(d.waiters, w)
  BY <1>1 DEF AddWaiter, DB
<1>4. w \in Waiter /\ w.status = "pending" /\ w.token = 0
  BY TimeAssumption DEF Waiter
<1> HIDE DEF e, w
<1>5. MatchGrants(e) /\ Lives(d0, e)
  BY <1>1, <1>2, <1>3, <1>4, MatchAdded, LivesAdd
<1> QED BY <1>2, <1>5 DEF Served, e

\* The resource is granted at once, and the waiter recorded as granted.
LEMMA AddGrantedServed ==
    ASSUME NEW d0 \in DB, NEW d, Served(d0, d), NEW r \in Resource, NEW h \in Holder,
           NEW ttl \in TTL, NEW now \in Instant
    PROVE  Served(d0, AddWaiter(Grant(d, r, h, ttl, now, "acquire"),
                                r, h, ttl, now, "granted", d.next))
<1> DEFINE g == Grant(d, r, h, ttl, now, "acquire")
           e == AddWaiter(g, r, h, ttl, now, "granted", d.next)
           w == [resource |-> r, holder |-> h, ttl |-> ttl, created |-> now,
                 status |-> "granted", token |-> d.next]
           n == Len(d.audit) + 1
<1>1. d \in DB /\ LogInv(d) /\ MatchGrants(d) /\ d.next \in Nat \ {0}
  BY DEF Served, Good, DB, Token
<1>2. g \in DB /\ Good(d0, g) /\ MatchGrants(g) /\ Lives(d0, g)
  BY GrantServed DEF Served, Good
<1>3. /\ g.waiters = d.waiters
      /\ g.audit = Append(d.audit, [action |-> "acquire", resource |-> r, holder |-> h,
                                    token |-> d.next])
  BY <1>1 DEF Grant, AppendAudit, PutLease, AllocToken, DB
<1> HIDE DEF g
<1>4. e \in DB /\ Good(d0, e)
  BY <1>1, <1>2, AddWaiterGood DEF Good
<1>5. e.audit = g.audit /\ e.waiters = Append(g.waiters, w)
  BY <1>2 DEF AddWaiter, DB
<1>6. /\ w \in Waiter /\ w.status = "granted" /\ w.token = d.next
      /\ w.resource = r /\ w.holder = h
  BY <1>1, TimeAssumption DEF Waiter
<1>7. /\ n \in DOMAIN g.audit /\ g.audit[n].action = "acquire" /\ g.audit[n].resource = r
      /\ g.audit[n].holder = h /\ g.audit[n].token = d.next
  BY <1>1, <1>3 DEF DB
<1> HIDE DEF e, w, n
<1>8. Backed(g, w)
  BY <1>6, <1>7 DEF Backed, Grants, GrantAction
<1>9. \A v \in DOMAIN g.waiters : g.waiters[v].token # w.token
  BY <1>1, <1>3, <1>6, WaiterTokens
<1>10. MatchGrants(e)
  BY <1>1, <1>2, <1>4, <1>5, <1>6, <1>8, <1>9, MatchAdded
<1>11. Lives(d0, e)
  BY <1>2, <1>5, LivesAdd
<1> QED BY <1>4, <1>10, <1>11 DEF Served, e, g

-----------------------------------------------------------------------------
(* The transactions *)

\* The committed waiters agree with the log, and so does an open copy, whose
\* loop may have promoted any of them.
QueueInv ==
    /\ Inv
    /\ MatchGrants(db)
    /\ tx # NoTx => MatchGrants(tx.work) /\ Lives(db, tx.work)

LEMMA QueueInvInit == Init => QueueInv
<1>1. Init => MatchGrants(db)
  BY DEF Init, EmptyDB, MatchGrants
<1> QED BY <1>1, InvInit DEF Init, QueueInv

LEMMA ServedHere == ASSUME QueueInv PROVE db \in DB /\ Served(db, db)
BY NewerRefl, LivesRefl DEF QueueInv, Inv, TypeInv, TypeOK, Served, Good

LEMMA UpdateServed ==
    ASSUME NEW d, Update(d), Served(db, d)
    PROVE  tx' = NoTx /\ Served(db, db')
BY DEF Update

LEMMA LeaseOpsServed ==
    ASSUME QueueInv, NEW r \in Resource, NEW h \in Holder, NEW now \in Instant,
           \/ \E ttl \in TTL : Acquire(r, h, now, ttl)
           \/ \E t \in 1..MaxToken, ttl \in TTL : Renew(r, h, t, now, ttl)
           \/ \E t \in 1..MaxToken : Release(r, h, t, now)
           \/ \E t \in 1..MaxToken, newHolder \in Holder : Transfer(r, h, t, newHolder, now)
           \/ \E ttl \in TTL : EnqueueWaiter(r, h, ttl, now)
    PROVE  tx' = NoTx /\ Served(db, db')
<1>a. db \in DB /\ Served(db, db) /\ db.leases[r] \in Lease \cup {NoLease}
  BY ServedHere DEF DB
<1>1. ASSUME NEW ttl \in TTL, Acquire(r, h, now, ttl) PROVE tx' = NoTx /\ Served(db, db')
  BY <1>a, <1>1, GrantServed, UpdateServed DEF Acquire
<1>2. ASSUME NEW t \in 1..MaxToken, NEW ttl \in TTL, Renew(r, h, t, now, ttl)
      PROVE  tx' = NoTx /\ Served(db, db')
  <2> DEFINE l == [db.leases[r] EXCEPT !.deadline = now + ttl]
  <2>1. /\ db.leases[r] \in Lease /\ db.leases[r] # NoLease
        /\ db.leases[r].holder = h /\ db.leases[r].token = t
    BY <1>2, <1>a DEF Renew, RenewError
  <2>2. l \in Lease /\ l.holder = h /\ l.token = t
    BY <2>1, TimeAssumption DEF Lease
  <2> HIDE DEF l
  <2>3. Served(db, AppendAudit(PutLease(db, r, l), "renew", r, l.holder, l.token))
    BY <1>a, <2>1, <2>2, KeepServed
  <2>4. Served(db, AppendAudit(PutLease(db, r, l), "renew", r, h, t))
    BY <2>2, <2>3
  <2> QED BY <1>2, <2>4, UpdateServed DEF Renew, l
<1>3. ASSUME NEW t \in 1..MaxToken, Release(r, h, t, now) PROVE tx' = NoTx /\ Served(db, db')
  <2>1. db.leases[r] # NoLease
    BY <1>3 DEF Release, ReleaseError
  <2>2. Served(db, EndLease(db, r, "release"))
    BY <1>a, <2>1, EndServed DEF EndAction
  <2>3. Served(db, PromoteWaiterFor(EndLease(db, r, "release"), r, now))
    BY <1>a, <2>2, PromoteServed
  <2> QED BY <1>3, <2>3, UpdateServed DEF Release
<1>4. ASSUME NEW t \in 1..MaxToken, NEW newHolder \in Holder, Transfer(r, h, t, newHolder, now)
      PROVE  tx' = NoTx /\ Served(db, db')
  <2> DEFINE l == [db.leases[r] EXCEPT !.holder = newHolder]
  <2>1. db.leases[r] \in Lease /\ db.leases[r] # NoLease /\ db.leases[r].token = t
    BY <1>4, <1>a DEF Transfer, ReleaseError
  <2>2. l \in Lease /\ l.holder = newHolder /\ l.token = t
    BY <2>1 DEF Lease
  <2> HIDE DEF l
  <2>3. Served(db, AppendAudit(PutLease(db, r, l), "transfer", r, l.holder, l.token))
    BY <1>a, <2>1, <2>2, KeepServed
  <2>4. Served(db, AppendAudit(PutLease(db, r, l), "transfer", r, newHolder, t))
    BY <2>2, <2>3
  <2> QED BY <1>4, <2>4, UpdateServed DEF Transfer, l
<1>5. ASSUME NEW ttl \in TTL, EnqueueWaiter(r, h, ttl, now)
      PROVE  tx' = NoTx /\ Served(db, db')
  <2>1. CASE EnqueuePending(r, h, ttl, now)
    <3>1. Served(db, Handover(db, r, now))
      BY <1>a, PromoteServed DEF Handover
    <3>2. Served(db, AddWaiter(Handover(db, r, now), r, h, ttl, now, "pending", 0))
      BY <1>a, <3>1, AddPendingServed
    <3> QED BY <2>1, <3>2, UpdateServed DEF EnqueuePending
  <2>2. CASE EnqueueImmediate(r, h, ttl, now)
    <3>1. Served(db, AddWaiter(Grant(db, r, h, ttl, now, "acquire"),
                               r, h, ttl, now, "granted", db.next))
      BY <1>a, AddGrantedServed
    <3> QED BY <2>2, <3>1, UpdateServed DEF EnqueueImmediate
  <2> QED BY <1>5, <2>1, <2>2 DEF EnqueueWaiter
<1> QED BY <1>1, <1>2, <1>3, <1>4, <1>5

LEMMA HolderOpsServed ==
    ASSUME QueueInv, NEW now \in Instant, HolderOps(now)
    PROVE  tx' = NoTx /\ Served(db, db')
<1>1. tx' = NoTx /\ Good(db, db')
  BY HolderOpsGood DEF QueueInv
<1>2. db \in DB /\ MatchGrants(db) /\ Lives(db, db)
  BY ServedHere DEF Served
<1>3. db'.waiters = db.waiters /\ db'.audit = db.audit
  BY <1>2 DEF HolderOps, PutHolder, SetQuota, DeleteHolder, Update, DB
<1>4. MatchGrants(db')
  BY <1>2, <1>3 DEF MatchGrants, Grants
<1>5. Lives(db, db')
  BY <1>2, <1>3, LivesSame
<1> QED BY <1>1, <1>4, <1>5 DEF Served

LEMMA CancelServed ==
    ASSUME QueueInv, NEW i \in DOMAIN db.waiters, CancelWaiter(i)
    PROVE  tx' = NoTx /\ Served(db, db')
<1> DEFINE e == SetWaiterStatus(db, i, "cancelled", db.waiters[i].token)
<1>1. db \in DB /\ MatchGrants(db) /\ Lives(db, db) /\ Good(db, db)
  BY ServedHere DEF Served
<1>2. db.waiters[i].status = "pending" /\ db.waiters[i].token \in Nat /\ Update(e)
  <2>1. db.waiters[i] \in Waiter
    BY <1>1 DEF DB
  <2>2. db.waiters[i].status = "pending" /\ Update(e)
    BY DEF CancelWaiter
  <2> QED BY <2>1, <2>2 DEF Waiter
<1>3. Good(db, e) /\ e \in DB
  BY <1>1, <1>2, SetWaiterStatusGood DEF Good
<1>4. /\ e.audit = db.audit
      /\ e.waiters = [db.waiters EXCEPT ![i] = [db.waiters[i] EXCEPT
                                                    !.status = "cancelled",
                                                    !.token = db.waiters[i].token]]
  BY <1>1 DEF SetWaiterStatus, DB
<1>5. e.waiters = SetWaiterStatus(db, i, "cancelled", db.waiters[i].token).waiters
  OBVIOUS
<1> HIDE DEF e
<1>6. MatchGrants(e)
  BY <1>1, <1>2, <1>3, <1>4, MatchCancelled
<1>7. Lives(db, e)
  BY <1>1, <1>2, <1>5, LivesLeave
<1>8. Served(db, e)
  BY <1>3, <1>6, <1>7 DEF Served
<1> QED BY <1>2, <1>8, UpdateServed

LEMMA BulkOpsServed ==
    ASSUME QueueInv, NEW now \in Instant, BulkOps(now) \/ ExpireAll(now)
    PROVE  db' = db /\ Served(db, tx'.work)
<1>1. ASSUME NEW h, NEW asked, NEW ttl, BulkAcquireBegin(h, asked, now, ttl)
      PROVE  db' = db /\ tx'.work = db
  BY <1>1 DEF BulkAcquireBegin, Begin
<1>2. ASSUME NEW h, NEW asked, NEW tokens, BulkReleaseBegin(h, asked, tokens, now)
      PROVE  db' = db /\ tx'.work = db
  BY <1>2 DEF BulkReleaseBegin, Begin
<1>3. ASSUME NEW asked, ExpireBegin(asked, now)
      PROVE  db' = db /\ tx'.work = db
  BY <1>3 DEF ExpireBegin, Begin
<1>4. db' = db /\ tx'.work = db
  BY <1>1, <1>2, <1>3 DEF BulkOps, ExpireAll
<1> QED BY <1>4, ServedHere

LEMMA TxStepServed ==
    ASSUME QueueInv, TxStep
    PROVE  \/ db' = db /\ Served(db, tx'.work)
           \/ tx' = NoTx /\ Served(db, db')
<1>a. tx # NoTx /\ tx \in Tx /\ Served(db, tx.work) /\ db \in DB
  BY DEF QueueInv, Served, Inv, TypeInv, TypeOK, TxStep, BulkAcquireStep, BulkReleaseStep,
         ExpireStep
<1>b. /\ tx.work \in DB /\ tx.now \in Instant
      /\ tx.asked \in Seq(Resource) /\ tx.done \in Nat
      /\ Len(tx.asked) \in Nat /\ DOMAIN tx.asked = 1..Len(tx.asked)
  BY <1>a DEF Tx
<1>c. ASSUME NEW todo, NEW d, Iterate(todo, d), Served(db, d)
      PROVE  db' = db /\ Served(db, tx'.work)
  <2>1. db' = db /\ tx' = [tx EXCEPT !.work = d, !.done = tx.done + 1]
    BY <1>c DEF Iterate
  <2>2. tx'.work = d
    BY <1>a, <2>1 DEF Tx
  <2> QED BY <1>c, <2>1, <2>2
<1>d. ASSUME NEW todo, Commit(todo) PROVE tx' = NoTx /\ Served(db, db')
  BY <1>a, <1>d DEF Commit
<1>1. CASE BulkAcquireStep
  <2> DEFINE r == tx.asked[tx.done + 1]
             d == Grant(tx.work, r, tx.holder, tx.ttl, tx.now, "bulk_acquire")
  <2>1. CASE Iterate(Len(tx.asked), d)
    <3>1. r \in Resource
      BY <1>b, <2>1 DEF Iterate
    <3>2. tx.holder \in Holder /\ tx.ttl \in TTL
      BY <1>1, <1>a DEF Tx, BulkAcquireStep
    <3>3. Served(db, d)
      BY <1>a, <1>b, <3>1, <3>2, GrantServed
    <3> HIDE DEF d
    <3> QED BY <1>c, <2>1, <3>3
  <2> QED BY <1>1, <1>d, <2>1 DEF BulkAcquireStep
<1>2. CASE BulkReleaseStep
  <2> DEFINE r == tx.asked[tx.done + 1]
             e == EndLease(tx.work, r, "bulk_release")
             d == PromoteWaiterFor(e, r, tx.now)
  <2>1. CASE Iterate(Len(tx.asked), d)
    <3>1. r \in Resource /\ tx.done + 1 \in DOMAIN tx.asked
      BY <1>b, <2>1 DEF Iterate
    <3>2. tx.work.leases[r] # NoLease
      BY <1>2, <1>a, <1>b, <3>1 DEF QueueInv, Inv, TypeInv, LoopInv, BulkReleaseStep
    <3>3. Served(db, e)
      BY <1>a, <1>b, <3>1, <3>2, EndServed DEF EndAction
    <3> HIDE DEF e
    <3>4. Served(db, d)
      BY <1>a, <1>b, <3>1, <3>3, PromoteServed
    <3> HIDE DEF d
    <3> QED BY <1>c, <2>1, <3>4 DEF d, e
  <2> QED BY <1>2, <1>d, <2>1 DEF BulkReleaseStep
<1>3. CASE ExpireStep
  <2> DEFINE n == Len(tx.asked)
  <2>1. CASE tx.done < n /\ Iterate(2 * n, EndLease(tx.work, tx.asked[tx.done + 1], "expire"))
    <3>1. tx.asked[tx.done + 1] \in Resource /\ tx.done + 1 \in DOMAIN tx.asked
      BY <1>b, <2>1
    <3>2. tx.work.leases[tx.asked[tx.done + 1]] # NoLease
      BY <1>3, <1>a, <1>b, <3>1 DEF QueueInv, Inv, TypeInv, LoopInv, ExpireStep
    <3>3. Served(db, EndLease(tx.work, tx.asked[tx.done + 1], "expire"))
      BY <1>a, <1>b, <3>1, <3>2, EndServed DEF EndAction
    <3> QED BY <1>c, <2>1, <3>3
  <2>2. CASE n <= tx.done
             /\ Iterate(2 * n, PromoteWaiterFor(tx.work, tx.asked[tx.done + 1 - n], tx.now))
    <3>1. tx.asked[tx.done + 1 - n] \in Resource
      BY <1>b, <2>2 DEF Iterate
    <3>2. Served(db, PromoteWaiterFor(tx.work, tx.asked[tx.done + 1 - n], tx.now))
      BY <1>a, <1>b, <3>1, PromoteServed
    <3> QED BY <1>c, <2>2, <3>2
  <2> QED BY <1>3, <1>d, <2>1, <2>2 DEF ExpireStep
<1> QED BY <1>1, <1>2, <1>3 DEF TxStep

LEMMA QueueInvStep ==
    ASSUME QueueInv, [Next]_vars
    PROVE  QueueInv' /\ Lives(db, db')
<1>1. Inv'
  BY InvStep DEF QueueInv
<1>2. MatchGrants(db) /\ Lives(db, db)
  BY LivesRefl DEF QueueInv
<1>3. CASE tx' = NoTx /\ Served(db, db')
  BY <1>1, <1>3 DEF QueueInv, Served
<1>4. CASE db' = db /\ Served(db, tx'.work)
  BY <1>1, <1>2, <1>4 DEF QueueInv, Served
<1>5. CASE db' = db /\ tx' \in {NoTx, tx}
  BY <1>1, <1>2, <1>5 DEF QueueInv
<1>6. ASSUME NEW now \in Instant, Call(now)
      PROVE  \/ tx' = NoTx /\ Served(db, db')
             \/ db' = db /\ Served(db, tx'.work)
  <2>1. CASE LeaseOps(now)
    BY <2>1, LeaseOpsServed DEF LeaseOps
  <2> QED BY <1>6, <2>1, HolderOpsServed, CancelServed, BulkOpsServed DEF Call
<1>7. CASE Crash \/ UNCHANGED vars
  BY <1>5, <1>7 DEF Crash, vars
<1> QED BY <1>3, <1>4, <1>6, <1>7, TxStepServed DEF Next

LEMMA QueueInvariant == Spec => []QueueInv
<1>1. QueueInv /\ [Next]_vars => QueueInv'
  BY QueueInvStep
<1> QED BY <1>1, QueueInvInit, PTL DEF Spec

-----------------------------------------------------------------------------
(* The theorems *)

\* What a client that polls its waiter is told is what the log says happened:
\* a grant to it, of a token no other waiter is told of, or none.
THEOREM WaitersTellTheTruth == Spec => []WaitersMatchGrants
<1>1. QueueInv => WaitersMatchGrants
  BY DEF QueueInv, WaitersMatchGrants, Databases
<1> QED BY <1>1, QueueInvariant, PTL

\* No commit makes a waiter another client's, puts one back in the queue, or
\* takes back a grant or a cancellation: not even a sweep, which may promote
\* many, nor a batch that releases and promotes in turn.
THEOREM WaitersLeaveOnce == Spec => WaiterLifecycle
<1> DEFINE Step ==
        \A i \in DOMAIN db.waiters :
            /\ i \in DOMAIN db'.waiters
            /\ db'.waiters[i] # db.waiters[i] =>
                  /\ db.waiters[i].status = "pending"
                  /\ db'.waiters[i] = [db.waiters[i] EXCEPT !.status = db'.waiters[i].status,
                                                            !.token = db'.waiters[i].token]
<1>1. QueueInv /\ [Next]_vars => Step
  BY QueueInvStep DEF Lives
<1> QED BY <1>1, QueueInvariant, PTL DEF Spec, WaiterLifecycle
=============================================================================
