---------------------------- MODULE ClientsProofs ----------------------------
(***************************************************************************)
(* What a careful client program may believe, for every set of programs,   *)
(* resources, requests and instants: the lease it was told is the lease in *)
(* the store until the deadline it was told.                               *)
(*                                                                         *)
(* A lease that somebody may rely on is changed by nobody else: a handler  *)
(* and a sweep work with instants that are not ahead of the clock, so the  *)
(* lease is active to them; a release or transfer on its way carries a     *)
(* token that its program has given up; and a renewal on its way, which is *)
(* its program's own and is waited for, can only make it last longer.      *)
(***************************************************************************)
EXTENDS Clients, LeaseServiceProofs

-----------------------------------------------------------------------------
(* What a transaction on r, called at now, does to the leases *)

Turned(d, e, r, now) ==
    /\ OnlyAt(d, e, r)
    /\ \/ e.leases[r] \in {d.leases[r], NoLease}
       \/ \E ttl \in TTL : e.leases[r].deadline = now + ttl

LEMMA GrantTurned ==
    ASSUME NEW d \in DB, NEW r \in Resource, NEW h, NEW ttl \in TTL, NEW now, NEW action
    PROVE  Turned(d, Grant(d, r, h, ttl, now, action), r, now)
<1> DEFINE e == Grant(d, r, h, ttl, now, action)
<1>1. e.leases[r] = NewLease(d, h, ttl, now) /\ OnlyAt(d, e, r)
  BY GrantFields
<1> HIDE DEF e
<1>2. Turned(d, e, r, now)
  BY <1>1 DEF Turned, NewLease
<1> QED BY <1>2 DEF e

LEMMA PromoteTurned ==
    ASSUME NEW d \in DB, NEW r \in Resource, NEW now \in Instant
    PROVE  Turned(d, PromoteWaiterFor(d, r, now), r, now)
<1> DEFINE e == PromoteWaiterFor(d, r, now)
<1>1. CASE e = d
  BY <1>1 DEF Turned, OnlyAt
<1>2. ASSUME NEW i, PromotedAt(d, e, r, now, i) PROVE Turned(d, e, r, now)
  BY <1>2 DEF PromotedAt, Turned, NewLease
<1> QED BY <1>1, <1>2, PromoteFields

LEMMA TurnedTwice ==
    ASSUME NEW d, NEW e, NEW f, NEW r, NEW now, Turned(d, e, r, now), Turned(e, f, r, now)
    PROVE  Turned(d, f, r, now)
BY DEF Turned, OnlyAt

LEMMA AcquireTurns ==
    ASSUME db \in DB, NEW r \in Resource, NEW h \in Holder, NEW now \in Instant,
           NEW ttl \in TTL, Acquire(r, h, now, ttl)
    PROVE  /\ tx' = tx /\ Turned(db, db', r, now) /\ ~Active(db.leases[r], now)
           /\ db'.leases[r] = NewLease(db, h, ttl, now)
<1>1. /\ tx' = tx /\ ~Active(db.leases[r], now)
      /\ db' = Grant(db, r, h, ttl, now, "acquire")
  BY DEF Acquire, Update
<1>2. Grant(db, r, h, ttl, now, "acquire").leases[r] = NewLease(db, h, ttl, now)
  BY GrantFields
<1> QED BY <1>1, <1>2, GrantTurned

LEMMA ReleaseTurns ==
    ASSUME db \in DB, NEW r \in Resource, NEW h, NEW t, NEW now \in Instant,
           Release(r, h, t, now)
    PROVE  /\ tx' = tx /\ Turned(db, db', r, now) /\ db.next <= MaxToken + 1
           /\ db.leases[r] # NoLease /\ db.leases[r].holder = h /\ db.leases[r].token = t
<1> DEFINE e == EndLease(db, r, "release")
<1>1. /\ tx' = tx /\ db' = PromoteWaiterFor(e, r, now) /\ Bounded(db')
      /\ db.leases[r] # NoLease /\ db.leases[r].holder = h /\ db.leases[r].token = t
  BY DEF Release, ReleaseError, Update
<1>2. e \in DB /\ e.leases[r] = NoLease /\ OnlyAt(db, e, r) /\ e.next = db.next
  BY <1>1, EndLeaseType, EndFields DEF EndAction
<1> HIDE DEF e
<1>3. Turned(db, e, r, now) /\ Turned(e, db', r, now)
  BY <1>1, <1>2, PromoteTurned DEF Turned
<1>4. db'.next = db.next \/ db'.next = db.next + 1
  <2> DEFINE f == PromoteWaiterFor(e, r, now)
  <2>1. f = e \/ \E i : PromotedAt(e, f, r, now, i)
    BY <1>2, PromoteFields
  <2> HIDE DEF f
  <2>2. f.next = e.next \/ f.next = e.next + 1
    BY <2>1 DEF PromotedAt
  <2> QED BY <1>1, <1>2, <2>2 DEF f
<1>5. db.next <= MaxToken + 1
  <2>1. db'.next <= MaxToken + 1 /\ db.next \in Nat /\ MaxToken \in Nat
    BY <1>1, BoundAssumption DEF Bounded, DB, Token
  <2> QED BY <1>4, <2>1
<1> QED BY <1>1, <1>3, <1>5, TurnedTwice

LEMMA EnqueueTurns ==
    ASSUME db \in DB, NEW r \in Resource, NEW h \in Holder, NEW now \in Instant,
           NEW ttl \in TTL, EnqueueWaiter(r, h, ttl, now)
    PROVE  /\ tx' = tx /\ Turned(db, db', r, now)
           /\ Active(db.leases[r], now) => db'.leases[r] = db.leases[r]
<1>1. ASSUME NEW d \in DB, NEW status, NEW t,
             Update(AddWaiter(d, r, h, ttl, now, status, t)), Turned(db, d, r, now)
      PROVE  tx' = tx /\ Turned(db, db', r, now) /\ db'.leases[r] = d.leases[r]
  <2>1. tx' = tx /\ db'.leases = d.leases
    BY <1>1 DEF Update, AddWaiter, DB
  <2> QED BY <1>1, <2>1 DEF Turned, OnlyAt
<1>2. CASE EnqueuePending(r, h, ttl, now)
  <2> DEFINE d == Handover(db, r, now)
  <2>1. d \in DB /\ Turned(db, d, r, now)
    <3>1. Turned(db, db, r, now)
      BY DEF Turned, OnlyAt
    <3> QED BY <3>1, PromoteType, PromoteTurned DEF Handover
  <2>2. Active(db.leases[r], now) => d = db
    BY DEF Handover
  <2>3. Update(AddWaiter(d, r, h, ttl, now, "pending", 0))
    BY <1>2 DEF EnqueuePending
  <2> HIDE DEF d
  <2> QED BY <1>1, <2>1, <2>2, <2>3
<1>3. CASE EnqueueImmediate(r, h, ttl, now)
  <2> DEFINE d == Grant(db, r, h, ttl, now, "acquire")
  <2>1. d \in DB /\ Turned(db, d, r, now)
    BY GrantType, GrantTurned DEF GrantAction
  <2>2. ~Active(db.leases[r], now) /\ Update(AddWaiter(d, r, h, ttl, now, "granted", db.next))
    BY <1>3 DEF EnqueueImmediate
  <2> HIDE DEF d
  <2> QED BY <1>1, <2>1, <2>2
<1> QED BY <1>2, <1>3 DEF EnqueueWaiter

LEMMA RenewKeeps ==
    ASSUME db \in DB, NEW r \in Resource, NEW h, NEW t, NEW now \in Instant, NEW ttl \in TTL,
           Renew(r, h, t, now, ttl)
    PROVE  /\ tx' = tx /\ OnlyAt(db, db', r)
           /\ db.leases[r] # NoLease /\ db.leases[r].holder = h /\ db.leases[r].token = t
           /\ db'.leases[r] # NoLease /\ db'.leases[r].holder = h /\ db'.leases[r].token = t
           /\ db'.leases[r].deadline = now + ttl /\ db.next <= MaxToken + 1
<1> DEFINE l == [db.leases[r] EXCEPT !.deadline = now + ttl]
           d == AppendAudit(PutLease(db, r, l), "renew", r, h, t)
<1>1. /\ tx' = tx /\ db' = d /\ Bounded(d)
      /\ db.leases[r] # NoLease /\ db.leases[r].holder = h /\ db.leases[r].token = t
  BY DEF Renew, RenewError, Update
<1>2. db.leases[r] \in Lease
  BY <1>1 DEF DB
<1>3. l \in Lease /\ l.holder = h /\ l.token = t /\ l.deadline = now + ttl
  BY <1>1, <1>2, TimeAssumption DEF Lease
<1> HIDE DEF l
<1>4. d.leases = [db.leases EXCEPT ![r] = l] /\ d.next = db.next
  BY DEF AppendAudit, PutLease, DB
<1> HIDE DEF d
<1>5. d.leases[r] = l /\ OnlyAt(db, d, r)
  BY <1>4 DEF OnlyAt, DB
<1> QED BY <1>1, <1>3, <1>4, <1>5, LeaseNotNull DEF Bounded

LEMMA TransferKeeps ==
    ASSUME db \in DB, NEW r \in Resource, NEW h, NEW t, NEW newHolder \in Holder, NEW now \in Instant,
           Transfer(r, h, t, newHolder, now)
    PROVE  /\ tx' = tx /\ OnlyAt(db, db', r) /\ db.next <= MaxToken + 1
           /\ db.leases[r] # NoLease /\ db.leases[r].holder = h /\ db.leases[r].token = t
           /\ db'.leases[r].deadline = db.leases[r].deadline
<1> DEFINE l == [db.leases[r] EXCEPT !.holder = newHolder]
           d == AppendAudit(PutLease(db, r, l), "transfer", r, newHolder, t)
<1>1. /\ tx' = tx /\ db' = d /\ Bounded(d)
      /\ db.leases[r] # NoLease /\ db.leases[r].holder = h /\ db.leases[r].token = t
  BY DEF Transfer, ReleaseError, Update
<1>2. db.leases[r] \in Lease
  BY <1>1 DEF DB
<1>3. l.deadline = db.leases[r].deadline
  BY <1>2 DEF Lease
<1> HIDE DEF l
<1>4. d.leases = [db.leases EXCEPT ![r] = l] /\ d.next = db.next
  BY DEF AppendAudit, PutLease, DB
<1> HIDE DEF d
<1>5. d.leases[r] = l /\ OnlyAt(db, d, r)
  BY <1>4 DEF OnlyAt, DB
<1> QED BY <1>1, <1>3, <1>4, <1>5 DEF Bounded

-----------------------------------------------------------------------------
(* The programs drive the service as it is *)

\* The request in slot p is h's.
Awaits(h, p) == p \in Client /\ request[p] # Idle /\ request[p].by = h

Shapes ==
    /\ request \in [Client -> Request \cup {Idle}]
    /\ waits \in [Holder -> Client \cup {Idle}]
    /\ believes \in [Holder -> [Resource -> Belief \cup {NoLease}]]
    /\ givenUp \in [Holder -> SUBSET Token]
    /\ \A p \in Client : called[p] # Idle => request[p] # Idle /\ ~request[p].served
    /\ \A h \in Holder : waits[h] # Idle => Awaits(h, waits[h])

\* They open no transaction with a loop: none is open while requests are served.
Quiet == phase = "serving" => tx = NoTx

Driven == SweepInv /\ TxNow /\ Quiet /\ Shapes

\* What is known of a request that is being served.
LEMMA Asked ==
    ASSUME Driven, NEW p \in Client, called[p] # Idle
    PROVE  /\ request[p] \in Request /\ request[p] # Idle /\ ~request[p].served
           /\ request[p].by \in Holder /\ request[p].resource \in Resource
           /\ request[p].op \in Operation /\ request[p].token \in Nat
           /\ called[p] \in Instant /\ called[p] <= clock
           /\ db \in DB /\ Issued(db)
<1>1. request[p] \in Request /\ request[p] # Idle /\ ~request[p].served
  BY DEF Driven, Shapes
<1>2. db \in DB /\ Issued(db)
  BY LockHere DEF Driven, SweepInv, BatchInv
<1> QED BY <1>1, <1>2 DEF Driven, SweepInv, StampsOK, Request

\* A token that the store accepts is one that it has issued.
LEMMA TokenInRange ==
    ASSUME db \in DB, Issued(db), db.next <= MaxToken + 1,
           NEW r \in Resource, db.leases[r] # NoLease
    PROVE  db.leases[r].token \in 1 .. MaxToken
<1>1. db.leases[r].token \in Nat \ {0} /\ db.leases[r].token < db.next /\ db.next \in Nat
  BY DEF DB, Lease, Token, Issued
<1> QED BY <1>1, BoundAssumption

\* A handler's answer is told, at most, about the lease as it has left it.
Answers(p, told) ==
    /\ AnswerWith(p, told)
    /\ \/ told = NoLease
       \/ /\ db'.leases[request[p].resource] # NoLease
          /\ db'.leases[request[p].resource].holder = request[p].by
          /\ told = AsTold(db'.leases[request[p].resource])

LEMMA ServedByService ==
    ASSUME Driven, NEW p \in Client, ServeRequest(p)
    PROVE  /\ Serve(p) \/ ServeUnchanged(p)
           /\ tx' = tx
           /\ \E told : Answers(p, told)
<1> DEFINE r == request[p].resource
           h == request[p].by
           t == request[p].token
           now == called[p]
           Goal == /\ Serve(p) \/ ServeUnchanged(p)
                   /\ tx' = tx
                   /\ \E told : Answers(p, told)
<1>a. /\ phase = "serving" /\ now # Idle /\ called' = [called EXCEPT ![p] = Idle]
      /\ UNCHANGED <<clock, phase, bootAt>>
  BY DEF ServeRequest
<1>b. /\ h \in Holder /\ r \in Resource /\ t \in Nat /\ now \in Instant
      /\ db \in DB /\ Issued(db)
  BY <1>a, Asked
<1>c. ASSUME LeaseOps(now) PROVE Serve(p)
  BY <1>a, <1>c DEF Serve, Call
<1>d. \A told : AnswerWith(p, told) /\ told = NoLease => Answers(p, told)
  BY DEF Answers
<1>1. CASE HandleAcquire(p)
  <2>1. PICK ttl \in TTL : Acquire(r, h, now, ttl)
    BY <1>1 DEF HandleAcquire
  <2>2. LeaseOps(now)
    BY <1>b, <2>1 DEF LeaseOps
  <2>3. tx' = tx /\ db'.leases[r] = NewLease(db, h, ttl, now)
    BY <1>b, <2>1, AcquireTurns
  <2>4. db'.leases[r] # NoLease /\ db'.leases[r].holder = h
    BY <1>b, <2>3, NewLeaseType DEF NewLease
  <2>5. Answers(p, AsTold(db'.leases[r]))
    BY <1>1, <2>4 DEF HandleAcquire, Answers
  <2> QED BY <1>c, <2>2, <2>3, <2>5
<1>2. CASE HandleRenew(p)
  <2>1. PICK ttl \in TTL : Renew(r, h, t, now, ttl)
    BY <1>2 DEF HandleRenew
  <2>2. /\ tx' = tx /\ db.leases[r] # NoLease /\ db.leases[r].token = t
        /\ db'.leases[r] # NoLease /\ db'.leases[r].holder = h /\ db.next <= MaxToken + 1
    BY <1>b, <2>1, RenewKeeps
  <2>3. t \in 1 .. MaxToken
    BY <1>b, <2>2, TokenInRange
  <2>4. LeaseOps(now)
    BY <1>b, <2>1, <2>3 DEF LeaseOps
  <2>5. Answers(p, AsTold(db'.leases[r]))
    BY <1>2, <2>2 DEF HandleRenew, Answers
  <2> QED BY <1>c, <2>2, <2>4, <2>5
<1>3. CASE HandleRelease(p)
  <2>1. Release(r, h, t, now) /\ AnswerWith(p, NoLease)
    BY <1>3 DEF HandleRelease
  <2>2. /\ tx' = tx /\ db.leases[r] # NoLease /\ db.leases[r].token = t
        /\ db.next <= MaxToken + 1
    BY <1>b, <2>1, ReleaseTurns
  <2>3. t \in 1 .. MaxToken
    BY <1>b, <2>2, TokenInRange
  <2>4. LeaseOps(now)
    BY <1>b, <2>1, <2>3 DEF LeaseOps
  <2> QED BY <1>c, <1>d, <2>1, <2>2, <2>4
<1>4. CASE HandleTransfer(p)
  <2>1. PICK newHolder \in Holder : Transfer(r, h, t, newHolder, now)
    BY <1>4 DEF HandleTransfer
  <2>2. /\ tx' = tx /\ db.leases[r] # NoLease /\ db.leases[r].token = t
        /\ db.next <= MaxToken + 1
    BY <1>b, <2>1, TransferKeeps
  <2>3. t \in 1 .. MaxToken
    BY <1>b, <2>2, TokenInRange
  <2>4. LeaseOps(now)
    BY <1>b, <2>1, <2>3 DEF LeaseOps
  <2>5. AnswerWith(p, NoLease)
    BY <1>4 DEF HandleTransfer
  <2> QED BY <1>c, <1>d, <2>2, <2>4, <2>5
<1>5. CASE HandleWait(p)
  <2>1. PICK ttl \in TTL : EnqueueWaiter(r, h, ttl, now)
    BY <1>5 DEF HandleWait
  <2>2. LeaseOps(now)
    BY <1>b, <2>1 DEF LeaseOps
  <2>3. tx' = tx
    BY <1>b, <2>1, EnqueueTurns
  <2>4. AnswerWith(p, NoLease)
    BY <1>5 DEF HandleWait
  <2> QED BY <1>c, <1>d, <2>2, <2>3, <2>4
<1>6. CASE HandleInspect(p)
  <2> DEFINE mine == Active(db.leases[r], now) /\ db.leases[r].holder = h
             told == IF mine THEN AsTold(db.leases[r]) ELSE NoLease
  <2>1. db' = db /\ tx' = tx /\ AnswerWith(p, told)
    BY <1>6 DEF HandleInspect
  <2>2. tx = NoTx
    BY <1>a DEF Driven, Quiet
  <2>3. ServeUnchanged(p)
    BY <1>a, <2>1, <2>2 DEF ServeUnchanged
  <2>4. Answers(p, told)
    BY <2>1 DEF Answers, Active
  <2> QED BY <2>1, <2>3, <2>4
<1> QED BY <1>1, <1>2, <1>3, <1>4, <1>5, <1>6 DEF ServeRequest

\* Every step is a step of the service, and none begins a loop while it serves.
LEMMA DrivenStep ==
    ASSUME Driven, [ClientsNext]_clientsVars
    PROVE  [SvcNext]_svcVars /\ Quiet'
<1> DEFINE Goal == [SvcNext]_svcVars /\ Quiet'
<1>a. Quiet
  BY DEF Driven
<1>b. UNCHANGED svcVars => Goal
  BY <1>a DEF svcVars, Quiet
<1>1. ASSUME NEW h \in Holder, NEW p \in Client, NEW r,
             AskFor(h, p, r) \/ AskRenewal(h, p, r) \/ AskToGiveUp(h, p, r) \/ AskAgain(h, p, r)
      PROVE  Goal
  <2>1. ReadClock(p)
    BY <1>1 DEF AskFor, AskRenewal, AskToGiveUp, AskAgain, Ask
  <2> QED BY <1>a, <2>1 DEF ReadClock, SvcNext, Quiet
<1>2. ASSUME NEW h \in Holder, Hear(h) \/ LoseAnswer(h) \/ StopWaiting(h) PROVE Goal
  BY <1>b, <1>2 DEF Hear, LoseAnswer, StopWaiting
<1>3. ASSUME NEW p \in Client, ServeRequest(p) PROVE Goal
  <2>1. (Serve(p) \/ ServeUnchanged(p)) /\ tx' = tx /\ phase' = phase
    BY <1>3, ServedByService DEF ServeRequest
  <2> QED BY <1>a, <2>1 DEF SvcNext, Quiet
<1>4. ASSUME NEW p \in Client, RefuseRequest(p) PROVE Goal
  BY <1>a, <1>4 DEF RefuseRequest, ServeUnchanged, SvcNext, Quiet
<1>5. CASE DieOnClients
  BY <1>5 DEF DieOnClients, Die, SvcNext, Quiet
<1>6. CASE Tick \/ Boot \/ Recover \/ Listen \/ CommitFails
  BY <1>a, <1>6 DEF Tick, Boot, Recover, Listen, CommitFails, Crash, SvcNext, Quiet
<1>7. CASE Work
  <2>1. phase = "serving" => tx = NoTx
    BY <1>a DEF Quiet
  <2>2. tx # NoTx /\ phase' = phase
    BY <1>7 DEF Work, TxStep, BulkAcquireStep, BulkReleaseStep, ExpireStep
  <2> QED BY <1>7, <2>1, <2>2 DEF SvcNext, Quiet
<1>8. CASE UNCHANGED clientsVars
  BY <1>b, <1>8 DEF clientsVars
<1> QED BY <1>1, <1>2, <1>3, <1>4, <1>5, <1>6, <1>7, <1>8 DEF ClientsNext

LEMMA AskShapes ==
    ASSUME Driven, NEW h \in Holder, NEW p \in Client, NEW op \in Operation, NEW r \in Resource,
           NEW t \in Nat, Ask(h, p, op, r, t)
    PROVE  /\ request' \in [Client -> Request \cup {Idle}]
           /\ waits' \in [Holder -> Client \cup {Idle}]
           /\ \A q \in Client : called'[q] # Idle => request'[q] # Idle /\ ~request'[q].served
           /\ \A g \in Holder : waits'[g] # Idle => Awaits(g, waits[g])'
<1> DEFINE new == [op |-> op, by |-> h, resource |-> r, token |-> t,
                   served |-> FALSE, told |-> NoLease]
<1>1. new \in Request
  BY DEF Request
<1>2. new # Idle /\ ~new.served /\ new.by = h
  BY <1>1, RequestAssumption
<1>3. /\ request' = [request EXCEPT ![p] = new] /\ waits' = [waits EXCEPT ![h] = p]
      /\ called' = [called EXCEPT ![p] = clock] /\ request[p] = Idle
  BY DEF Ask, ReadClock
<1> HIDE DEF new
<1>4. /\ request'[p] = new /\ \A q \in Client \ {p} : request'[q] = request[q]
      /\ \A q \in Client \ {p} : called'[q] = called[q]
  BY <1>3 DEF Driven, Shapes, SweepInv, StampsOK
<1>5. ASSUME NEW g \in Holder, waits'[g] # Idle PROVE Awaits(g, waits[g])'
  <2>1. CASE g = h
    <3>1. waits'[g] = p
      BY <1>3, <2>1 DEF Driven, Shapes
    <3> QED BY <1>2, <1>4, <2>1, <3>1 DEF Awaits
  <2>2. CASE g # h
    <3>1. waits'[g] = waits[g] /\ Awaits(g, waits[g])
      BY <1>3, <1>5, <2>2 DEF Driven, Shapes
    <3>2. waits[g] # p
      BY <1>3, <3>1 DEF Awaits
    <3> QED BY <1>4, <3>1, <3>2 DEF Awaits
  <2> QED BY <2>1, <2>2
<1> QED BY <1>1, <1>2, <1>3, <1>4, <1>5 DEF Driven, Shapes

LEMMA AnswerShapes ==
    ASSUME Driven, BatchInv', NEW p \in Client, called[p] # Idle,
           called' = [called EXCEPT ![p] = Idle], NEW told, Answers(p, told)
    PROVE  Shapes'
<1> DEFINE asked == request[p]
           answered == [asked EXCEPT !.served = TRUE, !.told = told]
<1>1. asked \in Request /\ asked.resource \in Resource
  BY Asked
<1>2. told \in Belief \cup {NoLease}
  <2>1. db' \in DB
    BY DEF BatchInv, LockInv, Inv, TypeInv, TypeOK
  <2>2. \A r \in Resource : db'.leases[r] # NoLease => AsTold(db'.leases[r]) \in Belief
    BY <2>1 DEF DB, Lease, AsTold, Belief
  <2> QED BY <1>1, <2>2 DEF Answers
<1>3. answered \in Request /\ answered.by = asked.by
  BY <1>1, <1>2 DEF Request
<1>4. /\ \/ request' = [request EXCEPT ![p] = answered]
         \/ request' = [request EXCEPT ![p] = Idle] /\ waits[asked.by] # p
      /\ UNCHANGED <<waits, believes, givenUp>>
  BY DEF Answers, AnswerWith
<1> HIDE DEF answered
<1>5. request' \in [Client -> Request \cup {Idle}]
  BY <1>3, <1>4 DEF Driven, Shapes
<1>6. ASSUME NEW q \in Client, called'[q] # Idle PROVE request'[q] # Idle /\ ~request'[q].served
  <2>1. q # p /\ called'[q] = called[q] /\ request'[q] = request[q]
    BY <1>4, <1>6 DEF Driven, Shapes, SweepInv, StampsOK
  <2> QED BY <1>6, <2>1 DEF Driven, Shapes
<1>7. ASSUME NEW g \in Holder, waits'[g] # Idle PROVE Awaits(g, waits[g])'
  <2>1. waits'[g] = waits[g] /\ Awaits(g, waits[g])
    BY <1>4, <1>7 DEF Driven, Shapes
  <2>2. CASE waits[g] = p
    <3>1. asked.by = g
      BY <2>1, <2>2 DEF Awaits
    <3>2. request'[p] = answered
      BY <1>4, <2>2, <3>1 DEF Driven, Shapes
    <3> QED BY <1>3, <2>1, <2>2, <3>1, <3>2, RequestAssumption DEF Awaits
  <2>3. CASE waits[g] # p
    <3>1. request'[waits[g]] = request[waits[g]]
      BY <1>4, <2>1, <2>3 DEF Driven, Shapes, Awaits
    <3> QED BY <2>1, <3>1 DEF Awaits
  <2> QED BY <2>2, <2>3
<1> QED BY <1>4, <1>5, <1>6, <1>7 DEF Driven, Shapes

LEMMA ShapesStep ==
    ASSUME Driven, BatchInv', [ClientsNext]_clientsVars
    PROVE  Shapes'
<1>a. Shapes /\ called \in [Client -> Instant \cup {Idle}]
  BY DEF Driven, SweepInv, StampsOK
<1>1. ASSUME NEW h \in Holder, NEW p \in Client, NEW r \in Resource, AskFor(h, p, r)
      PROVE  Shapes'
  <2>1. PICK op \in {"acquire", "wait", "inspect"} : Ask(h, p, op, r, 0)
    BY <1>1 DEF AskFor
  <2>2. op \in Operation
    BY DEF Operation
  <2> QED BY <1>a, <1>1, <2>1, <2>2, AskShapes DEF AskFor, Shapes
<1>2. ASSUME NEW h \in Holder, NEW p \in Client, NEW r \in Resource, AskRenewal(h, p, r)
      PROVE  Shapes'
  <2>1. Ask(h, p, "renew", r, believes[h][r].token) /\ believes[h][r].token \in Nat
    BY <1>a, <1>2 DEF AskRenewal, Shapes, Belief, Token
  <2>2. "renew" \in Operation
    BY DEF Operation
  <2> QED BY <1>a, <1>2, <2>1, <2>2, AskShapes DEF AskRenewal, Shapes
<1>3. ASSUME NEW h \in Holder, NEW p \in Client, NEW r \in Resource, AskToGiveUp(h, p, r)
      PROVE  Shapes'
  <2>1. believes[h][r].token \in Token
    BY <1>a, <1>3 DEF AskToGiveUp, Shapes, Belief
  <2>2. PICK op \in {"release", "transfer"} : Ask(h, p, op, r, believes[h][r].token)
    BY <1>3 DEF AskToGiveUp
  <2>3. op \in Operation /\ believes[h][r].token \in Nat
    BY <2>1 DEF Operation, Token
  <2>4. /\ givenUp' = [givenUp EXCEPT ![h] = givenUp[h] \cup {believes[h][r].token}]
        /\ believes' = [believes EXCEPT ![h] = [believes[h] EXCEPT ![r] = NoLease]]
    BY <1>3 DEF AskToGiveUp
  <2>5. givenUp' \in [Holder -> SUBSET Token]
    BY <1>a, <2>1, <2>4 DEF Shapes
  <2>6. believes' \in [Holder -> [Resource -> Belief \cup {NoLease}]]
    BY <1>a, <2>4 DEF Shapes
  <2> QED BY <2>2, <2>3, <2>5, <2>6, AskShapes DEF Shapes
<1>4. ASSUME NEW h \in Holder, NEW p \in Client, NEW r \in Resource, AskAgain(h, p, r)
      PROVE  Shapes'
  <2>1. PICK op \in {"release", "transfer"}, t \in givenUp[h] : Ask(h, p, op, r, t)
    BY <1>4 DEF AskAgain
  <2>2. op \in Operation /\ t \in Nat
    BY <1>a DEF Operation, Shapes, Token
  <2> QED BY <1>a, <1>4, <2>1, <2>2, AskShapes DEF AskAgain, Shapes
<1>5. ASSUME NEW h \in Holder, waits[h] # Idle, request[waits[h]].served,
             request' = [request EXCEPT ![waits[h]] = Idle],
             waits' = [waits EXCEPT ![h] = Idle], UNCHANGED <<called, givenUp>>,
             believes' \in [Holder -> [Resource -> Belief \cup {NoLease}]]
      PROVE  Shapes'
  <2>1. waits[h] \in Client
    BY <1>a, <1>5 DEF Shapes
  <2>2. /\ request' \in [Client -> Request \cup {Idle}]
        /\ waits' \in [Holder -> Client \cup {Idle}]
    BY <1>a, <1>5 DEF Shapes
  <2>3. ASSUME NEW q \in Client, called'[q] # Idle
        PROVE  request'[q] # Idle /\ ~request'[q].served
    <3>1. request[q] # Idle /\ ~request[q].served
      BY <1>a, <1>5, <2>3 DEF Shapes
    <3>2. q # waits[h]
      BY <1>5, <3>1
    <3>3. request'[q] = request[q]
      BY <1>a, <1>5, <3>2 DEF Shapes
    <3> QED BY <3>1, <3>3
  <2>4. ASSUME NEW g \in Holder, waits'[g] # Idle PROVE Awaits(g, waits[g])'
    <3>1. Awaits(h, waits[h]) /\ waits'[h] = Idle
      BY <1>a, <1>5 DEF Shapes
    <3>2. g # h /\ waits'[g] = waits[g] /\ Awaits(g, waits[g])
      BY <1>a, <1>5, <2>4, <3>1 DEF Shapes
    <3>3. waits[g] # waits[h]
      BY <3>1, <3>2 DEF Awaits
    <3>4. request'[waits[g]] = request[waits[g]]
      BY <1>a, <1>5, <3>2, <3>3 DEF Shapes, Awaits
    <3> QED BY <3>2, <3>4 DEF Awaits
  <2> QED BY <1>a, <1>5, <2>2, <2>3, <2>4 DEF Shapes
<1>6. ASSUME NEW h \in Holder, Hear(h) PROVE Shapes'
  <2> DEFINE asked == request[waits[h]]
  <2>1. /\ waits[h] # Idle /\ asked.served
        /\ \/ believes' = believes
           \/ /\ asked.told # NoLease
              /\ believes' = [believes EXCEPT ![h] =
                                 [believes[h] EXCEPT ![asked.resource] = asked.told]]
        /\ request' = [request EXCEPT ![waits[h]] = Idle]
        /\ waits' = [waits EXCEPT ![h] = Idle] /\ UNCHANGED <<called, givenUp>>
    BY <1>6 DEF Hear, svcVars
  <2>2. asked \in Request
    BY <1>a, <2>1 DEF Shapes, Awaits
  <2>3. CASE believes' = believes
    BY <1>a, <1>5, <2>1, <2>3 DEF Shapes
  <2>4. CASE asked.told # NoLease
    <3>1. asked.told \in Belief /\ asked.resource \in Resource
      BY <2>2, <2>4 DEF Request
    <3>2. \/ believes' = believes
          \/ believes' = [believes EXCEPT ![h] =
                             [believes[h] EXCEPT ![asked.resource] = asked.told]]
      BY <2>1
    <3> HIDE DEF asked
    <3>a. believes[h] \in [Resource -> Belief \cup {NoLease}]
      BY <1>a DEF Shapes
    <3>b. [believes[h] EXCEPT ![asked.resource] = asked.told] \in [Resource -> Belief \cup {NoLease}]
      BY <3>1, <3>a
    <3>3. believes' \in [Holder -> [Resource -> Belief \cup {NoLease}]]
      BY <1>a, <3>2, <3>b DEF Shapes
    <3> QED BY <1>5, <2>1, <3>3 DEF asked
  <2> QED BY <2>1, <2>3, <2>4
<1>7. ASSUME NEW h \in Holder, LoseAnswer(h) PROVE Shapes'
  BY <1>a, <1>5, <1>7 DEF LoseAnswer, svcVars, Shapes
<1>8. ASSUME NEW h \in Holder, StopWaiting(h) PROVE Shapes'
  BY <1>a, <1>8 DEF StopWaiting, svcVars, Shapes, Awaits
<1>9. ASSUME NEW p \in Client, ServeRequest(p) PROVE Shapes'
  <2>1. called[p] # Idle /\ called' = [called EXCEPT ![p] = Idle] /\ \E told : Answers(p, told)
    BY <1>9, ServedByService DEF ServeRequest
  <2> QED BY <2>1, AnswerShapes
<1>10. ASSUME NEW p \in Client, RefuseRequest(p) PROVE Shapes'
  <2>1. called[p] # Idle /\ called' = [called EXCEPT ![p] = Idle] /\ Answers(p, NoLease)
    BY <1>10 DEF RefuseRequest, ServeUnchanged, Answers
  <2> QED BY <2>1, AnswerShapes
<1>11. CASE DieOnClients
  BY <1>a, <1>11 DEF DieOnClients, Die, Shapes, Awaits
<1>12. CASE (Tick \/ Work \/ CommitFails \/ Boot \/ Recover \/ Listen) /\ UNCHANGED clientVars
  <2>1. called' = called
    BY <1>12 DEF Tick, Work, CommitFails, Boot, Recover, Listen
  <2> QED BY <1>a, <1>12, <2>1 DEF clientVars, Shapes, Awaits
<1>13. CASE UNCHANGED clientsVars
  BY <1>a, <1>13 DEF clientsVars, svcVars, Shapes, Awaits
<1> QED BY <1>1, <1>2, <1>3, <1>4, <1>6, <1>7, <1>8, <1>9, <1>10, <1>11, <1>12, <1>13
        DEF ClientsNext

LEMMA DrivenInit == ClientsInit => Driven
<1> SUFFICES ASSUME ClientsInit PROVE Driven
  OBVIOUS
<1>1. SvcInit
  BY DEF ClientsInit
<1>2. SweepInv /\ TxNow /\ Quiet
  BY <1>1, SweepInvInit DEF SvcInit, Init, TxNow, Quiet
<1>3. Shapes
  BY <1>1 DEF ClientsInit, SvcInit, Shapes
<1> QED BY <1>2, <1>3 DEF Driven

LEMMA DrivenInvStep ==
    ASSUME Driven, [ClientsNext]_clientsVars
    PROVE  Driven'
<1>1. [SvcNext]_svcVars /\ Quiet'
  BY DrivenStep
<1>2. SweepInv'
  BY <1>1, SweepInvStep DEF Driven
<1>3. TxNow'
  BY <1>1, TxNowStep DEF Driven, SweepInv, BatchInv, LockInv, Inv, TypeInv
<1>4. Shapes'
  BY <1>2, ShapesStep DEF SweepInv
<1> QED BY <1>1, <1>2, <1>3, <1>4 DEF Driven

LEMMA DrivenInvariant == ClientsSpec => []Driven
<1>1. Driven /\ [ClientsNext]_clientsVars => Driven'
  BY DrivenInvStep
<1> QED BY <1>1, DrivenInit, PTL DEF ClientsSpec

\* The service with its client programs is the service: whatever is proved of
\* the one holds while the programs of the other drive it.
THEOREM ClientsDriveService == ClientsSpec => SvcSpec
<1>1. ClientsInit => SvcInit
  BY DEF ClientsInit
<1>2. Driven /\ [ClientsNext]_clientsVars => [SvcNext]_svcVars
  BY DrivenStep
<1> QED BY <1>1, <1>2, DrivenInvariant, PTL DEF ClientsSpec, SvcSpec

\* Requests, answers and beliefs keep their shapes; a request that has read the
\* clock is one that is still to be answered.
THEOREM ClientsTypeCorrect == ClientsSpec => []ClientsTypeOK
<1>1. Driven => ClientsTypeOK
  BY DEF Driven, SweepInv, BatchInv, LockInv, Inv, TypeInv, StampsOK, TxNow, Shapes, SvcTypeOK,
         ClientsTypeOK
<1> QED BY <1>1, DrivenInvariant, PTL

-----------------------------------------------------------------------------
(* What the programs rely on *)

\* The programs of which BelieverHolds is true: they wait for the answer to a
\* renewal, and all ask for the same time-to-live.  Of others it is not: a
\* renewal that nobody waits for can shorten the lease that a later one got.
Steady == "renew" \notin Abandonable /\ \A s, t \in TTL : s = t

\* What h has been told of r and may act upon: what it believes, and the answer
\* that is on its way to it.
Claims(h, r) ==
    ({believes[h][r]}
     \cup {request[p].told :
              p \in {q \in Client :
                       waits[h] = q /\ request[q].served /\ request[q].resource = r}})
    \ {NoLease}

BackedBy(d, h, r, c) ==
    /\ d.leases[r] # NoLease
    /\ d.leases[r].holder = h
    /\ d.leases[r].token = c.token
    /\ c.deadline <= d.leases[r].deadline

ClaimsBacked ==
    \A h \in Holder, r \in Resource : \A c \in Claims(h, r) :
        c.token \notin givenUp[h] /\ clock < c.deadline => BackedBy(db, h, r, c)

BelievesKept ==
    \A h \in Holder, r \in Resource :
        believes[h][r] # NoLease => believes[h][r].token \notin givenUp[h]

\* A token that was told is a token of its resource for good.
ClaimTokens ==
    \A h \in Holder, r \in Resource : \A c \in Claims(h, r) :
        /\ c.token < db.next
        /\ \A s \in Resource : db.leases[s] # NoLease /\ db.leases[s].token = c.token => s = r

ClaimsApart ==
    \A h \in Holder, r, s \in Resource : \A c \in Claims(h, r), e \in Claims(h, s) :
        c.token = e.token => r = s

\* Every deadline is at most one time-to-live ahead of the clock.
Soon(d, now) ==
    \A r \in Resource, ttl \in TTL : d.leases[r] # NoLease => d.leases[r].deadline <= now + ttl

ClaimsSoon ==
    \A h \in Holder, r \in Resource, ttl \in TTL : \A c \in Claims(h, r) :
        c.deadline <= clock + ttl

AllSoon == Soon(db, clock) /\ (tx # NoTx => Soon(tx.work, clock)) /\ ClaimsSoon

\* A program waits for its renewal and for every answer that is on its way.
Waiting ==
    \A p \in Client :
        request[p] # Idle /\ (request[p].served \/ request[p].op = "renew") =>
            waits[request[p].by] = p

\* A renewal cannot shorten what its program was told.
Renewing ==
    \A p \in Client :
        called[p] # Idle /\ request[p].op = "renew" =>
            \A ttl \in TTL : \A c \in Claims(request[p].by, request[p].resource) :
                c.deadline <= called[p] + ttl

GivingUp ==
    \A p \in Client :
        called[p] # Idle /\ request[p].op \in {"release", "transfer"} =>
            request[p].token \in givenUp[request[p].by]

ClaimsInv ==
    /\ Steady
    /\ Driven
    /\ Distinct(db)
    /\ ClaimsBacked /\ BelievesKept /\ ClaimTokens /\ ClaimsApart
    /\ AllSoon
    /\ Waiting /\ Renewing /\ GivingUp

LEMMA ClaimTypes ==
    ASSUME Driven, NEW h \in Holder, NEW r \in Resource, NEW c \in Claims(h, r)
    PROVE  c \in Belief /\ c.token \in Nat /\ c.deadline \in Nat
<1>1. c # NoLease
  BY DEF Claims
<1>2. CASE c = believes[h][r]
  <2>1. c \in Belief
    BY <1>1, <1>2 DEF Driven, Shapes
  <2> QED BY <2>1 DEF Belief, Token
<1>3. ASSUME NEW p \in Client, waits[h] = p, c = request[p].told
      PROVE  c \in Belief /\ c.token \in Nat /\ c.deadline \in Nat
  <2>1. waits[h] # Idle
    BY <1>3, IdleAssumption
  <2>2. request[p] \in Request
    BY <1>3, <2>1 DEF Driven, Shapes, Awaits
  <2>3. c \in Belief
    BY <1>1, <1>3, <2>2 DEF Request
  <2> QED BY <2>3 DEF Belief, Token
<1> QED BY <1>2, <1>3 DEF Claims

-----------------------------------------------------------------------------
(* What a step may do to claims and leases so that they stay backed *)

\* A claim is an old one, or tells the lease as the step has left it.
ClaimStep ==
    \A h \in Holder, r \in Resource : \A c \in Claims(h, r)' :
        \/ c \in Claims(h, r)
        \/ db'.leases[r] # NoLease /\ db'.leases[r].holder = h /\ c = AsTold(db'.leases[r])

\* A lease that backs a claim goes on backing it.
BackStep ==
    \A h \in Holder, r \in Resource : \A c \in Claims(h, r) :
        c.token \notin givenUp[h] /\ clock < c.deadline /\ BackedBy(db, h, r, c) =>
            BackedBy(db', h, r, c)

Onward ==
    /\ clock' \in Nat /\ clock <= clock'
    /\ \A h \in Holder : givenUp[h] \subseteq givenUp'[h]

LEMMA BackedOn ==
    ASSUME ClaimsInv, ClaimStep, BackStep, Onward, db' \in DB
    PROVE  ClaimsBacked'
<1>1. SUFFICES ASSUME NEW h \in Holder, NEW r \in Resource, NEW c \in Claims(h, r)',
                      c.token \notin givenUp'[h], clock' < c.deadline
               PROVE  BackedBy(db', h, r, c)
  BY DEF ClaimsBacked, BackedBy
<1>2. CASE c \in Claims(h, r)
  <2>1. c.token \notin givenUp[h]
    BY <1>1 DEF Onward
  <2>2. clock < c.deadline
    <3>1. c.deadline \in Nat /\ clock \in Nat
      BY <1>2, ClaimTypes, TimeAssumption DEF ClaimsInv, Driven, SweepInv, StampsOK
    <3> QED BY <1>1, <3>1 DEF Onward
  <2>3. BackedBy(db, h, r, c)
    BY <1>2, <2>1, <2>2 DEF ClaimsInv, ClaimsBacked
  <2> QED BY <1>2, <2>1, <2>2, <2>3 DEF BackStep
<1>3. CASE /\ db'.leases[r] # NoLease /\ db'.leases[r].holder = h
           /\ c = AsTold(db'.leases[r])
  <2>1. db'.leases[r].deadline \in Nat
    BY <1>3 DEF DB, Lease
  <2> QED BY <1>3, <2>1 DEF BackedBy, AsTold
<1> QED BY <1>2, <1>3 DEF ClaimStep

LEMMA TokensOn ==
    ASSUME ClaimsInv, ClaimStep, db' \in DB, Newer(db, db'), Issued(db'), Distinct(db')
    PROVE  ClaimTokens' /\ ClaimsApart'
<1>a. db.next \in Nat /\ db'.next \in Nat /\ db.next <= db'.next
  BY LockHere DEF ClaimsInv, Driven, SweepInv, BatchInv, Newer, DB, Token
<1>1. ASSUME NEW h \in Holder, NEW r \in Resource, NEW c \in Claims(h, r)'
      PROVE  /\ c.token < db'.next
             /\ \A s \in Resource :
                   db'.leases[s] # NoLease /\ db'.leases[s].token = c.token => s = r
  <2>1. CASE c \in Claims(h, r)
    <3>1. c.token \in Nat /\ c.token < db.next
      BY <2>1, ClaimTypes DEF ClaimsInv, ClaimTokens
    <3>2. ASSUME NEW s \in Resource, db'.leases[s] # NoLease, db'.leases[s].token = c.token
          PROVE  s = r
      <4>1. ~(db'.leases[s].token \in db.next .. db'.next - 1)
        BY <1>a, <3>1, <3>2
      <4>2. db.leases[s] # NoLease /\ db.leases[s].token = c.token
        BY <3>2, <4>1 DEF Newer
      <4> QED BY <2>1, <4>2 DEF ClaimsInv, ClaimTokens
    <3> QED BY <1>a, <3>1, <3>2
  <2>2. CASE db'.leases[r] # NoLease /\ c = AsTold(db'.leases[r])
    <3>1. c.token = db'.leases[r].token
      BY <2>2 DEF AsTold
    <3> QED BY <2>2, <3>1 DEF Issued, Distinct
  <2> QED BY <2>1, <2>2 DEF ClaimStep
<1>2. ASSUME NEW h \in Holder, NEW r \in Resource, NEW s \in Resource,
             NEW c \in Claims(h, r)', NEW e \in Claims(h, s)', c.token = e.token
      PROVE  r = s
  <2>1. CASE c \in Claims(h, r) /\ e \in Claims(h, s)
    BY <1>2, <2>1 DEF ClaimsInv, ClaimsApart
  <2>2. CASE db'.leases[r] # NoLease /\ c = AsTold(db'.leases[r])
    <3>1. db'.leases[r].token = e.token
      BY <1>2, <2>2 DEF AsTold
    <3> QED BY <1>1, <2>2, <3>1
  <2>3. CASE db'.leases[s] # NoLease /\ e = AsTold(db'.leases[s])
    <3>1. db'.leases[s].token = c.token
      BY <1>2, <2>3 DEF AsTold
    <3> QED BY <1>1, <2>3, <3>1
  <2> QED BY <2>1, <2>2, <2>3 DEF ClaimStep
<1>3. ClaimTokens'
  BY <1>1 DEF ClaimTokens
<1> QED BY <1>2, <1>3 DEF ClaimsApart

LEMMA SoonOn ==
    ASSUME ClaimsInv, ClaimStep, Onward, Soon(db', clock')
    PROVE  ClaimsSoon'
<1> SUFFICES ASSUME NEW h \in Holder, NEW r \in Resource, NEW ttl \in TTL,
                    NEW c \in Claims(h, r)'
             PROVE  c.deadline <= clock' + ttl
  BY DEF ClaimsSoon
<1>1. CASE c \in Claims(h, r)
  <2>1. c.deadline <= clock + ttl
    BY <1>1 DEF ClaimsInv, AllSoon, ClaimsSoon
  <2>2. c.deadline \in Nat /\ clock \in Nat /\ ttl \in Nat /\ clock' \in Nat /\ clock <= clock'
    BY <1>1, ClaimTypes, TimeAssumption DEF ClaimsInv, Driven, SweepInv, StampsOK, Onward
  <2> QED BY <2>1, <2>2
<1>2. CASE db'.leases[r] # NoLease /\ c = AsTold(db'.leases[r])
  BY <1>2 DEF Soon, AsTold
<1> QED BY <1>1, <1>2 DEF ClaimStep

\* What has to be shown of a step.
LeasesGood ==
    ClaimStep /\ BackStep /\ Onward /\ Soon(db', clock') /\ (tx' # NoTx => Soon(tx'.work, clock'))

ProgramsGood == BelievesKept' /\ Waiting' /\ Renewing' /\ GivingUp'

ClaimsShrink == \A g \in Holder, s \in Resource : Claims(g, s)' \subseteq Claims(g, s)

\* A step that leaves the store and the clock alone.
LEMMA StoreAlone ==
    ASSUME ClaimsInv, ClaimsShrink, db' = db, tx' = tx \/ tx' = NoTx, clock' = clock,
           \A h \in Holder : givenUp[h] \subseteq givenUp'[h]
    PROVE  LeasesGood
<1>1. clock \in Nat
  BY TimeAssumption DEF ClaimsInv, Driven, SweepInv, StampsOK
<1> QED BY <1>1 DEF ClaimsInv, AllSoon, Soon, LeasesGood, ClaimStep, ClaimsShrink, BackStep, Onward

\* What a program waits for is a request of its own.
LEMMA Awaited2 ==
    ASSUME Driven, NEW g \in Holder, NEW q \in Client, waits[g] = q
    PROVE  request[q] \in Request /\ request[q] # Idle /\ request[q].by = g
<1>1. waits[g] # Idle
  BY IdleAssumption
<1> QED BY <1>1 DEF Driven, Shapes, Awaits

-----------------------------------------------------------------------------
(* The programs *)

LEMMA AskGood ==
    ASSUME ClaimsInv, NEW h \in Holder, NEW p \in Client, NEW op \in Operation, NEW r \in Resource,
           NEW t, Ask(h, p, op, r, t),
           \A g \in Holder, s \in Resource : believes'[g][s] \in {believes[g][s], NoLease},
           \A g \in Holder : givenUp[g] \subseteq givenUp'[g],
           op \in {"release", "transfer"} => t \in givenUp'[h]
    PROVE  LeasesGood /\ Waiting' /\ Renewing' /\ GivingUp'
<1> DEFINE new == [op |-> op, by |-> h, resource |-> r, token |-> t,
                   served |-> FALSE, told |-> NoLease]
<1>1. /\ request' = [request EXCEPT ![p] = new] /\ waits' = [waits EXCEPT ![h] = p]
      /\ called' = [called EXCEPT ![p] = clock] /\ request[p] = Idle /\ waits[h] = Idle
      /\ db' = db /\ tx' = tx /\ clock' = clock
  BY DEF Ask, ReadClock
<1>2. ~new.served /\ new.by = h /\ new.op = op /\ new.resource = r /\ new.token = t
  OBVIOUS
<1> HIDE DEF new
<1>3. /\ request'[p] = new /\ \A q \in Client \ {p} : request'[q] = request[q]
      /\ called'[p] = clock /\ \A q \in Client \ {p} : called'[q] = called[q]
      /\ waits'[h] = p /\ \A g \in Holder \ {h} : waits'[g] = waits[g]
  BY <1>1 DEF ClaimsInv, Driven, Shapes, SweepInv, StampsOK
<1>4. ClaimsShrink
  <2> SUFFICES ASSUME NEW g \in Holder, NEW s \in Resource, NEW c \in Claims(g, s)'
               PROVE  c \in Claims(g, s)
    BY DEF ClaimsShrink
  <2>1. CASE c = believes'[g][s]
    BY <2>1 DEF Claims
  <2>2. ASSUME NEW q \in Client, waits'[g] = q, request'[q].served, request'[q].resource = s,
               c = request'[q].told
        PROVE  c \in Claims(g, s)
    <3>1. q # p
      BY <1>2, <1>3, <2>2
    <3>2. waits[g] = q /\ request'[q] = request[q]
      BY <1>3, <2>2, <3>1
    <3>3. c # NoLease
      BY DEF Claims
    <3> QED BY <2>2, <3>2, <3>3 DEF Claims
  <2> QED BY <2>1, <2>2 DEF Claims
<1>5. ASSUME NEW q \in Client, request'[q] # Idle, request'[q].served \/ request'[q].op = "renew"
      PROVE  waits'[request'[q].by] = q
  <2>1. CASE q = p
    BY <1>2, <1>3, <2>1
  <2>2. CASE q # p
    <3>1. request'[q] = request[q] /\ waits[request[q].by] = q
      BY <1>3, <1>5, <2>2 DEF ClaimsInv, Waiting
    <3>2. request[q].by \in Holder
      BY <1>5, <3>1 DEF ClaimsInv, Driven, Shapes, Request
    <3>3. request[q].by # h
      BY <1>1, <3>1, IdleAssumption
    <3> QED BY <1>3, <3>1, <3>2, <3>3
  <2> QED BY <2>1, <2>2
<1>6. ASSUME NEW q \in Client, called'[q] # Idle, request'[q].op = "renew", NEW ttl \in TTL,
             NEW g \in Holder, NEW s \in Resource, request'[q].by = g, request'[q].resource = s,
             NEW c \in Claims(g, s)'
      PROVE  c.deadline <= called'[q] + ttl
  <2>a. c \in Claims(g, s)
    BY <1>4, <1>6 DEF ClaimsShrink
  <2>1. CASE q = p
    BY <1>3, <2>a, <2>1 DEF ClaimsInv, AllSoon, ClaimsSoon
  <2>2. CASE q # p
    <3>1. called'[q] = called[q] /\ request'[q] = request[q]
      BY <1>3, <2>2
    <3> QED BY <1>6, <2>a, <3>1 DEF ClaimsInv, Renewing
  <2> QED BY <2>1, <2>2
<1>7. ASSUME NEW q \in Client, called'[q] # Idle, request'[q].op \in {"release", "transfer"}
      PROVE  request'[q].token \in givenUp'[request'[q].by]
  <2>1. CASE q = p
    BY <1>2, <1>3, <1>7, <2>1
  <2>2. CASE q # p
    <3>1. called'[q] = called[q] /\ request'[q] = request[q]
      BY <1>3, <2>2
    <3>2. request[q].by \in Holder
      BY <1>7, <3>1, Asked DEF ClaimsInv
    <3> QED BY <1>7, <3>1, <3>2 DEF ClaimsInv, GivingUp
  <2> QED BY <2>1, <2>2
<1>8. Waiting'
  BY <1>5 DEF Waiting
<1>a. ASSUME NEW q \in Client, called'[q] # Idle
      PROVE  request'[q].by \in Holder /\ request'[q].resource \in Resource
  <2>1. CASE q = p
    BY <1>2, <1>3, <2>1
  <2>2. CASE q # p
    BY <1>3, <1>a, <2>2, Asked DEF ClaimsInv
  <2> QED BY <2>1, <2>2
<1>9. Renewing'
  BY <1>6, <1>a DEF Renewing
<1>10. GivingUp'
  BY <1>7 DEF GivingUp
<1> QED BY <1>1, <1>4, <1>8, <1>9, <1>10, StoreAlone

\* A program that asks to give r up does not believe in that token any more,
\* and in no other place: no token is on two resources.
LEMMA GiveUpGood ==
    ASSUME ClaimsInv, NEW h \in Holder, NEW p \in Client, NEW r \in Resource, AskToGiveUp(h, p, r)
    PROVE  LeasesGood /\ ProgramsGood
<1> DEFINE t == believes[h][r].token
<1>1. /\ believes[h][r] # NoLease
      /\ givenUp' = [givenUp EXCEPT ![h] = givenUp[h] \cup {t}]
      /\ believes' = [believes EXCEPT ![h] = [believes[h] EXCEPT ![r] = NoLease]]
  BY DEF AskToGiveUp
<1>2. PICK op \in {"release", "transfer"} : Ask(h, p, op, r, t)
  BY DEF AskToGiveUp
<1>3. /\ believes \in [Holder -> [Resource -> Belief \cup {NoLease}]]
      /\ givenUp \in [Holder -> SUBSET Token]
  BY DEF ClaimsInv, Driven, Shapes
<1>4. /\ givenUp'[h] = givenUp[h] \cup {t}
      /\ \A g \in Holder \ {h} : givenUp'[g] = givenUp[g] /\ believes'[g] = believes[g]
      /\ believes'[h][r] = NoLease
      /\ \A s \in Resource \ {r} : believes'[h][s] = believes[h][s]
  BY <1>1, <1>3
<1>5. op \in Operation
  BY DEF Operation
<1>6. LeasesGood /\ Waiting' /\ Renewing' /\ GivingUp'
  <2>1. /\ \A g \in Holder, s \in Resource : believes'[g][s] \in {believes[g][s], NoLease}
        /\ \A g \in Holder : givenUp[g] \subseteq givenUp'[g]
        /\ t \in givenUp'[h]
    BY <1>4
  <2> HIDE DEF t
  <2> QED BY <1>2, <1>5, <2>1, AskGood
<1>7. ASSUME NEW g \in Holder, NEW s \in Resource, believes'[g][s] # NoLease
      PROVE  believes'[g][s].token \notin givenUp'[g]
  <2>1. believes'[g][s] = believes[g][s] /\ believes[g][s].token \notin givenUp[g]
    <3>1. believes'[g][s] = believes[g][s]
      BY <1>4, <1>7
    <3> QED BY <1>7, <3>1 DEF ClaimsInv, BelievesKept
  <2>2. CASE g # h
    BY <1>4, <2>1, <2>2
  <2>3. CASE g = h
    <3>1. s # r
      BY <1>4, <1>7, <2>3
    <3>2. believes[h][s] \in Claims(h, s) /\ believes[h][r] \in Claims(h, r)
      BY <1>1, <1>7, <2>1, <2>3 DEF Claims
    <3>3. believes[h][s].token # t
      BY <3>1, <3>2 DEF ClaimsInv, ClaimsApart
    <3> QED BY <1>4, <2>1, <2>3, <3>3
  <2> QED BY <2>2, <2>3
<1>8. BelievesKept'
  BY <1>7 DEF BelievesKept
<1> QED BY <1>6, <1>8 DEF ProgramsGood

\* An answer is heard, or lost.
LEMMA AnswerTaken ==
    ASSUME ClaimsInv, NEW h \in Holder, waits[h] # Idle, request[waits[h]].served,
           request' = [request EXCEPT ![waits[h]] = Idle],
           waits' = [waits EXCEPT ![h] = Idle], UNCHANGED <<svcVars, givenUp>>,
           \A g \in Holder, s \in Resource :
               believes'[g][s] # NoLease =>
                   believes'[g][s] \in Claims(g, s) /\ believes'[g][s].token \notin givenUp[g]
    PROVE  LeasesGood /\ ProgramsGood
<1> DEFINE p == waits[h]
<1>1. p \in Client /\ request[p].by = h
  BY DEF ClaimsInv, Driven, Shapes, Awaits
<1>2. /\ request'[p] = Idle /\ \A q \in Client \ {p} : request'[q] = request[q]
      /\ waits'[h] = Idle /\ \A g \in Holder \ {h} : waits'[g] = waits[g]
      /\ called' = called /\ db' = db /\ tx' = tx /\ clock' = clock /\ givenUp' = givenUp
  BY <1>1 DEF ClaimsInv, Driven, Shapes, svcVars
<1>3. ClaimsShrink
  <2> SUFFICES ASSUME NEW g \in Holder, NEW s \in Resource, NEW c \in Claims(g, s)'
               PROVE  c \in Claims(g, s)
    BY DEF ClaimsShrink
  <2>a. c # NoLease
    BY DEF Claims
  <2>1. CASE c = believes'[g][s]
    BY <2>a, <2>1
  <2>2. ASSUME NEW q \in Client, waits'[g] = q, request'[q].served, request'[q].resource = s,
               c = request'[q].told
        PROVE  c \in Claims(g, s)
    <3>1. g # h /\ waits[g] = q
      BY <1>2, <2>2, IdleAssumption
    <3>2. request[q].by = g
      BY <3>1, Awaited2 DEF ClaimsInv
    <3>3. request'[q] = request[q]
      BY <1>1, <1>2, <3>1, <3>2
    <3> QED BY <2>a, <2>2, <3>1, <3>3 DEF Claims
  <2> QED BY <2>1, <2>2 DEF Claims
<1>4. ASSUME NEW q \in Client, request'[q] # Idle, request'[q].served \/ request'[q].op = "renew"
      PROVE  waits'[request'[q].by] = q
  <2>1. q # p /\ request'[q] = request[q]
    BY <1>2, <1>4
  <2>2. request[q].by \in Holder /\ waits[request[q].by] = q
    BY <1>4, <2>1 DEF ClaimsInv, Waiting, Driven, Shapes, Request
  <2> QED BY <1>2, <2>1, <2>2
<1>5. ASSUME NEW q \in Client, called'[q] # Idle
      PROVE  /\ called[q] # Idle /\ called'[q] = called[q] /\ request'[q] = request[q]
             /\ request[q].by \in Holder /\ request[q].resource \in Resource
  <2>1. called[q] # Idle
    BY <1>2, <1>5
  <2>2. ~request[q].served
    BY <2>1, Asked DEF ClaimsInv
  <2> QED BY <1>2, <2>1, <2>2, Asked DEF ClaimsInv
<1>6. Waiting'
  BY <1>4 DEF Waiting
<1>7. Renewing' /\ GivingUp'
  BY <1>2, <1>3, <1>5 DEF ClaimsInv, Renewing, GivingUp, ClaimsShrink
<1>8. BelievesKept'
  BY <1>2 DEF BelievesKept
<1> QED BY <1>2, <1>3, <1>6, <1>7, <1>8, StoreAlone DEF ProgramsGood

LEMMA HearGood ==
    ASSUME ClaimsInv, NEW h \in Holder, Hear(h)
    PROVE  LeasesGood /\ ProgramsGood
<1> DEFINE asked == request[waits[h]]
           good == asked.told # NoLease /\ asked.told.token \notin givenUp[h]
<1>1. /\ waits[h] # Idle /\ asked.served
      /\ believes' = IF good
                     THEN [believes EXCEPT ![h] =
                             [believes[h] EXCEPT ![asked.resource] = asked.told]]
                     ELSE believes
      /\ request' = [request EXCEPT ![waits[h]] = Idle]
      /\ waits' = [waits EXCEPT ![h] = Idle] /\ UNCHANGED <<svcVars, givenUp>>
  BY DEF Hear
<1>2. waits[h] \in Client /\ asked \in Request
  BY <1>1 DEF ClaimsInv, Driven, Shapes, Awaits
<1>3. asked.resource \in Resource
  BY <1>2 DEF Request
<1>4. asked.told # NoLease => asked.told \in Claims(h, asked.resource)
  BY <1>1, <1>2 DEF Claims
<1> HIDE DEF asked
<1>5. ASSUME NEW g \in Holder, NEW s \in Resource, believes'[g][s] # NoLease
      PROVE  believes'[g][s] \in Claims(g, s) /\ believes'[g][s].token \notin givenUp[g]
  <2>1. CASE believes'[g][s] = believes[g][s]
    BY <1>5, <2>1 DEF Claims, ClaimsInv, BelievesKept
  <2>2. CASE good /\ g = h /\ s = asked.resource /\ believes'[g][s] = asked.told
    BY <1>4, <2>2
  <2>3. \/ believes'[g][s] = believes[g][s]
        \/ good /\ g = h /\ s = asked.resource /\ believes'[g][s] = asked.told
    BY <1>1, <1>3 DEF ClaimsInv, Driven, Shapes
  <2> QED BY <2>1, <2>2, <2>3
<1> QED BY <1>1, <1>5, AnswerTaken DEF asked

LEMMA StopGood ==
    ASSUME ClaimsInv, NEW h \in Holder, StopWaiting(h)
    PROVE  LeasesGood /\ ProgramsGood
<1>1. /\ ~request[waits[h]].served /\ request[waits[h]].op # "renew"
      /\ waits' = [waits EXCEPT ![h] = Idle] /\ UNCHANGED <<svcVars, request, believes, givenUp>>
  BY DEF StopWaiting, ClaimsInv, Steady
<1>2. /\ waits'[h] = Idle /\ \A g \in Holder \ {h} : waits'[g] = waits[g]
      /\ called' = called /\ db' = db /\ tx' = tx /\ clock' = clock
  BY <1>1 DEF ClaimsInv, Driven, Shapes, svcVars
<1>3. ClaimsShrink
  <2> SUFFICES ASSUME NEW g \in Holder, NEW s \in Resource, NEW c \in Claims(g, s)'
               PROVE  c \in Claims(g, s)
    BY DEF ClaimsShrink
  <2>1. \A q \in Client : waits'[g] = q => waits[g] = q
    BY <1>2, IdleAssumption
  <2> QED BY <1>1, <2>1 DEF Claims
<1>4. ASSUME NEW q \in Client, request[q] # Idle, request[q].served \/ request[q].op = "renew"
      PROVE  waits'[request[q].by] = q
  <2>1. request[q].by \in Holder /\ waits[request[q].by] = q
    BY <1>4 DEF ClaimsInv, Waiting, Driven, Shapes, Request
  <2> QED BY <1>1, <1>2, <1>4, <2>1
<1>5. Waiting'
  BY <1>1, <1>4 DEF Waiting
<1>6. ASSUME NEW q \in Client, called[q] # Idle
      PROVE  request[q].by \in Holder /\ request[q].resource \in Resource
  BY <1>6, Asked DEF ClaimsInv
<1>7. Renewing' /\ GivingUp'
  BY <1>1, <1>2, <1>3, <1>6 DEF ClaimsInv, Renewing, GivingUp, ClaimsShrink
<1>8. BelievesKept'
  BY <1>1 DEF ClaimsInv, BelievesKept
<1> QED BY <1>1, <1>2, <1>3, <1>5, <1>7, <1>8, StoreAlone DEF ProgramsGood

LEMMA DieGood ==
    ASSUME ClaimsInv, DieOnClients
    PROVE  LeasesGood /\ ProgramsGood
<1>1. /\ request' = [p \in Client |-> Idle] /\ waits' = [h \in Holder |-> Idle]
      /\ called' = [p \in Client |-> Idle] /\ db' = db /\ tx' = NoTx /\ clock' = clock
      /\ UNCHANGED <<believes, givenUp>>
  BY DEF DieOnClients, Die
<1>2. ClaimsShrink
  BY <1>1, IdleAssumption DEF ClaimsShrink, Claims
<1>3. BelievesKept' /\ Waiting' /\ Renewing' /\ GivingUp'
  BY <1>1 DEF ClaimsInv, BelievesKept, Waiting, Renewing, GivingUp
<1> QED BY <1>1, <1>2, <1>3, StoreAlone DEF ProgramsGood

-----------------------------------------------------------------------------
(* The handlers *)

\* The answer is the only new claim, and only if its program waits for it.
LEMMA AnswerGood ==
    ASSUME ClaimsInv, NEW p \in Client, called[p] # Idle,
           called' = [called EXCEPT ![p] = Idle], NEW told, Answers(p, told)
    PROVE  ClaimStep /\ ProgramsGood
<1> DEFINE h == request[p].by
           r == request[p].resource
           answered == [request[p] EXCEPT !.served = TRUE, !.told = told]
<1>1. Driven /\ request[p] \in Request /\ h \in Holder /\ r \in Resource
  BY Asked DEF ClaimsInv
<1>2. /\ answered.served /\ answered.told = told /\ answered.resource = r /\ answered.by = h
  BY <1>1 DEF Request
<1>3. /\ \/ waits[h] = p /\ request' = [request EXCEPT ![p] = answered]
         \/ waits[h] # p /\ request' = [request EXCEPT ![p] = Idle]
      /\ UNCHANGED <<waits, believes, givenUp>>
  BY DEF Answers, AnswerWith
<1> HIDE DEF answered
<1>4. /\ waits[h] = p => request'[p] = answered
      /\ waits[h] # p => request'[p] = Idle
      /\ \A q \in Client \ {p} : request'[q] = request[q] /\ called'[q] = called[q]
      /\ called'[p] = Idle
  BY <1>1, <1>3 DEF Driven, Shapes, SweepInv, StampsOK
<1>5. ASSUME NEW g \in Holder, NEW s \in Resource, NEW c \in Claims(g, s)'
      PROVE  \/ c \in Claims(g, s)
             \/ waits[g] = p /\ g = h /\ s = r /\ c = told /\ c # NoLease
  <2>a. c # NoLease
    BY DEF Claims
  <2>1. CASE c = believes'[g][s]
    BY <1>3, <2>a, <2>1 DEF Claims
  <2>2. ASSUME NEW q \in Client, waits'[g] = q, request'[q].served, request'[q].resource = s,
               c = request'[q].told
        PROVE  \/ c \in Claims(g, s)
               \/ waits[g] = p /\ g = h /\ s = r /\ c = told
    <3>1. waits[g] = q
      BY <1>3, <2>2
    <3>2. CASE q = p
      <4>1. g = h
        BY <1>1, <3>1, <3>2, Awaited2
      <4> QED BY <1>2, <1>4, <2>2, <3>1, <3>2, <4>1
    <3>3. CASE q # p
      BY <1>4, <2>a, <2>2, <3>1, <3>3 DEF Claims
    <3> QED BY <3>2, <3>3
  <2> QED BY <2>a, <2>1, <2>2 DEF Claims
<1>6. ClaimStep
  BY <1>5 DEF ClaimStep, Answers
<1>7. ASSUME NEW q \in Client, request'[q] # Idle, request'[q].served \/ request'[q].op = "renew"
      PROVE  waits'[request'[q].by] = q
  <2>1. CASE q = p
    BY <1>2, <1>3, <1>4, <1>7, <2>1
  <2>2. CASE q # p
    BY <1>3, <1>4, <1>7, <2>2 DEF ClaimsInv, Waiting
  <2> QED BY <2>1, <2>2
<1>8. ASSUME NEW q \in Client, called'[q] # Idle
      PROVE  /\ q # p /\ called[q] # Idle /\ called'[q] = called[q] /\ request'[q] = request[q]
             /\ request[q] # Idle /\ request[q].by \in Holder /\ request[q].resource \in Resource
  <2>1. q # p /\ called[q] # Idle /\ called'[q] = called[q] /\ request'[q] = request[q]
    BY <1>4, <1>8
  <2> QED BY <1>1, <2>1, Asked
<1>9. ASSUME NEW q \in Client, called'[q] # Idle, request[q].op = "renew",
             NEW g \in Holder, NEW s \in Resource, request[q].by = g, request[q].resource = s,
             NEW c \in Claims(g, s)', NEW ttl \in TTL
      PROVE  c.deadline <= called[q] + ttl
  <2>1. q # p /\ called[q] # Idle /\ request[q] # Idle
    BY <1>8, <1>9
  <2>2. waits[g] = q
    BY <1>9, <2>1 DEF ClaimsInv, Waiting
  <2>3. c \in Claims(g, s)
    BY <1>5, <2>1, <2>2
  <2> QED BY <1>9, <2>1, <2>3 DEF ClaimsInv, Renewing
<1>10. Waiting'
  BY <1>7 DEF Waiting
<1>11. Renewing'
  BY <1>8, <1>9 DEF Renewing
<1>12. GivingUp'
  BY <1>3, <1>8 DEF ClaimsInv, GivingUp
<1>13. BelievesKept'
  BY <1>3 DEF ClaimsInv, BelievesKept
<1> QED BY <1>6, <1>10, <1>11, <1>12, <1>13 DEF ProgramsGood

\* A new deadline is one time-to-live after an instant that is not ahead.
LEMMA SoonTurned ==
    ASSUME Steady, NEW d, NEW e, NEW r \in Resource, NEW now \in Nat, NEW n \in Nat,
           now <= n, Soon(d, n), Turned(d, e, r, now)
    PROVE  Soon(e, n)
<1> SUFFICES ASSUME NEW s \in Resource, NEW ttl \in TTL, e.leases[s] # NoLease
             PROVE  e.leases[s].deadline <= n + ttl
  BY DEF Soon
<1>1. CASE e.leases[s] = d.leases[s]
  BY <1>1 DEF Soon
<1>2. CASE s = r /\ \E t \in TTL : e.leases[r].deadline = now + t
  <2>1. e.leases[s].deadline = now + ttl
    BY <1>2 DEF Steady
  <2>2. ttl \in Nat
    BY TimeAssumption
  <2> QED BY <2>1, <2>2
<1> QED BY <1>1, <1>2 DEF Turned, OnlyAt

\* A lease that backs a claim is active at every instant that is not ahead.
LEMMA BackingIsActive ==
    ASSUME Driven, NEW h \in Holder, NEW r \in Resource, NEW c \in Claims(h, r),
           clock < c.deadline, BackedBy(db, h, r, c), NEW now \in Nat, now <= clock
    PROVE  Active(db.leases[r], now)
<1>1. db \in DB /\ clock \in Nat
  BY LockHere, TimeAssumption DEF Driven, SweepInv, BatchInv, StampsOK
<1>2. db.leases[r] # NoLease /\ c.deadline <= db.leases[r].deadline
  BY DEF BackedBy
<1>3. db.leases[r].deadline \in Nat /\ c.deadline \in Nat
  BY <1>1, <1>2, ClaimTypes DEF DB, Lease
<1> QED BY <1>1, <1>2, <1>3 DEF Active

\* A handler turns over a lease on which nobody relies, or renews it.
LEMMA ServedGood ==
    ASSUME ClaimsInv, NEW p \in Client, ServeRequest(p)
    PROVE  BackStep /\ Soon(db', clock)
<1> DEFINE r == request[p].resource
           h == request[p].by
           t == request[p].token
           now == called[p]
<1>a. /\ Driven /\ Steady /\ now # Idle /\ Soon(db, clock)
      /\ h \in Holder /\ r \in Resource /\ now \in Instant /\ now \in Nat /\ now <= clock
      /\ db \in DB /\ clock \in Nat
  BY Asked, TimeAssumption DEF ClaimsInv, AllSoon, ServeRequest, Driven, SweepInv, StampsOK
<1>b. ASSUME \A g \in Holder, s \in Resource : \A c \in Claims(g, s) :
                 c.token \notin givenUp[g] /\ Active(db.leases[s], now) /\ BackedBy(db, g, s, c) =>
                     BackedBy(db', g, s, c)
      PROVE  BackStep
  BY <1>a, <1>b, BackingIsActive DEF BackStep
<1>1. CASE HandleAcquire(p)
  <2>1. PICK ttl \in TTL : Acquire(r, h, now, ttl)
    BY <1>1 DEF HandleAcquire
  <2>2. Turned(db, db', r, now) /\ ~Active(db.leases[r], now)
    BY <1>a, <2>1, AcquireTurns
  <2>3. BackStep
    BY <1>b, <2>2 DEF Turned, OnlyAt, BackedBy
  <2> QED BY <1>a, <2>2, <2>3, SoonTurned
<1>2. CASE HandleRenew(p)
  <2>1. PICK ttl \in TTL : Renew(r, h, t, now, ttl)
    BY <1>2 DEF HandleRenew
  <2>2. /\ OnlyAt(db, db', r)
        /\ db.leases[r] # NoLease /\ db.leases[r].holder = h /\ db.leases[r].token = t
        /\ db'.leases[r] # NoLease /\ db'.leases[r].holder = h /\ db'.leases[r].token = t
        /\ db'.leases[r].deadline = now + ttl
    BY <1>a, <2>1, RenewKeeps
  <2>3. ASSUME NEW c \in Claims(h, r) PROVE c.deadline <= now + ttl
    BY <1>2, <1>a, <2>3 DEF HandleRenew, ClaimsInv, Renewing
  <2>4. BackStep
    BY <1>b, <2>2, <2>3 DEF OnlyAt, BackedBy
  <2> QED BY <1>a, <2>2, <2>4, SoonTurned DEF Turned
<1>3. CASE HandleRelease(p)
  <2>1. Release(r, h, t, now) /\ t \in givenUp[h]
    BY <1>3, <1>a DEF HandleRelease, ClaimsInv, GivingUp
  <2>2. Turned(db, db', r, now) /\ db.leases[r].holder = h /\ db.leases[r].token = t
    BY <1>a, <2>1, ReleaseTurns
  <2>3. BackStep
    BY <1>b, <2>1, <2>2 DEF Turned, OnlyAt, BackedBy
  <2> QED BY <1>a, <2>2, <2>3, SoonTurned
<1>4. CASE HandleTransfer(p)
  <2>1. PICK newHolder \in Holder : Transfer(r, h, t, newHolder, now)
    BY <1>4 DEF HandleTransfer
  <2>2. t \in givenUp[h]
    BY <1>4, <1>a DEF HandleTransfer, ClaimsInv, GivingUp
  <2>3. /\ OnlyAt(db, db', r) /\ db.leases[r] # NoLease
        /\ db.leases[r].holder = h /\ db.leases[r].token = t
        /\ db'.leases[r].deadline = db.leases[r].deadline
    BY <1>a, <2>1, TransferKeeps
  <2>4. BackStep
    BY <1>b, <2>2, <2>3 DEF OnlyAt, BackedBy
  <2>5. Soon(db', clock)
    BY <1>a, <2>3 DEF Soon, OnlyAt
  <2> QED BY <2>4, <2>5
<1>5. CASE HandleWait(p)
  <2>1. PICK ttl \in TTL : EnqueueWaiter(r, h, ttl, now)
    BY <1>5 DEF HandleWait
  <2>2. Turned(db, db', r, now) /\ (Active(db.leases[r], now) => db'.leases[r] = db.leases[r])
    BY <1>a, <2>1, EnqueueTurns
  <2>3. BackStep
    BY <1>b, <2>2 DEF Turned, OnlyAt, BackedBy
  <2> QED BY <1>a, <2>2, <2>3, SoonTurned
<1>6. CASE HandleInspect(p)
  <2>1. db' = db
    BY <1>6 DEF HandleInspect
  <2> QED BY <1>a, <2>1 DEF BackStep, BackedBy
<1> QED BY <1>1, <1>2, <1>3, <1>4, <1>5, <1>6 DEF ServeRequest

LEMMA ServeGood ==
    ASSUME ClaimsInv, NEW p \in Client, ServeRequest(p)
    PROVE  LeasesGood /\ ProgramsGood
<1>1. /\ called[p] # Idle /\ called' = [called EXCEPT ![p] = Idle] /\ clock' = clock
      /\ tx' = tx /\ givenUp' = givenUp /\ \E told : Answers(p, told)
  BY ServedByService DEF ServeRequest, ClaimsInv, Answers, AnswerWith
<1>2. ClaimStep /\ ProgramsGood
  BY <1>1, AnswerGood
<1>3. Onward /\ (tx # NoTx => Soon(tx.work, clock))
  BY <1>1, TimeAssumption DEF ClaimsInv, Driven, SweepInv, StampsOK, AllSoon, Onward
<1> QED BY <1>1, <1>2, <1>3, ServedGood DEF LeasesGood

LEMMA RefuseGood ==
    ASSUME ClaimsInv, NEW p \in Client, RefuseRequest(p)
    PROVE  LeasesGood /\ ProgramsGood
<1>1. /\ called[p] # Idle /\ called' = [called EXCEPT ![p] = Idle] /\ clock' = clock
      /\ tx' = tx /\ db' = db /\ givenUp' = givenUp /\ Answers(p, NoLease)
  BY DEF RefuseRequest, ServeUnchanged, Answers, AnswerWith
<1>2. ClaimStep /\ ProgramsGood
  BY <1>1, AnswerGood
<1>3. Onward /\ Soon(db, clock) /\ (tx # NoTx => Soon(tx.work, clock))
  BY <1>1, TimeAssumption DEF ClaimsInv, Driven, SweepInv, StampsOK, AllSoon, Onward
<1> QED BY <1>1, <1>2, <1>3 DEF LeasesGood, BackStep

-----------------------------------------------------------------------------
(* The sweep, and what happens while no program is involved *)

LEMMA ProgramsIdle ==
    ASSUME ClaimsInv, UNCHANGED clientVars, called' = called
    PROVE  ClaimsShrink /\ ProgramsGood
<1>1. UNCHANGED <<request, waits, believes, givenUp>>
  BY DEF clientVars
<1>2. ClaimsShrink
  BY <1>1 DEF ClaimsShrink, Claims
<1>3. BelievesKept' /\ Waiting' /\ GivingUp'
  BY <1>1 DEF ClaimsInv, BelievesKept, Waiting, GivingUp
<1>4. ASSUME NEW q \in Client, called[q] # Idle
      PROVE  request[q].by \in Holder /\ request[q].resource \in Resource
  BY <1>4, Asked DEF ClaimsInv
<1>5. Renewing'
  BY <1>1, <1>2, <1>4 DEF ClaimsInv, Renewing, ClaimsShrink
<1> QED BY <1>2, <1>3, <1>5 DEF ProgramsGood

LEMMA SoonLater ==
    ASSUME NEW d \in DB, NEW n \in Nat, NEW m \in Nat, n <= m, Soon(d, n)
    PROVE  Soon(d, m)
<1> SUFFICES ASSUME NEW r \in Resource, NEW ttl \in TTL, d.leases[r] # NoLease
             PROVE  d.leases[r].deadline <= m + ttl
  BY DEF Soon
<1>1. d.leases[r].deadline \in Nat /\ d.leases[r].deadline <= n + ttl /\ ttl \in Nat
  BY TimeAssumption DEF Soon, DB, Lease
<1> QED BY <1>1

LEMMA TickGood ==
    ASSUME ClaimsInv, Tick, UNCHANGED clientVars
    PROVE  LeasesGood /\ ProgramsGood
<1>1. /\ db' = db /\ tx' = tx /\ clock \in Nat /\ clock' \in Nat /\ clock <= clock'
      /\ called' = called /\ givenUp' = givenUp
  BY TimeAssumption DEF Tick, ClaimsInv, Driven, SweepInv, StampsOK, clientVars
<1>2. ClaimsShrink /\ ProgramsGood
  BY <1>1, ProgramsIdle
<1>3. db \in DB /\ (tx # NoTx => tx.work \in DB)
  BY LockHere, OpenTx DEF ClaimsInv, Driven, SweepInv, BatchInv, Open
<1>4. Soon(db, clock') /\ (tx # NoTx => Soon(tx.work, clock'))
  BY <1>1, <1>3, SoonLater DEF ClaimsInv, AllSoon
<1>5. ClaimStep /\ BackStep /\ Onward
  BY <1>1, <1>2 DEF ClaimsShrink, ClaimStep, BackStep, Onward
<1> QED BY <1>1, <1>2, <1>4, <1>5 DEF LeasesGood

\* The only transaction that may be open is the sweep of the restart.
LEMMA OnlySweeps ==
    ASSUME Driven, tx # NoTx
    PROVE  tx.op = "expire" /\ tx.now \in Nat /\ tx.now <= clock
BY DEF Driven, Quiet, TxNow, SweepInv, BootInv, StampsOK, Phase

\* What it commits is the database but for the leases that were dead to it.
LEMMA SweepBacks ==
    ASSUME ClaimsInv, tx # NoTx, Open, Committing
    PROVE  BackStep
<1>1. /\ Driven /\ db' = tx.work /\ tx.op = "expire" /\ tx.now \in Nat /\ tx.now <= clock
      /\ SweptSoFar /\ Untouched
  BY OnlySweeps DEF ClaimsInv, Committing, Driven, SweepInv, BatchInv, SoFar
<1>2. ASSUME NEW r \in Resource, Active(db.leases[r], tx.now)
      PROVE  db'.leases[r] = db.leases[r]
  BY <1>1, <1>2 DEF SweptSoFar, Untouched, Dead
<1> QED BY <1>1, <1>2, BackingIsActive DEF BackStep, BackedBy

LEMMA WorkGood ==
    ASSUME ClaimsInv, Work, UNCHANGED clientVars
    PROVE  LeasesGood /\ ProgramsGood
<1>1. /\ TxStep /\ clock' = clock /\ clock \in Nat /\ called' = called /\ givenUp' = givenUp
  BY TimeAssumption DEF Work, ClaimsInv, Driven, SweepInv, StampsOK, clientVars
<1>2. ClaimsShrink /\ ProgramsGood
  BY <1>1, ProgramsIdle
<1>3. ClaimStep /\ Onward
  BY <1>1, <1>2 DEF ClaimsShrink, ClaimStep, Onward
<1>4. Open /\ tx # NoTx
  BY <1>1, TxStepCases DEF ClaimsInv, Driven, SweepInv, BatchInv, Open
<1>5. /\ Steady /\ tx.op = "expire" /\ tx.now \in Nat /\ tx.now <= clock
      /\ Soon(db, clock) /\ Soon(tx.work, clock)
  BY <1>4, OnlySweeps DEF ClaimsInv, AllSoon
<1>6. CASE Committing
  <2>1. db' = tx.work /\ tx' = NoTx
    BY <1>6 DEF Committing
  <2> QED BY <1>1, <1>2, <1>3, <1>4, <1>5, <1>6, <2>1, SweepBacks DEF LeasesGood
<1>7. ASSUME NEW k \in DOMAIN tx.asked, Reaping(k) \/ Promoting(k)
      PROVE  db' = db /\ Soon(tx'.work, clock)
  <2> DEFINE r == tx.asked[k]
  <2>1. r \in Resource /\ tx.work \in DB /\ tx.now \in Instant
    BY <1>4 DEF Open
  <2>2. CASE Reaping(k)
    <3>1. db' = db /\ tx'.work = EndLease(tx.work, r, "expire")
      BY <2>2 DEF Reaping, Iterated
    <3>2. Turned(tx.work, EndLease(tx.work, r, "expire"), r, tx.now)
      BY <2>1, EndFields DEF Turned
    <3> QED BY <1>1, <1>5, <2>1, <3>1, <3>2, SoonTurned
  <2>3. CASE Promoting(k)
    <3>1. db' = db /\ tx'.work = PromoteWaiterFor(tx.work, r, tx.now)
      BY <2>3 DEF Promoting, Iterated
    <3>2. Turned(tx.work, PromoteWaiterFor(tx.work, r, tx.now), r, tx.now)
      BY <2>1, PromoteTurned
    <3> QED BY <1>1, <1>5, <2>1, <3>1, <3>2, SoonTurned
  <2> QED BY <1>7, <2>2, <2>3
<1>8. ASSUME NEW k \in DOMAIN tx.asked PROVE ~Acquiring(k) /\ ~Releasing(k)
  BY <1>5 DEF Acquiring, Releasing
<1>9. CASE \E k \in DOMAIN tx.asked : Reaping(k) \/ Promoting(k)
  <2>1. db' = db /\ Soon(tx'.work, clock)
    BY <1>7, <1>9
  <2>2. BackStep
    BY <2>1 DEF BackStep
  <2> QED BY <1>1, <1>2, <1>3, <1>5, <2>1, <2>2 DEF LeasesGood
<1> QED BY <1>1, <1>6, <1>8, <1>9, TxStepCases DEF ClaimsInv, Driven, SweepInv, BatchInv

LEMMA RestGood ==
    ASSUME ClaimsInv, CommitFails \/ Boot \/ Recover \/ Listen, UNCHANGED clientVars
    PROVE  LeasesGood /\ ProgramsGood
<1>1. called' = called /\ clock' = clock /\ givenUp' = givenUp
  BY DEF CommitFails, Boot, Recover, Listen, clientVars
<1>2. ClaimsShrink /\ ProgramsGood
  BY <1>1, ProgramsIdle
<1>3. CASE CommitFails \/ Boot \/ Listen
  <2>1. db' = db /\ (tx' = tx \/ tx' = NoTx)
    BY <1>3 DEF CommitFails, Crash, Boot, Listen
  <2> QED BY <1>1, <1>2, <2>1, StoreAlone
<1>4. CASE Recover
  <2>1. bootAt \in Instant /\ clock \in Nat /\ ExpireAll(bootAt)
    BY <1>4, TimeAssumption DEF Recover, ClaimsInv, Driven, SweepInv, StampsOK
  <2>2. db' = db /\ tx'.work = db
    BY <2>1, BulkBegins
  <2>3. ClaimStep /\ BackStep /\ Onward
    BY <1>1, <1>2, <2>1, <2>2 DEF ClaimsShrink, ClaimStep, BackStep, Onward
  <2> QED BY <1>1, <1>2, <2>2, <2>3 DEF LeasesGood, ClaimsInv, AllSoon
<1> QED BY <1>3, <1>4

-----------------------------------------------------------------------------
(* The claims stay backed *)

LEMMA EveryStepGood ==
    ASSUME ClaimsInv, [ClientsNext]_clientsVars
    PROVE  LeasesGood /\ ProgramsGood
<1> DEFINE Goal == LeasesGood /\ ProgramsGood
<1>a. /\ \A h \in Holder : waits[h] # Idle => waits[h] \in Client
      /\ BelievesKept
  BY DEF ClaimsInv, Driven, Shapes
<1>1. ASSUME NEW h \in Holder, NEW p \in Client, NEW op \in Operation, NEW r \in Resource,
             NEW t, Ask(h, p, op, r, t), UNCHANGED <<believes, givenUp>>,
             op \in {"release", "transfer"} => t \in givenUp[h]
      PROVE  Goal
  <2>1. BelievesKept'
    BY <1>a, <1>1 DEF BelievesKept
  <2>2. LeasesGood /\ Waiting' /\ Renewing' /\ GivingUp'
    BY <1>1, AskGood
  <2> QED BY <2>1, <2>2 DEF ProgramsGood
<1>2. ASSUME NEW h \in Holder, NEW p \in Client, NEW r \in Resource, AskFor(h, p, r) PROVE Goal
  <2>1. PICK op \in {"acquire", "wait", "inspect"} : Ask(h, p, op, r, 0)
    BY <1>2 DEF AskFor
  <2> QED BY <1>1, <1>2, <2>1 DEF AskFor, Operation
<1>3. ASSUME NEW h \in Holder, NEW p \in Client, NEW r \in Resource, AskRenewal(h, p, r)
      PROVE  Goal
  <2>1. Ask(h, p, "renew", r, believes[h][r].token)
    BY <1>3 DEF AskRenewal
  <2> QED BY <1>1, <1>3, <2>1 DEF AskRenewal, Operation
<1>4. ASSUME NEW h \in Holder, NEW p \in Client, NEW r \in Resource, AskAgain(h, p, r)
      PROVE  Goal
  <2>1. PICK op \in {"release", "transfer"}, t \in givenUp[h] : Ask(h, p, op, r, t)
    BY <1>4 DEF AskAgain
  <2> QED BY <1>1, <1>4, <2>1 DEF AskAgain, Operation
<1>5. ASSUME NEW h \in Holder, LoseAnswer(h) PROVE Goal
  <2>1. \A g \in Holder, s \in Resource :
           believes[g][s] # NoLease =>
               believes[g][s] \in Claims(g, s) /\ believes[g][s].token \notin givenUp[g]
    BY <1>a DEF BelievesKept, Claims
  <2>2. \A g \in Holder, s \in Resource :
           believes'[g][s] # NoLease =>
               believes'[g][s] \in Claims(g, s) /\ believes'[g][s].token \notin givenUp[g]
    BY <1>5, <2>1 DEF LoseAnswer
  <2> QED BY <1>5, <2>2, AnswerTaken DEF LoseAnswer
<1>6. CASE UNCHANGED clientsVars
  <2>1. UNCHANGED clientVars /\ called' = called /\ db' = db /\ tx' = tx /\ clock' = clock
        /\ givenUp' = givenUp
    BY <1>6 DEF clientsVars, svcVars, clientVars
  <2>2. ClaimsShrink /\ ProgramsGood
    BY <2>1, ProgramsIdle
  <2> QED BY <2>1, <2>2, StoreAlone
<1> QED BY <1>2, <1>3, <1>4, <1>5, <1>6, GiveUpGood, HearGood, StopGood, DieGood, ServeGood,
           RefuseGood, TickGood, WorkGood, RestGood DEF ClientsNext

LEMMA ClaimsInvInit ==
    ASSUME Steady, ClientsInit
    PROVE  ClaimsInv
<1>1. /\ Driven /\ db = EmptyDB /\ tx = NoTx /\ request = [p \in Client |-> Idle]
      /\ called = [p \in Client |-> Idle] /\ waits = [h \in Holder |-> Idle]
      /\ believes = [h \in Holder |-> [r \in Resource |-> NoLease]]
  BY DrivenInit DEF ClientsInit, SvcInit, Init
<1>2. \A r \in Resource : db.leases[r] = NoLease
  BY <1>1 DEF EmptyDB
<1>3. \A h \in Holder, r \in Resource : Claims(h, r) = {}
  BY <1>1, IdleAssumption DEF Claims
<1>4. Distinct(db) /\ AllSoon
  BY <1>1, <1>2, <1>3 DEF Distinct, AllSoon, Soon, ClaimsSoon
<1>5. ClaimsBacked /\ ClaimTokens /\ ClaimsApart
  BY <1>3 DEF ClaimsBacked, ClaimTokens, ClaimsApart
<1>6. BelievesKept /\ Waiting /\ Renewing /\ GivingUp
  BY <1>1 DEF BelievesKept, Waiting, Renewing, GivingUp
<1> QED BY <1>1, <1>4, <1>5, <1>6 DEF ClaimsInv

LEMMA ClaimsInvStep ==
    ASSUME ClaimsInv, [ClientsNext]_clientsVars
    PROVE  ClaimsInv'
<1>1. Driven /\ Driven' /\ LeasesGood /\ ProgramsGood
  BY DrivenInvStep, EveryStepGood DEF ClaimsInv
<1>2. [Next]_vars /\ LockInv
  BY DrivenStep, StepImplements DEF ClaimsInv, Driven, SweepInv, BatchInv
<1>3. Distinct(db')
  BY <1>2, DistinctStep DEF ClaimsInv
<1>4. Newer(db, db')
  BY <1>2, InvStep DEF LockInv
<1>5. db' \in DB /\ Issued(db)'
  BY <1>1 DEF Driven, SweepInv, BatchInv, LockInv, Inv, TypeInv, TypeOK
<1>6. Issued(db')
  BY <1>5 DEF Issued
<1>7. ClaimsBacked'
  BY <1>1, <1>5, BackedOn DEF LeasesGood
<1>8. ClaimTokens' /\ ClaimsApart'
  BY <1>1, <1>3, <1>4, <1>5, <1>6, TokensOn DEF LeasesGood
<1>9. AllSoon'
  <2>1. ClaimsSoon'
    BY <1>1, SoonOn DEF LeasesGood
  <2>2. Soon(db, clock)' /\ (tx' # NoTx => Soon(tx.work, clock)')
    BY <1>1 DEF LeasesGood, Soon
  <2> QED BY <2>1, <2>2 DEF AllSoon
<1>10. Distinct(db)'
  BY <1>3 DEF Distinct
<1> QED BY <1>1, <1>7, <1>8, <1>9, <1>10 DEF ClaimsInv, ProgramsGood, Steady

LEMMA ClaimsAreBacked ==
    ASSUME ClaimsInv
    PROVE  BelieverHolds
<1>1. SUFFICES ASSUME NEW h \in Holder, NEW r \in Resource, Believes(h, r)
               PROVE  BackedBy(db, h, r, believes[h][r])
  BY DEF BelieverHolds, BackedBy
<1>2. believes[h][r] \in Claims(h, r) /\ believes[h][r].token \notin givenUp[h]
  BY <1>1 DEF Believes, Claims, ClaimsInv, BelievesKept
<1> QED BY <1>1, <1>2 DEF Believes, ClaimsInv, ClaimsBacked

\* A program that may believe it holds a resource does hold it, under the token
\* and until the deadline it was told.  The hypothesis is about the programs:
\* each waits for the answer to a renewal, and all ask for the same
\* time-to-live.  Without it the property is false of the code.
THEOREM BelieversHold == Steady => (ClientsSpec => []BelieverHolds)
<1>1. Steady /\ ClientsInit => ClaimsInv
  BY ClaimsInvInit
<1>2. ClaimsInv /\ [ClientsNext]_clientsVars => ClaimsInv'
  BY ClaimsInvStep
<1>3. ClaimsInv => BelieverHolds
  BY ClaimsAreBacked
<1> QED BY <1>1, <1>2, <1>3, PTL DEF ClientsSpec

\* So no two programs ever act on one resource at the same time.
THEOREM HoldsAreExclusive == Steady => (ClientsSpec => []HoldIsExclusive)
<1>1. BelieverHolds => HoldIsExclusive
  BY DEF BelieverHolds, HoldIsExclusive
<1> QED BY <1>1, BelieversHold, PTL
=============================================================================
