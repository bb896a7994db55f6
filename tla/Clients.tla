------------------------------- MODULE Clients -------------------------------
(***************************************************************************)
(* The running service and the programs that hold its leases, one for each *)
(* holder.  A program knows only what it is answered, and only believes    *)
(* that it holds a resource until the deadline it was told.  An answer may *)
(* be late or lost, a program may stop waiting for it and ask again, and   *)
(* the process may die: a request that nobody waits for is served all the  *)
(* same, for no handler looks at the context of its request.               *)
(*                                                                         *)
(* The programs are not part of the service; they are taken to be careful. *)
(* One asks for one thing at a time, stops believing when it sends a       *)
(* release or a transfer, and does not believe in that token again.  One   *)
(* that was not answered, or was promoted in the queue, asks GET /leases   *)
(* what it holds.  All their requests ask for the same time-to-live.  They *)
(* do not sweep, batch or cancel: LeaseService has those calls.            *)
(***************************************************************************)
EXTENDS LeaseService

CONSTANT
    Abandonable   \* the operations a program may stop waiting for

VARIABLES
    request,    \* what was asked in each slot, and what it was answered
    waits,      \* the slot whose answer each program waits for, or Idle
    believes,   \* the lease on each resource that each program believes in
    givenUp     \* the tokens each program has asked to release or transfer

clientsVars == <<svcVars, request, waits, believes, givenUp>>
clientVars == <<request, waits, believes, givenUp>>

Operation == {"acquire", "renew", "release", "transfer", "wait", "inspect"}

Belief == [token: Token, deadline: Nat]

Request == [op: Operation, by: Holder, resource: Resource, token: Nat,
            served: BOOLEAN, told: Belief \cup {NoLease}]

ASSUME RequestAssumption == Idle \notin Request

ClientsTypeOK ==
    /\ SvcTypeOK
    /\ request \in [Client -> Request \cup {Idle}]
    /\ waits \in [Holder -> Client \cup {Idle}]
    /\ believes \in [Holder -> [Resource -> Belief \cup {NoLease}]]
    /\ givenUp \in [Holder -> SUBSET Token]
    /\ \A p \in Client : called[p] # Idle => request[p] # Idle /\ ~request[p].served

ClientsInit ==
    /\ SvcInit
    /\ request = [p \in Client |-> Idle]
    /\ waits = [h \in Holder |-> Idle]
    /\ believes = [h \in Holder |-> [r \in Resource |-> NoLease]]
    /\ givenUp = [h \in Holder |-> {}]

-----------------------------------------------------------------------------
(* The programs *)

\* A request reaches its handler, which reads the clock.  On its way it has no
\* effect, so a slow network is a late Ask.
Ask(h, p, op, r, t) ==
    /\ waits[h] = Idle /\ request[p] = Idle
    /\ ReadClock(p)
    /\ waits' = [waits EXCEPT ![h] = p]
    /\ request' = [request EXCEPT ![p] =
           [op |-> op, by |-> h, resource |-> r, token |-> t,
            served |-> FALSE, told |-> NoLease]]

AskFor(h, p, r) ==
    /\ \E op \in {"acquire", "wait", "inspect"} : Ask(h, p, op, r, 0)
    /\ UNCHANGED <<believes, givenUp>>

AskRenewal(h, p, r) ==
    /\ believes[h][r] # NoLease
    /\ Ask(h, p, "renew", r, believes[h][r].token)
    /\ UNCHANGED <<believes, givenUp>>

\* The program stops working on r before it sends the request.
AskToGiveUp(h, p, r) ==
    /\ believes[h][r] # NoLease
    /\ \E op \in {"release", "transfer"} : Ask(h, p, op, r, believes[h][r].token)
    /\ givenUp' = [givenUp EXCEPT ![h] = @ \cup {believes[h][r].token}]
    /\ believes' = [believes EXCEPT ![h] = [believes[h] EXCEPT ![r] = NoLease]]

\* It asks for the same again, not knowing what became of its request.
AskAgain(h, p, r) ==
    /\ \E op \in {"release", "transfer"}, t \in givenUp[h] : Ask(h, p, op, r, t)
    /\ UNCHANGED <<believes, givenUp>>

\* It is told a lease, and believes it unless it has given that token up.
Hear(h) ==
    /\ waits[h] # Idle
    /\ LET asked == request[waits[h]] IN
       /\ asked.served
       /\ believes' =
            IF asked.told # NoLease /\ asked.told.token \notin givenUp[h]
            THEN [believes EXCEPT ![h] = [believes[h] EXCEPT ![asked.resource] = asked.told]]
            ELSE believes
    /\ request' = [request EXCEPT ![waits[h]] = Idle]
    /\ waits' = [waits EXCEPT ![h] = Idle]
    /\ UNCHANGED <<svcVars, givenUp>>

\* The answer is lost on its way.
LoseAnswer(h) ==
    /\ waits[h] # Idle
    /\ request[waits[h]].served
    /\ request' = [request EXCEPT ![waits[h]] = Idle]
    /\ waits' = [waits EXCEPT ![h] = Idle]
    /\ UNCHANGED <<svcVars, believes, givenUp>>

\* The program stops waiting for a request that is still to be served.
StopWaiting(h) ==
    /\ waits[h] # Idle
    /\ ~request[waits[h]].served
    /\ request[waits[h]].op \in Abandonable
    /\ waits' = [waits EXCEPT ![h] = Idle]
    /\ UNCHANGED <<svcVars, request, believes, givenUp>>

-----------------------------------------------------------------------------
(* The service *)

\* The request in slot p is answered; an answer for nobody is dropped.
AnswerWith(p, told) ==
    /\ request' = [request EXCEPT ![p] =
           IF waits[request[p].by] = p
           THEN [request[p] EXCEPT !.served = TRUE, !.told = told]
           ELSE Idle]
    /\ UNCHANGED <<waits, believes, givenUp>>

\* What leaseResp and renewResp say of a lease.
AsTold(lease) == [token |-> lease.token, deadline |-> lease.deadline]

HandleAcquire(p) ==
    LET asked == request[p] IN
    /\ asked.op = "acquire"
    /\ \E ttl \in TTL : Acquire(asked.resource, asked.by, called[p], ttl)
    /\ AnswerWith(p, AsTold(db'.leases[asked.resource]))

HandleRenew(p) ==
    LET asked == request[p] IN
    /\ asked.op = "renew"
    /\ \E ttl \in TTL : Renew(asked.resource, asked.by, asked.token, called[p], ttl)
    /\ AnswerWith(p, AsTold(db'.leases[asked.resource]))

HandleRelease(p) ==
    LET asked == request[p] IN
    /\ asked.op = "release"
    /\ Release(asked.resource, asked.by, asked.token, called[p])
    /\ AnswerWith(p, NoLease)

\* The answer tells the lease of the new holder, which its caller has no use for.
HandleTransfer(p) ==
    LET asked == request[p] IN
    /\ asked.op = "transfer"
    /\ \E newHolder \in Holder : Transfer(asked.resource, asked.by, asked.token, newHolder, called[p])
    /\ AnswerWith(p, NoLease)

\* The answer to a wait has no deadline, not even when it was granted at once.
HandleWait(p) ==
    LET asked == request[p] IN
    /\ asked.op = "wait"
    /\ \E ttl \in TTL : EnqueueWaiter(asked.resource, asked.by, ttl, called[p])
    /\ AnswerWith(p, NoLease)

\* GET /leases?resource=r reads the committed database, under no lock.  Only
\* the holder's own active lease means anything to it.
HandleInspect(p) ==
    LET asked == request[p]
        lease == db.leases[asked.resource] IN
    /\ asked.op = "inspect"
    /\ UNCHANGED <<db, tx>>
    /\ AnswerWith(p, IF Active(lease, called[p]) /\ lease.holder = asked.by
                     THEN AsTold(lease) ELSE NoLease)

ServeRequest(p) ==
    /\ phase = "serving"
    /\ called[p] # Idle
    /\ \/ HandleAcquire(p) \/ HandleRenew(p) \/ HandleRelease(p) \/ HandleTransfer(p)
       \/ HandleWait(p) \/ HandleInspect(p)
    /\ called' = [called EXCEPT ![p] = Idle]
    /\ UNCHANGED <<clock, phase, bootAt>>

RefuseRequest(p) ==
    /\ ServeUnchanged(p)
    /\ request[p].op # "inspect"
    /\ AnswerWith(p, NoLease)

\* The process dies: the connections break and the programs see an error.
DieOnClients ==
    /\ Die
    /\ request' = [p \in Client |-> Idle]
    /\ waits' = [h \in Holder |-> Idle]
    /\ UNCHANGED <<believes, givenUp>>

ClientsNext ==
    \/ \E h \in Holder :
          \/ \E p \in Client, r \in Resource :
                AskFor(h, p, r) \/ AskRenewal(h, p, r) \/ AskToGiveUp(h, p, r)
                \/ AskAgain(h, p, r)
          \/ Hear(h) \/ LoseAnswer(h) \/ StopWaiting(h)
    \/ \E p \in Client : ServeRequest(p) \/ RefuseRequest(p)
    \/ DieOnClients
    \/ /\ Tick \/ Work \/ CommitFails \/ Boot \/ Recover \/ Listen
       /\ UNCHANGED clientVars

ClientsSpec == ClientsInit /\ [][ClientsNext]_clientsVars

-----------------------------------------------------------------------------
(* Properties *)

Believes(h, r) == believes[h][r] # NoLease /\ clock < believes[h][r].deadline

\* A program that may believe it holds a resource does hold it, under the token
\* it was told, at least until the deadline it was told: whatever answers were
\* late or lost, whatever was asked twice, and whoever took over after a death
\* of the process.  So no two programs ever believe they hold one resource.
BelieverHolds ==
    \A h \in Holder, r \in Resource :
        Believes(h, r) =>
            /\ db.leases[r] # NoLease
            /\ db.leases[r].holder = h
            /\ db.leases[r].token = believes[h][r].token
            /\ believes[h][r].deadline <= db.leases[r].deadline

-----------------------------------------------------------------------------
(* A property the documentation states and the code does not have *)

\* types.go: a lease is "an exclusive, time-bounded hold on a resource".
HoldIsExclusive ==
    \A r \in Resource, g, h \in Holder : Believes(g, r) /\ Believes(h, r) => g = h
=============================================================================
