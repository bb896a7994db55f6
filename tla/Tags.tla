-------------------------------- MODULE Tags --------------------------------
(***************************************************************************)
(* Resource tags (internal/store/tag.go) under concurrent handlers.  A tag *)
(* is kept twice: in the list of the resource's tags and in the inverse    *)
(* index, the list of the tag's resources.  AddTag and RemoveTag write one *)
(* bucket and then the other in one db.Update; an error in between, or the *)
(* end of the process, loses the open transaction.  The handlers read the  *)
(* tags back in a second transaction to answer.                            *)
(*                                                                         *)
(* The lists are kept sorted, so a list is how often each name is in it.   *)
(***************************************************************************)
EXTENDS Naturals

CONSTANTS
    Resource,   \* resource names
    Tag,        \* tag names
    Client,     \* the requests that may be in flight at once
    Idle,       \* the client has no request in flight
    NoTx        \* the client has no open transaction

Buckets == [tags: [Resource -> [Tag -> Nat]], index: [Tag -> [Resource -> Nat]]]

Request == [op: {"add", "remove"}, resource: Resource, tag: Tag,
            stage: {"called", "tagged", "indexed", "committed"}]

ASSUME NoneAssumption == Idle \notin Request /\ NoTx \notin Buckets

VARIABLES
    db,        \* the committed buckets
    work,      \* the copy each client's open transaction works on
    request    \* the request of each client

vars == <<db, work, request>>

Init ==
    /\ db = [tags |-> [r \in Resource |-> [t \in Tag |-> 0]],
             index |-> [t \in Tag |-> [r \in Resource |-> 0]]]
    /\ work = [p \in Client |-> NoTx]
    /\ request = [p \in Client |-> Idle]

-----------------------------------------------------------------------------
\* A name that is missing is appended.
AppendMissing(list, name) == IF list[name] = 0 THEN [list EXCEPT ![name] = 1] ELSE list

\* The first occurrence of a name is cut out.
CutFirst(list, name) ==
    IF list[name] > 0 THEN [list EXCEPT ![name] = list[name] - 1] ELSE list

Edit(op, list, name) == IF op = "add" THEN AppendMissing(list, name) ELSE CutFirst(list, name)

\* Mutant: what an Update read is as old as the transaction that overlaps it.
LockIgnored == TRUE

\* bbolt admits one writer.
WriteLockFree == \A q \in Client : work[q] = NoTx

At(p, stage) == request[p] # Idle /\ request[p].stage = stage

GoTo(p, stage) == request' = [request EXCEPT ![p] = [request[p] EXCEPT !.stage = stage]]

\* A handler is called and has decoded its request.
Call(p, op, r, t) ==
    /\ request[p] = Idle
    /\ request' = [request EXCEPT ![p] =
           [op |-> op, resource |-> r, tag |-> t, stage |-> "called"]]
    /\ UNCHANGED <<db, work>>

\* The transaction begins, and the resource's list is read and written.
PutTags(p) ==
    /\ At(p, "called") /\ WriteLockFree
    /\ LET q == request[p] IN
       /\ q.op = "remove" => db.tags[q.resource][q.tag] > 0
       /\ work' = [work EXCEPT ![p] =
              [db EXCEPT !.tags = [db.tags EXCEPT ![q.resource] =
                  Edit(q.op, db.tags[q.resource], q.tag)]]]
    /\ GoTo(p, "tagged")
    /\ UNCHANGED db

\* ErrTagNotFound: the resource does not carry the tag.
RefuseRemove(p) ==
    /\ At(p, "called") /\ WriteLockFree
    /\ request[p].op = "remove"
    /\ db.tags[request[p].resource][request[p].tag] = 0
    /\ request' = [request EXCEPT ![p] = Idle]
    /\ UNCHANGED <<db, work>>

\* The tag's list is read and written.
PutTagIndex(p) ==
    /\ At(p, "tagged")
    /\ LET q == request[p] IN
       work' = [work EXCEPT ![p] =
           [work[p] EXCEPT !.index = [work[p].index EXCEPT ![q.tag] =
               Edit(q.op, work[p].index[q.tag], q.resource)]]]
    /\ GoTo(p, "indexed")
    /\ UNCHANGED db

\* Mutant: each bucket is written in a transaction of its own.
CommitEachBucket(p) ==
    /\ At(p, "tagged") \/ At(p, "indexed")
    /\ db' = work[p]
    /\ IF At(p, "tagged") THEN UNCHANGED <<work, request>>
       ELSE /\ work' = [work EXCEPT ![p] = NoTx]
            /\ GoTo(p, "committed")

Commit(p) ==
    /\ At(p, "indexed")
    /\ db' = work[p]
    /\ work' = [work EXCEPT ![p] = NoTx]
    /\ GoTo(p, "committed")

\* Mutant: the error is answered and the transaction left open.
FailWithoutRollback(p) ==
    /\ work[p] # NoTx
    /\ request' = [request EXCEPT ![p] = Idle]
    /\ UNCHANGED <<db, work>>

\* A bucket cannot be read or written, or the commit fails.
Fail(p) ==
    /\ work[p] # NoTx
    /\ work' = [work EXCEPT ![p] = NoTx]
    /\ request' = [request EXCEPT ![p] = Idle]
    /\ UNCHANGED db

\* The tags of the resource are read again and the request is answered.
Answer(p) ==
    /\ At(p, "committed")
    /\ request' = [request EXCEPT ![p] = Idle]
    /\ UNCHANGED <<db, work>>

\* The process is killed and started again.
Restart ==
    /\ work' = [p \in Client |-> NoTx]
    /\ request' = [p \in Client |-> Idle]
    /\ UNCHANGED db

Next ==
    \/ \E p \in Client :
          \/ \E op \in {"add", "remove"}, r \in Resource, t \in Tag : Call(p, op, r, t)
          \/ PutTags(p) \/ RefuseRemove(p) \/ PutTagIndex(p) \/ Commit(p)
          \/ Fail(p) \/ Answer(p)
    \/ Restart

Spec == Init /\ [][Next]_vars

-----------------------------------------------------------------------------
(* What the readers answer *)

GetTags(r) == {t \in Tag : db.tags[r][t] > 0}

\* ListResources of one tag, and with the empty tag.
ResourcesWith(t) == {r \in Resource : db.index[t][r] > 0}
TaggedResources == UNION {ResourcesWith(t) : t \in Tag}

-----------------------------------------------------------------------------
(* Properties *)

\* Shapes, and a transaction is open exactly while its handler is inside it.
TypeOK ==
    /\ db \in Buckets
    /\ work \in [Client -> Buckets \cup {NoTx}]
    /\ request \in [Client -> Request \cup {Idle}]
    /\ \A p \in Client : work[p] # NoTx <=> At(p, "tagged") \/ At(p, "indexed")

\* The two buckets mirror each other and no list holds a name twice, whatever
\* failed between the two writes: a listing by tag finds exactly the resources
\* that carry the tag, the listing without a tag those that carry any.
TagsMirrorIndex ==
    /\ \A r \in Resource, t \in Tag :
          db.tags[r][t] <= 1 /\ db.tags[r][t] = db.index[t][r]
    /\ TaggedResources = {r \in Resource : GetTags(r) # {}}

\* No update is lost: a tag appears only by an add of it and disappears only
\* by a removal of it, however many requests about its resource overlap.
TagsChangeOnRequest ==
    [][\A r \in Resource, t \in Tag :
          db'.tags[r][t] # db.tags[r][t] =>
              \E p \in Client :
                  /\ At(p, "indexed")
                  /\ request[p].resource = r /\ request[p].tag = t
                  /\ request[p].op = IF db'.tags[r][t] = 1 THEN "add" ELSE "remove"]_vars
=============================================================================
