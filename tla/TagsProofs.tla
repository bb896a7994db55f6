----------------------------- MODULE TagsProofs -----------------------------
(***************************************************************************)
(* Proofs about Tags, for any resources, tags and clients.  The buckets    *)
(* mirror each other because one transaction at a time is open, it works   *)
(* on the committed buckets of the moment, and both edits concern the same *)
(* resource and tag.                                                       *)
(***************************************************************************)
EXTENDS Tags, TLAPS

Mirrored(d) == \A r \in Resource, t \in Tag :
                   d.tags[r][t] <= 1 /\ d.tags[r][t] = d.index[t][r]

OneWriter == \A p, q \in Client : work[p] # NoTx /\ work[q] # NoTx => p = q

\* The copy is the committed buckets with the edits made so far.
Copy(p) ==
    LET q == request[p] IN
    /\ work[p].tags = [db.tags EXCEPT ![q.resource] = Edit(q.op, db.tags[q.resource], q.tag)]
    /\ work[p].index = IF q.stage = "tagged" THEN db.index
                       ELSE [db.index EXCEPT ![q.tag] = Edit(q.op, db.index[q.tag], q.resource)]

Inv ==
    /\ TypeOK
    /\ Mirrored(db)
    /\ OneWriter
    /\ \A p \in Client : work[p] # NoTx => Copy(p)

-----------------------------------------------------------------------------
\* An edit of a list gives a list.
LEMMA EditType ==
    ASSUME NEW S, NEW list \in [S -> Nat], NEW name \in S, NEW op
    PROVE  Edit(op, list, name) \in [S -> Nat]
<1>1. list[name] \in Nat /\ (list[name] > 0 => list[name] - 1 \in Nat)
  OBVIOUS
<1> QED BY <1>1 DEF Edit, AppendMissing, CutFirst

\* What an edit does to the count of each name of a list without repetitions.
LEMMA EditCount ==
    ASSUME NEW S, NEW list \in [S -> Nat], NEW name \in S, NEW op, NEW s \in S,
           \A n \in S : list[n] <= 1
    PROVE  Edit(op, list, name)[s] =
               IF s # name THEN list[s] ELSE IF op = "add" THEN 1 ELSE 0
<1>1. list[name] = 0 \/ list[name] = 1
  OBVIOUS
<1> QED BY <1>1 DEF Edit, AppendMissing, CutFirst

\* Both edits of a request made, the buckets mirror each other again.
LEMMA EditsMirror ==
    ASSUME NEW d \in Buckets, NEW e \in Buckets, Mirrored(d),
           NEW op, NEW r \in Resource, NEW t \in Tag,
           e.tags = [d.tags EXCEPT ![r] = Edit(op, d.tags[r], t)],
           e.index = [d.index EXCEPT ![t] = Edit(op, d.index[t], r)]
    PROVE  Mirrored(e)
<1> SUFFICES ASSUME NEW rr \in Resource, NEW tt \in Tag
             PROVE  e.tags[rr][tt] <= 1 /\ e.tags[rr][tt] = e.index[tt][rr]
  BY DEF Mirrored
<1>1. d.tags[r] \in [Tag -> Nat] /\ d.index[t] \in [Resource -> Nat]
  BY DEF Buckets
<1>2. \A n \in Tag : d.tags[r][n] <= 1
  BY DEF Mirrored
<1>3. \A n \in Resource : d.index[t][n] <= 1
  BY DEF Mirrored
<1>4. e.tags[rr][tt] =
          IF rr # r \/ tt # t THEN d.tags[rr][tt] ELSE IF op = "add" THEN 1 ELSE 0
  <2>1. e.tags[rr] = IF rr = r THEN Edit(op, d.tags[r], t) ELSE d.tags[rr]
    BY DEF Buckets
  <2>2. Edit(op, d.tags[r], t)[tt] =
            IF tt # t THEN d.tags[r][tt] ELSE IF op = "add" THEN 1 ELSE 0
    BY <1>1, <1>2, EditCount
  <2> QED BY <2>1, <2>2
<1>5. e.index[tt][rr] =
          IF rr # r \/ tt # t THEN d.index[tt][rr] ELSE IF op = "add" THEN 1 ELSE 0
  <2>1. e.index[tt] = IF tt = t THEN Edit(op, d.index[t], r) ELSE d.index[tt]
    BY DEF Buckets
  <2>2. Edit(op, d.index[t], r)[rr] =
            IF rr # r THEN d.index[t][rr] ELSE IF op = "add" THEN 1 ELSE 0
    BY <1>1, <1>3, EditCount
  <2> QED BY <2>1, <2>2
<1>6. d.tags[rr][tt] <= 1 /\ d.tags[rr][tt] = d.index[tt][rr]
  BY DEF Mirrored
<1> QED BY <1>4, <1>5, <1>6

-----------------------------------------------------------------------------
LEMMA InitInv == Init => Inv
<1> SUFFICES ASSUME Init PROVE Inv
  OBVIOUS
<1>1. TypeOK
  BY DEF Init, TypeOK, Buckets, At
<1>2. Mirrored(db)
  BY DEF Init, Mirrored
<1> QED BY <1>1, <1>2 DEF Init, Inv, OneWriter

\* A handler that has a request has one of the right shape, with its buckets.
LEMMA RequestType ==
    ASSUME TypeOK, NEW p \in Client, request[p] # Idle
    PROVE  /\ request[p] \in Request
           /\ db.tags[request[p].resource] \in [Tag -> Nat]
           /\ db.index[request[p].tag] \in [Resource -> Nat]
BY DEF TypeOK, Request, Buckets

LEMMA PutTagsInv == ASSUME Inv, NEW p \in Client, PutTags(p) PROVE Inv'
<1> DEFINE q == request[p]
           e == [db EXCEPT !.tags = [db.tags EXCEPT ![q.resource] =
                     Edit(q.op, db.tags[q.resource], q.tag)]]
<1>1. /\ q \in Request /\ q.resource \in Resource /\ q.tag \in Tag
      /\ db.tags[q.resource] \in [Tag -> Nat]
  BY RequestType DEF Inv, PutTags, At, Request
<1>2. e \in Buckets
  <2>1. Edit(q.op, db.tags[q.resource], q.tag) \in [Tag -> Nat]
    BY <1>1, EditType
  <2>2. db \in Buckets
    BY DEF Inv, TypeOK
  <2> QED BY <2>1, <2>2, <1>1 DEF Buckets
<1>3. e # NoTx
  BY <1>2, NoneAssumption
<1>4. /\ work' = [work EXCEPT ![p] = e]
      /\ request' = [request EXCEPT ![p] = [q EXCEPT !.stage = "tagged"]]
      /\ db' = db
      /\ \A s \in Client : work[s] = NoTx
  BY DEF PutTags, GoTo, WriteLockFree
<1>5. [q EXCEPT !.stage = "tagged"] \in Request
  BY <1>1 DEF Request
<1>6. [q EXCEPT !.stage = "tagged"] # Idle
  BY <1>5, NoneAssumption
<1>7. TypeOK'
  <2>1. \A s \in Client : (work[s] # NoTx <=> At(s, "tagged") \/ At(s, "indexed"))'
    BY <1>1, <1>3, <1>4, <1>6 DEF Inv, TypeOK, At, Request
  <2> QED BY <1>2, <1>4, <1>5, <2>1 DEF Inv, TypeOK
<1>8. Copy(p)'
  <2>1. work'[p] = e /\ request'[p] = [q EXCEPT !.stage = "tagged"]
    BY <1>4 DEF Inv, TypeOK
  <2>2. e.tags = [db.tags EXCEPT ![q.resource] = Edit(q.op, db.tags[q.resource], q.tag)]
        /\ e.index = db.index
    BY DEF Inv, TypeOK, Buckets
  <2> HIDE DEF e
  <2> QED BY <2>1, <2>2, <1>1, <1>4 DEF Copy, Request
<1> HIDE DEF e
<1>9. OneWriter' /\ \A s \in Client : (work[s] # NoTx => Copy(s))'
  BY <1>4, <1>8 DEF OneWriter, Inv, TypeOK
<1> QED BY <1>4, <1>7, <1>9 DEF Inv, Mirrored

LEMMA PutTagIndexInv == ASSUME Inv, NEW p \in Client, PutTagIndex(p) PROVE Inv'
<1> DEFINE q == request[p]
           e == [work[p] EXCEPT !.index = [work[p].index EXCEPT ![q.tag] =
                     Edit(q.op, work[p].index[q.tag], q.resource)]]
<1>1. /\ q \in Request /\ q.resource \in Resource /\ q.tag \in Tag
      /\ db.index[q.tag] \in [Resource -> Nat]
  BY RequestType DEF Inv, PutTagIndex, At, Request
<1>2. work[p] # NoTx /\ q.stage = "tagged" /\ work[p] \in Buckets /\ Copy(p)
  BY DEF PutTagIndex, Inv, TypeOK, At
<1>3. work[p].index = db.index
  BY <1>2 DEF Copy
<1>4. e \in Buckets
  <2>1. Edit(q.op, work[p].index[q.tag], q.resource) \in [Resource -> Nat]
    BY <1>1, <1>3, EditType
  <2> QED BY <2>1, <1>1, <1>2 DEF Buckets
<1>5. e # NoTx
  BY <1>4, NoneAssumption
<1>6. /\ work' = [work EXCEPT ![p] = e]
      /\ request' = [request EXCEPT ![p] = [q EXCEPT !.stage = "indexed"]]
      /\ db' = db
  BY DEF PutTagIndex, GoTo
<1>7. [q EXCEPT !.stage = "indexed"] \in Request
  BY <1>1 DEF Request
<1>8. [q EXCEPT !.stage = "indexed"] # Idle
  BY <1>7, NoneAssumption
<1>9. TypeOK'
  <2>1. \A s \in Client : (work[s] # NoTx <=> At(s, "tagged") \/ At(s, "indexed"))'
    BY <1>1, <1>2, <1>5, <1>6, <1>8 DEF Inv, TypeOK, At, Request
  <2> QED BY <1>4, <1>6, <1>7, <2>1 DEF Inv, TypeOK
<1>10. Copy(p)'
  <2>1. work'[p] = e /\ request'[p] = [q EXCEPT !.stage = "indexed"]
    BY <1>6 DEF Inv, TypeOK
  <2>2. /\ e.tags = work[p].tags
        /\ e.index = [db.index EXCEPT ![q.tag] = Edit(q.op, db.index[q.tag], q.resource)]
    BY <1>2, <1>3 DEF Buckets
  <2> HIDE DEF e
  <2> QED BY <2>1, <2>2, <1>1, <1>2, <1>6 DEF Copy, Request
<1> HIDE DEF e
<1>11. OneWriter'
  BY <1>2, <1>5, <1>6 DEF OneWriter, Inv, TypeOK
<1>12. \A s \in Client : (work[s] # NoTx => Copy(s))'
  <2> SUFFICES ASSUME NEW s \in Client, s # p, work'[s] # NoTx PROVE Copy(s)'
    BY <1>10
  <2>1. work[s] # NoTx
    BY <1>6 DEF Inv, TypeOK
  <2> QED BY <2>1, <1>2 DEF Inv, OneWriter
<1> QED BY <1>6, <1>9, <1>11, <1>12 DEF Inv, Mirrored

\* The copy of a transaction that is ready to commit has both edits.
LEMMA ReadyToCommit ==
    ASSUME Inv, NEW p \in Client, At(p, "indexed")
    PROVE  LET q == request[p] IN
           /\ work[p] \in Buckets /\ work[p] # NoTx /\ Mirrored(work[p])
           /\ q \in Request
           /\ work[p].tags = [db.tags EXCEPT ![q.resource] =
                                  Edit(q.op, db.tags[q.resource], q.tag)]
<1> DEFINE q == request[p]
<1>1. /\ work[p] # NoTx /\ work[p] \in Buckets /\ db \in Buckets
      /\ q \in Request /\ Copy(p) /\ q.stage = "indexed" /\ Mirrored(db)
  BY RequestType DEF Inv, TypeOK, At
<1>2. /\ work[p].tags = [db.tags EXCEPT ![q.resource] =
                             Edit(q.op, db.tags[q.resource], q.tag)]
      /\ work[p].index = [db.index EXCEPT ![q.tag] =
                             Edit(q.op, db.index[q.tag], q.resource)]
  BY <1>1 DEF Copy
<1>3. q.resource \in Resource /\ q.tag \in Tag
  BY <1>1 DEF Request
<1>4. Mirrored(work[p])
  BY <1>1, <1>2, <1>3, EditsMirror
<1> QED BY <1>1, <1>2, <1>4

LEMMA CommitInv == ASSUME Inv, NEW p \in Client, Commit(p) PROVE Inv'
<1> DEFINE q == request[p]
<1>1. work[p] \in Buckets /\ work[p] # NoTx /\ Mirrored(work[p]) /\ q \in Request
  BY ReadyToCommit DEF Commit
<1>2. /\ work' = [work EXCEPT ![p] = NoTx]
      /\ request' = [request EXCEPT ![p] = [q EXCEPT !.stage = "committed"]]
      /\ db' = work[p]
  BY DEF Commit, GoTo
<1>3. [q EXCEPT !.stage = "committed"] \in Request
  BY <1>1 DEF Request
<1>4. \A s \in Client : work'[s] = NoTx
  BY <1>1, <1>2 DEF Inv, TypeOK, OneWriter
<1>5. TypeOK'
  <2>1. \A s \in Client : (work[s] # NoTx <=> At(s, "tagged") \/ At(s, "indexed"))'
    BY <1>1, <1>2, <1>4 DEF Inv, TypeOK, At, Request, OneWriter
  <2> QED BY <1>1, <1>2, <1>3, <2>1 DEF Inv, TypeOK
<1> QED BY <1>1, <1>2, <1>4, <1>5 DEF Inv, Mirrored, OneWriter

\* The other steps leave the database and every other open copy alone.
LEMMA OtherInv ==
    ASSUME Inv, TypeOK', db' = db,
           \A s \in Client : work'[s] = NoTx \/ (work'[s] = work[s] /\ request'[s] = request[s])
    PROVE  Inv'
<1>1. \A s \in Client : (work[s] # NoTx => Copy(s))'
  BY DEF Inv, Copy
<1> QED BY <1>1 DEF Inv, Mirrored, OneWriter

LEMMA NextInv == Inv /\ [Next]_vars => Inv'
<1> SUFFICES ASSUME Inv, [Next]_vars PROVE Inv'
  OBVIOUS
<1>1. ASSUME NEW p \in Client, NEW op \in {"add", "remove"}, NEW r \in Resource,
             NEW t \in Tag, Call(p, op, r, t)
      PROVE  Inv'
  <2> DEFINE c == [op |-> op, resource |-> r, tag |-> t, stage |-> "called"]
  <2>1. c \in Request /\ c.stage = "called"
    BY DEF Request
  <2>2. request' = [request EXCEPT ![p] = c] /\ db' = db /\ work' = work
    BY <1>1 DEF Call
  <2>3. work[p] = NoTx
    BY <1>1 DEF Call, Inv, TypeOK, At
  <2> HIDE DEF c
  <2>4. TypeOK'
    BY <2>1, <2>2, <2>3, NoneAssumption DEF Inv, TypeOK, At
  <2>5. \A s \in Client : work'[s] = NoTx \/ (work'[s] = work[s] /\ request'[s] = request[s])
    BY <2>2, <2>3 DEF Inv, TypeOK
  <2> QED BY <2>2, <2>4, <2>5, OtherInv
<1>2. ASSUME NEW p \in Client, RefuseRemove(p) PROVE Inv'
  <2>1. request' = [request EXCEPT ![p] = Idle] /\ db' = db /\ work' = work /\ work[p] = NoTx
    BY <1>2 DEF RefuseRemove, WriteLockFree
  <2>2. TypeOK'
    BY <2>1 DEF Inv, TypeOK, At
  <2>3. \A s \in Client : work'[s] = NoTx \/ (work'[s] = work[s] /\ request'[s] = request[s])
    BY <2>1 DEF Inv, TypeOK
  <2> QED BY <2>1, <2>2, <2>3, OtherInv
<1>3. ASSUME NEW p \in Client, Fail(p) PROVE Inv'
  <2>1. /\ request' = [request EXCEPT ![p] = Idle] /\ db' = db
        /\ work' = [work EXCEPT ![p] = NoTx]
    BY <1>3 DEF Fail
  <2>2. TypeOK'
    BY <2>1 DEF Inv, TypeOK, At
  <2>3. \A s \in Client : work'[s] = NoTx \/ (work'[s] = work[s] /\ request'[s] = request[s])
    BY <2>1 DEF Inv, TypeOK
  <2> QED BY <2>1, <2>2, <2>3, OtherInv
<1>4. ASSUME NEW p \in Client, Answer(p) PROVE Inv'
  <2>1. /\ request' = [request EXCEPT ![p] = Idle] /\ db' = db /\ work' = work
        /\ work[p] = NoTx
    BY <1>4 DEF Answer, At, Inv, TypeOK
  <2>2. TypeOK'
    BY <2>1 DEF Inv, TypeOK, At
  <2>3. \A s \in Client : work'[s] = NoTx \/ (work'[s] = work[s] /\ request'[s] = request[s])
    BY <2>1 DEF Inv, TypeOK
  <2> QED BY <2>1, <2>2, <2>3, OtherInv
<1>5. CASE Restart
  <2>1. TypeOK'
    BY <1>5 DEF Restart, Inv, TypeOK, At
  <2> QED BY <1>5, <2>1, OtherInv DEF Restart
<1>6. CASE UNCHANGED vars
  <2>1. TypeOK'
    BY <1>6 DEF vars, Inv, TypeOK, At
  <2>2. \A s \in Client : work'[s] = NoTx \/ (work'[s] = work[s] /\ request'[s] = request[s])
    BY <1>6 DEF vars
  <2> QED BY <1>6, <2>1, <2>2, OtherInv DEF vars
<1> QED BY <1>1, <1>2, <1>3, <1>4, <1>5, <1>6,
           PutTagsInv, PutTagIndexInv, CommitInv DEF Next

LEMMA Invariant == Spec => []Inv
BY InitInv, NextInv, PTL DEF Spec

-----------------------------------------------------------------------------
\* Every list of tags or resources has the names it should have, and a write
\* transaction is open exactly while its handler is between its two writes.
THEOREM TagsTypeCorrect == Spec => []TypeOK
<1>1. Inv => TypeOK
  BY DEF Inv
<1> QED BY <1>1, Invariant, PTL

\* AddTag and RemoveTag keep the two buckets the mirror of each other, across
\* failures and restarts, so both listings find what GetTags shows.
THEOREM BucketsMirror == Spec => []TagsMirrorIndex
<1>1. Inv => TagsMirrorIndex
  <2> SUFFICES ASSUME Inv PROVE TaggedResources = {r \in Resource : GetTags(r) # {}}
    BY DEF Inv, Mirrored, TagsMirrorIndex
  <2>1. \A r \in Resource, t \in Tag : db.tags[r][t] = db.index[t][r]
    BY DEF Inv, Mirrored
  <2> QED BY <2>1 DEF TaggedResources, ResourcesWith, GetTags
<1> QED BY <1>1, Invariant, PTL

\* AddTag and RemoveTag lose no update: a tag comes and goes by its own
\* requests only.
THEOREM NoTagUpdateLost == Spec => TagsChangeOnRequest
<1> DEFINE Asked == \A r \in Resource, t \in Tag :
               db'.tags[r][t] # db.tags[r][t] =>
                   \E p \in Client :
                       /\ At(p, "indexed")
                       /\ request[p].resource = r /\ request[p].tag = t
                       /\ request[p].op = IF db'.tags[r][t] = 1 THEN "add" ELSE "remove"
<1>1. Inv /\ [Next]_vars => [Asked]_vars
  <2> SUFFICES ASSUME Inv, Next, NEW r \in Resource, NEW t \in Tag,
                      db'.tags[r][t] # db.tags[r][t]
               PROVE  \E p \in Client :
                       /\ At(p, "indexed")
                       /\ request[p].resource = r /\ request[p].tag = t
                       /\ request[p].op = IF db'.tags[r][t] = 1 THEN "add" ELSE "remove"
    OBVIOUS
  <2>1. PICK p \in Client : Commit(p)
    BY DEF Next, Call, PutTags, RefuseRemove, PutTagIndex, Fail, Answer, Restart
  <2> DEFINE q == request[p]
  <2>2. /\ At(p, "indexed") /\ db' = work[p] /\ q \in Request
        /\ work[p].tags = [db.tags EXCEPT ![q.resource] =
                               Edit(q.op, db.tags[q.resource], q.tag)]
    BY <2>1, ReadyToCommit DEF Commit
  <2>3. /\ db.tags \in [Resource -> [Tag -> Nat]]
        /\ q.resource \in Resource /\ q.tag \in Tag /\ q.op \in {"add", "remove"}
        /\ \A n \in Tag : db.tags[q.resource][n] <= 1
    BY <2>2 DEF Inv, TypeOK, Buckets, Request, Mirrored
  <2>4. r = q.resource
    BY <2>2, <2>3
  <2>5. db'.tags[r][t] = Edit(q.op, db.tags[r], q.tag)[t]
    BY <2>2, <2>3, <2>4
  <2>6. Edit(q.op, db.tags[r], q.tag)[t] =
            IF t # q.tag THEN db.tags[r][t] ELSE IF q.op = "add" THEN 1 ELSE 0
    BY <2>3, <2>4, EditCount
  <2>7. t = q.tag
    BY <2>5, <2>6
  <2>8. db'.tags[r][t] = IF q.op = "add" THEN 1 ELSE 0
    BY <2>5, <2>6, <2>7
  <2>9. q.op = IF db'.tags[r][t] = 1 THEN "add" ELSE "remove"
    BY <2>3, <2>8
  <2> QED BY <2>2, <2>4, <2>7, <2>9
<1> QED BY <1>1, Invariant, PTL DEF Spec, TagsChangeOnRequest
=============================================================================
