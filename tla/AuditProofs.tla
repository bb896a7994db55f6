---------------------------- MODULE AuditProofs ----------------------------
(***************************************************************************)
(* What the queries on the audit log answer, for logs of any length, pages *)
(* of any size and any number of resources.                                *)
(*                                                                         *)
(* An answer lists the entries at some places of the log in ascending      *)
(* order.  The place of rank k in a finite set of places is the k-th; that *)
(* ranks are a bijection to 1 .. n is what all counting here rests on.     *)
(***************************************************************************)
EXTENDS AuditQueries, LeaseStoreProofs, SequenceTheorems

-----------------------------------------------------------------------------
(* Ranks in a finite set of places *)

UpTo(S, i) == {j \in S : j <= i}
Rank(S, i) == Cardinality(UpTo(S, i))

LEMMA RankOrder ==
    ASSUME NEW S \in SUBSET Nat, IsFiniteSet(S), NEW i \in S
    PROVE  /\ Rank(S, i) \in 1 .. Cardinality(S)
           /\ \A j \in S : i < j => Rank(S, i) < Rank(S, j)
<1>1. \A j \in S : UpTo(S, j) \in SUBSET S /\ IsFiniteSet(UpTo(S, j)) /\ Rank(S, j) \in Nat
  BY FS_Subset, FS_CardinalityType DEF UpTo, Rank
<1>2. Cardinality(S) \in Nat /\ Rank(S, i) <= Cardinality(S)
  BY <1>1, FS_Subset, FS_CardinalityType DEF Rank
<1>3. Rank(S, i) # 0
  <2>1. i \in UpTo(S, i)
    BY DEF UpTo
  <2> QED BY <1>1, <2>1, FS_EmptySet DEF Rank
<1>4. ASSUME NEW j \in S, i < j PROVE Rank(S, i) < Rank(S, j)
  <2>0. \A k \in S : k \in Nat
    OBVIOUS
  <2>1. UpTo(S, i) \in SUBSET UpTo(S, j)
    BY <1>4, <2>0, \A k \in S : k <= i => k <= j DEF UpTo
  <2>2. j \in UpTo(S, j) /\ j \notin UpTo(S, i)
    BY <1>4 DEF UpTo
  <2>3. Rank(S, i) <= Rank(S, j) /\ Rank(S, i) # Rank(S, j)
    BY <1>1, <2>1, <2>2, FS_Subset DEF Rank
  <2> QED BY <1>1, <2>3
<1> QED BY <1>1, <1>2, <1>3, <1>4

\* The k-th place exists, and is the one of rank k.
LEMMA NthRank ==
    ASSUME NEW S \in SUBSET Nat, IsFiniteSet(S)
    PROVE  /\ \A i \in S : Rank(S, i) \in 1 .. Cardinality(S) /\ Nth(S, Rank(S, i)) = i
           /\ \A k \in 1 .. Cardinality(S) : Nth(S, k) \in S /\ Rank(S, Nth(S, k)) = k
<1> DEFINE n == Cardinality(S)
           rank == [i \in S |-> Rank(S, i)]
<1>1. n \in Nat
  BY FS_CardinalityType
<1>2. \A i \in S : Rank(S, i) \in 1 .. n
  BY RankOrder
<1>3. \A i, j \in S : Rank(S, i) = Rank(S, j) => i = j
  <2> SUFFICES ASSUME NEW i \in S, NEW j \in S, Rank(S, i) = Rank(S, j), i < j PROVE FALSE
    OBVIOUS
  <2>1. Rank(S, i) < Rank(S, j)
    BY RankOrder
  <2>2. Rank(S, j) \in Nat
    BY <1>1, <1>2
  <2> QED BY <2>1, <2>2
<1>4. rank \in Injection(S, 1 .. n)
  BY <1>2, <1>3 DEF Injection, IsInjective
<1>5. IsFiniteSet(1 .. n) /\ Cardinality(1 .. n) = n
  BY <1>1, FS_Interval
<1>6. rank \in Surjection(S, 1 .. n)
  BY <1>4, <1>5, FS_Injection
<1>7. \A k \in 1 .. n : \E i \in S : Rank(S, i) = k
  BY <1>6 DEF Surjection
<1> HIDE DEF rank, n
<1>8. \A k : Nth(S, k) = CHOOSE i \in S : Rank(S, i) = k
  BY DEF Nth, Rank, UpTo
<1>9. \A k \in 1 .. n : Nth(S, k) \in S /\ Rank(S, Nth(S, k)) = k
  BY <1>7, <1>8
<1>10. \A i \in S : Nth(S, Rank(S, i)) = i
  BY <1>2, <1>3, <1>9
<1> QED BY <1>2, <1>9, <1>10 DEF n

LEMMA NthOrder ==
    ASSUME NEW S \in SUBSET Nat, IsFiniteSet(S),
           NEW k \in 1 .. Cardinality(S), NEW m \in 1 .. Cardinality(S), k < m
    PROVE  Nth(S, k) < Nth(S, m)
<1>1. /\ Nth(S, k) \in S /\ Nth(S, m) \in S
      /\ Rank(S, Nth(S, k)) = k /\ Rank(S, Nth(S, m)) = m
  BY NthRank
<1>2. Nth(S, k) \in Nat /\ Nth(S, m) \in Nat
  BY <1>1
<1>3. k \in Nat /\ m \in Nat
  BY FS_CardinalityType
<1>4. Nth(S, m) # Nth(S, k)
  BY <1>1, <1>3
<1>5. ~(Nth(S, m) < Nth(S, k))
  <2> SUFFICES ASSUME Nth(S, m) < Nth(S, k) PROVE FALSE
    OBVIOUS
  <2>1. Rank(S, Nth(S, m)) < Rank(S, Nth(S, k))
    BY <1>1, RankOrder
  <2> QED BY <1>1, <1>3, <2>1
<1> QED BY <1>2, <1>4, <1>5

\* Places that are added at the end do not move the others.
LEMMA NthStays ==
    ASSUME NEW T \in SUBSET Nat, IsFiniteSet(T), NEW S \in SUBSET T,
           \A i \in S, j \in T \ S : i < j
    PROVE  /\ IsFiniteSet(S) /\ Cardinality(S) <= Cardinality(T)
           /\ \A k \in 1 .. Cardinality(S) : Nth(T, k) = Nth(S, k)
<1>1. IsFiniteSet(S) /\ Cardinality(S) <= Cardinality(T)
  BY FS_Subset
<1>2. ASSUME NEW k \in 1 .. Cardinality(S) PROVE Nth(T, k) = Nth(S, k)
  <2>1. Nth(S, k) \in S /\ Rank(S, Nth(S, k)) = k
    BY <1>1, NthRank
  <2>2. UpTo(T, Nth(S, k)) = UpTo(S, Nth(S, k))
    <3>1. \A j \in T \ S : Nth(S, k) < j /\ j \in Nat /\ Nth(S, k) \in Nat
      BY <2>1
    <3>2. \A j \in T \ S : ~(j <= Nth(S, k))
      BY <3>1
    <3> QED BY <3>2 DEF UpTo
  <2>3. Rank(T, Nth(S, k)) = k
    BY <2>1, <2>2 DEF Rank
  <2> QED BY <2>1, <2>3, NthRank
<1> QED BY <1>1, <1>2

-----------------------------------------------------------------------------
(* Answers *)

LEMMA LogPlaces ==
    ASSUME NEW d \in DB, NEW S, S \subseteq DOMAIN d.audit
    PROVE  S \in SUBSET Nat /\ IsFiniteSet(S) /\ Cardinality(S) \in Nat
<1>1. DOMAIN d.audit = 1 .. Len(d.audit) /\ Len(d.audit) \in Nat
  BY DEF DB
<1>2. IsFiniteSet(1 .. Len(d.audit))
  BY <1>1, FS_Interval
<1>3. IsFiniteSet(S)
  BY <1>1, <1>2, FS_Subset
<1>4. S \in SUBSET Nat
  BY <1>1
<1> QED BY <1>3, <1>4, FS_CardinalityType

\* What an answer consists of.
LEMMA InOrderEntries ==
    ASSUME NEW d \in DB, NEW S, S \subseteq DOMAIN d.audit,
           NEW R, \A i \in S : LogOf(d)[i] \in R
    PROVE  /\ InOrder(d, S) \in Seq(R)
           /\ Len(InOrder(d, S)) = Cardinality(S)
           /\ DOMAIN InOrder(d, S) = 1 .. Cardinality(S)
           /\ \A k \in 1 .. Cardinality(S) : InOrder(d, S)[k] = LogOf(d)[Nth(S, k)]
<1>1. Cardinality(S) \in Nat
  BY LogPlaces
<1>2. \A k \in 1 .. Cardinality(S) : Nth(S, k) \in S
  BY LogPlaces, NthRank
<1>3. InOrder(d, S) = [k \in 1 .. Cardinality(S) |-> LogOf(d)[Nth(S, k)]]
  BY DEF InOrder
<1>4. InOrder(d, S) \in [1 .. Cardinality(S) -> R]
  BY <1>2, <1>3
<1>5. InOrder(d, S) \in Seq(R)
  BY <1>1, <1>4, SeqDef
<1>6. DOMAIN InOrder(d, S) = 1 .. Cardinality(S)
  BY <1>4
<1>7. Len(InOrder(d, S)) = Cardinality(S)
  BY <1>1, <1>5, <1>6, LenProperties
<1> QED BY <1>3, <1>5, <1>6, <1>7

-----------------------------------------------------------------------------
(* The health check *)

LEMMA IssuancePlaces ==
    ASSUME NEW d \in DB, NEW r \in Resource
    PROVE  {i \in Places(d, r) : d.audit[i].action \in Issuance} = Issues(d, r)
<1>1. r # AllResources
  BY AllAssumption
<1>2. Issuance = AuditAction \ EndAction
  BY DEF Issuance, AuditAction, GrantAction, EndAction
<1>3. \A i \in DOMAIN d.audit : d.audit[i].action \in AuditAction
  BY EntryType DEF AuditEntry
<1> QED BY <1>1, <1>2, <1>3 DEF Places, Issues, About

LEMMA HealthOfLog ==
    ASSUME NEW d \in DB, LogInv(d), NEW r \in Resource
    PROVE  LET health == CheckTokenHealth(d, r) IN
           /\ health.increasing
           /\ health.last < d.next
           /\ d.leases[r] # NoLease => health.last = d.leases[r].token
<1> DEFINE S == Issues(d, r)
           n == Cardinality(S)
           history == TokenHistory(d, r)
           tokens == {history[k].token : k \in DOMAIN history}
           last == CHOOSE t \in tokens \cup {0} : \A u \in tokens : u <= t
<1>1. S \subseteq DOMAIN d.audit
  BY DEF Issues, About
<1>2. history = InOrder(d, S)
  BY IssuancePlaces DEF TokenHistory
<1>3. \A i \in S : LogOf(d)[i].token = d.audit[i].token /\ d.audit[i].token \in Nat \ {0}
  BY <1>1, EntryType DEF LogOf, AuditEntry, Token
<1>4. n \in Nat /\ S \in SUBSET Nat /\ IsFiniteSet(S)
  BY <1>1, LogPlaces
<1>5. /\ DOMAIN history = 1 .. n /\ Len(history) = n
      /\ \A k \in 1 .. n : history[k] = LogOf(d)[Nth(S, k)]
  <2>1. \A i \in S : LogOf(d)[i] \in {LogOf(d)[j] : j \in S}
    OBVIOUS
  <2> QED BY <1>1, <1>2, <2>1, InOrderEntries
<1>6. \A k \in 1 .. n : Nth(S, k) \in S /\ history[k].token = d.audit[Nth(S, k)].token
  BY <1>3, <1>4, <1>5, NthRank
<1>7. tokens = {d.audit[i].token : i \in S}
  <2>1. \A k \in 1 .. n : \E i \in S : history[k].token = d.audit[i].token
    BY <1>6
  <2>2. \A i \in S : \E k \in 1 .. n : history[k].token = d.audit[i].token
    <3> SUFFICES ASSUME NEW i \in S PROVE \E k \in 1 .. n : history[k].token = d.audit[i].token
      OBVIOUS
    <3>1. Rank(S, i) \in 1 .. n /\ Nth(S, Rank(S, i)) = i
      BY <1>4, NthRank
    <3> QED BY <1>6, <3>1
  <2> QED BY <1>5, <2>1, <2>2
<1>8. /\ \A i, j \in S : i < j => d.audit[i].token <= d.audit[j].token
      /\ \A i \in S : d.audit[i].token < d.next
      /\ d.leases[r] # NoLease =>
            /\ \E i \in S : d.audit[i].token = d.leases[r].token
            /\ \A i \in S : d.audit[i].token <= d.leases[r].token
  BY DEF LogInv, IssuedInOrder
<1> HIDE DEF S, n, history, tokens, last
<1>9. \A k \in 2 .. n : history[k - 1].token <= history[k].token
  <2> SUFFICES ASSUME NEW k \in 2 .. n PROVE history[k - 1].token <= history[k].token
    OBVIOUS
  <2>1. k \in 1 .. n /\ k - 1 \in 1 .. n /\ k - 1 < k
    BY <1>4
  <2>2. Nth(S, k - 1) < Nth(S, k)
    BY <1>4, <2>1, NthOrder DEF n
  <2> QED BY <1>6, <1>8, <2>1, <2>2
<1>10. d.next \in Nat \ {0}
  BY DEF DB, Token
<1>11. \E t \in tokens \cup {0} : \A u \in tokens : u <= t
  <2>1. CASE n = 0
    <3>1. tokens = {}
      BY <1>4, <1>5, <2>1 DEF tokens
    <3> QED BY <3>1
  <2>2. CASE n # 0
    <3>1. n \in 1 .. n /\ Nth(S, n) \in S
      BY <1>4, <1>6, <2>2
    <3>2. ASSUME NEW i \in S PROVE d.audit[i].token <= d.audit[Nth(S, n)].token
      <4>1. Rank(S, i) \in 1 .. n /\ Nth(S, Rank(S, i)) = i
        BY <1>4, NthRank DEF n
      <4>2. CASE Rank(S, i) = n
        BY <1>3, <3>1, <4>1, <4>2
      <4>3. CASE Rank(S, i) < n
        <5>1. i < Nth(S, n)
          BY <1>4, <3>1, <4>1, <4>3, NthOrder DEF n
        <5> QED BY <1>8, <3>1, <5>1
      <4> QED BY <1>4, <4>1, <4>2, <4>3
    <3> QED BY <1>7, <3>1, <3>2
  <2> QED BY <2>1, <2>2
<1>12. last \in tokens \cup {0} /\ \A u \in tokens : u <= last
  BY <1>11 DEF last
<1>13. last < d.next
  BY <1>7, <1>8, <1>10, <1>12
<1>14. ASSUME d.leases[r] # NoLease PROVE last = d.leases[r].token
  <2>1. d.leases[r].token \in tokens /\ \A u \in tokens : u <= d.leases[r].token
    BY <1>7, <1>8, <1>14
  <2>2. \A u \in tokens : u \in Nat \ {0}
    BY <1>3, <1>7
  <2> QED BY <1>12, <2>1, <2>2
<1>15. /\ CheckTokenHealth(d, r).increasing = \A k \in 2 .. n : history[k - 1].token <= history[k].token
       /\ CheckTokenHealth(d, r).last = last
  BY <1>5 DEF CheckTokenHealth, history, tokens, last
<1> QED BY <1>9, <1>13, <1>14, <1>15

\* The health check of a resource never complains of a log the store wrote,
\* however long, and reports the token of the lease (token_health.go).
THEOREM HealthIsTrue == Spec => []HealthAgreesWithLease
<1>1. Inv => HealthAgreesWithLease
  BY InvDatabases, HealthOfLog DEF HealthAgreesWithLease
<1> QED BY <1>1, InvInvariant, PTL

-----------------------------------------------------------------------------
(* Pages of a log that grows *)

\* One page, cut from the entries that were found.
Page(found, size, offset) ==
    SubSeq(found, offset + 1, IF offset + size < Len(found) THEN offset + size ELSE Len(found))

LEMMA PageOfLog ==
    ASSUME NEW d, NEW r, NEW limit, NEW offset
    PROVE  ListAudit(d, r, limit, offset) = Page(OfResource(d, r), PageSize(limit), offset)
BY DEF ListAudit, Page

\* Where a page ends.
LEMMA PageEnds ==
    ASSUME NEW R, NEW found \in Seq(R), NEW size \in Nat \ {0}, NEW offset \in Nat
    PROVE  LET page == Page(found, size, offset)
               n == Len(page)
           IN  /\ n \in Nat
               /\ page = SubSeq(found, offset + 1, offset + n)
               /\ n = 0 => page = <<>>
               /\ n = 0 <=> Len(found) <= offset
               /\ n # 0 => offset + n <= Len(found)
<1> DEFINE end == IF offset + size < Len(found) THEN offset + size ELSE Len(found)
           page == Page(found, size, offset)
<1>1. Len(found) \in Nat /\ DOMAIN found = 1 .. Len(found)
  BY LenProperties
<1>2. end \in Nat /\ end <= Len(found) /\ page = SubSeq(found, offset + 1, end)
  BY <1>1 DEF Page
<1>3. Len(found) <= offset <=> end <= offset
  BY <1>1
<1> HIDE DEF end, page
<1>4. \A i \in offset + 1 .. end : found[i] \in R
  BY <1>1, <1>2, ElementOfSeq
<1>5. Len(page) = IF offset + 1 <= end THEN end - (offset + 1) + 1 ELSE 0
  BY <1>2, <1>4, SubSeqProperties
<1>6. CASE end <= offset
  <2>1. page = <<>> /\ SubSeq(found, offset + 1, offset + 0) = <<>>
    BY <1>2, <1>6, SubSeqEmpty
  <2>2. Len(page) = 0
    BY <1>2, <1>5, <1>6
  <2> QED BY <1>3, <1>6, <2>1, <2>2 DEF page
<1>7. CASE ~(end <= offset)
  <2>1. Len(page) = end - offset
    BY <1>2, <1>5, <1>7
  <2>2. Len(page) \in Nat \ {0} /\ offset + Len(page) = end
    BY <1>2, <1>7, <2>1
  <2> QED BY <1>2, <1>3, <1>7, <2>2 DEF page
<1> QED BY <1>6, <1>7

\* A page of an old log and the following one of a newer log are adjacent.
LEMMA PagesMeet ==
    ASSUME NEW R, NEW found \in Seq(R), NEW log \in Seq(R), Len(found) <= Len(log),
           \A k \in 1 .. Len(found) : log[k] = found[k],
           NEW size \in Nat \ {0}, NEW offset \in Nat
    PROVE  LET page == Page(found, size, offset)
               following == Page(log, size, offset + Len(page))
               read == offset + Len(page) + Len(following)
           IN  /\ page \o following = SubSeq(log, offset + 1, read)
               /\ following = <<>> => Len(log) <= read
<1> DEFINE page == Page(found, size, offset)
           n == Len(page)
           following == Page(log, size, offset + n)
           m == Len(following)
<1>1. Len(found) \in Nat /\ Len(log) \in Nat /\ DOMAIN found = 1 .. Len(found)
      /\ DOMAIN log = 1 .. Len(log)
  BY LenProperties
<1>2. /\ n \in Nat
      /\ page = SubSeq(found, offset + 1, offset + n)
      /\ n = 0 => page = <<>>
      /\ n # 0 => offset + n <= Len(found)
  BY PageEnds
<1>3. /\ m \in Nat
      /\ following = SubSeq(log, offset + n + 1, offset + n + m)
      /\ m = 0 => following = <<>>
      /\ m = 0 <=> Len(log) <= offset + n
      /\ m # 0 => offset + n + m <= Len(log)
  <2>1. offset + n \in Nat
    BY <1>2
  <2> QED BY <2>1, PageEnds
<1> HIDE DEF page, n, following, m
<1>4. n = Len(page) /\ m = Len(following)
  BY DEF n, m
<1>5. following = <<>> => m = 0
  BY <1>4
<1>6. page = SubSeq(log, offset + 1, offset + n)
  <2>1. CASE n = 0
    BY <1>2, <2>1, SubSeqEmpty
  <2>2. CASE n # 0
    <3>1. \A i \in offset + 1 .. offset + n : found[i] \in R /\ log[i] \in R /\ log[i] = found[i]
      BY <1>1, <1>2, <2>2, ElementOfSeq
    <3>2. /\ page \in Seq(R)
          /\ Len(page) = n
          /\ \A i \in 1 .. n : page[i] = found[offset + i]
      BY <1>2, <1>4, <3>1, SubSeqProperties
    <3>3. /\ SubSeq(log, offset + 1, offset + n) \in Seq(R)
          /\ Len(SubSeq(log, offset + 1, offset + n)) = n
          /\ \A i \in 1 .. n : SubSeq(log, offset + 1, offset + n)[i] = log[offset + i]
      BY <1>2, <3>1, SubSeqProperties
    <3>4. \A i \in 1 .. n : log[offset + i] = found[offset + i]
      BY <1>2, <3>1
    <3> QED BY <3>2, <3>3, <3>4, SeqEqual
  <2> QED BY <2>1, <2>2
<1>7. page \o following = SubSeq(log, offset + 1, offset + n + m)
  <2>1. CASE Len(log) < offset
    <3>1. n = 0 /\ m = 0
      BY <1>1, <1>2, <1>3, <2>1
    <3>2. page = <<>> /\ following = <<>>
      BY <1>2, <1>3, <3>1
    <3>3. SubSeq(log, offset + 1, offset + n + m) = <<>>
      BY <3>1, SubSeqEmpty
    <3>4. <<>> \o <<>> = <<>>
      BY EmptySeq, ConcatEmptySeq
    <3> QED BY <3>2, <3>3, <3>4
  <2>2. CASE offset <= Len(log)
    <3>1. n \in Nat /\ m \in Nat /\ Len(found) \in Nat /\ Len(log) \in Nat
      BY <1>1, <1>2, <1>3
    <3>2. offset + n <= Len(log)
      <4>1. CASE n = 0
        BY <2>2, <3>1, <4>1
      <4>2. CASE n # 0
        <5>1. offset + n <= Len(found)
          BY <1>2, <4>2
        <5> QED BY <3>1, <5>1
      <4> QED BY <4>1, <4>2
    <3>3. offset + n + m <= Len(log)
      <4>1. CASE m = 0
        BY <3>1, <3>2, <4>1
      <4>2. CASE m # 0
        BY <1>3, <4>2
      <4> QED BY <4>1, <4>2
    <3>4. offset + 1 \in 1 .. Len(log) + 1
      BY <2>2, <3>1
    <3>5. offset + n \in (offset + 1) - 1 .. Len(log)
      BY <3>1, <3>2
    <3>6. offset + n + m \in offset + n .. Len(log)
      BY <3>1, <3>3
    <3> QED BY <1>3, <1>6, <3>4, <3>5, <3>6, ConcatAdjacentSubSeq
  <2>3. Len(log) < offset \/ offset <= Len(log)
    BY <1>1
  <2> QED BY <2>1, <2>2, <2>3
<1>8. following = <<>> => Len(log) <= offset + n + m
  BY <1>1, <1>2, <1>3, <1>5
<1> QED BY <1>7, <1>8 DEF page, n, following, m

\* What was found in the log is found again, at the same ranks, when it grew.
LEMMA FoundAgain ==
    ASSUME NEW d \in DB, NEW e \in DB, LogGrows(d, e), NEW r
    PROVE  LET found == OfResource(d, r)
               log == OfResource(e, r)
           IN  \E R :
                  /\ found \in Seq(R) /\ log \in Seq(R)
                  /\ Len(found) <= Len(log)
                  /\ \A k \in 1 .. Len(found) : log[k] = found[k]
<1> DEFINE S == Places(d, r)
           T == Places(e, r)
           R == {LogOf(e)[i] : i \in T}
<1>1. /\ DOMAIN d.audit = 1 .. Len(d.audit) /\ Len(d.audit) \in Nat
      /\ DOMAIN e.audit = 1 .. Len(e.audit) /\ Len(e.audit) \in Nat
  BY DEF DB
<1>2. S \subseteq DOMAIN d.audit /\ T \subseteq DOMAIN e.audit
  BY DEF Places
<1>3. \A i \in S : i \in T /\ LogOf(e)[i] = LogOf(d)[i]
  BY <1>2 DEF Places, LogGrows, LogOf
<1>4. \A i \in S, j \in T \ S : i < j
  <2> SUFFICES ASSUME NEW i \in S, NEW j \in T \ S PROVE i < j
    OBVIOUS
  <2>1. j \notin DOMAIN d.audit
    BY DEF Places, LogGrows
  <2> QED BY <1>1, <1>2, <2>1
<1>5. T \in SUBSET Nat /\ IsFiniteSet(T) /\ S \in SUBSET T
  BY <1>2, <1>3, LogPlaces
<1>6. /\ Cardinality(S) <= Cardinality(T)
      /\ \A k \in 1 .. Cardinality(S) : Nth(T, k) = Nth(S, k)
  BY <1>4, <1>5, NthStays
<1>7. \A i \in S : LogOf(d)[i] \in R
  BY <1>3
<1>8. \A i \in T : LogOf(e)[i] \in R
  OBVIOUS
<1>9. Cardinality(S) \in Nat /\ Cardinality(T) \in Nat
  BY <1>2, LogPlaces
<1>10. \A k \in 1 .. Cardinality(S) : Nth(S, k) \in S
  BY <1>2, LogPlaces, NthRank
<1> HIDE DEF S, T, R
<1>11. /\ InOrder(d, S) \in Seq(R)
       /\ Len(InOrder(d, S)) = Cardinality(S)
       /\ \A k \in 1 .. Cardinality(S) : InOrder(d, S)[k] = LogOf(d)[Nth(S, k)]
  BY <1>2, <1>7, InOrderEntries
<1>12. /\ InOrder(e, T) \in Seq(R)
       /\ Len(InOrder(e, T)) = Cardinality(T)
       /\ \A k \in 1 .. Cardinality(T) : InOrder(e, T)[k] = LogOf(e)[Nth(T, k)]
  BY <1>2, <1>8, InOrderEntries
<1>13. \A k \in 1 .. Cardinality(S) : InOrder(e, T)[k] = InOrder(d, S)[k]
  BY <1>3, <1>6, <1>9, <1>10, <1>11, <1>12
<1>14. OfResource(d, r) = InOrder(d, S) /\ OfResource(e, r) = InOrder(e, T)
  BY DEF OfResource, S, T
<1> QED BY <1>6, <1>11, <1>12, <1>13, <1>14

LEMMA PageSizeType ==
    ASSUME NEW limit \in Nat
    PROVE  PageSize(limit) \in Nat \ {0}
BY LimitAssumption DEF PageSize

\* Who pages through the log, or through the entries of one resource, while it
\* grows by any transaction skips nothing and reads nothing twice.
THEOREM PagesAreStable == Spec => PagesNeverShift
<1> DEFINE Adjacent ==
        db'.audit # db.audit =>
            \A r \in Resource \cup {AllResources}, limit \in 0 .. MaxLimit + 1,
               offset \in 0 .. Len(db.audit) :
               LET page == ListAudit(db, r, limit, offset)
                   following == ListAudit(db', r, limit, offset + Len(page))
                   read == offset + Len(page) + Len(following)
                   log == OfResource(db', r)
               IN  /\ page \o following = SubSeq(log, offset + 1, read)
                   /\ following = <<>> => Len(log) <= read
<1>1. ASSUME Inv, [Next]_vars PROVE Adjacent
  <2>1. db \in DB /\ db' \in DB /\ LogGrows(db, db')
    BY <1>1, InvStep DEF Newer, Inv, TypeInv, TypeOK
  <2> SUFFICES ASSUME NEW r \in Resource \cup {AllResources}, NEW limit \in 0 .. MaxLimit + 1,
                      NEW offset \in 0 .. Len(db.audit)
               PROVE  LET page == ListAudit(db, r, limit, offset)
                          following == ListAudit(db', r, limit, offset + Len(page))
                          read == offset + Len(page) + Len(following)
                          log == OfResource(db', r)
                      IN  /\ page \o following = SubSeq(log, offset + 1, read)
                          /\ following = <<>> => Len(log) <= read
    OBVIOUS
  <2>2. PageSize(limit) \in Nat \ {0} /\ offset \in Nat
    BY <2>1, PageSizeType, LimitAssumption DEF DB
  <2>3. PICK R :
          /\ OfResource(db, r) \in Seq(R) /\ OfResource(db', r) \in Seq(R)
          /\ Len(OfResource(db, r)) <= Len(OfResource(db', r))
          /\ \A k \in 1 .. Len(OfResource(db, r)) : OfResource(db', r)[k] = OfResource(db, r)[k]
    BY <2>1, FoundAgain
  <2>4. \A n : /\ ListAudit(db, r, limit, n) = Page(OfResource(db, r), PageSize(limit), n)
               /\ ListAudit(db', r, limit, n) = Page(OfResource(db', r), PageSize(limit), n)
    BY PageOfLog
  <2> DEFINE found == OfResource(db, r)
             log == OfResource(db', r)
             page == Page(found, PageSize(limit), offset)
             following == Page(log, PageSize(limit), offset + Len(page))
             read == offset + Len(page) + Len(following)
  <2>5. ListAudit(db, r, limit, offset) = page
    BY <2>4
  <2>6. ListAudit(db', r, limit, offset + Len(page)) = following
    BY <2>4
  <2> HIDE DEF found, log
  <2>7. /\ page \o following = SubSeq(log, offset + 1, read)
        /\ following = <<>> => Len(log) <= read
    <3>1. /\ found \in Seq(R) /\ log \in Seq(R) /\ Len(found) <= Len(log)
          /\ \A k \in 1 .. Len(found) : log[k] = found[k]
      BY <2>3 DEF found, log
    <3> QED BY <2>2, <3>1, PagesMeet
  <2> QED BY <2>5, <2>6, <2>7 DEF log
<1>2. Inv /\ [Next]_vars => [Adjacent]_vars
  BY <1>1
<1> QED BY <1>2, InvInvariant, PTL DEF Spec, PagesNeverShift
=============================================================================
