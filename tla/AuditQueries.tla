---------------------------- MODULE AuditQueries ----------------------------
(***************************************************************************)
(* The questions clients ask of the audit log (store/audit.go and          *)
(* lease/token_health.go), as functions of a database.  An entry's seq is  *)
(* its place in the log.                                                   *)
(***************************************************************************)
EXTENDS LeaseStore

CONSTANTS
    DefaultLimit,   \* the page size when none is asked for (100 in the code)
    MaxLimit,       \* the largest page size (1000 in the code)
    AllResources    \* no resource is asked for

ASSUME LimitAssumption == {DefaultLimit, MaxLimit} \subseteq Nat \ {0} /\ DefaultLimit <= MaxLimit
ASSUME AllAssumption == AllResources \notin Resource

-----------------------------------------------------------------------------
LogOf(d) == [i \in DOMAIN d.audit |->
                [seq |-> i, action |-> d.audit[i].action, resource |-> d.audit[i].resource,
                 holder |-> d.audit[i].holder, token |-> d.audit[i].token]]

\* The k-th of a set of places.
Nth(S, k) == CHOOSE i \in S : Cardinality({j \in S : j <= i}) = k

\* The entries at these places, ascending by seq.
InOrder(d, S) == [k \in 1 .. Cardinality(S) |-> LogOf(d)[Nth(S, k)]]

Places(d, r) == {i \in DOMAIN d.audit : r = AllResources \/ d.audit[i].resource = r}

OfResource(d, r) == InOrder(d, Places(d, r))

PageSize(limit) ==
    IF limit = 0 THEN DefaultLimit ELSE IF limit > MaxLimit THEN MaxLimit ELSE limit

\* Mutant: the newest entries come first.
NewestFirst(d, r, limit, offset) ==
    LET found == OfResource(d, r)
        n == Len(found)
        from == n - offset
    IN  [i \in 1 .. (IF from < PageSize(limit) THEN IF from < 0 THEN 0 ELSE from
                     ELSE PageSize(limit)) |-> found[from + 1 - i]]

\* The entries after the first `offset', as many as the page takes.
ListAudit(d, r, limit, offset) ==
    LET found == OfResource(d, r)
        end == offset + PageSize(limit)
    IN  SubSeq(found, offset + 1, IF end < Len(found) THEN end ELSE Len(found))

\* Mutant: promotions are forgotten among the events that issue a token.
IssuanceWithoutPromotion == {"acquire", "renew", "bulk_acquire", "transfer"}

Issuance == {"acquire", "renew", "bulk_acquire", "waiter_grant", "transfer"}

TokenHistory(d, r) == InOrder(d, {i \in Places(d, r) : d.audit[i].action \in Issuance})

\* A history is healthy unless a token is smaller than the one before it.
CheckTokenHealth(d, r) ==
    LET history == TokenHistory(d, r)
        tokens == {history[i].token : i \in DOMAIN history}
    IN  [entries |-> Len(history),
         increasing |-> \A i \in 2 .. Len(history) : history[i - 1].token <= history[i].token,
         last |-> CHOOSE t \in tokens \cup {0} : \A u \in tokens : u <= t]

-----------------------------------------------------------------------------
(* Properties *)

\* The health check never complains of a log the store wrote, and the last
\* token it reports is the one the lease carries: renewals and transfers, which
\* repeat a token, promotions and expiries in between do not mislead it.
HealthAgreesWithLease ==
    \A d \in Databases, r \in Resource :
        LET health == CheckTokenHealth(d, r) IN
        /\ health.increasing
        /\ health.last < d.next
        /\ d.leases[r] # NoLease => health.last = d.leases[r].token

\* Somebody who pages through the log while it grows skips nothing and reads
\* nothing twice: a page read before an entry is added and the next one read
\* after it are consecutive in the log as it is then, and the next one is
\* empty only if there is nothing more to read.
PagesNeverShift ==
    [][db'.audit # db.audit =>
          \A r \in Resource \cup {AllResources}, limit \in 0 .. MaxLimit + 1,
             offset \in 0 .. Len(db.audit) :
             LET page == ListAudit(db, r, limit, offset)
                 following == ListAudit(db', r, limit, offset + Len(page))
                 read == offset + Len(page) + Len(following)
                 log == OfResource(db', r)
             IN  /\ page \o following = SubSeq(log, offset + 1, read)
                 /\ following = <<>> => Len(log) <= read]_vars
=============================================================================
