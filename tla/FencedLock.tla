----------------------------- MODULE FencedLock -----------------------------
(***************************************************************************)
(* What the store promises its clients, whatever the transactions it runs  *)
(* and whichever of them are lost: a resource is free, or it is held by    *)
(* one holder under one fencing token.  Tokens come from one increasing    *)
(* supply shared by all resources.  A step turns resources over: each one  *)
(* is left alone, freed, or held under a token never issued before, and no *)
(* token is issued that is not on exactly one resource.  Or the holder of  *)
(* one resource changes under its token.                                   *)
(*                                                                         *)
(* There are no deadlines here: a lease that is past its deadline is held  *)
(* until somebody takes it over or it is swept.                            *)
(***************************************************************************)
EXTENDS Integers

CONSTANTS
    Resource,   \* resource names
    Holder,     \* holder names
    Free        \* nobody holds the resource

VARIABLES
    held,       \* who holds each resource, under which token
    issued      \* the last token issued

vars == <<held, issued>>

Init ==
    /\ held = [r \in Resource |-> Free]
    /\ issued = 0

\* r is held under one of the tokens that this step issues.
Fresh(r) ==
    /\ held'[r] # Free
    /\ held'[r].holder \in Holder
    /\ held'[r].token \in issued + 1 .. issued'

TurnOver ==
    /\ issued' \in Nat /\ issued <= issued'
    /\ held' = [r \in Resource |-> held'[r]]
    /\ \A r \in Resource : held'[r] = held[r] \/ held'[r] = Free \/ Fresh(r)
    /\ \A t \in issued + 1 .. issued' :
          \E r \in Resource :
              /\ Fresh(r) /\ held'[r].token = t
              /\ \A s \in Resource \ {r} : Fresh(s) => held'[s].token # t

HandOver(r, h) ==
    /\ held[r] # Free
    /\ held' = [held EXCEPT ![r] = [holder |-> h, token |-> held[r].token]]
    /\ UNCHANGED issued

Next == TurnOver \/ \E r \in Resource, h \in Holder : HandOver(r, h)

Spec == Init /\ [][Next]_vars
=============================================================================
