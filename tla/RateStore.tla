------------------------------ MODULE RateStore -----------------------------
(***************************************************************************)
(* One key of ratelimit.Store: a token bucket that is created full at the  *)
(* first request, and forgotten by the janitor once it has not been used   *)
(* for ttl.  Time is counted in ticks, each worth Rate tokens.             *)
(***************************************************************************)
EXTENDS Naturals

CONSTANTS Rate,     \* tokens per tick
          Burst,    \* size of a bucket
          TTL,      \* ticks after which an unused bucket may be forgotten
          NoBucket  \* the key has no entry

\* What the gateway's parameters (1000/s, 2000, ten minutes) satisfy: a bucket
\* that is forgotten would have been full.
ASSUME RateAssumption == /\ Rate \in Nat /\ Burst \in Nat \ {0} /\ TTL \in Nat
                         /\ Rate * TTL >= Burst
                         /\ NoBucket \notin Nat

VARIABLES tokens,  \* the tokens in the key's bucket, or NoBucket
          unused,  \* ticks since lastSeen, counted up to TTL + 1
          ideal    \* history: the tokens in a bucket that is never forgotten

rateVars == <<tokens, unused, ideal>>

RateInit == tokens = NoBucket /\ unused = 0 /\ ideal = Burst

InBucket == IF tokens = NoBucket THEN Burst ELSE tokens
Full(n) == IF n > Burst THEN Burst ELSE n

\* Allow: create or touch the entry, then take a token if there is one.
Allow ==
  /\ InBucket > 0
  /\ tokens' = InBucket - 1
  /\ unused' = 0
  /\ ideal' = IF ideal > 0 THEN ideal - 1 ELSE 0

Deny ==
  /\ InBucket = 0
  /\ unused' = 0
  /\ UNCHANGED <<tokens, ideal>>

Tick ==
  /\ tokens' = IF tokens = NoBucket THEN NoBucket ELSE Full(tokens + Rate)
  /\ ideal' = Full(ideal + Rate)
  /\ unused' = IF unused > TTL THEN unused ELSE unused + 1

\* Mutant of cleanup: the age is not looked at.
cleanupAll ==
  /\ tokens # NoBucket
  /\ tokens' = NoBucket
  /\ UNCHANGED <<unused, ideal>>

\* The janitor's cleanup: lastSeen < now - ttl.
cleanup ==
  /\ tokens # NoBucket
  /\ unused > TTL
  /\ tokens' = NoBucket
  /\ UNCHANGED <<unused, ideal>>
=============================================================================
