----------------------------- MODULE AuthGuard ------------------------------
(***************************************************************************)
(* AuthGuard and AuthService.validateToken: every guarded request has its  *)
(* token tried with the processor its handler names, and, when that one    *)
(* throws, once more with the bearer processor, which asks Keycloak for    *)
(* its keys each time.  Requests interleave while they wait for the keys,  *)
(* and Keycloak may rotate them meanwhile.  Each try is counted once in    *)
(* auth.attempts, which all requests share.                                *)
(***************************************************************************)
EXTENDS Naturals, FiniteSets

CONSTANTS
  Requests,
  Keys       \* the keys Keycloak signs with, one after the other

ASSUME RequestsAssumption == IsFiniteSet(Requests)

(* What a request can carry: nothing; a token its handler's processor      *)
(* accepts; one it accepts whose payload is null; a token of Keycloak's,   *)
(* by its key; anything else.                                              *)
Tokens == {"none", "own", "null", "junk"} \cup Keys

ASSUME KeysAssumption == Keys \cap {"none", "own", "null", "junk"} = {}

VARIABLES
  pc,        \* where each request is
  token,     \* what it carries
  jwks,      \* the keys Keycloak last answered it with
  attempts,  \* auth.attempts: [success, failure]
  keys,      \* the keys Keycloak publishes
  seen       \* history: keys published at some time since a request came

vars == <<pc, token, jwks, attempts, keys, seen>>

(* The two verdicts of the handler's own processor, the two of the bearer  *)
(* processor, and the one for no token at all.                             *)
Allowed == {"allowed", "bearer"}
Refused == {"forbidden", "nullPayload", "unauthorized"}

TypeOK ==
  /\ pc \in [Requests -> {"new", "own", "keys", "verify"} \cup Allowed \cup Refused]
  /\ token \in [Requests -> Tokens]
  /\ jwks \in [Requests -> SUBSET Keys]
  /\ attempts \in [success : Nat, failure : Nat]
  /\ keys \in SUBSET Keys
  /\ seen \in [Requests -> SUBSET Keys]

Init ==
  /\ pc = [r \in Requests |-> "new"]
  /\ token \in [Requests -> Tokens]
  /\ jwks = [r \in Requests |-> {}]
  /\ attempts = [success |-> 0, failure |-> 0]
  /\ keys \in SUBSET Keys
  /\ seen = [r \in Requests |-> {}]

Goto(r, place) == pc' = [pc EXCEPT ![r] = place]
Count(outcome) == attempts' = [attempts EXCEPT ![outcome] = @ + 1]

-----------------------------------------------------------------------------
(* Mutant of Arrive: the token is not told from its absence.               *)
ArriveUnread(r) ==
  /\ pc[r] = "new"
  /\ Goto(r, token[r])
  /\ seen' = [seen EXCEPT ![r] = keys]
  /\ UNCHANGED <<token, jwks, attempts, keys>>

(* extractToken finds no token, and the guard returns false; or it finds   *)
(* one and the handler's processor gets it.                                *)
Arrive(r) ==
  /\ pc[r] = "new"
  /\ Goto(r, IF token[r] = "none" THEN "forbidden" ELSE "own")
  /\ seen' = [seen EXCEPT ![r] = keys]
  /\ UNCHANGED <<token, jwks, attempts, keys>>

(* A payload that is null is no error, but no pass either.                 *)
OwnAccepts(r) ==
  /\ pc[r] = "own"
  /\ token[r] \in {"own", "null"}
  /\ Count("success")
  /\ Goto(r, IF token[r] = "own" THEN "allowed" ELSE "nullPayload")
  /\ UNCHANGED <<token, jwks, keys, seen>>

(* Mutant of OwnRejects: the first try is not counted.                     *)
OwnRejectsQuietly(r) ==
  /\ pc[r] = "own"
  /\ token[r] \notin {"own", "null"}
  /\ Goto(r, "keys")
  /\ UNCHANGED <<token, jwks, attempts, keys, seen>>

(* The processor throws; the bearer processor is next.                     *)
OwnRejects(r) ==
  /\ pc[r] = "own"
  /\ token[r] \notin {"own", "null"}
  /\ Count("failure")
  /\ Goto(r, "keys")
  /\ UNCHANGED <<token, jwks, keys, seen>>

(* The token cannot be parsed or has no kid, or Keycloak's keys cannot be  *)
(* had: the bearer processor throws too.                                   *)
BearerFails(r) ==
  /\ pc[r] = "keys"
  /\ Count("failure")
  /\ Goto(r, "unauthorized")
  /\ UNCHANGED <<token, jwks, keys, seen>>

(* Mutant of KeysAnswered: the keys another request got are used again.    *)
KeysRemembered(r) ==
  /\ pc[r] = "keys"
  /\ \E s \in Requests :
       jwks' = [jwks EXCEPT ![r] = IF jwks[s] = {} THEN keys ELSE jwks[s]]
  /\ Goto(r, "verify")
  /\ UNCHANGED <<token, attempts, keys, seen>>

(* Keycloak answers with the keys it publishes then; the answer is on its  *)
(* way while Keycloak goes on.                                             *)
KeysAnswered(r) ==
  /\ pc[r] = "keys"
  /\ token[r] \in Keys \cup {"junk"}
  /\ jwks' = [jwks EXCEPT ![r] = keys]
  /\ Goto(r, "verify")
  /\ UNCHANGED <<token, attempts, keys, seen>>

BearerAccepts(r) ==
  /\ pc[r] = "verify"
  /\ token[r] \in jwks[r]
  /\ Count("success")
  /\ Goto(r, "bearer")
  /\ UNCHANGED <<token, jwks, keys, seen>>

(* No such kid among the keys, a bad signature, an expired token, or an    *)
(* answer that never arrives.                                              *)
BearerRejects(r) ==
  /\ pc[r] = "verify"
  /\ Count("failure")
  /\ Goto(r, "unauthorized")
  /\ UNCHANGED <<token, jwks, keys, seen>>

(* Keycloak rotates its keys: it publishes others from now on.             *)
Rotate ==
  /\ keys' \in SUBSET Keys
  /\ seen' = [r \in Requests |->
                IF pc[r] = "new" THEN seen[r] ELSE seen[r] \cup keys']
  /\ UNCHANGED <<pc, token, jwks, attempts>>

Guard(r) ==
  \/ OwnAccepts(r) \/ OwnRejects(r)
  \/ BearerFails(r) \/ KeysAnswered(r)
  \/ BearerAccepts(r) \/ BearerRejects(r)

Next == Rotate \/ \E r \in Requests : Arrive(r) \/ Guard(r)

(* Without fairness: axios sets no timeout, so keys need never come, and a *)
(* request may wait for them for ever.                                     *)
Spec == Init /\ [][Next]_vars

-----------------------------------------------------------------------------
(* The requests with a try that succeeded, with one that failed, with two. *)
Succeeded == {r \in Requests : pc[r] \in {"allowed", "nullPayload", "bearer"}}
FailedOnce == {r \in Requests : pc[r] \in {"keys", "verify", "bearer"}}
FailedTwice == {r \in Requests : pc[r] = "unauthorized"}

(***************************************************************************)
(* What auth.attempts says of the requests, at any moment and however they *)
(* overlap: each success is a request let in, or one whose payload is      *)
(* null; a request refused with 401 has failed twice, and one the bearer   *)
(* processor let in, or still has, once.  The failures are therefore not   *)
(* the refusals.                                                           *)
(***************************************************************************)
AttemptsAddUp ==
  /\ attempts.success = Cardinality(Succeeded)
  /\ attempts.failure = Cardinality(FailedOnce) + 2 * Cardinality(FailedTwice)

(***************************************************************************)
(* The keys are fetched for each request and never kept: a token is let in *)
(* by the bearer processor only if Keycloak published its key at some time *)
(* since the request came, however rotations and requests interleave.      *)
(***************************************************************************)
BearerKeyWasPublished ==
  \A r \in Requests : pc[r] = "bearer" => token[r] \in seen[r]

(* Why: a request has seen the keys published now, and what is on its way  *)
(* to it was published since it came.                                      *)
FetchedWasPublished ==
  \A r \in Requests :
    /\ pc[r] # "new" => keys \subseteq seen[r]
    /\ pc[r] \in {"verify", "bearer"} => jwks[r] \subseteq seen[r]
    /\ pc[r] = "bearer" => token[r] \in jwks[r]

=============================================================================
