-------------------------- MODULE AuthGuardProofs ---------------------------
(***************************************************************************)
(* Proofs about AuthGuard, for any number of requests and keys.            *)
(***************************************************************************)
EXTENDS AuthGuard, FiniteSetTheorems, TLAPS

(* The initial values have the types.                                      *)
LEMMA InitType == Init => TypeOK
BY DEF Init, TypeOK

(* Every action keeps the types.                                           *)
LEMMA NextType == TypeOK /\ [Next]_vars => TypeOK'
<1> SUFFICES ASSUME TypeOK, [Next]_vars PROVE TypeOK'
  OBVIOUS
<1>1. CASE UNCHANGED vars
  BY <1>1 DEF vars, TypeOK
<1>2. CASE Rotate
  <2>1. keys' \in SUBSET Keys /\ UNCHANGED <<pc, token, jwks, attempts>>
    BY <1>2 DEF Rotate
  <2>2. seen' \in [Requests -> SUBSET Keys]
    BY <1>2 DEF Rotate, TypeOK
  <2>3. QED
    BY <2>1, <2>2 DEF TypeOK
<1>3. ASSUME NEW r \in Requests, Arrive(r) \/ Guard(r) PROVE TypeOK'
  <2>1. CASE Arrive(r)
    BY <2>1 DEF Arrive, Goto, TypeOK, Refused
  <2>2. CASE OwnAccepts(r)
    BY <2>2 DEF OwnAccepts, Goto, Count, TypeOK, Allowed, Refused
  <2>3. CASE OwnRejects(r)
    BY <2>3 DEF OwnRejects, Goto, Count, TypeOK
  <2>4. CASE BearerFails(r)
    BY <2>4 DEF BearerFails, Goto, Count, TypeOK, Refused
  <2>5. CASE KeysAnswered(r)
    BY <2>5 DEF KeysAnswered, Goto, TypeOK
  <2>6. CASE BearerAccepts(r)
    BY <2>6 DEF BearerAccepts, Goto, Count, TypeOK, Allowed
  <2>7. CASE BearerRejects(r)
    BY <2>7 DEF BearerRejects, Goto, Count, TypeOK, Refused
  <2>8. QED
    BY <1>3, <2>1, <2>2, <2>3, <2>4, <2>5, <2>6, <2>7 DEF Guard
<1>4. QED
  BY <1>1, <1>2, <1>3 DEF Next

(* The variables keep their types. *)
THEOREM TypeCorrect == Spec => []TypeOK
BY InitType, NextType, PTL DEF Spec

-----------------------------------------------------------------------------
(* What is counted are finite sets of requests.                            *)
LEMMA TriesFinite ==
  /\ IsFiniteSet(Succeeded) /\ Cardinality(Succeeded) \in Nat
  /\ IsFiniteSet(FailedOnce) /\ Cardinality(FailedOnce) \in Nat
  /\ IsFiniteSet(FailedTwice) /\ Cardinality(FailedTwice) \in Nat
<1>1. /\ Succeeded \subseteq Requests
      /\ FailedOnce \subseteq Requests
      /\ FailedTwice \subseteq Requests
  BY DEF Succeeded, FailedOnce, FailedTwice
<1>2. QED
  BY <1>1, RequestsAssumption, FS_Subset, FS_CardinalityType

(* A set a request joins or leaves, or was in or out of before.            *)
LEMMA Joins ==
  ASSUME NEW A, IsFiniteSet(A), Cardinality(A) \in Nat, NEW r
  PROVE  /\ r \notin A => Cardinality(A \cup {r}) = Cardinality(A) + 1
         /\ r \in A => Cardinality(A \ {r}) = Cardinality(A) - 1
         /\ r \in A => A \cup {r} = A
         /\ r \notin A => A \ {r} = A
BY FS_AddElement, FS_RemoveElement

(* At the start no request has been tried, and nothing has been counted.   *)
LEMMA InitAttempts == Init => AttemptsAddUp
<1> SUFFICES ASSUME Init PROVE AttemptsAddUp
  OBVIOUS
<1>1. Succeeded = {} /\ FailedOnce = {} /\ FailedTwice = {}
  BY DEF Init, Succeeded, FailedOnce, FailedTwice
<1>2. QED
  BY <1>1, FS_EmptySet DEF Init, AttemptsAddUp

(* Every try is counted once, where its request goes.                      *)
LEMMA NextAttempts == TypeOK /\ AttemptsAddUp /\ [Next]_vars => AttemptsAddUp'
<1> SUFFICES ASSUME TypeOK, AttemptsAddUp, [Next]_vars PROVE AttemptsAddUp'
  OBVIOUS
<1>0. attempts = [success |-> attempts.success, failure |-> attempts.failure]
  BY DEF TypeOK
<1>1. CASE UNCHANGED vars \/ Rotate
  BY <1>1 DEF vars, Rotate, AttemptsAddUp, Succeeded, FailedOnce, FailedTwice
<1>2. ASSUME NEW r \in Requests, Arrive(r) \/ Guard(r) PROVE AttemptsAddUp'
  <2> USE TriesFinite
  <2>1. CASE Arrive(r) \/ KeysAnswered(r)
    <3>1. UNCHANGED <<Succeeded, FailedOnce, FailedTwice, attempts>>
      BY <2>1 DEF Arrive, KeysAnswered, Goto, TypeOK,
                  Succeeded, FailedOnce, FailedTwice
    <3>2. QED
      BY <3>1 DEF AttemptsAddUp
  <2>2. CASE OwnAccepts(r)
    <3>1. /\ r \notin Succeeded /\ Succeeded' = Succeeded \cup {r}
          /\ UNCHANGED <<FailedOnce, FailedTwice>>
      BY <2>2 DEF OwnAccepts, Goto, TypeOK, Succeeded, FailedOnce, FailedTwice
    <3>2. Cardinality(Succeeded') = Cardinality(Succeeded) + 1
      BY <3>1, Joins
    <3>3. QED
      BY <1>0, <2>2, <3>1, <3>2 DEF OwnAccepts, Count, AttemptsAddUp
  <2>3. CASE OwnRejects(r)
    <3>1. /\ r \notin FailedOnce /\ FailedOnce' = FailedOnce \cup {r}
          /\ UNCHANGED <<Succeeded, FailedTwice>>
      BY <2>3 DEF OwnRejects, Goto, TypeOK, Succeeded, FailedOnce, FailedTwice
    <3>2. Cardinality(FailedOnce') = Cardinality(FailedOnce) + 1
      BY <3>1, Joins
    <3>3. QED
      BY <1>0, <2>3, <3>1, <3>2 DEF OwnRejects, Count, AttemptsAddUp
  <2>4. CASE BearerFails(r) \/ BearerRejects(r)
    <3>1. /\ r \in FailedOnce /\ FailedOnce' = FailedOnce \ {r}
          /\ r \notin FailedTwice /\ FailedTwice' = FailedTwice \cup {r}
          /\ UNCHANGED Succeeded
      BY <2>4 DEF BearerFails, BearerRejects, Goto, TypeOK,
                  Succeeded, FailedOnce, FailedTwice
    <3>2. /\ Cardinality(FailedOnce') = Cardinality(FailedOnce) - 1
          /\ Cardinality(FailedTwice') = Cardinality(FailedTwice) + 1
      BY <3>1, Joins
    <3>3. /\ attempts'.success = attempts.success
          /\ attempts'.failure = attempts.failure + 1
      BY <1>0, <2>4 DEF BearerFails, BearerRejects, Count
    <3>4. QED
      BY <3>1, <3>2, <3>3 DEF AttemptsAddUp
  <2>5. CASE BearerAccepts(r)
    <3>1. /\ r \notin Succeeded /\ Succeeded' = Succeeded \cup {r}
          /\ UNCHANGED <<FailedOnce, FailedTwice>>
      BY <2>5 DEF BearerAccepts, Goto, TypeOK, Succeeded, FailedOnce, FailedTwice
    <3>2. Cardinality(Succeeded') = Cardinality(Succeeded) + 1
      BY <3>1, Joins
    <3>3. QED
      BY <1>0, <2>5, <3>1, <3>2 DEF BearerAccepts, Count, AttemptsAddUp
  <2>6. QED
    BY <1>2, <2>1, <2>2, <2>3, <2>4, <2>5 DEF Guard
<1>3. QED
  BY <1>1, <1>2 DEF Next

(***************************************************************************)
(* auth.attempts adds up for any number of overlapping requests: successes *)
(* are requests let in or with a null payload; a 401 has failed twice.     *)
(***************************************************************************)
THEOREM AttemptsAlwaysAddUp == Spec => []AttemptsAddUp
<1>1. Init => TypeOK /\ AttemptsAddUp
  BY InitType, InitAttempts
<1>2. (TypeOK /\ AttemptsAddUp) /\ [Next]_vars => (TypeOK /\ AttemptsAddUp)'
  BY NextType, NextAttempts
<1>3. QED
  BY <1>1, <1>2, PTL DEF Spec

-----------------------------------------------------------------------------
(* What a request has seen grows with every rotation.                      *)
LEMMA NextFetched ==
  TypeOK /\ FetchedWasPublished /\ [Next]_vars => FetchedWasPublished'
<1> SUFFICES ASSUME TypeOK, FetchedWasPublished, [Next]_vars
             PROVE  FetchedWasPublished'
  OBVIOUS
<1>1. CASE UNCHANGED vars
  BY <1>1 DEF vars, FetchedWasPublished
<1>2. CASE Rotate
  BY <1>2 DEF Rotate, FetchedWasPublished, TypeOK
<1>3. ASSUME NEW r \in Requests, Arrive(r) \/ Guard(r)
      PROVE  FetchedWasPublished'
  <2>1. CASE Arrive(r)
    BY <2>1 DEF Arrive, Goto, FetchedWasPublished, TypeOK
  <2>2. CASE OwnAccepts(r)
    BY <2>2 DEF OwnAccepts, Goto, FetchedWasPublished, TypeOK
  <2>3. CASE OwnRejects(r)
    BY <2>3 DEF OwnRejects, Goto, FetchedWasPublished, TypeOK
  <2>4. CASE BearerFails(r) \/ BearerRejects(r)
    BY <2>4 DEF BearerFails, BearerRejects, Goto, FetchedWasPublished, TypeOK
  <2>5. CASE KeysAnswered(r)
    BY <2>5 DEF KeysAnswered, Goto, FetchedWasPublished, TypeOK
  <2>6. CASE BearerAccepts(r)
    BY <2>6 DEF BearerAccepts, Goto, FetchedWasPublished, TypeOK
  <2>7. QED
    BY <1>3, <2>1, <2>2, <2>3, <2>4, <2>5, <2>6 DEF Guard
<1>4. QED
  BY <1>1, <1>2, <1>3 DEF Next

(***************************************************************************)
(* The keys a request has fetched were published at some time since it     *)
(* came, however often Keycloak rotates them meanwhile.                    *)
(***************************************************************************)
THEOREM FetchedKeysWerePublished == Spec => []FetchedWasPublished
<1>1. Init => TypeOK /\ FetchedWasPublished
  BY InitType DEF Init, FetchedWasPublished
<1>2. (TypeOK /\ FetchedWasPublished) /\ [Next]_vars
        => (TypeOK /\ FetchedWasPublished)'
  BY NextType, NextFetched
<1>3. QED
  BY <1>1, <1>2, PTL DEF Spec

(***************************************************************************)
(* The bearer processor lets a token in only if its key was published at   *)
(* some time since the request came, for any number of requests and        *)
(* rotations.                                                              *)
(***************************************************************************)
THEOREM BearerKeysWerePublished == Spec => []BearerKeyWasPublished
<1>1. FetchedWasPublished => BearerKeyWasPublished
  BY DEF FetchedWasPublished, BearerKeyWasPublished
<1>2. QED
  BY <1>1, FetchedKeysWerePublished, PTL

=============================================================================
