------------------------- MODULE TestimonialsProofs -------------------------
(***************************************************************************)
(* Proofs about Testimonials, for any number of concurrent requests, any   *)
(* MAX_LIMIT above one and any length of run.                              *)
(***************************************************************************)
EXTENDS Testimonials, FiniteSetTheorems, TLAPS

(* The initial values have the types.                                      *)
LEMMA InitType == Init => TypeOK
BY BoundsAssumption DEF Init, TypeOK, Rows, Ids

(* Every action keeps the types: ids stay below the sequence, creation     *)
(* times below the clock.                                                  *)
LEMMA NextType == TypeOK /\ [Next]_vars => TypeOK'
<1> SUFFICES ASSUME TypeOK, [Next]_vars PROVE TypeOK'
  OBVIOUS
<1> USE BoundsAssumption
<1>1. CASE UNCHANGED vars
  BY <1>1 DEF vars, TypeOK, Rows, Ids
<1>2. CASE Tick
  BY <1>2 DEF Tick, TypeOK, Rows, Ids
<1>3. ASSUME NEW c \in Creators, Request(c) PROVE TypeOK'
  <2>1. CASE SelectRoom(c)
    <3>1. overlapped' \in [Creators -> BOOLEAN]
      BY <2>1 DEF SelectRoom, Begin, TypeOK
    <3>2. /\ pc' \in [Creators -> {"idle", "delete", "insert"}]
          /\ stamp' \in [Creators -> 0 .. clock']
          /\ UNCHANGED <<table, lastId, clock, keep, since>>
      BY <2>1 DEF SelectRoom, NewTestimonial, TypeOK
    <3>3. QED
      BY <3>1, <3>2 DEF TypeOK, Rows, Ids
  <2>2. CASE SelectFull(c)
    <3>1. PICK K \in Newest(MaxLimit - 1) : keep' = [keep EXCEPT ![c] = K]
      BY <2>2 DEF SelectFull
    <3>2. K \subseteq Ids
      BY <3>1 DEF Newest, kSubset, TypeOK, Rows, Ids
    <3>3. /\ since' \in [Creators -> 0 .. lastId']
          /\ overlapped' \in [Creators -> BOOLEAN]
      <4>1. lastId \in 0 .. lastId
        BY DEF TypeOK
      <4>2. QED
        BY <2>2, <4>1 DEF SelectFull, Begin, TypeOK
    <3>4. QED
      BY <2>2, <3>1, <3>2, <3>3 DEF SelectFull, TypeOK, Rows, Ids
  <2>3. CASE DeleteOld(c)
    BY <2>3 DEF DeleteOld, NewTestimonial, TypeOK, Rows, Ids
  <2>4. CASE Insert(c)
    <3>1. /\ lastId' = lastId + 1 /\ lastId + 1 \in 0 .. MaxId
          /\ since' = [since EXCEPT ![c] = 0]
      BY <2>4 DEF Insert, End, TypeOK
    <3>2. since' \in [Creators -> 0 .. lastId']
      <4>1. \A d \in Creators : since[d] \in 0 .. lastId + 1
        BY DEF TypeOK
      <4>2. QED
        BY <3>1, <4>1 DEF TypeOK
    <3>3. QED
      BY <2>4, <3>2 DEF Insert, End, TypeOK, Rows, Ids
  <2>5. CASE Fail(c)
    BY <2>5 DEF Fail, End, TypeOK, Rows, Ids
  <2>6. QED
    BY <1>3, <2>1, <2>2, <2>3, <2>4, <2>5 DEF Request
<1>4. QED
  BY <1>1, <1>2, <1>3 DEF Next

(* The variables keep their types. *)
THEOREM TypeCorrect == Spec => []TypeOK
BY InitType, NextType, PTL DEF Spec

-----------------------------------------------------------------------------
(* The table, the requests at work and what a request spares are finite.   *)
LEMMA Finiteness ==
  ASSUME TypeOK
  PROVE  /\ IsFiniteSet(Rows) /\ Cardinality(Rows) \in Nat
         /\ IsFiniteSet(Inserting) /\ Cardinality(Inserting) \in Nat
         /\ Cardinality(Inserting) <= Cardinality(Creators)
         /\ Cardinality(Creators) \in Nat
         /\ \A c \in Creators : IsFiniteSet(keep[c])
<1>1. IsFiniteSet(1 .. lastId) /\ IsFiniteSet(Ids)
  <2>1. 1 \in Int /\ lastId \in Int /\ MaxId \in Int
    BY BoundsAssumption DEF TypeOK
  <2>2. QED
    BY <2>1, FS_Interval DEF Ids
<1>2. IsFiniteSet(Rows)
  BY <1>1, FS_Subset DEF TypeOK
<1>3. /\ IsFiniteSet(Inserting)
      /\ Cardinality(Inserting) <= Cardinality(Creators)
  BY CreatorsAssumption, FS_Subset DEF Inserting
<1>4. \A c \in Creators : IsFiniteSet(keep[c])
  BY <1>1, FS_Subset DEF TypeOK
<1>5. QED
  BY <1>2, <1>3, <1>4, CreatorsAssumption, FS_CardinalityType

(* A request that spares rows K spares a set of MAX_LIMIT - 1 of them.     *)
LEMMA NewestSize ==
  ASSUME NEW n, NEW K \in Newest(n)
  PROVE  K \subseteq Rows /\ Cardinality(K) = n
BY DEF Newest, kSubset

(* A request that goes on to insert leaves them at most all the requests.  *)
LEMMA InsertingGrows ==
  ASSUME TypeOK, NEW c \in Creators, pc[c] # "insert",
         pc' = [pc EXCEPT ![c] = "insert"]
  PROVE  Cardinality(Inserting') <= Cardinality(Creators)
<1>1. Inserting' \subseteq Creators
  BY DEF Inserting
<1>2. QED
  BY <1>1, CreatorsAssumption, FS_Subset

(* A request that ends or never inserts leaves one of them fewer, or none. *)
LEMMA InsertingShrinks ==
  ASSUME TypeOK, NEW c \in Creators, NEW place \in {"idle", "delete"},
         pc' = [pc EXCEPT ![c] = place]
  PROVE  /\ Cardinality(Inserting') \in Nat
         /\ pc[c] = "insert" => Cardinality(Inserting') = Cardinality(Inserting) - 1
         /\ pc[c] # "insert" => Cardinality(Inserting') = Cardinality(Inserting)
<1>1. Inserting' = Inserting \ {c}
  BY DEF Inserting, TypeOK
<1>2. IsFiniteSet(Inserting)
  BY Finiteness
<1>3. /\ IsFiniteSet(Inserting')
      /\ Cardinality(Inserting') = IF c \in Inserting
                                     THEN Cardinality(Inserting) - 1
                                     ELSE Cardinality(Inserting)
  BY <1>1, <1>2, FS_RemoveElement
<1>4. QED
  BY <1>3, FS_CardinalityType DEF Inserting

(* At the start the table is empty and nothing is pending.                 *)
LEMMA InitPending == Init => PendingBound
<1> SUFFICES ASSUME Init PROVE PendingBound
  OBVIOUS
<1>1. Rows = {} /\ Inserting = {}
  BY DEF Init, Rows, Inserting
<1>2. Cardinality(Rows) = 0 /\ Cardinality(Inserting) = 0
  BY <1>1, FS_EmptySet
<1>3. Cardinality(Creators) \in Nat
  BY CreatorsAssumption, FS_CardinalityType
<1>4. QED
  BY <1>2, <1>3, LimitAssumption DEF PendingBound, Init

(* Every action keeps rows and pending inserts within the bound.           *)
LEMMA NextPending == TypeOK /\ PendingBound /\ [Next]_vars => PendingBound'
<1> SUFFICES ASSUME TypeOK, PendingBound, [Next]_vars PROVE PendingBound'
  OBVIOUS
<1> USE LimitAssumption
<1>0. TypeOK'
  BY NextType
<1>1. CASE UNCHANGED vars
  BY <1>1 DEF vars, PendingBound, Rows, Inserting
<1>2. CASE Tick
  BY <1>2 DEF Tick, PendingBound, Rows, Inserting
<1>3. ASSUME NEW c \in Creators, Request(c) PROVE PendingBound'
  <2>1. CASE SelectRoom(c)
    <3>1. Rows' = Rows /\ Cardinality(Rows) <= MaxLimit - 1
      BY <2>1, Finiteness DEF SelectRoom, HasRoom, Rows
    <3>2. Cardinality(Inserting') <= Cardinality(Creators)
      BY <2>1, InsertingGrows DEF SelectRoom, Begin, NewTestimonial
    <3>3. \A d \in Creators : pc'[d] = "delete" => Cardinality(keep'[d]) = MaxLimit - 1
      BY <2>1 DEF SelectRoom, NewTestimonial, PendingBound, TypeOK
    <3>4. Cardinality(Inserting') \in Nat /\ Cardinality(Rows') \in Nat
      BY <1>0, <3>1, Finiteness, CreatorsAssumption, FS_Subset, FS_CardinalityType
         DEF Inserting
    <3>5. QED
      BY <3>1, <3>2, <3>3, <3>4, Finiteness DEF PendingBound
  <2>2. CASE SelectFull(c)
    <3>1. PICK K \in Newest(MaxLimit - 1) : keep' = [keep EXCEPT ![c] = K]
      BY <2>2 DEF SelectFull
    <3>2. Cardinality(K) = MaxLimit - 1
      BY <3>1, NewestSize
    <3>3. \A d \in Creators : pc'[d] = "delete" => Cardinality(keep'[d]) = MaxLimit - 1
      BY <2>2, <3>1, <3>2 DEF SelectFull, PendingBound, TypeOK
    <3>4. Cardinality(Inserting') = Cardinality(Inserting) /\ Rows' = Rows
      BY <2>2, InsertingShrinks DEF SelectFull, Begin, Rows
    <3>5. QED
      BY <3>3, <3>4 DEF PendingBound
  <2>3. CASE DeleteOld(c)
    <3>1. Rows' = Rows \cap keep[c]
      BY <2>3 DEF DeleteOld, Rows
    <3>2. Cardinality(Rows') <= MaxLimit - 1 /\ Cardinality(Rows') \in Nat
      BY <2>3, <3>1, Finiteness, FS_Intersection, FS_CardinalityType
         DEF DeleteOld, PendingBound
    <3>3. Cardinality(Inserting') <= Cardinality(Creators)
      BY <2>3, InsertingGrows DEF DeleteOld, NewTestimonial
    <3>4. Cardinality(Inserting') \in Nat
      BY CreatorsAssumption, FS_Subset, FS_CardinalityType DEF Inserting
    <3>5. \A d \in Creators : pc'[d] = "delete" => Cardinality(keep'[d]) = MaxLimit - 1
      BY <2>3 DEF DeleteOld, NewTestimonial, PendingBound, TypeOK
    <3>6. QED
      BY <3>2, <3>3, <3>4, <3>5, Finiteness DEF PendingBound
  <2>4. CASE Insert(c)
    <3>1. Rows' = Rows \cup {lastId + 1}
      BY <2>4 DEF Insert, Rows
    <3>2. lastId + 1 \notin Rows
      BY DEF TypeOK
    <3>3. Cardinality(Rows') = Cardinality(Rows) + 1
      BY <3>1, <3>2, Finiteness, FS_AddElement
    <3>4. Cardinality(Inserting') = Cardinality(Inserting) - 1
      BY <2>4, InsertingShrinks DEF Insert, End
    <3>5. \A d \in Creators : pc'[d] = "delete" => Cardinality(keep'[d]) = MaxLimit - 1
      BY <2>4 DEF Insert, End, PendingBound, TypeOK
    <3>6. QED
      BY <3>3, <3>4, <3>5, Finiteness DEF PendingBound
  <2>5. CASE Fail(c)
    <3>1. Rows' = Rows
      BY <2>5 DEF Fail, Rows
    <3>2. /\ Cardinality(Inserting') \in Nat
          /\ Cardinality(Inserting') <= Cardinality(Inserting)
      <4>1. pc' = [pc EXCEPT ![c] = "idle"]
        BY <2>5 DEF Fail, End
      <4>2. /\ Cardinality(Inserting') \in Nat
            /\ \/ Cardinality(Inserting') = Cardinality(Inserting) - 1
               \/ Cardinality(Inserting') = Cardinality(Inserting)
        BY <4>1, InsertingShrinks
      <4>3. QED
        BY <4>2, Finiteness
    <3>3. \A d \in Creators : pc'[d] = "delete" => Cardinality(keep'[d]) = MaxLimit - 1
      BY <2>5 DEF Fail, End, PendingBound, TypeOK
    <3>4. QED
      BY <3>1, <3>2, <3>3, Finiteness DEF PendingBound
  <2>6. QED
    BY <1>3, <2>1, <2>2, <2>3, <2>4, <2>5 DEF Request
<1>4. QED
  BY <1>1, <1>2, <1>3 DEF Next

(***************************************************************************)
(* The room that overlapping requests have counted on and not used yet is  *)
(* bounded too: rows with the inserts still to come, for any number of     *)
(* requests; and a delete under way spares one row less than MAX_LIMIT.    *)
(***************************************************************************)
THEOREM PendingCorrect == Spec => []PendingBound
<1>1. Init => TypeOK /\ PendingBound
  BY InitType, InitPending
<1>2. (TypeOK /\ PendingBound) /\ [Next]_vars => (TypeOK /\ PendingBound)'
  BY NextType, NextPending
<1>3. QED
  BY <1>1, <1>2, PTL DEF Spec

(***************************************************************************)
(* However many requests overlap, the table exceeds MAX_LIMIT by at most   *)
(* one row for each request beyond the first.                              *)
(***************************************************************************)
THEOREM TableStaysBounded == Spec => []TableBound
<1>1. TypeOK /\ PendingBound => TableBound
  BY Finiteness, LimitAssumption DEF PendingBound, TableBound
<1>2. QED
  BY <1>1, TypeCorrect, PendingCorrect, PTL

-----------------------------------------------------------------------------
(* What is read and spared stays; rows that come later have later ids.     *)
LEMMA NextRead == TypeOK /\ ReadNewestStay /\ [Next]_vars => ReadNewestStay'
<1> SUFFICES ASSUME TypeOK, ReadNewestStay, [Next]_vars PROVE ReadNewestStay'
  OBVIOUS
<1>1. CASE UNCHANGED vars \/ Tick
  BY <1>1 DEF vars, Tick, ReadNewestStay, Rows
<1>2. ASSUME NEW c \in Creators, Request(c) PROVE ReadNewestStay'
  <2>1. CASE SelectRoom(c)
    BY <2>1 DEF SelectRoom, NewTestimonial, ReadNewestStay, TypeOK, Rows
  <2>2. CASE SelectFull(c)
    <3>1. PICK K \in Newest(MaxLimit - 1) : keep' = [keep EXCEPT ![c] = K]
      BY <2>2 DEF SelectFull
    <3>2. /\ \A k \in K, i \in Rows \ K : table[i] <= table[k]
          /\ K \subseteq 1 .. lastId
      BY <3>1, NewestSize DEF Newest, TypeOK
    <3>3. QED
      BY <2>2, <3>1, <3>2 DEF SelectFull, ReadNewestStay, TypeOK, Rows
  <2>3. CASE DeleteOld(c)
    <3>1. Rows' \subseteq Rows /\ \A i \in Rows' : table'[i] = table[i]
      BY <2>3 DEF DeleteOld, Rows
    <3>2. \A d \in Creators : pc'[d] = "delete" =>
            pc[d] = "delete" /\ keep'[d] = keep[d] /\ since'[d] = since[d]
      BY <2>3 DEF DeleteOld, NewTestimonial, TypeOK
    <3>3. QED
      BY <3>1, <3>2 DEF ReadNewestStay
  <2>4. CASE Insert(c)
    <3>1. /\ Rows' = Rows \cup {lastId + 1}
          /\ \A i \in Rows : table'[i] = table[i]
      BY <2>4 DEF Insert, Rows, TypeOK
    <3>2. \A d \in Creators : pc'[d] = "delete" =>
            /\ pc[d] = "delete" /\ keep'[d] = keep[d] /\ since'[d] = since[d]
            /\ since[d] < lastId + 1
      BY <2>4 DEF Insert, End, TypeOK
    <3>3. ASSUME NEW d \in Creators, pc'[d] = "delete",
                 NEW i \in Rows' \ keep'[d], NEW k \in Rows' \cap keep'[d],
                 i <= since'[d]
          PROVE  table'[i] <= table'[k]
      <4>1. keep[d] \subseteq 1 .. since[d]
        BY <3>2, <3>3 DEF ReadNewestStay
      <4>2. i \in Rows /\ k \in Rows
        BY <3>1, <3>2, <3>3, <4>1 DEF TypeOK
      <4>3. QED
        BY <3>1, <3>2, <3>3, <4>2 DEF ReadNewestStay
    <3>4. QED
      BY <3>2, <3>3 DEF ReadNewestStay
  <2>5. CASE Fail(c)
    BY <2>5 DEF Fail, End, ReadNewestStay, TypeOK, Rows
  <2>6. QED
    BY <1>2, <2>1, <2>2, <2>3, <2>4, <2>5 DEF Request
<1>3. QED
  BY <1>1, <1>2 DEF Next

(***************************************************************************)
(* However many requests overlap, a delete takes none of the rows its      *)
(* request has read that is newer than a row it spares: what is lost among *)
(* the newest came after the list was read.                                *)
(***************************************************************************)
THEOREM ReadNewestAlwaysStay == Spec => []ReadNewestStay
<1>1. Init => TypeOK /\ ReadNewestStay
  BY InitType DEF Init, ReadNewestStay
<1>2. (TypeOK /\ ReadNewestStay) /\ [Next]_vars => (TypeOK /\ ReadNewestStay)'
  BY NextType, NextRead
<1>3. QED
  BY <1>1, <1>2, PTL DEF Spec

-----------------------------------------------------------------------------
(* At the start no request is at work, so none is lone.                    *)
LEMMA InitLone == Init => LoneInv
BY DEF Init, LoneInv, Lone

(* A request that begins while another is at work makes both overlapped.   *)
LEMMA BeginLone ==
  ASSUME TypeOK, NEW c \in Creators, Begin(c),
         NEW place \in {"delete", "insert"}, pc' = [pc EXCEPT ![c] = place],
         NEW d \in Creators, Lone(d)'
  PROVE  d = c /\ Active = {} /\ Active' = {c}
<1>1. d = c
  <2>1. SUFFICES ASSUME d # c PROVE FALSE
    OBVIOUS
  <2>2. d \in Active
    BY <2>1 DEF Lone, Active, TypeOK
  <2>3. overlapped'[d]
    BY <2>1, <2>2 DEF Begin
  <2>4. QED
    BY <2>3 DEF Lone
<1>2. Active = {}
  BY <1>1 DEF Lone, Begin
<1>3. Active' = {c}
  BY <1>2 DEF Active, TypeOK
<1>4. QED
  BY <1>1, <1>2, <1>3

(* A later step of a request neither makes a request lone nor starts one.  *)
LEMMA StaysLone ==
  ASSUME TypeOK, NEW c \in Creators, pc[c] # "idle", UNCHANGED overlapped,
         pc' = [pc EXCEPT ![c] = "insert"],
         NEW d \in Creators, Lone(d)', LoneInv
  PROVE  Lone(d) /\ d = c /\ Active' = {c}
<1>1. Lone(d)
  BY DEF Lone, TypeOK
<1>2. d = c
  BY <1>1 DEF LoneInv, Active
<1>3. Active' = Active
  BY DEF Active, TypeOK
<1>4. QED
  BY <1>1, <1>2, <1>3 DEF LoneInv

(* When a request ends, no request is lone: a lone one had no company.     *)
LEMMA EndLone ==
  ASSUME TypeOK, LoneInv, NEW c \in Creators, pc[c] # "idle", End(c),
         NEW d \in Creators
  PROVE  ~Lone(d)'
<1>1. SUFFICES ASSUME Lone(d)' PROVE FALSE
  OBVIOUS
<1>2. d # c
  BY <1>1 DEF Lone, End, TypeOK
<1>3. Lone(d) /\ c \in Active
  BY <1>1, <1>2 DEF Lone, End, TypeOK, Active
<1>4. QED
  BY <1>2, <1>3 DEF LoneInv

(* A lone delete leaves exactly the rows its request selected to spare.    *)
LEMMA LoneDelete ==
  ASSUME TypeOK, LoneInv, NEW c \in Creators, Lone(c), DeleteOld(c)
  PROVE  /\ Rows' = keep[c]
         /\ Cardinality(Rows') = MaxLimit - 1
         /\ \A i \in Rows \ Rows', k \in Rows' : table[i] <= table[k]
<1>1. keep[c] \in Newest(MaxLimit - 1)
  BY DEF LoneInv, DeleteOld
<1>2. Rows' = Rows \cap keep[c]
  BY DEF DeleteOld, Rows
<1>3. Rows' = keep[c]
  BY <1>1, <1>2, NewestSize
<1>4. QED
  BY <1>1, <1>3, NewestSize DEF Newest

(* A lone request keeps what it selected on until it writes.               *)
LEMMA NextLone == TypeOK /\ LoneInv /\ [Next]_vars => LoneInv'
<1> SUFFICES ASSUME TypeOK, LoneInv, [Next]_vars PROVE LoneInv'
  OBVIOUS
<1> USE LimitAssumption
<1>1. CASE UNCHANGED vars
  BY <1>1 DEF vars, LoneInv, Lone, Active, Newest, HasRoom, Rows
<1>2. CASE Tick
  BY <1>2 DEF Tick, LoneInv, Lone, Active, Newest, HasRoom, Rows
<1>3. ASSUME NEW c \in Creators, Request(c), NEW d \in Creators, Lone(d)'
      PROVE  /\ Active' = {d}
             /\ pc'[d] = "delete" => keep'[d] \in Newest(MaxLimit - 1)'
             /\ pc'[d] = "insert" => HasRoom'
  <2>1. CASE SelectRoom(c)
    <3>1. d = c /\ Active' = {d}
      BY <1>3, <2>1, BeginLone DEF SelectRoom, NewTestimonial
    <3>2. pc'[d] = "insert" /\ HasRoom'
      BY <2>1, <3>1 DEF SelectRoom, NewTestimonial, HasRoom, Rows, TypeOK
    <3>3. QED
      BY <3>1, <3>2
  <2>2. CASE SelectFull(c)
    <3>1. d = c /\ Active' = {d}
      BY <1>3, <2>2, BeginLone DEF SelectFull
    <3>2. pc'[d] = "delete" /\ keep'[d] \in Newest(MaxLimit - 1)
      BY <2>2, <3>1 DEF SelectFull, TypeOK
    <3>3. Newest(MaxLimit - 1)' = Newest(MaxLimit - 1)
      BY <2>2 DEF SelectFull, Newest, Rows
    <3>4. QED
      BY <3>1, <3>2, <3>3
  <2>3. CASE DeleteOld(c)
    <3>1. Lone(d) /\ d = c /\ Active' = {d}
      BY <1>3, <2>3, StaysLone DEF DeleteOld, NewTestimonial
    <3>2. pc'[d] = "insert"
      BY <2>3, <3>1 DEF DeleteOld, NewTestimonial, TypeOK
    <3>3. HasRoom'
      BY <2>3, <3>1, LoneDelete DEF HasRoom
    <3>4. QED
      BY <3>1, <3>2, <3>3
  <2>4. CASE Insert(c)
    BY <1>3, <2>4, EndLone DEF Insert
  <2>5. CASE Fail(c)
    BY <1>3, <2>5, EndLone DEF Fail
  <2>6. QED
    BY <1>3, <2>1, <2>2, <2>3, <2>4, <2>5 DEF Request
<1>4. QED
  BY <1>1, <1>2, <1>3 DEF Next, LoneInv

(***************************************************************************)
(* What a request that nobody overlaps counted still holds when it writes, *)
(* for any number of requests before and after it.                         *)
(***************************************************************************)
THEOREM LoneRequestsStayCurrent == Spec => []LoneInv
<1>1. (TypeOK /\ LoneInv) /\ [Next]_vars => (TypeOK /\ LoneInv)'
  BY NextType, NextLone
<1>2. QED
  BY <1>1, InitType, InitLone, PTL DEF Spec

(***************************************************************************)
(* A request no other overlaps leaves the table as a sequential service    *)
(* would, whatever overlapping requests have done to it before.            *)
(***************************************************************************)
THEOREM LoneRequestsRestoreTheLimit == Spec => LoneRequestRestoresTheLimit
<1>1. TypeOK /\ LoneInv =>
        \A c \in Creators : Lone(c) =>
          /\ DeleteOld(c) =>
               /\ Cardinality(Rows') = MaxLimit - 1
               /\ \A i \in Rows \ Rows', k \in Rows' : table[i] <= table[k]
          /\ Insert(c) => Cardinality(Rows') <= MaxLimit
  <2>1. SUFFICES ASSUME TypeOK, LoneInv, NEW c \in Creators, Lone(c), Insert(c)
                 PROVE  Cardinality(Rows') <= MaxLimit
    BY LoneDelete
  <2>2. HasRoom /\ Rows' = Rows \cup {lastId + 1}
    BY <2>1 DEF LoneInv, Insert, Rows
  <2>3. lastId + 1 \notin Rows
    BY <2>1 DEF TypeOK
  <2>4. Cardinality(Rows') = Cardinality(Rows) + 1
    BY <2>1, <2>2, <2>3, Finiteness, FS_AddElement
  <2>5. QED
    BY <2>1, <2>2, <2>4, Finiteness, LimitAssumption DEF HasRoom
<1>2. Init => TypeOK /\ LoneInv
  BY InitType, InitLone
<1>3. (TypeOK /\ LoneInv) /\ [Next]_vars => (TypeOK /\ LoneInv)'
  BY NextType, NextLone
<1>4. QED
  BY <1>1, <1>2, <1>3, PTL DEF Spec, LoneRequestRestoresTheLimit

-----------------------------------------------------------------------------
(* At the start nothing overlaps and nothing waits to be written.          *)
LEMMA InitSole == Init => SoleInv
BY DEF Init, SoleInv

(* A sole request selects on what no one changes before it writes.         *)
LEMMA NextSole ==
  ASSUME NEW sole, Creators = {sole}
  PROVE  TypeOK /\ SoleInv /\ [Next]_vars => SoleInv'
<1> SUFFICES ASSUME TypeOK, SoleInv, [Next]_vars PROVE SoleInv'
  OBVIOUS
<1>1. CASE UNCHANGED vars
  BY <1>1 DEF vars, SoleInv, HasRoom, Rows
<1>2. CASE Tick
  BY <1>2 DEF Tick, SoleInv, HasRoom, Rows
<1>3. ASSUME Request(sole) PROVE SoleInv'
  <2>1. CASE SelectRoom(sole)
    <3>1. ~overlapped'[sole]
      BY <2>1 DEF SelectRoom, Begin, Active
    <3>2. pc'[sole] = "insert" /\ stamp'[sole] = clock
      BY <2>1 DEF SelectRoom, NewTestimonial, TypeOK
    <3>3. \A i \in Rows' : table'[i] <= clock
      BY <2>1 DEF SelectRoom, TypeOK, Rows
    <3>4. QED
      BY <3>1, <3>2, <3>3 DEF SoleInv
  <2>2. CASE SelectFull(sole)
    <3>1. ~overlapped'[sole]
      BY <2>2 DEF SelectFull, Begin, Active
    <3>2. pc'[sole] = "delete" /\ ~HasRoom'
      BY <2>2 DEF SelectFull, HasRoom, Rows, TypeOK
    <3>3. QED
      BY <3>1, <3>2 DEF SoleInv
  <2>3. CASE DeleteOld(sole)
    <3>1. ~overlapped'[sole]
      BY <2>3 DEF DeleteOld, SoleInv
    <3>2. pc'[sole] = "insert" /\ stamp'[sole] = clock
      BY <2>3 DEF DeleteOld, NewTestimonial, TypeOK
    <3>3. \A i \in Rows' : table'[i] <= clock
      BY <2>3 DEF DeleteOld, TypeOK, Rows
    <3>4. QED
      BY <3>1, <3>2, <3>3 DEF SoleInv
  <2>4. CASE Insert(sole)
    BY <2>4 DEF Insert, End, SoleInv, TypeOK
  <2>5. CASE Fail(sole)
    BY <2>5 DEF Fail, End, SoleInv, TypeOK
  <2>6. QED
    BY <1>3, <2>1, <2>2, <2>3, <2>4, <2>5 DEF Request
<1>4. QED
  BY <1>1, <1>2, <1>3 DEF Next

(* The board counts as this module counts.                                 *)
LEMMA BoardCounts == \A S : Board!Cardinality(S) = Cardinality(S)
BY Zenon DEF Board!Cardinality, Cardinality

(* A delete takes the oldest posts down; an insert puts a newer post up;   *)
(* nothing else touches the board.                                         *)
LEMMA StepImplementsBoard ==
  ASSUME TypeOK, LoneInv, SoleInv, [Next]_vars
  PROVE  [Board!Next]_table
<1> USE LimitAssumption, BoundsAssumption
<1>1. CASE UNCHANGED vars \/ Tick
  BY <1>1 DEF vars, Tick
<1>2. ASSUME NEW c \in Creators, Request(c) PROVE [Board!Next]_table
  <2>1. CASE SelectRoom(c) \/ SelectFull(c) \/ Fail(c)
    BY <2>1 DEF SelectRoom, SelectFull, Fail
  <2>2. CASE DeleteOld(c)
    <3>1. Lone(c)
      BY <2>2 DEF DeleteOld, SoleInv, Lone
    <3>2. keep[c] \in Newest(MaxLimit - 1)
      BY <2>2, <3>1 DEF LoneInv, DeleteOld
    <3>3. /\ keep[c] \in SUBSET Rows
          /\ Cardinality(keep[c]) = MaxLimit - 1
          /\ \A i \in Rows \ keep[c], k \in keep[c] : table[i] <= table[k]
      BY <3>2, NewestSize DEF Newest
    <3>4. table' = [i \in keep[c] |-> table[i]]
      <4>1. Rows \cap keep[c] = keep[c]
        BY <3>3
      <4>2. QED
        BY <2>2, <4>1 DEF DeleteOld
    <3>5. Cardinality(Rows) >= MaxLimit
      BY <2>2, Finiteness DEF SoleInv, HasRoom, DeleteOld
    <3>6. Board!MakeRoom
      BY <3>3, <3>4, <3>5, BoardCounts DEF Board!MakeRoom, Board!Posts, Rows
    <3>7. QED
      BY <3>6 DEF Board!Next
  <2>3. CASE Insert(c)
    <3>1. Lone(c)
      BY <2>3 DEF Insert, SoleInv, Lone
    <3>2. Cardinality(Rows) < MaxLimit
      BY <2>3, <3>1 DEF LoneInv, Insert, HasRoom
    <3>3. /\ lastId + 1 \in Ids
          /\ stamp[c] \in 0 .. MaxClock
      BY <2>3 DEF Insert, TypeOK, Ids
    <3>4. \A i \in Rows : i < lastId + 1 /\ table[i] <= stamp[c]
      BY <2>3 DEF Insert, SoleInv, TypeOK
    <3>5. table' = [i \in Rows \cup {lastId + 1} |->
                      IF i = lastId + 1 THEN stamp[c] ELSE table[i]]
      BY <2>3 DEF Insert
    <3>6. Board!Post
      BY <3>2, <3>3, <3>4, <3>5, BoardCounts DEF Board!Post, Board!Posts, Rows
    <3>7. QED
      BY <3>6 DEF Board!Next
  <2>4. QED
    BY <1>2, <2>1, <2>2, <2>3 DEF Request
<1>3. QED
  BY <1>1, <1>2 DEF Next

(***************************************************************************)
(* With requests one at a time, a delete that is about to run is called    *)
(* for and an insert is at least as recent as every row, for any limit.    *)
(***************************************************************************)
THEOREM SoleRequestsStayCurrent ==
  ASSUME NEW CONSTANT sole, Creators = {sole}
  PROVE  Spec => []SoleInv
<1>1. (TypeOK /\ SoleInv) /\ [Next]_vars => (TypeOK /\ SoleInv)'
  BY NextType, NextSole
<1>2. QED
  BY <1>1, InitType, InitSole, PTL DEF Spec

(***************************************************************************)
(* The service whose requests come one at a time implements the board.     *)
(***************************************************************************)
THEOREM SoleRequestsImplementBoard ==
  ASSUME NEW CONSTANT sole, Creators = {sole}
  PROVE  Spec => ImplementsBoard
<1>1. Init => TypeOK /\ LoneInv /\ SoleInv /\ Board!Init
  BY InitType, InitLone, InitSole DEF Init, Board!Init
<1>2. (TypeOK /\ LoneInv /\ SoleInv) /\ [Next]_vars => (TypeOK /\ LoneInv /\ SoleInv)'
  BY NextType, NextLone, NextSole
<1>3. (TypeOK /\ LoneInv /\ SoleInv) /\ [Next]_vars => [Board!Next]_table
  BY StepImplementsBoard
<1>4. QED
  BY <1>1, <1>2, <1>3, PTL DEF Spec, ImplementsBoard, Board!Spec

=============================================================================
