---------------------------- MODULE ProfileProofs ---------------------------
(***************************************************************************)
(* A user's row under any number of requests: types, and that a field      *)
(* acknowledged is lost only to a request that assigns the same field.     *)
(***************************************************************************)
EXTENDS Profile, TLAPS

(* What every handler does first: it arrives, or it refuses.               *)
Arrives(r) ==
  \E k \in Updates \cup Reads, place \in {"guard", "find"},
     fields \in SUBSET [Fields -> Values \cup {Keep}] : Arrive(r, k, place, fields)

Refuses(r) ==
  \E k \in Updates \cup Reads, codes \in SUBSET {401, 403, 404, 500} : Refuse(r, k, codes)

Passes(r) ==
  /\ \/ step[r] = "guard" /\ Goto(r, "find")
     \/ step[r] \in {"find2", "hash"} /\ Goto(r, "flush")
  /\ UNCHANGED <<row, kind, data, found, code, rivals>>

LEMMA Handlers ==
  ASSUME NEW r \in Requests,
         \/ ChangeUserInfo(r) \/ UpdateAuthenticatedUser(r)
         \/ UploadPhoto(r) \/ DeleteUserPhotoById(r)
         \/ GetByEmail(r) \/ GetById(r) \/ GetFullUserInfo(r) \/ SearchByName(r)
         \/ GetUserPhoto(r) \/ LdapQuery(r) \/ GetUserInfo(r) \/ GetAuthenticatedUser(r)
         \/ AdminGuard(r)
  PROVE  Arrives(r) \/ Refuses(r)
<1> DEFINE Data == [Fields -> Values \cup {Keep}]
<1>1. Nothing \in SUBSET Data /\ Info \in SUBSET Data
      /\ Photo(0) \in SUBSET Data /\ Photo(1) \in SUBSET Data
  BY DEF Nothing, Info, Photo, Values
<1>2. \A k \in Updates \cup Reads, place \in {"guard", "find"}, fields \in SUBSET Data :
        Arrive(r, k, place, fields) => Arrives(r)
  BY DEF Arrives
<1>3. \A k \in Updates \cup Reads, codes \in SUBSET {401, 403, 404, 500} :
        Refuse(r, k, codes) => Refuses(r)
  BY DEF Refuses
<1> HIDE DEF Data
<1>4. CASE ChangeUserInfo(r) \/ UpdateAuthenticatedUser(r) \/ UploadPhoto(r)
           \/ DeleteUserPhotoById(r)
  BY <1>1, <1>2, <1>3, <1>4 DEF ChangeUserInfo, UpdateAuthenticatedUser, UploadPhoto,
     DeleteUserPhotoById, Updates
<1>5. CASE GetByEmail(r) \/ GetById(r) \/ GetFullUserInfo(r)
  <2>1. "one" \in Reads /\ "id" \in Reads /\ "fullinfo" \in Reads
        /\ {404, 500} \in SUBSET {401, 403, 404, 500}
    BY DEF Reads
  <2>2. GetByEmail(r) => Arrives(r) \/ Refuses(r)
    BY <1>1, <1>2, <1>3, <2>1 DEF GetByEmail
  <2>3. GetById(r) => Arrives(r) \/ Refuses(r)
    BY <1>1, <1>2, <1>3, <2>1 DEF GetById
  <2>4. GetFullUserInfo(r) => Arrives(r) \/ Refuses(r)
    BY <1>1, <1>2, <1>3, <2>1 DEF GetFullUserInfo
  <2> QED BY <1>5, <2>2, <2>3, <2>4
<1>6. CASE SearchByName(r) \/ GetUserPhoto(r) \/ LdapQuery(r)
  BY <1>1, <1>2, <1>3, <1>6 DEF SearchByName, GetUserPhoto, LdapQuery, Reads
<1>7. CASE GetUserInfo(r) \/ GetAuthenticatedUser(r) \/ AdminGuard(r)
  BY <1>1, <1>2, <1>3, <1>7 DEF GetUserInfo, GetAuthenticatedUser, AdminGuard, Reads
<1> QED BY <1>4, <1>5, <1>6, <1>7

(* The steps of all requests, by what they do to the variables.            *)
LEMMA Steps ==
  ASSUME [Next]_vars
  PROVE  \/ \E r \in Requests : \/ Arrives(r) \/ Refuses(r) \/ Passes(r) \/ Find(r)
                                \/ Flush(r) \/ FlushFails(r) \/ FindFails(r)
         \/ UNCHANGED vars
<1>1. ASSUME NEW r \in Requests, GetAdminStatus(r) \/ FindAgain(r) \/ HashPassword(r)
      PROVE  Passes(r)
  BY <1>1 DEF GetAdminStatus, FindAgain, HashPassword, Passes
<1> QED BY <1>1, Handlers DEF Next, Update

-----------------------------------------------------------------------------
LEMMA InitType == Init => TypeOK
BY DEF Init, TypeOK, Start, Fields, Values, Keep, Updates, Reads

(* What a flush writes is a row.                                           *)
LEMMA ChangeSetType ==
  ASSUME TypeOK, NEW r \in Requests
  PROVE  ChangeSet(r) \in [Fields -> Values]
<1>1. row \in [Fields -> Values] /\ data[r] \in [Fields -> Values \cup {Keep}]
  BY DEF TypeOK
<1>2. \A f \in Fields : data[r][f] # Keep => data[r][f] \in Values
  BY <1>1
<1> QED BY <1>1, <1>2 DEF ChangeSet, Assigned

LEMMA NextType == TypeOK /\ [Next]_vars => TypeOK'
<1> SUFFICES ASSUME TypeOK, [Next]_vars PROVE TypeOK'
  OBVIOUS
<1>1. ASSUME NEW r \in Requests, Arrives(r) PROVE TypeOK'
  BY <1>1 DEF Arrives, Arrive, Goto, TypeOK
<1>2. ASSUME NEW r \in Requests, Refuses(r) PROVE TypeOK'
  BY <1>2 DEF Refuses, Refuse, Answer, Goto, TypeOK
<1>3. ASSUME NEW r \in Requests, Passes(r) PROVE TypeOK'
  BY <1>3 DEF Passes, Goto, TypeOK
<1>4. ASSUME NEW r \in Requests, Find(r) PROVE TypeOK'
  <2>1. /\ UNCHANGED <<row, kind, data>>
        /\ found' \in [Requests -> [Fields -> Values]]
        /\ rivals' \in [Requests -> SUBSET Fields]
    BY <1>4 DEF Find, TypeOK
  <2>2. \E place \in {"find2", "hash", "flush", "end"} : step' = [step EXCEPT ![r] = place]
    <3>1. CASE kind[r] \in Reads
      BY <1>4, <3>1 DEF Find, Answer, Goto
    <3>2. CASE kind[r] \notin Reads
      BY <1>4, <3>2 DEF Find, Goto
    <3> QED BY <3>1, <3>2
  <2>3. code' = code \/ \E c \in {200, 204} : code' = [code EXCEPT ![r] = c]
    BY <1>4 DEF Find, Answer
  <2> QED BY <2>1, <2>2, <2>3 DEF TypeOK
<1>5. ASSUME NEW r \in Requests, Flush(r) \/ FlushFails(r) PROVE TypeOK'
  <2>1. row' \in [Fields -> Values] /\ UNCHANGED <<kind, data, found>>
    BY <1>5, ChangeSetType DEF Flush, FlushFails, TypeOK
  <2>2. rivals' \in [Requests -> SUBSET Fields]
    BY <1>5 DEF Flush, FlushFails, Rival, Assigned, TypeOK
  <2>3. step' = [step EXCEPT ![r] = "end"] /\ \E c \in {200, 500} : code' = [code EXCEPT ![r] = c]
    BY <1>5 DEF Flush, FlushFails, Answer, Goto
  <2> QED BY <2>1, <2>2, <2>3 DEF TypeOK
<1>6. ASSUME NEW r \in Requests, FindFails(r) PROVE TypeOK'
  BY <1>6 DEF FindFails, Answer, Goto, TypeOK
<1>7. CASE UNCHANGED vars
  BY <1>7 DEF vars, TypeOK
<1> QED BY <1>1, <1>2, <1>3, <1>4, <1>5, <1>6, <1>7, Steps

(* The variables of Profile keep their types, for any number of requests.  *)
THEOREM TypeCorrect == Spec => []TypeOK
BY InitType, NextType, PTL DEF Spec

-----------------------------------------------------------------------------
(***************************************************************************)
(* A request that has read the row and not flushed yet has the values of   *)
(* the row, but for the fields that others have flushed since; so what it  *)
(* does not write because it found it there is still there.                *)
(***************************************************************************)
Answered(r) == code[r] # 0 => step[r] = "end"

Reading(r) ==
  step[r] \in {"find2", "hash", "flush"} =>
    \A f \in Fields \ rivals[r] : row[f] = found[r][f]

Stays(r) ==
  code[r] = 200 /\ kind[r] \in Updates \ {"deletePhoto"} =>
    \A f \in Assigned(r) \ rivals[r] : row[f] = data[r][f]

StaysInv == \A r \in Requests : Answered(r) /\ Reading(r) /\ Stays(r)

LEMMA InitStays == Init => StaysInv
<1> SUFFICES ASSUME Init, NEW r \in Requests PROVE Answered(r) /\ Reading(r) /\ Stays(r)
  BY DEF StaysInv
<1>1. code[r] = 0 /\ step[r] = "idle"
  BY DEF Init
<1> QED BY <1>1 DEF Answered, Reading, Stays

(* A step of r that writes no row leaves the other requests as they were.  *)
LEMMA OthersStay ==
  ASSUME TypeOK, StaysInv, NEW r \in Requests, NEW q \in Requests, q # r,
         row' = row, step'[q] = step[q], kind'[q] = kind[q], data'[q] = data[q],
         found'[q] = found[q], code'[q] = code[q], rivals'[q] = rivals[q]
  PROVE  (Answered(q) /\ Reading(q) /\ Stays(q))'
BY DEF StaysInv, Answered, Reading, Stays, Assigned

(* A flush of r writes fields that r assigned, and makes them rivals'.     *)
LEMMA FlushStays ==
  ASSUME TypeOK, StaysInv, NEW r \in Requests, NEW q \in Requests, q # r,
         row' \in {row, ChangeSet(r)}, Rival(r),
         UNCHANGED <<kind, data, found>>, step'[q] = step[q], code'[q] = code[q]
  PROVE  (Answered(q) /\ Reading(q) /\ Stays(q))'
<1>1. rivals'[q] = rivals[q] \cup Assigned(r)
  BY DEF Rival
<1>2. \A f \in Fields \ Assigned(r) : row'[f] = row[f]
  BY DEF ChangeSet
<1>3. Assigned(q)' = Assigned(q) /\ Assigned(q) \subseteq Fields
  BY DEF Assigned
<1> QED BY <1>1, <1>2, <1>3 DEF StaysInv, Answered, Reading, Stays

(* What r itself finds after its flush: what it assigned.                  *)
LEMMA FlushWrites ==
  ASSUME TypeOK, StaysInv, NEW r \in Requests, Flush(r)
  PROVE  (Answered(r) /\ Reading(r) /\ Stays(r))'
<1>1. step'[r] = "end" /\ kind' = kind /\ data' = data /\ rivals'[r] = rivals[r]
  BY DEF Flush, Answer, Goto, Rival, TypeOK
<1>2. Assigned(r)' = Assigned(r) /\ Assigned(r) \subseteq Fields
  BY <1>1 DEF Assigned
<1>3. \A f \in Fields \ rivals[r] : row[f] = found[r][f]
  BY DEF Flush, StaysInv, Reading
<1>4. row' = ChangeSet(r) => \A f \in Assigned(r) \ rivals[r] : row'[f] = data[r][f]
  BY <1>2, <1>3 DEF ChangeSet
<1>5. kind[r] # "deletePhoto" => row' = ChangeSet(r)
  BY DEF Flush
<1> QED BY <1>1, <1>2, <1>4, <1>5 DEF Answered, Reading, Stays

LEMMA NextStays == TypeOK /\ StaysInv /\ [Next]_vars => StaysInv'
<1> SUFFICES ASSUME TypeOK, StaysInv, [Next]_vars PROVE StaysInv'
  OBVIOUS
<1> DEFINE Inv(q) == Answered(q) /\ Reading(q) /\ Stays(q)
<1>1. ASSUME NEW r \in Requests, Arrives(r), NEW q \in Requests PROVE Inv(q)'
  <2>1. row' = row /\ rivals' = rivals /\ found' = found /\ code' = code
        /\ step[r] = "idle" /\ step'[r] \in {"guard", "find"}
    BY <1>1 DEF Arrives, Arrive, Goto, TypeOK
  <2>2. CASE q = r
    <3>1. code[r] = 0
      BY <2>1 DEF StaysInv, Answered, TypeOK
    <3> QED BY <2>1, <2>2, <3>1 DEF Answered, Reading, Stays
  <2>3. CASE q # r
    <3>1. step'[q] = step[q] /\ kind'[q] = kind[q] /\ data'[q] = data[q]
      BY <1>1, <2>3 DEF Arrives, Arrive, Goto, TypeOK
    <3> QED BY <2>1, <2>3, <3>1, OthersStay
  <2> QED BY <2>2, <2>3
<1>2. ASSUME NEW r \in Requests, Refuses(r) \/ FindFails(r), NEW q \in Requests PROVE Inv(q)'
  <2>1. row' = row /\ rivals' = rivals /\ found' = found /\ data' = data
        /\ step'[r] = "end" /\ code'[r] \in {401, 403, 404, 500}
    BY <1>2 DEF Refuses, Refuse, FindFails, Answer, Goto, TypeOK
  <2>2. CASE q = r
    BY <2>1, <2>2 DEF Answered, Reading, Stays
  <2>3. CASE q # r
    <3>1. step'[q] = step[q] /\ kind'[q] = kind[q] /\ code'[q] = code[q]
      BY <1>2, <2>3 DEF Refuses, Refuse, FindFails, Answer, Goto, TypeOK
    <3> QED BY <2>1, <2>3, <3>1, OthersStay
  <2> QED BY <2>2, <2>3
<1>3. ASSUME NEW r \in Requests, Passes(r), NEW q \in Requests PROVE Inv(q)'
  <2>1. UNCHANGED <<row, kind, data, found, code, rivals>>
    BY <1>3 DEF Passes
  <2>2. CASE q = r
    <3>1. code[r] = 0
      BY <1>3 DEF Passes, StaysInv, Answered
    <3>2. CASE step[r] = "guard" /\ Goto(r, "find")
      <4>1. step'[r] = "find"
        BY <3>2 DEF Goto, TypeOK
      <4> QED BY <2>1, <2>2, <3>1, <4>1 DEF Answered, Reading, Stays
    <3>3. CASE step[r] \in {"find2", "hash"} /\ Goto(r, "flush")
      <4>1. \A f \in Fields \ rivals[r] : row[f] = found[r][f]
        BY <3>3 DEF StaysInv, Reading
      <4> QED BY <2>1, <2>2, <3>1, <4>1 DEF Answered, Reading, Stays
    <3> QED BY <1>3, <3>2, <3>3 DEF Passes
  <2>3. CASE q # r
    <3>1. step'[q] = step[q]
      BY <1>3, <2>3 DEF Passes, Goto, TypeOK
    <3> QED BY <2>1, <2>3, <3>1, OthersStay
  <2> QED BY <2>2, <2>3
<1>4. ASSUME NEW r \in Requests, Find(r), NEW q \in Requests PROVE Inv(q)'
  <2>1. row' = row /\ kind' = kind /\ data' = data /\ found'[r] = row
    BY <1>4 DEF Find, TypeOK
  <2>2. CASE q = r
    <3>1. CASE kind[r] \in Reads
      BY <1>4, <2>1, <2>2, <3>1 DEF Find, Answer, Goto, Answered, Reading, Stays, Reads,
         Updates, TypeOK
    <3>2. CASE kind[r] \notin Reads
      <4>1. code'[r] = code[r] /\ code[r] = 0
        BY <1>4, <3>2 DEF Find, StaysInv, Answered
      <4> QED BY <2>1, <2>2, <4>1 DEF Answered, Reading, Stays
    <3> QED BY <3>1, <3>2
  <2>3. CASE q # r
    <3>1. step'[q] = step[q] /\ code'[q] = code[q] /\ rivals'[q] = rivals[q]
          /\ found'[q] = found[q]
      BY <1>4, <2>3 DEF Find, Answer, Goto, TypeOK
    <3> QED BY <2>1, <2>3, <3>1, OthersStay
  <2> QED BY <2>2, <2>3
<1>5. ASSUME NEW r \in Requests, Flush(r) \/ FlushFails(r), NEW q \in Requests PROVE Inv(q)'
  <2>1. CASE q = r /\ Flush(r)
    BY <2>1, FlushWrites
  <2>2. CASE q = r /\ FlushFails(r)
    BY <2>2 DEF FlushFails, Answer, Goto, Answered, Reading, Stays, TypeOK
  <2>3. CASE q # r
    <3>1. step'[q] = step[q] /\ code'[q] = code[q] /\ Rival(r)
          /\ row' \in {row, ChangeSet(r)} /\ UNCHANGED <<kind, data, found>>
      BY <1>5, <2>3 DEF Flush, FlushFails, Answer, Goto, TypeOK
    <3> QED BY <2>3, <3>1, FlushStays
  <2> QED BY <1>5, <2>1, <2>2, <2>3
<1>6. CASE UNCHANGED vars
  BY <1>6 DEF vars, StaysInv, Answered, Reading, Stays, Assigned
<1> HIDE DEF Inv
<1>7. CASE \A q \in Requests : Inv(q)'
  BY <1>7 DEF StaysInv, Inv
<1> QED BY <1>1, <1>2, <1>3, <1>4, <1>5, <1>6, <1>7, Steps

(***************************************************************************)
(* For any number of requests, a field that was assigned and acknowledged  *)
(* keeps its value until another request that assigns it flushes.          *)
(***************************************************************************)
THEOREM AcknowledgedFieldsAlwaysStay == Spec => []AcknowledgedFieldsStay
<1>1. StaysInv => AcknowledgedFieldsStay
  BY DEF StaysInv, Stays, AcknowledgedFieldsStay
<1> QED BY <1>1, InitType, NextType, InitStays, NextStays, PTL DEF Spec

=============================================================================
