--------------------------- MODULE AccountsProofs ---------------------------
(***************************************************************************)
(* Sign-up for any number of requests, e-mails and workers: what an answer *)
(* promises, who may add a row, and what is counted.                       *)
(***************************************************************************)
EXTENDS Accounts, FiniteSetTheorems, TLAPS

(* The types but for the bound of the counters, which takes counting.      *)
Replies == [status : {0, 201, Refusal, 409, 500},
            message : {"none", "connection reset", "created", "conflict", "error", Exists}]

Places == {"new", "done", "killed"} \cup Waiting \cup Background

Types ==
  /\ pc \in [Requests -> Places]
  /\ mode \in [Requests -> Modes]
  /\ email \in [Requests -> Emails]
  /\ host \in [Requests -> Workers]
  /\ reply \in [Requests -> Replies]
  /\ rows \subseteq Requests
  /\ realm \subseteq Emails
  /\ up \subseteq Workers
  /\ late \subseteq Requests
  /\ counted \in [{"success", "failure"} -> Nat]

LEMMA InitTypes == Init => Types
<1> SUFFICES ASSUME Init PROVE Types
  OBVIOUS
<1>1. NoReply \in Replies /\ "new" \in Places
  BY DEF NoReply, Replies, Places
<1>2. counted \in [{"success", "failure"} -> Nat]
  BY DEF Init
<1> QED BY <1>1, <1>2 DEF Init, Types

-----------------------------------------------------------------------------
(* The answers of Keycloak, or their want, that end a sign-up.             *)
Declined(r) == RegisterConflicts(r) \/ RegisterRefused(r) \/ RegisterFails(r)

LEMMA DownTypes ==
  ASSUME Types, NEW w, Down(w)
  PROVE  /\ pc' \in [Requests -> Places] /\ reply' \in [Requests -> Replies]
         /\ up' \subseteq Workers
<1>1. Reset \in Replies /\ "killed" \in Places
  BY DEF Replies, Reset, Reply, Places
<1> QED BY <1>1 DEF Down, Types

LEMMA NextTypes == Types /\ [Next]_vars => Types'
<1> SUFFICES ASSUME Types, [Next]_vars PROVE Types'
  OBVIOUS
<1> USE DEF fixed
<1>1. ASSUME NEW r \in Requests, NEW c \in {201, Refusal, 409, 500},
             NEW m \in {"created", "conflict", "error", Exists}, Finish(r, c, m)
      PROVE  pc' \in [Requests -> Places] /\ reply' \in [Requests -> Replies]
  <2>1. Reply(c, m) \in Replies
    BY DEF Reply, Replies
  <2>2. "done" \in Places
    BY DEF Places
  <2> QED BY <1>1, <2>1, <2>2 DEF Finish, Goto, Answer, Types
<1>2. ASSUME NEW r \in Requests, NEW place \in Places, Goto(r, place)
      PROVE  pc' \in [Requests -> Places]
  BY <1>2 DEF Goto, Types
<1>3. ASSUME NEW outcome \in {"success", "failure"}, Count(outcome)
      PROVE  counted' \in [{"success", "failure"} -> Nat]
  BY <1>3 DEF Count, Types
<1>4. {"lookup", "insert", "inserted", "register", "registered", "bgLookup", "bgInsert",
       "bgInserted", "done"} \subseteq Places
  BY DEF Places, Waiting, Background
<1>5. ASSUME NEW r \in Requests, Arrive(r) PROVE Types'
  BY <1>2, <1>4, <1>5 DEF Arrive, Types
<1>6. ASSUME NEW r \in Requests,
             LookupFindsRow(r) \/ LookupFails(r) \/ Declined(r)
      PROVE  Types'
  <2>1. \E c \in {Refusal, 409, 500}, m \in {"conflict", "error", Exists} : Finish(r, c, m)
    BY <1>6 DEF LookupFindsRow, LookupFails, Declined, RegisterConflicts,
       RegisterRefused, RegisterFails
  <2> QED BY <1>1, <1>6, <2>1 DEF LookupFindsRow, LookupFails, Declined, RegisterConflicts,
          RegisterRefused, RegisterFails, Types
<1>7. ASSUME NEW r \in Requests, LookupFindsNone(r) \/ BgLookupFindsNone(r) PROVE Types'
  BY <1>2, <1>4, <1>7 DEF LookupFindsNone, BgLookupFindsNone, Types
<1>8. ASSUME NEW r \in Requests, RegisterCreates(r) PROVE Types'
  BY <1>2, <1>4, <1>8 DEF RegisterCreates, Types
<1>9. ASSUME NEW r \in Requests, RegisterSucceeds(r) PROVE Types'
  <2>1. reply' \in [Requests -> Replies]
    BY <1>9 DEF RegisterSucceeds, Answer, Reply, Replies, Types
  <2> QED BY <1>2, <1>4, <1>9, <2>1 DEF RegisterSucceeds, Types
<1>10. ASSUME NEW r \in Requests, Insert(r) PROVE Types'
  BY <1>2, <1>4, <1>10 DEF Insert, Types
<1>11. ASSUME NEW r \in Requests, InsertSucceeds(r) \/ InsertFails(r) PROVE Types'
  BY <1>1, <1>3, <1>11 DEF InsertSucceeds, InsertFails, Types
<1>12. ASSUME NEW r \in Requests, BgInsertSucceeds(r) PROVE Types'
  BY <1>2, <1>3, <1>4, <1>12 DEF BgInsertSucceeds, Types
<1>13. ASSUME NEW r \in Requests, BgLookupRejects(r) \/ BgInsertFails(r) PROVE Types'
  BY <1>3, <1>13, DownTypes DEF BgLookupRejects, BgInsertFails, Types
<1>14. ASSUME NEW w \in Workers, Kill(w) PROVE Types'
  BY <1>14, DownTypes DEF Kill, Types
<1>15. ASSUME NEW w \in Workers, Fork(w) PROVE Types'
  BY <1>15 DEF Fork, Types
<1>16. CASE UNCHANGED vars
  BY <1>16 DEF vars, Types
<1> QED BY <1>5, <1>6, <1>7, <1>8, <1>9, <1>10, <1>11, <1>12, <1>13, <1>14, <1>15, <1>16
        DEF Next, Keycloak, Statement, Declined

-----------------------------------------------------------------------------
(***************************************************************************)
(* What holds of each request: where each route can be, who has a row, and *)
(* what an answer and a late arrival rest on.                              *)
(***************************************************************************)
Holds(r) == mode[r] = "oidc" /\ (pc[r] = "registered" \/ reply[r].status = 201)

Route(r) ==
  /\ pc[r] \in {"insert", "inserted"} => mode[r] = "basic"
  /\ pc[r] \in {"register", "registered"} \cup Background => mode[r] = "oidc"
  /\ pc[r] \in Background => reply[r].status = 201

Row(r) ==
  /\ pc[r] \in {"inserted", "bgInserted"} => r \in rows
  /\ r \in rows => pc[r] \in {"inserted", "bgInserted", "done", "killed"}

Promise(r) ==
  /\ Holds(r) => email[r] \in realm
  /\ Acknowledged(r) => HasRow(email[r]) \/ pc[r] \in Background \cup {"killed"}

Late(r) ==
  r \in late => r \notin rows /\ HasRow(email[r]) /\ pc[r] \in {"lookup", "done", "killed"}

Signup(r) == Route(r) /\ Row(r) /\ Promise(r) /\ Late(r)

OneHolder == \A r, s \in Requests : Holds(r) /\ Holds(s) /\ email[r] = email[s] => r = s

SignupInv == OneHolder /\ \A r \in Requests : Signup(r)

LEMMA InitSignup == Init => SignupInv
<1> SUFFICES ASSUME Init PROVE SignupInv
  OBVIOUS
<1>1. \A r \in Requests : pc[r] = "new" /\ reply[r].status = 0 /\ r \notin rows /\ r \notin late
  BY DEF Init, NoReply
<1> QED BY <1>1 DEF SignupInv, OneHolder, Signup, Route, Row, Promise, Late, Holds,
        Acknowledged, Background

(* Rows and users of Keycloak are never removed: what was promised on them *)
(* stays promised to a request that does not step itself.                  *)
LEMMA OtherSignup ==
  ASSUME Types, NEW q \in Requests, Signup(q),
         UNCHANGED <<mode, email>>, pc'[q] = pc[q], reply'[q] = reply[q],
         rows \subseteq rows', q \in rows' => q \in rows, realm \subseteq realm',
         q \in late' => q \in late
  PROVE  Signup(q)'
<1>1. HasRow(email[q]) => HasRow(email[q])'
  BY DEF HasRow
<1> QED BY <1>1 DEF Signup, Route, Row, Promise, Late, Holds, Acknowledged

(* A request whose worker goes down is killed where it is.                 *)
LEMMA DownSignup ==
  ASSUME Types, SignupInv, NEW w, Down(w), UNCHANGED <<mode, email, rows, realm, late>>
  PROVE  SignupInv'
<1>1. ASSUME NEW q \in Requests
      PROVE  /\ pc'[q] = pc[q] \/ pc'[q] = "killed"
             /\ pc'[q] = pc[q] => reply'[q] = reply[q]
             /\ reply'[q] = reply[q] \/ reply'[q].status = 0
  BY DEF Down, Types, Reset, Reply, Running, Waiting, Background
<1>2. ASSUME NEW q \in Requests PROVE Signup(q)'
  <2>1. CASE pc'[q] = pc[q]
    BY <1>1, <2>1, OtherSignup DEF SignupInv
  <2>2. CASE pc'[q] = "killed"
    BY <1>1, <2>2 DEF SignupInv, Signup, Route, Row, Promise, Late, Holds,
       Acknowledged, HasRow, Background
  <2> QED BY <1>1, <2>1, <2>2
<1>3. \A q \in Requests : Holds(q)' => Holds(q)
  BY <1>1 DEF Holds
<1> QED BY <1>2, <1>3 DEF SignupInv, OneHolder

(* A step of r: the other requests keep what holds of them, and no one but *)
(* r comes to hold its e-mail.                                             *)
LEMMA StepSignup ==
  ASSUME Types, SignupInv, NEW r \in Requests, UNCHANGED <<mode, email>>,
         \A q \in Requests \ {r} : pc'[q] = pc[q] /\ reply'[q] = reply[q]
                                   /\ (q \in rows' => q \in rows) /\ (q \in late' => q \in late),
         rows \subseteq rows', realm \subseteq realm',
         Signup(r)', Holds(r)' => Holds(r) \/ email[r] \notin realm
  PROVE  SignupInv'
<1>1. ASSUME NEW q \in Requests PROVE Signup(q)'
  BY OtherSignup DEF SignupInv
<1>2. \A q \in Requests \ {r} : Holds(q)' <=> Holds(q)
  BY DEF Holds
<1>3. \A q \in Requests : Holds(q) => email[q] \in realm
  BY DEF SignupInv, Signup, Promise
<1>4. OneHolder'
  BY <1>2, <1>3 DEF SignupInv, OneHolder
<1> QED BY <1>1, <1>4 DEF SignupInv

(* A request that ends otherwise than by a row of its own.                 *)
LEMMA EndSignup ==
  ASSUME Types, NEW r \in Requests, Signup(r), UNCHANGED <<mode, email, rows, realm, late>>,
         NEW c \in {Refusal, 409, 500}, NEW m, Finish(r, c, m)
  PROVE  Signup(r)' /\ ~Holds(r)'
<1>1. pc'[r] = "done" /\ reply'[r].status = c
  BY DEF Finish, Goto, Answer, Reply, Types
<1> QED BY <1>1 DEF Refusal, Signup, Route, Row, Promise, Late, Holds, Acknowledged, HasRow, Background

LEMMA NextSignup == Types /\ SignupInv /\ [Next]_vars => SignupInv'
<1> SUFFICES ASSUME Types, SignupInv, [Next]_vars PROVE SignupInv'
  OBVIOUS
<1> USE DEF fixed
<1>0. \A r \in Requests : Signup(r)
  BY DEF SignupInv
<1>1. ASSUME NEW r \in Requests, NEW place, Goto(r, place)
      PROVE  pc'[r] = place /\ \A q \in Requests \ {r} : pc'[q] = pc[q]
  BY <1>1 DEF Goto, Types
<1>2. ASSUME NEW r \in Requests, NEW c, NEW m, Answer(r, c, m)
      PROVE  reply'[r].status = c /\ \A q \in Requests \ {r} : reply'[q] = reply[q]
  BY <1>2 DEF Answer, Reply, Types
<1> DEFINE Quiet(r) == \A q \in Requests \ {r} : pc'[q] = pc[q] /\ reply'[q] = reply[q]
<1>3. ASSUME NEW r \in Requests, Arrive(r) PROVE SignupInv'
  <2>1. pc[r] = "new" /\ pc'[r] = "lookup" /\ Quiet(r) /\ reply' = reply
    BY <1>1, <1>3 DEF Arrive
  <2>2. late' = (IF HasRow(email[r]) THEN late \cup {r} ELSE late)
        /\ UNCHANGED <<mode, email, rows, realm>>
    BY <1>3 DEF Arrive
  <2>3. Signup(r)' /\ (Holds(r)' => Holds(r))
    BY <1>0, <2>1, <2>2 DEF Signup, Route, Row, Promise, Late, Holds, Acknowledged, HasRow,
       Background
  <2> QED BY <2>1, <2>2, <2>3, StepSignup
<1>4. ASSUME NEW r \in Requests,
             LookupFindsRow(r) \/ LookupFails(r) \/ Declined(r)
      PROVE  SignupInv'
  <2>1. PICK c \in {Refusal, 409, 500}, m \in {"conflict", "error", Exists} : Finish(r, c, m)
    BY <1>4 DEF LookupFindsRow, LookupFails, Declined, RegisterConflicts,
       RegisterRefused, RegisterFails
  <2>2. UNCHANGED <<mode, email, rows, realm, late>>
    BY <1>4 DEF LookupFindsRow, LookupFails, Declined, RegisterConflicts,
       RegisterRefused, RegisterFails
  <2>3. Signup(r)' /\ ~Holds(r)' /\ Quiet(r)
    BY <1>0, <1>1, <1>2, <2>1, <2>2, EndSignup DEF Finish
  <2> QED BY <2>2, <2>3, StepSignup
<1>5. ASSUME NEW r \in Requests, LookupFindsNone(r) \/ BgLookupFindsNone(r) PROVE SignupInv'
  <2>1. /\ pc'[r] \in {"insert", "register", "bgInsert"} /\ Quiet(r) /\ reply' = reply
        /\ pc'[r] = "insert" => mode[r] = "basic"
        /\ pc'[r] = "register" => mode[r] = "oidc"
        /\ pc'[r] = "bgInsert" <=> pc[r] = "bgLookup"
        /\ pc[r] \in {"lookup", "bgLookup"} /\ ~HasRow(email[r])
        /\ UNCHANGED <<mode, email, rows, realm, late>>
    BY <1>1, <1>5 DEF LookupFindsNone, BgLookupFindsNone, Types, Modes
  <2>2. Signup(r)' /\ (Holds(r)' => Holds(r))
    <3>1. HasRow(email[r])' <=> HasRow(email[r])
      BY <2>1 DEF HasRow
    <3>2. CASE pc[r] = "lookup"
      BY <1>0, <2>1, <3>1, <3>2 DEF Signup, Route, Row, Promise, Late, Holds, Acknowledged,
         Background
    <3>3. CASE pc[r] = "bgLookup"
      BY <1>0, <2>1, <3>1, <3>3 DEF Signup, Route, Row, Promise, Late, Holds, Acknowledged,
         Background
    <3> QED BY <2>1, <3>2, <3>3
  <2> QED BY <2>1, <2>2, StepSignup
<1>6. ASSUME NEW r \in Requests, RegisterCreates(r) PROVE SignupInv'
  <2>1. pc[r] = "register" /\ pc'[r] = "registered" /\ Quiet(r) /\ reply' = reply
        /\ email[r] \notin realm /\ realm' = realm \cup {email[r]}
        /\ UNCHANGED <<mode, email, rows, late>>
    BY <1>1, <1>6 DEF RegisterCreates
  <2>2. Signup(r)'
    BY <1>0, <2>1 DEF Signup, Route, Row, Promise, Late, Holds, Acknowledged, HasRow, Background
  <2> QED BY <2>1, <2>2, StepSignup
<1>7. ASSUME NEW r \in Requests, RegisterSucceeds(r) PROVE SignupInv'
  <2>1. pc[r] = "registered" /\ pc'[r] = "bgLookup" /\ Quiet(r) /\ reply'[r].status = 201
        /\ UNCHANGED <<mode, email, rows, realm, late>>
    BY <1>1, <1>2, <1>7 DEF RegisterSucceeds
  <2>2. Signup(r)' /\ (Holds(r)' => Holds(r))
    BY <1>0, <2>1 DEF Signup, Route, Row, Promise, Late, Holds, Acknowledged, HasRow, Background
  <2> QED BY <2>1, <2>2, StepSignup
<1>8. ASSUME NEW r \in Requests, Insert(r) PROVE SignupInv'
  <2>1. /\ pc[r] \in {"insert", "bgInsert"} /\ Quiet(r) /\ reply' = reply
        /\ pc'[r] = IF pc[r] = "insert" THEN "inserted" ELSE "bgInserted"
        /\ rows' = rows \cup {r} /\ UNCHANGED <<mode, email, realm, late>>
    BY <1>1, <1>8 DEF Insert
  <2>2. HasRow(email[r])'
    BY <2>1 DEF HasRow
  <2>3. Signup(r)' /\ (Holds(r)' => Holds(r))
    BY <1>0, <2>1, <2>2 DEF Signup, Route, Row, Promise, Late, Holds, Acknowledged, Background
  <2> QED BY <2>1, <2>3, StepSignup
<1>9. ASSUME NEW r \in Requests, InsertSucceeds(r) PROVE SignupInv'
  <2>1. pc[r] = "inserted" /\ pc'[r] = "done" /\ Quiet(r)
        /\ UNCHANGED <<mode, email, rows, realm, late>>
    BY <1>1, <1>2, <1>9 DEF InsertSucceeds, Finish
  <2>2. mode[r] # "oidc" /\ r \in rows
    BY <1>0, <2>1 DEF Signup, Route, Row
  <2>3. Signup(r)' /\ ~Holds(r)'
    BY <1>0, <2>1, <2>2 DEF Signup, Route, Row, Promise, Late, Holds, Acknowledged, HasRow,
       Background
  <2> QED BY <2>1, <2>3, StepSignup
<1>10. ASSUME NEW r \in Requests, BgInsertSucceeds(r) PROVE SignupInv'
  <2>1. pc[r] = "bgInserted" /\ pc'[r] = "done" /\ Quiet(r) /\ reply' = reply
        /\ UNCHANGED <<mode, email, rows, realm, late>>
    BY <1>1, <1>10 DEF BgInsertSucceeds
  <2>2. r \in rows /\ HasRow(email[r])
    BY <1>0, <2>1 DEF Signup, Row, HasRow
  <2>3. Signup(r)' /\ (Holds(r)' => Holds(r))
    BY <1>0, <2>1, <2>2 DEF Signup, Route, Row, Promise, Late, Holds, Acknowledged, HasRow,
       Background
  <2> QED BY <2>1, <2>3, StepSignup
<1>11. ASSUME NEW r \in Requests, InsertFails(r) PROVE SignupInv'
  <2>1. Finish(r, 500, "error") /\ UNCHANGED <<mode, email, rows, realm, late>>
    BY <1>11 DEF InsertFails
  <2>2. Signup(r)' /\ ~Holds(r)' /\ Quiet(r)
    BY <1>0, <1>1, <1>2, <2>1, EndSignup DEF Finish
  <2> QED BY <2>1, <2>2, StepSignup
<1>12. ASSUME NEW r \in Requests, BgLookupRejects(r) \/ BgInsertFails(r) PROVE SignupInv'
  BY <1>12, DownSignup DEF BgLookupRejects, BgInsertFails
<1>13. ASSUME NEW w \in Workers, Kill(w) PROVE SignupInv'
  BY <1>13, DownSignup DEF Kill
<1>14. CASE UNCHANGED <<pc, mode, email, reply, rows, realm, late>>
  BY <1>14 DEF SignupInv, OneHolder, Signup, Route, Row, Promise, Late, Holds, Acknowledged,
     HasRow
<1> QED BY <1>3, <1>4, <1>5, <1>6, <1>7, <1>8, <1>9, <1>10, <1>11, <1>12, <1>13, <1>14
        DEF Next, Keycloak, Statement, Declined, Fork, vars

LEMMA SignupCorrect == Spec => [](Types /\ SignupInv)
<1>1. (Types /\ SignupInv) /\ [Next]_vars => (Types /\ SignupInv)'
  BY NextTypes, NextSignup
<1> QED BY <1>1, InitTypes, InitSignup, PTL DEF Spec

(***************************************************************************)
(* For any number of requests, e-mails and workers, a sign-up that was     *)
(* answered with 201 through Keycloak has its user there, and its row      *)
(* unless createUser is at work or its worker has died.                    *)
(***************************************************************************)
THEOREM AcknowledgedAlwaysHasRow == Spec => []AcknowledgedHasRow
<1>1. SignupInv => AcknowledgedHasRow
  BY DEF SignupInv, Signup, Promise, Holds, Acknowledged, AcknowledgedHasRow
<1> QED BY <1>1, SignupCorrect, PTL

(***************************************************************************)
(* However sign-ups of one e-mail overlap and whatever dies meanwhile, at  *)
(* most one of them is told by Keycloak's route that it was created.       *)
(***************************************************************************)
THEOREM AlwaysOneAcknowledgement == Spec => []OneAcknowledgement
<1>1. SignupInv => OneAcknowledgement
  BY DEF SignupInv, OneHolder, Holds, Acknowledged, OneAcknowledgement
<1> QED BY <1>1, SignupCorrect, PTL

(***************************************************************************)
(* Two rows of one e-mail are always the work of sign-ups that overlap.    *)
(***************************************************************************)
THEOREM LateSignupsNeverAddRows == Spec => []LateSignupsAddNoRow
<1>1. Types /\ SignupInv => LateSignupsAddNoRow
  BY DEF Types, SignupInv, Signup, Late, LateSignupsAddNoRow
<1> QED BY <1>1, SignupCorrect, PTL

-----------------------------------------------------------------------------
(***************************************************************************)
(* Counting: the successes are rows that were acknowledged to the end, and *)
(* no more failures are counted than sign-ups have ended.                  *)
(***************************************************************************)
Succeeded == {r \in rows : pc[r] = "done" /\ reply[r].status = 201}
Ended == {r \in Requests : pc[r] \in {"done", "killed"}}

CountInv ==
  /\ counted.success = Cardinality(Succeeded)
  /\ counted.failure <= Cardinality(Ended)

LEMMA Finiteness ==
  ASSUME IsFiniteSet(Requests), Types
  PROVE  /\ IsFiniteSet(Succeeded) /\ Cardinality(Succeeded) \in Nat
         /\ IsFiniteSet(Ended) /\ Cardinality(Ended) \in Nat
         /\ Cardinality(Requests) \in Nat
         /\ Cardinality(Succeeded) <= Cardinality(Requests)
         /\ Cardinality(Ended) <= Cardinality(Requests)
<1>1. Succeeded \in SUBSET Requests /\ Ended \in SUBSET Requests
  BY DEF Succeeded, Ended, Types
<1> QED BY <1>1, FS_Subset, FS_CardinalityType

LEMMA InitCount == Init => CountInv
<1> SUFFICES ASSUME Init PROVE CountInv
  OBVIOUS
<1>1. Succeeded = {} /\ Ended = {}
  BY DEF Init, Succeeded, Ended
<1>2. counted.success = 0 /\ counted.failure = 0
  BY DEF Init
<1> QED BY <1>1, <1>2, FS_EmptySet DEF CountInv

(* Nothing is counted: no success comes or goes, and none that ended is    *)
(* resumed.                                                                *)
LEMMA QuietCount ==
  ASSUME IsFiniteSet(Requests), Types, Types', CountInv, counted' = counted,
         Succeeded' = Succeeded, Ended \subseteq Ended'
  PROVE  CountInv'
<1>1. Cardinality(Ended) <= Cardinality(Ended') /\ Cardinality(Ended') \in Nat
  <2>1. IsFiniteSet(Ended') /\ Cardinality(Ended') \in Nat
    <3>1. Ended' \in SUBSET Requests
      BY DEF Ended
    <3> QED BY <3>1, FS_Subset, FS_CardinalityType
  <2> QED BY <2>1, FS_Subset
<1>2. counted.failure \in Nat /\ Cardinality(Ended) \in Nat
  BY Finiteness DEF Types
<1> QED BY <1>1, <1>2 DEF CountInv

LEMMA SuccessCount ==
  ASSUME IsFiniteSet(Requests), Types, Types', CountInv, NEW r, Count("success"),
         r \notin Succeeded, Succeeded' = Succeeded \cup {r}, Ended \subseteq Ended'
  PROVE  CountInv'
<1>1. Cardinality(Succeeded') = Cardinality(Succeeded) + 1
  BY Finiteness, FS_AddElement
<1>2. counted'.success = counted.success + 1 /\ counted'.failure = counted.failure
  BY DEF Count, Types
<1>3. Cardinality(Ended) <= Cardinality(Ended')
  <2>1. IsFiniteSet(Ended')
    <3>1. Ended' \in SUBSET Requests
      BY DEF Ended
    <3> QED BY <3>1, FS_Subset
  <2> QED BY <2>1, FS_Subset
<1>4. counted.failure \in Nat /\ Cardinality(Ended) \in Nat /\ Cardinality(Ended') \in Nat
  <2>1. Ended' \in SUBSET Requests
    BY DEF Ended
  <2> QED BY <2>1, Finiteness, FS_Subset, FS_CardinalityType DEF Types
<1> QED BY <1>1, <1>2, <1>3, <1>4 DEF CountInv

LEMMA FailureCount ==
  ASSUME IsFiniteSet(Requests), Types, Types', CountInv, NEW r, Count("failure"),
         Succeeded' = Succeeded, r \notin Ended, r \in Ended', Ended \subseteq Ended'
  PROVE  CountInv'
<1>1. Cardinality(Ended \cup {r}) = Cardinality(Ended) + 1
  BY Finiteness, FS_AddElement
<1>2. counted'.success = counted.success /\ counted'.failure = counted.failure + 1
  BY DEF Count, Types
<1>3. IsFiniteSet(Ended') /\ Cardinality(Ended') \in Nat
  <2>1. Ended' \in SUBSET Requests
    BY DEF Ended
  <2> QED BY <2>1, FS_Subset, FS_CardinalityType
<1>4. Ended \cup {r} \in SUBSET Ended'
  OBVIOUS
<1>5. Cardinality(Ended) + 1 <= Cardinality(Ended')
  BY <1>1, <1>3, <1>4, FS_Subset
<1>6. counted.failure \in Nat /\ Cardinality(Ended) \in Nat
  BY Finiteness DEF Types
<1> QED BY <1>2, <1>3, <1>5, <1>6 DEF CountInv

(* A worker that goes down takes no request that has ended with it.        *)
LEMMA DownEnds ==
  ASSUME Types, NEW w, Down(w), UNCHANGED rows
  PROVE  Succeeded' = Succeeded /\ Ended \subseteq Ended' /\ Running(w) \subseteq Ended'
<1>1. \A q \in Requests : IF q \in Running(w) THEN pc'[q] = "killed" /\ pc[q] \notin {"done", "killed"}
                                              ELSE pc'[q] = pc[q] /\ reply'[q] = reply[q]
  BY DEF Down, Running, Waiting, Background, Types
<1>2. Running(w) \subseteq Requests
  BY DEF Running
<1> QED BY <1>1, <1>2 DEF Succeeded, Ended, Types

(* A step of r that changes no other request, by where r ends up.          *)
LEMMA StepEnds ==
  ASSUME Types, NEW r \in Requests, pc[r] \notin {"done", "killed"}, rows \subseteq rows',
         rows' \subseteq rows \cup {r},
         \A q \in Requests \ {r} : pc'[q] = pc[q] /\ reply'[q] = reply[q]
  PROVE  /\ r \notin Ended /\ Ended \subseteq Ended' /\ r \notin Succeeded
         /\ pc'[r] # "done" \/ reply'[r].status # 201 => Succeeded' = Succeeded
         /\ pc'[r] = "done" /\ reply'[r].status = 201 /\ r \in rows' =>
              Succeeded' = Succeeded \cup {r}
         /\ pc'[r] = "done" => r \in Ended'
BY DEF Succeeded, Ended, Types

LEMMA NextCount ==
  ASSUME IsFiniteSet(Requests)
  PROVE  Types /\ SignupInv /\ CountInv /\ [Next]_vars => CountInv'
<1> SUFFICES ASSUME Types, SignupInv, CountInv, [Next]_vars PROVE CountInv'
  OBVIOUS
<1>0. Types'
  BY NextTypes
<1>1. ASSUME NEW r \in Requests, NEW place, Goto(r, place)
      PROVE  pc'[r] = place /\ \A q \in Requests \ {r} : pc'[q] = pc[q]
  BY <1>1 DEF Goto, Types
<1>2. ASSUME NEW r \in Requests, NEW c, NEW m, Answer(r, c, m)
      PROVE  reply'[r].status = c /\ \A q \in Requests \ {r} : reply'[q] = reply[q]
  BY <1>2 DEF Answer, Reply, Types
<1> DEFINE Quiet(r) == \A q \in Requests \ {r} : pc'[q] = pc[q] /\ reply'[q] = reply[q]
<1>3. ASSUME NEW r \in Requests, Arrive(r) \/ LookupFindsNone(r) \/ BgLookupFindsNone(r)
                                 \/ RegisterCreates(r) \/ Insert(r)
      PROVE  CountInv'
  <2>1. /\ pc[r] \notin {"done", "killed"} /\ pc'[r] # "done" /\ Quiet(r)
        /\ rows \subseteq rows' /\ rows' \subseteq rows \cup {r} /\ counted' = counted
    BY <1>1, <1>3 DEF Arrive, LookupFindsNone, BgLookupFindsNone, RegisterCreates, Insert
  <2> QED BY <1>0, <2>1, StepEnds, QuietCount
<1>4. ASSUME NEW r \in Requests,
             LookupFindsRow(r) \/ LookupFails(r) \/ Declined(r)
             \/ RegisterSucceeds(r)
      PROVE  CountInv'
  <2>1. pc[r] \notin {"done", "killed"} /\ rows' = rows /\ counted' = counted
    BY <1>4 DEF LookupFindsRow, LookupFails, Declined, RegisterConflicts,
       RegisterRefused, RegisterFails, RegisterSucceeds
  <2>2. (pc'[r] # "done" \/ reply'[r].status # 201) /\ Quiet(r)
    BY <1>1, <1>2, <1>4 DEF LookupFindsRow, LookupFails, Declined, RegisterConflicts,
       RegisterRefused, RegisterFails, RegisterSucceeds, Refusal, Finish
  <2> QED BY <1>0, <2>1, <2>2, StepEnds, QuietCount
<1>5. ASSUME NEW r \in Requests, InsertSucceeds(r) \/ BgInsertSucceeds(r) PROVE CountInv'
  <2>1. pc[r] \in {"inserted", "bgInserted"} /\ rows' = rows /\ Count("success")
    BY <1>5 DEF InsertSucceeds, BgInsertSucceeds
  <2>2. r \in rows /\ (pc[r] = "bgInserted" => reply[r].status = 201)
    BY <2>1 DEF SignupInv, Signup, Route, Row, Background
  <2>3. pc'[r] = "done" /\ reply'[r].status = 201 /\ Quiet(r)
    BY <1>1, <1>2, <1>5, <2>2 DEF InsertSucceeds, BgInsertSucceeds, Finish
  <2> QED BY <1>0, <2>1, <2>2, <2>3, StepEnds, SuccessCount
<1>6. ASSUME NEW r \in Requests, InsertFails(r) PROVE CountInv'
  <2>1. pc[r] \notin {"done", "killed"} /\ rows' = rows /\ Count("failure")
    BY <1>6 DEF InsertFails
  <2>2. pc'[r] = "done" /\ reply'[r].status # 201 /\ Quiet(r)
    BY <1>1, <1>2, <1>6 DEF InsertFails, Finish
  <2> QED BY <1>0, <2>1, <2>2, StepEnds, FailureCount
<1>7. ASSUME NEW r \in Requests, BgInsertFails(r) PROVE CountInv'
  <2>1. r \in Running(host[r]) /\ r \notin Ended
    BY <1>7 DEF BgInsertFails, Running, Background, Ended
  <2> QED BY <1>0, <1>7, <2>1, DownEnds, FailureCount DEF BgInsertFails
<1>8. ASSUME NEW r \in Requests, BgLookupRejects(r) PROVE CountInv'
  BY <1>0, <1>8, DownEnds, QuietCount DEF BgLookupRejects
<1>9. ASSUME NEW w \in Workers, Kill(w) PROVE CountInv'
  BY <1>0, <1>9, DownEnds, QuietCount DEF Kill
<1>10. CASE UNCHANGED <<pc, reply, rows, counted>>
  BY <1>10 DEF CountInv, Succeeded, Ended
<1> QED BY <1>3, <1>4, <1>5, <1>6, <1>7, <1>8, <1>9, <1>10 DEF Next, Keycloak, Statement, Declined, Fork, vars

LEMMA CountCorrect ==
  ASSUME IsFiniteSet(Requests) PROVE Spec => [](Types /\ SignupInv /\ CountInv)
<1>1. (Types /\ SignupInv /\ CountInv) /\ [Next]_vars => (Types /\ SignupInv /\ CountInv)'
  BY NextTypes, NextSignup, NextCount
<1> QED BY <1>1, InitTypes, InitSignup, InitCount, PTL DEF Spec

(***************************************************************************)
(* For any finite number of requests, and across failed flushes, lost      *)
(* commits and dying workers, the successes counted are the rows whose     *)
(* sign-up was answered with 201 and ran to its end.                       *)
(***************************************************************************)
THEOREM SuccessesAreAlwaysRows ==
  ASSUME IsFiniteSet(Requests) PROVE Spec => []SuccessesAreRows
<1>1. CountInv => SuccessesAreRows
  BY DEF CountInv, Succeeded, SuccessesAreRows
<1> QED BY <1>1, CountCorrect, PTL

(* The variables of Accounts keep their types; the counters never pass the *)
(* number of requests.                                                     *)
THEOREM TypeCorrect == ASSUME IsFiniteSet(Requests) PROVE Spec => []TypeOK
<1>1. Types /\ CountInv => TypeOK
  <2> SUFFICES ASSUME Types, CountInv PROVE TypeOK
    OBVIOUS
  <2>1. counted.success \in 0 .. Cardinality(Requests)
        /\ counted.failure \in 0 .. Cardinality(Requests)
    BY Finiteness DEF CountInv, Types
  <2>2. counted \in [{"success", "failure"} -> 0 .. Cardinality(Requests)]
    BY <2>1 DEF Types
  <2> QED BY <2>2 DEF Types, TypeOK, Replies, Places
<1> QED BY <1>1, CountCorrect, PTL

=============================================================================
