---------------------------- MODULE SessionProofs ---------------------------
(***************************************************************************)
(* The web client's session for any number of tabs, users and requests:    *)
(* types, and that the shared storage holds one user's e-mail and token.   *)
(***************************************************************************)
EXTENDS Session, FiniteSetTheorems, TLAPS

Flights == [tab : Tabs, slot : 1 .. MaxFlights, kind : Kinds, user : Emails, remember : BOOLEAN]

TypeInv == TypeOK /\ IsFiniteSet(flights)

(* As long as fewer requests than MaxFlights are under way, there is a     *)
(* slot for another.                                                       *)
LEMMA FreeSlot ==
  ASSUME MaxFlights \in Nat, TypeInv, NEW t \in Tabs, Cardinality(flights) < MaxFlights
  PROVE  (CHOOSE s \in (1 .. MaxFlights) \ {f.slot : f \in Of(t)} : TRUE) \in 1 .. MaxFlights
<1> DEFINE Used == {f.slot : f \in Of(t)}
           slotOf == [f \in Of(t) |-> f.slot]
<1>1. IsFiniteSet(Of(t)) /\ Cardinality(Of(t)) <= Cardinality(flights)
      /\ Cardinality(flights) \in Nat /\ Cardinality(Of(t)) \in Nat
  <2>1. Of(t) \in SUBSET flights /\ IsFiniteSet(flights)
    BY DEF Of, TypeInv
  <2> QED BY <2>1, FS_Subset, FS_CardinalityType
<1>2. slotOf \in Surjection(Of(t), Used)
  BY DEF Surjection
<1>3. IsFiniteSet(Used) /\ Cardinality(Used) <= Cardinality(Of(t)) /\ Cardinality(Used) \in Nat
  <2> HIDE DEF Used, slotOf
  <2> QED BY <1>1, <1>2, FS_Surjection, FS_CardinalityType
<1>4. Cardinality(1 .. MaxFlights) = MaxFlights
  BY FS_Interval
<1>5. (1 .. MaxFlights) \ Used # {}
  <2> SUFFICES ASSUME 1 .. MaxFlights \subseteq Used PROVE FALSE
    OBVIOUS
  <2>1. Cardinality(1 .. MaxFlights) <= Cardinality(Used)
    BY <1>3, FS_Subset
  <2> QED BY <1>1, <1>3, <1>4, <2>1
<1> QED BY <1>5

LEMMA SendType ==
  ASSUME MaxFlights \in Nat, TypeInv, NEW t \in Tabs, NEW kind \in Kinds,
         NEW user \in Emails, NEW remember \in BOOLEAN, Send(t, kind, user, remember)
  PROVE  TypeInv'
<1> DEFINE s == CHOOSE s \in (1 .. MaxFlights) \ {f.slot : f \in Of(t)} : TRUE
           f == [tab |-> t, slot |-> s, kind |-> kind, user |-> user, remember |-> remember]
<1>1. f \in Flights
  BY FreeSlot DEF Send, Flights
<1>2. flights' = flights \cup {f} /\ crossed' \in BOOLEAN
      /\ UNCHANGED <<session, local, page, form>>
  BY DEF Send, TypeInv, TypeOK
<1> HIDE DEF f
<1>3. IsFiniteSet(flights')
  BY <1>2, FS_AddElement DEF TypeInv
<1> QED BY <1>1, <1>2, <1>3 DEF TypeInv, TypeOK, Flights

(* Requests that end, or that go on as another kind.                       *)
LEMMA FewerFlights ==
  ASSUME TypeInv, flights' \subseteq flights
  PROVE  IsFiniteSet(flights') /\ flights' \subseteq Flights
BY FS_Subset DEF TypeInv, TypeOK, Flights

LEMMA OtherKind ==
  ASSUME TypeInv, NEW f \in flights, NEW k \in Kinds, Becomes(f, k)
  PROVE  IsFiniteSet(flights') /\ flights' \subseteq Flights
<1> DEFINE g == [f EXCEPT !.kind = k]
<1>1. g \in Flights
  BY DEF TypeInv, TypeOK, Flights
<1>2. flights' = (flights \ {f}) \cup {g}
  BY DEF Becomes
<1> HIDE DEF g
<1>3. IsFiniteSet(flights')
  BY <1>2, FS_RemoveElement, FS_AddElement DEF TypeInv
<1> QED BY <1>1, <1>2, <1>3 DEF TypeInv, TypeOK, Flights

LEMMA LoadType ==
  ASSUME TypeInv, NEW t \in Tabs, NEW p \in Pages, NEW stored \in Emails, Load(t, p, stored)
  PROVE  /\ page' \in [Tabs -> Pages] /\ form' \in [Tabs -> Forms]
         /\ IsFiniteSet(flights') /\ flights' \subseteq Flights
<1>1. NoForm \in Forms /\ [NoForm EXCEPT !.user = stored] \in Forms
  BY DEF NoForm, Forms, Emails
<1>2. flights' \subseteq flights
  BY DEF Load
<1> QED BY <1>1, <1>2, FewerFlights DEF Load, TypeInv, TypeOK

LEMMA ClearType ==
  ASSUME TypeInv, NEW t \in Tabs, NEW left \in Storage, ClearBoth(t, left)
  PROVE  session' \in [Tabs -> Storage] /\ local' \in Storage
BY DEF ClearBoth, TypeInv, TypeOK, Empty, Storage, Emails

LEMMA InitType == Init => TypeInv
<1> SUFFICES ASSUME Init PROVE TypeInv
  OBVIOUS
<1>1. Empty \in Storage /\ NoForm \in Forms /\ "home" \in Pages
  BY DEF Empty, Storage, Emails, NoForm, Forms, Pages
<1> QED BY <1>1, FS_EmptySet DEF Init, TypeInv, TypeOK

LEMMA NextType == ASSUME MaxFlights \in Nat PROVE TypeInv /\ [Next]_vars => TypeInv'
<1> SUFFICES ASSUME TypeInv, [Next]_vars PROVE TypeInv'
  OBVIOUS
<1> USE DEF TypeInv
<1>0. /\ Empty \in Storage /\ [Empty EXCEPT !.email = Undefined] \in Storage
      /\ None \in Emails /\ NoForm \in Forms
      /\ {"home", "login", "userprofile", "check"} \subseteq Pages
      /\ Users \cup {Undefined} \subseteq Emails
      /\ {"login", "find", "check", "guarded", "putInfo", "ldap", "checkData"} \subseteq Kinds
      /\ \A t \in Tabs : session[t].email \in Emails /\ Token(t) \in Emails
      /\ \A f \in flights : f.tab \in Tabs /\ f.user \in Emails
  BY DEF Empty, Storage, Undefined, Emails, NoForm, Forms, Pages, Kinds, Token, TypeOK
<1>1. ASSUME NEW t \in Tabs, NEW p \in Pages, Open(t, p) PROVE TypeInv'
  BY <1>0, <1>1, LoadType DEF Open, TypeOK, Flights
<1>2. ASSUME NEW t \in Tabs, FollowLinks(t) \/ LedToLogin(t) \/ TickRemember(t)
      PROVE  TypeInv'
  <2>1. page' \in [Tabs -> Pages]
    BY <1>0, <1>2 DEF FollowLinks, LedToLogin, TickRemember, TypeOK
  <2>2. form' \in [Tabs -> Forms]
    <3>1. form[t] \in Forms /\ [form[t] EXCEPT !.remember = TRUE] \in Forms
      BY DEF TypeOK, Forms
    <3>2. form' = [form EXCEPT ![t] = NoForm]
          \/ form' = [form EXCEPT ![t] = [form[t] EXCEPT !.remember = TRUE]]
          \/ form' = form
      BY <1>2 DEF FollowLinks, LedToLogin, TickRemember
    <3> QED BY <1>0, <3>1, <3>2 DEF TypeOK
  <2> QED BY <1>2, <2>1, <2>2 DEF FollowLinks, LedToLogin, TickRemember, TypeOK
<1>3. ASSUME NEW t \in Tabs, Logout(t) PROVE TypeInv'
  BY <1>0, <1>3, LoadType, ClearType DEF Logout, TypeOK, Flights
<1>4. ASSUME NEW t \in Tabs, SendLogin(t) \/ SendFind(t) \/ SendGuarded(t) PROVE TypeInv'
  <2>1. CASE SendLogin(t)
    BY <1>0, <2>1, SendType DEF SendLogin
  <2>2. CASE SendFind(t)
    BY <1>0, <2>2, SendType DEF SendFind
  <2>3. CASE SendGuarded(t)
    BY <1>0, <2>3, SendType DEF SendGuarded
  <2> QED BY <1>4, <2>1, <2>2, <2>3
<1>5. ASSUME NEW t \in Tabs, SendCheck(t) PROVE TypeInv'
  <2>1. form[t].user \in Emails /\ form[t].remember \in BOOLEAN
    BY DEF TypeOK, Forms
  <2> QED BY <1>0, <1>5, <2>1, SendType DEF SendCheck
<1>6. ASSUME NEW f \in flights, LoginSucceeds(f) PROVE TypeInv'
  <2>1. session' \in [Tabs -> Storage]
    BY <1>0, <1>6 DEF LoginSucceeds, TypeOK, Storage
  <2>2. IsFiniteSet(flights') /\ flights' \subseteq Flights
    <3>1. CASE Becomes(f, "ldap")
      BY <1>0, <3>1, OtherKind
    <3>2. CASE Landed(f)
      BY <3>2, FewerFlights DEF Landed
    <3> QED BY <1>6, <3>1, <3>2 DEF LoginSucceeds
  <2> QED BY <1>6, <2>1, <2>2 DEF LoginSucceeds, TypeOK, Flights
<1>7. ASSUME NEW f \in flights, LoginFails(f) PROVE TypeInv'
  <2>1. session' \in [Tabs -> Storage] /\ local' \in Storage
    <3>1. CASE ClearBoth(f.tab, [Empty EXCEPT !.email = Undefined])
      BY <1>0, <3>1, ClearType
    <3>2. CASE session' = [session EXCEPT ![f.tab].email = Undefined] /\ UNCHANGED local
      BY <1>0, <3>2 DEF TypeOK, Storage
    <3> QED BY <1>7, <3>1, <3>2 DEF LoginFails
  <2>2. IsFiniteSet(flights') /\ flights' \subseteq Flights
    BY <1>7, FewerFlights DEF LoginFails, Landed
  <2> QED BY <1>7, <2>1, <2>2 DEF LoginFails, TypeOK, Flights
<1>8. ASSUME NEW f \in flights, LdapAnswered(f) PROVE TypeInv'
  BY <1>0, <1>8, LoadType DEF LdapAnswered, TypeOK, Flights
<1>9. ASSUME NEW f \in flights, Found(f) PROVE TypeInv'
  <2>1. session' \in [Tabs -> Storage]
    BY <1>0, <1>9 DEF Found, TypeOK, Storage
  <2> QED BY <1>0, <1>9, <2>1, LoadType DEF Found, TypeOK, Flights
<1>10. ASSUME NEW f \in flights, CheckSucceeds(f) PROVE TypeInv'
  <2>1. session' \in [Tabs -> Storage] /\ local' \in Storage
    <3>1. CASE f.remember
      BY <1>0, <1>10, <3>1 DEF CheckSucceeds, TypeOK, Storage
    <3>2. CASE ~f.remember
      BY <1>0, <1>10, <3>2 DEF CheckSucceeds, TypeOK, Storage
    <3> QED BY <3>1, <3>2
  <2> QED BY <1>0, <1>10, <2>1, OtherKind DEF CheckSucceeds, TypeOK, Flights
<1>11. ASSUME NEW f \in flights, CheckFails(f) PROVE TypeInv'
  <2>1. session' \in [Tabs -> Storage] /\ local' \in Storage
    BY <1>0, <1>11, ClearType DEF CheckFails, TypeOK
  <2> QED BY <1>11, <2>1, FewerFlights DEF CheckFails, Landed, TypeOK, Flights
<1>12. ASSUME NEW f \in flights, CheckDataAnswered(f) PROVE TypeInv'
  BY <1>0, <1>12, LoadType DEF CheckDataAnswered, TypeOK, Flights
<1>13. ASSUME NEW f \in flights, Refused(f) \/ GuardedAnswered(f) PROVE TypeInv'
  <2>1. session' \in [Tabs -> Storage] /\ local' \in Storage
    BY <1>0, <1>13, ClearType DEF Refused, GuardedAnswered, TypeOK
  <2>2. CASE Load(f.tab, "home", None)
    BY <1>0, <1>13, <2>1, <2>2, LoadType DEF Refused, GuardedAnswered, TypeOK, Flights
  <2>3. CASE Landed(f) /\ UNCHANGED <<page, form>>
    BY <1>13, <2>1, <2>3, FewerFlights DEF Landed, Refused, GuardedAnswered, TypeOK, Flights
  <2> QED BY <1>13, <2>2, <2>3 DEF Refused, GuardedAnswered
<1>14. ASSUME NEW f \in flights, NothingComes(f) PROVE TypeInv'
  BY <1>14, FewerFlights DEF NothingComes, Landed, TypeOK, Flights
<1>15. CASE UNCHANGED vars
  BY <1>15 DEF vars, TypeOK
<1> QED BY <1>1, <1>2, <1>3, <1>4, <1>5, <1>6, <1>7, <1>8, <1>9, <1>10, <1>11, <1>12,
        <1>13, <1>14, <1>15 DEF Next

(* The variables of Session keep their types.                              *)
THEOREM TypeCorrect == ASSUME MaxFlights \in Nat PROVE Spec => []TypeOK
<1>1. TypeInv => TypeOK
  BY DEF TypeInv
<1> QED BY <1>1, InitType, NextType, PTL DEF Spec

-----------------------------------------------------------------------------
(***************************************************************************)
(* As long as no tab has sent a login while it awaited another: a tab has  *)
(* one login or password check under way, the page of the password check   *)
(* shows the e-mail stored in its tab or none is stored, and so does the   *)
(* check that was sent from it; no login is under way behind that page.    *)
(***************************************************************************)
OneLogin == \A t \in Tabs : \A f, g \in Logins(t) : f = g
FormShowsEmail ==
  \A t \in Tabs : page[t] = "check" => session[t].email \in {None, form[t].user}
NoLoginBehind == \A f \in flights : f.kind = "login" => page[f.tab] # "check"
CheckOfEmail ==
  \A f \in flights : f.kind = "check" => session[f.tab].email \in {None, f.user}
OneUser == local.email # None => local.token = local.email

PairInv == ~crossed => OneLogin /\ FormShowsEmail /\ NoLoginBehind /\ CheckOfEmail /\ OneUser

LEMMA InitPair == Init => PairInv
<1> SUFFICES ASSUME Init PROVE PairInv
  OBVIOUS
<1>1. flights = {} /\ local.email = None /\ \A t \in Tabs : page[t] = "home"
  BY DEF Init, Empty
<1> QED BY <1>1 DEF PairInv, OneLogin, FormShowsEmail, NoLoginBehind, CheckOfEmail, OneUser,
        Logins, Of

(* What stores no other e-mail, opens no password check and sends neither  *)
(* a login nor a check.                                                    *)
LEMMA QuietStep ==
  ASSUME TypeInv, PairInv, crossed' = crossed, ~crossed => OneUser',
         \A f \in flights' : f.kind \in {"login", "check"} => f \in flights,
         \A t \in Tabs : session'[t].email \in {session[t].email, None},
         \A t \in Tabs : page'[t] = "check" =>
           page[t] = "check" /\ form'[t].user = form[t].user
  PROVE  PairInv'
<1> SUFFICES ASSUME ~crossed PROVE (OneLogin /\ FormShowsEmail /\ NoLoginBehind /\ CheckOfEmail)'
  BY DEF PairInv
<1>0. \A f \in flights : f.tab \in Tabs
  BY DEF TypeInv, TypeOK
<1>1. OneLogin'
  <2>1. \A t \in Tabs : Logins(t)' \subseteq Logins(t)
    BY DEF Logins, Of
  <2> QED BY <2>1 DEF PairInv, OneLogin
<1>2. FormShowsEmail'
  BY DEF PairInv, FormShowsEmail
<1>3. NoLoginBehind'
  BY <1>0 DEF PairInv, NoLoginBehind
<1>4. CheckOfEmail'
  BY <1>0 DEF PairInv, CheckOfEmail
<1> QED BY <1>1, <1>2, <1>3, <1>4

(* A login ends: no password check is open or under way in its tab, and    *)
(* whatever it stores there is no concern of another tab.                  *)
LEMMA LoginEnds ==
  ASSUME TypeInv, PairInv, crossed' = crossed, ~crossed => OneUser',
         NEW f \in flights, f.kind = "login",
         \A g \in flights' : g.kind \in {"login", "check"} => g \in flights \ {f},
         \A t \in Tabs : t # f.tab => session'[t] = session[t],
         UNCHANGED <<page, form>>
  PROVE  PairInv'
<1> SUFFICES ASSUME ~crossed PROVE (OneLogin /\ FormShowsEmail /\ NoLoginBehind /\ CheckOfEmail)'
  BY DEF PairInv
<1>0. \A g \in flights : g.tab \in Tabs
  BY DEF TypeInv, TypeOK
<1>1. \A t \in Tabs : Logins(t)' \subseteq Logins(t) \ {f}
  BY DEF Logins, Of
<1>2. OneLogin'
  BY <1>1 DEF PairInv, OneLogin
<1>3. FormShowsEmail'
  BY <1>0 DEF PairInv, FormShowsEmail, NoLoginBehind
<1>4. NoLoginBehind'
  BY DEF PairInv, NoLoginBehind
<1>5. CheckOfEmail'
  <2> SUFFICES ASSUME NEW g \in flights', g.kind = "check"
               PROVE  session'[g.tab].email \in {None, g.user}
    BY DEF CheckOfEmail
  <2>1. g \in flights /\ g # f /\ g.tab \in Tabs
    BY <1>0
  <2>2. g.tab # f.tab
    BY <1>0, <2>1 DEF PairInv, OneLogin, Logins, Of
  <2> QED BY <2>1, <2>2 DEF PairInv, CheckOfEmail
<1> QED BY <1>2, <1>3, <1>4, <1>5

(* The password check is opened with the e-mail that the tab stores.       *)
LEMMA CheckOpens ==
  ASSUME TypeInv, PairInv, UNCHANGED <<local, crossed>>, NEW t \in Tabs,
         Load(t, "check", session'[t].email),
         \A q \in Tabs : q # t => session'[q] = session[q]
  PROVE  PairInv'
<1> SUFFICES ASSUME ~crossed
             PROVE  (OneLogin /\ FormShowsEmail /\ NoLoginBehind /\ CheckOfEmail /\ OneUser)'
  BY DEF PairInv
<1>0. \A f \in flights : f.tab \in Tabs
  BY DEF TypeInv, TypeOK
<1>1. flights' \subseteq flights /\ \A f \in flights' : f.tab # t
  BY DEF Load, Of
<1>2. \A q \in Tabs : q # t => page'[q] = page[q] /\ form'[q] = form[q]
  BY DEF Load, TypeInv, TypeOK
<1>3. form'[t].user = session'[t].email
  BY DEF Load, TypeInv, TypeOK, NoForm
<1>4. OneLogin'
  <2>1. \A q \in Tabs : Logins(q)' \subseteq Logins(q)
    BY <1>1 DEF Logins, Of
  <2> QED BY <2>1 DEF PairInv, OneLogin
<1>5. FormShowsEmail'
  BY <1>2, <1>3 DEF PairInv, FormShowsEmail
<1>6. NoLoginBehind'
  BY <1>0, <1>1, <1>2 DEF PairInv, NoLoginBehind
<1>7. CheckOfEmail'
  BY <1>0, <1>1 DEF PairInv, CheckOfEmail
<1>8. OneUser'
  BY DEF PairInv, OneUser
<1> QED BY <1>4, <1>5, <1>6, <1>7, <1>8

LEMMA Sent ==
  ASSUME NEW t, NEW kind, NEW user, NEW remember, Send(t, kind, user, remember)
  PROVE  \E g : flights' = flights \cup {g} /\ g.tab = t /\ g.kind = kind /\ g.user = user
<1> DEFINE s == CHOOSE s \in (1 .. MaxFlights) \ {f.slot : f \in Of(t)} : TRUE
           g == [tab |-> t, slot |-> s, kind |-> kind, user |-> user, remember |-> remember]
<1>1. flights' = flights \cup {g}
  BY DEF Send
<1>2. g.tab = t /\ g.kind = kind /\ g.user = user
  OBVIOUS
<1> HIDE DEF g
<1> QED BY <1>1, <1>2

(* A login or a check is sent, with the form as it is.                     *)
LEMMA LoginSent ==
  ASSUME TypeInv, PairInv, NEW t \in Tabs, NEW kind \in {"login", "check"},
         NEW user, NEW remember, Send(t, kind, user, remember),
         kind = "login" => page[t] # "check",
         kind = "check" => page[t] = "check" /\ user = form[t].user
  PROVE  PairInv'
<1> SUFFICES ASSUME ~crossed'
             PROVE  (OneLogin /\ FormShowsEmail /\ NoLoginBehind /\ CheckOfEmail /\ OneUser)'
  BY DEF PairInv
<1>1. UNCHANGED <<session, local, page, form>> /\ ~crossed /\ Logins(t) = {}
  BY DEF Send
<1>2. PICK g : flights' = flights \cup {g} /\ g.tab = t /\ g.kind = kind /\ g.user = user
  BY Sent
<1>3. \A q \in Tabs : q # t => Logins(q)' = Logins(q)
  BY <1>2 DEF Logins, Of
<1>4. Logins(t)' = {g}
  BY <1>1, <1>2 DEF Logins, Of
<1>5. OneLogin'
  BY <1>1, <1>3, <1>4 DEF PairInv, OneLogin
<1>6. FormShowsEmail' /\ OneUser'
  BY <1>1 DEF PairInv, FormShowsEmail, OneUser
<1>7. NoLoginBehind'
  BY <1>1, <1>2 DEF PairInv, NoLoginBehind
<1>8. CheckOfEmail'
  BY <1>1, <1>2 DEF PairInv, CheckOfEmail, FormShowsEmail
<1> QED BY <1>5, <1>6, <1>7, <1>8

(* A page other than the password check is loaded; storages are cleared.   *)
LEMMA LoadAway ==
  ASSUME TypeInv, NEW t \in Tabs, NEW p, p # "check", NEW stored, Load(t, p, stored)
  PROVE  /\ \A f \in flights' : f \in flights
         /\ \A q \in Tabs : page'[q] = "check" => page[q] = "check" /\ form'[q] = form[q]
BY DEF Load, TypeInv, TypeOK

LEMMA Cleared ==
  ASSUME TypeInv, NEW t \in Tabs, ClearBoth(t, Empty)
  PROVE  /\ OneUser' /\ \A q \in Tabs : session'[q].email \in {session[q].email, None}
BY DEF ClearBoth, OneUser, Empty, TypeInv, TypeOK

LEMMA NextPair == TypeInv /\ PairInv /\ [Next]_vars => PairInv'
<1> SUFFICES ASSUME TypeInv, PairInv, [Next]_vars PROVE PairInv'
  OBVIOUS
<1>0. (\A f \in flights : f.tab \in Tabs) /\ (UNCHANGED local => (~crossed => OneUser'))
  BY DEF TypeInv, TypeOK, PairInv, OneUser
<1>1. ASSUME NEW t \in Tabs, NEW p \in Pages, Open(t, p) PROVE PairInv'
  <2>1. CASE p = "check"
    BY <1>1, <2>1, CheckOpens DEF Open
  <2>2. CASE p # "check"
    BY <1>0, <1>1, <2>2, LoadAway, QuietStep DEF Open
  <2> QED BY <2>1, <2>2
<1>2. ASSUME NEW t \in Tabs, FollowLinks(t) \/ LedToLogin(t) \/ TickRemember(t)
      PROVE  PairInv'
  <2>1. \A q \in Tabs : page'[q] = "check" => page[q] = "check" /\ form'[q].user = form[q].user
    BY <1>2 DEF FollowLinks, LedToLogin, TickRemember, TypeInv, TypeOK, Forms
  <2> QED BY <1>0, <1>2, <2>1, QuietStep DEF FollowLinks, LedToLogin, TickRemember
<1>3. ASSUME NEW t \in Tabs, Logout(t) PROVE PairInv'
  BY <1>0, <1>3, Cleared, LoadAway, QuietStep DEF Logout
<1>4. ASSUME NEW t \in Tabs, SendFind(t) \/ SendGuarded(t) PROVE PairInv'
  <2>1. PICK k \in {"find", "guarded", "putInfo"}, u \in Users \cup {Token(t)},
             b \in BOOLEAN : Send(t, k, u, b)
    BY <1>4 DEF SendFind, SendGuarded
  <2>2. UNCHANGED <<session, local, page, form, crossed>>
    BY <2>1 DEF Send, TypeInv, TypeOK
  <2>3. \A f \in flights' : f.kind \in {"login", "check"} => f \in flights
    <3>1. \E g : flights' = flights \cup {g} /\ g.tab = t /\ g.kind = k /\ g.user = u
      BY <2>1, Sent
    <3>2. PICK g : flights' = flights \cup {g} /\ g.kind = k
      BY <3>1
    <3> QED BY <3>2
  <2> QED BY <1>0, <2>2, <2>3, QuietStep
<1>5. ASSUME NEW t \in Tabs, SendLogin(t) \/ SendCheck(t) PROVE PairInv'
  BY <1>5, LoginSent DEF SendLogin, SendCheck
<1>6. ASSUME NEW f \in flights, LoginSucceeds(f) PROVE PairInv'
  <2>1. \A g \in flights' : g.kind \in {"login", "check"} => g \in flights \ {f}
    BY <1>6 DEF LoginSucceeds, Becomes, Landed, TypeInv, TypeOK
  <2>2. \A t \in Tabs : t # f.tab => session'[t] = session[t]
    BY <1>6 DEF LoginSucceeds, TypeInv, TypeOK
  <2> QED BY <1>0, <1>6, <2>1, <2>2, LoginEnds DEF LoginSucceeds
<1>7. ASSUME NEW f \in flights, LoginFails(f) PROVE PairInv'
  <2>1. \A g \in flights' : g.kind \in {"login", "check"} => g \in flights \ {f}
    BY <1>7 DEF LoginFails, Landed
  <2>2. \A t \in Tabs : t # f.tab => session'[t] = session[t]
    BY <1>7 DEF LoginFails, ClearBoth, TypeInv, TypeOK
  <2>3. ~crossed => OneUser'
    BY <1>0, <1>7 DEF LoginFails, ClearBoth, OneUser, Empty
  <2> QED BY <1>7, <2>1, <2>2, <2>3, LoginEnds DEF LoginFails
<1>8. ASSUME NEW f \in flights, LdapAnswered(f) \/ CheckDataAnswered(f) PROVE PairInv'
  <2>1. \E p \in {"home", "userprofile"} : Load(f.tab, p, None)
    BY <1>8 DEF LdapAnswered, CheckDataAnswered
  <2> QED BY <1>0, <1>8, <2>1, LoadAway, QuietStep DEF LdapAnswered, CheckDataAnswered
<1>9. ASSUME NEW f \in flights, Found(f) PROVE PairInv'
  <2>1. session'[f.tab].email = f.user /\ \A q \in Tabs : q # f.tab => session'[q] = session[q]
    BY <1>0, <1>9 DEF Found, TypeInv, TypeOK, Storage
  <2> QED BY <1>0, <1>9, <2>1, CheckOpens DEF Found
<1>10. ASSUME NEW f \in flights, CheckSucceeds(f) PROVE PairInv'
  <2>1. \A g \in flights' : g.kind \in {"login", "check"} => g \in flights
    BY <1>10 DEF CheckSucceeds, Becomes, TypeInv, TypeOK
  <2>2. \A t \in Tabs : session'[t].email \in {session[t].email, None}
    <3>1. CASE f.remember
      BY <1>10, <3>1 DEF CheckSucceeds, Empty, TypeInv, TypeOK
    <3>2. CASE ~f.remember
      BY <1>10, <3>2 DEF CheckSucceeds, TypeInv, TypeOK, Storage
    <3> QED BY <3>1, <3>2
  <2>3. ~crossed => OneUser'
    <3>1. CASE f.remember
      <4>1. local'.email = session[f.tab].email /\ local'.token = f.user
        BY <1>10, <3>1 DEF CheckSucceeds
      <4> QED BY <1>10, <4>1 DEF CheckSucceeds, PairInv, CheckOfEmail, OneUser
    <3>2. CASE ~f.remember
      BY <1>0, <1>10, <3>2 DEF CheckSucceeds
    <3> QED BY <3>1, <3>2
  <2> QED BY <1>10, <2>1, <2>2, <2>3, QuietStep DEF CheckSucceeds
<1>11. ASSUME NEW f \in flights, CheckFails(f) PROVE PairInv'
  <2>1. CASE ClearBoth(f.tab, Empty)
    BY <1>0, <1>11, <2>1, Cleared, QuietStep DEF CheckFails, Landed
  <2>2. CASE UNCHANGED <<session, local>>
    BY <1>0, <1>11, <2>2, QuietStep DEF CheckFails, Landed
  <2> QED BY <1>11, <2>1, <2>2 DEF CheckFails
<1>12. ASSUME NEW f \in flights, Refused(f) \/ GuardedAnswered(f) PROVE PairInv'
  <2>1. (~crossed => OneUser') /\ \A t \in Tabs : session'[t].email \in {session[t].email, None}
    BY <1>0, <1>12, Cleared DEF Refused, GuardedAnswered
  <2>2. CASE Load(f.tab, "home", None)
    BY <1>0, <1>12, <2>1, <2>2, LoadAway, QuietStep DEF Refused, GuardedAnswered
  <2>3. CASE Landed(f) /\ UNCHANGED <<page, form>>
    BY <1>12, <2>1, <2>3, QuietStep DEF Refused, GuardedAnswered, Landed
  <2> QED BY <1>12, <2>2, <2>3 DEF Refused, GuardedAnswered
<1>13. ASSUME NEW f \in flights, NothingComes(f) PROVE PairInv'
  BY <1>0, <1>13, QuietStep DEF NothingComes, Landed
<1>14. CASE UNCHANGED vars
  BY <1>0, <1>14, QuietStep DEF vars
<1> QED BY <1>1, <1>2, <1>3, <1>4, <1>5, <1>6, <1>7, <1>8, <1>9, <1>10, <1>11, <1>12,
        <1>13, <1>14 DEF Next

(***************************************************************************)
(* For any number of tabs, users and requests under way, the storage that  *)
(* the tabs share never remembers one user's e-mail with another's token,  *)
(* as long as no tab sends a login while it awaits another.                *)
(***************************************************************************)
THEOREM RememberedAlwaysPair == ASSUME MaxFlights \in Nat PROVE Spec => []RememberedPair
<1>1. PairInv => RememberedPair
  BY DEF PairInv, OneUser, RememberedPair
<1> QED BY <1>1, InitType, NextType, InitPair, NextPair, PTL DEF Spec

=============================================================================
