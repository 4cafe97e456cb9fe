------------------------------ MODULE Session -------------------------------
(***************************************************************************)
(* The session of the web client: an e-mail and a token in the storages of *)
(* the browser.  Each tab has its own sessionStorage, all tabs share one   *)
(* localStorage, and the continuations of the requests under way write to  *)
(* both.  A full page load ends the continuations of a tab; a link of the  *)
(* router does not.                                                        *)
(***************************************************************************)
EXTENDS FiniteSets, Naturals

CONSTANTS
  Tabs,
  Users,
  MaxFlights  \* bound: requests under way

None == "none"
Undefined == "undefined"  \* what setItem makes of a field that is missing
Empty == [email |-> None, token |-> None]

VARIABLES
  session,  \* sessionStorage of each tab: [email, token], the user of each
  local,    \* localStorage: the same
  page,     \* the page each tab shows
  form,     \* the form of PasswordCheck: [user, remember]
  flights,  \* the requests under way: [tab, slot, kind, user, remember]
  crossed   \* history: a tab sent a login while it awaited another

vars == <<session, local, page, form, flights, crossed>>

Pages == {"home", "login", "loginNew", "check", "userprofile"}
Kinds == {"login", "ldap", "find", "check", "checkData", "guarded", "putInfo"}
Emails == Users \cup {None, Undefined}
Storage == [email : Emails, token : Users \cup {None}]
Forms == [user : Emails, remember : BOOLEAN]
NoForm == [user |-> None, remember |-> FALSE]

TypeOK ==
  /\ session \in [Tabs -> Storage]
  /\ local \in Storage
  /\ page \in [Tabs -> Pages]
  /\ form \in [Tabs -> Forms]
  /\ flights \subseteq [tab : Tabs, slot : 1 .. MaxFlights, kind : Kinds,
                        user : Emails, remember : BOOLEAN]
  /\ crossed \in BOOLEAN

Init ==
  /\ session = [t \in Tabs |-> Empty]
  /\ local = Empty
  /\ page = [t \in Tabs |-> "home"]
  /\ form = [t \in Tabs |-> NoForm]
  /\ flights = {}
  /\ crossed = FALSE

-----------------------------------------------------------------------------
Of(t) == {f \in flights : f.tab = t}
Logins(t) == {f \in Of(t) : f.kind \in {"login", "check"}}
Email(t) == IF session[t].email # None THEN session[t].email ELSE local.email
Token(t) == IF session[t].token # None THEN session[t].token ELSE local.token

(* A request is sent, in a slot that is free.                              *)
Send(t, kind, user, remember) ==
  /\ Cardinality(flights) < MaxFlights
  /\ LET s == CHOOSE s \in (1 .. MaxFlights) \ {f.slot : f \in Of(t)} : TRUE IN
       flights' = flights \cup {[tab |-> t, slot |-> s, kind |-> kind,
                                 user |-> user, remember |-> remember]}
  /\ crossed' = (crossed \/ (kind \in {"login", "check"} /\ Logins(t) # {}))
  /\ UNCHANGED <<session, local, page, form>>

Landed(f) == flights' = flights \ {f}
Becomes(f, kind) == flights' = (flights \ {f}) \cup {[f EXCEPT !.kind = kind]}

(* The whole page is loaded: the tab's requests are gone, and the form of  *)
(* PasswordCheck takes the e-mail of the session as it is then.            *)
Load(t, p, stored) ==
  /\ page' = [page EXCEPT ![t] = p]
  /\ form' = [form EXCEPT ![t] = IF p = "check" THEN [NoForm EXCEPT !.user = stored] ELSE NoForm]
  /\ flights' = flights \ Of(t)

(* makeApiRequest on 401.                                                  *)
ClearBoth(t, left) ==
  /\ session' = [session EXCEPT ![t] = left]
  /\ local' = Empty

(* AppRoutes: without an e-mail the pages of a user lead elsewhere.        *)
Open(t, p) ==
  /\ p \in {"check", "userprofile"} => Email(t) # None
  /\ Load(t, p, session[t].email)
  /\ UNCHANGED <<session, local, crossed>>

(* Sign Up Here, and Sign In from there: the router's links.               *)
FollowLinks(t) ==
  /\ page[t] \in {"loginNew", "check"}
  /\ page' = [page EXCEPT ![t] = "login"]
  /\ form' = [form EXCEPT ![t] = NoForm]
  /\ UNCHANGED <<session, local, flights, crossed>>

(* A render of the profile page that finds no e-mail or no user id, which  *)
(* is stored by Login only and is not modelled: the router goes to Login.  *)
LedToLogin(t) ==
  /\ page[t] = "userprofile"
  /\ page' = [page EXCEPT ![t] = "login"]
  /\ UNCHANGED <<session, local, form, flights, crossed>>

(* The box is a text field to onInput: once ticked it stays "true".        *)
TickRemember(t) ==
  /\ page[t] = "check"
  /\ form' = [form EXCEPT ![t].remember = TRUE]
  /\ UNCHANGED <<session, local, page, flights, crossed>>

Logout(t) ==
  /\ page[t] = "home" /\ Email(t) # None
  /\ ClearBoth(t, Empty)
  /\ Load(t, "home", None)
  /\ UNCHANGED crossed

-----------------------------------------------------------------------------
(* Login: sendUser, for a user who exists or one who does not.             *)
SendLogin(t) ==
  /\ page[t] = "login"
  /\ \E u \in Users \cup {Undefined} : Send(t, "login", u, FALSE)

LoginSucceeds(f) ==
  /\ f.kind = "login" /\ f.user \in Users
  /\ session' = [session EXCEPT ![f.tab] = [email |-> f.user, token |-> f.user]]
  /\ IF page[f.tab] = "login" THEN Becomes(f, "ldap") ELSE Landed(f)
  /\ UNCHANGED <<local, page, form, crossed>>

(* Mutant of LoginFails: the token the error lacks is stored like a token. *)
LoginFailsWithToken(f) ==
  /\ f.kind = "login"
  /\ session' = [session EXCEPT ![f.tab] = [email |-> Undefined, token |-> Undefined]]
  /\ Landed(f)
  /\ UNCHANGED <<local, page, form, crossed>>

(* The error has no email: the word undefined is stored, and the request   *)
(* for that user's data throws before it is sent.                          *)
LoginFails(f) ==
  /\ f.kind = "login"
  /\ \/ ClearBoth(f.tab, [Empty EXCEPT !.email = Undefined])
     \/ session' = [session EXCEPT ![f.tab].email = Undefined] /\ UNCHANGED local
  /\ Landed(f)
  /\ UNCHANGED <<page, form, crossed>>

(* sendLdap goes on to the page the user came from, whatever the answer.   *)
LdapAnswered(f) ==
  /\ f.kind = "ldap"
  /\ \E p \in {"home", "userprofile"} : Load(f.tab, p, None)
  /\ UNCHANGED <<session, local, crossed>>

-----------------------------------------------------------------------------
(* LoginNew: sendUser.                                                     *)
SendFind(t) ==
  /\ page[t] = "loginNew"
  /\ \E u \in Users : Send(t, "find", u, FALSE)

Found(f) ==
  /\ f.kind = "find"
  /\ session' = [session EXCEPT ![f.tab].email = f.user]
  /\ Load(f.tab, "check", f.user)
  /\ UNCHANGED <<local, crossed>>

(* PasswordCheck: sendUser, with the form as it was rendered.              *)
SendCheck(t) ==
  /\ page[t] = "check"
  /\ Send(t, "check", form[t].user, form[t].remember)

(* Mutant of CheckSucceeds: the e-mail is remembered, the token is left    *)
(* to makeApiRequest.                                                      *)
CheckRemembersEmail(f) ==
  /\ f.kind = "check" /\ f.user \in Users
  /\ IF f.remember
     THEN /\ local' = [local EXCEPT !.email = session[f.tab].email]
          /\ session' = [session EXCEPT ![f.tab] = Empty]
     ELSE /\ session' = [session EXCEPT ![f.tab].token = f.user]
          /\ UNCHANGED local
  /\ Becomes(f, "checkData")
  /\ UNCHANGED <<page, form, crossed>>

(* The token comes with the answer, the e-mail from the storage.           *)
CheckSucceeds(f) ==
  /\ f.kind = "check" /\ f.user \in Users
  /\ IF f.remember
     THEN /\ local' = [email |-> session[f.tab].email, token |-> f.user]
          /\ session' = [session EXCEPT ![f.tab] = Empty]
     ELSE /\ session' = [session EXCEPT ![f.tab].token = f.user]
          /\ UNCHANGED local
  /\ Becomes(f, "checkData")
  /\ UNCHANGED <<page, form, crossed>>

CheckFails(f) ==
  /\ f.kind = "check"
  /\ ClearBoth(f.tab, Empty) \/ UNCHANGED <<session, local>>
  /\ Landed(f)
  /\ UNCHANGED <<page, form, crossed>>

(* The name is stored, of no concern here, and the page is left.           *)
CheckDataAnswered(f) ==
  /\ f.kind = "checkData"
  /\ Load(f.tab, "home", None)
  /\ UNCHANGED <<session, local, crossed>>

-----------------------------------------------------------------------------
(* Photo, admin status, products, profile: what the pages ask with the     *)
(* token, or without one.                                                  *)
SendGuarded(t) ==
  \E kind \in {"guarded", "putInfo"} :
    /\ page[t] \in (IF kind = "guarded" THEN {"home", "userprofile"} ELSE {"userprofile"})
    /\ Send(t, kind, Token(t), FALSE)

(* 401: the token has expired.  The profile page goes home all the same.   *)
Refused(f) ==
  /\ f.kind \in {"guarded", "putInfo"} /\ f.user # None
  /\ ClearBoth(f.tab, Empty)
  /\ IF f.kind = "putInfo"
     THEN Load(f.tab, "home", None)
     ELSE Landed(f) /\ UNCHANGED <<page, form>>
  /\ UNCHANGED crossed

(* Any other answer; without a token it is 403.                            *)
GuardedAnswered(f) ==
  /\ f.kind \in {"guarded", "putInfo"}
  /\ IF f.kind = "putInfo"
     THEN Load(f.tab, "home", None)
     ELSE Landed(f) /\ UNCHANGED <<page, form>>
  /\ UNCHANGED <<session, local, crossed>>

(* No such user; or no answer at all, and the handler of errors throws.    *)
NothingComes(f) ==
  /\ Landed(f)
  /\ UNCHANGED <<session, local, page, form, crossed>>

Next ==
  \/ \E t \in Tabs :
       \/ \E p \in Pages : Open(t, p)
       \/ FollowLinks(t) \/ LedToLogin(t) \/ TickRemember(t) \/ Logout(t)
       \/ SendLogin(t) \/ SendFind(t) \/ SendCheck(t) \/ SendGuarded(t)
  \/ \E f \in flights :
       \/ LoginSucceeds(f) \/ LoginFails(f) \/ LdapAnswered(f)
       \/ Found(f) \/ CheckSucceeds(f) \/ CheckFails(f) \/ CheckDataAnswered(f)
       \/ Refused(f) \/ GuardedAnswered(f) \/ NothingComes(f)

Spec == Init /\ [][Next]_vars

-----------------------------------------------------------------------------
(***************************************************************************)
(* What is remembered in the shared storage is one user's e-mail with that *)
(* user's token, however tabs, refusals and page loads interleave: the     *)
(* e-mail is read from one storage and the token comes with an answer, at  *)
(* the end of a request that was sent much earlier.  The condition is      *)
(* needed: a tab that sends a second login while it awaits a first can     *)
(* remember the e-mail of one with the token of the other.                 *)
(***************************************************************************)
RememberedPair ==
  ~crossed /\ local.email # None => local.token = local.email

(***************************************************************************)
(* "please check your credentials and try again": a tab whose password     *)
(* check succeeded, and that is about to come home, is taken for signed in *)
(* there.  It is not when an earlier try was refused: the refusal cleared  *)
(* the e-mail the page had been opened with, and nothing stores it again.  *)
(***************************************************************************)
CheckedUserIsSignedIn ==
  \A f \in flights : f.kind = "checkData" => Email(f.tab) # None

=============================================================================
