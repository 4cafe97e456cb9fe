----------------------------- MODULE CsrfLogin ------------------------------
(***************************************************************************)
(* The login page and the CSRF check of POST /api/auth/login.  A tab that  *)
(* shows the form in one of the two CSRF modes fetches a token, which the  *)
(* server also leaves in the cookie _csrf.  The token stays in the tab,    *)
(* the cookie belongs to the whole browser, and nothing orders the         *)
(* fetches of several tabs, or of one tab whose mode changes.              *)
(***************************************************************************)
EXTENDS Naturals

CONSTANTS
  Tabs,
  MaxLoads   \* bound: token fetches of a behaviour

VARIABLES
  mode,    \* the mode of each tab's form, its op
  csrf,    \* the token in each tab's state
  cookie,  \* the cookie _csrf of the browser
  loads,   \* fetches under way: [id, tab, token, step, live]: does its form still show
  asked,   \* how many fetches were sent: the id of the latest
  post,    \* the login each tab has sent: what the guard makes of it
  lastTab, \* history: the tab of the latest fetch
  tidy     \* history: no fetch failed or overlapped another

vars == <<mode, csrf, cookie, loads, asked, post, lastTab, tidy>>

(* html is basic but for how the form is encoded.                          *)
Modes == {"basic", "csrf", "csrf_dom", "oidc"}
CsrfModes == {"csrf", "csrf_dom"}

(* Random tokens are numbered by their fetch; the md5 of the fingerprint   *)
(* is the same in all tabs; a failed fetch may leave an error in a tab.    *)
Undefined == 0
Md5 == MaxLoads + 1
LoadError == MaxLoads + 2
Tokens == 0 .. MaxLoads + 2

Loads == [id : 1 .. MaxLoads, tab : Tabs, token : Tokens,
          step : {"asked", "cookieSet"}, live : BOOLEAN]

TypeOK ==
  /\ mode \in [Tabs -> Modes]
  /\ csrf \in [Tabs -> Tokens]
  /\ cookie \in Tokens \ {LoadError}
  /\ loads \subseteq Loads
  /\ asked \in 0 .. MaxLoads
  /\ post \in [Tabs -> {"none", "valid", "invalid", "login", "refused"}]
  /\ lastTab \in Tabs
  /\ tidy \in BOOLEAN

Init ==
  /\ mode = [t \in Tabs |-> "basic"]
  /\ csrf = [t \in Tabs |-> Undefined]
  /\ cookie = Undefined
  /\ loads = {}
  /\ asked = 0
  /\ post = [t \in Tabs |-> "none"]
  /\ lastTab = CHOOSE t \in Tabs : TRUE
  /\ tidy = TRUE

-----------------------------------------------------------------------------
(* loadXsrfToken asks for a random token, loadDomXsrfToken for the md5 of  *)
(* the fingerprint it sends.                                               *)
Load(t, m) ==
  /\ asked < MaxLoads
  /\ asked' = asked + 1
  /\ loads' = loads \cup {[id |-> asked', tab |-> t, step |-> "asked", live |-> TRUE,
                           token |-> IF m = "csrf" THEN asked' ELSE Md5]}
  /\ lastTab' = t
  /\ tidy' = (tidy /\ loads = {})

(* onSelectMode, and the effect on mode.                                   *)
SelectMode(t, m) ==
  /\ m # mode[t]
  /\ mode' = [mode EXCEPT ![t] = m]
  /\ IF m \in CsrfModes
     THEN Load(t, m)
     ELSE UNCHANGED <<loads, asked, lastTab, tidy>>
  /\ UNCHANGED <<csrf, cookie, post>>

(* Mutant of SetCookie: the DOM flow answers a token and sets no cookie.   *)
SetCookieSimple(l) ==
  /\ l \in loads /\ l.step = "asked"
  /\ cookie' = IF l.token = Md5 THEN cookie ELSE l.token
  /\ loads' = (loads \ {l}) \cup {[l EXCEPT !.step = "cookieSet"]}
  /\ UNCHANGED <<mode, csrf, asked, post, lastTab, tidy>>

(* getCsrfToken or getDomCsrfToken has answered: the browser takes the     *)
(* cookie from the headers before the page sees the body.                  *)
SetCookie(l) ==
  /\ l \in loads /\ l.step = "asked"
  /\ cookie' = l.token
  /\ loads' = (loads \ {l}) \cup {[l EXCEPT !.step = "cookieSet"]}
  /\ UNCHANGED <<mode, csrf, asked, post, lastTab, tidy>>

(* setCsrf, whatever the mode is by now; it does nothing once the form it  *)
(* belongs to is gone.                                                     *)
TokenArrives(l) ==
  /\ l \in loads /\ l.step = "cookieSet"
  /\ csrf' = IF l.live THEN [csrf EXCEPT ![l.tab] = l.token] ELSE csrf
  /\ loads' = loads \ {l}
  /\ UNCHANGED <<mode, cookie, asked, post, lastTab, tidy>>

(* An error status puts makeApiRequest's error object into the state; no   *)
(* answer at all makes its error handler throw, and the state stays.       *)
LoadFails(l) ==
  /\ l \in loads /\ l.step = "asked"
  /\ \/ l.live /\ csrf' = [csrf EXCEPT ![l.tab] = LoadError]
     \/ UNCHANGED csrf
  /\ loads' = loads \ {l}
  /\ tidy' = FALSE
  /\ UNCHANGED <<mode, cookie, asked, post, lastTab>>

-----------------------------------------------------------------------------
(* sendUser with appendParams: in the CSRF modes the token goes along, and *)
(* the cookie as it is now.  A cookie that is missing decodes to a string, *)
(* a token that is missing does not: the two never match.                  *)
Submit(t) ==
  /\ post[t] \in {"none", "refused"}
  /\ post' = [post EXCEPT ![t] =
       IF mode[t] \notin CsrfModes \/ (cookie # Undefined /\ csrf[t] = cookie)
       THEN "valid" ELSE "invalid"]
  /\ UNCHANGED <<mode, csrf, cookie, loads, asked, lastTab, tidy>>

(* The page always sends a fingerprint, and with one the second check of   *)
(* the DOM flow is not made.                                               *)
CsrfGuard(t) ==
  /\ post[t] \in {"valid", "invalid"}
  /\ post' = [post EXCEPT ![t] = IF @ = "valid" THEN "login" ELSE "refused"]
  /\ UNCHANGED <<mode, csrf, cookie, loads, asked, lastTab, tidy>>

(* The handler answers, with a token or an error (module Tokens).          *)
LoginAnswered(t) ==
  /\ post[t] = "login"
  /\ post' = [post EXCEPT ![t] = "none"]
  /\ UNCHANGED <<mode, csrf, cookie, loads, asked, lastTab, tidy>>

(* The form goes.  After a login the page is loaded anew, and the tab's    *)
(* fetches are gone; the router's link to the sign-up leaves them under    *)
(* way, and their cookie may still come.                                   *)
Leave(t) ==
  /\ mode' = [mode EXCEPT ![t] = "basic"]
  /\ csrf' = [csrf EXCEPT ![t] = Undefined]
  /\ post' = [post EXCEPT ![t] = "none"]
  /\ \/ loads' = {l \in loads : l.tab # t}
     \/ loads' = {[l EXCEPT !.live = @ /\ l.tab # t] : l \in loads}
  /\ UNCHANGED <<cookie, asked, lastTab, tidy>>

Next ==
  \/ \E t \in Tabs :
       \/ \E m \in Modes : SelectMode(t, m)
       \/ Submit(t) \/ CsrfGuard(t) \/ LoginAnswered(t) \/ Leave(t)
  \/ \E l \in loads : SetCookie(l) \/ TokenArrives(l) \/ LoadFails(l)

Spec == Init /\ [][Next]_vars

-----------------------------------------------------------------------------
(***************************************************************************)
(* What the guard can count on: as long as token fetches do not overlap    *)
(* and do not fail, the tab that fetched last, and still shows its form,   *)
(* holds the browser's cookie, whichever of the two flows it used, however *)
(* often modes changed, tabs took turns and a form was left with its fetch *)
(* under way; so its login is not refused for its token.  Any other tab's  *)
(* may be: the cookie is not theirs.                                       *)
(***************************************************************************)
LastFetchMatches ==
  tidy /\ loads = {} /\ csrf[lastTab] # Undefined => csrf[lastTab] = cookie

=============================================================================
