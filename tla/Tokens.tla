------------------------------- MODULE Tokens -------------------------------
(***************************************************************************)
(* The login routes of AuthController, the tokens they issue and the       *)
(* processors that judge them.  POST login and admin/login answer with an  *)
(* RSA token that expires; each jwt/<scheme>/login answers with a token of *)
(* its scheme, and with the RSA token in the body.  The server remembers   *)
(* none of them: what a token is worth depends on the processor of the     *)
(* route it is presented to, the clock, and the hosts a processor asks.    *)
(***************************************************************************)
EXTENDS Integers

CONSTANTS
  Clients,
  TicksPerSecond, \* the clock is finer than the seconds of exp
  Lifetime,       \* seconds until an RSA token expires: 3600 in the code
  MaxTime         \* bound: ticks of a behaviour

(* A processor: the key it signs with and the one it verifies with, the    *)
(* header it puts in and needs, and whom it asks for the key.              *)
RSA      == [signs |-> "rsa", trusts |-> "rsa", header |-> "none", asks |-> "nobody"]
SQL_KID  == [signs |-> "secret", trusts |-> "secret", header |-> "kid", asks |-> "database"]
WEAK_KEY == [signs |-> "secret", trusts |-> "secret", header |-> "none", asks |-> "nobody"]
X5C      == [signs |-> "jwk", trusts |-> "jwk", header |-> "x5c", asks |-> "nobody"]
X5U      == [signs |-> "jwk", trusts |-> "jwk", header |-> "x5u", asks |-> "x5uUrl"]
JKU      == [signs |-> "jwk", trusts |-> "jwk", header |-> "jku", asks |-> "jkuUrl"]
JWK      == [signs |-> "jwk", trusts |-> "jwk", header |-> "jwk", asks |-> "nobody"]
(* Mutant of HMAC: it verifies with the public key, as RSA does.           *)
HMACPublic == [signs |-> "rsaText", trusts |-> "rsa", header |-> "none", asks |-> "nobody"]
HMAC     == [signs |-> "rsaText", trusts |-> "rsaText", header |-> "none", asks |-> "nobody"]

(* RSA_SIGNATURE decodes without verifying.                                *)
RSA_SIGNATURE == [signs |-> "rsa", trusts |-> "any", header |-> "none", asks |-> "nobody"]

Processors == {RSA, SQL_KID, WEAK_KEY, X5C, X5U, JKU, JWK, HMAC, RSA_SIGNATURE}
Issuers == Processors \ {RSA, RSA_SIGNATURE}

VARIABLES
  now,     \* ticks
  pc,      \* where each client's request is
  route,   \* the processor of the route it came to
  tokens,  \* the tokens each client holds: [key, header, exp, issued]
  shown,   \* the token it presents
  verdict  \* the latest judgement: [token, route, at, asked, accepted]

vars == <<now, pc, route, tokens, shown, verdict>>

Never == -1
Times == 0 .. MaxTime
NoToken == [key |-> "none", header |-> "none", exp |-> Never, issued |-> 0]
Keycloak == [NoToken EXCEPT !.key = "keycloak"]
NoVerdict == [token |-> NoToken, route |-> RSA, at |-> 0, asked |-> TRUE, accepted |-> FALSE]

TokenSet == [key : {"none", "keycloak"} \cup {p.signs : p \in Processors},
             header : {p.header : p \in Processors},
             exp : {Never} \cup 0 .. MaxTime + Lifetime, issued : Times]

TypeOK ==
  /\ now \in Times
  /\ pc \in [Clients -> {"idle", "oidc", "lookup", "password", "method", "sign",
                         "ask", "judge", "bearer"}]
  /\ route \in [Clients -> Processors]
  /\ tokens \in [Clients -> SUBSET TokenSet] /\ shown \in [Clients -> TokenSet]
  /\ verdict \in [Clients -> [token : TokenSet, route : Processors, at : Times,
                              asked : BOOLEAN, accepted : BOOLEAN]]

Init ==
  /\ now = 0
  /\ pc = [c \in Clients |-> "idle"]
  /\ route = [c \in Clients |-> RSA]
  /\ tokens = [c \in Clients |-> {}]
  /\ shown = [c \in Clients |-> NoToken]
  /\ verdict = [c \in Clients |-> NoVerdict]

Goto(c, place) == pc' = [pc EXCEPT ![c] = place]

-----------------------------------------------------------------------------
(* Only the latest judgement is kept.                                      *)
Forget(c) ==
  /\ shown' = [shown EXCEPT ![c] = NoToken]
  /\ verdict' = [verdict EXCEPT ![c] = NoVerdict]

(* A login starts with no token held, so that the latest are all there is. *)
LogIn(c, p, place) ==
  /\ pc[c] = "idle"
  /\ Goto(c, place)
  /\ route' = [route EXCEPT ![c] = p]
  /\ tokens' = [tokens EXCEPT ![c] = {}]
  /\ Forget(c)
  /\ UNCHANGED now

(* loginOidc: Keycloak's token, or its refusal, or any other error.        *)
LoginOidc(c) ==
  /\ pc[c] = "oidc"
  /\ Goto(c, "idle")
  /\ tokens' \in {tokens, [tokens EXCEPT ![c] = {Keycloak}]}
  /\ UNCHANGED <<now, route, shown, verdict>>

(* loginBasic: no such e-mail or no database, a wrong password, a user of  *)
(* Keycloak's: an error at each await, and no token.                       *)
LoginBasicFails(c) ==
  /\ pc[c] \in {"lookup", "password", "method"}
  /\ Goto(c, "idle")
  /\ UNCHANGED <<now, route, tokens, shown, verdict>>

LoginBasicGoesOn(c) ==
  /\ pc[c] \in {"lookup", "password"}
  /\ Goto(c, IF pc[c] = "lookup" THEN "password" ELSE "method")
  /\ UNCHANGED <<now, route, tokens, shown, verdict>>

Seconds(time) == time \div TicksPerSecond
Token(p, exp) == [key |-> p.signs, header |-> p.header, exp |-> exp,
                  issued |-> IF exp = Never THEN 0 ELSE now]

(* Mutant of Expiry: milliseconds, as the clock has them.                  *)
ExpiryMillis(time) == 1000 * (Lifetime + Seconds(time))

(* Mutant of Expiry: the seconds are rounded up.                           *)
ExpiryUp(time) == Lifetime + Seconds(time) + 1

Expiry(time) == Lifetime + Seconds(time)

(* The RSA token; a jwt route goes on to sign its own.                     *)
IssueRsa(c) ==
  /\ pc[c] = "method"
  /\ tokens' = [tokens EXCEPT ![c] = {Token(RSA, Expiry(now))}]
  /\ Goto(c, IF route[c] = RSA THEN "idle" ELSE "sign")
  /\ UNCHANGED <<now, route, shown, verdict>>

(* createToken of the scheme: the payload is the e-mail, with no exp.      *)
IssueScheme(c) ==
  /\ pc[c] = "sign"
  /\ tokens' = [tokens EXCEPT ![c] = @ \cup {Token(route[c], Never)}]
  /\ Goto(c, "idle")
  /\ UNCHANGED <<now, route, shown, verdict>>

-----------------------------------------------------------------------------
(* A guarded route gets one of the client's tokens, or one that it does    *)
(* not hold and no processor trusts.                                       *)
Present(c, p) ==
  /\ pc[c] = "idle"
  /\ \E tok \in tokens[c] \cup {NoToken} : shown' = [shown EXCEPT ![c] = tok]
  /\ route' = [route EXCEPT ![c] = p]
  /\ Goto(c, IF p.asks = "nobody" THEN "judge" ELSE "ask")
  /\ verdict' = [verdict EXCEPT ![c] = NoVerdict]
  /\ UNCHANGED <<now, tokens>>

Judged(c, asked, accepted) ==
  verdict' = [verdict EXCEPT ![c] = [token |-> shown[c], route |-> route[c], at |-> now,
                                     asked |-> asked, accepted |-> accepted]]

(* The database or the host of the key answers, or it does not; a token    *)
(* without the header has nobody to be asked.                              *)
Asked(c) ==
  /\ pc[c] = "ask"
  /\ Goto(c, "judge")
  /\ UNCHANGED <<now, route, tokens, shown, verdict>>

AskFails(c) ==
  /\ pc[c] = "ask"
  /\ Goto(c, "bearer")
  /\ Judged(c, FALSE, FALSE)
  /\ UNCHANGED <<now, route, tokens, shown>>

(* decode and jwtVerify: the key, and exp where the payload has one.       *)
Expired(tok) == tok.exp # Never /\ now > tok.exp * TicksPerSecond

Accepts(p, tok) ==
  \/ p.trusts = "any"
  \/ /\ tok.key = p.trusts
     /\ p.header = "none" \/ tok.header = p.header
     /\ ~Expired(tok)

Judge(c) ==
  /\ pc[c] = "judge"
  /\ Judged(c, TRUE, Accepts(route[c], shown[c]))
  /\ Goto(c, IF Accepts(route[c], shown[c]) THEN "idle" ELSE "bearer")
  /\ UNCHANGED <<now, route, tokens, shown>>

(* The second try, of the bearer processor (module AuthGuard): none of     *)
(* these tokens but Keycloak's can pass it.                                *)
Bearer(c) ==
  /\ pc[c] = "bearer"
  /\ \E accepted \in {FALSE, shown[c] = Keycloak} :
       verdict' = [verdict EXCEPT ![c].accepted = accepted]
  /\ Goto(c, "idle")
  /\ UNCHANGED <<now, route, tokens, shown>>

-----------------------------------------------------------------------------
Login(c) == LogIn(c, RSA, "lookup") \/ LogIn(c, RSA, "oidc")
AdminLogin(c) == LogIn(c, RSA, "lookup") \/ LogIn(c, RSA, "oidc")
Routes(c, p) == LogIn(c, p, "lookup") \/ Present(c, p)

JwtKidSql(c) == Routes(c, SQL_KID)
JwtWeakKey(c) == Routes(c, WEAK_KEY)
JwtJku(c) == Routes(c, JKU)
JwtJwk(c) == Routes(c, JWK)
JwtX5c(c) == Routes(c, X5C)
JwtX5u(c) == Routes(c, X5U)
JwtHmac(c) == Routes(c, HMAC)
RsaSignatureValidate(c) == Present(c, RSA_SIGNATURE)
GuardedRoute(c) == Present(c, RSA)

LoginBasic(c) == LoginBasicFails(c) \/ LoginBasicGoesOn(c) \/ IssueRsa(c)
ValidateToken(c) == Asked(c) \/ AskFails(c) \/ Judge(c) \/ Bearer(c)

Tick ==
  /\ now < MaxTime
  /\ now' = now + 1
  /\ UNCHANGED <<pc, route, tokens, shown, verdict>>

Next ==
  \/ Tick
  \/ \E c \in Clients :
       \/ Login(c) \/ AdminLogin(c)
       \/ JwtKidSql(c) \/ JwtWeakKey(c) \/ JwtJku(c) \/ JwtJwk(c)
       \/ JwtX5c(c) \/ JwtX5u(c) \/ JwtHmac(c)
       \/ RsaSignatureValidate(c) \/ GuardedRoute(c)
       \/ LoginOidc(c) \/ LoginBasic(c) \/ IssueScheme(c) \/ ValidateToken(c)

Spec == Init /\ [][Next]_vars

-----------------------------------------------------------------------------
(***************************************************************************)
(* "Auth token expires in 1 hour": whenever it was issued and presented    *)
(* within a second, the processor of the guarded routes takes the RSA      *)
(* token of a login at least until one second short of its lifetime, and   *)
(* never beyond it: exp is rounded down and compared without rounding.     *)
(***************************************************************************)
AcceptedForAnHour ==
  \A c \in Clients :
    LET v == verdict[c]
        age == v.at - v.token.issued
    IN v.route = RSA /\ v.token.key = "rsa" =>
         /\ v.accepted => age <= Lifetime * TicksPerSecond
         /\ age <= (Lifetime - 1) * TicksPerSecond => v.accepted

(***************************************************************************)
(* The two halves of each scheme agree: what its login issues, its         *)
(* validation route accepts, if whoever holds the key answers; a token     *)
(* another scheme issued is accepted only where the two share their key    *)
(* and the validating one needs no header, or where no key is checked.     *)
(***************************************************************************)
SchemesAcceptTheirOwn ==
  \A c \in Clients :
    LET v == verdict[c]
        own == {p \in Issuers : p.signs = v.token.key /\ p.header = v.token.header}
    IN v.asked =>
         /\ v.route \in own => v.accepted
         /\ own # {} /\ v.accepted =>
              v.route \in own \cup {RSA_SIGNATURE, WEAK_KEY}

=============================================================================
