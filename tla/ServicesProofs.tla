--------------------------- MODULE ServicesProofs ---------------------------
(***************************************************************************)
(* The services of the server beside Profile, for any number of requests,  *)
(* clients, workers and files: their types, and what each is to keep.      *)
(***************************************************************************)
EXTENDS MCServices, ProfileProofs, Sequences, FiniteSetTheorems

(***************************************************************************)
(* The tokens of the routes.  An RSA token expires its lifetime after it   *)
(* was issued, in whole seconds, and no other expires.  What a client has  *)
(* been told of a token is what its route made of it at the time: while    *)
(* the second try is to come, a refusal.                                   *)
(***************************************************************************)
TokensParameters ==
  TicksPerSecond \in Nat \ {0} /\ Lifetime \in Nat \ {0} /\ MaxTime \in Nat

Dated(tok) ==
  IF tok.key = "rsa"
  THEN tok.issued <= now /\ tok.exp = Auth!Expiry(tok.issued)
  ELSE tok.exp = Auth!Never

KnownTo(c) == tokens[c] \cup {shown[c], verdict[c].token}

PlaceInv(c) ==
  /\ pc[c] = "ask" => route[c] # Auth!RSA
  /\ pc[c] = "bearer" => verdict[c].token = shown[c] /\ ~verdict[c].accepted

(* Both properties of a judgement.                                         *)
Owners(tok) == {p \in Auth!Issuers : p.signs = tok.key /\ p.header = tok.header}

HourKept(v) ==
  v.route = Auth!RSA /\ v.token.key = "rsa" =>
    /\ v.accepted => v.at - v.token.issued <= Lifetime * TicksPerSecond
    /\ v.at - v.token.issued <= (Lifetime - 1) * TicksPerSecond => v.accepted

OwnKept(v) ==
  v.asked =>
    /\ v.route \in Owners(v.token) => v.accepted
    /\ Owners(v.token) # {} /\ v.accepted =>
         v.route \in Owners(v.token) \cup {Auth!RSA_SIGNATURE, Auth!WEAK_KEY}

Signs(c) ==
  /\ pc[c] \in {"lookup", "password", "method"} => route[c] # Auth!RSA_SIGNATURE
  /\ pc[c] = "sign" => route[c] \in Auth!Issuers

TokensTypes == Auth!TypeOK /\ \A c \in Clients : Signs(c)

AllDated == \A c \in Clients : \A tok \in KnownTo(c) : Dated(tok)
AllKept == \A c \in Clients : PlaceInv(c) /\ HourKept(verdict[c]) /\ OwnKept(verdict[c])

TokensInv == TokensTypes /\ AllDated /\ AllKept

LEMMA WholeSeconds ==
  ASSUME TokensParameters, NEW time \in Nat
  PROVE  /\ Auth!Seconds(time) \in Nat
         /\ Auth!Seconds(time) <= time
         /\ TicksPerSecond * Auth!Seconds(time) <= time
         /\ time < TicksPerSecond * Auth!Seconds(time) + TicksPerSecond
BY DEF TokensParameters, Auth!Seconds

LEMMA ProcessorFacts ==
  /\ Auth!RSA \in Auth!Processors /\ Auth!RSA_SIGNATURE \in Auth!Processors
  /\ \A p \in Auth!Processors : p.signs \in {"rsa", "secret", "jwk", "rsaText"}
  /\ \A p \in Auth!Issuers : p \in Auth!Processors /\ p # Auth!RSA /\ p # Auth!RSA_SIGNATURE
                        /\ p.signs # "rsa" /\ p.trusts = p.signs
  /\ \A p \in Auth!Processors : p.trusts = "any" => p = Auth!RSA_SIGNATURE
  /\ \A p \in Auth!Processors : p.trusts = "rsa" => p = Auth!RSA
  /\ \A p \in Auth!Processors : p \in Auth!Issuers \/ p = Auth!RSA \/ p = Auth!RSA_SIGNATURE
  /\ \A p, q \in Auth!Issuers : p.signs = q.signs /\ p.header = "none" =>
       p = Auth!WEAK_KEY \/ q.header = "none"
  /\ Auth!RSA.trusts = "rsa" /\ Auth!RSA.header = "none" /\ Auth!RSA.signs = "rsa"
  /\ Auth!RSA.asks = "nobody"
  /\ Auth!RSA_SIGNATURE.trusts = "any"
BY DEF Auth!Processors, Auth!Issuers, Auth!RSA, Auth!SQL_KID, Auth!WEAK_KEY, Auth!X5C,
   Auth!X5U, Auth!JKU, Auth!JWK, Auth!HMAC, Auth!RSA_SIGNATURE

LEMMA TokenTypes ==
  ASSUME TokensParameters
  PROVE  /\ Auth!NoToken \in Auth!TokenSet /\ Auth!Keycloak \in Auth!TokenSet
         /\ \A p \in Auth!Processors, exp \in {Auth!Never} \cup 0 .. MaxTime + Lifetime,
              issued \in Auth!Times :
              [key |-> p.signs, header |-> p.header, exp |-> exp, issued |-> issued]
                \in Auth!TokenSet
<1>1. Auth!RSA \in Auth!Processors /\ "none" \in {p.header : p \in Auth!Processors}
        /\ 0 \in Auth!Times
  BY ProcessorFacts DEF TokensParameters, Auth!Times
<1> QED BY <1>1 DEF Auth!NoToken, Auth!Keycloak, Auth!TokenSet, Auth!Never

LEMMA InitTokens == ASSUME TokensParameters, Auth!Init PROVE TokensInv
<1>1. Auth!NoToken \in Auth!TokenSet /\ Auth!RSA \in Auth!Processors /\ 0 \in Auth!Times
  BY TokenTypes, ProcessorFacts DEF Auth!Times, TokensParameters
<1>2. Auth!NoVerdict
        \in [token : Auth!TokenSet, route : Auth!Processors, at : Auth!Times,
          asked : BOOLEAN, accepted : BOOLEAN]
  BY <1>1 DEF Auth!NoVerdict
<1>3. TokensTypes
  BY <1>1, <1>2 DEF Auth!Init, Auth!TypeOK, TokensTypes, Signs
<1>4. Auth!NoToken.key = "none" /\ Auth!NoToken.exp = Auth!Never
  BY DEF Auth!NoToken
<1>5. Auth!NoVerdict.token = Auth!NoToken /\ ~Auth!NoVerdict.accepted
        /\ Auth!NoVerdict.route = Auth!RSA
  BY DEF Auth!NoVerdict
<1>6. \A c \in Clients : \A tok \in KnownTo(c) : Dated(tok)
  BY <1>4, <1>5 DEF Auth!Init, KnownTo, Dated
<1>7. HourKept(Auth!NoVerdict) /\ OwnKept(Auth!NoVerdict)
  BY <1>4, <1>5, ProcessorFacts DEF HourKept, OwnKept, Owners
<1> QED BY <1>3, <1>6, <1>7 DEF Auth!Init, TokensInv, AllDated, AllKept, PlaceInv

(* The steps, by what they do to the variables.                            *)
Moves(c) == Auth!LoginBasicFails(c) \/ Auth!LoginBasicGoesOn(c) \/ Auth!Asked(c)
LogsIn(c) == \E p \in Auth!Processors \ {Auth!RSA_SIGNATURE},
  spot \in {"lookup", "oidc"} : Auth!LogIn(c, p, spot)
Presents(c) == \E p \in Auth!Processors : Auth!Present(c, p)
Issues(c) == Auth!LoginOidc(c) \/ Auth!IssueRsa(c) \/ Auth!IssueScheme(c)

LEMMA TokenSteps ==
  ASSUME [Auth!Next]_Auth!vars
  PROVE  \/ \E c \in Clients : \/ Moves(c) \/ LogsIn(c) \/ Presents(c) \/ Issues(c)
                               \/ Auth!AskFails(c) \/ Auth!Judge(c) \/ Auth!Bearer(c)
         \/ Auth!Tick
         \/ UNCHANGED Auth!vars
<1>1. {Auth!SQL_KID, Auth!WEAK_KEY, Auth!JKU, Auth!JWK, Auth!X5C, Auth!X5U, Auth!HMAC,
        Auth!RSA} \subseteq Auth!Processors \ {Auth!RSA_SIGNATURE}
  BY DEF Auth!Processors, Auth!RSA, Auth!SQL_KID, Auth!WEAK_KEY, Auth!X5C, Auth!X5U,
     Auth!JKU, Auth!JWK, Auth!HMAC, Auth!RSA_SIGNATURE
<1>2. Auth!RSA_SIGNATURE \in Auth!Processors
  BY ProcessorFacts
<1>3. ASSUME NEW c \in Clients, NEW p \in Auth!Processors \ {Auth!RSA_SIGNATURE}
      PROVE  /\ Auth!Routes(c, p) => LogsIn(c) \/ Presents(c)
             /\ Auth!Present(c, p) => Presents(c)
             /\ Auth!LogIn(c, p, "lookup") => LogsIn(c)
             /\ Auth!LogIn(c, p, "oidc") => LogsIn(c)
  BY <1>3 DEF Auth!Routes, LogsIn, Presents
<1>4. ASSUME NEW c \in Clients,
             Auth!Login(c) \/ Auth!AdminLogin(c) \/ Auth!GuardedRoute(c)
               \/ Auth!RsaSignatureValidate(c)
      PROVE  LogsIn(c) \/ Presents(c)
  <2>1. Auth!RSA \in Auth!Processors \ {Auth!RSA_SIGNATURE}
    BY <1>1
  <2>2. CASE Auth!RsaSignatureValidate(c)
    BY <2>2, <1>2 DEF Auth!RsaSignatureValidate, Presents
  <2>3. CASE Auth!Login(c) \/ Auth!AdminLogin(c)
    BY <2>3, <2>1, <1>3 DEF Auth!Login, Auth!AdminLogin
  <2>4. CASE Auth!GuardedRoute(c)
    BY <2>4, <2>1, <1>3 DEF Auth!GuardedRoute
  <2> QED BY <1>4, <2>2, <2>3, <2>4
<1>5. ASSUME NEW c \in Clients,
             Auth!JwtKidSql(c) \/ Auth!JwtWeakKey(c) \/ Auth!JwtJku(c) \/ Auth!JwtJwk(c)
                                \/ Auth!JwtX5c(c) \/ Auth!JwtX5u(c) \/ Auth!JwtHmac(c)
      PROVE  LogsIn(c) \/ Presents(c)
  BY <1>1, <1>3, <1>5 DEF Auth!JwtKidSql, Auth!JwtWeakKey, Auth!JwtJku, Auth!JwtJwk,
     Auth!JwtX5c, Auth!JwtX5u, Auth!JwtHmac
<1>6. ASSUME NEW c \in Clients,
             Auth!LoginOidc(c) \/ Auth!LoginBasic(c) \/ Auth!IssueScheme(c)
               \/ Auth!ValidateToken(c)
      PROVE  Moves(c) \/ Issues(c) \/ Auth!AskFails(c) \/ Auth!Judge(c) \/ Auth!Bearer(c)
  BY <1>6 DEF Auth!LoginBasic, Auth!ValidateToken, Moves, Issues
<1> QED BY <1>4, <1>5, <1>6 DEF Auth!Next

(* What the steps of a client do to the tokens it knows.                   *)
LEMMA TokensIssued ==
  ASSUME TokensParameters, TokensTypes, NEW c \in Clients, Issues(c)
  PROVE  /\ UNCHANGED <<now, route, shown, verdict>>
         /\ \E spot \in {"idle", "sign"} :
              /\ pc' = [pc EXCEPT ![c] = spot]
              /\ spot = "sign" => route[c] \in Auth!Issuers
         /\ \E held \in SUBSET Auth!TokenSet :
              /\ tokens' = [tokens EXCEPT ![c] = held]
              /\ \A tok \in held \ tokens[c] : Dated(tok)
<1>1. route[c] \in Auth!Processors /\ now \in Auth!Times /\ now \in Nat
        /\ tokens[c] \subseteq Auth!TokenSet
  BY DEF TokensTypes, Auth!TypeOK, Auth!Times
<1>2. Auth!Never \in {Auth!Never} \cup 0 .. MaxTime + Lifetime /\ 0 \in Auth!Times
        /\ ~(0 = Auth!Never)
  BY DEF Auth!Times, Auth!Never, TokensParameters
<1>3. CASE Auth!LoginOidc(c)
  <2>1. tokens' = [tokens EXCEPT ![c] = tokens[c]]
          \/ tokens' = [tokens EXCEPT ![c] = {Auth!Keycloak}]
    BY <1>3 DEF Auth!LoginOidc, TokensTypes, Auth!TypeOK
  <2>2. Auth!Keycloak \in Auth!TokenSet
    BY TokenTypes
  <2>3. Auth!Keycloak.key = "keycloak" /\ Auth!Keycloak.exp = Auth!Never
    BY DEF Auth!Keycloak, Auth!NoToken
  <2>4. Dated(Auth!Keycloak)
    BY <2>3 DEF Dated
  <2>5. tokens[c] \in SUBSET Auth!TokenSet /\ {Auth!Keycloak} \in SUBSET Auth!TokenSet
    BY <1>1, <2>2
  <2> QED BY <1>3, <2>1, <2>4, <2>5 DEF Auth!LoginOidc, Auth!Goto
<1>4. CASE Auth!IssueRsa(c)
  <2> DEFINE new == Auth!Token(Auth!RSA, Auth!Expiry(now))
  <2>1. Auth!Expiry(now) \in 0 .. MaxTime + Lifetime /\ Auth!Expiry(now) # Auth!Never
    <3>1. Auth!Seconds(now) \in Nat /\ Auth!Seconds(now) <= now
      BY <1>1, WholeSeconds
    <3> QED BY <1>1, <3>1 DEF Auth!Expiry, TokensParameters, Auth!Times, Auth!Never
  <2>2. new = [key |-> Auth!RSA.signs, header |-> Auth!RSA.header,
          exp |-> Auth!Expiry(now), issued |-> now]
    BY <2>1 DEF Auth!Token
  <2>3. new \in Auth!TokenSet
    BY <2>1, <2>2, <1>1, TokenTypes, ProcessorFacts
  <2>4. new.key = "rsa" /\ new.issued = now /\ new.exp = Auth!Expiry(now)
    BY <2>2, ProcessorFacts
  <2>5. Dated(new)
    BY <2>4, <1>1 DEF Dated
  <2>6. pc[c] = "method" /\ (route[c] # Auth!RSA => route[c] \in Auth!Issuers)
    BY <1>1, <1>4, ProcessorFacts DEF Auth!IssueRsa, TokensTypes, Signs
  <2>7. {new} \in SUBSET Auth!TokenSet
    BY <2>3
  <2>8. tokens' = [tokens EXCEPT ![c] = {new}]
    BY <1>4 DEF Auth!IssueRsa
  <2> HIDE DEF new
  <2> QED BY <1>4, <2>5, <2>6, <2>7, <2>8 DEF Auth!IssueRsa, Auth!Goto
<1>5. CASE Auth!IssueScheme(c)
  <2> DEFINE new == Auth!Token(route[c], Auth!Never)
  <2>1. new = [key |-> route[c].signs, header |-> route[c].header, exp |-> Auth!Never,
          issued |-> 0]
    BY DEF Auth!Token
  <2>2. new \in Auth!TokenSet
    BY <2>1, <1>1, <1>2, TokenTypes
  <2>3. route[c] \in Auth!Issuers
    BY <1>5 DEF Auth!IssueScheme, TokensTypes, Signs
  <2>4. new.key # "rsa" /\ new.exp = Auth!Never
    BY <2>1, <2>3, ProcessorFacts
  <2>5. Dated(new)
    BY <2>4 DEF Dated
  <2>6. tokens' = [tokens EXCEPT ![c] = tokens[c] \cup {new}]
    BY <1>5 DEF Auth!IssueScheme
  <2>7. tokens[c] \cup {new} \in SUBSET Auth!TokenSet
    BY <2>2, <1>1
  <2> HIDE DEF new
  <2> QED BY <1>5, <2>5, <2>6, <2>7 DEF Auth!IssueScheme, Auth!Goto
<1> QED BY <1>3, <1>4, <1>5 DEF Issues

Judgement == [token : Auth!TokenSet, route : Auth!Processors, at : Auth!Times,
  asked : BOOLEAN, accepted : BOOLEAN]

LEMMA JudgementType ==
  ASSUME TokensTypes, NEW c \in Clients, NEW asked \in BOOLEAN, NEW passed \in BOOLEAN
  PROVE  [token |-> shown[c], route |-> route[c], at |-> now,
          asked |-> asked, accepted |-> passed] \in Judgement
BY DEF TokensTypes, Auth!TypeOK, Judgement

LEMMA AcceptsBoolean ==
  ASSUME NEW p, NEW tok
  PROVE  Auth!Accepts(p, tok) \in BOOLEAN
BY DEF Auth!Accepts, Auth!Expired

LEMMA NextTokenTypes ==
  ASSUME TokensParameters, TokensTypes, [Auth!Next]_Auth!vars
  PROVE  TokensTypes'
<1>1. Auth!NoToken \in Auth!TokenSet /\ Auth!NoVerdict \in Judgement
  <2>1. Auth!NoToken \in Auth!TokenSet /\ Auth!RSA \in Auth!Processors /\ 0 \in Auth!Times
    BY TokenTypes, ProcessorFacts DEF Auth!Times, TokensParameters
  <2> QED BY <2>1 DEF Auth!NoVerdict, Judgement
<1>2. ASSUME NEW c \in Clients, Moves(c) PROVE TokensTypes'
  BY <1>2 DEF Moves, Auth!LoginBasicFails, Auth!LoginBasicGoesOn, Auth!Asked, Auth!Goto,
     TokensTypes, Auth!TypeOK, Signs
<1>3. ASSUME NEW c \in Clients, LogsIn(c) PROVE TokensTypes'
  BY <1>1, <1>3
         DEF LogsIn, Auth!LogIn, Auth!Forget, Auth!Goto, TokensTypes, Auth!TypeOK, Signs,
         Judgement
<1>4. ASSUME NEW c \in Clients, Presents(c) PROVE TokensTypes'
  <2>1. PICK p \in Auth!Processors : Auth!Present(c, p)
    BY <1>4 DEF Presents
  <2>2. PICK tok \in tokens[c] \cup {Auth!NoToken} : shown' = [shown EXCEPT ![c] = tok]
    BY <2>1 DEF Auth!Present
  <2>3. tok \in Auth!TokenSet
    BY <1>1, <2>2 DEF TokensTypes, Auth!TypeOK
  <2>4. (IF p.asks = "nobody" THEN "judge" ELSE "ask") \in {"judge", "ask"}
    OBVIOUS
  <2> QED BY <1>1, <2>1, <2>2, <2>3, <2>4
             DEF Auth!Present, Auth!Goto, TokensTypes, Auth!TypeOK, Signs, Judgement
<1>5. ASSUME NEW c \in Clients, Issues(c) PROVE TokensTypes'
  <2>1. PICK held \in SUBSET Auth!TokenSet : tokens' = [tokens EXCEPT ![c] = held]
    BY <1>5, TokensIssued
  <2>2. tokens' \in [Clients -> SUBSET Auth!TokenSet]
    BY <2>1 DEF TokensTypes, Auth!TypeOK
  <2>3. PICK spot \in {"idle", "sign"} : /\ pc' = [pc EXCEPT ![c] = spot]
                                         /\ spot = "sign" => route[c] \in Auth!Issuers
    BY <1>5, TokensIssued
  <2>4. UNCHANGED <<now, route, shown, verdict>>
    BY <1>5, TokensIssued
  <2> QED BY <2>2, <2>3, <2>4 DEF TokensTypes, Auth!TypeOK, Signs
<1>6. ASSUME NEW c \in Clients, Auth!AskFails(c) PROVE TokensTypes'
  BY <1>6, JudgementType
     DEF Auth!AskFails, Auth!Judged, Auth!Goto, TokensTypes, Auth!TypeOK, Signs, Judgement
<1>7. ASSUME NEW c \in Clients, Auth!Judge(c) PROVE TokensTypes'
  <2> DEFINE passed == Auth!Accepts(route[c], shown[c])
  <2>1. passed \in BOOLEAN
    BY AcceptsBoolean
  <2>2. [token |-> shown[c], route |-> route[c], at |-> now,
         asked |-> TRUE, accepted |-> passed] \in Judgement
    BY <2>1, JudgementType
  <2>3. /\ UNCHANGED <<now, route, tokens, shown>>
        /\ pc' = [pc EXCEPT ![c] = IF passed THEN "idle" ELSE "bearer"]
        /\ verdict' = [verdict EXCEPT ![c] =
             [token |-> shown[c], route |-> route[c], at |-> now,
              asked |-> TRUE, accepted |-> passed]]
    BY <1>7 DEF Auth!Judge, Auth!Judged, Auth!Goto
  <2> HIDE DEF passed
  <2> QED BY <2>2, <2>3 DEF TokensTypes, Auth!TypeOK, Signs, Judgement
<1>8. ASSUME NEW c \in Clients, Auth!Bearer(c) PROVE TokensTypes'
  <2>1. PICK passed \in BOOLEAN : verdict' = [verdict EXCEPT ![c].accepted = passed]
    BY <1>8 DEF Auth!Bearer
  <2>2. verdict[c] \in Judgement
    BY DEF TokensTypes, Auth!TypeOK, Judgement
  <2>3. [verdict[c] EXCEPT !.accepted = passed] \in Judgement
    BY <2>2 DEF Judgement
  <2>4. verdict' = [verdict EXCEPT ![c] = [verdict[c] EXCEPT !.accepted = passed]]
    BY <2>1
  <2>5. verdict' \in [Clients -> Judgement]
    BY <2>3, <2>4 DEF TokensTypes, Auth!TypeOK, Judgement
  <2> QED BY <1>8, <2>5
             DEF Auth!Bearer, Auth!Goto, TokensTypes, Auth!TypeOK, Signs, Judgement
<1>9. CASE Auth!Tick
  BY <1>9 DEF Auth!Tick, TokensTypes, Auth!TypeOK, Signs, Auth!Times, TokensParameters
<1>10. CASE UNCHANGED Auth!vars
  BY <1>10 DEF Auth!vars, TokensTypes, Auth!TypeOK, Signs
<1> QED BY <1>2, <1>3, <1>4, <1>5, <1>6, <1>7, <1>8, <1>9, <1>10, TokenSteps

-----------------------------------------------------------------------------
(* A token accepted by the key: until its lifetime is over, by RSA; and by *)
(* another scheme only if it shares the key and needs no other header.     *)
LEMMA JudgedWell ==
  ASSUME TokensParameters, NEW p \in Auth!Processors, NEW tok \in Auth!TokenSet,
         Dated(tok), now \in Auth!Times,
         NEW v, v.token = tok, v.route = p, v.at = now, v.accepted = Auth!Accepts(p, tok)
  PROVE  HourKept(v) /\ OwnKept(v)
<1>1. HourKept(v)
  <2> SUFFICES ASSUME p = Auth!RSA, tok.key = "rsa"
               PROVE  /\ v.accepted => now - tok.issued <= Lifetime * TicksPerSecond
                      /\ now - tok.issued <= (Lifetime - 1) * TicksPerSecond => v.accepted
    BY DEF HourKept
  <2> DEFINE s == Auth!Seconds(tok.issued)
  <2>1. tok.issued \in Nat /\ now \in Nat /\ tok.issued <= now /\ tok.exp = Lifetime + s
    BY DEF Auth!TokenSet, Auth!Times, Dated, Auth!Expiry
  <2>2. /\ s \in Nat /\ TicksPerSecond * s <= tok.issued
        /\ tok.issued < TicksPerSecond * s + TicksPerSecond
    BY <2>1, WholeSeconds
  <2> HIDE DEF s
  <2>3. tok.exp # Auth!Never
    BY <2>1, <2>2 DEF Auth!Never, TokensParameters
  <2>4. v.accepted <=> ~(now > (Lifetime + s) * TicksPerSecond)
    BY <2>1, <2>3, ProcessorFacts DEF Auth!Accepts, Auth!Expired
  <2>5. (Lifetime + s) * TicksPerSecond = Lifetime * TicksPerSecond + TicksPerSecond * s
        /\ (Lifetime - 1) * TicksPerSecond = Lifetime * TicksPerSecond - TicksPerSecond
    BY <2>2 DEF TokensParameters
  <2> DEFINE whole == Lifetime * TicksPerSecond
             past == TicksPerSecond * s
  <2>6. whole \in Int /\ past \in Int /\ TicksPerSecond \in Int
    BY <2>2 DEF TokensParameters
  <2> HIDE DEF whole, past
  <2>7. (now > whole + past) \/ now - tok.issued <= whole
    BY <2>1, <2>2, <2>6 DEF past
  <2>8. ~(now > whole + past) \/ ~(now - tok.issued <= whole - TicksPerSecond)
    BY <2>1, <2>2, <2>6 DEF past
  <2> QED BY <2>4, <2>5, <2>7, <2>8 DEF whole, past
<1>2. OwnKept(v)
  <2>1. ASSUME p \in Owners(tok) PROVE v.accepted
    <3>1. p \in Auth!Issuers /\ p.signs = tok.key /\ p.header = tok.header
            /\ p.trusts = p.signs /\ p.signs # "rsa"
      BY <2>1, ProcessorFacts DEF Owners
    <3>2. ~Auth!Expired(tok)
      BY <3>1 DEF Dated, Auth!Expired
    <3> QED BY <3>1, <3>2 DEF Auth!Accepts
  <2>2. ASSUME NEW q \in Owners(tok), v.accepted
        PROVE  p \in Owners(tok) \cup {Auth!RSA_SIGNATURE, Auth!WEAK_KEY}
    <3>1. q \in Auth!Issuers /\ q.signs = tok.key /\ q.header = tok.header
            /\ q.signs # "rsa"
      BY ProcessorFacts DEF Owners
    <3>2. p = Auth!RSA_SIGNATURE
            \/ (tok.key = p.trusts /\ (p.header = "none" \/ tok.header = p.header))
      BY <2>2, ProcessorFacts DEF Auth!Accepts
    <3>3. p = Auth!RSA_SIGNATURE \/ p \in Auth!Issuers
      BY <3>1, <3>2, ProcessorFacts
    <3>4. p \in Auth!Issuers => p.trusts = p.signs
      BY ProcessorFacts
    <3>5. CASE p \in Auth!Issuers /\ tok.key = p.signs /\ tok.header = p.header
      BY <3>5 DEF Owners
    <3>6. CASE p \in Auth!Issuers /\ tok.key = p.signs /\ p.header = "none"
            /\ tok.header # "none"
      BY <3>1, <3>6, ProcessorFacts
    <3> QED BY <3>2, <3>3, <3>4, <3>5, <3>6
  <2> QED BY <2>1, <2>2 DEF OwnKept
<1> QED BY <1>1, <1>2

LEMMA StaysDated ==
  ASSUME NEW tok \in Auth!TokenSet, Dated(tok), now \in Nat, now' \in Nat, now <= now'
  PROVE  Dated(tok)'
BY DEF Dated, Auth!Expiry, Auth!Seconds, Auth!TokenSet, Auth!Times

LEMMA NextTokens ==
  ASSUME TokensParameters, TokensInv, [Auth!Next]_Auth!vars
  PROVE  TokensInv'
<1>1. TokensTypes /\ TokensTypes' /\ AllDated /\ AllKept
  BY NextTokenTypes DEF TokensInv
<1>2. /\ now \in Nat /\ now \in Auth!Times /\ DOMAIN pc = Clients
      /\ route \in [Clients -> Auth!Processors]
      /\ tokens \in [Clients -> SUBSET Auth!TokenSet]
      /\ shown \in [Clients -> Auth!TokenSet]
      /\ verdict \in [Clients -> Judgement]
  BY <1>1 DEF TokensTypes, Auth!TypeOK, Judgement, Auth!Times
<1>3. \A c \in Clients : KnownTo(c) \subseteq Auth!TokenSet
  BY <1>2 DEF KnownTo, Judgement
<1>4. Auth!NoToken.key = "none" /\ Auth!NoToken.exp = Auth!Never
        /\ Auth!NoVerdict.token = Auth!NoToken
      /\ ~Auth!NoVerdict.accepted /\ Auth!NoVerdict.route = Auth!RSA
  BY DEF Auth!NoToken, Auth!NoVerdict
<1>5. HourKept(Auth!NoVerdict) /\ OwnKept(Auth!NoVerdict) /\ Dated(Auth!NoToken)
  BY <1>4, ProcessorFacts DEF HourKept, OwnKept, Owners, Dated
<1>6. ASSUME now' = now,
             \A c \in Clients : \A tok \in KnownTo(c)' : tok \in KnownTo(c) \/ Dated(tok)
      PROVE  AllDated'
  BY <1>1, <1>6 DEF AllDated, Dated
<1>7. ASSUME NEW c \in Clients, Moves(c) \/ Issues(c) PROVE AllDated' /\ AllKept'
  <2>1. /\ UNCHANGED <<now, route, shown, verdict>>
        /\ \A d \in Clients : pc'[d] = pc[d] \/ pc'[d] \notin {"ask", "bearer"}
        /\ \A d \in Clients : \A tok \in tokens'[d] : tok \in tokens[d] \/ Dated(tok)
    <3>1. CASE Moves(c)
      BY <1>2, <3>1
         DEF Moves, Auth!LoginBasicFails, Auth!LoginBasicGoesOn, Auth!Asked, Auth!Goto
    <3>2. CASE Issues(c)
      BY <1>1, <1>2, <3>2, TokensIssued
    <3> QED BY <1>7, <3>1, <3>2
  <2>2. AllDated'
    BY <1>6, <2>1 DEF AllDated, KnownTo
  <2> QED BY <1>1, <2>1, <2>2 DEF AllKept, PlaceInv
<1>8. ASSUME NEW c \in Clients, LogsIn(c) PROVE AllDated' /\ AllKept'
  <2>1. PICK spot \in {"lookup", "oidc"}, p \in Auth!Processors : Auth!LogIn(c, p, spot)
    BY <1>8 DEF LogsIn
  <2>2. /\ tokens' = [tokens EXCEPT ![c] = {}]
        /\ shown' = [shown EXCEPT ![c] = Auth!NoToken]
        /\ verdict' = [verdict EXCEPT ![c] = Auth!NoVerdict]
        /\ pc' = [pc EXCEPT ![c] = spot]
        /\ route' = [route EXCEPT ![c] = p] /\ now' = now
    BY <2>1 DEF Auth!LogIn, Auth!Forget, Auth!Goto
  <2>3. \A d \in Clients : \A tok \in KnownTo(d)' : tok \in KnownTo(d) \/ tok = Auth!NoToken
    BY <1>2, <1>4, <2>2 DEF AllDated, KnownTo
  <2>4. AllDated'
    BY <1>5, <1>6, <2>2, <2>3
  <2> QED BY <1>1, <1>2, <1>5, <2>2, <2>4 DEF AllKept, PlaceInv
<1>9. ASSUME NEW c \in Clients, Presents(c) PROVE AllDated' /\ AllKept'
  <2>1. PICK p \in Auth!Processors : Auth!Present(c, p)
    BY <1>9 DEF Presents
  <2>2. PICK tok \in tokens[c] \cup {Auth!NoToken} : shown' = [shown EXCEPT ![c] = tok]
    BY <2>1 DEF Auth!Present
  <2>3. /\ now' = now /\ tokens' = tokens /\ route' = [route EXCEPT ![c] = p]
        /\ pc' = [pc EXCEPT ![c] = IF p.asks = "nobody" THEN "judge" ELSE "ask"]
        /\ verdict' = [verdict EXCEPT ![c] = Auth!NoVerdict]
    BY <2>1 DEF Auth!Present, Auth!Goto
  <2>4. \A d \in Clients : \A t \in KnownTo(d)' : t \in KnownTo(d) \/ t = Auth!NoToken
    BY <1>2, <1>4, <2>2, <2>3 DEF AllDated, KnownTo
  <2>5. AllDated'
    BY <1>5, <1>6, <2>3, <2>4
  <2>6. p = Auth!RSA => p.asks = "nobody"
    BY ProcessorFacts
  <2> QED BY <1>1, <1>2, <1>5, <2>2, <2>3, <2>5, <2>6 DEF AllKept, PlaceInv
<1>10. ASSUME NEW c \in Clients, Auth!AskFails(c) PROVE AllDated' /\ AllKept'
  <2> DEFINE v == [token |-> shown[c], route |-> route[c], at |-> now, asked |-> FALSE,
    accepted |-> FALSE]
  <2>1. /\ UNCHANGED <<now, route, tokens, shown>> /\ pc' = [pc EXCEPT ![c] = "bearer"]
        /\ verdict' = [verdict EXCEPT ![c] = v] /\ pc[c] = "ask"
    BY <1>10 DEF Auth!AskFails, Auth!Judged, Auth!Goto
  <2>2. route[c] # Auth!RSA
    BY <1>1, <2>1 DEF AllKept, PlaceInv
  <2>3. v.token = shown[c] /\ ~v.accepted /\ v.route = route[c] /\ ~v.asked
    OBVIOUS
  <2> HIDE DEF v
  <2>4. HourKept(v) /\ OwnKept(v)
    BY <2>2, <2>3 DEF HourKept, OwnKept
  <2>5. AllDated'
    BY <1>2, <1>6, <2>1, <2>3 DEF AllDated, KnownTo
  <2> QED BY <1>1, <1>2, <2>1, <2>3, <2>4, <2>5 DEF AllKept, PlaceInv
<1>11. ASSUME NEW c \in Clients, Auth!Judge(c) PROVE AllDated' /\ AllKept'
  <2> DEFINE passed == Auth!Accepts(route[c], shown[c])
             v == [token |-> shown[c], route |-> route[c], at |-> now, asked |-> TRUE,
               accepted |-> passed]
  <2>1. /\ UNCHANGED <<now, route, tokens, shown>>
        /\ pc' = [pc EXCEPT ![c] = IF passed THEN "idle" ELSE "bearer"]
        /\ verdict' = [verdict EXCEPT ![c] = v]
    BY <1>11 DEF Auth!Judge, Auth!Judged, Auth!Goto
  <2>2. v.token = shown[c] /\ v.route = route[c] /\ v.at = now
          /\ v.accepted = Auth!Accepts(route[c], shown[c])
    OBVIOUS
  <2>3. passed = v.accepted
    OBVIOUS
  <2>4. Dated(shown[c]) /\ shown[c] \in Auth!TokenSet /\ route[c] \in Auth!Processors
    BY <1>1, <1>2 DEF AllDated, KnownTo
  <2> HIDE DEF v, passed
  <2>5. HourKept(v) /\ OwnKept(v)
    BY <1>2, <2>2, <2>4, JudgedWell
  <2>6. AllDated'
    BY <1>2, <1>6, <2>1, <2>2 DEF AllDated, KnownTo
  <2>7. passed \in BOOLEAN
    BY AcceptsBoolean DEF passed
  <2>8. PlaceInv(c)'
    BY <1>2, <2>1, <2>2, <2>3 DEF AllKept, PlaceInv
  <2> QED BY <1>1, <1>2, <2>1, <2>5, <2>6, <2>8 DEF AllKept, PlaceInv
<1>12. ASSUME NEW c \in Clients, Auth!Bearer(c) PROVE AllDated' /\ AllKept'
  <2>1. PICK passed \in {FALSE, shown[c] = Auth!Keycloak} :
          verdict' = [verdict EXCEPT ![c].accepted = passed]
    BY <1>12 DEF Auth!Bearer
  <2> DEFINE v == [verdict[c] EXCEPT !.accepted = passed]
  <2>2. /\ verdict' = [verdict EXCEPT ![c] = v] /\ UNCHANGED <<now, route, tokens, shown>>
        /\ pc' = [pc EXCEPT ![c] = "idle"] /\ pc[c] = "bearer"
    BY <1>12, <2>1 DEF Auth!Bearer, Auth!Goto
  <2>3. verdict[c] \in Judgement /\ verdict[c].token = shown[c] /\ ~verdict[c].accepted
        /\ HourKept(verdict[c]) /\ OwnKept(verdict[c])
    BY <1>1, <1>2, <2>2 DEF AllKept, PlaceInv
  <2>4. v.token = verdict[c].token /\ v.route = verdict[c].route /\ v.at = verdict[c].at
        /\ v.asked = verdict[c].asked /\ v.accepted = passed
    BY <2>3 DEF Judgement
  <2> HIDE DEF v
  <2>5. HourKept(v) /\ OwnKept(v)
    <3>1. CASE ~passed
      BY <2>3, <2>4, <3>1 DEF HourKept, OwnKept
    <3>2. CASE passed
      <4>1. shown[c] = Auth!Keycloak
        BY <2>1, <3>2
      <4>2. v.token.key = "keycloak"
        BY <2>3, <2>4, <4>1 DEF Auth!Keycloak, Auth!NoToken
      <4>3. Owners(v.token) = {}
        <5>1. \A q \in Auth!Issuers : q.signs \in {"rsa", "secret", "jwk", "rsaText"}
          BY ProcessorFacts
        <5> QED BY <4>2, <5>1 DEF Owners
      <4> QED BY <4>2, <4>3 DEF HourKept, OwnKept
    <3> QED BY <3>1, <3>2
  <2>6. AllDated'
    BY <1>2, <1>6, <2>2, <2>4 DEF AllDated, KnownTo
  <2> QED BY <1>1, <1>2, <2>2, <2>5, <2>6 DEF AllKept, PlaceInv
<1>13. ASSUME Auth!Tick PROVE AllDated' /\ AllKept'
  <2>1. now' = now + 1 /\ UNCHANGED <<pc, route, tokens, shown, verdict>>
    BY <1>13 DEF Auth!Tick
  <2>2. AllDated'
    BY <1>1, <1>2, <1>3, <2>1, StaysDated DEF AllDated, KnownTo
  <2>3. \A c \in Clients : /\ PlaceInv(c)'
                           /\ HourKept(verdict'[c]) /\ OwnKept(verdict'[c])
    BY <1>1, <2>1 DEF AllKept, PlaceInv
  <2> QED BY <2>2, <2>3 DEF AllKept
<1>14. ASSUME UNCHANGED Auth!vars PROVE AllDated' /\ AllKept'
  <2>1. UNCHANGED <<now, pc, route, tokens, shown, verdict>>
    BY <1>14 DEF Auth!vars
  <2>2. AllDated'
    BY <1>1, <1>6, <2>1 DEF AllDated, KnownTo
  <2>3. \A c \in Clients : /\ PlaceInv(c)'
                           /\ HourKept(verdict'[c]) /\ OwnKept(verdict'[c])
    BY <1>1, <2>1 DEF AllKept, PlaceInv
  <2> QED BY <2>2, <2>3 DEF AllKept
<1>15. AllDated' /\ AllKept'
  BY <1>7, <1>8, <1>9, <1>10, <1>11, <1>12, <1>13, <1>14, TokenSteps
<1> QED BY <1>1, <1>15 DEF TokensInv

(***************************************************************************)
(* The variables of Tokens keep their types, for any clients, any lifetime *)
(* of a token and any clock (TypeOK of Tokens).                            *)
(***************************************************************************)
THEOREM TokensTypesCorrect == ASSUME TokensParameters PROVE Auth!Spec => []Auth!TypeOK
<1>1. TokensTypes => Auth!TypeOK
  BY DEF TokensTypes
<1>2. Auth!Init => TokensTypes
  BY InitTokens DEF TokensInv
<1>3. TokensTypes /\ [Auth!Next]_Auth!vars => TokensTypes'
  BY NextTokenTypes
<1> QED BY <1>1, <1>2, <1>3, PTL DEF Auth!Spec

LEMMA TokensAlways == ASSUME TokensParameters PROVE Auth!Spec => []TokensInv
<1>1. Auth!Init => TokensInv
  BY InitTokens
<1>2. TokensInv /\ [Auth!Next]_Auth!vars => TokensInv'
  BY NextTokens
<1> QED BY <1>1, <1>2, PTL DEF Auth!Spec

(***************************************************************************)
(* AcceptedForAnHour of Tokens, for any clients, lifetime and clock:       *)
(* whichever routes issue and check tokens, and whenever, an RSA token is  *)
(* refused once it is older than its lifetime and accepted until a second  *)
(* before, although its expiry is in whole seconds and rounded down.       *)
(***************************************************************************)
THEOREM TokensLastAnHour == ASSUME TokensParameters PROVE Auth!Spec => []AcceptedForAnHour
<1>1. TokensInv => AcceptedForAnHour
  BY DEF TokensInv, AllKept, AcceptedForAnHour, Auth!AcceptedForAnHour, HourKept
<1> QED BY <1>1, TokensAlways, PTL

(***************************************************************************)
(* SchemesAcceptTheirOwn of Tokens, for any clients, lifetime and clock: a *)
(* scheme accepts what it issued whenever the key could be asked for, and  *)
(* what another scheme issued only where the two share a key or check      *)
(* none.                                                                   *)
(***************************************************************************)
THEOREM SchemesAlwaysAcceptTheirOwn ==
  ASSUME TokensParameters
  PROVE  Auth!Spec => []SchemesAcceptTheirOwn
<1>1. TokensInv => SchemesAcceptTheirOwn
  BY DEF TokensInv, AllKept, SchemesAcceptTheirOwn, Auth!SchemesAcceptTheirOwn, OwnKept,
     Owners
<1> QED BY <1>1, TokensAlways, PTL

-----------------------------------------------------------------------------
(***************************************************************************)
(* The views of a product.  The column has grown by no more than the views *)
(* that got as far as the database, and by no fewer than those that were   *)
(* acknowledged or may yet be.  Each worker has counted the requests of a  *)
(* kind that came to it, and exported no more.                             *)
(***************************************************************************)
CatalogParameters ==
  IsFiniteSet(ProductRequests) /\ Workers # {} /\ Limit \in Nat \ {0}

(* What Catalog counts is what the theorems of FiniteSets are about.       *)
LEMMA ProductCount == ASSUME NEW S PROVE Products!Cardinality(S) = Cardinality(S)
BY Zenon DEF Products!Cardinality, Cardinality

Ask == [kind : Products!ViewKinds \cup Products!Lists, worker : Workers, known : BOOLEAN]

CatalogTypes ==
  /\ views \in 0 .. Limit /\ first \in 0 .. Limit
  /\ at \in [ProductRequests -> {"idle", "sleep", "query", "answer", "end"}]
  /\ asks \in [ProductRequests -> Ask]
  /\ reply \in [ProductRequests -> {"none", "ok", "error", "errorObject", "cut"}]
  /\ saw \in [ProductRequests -> 0 .. Limit] /\ floor \in [ProductRequests -> Nat]
  /\ up \in [Workers -> {"up", "flushing", "flushed", "down"}]
  /\ counted \in [Workers -> Nat] /\ searched \in [Workers -> Nat]
  /\ exported \in [Workers -> Nat] /\ answered \in [Workers -> Nat]
  /\ unflushed \subseteq Workers
  /\ \A r \in ProductRequests : reply[r] # "none" <=> at[r] = "end"

KnownView(r) == Products!IsView(r) /\ asks[r].known
Reached == {r \in ProductRequests : KnownView(r) /\ at[r] \in {"answer", "end"}}
Counting == {r \in ProductRequests : KnownView(r) /\ (at[r] = "answer" \/ reply[r] = "ok")}

ColumnInv ==
  /\ Cardinality(Counting) <= views - first
  /\ views - first <= Cardinality(Reached)
  /\ \A r \in ProductRequests :
       /\ first + floor[r] <= views /\ floor[r] <= Products!Many
       /\ ~Products!IsView(r) /\ (at[r] = "answer" \/ reply[r] = "ok")
            => first + floor[r] <= saw[r]

Came(sort, w) == {r \in Products!OfWorker(w) : asks[r].kind = sort /\ at[r] # "idle"}

WorkerInv ==
  \A w \in Workers :
    /\ counted[w] = Cardinality(Came("graphql", w))
    /\ searched[w] <= Cardinality(Came("search", w))
    /\ exported[w] <= counted[w] /\ answered[w] <= counted[w]
    /\ up[w] \in {"flushed", "down"} /\ w \notin unflushed => exported[w] >= answered[w]

CatalogInv == CatalogTypes /\ ColumnInv /\ WorkerInv

LEMMA InitCatalog == ASSUME CatalogParameters, Products!Init PROVE CatalogInv
<1>1. (CHOOSE w \in Workers : TRUE) \in Workers
  BY DEF CatalogParameters
<1>2. CatalogTypes
  BY <1>1 DEF Products!Init, CatalogTypes, CatalogParameters, Ask, Products!ViewKinds,
     Products!Lists
<1>3. Counting = {} /\ Reached = {} /\ Cardinality({}) = 0 /\ Products!Many \in Nat
  BY ProductCount, FS_EmptySet, FS_CardinalityType
     DEF Products!Init, Counting, Reached, CatalogParameters, Products!Many
<1>4. ColumnInv
  BY <1>2, <1>3 DEF Products!Init, ColumnInv, CatalogTypes
<1>5. \A w \in Workers, sort \in {"graphql", "search"} : Came(sort, w) = {}
  BY DEF Products!Init, Came, Products!OfWorker
<1>6. WorkerInv
  <2>1. \A w \in Workers : /\ counted[w] = 0 /\ searched[w] = 0 /\ exported[w] = 0
                           /\ answered[w] = 0
    BY DEF Products!Init
  <2>2. \A w \in Workers :
          Cardinality(Came("graphql", w)) = 0 /\ Cardinality(Came("search", w)) = 0
    BY <1>3, <1>5
  <2> QED BY <2>1, <2>2 DEF WorkerInv
<1> QED BY <1>2, <1>4, <1>6 DEF CatalogInv

(* The steps, by what they do to the variables.                            *)
ProductArrives(r) ==
  \E sort \in Products!ViewKinds \cup Products!Lists,
    phase \in {"sleep", "query"} : Products!Arrive(r, sort, phase)

LEMMA CatalogSteps ==
  ASSUME [Products!Next]_Products!vars
  PROVE  \/ \E r \in ProductRequests :
           \/ ProductArrives(r) \/ Products!Refused(r) \/ Products!Slept(r)
           \/ Products!Find(r)
           \/ Products!UpdateProduct(r) \/ Products!Answered(r) \/ Products!QueryFails(r)
         \/ \E w \in Workers :
           Products!Export(w) \/ Products!Shutdown(w) \/ Products!Flush(w)
             \/ Products!Exit(w) \/ Products!Kill(w)
         \/ UNCHANGED Products!vars
<1>1. ASSUME NEW r \in ProductRequests,
             \/ Products!ViewProductRest(r) \/ Products!ViewProductGrpc(r)
             \/ Products!ViewProductGraphql(r)
             \/ Products!GetProducts(r) \/ Products!GetLatestProducts(r)
             \/ Products!SearchProductsByName(r)
             \/ Products!AllProducts(r) \/ Products!LatestProducts(r)
      PROVE  ProductArrives(r)
  BY <1>1 DEF ProductArrives, Products!ViewProductRest, Products!ViewProductGrpc,
     Products!ViewProductGraphql, Products!GetProducts,
     Products!GetLatestProducts, Products!SearchProductsByName, Products!AllProducts,
       Products!LatestProducts, Products!ViewKinds, Products!Lists
<1> QED BY <1>1 DEF Products!Next

LEMMA Fewer ==
  ASSUME CatalogParameters, NEW T, T \subseteq ProductRequests, NEW S, S \subseteq T
  PROVE  /\ IsFiniteSet(S) /\ Cardinality(S) \in Nat /\ Cardinality(T) \in Nat
         /\ Cardinality(S) <= Cardinality(T)
<1>1. IsFiniteSet(T)
  BY FS_Subset DEF CatalogParameters
<1> QED BY <1>1, FS_Subset, FS_CardinalityType

LEMMA Another ==
  ASSUME CatalogParameters, NEW S, S \subseteq ProductRequests, NEW r, r \notin S
  PROVE  Cardinality(S \cup {r}) = Cardinality(S) + 1
BY Fewer, FS_AddElement

(* An arrival: the request, its worker and the counters.                   *)
LEMMA Arriving ==
  ASSUME CatalogTypes, NEW r \in ProductRequests, ProductArrives(r)
  PROVE  \E ask \in Ask :
           /\ at[r] = "idle" /\ reply[r] = "none"
           /\ \E phase \in {"sleep", "query"} : at' = [at EXCEPT ![r] = phase]
           /\ asks' = [asks EXCEPT ![r] = ask]
           /\ counted' = IF ask.kind = "graphql"
                         THEN [counted EXCEPT ![ask.worker] = counted[ask.worker] + 1]
                         ELSE counted
           /\ searched' = IF ask.kind = "search"
                          THEN [searched EXCEPT ![ask.worker] = searched[ask.worker] + 1]
                          ELSE searched
           /\ floor' = [floor EXCEPT ![r] = Cardinality(Products!Acknowledged)]
           /\ UNCHANGED <<views, reply, saw, exported, first, up, answered, unflushed>>
<1>1. PICK sort \in Products!ViewKinds \cup Products!Lists,
        phase \in {"sleep", "query"} : Products!Arrive(r, sort, phase)
  BY DEF ProductArrives
<1>2. PICK w \in Products!Alive,
        known \in IF sort \in Products!ViewKinds THEN BOOLEAN ELSE {TRUE} :
        /\ asks' = [asks EXCEPT ![r] = [kind |-> sort, worker |-> w, known |-> known]]
        /\ counted' = IF sort = "graphql" THEN [counted EXCEPT ![w] = @ + 1] ELSE counted
        /\ searched' = IF sort = "search" THEN [searched EXCEPT ![w] = @ + 1] ELSE searched
  BY <1>1 DEF Products!Arrive
<1>3. w \in Workers /\ known \in BOOLEAN
  BY DEF Products!Alive
<1> DEFINE ask == [kind |-> sort, worker |-> w, known |-> known]
<1>4. ask \in Ask /\ ask.kind = sort /\ ask.worker = w
  BY <1>3 DEF Ask
<1>5. asks' = [asks EXCEPT ![r] = ask]
  BY <1>2
<1> HIDE DEF ask
<1>6. at[r] = "idle" /\ reply[r] = "none"
  BY <1>1 DEF Products!Arrive, CatalogTypes
<1>7. \E spot \in {"sleep", "query"} : at' = [at EXCEPT ![r] = spot]
  BY <1>1 DEF Products!Arrive, Products!Goto
<1>8. /\ floor' = [floor EXCEPT ![r] = Cardinality(Products!Acknowledged)]
      /\ UNCHANGED <<views, reply, saw, exported, first, up, answered, unflushed>>
  BY ProductCount, <1>1 DEF Products!Arrive, Products!process
<1>9. counted' = IF ask.kind = "graphql"
                 THEN [counted EXCEPT ![ask.worker] = counted[ask.worker] + 1] ELSE counted
  BY <1>2, <1>4
<1>10. searched' = IF ask.kind = "search"
                   THEN [searched EXCEPT ![ask.worker] = searched[ask.worker] + 1]
                   ELSE searched
  BY <1>2, <1>4
<1> QED BY <1>4, <1>5, <1>6, <1>7, <1>8, <1>9, <1>10

LEMMA NextCatalogTypes ==
  ASSUME CatalogParameters, CatalogInv, [Products!Next]_Products!vars
  PROVE  CatalogTypes'
<1>1. CatalogTypes /\ ColumnInv
  BY DEF CatalogInv
<1>2. ASSUME NEW r \in ProductRequests, ProductArrives(r) PROVE CatalogTypes'
  <2>1. Cardinality(Products!Acknowledged) \in Nat
    BY Fewer DEF Products!Acknowledged
  <2> DEFINE n == Cardinality(Products!Acknowledged)
  <2> HIDE DEF n
  <2>2. n \in Nat /\ floor' = [floor EXCEPT ![r] = n]
    BY <1>1, <1>2, <2>1, Arriving DEF n
  <2>3. PICK ask \in Ask :
          /\ at[r] = "idle" /\ reply[r] = "none"
          /\ \E phase \in {"sleep", "query"} : at' = [at EXCEPT ![r] = phase]
          /\ asks' = [asks EXCEPT ![r] = ask]
          /\ counted' = IF ask.kind = "graphql"
                        THEN [counted EXCEPT ![ask.worker] = counted[ask.worker] + 1]
                        ELSE counted
          /\ searched' = IF ask.kind = "search"
                         THEN [searched EXCEPT ![ask.worker] = searched[ask.worker] + 1]
                         ELSE searched
          /\ UNCHANGED <<views, reply, saw, exported, first, up, answered, unflushed>>
    BY <1>1, <1>2, Arriving
  <2>4. ask.worker \in Workers
    BY DEF Ask
  <2>5. counted' \in [Workers -> Nat] /\ searched' \in [Workers -> Nat]
    BY <1>1, <2>3, <2>4 DEF CatalogTypes
  <2>6. asks' \in [ProductRequests -> Ask] /\ floor' \in [ProductRequests -> Nat]
    BY <1>1, <2>2, <2>3 DEF CatalogTypes
  <2> QED BY <1>1, <2>3, <2>5, <2>6 DEF CatalogTypes
<1>3. ASSUME NEW r \in ProductRequests, Products!Refused(r) PROVE CatalogTypes'
  <2>1. PICK sort \in {"products", "latest", "search"} :
          asks' = [asks EXCEPT ![r] = [asks[r] EXCEPT !.kind = sort]]
    BY <1>3 DEF Products!Refused
  <2>2. [asks[r] EXCEPT !.kind = sort] \in Ask
    BY <1>1 DEF CatalogTypes, Ask, Products!Lists
  <2>3. asks' \in [ProductRequests -> Ask]
    BY <1>1, <2>1, <2>2 DEF CatalogTypes
  <2> QED BY <1>1, <1>3, <2>3 DEF Products!Refused, Products!Goto, CatalogTypes,
             Products!telemetry, Products!process
<1>4. ASSUME NEW r \in ProductRequests,
             Products!Slept(r) \/ Products!Find(r) \/ Products!Answered(r)
               \/ Products!QueryFails(r)
      PROVE  CatalogTypes'
  BY <1>1, <1>4 DEF Products!Slept, Products!Find, Products!Answered, Products!QueryFails,
     Products!Answer, Products!Goto, CatalogTypes, Products!telemetry, Products!process
<1>5. ASSUME NEW r \in ProductRequests, Products!UpdateProduct(r) PROVE CatalogTypes'
  <2>1. views' \in 0 .. Limit
    BY <1>1, <1>5
       DEF Products!UpdateProduct, Products!Increment, CatalogTypes, CatalogParameters
  <2> QED BY <1>1, <1>5, <2>1 DEF Products!UpdateProduct, Products!Goto, CatalogTypes,
             Products!telemetry, Products!process
<1>6. ASSUME NEW w \in Workers, Products!Export(w) \/ Products!Flush(w) PROVE CatalogTypes'
  BY <1>1, <1>6 DEF Products!Export, Products!Flush, CatalogTypes, Products!process
<1>7. ASSUME NEW w \in Workers, Products!Shutdown(w) PROVE CatalogTypes'
  <2> DEFINE n == Cardinality({r \in Products!OfWorker(w) :
    asks[r].kind = "graphql" /\ reply[r] = "ok"})
  <2>1. n \in Nat
    BY Fewer DEF Products!OfWorker
  <2>2. answered' = [answered EXCEPT ![w] = n]
    BY ProductCount, <1>7 DEF Products!Shutdown
  <2> HIDE DEF n
  <2> QED BY <1>1, <1>7, <2>1, <2>2 DEF Products!Shutdown, CatalogTypes, Products!telemetry
<1>8. ASSUME NEW w \in Workers, Products!Exit(w) \/ Products!Kill(w) PROVE CatalogTypes'
  BY <1>1, <1>8
     DEF Products!Exit, Products!Kill, Products!Gone, CatalogTypes, Products!telemetry
<1>9. CASE UNCHANGED Products!vars
  BY <1>1, <1>9 DEF Products!vars, CatalogTypes
<1> QED BY <1>2, <1>3, <1>4, <1>5, <1>6, <1>7, <1>8, <1>9, CatalogSteps

(* A step that brings no view to the database, nor past it.                *)
LEMMA QuietColumn ==
  ASSUME CatalogParameters, ColumnInv, CatalogTypes, CatalogTypes',
         Counting' \subseteq Counting, Reached \subseteq Reached',
         UNCHANGED <<views, first>>,
         \A r \in ProductRequests :
           /\ first + floor'[r] <= views /\ floor'[r] <= Products!Many
           /\ (~Products!IsView(r) /\ (at[r] = "answer" \/ reply[r] = "ok"))'
                => first + floor'[r] <= saw'[r]
  PROVE  ColumnInv'
<1> DEFINE c == Cardinality(Counting)
           d == Cardinality(Counting')
           u == Cardinality(Reached)
           v == Cardinality(Reached')
<1>1. Counting \subseteq ProductRequests /\ Reached' \subseteq ProductRequests
  BY DEF Counting, Reached
<1>2. d <= c /\ u <= v /\ c \in Nat /\ d \in Nat /\ u \in Nat /\ v \in Nat
  BY <1>1, Fewer
<1>3. views \in Nat /\ first \in Nat /\ c <= views - first /\ views - first <= u
  BY DEF CatalogTypes, ColumnInv
<1> HIDE DEF c, d, u, v
<1>4. d <= views - first /\ views - first <= v
  BY <1>2, <1>3
<1> QED BY <1>4 DEF ColumnInv, c, d, u, v

LEMMA NextColumn ==
  ASSUME CatalogParameters, CatalogInv, CatalogTypes', [Products!Next]_Products!vars
  PROVE  ColumnInv'
<1>1. CatalogTypes /\ ColumnInv
  BY DEF CatalogInv
<1>2. ASSUME NEW r \in ProductRequests, ProductArrives(r) PROVE ColumnInv'
  <2> DEFINE n == Cardinality(Products!Acknowledged)
             c == Cardinality(Counting)
  <2>1. /\ Products!Acknowledged \subseteq Counting
        /\ Counting \subseteq ProductRequests
        /\ Products!Acknowledged \subseteq ProductRequests
    BY DEF Products!Acknowledged, Counting, KnownView
  <2>2. n \in Nat /\ c \in Nat /\ n <= c /\ n <= Products!Many /\ Products!Many \in Nat
    BY ProductCount, <2>1, Fewer DEF Products!Many
  <2>3. c <= views - first /\ views \in Nat /\ first \in Nat
    BY <1>1 DEF ColumnInv, CatalogTypes
  <2> HIDE DEF n, c
  <2>4. first + n <= views
    BY <2>2, <2>3
  <2>5. PICK ask \in Ask :
          /\ at[r] = "idle" /\ reply[r] = "none"
          /\ \E phase \in {"sleep", "query"} : at' = [at EXCEPT ![r] = phase]
          /\ asks' = [asks EXCEPT ![r] = ask]
          /\ floor' = [floor EXCEPT ![r] = n]
          /\ UNCHANGED <<views, reply, saw, first>>
    BY <1>1, <1>2, Arriving DEF n
  <2>6. \A q \in ProductRequests :
          q # r => asks'[q] = asks[q] /\ at'[q] = at[q] /\ floor'[q] = floor[q]
    BY <1>1, <2>5 DEF CatalogTypes
  <2>7. at'[r] \notin {"answer", "end"} /\ reply'[r] = "none" /\ floor'[r] = n
    BY <1>1, <2>5 DEF CatalogTypes
  <2>8. Counting' \subseteq Counting /\ Reached \subseteq Reached'
    BY <2>5, <2>6, <2>7 DEF Counting, Reached, KnownView, Products!IsView
  <2>9. \A q \in ProductRequests :
          /\ first + floor'[q] <= views /\ floor'[q] <= Products!Many
          /\ (~Products!IsView(q) /\ (at[q] = "answer" \/ reply[q] = "ok"))'
               => first + floor'[q] <= saw'[q]
    BY <1>1, <2>2, <2>4, <2>5, <2>6, <2>7 DEF ColumnInv, Products!IsView
  <2> QED BY <1>1, <2>5, <2>8, <2>9, QuietColumn
<1>3. ASSUME NEW r \in ProductRequests, Products!Refused(r) PROVE ColumnInv'
  <2>1. /\ at[r] = "idle" /\ at' = [at EXCEPT ![r] = "end"]
        /\ reply' = [reply EXCEPT ![r] = "error"]
        /\ \E sort \in {"products", "latest", "search"} :
             asks' = [asks EXCEPT ![r] = [asks[r] EXCEPT !.kind = sort]]
        /\ UNCHANGED <<views, saw, first, floor>>
    BY <1>3 DEF Products!Refused, Products!Goto
  <2>2. \A q \in ProductRequests :
          q # r => asks'[q] = asks[q] /\ at'[q] = at[q] /\ reply'[q] = reply[q]
    BY <1>1, <2>1 DEF CatalogTypes
  <2>3. at'[r] = "end" /\ reply'[r] = "error" /\ reply[r] = "none"
    BY <1>1, <2>1 DEF CatalogTypes
  <2>4. Counting' \subseteq Counting /\ Reached \subseteq Reached'
    BY <2>1, <2>2, <2>3 DEF Counting, Reached, KnownView, Products!IsView
  <2>5. \A q \in ProductRequests :
          /\ first + floor'[q] <= views /\ floor'[q] <= Products!Many
          /\ (~Products!IsView(q) /\ (at[q] = "answer" \/ reply[q] = "ok"))'
               => first + floor'[q] <= saw'[q]
    BY <1>1, <2>1, <2>2, <2>3 DEF ColumnInv, Products!IsView
  <2> QED BY <1>1, <2>1, <2>4, <2>5, QuietColumn
<1>4. ASSUME NEW r \in ProductRequests,
             Products!Slept(r) \/ Products!Find(r) \/ Products!Answered(r)
               \/ Products!QueryFails(r)
      PROVE  ColumnInv'
  <2>1. UNCHANGED <<views, asks, first, floor>>
    BY <1>4 DEF Products!Slept, Products!Find, Products!Answered, Products!QueryFails,
       Products!Answer
  <2>2. \A q \in ProductRequests :
          Products!IsView(q)' = Products!IsView(q) /\ KnownView(q)' = KnownView(q)
    BY <2>1 DEF Products!IsView, KnownView
  <2>3. Counting' \subseteq Counting
    BY <1>1, <1>4, <2>2 DEF Products!Slept, Products!Find, Products!Answered,
       Products!QueryFails, Products!Answer, Products!Goto, CatalogTypes, Counting,
       KnownView
  <2>4. Reached \subseteq Reached'
    BY <1>1, <1>4, <2>2 DEF Products!Slept, Products!Find, Products!Answered,
       Products!QueryFails, Products!Answer, Products!Goto, CatalogTypes, Reached, KnownView
  <2>5. \A q \in ProductRequests :
           (~Products!IsView(q) /\ (at[q] = "answer" \/ reply[q] = "ok"))'
             => first + floor'[q] <= saw'[q]
    BY <1>1, <1>4, <2>1, <2>2 DEF Products!Slept, Products!Find, Products!Answered,
       Products!QueryFails, Products!Answer, Products!Goto, CatalogTypes, ColumnInv
  <2>6. \A q \in ProductRequests : first + floor'[q] <= views /\ floor'[q] <= Products!Many
    BY <1>1, <2>1 DEF ColumnInv
  <2> QED BY <1>1, <2>1, <2>3, <2>4, <2>5, <2>6, QuietColumn
<1>5. ASSUME NEW r \in ProductRequests, Products!UpdateProduct(r) PROVE ColumnInv'
  <2>1. /\ at[r] = "query" /\ Products!IsView(r) /\ at' = [at EXCEPT ![r] = "answer"]
        /\ views' = IF asks[r].known THEN views + 1 ELSE views
        /\ UNCHANGED <<asks, reply, saw, first, floor>>
    BY <1>5 DEF Products!UpdateProduct, Products!Goto, Products!Increment
  <2>2. \A q \in ProductRequests : q # r => at'[q] = at[q]
    BY <1>1, <2>1 DEF CatalogTypes
  <2>3. at'[r] = "answer" /\ reply[r] # "ok"
    BY <1>1, <2>1 DEF CatalogTypes
  <2>4. \A q \in ProductRequests :
          Products!IsView(q)' = Products!IsView(q) /\ KnownView(q)' = KnownView(q)
    BY <2>1 DEF Products!IsView, KnownView
  <2>5. CASE ~asks[r].known
    <3>1. Counting' \subseteq Counting /\ Reached \subseteq Reached'
      BY <2>1, <2>2, <2>3, <2>4, <2>5 DEF Counting, Reached, KnownView
    <3>2. \A q \in ProductRequests :
            /\ first + floor'[q] <= views /\ floor'[q] <= Products!Many
            /\ (~Products!IsView(q) /\ (at[q] = "answer" \/ reply[q] = "ok"))'
                 => first + floor'[q] <= saw'[q]
      BY <1>1, <2>1, <2>2, <2>4 DEF ColumnInv
    <3> QED BY <1>1, <2>1, <2>5, <3>1, <3>2, QuietColumn
  <2>6. CASE asks[r].known
    <3> DEFINE c == Cardinality(Counting)
               u == Cardinality(Reached)
    <3>1. /\ Counting' = Counting \cup {r} /\ Reached' = Reached \cup {r}
          /\ r \notin Counting /\ r \notin Reached
          /\ Counting \subseteq ProductRequests /\ Reached \subseteq ProductRequests
      BY <2>1, <2>2, <2>3, <2>4, <2>6 DEF Counting, Reached, KnownView
    <3>2. Cardinality(Counting') = c + 1 /\ Cardinality(Reached') = u + 1 /\ c \in Nat
            /\ u \in Nat
      BY <3>1, Another, Fewer
    <3>3. views \in Nat /\ first \in Nat /\ views' = views + 1 /\ c <= views - first
            /\ views - first <= u
      BY <1>1, <2>1, <2>6 DEF CatalogTypes, ColumnInv
    <3> HIDE DEF c, u
    <3>4. c + 1 <= views' - first' /\ views' - first' <= u + 1
      BY <2>1, <3>2, <3>3
    <3>5. \A q \in ProductRequests : first + floor[q] <= views + 1
      BY <1>1, <3>3 DEF ColumnInv, CatalogTypes
    <3>6. \A q \in ProductRequests :
            (~Products!IsView(q) /\ (at[q] = "answer" \/ reply[q] = "ok"))'
              => first + floor[q] <= saw[q]
      BY <1>1, <2>1, <2>2, <2>4 DEF ColumnInv
    <3> QED BY <1>1, <2>1, <3>2, <3>3, <3>4, <3>5, <3>6 DEF ColumnInv
  <2> QED BY <2>5, <2>6
<1>6. ASSUME NEW w \in Workers,
             Products!Export(w) \/ Products!Flush(w) \/ Products!Shutdown(w)
      PROVE  ColumnInv'
  <2>1. UNCHANGED <<views, at, asks, reply, saw, first, floor>>
    BY <1>6 DEF Products!Export, Products!Flush, Products!Shutdown
  <2>2. Counting' = Counting /\ Reached' = Reached /\ \A q \in ProductRequests :
          Products!IsView(q)' = Products!IsView(q)
    BY <2>1 DEF Counting, Reached, KnownView, Products!IsView
  <2> QED BY <1>1, <2>1, <2>2 DEF ColumnInv
<1>7. ASSUME NEW w \in Workers, Products!Exit(w) \/ Products!Kill(w) PROVE ColumnInv'
  <2>1. UNCHANGED <<views, asks, saw, first, floor>>
    BY <1>7 DEF Products!Exit, Products!Kill, Products!Gone
  <2>2. \A q \in ProductRequests : \/ at'[q] = at[q] /\ reply'[q] = reply[q]
                                   \/ at'[q] = "end" /\ reply'[q] = "cut" /\ at[q] # "end"
    BY <1>7 DEF Products!Exit, Products!Kill, Products!Gone
  <2>3. \A q \in ProductRequests :
          Products!IsView(q)' = Products!IsView(q) /\ KnownView(q)' = KnownView(q)
    BY <2>1 DEF Products!IsView, KnownView
  <2>4. Counting' \subseteq Counting /\ Reached \subseteq Reached'
    BY <2>2, <2>3 DEF Counting, Reached
  <2>5. \A q \in ProductRequests :
          /\ first + floor'[q] <= views /\ floor'[q] <= Products!Many
          /\ (~Products!IsView(q) /\ (at[q] = "answer" \/ reply[q] = "ok"))'
               => first + floor'[q] <= saw'[q]
    BY <1>1, <2>1, <2>2, <2>3 DEF ColumnInv
  <2> QED BY <1>1, <2>1, <2>4, <2>5, QuietColumn
<1>8. CASE UNCHANGED Products!vars
  <2>1. UNCHANGED <<views, at, asks, reply, saw, first, floor>>
    BY <1>8 DEF Products!vars
  <2>2. Counting' = Counting /\ Reached' = Reached /\ \A q \in ProductRequests :
          Products!IsView(q)' = Products!IsView(q)
    BY <2>1 DEF Counting, Reached, KnownView, Products!IsView
  <2> QED BY <1>1, <2>1, <2>2 DEF ColumnInv
<1> QED BY <1>2, <1>3, <1>4, <1>5, <1>6, <1>7, <1>8, CatalogSteps

(* A step after which the same requests have come to every worker.         *)
LEMMA QuietWorkers ==
  ASSUME WorkerInv, UNCHANGED <<counted, searched>>,
         \A w \in Workers, sort \in {"graphql", "search"} : Came(sort, w)' = Came(sort, w),
         \A w \in Workers : /\ exported'[w] <= counted[w] /\ answered'[w] <= counted[w]
                            /\ up'[w] \in {"flushed", "down"} /\ w \notin unflushed' =>
                                 exported'[w] >= answered'[w]
  PROVE  WorkerInv'
BY DEF WorkerInv

LEMMA NextWorkers ==
  ASSUME CatalogParameters, CatalogInv, CatalogTypes', [Products!Next]_Products!vars
  PROVE  WorkerInv'
<1>1. CatalogTypes /\ WorkerInv
  BY DEF CatalogInv
<1>2. \A w \in Workers,
        sort \in {"graphql", "search"} : Came(sort, w) \subseteq ProductRequests
  BY DEF Came, Products!OfWorker
<1>3. ASSUME NEW r \in ProductRequests, ProductArrives(r) PROVE WorkerInv'
  <2>1. PICK ask \in Ask :
          /\ at[r] = "idle"
          /\ \E phase \in {"sleep", "query"} : at' = [at EXCEPT ![r] = phase]
          /\ asks' = [asks EXCEPT ![r] = ask]
          /\ counted' = IF ask.kind = "graphql"
                        THEN [counted EXCEPT ![ask.worker] = counted[ask.worker] + 1]
                        ELSE counted
          /\ searched' = IF ask.kind = "search"
                         THEN [searched EXCEPT ![ask.worker] = searched[ask.worker] + 1]
                         ELSE searched
          /\ UNCHANGED <<exported, up, answered, unflushed>>
    BY <1>1, <1>3, Arriving
  <2>2. \A q \in ProductRequests : q # r => asks'[q] = asks[q] /\ at'[q] = at[q]
    BY <1>1, <2>1 DEF CatalogTypes
  <2>3. at'[r] # "idle" /\ asks'[r] = ask
    BY <1>1, <2>1 DEF CatalogTypes
  <2>4. \A w \in Workers, sort \in {"graphql", "search"} :
          /\ r \notin Came(sort, w)
          /\ Came(sort, w)' = IF ask.kind = sort /\ ask.worker = w
                              THEN Came(sort, w) \cup {r} ELSE Came(sort, w)
    BY <2>1, <2>2, <2>3 DEF Came, Products!OfWorker
  <2>5. \A w \in Workers, sort \in {"graphql", "search"} :
          Cardinality(Came(sort, w)') = IF ask.kind = sort /\ ask.worker = w
                                        THEN Cardinality(Came(sort, w)) + 1
                                        ELSE Cardinality(Came(sort, w))
    BY <1>2, <2>4, Another
  <2>6. \A w \in Workers :
          /\ counted'[w] = IF ask.kind = "graphql" /\ ask.worker = w
                           THEN counted[w] + 1 ELSE counted[w]
          /\ searched'[w] = IF ask.kind = "search" /\ ask.worker = w
                            THEN searched[w] + 1 ELSE searched[w]
    BY <1>1, <2>1 DEF CatalogTypes
  <2>7. \A w \in Workers : counted'[w] = Cardinality(Came("graphql", w)')
    BY <1>1, <2>5, <2>6 DEF WorkerInv
  <2>8. \A w \in Workers : searched'[w] <= Cardinality(Came("search", w)')
    <3>1. \A w \in Workers : searched[w] \in Nat /\ Cardinality(Came("search", w)) \in Nat
      BY <1>1, <1>2, Fewer DEF CatalogTypes
    <3> QED BY <1>1, <2>5, <2>6, <3>1 DEF WorkerInv
  <2>9. \A w \in Workers : exported[w] <= counted'[w] /\ answered[w] <= counted'[w]
    <3>1. \A w \in Workers :
            exported[w] \in Nat /\ answered[w] \in Nat /\ counted[w] \in Nat
      BY <1>1 DEF CatalogTypes
    <3>2. \A w \in Workers : counted'[w] = counted[w] \/ counted'[w] = counted[w] + 1
      BY <2>6
    <3> QED BY <1>1, <3>1, <3>2 DEF WorkerInv
  <2> QED BY <1>1, <2>1, <2>7, <2>8, <2>9 DEF WorkerInv
<1>4. ASSUME NEW r \in ProductRequests, Products!Refused(r) PROVE WorkerInv'
  <2>1. /\ at[r] = "idle" /\ at' = [at EXCEPT ![r] = "end"]
        /\ \E sort \in {"products", "latest", "search"} :
             asks' = [asks EXCEPT ![r] = [asks[r] EXCEPT !.kind = sort]]
        /\ UNCHANGED <<counted, searched, exported, up, answered, unflushed>>
    BY <1>4 DEF Products!Refused, Products!Goto, Products!telemetry, Products!process
  <2>2. \A q \in ProductRequests : q # r => asks'[q] = asks[q] /\ at'[q] = at[q]
    BY <1>1, <2>1 DEF CatalogTypes
  <2>3. asks'[r].kind # "graphql"
    BY <1>1, <2>1 DEF CatalogTypes, Ask
  <2>4. \A w \in Workers : Came("graphql", w)' = Came("graphql", w)
    BY <2>1, <2>2, <2>3 DEF Came, Products!OfWorker
  <2>5. \A w \in Workers :
          searched[w] \in Nat /\ searched[w] <= Cardinality(Came("search", w)')
    <3>1. \A w \in Workers : Came("search", w) \subseteq Came("search", w)'
                            /\ Came("search", w)' \subseteq ProductRequests
      BY <2>1, <2>2 DEF Came, Products!OfWorker
    <3>2. \A w \in Workers :
            /\ Cardinality(Came("search", w)) \in Nat
            /\ Cardinality(Came("search", w)') \in Nat
            /\ Cardinality(Came("search", w)) <= Cardinality(Came("search", w)')
      BY <3>1, Fewer
    <3> QED BY <1>1, <3>2 DEF WorkerInv, CatalogTypes
  <2> QED BY <1>1, <2>1, <2>4, <2>5 DEF WorkerInv
<1>5. ASSUME NEW r \in ProductRequests,
             Products!Slept(r) \/ Products!Find(r) \/ Products!UpdateProduct(r)
               \/ Products!Answered(r) \/ Products!QueryFails(r)
      PROVE  WorkerInv'
  <2>1. /\ UNCHANGED <<asks, counted, searched, exported, up, answered, unflushed>>
        /\ \E phase \in {"query", "answer", "end"} : at' = [at EXCEPT ![r] = phase]
        /\ at[r] # "idle"
    BY <1>5 DEF Products!Slept, Products!Find, Products!UpdateProduct, Products!Answered,
       Products!QueryFails, Products!Answer, Products!Goto, Products!telemetry,
       Products!process
  <2>2. \A w \in Workers, sort \in {"graphql", "search"} : Came(sort, w)' = Came(sort, w)
    BY <1>1, <2>1 DEF Came, Products!OfWorker, CatalogTypes
  <2> QED BY <1>1, <2>1, <2>2 DEF WorkerInv
<1>6. ASSUME NEW w \in Workers, Products!Export(w) PROVE WorkerInv'
  <2>1. /\ up[w] = "up" /\ exported' = [exported EXCEPT ![w] = counted[w]]
        /\ UNCHANGED <<at, asks, counted, searched, up, answered, unflushed>>
    BY <1>6 DEF Products!Export, Products!process
  <2>2. \A v \in Workers, sort \in {"graphql", "search"} : Came(sort, v)' = Came(sort, v)
    BY <2>1 DEF Came, Products!OfWorker
  <2>3. \A v \in Workers : exported'[v] = IF v = w THEN counted[v] ELSE exported[v]
    BY <1>1, <2>1 DEF CatalogTypes
  <2>4. counted[w] <= counted[w]
    BY <1>1 DEF CatalogTypes
  <2> QED BY <1>1, <2>1, <2>2, <2>3, <2>4, QuietWorkers DEF WorkerInv
<1>7. ASSUME NEW w \in Workers, Products!Shutdown(w) PROVE WorkerInv'
  <2> DEFINE s == {r \in Products!OfWorker(w) : asks[r].kind = "graphql" /\ reply[r] = "ok"}
             n == Cardinality(s)
             m == Cardinality(Came("graphql", w))
  <2>1. s \subseteq Came("graphql", w)
    BY <1>1 DEF Came, CatalogTypes, Products!OfWorker
  <2>2. n <= m /\ n \in Nat /\ m \in Nat
    BY <1>2, <2>1, Fewer
  <2>3. n <= counted[w]
    BY <1>1, <2>2 DEF WorkerInv
  <2>4. answered' = [answered EXCEPT ![w] = n]
    BY ProductCount, <1>7 DEF Products!Shutdown
  <2> HIDE DEF s, n, m
  <2>5. /\ up' = [up EXCEPT ![w] = "flushing"]
        /\ UNCHANGED <<at, asks, counted, searched, exported, unflushed>>
    BY <1>7 DEF Products!Shutdown, Products!telemetry
  <2>6. \A v \in Workers, sort \in {"graphql", "search"} : Came(sort, v)' = Came(sort, v)
    BY <2>5 DEF Came, Products!OfWorker
  <2>7. \A v \in Workers : /\ answered'[v] = IF v = w THEN n ELSE answered[v]
                           /\ up'[v] = IF v = w THEN "flushing" ELSE up[v]
    BY <1>1, <2>4, <2>5 DEF CatalogTypes
  <2> QED BY <1>1, <2>3, <2>5, <2>6, <2>7, QuietWorkers DEF WorkerInv
<1>8. ASSUME NEW w \in Workers, Products!Flush(w) PROVE WorkerInv'
  <2>1. /\ up' = [up EXCEPT ![w] = "flushed"] /\ up[w] = "flushing"
        /\ \/ exported' = [exported EXCEPT ![w] = counted[w]] /\ unflushed' = unflushed
           \/ exported' = exported /\ unflushed' = unflushed \cup {w}
        /\ UNCHANGED <<at, asks, counted, searched, answered>>
    BY <1>8 DEF Products!Flush
  <2>2. \A v \in Workers, sort \in {"graphql", "search"} : Came(sort, v)' = Came(sort, v)
    BY <2>1 DEF Came, Products!OfWorker
  <2>3. \A v \in Workers : counted[v] \in Nat /\ answered[v] \in Nat /\ exported[v] \in Nat
    BY <1>1 DEF CatalogTypes
  <2>4. \A v \in Workers : /\ v # w => exported'[v] = exported[v] /\ up'[v] = up[v]
                           /\ v # w /\ v \notin unflushed' => v \notin unflushed
    BY <1>1, <2>1 DEF CatalogTypes
  <2>5. exported'[w] = counted[w] \/ (exported'[w] = exported[w] /\ w \in unflushed')
    BY <1>1, <2>1 DEF CatalogTypes
  <2> QED BY <1>1, <2>1, <2>2, <2>3, <2>4, <2>5, QuietWorkers DEF WorkerInv
<1>9. ASSUME NEW w \in Workers, Products!Exit(w) \/ Products!Kill(w) PROVE WorkerInv'
  <2>1. /\ up' = [up EXCEPT ![w] = "down"]
        /\ unflushed' = unflushed \/ unflushed' = unflushed \cup {w}
        /\ up[w] = "flushed" \/ w \in unflushed'
        /\ UNCHANGED <<asks, counted, searched, exported, answered>>
        /\ \A r \in ProductRequests : at'[r] = at[r] \/ (at[r] # "idle" /\ at'[r] = "end")
    BY <1>9 DEF Products!Exit, Products!Kill, Products!Gone, Products!telemetry
  <2>2. \A v \in Workers, sort \in {"graphql", "search"} : Came(sort, v)' = Came(sort, v)
    BY <2>1 DEF Came, Products!OfWorker
  <2>3. \A v \in Workers : v # w => up'[v] = up[v]
    BY <1>1, <2>1 DEF CatalogTypes
  <2> QED BY <1>1, <2>1, <2>2, <2>3, QuietWorkers DEF WorkerInv
<1>10. CASE UNCHANGED Products!vars
  <2>1. UNCHANGED <<at, asks, counted, searched, exported, up, answered, unflushed>>
    BY <1>10 DEF Products!vars
  <2>2. \A v \in Workers, sort \in {"graphql", "search"} : Came(sort, v)' = Came(sort, v)
    BY <2>1 DEF Came, Products!OfWorker
  <2> QED BY <1>1, <2>1, <2>2, QuietWorkers DEF WorkerInv
<1> QED BY <1>3, <1>4, <1>5, <1>6, <1>7, <1>8, <1>9, <1>10, CatalogSteps

LEMMA CatalogAlways == ASSUME CatalogParameters PROVE Products!Spec => []CatalogInv
<1>1. Products!Init => CatalogInv
  BY InitCatalog
<1>2. CatalogInv /\ [Products!Next]_Products!vars => CatalogInv'
  BY NextCatalogTypes, NextColumn, NextWorkers DEF CatalogInv
<1> QED BY <1>1, <1>2, PTL DEF Products!Spec

(***************************************************************************)
(* The variables of Catalog keep their types, the counters up to the       *)
(* number of requests, for any finite set of them and any workers.         *)
(***************************************************************************)
THEOREM CatalogTypesCorrect ==
  ASSUME CatalogParameters
  PROVE  Products!Spec => []Products!TypeOK
<1>1. ASSUME CatalogInv PROVE Products!TypeOK
  <2>1. Products!Many \in Nat /\ \A w \in Workers,
          sort \in {"graphql", "search"} :
            Cardinality(Came(sort, w)) \in Nat
              /\ Cardinality(Came(sort, w)) <= Products!Many
    <3>1. \A w \in Workers,
            sort \in {"graphql", "search"} : Came(sort, w) \subseteq ProductRequests
      BY DEF Came, Products!OfWorker
    <3> QED BY ProductCount, <3>1, Fewer DEF Products!Many
  <2>2. CatalogTypes /\ ColumnInv /\ WorkerInv
    BY <1>1 DEF CatalogInv
  <2>3. \A w \in Workers : counted[w] <= Products!Many /\ searched[w] <= Products!Many
    <3>1. \A w \in Workers :
            /\ counted[w] = Cardinality(Came("graphql", w)) /\ searched[w] \in Nat
            /\ searched[w] <= Cardinality(Came("search", w))
            /\ Cardinality(Came("search", w)) \in Nat
      BY <2>1, <2>2 DEF WorkerInv, CatalogTypes
    <3> QED BY <2>1, <3>1
  <2>4. \A w \in Workers :
          /\ counted[w] \in Nat /\ searched[w] \in Nat /\ exported[w] \in Nat
          /\ answered[w] \in Nat
          /\ exported[w] <= counted[w] /\ answered[w] <= counted[w]
    BY <2>2 DEF WorkerInv, CatalogTypes
  <2>5. \A w \in Workers : exported[w] <= Products!Many /\ answered[w] <= Products!Many
    BY <2>1, <2>3, <2>4
  <2>6. \A r \in ProductRequests : floor[r] \in 0 .. Products!Many
    BY <2>1, <2>2 DEF CatalogTypes, ColumnInv
  <2>7. counted \in [Workers -> 0 .. Products!Many]
          /\ searched \in [Workers -> 0 .. Products!Many]
    BY <2>1, <2>2, <2>3, <2>4 DEF CatalogTypes
  <2>8. exported \in [Workers -> 0 .. Products!Many]
          /\ answered \in [Workers -> 0 .. Products!Many]
    BY <2>1, <2>2, <2>4, <2>5 DEF CatalogTypes
  <2> QED BY <2>2, <2>6, <2>7, <2>8 DEF CatalogTypes, Products!TypeOK, Ask
<1> QED BY <1>1, CatalogAlways, PTL

(***************************************************************************)
(* ViewsAddUp of Catalog, for any finite set of requests, any workers and  *)
(* any limit of the column: views sent by three transports to workers that *)
(* fail, are stopped or are killed leave views_count between those         *)
(* acknowledged and those sent, and no list shows less than was            *)
(* acknowledged before it was asked for.                                   *)
(***************************************************************************)
THEOREM ViewsAlwaysAddUp == ASSUME CatalogParameters PROVE Products!Spec => []ViewsAddUp
<1>1. ASSUME CatalogInv PROVE ViewsAddUp
  <2> DEFINE sent == {r \in ProductRequests :
    Products!IsView(r) /\ asks[r].known /\ at[r] # "idle"}
             a == Cardinality(Products!Acknowledged)
             c == Cardinality(Counting)
             u == Cardinality(Reached)
             s == Cardinality(sent)
  <2>1. /\ Products!Acknowledged \subseteq Counting /\ Reached \subseteq sent
        /\ Counting \subseteq ProductRequests /\ sent \subseteq ProductRequests
    BY DEF Products!Acknowledged, Counting, Reached, KnownView
  <2>2. a <= c /\ u <= s /\ a \in Nat /\ c \in Nat /\ u \in Nat /\ s \in Nat
    BY <2>1, Fewer
  <2>3. c <= views - first /\ views - first <= u /\ views \in Nat /\ first \in Nat
    BY <1>1 DEF CatalogInv, ColumnInv, CatalogTypes
  <2> HIDE DEF a, c, u, s
  <2>4. views - first >= a /\ views - first <= s
    BY <2>2, <2>3
  <2>5. \A r \in ProductRequests :
          ~Products!IsView(r) /\ reply[r] = "ok" => saw[r] >= first + floor[r]
    BY <1>1 DEF CatalogInv, ColumnInv, CatalogTypes
  <2> QED BY ProductCount, <2>4, <2>5 DEF ViewsAddUp, Products!ViewsAddUp, a, s
<1> QED BY <1>1, CatalogAlways, PTL

(***************************************************************************)
(* StoppedWorkersExported of Catalog, for any finite set of requests and   *)
(* any workers: the export of a stopping worker, which goes on serving     *)
(* meanwhile, has what it had answered at the signal, and no worker ever   *)
(* exports a view it was not sent.                                         *)
(***************************************************************************)
THEOREM StoppedWorkersAlwaysExported ==
  ASSUME CatalogParameters
  PROVE  Products!Spec => []StoppedWorkersExported
<1>1. ASSUME CatalogInv PROVE StoppedWorkersExported
  <2>1. \A w \in Workers : exported[w] <= Cardinality(Came("graphql", w))
    BY <1>1 DEF CatalogInv, WorkerInv
  <2>2. \A w \in Workers :
          up[w] = "down" /\ w \notin unflushed => exported[w] >= answered[w]
    BY <1>1 DEF CatalogInv, WorkerInv
  <2> QED BY ProductCount, <2>1, <2>2
             DEF StoppedWorkersExported, Products!StoppedWorkersExported, Came
<1> QED BY <1>1, CatalogAlways, PTL

-----------------------------------------------------------------------------
(***************************************************************************)
(* The files.  A file that a name leads to is dirty or holds one version.  *)
(* An upload that met no other is the only one with its file open, and has *)
(* filled it so far with its own chunks.  A read that met no upload has a  *)
(* file open that is not dirty, and has streamed the start of it.          *)
(***************************************************************************)
FilesParameters ==
  /\ MaxChunks \in Nat \ {0} /\ Paths # {}
  /\ {Disk!Original, Disk!NoFile, Disk!Hole} \cap FileRequests = {}

Chunks == Seq(Disk!Nodes \cup {Disk!Hole})
Job == [kind : Disk!Kinds, path : Paths, size : 1 .. MaxChunks]

PlaceOf(sort) ==
  CASE sort \in Disk!Local -> {"access", "open", "read"}
    [] sort \in Disk!Uploads -> {"dirname", "truncate", "write"}
    [] sort = "delete" -> {"unlink"}
    [] OTHER -> {"fetch"}

FilesTypes ==
  /\ entry \in [Paths -> Disk!Nodes \cup {Disk!NoFile}]
  /\ content \in [Disk!Nodes -> Chunks] /\ \A n \in Disk!Nodes :
       Len(content[n]) <= MaxChunks
  /\ job \in [FileRequests -> Job]
  /\ stage \in [FileRequests -> {"idle", "access", "open", "read", "dirname",
                             "truncate", "write", "unlink", "fetch", "end"}]
  /\ \A r \in FileRequests :
       stage[r] \notin {"idle", "end"} => stage[r] \in PlaceOf(job[r].kind)
  /\ handle \in [FileRequests -> Disk!Nodes \cup {Disk!NoFile}]
  /\ \A r \in FileRequests : stage[r] \in {"read", "write"} => handle[r] \in Disk!Nodes
  /\ done \in [FileRequests -> Chunks] /\ \A r \in FileRequests : Len(done[r]) <= MaxChunks
  /\ \A r \in FileRequests : stage[r] \notin {"read", "write", "end"} => done[r] = <<>>
  /\ status \in [FileRequests -> {0, 200, 400, 404, 500}]
  /\ \A r \in FileRequests : status[r] # 0 => stage[r] = "end"
  /\ dirty \subseteq Disk!Nodes /\ alone \subseteq FileRequests
  /\ met \subseteq FileRequests

Length(w) == IF w = Disk!Original THEN MaxChunks ELSE job[w].size
Version(w) == [i \in 1 .. Length(w) |-> w]
Versions == {Version(w) : w \in {n \in Disk!Nodes : n = Disk!Original \/ stage[n] # "idle"}}

NamesInv == \A p \in Paths :
  entry[p] \in Disk!Nodes \ dirty => content[entry[p]] \in Versions

UploadInv(r) ==
  /\ r \in alone => stage[r] \in {"write", "end"}
  /\ stage[r] = "write" => handle[r] \in dirty
  /\ stage[r] = "write" /\ r \in alone =>
       /\ \A q \in FileRequests : stage[q] = "write" /\ handle[q] = handle[r] => q = r
       /\ content[handle[r]] = [i \in 1 .. Len(done[r]) |-> r]

ReadInv(r) ==
  /\ stage[r] = "read" /\ r \notin met =>
       /\ handle[r] \notin dirty /\ content[handle[r]] \in Versions
       /\ Len(done[r]) <= Len(content[handle[r]])
       /\ \A i \in 1 .. Len(done[r]) : done[r][i] = content[handle[r]][i]
  /\ status[r] = 200 /\ job[r].kind \in Disk!Local /\ r \notin met => done[r] \in Versions

FilesInv ==
  /\ FilesTypes /\ NamesInv
  /\ \A r \in FileRequests : UploadInv(r) /\ ReadInv(r)

LEMMA InitFiles == ASSUME FilesParameters, Disk!Init PROVE FilesInv
<1>1. (CHOOSE p \in Paths : TRUE) \in Paths
  BY DEF FilesParameters
<1>2. 1 \in 1 .. MaxChunks /\ 0 <= MaxChunks /\ MaxChunks \in Nat
        /\ Disk!Original \in Disk!Nodes
      /\ <<>> \in Chunks /\ Len(<<>>) = 0 /\ Disk!Original # Disk!NoFile
  BY DEF FilesParameters, Disk!Nodes, Chunks, Disk!Original, Disk!NoFile
<1>3. /\ stage = [r \in FileRequests |-> "idle"]
      /\ handle = [r \in FileRequests |-> Disk!NoFile]
      /\ done = [r \in FileRequests |-> <<>>] /\ status = [r \in FileRequests |-> 0]
      /\ dirty = {} /\ alone = {} /\ met = {}
      /\ entry \in [Paths -> {Disk!Original, Disk!NoFile}]
  BY DEF Disk!Init
<1> DEFINE v == [i \in 1 .. MaxChunks |-> Disk!Original]
<1>4. v \in Chunks /\ Len(v) = MaxChunks
  BY <1>2 DEF Chunks
<1>5. content = [n \in Disk!Nodes |-> IF n = Disk!Original THEN v ELSE <<>>]
  BY DEF Disk!Init
<1>6. v \in Versions
  BY <1>2 DEF Versions, Version, Length
<1> HIDE DEF v
<1>7. content \in [Disk!Nodes -> Chunks] /\ \A n \in Disk!Nodes :
        Len(content[n]) <= MaxChunks
  BY <1>2, <1>4, <1>5
<1>8. job \in [FileRequests -> Job]
  BY <1>1, <1>2 DEF Disk!Init, Job, Disk!Kinds, Disk!Local
<1>9. FilesTypes
  BY <1>2, <1>3, <1>7, <1>8 DEF FilesTypes
<1>10. NamesInv
  <2>1. \A n \in Disk!Nodes : n # Disk!Original \/ content[n] = v
    BY <1>5
  <2>2. \A p \in Paths : entry[p] = Disk!Original \/ entry[p] = Disk!NoFile
    BY <1>3
  <2>3. Disk!NoFile \notin Disk!Nodes
    BY DEF FilesParameters, Disk!Nodes, Disk!NoFile, Disk!Original
  <2> QED BY <1>2, <1>6, <2>1, <2>2, <2>3 DEF NamesInv
<1>11. \A r \in FileRequests : UploadInv(r) /\ ReadInv(r)
  <2>1. \A r \in FileRequests : stage[r] = "idle" /\ status[r] = 0 /\ r \notin alone
    BY <1>3
  <2>2. ASSUME NEW r \in FileRequests PROVE UploadInv(r)
    BY <2>1 DEF UploadInv
  <2>3. ASSUME NEW r \in FileRequests PROVE ReadInv(r)
    <3>1. stage[r] # "read" /\ status[r] # 200
      BY <2>1
    <3> QED BY <3>1 DEF ReadInv
  <2> QED BY <2>2, <2>3
<1> QED BY <1>9, <1>10, <1>11 DEF FilesInv

(* The steps, by what they do to the variables.                            *)
FileArrives(r) == \E sort \in Disk!Kinds :
  \E phase \in PlaceOf(sort) \ {"read", "write"} : Disk!Asked(r, sort, phase)
FileRefuses(r) == \E sort \in Disk!Kinds, result \in {200, 400, 500} :
                (result = 200 => sort = "put") /\ Disk!Refused(r, sort, result)
FileEnds(r) ==
  \E phase \in {"access", "open", "read", "dirname", "truncate", "write", "unlink",
    "fetch"},
     result \in {200, 404, 500} :
       (result = 200 => phase = "fetch") /\ Disk!AnswerFrom(r, phase, result)
       
LEMMA KindPlaces ==
  /\ \A sort \in Disk!Local :
       sort \in Disk!Kinds /\ PlaceOf(sort) = {"access", "open", "read"}
  /\ \A sort \in Disk!Uploads : sort \in Disk!Kinds /\ sort \notin Disk!Local
                           /\ PlaceOf(sort) = {"dirname", "truncate", "write"}
  /\ PlaceOf("delete") = {"unlink"} /\ "delete" \in Disk!Kinds /\ "delete" \notin Disk!Local
  /\ \A sort \in {"remote", "rawRemote", "cloud"} :
       sort \in Disk!Kinds /\ sort \notin Disk!Local /\ PlaceOf(sort) = {"fetch"}
  /\ \A sort \in Disk!Kinds :
       sort \in Disk!Local \/ sort \in Disk!Uploads
         \/ sort \in {"delete", "remote", "rawRemote", "cloud"}
  /\ \A sort \in Disk!Kinds :
       /\ \A phase \in {"access", "open", "read"} :
            phase \in PlaceOf(sort) <=> sort \in Disk!Local
       /\ \A phase \in {"dirname", "truncate", "write"} :
            phase \in PlaceOf(sort) <=> sort \in Disk!Uploads
BY DEF Disk!Kinds, Disk!Local, Disk!Uploads, PlaceOf

LEMMA FileSteps ==
  ASSUME [Disk!Next]_Disk!vars
  PROVE  \/ \E r \in FileRequests : \/ FileArrives(r) \/ FileRefuses(r) \/ FileEnds(r)
                                    \/ Disk!Access(r) \/ Disk!Dirname(r) \/ Disk!Open(r)
                                    \/ Disk!Read(r)
                                    \/ Disk!Truncate(r) \/ Disk!Write(r)
                                    \/ Disk!Close(r) \/ Disk!Unlink(r)
         \/ UNCHANGED Disk!vars
<1>1. ASSUME NEW r \in FileRequests, NEW sort \in Disk!Kinds,
             NEW phase \in {"access", "fetch", "dirname", "unlink"},
             phase \in PlaceOf(sort), Disk!Asked(r, sort, phase)
      PROVE  FileArrives(r)
  BY <1>1 DEF FileArrives
<1>2. /\ "get" \in Disk!Kinds /\ "raw" \in Disk!Kinds /\ "grpc" \in Disk!Kinds
      /\ "put" \in Disk!Kinds /\ "hidden" \in Disk!Kinds
      /\ "access" \in PlaceOf("get") /\ "access" \in PlaceOf("raw")
      /\ "access" \in PlaceOf("grpc")
      /\ "dirname" \in PlaceOf("put") /\ "dirname" \in PlaceOf("hidden")
      /\ "fetch" \in PlaceOf("remote") /\ "fetch" \in PlaceOf("rawRemote")
      /\ "fetch" \in PlaceOf("cloud") /\ "rawRemote" \in Disk!Kinds
      /\ "unlink" \in PlaceOf("delete")
      /\ "remote" \in Disk!Kinds /\ "cloud" \in Disk!Kinds /\ "delete" \in Disk!Kinds
  BY KindPlaces DEF Disk!Local, Disk!Uploads
<1>3. ASSUME NEW r \in FileRequests,
             Disk!LoadFile(r) \/ Disk!ReadFile(r) \/ Disk!ReadFileGrpc(r)
      PROVE  FileArrives(r)
  BY <1>1, <1>2, <1>3 DEF Disk!LoadFile, Disk!ReadFile, Disk!ReadFileGrpc, Disk!Load
<1>4. ASSUME NEW r \in FileRequests, NEW url, Disk!LoadCPFile(r, url)
      PROVE  FileArrives(r) \/ FileRefuses(r)
  <2>1. CASE Disk!Refused(r, "remote", 400)
    BY <1>2, <2>1 DEF FileRefuses
  <2>2. CASE Disk!Asked(r, "cloud", "fetch") \/ Disk!Asked(r, "remote", "fetch")
    BY <1>1, <1>2, <2>2
  <2> QED BY <1>4, <2>1, <2>2 DEF Disk!LoadCPFile
<1>5. ASSUME NEW r \in FileRequests,
             \/ Disk!LoadGoogleFile(r) \/ Disk!LoadAwsFile(r) \/ Disk!LoadAzureFile(r)
                                     \/ Disk!LoadDigitalOceanFile(r)
      PROVE  FileArrives(r) \/ FileRefuses(r)
  BY <1>4, <1>5
         DEF Disk!LoadGoogleFile, Disk!LoadAwsFile, Disk!LoadAzureFile,
         Disk!LoadDigitalOceanFile
<1>6. ASSUME NEW r \in FileRequests,
             Disk!UploadFile(r) \/ Disk!UploadImage(r) \/ Disk!DeleteFile(r)
      PROVE  FileArrives(r) \/ FileRefuses(r)
  <2>1. CASE Disk!Refused(r, "put", 200) \/ Disk!Refused(r, "hidden", 400)
          \/ Disk!Refused(r, "delete", 500)
    BY <1>2, <2>1 DEF FileRefuses
  <2>2. CASE Disk!Asked(r, "put", "dirname") \/ Disk!Asked(r, "hidden", "dirname")
          \/ Disk!Asked(r, "delete", "unlink")
    BY <1>1, <1>2, <2>2
  <2> QED BY <1>6, <2>1, <2>2 DEF Disk!UploadFile, Disk!UploadImage, Disk!DeleteFile
<1>7. ASSUME NEW r \in FileRequests, Disk!Fetch(r) PROVE FileEnds(r)
  BY <1>7 DEF Disk!Fetch, Disk!Failed, FileEnds
<1>8. ASSUME NEW r \in FileRequests,
             Disk!UploadFails(r) \/ Disk!UnlinkFails(r) \/ Disk!OpenFails(r)
               \/ Disk!ReadFails(r) \/ Disk!AccessFails(r)
      PROVE  FileEnds(r)
  BY <1>8 DEF Disk!UploadFails, Disk!UnlinkFails, Disk!OpenFails, Disk!ReadFails,
     Disk!AccessFails, Disk!Failed, FileEnds
<1> QED BY <1>3, <1>5, <1>6, <1>7, <1>8 DEF Disk!Next, Disk!GetFile, Disk!WriteFile

(* The answer of a request, as far as the invariants tell it apart.        *)
FileAnswers(r, result) ==
  /\ stage' = [stage EXCEPT ![r] = "end"]
  /\ status' = [status EXCEPT ![r] = result]
  /\ handle' = [handle EXCEPT ![r] = Disk!NoFile]

LEMMA FileAnswerTypes ==
  ASSUME FilesTypes, NEW r \in FileRequests, NEW result \in {0, 200, 400, 404, 500},
         FileAnswers(r, result)
  PROVE  /\ stage' \in [FileRequests -> {"idle", "access", "open", "read", "dirname",
                                     "truncate", "write", "unlink", "fetch", "end"}]
         /\ handle' \in [FileRequests -> Disk!Nodes \cup {Disk!NoFile}]
         /\ status' \in [FileRequests -> {0, 200, 400, 404, 500}]
         /\ stage'[r] = "end"
         /\ \A q \in FileRequests :
              q # r => stage'[q] = stage[q] /\ handle'[q] = handle[q]
                /\ status'[q] = status[q]
BY DEF FilesTypes, FileAnswers

LEMMA FileEndTypes ==
  ASSUME FilesTypes, NEW r \in FileRequests, NEW result \in {0, 200, 400, 404, 500},
         FileAnswers(r, result),
         entry' \in [Paths -> Disk!Nodes \cup {Disk!NoFile}],
           job' \in [FileRequests -> Job],
         \A q \in FileRequests : q # r => job'[q] = job[q],
         UNCHANGED <<content, done, alone, met>>, dirty' \subseteq Disk!Nodes
  PROVE  FilesTypes'
<1>1. /\ stage' \in [FileRequests -> {"idle", "access", "open", "read", "dirname",
                                  "truncate", "write", "unlink", "fetch", "end"}]
      /\ handle' \in [FileRequests -> Disk!Nodes \cup {Disk!NoFile}]
      /\ status' \in [FileRequests -> {0, 200, 400, 404, 500}]
      /\ stage'[r] = "end"
      /\ \A q \in FileRequests :
           q # r => stage'[q] = stage[q] /\ handle'[q] = handle[q] /\ status'[q] = status[q]
  BY FileAnswerTypes
<1>2. \A q \in FileRequests :
        /\ stage'[q] \notin {"idle", "end"} => stage'[q] \in PlaceOf(job'[q].kind)
        /\ stage'[q] \in {"read", "write"} => handle'[q] \in Disk!Nodes
        /\ stage'[q] \notin {"read", "write", "end"} => done[q] = <<>>
        /\ status'[q] # 0 => stage'[q] = "end"
  BY <1>1 DEF FilesTypes
<1> QED BY <1>1, <1>2 DEF FilesTypes

LEMMA NextFilesTypes ==
  ASSUME FilesParameters, FilesInv, [Disk!Next]_Disk!vars
  PROVE  FilesTypes'
<1>1. FilesTypes
  BY DEF FilesInv
<1>2. ASSUME NEW r \in FileRequests, FileArrives(r) PROVE FilesTypes'
  <2>1. PICK sort \in Disk!Kinds : \E phase \in PlaceOf(sort) \ {"read", "write"} :
          Disk!Asked(r, sort, phase)
    BY <1>2 DEF FileArrives
  <2>11. PICK phase \in PlaceOf(sort) \ {"read", "write"} : Disk!Asked(r, sort, phase)
    BY <2>1
  <2>2. PICK p \in Paths, n \in IF sort \in Disk!Uploads THEN 1 .. MaxChunks ELSE {1} :
          job' = [job EXCEPT ![r] = [kind |-> sort, path |-> p, size |-> n]]
    BY <2>11 DEF Disk!Asked
  <2> DEFINE new == [kind |-> sort, path |-> p, size |-> n]
  <2>3. new \in Job /\ new.kind = sort
    BY <2>2 DEF Job, FilesParameters
  <2>4. job' = [job EXCEPT ![r] = new]
    BY <2>2
  <2> HIDE DEF new
  <2>5. /\ stage[r] = "idle" /\ stage' = [stage EXCEPT ![r] = phase]
        /\ UNCHANGED <<entry, content, handle, done, status, dirty, alone, met>>
    BY <2>11 DEF Disk!Asked, Disk!Goto, Disk!disk, Disk!history
  <2>6. phase \in {"access", "open", "dirname", "truncate", "unlink", "fetch"}
    BY <2>11, KindPlaces
  <2>7. /\ job' \in [FileRequests -> Job] /\ job'[r].kind = sort /\ stage'[r] = phase
        /\ \A q \in FileRequests : q # r => job'[q] = job[q] /\ stage'[q] = stage[q]
    BY <1>1, <2>3, <2>4, <2>5 DEF FilesTypes
  <2>8. status[r] = 0 /\ done[r] = <<>>
    BY <1>1, <2>5 DEF FilesTypes
  <2>9. \A q \in FileRequests :
          stage'[q] \notin {"idle", "end"} => stage'[q] \in PlaceOf(job'[q].kind)
    BY <1>1, <2>11, <2>7 DEF FilesTypes
  <2>10. stage' \in [FileRequests -> {"idle", "access", "open", "read", "dirname",
                                  "truncate", "write", "unlink", "fetch", "end"}]
    BY <1>1, <2>5, <2>6 DEF FilesTypes
  <2> QED BY <1>1, <2>5, <2>6, <2>7, <2>8, <2>9, <2>10 DEF FilesTypes
<1>3. ASSUME NEW r \in FileRequests, FileRefuses(r) PROVE FilesTypes'
  <2>1. PICK sort \in Disk!Kinds, result \in {200, 400, 500} : Disk!Refused(r, sort, result)
    BY <1>3 DEF FileRefuses
  <2>2. [job[r] EXCEPT !.kind = sort] \in Job
    <3>1. job[r] \in Job
      BY <1>1 DEF FilesTypes
    <3> QED BY <3>1 DEF Job
  <2>3. job' = [job EXCEPT ![r] = [job[r] EXCEPT !.kind = sort]]
    BY <2>1 DEF Disk!Refused
  <2>4. job' \in [FileRequests -> Job] /\ \A q \in FileRequests : q # r => job'[q] = job[q]
    BY <1>1, <2>2, <2>3 DEF FilesTypes
  <2>5. FileAnswers(r, result) /\ UNCHANGED <<entry, content, done, dirty, alone, met>>
    BY <2>1 DEF Disk!Refused, Disk!Answer, FileAnswers, Disk!Goto, Disk!disk, Disk!history
  <2>6. entry' \in [Paths -> Disk!Nodes \cup {Disk!NoFile}] /\ dirty' \subseteq Disk!Nodes
    BY <1>1, <2>5 DEF FilesTypes
  <2> QED BY <1>1, <2>4, <2>5, <2>6, FileEndTypes
<1>4. ASSUME NEW r \in FileRequests, FileEnds(r) PROVE FilesTypes'
  <2>1. PICK result \in {200, 404, 500} :
          FileAnswers(r, result)
            /\ UNCHANGED <<entry, content, job, done, dirty, alone, met>>
    BY <1>4 DEF FileEnds, Disk!AnswerFrom, Disk!Answer, FileAnswers, Disk!Goto, Disk!disk,
       Disk!history
  <2>2. /\ entry' \in [Paths -> Disk!Nodes \cup {Disk!NoFile}]
        /\ dirty' \subseteq Disk!Nodes
        /\ job' \in [FileRequests -> Job] /\ \A q \in FileRequests : job'[q] = job[q]
    BY <1>1, <2>1 DEF FilesTypes
  <2> QED BY <1>1, <2>1, <2>2, FileEndTypes
<1>5. ASSUME NEW r \in FileRequests, Disk!Access(r) \/ Disk!Dirname(r) \/ Disk!Open(r)
      PROVE  FilesTypes'
  <2>1. /\ UNCHANGED <<entry, content, job, done, status, dirty, alone>>
        /\ met' \subseteq FileRequests
    BY <1>1, <1>5
       DEF Disk!Access, Disk!Dirname, Disk!Open, Disk!disk, Disk!history, FilesTypes
  <2>2. \E to \in {"open", "truncate", "read"}, n \in Disk!Nodes \cup {Disk!NoFile} :
          /\ to = "truncate" <=> stage[r] = "dirname"
          /\ to = "read" => n \in Disk!Nodes
          /\ stage[r] \in {"access", "dirname", "open"}
          /\ stage' = [stage EXCEPT ![r] = to] /\ handle' = [handle EXCEPT ![r] = n]
    <3>1. CASE Disk!Access(r)
      BY <1>1, <3>1 DEF Disk!Access, Disk!Goto, FilesTypes
    <3>2. CASE Disk!Dirname(r)
      BY <1>1, <3>2 DEF Disk!Dirname, Disk!Goto, FilesTypes
    <3>3. CASE Disk!Open(r)
      <4>1. job[r].path \in Paths
        BY <1>1 DEF FilesTypes, Job
      <4>2. entry[job[r].path] \in Disk!Nodes
        BY <1>1, <3>3, <4>1 DEF Disk!Open, FilesTypes
      <4> QED BY <3>3, <4>2 DEF Disk!Open, Disk!Goto
    <3> QED BY <1>5, <3>1, <3>2, <3>3
  <2>3. PICK to \in {"open", "truncate", "read"}, n \in Disk!Nodes \cup {Disk!NoFile} :
          /\ to = "truncate" <=> stage[r] = "dirname"
          /\ to = "read" => n \in Disk!Nodes
          /\ stage[r] \in {"access", "dirname", "open"}
          /\ stage' = [stage EXCEPT ![r] = to] /\ handle' = [handle EXCEPT ![r] = n]
    BY <2>2
  <2>4. /\ stage' \in [FileRequests -> {"idle", "access", "open", "read", "dirname",
                                    "truncate", "write", "unlink", "fetch", "end"}]
        /\ handle' \in [FileRequests -> Disk!Nodes \cup {Disk!NoFile}]
    BY <1>1, <2>3 DEF FilesTypes
  <2>5. /\ \A q \in FileRequests : q # r => stage'[q] = stage[q] /\ handle'[q] = handle[q]
        /\ stage'[r] = to /\ handle'[r] = n
    BY <1>1, <2>3 DEF FilesTypes
  <2>6. to \in PlaceOf(job[r].kind) /\ status[r] = 0 /\ done[r] = <<>>
    <3>1. stage[r] \in PlaceOf(job[r].kind) /\ job[r].kind \in Disk!Kinds
      BY <1>1, <2>3 DEF FilesTypes, Job
    <3>2. status[r] = 0 /\ done[r] = <<>>
      BY <1>1, <2>3 DEF FilesTypes
    <3> QED BY <2>3, <3>1, <3>2, KindPlaces
  <2>7. \A q \in FileRequests :
          stage'[q] \notin {"idle", "end"} => stage'[q] \in PlaceOf(job[q].kind)
    BY <1>1, <2>5, <2>6 DEF FilesTypes
  <2>8. \A q \in FileRequests :
          /\ stage'[q] \in {"read", "write"} => handle'[q] \in Disk!Nodes
          /\ stage'[q] \notin {"read", "write", "end"} => done[q] = <<>>
          /\ status[q] # 0 => stage'[q] = "end"
    BY <1>1, <2>3, <2>5, <2>6 DEF FilesTypes
  <2> QED BY <1>1, <2>1, <2>4, <2>7, <2>8 DEF FilesTypes
<1>6. ASSUME NEW r \in FileRequests, Disk!Read(r) PROVE FilesTypes'
  <2> DEFINE text == content[handle[r]]
  <2>1. stage[r] = "read" /\ handle[r] \in Disk!Nodes
    BY <1>1, <1>6 DEF Disk!Read, FilesTypes
  <2>2. text \in Chunks /\ Len(text) <= MaxChunks /\ done[r] \in Chunks
    BY <1>1, <2>1 DEF FilesTypes
  <2>3. CASE Len(done[r]) < Len(text)
    <3>1. /\ done' = [done EXCEPT ![r] = Append(done[r], text[Len(done[r]) + 1])]
          /\ UNCHANGED <<entry, content, stage, job, handle, status, dirty, alone, met>>
      BY <1>6, <2>3 DEF Disk!Read, Disk!disk, Disk!history
    <3> DEFINE new == Append(done[r], text[Len(done[r]) + 1])
    <3>2. new \in Chunks /\ Len(new) <= MaxChunks
      BY <2>2, <2>3, FilesParameters DEF Chunks, FilesParameters
    <3> HIDE DEF new
    <3>3. done' \in [FileRequests -> Chunks] /\ done'[r] = new /\ \A q \in FileRequests :
            q # r => done'[q] = done[q]
      BY <1>1, <3>1, <3>2 DEF FilesTypes, new
    <3> QED BY <1>1, <2>1, <3>1, <3>2, <3>3 DEF FilesTypes
  <2>4. CASE ~(Len(done[r]) < Len(text))
    <3>1. FileAnswers(r, 200) /\ UNCHANGED <<entry, content, job, done, dirty, alone, met>>
      BY <1>6, <2>4
         DEF Disk!Read, Disk!Answer, FileAnswers, Disk!Goto, Disk!disk, Disk!history
    <3> QED BY <1>1, <3>1, FileEndTypes DEF FilesTypes
  <2> QED BY <2>3, <2>4
<1>7. ASSUME NEW r \in FileRequests, Disk!Truncate(r) PROVE FilesTypes'
  <2> DEFINE n == IF Disk!Target(r) = Disk!NoFile THEN r ELSE Disk!Target(r)
  <2>1. /\ stage[r] = "truncate" /\ content' = [content EXCEPT ![n] = <<>>]
        /\ entry' = IF job[r].kind = "hidden" THEN entry
                    ELSE [entry EXCEPT ![job[r].path] = n]
        /\ handle' = [handle EXCEPT ![r] = n] /\ stage' = [stage EXCEPT ![r] = "write"]
        /\ dirty' = dirty \cup {n}
        /\ alone' = IF Disk!Writers(n) = {} THEN alone \cup {r} ELSE alone \ Disk!Writers(n)
        /\ met' = met \cup Disk!Readers(n) /\ UNCHANGED <<job, done, status>>
    BY <1>7 DEF Disk!Truncate, Disk!Emptied, Disk!Goto
  <2>2. n \in Disk!Nodes /\ job[r].path \in Paths /\ job[r].kind \in Disk!Kinds
    BY <1>1 DEF Disk!Target, FilesTypes, Disk!Nodes, Job
  <2>3. alone' \subseteq FileRequests /\ met' \subseteq FileRequests
    BY <1>1, <2>1 DEF FilesTypes, Disk!Readers
  <2> HIDE DEF n
  <2>4. <<>> \in Chunks /\ Len(<<>>) <= MaxChunks
    BY DEF Chunks, FilesParameters
  <2>5. content' \in [Disk!Nodes -> Chunks] /\ \A m \in Disk!Nodes :
          Len(content'[m]) <= MaxChunks
    BY <1>1, <2>1, <2>2, <2>4 DEF FilesTypes
  <2>6. entry' \in [Paths -> Disk!Nodes \cup {Disk!NoFile}] /\ dirty' \subseteq Disk!Nodes
    BY <1>1, <2>1, <2>2 DEF FilesTypes
  <2>7. /\ stage' \in [FileRequests -> {"idle", "access", "open", "read", "dirname",
                                    "truncate", "write", "unlink", "fetch", "end"}]
        /\ handle' \in [FileRequests -> Disk!Nodes \cup {Disk!NoFile}]
        /\ handle'[r] \in Disk!Nodes /\ stage'[r] = "write"
        /\ \A q \in FileRequests : q # r => stage'[q] = stage[q] /\ handle'[q] = handle[q]
    BY <1>1, <2>1, <2>2 DEF FilesTypes
  <2>8. stage'[r] \in PlaceOf(job[r].kind) /\ status[r] = 0
    <3>1. stage[r] \in PlaceOf(job[r].kind)
      BY <1>1, <2>1 DEF FilesTypes
    <3> QED BY <1>1, <2>1, <2>2, <2>7, <3>1, KindPlaces DEF FilesTypes
  <2> QED BY <1>1, <2>1, <2>3, <2>5, <2>6, <2>7, <2>8 DEF FilesTypes
<1>8. ASSUME NEW r \in FileRequests, Disk!Write(r) PROVE FilesTypes'
  <2> DEFINE new == Append(done[r], r)
             text == content[handle[r]]
             filled == Disk!Put(text, Len(new), r)
  <2>1. /\ stage[r] = "write" /\ Len(done[r]) < job[r].size
        /\ done' = [done EXCEPT ![r] = new]
        /\ content' = [content EXCEPT ![handle[r]] = Disk!Put(text, Len(done'[r]), r)]
        /\ UNCHANGED <<entry, stage, job, handle, status, dirty, alone, met>>
    BY <1>8 DEF Disk!Write, Disk!history
  <2>2. /\ handle[r] \in Disk!Nodes /\ text \in Chunks /\ Len(text) <= MaxChunks
        /\ done[r] \in Chunks /\ job[r].size \in 1 .. MaxChunks
    BY <1>1, <2>1 DEF FilesTypes, Job
  <2>3. /\ new \in Chunks /\ Len(new) = Len(done[r]) + 1 /\ Len(new) <= MaxChunks
        /\ Len(new) \in Nat
        /\ r \in Disk!Nodes
    BY <2>1, <2>2 DEF Chunks, Disk!Nodes, FilesParameters
  <2>4. done' \in [FileRequests -> Chunks] /\ done'[r] = new /\ \A q \in FileRequests :
          q # r => done'[q] = done[q]
    BY <1>1, <2>1, <2>3 DEF FilesTypes
  <2> HIDE DEF new, text
  <2>5. filled \in Chunks /\ Len(filled) <= MaxChunks
    <3> DEFINE last == IF Len(text) > Len(new) THEN Len(text) ELSE Len(new)
    <3>1. last \in Nat /\ last <= MaxChunks
      BY <2>2, <2>3 DEF Chunks, FilesParameters
    <3>2. \A i \in 1 .. last :
            (IF i = Len(new) THEN r
             ELSE IF i > Len(text) THEN Disk!Hole ELSE text[i])
               \in Disk!Nodes \cup {Disk!Hole}
      BY <2>2, <2>3, <3>1 DEF Chunks
    <3>3. filled = [i \in 1 .. last |->
                      IF i = Len(new) THEN r
                      ELSE IF i > Len(text) THEN Disk!Hole ELSE text[i]]
      BY DEF Disk!Put
    <3> HIDE DEF last
    <3>4. filled \in [1 .. last -> Disk!Nodes \cup {Disk!Hole}]
      BY <3>2, <3>3
    <3> HIDE DEF filled
    <3> QED BY <3>1, <3>4 DEF Chunks
  <2>6. content' = [content EXCEPT ![handle[r]] = filled]
    BY <2>1, <2>4
  <2> HIDE DEF filled
  <2>7. content' \in [Disk!Nodes -> Chunks] /\ \A m \in Disk!Nodes :
          Len(content'[m]) <= MaxChunks
    BY <1>1, <2>2, <2>5, <2>6 DEF FilesTypes
  <2> QED BY <1>1, <2>1, <2>3, <2>4, <2>7 DEF FilesTypes
<1>9. ASSUME NEW r \in FileRequests, Disk!Close(r) \/ Disk!Unlink(r) PROVE FilesTypes'
  <2>1. /\ FileAnswers(r, 200) /\ UNCHANGED <<content, job, done, alone, met>>
        /\ dirty' \subseteq Disk!Nodes
        /\ entry' \in [Paths -> Disk!Nodes \cup {Disk!NoFile}]
    BY <1>1, <1>9 DEF Disk!Close, Disk!Unlink, Disk!Answer, FileAnswers, Disk!Goto,
       Disk!disk, Disk!history, FilesTypes
  <2> QED BY <1>1, <2>1, FileEndTypes DEF FilesTypes
<1>10. CASE UNCHANGED Disk!vars
  BY <1>1, <1>10 DEF Disk!vars, FilesTypes
<1> QED BY <1>2, <1>3, <1>4, <1>5, <1>6, <1>7, <1>8, <1>9, <1>10, FileSteps

(* A version stays one: who has written it is past its arrival.            *)
LEMMA VersionsStay ==
  ASSUME FilesParameters, FilesTypes, [Disk!Next]_Disk!vars
  PROVE  Versions \subseteq Versions'
<1>1. ASSUME NEW w \in FileRequests, stage[w] # "idle"
      PROVE  stage'[w] # "idle" /\ job'[w] = job[w]
  <2>1. DOMAIN stage = FileRequests /\ DOMAIN job = FileRequests
    BY DEF FilesTypes
  <2>2. ASSUME NEW r \in FileRequests, FileArrives(r) \/ FileRefuses(r)
        PROVE  stage[r] = "idle" /\ \A q \in FileRequests :
                 q # r => stage'[q] = stage[q] /\ job'[q] = job[q]
    BY <2>1, <2>2
       DEF FileArrives, FileRefuses, Disk!Asked, Disk!Refused, Disk!Answer, Disk!Goto
  <2>3. ASSUME NEW r \in FileRequests,
               \/ FileEnds(r) \/ Disk!Access(r) \/ Disk!Dirname(r) \/ Disk!Open(r)
               \/ Disk!Read(r)
                                       \/ Disk!Truncate(r) \/ Disk!Write(r)
                                       \/ Disk!Close(r) \/ Disk!Unlink(r)
        PROVE  job' = job /\ \/ stage' = stage
                             \/ \E phase \in {"open", "truncate", "read", "write", "end"} :
                                  stage' = [stage EXCEPT ![r] = phase]
    BY <2>3 DEF FileEnds, Disk!AnswerFrom, Disk!Access, Disk!Dirname, Disk!Open, Disk!Read,
       Disk!Truncate, Disk!Write, Disk!Close, Disk!Unlink, Disk!Answer, Disk!Goto
  <2>4. ASSUME UNCHANGED Disk!vars PROVE stage' = stage /\ job' = job
    BY <2>4 DEF Disk!vars
  <2>5. CASE \E r \in FileRequests : FileArrives(r) \/ FileRefuses(r)
    BY <1>1, <2>2, <2>5
  <2>6. CASE \E r \in FileRequests :
          \/ FileEnds(r) \/ Disk!Access(r) \/ Disk!Dirname(r) \/ Disk!Open(r)
          \/ Disk!Read(r)
          \/ Disk!Truncate(r) \/ Disk!Write(r) \/ Disk!Close(r) \/ Disk!Unlink(r)
    BY <1>1, <2>1, <2>3, <2>6
  <2> QED BY <1>1, <2>4, <2>5, <2>6, FileSteps
<1>2. ASSUME NEW w \in Disk!Nodes, w = Disk!Original \/ stage[w] # "idle"
      PROVE  /\ w = Disk!Original \/ stage'[w] # "idle"
             /\ Version(w) = Version(w)'
  BY <1>1, <1>2 DEF Disk!Nodes, Version, Length
<1> QED BY <1>2 DEF Versions

(* Steps that touch no file that is open: an answer, or a step before the  *)
(* file is opened.                                                         *)
LEMMA AwayFromFiles ==
  ASSUME FilesInv, Versions \subseteq Versions', NEW r \in FileRequests,
         UNCHANGED <<content, dirty, alone, met, done>>,
         \A p \in Paths : entry'[p] = entry[p] \/ entry'[p] = Disk!NoFile,
         \A q \in FileRequests : q # r => /\ stage'[q] = stage[q] /\ handle'[q] = handle[q]
                                          /\ job'[q] = job[q] /\ status'[q] = status[q],
         stage'[r] \notin {"read", "write"}, r \in alone => stage'[r] = "end",
         status'[r] = 200 => job'[r].kind \notin Disk!Local,
         Disk!NoFile \notin Disk!Nodes
  PROVE  FilesTypes' => FilesInv'
<1>1. NamesInv'
  BY DEF FilesInv, NamesInv
<1>2. ASSUME NEW q \in FileRequests PROVE UploadInv(q)'
  <2>1. UploadInv(q)
    BY DEF FilesInv
  <2>2. CASE q = r
    BY <2>2 DEF UploadInv
  <2>3. CASE q # r
    BY <2>1, <2>3 DEF UploadInv
  <2> QED BY <2>2, <2>3
<1>3. ASSUME NEW q \in FileRequests PROVE ReadInv(q)'
  <2>1. ReadInv(q)
    BY DEF FilesInv
  <2>2. CASE q = r
    BY <2>2 DEF ReadInv
  <2>3. CASE q # r
    BY <2>1, <2>3 DEF ReadInv
  <2> QED BY <2>2, <2>3
<1> QED BY <1>1, <1>2, <1>3 DEF FilesInv

LEMMA AwaySteps ==
  ASSUME FilesParameters, FilesInv, FilesTypes', Versions \subseteq Versions',
         NEW r \in FileRequests,
         FileArrives(r) \/ FileRefuses(r) \/ FileEnds(r) \/ Disk!Access(r)
           \/ Disk!Dirname(r) \/ Disk!Unlink(r)
  PROVE  FilesInv'
<1>1. FilesTypes /\ UploadInv(r) /\ Disk!NoFile \notin Disk!Nodes
  BY DEF FilesInv, FilesParameters, Disk!Nodes, Disk!NoFile, Disk!Original
<1>2. /\ DOMAIN stage = FileRequests /\ DOMAIN job = FileRequests
      /\ DOMAIN handle = FileRequests
      /\ DOMAIN status = FileRequests /\ DOMAIN entry = Paths
  BY <1>1 DEF FilesTypes
<1>3. stage[r] # "end" => status[r] = 0
  BY <1>1 DEF FilesTypes
<1>4. CASE FileArrives(r)
  <2>1. PICK sort \in Disk!Kinds : \E phase \in PlaceOf(sort) \ {"read", "write"} :
          Disk!Asked(r, sort, phase)
    BY <1>4 DEF FileArrives
  <2>2. PICK phase \in PlaceOf(sort) \ {"read", "write"} : Disk!Asked(r, sort, phase)
    BY <2>1
  <2>3. /\ stage[r] = "idle" /\ stage' = [stage EXCEPT ![r] = phase]
        /\ UNCHANGED <<entry, content, handle, done, status, dirty, alone, met>>
        /\ \A q \in FileRequests : q # r => job'[q] = job[q]
    BY <1>2, <2>2 DEF Disk!Asked, Disk!Goto, Disk!disk, Disk!history
  <2>4. r \notin alone /\ status'[r] = 0
    BY <1>1, <1>3, <2>3 DEF UploadInv
  <2> QED BY <1>1, <1>2, <2>3, <2>4, AwayFromFiles
<1>5. CASE FileRefuses(r)
  <2>1. PICK sort \in Disk!Kinds,
          result \in {200, 400, 500} :
            (result = 200 => sort = "put") /\ Disk!Refused(r, sort, result)
    BY <1>5 DEF FileRefuses
  <2>2. /\ stage' = [stage EXCEPT ![r] = "end"] /\ status' = [status EXCEPT ![r] = result]
        /\ handle' = [handle EXCEPT ![r] = Disk!NoFile]
        /\ job' = [job EXCEPT ![r].kind = sort]
        /\ UNCHANGED <<entry, content, done, dirty, alone, met>>
    BY <2>1 DEF Disk!Refused, Disk!Answer, Disk!Goto, Disk!disk, Disk!history
  <2>3. job'[r].kind = sort
    <3>1. job[r] \in Job
      BY <1>1 DEF FilesTypes
    <3>2. job'[r] = [job[r] EXCEPT !.kind = sort]
      BY <1>2, <2>2
    <3> QED BY <3>1, <3>2 DEF Job
  <2>4. result = 200 => sort \notin Disk!Local
    BY <2>1 DEF Disk!Local
  <2> QED BY <1>1, <1>2, <2>2, <2>3, <2>4, AwayFromFiles
<1>6. CASE FileEnds(r)
  <2>1. PICK phase \in {"access", "open", "read", "dirname", "truncate", "write",
                       "unlink", "fetch"},
             result \in {200, 404, 500} :
               (result = 200 => phase = "fetch") /\ Disk!AnswerFrom(r, phase, result)
    BY <1>6 DEF FileEnds
  <2>2. /\ stage[r] = phase /\ stage' = [stage EXCEPT ![r] = "end"]
        /\ status' = [status EXCEPT ![r] = result]
        /\ handle' = [handle EXCEPT ![r] = Disk!NoFile]
        /\ UNCHANGED <<entry, content, job, done, dirty, alone, met>>
    BY <2>1 DEF Disk!AnswerFrom, Disk!Answer, Disk!Goto, Disk!disk, Disk!history
  <2>3. phase \in PlaceOf(job[r].kind) /\ job[r].kind \in Disk!Kinds
    <3>1. job[r] \in Job
      BY <1>1 DEF FilesTypes
    <3>2. stage[r] \in PlaceOf(job[r].kind)
      <4>1. stage[r] \notin {"idle", "end"}
        BY <2>1, <2>2
      <4> QED BY <1>1, <4>1 DEF FilesTypes
    <3> QED BY <2>2, <3>1, <3>2 DEF Job
  <2>4. result = 200 => job[r].kind \notin Disk!Local
    BY <2>1, <2>3, KindPlaces
  <2> QED BY <1>1, <1>2, <2>2, <2>4, AwayFromFiles
<1>7. CASE Disk!Access(r) \/ Disk!Dirname(r)
  <2>1. /\ stage[r] \in {"access", "dirname"}
        /\ \E phase \in {"open", "truncate"} : stage' = [stage EXCEPT ![r] = phase]
        /\ UNCHANGED <<entry, content, job, handle, done, status, dirty, alone, met>>
    BY <1>7 DEF Disk!Access, Disk!Dirname, Disk!Goto, Disk!disk, Disk!history
  <2>2. r \notin alone /\ status'[r] = 0
    BY <1>1, <1>3, <2>1 DEF UploadInv
  <2> QED BY <1>1, <1>2, <2>1, <2>2, AwayFromFiles
<1>8. CASE Disk!Unlink(r)
  <2>1. /\ stage[r] = "unlink" /\ entry' = [entry EXCEPT ![job[r].path] = Disk!NoFile]
        /\ stage' = [stage EXCEPT ![r] = "end"] /\ status' = [status EXCEPT ![r] = 200]
        /\ handle' = [handle EXCEPT ![r] = Disk!NoFile]
        /\ UNCHANGED <<content, job, done, dirty, alone, met>>
    BY <1>8 DEF Disk!Unlink, Disk!Answer, Disk!Goto, Disk!history
  <2>2. "unlink" \in PlaceOf(job[r].kind) /\ job[r].kind \in Disk!Kinds
    <3>1. job[r] \in Job
      BY <1>1 DEF FilesTypes
    <3>2. stage[r] \in PlaceOf(job[r].kind)
      BY <1>1, <2>1 DEF FilesTypes
    <3> QED BY <2>1, <3>1, <3>2 DEF Job
  <2>3. job[r].kind \notin Disk!Local
    BY <2>2, KindPlaces
  <2>4. \A p \in Paths : entry'[p] = entry[p] \/ entry'[p] = Disk!NoFile
    BY <1>2, <2>1
  <2> QED BY <1>1, <1>2, <2>1, <2>3, <2>4, AwayFromFiles
<1> QED BY <1>4, <1>5, <1>6, <1>7, <1>8

(* A read opens a file, which is dirty and noted, or is a version; or it   *)
(* streams one more chunk of the version that it has open, or all of it.   *)
LEMMA ReadSteps ==
  ASSUME FilesParameters, FilesInv, FilesTypes', Versions \subseteq Versions',
         NEW r \in FileRequests,
         Disk!Open(r) \/ Disk!Read(r)
  PROVE  FilesInv'
<1>1. FilesTypes /\ NamesInv /\ UploadInv(r) /\ ReadInv(r) /\ Disk!NoFile \notin Disk!Nodes
  BY DEF FilesInv, FilesParameters, Disk!Nodes, Disk!NoFile, Disk!Original
<1>2. /\ DOMAIN stage = FileRequests /\ DOMAIN handle = FileRequests
      /\ DOMAIN done = FileRequests
      /\ DOMAIN status = FileRequests
  BY <1>1 DEF FilesTypes
<1>3. UNCHANGED <<entry, content, job, dirty, alone>>
  BY DEF Disk!Open, Disk!Read, Disk!disk, Disk!history
<1>4. NamesInv'
  BY <1>1, <1>3 DEF NamesInv
<1>5. stage[r] \in {"open", "read"} /\ r \notin alone
  BY <1>1 DEF Disk!Open, Disk!Read, UploadInv
<1>6. /\ stage'[r] \in {"read", "end"} /\ met \subseteq met'
      /\ \A q \in FileRequests :
           q # r => /\ stage'[q] = stage[q] /\ handle'[q] = handle[q] /\ done'[q] = done[q]
                                          /\ status'[q] = status[q]
  BY <1>2, <1>5 DEF Disk!Open, Disk!Read, Disk!Answer, Disk!Goto, Disk!history
<1>7. ASSUME NEW q \in FileRequests PROVE UploadInv(q)'
  <2>1. UploadInv(q)
    BY DEF FilesInv
  <2>2. CASE q = r
    BY <1>3, <1>5, <1>6, <2>2 DEF UploadInv
  <2>3. CASE q # r
    BY <1>3, <1>6, <2>1, <2>3 DEF UploadInv
  <2> QED BY <2>2, <2>3
<1>8. ASSUME NEW q \in FileRequests, q # r PROVE ReadInv(q)'
  <2>1. ReadInv(q)
    BY DEF FilesInv
  <2> QED BY <1>3, <1>6, <1>8, <2>1 DEF ReadInv
<1>9. ReadInv(r)'
  <2>1. CASE Disk!Open(r)
    <3> DEFINE n == entry[job[r].path]
    <3>1. job[r].path \in Paths /\ n \in Disk!Nodes
      <4>1. job[r].path \in Paths
        BY <1>1 DEF FilesTypes, Job
      <4> QED BY <1>1, <2>1, <4>1 DEF Disk!Open, FilesTypes
    <3>2. n \in dirty \/ content[n] \in Versions
      BY <1>1, <3>1 DEF NamesInv
    <3>3. handle'[r] = n /\ (n \in dirty => r \in met') /\ done' = done
            /\ status' = status /\ stage[r] = "open"
      BY <1>2, <2>1 DEF Disk!Open
    <3> HIDE DEF n
    <3>4. done[r] = <<>> /\ status[r] = 0 /\ content[n] \in Chunks
      BY <1>1, <3>1, <3>3 DEF FilesTypes
    <3>5. Len(done[r]) = 0 /\ 1 .. Len(done[r]) = {} /\ 0 <= Len(content[n])
      BY <3>4 DEF Chunks
    <3> QED BY <1>3, <3>2, <3>3, <3>4, <3>5 DEF ReadInv
  <2>2. CASE Disk!Read(r)
    <3> DEFINE text == content[handle[r]]
    <3>1. stage[r] = "read" /\ met' = met /\ handle[r] \in Disk!Nodes /\ status[r] = 0
      BY <1>1, <2>2 DEF Disk!Read, Disk!history, FilesTypes
    <3>2. text \in Chunks /\ done[r] \in Chunks
      BY <1>1, <3>1 DEF FilesTypes
    <3>3. r \notin met
            => /\ handle[r] \notin dirty /\ text \in Versions /\ Len(done[r]) <= Len(text)
                          /\ \A i \in 1 .. Len(done[r]) : done[r][i] = text[i]
      BY <1>1, <3>1 DEF ReadInv
    <3>4. CASE Len(done[r]) < Len(text)
      <4> DEFINE new == Append(done[r], text[Len(done[r]) + 1])
      <4>1. /\ done' = [done EXCEPT ![r] = new] /\ handle' = handle /\ stage' = stage
            /\ status' = status
        BY <2>2, <3>4 DEF Disk!Read
      <4>2. /\ Len(new) = Len(done[r]) + 1 /\ new[Len(done[r]) + 1] = text[Len(done[r]) + 1]
            /\ \A i \in 1 .. Len(done[r]) : new[i] = done[r][i]
        BY <3>2 DEF Chunks
      <4>3. 1 .. Len(done[r]) + 1 = 1 .. Len(done[r]) \cup {Len(done[r]) + 1}
              /\ Len(done[r]) + 1 <= Len(text)
        BY <3>2, <3>4 DEF Chunks
      <4> HIDE DEF new, text
      <4>4. r \notin met => /\ Len(new) <= Len(text)
                            /\ \A i \in 1 .. Len(new) : new[i] = text[i]
        BY <3>3, <4>2, <4>3
      <4>5. done'[r] = new
        BY <1>2, <4>1
      <4>6. content'[handle'[r]] = text /\ handle'[r] = handle[r] /\ status'[r] = 0
        BY <1>3, <3>1, <4>1 DEF text
      <4>7. text \in Versions' \/ r \in met
        BY <3>3
      <4> QED BY <1>3, <3>1, <3>3, <4>4, <4>5, <4>6, <4>7 DEF ReadInv
    <3>5. CASE ~(Len(done[r]) < Len(text))
      <4>1. done' = done /\ stage' = [stage EXCEPT ![r] = "end"]
        BY <2>2, <3>5 DEF Disk!Read, Disk!Answer, Disk!Goto
      <4>2. r \notin met => done[r] = text
        BY <3>2, <3>3, <3>5 DEF Chunks
      <4>3. stage'[r] = "end" /\ (r \notin met => done'[r] \in Versions')
        BY <1>2, <3>3, <4>1, <4>2
      <4> QED BY <3>1, <4>3 DEF ReadInv
    <3> QED BY <3>4, <3>5
  <2> QED BY <2>1, <2>2
<1> QED BY <1>4, <1>7, <1>8, <1>9 DEF FilesInv

(* An upload empties a file: those that had it open are no longer alone    *)
(* with it, and it is dirty.                                               *)
LEMMA TruncateStep ==
  ASSUME FilesParameters, FilesInv, FilesTypes', Versions \subseteq Versions',
         NEW r \in FileRequests, Disk!Truncate(r)
  PROVE  FilesInv'
<1> DEFINE n == IF Disk!Target(r) = Disk!NoFile THEN r ELSE Disk!Target(r)
<1>1. FilesTypes /\ NamesInv /\ UploadInv(r) /\ ReadInv(r) /\ Disk!NoFile \notin Disk!Nodes
  BY DEF FilesInv, FilesParameters, Disk!Nodes, Disk!NoFile, Disk!Original
<1>2. /\ DOMAIN stage = FileRequests /\ DOMAIN handle = FileRequests
      /\ DOMAIN done = FileRequests
      /\ DOMAIN status = FileRequests /\ DOMAIN content = Disk!Nodes /\ DOMAIN entry = Paths
  BY <1>1 DEF FilesTypes
<1>3. /\ stage[r] = "truncate" /\ content' = [content EXCEPT ![n] = <<>>]
      /\ entry' = IF job[r].kind = "hidden" THEN entry
                  ELSE [entry EXCEPT ![job[r].path] = n]
      /\ handle' = [handle EXCEPT ![r] = n] /\ stage' = [stage EXCEPT ![r] = "write"]
      /\ dirty' = dirty \cup {n}
      /\ alone' = IF Disk!Writers(n) = {} THEN alone \cup {r} ELSE alone \ Disk!Writers(n)
      /\ met' = met \cup Disk!Readers(n) /\ UNCHANGED <<job, done, status>>
  BY DEF Disk!Truncate, Disk!Emptied, Disk!Goto
<1>4. n \in Disk!Nodes
  BY <1>1 DEF Disk!Target, FilesTypes, Disk!Nodes, Job
<1> HIDE DEF n
<1>5. /\ stage'[r] = "write" /\ handle'[r] = n /\ content'[n] = <<>>
      /\ \A q \in FileRequests : q # r => stage'[q] = stage[q] /\ handle'[q] = handle[q]
      /\ \A m \in Disk!Nodes : m # n => content'[m] = content[m]
      /\ \A p \in Paths : entry'[p] = entry[p] \/ entry'[p] = n
  BY <1>2, <1>3, <1>4
<1>6. NamesInv'
  BY <1>1, <1>3, <1>5 DEF NamesInv
<1>7. done[r] = <<>> /\ status[r] = 0 /\ r \notin alone
  BY <1>1, <1>3 DEF FilesTypes, UploadInv
<1>8. UploadInv(r)'
  <2>1. r \in alone' => \A q \in FileRequests :
          stage'[q] = "write" /\ handle'[q] = n => q = r
    BY <1>3, <1>5, <1>7 DEF Disk!Writers
  <2>2. <<>> = [i \in 1 .. Len(<<>>) |-> r]
    OBVIOUS
  <2>3. content'[handle'[r]] = [i \in 1 .. Len(done'[r]) |-> r]
    BY <1>3, <1>5, <1>7, <2>2
  <2>4. n \in dirty'
    BY <1>3
  <2> QED BY <1>5, <2>1, <2>3, <2>4 DEF UploadInv
<1>9. ASSUME NEW q \in FileRequests, q # r PROVE UploadInv(q)'
  <2>1. UploadInv(q)
    BY DEF FilesInv
  <2>2. q \in alone' => q \in alone
    BY <1>3, <1>9
  <2>3. stage'[q] = stage[q] /\ handle'[q] = handle[q] /\ done'[q] = done[q]
    BY <1>3, <1>5, <1>9
  <2>4. ASSUME q \in alone', stage[q] = "write" PROVE handle[q] # n
    BY <1>3, <1>9, <2>4 DEF Disk!Writers
  <2>5. stage[q] = "write" => handle[q] \in Disk!Nodes /\ handle[q] \in dirty'
    BY <1>1, <1>3, <2>1 DEF FilesTypes, UploadInv
  <2>6. ASSUME q \in alone', stage[q] = "write"
        PROVE  /\ \A x \in FileRequests :
                    stage'[x] = "write" /\ handle'[x] = handle[q] => x = q
               /\ content'[handle[q]] = [i \in 1 .. Len(done[q]) |-> q]
    <3>1. \A x \in FileRequests : stage[x] = "write" /\ handle[x] = handle[q] => x = q
      BY <2>1, <2>2, <2>6 DEF UploadInv
    <3>2. content[handle[q]] = [i \in 1 .. Len(done[q]) |-> q]
      BY <2>1, <2>2, <2>6 DEF UploadInv
    <3>3. \A x \in FileRequests : stage'[x] = "write" /\ handle'[x] = handle[q] => x = q
      BY <1>5, <2>4, <2>6, <3>1
    <3> QED BY <1>5, <2>4, <2>5, <2>6, <3>2, <3>3
  <2> QED BY <2>1, <2>2, <2>3, <2>5, <2>6 DEF UploadInv
<1>10. ASSUME NEW q \in FileRequests PROVE ReadInv(q)'
  <2>1. ReadInv(q)
    BY DEF FilesInv
  <2>2. CASE q = r
    BY <1>3, <1>5, <1>7, <2>2 DEF ReadInv
  <2>3. CASE q # r
    <3>1. stage'[q] = stage[q] /\ handle'[q] = handle[q] /\ done'[q] = done[q]
            /\ status'[q] = status[q]
          /\ job'[q] = job[q] /\ (q \in met => q \in met')
      BY <1>3, <1>5, <2>3
    <3>2. stage[q] = "read" /\ q \notin met' => handle[q] # n /\ handle[q] \in Disk!Nodes
      BY <1>1, <1>3 DEF Disk!Readers, FilesTypes
    <3>3. stage[q] = "read" /\ q \notin met' => content'[handle[q]] = content[handle[q]]
                                                /\ (handle[q] \notin dirty
                                                     => handle[q] \notin dirty')
      BY <1>3, <1>5, <3>2
    <3> QED BY <2>1, <3>1, <3>3 DEF ReadInv
  <2> QED BY <2>2, <2>3
<1> QED BY <1>6, <1>8, <1>9, <1>10 DEF FilesInv

(* An upload writes a chunk: if it is alone, the next one of its version.  *)
LEMMA WriteStep ==
  ASSUME FilesParameters, FilesInv, FilesTypes', Versions \subseteq Versions',
         NEW r \in FileRequests, Disk!Write(r)
  PROVE  FilesInv'
<1> DEFINE h == handle[r]
           new == Append(done[r], r)
           filled == Disk!Put(content[h], Len(new), r)
<1>1. FilesTypes /\ NamesInv /\ UploadInv(r) /\ Disk!NoFile \notin Disk!Nodes
  BY DEF FilesInv, FilesParameters, Disk!Nodes, Disk!NoFile, Disk!Original
<1>2. /\ stage[r] = "write" /\ done' = [done EXCEPT ![r] = new]
      /\ UNCHANGED <<entry, stage, job, handle, status, dirty, alone, met>>
  BY DEF Disk!Write, Disk!history
<1>3. h \in Disk!Nodes /\ h \in dirty /\ done[r] \in Chunks
  BY <1>1, <1>2 DEF FilesTypes, UploadInv
<1>4. done'[r] = new /\ \A q \in FileRequests : q # r => done'[q] = done[q]
  BY <1>1, <1>2 DEF FilesTypes
<1>5. Len(new) = Len(done[r]) + 1 /\ Len(done[r]) \in Nat
  BY <1>3 DEF Chunks
<1>6. content' = [content EXCEPT ![h] = filled]
  BY <1>4 DEF Disk!Write
<1>7. content'[h] = filled /\ \A m \in Disk!Nodes : m # h => content'[m] = content[m]
  BY <1>1, <1>3, <1>6 DEF FilesTypes
<1>8. NamesInv'
  BY <1>1, <1>2, <1>3, <1>7 DEF NamesInv
<1>9. UploadInv(r)'
  <2>1. ASSUME r \in alone PROVE filled = [i \in 1 .. Len(new) |-> r]
    <3> DEFINE k == Len(new)
    <3>1. content[h] = [i \in 1 .. Len(done[r]) |-> r]
      BY <1>1, <1>2, <2>1 DEF UploadInv
    <3>2. Len(content[h]) = Len(done[r]) /\ \A i \in 1 .. Len(done[r]) : content[h][i] = r
      BY <1>5, <3>1
    <3>3. filled = [i \in 1 .. (IF Len(content[h]) > k THEN Len(content[h]) ELSE k) |->
                      IF i = k THEN r
                      ELSE IF i > Len(content[h]) THEN Disk!Hole ELSE content[h][i]]
      BY DEF Disk!Put
    <3>4. k = Len(content[h]) + 1 /\ k \in Nat
      BY <1>5, <3>2
    <3> HIDE DEF k, h, new, filled
    <3>5. (IF Len(content[h]) > k THEN Len(content[h]) ELSE k) = k
      BY <3>4
    <3>6. \A i \in 1 .. k :
            (IF i = k THEN r
             ELSE IF i > Len(content[h]) THEN Disk!Hole ELSE content[h][i]) = r
      BY <3>2, <3>4
    <3>7. filled = [i \in 1 .. k |-> r]
      BY <3>3, <3>5, <3>6
    <3> QED BY <3>7 DEF k
  <2> HIDE DEF new, filled
  <2> QED BY <1>1, <1>2, <1>4, <1>7, <2>1 DEF UploadInv
<1> HIDE DEF new, filled
<1>10. ASSUME NEW q \in FileRequests, q # r PROVE UploadInv(q)'
  <2>1. UploadInv(q)
    BY DEF FilesInv
  <2>2. stage[q] = "write" /\ q \in alone => handle[q] # h /\ handle[q] \in Disk!Nodes
    BY <1>1, <1>2, <1>10, <2>1 DEF UploadInv, FilesTypes
  <2> QED BY <1>2, <1>4, <1>7, <1>10, <2>1, <2>2 DEF UploadInv
<1>11. ASSUME NEW q \in FileRequests PROVE ReadInv(q)'
  <2>1. ReadInv(q)
    BY DEF FilesInv
  <2>2. CASE q = r
    <3>1. status[r] = 0
      BY <1>1, <1>2 DEF FilesTypes
    <3> QED BY <1>2, <2>2, <3>1 DEF ReadInv
  <2>3. CASE q # r
    <3>1. done'[q] = done[q]
      BY <1>4, <2>3
    <3>2. stage[q] = "read" /\ q \notin met => handle[q] # h /\ handle[q] \in Disk!Nodes
      BY <1>1, <1>3, <2>1 DEF ReadInv, FilesTypes
    <3>3. stage[q] = "read" /\ q \notin met => content'[handle[q]] = content[handle[q]]
      BY <1>7, <3>2
    <3> QED BY <1>2, <2>1, <3>1, <3>3 DEF ReadInv
  <2> QED BY <2>2, <2>3
<1> QED BY <1>8, <1>9, <1>10, <1>11 DEF FilesInv

(* An upload ends: if it is alone, its file holds its version and nobody   *)
(* else is writing it.                                                     *)
LEMMA CloseStep ==
  ASSUME FilesParameters, FilesInv, FilesTypes', Versions \subseteq Versions',
         NEW r \in FileRequests, Disk!Close(r)
  PROVE  FilesInv'
<1> DEFINE h == handle[r]
<1>1. FilesTypes /\ NamesInv /\ UploadInv(r) /\ Disk!NoFile \notin Disk!Nodes
  BY DEF FilesInv, FilesParameters, Disk!Nodes, Disk!NoFile, Disk!Original
<1>2. /\ stage[r] = "write" /\ Len(done[r]) = job[r].size
      /\ dirty' = IF r \in alone THEN dirty \ {h} ELSE dirty
      /\ stage' = [stage EXCEPT ![r] = "end"] /\ status' = [status EXCEPT ![r] = 200]
      /\ handle' = [handle EXCEPT ![r] = Disk!NoFile]
      /\ UNCHANGED <<entry, content, job, done, alone, met>>
  BY DEF Disk!Close, Disk!Answer, Disk!Goto, Disk!disk
<1>3. /\ stage'[r] = "end" /\ h \in Disk!Nodes
      /\ \A q \in FileRequests :
           q # r => stage'[q] = stage[q] /\ handle'[q] = handle[q] /\ status'[q] = status[q]
  BY <1>1, <1>2 DEF FilesTypes
<1>4. r \in alone => content[h] \in Versions
  <2>1. r \in alone => content[h] = [i \in 1 .. job[r].size |-> r]
    BY <1>1, <1>2 DEF UploadInv
  <2>2. r \in Disk!Nodes /\ r # Disk!Original
    BY DEF Disk!Nodes, FilesParameters
  <2>3. [i \in 1 .. job[r].size |-> r] = Version(r)
    BY <2>2 DEF Version, Length
  <2>4. Version(r) \in Versions
    BY <1>2, <2>2 DEF Versions
  <2> QED BY <2>1, <2>3, <2>4
<1>5. NamesInv'
  BY <1>1, <1>2, <1>4 DEF NamesInv
<1>6. ASSUME NEW q \in FileRequests PROVE UploadInv(q)'
  <2>1. UploadInv(q)
    BY DEF FilesInv
  <2>2. CASE q = r
    BY <1>3, <2>2 DEF UploadInv
  <2>3. CASE q # r
    <3>1. stage[q] = "write" => handle[q] \in dirty'
      BY <1>1, <1>2, <2>1, <2>3 DEF UploadInv
    <3>2. \A x \in FileRequests :
            stage'[x] = "write" => stage[x] = "write" /\ handle'[x] = handle[x]
      BY <1>3
    <3> QED BY <1>2, <1>3, <2>1, <2>3, <3>1, <3>2 DEF UploadInv
  <2> QED BY <2>2, <2>3
<1>7. ASSUME NEW q \in FileRequests PROVE ReadInv(q)'
  <2>1. ReadInv(q)
    BY DEF FilesInv
  <2>2. CASE q = r
    <3>1. "write" \in PlaceOf(job[r].kind) /\ job[r].kind \in Disk!Kinds
      <4>1. job[r] \in Job /\ stage[r] \in PlaceOf(job[r].kind)
        BY <1>1, <1>2 DEF FilesTypes
      <4> QED BY <1>2, <4>1 DEF Job
    <3>2. job[r].kind \notin Disk!Local
      BY <3>1, KindPlaces
    <3> QED BY <1>2, <1>3, <2>2, <3>2 DEF ReadInv
  <2>3. CASE q # r
    <3>1. handle[q] \notin dirty => handle[q] \notin dirty'
      BY <1>2
    <3> QED BY <1>2, <1>3, <2>1, <2>3, <3>1 DEF ReadInv
  <2> QED BY <2>2, <2>3
<1> QED BY <1>5, <1>6, <1>7 DEF FilesInv

LEMMA NextFiles ==
  ASSUME FilesParameters, FilesInv, [Disk!Next]_Disk!vars
  PROVE  FilesInv'
<1>1. FilesTypes' /\ Versions \subseteq Versions'
  BY NextFilesTypes, VersionsStay DEF FilesInv
<1>2. ASSUME UNCHANGED Disk!vars PROVE FilesInv'
  <2>1. UNCHANGED <<entry, content, stage, job, handle, done, status, dirty, alone, met>>
    BY <1>2 DEF Disk!vars
  <2>2. ASSUME NEW q \in FileRequests PROVE UploadInv(q)' /\ ReadInv(q)'
    BY <1>1, <2>1 DEF FilesInv, UploadInv, ReadInv
  <2>3. NamesInv'
    BY <1>1, <2>1 DEF FilesInv, NamesInv
  <2> QED BY <1>1, <2>2, <2>3 DEF FilesInv
<1> QED BY <1>1, <1>2, AwaySteps, ReadSteps, TruncateStep, WriteStep, CloseStep, FileSteps

LEMMA FilesAlways == ASSUME FilesParameters PROVE Disk!Spec => []FilesInv
<1>1. Disk!Init => FilesInv
  BY InitFiles
<1>2. FilesInv /\ [Disk!Next]_Disk!vars => FilesInv'
  BY NextFiles
<1> QED BY <1>1, <1>2, PTL DEF Disk!Spec

(***************************************************************************)
(* The variables of Files keep their types, for any requests, paths and    *)
(* size of a file.                                                         *)
(***************************************************************************)
THEOREM FilesTypesCorrect == ASSUME FilesParameters PROVE Disk!Spec => []Disk!TypeOK
<1>1. ASSUME NEW t \in Chunks, Len(t) <= MaxChunks PROVE t \in Disk!Texts
  <2>1. Len(t) \in Nat /\ t \in [1 .. Len(t) -> Disk!Nodes \cup {Disk!Hole}]
    BY DEF Chunks
  <2>2. CASE Len(t) = 0
    BY <2>2 DEF Chunks, Disk!Texts
  <2>3. CASE Len(t) # 0
    <3>1. Len(t) \in 1 .. MaxChunks
      BY <1>1, <2>1, <2>3 DEF FilesParameters
    <3> QED BY <2>1, <3>1 DEF Disk!Texts
  <2> QED BY <2>2, <2>3
<1>2. ASSUME FilesInv PROVE Disk!TypeOK
  <2>1. FilesTypes
    BY <1>2 DEF FilesInv
  <2>2. content \in [Disk!Nodes -> Disk!Texts] /\ done \in [FileRequests -> Disk!Texts]
    BY <1>1, <2>1 DEF FilesTypes
  <2> QED BY <2>1, <2>2 DEF FilesTypes, Disk!TypeOK, Job
<1> QED BY <1>2, FilesAlways, PTL

(***************************************************************************)
(* ReadsAreWhole of Files, for any requests, paths and size of a file:     *)
(* however uploads, hidden uploads, deletions and reads interleave between *)
(* their system calls, and wherever one fails, a read that met no writer,  *)
(* of a file whose latest upload met no other and ended, has all of one    *)
(* version and nothing else.                                               *)
(***************************************************************************)
THEOREM ReadsAreAlwaysWhole == ASSUME FilesParameters PROVE Disk!Spec => []ReadsAreWhole
<1>1. ASSUME FilesInv PROVE ReadsAreWhole
  <2> SUFFICES ASSUME NEW r \in FileRequests \ met, status[r] = 200,
  job[r].kind \in Disk!Local
               PROVE  \E w \in Disk!Nodes : done[r] = [i \in 1 .. Length(w) |-> w]
    BY DEF ReadsAreWhole, Disk!ReadsAreWhole, Length
  <2>1. done[r] \in Versions
    BY <1>1 DEF FilesInv, ReadInv
  <2>2. PICK w \in Disk!Nodes : done[r] = Version(w)
    BY <2>1 DEF Versions
  <2> QED BY <2>2 DEF Version
<1> QED BY <1>1, FilesAlways, PTL

-----------------------------------------------------------------------------
(***************************************************************************)
(* The support mails.  A mail MailCatcher took is awaited, a success or a  *)
(* failure whose news was lost, and every success and failure was counted. *)
(***************************************************************************)
MailParameters == IsFiniteSet(MailRequests)

(* What Mail counts is what the theorems of FiniteSets are about.          *)
LEMMA MailCount == ASSUME NEW S PROVE Email!Cardinality(S) = Cardinality(S)
BY Zenon DEF Email!Cardinality, Cardinality

Awaited == {r \in MailRequests : place[r] = "accepted"}
Succeeded == {r \in MailRequests : outcome[r] = "sent"}
Failed == {r \in MailRequests : outcome[r] = "error"}

Injective(l) == \A i, j \in DOMAIN l : i # j => l[i] # l[j]
MailList(l) == l \in Seq(MailRequests) /\ Injective(l)

PlacesInv ==
  /\ place \in [MailRequests -> {"idle", "send", "accepted", "list", "listSources",
                             "source", "delete", "end"}]
  /\ outcome \in [MailRequests -> {"none", "sent", "emails", "true", "error"}]
  /\ accepted \subseteq MailRequests /\ doomed \in [MailRequests -> SUBSET MailRequests]
  /\ \A r \in MailRequests :
       /\ place[r] = "end" <=> outcome[r] # "none"
       /\ r \in accepted => place[r] = "accepted" \/ outcome[r] \in {"sent", "error"}
       /\ place[r] = "accepted" \/ outcome[r] = "sent" => r \in accepted

Sourced(r) ==
  /\ MailList(emails[r])
  /\ \A i \in DOMAIN sources[r] : sources[r][i] \in {emails[r][i], Email!Missing}
  /\ place[r] \notin {"source", "end"} => sources[r] = <<>>

ListsInv ==
  /\ MailList(box) /\ Email!Holds(box) \subseteq accepted
  /\ emails \in [MailRequests -> Seq(MailRequests)]
  /\ sources \in [MailRequests -> Seq(MailRequests \cup {Email!Missing})]
  /\ \A r \in MailRequests : Sourced(r)

MailInv == PlacesInv /\ ListsInv

SendsInv ==
  /\ sends \in [{"true", "false"} -> Nat]
  /\ sends["true"] = Cardinality(Succeeded)
  /\ sends["false"] <= Cardinality(Failed)
  /\ Cardinality(accepted \cap Failed) <= sends["false"]

LEMMA InitMail == ASSUME MailParameters, Email!Init PROVE MailInv /\ SendsInv
<1>1. <<>> \in Seq(MailRequests) /\ DOMAIN <<>> = {} /\ Len(<<>>) = 0
  OBVIOUS
<1>2. MailList(<<>>) /\ Email!Holds(<<>>) = {}
  BY <1>1 DEF MailList, Injective, Email!Holds
<1>3. Succeeded = {} /\ Failed = {} /\ accepted \cap Failed = {}
  BY DEF Email!Init, Succeeded, Failed
<1>4. Cardinality({}) = 0
  BY FS_EmptySet
<1>5. SendsInv
  BY <1>3, <1>4 DEF SendsInv, Email!Init
<1> QED BY <1>1, <1>2, <1>5 DEF MailInv, PlacesInv, ListsInv, Sourced, Email!Init

(* What one more request that ended so, or one more mail, adds.            *)
LEMMA OneMore ==
  ASSUME MailParameters, NEW S, NEW r \in MailRequests, S \subseteq MailRequests
  PROVE  /\ IsFiniteSet(S) /\ Cardinality(S) \in Nat
         /\ Cardinality(S \cup {r}) = IF r \in S THEN Cardinality(S) ELSE Cardinality(S) + 1
<1>1. IsFiniteSet(S)
  BY FS_Subset DEF MailParameters
<1> QED BY <1>1, FS_AddElement, FS_CardinalityType

LEMMA EndsAs ==
  ASSUME MailInv, NEW r \in MailRequests, NEW from, NEW result, from # "end",
         Email!Finish(r, from, result)
  PROVE  /\ outcome[r] = "none" /\ r \notin Succeeded /\ r \notin Failed
         /\ Succeeded' = IF result = "sent" THEN Succeeded \cup {r} ELSE Succeeded
         /\ Failed' = IF result = "error" THEN Failed \cup {r} ELSE Failed
<1>1. outcome' = [outcome EXCEPT ![r] = result] /\ place[r] = from
  BY DEF Email!Finish, Email!Move
<1>2. outcome[r] = "none"
        /\ outcome \in [MailRequests -> {"none", "sent", "emails", "true", "error"}]
  BY <1>1 DEF MailInv, PlacesInv
<1> QED BY <1>1, <1>2 DEF Succeeded, Failed

LEMMA NextSends ==
  ASSUME MailParameters, MailInv, SendsInv, [Email!Next]_Email!vars
  PROVE  SendsInv'
<1> DEFINE lost == accepted \cap Failed
           s == Cardinality(Succeeded)
           f == Cardinality(Failed)
           l == Cardinality(lost)
<1>1. /\ Succeeded \subseteq MailRequests /\ Failed \subseteq MailRequests
      /\ lost \subseteq MailRequests
      /\ accepted \subseteq MailRequests
  BY DEF Succeeded, Failed, MailInv, PlacesInv
<1>2. s \in Nat /\ f \in Nat /\ l \in Nat
  BY <1>1, FS_Subset, FS_CardinalityType DEF MailParameters
<1>3. ASSUME NEW r \in MailRequests
      PROVE  /\ Cardinality(Succeeded \cup {r}) = IF r \in Succeeded THEN s ELSE s + 1
             /\ Cardinality(Failed \cup {r}) = IF r \in Failed THEN f ELSE f + 1
             /\ Cardinality(lost \cup {r}) = IF r \in lost THEN l ELSE l + 1
  BY <1>1, OneMore
<1>4. /\ sends \in [{"true", "false"} -> Nat] /\ sends["true"] = s
      /\ sends["false"] <= f /\ l <= sends["false"]
  BY DEF SendsInv
<1>5. ASSUME sends' = sends, Succeeded' = Succeeded, lost' = lost, Failed' = Failed
      PROVE  SendsInv'
  BY <1>5, <1>4 DEF SendsInv
<1>6. ASSUME NEW r \in MailRequests, Email!Accept(r) PROVE SendsInv'
  <2>1. accepted' = accepted \cup {r} /\ outcome' = outcome /\ sends' = sends
          /\ place[r] = "send"
    BY <1>6 DEF Email!Accept, Email!Move
  <2>2. r \notin Failed
    BY <2>1 DEF MailInv, PlacesInv, Failed
  <2> QED BY <1>5, <2>1, <2>2 DEF Succeeded, Failed
<1>7. ASSUME NEW r \in MailRequests, Email!Sent(r) PROVE SendsInv'
  <2>1. /\ accepted' = accepted /\ sends' = [sends EXCEPT !["true"] = @ + 1]
        /\ Email!Finish(r, "accepted", "sent")
    BY <1>7 DEF Email!Sent, Email!Count
  <2>2. Succeeded' = Succeeded \cup {r} /\ Failed' = Failed /\ r \notin Succeeded
    BY <2>1, EndsAs
  <2>3. Cardinality(Succeeded') = s + 1 /\ Cardinality(Failed') = f
          /\ Cardinality(lost') = l
    BY <1>3, <2>1, <2>2
  <2> HIDE DEF s, f, l
  <2> QED BY <1>2, <1>4, <2>1, <2>3 DEF SendsInv
<1>8. ASSUME NEW r \in MailRequests, Email!SendFails(r) PROVE SendsInv'
  <2>1. /\ accepted' = accepted /\ sends' = [sends EXCEPT !["false"] = @ + 1]
        /\ Email!Finish(r, "send", "error") \/ Email!Finish(r, "accepted", "error")
    BY <1>8 DEF Email!SendFails, Email!Count
  <2>2. Succeeded' = Succeeded /\ Failed' = Failed \cup {r} /\ r \notin Failed
    BY <2>1, EndsAs
  <2>3. lost' = lost \/ lost' = lost \cup {r}
    BY <2>1, <2>2
  <2>4. /\ Cardinality(Succeeded') = s /\ Cardinality(Failed') = f + 1
        /\ Cardinality(lost') = l \/ Cardinality(lost') = l + 1
    BY <1>3, <2>2, <2>3
  <2> HIDE DEF s, f, l
  <2> QED BY <1>2, <1>4, <2>1, <2>4 DEF SendsInv
<1>9. ASSUME NEW r \in MailRequests, Email!ListFails(r) PROVE SendsInv'
  <2>1. PICK from \in {"list", "listSources", "delete"} : Email!Finish(r, from, "error")
    BY <1>9 DEF Email!ListFails
  <2>2. accepted' = accepted /\ sends' = sends /\ place[r] = from
    BY <1>9, <2>1 DEF Email!ListFails, Email!Finish, Email!Move
  <2>3. Succeeded' = Succeeded /\ Failed' = Failed \cup {r} /\ r \notin Failed
          /\ outcome[r] = "none"
    BY <2>1, EndsAs
  <2>4. r \notin accepted
    BY <2>2, <2>3 DEF MailInv, PlacesInv
  <2>5. lost' = lost
    BY <2>2, <2>3, <2>4
  <2>6. Cardinality(Succeeded') = s /\ Cardinality(Failed') = f + 1
          /\ Cardinality(lost') = l
    BY <1>3, <2>3, <2>5
  <2> HIDE DEF s, f, l
  <2> QED BY <1>2, <1>4, <2>2, <2>6 DEF SendsInv
<1>10. ASSUME NEW r \in MailRequests,
              \/ Email!SendSupportEmail(r) \/ Email!GetEmails(r) \/ Email!Listed(r)
              \/ Email!GetEmailSource(r)
                                      \/ Email!SourcesDone(r) \/ Email!DeleteEmails(r)
                                      \/ Email!Deleted(r)
       PROVE  SendsInv'
  <2>1. /\ accepted' = accepted /\ sends' = sends
        /\ \/ outcome' = outcome
           \/ \E from \in {"list", "source", "delete"},
             result \in {"emails", "true"} : Email!Finish(r, from, result)
    BY <1>10 DEF Email!SendSupportEmail, Email!GetEmails, Email!Listed,
       Email!GetEmailSource, Email!SourcesDone, Email!DeleteEmails, Email!Deleted
  <2>2. Succeeded' = Succeeded /\ Failed' = Failed
    <3>1. CASE outcome' = outcome
      BY <3>1 DEF Succeeded, Failed
    <3>2. ASSUME NEW from \in {"list", "source", "delete"},
                 NEW result \in {"emails", "true"},
                 Email!Finish(r, from, result)
          PROVE  Succeeded' = Succeeded /\ Failed' = Failed
      BY <3>2, EndsAs
    <3> QED BY <2>1, <3>1, <3>2
  <2> QED BY <1>5, <2>1, <2>2
<1>11. CASE Email!Clear
  BY <1>5, <1>11 DEF Email!Clear, Succeeded, Failed
<1>12. CASE UNCHANGED Email!vars
  BY <1>5, <1>12 DEF Email!vars, Succeeded, Failed
<1> QED BY <1>6, <1>7, <1>8, <1>9, <1>10, <1>11, <1>12 DEF Email!Next

LEMMA AppendedMail ==
  ASSUME NEW l, MailList(l), NEW r \in MailRequests, r \notin Email!Holds(l)
  PROVE  MailList(Append(l, r)) /\ Email!Holds(Append(l, r)) = Email!Holds(l) \cup {r}
<1>1. l \in Seq(MailRequests) /\ DOMAIN l = 1 .. Len(l) /\ Len(l) \in Nat
  BY DEF MailList
<1> DEFINE k == Append(l, r)
<1>2. /\ k \in Seq(MailRequests) /\ DOMAIN k = 1 .. Len(l) + 1 /\ k[Len(l) + 1] = r
      /\ \A i \in 1 .. Len(l) : k[i] = l[i]
  BY <1>1
<1> HIDE DEF k
<1>3. Injective(k)
  BY <1>1, <1>2 DEF Injective, MailList, Email!Holds
<1>4. Email!Holds(k) = Email!Holds(l) \cup {r}
  <2>1. 1 .. Len(l) + 1 = 1 .. Len(l) \cup {Len(l) + 1}
    BY <1>1
  <2> QED BY <1>1, <1>2, <2>1 DEF Email!Holds
<1> QED BY <1>2, <1>3, <1>4 DEF MailList, k

(* A list of different requests has no more of them than there are.        *)
LEMMA ListTypes ==
  ASSUME MailParameters, NEW l, MailList(l)
  PROVE  l \in Email!Lists
<1>1. l \in Seq(MailRequests) /\ DOMAIN l = 1 .. Len(l) /\ Len(l) \in Nat /\ Injective(l)
  BY DEF MailList
<1>2. IsFiniteSet(1 .. Len(l)) /\ Cardinality(1 .. Len(l)) = Len(l)
  BY <1>1, FS_Interval
<1>3. l \in Injection(1 .. Len(l), MailRequests)
  BY <1>1 DEF Injection, IsInjective, Injective
<1>4. Len(l) <= Cardinality(MailRequests)
  BY <1>2, <1>3, FS_Injection DEF MailParameters, ExistsInjection
<1>5. Len(l) \in 0 .. Cardinality(MailRequests)
  BY <1>1, <1>4, FS_CardinalityType DEF MailParameters
<1>6. l \in [1 .. Len(l) -> MailRequests]
  BY <1>1
<1>7. l \in UNION {[1 .. n -> MailRequests] : n \in 0 .. Cardinality(MailRequests)}
  BY <1>5, <1>6
<1> QED BY MailCount, <1>1, <1>7 DEF Email!Lists, Injective

LEMMA NextPlaces ==
  ASSUME MailInv, [Email!Next]_Email!vars
  PROVE  PlacesInv'
<1>1. ASSUME NEW r \in MailRequests,
             Email!SendSupportEmail(r) \/ Email!GetEmails(r) \/ Email!GetEmailSource(r)
      PROVE  PlacesInv'
  BY <1>1 DEF MailInv, PlacesInv, Email!SendSupportEmail, Email!GetEmails,
     Email!GetEmailSource, Email!Move
<1>2. ASSUME NEW r \in MailRequests, Email!Accept(r) PROVE PlacesInv'
  BY <1>2 DEF MailInv, PlacesInv, Email!Accept, Email!Move
<1>3. ASSUME NEW r \in MailRequests, Email!Sent(r) \/ Email!SendFails(r) PROVE PlacesInv'
  BY <1>3 DEF MailInv, PlacesInv, Email!Sent, Email!SendFails, Email!Finish, Email!Move
<1>4. ASSUME NEW r \in MailRequests, Email!Listed(r) PROVE PlacesInv'
  BY <1>4 DEF MailInv, PlacesInv, Email!Listed, Email!Finish, Email!Move
<1>5. ASSUME NEW r \in MailRequests, Email!ListFails(r) PROVE PlacesInv'
  BY <1>5 DEF MailInv, PlacesInv, Email!ListFails, Email!Finish, Email!Move
<1>6. ASSUME NEW r \in MailRequests, Email!SourcesDone(r) \/ Email!Deleted(r)
      PROVE  PlacesInv'
  BY <1>6 DEF MailInv, PlacesInv, Email!SourcesDone, Email!Deleted, Email!Finish, Email!Move
<1>7. ASSUME NEW r \in MailRequests, Email!DeleteEmails(r) PROVE PlacesInv'
  BY <1>7 DEF MailInv, PlacesInv, ListsInv, Email!DeleteEmails, Email!Move
<1>8. CASE Email!Clear
  BY <1>8 DEF MailInv, PlacesInv, Email!Clear
<1>9. CASE UNCHANGED Email!vars
  BY <1>9 DEF MailInv, PlacesInv, Email!vars
<1> QED BY <1>1, <1>2, <1>3, <1>4, <1>5, <1>6, <1>7, <1>8, <1>9 DEF Email!Next

LEMMA NextLists ==
  ASSUME MailInv, [Email!Next]_Email!vars
  PROVE  ListsInv'
<1>1. ASSUME UNCHANGED <<box, emails, sources>>, accepted \subseteq accepted',
             \A r \in MailRequests : place'[r] \in {"source", "end"} \/ sources[r] = <<>>
      PROVE  ListsInv'
  BY <1>1 DEF MailInv, ListsInv, Sourced, MailList, Email!Holds
<1>2. ASSUME NEW r \in MailRequests,
             \/ Email!SendSupportEmail(r) \/ Email!Sent(r) \/ Email!SendFails(r)
             \/ Email!GetEmails(r) \/ Email!ListFails(r)
                                     \/ Email!SourcesDone(r) \/ Email!DeleteEmails(r)
                                     \/ Email!Deleted(r)
      PROVE  ListsInv'
  <2>1. UNCHANGED <<box, emails, sources, accepted>>
    BY <1>2 DEF Email!SendSupportEmail, Email!Sent, Email!SendFails, Email!GetEmails,
       Email!ListFails, Email!SourcesDone, Email!DeleteEmails, Email!Deleted, Email!lists
  <2>2. \A q \in MailRequests :
          place'[q] = place[q] \/ place[q] \notin {"source", "end"} \/ place'[q] = "end"
    BY <1>2 DEF Email!SendSupportEmail, Email!Sent, Email!SendFails, Email!GetEmails,
       Email!ListFails, Email!SourcesDone, Email!DeleteEmails, Email!Deleted, Email!Finish,
       Email!Move,
       MailInv, PlacesInv
  <2> QED BY <1>1, <2>1, <2>2 DEF MailInv, ListsInv, Sourced
<1>3. ASSUME NEW r \in MailRequests, Email!Accept(r) PROVE ListsInv'
  <2>1. /\ box' = Append(box, r) /\ accepted' = accepted \cup {r}
        /\ UNCHANGED <<emails, sources>>
        /\ place[r] = "send" /\ place' = [place EXCEPT ![r] = "accepted"]
    BY <1>3 DEF Email!Accept, Email!Move, Email!lists
  <2>2. r \notin accepted
    BY <2>1 DEF MailInv, PlacesInv
  <2>3. MailList(box') /\ Email!Holds(box') \subseteq accepted'
    BY <2>1, <2>2, AppendedMail DEF MailInv, ListsInv
  <2>4. \A q \in MailRequests : Sourced(q)'
    BY <2>1 DEF MailInv, ListsInv, PlacesInv, Sourced, MailList
  <2> QED BY <2>1, <2>3, <2>4 DEF MailInv, ListsInv
<1>4. ASSUME NEW r \in MailRequests, Email!Listed(r) PROVE ListsInv'
  <2>1. /\ emails' = [emails EXCEPT ![r] = box] /\ UNCHANGED <<box, sources, accepted>>
        /\ place[r] \in {"list", "listSources"}
        /\ \E to \in {"source", "end"} : place' = [place EXCEPT ![r] = to]
    BY <1>4 DEF Email!Listed, Email!Finish, Email!Move
  <2>2. sources[r] = <<>> /\ MailList(box) /\ box \in Seq(MailRequests)
    BY <2>1 DEF MailInv, ListsInv, Sourced, MailList
  <2>3. \A q \in MailRequests : emails'[q] = IF q = r THEN box ELSE emails[q]
    BY <2>1 DEF MailInv, ListsInv
  <2>4. \A q \in MailRequests : q = r \/ place'[q] = place[q]
    BY <2>1 DEF MailInv, PlacesInv
  <2>5. DOMAIN sources'[r] = {}
    BY <2>1, <2>2
  <2>6. Sourced(r)'
    BY <2>1, <2>2, <2>3, <2>5 DEF Sourced, MailList, Injective
  <2>7. \A q \in MailRequests \ {r} : Sourced(q)'
    BY <2>1, <2>3, <2>4 DEF MailInv, ListsInv, Sourced, MailList, Injective
  <2> QED BY <2>1, <2>2, <2>6, <2>7 DEF MailInv, ListsInv
<1>5. ASSUME NEW r \in MailRequests, Email!GetEmailSource(r) PROVE ListsInv'
  <2> DEFINE k == Len(sources[r]) + 1
  <2>1. PICK s \in {Email!Missing} \cup ({emails[r][k]} \cap Email!Holds(box)) :
          sources' = [sources EXCEPT ![r] = Append(@, s)]
    BY <1>5 DEF Email!GetEmailSource
  <2>2. UNCHANGED <<box, place, emails, accepted>> /\ place[r] = "source"
          /\ k <= Len(emails[r])
    BY <1>5 DEF Email!GetEmailSource
  <2>3. /\ sources[r] \in Seq(MailRequests \cup {Email!Missing})
        /\ emails[r] \in Seq(MailRequests)
        /\ box \in Seq(MailRequests)
    BY DEF MailInv, ListsInv, MailList
  <2>4. s \in MailRequests \cup {Email!Missing} /\ s \in {emails[r][k], Email!Missing}
    BY <2>2, <2>3 DEF Email!Holds
  <2> DEFINE new == Append(sources[r], s)
  <2>5. /\ new \in Seq(MailRequests \cup {Email!Missing}) /\ DOMAIN new = 1 .. k
        /\ new[k] = s
        /\ \A i \in 1 .. Len(sources[r]) : new[i] = sources[r][i]
    BY <2>3, <2>4
  <2>6. \A i \in DOMAIN sources[r] : sources[r][i] \in {emails[r][i], Email!Missing}
    BY DEF MailInv, ListsInv, Sourced
  <2>7. \A i \in DOMAIN new : new[i] \in {emails[r][i], Email!Missing}
    BY <2>3, <2>4, <2>5, <2>6
  <2>8. sources' = [sources EXCEPT ![r] = new]
    BY <2>1
  <2> HIDE DEF new
  <2>9. sources' \in [MailRequests -> Seq(MailRequests \cup {Email!Missing})]
    BY <2>5, <2>8 DEF MailInv, ListsInv
  <2>10. sources'[r] = new /\ \A q \in MailRequests \ {r} : sources'[q] = sources[q]
    BY <2>8 DEF MailInv, ListsInv
  <2>11. \A q \in MailRequests : Sourced(q)'
    BY <2>2, <2>7, <2>10 DEF MailInv, ListsInv, Sourced, MailList, Injective
  <2> QED BY <2>2, <2>9, <2>11 DEF MailInv, ListsInv, MailList, Injective, Email!Holds
<1>6. CASE Email!Clear
  <2>1. box' = <<>> /\ UNCHANGED <<place, emails, sources, accepted>>
    BY <1>6 DEF Email!Clear, Email!lists
  <2>2. MailList(<<>>) /\ Email!Holds(<<>>) = {}
    BY DEF MailList, Injective, Email!Holds
  <2>3. \A q \in MailRequests : Sourced(q)'
    BY <2>1 DEF MailInv, ListsInv, Sourced
  <2> QED BY <2>1, <2>2, <2>3 DEF MailInv, ListsInv
<1>7. CASE UNCHANGED Email!vars
  BY <1>1, <1>7 DEF Email!vars, MailInv, ListsInv, Sourced
<1> QED BY <1>2, <1>3, <1>4, <1>5, <1>6, <1>7 DEF Email!Next

LEMMA MailTypes ==
  ASSUME MailParameters, MailInv, SendsInv
  PROVE  Email!TypeOK
<1>1. box \in Email!Lists
  BY ListTypes DEF MailInv, ListsInv
<1>2. emails \in [MailRequests -> Email!Lists]
  BY ListTypes DEF MailInv, ListsInv, Sourced
<1>3. sends \in [{"true", "false"} -> 0 .. Cardinality(MailRequests)]
  <2> DEFINE n == Cardinality(MailRequests)
             s == Cardinality(Succeeded)
             f == Cardinality(Failed)
  <2>1. s \in Nat /\ s <= n /\ f \in Nat /\ f <= n /\ n \in Nat
    BY FS_Subset, FS_CardinalityType DEF MailParameters, Succeeded, Failed
  <2>2. sends \in [{"true", "false"} -> Nat] /\ sends["true"] = s /\ sends["false"] <= f
    BY DEF SendsInv
  <2> HIDE DEF n, s, f
  <2>3. sends["true"] \in 0 .. n /\ sends["false"] \in 0 .. n
    BY <2>1, <2>2
  <2>4. \A b \in {"true", "false"} : sends[b] \in 0 .. n
    BY <2>3
  <2> QED BY <2>2, <2>4 DEF n
<1> QED BY MailCount, <1>1, <1>2, <1>3
           DEF Email!TypeOK, MailInv, PlacesInv, ListsInv, Sourced

LEMMA MailAlways == ASSUME MailParameters PROVE Email!Spec => [](MailInv /\ SendsInv)
<1>1. Email!Init => MailInv /\ SendsInv
  BY InitMail
<1>2. MailInv /\ SendsInv /\ [Email!Next]_Email!vars => MailInv' /\ SendsInv'
  BY NextPlaces, NextLists, NextSends DEF MailInv
<1> QED BY <1>1, <1>2, PTL DEF Email!Spec

(***************************************************************************)
(* The variables of Mail keep their types, the box and its listings        *)
(* without a mail twice, for any finite set of requests.                   *)
(***************************************************************************)
THEOREM MailTypesCorrect == ASSUME MailParameters PROVE Email!Spec => []Email!TypeOK
BY MailAlways, MailTypes, PTL

(***************************************************************************)
(* SendsAreCounted of Mail, for any finite set of requests: mails are lost *)
(* by a deletion, kept by a server whose answer did not come, and counted  *)
(* after the answer, and email.sends still adds up with what MailCatcher   *)
(* accepted.                                                               *)
(***************************************************************************)
THEOREM SendsAreAlwaysCounted == ASSUME MailParameters PROVE Email!Spec => []SendsAreCounted
<1>1. ASSUME MailInv, SendsInv PROVE SendsAreCounted
  <2> DEFINE lost == accepted \cap Failed
             held == Awaited \cup Succeeded
             s == Cardinality(Succeeded)
             l == Cardinality(lost)
             a == Cardinality(Awaited)
  <2>1. /\ accepted = held \cup lost /\ Succeeded \subseteq accepted
        /\ Awaited \subseteq MailRequests /\ Succeeded \subseteq MailRequests
        /\ lost \subseteq MailRequests
    BY <1>1 DEF MailInv, PlacesInv, Awaited, Succeeded, Failed
  <2>2. IsFiniteSet(Awaited) /\ IsFiniteSet(Succeeded) /\ IsFiniteSet(lost)
    BY <2>1, FS_Subset DEF MailParameters
  <2>3. /\ IsFiniteSet(held) /\ Cardinality(held) <= a + s
        /\ Cardinality(Awaited \cap Succeeded) \in Nat
        /\ Cardinality(held \cap lost) \in Nat
        /\ Cardinality(held) \in Nat /\ Cardinality(held \cup lost) \in Nat
        /\ a \in Nat /\ s \in Nat /\ l \in Nat
    <3>1. IsFiniteSet(held) /\ IsFiniteSet(held \cup lost) /\ IsFiniteSet(held \cap lost)
          /\ IsFiniteSet(Awaited \cap Succeeded)
      BY <2>2, FS_Union, FS_Intersection
    <3>2. /\ a \in Nat /\ s \in Nat /\ l \in Nat
          /\ Cardinality(held) \in Nat /\ Cardinality(held \cup lost) \in Nat
          /\ Cardinality(Awaited \cap Succeeded) \in Nat
          /\ Cardinality(held \cap lost) \in Nat
      BY <2>2, <3>1, FS_CardinalityType
    <3> DEFINE h == Cardinality(held)
               i == Cardinality(Awaited \cap Succeeded)
    <3>3. h = a + s - i
      BY <2>2, FS_Union
    <3> HIDE DEF h, i
    <3>4. h <= a + s
      BY <3>2, <3>3 DEF h, i
    <3> QED BY <3>1, <3>2, <3>4 DEF h
  <2>4. Cardinality(accepted) <= a + s + l
    <3> DEFINE h == Cardinality(held)
               i == Cardinality(held \cap lost)
               c == Cardinality(held \cup lost)
    <3>1. c = h + l - i
      BY <2>2, <2>3, FS_Union
    <3>2. h \in Nat /\ i \in Nat /\ c \in Nat /\ h <= a + s /\ a \in Nat /\ s \in Nat
            /\ l \in Nat
      BY <2>3
    <3> HIDE DEF h, i, c, a, s, l
    <3>3. c <= a + s + l
      BY <3>1, <3>2
    <3> QED BY <3>3, <2>1 DEF c
  <2>5. sends["true"] = s /\ l <= sends["false"] /\ sends["false"] \in Nat
    BY <1>1 DEF SendsInv
  <2> DEFINE c == Cardinality(accepted)
  <2>6. c \in Nat
    BY <2>1, <2>3
  <2>7. c <= sends["true"] + sends["false"] + a
    <3> HIDE DEF c, a, s, l
    <3> QED BY <2>3, <2>4, <2>5, <2>6 DEF c
  <2> QED BY MailCount, <2>1, <2>5, <2>7
             DEF SendsAreCounted, Email!SendsAreCounted, Awaited, Succeeded
<1> QED BY <1>1, MailAlways, PTL

(***************************************************************************)
(* A behaviour of MCServices is one service's: it is one of each service,  *)
(* which stutters but for the service it is about.                         *)
(***************************************************************************)
LEMMA ServicesSteps ==
  [MCNext]_mcVars => /\ [Next]_vars
                     /\ [Auth!Next]_Auth!vars
                     /\ [Disk!Next]_Disk!vars
                     /\ [Products!Next]_Products!vars
                     /\ [Email!Next]_Email!vars
<1> SUFFICES ASSUME [MCNext]_mcVars
             PROVE  /\ Next \/ UNCHANGED vars
                    /\ Auth!Next \/ UNCHANGED authVars
                    /\ Disk!Next \/ UNCHANGED diskVars
                    /\ Products!Next \/ UNCHANGED productVars
                    /\ Email!Next \/ UNCHANGED emailVars
  BY DEF Auth!vars, Disk!vars, Products!vars, Email!vars,
     authVars, diskVars, productVars, emailVars
<1>1. CASE MCNext
  BY <1>1 DEF MCNext
<1>2. CASE UNCHANGED mcVars
  BY <1>2 DEF mcVars
<1> QED BY <1>1, <1>2

(***************************************************************************)
(* What TLC explores of MCServices is of each service a behaviour of its   *)
(* own specification, so that a theorem about Tokens, Files, Catalog, Mail *)
(* or Profile holds of the run.                                            *)
(***************************************************************************)
THEOREM ServicesImplementEach ==
  MCSpec => Spec /\ Auth!Spec /\ Disk!Spec /\ Products!Spec /\ Email!Spec
<1>1. MCInit => Init /\ Auth!Init /\ Disk!Init /\ Products!Init /\ Email!Init
  BY DEF MCInit
<1> QED BY <1>1, ServicesSteps, PTL
        DEF MCSpec, Spec, Auth!Spec, Disk!Spec, Products!Spec, Email!Spec

ServicesParameters ==
  TokensParameters /\ FilesParameters /\ CatalogParameters /\ MailParameters

(***************************************************************************)
(* All services keep their types, for any number of requests, clients,     *)
(* workers and files.                                                      *)
(***************************************************************************)
THEOREM ServicesTypesCorrect == ASSUME ServicesParameters PROVE MCSpec => []Types
<1>1. TokensParameters /\ FilesParameters /\ CatalogParameters /\ MailParameters
  BY DEF ServicesParameters
<1>2. Spec /\ Auth!Spec /\ Disk!Spec /\ Products!Spec /\ Email!Spec
        => /\ []TypeOK /\ []Auth!TypeOK /\ []Disk!TypeOK
           /\ []Products!TypeOK /\ []Email!TypeOK
  BY <1>1, TypeCorrect, TokensTypesCorrect, FilesTypesCorrect, CatalogTypesCorrect,
     MailTypesCorrect, PTL
<1>3. TypeOK /\ Auth!TypeOK /\ Disk!TypeOK /\ Products!TypeOK /\ Email!TypeOK => Types
  BY DEF Types
<1> QED BY <1>2, <1>3, ServicesImplementEach, PTL

=============================================================================
