------------------------------ MODULE Accounts ------------------------------
(***************************************************************************)
(* Sign-up: POST /api/users/basic and POST /api/users/oidc, handled by     *)
(* several workers over one user table and one Keycloak realm.             *)
(*                                                                         *)
(* A basic sign-up looks the e-mail up and then inserts a row.  An OIDC    *)
(* sign-up looks the e-mail up, registers the user in Keycloak, answers    *)
(* the client and leaves createUser running behind its back: lookup and    *)
(* insert once more, with nobody awaiting the promise.  When that promise  *)
(* rejects, Node ends the worker, and with it every request it handles.    *)
(***************************************************************************)
EXTENDS Naturals, FiniteSets

CONSTANTS
  Requests,  \* the sign-up requests of a run
  Emails,
  Workers

Modes == {"basic", "oidc"}

VARIABLES
  pc,       \* where each request is
  mode,     \* which route it came to
  email,    \* whom it signs up
  host,     \* the worker that handles it
  reply,    \* what its client has heard
  rows,     \* the user table: the requests whose row it holds
  realm,    \* the e-mails Keycloak knows
  up,       \* the workers that run
  counted,  \* calls of recordUserRegistration, by outcome
  late      \* history: requests that came when their e-mail already had a row

vars == <<pc, mode, email, host, reply, rows, realm, up, counted, late>>

fixed == <<mode, email, host, late>>

Exists == "User already exists"

(* Stands for every status of Keycloak's own but 409: 400, 401, 403, ...   *)
Refusal == 400

NoReply == [status |-> 0, message |-> "none"]
Reply(status, message) == [status |-> status, message |-> message]
Reset == Reply(0, "connection reset")

(* Awaiting a statement or an answer; the bg steps run after the reply.    *)
Waiting == {"lookup", "insert", "inserted", "register", "registered"}
Background == {"bgLookup", "bgInsert", "bgInserted"}

TypeOK ==
  /\ pc \in [Requests -> {"new", "done", "killed"} \cup Waiting \cup Background]
  /\ mode \in [Requests -> Modes]
  /\ email \in [Requests -> Emails]
  /\ host \in [Requests -> Workers]
  /\ reply \in [Requests -> [status : {0, 201, Refusal, 409, 500},
                             message : {"none", "connection reset", "created",
                                        "conflict", "error", Exists}]]
  /\ rows \in SUBSET Requests
  /\ realm \in SUBSET Emails
  /\ up \in SUBSET Workers
  /\ counted \in [{"success", "failure"} -> 0 .. Cardinality(Requests)]
  /\ late \in SUBSET Requests

Init ==
  /\ pc = [r \in Requests |-> "new"]
  /\ mode \in [Requests -> Modes]
  /\ email \in [Requests -> Emails]
  /\ host \in [Requests -> Workers]
  /\ reply = [r \in Requests |-> NoReply]
  /\ rows = {}
  /\ realm = {}
  /\ up = Workers
  /\ counted = [success |-> 0, failure |-> 0]
  /\ late = {}

HasRow(e) == \E r \in rows : email[r] = e
Running(w) == {r \in Requests : host[r] = w /\ pc[r] \in Waiting \cup Background}

Goto(r, place) == pc' = [pc EXCEPT ![r] = place]
Answer(r, status, message) == reply' = [reply EXCEPT ![r] = Reply(status, message)]
Finish(r, status, message) == Goto(r, "done") /\ Answer(r, status, message)
Count(outcome) == counted' = [counted EXCEPT ![outcome] = @ + 1]

(* A worker goes down: its requests end where they are, and clients still  *)
(* waiting see the connection reset.                                       *)
Down(w) ==
  /\ up' = up \ {w}
  /\ pc' = [r \in Requests |-> IF r \in Running(w) THEN "killed" ELSE pc[r]]
  /\ reply' = [r \in Requests |->
                 IF r \in Running(w) /\ reply[r] = NoReply THEN Reset ELSE reply[r]]

-----------------------------------------------------------------------------
Arrive(r) ==
  /\ pc[r] = "new"
  /\ host[r] \in up
  /\ late' = IF HasRow(email[r]) THEN late \cup {r} ELSE late
  /\ Goto(r, "lookup")
  /\ UNCHANGED <<mode, email, host, reply, rows, realm, up, counted>>

(* doesUserExist finds a row.  The OIDC route's catch looks for the status *)
(* where only axios errors carry it, and answers 500.                      *)
LookupFindsRow(r) ==
  /\ pc[r] = "lookup"
  /\ HasRow(email[r])
  /\ Finish(r, IF mode[r] = "basic" THEN 409 ELSE 500, Exists)
  /\ UNCHANGED <<fixed, rows, realm, up, counted>>

(* Mutant of LookupFindsNone: nothing is looked up.                        *)
LookupSkipped(r) ==
  /\ pc[r] = "lookup"
  /\ Goto(r, IF mode[r] = "basic" THEN "insert" ELSE "register")
  /\ UNCHANGED <<fixed, reply, rows, realm, up, counted>>

LookupFindsNone(r) ==
  /\ pc[r] = "lookup"
  /\ ~HasRow(email[r])
  /\ Goto(r, IF mode[r] = "basic" THEN "insert" ELSE "register")
  /\ UNCHANGED <<fixed, reply, rows, realm, up, counted>>

(* Mutant of LookupFails: the request is put back where it came from.      *)
LookupRequeued(r) ==
  /\ pc[r] = "lookup"
  /\ Goto(r, "new")
  /\ UNCHANGED <<fixed, reply, rows, realm, up, counted>>

LookupFails(r) ==
  /\ pc[r] = "lookup"
  /\ Finish(r, 500, "error")
  /\ UNCHANGED <<fixed, rows, realm, up, counted>>

-----------------------------------------------------------------------------
(* Keycloak creates the user and its answer is on the way.                 *)
RegisterCreates(r) ==
  /\ pc[r] = "register"
  /\ email[r] \notin realm
  /\ realm' = realm \cup {email[r]}
  /\ Goto(r, "registered")
  /\ UNCHANGED <<fixed, reply, rows, up, counted>>

(* Mutant of RegisterConflicts: a user Keycloak has is as good as created. *)
ConflictIgnored(r) ==
  /\ pc[r] = "register"
  /\ email[r] \in realm
  /\ Goto(r, "registered")
  /\ UNCHANGED <<fixed, reply, rows, realm, up, counted>>

(* Keycloak has the user already and answers 409, which is passed on.      *)
RegisterConflicts(r) ==
  /\ pc[r] = "register"
  /\ email[r] \in realm
  /\ Finish(r, 409, "conflict")
  /\ UNCHANGED <<fixed, rows, realm, up, counted>>

(* Keycloak gives no token or refuses the user: its status is passed on.   *)
RegisterRefused(r) ==
  /\ pc[r] = "register"
  /\ Finish(r, Refusal, "error")
  /\ UNCHANGED <<fixed, rows, realm, up, counted>>

(* No connection, or one that breaks before the answer is back.            *)
RegisterFails(r) ==
  /\ pc[r] \in {"register", "registered"}
  /\ Finish(r, 500, "error")
  /\ UNCHANGED <<fixed, rows, realm, up, counted>>

(* createUser is started and not awaited; the client gets its answer.      *)
RegisterSucceeds(r) ==
  /\ pc[r] = "registered"
  /\ Answer(r, 201, "created")
  /\ Goto(r, "bgLookup")
  /\ UNCHANGED <<fixed, rows, realm, up, counted>>

-----------------------------------------------------------------------------
BgLookupFindsNone(r) ==
  /\ pc[r] = "bgLookup"
  /\ ~HasRow(email[r])
  /\ Goto(r, "bgInsert")
  /\ UNCHANGED <<fixed, reply, rows, realm, up, counted>>

(* Mutant of BgLookupRejects: the rejection is swallowed.                  *)
BgLookupSwallowed(r) ==
  /\ pc[r] = "bgLookup"
  /\ Goto(r, "done")
  /\ UNCHANGED <<fixed, reply, rows, realm, up, counted>>

(* The user exists by now, or the lookup failed: either way the promise    *)
(* rejects and the worker goes down.                                       *)
BgLookupRejects(r) ==
  /\ pc[r] = "bgLookup"
  /\ Down(host[r])
  /\ UNCHANGED <<fixed, rows, realm, counted>>

(* Mutant of Insert: the registration is counted before it is stored.      *)
InsertCountsFirst(r) ==
  /\ pc[r] \in {"insert", "bgInsert"}
  /\ rows' = rows \cup {r}
  /\ Count("success")
  /\ Goto(r, IF pc[r] = "insert" THEN "inserted" ELSE "bgInserted")
  /\ UNCHANGED <<fixed, reply, realm, up>>

(* persistAndFlush commits a row; nothing keeps e-mails apart.             *)
Insert(r) ==
  /\ pc[r] \in {"insert", "bgInsert"}
  /\ rows' = rows \cup {r}
  /\ Goto(r, IF pc[r] = "insert" THEN "inserted" ELSE "bgInserted")
  /\ UNCHANGED <<fixed, reply, realm, up, counted>>

InsertSucceeds(r) ==
  /\ pc[r] = "inserted"
  /\ Count("success")
  /\ Finish(r, 201, "created")
  /\ UNCHANGED <<fixed, rows, realm, up>>

BgInsertSucceeds(r) ==
  /\ pc[r] = "bgInserted"
  /\ Count("success")
  /\ Goto(r, "done")
  /\ UNCHANGED <<fixed, reply, rows, realm, up>>

(* hashPassword or the flush rejects; a flush can also reject because the  *)
(* connection broke after the commit.                                      *)
InsertFails(r) ==
  /\ pc[r] \in {"insert", "inserted"}
  /\ Count("failure")
  /\ Finish(r, 500, "error")
  /\ UNCHANGED <<fixed, rows, realm, up>>

BgInsertFails(r) ==
  /\ pc[r] \in {"bgInsert", "bgInserted"}
  /\ Count("failure")
  /\ Down(host[r])
  /\ UNCHANGED <<fixed, rows, realm>>

-----------------------------------------------------------------------------
(* A worker can be killed from outside; the primary forks another.         *)
Kill(w) ==
  /\ w \in up
  /\ Down(w)
  /\ UNCHANGED <<fixed, rows, realm, counted>>

Fork(w) ==
  /\ w \notin up
  /\ up' = up \cup {w}
  /\ UNCHANGED <<fixed, pc, reply, rows, realm, counted>>

(* The steps that wait for Keycloak, and those that wait for the database. *)
Keycloak(r) ==
  \/ RegisterCreates(r) \/ RegisterConflicts(r) \/ RegisterRefused(r)
  \/ RegisterFails(r) \/ RegisterSucceeds(r)

Statement(r) ==
  \/ LookupFindsRow(r) \/ LookupFindsNone(r) \/ LookupFails(r)
  \/ BgLookupFindsNone(r) \/ BgLookupRejects(r)
  \/ Insert(r) \/ InsertSucceeds(r) \/ BgInsertSucceeds(r)
  \/ InsertFails(r) \/ BgInsertFails(r)

Next ==
  \/ \E r \in Requests : Arrive(r) \/ Keycloak(r) \/ Statement(r)
  \/ \E w \in Workers : Kill(w) \/ Fork(w)

(* Postgres answers a statement or breaks the connection: an assumption on *)
(* the environment.  Keycloak need do neither: axios sets no timeout.      *)
Fairness == \A r \in Requests : WF_vars(Statement(r))

Spec == Init /\ [][Next]_vars /\ Fairness

-----------------------------------------------------------------------------
(***************************************************************************)
(* An OIDC sign-up answered with 201 has its user in Keycloak and a row in *)
(* the table, unless createUser is still at work or its worker has died:   *)
(* nothing else may lose the row, whichever other sign-ups interleave.     *)
(***************************************************************************)
Acknowledged(r) == mode[r] = "oidc" /\ reply[r].status = 201

AcknowledgedHasRow ==
  \A r \in Requests : Acknowledged(r) =>
    /\ email[r] \in realm
    /\ HasRow(email[r]) \/ pc[r] \in Background \cup {"killed"}

(***************************************************************************)
(* Two OIDC sign-ups of one e-mail, however they overlap, are not both     *)
(* told that the user was created: Keycloak decides between them.          *)
(***************************************************************************)
OneAcknowledgement ==
  \A r, s \in Requests :
    Acknowledged(r) /\ Acknowledged(s) /\ email[r] = email[s] => r = s

(***************************************************************************)
(* Nothing keeps e-mails unique in the table, but only sign-ups that began *)
(* before their e-mail had a row can add one, in the foreground or later   *)
(* in the background: rows of one e-mail all come from overlapping         *)
(* sign-ups.                                                               *)
(***************************************************************************)
LateSignupsAddNoRow == rows \cap late = {}

(***************************************************************************)
(* Across failed flushes, lost commits and dying workers, the successes    *)
(* recordUserRegistration has counted are the rows whose sign-up was       *)
(* answered with 201 and ran to its end.                                   *)
(***************************************************************************)
SuccessesAreRows ==
  counted.success =
    Cardinality({r \in rows : pc[r] = "done" /\ reply[r].status = 201})

(***************************************************************************)
(* Every sign-up a worker accepts comes to an end, answered or cut off     *)
(* with its worker, unless Keycloak leaves it without an answer for ever:  *)
(* a basic sign-up always ends, and so does createUser after a 201.        *)
(***************************************************************************)
EverySignupEnds ==
  \A r \in Requests :
    pc[r] = "lookup" ~> \/ pc[r] \in {"done", "killed"}
                       \/ [](mode[r] = "oidc" /\ pc[r] \in {"register", "registered"})

(***************************************************************************)
(* What the controller's responses promise.  Both creating routes document *)
(* a conflict, 'User Already exists': a second user of an e-mail is        *)
(* refused, and a user that exists is answered with 409.                   *)
(***************************************************************************)
EmailsAreUnique ==
  \A r, s \in rows : email[r] = email[s] => r = s

ExistingUserConflicts ==
  \A r \in Requests : reply[r].message = Exists => reply[r].status = 409

=============================================================================
