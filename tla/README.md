# Broken Crystals in TLA+

This directory holds a specification of the Broken Crystals server
(`src/brokencrystals`, a NestJS application with a React client): TLA+ modules
of the parts that keep state and run concurrently, TLC configurations that
check them on small instances, and proofs that TLAPS checks for every value of
the constants. `PROJECT.json` lists the runs, the mutants that show each
property can fail, the lines of source each definition stands for, the hazards
of the code and the theorems.

    tlc -workers 2 -config MCCluster.cfg Cluster     # one run
    tlapm ClusterProofs.tla                          # one module of proofs

Paths below are relative to `src/brokencrystals`.

## The system

One primary process forks a worker per CPU (`src/main.ts`). Every worker is a
whole server: HTTP (REST and GraphQL) on 3000, gRPC on 5000, over one Postgres
database, one Keycloak realm, a MailCatcher and the local disk. Workers share
no memory; requests inside a worker share its event loop and interleave at each
`await`. No handler opens a transaction that spans two statements of its own,
so what a handler reads may be gone when it writes.

| Component | State it keeps | Operations | What is hard | What makes it correct |
|---|---|---|---|---|
| Testimonials service | table `testimonial` | create (select, delete, insert), list, count | three statements without a transaction | the board stays near `MAX_LIMIT` and loses only its oldest |
| Sign-up and profiles | table `user`, Keycloak's users, `user.registrations` | basic and OIDC sign-up; profile and photo read, changed, deleted | look-up before insert; a promise nobody awaits; lost answers; read, assign, flush | an answer 201 means a user; no row from a late sign-up; a field acknowledged stays |
| Keycloak client | the discovered metadata | discovery, register, generate a token, verify a token | retries with growing pauses, no timeouts | keys are never stale; sign-ups are told apart by Keycloak |
| Processes and start-up | worker processes | fork, boot, discover, listen, die | crash and restart during outages | the cluster comes back, and soon |
| Token guard | none of its own, `auth.attempts` | try the handler's processor, then the bearer processor | keys in flight while Keycloak rotates | what the counter says of the requests; keys no older than the request |
| Login | none (tokens go to the client), the cookie `_csrf` | login by nine schemes, their validation, two CSRF flows | a clock of milliseconds and an `exp` of seconds; one cookie for all tabs | a token is good for an hour; each scheme accepts its own; the latest form's CSRF token goes with the cookie |
| Products | table `product`, `product.views`, `product.searches` | lists, search, a view by REST, GraphQL and gRPC | three paths to one column; a worker stops with views in flight | no acknowledged view is lost; a worker that stops has exported what it answered |
| Mail | MailCatcher's mailbox, `email.sends` | send, list, delete | a lost acknowledgement; list, then one fetch per mail | the counter against the mails taken; deleting deletes |
| Files | the disk | read by three transports, upload, hidden upload, delete | check, then use; write in place | a read that meets no upload is of one whole version |
| Chat | the widget's list | query | several queries in flight, updates batched until a render | no message is lost or moved, each answer follows its question |
| Client session | session and local storage | two logins, 401, logout, page loads | requests in flight over a change of user, several tabs | what is remembered is one user's |
| Storefront pages | React state | fetch lists and counts, post, upload | answers out of order, failed or missing | the page shows what was asked for last; what it offers exists |
| Telemetry | counters, spans, the exporter | record, export, flush on SIGTERM | exit with work in flight | what happened is counted and exported |
| Persistence | the tables | entities, configuration | no unique index on `user.email` | modelled with its users |
| App, partners, subscriptions, safe files | none | answer from the input | nothing concurrent | not modelled |
| Request plumbing | none | headers, errors, parameters | nothing concurrent | not modelled |
| Deployment | containers | `compose up`, `restart: always` | order of start | the server starts whatever the order |

Components meet in few places. The guard, sign-up and login call the Keycloak
client, which calls Keycloak over HTTP; sign-up and testimonials go to the
database through MikroORM's `EntityManager` (one fork of it per HTTP request);
every service reports to `TelemetryService`; an unhandled rejection in any
handler ends the worker and with it every other request the worker handles,
which is why sign-up has workers in its model.

## Modules

### Testimonials

`TestimonialsService.createTestimonial` (`src/testimonials/testimonials.service.ts:22-55`).
`Creators` are the requests that can be in it at once, over any number of
workers. `table` is the table, `pc[c]` the statement request `c` waits for,
`keep[c]` the ids its delete will spare, `stamp[c]` the `createdAt` of the
entity it constructed. `SelectRoom` and `SelectFull` are the select and the
branch on the number of rows, `DeleteOld` the delete and the construction of
the entity, `Insert` the flush, `Fail` a statement that is rejected or the
death of the worker. `created_at` is `timestamptz(0)`: time is a number of
seconds, rows of one second come in any order, and `Newest(n)` is therefore a
set of sets of ids. The GraphQL resolver and the REST controller call the same
method; `findAll` and `count` only read. `since[c]` remembers how far the table
had come when request `c` read it.

- `TableBound`: the table has at most `MaxLimit - 1 + Cardinality(Creators)`
  rows, so the overshoot is limited by the overlap.
- `PendingBound`: the form of it that steps preserve; rows still to be inserted
  count as rows.
- `LoneRequestRestoresTheLimit`: a request that nobody overlaps deletes all but
  the newest `MaxLimit - 1` rows and leaves the table within the limit,
  whatever overlapping requests, failures and deaths did before. `LoneInv` says
  why.
- `ReadNewestStay`: a delete by an overlapped request goes by a stale list and
  takes rows inserted since, the newest there are; of the rows the request has
  read, it takes none that is newer than one it spares.
- `ImplementsBoard`: with one request at a time the service implements
  `TestimonialBoard`, the abstract board that takes down only its oldest posts,
  only when full. `SoleInv` says why.

### Accounts

Sign-up by `POST /api/users/basic` and `POST /api/users/oidc`
(`src/users/users.controller.ts:343-407`, `src/users/users.service.ts:34-75`,
`src/keycloak/keycloak.service.ts:146-208`). Each request has a route, an
e-mail and the worker that handles it. `rows` is the user table (a row is named
by the request that inserted it, since nothing else in a row matters here),
`realm` the e-mails Keycloak knows, `counted` the calls of
`recordUserRegistration`, `reply` what the client heard. A statement that
commits and its acknowledgement are two steps (`Insert`, then `InsertSucceeds`
or `InsertFails`), and so are Keycloak's creation of a user and its answer: an
answer can be lost after the fact. A status of Keycloak's own is passed on
(`RegisterConflicts`, and `RegisterRefused` for all but 409, for which `Refusal`
stands), a connection that fails or breaks is a 500 (`RegisterFails`). `Keycloak`
is the steps that wait for Keycloak and `Statement` those that wait for the
database. The OIDC route answers 201 and leaves
`createUser` behind (`bgLookup`, `bgInsert`, `bgInserted`); when that promise
rejects, Node 18 ends the process (`Down`), the primary forks another (`Fork`),
and clients of the other requests see their connection reset. `late` remembers
the requests that arrived when their e-mail already had a row.

- `AcknowledgedHasRow`: an OIDC sign-up answered 201 has its user in Keycloak
  and a row, unless its `createUser` still runs or died with its worker.
- `OneAcknowledgement`: two OIDC sign-ups of one e-mail are not both answered 201.
- `LateSignupsAddNoRow`: duplicates come from overlap only.
- `SuccessesAreRows`: the successes counted are the rows whose sign-up was
  answered 201 and ran to its end.
- `EverySignupEnds`: an accepted sign-up is answered or cut off with its worker,
  unless Keycloak leaves it without an answer for ever; a basic sign-up and the
  `createUser` behind a 201 do not depend on Keycloak and always end.
- `EmailsAreUnique` and `ExistingUserConflicts` are what the routes document and
  the code does not do; see the findings.

Retries by a client are further requests of the same e-mail.

### Cluster

The primary and its workers (`src/main.ts:90-320`) and Keycloak's discovery
(`src/keycloak/keycloak.service.ts:104-113,216-238`). `stage[w]` is where the
worker in slot `w` is, `count[w]` its failed tries, `pause[w]` what is left of
its boot or of `setTimeout(2 ** count * 120)`. Time is counted in units of
240 ms, the first pause; whatever can be done at once is done before time
passes (`Ready` holds `Tick` back), because a failed try takes far less than a
unit. `keycloak` and `database` are up or down; `Outage`, `Repair` and `Kill`
are the environment. A try has no timeout: it can hang (`Hang`, `hung`) and then
be answered late (`LateAnswer`), break (`Break`) or neither, while time passes
for the other workers. A worker whose database is down fails its bootstrap and
exits, one whose tenth try fails throws and exits, and the primary forks
another on every exit.

- `CalmClusterServes`: once both services have answered, and no connection has
  broken, for as long as the longest pause or boot, every worker serves, but for
  those killed since and those whose try hangs.
- `PatientWorkers`: a worker gives up only after all its pauses, about two
  minutes with ten tries, whether its tries were refused or broke.
- `BackoffInv`: why both hold.
- `ClusterComesUp`: when outages end, every worker comes to serve for good, but
  for one whose try is never answered; no other worker waits for it.

### AuthGuard

`AuthGuard.verifyToken` and `AuthService.validateToken`
(`src/auth/auth.guard.ts:25-82`, `src/auth/auth.service.ts:126-156`) with the
bearer processor and `KeyCloakService.verifyToken`. A token is of a kind: absent,
accepted by the handler's own processor, accepted by it with a null payload, a
token signed with one of Keycloak's keys, or anything else. The processors'
cryptography is this choice of kind. A request the first processor refuses
fetches Keycloak's keys (`KeysAnswered`) and is judged with them
(`BearerAccepts`, `BearerRejects`) while `Rotate` may change what Keycloak
publishes. `attempts` is the metric `auth.attempts`; in the code it has one
series per processor type, which the model adds up.

- `AttemptsAddUp`: what the metric says of the requests at any moment; one
  refusal is two failures, and a bearer token let in has left one failure.
- `BearerKeyWasPublished`: a bearer token is let in only with a key Keycloak
  published since the request came. `FetchedWasPublished` says why.

That every request is judged in the end is not stated: the fetch of the keys has
no timeout either, so a guard waits for as long as Keycloak keeps the connection.

### Tokens

The login routes of `AuthController` and the nine token processors
(`src/auth/auth.controller.ts`, `src/auth/jwt/`). A processor is a record: the
key it signs with, the one it verifies with, the header it needs and whom it
asks for the key. `tokens[c]` are what client `c` got from its latest login,
`verdict[c]` the latest judgement. `LoginBasicGoesOn`, `IssueRsa` and
`IssueScheme` are the awaits of a login, each of which can fail;
`Present`, `Asked`, `Judge` and `Bearer` those of a guarded request. `now` is a
clock of ticks, `TicksPerSecond` of them a second, while `exp` is in seconds
(`auth.controller.ts:718`): the rounding is in the model.

- `AcceptedForAnHour`: an RSA token is accepted until one second short of its
  lifetime at least, and never beyond it, whenever in a second it was issued
  or presented.
- `SchemesAcceptTheirOwn`: what a scheme's login issues its validation accepts,
  if the host of the key answers; the token of another scheme only where the two
  share key and header. What is not RSA has no `exp`.

### CsrfLogin

The login form's CSRF modes (`client/src/pages/auth/Login/Login.tsx`), the two
routes that hand out tokens and set `_csrf`, and `CsrfGuard`. `csrf[t]` is the
token in a tab's state, `cookie` the browser's, `loads` the fetches under way;
the cookie is set when the headers come (`SetCookie`), the state later
(`TokenArrives`). A full load of another page takes the fetches of a tab with
it; the router's link to the registration page (`Login.tsx:245`) does not, and
they still set the cookie, though no state (`Leave`, `live`).

- `LastFetchMatches`: while fetches do not overlap or fail, the tab that
  fetched last holds the browser's cookie, unless it has left the form. For any
  other tab this is false, and its login is refused.

### Session

The session of the client: e-mail and token in the `sessionStorage` of each tab
and in the one `localStorage`, the pages that read them and the requests under
way (`makeApiRequest.ts`, `Login.tsx`, `LoginNew.tsx`, `PasswordCheck.tsx`,
`Sign.tsx`, `Userprofile.tsx`, `AppRoutes.tsx`). A flight carries what its
continuation closed over; a full load (`Load`) ends the continuations of a tab,
a link of the router (`FollowLinks`) does not, nor does the profile page's own
way to the login form when it is rendered without an e-mail or a user id
(`LedToLogin`). `SendGuarded` stands for every request a page sends with the
token. `ClearBoth` is the 401 branch,
`NothingComes` the error without a response, at which the handler of errors
itself throws, or a user not found.

- `RememberedPair`: the e-mail and the token in the shared storage are of one
  user, unless a tab sent a second login while it awaited a first.
- `CheckedUserIsSignedIn` is what the error message promises and the code does
  not do; see the findings.

### Profile

The handlers of `UsersController` that read a user and those that assign fields
and flush (`src/users/users.service.ts:77-174`). `found[r]` is the snapshot in
the entity manager of request `r`, and `ChangeSet` what MikroORM writes: the
fields assigned that differ from the snapshot. Whether a property removed with
`delete` (`deletePhoto`) is part of the change set is left open. A handler that
refuses at once is `Refuse` with the status of each of its branches.

- `AcknowledgedFieldsStay`: a field that was assigned and acknowledged keeps its
  value until another request that assigns the same field flushes: whole rows
  are read, but only differences are written.

### Catalog

Products: views by REST, gRPC and GraphQL, the lists and the search
(`src/products/`), with the workers they run on and the shutdown of
`tracing.js`. `views` is the column, `counted[w]` and `searched[w]` the two
counters of a worker, `exported[w]` what its reader has exported. Only the
GraphQL mutation counts a view, before its update (`Arrive`). `Shutdown`,
`Flush` and `Exit` are the handler of SIGTERM; requests go on until `Exit` cuts
them. A request that is refused for its parameters is `Refused`; a search that
fails is answered 200 with an error object. `Limit` is the largest value of the
32-bit column, where the update fails instead of wrapping.

- `ViewsAddUp`: no acknowledged view is lost and none is counted that was not
  sent; a list shows at least the views acknowledged before it was asked for.
- `StoppedWorkersExported`: a worker that was stopped, and whose last export went
  through, has exported each GraphQL view it had answered when it was told to.

### Files

`FileController`, `FileService`, `HiddenUploadController` and
`CloudProvidersMetaData` over the directory (`entry`) and the contents (`data`) of
the disk. `access` and the opening of the stream are two steps, an upload
truncates the file and writes it chunk by chunk at its own offset, an unlink
takes the name and leaves the file to those who have it open. Each of the three
routes that read takes a path, or an address whose text one of the cloud
`Providers` has, or any other address, which is fetched (`Load`, `Fetch`). The steps of the file
system and of Fastify's streaming are external.

- `ReadsAreWhole`: a read answered 200 that met no upload, of a file whose latest
  upload met no other and ended, is of one version from end to end, whatever
  deletions and new files of the name happened meanwhile. Reads that do meet an
  upload can be of anything; the code promises nothing for them.

### Mail

`EmailController` and `EmailService` over the box of MailCatcher: sending, with a
mail that is taken (`Accept`) and its acknowledgement (`Sent`, `SendFails`) as two
steps; listing, and fetching one source after the other; deleting. `Clear` is
somebody else emptying the box.

- `SendsAreCounted`: every success of `email.sends` is a mail MailCatcher took,
  and a mail it took is a success, a failure whose news was lost, or awaited.
- `DeletedMailsAreGone` is what the route documents and the code does not do; see
  the findings.

### ChatWidget

The chat of the client (`client/src/pages/chat/ChatWidget.tsx`) with the route
behind it. `chat` is the list as rendered, `queued` the updates of answers React
has not rendered yet. A key press works on the rendered list and replaces the
state, so answers still queued are lost (`dropped`); answers append with a
function of the state.

- `ChatKeepsUp`: no message of the user is lost or moved, each answer is shown
  once and after its question unless it was dropped in that way, and the flag
  says loading only while an answer is awaited or about to be rendered.

### TestimonialsPage, Storefront, HiddenUpload

Three pages with requests in flight. `TestimonialsPage`: the list and its two
counts, fetched at first and for each new testimonial; a list is the number of
testimonials it was read at, so one list is as good as a later one or it is not.
`Storefront`: the products of `Marketplace.tsx` with the dates of
`DatePicker.tsx`, and its upload. `HiddenUpload`: selection, preview, upload. An
answer may be an error object (`makeApiRequest` resolves with one) or not come
at all; the products page throws on the former and is gone.

- `OwnTestimonialShown`: once no fetch is in flight, what is shown was read no
  earlier than the page's latest answered testimonial was stored, unless a fetch
  failed or was overtaken, or the same form was sent twice (the second answer
  then sets the same object, and no effect runs).
- `OneChoiceBehind`: the products are those of the dates before the last choice,
  under the same condition: one choice behind, and never more.
- `OfferedFileWasStored`: the file offered for download is one the server has.
- `ResultIsSelected`: the picture shown as the result of an upload is the one
  selected. The disabled inputs are why. Previews have no such guard: that of
  an earlier selection may come later and stay.

### MCPages, MCServices, MCSession

The first two join modules that share no state for one run each: `part` names the one a
behaviour is about and the others keep their initial state, so the state space
is the sum of theirs and not the product. One of them is extended (`Profile` in
`MCServices`, `Storefront` in `MCPages`), the others are instances; a property
of an instance has its module's name, and `Types` joins the type invariants.
`MCSession` only names the symmetry of `Session`.

## Runs

| Run | Module, configuration | Instance | States |
|---|---|---|---|
| `testimonials_race` | `MCTestimonials`, `MCTestimonialsRace.cfg` | 3 requests at once, limit 3, 6 inserts, 2 seconds | 227,175 |
| `testimonials_board` | `MCTestimonials`, `MCTestimonialsBoard.cfg` | 1 request at a time, limit 5, 8 inserts, 3 seconds | 7,648 |
| `accounts` | `MCAccounts`, `MCAccounts.cfg` | 3 sign-ups of one e-mail, 2 workers | 482,474 |
| `accounts_unique` | `MCAccounts`, `MCAccountsUnique.cfg` | 2 sign-ups, 2 e-mails, 1 worker | violation |
| `accounts_conflict` | `MCAccounts`, `MCAccountsConflict.cfg` | 2 sign-ups, 2 e-mails, 1 worker | violation |
| `cluster` | `Cluster`, `MCCluster.cfg` | 2 workers, 5 tries, 3 outages, kills or tries that hang | 143,818 |
| `auth_guard` | `AuthGuard`, `MCAuthGuard.cfg` | 2 requests, 2 keys, any number of rotations | 22,495 |
| `pages` | `MCPages`, `MCPages.cfg` | per page 2 tabs, 3 fetches, 4 chat messages, 2 posts, 3 date choices, 2 uploads, 4 selections | 3,085,921 |
| `services` | `MCServices`, `MCServices.cfg` | 1 client over 3 seconds of half-second ticks, 3 file requests on one path, 2 product requests on 2 workers, 3 mail requests, 2 requests on a user's row | 1,014,114 |
| `session` | `MCSession`, `MCSession.cfg` | 2 tabs, 2 users, 2 requests under way | 2,101,675 |
| `mail_delete` | `Mail`, `MCMailDelete.cfg` | 2 requests | violation |
| `session_retry` | `Session`, `MCSessionRetry.cfg` | 1 tab, 2 users, 1 request under way | violation |

Why these bounds are enough to meet the interesting cases:

- `testimonials_race`: three requests can overlap pairwise and all at once, and
  five rows exceed the limit of three by the full overlap, so `TableBound` is
  reached with equality. Six ids fill the table past the limit and still leave
  lone requests to bring it back; two different seconds give both ties and
  strict order. The requests are interchangeable, hence the symmetry.
- `testimonials_board` uses the code's limit of 5; eight inserts fill the
  board and make room in it three times.
- `accounts`: one e-mail is the hard case (different e-mails meet only through
  the worker they share, which the second worker and `Down` cover); three
  sign-ups allow a pair that overlaps and a late one. The symmetry of the
  violation runs is not used here, since this run checks liveness.
- `cluster`: five tries have pauses of 1, 2, 4 and 8 units, so outages meet
  workers in different pauses; three faults allow an outage of each service and
  a kill, a try that hangs, breaks and fails again in an outage, or a repeated
  outage during the recovery from the first. The code's
  ten tries (pauses up to 61 s) only lengthen the longest pause; the theorems
  hold for every number of tries.
- `auth_guard`: two requests suffice for one to use what the other fetched, two
  keys for a rotation that goes there and back.

- `pages`: two tabs are needed for a cookie that is not a tab's own, two
  answers for one that overtakes another, and one more fetch or post for what
  comes after; four messages let an answer be dropped, and shown, between others.
- `services`: tokens are compared with the clock and with nothing of another
  client's, so one client suffices; two ticks a second are the least that
  rounding needs, and three seconds outlast a lifetime of two. Three requests on
  one path are a reader, an upload and a deletion, or two uploads and a reader.
  Two views meet on one worker or on two; a limit of three with columns that
  start near it makes one fail. Three mail requests are two sends and a list or
  a deletion. Two requests on a user's row are a pair that crosses, field by field.
- `session`: two tabs, because the shared storage is between tabs; two users,
  because mixing takes two; two requests under way in all are a late refusal and
  a login.

Tabs and users are interchangeable in `session`, the file requests and
the product requests in `services`; none of these runs checks liveness.

The first seven runs leave deadlock checking on: a clock, a rotation, a kill or a
fork is possible in every state in which the requests of a run are done. In
`pages`, `services`, `session` and `mail_delete` it is off, because a behaviour
stops when its bounds are used up: no more messages, posts, requests or ticks.

### Fairness

Safety needs none, and only two modules state any.

`Accounts`: weak fairness of `Statement(r)`, the steps that wait for the
database. It is an assumption on Postgres, which answers a statement or breaks
the connection; the event loop then runs the continuation. The steps that wait
for Keycloak (`Keycloak(r)`) are not fair: `axios.get` and `axios.post` set no
timeout (`src/httpclient/httpclient.service.ts:9,28`), so that a Keycloak that
takes a connection and never answers keeps a sign-up waiting, and
`EverySignupEnds` says so. Arrivals, kills and forks are not fair.

`Cluster`: weak fairness of time and of the steps of each worker, and of
`Repair`, because `compose.yml` restarts the containers and the primary forks on
every exit; without `Repair` a Keycloak that stays down keeps the workers in
their cycle for ever, as it does in the code. Neither the late answer to a try
that hangs nor the end of its connection is fair.

The other modules assume none. `AuthGuard` waits for Keycloak's keys without a
timeout, in the client no request has a timeout, and in the other services every
request ends or waits for a peer that may stay silent: nothing there must
eventually happen.

## Proofs

All proofs are by TLAPS. They assume of the constants: the sets of requests are
finite, `MaxLimit > 1`, `MaxTries > 1`, bounds are naturals, there is a tab, the
keys are not one of the other kinds of token. `Cluster` also assumes three
facts about powers of two (`PowersAssumption`) that the provers do not know;
TLC evaluates them for the run's constants. What the modules of `pages` and
`services` assume is a hypothesis of their theorems (`StoreParameters`,
`TokensParameters` and so on), since the runs instantiate those modules: there is
a worker, a path, a chunk; the names of the original file, of no file and of a
hole are not those of requests; all bounds are naturals. The constants of the
configurations satisfy them.

A run of `MCPages` or `MCServices` is about one page or service at a time.
`PagesImplementEachPage` and `ServicesImplementEach` say that each of its
behaviours is one of every module's own `Spec`, so that the theorem about the
module, proved of its `Spec`, is also about what the run explores.

| Module | Theorem | Argument |
|---|---|---|
| `TestimonialsProofs` | `TypeCorrect` | by induction over the steps |
| | `PendingCorrect`, `TableStaysBounded` | `PendingBound`: `TableBound` alone is not preserved, because a request that found room still has to insert |
| | `LoneRequestsStayCurrent`, `LoneRequestsRestoreTheLimit` | `LoneInv`: while a request is alone nothing changes the table between its statements, so what it selected is still the newest |
| | `ReadNewestAlwaysStay` | inductive with `TypeOK`: other requests only add rows with later ids and delete, which takes nothing from what the condition says of the rows left |
| | `SoleRequestsStayCurrent`, `SoleRequestsImplementBoard` | `SoleInv` for one creator; each step is a step of the board or a stutter |
| `AccountsProofs` | `AcknowledgedAlwaysHasRow`, `AlwaysOneAcknowledgement`, `LateSignupsNeverAddRows` | `SignupInv`: where each route can be, that only requests past their insert have rows, and `OneHolder`: of the requests of one e-mail one at most has been registered by Keycloak, answered yet or not. Rows and users of Keycloak only grow, so what holds of a request survives the steps of others (`OtherSignup`) and of its worker's end (`DownSignup`) |
| | `SuccessesAreAlwaysRows`, `TypeCorrect` | `CountInv`: each count against the cardinality of a set of requests; failures against those that have ended, because a worker that dies ends several |
| `ProfileProofs` | `TypeCorrect` | by induction over the steps |
| | `AcknowledgedFieldsAlwaysStay` | `StaysInv`: between its read and its flush a request's snapshot is the row, but for fields that others have flushed; so a field left out of the change set for being equal is equal in the row |
| `ClusterProofs` | `TypeCorrect`, `PausesAddUp` | `BackoffInv`, which bounds `age` |
| | `CalmClustersServe` | `BackoffInv`: what is left of a pause and the calm so far never exceed the longest wait |
| | `WorkersArePatient` | `BackoffInv`: after n tries the pauses add up to 2^n - 1 units, hung or not |
| `AuthGuardProofs` | `TypeCorrect` | by induction over the steps |
| | `AttemptsAlwaysAddUp` | the invariant is inductive with `TypeOK`; lemmas say how the cardinality of the sets of requests changes |
| | `FetchedKeysWerePublished`, `BearerKeysWerePublished` | `FetchedWasPublished` |
| `SessionProofs` | `TypeCorrect` | with the finiteness of `flights`; `FreeSlot` counts the slots in use |
| | `RememberedAlwaysPair` | `PairInv`: a tab has one login under way at most; the form of the password check, and a check sent from it, are of the user whose e-mail the tab stores, if it stores one; no login is under way behind that page. The two storages are written by different requests, so the pair alone is not preserved |
| `PagesProofs` | `AlwaysOneChoiceBehind` | `ProductsInv`: while calm, the newest fetch is under way or is what is shown |
| | `OfferedFilesWereStored` | `FileInv`: an upload known to be stored is on the disk, where files stay, and the file offered is one of those |
| | `LastFetchAlwaysMatches` | `TidyInv`: while fetches are tidy there is one at most, of the tab that fetched last, and the cookie is its own once set; a tab that has left the form while its fetch goes on has no token (`LeftForm`) |
| | `OwnTestimonialAlwaysShown` | `OwnInv`: while nothing failed or was overtaken, the newest fetch is in flight and has read the page's own testimonial or is still to read, or none is in flight and the page shows it; the board only grows (`StoredInv`) |
| | `ChatAlwaysKeepsUp` | `ChatInv`, about the conversation as it will be rendered, `chat \o queued`: its user messages are those sent, in order, and each has exactly one fate, its query in flight, its answer below it, or dropped. Of `chat` alone this is not preserved by a render |
| | `ResultIsAlwaysSelected` | `UploadInv`: the file of the request under way is the one selected, because the inputs are disabled meanwhile |
| | `StoreTypesCorrect`, `LoginTypesCorrect`, `BoardTypesCorrect`, `WidgetTypesCorrect`, `UploadTypesCorrect`, `PagesTypesCorrect` | by induction over the steps of each; for the login also that no fetch answers the error of another |
| `ServicesProofs` | `TokensLastAnHour` | `TokensInv`: every RSA token a client holds, shows or was judged by has the expiry of its time of issue (`AllDated`), so that a judgement compares the clock with it; a second try after a refusal never lets in an RSA token. `WholeSeconds` is what rounding to seconds does |
| | `SchemesAlwaysAcceptTheirOwn` | `TokensInv`: only RSA tokens expire, and of two schemes that share a key one needs no header (`ProcessorFacts`) |
| | `ViewsAlwaysAddUp` | `ColumnInv`: the column has grown by no more than the views that reached the database and no less than those acknowledged or committed and not yet answered. The views acknowledged alone are not enough: a commit precedes its answer, and an answer can be lost |
| | `StoppedWorkersAlwaysExported` | `WorkerInv`: each counter is the number of requests of its kind that came to the worker; the last export covers what was counted at the signal, since counters only grow |
| | `ReadsAreAlwaysWhole` | `FilesInv`: a file a name leads to is dirty or holds one version; an upload that met no other is the only one with its file open and has filled it so far with its own chunks (`UploadInv`); a read that met none has a file open that is not dirty, and has streamed a start of it (`ReadInv`). TLC checked `FilesInv` first, with three requests on one path and two on two |
| | `SendsAreAlwaysCounted` | `SendsInv`: each counter against a cardinality. A mail taken is a success, one whose answer is awaited, or one whose news was lost; `ListsInv` keeps the box and its listings without duplicates |
| | `TokensTypesCorrect`, `CatalogTypesCorrect`, `FilesTypesCorrect`, `MailTypesCorrect`, `ServicesTypesCorrect` | by induction over the steps; the bounds of the counters and of `done` need the invariants above |

So every state invariant that a passing run checks is proved for all values of
the constants. Only model-checked are the liveness properties
(`EverySignupEnds`, `ClusterComesUp`): they rest on fairness and on `ENABLED`,
which the provers do not handle. The violations of the findings are
counterexamples of TLC and need no proof.

## Findings

1. `accounts_unique`: two overlapping sign-ups of one e-mail both find no row
   and both insert one. The route documents a conflict
   (`src/users/users.controller.ts:337`), and the index on `user.email` in
   `pg.sql:28` is not unique.
2. `accounts_conflict`: the OIDC route throws `CONFLICT` for an e-mail that has
   a row, but its catch (`src/users/users.controller.ts:401-406`) looks for the
   status at `err.response.status`, where only axios errors have it, and
   answers 500. The route documents 409 (`src/users/users.controller.ts:367-374`).
3. `mail_delete`: `axios.get(url, { method: 'DELETE' })` sends a GET
   (`src/email/email.service.ts:191-195`), so `DELETE /api/email/deleteEmails`
   answers true and every mail stays. Its description reads "Deletes all the
   emails on the mail server" (`src/email/email.controller.swagger.desc.ts:5`).
4. `session_retry`: the 401 of a wrong password clears both storages
   (`client/src/api/makeApiRequest.ts:23-24`) and with them the e-mail that the
   page before had stored; the page asks to "check your credentials and try
   again" (line 28), the second try succeeds with the e-mail of the form, and the
   user comes home with a token and no e-mail, which `AppRoutes.tsx:18` takes for
   signed out.

## Hazards no property covers

Some races of the code are in the models, but nothing in the code or its documents
says what should hold in them, so that the properties exclude the case or allow
its outcome; each is listed with its reason under "hazards" in `PROJECT.json`.
They are: a read that meets an upload (`Files`), a mail removed while the list is
read (`Mail`), the chat's flag with two messages in flight (`ChatWidget`), lists
that overtake each other (`Storefront`, `TestimonialsPage`), a late 401 that clears
a new session and what a failed login leaves in the storage (`Session`), requests
without an answer (every page), the CSRF token of a tab that fetched earlier
(`CsrfLogin`). A guard that waits for Keycloak for ever is in `AuthGuard`, which
states no liveness.

## Abstractions

- A row is what the properties tell apart: for a testimonial its id and time,
  for a user the request that made it. Names, messages and passwords are left out.
- Postgres executes a statement atomically and serves the last commit
  (`READ COMMITTED`); a statement may fail before or after its effect.
- Keycloak's realm has none of the run's e-mails at first, and the user table
  none of their rows. Nobody else deletes users from either.
- gRPC answers before discovery is over (`src/main.ts:298`); this is not a stage
  of its own in `Cluster`, since no property there is about gRPC.
- A token is its key, header and expiry; a file is who wrote each chunk; a list of
  products is the range asked for, a list of testimonials how many there were.
- The clients of `Tokens` share only the clock; those of `Mail` only the box.
- React renders a key press at once and the updates of answers in batches
  (`ChatWidget`); React 18.3 without StrictMode runs an effect once per change.
- The client's `userName` and `user_id` are left out of `Session`: they go with
  the e-mail and are read for display and by the profile page, which goes to the
  login form when there is no `user_id` (`LedToLogin`, possible in any state).
- Bounds: `MaxId` and `MaxClock` (`Testimonials`), `MaxFaults` (`Cluster`),
  `MaxTime` (`Tokens`), `MaxChunks` (`Files`), `MaxLoads` (`CsrfLogin`),
  `MaxMessages` (`ChatWidget`), `MaxForms`, `MaxPosts` and `MaxStored`
  (`TestimonialsPage`), `MaxChoices` and `MaxUploads` (`Storefront`),
  `MaxSelections` (`HiddenUpload`), `MaxFlights` (`Session`). The proofs hold for
  all their values.

## Not modelled, and why

Handlers without state (app, partners, subscriptions, safe files), request
formatting (interceptors, exception filter, query parsing) and static files
have nothing that several steps could get wrong. `KeyCloakService.introspectToken`
and `recordFileUpload` have no caller. Spans and durations are recorded and read
by nobody in the program. In the client: the layout of the product grid and its
filter, static sections, and the registration page, which disables its button
and waits. The parallel start of gRPC and HTTP in a worker (`src/main.ts:298`)
is not a stage of `Cluster`. Vendored code and assets (`client/public`,
`elastic-start-local`) are not part of the program.

## Plan

The modules of the first plan are written and model-checked. What is left, in
the order of its use:

1. Proofs: abstract specifications like `TestimonialBoard` for `Catalog` (a column
   that only grows) and `Mail`, with their refinement; action properties that
   follow from the invariants proved, such as what a step of the guard or of the
   cluster may never do.
2. `Cluster`: a stage in which a worker serves gRPC and not yet HTTP, once there
   is a property that tells the two apart; and the start order of
   `compose.yml`.
3. The registration page of the client, with `Accounts` behind it: the one place
   where the client meets sign-up's 201 before the row.
