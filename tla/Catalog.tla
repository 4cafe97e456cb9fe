------------------------------- MODULE Catalog ------------------------------
(***************************************************************************)
(* The views of one product: ProductsController, ProductsResolver and      *)
(* ProductsService on several workers, the column views_count they update, *)
(* the counter product.views of each worker, and what OpenTelemetry has    *)
(* exported of it when a worker is stopped.                                *)
(***************************************************************************)
EXTENDS Naturals, FiniteSets

CONSTANTS
  Requests,
  Workers,
  Limit      \* the largest value of views_count: 2^31 - 1 in the code

VARIABLES
  views,     \* views_count of the product
  at,        \* where each request is
  asks,      \* what it asks: [kind, worker, known]
  reply,     \* its answer
  saw,       \* the views_count a list shows
  up,        \* the phase of each worker
  counted,   \* product.views of each worker, since it started
  searched,  \* product.searches of each worker
  exported,  \* the product.views of each worker that the collector has
  first,     \* history: views_count at the start
  floor,     \* history: views acknowledged before each request
  answered,  \* history: GraphQL views each worker had answered at the signal
  unflushed  \* history: workers killed, or whose last export failed

vars == <<views, at, asks, reply, saw, up, counted, searched, exported,
          first, floor, answered, unflushed>>

ViewKinds == {"rest", "grpc", "graphql"}
Lists == {"products", "latest", "search", "allProducts", "latestProducts"}
Many == Cardinality(Requests)

TypeOK ==
  /\ views \in 0 .. Limit
  /\ at \in [Requests -> {"idle", "sleep", "query", "answer", "end"}]
  /\ asks \in [Requests -> [kind : ViewKinds \cup Lists, worker : Workers, known : BOOLEAN]]
  /\ reply \in [Requests -> {"none", "ok", "error", "errorObject", "cut"}]
  /\ saw \in [Requests -> 0 .. Limit]
  /\ up \in [Workers -> {"up", "flushing", "flushed", "down"}]
  /\ counted \in [Workers -> 0 .. Many] /\ searched \in [Workers -> 0 .. Many]
  /\ exported \in [Workers -> 0 .. Many]
  /\ first \in 0 .. Limit /\ floor \in [Requests -> 0 .. Many]
  /\ answered \in [Workers -> 0 .. Many] /\ unflushed \subseteq Workers

Init ==
  /\ views \in {0, Limit - 1} /\ first = views
  /\ at = [r \in Requests |-> "idle"]
  /\ asks = [r \in Requests |->
               [kind |-> "rest", worker |-> CHOOSE w \in Workers : TRUE, known |-> TRUE]]
  /\ reply = [r \in Requests |-> "none"]
  /\ saw = [r \in Requests |-> 0]
  /\ up = [w \in Workers |-> "up"]
  /\ counted = [w \in Workers |-> 0] /\ searched = counted /\ exported = counted
  /\ floor = [r \in Requests |-> 0]
  /\ answered = [w \in Workers |-> 0]
  /\ unflushed = {}

-----------------------------------------------------------------------------
IsView(r) == asks[r].kind \in ViewKinds
Acknowledged == {r \in Requests : IsView(r) /\ asks[r].known /\ reply[r] = "ok"}
OfWorker(w) == {r \in Requests : asks[r].worker = w}
Alive == {w \in Workers : up[w] # "down"}

telemetry == <<counted, searched, exported>>
process == <<up, answered, unflushed>>

Goto(r, place) == at' = [at EXCEPT ![r] = place]

(* A request arrives at a worker; only the GraphQL mutation counts a view  *)
(* and only searchByName a search, both before they ask the database.      *)
Arrive(r, kind, place) ==
  /\ at[r] = "idle"
  /\ Goto(r, place)
  /\ \E w \in Alive, known \in IF kind \in ViewKinds THEN BOOLEAN ELSE {TRUE} :
       /\ asks' = [asks EXCEPT ![r] = [kind |-> kind, worker |-> w, known |-> known]]
       /\ counted' = IF kind = "graphql" THEN [counted EXCEPT ![w] = @ + 1] ELSE counted
       /\ searched' = IF kind = "search" THEN [searched EXCEPT ![w] = @ + 1] ELSE searched
  /\ floor' = [floor EXCEPT ![r] = Cardinality(Acknowledged)]
  /\ UNCHANGED <<views, reply, saw, exported, first, process>>

ViewProductRest(r) == Arrive(r, "rest", "query")
ViewProductGrpc(r) == Arrive(r, "grpc", "query")
ViewProductGraphql(r) == Arrive(r, "graphql", "query")

(* findAll sleeps for two seconds when it is asked for two years or more.  *)
GetProducts(r) == Arrive(r, "products", "sleep") \/ Arrive(r, "products", "query")
GetLatestProducts(r) == Arrive(r, "latest", "query")
SearchProductsByName(r) == Arrive(r, "search", "query")
AllProducts(r) == Arrive(r, "allProducts", "query")
LatestProducts(r) == Arrive(r, "latestProducts", "query")

(* Dates that are none, a limit that is no number or negative, no name.    *)
Refused(r) ==
  /\ at[r] = "idle"
  /\ Goto(r, "end")
  /\ \E kind \in {"products", "latest", "search"} : asks' = [asks EXCEPT ![r].kind = kind]
  /\ reply' = [reply EXCEPT ![r] = "error"]
  /\ UNCHANGED <<views, saw, telemetry, process, first, floor>>

Slept(r) ==
  /\ at[r] = "sleep"
  /\ Goto(r, "query")
  /\ UNCHANGED <<views, asks, reply, saw, telemetry, process, first, floor>>

Find(r) ==
  /\ at[r] = "query" /\ ~IsView(r)
  /\ saw' = [saw EXCEPT ![r] = views]
  /\ Goto(r, "answer")
  /\ UNCHANGED <<views, asks, reply, telemetry, process, first, floor>>

(* Mutant of Increment: one more than the request had found.               *)
IncrementFound(r) == first + floor[r] + 1

(* SET views_count = views_count + 1, evaluated under the row's lock.      *)
Increment(r) == views + 1

(* updateProduct: the statement commits, or finds no row of that name.     *)
UpdateProduct(r) ==
  /\ at[r] = "query" /\ IsView(r)
  /\ asks[r].known => views < Limit
  /\ views' = IF asks[r].known THEN Increment(r) ELSE views
  /\ Goto(r, "answer")
  /\ UNCHANGED <<asks, reply, saw, telemetry, process, first, floor>>

(* The answer; an error of the database, the overflow of the column among  *)
(* them, or one that comes in place of the news of a commit, which a       *)
(* search answers with status 200 and an object that holds the error.      *)
Answer(r, code) ==
  /\ Goto(r, "end")
  /\ reply' = [reply EXCEPT ![r] = code]
  /\ UNCHANGED <<views, asks, saw, telemetry, process, first, floor>>

Answered(r) == at[r] = "answer" /\ Answer(r, "ok")
QueryFails(r) ==
  /\ at[r] \in {"query", "answer"}
  /\ Answer(r, IF asks[r].kind = "search" THEN "errorObject" ELSE "error")

-----------------------------------------------------------------------------
(* The reader exports what has been counted since the start, every minute. *)
Export(w) ==
  /\ up[w] = "up"
  /\ exported' = [exported EXCEPT ![w] = counted[w]]
  /\ UNCHANGED <<views, at, asks, reply, saw, counted, searched, process, first, floor>>

(* SIGTERM or SIGINT: shutdown is called; requests go on meanwhile.        *)
Shutdown(w) ==
  /\ up[w] = "up"
  /\ up' = [up EXCEPT ![w] = "flushing"]
  /\ answered' = [answered EXCEPT ![w] =
       Cardinality({r \in OfWorker(w) : asks[r].kind = "graphql" /\ reply[r] = "ok"})]
  /\ UNCHANGED <<views, at, asks, reply, saw, telemetry, unflushed, first, floor>>

(* sdk.shutdown exports once more, or rejects and is caught.               *)
Flush(w) ==
  /\ up[w] = "flushing"
  /\ up' = [up EXCEPT ![w] = "flushed"]
  /\ \/ exported' = [exported EXCEPT ![w] = counted[w]] /\ UNCHANGED unflushed
     \/ unflushed' = unflushed \cup {w} /\ UNCHANGED exported
  /\ UNCHANGED <<views, at, asks, reply, saw, counted, searched, answered, first, floor>>

Gone(w) ==
  /\ up' = [up EXCEPT ![w] = "down"]
  /\ LET cut == {r \in OfWorker(w) : at[r] \notin {"idle", "end"}} IN
     /\ at' = [r \in Requests |-> IF r \in cut THEN "end" ELSE at[r]]
     /\ reply' = [r \in Requests |-> IF r \in cut THEN "cut" ELSE reply[r]]
  /\ UNCHANGED <<views, asks, saw, telemetry, answered, first, floor>>

(* Mutant of Exit: the process ends without waiting for the export.        *)
ExitAtOnce(w) == up[w] = "flushing" /\ Gone(w) /\ UNCHANGED unflushed

(* process.exit cuts the requests in flight.                               *)
Exit(w) == up[w] = "flushed" /\ Gone(w) /\ UNCHANGED unflushed

Kill(w) == up[w] # "down" /\ Gone(w) /\ unflushed' = unflushed \cup {w}

-----------------------------------------------------------------------------
Next ==
  \/ \E r \in Requests :
       \/ ViewProductRest(r) \/ ViewProductGrpc(r) \/ ViewProductGraphql(r)
       \/ GetProducts(r) \/ GetLatestProducts(r) \/ SearchProductsByName(r)
       \/ AllProducts(r) \/ LatestProducts(r) \/ Refused(r)
       \/ Slept(r) \/ Find(r) \/ UpdateProduct(r) \/ Answered(r) \/ QueryFails(r)
  \/ \E w \in Workers : Export(w) \/ Shutdown(w) \/ Flush(w) \/ Exit(w) \/ Kill(w)

Spec == Init /\ [][Next]_vars

-----------------------------------------------------------------------------
(***************************************************************************)
(* Views of any transport, on any worker, add up: the column has grown by  *)
(* every view that was acknowledged and by no more than were sent, and a   *)
(* list shows at least the views acknowledged before it was asked for, up  *)
(* to the limit of the column, where views fail instead of wrapping.       *)
(***************************************************************************)
ViewsAddUp ==
  /\ views - first >= Cardinality(Acknowledged)
  /\ views - first <= Cardinality({r \in Requests : IsView(r) /\ asks[r].known /\ at[r] # "idle"})
  /\ \A r \in Requests :
       ~IsView(r) /\ reply[r] = "ok" => saw[r] >= first + floor[r]

(***************************************************************************)
(* A worker that was told to stop, and whose last export went through, has *)
(* exported every GraphQL view it had answered by then, although it went   *)
(* on serving and was cut off later; and no worker exports a view that it  *)
(* was not sent.                                                           *)
(***************************************************************************)
StoppedWorkersExported ==
  \A w \in Workers :
    /\ up[w] = "down" /\ w \notin unflushed => exported[w] >= answered[w]
    /\ exported[w] <= Cardinality({r \in OfWorker(w) :
                                     asks[r].kind = "graphql" /\ at[r] # "idle"})

=============================================================================
