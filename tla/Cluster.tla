------------------------------ MODULE Cluster -------------------------------
(***************************************************************************)
(* The processes of the server in production: a primary that forks one     *)
(* worker per CPU and another for every worker that exits, and workers     *)
(* that boot, discover Keycloak with a growing pause between tries, and    *)
(* then listen for HTTP requests.  A try of discovery has no timeout: when *)
(* Keycloak takes the connection and does not answer, it hangs.            *)
(*                                                                         *)
(* Time passes in units of 240 ms, the first pause.  What a worker can do  *)
(* at once it does before time passes: the steps between two pauses take   *)
(* far less than a unit.                                                   *)
(***************************************************************************)
EXTENDS Naturals

CONSTANTS
  Workers,    \* one per CPU
  MaxTries,   \* tries of discovery before it throws
  BootTime,   \* units from fork to discovery
  MaxFaults   \* bound: outages, workers killed and tries that hang

ASSUME TriesAssumption == MaxTries \in Nat /\ MaxTries > 1
ASSUME TimesAssumption == BootTime \in Nat \ {0} /\ MaxFaults \in Nat

(* What the provers are not taught about powers of two. *)
ASSUME PowersAssumption ==
  \A n \in 0 .. MaxTries :
    /\ 2 ^ n \in Nat \ {0}
    /\ 2 ^ (n + 1) = 2 * 2 ^ n
    /\ \A m \in 0 .. n : 2 ^ m <= 2 ^ n

VARIABLES
  stage,     \* where each worker is
  count,     \* failed tries of its discovery
  pause,     \* units until it goes on
  age,       \* history: units its discovery has paused
  keycloak,  \* does Keycloak answer?
  database,  \* does Postgres?
  calm,      \* history: units both have answered, up to LongestWait
  faults     \* outages, kills and hung tries so far

vars == <<stage, count, pause, age, keycloak, database, calm, faults>>

(* setTimeout(2 ** count * 120) after count failed tries. *)
Pause(n) == 2 ^ (n - 1)
LongestPause == Pause(MaxTries - 1)

(* Every pause of a discovery that fails, together. *)
Patience == 2 ^ (MaxTries - 1) - 1

(* The longest a worker ever has to wait for: its boot or a pause. *)
LongestWait == IF BootTime > LongestPause THEN BootTime ELSE LongestPause

TypeOK ==
  /\ stage \in [Workers -> {"gone", "booting", "asking", "hung", "failed",
                         "asleep", "serving"}]
  /\ count \in [Workers -> 0 .. MaxTries - 1]
  /\ pause \in [Workers -> 0 .. LongestWait]
  /\ age \in [Workers -> 0 .. Patience]
  /\ keycloak \in BOOLEAN
  /\ database \in BOOLEAN
  /\ calm \in 0 .. LongestWait
  /\ faults \in 0 .. MaxFaults

Init ==
  /\ stage = [w \in Workers |-> "booting"]
  /\ count = [w \in Workers |-> 0]
  /\ pause = [w \in Workers |-> BootTime]
  /\ age = [w \in Workers |-> 0]
  /\ keycloak \in BOOLEAN
  /\ database \in BOOLEAN
  /\ calm = 0
  /\ faults = 0

environment == <<keycloak, database, calm, faults>>

Goto(w, place) == stage' = [stage EXCEPT ![w] = place]

-----------------------------------------------------------------------------
(* The primary hears of every exit and forks. *)
Fork(w) ==
  /\ stage[w] = "gone"
  /\ Goto(w, "booting")
  /\ pause' = [pause EXCEPT ![w] = BootTime]
  /\ UNCHANGED <<count, age, environment>>

Booted(w) == stage[w] = "booting" /\ pause[w] = 0

(* The modules are up, gRPC listens, discovery begins. *)
Boot(w) ==
  /\ Booted(w)
  /\ database
  /\ Goto(w, "asking")
  /\ count' = [count EXCEPT ![w] = 0]
  /\ age' = [age EXCEPT ![w] = 0]
  /\ UNCHANGED <<pause, environment>>

(* The ORM cannot connect: bootstrap rejects and the worker exits. *)
BootFails(w) ==
  /\ Booted(w)
  /\ ~database
  /\ Goto(w, "gone")
  /\ UNCHANGED <<count, pause, age, environment>>

(* Mutant of Discover: the loop goes on after the answer. *)
DiscoverGoesOn(w) ==
  /\ stage[w] = "asking"
  /\ keycloak
  /\ UNCHANGED vars

(* The metadata is there: discovery returns and HTTP listens. *)
Discover(w) ==
  /\ stage[w] = "asking"
  /\ keycloak
  /\ Goto(w, "serving")
  /\ UNCHANGED <<count, pause, age, environment>>

(* A try fails: Keycloak is out, or the connection has broken.             *)
TryFails(w) == stage[w] = "failed" \/ (stage[w] = "asking" /\ ~keycloak)

FallAsleep(w) ==
  /\ Goto(w, "asleep")
  /\ count' = [count EXCEPT ![w] = @ + 1]
  /\ UNCHANGED <<age, environment>>

(* Mutants of Retry: one try too many; pauses twice as long; all alike.    *)
RetryOnceMore(w) ==
  /\ TryFails(w)
  /\ count[w] < MaxTries
  /\ FallAsleep(w)
  /\ pause' = [pause EXCEPT ![w] = Pause(count'[w])]
RetryLater(w) ==
  /\ TryFails(w)
  /\ count[w] + 1 < MaxTries
  /\ FallAsleep(w)
  /\ pause' = [pause EXCEPT ![w] = 2 * Pause(count'[w])]
RetryEvenly(w) ==
  /\ TryFails(w)
  /\ count[w] + 1 < MaxTries
  /\ FallAsleep(w)
  /\ pause' = [pause EXCEPT ![w] = Pause(1)]

Retry(w) ==
  /\ TryFails(w)
  /\ count[w] + 1 < MaxTries
  /\ FallAsleep(w)
  /\ pause' = [pause EXCEPT ![w] = Pause(count'[w])]

(* Mutant of GiveUp: one try early. *)
GiveUpEarly(w) ==
  /\ TryFails(w)
  /\ count[w] + 2 >= MaxTries
  /\ Goto(w, "gone")
  /\ UNCHANGED <<count, pause, age, environment>>

(* The last try has failed: discovery throws and the worker exits. *)
GiveUp(w) ==
  /\ TryFails(w)
  /\ count[w] + 1 >= MaxTries
  /\ Goto(w, "gone")
  /\ UNCHANGED <<count, pause, age, environment>>

Wake(w) ==
  /\ stage[w] = "asleep"
  /\ pause[w] = 0
  /\ Goto(w, "asking")
  /\ UNCHANGED <<count, pause, age, environment>>

-----------------------------------------------------------------------------
Fault ==
  /\ faults < MaxFaults
  /\ faults' = faults + 1

(* Killed from outside, or by a promise nobody awaits that rejects. *)
Kill(w) ==
  /\ Fault
  /\ stage[w] # "gone"
  /\ Goto(w, "gone")
  /\ UNCHANGED <<count, pause, age, keycloak, database, calm>>

(* Keycloak takes the connection and does not answer.                      *)
Hang(w) ==
  /\ Fault
  /\ stage[w] = "asking"
  /\ Goto(w, "hung")
  /\ UNCHANGED <<count, pause, age, keycloak, database, calm>>

(* It may answer late, and it may break the connection, which ends the     *)
(* calm as an outage does; but it need do neither.                         *)
LateAnswer(w) ==
  /\ stage[w] = "hung"
  /\ Goto(w, "serving")
  /\ UNCHANGED <<count, pause, age, environment>>

Break(w) ==
  /\ stage[w] = "hung"
  /\ Goto(w, "failed")
  /\ calm' = 0
  /\ UNCHANGED <<count, pause, age, keycloak, database, faults>>

Outage ==
  /\ Fault
  /\ \/ keycloak /\ keycloak' = FALSE /\ UNCHANGED database
     \/ database /\ database' = FALSE /\ UNCHANGED keycloak
  /\ calm' = 0
  /\ UNCHANGED <<stage, count, pause, age>>

Repair ==
  /\ \/ ~keycloak /\ keycloak' = TRUE /\ UNCHANGED database
     \/ ~database /\ database' = TRUE /\ UNCHANGED keycloak
  /\ UNCHANGED <<stage, count, pause, age, calm, faults>>

(* Is there something for w to do before time passes? *)
Ready(w) ==
  \/ stage[w] \in {"gone", "asking", "failed"}
  \/ stage[w] \in {"booting", "asleep"} /\ pause[w] = 0

Tick ==
  /\ \A w \in Workers : ~Ready(w)
  /\ pause' = [w \in Workers |-> IF pause[w] > 0 THEN pause[w] - 1 ELSE 0]
  /\ age' = [w \in Workers |-> IF stage[w] = "asleep" THEN age[w] + 1 ELSE age[w]]
  /\ calm' = IF keycloak /\ database /\ calm < LongestWait
               THEN calm + 1 ELSE calm
  /\ UNCHANGED <<stage, count, keycloak, database, faults>>

Step(w) ==
  \/ Fork(w) \/ Boot(w) \/ BootFails(w)
  \/ Discover(w) \/ Retry(w) \/ GiveUp(w) \/ Wake(w)

Next == Tick \/ Repair \/ Outage \/ \E w \in Workers :
          Step(w) \/ Kill(w) \/ Hang(w) \/ LateAnswer(w) \/ Break(w)

(* Processes run, time passes, and an outage is repaired in the end: an    *)
(* assumption on whoever runs Keycloak and Postgres.  A hung try need not  *)
(* end.                                                                    *)
Fairness ==
  /\ WF_vars(Tick)
  /\ WF_vars(Repair)
  /\ \A w \in Workers : WF_vars(Step(w))

Spec == Init /\ [][Next]_vars /\ Fairness

-----------------------------------------------------------------------------
(***************************************************************************)
(* After an outage of Keycloak or of the database, of whatever length and  *)
(* however it met the workers' pauses, a cluster that has had both back,   *)
(* and no connection broken, for as long as one pause or boot can take     *)
(* serves with every worker, but for those killed since, which are         *)
(* booting, and those whose try hangs.                                     *)
(***************************************************************************)
CalmClusterServes ==
  calm = LongestWait /\ (\A w \in Workers : ~Ready(w))
    => \A w \in Workers : stage[w] \in {"serving", "booting", "hung"}

(***************************************************************************)
(* A worker gives up only after all the pauses of a whole discovery: about *)
(* two minutes with the code's ten tries, whatever its tries died of.      *)
(***************************************************************************)
PatientWorkers ==
  [][\A w \in Workers : GiveUp(w) => age[w] = Patience]_vars

(* Why both hold: the calm begins when the last outage ends, so a pause    *)
(* begun before it is over within it; and a worker that has failed n times *)
(* has paused, or is to pause, 2^n - 1 units.                              *)
BackoffInv ==
  /\ ~(keycloak /\ database) => calm = 0
  /\ \A w \in Workers :
       /\ stage[w] \in {"asking", "hung", "failed"} => age[w] = 2 ^ count[w] - 1
       /\ stage[w] = "failed" => calm = 0
       /\ stage[w] = "asleep" => /\ age[w] + pause[w] = 2 ^ count[w] - 1
                                /\ pause[w] + calm <= LongestWait

(***************************************************************************)
(* When outages end and nobody kills workers any more, every worker of the *)
(* cluster comes to serve, whichever of its incarnations gave up, and then *)
(* serves for good; only a worker whose try is never answered stays away.  *)
(***************************************************************************)
ClusterComesUp == <>[](\A w \in Workers : stage[w] \in {"serving", "hung"})

=============================================================================
