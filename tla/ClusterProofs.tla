--------------------------- MODULE ClusterProofs ----------------------------
(***************************************************************************)
(* Proofs about Cluster, for any number of workers and faults, any number  *)
(* of tries and any boot time.                                             *)
(***************************************************************************)
EXTENDS Cluster, TLAPS

(* The pauses of a discovery are positive and at most the longest.         *)
LEMMA Pauses ==
  /\ LongestPause \in Nat /\ LongestWait \in Nat /\ Patience \in Nat
  /\ BootTime <= LongestWait
  /\ \A n \in 0 .. MaxTries - 2 :
       /\ 2 ^ n \in Nat
       /\ Pause(n + 1) = 2 ^ n
       /\ 2 ^ (n + 1) = 2 * 2 ^ n
       /\ Pause(n + 1) <= LongestWait
  /\ \A n \in 0 .. MaxTries - 1 : 2 ^ n \in Nat \ {0} /\ 2 ^ n - 1 <= Patience
<1> USE TriesAssumption, TimesAssumption
<1>1. MaxTries - 2 \in 0 .. MaxTries /\ MaxTries - 1 \in 0 .. MaxTries
  OBVIOUS
<1>2. LongestPause = 2 ^ (MaxTries - 2)
  <2>1. (MaxTries - 1) - 1 = MaxTries - 2
    OBVIOUS
  <2>2. QED
    BY <2>1 DEF LongestPause, Pause
<1>3. 2 ^ (MaxTries - 2) \in Nat /\ 2 ^ (MaxTries - 1) \in Nat \ {0}
  BY <1>1, PowersAssumption
<1>4. /\ LongestPause \in Nat /\ LongestWait \in Nat /\ Patience \in Nat
      /\ BootTime <= LongestWait /\ LongestPause <= LongestWait
  BY <1>2, <1>3 DEF LongestWait, Patience
<1>5. ASSUME NEW n \in 0 .. MaxTries - 2
      PROVE  /\ 2 ^ n \in Nat
             /\ Pause(n + 1) = 2 ^ n
             /\ 2 ^ (n + 1) = 2 * 2 ^ n
             /\ Pause(n + 1) <= LongestWait
  <2>1. n \in 0 .. MaxTries /\ (n + 1) - 1 = n
    OBVIOUS
  <2>2. Pause(n + 1) = 2 ^ n
    BY <2>1 DEF Pause
  <2>3. 2 ^ n \in Nat /\ 2 ^ (n + 1) = 2 * 2 ^ n
    BY <2>1, PowersAssumption
  <2>4. 2 ^ n <= 2 ^ (MaxTries - 2)
    BY <1>1, PowersAssumption
  <2>5. QED
    BY <1>2, <1>3, <1>4, <2>2, <2>3, <2>4
<1>6. ASSUME NEW n \in 0 .. MaxTries - 1
      PROVE  2 ^ n \in Nat \ {0} /\ 2 ^ n - 1 <= Patience
  <2>1. n \in 0 .. MaxTries /\ n \in 0 .. MaxTries - 1
    OBVIOUS
  <2>2. 2 ^ n \in Nat \ {0} /\ 2 ^ n <= 2 ^ (MaxTries - 1)
    BY <1>1, <2>1, PowersAssumption
  <2>3. QED
    BY <1>3, <2>2 DEF Patience
<1>7. QED
  BY <1>4, <1>5, <1>6

(* The initial values have the types, and nobody has paused.               *)
LEMMA InitBackoff == Init => TypeOK /\ BackoffInv
<1> SUFFICES ASSUME Init PROVE TypeOK /\ BackoffInv
  OBVIOUS
<1>1. 0 \in 0 .. MaxTries - 1 /\ BootTime \in 0 .. LongestWait
  BY Pauses, TriesAssumption, TimesAssumption
<1>2. 0 \in 0 .. Patience /\ 0 \in 0 .. LongestWait /\ 0 \in 0 .. MaxFaults
  BY Pauses, TimesAssumption
<1>3. QED
  BY <1>1, <1>2 DEF Init, TypeOK, BackoffInv

(* A worker's own step keeps its count, its age and its pause in step.     *)
LEMMA StepBackoff ==
  ASSUME TypeOK, BackoffInv, NEW w \in Workers, Step(w)
  PROVE  TypeOK' /\ BackoffInv'
<1> USE TriesAssumption, TimesAssumption
<1>1. CASE Fork(w)
  <2>1. BootTime \in 0 .. LongestWait
    BY Pauses
  <2>2. QED
    BY <1>1, <2>1 DEF Fork, Goto, environment, TypeOK, BackoffInv
<1>2. CASE Boot(w)
  <2>1. 0 \in 0 .. MaxTries - 1 /\ 0 \in 0 .. Patience /\ 2 ^ 0 - 1 = 0
    BY Pauses
  <2>2. QED
    BY <1>2, <2>1 DEF Boot, Goto, environment, TypeOK, BackoffInv
<1>3. CASE BootFails(w)
  BY <1>3 DEF BootFails, Goto, environment, TypeOK, BackoffInv
<1>4. CASE Discover(w)
  BY <1>4 DEF Discover, Goto, environment, TypeOK, BackoffInv
<1>5. CASE Retry(w)
  <2> DEFINE n == count[w]
  <2>1. n \in 0 .. MaxTries - 2
    BY <1>5 DEF Retry, TypeOK
  <2>2. /\ 2 ^ n \in Nat /\ Pause(n + 1) = 2 ^ n
        /\ 2 ^ (n + 1) = 2 * 2 ^ n /\ Pause(n + 1) <= LongestWait
        /\ LongestWait \in Nat
    BY <2>1, Pauses
  <2>3. /\ count' = [count EXCEPT ![w] = n + 1]
        /\ stage' = [stage EXCEPT ![w] = "asleep"]
        /\ UNCHANGED <<age, keycloak, database, calm, faults>>
    BY <1>5 DEF Retry, FallAsleep, Goto, environment
  <2>4. count'[w] = n + 1
    BY <2>3 DEF TypeOK
  <2>5. pause' = [pause EXCEPT ![w] = 2 ^ n]
    BY <1>5, <2>2, <2>4 DEF Retry
  <2>6. n + 1 \in 0 .. MaxTries - 1 /\ 2 ^ n \in 0 .. LongestWait
    BY <2>1, <2>2
  <2> HIDE DEF n
  <2>7. TypeOK'
    BY <2>3, <2>5, <2>6 DEF TypeOK
  <2>8. calm = 0 /\ age[w] = 2 ^ n - 1
    BY <1>5 DEF Retry, TryFails, BackoffInv, n
  <2>9. age[w] + 2 ^ n = 2 ^ (n + 1) - 1 /\ 2 ^ n + calm <= LongestWait
    BY <2>2, <2>8
  <2>10. BackoffInv'
    BY <2>3, <2>5, <2>9 DEF BackoffInv, TypeOK
  <2>11. QED
    BY <2>7, <2>10
<1>6. CASE GiveUp(w)
  BY <1>6 DEF GiveUp, Goto, environment, TypeOK, BackoffInv
<1>7. CASE Wake(w)
  <2>1. age[w] = 2 ^ count[w] - 1
    BY <1>7 DEF Wake, TypeOK, BackoffInv
  <2>2. QED
    BY <1>7, <2>1 DEF Wake, Goto, environment, TypeOK, BackoffInv
<1>8. QED
  BY <1>1, <1>2, <1>3, <1>4, <1>5, <1>6, <1>7 DEF Step

(* Time takes from every pause what it adds to the age and to the calm.    *)
LEMMA TickBackoff ==
  ASSUME TypeOK, BackoffInv, Tick
  PROVE  TypeOK' /\ BackoffInv'
<1> USE TriesAssumption, TimesAssumption
<1>0. LongestWait \in Nat /\ Patience \in Nat
  BY Pauses
<1>1. pause' \in [Workers -> 0 .. LongestWait] /\ calm' \in 0 .. LongestWait
  BY <1>0 DEF Tick, TypeOK
<1>2. ASSUME NEW w \in Workers, stage[w] = "asleep"
      PROVE  /\ age'[w] = age[w] + 1 /\ pause'[w] = pause[w] - 1
             /\ pause[w] > 0
             /\ age'[w] + pause'[w] = 2 ^ count[w] - 1
             /\ pause'[w] + calm' <= LongestWait
             /\ age'[w] \in 0 .. Patience
  <2>1. pause[w] > 0
    BY <1>2, <1>0 DEF Tick, Ready, TypeOK
  <2>2. age'[w] = age[w] + 1 /\ pause'[w] = pause[w] - 1
    BY <1>2, <2>1 DEF Tick
  <2>3. age[w] + pause[w] = 2 ^ count[w] - 1 /\ pause[w] + calm <= LongestWait
    BY <1>2 DEF BackoffInv
  <2>4. 2 ^ count[w] \in Nat /\ 2 ^ count[w] - 1 <= Patience
    BY Pauses DEF TypeOK
  <2>5. calm' \in {calm, calm + 1}
    BY DEF Tick
  <2>6. age[w] \in Nat /\ pause[w] \in Nat /\ calm \in Nat
    BY <1>0 DEF TypeOK
  <2>7. QED
    BY <1>0, <2>1, <2>2, <2>3, <2>4, <2>5, <2>6
<1>3. age' \in [Workers -> 0 .. Patience]
  <2>1. age' = [w \in Workers |-> IF stage[w] = "asleep" THEN age[w] + 1 ELSE age[w]]
    BY DEF Tick
  <2>2. \A w \in Workers : stage[w] = "asleep" => age[w] + 1 \in 0 .. Patience
    BY <1>2, <2>1
  <2>3. QED
    BY <2>1, <2>2 DEF TypeOK
<1>4. TypeOK'
  BY <1>1, <1>3 DEF Tick, TypeOK
<1>5. ASSUME NEW w \in Workers, stage[w] \in {"asking", "failed"} PROVE FALSE
  BY <1>5 DEF Tick, Ready
<1>6. ~(keycloak' /\ database') => calm' = 0
  BY DEF Tick, BackoffInv
<1>7. BackoffInv'
  BY <1>2, <1>5, <1>6 DEF Tick, BackoffInv
<1>8. QED
  BY <1>4, <1>7

(* Faults, repairs and hung tries leave the workers' reckoning alone.      *)
LEMMA FaultBackoff ==
  ASSUME TypeOK, BackoffInv,
         Outage \/ Repair
         \/ \E w \in Workers : Kill(w) \/ Hang(w) \/ LateAnswer(w) \/ Break(w)
  PROVE  TypeOK' /\ BackoffInv'
<1> USE TriesAssumption, TimesAssumption
<1>0. LongestWait \in Nat
  BY Pauses
<1>1. CASE Outage
  <2>1. /\ calm' = 0
        /\ faults' \in 0 .. MaxFaults
        /\ UNCHANGED <<stage, count, pause, age>>
    BY <1>1 DEF Outage, Fault, TypeOK
  <2>2. keycloak' \in BOOLEAN /\ database' \in BOOLEAN
    BY <1>1 DEF Outage, TypeOK
  <2>3. TypeOK'
    BY <1>0, <2>1, <2>2 DEF TypeOK
  <2>4. ASSUME NEW w \in Workers PROVE pause'[w] + calm' <= LongestWait
    <3>1. pause'[w] \in 0 .. LongestWait /\ calm' = 0
      BY <2>1 DEF TypeOK
    <3>2. QED
      BY <1>0, <3>1
  <2>5. BackoffInv'
    BY <2>1, <2>4 DEF BackoffInv
  <2>6. QED
    BY <2>3, <2>5
<1>2. CASE Repair
  BY <1>0, <1>2 DEF Repair, TypeOK, BackoffInv
<1>3. ASSUME NEW w \in Workers, Kill(w) PROVE TypeOK' /\ BackoffInv'
  BY <1>3 DEF Kill, Fault, Goto, TypeOK, BackoffInv
<1>4. ASSUME NEW w \in Workers, Hang(w) \/ LateAnswer(w) PROVE TypeOK' /\ BackoffInv'
  BY <1>4 DEF Hang, LateAnswer, environment, Fault, Goto, TypeOK, BackoffInv
<1>5. ASSUME NEW w \in Workers, Break(w) PROVE TypeOK' /\ BackoffInv'
  <2>1. /\ calm' = 0 /\ stage' = [stage EXCEPT ![w] = "failed"] /\ stage[w] = "hung"
        /\ UNCHANGED <<count, pause, age, keycloak, database, faults>>
    BY <1>5 DEF Break, Goto
  <2>2. TypeOK'
    BY <1>0, <2>1 DEF TypeOK
  <2>3. ASSUME NEW v \in Workers PROVE pause'[v] + calm' <= LongestWait
    BY <1>0, <2>1 DEF TypeOK
  <2>4. BackoffInv'
    BY <2>1, <2>3 DEF TypeOK, BackoffInv
  <2>5. QED
    BY <2>2, <2>4
<1>6. QED
  BY <1>1, <1>2, <1>3, <1>4, <1>5

(* Types and reckoning hold in every run.                                  *)
LEMMA BackoffCorrect == Spec => [](TypeOK /\ BackoffInv)
<1>1. (TypeOK /\ BackoffInv) /\ [Next]_vars => (TypeOK /\ BackoffInv)'
  <2> SUFFICES ASSUME TypeOK, BackoffInv, [Next]_vars PROVE TypeOK' /\ BackoffInv'
    OBVIOUS
  <2>1. CASE UNCHANGED vars
    BY <2>1 DEF vars, TypeOK, BackoffInv
  <2>2. QED
    BY <2>1, StepBackoff, TickBackoff, FaultBackoff DEF Next
<1>2. QED
  BY <1>1, InitBackoff, PTL DEF Spec

(* The variables keep their types: no count passes the tries, no pause the *)
(* longest, no age the patience of a worker.                               *)
THEOREM TypeCorrect == Spec => []TypeOK
BY BackoffCorrect, PTL

(***************************************************************************)
(* What a worker has waited and what it has still to wait are what the     *)
(* tries it has made say, for any number of tries, whatever faults came.   *)
(***************************************************************************)
THEOREM PausesAddUp == Spec => []BackoffInv
BY BackoffCorrect, PTL

(***************************************************************************)
(* Whatever the outages were, a cluster that has had Keycloak and the      *)
(* database back for as long as one wait can take serves with every worker *)
(* that is not booting.                                                    *)
(***************************************************************************)
THEOREM CalmClustersServe == Spec => []CalmClusterServes
<1>1. TypeOK /\ BackoffInv => CalmClusterServes
  <2> SUFFICES ASSUME TypeOK, BackoffInv, calm = LongestWait,
                      NEW w \in Workers, ~Ready(w)
               PROVE  stage[w] \in {"serving", "booting", "hung"}
    BY DEF CalmClusterServes
  <2>1. ASSUME stage[w] = "asleep" PROVE FALSE
    <3>1. pause[w] + LongestWait <= LongestWait
      BY <2>1 DEF BackoffInv
    <3>2. pause[w] = 0
      BY <3>1, Pauses DEF TypeOK
    <3>3. QED
      BY <2>1, <3>2 DEF Ready
  <2>2. QED
    BY <2>1 DEF TypeOK, Ready
<1>2. QED
  BY <1>1, BackoffCorrect, PTL

(***************************************************************************)
(* No worker exits before it has waited out every pause of its discovery,  *)
(* for any number of tries.                                                *)
(***************************************************************************)
THEOREM WorkersArePatient == Spec => PatientWorkers
<1>1. TypeOK /\ BackoffInv => \A w \in Workers : GiveUp(w) => age[w] = Patience
  <2> SUFFICES ASSUME TypeOK, BackoffInv, NEW w \in Workers, GiveUp(w)
               PROVE  age[w] = Patience
    OBVIOUS
  <2>1. count[w] = MaxTries - 1
    BY TriesAssumption DEF GiveUp, TypeOK
  <2>2. age[w] = 2 ^ count[w] - 1
    BY DEF GiveUp, TryFails, BackoffInv
  <2>3. QED
    BY <2>1, <2>2 DEF Patience
<1>2. QED
  BY <1>1, BackoffCorrect, PTL DEF PatientWorkers

=============================================================================
