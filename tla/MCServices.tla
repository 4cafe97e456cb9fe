----------------------------- MODULE MCServices -----------------------------
(* For TLC: services of the server, each with the requests in it.  They    *)
(* share no state: a behaviour is one service's, and the state space the   *)
(* sum of theirs instead of the product.  Profile is extended, the others  *)
(* are instances.                                                          *)
EXTENDS Profile, Integers, TLC

CONSTANTS
  Clients, TicksPerSecond, Lifetime, MaxTime,
  FileRequests, Paths, MaxChunks,
  ProductRequests, Workers, Limit,
  MailRequests

ASSUME ClockAssumption ==
  TicksPerSecond \in Nat \ {0} /\ Lifetime \in Nat \ {0} /\ MaxTime \in Nat

VARIABLES
  part,                                                      \* the service
  now, pc, route, tokens, shown, verdict,                    \* Tokens
  entry, content, stage, job, handle, done, status, dirty,
  alone, met,                                                \* Files
  views, at, asks, reply, saw, up, counted, searched,
  exported, first, floor, answered, unflushed,               \* Catalog
  box, place, emails, sources, outcome, sends, accepted,
  doomed                                                     \* Mail

Auth == INSTANCE Tokens
Disk == INSTANCE Files WITH Requests <- FileRequests, data <- content
Products == INSTANCE Catalog WITH Requests <- ProductRequests
Email == INSTANCE Mail WITH Requests <- MailRequests

authVars == <<now, pc, route, tokens, shown, verdict>>
diskVars == <<entry, content, stage, job, handle, done, status, dirty, alone, met>>
productVars == <<views, at, asks, reply, saw, up, counted, searched,
                 exported, first, floor, answered, unflushed>>
emailVars == <<box, place, emails, sources, outcome, sends, accepted, doomed>>

mcVars == <<part, vars, authVars, diskVars, productVars, emailVars>>

(* The services a behaviour is not about start in one way.                 *)
MCInit ==
  /\ part \in {"profile", "auth", "disk", "products", "email"}
  /\ Init /\ Auth!Init /\ Disk!Init /\ Products!Init /\ Email!Init
  /\ part # "profile" => row = Start
  /\ part # "disk" => \A p \in Paths : entry[p] = Disk!Original
  /\ part # "products" => first = 0

MCNext ==
  /\ UNCHANGED part
  /\ \/ /\ part = "profile" /\ Next
        /\ UNCHANGED <<authVars, diskVars, productVars, emailVars>>
     \/ /\ part = "auth" /\ Auth!Next
        /\ UNCHANGED <<vars, diskVars, productVars, emailVars>>
     \/ /\ part = "disk" /\ Disk!Next
        /\ UNCHANGED <<vars, authVars, productVars, emailVars>>
     \/ /\ part = "products" /\ Products!Next
        /\ UNCHANGED <<vars, authVars, diskVars, emailVars>>
     \/ /\ part = "email" /\ Email!Next
        /\ UNCHANGED <<vars, authVars, diskVars, productVars>>

MCSpec == MCInit /\ [][MCNext]_mcVars

(* Requests for files and for products are interchangeable.                *)
Symmetry == Permutations(FileRequests) \cup Permutations(ProductRequests)

(* Types of all services.                                                  *)
Types == TypeOK /\ Auth!TypeOK /\ Disk!TypeOK /\ Products!TypeOK /\ Email!TypeOK

(* An RSA token is good for an hour and no longer (Tokens).                *)
AcceptedForAnHour == Auth!AcceptedForAnHour

(* Each scheme's validation accepts what its login issues (Tokens).        *)
SchemesAcceptTheirOwn == Auth!SchemesAcceptTheirOwn

(* A read that no write overlaps is of the whole file (Files).             *)
ReadsAreWhole == Disk!ReadsAreWhole

(* What the table, the answers and product.views say of views (Catalog).   *)
ViewsAddUp == Products!ViewsAddUp

(* A worker that was stopped has exported what it counted (Catalog).       *)
StoppedWorkersExported == Products!StoppedWorkersExported

(* email.sends against the mails MailCatcher accepted (Mail).              *)
SendsAreCounted == Email!SendsAreCounted

=============================================================================
