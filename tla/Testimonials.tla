---------------------------- MODULE Testimonials ----------------------------
(***************************************************************************)
(* TestimonialsService.createTestimonial: several requests at once over    *)
(* the testimonial table.  The method awaits three statements that share   *)
(* no transaction, so requests interleave between them:                    *)
(*                                                                         *)
(*   select * ... order by created_at      SelectRoom, SelectFull          *)
(*   delete ... where id not in (?)        DeleteOld                       *)
(*   persistAndFlush(new Testimonial())    Insert                          *)
(*                                                                         *)
(* Any of them can be rejected, or the worker can die while it waits:      *)
(* the request ends there and what it has already written stays (Fail).    *)
(***************************************************************************)
EXTENDS Naturals, FiniteSets, FiniteSetsExt

CONSTANTS
  Creators,  \* the requests that can be in createTestimonial at once
  MaxLimit,  \* MAX_LIMIT
  MaxId,     \* bound: serial ids handed out
  MaxClock   \* bound: seconds that pass

(* splice(-1 * (MAX_LIMIT - 1)) cuts the tail off only if MAX_LIMIT > 1;   *)
(* the code has 5.                                                         *)
ASSUME LimitAssumption == MaxLimit \in Nat /\ MaxLimit > 1
ASSUME CreatorsAssumption == IsFiniteSet(Creators)
ASSUME BoundsAssumption == MaxId \in Nat /\ MaxClock \in Nat

VARIABLES
  table,      \* the table: id -> created_at
  lastId,     \* the last value of the id sequence
  clock,      \* the time, in the seconds timestamptz(0) keeps
  pc,         \* where each request is
  keep,       \* the ids a request's delete spares
  stamp,      \* createdAt of the entity a request is about to insert
  overlapped, \* history: has another request run during this one?
  since       \* history: the last id when a request selected what to spare

vars == <<table, lastId, clock, pc, keep, stamp, overlapped, since>>

Ids == 1 .. MaxId
Rows == DOMAIN table
Active == {c \in Creators : pc[c] # "idle"}
Inserting == {c \in Creators : pc[c] = "insert"}

TypeOK ==
  /\ Rows \subseteq 1 .. lastId
  /\ \A i \in Rows : table[i] \in 0 .. clock
  /\ table = [i \in Rows |-> table[i]]
  /\ lastId \in 0 .. MaxId
  /\ clock \in 0 .. MaxClock
  /\ pc \in [Creators -> {"idle", "delete", "insert"}]
  /\ keep \in [Creators -> SUBSET Ids]
  /\ stamp \in [Creators -> 0 .. clock]
  /\ overlapped \in [Creators -> BOOLEAN]
  /\ since \in [Creators -> 0 .. lastId]

Init ==
  /\ table = << >>
  /\ lastId = 0
  /\ clock = 0
  /\ pc = [c \in Creators |-> "idle"]
  /\ keep = [c \in Creators |-> {}]
  /\ stamp = [c \in Creators |-> 0]
  /\ overlapped = [c \in Creators |-> FALSE]
  /\ since = [c \in Creators |-> 0]

(* Mutants of Newest: one row too many spared; the head of the list spared. *)
NewestOneMore(n) ==
  {K \in kSubset(n + 1, Rows) : \A k \in K, i \in Rows \ K : table[i] <= table[k]}
OldestInstead(n) ==
  {K \in kSubset(n, Rows) : \A k \in K, i \in Rows \ K : table[i] >= table[k]}

(***************************************************************************)
(* The last n rows of `order by created_at`.  Rows of the same second come *)
(* in any order, so several sets of ids can be the last n.                 *)
(***************************************************************************)
Newest(n) ==
  {K \in kSubset(n, Rows) : \A k \in K, i \in Rows \ K : table[i] <= table[k]}

(* A request that begins while others run overlaps them, and they it. *)
Begin(c) ==
  /\ pc[c] = "idle"
  /\ overlapped' = [d \in Creators |->
                      IF d = c THEN Active # {} ELSE overlapped[d] \/ d \in Active]

(* Mutant of HasRoom: > where the code has >=. *)
HasRoomOffByOne == Cardinality(Rows) <= MaxLimit

HasRoom == Cardinality(Rows) < MaxLimit

(* Mutant of NewTestimonial: a time that is still to come. *)
StampAhead(c) ==
  /\ pc' = [pc EXCEPT ![c] = "insert"]
  /\ stamp' = [stamp EXCEPT ![c] = clock + 1]

(* The entity takes the time it is constructed at. *)
NewTestimonial(c) ==
  /\ pc' = [pc EXCEPT ![c] = "insert"]
  /\ stamp' = [stamp EXCEPT ![c] = clock]

SelectRoom(c) ==
  /\ Begin(c)
  /\ HasRoom
  /\ NewTestimonial(c)
  /\ UNCHANGED <<table, lastId, clock, keep, since>>

(* Mutant of SelectFull: rows are deleted whether there is room or not. *)
SelectAnyway(c) ==
  /\ Begin(c)
  /\ \E K \in Newest(MaxLimit - 1) : keep' = [keep EXCEPT ![c] = K]
  /\ since' = [since EXCEPT ![c] = lastId]
  /\ pc' = [pc EXCEPT ![c] = "delete"]
  /\ UNCHANGED <<table, lastId, clock, stamp>>

SelectFull(c) ==
  /\ Begin(c)
  /\ ~HasRoom
  /\ \E K \in Newest(MaxLimit - 1) : keep' = [keep EXCEPT ![c] = K]
  /\ since' = [since EXCEPT ![c] = lastId]
  /\ pc' = [pc EXCEPT ![c] = "delete"]
  /\ UNCHANGED <<table, lastId, clock, stamp>>

DeleteOld(c) ==
  /\ pc[c] = "delete"
  /\ table' = [i \in Rows \cap keep[c] |-> table[i]]
  /\ keep' = [keep EXCEPT ![c] = {}]
  /\ since' = [since EXCEPT ![c] = 0]
  /\ NewTestimonial(c)
  /\ UNCHANGED <<lastId, clock, overlapped>>

(* The request is over, and so are its local variables. *)
End(c) ==
  /\ pc' = [pc EXCEPT ![c] = "idle"]
  /\ keep' = [keep EXCEPT ![c] = {}]
  /\ since' = [since EXCEPT ![c] = 0]
  /\ stamp' = [stamp EXCEPT ![c] = 0]
  /\ overlapped' = [overlapped EXCEPT ![c] = FALSE]

Insert(c) ==
  /\ pc[c] = "insert"
  /\ lastId < MaxId
  /\ lastId' = lastId + 1
  /\ table' = [i \in Rows \cup {lastId + 1} |->
                 IF i = lastId + 1 THEN stamp[c] ELSE table[i]]
  /\ End(c)
  /\ UNCHANGED clock

(* A statement is rejected (a value too long for varchar(255), a lost      *)
(* connection), or the worker that runs the request dies.                  *)
Fail(c) ==
  /\ pc[c] # "idle"
  /\ End(c)
  /\ UNCHANGED <<table, lastId, clock>>

Tick ==
  /\ clock < MaxClock
  /\ clock' = clock + 1
  /\ UNCHANGED <<table, lastId, pc, keep, stamp, overlapped, since>>

Request(c) ==
  SelectRoom(c) \/ SelectFull(c) \/ DeleteOld(c) \/ Insert(c) \/ Fail(c)

Next == Tick \/ \E c \in Creators : Request(c)

Spec == Init /\ [][Next]_vars

-----------------------------------------------------------------------------
(***************************************************************************)
(* MAX_LIMIT is the limit of a service whose requests run one by one.      *)
(* Requests that overlap can each find room before any has inserted, so    *)
(* the table can exceed it, by as many rows as there are other requests    *)
(* and never more.                                                         *)
(***************************************************************************)
TableBound == Cardinality(Rows) <= MaxLimit - 1 + Cardinality(Creators)

(* The strengthening of TableBound that steps preserve: a request about to *)
(* insert counts as the row it will add, and a request about to delete     *)
(* spares one row less than the limit.                                     *)
PendingBound ==
  /\ Cardinality(Rows) + Cardinality(Inserting)
       <= MaxLimit - 1 + Cardinality(Creators)
  /\ \A c \in Creators : pc[c] = "delete" => Cardinality(keep[c]) = MaxLimit - 1

Lone(c) == pc[c] # "idle" /\ ~overlapped[c]

(* Why a lone request can rely on what it selected: it is the only request *)
(* at work, and what it waits to write still fits the table.               *)
LoneInv ==
  \A c \in Creators : Lone(c) =>
    /\ Active = {c}
    /\ pc[c] = "delete" => keep[c] \in Newest(MaxLimit - 1)
    /\ pc[c] = "insert" => HasRoom

(***************************************************************************)
(* A request that no other overlaps leaves the table as a sequential       *)
(* service would, whatever overlapping requests did to it before: its      *)
(* delete spares exactly the newest MAX_LIMIT - 1 rows, and after its      *)
(* insert the table is within MAX_LIMIT again.                             *)
(***************************************************************************)
LoneRequestRestoresTheLimit ==
  [][\A c \in Creators : Lone(c) =>
       /\ DeleteOld(c) =>
            /\ Cardinality(Rows') = MaxLimit - 1
            /\ \A i \in Rows \ Rows', k \in Rows' : table[i] <= table[k]
       /\ Insert(c) => Cardinality(Rows') <= MaxLimit]_vars

(***************************************************************************)
(* A delete goes by the ids read before it was sent, so it takes rows that *)
(* other requests have inserted since, the newest there are.  It takes no  *)
(* other: of the rows its request has read, whatever overlapping requests  *)
(* have deleted or inserted meanwhile, it takes none that is newer than a  *)
(* row it spares.                                                          *)
(***************************************************************************)
ReadNewestStay ==
  \A c \in Creators : pc[c] = "delete" =>
    /\ keep[c] \subseteq 1 .. since[c]
    /\ \A i \in Rows \ keep[c], k \in Rows \cap keep[c] :
         i <= since[c] => table[i] <= table[k]

(***************************************************************************)
(* When requests come one at a time, the table is the board the service    *)
(* promises, step for step: it holds at most MAX_LIMIT posts, and only the *)
(* oldest are taken down, only when the board is full.                     *)
(***************************************************************************)
Board == INSTANCE TestimonialBoard
           WITH board <- table, Limit <- MaxLimit, Times <- 0 .. MaxClock

ImplementsBoard == Board!Spec

(* What a sole request relies on besides LoneInv: its delete is called for *)
(* and its entity is at least as recent as every row.                      *)
SoleInv ==
  \A c \in Creators :
    /\ ~overlapped[c]
    /\ pc[c] = "delete" => ~HasRoom
    /\ pc[c] = "insert" => \A i \in Rows : table[i] <= stamp[c]

=============================================================================
