-------------------------- MODULE TestimonialBoard --------------------------
(***************************************************************************)
(* What the testimonials service promises when its requests do not         *)
(* overlap: a board of at most Limit posts, in which room for a new post   *)
(* is made only when the board is full, and only by taking down posts at   *)
(* least as old as every post that stays.                                  *)
(***************************************************************************)
EXTENDS Naturals, FiniteSets

CONSTANTS
  Limit,  \* how many posts the board holds
  Ids,    \* the ids a post can get
  Times   \* the times a post can carry

VARIABLE board  \* id of a post -> the time the post carries

Posts == DOMAIN board

Init == board = << >>

(* Take the oldest posts down, down to one below the limit. *)
MakeRoom ==
  /\ Cardinality(Posts) >= Limit
  /\ \E K \in SUBSET Posts :
       /\ Cardinality(K) = Limit - 1
       /\ \A gone \in Posts \ K, kept \in K : board[gone] <= board[kept]
       /\ board' = [i \in K |-> board[i]]

(* A post comes after every post on the board, in id and in time. *)
Post ==
  /\ Cardinality(Posts) < Limit
  /\ \E id \in Ids, at \in Times :
       /\ \A i \in Posts : i < id /\ board[i] <= at
       /\ board' = [i \in Posts \cup {id} |-> IF i = id THEN at ELSE board[i]]

Next == MakeRoom \/ Post

Spec == Init /\ [][Next]_board

=============================================================================
