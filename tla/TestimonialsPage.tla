-------------------------- MODULE TestimonialsPage --------------------------
(***************************************************************************)
(* Testimonials and its form in the client: the list and its two counts,   *)
(* over REST and gRPC, fetched when the page opens and again for each new  *)
(* testimonial, in any order of the answers.  The three fetches share no   *)
(* state: a behaviour follows one of them.  The table is the number of     *)
(* testimonials ever stored; module Testimonials has its rows.             *)
(***************************************************************************)
EXTENDS Integers

CONSTANTS
  MaxForms,   \* bound: form objects the user's changes make
  MaxPosts,   \* bound: posts the page sends
  MaxStored   \* bound: testimonials stored, by this page or another

VARIABLES
  kind,     \* the fetch this behaviour follows
  stored,   \* the table
  form,     \* the form object of the state: 0 is the default one
  forms,    \* how many were made
  posts,    \* posts in flight: [n, form, version]
  posted,   \* how many were sent
  latest,   \* newTestimonial: the form object it is, or Unset
  fetches,  \* fetches in flight: [n, version]
  asked,    \* how often the page fetched
  shown,    \* what the fetches have left in the state
  own,      \* history: the table after the page's latest answered post
  calm      \* history: no fetch failed or was overtaken, no form sent twice

vars == <<kind, stored, form, forms, posts, posted, latest, fetches, asked, shown, own, calm>>

Unset == -1
NotYet == -1
Failure == -2
Versions == Failure .. MaxStored

TypeOK ==
  /\ kind \in {"list", "count", "grpc"}
  /\ stored \in 0 .. MaxStored
  /\ forms \in 0 .. MaxForms /\ form \in 0 .. forms
  /\ posts \subseteq [n : 1 .. MaxPosts, form : 0 .. MaxForms, version : Versions]
  /\ posted \in 0 .. MaxPosts
  /\ latest \in Unset .. MaxForms
  /\ fetches \subseteq [n : 1 .. MaxPosts + 1, version : Versions]
  /\ asked \in 1 .. MaxPosts + 1
  /\ shown \in Versions
  /\ own \in 0 .. MaxStored
  /\ calm \in BOOLEAN

Fetch(n) == [n |-> n, version |-> NotYet]

Init ==
  /\ kind \in {"list", "count", "grpc"}
  /\ stored = 0 /\ form = 0 /\ forms = 0
  /\ posts = {} /\ posted = 0
  /\ latest = Unset
  /\ fetches = {Fetch(1)} /\ asked = 1
  /\ shown = 0
  /\ own = 0 /\ calm = TRUE

-----------------------------------------------------------------------------
(* onInput: each change makes a new object.                                *)
OnInput ==
  /\ forms < MaxForms
  /\ forms' = forms + 1 /\ form' = forms'
  /\ UNCHANGED <<kind, stored, posts, posted, latest, fetches, asked, shown, own, calm>>

(* Mutant of SetNewTestimonial: the effect runs on the first render only.  *)
SetAndNoEffect(f) == latest' = f /\ UNCHANGED <<fetches, asked, shown>>

(* setNewTestimonial: the effect runs when the object is another one, and  *)
(* what the former one left to clean up empties the list first.            *)
SetNewTestimonial(f) ==
  /\ latest' = f
  /\ IF f = latest
     THEN UNCHANGED <<fetches, asked, shown>>
     ELSE /\ asked' = asked + 1
          /\ fetches' = fetches \cup {Fetch(asked')}
          /\ shown' = IF latest # Unset /\ kind = "list" THEN 0 ELSE shown

(* Nothing keeps the user from sending a form that is on its way; the      *)
(* second answer then changes nothing, and fetches nothing.                *)
SendTestimonial ==
  /\ posted < MaxPosts
  /\ posted' = posted + 1
  /\ posts' = posts \cup {[n |-> posted', form |-> form, version |-> NotYet]}
  /\ calm' = (calm /\ form # latest /\ \A p \in posts : p.form # form)
  /\ UNCHANGED <<kind, stored, form, forms, latest, fetches, asked, shown, own>>

Store(p) ==
  /\ p.version = NotYet /\ stored < MaxStored
  /\ stored' = stored + 1
  /\ posts' = (posts \ {p}) \cup {[p EXCEPT !.version = stored']}
  /\ UNCHANGED <<kind, form, forms, posted, latest, fetches, asked, shown, own, calm>>

(* The answer, or an error, which the page does not tell from it.          *)
Posted(p) ==
  /\ posts' = posts \ {p}
  /\ SetNewTestimonial(p.form)
  /\ form' = 0
  /\ own' = IF p.version > own THEN p.version ELSE own
  /\ UNCHANGED <<kind, stored, forms, posted, calm>>

(* No answer at all: nothing follows.                                      *)
PostLost(p) ==
  /\ posts' = posts \ {p}
  /\ UNCHANGED <<kind, stored, form, forms, posted, latest, fetches, asked, shown, own, calm>>

OthersStore ==
  /\ stored < MaxStored
  /\ stored' = stored + 1
  /\ UNCHANGED <<kind, form, forms, posts, posted, latest, fetches, asked, shown, own, calm>>

-----------------------------------------------------------------------------
(* The server answers a fetch, and the answer arrives later.               *)
Answer(f) ==
  /\ f.version = NotYet
  /\ fetches' = (fetches \ {f}) \cup {[f EXCEPT !.version = stored]}
  /\ UNCHANGED <<kind, stored, form, forms, posts, posted, latest, asked, shown, own, calm>>

Arrive(f) ==
  /\ f.version # NotYet
  /\ fetches' = fetches \ {f}
  /\ shown' = f.version
  /\ calm' = (calm /\ \A g \in fetches : g.n >= f.n)
  /\ UNCHANGED <<kind, stored, form, forms, posts, posted, latest, asked, own>>

(* An error object takes the place of the list or the count; without an    *)
(* answer, or over gRPC, the state stays as it was.                        *)
FetchFails(f) ==
  /\ fetches' = fetches \ {f}
  /\ shown' \in {shown} \cup (IF kind = "grpc" THEN {} ELSE {Failure})
  /\ calm' = FALSE
  /\ UNCHANGED <<kind, stored, form, forms, posts, posted, latest, asked, own>>

Next ==
  \/ OnInput \/ SendTestimonial \/ OthersStore
  \/ \E p \in posts : Store(p) \/ Posted(p) \/ PostLost(p)
  \/ \E f \in fetches : Answer(f) \/ Arrive(f) \/ FetchFails(f)

Spec == Init /\ [][Next]_vars

-----------------------------------------------------------------------------
(***************************************************************************)
(* Once no fetch is in flight, the list and each count were read no        *)
(* earlier than the page's latest answered testimonial was stored, unless  *)
(* a fetch failed or was overtaken, or the same form was sent again.       *)
(***************************************************************************)
OwnTestimonialShown == calm /\ fetches = {} => shown >= own

=============================================================================
