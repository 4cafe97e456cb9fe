--------------------------- MODULE MCTestimonials ---------------------------
(* Testimonials for TLC: requests are interchangeable. *)
EXTENDS Testimonials, TLC

Symmetry == Permutations(Creators)

=============================================================================
