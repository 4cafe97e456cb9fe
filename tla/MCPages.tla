------------------------------ MODULE MCPages -------------------------------
(* For TLC: pages of the client, each with its requests in flight.  They   *)
(* share no state: a behaviour is one page's, and the state space the sum  *)
(* of theirs instead of the product.  Storefront is extended, the others   *)
(* are instances.                                                          *)
EXTENDS Storefront

CONSTANTS
  Tabs, MaxLoads,
  MaxMessages,
  MaxForms, MaxPosts, MaxStored,
  Images, Others, MaxSelections

VARIABLES
  part,                                                       \* the page
  mode, csrf, cookie, loads, asked, post, lastTab, tidy,      \* CsrfLogin
  chat, queued, loading, settled, messages, queries, dropped, \* ChatWidget
  kind, stored, form, forms, posts, posted, latest, listings,
  listed, shown, own, inOrder,                                \* TestimonialsPage
  selected, selections, named, reading, picture, request,
  outcome, error                                              \* HiddenUpload

Login == INSTANCE CsrfLogin
Widget == INSTANCE ChatWidget WITH sent <- messages
Board == INSTANCE TestimonialsPage WITH
  fetches <- listings, asked <- listed, calm <- inOrder
Upload == INSTANCE HiddenUpload WITH preview <- picture, result <- outcome

loginVars == <<mode, csrf, cookie, loads, asked, post, lastTab, tidy>>
widgetVars == <<chat, queued, loading, settled, messages, queries, dropped>>
boardVars == <<kind, stored, form, forms, posts, posted, latest, listings,
               listed, shown, own, inOrder>>
uploadVars == <<selected, selections, named, reading, picture, request, outcome, error>>

mcVars == <<part, loginVars, widgetVars, boardVars, vars, uploadVars>>

(* The pages a behaviour is not about start in one way.                    *)
MCInit ==
  /\ part \in {"login", "widget", "board", "store", "upload"}
  /\ Login!Init /\ Widget!Init /\ Board!Init /\ Init /\ Upload!Init
  /\ part # "board" => kind = "list"
  /\ part # "store" => preview = FALSE

MCNext ==
  /\ UNCHANGED part
  /\ \/ /\ part = "login" /\ Login!Next
        /\ UNCHANGED <<widgetVars, boardVars, vars, uploadVars>>
     \/ /\ part = "widget" /\ Widget!Next
        /\ UNCHANGED <<loginVars, boardVars, vars, uploadVars>>
     \/ /\ part = "board" /\ Board!Next
        /\ UNCHANGED <<loginVars, widgetVars, vars, uploadVars>>
     \/ /\ part = "store" /\ Next
        /\ UNCHANGED <<loginVars, widgetVars, boardVars, uploadVars>>
     \/ /\ part = "upload" /\ Upload!Next
        /\ UNCHANGED <<loginVars, widgetVars, boardVars, vars>>

MCSpec == MCInit /\ [][MCNext]_mcVars

(* Types of all pages.                                                     *)
Types ==
  TypeOK /\ Login!TypeOK /\ Widget!TypeOK /\ Board!TypeOK /\ Upload!TypeOK

(* The tab that fetched a token last holds the cookie (CsrfLogin).         *)
LastFetchMatches == Login!LastFetchMatches

(* The chat shows what was sent and answered (ChatWidget).                 *)
ChatKeepsUp == Widget!ChatKeepsUp

(* The page shows the testimonials it sent (TestimonialsPage).             *)
OwnTestimonialShown == Board!OwnTestimonialShown

(* The picture shown after an upload is the one selected (HiddenUpload).   *)
ResultIsSelected == Upload!ResultIsSelected

=============================================================================
