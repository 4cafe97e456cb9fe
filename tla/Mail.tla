-------------------------------- MODULE Mail --------------------------------
(***************************************************************************)
(* EmailController and EmailService over MailCatcher, the SMTP server that *)
(* keeps what it is sent and serves it over HTTP: support mails, the list  *)
(* of all mails with or without their sources, and its deletion.           *)
(***************************************************************************)
EXTENDS Naturals, FiniteSets, Sequences

CONSTANT Requests

VARIABLES
  box,       \* the mails MailCatcher holds, each named for its request
  place,     \* where each request is
  emails,    \* the list a getEmails got
  sources,   \* the sources it has fetched, in the order of the list
  outcome,   \* the answer to each request
  sends,     \* email.sends: [true, false]
  accepted,  \* history: mails MailCatcher ever took
  doomed     \* history: the mails held when a deletion was sent

vars == <<box, place, emails, sources, outcome, sends, accepted, doomed>>

Missing == "missing"
Lists == {l \in UNION {[1 .. n -> Requests] : n \in 0 .. Cardinality(Requests)} :
            \A i, j \in DOMAIN l : i # j => l[i] # l[j]}
Holds(l) == {l[i] : i \in DOMAIN l}

TypeOK ==
  /\ box \in Lists
  /\ place \in [Requests -> {"idle", "send", "accepted", "list", "listSources",
                             "source", "delete", "end"}]
  /\ emails \in [Requests -> Lists]
  /\ \A r \in Requests :
       \A i \in DOMAIN sources[r] : sources[r][i] \in {emails[r][i], Missing}
  /\ outcome \in [Requests -> {"none", "sent", "emails", "true", "error"}]
  /\ sends \in [{"true", "false"} -> 0 .. Cardinality(Requests)]
  /\ accepted \subseteq Requests /\ doomed \in [Requests -> SUBSET Requests]

Init ==
  /\ box = <<>>
  /\ place = [r \in Requests |-> "idle"]
  /\ emails = [r \in Requests |-> <<>>]
  /\ sources = [r \in Requests |-> <<>>]
  /\ outcome = [r \in Requests |-> "none"]
  /\ sends = [b \in {"true", "false"} |-> 0]
  /\ accepted = {}
  /\ doomed = [r \in Requests |-> {}]

-----------------------------------------------------------------------------
Move(r, from, to) == place[r] = from /\ place' = [place EXCEPT ![r] = to]
Finish(r, from, result) ==
  /\ Move(r, from, "end")
  /\ outcome' = [outcome EXCEPT ![r] = result]
Count(success) == sends' = [sends EXCEPT ![success] = @ + 1]
lists == <<emails, sources>>

(* sendSupportEmail, sendRawEmail: the mail is composed and handed over.   *)
SendSupportEmail(r) ==
  /\ Move(r, "idle", "send")
  /\ UNCHANGED <<box, lists, outcome, sends, accepted, doomed>>

(* createMailOptions and sendMail: MailCatcher takes the mail.             *)
Accept(r) ==
  /\ Move(r, "send", "accepted")
  /\ box' = Append(box, r)
  /\ accepted' = accepted \cup {r}
  /\ UNCHANGED <<lists, outcome, sends, doomed>>

(* Mutant of Sent: the send is counted before its outcome is known.        *)
SentEarly(r) ==
  /\ Finish(r, "send", "sent")
  /\ Count("true")
  /\ UNCHANGED <<box, lists, accepted, doomed>>

Sent(r) ==
  /\ Finish(r, "accepted", "sent")
  /\ Count("true")
  /\ UNCHANGED <<box, lists, accepted, doomed>>

(* No server, a recipient refused (response.err), or a connection lost     *)
(* before the news of a mail that was taken.                               *)
SendFails(r) ==
  /\ Finish(r, "send", "error") \/ Finish(r, "accepted", "error")
  /\ Count("false")
  /\ UNCHANGED <<box, lists, accepted, doomed>>

-----------------------------------------------------------------------------
GetEmails(r) ==
  /\ Move(r, "idle", "list") \/ Move(r, "idle", "listSources")
  /\ UNCHANGED <<box, lists, outcome, sends, accepted, doomed>>

Listed(r) ==
  /\ emails' = [emails EXCEPT ![r] = box]
  /\ \/ Finish(r, "list", "emails")
     \/ Move(r, "listSources", "source") /\ UNCHANGED outcome
  /\ UNCHANGED <<box, sources, sends, accepted, doomed>>

ListFails(r) ==
  /\ \E from \in {"list", "listSources", "delete"} : Finish(r, from, "error")
  /\ UNCHANGED <<box, lists, sends, accepted, doomed>>

(* getEmailSource: one at a time; a mail that is gone, or an error, leaves *)
(* an entry without its source.                                            *)
GetEmailSource(r) ==
  LET k == Len(sources[r]) + 1 IN
  /\ place[r] = "source" /\ k <= Len(emails[r])
  /\ \E s \in {Missing} \cup ({emails[r][k]} \cap Holds(box)) :
       sources' = [sources EXCEPT ![r] = Append(@, s)]
  /\ UNCHANGED <<box, place, emails, outcome, sends, accepted, doomed>>

SourcesDone(r) ==
  /\ Len(sources[r]) = Len(emails[r])
  /\ Finish(r, "source", "emails")
  /\ UNCHANGED <<box, lists, sends, accepted, doomed>>

-----------------------------------------------------------------------------
DeleteEmails(r) ==
  /\ Move(r, "idle", "delete")
  /\ doomed' = [doomed EXCEPT ![r] = Holds(box)]
  /\ UNCHANGED <<box, lists, outcome, sends, accepted>>

(* axios.get sends GET whatever its configuration says: the list comes,    *)
(* with 200, and nothing is deleted.                                       *)
Deleted(r) ==
  /\ Finish(r, "delete", "true")
  /\ UNCHANGED <<box, lists, sends, accepted, doomed>>

(* Somebody clears the box on MailCatcher's own page, or it is restarted.  *)
Clear ==
  /\ box # <<>>
  /\ box' = <<>>
  /\ UNCHANGED <<place, lists, outcome, sends, accepted, doomed>>

Next ==
  \/ \E r \in Requests :
       \/ SendSupportEmail(r) \/ Accept(r) \/ Sent(r) \/ SendFails(r)
       \/ GetEmails(r) \/ Listed(r) \/ ListFails(r)
       \/ GetEmailSource(r) \/ SourcesDone(r)
       \/ DeleteEmails(r) \/ Deleted(r)
  \/ Clear

Spec == Init /\ [][Next]_vars

-----------------------------------------------------------------------------
(***************************************************************************)
(* email.sends and MailCatcher agree as far as they can: every success was *)
(* a mail it took, a mail it took is a success, a failure whose news was   *)
(* lost, or still awaited; and each success is counted once.               *)
(***************************************************************************)
SendsAreCounted ==
  LET sent == {r \in Requests : outcome[r] = "sent"}
  IN /\ sent \subseteq accepted /\ sends["true"] = Cardinality(sent)
     /\ Cardinality(accepted) <= sends["true"] + sends["false"]
                                 + Cardinality({r \in Requests : place[r] = "accepted"})

(***************************************************************************)
(* "Deletes all the emails on the mail server": when a deletion is         *)
(* answered true, none of the mails held when it was sent is held.         *)
(***************************************************************************)
DeletedMailsAreGone ==
  \A r \in Requests : outcome[r] = "true" => doomed[r] \cap Holds(box) = {}

=============================================================================
