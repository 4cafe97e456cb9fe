----------------------------- MODULE ChatWidget -----------------------------
(***************************************************************************)
(* The chat of the client, its query and ChatController behind it.  Each   *)
(* message is sent with the whole list so far; several may be in flight.   *)
(* React batches what answers set until it renders; a key press works on   *)
(* the list that was rendered last, and is rendered at once.               *)
(***************************************************************************)
EXTENDS Naturals, Sequences, FiniteSets

CONSTANT MaxMessages  \* bound: messages the user sends

VARIABLES
  chat,     \* chatMessages as rendered
  queued,   \* the updates of answers not rendered yet
  loading,  \* the flag as rendered
  settled,  \* setLoading(false) is not rendered yet
  sent,     \* messages sent
  queries,  \* the queries in flight: [id, at, length]
  dropped   \* history: answers overtaken by a key press before they rendered

vars == <<chat, queued, loading, settled, sent, queries, dropped>>

Ids == 1 .. MaxMessages
Message == [role : {"user", "assistant"}, id : Ids, content : {"text", "empty"}]
From(role, l) == {i \in DOMAIN l : l[i].role = role}
Query == [id : Ids, at : {"server", "api", "answer"}, length : 1 .. 2 * MaxMessages]

TypeOK ==
  /\ \A i \in DOMAIN chat : chat[i] \in Message
  /\ \A i \in DOMAIN queued : queued[i] \in Message /\ queued[i].role = "assistant"
  /\ loading \in BOOLEAN /\ settled \in BOOLEAN
  /\ sent \in 0 .. MaxMessages
  /\ queries \subseteq Query
  /\ dropped \subseteq Ids

Init ==
  /\ chat = <<>> /\ queued = <<>>
  /\ loading = FALSE /\ settled = FALSE
  /\ sent = 0 /\ queries = {} /\ dropped = {}

-----------------------------------------------------------------------------
(* handleKeyDown and sendMessage, for an input that is not blank.  The     *)
(* list of the render replaces whatever answers have queued since.         *)
SendMessage ==
  /\ sent < MaxMessages
  /\ sent' = sent + 1
  /\ chat' = Append(chat, [role |-> "user", id |-> sent', content |-> "text"])
  /\ queries' = queries \cup {[id |-> sent', at |-> "server", length |-> Len(chat')]}
  /\ dropped' = dropped \cup {queued[i].id : i \in DOMAIN queued}
  /\ queued' = <<>>
  /\ loading' = TRUE /\ settled' = FALSE

Move(q, place) ==
  /\ queries' = (queries \ {q}) \cup {[q EXCEPT !.at = place]}
  /\ UNCHANGED <<chat, queued, loading, settled, sent, dropped>>

(* ChatController and ChatService: the chat API is asked, for up to five   *)
(* minutes, unless it is not configured.                                   *)
AskApi(q) == q.at = "server" /\ Move(q, "api")
ApiAnswers(q) == q.at \in {"server", "api"} /\ Move(q, "answer")

Reply(q, content) == [role |-> "assistant", id |-> q.id, content |-> content]

(* Mutant of Answered: the answer replaces the list it was asked with.     *)
AnsweredInPlace(q, content) ==
  /\ chat' = Append(SubSeq(chat, 1, q.length), Reply(q, content))
  /\ UNCHANGED queued

(* setChatMessages with a function of the list as it will be.              *)
Answered(q, content) ==
  /\ queued' = Append(queued, Reply(q, content))
  /\ UNCHANGED chat

(* queryChat makes an empty text of any answer that is no string; when     *)
(* nothing came at all, the catch says the same.                           *)
QueryChat(q) ==
  /\ q.at = "answer"
  /\ \E content \in {"text", "empty"} : Answered(q, content)
  /\ queries' = queries \ {q}
  /\ settled' = TRUE
  /\ UNCHANGED <<loading, sent, dropped>>

Render ==
  /\ settled
  /\ chat' = chat \o queued
  /\ queued' = <<>>
  /\ loading' = FALSE /\ settled' = FALSE
  /\ UNCHANGED <<sent, queries, dropped>>

Next ==
  \/ SendMessage
  \/ \E q \in queries : AskApi(q) \/ ApiAnswers(q) \/ QueryChat(q)
  \/ Render

Spec == Init /\ [][Next]_vars

-----------------------------------------------------------------------------
(***************************************************************************)
(* No message of the user is ever lost or moved, however answers come in;  *)
(* an answer is shown once, after its question, unless a message was sent  *)
(* between its arrival and the render; and the list says it is loading     *)
(* only while an answer is awaited or about to be rendered.                *)
(***************************************************************************)
ChatKeepsUp ==
  /\ {chat[i].id : i \in From("user", chat)} = 1 .. sent
  /\ \A i, j \in From("user", chat) : i < j => chat[i].id < chat[j].id
  /\ \A n \in 1 .. sent :
       LET shown == {i \in From("assistant", chat \o queued) : (chat \o queued)[i].id = n}
           open == {q \in queries : q.id = n}
       IN /\ Cardinality(shown) + Cardinality(open) + (IF n \in dropped THEN 1 ELSE 0) = 1
          /\ \A i \in shown : \E j \in 1 .. i : (chat \o queued)[j].role = "user"
                                                /\ (chat \o queued)[j].id = n
  /\ loading => queries # {} \/ settled

=============================================================================
