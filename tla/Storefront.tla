----------------------------- MODULE Storefront -----------------------------
(***************************************************************************)
(* Marketplace in the client, on its own page or as the preview of the     *)
(* home page: the products of a range of dates, which DateRangePicker      *)
(* chooses, and the feedback file a user uploads and is offered back.      *)
(* Requests overlap, and nothing cancels one.  Days are numbers; a list of *)
(* products is the range it was asked for.                                 *)
(***************************************************************************)
EXTENDS Integers

CONSTANTS
  Today,      \* the day the page is opened; day 0 is a year before
  Files,      \* names of files to upload
  MaxChoices, \* bound: choices of a date
  MaxUploads  \* bound: uploads

VARIABLES
  preview,   \* the prop: the latest products, and no dates
  up,        \* is the page rendered?
  dates,     \* the picker's state: <<dateFrom, dateTo>>
  choices,   \* how many dates were chosen
  fetches,   \* fetches of products in flight: [n, range]
  products,  \* the list shown, none at first
  uploads,   \* uploads in flight: [n, file, stored]
  sent,      \* how many were sent
  result,    \* sendFileResult: "none", a "text", or "other"
  fileName,  \* the name the link is for
  disk,      \* files the server has
  due,       \* history: the range of the latest request
  calm       \* history: no fetch failed or was overtaken

vars == <<preview, up, dates, choices, fetches, products,
          uploads, sent, result, fileName, disk, due, calm>>

Days == 0 .. Today + 1
Latest == <<>>
NoFile == "none"

TypeOK ==
  /\ preview \in BOOLEAN /\ up \in BOOLEAN
  /\ dates \in Days \X Days /\ choices \in 0 .. MaxChoices
  /\ fetches \subseteq [n : 0 .. MaxChoices, range : {Latest} \cup (Days \X Days)]
  /\ products \in {<<>>} \cup {<<r>> : r \in {Latest} \cup (Days \X Days)}
  /\ uploads \subseteq [n : 1 .. MaxUploads, file : Files, stored : BOOLEAN]
  /\ sent \in 0 .. MaxUploads
  /\ result \in {"none", "text", "other"} /\ fileName \in Files \cup {NoFile}
  /\ disk \subseteq Files
  /\ due \in {Latest} \cup (Days \X Days)
  /\ calm \in BOOLEAN

-----------------------------------------------------------------------------
(* The effect of the first render: the latest products, or those of a year *)
(* and up to tomorrow, while the picker shows a year up to today.          *)
FirstRange(p) == IF p THEN Latest ELSE <<0, Today + 1>>

Init ==
  /\ preview \in BOOLEAN /\ up = TRUE
  /\ dates = <<0, Today>> /\ choices = 0
  /\ fetches = {[n |-> 0, range |-> FirstRange(preview)]}
  /\ products = <<>>
  /\ uploads = {} /\ sent = 0 /\ result = "none" /\ fileName = NoFile
  /\ disk = {}
  /\ due = FirstRange(preview) /\ calm = TRUE

(* Mutant of Asked: the callback keeps the dates of the first render.      *)
AskedAtFirst == <<0, Today>>

(* onDatesChange gets the dates of the render, those before the choice.    *)
Asked == dates

HandleDateChange(range) ==
  /\ up /\ ~preview /\ choices < MaxChoices
  /\ dates' = range /\ choices' = choices + 1
  /\ fetches' = fetches \cup {[n |-> choices', range |-> Asked]}
  /\ due' = dates
  /\ UNCHANGED <<preview, up, products, uploads, sent, result, fileName, disk, calm>>

HandleDateFromChange == \E d \in Days : d < dates[2] /\ HandleDateChange(<<d, dates[2]>>)
HandleDateToChange == \E d \in Days : d > dates[1] /\ HandleDateChange(<<dates[1], d>>)

SetProducts(f) ==
  /\ fetches' = fetches \ {f}
  /\ products' = IF up THEN <<f.range>> ELSE products
  /\ calm' = (calm /\ \A g \in fetches : g.n >= f.n)
  /\ UNCHANGED <<preview, up, dates, choices, uploads, sent, result, fileName, disk, due>>

(* An error object has no map, and the render that meets it throws, which  *)
(* takes the whole page down.                                              *)
ProductsRefused(f) ==
  /\ fetches' = fetches \ {f}
  /\ up' = FALSE /\ calm' = FALSE
  /\ UNCHANGED <<preview, dates, choices, products, uploads, sent, result, fileName,
                 disk, due>>

ProductsUnanswered(f) ==
  /\ fetches' = fetches \ {f} /\ calm' = FALSE
  /\ UNCHANGED <<preview, up, dates, choices, products, uploads, sent, result, fileName,
                 disk, due>>

-----------------------------------------------------------------------------
(* Mutant of SendFile: the name is set with the choice, not the answer.    *)
SendFileNamed(file) ==
  /\ up /\ sent < MaxUploads
  /\ sent' = sent + 1 /\ fileName' = file
  /\ uploads' = uploads \cup {[n |-> sent', file |-> file, stored |-> FALSE]}
  /\ UNCHANGED <<preview, up, dates, choices, fetches, products, result, disk, due, calm>>

SendFile(file) ==
  /\ up /\ sent < MaxUploads
  /\ sent' = sent + 1
  /\ uploads' = uploads \cup {[n |-> sent', file |-> file, stored |-> FALSE]}
  /\ UNCHANGED <<preview, up, dates, choices, fetches, products, result, fileName, disk,
                 due, calm>>

PutFile(u) ==
  /\ ~u.stored
  /\ disk' = disk \cup {u.file}
  /\ uploads' = (uploads \ {u}) \cup {[u EXCEPT !.stored = TRUE]}
  /\ UNCHANGED <<preview, up, dates, choices, fetches, products, sent, result, fileName,
                 due, calm>>

(* The page sets the result and the name whatever the answer, and shows    *)
(* the link if the result has a length, which neither an error object nor  *)
(* an empty answer has.                                                    *)
SetSendFileResult(u) ==
  /\ uploads' = uploads \ {u}
  /\ IF up
     THEN /\ result' \in (IF u.stored THEN {"text"} ELSE {}) \cup {"other"}
          /\ fileName' = u.file
     ELSE UNCHANGED <<result, fileName>>
  /\ UNCHANGED <<preview, up, dates, choices, fetches, products, sent, disk, due, calm>>

UploadUnanswered(u) ==
  /\ uploads' = uploads \ {u}
  /\ UNCHANGED <<preview, up, dates, choices, fetches, products, sent, result, fileName,
                 disk, due, calm>>

Next ==
  \/ HandleDateFromChange \/ HandleDateToChange
  \/ \E f \in fetches : SetProducts(f) \/ ProductsRefused(f) \/ ProductsUnanswered(f)
  \/ \E file \in Files : SendFile(file)
  \/ \E u \in uploads : PutFile(u) \/ SetSendFileResult(u) \/ UploadUnanswered(u)

Spec == Init /\ [][Next]_vars

-----------------------------------------------------------------------------
(***************************************************************************)
(* Once no fetch is in flight, and unless one failed or was overtaken, the *)
(* products shown are those of the dates the picker showed before the last *)
(* choice: one choice behind, and never more.                              *)
(***************************************************************************)
OneChoiceBehind == calm /\ fetches = {} => products = <<due>>

(***************************************************************************)
(* The link to the uploaded file, while the page offers one, is to a file  *)
(* the server has, however uploads overlap, fail or go unanswered.         *)
(***************************************************************************)
OfferedFileWasStored == up /\ result = "text" => fileName \in disk

=============================================================================
