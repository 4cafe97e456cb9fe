---------------------------- MODULE HiddenUpload ----------------------------
(***************************************************************************)
(* HiddenUpload in the client: a file is selected, read for its preview,   *)
(* and uploaded under a name.  The inputs are disabled while it is.        *)
(***************************************************************************)
EXTENDS Integers

CONSTANTS
  Images,         \* files that are images
  Others,         \* files that are not
  MaxSelections   \* bound: selections of a file

VARIABLES
  selected,    \* selectedFile, or None
  selections,  \* how many files were selected
  named,       \* is fileName more than blanks?
  reading,     \* files being read for a preview: [n, file]
  preview,     \* the file previewed, or None
  request,     \* the file being uploaded: uploading is request # None
  result,      \* the file the result shows, None, or Failure
  error        \* is an error shown?

vars == <<selected, selections, named, reading, preview, request, result, error>>

None == "none"
Failure == "failure"

TypeOK ==
  /\ selected \in Images \cup {None}
  /\ selections \in 0 .. MaxSelections
  /\ named \in BOOLEAN /\ error \in BOOLEAN
  /\ reading \subseteq [n : 1 .. MaxSelections, file : Images]
  /\ preview \in Images \cup {None}
  /\ request \in Images \cup {None}
  /\ result \in Images \cup {None, Failure}

Init ==
  /\ selected = None /\ selections = 0
  /\ named = FALSE
  /\ reading = {} /\ preview = None
  /\ request = None /\ result = None /\ error = FALSE

Uploading == request # None

(* Mutant of Enabled: the inputs stay enabled.                             *)
AlwaysEnabled == TRUE

Enabled == ~Uploading

SetFileName ==
  /\ Enabled
  /\ named' = ~named
  /\ UNCHANGED <<selected, selections, reading, preview, request, result, error>>

(* Mutant of IsImageFile: any file will do.                                *)
AnyFile(file) == file # None

IsImageFile(file) == file \in Images

(* Nothing chosen, or no image: the former selection goes all the same.    *)
Select(file) ==
  /\ Enabled /\ selections < MaxSelections
  /\ selections' = selections + 1
  /\ preview' = None /\ result' = None
  /\ IF IsImageFile(file)
     THEN /\ selected' = file /\ error' = FALSE
          /\ reading' = reading \cup {[n |-> selections', file |-> file]}
     ELSE /\ selected' = None /\ error' = (error \/ file \in Others)
          /\ UNCHANGED reading
  /\ UNCHANGED <<named, request>>

(* The files are read in any order, the former selection's too.            *)
PreviewBuilt(r) ==
  /\ reading' = reading \ {r}
  /\ \/ preview' = r.file /\ UNCHANGED error
     \/ error' = TRUE /\ UNCHANGED preview
  /\ UNCHANGED <<selected, selections, named, request, result>>

OnUpload ==
  /\ selected # None /\ Enabled
  /\ IF named
     THEN request' = selected /\ error' = FALSE /\ result' = None
     ELSE error' = TRUE /\ UNCHANGED <<request, result>>
  /\ UNCHANGED <<selected, selections, named, reading, preview>>

(* makeApiRequest turns a refusal into a result of no content; only with   *)
(* no answer at all is there an error.                                     *)
Uploaded ==
  /\ Uploading
  /\ request' = None
  /\ \/ result' \in {request, Failure} /\ UNCHANGED error
     \/ error' = TRUE /\ UNCHANGED result
  /\ UNCHANGED <<selected, selections, named, reading, preview>>

Next ==
  \/ SetFileName \/ OnUpload \/ Uploaded
  \/ \E file \in Images \cup Others \cup {None} : Select(file)
  \/ \E r \in reading : PreviewBuilt(r)

Spec == Init /\ [][Next]_vars

-----------------------------------------------------------------------------
(***************************************************************************)
(* The picture shown as the result is the one selected, for any timing of  *)
(* the answer and of new selections.                                       *)
(***************************************************************************)
ResultIsSelected == result \in Images => result = selected

=============================================================================
