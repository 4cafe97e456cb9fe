------------------------------- MODULE Profile ------------------------------
(***************************************************************************)
(* UsersController and UsersService for a user who exists: the requests    *)
(* that read the profile and those that read it, assign fields and flush   *)
(* them.  Each request has an entity manager of its own, whose flush       *)
(* updates the fields that differ from what the request had read.          *)
(***************************************************************************)
EXTENDS Naturals

CONSTANT Requests

VARIABLES
  row,    \* the user's row
  step,   \* where each request is
  kind,   \* which handler it runs
  data,   \* the fields it assigns, Keep for those it does not
  found,  \* the row it has read: the snapshot of its entity manager
  code,   \* the status it was answered
  rivals  \* history: fields others have flushed since it read the row

vars == <<row, step, kind, data, found, code, rivals>>

Fields == {"name", "password", "photo"}
Keep == 2
Values == {0, 1}  \* photo 0 is no photo
Updates == {"info", "me", "photo", "deletePhoto"}
Reads == {"one", "id", "fullinfo", "search", "getPhoto", "ldap", "getInfo", "admin", "getMe"}
Start == [f \in Fields |-> 0]

TypeOK ==
  /\ row \in [Fields -> Values]
  /\ step \in [Requests -> {"idle", "guard", "find", "find2", "hash", "flush", "end"}]
  /\ kind \in [Requests -> Updates \cup Reads]
  /\ data \in [Requests -> [Fields -> Values \cup {Keep}]]
  /\ found \in [Requests -> [Fields -> Values]]
  /\ code \in [Requests -> {0, 200, 204, 401, 403, 404, 500}]
  /\ rivals \in [Requests -> SUBSET Fields]

Init ==
  /\ row \in {Start, [Start EXCEPT !["photo"] = 1]}
  /\ step = [r \in Requests |-> "idle"]
  /\ kind = [r \in Requests |-> "one"]
  /\ data = [r \in Requests |-> [f \in Fields |-> Keep]]
  /\ found = [r \in Requests |-> Start]
  /\ code = [r \in Requests |-> 0]
  /\ rivals = [r \in Requests |-> {}]

-----------------------------------------------------------------------------
Goto(r, place) == step' = [step EXCEPT ![r] = place]
Answer(r, c) ==
  /\ Goto(r, "end")
  /\ code' = [code EXCEPT ![r] = c]

Arrive(r, k, place, fields) ==
  /\ step[r] = "idle"
  /\ kind' = [kind EXCEPT ![r] = k]
  /\ \E d \in fields : data' = [data EXCEPT ![r] = d]
  /\ Goto(r, place)
  /\ UNCHANGED <<row, found, code, rivals>>

Refuse(r, k, codes) ==
  /\ step[r] = "idle"
  /\ kind' = [kind EXCEPT ![r] = k]
  /\ \E c \in codes : Answer(r, c)
  /\ UNCHANGED <<row, data, found, rivals>>

Nothing == {[f \in Fields |-> Keep]}
Info == {d \in [Fields -> Values \cup {Keep}] : d["photo"] = Keep}
Photo(v) == {[f \in Fields |-> IF f = "photo" THEN v ELSE Keep]}

(* A handler finds no user, or the token's e-mail is another's; of one     *)
(* that is found it goes on to answer or to write.                         *)
ChangeUserInfo(r) == Arrive(r, "info", "find", Info) \/ Refuse(r, "info", {403, 404, 500})
UpdateAuthenticatedUser(r) == Arrive(r, "me", "find", Info) \/ Refuse(r, "me", {404, 500})
UploadPhoto(r) == Arrive(r, "photo", "find", Photo(1)) \/ Refuse(r, "photo", {500})
DeleteUserPhotoById(r) ==
  Arrive(r, "deletePhoto", "find", Photo(0)) \/ Refuse(r, "deletePhoto", {401, 404, 500})

GetByEmail(r) == Arrive(r, "one", "find", Nothing) \/ Refuse(r, "one", {404, 500})
GetById(r) == Arrive(r, "id", "find", Nothing) \/ Refuse(r, "id", {404, 500})
GetFullUserInfo(r) == Arrive(r, "fullinfo", "find", Nothing) \/ Refuse(r, "fullinfo", {404, 500})
SearchByName(r) == Arrive(r, "search", "find", Nothing)
GetUserPhoto(r) == Arrive(r, "getPhoto", "find", Nothing) \/ Refuse(r, "getPhoto", {404, 500})
LdapQuery(r) == Arrive(r, "ldap", "find", Nothing) \/ Refuse(r, "ldap", {404, 500})
GetUserInfo(r) == Arrive(r, "getInfo", "find", Nothing) \/ Refuse(r, "getInfo", {403, 404, 500})
GetAuthenticatedUser(r) == Arrive(r, "getMe", "find", Nothing) \/ Refuse(r, "getMe", {404, 500})

(* AdminGuard asks for the permissions first, and the handler once more.   *)
AdminGuard(r) == Arrive(r, "admin", "guard", Nothing) \/ Refuse(r, "admin", {403, 500})
GetAdminStatus(r) ==
  /\ step[r] = "guard"
  /\ Goto(r, "find")
  /\ UNCHANGED <<row, kind, data, found, code, rivals>>

-----------------------------------------------------------------------------
(* findByEmail, findById and the like read the row.                        *)
Find(r) ==
  /\ step[r] = "find"
  /\ found' = [found EXCEPT ![r] = row]
  /\ IF kind[r] \in Reads
     THEN Answer(r, IF kind[r] = "getPhoto" /\ row["photo"] = 0 THEN 204 ELSE 200)
     ELSE /\ Goto(r, CASE kind[r] = "deletePhoto" -> "find2"
                       [] kind[r] = "me" /\ data[r]["password"] # Keep -> "hash"
                       [] OTHER -> "flush")
          /\ UNCHANGED code
  /\ rivals' = [rivals EXCEPT ![r] = {}]
  /\ UNCHANGED <<row, kind, data>>

(* deletePhoto finds the user again, in the entity manager's own map; the  *)
(* password of updateUserAll is hashed.                                    *)
FindAgain(r) ==
  /\ step[r] = "find2"
  /\ Goto(r, "flush")
  /\ UNCHANGED <<row, kind, data, found, code, rivals>>

HashPassword(r) ==
  /\ step[r] = "hash"
  /\ Goto(r, "flush")
  /\ UNCHANGED <<row, kind, data, found, code, rivals>>

Assigned(r) == {f \in Fields : data[r][f] # Keep}

(* Mutant of ChangeSet: every field of the entity is written back.         *)
WholeEntity(r) == [f \in Fields |-> IF f \in Assigned(r) THEN data[r][f] ELSE found[r][f]]

(* The row after a flush: what was assigned and differs from what was read.*)
ChangeSet(r) == [f \in Fields |->
  IF f \in Assigned(r) /\ data[r][f] # found[r][f] THEN data[r][f] ELSE row[f]]

Rival(r) ==
  rivals' = [q \in Requests |-> IF q = r THEN rivals[q] ELSE rivals[q] \cup Assigned(r)]

(* persistAndFlush.  A photo that was deleted is a property without value: *)
(* whether the change set has it is left open.                             *)
Flush(r) ==
  /\ step[r] = "flush"
  /\ \/ row' = ChangeSet(r)
     \/ kind[r] = "deletePhoto" /\ UNCHANGED row
  /\ Rival(r)
  /\ Answer(r, 200)
  /\ UNCHANGED <<kind, data, found>>

(* The flush fails, or its answer is lost after it took effect.            *)
FlushFails(r) ==
  /\ step[r] = "flush"
  /\ row' \in {row, ChangeSet(r)}
  /\ Rival(r)
  /\ Answer(r, 500)
  /\ UNCHANGED <<kind, data, found>>

FindFails(r) ==
  /\ step[r] \in {"guard", "find"}
  /\ Answer(r, 500)
  /\ UNCHANGED <<row, kind, data, found, rivals>>

Update(r) == Find(r) \/ FindAgain(r) \/ HashPassword(r) \/ Flush(r) \/ FlushFails(r) \/ FindFails(r)

Next == \E r \in Requests :
  \/ ChangeUserInfo(r) \/ UpdateAuthenticatedUser(r)
  \/ UploadPhoto(r) \/ DeleteUserPhotoById(r)
  \/ GetByEmail(r) \/ GetById(r) \/ GetFullUserInfo(r) \/ SearchByName(r)
  \/ GetUserPhoto(r) \/ LdapQuery(r) \/ GetUserInfo(r) \/ GetAuthenticatedUser(r)
  \/ AdminGuard(r) \/ GetAdminStatus(r) \/ Update(r)

Spec == Init /\ [][Next]_vars

-----------------------------------------------------------------------------
(***************************************************************************)
(* An update that was acknowledged stays: a field it assigned keeps its    *)
(* value until another request that assigns the same field flushes.  A     *)
(* photo uploaded while the profile is being changed, or the reverse, is   *)
(* not lost, although both read the whole row before they write.  A        *)
(* field that both assign is lost to the flush that comes last.            *)
(***************************************************************************)
AcknowledgedFieldsStay ==
  \A r \in Requests :
    code[r] = 200 /\ kind[r] \in Updates \ {"deletePhoto"} =>
      \A f \in Assigned(r) \ rivals[r] : row[f] = data[r][f]

=============================================================================
