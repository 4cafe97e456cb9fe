-------------------------------- MODULE Files -------------------------------
(***************************************************************************)
(* FileController, FileService and HiddenUploadController: requests that   *)
(* read, upload and delete files of the server.  A read checks the name,   *)
(* opens the file later and streams it chunk by chunk; an upload empties   *)
(* the file and fills it again in place; a deletion takes the name away    *)
(* and leaves the file to those who have it open.                          *)
(***************************************************************************)
EXTENDS Naturals, Sequences

CONSTANTS
  Requests,
  Paths,
  MaxChunks   \* bound: chunks of a file

VARIABLES
  entry,   \* the directory: the file a name leads to
  data,    \* the chunks of each file: who wrote each
  stage,   \* where each request is
  job,     \* what it was asked: [kind, path, size]
  handle,  \* the file it has open
  done,    \* what it has read, or how many chunks it wrote
  status,  \* its answer
  dirty,   \* history: files whose latest upload met another or did not end
  alone,   \* history: uploads that met no other
  met      \* history: reads that met an upload, or a dirty file

vars == <<entry, data, stage, job, handle, done, status, dirty, alone, met>>

Original == "original"
NoFile == "none"
Hole == "hole"
(* A file is known by the upload that created it.                          *)
Nodes == {Original} \cup Requests
Uploads == {"put", "hidden"}
Local == {"get", "raw", "grpc"}
Kinds == Uploads \cup Local \cup {"delete", "remote", "rawRemote", "cloud"}
Texts == {<<>>} \cup UNION {[1 .. n -> Nodes \cup {Hole}] : n \in 1 .. MaxChunks}

TypeOK ==
  /\ entry \in [Paths -> Nodes \cup {NoFile}]
  /\ data \in [Nodes -> Texts]
  /\ stage \in [Requests -> {"idle", "access", "open", "read", "dirname",
                             "truncate", "write", "unlink", "fetch", "end"}]
  /\ job \in [Requests -> [kind : Kinds, path : Paths, size : 1 .. MaxChunks]]
  /\ handle \in [Requests -> Nodes \cup {NoFile}]
  /\ done \in [Requests -> Texts]
  /\ status \in [Requests -> {0, 200, 400, 404, 500}]
  /\ dirty \subseteq Nodes /\ alone \subseteq Requests /\ met \subseteq Requests

Init ==
  /\ entry \in [Paths -> {Original, NoFile}]
  /\ \A p, q \in Paths : p # q => entry[p] = NoFile \/ entry[q] = NoFile
  /\ data = [n \in Nodes |-> IF n = Original THEN [i \in 1 .. MaxChunks |-> n] ELSE <<>>]
  /\ stage = [r \in Requests |-> "idle"]
  /\ job = [r \in Requests |->
              [kind |-> "get", path |-> CHOOSE p \in Paths : TRUE, size |-> 1]]
  /\ handle = [r \in Requests |-> NoFile]
  /\ done = [r \in Requests |-> <<>>]
  /\ status = [r \in Requests |-> 0]
  /\ dirty = {} /\ alone = {} /\ met = {}

-----------------------------------------------------------------------------
Goto(r, place) == stage' = [stage EXCEPT ![r] = place]
history == <<dirty, alone, met>>
disk == <<entry, data>>

(* A request arrives for a path.                                           *)
Asked(r, kind, place) ==
  /\ stage[r] = "idle"
  /\ Goto(r, place)
  /\ \E p \in Paths, n \in IF kind \in Uploads THEN 1 .. MaxChunks ELSE {1} :
       job' = [job EXCEPT ![r] = [kind |-> kind, path |-> p, size |-> n]]
  /\ UNCHANGED <<disk, handle, done, status, history>>

Answer(r, code) ==
  /\ Goto(r, "end")
  /\ status' = [status EXCEPT ![r] = code]
  /\ handle' = [handle EXCEPT ![r] = NoFile]

(* An answer that leaves the disk alone.                                   *)
AnswerFrom(r, place, code) ==
  /\ stage[r] = place
  /\ Answer(r, code)
  /\ UNCHANGED <<disk, job, done, history>>

(* A request that is answered before it does anything.                     *)
Refused(r, kind, code) ==
  /\ stage[r] = "idle"
  /\ job' = [job EXCEPT ![r].kind = kind]
  /\ Answer(r, code)
  /\ UNCHANGED <<disk, done, history>>

(* What a failed read is to each route.                                    *)
Failed(r) == IF job[r].kind \in {"raw", "rawRemote"} THEN 404 ELSE 500

-----------------------------------------------------------------------------
(* A path of the disk, an address, or one whose text a provider has.       *)
Load(r, local, remote) ==
  \/ Asked(r, local, "access") \/ Asked(r, remote, "fetch") \/ Asked(r, "cloud", "fetch")

LoadFile(r) == Load(r, "get", "remote")
ReadFile(r) == Load(r, "raw", "rawRemote")
ReadFileGrpc(r) == Load(r, "grpc", "remote")

(* getFile: the name is there and may be read.                             *)
Access(r) ==
  /\ stage[r] = "access"
  /\ entry[job[r].path] # NoFile
  /\ Goto(r, "open")
  /\ UNCHANGED <<disk, job, handle, done, status, history>>

AccessFails(r) == AnswerFrom(r, "access", Failed(r))

(* The stream opens the file after the handler has returned it.            *)
Open(r) ==
  /\ stage[r] = "open"
  /\ LET n == entry[job[r].path] IN
     /\ n # NoFile
     /\ handle' = [handle EXCEPT ![r] = n]
     /\ met' = IF n \in dirty THEN met \cup {r} ELSE met
  /\ Goto(r, "read")
  /\ UNCHANGED <<disk, job, done, status, dirty, alone>>

OpenFails(r) == AnswerFrom(r, "open", 500)

Read(r) ==
  /\ stage[r] = "read"
  /\ LET text == data[handle[r]] IN
       IF Len(done[r]) < Len(text)
       THEN /\ done' = [done EXCEPT ![r] = Append(@, text[Len(@) + 1])]
            /\ UNCHANGED <<stage, status, handle>>
       ELSE Answer(r, 200) /\ UNCHANGED done
  /\ UNCHANGED <<disk, job, history>>

ReadFails(r) == AnswerFrom(r, "read", 500)

-----------------------------------------------------------------------------
(* The providers whose texts the constructor sets: get finds them there,   *)
(* and asks the host of any other address.                                 *)
Providers == {"GOOGLE", "DIGITAL_OCEAN", "AZURE", "AWS"}

(* loadCPFile: a path that is not under the provider's address is refused. *)
LoadCPFile(r, url) ==
  \/ Refused(r, "remote", 400)
  \/ Asked(r, IF url \in Providers THEN "cloud" ELSE "remote", "fetch")

LoadGoogleFile(r) == LoadCPFile(r, "GOOGLE")
LoadAwsFile(r) == LoadCPFile(r, "AWS")
LoadAzureFile(r) == LoadCPFile(r, "AZURE")
LoadDigitalOceanFile(r) == LoadCPFile(r, "DIGITAL_OCEAN")

(* CloudProvidersMetaData.get: a text it has, or what the host answers in  *)
(* five seconds, which must not be empty.                                  *)
Fetch(r) ==
  \E code \in IF job[r].kind = "cloud" THEN {200} ELSE {200, Failed(r)} :
    AnswerFrom(r, "fetch", code)

-----------------------------------------------------------------------------
(* PUT raw: a body that is no text is answered without being written.      *)
UploadFile(r) == Asked(r, "put", "dirname") \/ Refused(r, "put", 200)

(* POST hidden-upload: not a form, no file, no image; or a directory made  *)
(* and a name that no other file has.                                      *)
UploadImage(r) ==
  \/ Refused(r, "hidden", 400) \/ Asked(r, "hidden", "dirname")

Dirname(r) ==
  /\ stage[r] = "dirname"
  /\ Goto(r, "truncate")
  /\ UNCHANGED <<disk, job, handle, done, status, history>>

UploadFails(r) == \E place \in {"dirname", "truncate", "write"} : AnswerFrom(r, place, 500)

Writers(n) == {w \in Requests : stage[w] = "write" /\ handle[w] = n}
Readers(n) == {q \in Requests : stage[q] = "read" /\ handle[q] = n}
Target(r) == IF job[r].kind = "hidden" THEN NoFile ELSE entry[job[r].path]

(* Mutant of Emptied: the file is opened for writing and not truncated.    *)
EmptiedNot(n) == data[n]

(* What writeFile leaves of a file when it opens it.                       *)
Emptied(n) == <<>>

(* An upload of its own name, or of a name that is gone, makes a file.     *)
Truncate(r) ==
  LET n == IF Target(r) = NoFile THEN r ELSE Target(r) IN
  /\ stage[r] = "truncate"
  /\ data' = [data EXCEPT ![n] = Emptied(n)]
  /\ entry' = IF job[r].kind = "hidden" THEN entry ELSE [entry EXCEPT ![job[r].path] = n]
  /\ handle' = [handle EXCEPT ![r] = n]
  /\ Goto(r, "write")
  /\ dirty' = dirty \cup {n}
  /\ alone' = IF Writers(n) = {} THEN alone \cup {r} ELSE alone \ Writers(n)
  /\ met' = met \cup Readers(n)
  /\ UNCHANGED <<job, done, status>>

(* Each handle has its own offset: what is there is overwritten, what is   *)
(* missing before it is a hole.                                            *)
Put(text, k, w) == [i \in 1 .. (IF Len(text) > k THEN Len(text) ELSE k) |->
                      IF i = k THEN w ELSE IF i > Len(text) THEN Hole ELSE text[i]]

Write(r) ==
  /\ stage[r] = "write"
  /\ Len(done[r]) < job[r].size
  /\ done' = [done EXCEPT ![r] = Append(@, r)]
  /\ data' = [data EXCEPT ![handle[r]] = Put(@, Len(done'[r]), r)]
  /\ UNCHANGED <<entry, stage, job, handle, status, history>>

Close(r) ==
  /\ stage[r] = "write"
  /\ Len(done[r]) = job[r].size
  /\ dirty' = IF r \in alone THEN dirty \ {handle[r]} ELSE dirty
  /\ Answer(r, 200)
  /\ UNCHANGED <<disk, job, done, alone, met>>

-----------------------------------------------------------------------------
(* deleteFile: an absolute or remote path is refused.                      *)
DeleteFile(r) == Asked(r, "delete", "unlink") \/ Refused(r, "delete", 500)

Unlink(r) ==
  /\ stage[r] = "unlink"
  /\ entry[job[r].path] # NoFile
  /\ entry' = [entry EXCEPT ![job[r].path] = NoFile]
  /\ Answer(r, 200)
  /\ UNCHANGED <<data, job, done, history>>

UnlinkFails(r) == AnswerFrom(r, "unlink", 500)

-----------------------------------------------------------------------------
GetFile(r) == Access(r) \/ AccessFails(r) \/ Open(r) \/ OpenFails(r) \/ Read(r) \/ ReadFails(r)
WriteFile(r) == Dirname(r) \/ Truncate(r) \/ Write(r) \/ Close(r) \/ UploadFails(r)

Finished == \A r \in Requests : stage[r] = "end"

Next ==
  \/ \E r \in Requests :
       \/ LoadFile(r) \/ ReadFile(r) \/ ReadFileGrpc(r) \/ GetFile(r)
       \/ LoadGoogleFile(r) \/ LoadAwsFile(r) \/ LoadAzureFile(r)
       \/ LoadDigitalOceanFile(r) \/ Fetch(r)
       \/ UploadFile(r) \/ UploadImage(r) \/ WriteFile(r)
       \/ DeleteFile(r) \/ Unlink(r) \/ UnlinkFails(r)
  \/ Finished /\ UNCHANGED vars

Spec == Init /\ [][Next]_vars

-----------------------------------------------------------------------------
(***************************************************************************)
(* A read that is answered 200, met no upload while it had the file open   *)
(* and opened one whose latest upload met no other and ended, has read all *)
(* of one version and nothing else: deletions and new files of the same    *)
(* name, at any step of it, do not mix into what it streams.               *)
(***************************************************************************)
ReadsAreWhole ==
  \A r \in Requests \ met :
    status[r] = 200 /\ job[r].kind \in Local =>
      \E w \in Nodes :
        done[r] = [i \in 1 .. (IF w = Original THEN MaxChunks ELSE job[w].size) |-> w]

=============================================================================
