------------------------------- MODULE Upload -------------------------------
(***************************************************************************)
(* A user's profile photo (UserController.upload): the file passes the     *)
(* pipes, is put into the bucket under a new name, and then recorded with  *)
(* the user.  Either call may fail, the process may die between them, the  *)
(* user may be deleted, and after a timeout the client uploads again while *)
(* the first handler goes on.                                              *)
(***************************************************************************)
EXTENDS Request, Files

CONSTANTS Uploaders, \* the clients with a profile
          Uploadable, \* what they upload
          Pipeable,  \* what the pipes are compared on
          MaxUploads \* bound: uploads sent

\* What the interceptor makes of a form: nothing, one file, or an array of them.
ASSUME UploadAssumption ==
    /\ MaxUploads \in Nat
    /\ \A v \in (Uploadable \cup Pipeable) \ {None} :
          /\ Len(v.files) \in Nat
          /\ (v.many /\ v.files = << >>) \/ 1 \in DOMAIN v.files

VARIABLES photo,    \* user -> the name of the photo, for the users that are stored
          bucket,   \* the objects of the bucket
          uploads,  \* the number of uploads; each handler names its object by it
          recorded  \* the names that were ever recorded with a user

uploadVars == <<photo, bucket, uploads, recorded>>

UploadInit ==
    /\ photo = [u \in Uploaders |-> None]
    /\ bucket = {} /\ uploads = 0 /\ recorded = {}

SendUpload(c) ==
    \E v \in Uploadable :
        /\ uploads < MaxUploads /\ uploads' = uploads + 1
        /\ Send(c, "upload", "known", [user |-> c, value |-> v, name |-> uploads'])
        /\ UNCHANGED <<photo, bucket, recorded>>

DeleteUser(u) ==
    /\ u \in DOMAIN photo
    /\ photo' = [w \in DOMAIN photo \ {u} |-> photo[w]]
    /\ UNCHANGED <<bucket, uploads, recorded, requestVars>>

\* UserPayloadPutToRequestGuard and UserNotFoundGuard
FindUser(s) ==
    /\ At(s, "upload", "guards")
    /\ \/ req[s].data.user \notin DOMAIN photo /\ Throw(s, "404")
       \/ req[s].data.user \in DOMAIN photo /\ GoOn(s, "interceptors", req[s].data)
    /\ UNCHANGED <<timeouts, faults, uploadVars>>

Pipe(s) ==
    LET verdict == UploadPipes(req[s].data.value)
    IN /\ At(s, "upload", "interceptors")
       /\ IF verdict = "ok" THEN GoOn(s, "handler", req[s].data) ELSE Throw(s, verdict)
       /\ UNCHANGED <<timeouts, faults, uploadVars>>

\* The object: whose folder it is in, its name, the file.
Object(d) == [user |-> d.user, name |-> d.name, file |-> d.value.files[1]]

\* A put whose failure would be swallowed.
PutAnyway(s) ==
    /\ At(s, "upload", "handler")
    /\ GoOn(s, "record", req[s].data)
    /\ \/ bucket' = bucket \cup {Object(req[s].data)} /\ UNCHANGED faults
       \/ Fault /\ UNCHANGED bucket
    /\ UNCHANGED <<timeouts, photo, uploads, recorded>>

\* AwsS3Service.putItemInBucket
Put(s) ==
    /\ At(s, "upload", "handler")
    /\ \/ /\ bucket' = bucket \cup {Object(req[s].data)}
          /\ GoOn(s, "record", req[s].data)
          /\ UNCHANGED faults
       \/ Fault /\ Throw(s, "500") /\ UNCHANGED bucket
    /\ UNCHANGED <<timeouts, photo, uploads, recorded>>

\* An update that would create the user who is gone.
RecordUpserts(s) ==
    LET d == req[s].data
    IN /\ At(s, "upload", "record")
       /\ photo' = [w \in DOMAIN photo \cup {d.user} |-> IF w = d.user THEN d.name ELSE photo[w]]
       /\ recorded' = IF d.user \in DOMAIN photo THEN recorded \cup {d.name} ELSE recorded
       /\ Reply(s, "200")
       /\ UNCHANGED <<timeouts, faults, bucket, uploads>>

\* UserService.updatePhoto: of a user who is gone it finds nothing, and nobody looks at that.
Record(s) ==
    LET d == req[s].data
    IN /\ At(s, "upload", "record")
       /\ \/ /\ photo' = IF d.user \in DOMAIN photo THEN [photo EXCEPT ![d.user] = d.name] ELSE photo
             /\ recorded' = IF d.user \in DOMAIN photo THEN recorded \cup {d.name} ELSE recorded
             /\ Reply(s, "200")
             /\ UNCHANGED faults
          \/ Fault /\ Throw(s, "500") /\ UNCHANGED <<photo, recorded>>
       /\ UNCHANGED <<timeouts, bucket, uploads>>
-----------------------------------------------------------------------------
(* Properties *)

UploadTypeOK ==
    /\ DOMAIN photo \subseteq Uploaders
    /\ \A u \in DOMAIN photo : photo[u] = None \/ photo[u] \in recorded
    /\ recorded \subseteq 1..uploads /\ uploads \in 0..MaxUploads

\* Whatever fails between the two writes, and however many uploads of one user overlap: the
\* photo of a user is an object of the bucket, in the user's own folder, and an image no
\* larger than allowed (UserController.upload).
PhotoStored ==
    \A u \in DOMAIN photo : photo[u] # None =>
        \E o \in bucket :
            /\ o.user = u /\ o.name = photo[u]
            /\ o.file.mime \in Mimes["image"] /\ o.file.size <= MaxFileSize["image"]

\* As long as nothing fails and no user is deleted, every object of the bucket is recorded or
\* about to be, timeouts and retries notwithstanding: only a fault between the put and the
\* record leaves an object that nobody knows (UserController.upload).
OrphansExplained ==
    faults = 0 /\ DOMAIN photo = Uploaders =>
        \A o \in bucket : o.name \in recorded \/ \E s \in Slots :
            At(s, "upload", "record") /\ req[s].data.name = o.name

\* Whatever reaches the pipes of a route, nothing, one file or several, within the limits, at
\* them or beyond: they let pass exactly what each check, taken on its own, allows for every
\* file (FileRequiredPipe, FileSize*Pipe, FileType*Pipe, FileMaxFiles*Pipe, FileExtractPipe
\* and FileValidationPipe, in the order the routes name them).
PipesExact == uploads = 1 /\ (\E s \in Slots : At(s, "upload", "interceptors")) =>
    \A v \in Pipeable :
        LET fit(kind, f) == f.mime \in Mimes[kind] /\ f.size <= MaxFileSize[kind]
            some == v # None /\ v.files # << >>
            fits(kind) == some /\ \A n \in DOMAIN v.files : fit(kind, v.files[n])
            few(kind) == v.many => Len(v.files) <= MaxFiles[kind]
        IN /\ (UploadPipes(v) = "ok") = fits("image")
           /\ (ImportPipes(v) = "ok") =
                 (fits("excel") /\ \A n \in DOMAIN v.files :
                                       v.files[n].readable /\ Failing(v.files[n]) = {})
           /\ \A kind \in Kinds :
                 (ArrayPipes(kind, None, 0, v) = "ok") = (fits(kind) /\ few(kind))
=============================================================================
