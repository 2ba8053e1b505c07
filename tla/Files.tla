-------------------------------- MODULE Files --------------------------------
(***************************************************************************)
(* The pipes an uploaded file goes through before a handler sees it        *)
(* (common/file/pipes).  What a route gets is nothing, one file, or an     *)
(* array of them.  A pipe answers "ok" or the status of what it throws,    *)
(* "500" standing for the TypeError of one that is given nothing, and for  *)
(* what the library throws that cannot read a workbook.                    *)
(***************************************************************************)
EXTENDS Absent, Integers, Sequences

CONSTANTS Mimes,      \* kind of file -> the media types it may have
          MaxFileSize, \* kind of file -> the largest size
          MaxFiles    \* kind of file -> the most files of an array

Kinds == {"image", "excel", "video", "audio"}

ASSUME FilesAssumption == MaxFiles \in [Kinds -> Nat] /\ None # "rows"

\* A file: its media type, its size, whether it can be read as a workbook, and for each row
\* of its sheet whether it fits the DTO.
One(file) == [many |-> FALSE, files |-> <<file>>]
Many(files) == [many |-> TRUE, files |-> files]

All(v, P(_)) == \A n \in DOMAIN v.files : P(v.files[n])

Required(v) ==
    CASE v = None -> "422"
      [] v # None /\ v.many /\ v.files = << >> -> "422"
      [] OTHER -> "ok"

\* FileCustomSizeInterceptor and FileCustomMaxFilesInterceptor put the limits of a route,
\* if it has some, before the configured ones; a number of 0 counts as none.
SizeLimit(kind, custom) == IF custom = None THEN MaxFileSize[kind] ELSE custom
CountLimit(kind, custom) == IF custom \in {None, 0} THEN MaxFiles[kind] ELSE custom

\* What a pipe does with nothing: only that for images looks.
Given(v, kind, verdict) ==
    CASE v = None /\ kind = "image" -> "ok"
      [] v = None /\ kind # "image" -> "500"
      [] OTHER -> verdict

Size(kind, custom, v) ==
    Given(v, kind, IF v # None /\ ~All(v, LAMBDA f : f.size <= SizeLimit(kind, custom))
                     THEN "413" ELSE "ok")

\* A pipe that would look at the first file only.
TypeFirst(kind, v) ==
    Given(v, kind, IF v # None /\ v.files # << >> /\ v.files[1].mime \notin Mimes[kind]
                     THEN "415" ELSE "ok")

Type(kind, v) ==
    Given(v, kind, IF v # None /\ ~All(v, LAMBDA f : f.mime \in Mimes[kind]) THEN "415" ELSE "ok")

\* A single file has no length, and passes.
Count(kind, custom, v) ==
    Given(v, kind, IF v # None /\ v.many /\ Len(v.files) > CountLimit(kind, custom)
                     THEN "422" ELSE "ok")

\* The files are taken one after the other: the first that fails decides.
OneByOne(v, bad(_), verdict(_)) ==
    IF v = None \/ All(v, LAMBDA f : ~bad(f)) THEN "ok"
    ELSE verdict(v.files[CHOOSE n \in DOMAIN v.files :
                           bad(v.files[n]) /\ \A m \in 1..(n - 1) : ~bad(v.files[m])])

\* Excel files become their rows; another media type is refused, and what the library cannot
\* read ends in what it throws.
Extract(v) ==
    OneByOne(v, LAMBDA f : f.mime \notin Mimes["excel"] \/ ~f.readable,
                LAMBDA f : IF f.mime \notin Mimes["excel"] THEN "415" ELSE "500")

\* The rows of a file that its DTO refuses, which the answer lists.
Failing(f) == {n \in DOMAIN f.rows : ~f.rows[n]}

\* A file may fail for want of an extract, too, which is what FileExtractPipe has made of
\* the files.
Validation(v, extract) ==
    OneByOne(v, LAMBDA f : f.mime \notin Mimes["excel"] \/ extract = None \/ Failing(f) # {},
                LAMBDA f : IF f.mime \notin Mimes["excel"] THEN "415" ELSE "422")

\* Pipes run in order, and the first to throw ends the request.
FirstOf(verdicts) ==
    IF \A n \in DOMAIN verdicts : verdicts[n] = "ok" THEN "ok"
    ELSE verdicts[CHOOSE n \in DOMAIN verdicts :
                    verdicts[n] # "ok" /\ \A m \in 1..(n - 1) : verdicts[m] = "ok"]

\* UserController.upload
UploadPipes(v) == FirstOf(<<Required(v), Size("image", None, v), Type("image", v)>>)

\* UserAdminController.import, which stores nothing and returns the rows.
ImportPipes(v) ==
    FirstOf(<<Required(v), Size("excel", None, v), Type("excel", v), Extract(v),
              Validation(v, "rows")>>)

\* The pipes for the files of any other route: an array, and both limits custom.
ArrayPipes(kind, size, count, v) ==
    FirstOf(<<Required(v), Count(kind, count, v), Size(kind, size, v), Type(kind, v)>>)
=============================================================================
