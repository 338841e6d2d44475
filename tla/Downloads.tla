------------------------------ MODULE Downloads ------------------------------
(***************************************************************************)
(* The download of a file: StorageController                               *)
(* (src/lib/storage/storage.controller.ts) asks FileManager for the access *)
(* to it and for a stream of it, or of a range of it, from                 *)
(* FilesystemAdapter, while another request deletes the file: first the    *)
(* file, and then its metadata.                                            *)
(***************************************************************************)
EXTENDS Integers

CONSTANTS
  MaxLength, \* bound on the bytes of a file
  NaN,       \* what parseInt makes of what is no number
  Undefined  \* what is not there

ASSUME DownloadsAssumption ==
  MaxLength \in Nat /\ NaN \notin Int /\ Undefined \notin Int /\ NaN # Undefined

VARIABLE download \* the file, and the request

NoDownload == [pc |-> "none"]

\* The declared access of a field, with a policy that allows the user or does not
Access == {"public", "protected", "private", "allowing", "denying"}

\* filesAccess takes away one of the routes, or both.
FilesAccess == {"all", "public", "protected", "none"}
Served(route, filesAccess) == filesAccess \in {"all", route}

\* The numbers that a range may have: "bytes=1-3", "bytes=1-", "bytes=-3"
Number == 0 .. MaxLength + 1
Whole == [start |-> Undefined, end |-> Undefined]
Ranges == [start : Number \cup {NaN}, end : Number \cup {NaN, Undefined}]

\* user: "none", or the owner of the document or another
Ask(route, filesAccess, user, access, length, range) ==
  /\ download = NoDownload
  /\ download' = [pc |-> IF Served(route, filesAccess) THEN "asked" ELSE "answered", status |-> 404,
                  user |-> IF route = "public" THEN "none" ELSE user, access |-> access, owned |-> TRUE,
                  stored |-> TRUE, known |-> TRUE, length |-> length, range |-> range,
                  first |-> Undefined, last |-> Undefined, declared |-> Undefined]

Becoming(fields) == download' = [f \in DOMAIN download |-> IF f \in DOMAIN fields THEN fields[f] ELSE download[f]]
AnswerWith(status) == Becoming([pc |-> "answered", status |-> status])

\* The document that the file belongs to, null when it has gone
FilesResource == IF download.owned THEN [createdBy |-> "owner"] ELSE [createdBy |-> "nobody"]

\* checkFileAccess, of the props of the field
Grants ==
  CASE download.access = "public"                 -> TRUE
    [] download.access = "protected"              -> download.user # "none"
    [] download.access = "private"                -> download.user # "none" /\ download.user = FilesResource.createdBy
    [] download.access \in {"allowing", "denying"} -> download.user # "none" /\ download.access = "allowing"

\* Without metadata there are no props.
FilePropsMeta ==
  /\ download.pc = "asked"
  /\ IF download.known THEN Becoming([pc |-> "checking"]) ELSE AnswerWith(404)

\* FileError: 403 to a user, 404 to nobody
CheckAccess ==
  /\ download.pc = "checking"
  /\ IF Grants THEN Becoming([pc |-> "allowed"]) ELSE AnswerWith(IF download.user # "none" THEN 403 ELSE 404)

\* A stream that is null: its options are read before it is checked.
NoStream == AnswerWith(500)

Exists ==
  /\ download.pc = "allowed"
  /\ IF download.stored THEN Becoming([pc |-> "there"]) ELSE NoStream

Least(a, b) == IF a < b THEN a ELSE b

\* Mutant: the last byte is the length.
EndIndexBeyond(range, length) ==
  CASE range.end \in {Undefined, NaN} -> IF range.start \in Number THEN length ELSE Undefined
    [] OTHER                          -> Least(range.end, length)

\* The last byte that FilesystemAdapter.stream reads: undefined for the end of the file
EndIndex(range, length) ==
  CASE range.end \in {Undefined, NaN} -> IF range.start \in Number THEN length - 1 ELSE Undefined
    [] OTHER                          -> Least(range.end, length - 1)

\* createReadStream throws for what is no integer, or negative, or ends before it starts.
Readable(start, end) ==
  /\ start # NaN
  /\ end # Undefined => end >= 0 /\ (start # Undefined => start <= end)

\* The end of the range in the headers
HeaderEnd(range, length) ==
  IF range.end = Undefined \/ (range.end \in Number /\ range.end >= length) THEN length - 1 ELSE range.end

\* stat, and the stream, which is not open yet; and the headers, when there is a range
Stream ==
  LET d == download
      last == EndIndex(d.range, d.length)
      end == HeaderEnd(d.range, d.length)
  IN /\ d.pc = "there"
     /\ IF d.stored /\ Readable(d.range.start, last)
          THEN Becoming([pc |-> "streaming", status |-> IF d.range = Whole THEN 200 ELSE 206,
                         first |-> IF d.range = Whole THEN 0 ELSE d.range.start,
                         last |-> IF last = Undefined THEN d.length - 1 ELSE last,
                         declared |-> IF d.range = Whole THEN d.length
                                      ELSE IF end = NaN THEN NaN ELSE end - d.range.start + 1])
          ELSE NoStream

\* The file is opened, and what it has is sent.  When it cannot be opened, the error handler of
\* streamFile only logs that: nothing ends the response.
Open ==
  /\ download.pc = "streaming"
  /\ Becoming([pc |-> IF download.stored THEN "answered" ELSE "hanging"])

\* Another request deletes the document, then the file, then its metadata.
Disappear ==
  /\ download.pc \notin {"none", "answered", "hanging"}
  /\ \/ download.owned /\ Becoming([owned |-> FALSE])
     \/ ~download.owned /\ download.stored /\ Becoming([stored |-> FALSE])
     \/ ~download.stored /\ download.known /\ Becoming([known |-> FALSE])

DownloadsNext == FilePropsMeta \/ CheckAccess \/ Exists \/ Stream \/ Open \/ Disappear

-----------------------------------------------------------------------------
(* A download that is answered declares as many bytes as it sends, and they are those of the range,  *)
(* up to the end of the file; only an end that is no number breaks that (storage.controller.ts:90).  *)
(* It is answered 500 only if the file has gone since its metadata was read, or if the range starts  *)
(* beyond the file or its end, or has no start; and it hangs only if the file has gone before it was *)
(* opened (file-manager.ts:119).                                                                     *)
DownloadsAreExact ==
  LET d == download IN
  /\ d.pc = "answered" /\ d.status \in {200, 206} =>
       /\ d.range.end # NaN => d.declared = d.last - d.first + 1
       /\ d.status = 200 => d.declared = d.length
       /\ d.status = 206 =>
            /\ d.first = d.range.start /\ d.last < d.length
            /\ d.range.end \in Number => d.last = d.range.end \/ (d.last = d.length - 1 /\ d.last < d.range.end)
  /\ d.pc = "answered" /\ d.status = 500 =>
       \/ ~d.stored \/ d.range.start = NaN
       \/ d.range.start \in Number /\ d.range.start >= d.length
       \/ d.range.end \in Number /\ d.range.start > d.range.end
  /\ d.pc = "hanging" => ~d.stored
=============================================================================
