---------------------------- MODULE AccessProofs ----------------------------
(***************************************************************************)
(* Who gets to what, proved for all values of the constants: the routes of *)
(* a resource (Routes), the download of a file (Downloads), the limits     *)
(* that a policy sets (Policies), the relations that an answer shows       *)
(* (Populations) and what a filter finds (Filters).  Each part has a       *)
(* specification of its own here, of which Requests takes the steps.       *)
(***************************************************************************)
EXTENDS Routes, Downloads, Policies, Populations, Filters, FiniteSetTheorems, SequenceTheorems, WellFoundedInduction,
        TLAPS

-----------------------------------------------------------------------------
(* Downloads *)

Asks ==
  \E route \in {"public", "protected"}, filesAccess \in FilesAccess, user \in {"none", "owner", "other"},
     access \in Access, length \in 0 .. MaxLength, range \in Ranges \cup {Whole} :
    Ask(route, filesAccess, user, access, length, range)

\* One request for a file, any, while another request deletes the file
DownloadsSpec == download = NoDownload /\ [][Asks \/ DownloadsNext]_download

Place == Int \cup {NaN, Undefined}

\* A request for a file, as the adapter and the controller have it
DownloadRecord ==
  [pc : {"asked", "checking", "allowed", "there", "streaming", "answered", "hanging"},
   status : {404, 403, 500, 200, 206}, user : {"none", "owner", "other"}, access : Access,
   owned : BOOLEAN, stored : BOOLEAN, known : BOOLEAN, length : 0 .. MaxLength, range : Ranges \cup {Whole},
   first : Place, last : Place, declared : Place]

\* What a stream has been opened for
StreamFits(d) ==
  LET end == HeaderEnd(d.range, d.length)
      last == EndIndex(d.range, d.length)
  IN /\ Readable(d.range.start, last)
     /\ d.last = IF last = Undefined THEN d.length - 1 ELSE last
     /\ d.range = Whole => d.status = 200 /\ d.first = 0 /\ d.declared = d.length
     /\ d.range # Whole => /\ d.status = 206 /\ d.first = d.range.start
                           /\ d.declared = IF end = NaN THEN NaN ELSE end - d.range.start + 1

\* The status is that of an answer, or the one that the request came with; a stream that has
\* begun fits its range, and what refuses one has a reason.
DownloadInv ==
  download # NoDownload =>
    /\ download \in DownloadRecord
    /\ download.pc \in {"asked", "checking", "allowed", "there"} => download.status = 404
    /\ download.pc = "streaming" \/ download.status \in {200, 206} => StreamFits(download)
    /\ download.status = 500 => ~download.stored \/ ~Readable(download.range.start, EndIndex(download.range, download.length))
    /\ download.pc = "hanging" => ~download.stored
FieldsOfDownload ==
  {"pc", "status", "user", "access", "owned", "stored", "known", "length", "range", "first", "last", "declared"}

\* Becoming changes the fields that it is given and leaves the others.
LEMMA BecomingChanges ==
  ASSUME NEW fields, download \in DownloadRecord, Becoming(fields)
  PROVE  LET new(field) == IF field \in DOMAIN fields THEN fields[field] ELSE download[field]
         IN /\ \A field \in FieldsOfDownload : download'[field] = new(field)
            /\ (\A field \in DOMAIN fields : field \in {"pc", "status", "owned", "stored", "known", "first", "last", "declared"})
               /\ new("pc") \in {"asked", "checking", "allowed", "there", "streaming", "answered", "hanging"}
               /\ new("status") \in {404, 403, 500, 200, 206}
               /\ new("owned") \in BOOLEAN /\ new("stored") \in BOOLEAN /\ new("known") \in BOOLEAN
               /\ new("first") \in Place /\ new("last") \in Place /\ new("declared") \in Place
               => download' \in DownloadRecord
<1> DEFINE new(field) == IF field \in DOMAIN fields THEN fields[field] ELSE download[field]
<1>1. download' = [field \in DOMAIN download |-> new(field)]
  BY DEF Becoming
<1>2. DOMAIN download = FieldsOfDownload
  BY DEF DownloadRecord, FieldsOfDownload
<1>3. \A field \in FieldsOfDownload : download'[field] = new(field)
  BY <1>1, <1>2
<1>4. download' = [pc |-> new("pc"), status |-> new("status"), user |-> new("user"), access |-> new("access"),
                   owned |-> new("owned"), stored |-> new("stored"), known |-> new("known"),
                   length |-> new("length"), range |-> new("range"),
                   first |-> new("first"), last |-> new("last"), declared |-> new("declared")]
  BY <1>1, <1>2, Zenon, SMT DEF FieldsOfDownload
<1>5. download.user \in {"none", "owner", "other"} /\ download.access \in Access
      /\ download.length \in 0 .. MaxLength /\ download.range \in Ranges \cup {Whole}
  BY DEF DownloadRecord
<1> HIDE DEF new
<1>6. ASSUME new("user") \in {"none", "owner", "other"}, new("access") \in Access,
             new("length") \in 0 .. MaxLength, new("range") \in Ranges \cup {Whole},
             new("pc") \in {"asked", "checking", "allowed", "there", "streaming", "answered", "hanging"},
             new("status") \in {404, 403, 500, 200, 206},
             new("owned") \in BOOLEAN, new("stored") \in BOOLEAN, new("known") \in BOOLEAN,
             new("first") \in Place, new("last") \in Place, new("declared") \in Place
      PROVE  download' \in DownloadRecord
  BY <1>4, <1>6 DEF DownloadRecord
<1> QED BY <1>3, <1>5, <1>6 DEF new

\* A step that only goes on
LEMMA OnlyProgress ==
  ASSUME download \in DownloadRecord, NEW pc, Becoming([pc |-> pc])
  PROVE  download' = [download EXCEPT !.pc = pc]
<1> DEFINE fields == [pc |-> pc]
<1>1. DOMAIN fields = {"pc"} /\ fields["pc"] = pc
  OBVIOUS
<1> HIDE DEF fields
<1>2. download' = [field \in DOMAIN download |-> IF field \in DOMAIN fields THEN fields[field] ELSE download[field]]
  BY DEF Becoming, fields
<1>3. "pc" \in DOMAIN download
  BY DEF DownloadRecord
<1> QED BY <1>1, <1>2, <1>3

\* A record of a request is not that of none.
LEMMA RequestsAreThere == ASSUME download \in DownloadRecord PROVE download # NoDownload
  BY DEF DownloadRecord, NoDownload

\* The request comes: it is answered 404 at once, or asked.
LEMMA DownloadAsked == ASSUME DownloadInv, Asks PROVE DownloadInv'
<1> PICK route \in {"public", "protected"}, filesAccess \in FilesAccess, user \in {"none", "owner", "other"},
         access \in Access, length \in 0 .. MaxLength, range \in Ranges \cup {Whole} :
      Ask(route, filesAccess, user, access, length, range)
  BY DEF Asks
<1>1. download' \in DownloadRecord /\ download'.status = 404 /\ download'.pc \in {"asked", "answered"}
  BY DEF Ask, DownloadRecord, Place
<1> QED BY <1>1 DEF DownloadInv

\* No step changes who asks for what.
LEMMA DownloadSteps == ASSUME DownloadInv, DownloadsNext PROVE DownloadInv'
<1> DEFINE d == download
<1>1. d \in DownloadRecord /\ d # NoDownload
  BY DEF DownloadInv, NoDownload, DownloadsNext, FilePropsMeta, CheckAccess, Exists, Stream, Open, Disappear
<1>2. ASSUME NEW pc \in {"checking", "allowed", "there"}, d.pc \in {"asked", "checking", "allowed"}, Becoming([pc |-> pc])
      PROVE  DownloadInv'
  <2>1. download' = [d EXCEPT !.pc = pc]
    BY <1>1, <1>2, OnlyProgress
  <2> QED BY <1>1, <1>2, <2>1 DEF DownloadInv, DownloadRecord
<1>3. ASSUME NEW status \in {403, 404, 500}, AnswerWith(status), d.pc \in {"asked", "checking", "allowed", "there"},
             status = 500 => ~d.stored \/ ~Readable(d.range.start, EndIndex(d.range, d.length))
      PROVE  DownloadInv'
  <2> DEFINE fields == [pc |-> "answered", status |-> status]
  <2>1. DOMAIN fields = {"pc", "status"} /\ fields.pc = "answered" /\ fields.status = status /\ Becoming(fields)
    BY <1>3 DEF AnswerWith
  <2> HIDE DEF fields
  <2>2. d.owned \in BOOLEAN /\ d.stored \in BOOLEAN /\ d.known \in BOOLEAN
        /\ d.first \in Place /\ d.last \in Place /\ d.declared \in Place
    BY <1>1 DEF DownloadRecord
  <2>3. download' \in DownloadRecord /\ download'.pc = "answered" /\ download'.status = status
        /\ download'.stored = d.stored /\ download'.range = d.range /\ download'.length = d.length
    BY <1>1, <1>3, <2>1, <2>2, BecomingChanges DEF FieldsOfDownload
  <2> QED BY <1>1, <1>3, <2>3 DEF DownloadInv, Readable, EndIndex
<1>4. CASE FilePropsMeta
  BY <1>4, <1>2, <1>3 DEF FilePropsMeta
<1>5. CASE CheckAccess
  BY <1>5, <1>2, <1>3 DEF CheckAccess
<1>6. CASE Exists
  BY <1>6, <1>2, <1>3 DEF Exists, NoStream
<1>7. CASE Stream
  <2> DEFINE last == EndIndex(d.range, d.length)
             end == HeaderEnd(d.range, d.length)
             whole == d.range = Whole
             now == IF whole THEN 200 ELSE 206
             from == IF whole THEN 0 ELSE d.range.start
             till == IF last = Undefined THEN d.length - 1 ELSE last
             bytes == IF whole THEN d.length ELSE IF end = NaN THEN NaN ELSE end - d.range.start + 1
  <2>1. CASE d.stored /\ Readable(d.range.start, last)
    <3>1. Becoming([pc |-> "streaming", status |-> now, first |-> from, last |-> till, declared |-> bytes])
      BY <1>7, <2>1 DEF Stream
    <3>2. whole \/ (d.range.start \in Number /\ d.range.end \in Number \cup {NaN, Undefined})
      BY <1>1, <2>1, DownloadsAssumption DEF DownloadRecord, Ranges, Readable, Number
    <3>3. d.length \in Int /\ MaxLength \in Int
      BY <1>1, DownloadsAssumption DEF DownloadRecord
    <3>4. from \in Place
      BY <3>2 DEF Number, Place
    <3>5. till \in Place /\ bytes \in Place
      <4>1. CASE whole
        BY <3>3, <4>1, DownloadsAssumption DEF Whole, EndIndex, Number, Place
      <4>2. CASE ~whole
        BY <3>2, <3>3, <4>2, DownloadsAssumption DEF EndIndex, HeaderEnd, Least, Number, Place
      <4> QED BY <4>1, <4>2
    <3> DEFINE fields == [pc |-> "streaming", status |-> now, first |-> from, last |-> till, declared |-> bytes]
    <3> now \in {200, 206}
      OBVIOUS
    <3> HIDE DEF now, from, till, bytes
    <3>6. /\ download' \in DownloadRecord /\ download'.pc = "streaming" /\ download'.status = now
          /\ download'.first = from /\ download'.last = till
          /\ download'.declared = bytes /\ download'.range = d.range /\ download'.length = d.length
      <4>1. DOMAIN fields = {"pc", "status", "first", "last", "declared"} /\ fields.pc = "streaming" /\ fields.status = now
            /\ fields.first = from /\ fields.last = till /\ fields.declared = bytes /\ Becoming(fields)
        BY <3>1
      <4>2. d.owned \in BOOLEAN /\ d.stored \in BOOLEAN /\ d.known \in BOOLEAN
        BY <1>1 DEF DownloadRecord
      <4> HIDE DEF fields
      <4> QED BY <1>1, <3>4, <3>5, <4>1, <4>2, BecomingChanges DEF FieldsOfDownload
    <3>7. StreamFits(download')
      BY <2>1, <3>6 DEF StreamFits, now, from, till, bytes
    <3> QED BY <3>6, <3>7 DEF DownloadInv, now
  <2>2. CASE ~(d.stored /\ Readable(d.range.start, last))
    BY <1>7, <2>2, <1>3 DEF Stream, NoStream
  <2> QED BY <2>1, <2>2
<1>8. CASE Open
  <2>1. download' = [d EXCEPT !.pc = IF d.stored THEN "answered" ELSE "hanging"]
    BY <1>1, <1>8, OnlyProgress DEF Open
  <2> QED BY <1>1, <1>8, <2>1 DEF DownloadInv, DownloadRecord, Open, StreamFits
<1>9. CASE Disappear
  <2>7. PICK fields : \E field \in {"owned", "stored", "known"} :
          DOMAIN fields = {field} /\ fields[field] = FALSE /\ Becoming(fields)
    <3>1. /\ DOMAIN [owned |-> FALSE] = {"owned"} /\ [owned |-> FALSE]["owned"] = FALSE
          /\ DOMAIN [stored |-> FALSE] = {"stored"} /\ [stored |-> FALSE]["stored"] = FALSE
          /\ DOMAIN [known |-> FALSE] = {"known"} /\ [known |-> FALSE]["known"] = FALSE
      OBVIOUS
    <3> QED BY <1>9, <3>1, Zenon DEF Disappear
  <2>1. PICK field \in {"owned", "stored", "known"} : DOMAIN fields = {field} /\ fields[field] = FALSE /\ Becoming(fields)
    BY <2>7
  <2>2. /\ download' \in DownloadRecord /\ (download'.stored => d.stored)
        /\ \A f \in {"pc", "status", "range", "length", "first", "last", "declared"} : download'[f] = d[f]
    <3>1. /\ d.owned \in BOOLEAN /\ d.stored \in BOOLEAN /\ d.known \in BOOLEAN
          /\ d.first \in Place /\ d.last \in Place /\ d.declared \in Place /\ d.status \in {404, 403, 500, 200, 206}
          /\ d.pc \in {"asked", "checking", "allowed", "there", "streaming", "answered", "hanging"}
      BY <1>1 DEF DownloadRecord
    <3>2. \A f \in FieldsOfDownload : download'[f] = IF f = field THEN FALSE ELSE d[f]
      BY <1>1, <2>1, BecomingChanges
    <3>3. download' \in DownloadRecord
      <4> DEFINE new(f) == IF f \in DOMAIN fields THEN fields[f] ELSE d[f]
      <4>1. /\ new("owned") \in BOOLEAN /\ new("stored") \in BOOLEAN /\ new("known") \in BOOLEAN
            /\ new("first") = d.first /\ new("last") = d.last /\ new("declared") = d.declared
            /\ new("status") = d.status /\ new("pc") = d.pc
        BY <2>1, <3>1
      <4>2. \A f \in DOMAIN fields : f \in {"pc", "status", "owned", "stored", "known", "first", "last", "declared"}
        BY <2>1
      <4> QED BY <1>1, <2>1, <3>1, <4>1, <4>2, BecomingChanges
    <3>4. download'.stored => d.stored
      BY <1>1, <2>1, <3>1, <3>2 DEF FieldsOfDownload
    <3>5. \A f \in {"pc", "status", "range", "length", "first", "last", "declared"} : download'[f] = d[f]
      BY <2>1, <3>2 DEF FieldsOfDownload
    <3> QED BY <3>3, <3>4, <3>5
  <2>3. /\ download'.pc = d.pc /\ download'.status = d.status /\ download'.range = d.range /\ download'.length = d.length
        /\ download'.first = d.first /\ download'.last = d.last /\ download'.declared = d.declared
    BY <2>2
  <2>4. d.pc = "streaming" \/ d.status \in {200, 206} => StreamFits(download)'
    BY <1>1, <2>3 DEF DownloadInv, StreamFits, Readable, EndIndex, HeaderEnd
  <2>5. d.status = 500 => (~download.stored \/ ~Readable(download.range.start, EndIndex(download.range, download.length)))'
    BY <1>1, <2>2, <2>3 DEF DownloadInv, Readable, EndIndex
  <2> QED BY <1>1, <1>9, <2>2, <2>3, <2>4, <2>5 DEF DownloadInv, Disappear
<1> QED BY <1>4, <1>5, <1>6, <1>7, <1>8, <1>9 DEF DownloadsNext

\* The invariant holds of every download.
LEMMA DownloadInvariant == DownloadsSpec => []DownloadInv
<1>1. download = NoDownload => DownloadInv
  BY DEF DownloadInv
<1>2. DownloadInv /\ [Asks \/ DownloadsNext]_download => DownloadInv'
  <2> SUFFICES ASSUME DownloadInv, UNCHANGED download PROVE DownloadInv'
    BY DownloadAsked, DownloadSteps
  <2> QED BY DEF DownloadInv, StreamFits, Readable, EndIndex, HeaderEnd
<1> QED BY <1>1, <1>2, PTL DEF DownloadsSpec

(* Whatever the range, the length of the file and the moment at which another request deletes it, a  *)
(* download declares as many bytes as it sends, those of its range, and is answered 500 or hangs     *)
(* only for the reasons that DownloadsAreExact lists (storage.controller.ts, file-manager.ts).       *)
THEOREM DownloadsExact == DownloadsSpec => []DownloadsAreExact
<1>1. DownloadInv => DownloadsAreExact
  <2> SUFFICES ASSUME DownloadInv PROVE DownloadsAreExact
    OBVIOUS
  <2> DEFINE d == download
  <2>1. CASE d = NoDownload
    BY <2>1 DEF NoDownload, DownloadsAreExact
  <2>2. ASSUME d # NoDownload, d.pc = "answered", d.status \in {200, 206}
        PROVE  /\ d.range.end # NaN => d.declared = d.last - d.first + 1
               /\ d.status = 200 => d.declared = d.length
               /\ d.status = 206 =>
                    /\ d.first = d.range.start /\ d.last < d.length
                    /\ d.range.end \in Number => d.last = d.range.end \/ (d.last = d.length - 1 /\ d.last < d.range.end)
    <3>1. StreamFits(d) /\ d \in DownloadRecord
      BY <2>2 DEF DownloadInv
    <3>2. CASE d.range = Whole
      BY <2>2, <3>1, <3>2, DownloadsAssumption DEF StreamFits, Whole, EndIndex, Number, DownloadRecord
    <3>3. CASE d.range # Whole
      <4>1. d.range.start \in Number /\ d.range.end \in Number \cup {NaN, Undefined}
        BY <3>1, <3>3 DEF DownloadRecord, Ranges, StreamFits, Readable
      <4>2. d.length \in 0 .. MaxLength
        BY <3>1 DEF DownloadRecord
      <4> QED BY <2>2, <3>1, <3>3, <4>1, <4>2, DownloadsAssumption DEF StreamFits, EndIndex, HeaderEnd, Least, Number
    <3> QED BY <3>2, <3>3
  <2>3. ASSUME d # NoDownload, d.pc = "answered", d.status = 500
        PROVE  \/ ~d.stored \/ d.range.start = NaN
               \/ d.range.start \in Number /\ d.range.start >= d.length
               \/ d.range.end \in Number /\ d.range.start > d.range.end
    <3>1. d \in DownloadRecord /\ (~d.stored \/ ~Readable(d.range.start, EndIndex(d.range, d.length)))
      BY <2>3 DEF DownloadInv
    <3>2. d.length \in 0 .. MaxLength
      BY <3>1 DEF DownloadRecord
    <3>3. CASE d.range = Whole
      BY <3>1, <3>2, <3>3, DownloadsAssumption DEF Whole, Readable, EndIndex, Number
    <3>4. CASE d.range # Whole
      <4>1. d.range.start \in Number \cup {NaN} /\ d.range.end \in Number \cup {NaN, Undefined}
        BY <3>1, <3>4 DEF DownloadRecord, Ranges
      <4> QED BY <3>1, <3>2, <4>1, DownloadsAssumption DEF Readable, EndIndex, Least, Number
    <3> QED BY <3>3, <3>4
  <2> QED BY <2>1, <2>2, <2>3 DEF DownloadsAreExact, DownloadInv
<1> QED BY <1>1, DownloadInvariant, PTL

-----------------------------------------------------------------------------
(* Routes *)

\* One request after the other, to a resource with any config, in an application with any settings
RoutesNext ==
  \/ \E keys \in SUBSET Key : \E config \in [keys -> Conf] : \E asked \in Asked(config) : Coming(asked)
  \/ RouteNext
  \/ call.pc \in {"answered", "refused"} /\ call' = NoCall

RoutesSpec == call = NoCall /\ [][RoutesNext]_call

\* The places of the handlers
LEMMA ControllerHandlersListed ==
  /\ DOMAIN ControllerHandlers = {1, 2, 3, 4, 5, 6, 7, 8, 9, 10, 11, 12, 13}
  /\ \A k \in {1, 2, 3, 4, 5, 6, 7, 8} : ControllerHandlers[k] = ResourceHandlers[k]
  /\ ControllerHandlers[9] = BulkHandlers[1] /\ ControllerHandlers[10] = BulkHandlers[2]
  /\ ControllerHandlers[11] = BulkHandlers[3]
  /\ ControllerHandlers[12] = FileHandlers[1] /\ ControllerHandlers[13] = FileHandlers[2]
<1>1. PICK S : ResourceHandlers \in Seq(S) /\ Len(ResourceHandlers) = 8
  <2>1. ASSUME NEW a1, NEW a2, NEW a3, NEW a4, NEW a5, NEW a6, NEW a7, NEW a8
        PROVE  LET a == <<a1, a2, a3, a4, a5, a6, a7, a8>>
               IN a \in Seq({a1, a2, a3, a4, a5, a6, a7, a8}) /\ Len(a) = 8
    OBVIOUS
  <2> QED BY <2>1, Zenon DEF ResourceHandlers
<1>2. PICK T : BulkHandlers \in Seq(T) /\ Len(BulkHandlers) = 3
  <2>1. ASSUME NEW a1, NEW a2, NEW a3
        PROVE  <<a1, a2, a3>> \in Seq({a1, a2, a3}) /\ Len(<<a1, a2, a3>>) = 3
    OBVIOUS
  <2> QED BY <2>1, Zenon DEF BulkHandlers
<1>3. PICK U : FileHandlers \in Seq(U) /\ Len(FileHandlers) = 2
  <2>1. ASSUME NEW a1, NEW a2 PROVE <<a1, a2>> \in Seq({a1, a2}) /\ Len(<<a1, a2>>) = 2
    OBVIOUS
  <2> QED BY <2>1, Zenon DEF FileHandlers
<1> DEFINE H == S \cup T \cup U
           two == ResourceHandlers \o BulkHandlers
<1>10. ResourceHandlers \in Seq(H) /\ BulkHandlers \in Seq(H) /\ FileHandlers \in Seq(H)
  BY <1>1, <1>2, <1>3
<1> HIDE DEF H
<1>11. two \in Seq(H) /\ Len(two) = 11
       /\ \A k \in 1 .. 11 : two[k] = IF k <= 8 THEN ResourceHandlers[k] ELSE BulkHandlers[k - 8]
  <2>1. /\ two \in Seq(H) /\ Len(two) = Len(ResourceHandlers) + Len(BulkHandlers)
        /\ \A k \in 1 .. Len(ResourceHandlers) + Len(BulkHandlers) :
             two[k] = IF k <= Len(ResourceHandlers) THEN ResourceHandlers[k] ELSE BulkHandlers[k - Len(ResourceHandlers)]
    BY <1>10, ConcatProperties
  <2> HIDE DEF two
  <2> QED BY <1>1, <1>2, <2>1
<1>4. two \in Seq(H) /\ Len(two) = 11 /\ (\A k \in 1 .. 8 : two[k] = ResourceHandlers[k])
      /\ \A k \in 1 .. 3 : two[8 + k] = BulkHandlers[k]
  <2> HIDE DEF two
  <2> QED BY <1>11
<1>5. ControllerHandlers = two \o FileHandlers
  BY DEF ControllerHandlers
<1> HIDE DEF two
<1>6. Len(ControllerHandlers) = 13 /\ ControllerHandlers \in Seq(H)
      /\ (\A k \in 1 .. 11 : ControllerHandlers[k] = two[k])
      /\ \A k \in 1 .. 2 : ControllerHandlers[11 + k] = FileHandlers[k]
  <2>1. /\ Len(ControllerHandlers) = 13 /\ ControllerHandlers \in Seq(H)
        /\ \A k \in 1 .. 13 : ControllerHandlers[k] = IF k <= 11 THEN two[k] ELSE FileHandlers[k - 11]
    <3> DEFINE all == two \o FileHandlers
    <3>1. /\ all \in Seq(H) /\ Len(all) = Len(two) + Len(FileHandlers)
          /\ \A k \in 1 .. Len(two) + Len(FileHandlers) :
               all[k] = IF k <= Len(two) THEN two[k] ELSE FileHandlers[k - Len(two)]
      BY <1>4, <1>10, ConcatProperties
    <3>2. ControllerHandlers = all
      BY <1>5
    <3> HIDE DEF all
    <3> QED BY <1>3, <1>4, <3>1, <3>2
  <2> QED BY <2>1
<1>7. two[9] = BulkHandlers[1] /\ two[10] = BulkHandlers[2] /\ two[11] = BulkHandlers[3]
  <2>1. two[8 + 1] = BulkHandlers[1] /\ two[8 + 2] = BulkHandlers[2] /\ two[8 + 3] = BulkHandlers[3]
    BY <1>4
  <2> QED BY <2>1
<1>8. ControllerHandlers[12] = FileHandlers[1] /\ ControllerHandlers[13] = FileHandlers[2]
  <2>1. ControllerHandlers[11 + 1] = FileHandlers[1] /\ ControllerHandlers[11 + 2] = FileHandlers[2]
    BY <1>6
  <2> QED BY <2>1
<1>9. DOMAIN ControllerHandlers = 1 .. 13
  BY <1>6
<1> QED BY <1>4, <1>6, <1>7, <1>8, <1>9

\* Of two different handlers only find takes what is meant for the other.
LEMMA OnlyFindTakesOthers ==
  ASSUME NEW i \in DOMAIN ControllerHandlers, NEW j \in DOMAIN ControllerHandlers,
         ControllerHandlers[i].method = ControllerHandlers[j].method,
         Fits(ControllerHandlers[i].path, ControllerHandlers[j].path)
  PROVE  i = j \/ (ControllerHandlers[i].operation = "aggregateGet" /\ ControllerHandlers[j].operation = "find")
<1> DEFINE C == ControllerHandlers
<1>1. DOMAIN C = {1, 2, 3, 4, 5, 6, 7, 8, 9, 10, 11, 12, 13}
  BY ControllerHandlersListed
<1>2. /\ C[1].method = "GET" /\ C[2].method = "GET" /\ C[3].method = "POST" /\ C[4].method = "GET" /\ C[5].method = "POST"
      /\ C[6].method = "POST" /\ C[7].method = "PUT" /\ C[8].method = "DELETE" /\ C[9].method = "POST"
      /\ C[10].method = "PUT" /\ C[11].method = "POST" /\ C[12].method = "POST" /\ C[13].method = "POST"
  BY ControllerHandlersListed DEF ResourceHandlers, BulkHandlers, FileHandlers
<1>3. /\ Len(C[1].path) = 1 /\ C[1].path[1] = ":id" /\ Len(C[2].path) = 0
      /\ Len(C[3].path) = 1 /\ C[3].path[1] = "query" /\ Len(C[4].path) = 1 /\ C[4].path[1] = "aggregate"
      /\ Len(C[5].path) = 1 /\ C[5].path[1] = "aggregate" /\ Len(C[6].path) = 0
      /\ Len(C[7].path) = 1 /\ Len(C[10].path) = 2
  BY ControllerHandlersListed DEF ResourceHandlers, BulkHandlers
<1>10. /\ Len(C[9].path) = 2 /\ C[9].path[1] = "bulk" /\ C[9].path[2] = "create"
       /\ Len(C[11].path) = 2 /\ C[11].path[1] = "bulk" /\ C[11].path[2] = "delete"
       /\ Len(C[12].path) = 2 /\ C[12].path[1] = ":id" /\ C[12].path[2] = "files"
       /\ Len(C[13].path) = 2 /\ C[13].path[1] = ":id" /\ C[13].path[2] = "delete-files"
  BY ControllerHandlersListed DEF BulkHandlers, FileHandlers
<1>4. C[4].operation = "aggregateGet" /\ C[1].operation = "find"
  BY ControllerHandlersListed DEF ResourceHandlers, BulkHandlers, FileHandlers
<1> HIDE DEF C
<1>11. Len(C[i].path) = Len(C[j].path)
  BY DEF Fits, C
<1>5. Len(C[i].path) = Len(C[j].path) /\ \A n \in 1 .. Len(C[i].path) : C[j].path[n] \in {C[i].path[n], ":id"}
  BY DEF Fits, C
<1>6. CASE C[i].method = "GET"
  <2>1. i \in {1, 2, 4} /\ j \in {1, 2, 4}
    BY <1>1, <1>2, <1>6 DEF C
  <2>2. i = j \/ (i = 4 /\ j = 1)
    BY <1>3, <1>5, <2>1
  <2> QED BY <1>4, <2>2 DEF C
<1>7. CASE C[i].method = "PUT"
  <2>1. i \in {7, 10} /\ j \in {7, 10}
    BY <1>1, <1>2, <1>7 DEF C
  <2>2. CASE i = 7 /\ j = 10
    BY <1>3, <1>11, <2>2
  <2>3. CASE i = 10 /\ j = 7
    BY <1>3, <1>11, <2>3
  <2> QED BY <2>1, <2>2, <2>3
<1>8. CASE C[i].method = "DELETE"
  BY <1>1, <1>2, <1>8 DEF C
<1>9. CASE C[i].method = "POST"
  <2>1. i \in {3, 5, 6, 9, 11, 12, 13} /\ j \in {3, 5, 6, 9, 11, 12, 13}
    BY <1>1, <1>2, <1>9 DEF C
  <2>2. CASE i = 6
    BY <1>3, <1>10, <1>11, <2>1, <2>2
  <2>3. CASE i \in {3, 5}
    <3>1. j \in {3, 5}
      BY <1>3, <1>10, <1>11, <2>1, <2>3
    <3>2. C[j].path[1] \in {C[i].path[1], ":id"}
      BY <1>3, <1>5, <2>3
    <3> QED BY <1>3, <2>3, <3>1, <3>2
  <2>4. CASE i \in {9, 11, 12, 13}
    <3>1. j \in {9, 11, 12, 13}
      <4>1. Len(C[3].path) = 1 /\ Len(C[5].path) = 1 /\ Len(C[6].path) = 0
        BY <1>3
      <4>2. Len(C[i].path) = 2
        BY <1>10, <2>4
      <4> QED BY <1>11, <2>1, <4>1, <4>2
    <3>2. C[j].path[2] = C[i].path[2]
      BY <1>5, <1>10, <2>4, <3>1
    <3> QED BY <1>10, <2>4, <3>1, <3>2
  <2> QED BY <2>1, <2>2, <2>3, <2>4
<1> QED BY <1>1, <1>2, <1>6, <1>7, <1>8, <1>9 DEF C

\* Where the entry of an operation has its values from
LEMMA ConfComes ==
  ASSUME NEW keys \in SUBSET Key, NEW config \in [keys -> Conf], NEW operation,
         NEW about, about = {operation, Base(operation), "All"} \cap keys,
         NEW nearest, nearest = IF operation \in about THEN operation ELSE IF Base(operation) \in about THEN Base(operation) ELSE "All"
  PROVE  LET conf == ConfOf(config, operation)
         IN /\ conf.public = "true" => \E key \in about : config[key].public = "true"
            /\ conf.auth = "list" => \E key \in about : config[key].auth = "list"
            /\ about # {} /\ config[nearest].auth = "list" => conf.auth = "list"
            /\ about # {} /\ config[nearest].enabled = "false" =>
                 \/ conf.enabled = "false"
                 \/ "All" \in keys /\ config["All"].enabled = "true" /\ Base(operation) \in keys
<1> DEFINE conf == ConfOf(config, operation)
           base == Base(operation)
           all == IF "All" \in DOMAIN config THEN config["All"] ELSE NoConf
<1>1. DOMAIN config = keys /\ \A key \in keys : config[key] \in Conf
  OBVIOUS
<1>2. all \in Conf
  BY <1>1 DEF NoConf, Conf, Flag
<1>3. ASSUME NEW one \in Conf
      PROVE  LET with == WithAll(one, all)
             IN /\ with.public \in {one.public, all.public} /\ with.auth \in {one.auth, all.auth}
                /\ one.auth = "list" => with.auth = "list"
                /\ one.enabled = "false" => with.enabled = IF all.enabled = "undefined" THEN "false" ELSE all.enabled
  <2>1. DOMAIN one = {"enabled", "auth", "public"}
    BY DEF Conf
  <2> HIDE DEF all
  <2>2. \A key \in {"enabled", "auth", "public"} :
          WithAll(one, all)[key] = IF ~Truthy(one[key]) /\ all[key] # "undefined" THEN all[key] ELSE one[key]
    BY <2>1 DEF WithAll
  <2> QED BY <2>2 DEF Truthy
<1>4. CASE operation \in keys /\ base # operation
  <2>1. conf = config[operation] /\ nearest = operation
    BY <1>1, <1>4 DEF ConfOf
  <2> QED BY <1>4, <2>1
<1>5. CASE ~(operation \in keys /\ base # operation) /\ base \in keys
  <2>1. conf = WithAll(config[base], all) /\ nearest = base
    BY <1>1, <1>5 DEF ConfOf
  <2>2. all.public = "true" => "All" \in keys /\ config["All"].public = "true"
    BY <1>1 DEF NoConf
  <2>3. all.auth = "list" => "All" \in keys /\ config["All"].auth = "list"
    BY <1>1 DEF NoConf
  <2>4. "All" \notin keys => all.enabled = "undefined"
    BY <1>1 DEF NoConf
  <2>5. "All" \in keys => all = config["All"]
    BY <1>1
  <2>6. all.enabled \in Flag
    BY <1>2 DEF Conf
  <2> HIDE DEF conf, base, all
  <2> QED BY <1>1, <1>3, <1>5, <2>1, <2>2, <2>3, <2>4, <2>5, <2>6 DEF base, conf, Flag
<1>6. CASE operation \notin keys /\ base \notin keys
  <2>1. conf = all /\ nearest = "All" /\ about \subseteq {"All"}
    BY <1>1, <1>6 DEF ConfOf
  <2> QED BY <1>1, <1>6, <2>1 DEF NoConf
<1>7. operation \in keys /\ base = operation => base \in keys
  OBVIOUS
<1> QED BY <1>4, <1>5, <1>6, <1>7

\* A call that reaches a handler comes from a request for which the handler is registered, and
\* answers a user whom a type that the handler accepts has found, or anyone where it may.
RouteInv ==
  /\ call = [pc |-> call.pc, asked |-> call.asked, handler |-> call.handler, user |-> call.user]
  /\ call.pc \in {"none", "routed", "answered", "refused"}
  /\ call.pc \in {"routed", "answered"} =>
       /\ \E keys \in SUBSET Key : \E config \in [keys -> Conf] : call.asked \in Asked(config)
       /\ PassesMiddleware(call.asked)
       /\ \E i \in Fitting(call.asked) : call.handler = Handlers[call.asked.api][i].operation
  /\ call.pc = "answered" =>
       \/ call.user = Nobody /\ (~Authorized(Called) \/ Tried = {} \/ Called.public = "true")
       \/ call.user \in Tried

\* The invariant holds of every call.
LEMMA RouteInvariant == RoutesSpec => []RouteInv
<1>1. call = NoCall => RouteInv
  BY DEF RouteInv, NoCall
<1>2. ASSUME RouteInv, NEW keys \in SUBSET Key, NEW config \in [keys -> Conf], NEW asked \in Asked(config), Coming(asked)
      PROVE  RouteInv'
  <2>1. CASE PassesMiddleware(asked) /\ Fitting(asked) # {}
    <3>1. PICK first \in FirstOf(Fitting(asked)) :
            call' = [NoCall EXCEPT !.pc = "routed", !.asked = asked, !.handler = Handlers[asked.api][first].operation]
      BY <1>2, <2>1 DEF Coming
    <3>2. /\ call'.pc = "routed" /\ call'.asked = asked /\ call'.handler = Handlers[asked.api][first].operation
          /\ call' = [pc |-> call'.pc, asked |-> call'.asked, handler |-> call'.handler, user |-> call'.user]
      BY <3>1 DEF NoCall
    <3>3. first \in Fitting(asked)
      BY DEF FirstOf
    <3>4. \E k \in SUBSET Key : \E c \in [k -> Conf] : asked \in Asked(c)
      BY <1>2
    <3> HIDE DEF Fitting, Handlers, Asked
    <3> QED BY <2>1, <3>2, <3>3, <3>4 DEF RouteInv
  <2>2. CASE ~(PassesMiddleware(asked) /\ Fitting(asked) # {})
    BY <1>2, <2>2 DEF Coming, NoCall, RouteInv
  <2> QED BY <2>1, <2>2
<1>3. ASSUME RouteInv, RouteNext PROVE RouteInv'
  <2>1. call.pc = "routed"
    BY <1>3 DEF RouteNext, AnswerAnyone, AnswerUser, AnswerPublic, Refuse
  <2>2. ASSUME NEW user, Answer(user),
               \/ user = Nobody /\ (~Authorized(Called) \/ Tried = {} \/ Called.public = "true")
               \/ user \in Tried
        PROVE  RouteInv'
    <3>1. /\ call'.pc = "answered" /\ call'.user = user /\ call'.asked = call.asked /\ call'.handler = call.handler
          /\ call' = [pc |-> call'.pc, asked |-> call'.asked, handler |-> call'.handler, user |-> call'.user]
      BY <1>3, <2>2 DEF Answer, RouteInv
    <3>2. Called' = Called /\ Tried' = Tried
      BY <3>1 DEF Called, Tried
    <3> QED BY <1>3, <2>1, <2>2, <3>1, <3>2 DEF RouteInv
  <2>3. CASE Refuse
    BY <2>3 DEF Refuse, NoCall, RouteInv
  <2> QED BY <1>3, <2>2, <2>3 DEF RouteNext, AnswerAnyone, AnswerUser, AnswerPublic
<1>4. ASSUME RouteInv, UNCHANGED call PROVE RouteInv'
  <2>1. Called' = Called /\ Tried' = Tried
    BY <1>4 DEF Called, Tried
  <2> QED BY <1>4, <2>1 DEF RouteInv
<1>5. ASSUME call' = NoCall PROVE RouteInv'
  BY <1>5 DEF RouteInv, NoCall
<1>6. RouteInv /\ [RoutesNext]_call => RouteInv'
  BY <1>2, <1>3, <1>4, <1>5 DEF RoutesNext
<1> QED BY <1>1, <1>6, PTL DEF RoutesSpec

(* Whatever the config of a resource, the types of authentication and the settings of the application, *)
(* a handler answers without a user only if an entry about it says public or no type that it accepts   *)
(* is enabled, and a list of types holds (Resource of resource.decorator.ts, AuthMultiGuard).          *)
THEOREM HandlersGuarded == RoutesSpec => []HandlersAreGuarded
<1>1. RouteInv => HandlersAreGuarded
  <2> SUFFICES ASSUME RouteInv, call.pc = "answered" PROVE HandlersAreGuarded
    BY DEF HandlersAreGuarded
  <2>8. PICK keys \in SUBSET Key : \E config \in [keys -> Conf] : call.asked \in Asked(config)
    BY DEF RouteInv
  <2>1. PICK config \in [keys -> Conf] : call.asked \in Asked(config)
    BY <2>8
  <2>2. call.asked.config = config /\ call.asked.enabled \subseteq AuthType /\ DOMAIN config = keys
    BY <2>1 DEF Asked
  <2> DEFINE about == KeysAbout(call.handler)
             nearest == Nearest(call.handler)
  <2>3. /\ about = {call.handler, Base(call.handler), "All"} \cap keys
        /\ nearest = IF call.handler \in about THEN call.handler ELSE IF Base(call.handler) \in about THEN Base(call.handler) ELSE "All"
        /\ Called = ConfOf(config, call.handler)
    BY <2>2 DEF KeysAbout, Nearest, Called
  <2> HIDE DEF about, nearest
  <2>4. /\ Called.public = "true" => \E key \in about : config[key].public = "true"
        /\ Called.auth = "list" => \E key \in about : config[key].auth = "list"
        /\ about # {} /\ config[nearest].auth = "list" => Called.auth = "list"
    BY <2>3, ConfComes
  <2>5. /\ Called.auth = "list" => Tried = Listed \cap call.asked.enabled
        /\ Called.auth # "list" => Tried = AuthType \cap call.asked.enabled
    BY DEF Tried, AuthTypes
  <2>6. call.user = Nobody /\ (\A key \in about : config[key].public # "true") =>
          \/ call.asked.enabled = {}
          \/ (\E key \in about : config[key].auth = "list") /\ call.asked.enabled \cap Listed = {}
    BY <2>2, <2>4, <2>5, RoutesAssumption DEF RouteInv, Authorized, Tried, AuthTypes
  <2>7. call.user # Nobody /\ about # {} /\ config[nearest].auth = "list" => call.user \in Listed
    BY <2>4, <2>5 DEF RouteInv
  <2> QED BY <2>2, <2>6, <2>7 DEF HandlersAreGuarded, about, nearest
<1> QED BY <1>1, RouteInvariant, PTL

(* No config and no settings let a request reach an operation that they disable, unless All enables it  *)
(* (Resource of resource.decorator.ts, AppUtil).                                                       *)
THEOREM DisabledOperationsOff == RoutesSpec => []DisabledOperationsAreOff
<1>1. RouteInv => DisabledOperationsAreOff
  <2> SUFFICES ASSUME RouteInv, call.pc = "answered" PROVE DisabledOperationsAreOff
    BY DEF DisabledOperationsAreOff
  <2>8. PICK keys \in SUBSET Key : \E config \in [keys -> Conf] : call.asked \in Asked(config)
    BY DEF RouteInv
  <2>1. PICK config \in [keys -> Conf] : call.asked \in Asked(config)
    BY <2>8
  <2>2. call.asked.config = config /\ DOMAIN config = keys
    BY <2>1 DEF Asked
  <2> DEFINE about == KeysAbout(call.handler)
             nearest == Nearest(call.handler)
  <2>3. /\ about = {call.handler, Base(call.handler), "All"} \cap keys
        /\ nearest = IF call.handler \in about THEN call.handler ELSE IF Base(call.handler) \in about THEN Base(call.handler) ELSE "All"
    BY <2>2 DEF KeysAbout, Nearest
  <2> HIDE DEF about, nearest
  <2>4. Registered(call.asked, call.handler)
    BY DEF RouteInv, Fitting
  <2>5. about # {} /\ config[nearest].enabled = "false" =>
          "All" \in keys /\ config["All"].enabled = "true" /\ Base(call.handler) \in keys
    BY <2>2, <2>3, <2>4, ConfComes DEF Registered
  <2>6. /\ call.handler \in BulkOperation => call.asked.settings.bulkEnabled /\ call.handler \in call.asked.settings.bulk
        /\ call.asked.api = "rest" => call.asked.settings.rest \/ call.asked.dotted
    BY <2>4 DEF Registered, LeftBySettings, RouteInv, PassesMiddleware
  <2> QED BY <2>2, <2>5, <2>6 DEF DisabledOperationsAreOff, about, nearest
<1> QED BY <1>1, RouteInvariant, PTL

(* The order of the handlers and their paths lead every request to the handler of its operation, whatever *)
(* is registered, but for the GET of aggregate (ResourceController, ResourceResolver).                 *)
THEOREM RoutesReachHandlers == RoutesSpec => []RoutesReachTheirHandlers
<1>1. RouteInv => RoutesReachTheirHandlers
  <2> SUFFICES ASSUME RouteInv, call.pc = "answered" PROVE RoutesReachTheirHandlers
    BY DEF RoutesReachTheirHandlers
  <2> DEFINE asked == call.asked
             C == ControllerHandlers
  <2>1. asked.api \in {"rest", "graphql"}
    BY DEF RouteInv, Asked, Handlers
  <2>2. PICK i \in Fitting(asked) : call.handler = Handlers[asked.api][i].operation
    BY DEF RouteInv
  <2>3. CASE asked.api = "rest"
    <3>1. Handlers[asked.api] = C
      BY <2>3 DEF Handlers
    <3>2. PICK j \in DOMAIN C : C[j].operation = asked.operation /\ C[j].method = C[i].method /\ Fits(C[j].path, C[i].path)
      BY <2>2, <3>1 DEF Fitting, ToSet
    <3>3. i \in DOMAIN C
      BY <2>2, <3>1 DEF Fitting
    <3> QED BY <2>2, <2>3, <3>1, <3>2, <3>3, OnlyFindTakesOthers DEF RoutesReachTheirHandlers
  <2>4. CASE asked.api = "graphql"
    <3> DEFINE R == ResolverHandlers
    <3>1. Handlers[asked.api] = R
      BY <2>4 DEF Handlers
    <3>2. PICK j \in DOMAIN R : R[j].operation = asked.operation /\ Fits(R[j].path, R[i].path)
      BY <2>2, <3>1 DEF Fitting, ToSet
    <3>3. i \in DOMAIN C /\ j \in DOMAIN C
      BY <2>2, <3>1, <3>2 DEF Fitting, ResolverHandlers
    <3>4. /\ R[i].operation = C[i].operation /\ R[i].path = <<C[i].operation>>
          /\ R[j].operation = C[j].operation /\ R[j].path = <<C[j].operation>>
      BY <3>3 DEF ResolverHandlers
    <3>5. C[i].operation \in {C[j].operation, ":id"}
      BY <3>2, <3>4 DEF Fits
    <3>6. C[i].operation # ":id"
      BY <3>3, ControllerHandlersListed DEF ResourceHandlers, BulkHandlers, FileHandlers
    <3> QED BY <2>2, <3>1, <3>2, <3>4, <3>5, <3>6 DEF RoutesReachTheirHandlers
  <2> QED BY <2>1, <2>3, <2>4
<1> QED BY <1>1, RouteInvariant, PTL

-----------------------------------------------------------------------------
(* Policies *)

PoliciesNext ==
  \/ \E rules \in Seq(Rule) : Govern(rules) \/ Beside(rules)
  \/ \E use \in {"write", "mongoose", "typeorm"} : TakeFilter(use)
  \/ TakeFields

\* One operation of a request, with any rules, and others beside it
PoliciesSpec == policy = NoPolicy /\ [][PoliciesNext]_policy

\* Of natural numbers one is the least.
LEMMA LeastNumber ==
  ASSUME NEW S \in SUBSET Nat, S # {}
  PROVE  \E n \in S : \A m \in S : n <= m
<1> DEFINE less == OpToRel(<, Nat)
<1>1. IsWellFoundedOn(less, Nat)
  BY NatLessThanWellFounded
<1>2. \A m, n \in Nat : <<m, n>> \in less <=> m < n
  BY DEF OpToRel
<1> HIDE DEF less
<1>3. PICK n \in S : \A m \in S : ~(<<m, n>> \in less)
  BY <1>1, WFMin
<1>4. ASSUME NEW m \in S PROVE n <= m
  <2>1. m \in Nat /\ n \in Nat /\ ~(<<m, n>> \in less)
    BY <1>3
  <2>2. ~(m < n)
    BY <1>2, <2>1
  <2> QED BY <2>1, <2>2
<1> QED BY <1>4

\* So sets of positions have a first and a last.
LEMMA FirstAndLast ==
  ASSUME NEW n \in Nat, NEW S \in SUBSET (1 .. n), S # {}
  PROVE  /\ First(S) \in S /\ \A i \in S : First(S) <= i
         /\ \E i \in S : \A j \in S : j <= i
<1>1. \E i \in S : \A j \in S : i <= j
  <2>1. S \in SUBSET Nat
    OBVIOUS
  <2> QED BY <2>1, LeastNumber
<1>2. \E i \in S : \A j \in S : j <= i
  <2> DEFINE T == {n - i : i \in S}
  <2>1. T \in SUBSET Nat /\ T # {}
    <3>1. ASSUME NEW i \in S PROVE n - i \in Nat
      <4>1. i \in Nat /\ i <= n
        OBVIOUS
      <4> QED BY <4>1
    <3>2. PICK i \in S : TRUE
      OBVIOUS
    <3>3. n - i \in T
      BY <3>2
    <3> QED BY <3>1, <3>3
  <2>2. PICK k \in T : \A m \in T : k <= m
    BY <2>1, LeastNumber
  <2>3. PICK i \in S : k = n - i
    BY <2>2
  <2>4. ASSUME NEW j \in S PROVE j <= i
    <3>1. n - i <= n - j
      BY <2>2, <2>3
    <3> QED BY <2>3, <3>1
  <2> QED BY <2>4
<1> QED BY <1>1, <1>2 DEF First

\* What the filter says of an attribute, the rule says that was defined first of those that say anything.
LEMMA FilterSays ==
  ASSUME NEW rules \in Seq(Rule), NEW limits, NEW i \in Relevant(rules), NEW attribute \in DOMAIN rules[i].conditions
  PROVE  LET filter == Aggregated(rules, limits).filter
         IN /\ attribute \in DOMAIN filter
            /\ \E k \in Relevant(rules) :
                 /\ attribute \in DOMAIN rules[k].conditions /\ filter[attribute] = rules[k].conditions[attribute]
                 /\ \A j \in Relevant(rules) : attribute \in DOMAIN rules[j].conditions => k <= j
<1> DEFINE about(a) == {j \in Relevant(rules) : a \in DOMAIN rules[j].conditions}
           domain == DOMAIN limits.filter \cup {a \in Attribute : about(a) # {}}
           filter == [a \in domain |-> IF about(a) = {} THEN limits.filter[a]
                                       ELSE rules[First(about(a))].conditions[a]]
<1>1. Aggregated(rules, limits).filter = filter
  BY DEF Aggregated
<1>2. Len(rules) \in Nat /\ about(attribute) \in SUBSET (1 .. Len(rules)) /\ i \in about(attribute)
  BY DEF Relevant
<1>3. attribute \in Attribute
  <2>1. rules[i] \in Rule
    BY ElementOfSeq DEF Relevant
  <2>2. rules[i].conditions \in Conditions
    BY <2>1 DEF Rule
  <2> QED BY <2>2 DEF Conditions
<1>4. attribute \in domain
  BY <1>2, <1>3
<1>5. First(about(attribute)) \in about(attribute) /\ \A j \in about(attribute) : First(about(attribute)) <= j
  BY <1>2, FirstAndLast
<1>6. filter[attribute] = rules[First(about(attribute))].conditions[attribute]
  BY <1>2, <1>4
<1> HIDE DEF domain, filter
<1>7. attribute \in DOMAIN filter
  BY <1>4 DEF filter
<1> QED BY <1>1, <1>5, <1>6, <1>7

\* What the rules of an operation say of an attribute the filter has from the rule that was
\* defined first of those that say anything, or from one of another operation.
Follows(filter, rules, later) ==
  \A i \in Relevant(rules) : \A attribute \in DOMAIN rules[i].conditions :
    /\ attribute \in DOMAIN filter
    /\ \/ \E k \in Relevant(rules) :
            /\ attribute \in DOMAIN rules[k].conditions /\ filter[attribute] = rules[k].conditions[attribute]
            /\ \A j \in Relevant(rules) : attribute \in DOMAIN rules[j].conditions => k <= j
       \/ \E rule \in later : attribute \in DOMAIN rule.conditions /\ filter[attribute] = rule.conditions[attribute]

\* The interceptor makes a filter that follows the rules,
LEMMA AggregatedFollows ==
  ASSUME NEW rules \in Seq(Rule), NEW limits
  PROVE  Follows(Aggregated(rules, limits).filter, rules, {})
BY FilterSays DEF Follows

\* and it still does with what another operation adds.
LEMMA FollowsBeside ==
  ASSUME NEW rules \in Seq(Rule), NEW others \in Seq(Rule), NEW limits, NEW later, Follows(limits.filter, rules, later)
  PROVE  Follows(Aggregated(others, limits).filter, rules, later \cup {others[i] : i \in Relevant(others)})
<1> DEFINE filter == Aggregated(others, limits).filter
           all == later \cup {others[i] : i \in Relevant(others)}
           about(attribute) == {j \in Relevant(others) : attribute \in DOMAIN others[j].conditions}
<1>1. ASSUME NEW i \in Relevant(rules), NEW attribute \in DOMAIN rules[i].conditions
      PROVE  /\ attribute \in DOMAIN filter
             /\ \/ \E k \in Relevant(rules) :
                     /\ attribute \in DOMAIN rules[k].conditions /\ filter[attribute] = rules[k].conditions[attribute]
                     /\ \A j \in Relevant(rules) : attribute \in DOMAIN rules[j].conditions => k <= j
                \/ \E rule \in all : attribute \in DOMAIN rule.conditions /\ filter[attribute] = rule.conditions[attribute]
  <2>1. CASE about(attribute) # {}
    <3>1. PICK j \in Relevant(others) : attribute \in DOMAIN others[j].conditions
      BY <2>1
    <3>2. PICK k \in Relevant(others) : /\ attribute \in DOMAIN filter /\ attribute \in DOMAIN others[k].conditions
                                        /\ filter[attribute] = others[k].conditions[attribute]
      BY <3>1, FilterSays
    <3>3. others[k] \in all
      OBVIOUS
    <3> HIDE DEF filter, all
    <3> QED BY <3>2, <3>3
  <2>2. CASE about(attribute) = {}
    <3>1. attribute \in DOMAIN limits.filter
      BY <1>1 DEF Follows
    <3>2. attribute \in DOMAIN filter /\ filter[attribute] = limits.filter[attribute]
      BY <2>2, <3>1 DEF Aggregated
    <3>3. later \subseteq all
      OBVIOUS
    <3> HIDE DEF filter, all, about
    <3> QED BY <1>1, <3>2, <3>3 DEF Follows
  <2> QED BY <2>1, <2>2
<1> QED BY <1>1 DEF Follows

\* No rule of another operation has replaced a condition.
NotReplaced(rules, later) == \A i \in DOMAIN rules : \A rule \in later : ~Differ(rules[i], rule)

\* The limits of an operation, and what its rules say
LEMMA LimitsAreKept ==
  ASSUME NEW rules \in Seq(Rule), NEW filter, NEW later, Allowed(rules), PlainRules(rules), NotReplaced(rules, later),
         Follows(filter, rules, later), NEW document, Meets(document, filter)
  PROVE  /\ Agree(rules) \/ Lasting(rules) => \E field \in Part : Permits(rules, document, field)
         /\ Agree(rules) /\ Lasting(rules) =>
              \A field : FieldKeys(rules) = {} \/ field \in FieldKeys(rules) => Permits(rules, document, field)
<1> DEFINE applies(i, field) == /\ Meets(document, rules[i].conditions)
                                /\ rules[i].fields = <<>> \/ field \in ToSet(rules[i].fields)
<1>1. Len(rules) \in Nat /\ DOMAIN rules = 1 .. Len(rules) /\ \A i \in DOMAIN rules : rules[i] \in Rule
  BY ElementOfSeq
<1>2. Relevant(rules) = DOMAIN rules
  BY DEF Relevant, PlainRules
<1>3. PICK last \in DOMAIN rules : ~rules[last].inverted /\ \A j \in DOMAIN rules : rules[j].inverted => j <= last
  <2>1. CASE \A j \in DOMAIN rules : ~rules[j].inverted
    BY <2>1 DEF Allowed, Can, LastPermits, Relevant
  <2>2. CASE \E j \in DOMAIN rules : rules[j].inverted
    <3>1. Can(rules, DOMAIN rules)
      BY <2>2 DEF Allowed, Can, LastPermits, PlainRules
    <3> QED BY <1>2, <3>1 DEF Can, LastPermits, PlainRules
  <2> QED BY <2>1, <2>2
\* A rule that applies, and that none takes back
<1>4. ASSUME NEW i \in DOMAIN rules, NEW field, applies(i, field), \A j \in DOMAIN rules : rules[j].inverted => j <= i,
             ~rules[i].inverted
      PROVE  Permits(rules, document, field)
  <2> DEFINE S == {j \in DOMAIN rules : applies(j, field)}
  <2>1. PICK k \in S : \A j \in S : j <= k
    <3>1. S \in SUBSET (1 .. Len(rules)) /\ S # {}
      BY <1>1, <1>4
    <3> HIDE DEF S
    <3> QED BY <1>1, <3>1, FirstAndLast
  <2>2. i <= k
    BY <1>4, <2>1
  <2>3. ~rules[k].inverted
    BY <1>1, <1>4, <2>1, <2>2
  <2> QED BY <2>1, <2>3 DEF Permits, LastPermits
\* What another operation says of an attribute, the rules say as well.
<1>5. ASSUME NEW i \in DOMAIN rules, NEW attribute \in DOMAIN rules[i].conditions,
             document[attribute] # rules[i].conditions[attribute]
      PROVE  \E k \in DOMAIN rules :
               /\ attribute \in DOMAIN rules[k].conditions /\ document[attribute] = rules[k].conditions[attribute]
               /\ \A j \in DOMAIN rules : attribute \in DOMAIN rules[j].conditions => k <= j
  <2>1. attribute \in DOMAIN filter /\ document[attribute] = filter[attribute]
    BY <1>2, <1>5 DEF Follows, Meets
  <2>2. ~\E rule \in later : attribute \in DOMAIN rule.conditions /\ filter[attribute] = rule.conditions[attribute]
    BY <1>5, <2>1 DEF NotReplaced, Differ
  <2> QED BY <1>2, <2>1, <2>2 DEF Follows
<1>6. ASSUME Agree(rules), NEW i \in DOMAIN rules
      PROVE  Meets(document, rules[i].conditions)
  BY <1>5, <1>6 DEF Meets, Agree, Differ
<1>7. ASSUME Agree(rules) \/ Lasting(rules) PROVE \E field \in Part : Permits(rules, document, field)
  <2>1. PICK i \in DOMAIN rules : /\ ~rules[i].inverted /\ Meets(document, rules[i].conditions)
                                  /\ \A j \in DOMAIN rules : rules[j].inverted => j <= i
    <3>1. CASE Agree(rules)
      BY <1>3, <1>6, <3>1
    <3>2. CASE Lasting(rules)
      <4> DEFINE S == {j \in DOMAIN rules : ~rules[j].inverted}
      <4>1. S \in SUBSET (1 .. Len(rules)) /\ S # {}
        BY <1>1, <1>3
      <4>2. PICK i \in S : \A j \in S : i <= j
        <5> HIDE DEF S
        <5> QED BY <1>1, <4>1, FirstAndLast
      <4>3. \A j \in DOMAIN rules : rules[j].inverted => j <= i
        BY <1>1, <3>2, <4>2 DEF Lasting
      <4>4. ASSUME NEW attribute \in DOMAIN rules[i].conditions, document[attribute] # rules[i].conditions[attribute]
            PROVE  FALSE
        <5>1. PICK k \in DOMAIN rules : /\ attribute \in DOMAIN rules[k].conditions
                                        /\ document[attribute] = rules[k].conditions[attribute]
                                        /\ k <= i
          BY <1>5, <4>2, <4>4
        <5>2. k \in S
          BY <5>1 DEF PlainRules
        <5>3. k = i
          BY <1>1, <4>2, <5>1, <5>2
        <5> QED BY <4>4, <5>1, <5>3
      <4> QED BY <4>2, <4>3, <4>4 DEF Meets
    <3> QED BY <1>7, <3>1, <3>2
  <2>2. CASE rules[i].fields = <<>>
    <3>1. Identity \in Part /\ applies(i, Identity)
      BY <2>1, <2>2, PoliciesAssumption
    <3> QED BY <1>4, <2>1, <3>1
  <2>3. CASE rules[i].fields # <<>>
    <3>1. rules[i].fields \in Seq(Part)
      BY <1>1 DEF Rule
    <3>2. Head(rules[i].fields) \in Part /\ Head(rules[i].fields) \in ToSet(rules[i].fields)
      BY <2>3, <3>1, EmptySeq DEF ToSet
    <3>3. applies(i, Head(rules[i].fields))
      BY <2>1, <3>2
    <3> QED BY <1>4, <2>1, <3>2, <3>3
  <2> QED BY <2>2, <2>3
<1>8. ASSUME Agree(rules), Lasting(rules), NEW field, FieldKeys(rules) = {} \/ field \in FieldKeys(rules)
      PROVE  Permits(rules, document, field)
  <2>1. CASE FieldKeys(rules) = {}
    <3>1. rules[last].fields = <<>>
      <4>1. rules[last].fields \in Seq(Part) /\ last \in Relevant(rules)
        BY <1>1, <1>2 DEF Rule
      <4>2. \A key \in ToSet(rules[last].fields) : key \in FieldKeys(rules)
        BY <4>1 DEF FieldKeys
      <4>3. rules[last].fields # <<>> => Head(rules[last].fields) \in ToSet(rules[last].fields)
        BY <4>1, EmptySeq DEF ToSet
      <4> QED BY <2>1, <4>2, <4>3
    <3>2. applies(last, field)
      BY <1>6, <1>8, <3>1
    <3> QED BY <1>3, <1>4, <3>2
  <2>2. CASE field \in FieldKeys(rules)
    <3>1. PICK i \in DOMAIN rules : field \in ToSet(rules[i].fields)
      BY <1>2, <2>2 DEF FieldKeys
    <3>2. ~rules[i].inverted
      <4>1. rules[i].fields # <<>>
        BY <3>1, EmptySeq DEF ToSet
      <4> QED BY <4>1 DEF PlainRules
    <3>3. \A j \in DOMAIN rules : rules[j].inverted => j <= i
      BY <1>1, <1>8, <3>2 DEF Lasting
    <3>4. applies(i, field)
      BY <1>6, <1>8, <3>1
    <3> QED BY <1>4, <3>2, <3>3, <3>4
  <2> QED BY <1>8, <2>1, <2>2
<1> QED BY <1>7, <1>8

PolicyRecord ==
  [pc |-> policy.pc, rules |-> policy.rules, limits |-> policy.limits, beside |-> policy.beside,
   later |-> policy.later, use |-> policy.use, filter |-> policy.filter, fields |-> policy.fields]

Working == {"governed", "filtered", "picked"}

\* The filter follows the rules of the operation, in the limits until it is read, and as long as
\* the operation is the only one the projection has the keys of its rules.
PolicyInv ==
  /\ policy = PolicyRecord
  /\ policy.rules \in Seq(Rule) /\ policy.beside \in Nat
  /\ policy.pc = "none" => policy.later = {} /\ (policy.beside = 0 => policy.limits.projection = {})
  /\ policy.pc \in Working => /\ Allowed(policy.rules)
                              /\ policy.beside = 0 => policy.limits.projection = FieldKeys(policy.rules)
  /\ policy.pc = "governed" => Follows(policy.limits.filter, policy.rules, policy.later)
  /\ policy.pc \in {"filtered", "picked"} => Follows(policy.filter, policy.rules, policy.later)
  /\ policy.pc = "picked" => policy.fields = FieldsTaken(policy.use, policy.limits)

\* Nothing is read before the first operation.
LEMMA PolicyStarts == policy = NoPolicy => PolicyInv
<1> SUFFICES ASSUME policy = NoPolicy PROVE PolicyInv
  OBVIOUS
<1>1. policy = PolicyRecord
  BY DEF NoPolicy, PolicyRecord
<1>2. /\ policy.pc = "none" /\ policy.rules = <<>> /\ policy.beside = 0 /\ policy.later = {}
      /\ policy.limits.projection = {}
  BY DEF NoPolicy, NoLimits
<1> QED BY <1>1, <1>2 DEF PolicyInv, Working

\* The interceptor, for this operation
LEMMA GovernKeeps ==
  ASSUME PolicyInv, NEW rules \in Seq(Rule), Govern(rules)
  PROVE  PolicyInv'
<1>1. CASE ~Allowed(rules)
  <2>1. policy' = [NoPolicy EXCEPT !.pc = "forbidden"]
    BY <1>1 DEF Govern
  <2>2. policy' = PolicyRecord'
    BY <2>1 DEF NoPolicy, PolicyRecord
  <2>3. policy'.pc = "forbidden" /\ policy'.rules = <<>> /\ policy'.beside = 0
    BY <2>1 DEF NoPolicy
  <2> QED BY <2>2, <2>3 DEF PolicyInv, Working
<1>2. CASE Allowed(rules)
  <2> DEFINE limits == Aggregated(rules, policy.limits)
  <2>1. policy' = [PolicyRecord EXCEPT !.pc = "governed", !.rules = rules, !.limits = limits] /\ policy.pc = "none"
    BY <1>2 DEF Govern, PolicyInv
  <2> HIDE DEF limits
  <2>2. /\ policy'.pc = "governed" /\ policy'.rules = rules /\ policy'.limits = limits
        /\ policy'.beside = policy.beside /\ policy'.later = policy.later /\ policy' = PolicyRecord'
    BY <2>1 DEF PolicyRecord
  <2>3. policy.later = {} /\ Follows(limits.filter, rules, {})
    BY <2>1, AggregatedFollows DEF PolicyInv, limits
  <2>4. policy.beside = 0 => limits.projection = FieldKeys(rules)
    <3>1. limits.projection = policy.limits.projection \cup FieldKeys(rules)
      BY DEF limits, Aggregated
    <3> QED BY <2>1, <3>1 DEF PolicyInv
  <2>5. policy.beside \in Nat
    BY DEF PolicyInv
  <2> QED BY <1>2, <2>2, <2>3, <2>4, <2>5 DEF PolicyInv, Working
<1> QED BY <1>1, <1>2

\* The interceptor, for an operation beside it
LEMMA BesideKeeps ==
  ASSUME PolicyInv, NEW others \in Seq(Rule), Beside(others)
  PROVE  PolicyInv'
<1> DEFINE limits == Aggregated(others, policy.limits)
           added == {others[i] : i \in Relevant(others)}
           later == IF policy.pc = "governed" THEN policy.later \cup added ELSE policy.later
<1>1. policy' = [PolicyRecord EXCEPT !.limits = limits, !.beside = policy.beside + 1, !.later = later]
  BY DEF Beside, PolicyInv
<1>2. policy.pc \in {"none", "governed", "filtered"}
  BY DEF Beside
<1>3. policy.pc = "governed" => Follows(limits.filter, policy.rules, policy.later \cup added)
  <2>1. policy.rules \in Seq(Rule)
    BY DEF PolicyInv
  <2>2. policy.pc = "governed" => Follows(policy.limits.filter, policy.rules, policy.later)
    BY DEF PolicyInv
  <2> QED BY <2>1, <2>2, FollowsBeside
<1> HIDE DEF limits, added
<1>4. /\ policy'.pc = policy.pc /\ policy'.rules = policy.rules /\ policy'.limits = limits
      /\ policy'.beside = policy.beside + 1 /\ policy'.later = later /\ policy'.filter = policy.filter
      /\ policy' = PolicyRecord'
  BY <1>1 DEF PolicyRecord
<1>5. policy'.beside \in Nat /\ policy'.beside # 0
  BY <1>4 DEF PolicyInv
<1> QED BY <1>2, <1>3, <1>4, <1>5 DEF PolicyInv, Working

\* The operation reads the filter, and then the projection.
LEMMA TakingKeeps ==
  ASSUME PolicyInv, (\E use \in {"write", "mongoose", "typeorm"} : TakeFilter(use)) \/ TakeFields
  PROVE  PolicyInv'
<1>1. ASSUME NEW use, TakeFilter(use) PROVE PolicyInv'
  <2>1. policy.pc = "governed"
        /\ policy' = [PolicyRecord EXCEPT !.pc = "filtered", !.use = use, !.filter = policy.limits.filter]
    BY <1>1 DEF TakeFilter, PolicyInv
  <2>2. /\ policy'.pc = "filtered" /\ policy'.rules = policy.rules /\ policy'.limits = policy.limits
        /\ policy'.beside = policy.beside /\ policy'.later = policy.later /\ policy'.filter = policy.limits.filter
        /\ policy' = PolicyRecord'
    BY <2>1 DEF PolicyRecord
  <2> QED BY <2>1, <2>2 DEF PolicyInv, Working
<1>2. CASE TakeFields
  <2> DEFINE fields == FieldsTaken(policy.use, policy.limits)
  <2>1. policy.pc = "filtered" /\ policy' = [PolicyRecord EXCEPT !.pc = "picked", !.fields = fields]
    BY <1>2 DEF TakeFields, PolicyInv
  <2>2. policy'.fields = FieldsTaken(policy'.use, policy'.limits)
    <3> HIDE DEF fields
    <3>1. policy'.fields = fields /\ policy'.use = policy.use /\ policy'.limits = policy.limits
      BY <2>1 DEF PolicyRecord
    <3> QED BY <3>1 DEF fields
  <2> HIDE DEF fields
  <2>3. /\ policy'.pc = "picked" /\ policy'.rules = policy.rules /\ policy'.limits = policy.limits
        /\ policy'.beside = policy.beside /\ policy'.later = policy.later /\ policy'.filter = policy.filter
        /\ policy' = PolicyRecord'
    BY <2>1 DEF PolicyRecord
  <2> QED BY <2>1, <2>2, <2>3 DEF PolicyInv, Working
<1> QED BY <1>1, <1>2

\* What is read of a projection with these keys: all that the keys allow, or the id, or beyond
LEMMA TakenIsListed ==
  ASSUME NEW use, NEW limits, NEW field \in FieldsTaken(use, limits),
         ~IF use = "typeorm" THEN limits.first \cap Linked # {}
          ELSE limits.projection # {} /\ limits.projection \subseteq Dotted
  PROVE  limits.projection = {} \/ field \in limits.projection \/ (field = Identity /\ use # "write")
BY DEF FieldsTaken, SelectedColumns, Intersected, Own

\* What the invariant says of the limits makes the operation keep the policy.
LEMMA PolicyHolds == PolicyInv => PolicyIsKept
<1> SUFFICES ASSUME PolicyInv PROVE PolicyIsKept
  OBVIOUS
<1> DEFINE rules == policy.rules
           limits == policy.limits
           beyond == IF policy.use = "typeorm" THEN limits.first \cap Linked # {}
                     ELSE limits.projection # {} /\ limits.projection \subseteq Dotted
<1>1. SUFFICES ASSUME policy.pc \in {"filtered", "picked"}, PlainRules(rules),
                      ~\E i \in DOMAIN rules : \E rule \in policy.later : Differ(rules[i], rule),
                      NEW document \in [Attribute -> Choice], Meets(document, policy.filter)
               PROVE  /\ Agree(rules) \/ Lasting(rules) => \E field \in Part : Permits(rules, document, field)
                      /\ policy.pc = "picked" /\ (Agree(rules) /\ Lasting(rules) /\ policy.beside = 0) /\ ~beyond =>
                           \A field \in policy.fields :
                             Permits(rules, document, field) \/ (field = Identity /\ policy.use # "write")
  BY DEF PolicyIsKept
<1>2. rules \in Seq(Rule) /\ Allowed(rules) /\ Follows(policy.filter, rules, policy.later)
  BY <1>1 DEF PolicyInv, Working
<1>3. NotReplaced(rules, policy.later)
  BY <1>1 DEF NotReplaced
<1>4. /\ Agree(rules) \/ Lasting(rules) => \E field \in Part : Permits(rules, document, field)
      /\ Agree(rules) /\ Lasting(rules) =>
           \A field : FieldKeys(rules) = {} \/ field \in FieldKeys(rules) => Permits(rules, document, field)
  BY <1>1, <1>2, <1>3, LimitsAreKept
<1>5. ASSUME policy.pc = "picked", policy.beside = 0, ~beyond, NEW field \in policy.fields
      PROVE  FieldKeys(rules) = {} \/ field \in FieldKeys(rules) \/ (field = Identity /\ policy.use # "write")
  <2>1. limits.projection = FieldKeys(rules) /\ field \in FieldsTaken(policy.use, limits)
    BY <1>5 DEF PolicyInv, Working
  <2> QED BY <1>5, <2>1, TakenIsListed
<1> HIDE DEF rules, limits, beyond
<1> QED BY <1>4, <1>5

\* Whatever rules an operation has, whatever the operations beside it have and whenever their
\* interceptors run: what its limits let it touch its rules permit, but for the exceptions that
\* the property names.
THEOREM PolicyAlwaysKept == PoliciesSpec => []PolicyIsKept
<1>1. PolicyInv /\ [PoliciesNext]_policy => PolicyInv'
  <2> SUFFICES ASSUME PolicyInv, [PoliciesNext]_policy PROVE PolicyInv'
    OBVIOUS
  <2>1. CASE UNCHANGED policy
    BY <2>1 DEF PolicyInv, PolicyRecord
  <2>2. CASE \E rules \in Seq(Rule) : Govern(rules) \/ Beside(rules)
    BY <2>2, GovernKeeps, BesideKeeps
  <2>3. CASE (\E use \in {"write", "mongoose", "typeorm"} : TakeFilter(use)) \/ TakeFields
    BY <2>3, TakingKeeps
  <2> QED BY <2>1, <2>2, <2>3 DEF PoliciesNext
<1> QED BY <1>1, PolicyStarts, PolicyHolds, PTL DEF PoliciesSpec

-----------------------------------------------------------------------------
(* Populations: recursions with a rank *)

\* What holds where it holds for every lower rank holds everywhere.
LEMMA RankInduction ==
  ASSUME NEW D, NEW rank \in [D -> Nat], NEW right \in SUBSET D,
         \A d \in D : (\A e \in D : rank[e] < rank[d] => e \in right) => d \in right
  PROVE  right = D
<1> SUFFICES ASSUME right # D PROVE FALSE
  OBVIOUS
<1> DEFINE ranks == {rank[d] : d \in D \ right}
<1>1. ranks \in SUBSET Nat /\ ranks # {}
  OBVIOUS
<1>2. PICK n \in ranks : \A m \in ranks : n <= m
  BY <1>1, LeastNumber
<1>3. PICK d \in D \ right : rank[d] = n
  BY <1>2
<1>4. ASSUME NEW e \in D, rank[e] < rank[d] PROVE e \in right
  <2>1. e \notin right => rank[e] \in ranks
    OBVIOUS
  <2>2. rank[e] \in Nat /\ n \in Nat
    BY <1>1, <1>2
  <2> HIDE DEF ranks
  <2> QED BY <1>2, <1>3, <1>4, <2>1, <2>2
<1> QED BY <1>3, <1>4

\* A body, given any results, needs only those of lower ranks, up to a highest one.
Descends(D, V, body, rank, most) ==
  /\ body \in [[D -> V] -> [D -> V]] /\ most \in Nat /\ rank \in [D -> 0 .. most]
  /\ \A f, g \in [D -> V] : \A d \in D :
       (\A e \in D : rank[e] < rank[d] => f[e] = g[e]) => body[f][d] = body[g][d]

\* A recursion whose body needs only results of lower ranks, up to a highest one, has a solution.
LEMMA RecursionEnds ==
  ASSUME NEW D, NEW V, NEW body, NEW rank, NEW most, Descends(D, V, body, rank, most), NEW start \in [D -> V]
  PROVE  \E f \in [D -> V] : f = body[f]
<1> DEFINE Solves(f, n) == \A d \in D : rank[d] < n => f[d] = body[f][d]
           unsolved == {n \in Nat : ~\E f \in [D -> V] : Solves(f, n)}
<1>0. /\ body \in [[D -> V] -> [D -> V]] /\ most \in Nat /\ rank \in [D -> 0 .. most]
      /\ \A f, g \in [D -> V] : \A d \in D :
           (\A e \in D : rank[e] < rank[d] => f[e] = g[e]) => body[f][d] = body[g][d]
  BY DEF Descends
<1>1. ASSUME NEW n \in Nat, NEW f \in [D -> V], Solves(f, n) PROVE Solves(body[f], n + 1)
  <2>1. body[f] \in [D -> V]
    BY <1>0
  <2>2. ASSUME NEW d \in D, rank[d] < n + 1 PROVE body[f][d] = body[body[f]][d]
    <3>1. ASSUME NEW e \in D, rank[e] < rank[d] PROVE f[e] = body[f][e]
      <4>1. rank[e] < n
        BY <1>0, <2>2, <3>1
      <4> QED BY <1>1, <4>1
    <3> QED BY <1>0, <2>1, <3>1
  <2> QED BY <2>2
<1> HIDE DEF Solves
<1>2. unsolved = {}
  <2>1. ASSUME unsolved # {} PROVE FALSE
    <3>1. PICK n \in unsolved : \A m \in unsolved : n <= m
      BY <2>1, LeastNumber
    <3>2. CASE n = 0
      <4>1. Solves(start, 0)
        BY <1>0 DEF Solves
      <4> QED BY <3>1, <3>2, <4>1
    <3>3. CASE n # 0
      <4>1. n - 1 \in Nat /\ n - 1 < n /\ (n - 1) + 1 = n
        BY <3>1, <3>3
      <4>2. PICK f \in [D -> V] : Solves(f, n - 1)
        BY <3>1, <4>1
      <4>3. Solves(body[f], n) /\ body[f] \in [D -> V]
        BY <1>0, <1>1, <4>1, <4>2
      <4> QED BY <3>1, <4>3
    <3> QED BY <3>2, <3>3
  <2> QED BY <2>1
<1>3. PICK f \in [D -> V] : Solves(f, most + 1)
  <2>1. most + 1 \in Nat
    BY <1>0
  <2> DEFINE n == most + 1
  <2> HIDE DEF n
  <2>2. \E f \in [D -> V] : Solves(f, n)
    BY <1>2, <2>1 DEF n
  <2> QED BY <2>2 DEF n
<1>4. \A d \in D : f[d] = body[f][d]
  <2>1. \A d \in D : rank[d] < most + 1
    BY <1>0
  <2> QED BY <1>3, <2>1 DEF Solves
<1>5. f = body[f]
  BY <1>0, <1>4
<1> QED BY <1>5

-----------------------------------------------------------------------------
(* Populations: paths *)

Path == Seq(FieldName) \ {<<>>}
List == [given : BOOLEAN, names : SUBSET Seq(FieldName)]

\* The configurations of relations, with depths up to most
Link(most) ==
  [to : Table, populate : BOOLEAN, children : BOOLEAN, exclude : List, include : List, maxDepth : 0 .. most,
   type : {"all", "single", "multi"}, eager : BOOLEAN, foreign : SUBSET Seq(FieldName)]
Declarations(most) == [Table -> UNION {[fields -> Link(most)] : fields \in SUBSET FieldName}]

\* The names of relations are strings, and each has its configuration.
LEMMA LinksAreTyped ==
  ASSUME NEW most, NEW declared \in Declarations(most), NEW table \in Table, NEW name \in DOMAIN declared[table]
  PROVE  name \in FieldName /\ declared[table][name] \in Link(most)
<1>1. PICK fields \in SUBSET FieldName : declared[table] \in [fields -> Link(most)]
  <2>1. declared[table] \in UNION {[fields -> Link(most)] : fields \in SUBSET FieldName}
    BY DEF Declarations
  <2> HIDE DEF Link
  <2> QED BY <2>1
<1> QED BY <1>1

\* Leads, from any table
LeadsFrom(declared, start, path) ==
  \E table \in [0 .. Len(path) -> Table] :
    /\ table[0] = start
    /\ \A i \in DOMAIN path : /\ path[i] \in DOMAIN declared[table[i - 1]]
                              /\ table[i] = declared[table[i - 1]][path[i]].to

\* The relations of a table, each with the paths below it
Joined(name, below) == {<<name>>} \cup {<<name>> \o path : path \in below}
StandFrom(declared, start, joins) ==
  \A path \in joins : LeadsFrom(declared, start, path) /\ (Len(path) > 1 => Front(path) \in joins)

\* A name before a path
LEMMA Prepended ==
  ASSUME NEW name \in FieldName, NEW path \in Path
  PROVE  LET longer == <<name>> \o path
         IN /\ longer \in Path /\ Len(longer) = Len(path) + 1 /\ Len(path) \in Nat \ {0}
            /\ longer[1] = name /\ \A i \in 1 .. Len(path) : longer[i + 1] = path[i]
<1> DEFINE longer == <<name>> \o path
<1>1. path \in Seq(FieldName) /\ path # <<>> /\ <<name>> \in Seq(FieldName)
  BY DEF Path
<1>2. Len(path) \in Nat \ {0}
  BY <1>1, EmptySeq, LenProperties
<1>3. longer \in Seq(FieldName) /\ Len(longer) = Len(path) + 1
  BY <1>1, ConcatProperties
<1>4. longer[1] = name /\ \A i \in 1 .. Len(path) : longer[i + 1] = path[i]
  BY <1>1, <1>2
<1> QED BY <1>2, <1>3, <1>4 DEF Path

\* The front of a longer path
LEMMA PrependedFront ==
  ASSUME NEW name \in FieldName, NEW path \in Path
  PROVE  Front(<<name>> \o path) = IF Len(path) = 1 THEN <<name>> ELSE <<name>> \o Front(path)
<1> DEFINE longer == <<name>> \o path
           n == Len(path)
<1>1. longer \in Path /\ Len(longer) = n + 1 /\ n \in Nat \ {0} /\ longer[1] = name
      /\ \A i \in 1 .. n : longer[i + 1] = path[i]
  BY Prepended
<1>2. Front(longer) = [i \in 1 .. n |-> longer[i]]
  <2>1. Front(longer) = SubSeq(longer, 1, n)
    BY <1>1 DEF Front
  <2>2. longer \in Seq(FieldName)
    BY <1>1 DEF Path
  <2> HIDE DEF longer, n
  <2>3. SubSeq(longer, 1, n) = [i \in 1 .. n |-> longer[i]]
    BY <1>1, <2>2
  <2> QED BY <2>1, <2>3
<1>3. CASE n = 1
  <2> HIDE DEF longer
  <2>1. Front(longer) = <<longer[1]>>
    BY <1>2, <1>3
  <2> QED BY <1>1, <1>3, <2>1 DEF longer
<1>4. CASE n # 1
  <2>1. path \in Seq(FieldName)
    BY DEF Path
  <2>2. Front(path) \in Seq(FieldName) /\ Len(Front(path)) = n - 1 /\ \A i \in 1 .. n - 1 : Front(path)[i] = path[i]
    BY <1>1, <2>1 DEF Front
  <2> DEFINE other == <<name>> \o Front(path)
  <2>3. other \in Seq(FieldName) /\ Len(other) = n /\ other[1] = name /\ \A i \in 1 .. n - 1 : other[i + 1] = path[i]
    <3> DEFINE front == Front(path)
    <3> HIDE DEF n, front
    <3> QED BY <1>1, <2>2 DEF front
  <2> HIDE DEF longer, other, n
  <2>4. \A i \in 1 .. n : other[i] = longer[i]
    <3> SUFFICES ASSUME NEW i \in 1 .. n PROVE other[i] = longer[i]
      OBVIOUS
    <3>1. CASE i = 1
      BY <1>1, <2>3, <3>1
    <3>2. CASE i # 1
      <4>1. i - 1 \in 1 .. n - 1 /\ i - 1 \in 1 .. n /\ (i - 1) + 1 = i
        BY <1>1, <3>2
      <4> QED BY <1>1, <2>3, <4>1
    <3> QED BY <3>1, <3>2
  <2>5. other = [i \in 1 .. n |-> other[i]]
    BY <2>3
  <2>6. other = Front(longer)
    BY <1>2, <2>4, <2>5
  <2> QED BY <1>4, <2>6 DEF longer, other, n
<1> QED BY <1>3, <1>4

\* A path that leads on from the table of a relation leads on from the table that has the relation.
LEMMA PrependedLeads ==
  ASSUME NEW most, NEW declared \in Declarations(most), NEW start \in Table, NEW name \in DOMAIN declared[start],
         NEW path \in Path, LeadsFrom(declared, declared[start][name].to, path)
  PROVE  LeadsFrom(declared, start, <<name>> \o path)
<1>1. PICK table \in [0 .. Len(path) -> Table] :
        /\ table[0] = declared[start][name].to
        /\ \A i \in DOMAIN path : /\ path[i] \in DOMAIN declared[table[i - 1]]
                                  /\ table[i] = declared[table[i - 1]][path[i]].to
  BY DEF LeadsFrom
<1> DEFINE longer == <<name>> \o path
           n == Len(path)
           tables == [i \in 0 .. n + 1 |-> IF i = 0 THEN start ELSE table[i - 1]]
<1>2. longer \in Path /\ Len(longer) = n + 1 /\ n \in Nat \ {0} /\ longer[1] = name
      /\ \A i \in 1 .. n : longer[i + 1] = path[i]
  BY LinksAreTyped, Prepended
<1>3. DOMAIN longer = 1 .. n + 1 /\ DOMAIN path = 1 .. n
  BY <1>2 DEF Path
<1> HIDE DEF longer, n
<1>4. tables \in [0 .. n + 1 -> Table] /\ tables[0] = start /\ \A i \in 0 .. n : tables[i + 1] = table[i]
  <2>1. table \in [0 .. n -> Table]
    BY <1>1 DEF n
  <2>2. \A i \in 0 .. n + 1 : i # 0 => i - 1 \in 0 .. n
    BY <1>2
  <2>3. \A i \in 0 .. n : i + 1 \in 0 .. n + 1 /\ i + 1 # 0 /\ (i + 1) - 1 = i
    BY <1>2
  <2> QED BY <1>2, <2>1, <2>2, <2>3
<1> HIDE DEF tables
<1>5. ASSUME NEW i \in 1 .. n + 1
      PROVE  /\ longer[i] \in DOMAIN declared[tables[i - 1]]
             /\ tables[i] = declared[tables[i - 1]][longer[i]].to
  <2>1. CASE i = 1
    <3>1. tables[0 + 1] = table[0] /\ i - 1 = 0 /\ 0 + 1 = 1
      BY <1>2, <1>4, <2>1
    <3> QED BY <1>1, <1>2, <1>4, <2>1, <3>1
  <2>2. CASE i # 1
    <3> DEFINE j == i - 1
    <3>1. j \in 1 .. n /\ j \in 0 .. n /\ j - 1 \in 0 .. n /\ (j - 1) + 1 = j /\ j + 1 = i
      BY <1>2, <2>2
    <3>2. longer[j + 1] = path[j] /\ tables[j + 1] = table[j] /\ tables[(j - 1) + 1] = table[j - 1]
      BY <1>2, <1>4, <3>1
    <3>3. path[j] \in DOMAIN declared[table[j - 1]] /\ table[j] = declared[table[j - 1]][path[j]].to
      BY <1>1, <1>3, <3>1
    <3> HIDE DEF j
    <3>4. i - 1 = j
      BY DEF j
    <3> QED BY <3>1, <3>2, <3>3, <3>4
  <2> QED BY <2>1, <2>2
<1>6. Len(longer) = n + 1
  BY <1>2
<1>7. LeadsFrom(declared, start, longer)
  BY <1>3, <1>4, <1>5, <1>6 DEF LeadsFrom
<1> QED BY <1>7 DEF longer

\* One relation leads from its table.
LEMMA SingleLeads ==
  ASSUME NEW most, NEW declared \in Declarations(most), NEW start \in Table, NEW name \in DOMAIN declared[start]
  PROVE  LeadsFrom(declared, start, <<name>>)
<1> DEFINE tables == [i \in 0 .. 1 |-> IF i = 0 THEN start ELSE declared[start][name].to]
<1>1. declared[start][name].to \in Table
  BY LinksAreTyped DEF Link
<1>2. tables \in [0 .. 1 -> Table] /\ tables[0] = start /\ tables[1] = declared[start][name].to
  BY <1>1
<1> HIDE DEF tables
<1>3. Len(<<name>>) = 1 /\ DOMAIN <<name>> = 1 .. 1 /\ <<name>>[1] = name
  OBVIOUS
<1>4. \A i \in 1 .. 1 : i = 1 /\ i - 1 = 0
  OBVIOUS
<1> QED BY <1>2, <1>3, <1>4 DEF LeadsFrom

\* With each relation come the paths to what is below it.
LEMMA JoinedStand ==
  ASSUME NEW most, NEW declared \in Declarations(most), NEW start \in Table, NEW name \in DOMAIN declared[start],
         NEW below \in SUBSET Path
  PROVE  /\ Joined(name, below) \subseteq Path
         /\ StandFrom(declared, declared[start][name].to, below) => StandFrom(declared, start, Joined(name, below))
<1>1. name \in FieldName
  BY LinksAreTyped
<1>2. <<name>> \in Path /\ Len(<<name>>) = 1
  BY <1>1 DEF Path
<1>3. Joined(name, below) \subseteq Path
  <2>1. ASSUME NEW path \in below PROVE <<name>> \o path \in Path
    BY <1>1, Prepended
  <2> QED BY <1>2, <2>1 DEF Joined
<1>4. ASSUME StandFrom(declared, declared[start][name].to, below), NEW joined \in Joined(name, below)
      PROVE  LeadsFrom(declared, start, joined) /\ (Len(joined) > 1 => Front(joined) \in Joined(name, below))
  <2>1. CASE joined = <<name>>
    BY <1>2, <2>1, SingleLeads
  <2>2. CASE joined # <<name>>
    <3>1. PICK path \in below : joined = <<name>> \o path
      BY <2>2 DEF Joined
    <3>2. path \in Path /\ LeadsFrom(declared, declared[start][name].to, path)
          /\ (Len(path) > 1 => Front(path) \in below)
      BY <1>4 DEF StandFrom
    <3>3. LeadsFrom(declared, start, joined)
      BY <3>1, <3>2, PrependedLeads
    <3>4. Front(joined) = IF Len(path) = 1 THEN <<name>> ELSE <<name>> \o Front(path)
      BY <1>1, <3>1, <3>2, PrependedFront
    <3>5. Len(path) \in Nat \ {0}
      BY <1>1, <3>2, Prepended
    <3>6. CASE Len(path) = 1
      BY <3>3, <3>4, <3>6 DEF Joined
    <3>7. CASE Len(path) # 1
      <4>1. Front(path) \in below
        <5>1. Len(path) > 1
          <6> DEFINE n == Len(path)
          <6>1. n \in Nat \ {0} /\ n # 1
            BY <3>5, <3>7
          <6> HIDE DEF n
          <6>2. n > 1
            BY <6>1
          <6> QED BY <6>2 DEF n
        <5> QED BY <3>2, <5>1
      <4> QED BY <3>3, <3>4, <3>7, <4>1 DEF Joined
    <3> QED BY <3>6, <3>7
  <2> QED BY <2>1, <2>2
<1> QED BY <1>3, <1>4 DEF StandFrom

-----------------------------------------------------------------------------
(* Populations: relationsToPopulate *)

PopulateCalls == Table \X Nat \X SUBSET Seq(FieldName)

\* What is below a relation, where populate has the results of the calls
PopulateBelow(declared, populate, level, relation) ==
  LET sub(without) == populate[<<relation.to, level + 1, without>>]
  IN IF ~relation.children \/ relation.maxDepth = 0 \/ level >= relation.maxDepth THEN {}
     ELSE IF ~relation.include.given /\ relation.exclude # ListOf({}) THEN sub(relation.exclude.names)
     ELSE IF relation.include.names # {} THEN sub(Names(declared, relation.to) \ relation.include.names)
     ELSE {<<"undefined">> : name \in Names(declared, relation.to)}

PopulateNames(declared, single, table, excluded) ==
  {n \in DOMAIN declared[table] : <<n>> \notin excluded /\ Populated(declared[table][n], single)}

\* The body of relationsToPopulate
PopulateBody(declared, single, populate, args) ==
  LET table == args[1]
      level == args[2]
      excluded == args[3]
  IN UNION {{<<name>>} \cup OnPath(name, PopulateBelow(declared, populate, level, declared[table][name]), excluded) :
              name \in PopulateNames(declared, single, table, excluded)}

Populates(declared, single, populate) ==
  populate = [args \in PopulateCalls |-> PopulateBody(declared, single, populate, args)]

\* A configuration that JoinsStand is about
FineLink(relation) ==
  ~ \/ relation.include = ListOf({})
    \/ relation.exclude = ListOf({}) /\ ~relation.include.given
    \/ \E name \in relation.exclude.names : Len(name) > 1

Short(excluded) == \A path \in excluded : ~(Len(path) > 1)

\* Below a relation there is nothing, the result of a call, or what has no names, whatever the calls return.
Nothing(declared, level, relation) == \A populate : PopulateBelow(declared, populate, level, relation) = {}
OneCall(declared, level, relation, excluded) ==
  \A populate : PopulateBelow(declared, populate, level, relation) = populate[<<relation.to, level + 1, excluded>>]
NotNames(declared, level, relation) ==
  \A populate : PopulateBelow(declared, populate, level, relation) =
                  {<<"undefined">> : name \in Names(declared, relation.to)}

\* There are no other cases, and the last one only where a list is empty.
LEMMA BelowIsACall ==
  ASSUME NEW most \in Nat, NEW declared \in Declarations(most), NEW level \in Nat, NEW relation \in Link(most)
  PROVE  \/ Nothing(declared, level, relation)
         \/ /\ level < most
            /\ \E excluded \in SUBSET Seq(FieldName) :
                 OneCall(declared, level, relation, excluded) /\ (FineLink(relation) => Short(excluded))
         \/ ~FineLink(relation) /\ NotNames(declared, level, relation)
<1> DEFINE none == ~relation.children \/ relation.maxDepth = 0 \/ level >= relation.maxDepth
           excludes == ~relation.include.given /\ relation.exclude # ListOf({})
           includes == relation.include.names # {}
<1>1. /\ relation.maxDepth \in 0 .. most /\ relation.to \in Table
      /\ relation.include \in List /\ relation.exclude \in List
  BY DEF Link
<1>2. CASE none
  BY <1>2 DEF PopulateBelow, Nothing
<1>3. CASE ~none /\ excludes
  <2>1. level < most
    BY <1>1, <1>3
  <2>2. relation.exclude.names \in SUBSET Seq(FieldName)
    BY <1>1 DEF List
  <2>3. OneCall(declared, level, relation, relation.exclude.names)
    BY <1>3 DEF PopulateBelow, OneCall
  <2>4. FineLink(relation) => Short(relation.exclude.names)
    BY DEF FineLink, Short
  <2> HIDE DEF none, excludes
  <2> QED BY <2>1, <2>2, <2>3, <2>4
<1>4. CASE ~none /\ ~excludes /\ includes
  <2> DEFINE others == Names(declared, relation.to) \ relation.include.names
  <2>1. level < most
    BY <1>1, <1>4
  <2>2. \A path \in Names(declared, relation.to) : path \in Seq(FieldName) /\ Len(path) = 1
    <3>1. \A name \in DOMAIN declared[relation.to] : name \in FieldName
      BY <1>1, LinksAreTyped
    <3> SUFFICES ASSUME NEW name \in DOMAIN declared[relation.to]
                 PROVE  <<name>> \in Seq(FieldName) /\ Len(<<name>>) = 1
      BY DEF Names
    <3> QED BY <3>1
  <2>3. others \in SUBSET Seq(FieldName) /\ Short(others)
    <3>1. \A path \in others : path \in Seq(FieldName) /\ Len(path) = 1
      BY <2>2
    <3> HIDE DEF others
    <3>2. ASSUME NEW path \in others PROVE ~(Len(path) > 1)
      <4>1. Len(path) = 1
        BY <3>1
      <4> QED BY <4>1
    <3> QED BY <3>1, <3>2 DEF Short
  <2>4. OneCall(declared, level, relation, others)
    BY <1>4 DEF PopulateBelow, OneCall
  <2> HIDE DEF none, excludes, includes, others
  <2> QED BY <2>1, <2>3, <2>4
<1>5. CASE ~none /\ ~excludes /\ ~includes
  <2>1. NotNames(declared, level, relation)
    BY <1>5 DEF PopulateBelow, NotNames
  <2>2. ~FineLink(relation)
    <3>1. CASE relation.include.given
      <4>1. relation.include = [given |-> TRUE, names |-> {}]
        BY <1>1, <1>5, <3>1 DEF List
      <4> QED BY <4>1 DEF FineLink, ListOf
    <3>2. CASE ~relation.include.given
      BY <1>5, <3>2 DEF FineLink
    <3> QED BY <3>1, <3>2
  <2> QED BY <2>1, <2>2
<1> QED BY <1>2, <1>3, <1>4, <1>5

\* A call of relationsToPopulate, and the relations that it takes
LEMMA PopulateBodies ==
  ASSUME NEW declared, NEW single, NEW populate, NEW table, NEW level, NEW excluded
  PROVE  PopulateBody(declared, single, populate, <<table, level, excluded>>) =
           UNION {{<<name>>} \cup OnPath(name, PopulateBelow(declared, populate, level, declared[table][name]), excluded) :
                    name \in PopulateNames(declared, single, table, excluded)}
BY DEF PopulateBody

\* The levels that a call may still go down
PopulateRank(most) == [args \in PopulateCalls |-> IF args[2] < most THEN most - args[2] ELSE 0]

\* A call below a relation has a lower rank.
LEMMA PopulateRanks ==
  ASSUME NEW most \in Nat
  PROVE  /\ PopulateRank(most) \in [PopulateCalls -> 0 .. most]
         /\ PopulateRank(most) \in [PopulateCalls -> Nat]
         /\ \A table, to \in Table : \A level \in Nat : \A excluded, without \in SUBSET Seq(FieldName) :
              level < most =>
                /\ <<to, level + 1, without>> \in PopulateCalls
                /\ PopulateRank(most)[<<to, level + 1, without>>] < PopulateRank(most)[<<table, level, excluded>>]
<1>1. ASSUME NEW args \in PopulateCalls
      PROVE  (IF args[2] < most THEN most - args[2] ELSE 0) \in 0 .. most
  <2>1. args[2] \in Nat
    BY DEF PopulateCalls
  <2> QED BY <2>1
<1>2. PopulateRank(most) \in [PopulateCalls -> 0 .. most]
  BY <1>1 DEF PopulateRank
<1>3. ASSUME NEW table \in Table, NEW to \in Table, NEW level \in Nat, NEW excluded \in SUBSET Seq(FieldName),
             NEW without \in SUBSET Seq(FieldName), level < most
      PROVE  /\ <<to, level + 1, without>> \in PopulateCalls
             /\ PopulateRank(most)[<<to, level + 1, without>>] < PopulateRank(most)[<<table, level, excluded>>]
  <2>1. <<to, level + 1, without>> \in PopulateCalls /\ <<table, level, excluded>> \in PopulateCalls
    BY DEF PopulateCalls
  <2>2. PopulateRank(most)[<<to, level + 1, without>>] = IF level + 1 < most THEN most - (level + 1) ELSE 0
    BY <2>1 DEF PopulateRank
  <2>3. PopulateRank(most)[<<table, level, excluded>>] = most - level
    BY <1>3, <2>1 DEF PopulateRank
  <2> QED BY <1>3, <2>1, <2>2, <2>3
<1> QED BY <1>2, <1>3

\* What a call populates depends only on the calls below.
LEMMA PopulateAgree ==
  ASSUME NEW most \in Nat, NEW declared \in Declarations(most), NEW single, NEW f, NEW g, NEW args \in PopulateCalls,
         \A other \in PopulateCalls : PopulateRank(most)[other] < PopulateRank(most)[args] => f[other] = g[other]
  PROVE  PopulateBody(declared, single, f, args) = PopulateBody(declared, single, g, args)
<1>1. PICK table \in Table, level \in Nat, excluded \in SUBSET Seq(FieldName) : args = <<table, level, excluded>>
  BY DEF PopulateCalls
<1>2. ASSUME NEW name \in DOMAIN declared[table]
      PROVE  PopulateBelow(declared, f, level, declared[table][name]) =
             PopulateBelow(declared, g, level, declared[table][name])
  <2> DEFINE relation == declared[table][name]
  <2>1. relation \in Link(most) /\ relation.to \in Table
    BY LinksAreTyped DEF Link
  <2> HIDE DEF relation
  <2>2. CASE level < most /\ \E without \in SUBSET Seq(FieldName) : OneCall(declared, level, relation, without)
    <3>1. PICK without \in SUBSET Seq(FieldName) : OneCall(declared, level, relation, without)
      BY <2>2
    <3>2. f[<<relation.to, level + 1, without>>] = g[<<relation.to, level + 1, without>>]
      BY <1>1, <2>1, <2>2, PopulateRanks
    <3> QED BY <3>1, <3>2 DEF relation, OneCall
  <2>3. CASE Nothing(declared, level, relation)
    BY <2>3 DEF relation, Nothing
  <2>4. CASE NotNames(declared, level, relation)
    BY <2>4 DEF relation, NotNames
  <2>5. \/ Nothing(declared, level, relation)
        \/ level < most /\ \E without \in SUBSET Seq(FieldName) : OneCall(declared, level, relation, without)
        \/ NotNames(declared, level, relation)
    BY <2>1, BelowIsACall
  <2> QED BY <2>2, <2>3, <2>4, <2>5
<1> DEFINE names == PopulateNames(declared, single, table, excluded)
           below(h, name) == PopulateBelow(declared, h, level, declared[table][name])
<1>3. \A name \in names : below(f, name) = below(g, name)
  BY <1>2 DEF PopulateNames
<1>4. PopulateBody(declared, single, f, args) = UNION {{<<name>>} \cup OnPath(name, below(f, name), excluded) : name \in names}
  BY <1>1, PopulateBodies
<1>5. PopulateBody(declared, single, g, args) = UNION {{<<name>>} \cup OnPath(name, below(g, name), excluded) : name \in names}
  BY <1>1, PopulateBodies
<1> HIDE DEF names, below
<1> QED BY <1>3, <1>4, <1>5

\* Of the paths below a relation, those on which it leads that are left.
LEMMA OnPaths ==
  ASSUME NEW name \in FieldName, NEW below \in SUBSET Path, NEW excluded
  PROVE  /\ {<<name>>} \cup OnPath(name, below, excluded) \subseteq Path
         /\ Short(excluded) => {<<name>>} \cup OnPath(name, below, excluded) = Joined(name, below)
<1>1. <<name>> \in Path
  BY DEF Path
<1>2. ASSUME NEW path \in below PROVE <<name>> \o path \in Path /\ Len(<<name>> \o path) > 1
  <2> DEFINE n == Len(path)
             longer == Len(<<name>> \o path)
  <2>1. <<name>> \o path \in Path /\ longer = n + 1 /\ n \in Nat \ {0}
    BY Prepended
  <2> HIDE DEF n, longer
  <2>2. longer > 1
    BY <2>1
  <2> QED BY <2>1, <2>2 DEF longer
<1>3. ASSUME Short(excluded) PROVE OnPath(name, below, excluded) = {<<name>> \o path : path \in below}
  <2>1. \A path \in below : <<name>> \o path \notin excluded
    BY <1>2, <1>3 DEF Short
  <2> QED BY <2>1 DEF OnPath
<1>4. OnPath(name, below, excluded) \subseteq Path
  BY <1>2 DEF OnPath
<1> QED BY <1>1, <1>3, <1>4 DEF Joined

\* A call populates paths, when the calls below do.
LEMMA PopulateTypes ==
  ASSUME NEW most \in Nat, NEW declared \in Declarations(most), NEW single, NEW f, NEW args \in PopulateCalls,
         \A other \in PopulateCalls : PopulateRank(most)[other] < PopulateRank(most)[args] => f[other] \subseteq Path
  PROVE  PopulateBody(declared, single, f, args) \subseteq Path
<1>1. PICK table \in Table, level \in Nat, excluded \in SUBSET Seq(FieldName) : args = <<table, level, excluded>>
  BY DEF PopulateCalls
<1>2. ASSUME NEW name \in DOMAIN declared[table]
      PROVE  PopulateBelow(declared, f, level, declared[table][name]) \subseteq Path
  <2> DEFINE relation == declared[table][name]
  <2>1. relation \in Link(most) /\ relation.to \in Table
    BY LinksAreTyped DEF Link
  <2> HIDE DEF relation
  <2>2. CASE level < most /\ \E without \in SUBSET Seq(FieldName) : OneCall(declared, level, relation, without)
    <3>1. PICK without \in SUBSET Seq(FieldName) : OneCall(declared, level, relation, without)
      BY <2>2
    <3>2. f[<<relation.to, level + 1, without>>] \subseteq Path
      BY <1>1, <2>1, <2>2, PopulateRanks
    <3> QED BY <3>1, <3>2 DEF relation, OneCall
  <2>3. CASE Nothing(declared, level, relation)
    BY <2>3 DEF relation, Nothing
  <2>4. CASE NotNames(declared, level, relation)
    <3>1. <<"undefined">> \in Path
      BY PopulationsAssumption DEF Path
    <3> QED BY <2>4, <3>1 DEF relation, NotNames
  <2>5. \/ Nothing(declared, level, relation)
        \/ level < most /\ \E without \in SUBSET Seq(FieldName) : OneCall(declared, level, relation, without)
        \/ NotNames(declared, level, relation)
    BY <2>1, BelowIsACall
  <2> QED BY <2>2, <2>3, <2>4, <2>5
<1>3. \A name \in PopulateNames(declared, single, table, excluded) :
        {<<name>>} \cup OnPath(name, PopulateBelow(declared, f, level, declared[table][name]), excluded) \subseteq Path
  <2> SUFFICES ASSUME NEW name \in DOMAIN declared[table]
               PROVE  {<<name>>} \cup OnPath(name, PopulateBelow(declared, f, level, declared[table][name]), excluded)
                        \subseteq Path
    BY DEF PopulateNames
  <2>1. name \in FieldName
    BY LinksAreTyped
  <2> QED BY <1>2, <2>1, OnPaths
<1> QED BY <1>1, <1>3, PopulateBodies

\* relationsToPopulate comes to an end: there is a function that its body defines.
LEMMA PopulateEnds ==
  ASSUME NEW most \in Nat, NEW declared \in Declarations(most), NEW single
  PROVE  \E populate : Populates(declared, single, populate)
<1> DEFINE V == SUBSET Path
           F == [PopulateCalls -> V]
           body == [f \in F |-> [args \in PopulateCalls |-> PopulateBody(declared, single, f, args)]]
           rank == PopulateRank(most)
           start == [args \in PopulateCalls |-> {}]
<1>1. ASSUME NEW f \in F, NEW args \in PopulateCalls PROVE PopulateBody(declared, single, f, args) \in V
  BY PopulateTypes
<1>2. body \in [F -> F]
  BY <1>1
<1>3. \A f \in F : \A args \in PopulateCalls : body[f][args] = PopulateBody(declared, single, f, args)
  OBVIOUS
<1>4. ASSUME NEW f \in F, NEW g \in F, NEW args \in PopulateCalls,
             \A other \in PopulateCalls : rank[other] < rank[args] => f[other] = g[other]
      PROVE  body[f][args] = body[g][args]
  <2>1. PopulateBody(declared, single, f, args) = PopulateBody(declared, single, g, args)
    BY <1>4, PopulateAgree
  <2> QED BY <1>3, <2>1
<1>5. rank \in [PopulateCalls -> 0 .. most] /\ start \in F
  BY PopulateRanks
<1> HIDE DEF body, rank, start
<1>6. \E f \in F : f = body[f]
  <2> HIDE DEF V
  <2>1. \A f, g \in [PopulateCalls -> V] : \A args \in PopulateCalls :
          (\A other \in PopulateCalls : rank[other] < rank[args] => f[other] = g[other]) => body[f][args] = body[g][args]
    BY <1>4
  <2>2. body \in [[PopulateCalls -> V] -> [PopulateCalls -> V]] /\ start \in [PopulateCalls -> V]
    BY <1>2, <1>5
  <2> HIDE DEF rank, start, body
  <2>3. Descends(PopulateCalls, V, body, rank, most)
    BY <1>5, <2>1, <2>2 DEF Descends
  <2>4. start \in [PopulateCalls -> V]
    BY <2>2
  <2>5. \E f \in [PopulateCalls -> V] : f = body[f]
    BY <2>3, <2>4, RecursionEnds
  <2> QED BY <2>5
<1>7. PICK f \in F : f = body[f]
  BY <1>6
<1>8. body[f] = [args \in PopulateCalls |-> PopulateBody(declared, single, f, args)]
  BY DEF body
<1>9. Populates(declared, single, f)
  BY <1>7, <1>8 DEF Populates
<1> QED BY <1>9

\* What a call populates are paths, each with its front, from the table of the call.
LEMMA PopulatedStand ==
  ASSUME NEW most \in Nat, NEW declared \in Declarations(most), NEW single, NEW f, Populates(declared, single, f)
  PROVE  \A args \in PopulateCalls :
           /\ f[args] \subseteq Path
           /\ (\A relation \in Configurations(declared) : FineLink(relation)) /\ Short(args[3]) =>
                StandFrom(declared, args[1], f[args])
<1> DEFINE fine == \A relation \in Configurations(declared) : FineLink(relation)
           Right(args) == f[args] \subseteq Path /\ (fine /\ Short(args[3]) => StandFrom(declared, args[1], f[args]))
           right == {args \in PopulateCalls : Right(args)}
           rank == PopulateRank(most)
<1>1. \A args \in PopulateCalls : f[args] = PopulateBody(declared, single, f, args)
  BY DEF Populates
<1> HIDE DEF fine
<1>2. ASSUME NEW args \in PopulateCalls, \A other \in PopulateCalls : rank[other] < rank[args] => other \in right
      PROVE  args \in right
  <2>1. f[args] \subseteq Path
    <3>1. PopulateBody(declared, single, f, args) \subseteq Path
      BY <1>2, PopulateTypes
    <3> QED BY <1>1, <3>1
  <2>2. ASSUME fine, Short(args[3]) PROVE StandFrom(declared, args[1], f[args])
    <3>1. PICK table \in Table, level \in Nat, excluded \in SUBSET Seq(FieldName) : args = <<table, level, excluded>>
      BY DEF PopulateCalls
    <3> DEFINE names == PopulateNames(declared, single, table, excluded)
               below(name) == PopulateBelow(declared, f, level, declared[table][name])
    <3>2. ASSUME NEW name \in DOMAIN declared[table]
          PROVE  below(name) \subseteq Path /\ StandFrom(declared, declared[table][name].to, below(name))
      <4> DEFINE relation == declared[table][name]
      <4>1. relation \in Link(most) /\ relation.to \in Table
        BY LinksAreTyped DEF Link
      <4>2. FineLink(relation)
        BY <2>2 DEF fine, Configurations
      <4> HIDE DEF relation, below
      <4>3. below(name) = PopulateBelow(declared, f, level, relation)
        BY DEF below, relation
      <4>4. CASE level < most /\ \E without \in SUBSET Seq(FieldName) :
                   /\ OneCall(declared, level, relation, without)
                   /\ FineLink(relation) => Short(without)
        <5>1. PICK without \in SUBSET Seq(FieldName) :
                /\ OneCall(declared, level, relation, without)
                /\ FineLink(relation) => Short(without)
          BY <4>4
        <5> DEFINE next == <<relation.to, level + 1, without>>
        <5>2. next \in PopulateCalls /\ rank[next] < rank[args]
          BY <3>1, <4>1, <4>4, PopulateRanks
        <5>3. next[1] = relation.to /\ next[3] = without
          OBVIOUS
        <5>4. below(name) = f[next]
          BY <4>3, <5>1 DEF OneCall
        <5> HIDE DEF next, rank, right
        <5>5. next \in right
          BY <1>2, <5>2
        <5>6. Right(next)
          BY <5>5 DEF right
        <5>7. f[next] \subseteq Path /\ StandFrom(declared, relation.to, f[next])
          BY <2>2, <4>2, <5>1, <5>3, <5>6
        <5> QED BY <5>4, <5>7 DEF relation
      <4>5. CASE Nothing(declared, level, relation)
        BY <4>3, <4>5 DEF StandFrom, Nothing
      <4> QED BY <4>1, <4>2, <4>4, <4>5, BelowIsACall
    <3>3. f[args] = UNION {{<<name>>} \cup OnPath(name, below(name), excluded) : name \in names}
      BY <1>1, <3>1, PopulateBodies
    <3>4. Short(excluded)
      BY <2>2, <3>1
    <3>5. \A name \in names : name \in DOMAIN declared[table]
      BY DEF PopulateNames
    <3> HIDE DEF names, below, right
    <3>6. ASSUME NEW name \in names
          PROVE  /\ {<<name>>} \cup OnPath(name, below(name), excluded) = Joined(name, below(name))
                 /\ StandFrom(declared, table, Joined(name, below(name)))
      <4>1. name \in DOMAIN declared[table] /\ name \in FieldName
        BY <3>5, LinksAreTyped
      <4> QED BY <3>2, <3>4, <4>1, OnPaths, JoinedStand
    <3>7. f[args] = UNION {Joined(name, below(name)) : name \in names}
      BY <3>3, <3>6
    <3>8. StandFrom(declared, table, f[args])
      BY <3>6, <3>7 DEF StandFrom
    <3> QED BY <3>1, <3>8
  <2> QED BY <2>1, <2>2
<1>3. right = PopulateCalls
  <2>1. rank \in [PopulateCalls -> Nat] /\ right \in SUBSET PopulateCalls
    BY PopulateRanks
  <2> HIDE DEF rank, right
  <2> QED BY <1>2, <2>1, RankInduction
<1>4. \A args \in PopulateCalls : Right(args)
  BY <1>3
<1> QED BY <1>4 DEF fine

-----------------------------------------------------------------------------
(* Populations: eagerRelationsList *)

EagerNames(declared, table) == {n \in DOMAIN declared[table] : declared[table][n].eager}

\* The body of eagerRelationsList
EagerBody(declared, eager, table) ==
  UNION {{<<name>>} \cup {<<name>> \o path : path \in eager[declared[table][name].to]} : name \in EagerNames(declared, table)}

Eagerly(declared, eager) == eager = [table \in Table |-> EagerBody(declared, eager, table)]

\* Eager relations lead in no circle, where eagerRelationsList would not end.
EagerRank(declared, most) ==
  {rank \in [Table -> 0 .. most] :
     \A table \in Table : \A name \in EagerNames(declared, table) : rank[declared[table][name].to] < rank[table]}

\* The relations of a table, in the words of the paths that are joined
LEMMA EagerBodies ==
  ASSUME NEW declared, NEW eager, NEW table
  PROVE  EagerBody(declared, eager, table) =
           UNION {Joined(name, eager[declared[table][name].to]) : name \in EagerNames(declared, table)}
BY DEF EagerBody, Joined

\* What a table loads eagerly are paths that stand, when those below are.
LEMMA EagerTypes ==
  ASSUME NEW most \in Nat, NEW declared \in Declarations(most), NEW eager, NEW table \in Table,
         \A name \in EagerNames(declared, table) : eager[declared[table][name].to] \subseteq Path
  PROVE  /\ EagerBody(declared, eager, table) \subseteq Path
         /\ (\A name \in EagerNames(declared, table) :
               StandFrom(declared, declared[table][name].to, eager[declared[table][name].to]))
            => StandFrom(declared, table, EagerBody(declared, eager, table))
<1> DEFINE names == EagerNames(declared, table)
           below(name) == eager[declared[table][name].to]
<1>1. EagerBody(declared, eager, table) = UNION {Joined(name, below(name)) : name \in names}
  BY EagerBodies
<1>2. \A name \in names : name \in DOMAIN declared[table]
  BY DEF EagerNames
<1>3. \A name \in names : /\ Joined(name, below(name)) \subseteq Path
                          /\ StandFrom(declared, declared[table][name].to, below(name)) =>
                               StandFrom(declared, table, Joined(name, below(name)))
  <2> SUFFICES ASSUME NEW name \in names
               PROVE  /\ Joined(name, below(name)) \subseteq Path
                      /\ StandFrom(declared, declared[table][name].to, below(name)) =>
                           StandFrom(declared, table, Joined(name, below(name)))
    OBVIOUS
  <2>1. name \in DOMAIN declared[table] /\ below(name) \in SUBSET Path
    BY <1>2
  <2> HIDE DEF below, names
  <2> QED BY <2>1, JoinedStand
<1>4. ASSUME \A name \in names : StandFrom(declared, declared[table][name].to, below(name))
      PROVE  StandFrom(declared, table, EagerBody(declared, eager, table))
  <2>1. \A name \in names : StandFrom(declared, table, Joined(name, below(name)))
    BY <1>3, <1>4
  <2> HIDE DEF below, names
  <2> QED BY <1>1, <2>1 DEF StandFrom
<1>5. EagerBody(declared, eager, table) \subseteq Path
  <2> HIDE DEF below, names
  <2> QED BY <1>1, <1>3
<1> QED BY <1>4, <1>5

\* eagerRelationsList comes to an end.
LEMMA EagerEnds ==
  ASSUME NEW most \in Nat, NEW declared \in Declarations(most), NEW rank \in EagerRank(declared, most)
  PROVE  \E eager : Eagerly(declared, eager)
<1> DEFINE V == SUBSET Path
           body == [f \in [Table -> V] |-> [table \in Table |-> EagerBody(declared, f, table)]]
           start == [table \in Table |-> {}]
<1>1. \A table \in Table : \A name \in EagerNames(declared, table) : declared[table][name].to \in Table
  BY LinksAreTyped DEF EagerNames, Link
<1>2. ASSUME NEW f \in [Table -> V], NEW table \in Table PROVE EagerBody(declared, f, table) \in V
  BY <1>1, EagerTypes
<1>3. body \in [[Table -> V] -> [Table -> V]]
  BY <1>2
<1>4. \A f \in [Table -> V] : \A table \in Table : body[f][table] = EagerBody(declared, f, table)
  OBVIOUS
<1>5. ASSUME NEW f \in [Table -> V], NEW g \in [Table -> V], NEW table \in Table,
             \A other \in Table : rank[other] < rank[table] => f[other] = g[other]
      PROVE  body[f][table] = body[g][table]
  <2>1. \A name \in EagerNames(declared, table) : f[declared[table][name].to] = g[declared[table][name].to]
    BY <1>1, <1>5 DEF EagerRank
  <2>2. EagerBody(declared, f, table) = EagerBody(declared, g, table)
    <3> DEFINE names == EagerNames(declared, table)
               below(h, name) == h[declared[table][name].to]
    <3>1. EagerBody(declared, f, table) = UNION {Joined(name, below(f, name)) : name \in names}
      BY EagerBodies
    <3>2. EagerBody(declared, g, table) = UNION {Joined(name, below(g, name)) : name \in names}
      BY EagerBodies
    <3>3. \A name \in names : below(f, name) = below(g, name)
      BY <2>1
    <3> HIDE DEF names, below
    <3> QED BY <3>1, <3>2, <3>3
  <2> QED BY <1>4, <2>2
<1>6. rank \in [Table -> 0 .. most] /\ start \in [Table -> V]
  BY DEF EagerRank
<1> HIDE DEF body, start, V
<1>7. Descends(Table, V, body, rank, most)
  BY <1>3, <1>5, <1>6 DEF Descends
<1>8. \E f \in [Table -> V] : f = body[f]
  BY <1>6, <1>7, RecursionEnds
<1>9. PICK f \in [Table -> V] : f = body[f]
  BY <1>8
<1>10. body[f] = [table \in Table |-> EagerBody(declared, f, table)]
  BY DEF body
<1> QED BY <1>9, <1>10 DEF Eagerly

\* What is loaded eagerly are paths, each with its front.
LEMMA EagerStand ==
  ASSUME NEW most \in Nat, NEW declared \in Declarations(most), NEW rank \in EagerRank(declared, most),
         NEW eager, Eagerly(declared, eager)
  PROVE  \A table \in Table : eager[table] \subseteq Path /\ StandFrom(declared, table, eager[table])
<1> DEFINE right == {table \in Table : eager[table] \subseteq Path /\ StandFrom(declared, table, eager[table])}
<1>1. \A table \in Table : eager[table] = EagerBody(declared, eager, table)
  BY DEF Eagerly
<1>2. ASSUME NEW table \in Table, \A other \in Table : rank[other] < rank[table] => other \in right
      PROVE  table \in right
  <2>1. \A name \in EagerNames(declared, table) : declared[table][name].to \in right
    <3>1. \A name \in EagerNames(declared, table) : declared[table][name].to \in Table
      BY LinksAreTyped DEF EagerNames, Link
    <3> QED BY <1>2, <3>1 DEF EagerRank
  <2>2. EagerBody(declared, eager, table) \subseteq Path /\ StandFrom(declared, table, EagerBody(declared, eager, table))
    BY <2>1, EagerTypes
  <2> QED BY <1>1, <2>2
<1>3. right = Table
  <2>1. rank \in [Table -> Nat] /\ right \in SUBSET Table
    BY DEF EagerRank
  <2> HIDE DEF right
  <2> QED BY <1>2, <2>1, RankInduction
<1> QED BY <1>3

-----------------------------------------------------------------------------
(* Populations: the joins *)

\* What a query joins are paths, which stand when no configuration is one that JoinsStand is about.
LEMMA JoinedPaths ==
  ASSUME NEW most \in Nat, NEW declared \in Declarations(most), NEW single, NEW protected,
         protected \/ EagerRank(declared, most) # {}
  PROVE  LET joins == JoinRelations(declared, single, protected)
         IN /\ joins \subseteq Path
            /\ (\A relation \in Configurations(declared) : FineLink(relation)) => Stand(declared, joins)
<1> DEFINE joins == JoinRelations(declared, single, protected)
           fine == \A relation \in Configurations(declared) : FineLink(relation)
<1>1. SUFFICES joins \subseteq Path /\ (fine => StandFrom(declared, Root, joins))
  BY DEF Stand, StandFrom, Leads, LeadsFrom
<1>2. CASE protected
  <2> DEFINE populate == CHOOSE f : Populates(declared, single, f)
             args == <<Root, 0, {}>>
  <2>1. joins = populate[args]
    BY <1>2 DEF JoinRelations, RelationsToPopulate, Populates, PopulateBody, PopulateBelow, PopulateNames, PopulateCalls
  <2>2. Populates(declared, single, populate)
    BY PopulateEnds
  <2>3. args \in PopulateCalls /\ args[1] = Root /\ Short(args[3])
    BY PopulationsAssumption DEF PopulateCalls, Short
  <2> HIDE DEF populate, args, joins, fine
  <2>4. populate[args] \subseteq Path /\ (fine => StandFrom(declared, args[1], populate[args]))
    BY <2>2, <2>3, PopulatedStand DEF fine
  <2> QED BY <2>1, <2>3, <2>4
<1>3. CASE ~protected
  <2> DEFINE eager == CHOOSE f : Eagerly(declared, f)
  <2>1. joins = eager[Root]
    BY <1>3 DEF JoinRelations, EagerRelations, Eagerly, EagerBody, EagerNames
  <2>2. PICK rank \in EagerRank(declared, most) : TRUE
    BY <1>3
  <2>3. Eagerly(declared, eager)
    BY <2>2, EagerEnds
  <2> HIDE DEF eager, joins, fine
  <2>4. eager[Root] \subseteq Path /\ StandFrom(declared, Root, eager[Root])
    BY <2>2, <2>3, EagerStand, PopulationsAssumption
  <2> QED BY <2>1, <2>4
<1> QED BY <1>2, <1>3

-----------------------------------------------------------------------------
(* Populations: makePopulationArray *)

ArrayCalls == Table \X Nat \X Nat \X SUBSET Seq(FieldName)

ArrayNames(declared, projection, table, level, excluded) ==
  {n \in DOMAIN declared[table] :
     <<n>> \notin excluded /\ declared[table][n].populate /\ FieldAllowed(n, level, projection)}

\* What is below a relation, where array has the results of the calls
ArrayBelow(array, level, excluded, relation) ==
  array[<<relation.to, relation.maxDepth, level + 1, excluded \cup relation.exclude.names \cup relation.foreign>>]

\* The body of makePopulationArray
ArrayBody(declared, projection, array, args) ==
  LET table == args[1]
      depth == args[2]
      level == args[3]
      excluded == args[4]
  IN IF level >= depth THEN {}
     ELSE UNION {{<<name>>} \cup {<<name>> \o path :
                                    path \in ArrayBelow(array, level, excluded, declared[table][name])} :
                   name \in ArrayNames(declared, projection, table, level, excluded)}

Arrays(declared, projection, array) ==
  array = [args \in ArrayCalls |-> ArrayBody(declared, projection, array, args)]

\* The levels that a call may still go down: the depth may grow once, to that of a relation.
ArrayRank(most) ==
  [args \in ArrayCalls |-> IF args[3] >= args[2] THEN 0 ELSE IF args[3] < most THEN 1 + (most - args[3]) ELSE 1]

\* A call at its depth, and one before
LEMMA ArrayStops ==
  ASSUME NEW declared, NEW projection, NEW array, NEW table, NEW depth, NEW level, NEW excluded, level >= depth
  PROVE  ArrayBody(declared, projection, array, <<table, depth, level, excluded>>) = {}
BY DEF ArrayBody

\* Before its depth a call makes the paths through each relation that it takes.
LEMMA ArrayBodies ==
  ASSUME NEW declared, NEW projection, NEW array, NEW table, NEW depth, NEW level, NEW excluded, ~(level >= depth)
  PROVE  ArrayBody(declared, projection, array, <<table, depth, level, excluded>>) =
           UNION {Joined(name, ArrayBelow(array, level, excluded, declared[table][name])) :
                    name \in ArrayNames(declared, projection, table, level, excluded)}
BY DEF ArrayBody, Joined

\* A call below a relation has a lower rank, whatever depth the relation has.
LEMMA ArrayRanks ==
  ASSUME NEW most \in Nat
  PROVE  /\ ArrayRank(most) \in [ArrayCalls -> 0 .. most + 1]
         /\ ArrayRank(most) \in [ArrayCalls -> Nat]
         /\ \A table, to \in Table : \A depth, level \in Nat : \A below \in 0 .. most :
              \A excluded, without \in SUBSET Seq(FieldName) :
                level < depth =>
                  /\ <<to, below, level + 1, without>> \in ArrayCalls
                  /\ ArrayRank(most)[<<to, below, level + 1, without>>] < ArrayRank(most)[<<table, depth, level, excluded>>]
<1> DEFINE rank(depth, level) == IF level >= depth THEN 0 ELSE IF level < most THEN 1 + (most - level) ELSE 1
<1>1. \A depth, level \in Nat : rank(depth, level) \in 0 .. most + 1
  OBVIOUS
<1>2. \A depth, level \in Nat : \A below \in 0 .. most : level < depth => rank(below, level + 1) < rank(depth, level)
  OBVIOUS
<1>3. \A args \in ArrayCalls : args[2] \in Nat /\ args[3] \in Nat
  BY DEF ArrayCalls
<1>4. ArrayRank(most) = [args \in ArrayCalls |-> rank(args[2], args[3])]
  BY DEF ArrayRank
<1> HIDE DEF rank
<1>5. ArrayRank(most) \in [ArrayCalls -> 0 .. most + 1]
  BY <1>1, <1>3, <1>4
<1>6. ASSUME NEW table \in Table, NEW to \in Table, NEW depth \in Nat, NEW level \in Nat, NEW below \in 0 .. most,
             NEW excluded \in SUBSET Seq(FieldName), NEW without \in SUBSET Seq(FieldName), level < depth
      PROVE  /\ <<to, below, level + 1, without>> \in ArrayCalls
             /\ ArrayRank(most)[<<to, below, level + 1, without>>] < ArrayRank(most)[<<table, depth, level, excluded>>]
  <2> DEFINE args == <<table, depth, level, excluded>>
             next == <<to, below, level + 1, without>>
  <2>1. args \in ArrayCalls /\ next \in ArrayCalls
    BY DEF ArrayCalls
  <2>2. args[2] = depth /\ args[3] = level /\ next[2] = below /\ next[3] = level + 1
    OBVIOUS
  <2> HIDE DEF args, next
  <2>3. ArrayRank(most)[next] = rank(below, level + 1) /\ ArrayRank(most)[args] = rank(depth, level)
    BY <1>4, <2>1, <2>2
  <2>4. ArrayRank(most)[next] < ArrayRank(most)[args]
    BY <1>2, <1>6, <2>3
  <2> QED BY <2>1, <2>4 DEF args, next
<1> QED BY <1>5, <1>6

\* A call that goes down, and the call below a relation that it takes
LEMMA ArrayCallBelow ==
  ASSUME NEW most \in Nat, NEW declared \in Declarations(most), NEW table \in Table, NEW depth \in Nat, NEW level \in Nat,
         NEW excluded \in SUBSET Seq(FieldName), level < depth, NEW name \in DOMAIN declared[table]
  PROVE  LET relation == declared[table][name]
             next == <<relation.to, relation.maxDepth, level + 1,
                       excluded \cup relation.exclude.names \cup relation.foreign>>
         IN next \in ArrayCalls /\ ArrayRank(most)[next] < ArrayRank(most)[<<table, depth, level, excluded>>]
<1> DEFINE relation == declared[table][name]
           without == excluded \cup relation.exclude.names \cup relation.foreign
<1>1. /\ relation.to \in Table /\ relation.maxDepth \in 0 .. most /\ relation.exclude \in List
      /\ relation.foreign \in SUBSET Seq(FieldName)
  BY LinksAreTyped DEF Link
<1>2. without \in SUBSET Seq(FieldName)
  BY <1>1 DEF List
<1> HIDE DEF relation, without
<1> DEFINE next == <<relation.to, relation.maxDepth, level + 1, without>>
<1>3. next \in ArrayCalls /\ ArrayRank(most)[next] < ArrayRank(most)[<<table, depth, level, excluded>>]
  BY <1>1, <1>2, ArrayRanks
<1> QED BY <1>3 DEF relation, without

\* What a call makes of paths are paths, and depends only on the calls below.
LEMMA ArrayTypes ==
  ASSUME NEW most \in Nat, NEW declared \in Declarations(most), NEW projection, NEW f, NEW args \in ArrayCalls,
         \A other \in ArrayCalls : ArrayRank(most)[other] < ArrayRank(most)[args] => f[other] \subseteq Path
  PROVE  ArrayBody(declared, projection, f, args) \subseteq Path
<1>1. PICK table \in Table, depth \in Nat, level \in Nat, excluded \in SUBSET Seq(FieldName) :
        args = <<table, depth, level, excluded>>
  BY DEF ArrayCalls
<1> DEFINE names == ArrayNames(declared, projection, table, level, excluded)
           below(name) == ArrayBelow(f, level, excluded, declared[table][name])
<1>2. CASE level >= depth
  BY <1>1, <1>2, ArrayStops
<1>3. CASE level < depth
  <2>1. ArrayBody(declared, projection, f, args) = UNION {Joined(name, below(name)) : name \in names}
    <3>1. ~(level >= depth)
      BY <1>3
    <3> QED BY <1>1, <3>1, ArrayBodies
  <2>2. ASSUME NEW name \in DOMAIN declared[table] PROVE Joined(name, below(name)) \subseteq Path
    <3>1. below(name) \subseteq Path
      BY <1>1, <1>3, ArrayCallBelow DEF ArrayBelow
    <3> HIDE DEF below
    <3> QED BY <3>1, JoinedStand
  <2>3. \A name \in names : name \in DOMAIN declared[table]
    BY DEF ArrayNames
  <2> HIDE DEF names, below
  <2> QED BY <2>1, <2>2, <2>3
<1> QED BY <1>2, <1>3

\* With the same results of the calls below a call makes the same.
LEMMA ArrayAgree ==
  ASSUME NEW most \in Nat, NEW declared \in Declarations(most), NEW projection, NEW f, NEW g, NEW args \in ArrayCalls,
         \A other \in ArrayCalls : ArrayRank(most)[other] < ArrayRank(most)[args] => f[other] = g[other]
  PROVE  ArrayBody(declared, projection, f, args) = ArrayBody(declared, projection, g, args)
<1>1. PICK table \in Table, depth \in Nat, level \in Nat, excluded \in SUBSET Seq(FieldName) :
        args = <<table, depth, level, excluded>>
  BY DEF ArrayCalls
<1> DEFINE names == ArrayNames(declared, projection, table, level, excluded)
           below(h, name) == ArrayBelow(h, level, excluded, declared[table][name])
<1>2. CASE level >= depth
  BY <1>1, <1>2, ArrayStops
<1>3. CASE level < depth
  <2>1. ArrayBody(declared, projection, f, args) = UNION {Joined(name, below(f, name)) : name \in names}
    <3>1. ~(level >= depth)
      BY <1>3
    <3> QED BY <1>1, <3>1, ArrayBodies
  <2>2. ArrayBody(declared, projection, g, args) = UNION {Joined(name, below(g, name)) : name \in names}
    <3>1. ~(level >= depth)
      BY <1>3
    <3> QED BY <1>1, <3>1, ArrayBodies
  <2>3. ASSUME NEW name \in names PROVE below(f, name) = below(g, name)
    <3>1. name \in DOMAIN declared[table]
      BY DEF ArrayNames
    <3> QED BY <1>1, <1>3, <3>1, ArrayCallBelow DEF ArrayBelow
  <2> HIDE DEF names, below
  <2> QED BY <2>1, <2>2, <2>3
<1> QED BY <1>2, <1>3

\* makePopulationArray comes to an end.
LEMMA ArrayEnds ==
  ASSUME NEW most \in Nat, NEW declared \in Declarations(most), NEW projection
  PROVE  \E array : Arrays(declared, projection, array)
<1> DEFINE V == SUBSET Path
           body == [f \in [ArrayCalls -> V] |-> [args \in ArrayCalls |-> ArrayBody(declared, projection, f, args)]]
           start == [args \in ArrayCalls |-> {}]
           rank == ArrayRank(most)
<1>1. ASSUME NEW f \in [ArrayCalls -> V], NEW args \in ArrayCalls PROVE ArrayBody(declared, projection, f, args) \in V
  BY ArrayTypes
<1>2. body \in [[ArrayCalls -> V] -> [ArrayCalls -> V]]
  BY <1>1
<1>3. \A f \in [ArrayCalls -> V] : \A args \in ArrayCalls : body[f][args] = ArrayBody(declared, projection, f, args)
  OBVIOUS
<1>4. ASSUME NEW f \in [ArrayCalls -> V], NEW g \in [ArrayCalls -> V], NEW args \in ArrayCalls,
             \A other \in ArrayCalls : rank[other] < rank[args] => f[other] = g[other]
      PROVE  body[f][args] = body[g][args]
  <2>1. ArrayBody(declared, projection, f, args) = ArrayBody(declared, projection, g, args)
    BY <1>4, ArrayAgree
  <2> QED BY <1>3, <2>1
<1>5. rank \in [ArrayCalls -> 0 .. most + 1] /\ start \in [ArrayCalls -> V] /\ most + 1 \in Nat
  BY ArrayRanks
<1> HIDE DEF body, start, V, rank
<1>6. Descends(ArrayCalls, V, body, rank, most + 1)
  BY <1>2, <1>4, <1>5 DEF Descends
<1>7. \E f \in [ArrayCalls -> V] : f = body[f]
  BY <1>5, <1>6, RecursionEnds
<1>8. PICK f \in [ArrayCalls -> V] : f = body[f]
  BY <1>7
<1>9. body[f] = [args \in ArrayCalls |-> ArrayBody(declared, projection, f, args)]
  BY DEF body
<1> QED BY <1>8, <1>9 DEF Arrays

\* The projection allows a field of the path at each level.
FieldsAllowed(path, level, projection) == \A i \in DOMAIN path : FieldAllowed(path[i], level + i - 1, projection)

\* A longer path is allowed when its first field is and the rest is, one level down.
LEMMA PrependedAllowed ==
  ASSUME NEW name \in FieldName, NEW path \in Path, NEW level \in Nat, NEW projection
  PROVE  FieldsAllowed(<<name>> \o path, level, projection) <=>
           FieldAllowed(name, level, projection) /\ FieldsAllowed(path, level + 1, projection)
<1> DEFINE longer == <<name>> \o path
           n == Len(path)
<1>1. longer \in Path /\ Len(longer) = n + 1 /\ n \in Nat \ {0} /\ longer[1] = name
      /\ \A i \in 1 .. n : longer[i + 1] = path[i]
  BY Prepended
<1>2. DOMAIN longer = 1 .. n + 1 /\ DOMAIN path = 1 .. n
  BY <1>1 DEF Path
<1> HIDE DEF longer, n
<1>3. level + 1 - 1 = level
  OBVIOUS
<1>4. ASSUME FieldsAllowed(longer, level, projection)
      PROVE  FieldAllowed(name, level, projection) /\ FieldsAllowed(path, level + 1, projection)
  <2>1. FieldAllowed(longer[1], level + 1 - 1, projection)
    <3>1. 1 \in 1 .. n + 1
      BY <1>1
    <3> QED BY <1>2, <1>4, <3>1 DEF FieldsAllowed
  <2>2. ASSUME NEW i \in 1 .. n PROVE FieldAllowed(path[i], (level + 1) + i - 1, projection)
    <3>1. i + 1 \in 1 .. n + 1 /\ level + (i + 1) - 1 = (level + 1) + i - 1
      BY <1>1
    <3>2. FieldAllowed(longer[i + 1], level + (i + 1) - 1, projection)
      BY <1>2, <1>4, <3>1 DEF FieldsAllowed
    <3> QED BY <1>1, <3>1, <3>2
  <2> QED BY <1>1, <1>2, <1>3, <2>1, <2>2 DEF FieldsAllowed
<1>5. ASSUME FieldAllowed(name, level, projection), FieldsAllowed(path, level + 1, projection)
      PROVE  FieldsAllowed(longer, level, projection)
  <2>1. ASSUME NEW i \in 1 .. n + 1 PROVE FieldAllowed(longer[i], level + i - 1, projection)
    <3>1. CASE i = 1
      BY <1>1, <1>3, <1>5, <3>1
    <3>2. CASE i # 1
      <4> DEFINE j == i - 1
      <4>1. j \in 1 .. n /\ j + 1 = i /\ (level + 1) + j - 1 = level + i - 1
        BY <1>1, <3>2
      <4> HIDE DEF j
      <4>2. FieldAllowed(path[j], (level + 1) + j - 1, projection)
        BY <1>2, <1>5, <4>1 DEF FieldsAllowed
      <4>3. longer[j + 1] = path[j]
        BY <1>1, <4>1
      <4> QED BY <4>1, <4>2, <4>3
    <3> QED BY <3>1, <3>2
  <2> QED BY <1>2, <2>1 DEF FieldsAllowed
<1> QED BY <1>4, <1>5 DEF longer

\* The paths through a relation that are allowed
LEMMA JoinedAllowed ==
  ASSUME NEW name \in FieldName, NEW below \in SUBSET Path, NEW level \in Nat, NEW projection
  PROVE  {path \in Joined(name, below) : FieldsAllowed(path, level, projection)} =
           IF FieldAllowed(name, level, projection)
             THEN Joined(name, {path \in below : FieldsAllowed(path, level + 1, projection)}) ELSE {}
<1>1. FieldsAllowed(<<name>>, level, projection) <=> FieldAllowed(name, level, projection)
  <2>1. DOMAIN <<name>> = {1} /\ <<name>>[1] = name /\ level + 1 - 1 = level
    OBVIOUS
  <2> QED BY <2>1 DEF FieldsAllowed
<1>2. \A path \in below : FieldsAllowed(<<name>> \o path, level, projection) <=>
                            FieldAllowed(name, level, projection) /\ FieldsAllowed(path, level + 1, projection)
  BY PrependedAllowed
<1> HIDE DEF FieldsAllowed
<1>3. CASE FieldAllowed(name, level, projection)
  BY <1>1, <1>2, <1>3 DEF Joined
<1>4. CASE ~FieldAllowed(name, level, projection)
  BY <1>1, <1>2, <1>4 DEF Joined
<1> QED BY <1>3, <1>4

\* With a projection makePopulationArray returns, of the paths it returns without, those that are allowed.
LEMMA ArrayFiltered ==
  ASSUME NEW most \in Nat, NEW declared \in Declarations(most), NEW projection,
         NEW all, Arrays(declared, {}, all), NEW shown, Arrays(declared, projection, shown)
  PROVE  \A args \in ArrayCalls :
           all[args] \subseteq Path /\ shown[args] = {path \in all[args] : FieldsAllowed(path, args[3], projection)}
<1> DEFINE Right(args) == /\ all[args] \subseteq Path
                          /\ shown[args] = {path \in all[args] : FieldsAllowed(path, args[3], projection)}
           right == {args \in ArrayCalls : Right(args)}
           rank == ArrayRank(most)
<1>1. \A args \in ArrayCalls : /\ all[args] = ArrayBody(declared, {}, all, args)
                               /\ shown[args] = ArrayBody(declared, projection, shown, args)
  BY DEF Arrays
<1>2. ASSUME NEW args \in ArrayCalls, \A other \in ArrayCalls : rank[other] < rank[args] => other \in right
      PROVE  args \in right
  <2>1. PICK table \in Table, depth \in Nat, level \in Nat, excluded \in SUBSET Seq(FieldName) :
          args = <<table, depth, level, excluded>>
    BY DEF ArrayCalls
  <2>2. args[3] = level
    BY <2>1
  <2>3. all[args] \subseteq Path
    <3>1. \A other \in ArrayCalls : rank[other] < rank[args] => all[other] \subseteq Path
      BY <1>2
    <3>2. ArrayBody(declared, {}, all, args) \subseteq Path
      BY <3>1, ArrayTypes
    <3> QED BY <1>1, <3>2
  <2>4. CASE level >= depth
    <3>1. all[args] = {} /\ shown[args] = {}
      BY <1>1, <2>1, <2>4, ArrayStops
    <3> QED BY <3>1
  <2>5. CASE ~(level >= depth)
    <3> DEFINE names == ArrayNames(declared, {}, table, level, excluded)
               allowed == ArrayNames(declared, projection, table, level, excluded)
               below(f, name) == ArrayBelow(f, level, excluded, declared[table][name])
    <3>1. all[args] = UNION {Joined(name, below(all, name)) : name \in names}
      BY <1>1, <2>1, <2>5, ArrayBodies
    <3>2. shown[args] = UNION {Joined(name, below(shown, name)) : name \in allowed}
      BY <1>1, <2>1, <2>5, ArrayBodies
    <3>3. allowed = {name \in names : FieldAllowed(name, level, projection)}
      BY DEF ArrayNames, FieldAllowed
    <3>4. \A name \in names : name \in DOMAIN declared[table]
      BY DEF ArrayNames
    <3>5. ASSUME NEW name \in DOMAIN declared[table]
          PROVE  /\ name \in FieldName /\ below(all, name) \in SUBSET Path
                 /\ below(shown, name) = {path \in below(all, name) : FieldsAllowed(path, level + 1, projection)}
      <4> DEFINE relation == declared[table][name]
                 next == <<relation.to, relation.maxDepth, level + 1,
                           excluded \cup relation.exclude.names \cup relation.foreign>>
      <4>1. level < depth
        BY <2>5
      <4>2. next \in ArrayCalls /\ rank[next] < rank[args]
        BY <2>1, <4>1, ArrayCallBelow
      <4>3. next[3] = level + 1
        OBVIOUS
      <4>4. below(all, name) = all[next] /\ below(shown, name) = shown[next]
        BY DEF ArrayBelow
      <4> HIDE DEF next, rank, right, below
      <4>5. next \in right
        BY <1>2, <4>2
      <4>6. Right(next)
        BY <4>5 DEF right
      <4> QED BY <4>3, <4>4, <4>6, LinksAreTyped
    <3> HIDE DEF names, allowed, below
    <3>6. ASSUME NEW name \in names
          PROVE  {path \in Joined(name, below(all, name)) : FieldsAllowed(path, level, projection)} =
                   IF name \in allowed THEN Joined(name, below(shown, name)) ELSE {}
      <4>1. /\ name \in FieldName /\ below(all, name) \in SUBSET Path
            /\ below(shown, name) = {path \in below(all, name) : FieldsAllowed(path, level + 1, projection)}
        BY <3>4, <3>5
      <4>2. name \in allowed <=> FieldAllowed(name, level, projection)
        BY <3>3
      <4> QED BY <4>1, <4>2, JoinedAllowed
    <3>7. shown[args] = {path \in all[args] : FieldsAllowed(path, level, projection)}
      <4>1. ASSUME NEW path \in shown[args] PROVE path \in all[args] /\ FieldsAllowed(path, level, projection)
        <5>1. PICK name \in allowed : path \in Joined(name, below(shown, name))
          BY <3>2
        <5>2. name \in names
          BY <3>3
        <5> QED BY <3>1, <3>6, <5>1, <5>2
      <4>2. ASSUME NEW path \in all[args], FieldsAllowed(path, level, projection) PROVE path \in shown[args]
        <5>1. PICK name \in names : path \in Joined(name, below(all, name))
          BY <3>1
        <5>2. name \in allowed /\ path \in Joined(name, below(shown, name))
          BY <3>6, <4>2, <5>1
        <5> QED BY <3>2, <5>2
      <4> QED BY <4>1, <4>2
    <3> QED BY <2>2, <2>3, <3>7
  <2> QED BY <2>4, <2>5
<1>3. right = ArrayCalls
  <2>1. rank \in [ArrayCalls -> Nat] /\ right \in SUBSET ArrayCalls
    BY ArrayRanks
  <2> HIDE DEF rank, right
  <2> QED BY <1>2, <2>1, RankInduction
<1> QED BY <1>3

\* So it is for the call for a document.
LEMMA ArraysFiltered ==
  ASSUME NEW most \in Nat, NEW declared \in Declarations(most), NEW projection
  PROVE  /\ PopulationArray(declared, {}) \subseteq Path
         /\ PopulationArray(declared, projection) =
              {path \in PopulationArray(declared, {}) : FieldsAllowed(path, 0, projection)}
<1> DEFINE array(keys) == CHOOSE f : Arrays(declared, keys, f)
           args == <<Root, DefaultDepth, 0, {}>>
<1>1. \A keys : PopulationArray(declared, keys) = array(keys)[args]
  BY DEF PopulationArray, Arrays, ArrayBody, ArrayBelow, ArrayNames, ArrayCalls
<1>2. \A keys : Arrays(declared, keys, array(keys))
  BY ArrayEnds
<1>3. args \in ArrayCalls /\ args[3] = 0
  BY PopulationsAssumption DEF ArrayCalls, DefaultDepth
<1> HIDE DEF array, args
<1>4. array({})[args] \subseteq Path
      /\ array(projection)[args] = {path \in array({})[args] : FieldsAllowed(path, args[3], projection)}
  BY <1>2, <1>3, ArrayFiltered
<1> QED BY <1>1, <1>3, <1>4

-----------------------------------------------------------------------------
(* Populations: what is shown *)

\* Relations may have any configurations, of which each has a depth; those that are loaded eagerly
\* lead in no circle.
PopulationsSpec ==
  /\ population = NoPopulation
  /\ [][\/ \E most \in Nat : \E declared \in Declarations(most), orm \in {"typeorm", "mongoose"},
                                single \in BOOLEAN, protected \in BOOLEAN, projection \in SUBSET Seq(FieldName) :
             /\ orm = "mongoose" \/ protected \/ EagerRank(declared, most) # {}
             /\ Show(orm, declared, single, protected, projection)
        \/ population' = NoPopulation]_population

\* The prefixes of a path that is joined are joined too.
LEMMA PrefixesStand ==
  ASSUME NEW declared, NEW joins \in SUBSET Path, Stand(declared, joins), NEW path \in joins, NEW i \in DOMAIN path
  PROVE  SubSeq(path, 1, i) \in joins
<1> DEFINE n == Len(path)
           lost == {j \in 1 .. n : SubSeq(path, 1, j) \notin joins}
<1>1. path \in Seq(FieldName) /\ n \in Nat /\ DOMAIN path = 1 .. n
  BY DEF Path
<1>2. SUFFICES ASSUME lost # {} PROVE FALSE
  BY <1>1
<1>3. \E j \in lost : \A k \in lost : k <= j
  <2>1. n \in Nat /\ lost \in SUBSET (1 .. n) /\ lost # {}
    BY <1>1, <1>2
  <2> HIDE DEF lost, n
  <2> QED BY <2>1, FirstAndLast
<1>4. PICK j \in lost : \A k \in lost : k <= j
  BY <1>3
<1>5. SubSeq(path, 1, n) = path
  BY <1>1
<1>6. j < n
  <2>1. j \in 1 .. n /\ SubSeq(path, 1, j) \notin joins
    BY <1>4
  <2>2. j # n
    BY <1>5, <2>1
  <2> HIDE DEF lost, n
  <2> QED BY <1>1, <2>1, <2>2
<1>7. j + 1 \in 1 .. n /\ SubSeq(path, 1, j + 1) \in joins
  <2>1. j + 1 \in 1 .. n /\ ~(j + 1 <= j)
    BY <1>1, <1>4, <1>6
  <2>2. j + 1 \notin lost
    BY <1>4, <2>1
  <2> QED BY <2>1, <2>2
<1> DEFINE longer == SubSeq(path, 1, j + 1)
<1>8. longer \in Seq(FieldName) /\ Len(longer) = j + 1 /\ \A k \in 1 .. j + 1 : longer[k] = path[k]
  BY <1>1, <1>4, <1>7
<1>9. Front(longer) \in joins
  <2>1. longer \in joins
    BY <1>7
  <2> DEFINE m == Len(longer)
  <2>2. m > 1
    <3>1. m = j + 1 /\ j \in Nat \ {0}
      BY <1>1, <1>4, <1>8
    <3> HIDE DEF m
    <3> QED BY <3>1
  <2> HIDE DEF longer
  <2> QED BY <2>1, <2>2 DEF Stand
<1>10. Front(longer) = SubSeq(path, 1, j)
  <2> HIDE DEF longer
  <2>1. j \in Nat /\ j <= n
    BY <1>1, <1>4
  <2>2. Front(longer) = SubSeq(longer, 1, j)
    BY <1>8, <2>1 DEF Front
  <2>3. SubSeq(longer, 1, j) = [k \in 1 .. j |-> longer[k]]
    BY <1>8, <2>1
  <2>4. SubSeq(path, 1, j) = [k \in 1 .. j |-> path[k]]
    BY <1>1, <2>1
  <2>5. \A k \in 1 .. j : longer[k] = path[k]
    BY <1>8, <2>1
  <2> QED BY <2>2, <2>3, <2>4, <2>5
<1> QED BY <1>4, <1>9, <1>10

\* With TypeORM a relation is open when the projection names it and its names are found, or when it
\* has a column of it.
Opened(declared, projection, way) ==
  \/ (projection = {} \/ way \in projection) /\ \A i \in DOMAIN way : way[i] \notin Underscored
  \/ \E key \in projection : Len(key) > 1 /\ Front(key) = way /\ ~Leads(declared, key)

\* A path is shown when all that it goes through is open.
LEMMA TypeormShows ==
  ASSUME NEW declared, NEW joins \in SUBSET Path, Stand(declared, joins), NEW projection, NEW path \in joins
  PROVE  path \in Hydrated(Selected(declared, joins, projection)) <=>
           \A i \in DOMAIN path : Opened(declared, projection, SubSeq(path, 1, i))
<1> DEFINE n == Len(path)
           selected == Selected(declared, joins, projection)
<1>1. path \in Seq(FieldName) /\ n \in Nat \ {0} /\ DOMAIN path = 1 .. n
  <2>1. path \in Seq(FieldName) /\ path # <<>>
    BY DEF Path
  <2> QED BY <2>1, EmptySeq, LenProperties
<1>2. \A i \in 1 .. n : SubSeq(path, 1, i) \in joins
  BY <1>1, PrefixesStand
<1>3. \A way \in joins : way \in selected <=> Opened(declared, projection, way)
  BY DEF Selected, NameFound, OfColumn, Opened
<1>4. path = SubSeq(path, 1, n) /\ n \in 1 .. n
  BY <1>1
<1> HIDE DEF selected, n
<1>5. path \in Hydrated(selected) <=> \A i \in DOMAIN path : Opened(declared, projection, SubSeq(path, 1, i))
  BY <1>1, <1>2, <1>3, <1>4 DEF Hydrated
<1> QED BY <1>5 DEF selected

\* With mongoose a field is allowed when a key of the projection has it at its level.
LEMMA MongooseShows ==
  ASSUME NEW path \in Path, NEW projection \in SUBSET Seq(FieldName)
  PROVE  /\ FieldsAllowed(path, 0, projection) <=>
              projection = {} \/ \A i \in DOMAIN path : \E key \in projection : i \in DOMAIN key /\ key[i] = path[i]
         /\ (\E key \in projection : IsPrefix(path, key)) => FieldsAllowed(path, 0, projection)
<1>1. path \in Seq(FieldName) /\ DOMAIN path = 1 .. Len(path) /\ Len(path) \in Nat
  BY DEF Path
<1>2. \A i \in DOMAIN path : i \in Nat \ {0} /\ (0 + i - 1) + 1 = i
  BY <1>1
<1>3. ASSUME NEW i \in DOMAIN path
      PROVE  FieldAllowed(path[i], 0 + i - 1, projection) <=>
               projection = {} \/ \E key \in projection : i \in DOMAIN key /\ key[i] = path[i]
  <2>1. \A key \in projection : Len(key) > 0 + i - 1 <=> i \in DOMAIN key
    <3> SUFFICES ASSUME NEW key \in projection PROVE Len(key) > 0 + i - 1 <=> i \in DOMAIN key
      OBVIOUS
    <3> DEFINE n == Len(key)
    <3>1. n \in Nat /\ DOMAIN key = 1 .. n
      OBVIOUS
    <3>2. i \in Nat \ {0}
      BY <1>2
    <3> HIDE DEF n
    <3>3. n > 0 + i - 1 <=> i \in 1 .. n
      BY <3>1, <3>2
    <3> QED BY <3>1, <3>3 DEF n
  <2>2. (0 + i - 1) + 1 = i
    BY <1>2
  <2> DEFINE level == 0 + i - 1
  <2>3. (\A key \in projection : Len(key) > level <=> i \in DOMAIN key) /\ level + 1 = i
    BY <2>1, <2>2
  <2> HIDE DEF level
  <2>4. FieldAllowed(path[i], level, projection) <=>
          projection = {} \/ \E key \in projection : i \in DOMAIN key /\ key[i] = path[i]
    BY <2>3 DEF FieldAllowed
  <2> QED BY <2>4 DEF level
<1>4. FieldsAllowed(path, 0, projection) <=>
        projection = {} \/ \A i \in DOMAIN path : \E key \in projection : i \in DOMAIN key /\ key[i] = path[i]
  BY <1>3, Zenon DEF FieldsAllowed
<1>5. ASSUME NEW key \in projection, IsPrefix(path, key), NEW i \in DOMAIN path
      PROVE  i \in DOMAIN key /\ key[i] = path[i]
  <2> DEFINE n == Len(path)
             k == Len(key)
  <2>1. n \in Nat /\ k \in Nat /\ n <= k /\ i \in 1 .. n /\ DOMAIN key = 1 .. k
    BY <1>1, <1>5 DEF IsPrefix
  <2>2. SubSeq(path, 1, n) = SubSeq(key, 1, n)
    BY <1>5 DEF IsPrefix
  <2>3. SubSeq(path, 1, n)[i] = path[i] /\ SubSeq(key, 1, n)[i] = key[i]
    BY <1>1, <2>1
  <2> HIDE DEF n, k
  <2> QED BY <2>1, <2>2, <2>3
<1> QED BY <1>4, <1>5

\* What Show shows stands, and the policy decides it.
LEMMA ShowStands ==
  ASSUME NEW most \in Nat, NEW declared \in Declarations(most), NEW orm \in {"typeorm", "mongoose"},
         NEW single \in BOOLEAN, NEW protected \in BOOLEAN, NEW projection \in SUBSET Seq(FieldName),
         orm = "mongoose" \/ protected \/ EagerRank(declared, most) # {},
         Show(orm, declared, single, protected, projection)
  PROVE  JoinsStand' /\ PolicyDecidesPopulation'
<1> DEFINE joins == JoinRelations(declared, single, protected)
           all == PopulationArray(declared, {})
           shown == PopulationArray(declared, projection)
<1>1. CASE orm = "typeorm"
  <2>1. /\ population'.pc = "typeorm" /\ population'.declared = declared /\ population'.projection = projection
        /\ population'.all = joins /\ population'.shown = Hydrated(Selected(declared, joins, projection))
    BY <1>1 DEF Show
  <2>2. joins \subseteq Path /\ ((\A relation \in Configurations(declared) : FineLink(relation)) => Stand(declared, joins))
    <3>1. protected \/ EagerRank(declared, most) # {}
      BY <1>1
    <3> QED BY <3>1, JoinedPaths
  <2> HIDE DEF joins
  <2>3. JoinsStand'
    BY <2>1, <2>2 DEF JoinsStand, FineLink
  <2>4. Stand(declared, joins) => \A path \in joins :
          path \in Hydrated(Selected(declared, joins, projection)) <=>
            \A i \in DOMAIN path : Opened(declared, projection, SubSeq(path, 1, i))
    BY <2>2, TypeormShows
  <2>5. PolicyDecidesPopulation'
    BY <2>1, <2>4 DEF PolicyDecidesPopulation, Opened
  <2> QED BY <2>3, <2>5
<1>2. CASE orm = "mongoose"
  <2>1. /\ population'.pc = "mongoose" /\ population'.declared = declared /\ population'.projection = projection
        /\ population'.all = all /\ population'.shown = shown
    BY <1>2 DEF Show
  <2>2. all \subseteq Path /\ shown = {path \in all : FieldsAllowed(path, 0, projection)}
    BY ArraysFiltered
  <2> HIDE DEF all, shown
  <2>3. JoinsStand'
    BY <2>1 DEF JoinsStand
  <2>4. ASSUME NEW path \in all
        PROVE  /\ projection = {} \/ (\E key \in projection : IsPrefix(path, key)) => path \in shown
               /\ path \in shown =>
                    \/ projection = {}
                    \/ \E key \in projection : IsPrefix(path, key)
                    \/ \A i \in DOMAIN path : \E key \in projection : i \in DOMAIN key /\ key[i] = path[i]
    BY <2>2, MongooseShows
  <2>5. PolicyDecidesPopulation'
    BY <2>1, <2>2, <2>4 DEF PolicyDecidesPopulation
  <2> QED BY <2>3, <2>5
<1> QED BY <1>1, <1>2

\* So every step of a request keeps both.
LEMMA PopulationsNext ==
  ASSUME JoinsStand, PolicyDecidesPopulation,
         [\/ \E most \in Nat : \E declared \in Declarations(most), orm \in {"typeorm", "mongoose"},
                                single \in BOOLEAN, protected \in BOOLEAN, projection \in SUBSET Seq(FieldName) :
               /\ orm = "mongoose" \/ protected \/ EagerRank(declared, most) # {}
               /\ Show(orm, declared, single, protected, projection)
          \/ population' = NoPopulation]_population
  PROVE  JoinsStand' /\ PolicyDecidesPopulation'
<1>1. CASE population' = population
  BY <1>1 DEF JoinsStand, PolicyDecidesPopulation
<1>2. CASE population' = NoPopulation
  <2>1. population'.pc = "none"
    BY <1>2 DEF NoPopulation
  <2> QED BY <2>1 DEF JoinsStand, PolicyDecidesPopulation
<1>3. CASE \E most \in Nat : \E declared \in Declarations(most), orm \in {"typeorm", "mongoose"},
                                single \in BOOLEAN, protected \in BOOLEAN, projection \in SUBSET Seq(FieldName) :
               /\ orm = "mongoose" \/ protected \/ EagerRank(declared, most) # {}
               /\ Show(orm, declared, single, protected, projection)
  BY <1>3, ShowStands
<1> QED BY <1>1, <1>2, <1>3

\* Before a request nothing is shown.
LEMMA PopulationsInit == population = NoPopulation => JoinsStand /\ PolicyDecidesPopulation
<1> SUFFICES ASSUME population = NoPopulation PROVE JoinsStand /\ PolicyDecidesPopulation
  OBVIOUS
<1>1. population.pc = "none"
  BY DEF NoPopulation
<1> QED BY <1>1 DEF JoinsStand, PolicyDecidesPopulation

(* Whatever relations the models declare, to whatever depths, buildJoinRelations of the TypeORM      *)
(* service joins relations that exist, each to one that is joined as well, unless a list of the       *)
(* configuration is empty or excludes a path.  The relations that are loaded eagerly may lead in no   *)
(* circle: eagerRelationsList follows them without an end.                                            *)
THEOREM JoinsAlwaysStand == PopulationsSpec => []JoinsStand
<1>1. PopulationsSpec => [](JoinsStand /\ PolicyDecidesPopulation)
  BY PopulationsInit, PopulationsNext, PTL DEF PopulationsSpec
<1> QED BY <1>1, PTL

(* Whatever a policy projects to, of the relations that are joined with TypeORM an answer shows       *)
(* exactly those that the projection names, or has a column of, with all on the way;                  *)
(* makePopulationArray of the mongoose service populates all that a key leads to, and no other but    *)
(* those that cross from key to key.                                                                  *)
THEOREM PolicyAlwaysDecides == PopulationsSpec => []PolicyDecidesPopulation
<1>1. PopulationsSpec => [](JoinsStand /\ PolicyDecidesPopulation)
  BY PopulationsInit, PopulationsNext, PTL DEF PopulationsSpec
<1> QED BY <1>1, PTL

\* A body, given any results, needs only those of lower ranks.
Descending(D, V, body, rank) ==
  /\ body \in [[D -> V] -> [D -> V]] /\ rank \in [D -> Nat]
  /\ \A f, g \in [D -> V] : \A d \in D :
       (\A e \in D : rank[e] < rank[d] => f[e] = g[e]) => body[f][d] = body[g][d]

\* A recursion whose body needs only results of lower ranks has a solution.
LEMMA RecursionHasResults ==
  ASSUME NEW D, NEW V, NEW body, NEW rank, Descending(D, V, body, rank), NEW start \in [D -> V]
  PROVE  \E f \in [D -> V] : f = body[f]
<1> DEFINE Solves(f, n) == \A d \in D : rank[d] < n => f[d] = body[f][d]
           unsolved == {n \in Nat : ~\E f \in [D -> V] : Solves(f, n)}
<1>0. /\ body \in [[D -> V] -> [D -> V]] /\ rank \in [D -> Nat]
      /\ \A f, g \in [D -> V] : \A d \in D :
           (\A e \in D : rank[e] < rank[d] => f[e] = g[e]) => body[f][d] = body[g][d]
  BY DEF Descending
<1>1. ASSUME NEW n \in Nat, NEW f \in [D -> V], Solves(f, n) PROVE Solves(body[f], n + 1)
  <2>1. body[f] \in [D -> V]
    BY <1>0
  <2>2. ASSUME NEW d \in D, rank[d] < n + 1 PROVE body[f][d] = body[body[f]][d]
    <3>1. ASSUME NEW e \in D, rank[e] < rank[d] PROVE f[e] = body[f][e]
      <4>1. rank[e] < n
        <5>1. rank[e] \in Nat /\ rank[d] \in Nat
          BY <1>0
        <5> QED BY <2>2, <3>1, <5>1
      <4> QED BY <1>1, <4>1
    <3> QED BY <1>0, <2>1, <3>1
  <2> QED BY <2>2
<1>2. unsolved = {}
  <2>1. ASSUME unsolved # {} PROVE FALSE
    <3> HIDE DEF Solves
    <3>1. PICK n \in unsolved : \A m \in unsolved : n <= m
      BY <2>1, LeastNumber
    <3>2. CASE n = 0
      <4>1. Solves(start, 0)
        <5>1. \A d \in D : ~(rank[d] < 0)
          BY <1>0
        <5> QED BY <5>1 DEF Solves
      <4> QED BY <3>1, <3>2, <4>1
    <3>3. CASE n # 0
      <4>1. n - 1 \in Nat /\ n - 1 < n /\ (n - 1) + 1 = n
        BY <3>1, <3>3
      <4>2. PICK f \in [D -> V] : Solves(f, n - 1)
        BY <3>1, <4>1
      <4>3. Solves(body[f], n) /\ body[f] \in [D -> V]
        BY <1>0, <1>1, <4>1, <4>2
      <4> QED BY <3>1, <4>3
    <3> QED BY <3>2, <3>3
  <2> QED BY <2>1
<1>3. ASSUME NEW n \in Nat, NEW m \in Nat, NEW f \in [D -> V], NEW g \in [D -> V], Solves(f, n), Solves(g, m),
             NEW d \in D, rank[d] < n, rank[d] < m
      PROVE  f[d] = g[d]
  <2> DEFINE right == {e \in D : rank[e] < n /\ rank[e] < m => f[e] = g[e]}
  <2>1. ASSUME NEW e \in D, \A c \in D : rank[c] < rank[e] => c \in right PROVE e \in right
    <3> SUFFICES ASSUME rank[e] < n, rank[e] < m PROVE f[e] = g[e]
      OBVIOUS
    <3>1. ASSUME NEW c \in D, rank[c] < rank[e] PROVE f[c] = g[c]
      <4>1. rank[c] \in Nat /\ rank[e] \in Nat
        BY <1>0
      <4>2. rank[c] < n /\ rank[c] < m
        BY <3>1, <4>1
      <4> QED BY <2>1, <3>1, <4>2
    <3>2. body[f][e] = body[g][e]
      BY <1>0, <3>1
    <3> QED BY <1>3, <3>2
  <2>2. right \in SUBSET D
    OBVIOUS
  <2> HIDE DEF right
  <2>3. right = D
    BY <1>0, <2>1, <2>2, RankInduction
  <2> QED BY <1>3, <2>3 DEF right
<1> DEFINE solution(n) == CHOOSE f \in [D -> V] : Solves(f, n)
           all == [d \in D |-> solution(rank[d] + 1)[d]]
<1> HIDE DEF Solves
<1>4. \A n \in Nat : solution(n) \in [D -> V] /\ Solves(solution(n), n)
  <2> SUFFICES ASSUME NEW n \in Nat PROVE solution(n) \in [D -> V] /\ Solves(solution(n), n)
    OBVIOUS
  <2>1. \E f \in [D -> V] : Solves(f, n)
    BY <1>2
  <2> QED BY <2>1
<1> HIDE DEF solution
<1>5. \A d \in D : rank[d] + 1 \in Nat /\ rank[d] < rank[d] + 1 /\ rank[d] \in Nat
  BY <1>0
<1>6. all \in [D -> V]
  BY <1>4, <1>5
<1>7. ASSUME NEW d \in D PROVE all[d] = body[all][d]
  <2> DEFINE own == solution(rank[d] + 1)
  <2>1. own \in [D -> V] /\ Solves(own, rank[d] + 1)
    BY <1>4, <1>5
  <2>2. ASSUME NEW e \in D, rank[e] < rank[d] PROVE all[e] = own[e]
    <3>1. solution(rank[e] + 1) \in [D -> V] /\ Solves(solution(rank[e] + 1), rank[e] + 1)
      BY <1>4, <1>5
    <3>2. rank[e] < rank[e] + 1 /\ rank[e] < rank[d] + 1
      BY <1>5, <2>2
    <3> HIDE DEF own
    <3>3. solution(rank[e] + 1)[e] = own[e]
      BY <1>3, <1>5, <2>1, <3>1, <3>2
    <3> QED BY <3>3
  <2>3. body[all][d] = body[own][d]
    <3> HIDE DEF all, own
    <3> QED BY <1>0, <1>6, <2>1, <2>2
  <2>4. own[d] = body[own][d]
    BY <1>5, <2>1 DEF Solves
  <2> QED BY <2>3, <2>4
<1>8. all = body[all]
  <2> HIDE DEF all
  <2> QED BY <1>0, <1>6, <1>7
<1> QED BY <1>6, <1>8

-----------------------------------------------------------------------------
(* Filters *)

\* One query after another, with any filter
FiltersSpec ==
  search = NoSearch /\ [][(\E filter \in Filter, clash \in BOOLEAN : Search(filter, clash)) \/ search' = NoSearch]_search

\* The three kinds of entries
LEMMA EntryKinds ==
  ASSUME NEW filter \in Filter, NEW entry \in ToSet(filter)
  PROVE  /\ \/ /\ entry.key = "field" /\ entry.op \in {"_eq", "_ne"} /\ entry.value \in Value /\ Inner(entry) = {}
            \/ /\ entry.key \in Operator /\ entry.items \in Seq(Filter) /\ Len(entry.items) \in Nat \ {0}
               /\ Inner(entry) = ToSet(entry.items)
            \/ /\ entry.key \in Relation /\ entry.filter \in Filter /\ Inner(entry) = {entry.filter}
               /\ Keys(Objects(entry.filter)) \cap Relation = {}
         /\ Inner(entry) \subseteq Filter /\ \A inner \in Inner(entry) : Depth[inner] < Depth[filter]
<1>1. entry \in FilterEntry
  <2>1. filter \in Seq(FilterEntry)
    BY FiltersAssumption
  <2> HIDE DEF FilterEntry
  <2> QED BY <2>1 DEF ToSet
<1>2. \A inner \in Inner(entry) : Depth[inner] < Depth[filter]
  BY FiltersAssumption
<1>3. Relation \cap (Operator \cup {"field", Null}) = {}
  BY FiltersAssumption
<1>4. CASE entry \in [key : {"field"}, op : {"_eq", "_ne"}, value : Value]
  <2>1. entry.key = "field" /\ entry.op \in {"_eq", "_ne"} /\ entry.value \in Value
    BY <1>4
  <2>2. Inner(entry) = {}
    BY <2>1 DEF Inner, Operator
  <2> QED BY <1>2, <2>1, <2>2
<1>5. CASE entry \in [key : Operator, items : Seq(Filter) \ {<<>>}]
  <2>1. entry.key \in Operator /\ entry.items \in Seq(Filter) /\ entry.items # <<>>
    BY <1>5
  <2>2. Inner(entry) = ToSet(entry.items)
    BY <2>1 DEF Inner, Operator
  <2>3. Len(entry.items) \in Nat \ {0}
    BY <2>1, EmptySeq, LenProperties
  <2>4. ToSet(entry.items) \subseteq Filter
    BY <2>1 DEF ToSet
  <2> QED BY <1>2, <2>1, <2>2, <2>3, <2>4
<1>6. CASE entry \in [key : Relation, filter : Filter]
  <2>1. entry.key \in Relation /\ entry.filter \in Filter
    BY <1>6
  <2>2. Inner(entry) = {entry.filter}
    BY <1>3, <2>1 DEF Inner, Operator
  <2>3. Keys(Objects(entry.filter)) \cap Relation = {}
    BY <2>1, FiltersAssumption
  <2> QED BY <1>2, <2>1, <2>2, <2>3
<1> QED BY <1>1, <1>4, <1>5, <1>6 DEF FilterEntry

\* A filter is a sequence of entries.
LEMMA FilterSequence ==
  ASSUME NEW filter \in Filter
  PROVE  /\ Len(filter) \in Nat \ {0} /\ DOMAIN filter = 1 .. Len(filter)
         /\ ToSet(filter) = {filter[i] : i \in DOMAIN filter} /\ \A i \in DOMAIN filter : filter[i] \in ToSet(filter)
<1>1. filter \in Seq(FilterEntry) /\ filter # <<>>
  BY FiltersAssumption
<1> HIDE DEF FilterEntry
<1>2. Len(filter) \in Nat \ {0} /\ DOMAIN filter = 1 .. Len(filter)
  BY <1>1, EmptySeq, LenProperties
<1> QED BY <1>2 DEF ToSet

\* Whatever goes from the filters in a filter to the filter
Carried(right) == \A filter \in Filter : (\A entry \in ToSet(filter) : Inner(entry) \subseteq right) => filter \in right

\* holds for all filters.
LEMMA FilterInduction ==
  ASSUME NEW right \in SUBSET Filter, Carried(right)
  PROVE  right = Filter
<1>1. Depth \in [Filter -> Nat]
  BY FiltersAssumption
<1>2. ASSUME NEW filter \in Filter, \A f \in Filter : Depth[f] < Depth[filter] => f \in right PROVE filter \in right
  <2>1. \A entry \in ToSet(filter) : Inner(entry) \subseteq right
    BY <1>2, EntryKinds
  <2> QED BY <2>1 DEF Carried
<1> QED BY <1>1, <1>2, RankInduction

\* Results for filters that need only those for the filters in them
Followed(D, V, body) ==
  /\ body \in [[D -> V] -> [D -> V]] /\ \A d \in D : d[1] \in Filter
  /\ \A f, g \in [D -> V] : \A d \in D :
       (\A e \in D : (\E entry \in ToSet(d[1]) : e[1] \in Inner(entry)) => f[e] = g[e]) => body[f][d] = body[g][d]

\* Such results exist.
LEMMA FiltersFollowed ==
  ASSUME NEW D, NEW V, NEW body, Followed(D, V, body), NEW start \in [D -> V]
  PROVE  \E f \in [D -> V] : f = body[f]
<1> DEFINE rank == [d \in D |-> Depth[d[1]]]
<1>1. Depth \in [Filter -> Nat] /\ \A d \in D : d[1] \in Filter
  BY FiltersAssumption DEF Followed
<1>2. rank \in [D -> Nat]
  BY <1>1
<1>3. ASSUME NEW f \in [D -> V], NEW g \in [D -> V], NEW d \in D, \A e \in D : rank[e] < rank[d] => f[e] = g[e]
      PROVE  body[f][d] = body[g][d]
  <2>1. ASSUME NEW e \in D, NEW entry \in ToSet(d[1]), e[1] \in Inner(entry) PROVE f[e] = g[e]
    <3>1. Depth[e[1]] < Depth[d[1]]
      BY <1>1, <2>1, EntryKinds
    <3> QED BY <1>3, <3>1
  <2> QED BY <2>1 DEF Followed
<1>4. body \in [[D -> V] -> [D -> V]]
  BY DEF Followed
<1> HIDE DEF rank
<1>5. Descending(D, V, body, rank)
  BY <1>2, <1>3, <1>4 DEF Descending
<1> QED BY <1>5, RecursionHasResults

\* The objects in a filter are filters: it, and those in its entries.
LEMMA ObjectsOf ==
  ASSUME NEW filter \in Filter
  PROVE  /\ Objects(filter) \subseteq Filter /\ filter \in Objects(filter)
         /\ \A object : object \in Objects(filter) <=>
              \/ object = filter
              \/ \E entry \in ToSet(filter) : \E inner \in Inner(entry) : object \in Objects(inner)
<1> DEFINE Body(f, g) == {g} \cup UNION {UNION {f[h] : h \in Inner(g[i])} : i \in DOMAIN g}
           V == SUBSET Filter
           body == [f \in [Filter -> V] |-> [g \in Filter |-> Body(f, g)]]
           objects == CHOOSE f : f = [g \in Filter |-> Body(f, g)]
<1>1. \A g : Objects(g) = objects[g]
  BY DEF Objects
<1>2. ASSUME NEW g \in Filter, NEW i \in DOMAIN g, NEW h \in Inner(g[i]) PROVE h \in Filter /\ Depth[h] < Depth[g]
  BY FilterSequence, EntryKinds
<1>3. ASSUME NEW f \in [Filter -> V], NEW g \in Filter PROVE Body(f, g) \in V
  BY <1>2
<1>4. body \in [[Filter -> V] -> [Filter -> V]]
  BY <1>3
<1>5. ASSUME NEW f \in [Filter -> V], NEW e \in [Filter -> V], NEW g \in Filter,
             \A h \in Filter : Depth[h] < Depth[g] => f[h] = e[h]
      PROVE  Body(f, g) = Body(e, g)
  BY <1>2, <1>5
<1>6. Descending(Filter, V, body, Depth)
  <2>1. Depth \in [Filter -> Nat]
    BY FiltersAssumption
  <2>2. \A f \in [Filter -> V] : \A g \in Filter : body[f][g] = Body(f, g)
    OBVIOUS
  <2> HIDE DEF Body, V, body
  <2>3. \A f, e \in [Filter -> V] : \A g \in Filter :
          (\A h \in Filter : Depth[h] < Depth[g] => f[h] = e[h]) => body[f][g] = body[e][g]
    BY <1>5, <2>2
  <2> QED BY <1>4, <2>1, <2>3 DEF Descending
<1> DEFINE start == [g \in Filter |-> {}]
<1>7. start \in [Filter -> V]
  OBVIOUS
<1>8. \A f \in [Filter -> V] : body[f] = [g \in Filter |-> Body(f, g)]
  OBVIOUS
<1> HIDE DEF V, body, Body, start
<1>9. PICK f \in [Filter -> V] : f = body[f]
  BY <1>6, <1>7, RecursionHasResults
<1>10. f = [g \in Filter |-> Body(f, g)]
  BY <1>8, <1>9
<1>11. objects = [g \in Filter |-> Body(objects, g)]
  BY <1>10
<1> HIDE DEF objects
<1>12. ASSUME NEW g \in Filter PROVE objects[g] = Body(objects, g)
  BY <1>11
<1> DEFINE right == {g \in Filter : objects[g] \in V}
<1>13. right = Filter
  <2>1. ASSUME NEW g \in Filter, \A entry \in ToSet(g) : Inner(entry) \subseteq right PROVE g \in right
    <3>1. ASSUME NEW i \in DOMAIN g, NEW h \in Inner(g[i]) PROVE objects[h] \in V
      BY <2>1, <3>1, FilterSequence
    <3>2. Body(objects, g) \in V
      BY <3>1 DEF Body, V
    <3> QED BY <1>12, <3>2
  <2>2. Carried(right)
    <3> HIDE DEF right
    <3> QED BY <2>1 DEF Carried
  <2>3. right \in SUBSET Filter
    OBVIOUS
  <2> HIDE DEF right
  <2> QED BY <2>2, <2>3, FilterInduction
<1>14. Objects(filter) = Body(objects, filter) /\ Objects(filter) \subseteq Filter
  BY <1>1, <1>12, <1>13 DEF V
<1>15. ASSUME NEW object
       PROVE  object \in Objects(filter) <=>
                \/ object = filter
                \/ \E entry \in ToSet(filter) : \E inner \in Inner(entry) : object \in Objects(inner)
  <2>1. object \in Objects(filter) <=>
          object = filter \/ \E i \in DOMAIN filter : \E inner \in Inner(filter[i]) : object \in objects[inner]
    BY <1>14 DEF Body
  <2> QED BY <1>1, <2>1, FilterSequence
<1> QED BY <1>14, <1>15

\* Whether an entry holds for a value, by results for the filters in it
EntryHolds(entry, field, related, f) ==
  CASE entry.key = "field" -> Holds(entry.op, field, entry.value)
    [] entry.key = "_and"  -> \A item \in ToSet(entry.items) : f[<<item, field>>]
    [] entry.key = "_or"   -> \E item \in ToSet(entry.items) : f[<<item, field>>]
    [] entry.key = "_nor"  -> ~\E item \in ToSet(entry.items) : f[<<item, field>>]
    [] OTHER               -> \E x \in related[entry.key] : f[<<entry.filter, x>>]

Related == [Relation -> SUBSET Value]

\* Truths for each filter and value
Results == [Filter \X Value -> BOOLEAN]

\* Results that are the same for the filters in an entry
Alike(entry, f, g) == \A inner \in Inner(entry), x \in Value : f[<<inner, x>>] = g[<<inner, x>>]

\* Whether an entry holds needs only the results for the filters in it.
LEMMA EntryFollows ==
  ASSUME NEW filter \in Filter, NEW entry \in ToSet(filter), NEW field \in Value, NEW related \in Related,
         NEW f \in Results, NEW g \in Results, Alike(entry, f, g)
  PROVE  EntryHolds(entry, field, related, f) = EntryHolds(entry, field, related, g)
<1>1. CASE entry.key = "field"
  BY <1>1 DEF EntryHolds
<1>2. CASE entry.key \in Operator
  <2>1. Inner(entry) = ToSet(entry.items)
    BY <1>2, EntryKinds, FiltersAssumption DEF Operator
  <2>2. \A item \in ToSet(entry.items) : f[<<item, field>>] = g[<<item, field>>]
    BY <2>1 DEF Alike
  <2> QED BY <1>2, <2>2 DEF EntryHolds, Operator
<1>3. CASE entry.key \in Relation
  <2>1. Inner(entry) = {entry.filter} /\ related[entry.key] \subseteq Value
    BY <1>3, EntryKinds, FiltersAssumption DEF Operator, Related
  <2>2. entry.key \notin Operator \cup {"field"}
    BY <1>3, FiltersAssumption
  <2>3. \A x \in related[entry.key] : f[<<entry.filter, x>>] = g[<<entry.filter, x>>]
    BY <2>1 DEF Alike
  <2> QED BY <2>2, <2>3 DEF EntryHolds, Operator
<1> QED BY <1>1, <1>2, <1>3, EntryKinds

\* What a filter means is what its entries mean, by what the filters in it mean.
Means(entry, field, related) ==
  CASE entry.key = "field" -> Holds(entry.op, field, entry.value)
    [] entry.key = "_and"  -> \A item \in ToSet(entry.items) : Matches(item, field, related)
    [] entry.key = "_or"   -> \E item \in ToSet(entry.items) : Matches(item, field, related)
    [] entry.key = "_nor"  -> ~\E item \in ToSet(entry.items) : Matches(item, field, related)
    [] OTHER               -> \E x \in related[entry.key] : Matches(entry.filter, x, related)

\* So the definition of Matches is sound, and a filter matches when all of its entries mean so.
LEMMA MatchesMeans ==
  ASSUME NEW filter \in Filter, NEW field \in Value, NEW related \in Related
  PROVE  /\ Matches(filter, field, related) \in BOOLEAN
         /\ Matches(filter, field, related) <=> \A entry \in ToSet(filter) : Means(entry, field, related)
<1> DEFINE D == Filter \X Value
           Body(f, args) == \A entry \in ToSet(args[1]) : EntryHolds(entry, args[2], related, f)
           body == [f \in [D -> BOOLEAN] |-> [args \in D |-> Body(f, args)]]
           matches == CHOOSE f : f = [args \in D |-> Body(f, args)]
<1>1. \A g, x : Matches(g, x, related) = matches[<<g, x>>]
  BY DEF Matches, EntryHolds
<1>2. body \in [[D -> BOOLEAN] -> [D -> BOOLEAN]] /\ \A d \in D : d[1] \in Filter /\ d[2] \in Value
  BY DEF EntryHolds
<1>3. ASSUME NEW f \in [D -> BOOLEAN], NEW g \in [D -> BOOLEAN], NEW d \in D,
             \A e \in D : (\E entry \in ToSet(d[1]) : e[1] \in Inner(entry)) => f[e] = g[e]
      PROVE  Body(f, d) = Body(g, d)
  <2>1. ASSUME NEW entry \in ToSet(d[1])
        PROVE  EntryHolds(entry, d[2], related, f) = EntryHolds(entry, d[2], related, g)
    <3>1. Inner(entry) \subseteq Filter
      BY EntryKinds
    <3>2. Alike(entry, f, g)
      BY <1>3, <3>1 DEF Alike
    <3>3. d[1] \in Filter /\ d[2] \in Value
      BY <1>2
    <3>4. f \in Results /\ g \in Results
      BY DEF Results
    <3> QED BY <3>2, <3>3, <3>4, EntryFollows
  <2> QED BY <2>1
<1>4. Followed(D, BOOLEAN, body)
  <2>1. \A f \in [D -> BOOLEAN] : \A d \in D : body[f][d] = Body(f, d)
    OBVIOUS
  <2> HIDE DEF Body, body, D
  <2>2. \A f, g \in [D -> BOOLEAN] : \A d \in D :
          (\A e \in D : (\E entry \in ToSet(d[1]) : e[1] \in Inner(entry)) => f[e] = g[e]) => body[f][d] = body[g][d]
    BY <1>3, <2>1
  <2> QED BY <1>2, <2>2 DEF Followed
<1> DEFINE start == [d \in D |-> TRUE]
<1>5. start \in [D -> BOOLEAN] /\ \A f \in [D -> BOOLEAN] : body[f] = [args \in D |-> Body(f, args)]
  OBVIOUS
<1> HIDE DEF body, Body, start
<1>6. \E f \in [D -> BOOLEAN] : f = body[f]
  <2> HIDE DEF D
  <2> QED BY <1>4, <1>5, FiltersFollowed
<1>7. matches = [args \in D |-> Body(matches, args)]
  BY <1>5, <1>6
<1> HIDE DEF matches
<1>8. matches[<<filter, field>>] = Body(matches, <<filter, field>>)
  BY <1>7
<1>9. ASSUME NEW entry PROVE EntryHolds(entry, field, related, matches) = Means(entry, field, related)
  BY <1>1 DEF EntryHolds, Means
<1> QED BY <1>1, <1>8, <1>9 DEF Body

\* The virtual fields among the first entries
Virtuals(filter, i) == {k \in 1 .. i : filter[k].key \in Relation}

EvenVirtuals(filter, i) == Cardinality(Virtuals(filter, i)) % 2 = 0

\* A virtual field turns their number from even to odd or back.
LEMMA VirtualsCounted ==
  ASSUME NEW filter \in Filter, NEW i \in 1 .. Len(filter)
  PROVE  /\ EvenVirtuals(filter, 0)
         /\ EvenVirtuals(filter, i) <=> IF filter[i].key \in Relation THEN ~EvenVirtuals(filter, i - 1)
                                        ELSE EvenVirtuals(filter, i - 1)
<1>1. Len(filter) \in Nat /\ i \in Nat /\ i - 1 \in Nat
  BY FilterSequence
<1>2. IsFiniteSet(Virtuals(filter, i - 1)) /\ Cardinality(Virtuals(filter, i - 1)) \in Nat
  <2>1. IsFiniteSet(1 .. i - 1)
    BY <1>1, FS_Interval
  <2>2. Virtuals(filter, i - 1) \in SUBSET (1 .. i - 1)
    BY DEF Virtuals
  <2> QED BY <2>1, <2>2, FS_Subset, FS_CardinalityType
<1>3. Virtuals(filter, 0) = {}
  BY DEF Virtuals
<1>4. 1 .. i = (1 .. i - 1) \cup {i} /\ i \notin 1 .. i - 1
  BY <1>1
<1>5. IF filter[i].key \in Relation THEN Virtuals(filter, i) = Virtuals(filter, i - 1) \cup {i} /\ i \notin Virtuals(filter, i - 1)
      ELSE Virtuals(filter, i) = Virtuals(filter, i - 1)
  BY <1>4 DEF Virtuals
<1>6. filter[i].key \in Relation => Cardinality(Virtuals(filter, i)) = Cardinality(Virtuals(filter, i - 1)) + 1
  BY <1>2, <1>5, FS_AddElement
<1>7. \A n \in Nat : (n + 1) % 2 = 0 <=> n % 2 # 0
  OBVIOUS
<1>8. Cardinality(Virtuals(filter, 0)) = 0
  BY <1>3, FS_EmptySet
<1> QED BY <1>2, <1>5, <1>6, <1>7, <1>8 DEF EvenVirtuals

\* What has become of the first entries
AccState(filter) == [id : SUBSET DOMAIN filter, conj : SUBSET DOMAIN filter, rest : SUBSET DOMAIN filter]
Kept(filter, acc, i) ==
  /\ acc \in AccState(filter)
  /\ \A k \in acc.id \cup acc.conj \cup acc.rest : k <= i
  /\ acc.id = {} <=> EvenVirtuals(filter, i)
  /\ acc.conj # {} => \E k \in DOMAIN filter : k <= i /\ (filter[k].key = "_and" \/ Merges(filter, k))
  /\ ~LosesAnd(filter) => \A k \in DOMAIN filter : k <= i => k \in acc.id \cup acc.conj \cup acc.rest

\* transfromKeysAndValuesAsync keeps all entries, as long as no $and replaces another.
LEMMA TransformedKeeps ==
  ASSUME NEW filter \in Filter, NEW i \in DOMAIN filter, NEW acc, Kept(filter, acc, i - 1)
  PROVE  Kept(filter, Transformed(acc, filter, i), i)
<1> DEFINE key == filter[i].key
           next == Transformed(acc, filter, i)
<1>1. DOMAIN filter = 1 .. Len(filter) /\ Len(filter) \in Nat /\ i \in Nat
  BY FilterSequence
<1>2. acc \in AccState(filter) /\ i \in 1 .. Len(filter)
  BY <1>1 DEF Kept
<1>3. \A k \in DOMAIN filter : k <= i <=> k <= i - 1 \/ k = i
  BY <1>1
<1>4. "_and" \notin Relation
  BY FiltersAssumption DEF Operator
<1>5. CASE key \notin Relation \cup {"_and"}
  <2>1. next = [acc EXCEPT !.rest = @ \cup {i}]
    BY <1>5 DEF Transformed
  <2>2. next \in AccState(filter) /\ next.id = acc.id /\ next.conj = acc.conj /\ next.rest = acc.rest \cup {i}
    BY <1>2, <2>1 DEF AccState
  <2>3. EvenVirtuals(filter, i) <=> EvenVirtuals(filter, i - 1)
    BY <1>2, <1>5, VirtualsCounted
  <2> HIDE DEF next
  <2>4. \A k \in next.id \cup next.conj \cup next.rest : k <= i
    BY <1>1, <1>2, <2>2 DEF Kept, AccState
  <2>5. ~LosesAnd(filter) => \A k \in DOMAIN filter : k <= i => k \in next.id \cup next.conj \cup next.rest
    BY <1>3, <2>2 DEF Kept
  <2>6. next.conj # {} => \E k \in DOMAIN filter : k <= i /\ (filter[k].key = "_and" \/ Merges(filter, k))
    BY <1>3, <2>2 DEF Kept
  <2>7. next.id = {} <=> EvenVirtuals(filter, i)
    BY <2>2, <2>3 DEF Kept
  <2>8. Kept(filter, next, i)
    BY <2>2, <2>4, <2>5, <2>6, <2>7 DEF Kept
  <2> QED BY <2>8 DEF next
<1>6. CASE key = "_and"
  <2>1. next = [acc EXCEPT !.conj = @ \cup {i}]
    BY <1>4, <1>6 DEF Transformed
  <2>2. next \in AccState(filter) /\ next.id = acc.id /\ next.conj = acc.conj \cup {i} /\ next.rest = acc.rest
    BY <1>2, <2>1 DEF AccState
  <2>3. EvenVirtuals(filter, i) <=> EvenVirtuals(filter, i - 1)
    BY <1>2, <1>4, <1>6, VirtualsCounted
  <2> HIDE DEF next
  <2>4. \A k \in next.id \cup next.conj \cup next.rest : k <= i
    BY <1>1, <1>2, <2>2 DEF Kept, AccState
  <2>5. ~LosesAnd(filter) => \A k \in DOMAIN filter : k <= i => k \in next.id \cup next.conj \cup next.rest
    BY <1>3, <2>2 DEF Kept
  <2>6. next.conj # {} => \E k \in DOMAIN filter : k <= i /\ (filter[k].key = "_and" \/ Merges(filter, k))
    BY <1>3, <1>6
  <2>7. next.id = {} <=> EvenVirtuals(filter, i)
    BY <2>2, <2>3 DEF Kept
  <2>8. Kept(filter, next, i)
    BY <2>2, <2>4, <2>5, <2>6, <2>7 DEF Kept
  <2> QED BY <2>8 DEF next
<1>7. CASE key \in Relation
  <2>1. next = IF acc.id = {} THEN [acc EXCEPT !.id = {i}] ELSE [acc EXCEPT !.id = {}, !.conj = acc.id \cup {i}]
    BY <1>4, <1>7 DEF Transformed
  <2>2. EvenVirtuals(filter, i) <=> ~EvenVirtuals(filter, i - 1)
    BY <1>2, <1>7, VirtualsCounted
  <2>3. CASE acc.id = {}
    <3>1. next \in AccState(filter) /\ next.id = {i} /\ next.conj = acc.conj /\ next.rest = acc.rest
      BY <1>2, <2>1, <2>3 DEF AccState
    <3> HIDE DEF next
    <3>2. \A k \in next.id \cup next.conj \cup next.rest : k <= i
      BY <1>1, <1>2, <3>1 DEF Kept, AccState
    <3>3. ~LosesAnd(filter) => \A k \in DOMAIN filter : k <= i => k \in next.id \cup next.conj \cup next.rest
      BY <1>3, <2>3, <3>1 DEF Kept
    <3>4. next.conj # {} => \E k \in DOMAIN filter : k <= i /\ (filter[k].key = "_and" \/ Merges(filter, k))
      BY <1>3, <3>1 DEF Kept
    <3>5. next.id = {} <=> EvenVirtuals(filter, i)
      BY <2>2, <2>3, <3>1 DEF Kept
    <3>8. Kept(filter, next, i)
      BY <3>1, <3>2, <3>3, <3>4, <3>5 DEF Kept
    <3> QED BY <3>8 DEF next
  <2>4. CASE acc.id # {}
    <3>1. next \in AccState(filter) /\ next.id = {} /\ next.conj = acc.id \cup {i} /\ next.rest = acc.rest
      <4>1. next = [acc EXCEPT !.id = {}, !.conj = acc.id \cup {i}]
        BY <2>1, <2>4
      <4> HIDE DEF next
      <4> QED BY <1>2, <4>1 DEF AccState
    <3>2. Merges(filter, i)
      BY <1>7, <2>2, <2>4 DEF Kept, Merges, Virtuals, EvenVirtuals
    <3>3. acc.conj # {} => LosesAnd(filter)
      <4>1. SUFFICES ASSUME NEW k \in DOMAIN filter, k <= i - 1, filter[k].key = "_and" \/ Merges(filter, k) PROVE LosesAnd(filter)
        BY DEF Kept
      <4>2. k < i
        BY <1>1, <4>1
      <4> QED BY <3>2, <4>1, <4>2 DEF LosesAnd
    <3> HIDE DEF next
    <3>4. \A k \in next.id \cup next.conj \cup next.rest : k <= i
      BY <1>1, <1>2, <3>1 DEF Kept, AccState
    <3>5. ~LosesAnd(filter) => \A k \in DOMAIN filter : k <= i => k \in next.id \cup next.conj \cup next.rest
      BY <1>3, <3>1, <3>3 DEF Kept
    <3>6. next.conj # {} => \E k \in DOMAIN filter : k <= i /\ (filter[k].key = "_and" \/ Merges(filter, k))
      BY <1>3, <3>2
    <3>7. next.id = {} <=> EvenVirtuals(filter, i)
      BY <2>2, <2>4, <3>1 DEF Kept
    <3>8. Kept(filter, next, i)
      BY <3>1, <3>4, <3>5, <3>6, <3>7 DEF Kept
    <3> QED BY <3>8 DEF next
  <2> QED BY <2>3, <2>4
<1> QED BY <1>5, <1>6, <1>7

\* Only entries of an object are left of it, and all of them unless it loses a $and.
LEMMA ResolvedLeaves ==
  ASSUME NEW filter \in Filter
  PROVE  /\ Resolved(filter) \subseteq ToSet(filter)
         /\ ~LosesAnd(filter) => Resolved(filter) = ToSet(filter)
<1> DEFINE n == Len(filter)
           D == 0 .. n
           V == AccState(filter)
           none == [id |-> {}, conj |-> {}, rest |-> {}]
           Body(f, i) == IF i = 0 THEN none ELSE Transformed(f[i - 1], filter, i)
           body == [f \in [D -> V] |-> [i \in D |-> Body(f, i)]]
           acc == CHOOSE f : f = [i \in D |-> Body(f, i)]
           rank == [i \in D |-> i]
<1>1. Resolved(filter) = {filter[i] : i \in acc[n].id \cup acc[n].conj \cup acc[n].rest}
  BY DEF Resolved
<1>2. n \in Nat /\ DOMAIN filter = 1 .. n
  BY FilterSequence
<1>3. none \in V
  BY DEF AccState
<1> HIDE DEF n
<1>4. \A i \in D : i \in Nat /\ (i # 0 => i - 1 \in D /\ i \in DOMAIN filter /\ i - 1 < i)
  BY <1>2
<1>5. ASSUME NEW a \in V, NEW i \in DOMAIN filter PROVE Transformed(a, filter, i) \in V
  BY DEF Transformed, AccState
<1>6. body \in [[D -> V] -> [D -> V]]
  <2> SUFFICES ASSUME NEW f \in [D -> V], NEW i \in D PROVE Body(f, i) \in V
    OBVIOUS
  <2>1. CASE i = 0
    BY <1>3, <2>1
  <2>2. CASE i # 0
    BY <1>4, <1>5, <2>2
  <2> QED BY <2>1, <2>2
<1>7. rank \in [D -> Nat]
  BY <1>4
<1>8. Descending(D, V, body, rank)
  <2>1. \A f \in [D -> V] : \A i \in D : body[f][i] = Body(f, i)
    OBVIOUS
  <2>2. \A f, g \in [D -> V] : \A i \in D : (\A j \in D : rank[j] < rank[i] => f[j] = g[j]) => Body(f, i) = Body(g, i)
    BY <1>4
  <2> HIDE DEF Body, body, D, V, rank
  <2>3. \A f, g \in [D -> V] : \A i \in D : (\A j \in D : rank[j] < rank[i] => f[j] = g[j]) => body[f][i] = body[g][i]
    BY <2>1, <2>2
  <2> QED BY <1>6, <1>7, <2>3 DEF Descending
<1> DEFINE start == [i \in D |-> none]
<1>9. start \in [D -> V] /\ \A f \in [D -> V] : body[f] = [i \in D |-> Body(f, i)]
  BY <1>3
<1>10. \E f \in [D -> V] : f = body[f]
  <2> HIDE DEF D, V, body, rank, start
  <2> QED BY <1>8, <1>9, RecursionHasResults
<1> HIDE DEF Body, body, start
<1>11. acc = [i \in D |-> Body(acc, i)]
  BY <1>9, <1>10
<1> HIDE DEF acc
<1>12. \A i \in D : acc[i] = Body(acc, i)
  BY <1>11
<1> DEFINE right == {i \in D : Kept(filter, acc[i], i)}
<1>13. right = D
  <2>1. ASSUME NEW i \in D, \A j \in D : rank[j] < rank[i] => j \in right PROVE i \in right
    <3>1. CASE i = 0
      <4>1. acc[i] = none
        BY <1>12, <3>1 DEF Body
      <4>2. EvenVirtuals(filter, 0)
        <5>1. 1 \in 1 .. Len(filter)
          BY FilterSequence
        <5> QED BY <5>1, VirtualsCounted
      <4>3. \A k \in DOMAIN filter : ~(k <= 0)
        BY <1>2
      <4> QED BY <1>3, <3>1, <4>1, <4>2, <4>3 DEF Kept
    <3>2. CASE i # 0
      <4>1. acc[i] = Transformed(acc[i - 1], filter, i) /\ i \in DOMAIN filter
        BY <1>4, <1>12, <3>2 DEF Body
      <4>2. Kept(filter, acc[i - 1], i - 1)
        BY <1>4, <2>1, <3>2
      <4> QED BY <4>1, <4>2, TransformedKeeps
    <3> QED BY <3>1, <3>2
  <2>2. right \in SUBSET D
    OBVIOUS
  <2> HIDE DEF right, D, rank
  <2> QED BY <1>7, <2>1, <2>2, RankInduction
<1>14. Kept(filter, acc[n], n)
  BY <1>2, <1>13
<1>15. \A k \in DOMAIN filter : k <= n
  BY <1>2
<1>16. ToSet(filter) = {filter[i] : i \in DOMAIN filter}
  BY FilterSequence
<1> HIDE DEF D, V
<1>17. acc[n].id \cup acc[n].conj \cup acc[n].rest \subseteq DOMAIN filter
  BY <1>14 DEF Kept, AccState
<1>18. ~LosesAnd(filter) => acc[n].id \cup acc[n].conj \cup acc[n].rest = DOMAIN filter
  BY <1>14, <1>15, <1>17 DEF Kept
<1> QED BY <1>1, <1>16, <1>17, <1>18

\* What mongoose finds is what the entries that are left find.
Finds(entry, field, related) ==
  CASE entry.key = "field" -> Holds(entry.op, field, entry.value)
    [] entry.key = "_and"  -> \A item \in ToSet(entry.items) : MongooseFinds(item, field, related)
    [] entry.key = "_or"   -> \E item \in ToSet(entry.items) : MongooseFinds(item, field, related)
    [] entry.key = "_nor"  -> ~\E item \in ToSet(entry.items) : MongooseFinds(item, field, related)
    [] OTHER               -> \E x \in related[entry.key] : MongooseFinds(entry.filter, x, related)

\* So the definition of MongooseFinds is sound.
LEMMA MongooseFindsIs ==
  ASSUME NEW filter \in Filter, NEW field \in Value, NEW related \in Related
  PROVE  /\ MongooseFinds(filter, field, related) \in BOOLEAN
         /\ MongooseFinds(filter, field, related) <=> \A entry \in Resolved(filter) : Finds(entry, field, related)
<1> DEFINE D == Filter \X Value
           Body(f, args) == \A entry \in Resolved(args[1]) : EntryHolds(entry, args[2], related, f)
           body == [f \in [D -> BOOLEAN] |-> [args \in D |-> Body(f, args)]]
           found == CHOOSE f : f = [args \in D |-> Body(f, args)]
<1>1. \A g, x : MongooseFinds(g, x, related) = found[<<g, x>>]
  BY DEF MongooseFinds, EntryHolds
<1>2. body \in [[D -> BOOLEAN] -> [D -> BOOLEAN]] /\ \A d \in D : d[1] \in Filter /\ d[2] \in Value
  BY DEF EntryHolds
<1>3. ASSUME NEW f \in [D -> BOOLEAN], NEW g \in [D -> BOOLEAN], NEW d \in D,
             \A e \in D : (\E entry \in ToSet(d[1]) : e[1] \in Inner(entry)) => f[e] = g[e]
      PROVE  Body(f, d) = Body(g, d)
  <2>1. ASSUME NEW entry \in Resolved(d[1])
        PROVE  EntryHolds(entry, d[2], related, f) = EntryHolds(entry, d[2], related, g)
    <3>1. entry \in ToSet(d[1]) /\ Inner(entry) \subseteq Filter
      BY <1>2, EntryKinds, ResolvedLeaves
    <3>2. Alike(entry, f, g)
      BY <1>3, <3>1 DEF Alike
    <3>3. d[1] \in Filter /\ d[2] \in Value
      BY <1>2
    <3>4. f \in Results /\ g \in Results
      BY DEF Results
    <3> QED BY <3>1, <3>2, <3>3, <3>4, EntryFollows
  <2> QED BY <2>1
<1>4. Followed(D, BOOLEAN, body)
  <2>1. \A f \in [D -> BOOLEAN] : \A d \in D : body[f][d] = Body(f, d)
    OBVIOUS
  <2> HIDE DEF Body, body, D
  <2>2. \A f, g \in [D -> BOOLEAN] : \A d \in D :
          (\A e \in D : (\E entry \in ToSet(d[1]) : e[1] \in Inner(entry)) => f[e] = g[e]) => body[f][d] = body[g][d]
    BY <1>3, <2>1
  <2> QED BY <1>2, <2>2 DEF Followed
<1> DEFINE start == [d \in D |-> TRUE]
<1>5. start \in [D -> BOOLEAN] /\ \A f \in [D -> BOOLEAN] : body[f] = [args \in D |-> Body(f, args)]
  OBVIOUS
<1> HIDE DEF body, Body, start
<1>6. \E f \in [D -> BOOLEAN] : f = body[f]
  <2> HIDE DEF D
  <2> QED BY <1>4, <1>5, FiltersFollowed
<1>7. found = [args \in D |-> Body(found, args)]
  BY <1>5, <1>6
<1> HIDE DEF found
<1>8. found[<<filter, field>>] = Body(found, <<filter, field>>)
  BY <1>7
<1>9. ASSUME NEW entry PROVE EntryHolds(entry, field, related, found) = Finds(entry, field, related)
  BY <1>1 DEF EntryHolds, Finds
<1> QED BY <1>1, <1>8, <1>9 DEF Body

-----------------------------------------------------------------------------
(* Filters: mongoose *)

\* Entries find what they mean when the filters in them do.
LEMMA FindsMeans ==
  ASSUME NEW filter \in Filter, NEW entry \in ToSet(filter), NEW field \in Value, NEW related \in Related,
         \A inner \in Inner(entry), x \in Value : MongooseFinds(inner, x, related) <=> Matches(inner, x, related)
  PROVE  Finds(entry, field, related) <=> Means(entry, field, related)
<1>1. CASE entry.key = "field"
  BY <1>1 DEF Finds, Means
<1>2. CASE entry.key \in Operator
  <2>1. Inner(entry) = ToSet(entry.items)
    BY <1>2, EntryKinds, FiltersAssumption DEF Operator
  <2>2. \A item \in ToSet(entry.items) : MongooseFinds(item, field, related) <=> Matches(item, field, related)
    BY <2>1
  <2> QED BY <1>2, <2>2 DEF Finds, Means, Operator
<1>3. CASE entry.key \in Relation
  <2>1. Inner(entry) = {entry.filter} /\ related[entry.key] \subseteq Value
    BY <1>3, EntryKinds, FiltersAssumption DEF Operator, Related
  <2>2. entry.key \notin Operator \cup {"field"}
    BY <1>3, FiltersAssumption
  <2>3. \A x \in related[entry.key] : MongooseFinds(entry.filter, x, related) <=> Matches(entry.filter, x, related)
    BY <2>1
  <2> QED BY <2>2, <2>3 DEF Finds, Means, Operator
<1> QED BY <1>1, <1>2, <1>3, EntryKinds

\* Mongoose finds what a filter means in which no object loses a $and.
LEMMA MongooseKeepsMeaning ==
  ASSUME NEW filter \in Filter, NEW field \in Value, NEW related \in Related,
         \A object \in Objects(filter) : ~LosesAnd(object)
  PROVE  MongooseFinds(filter, field, related) <=> Matches(filter, field, related)
<1> DEFINE right == {f \in Filter : (\A object \in Objects(f) : ~LosesAnd(object)) =>
                                      \A x \in Value : MongooseFinds(f, x, related) <=> Matches(f, x, related)}
<1>1. ASSUME NEW f \in Filter, \A entry \in ToSet(f) : Inner(entry) \subseteq right,
             \A object \in Objects(f) : ~LosesAnd(object), NEW x \in Value
      PROVE  MongooseFinds(f, x, related) <=> Matches(f, x, related)
  <2>1. Resolved(f) = ToSet(f)
    <3>1. f \in Objects(f)
      BY ObjectsOf
    <3> QED BY <1>1, <3>1, ResolvedLeaves
  <2>2. ASSUME NEW entry \in ToSet(f) PROVE Finds(entry, x, related) <=> Means(entry, x, related)
    <3>1. ASSUME NEW inner \in Inner(entry), NEW y \in Value
          PROVE  MongooseFinds(inner, y, related) <=> Matches(inner, y, related)
      <4>1. inner \in right
        BY <1>1
      <4>2. \A object \in Objects(inner) : ~LosesAnd(object)
        BY <1>1, ObjectsOf
      <4> QED BY <4>1, <4>2
    <3> QED BY <3>1, FindsMeans
  <2> QED BY <2>1, <2>2, MatchesMeans, MongooseFindsIs
<1>2. Carried(right)
  <2>1. ASSUME NEW f \in Filter, \A entry \in ToSet(f) : Inner(entry) \subseteq right PROVE f \in right
    BY <1>1, <2>1
  <2> HIDE DEF right
  <2> QED BY <2>1 DEF Carried
<1>3. right \in SUBSET Filter
  OBVIOUS
<1>4. right = Filter
  <2> HIDE DEF right
  <2> QED BY <1>2, <1>3, FilterInduction
<1> QED BY <1>4

-----------------------------------------------------------------------------
(* Filters: TypeORM, the places of an object and what is in them *)

\* A union of finitely many finite sets is finite.
LEMMA FiniteUnion ==
  ASSUME NEW S, IsFiniteSet(S), NEW f, \A x \in S : IsFiniteSet(f[x])
  PROVE  IsFiniteSet(UNION {f[x] : x \in S})
<1> DEFINE T == {f[x] : x \in S}
           image == [x \in S |-> f[x]]
<1>1. image \in Surjection(S, T)
  BY DEF Surjection
<1>2. \A set \in T : IsFiniteSet(set)
  OBVIOUS
<1> HIDE DEF T, image
<1>3. IsFiniteSet(T)
  BY <1>1, FS_Surjection
<1>4. IsFiniteSet(UNION T)
  BY <1>2, <1>3, FS_UNION
<1> QED BY <1>4 DEF T

\* What is in a place
LEMMA PlaceKinds ==
  ASSUME NEW filter \in Filter, NEW place \in Places(filter, DOMAIN filter)
  PROVE  /\ place \in Nat \X Nat /\ place[1] \in DOMAIN filter /\ filter[place[1]] \in ToSet(filter)
         /\ \/ filter[place[1]].key = "field" /\ place[2] = 1
            \/ /\ filter[place[1]].key \in Operator
               /\ place[2] \in 1 .. Len(filter[place[1]].items)
               /\ ObjectAt(filter, place) = filter[place[1]].items[place[2]]
               /\ ObjectAt(filter, place) \in ToSet(filter[place[1]].items)
               /\ \A relation : RelationAt(filter, place, relation) = relation
            \/ /\ filter[place[1]].key \in Relation /\ place[2] = 1
               /\ ObjectAt(filter, place) = filter[place[1]].filter
               /\ \A relation : RelationAt(filter, place, relation) = filter[place[1]].key
         /\ filter[place[1]].key # "field" =>
              ObjectAt(filter, place) \in Inner(filter[place[1]]) /\ ObjectAt(filter, place) \in Filter
<1> DEFINE i == place[1]
           entry == filter[i]
<1>1. PICK k \in DOMAIN filter : place \in {k} \X (1 .. IF filter[k].key \in Operator THEN Len(filter[k].items) ELSE 1)
  BY DEF Places
<1>2. i = k /\ place = <<i, place[2]>> /\ place[2] \in 1 .. IF entry.key \in Operator THEN Len(entry.items) ELSE 1
  BY <1>1
<1>3. entry \in ToSet(filter) /\ i \in DOMAIN filter /\ i \in Nat
  BY <1>2, FilterSequence
<1>4. Relation \cap Operator = {} /\ "field" \notin Operator /\ "field" \notin Relation
  BY FiltersAssumption DEF Operator
<1> HIDE DEF i, entry
<1>5. CASE entry.key = "field"
  <2>1. place[2] = 1
    BY <1>2, <1>4, <1>5
  <2> QED BY <1>2, <1>3, <1>5, <2>1 DEF i, entry
<1>6. CASE entry.key \in Operator
  <2>1. entry.items \in Seq(Filter) /\ Len(entry.items) \in Nat /\ Inner(entry) = ToSet(entry.items)
    BY <1>3, <1>4, <1>6, EntryKinds
  <2>2. place[2] \in 1 .. Len(entry.items) /\ place[2] \in Nat
    BY <1>2, <1>6, <2>1
  <2>3. ObjectAt(filter, place) = entry.items[place[2]] /\ \A relation : RelationAt(filter, place, relation) = relation
    BY <1>4, <1>6 DEF ObjectAt, RelationAt, i, entry
  <2>4. entry.items[place[2]] \in ToSet(entry.items) /\ entry.items[place[2]] \in Filter
    BY <2>1, <2>2 DEF ToSet
  <2> QED BY <1>2, <1>3, <1>6, <2>1, <2>2, <2>3, <2>4 DEF i, entry
<1>7. CASE entry.key \in Relation
  <2>1. entry.filter \in Filter /\ Inner(entry) = {entry.filter}
    BY <1>3, <1>4, <1>7, EntryKinds
  <2>2. place[2] = 1
    BY <1>2, <1>4, <1>7
  <2>3. ObjectAt(filter, place) = entry.filter /\ \A relation : RelationAt(filter, place, relation) = entry.key
    BY <1>4, <1>7 DEF ObjectAt, RelationAt, i, entry
  <2> QED BY <1>2, <1>3, <1>7, <2>1, <2>2, <2>3 DEF i, entry
<1> QED BY <1>3, <1>5, <1>6, <1>7, EntryKinds

\* Where the places of some entries are: those of the entries, each of which has some
LEMMA PlacesOf ==
  ASSUME NEW filter \in Filter, NEW entries \in SUBSET DOMAIN filter
  PROVE  /\ Places(filter, entries) = {place \in Places(filter, DOMAIN filter) : place[1] \in entries}
         /\ IsFiniteSet(Places(filter, entries))
         /\ \A i \in entries : <<i, 1>> \in Places(filter, entries)
         /\ \A i \in entries : filter[i].key \in Operator =>
              \A item \in ToSet(filter[i].items) :
                \E n \in DOMAIN filter[i].items : /\ <<i, n>> \in Places(filter, entries)
                                                 /\ ObjectAt(filter, <<i, n>>) = item
<1> DEFINE many(i) == IF filter[i].key \in Operator THEN Len(filter[i].items) ELSE 1
           own(i) == {i} \X (1 .. many(i))
<1>1. ASSUME NEW i \in DOMAIN filter
      PROVE  <<i, 1>> \in own(i) /\ IsFiniteSet(own(i))
  <2>1. filter[i].key \in Operator => Len(filter[i].items) \in Nat \ {0}
    <3>1. filter[i] \in ToSet(filter)
      BY FilterSequence
    <3>2. Relation \cap Operator = {} /\ "field" \notin Operator
      BY FiltersAssumption DEF Operator
    <3> QED BY <3>1, <3>2, EntryKinds
  <2>2. many(i) \in Nat \ {0}
    BY <2>1
  <2> HIDE DEF many
  <2>3. 1 \in 1 .. many(i) /\ IsFiniteSet(1 .. many(i))
    BY <2>2, FS_Interval
  <2>4. IsFiniteSet({i})
    BY FS_Singleton
  <2> QED BY <2>2, <2>3, <2>4, FS_Product
<1>2. \A chosen : Places(filter, chosen) = UNION {own(i) : i \in chosen}
  BY DEF Places
<1>3. IsFiniteSet(Places(filter, entries))
  <2>1. IsFiniteSet(1 .. Len(filter)) /\ DOMAIN filter = 1 .. Len(filter)
    BY FilterSequence, FS_Interval
  <2>2. IsFiniteSet(entries)
    BY <2>1, FS_Subset
  <2> DEFINE owns == [i \in entries |-> own(i)]
  <2>3. \A i \in entries : owns[i] = own(i) /\ IsFiniteSet(owns[i])
    BY <1>1
  <2> HIDE DEF own, owns
  <2>4. IsFiniteSet(UNION {owns[i] : i \in entries})
    BY <2>2, <2>3, FiniteUnion
  <2>5. Places(filter, entries) = UNION {owns[i] : i \in entries}
    BY <1>2, <2>3
  <2> QED BY <2>4, <2>5
<1>4. \A i \in DOMAIN filter : \A place \in own(i) : place[1] = i
  OBVIOUS
<1>5. Places(filter, entries) = {place \in Places(filter, DOMAIN filter) : place[1] \in entries}
  <2> HIDE DEF own
  <2> QED BY <1>2, <1>4
<1>6. \A i \in entries : <<i, 1>> \in Places(filter, entries)
  <2> HIDE DEF own
  <2> QED BY <1>1, <1>2
<1>7. ASSUME NEW i \in entries, filter[i].key \in Operator, NEW item \in ToSet(filter[i].items)
      PROVE  \E n \in DOMAIN filter[i].items : <<i, n>> \in Places(filter, entries) /\ ObjectAt(filter, <<i, n>>) = item
  <2>1. filter[i] \in ToSet(filter) /\ Relation \cap Operator = {} /\ "field" \notin Operator
    BY FilterSequence, FiltersAssumption DEF Operator
  <2>2. filter[i].items \in Seq(Filter)
    BY <1>7, <2>1, EntryKinds
  <2>3. PICK n \in DOMAIN filter[i].items : filter[i].items[n] = item
    BY <1>7 DEF ToSet
  <2>4. <<i, n>> \in own(i)
    BY <1>7, <2>2, <2>3, LenProperties
  <2>5. ObjectAt(filter, <<i, n>>) = item
    BY <1>7, <2>3 DEF ObjectAt
  <2> HIDE DEF own
  <2> QED BY <1>2, <2>3, <2>4, <2>5
<1> QED BY <1>3, <1>5, <1>6, <1>7

-----------------------------------------------------------------------------
(* Filters: TypeORM, statements *)

Statement == [path : PlacePath, relation : Relation \cup {Null}, op : {"_eq", "_ne"}, value : Value]
MadeCalls == Filter \X (Relation \cup {Null}) \X PlacePath
StatementAt(object, place, relation, path) ==
  [path |-> Append(path, place), relation |-> relation, op |-> object[place[1]].op, value |-> object[place[1]].value]
MadeBody(f, args) ==
  UNION {IF args[1][place[1]].key = "field" THEN {StatementAt(args[1], place, args[2], args[3])}
         ELSE f[<<ObjectAt(args[1], place), RelationAt(args[1], place, args[2]), Append(args[3], place)>>] :
           place \in Places(args[1], DOMAIN args[1])}

\* The statements of an object, of a relation and at a path, and those of a place in it
Made(object, relation, path) ==
  LET made == CHOOSE f : f = [args \in MadeCalls |-> MadeBody(f, args)] IN made[<<object, relation, path>>]
MadeAt(object, place, relation, path) ==
  IF object[place[1]].key = "field" THEN {StatementAt(object, place, relation, path)}
  ELSE Made(ObjectAt(object, place), RelationAt(object, place, relation), Append(path, place))

\* buildWhereQuery begins with the filter, no relation and an empty path.
LEMMA StatementsMade ==
  ASSUME NEW filter
  PROVE  Statements(filter) = Made(filter, Null, <<>>)
BY DEF Statements, Made, MadeCalls, MadeBody, StatementAt

\* A path with one more place
LEMMA PathsGrow ==
  ASSUME NEW path \in PlacePath, NEW place \in Nat \X Nat
  PROVE  /\ Append(path, place) \in PlacePath /\ Len(path) \in Nat /\ Len(Append(path, place)) = Len(path) + 1
         /\ Append(path, place)[Len(path) + 1] = place
         /\ \A m \in 1 .. Len(path) : Append(path, place)[m] = path[m]
<1> DEFINE P == Nat \X Nat
<1>1. path \in Seq(P) /\ place \in P
  BY DEF PlacePath
<1> HIDE DEF P
<1>2. Append(path, place) \in Seq(P)
  BY <1>1, AppendProperties
<1>3. Len(Append(path, place)) = Len(path) + 1 /\ Append(path, place)[Len(path) + 1] = place
  BY <1>1, AppendProperties
<1>4. \A m \in 1 .. Len(path) : Append(path, place)[m] = path[m]
  BY <1>1, AppendProperties
<1> QED BY <1>1, <1>2, <1>3, <1>4, LenProperties DEF P, PlacePath

\* What is made of a place needs only what is made of the filter in it.
LEMMA MadeFollows ==
  ASSUME NEW args \in MadeCalls, NEW place \in Places(args[1], DOMAIN args[1]), args[1][place[1]].key # "field"
  PROVE  LET e == <<ObjectAt(args[1], place), RelationAt(args[1], place, args[2]), Append(args[3], place)>>
         IN e \in MadeCalls /\ \E entry \in ToSet(args[1]) : e[1] \in Inner(entry)
<1>1. args[1] \in Filter /\ args[2] \in Relation \cup {Null} /\ args[3] \in PlacePath
  BY DEF MadeCalls
<1>2. ObjectAt(args[1], place) \in Filter /\ ObjectAt(args[1], place) \in Inner(args[1][place[1]])
      /\ args[1][place[1]] \in ToSet(args[1]) /\ place \in Nat \X Nat
  BY <1>1, PlaceKinds
<1>3. RelationAt(args[1], place, args[2]) \in Relation \cup {Null}
  BY <1>1 DEF RelationAt
<1>4. Append(args[3], place) \in PlacePath
  BY <1>1, <1>2, PathsGrow
<1> QED BY <1>2, <1>3, <1>4 DEF MadeCalls

\* The statement of a condition
LEMMA StatementTyped ==
  ASSUME NEW object \in Filter, NEW place \in Places(object, DOMAIN object), object[place[1]].key = "field",
         NEW relation \in Relation \cup {Null}, NEW path \in PlacePath
  PROVE  StatementAt(object, place, relation, path) \in Statement
<1>1. place \in Nat \X Nat /\ object[place[1]] \in ToSet(object)
  BY PlaceKinds
<1>2. "field" \notin Operator /\ "field" \notin Relation
  BY FiltersAssumption DEF Operator
<1>3. object[place[1]].op \in {"_eq", "_ne"} /\ object[place[1]].value \in Value
  BY <1>1, <1>2, EntryKinds
<1>4. Append(path, place) \in PlacePath
  BY <1>1, PathsGrow
<1> QED BY <1>3, <1>4 DEF Statement, StatementAt

\* The statements of an object are those of its places.
LEMMA MadeIs ==
  ASSUME NEW object \in Filter, NEW relation \in Relation \cup {Null}, NEW path \in PlacePath
  PROVE  /\ Made(object, relation, path) \subseteq Statement
         /\ \A s : s \in Made(object, relation, path) <=>
              \E place \in Places(object, DOMAIN object) : s \in MadeAt(object, place, relation, path)
<1> DEFINE D == MadeCalls
           V == SUBSET Statement
           body == [f \in [D -> V] |-> [args \in D |-> MadeBody(f, args)]]
           made == CHOOSE f : f = [args \in MadeCalls |-> MadeBody(f, args)]
<1>1. \A o, r, p : Made(o, r, p) = made[<<o, r, p>>]
  BY DEF Made
<1>2. ASSUME NEW f \in [D -> V], NEW args \in D PROVE MadeBody(f, args) \in V
  <2>1. ASSUME NEW place \in Places(args[1], DOMAIN args[1]), args[1][place[1]].key = "field"
        PROVE  StatementAt(args[1], place, args[2], args[3]) \in Statement
    <3>1. args[1] \in Filter /\ args[2] \in Relation \cup {Null} /\ args[3] \in PlacePath
      BY DEF MadeCalls
    <3> QED BY <2>1, <3>1, StatementTyped
  <2>2. ASSUME NEW place \in Places(args[1], DOMAIN args[1]), args[1][place[1]].key # "field"
        PROVE  f[<<ObjectAt(args[1], place), RelationAt(args[1], place, args[2]), Append(args[3], place)>>] \in V
    BY <2>2, MadeFollows
  <2> QED BY <2>1, <2>2 DEF MadeBody
<1>3. ASSUME NEW f \in [D -> V], NEW g \in [D -> V], NEW d \in D,
             \A e \in D : (\E entry \in ToSet(d[1]) : e[1] \in Inner(entry)) => f[e] = g[e]
      PROVE  MadeBody(f, d) = MadeBody(g, d)
  <2>1. ASSUME NEW place \in Places(d[1], DOMAIN d[1]), d[1][place[1]].key # "field"
        PROVE  f[<<ObjectAt(d[1], place), RelationAt(d[1], place, d[2]), Append(d[3], place)>>] =
                 g[<<ObjectAt(d[1], place), RelationAt(d[1], place, d[2]), Append(d[3], place)>>]
    BY <1>3, <2>1, MadeFollows
  <2> QED BY <2>1 DEF MadeBody
<1>4. Followed(D, V, body)
  <2>1. \A f \in [D -> V] : \A d \in D : body[f][d] = MadeBody(f, d)
    OBVIOUS
  <2>2. body \in [[D -> V] -> [D -> V]]
    BY <1>2
  <2>3. \A d \in D : d[1] \in Filter
    BY DEF MadeCalls
  <2> HIDE DEF body, D, V
  <2>4. \A f, g \in [D -> V] : \A d \in D :
          (\A e \in D : (\E entry \in ToSet(d[1]) : e[1] \in Inner(entry)) => f[e] = g[e]) => body[f][d] = body[g][d]
    BY <1>3, <2>1
  <2> QED BY <2>2, <2>3, <2>4 DEF Followed
<1> DEFINE start == [d \in D |-> {}]
<1>5. start \in [D -> V] /\ \A f \in [D -> V] : body[f] = [args \in MadeCalls |-> MadeBody(f, args)]
  OBVIOUS
<1> HIDE DEF body, start, V
<1>6. \E f \in [D -> V] : f = body[f]
  <2> HIDE DEF D
  <2> QED BY <1>4, <1>5, FiltersFollowed
<1>7. \E f \in [D -> V] : f = [args \in MadeCalls |-> MadeBody(f, args)]
  BY <1>5, <1>6
<1>8. made = [args \in MadeCalls |-> MadeBody(made, args)]
  BY <1>7
<1> HIDE DEF made
<1> DEFINE of(o, r, p, place) ==
             IF o[place[1]].key = "field" THEN {StatementAt(o, place, r, p)}
             ELSE made[<<ObjectAt(o, place), RelationAt(o, place, r), Append(p, place)>>]
<1>9. ASSUME NEW o \in Filter, NEW r \in Relation \cup {Null}, NEW p \in PlacePath
      PROVE  made[<<o, r, p>>] = UNION {of(o, r, p, place) : place \in Places(o, DOMAIN o)}
  <2>1. <<o, r, p>> \in MadeCalls
    BY DEF MadeCalls
  <2>2. made[<<o, r, p>>] = MadeBody(made, <<o, r, p>>)
    BY <1>8, <2>1
  <2> QED BY <2>2 DEF MadeBody
<1>10. \A place : MadeAt(object, place, relation, path) = of(object, relation, path, place)
  BY <1>1 DEF MadeAt
<1> HIDE DEF of
<1>11. ASSUME NEW s
       PROVE  s \in Made(object, relation, path) <=>
                \E place \in Places(object, DOMAIN object) : s \in MadeAt(object, place, relation, path)
  <2>1. Made(object, relation, path) = UNION {of(object, relation, path, place) : place \in Places(object, DOMAIN object)}
    BY <1>1, <1>9
  <2> QED BY <1>10, <2>1
<1> DEFINE right == {g \in Filter : \A r \in Relation \cup {Null}, p \in PlacePath : made[<<g, r, p>>] \in V}
<1>12. right = Filter
  <2>1. ASSUME NEW g \in Filter, \A entry \in ToSet(g) : Inner(entry) \subseteq right,
               NEW r \in Relation \cup {Null}, NEW p \in PlacePath
        PROVE  made[<<g, r, p>>] \in V
    <3>2. ASSUME NEW place \in Places(g, DOMAIN g), g[place[1]].key = "field"
          PROVE  StatementAt(g, place, r, p) \in Statement
      BY <3>2, StatementTyped
    <3>3. ASSUME NEW place \in Places(g, DOMAIN g), g[place[1]].key # "field"
          PROVE  made[<<ObjectAt(g, place), RelationAt(g, place, r), Append(p, place)>>] \in V
      <4>1. g[place[1]] \in ToSet(g) /\ ObjectAt(g, place) \in Inner(g[place[1]])
        BY <3>3, PlaceKinds
      <4>2. ObjectAt(g, place) \in right
        BY <2>1, <4>1
      <4>3. RelationAt(g, place, r) \in Relation \cup {Null} /\ Append(p, place) \in PlacePath
        BY <4>1, PathsGrow, PlaceKinds DEF RelationAt
      <4> QED BY <4>2, <4>3
    <3>4. \A place \in Places(g, DOMAIN g) : of(g, r, p, place) \in V
      BY <3>2, <3>3 DEF of, V
    <3> QED BY <1>9, <3>4 DEF V
  <2>2. Carried(right)
    <3>1. ASSUME NEW g \in Filter, \A entry \in ToSet(g) : Inner(entry) \subseteq right PROVE g \in right
      BY <2>1, <3>1
    <3> HIDE DEF right
    <3> QED BY <3>1 DEF Carried
  <2>3. right \in SUBSET Filter
    OBVIOUS
  <2> HIDE DEF right
  <2> QED BY <2>2, <2>3, FilterInduction
<1>13. Made(object, relation, path) \in V
  BY <1>1, <1>12
<1> QED BY <1>11, <1>13 DEF V

-----------------------------------------------------------------------------
(* Filters: TypeORM, the joins of a relation *)

KeyedCalls == Filter \X PlacePath
KeyedBody(relation, f, args) ==
  UNION {IF args[1][place[1]].key = relation THEN ItemPaths(ObjectAt(args[1], place), Append(args[2], place))
         ELSE IF args[1][place[1]].key \in Operator THEN f[<<ObjectAt(args[1], place), Append(args[2], place)>>]
         ELSE {} : place \in Places(args[1], DOMAIN args[1])}

\* Where an object at a path lists a relation, and where a place in it does
Keyed(relation, object, path) ==
  LET keys == CHOOSE f : f = [args \in KeyedCalls |-> KeyedBody(relation, f, args)] IN keys[<<object, path>>]
KeyedAt(relation, object, place, path) ==
  IF object[place[1]].key = relation THEN ItemPaths(ObjectAt(object, place), Append(path, place))
  ELSE IF object[place[1]].key \in Operator THEN Keyed(relation, ObjectAt(object, place), Append(path, place))
  ELSE {}

\* nestedKeys begins with the filter and an empty path.
LEMMA NestedKeysKeyed ==
  ASSUME NEW filter, NEW relation
  PROVE  NestedKeys(relation, filter) = Keyed(relation, filter, <<>>)
BY DEF NestedKeys, Keyed, KeyedCalls, KeyedBody

\* The keys of the filter of a relation are finitely many.
LEMMA ItemPathsAre ==
  ASSUME NEW object \in Filter, NEW path \in PlacePath
  PROVE  ItemPaths(object, path) \subseteq PlacePath /\ IsFiniteSet(ItemPaths(object, path))
<1> DEFINE entries == {i \in DOMAIN object : object[i].key \in Operator}
           items == IF Places(object, entries) = {} THEN {<<1, 1>>} ELSE Places(object, entries)
           paths == [item \in items |-> {Append(path, item)}]
<1>1. entries \in SUBSET DOMAIN object
  OBVIOUS
<1>2. ItemPaths(object, path) = {Append(path, item) : item \in items}
  BY DEF ItemPaths
<1> HIDE DEF entries
<1>3. IsFiniteSet(Places(object, entries)) /\ Places(object, entries) \subseteq Places(object, DOMAIN object)
  BY <1>1, PlacesOf
<1>4. Places(object, DOMAIN object) \subseteq Nat \X Nat
  BY PlaceKinds
<1>5. IsFiniteSet({<<1, 1>>})
  BY FS_Singleton
<1>6. items \subseteq Nat \X Nat /\ IsFiniteSet(items)
  BY <1>3, <1>4, <1>5
<1> HIDE DEF items
<1>7. \A item \in items : paths[item] = {Append(path, item)} /\ IsFiniteSet(paths[item])
  BY FS_Singleton
<1> HIDE DEF paths
<1>8. IsFiniteSet(UNION {paths[item] : item \in items})
  BY <1>6, <1>7, FiniteUnion
<1>9. UNION {paths[item] : item \in items} = ItemPaths(object, path)
  BY <1>2, <1>7
<1>10. \A item \in items : Append(path, item) \in PlacePath
  BY <1>6, PathsGrow
<1> QED BY <1>2, <1>8, <1>9, <1>10

\* What is listed for a place that has a relation
LEMMA KeyTyped ==
  ASSUME NEW object \in Filter, NEW place \in Places(object, DOMAIN object), object[place[1]].key \in Relation,
         NEW path \in PlacePath
  PROVE  /\ ObjectAt(object, place) \in Filter /\ Append(path, place) \in PlacePath
         /\ ItemPaths(ObjectAt(object, place), Append(path, place)) \in SUBSET PlacePath
         /\ IsFiniteSet(ItemPaths(ObjectAt(object, place), Append(path, place)))
<1>1. place \in Nat \X Nat /\ ObjectAt(object, place) \in Filter
  <2>1. "field" \notin Relation
    BY FiltersAssumption
  <2> QED BY <2>1, PlaceKinds
<1>2. Append(path, place) \in PlacePath
  BY <1>1, PathsGrow
<1> QED BY <1>1, <1>2, ItemPathsAre

\* What is listed for the item of an operator needs only what is listed for that item.
LEMMA KeyedFollows ==
  ASSUME NEW object \in Filter, NEW place \in Places(object, DOMAIN object), object[place[1]].key \in Operator,
         NEW path \in PlacePath
  PROVE  /\ ObjectAt(object, place) \in Filter /\ Append(path, place) \in PlacePath
         /\ <<ObjectAt(object, place), Append(path, place)>> \in KeyedCalls
         /\ object[place[1]] \in ToSet(object) /\ ObjectAt(object, place) \in Inner(object[place[1]])
<1>1. "field" \notin Operator
  BY DEF Operator
<1>2. ObjectAt(object, place) \in Filter /\ ObjectAt(object, place) \in Inner(object[place[1]])
      /\ object[place[1]] \in ToSet(object) /\ place \in Nat \X Nat
  BY <1>1, PlaceKinds
<1>3. Append(path, place) \in PlacePath
  BY <1>2, PathsGrow
<1> QED BY <1>2, <1>3 DEF KeyedCalls

\* What is listed for an object is what is listed for its places.
LEMMA KeyedIs ==
  ASSUME NEW relation \in Relation, NEW object \in Filter, NEW path \in PlacePath
  PROVE  /\ Keyed(relation, object, path) \subseteq PlacePath
         /\ Keyed(relation, object, path) =
              UNION {KeyedAt(relation, object, place, path) : place \in Places(object, DOMAIN object)}
<1> DEFINE D == KeyedCalls
           V == SUBSET PlacePath
           body == [f \in [D -> V] |-> [args \in D |-> KeyedBody(relation, f, args)]]
           keys == CHOOSE f : f = [args \in KeyedCalls |-> KeyedBody(relation, f, args)]
           of(f, o, p, place) ==
             IF o[place[1]].key = relation THEN ItemPaths(ObjectAt(o, place), Append(p, place))
             ELSE IF o[place[1]].key \in Operator THEN f[<<ObjectAt(o, place), Append(p, place)>>]
             ELSE {}
<1>1. \A o, p : Keyed(relation, o, p) = keys[<<o, p>>]
  BY DEF Keyed
<1>2. \A f, o, p : KeyedBody(relation, f, <<o, p>>) = UNION {of(f, o, p, place) : place \in Places(o, DOMAIN o)}
  BY DEF KeyedBody
<1>3. \A d \in D : d = <<d[1], d[2]>> /\ d[1] \in Filter /\ d[2] \in PlacePath
  BY DEF KeyedCalls
<1>4. ASSUME NEW f, NEW o \in Filter, NEW p \in PlacePath, NEW place \in Places(o, DOMAIN o),
             o[place[1]].key \in Operator => f[<<ObjectAt(o, place), Append(p, place)>>] \in V
      PROVE  of(f, o, p, place) \in V
  <2>1. o[place[1]].key = relation => ItemPaths(ObjectAt(o, place), Append(p, place)) \in V
    BY KeyTyped
  <2> QED BY <1>4, <2>1
<1>5. ASSUME NEW f \in [D -> V], NEW args \in D PROVE KeyedBody(relation, f, args) \in V
  <2>1. ASSUME NEW place \in Places(args[1], DOMAIN args[1]) PROVE of(f, args[1], args[2], place) \in V
    <3>1. args[1] \in Filter /\ args[2] \in PlacePath
      BY <1>3
    <3>2. args[1][place[1]].key \in Operator => f[<<ObjectAt(args[1], place), Append(args[2], place)>>] \in V
      BY <3>1, KeyedFollows
    <3> HIDE DEF of, V, D
    <3> QED BY <1>4, <3>1, <3>2
  <2>2. KeyedBody(relation, f, args) = UNION {of(f, args[1], args[2], place) : place \in Places(args[1], DOMAIN args[1])}
    BY DEF KeyedBody
  <2> HIDE DEF of
  <2> QED BY <2>1, <2>2
<1>6. ASSUME NEW f \in [D -> V], NEW g \in [D -> V], NEW d \in D,
             \A e \in D : (\E entry \in ToSet(d[1]) : e[1] \in Inner(entry)) => f[e] = g[e]
      PROVE  KeyedBody(relation, f, d) = KeyedBody(relation, g, d)
  <2>1. ASSUME NEW place \in Places(d[1], DOMAIN d[1]), d[1][place[1]].key \in Operator
        PROVE  f[<<ObjectAt(d[1], place), Append(d[2], place)>>] = g[<<ObjectAt(d[1], place), Append(d[2], place)>>]
    <3>1. d[1] \in Filter /\ d[2] \in PlacePath
      BY <1>3
    <3> QED BY <1>6, <2>1, <3>1, KeyedFollows
  <2> QED BY <2>1 DEF KeyedBody
<1>7. Followed(D, V, body)
  <2>1. \A f \in [D -> V] : \A d \in D : body[f][d] = KeyedBody(relation, f, d)
    OBVIOUS
  <2>2. body \in [[D -> V] -> [D -> V]]
    BY <1>5
  <2>3. \A d \in D : d[1] \in Filter
    BY <1>3
  <2> HIDE DEF body, D, V
  <2>4. \A f, g \in [D -> V] : \A d \in D :
          (\A e \in D : (\E entry \in ToSet(d[1]) : e[1] \in Inner(entry)) => f[e] = g[e]) => body[f][d] = body[g][d]
    BY <1>6, <2>1
  <2> QED BY <2>2, <2>3, <2>4 DEF Followed
<1> DEFINE start == [d \in D |-> {}]
<1>8. start \in [D -> V] /\ \A f \in [D -> V] : body[f] = [args \in KeyedCalls |-> KeyedBody(relation, f, args)]
  OBVIOUS
<1> HIDE DEF body, start, V
<1>9. \E f \in [D -> V] : f = body[f]
  <2> HIDE DEF D
  <2> QED BY <1>7, <1>8, FiltersFollowed
<1>10. \E f \in [D -> V] : f = [args \in KeyedCalls |-> KeyedBody(relation, f, args)]
  BY <1>8, <1>9
<1>11. keys = [args \in KeyedCalls |-> KeyedBody(relation, keys, args)]
  BY <1>10
<1> HIDE DEF keys, of
<1>12. ASSUME NEW o \in Filter, NEW p \in PlacePath
       PROVE  keys[<<o, p>>] = UNION {of(keys, o, p, place) : place \in Places(o, DOMAIN o)}
  <2>1. <<o, p>> \in KeyedCalls
    BY DEF KeyedCalls
  <2>2. keys[<<o, p>>] = KeyedBody(relation, keys, <<o, p>>)
    BY <1>11, <2>1
  <2> QED BY <1>2, <2>2
<1>13. Keyed(relation, object, path) =
         UNION {KeyedAt(relation, object, place, path) : place \in Places(object, DOMAIN object)}
  <2>1. \A place : KeyedAt(relation, object, place, path) = of(keys, object, path, place)
    BY <1>1 DEF KeyedAt, of
  <2>2. Keyed(relation, object, path) = UNION {of(keys, object, path, place) : place \in Places(object, DOMAIN object)}
    BY <1>1, <1>12
  <2> QED BY <2>1, <2>2
<1> DEFINE right == {g \in Filter : \A p \in PlacePath : keys[<<g, p>>] \in V}
<1>14. right = Filter
  <2>1. ASSUME NEW g \in Filter, \A entry \in ToSet(g) : Inner(entry) \subseteq right, NEW p \in PlacePath
        PROVE  keys[<<g, p>>] \in V
    <3>1. ASSUME NEW place \in Places(g, DOMAIN g) PROVE of(keys, g, p, place) \in V
      <4>1. g[place[1]].key \in Operator => keys[<<ObjectAt(g, place), Append(p, place)>>] \in V
        BY <2>1, KeyedFollows
      <4> QED BY <1>4, <4>1
    <3> QED BY <1>12, <3>1 DEF V
  <2>2. Carried(right)
    <3>1. ASSUME NEW g \in Filter, \A entry \in ToSet(g) : Inner(entry) \subseteq right PROVE g \in right
      BY <2>1, <3>1
    <3> HIDE DEF right
    <3> QED BY <3>1 DEF Carried
  <2>3. right \in SUBSET Filter
    OBVIOUS
  <2> HIDE DEF right
  <2> QED BY <2>2, <2>3, FilterInduction
<1>15. Keyed(relation, object, path) \in V
  BY <1>1, <1>14
<1> QED BY <1>13, <1>15 DEF V

-----------------------------------------------------------------------------
(* Filters: TypeORM, the where clause *)

TruthCalls == Filter \X BOOLEAN \X PlacePath
TruthBody(f, holding, unknown, args) ==
  LET result == Sql(Terms(args[1], DOMAIN args[1], args[2], args[3], f, holding, unknown), Ors(args[1]))
  IN IF args[2] THEN 2 - result ELSE result

\* The truth of an object, negated or not, at a path; of a place in it; and of some entries of it
Truths(holding, unknown) == CHOOSE f : f = [args \in TruthCalls |-> TruthBody(f, holding, unknown, args)]
Truth(object, negated, path, holding, unknown) == Truths(holding, unknown)[<<object, negated, path>>]
TermAt(object, place, negated, path, holding, unknown) ==
  LET key == object[place[1]].key
      at == Append(path, place)
  IN IF key = "field" THEN IF at \in unknown THEN 1 ELSE IF at \in holding THEN 2 ELSE 0
     ELSE Truth(ObjectAt(object, place), IF key \in Operator THEN key = "_nor" ELSE negated, at, holding, unknown)
Bracket(object, entries, negated, path, holding, unknown) ==
  Sql([place \in Places(object, entries) |-> TermAt(object, place, negated, path, holding, unknown)], Ors(object))

\* The brackets of WhereHolds
LEMMA BracketIs ==
  ASSUME NEW object, NEW entries, NEW negated, NEW path, NEW holding, NEW unknown
  PROVE  Sql(Terms(object, entries, negated, path, Truths(holding, unknown), holding, unknown), Ors(object)) =
           Bracket(object, entries, negated, path, holding, unknown)
BY DEF Terms, Bracket, TermAt, Truth

\* The where clause is true when its brackets are.
LEMMA WhereHoldsIs ==
  ASSUME NEW filter, NEW holding, NEW unknown
  PROVE  WhereHolds(filter, holding, unknown) <=>
           \A entries \in Apart(filter) : Bracket(filter, entries, FALSE, <<>>, holding, unknown) = 2
<1>1. WhereHolds(filter, holding, unknown) <=>
        \A entries \in Apart(filter) :
          Sql(Terms(filter, entries, FALSE, <<>>, Truths(holding, unknown), holding, unknown), Ors(filter)) = 2
  BY DEF WhereHolds, Truths, TruthCalls, TruthBody
<1> QED BY <1>1, BracketIs

\* The values of SQL, and their negations
LEMMA SqlTyped ==
  ASSUME NEW terms, NEW or
  PROVE  Sql(terms, or) \in {0, 1, 2} /\ 2 - Sql(terms, or) \in {0, 1, 2}
<1>1. Sql(terms, or) \in {0, 1, 2}
  BY DEF Sql
<1> HIDE DEF Sql
<1> QED BY <1>1

\* The truth of a place needs only that of the object in it.
LEMMA TruthFollows ==
  ASSUME NEW object \in Filter, NEW place \in Places(object, DOMAIN object), object[place[1]].key # "field",
         NEW negated \in BOOLEAN, NEW path \in PlacePath
  PROVE  LET next == IF object[place[1]].key \in Operator THEN object[place[1]].key = "_nor" ELSE negated
         IN /\ ObjectAt(object, place) \in Filter /\ next \in BOOLEAN /\ Append(path, place) \in PlacePath
            /\ object[place[1]] \in ToSet(object) /\ ObjectAt(object, place) \in Inner(object[place[1]])
            /\ <<ObjectAt(object, place), next, Append(path, place)>> \in TruthCalls
<1> DEFINE next == IF object[place[1]].key \in Operator THEN object[place[1]].key = "_nor" ELSE negated
<1>1. ObjectAt(object, place) \in Filter /\ ObjectAt(object, place) \in Inner(object[place[1]])
      /\ object[place[1]] \in ToSet(object) /\ place \in Nat \X Nat
  BY PlaceKinds
<1>2. Append(path, place) \in PlacePath
  BY <1>1, PathsGrow
<1>3. next \in BOOLEAN
  OBVIOUS
<1> HIDE DEF next
<1>4. <<ObjectAt(object, place), next, Append(path, place)>> \in TruthCalls
  BY <1>1, <1>2, <1>3 DEF TruthCalls
<1> QED BY <1>1, <1>2, <1>3, <1>4 DEF next

\* The truth of an object is that of its bracket, or of the negation of it.
LEMMA TruthIs ==
  ASSUME NEW object \in Filter, NEW negated \in BOOLEAN, NEW path \in PlacePath, NEW holding, NEW unknown
  PROVE  LET result == Bracket(object, DOMAIN object, negated, path, holding, unknown)
         IN /\ Truth(object, negated, path, holding, unknown) = IF negated THEN 2 - result ELSE result
            /\ result \in {0, 1, 2}
<1> DEFINE D == TruthCalls
           V == {0, 1, 2}
           Body(f, args) == TruthBody(f, holding, unknown, args)
           body == [f \in [D -> V] |-> [args \in D |-> Body(f, args)]]
           args == <<object, negated, path>>
<1>1. ASSUME NEW f \in [D -> V], NEW a \in D PROVE Body(f, a) \in V
  BY SqlTyped DEF TruthBody
<1>2. \A d \in D : d[1] \in Filter /\ d[2] \in BOOLEAN /\ d[3] \in PlacePath
  BY DEF TruthCalls
<1>3. ASSUME NEW f \in [D -> V], NEW g \in [D -> V], NEW d \in D,
             \A e \in D : (\E entry \in ToSet(d[1]) : e[1] \in Inner(entry)) => f[e] = g[e]
      PROVE  Body(f, d) = Body(g, d)
  <2> DEFINE next(place) == IF d[1][place[1]].key \in Operator THEN d[1][place[1]].key = "_nor" ELSE d[2]
  <2>1. ASSUME NEW place \in Places(d[1], DOMAIN d[1]), d[1][place[1]].key # "field"
        PROVE  f[<<ObjectAt(d[1], place), next(place), Append(d[3], place)>>] =
                 g[<<ObjectAt(d[1], place), next(place), Append(d[3], place)>>]
    <3> DEFINE e == <<ObjectAt(d[1], place), next(place), Append(d[3], place)>>
    <3>1. e \in D /\ e[1] = ObjectAt(d[1], place) /\ d[1][place[1]] \in ToSet(d[1])
          /\ ObjectAt(d[1], place) \in Inner(d[1][place[1]])
      BY <1>2, <2>1, TruthFollows
    <3> HIDE DEF e
    <3>2. f[e] = g[e]
      BY <1>3, <3>1
    <3> QED BY <3>2 DEF e
  <2>2. Terms(d[1], DOMAIN d[1], d[2], d[3], f, holding, unknown) = Terms(d[1], DOMAIN d[1], d[2], d[3], g, holding, unknown)
    BY <2>1 DEF Terms
  <2> QED BY <2>2 DEF TruthBody
<1> HIDE DEF Body
<1>4. Followed(D, V, body)
  <2>1. \A f \in [D -> V] : \A d \in D : body[f][d] = Body(f, d)
    OBVIOUS
  <2>2. body \in [[D -> V] -> [D -> V]]
    BY <1>1
  <2> HIDE DEF body, D, V
  <2>4. \A f, g \in [D -> V] : \A d \in D :
          (\A e \in D : (\E entry \in ToSet(d[1]) : e[1] \in Inner(entry)) => f[e] = g[e]) => body[f][d] = body[g][d]
    BY <1>3, <2>1
  <2> QED BY <1>2, <2>2, <2>4 DEF Followed
<1> DEFINE start == [d \in D |-> 0]
<1>5. start \in [D -> V] /\ \A f \in [D -> V] : body[f] = [a \in TruthCalls |-> Body(f, a)]
  OBVIOUS
<1> HIDE DEF body, start, V
<1>6. \E f \in [D -> V] : f = body[f]
  <2> HIDE DEF D
  <2> QED BY <1>4, <1>5, FiltersFollowed
<1>7. \E f : f = [a \in TruthCalls |-> TruthBody(f, holding, unknown, a)]
  BY <1>5, <1>6 DEF Body
<1>8. Truths(holding, unknown) = [a \in TruthCalls |-> TruthBody(Truths(holding, unknown), holding, unknown, a)]
  BY <1>7 DEF Truths
<1>9. args \in TruthCalls
  BY DEF TruthCalls
<1>10. Truth(object, negated, path, holding, unknown) = TruthBody(Truths(holding, unknown), holding, unknown, args)
  <2> DEFINE truths == Truths(holding, unknown)
  <2>1. truths = [a \in TruthCalls |-> TruthBody(truths, holding, unknown, a)]
    BY <1>8
  <2>2. Truth(object, negated, path, holding, unknown) = truths[args]
    BY DEF Truth
  <2> HIDE DEF truths, args
  <2>3. truths[args] = TruthBody(truths, holding, unknown, args)
    BY <1>9, <2>1
  <2> QED BY <2>2, <2>3 DEF truths
<1>11. Bracket(object, DOMAIN object, negated, path, holding, unknown) \in {0, 1, 2}
  BY SqlTyped DEF Bracket
<1> QED BY <1>10, <1>11, BracketIs DEF TruthBody

\* Places are in a line.
LEMMA PlacesPrecede ==
  ASSUME NEW p \in Nat \X Nat, NEW q \in Nat \X Nat
  PROVE  /\ ~Precedes(p, p)
         /\ p # q => Precedes(p, q) \/ Precedes(q, p)
         /\ ~(Precedes(p, q) /\ Precedes(q, p))
         /\ \A r \in Nat \X Nat : Precedes(p, q) /\ Precedes(q, r) => Precedes(p, r)
<1>1. p[1] \in Nat /\ p[2] \in Nat /\ q[1] \in Nat /\ q[2] \in Nat /\ p = <<p[1], p[2]>> /\ q = <<q[1], q[2]>>
  OBVIOUS
<1>2. p # q => p[1] # q[1] \/ p[2] # q[2]
  BY <1>1
<1>3. \A r \in Nat \X Nat : r[1] \in Nat /\ r[2] \in Nat
  OBVIOUS
<1> QED BY <1>1, <1>2, <1>3 DEF Precedes

\* Some places have a first.
LEMMA FirstPlace ==
  ASSUME NEW P \in SUBSET (Nat \X Nat), P # {}
  PROVE  \E p \in P : \A q \in P : ~Precedes(q, p)
<1>1. \A p \in P : p[1] \in Nat /\ p[2] \in Nat
  OBVIOUS
<1> DEFINE firsts == {p[1] : p \in P}
<1>2. firsts \in SUBSET Nat /\ firsts # {}
  BY <1>1
<1>3. PICK m \in firsts : \A k \in firsts : m <= k
  BY <1>2, LeastNumber
<1> DEFINE seconds == {p[2] : p \in {q \in P : q[1] = m}}
<1>4. seconds \in SUBSET Nat /\ seconds # {}
  BY <1>1, <1>3
<1>5. PICK n \in seconds : \A k \in seconds : n <= k
  BY <1>4, LeastNumber
<1>6. PICK p \in P : p[1] = m /\ p[2] = n
  BY <1>5
<1>7. ASSUME NEW q \in P PROVE ~Precedes(q, p)
  <2>1. m <= q[1] /\ m \in Nat /\ n \in Nat
    BY <1>2, <1>3, <1>4, <1>5
  <2>2. q[1] = m => n <= q[2]
    BY <1>5
  <2>3. q[1] \in Nat /\ q[2] \in Nat
    BY <1>1
  <2> QED BY <1>6, <2>1, <2>2, <2>3 DEF Precedes
<1> QED BY <1>7

\* Terms without OR are one alternative.
LEMMA SqlAnd ==
  ASSUME NEW terms, NEW or, NEW P \in SUBSET (Nat \X Nat), P # {}, DOMAIN terms = P, or \cap P = {}
  PROVE  Sql(terms, or) = IF \A p \in P : terms[p] = 2 THEN 2 ELSE IF \E p \in P : terms[p] = 0 THEN 0 ELSE 1
<1> DEFINE starts == {p \in P : p \in or \/ ~\E q \in P : Precedes(q, p)}
           alternative(p) == {q \in P : ~Precedes(q, p) /\ ~\E s \in starts : Precedes(p, s) /\ ~Precedes(q, s)}
<1>1. PICK first \in P : \A q \in P : ~Precedes(q, first)
  BY FirstPlace
<1>2. starts = {first}
  <2>1. \A p \in P : p # first => Precedes(first, p)
    BY <1>1, PlacesPrecede
  <2> QED BY <1>1, <2>1
<1>3. ~Precedes(first, first)
  BY PlacesPrecede
<1>4. alternative(first) = P
  BY <1>1, <1>2, <1>3
<1>5. Sql(terms, or) = CASE \E p \in starts : \A q \in alternative(p) : terms[q] = 2 -> 2
                         [] \A p \in starts : \E q \in alternative(p) : terms[q] = 0 -> 0
                         [] OTHER -> 1
  BY DEF Sql
<1> HIDE DEF starts, alternative
<1>6. (\E p \in starts : \A q \in alternative(p) : terms[q] = 2) <=> \A p \in P : terms[p] = 2
  BY <1>2, <1>4
<1>7. (\A p \in starts : \E q \in alternative(p) : terms[q] = 0) <=> \E p \in P : terms[p] = 0
  BY <1>2, <1>4
<1>8. (\A p \in P : terms[p] = 2) => ~\E p \in P : terms[p] = 0
  OBVIOUS
<1> QED BY <1>5, <1>6, <1>7, <1>8

\* Terms that all have OR are alternatives.
LEMMA SqlOr ==
  ASSUME NEW terms, NEW or, NEW P \in SUBSET (Nat \X Nat), P # {}, DOMAIN terms = P, P \subseteq or
  PROVE  Sql(terms, or) = IF \E p \in P : terms[p] = 2 THEN 2 ELSE IF \A p \in P : terms[p] = 0 THEN 0 ELSE 1
<1> DEFINE starts == {p \in P : p \in or \/ ~\E q \in P : Precedes(q, p)}
           alternative(p) == {q \in P : ~Precedes(q, p) /\ ~\E s \in starts : Precedes(p, s) /\ ~Precedes(q, s)}
<1>1. starts = P
  OBVIOUS
<1>2. ASSUME NEW p \in P PROVE alternative(p) = {p}
  <2>1. ~Precedes(p, p) /\ \A q \in P : ~(Precedes(p, q) /\ Precedes(q, p))
    BY PlacesPrecede
  <2>2. \A q \in P : q # p /\ ~Precedes(q, p) => Precedes(p, q) /\ ~Precedes(q, q)
    BY PlacesPrecede
  <2> QED BY <1>1, <2>1, <2>2
<1>3. Sql(terms, or) = CASE \E p \in starts : \A q \in alternative(p) : terms[q] = 2 -> 2
                         [] \A p \in starts : \E q \in alternative(p) : terms[q] = 0 -> 0
                         [] OTHER -> 1
  BY DEF Sql
<1> HIDE DEF starts, alternative
<1>4. (\E p \in starts : \A q \in alternative(p) : terms[q] = 2) <=> \E p \in P : terms[p] = 2
  BY <1>1, <1>2
<1>5. (\A p \in starts : \E q \in alternative(p) : terms[q] = 0) <=> \A p \in P : terms[p] = 0
  BY <1>1, <1>2
<1>6. (\E p \in P : terms[p] = 2) => ~\A p \in P : terms[p] = 0
  OBVIOUS
<1> QED BY <1>3, <1>4, <1>5, <1>6

\* Brackets of entries without _or and _nor, and of those alone
LEMMA Brackets ==
  ASSUME NEW object \in Filter, NEW entries \in SUBSET DOMAIN object, entries # {},
         NEW negated, NEW path, NEW holding, NEW unknown
  PROVE  LET P == Places(object, entries)
             term(p) == TermAt(object, p, negated, path, holding, unknown)
             result == Bracket(object, entries, negated, path, holding, unknown)
         IN /\ (\A i \in entries : object[i].key \notin {"_or", "_nor"}) =>
                 result = IF \A p \in P : term(p) = 2 THEN 2 ELSE IF \E p \in P : term(p) = 0 THEN 0 ELSE 1
            /\ (\A i \in entries : object[i].key \in {"_or", "_nor"}) =>
                 result = IF \E p \in P : term(p) = 2 THEN 2 ELSE IF \A p \in P : term(p) = 0 THEN 0 ELSE 1
<1> DEFINE P == Places(object, entries)
           term(p) == TermAt(object, p, negated, path, holding, unknown)
           terms == [p \in P |-> term(p)]
           result == Bracket(object, entries, negated, path, holding, unknown)
           or == Ors(object)
<1>1. result = Sql(terms, or)
  BY DEF Bracket
<1>2. P = {place \in Places(object, DOMAIN object) : place[1] \in entries} /\ P # {}
  <2>1. PICK i \in entries : TRUE
    OBVIOUS
  <2>2. <<i, 1>> \in P
    BY PlacesOf
  <2>3. P = {place \in Places(object, DOMAIN object) : place[1] \in entries}
    BY PlacesOf
  <2> QED BY <2>2, <2>3
<1>3. P \in SUBSET (Nat \X Nat)
  BY <1>2, PlaceKinds
<1>4. DOMAIN terms = P /\ \A p \in P : terms[p] = term(p)
  OBVIOUS
<1>5. \A p \in P : p \in or <=> object[p[1]].key \in {"_or", "_nor"}
  BY <1>2 DEF Ors
<1>6. \A p \in P : p[1] \in entries
  BY <1>2
<1> HIDE DEF P, terms, term, result, or
<1>7. (\A i \in entries : object[i].key \notin {"_or", "_nor"}) => or \cap P = {}
  BY <1>5, <1>6
<1>8. (\A i \in entries : object[i].key \in {"_or", "_nor"}) => P \subseteq or
  BY <1>5, <1>6
<1>9. or \cap P = {} =>
        result = IF \A p \in P : terms[p] = 2 THEN 2 ELSE IF \E p \in P : terms[p] = 0 THEN 0 ELSE 1
  BY <1>1, <1>2, <1>3, <1>4, SqlAnd
<1>10. P \subseteq or =>
         result = IF \E p \in P : terms[p] = 2 THEN 2 ELSE IF \A p \in P : terms[p] = 0 THEN 0 ELSE 1
  BY <1>1, <1>2, <1>3, <1>4, SqlOr
<1>11. (\A i \in entries : object[i].key \notin {"_or", "_nor"}) =>
         result = IF \A p \in P : term(p) = 2 THEN 2 ELSE IF \E p \in P : term(p) = 0 THEN 0 ELSE 1
  BY <1>4, <1>7, <1>9
<1>12. (\A i \in entries : object[i].key \in {"_or", "_nor"}) =>
         result = IF \E p \in P : term(p) = 2 THEN 2 ELSE IF \A p \in P : term(p) = 0 THEN 0 ELSE 1
  BY <1>4, <1>8, <1>10
<1> QED BY <1>11, <1>12 DEF P, term, result

-----------------------------------------------------------------------------
(* Filters: TypeORM, filters without exceptions *)

\* What FiltersKeepTheirMeaning asks of the entries and the objects of a filter
Exactly(filter) ==
  \A object \in Objects(filter) :
    ~Mixed(object) /\ \A entry \in ToSet(object) : ~Multiple(entry) /\ ~Inexact(entry)
Plain(filter) == \A object \in Objects(filter) : \A entry \in ToSet(object) : entry.key \notin Relation

\* What holds for all objects in a filter holds for those in its entries.
LEMMA ExactInside ==
  ASSUME NEW filter \in Filter, NEW entry \in ToSet(filter), NEW inner \in Inner(entry)
  PROVE  /\ Exactly(filter) => Exactly(inner) /\ ~Mixed(filter) /\ ~Multiple(entry) /\ ~Inexact(entry)
         /\ Plain(filter) => Plain(inner) /\ entry.key \notin Relation
<1>1. filter \in Objects(filter) /\ \A object \in Objects(inner) : object \in Objects(filter)
  BY ObjectsOf
<1> QED BY <1>1 DEF Exactly, Plain

\* No entry in the filter has a relation.
LEMMA PlainIs ==
  ASSUME NEW filter \in Filter
  PROVE  Plain(filter) <=> Keys(Objects(filter)) \cap Relation = {}
BY DEF Plain, Keys, EntriesOf

\* A filter in a filter is another one.
LEMMA InnerIsOther ==
  ASSUME NEW filter \in Filter, NEW entry \in ToSet(filter), NEW inner \in Inner(entry), NEW object \in Objects(inner)
  PROVE  object # filter
<1> DEFINE right == {f \in Filter : \A o \in Objects(f) : Depth[o] <= Depth[f]}
<1>1. Depth \in [Filter -> Nat]
  BY FiltersAssumption
<1>2. ASSUME NEW f \in Filter, \A e \in ToSet(f) : Inner(e) \subseteq right, NEW o \in Objects(f) PROVE Depth[o] <= Depth[f]
  <2>1. CASE o = f
    BY <1>1, <2>1
  <2>2. CASE o # f
    <3>1. PICK e \in ToSet(f) : \E g \in Inner(e) : o \in Objects(g)
      BY <2>2, ObjectsOf
    <3>2. PICK g \in Inner(e) : o \in Objects(g)
      BY <3>1
    <3>3. g \in Filter /\ Depth[g] < Depth[f] /\ g \in right
      BY <1>2, EntryKinds
    <3>4. o \in Filter /\ Depth[o] <= Depth[g]
      BY <3>2, <3>3, ObjectsOf
    <3>5. Depth[o] \in Nat /\ Depth[g] \in Nat /\ Depth[f] \in Nat
      BY <1>1, <3>3, <3>4
    <3> QED BY <3>3, <3>4, <3>5
  <2> QED BY <2>1, <2>2
<1>3. Carried(right)
  <2>1. ASSUME NEW f \in Filter, \A e \in ToSet(f) : Inner(e) \subseteq right PROVE f \in right
    BY <1>2, <2>1
  <2> HIDE DEF right
  <2> QED BY <2>1 DEF Carried
<1>4. right \in SUBSET Filter
  OBVIOUS
<1>5. right = Filter
  <2> HIDE DEF right
  <2> QED BY <1>3, <1>4, FilterInduction
<1>6. inner \in Filter /\ Depth[inner] < Depth[filter]
  BY EntryKinds
<1>7. object \in Filter /\ Depth[object] <= Depth[inner]
  BY <1>5, <1>6, ObjectsOf
<1>8. Depth[object] \in Nat /\ Depth[inner] \in Nat /\ Depth[filter] \in Nat
  BY <1>1, <1>6, <1>7
<1> QED BY <1>6, <1>7, <1>8

\* What a place means
PlaceMeans(object, place, field, related) ==
  LET entry == object[place[1]]
  IN IF entry.key \in Operator
       THEN IF entry.key = "_nor" THEN ~Matches(ObjectAt(object, place), field, related)
            ELSE Matches(ObjectAt(object, place), field, related)
       ELSE Means(entry, field, related)

\* An entry means what all of its places mean, or what some of them do.
LEMMA EntryByPlaces ==
  ASSUME NEW object \in Filter, NEW i \in DOMAIN object, ~Inexact(object[i]), NEW field, NEW related
  PROVE  LET P == Places(object, {i})
             means == Means(object[i], field, related)
         IN /\ object[i].key \notin {"_or", "_nor"} => (means <=> \A p \in P : PlaceMeans(object, p, field, related))
            /\ object[i].key \in {"_or", "_nor"} => (means <=> \E p \in P : PlaceMeans(object, p, field, related))
<1> DEFINE P == Places(object, {i})
           entry == object[i]
           means == Means(entry, field, related)
<1>1. entry \in ToSet(object) /\ {i} \in SUBSET DOMAIN object
  BY FilterSequence
<1>2. P = {place \in Places(object, DOMAIN object) : place[1] = i} /\ <<i, 1>> \in P
  <2>1. P = {place \in Places(object, DOMAIN object) : place[1] \in {i}} /\ \A j \in {i} : <<j, 1>> \in P
    BY <1>1, PlacesOf
  <2> QED BY <2>1
<1>3. CASE entry.key \notin Operator
  <2>1. \A p \in P : PlaceMeans(object, p, field, related) <=> means
    BY <1>2, <1>3 DEF PlaceMeans
  <2> QED BY <1>2, <1>3, <2>1 DEF Operator
<1>4. CASE entry.key \in Operator
  <2> DEFINE match(item) == Matches(item, field, related)
  <2>1. \A p \in P : ObjectAt(object, p) \in ToSet(entry.items)
    <3>1. Relation \cap Operator = {} /\ "field" \notin Operator
      BY FiltersAssumption DEF Operator
    <3> QED BY <1>2, <1>4, <3>1, PlaceKinds
  <2>2. \A item \in ToSet(entry.items) : \E p \in P : ObjectAt(object, p) = item
    <3>1. \A j \in {i} : object[j].key \in Operator =>
            \A item \in ToSet(object[j].items) :
              \E n \in DOMAIN object[j].items : <<j, n>> \in P /\ ObjectAt(object, <<j, n>>) = item
      BY <1>1, PlacesOf
    <3> QED BY <1>4, <3>1
  <2>3. \A p \in P : PlaceMeans(object, p, field, related) <=>
          IF entry.key = "_nor" THEN ~match(ObjectAt(object, p)) ELSE match(ObjectAt(object, p))
    BY <1>2, <1>4 DEF PlaceMeans
  <2>4. CASE entry.key = "_and"
    <3>1. means <=> \A item \in ToSet(entry.items) : match(item)
      BY <2>4 DEF Means
    <3> QED BY <2>1, <2>2, <2>3, <2>4, <3>1
  <2>5. CASE entry.key = "_or"
    <3>1. means <=> \E item \in ToSet(entry.items) : match(item)
      BY <2>5 DEF Means
    <3> QED BY <2>1, <2>2, <2>3, <2>5, <3>1
  <2>6. CASE entry.key = "_nor"
    <3>1. means <=> ~\E item \in ToSet(entry.items) : match(item)
      BY <2>6 DEF Means
    <3>2. \E only : ToSet(entry.items) = {only}
      <4>1. Relation \cap Operator = {} /\ "field" \notin Operator
        BY FiltersAssumption DEF Operator
      <4>2. entry.items \in Seq(Filter) /\ Len(entry.items) \in Nat \ {0}
        BY <1>1, <1>4, <4>1, EntryKinds
      <4>3. ~(Len(entry.items) > 1)
        BY <2>6 DEF Inexact
      <4>4. DOMAIN entry.items = 1 .. Len(entry.items)
        BY <4>2, LenProperties
      <4> DEFINE n == Len(entry.items)
      <4>5. n \in Nat \ {0} /\ ~(n > 1)
        BY <4>2, <4>3
      <4> HIDE DEF n
      <4>6. n = 1
        BY <4>5
      <4>7. DOMAIN entry.items = {1}
        BY <4>4, <4>6 DEF n
      <4>8. ToSet(entry.items) = {entry.items[1]}
        BY <4>7 DEF ToSet
      <4> QED BY <4>8
    <3> QED BY <2>1, <2>2, <2>3, <2>6, <3>1, <3>2
  <2> QED BY <1>4, <2>4, <2>5, <2>6 DEF Operator
<1> QED BY <1>3, <1>4

\* The entries that are in the same brackets
Bracketed(object, entries) ==
  /\ entries \in SUBSET DOMAIN object /\ entries # {}
  /\ \A i \in entries : ~Inexact(object[i])
  /\ (\E i : entries = {i}) \/ \A i \in entries : object[i].key \notin {"_or", "_nor"}

\* Their places are true only when they mean so, or whenever they do; and all of the entries mean so.
TermsSound(object, entries, negated, path, holding, unknown, field, related) ==
  \A p \in Places(object, entries) :
    TermAt(object, p, negated, path, holding, unknown) = 2 => PlaceMeans(object, p, field, related)
TermsComplete(object, entries, negated, path, holding, unknown, field, related) ==
  \A p \in Places(object, entries) :
    PlaceMeans(object, p, field, related) => TermAt(object, p, negated, path, holding, unknown) = 2
EntriesMean(object, entries, field, related) == \A i \in entries : Means(object[i], field, related)

\* Brackets are true when their entries mean so, as their places are true when they mean so.
LEMMA BracketMeans ==
  ASSUME NEW object \in Filter, NEW entries, Bracketed(object, entries),
         NEW path, NEW negated, NEW holding, NEW unknown, NEW field, NEW related
  PROVE  LET result == Bracket(object, entries, negated, path, holding, unknown)
             means == EntriesMean(object, entries, field, related)
         IN /\ TermsSound(object, entries, negated, path, holding, unknown, field, related) => (result = 2 => means)
            /\ TermsComplete(object, entries, negated, path, holding, unknown, field, related) => (means => result = 2)
            /\ (\A p \in Places(object, entries) : TermAt(object, p, negated, path, holding, unknown) \in {0, 2})
                 => result \in {0, 2}
<1> DEFINE P == Places(object, entries)
           of(i) == Places(object, {i})
           place(p) == PlaceMeans(object, p, field, related)
           term(p) == TermAt(object, p, negated, path, holding, unknown)
           result == Bracket(object, entries, negated, path, holding, unknown)
           means(i) == Means(object[i], field, related)
           or(i) == object[i].key \in {"_or", "_nor"}
<1>1. entries \in SUBSET DOMAIN object /\ entries # {} /\ \A i \in entries : ~Inexact(object[i])
  BY DEF Bracketed
<1>2. P = {p \in Places(object, DOMAIN object) : p[1] \in entries} /\ \A i \in entries : <<i, 1>> \in P
  BY <1>1, PlacesOf
<1>3. ASSUME NEW i \in entries PROVE of(i) = {p \in P : p[1] = i} /\ <<i, 1>> \in of(i)
  <2>1. {i} \in SUBSET DOMAIN object
    BY <1>1
  <2>2. of(i) = {p \in Places(object, DOMAIN object) : p[1] \in {i}} /\ \A j \in {i} : <<j, 1>> \in of(i)
    BY <2>1, PlacesOf
  <2> QED BY <1>2, <2>2
<1>4. \A p \in P : p[1] \in entries
  BY <1>2
<1>5. ASSUME NEW i \in entries
      PROVE  /\ ~or(i) => (means(i) <=> \A p \in of(i) : place(p))
             /\ or(i) => (means(i) <=> \E p \in of(i) : place(p))
  BY <1>1, EntryByPlaces
<1>6. /\ (\A i \in entries : ~or(i)) => result = IF \A p \in P : term(p) = 2 THEN 2 ELSE IF \E p \in P : term(p) = 0 THEN 0 ELSE 1
      /\ (\A i \in entries : or(i)) => result = IF \E p \in P : term(p) = 2 THEN 2 ELSE IF \A p \in P : term(p) = 0 THEN 0 ELSE 1
  BY <1>1, Brackets
<1> HIDE DEF P, of, place, term, result, means, or
<1>7. LET mean == \A i \in entries : means(i)
      IN /\ (\A p \in P : term(p) = 2 => place(p)) => (result = 2 => mean)
         /\ (\A p \in P : place(p) => term(p) = 2) => (mean => result = 2)
         /\ (\A p \in P : term(p) \in {0, 2}) => result \in {0, 2}
  <2>1. CASE \A i \in entries : ~or(i)
    <3>1. (\A i \in entries : means(i)) <=> \A p \in P : place(p)
      BY <1>3, <1>4, <1>5, <2>1
    <3>2. result = IF \A p \in P : term(p) = 2 THEN 2 ELSE IF \E p \in P : term(p) = 0 THEN 0 ELSE 1
      BY <1>6, <2>1
    <3> QED BY <3>1, <3>2
  <2>2. CASE ~\A i \in entries : ~or(i)
    <3>1. PICK i : entries = {i} /\ or(i)
      BY <2>2 DEF Bracketed, or
    <3>2. means(i) <=> \E p \in P : place(p)
      BY <1>3, <1>4, <1>5, <3>1
    <3>3. result = IF \E p \in P : term(p) = 2 THEN 2 ELSE IF \A p \in P : term(p) = 0 THEN 0 ELSE 1
      BY <1>6, <3>1
    <3>4. \E p \in P : TRUE
      BY <1>2, <3>1
    <3>5. (\A k \in entries : means(k)) <=> means(i)
      BY <3>1
    <3> QED BY <3>2, <3>3, <3>4, <3>5
  <2> QED BY <2>1, <2>2
<1> QED BY <1>7 DEF TermsSound, TermsComplete, EntriesMean, P, place, term, result, means

\* All entries of an object that is not mixed are in the same brackets.
LEMMA AllBracketed ==
  ASSUME NEW object \in Filter, \A entry \in ToSet(object) : ~Inexact(entry), ~Mixed(object)
  PROVE  Bracketed(object, DOMAIN object)
<1> DEFINE n == Len(object)
<1>1. n \in Nat \ {0} /\ DOMAIN object = 1 .. n /\ \A i \in DOMAIN object : object[i] \in ToSet(object)
  BY FilterSequence
<1>2. n > 1 => \A i \in DOMAIN object : object[i].key \notin {"_or", "_nor"}
  BY <1>1 DEF Mixed, Keys, EntriesOf
<1> HIDE DEF n
<1>3. ~(n > 1) => DOMAIN object = {1}
  BY <1>1
<1>4. DOMAIN object # {}
  BY <1>1
<1> QED BY <1>1, <1>2, <1>3, <1>4 DEF Bracketed

-----------------------------------------------------------------------------
(* Filters: TypeORM, filters on one document *)

Status(path, holding, unknown) == IF path \in unknown THEN 1 ELSE IF path \in holding THEN 2 ELSE 0
Told(s, x) == IF x = Null THEN 1 ELSE IF Holds(s.op, x, s.value) THEN 2 ELSE 0

\* Statements are about a value, and as it makes them.
Shows(statements, x, holding, unknown) == \A s \in statements : Status(s.path, holding, unknown) = Told(s, x)
PlainRight(filter, x, related, holding, unknown) ==
  \A relation \in Relation \cup {Null}, path \in PlacePath, negated \in BOOLEAN :
    Shows(Made(filter, relation, path), x, holding, unknown) =>
      Truth(filter, negated, path, holding, unknown) = IF Matches(filter, x, related) <=> negated THEN 0 ELSE 2

\* The truth of a place is what it means.
LEMMA PlainPlace ==
  ASSUME NEW object \in Filter, NEW place \in Places(object, DOMAIN object), object[place[1]].key \notin Relation,
         NEW relation \in Relation \cup {Null}, NEW path \in PlacePath, NEW negated \in BOOLEAN,
         NEW x \in Value, NEW related \in Related, NEW holding, NEW unknown,
         Shows(MadeAt(object, place, relation, path), x, holding, unknown),
         object[place[1]].key \in Operator => PlainRight(ObjectAt(object, place), x, related, holding, unknown)
  PROVE  TermAt(object, place, negated, path, holding, unknown) = IF PlaceMeans(object, place, x, related) THEN 2 ELSE 0
<1> DEFINE entry == object[place[1]]
           at == Append(path, place)
           inner == ObjectAt(object, place)
<1>1. place \in Nat \X Nat /\ entry \in ToSet(object) /\ at \in PlacePath
  BY PlaceKinds, PathsGrow
<1>2. Null \notin Value /\ "field" \notin Operator
  BY FiltersAssumption DEF Operator
<1>3. CASE entry.key = "field"
  <2> DEFINE s == StatementAt(object, place, relation, path)
  <2>1. MadeAt(object, place, relation, path) = {s}
    BY <1>3 DEF MadeAt
  <2>2. s.path = at /\ s.op = entry.op /\ s.value = entry.value
    BY DEF StatementAt
  <2> HIDE DEF s
  <2>3. Status(s.path, holding, unknown) = Told(s, x)
    BY <2>1 DEF Shows
  <2>4. Status(at, holding, unknown) = IF Holds(entry.op, x, entry.value) THEN 2 ELSE 0
    BY <1>2, <2>2, <2>3 DEF Told
  <2>5. TermAt(object, place, negated, path, holding, unknown) = Status(at, holding, unknown)
    BY <1>3 DEF TermAt, Status
  <2>6. PlaceMeans(object, place, x, related) <=> Holds(entry.op, x, entry.value)
    BY <1>2, <1>3 DEF PlaceMeans, Means
  <2> QED BY <2>4, <2>5, <2>6
<1>4. CASE entry.key \in Operator
  <2>1. entry.key # "field" /\ inner \in Filter
    BY <1>2, <1>4, PlaceKinds
  <2>2. RelationAt(object, place, relation) = relation
    BY <1>4, FiltersAssumption DEF RelationAt
  <2>3. Shows(Made(inner, relation, at), x, holding, unknown)
    BY <2>1, <2>2 DEF MadeAt
  <2> DEFINE next == entry.key = "_nor"
  <2>4. Truth(inner, next, at, holding, unknown) = IF Matches(inner, x, related) <=> next THEN 0 ELSE 2
    <3>1. next \in BOOLEAN
      OBVIOUS
    <3> HIDE DEF next, at, inner
    <3>2. PlainRight(inner, x, related, holding, unknown)
      BY <1>4 DEF inner
    <3> QED BY <1>1, <2>3, <3>1, <3>2 DEF PlainRight
  <2>5. TermAt(object, place, negated, path, holding, unknown) = Truth(inner, next, at, holding, unknown)
    BY <1>4, <2>1 DEF TermAt
  <2>6. PlaceMeans(object, place, x, related) <=> IF next THEN ~Matches(inner, x, related) ELSE Matches(inner, x, related)
    BY <1>4 DEF PlaceMeans
  <2>7. Matches(inner, x, related) \in BOOLEAN
    BY <2>1, MatchesMeans
  <2> HIDE DEF next
  <2> QED BY <2>4, <2>5, <2>6, <2>7
<1> QED BY <1>1, <1>3, <1>4, EntryKinds

\* The truth of a filter without relations is what it means for the value shown.
LEMMA PlainTruth ==
  ASSUME NEW filter \in Filter, Exactly(filter), Plain(filter),
         NEW x \in Value, NEW related \in Related, NEW holding, NEW unknown
  PROVE  PlainRight(filter, x, related, holding, unknown)
<1> DEFINE right == {f \in Filter : Exactly(f) /\ Plain(f) => PlainRight(f, x, related, holding, unknown)}
<1>1. ASSUME NEW f \in Filter, \A entry \in ToSet(f) : Inner(entry) \subseteq right, Exactly(f), Plain(f)
      PROVE  PlainRight(f, x, related, holding, unknown)
  <2>1. SUFFICES ASSUME NEW relation \in Relation \cup {Null}, NEW path \in PlacePath, NEW negated \in BOOLEAN,
                        Shows(Made(f, relation, path), x, holding, unknown)
                 PROVE  Truth(f, negated, path, holding, unknown) = IF Matches(f, x, related) <=> negated THEN 0 ELSE 2
    BY DEF PlainRight
  <2> DEFINE result == Bracket(f, DOMAIN f, negated, path, holding, unknown)
             term(p) == TermAt(f, p, negated, path, holding, unknown)
             P == Places(f, DOMAIN f)
  <2>2. f \in Objects(f) /\ ~Mixed(f) /\ \A entry \in ToSet(f) : ~Inexact(entry) /\ entry.key \notin Relation
    BY <1>1, ObjectsOf DEF Exactly, Plain
  <2>3. ASSUME NEW p \in P PROVE term(p) = IF PlaceMeans(f, p, x, related) THEN 2 ELSE 0
    <3>1. f[p[1]] \in ToSet(f)
      BY PlaceKinds
    <3>2. Shows(MadeAt(f, p, relation, path), x, holding, unknown)
      BY <2>1, MadeIs DEF Shows
    <3>3. f[p[1]].key \in Operator => PlainRight(ObjectAt(f, p), x, related, holding, unknown)
      <4>1. SUFFICES ASSUME f[p[1]].key \in Operator PROVE PlainRight(ObjectAt(f, p), x, related, holding, unknown)
        OBVIOUS
      <4>2. ObjectAt(f, p) \in Inner(f[p[1]])
        BY <4>1, PlaceKinds DEF Operator
      <4>3. Exactly(ObjectAt(f, p)) /\ Plain(ObjectAt(f, p))
        BY <1>1, <3>1, <4>2, ExactInside
      <4> QED BY <1>1, <3>1, <4>2, <4>3
    <3> QED BY <2>1, <2>2, <3>1, <3>2, <3>3, PlainPlace
  <2>4. Bracketed(f, DOMAIN f)
    BY <2>2, AllBracketed
  <2> DEFINE sound == TermsSound(f, DOMAIN f, negated, path, holding, unknown, x, related)
             complete == TermsComplete(f, DOMAIN f, negated, path, holding, unknown, x, related)
             mean == EntriesMean(f, DOMAIN f, x, related)
  <2>5. /\ sound => (result = 2 => mean)
        /\ complete => (mean => result = 2)
        /\ (\A p \in P : term(p) \in {0, 2}) => result \in {0, 2}
    BY <2>4, BracketMeans
  <2>6. Truth(f, negated, path, holding, unknown) = IF negated THEN 2 - result ELSE result
    BY TruthIs
  <2>7. Matches(f, x, related) \in BOOLEAN /\ (Matches(f, x, related) <=> mean)
    BY MatchesMeans, FilterSequence DEF EntriesMean
  <2>8. sound /\ complete
    BY <2>3 DEF TermsSound, TermsComplete
  <2> HIDE DEF result, term, P, sound, complete, mean
  <2>9. result \in {0, 2} /\ (result = 2 <=> Matches(f, x, related))
    BY <2>3, <2>5, <2>7, <2>8
  <2> QED BY <2>6, <2>7, <2>9
<1>2. Carried(right)
  <2>1. ASSUME NEW f \in Filter, \A entry \in ToSet(f) : Inner(entry) \subseteq right PROVE f \in right
    BY <1>1, <2>1
  <2> HIDE DEF right
  <2> QED BY <2>1 DEF Carried
<1>3. right \in SUBSET Filter
  OBVIOUS
<1>4. right = Filter
  <2> HIDE DEF right
  <2> QED BY <1>2, <1>3, FilterInduction
<1> QED BY <1>4

\* The statements of a filter without relations are of the relation that it is for.
LEMMA PlainStatements ==
  ASSUME NEW filter \in Filter, Plain(filter), NEW relation \in Relation \cup {Null}, NEW path \in PlacePath,
         NEW s \in Made(filter, relation, path)
  PROVE  s.relation = relation
<1> DEFINE right == {f \in Filter : Plain(f) => \A p \in PlacePath : \A t \in Made(f, relation, p) : t.relation = relation}
<1>1. ASSUME NEW f \in Filter, \A entry \in ToSet(f) : Inner(entry) \subseteq right, Plain(f),
             NEW p \in PlacePath, NEW t \in Made(f, relation, p)
      PROVE  t.relation = relation
  <2>1. PICK place \in Places(f, DOMAIN f) : t \in MadeAt(f, place, relation, p)
    BY MadeIs
  <2>2. f[place[1]] \in ToSet(f) /\ place \in Nat \X Nat
    BY PlaceKinds
  <2>3. f[place[1]].key \notin Relation
    BY <1>1, <2>2, ObjectsOf DEF Plain
  <2>4. CASE f[place[1]].key = "field"
    BY <2>1, <2>4 DEF MadeAt, StatementAt
  <2>5. CASE f[place[1]].key # "field"
    <3>1. ObjectAt(f, place) \in Inner(f[place[1]]) /\ RelationAt(f, place, relation) = relation
      BY <2>3, <2>5, PlaceKinds DEF RelationAt
    <3>2. Plain(ObjectAt(f, place)) /\ ObjectAt(f, place) \in right
      BY <1>1, <2>2, <3>1, ExactInside
    <3>3. t \in Made(ObjectAt(f, place), relation, Append(p, place))
      BY <2>1, <2>5, <3>1 DEF MadeAt
    <3>4. Append(p, place) \in PlacePath
      BY <2>2, PathsGrow
    <3> QED BY <3>2, <3>3, <3>4
  <2> QED BY <2>4, <2>5
<1>2. Carried(right)
  <2>1. ASSUME NEW f \in Filter, \A entry \in ToSet(f) : Inner(entry) \subseteq right PROVE f \in right
    BY <1>1, <2>1
  <2> HIDE DEF right
  <2> QED BY <2>1 DEF Carried
<1>3. right \in SUBSET Filter
  OBVIOUS
<1>4. right = Filter
  <2> HIDE DEF right
  <2> QED BY <1>2, <1>3, FilterInduction
<1> QED BY <1>4

-----------------------------------------------------------------------------
(* Filters: TypeORM, the order of statements *)

From(path, at) == path \in PlacePath /\ Len(path) >= Len(at) /\ \A m \in 1 .. Len(at) : path[m] = at[m]

\* A path is a sequence of places.
LEMMA PathTyped ==
  ASSUME NEW path \in PlacePath
  PROVE  Len(path) \in Nat /\ DOMAIN path = 1 .. Len(path) /\ \A n \in DOMAIN path : path[n] \in Nat \X Nat
<1> DEFINE P == Nat \X Nat
<1>1. path \in Seq(P)
  BY DEF PlacePath
<1> HIDE DEF P
<1>2. Len(path) \in Nat /\ DOMAIN path = 1 .. Len(path) /\ \A n \in 1 .. Len(path) : path[n] \in P
  BY <1>1, LenProperties, ElementOfSeq
<1> QED BY <1>2 DEF P

\* A path from a place has that place there.
LEMMA FromAppend ==
  ASSUME NEW path \in PlacePath, NEW place \in Nat \X Nat, NEW p, From(p, Append(path, place))
  PROVE  /\ From(p, path) /\ Len(path) + 1 \in DOMAIN p /\ p[Len(path) + 1] = place
         /\ \A m \in 1 .. Len(path) : p[m] = path[m]
<1> DEFINE n == Len(path)
           at == Append(path, place)
<1>1. n \in Nat /\ Len(at) = n + 1 /\ at[n + 1] = place /\ \A m \in 1 .. n : at[m] = path[m]
  BY PathsGrow
<1>2. p \in PlacePath /\ Len(p) >= Len(at) /\ \A m \in 1 .. Len(at) : p[m] = at[m]
  BY DEF From
<1>3. Len(p) \in Nat /\ DOMAIN p = 1 .. Len(p)
  BY <1>2, PathTyped
<1> HIDE DEF n, at
<1>4. n + 1 \in 1 .. Len(at) /\ Len(p) >= n /\ n + 1 \in 1 .. Len(p) /\ \A m \in 1 .. n : m \in 1 .. Len(at)
  BY <1>1, <1>2, <1>3
<1>5. p[n + 1] = place /\ \A m \in 1 .. n : p[m] = path[m]
  BY <1>1, <1>2, <1>4
<1> QED BY <1>2, <1>3, <1>4, <1>5 DEF n, From

\* The statements of a place are at paths from it.
LEMMA MadeFrom ==
  ASSUME NEW filter \in Filter, NEW relation \in Relation \cup {Null}, NEW path \in PlacePath
  PROVE  /\ \A s \in Made(filter, relation, path) : From(s.path, path)
         /\ \A place \in Places(filter, DOMAIN filter) : \A s \in MadeAt(filter, place, relation, path) :
              From(s.path, Append(path, place))
<1> DEFINE Right(f) == \A r \in Relation \cup {Null}, p \in PlacePath : \A s \in Made(f, r, p) : From(s.path, p)
           right == {f \in Filter : Right(f)}
<1>1. ASSUME NEW f \in Filter, NEW r \in Relation \cup {Null}, NEW p \in PlacePath,
             NEW place \in Places(f, DOMAIN f), NEW s \in MadeAt(f, place, r, p),
             f[place[1]].key # "field" => Right(ObjectAt(f, place))
      PROVE  From(s.path, Append(p, place))
  <2>1. place \in Nat \X Nat /\ Append(p, place) \in PlacePath
    BY PlaceKinds, PathsGrow
  <2>2. CASE f[place[1]].key = "field"
    <3>1. s.path = Append(p, place)
      BY <2>2 DEF MadeAt, StatementAt
    <3>2. Len(Append(p, place)) \in Nat
      BY <2>1, PathTyped
    <3> QED BY <2>1, <3>1, <3>2 DEF From
  <2>3. CASE f[place[1]].key # "field"
    <3>1. RelationAt(f, place, r) \in Relation \cup {Null}
      BY DEF RelationAt
    <3>2. s \in Made(ObjectAt(f, place), RelationAt(f, place, r), Append(p, place))
      BY <2>3 DEF MadeAt
    <3> QED BY <1>1, <2>1, <2>3, <3>1, <3>2
  <2> QED BY <2>2, <2>3
<1>2. ASSUME NEW f \in Filter, \A entry \in ToSet(f) : Inner(entry) \subseteq right,
             NEW r \in Relation \cup {Null}, NEW p \in PlacePath, NEW s \in Made(f, r, p)
      PROVE  From(s.path, p)
  <2>1. PICK place \in Places(f, DOMAIN f) : s \in MadeAt(f, place, r, p)
    BY MadeIs
  <2>2. f[place[1]].key # "field" => Right(ObjectAt(f, place))
    <3>1. f[place[1]].key # "field" => f[place[1]] \in ToSet(f) /\ ObjectAt(f, place) \in Inner(f[place[1]])
      BY PlaceKinds
    <3> QED BY <1>2, <3>1
  <2>3. place \in Nat \X Nat
    BY PlaceKinds
  <2> HIDE DEF Right
  <2> QED BY <1>1, <2>1, <2>2, <2>3, FromAppend
<1>3. Carried(right)
  <2>1. ASSUME NEW f \in Filter, \A entry \in ToSet(f) : Inner(entry) \subseteq right PROVE f \in right
    BY <1>2, <2>1
  <2> HIDE DEF right
  <2> QED BY <2>1 DEF Carried
<1>4. right \in SUBSET Filter
  OBVIOUS
<1>5. right = Filter
  <2> HIDE DEF right
  <2> QED BY <1>3, <1>4, FilterInduction
<1>6. \A f \in Filter : Right(f)
  BY <1>5
<1>7. \A place \in Places(filter, DOMAIN filter) : filter[place[1]].key # "field" => ObjectAt(filter, place) \in Filter
  BY PlaceKinds
<1>8. \A s \in Made(filter, relation, path) : From(s.path, path)
  BY <1>6
<1> HIDE DEF Right
<1>9. \A place \in Places(filter, DOMAIN filter) : \A s \in MadeAt(filter, place, relation, path) :
        From(s.path, Append(path, place))
  BY <1>1, <1>6, <1>7
<1> QED BY <1>8, <1>9

\* One comes before another, or after it.
LEMMA MadeInLine ==
  ASSUME NEW filter \in Filter, NEW relation \in Relation \cup {Null}, NEW path \in PlacePath,
         NEW s \in Made(filter, relation, path), NEW t \in Made(filter, relation, path), s # t
  PROVE  Earlier(s.path, t.path) \/ Earlier(t.path, s.path)
<1> DEFINE InLine(a, b) == a # b => Earlier(a.path, b.path) \/ Earlier(b.path, a.path)
           Right(f) == \A r \in Relation \cup {Null}, p \in PlacePath : \A a, b \in Made(f, r, p) : InLine(a, b)
           right == {f \in Filter : Right(f)}
<1>1. ASSUME NEW f \in Filter, \A entry \in ToSet(f) : Inner(entry) \subseteq right,
             NEW r \in Relation \cup {Null}, NEW p \in PlacePath, NEW a \in Made(f, r, p), NEW b \in Made(f, r, p)
      PROVE  InLine(a, b)
  <2>1. PICK place \in Places(f, DOMAIN f) : a \in MadeAt(f, place, r, p)
    BY MadeIs
  <2>2. PICK other \in Places(f, DOMAIN f) : b \in MadeAt(f, other, r, p)
    BY MadeIs
  <2>3. place \in Nat \X Nat /\ other \in Nat \X Nat
    BY PlaceKinds
  <2>4. CASE place = other
    <3>1. CASE f[place[1]].key = "field"
      BY <2>1, <2>2, <2>4, <3>1 DEF MadeAt
    <3>2. CASE f[place[1]].key # "field"
      <4>1. f[place[1]] \in ToSet(f) /\ ObjectAt(f, place) \in Inner(f[place[1]])
        BY <3>2, PlaceKinds
      <4>2. Right(ObjectAt(f, place))
        BY <1>1, <4>1
      <4>3. RelationAt(f, place, r) \in Relation \cup {Null} /\ Append(p, place) \in PlacePath
        BY <2>3, PathsGrow DEF RelationAt
      <4>4. /\ a \in Made(ObjectAt(f, place), RelationAt(f, place, r), Append(p, place))
            /\ b \in Made(ObjectAt(f, place), RelationAt(f, place, r), Append(p, place))
        BY <2>1, <2>2, <2>4, <3>2 DEF MadeAt
      <4> QED BY <4>2, <4>3, <4>4
    <3> QED BY <3>1, <3>2
  <2>5. CASE place # other
    <3> DEFINE n == Len(p) + 1
    <3>1. From(a.path, Append(p, place)) /\ From(b.path, Append(p, other))
      BY <2>1, <2>2, MadeFrom
    <3>2. n \in DOMAIN a.path /\ a.path[n] = place /\ \A m \in 1 .. Len(p) : a.path[m] = p[m]
      BY <2>3, <3>1, FromAppend
    <3>3. n \in DOMAIN b.path /\ b.path[n] = other /\ \A m \in 1 .. Len(p) : b.path[m] = p[m]
      BY <2>3, <3>1, FromAppend
    <3>4. n - 1 = Len(p)
      BY PathTyped
    <3>5. Precedes(place, other) \/ Precedes(other, place)
      BY <2>3, <2>5, PlacesPrecede
    <3> HIDE DEF n
    <3> QED BY <3>2, <3>3, <3>4, <3>5 DEF Earlier
  <2> QED BY <2>4, <2>5
<1>2. Carried(right)
  <2>1. ASSUME NEW f \in Filter, \A entry \in ToSet(f) : Inner(entry) \subseteq right PROVE f \in right
    <3> HIDE DEF InLine
    <3> QED BY <1>1, <2>1
  <2> HIDE DEF right
  <2> QED BY <2>1 DEF Carried
<1>3. right \in SUBSET Filter
  OBVIOUS
<1>4. right = Filter
  <2> HIDE DEF right
  <2> QED BY <1>2, <1>3, FilterInduction
<1> QED BY <1>4

\* Being earlier is an order.
LEMMA EarlierOrders ==
  ASSUME NEW p \in PlacePath, NEW q \in PlacePath, NEW r \in PlacePath
  PROVE  ~Earlier(p, p) /\ (Earlier(p, q) /\ Earlier(q, r) => Earlier(p, r))
<1>1. /\ Len(p) \in Nat /\ DOMAIN p = 1 .. Len(p) /\ \A n \in DOMAIN p : p[n] \in Nat \X Nat
      /\ Len(q) \in Nat /\ DOMAIN q = 1 .. Len(q) /\ \A n \in DOMAIN q : q[n] \in Nat \X Nat
      /\ Len(r) \in Nat /\ DOMAIN r = 1 .. Len(r) /\ \A n \in DOMAIN r : r[n] \in Nat \X Nat
  BY PathTyped
<1>2. ~Earlier(p, p)
  BY <1>1, PlacesPrecede DEF Earlier
<1>3. ASSUME Earlier(p, q), Earlier(q, r) PROVE Earlier(p, r)
  <2>1. PICK n \in DOMAIN p \cap DOMAIN q : Precedes(p[n], q[n]) /\ \A m \in 1 .. n - 1 : p[m] = q[m]
    BY <1>3 DEF Earlier
  <2>2. PICK k \in DOMAIN q \cap DOMAIN r : Precedes(q[k], r[k]) /\ \A m \in 1 .. k - 1 : q[m] = r[m]
    BY <1>3 DEF Earlier
  <2>3. n \in Nat /\ k \in Nat /\ n \in 1 .. Len(p) /\ n \in 1 .. Len(q) /\ k \in 1 .. Len(q) /\ k \in 1 .. Len(r)
    BY <1>1
  <2>4. CASE n < k
    <3>1. n \in 1 .. k - 1 /\ n \in DOMAIN r /\ \A m \in 1 .. n - 1 : m \in 1 .. k - 1
      BY <1>1, <2>3, <2>4
    <3>2. Precedes(p[n], r[n]) /\ \A m \in 1 .. n - 1 : p[m] = r[m]
      BY <2>1, <2>2, <3>1
    <3> QED BY <3>1, <3>2 DEF Earlier
  <2>5. CASE n = k
    <3>1. p[n] \in Nat \X Nat /\ q[n] \in Nat \X Nat /\ r[n] \in Nat \X Nat
      BY <1>1, <2>3, <2>5
    <3>2. Precedes(p[n], r[n])
      BY <2>1, <2>2, <2>5, <3>1, PlacesPrecede
    <3>3. \A m \in 1 .. n - 1 : p[m] = r[m]
      BY <2>1, <2>2, <2>5
    <3> QED BY <2>5, <3>2, <3>3 DEF Earlier
  <2>6. CASE n > k
    <3>1. k \in 1 .. n - 1 /\ k \in DOMAIN p /\ \A m \in 1 .. k - 1 : m \in 1 .. n - 1
      BY <1>1, <2>3, <2>6
    <3>2. Precedes(p[k], r[k]) /\ \A m \in 1 .. k - 1 : p[m] = r[m]
      BY <2>1, <2>2, <3>1
    <3> QED BY <3>1, <3>2 DEF Earlier
  <2> QED BY <2>3, <2>4, <2>5, <2>6
<1> QED BY <1>2, <1>3

\* There are finitely many.
LEMMA MadeFinite ==
  ASSUME NEW filter \in Filter, NEW relation \in Relation \cup {Null}, NEW path \in PlacePath
  PROVE  IsFiniteSet(Made(filter, relation, path))
<1> DEFINE Right(f) == \A r \in Relation \cup {Null}, p \in PlacePath : IsFiniteSet(Made(f, r, p))
           right == {f \in Filter : Right(f)}
<1>1. ASSUME NEW f \in Filter, \A entry \in ToSet(f) : Inner(entry) \subseteq right,
             NEW r \in Relation \cup {Null}, NEW p \in PlacePath
      PROVE  IsFiniteSet(Made(f, r, p))
  <2> DEFINE P == Places(f, DOMAIN f)
             made == [place \in P |-> MadeAt(f, place, r, p)]
  <2>1. ASSUME NEW place \in P PROVE IsFiniteSet(MadeAt(f, place, r, p))
    <3>1. CASE f[place[1]].key = "field"
      BY <3>1, FS_Singleton DEF MadeAt
    <3>2. CASE f[place[1]].key # "field"
      <4>1. f[place[1]] \in ToSet(f) /\ ObjectAt(f, place) \in Inner(f[place[1]]) /\ place \in Nat \X Nat
        BY <3>2, PlaceKinds
      <4>2. Right(ObjectAt(f, place))
        BY <1>1, <4>1
      <4>3. RelationAt(f, place, r) \in Relation \cup {Null} /\ Append(p, place) \in PlacePath
        BY <4>1, PathsGrow DEF RelationAt
      <4> QED BY <3>2, <4>2, <4>3 DEF MadeAt
    <3> QED BY <3>1, <3>2
  <2>2. IsFiniteSet(P)
    BY PlacesOf
  <2>3. \A place \in P : made[place] = MadeAt(f, place, r, p) /\ IsFiniteSet(made[place])
    BY <2>1
  <2>4. \A s : s \in Made(f, r, p) <=> \E place \in P : s \in MadeAt(f, place, r, p)
    BY MadeIs
  <2> HIDE DEF P, made
  <2>5. Made(f, r, p) = UNION {made[place] : place \in P}
    BY <2>3, <2>4
  <2> QED BY <2>2, <2>3, <2>5, FiniteUnion
<1>2. Carried(right)
  <2>1. ASSUME NEW f \in Filter, \A entry \in ToSet(f) : Inner(entry) \subseteq right PROVE f \in right
    BY <1>1, <2>1
  <2> HIDE DEF right
  <2> QED BY <2>1 DEF Carried
<1>3. right \in SUBSET Filter
  OBVIOUS
<1>4. right = Filter
  <2> HIDE DEF right
  <2> QED BY <1>2, <1>3, FilterInduction
<1> QED BY <1>4

-----------------------------------------------------------------------------
(* Filters: TypeORM, filters on one related document *)

Single(filter) == \A object \in Objects(filter) : \A entry \in ToSet(object) : ~Multiple(entry) /\ ~Inexact(entry)

\* A filter with one condition
Chain(filter) ==
  \A object \in Objects(filter) :
    Len(object) = 1 /\ \A entry \in ToSet(object) : entry.key \in Operator => Len(entry.items) = 1

\* What holds for all objects in a filter holds for those in its entries.
LEMMA SingleInside ==
  ASSUME NEW filter \in Filter, NEW entry \in ToSet(filter), NEW inner \in Inner(entry)
  PROVE  /\ Single(filter) => Single(inner) /\ ~Multiple(entry) /\ ~Inexact(entry)
         /\ Chain(filter) => Chain(inner)
<1>1. filter \in Objects(filter) /\ \A object \in Objects(inner) : object \in Objects(filter)
  BY ObjectsOf
<1> QED BY <1>1 DEF Single, Chain

\* It has one place.
LEMMA ChainPlace ==
  ASSUME NEW filter \in Filter, Chain(filter)
  PROVE  DOMAIN filter = {1} /\ Places(filter, DOMAIN filter) = {<<1, 1>>}
<1> DEFINE P == Places(filter, DOMAIN filter)
<1>1. Len(filter) = 1 /\ \A entry \in ToSet(filter) : entry.key \in Operator => Len(entry.items) = 1
  BY ObjectsOf DEF Chain
<1>2. DOMAIN filter = {1}
  BY <1>1, FilterSequence
<1>3. <<1, 1>> \in P
  BY <1>2, PlacesOf
<1>4. ASSUME NEW p \in P PROVE p = <<1, 1>>
  <2>1. p \in Nat \X Nat /\ p[1] = 1 /\ filter[p[1]] \in ToSet(filter)
    BY <1>2, PlaceKinds
  <2>2. filter[p[1]].key \in Operator => Len(filter[p[1]].items) = 1
    BY <1>1, <2>1
  <2>3. p[2] = 1
    <3>1. p[2] = 1 \/ (filter[p[1]].key \in Operator /\ p[2] \in 1 .. Len(filter[p[1]].items))
      BY PlaceKinds
    <3>2. 1 .. 1 = {1}
      OBVIOUS
    <3> DEFINE n == Len(filter[p[1]].items)
    <3>3. filter[p[1]].key \in Operator => n = 1
      BY <2>2
    <3>4. p[2] = 1 \/ (filter[p[1]].key \in Operator /\ p[2] \in 1 .. n)
      BY <3>1
    <3> HIDE DEF n
    <3> QED BY <3>2, <3>3, <3>4
  <2> QED BY <2>1, <2>3
<1> QED BY <1>2, <1>3, <1>4

\* One statement is made of it, and when that is unknown, so is its truth.
LEMMA ChainStatement ==
  ASSUME NEW filter \in Filter, Chain(filter), NEW relation \in Relation \cup {Null}, NEW path \in PlacePath
  PROVE  \E s : Made(filter, relation, path) = {s}
<1> DEFINE Right(f) == \A r \in Relation \cup {Null}, p \in PlacePath : \E s : Made(f, r, p) = {s}
           right == {f \in Filter : Chain(f) => Right(f)}
<1>1. ASSUME NEW f \in Filter, \A entry \in ToSet(f) : Inner(entry) \subseteq right, Chain(f),
             NEW r \in Relation \cup {Null}, NEW p \in PlacePath
      PROVE  \E s : Made(f, r, p) = {s}
  <2> DEFINE place == <<1, 1>>
  <2>1. Places(f, DOMAIN f) = {place}
    BY <1>1, ChainPlace
  <2> HIDE DEF place
  <2>2. Made(f, r, p) = MadeAt(f, place, r, p)
    BY <2>1, MadeIs
  <2>3. CASE f[place[1]].key = "field"
    BY <2>2, <2>3 DEF MadeAt
  <2>4. CASE f[place[1]].key # "field"
    <3>1. f[place[1]] \in ToSet(f) /\ ObjectAt(f, place) \in Inner(f[place[1]]) /\ place \in Nat \X Nat
      BY <2>1, <2>4, PlaceKinds
    <3>2. Right(ObjectAt(f, place))
      BY <1>1, <3>1, SingleInside
    <3>3. RelationAt(f, place, r) \in Relation \cup {Null} /\ Append(p, place) \in PlacePath
      BY <3>1, PathsGrow DEF RelationAt
    <3>4. \E s : Made(ObjectAt(f, place), RelationAt(f, place, r), Append(p, place)) = {s}
      BY <3>2, <3>3
    <3>5. Made(f, r, p) = Made(ObjectAt(f, place), RelationAt(f, place, r), Append(p, place))
      BY <2>2, <2>4 DEF MadeAt
    <3> QED BY <3>4, <3>5
  <2> QED BY <2>3, <2>4
<1>2. Carried(right)
  <2>1. ASSUME NEW f \in Filter, \A entry \in ToSet(f) : Inner(entry) \subseteq right PROVE f \in right
    BY <1>1, <2>1
  <2> HIDE DEF right
  <2> QED BY <2>1 DEF Carried
<1>3. right \in SUBSET Filter
  OBVIOUS
<1>4. right = Filter
  <2> HIDE DEF right
  <2> QED BY <1>2, <1>3, FilterInduction
<1> QED BY <1>4

\* When the one statement is unknown, so is the truth.
LEMMA ChainUnknown ==
  ASSUME NEW filter \in Filter, Chain(filter), NEW relation \in Relation \cup {Null}, NEW path \in PlacePath,
         NEW negated \in BOOLEAN, NEW holding, NEW unknown,
         \A s \in Made(filter, relation, path) : Status(s.path, holding, unknown) = 1
  PROVE  Truth(filter, negated, path, holding, unknown) = 1
<1> DEFINE Unknown(f, r, p) == \A s \in Made(f, r, p) : Status(s.path, holding, unknown) = 1
           Right(f) == \A r \in Relation \cup {Null}, p \in PlacePath, n \in BOOLEAN :
                         Unknown(f, r, p) => Truth(f, n, p, holding, unknown) = 1
           right == {f \in Filter : Chain(f) => Right(f)}
<1>1. ASSUME NEW f \in Filter, \A entry \in ToSet(f) : Inner(entry) \subseteq right, Chain(f),
             NEW r \in Relation \cup {Null}, NEW p \in PlacePath, NEW n \in BOOLEAN, Unknown(f, r, p)
      PROVE  Truth(f, n, p, holding, unknown) = 1
  <2> DEFINE place == <<1, 1>>
             result == Bracket(f, DOMAIN f, n, p, holding, unknown)
             term == TermAt(f, place, n, p, holding, unknown)
  <2>1. DOMAIN f = {1} /\ Places(f, DOMAIN f) = {place}
    BY <1>1, ChainPlace
  <2> HIDE DEF place
  <2>2. Made(f, r, p) = MadeAt(f, place, r, p)
    BY <2>1, MadeIs
  <2>3. term = 1
    <3>1. CASE f[place[1]].key = "field"
      <4>1. StatementAt(f, place, r, p) \in Made(f, r, p)
        BY <2>2, <3>1 DEF MadeAt
      <4>2. Status(StatementAt(f, place, r, p).path, holding, unknown) = 1
        BY <1>1, <4>1
      <4>3. Status(Append(p, place), holding, unknown) = 1
        BY <4>2 DEF StatementAt
      <4> QED BY <3>1, <4>3 DEF TermAt, Status
    <3>2. CASE f[place[1]].key # "field"
      <4> DEFINE next == IF f[place[1]].key \in Operator THEN f[place[1]].key = "_nor" ELSE n
      <4>1. f[place[1]] \in ToSet(f) /\ ObjectAt(f, place) \in Inner(f[place[1]]) /\ place \in Nat \X Nat
        BY <2>1, <3>2, PlaceKinds
      <4>2. Right(ObjectAt(f, place))
        BY <1>1, <4>1, SingleInside
      <4>3. RelationAt(f, place, r) \in Relation \cup {Null} /\ Append(p, place) \in PlacePath /\ next \in BOOLEAN
        BY <4>1, PathsGrow DEF RelationAt
      <4>4. Unknown(ObjectAt(f, place), RelationAt(f, place, r), Append(p, place))
        BY <1>1, <2>2, <3>2 DEF MadeAt
      <4>5. term = Truth(ObjectAt(f, place), next, Append(p, place), holding, unknown)
        BY <3>2 DEF TermAt
      <4> HIDE DEF next, Unknown, term
      <4> QED BY <4>2, <4>3, <4>4, <4>5
    <3> QED BY <3>1, <3>2
  <2>4. result = 1
    <3> DEFINE P == Places(f, DOMAIN f)
               of(q) == TermAt(f, q, n, p, holding, unknown)
    <3>1. /\ (\A i \in DOMAIN f : f[i].key \notin {"_or", "_nor"}) =>
               result = IF \A q \in P : of(q) = 2 THEN 2 ELSE IF \E q \in P : of(q) = 0 THEN 0 ELSE 1
          /\ (\A i \in DOMAIN f : f[i].key \in {"_or", "_nor"}) =>
               result = IF \E q \in P : of(q) = 2 THEN 2 ELSE IF \A q \in P : of(q) = 0 THEN 0 ELSE 1
      BY <2>1, Brackets
    <3>2. of(place) = 1 /\ P = {place}
      BY <2>1, <2>3
    <3> HIDE DEF of, P, result
    <3> QED BY <2>1, <3>1, <3>2
  <2>5. Truth(f, n, p, holding, unknown) = IF n THEN 2 - result ELSE result
    BY TruthIs
  <2> HIDE DEF result
  <2> QED BY <2>4, <2>5
<1>2. Carried(right)
  <2>1. ASSUME NEW f \in Filter, \A entry \in ToSet(f) : Inner(entry) \subseteq right PROVE f \in right
    <3> HIDE DEF Unknown
    <3> QED BY <1>1, <2>1
  <2> HIDE DEF right
  <2> QED BY <2>1 DEF Carried
<1>3. right \in SUBSET Filter
  OBVIOUS
<1>4. right = Filter
  <2> HIDE DEF right
  <2> QED BY <1>2, <1>3, FilterInduction
<1> QED BY <1>4

\* Every statement is as a related document makes it, or unknown.
ToldBy(statements, values, holding, unknown) ==
  \A s \in statements : \E x \in values \cup {Null} : Status(s.path, holding, unknown) = Told(s, x)

\* Then one condition is true for a related document only.
LEMMA ChainTruth ==
  ASSUME NEW filter \in Filter, Chain(filter), Plain(filter), Exactly(filter),
         NEW relation \in Relation \cup {Null}, NEW path \in PlacePath, NEW related \in Related,
         NEW values \in SUBSET Value, NEW holding, NEW unknown, NEW negated \in BOOLEAN, ~negated,
         ToldBy(Made(filter, relation, path), values, holding, unknown),
         Truth(filter, negated, path, holding, unknown) = 2
  PROVE  \E x \in values : Matches(filter, x, related)
<1>1. PICK s : Made(filter, relation, path) = {s}
  BY ChainStatement
<1>2. PICK x \in values \cup {Null} : Status(s.path, holding, unknown) = Told(s, x)
  BY <1>1 DEF ToldBy
<1>3. CASE x = Null
  <2>1. Status(s.path, holding, unknown) = 1
    BY <1>2, <1>3 DEF Told
  <2>2. Truth(filter, negated, path, holding, unknown) = 1
    BY <1>1, <2>1, ChainUnknown
  <2> QED BY <2>2
<1>4. CASE x \in values
  <2>1. x \in Value
    BY <1>4
  <2>2. Shows(Made(filter, relation, path), x, holding, unknown)
    BY <1>1, <1>2 DEF Shows
  <2>3. Truth(filter, negated, path, holding, unknown) = IF Matches(filter, x, related) <=> negated THEN 0 ELSE 2
    BY <2>1, <2>2, PlainTruth DEF PlainRight
  <2>4. Matches(filter, x, related) \in BOOLEAN
    BY <2>1, MatchesMeans
  <2> QED BY <1>4, <2>3, <2>4
<1> QED BY <1>2, <1>3, <1>4

\* A length that is not above one
LEMMA JustOne ==
  ASSUME NEW n \in Nat \ {0}, ~(n > 1)
  PROVE  n = 1
OBVIOUS

\* The filter of a relation is one condition, or an _or over such.
LEMMA RelationChains ==
  ASSUME NEW object \in Filter, NEW entry \in ToSet(object), entry.key \in Relation, ~Multiple(entry), Single(entry.filter)
  PROVE  LET g == entry.filter
         IN /\ g \in Filter /\ Inner(entry) = {g} /\ Plain(g) /\ DOMAIN g = {1} /\ g[1] \in ToSet(g) /\ ToSet(g) = {g[1]}
            /\ \A inner \in Inner(g[1]) : Chain(inner)
            /\ g[1].key # "_or" => Chain(g)
<1> DEFINE g == entry.filter
           e == g[1]
<1>1. g \in Filter /\ Inner(entry) = {g} /\ Keys(Objects(g)) \cap Relation = {}
  <2>1. "field" \notin Relation /\ Relation \cap Operator = {}
    BY FiltersAssumption DEF Operator
  <2> QED BY <2>1, EntryKinds
<1>2. Plain(g)
  BY <1>1, PlainIs
<1>3. Objects(g) \subseteq Filter /\ g \in Objects(g)
  BY <1>1, ObjectsOf
<1>4. ASSUME NEW o \in Objects(g) PROVE Len(o) = 1
  <2>1. ~(Len(o) > 1)
    BY <1>4 DEF Multiple
  <2>2. Len(o) \in Nat \ {0}
    BY <1>3, FilterSequence
  <2> QED BY <2>1, <2>2, JustOne
<1>5. DOMAIN g = {1} /\ e \in ToSet(g) /\ ToSet(g) = {e}
  <2>1. Len(g) = 1
    BY <1>3, <1>4
  <2>2. DOMAIN g = 1 .. Len(g) /\ ToSet(g) = {g[i] : i \in DOMAIN g}
    BY <1>1, FilterSequence
  <2>3. DOMAIN g = {1}
    BY <2>1, <2>2
  <2> QED BY <2>2, <2>3
<1>6. ASSUME NEW o \in Filter, NEW f \in ToSet(o), f.key \in Operator, ~(Len(f.items) > 1) PROVE Len(f.items) = 1
  <2>1. "field" \notin Operator /\ Relation \cap Operator = {}
    BY FiltersAssumption DEF Operator
  <2>2. Len(f.items) \in Nat \ {0}
    BY <1>6, <2>1, EntryKinds
  <2> QED BY <1>6, <2>2, JustOne
<1>7. ASSUME NEW inner \in Inner(e), NEW o \in Objects(inner)
      PROVE  o \in Objects(g) /\ \A f \in ToSet(o) : f.key \in Operator => Len(f.items) = 1
  <2>1. o \in Objects(g)
    BY <1>1, <1>5, ObjectsOf
  <2>2. o \in Within(e)
    BY DEF Within
  <2>3. ASSUME NEW f \in ToSet(o), f.key \in Operator PROVE Len(f.items) = 1
    <3>1. f \in EntriesOf(Within(e))
      BY <2>2 DEF EntriesOf
    <3>2. ~(Len(f.items) > 1)
      BY <1>5, <2>3, <3>1 DEF Multiple
    <3> QED BY <1>3, <1>6, <2>1, <2>3, <3>2
  <2> QED BY <2>1, <2>3
<1>8. \A inner \in Inner(e) : Chain(inner)
  BY <1>4, <1>7 DEF Chain
<1>9. ASSUME e.key # "_or" PROVE Chain(g)
  <2>1. e.key \in Operator => Len(e.items) = 1
    <3>1. e.key = "_and" => ~(Len(e.items) > 1)
      BY <1>5 DEF Multiple
    <3>2. e.key = "_nor" => ~(Len(e.items) > 1)
      BY <1>3, <1>5 DEF Single, Inexact
    <3> QED BY <1>1, <1>5, <1>6, <1>9, <3>1, <3>2 DEF Operator
  <2>2. ASSUME NEW o \in Objects(g), NEW f \in ToSet(o), f.key \in Operator PROVE Len(f.items) = 1
    <3>1. CASE o = g
      BY <1>5, <2>1, <2>2, <3>1
    <3>2. CASE o # g
      <4>1. \E inner \in Inner(e) : o \in Objects(inner)
        BY <1>1, <1>5, <3>2, ObjectsOf
      <4> QED BY <1>7, <2>2, <4>1
    <3> QED BY <3>1, <3>2
  <2> QED BY <1>4, <2>2 DEF Chain
<1> HIDE DEF g, e
<1>10. /\ g \in Filter /\ Inner(entry) = {g} /\ Plain(g) /\ DOMAIN g = {1} /\ e \in ToSet(g) /\ ToSet(g) = {e}
       /\ \A inner \in Inner(e) : Chain(inner)
       /\ e.key # "_or" => Chain(g)
  BY <1>1, <1>2, <1>5, <1>8, <1>9
<1> QED BY <1>10 DEF g, e

\* It is true for a related document only.
LEMMA RelationTruth ==
  ASSUME NEW object \in Filter, NEW entry \in ToSet(object), entry.key \in Relation, ~Multiple(entry), Exactly(entry.filter),
         NEW relation \in Relation \cup {Null}, NEW path \in PlacePath, NEW related \in Related,
         NEW values \in SUBSET Value, NEW holding, NEW unknown, NEW negated \in BOOLEAN, ~negated,
         ToldBy(Made(entry.filter, relation, path), values, holding, unknown),
         Truth(entry.filter, negated, path, holding, unknown) = 2
  PROVE  \E x \in values : Matches(entry.filter, x, related)
<1> DEFINE g == entry.filter
           e == g[1]
<1>1. Single(g)
  BY DEF Exactly, Single
<1>2. /\ g \in Filter /\ Plain(g) /\ DOMAIN g = {1} /\ e \in ToSet(g) /\ ToSet(g) = {e}
      /\ (\A inner \in Inner(e) : Chain(inner)) /\ (e.key # "_or" => Chain(g))
  BY <1>1, RelationChains
<1>3. CASE e.key # "_or"
  <2>1. Chain(g)
    BY <1>2, <1>3
  <2> HIDE DEF e
  <2> QED BY <1>2, <2>1, ChainTruth
<1>4. CASE e.key = "_or"
  <2> DEFINE P == Places(g, DOMAIN g)
             of(p) == TermAt(g, p, negated, path, holding, unknown)
             result == Bracket(g, DOMAIN g, negated, path, holding, unknown)
  <2>1. result = 2
    BY <1>2, TruthIs
  <2>2. \E p \in P : of(p) = 2
    <3>1. result = IF \E p \in P : of(p) = 2 THEN 2 ELSE IF \A p \in P : of(p) = 0 THEN 0 ELSE 1
      <4>1. DOMAIN g # {} /\ \A i \in DOMAIN g : g[i].key \in {"_or", "_nor"}
        BY <1>2, <1>4
      <4> QED BY <1>2, <4>1, Brackets
    <3> HIDE DEF P, of, result
    <3> QED BY <2>1, <3>1
  <2>3. PICK p \in P : of(p) = 2
    BY <2>2
  <2> DEFINE item == ObjectAt(g, p)
             at == Append(path, p)
  <2>4. /\ p \in Nat \X Nat /\ g[p[1]] = e /\ item \in Inner(e) /\ item \in Filter /\ item \in ToSet(e.items)
        /\ e.key # "field" /\ e.key \in Operator
    <3>1. "_or" \in Operator /\ "_or" # "field" /\ "_or" \notin Relation
      BY FiltersAssumption DEF Operator
    <3>2. p[1] = 1
      BY <1>2, PlaceKinds
    <3> QED BY <1>2, <1>4, <3>1, <3>2, PlaceKinds
  <2>5. at \in PlacePath
    BY <2>4, PathsGrow
  <2>6. Truth(item, FALSE, at, holding, unknown) = 2
    BY <1>4, <2>3, <2>4 DEF TermAt
  <2>7. Chain(item) /\ Plain(item) /\ Exactly(item)
    BY <1>2, <2>4, ExactInside
  <2>8. ToldBy(Made(item, relation, at), values, holding, unknown)
    <3>1. RelationAt(g, p, relation) = relation
      BY <1>4, <2>4, FiltersAssumption DEF RelationAt, Operator
    <3>2. MadeAt(g, p, relation, path) = Made(item, relation, at)
      BY <2>4, <3>1 DEF MadeAt
    <3>3. Made(item, relation, at) \subseteq Made(g, relation, path)
      BY <1>2, <3>2, MadeIs
    <3> QED BY <3>3 DEF ToldBy
  <2>9. PICK x \in values : Matches(item, x, related)
    <3> DEFINE no == FALSE
    <3>1. Truth(item, no, at, holding, unknown) = 2 /\ no \in BOOLEAN /\ ~no
      BY <2>6
    <3> HIDE DEF no, item, at
    <3> QED BY <2>4, <2>5, <2>7, <2>8, <3>1, ChainTruth
  <2>10. Means(e, x, related)
    BY <1>4, <2>4, <2>9 DEF Means
  <2>11. Matches(g, x, related)
    BY <1>2, <2>10, MatchesMeans
  <2> QED BY <2>11
<1> QED BY <1>3, <1>4

-----------------------------------------------------------------------------
(* Filters: TypeORM, a join for every statement *)

\* Being from a path passes on.
LEMMA FromFrom ==
  ASSUME NEW p, NEW q, NEW r \in PlacePath, From(p, q), From(q, r)
  PROVE  From(p, r)
<1>1. p \in PlacePath /\ q \in PlacePath /\ Len(p) \in Nat /\ Len(q) \in Nat /\ Len(r) \in Nat
  BY PathTyped DEF From
<1>2. Len(p) >= Len(q) /\ Len(q) >= Len(r)
  BY DEF From
<1>3. \A m \in 1 .. Len(r) : m \in 1 .. Len(q)
  BY <1>1, <1>2
<1>4. Len(p) >= Len(r)
  BY <1>1, <1>2
<1> QED BY <1>1, <1>3, <1>4 DEF From

\* The keys of a filter are from where it is.
LEMMA ItemFrom ==
  ASSUME NEW object \in Filter, NEW at \in PlacePath, NEW k \in ItemPaths(object, at)
  PROVE  From(k, at)
<1>1. PICK item : k = Append(at, item) /\ (item \in Places(object, DOMAIN object) \/ item = <<1, 1>>)
  <2> DEFINE entries == {i \in DOMAIN object : object[i].key \in Operator}
             items == IF Places(object, entries) = {} THEN {<<1, 1>>} ELSE Places(object, entries)
  <2>1. ItemPaths(object, at) = {Append(at, item) : item \in items}
    BY DEF ItemPaths
  <2>2. entries \in SUBSET DOMAIN object
    OBVIOUS
  <2> HIDE DEF entries
  <2>3. Places(object, entries) \subseteq Places(object, DOMAIN object)
    BY <2>2, PlacesOf
  <2>4. \A item \in items : item \in Places(object, DOMAIN object) \/ item = <<1, 1>>
    BY <2>3
  <2> QED BY <2>1, <2>4
<1>2. item \in Nat \X Nat
  BY <1>1, PlaceKinds
<1> DEFINE n == Len(at)
<1>3. n \in Nat /\ k \in PlacePath /\ Len(k) = n + 1 /\ \A m \in 1 .. n : k[m] = at[m]
  BY <1>1, <1>2, PathsGrow
<1> HIDE DEF n
<1>4. Len(k) >= n
  BY <1>3
<1> QED BY <1>3, <1>4 DEF n, From

\* What is listed for a place is from it.
LEMMA KeyedFrom ==
  ASSUME NEW relation \in Relation, NEW filter \in Filter, NEW path \in PlacePath,
         NEW place \in Places(filter, DOMAIN filter), NEW k \in KeyedAt(relation, filter, place, path)
  PROVE  From(k, Append(path, place))
<1> DEFINE Right(f) == \A p \in PlacePath : \A j \in Keyed(relation, f, p) : From(j, p)
           right == {f \in Filter : Right(f)}
<1>1. ASSUME NEW f \in Filter, NEW p \in PlacePath, NEW at \in Places(f, DOMAIN f), NEW j \in KeyedAt(relation, f, at, p),
             f[at[1]].key \in Operator => Right(ObjectAt(f, at))
      PROVE  From(j, Append(p, at))
  <2>1. CASE f[at[1]].key = relation
    BY <2>1, KeyTyped, ItemFrom DEF KeyedAt
  <2>2. CASE f[at[1]].key # relation
    <3>1. f[at[1]].key \in Operator /\ j \in Keyed(relation, ObjectAt(f, at), Append(p, at))
      BY <2>2 DEF KeyedAt
    <3>2. Append(p, at) \in PlacePath
      BY <3>1, KeyedFollows
    <3> QED BY <1>1, <3>1, <3>2
  <2> QED BY <2>1, <2>2
<1>2. ASSUME NEW f \in Filter, \A entry \in ToSet(f) : Inner(entry) \subseteq right,
             NEW p \in PlacePath, NEW j \in Keyed(relation, f, p)
      PROVE  From(j, p)
  <2>1. PICK at \in Places(f, DOMAIN f) : j \in KeyedAt(relation, f, at, p)
    BY KeyedIs
  <2>2. f[at[1]].key \in Operator => Right(ObjectAt(f, at))
    BY <1>2, KeyedFollows
  <2>3. at \in Nat \X Nat
    BY PlaceKinds
  <2> HIDE DEF Right
  <2> QED BY <1>1, <2>1, <2>2, <2>3, FromAppend
<1>3. Carried(right)
  <2>1. ASSUME NEW f \in Filter, \A entry \in ToSet(f) : Inner(entry) \subseteq right PROVE f \in right
    BY <1>2, <2>1
  <2> HIDE DEF right
  <2> QED BY <2>1 DEF Carried
<1>4. right \in SUBSET Filter
  OBVIOUS
<1>5. right = Filter
  <2> HIDE DEF right
  <2> QED BY <1>3, <1>4, FilterInduction
<1>6. filter[place[1]].key \in Operator => Right(ObjectAt(filter, place))
  BY <1>5, KeyedFollows
<1> HIDE DEF Right
<1> QED BY <1>1, <1>6

\* A relation is listed finitely often.
LEMMA KeyedFinite ==
  ASSUME NEW relation \in Relation, NEW filter \in Filter, NEW path \in PlacePath
  PROVE  IsFiniteSet(Keyed(relation, filter, path))
<1> DEFINE Right(f) == \A p \in PlacePath : IsFiniteSet(Keyed(relation, f, p))
           right == {f \in Filter : Right(f)}
<1>1. ASSUME NEW f \in Filter, \A entry \in ToSet(f) : Inner(entry) \subseteq right, NEW p \in PlacePath
      PROVE  IsFiniteSet(Keyed(relation, f, p))
  <2> DEFINE P == Places(f, DOMAIN f)
             keyed == [place \in P |-> KeyedAt(relation, f, place, p)]
  <2>1. ASSUME NEW place \in P PROVE IsFiniteSet(KeyedAt(relation, f, place, p))
    <3>1. CASE f[place[1]].key = relation
      BY <3>1, KeyTyped DEF KeyedAt
    <3>2. CASE f[place[1]].key # relation /\ f[place[1]].key \in Operator
      <4>1. Right(ObjectAt(f, place)) /\ Append(p, place) \in PlacePath
        BY <1>1, <3>2, KeyedFollows
      <4> QED BY <3>2, <4>1 DEF KeyedAt
    <3>3. CASE f[place[1]].key # relation /\ f[place[1]].key \notin Operator
      BY <3>3, FS_EmptySet DEF KeyedAt
    <3> QED BY <3>1, <3>2, <3>3
  <2>2. IsFiniteSet(P)
    BY PlacesOf
  <2>3. \A place \in P : keyed[place] = KeyedAt(relation, f, place, p) /\ IsFiniteSet(keyed[place])
    BY <2>1
  <2>4. Keyed(relation, f, p) = UNION {KeyedAt(relation, f, place, p) : place \in P}
    BY KeyedIs
  <2> HIDE DEF P, keyed
  <2>5. Keyed(relation, f, p) = UNION {keyed[place] : place \in P}
    BY <2>3, <2>4
  <2> QED BY <2>2, <2>3, <2>5, FiniteUnion
<1>2. Carried(right)
  <2>1. ASSUME NEW f \in Filter, \A entry \in ToSet(f) : Inner(entry) \subseteq right PROVE f \in right
    BY <1>1, <2>1
  <2> HIDE DEF right
  <2> QED BY <2>1 DEF Carried
<1>3. right \in SUBSET Filter
  OBVIOUS
<1>4. right = Filter
  <2> HIDE DEF right
  <2> QED BY <1>2, <1>3, FilterInduction
<1> QED BY <1>4

\* Each statement is from a key, and no two of them are from the same.
Covers(statements, keys) ==
  /\ \A s \in statements : \E k \in keys : From(s.path, k)
  /\ \A s, t \in statements : \A k \in keys : From(s.path, k) /\ From(t.path, k) => s = t

\* The filter of a relation has a key for each of its statements.
LEMMA RelationCovered ==
  ASSUME NEW object \in Filter, NEW entry \in ToSet(object), entry.key \in Relation, ~Multiple(entry), Single(entry.filter),
         NEW relation \in Relation \cup {Null}, NEW at \in PlacePath
  PROVE  Covers(Made(entry.filter, relation, at), ItemPaths(entry.filter, at))
<1> DEFINE g == entry.filter
           e == g[1]
           P == Places(g, DOMAIN g)
           made == Made(g, relation, at)
           keys == ItemPaths(g, at)
<1>1. /\ g \in Filter /\ Plain(g) /\ DOMAIN g = {1} /\ e \in ToSet(g) /\ ToSet(g) = {e}
      /\ (\A inner \in Inner(e) : Chain(inner)) /\ (e.key # "_or" => Chain(g))
  BY RelationChains
<1>2. "field" \notin Operator /\ e.key \notin Relation
  <2>1. g \in Objects(g)
    BY <1>1, ObjectsOf
  <2> QED BY <1>1, <2>1 DEF Operator, Plain
<1>3. \A p \in P : p \in Nat \X Nat /\ p[1] = 1
  BY <1>1, PlaceKinds
<1>4. \A s : s \in made <=> \E p \in P : s \in MadeAt(g, p, relation, at)
  BY <1>1, MadeIs
<1>5. \A p \in P : \A s \in MadeAt(g, p, relation, at) : From(s.path, Append(at, p))
  BY <1>1, MadeFrom
<1>6. ASSUME NEW p \in P PROVE \E s : MadeAt(g, p, relation, at) = {s}
  <2>1. CASE e.key = "field"
    BY <1>3, <2>1 DEF MadeAt
  <2>2. CASE e.key \in Operator
    <3>1. ObjectAt(g, p) \in Inner(e) /\ ObjectAt(g, p) \in Filter
      BY <1>1, <1>2, <1>3, <2>2, PlaceKinds
    <3>2. RelationAt(g, p, relation) \in Relation \cup {Null} /\ Append(at, p) \in PlacePath
      BY <1>3, PathsGrow DEF RelationAt
    <3>3. \E s : Made(ObjectAt(g, p), RelationAt(g, p, relation), Append(at, p)) = {s}
      <4>1. Chain(ObjectAt(g, p))
        BY <1>1, <3>1
      <4> QED BY <3>1, <3>2, <4>1, ChainStatement
    <3>4. MadeAt(g, p, relation, at) = Made(ObjectAt(g, p), RelationAt(g, p, relation), Append(at, p))
      BY <1>2, <1>3, <2>2 DEF MadeAt
    <3> QED BY <3>3, <3>4
  <2> QED BY <1>1, <1>2, <2>1, <2>2, EntryKinds
<1>7. keys = {Append(at, p) : p \in P}
  <2> DEFINE entries == {i \in DOMAIN g : g[i].key \in Operator}
  <2>1. keys = {Append(at, p) : p \in IF Places(g, entries) = {} THEN {<<1, 1>>} ELSE Places(g, entries)}
    BY DEF ItemPaths
  <2>2. CASE e.key \in Operator
    <3>1. entries = DOMAIN g
      BY <1>1, <2>2
    <3>2. P # {}
      BY <1>1, PlacesOf
    <3> HIDE DEF entries
    <3> QED BY <2>1, <3>1, <3>2
  <2>3. CASE e.key \notin Operator
    <3>1. entries = {}
      BY <1>1, <2>3
    <3>2. Places(g, {}) = {}
      BY DEF Places
    <3>3. P = {<<1, 1>>}
      <4>1. e.key = "field"
        BY <1>1, <1>2, <2>3, EntryKinds
      <4>2. <<1, 1>> \in P
        BY <1>1, PlacesOf
      <4>3. \A p \in P : p[2] = 1
        <5>1. "field" \notin Relation
          BY FiltersAssumption
        <5>2. SUFFICES ASSUME NEW p \in P PROVE p[2] = 1
          OBVIOUS
        <5>3. g[p[1]].key = "field"
          BY <1>3, <4>1
        <5> QED BY <1>1, <1>2, <5>1, <5>3, PlaceKinds
      <4>4. \A p \in P : p = <<1, 1>>
        BY <1>3, <4>3
      <4> QED BY <4>2, <4>4
    <3> HIDE DEF entries
    <3> QED BY <2>1, <3>1, <3>2, <3>3
  <2> QED BY <2>2, <2>3
<1> HIDE DEF P, made, keys
<1>8. ASSUME NEW s \in made PROVE \E k \in keys : From(s.path, k)
  BY <1>4, <1>5, <1>7
<1>9. ASSUME NEW s \in made, NEW t \in made, NEW k \in keys, From(s.path, k), From(t.path, k) PROVE s = t
  <2>1. PICK p \in P : k = Append(at, p)
    BY <1>7
  <2>2. ASSUME NEW a \in made, From(a.path, k) PROVE a \in MadeAt(g, p, relation, at)
    <3>1. PICK q \in P : a \in MadeAt(g, q, relation, at)
      BY <1>4
    <3>2. From(a.path, Append(at, q)) /\ From(a.path, Append(at, p))
      BY <1>5, <2>1, <2>2, <3>1
    <3>3. a.path[Len(at) + 1] = q /\ a.path[Len(at) + 1] = p
      BY <1>3, <3>2, FromAppend
    <3> QED BY <3>1, <3>3
  <2>3. s \in MadeAt(g, p, relation, at) /\ t \in MadeAt(g, p, relation, at)
    BY <1>9, <2>2
  <2> QED BY <1>6, <2>3
<1>10. Covers(made, keys)
  BY <1>8, <1>9 DEF Covers
<1> QED BY <1>10 DEF made, keys

\* The keys of a relation in a filter cover its statements.
OfRelation(statements, relation) == {s \in statements : s.relation = relation}

\* Each statement of a relation has a key of its own.
LEMMA KeysCover ==
  ASSUME NEW filter \in Filter, Single(filter), NEW relation \in Relation, NEW path \in PlacePath
  PROVE  Covers(OfRelation(Made(filter, Null, path), relation), Keyed(relation, filter, path))
<1> DEFINE Right(f) == \A p \in PlacePath : Covers(OfRelation(Made(f, Null, p), relation), Keyed(relation, f, p))
           right == {f \in Filter : Single(f) => Right(f)}
<1>1. ASSUME NEW f \in Filter, \A entry \in ToSet(f) : Inner(entry) \subseteq right, Single(f), NEW p \in PlacePath
      PROVE  Covers(OfRelation(Made(f, Null, p), relation), Keyed(relation, f, p))
  <2> DEFINE P == Places(f, DOMAIN f)
             made(place) == OfRelation(MadeAt(f, place, Null, p), relation)
             keys(place) == KeyedAt(relation, f, place, p)
  <2>1. ASSUME NEW place \in P PROVE Covers(made(place), keys(place))
    <3> DEFINE entry == f[place[1]]
               at == Append(p, place)
    <3>1. entry \in ToSet(f) /\ place \in Nat \X Nat
      BY PlaceKinds
    <3>2. at \in PlacePath
      BY <3>1, PathsGrow
    <3>3. "field" \notin Operator /\ "field" \notin Relation /\ Relation \cap Operator = {} /\ Null \notin Relation
      BY FiltersAssumption DEF Operator
    <3>4. CASE entry.key = "field"
      <4>1. made(place) = {}
        <5>1. \A s \in MadeAt(f, place, Null, p) : s.relation = Null
          BY <3>4 DEF MadeAt, StatementAt
        <5> QED BY <3>3, <5>1 DEF OfRelation
      <4> HIDE DEF made
      <4> QED BY <4>1 DEF Covers
    <3>5. CASE entry.key \in Operator
      <4> DEFINE inner == ObjectAt(f, place)
      <4>1. inner \in Inner(entry) /\ inner \in Filter
        BY <3>3, <3>5, PlaceKinds
      <4>2. MadeAt(f, place, Null, p) = Made(inner, Null, at)
        BY <3>3, <3>5 DEF MadeAt, RelationAt
      <4>3. keys(place) = Keyed(relation, inner, at)
        BY <3>3, <3>5 DEF KeyedAt
      <4>4. inner \in right /\ Single(inner)
        BY <1>1, <3>1, <4>1, SingleInside
      <4>5. Right(inner)
        BY <4>4
      <4>6. Covers(OfRelation(Made(inner, Null, at), relation), Keyed(relation, inner, at))
        BY <3>2, <4>5
      <4> QED BY <4>2, <4>3, <4>6
    <3>6. CASE entry.key \in Relation
      <4> DEFINE inner == entry.filter
      <4>1. inner \in Inner(entry) /\ inner \in Filter /\ Plain(inner) /\ Single(inner) /\ ~Multiple(entry)
        <5>1. inner \in Inner(entry) /\ inner \in Filter /\ Keys(Objects(inner)) \cap Relation = {}
          BY <3>1, <3>3, <3>6, EntryKinds
        <5> HIDE DEF inner, entry
        <5> QED BY <1>1, <3>1, <5>1, PlainIs, SingleInside
      <4>2. MadeAt(f, place, Null, p) = Made(inner, entry.key, at)
        BY <3>3, <3>6 DEF MadeAt, RelationAt, ObjectAt
      <4>3. \A s \in Made(inner, entry.key, at) : s.relation = entry.key
        BY <3>2, <3>6, <4>1, PlainStatements
      <4>4. CASE entry.key = relation
        <5>1. made(place) = Made(inner, entry.key, at)
          BY <4>2, <4>3, <4>4 DEF OfRelation
        <5>2. keys(place) = ItemPaths(inner, at)
          BY <3>3, <3>6, <4>4 DEF KeyedAt, ObjectAt
        <5>3. Covers(Made(inner, entry.key, at), ItemPaths(inner, at))
          BY <3>1, <3>2, <3>6, <4>1, RelationCovered
        <5> QED BY <5>1, <5>2, <5>3
      <4>5. CASE entry.key # relation
        <5>1. made(place) = {}
          BY <4>2, <4>3, <4>5 DEF OfRelation
        <5> HIDE DEF made
        <5> QED BY <5>1 DEF Covers
      <4> QED BY <4>4, <4>5
    <3> QED BY <3>1, <3>4, <3>5, <3>6, EntryKinds
  <2>2. \A s : s \in OfRelation(Made(f, Null, p), relation) <=> \E place \in P : s \in made(place)
    BY MadeIs DEF OfRelation
  <2>3. Keyed(relation, f, p) = UNION {keys(place) : place \in P}
    BY KeyedIs
  <2>4. ASSUME NEW place \in P, NEW s \in made(place)
        PROVE  From(s.path, Append(p, place)) /\ place \in Nat \X Nat
    BY MadeFrom, PlaceKinds DEF OfRelation
  <2>5. ASSUME NEW place \in P, NEW k \in keys(place)
        PROVE  From(k, Append(p, place)) /\ Append(p, place) \in PlacePath
    BY KeyedFrom, PlaceKinds, PathsGrow
  <2> HIDE DEF P, made, keys
  <2>6. ASSUME NEW s \in OfRelation(Made(f, Null, p), relation) PROVE \E k \in Keyed(relation, f, p) : From(s.path, k)
    <3>1. PICK place \in P : s \in made(place)
      BY <2>2
    <3>2. PICK k \in keys(place) : From(s.path, k)
      BY <2>1, <3>1 DEF Covers
    <3> QED BY <2>3, <3>2
  <2>7. ASSUME NEW s \in OfRelation(Made(f, Null, p), relation), NEW t \in OfRelation(Made(f, Null, p), relation),
               NEW k \in Keyed(relation, f, p), From(s.path, k), From(t.path, k)
        PROVE  s = t
    <3>1. PICK place \in P : k \in keys(place)
      BY <2>3
    <3>2. ASSUME NEW a \in OfRelation(Made(f, Null, p), relation), From(a.path, k) PROVE a \in made(place)
      <4>1. PICK other \in P : a \in made(other)
        BY <2>2
      <4>2. From(a.path, Append(p, other)) /\ other \in Nat \X Nat
        BY <2>4, <4>1
      <4>3. From(k, Append(p, place)) /\ Append(p, place) \in PlacePath
        BY <2>5, <3>1
      <4>4. From(a.path, Append(p, place)) /\ place \in Nat \X Nat
        BY <3>2, <4>3, FromFrom, PlaceKinds DEF P
      <4>5. a.path[Len(p) + 1] = other /\ a.path[Len(p) + 1] = place
        BY <4>2, <4>4, FromAppend
      <4> QED BY <4>1, <4>5
    <3>3. s \in made(place) /\ t \in made(place)
      BY <2>7, <3>2
    <3> QED BY <2>1, <2>7, <3>1, <3>3 DEF Covers
  <2> QED BY <2>6, <2>7 DEF Covers
<1>2. Carried(right)
  <2>1. ASSUME NEW f \in Filter, \A entry \in ToSet(f) : Inner(entry) \subseteq right PROVE f \in right
    BY <1>1, <2>1
  <2> HIDE DEF right
  <2> QED BY <2>1 DEF Carried
<1>3. right \in SUBSET Filter
  OBVIOUS
<1>4. right = Filter
  <2> HIDE DEF right
  <2> QED BY <1>2, <1>3, FilterInduction
<1> QED BY <1>4

\* So a relation has as many joins of its own as it has statements.
LEMMA EnoughJoins ==
  ASSUME NEW filter \in Filter, Single(filter), NEW relation \in Relation
  PROVE  /\ IsFiniteSet(OfRelation(Statements(filter), relation))
         /\ Joins(relation, filter) \in Nat /\ Cardinality(OfRelation(Statements(filter), relation)) <= Joins(relation, filter)
<1> DEFINE S == OfRelation(Made(filter, Null, <<>>), relation)
           K == Keyed(relation, filter, <<>>)
           key == [s \in S |-> CHOOSE k \in K : From(s.path, k)]
<1>1. <<>> \in PlacePath /\ Null \in Relation \cup {Null}
  BY EmptySeq DEF PlacePath
<1>2. IsFiniteSet(Made(filter, Null, <<>>)) /\ IsFiniteSet(K)
  BY <1>1, MadeFinite, KeyedFinite
<1>3. IsFiniteSet(S)
  <2>1. S \in SUBSET Made(filter, Null, <<>>)
    BY DEF OfRelation
  <2> QED BY <1>2, <2>1, FS_Subset
<1>4. Covers(S, K)
  BY <1>1, KeysCover
<1>5. S = OfRelation(Statements(filter), relation) /\ Joins(relation, filter) = Cardinality(K)
  BY StatementsMade, NestedKeysKeyed DEF Joins
<1> HIDE DEF S, K
<1>6. \A s \in S : key[s] \in K /\ From(s.path, key[s])
  BY <1>4 DEF Covers
<1>7. key \in [S -> K]
  BY <1>6
<1>8. \A s, t \in S : key[s] = key[t] => s = t
  <2> HIDE DEF key
  <2> QED BY <1>4, <1>6 DEF Covers
<1>9. key \in Injection(S, K)
  <2> HIDE DEF key
  <2> QED BY <1>7, <1>8 DEF Injection, IsInjective
<1>10. Cardinality(S) <= Cardinality(K)
  <2> HIDE DEF key
  <2> QED BY <1>2, <1>9, FS_Injection
<1>11. Cardinality(K) \in Nat
  BY <1>2, FS_CardinalityType
<1> QED BY <1>3, <1>5, <1>10, <1>11

\* Two statements on a relation take different joins.
LEMMA JoinsDiffer ==
  ASSUME NEW filter \in Filter, Single(filter), NEW s \in Statements(filter), NEW t \in Statements(filter),
         s.relation \in Relation, s.relation = t.relation, Join(s, filter) = Join(t, filter)
  PROVE  s = t
<1> DEFINE all == Statements(filter)
           r == s.relation
           S == OfRelation(all, r)
           former(a) == {b \in all : b.relation = a.relation /\ Earlier(b.path, a.path)}
           count(a) == Cardinality(former(a))
<1>1. all = Made(filter, Null, <<>>) /\ <<>> \in PlacePath /\ Null \in Relation \cup {Null}
  BY StatementsMade, EmptySeq DEF PlacePath
<1>2. \A a \in all : a.path \in PlacePath
  BY <1>1, MadeIs DEF Statement
<1>3. \A a, b \in all : a # b => Earlier(a.path, b.path) \/ Earlier(b.path, a.path)
  BY <1>1, MadeInLine
<1>4. /\ IsFiniteSet(S) /\ Joins(r, filter) \in Nat /\ Cardinality(S) <= Joins(r, filter)
  BY EnoughJoins
<1>5. s \in S /\ t \in S
  BY DEF OfRelation
<1>6. \A a : Join(a, filter) = IF count(a) + 1 <= Joins(a.relation, filter) THEN count(a) + 1 ELSE 0
  BY DEF Join
<1>7. ASSUME NEW a \in S PROVE former(a) \in SUBSET S /\ a \notin former(a)
  <2>1. a \in all /\ a.relation = r
    BY DEF OfRelation
  <2>2. ~Earlier(a.path, a.path)
    BY <1>2, <2>1, EarlierOrders
  <2> QED BY <2>1, <2>2 DEF OfRelation
<1>8. ASSUME NEW a \in S
      PROVE  IsFiniteSet(former(a)) /\ count(a) \in Nat /\ Join(a, filter) = count(a) + 1
  <2> HIDE DEF former, S
  <2>1. IsFiniteSet(former(a)) /\ count(a) \in Nat /\ Cardinality(S) \in Nat
    BY <1>4, <1>7, FS_Subset, FS_CardinalityType
  <2>2. count(a) # Cardinality(S)
    <3>1. count(a) = Cardinality(S) => S = former(a)
      BY <1>4, <1>7, FS_Subset
    <3> QED BY <1>7, <3>1
  <2>3. count(a) <= Cardinality(S)
    BY <1>4, <1>7, FS_Subset
  <2>4. a.relation = r
    BY DEF S, OfRelation
  <2> HIDE DEF count, r
  <2>5. count(a) + 1 <= Joins(r, filter)
    BY <1>4, <2>1, <2>2, <2>3
  <2> QED BY <1>6, <2>1, <2>4, <2>5
<1>9. ASSUME NEW a \in S, NEW b \in S, Earlier(a.path, b.path) PROVE count(a) # count(b)
  <2>1. a \in all /\ b \in all /\ a.relation = r /\ b.relation = r
    BY DEF OfRelation
  <2>2. former(a) \subseteq former(b)
    <3>1. ASSUME NEW c \in former(a) PROVE c \in former(b)
      <4>1. c \in all /\ c.relation = r /\ Earlier(c.path, a.path)
        BY <2>1
      <4>2. Earlier(c.path, b.path)
        BY <1>2, <1>9, <2>1, <4>1, EarlierOrders
      <4> QED BY <2>1, <4>1, <4>2
    <3> QED BY <3>1
  <2>3. a \in former(b) /\ a \notin former(a)
    BY <1>7, <1>9, <2>1
  <2> HIDE DEF former, S
  <2>4. count(a) = count(b) => former(b) = former(a)
    BY <1>8, <2>2, FS_Subset
  <2> QED BY <2>3, <2>4
<1>10. count(s) = count(t)
  <2>1. count(s) \in Nat /\ count(t) \in Nat /\ Join(s, filter) = count(s) + 1 /\ Join(t, filter) = count(t) + 1
    BY <1>5, <1>8
  <2> DEFINE m == count(s)
             n == count(t)
             x == Join(s, filter)
             y == Join(t, filter)
  <2>2. m \in Nat /\ n \in Nat /\ x = m + 1 /\ y = n + 1 /\ x = y
    BY <2>1
  <2> HIDE DEF m, n, x, y
  <2>3. m = n
    BY <2>2
  <2> QED BY <2>3 DEF m, n
<1> QED BY <1>3, <1>5, <1>9, <1>10

-----------------------------------------------------------------------------
(* Filters: TypeORM, what rows show *)

JoinedValues(related, relation) == IF related[relation] = {} THEN {Null} ELSE related[relation]

\* The values that a row may show to statements, and statements that are as it shows them
Feasible(shown, statements, field, related) ==
  \A s \in statements : shown[s] \in IF s.relation = Null THEN {field} ELSE JoinedValues(related, s.relation)
Agrees(shown, statements, holding, unknown) ==
  \A s \in statements : Status(s.path, holding, unknown) = Told(s, shown[s])

Sound(filter, field, related, shown, no, holding, unknown) ==
  \A path \in PlacePath :
    Feasible(shown, Made(filter, Null, path), field, related) /\ Agrees(shown, Made(filter, Null, path), holding, unknown)
      => (Truth(filter, no, path, holding, unknown) = 2 => Matches(filter, field, related))

\* The items of a _nor have no relations.
LEMMA NorPlain ==
  ASSUME NEW filter \in Filter, NEW entry \in ToSet(filter), entry.key = "_nor", ~Inexact(entry), NEW inner \in Inner(entry)
  PROVE  Plain(inner)
<1>1. inner \in Filter
  BY EntryKinds
<1>2. Keys(Within(entry)) \cap Relation = {}
  BY DEF Inexact
<1>3. Objects(inner) \subseteq Within(entry)
  BY DEF Within
<1> QED BY <1>2, <1>3 DEF Plain, Keys, EntriesOf

\* Rows make true what the document means.
LEMMA PlaceSound ==
  ASSUME NEW filter \in Filter, NEW place \in Places(filter, DOMAIN filter),
         ~Multiple(filter[place[1]]), ~Inexact(filter[place[1]]), \A inner \in Inner(filter[place[1]]) : Exactly(inner),
         NEW field \in Value, NEW related \in Related, NEW path \in PlacePath, NEW no \in BOOLEAN, ~no,
         NEW shown, NEW holding, NEW unknown,
         Feasible(shown, MadeAt(filter, place, Null, path), field, related),
         Agrees(shown, MadeAt(filter, place, Null, path), holding, unknown),
         filter[place[1]].key \in {"_and", "_or"} =>
           Sound(ObjectAt(filter, place), field, related, shown, no, holding, unknown),
         TermAt(filter, place, no, path, holding, unknown) = 2
  PROVE  PlaceMeans(filter, place, field, related)
<1> DEFINE entry == filter[place[1]]
           at == Append(path, place)
           made == MadeAt(filter, place, Null, path)
<1>1. entry \in ToSet(filter) /\ place \in Nat \X Nat
  BY PlaceKinds
<1>2. at \in PlacePath /\ Null \in Relation \cup {Null}
  BY <1>1, PathsGrow
<1>3. "field" \notin Operator /\ "field" \notin Relation /\ Relation \cap Operator = {} /\ Null \notin Relation /\ Null \notin Value
  BY FiltersAssumption DEF Operator
<1>4. CASE entry.key = "field"
  <2> DEFINE s == StatementAt(filter, place, Null, path)
  <2>1. s \in made /\ s.relation = Null /\ s.path = at /\ s.op = entry.op /\ s.value = entry.value
    BY <1>4 DEF MadeAt, StatementAt
  <2> HIDE DEF s
  <2>2. shown[s] = field /\ Status(at, holding, unknown) = Told(s, shown[s])
    BY <2>1 DEF Feasible, Agrees
  <2>3. TermAt(filter, place, no, path, holding, unknown) = Status(at, holding, unknown)
    BY <1>4 DEF TermAt, Status
  <2>4. Told(s, field) = 2
    BY <2>2, <2>3
  <2>5. Holds(entry.op, field, entry.value)
    BY <1>3, <2>1, <2>4 DEF Told
  <2> QED BY <1>3, <1>4, <2>5 DEF PlaceMeans, Means
<1>5. CASE entry.key \in Operator
  <2> DEFINE inner == ObjectAt(filter, place)
             next == entry.key = "_nor"
  <2>1. inner \in Inner(entry) /\ inner \in Filter
    BY <1>3, <1>5, PlaceKinds
  <2>2. made = Made(inner, Null, at)
    BY <1>3, <1>5 DEF MadeAt, RelationAt
  <2>3. Truth(inner, next, at, holding, unknown) = 2
    BY <1>3, <1>5 DEF TermAt
  <2>4. CASE entry.key # "_nor"
    <3>1. entry.key \in {"_and", "_or"}
      BY <1>5, <2>4 DEF Operator
    <3>2. next = no
      BY <2>4
    <3>3. Truth(inner, no, at, holding, unknown) = 2
      BY <2>3, <3>2
    <3>4. Matches(inner, field, related)
      BY <1>2, <2>2, <3>1, <3>3 DEF Sound
    <3> QED BY <1>5, <2>4, <3>4 DEF PlaceMeans
  <2>5. CASE entry.key = "_nor"
    <3>1. Plain(inner) /\ Exactly(inner)
      BY <1>1, <2>1, <2>5, NorPlain
    <3>2. Shows(Made(inner, Null, at), field, holding, unknown)
      <4>1. \A s \in Made(inner, Null, at) : s.relation = Null
        BY <1>2, <2>1, <3>1, PlainStatements
      <4> QED BY <2>2, <4>1 DEF Feasible, Agrees, Shows
    <3> DEFINE yes == next
    <3>3. yes \in BOOLEAN /\ yes
      BY <2>5
    <3>4. Truth(inner, yes, at, holding, unknown) = 2
      BY <2>3
    <3>5. PlainRight(inner, field, related, holding, unknown)
      BY <2>1, <3>1, PlainTruth
    <3>6. Matches(inner, field, related) \in BOOLEAN
      BY <2>1, MatchesMeans
    <3> HIDE DEF yes, inner, at
    <3>7. Truth(inner, yes, at, holding, unknown) = IF Matches(inner, field, related) <=> yes THEN 0 ELSE 2
      BY <1>2, <3>2, <3>3, <3>5 DEF PlainRight
    <3>8. ~Matches(inner, field, related)
      <4> DEFINE m == Matches(inner, field, related)
                 t == Truth(inner, yes, at, holding, unknown)
      <4>1. m \in BOOLEAN /\ yes \in BOOLEAN /\ yes /\ t = 2 /\ t = IF m <=> yes THEN 0 ELSE 2
        BY <3>3, <3>4, <3>6, <3>7
      <4> HIDE DEF m, t
      <4>2. ~m
        BY <4>1
      <4> QED BY <4>2 DEF m
    <3> QED BY <1>5, <2>5, <3>8 DEF PlaceMeans, inner
  <2> QED BY <2>4, <2>5
<1>6. CASE entry.key \in Relation
  <2> DEFINE inner == entry.filter
             r == entry.key
  <2>1. inner \in Inner(entry) /\ inner \in Filter /\ Plain(inner)
    <3>1. inner \in Inner(entry) /\ inner \in Filter /\ Keys(Objects(inner)) \cap Relation = {}
      BY <1>1, <1>3, <1>6, EntryKinds
    <3> QED BY <3>1, PlainIs
  <2>2. made = Made(inner, r, at)
    BY <1>3, <1>6 DEF MadeAt, RelationAt, ObjectAt
  <2>3. Truth(inner, no, at, holding, unknown) = 2
    BY <1>3, <1>6 DEF TermAt, ObjectAt
  <2>4. ToldBy(Made(inner, r, at), related[r], holding, unknown)
    <3>1. \A s \in Made(inner, r, at) : s.relation = r /\ r # Null
      BY <1>2, <1>3, <1>6, <2>1, PlainStatements
    <3>2. \A s \in Made(inner, r, at) : shown[s] \in related[r] \cup {Null} /\ Status(s.path, holding, unknown) = Told(s, shown[s])
      BY <2>2, <3>1 DEF Feasible, Agrees, JoinedValues
    <3> QED BY <3>2 DEF ToldBy
  <2>5. related[r] \in SUBSET Value
    BY <1>6 DEF Related
  <2>6. \E x \in related[r] : Matches(inner, x, related)
    BY <1>1, <1>2, <1>6, <2>1, <2>3, <2>4, <2>5, RelationTruth
  <2> QED BY <1>3, <1>6, <2>6 DEF PlaceMeans, Means, Operator
<1> QED BY <1>1, <1>4, <1>5, <1>6, EntryKinds

\* The bracketed entries of an object are true only when they mean so.
LEMMA EntriesSound ==
  ASSUME NEW filter \in Filter, NEW entries, Bracketed(filter, entries),
         \A entry \in ToSet(filter) : ~Multiple(entry) /\ ~Inexact(entry),
         \A entry \in ToSet(filter) : \A inner \in Inner(entry) : Exactly(inner),
         NEW field \in Value, NEW related \in Related, NEW path \in PlacePath, NEW no \in BOOLEAN, ~no,
         NEW shown, NEW holding, NEW unknown,
         Feasible(shown, Made(filter, Null, path), field, related),
         Agrees(shown, Made(filter, Null, path), holding, unknown),
         \A entry \in ToSet(filter) : \A inner \in Inner(entry) :
           Sound(inner, field, related, shown, no, holding, unknown),
         Bracket(filter, entries, no, path, holding, unknown) = 2
  PROVE  \A i \in entries : Means(filter[i], field, related)
<1> DEFINE P == Places(filter, entries)
<1>1. entries \in SUBSET DOMAIN filter
  BY DEF Bracketed
<1>2. P \subseteq Places(filter, DOMAIN filter)
  BY <1>1, PlacesOf
<1>3. ASSUME NEW p \in P, TermAt(filter, p, no, path, holding, unknown) = 2
      PROVE  PlaceMeans(filter, p, field, related)
  <2>1. p \in Places(filter, DOMAIN filter)
    BY <1>2
  <2>2. filter[p[1]] \in ToSet(filter)
    BY <2>1, PlaceKinds
  <2>3. MadeAt(filter, p, Null, path) \subseteq Made(filter, Null, path)
    BY <2>1, MadeIs
  <2>4. /\ Feasible(shown, MadeAt(filter, p, Null, path), field, related)
        /\ Agrees(shown, MadeAt(filter, p, Null, path), holding, unknown)
    BY <2>3 DEF Feasible, Agrees
  <2>5. filter[p[1]].key \in {"_and", "_or"} => Sound(ObjectAt(filter, p), field, related, shown, no, holding, unknown)
    <3>1. filter[p[1]].key \in {"_and", "_or"} => ObjectAt(filter, p) \in Inner(filter[p[1]])
      BY <2>1, PlaceKinds
    <3> QED BY <2>2, <3>1
  <2>6. ~Multiple(filter[p[1]]) /\ ~Inexact(filter[p[1]]) /\ \A inner \in Inner(filter[p[1]]) : Exactly(inner)
    BY <2>2
  <2> HIDE DEF P
  <2> QED BY <1>3, <2>1, <2>4, <2>5, <2>6, PlaceSound
<1> HIDE DEF P
<1>4. \A p \in P : TermAt(filter, p, no, path, holding, unknown) = 2 => PlaceMeans(filter, p, field, related)
  BY <1>3
<1>5. TermsSound(filter, entries, no, path, holding, unknown, field, related)
  BY <1>4 DEF TermsSound, P
<1>6. EntriesMean(filter, entries, field, related)
  BY <1>5, BracketMeans
<1> QED BY <1>6 DEF EntriesMean

\* So is an object without exceptions.
LEMMA ObjectSound ==
  ASSUME NEW filter \in Filter, Exactly(filter),
         NEW field \in Value, NEW related \in Related, NEW no \in BOOLEAN, ~no,
         NEW shown, NEW holding, NEW unknown
  PROVE  Sound(filter, field, related, shown, no, holding, unknown)
<1> DEFINE right == {g \in Filter : Exactly(g) => Sound(g, field, related, shown, no, holding, unknown)}
<1>1. Carried(right)
  <2> SUFFICES ASSUME NEW g \in Filter, \A entry \in ToSet(g) : Inner(entry) \subseteq right, Exactly(g)
               PROVE  Sound(g, field, related, shown, no, holding, unknown)
    BY DEF Carried
  <2>1. \A entry \in ToSet(g) : \A inner \in Inner(entry) : inner \in Filter /\ Exactly(inner)
    BY EntryKinds, ExactInside
  <2>2. \A entry \in ToSet(g) : \A inner \in Inner(entry) : Sound(inner, field, related, shown, no, holding, unknown)
    BY <2>1
  <2>3. g \in Objects(g)
    BY ObjectsOf
  <2>4. ~Mixed(g) /\ \A entry \in ToSet(g) : ~Multiple(entry) /\ ~Inexact(entry)
    BY <2>3 DEF Exactly
  <2>5. Bracketed(g, DOMAIN g)
    BY <2>4, AllBracketed
  <2> SUFFICES ASSUME NEW path \in PlacePath,
                      Feasible(shown, Made(g, Null, path), field, related),
                      Agrees(shown, Made(g, Null, path), holding, unknown),
                      Truth(g, no, path, holding, unknown) = 2
               PROVE  Matches(g, field, related)
    BY DEF Sound
  <2>6. Bracket(g, DOMAIN g, no, path, holding, unknown) = 2
    BY TruthIs
  <2> HIDE DEF right
  <2>7. \A i \in DOMAIN g : Means(g[i], field, related)
    BY <2>1, <2>2, <2>4, <2>5, <2>6, EntriesSound
  <2>8. \A entry \in ToSet(g) : Means(entry, field, related)
    BY <2>7, FilterSequence
  <2> QED BY <2>8, MatchesMeans
<1>2. right \in SUBSET Filter
  OBVIOUS
<1> HIDE DEF right
<1>3. right = Filter
  BY <1>1, <1>2, FilterInduction
<1> QED BY <1>3 DEF right

\* The filter of a query: only the objects in it have no exceptions.
Exact(filter) == Single(filter) /\ \A object \in Objects(filter) \ {filter} : ~Mixed(object)

\* Its entries have none, nor have the filters in them, and Apart brackets all of its entries.
LEMMA ExactOf ==
  ASSUME NEW filter \in Filter, Exact(filter)
  PROVE  /\ \A entry \in ToSet(filter) : ~Multiple(entry) /\ ~Inexact(entry)
         /\ \A entry \in ToSet(filter) : \A inner \in Inner(entry) : Exactly(inner)
         /\ \A entries \in Apart(filter) : Bracketed(filter, entries)
         /\ UNION Apart(filter) = DOMAIN filter
<1>1. \A entry \in ToSet(filter) : ~Multiple(entry) /\ ~Inexact(entry)
  BY ObjectsOf DEF Exact, Single
<1>2. ASSUME NEW entry \in ToSet(filter), NEW inner \in Inner(entry) PROVE Exactly(inner)
  <2>1. ASSUME NEW object \in Objects(inner) PROVE object \in Objects(filter) /\ object # filter
    BY ObjectsOf, InnerIsOther
  <2> QED BY <2>1 DEF Exact, Single, Exactly
<1>3. DOMAIN filter = 1 .. Len(filter) /\ Len(filter) \in Nat \ {0}
  BY FilterSequence
<1>4. \A i \in DOMAIN filter : filter[i] \in ToSet(filter)
  BY FilterSequence
<1>5. ASSUME NEW entries \in Apart(filter)
      PROVE  entries \in SUBSET DOMAIN filter /\ entries # {} /\ \E i : entries = {i}
  <2>1. Len(filter) = 1 => DOMAIN filter = {1}
    BY <1>3
  <2> QED BY <2>1, <1>3 DEF Apart
<1>6. \A entries \in Apart(filter) : Bracketed(filter, entries)
  BY <1>1, <1>4, <1>5 DEF Bracketed
<1>7. UNION Apart(filter) = DOMAIN filter
  BY DEF Apart
<1> QED BY <1>1, <1>2, <1>6, <1>7

\* What a filter finds, it means.
LEMMA WhereSound ==
  ASSUME NEW filter \in Filter, Exact(filter), NEW field \in Value, NEW related \in Related,
         NEW shown, NEW holding, NEW unknown,
         Feasible(shown, Statements(filter), field, related), Agrees(shown, Statements(filter), holding, unknown),
         WhereHolds(filter, holding, unknown)
  PROVE  Matches(filter, field, related)
<1> DEFINE no == FALSE
<1>1. no \in BOOLEAN /\ ~no /\ <<>> \in PlacePath
  BY EmptySeq DEF PlacePath
<1>2. \A entries \in Apart(filter) : Bracket(filter, entries, no, <<>>, holding, unknown) = 2
  BY WhereHoldsIs
<1> HIDE DEF no
<1>3. Statements(filter) = Made(filter, Null, <<>>)
  BY StatementsMade
<1>4. \A entry \in ToSet(filter) : \A inner \in Inner(entry) : Sound(inner, field, related, shown, no, holding, unknown)
  <2>1. ASSUME NEW entry \in ToSet(filter), NEW inner \in Inner(entry)
        PROVE  Sound(inner, field, related, shown, no, holding, unknown)
    <3>1. inner \in Filter /\ Exactly(inner)
      BY ExactOf, EntryKinds
    <3> QED BY <1>1, <3>1, ObjectSound
  <2> QED BY <2>1
<1>5. ASSUME NEW entries \in Apart(filter) PROVE \A i \in entries : Means(filter[i], field, related)
  <2>1. Bracketed(filter, entries)
    BY ExactOf
  <2>2. /\ \A entry \in ToSet(filter) : ~Multiple(entry) /\ ~Inexact(entry)
        /\ \A entry \in ToSet(filter) : \A inner \in Inner(entry) : Exactly(inner)
    BY ExactOf
  <2>3. Feasible(shown, Made(filter, Null, <<>>), field, related) /\ Agrees(shown, Made(filter, Null, <<>>), holding, unknown)
    BY <1>3
  <2>4. Bracket(filter, entries, no, <<>>, holding, unknown) = 2
    BY <1>2
  <2> QED BY <1>1, <1>4, <2>1, <2>2, <2>3, <2>4, EntriesSound
<1>6. \A i \in DOMAIN filter : Means(filter[i], field, related)
  BY <1>5, ExactOf
<1> QED BY <1>6, FilterSequence, MatchesMeans

-----------------------------------------------------------------------------
(* Filters: TypeORM, a row for what a filter means *)

\* Values that a row may show to the statements of a place or of an object, and with which that
\* is true if it means so
PlaceCompletes(shown, filter, place, no, path, field, related) ==
  LET made == MadeAt(filter, place, Null, path)
  IN /\ Feasible(shown, made, field, related)
     /\ PlaceMeans(filter, place, field, related) =>
          \A holding, unknown :
            Agrees(shown, made, holding, unknown) => TermAt(filter, place, no, path, holding, unknown) = 2
ObjectCompletes(shown, filter, no, path, field, related) ==
  LET made == Made(filter, Null, path)
  IN /\ Feasible(shown, made, field, related)
     /\ Matches(filter, field, related) =>
          \A holding, unknown :
            Agrees(shown, made, holding, unknown) => Truth(filter, no, path, holding, unknown) = 2

\* One value for all statements of a filter without relations
LEMMA PlainCompletes ==
  ASSUME NEW filter \in Filter, Exactly(filter), Plain(filter), NEW relation \in Relation \cup {Null}, NEW path \in PlacePath,
         NEW field \in Value, NEW related \in Related, NEW x \in Value, NEW shown, NEW holding, NEW unknown, NEW negated \in BOOLEAN,
         \A s \in Made(filter, relation, path) : shown[s] = x,
         Agrees(shown, Made(filter, relation, path), holding, unknown)
  PROVE  Truth(filter, negated, path, holding, unknown) = IF Matches(filter, x, related) <=> negated THEN 0 ELSE 2
<1>1. Shows(Made(filter, relation, path), x, holding, unknown)
  BY DEF Shows, Agrees
<1>2. PlainRight(filter, x, related, holding, unknown)
  BY PlainTruth
<1> QED BY <1>1, <1>2 DEF PlainRight

\* There are such values for every place.
LEMMA PlaceComplete ==
  ASSUME NEW filter \in Filter, NEW place \in Places(filter, DOMAIN filter),
         ~Multiple(filter[place[1]]), ~Inexact(filter[place[1]]), \A inner \in Inner(filter[place[1]]) : Exactly(inner),
         NEW field \in Value, NEW related \in Related, NEW path \in PlacePath, NEW no \in BOOLEAN, ~no,
         filter[place[1]].key \in {"_and", "_or"} =>
           \E shown : ObjectCompletes(shown, ObjectAt(filter, place), no, Append(path, place), field, related)
  PROVE  \E shown : PlaceCompletes(shown, filter, place, no, path, field, related)
<1> DEFINE entry == filter[place[1]]
           at == Append(path, place)
           made == MadeAt(filter, place, Null, path)
<1>1. entry \in ToSet(filter) /\ place \in Nat \X Nat
  BY PlaceKinds
<1>2. at \in PlacePath /\ Null \in Relation \cup {Null}
  BY <1>1, PathsGrow
<1>3. "field" \notin Operator /\ "field" \notin Relation /\ Relation \cap Operator = {} /\ Null \notin Relation /\ Null \notin Value
  BY FiltersAssumption DEF Operator
<1>4. CASE entry.key = "field"
  <2> DEFINE s == StatementAt(filter, place, Null, path)
             shown == [t \in made |-> field]
  <2>1. made = {s} /\ s.relation = Null /\ s.path = at /\ s.op = entry.op /\ s.value = entry.value
    BY <1>4 DEF MadeAt, StatementAt
  <2>2. \A t \in made : shown[t] = field
    OBVIOUS
  <2> HIDE DEF s, made, shown
  <2>3. Feasible(shown, made, field, related)
    BY <2>1, <2>2 DEF Feasible
  <2>4. ASSUME NEW holding, NEW unknown, PlaceMeans(filter, place, field, related), Agrees(shown, made, holding, unknown)
        PROVE  TermAt(filter, place, no, path, holding, unknown) = 2
    <3>1. Status(at, holding, unknown) = Told(s, field)
      BY <2>1, <2>2, <2>4 DEF Agrees
    <3>2. Holds(entry.op, field, entry.value)
      BY <1>3, <1>4, <2>4 DEF PlaceMeans, Means
    <3>3. Told(s, field) = 2
      BY <1>3, <2>1, <3>2 DEF Told
    <3> QED BY <1>4, <3>1, <3>3 DEF TermAt, Status
  <2>5. PlaceCompletes(shown, filter, place, no, path, field, related)
    BY <2>3, <2>4 DEF PlaceCompletes, made
  <2> QED BY <2>5
<1>5. CASE entry.key \in Operator /\ entry.key # "_nor"
  <2> DEFINE inner == ObjectAt(filter, place)
  <2>1. entry.key \in {"_and", "_or"}
    BY <1>5 DEF Operator
  <2>2. PICK shown : ObjectCompletes(shown, inner, no, at, field, related)
    BY <2>1
  <2>3. made = Made(inner, Null, at)
    BY <1>3, <1>5 DEF MadeAt, RelationAt
  <2>4. \A holding, unknown : TermAt(filter, place, no, path, holding, unknown) = Truth(inner, no, at, holding, unknown)
    <3> DEFINE next == entry.key = "_nor"
    <3>1. next = no
      BY <1>5
    <3>2. \A holding, unknown : TermAt(filter, place, no, path, holding, unknown) = Truth(inner, next, at, holding, unknown)
      BY <1>3, <1>5 DEF TermAt
    <3> QED BY <3>1, <3>2
  <2>5. PlaceMeans(filter, place, field, related) <=> Matches(inner, field, related)
    BY <1>5 DEF PlaceMeans
  <2> HIDE DEF inner, at, made
  <2>6. /\ Feasible(shown, made, field, related)
        /\ PlaceMeans(filter, place, field, related) =>
             \A holding, unknown :
               Agrees(shown, made, holding, unknown) => TermAt(filter, place, no, path, holding, unknown) = 2
    BY <2>2, <2>3, <2>4, <2>5 DEF ObjectCompletes
  <2>7. PlaceCompletes(shown, filter, place, no, path, field, related)
    BY <2>6 DEF PlaceCompletes, made
  <2> QED BY <2>7
<1>6. CASE entry.key = "_nor"
  <2> DEFINE inner == ObjectAt(filter, place)
             yes == entry.key = "_nor"
             shown == [t \in made |-> field]
  <2>1. entry.key \in Operator
    BY <1>6 DEF Operator
  <2>2. inner \in Inner(entry) /\ inner \in Filter
    BY <1>3, <2>1, PlaceKinds
  <2>3. Plain(inner) /\ Exactly(inner)
    BY <1>1, <1>6, <2>2, NorPlain
  <2>4. made = Made(inner, Null, at)
    BY <1>3, <2>1 DEF MadeAt, RelationAt
  <2>5. \A holding, unknown : TermAt(filter, place, no, path, holding, unknown) = Truth(inner, yes, at, holding, unknown)
    BY <1>3, <2>1 DEF TermAt
  <2>6. PlaceMeans(filter, place, field, related) <=> ~Matches(inner, field, related)
    BY <1>6, <2>1 DEF PlaceMeans
  <2>7. \A t \in made : shown[t] = field
    OBVIOUS
  <2>8. yes \in BOOLEAN /\ yes
    BY <1>6
  <2> HIDE DEF inner, at, made, yes, shown
  <2>9. \A s \in made : s.relation = Null
    BY <1>2, <2>2, <2>3, <2>4, PlainStatements
  <2>10. Feasible(shown, made, field, related)
    BY <2>7, <2>9 DEF Feasible
  <2>11. ASSUME NEW holding, NEW unknown, PlaceMeans(filter, place, field, related), Agrees(shown, made, holding, unknown)
         PROVE  TermAt(filter, place, no, path, holding, unknown) = 2
    <3>1. Truth(inner, yes, at, holding, unknown) = IF Matches(inner, field, related) <=> yes THEN 0 ELSE 2
      <4>1. /\ \A s \in Made(inner, Null, at) : shown[s] = field
            /\ Agrees(shown, Made(inner, Null, at), holding, unknown)
        BY <2>4, <2>7, <2>11
      <4>2. PlainRight(inner, field, related, holding, unknown)
        BY <2>2, <2>3, PlainTruth
      <4>3. Shows(Made(inner, Null, at), field, holding, unknown)
        BY <4>1 DEF Shows, Agrees
      <4> QED BY <1>2, <2>8, <4>2, <4>3 DEF PlainRight
    <3>2. ~Matches(inner, field, related)
      BY <2>6, <2>11
    <3>3. Truth(inner, yes, at, holding, unknown) = 2
      BY <2>8, <3>1, <3>2
    <3> QED BY <2>5, <3>3
  <2>12. PlaceCompletes(shown, filter, place, no, path, field, related)
    BY <2>10, <2>11 DEF PlaceCompletes, made
  <2> QED BY <2>12
<1>7. CASE entry.key \in Relation
  <2> DEFINE inner == entry.filter
             r == entry.key
             means == \E x \in related[r] : Matches(inner, x, related)
  <2>1. inner \in Inner(entry) /\ inner \in Filter /\ Plain(inner)
    <3>1. inner \in Inner(entry) /\ inner \in Filter /\ Keys(Objects(inner)) \cap Relation = {}
      BY <1>1, <1>3, <1>7, EntryKinds
    <3> QED BY <3>1, PlainIs
  <2>2. made = Made(inner, r, at)
    BY <1>3, <1>7 DEF MadeAt, RelationAt, ObjectAt
  <2>3. \A holding, unknown : TermAt(filter, place, no, path, holding, unknown) = Truth(inner, no, at, holding, unknown)
    BY <1>3, <1>7 DEF TermAt, ObjectAt
  <2>4. PlaceMeans(filter, place, field, related) <=> means
    BY <1>3, <1>7 DEF PlaceMeans, Means, Operator
  <2>5. related[r] \in SUBSET Value
    BY <1>7 DEF Related
  <2>6. \E x \in JoinedValues(related, r) : means => x \in related[r] /\ Matches(inner, x, related)
    BY DEF JoinedValues
  <2>7. PICK x \in JoinedValues(related, r) : means => x \in related[r] /\ Matches(inner, x, related)
    BY <2>6
  <2> DEFINE shown == [t \in made |-> x]
  <2>8. \A t \in made : shown[t] = x
    OBVIOUS
  <2>9. r \in Relation /\ r # Null
    BY <1>3, <1>7
  <2>10. Exactly(inner)
    BY <2>1
  <2> HIDE DEF inner, at, made, shown, r, means
  <2>11. \A s \in made : s.relation = r
    BY <1>2, <2>1, <2>2, <2>9, PlainStatements
  <2>12. Feasible(shown, made, field, related)
    BY <2>7, <2>8, <2>9, <2>11 DEF Feasible
  <2>13. ASSUME NEW holding, NEW unknown, means, Agrees(shown, made, holding, unknown)
         PROVE  TermAt(filter, place, no, path, holding, unknown) = 2
    <3>1. x \in Value /\ Matches(inner, x, related)
      BY <2>5, <2>7, <2>13
    <3>2. Truth(inner, no, at, holding, unknown) = IF Matches(inner, x, related) <=> no THEN 0 ELSE 2
      BY <1>2, <2>1, <2>2, <2>8, <2>9, <2>10, <2>13, <3>1, PlainCompletes
    <3> QED BY <2>3, <3>1, <3>2
  <2>14. PlaceCompletes(shown, filter, place, no, path, field, related)
    BY <2>4, <2>12, <2>13 DEF PlaceCompletes, made
  <2> QED BY <2>14
<1> QED BY <1>1, <1>4, <1>5, <1>6, <1>7, EntryKinds

\* Values for each place are values for the object.
LEMMA PlacesComplete ==
  ASSUME NEW filter \in Filter, NEW path \in PlacePath, NEW no, NEW field, NEW related,
         \A place \in Places(filter, DOMAIN filter) :
           \E shown : PlaceCompletes(shown, filter, place, no, path, field, related)
  PROVE  \E shown : \A place \in Places(filter, DOMAIN filter) :
           PlaceCompletes(shown, filter, place, no, path, field, related)
<1> DEFINE n == Len(path)
           all == Made(filter, Null, path)
           completes(shown, place) == PlaceCompletes(shown, filter, place, no, path, field, related)
           of == [place \in Places(filter, DOMAIN filter) |-> CHOOSE shown : completes(shown, place)]
           shown == [s \in all |-> of[s.path[n + 1]][s]]
<1>1. \A place \in Places(filter, DOMAIN filter) : completes(of[place], place)
  <2>1. \A place \in Places(filter, DOMAIN filter) : completes(CHOOSE W : completes(W, place), place)
    OBVIOUS
  <2> HIDE DEF completes
  <2> QED BY <2>1
<1>2. ASSUME NEW place \in Places(filter, DOMAIN filter) PROVE completes(shown, place)
  <2> DEFINE made == MadeAt(filter, place, Null, path)
             W == of[place]
  <2>1. Null \in Relation \cup {Null} /\ place \in Nat \X Nat
    BY PlaceKinds
  <2>2. ASSUME NEW s \in made PROVE s \in all /\ shown[s] = W[s]
    <3>1. s \in all /\ From(s.path, Append(path, place))
      BY <2>1, MadeIs, MadeFrom
    <3>2. s.path[n + 1] = place
      BY <2>1, <3>1, FromAppend
    <3> HIDE DEF of, all, n
    <3> QED BY <3>1, <3>2
  <2>3. completes(W, place)
    BY <1>1
  <2> HIDE DEF shown, of, W
  <2>4. /\ Feasible(W, made, field, related)
        /\ PlaceMeans(filter, place, field, related) =>
             \A holding, unknown :
               Agrees(W, made, holding, unknown) => TermAt(filter, place, no, path, holding, unknown) = 2
    BY <2>3 DEF PlaceCompletes
  <2> HIDE DEF made
  <2>5. Feasible(shown, made, field, related)
    BY <2>2, <2>4 DEF Feasible
  <2>6. \A holding, unknown : Agrees(shown, made, holding, unknown) => Agrees(W, made, holding, unknown)
    BY <2>2 DEF Agrees
  <2>7. /\ Feasible(shown, made, field, related)
        /\ PlaceMeans(filter, place, field, related) =>
             \A holding, unknown :
               Agrees(shown, made, holding, unknown) => TermAt(filter, place, no, path, holding, unknown) = 2
    BY <2>4, <2>5, <2>6
  <2> QED BY <2>7 DEF PlaceCompletes, made
<1> HIDE DEF shown
<1> QED BY <1>2

\* With these the bracketed entries are true if they mean so.
LEMMA EntriesComplete ==
  ASSUME NEW filter \in Filter, NEW entries, Bracketed(filter, entries), NEW path \in PlacePath, NEW no, NEW field, NEW related,
         NEW shown, NEW holding, NEW unknown, Agrees(shown, Made(filter, Null, path), holding, unknown),
         \A place \in Places(filter, DOMAIN filter) : PlaceCompletes(shown, filter, place, no, path, field, related),
         EntriesMean(filter, entries, field, related)
  PROVE  Bracket(filter, entries, no, path, holding, unknown) = 2
<1>1. entries \in SUBSET DOMAIN filter
  BY DEF Bracketed
<1>2. Places(filter, entries) \subseteq Places(filter, DOMAIN filter)
  BY <1>1, PlacesOf
<1>3. ASSUME NEW p \in Places(filter, entries), PlaceMeans(filter, p, field, related)
      PROVE  TermAt(filter, p, no, path, holding, unknown) = 2
  <2>1. p \in Places(filter, DOMAIN filter)
    BY <1>2
  <2>2. MadeAt(filter, p, Null, path) \subseteq Made(filter, Null, path)
    BY <2>1, MadeIs
  <2>3. Agrees(shown, MadeAt(filter, p, Null, path), holding, unknown)
    BY <2>2 DEF Agrees
  <2>4. PlaceCompletes(shown, filter, p, no, path, field, related)
    BY <2>1
  <2> QED BY <1>3, <2>3, <2>4 DEF PlaceCompletes
<1>4. TermsComplete(filter, entries, no, path, holding, unknown, field, related)
  BY <1>3 DEF TermsComplete
<1> QED BY <1>4, BracketMeans

\* Values that a row may show for each place it may show for the object.
LEMMA PlacesFeasible ==
  ASSUME NEW filter \in Filter, NEW path \in PlacePath, NEW no, NEW field, NEW related, NEW shown,
         \A place \in Places(filter, DOMAIN filter) : PlaceCompletes(shown, filter, place, no, path, field, related)
  PROVE  Feasible(shown, Made(filter, Null, path), field, related)
<1>1. \A place \in Places(filter, DOMAIN filter) : Feasible(shown, MadeAt(filter, place, Null, path), field, related)
  BY DEF PlaceCompletes
<1>2. \A s \in Made(filter, Null, path) : \E place \in Places(filter, DOMAIN filter) : s \in MadeAt(filter, place, Null, path)
  BY MadeIs
<1> QED BY <1>1, <1>2 DEF Feasible

\* There are such values for every object without exceptions.
LEMMA ObjectComplete ==
  ASSUME NEW filter \in Filter, Exactly(filter), NEW field \in Value, NEW related \in Related,
         NEW no \in BOOLEAN, ~no, NEW path \in PlacePath
  PROVE  \E shown : ObjectCompletes(shown, filter, no, path, field, related)
<1> DEFINE right == {g \in Filter : Exactly(g) => \A at \in PlacePath : \E shown : ObjectCompletes(shown, g, no, at, field, related)}
<1>1. Carried(right)
  <2> SUFFICES ASSUME NEW g \in Filter, \A entry \in ToSet(g) : Inner(entry) \subseteq right, Exactly(g), NEW at \in PlacePath
               PROVE  \E shown : ObjectCompletes(shown, g, no, at, field, related)
    BY DEF Carried
  <2>1. \A entry \in ToSet(g) : \A inner \in Inner(entry) : inner \in Filter /\ Exactly(inner)
    BY EntryKinds, ExactInside
  <2>2. \A entry \in ToSet(g) : \A inner \in Inner(entry) :
          \A p \in PlacePath : \E shown : ObjectCompletes(shown, inner, no, p, field, related)
    BY <2>1
  <2>3. g \in Objects(g)
    BY ObjectsOf
  <2>4. ~Mixed(g) /\ \A entry \in ToSet(g) : ~Multiple(entry) /\ ~Inexact(entry)
    BY <2>3 DEF Exactly
  <2>5. Bracketed(g, DOMAIN g)
    BY <2>4, AllBracketed
  <2> HIDE DEF right
  <2>6. ASSUME NEW place \in Places(g, DOMAIN g) PROVE \E shown : PlaceCompletes(shown, g, place, no, at, field, related)
    <3>1. g[place[1]] \in ToSet(g) /\ place \in Nat \X Nat
      BY PlaceKinds
    <3>2. Append(at, place) \in PlacePath
      BY <3>1, PathsGrow
    <3>3. g[place[1]].key \in {"_and", "_or"} =>
            \E shown : ObjectCompletes(shown, ObjectAt(g, place), no, Append(at, place), field, related)
      <4>1. g[place[1]].key \in {"_and", "_or"} => ObjectAt(g, place) \in Inner(g[place[1]])
        BY PlaceKinds
      <4> QED BY <2>2, <3>1, <3>2, <4>1
    <3>4. ~Multiple(g[place[1]]) /\ ~Inexact(g[place[1]]) /\ \A inner \in Inner(g[place[1]]) : Exactly(inner)
      BY <2>1, <2>4, <3>1
    <3> QED BY <3>3, <3>4, PlaceComplete
  <2>7. PICK shown : \A place \in Places(g, DOMAIN g) : PlaceCompletes(shown, g, place, no, at, field, related)
    BY <2>6, PlacesComplete
  <2>8. Feasible(shown, Made(g, Null, at), field, related)
    BY <2>7, PlacesFeasible
  <2>9. ASSUME Matches(g, field, related), NEW holding, NEW unknown, Agrees(shown, Made(g, Null, at), holding, unknown)
        PROVE  Truth(g, no, at, holding, unknown) = 2
    <3>1. EntriesMean(g, DOMAIN g, field, related)
      BY <2>9, MatchesMeans, FilterSequence DEF EntriesMean
    <3>2. Bracket(g, DOMAIN g, no, at, holding, unknown) = 2
      BY <2>5, <2>7, <2>9, <3>1, EntriesComplete
    <3> QED BY <3>2, TruthIs
  <2>10. ObjectCompletes(shown, g, no, at, field, related)
    BY <2>8, <2>9 DEF ObjectCompletes
  <2> QED BY <2>10
<1>2. right \in SUBSET Filter
  OBVIOUS
<1> HIDE DEF right
<1>3. right = Filter
  BY <1>1, <1>2, FilterInduction
<1> QED BY <1>3 DEF right

\* What a filter means, it finds with some values.
LEMMA WhereComplete ==
  ASSUME NEW filter \in Filter, Exact(filter), NEW field \in Value, NEW related \in Related, Matches(filter, field, related)
  PROVE  \E shown : /\ Feasible(shown, Statements(filter), field, related)
                    /\ \A holding, unknown :
                         Agrees(shown, Statements(filter), holding, unknown) => WhereHolds(filter, holding, unknown)
<1> DEFINE no == FALSE
<1>1. no \in BOOLEAN /\ ~no /\ <<>> \in PlacePath
  BY EmptySeq DEF PlacePath
<1>2. \A holding, unknown :
        (\A entries \in Apart(filter) : Bracket(filter, entries, no, <<>>, holding, unknown) = 2) => WhereHolds(filter, holding, unknown)
  BY WhereHoldsIs
<1> HIDE DEF no
<1>3. Statements(filter) = Made(filter, Null, <<>>)
  BY StatementsMade
<1>4. /\ \A entry \in ToSet(filter) : ~Multiple(entry) /\ ~Inexact(entry)
      /\ \A entry \in ToSet(filter) : \A inner \in Inner(entry) : Exactly(inner)
      /\ \A entries \in Apart(filter) : Bracketed(filter, entries)
      /\ UNION Apart(filter) = DOMAIN filter
  BY ExactOf
<1>5. ASSUME NEW place \in Places(filter, DOMAIN filter)
      PROVE  \E shown : PlaceCompletes(shown, filter, place, no, <<>>, field, related)
  <2>1. filter[place[1]] \in ToSet(filter) /\ place \in Nat \X Nat
    BY PlaceKinds
  <2>2. Append(<<>>, place) \in PlacePath
    BY <1>1, <2>1, PathsGrow
  <2>3. filter[place[1]].key \in {"_and", "_or"} =>
          \E shown : ObjectCompletes(shown, ObjectAt(filter, place), no, Append(<<>>, place), field, related)
    <3>1. SUFFICES ASSUME filter[place[1]].key \in {"_and", "_or"}
                   PROVE  \E shown : ObjectCompletes(shown, ObjectAt(filter, place), no, Append(<<>>, place), field, related)
      OBVIOUS
    <3>2. ObjectAt(filter, place) \in Inner(filter[place[1]]) /\ ObjectAt(filter, place) \in Filter
      BY <3>1, PlaceKinds
    <3>3. Exactly(ObjectAt(filter, place))
      BY <1>4, <2>1, <3>2
    <3> QED BY <1>1, <2>2, <3>2, <3>3, ObjectComplete
  <2>4. ~Multiple(filter[place[1]]) /\ ~Inexact(filter[place[1]]) /\ \A inner \in Inner(filter[place[1]]) : Exactly(inner)
    BY <1>4, <2>1
  <2> QED BY <1>1, <2>3, <2>4, PlaceComplete
<1>6. PICK shown : \A place \in Places(filter, DOMAIN filter) : PlaceCompletes(shown, filter, place, no, <<>>, field, related)
  BY <1>1, <1>5, PlacesComplete
<1>7. Feasible(shown, Made(filter, Null, <<>>), field, related)
  BY <1>1, <1>6, PlacesFeasible
<1>8. \A i \in DOMAIN filter : Means(filter[i], field, related)
  BY MatchesMeans, FilterSequence
<1>9. ASSUME NEW holding, NEW unknown, Agrees(shown, Made(filter, Null, <<>>), holding, unknown)
      PROVE  WhereHolds(filter, holding, unknown)
  <2>1. ASSUME NEW entries \in Apart(filter) PROVE Bracket(filter, entries, no, <<>>, holding, unknown) = 2
    <3>1. Bracketed(filter, entries)
      BY <1>4
    <3>2. EntriesMean(filter, entries, field, related)
      BY <1>8, <3>1 DEF Bracketed, EntriesMean
    <3> QED BY <1>1, <1>6, <1>9, <3>1, <3>2, EntriesComplete
  <2> QED BY <1>2, <2>1
<1> QED BY <1>3, <1>7, <1>9

-----------------------------------------------------------------------------
(* Filters: TypeORM, rows *)

\* The rows of a document, what one shows to the statements, and which of them hold and are unknown
JoinOf(statement, filter) == <<statement.relation, Join(statement, filter)>>
RowJoins(filter) == {JoinOf(s, filter) : s \in {t \in Statements(filter) : t.relation # Null}}
Rows(filter, related) ==
  {row \in [RowJoins(filter) -> Value \cup {Null}] : \A j \in RowJoins(filter) : row[j] \in JoinedValues(related, j[1])}
ShownBy(row, filter, field) ==
  [s \in Statements(filter) |-> IF s.relation = Null THEN field ELSE row[JoinOf(s, filter)]]
HoldingOf(shown, filter) ==
  {s.path : s \in {t \in Statements(filter) : shown[t] # Null /\ Holds(t.op, shown[t], t.value)}}
UnknownOf(shown, filter) == {s.path : s \in {t \in Statements(filter) : shown[t] = Null}}

\* TypeormFinds, with those
LEMMA TypeormFindsIs ==
  ASSUME NEW filter, NEW clash \in BOOLEAN, ~clash, NEW document
  PROVE  TypeormFinds(filter, clash, document) <=>
           \E row \in Rows(filter, document.related) :
             LET shown == ShownBy(row, filter, document.field)
             IN WhereHolds(filter, HoldingOf(shown, filter), UnknownOf(shown, filter))
<1> DEFINE statements == Statements(filter)
           join == [s \in statements |-> Join(s, filter)]
           value == [s \in statements |-> Parameter(s, filter, clash)]
           related(r) == IF document.related[r] = {} THEN {Null} ELSE document.related[r]
           joined == {<<s.relation, join[s]>> : s \in {t \in statements : t.relation # Null}}
           rows == {row \in [joined -> Value \cup {Null}] : \A j \in joined : row[j] \in related(j[1])}
           shown(s, row) == IF s.relation = Null THEN document.field ELSE row[<<s.relation, join[s]>>]
           holding(row) == {s.path : s \in {t \in statements : shown(t, row) # Null /\ Holds(t.op, shown(t, row), value[t])}}
           unknown(row) == {s.path : s \in {t \in statements : shown(t, row) = Null}}
<1>1. TypeormFinds(filter, clash, document) <=> \E row \in rows : WhereHolds(filter, holding(row), unknown(row))
  BY DEF TypeormFinds
<1>2. \A s \in statements : value[s] = s.value /\ <<s.relation, join[s]>> = JoinOf(s, filter)
  BY DEF Parameter, JoinOf
<1>3. joined = RowJoins(filter)
  BY <1>2 DEF RowJoins
<1>4. rows = Rows(filter, document.related)
  <2>1. \A r : related(r) = JoinedValues(document.related, r)
    BY DEF JoinedValues
  <2> HIDE DEF joined, related
  <2> QED BY <1>3, <2>1 DEF Rows
<1>5. ASSUME NEW row
      PROVE  LET by == ShownBy(row, filter, document.field)
             IN holding(row) = HoldingOf(by, filter) /\ unknown(row) = UnknownOf(by, filter)
  <2> DEFINE by == ShownBy(row, filter, document.field)
  <2>1. \A s \in statements : shown(s, row) = by[s]
    BY <1>2 DEF ShownBy
  <2> HIDE DEF shown, by, value, join
  <2>2. {t \in statements : shown(t, row) # Null /\ Holds(t.op, shown(t, row), value[t])}
          = {t \in Statements(filter) : by[t] # Null /\ Holds(t.op, by[t], t.value)}
    BY <1>2, <2>1
  <2>3. {t \in statements : shown(t, row) = Null} = {t \in Statements(filter) : by[t] = Null}
    BY <2>1
  <2>4. holding(row) = HoldingOf(by, filter)
    BY <2>2 DEF HoldingOf
  <2>5. unknown(row) = UnknownOf(by, filter)
    BY <2>3 DEF UnknownOf
  <2> QED BY <2>4, <2>5 DEF by
<1> HIDE DEF rows, holding, unknown
<1> QED BY <1>1, <1>4, <1>5

\* No two statements are at the same path.
LEMMA PathsDiffer ==
  ASSUME NEW filter \in Filter, NEW s \in Statements(filter), NEW t \in Statements(filter), s.path = t.path
  PROVE  s = t
<1>1. Statements(filter) = Made(filter, Null, <<>>) /\ <<>> \in PlacePath
  BY StatementsMade, EmptySeq DEF PlacePath
<1>2. s.path \in PlacePath /\ t.path \in PlacePath
  BY <1>1, MadeIs DEF Statement
<1>3. ~Earlier(s.path, t.path) /\ ~Earlier(t.path, s.path)
  BY <1>2, EarlierOrders
<1> QED BY <1>1, <1>3, MadeInLine

\* What holds and is unknown for a row agrees with what it shows.
LEMMA RowAgrees ==
  ASSUME NEW filter \in Filter, NEW shown
  PROVE  Agrees(shown, Statements(filter), HoldingOf(shown, filter), UnknownOf(shown, filter))
<1> DEFINE holding == HoldingOf(shown, filter)
           unknown == UnknownOf(shown, filter)
<1>1. ASSUME NEW s \in Statements(filter) PROVE Status(s.path, holding, unknown) = Told(s, shown[s])
  <2>1. s.path \in unknown <=> shown[s] = Null
    BY PathsDiffer DEF UnknownOf
  <2>2. s.path \in holding <=> shown[s] # Null /\ Holds(s.op, shown[s], s.value)
    BY PathsDiffer DEF HoldingOf
  <2> HIDE DEF holding, unknown
  <2> QED BY <2>1, <2>2 DEF Status, Told
<1> QED BY <1>1 DEF Agrees

\* There is a row for all values that fit the statements, as no two share a join.
LEMMA RowShows ==
  ASSUME NEW filter \in Filter, Single(filter), NEW field, NEW related, NEW shown,
         Feasible(shown, Statements(filter), field, related), \A r \in Relation : related[r] \in SUBSET Value
  PROVE  \E row \in Rows(filter, related) : \A s \in Statements(filter) : ShownBy(row, filter, field)[s] = shown[s]
<1> DEFINE chosen(j) == CHOOSE s \in Statements(filter) : s.relation # Null /\ JoinOf(s, filter) = j
           row == [j \in RowJoins(filter) |-> shown[chosen(j)]]
<1>1. ASSUME NEW s \in Statements(filter) PROVE s.relation \in Relation \cup {Null}
  <2>1. Statements(filter) = Made(filter, Null, <<>>) /\ <<>> \in PlacePath /\ Null \in Relation \cup {Null}
    BY StatementsMade, EmptySeq DEF PlacePath
  <2> QED BY <2>1, MadeIs DEF Statement
<1>2. ASSUME NEW s \in Statements(filter), s.relation # Null
      PROVE  JoinOf(s, filter) \in RowJoins(filter) /\ row[JoinOf(s, filter)] = shown[s]
  <2>1. JoinOf(s, filter) \in RowJoins(filter)
    BY <1>2 DEF RowJoins
  <2> DEFINE c == chosen(JoinOf(s, filter))
  <2>2. c \in Statements(filter) /\ c.relation # Null /\ JoinOf(c, filter) = JoinOf(s, filter)
    BY <1>2
  <2> HIDE DEF c
  <2>3. c.relation \in Relation /\ s.relation = c.relation /\ Join(s, filter) = Join(c, filter)
    BY <1>1, <2>2 DEF JoinOf
  <2>4. c = s
    BY <2>2, <2>3, JoinsDiffer
  <2> QED BY <2>1, <2>4 DEF c
<1>3. ASSUME NEW j \in RowJoins(filter) PROVE row[j] \in Value \cup {Null} /\ row[j] \in JoinedValues(related, j[1])
  <2>1. PICK s \in Statements(filter) : s.relation # Null /\ j = JoinOf(s, filter)
    BY DEF RowJoins
  <2>2. row[j] = shown[s] /\ j[1] = s.relation /\ s.relation \in Relation
    BY <1>1, <1>2, <2>1 DEF JoinOf
  <2> HIDE DEF row
  <2>3. shown[s] \in JoinedValues(related, s.relation)
    BY <2>1 DEF Feasible
  <2>4. JoinedValues(related, s.relation) \subseteq Value \cup {Null}
    BY <2>2 DEF JoinedValues
  <2> QED BY <2>2, <2>3, <2>4
<1>4. row \in Rows(filter, related)
  BY <1>3 DEF Rows
<1>5. ASSUME NEW s \in Statements(filter) PROVE ShownBy(row, filter, field)[s] = shown[s]
  <2>1. s.relation = Null => shown[s] = field
    BY DEF Feasible
  <2> HIDE DEF row
  <2> QED BY <1>2, <2>1 DEF ShownBy
<1> HIDE DEF row
<1> QED BY <1>4, <1>5

\* What a row shows it may show.
LEMMA RowFeasible ==
  ASSUME NEW filter \in Filter, NEW field, NEW related, NEW row \in Rows(filter, related)
  PROVE  Feasible(ShownBy(row, filter, field), Statements(filter), field, related)
<1>1. ASSUME NEW s \in Statements(filter), s.relation # Null
      PROVE  ShownBy(row, filter, field)[s] \in JoinedValues(related, s.relation)
  <2>1. JoinOf(s, filter) \in RowJoins(filter) /\ JoinOf(s, filter)[1] = s.relation
    BY <1>1 DEF RowJoins, JoinOf
  <2>2. row[JoinOf(s, filter)] \in JoinedValues(related, s.relation)
    BY <2>1 DEF Rows
  <2> QED BY <1>1, <2>2 DEF ShownBy
<1>2. \A s \in Statements(filter) : s.relation = Null => ShownBy(row, filter, field)[s] \in {field}
  BY DEF ShownBy
<1> QED BY <1>1, <1>2 DEF Feasible

\* TypeORM finds what a filter without exceptions means.
LEMMA TypeormKeepsMeaning ==
  ASSUME NEW filter \in Filter, Exact(filter), NEW document \in Document, NEW clash \in BOOLEAN, ~clash
  PROVE  TypeormFinds(filter, clash, document) <=> Matches(filter, document.field, document.related)
<1> DEFINE field == document.field
           related == document.related
           means == Matches(filter, field, related)
           finds(shown) == WhereHolds(filter, HoldingOf(shown, filter), UnknownOf(shown, filter))
<1>1. field \in Value /\ related \in Related /\ \A r \in Relation : related[r] \in SUBSET Value
  BY DEF Document, Related
<1>2. TypeormFinds(filter, clash, document) <=> \E row \in Rows(filter, related) : finds(ShownBy(row, filter, field))
  BY TypeormFindsIs
<1> HIDE DEF field, related
<1>3. ASSUME NEW row \in Rows(filter, related), finds(ShownBy(row, filter, field)) PROVE means
  BY <1>1, <1>3, RowFeasible, RowAgrees, WhereSound
<1>4. ASSUME means PROVE \E row \in Rows(filter, related) : finds(ShownBy(row, filter, field))
  <2>1. PICK shown : /\ Feasible(shown, Statements(filter), field, related)
                     /\ \A holding, unknown :
                          Agrees(shown, Statements(filter), holding, unknown) => WhereHolds(filter, holding, unknown)
    BY <1>1, <1>4, WhereComplete
  <2>2. PICK row \in Rows(filter, related) : \A s \in Statements(filter) : ShownBy(row, filter, field)[s] = shown[s]
    BY <1>1, <2>1, RowShows DEF Exact
  <2> DEFINE by == ShownBy(row, filter, field)
  <2>3. Agrees(by, Statements(filter), HoldingOf(by, filter), UnknownOf(by, filter))
    BY RowAgrees
  <2>4. Agrees(shown, Statements(filter), HoldingOf(by, filter), UnknownOf(by, filter))
    BY <2>2, <2>3 DEF Agrees
  <2>5. finds(by)
    BY <2>1, <2>4
  <2> QED BY <2>5
<1>5. means \in BOOLEAN
  BY <1>1, MatchesMeans
<1> HIDE DEF means, finds
<1>6. (\E row \in Rows(filter, related) : finds(ShownBy(row, filter, field))) <=> means
  BY <1>3, <1>4
<1> QED BY <1>2, <1>6 DEF means, field, related

-----------------------------------------------------------------------------
(* Filters: the theorem *)

ExactSearch(filter, clash) ==
  LET objects == Objects(filter)
  IN /\ \A entry \in EntriesOf(objects) : ~Multiple(entry) /\ ~Inexact(entry)
     /\ \A object \in objects \ {filter} : ~Mixed(object)
     /\ ~clash

\* What FiltersKeepTheirMeaning says of one filter and one document
LEMMA FiltersNext ==
  ASSUME NEW filter \in Filter, NEW clash \in BOOLEAN, NEW document \in Document
  PROVE  LET means == Matches(filter, document.field, document.related)
         IN /\ (\A object \in Objects(filter) : ~LosesAnd(object)) =>
                 (MongooseFinds(filter, document.field, document.related) <=> means)
            /\ ExactSearch(filter, clash) => (TypeormFinds(filter, clash, document) <=> means)
<1> DEFINE means == Matches(filter, document.field, document.related)
<1>1. document.field \in Value /\ document.related \in Related
  BY DEF Document, Related
<1>2. ASSUME \A object \in Objects(filter) : ~LosesAnd(object)
      PROVE  MongooseFinds(filter, document.field, document.related) <=> means
  BY <1>1, <1>2, MongooseKeepsMeaning
<1>3. ASSUME ExactSearch(filter, clash) PROVE TypeormFinds(filter, clash, document) <=> means
  <2>1. Exact(filter) /\ ~clash
    BY <1>3 DEF ExactSearch, Exact, Single, EntriesOf
  <2> QED BY <2>1, TypeormKeepsMeaning
<1> QED BY <1>2, <1>3

(* Whatever filter a query has, of finite depth and without a relation below a relation, and whatever *)
(* the document: the aggregation of the mongoose service finds it when the filter matches it, and the *)
(* where clause with its joins of the TypeORM service does, except for the filters that               *)
(* FiltersKeepTheirMeaning names.                                                                     *)
THEOREM FiltersAlwaysKeepTheirMeaning == FiltersSpec => []FiltersKeepTheirMeaning
<1> DEFINE Inv == search = NoSearch \/ (search.filter \in Filter /\ search.clash \in BOOLEAN)
           Next == (\E filter \in Filter, clash \in BOOLEAN : Search(filter, clash)) \/ search' = NoSearch
<1>1. search = NoSearch => Inv
  OBVIOUS
<1>2. Inv /\ [Next]_search => Inv'
  BY DEF Search
<1>3. Inv => FiltersKeepTheirMeaning
  <2>1. SUFFICES ASSUME search.filter \in Filter, search.clash \in BOOLEAN PROVE FiltersKeepTheirMeaning
    BY DEF NoSearch, FiltersKeepTheirMeaning
  <2> DEFINE filter == search.filter
             clash == search.clash
  <2>2. \A document \in Document :
          LET means == Matches(filter, document.field, document.related)
          IN /\ (\A object \in Objects(filter) : ~LosesAnd(object)) =>
                  (MongooseFinds(filter, document.field, document.related) <=> means)
             /\ ExactSearch(filter, clash) => (TypeormFinds(filter, clash, document) <=> means)
    BY <2>1, FiltersNext
  <2> QED BY <2>2 DEF FiltersKeepTheirMeaning, ExactSearch
<1>4. FiltersSpec => []Inv
  BY <1>1, <1>2, PTL DEF FiltersSpec
<1> QED BY <1>3, <1>4, PTL
=============================================================================
