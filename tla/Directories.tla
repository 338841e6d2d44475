---------------------------- MODULE Directories -----------------------------
(***************************************************************************)
(* The names and the directories of stored files, while calls of           *)
(* FileManager.storeFile and deleteFile (src/lib/storage/file-manager.ts)  *)
(* run together.  FilesystemAdapter makes the directory of a file before   *)
(* it writes it, and after it has deleted one, it sweeps all directories   *)
(* for empty ones (FilesUtil.removeEmptyDirectories): each of them is      *)
(* listed, and what it has is looked at in parallel.  The first error ends *)
(* the sweep, but what it has started goes on.                             *)
(*                                                                         *)
(* A directory is the sequence of the names that lead to it; <<>> is that  *)
(* of all files, which stays.                                              *)
(***************************************************************************)
EXTENDS Naturals, Sequences, SequencesExt, FiniteSets

CONSTANTS
  Caller,  \* calls of storeFile and deleteFile
  Default  \* what a field does not declare

VARIABLES
  layout,   \* the patterns of the names: of the module, and of the field
  dirs,     \* the directories in that of all files
  content,  \* content[name]: which call has written the file
  recorded, \* recorded[name]: which call has saved the metadata
  caller    \* the calls

directoriesVars == <<layout, dirs, content, recorded, caller>>

\* walks[d]: how far the sweep is in directory d; probes: the files that it has listed and not looked
\* at yet; met: history of what other calls have done to the directories meanwhile.
Resting == [pc |-> "idle", name |-> [dir |-> <<>>, file |-> <<>>], walks |-> <<>>, probes |-> {}, met |-> {}, end |-> "none"]

NoLayout == [namePattern |-> <<>>]

DirectoriesInit ==
  /\ layout = NoLayout /\ dirs = {} /\ content = <<>> /\ recorded = <<>>
  /\ caller = [c \in Caller |-> Resting]

Drop(f, keys) == [x \in DOMAIN f \ keys |-> f[x]]
Put(f, key, value) == [x \in DOMAIN f \cup {key} |-> IF x = key THEN value ELSE f[x]]
Above(dir) == {SubSeq(dir, 1, n) : n \in 1 .. Len(dir)}
Files(dir) == {name \in DOMAIN content : name.dir = dir}
Subdirectories(dir) == {d \in dirs : d # <<>> /\ Front(d) = dir}
IsEmpty(dir) == Files(dir) = {} /\ Subdirectories(dir) = {}

\* Files that are there, each as written by a call of its own
Arrange(patterns, stored) ==
  /\ layout = NoLayout
  /\ layout' = patterns
  /\ dirs' = UNION {Above(name.dir) : name \in stored}
  /\ content' = [name \in stored |-> name] /\ recorded' = content'
  /\ UNCHANGED caller

Goes(c, q) == caller' = [caller EXCEPT ![c] = q]

\* Call c, which is q now, has done something that disturbs others.
Disturbs(c, q, what) ==
  caller' = [p \in Caller |-> CASE p = c -> q
                           [] p # c /\ caller[p].pc \in {"idle", "over"} -> caller[p]
                           [] OTHER -> [caller[p] EXCEPT !.met = @ \cup {what}]]

(***************************************************************************)
(* storeFile                                                               *)
(***************************************************************************)
\* replacePatternVariables
Replaced(pattern, variables) ==
  [i \in DOMAIN pattern |-> IF pattern[i] \in DOMAIN variables THEN variables[pattern[i]] ELSE pattern[i]]

Variables(c, meta) == [fieldName |-> meta.field, uuid |-> c]

\* The pattern of the field, or that of the module
DirectoryName(c, meta) ==
  Replaced(IF layout.props.dirname = Default THEN layout.dirPattern ELSE layout.props.dirname, Variables(c, meta))

FileName(c, original, meta) ==
  Replaced(IF layout.props.filename = Default THEN layout.namePattern ELSE layout.props.filename,
           [v \in {"fieldName", "uuid", "name"} |-> IF v = "name" THEN original ELSE Variables(c, meta)[v]])

StoreFile(c, original, meta) ==
  /\ caller[c].pc = "idle"
  /\ Goes(c, [Resting EXCEPT !.pc = "storing",
                             !.name = [dir |-> DirectoryName(c, meta), file |-> FileName(c, original, meta)]])
  /\ UNCHANGED <<layout, dirs, content, recorded>>

\* Mutant: only the first level is made.
EnsureTop(c) ==
  /\ caller[c].pc = "storing"
  /\ dirs' = dirs \cup {d \in Above(caller[c].name.dir) : Len(d) = 1}
  /\ Disturbs(c, [caller[c] EXCEPT !.pc = "writing"], "mkdir")
  /\ UNCHANGED <<layout, content, recorded>>

\* ensureDirectoryExists, for getFilePath
EnsureDirectory(c) ==
  LET q == caller[c] IN
  /\ q.pc = "storing"
  /\ dirs' = dirs \cup Above(q.name.dir)
  /\ Disturbs(c, [q EXCEPT !.pc = "writing"], "mkdir")
  /\ UNCHANGED <<layout, content, recorded>>

\* writeFile also writes over what is there.  Without the directory, the adapter answers false, and
\* persistFile throws.
WriteFile(c) ==
  LET q == caller[c] IN
  /\ q.pc = "writing"
  /\ IF q.name.dir \in dirs \cup {<<>>}
       THEN /\ content' = Put(content, q.name, c)
            /\ Disturbs(c, [q EXCEPT !.pc = "saving"], "write")
       ELSE /\ Goes(c, [q EXCEPT !.pc = "over", !.end = "failed"])
            /\ UNCHANGED content
  /\ UNCHANGED <<layout, dirs, recorded>>

\* The name is unique among the metadata.
SaveMeta(c) ==
  LET q == caller[c] IN
  /\ q.pc = "saving"
  /\ IF q.name \in DOMAIN recorded
       THEN Goes(c, [q EXCEPT !.pc = "over", !.end = "thrown"]) /\ UNCHANGED recorded
       ELSE Goes(c, [q EXCEPT !.pc = "over", !.end = "stored"]) /\ recorded' = Put(recorded, q.name, c)
  /\ UNCHANGED <<layout, dirs, content>>

(***************************************************************************)
(* deleteFile                                                              *)
(***************************************************************************)
DeleteFile(c, name) ==
  /\ caller[c].pc = "idle"
  /\ Goes(c, [Resting EXCEPT !.pc = "deleting", !.name = name])
  /\ UNCHANGED <<layout, dirs, content, recorded>>

UnlinkFile(c) ==
  LET q == caller[c] IN
  /\ q.pc = "deleting"
  /\ IF q.name \in DOMAIN content
       THEN /\ content' = Drop(content, {q.name})
            /\ Disturbs(c, [q EXCEPT !.pc = "sweeping", !.walks = [d \in {<<>>} |-> "called"]], "unlink")
       ELSE /\ Goes(c, [q EXCEPT !.pc = "over", !.end = "kept"])
            /\ UNCHANGED content
  /\ UNCHANGED <<layout, dirs, recorded>>

\* A call of removeEmptyDirectories returns, or rejects those that wait for it.
Returned(q, dir) ==
  [q EXCEPT !.walks = Drop(@, {dir}), !.pc = IF dir = <<>> THEN "forgetting" ELSE @]
Rejected(q, dir) ==
  [q EXCEPT !.walks = Drop(@, {<<>>} \cup Above(dir)), !.pc = "over", !.end = "kept"]

\* lstat and readdir
Visit(c, dir) ==
  LET q == caller[c] IN
  /\ q.walks[dir] = "called"
  /\ Goes(c, CASE dir \notin dirs \cup {<<>>}    -> Rejected(q, dir)
               [] dir = <<>> /\ IsEmpty(dir)     -> Returned(q, dir)
               [] dir \in dirs /\ IsEmpty(dir)    -> [q EXCEPT !.walks[dir] = "empty"]
               [] OTHER ->
                 [q EXCEPT !.walks = [d \in DOMAIN @ \cup Subdirectories(dir) |->
                                        CASE d = dir -> "waiting"
                                          [] d # dir /\ d \in Subdirectories(dir) -> "called"
                                          [] OTHER -> @[d]],
                           !.probes = @ \cup Files(dir)])
  /\ UNCHANGED <<layout, dirs, content, recorded>>

\* lstat of what is a file, or was one
Probe(c, name) ==
  LET q == [caller[c] EXCEPT !.probes = @ \ {name}] IN
  /\ name \in caller[c].probes
  /\ Goes(c, IF name \in DOMAIN content THEN q ELSE Rejected(q, name.dir))
  /\ UNCHANGED <<layout, dirs, content, recorded>>

\* All that the directory had has been looked at: readdir again
Revisit(c, dir) ==
  LET q == caller[c] IN
  /\ q.walks[dir] = "waiting"
  /\ \A d \in DOMAIN q.walks : d # <<>> => Front(d) # dir
  /\ \A name \in q.probes : name.dir # dir
  /\ Goes(c, CASE dir \notin dirs \cup {<<>>}   -> Rejected(q, dir)
               [] dir \in dirs /\ IsEmpty(dir)  -> [q EXCEPT !.walks[dir] = "empty"]
               [] OTHER                         -> Returned(q, dir))
  /\ UNCHANGED <<layout, dirs, content, recorded>>

\* rmdir fails if the directory is not empty any more, or gone.
Rmdir(c, dir) ==
  LET q == caller[c] IN
  /\ q.walks[dir] = "empty"
  /\ IF dir \in dirs /\ IsEmpty(dir)
       THEN dirs' = dirs \ {dir} /\ Disturbs(c, Returned(q, dir), "rmdir")
       ELSE Goes(c, Rejected(q, dir)) /\ UNCHANGED dirs
  /\ UNCHANGED <<layout, content, recorded>>

\* The metadata goes only if the adapter has answered true.
DeleteMeta(c) ==
  /\ caller[c].pc = "forgetting"
  /\ recorded' = Drop(recorded, {caller[c].name})
  /\ Goes(c, [caller[c] EXCEPT !.pc = "over", !.end = "deleted"])
  /\ UNCHANGED <<layout, dirs, content>>

DirectoriesStep(c) ==
  \/ EnsureDirectory(c) \/ WriteFile(c) \/ SaveMeta(c)
  \/ UnlinkFile(c) \/ DeleteMeta(c)
  \/ \E dir \in DOMAIN caller[c].walks : Visit(c, dir) \/ Revisit(c, dir) \/ Rmdir(c, dir)
  \/ \E name \in caller[c].probes : Probe(c, name)

-----------------------------------------------------------------------------
Deleting(name) == {c \in Caller : caller[c].name = name /\ caller[c].pc \in {"sweeping", "forgetting"}}
Unanswered(c) == caller[c].end = "kept" /\ caller[c].met # {}
Unique == "uuid" \in ToSet(IF layout.props.filename = Default THEN layout.namePattern ELSE layout.props.filename)
Stores(c) == caller[c].pc \in {"storing", "writing", "saving"} \/ caller[c].end \in {"stored", "thrown", "failed"}
Settled == \A c \in Caller : caller[c].pc \in {"idle", "over"} /\ caller[c].walks = <<>> /\ caller[c].probes = {}

(* A name that has metadata has its file, and as the call wrote it that saved the metadata, unless a  *)
(* delete of it is under way, or has answered false because the sweep met another call               *)
(* (files.util.ts:75), or a store has got the same name, of a pattern without uuid.  A store fails only if a sweep has     *)
(* removed the directory that it had found, and a delete only if the sweep met another call, or      *)
(* another call has the name.  And once all is quiet, a directory is empty only after a sweep that   *)
(* met another call.                                                                                 *)
StoredFilesStand ==
  /\ \A name \in DOMAIN recorded :
       \/ name \in DOMAIN content /\ content[name] = recorded[name]
       \/ Deleting(name) # {}
       \/ \E c \in Caller : caller[c].name = name /\ (Unanswered(c) \/ (~Unique /\ Stores(c)))
  /\ \A c \in Caller :
       /\ caller[c].end = "failed" => "rmdir" \in caller[c].met
       /\ caller[c].end = "kept" => caller[c].met # {} \/ \E p \in Caller \ {c} : caller[p].name = caller[c].name
  /\ Settled => \A dir \in dirs :
       \/ \E name \in DOMAIN content : IsPrefix(dir, name.dir)
       \/ \E c \in Caller : Unanswered(c)
=============================================================================
