----------------------------- MODULE PrinterFiles -----------------------------
(***************************************************************************)
(* The files of a printer: the list in its document (PrinterFilesService), *)
(* the copy in FileCache that PrinterFilesStore keeps, and the uploads     *)
(* FileUploadTrackerCache follows.                                         *)
(*                                                                         *)
(* A change reads the document, changes its list, saves it, and then       *)
(* changes the cache: calls of several requests mix.  A list assigned as a *)
(* whole is saved only if the document's version is still the one that was *)
(* read; a file that was pushed is appended to whatever is stored.         *)
(***************************************************************************)
EXTENDS Actors, Naturals, SequencesExt

CONSTANTS
    File,       \* paths of files
    Old,        \* files uploaded before the days that files are kept
    Listing,    \* OctoPrint's answer to "list the files", an object without a path
    Token       \* correlation tokens of uploads, each given out once

ASSUME FilesAssumption ==
    /\ Old \subseteq File /\ IsFiniteSet(Old)
    /\ None \notin File \cup Token

VARIABLES
    fileDb,     \* fileDb[p]: fileList in the document of p
    fileCache,  \* fileCache[p]: the entry of p in FileCache, <<>> if there is none
    uploads,    \* uploads[t]: the record of the tracker, and whether it listens to t
    fileReq,    \* fileReq[r]: what request r waits for
    fileSuspect \* history: printers whose list two requests were changing at once,
                \* a change of several lists failed half-way for, or from which a file
                \* was deleted that was not listed

fileVars == <<fileDb, fileCache, uploads, fileReq, fileSuspect>>

Entry == File \cup {Listing}

\* "cleaned": files were cleaned for an upload; "upload": it is on its way to OctoPrint;
\* "save": the list is read and changed; "reply": it is saved, the reply is under way
FileStage == {"idle", "cleaned", "upload", "save", "reply"}
ListChange == {"refresh", "append", "delete", "clear", "purge"}
NoFileReq == [stage |-> "idle", about |-> {}, p |-> None, change |-> "refresh", file |-> None,
              list |-> <<>>, push |-> FALSE, same |-> TRUE, todo |-> {}, token |-> None]

NoUpload == [at |-> "unused", progress |-> 0, heard |-> FALSE]

FilesTypeOK ==
    /\ fileDb \in [Printer -> Seq(Entry)]
    /\ fileCache \in [Printer -> Seq(Entry)]
    /\ uploads \in [Token -> [at : {"unused", "current", "done", "failed", "forgotten"},
                              progress : 0..1, heard : BOOLEAN]]
    /\ fileReq \in [Request -> [stage : FileStage, about : SUBSET Printer,
                                p : Printer \cup {None}, change : ListChange,
                                file : File \cup {None}, list : Seq(Entry), push : BOOLEAN,
                                same : BOOLEAN, todo : SUBSET Printer, token : Token \cup {None}]]
    /\ fileSuspect \subseteq Printer

-----------------------------------------------------------------------------
(* Lists of files.                                                         *)

Listed(s, f) == \E i \in DOMAIN s : s[i] = f
IndexOf(s, f) == CHOOSE i \in DOMAIN s : s[i] = f /\ \A j \in 1..(i - 1) : s[j] # f

\* appendOrReplaceFile: the entry of a file that is listed is replaced
Put(s, f) == IF Listed(s, f) THEN s ELSE Append(s, f)

\* purgeFile: a file that is not cached is only warned of
Without(s, f) == IF Listed(s, f) THEN RemoveAt(s, IndexOf(s, f)) ELSE s

\* deleteFile: splice(fileIndex, 1), where fileIndex is -1 for a file that is not listed
Spliced(s, f) ==
    IF Listed(s, f) \/ s = <<>> THEN Without(s, f) ELSE Front(s)

\* Variant: OctoPrint's answer is stored as it is
ChangedBare(change, s, f) ==
    CASE change = "refresh" -> Listing
      [] change = "append" -> Put(s, f)
      [] change = "delete" -> Spliced(s, f)
      [] OTHER -> <<>>

\* The list a change makes of the one that was read
Changed(change, s, f) ==
    CASE change = "refresh" -> <<Listing>>      \* the answer, wrapped in an array
      [] change = "append" -> Put(s, f)
      [] change = "delete" -> Spliced(s, f)
      [] OTHER -> <<>>

\* Variant: clearing a list leaves the cache alone
CachedAfterClear(change, s, f, list) ==
    IF change \in {"refresh", "append"} THEN list ELSE Without(s, f)

\* What the cache has once the list is saved
Cached(change, s, f, list) ==
    CASE change \in {"refresh", "append"} -> list
      [] change = "delete" -> Without(s, f)
      [] OTHER -> <<>>

-----------------------------------------------------------------------------
(* Changing a list.                                                        *)

About(r, p) == p \in fileReq[r].about

\* Request r starts to change the lists of ps
Overlap(r, ps) == {p \in ps : \E q \in Request \ {r} : About(q, p)}

\* r reads the document of p, in a change of the printers ps
Reading(r, ps, p, change, f, todo, token) ==
    fileReq' = [fileReq EXCEPT ![r] =
        [stage |-> "save", about |-> ps, p |-> p, change |-> change, file |-> f,
         list |-> Changed(change, fileDb[p], f),
         push |-> change = "append" /\ ~Listed(fileDb[p], f),
         same |-> TRUE, todo |-> todo, token |-> token]]

FilesDone(r) == fileReq' = [fileReq EXCEPT ![r] = NoFileReq]

Change(r, p, change, f, token) ==
    /\ Reading(r, {p}, p, change, f, {}, token)
    /\ fileSuspect' = fileSuspect \cup Overlap(r, {p})
                        \cup {q \in {p} : change = "delete" /\ ~Listed(fileDb[p], f)}

\* getFiles: eagerLoadPrinterFiles has OctoPrint's answer
Refresh(r, p) ==
    /\ fileReq[r].stage = "idle"
    /\ Change(r, p, "refresh", None, None)
    /\ UNCHANGED <<fileDb, fileCache, uploads>>

Outdated(p) == {f \in Old : Listed(fileCache[p], f)}

\* cleanPrinterFiles, by the task or before the upload of f: OctoPrint has deleted of the
\* outdated files those it could
CleanFiles(r, p, f) ==
    /\ fileReq[r].stage = "idle"
    /\ f = None => Outdated(p) # {}
    /\ Change(r, p, "refresh", f, None)
    /\ UNCHANGED <<fileDb, fileCache, uploads>>

\* deleteFileOrFolder, once OctoPrint has deleted the file
DeleteFile(r, p, f) ==
    /\ fileReq[r].stage = "idle"
    /\ Change(r, p, "delete", f, None)
    /\ UNCHANGED <<fileDb, fileCache, uploads>>

\* clearPrinterFiles, whatever OctoPrint could delete
ClearPrinterFiles(r, p) ==
    /\ fileReq[r].stage = "idle"
    /\ Change(r, p, "clear", None, None)
    /\ UNCHANGED <<fileDb, fileCache, uploads>>

\* purgeFiles: the documents one after the other, then the caches
PurgeFiles(r, p) ==
    /\ fileReq[r].stage = "idle"
    /\ Reading(r, Printer, p, "purge", None, Printer \ {p}, None)
    /\ fileSuspect' = fileSuspect \cup Overlap(r, Printer)
    /\ UNCHANGED <<fileDb, fileCache, uploads>>

PurgeNext(r, p) ==
    /\ fileReq[r].stage = "reply" /\ p \in fileReq[r].todo
    /\ Reading(r, Printer, p, "purge", None, fileReq[r].todo \ {p}, None)
    /\ UNCHANGED <<fileDb, fileCache, uploads, fileSuspect>>

\* Variant: a push makes no version
VersionedUnlessPushed(r, s, q) ==
    fileReq[s].stage = "save" /\ fileReq[s].p = q.p /\ ~q.push

\* The save of q by r is a new version for s
NewVersion(r, s, q) == s # r /\ fileReq[s].stage = "save" /\ fileReq[s].p = q.p

\* save(): refused if the version has changed.  A push is not checked, but makes a version.
SaveList(r) ==
    LET q == fileReq[r] IN
    /\ q.stage = "save"
    /\ q.push \/ q.same
    /\ fileDb' = [fileDb EXCEPT ![q.p] = IF q.push THEN Append(@, q.file) ELSE q.list]
    /\ fileReq' = [s \in Request |->
          IF s = r THEN [q EXCEPT !.stage = "reply"]
          ELSE IF NewVersion(r, s, q) THEN [fileReq[s] EXCEPT !.same = FALSE]
          ELSE fileReq[s]]
    /\ UNCHANGED <<fileCache, uploads, fileSuspect>>

\* VersionError, or the database is away.  Documents that were cleared before stay cleared.
RefuseList(r) ==
    LET q == fileReq[r] IN
    /\ q.stage = "save"
    /\ fileSuspect' = IF q.change = "purge" THEN fileSuspect \cup (Printer \ (q.todo \cup {q.p}))
                      ELSE fileSuspect
    /\ FilesDone(r)
    /\ UNCHANGED <<fileDb, fileCache, uploads>>

\* The cache follows.  An upload that cleans the printer's files first goes on.
ListSaved(r) ==
    LET q == fileReq[r] IN
    /\ q.stage = "reply" /\ q.todo = {}
    /\ fileCache' = [p \in Printer |->
          IF p \in q.about THEN Cached(q.change, fileCache[p], q.file, q.list) ELSE fileCache[p]]
    /\ IF q.change = "refresh" /\ q.file # None
       THEN fileReq' = [fileReq EXCEPT ![r] = [NoFileReq EXCEPT !.stage = "cleaned", !.p = q.p,
                                                                !.file = q.file]]
       ELSE FilesDone(r)
    /\ UNCHANGED <<fileDb, uploads, fileSuspect>>

-----------------------------------------------------------------------------
(* Uploads.                                                                *)

\* uploadFile: the tracker follows it from here; localUploadFile has no token
StartUpload(r, p, f, t) ==
    /\ \/ fileReq[r].stage = "idle"
       \/ fileReq[r].stage = "cleaned" /\ fileReq[r].p = p /\ fileReq[r].file = f
    /\ t # None => uploads[t].at = "unused"
    /\ uploads' = [u \in Token |-> IF u = t THEN [at |-> "current", progress |-> 0, heard |-> TRUE]
                                   ELSE uploads[u]]
    /\ fileReq' = [fileReq EXCEPT ![r] = [NoFileReq EXCEPT !.stage = "upload", !.p = p,
                                                           !.file = f, !.token = t]]
    /\ UNCHANGED <<fileDb, fileCache, fileSuspect>>

\* What axios reports, and what the API client does when the upload fails
AxiosProgress == [loaded |-> 1, total |-> 1]
UploadFailure == [failed |-> TRUE]

\* Variant: the tracker goes on listening to an upload that failed
StillHeard(u, event) ==
    IF "failed" \in DOMAIN event THEN [u EXCEPT !.at = "failed"] ELSE [u EXCEPT !.progress = event.loaded]

\* updateUploadProgress: done and percent are no fields of axios' events
Tracked(u, event) ==
    IF "done" \in DOMAIN event \/ "percent" \in DOMAIN event
    THEN [u EXCEPT !.at = "done", !.heard = FALSE]
    ELSE IF "failed" \in DOMAIN event
    THEN [u EXCEPT !.at = "failed", !.heard = FALSE]
    ELSE [u EXCEPT !.progress = event.loaded]

\* The event reaches the tracker while it listens
Notify(t, event) ==
    uploads' = [u \in Token |-> IF u = t /\ uploads[u].heard THEN Tracked(uploads[u], event)
                                ELSE uploads[u]]

UploadProgress(r) ==
    /\ fileReq[r].stage = "upload"
    /\ Notify(fileReq[r].token, AxiosProgress)
    /\ UNCHANGED <<fileDb, fileCache, fileReq, fileSuspect>>

UploadFails(r) ==
    /\ fileReq[r].stage = "upload"
    /\ Notify(fileReq[r].token, UploadFailure)
    /\ FilesDone(r)
    /\ UNCHANGED <<fileDb, fileCache, fileSuspect>>

\* OctoPrint has the file: it is added to the list
UploadSucceeds(r) ==
    LET q == fileReq[r] IN
    /\ q.stage = "upload"
    /\ Change(r, q.p, "append", q.file, q.token)
    /\ UNCHANGED <<fileDb, fileCache, uploads>>

\* loadFilesStore: a printer whose files cannot be read has none.  The tracker starts empty.
FilesRestart ==
    \E ps \in SUBSET Printer :
        /\ fileCache' = [p \in Printer |-> IF p \in ps THEN fileDb[p] ELSE <<>>]
        /\ fileSuspect' = fileSuspect \cup (Printer \ ps)
    /\ uploads' = [t \in Token |-> IF uploads[t].at = "unused" THEN NoUpload
                                   ELSE [NoUpload EXCEPT !.at = "forgotten"]]
    /\ fileReq' = [r \in Request |-> NoFileReq]
    /\ UNCHANGED fileDb

-----------------------------------------------------------------------------
FilesInit ==
    /\ fileDb \in [Printer -> {<<>>, SetToSeq(Old)}]
    /\ fileCache = fileDb
    /\ uploads = [t \in Token |-> NoUpload]
    /\ fileReq = [r \in Request |-> NoFileReq]
    /\ fileSuspect = {}

FilesNext ==
    \/ \E r \in Request :
          \/ \E p \in Printer :
                \/ Refresh(r, p) \/ ClearPrinterFiles(r, p) \/ PurgeFiles(r, p) \/ PurgeNext(r, p)
                \/ CleanFiles(r, p, None)
                \/ \E f \in File : DeleteFile(r, p, f) \/ CleanFiles(r, p, f)
                \/ \E f \in File, t \in Token \cup {None} : StartUpload(r, p, f, t)
          \/ SaveList(r) \/ RefuseList(r) \/ ListSaved(r)
          \/ UploadProgress(r) \/ UploadFails(r) \/ UploadSucceeds(r)
    \/ FilesRestart

FilesSpec == FilesInit /\ [][FilesNext]_fileVars

-----------------------------------------------------------------------------
(* Properties.                                                             *)

\* FileCache has the list of the document of a printer whose list no request is
\* changing, unless two requests about it have overlapped, a purge was cut short, or
\* a file was deleted that is not listed.
FilesAgree ==
    \A p \in Printer : p \in fileSuspect \/ (\E r \in Request : About(r, p)) \/ fileCache[p] = fileDb[p]

\* Whatever overlaps, a list that is about to be written as a whole under an unchanged
\* version is made from what is stored: no other request's file is lost by it.
NothingLost ==
    \A r \in Request :
        LET q == fileReq[r] IN
        q.stage = "save" /\ q.same => q.list = Changed(q.change, fileDb[q.p], q.file)

\* The tracker listens to exactly the uploads it lists as current, and lists every upload
\* under way: no progress is reported of an upload it does not find.
UploadsHeard ==
    /\ \A t \in Token : uploads[t].heard <=> uploads[t].at = "current"
    /\ \A r \in Request :
          fileReq[r].stage = "upload" /\ fileReq[r].token # None =>
              uploads[fileReq[r].token].at = "current"
=============================================================================
