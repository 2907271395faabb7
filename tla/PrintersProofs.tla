---------------------------- MODULE PrintersProofs ----------------------------
(***************************************************************************)
(* Theorems about what is kept per printer and the requests about single   *)
(* printers: the lists of files and the uploads, connection tests, calls   *)
(* and batches of them, and the events cache, for any numbers of printers, *)
(* files and requests.  The components share no state: what is a theorem   *)
(* of each is one of all, side by side.                                    *)
(***************************************************************************)
EXTENDS MCPrinters, FiniteSetTheorems, WellFoundedInduction, TLAPS

-----------------------------------------------------------------------------
(* Files: what requests hold.                                              *)

FileReq ==
    [stage : FileStage, about : SUBSET Printer, p : Printer \cup {None}, change : ListChange,
     file : File \cup {None}, list : Seq(Entry), push : BOOLEAN, same : BOOLEAN,
     todo : SUBSET Printer, token : Token \cup {None}]

\* Which fields of a request go with which of its stages
Consistent(q) ==
    /\ IF q.stage \in {"save", "reply"}
       THEN q.p \in q.about /\ q.todo \subseteq q.about \ {q.p}
       ELSE q.about = {}
    /\ IF q.change = "purge" THEN q.about = Printer
       ELSE q.todo = {} /\ q.about \subseteq {q.p}
    /\ q.push => q.change = "append"
    /\ q.stage \in {"cleaned", "upload"} => q.p \in Printer
    /\ q.stage \in {"cleaned", "upload"} \/ q.change = "append" => q.file \in File

FilesTyped == FilesTypeOK /\ \A r \in Request : Consistent(fileReq[r])

-----------------------------------------------------------------------------
(* Lists and requests.                                                     *)

LEMMA NothingType == NoFileReq \in FileReq /\ Consistent(NoFileReq)
BY DEF NoFileReq, FileReq, Consistent, FileStage, ListChange

LEMMA SetStage ==
    ASSUME NEW q \in FileReq, NEW stage \in FileStage, NEW p \in Printer \cup {None},
           NEW f \in File \cup {None}, NEW t \in Token \cup {None}
    PROVE  /\ [q EXCEPT !.stage = stage, !.p = p, !.file = f] \in FileReq
           /\ [q EXCEPT !.stage = stage, !.p = p, !.file = f, !.token = t] \in FileReq
<1>1. [q EXCEPT !.stage = stage] \in FileReq
  BY DEF FileReq
<1>2. \A x \in FileReq : [x EXCEPT !.p = p] \in FileReq
  BY DEF FileReq
<1>3. \A x \in FileReq : [x EXCEPT !.file = f] \in FileReq
  BY DEF FileReq
<1>4. \A x \in FileReq : [x EXCEPT !.token = t] \in FileReq
  BY DEF FileReq
<1>5. QED
  BY <1>1, <1>2, <1>3, <1>4, Zenon

LEMMA StageConsistent ==
    ASSUME NEW p \in Printer, NEW f \in File, NEW t \in Token \cup {None}
    PROVE  /\ Consistent([NoFileReq EXCEPT !.stage = "cleaned", !.p = p, !.file = f])
           /\ Consistent([NoFileReq EXCEPT !.stage = "upload", !.p = p, !.file = f, !.token = t])
BY DEF NoFileReq, Consistent

LEMMA OldType == SetToSeq(Old) \in Seq(Entry)
<1> DEFINE n == Cardinality(Old)
<1>1. n \in Nat /\ ExistsBijection(1..n, Old)
  BY FilesAssumption, FS_CardinalityType
<1>2. PICK f \in [1..n -> Old] : \A a, b \in 1..n : f[a] = f[b] => a = b
  BY <1>1 DEF ExistsBijection, Bijection, Injection, Surjection, IsInjective
<1>3. \E g \in [1..n -> Old] : IsInjective(g)
  BY <1>2 DEF IsInjective
<1>4. SetToSeq(Old) \in [1..n -> Old]
  BY <1>3 DEF SetToSeq
<1>5. SetToSeq(Old) \in [1..n -> Entry]
  BY <1>4, FilesAssumption DEF Entry
<1>6. QED
  BY <1>1, <1>5

\* A file that is listed has a first entry.
LEMMA FirstEntry ==
    ASSUME NEW s \in Seq(Entry), NEW f, Listed(s, f)
    PROVE  IndexOf(s, f) \in DOMAIN s
<1> DEFINE R == OpToRel(<, Nat)
           T == {i \in DOMAIN s : s[i] = f}
<1>1. IsWellFoundedOn(R, Nat)
  BY NatLessThanWellFounded
<1>2. T \subseteq Nat /\ T # {}
  BY DEF Listed
<1>3. PICK i \in T : \A j \in T : ~(<<j, i>> \in R)
  <2> HIDE DEF R, T
  <2> QED BY <1>1, <1>2, WFMin
<1>4. \A j \in Nat : j < i => <<j, i>> \in R
  BY <1>2 DEF OpToRel
<1>5. i \in DOMAIN s /\ s[i] = f /\ \A j \in 1..(i - 1) : s[j] # f
  <2> HIDE DEF R
  <2>1. i \in 1..Len(s) /\ s[i] = f
    BY <1>3
  <2>2. ASSUME NEW j \in 1..(i - 1), s[j] = f PROVE FALSE
    <3>1. j \in T /\ j \in Nat /\ j < i
      BY <2>1, <2>2
    <3>2. QED
      BY <3>1, <1>3, <1>4
  <2>3. QED
    BY <2>1, <2>2
<1>6. QED
  BY <1>5 DEF IndexOf

LEMMA WithoutType ==
    ASSUME NEW s \in Seq(Entry), NEW f
    PROVE  Without(s, f) \in Seq(Entry)
<1>1. CASE ~Listed(s, f)
  BY <1>1 DEF Without
<1>2. ASSUME NEW i \in 1..Len(s) PROVE RemoveAt(s, i) \in Seq(Entry)
  <2>1. SubSeq(s, 1, i - 1) \in Seq(Entry) /\ SubSeq(s, i + 1, Len(s)) \in Seq(Entry)
    OBVIOUS
  <2>2. QED
    BY <2>1 DEF RemoveAt
<1>3. CASE Listed(s, f)
  BY <1>2, <1>3, FirstEntry DEF Without
<1>4. QED
  BY <1>1, <1>3

LEMMA ChangedType ==
    ASSUME NEW change \in ListChange, NEW s \in Seq(Entry), NEW f,
           change = "append" => f \in File
    PROVE  Changed(change, s, f) \in Seq(Entry)
<1>1. CASE change = "refresh"
  BY <1>1 DEF Changed, Entry
<1>2. CASE change = "append"
  BY <1>2 DEF Changed, Put, Entry
<1>3. CASE change = "delete"
  <2>1. s # <<>> => Front(s) \in Seq(Entry)
    BY DEF Front
  <2>2. QED
    BY <1>3, <2>1, WithoutType DEF Changed, Spliced
<1>4. CASE change \notin {"refresh", "append", "delete"}
  BY <1>4 DEF Changed
<1>5. QED
  BY <1>1, <1>2, <1>3, <1>4

LEMMA CachedType ==
    ASSUME NEW change \in ListChange, NEW s \in Seq(Entry), NEW list \in Seq(Entry), NEW f
    PROVE  Cached(change, s, f, list) \in Seq(Entry)
BY WithoutType DEF Cached

\* A request that reads a list is one that may save it.
LEMMA ReadingType ==
    ASSUME FilesTyped, NEW r \in Request, NEW ps \in SUBSET Printer, NEW p \in ps,
           NEW change \in ListChange, NEW f \in File \cup {None}, NEW todo \in SUBSET (ps \ {p}),
           NEW token \in Token \cup {None}, change = "append" => f \in File,
           IF change = "purge" THEN ps = Printer ELSE ps = {p} /\ todo = {},
           Reading(r, ps, p, change, f, todo, token)
    PROVE  fileReq' \in [Request -> FileReq] /\ \A q \in Request : Consistent(fileReq'[q])
<1> DEFINE new == fileReq'[r]
<1>1. Changed(change, fileDb[p], f) \in Seq(Entry)
  BY ChangedType DEF FilesTyped, FilesTypeOK
<1>2. new = [stage |-> "save", about |-> ps, p |-> p, change |-> change, file |-> f,
             list |-> Changed(change, fileDb[p], f),
             push |-> change = "append" /\ ~Listed(fileDb[p], f),
             same |-> TRUE, todo |-> todo, token |-> token]
  BY DEF Reading, FilesTyped, FilesTypeOK
<1> HIDE DEF new
<1>3. new \in FileReq
  BY <1>1, <1>2 DEF FileReq, FileStage
<1>4. Consistent(new)
  <2>1. new.stage = "save" /\ new.about = ps /\ new.p = p /\ new.change = change
        /\ new.file = f /\ new.todo = todo /\ (new.push => change = "append")
    BY <1>2
  <2>2. QED
    BY <2>1 DEF Consistent
<1> USE DEF new
<1>5. QED
  BY <1>3, <1>4 DEF Reading, FilesTyped, FilesTypeOK, FileReq
LEMMA ChangeType ==
    ASSUME FilesTyped, NEW r \in Request, NEW p \in Printer,
           NEW change \in ListChange \ {"purge"}, NEW f \in File \cup {None},
           NEW token \in Token \cup {None}, change = "append" => f \in File,
           Change(r, p, change, f, token), UNCHANGED <<fileDb, fileCache, uploads>>
    PROVE  FilesTyped'
<1>1. Reading(r, {p}, p, change, f, {}, token) /\ fileSuspect' \subseteq fileSuspect \cup {p}
  BY DEF Change, Overlap
<1>2. fileReq' \in [Request -> FileReq] /\ \A q \in Request : Consistent(fileReq'[q])
  BY <1>1, ReadingType
<1>3. QED
  BY <1>1, <1>2 DEF FilesTyped, FilesTypeOK, FileReq

LEMMA SavedType ==
    ASSUME NEW q \in FileReq, Consistent(q), q.stage = "save"
    PROVE  /\ [q EXCEPT !.stage = "reply"] \in FileReq /\ Consistent([q EXCEPT !.stage = "reply"])
           /\ [q EXCEPT !.same = FALSE] \in FileReq /\ Consistent([q EXCEPT !.same = FALSE])
BY DEF FileReq, FileStage, Consistent

LEMMA TrackedType ==
    ASSUME NEW u \in [at : {"unused", "current", "done", "failed", "forgotten"},
                      progress : 0..1, heard : BOOLEAN]
    PROVE  /\ Tracked(u, AxiosProgress) = [u EXCEPT !.progress = 1]
           /\ Tracked(u, UploadFailure) = [u EXCEPT !.at = "failed", !.heard = FALSE]
BY DEF Tracked, AxiosProgress, UploadFailure

Upload ==
    [at : {"unused", "current", "done", "failed", "forgotten"}, progress : 0..1, heard : BOOLEAN]

LEMMA NotifyType ==
    ASSUME uploads \in [Token -> Upload], NEW t,
           NEW event \in {AxiosProgress, UploadFailure}, Notify(t, event)
    PROVE  uploads' \in [Token -> Upload]
<1>1. \A u \in Upload : [u EXCEPT !.progress = 1] \in Upload
  BY DEF Upload
<1>2. \A u \in Upload : [u EXCEPT !.at = "failed"] \in Upload
  BY DEF Upload
<1>3. \A u \in Upload : [u EXCEPT !.heard = FALSE] \in Upload
  BY DEF Upload
<1>4. \A u \in Upload : [u EXCEPT !.at = "failed", !.heard = FALSE] \in Upload
  BY <1>2, <1>3, Zenon
<1>5. \A u \in Upload : Tracked(u, event) \in Upload
  <2> TAKE u \in Upload
  <2>1. Tracked(u, AxiosProgress) = [u EXCEPT !.progress = 1]
        /\ Tracked(u, UploadFailure) = [u EXCEPT !.at = "failed", !.heard = FALSE]
    BY TrackedType DEF Upload
  <2>2. QED
    BY <1>1, <1>4, <2>1
<1>6. QED
  BY <1>5 DEF Notify

-----------------------------------------------------------------------------
(* Every state is well-typed.                                              *)

LEMMA FilesTypedStart == FilesInit => FilesTyped
<1> SUFFICES ASSUME FilesInit PROVE FilesTyped
  OBVIOUS
<1>1. fileReq \in [Request -> FileReq] /\ \A r \in Request : Consistent(fileReq[r])
  BY NothingType DEF FilesInit
<1>2. fileDb \in [Printer -> Seq(Entry)]
  <2>1. fileDb \in [Printer -> {<<>>, SetToSeq(Old)}] /\ <<>> \in Seq(Entry)
    BY DEF FilesInit
  <2>2. QED
    BY <2>1, OldType
<1>3. QED
  BY <1>1, <1>2 DEF FilesInit, FilesTyped, FilesTypeOK, FileReq, NoUpload

\* Every operation on files and uploads, and a restart, keeps the types.
LEMMA FilesTypedStep == FilesTyped /\ [FilesNext]_fileVars => FilesTyped'
<1> SUFFICES ASSUME FilesTyped, [FilesNext]_fileVars PROVE FilesTyped'
  OBVIOUS
<1>0. fileReq \in [Request -> FileReq] /\ \A r \in Request : Consistent(fileReq[r])
  BY DEF FilesTyped, FilesTypeOK, FileReq
<1>1. ASSUME NEW r \in Request, NEW p \in Printer, Refresh(r, p) PROVE FilesTyped'
  BY <1>1, ChangeType DEF Refresh, ListChange
<1>2. ASSUME NEW r \in Request, NEW p \in Printer, ClearPrinterFiles(r, p) PROVE FilesTyped'
  BY <1>2, ChangeType DEF ClearPrinterFiles, ListChange
<1>3. ASSUME NEW r \in Request, NEW p \in Printer, NEW f \in File \cup {None}, CleanFiles(r, p, f)
      PROVE  FilesTyped'
  BY <1>3, ChangeType DEF CleanFiles, ListChange
<1>4. ASSUME NEW r \in Request, NEW p \in Printer, NEW f \in File, DeleteFile(r, p, f)
      PROVE  FilesTyped'
  BY <1>4, ChangeType DEF DeleteFile, ListChange
<1>5. ASSUME NEW r \in Request, UploadSucceeds(r) PROVE FilesTyped'
  <2>1. fileReq[r].p \in Printer /\ fileReq[r].file \in File /\ fileReq[r].token \in Token \cup {None}
    BY <1>5, <1>0 DEF UploadSucceeds, Consistent, FileReq
  <2>2. Change(r, fileReq[r].p, "append", fileReq[r].file, fileReq[r].token)
        /\ UNCHANGED <<fileDb, fileCache, uploads>>
    BY <1>5 DEF UploadSucceeds
  <2>3. QED
    BY <2>1, <2>2, ChangeType DEF ListChange
<1>6. ASSUME NEW r \in Request, NEW p \in Printer, PurgeFiles(r, p) \/ PurgeNext(r, p)
      PROVE  FilesTyped'
  <2>1. PICK todo \in SUBSET (Printer \ {p}) : Reading(r, Printer, p, "purge", None, todo, None)
    BY <1>6, <1>0 DEF PurgeFiles, PurgeNext, FileReq
  <2>2. fileReq' \in [Request -> FileReq] /\ \A q \in Request : Consistent(fileReq'[q])
    BY <2>1, ReadingType DEF ListChange
  <2>3. fileSuspect' \subseteq Printer
    BY <1>6 DEF PurgeFiles, PurgeNext, Overlap, FilesTyped, FilesTypeOK
  <2>4. QED
    BY <1>6, <2>2, <2>3 DEF PurgeFiles, PurgeNext, FilesTyped, FilesTypeOK, FileReq
<1>7. ASSUME NEW r \in Request, SaveList(r) PROVE FilesTyped'
  <2>1. fileReq' \in [Request -> FileReq] /\ \A s \in Request : Consistent(fileReq'[s])
    <3>1. \A s \in Request : NewVersion(r, s, fileReq[r]) => fileReq[s].stage = "save"
      BY DEF NewVersion
    <3>2. \A s \in Request : fileReq[s].stage = "save" =>
            /\ [fileReq[s] EXCEPT !.stage = "reply"] \in FileReq
            /\ Consistent([fileReq[s] EXCEPT !.stage = "reply"])
            /\ [fileReq[s] EXCEPT !.same = FALSE] \in FileReq
            /\ Consistent([fileReq[s] EXCEPT !.same = FALSE])
      BY <1>0, SavedType
    <3>3. QED
      BY <1>7, <1>0, <3>1, <3>2 DEF SaveList
  <2>2. fileReq[r].list \in Seq(Entry) /\ fileReq[r].p \in Printer
        /\ (fileReq[r].push => fileReq[r].file \in File)
    BY <1>7, <1>0 DEF SaveList, FileReq, Consistent
  <2>3. ASSUME NEW s \in Seq(Entry), fileReq[r].push PROVE Append(s, fileReq[r].file) \in Seq(Entry)
    BY <2>2, <2>3 DEF Entry
  <2>4. fileDb' \in [Printer -> Seq(Entry)]
    BY <1>7, <2>2, <2>3 DEF SaveList, FilesTyped, FilesTypeOK
  <2>5. QED
    BY <1>7, <2>1, <2>4 DEF SaveList, FilesTyped, FilesTypeOK, FileReq
<1>8. ASSUME NEW r \in Request, RefuseList(r) PROVE FilesTyped'
  <2>1. fileReq' \in [Request -> FileReq] /\ \A s \in Request : Consistent(fileReq'[s])
    BY <1>8, <1>0, NothingType DEF RefuseList, FilesDone
  <2>2. QED
    BY <1>8, <2>1 DEF RefuseList, FilesTyped, FilesTypeOK, FileReq
<1>9. ASSUME NEW r \in Request, ListSaved(r) PROVE FilesTyped'
  <2> DEFINE q == fileReq[r]
             cleaned == [NoFileReq EXCEPT !.stage = "cleaned", !.p = q.p, !.file = q.file]
  <2>1. q \in FileReq /\ q.p \in Printer
    BY <1>9, <1>0 DEF ListSaved, FileReq, Consistent
  <2>2. q.file # None => cleaned \in FileReq /\ Consistent(cleaned)
    <3>1. q.p \in Printer \cup {None} /\ q.file \in File \cup {None} /\ "cleaned" \in FileStage
      BY <2>1 DEF FileReq, FileStage
    <3>2. q.file # None => q.file \in File
      BY <3>1
    <3>3. QED
      BY <2>1, <3>1, <3>2, NothingType, SetStage, StageConsistent
  <2>3. fileReq' \in [Request -> FileReq] /\ \A s \in Request : Consistent(fileReq'[s])
    BY <1>9, <1>0, <2>2, NothingType DEF ListSaved, FilesDone
  <2>4. fileCache' \in [Printer -> Seq(Entry)]
    <3>1. \A p \in Printer : Cached(q.change, fileCache[p], q.file, q.list) \in Seq(Entry)
      BY <2>1, CachedType DEF FilesTyped, FilesTypeOK, FileReq
    <3>2. QED
      BY <1>9, <3>1 DEF ListSaved, FilesTyped, FilesTypeOK
  <2>5. QED
    BY <1>9, <2>3, <2>4 DEF ListSaved, FilesTyped, FilesTypeOK, FileReq
<1>10. ASSUME NEW r \in Request, NEW p \in Printer, NEW f \in File, NEW t \in Token \cup {None},
              StartUpload(r, p, f, t)
       PROVE  FilesTyped'
  <2> DEFINE q == [NoFileReq EXCEPT !.stage = "upload", !.p = p, !.file = f, !.token = t]
  <2>1. q \in FileReq /\ Consistent(q)
    BY NothingType, SetStage, StageConsistent DEF FileStage
  <2>2. fileReq' \in [Request -> FileReq] /\ \A s \in Request : Consistent(fileReq'[s])
    BY <1>10, <1>0, <2>1 DEF StartUpload
  <2>3. QED
    BY <1>10, <2>2 DEF StartUpload, FilesTyped, FilesTypeOK, FileReq
<1>11. ASSUME NEW r \in Request, UploadProgress(r) PROVE FilesTyped'
  BY <1>11, NotifyType DEF UploadProgress, Upload, FilesTyped, FilesTypeOK
<1>12. ASSUME NEW r \in Request, UploadFails(r) PROVE FilesTyped'
  <2>1. fileReq' \in [Request -> FileReq] /\ \A s \in Request : Consistent(fileReq'[s])
    BY <1>12, <1>0, NothingType DEF UploadFails, FilesDone
  <2>2. uploads' \in [Token -> Upload]
    BY <1>12, NotifyType DEF UploadFails, Upload, FilesTyped, FilesTypeOK
  <2>3. QED
    BY <1>12, <2>1, <2>2 DEF UploadFails, Upload, FilesTyped, FilesTypeOK, FileReq
<1>13. CASE FilesRestart
  <2>1. fileReq' \in [Request -> FileReq] /\ \A s \in Request : Consistent(fileReq'[s])
    BY <1>13, NothingType DEF FilesRestart
  <2>2. NoUpload \in Upload /\ [NoUpload EXCEPT !.at = "forgotten"] \in Upload
    <3>1. NoUpload \in Upload
      BY DEF NoUpload, Upload
    <3>2. QED
      BY <3>1 DEF Upload
  <2>3. uploads' \in [Token -> Upload]
    BY <1>13, <2>2 DEF FilesRestart
  <2>4. fileCache' \in [Printer -> Seq(Entry)] /\ fileSuspect' \subseteq Printer /\ UNCHANGED fileDb
    BY <1>13 DEF FilesRestart, FilesTyped, FilesTypeOK
  <2>5. QED
    BY <2>1, <2>3, <2>4 DEF Upload, FilesTyped, FilesTypeOK, FileReq
<1>14. CASE UNCHANGED fileVars
  BY <1>14 DEF fileVars, FilesTyped, FilesTypeOK
<1>15. QED
  BY <1>1, <1>2, <1>3, <1>4, <1>5, <1>6, <1>7, <1>8, <1>9, <1>10, <1>11, <1>12, <1>13, <1>14
     DEF FilesNext

LEMMA FilesAlwaysTyped == FilesSpec => []FilesTyped
BY FilesTypedStart, FilesTypedStep, PTL DEF FilesSpec
-----------------------------------------------------------------------------
(* What is written is made of what is stored.                              *)

\* A file that is to be pushed is not listed, unless the list was changed since.
PushedIsNew ==
    \A r \in Request :
        fileReq[r].stage = "save" /\ fileReq[r].push /\ fileReq[r].same =>
            ~Listed(fileDb[fileReq[r].p], fileReq[r].file)

ListsFresh == NothingLost /\ PushedIsNew

LEMMA ReadingFresh ==
    ASSUME FilesTyped, ListsFresh, NEW r \in Request, NEW ps, NEW p, NEW change, NEW f, NEW todo,
           NEW token, Reading(r, ps, p, change, f, todo, token), UNCHANGED fileDb
    PROVE  ListsFresh'
BY DEF Reading, ListsFresh, NothingLost, PushedIsNew, FilesTyped, FilesTypeOK

LEMMA OtherFresh ==
    ASSUME FilesTyped, ListsFresh, NEW r \in Request, NEW q, q.stage # "save",
           fileReq' = [fileReq EXCEPT ![r] = q], UNCHANGED fileDb
    PROVE  ListsFresh'
BY DEF ListsFresh, NothingLost, PushedIsNew, FilesTyped, FilesTypeOK

\* Every step keeps lists that are about to be written fresh, or known not to be.
LEMMA FreshStep == FilesTyped /\ ListsFresh /\ [FilesNext]_fileVars => ListsFresh'
<1> SUFFICES ASSUME FilesTyped, ListsFresh, [FilesNext]_fileVars PROVE ListsFresh'
  OBVIOUS
<1>1. ASSUME NEW r \in Request, NEW p, NEW change, NEW f, NEW token,
             Change(r, p, change, f, token), UNCHANGED fileDb
      PROVE  ListsFresh'
  BY <1>1, ReadingFresh DEF Change
<1>2. ASSUME NEW r \in Request, NEW p, NEW f,
             Refresh(r, p) \/ ClearPrinterFiles(r, p) \/ CleanFiles(r, p, f) \/ DeleteFile(r, p, f)
                \/ UploadSucceeds(r)
      PROVE  ListsFresh'
  BY <1>1, <1>2 DEF Refresh, ClearPrinterFiles, CleanFiles, DeleteFile, UploadSucceeds
<1>3. ASSUME NEW r \in Request, NEW p, PurgeFiles(r, p) \/ PurgeNext(r, p) PROVE ListsFresh'
  BY <1>3, ReadingFresh DEF PurgeFiles, PurgeNext
<1>4. ASSUME NEW r \in Request, SaveList(r) PROVE ListsFresh'
  <2> DEFINE q == fileReq[r]
  <2>1. ASSUME NEW s \in Request, fileReq'[s].stage = "save", fileReq'[s].same
        PROVE  fileReq'[s] = fileReq[s] /\ fileDb'[fileReq[s].p] = fileDb[fileReq[s].p]
    <3>1. s # r /\ ~NewVersion(r, s, q)
      BY <1>4, <2>1 DEF SaveList, FilesTyped, FilesTypeOK
    <3>2. fileReq'[s] = fileReq[s]
      BY <1>4, <3>1 DEF SaveList
    <3>3. fileReq[s].p # q.p
      BY <2>1, <3>1, <3>2 DEF NewVersion
    <3>4. QED
      BY <1>4, <3>2, <3>3 DEF SaveList, FilesTyped, FilesTypeOK
  <2>2. QED
    BY <2>1 DEF ListsFresh, NothingLost, PushedIsNew
<1>5. ASSUME NEW r \in Request, RefuseList(r) \/ UploadFails(r) PROVE ListsFresh'
  BY <1>5, OtherFresh DEF RefuseList, UploadFails, FilesDone, NoFileReq
<1>6. ASSUME NEW r \in Request, ListSaved(r) PROVE ListsFresh'
  <2> DEFINE cleaned == [NoFileReq EXCEPT !.stage = "cleaned", !.p = fileReq[r].p,
                                          !.file = fileReq[r].file]
  <2>1. cleaned.stage = "cleaned" /\ NoFileReq.stage = "idle"
    BY DEF NoFileReq
  <2>2. CASE fileReq' = [fileReq EXCEPT ![r] = cleaned]
    BY <1>6, <2>1, <2>2, OtherFresh DEF ListSaved
  <2>3. CASE FilesDone(r)
    BY <1>6, <2>1, <2>3, OtherFresh DEF ListSaved, FilesDone
  <2>4. QED
    BY <1>6, <2>2, <2>3 DEF ListSaved
<1>7. ASSUME NEW r \in Request, NEW p, NEW f, NEW t, StartUpload(r, p, f, t) PROVE ListsFresh'
  <2> DEFINE q == [NoFileReq EXCEPT !.stage = "upload", !.p = p, !.file = f, !.token = t]
  <2>1. q.stage = "upload"
    BY DEF NoFileReq
  <2>2. fileReq' = [fileReq EXCEPT ![r] = q] /\ UNCHANGED fileDb
    BY <1>7 DEF StartUpload
  <2> HIDE DEF q
  <2>3. QED
    BY <2>1, <2>2, OtherFresh
<1>8. ASSUME NEW r \in Request, UploadProgress(r) PROVE ListsFresh'
  BY <1>8 DEF UploadProgress, ListsFresh, NothingLost, PushedIsNew
<1>9. CASE FilesRestart
  BY <1>9 DEF FilesRestart, NoFileReq, ListsFresh, NothingLost, PushedIsNew
<1>10. CASE UNCHANGED fileVars
  BY <1>10 DEF fileVars, ListsFresh, NothingLost, PushedIsNew
<1>11. QED
  BY <1>2, <1>3, <1>4, <1>5, <1>6, <1>7, <1>8, <1>9, <1>10 DEF FilesNext

LEMMA ListsAlwaysFresh == FilesSpec => []ListsFresh
<1>1. FilesInit => ListsFresh
  BY DEF FilesInit, NoFileReq, ListsFresh, NothingLost, PushedIsNew
<1>2. QED
  BY <1>1, FreshStep, FilesAlwaysTyped, PTL DEF FilesSpec

\* However changes of a list overlap, one that is written as a whole under an unchanged
\* version (Mongoose's check in PrinterFilesService's saves) is made of what is stored.
THEOREM NoFileLost == FilesSpec => []NothingLost
<1>1. ListsFresh => NothingLost
  BY DEF ListsFresh
<1>2. QED
  BY <1>1, ListsAlwaysFresh, PTL
-----------------------------------------------------------------------------
(* The cache follows the documents.                                        *)

\* The list of p is one that q has still to write
Unsaved(q, p) == p \in q.todo \/ (q.stage = "save" /\ q.p = p)

\* What a printer without a mark has: nobody changes its list, or one request alone, which has
\* either not written it yet, or has yet to bring the cache up to what it wrote.
Follows(p) ==
    /\ \A r, s \in Request : About(r, p) /\ About(s, p) => r = s
    /\ (\A r \in Request : ~About(r, p)) => fileCache[p] = fileDb[p]
    /\ \A r \in Request : About(r, p) =>
          LET q == fileReq[r] IN
          IF Unsaved(q, p)
          THEN /\ fileCache[p] = fileDb[p]
               /\ q.stage = "save" /\ q.p = p =>
                     q.same /\ (q.change = "delete" => Listed(fileDb[p], q.file))
          ELSE Cached(q.change, fileCache[p], q.file, q.list) = fileDb[p]

CacheFollows == \A p \in Printer \ fileSuspect : Follows(p)

\* The cache comes to what the document got, if it was equal to the document before.
LEMMA SavedIsCached ==
    ASSUME NEW change \in ListChange, NEW s, NEW f, change = "delete" => Listed(s, f)
    PROVE  Cached(change, s, f, Changed(change, s, f)) = Changed(change, s, f)
<1>1. CASE change \in {"refresh", "append"}
  BY <1>1 DEF Cached
<1>2. CASE change = "delete"
  BY <1>2 DEF Cached, Changed, Spliced
<1>3. CASE change \in {"clear", "purge"}
  BY <1>3 DEF Cached, Changed
<1>4. QED
  BY <1>1, <1>2, <1>3 DEF ListChange

\* Nothing about p has changed.
LEMMA StillFollows ==
    ASSUME NEW p \in Printer, Follows(p),
           \A r \in Request : About(r, p)' <=> About(r, p),
           \A r \in Request : About(r, p) => fileReq'[r] = fileReq[r],
           fileCache'[p] = fileCache[p], fileDb'[p] = fileDb[p]
    PROVE  Follows(p)'
BY DEF Follows, Unsaved

\* A request starts to change the list of one printer.
LEMMA ChangeFollows ==
    ASSUME FilesTyped, CacheFollows, NEW r \in Request, NEW p \in Printer, NEW change,
           change # "purge", NEW f, NEW token, fileReq[r].about = {},
           Change(r, p, change, f, token), UNCHANGED <<fileDb, fileCache>>
    PROVE  CacheFollows'
<1>1. fileReq'[r] = [stage |-> "save", about |-> {p}, p |-> p, change |-> change, file |-> f,
         list |-> Changed(change, fileDb[p], f),
         push |-> change = "append" /\ ~Listed(fileDb[p], f),
         same |-> TRUE, todo |-> {}, token |-> token]
      /\ \A s \in Request \ {r} : fileReq'[s] = fileReq[s]
  BY DEF Change, Reading, FilesTyped, FilesTypeOK
<1>2. SUFFICES ASSUME NEW x \in Printer \ fileSuspect' PROVE Follows(x)'
  BY DEF CacheFollows
<1>3. x \notin fileSuspect /\ Follows(x)
  BY <1>2 DEF Change, CacheFollows
<1>4. CASE x # p
  <2>1. \A s \in Request : About(s, x)' <=> About(s, x)
    BY <1>1, <1>4 DEF About
  <2>2. \A s \in Request : About(s, x) => fileReq'[s] = fileReq[s]
    BY <1>1 DEF About
  <2>3. QED
    BY <1>3, <2>1, <2>2, StillFollows
<1>5. CASE x = p
  <2>1. \A s \in Request \ {r} : ~About(s, p)
    BY <1>2, <1>5 DEF Change, Overlap
  <2>2. fileCache[p] = fileDb[p]
    BY <1>3, <1>5, <2>1 DEF Follows, About
  <2>3. \A s \in Request : About(s, p)' => s = r
    BY <1>1, <2>1 DEF About
  <2>4. About(r, p)' /\ (change = "delete" => Listed(fileDb[p], f))
    BY <1>1, <1>2, <1>5 DEF Change, About
  <2>5. QED
    BY <1>1, <1>5, <2>2, <2>3, <2>4 DEF Follows, Unsaved
<1>6. QED
  BY <1>4, <1>5

\* A request is no longer about any list, of which it has left the unmarked ones as they were
\* or brought the cache up to them.
LEMMA DoneFollows ==
    ASSUME FilesTyped, CacheFollows, NEW r \in Request, NEW q, q.about = {},
           fileReq' = [fileReq EXCEPT ![r] = q], UNCHANGED fileDb,
           fileSuspect \subseteq fileSuspect',
           \A p \in Printer \ fileSuspect' :
              IF About(r, p) THEN fileCache'[p] = fileDb[p] ELSE fileCache'[p] = fileCache[p]
    PROVE  CacheFollows'
<1>1. fileReq'[r] = q /\ \A s \in Request \ {r} : fileReq'[s] = fileReq[s]
  BY DEF FilesTyped, FilesTypeOK
<1>2. SUFFICES ASSUME NEW p \in Printer \ fileSuspect' PROVE Follows(p)'
  BY DEF CacheFollows
<1>3. p \notin fileSuspect /\ Follows(p)
  BY <1>2 DEF CacheFollows
<1>4. CASE About(r, p)
  <2>1. \A s \in Request : ~About(s, p)'
    BY <1>1, <1>3, <1>4 DEF About, Follows
  <2>2. QED
    BY <1>2, <1>4, <2>1 DEF Follows
<1>5. CASE ~About(r, p)
  <2>1. \A s \in Request : About(s, p)' <=> About(s, p)
    BY <1>1, <1>5 DEF About
  <2>2. QED
    BY <1>1, <1>2, <1>3, <1>5, <2>1, StillFollows
<1>6. QED
  BY <1>4, <1>5

LEMMA SaveFollows ==
    ASSUME FilesTyped, ListsFresh, CacheFollows, NEW r \in Request, SaveList(r)
    PROVE  CacheFollows'
<1> DEFINE q == fileReq[r]
<1>1. q.stage = "save" /\ q.p \in Printer /\ q.p \in q.about /\ q.p \notin q.todo
      /\ q.change \in ListChange /\ (q.push => q.change = "append")
  BY DEF SaveList, FilesTyped, FilesTypeOK, Consistent
<1>2. /\ fileReq'[r].stage = "reply"
      /\ fileReq'[r].about = q.about /\ fileReq'[r].todo = q.todo /\ fileReq'[r].p = q.p
      /\ fileReq'[r].change = q.change /\ fileReq'[r].file = q.file /\ fileReq'[r].list = q.list
  BY DEF SaveList, FilesTyped, FilesTypeOK
<1>3. ASSUME NEW s \in Request \ {r}
      PROVE  LET old == fileReq[s]
                 new == fileReq'[s]
             IN  /\ new.stage = old.stage /\ new.about = old.about /\ new.todo = old.todo
                 /\ new.p = old.p /\ new.change = old.change /\ new.file = old.file
                 /\ new.list = old.list
                 /\ old.stage = "save" /\ old.p # q.p => new.same = old.same
  <2>1. fileReq'[s] = IF NewVersion(r, s, q) THEN [fileReq[s] EXCEPT !.same = FALSE] ELSE fileReq[s]
    BY DEF SaveList
  <2>2. QED
    BY <2>1 DEF NewVersion, FilesTyped, FilesTypeOK
<1>4. \A s \in Request, x \in Printer : About(s, x)' <=> About(s, x)
  BY <1>2, <1>3 DEF About
<1>5. SUFFICES ASSUME NEW x \in Printer \ fileSuspect PROVE Follows(x)'
  BY DEF CacheFollows, SaveList
<1>6. Follows(x) /\ fileCache'[x] = fileCache[x]
  BY <1>5 DEF CacheFollows, SaveList
<1>7. CASE x # q.p
  <2>1. fileDb'[x] = fileDb[x]
    BY <1>7 DEF SaveList, FilesTyped, FilesTypeOK
  <2>2. ASSUME NEW s \in Request
        PROVE  /\ Unsaved(fileReq'[s], x) <=> Unsaved(fileReq[s], x)
               /\ fileReq'[s].stage = "save" /\ fileReq'[s].p = x => s # r
    BY <1>1, <1>2, <1>3, <1>7 DEF Unsaved
  <2>3. QED
    BY <1>2, <1>3, <1>4, <1>6, <1>7, <2>1, <2>2 DEF Follows
<1>8. CASE x = q.p
  <2>1. About(r, x) /\ \A s \in Request : About(s, x) => s = r
    BY <1>1, <1>6, <1>8 DEF About, Follows
  <2>2. fileCache[x] = fileDb[x] /\ q.same /\ (q.change = "delete" => Listed(fileDb[x], q.file))
    BY <1>1, <1>6, <1>8, <2>1 DEF Follows, Unsaved
  <2>3. q.list = Changed(q.change, fileDb[x], q.file) /\ (q.push => ~Listed(fileDb[x], q.file))
    BY <1>1, <1>8, <2>2 DEF ListsFresh, NothingLost, PushedIsNew
  <2>4. fileDb'[x] = q.list
    <3>1. fileDb'[x] = IF q.push THEN Append(fileDb[x], q.file) ELSE q.list
      BY <1>8 DEF SaveList, FilesTyped, FilesTypeOK
    <3>2. CASE q.push
      <4>1. Changed("append", fileDb[x], q.file) = Put(fileDb[x], q.file)
        BY DEF Changed
      <4>2. QED
        BY <1>1, <2>3, <3>1, <3>2, <4>1 DEF Put
    <3>3. QED
      BY <3>1, <3>2
  <2>5. Cached(q.change, fileCache'[x], q.file, q.list) = fileDb'[x]
    <3>1. Cached(q.change, fileDb[x], q.file, Changed(q.change, fileDb[x], q.file))
            = Changed(q.change, fileDb[x], q.file)
      BY <1>1, <2>2, SavedIsCached
    <3>2. QED
      BY <1>6, <2>2, <2>3, <2>4, <3>1
  <2>6. ~Unsaved(fileReq'[r], x)
    BY <1>1, <1>2, <1>8 DEF Unsaved
  <2>7. QED
    BY <1>2, <1>4, <2>1, <2>5, <2>6 DEF Follows
<1>9. QED
  BY <1>7, <1>8

LEMMA PurgeFollows ==
    ASSUME FilesTyped, CacheFollows, NEW r \in Request, NEW p \in Printer,
           PurgeFiles(r, p) \/ PurgeNext(r, p)
    PROVE  CacheFollows'
<1>1. PICK todo \in SUBSET Printer :
        /\ Reading(r, Printer, p, "purge", None, todo, None)
        /\ PurgeFiles(r, p) => todo = Printer \ {p}
        /\ PurgeNext(r, p) => todo = fileReq[r].todo \ {p}
  <2>1. PurgeFiles(r, p) => ~PurgeNext(r, p)
    BY DEF PurgeFiles, PurgeNext
  <2>2. CASE PurgeFiles(r, p)
    <3>1. Reading(r, Printer, p, "purge", None, Printer \ {p}, None)
      BY <2>2 DEF PurgeFiles
    <3>2. QED
      BY <2>1, <2>2, <3>1
  <2>3. CASE PurgeNext(r, p)
    <3>1. Reading(r, Printer, p, "purge", None, fileReq[r].todo \ {p}, None)
      BY <2>3 DEF PurgeNext
    <3>2. fileReq[r].todo \ {p} \in SUBSET Printer
      BY DEF FilesTyped, FilesTypeOK
    <3>3. QED
      BY <2>1, <2>3, <3>1, <3>2
  <2>4. QED
    BY <2>2, <2>3
<1>2. fileReq'[r] = [stage |-> "save", about |-> Printer, p |-> p, change |-> "purge",
         file |-> None, list |-> Changed("purge", fileDb[p], None),
         push |-> "purge" = "append" /\ ~Listed(fileDb[p], None),
         same |-> TRUE, todo |-> todo, token |-> None]
      /\ \A s \in Request \ {r} : fileReq'[s] = fileReq[s]
  BY <1>1 DEF Reading, FilesTyped, FilesTypeOK
<1>3. SUFFICES ASSUME NEW x \in Printer \ fileSuspect' PROVE Follows(x)'
  BY DEF CacheFollows
<1>4. x \notin fileSuspect /\ Follows(x) /\ fileCache'[x] = fileCache[x] /\ fileDb'[x] = fileDb[x]
  BY <1>3 DEF PurgeFiles, PurgeNext, CacheFollows
<1>5. About(r, x)' /\ \A s \in Request \ {r} : About(s, x)' <=> About(s, x)
  BY <1>2 DEF About
<1>6. \A s \in Request \ {r} : ~About(s, x)
  <2>1. CASE PurgeFiles(r, p)
    BY <1>3, <2>1 DEF PurgeFiles, Overlap
  <2>2. CASE PurgeNext(r, p)
    <3>1. About(r, x)
      BY <2>2 DEF PurgeNext, About, FilesTyped, Consistent
    <3>2. QED
      BY <1>4, <3>1 DEF Follows
  <2>3. QED
    BY <2>1, <2>2
<1>7. IF Unsaved(fileReq'[r], x) THEN fileCache[x] = fileDb[x]
      ELSE Cached("purge", fileCache[x], None, fileReq'[r].list) = fileDb[x]
  <2>1. CASE PurgeFiles(r, p)
    <3>1. fileCache[x] = fileDb[x]
      BY <1>4, <1>6, <2>1 DEF PurgeFiles, Follows, About, FilesTyped, Consistent
    <3>2. Unsaved(fileReq'[r], x)
      BY <1>1, <1>2, <2>1 DEF Unsaved
    <3>3. QED
      BY <3>1, <3>2
  <2>2. CASE PurgeNext(r, p)
    <3>1. About(r, x) /\ fileReq[r].stage = "reply" /\ fileReq[r].change = "purge"
      BY <2>2 DEF PurgeNext, About, FilesTyped, Consistent
    <3>2. Unsaved(fileReq'[r], x) => Unsaved(fileReq[r], x)
      BY <1>1, <1>2, <2>2 DEF Unsaved, PurgeNext
    <3>3. ~Unsaved(fileReq'[r], x) => ~Unsaved(fileReq[r], x)
      BY <1>1, <1>2, <2>2, <3>1 DEF Unsaved
    <3>4. \A c, f, l : Cached("purge", c, f, l) = <<>>
      BY DEF Cached
    <3>5. QED
      BY <1>4, <3>1, <3>2, <3>3, <3>4 DEF Follows
  <2>3. QED
    BY <2>1, <2>2
<1>8. QED
  BY <1>2, <1>4, <1>5, <1>6, <1>7 DEF Follows
\* Requests bring the cache up to what they wrote, or the printer is marked.
LEMMA FollowStep ==
    FilesTyped /\ ListsFresh /\ CacheFollows /\ [FilesNext]_fileVars => CacheFollows'
<1> SUFFICES ASSUME FilesTyped, ListsFresh, CacheFollows, [FilesNext]_fileVars PROVE CacheFollows'
  OBVIOUS
<1>1. ASSUME NEW r \in Request, NEW p \in Printer, NEW f,
             Refresh(r, p) \/ ClearPrinterFiles(r, p) \/ CleanFiles(r, p, f) \/ DeleteFile(r, p, f)
      PROVE  CacheFollows'
  <2>1. fileReq[r].about = {} /\ UNCHANGED <<fileDb, fileCache>>
    BY <1>1 DEF Refresh, ClearPrinterFiles, CleanFiles, DeleteFile, FilesTyped, Consistent
  <2>2. PICK change \in {"refresh", "clear", "delete"}, g \in {None, f} : Change(r, p, change, g, None)
    BY <1>1 DEF Refresh, ClearPrinterFiles, CleanFiles, DeleteFile
  <2>3. QED
    BY <2>1, <2>2, ChangeFollows
<1>2. ASSUME NEW r \in Request, UploadSucceeds(r) PROVE CacheFollows'
  <2>1. fileReq[r].about = {} /\ fileReq[r].p \in Printer /\ UNCHANGED <<fileDb, fileCache>>
    BY <1>2 DEF UploadSucceeds, FilesTyped, Consistent
  <2>2. Change(r, fileReq[r].p, "append", fileReq[r].file, fileReq[r].token)
    BY <1>2 DEF UploadSucceeds
  <2>3. QED
    BY <2>1, <2>2, ChangeFollows
<1>3. ASSUME NEW r \in Request, NEW p \in Printer, PurgeFiles(r, p) \/ PurgeNext(r, p)
      PROVE  CacheFollows'
  BY <1>3, PurgeFollows
<1>4. ASSUME NEW r \in Request, SaveList(r) PROVE CacheFollows'
  BY <1>4, SaveFollows
<1>5. ASSUME NEW r \in Request, RefuseList(r) PROVE CacheFollows'
  <2> DEFINE q == fileReq[r]
  <2>1. fileReq' = [fileReq EXCEPT ![r] = NoFileReq] /\ NoFileReq.about = {}
        /\ UNCHANGED <<fileDb, fileCache>> /\ fileSuspect \subseteq fileSuspect'
    BY <1>5 DEF RefuseList, FilesDone, NoFileReq
  <2>2. ASSUME NEW p \in Printer \ fileSuspect', About(r, p) PROVE fileCache[p] = fileDb[p]
    <3>1. Unsaved(q, p)
      BY <1>5, <2>2 DEF RefuseList, Unsaved, About, FilesTyped, Consistent
    <3>2. Follows(p)
      BY <2>1, <2>2 DEF CacheFollows
    <3>3. QED
      BY <2>2, <3>1, <3>2 DEF Follows
  <2>3. QED
    BY <2>1, <2>2, DoneFollows
<1>6. ASSUME NEW r \in Request, ListSaved(r) PROVE CacheFollows'
  <2> DEFINE q == fileReq[r]
             cleaned == [NoFileReq EXCEPT !.stage = "cleaned", !.p = q.p, !.file = q.file]
  <2>1. cleaned.about = {} /\ NoFileReq.about = {}
    BY DEF NoFileReq
  <2>2. PICK new \in {cleaned, NoFileReq} : fileReq' = [fileReq EXCEPT ![r] = new]
    BY <1>6 DEF ListSaved, FilesDone
  <2>3. ASSUME NEW p \in Printer \ fileSuspect
        PROVE  IF About(r, p) THEN fileCache'[p] = fileDb[p] ELSE fileCache'[p] = fileCache[p]
    <3>1. fileCache'[p] = IF p \in q.about THEN Cached(q.change, fileCache[p], q.file, q.list)
                          ELSE fileCache[p]
      BY <1>6 DEF ListSaved
    <3>2. ~Unsaved(q, p)
      BY <1>6 DEF ListSaved, Unsaved
    <3>3. QED
      BY <2>3, <3>1, <3>2 DEF About, CacheFollows, Follows
  <2>4. UNCHANGED <<fileDb, fileSuspect>>
    BY <1>6 DEF ListSaved
  <2>5. new.about = {}
    BY <2>1, <2>2
  <2>6. QED
    BY <2>2, <2>3, <2>4, <2>5, DoneFollows
<1>7. ASSUME NEW r \in Request, NEW p, NEW f, NEW t, StartUpload(r, p, f, t) PROVE CacheFollows'
  <2> DEFINE q == [NoFileReq EXCEPT !.stage = "upload", !.p = p, !.file = f, !.token = t]
  <2>1. q.about = {}
    BY DEF NoFileReq
  <2>2. fileReq' = [fileReq EXCEPT ![r] = q] /\ UNCHANGED <<fileDb, fileCache, fileSuspect>>
    BY <1>7 DEF StartUpload
  <2>3. \A x \in Printer : ~About(r, x)
    BY <1>7 DEF StartUpload, About, FilesTyped, Consistent
  <2> HIDE DEF q
  <2>4. QED
    BY <2>1, <2>2, <2>3, DoneFollows
<1>8. ASSUME NEW r \in Request, UploadFails(r) PROVE CacheFollows'
  <2>1. fileReq' = [fileReq EXCEPT ![r] = NoFileReq] /\ NoFileReq.about = {}
        /\ UNCHANGED <<fileDb, fileCache, fileSuspect>>
    BY <1>8 DEF UploadFails, FilesDone, NoFileReq
  <2>2. \A x \in Printer : ~About(r, x)
    BY <1>8 DEF UploadFails, About, FilesTyped, Consistent
  <2>3. QED
    BY <2>1, <2>2, DoneFollows
<1>9. CASE FilesRestart
  <2>1. \A r \in Request, p \in Printer : ~About(r, p)'
    BY <1>9 DEF FilesRestart, NoFileReq, About
  <2>2. \A p \in Printer \ fileSuspect' : fileCache'[p] = fileDb'[p]
    BY <1>9 DEF FilesRestart
  <2>3. QED
    BY <2>1, <2>2 DEF CacheFollows, Follows
<1>10. CASE UNCHANGED fileVars \/ \E r \in Request : UploadProgress(r)
  <2>1. UNCHANGED <<fileDb, fileCache, fileReq, fileSuspect>>
    BY <1>10 DEF fileVars, UploadProgress
  <2>2. QED
    BY <2>1 DEF CacheFollows, Follows, About, Unsaved
<1>11. QED
  BY <1>1, <1>2, <1>3, <1>4, <1>5, <1>6, <1>7, <1>8, <1>9, <1>10 DEF FilesNext

\* FileCache agrees with the documents: on a printer whose list is not being changed, and was
\* never changed by two requests at once, cut short, or spliced for a file that is not listed.
THEOREM CacheAgrees == FilesSpec => []FilesAgree
<1>1. FilesInit => CacheFollows
  BY DEF FilesInit, NoFileReq, CacheFollows, Follows, About
<1>2. CacheFollows => FilesAgree
  BY DEF CacheFollows, Follows, FilesAgree
<1>3. QED
  BY <1>1, <1>2, FollowStep, FilesAlwaysTyped, ListsAlwaysFresh, PTL DEF FilesSpec

-----------------------------------------------------------------------------
(* The tracker of uploads.                                                 *)

\* No two uploads under way have one token.
TokensOwn ==
    \A r, s \in Request :
        /\ fileReq[r].stage = "upload" /\ fileReq[s].stage = "upload"
        /\ fileReq[r].token = fileReq[s].token /\ fileReq[r].token # None
        => r = s

Tracks == UploadsHeard /\ TokensOwn

\* A step that starts no upload, ends some, and leaves the tracker alone.
LEMMA TrackerIdle ==
    ASSUME Tracks, UNCHANGED uploads,
           \A r \in Request : fileReq'[r].stage = "upload" => fileReq'[r] = fileReq[r]
    PROVE  Tracks'
BY DEF Tracks, UploadsHeard, TokensOwn

LEMMA TracksStep == FilesTyped /\ Tracks /\ [FilesNext]_fileVars => Tracks'
<1> SUFFICES ASSUME FilesTyped, Tracks, [FilesNext]_fileVars PROVE Tracks'
  OBVIOUS
<1>1. ASSUME NEW r \in Request, NEW ps, NEW p, NEW change, NEW f, NEW todo, NEW token,
             Reading(r, ps, p, change, f, todo, token), UNCHANGED uploads
      PROVE  Tracks'
  <2>1. \A s \in Request : fileReq'[s].stage = "upload" => fileReq'[s] = fileReq[s]
    BY <1>1 DEF Reading, FilesTyped, FilesTypeOK
  <2>2. QED
    BY <1>1, <2>1, TrackerIdle
<1>2. ASSUME NEW r \in Request, NEW p, NEW f,
             \/ Refresh(r, p) \/ ClearPrinterFiles(r, p) \/ CleanFiles(r, p, f) \/ DeleteFile(r, p, f)
             \/ UploadSucceeds(r) \/ PurgeFiles(r, p) \/ PurgeNext(r, p)
      PROVE  Tracks'
  BY <1>1, <1>2 DEF Refresh, ClearPrinterFiles, CleanFiles, DeleteFile, UploadSucceeds, PurgeFiles,
                    PurgeNext, Change
<1>3. ASSUME NEW r \in Request, SaveList(r) PROVE Tracks'
  <2>1. \A s \in Request : fileReq'[s].stage = "upload" => fileReq'[s] = fileReq[s]
    BY <1>3 DEF SaveList, NewVersion, FilesTyped, FilesTypeOK
  <2>2. QED
    BY <1>3, <2>1, TrackerIdle DEF SaveList
<1>4. ASSUME NEW r \in Request, RefuseList(r) \/ ListSaved(r) PROVE Tracks'
  <2> DEFINE cleaned == [NoFileReq EXCEPT !.stage = "cleaned", !.p = fileReq[r].p,
                                          !.file = fileReq[r].file]
  <2>1. cleaned.stage = "cleaned" /\ NoFileReq.stage = "idle"
    BY DEF NoFileReq
  <2>2. PICK new \in {cleaned, NoFileReq} : fileReq' = [fileReq EXCEPT ![r] = new]
    BY <1>4 DEF RefuseList, ListSaved, FilesDone
  <2>3. new.stage # "upload"
    BY <2>1, <2>2
  <2>4. \A s \in Request : fileReq'[s].stage = "upload" => fileReq'[s] = fileReq[s]
    BY <2>2, <2>3 DEF FilesTyped, FilesTypeOK
  <2>5. QED
    BY <1>4, <2>4, TrackerIdle DEF RefuseList, ListSaved
<1>5. ASSUME NEW r \in Request, NEW p, NEW f, NEW t \in Token \cup {None}, StartUpload(r, p, f, t)
      PROVE  Tracks'
  <2> DEFINE q == [NoFileReq EXCEPT !.stage = "upload", !.p = p, !.file = f, !.token = t]
  <2>1. q.token = t
    BY DEF NoFileReq
  <2>2. fileReq'[r] = q /\ \A s \in Request \ {r} : fileReq'[s] = fileReq[s]
    BY <1>5 DEF StartUpload, FilesTyped, FilesTypeOK
  <2> HIDE DEF q
  <2>3. /\ \A u \in Token \ {t} : uploads'[u] = uploads[u]
        /\ t # None => uploads'[t].at = "current" /\ uploads'[t].heard = TRUE
    BY <1>5 DEF StartUpload
  <2>4. t # None => uploads[t].at = "unused"
    BY <1>5 DEF StartUpload
  <2>5. \A s \in Request \ {r} :
          fileReq[s].stage = "upload" /\ fileReq[s].token # None =>
              fileReq[s].token # t /\ fileReq[s].token \in Token
    BY <2>4 DEF Tracks, UploadsHeard, FilesTyped, FilesTypeOK
  <2>6. None \notin Token
    BY FilesAssumption
  <2>7. UploadsHeard'
    BY <2>1, <2>2, <2>3, <2>5, <2>6 DEF Tracks, UploadsHeard
  <2>8. TokensOwn'
    BY <2>1, <2>2, <2>5 DEF Tracks, TokensOwn
  <2>9. QED
    BY <2>7, <2>8 DEF Tracks
<1>6. ASSUME NEW r \in Request, UploadProgress(r) PROVE Tracks'
  <2>1. \A u \in Token : uploads'[u].at = uploads[u].at /\ uploads'[u].heard = uploads[u].heard
    <3> TAKE u \in Token
    <3>1. uploads[u] \in Upload
      BY DEF FilesTyped, FilesTypeOK, Upload
    <3>2. Tracked(uploads[u], AxiosProgress) = [uploads[u] EXCEPT !.progress = 1]
      BY <3>1, TrackedType DEF Upload
    <3>3. uploads'[u] = [uploads[u] EXCEPT !.progress = 1] \/ uploads'[u] = uploads[u]
      BY <1>6, <3>2 DEF UploadProgress, Notify
    <3>4. QED
      BY <3>1, <3>3 DEF Upload
  <2>2. QED
    BY <1>6, <2>1 DEF UploadProgress, Tracks, UploadsHeard, TokensOwn, FilesTyped, FilesTypeOK
<1>7. ASSUME NEW r \in Request, UploadFails(r) PROVE Tracks'
  <2> DEFINE t == fileReq[r].token
  <2>1. fileReq[r].stage = "upload" /\ fileReq'[r].stage = "idle"
        /\ \A s \in Request \ {r} : fileReq'[s] = fileReq[s]
    BY <1>7 DEF UploadFails, FilesDone, NoFileReq, FilesTyped, FilesTypeOK
  <2>2. /\ \A u \in Token \ {t} : uploads'[u] = uploads[u]
        /\ t \in Token => \/ uploads'[t].at = "failed" /\ uploads'[t].heard = FALSE
                          \/ uploads'[t] = uploads[t]
    <3>1. \A u \in Token : uploads[u] \in Upload
      BY DEF FilesTyped, FilesTypeOK, Upload
    <3>2. \A u \in Token : uploads'[u] = IF u = t /\ uploads[u].heard
                                         THEN Tracked(uploads[u], UploadFailure) ELSE uploads[u]
      BY <1>7 DEF UploadFails, Notify
    <3>3. ASSUME t \in Token
          PROVE  \/ uploads'[t].at = "failed" /\ uploads'[t].heard = FALSE
                 \/ uploads'[t] = uploads[t]
      <4>1. Tracked(uploads[t], UploadFailure) = [uploads[t] EXCEPT !.at = "failed", !.heard = FALSE]
        BY <3>1, <3>3, TrackedType DEF Upload
      <4>2. [uploads[t] EXCEPT !.at = "failed", !.heard = FALSE].at = "failed"
            /\ [uploads[t] EXCEPT !.at = "failed", !.heard = FALSE].heard = FALSE
        BY <3>1, <3>3 DEF Upload
      <4>3. QED
        BY <3>2, <3>3, <4>1, <4>2
    <3>4. QED
      BY <3>2, <3>3
  <2>3. \A s \in Request \ {r} :
          fileReq[s].stage = "upload" /\ fileReq[s].token # None =>
              fileReq[s].token # t /\ fileReq[s].token \in Token
    BY <2>1 DEF Tracks, TokensOwn, FilesTyped, FilesTypeOK
  <2>4. UploadsHeard'
    BY <2>1, <2>2, <2>3 DEF Tracks, UploadsHeard
  <2>5. TokensOwn'
    BY <2>1 DEF Tracks, TokensOwn
  <2>6. QED
    BY <2>4, <2>5 DEF Tracks
<1>8. CASE FilesRestart
  <2>1. \A r \in Request : fileReq'[r].stage = "idle"
    BY <1>8 DEF FilesRestart, NoFileReq
  <2>2. \A t \in Token : uploads'[t].heard = FALSE /\ uploads'[t].at # "current"
    BY <1>8 DEF FilesRestart, NoUpload
  <2>3. QED
    BY <2>1, <2>2 DEF Tracks, UploadsHeard, TokensOwn
<1>9. CASE UNCHANGED fileVars
  BY <1>9, TrackerIdle DEF fileVars
<1>10. QED
  BY <1>2, <1>3, <1>4, <1>5, <1>6, <1>7, <1>8, <1>9 DEF FilesNext

\* FileUploadTrackerCache listens to exactly the uploads it shows, among them all under way.
THEOREM UploadsAreHeard == FilesSpec => []UploadsHeard
<1>1. FilesInit => Tracks
  BY DEF FilesInit, NoFileReq, NoUpload, Tracks, UploadsHeard, TokensOwn
<1>2. Tracks => UploadsHeard
  BY DEF Tracks
<1>3. QED
  BY <1>1, <1>2, TracksStep, FilesAlwaysTyped, PTL DEF FilesSpec
-----------------------------------------------------------------------------
(* Types.                                                                  *)

\* The documents and caches of the files, the uploads and the requests about them keep the types
\* the module gives them.
THEOREM FilesTypeCorrect == FilesSpec => []FilesTypeOK
<1>1. FilesTyped => FilesTypeOK
  BY DEF FilesTyped
<1>2. QED
  BY <1>1, FilesAlwaysTyped, PTL

-----------------------------------------------------------------------------
(* Connection tests.                                                       *)

\* A socket that is open is waited for by a test.
OpenIsPolled == testsOpen # {} => \E r \in Request : testReq[r] = "poll"

\* Tests that are under way at once know of it.
OthersKnown ==
    \A r, q \in Request :
        r # q /\ testReq[r] # "idle" /\ testReq[q] # "idle" => r \in together

\* At most the socket that is kept is open: the first half of NoTestLeftOpen.
OnlyKeptOpen == testsOpen \subseteq {testSocket}

\* The socket of a test that is alone ends after it was opened, and not before.
DropsWaitForOpen ==
    \A r \in Request \ together : testReq[r] = "session" => r \notin dropped

TestsInv ==
    /\ TestsTypeOK
    /\ OnlyKeptOpen /\ OpenIsPolled
    /\ OthersKnown /\ DropsWaitForOpen
    /\ LoneTestIsOwn

\* No test is under way at the start, and no socket is there.
LEMMA TestsStart == TestsInit => TestsInv
BY DEF TestsInit, TestsInv, TestsTypeOK, TestStage, OnlyKeptOpen, OpenIsPolled, OthersKnown,
       DropsWaitForOpen, LoneTestIsOwn

\* Starting, rejecting and ending tests, in whatever order, keeps the invariant.
LEMMA TestsStep == TestsInv /\ [TestsNext]_testVars => TestsInv'
<1> SUFFICES ASSUME TestsInv, [TestsNext]_testVars PROVE TestsInv'
  OBVIOUS
<1> USE NoneIsOther DEF TestsInv, TestsTypeOK, TestStage
<1>1. ASSUME NEW r \in Request, StartTest(r) PROVE TestsInv'
  <2> USE <1>1 DEF StartTest, NewSocket, Closed
  <2>1. TestsTypeOK' /\ testsOpen' = {}
    BY DEF OnlyKeptOpen, OthersTested
  <2>2. OthersKnown'
    BY DEF OthersKnown, OthersTested
  <2>3. LoneTestIsOwn' /\ DropsWaitForOpen'
    BY DEF LoneTestIsOwn, DropsWaitForOpen, OthersTested
  <2>4. QED
    BY <2>1, <2>2, <2>3 DEF OnlyKeptOpen, OpenIsPolled
<1>2. ASSUME NEW r \in Request, RejectTest(r) PROVE TestsInv'
  <2> USE <1>2 DEF RejectTest, Closed
  <2>1. TestsTypeOK' /\ testsOpen' = {}
    BY DEF OnlyKeptOpen, OthersTested
  <2>2. OthersKnown'
    BY DEF OthersKnown, OthersTested
  <2>3. LoneTestIsOwn' /\ DropsWaitForOpen'
    BY DEF LoneTestIsOwn, DropsWaitForOpen, OthersTested
  <2>4. QED
    BY <2>1, <2>2, <2>3 DEF OnlyKeptOpen, OpenIsPolled
<1>3. ASSUME NEW r \in Request, SetUpFails(r) PROVE TestsInv'
  <2> USE <1>3 DEF SetUpFails
  <2>1. TestsTypeOK' /\ OnlyKeptOpen' /\ OpenIsPolled'
    BY DEF OnlyKeptOpen, OpenIsPolled
  <2>2. OthersKnown' /\ DropsWaitForOpen' /\ LoneTestIsOwn'
    BY DEF OthersKnown, DropsWaitForOpen, LoneTestIsOwn
  <2>3. QED
    BY <2>1, <2>2
<1>4. ASSUME NEW r \in Request, SetUpReady(r) PROVE TestsInv'
  <2> USE <1>4 DEF SetUpReady
  <2>1. TestsTypeOK' /\ OnlyKeptOpen' /\ OpenIsPolled'
    BY DEF OnlyKeptOpen, OpenIsPolled
  <2>2. OthersKnown' /\ DropsWaitForOpen'
    BY DEF OthersKnown, DropsWaitForOpen
  <2>3. ASSUME NEW q \in Request \ together', testReq'[q] # "idle"
        PROVE  testSocket' = q /\ q \in listening' /\ (testReq'[q] = "poll" => testsOpen' = {q} \ dropped')
    <3>1. q = r
      BY <2>3 DEF OthersKnown
    <3>2. testSocket = r /\ r \in listening
      BY <2>3, <3>1 DEF LoneTestIsOwn
    <3>3. r \notin dropped
      BY <2>3, <3>1 DEF DropsWaitForOpen
    <3>4. QED
      BY <3>1, <3>2, <3>3 DEF OnlyKeptOpen
  <2>4. LoneTestIsOwn'
    BY <2>3 DEF LoneTestIsOwn
  <2>5. QED
    BY <2>1, <2>2, <2>4
<1>5. ASSUME NEW r \in Request, EndTest(r) PROVE TestsInv'
  <2> USE <1>5 DEF EndTest
  <2>1. TestsTypeOK' /\ testsOpen' = {}
    BY DEF OnlyKeptOpen
  <2>2. OthersKnown' /\ DropsWaitForOpen' /\ LoneTestIsOwn'
    BY DEF OthersKnown, DropsWaitForOpen, LoneTestIsOwn
  <2>3. QED
    BY <2>1, <2>2 DEF OnlyKeptOpen, OpenIsPolled
<1>6. ASSUME NEW r \in Request, SocketDrops(r) PROVE TestsInv'
  <2> USE <1>6 DEF SocketDrops
  <2>1. TestsTypeOK' /\ testsOpen' = {}
    BY DEF OnlyKeptOpen
  <2>2. PICK q \in Request : testReq[q] = "poll"
    BY DEF OpenIsPolled
  <2>3. DropsWaitForOpen'
    BY <2>2 DEF DropsWaitForOpen, OthersKnown
  <2>4. LoneTestIsOwn'
    BY <2>1 DEF LoneTestIsOwn
  <2>5. QED
    BY <2>1, <2>3, <2>4 DEF OnlyKeptOpen, OpenIsPolled, OthersKnown
<1>7. CASE UNCHANGED testVars
  BY <1>7 DEF testVars, OnlyKeptOpen, OpenIsPolled, OthersKnown, DropsWaitForOpen, LoneTestIsOwn
<1>8. QED
  BY <1>1, <1>2, <1>3, <1>4, <1>5, <1>6, <1>7 DEF TestsNext

\* In every reachable state the invariant holds.
LEMMA TestsInvariant == TestsSpec => []TestsInv
BY TestsStart, TestsStep, PTL DEF TestsSpec

\* However many tests overlap, are refused and fail, none leaves a connection open when it has
\* been answered: setupTestPrinter and the end of testConnection close what is there.
THEOREM NoTestLeaks == TestsSpec => []NoTestLeftOpen
<1>1. TestsInv => NoTestLeftOpen
  BY DEF TestsInv, OnlyKeptOpen, OpenIsPolled, NoTestLeftOpen
<1>2. QED
  BY <1>1, TestsInvariant, PTL

\* A test of which no other one knows is answered about its own socket, whatever went before, and
\* has it open until OctoPrint ends it.
THEOREM LoneTestsAreOwn == TestsSpec => []LoneTestIsOwn
<1>1. TestsInv => LoneTestIsOwn
  BY DEF TestsInv
<1>2. QED
  BY <1>1, TestsInvariant, PTL
-----------------------------------------------------------------------------
(* Calls about printers.                                                   *)

\* Patches of one printer that are under way at once know of each other.
RacesKnown ==
    \A c, d \in calls :
        c # d /\ c.do \in Patch /\ d.do \in Patch /\ c.printer = d.printer => c.raced

\* A patch that nothing overlapped with has written what the database has.
SeenIsMode ==
    \A c \in calls :
        c.do \in Patch /\ c.seen # "unwritten" /\ ~c.raced => c.seen = mode[c.printer]

\* The cache is behind the database only while a patch has been written and not been published,
\* or after patches have overlapped.
ListedIsMode ==
    \A p \in Printer \ suspect :
        \/ listed[p] = mode[p]
        \/ \E c \in Patching(p) : c.seen # "unwritten"

CallsInv ==
    /\ CallsTypeOK /\ RacesKnown /\ SeenIsMode /\ ListedIsMode
    /\ MaintenanceKept /\ AnsweredIsOver

RacedWith(d, ps) == [d EXCEPT !.raced = @ \/ (d.do \in Patch /\ d.printer \in ps)]

LEMMA RacedFields ==
    ASSUME calls \subseteq Call, NEW ps, NEW d \in calls
    PROVE  LET c == RacedWith(d, ps) IN
           /\ c \in Call
           /\ c.req = d.req /\ c.printer = d.printer /\ c.do = d.do /\ c.seen = d.seen
           /\ c.raced = (d.raced \/ (d.do \in Patch /\ d.printer \in ps))
<1>1. d \in Call /\ (d.raced \/ (d.do \in Patch /\ d.printer \in ps)) \in BOOLEAN
  BY DEF Call
<1>2. QED
  BY <1>1 DEF Call, RacedWith

LEMMA AskedFields ==
    ASSUME NEW r \in Request, NEW p \in Printer, NEW do \in Patch \cup Command
    PROVE  LET c == Asked(r, p, do) IN
           /\ c \in Call
           /\ c.req = r /\ c.printer = p /\ c.do = do /\ c.seen = "unwritten"
           /\ c.raced = (do \in Patch /\ Patching(p) # {})
BY DEF Asked, Call, Mode

\* A request makes calls, at most one about each printer.
LEMMA AskKeeps ==
    ASSUME CallsInv, NEW r \in Request, Free(r), NEW kind \in BatchKind \cup {"idle"},
           NEW new, \A c \in new : \E p \in Printer, do \in Patch \cup Command : c = Asked(r, p, do),
           \A c, d \in new : c.printer = d.printer => c = d,
           kind = "toggle" => \A c \in new : c.do = "enable" => listed[c.printer] = "off",
           kind = "idle" => \A c \in new : c.do = "connect",
           Ask(r, kind, new), UNCHANGED <<mode, listed, job, suspect>>
    PROVE  CallsInv'
<1> DEFINE ps == {c.printer : c \in {d \in new : d.do \in Patch}}
<1>1. calls \subseteq Call /\ batch \in [Request -> BatchKind \cup {"idle"}]
  BY DEF CallsInv, CallsTypeOK
<1>2. calls' = {RacedWith(d, ps) : d \in calls} \cup new
  BY DEF Ask, Racing, RacedWith
<1>3. batch'[r] = kind /\ \A q \in Request \ {r} : batch'[q] = batch[q]
  BY <1>1 DEF Ask
<1>4. ASSUME NEW c \in new
      PROVE  /\ c \in Call /\ c.req = r /\ c.seen = "unwritten"
             /\ c.do \in Patch => c.printer \in ps
             /\ c.raced = (c.do \in Patch /\ Patching(c.printer) # {})
  BY AskedFields
<1>5. ASSUME NEW d \in calls
      PROVE  LET c == RacedWith(d, ps) IN
             /\ c \in Call
             /\ c.req = d.req /\ c.printer = d.printer /\ c.do = d.do /\ c.seen = d.seen
             /\ c.raced = (d.raced \/ (d.do \in Patch /\ d.printer \in ps))
             /\ d.req # r
  BY <1>1, RacedFields DEF Free, CallsOf
<1> HIDE DEF ps
<1>6. CallsTypeOK'
  BY <1>2, <1>4, <1>5 DEF Ask, CallsInv, CallsTypeOK
<1>7. RacesKnown'
  <2> SUFFICES ASSUME NEW c \in calls', NEW d \in calls', c # d, c.do \in Patch, d.do \in Patch,
                      c.printer = d.printer
               PROVE  c.raced
    BY DEF RacesKnown
  <2>1. CASE c \in new /\ d \in new
    BY <2>1
  <2>2. ASSUME NEW d0 \in calls, d = RacedWith(d0, ps), c \in new PROVE c.raced
    BY <1>4, <1>5, <2>2 DEF Patching
  <2>3. ASSUME NEW c0 \in calls, c = RacedWith(c0, ps), d \in new PROVE c.raced
    BY <1>4, <1>5, <2>3
  <2>4. ASSUME NEW c0 \in calls, NEW d0 \in calls, c = RacedWith(c0, ps), d = RacedWith(d0, ps)
        PROVE  c.raced
    <3>1. c0 # d0 /\ c0.do \in Patch /\ d0.do \in Patch /\ c0.printer = d0.printer
      BY <1>5, <2>4
    <3>2. c0.raced
      BY <3>1 DEF CallsInv, RacesKnown
    <3>3. QED
      BY <1>5, <2>4, <3>2
  <2>5. QED
    BY <1>2, <2>1, <2>2, <2>3, <2>4
<1>8. SeenIsMode'
  <2> SUFFICES ASSUME NEW c \in calls', c.do \in Patch, c.seen # "unwritten", ~c.raced
               PROVE  c.seen = mode[c.printer]
    BY DEF SeenIsMode, Ask
  <2>1. PICK d \in calls : c = RacedWith(d, ps)
    BY <1>2, <1>4
  <2>2. d.do \in Patch /\ d.seen = c.seen /\ d.printer = c.printer /\ ~d.raced
    BY <1>5, <2>1
  <2>3. QED
    BY <2>2 DEF CallsInv, SeenIsMode
<1>9. ListedIsMode'
  <2> SUFFICES ASSUME NEW p \in Printer \ suspect, listed[p] # mode[p]
               PROVE  \E c \in Patching(p)' : c.seen # "unwritten"
    BY DEF ListedIsMode
  <2>1. PICK d \in Patching(p) : d.seen # "unwritten"
    BY DEF CallsInv, ListedIsMode
  <2>2. RacedWith(d, ps) \in Patching(p)' /\ RacedWith(d, ps).seen # "unwritten"
    BY <1>2, <1>5, <2>1 DEF Patching
  <2>3. QED
    BY <2>2
<1>10. MaintenanceKept'
  <2> SUFFICES ASSUME NEW c \in calls', c.do = "enable", c.seen = "unwritten",
                      batch'[c.req] = "toggle", ~c.raced, c.printer \notin suspect
               PROVE  mode[c.printer] # "maintenance"
    BY DEF MaintenanceKept
  <2>1. CASE c \in new
    <3>1. Patching(c.printer) = {} /\ c.printer \in Printer
      BY <1>4, <2>1 DEF Patch, Call
    <3>2. listed[c.printer] = mode[c.printer]
      BY <3>1 DEF CallsInv, ListedIsMode
    <3>3. QED
      BY <1>3, <1>4, <2>1, <3>2
  <2>2. ASSUME NEW d \in calls, c = RacedWith(d, ps) PROVE mode[c.printer] # "maintenance"
    <3>1. d.req \in Request \ {r}
      BY <1>1, <1>5 DEF Call
    <3>2. d.do = "enable" /\ d.seen = "unwritten" /\ ~d.raced /\ d.printer = c.printer
      BY <1>5, <2>2
    <3>3. batch[d.req] = "toggle"
      BY <1>3, <1>5, <2>2, <3>1
    <3>4. QED
      BY <2>2, <3>2, <3>3 DEF CallsInv, MaintenanceKept
  <2>3. QED
    BY <1>2, <2>1, <2>2
<1>11. AnsweredIsOver'
  <2> SUFFICES ASSUME NEW c \in calls', batch'[c.req] = "idle" PROVE c.do = "connect"
    BY DEF AnsweredIsOver, Idle
  <2>1. CASE c \in new
    BY <1>3, <1>4, <2>1
  <2>2. ASSUME NEW d \in calls, c = RacedWith(d, ps) PROVE c.do = "connect"
    <3>1. d.req \in Request \ {r}
      BY <1>1, <1>5 DEF Call
    <3>2. QED
      BY <1>3, <1>5, <2>2, <3>1 DEF CallsInv, AnsweredIsOver, Idle
  <2>3. QED
    BY <1>2, <2>1, <2>2
<1>12. QED
  BY <1>6, <1>7, <1>8, <1>9, <1>10, <1>11 DEF CallsInv

\* A patch of a printer, written
LEMMA WriteKeeps ==
    ASSUME CallsInv, NEW c \in calls, Write(c)
    PROVE  CallsInv'
<1> DEFINE p == c.printer
           new == Patched(c.do, mode[p])
           w == [c EXCEPT !.seen = new]
<1>1. c \in Call /\ p \in Printer /\ c.do \in Patch /\ c.seen = "unwritten"
  BY DEF Write, CallsInv, CallsTypeOK, Call
<1>2. CASE mode[p] = "gone"
  <2>1. calls' = calls \ {c} /\ UNCHANGED <<mode, listed, job, batch, suspect>>
    BY <1>2 DEF Write
  <2>2. CallsTypeOK' /\ RacesKnown' /\ SeenIsMode' /\ MaintenanceKept' /\ AnsweredIsOver'
    BY <2>1 DEF CallsInv, CallsTypeOK, RacesKnown, SeenIsMode, MaintenanceKept, AnsweredIsOver, Idle
  <2>3. ListedIsMode'
    BY <1>1, <2>1 DEF CallsInv, ListedIsMode, Patching
  <2>4. QED
    BY <2>2, <2>3 DEF CallsInv
<1>3. CASE mode[p] # "gone"
  <2>1. new \in Mode \cup {"gone"}
    <3>1. c.do \in {"enable", "disable", "maintain", "release", "delete"} /\ mode[p] \in Mode
      BY <1>1, <1>3 DEF Patch, CallsInv, CallsTypeOK
    <3>2. QED
      BY <3>1 DEF Patched, Mode
  <2>2. /\ calls' = (calls \ {c}) \cup {w}
        /\ mode' = [mode EXCEPT ![p] = new]
        /\ UNCHANGED <<listed, job, batch, suspect>>
    BY <1>3 DEF Write
  <2>3. /\ w \in Call /\ w.seen = new /\ w.seen # "unwritten"
        /\ w.req = c.req /\ w.printer = p /\ w.do = c.do /\ w.raced = c.raced
    BY <1>1, <2>1 DEF Call, Mode
  <2>4. mode'[p] = new /\ \A x \in Printer \ {p} : mode'[x] = mode[x]
    BY <1>1, <2>2 DEF CallsInv, CallsTypeOK
  <2> HIDE DEF w, new
  <2>5. CallsTypeOK'
    BY <1>1, <2>1, <2>2, <2>3 DEF CallsInv, CallsTypeOK
  <2>6. \A d \in calls \ {c} : d.do \in Patch /\ d.printer = p => d.raced
    BY <1>1 DEF CallsInv, RacesKnown
  <2>7. RacesKnown'
    BY <1>1, <2>2, <2>3 DEF CallsInv, RacesKnown
  <2>8. \A d \in calls : d.printer \in Printer
    BY DEF CallsInv, CallsTypeOK, Call
  <2>9. SeenIsMode'
    BY <2>2, <2>3, <2>4, <2>6, <2>8 DEF CallsInv, SeenIsMode
  <2>10. ListedIsMode'
    <3>1. w \in Patching(p)'
      BY <1>1, <2>2, <2>3 DEF Patching
    <3>2. \A x \in Printer \ {p} : \A d \in Patching(x) : d \in Patching(x)'
      BY <2>2 DEF Patching
    <3>3. QED
      BY <2>2, <2>3, <2>4, <3>1, <3>2 DEF CallsInv, ListedIsMode
  <2>11. MaintenanceKept'
    BY <2>2, <2>3, <2>4, <2>6, <2>8 DEF CallsInv, MaintenanceKept, Patch
  <2>12. AnsweredIsOver'
    BY <2>2, <2>3 DEF CallsInv, AnsweredIsOver, Idle
  <2>13. QED
    BY <2>5, <2>7, <2>9, <2>10, <2>11, <2>12 DEF CallsInv
<1>4. QED
  BY <1>2, <1>3

\* ... and published to the cache
LEMMA PublishKeeps ==
    ASSUME CallsInv, NEW c \in calls, Publish(c)
    PROVE  CallsInv'
<1> DEFINE p == c.printer
<1>1. c \in Call /\ p \in Printer /\ c.do \in Patch /\ c.seen # "unwritten" /\ c.raced \in BOOLEAN
  BY DEF Publish, CallsInv, CallsTypeOK, Call
<1>2. /\ calls' = calls \ {c} /\ UNCHANGED <<mode, job, batch>>
      /\ listed' = [listed EXCEPT ![p] = c.seen]
      /\ suspect' = IF c.raced THEN suspect \cup {p} ELSE suspect \ {p}
  BY DEF Publish
<1>3. \A d \in calls \ {c} : d.do \in Patch /\ d.printer = p => d.raced
  BY <1>1 DEF CallsInv, RacesKnown
<1>4. CallsTypeOK'
  BY <1>1, <1>2 DEF CallsInv, CallsTypeOK, Call
<1>5. RacesKnown' /\ SeenIsMode' /\ AnsweredIsOver'
  BY <1>2 DEF CallsInv, RacesKnown, SeenIsMode, AnsweredIsOver, Idle
<1>6. ListedIsMode'
  <2> SUFFICES ASSUME NEW x \in Printer \ suspect'
               PROVE  listed'[x] = mode[x] \/ \E d \in Patching(x)' : d.seen # "unwritten"
    BY <1>2 DEF ListedIsMode
  <2>1. CASE x = p
    BY <1>1, <1>2, <2>1 DEF CallsInv, SeenIsMode, CallsTypeOK
  <2>2. CASE x # p
    <3>1. listed'[x] = listed[x] /\ x \notin suspect /\ Patching(x)' = Patching(x)
      BY <1>1, <1>2, <2>2 DEF CallsInv, CallsTypeOK, Patching
    <3>2. QED
      BY <3>1 DEF CallsInv, ListedIsMode
  <2>3. QED
    BY <2>1, <2>2
<1>7. MaintenanceKept'
  BY <1>2, <1>3 DEF CallsInv, MaintenanceKept, Patch
<1>8. QED
  BY <1>4, <1>5, <1>6, <1>7 DEF CallsInv
\* The first unknown printer of a batch is one of its printers.
LEMMA FirstUnknown ==
    ASSUME NEW ids \in Seq(Printer)
    PROVE  SelectInSeq(ids, LAMBDA p : ~Known(p)) \in 0..Len(ids)
<1> DEFINE R == OpToRel(<, Nat)
           I == {i \in 1..Len(ids) : ~Known(ids[i])}
<1>1. IsWellFoundedOn(R, Nat)
  BY NatLessThanWellFounded
<1>2. SelectInSeq(ids, LAMBDA p : ~Known(p)) = IF I # {} THEN Min(I) ELSE 0
  BY DEF SelectInSeq
<1>3. \A i, j \in Nat : j < i => <<j, i>> \in R
  BY DEF OpToRel
<1>4. ASSUME I # {} PROVE Min(I) \in I
  <2> HIDE DEF R
  <2>1. I \subseteq Nat
    OBVIOUS
  <2>2. PICK i \in I : \A j \in I : ~(<<j, i>> \in R)
    <3> HIDE DEF I
    <3> QED BY <1>1, <1>4, <2>1, WFMin
  <2>3. \A j \in I : i <= j
    <3> TAKE j \in I
    <3>1. i \in Nat /\ j \in Nat /\ ~(<<j, i>> \in R)
      BY <2>1, <2>2
    <3>2. ~(j < i)
      BY <1>3, <3>1
    <3>3. QED
      BY <3>1, <3>2
  <2>4. QED
    BY <2>3 DEF Min
<1>5. QED
  BY <1>2, <1>4

\* Every step about calls keeps the invariant.
LEMMA CallsStep == CallsInv /\ [CallsNext]_callVars => CallsInv'
<1> SUFFICES ASSUME CallsInv, [CallsNext]_callVars PROVE CallsInv'
  OBVIOUS
<1>1. ASSUME NEW r \in Request, NEW ps \in SUBSET Printer, NEW enabled \in BOOLEAN,
             Toggle(r, ps, enabled)
      PROVE  CallsInv'
  <2> DEFINE do == IF enabled THEN "enable" ELSE "disable"
             chosen == {p \in ps : IF enabled THEN Enables(p) ELSE listed[p] = "on"}
             new == {Asked(r, p, do) : p \in chosen}
  <2>1. do \in Patch \cup Command /\ (do = "enable" => enabled)
    BY DEF Patch
  <2>2. \A c \in new : \E p \in chosen : c = Asked(r, p, do) /\ c.printer = p /\ c.do = do
    BY <2>1, AskedFields
  <2>3. \A c \in new : \E p \in Printer, d \in Patch \cup Command : c = Asked(r, p, d)
    BY <2>1
  <2>4. \A c, d \in new : c.printer = d.printer => c = d
    BY <2>2
  <2>5. \A c \in new : c.do = "enable" => listed[c.printer] = "off"
    BY <2>1, <2>2 DEF Enables
  <2>6. Free(r) /\ Ask(r, "toggle", new) /\ UNCHANGED <<mode, listed, job, suspect>>
    BY <1>1 DEF Toggle
  <2> HIDE DEF new
  <2>7. QED
    BY <2>3, <2>4, <2>5, <2>6, AskKeeps DEF BatchKind
<1>2. ASSUME NEW r \in Request, NEW ids \in SetToSeqs(Printer), ConnectUsb(r, ids) PROVE CallsInv'
  <2> DEFINE unknown == SelectInSeq(ids, LAMBDA p : ~Known(p))
             sent == IF unknown = 0 THEN ids ELSE SubSeq(ids, 1, unknown - 1)
             kind == IF unknown = 0 THEN "usb" ELSE "idle"
             new == {Asked(r, p, "connect") : p \in ToSet(sent)}
  <2>1. ids \in Seq(Printer)
    BY CallsAssumption, FS_CardinalityType DEF SetToSeqs
  <2>2. unknown \in 0..Len(ids)
    BY <2>1, FirstUnknown
  <2> HIDE DEF unknown
  <2>3. sent \in Seq(Printer)
    BY <2>1, <2>2
  <2> HIDE DEF sent
  <2>4. \A c \in new : \E p \in Printer : c = Asked(r, p, "connect") /\ c.printer = p /\ c.do = "connect"
    BY <2>3, AskedFields DEF ToSet, Command
  <2>5. \A c \in new : \E p \in Printer, d \in Patch \cup Command : c = Asked(r, p, d)
    BY <2>4 DEF Command
  <2>6. \A c, d \in new : c.printer = d.printer => c = d
    BY <2>4
  <2>7. Free(r) /\ Ask(r, kind, new) /\ UNCHANGED <<mode, listed, job, suspect>>
    BY <1>2 DEF ConnectUsb, unknown, sent
  <2> HIDE DEF new
  <2>8. QED
    BY <2>4, <2>5, <2>6, <2>7, AskKeeps DEF BatchKind
<1>3. ASSUME NEW r \in Request, NEW p \in Printer, NEW do \in Patch \cup Command, Single(r, p, do)
      PROVE  CallsInv'
  <2> DEFINE new == {Asked(r, p, do)}
  <2>1. Free(r) /\ Ask(r, "single", new) /\ UNCHANGED <<mode, listed, job, suspect>>
    BY <1>3 DEF Single
  <2>2. QED
    BY <2>1, AskKeeps DEF BatchKind
<1>4. ASSUME NEW r \in Request, Answer(r) PROVE CallsInv'
  <2>1. UNCHANGED <<mode, listed, calls, suspect, job>> /\ batch' = [batch EXCEPT ![r] = "idle"]
        /\ \A c \in calls : c.req # r
    BY <1>4 DEF Answer, AllSettled, CallsOf
  <2>2. \A c \in calls : c.req \in Request /\ batch'[c.req] = batch[c.req]
    BY <2>1 DEF CallsInv, CallsTypeOK, Call
  <2>3. CallsTypeOK'
    BY <2>1 DEF CallsInv, CallsTypeOK
  <2>4. RacesKnown' /\ SeenIsMode' /\ ListedIsMode'
    BY <2>1 DEF CallsInv, RacesKnown, SeenIsMode, ListedIsMode, Patching
  <2>5. MaintenanceKept' /\ AnsweredIsOver'
    BY <2>1, <2>2 DEF CallsInv, MaintenanceKept, AnsweredIsOver, Idle
  <2>6. QED
    BY <2>3, <2>4, <2>5 DEF CallsInv
<1>5. ASSUME NEW c \in calls, Write(c) PROVE CallsInv'
  BY <1>5, WriteKeeps
<1>6. ASSUME NEW c \in calls, Publish(c) PROVE CallsInv'
  BY <1>6, PublishKeeps
<1>7. ASSUME NEW c \in calls, CommandEnds(c) PROVE CallsInv'
  <2>1. calls' = calls \ {c} /\ c.do \notin Patch /\ UNCHANGED <<mode, listed, batch, suspect>>
    BY <1>7 DEF CommandEnds, Command, Patch
  <2>2. job' \in [Printer -> Job]
    <3>1. \A do, old \in Job \cup Command : old \in Job => Executed(do, old) \in Job
      BY DEF Executed, Job
    <3>2. c.do \in Command /\ c.printer \in Printer
      BY <1>7 DEF CommandEnds, CallsInv, CallsTypeOK, Call
    <3>3. QED
      BY <1>7, <3>1, <3>2 DEF CommandEnds, CallsInv, CallsTypeOK
  <2>3. CallsTypeOK' /\ RacesKnown' /\ SeenIsMode'
    BY <2>1, <2>2 DEF CallsInv, CallsTypeOK, RacesKnown, SeenIsMode
  <2>4. ListedIsMode'
    BY <2>1 DEF CallsInv, ListedIsMode, Patching
  <2>5. MaintenanceKept' /\ AnsweredIsOver'
    BY <2>1 DEF CallsInv, MaintenanceKept, AnsweredIsOver, Idle
  <2>6. QED
    BY <2>3, <2>4, <2>5 DEF CallsInv
<1>8. CASE UNCHANGED callVars \/ \E p \in Printer : PrintStarts(p)
  <2>1. UNCHANGED <<mode, listed, calls, batch, suspect>>
    BY <1>8 DEF callVars, PrintStarts
  <2>2. job' \in [Printer -> Job]
    BY <1>8 DEF callVars, PrintStarts, Job, CallsInv, CallsTypeOK
  <2>3. QED
    BY <2>1, <2>2 DEF CallsInv, CallsTypeOK, RacesKnown, SeenIsMode, ListedIsMode, Patching,
                      MaintenanceKept, AnsweredIsOver, Idle
<1>9. QED
  BY <1>1, <1>2, <1>3, <1>4, <1>5, <1>6, <1>7, <1>8 DEF CallsNext, PatchNext, CommandNext

LEMMA CallsStart == CallsInit => CallsInv
<1>1. CallsInit => CallsTypeOK
  BY DEF CallsInit, CallsTypeOK, Job
<1>2. CallsInit => RacesKnown /\ SeenIsMode /\ ListedIsMode /\ MaintenanceKept /\ AnsweredIsOver
  BY DEF CallsInit, RacesKnown, SeenIsMode, ListedIsMode, MaintenanceKept, AnsweredIsOver
<1>3. QED
  BY <1>1, <1>2 DEF CallsInv

LEMMA CallsInvariant == CallsSpec => []CallsInv
BY CallsStart, CallsStep, PTL DEF CallsSpec

\* batchTogglePrintersEnabled, for all its printers at once, enables none that is in maintenance,
\* unless something else changes that printer at the same time.
THEOREM MaintenanceStays == CallsSpec => []MaintenanceKept
<1>1. CallsInv => MaintenanceKept
  BY DEF CallsInv
<1>2. QED
  BY <1>1, CallsInvariant, PTL

\* When a batch of patches has been answered, whatever of it failed, it is over.
THEOREM AnswersEndBatches == CallsSpec => []AnsweredIsOver
<1>1. CallsInv => AnsweredIsOver
  BY DEF CallsInv
<1>2. QED
  BY <1>1, CallsInvariant, PTL

-----------------------------------------------------------------------------
(* The events cache.                                                       *)

EventsInv == EventsOfPrinters /\ PrintEventsTypeOK

\* A message of a printer makes its entry; that of a deleted one is named.
LEMMA CacheKeeps ==
    ASSUME EventsInv, NEW p \in Printer, NEW label \in Labels, CacheEvent(p, label),
           UNCHANGED printers, recorded' \subseteq ended', ended' \subseteq Printer
    PROVE  EventsInv'
<1>1. Noted(lastEvents[p], label) \in SUBSET Labels
  BY DEF Noted, EventsInv, PrintEventsTypeOK
<1>2. PrintEventsTypeOK'
  BY <1>1 DEF CacheEvent, EventsInv, PrintEventsTypeOK
<1>3. EventsOfPrinters'
  BY DEF CacheEvent, EventsInv, EventsOfPrinters, PrintEventsTypeOK
<1>4. QED
  BY <1>2, <1>3 DEF EventsInv

\* In every reachable state the entries are of printers, or of what went on to deliver.
LEMMA EventsInvariant == PrintEventsSpec => []EventsInv
<1>1. PrintEventsInit => EventsInv
  BY DEF PrintEventsInit, EventsInv, EventsOfPrinters, PrintEventsTypeOK
<1>2. EventsInv /\ [PrintEventsNext]_printVars => EventsInv'
  <2> SUFFICES ASSUME EventsInv, [PrintEventsNext]_printVars PROVE EventsInv'
    OBVIOUS
  <2>1. ASSUME NEW p \in Printer, PrintEnds(p) PROVE EventsInv'
    <3>1. recorded' \subseteq ended' /\ ended' \subseteq Printer
      BY <2>1 DEF PrintEnds, EventsInv, PrintEventsTypeOK
    <3>2. QED
      BY <2>1, <3>1, CacheKeeps DEF PrintEnds, Labels
  <2>2. ASSUME NEW p \in Printer, NEW label \in Labels, OtherMessage(p, label) PROVE EventsInv'
    <3>1. recorded' \subseteq ended' /\ ended' \subseteq Printer
      BY <2>2 DEF OtherMessage, EventsInv, PrintEventsTypeOK
    <3>2. QED
      BY <2>2, <3>1, CacheKeeps DEF OtherMessage
  <2>3. ASSUME NEW ps \in SUBSET Printer, PrintersDeleted(ps) PROVE EventsInv'
    BY <2>3 DEF PrintersDeleted, Forgotten, EventsInv, EventsOfPrinters, PrintEventsTypeOK
  <2>4. CASE PrintsRestart
    BY <2>4 DEF PrintsRestart, EventsInv, EventsOfPrinters, PrintEventsTypeOK
  <2>5. CASE UNCHANGED printVars
    BY <2>5 DEF printVars, EventsInv, EventsOfPrinters, PrintEventsTypeOK
  <2>6. QED
    BY <2>1, <2>2, <2>3, <2>4, <2>5 DEF PrintEventsNext
<1>3. QED
  BY <1>1, <1>2, PTL DEF PrintEventsSpec

\* PrinterEventsCache has no entry of a deleted printer, in whatever order messages and deletions
\* come, unless a message came after the deletion.
THEOREM EventsAreOfPrinters == PrintEventsSpec => []EventsOfPrinters
<1>1. EventsInv => EventsOfPrinters
  BY DEF EventsInv
<1>2. QED
  BY <1>1, EventsInvariant, PTL

\* The entries and the records have the types the module gives them.
THEOREM PrintsTypeCorrect == PrintEventsSpec => []PrintEventsTypeOK
<1>1. EventsInv => PrintEventsTypeOK
  BY DEF EventsInv
<1>2. QED
  BY <1>1, EventsInvariant, PTL

-----------------------------------------------------------------------------
(* Types.                                                                  *)

\* The test socket and what the tests wait for have the types the module gives them.
THEOREM TestsTypeCorrect == TestsSpec => []TestsTypeOK
<1>1. TestsInv => TestsTypeOK
  BY DEF TestsInv
<1>2. QED
  BY <1>1, TestsInvariant, PTL

\* The printers, their jobs and the calls about them have the types the module gives them.
THEOREM CallsTypeCorrect == CallsSpec => []CallsTypeOK
<1>1. CallsInv => CallsTypeOK
  BY DEF CallsInv
<1>2. QED
  BY <1>1, CallsInvariant, PTL

-----------------------------------------------------------------------------
(* All of them, side by side.                                              *)

allVars == <<part, fileVars, printVars, testVars, callVars>>

LEMMA AllStart == AllInit => FilesInit /\ PrintEventsInit /\ TestsInit /\ CallsInit
BY DEF AllInit, FilesAtRest, CallsAtRest

\* A step is one of one component, and leaves the others.
LEMMA AllStep ==
    ASSUME [AllNext]_allVars
    PROVE  /\ [FilesNext]_fileVars /\ [PrintEventsNext]_printVars
           /\ [TestsNext]_testVars /\ [CallsNext]_callVars
BY DEF AllNext, allVars, CallsNext

\* What is checked side by side behaves, component by component, as each does alone: the theorems
\* about the components are theorems about the composition, and the runs that check the
\* composition check each.
THEOREM PrintersAreTheirComponents ==
    AllSpec => FilesSpec /\ PrintEventsSpec /\ TestsSpec /\ CallsSpec
<1>1. AllSpec <=> AllInit /\ [][AllNext]_allVars
  BY DEF AllSpec, allVars
<1>2. QED
  BY <1>1, AllStart, AllStep, PTL DEF FilesSpec, PrintEventsSpec, TestsSpec, CallsSpec

\* The state of every component that requests about printers go to is well-typed.
THEOREM PrintersTypeCorrect == AllSpec => []AllTypeOK
<1>1. FilesTypeOK /\ PrintEventsTypeOK /\ TestsTypeOK /\ CallsTypeOK => AllTypeOK
  BY DEF AllTypeOK
<1>2. QED
  BY <1>1, PrintersAreTheirComponents, FilesTypeCorrect, PrintsTypeCorrect, TestsTypeCorrect,
     CallsTypeCorrect, PTL

=============================================================================
