-------------------------- MODULE PrinterFleetProofs --------------------------
(***************************************************************************)
(* Proofs about PrinterFleet, for any numbers of printers, requests and    *)
(* logins.                                                                 *)
(***************************************************************************)
EXTENDS PrinterFleet, TLAPS

ReqRec == [stage : Stage, ps : SUBSET Printer, docs : [Printer -> MaybeDoc]]

LEMMA IdleType == Idle \in ReqRec
  BY DEF Idle, ReqRec, Stage, MaybeDoc

LEMMA RecordType ==
    ASSUME NEW stage \in Stage, NEW ps \in SUBSET Printer, NEW docs \in [Printer -> MaybeDoc]
    PROVE  [stage |-> stage, ps |-> ps, docs |-> docs] \in ReqRec
  BY DEF ReqRec

LEMMA WithType ==
    ASSUME NEW p \in Printer, NEW doc \in MaybeDoc
    PROVE  With(Idle.docs, p, doc) \in [Printer -> MaybeDoc]
  BY DEF With, Idle, MaybeDoc

LEMMA AdapterType ==
    ASSUME NEW found, NEW doc \in Doc
    PROVE  CreateOrUpdateSocket(found, doc) \in Login \cup {None}
  BY DEF CreateOrUpdateSocket, Doc

LEMMA LoadedType ==
    ASSUME NEW cached \in [Printer -> MaybeDoc]
    PROVE  LoadedSockets(cached) \in [Printer -> Login \cup {None}]
<1>1. \A p \in Printer : cached[p] # None => CreateOrUpdateSocket(None, cached[p]) \in Login \cup {None}
  BY AdapterType DEF MaybeDoc
<1>. HIDE DEF CreateOrUpdateSocket
<1>2. QED BY <1>1 DEF LoadedSockets

LEMMA AwaitType ==
    ASSUME TypeOK, NEW r \in Request, NEW stage \in Stage, NEW ps \in SUBSET Printer,
           NEW docs \in [Printer -> MaybeDoc], Await(r, stage, ps, docs)
    PROVE  req' \in [Request -> ReqRec]
  BY RecordType DEF Await, TypeOK, ReqRec

LEMMA FinishType ==
    ASSUME TypeOK, NEW r \in Request, Finish(r)
    PROVE  req' \in [Request -> ReqRec]
  BY IdleType DEF Finish, TypeOK, ReqRec

LEMMA JoinType ==
    ASSUME TypeOK, NEW r \in Request, NEW ps \in SUBSET Printer, Join(r, ps)
    PROVE  raced' \in SUBSET Request /\ suspect' \in SUBSET Printer
  BY DEF Join, Others, TypeOK

LEMMA EventType ==
    ASSUME TypeOK, NEW event, NEW ps, NEW docs \in [Printer -> MaybeDoc],
           CacheHandles(event, ps, docs), SocketsHandle(event, ps, docs),
           \A p \in ps : event # "deleted" => docs[p] \in Doc
    PROVE  cache' \in [Printer -> MaybeDoc] /\ adapter' \in [Printer -> Login \cup {None}]
<1>1. cache' \in [Printer -> MaybeDoc]
  BY DEF CacheHandles, TypeOK, MaybeDoc
<1>2. \A p \in ps : event # "deleted" => CreateOrUpdateSocket(adapter[p], docs[p]) \in Login \cup {None}
  BY AdapterType
<1>. HIDE DEF CreateOrUpdateSocket
<1>3. adapter' \in [Printer -> Login \cup {None}]
  BY <1>2 DEF SocketsHandle, TypeOK
<1>4. QED BY <1>1, <1>3

LEMMA PatchesType ==
    ASSUME NEW doc \in Doc, NEW patched \in Patches(doc)
    PROVE  patched \in Doc
  BY DEF Patches, Doc

\* What a save keeps in memory and what it leaves in the database
LEMMA InputType ==
    ASSUME NEW read \in Doc, NEW login \in Login, NEW enabled \in BOOLEAN
    PROVE  LET doc == [read EXCEPT !.login = login, !.enabled = enabled]
           IN  doc \in Doc /\ doc.reason = read.reason
  BY DEF Doc

LEMMA SaveType ==
    ASSUME NEW stored \in Doc, NEW read \in Doc, NEW doc \in Doc, doc.reason = read.reason
    PROVE  /\ Modified(stored, read, doc) \in Doc
           /\ stored = read => Modified(stored, read, doc) = doc
  BY DEF Modified, Doc

-----------------------------------------------------------------------------
(* Types.  A request that is about to save holds the document it read, one *)
(* that has created printers theirs.                                       *)

Reading == \A r \in Request, p \in Printer :
    /\ req[r].stage \in {"save", "created", "import"} /\ p \in req[r].ps => req[r].docs[p] \in Doc
    /\ req[r].stage = "idle" => p \notin req[r].ps

\* What an event tells of, but for the deletion and an update of a printer that is gone
LEMMA HoldsDocs ==
    ASSUME TypeOK, Reading, NEW r \in Request, Emit(r), ~UNCHANGED <<cache, adapter, suspect>>
    PROVE  \A p \in req[r].ps : req[r].stage # "deleted" => req[r].docs[p] \in Doc
<1>1. \A p \in req[r].ps : p \in Printer /\ req[r].docs[p] \in MaybeDoc
  BY DEF TypeOK
<1>2. CASE req[r].stage = "updated"
  BY <1>1, <1>2 DEF Emit, MaybeDoc
<1>3. CASE req[r].stage \in {"created", "import"}
  BY <1>1, <1>3 DEF Reading
<1>4. QED BY <1>2, <1>3 DEF Emit

LEMMA TypeStep ==
    ASSUME TypeOK, Reading, [Next]_vars
    PROVE  TypeOK' /\ Reading'
<1>. USE NoneAssumption
<1>0. req \in [Request -> ReqRec] /\ Idle \in ReqRec
  BY IdleType DEF TypeOK, ReqRec
<1>1. CASE UNCHANGED vars
  BY <1>1 DEF vars, TypeOK, Reading
<1>2. CASE Restart \/ RestartUnloaded
  <2>1. cache' \in [Printer -> MaybeDoc] /\ suspect' \in SUBSET Printer
    BY <1>2 DEF Restart, RestartUnloaded, TypeOK, MaybeDoc
  <2>2. adapter' \in [Printer -> Login \cup {None}]
    BY <1>2, LoadedType DEF Restart, RestartUnloaded, TypeOK
  <2>3. req' = [r \in Request |-> Idle] /\ raced' = {} /\ UNCHANGED <<db, unused>>
    BY <1>2 DEF Restart, RestartUnloaded, Forgets
  <2>4. TypeOK'
    BY <1>0, <2>1, <2>2, <2>3 DEF TypeOK, ReqRec
  <2>5. QED BY <2>3, <2>4 DEF Reading, Idle
<1>3. ASSUME NEW r \in Request, NEW doc \in Doc, Create(r, doc) \/ ImportNext(r, doc)
      PROVE  TypeOK' /\ Reading'
  <2>1. PICK p \in unused : unused' = unused \ {p} /\ db' = [db EXCEPT ![p] = doc]
                             /\ (Create(r, doc) => Join(r, {p}) /\ Await(r, "created", {p}, With(Idle.docs, p, doc)))
                             /\ (~Create(r, doc) =>
                                   /\ Join(r, {p}) \/ UNCHANGED <<raced, suspect>>
                                   /\ Await(r, "import", req[r].ps \cup {p}, With(req[r].docs, p, doc)))
    BY <1>3 DEF Create, ImportNext
  <2>2. p \in Printer /\ doc \in MaybeDoc
    BY DEF TypeOK, MaybeDoc
  <2>3. req[r].ps \cup {p} \in SUBSET Printer /\ With(req[r].docs, p, doc) \in [Printer -> MaybeDoc]
    BY <1>0, <2>2 DEF ReqRec, With
  <2>4. req' \in [Request -> ReqRec]
    BY <2>1, <2>2, <2>3, AwaitType, WithType DEF Stage
  <2>5. raced' \in SUBSET Request /\ suspect' \in SUBSET Printer
    BY <2>1, <2>2, JoinType DEF TypeOK
  <2>6. UNCHANGED <<cache, adapter>>
    BY <1>3 DEF Create, ImportNext
  <2>7. TypeOK'
    BY <2>1, <2>2, <2>4, <2>5, <2>6 DEF TypeOK, ReqRec
  <2>8. With(Idle.docs, p, doc)[p] = doc /\ With(req[r].docs, p, doc)[p] = doc
    BY <2>2, <1>0 DEF With, Idle, ReqRec
  <2>9. \A q \in req[r].ps : With(req[r].docs, p, doc)[q] = IF q = p THEN doc ELSE req[r].docs[q]
    BY <2>2, <1>0 DEF With, ReqRec
  <2>10. CASE Create(r, doc)
    <3>1. Await(r, "created", {p}, With(Idle.docs, p, doc))
      BY <2>1, <2>10
    <3>. HIDE DEF With
    <3>2. QED BY <3>1, <2>7, <2>8, <1>0 DEF Reading, Await
  <2>11. CASE ~Create(r, doc)
    <3>1. Await(r, "import", req[r].ps \cup {p}, With(req[r].docs, p, doc)) /\ req[r].stage \in {"import", "idle"}
      BY <2>1, <2>11, <1>3 DEF ImportNext
    <3>. HIDE DEF With
    <3>2. \A q \in req[r].ps : With(req[r].docs, p, doc)[q] \in Doc
      BY <3>1, <2>9, <1>0 DEF Reading, ReqRec
    <3>3. QED BY <3>1, <3>2, <2>7, <2>8, <1>0 DEF Reading, Await
  <2>12. QED BY <2>10, <2>11
<1>4. ASSUME NEW r \in Request, ImportFails(r) \/ Reject(r) \/ LoadFails(r)
      PROVE  TypeOK' /\ Reading'
  <2>1. req' \in [Request -> ReqRec]
    BY <1>4, FinishType DEF ImportFails, Reject, LoadFails
  <2>2. TypeOK'
    BY <2>1, <1>0, <1>4 DEF ImportFails, Reject, LoadFails, TypeOK, ReqRec
  <2>3. QED BY <2>2, <1>4, <1>0 DEF ImportFails, Reject, LoadFails, Reading, Finish, Idle
<1>5. ASSUME NEW r \in Request, NEW p \in Printer, StartUpdate(r, p) \/ StartPatch(r, p)
      PROVE  TypeOK' /\ Reading'
  <2>1. db[p] \in Doc
    BY <1>5 DEF StartUpdate, StartPatch, TypeOK, MaybeDoc
  <2>2. With(Idle.docs, p, db[p]) \in [Printer -> MaybeDoc] /\ Idle.docs \in [Printer -> MaybeDoc]
    BY <2>1, <1>0, WithType DEF MaybeDoc, ReqRec
  <2>3. req' \in [Request -> ReqRec]
    BY <2>2, <1>5, AwaitType DEF Stage, StartUpdate, StartPatch
  <2>4. raced' \in SUBSET Request /\ suspect' \in SUBSET Printer
    BY <1>5, JoinType DEF StartUpdate, StartPatch
  <2>5. TypeOK'
    BY <1>5, <2>3, <2>4 DEF StartUpdate, StartPatch, TypeOK, ReqRec
  <2>6. With(Idle.docs, p, db[p])[p] = db[p]
    BY DEF With, Idle
  <2>7. QED BY <1>0, <1>5, <2>1, <2>5, <2>6 DEF StartUpdate, StartPatch, Reading, Await
<1>6. ASSUME NEW r \in Request, NEW p \in Printer, NEW login \in Login, NEW enabled \in BOOLEAN,
             Save(r, p, login, enabled)
      PROVE  TypeOK' /\ Reading'
  <2> DEFINE read == req[r].docs[p]
             doc == [read EXCEPT !.login = login, !.enabled = enabled]
  <2>1. read \in Doc
    BY <1>6 DEF Save, Reading
  <2>2. CASE db[p] = None
    <3>1. Finish(r) /\ UNCHANGED <<db, unused, cache, adapter, raced, suspect>>
      BY <1>6, <2>2 DEF Save
    <3>2. TypeOK'
      BY <3>1, FinishType DEF TypeOK, ReqRec
    <3>3. QED BY <3>1, <3>2, <1>0 DEF Reading, Finish, Idle
  <2>3. CASE db[p] # None
    <3>1. db[p] \in Doc
      BY <2>3 DEF TypeOK, MaybeDoc
    <3>2. doc \in Doc /\ Modified(db[p], read, doc) \in Doc
      <4>1. doc \in Doc /\ doc.reason = read.reason
        BY <2>1, InputType
      <4>. HIDE DEF doc
      <4>2. QED BY <4>1, <2>1, <3>1, SaveType
    <3>3. /\ db' = [db EXCEPT ![p] = Modified(db[p], read, doc)]
          /\ Await(r, "updated", {p}, With(Idle.docs, p, doc))
          /\ UNCHANGED <<unused, cache, adapter, raced, suspect>>
      BY <1>6, <2>3 DEF Save
    <3>. HIDE DEF doc, read
    <3>4. req' \in [Request -> ReqRec]
      BY <3>2, <3>3, AwaitType, WithType DEF Stage, MaybeDoc
    <3>5. TypeOK'
      BY <3>2, <3>3, <3>4 DEF TypeOK, ReqRec, MaybeDoc
    <3>6. QED BY <1>0, <3>3, <3>5 DEF Reading, Await
  <2>4. QED BY <2>2, <2>3
<1>7. ASSUME NEW r \in Request, NEW p \in Printer, FindByIdAndUpdate(r, p)
      PROVE  TypeOK' /\ Reading'
  <2>1. CASE db[p] = None
    <3>1. Await(r, "updated", {p}, Idle.docs) /\ UNCHANGED <<db, unused, cache, adapter, raced, suspect>>
      BY <1>7, <2>1 DEF FindByIdAndUpdate
    <3>2. req' \in [Request -> ReqRec]
      BY <3>1, <1>0, AwaitType DEF Stage, ReqRec
    <3>3. TypeOK'
      BY <3>1, <3>2 DEF TypeOK, ReqRec
    <3>4. QED BY <1>0, <3>1, <3>3 DEF Reading, Await
  <2>2. CASE db[p] # None
    <3>1. db[p] \in Doc
      BY <2>2 DEF TypeOK, MaybeDoc
    <3>2. PICK doc \in Patches(db[p]) :
             /\ db' = [db EXCEPT ![p] = doc]
             /\ Await(r, "updated", {p}, With(Idle.docs, p, doc))
             /\ UNCHANGED <<unused, cache, adapter, raced, suspect>>
      BY <1>7, <2>2 DEF FindByIdAndUpdate, Replied
    <3>3. doc \in Doc
      BY <3>1, PatchesType
    <3>4. req' \in [Request -> ReqRec]
      BY <3>2, <3>3, AwaitType, WithType DEF Stage, MaybeDoc
    <3>5. TypeOK'
      BY <3>2, <3>3, <3>4 DEF TypeOK, ReqRec, MaybeDoc
    <3>6. QED BY <1>0, <3>2, <3>5 DEF Reading, Await
  <2>3. QED BY <2>1, <2>2
<1>8. ASSUME NEW r \in Request, DeleteAll(r) \/ LoadPrinters(r) \/ \E p \in Printer : Delete(r, p)
      PROVE  TypeOK' /\ Reading'
  <2>0. CASE LoadPrinters(r)
    <3>1. req' \in [Request -> ReqRec]
      BY <2>0, AwaitType DEF LoadPrinters, Stage, TypeOK
    <3>2. TypeOK'
      BY <2>0, <3>1, JoinType DEF LoadPrinters, TypeOK, ReqRec
    <3>3. QED BY <1>0, <2>0, <3>2 DEF LoadPrinters, Reading, Await
  <2>. SUFFICES ASSUME ~LoadPrinters(r) PROVE TypeOK' /\ Reading'
    BY <2>0
  <2>1. PICK ps \in SUBSET Printer :
           /\ db' = [p \in Printer |-> IF p \in ps THEN None ELSE db[p]]
           /\ Join(r, ps) /\ Await(r, "deleted", ps, Idle.docs)
           /\ UNCHANGED <<unused, cache, adapter>>
    BY <1>8 DEF DeleteAll, Delete, TypeOK
  <2>2. req' \in [Request -> ReqRec]
    BY <2>1, <1>0, AwaitType DEF Stage, ReqRec
  <2>3. TypeOK'
    BY <2>1, <2>2, JoinType DEF TypeOK, ReqRec, MaybeDoc
  <2>4. QED BY <1>0, <2>1, <2>3 DEF Reading, Await
<1>9. ASSUME NEW r \in Request, Emit(r)
      PROVE  TypeOK' /\ Reading'
  <2>1. req' \in [Request -> ReqRec]
    BY <1>9, FinishType DEF Emit
  <2>2. req[r].docs \in [Printer -> MaybeDoc]
    BY <1>0 DEF ReqRec
  <2>3. /\ cache' \in [Printer -> MaybeDoc]
        /\ adapter' \in [Printer -> Login \cup {None}]
        /\ suspect' \in SUBSET Printer
    <3>1. CASE UNCHANGED <<cache, adapter, suspect>>
      BY <3>1 DEF TypeOK
    <3>2. CASE ~UNCHANGED <<cache, adapter, suspect>>
      <4>1. /\ CacheHandles(req[r].stage, req[r].ps, req[r].docs)
            /\ SocketsHandle(req[r].stage, req[r].ps, req[r].docs)
            /\ suspect' \in SUBSET Printer
        BY <1>9, <3>2 DEF Emit, TypeOK
      <4>2. \A p \in req[r].ps : req[r].stage # "deleted" => req[r].docs[p] \in Doc
        BY <1>9, <2>2, <3>2, HoldsDocs
      <4>3. QED BY <2>2, <4>1, <4>2, EventType
    <3>3. QED BY <3>1, <3>2
  <2>4. TypeOK'
    BY <1>9, <2>1, <2>3 DEF Emit, TypeOK, ReqRec
  <2>5. QED BY <1>0, <1>9, <2>4 DEF Emit, Finish, Reading, Idle
<1>10. ASSUME NEW r \in Request, Loaded(r)
       PROVE  TypeOK' /\ Reading'
  <2> DEFINE docs == req[r].docs
             cached == [p \in Printer |-> IF docs[p] # None THEN docs[p] ELSE cache[p]]
  <2>1. req' \in [Request -> ReqRec]
    BY <1>10, FinishType DEF Loaded
  <2>2. cached \in [Printer -> MaybeDoc]
    BY <1>0 DEF TypeOK, ReqRec
  <2>3. /\ cache' = cached /\ adapter' = LoadedSockets(cached)
        /\ suspect' \in SUBSET suspect /\ Finish(r) /\ UNCHANGED <<db, unused, raced>>
    BY <1>10 DEF Loaded
  <2>. HIDE DEF cached
  <2>4. TypeOK'
    BY <2>1, <2>2, <2>3, LoadedType DEF TypeOK, ReqRec
  <2>5. QED BY <1>0, <2>3, <2>4 DEF Finish, Reading, Idle
<1>11. QED
  BY <1>1, <1>2, <1>3, <1>4, <1>5, <1>6, <1>7, <1>8, <1>9, <1>10 DEF Next, RequestNext

\* The variables keep their types, and a save always starts from a document.
THEOREM TypeCorrect == Spec => []TypeOK
<1>1. Init => TypeOK /\ Reading
  BY IdleType, LoadedType DEF Init, TypeOK, ReqRec, Reading, Idle
<1>2. TypeOK /\ Reading /\ [Next]_vars => (TypeOK /\ Reading)'
  BY TypeStep
<1>3. QED BY <1>1, <1>2, PTL DEF Spec

-----------------------------------------------------------------------------
(* The subscribers agree.  Each handles an event, and is loaded, by        *)
(* operations of its own; what these leave behind fits together.           *)

LEMMA LoadedAgree ==
    ASSUME NEW cached \in [Printer -> MaybeDoc], cache' = cached, adapter' = LoadedSockets(cached)
    PROVE  SocketsFollowCache'
  BY DEF SocketsFollowCache, LoadedSockets, CreateOrUpdateSocket

LEMMA HandlersAgree ==
    ASSUME TypeOK, SocketsFollowCache, NEW event, NEW ps, NEW docs,
           CacheHandles(event, ps, docs), SocketsHandle(event, ps, docs),
           \A p \in ps : event # "deleted" => docs[p] \in Doc
    PROVE  SocketsFollowCache'
<1>. SUFFICES ASSUME NEW p \in Printer
              PROVE  IF cache'[p] # None /\ cache'[p].enabled
                     THEN adapter'[p] = cache'[p].login ELSE adapter'[p] = None
  BY DEF SocketsFollowCache
<1>1. CASE p \notin ps
  BY <1>1 DEF CacheHandles, SocketsHandle, SocketsFollowCache
<1>2. CASE p \in ps /\ event = "deleted"
  BY <1>2 DEF CacheHandles, SocketsHandle
<1>3. CASE p \in ps /\ event # "deleted"
  BY <1>3, NoneAssumption DEF CacheHandles, SocketsHandle, CreateOrUpdateSocket
<1>4. QED BY <1>1, <1>2, <1>3

\* The adapters are those of the printers enabled in the cache, whatever events
\* the requests emit and whenever the copies are loaded or lost.
THEOREM SubscribersAgree == Spec => []SocketsFollowCache
<1>1. Init => SocketsFollowCache
  BY DEF Init, SocketsFollowCache, LoadedSockets, CreateOrUpdateSocket
<1>2. Init => TypeOK /\ Reading
  BY IdleType, LoadedType DEF Init, TypeOK, ReqRec, Reading, Idle
<1>3. TypeOK /\ Reading /\ SocketsFollowCache /\ [Next]_vars => SocketsFollowCache'
  <2>1. SUFFICES ASSUME TypeOK, Reading, SocketsFollowCache, [Next]_vars
                 PROVE  SocketsFollowCache'
    OBVIOUS
  <2>2. CASE UNCHANGED <<cache, adapter>>
    BY <2>1, <2>2 DEF SocketsFollowCache
  <2>3. ASSUME NEW r \in Request, Emit(r)
        PROVE  SocketsFollowCache'
    <3>1. CASE ~UNCHANGED <<cache, adapter, suspect>>
      <4>1. /\ CacheHandles(req[r].stage, req[r].ps, req[r].docs)
            /\ SocketsHandle(req[r].stage, req[r].ps, req[r].docs)
        BY <2>3, <3>1 DEF Emit
      <4>2. QED BY <2>1, <2>3, <3>1, <4>1, HoldsDocs, HandlersAgree
    <3>2. QED BY <2>2, <3>1
  <2>4. ASSUME NEW r \in Request, Loaded(r)
        PROVE  SocketsFollowCache'
    <3> DEFINE cached == [p \in Printer |-> IF req[r].docs[p] # None THEN req[r].docs[p] ELSE cache[p]]
    <3>1. cached \in [Printer -> MaybeDoc]
      BY <2>1 DEF TypeOK
    <3>2. cache' = cached /\ adapter' = LoadedSockets(cached)
      BY <2>4 DEF Loaded
    <3>. HIDE DEF cached
    <3>3. QED BY <3>1, <3>2, LoadedAgree
  <2>5. CASE Restart
    BY <2>1, <2>5, LoadedAgree DEF Restart, TypeOK
  <2>6. CASE RestartUnloaded
    BY <2>6 DEF RestartUnloaded, SocketsFollowCache
  <2>7. ASSUME NEW r \in Request, RequestNext(r), ~Emit(r), ~Loaded(r)
        PROVE  UNCHANGED <<cache, adapter>>
    BY <2>7 DEF RequestNext, Create, ImportNext, ImportFails, Reject, DeleteAll, LoadPrinters, LoadFails,
                StartUpdate, StartPatch, FindByIdAndUpdate, Delete, Save
  <2>8. QED BY <2>1, <2>2, <2>3, <2>4, <2>5, <2>6, <2>7 DEF Next, vars
<1>4. TypeOK /\ Reading /\ [Next]_vars => (TypeOK /\ Reading)'
  BY TypeStep
<1>5. QED BY <1>1, <1>2, <1>3, <1>4, PTL DEF Spec

-----------------------------------------------------------------------------
(* The cache and the database.  A printer that is not suspect has at most  *)
(* one request about it, and that request knows what the database has.     *)

About(r, p) == p \in req[r].ps

\* Stages after a write, that end with the event
Written == {"import", "created", "updated", "deleted"}

\* Two requests about a printer know that they raced
RacesAreSeen ==
    \A r, s \in Request, p \in Printer :
        About(r, p) /\ About(s, p) /\ r # s => r \in raced /\ p \in suspect

\* Ids that are not given out are not in use
UnusedAreUnknown ==
    \A p \in unused : db[p] = None /\ cache[p] = None /\ \A r \in Request : ~About(r, p)

\* What a request about p that did not race holds is what the database has
Knows(r, p) ==
    /\ r \notin raced \/ p \notin suspect =>
           (req[r].stage \in Written \cup {"save", "load"} => req[r].docs[p] = db[p])
    /\ p \notin suspect =>
           /\ req[r].stage \in {"save", "patch", "load"} => cache[p] = db[p]
           /\ req[r].stage \in {"save", "patch", "updated"} => db[p] # None

\* Requests that wait for nothing are about nothing; updates are about one printer;
\* a deletion holds no documents, and a load only those of the printers it is about
StagesFit ==
    \A r \in Request :
        /\ req[r].stage = "idle" => req[r].ps = {}
        /\ req[r].stage \in {"save", "patch", "updated"} =>
              \A p, q \in req[r].ps : p = q
        /\ req[r].stage = "deleted" => req[r].docs = Idle.docs
        /\ req[r].stage = "load" => \A p \in Printer \ req[r].ps : req[r].docs[p] = None

Sync ==
    /\ CacheIsDb
    /\ RacesAreSeen
    /\ UnusedAreUnknown
    /\ StagesFit
    /\ \A r \in Request, p \in Printer : About(r, p) => Knows(r, p)

\* A request starts: it joins those about its printers
LEMMA StartKeepsSync ==
    ASSUME TypeOK, Sync, NEW r \in Request, req[r].stage = "idle",
           NEW ps \in SUBSET Printer, NEW stage, NEW docs, stage # "idle",
           Join(r, ps), Await(r, stage, ps, docs), UNCHANGED cache,
           \A p \in Printer \ ps : db'[p] = db[p],
           unused' \subseteq unused, unused' \cap ps = {},
           stage \in {"save", "patch", "updated"} => \A p, q \in ps : p = q,
           stage = "deleted" => docs = Idle.docs,
           stage = "load" => UNCHANGED db /\ \A p \in Printer \ ps : docs[p] = None,
           \A p \in ps :
              /\ stage \in Written \cup {"save", "load"} => docs[p] = db'[p]
              /\ stage \in {"save", "patch"} => db'[p] = db[p] /\ db[p] # None
              /\ stage # "updated"
    PROVE  Sync'
<1>1. req[r].ps = {}
  BY DEF Sync, StagesFit
<1>2. /\ req'[r].stage = stage /\ req'[r].ps = ps /\ req'[r].docs = docs
      /\ \A s \in Request \ {r} : req'[s] = req[s]
  BY DEF Await, TypeOK
<1>3. \A p \in ps, s \in Request \ {r} :
          About(s, p) => r \in raced' /\ s \in raced' /\ p \in suspect'
  BY DEF Join, Others, About
<1>4. \A s \in Request \ {r} : s \in raced => s \in raced'
  BY DEF Join
<1>5. suspect \subseteq suspect' /\ \A p \in suspect' \ suspect : p \in ps
  BY DEF Join
<1>6. CacheIsDb'
  <2>. SUFFICES ASSUME NEW p \in Printer, p \notin suspect', \A s \in Request : ~About(s, p)'
                PROVE  cache'[p] = db'[p]
    BY DEF CacheIsDb, About
  <2>1. p \notin ps /\ p \notin suspect
    BY <1>2, <1>5 DEF About
  <2>2. \A s \in Request : ~About(s, p)
    BY <1>1, <1>2 DEF About
  <2>3. QED BY <2>1, <2>2 DEF Sync, CacheIsDb, About
<1>7. RacesAreSeen'
  <2>. SUFFICES ASSUME NEW s \in Request, NEW t \in Request, NEW p \in Printer,
                       About(s, p)', About(t, p)', s # t
                PROVE  s \in raced' /\ p \in suspect'
    BY DEF RacesAreSeen
  <2>1. CASE s = r \/ t = r
    BY <2>1, <1>2, <1>3 DEF About
  <2>2. CASE s # r /\ t # r
    BY <2>2, <1>2, <1>4, <1>5 DEF About, Sync, RacesAreSeen
  <2>3. QED BY <2>1, <2>2
<1>8. UnusedAreUnknown'
  <2>1. \A p \in unused' : p \in unused /\ p \notin ps /\ p \in Printer
    BY DEF TypeOK
  <2>2. QED BY <2>1, <1>2 DEF UnusedAreUnknown, Sync, About
<1>9. StagesFit'
  BY <1>2 DEF StagesFit, Sync
<1>10. ASSUME NEW s \in Request, NEW p \in Printer, About(s, p)'
       PROVE  Knows(s, p)'
  <2>1. CASE s = r
    <3>1. p \in ps /\ stage # "updated"
      BY <1>2, <1>10, <2>1 DEF About
    <3>2. p \notin suspect' => cache[p] = db[p]
      BY <3>1, <1>1, <1>3, <1>5 DEF Sync, CacheIsDb, About
    <3>3. QED BY <3>1, <3>2, <1>2, <2>1 DEF Knows
  <2>2. CASE s # r /\ p \in ps
    BY <2>2, <1>2, <1>3, <1>10 DEF Knows, About
  <2>3. CASE s # r /\ p \notin ps
    <3>1. Knows(s, p) /\ db'[p] = db[p] /\ req'[s] = req[s] /\ (p \in suspect' <=> p \in suspect)
      BY <2>3, <1>2, <1>5, <1>10 DEF Sync, About
    <3>2. QED BY <3>1, <1>4, <2>3 DEF Knows
  <2>4. QED BY <2>1, <2>2, <2>3
<1>11. QED BY <1>6, <1>7, <1>8, <1>9, <1>10 DEF Sync

\* A request ends: what it was about is in order, or suspect
LEMMA FinishKeepsSync ==
    ASSUME TypeOK, Sync, NEW r \in Request, Finish(r), UNCHANGED <<db, unused, raced>>,
           \A p \in Printer \ req[r].ps : cache'[p] = cache[p] /\ (p \in suspect' <=> p \in suspect),
           \A p \in req[r].ps :
              /\ p \in suspect' \/ cache'[p] = db[p]
              /\ p \in suspect /\ p \notin suspect' => r \notin raced
    PROVE  Sync'
<1>1. req'[r] = Idle /\ \A s \in Request \ {r} : req'[s] = req[s]
  BY DEF Finish, TypeOK
<1>2. \A s \in Request, p \in Printer : About(s, p)' => s # r /\ About(s, p)
  BY <1>1 DEF About, Idle
<1>3. \A s \in Request \ {r}, p \in Printer :
          About(s, p) => (p \in suspect => p \in suspect') /\ (p \in req[r].ps => p \in suspect)
  BY DEF Sync, RacesAreSeen, About
<1>4. CacheIsDb'
  <2>. SUFFICES ASSUME NEW p \in Printer, p \notin suspect', \A s \in Request : ~About(s, p)'
                PROVE  cache'[p] = db[p]
    BY DEF CacheIsDb, About
  <2>1. CASE p \in req[r].ps
    BY <2>1
  <2>2. CASE p \notin req[r].ps
    <3>1. \A s \in Request : ~About(s, p)
      BY <2>2, <1>1 DEF About
    <3>2. QED BY <2>2, <3>1 DEF Sync, CacheIsDb, About
  <2>3. QED BY <2>1, <2>2
<1>5. RacesAreSeen'
  BY <1>2, <1>3 DEF Sync, RacesAreSeen
<1>6. UnusedAreUnknown'
  <2>1. \A p \in unused : p \in Printer /\ p \notin req[r].ps
    BY DEF TypeOK, Sync, UnusedAreUnknown, About
  <2>2. QED BY <2>1, <1>2 DEF Sync, UnusedAreUnknown
<1>7. StagesFit'
  BY <1>1 DEF Sync, StagesFit, Idle
<1>8. ASSUME NEW s \in Request, NEW p \in Printer, About(s, p)'
      PROVE  Knows(s, p)'
  <2>1. s # r /\ About(s, p) /\ Knows(s, p) /\ req'[s] = req[s]
    BY <1>1, <1>2, <1>8 DEF Sync
  <2>2. CASE p \in req[r].ps
    BY <2>1, <2>2, <1>3 DEF Knows
  <2>3. CASE p \notin req[r].ps
    BY <2>1, <2>3 DEF Knows
  <2>4. QED BY <2>2, <2>3
<1>9. QED BY <1>4, <1>5, <1>6, <1>7, <1>8 DEF Sync

\* A request writes the document of a printer it is, or becomes, about
LEMMA WriteKeepsSync ==
    ASSUME TypeOK, Sync, NEW r \in Request, NEW p \in Printer,
           NEW stage \in Written, NEW ps \in SUBSET Printer, NEW docs, p \in ps,
           Await(r, stage, ps, docs), UNCHANGED <<cache, raced, suspect>>,
           \A q \in Printer \ {p} : db'[q] = db[q],
           unused' = unused \ {p},
           About(r, p) \/ p \in unused,
           \A q \in ps : q # p => About(r, q) /\ docs[q] = req[r].docs[q] /\ req[r].stage \in Written,
           req[r].ps \subseteq ps,
           stage = "updated" => \A q \in ps : q = p,
           stage # "deleted",
           stage = "updated" /\ p \notin suspect => db'[p] # None,
           r \notin raced \/ p \notin suspect => docs[p] = db'[p]
    PROVE  Sync'
<1>1. /\ req'[r].stage = stage /\ req'[r].ps = ps /\ req'[r].docs = docs
      /\ \A s \in Request \ {r} : req'[s] = req[s]
  BY DEF Await, TypeOK
<1>2. \A s \in Request \ {r}, q \in Printer : About(s, q)' <=> About(s, q)
  BY <1>1 DEF About
<1>3. \A s \in Request \ {r} : About(s, p) => s \in raced /\ p \in suspect /\ r \in raced
  BY DEF Sync, RacesAreSeen, UnusedAreUnknown
<1>4. CacheIsDb'
  BY <1>1 DEF Sync, CacheIsDb
<1>5. RacesAreSeen'
  <2>. SUFFICES ASSUME NEW s \in Request, NEW t \in Request, NEW q \in Printer,
                       About(s, q)', About(t, q)', s # t
                PROVE  s \in raced /\ q \in suspect
    BY DEF RacesAreSeen
  <2>1. CASE q = p
    BY <2>1, <1>2, <1>3 DEF Sync, RacesAreSeen
  <2>2. CASE q # p
    <3>1. About(s, q) /\ About(t, q)
      BY <2>2, <1>1, <1>2 DEF About
    <3>2. QED BY <3>1 DEF Sync, RacesAreSeen
  <2>3. QED BY <2>1, <2>2
<1>6. UnusedAreUnknown'
  <2>1. \A q \in unused' : q \in unused /\ q # p /\ q \in Printer
    BY DEF TypeOK
  <2>2. \A q \in unused' : ~About(r, q)'
    BY <2>1, <1>1 DEF Sync, UnusedAreUnknown, About
  <2>3. QED BY <2>1, <2>2, <1>2 DEF Sync, UnusedAreUnknown
<1>7. StagesFit'
  BY <1>1 DEF Sync, StagesFit, Written
<1>8. ASSUME NEW s \in Request, NEW q \in Printer, About(s, q)'
      PROVE  Knows(s, q)'
  <2>1. CASE s = r /\ q = p
    BY <2>1, <1>1 DEF Knows, Written
  <2>2. CASE s = r /\ q # p
    <3>1. About(r, q) /\ docs[q] = req[r].docs[q] /\ req[r].stage \in Written /\ stage # "updated"
      BY <2>2, <1>1, <1>8 DEF About
    <3>2. Knows(r, q)
      BY <3>1 DEF Sync
    <3>3. QED BY <3>1, <3>2, <2>2, <1>1 DEF Knows, Written
  <2>3. CASE s # r /\ q = p
    BY <2>3, <1>2, <1>3, <1>8 DEF Knows
  <2>4. CASE s # r /\ q # p
    <3>1. Knows(s, q) /\ req'[s] = req[s]
      BY <2>4, <1>1, <1>2, <1>8 DEF Sync
    <3>2. QED BY <3>1, <2>4 DEF Knows
  <2>5. QED BY <2>1, <2>2, <2>3, <2>4
<1>9. QED BY <1>4, <1>5, <1>6, <1>7, <1>8 DEF Sync

LEMMA SyncStep ==
    ASSUME TypeOK, Reading, Sync, [Next]_vars
    PROVE  Sync'
<1>. USE NoneAssumption
<1>1. CASE UNCHANGED vars
  BY <1>1 DEF vars, Sync, CacheIsDb, RacesAreSeen, UnusedAreUnknown, StagesFit, Knows, About
<1>2. CASE Restart \/ RestartUnloaded
  <2>1. \A r \in Request : req'[r].ps = {} /\ req'[r].stage = "idle"
    BY <1>2 DEF Restart, RestartUnloaded, Forgets, Idle
  <2>2. \A r \in Request, p \in Printer : ~About(r, p)'
    BY <2>1 DEF About
  <2>3. CacheIsDb' /\ RacesAreSeen' /\ StagesFit'
    BY <1>2, <2>1, <2>2 DEF Restart, RestartUnloaded, Forgets, CacheIsDb, RacesAreSeen, StagesFit, Idle
  <2>4. UnusedAreUnknown'
    BY <1>2, <2>2 DEF Restart, RestartUnloaded, Forgets, UnusedAreUnknown, Sync, TypeOK
  <2>5. QED BY <2>2, <2>3, <2>4 DEF Sync
<1>3. ASSUME NEW r \in Request, NEW doc \in Doc, Create(r, doc)
      PROVE  Sync'
  <2>1. PICK p \in unused :
           /\ unused' = unused \ {p} /\ db' = [db EXCEPT ![p] = doc]
           /\ Join(r, {p}) /\ Await(r, "created", {p}, With(Idle.docs, p, doc))
           /\ req[r].stage = "idle" /\ UNCHANGED cache
    BY <1>3 DEF Create
  <2>2. p \in Printer
    BY DEF TypeOK
  <2>3. With(Idle.docs, p, doc)[p] = db'[p] /\ \A q \in Printer \ {p} : db'[q] = db[q]
    BY <2>1, <2>2 DEF With, Idle, TypeOK
  <2>4. QED BY <2>1, <2>2, <2>3, StartKeepsSync
<1>4. ASSUME NEW r \in Request, NEW doc \in Doc, ImportNext(r, doc)
      PROVE  Sync'
  <2>1. PICK p \in unused :
           /\ unused' = unused \ {p} /\ db' = [db EXCEPT ![p] = doc]
           /\ Await(r, "import", req[r].ps \cup {p}, With(req[r].docs, p, doc))
           /\ IF req[r].stage = "idle" THEN Join(r, {p}) ELSE UNCHANGED <<raced, suspect>>
           /\ req[r].stage \in {"idle", "import"} /\ UNCHANGED cache
    BY <1>4 DEF ImportNext
  <2> DEFINE docs == With(req[r].docs, p, doc)
  <2>2. p \in Printer /\ req[r].ps \in SUBSET Printer
    BY DEF TypeOK
  <2>3. /\ docs[p] = db'[p]
        /\ \A q \in Printer \ {p} : db'[q] = db[q] /\ docs[q] = req[r].docs[q]
    BY <2>1, <2>2 DEF With, TypeOK
  <2>4. Await(r, "import", req[r].ps \cup {p}, docs) /\ unused' = unused \ {p} /\ UNCHANGED cache
    BY <2>1
  <2>. HIDE DEF docs
  <2>5. CASE req[r].stage = "idle"
    <3>1. req[r].ps \cup {p} = {p}
      BY <2>5 DEF Sync, StagesFit
    <3>2. Await(r, "import", {p}, docs) /\ Join(r, {p})
      BY <2>1, <2>4, <2>5, <3>1
    <3>3. {p} \in SUBSET Printer /\ unused' \subseteq unused /\ unused' \cap {p} = {}
      BY <2>2, <2>4
    <3>4. QED BY <2>3, <2>4, <2>5, <3>2, <3>3, StartKeepsSync
  <2>6. CASE req[r].stage = "import"
    <3>1. \A q \in req[r].ps : About(r, q) /\ req[r].stage \in Written
      BY <2>6 DEF About, Written
    <3>2. \A q \in req[r].ps : q # p => docs[q] = req[r].docs[q]
      BY <2>2, <2>3
    <3>3. \A q \in req[r].ps \cup {p} :
             q # p => About(r, q) /\ docs[q] = req[r].docs[q] /\ req[r].stage \in Written
      BY <3>1, <3>2
    <3>4. req[r].ps \cup {p} \in SUBSET Printer /\ "import" \in Written
      BY <2>2 DEF Written
    <3>5. UNCHANGED <<cache, raced, suspect>>
      BY <2>1, <2>6
    <3>6. QED BY <2>2, <2>3, <2>4, <3>3, <3>4, <3>5, WriteKeepsSync
  <2>7. QED BY <2>1, <2>5, <2>6
<1>5. ASSUME NEW r \in Request, ImportFails(r) \/ Reject(r) \/ LoadFails(r)
      PROVE  Sync'
  <2>1. CASE ImportFails(r)
    BY <2>1, FinishKeepsSync DEF ImportFails
  <2>2. CASE Reject(r) \/ LoadFails(r)
    <3>1. \A p \in req[r].ps : p \in suspect \/ cache[p] = db[p]
      BY <2>2 DEF Reject, LoadFails, Sync, Knows, About, TypeOK
    <3>2. QED BY <2>2, <3>1, FinishKeepsSync DEF Reject, LoadFails
  <2>3. QED BY <1>5, <2>1, <2>2
<1>6. ASSUME NEW r \in Request, NEW p \in Printer, StartUpdate(r, p) \/ StartPatch(r, p)
      PROVE  Sync'
  <2>1. With(Idle.docs, p, db[p])[p] = db[p]
    BY DEF With, Idle
  <2>2. CASE StartUpdate(r, p)
    <3>1. /\ req[r].stage = "idle" /\ Join(r, {p}) /\ db[p] # None
          /\ Await(r, "save", {p}, With(Idle.docs, p, db[p]))
          /\ UNCHANGED <<db, unused, cache>>
          /\ {p} \cap unused = {}
      BY <2>2 DEF StartUpdate, Resolves, Sync, UnusedAreUnknown
    <3>2. QED BY <2>1, <3>1, StartKeepsSync
  <2>3. CASE StartPatch(r, p)
    <3>1. /\ req[r].stage = "idle" /\ Join(r, {p}) /\ db[p] # None
          /\ Await(r, "patch", {p}, Idle.docs)
          /\ UNCHANGED <<db, unused, cache>>
          /\ {p} \cap unused = {}
      BY <2>3 DEF StartPatch, Resolves, Sync, UnusedAreUnknown
    <3>2. QED BY <3>1, StartKeepsSync DEF Written
  <2>4. QED BY <1>6, <2>2, <2>3
<1>7. ASSUME NEW r \in Request, NEW p \in Printer, NEW login \in Login, NEW enabled \in BOOLEAN,
             Save(r, p, login, enabled)
      PROVE  Sync'
  <2> DEFINE read == req[r].docs[p]
             doc == [read EXCEPT !.login = login, !.enabled = enabled]
  <2>1. /\ About(r, p) /\ req[r].stage = "save" /\ read \in Doc
        /\ Knows(r, p) /\ \A q \in req[r].ps : q = p
    BY <1>7 DEF Save, About, Reading, Sync, StagesFit
  <2>2. r \notin raced \/ p \notin suspect => read = db[p]
    BY <2>1 DEF Knows
  <2>3. p \notin suspect => cache[p] = db[p] /\ db[p] # None
    BY <2>1 DEF Knows
  <2>4. CASE db[p] = None
    <3>1. Finish(r) /\ UNCHANGED <<db, unused, raced, cache, suspect>>
      BY <1>7, <2>4 DEF Save
    <3>2. QED BY <2>1, <2>3, <2>4, <3>1, FinishKeepsSync
  <2>5. CASE db[p] # None
    <3>1. db[p] \in Doc
      BY <2>5 DEF TypeOK, MaybeDoc
    <3>2. /\ doc \in Doc /\ Modified(db[p], read, doc) \in Doc
          /\ db[p] = read => Modified(db[p], read, doc) = doc
      <4>1. doc \in Doc /\ doc.reason = read.reason
        BY <2>1, InputType
      <4>. HIDE DEF doc
      <4>2. QED BY <4>1, <2>1, <3>1, SaveType
    <3>3. /\ db' = [db EXCEPT ![p] = Modified(db[p], read, doc)]
          /\ Await(r, "updated", {p}, With(Idle.docs, p, doc))
          /\ UNCHANGED <<unused, cache, raced, suspect>>
      BY <1>7, <2>5 DEF Save
    <3>. HIDE DEF doc, read
    <3>4. With(Idle.docs, p, doc)[p] = doc
      BY DEF With, Idle
    <3>5. /\ db'[p] = Modified(db[p], read, doc) /\ db'[p] # None
          /\ \A q \in Printer \ {p} : db'[q] = db[q]
      BY <3>2, <3>3 DEF TypeOK
    <3>6. r \notin raced \/ p \notin suspect => With(Idle.docs, p, doc)[p] = db'[p]
      BY <2>2, <3>2, <3>4, <3>5
    <3>7. unused' = unused \ {p} /\ req[r].ps \subseteq {p} /\ "updated" \in Written
      BY <2>1, <3>3 DEF Sync, UnusedAreUnknown, Written
    <3>8. About(r, p) /\ {p} \in SUBSET Printer
      BY <2>1
    <3>9. QED BY <3>3, <3>5, <3>6, <3>7, <3>8, WriteKeepsSync
  <2>6. QED BY <2>4, <2>5
<1>8. ASSUME NEW r \in Request, NEW p \in Printer, FindByIdAndUpdate(r, p)
      PROVE  Sync'
  <2>1. /\ About(r, p) /\ req[r].stage = "patch"
        /\ Knows(r, p) /\ \A q \in req[r].ps : q = p
    BY <1>8 DEF FindByIdAndUpdate, About, Sync, StagesFit
  <2>2. p \notin suspect => db[p] # None
    BY <2>1 DEF Knows
  <2>3. unused = unused \ {p} /\ req[r].ps \subseteq {p} /\ "updated" \in Written
    BY <2>1 DEF Sync, UnusedAreUnknown, Written
  <2>4. PICK new \in MaybeDoc :
           /\ db' = [db EXCEPT ![p] = new]
           /\ Await(r, "updated", {p}, With(Idle.docs, p, new))
           /\ db[p] # None => new # None
           /\ UNCHANGED <<unused, cache, raced, suspect>>
    <3>1. CASE db[p] = None
      <4>1. db = [db EXCEPT ![p] = None] /\ Idle.docs = With(Idle.docs, p, None)
        BY <3>1 DEF TypeOK, With, Idle
      <4>2. QED BY <1>8, <3>1, <4>1 DEF FindByIdAndUpdate, MaybeDoc
    <3>2. CASE db[p] # None
      <4>1. PICK doc \in Patches(db[p]) :
               db' = [db EXCEPT ![p] = doc] /\ Await(r, "updated", {p}, With(Idle.docs, p, doc))
        BY <1>8, <3>2 DEF FindByIdAndUpdate, Replied
      <4>2. doc \in Doc
        BY <3>2, PatchesType DEF TypeOK, MaybeDoc
      <4>3. QED BY <1>8, <4>1, <4>2 DEF FindByIdAndUpdate, MaybeDoc
    <3>3. QED BY <3>1, <3>2
  <2>5. With(Idle.docs, p, new)[p] = db'[p] /\ \A q \in Printer \ {p} : db'[q] = db[q]
    BY <2>4 DEF With, Idle, TypeOK
  <2>6. p \notin suspect => db'[p] # None
    BY <2>2, <2>4 DEF TypeOK
  <2>7. /\ unused' = unused \ {p} /\ UNCHANGED <<cache, raced, suspect>>
        /\ Await(r, "updated", {p}, With(Idle.docs, p, new)) /\ {p} \in SUBSET Printer
    BY <2>3, <2>4
  <2>8. About(r, p)
    BY <2>1
  <2>. HIDE DEF With
  <2>9. QED BY <2>3, <2>5, <2>6, <2>7, <2>8, WriteKeepsSync
<1>9. ASSUME NEW r \in Request, DeleteAll(r) \/ \E p \in Printer : Delete(r, p)
      PROVE  Sync'
  <2>1. PICK ps \in SUBSET Printer :
           /\ db' = [p \in Printer |-> IF p \in ps THEN None ELSE db[p]]
           /\ Join(r, ps) /\ Await(r, "deleted", ps, Idle.docs)
           /\ UNCHANGED <<unused, cache, adapter>>
           /\ req[r].stage = "idle" /\ \A p \in ps : cache[p] # None
    <3>1. CASE DeleteAll(r)
      BY <3>1 DEF DeleteAll
    <3>2. ASSUME NEW p \in Printer, Delete(r, p)
          PROVE  /\ db' = [q \in Printer |-> IF q \in {p} THEN None ELSE db[q]]
                 /\ Join(r, {p}) /\ Await(r, "deleted", {p}, Idle.docs)
                 /\ UNCHANGED <<unused, cache, adapter>>
                 /\ req[r].stage = "idle" /\ \A q \in {p} : cache[q] # None
      BY <3>2 DEF Delete, Resolves, TypeOK
    <3>3. QED BY <1>9, <3>1, <3>2
  <2>2. \A p \in ps : Idle.docs[p] = db'[p]
    BY <2>1 DEF Idle
  <2>3. unused' \cap ps = {}
    BY <2>1 DEF Sync, UnusedAreUnknown
  <2>4. QED BY <2>1, <2>2, <2>3, StartKeepsSync
<1>10. ASSUME NEW r \in Request, Emit(r)
       PROVE  Sync'
  <2> DEFINE ps == req[r].ps
             vanished == req[r].stage = "updated" /\ \E p \in ps : req[r].docs[p] = None
  <2>1. /\ Finish(r) /\ UNCHANGED <<db, unused, raced>> /\ req[r].stage \in Written
        /\ ps \subseteq Printer
    BY <1>10 DEF Emit, Written, TypeOK
  <2>2. \A p \in ps : Knows(r, p)
    BY <2>1 DEF Sync, About
  <2>3. CASE vanished
    <3>1. UNCHANGED <<cache, suspect>>
      BY <1>10, <2>3 DEF Emit
    <3>2. \A p \in ps : p \in suspect
      BY <2>1, <2>2, <2>3 DEF Knows, Sync, StagesFit
    <3>3. QED BY <2>1, <3>1, <3>2, FinishKeepsSync
  <2>4. CASE ~vanished
    <3>0. req[r].stage = "deleted" => \A p \in Printer : req[r].docs[p] = None
      BY DEF Sync, StagesFit, Idle
    <3>1. /\ cache' = [p \in Printer |-> IF p \in ps THEN req[r].docs[p] ELSE cache[p]]
          /\ suspect' = IF r \in raced THEN suspect ELSE suspect \ ps
      BY <1>10, <2>4, <3>0 DEF Emit, CacheHandles
    <3>2. \A p \in Printer \ ps : cache'[p] = cache[p] /\ (p \in suspect' <=> p \in suspect)
      BY <3>1
    <3>3. \A p \in ps : /\ p \in suspect' \/ cache'[p] = db[p]
                        /\ p \in suspect /\ p \notin suspect' => r \notin raced
      BY <2>1, <2>2, <3>1 DEF Knows
    <3>4. QED BY <2>1, <3>2, <3>3, FinishKeepsSync
  <2>5. QED BY <2>3, <2>4
<1>11. ASSUME NEW r \in Request, LoadPrinters(r)
       PROVE  Sync'
  <2>1. \A p \in Printer \ (Printer \ unused) : db[p] = None
    BY DEF Sync, UnusedAreUnknown
  <2>2. /\ req[r].stage = "idle" /\ Join(r, Printer \ unused) /\ Await(r, "load", Printer \ unused, db)
        /\ UNCHANGED <<db, unused, cache>> /\ unused' \cap (Printer \ unused) = {}
    BY <1>11 DEF LoadPrinters
  <2>. DEFINE ps == Printer \ unused
  <2>3. ps \in SUBSET Printer /\ Join(r, ps) /\ Await(r, "load", ps, db) /\ unused' \cap ps = {}
    BY <2>2
  <2>4. \A p \in Printer \ ps : db[p] = None
    BY <2>1
  <2>. HIDE DEF ps
  <2>5. QED BY <2>2, <2>3, <2>4, StartKeepsSync
<1>12. ASSUME NEW r \in Request, Loaded(r)
       PROVE  Sync'
  <2> DEFINE docs == req[r].docs
             cached == [p \in Printer |-> IF docs[p] # None THEN docs[p] ELSE cache[p]]
  <2>1. /\ req[r].stage = "load" /\ Finish(r) /\ UNCHANGED <<db, unused, raced>> /\ cache' = cached
        /\ suspect' = IF r \in raced THEN suspect
                      ELSE {p \in suspect : p \notin req[r].ps \/ cached[p] # docs[p]}
    BY <1>12 DEF Loaded
  <2>2. \A p \in Printer \ req[r].ps : docs[p] = None
    BY <2>1 DEF Sync, StagesFit
  <2>3. \A p \in Printer \ req[r].ps : cache'[p] = cache[p] /\ (p \in suspect' <=> p \in suspect)
    BY <2>1, <2>2
  <2>4. ASSUME NEW p \in req[r].ps
        PROVE  /\ p \in suspect' \/ cache'[p] = db[p]
               /\ p \in suspect /\ p \notin suspect' => r \notin raced
    <3>1. p \in Printer /\ Knows(r, p)
      BY <2>4 DEF TypeOK, Sync, About
    <3>2. p \notin suspect => docs[p] = db[p] /\ cache[p] = db[p]
      BY <2>1, <3>1 DEF Knows
    <3>3. r \notin raced => docs[p] = db[p]
      BY <2>1, <3>1 DEF Knows
    <3>4. cache'[p] = cached[p] /\ (cached[p] = docs[p] \/ cached[p] = cache[p])
      BY <2>1, <3>1
    <3>5. p \notin suspect => cached[p] = db[p]
      BY <3>1, <3>2
    <3>. HIDE DEF cached, docs
    <3>6. QED BY <2>1, <2>4, <3>2, <3>3, <3>4, <3>5
  <2>5. QED BY <2>1, <2>3, <2>4, FinishKeepsSync
<1>13. QED
  BY <1>1, <1>2, <1>3, <1>4, <1>5, <1>6, <1>7, <1>8, <1>9, <1>10, <1>11, <1>12 DEF Next, RequestNext

\* The cache has what the database has of every printer no request is about,
\* but for those that overlapping requests or loads, or a failed import, left
\* suspect, and those that were never loaded.
THEOREM CacheFollowsDb == Spec => []CacheIsDb
<1>1. Init => TypeOK /\ Reading /\ Sync
  <2>1. Init => TypeOK /\ Reading
    BY IdleType, LoadedType DEF Init, TypeOK, ReqRec, Reading, Idle
  <2>2. Init => \A r \in Request, p \in Printer : ~About(r, p)
    BY DEF Init, Idle, About
  <2>3. Init => CacheIsDb /\ RacesAreSeen /\ UnusedAreUnknown /\ StagesFit
    BY <2>2 DEF Init, CacheIsDb, RacesAreSeen, UnusedAreUnknown, StagesFit, Idle
  <2>4. QED BY <2>1, <2>2, <2>3 DEF Sync
<1>2. TypeOK /\ Reading /\ Sync /\ [Next]_vars => (TypeOK /\ Reading /\ Sync)'
  BY TypeStep, SyncStep
<1>3. Sync => CacheIsDb
  BY DEF Sync
<1>4. QED BY <1>1, <1>2, <1>3, PTL DEF Spec
=============================================================================
