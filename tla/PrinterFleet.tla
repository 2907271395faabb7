----------------------------- MODULE PrinterFleet -----------------------------
(***************************************************************************)
(* The printers: the documents PrinterService writes to the database, the  *)
(* events it emits, and the two subscribers that keep a copy: PrinterCache *)
(* and the adapters of PrinterSocketStore.                                 *)
(*                                                                         *)
(* A request is a sequence of database calls.  Replies may arrive in any   *)
(* order, so requests interleave at every await; emit() calls the handlers *)
(* of both subscribers in one step, after the write it tells of.  A boot   *)
(* that is repeated while requests are served loads the copies anew.       *)
(***************************************************************************)
EXTENDS FiniteSets

CONSTANTS
    Printer,   \* printer ids, each given out once
    Request,   \* requests that may be under way at once
    Login,     \* URL and API key of a printer
    None       \* no document, no adapter

VARIABLES
    db,        \* db[p]: the document of p in the printers collection
    unused,    \* ids not given out yet
    cache,     \* cache[p]: entry of p in PrinterCache
    adapter,   \* adapter[p]: credentials of the adapter of p
    req,       \* req[r]: what request r waits for, the printers it is about,
               \* and the documents it holds
    raced,     \* history: requests that were ever about a printer together
               \* with another one
    suspect    \* history: printers that two requests were about at once, or
               \* that were left behind by an import that failed, or are not
               \* loaded yet

vars == <<db, unused, cache, adapter, req, raced, suspect>>

\* reason: a disabledReason is set (the printer is in maintenance)
Doc == [enabled : BOOLEAN, reason : BOOLEAN, login : Login]
MaybeDoc == Doc \cup {None}

ASSUME NoneAssumption == None \notin Login \cup Doc

\* "save": update() has read the document and validates its input;
\* "patch": updateX() knows the printer exists; "import": batchImport() has
\* created some of its printers; "load": the boot task has listed the printers;
\* the others wait for the reply to their write.
Stage == {"idle", "save", "patch", "import", "load", "created", "updated", "deleted"}

Idle == [stage |-> "idle", ps |-> {}, docs |-> [p \in Printer |-> None]]

TypeOK ==
    /\ db \in [Printer -> MaybeDoc]
    /\ unused \in SUBSET Printer
    /\ cache \in [Printer -> MaybeDoc]
    /\ adapter \in [Printer -> Login \cup {None}]
    /\ req \in [Request -> [stage : Stage, ps : SUBSET Printer,
                            docs : [Printer -> MaybeDoc]]]
    /\ raced \in SUBSET Request
    /\ suspect \in SUBSET Printer

-----------------------------------------------------------------------------
(* Subscribers: PrinterCache and PrinterSocketStore.                       *)

\* handleBatchPrinterCreated, handlePrinterCreatedOrUpdated; handlePrintersDeleted
CacheHandles(event, ps, docs) ==
    cache' = [p \in Printer |->
        IF p \notin ps THEN cache[p] ELSE IF event = "deleted" THEN None ELSE docs[p]]

\* Variants: credentials are registered once; the adapter is given the printer
RegisteredOnce(found, doc) ==
    IF ~doc.enabled THEN None ELSE IF found = None THEN doc.login ELSE found
RegisteredWithPrinter(found, doc) == IF doc.enabled THEN doc ELSE None

\* createOrUpdateSocket: the adapter that is found, or a new one, is given the credentials;
\* that of a disabled printer is deleted
CreateOrUpdateSocket(found, doc) == IF doc.enabled THEN doc.login ELSE None

\* handlePrinterCreated, handleBatchPrinterCreated, handlePrinterUpdated; handlePrintersDeleted
SocketsHandle(event, ps, docs) ==
    adapter' = [p \in Printer |->
        IF p \notin ps THEN adapter[p]
        ELSE IF event = "deleted" THEN None ELSE CreateOrUpdateSocket(adapter[p], docs[p])]

\* loadPrinterSockets: new adapters for the printers the cache lists as enabled
LoadedSockets(cached) ==
    [p \in Printer |->
        IF cached[p] # None /\ cached[p].enabled THEN CreateOrUpdateSocket(None, cached[p]) ELSE None]

-----------------------------------------------------------------------------
(* Requests.                                                               *)

Others(r, ps) == {s \in Request \ {r} : req[s].ps \cap ps # {}}

\* Request r starts to be about ps
Join(r, ps) ==
    /\ raced' = IF Others(r, ps) = {} THEN raced \ {r} ELSE raced \cup Others(r, ps) \cup {r}
    /\ suspect' = suspect \cup {p \in ps : Others(r, {p}) # {}}

Await(r, stage, ps, docs) == req' = [req EXCEPT ![r] = [stage |-> stage, ps |-> ps, docs |-> docs]]
With(docs, p, doc) == [docs EXCEPT ![p] = doc]

\* The response is sent, or an error is
Finish(r) == req' = [req EXCEPT ![r] = Idle]

\* printerResolveMiddleware: the printer must be in the cache
Resolves(r, p) == req[r].stage = "idle" /\ cache[p] # None

\* create: validated input is inserted under a fresh id.  Its name is not
\* validated but required by the schema: an insert without one is refused,
\* and so is one the database is not there for.
Create(r, doc) ==
    /\ req[r].stage = "idle"
    /\ \E p \in unused :
          /\ unused' = unused \ {p}
          /\ db' = [db EXCEPT ![p] = doc]
          /\ Join(r, {p})
          /\ Await(r, "created", {p}, With(Idle.docs, p, doc))
    /\ UNCHANGED <<cache, adapter>>

\* batchImport creates one printer after the other ...
ImportNext(r, doc) ==
    /\ req[r].stage \in {"idle", "import"}
    /\ \E p \in unused :
          /\ unused' = unused \ {p}
          /\ db' = [db EXCEPT ![p] = doc]
          /\ IF req[r].stage = "idle" THEN Join(r, {p}) ELSE UNCHANGED <<raced, suspect>>
          /\ Await(r, "import", req[r].ps \cup {p}, With(req[r].docs, p, doc))
    /\ UNCHANGED <<cache, adapter>>

\* ... and stops at the first that is refused, without any event
ImportFails(r) ==
    /\ req[r].stage = "import"
    /\ suspect' = suspect \cup req[r].ps
    /\ Finish(r)
    /\ UNCHANGED <<db, unused, cache, adapter, raced>>

\* update, first half: the document is read
StartUpdate(r, p) ==
    /\ Resolves(r, p)
    /\ db[p] # None
    /\ Join(r, {p})
    /\ Await(r, "save", {p}, With(Idle.docs, p, db[p]))
    /\ UNCHANGED <<db, unused, cache, adapter>>

\* save() writes the fields that differ from what was read
Modified(stored, read, doc) ==
    [stored EXCEPT
        !.login = IF doc.login = read.login THEN stored.login ELSE doc.login,
        !.enabled = IF doc.enabled = read.enabled THEN stored.enabled ELSE doc.enabled]

\* Second half: the input is assigned and saved; saving a document that has
\* been deleted is an error.  The input may leave `enabled` out.
Save(r, p, login, enabled) ==
    LET read == req[r].docs[p]
        doc == [read EXCEPT !.login = login, !.enabled = enabled]
    IN  /\ req[r].stage = "save" /\ p \in req[r].ps
        /\ IF db[p] = None
           THEN Finish(r) /\ UNCHANGED db
           ELSE /\ db' = [db EXCEPT ![p] = Modified(db[p], read, doc)]
                /\ Await(r, "updated", {p}, With(Idle.docs, p, doc))
        /\ UNCHANGED <<unused, cache, adapter, raced, suspect>>

\* ... or rejected by the validation
Reject(r) ==
    /\ req[r].stage = "save"
    /\ Finish(r)
    /\ UNCHANGED <<db, unused, cache, adapter, raced, suspect>>

\* updateConnectionSettings, updateEnabled, updateDisabledReason, and the
\* updates of fields no subscriber keeps
Patches(doc) ==
    [enabled : {TRUE}, reason : {FALSE}, login : {doc.login}]
    \cup {[doc EXCEPT !.enabled = FALSE]}
    \cup {[doc EXCEPT !.reason = reason, !.enabled = ~reason] : reason \in BOOLEAN}
    \cup {[doc EXCEPT !.login = login] : login \in Login}
    \cup {doc}

StartPatch(r, p) ==
    /\ Resolves(r, p)
    /\ db[p] # None
    /\ Join(r, {p})
    /\ Await(r, "patch", {p}, Idle.docs)
    /\ UNCHANGED <<db, unused, cache, adapter>>

\* Variant: the reply is the document before the update (no `new: true`)
Before(old, patched) == old

\* The reply to findByIdAndUpdate is the document after the update
Replied(old, patched) == patched

\* findByIdAndUpdate is atomic; for a printer deleted meanwhile the reply is null
FindByIdAndUpdate(r, p) ==
    /\ req[r].stage = "patch" /\ p \in req[r].ps
    /\ IF db[p] = None
       THEN UNCHANGED db /\ Await(r, "updated", {p}, Idle.docs)
       ELSE \E doc \in Patches(db[p]) :
               /\ db' = [db EXCEPT ![p] = doc]
               /\ Await(r, "updated", {p}, With(Idle.docs, p, Replied(db[p], doc)))
    /\ UNCHANGED <<unused, cache, adapter, raced, suspect>>

\* delete: the document may be gone already, the event is emitted all the same
Delete(r, p) ==
    /\ Resolves(r, p)
    /\ db' = [db EXCEPT ![p] = None]
    /\ Join(r, {p})
    /\ Await(r, "deleted", {p}, Idle.docs)
    /\ UNCHANGED <<unused, cache, adapter>>

\* deleteMany, for every printer the cache lists
DeleteAll(r) ==
    LET ps == {p \in Printer : cache[p] # None} IN
    /\ req[r].stage = "idle"
    /\ db' = [p \in Printer |-> IF p \in ps THEN None ELSE db[p]]
    /\ Join(r, ps)
    /\ Await(r, "deleted", ps, Idle.docs)
    /\ UNCHANGED <<unused, cache, adapter>>

\* The write is done and its event emitted.  Both subscribers fail on an update
\* whose printer is null, and the request with them.
Emit(r) ==
    LET ps == req[r].ps
        vanished == req[r].stage = "updated" /\ \E p \in ps : req[r].docs[p] = None
    IN  /\ req[r].stage \in {"created", "import", "updated", "deleted"}
        /\ IF vanished
           THEN UNCHANGED <<cache, adapter, suspect>>
           ELSE /\ CacheHandles(req[r].stage, ps, req[r].docs)
                /\ SocketsHandle(req[r].stage, ps, req[r].docs)
                /\ suspect' = IF r \in raced THEN suspect ELSE suspect \ ps
        /\ Finish(r)
        /\ UNCHANGED <<db, unused, raced>>

-----------------------------------------------------------------------------
(* Loading.                                                                *)

\* loadCache, in a boot that is repeated while requests are served: list()
LoadPrinters(r) ==
    /\ req[r].stage = "idle" /\ \A s \in Request : req[s].stage # "load"
    /\ Join(r, Printer \ unused)
    /\ Await(r, "load", Printer \ unused, db)
    /\ UNCHANGED <<db, unused, cache, adapter>>

\* The printers listed are set in the cache, and no other one is removed; loadPrinterSockets
\* replaces all adapters.  Its other awaits are of values at hand.
Loaded(r) ==
    LET docs == req[r].docs
        cached == [p \in Printer |-> IF docs[p] # None THEN docs[p] ELSE cache[p]]
    IN  /\ req[r].stage = "load"
        /\ cache' = cached /\ adapter' = LoadedSockets(cached)
        /\ suspect' = IF r \in raced THEN suspect
                      ELSE {p \in suspect : p \notin req[r].ps \/ cached[p] # docs[p]}
        /\ Finish(r)
        /\ UNCHANGED <<db, unused, raced>>

LoadFails(r) ==
    /\ req[r].stage = "load"
    /\ Finish(r)
    /\ UNCHANGED <<db, unused, cache, adapter, raced, suspect>>

Forgets ==
    /\ req' = [r \in Request |-> Idle]
    /\ raced' = {}
    /\ UNCHANGED <<db, unused>>

\* The server restarts: its memory is rebuilt from the database before it accepts requests ...
Restart ==
    /\ Forgets
    /\ cache' = db /\ adapter' = LoadedSockets(db)
    /\ suspect' = {}

\* ... or the database is away, and it accepts them with nothing loaded
RestartUnloaded ==
    /\ Forgets
    /\ cache' = [p \in Printer |-> None] /\ adapter' = [p \in Printer |-> None]
    /\ suspect' = {p \in Printer : db[p] # None}

-----------------------------------------------------------------------------
Init ==
    /\ db \in [Printer -> MaybeDoc]
    /\ unused = {p \in Printer : db[p] = None}
    /\ cache = db
    /\ adapter = LoadedSockets(db)
    /\ req = [r \in Request |-> Idle]
    /\ raced = {}
    /\ suspect = {}

RequestNext(r) ==
    \/ \E doc \in Doc : doc.reason = FALSE /\ (Create(r, doc) \/ ImportNext(r, doc))
    \/ ImportFails(r) \/ Reject(r) \/ DeleteAll(r) \/ Emit(r)
    \/ LoadPrinters(r) \/ Loaded(r) \/ LoadFails(r)
    \/ \E p \in Printer :
          \/ StartUpdate(r, p) \/ StartPatch(r, p) \/ FindByIdAndUpdate(r, p) \/ Delete(r, p)
          \/ \E login \in Login, enabled \in BOOLEAN : Save(r, p, login, enabled)

Next == (\E r \in Request : RequestNext(r)) \/ Restart \/ RestartUnloaded

Spec == Init /\ [][Next]_vars

-----------------------------------------------------------------------------
(* Properties.                                                             *)

\* The two subscribers, each with handlers of its own, never disagree, in whatever
\* order the events of overlapping requests come and whenever the boot loads them
\* anew: the adapters are those of the printers that are enabled in the cache, with
\* the credentials the cache has.
SocketsFollowCache ==
    \A p \in Printer :
        IF cache[p] # None /\ cache[p].enabled
        THEN adapter[p] = cache[p].login
        ELSE adapter[p] = None

\* What the subscribers keep of a printer no request is about is what the
\* database has, unless two requests about that printer have overlapped, a load
\* included, an import has failed, or it was never loaded; and one successful
\* request that overlaps with no other, or a restart, repairs that.
CacheIsDb ==
    \A p \in Printer :
        p \in suspect \/ (\E r \in Request : p \in req[r].ps) \/ cache[p] = db[p]
=============================================================================
