------------------------------ MODULE FloorPlan ------------------------------
(***************************************************************************)
(* Floors and the places of printers on them: the documents FloorService   *)
(* reads, changes and saves, and the copy FloorStore keeps.                *)
(*                                                                         *)
(* A request waits for one database call after the other; calls of several *)
(* requests are executed, and their replies handled, in any order.  What   *)
(* protects a document is the version check of the save, which depends on  *)
(* how its array of positions was changed.                                 *)
(***************************************************************************)
EXTENDS Naturals, SequencesExt

CONSTANTS
    Printer,    \* ids of printers
    Floor,      \* ids of floors, each given out once
    Place,      \* places on a floor, a pair (x, y) each
    Request,    \* requests that may be under way at once
    Operation,  \* what clients ask for ("text": coordinates are given as text)
    MaxGiven,   \* bound: positions a floor is created with
    None        \* no document, no printer

ASSUME NoneAssumption == None \notin Printer \cup Seq([printer : Printer, place : Place])
ASSUME GivenAssumption == MaxGiven \in Nat

VARIABLES
    db,        \* db[f]: positions in the document of f
    unused,    \* floor ids not given out yet
    cache,     \* cache[f]: positions in the entry of f in FloorStore
    known,     \* printers in PrinterCache
    req,       \* req[r]: what request r waits for, the floors it is about, the
               \* documents it holds, how it changed the positions, the printer
               \* it is about, and whether the version is still the one it read
    suspect,   \* history: floors that two requests were about at once
    clashing,  \* history: floors given two positions at one place, or whose document
               \* was merged with another request's
    orphaned,  \* history: floors given positions of printers that do not exist, or
               \* left with them
    shifted    \* history: floors whose positions a deletion moved under a save by index

history == <<suspect, clashing, orphaned, shifted>>
vars == <<db, unused, cache, known, req, suspect, clashing, orphaned, shifted>>

Position == [printer : Printer, place : Place]
MaybeFloor == Seq(Position) \cup {None}

\* "save", "delete", "pull", "list", "default": the call is out; "reply", "deleted",
\* "load": it is done, its reply is under way
Stage == {"idle", "save", "reply", "delete", "deleted", "pull", "list", "load", "default"}

\* The array of positions was not touched, assigned as a whole, assigned to at
\* one index, or pushed to
Change == {"none", "whole", "element", "push"}

NoDocs == [f \in Floor |-> None]
Idle == [stage |-> "idle", fs |-> {}, docs |-> NoDocs, change |-> "none",
         printer |-> None, same |-> TRUE]

TypeOK ==
    /\ db \in [Floor -> MaybeFloor]
    /\ unused \in SUBSET Floor
    /\ cache \in [Floor -> MaybeFloor]
    /\ known \in SUBSET Printer
    /\ req \in [Request -> [stage : Stage, fs : SUBSET Floor, docs : [Floor -> MaybeFloor],
                            change : Change, printer : Printer \cup {None}, same : BOOLEAN]]
    /\ suspect \in SUBSET Floor
    /\ clashing \in SUBSET Floor
    /\ orphaned \in SUBSET Floor
    /\ shifted \in SUBSET Floor

-----------------------------------------------------------------------------
(* Positions.                                                              *)

OnePerPlace(s) ==
    \A i, j \in DOMAIN s : i # j => s[i].place # s[j].place /\ s[i].printer # s[j].printer

On(s, p) == \E i \in DOMAIN s : s[i].printer = p
FirstOf(s, p) == CHOOSE i \in DOMAIN s :
                    s[i].printer = p /\ \A j \in 1..(i - 1) : s[j].printer # p

\* What is left of s when only the indices ks stay
Nth(ks, n) == CHOOSE i \in ks : Cardinality({j \in ks : j <= i}) = n
Filtered(s, ks) == [n \in 1..Cardinality(ks) |-> s[Nth(ks, n)]]

\* Variant: the place is not cleared first
Crowded(s, place) == s

\* "Ensure position is not taken twice"
Vacated(s, place) == Filtered(s, {i \in DOMAIN s : s[i].place # place})

\* What is asked for as text is cast when it is stored; until then it equals no number
Kept(s, place, text) == IF text THEN s ELSE Vacated(s, place)

\* addOrUpdatePrinter: the place is cleared, the printer's position changed or added
Placed(s, pos, text) ==
    LET kept == Kept(s, pos.place, text) IN
    IF On(kept, pos.printer)
    THEN [kept EXCEPT ![FirstOf(kept, pos.printer)] = pos]
    ELSE Append(kept, pos)

\* Assigning an array equal to the old one changes nothing
PlacedHow(s, pos, text) ==
    CASE Len(Kept(s, pos.place, text)) < Len(s) -> "whole"
      [] Len(Kept(s, pos.place, text)) = Len(s) /\ On(s, pos.printer) -> "element"
      [] OTHER -> "push"

\* Another printer has the place
Taken(s, pos) == \E i \in DOMAIN s : s[i].place = pos.place /\ s[i].printer # pos.printer

Pulled(s, p) == Filtered(s, {i \in DOMAIN s : s[i].printer # p})

\* Variant: the printer is pushed, not its position
WrittenBare(stored, doc, change, p) ==
    IF change = "push" THEN Append(stored, p) ELSE doc

\* Saving: a push is appended to whatever is stored, an element overwrites the
\* one at its index.  Bound: an index more than one past the end of what is
\* stored (two printers deleted during one save) is taken for the next one.
Written(stored, doc, change, p) ==
    CASE change = "none" -> stored
      [] change = "whole" -> doc
      [] change = "push" -> Append(stored, Last(doc))
      [] change = "element" ->
            LET i == FirstOf(doc, p) IN
            IF i <= Len(stored) THEN [stored EXCEPT ![i] = doc[i]] ELSE Append(stored, doc[i])

\* The save is refused if the version is not the one that was read
Checked(change) == change \in {"whole", "element"}

\* Variant: assigning the whole array does not make a new version
BumpedByPush(change) == change = "push"

\* The save makes a new version
Bumped(change) == change \in {"whole", "push"}

-----------------------------------------------------------------------------
(* Requests.                                                               *)

\* Request r starts to be about the floors fs
Join(r, fs) ==
    suspect' = suspect \cup {f \in fs : \E s \in Request \ {r} : f \in req[s].fs}

\* Request r, about floor f, holds its document s
Await(r, stage, f, s, change, p) ==
    req' = [req EXCEPT ![r] = [stage |-> stage, fs |-> {f}, docs |-> [NoDocs EXCEPT ![f] = s],
                               change |-> change, printer |-> p, same |-> TRUE]]

\* Request r is about all floors
AwaitAll(r, stage, docs, p) ==
    req' = [req EXCEPT ![r] = [stage |-> stage, fs |-> Floor, docs |-> docs,
                               change |-> "none", printer |-> p, same |-> TRUE]]

\* The response is sent, or an error is
Finish(r) == req' = [req EXCEPT ![r] = Idle]

Asked(r, operation) == operation \in Operation /\ req[r].stage = "idle"

\* Variant: any id will do
AnyPrinter(p) == TRUE

\* "Ensure printer exists": getCachedPrinterOrThrow
Exists(p) == p \in known

AddPrinter(r, f, pos, text) ==
    /\ Asked(r, "add")
    /\ text => "text" \in Operation
    /\ db[f] # None
    /\ Exists(pos.printer)
    /\ Join(r, {f})
    /\ Await(r, "save", f, Placed(db[f], pos, text), PlacedHow(db[f], pos, text), pos.printer)
    /\ clashing' = IF text /\ Taken(db[f], pos) THEN clashing \cup {f} ELSE clashing
    /\ UNCHANGED <<db, unused, cache, known, orphaned, shifted>>

\* removePrinter: nothing is saved if the printer is not there
RemovePrinter(r, f, p) ==
    /\ Asked(r, "remove")
    /\ db[f] # None
    /\ Exists(p)
    /\ Join(r, {f})
    /\ IF On(db[f], p)
       THEN Await(r, "save", f, RemoveAt(db[f], FirstOf(db[f], p)), "whole", p)
       ELSE Await(r, "reply", f, db[f], "none", p)
    /\ UNCHANGED <<db, unused, cache, known, clashing, orphaned, shifted>>

\* updateName, updateLevel
Rename(r, f) ==
    /\ Asked(r, "rename")
    /\ db[f] # None
    /\ Join(r, {f})
    /\ Await(r, "save", f, db[f], "none", None)
    /\ UNCHANGED <<db, unused, cache, known, clashing, orphaned, shifted>>

\* The document was changed meanwhile, and is not what the request holds after it
Merged(q, f) ==
    /\ q.change \in {"push", "element"}
    /\ Written(db[f], q.docs[f], q.change, q.printer) # q.docs[f]

\* save(); a deleted document cannot be saved
Save(r, f) ==
    LET q == req[r] IN
    /\ q.stage = "save" /\ f \in q.fs
    /\ IF db[f] = None \/ (Checked(q.change) /\ ~q.same)
       THEN Finish(r) /\ UNCHANGED <<db, clashing>>
       ELSE /\ clashing' = IF Merged(q, f) THEN clashing \cup {f} ELSE clashing
            /\ db' = [db EXCEPT ![f] = Written(db[f], q.docs[f], q.change, q.printer)]
            /\ req' = [s \in Request |->
                  IF s = r THEN [q EXCEPT !.stage = "reply"]
                  ELSE IF req[s].stage = "save" /\ f \in req[s].fs /\ Bumped(q.change)
                       THEN [req[s] EXCEPT !.same = FALSE]
                       ELSE req[s]]
    /\ UNCHANGED <<unused, cache, known, suspect, orphaned, shifted>>

\* The level is another floor's
Refused(r) ==
    /\ req[r].stage = "save" /\ req[r].change = "none"
    /\ Finish(r)
    /\ UNCHANGED <<db, unused, cache, known, history>>

\* The store keeps the document the request holds, not the one that is stored
Reply(r, f) ==
    /\ req[r].stage = "reply" /\ f \in req[r].fs
    /\ cache' = [cache EXCEPT ![f] = req[r].docs[f]]
    /\ Finish(r)
    /\ UNCHANGED <<db, unused, known, history>>

\* create: positions may be given with the floor, and nothing looks at them
Create(r, f, given) ==
    /\ Asked(r, "create")
    /\ f \in unused
    /\ unused' = unused \ {f}
    /\ db' = [db EXCEPT ![f] = given]
    /\ Join(r, {f})
    /\ Await(r, "reply", f, given, "none", None)
    /\ clashing' = IF OnePerPlace(given) THEN clashing ELSE clashing \cup {f}
    /\ orphaned' = IF \A i \in DOMAIN given : given[i].printer \in known
                   THEN orphaned ELSE orphaned \cup {f}
    /\ UNCHANGED <<cache, known, shifted>>

\* delete
Delete(r, f) ==
    /\ Asked(r, "delete")
    /\ db[f] # None
    /\ Join(r, {f})
    /\ Await(r, "delete", f, None, "none", None)
    /\ UNCHANGED <<db, unused, cache, known, clashing, orphaned, shifted>>

DeleteOne(r, f) ==
    /\ req[r].stage = "delete" /\ f \in req[r].fs
    /\ db' = [db EXCEPT ![f] = None]
    /\ req' = [req EXCEPT ![r].stage = "deleted"]
    /\ UNCHANGED <<unused, cache, known, history>>

Forget(r, f) ==
    /\ req[r].stage = "deleted" /\ f \in req[r].fs
    /\ cache' = [cache EXCEPT ![f] = None]
    /\ Finish(r)
    /\ UNCHANGED <<db, unused, known, history>>

\* getFloor, of a floor the store does not have
GetFloor(r, f) ==
    /\ Asked(r, "get")
    /\ cache[f] = None /\ db[f] # None
    /\ Join(r, {f})
    /\ Await(r, "reply", f, db[f], "none", None)
    /\ UNCHANGED <<db, unused, cache, known, clashing, orphaned, shifted>>

-----------------------------------------------------------------------------
(* Loading the store.                                                      *)

\* listCache loads an empty store
ListCache(r) ==
    /\ Asked(r, "get")
    /\ cache = NoDocs
    /\ Join(r, Floor)
    /\ AwaitAll(r, "list", NoDocs, None)
    /\ UNCHANGED <<db, unused, cache, known, clashing, orphaned, shifted>>

\* A printer is deleted: the printer itself, its positions on every floor
\* (without a new version), and then the store is loaded again
DeletePrinter(r, p) ==
    /\ Asked(r, "deletePrinter")
    /\ p \in known
    /\ known' = known \ {p}
    /\ Join(r, Floor)
    /\ AwaitAll(r, "pull", NoDocs, p)
    /\ UNCHANGED <<db, unused, cache, clashing, orphaned, shifted>>

\* The save of request q brings back a position of p on floor f
Restores(q, f, p) ==
    /\ q.stage = "save" /\ f \in q.fs
    /\ \/ q.change = "whole" /\ On(q.docs[f], p)
       \/ q.change \in {"push", "element"} /\ q.printer = p

\* The save of request q overwrites a position of floor f by its index
ByIndex(q, f) == q.stage = "save" /\ q.change = "element" /\ q.same /\ f \in q.fs

Pull(r) ==
    /\ req[r].stage = "pull"
    /\ shifted' = shifted \cup
            {f \in Floor : db[f] # None /\ On(db[f], req[r].printer) /\ \E s \in Request : ByIndex(req[s], f)}
    /\ orphaned' = orphaned \cup {f \in Floor : \E s \in Request : Restores(req[s], f, req[r].printer)}
    /\ db' = [f \in Floor |-> IF db[f] = None THEN None ELSE Pulled(db[f], req[r].printer)]
    /\ AwaitAll(r, "list", NoDocs, None)
    /\ UNCHANGED <<unused, cache, known, suspect, clashing>>

\* loadStore: without any floor, a default one is created
List(r) ==
    /\ req[r].stage = "list"
    /\ AwaitAll(r, IF db = NoDocs THEN "default" ELSE "load", db, None)
    /\ UNCHANGED <<db, unused, cache, known, history>>

\* ... if nobody else has taken its number.  Bound: or if the ids have run out.
CreateDefault(r) ==
    /\ req[r].stage = "default"
    /\ \/ \E f \in unused :
             /\ unused' = unused \ {f}
             /\ db' = [db EXCEPT ![f] = <<>>]
             /\ Await(r, "reply", f, <<>>, "none", None)
       \/ /\ db # NoDocs \/ unused = {}
          /\ Finish(r)
          /\ UNCHANGED <<db, unused>>
    /\ UNCHANGED <<cache, known, history>>

\* Variant: only floors the store does not have yet are taken over
Completed(old, docs) == [f \in Floor |-> IF old[f] = None THEN docs[f] ELSE old[f]]

\* setKeyValuesBatch: what is not listed stays
Overlaid(old, docs) == [f \in Floor |-> IF docs[f] = None THEN old[f] ELSE docs[f]]

Load(r) ==
    /\ req[r].stage = "load"
    /\ cache' = Overlaid(cache, req[r].docs)
    /\ Finish(r)
    /\ UNCHANGED <<db, unused, known, history>>

\* deleteAllPrinters leaves the positions where they are
DeleteAllPrinters ==
    /\ "deleteAllPrinters" \in Operation
    /\ known # {}
    /\ known' = {}
    /\ orphaned' = orphaned \cup {f \in Floor : db[f] \notin {None, <<>>}}
                            \cup UNION {req[r].fs : r \in Request}
    /\ UNCHANGED <<db, unused, cache, req, suspect, clashing, shifted>>

\* The printer of a deletion that is under way
Pulling(p) == \E r \in Request : req[r].stage = "pull" /\ req[r].printer = p

\* The server restarts and loads the store (an empty one as by ListCache).
\* Positions of a printer whose deletion was interrupted stay.
Restart ==
    /\ "restart" \in Operation
    /\ cache' = db
    /\ req' = [r \in Request |-> Idle]
    /\ orphaned' = orphaned \cup
            {f \in Floor : db[f] # None /\ \E i \in DOMAIN db[f] : Pulling(db[f][i].printer)}
    /\ UNCHANGED <<db, unused, known, suspect, clashing, shifted>>

-----------------------------------------------------------------------------
Init ==
    /\ \E fs \in SUBSET Floor \ {{}} :
          /\ db = [f \in Floor |-> IF f \in fs THEN <<>> ELSE None]
          /\ unused = Floor \ fs
    /\ cache = db
    /\ known = Printer
    /\ req = [r \in Request |-> Idle]
    /\ suspect = {}
    /\ clashing = {}
    /\ orphaned = {}
    /\ shifted = {}

Given == UNION {[1..n -> Position] : n \in 0..MaxGiven}

RequestNext(r) ==
    \/ \E f \in Floor :
          \/ \E pos \in Position, text \in BOOLEAN : AddPrinter(r, f, pos, text)
          \/ \E p \in Printer : RemovePrinter(r, f, p)
          \/ Rename(r, f) \/ Save(r, f) \/ Reply(r, f)
          \/ \E given \in Given : Create(r, f, given)
          \/ Delete(r, f) \/ DeleteOne(r, f) \/ Forget(r, f) \/ GetFloor(r, f)
    \/ \E p \in Printer : DeletePrinter(r, p)
    \/ Refused(r) \/ ListCache(r) \/ Pull(r) \/ List(r) \/ CreateDefault(r) \/ Load(r)

Next == (\E r \in Request : RequestNext(r)) \/ DeleteAllPrinters \/ Restart

Spec == Init /\ [][Next]_vars

-----------------------------------------------------------------------------
(* Properties.                                                             *)

About(f) == \E r \in Request : f \in req[r].fs

\* The store has what the database has of a floor that no request is about,
\* unless two requests about it have overlapped.
StoreIsDb == \A f \in Floor : f \in suspect \/ About(f) \/ cache[f] = db[f]

\* No place holds two printers and no printer is at two places of a floor,
\* however requests overlap, unless the floor was given such positions (when it
\* was created, or as text), or two requests' changes were merged in its document.
PlacesAreUnique == \A f \in Floor : f \in clashing \/ db[f] = None \/ OnePerPlace(db[f])

\* A floor has positions of printers that exist, or whose deletion is under way,
\* however requests overlap, unless it was given others when it was created, all
\* printers were deleted at once, or a deletion was interrupted, or overlapped a
\* save that brings its printer back.
NoOrphans ==
    \A f \in Floor :
        f \in orphaned \/ db[f] = None
        \/ \A i \in DOMAIN db[f] : db[f][i].printer \in known \/ Pulling(db[f][i].printer)

\* The version check protects what is written by index, whatever overlaps: while
\* the version is the one that was read, that index is the printer's own, unless
\* the deletion of a printer has moved positions, which makes no new version.
IndexIsOwn ==
    \A r \in Request, f \in Floor \ shifted :
        LET q == req[r] IN
        ByIndex(q, f) /\ db[f] # None =>
            LET i == FirstOf(q.docs[f], q.printer) IN
            i \in DOMAIN db[f] /\ db[f][i].printer = q.printer

\* "Ensure position is not taken twice": no two printers are at one place.
PositionTakenOnce ==
    \A f \in Floor : db[f] # None =>
        \A i, j \in DOMAIN db[f] :
            db[f][i].printer # db[f][j].printer => db[f][i].place # db[f][j].place

\* "Ensure printer exists": a floor no request is about has no position of a
\* printer that does not.
PrinterExists ==
    \A f \in Floor :
        About(f) \/ db[f] = None \/ \A i \in DOMAIN db[f] : db[f][i].printer \in known
=============================================================================
