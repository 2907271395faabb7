----------------------------- MODULE YamlTransfer -----------------------------
(***************************************************************************)
(* Export of the printers and floors to a YAML file, and import of such a  *)
(* file (YamlService): every printer and floor of the file is compared     *)
(* with what is there, by strategies in order of priority; what matches is *)
(* updated, the rest created, and the positions on the floors are          *)
(* translated to the ids the printers have here.                           *)
(*                                                                         *)
(* The operator edits printers and floors between the export and the       *)
(* import, and while the import writes one document after the other.       *)
(***************************************************************************)
EXTENDS Integers, Sequences, FiniteSetsExt

CONSTANTS
    Name, Url,      \* names and URLs of printers
    LowerCase,      \* LowerCase[u]: u in lower case
    Strategies,     \* lists of strategies a file may ask for
    Place, Level,   \* positions of printers on a floor, and levels of floors
    StartPrinters,  \* how many printers there are before the export
    StartFloors,    \* the floors there are: on each, which printers are where
    MaxPrinter,     \* bound: printer ids, given out in order
    MaxFloor,       \* bound: floor ids
    MaxEdits        \* bound: edits after the export

DefaultLevel == 1

ASSUME YamlAssumption ==
    /\ LowerCase \in [Url -> Url]
    /\ Strategies \subseteq Seq({"name", "url", "id"}) \ {<<>>}
    /\ DefaultLevel \in Level
    /\ {MaxPrinter, MaxFloor, MaxEdits} \subseteq Nat
    /\ StartPrinters \in 0..MaxPrinter
    /\ StartFloors \in Seq(SUBSET ((1..StartPrinters) \X Place)) \ {<<>>}
    /\ Len(StartFloors) <= MaxFloor

VARIABLES
    printerDocs,    \* printerDocs[p]: the document of printer p
    floorDocs,      \* floorDocs[f]: the document of floor f
    nextIds,        \* the ids given out next
    backup,         \* the file
    import,         \* the import under way: what it has left to write, printerIdMap
    edits           \* edits made

yamlVars == <<printerDocs, floorDocs, nextIds, backup, import, edits>>

PrinterId == 1..MaxPrinter
FloorId == 1..MaxFloor

NoDoc == [there |-> FALSE]
PrinterDoc == [there : {TRUE}, name : Name, url : Url]
FloorDoc == [there : {TRUE}, level : Level, places : SUBSET (PrinterId \X Place)]

PrintersThere == {p \in PrinterId : printerDocs[p].there}
FloorsThere == {f \in FloorId : floorDocs[f].there}

\* The options of the export are the file's config
Config == [exportPrinters : BOOLEAN, exportFloors : BOOLEAN, exportFloorGrid : BOOLEAN,
           by : Strategies, floorBy : {"floor", "id"}]

\* At most one of the three is left out
UsualConfig == {c \in Config : \E k \in 1..3 : \A l \in (1..3) \ {k} :
                                    <<c.exportPrinters, c.exportFloors, c.exportFloorGrid>>[l]}

File == [config : Config,
         printers : Seq([id : PrinterId, name : Name, url : Url]),
         floors : Seq([id : FloorId, level : Level, places : SUBSET (PrinterId \X Place)])]

\* A write of the import: the i-th printer or floor of the file is created (target 0) or
\* updates the target
Write == [what : {"printer"}, i : Nat, target : 0..MaxPrinter] \cup
         [what : {"floor"}, i : Nat, target : 0..MaxFloor]

Import == [stage : {"none", "printers", "floors", "writing", "done", "failed"},
           writes : SUBSET Write,                   \* what is left to write
           idMap : [PrinterId -> 0..MaxPrinter],    \* printerIdMap, 0: no entry
           putIn : [PrinterId -> 0..MaxPrinter],    \* history: where a printer went
           created : SUBSET PrinterId,              \* history: the printers it created
           floorsIn : Seq(0..MaxFloor),             \* history: where the floors went
           undisturbed : BOOLEAN]                   \* history: no edit since it started

NoImport == [stage |-> "none", writes |-> {}, idMap |-> [p \in PrinterId |-> 0],
             putIn |-> [p \in PrinterId |-> 0], created |-> {}, floorsIn |-> <<>>, undisturbed |-> TRUE]

YamlTypeOK ==
    /\ printerDocs \in [PrinterId -> PrinterDoc \cup {NoDoc}]
    /\ floorDocs \in [FloorId -> FloorDoc \cup {NoDoc}]
    /\ nextIds \in [printer : 1..(MaxPrinter + 1), floor : 1..(MaxFloor + 1)]
    /\ backup \in {<<>>} \cup File
    /\ import \in Import
    /\ edits \in 0..MaxEdits

-----------------------------------------------------------------------------
(* Export.                                                                 *)

\* The ids, each once, in their order
InOrder(ids) ==
    CHOOSE list \in [1..Cardinality(ids) -> ids] :
        /\ \A id \in ids : \E i \in DOMAIN list : list[i] = id
        /\ \A i, j \in DOMAIN list : i < j => list[i] < list[j]

\* exportPrintersAndFloors: printers from the database, floors from the store
Export(config) ==
    /\ backup = <<>>
    /\ backup' = [config |-> config,
                  printers |-> [i \in DOMAIN InOrder(PrintersThere) |->
                      LET p == InOrder(PrintersThere)[i] IN
                      [id |-> p, name |-> printerDocs[p].name, url |-> printerDocs[p].url]],
                  floors |-> [i \in DOMAIN InOrder(FloorsThere) |->
                      LET f == InOrder(FloorsThere)[i] IN
                      [id |-> f, level |-> floorDocs[f].level,
                       places |-> IF config.exportFloorGrid THEN floorDocs[f].places ELSE {}]]]
    /\ UNCHANGED <<printerDocs, floorDocs, nextIds, import, edits>>

-----------------------------------------------------------------------------
(* What the operator does meanwhile.                                       *)

Edited ==
    /\ backup # <<>>
    /\ edits < MaxEdits /\ edits' = edits + 1
    /\ import' = [import EXCEPT !.undisturbed = import.stage = "none"]
    /\ UNCHANGED backup

EditPrinter(p, doc) ==
    /\ p \in PrintersThere /\ Edited
    /\ printerDocs' = [printerDocs EXCEPT ![p] = doc]
    /\ UNCHANGED <<floorDocs, nextIds>>

NewFloor(level, places) == [there |-> TRUE, level |-> level, places |-> places]

\* loadStore: when there is no floor the default floor is created
StoreLoaded(docs, ids) ==
    IF \E f \in FloorId : docs[f].there THEN floorDocs' = docs /\ nextIds' = ids
    ELSE /\ ids.floor \in FloorId
         /\ floorDocs' = [docs EXCEPT ![ids.floor] = NewFloor(DefaultLevel, {})]
         /\ nextIds' = [ids EXCEPT !.floor = @ + 1]

Unplaced(p) ==
    [f \in FloorId |-> IF floorDocs[f].there
                       THEN [floorDocs[f] EXCEPT !.places = {pos \in @ : pos[1] # p}] ELSE NoDoc]

DeletePrinterDoc(p) ==
    /\ p \in PrintersThere /\ Edited
    /\ printerDocs' = [printerDocs EXCEPT ![p] = NoDoc]
    /\ StoreLoaded(Unplaced(p), nextIds)

\* A printer is deleted and created anew
RecreatePrinter(p) ==
    /\ p \in PrintersThere /\ nextIds.printer \in PrinterId /\ Edited
    /\ printerDocs' = [printerDocs EXCEPT ![p] = NoDoc, ![nextIds.printer] = printerDocs[p]]
    /\ StoreLoaded(Unplaced(p), [nextIds EXCEPT !.printer = @ + 1])

DeleteFloorDoc(f) ==
    /\ f \in FloorsThere /\ Edited
    /\ floorDocs' = [floorDocs EXCEPT ![f] = NoDoc]
    /\ UNCHANGED <<printerDocs, nextIds>>

\* listCache loads the store when it is empty
ListFloors ==
    /\ FloorsThere = {}
    /\ StoreLoaded(floorDocs, nextIds)
    /\ UNCHANGED <<printerDocs, backup, import, edits>>

ClearFloor(f) ==
    /\ f \in FloorsThere /\ floorDocs[f].places # {} /\ Edited
    /\ floorDocs' = [floorDocs EXCEPT ![f].places = {}]
    /\ UNCHANGED <<printerDocs, nextIds>>

-----------------------------------------------------------------------------
(* Import: comparing.                                                      *)

\* The printers a strategy finds.  Of URLs only the imported one is put in lower case.
FoundBy(strategy, printer) ==
    {p \in PrintersThere :
        \/ strategy = "name" /\ printerDocs[p].name = printer.name    \* in any case
        \/ strategy = "url" /\ printerDocs[p].url = LowerCase[printer.url]
        \/ strategy = "id" /\ p = printer.id}

\* analysePrintersUpsert: the first printer that the first successful strategy finds
PrinterTarget(printer) ==
    LET by == backup.config.by
        hits == {k \in DOMAIN by : FoundBy(by[k], printer) # {}}
    IN  IF hits = {} THEN 0 ELSE Min(FoundBy(by[Min(hits)], printer))

\* analyseFloorsUpsert ("name" is like "floor")
FloorTarget(floor) ==
    LET found == {f \in FloorsThere : IF backup.config.floorBy = "id" THEN f = floor.id
                                      ELSE floorDocs[f].level = floor.level}
    IN  IF found = {} THEN 0 ELSE Min(found)

Writes(what, targets) == {[what |-> what, i |-> i, target |-> targets[i]] : i \in DOMAIN targets}

\* A file without printers or without floors is not read: both are iterated over
StartImport ==
    /\ backup # <<>> /\ import.stage = "none"
    /\ import' = [import EXCEPT !.stage =
          IF backup.config.exportPrinters /\ backup.config.exportFloors THEN "printers" ELSE "failed"]
    /\ UNCHANGED <<printerDocs, floorDocs, nextIds, backup, edits>>

AnalysePrinters ==
    LET targets == [i \in DOMAIN backup.printers |-> PrinterTarget(backup.printers[i])] IN
    /\ import.stage = "printers"
    /\ import' = [import EXCEPT !.stage = "floors", !.writes = Writes("printer", targets)]
    /\ UNCHANGED <<printerDocs, floorDocs, nextIds, backup, edits>>

AnalyseFloors ==
    LET targets == [i \in DOMAIN backup.floors |-> FloorTarget(backup.floors[i])] IN
    /\ import.stage = "floors"
    /\ import' = [import EXCEPT !.stage = "writing", !.writes = @ \cup Writes("floor", targets),
                                !.floorsIn = targets]
    /\ UNCHANGED <<printerDocs, floorDocs, nextIds, backup, edits>>

-----------------------------------------------------------------------------
(* Import: writing.                                                        *)

\* Printers are written before floors, and what is created before what is updated
Before(v, w) ==
    \/ v.what = "printer" /\ w.what = "floor"
    \/ /\ v.what = w.what
       /\ \/ v.target = 0 /\ w.target # 0
          \/ (v.target = 0 <=> w.target = 0) /\ v.i < w.i

Writing(w, what, new) ==
    /\ import.stage = "writing"
    /\ w.what = what /\ (w.target = 0) = new
    /\ \A v \in import.writes \ {w} : Before(w, v)

\* Variant: a created printer is entered under its new id
MappedNew(idMap, fileId, id) == [idMap EXCEPT ![id] = id]

\* printerIdMap of a created printer: its id in the file
Mapped(idMap, fileId, id) == [idMap EXCEPT ![fileId] = id]

\* Variant: only created printers are entered
NotMapped(idMap, fileId, id) == idMap

\* printerIdMap of an updated printer: its id here
MappedUpdate(idMap, fileId, id) == [idMap EXCEPT ![id] = id]

\* The write has put the printer of the file into document p
PrinterPut(w, p, idMap, created) ==
    LET printer == backup.printers[w.i] IN
    /\ printerDocs' = [printerDocs EXCEPT ![p] = [there |-> TRUE, name |-> printer.name, url |-> printer.url]]
    /\ import' = [import EXCEPT !.writes = @ \ {w}, !.idMap = idMap, !.putIn[printer.id] = p,
                                !.created = @ \cup created]

ImportFails(docs) ==
    /\ import' = [import EXCEPT !.stage = "failed"]
    /\ floorDocs' = docs

CreatePrinter(w) ==
    LET p == nextIds.printer IN
    /\ Writing(w, "printer", TRUE) /\ p \in PrinterId
    /\ PrinterPut(w, p, Mapped(import.idMap, backup.printers[w.i].id, p), {p})
    /\ nextIds' = [nextIds EXCEPT !.printer = @ + 1]
    /\ UNCHANGED <<floorDocs, backup, edits>>

\* A printer that is gone since it was found ends the import
UpdatePrinter(w) ==
    LET p == w.target IN
    /\ Writing(w, "printer", FALSE)
    /\ IF p \in PrintersThere
       THEN /\ PrinterPut(w, p, MappedUpdate(import.idMap, backup.printers[w.i].id, p), {})
            /\ UNCHANGED floorDocs
       ELSE ImportFails(floorDocs) /\ UNCHANGED printerDocs
    /\ UNCHANGED <<nextIds, backup, edits>>

\* Positions of printers without an entry are discarded
Translated(idMap, places) ==
    {<<idMap[pos[1]], pos[2]>> : pos \in {q \in places : idMap[q[1]] # 0}}

\* Levels are unique
LevelTaken(level, f) == \E g \in FloorsThere \ {f} : floorDocs[g].level = level

FloorPut(f, floor) ==
    [floorDocs EXCEPT ![f] = NewFloor(floor.level, Translated(import.idMap, floor.places))]

CreateFloor(w) ==
    LET floor == backup.floors[w.i]  f == nextIds.floor IN
    /\ Writing(w, "floor", TRUE) /\ f \in FloorId
    /\ IF LevelTaken(floor.level, f) THEN ImportFails(floorDocs) /\ UNCHANGED nextIds
       ELSE /\ floorDocs' = FloorPut(f, floor)
            /\ nextIds' = [nextIds EXCEPT !.floor = @ + 1]
            /\ import' = [import EXCEPT !.writes = @ \ {w}, !.floorsIn[w.i] = f]
    /\ UNCHANGED <<printerDocs, backup, edits>>

\* Of a file without positions the floor is given none: they are unset, and the store fails
\* to convert the floor afterwards
UpdateFloor(w) ==
    LET floor == backup.floors[w.i]  f == w.target IN
    /\ Writing(w, "floor", FALSE)
    /\ IF f \notin FloorsThere \/ LevelTaken(floor.level, f) THEN ImportFails(floorDocs)
       ELSE IF ~backup.config.exportFloorGrid THEN ImportFails(FloorPut(f, floor))
       ELSE /\ floorDocs' = FloorPut(f, floor)
            /\ import' = [import EXCEPT !.writes = @ \ {w}]
    /\ UNCHANGED <<printerDocs, nextIds, backup, edits>>

\* The answer, after loadStore
ImportDone ==
    /\ import.stage = "writing" /\ import.writes = {}
    /\ import' = [import EXCEPT !.stage = "done"]
    /\ StoreLoaded(floorDocs, nextIds)
    /\ UNCHANGED <<printerDocs, backup, edits>>

-----------------------------------------------------------------------------
FirstIds == [printer |-> StartPrinters + 1, floor |-> Len(StartFloors) + 1]

\* Printers of any names and URLs, on floors of different levels
YamlInit ==
    /\ printerDocs \in {docs \in [PrinterId -> PrinterDoc \cup {NoDoc}] :
                            \A p \in PrinterId : docs[p].there = (p <= StartPrinters)}
    /\ \E level \in [DOMAIN StartFloors -> Level] :
          /\ \A f, g \in DOMAIN StartFloors : level[f] = level[g] => f = g
          /\ floorDocs = [f \in FloorId |-> IF f \in DOMAIN StartFloors
                                           THEN NewFloor(level[f], StartFloors[f]) ELSE NoDoc]
    /\ nextIds = FirstIds
    /\ backup = <<>> /\ import = NoImport /\ edits = 0

YamlNext ==
    \/ \E config \in UsualConfig : Export(config)
    \/ \E p \in PrinterId :
          \/ \E doc \in PrinterDoc : EditPrinter(p, doc)
          \/ DeletePrinterDoc(p) \/ RecreatePrinter(p)
    \/ \E f \in FloorId : DeleteFloorDoc(f) \/ ClearFloor(f)
    \/ ListFloors
    \/ StartImport \/ AnalysePrinters \/ AnalyseFloors
    \/ \E w \in import.writes :
          CreatePrinter(w) \/ UpdatePrinter(w) \/ CreateFloor(w) \/ UpdateFloor(w)
    \/ ImportDone

YamlSpec == YamlInit /\ [][YamlNext]_yamlVars

-----------------------------------------------------------------------------
(* Properties.                                                             *)

Imported == import.stage = "done" /\ import.undisturbed /\ backup.config.exportFloorGrid

FilePositions == UNION {{<<i, pos[1], pos[2]>> : pos \in backup.floors[i].places} : i \in DOMAIN backup.floors}
OnFloor(i, p, place) == <<p, place>> \in floorDocs[import.floorsIn[i]].places

\* What a strategy compares of a printer of the file
Key(strategy, printer) ==
    CASE strategy = "name" -> printer.name [] strategy = "url" -> printer.url
      [] strategy = "id" -> printer.id

\* What the first strategy compares tells the printers of the file apart
Distinct ==
    LET first == Head(backup.config.by) IN
    /\ \A i, j \in DOMAIN backup.printers :
          Key(first, backup.printers[i]) = Key(first, backup.printers[j]) => i = j
    /\ first = "url" => \A i \in DOMAIN backup.printers :
          LowerCase[backup.printers[i].url] = backup.printers[i].url

\* An import that succeeds, with no edit while it ran, has put on their floors the printers
\* that were updated under the id they have in the file, and those that were created, unless
\* another printer of the file went into the printer with that id (the positions of the
\* others are discarded); and it has placed no printer that is not there.
OwnPositionsImported ==
    Imported =>
        /\ \A pos \in FilePositions :
              LET p == import.putIn[pos[2]] IN
              \/ p = pos[2]
              \/ p \in import.created /\ \A q \in PrinterId : import.putIn[q] # pos[2]
              => OnFloor(pos[1], p, pos[3])
        /\ \A f \in FloorsThere : \A pos \in floorDocs[f].places : pos[1] \in PrintersThere

\* A file that is imported where it was exported, nothing having been edited since, changes
\* nothing, if its first strategy tells the printers apart and their URLs are in lower case
\* when it is by these.
RestoreChangesNothing ==
    backup # <<>> /\ edits = 0 /\ Distinct /\ backup.config.exportFloorGrid =>
        /\ nextIds = FirstIds
        /\ \A i \in DOMAIN backup.printers :
              printerDocs[backup.printers[i].id] = [there |-> TRUE, name |-> backup.printers[i].name,
                                                    url |-> backup.printers[i].url]
        /\ \A i \in DOMAIN backup.floors :
              floorDocs[backup.floors[i].id] = [there |-> TRUE, level |-> backup.floors[i].level,
                                                places |-> backup.floors[i].places]
=============================================================================
