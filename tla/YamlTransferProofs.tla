-------------------------- MODULE YamlTransferProofs --------------------------
(***************************************************************************)
(* Theorems about the export and the import, for any printers and floors   *)
(* at the start, names, URLs, places, levels and strategies, and any       *)
(* number of edits.                                                        *)
(***************************************************************************)
EXTENDS YamlTransfer, FiniteSetTheorems, WellFoundedInduction, TLAPS

-----------------------------------------------------------------------------
(* The invariant.                                                          *)

OfPrinter(w) == w.what = "printer"
OfFloor(w) == w.what = "floor"

TellsApart(list) == \A i, j \in DOMAIN list : list[i].id = list[j].id => i = j

\* A file has printers and floors of before the export, each once, floors of different levels
FileFits(file) ==
    /\ file \in File
    /\ TellsApart(file.printers) /\ TellsApart(file.floors)
    /\ DOMAIN file.floors # {}
    /\ \A i \in DOMAIN file.printers : file.printers[i].id <= StartPrinters
    /\ \A i, j \in DOMAIN file.floors : file.floors[i].level = file.floors[j].level => i = j

YamlTyped ==
    /\ printerDocs \in [PrinterId -> PrinterDoc \cup {NoDoc}]
    /\ floorDocs \in [FloorId -> FloorDoc \cup {NoDoc}]
    /\ nextIds \in [printer : 1..(MaxPrinter + 1), floor : 1..(MaxFloor + 1)]
    /\ backup = <<>> \/ FileFits(backup)
    /\ import \in Import
    /\ edits \in 0..MaxEdits

\* Ids that are given out next have not been used
IdsAreNew ==
    /\ nextIds.printer > StartPrinters /\ nextIds.floor > Len(StartFloors)
    /\ \A p \in PrintersThere : p < nextIds.printer
    /\ \A f \in FloorsThere : f < nextIds.floor

LevelsDiffer ==
    \A f, g \in FloorsThere : floorDocs[f].level = floorDocs[g].level => f = g

\* The writes left fit the file and the stage, each is there once
WritesFit ==
    /\ \A w \in import.writes :
          w.i \in DOMAIN (IF OfPrinter(w) THEN backup.printers ELSE backup.floors)
    /\ \A v, w \in import.writes : v.what = w.what /\ v.i = w.i => v = w
    /\ import.stage = "floors" => \A w \in import.writes : OfPrinter(w)
    /\ import.stage \in {"none", "printers", "done"} => import.writes = {}

ImportFits ==
    /\ import.stage = "none" => import = NoImport
    /\ import.stage = "printers" => import.putIn = NoImport.putIn /\ import.created = {}
    /\ backup = <<>> => import.stage = "none" /\ edits = 0
    /\ edits = 0 => import.undisturbed

\* No floor has a position of a printer that is gone
NoneDangling ==
    \A f \in FloorsThere : \A pos \in floorDocs[f].places : pos[1] \in PrintersThere

IsThere(p) == p = 0 \/ p \in PrintersThere

\* The map of ids, and the printers written and still to be written
MapFollows ==
    /\ \A p \in import.created : p \in PrintersThere /\ p > StartPrinters
    /\ \A p \in PrinterId : IsThere(import.idMap[p]) /\ IsThere(import.putIn[p])
    /\ \A p \in PrinterId : import.putIn[p] = p => import.idMap[p] = p
    /\ \A p \in PrinterId : import.putIn[p] \in import.created =>
          import.idMap[p] = import.putIn[p] \/ \E q \in PrinterId : import.putIn[q] = p
    /\ \A w \in import.writes : OfPrinter(w) =>
          /\ import.putIn[backup.printers[w.i].id] = 0
          /\ IsThere(w.target) /\ w.target \notin import.created

\* Where the floors go, and what is on those that are written
FloorsFollow ==
    /\ DOMAIN import.floorsIn = DOMAIN backup.floors
    /\ \A i, j \in DOMAIN backup.floors :
          import.floorsIn[i] = import.floorsIn[j] /\ import.floorsIn[i] # 0 => i = j
    /\ \A i \in DOMAIN backup.floors : import.floorsIn[i] < nextIds.floor
    /\ \A w \in import.writes : OfFloor(w) => import.floorsIn[w.i] = w.target
    /\ \A i \in DOMAIN backup.floors :
          \/ \E w \in import.writes : OfFloor(w) /\ w.i = i
          \/ /\ \A w \in import.writes : OfFloor(w)
             /\ import.floorsIn[i] \in FloorsThere
             /\ floorDocs[import.floorsIn[i]].places =
                   Translated(import.idMap, backup.floors[i].places)

Undisturbed ==
    import.undisturbed =>
        /\ NoneDangling
        /\ MapFollows
        /\ import.stage \in {"writing", "done"} => FloorsFollow

\* Before the first edit: what is there is what was there, and is in the file
AtStart ==
    PrintersThere = 1..StartPrinters /\ FloorsThere = DOMAIN StartFloors /\ nextIds = FirstIds

PrinterOf(printer) == [there |-> TRUE, name |-> printer.name, url |-> printer.url]

AsExported ==
    /\ \A i \in DOMAIN backup.printers :
          printerDocs[backup.printers[i].id] = PrinterOf(backup.printers[i])
    /\ \A i \in DOMAIN backup.floors : LET floor == backup.floors[i] IN
          /\ floorDocs[floor.id].there /\ floorDocs[floor.id].level = floor.level
          /\ backup.config.exportFloorGrid => floorDocs[floor.id].places = floor.places
    /\ \A p \in PrintersThere : \E i \in DOMAIN backup.printers : backup.printers[i].id = p
    /\ \A f \in FloorsThere : \E i \in DOMAIN backup.floors : backup.floors[i].id = f
    /\ nextIds = FirstIds

Restorable == Distinct /\ backup.config.exportFloorGrid

\* A restoring import writes everything where it is already
Restoring ==
    /\ \A w \in import.writes :
          w.target = (IF OfPrinter(w) THEN backup.printers ELSE backup.floors)[w.i].id
    /\ \A i \in DOMAIN backup.printers :
          \/ import.idMap[backup.printers[i].id] = backup.printers[i].id
          \/ \E w \in import.writes : OfPrinter(w) /\ w.i = i
          \/ import.stage \in {"none", "printers"}

Unedited ==
    edits = 0 =>
        /\ import.stage = "none" => AtStart
        /\ backup # <<>> /\ (import.stage = "none" \/ Restorable) => AsExported
        /\ backup # <<>> /\ Restorable => import.stage = "failed" \/ Restoring

YamlInv ==
    /\ YamlTyped /\ IdsAreNew /\ LevelsDiffer /\ WritesFit /\ ImportFits
    /\ Undisturbed /\ Unedited

-----------------------------------------------------------------------------
(* The operators.                                                          *)

FilePrinter == [id : PrinterId, name : Name, url : Url]
FileFloor == [id : FloorId, level : Level, places : SUBSET (PrinterId \X Place)]

LEMMA Listed == ASSUME NEW T, NEW list \in Seq(T), NEW i \in DOMAIN list PROVE list[i] \in T
OBVIOUS

LEMMA Replaced == ASSUME NEW T, NEW list \in Seq(T), NEW i, NEW x \in T PROVE [list EXCEPT ![i] = x] \in Seq(T)
<1>1. PICK n \in Nat : list \in [1..n -> T]
  OBVIOUS
<1>2. [list EXCEPT ![i] = x] \in [1..n -> T]
  BY <1>1
<1>3. QED
  BY <1>2

LEMMA FileTyped ==
    ASSUME NEW file, FileFits(file)
    PROVE  /\ file.config \in Config
           /\ file.printers \in Seq(FilePrinter)
           /\ \A i \in DOMAIN file.printers : file.printers[i] \in FilePrinter
           /\ file.floors \in Seq(FileFloor)
           /\ \A i \in DOMAIN file.floors : file.floors[i] \in FileFloor
<1>1. file.config \in Config /\ file.printers \in Seq(FilePrinter) /\ file.floors \in Seq(FileFloor)
  BY DEF FileFits, File, FilePrinter, FileFloor
<1>2. QED
  BY <1>1, Listed

\* The ids of a file are listed each once.
LEMMA InOrderOfInterval ==
    ASSUME NEW n \in Nat
    PROVE  LET list == InOrder(1..n) IN
           /\ list \in [1..n -> 1..n]
           /\ \A id \in 1..n : \E i \in 1..n : list[i] = id
           /\ \A i, j \in 1..n : list[i] = list[j] => i = j
<1> DEFINE L == [1..Cardinality(1..n) -> 1..n]
           Fit(list) == /\ \A id \in 1..n : \E i \in DOMAIN list : list[i] = id
                        /\ \A i, j \in DOMAIN list : i < j => list[i] < list[j]
           same == [i \in 1..n |-> i]
           list == InOrder(1..n)
<1>1. Cardinality(1..n) = n
  BY FS_Interval
<1>2. same \in L /\ Fit(same)
  BY <1>1
<1>3. list = CHOOSE l \in L : Fit(l)
  BY DEF InOrder
<1>4. list \in L /\ Fit(list)
  <2> HIDE DEF L, Fit, same, list
  <2> QED BY <1>2, <1>3
<1>5. list \in [1..n -> 1..n] /\ Fit(list)
  BY <1>1, <1>4
<1> HIDE DEF list
<1>6. \A i, j \in 1..n : list[i] = list[j] => i = j
  <2> SUFFICES ASSUME NEW i \in 1..n, NEW j \in 1..n, list[i] = list[j] PROVE i = j
    OBVIOUS
  <2>1. i \in Int /\ j \in Int /\ list[i] \in Int /\ DOMAIN list = 1..n
    BY <1>5
  <2>2. /\ i < j => list[i] < list[j]
        /\ j < i => list[j] < list[i]
    BY <1>5, <2>1
  <2>3. QED
    BY <2>1, <2>2
<1>7. QED
  BY <1>5, <1>6 DEF list

LEMMA LeastOfNaturals ==
    ASSUME NEW T, T \subseteq Nat, T # {} PROVE \E x \in T : \A y \in T : x <= y
<1> DEFINE R == OpToRel(<, Nat)
<1>1. IsWellFoundedOn(R, Nat)
  BY NatLessThanWellFounded
<1>2. \A x, y \in Nat : x < y => <<x, y>> \in R
  BY DEF OpToRel
<1> HIDE DEF R
<1>3. PICK x \in T : \A y \in T : ~ (<<y, x>> \in R)
  BY <1>1, WFMin
<1>4. \A y \in T : ~ (y < x)
  BY <1>2, <1>3
<1>5. QED
  BY <1>3, <1>4

\* The least of a set of numbers.
LEMMA MinOfNaturals ==
    ASSUME NEW T, T \subseteq Nat, T # {} PROVE Min(T) \in T /\ \A t \in T : Min(T) <= t
<1>1. \E x \in T : \A y \in T : x <= y
  BY LeastOfNaturals
<1>2. QED
  BY <1>1 DEF Min

LEMMA PrinterTargetThere ==
    ASSUME FileFits(backup), NEW printer
    PROVE  PrinterTarget(printer) \in {0} \cup PrintersThere
<1> DEFINE by == backup.config.by
           hits == {k \in DOMAIN by : FoundBy(by[k], printer) # {}}
<1>1. by \in Seq({"name", "url", "id"})
  BY YamlAssumption DEF FileFits, File, Config
<1>2. DOMAIN by \subseteq Nat
  BY <1>1
<1>3. PrinterTarget(printer) = IF hits = {} THEN 0 ELSE Min(FoundBy(by[Min(hits)], printer))
  BY DEF PrinterTarget
<1>4. ASSUME hits # {} PROVE Min(FoundBy(by[Min(hits)], printer)) \in PrintersThere
  <2>1. hits \subseteq Nat
    BY <1>2
  <2> DEFINE found == FoundBy(by[Min(hits)], printer)
  <2>2. Min(hits) \in hits
    <3> HIDE DEF hits
    <3> QED BY <1>4, <2>1, MinOfNaturals
  <2>3. found # {}
    BY <2>2
  <2>4. found \subseteq PrintersThere /\ PrintersThere \subseteq Nat
    BY DEF FoundBy, PrintersThere, PrinterId
  <2> HIDE DEF found
  <2>5. Min(found) \in found
    BY <2>3, <2>4, MinOfNaturals
  <2>6. QED
    BY <2>4, <2>5 DEF found
<1> HIDE DEF hits
<1>5. QED
  BY <1>3, <1>4

\* A printer of a file that tells them apart is found by its first strategy, and alone.
LEMMA PrinterTargetItself ==
    ASSUME FileFits(backup), Distinct, AsExported, NEW i \in DOMAIN backup.printers
    PROVE  PrinterTarget(backup.printers[i]) = backup.printers[i].id
<1> DEFINE by == backup.config.by
           printer == backup.printers[i]
           hits == {k \in DOMAIN by : FoundBy(by[k], printer) # {}}
<1>1. by \in Seq({"name", "url", "id"}) /\ by # <<>>
  BY YamlAssumption DEF FileFits, File, Config
<1>2. 1 \in DOMAIN by /\ Head(by) = by[1] /\ by[1] \in {"name", "url", "id"} /\ DOMAIN by \subseteq Nat \ {0}
  BY <1>1
<1>3. printer.id \in PrinterId
  BY FileTyped DEF FilePrinter
<1>4. /\ printerDocs[printer.id] = PrinterOf(printer)
      /\ \A p \in PrintersThere : \E j \in DOMAIN backup.printers :
            backup.printers[j].id = p /\ printerDocs[p] = PrinterOf(backup.printers[j])
  BY DEF AsExported
<1>5. printer.id \in PrintersThere
  BY <1>3, <1>4 DEF PrintersThere, PrinterOf
<1>6. FoundBy(by[1], printer) = {printer.id}
  <2>1. CASE by[1] = "name"
    <3>1. \A j \in DOMAIN backup.printers : backup.printers[j].name = printer.name => j = i
      BY <1>2, <2>1 DEF Distinct, Key
    <3>2. FoundBy(by[1], printer) = {p \in PrintersThere : printerDocs[p].name = printer.name}
      BY <2>1 DEF FoundBy
    <3>3. QED
      <4>1. ASSUME NEW p \in PrintersThere, printerDocs[p].name = printer.name PROVE p = printer.id
        <5>1. PICK j \in DOMAIN backup.printers :
                 backup.printers[j].id = p /\ printerDocs[p] = PrinterOf(backup.printers[j])
          BY <1>4
        <5>2. backup.printers[j].name = printer.name
          BY <4>1, <5>1 DEF PrinterOf
        <5>3. QED
          BY <3>1, <5>1, <5>2
      <4>2. printerDocs[printer.id].name = printer.name
        BY <1>4 DEF PrinterOf
      <4>3. QED
        BY <1>5, <3>2, <4>1, <4>2
  <2>2. CASE by[1] = "url"
    <3>1. \A j \in DOMAIN backup.printers : backup.printers[j].url = printer.url => j = i
      BY <1>2, <2>2 DEF Distinct, Key
    <3>2. LowerCase[printer.url] = printer.url
      BY <1>2, <2>2 DEF Distinct
    <3>3. FoundBy(by[1], printer) = {p \in PrintersThere : printerDocs[p].url = printer.url}
      BY <2>2, <3>2 DEF FoundBy
    <3>4. QED
      <4>1. ASSUME NEW p \in PrintersThere, printerDocs[p].url = printer.url PROVE p = printer.id
        <5>1. PICK j \in DOMAIN backup.printers :
                 backup.printers[j].id = p /\ printerDocs[p] = PrinterOf(backup.printers[j])
          BY <1>4
        <5>2. backup.printers[j].url = printer.url
          BY <4>1, <5>1 DEF PrinterOf
        <5>3. QED
          BY <3>1, <5>1, <5>2
      <4>2. printerDocs[printer.id].url = printer.url
        BY <1>4 DEF PrinterOf
      <4>3. QED
        BY <1>5, <3>3, <4>1, <4>2
  <2>3. CASE by[1] = "id"
    BY <1>5, <2>3 DEF FoundBy
  <2>4. QED
    BY <1>2, <2>1, <2>2, <2>3
<1>7. Min({printer.id}) = printer.id
  BY <1>3 DEF Min, PrinterId
<1>8. 1 \in hits /\ hits \subseteq Nat \ {0}
  BY <1>2, <1>6
<1>9. PrinterTarget(printer) = IF hits = {} THEN 0 ELSE Min(FoundBy(by[Min(hits)], printer))
  BY DEF PrinterTarget
<1>10. Min(hits) = 1
  <2> HIDE DEF hits
  <2>1. Min(hits) \in Nat \ {0} /\ Min(hits) <= 1
    BY <1>8, MinOfNaturals
  <2>2. QED
    BY <2>1
<1>11. hits # {}
  BY <1>8
<1> HIDE DEF hits
<1>12. QED
  BY <1>6, <1>7, <1>9, <1>10, <1>11

\* Where a floor of the file goes: the one with its id, or the one with its level.
LEMMA FloorTargetThere ==
    ASSUME NEW floor
    PROVE  LET f == FloorTarget(floor) IN
           \/ f = 0
           \/ f \in FloorsThere /\ IF backup.config.floorBy = "id" THEN f = floor.id
                                   ELSE floorDocs[f].level = floor.level
<1> DEFINE found == {f \in FloorsThere : IF backup.config.floorBy = "id" THEN f = floor.id
                                         ELSE floorDocs[f].level = floor.level}
<1>1. FloorTarget(floor) = IF found = {} THEN 0 ELSE Min(found)
  BY DEF FloorTarget
<1>2. found \subseteq Nat
  BY DEF FloorsThere, FloorId
<1>3. found # {} => Min(found) \in found
  <2> HIDE DEF found
  <2> QED BY <1>2, MinOfNaturals
<1>4. QED
  BY <1>1, <1>3

LEMMA FloorTargetItself ==
    ASSUME FileFits(backup), AsExported, LevelsDiffer, NEW i \in DOMAIN backup.floors
    PROVE  FloorTarget(backup.floors[i]) = backup.floors[i].id
<1> DEFINE floor == backup.floors[i]
           found == {f \in FloorsThere : IF backup.config.floorBy = "id" THEN f = floor.id
                                         ELSE floorDocs[f].level = floor.level}
<1>1. floor.id \in FloorId
  BY FileTyped DEF FileFloor
<1>2. floor.id \in FloorsThere /\ floorDocs[floor.id].level = floor.level
  BY <1>1 DEF AsExported, FloorsThere
<1>3. found = {floor.id}
  BY <1>2 DEF LevelsDiffer
<1>4. FloorTarget(floor) = IF found = {} THEN 0 ELSE Min(found)
  BY DEF FloorTarget
<1>5. Min({floor.id}) = floor.id
  BY <1>1 DEF Min, FloorId
<1> HIDE DEF found
<1>6. QED
  BY <1>3, <1>4, <1>5

-----------------------------------------------------------------------------
(* The start, and the export.                                              *)

LEMMA NoImportType == NoImport \in Import
<1>1. [p \in PrinterId |-> 0] \in [PrinterId -> 0..MaxPrinter]
  BY YamlAssumption DEF PrinterId
<1>2. QED
  BY <1>1 DEF NoImport, Import

LEMMA YamlStart == YamlInit => YamlInv
<1> SUFFICES ASSUME YamlInit PROVE YamlInv
  OBVIOUS
<1>1. /\ StartPrinters \in Nat /\ StartPrinters <= MaxPrinter /\ MaxPrinter \in Nat
      /\ MaxFloor \in Nat /\ Len(StartFloors) \in Nat /\ Len(StartFloors) <= MaxFloor
      /\ DOMAIN StartFloors = 1..Len(StartFloors)
      /\ \A f \in DOMAIN StartFloors : StartFloors[f] \subseteq (1..StartPrinters) \X Place
  <2>1. StartFloors \in Seq(SUBSET ((1..StartPrinters) \X Place))
    BY YamlAssumption
  <2>2. \A f \in DOMAIN StartFloors : StartFloors[f] \in SUBSET ((1..StartPrinters) \X Place)
    BY <2>1, Listed
  <2>3. QED
    BY <2>1, <2>2, YamlAssumption
<1>2. /\ printerDocs \in [PrinterId -> PrinterDoc \cup {NoDoc}]
      /\ PrintersThere = 1..StartPrinters
  <2>1. /\ printerDocs \in [PrinterId -> PrinterDoc \cup {NoDoc}]
        /\ \A p \in PrinterId : printerDocs[p].there = (p <= StartPrinters)
    BY DEF YamlInit
  <2>2. \A p \in PrinterId : p \in PrintersThere <=> p <= StartPrinters
    BY <2>1 DEF PrintersThere
  <2>3. PrintersThere \subseteq PrinterId
    BY DEF PrintersThere
  <2>4. QED
    <3>1. \A p : p \in PrintersThere <=> p \in 1..StartPrinters
      <4>1. \A p : p \in 1..StartPrinters <=> p \in PrinterId /\ p <= StartPrinters
        BY <1>1 DEF PrinterId
      <4>2. QED
        BY <2>2, <2>3, <4>1
    <3>2. QED
      BY <2>1, <3>1
<1>3. PICK level \in [DOMAIN StartFloors -> Level] :
         /\ \A f, g \in DOMAIN StartFloors : level[f] = level[g] => f = g
         /\ floorDocs = [f \in FloorId |-> IF f \in DOMAIN StartFloors
                                          THEN NewFloor(level[f], StartFloors[f]) ELSE NoDoc]
  BY DEF YamlInit
<1>4. \A f \in DOMAIN StartFloors : StartFloors[f] \in SUBSET (PrinterId \X Place)
  BY <1>1 DEF PrinterId
<1>5. /\ FloorsThere = DOMAIN StartFloors
      /\ \A f \in FloorsThere : floorDocs[f] = NewFloor(level[f], StartFloors[f])
  <2>1. DOMAIN StartFloors \subseteq FloorId
    BY <1>1 DEF FloorId
  <2>2. \A f \in DOMAIN StartFloors : floorDocs[f] = NewFloor(level[f], StartFloors[f]) /\ floorDocs[f].there
    BY <1>3, <2>1 DEF NewFloor
  <2>3. \A f \in FloorId \ DOMAIN StartFloors : ~floorDocs[f].there
    BY <1>3 DEF NoDoc
  <2>4. QED
    BY <2>1, <2>2, <2>3 DEF FloorsThere
<1>6. floorDocs \in [FloorId -> FloorDoc \cup {NoDoc}]
  <2>1. \A f \in DOMAIN StartFloors : NewFloor(level[f], StartFloors[f]) \in FloorDoc
    BY <1>4 DEF NewFloor, FloorDoc
  <2>2. QED
    BY <1>3, <2>1
<1>7. LevelsDiffer /\ NoneDangling
  <2>1. ASSUME NEW f \in FloorsThere
        PROVE  floorDocs[f].level = level[f] /\ floorDocs[f].places = StartFloors[f]
    <3>1. floorDocs[f] = NewFloor(level[f], StartFloors[f])
      BY <1>5
    <3>2. QED
      BY <3>1 DEF NewFloor
  <2>2. \A f \in FloorsThere : \A pos \in StartFloors[f] : pos[1] \in 1..StartPrinters
    BY <1>1, <1>5
  <2>3. LevelsDiffer
    BY <1>3, <1>5, <2>1 DEF LevelsDiffer
  <2>4. NoneDangling
    BY <1>2, <2>1, <2>2 DEF NoneDangling
  <2>5. QED
    BY <2>3, <2>4
<1>8. /\ nextIds = FirstIds /\ backup = <<>> /\ import = NoImport /\ edits = 0
      /\ FirstIds.printer = StartPrinters + 1 /\ FirstIds.floor = Len(StartFloors) + 1
  BY DEF YamlInit, FirstIds
<1>9. YamlTyped
  <2>1. FirstIds \in [printer : 1..(MaxPrinter + 1), floor : 1..(MaxFloor + 1)]
    BY <1>1 DEF FirstIds
  <2>2. edits \in 0..MaxEdits
    BY <1>8, YamlAssumption
  <2>3. QED
    BY <1>2, <1>6, <1>8, <2>1, <2>2, NoImportType DEF YamlTyped
<1>10. IdsAreNew
  BY <1>1, <1>2, <1>5, <1>8 DEF IdsAreNew
<1>11. /\ import.stage = "none" /\ import.writes = {} /\ import.created = {} /\ import.undisturbed
       /\ import.idMap = [p \in PrinterId |-> 0] /\ import.putIn = [p \in PrinterId |-> 0]
  BY <1>8 DEF NoImport
<1>12. WritesFit /\ ImportFits
  BY <1>8, <1>11 DEF WritesFit, ImportFits
<1>13. Undisturbed
  BY <1>7, <1>11 DEF Undisturbed, MapFollows, IsThere, PrinterId
<1>14. Unedited
  BY <1>2, <1>5, <1>8, <1>11 DEF Unedited, AtStart
<1>15. QED
  BY <1>7, <1>9, <1>10, <1>12, <1>13, <1>14 DEF YamlInv

\* The export writes what there was at the start.
LEMMA ExportKeeps ==
    ASSUME YamlInv, NEW config \in UsualConfig, Export(config) PROVE YamlInv'
<1> DEFINE P == InOrder(PrintersThere)
           F == InOrder(FloorsThere)
<1>1. /\ YamlTyped /\ IdsAreNew /\ LevelsDiffer /\ WritesFit /\ ImportFits /\ Undisturbed
      /\ Unedited
      /\ UNCHANGED <<printerDocs, floorDocs, nextIds, import, edits>> /\ backup = <<>>
  BY DEF YamlInv, Export
<1>2. import = NoImport /\ import.stage = "none" /\ edits = 0 /\ AtStart
  BY <1>1 DEF ImportFits, Unedited
<1>3. /\ StartPrinters \in Nat /\ Len(StartFloors) \in Nat
      /\ DOMAIN StartFloors = 1..Len(StartFloors)
      /\ PrintersThere \subseteq PrinterId /\ FloorsThere \subseteq FloorId
  BY YamlAssumption DEF PrintersThere, FloorsThere
<1>4. PrintersThere = 1..StartPrinters /\ FloorsThere = 1..Len(StartFloors)
  BY <1>2, <1>3 DEF AtStart
<1>5. /\ P \in [1..StartPrinters -> PrintersThere]
      /\ \A p \in PrintersThere : \E i \in DOMAIN P : P[i] = p
      /\ \A i, j \in DOMAIN P : P[i] = P[j] => i = j
  <2>1. P = InOrder(1..StartPrinters)
    BY <1>4
  <2> HIDE DEF P
  <2>2. /\ P \in [1..StartPrinters -> 1..StartPrinters]
        /\ \A id \in 1..StartPrinters : \E i \in 1..StartPrinters : P[i] = id
        /\ \A i, j \in 1..StartPrinters : P[i] = P[j] => i = j
    BY <1>3, <2>1, InOrderOfInterval
  <2>3. QED
    BY <1>4, <2>2
<1>6. /\ F \in [1..Len(StartFloors) -> FloorsThere]
      /\ \A f \in FloorsThere : \E i \in DOMAIN F : F[i] = f
      /\ \A i, j \in DOMAIN F : F[i] = F[j] => i = j
  <2> DEFINE n == Len(StartFloors)
  <2>1. F = InOrder(1..n)
    BY <1>4
  <2> HIDE DEF F
  <2>2. /\ F \in [1..n -> 1..n]
        /\ \A id \in 1..n : \E i \in 1..n : F[i] = id
        /\ \A i, j \in 1..n : F[i] = F[j] => i = j
    BY <1>3, <2>1, InOrderOfInterval
  <2>3. QED
    BY <1>4, <2>2
<1> DEFINE printer == [i \in DOMAIN P |-> [id |-> P[i], name |-> printerDocs[P[i]].name,
                                           url |-> printerDocs[P[i]].url]]
           floor == [i \in DOMAIN F |->
                       [id |-> F[i], level |-> floorDocs[F[i]].level,
                        places |-> IF config.exportFloorGrid THEN floorDocs[F[i]].places ELSE {}]]
<1>7. backup' = [config |-> config, printers |-> printer, floors |-> floor]
  BY DEF Export
<1> HIDE DEF P, F
<1>8. \A p \in PrintersThere : printerDocs[p] \in PrinterDoc
  BY <1>1 DEF YamlTyped, PrintersThere, NoDoc
<1>9. \A f \in FloorsThere : floorDocs[f] \in FloorDoc
  BY <1>1 DEF YamlTyped, FloorsThere, NoDoc
<1>10. /\ DOMAIN printer = DOMAIN P /\ DOMAIN P = 1..StartPrinters
       /\ \A i \in DOMAIN P : printer[i] \in FilePrinter /\ printer[i].id = P[i]
  BY <1>3, <1>5, <1>8 DEF FilePrinter, PrinterDoc
<1>11. /\ DOMAIN floor = DOMAIN F /\ DOMAIN F = 1..Len(StartFloors)
       /\ \A i \in DOMAIN F : floor[i] \in FileFloor /\ floor[i].id = F[i]
  BY <1>3, <1>6, <1>9 DEF FileFloor, FloorDoc
<1>12. \A i \in DOMAIN P : printerDocs[printer[i].id] = PrinterOf(printer[i])
  BY <1>5, <1>8 DEF PrinterDoc, PrinterOf
<1>13. \A i \in DOMAIN F :
          /\ floor[i].level = floorDocs[F[i]].level
          /\ floorDocs[floor[i].id].there /\ floorDocs[floor[i].id].level = floor[i].level
          /\ config.exportFloorGrid => floorDocs[floor[i].id].places = floor[i].places
  <2> SUFFICES ASSUME NEW i \in DOMAIN F
               PROVE  /\ floor[i].level = floorDocs[F[i]].level
                      /\ floorDocs[floor[i].id].there
                      /\ floorDocs[floor[i].id].level = floor[i].level
                      /\ config.exportFloorGrid => floorDocs[floor[i].id].places = floor[i].places
    OBVIOUS
  <2>1. /\ floor[i].id = F[i] /\ floor[i].level = floorDocs[F[i]].level
        /\ config.exportFloorGrid => floor[i].places = floorDocs[F[i]].places
    OBVIOUS
  <2>2. floorDocs[F[i]].there
    BY <1>6, <1>9 DEF FloorDoc
  <2> HIDE DEF floor
  <2>3. QED
    BY <2>1, <2>2
<1> HIDE DEF printer, floor
<1>14. /\ backup'.config = config /\ backup'.printers = printer /\ backup'.floors = floor
       /\ backup' # <<>>
  BY <1>7
<1>15. FileFits(backup')
  <2>1. printer \in Seq(FilePrinter) /\ floor \in Seq(FileFloor)
    <3>1. printer \in [1..StartPrinters -> FilePrinter]
      BY <1>10 DEF printer
    <3>2. floor \in [1..Len(StartFloors) -> FileFloor]
      BY <1>11 DEF floor
    <3>3. QED
      BY <1>3, <3>1, <3>2
  <2>2. backup' \in File
    BY <1>7, <2>1 DEF File, FilePrinter, FileFloor, UsualConfig
  <2>3. \A i \in DOMAIN printer : printer[i].id <= StartPrinters
    BY <1>4, <1>5, <1>10
  <2>4. \A i, j \in DOMAIN floor : floor[i].level = floor[j].level => i = j
    <3>1. \A i, j \in DOMAIN F : floorDocs[F[i]].level = floorDocs[F[j]].level => F[i] = F[j]
      BY <1>1, <1>6 DEF LevelsDiffer
    <3>2. DOMAIN floor = DOMAIN F /\ \A i \in DOMAIN F : floor[i].level = floorDocs[F[i]].level
      BY <1>11, <1>13
    <3>3. QED
      BY <1>6, <3>1, <3>2
  <2>5. DOMAIN floor # {}
    <3>1. 1 \in 1..Len(StartFloors)
      BY <1>3, YamlAssumption
    <3>2. QED
      BY <1>11, <3>1
  <2>6. QED
    BY <1>5, <1>6, <1>10, <1>11, <1>14, <2>2, <2>3, <2>4, <2>5 DEF FileFits, TellsApart
<1>16. YamlTyped' /\ IdsAreNew' /\ LevelsDiffer'
  BY <1>1, <1>15 DEF YamlTyped, IdsAreNew, LevelsDiffer, PrintersThere, FloorsThere
<1>17. /\ import.writes = {} /\ import.created = {} /\ import.undisturbed
       /\ import.idMap = [p \in PrinterId |-> 0] /\ import.putIn = [p \in PrinterId |-> 0]
  BY <1>2 DEF NoImport
<1>18. WritesFit' /\ ImportFits'
  BY <1>1, <1>2, <1>14, <1>17 DEF WritesFit, ImportFits
<1>19. Undisturbed'
  <2>1. NoneDangling'
    BY <1>1, <1>17 DEF Undisturbed, NoneDangling, PrintersThere, FloorsThere
  <2>2. QED
    BY <1>1, <1>2, <1>17, <2>1 DEF Undisturbed, MapFollows, IsThere, PrinterId
<1>20. AsExported'
  <2>1. PrintersThere' = PrintersThere /\ FloorsThere' = FloorsThere
    BY <1>1 DEF PrintersThere, FloorsThere
  <2>2. /\ \A p \in PrintersThere : \E i \in DOMAIN printer : printer[i].id = p
        /\ \A f \in FloorsThere : \E i \in DOMAIN floor : floor[i].id = f
    BY <1>5, <1>6, <1>10, <1>11
  <2>3. \A i \in DOMAIN printer : printerDocs[printer[i].id] = PrinterOf(printer[i])
    BY <1>10, <1>12
  <2>4. \A i \in DOMAIN floor :
           /\ floorDocs[floor[i].id].there /\ floorDocs[floor[i].id].level = floor[i].level
           /\ config.exportFloorGrid => floorDocs[floor[i].id].places = floor[i].places
    <3>1. DOMAIN floor = DOMAIN F
      BY <1>11
    <3>2. QED
      BY <1>13, <3>1
  <2>5. nextIds = FirstIds
    BY <1>2 DEF AtStart
  <2>6. QED
    BY <1>1, <1>14, <2>1, <2>2, <2>3, <2>4, <2>5 DEF AsExported
<1>21. Unedited'
  <2>1. AtStart'
    BY <1>1, <1>2 DEF AtStart, PrintersThere, FloorsThere
  <2>2. Restoring'
    BY <1>1, <1>2, <1>17 DEF Restoring
  <2>3. QED
    BY <1>1, <1>2, <1>20, <2>1, <2>2 DEF Unedited
<1>22. QED
  BY <1>16, <1>18, <1>19, <1>21 DEF YamlInv

\* An import under way has a file.
LEMMA ImportHasFile ==
    ASSUME YamlInv, import.stage # "none"
    PROVE  /\ backup # <<>> /\ FileFits(backup) /\ import \in Import
           /\ backup.printers \in Seq(FilePrinter)
           /\ \A i \in DOMAIN backup.printers : backup.printers[i] \in FilePrinter
           /\ backup.floors \in Seq(FileFloor)
           /\ \A i \in DOMAIN backup.floors : backup.floors[i] \in FileFloor
<1>1. backup # <<>> /\ FileFits(backup) /\ import \in Import
  BY DEF YamlInv, ImportFits, YamlTyped
<1>2. QED
  BY <1>1, FileTyped

-----------------------------------------------------------------------------
(* The edits.                                                              *)

\* What an edit has to keep of the documents; the import it disturbs, or there is none yet.
LEMMA EditKeeps ==
    ASSUME YamlInv, Edited,
           printerDocs' \in [PrinterId -> PrinterDoc \cup {NoDoc}],
           floorDocs' \in [FloorId -> FloorDoc \cup {NoDoc}],
           nextIds' \in [printer : 1..(MaxPrinter + 1), floor : 1..(MaxFloor + 1)],
           IdsAreNew', LevelsDiffer', NoneDangling => NoneDangling'
    PROVE  YamlInv'
<1>1. /\ YamlTyped /\ WritesFit /\ ImportFits /\ Undisturbed
      /\ backup # <<>> /\ backup' = backup /\ edits < MaxEdits /\ edits' = edits + 1
      /\ import' = [import EXCEPT !.undisturbed = import.stage = "none"]
      /\ import \in Import
  BY DEF YamlInv, Edited, YamlTyped
<1>2. /\ import' \in Import /\ import'.stage = import.stage /\ import'.writes = import.writes
      /\ import'.putIn = import.putIn /\ import'.created = import.created
      /\ import'.idMap = import.idMap
      /\ import'.undisturbed = (import.stage = "none")
  BY <1>1 DEF Import
<1>3. edits' \in 0..MaxEdits /\ edits' # 0
  BY <1>1, YamlAssumption DEF YamlTyped
<1>4. YamlTyped'
  BY <1>1, <1>2, <1>3 DEF YamlTyped
<1>5. WritesFit'
  BY <1>1, <1>2 DEF WritesFit, OfPrinter
<1>6. ASSUME import.stage = "none" PROVE import' = NoImport /\ NoneDangling'
  <2>1. import = NoImport /\ import.undisturbed
    BY <1>1, <1>6 DEF ImportFits, NoImport
  <2>2. import' = import
    BY <1>1, <1>6, <2>1 DEF NoImport
  <2>3. QED
    BY <1>1, <2>1, <2>2 DEF Undisturbed
<1>7. ImportFits'
  BY <1>1, <1>2, <1>3, <1>6 DEF ImportFits
<1>8. Undisturbed'
  <2>1. CASE import.stage = "none"
    <3>1. /\ import'.writes = {} /\ import'.created = {} /\ import'.stage = "none"
          /\ import'.idMap = [p \in PrinterId |-> 0] /\ import'.putIn = [p \in PrinterId |-> 0]
      BY <1>6, <2>1 DEF NoImport
    <3>2. MapFollows'
      BY <3>1 DEF MapFollows, IsThere, PrinterId
    <3>3. QED
      BY <1>6, <2>1, <3>1, <3>2 DEF Undisturbed
  <2>2. CASE import.stage # "none"
    BY <1>2, <2>2 DEF Undisturbed
  <2>3. QED
    BY <2>1, <2>2
<1>9. Unedited'
  BY <1>3 DEF Unedited
<1>10. QED
  BY <1>4, <1>5, <1>7, <1>8, <1>9 DEF YamlInv

\* Who is there after a printer has been written
LEMMA PrinterWritten ==
    ASSUME printerDocs \in [PrinterId -> PrinterDoc \cup {NoDoc}], NEW p \in PrinterId, NEW doc \in PrinterDoc,
           printerDocs' = [printerDocs EXCEPT ![p] = doc]
    PROVE  /\ printerDocs' \in [PrinterId -> PrinterDoc \cup {NoDoc}]
           /\ PrintersThere' = PrintersThere \cup {p}
<1>1. doc.there
  BY DEF PrinterDoc
<1>2. QED
  BY <1>1 DEF PrintersThere

LEMMA EditPrinterKeeps ==
    ASSUME YamlInv, NEW p \in PrinterId, NEW doc \in PrinterDoc, EditPrinter(p, doc) PROVE YamlInv'
<1>1. /\ YamlTyped /\ IdsAreNew /\ LevelsDiffer /\ p \in PrintersThere /\ Edited
      /\ printerDocs' = [printerDocs EXCEPT ![p] = doc] /\ UNCHANGED <<floorDocs, nextIds>>
  BY DEF YamlInv, EditPrinter
<1>2. printerDocs' \in [PrinterId -> PrinterDoc \cup {NoDoc}] /\ PrintersThere' = PrintersThere
  <2>1. printerDocs \in [PrinterId -> PrinterDoc \cup {NoDoc}]
    BY <1>1 DEF YamlTyped
  <2>2. /\ printerDocs' \in [PrinterId -> PrinterDoc \cup {NoDoc}]
        /\ PrintersThere' = PrintersThere \cup {p}
    BY <1>1, <2>1, PrinterWritten
  <2>3. QED
    BY <1>1, <2>2
<1>3. FloorsThere' = FloorsThere
  BY <1>1 DEF FloorsThere
<1>4. IdsAreNew' /\ LevelsDiffer' /\ (NoneDangling => NoneDangling')
  BY <1>1, <1>2, <1>3 DEF IdsAreNew, LevelsDiffer, NoneDangling
<1>5. QED
  BY <1>1, <1>2, <1>4, EditKeeps DEF YamlTyped

\* The floors without the positions of a printer.
LEMMA UnplacedType ==
    ASSUME YamlTyped, NEW p \in PrinterId
    PROVE  /\ Unplaced(p) \in [FloorId -> FloorDoc \cup {NoDoc}]
           /\ \A f \in FloorId : Unplaced(p)[f].there <=> f \in FloorsThere
           /\ \A f \in FloorsThere :
                 /\ Unplaced(p)[f].level = floorDocs[f].level
                 /\ Unplaced(p)[f].places = {pos \in floorDocs[f].places : pos[1] # p}
<1>1. \A f \in FloorId : floorDocs[f] \in FloorDoc \cup {NoDoc}
  BY DEF YamlTyped
<1>2. ASSUME NEW f \in FloorsThere
      PROVE  /\ Unplaced(p)[f] \in FloorDoc /\ Unplaced(p)[f].there
             /\ Unplaced(p)[f].level = floorDocs[f].level
             /\ Unplaced(p)[f].places = {pos \in floorDocs[f].places : pos[1] # p}
  <2>1. f \in FloorId /\ floorDocs[f].there /\ floorDocs[f] \in FloorDoc
    BY <1>1 DEF FloorsThere, NoDoc
  <2> DEFINE places == {pos \in floorDocs[f].places : pos[1] # p}
  <2>2. Unplaced(p)[f] = [floorDocs[f] EXCEPT !.places = places]
    BY <2>1 DEF Unplaced
  <2>3. places \in SUBSET (PrinterId \X Place)
    BY <2>1 DEF FloorDoc
  <2> HIDE DEF places
  <2>4. /\ Unplaced(p)[f] \in FloorDoc /\ Unplaced(p)[f].level = floorDocs[f].level
        /\ Unplaced(p)[f].places = places
    BY <2>1, <2>2, <2>3 DEF FloorDoc
  <2>5. Unplaced(p)[f].there
    BY <2>4 DEF FloorDoc
  <2>6. QED
    BY <2>4, <2>5 DEF places
<1>3. \A f \in FloorId \ FloorsThere : Unplaced(p)[f] = NoDoc
  BY DEF Unplaced, FloorsThere
<1>4. DOMAIN Unplaced(p) = FloorId /\ Unplaced(p) = [f \in FloorId |-> Unplaced(p)[f]]
  BY DEF Unplaced
<1>5. \A f \in FloorId : Unplaced(p)[f].there <=> f \in FloorsThere
  BY <1>2, <1>3 DEF NoDoc
<1>6. \A f \in FloorId : Unplaced(p)[f] \in FloorDoc \cup {NoDoc}
  BY <1>2, <1>3
<1>7. QED
  BY <1>2, <1>4, <1>5, <1>6

LEMMA NewFloorType ==
    ASSUME NEW level \in Level, NEW places \in SUBSET (PrinterId \X Place)
    PROVE  /\ NewFloor(level, places) \in FloorDoc
           /\ NewFloor(level, places).level = level /\ NewFloor(level, places).places = places
BY DEF NewFloor, FloorDoc

LEMMA DefaultFloorType ==
    /\ NewFloor(DefaultLevel, {}) \in FloorDoc /\ NewFloor(DefaultLevel, {}).there
    /\ NewFloor(DefaultLevel, {}).places = {}
BY YamlAssumption DEF NewFloor, FloorDoc

\* Loading the floor store keeps the ids new and the levels different, and places no printer.
LEMMA StoreLoadedFacts ==
    ASSUME NEW docs \in [FloorId -> FloorDoc \cup {NoDoc}],
           NEW ids \in [printer : 1..(MaxPrinter + 1), floor : 1..(MaxFloor + 1)],
           ids.floor > Len(StartFloors), \A f \in FloorId : docs[f].there => f < ids.floor,
           \A f, g \in FloorId :
              docs[f].there /\ docs[g].there /\ docs[f].level = docs[g].level => f = g,
           StoreLoaded(docs, ids)
    PROVE  /\ floorDocs' \in [FloorId -> FloorDoc \cup {NoDoc}]
           /\ nextIds' \in [printer : 1..(MaxPrinter + 1), floor : 1..(MaxFloor + 1)]
           /\ nextIds'.printer = ids.printer /\ nextIds'.floor >= ids.floor
           /\ nextIds'.floor > Len(StartFloors)
           /\ \A f \in FloorsThere' : f < nextIds'.floor
           /\ LevelsDiffer'
           /\ \A f \in FloorsThere' :
                 \/ floorDocs'[f].places = {}
                 \/ docs[f].there /\ floorDocs'[f].places = docs[f].places
<1>1. ids.floor \in Nat /\ MaxFloor \in Nat /\ Len(StartFloors) \in Nat
  BY YamlAssumption
<1>2. CASE \E f \in FloorId : docs[f].there
  <2>1. floorDocs' = docs /\ nextIds' = ids
    BY <1>2 DEF StoreLoaded
  <2>2. FloorsThere' = {f \in FloorId : docs[f].there}
    BY <2>1 DEF FloorsThere
  <2>3. LevelsDiffer'
    BY <2>1, <2>2 DEF LevelsDiffer
  <2>4. QED
    BY <1>1, <2>1, <2>2, <2>3
<1>3. CASE ~\E f \in FloorId : docs[f].there
  <2> DEFINE g == ids.floor
             doc == NewFloor(DefaultLevel, {})
  <2>1. doc \in FloorDoc /\ doc.there /\ doc.places = {}
    BY DefaultFloorType
  <2>2. /\ g \in FloorId /\ floorDocs' = [docs EXCEPT ![g] = doc]
        /\ nextIds' = [ids EXCEPT !.floor = @ + 1]
    BY <1>3 DEF StoreLoaded
  <2>3. /\ nextIds' \in [printer : 1..(MaxPrinter + 1), floor : 1..(MaxFloor + 1)]
        /\ nextIds'.printer = ids.printer /\ nextIds'.floor = g + 1
    BY <1>1, <2>2 DEF FloorId
  <2> HIDE DEF g, doc
  <2>4. /\ floorDocs' \in [FloorId -> FloorDoc \cup {NoDoc}] /\ floorDocs'[g] = doc
        /\ \A f \in FloorId \ {g} : ~floorDocs'[f].there
    BY <1>3, <2>1, <2>2
  <2>5. FloorsThere' = {g}
    BY <2>1, <2>2, <2>4 DEF FloorsThere
  <2>6. LevelsDiffer'
    BY <2>5 DEF LevelsDiffer
  <2>7. g > Len(StartFloors) /\ g \in Nat /\ ids.floor = g
    BY <1>1 DEF g
  <2>8. \A f \in FloorsThere' : f < nextIds'.floor /\ floorDocs'[f].places = {}
    BY <2>1, <2>3, <2>4, <2>5, <2>7
  <2>9. nextIds'.floor >= ids.floor /\ nextIds'.floor > Len(StartFloors)
    BY <1>1, <2>3, <2>7
  <2>10. QED
    BY <2>3, <2>4, <2>6, <2>8, <2>9
<1>4. QED
  BY <1>2, <1>3

\* What is loaded when a printer has been taken from all floors.
FloorsUnplaced(p, ids) ==
    /\ floorDocs' \in [FloorId -> FloorDoc \cup {NoDoc}]
    /\ nextIds' \in [printer : 1..(MaxPrinter + 1), floor : 1..(MaxFloor + 1)]
    /\ nextIds'.printer = ids.printer /\ nextIds'.floor > Len(StartFloors)
    /\ \A f \in FloorsThere' : f < nextIds'.floor
    /\ LevelsDiffer'
    /\ \A f \in FloorsThere' : \A pos \in floorDocs'[f].places :
          f \in FloorsThere /\ pos \in floorDocs[f].places /\ pos[1] # p

LEMMA UnplacedLoaded ==
    ASSUME YamlTyped, IdsAreNew, LevelsDiffer, NEW p \in PrinterId,
           NEW ids \in [printer : 1..(MaxPrinter + 1), floor : 1..(MaxFloor + 1)],
           ids.floor = nextIds.floor, StoreLoaded(Unplaced(p), ids)
    PROVE  FloorsUnplaced(p, ids)
<1> DEFINE docs == Unplaced(p)
<1>1. /\ docs \in [FloorId -> FloorDoc \cup {NoDoc}]
      /\ \A f \in FloorId : docs[f].there <=> f \in FloorsThere
      /\ \A f \in FloorsThere : /\ docs[f].level = floorDocs[f].level
                                /\ docs[f].places = {pos \in floorDocs[f].places : pos[1] # p}
  BY UnplacedType
<1>2. StoreLoaded(docs, ids)
  OBVIOUS
<1> HIDE DEF docs
<1>3. /\ ids.floor > Len(StartFloors) /\ \A f \in FloorId : docs[f].there => f < ids.floor
      /\ \A f, g \in FloorId :
            docs[f].there /\ docs[g].there /\ docs[f].level = docs[g].level => f = g
  BY <1>1 DEF IdsAreNew, LevelsDiffer
<1>4. /\ floorDocs' \in [FloorId -> FloorDoc \cup {NoDoc}]
      /\ nextIds' \in [printer : 1..(MaxPrinter + 1), floor : 1..(MaxFloor + 1)]
      /\ nextIds'.printer = ids.printer /\ nextIds'.floor > Len(StartFloors)
      /\ \A f \in FloorsThere' : f < nextIds'.floor
      /\ LevelsDiffer'
      /\ \A f \in FloorsThere' :
            \/ floorDocs'[f].places = {}
            \/ docs[f].there /\ floorDocs'[f].places = docs[f].places
  BY <1>1, <1>2, <1>3, StoreLoadedFacts
<1>5. ASSUME NEW f \in FloorsThere', NEW pos \in floorDocs'[f].places
      PROVE  f \in FloorsThere /\ pos \in floorDocs[f].places /\ pos[1] # p
  <2>1. docs[f].there /\ pos \in docs[f].places
    BY <1>4
  <2>2. f \in FloorsThere
    <3>1. f \in FloorId
      BY DEF FloorsThere
    <3>2. QED
      BY <1>1, <2>1, <3>1
  <2>3. QED
    BY <1>1, <2>1, <2>2
<1>6. QED
  BY <1>4, <1>5 DEF FloorsUnplaced

LEMMA DeletePrinterDocKeeps ==
    ASSUME YamlInv, NEW p \in PrinterId, DeletePrinterDoc(p) PROVE YamlInv'
<1>1. /\ YamlTyped /\ IdsAreNew /\ LevelsDiffer /\ p \in PrintersThere /\ Edited
      /\ printerDocs' = [printerDocs EXCEPT ![p] = NoDoc] /\ StoreLoaded(Unplaced(p), nextIds)
  BY DEF YamlInv, DeletePrinterDoc
<1>2. printerDocs' \in [PrinterId -> PrinterDoc \cup {NoDoc}] /\ PrintersThere' = PrintersThere \ {p}
  BY <1>1 DEF YamlTyped, PrintersThere, NoDoc
<1>3. /\ nextIds \in [printer : 1..(MaxPrinter + 1), floor : 1..(MaxFloor + 1)]
      /\ nextIds.floor > Len(StartFloors)
  BY <1>1 DEF YamlTyped, IdsAreNew
<1>4. FloorsUnplaced(p, nextIds)
  BY <1>1, <1>3, UnplacedLoaded
<1>5. IdsAreNew'
  BY <1>1, <1>2, <1>4 DEF IdsAreNew, FloorsUnplaced
<1>6. NoneDangling => NoneDangling'
  BY <1>2, <1>4 DEF FloorsUnplaced, NoneDangling
<1>7. QED
  BY <1>1, <1>2, <1>4, <1>5, <1>6, EditKeeps DEF FloorsUnplaced

LEMMA RecreatePrinterKeeps ==
    ASSUME YamlInv, NEW p \in PrinterId, RecreatePrinter(p) PROVE YamlInv'
<1> DEFINE new == nextIds.printer
           ids == [nextIds EXCEPT !.printer = @ + 1]
<1>1. /\ YamlTyped /\ IdsAreNew /\ LevelsDiffer /\ p \in PrintersThere /\ Edited
      /\ new \in PrinterId
      /\ printerDocs' = [printerDocs EXCEPT ![p] = NoDoc, ![new] = printerDocs[p]]
      /\ StoreLoaded(Unplaced(p), ids)
  BY DEF YamlInv, RecreatePrinter
<1>2. /\ p < new /\ StartPrinters \in Nat /\ Len(StartFloors) \in Nat /\ MaxPrinter \in Nat
      /\ nextIds \in [printer : 1..(MaxPrinter + 1), floor : 1..(MaxFloor + 1)]
      /\ new \in 1..MaxPrinter
  BY <1>1, YamlAssumption DEF IdsAreNew, YamlTyped, PrinterId
<1>3. /\ ids \in [printer : 1..(MaxPrinter + 1), floor : 1..(MaxFloor + 1)]
      /\ ids.printer = new + 1 /\ ids.floor = nextIds.floor
  BY <1>1, <1>2
<1> HIDE DEF new, ids
<1>4. printerDocs' \in [PrinterId -> PrinterDoc \cup {NoDoc}] /\ PrintersThere' = (PrintersThere \ {p}) \cup {new}
  <2>1. printerDocs \in [PrinterId -> PrinterDoc \cup {NoDoc}] /\ printerDocs[p].there /\ p # new
    BY <1>1, <1>2 DEF YamlTyped, PrintersThere, PrinterId
  <2>2. QED
    BY <1>1, <2>1 DEF PrintersThere, NoDoc
<1>5. FloorsUnplaced(p, ids)
  BY <1>1, <1>3, UnplacedLoaded
<1>6. IdsAreNew'
  <2>1. /\ new > StartPrinters
        /\ \A q \in PrintersThere : q \in Int /\ q < new
    BY <1>1 DEF IdsAreNew, new, PrintersThere, PrinterId
  <2>2. /\ nextIds'.printer = new + 1 /\ nextIds'.floor > Len(StartFloors)
        /\ \A f \in FloorsThere' : f < nextIds'.floor
    BY <1>3, <1>5 DEF FloorsUnplaced
  <2>3. QED
    BY <1>2, <1>4, <2>1, <2>2 DEF IdsAreNew
<1>7. NoneDangling => NoneDangling'
  BY <1>4, <1>5 DEF FloorsUnplaced, NoneDangling
<1>8. QED
  BY <1>1, <1>4, <1>5, <1>6, <1>7, EditKeeps DEF FloorsUnplaced

\* Who is there after a floor has been written.
LEMMA FloorWritten ==
    ASSUME YamlTyped, NEW f \in FloorId, NEW doc \in FloorDoc,
           floorDocs' = [floorDocs EXCEPT ![f] = doc]
    PROVE  /\ floorDocs' \in [FloorId -> FloorDoc \cup {NoDoc}]
           /\ FloorsThere' = FloorsThere \cup {f}
           /\ floorDocs'[f] = doc /\ \A g \in FloorId \ {f} : floorDocs'[g] = floorDocs[g]
<1>1. doc.there
  BY DEF FloorDoc
<1>2. floorDocs \in [FloorId -> FloorDoc \cup {NoDoc}]
  BY DEF YamlTyped
<1>3. QED
  BY <1>1, <1>2 DEF FloorsThere

LEMMA DeleteFloorDocKeeps ==
    ASSUME YamlInv, NEW f \in FloorId, DeleteFloorDoc(f) PROVE YamlInv'
<1>1. /\ YamlTyped /\ IdsAreNew /\ LevelsDiffer /\ f \in FloorsThere /\ Edited
      /\ UNCHANGED <<printerDocs, nextIds>>
      /\ floorDocs' = [floorDocs EXCEPT ![f] = NoDoc]
      /\ floorDocs \in [FloorId -> FloorDoc \cup {NoDoc}]
  BY DEF YamlInv, DeleteFloorDoc, YamlTyped
<1>2. PrintersThere' = PrintersThere
  BY <1>1 DEF PrintersThere
<1>3. /\ floorDocs' \in [FloorId -> FloorDoc \cup {NoDoc}] /\ FloorsThere' = FloorsThere \ {f}
      /\ \A g \in FloorsThere \ {f} : floorDocs'[g] = floorDocs[g]
  BY <1>1 DEF FloorsThere, NoDoc
<1>4. IdsAreNew' /\ LevelsDiffer' /\ (NoneDangling => NoneDangling')
  BY <1>1, <1>2, <1>3 DEF IdsAreNew, LevelsDiffer, NoneDangling
<1>5. QED
  BY <1>1, <1>3, <1>4, EditKeeps DEF YamlTyped

\* Without an edit, while what is there is as exported, the last floor is not gone.
LEMMA FloorsLast ==
    ASSUME YamlInv, edits = 0, FloorsThere = {}
    PROVE  import.stage # "none" /\ ~Restorable
<1>1. Unedited
  BY DEF YamlInv
<1>2. ~AtStart
  <2>1. StartFloors \in Seq(SUBSET ((1..StartPrinters) \X Place)) /\ StartFloors # <<>>
    BY YamlAssumption
  <2>2. 1 \in DOMAIN StartFloors
    BY <2>1
  <2>3. QED
    BY <2>2 DEF AtStart
<1>3. import.stage # "none"
  BY <1>1, <1>2 DEF Unedited
<1>4. ~AsExported
  <2>1. /\ DOMAIN backup.floors # {}
        /\ \A i \in DOMAIN backup.floors : backup.floors[i].id \in FloorId
    BY <1>3, ImportHasFile DEF FileFits, FileFloor
  <2>2. PICK i \in DOMAIN backup.floors : backup.floors[i].id \in FloorId
    BY <2>1
  <2>3. ~floorDocs[backup.floors[i].id].there
    BY <2>2 DEF FloorsThere
  <2>4. QED
    BY <2>2, <2>3 DEF AsExported
<1>5. QED
  BY <1>1, <1>3, <1>4, ImportHasFile DEF Unedited

\* What is loaded when there is no floor.
LEMMA DefaultLoaded ==
    ASSUME YamlInv, FloorsThere = {}, StoreLoaded(floorDocs, nextIds), UNCHANGED printerDocs
    PROVE  /\ floorDocs' \in [FloorId -> FloorDoc \cup {NoDoc}]
           /\ nextIds' \in [printer : 1..(MaxPrinter + 1), floor : 1..(MaxFloor + 1)]
           /\ nextIds'.floor >= nextIds.floor
           /\ PrintersThere' = PrintersThere
           /\ IdsAreNew' /\ LevelsDiffer' /\ NoneDangling'
<1>1. /\ floorDocs \in [FloorId -> FloorDoc \cup {NoDoc}]
      /\ nextIds \in [printer : 1..(MaxPrinter + 1), floor : 1..(MaxFloor + 1)]
      /\ IdsAreNew /\ nextIds.floor > Len(StartFloors)
      /\ \A f \in FloorId : ~floorDocs[f].there
  BY DEF YamlInv, YamlTyped, IdsAreNew, FloorsThere
<1>2. /\ floorDocs' \in [FloorId -> FloorDoc \cup {NoDoc}]
      /\ nextIds' \in [printer : 1..(MaxPrinter + 1), floor : 1..(MaxFloor + 1)]
      /\ nextIds'.printer = nextIds.printer /\ nextIds'.floor >= nextIds.floor
      /\ nextIds'.floor > Len(StartFloors)
      /\ \A f \in FloorsThere' : f < nextIds'.floor
      /\ LevelsDiffer'
      /\ \A f \in FloorsThere' :
            \/ floorDocs'[f].places = {}
            \/ floorDocs[f].there /\ floorDocs'[f].places = floorDocs[f].places
  BY <1>1, StoreLoadedFacts
<1>3. PrintersThere' = PrintersThere
  BY DEF PrintersThere
<1>4. \A f \in FloorsThere' : f \in FloorId
  BY DEF FloorsThere
<1>5. NoneDangling'
  BY <1>1, <1>2, <1>4 DEF NoneDangling
<1>6. IdsAreNew'
  BY <1>1, <1>2, <1>3 DEF IdsAreNew
<1>7. QED
  BY <1>2, <1>3, <1>5, <1>6

LEMMA ListFloorsKeeps == ASSUME YamlInv, ListFloors PROVE YamlInv'
<1>1. /\ YamlTyped /\ WritesFit /\ ImportFits /\ Undisturbed /\ FloorsThere = {}
      /\ StoreLoaded(floorDocs, nextIds) /\ UNCHANGED <<printerDocs, backup, import, edits>>
  BY DEF YamlInv, ListFloors
<1>2. /\ floorDocs' \in [FloorId -> FloorDoc \cup {NoDoc}]
      /\ nextIds' \in [printer : 1..(MaxPrinter + 1), floor : 1..(MaxFloor + 1)]
      /\ nextIds'.floor >= nextIds.floor
      /\ PrintersThere' = PrintersThere
      /\ IdsAreNew' /\ LevelsDiffer' /\ NoneDangling'
  BY <1>1, DefaultLoaded
<1>3. YamlTyped' /\ WritesFit' /\ ImportFits'
  BY <1>1, <1>2 DEF YamlTyped, WritesFit, ImportFits
<1>4. ASSUME import.undisturbed, import.stage \in {"writing", "done"} PROVE FloorsFollow'
  <2>1. FloorsFollow
    BY <1>1, <1>4 DEF Undisturbed
  <2>2. \A i \in DOMAIN backup.floors : import.floorsIn[i] < nextIds'.floor
    <3>1. \A i \in DOMAIN backup.floors : import.floorsIn[i] \in Nat
      <4>1. import.floorsIn \in Seq(0..MaxFloor) /\ MaxFloor \in Nat
        BY <1>1, YamlAssumption DEF YamlTyped, Import
      <4>2. \A i \in DOMAIN import.floorsIn : import.floorsIn[i] \in 0..MaxFloor
        BY <4>1, Listed
      <4>3. QED
        BY <2>1, <4>1, <4>2 DEF FloorsFollow
    <3>2. nextIds.floor \in Nat /\ nextIds'.floor \in Nat
      BY <1>1, <1>2 DEF YamlTyped
    <3>3. QED
      BY <1>2, <2>1, <3>1, <3>2 DEF FloorsFollow
  <2>3. \A i \in DOMAIN backup.floors : \E w \in import.writes : OfFloor(w) /\ w.i = i
    BY <1>1, <2>1 DEF FloorsFollow
  <2>4. QED
    BY <1>1, <2>1, <2>2, <2>3 DEF FloorsFollow
<1>5. Undisturbed'
  <2>1. MapFollows => MapFollows'
    BY <1>1, <1>2 DEF MapFollows, IsThere
  <2>2. QED
    BY <1>1, <1>2, <1>4, <2>1 DEF Undisturbed
<1>6. Unedited'
  <2>1. Restorable' <=> Restorable
    BY <1>1 DEF Restorable, Distinct
  <2>2. QED
    BY <1>1, <2>1, FloorsLast DEF Unedited
<1>7. QED
  BY <1>2, <1>3, <1>5, <1>6 DEF YamlInv

LEMMA ClearFloorKeeps ==
    ASSUME YamlInv, NEW f \in FloorId, ClearFloor(f) PROVE YamlInv'
<1>1. /\ YamlTyped /\ IdsAreNew /\ LevelsDiffer /\ f \in FloorsThere /\ Edited
      /\ floorDocs' = [floorDocs EXCEPT ![f].places = {}] /\ UNCHANGED <<printerDocs, nextIds>>
      /\ floorDocs \in [FloorId -> FloorDoc \cup {NoDoc}]
  BY DEF YamlInv, ClearFloor, YamlTyped
<1> DEFINE doc == [floorDocs[f] EXCEPT !.places = {}]
<1>2. doc \in FloorDoc /\ doc.level = floorDocs[f].level /\ doc.places = {}
  <2>1. floorDocs[f] \in FloorDoc
    BY <1>1 DEF FloorsThere, NoDoc
  <2>2. QED
    BY <2>1 DEF FloorDoc
<1>3. floorDocs' = [floorDocs EXCEPT ![f] = doc]
  BY <1>1
<1> HIDE DEF doc
<1>4. /\ floorDocs' \in [FloorId -> FloorDoc \cup {NoDoc}] /\ FloorsThere' = FloorsThere
      /\ FloorsThere \subseteq FloorId
      /\ floorDocs'[f] = doc /\ \A g \in FloorId \ {f} : floorDocs'[g] = floorDocs[g]
  BY <1>1, <1>2, <1>3, FloorWritten DEF FloorsThere
<1>5. PrintersThere' = PrintersThere
  BY <1>1 DEF PrintersThere
<1>6. IdsAreNew' /\ LevelsDiffer' /\ (NoneDangling => NoneDangling')
  BY <1>1, <1>2, <1>4, <1>5 DEF IdsAreNew, LevelsDiffer, NoneDangling
<1>7. QED
  BY <1>1, <1>4, <1>6, EditKeeps DEF YamlTyped

-----------------------------------------------------------------------------
(* The import compares.                                                    *)

\* What a step that touches no document keeps.
LEMMA DocsKept ==
    ASSUME YamlInv, UNCHANGED <<printerDocs, floorDocs, nextIds, backup, edits>>, import' \in Import
    PROVE  /\ YamlTyped' /\ IdsAreNew' /\ LevelsDiffer'
           /\ PrintersThere' = PrintersThere /\ FloorsThere' = FloorsThere
           /\ (NoneDangling => NoneDangling') /\ (AsExported => AsExported')
<1>1. YamlTyped /\ IdsAreNew /\ LevelsDiffer
  BY DEF YamlInv
<1>2. PrintersThere' = PrintersThere /\ FloorsThere' = FloorsThere
  BY DEF PrintersThere, FloorsThere
<1>3. YamlTyped'
  BY <1>1 DEF YamlTyped
<1>4. IdsAreNew' /\ LevelsDiffer'
  BY <1>1, <1>2 DEF IdsAreNew, LevelsDiffer
<1>5. (NoneDangling => NoneDangling') /\ (AsExported => AsExported')
  BY <1>2 DEF NoneDangling, AsExported
<1>6. QED
  BY <1>2, <1>3, <1>4, <1>5

LEMMA StartImportKeeps == ASSUME YamlInv, StartImport PROVE YamlInv'
<1>1. /\ WritesFit /\ ImportFits /\ Undisturbed /\ Unedited /\ backup # <<>> /\ import = NoImport
      /\ UNCHANGED <<printerDocs, floorDocs, nextIds, backup, edits>>
  BY DEF YamlInv, StartImport, ImportFits
<1> DEFINE stage == IF backup.config.exportPrinters /\ backup.config.exportFloors THEN "printers" ELSE "failed"
<1>2. import' = [NoImport EXCEPT !.stage = stage] /\ stage \in {"printers", "failed"}
  BY <1>1 DEF StartImport
<1> HIDE DEF stage
<1>3. /\ import' \in Import /\ import'.stage = stage /\ import'.writes = {} /\ import'.created = {}
      /\ import'.putIn = NoImport.putIn /\ import'.undisturbed
      /\ import'.idMap = [p \in PrinterId |-> 0] /\ import'.putIn = [p \in PrinterId |-> 0]
  <2>1. import' \in Import
    BY <1>2, NoImportType DEF Import
  <2>2. QED
    BY <1>2, <2>1 DEF NoImport
<1>4. YamlTyped' /\ IdsAreNew' /\ LevelsDiffer' /\ (NoneDangling => NoneDangling') /\ (AsExported => AsExported')
  BY <1>1, <1>3, DocsKept
<1>5. WritesFit' /\ ImportFits'
  BY <1>1, <1>2, <1>3 DEF WritesFit, ImportFits
<1>6. Undisturbed'
  <2>1. NoneDangling
    BY <1>1 DEF Undisturbed, NoImport
  <2>2. MapFollows'
    BY <1>3 DEF MapFollows, IsThere, PrinterId
  <2>3. QED
    BY <1>2, <1>3, <1>4, <2>1, <2>2 DEF Undisturbed
<1>7. Unedited'
  <2>1. edits = 0 => AsExported'
    BY <1>1, <1>4 DEF Unedited, NoImport
  <2>2. stage = "failed" \/ Restoring'
    BY <1>2, <1>3 DEF Restoring
  <2>3. QED
    BY <1>1, <1>2, <1>3, <2>1, <2>2 DEF Unedited
<1>8. QED
  BY <1>4, <1>5, <1>6, <1>7 DEF YamlInv

LEMMA WritesType ==
    ASSUME NEW what, NEW targets, NEW w \in Writes(what, targets)
    PROVE  /\ w.what = what /\ w.i \in DOMAIN targets /\ w.target = targets[w.i]
           /\ w = [what |-> what, i |-> w.i, target |-> targets[w.i]]
<1>1. PICK i \in DOMAIN targets : w = [what |-> what, i |-> i, target |-> targets[i]]
  BY DEF Writes
<1>2. w.what = what /\ w.i = i /\ w.target = targets[i]
  BY <1>1
<1>3. QED
  BY <1>1, <1>2

LEMMA WritesAll ==
    ASSUME NEW what, NEW targets, NEW i \in DOMAIN targets
    PROVE  \E w \in Writes(what, targets) : w.what = what /\ w.i = i
<1> DEFINE w == [what |-> what, i |-> i, target |-> targets[i]]
<1>1. w \in Writes(what, targets)
  BY DEF Writes
<1>2. w.what = what /\ w.i = i
  OBVIOUS
<1> HIDE DEF w
<1>3. QED
  BY <1>1, <1>2

LEMMA AnalysePrintersKeeps == ASSUME YamlInv, AnalysePrinters PROVE YamlInv'
<1> DEFINE targets == [i \in DOMAIN backup.printers |-> PrinterTarget(backup.printers[i])]
           writes == Writes("printer", targets)
<1>1. /\ WritesFit /\ ImportFits /\ Undisturbed /\ Unedited /\ import.stage = "printers"
      /\ import' = [import EXCEPT !.stage = "floors", !.writes = writes]
      /\ UNCHANGED <<printerDocs, floorDocs, nextIds, backup, edits>>
  BY DEF YamlInv, AnalysePrinters
<1>2. /\ backup # <<>> /\ FileFits(backup) /\ import \in Import
      /\ backup.printers \in Seq(FilePrinter)
      /\ \A i \in DOMAIN backup.printers : backup.printers[i] \in FilePrinter
  BY <1>1, ImportHasFile
<1>3. /\ DOMAIN targets = DOMAIN backup.printers
      /\ \A i \in DOMAIN backup.printers : targets[i] \in {0} \cup PrintersThere
  BY <1>2, PrinterTargetThere
<1> HIDE DEF targets
<1>4. ASSUME NEW w \in writes
      PROVE  /\ w \in Write /\ OfPrinter(w) /\ w.i \in DOMAIN backup.printers
             /\ w.target = targets[w.i]
             /\ IsThere(w.target)
             /\ w = [what |-> "printer", i |-> w.i, target |-> targets[w.i]]
  <2>1. /\ w.what = "printer" /\ w.i \in DOMAIN targets /\ w.target = targets[w.i]
        /\ w = [what |-> "printer", i |-> w.i, target |-> targets[w.i]]
    BY WritesType
  <2>2. w.i \in Nat /\ IsThere(w.target) /\ targets[w.i] \in 0..MaxPrinter
    BY <1>2, <1>3, <2>1, YamlAssumption DEF IsThere, PrintersThere, PrinterId
  <2>3. QED
    BY <1>3, <2>1, <2>2 DEF Write, OfPrinter
<1>5. \A i \in DOMAIN backup.printers : \E w \in writes : w.what = "printer" /\ w.i = i
  BY <1>3, WritesAll
<1> HIDE DEF writes
<1>6. /\ import' \in Import /\ import'.stage = "floors" /\ import'.writes = writes
      /\ import'.created = import.created /\ import'.putIn = import.putIn
      /\ import'.idMap = import.idMap
      /\ import'.undisturbed = import.undisturbed
  BY <1>1, <1>2, <1>4 DEF Import
<1>7. /\ YamlTyped' /\ IdsAreNew' /\ LevelsDiffer' /\ PrintersThere' = PrintersThere
      /\ (NoneDangling => NoneDangling') /\ (AsExported => AsExported')
  BY <1>1, <1>6, DocsKept
<1>8. WritesFit'
  BY <1>1, <1>4, <1>6 DEF WritesFit, OfPrinter
<1>9. ImportFits'
  BY <1>1, <1>2, <1>6 DEF ImportFits
<1>10. Undisturbed'
  <2> SUFFICES ASSUME import'.undisturbed PROVE NoneDangling' /\ MapFollows'
    BY <1>6 DEF Undisturbed
  <2>1. NoneDangling /\ MapFollows
    BY <1>1, <1>6 DEF Undisturbed
  <2>2. ASSUME NEW w \in writes PROVE import.putIn[backup.printers[w.i].id] = 0 /\ w.target \notin import.created
    <3>1. import.putIn = [p \in PrinterId |-> 0] /\ import.created = {}
      BY <1>1 DEF ImportFits, NoImport
    <3>2. backup.printers[w.i].id \in PrinterId
      BY <1>2, <1>4 DEF FilePrinter
    <3>3. QED
      BY <3>1, <3>2
  <2>3. MapFollows'
    BY <1>1, <1>4, <1>6, <1>7, <2>1, <2>2 DEF MapFollows, IsThere
  <2>4. QED
    BY <1>7, <2>1, <2>3
<1>11. Unedited'
  <2> SUFFICES ASSUME edits = 0, Restorable PROVE AsExported' /\ Restoring'
    BY <1>1, <1>6 DEF Unedited, Restorable, Distinct
  <2>1. AsExported
    BY <1>1, <1>2 DEF Unedited
  <2>2. \A i \in DOMAIN backup.printers : targets[i] = backup.printers[i].id
    BY <1>2, <2>1, PrinterTargetItself DEF Restorable, targets
  <2>3. Restoring'
    BY <1>1, <1>4, <1>5, <1>6, <2>2 DEF Restoring, OfPrinter
  <2>4. QED
    BY <1>7, <2>1, <2>3
<1>12. QED
  BY <1>7, <1>8, <1>9, <1>10, <1>11 DEF YamlInv

LEMMA AnalyseFloorsKeeps == ASSUME YamlInv, AnalyseFloors PROVE YamlInv'
<1> DEFINE targets == [i \in DOMAIN backup.floors |-> FloorTarget(backup.floors[i])]
           new == Writes("floor", targets)
           writes == import.writes \cup new
<1>1. /\ WritesFit /\ ImportFits /\ Undisturbed /\ Unedited /\ LevelsDiffer /\ IdsAreNew
      /\ import.stage = "floors"
      /\ import' = [import EXCEPT !.stage = "writing", !.writes = writes, !.floorsIn = targets]
      /\ UNCHANGED <<printerDocs, floorDocs, nextIds, backup, edits>>
      /\ nextIds.floor \in Int /\ nextIds.floor > 0
  BY DEF YamlInv, AnalyseFloors, YamlTyped
<1>2. /\ backup # <<>> /\ FileFits(backup) /\ import \in Import
      /\ backup.floors \in Seq(FileFloor)
      /\ \A i \in DOMAIN backup.floors : backup.floors[i] \in FileFloor
  BY <1>1, ImportHasFile
<1>3. /\ DOMAIN targets = DOMAIN backup.floors
      /\ \A i \in DOMAIN backup.floors : LET f == targets[i]  floor == backup.floors[i] IN
            \/ f = 0
            \/ f \in FloorsThere /\ IF backup.config.floorBy = "id" THEN f = floor.id
                                    ELSE floorDocs[f].level = floor.level
  BY FloorTargetThere
<1> HIDE DEF targets
<1>4. FloorsThere \subseteq 1..MaxFloor /\ MaxFloor \in Nat /\ DOMAIN backup.floors = 1..Len(backup.floors) /\ Len(backup.floors) \in Nat
  BY <1>2, YamlAssumption DEF FloorsThere, FloorId
<1>5. ASSUME NEW i \in DOMAIN backup.floors PROVE targets[i] \in 0..MaxFloor /\ targets[i] < nextIds.floor
  BY <1>1, <1>3, <1>4 DEF IdsAreNew
<1>6. ASSUME NEW w \in new
      PROVE  /\ w \in Write /\ OfFloor(w) /\ ~OfPrinter(w) /\ w.i \in DOMAIN backup.floors
             /\ w.target = targets[w.i]
             /\ w = [what |-> "floor", i |-> w.i, target |-> targets[w.i]]
  <2>1. /\ w.what = "floor" /\ w.i \in DOMAIN targets /\ w.target = targets[w.i]
        /\ w = [what |-> "floor", i |-> w.i, target |-> targets[w.i]]
    BY WritesType
  <2>2. w.i \in Nat /\ targets[w.i] \in 0..MaxFloor
    BY <1>3, <1>4, <1>5, <2>1
  <2>3. QED
    BY <1>3, <2>1, <2>2 DEF Write, OfPrinter, OfFloor
<1>7. \A i \in DOMAIN backup.floors : \E w \in new : w.what = "floor" /\ w.i = i
  BY <1>3, WritesAll
<1> HIDE DEF new
<1>8. \A w \in import.writes : OfPrinter(w) /\ ~OfFloor(w) /\ w \in Write /\ w.what = "printer"
  BY <1>1, <1>2 DEF WritesFit, OfPrinter, OfFloor, Import
<1>9. targets \in Seq(0..MaxFloor)
  <2>1. targets \in [1..Len(backup.floors) -> 0..MaxFloor]
    BY <1>3, <1>4, <1>5 DEF targets
  <2>2. QED
    BY <1>4, <2>1
<1>10. writes \subseteq Write
  BY <1>6, <1>8
<1> HIDE DEF writes
<1>11. /\ import' \in Import /\ import'.stage = "writing" /\ import'.writes = writes
       /\ import'.floorsIn = targets
       /\ import'.created = import.created /\ import'.putIn = import.putIn
       /\ import'.idMap = import.idMap
       /\ import'.undisturbed = import.undisturbed
  BY <1>1, <1>2, <1>9, <1>10 DEF Import
<1>12. /\ YamlTyped' /\ IdsAreNew' /\ LevelsDiffer' /\ PrintersThere' = PrintersThere
       /\ FloorsThere' = FloorsThere
       /\ (NoneDangling => NoneDangling') /\ (AsExported => AsExported')
  BY <1>1, <1>11, DocsKept
<1>13. WritesFit'
  <2>1. ASSUME NEW w \in writes
        PROVE  w.i \in DOMAIN (IF OfPrinter(w) THEN backup.printers ELSE backup.floors)
    BY <1>1, <1>6, <1>8 DEF WritesFit, writes
  <2>2. ASSUME NEW v \in writes, NEW w \in writes, v.what = w.what, v.i = w.i PROVE v = w
    <3>1. CASE v \in new /\ w \in new
      BY <1>6, <2>2, <3>1
    <3>2. CASE v \in import.writes /\ w \in import.writes
      BY <1>1, <2>2, <3>2 DEF WritesFit
    <3>3. QED
      BY <1>6, <1>8, <2>2, <3>1, <3>2 DEF writes, OfPrinter
  <2>3. QED
    BY <1>1, <1>11, <2>1, <2>2 DEF WritesFit, OfPrinter
<1>14. ImportFits'
  BY <1>1, <1>2, <1>11 DEF ImportFits
<1>15. ASSUME NEW i \in DOMAIN backup.floors, NEW j \in DOMAIN backup.floors, targets[i] = targets[j], targets[i] # 0
       PROVE  i = j
  <2>1. CASE backup.config.floorBy = "id"
    BY <1>2, <1>3, <1>15, <2>1 DEF FileFits, TellsApart
  <2>2. CASE backup.config.floorBy # "id"
    BY <1>2, <1>3, <1>15, <2>2 DEF FileFits
  <2>3. QED
    BY <2>1, <2>2
<1>16. Undisturbed'
  <2> SUFFICES ASSUME import'.undisturbed PROVE NoneDangling' /\ MapFollows' /\ FloorsFollow'
    BY DEF Undisturbed
  <2>1. NoneDangling /\ MapFollows
    BY <1>1, <1>11 DEF Undisturbed
  <2>2. \A w \in writes : OfPrinter(w) => w \in import.writes
    BY <1>6 DEF writes
  <2>3. MapFollows'
    BY <1>1, <1>11, <1>12, <2>1, <2>2 DEF MapFollows, IsThere, OfPrinter
  <2>4. \A w \in writes : OfFloor(w) => w \in new
    BY <1>8 DEF writes
  <2>5. \A i \in DOMAIN backup.floors : \E w \in writes : OfFloor(w) /\ w.i = i
    BY <1>7 DEF writes, OfFloor
  <2>6. FloorsFollow'
    BY <1>1, <1>3, <1>5, <1>6, <1>11, <1>15, <2>4, <2>5 DEF FloorsFollow, OfFloor
  <2>7. QED
    BY <1>12, <2>1, <2>3, <2>6
<1>17. Unedited'
  <2> SUFFICES ASSUME edits = 0, Restorable PROVE AsExported' /\ Restoring'
    BY <1>1, <1>11 DEF Unedited, Restorable, Distinct
  <2>1. AsExported /\ Restoring
    BY <1>1, <1>2 DEF Unedited
  <2>2. \A i \in DOMAIN backup.floors : targets[i] = backup.floors[i].id
    BY <1>1, <1>2, <2>1, FloorTargetItself DEF targets
  <2>3. \A w \in writes : w.target = (IF OfPrinter(w) THEN backup.printers ELSE backup.floors)[w.i].id
    BY <1>6, <2>1, <2>2 DEF writes, Restoring
  <2>4. \A i \in DOMAIN backup.printers :
           \/ import.idMap[backup.printers[i].id] = backup.printers[i].id
           \/ \E w \in writes : OfPrinter(w) /\ w.i = i
    BY <1>1, <2>1 DEF writes, Restoring
  <2>5. Restoring'
    BY <1>1, <1>11, <2>3, <2>4 DEF Restoring, OfPrinter
  <2>6. QED
    BY <1>12, <2>1, <2>5
<1>18. QED
  BY <1>12, <1>13, <1>14, <1>16, <1>17 DEF YamlInv

\* There is a floor, and the store is loaded as it is.
LEMMA ImportAnswered ==
    ASSUME YamlInv, import.stage = "writing", import.writes = {}, import' = [import EXCEPT !.stage = "done"],
           UNCHANGED <<printerDocs, floorDocs, nextIds, backup, edits>>
    PROVE  YamlInv'
<1>1. /\ WritesFit /\ ImportFits /\ Undisturbed /\ Unedited /\ import.stage = "writing"
      /\ import.writes = {}
      /\ import' = [import EXCEPT !.stage = "done"]
      /\ UNCHANGED <<printerDocs, floorDocs, nextIds, backup, edits>>
  BY DEF YamlInv
<1>2. backup # <<>> /\ import \in Import
  BY <1>1, ImportHasFile
<1>3. /\ import' \in Import /\ import'.stage = "done" /\ import'.writes = {}
      /\ import'.floorsIn = import.floorsIn
      /\ import'.created = import.created /\ import'.putIn = import.putIn
      /\ import'.idMap = import.idMap
      /\ import'.undisturbed = import.undisturbed
  BY <1>1, <1>2 DEF Import
<1>4. /\ YamlTyped' /\ IdsAreNew' /\ LevelsDiffer' /\ PrintersThere' = PrintersThere
      /\ FloorsThere' = FloorsThere
      /\ (NoneDangling => NoneDangling') /\ (AsExported => AsExported')
  BY <1>1, <1>3, DocsKept
<1>5. WritesFit' /\ ImportFits'
  BY <1>1, <1>2, <1>3 DEF WritesFit, ImportFits
<1>6. Undisturbed'
  <2> SUFFICES ASSUME import'.undisturbed PROVE NoneDangling' /\ MapFollows' /\ FloorsFollow'
    BY DEF Undisturbed
  <2>1. NoneDangling /\ MapFollows /\ FloorsFollow
    BY <1>1, <1>3 DEF Undisturbed
  <2>2. MapFollows'
    BY <1>1, <1>3, <1>4, <2>1 DEF MapFollows, IsThere
  <2>3. FloorsFollow'
    BY <1>1, <1>3, <1>4, <2>1 DEF FloorsFollow
  <2>4. QED
    BY <1>4, <2>1, <2>2, <2>3
<1>7. Unedited'
  <2> SUFFICES ASSUME edits = 0, Restorable PROVE AsExported' /\ Restoring'
    BY <1>1, <1>3 DEF Unedited, Restorable, Distinct
  <2>1. AsExported /\ Restoring
    BY <1>1, <1>2 DEF Unedited
  <2>2. Restoring'
    BY <1>1, <1>3, <2>1 DEF Restoring
  <2>3. QED
    BY <1>4, <2>1, <2>2
<1>8. QED
  BY <1>4, <1>5, <1>6, <1>7 DEF YamlInv

LEMMA ImportDoneKeeps == ASSUME YamlInv, ImportDone PROVE YamlInv'
<1>1. /\ YamlTyped /\ WritesFit /\ ImportFits /\ Undisturbed
      /\ import.stage = "writing" /\ import.writes = {}
      /\ import' = [import EXCEPT !.stage = "done"] /\ StoreLoaded(floorDocs, nextIds)
      /\ UNCHANGED <<printerDocs, backup, edits>>
  BY DEF YamlInv, ImportDone
<1>2. CASE FloorsThere # {}
  <2>1. UNCHANGED <<floorDocs, nextIds>>
    BY <1>1, <1>2 DEF StoreLoaded, FloorsThere
  <2>2. QED
    BY <1>1, <2>1, ImportAnswered
<1>3. CASE FloorsThere = {}
  <2>1. /\ backup # <<>> /\ import \in Import /\ DOMAIN backup.floors # {}
    BY <1>1, ImportHasFile DEF FileFits
  <2>2. /\ import' \in Import /\ import'.stage = "done" /\ import'.writes = {}
        /\ import'.undisturbed = import.undisturbed
    BY <1>1, <2>1 DEF Import
  <2>3. ~import.undisturbed
    BY <1>1, <1>3, <2>1 DEF Undisturbed, FloorsFollow
  <2>4. edits # 0
    BY <1>1, <2>3 DEF ImportFits
  <2>5. /\ floorDocs' \in [FloorId -> FloorDoc \cup {NoDoc}]
        /\ nextIds' \in [printer : 1..(MaxPrinter + 1), floor : 1..(MaxFloor + 1)]
        /\ IdsAreNew' /\ LevelsDiffer'
    BY <1>1, <1>3, DefaultLoaded
  <2>6. YamlTyped'
    BY <1>1, <2>2, <2>5 DEF YamlTyped
  <2>7. WritesFit' /\ ImportFits'
    BY <1>1, <2>1, <2>2, <2>4 DEF WritesFit, ImportFits
  <2>8. Undisturbed' /\ Unedited'
    BY <1>1, <2>2, <2>3, <2>4 DEF Undisturbed, Unedited
  <2>9. QED
    BY <2>5, <2>6, <2>7, <2>8 DEF YamlInv
<1>4. QED
  BY <1>2, <1>3

-----------------------------------------------------------------------------
(* The import writes.                                                      *)

\* A write that is next is one of the file, and a floor is only when no printer is left.
LEMMA NextWrite ==
    ASSUME YamlInv, NEW w \in import.writes, NEW what, NEW new, Writing(w, what, new)
    PROVE  /\ import.stage = "writing" /\ w.what = what /\ w \in Write
           /\ backup # <<>> /\ FileFits(backup) /\ import \in Import
           /\ what = "printer" => w.i \in DOMAIN backup.printers /\ backup.printers[w.i] \in FilePrinter
           /\ what = "floor" => /\ w.i \in DOMAIN backup.floors /\ backup.floors[w.i] \in FileFloor
                                /\ \A v \in import.writes : OfFloor(v) /\ ~OfPrinter(v)
<1>1. import.stage = "writing" /\ w.what = what /\ \A v \in import.writes \ {w} : Before(w, v)
  BY DEF Writing
<1>2. /\ backup # <<>> /\ FileFits(backup) /\ import \in Import
      /\ \A i \in DOMAIN backup.printers : backup.printers[i] \in FilePrinter
      /\ \A i \in DOMAIN backup.floors : backup.floors[i] \in FileFloor
  BY <1>1, ImportHasFile
<1>3. w \in Write /\ w.i \in DOMAIN (IF OfPrinter(w) THEN backup.printers ELSE backup.floors)
  BY <1>2 DEF YamlInv, WritesFit, Import
<1>4. what = "floor" => \A v \in import.writes : OfFloor(v) /\ ~OfPrinter(v)
  BY <1>1 DEF Before, OfFloor, OfPrinter
<1>5. QED
  BY <1>1, <1>2, <1>3, <1>4 DEF OfPrinter

\* A failing import leaves the printers, and of a file with positions also the floors.
LEMMA FailureKeeps ==
    ASSUME YamlInv, import.stage = "writing", NEW docs, ImportFails(docs),
           UNCHANGED <<printerDocs, nextIds, backup, edits>>,
           floorDocs' \in [FloorId -> FloorDoc \cup {NoDoc}],
           IdsAreNew', LevelsDiffer', NoneDangling /\ MapFollows => NoneDangling',
           floorDocs' = floorDocs \/ ~backup.config.exportFloorGrid
    PROVE  YamlInv'
<1>1. /\ YamlTyped /\ WritesFit /\ ImportFits /\ Undisturbed /\ Unedited
      /\ import' = [import EXCEPT !.stage = "failed"] /\ import \in Import /\ backup # <<>>
  BY ImportHasFile DEF YamlInv, ImportFails
<1>2. /\ import' \in Import /\ import'.stage = "failed" /\ import'.writes = import.writes
      /\ import'.created = import.created /\ import'.putIn = import.putIn
      /\ import'.idMap = import.idMap
      /\ import'.undisturbed = import.undisturbed
  BY <1>1 DEF Import
<1>3. YamlTyped'
  BY <1>1, <1>2 DEF YamlTyped
<1>4. WritesFit' /\ ImportFits'
  BY <1>1, <1>2 DEF WritesFit, ImportFits, OfPrinter
<1>5. Undisturbed'
  <2> SUFFICES ASSUME import'.undisturbed PROVE NoneDangling' /\ MapFollows'
    BY <1>2 DEF Undisturbed
  <2>1. NoneDangling /\ MapFollows
    BY <1>1, <1>2 DEF Undisturbed
  <2>2. PrintersThere' = PrintersThere
    BY DEF PrintersThere
  <2>3. MapFollows'
    BY <1>2, <2>1, <2>2 DEF MapFollows, IsThere, OfPrinter
  <2>4. QED
    BY <2>1, <2>3
<1>6. Unedited'
  <2> SUFFICES ASSUME edits = 0, Restorable PROVE AsExported'
    BY <1>2 DEF Unedited, Restorable, Distinct
  <2>1. AsExported
    BY <1>1 DEF Unedited
  <2>2. floorDocs' = floorDocs
    BY DEF Restorable
  <2>3. PrintersThere' = PrintersThere /\ FloorsThere' = FloorsThere
    BY <2>2 DEF PrintersThere, FloorsThere
  <2>4. QED
    BY <2>1, <2>2, <2>3 DEF AsExported
<1>7. QED
  BY <1>3, <1>4, <1>5, <1>6 DEF YamlInv

LEMMA FailureAlone ==
    ASSUME YamlInv, import.stage = "writing", ImportFails(floorDocs),
           UNCHANGED <<printerDocs, nextIds, backup, edits>>
    PROVE  YamlInv'
<1>1. YamlTyped /\ IdsAreNew /\ LevelsDiffer /\ floorDocs' = floorDocs
  BY DEF YamlInv, ImportFails
<1>2. PrintersThere' = PrintersThere /\ FloorsThere' = FloorsThere
  BY <1>1 DEF PrintersThere, FloorsThere
<1>3. IdsAreNew' /\ LevelsDiffer' /\ (NoneDangling => NoneDangling')
  BY <1>1, <1>2 DEF IdsAreNew, LevelsDiffer, NoneDangling
<1>4. QED
  BY <1>1, <1>3, FailureKeeps DEF YamlTyped

\* What the import has after a printer was put into a document.
LEMMA PrinterPutType ==
    ASSUME YamlInv, NEW w \in import.writes, w.i \in DOMAIN backup.printers,
           backup.printers[w.i] \in FilePrinter, import \in Import,
           NEW p \in PrinterId, NEW idMap \in [PrinterId -> 0..MaxPrinter], NEW created \in SUBSET PrinterId,
           PrinterPut(w, p, idMap, created)
    PROVE  /\ printerDocs' \in [PrinterId -> PrinterDoc \cup {NoDoc}]
           /\ printerDocs' = [printerDocs EXCEPT ![p] = PrinterOf(backup.printers[w.i])]
           /\ PrintersThere' = PrintersThere \cup {p}
           /\ import' \in Import /\ import'.stage = import.stage
           /\ import'.writes = import.writes \ {w}
           /\ import'.idMap = idMap
           /\ import'.putIn = [import.putIn EXCEPT ![backup.printers[w.i].id] = p]
           /\ import'.created = import.created \cup created
           /\ import'.floorsIn = import.floorsIn /\ import'.undisturbed = import.undisturbed
<1> DEFINE printer == backup.printers[w.i]
           putIn == [import.putIn EXCEPT ![printer.id] = p]
<1>1. /\ printerDocs' = [printerDocs EXCEPT ![p] = PrinterOf(printer)]
      /\ import' = [import EXCEPT !.writes = @ \ {w}, !.idMap = idMap, !.putIn = putIn,
                                  !.created = @ \cup created]
  BY DEF PrinterPut, PrinterOf
<1>2. PrinterOf(printer) \in PrinterDoc
  BY DEF FilePrinter, PrinterOf, PrinterDoc
<1>3. putIn \in [PrinterId -> 0..MaxPrinter]
  <2>1. p \in 0..MaxPrinter /\ import.putIn \in [PrinterId -> 0..MaxPrinter]
    BY YamlAssumption DEF PrinterId, Import
  <2>2. QED
    BY <2>1
<1> HIDE DEF putIn, printer
<1>4. /\ import' \in Import /\ import'.stage = import.stage /\ import'.writes = import.writes \ {w}
      /\ import'.idMap = idMap /\ import'.putIn = putIn
      /\ import'.created = import.created \cup created
      /\ import'.floorsIn = import.floorsIn /\ import'.undisturbed = import.undisturbed
  BY <1>1, <1>3 DEF Import
<1>5. printerDocs \in [PrinterId -> PrinterDoc \cup {NoDoc}]
  BY DEF YamlInv, YamlTyped
<1>6. /\ printerDocs' \in [PrinterId -> PrinterDoc \cup {NoDoc}]
      /\ PrintersThere' = PrintersThere \cup {p}
  BY <1>1, <1>2, <1>5, PrinterWritten
<1>7. QED
  BY <1>1, <1>4, <1>6 DEF putIn, printer

LEMMA CreatePrinterKeeps ==
    ASSUME YamlInv, NEW w \in import.writes, CreatePrinter(w) PROVE YamlInv'
<1> DEFINE p == nextIds.printer
           id == backup.printers[w.i].id
           idMap == [import.idMap EXCEPT ![id] = p]
<1>1. /\ YamlTyped /\ IdsAreNew /\ LevelsDiffer /\ WritesFit /\ ImportFits /\ Undisturbed
      /\ Unedited
      /\ Writing(w, "printer", TRUE) /\ p \in PrinterId
      /\ PrinterPut(w, p, idMap, {p})
      /\ nextIds' = [nextIds EXCEPT !.printer = @ + 1] /\ UNCHANGED <<floorDocs, backup, edits>>
  BY DEF YamlInv, CreatePrinter, Mapped
<1>2. /\ import.stage = "writing" /\ OfPrinter(w) /\ ~OfFloor(w) /\ w \in Write /\ w.target = 0
      /\ backup # <<>> /\ FileFits(backup) /\ import \in Import
      /\ w.i \in DOMAIN backup.printers /\ backup.printers[w.i] \in FilePrinter
  <2>1. w.target = 0
    BY <1>1 DEF Writing
  <2>2. QED
    BY <1>1, <2>1, NextWrite DEF OfPrinter, OfFloor
<1>3. /\ StartPrinters \in Nat /\ Len(StartFloors) \in Nat /\ MaxPrinter \in Nat
      /\ p \in 1..MaxPrinter
      /\ nextIds \in [printer : 1..(MaxPrinter + 1), floor : 1..(MaxFloor + 1)]
      /\ id \in PrinterId /\ id \in Nat \ {0} /\ id <= StartPrinters
      /\ import.idMap \in [PrinterId -> 0..MaxPrinter]
      /\ import.putIn \in [PrinterId -> 0..MaxPrinter]
  <2>1. /\ StartPrinters \in Nat /\ Len(StartFloors) \in Nat /\ MaxPrinter \in Nat
        /\ p \in 1..MaxPrinter
        /\ nextIds \in [printer : 1..(MaxPrinter + 1), floor : 1..(MaxFloor + 1)]
    BY <1>1, YamlAssumption DEF YamlTyped, PrinterId
  <2>2. id \in PrinterId /\ id <= StartPrinters
    BY <1>2 DEF FilePrinter, FileFits
  <2>3. import.idMap \in [PrinterId -> 0..MaxPrinter] /\ import.putIn \in [PrinterId -> 0..MaxPrinter]
    BY <1>2 DEF Import
  <2> HIDE DEF p, id
  <2>4. id \in Nat \ {0}
    BY <2>1, <2>2 DEF PrinterId
  <2>5. QED
    BY <2>1, <2>2, <2>3, <2>4
<1>4. /\ nextIds' \in [printer : 1..(MaxPrinter + 1), floor : 1..(MaxFloor + 1)]
      /\ nextIds'.printer = p + 1 /\ nextIds'.floor = nextIds.floor
  BY <1>1, <1>3
<1>5. /\ p > StartPrinters /\ p > 0 /\ p # id /\ nextIds.floor > Len(StartFloors)
      /\ \A q \in PrintersThere : q < p /\ q # p
  BY <1>1, <1>3 DEF IdsAreNew, PrintersThere, PrinterId
<1>6. idMap \in [PrinterId -> 0..MaxPrinter] /\ idMap[id] = p
      /\ \A q \in PrinterId \ {id} : idMap[q] = import.idMap[q]
  BY <1>3
<1> HIDE DEF p, id, idMap
<1>7. /\ printerDocs' \in [PrinterId -> PrinterDoc \cup {NoDoc}]
      /\ PrintersThere' = PrintersThere \cup {p}
      /\ import' \in Import /\ import'.stage = import.stage /\ import'.writes = import.writes \ {w}
      /\ import'.idMap = idMap /\ import'.putIn = [import.putIn EXCEPT ![id] = p]
      /\ import'.created = import.created \cup {p}
      /\ import'.floorsIn = import.floorsIn /\ import'.undisturbed = import.undisturbed
  BY <1>1, <1>2, <1>6, PrinterPutType DEF id
<1>8. FloorsThere' = FloorsThere /\ YamlTyped'
  BY <1>1, <1>4, <1>7 DEF FloorsThere, YamlTyped
<1>9. IdsAreNew' /\ LevelsDiffer'
  <2>1. \A q \in PrintersThere : q \in Int
    BY DEF PrintersThere, PrinterId
  <2>2. IdsAreNew'
    BY <1>1, <1>3, <1>4, <1>5, <1>7, <1>8, <2>1 DEF IdsAreNew
  <2>3. LevelsDiffer'
    BY <1>1, <1>8 DEF LevelsDiffer
  <2>4. QED
    BY <2>2, <2>3
<1>10. WritesFit'
  BY <1>1, <1>2, <1>7 DEF WritesFit, OfPrinter
<1>11. ImportFits'
  BY <1>1, <1>2, <1>7 DEF ImportFits
<1>12. Undisturbed'
  <2> SUFFICES ASSUME import'.undisturbed PROVE NoneDangling' /\ MapFollows' /\ FloorsFollow'
    BY DEF Undisturbed
  <2>1. NoneDangling /\ MapFollows /\ FloorsFollow
    BY <1>1, <1>2, <1>7 DEF Undisturbed
  <2>2. NoneDangling'
    BY <1>1, <1>7, <1>8, <2>1 DEF NoneDangling
  <2>3. import'.putIn[id] = p /\ import.putIn[id] = 0 /\ \A q \in PrinterId \ {id} : import'.putIn[q] = import.putIn[q]
    BY <1>2, <1>3, <1>7, <2>1 DEF MapFollows, id
  <2>4. \A q \in import'.created : q \in PrintersThere' /\ q > StartPrinters
    BY <1>5, <1>7, <2>1 DEF MapFollows
  <2>5. \A q \in PrinterId : IsThere(import.idMap[q])' /\ IsThere(import.putIn[q])'
    <3>1. \A q \in PrinterId : IsThere(import.idMap[q]) /\ IsThere(import.putIn[q])
      BY <2>1 DEF MapFollows
    <3>2. QED
      BY <1>6, <1>7, <2>3, <3>1 DEF IsThere
  <2>6. ASSUME NEW q \in PrinterId, import'.putIn[q] = q PROVE import'.idMap[q] = q
    <3>1. q # id
      BY <1>5, <2>3, <2>6
    <3>2. QED
      BY <1>6, <1>7, <2>1, <2>3, <2>6, <3>1 DEF MapFollows
  <2>7. ASSUME NEW q \in PrinterId, import'.putIn[q] \in import'.created
        PROVE  import'.idMap[q] = import'.putIn[q] \/ \E y \in PrinterId : import'.putIn[y] = q
    <3>1. CASE q = id
      BY <1>6, <1>7, <2>3, <3>1
    <3>2. CASE q # id
      <4>1. import.putIn[q] = import'.putIn[q] /\ import.putIn[q] # p
        BY <1>5, <2>1, <2>3, <3>2 DEF MapFollows, IsThere
      <4>2. import.putIn[q] \in import.created
        BY <1>7, <2>7, <4>1
      <4>3. import.idMap[q] = import.putIn[q] \/ \E y \in PrinterId : import.putIn[y] = q
        BY <2>1, <4>2 DEF MapFollows
      <4>4. CASE import.idMap[q] = import.putIn[q]
        BY <1>6, <1>7, <3>2, <4>1, <4>4
      <4>5. CASE \E y \in PrinterId : import.putIn[y] = q
        <5>1. q # 0
          BY YamlAssumption DEF PrinterId
        <5>2. QED
          BY <2>3, <4>5, <5>1
      <4>6. QED
        BY <4>3, <4>4, <4>5
    <3>3. QED
      BY <3>1, <3>2
  <2>8. ASSUME NEW v \in import'.writes, OfPrinter(v)
        PROVE  /\ import'.putIn[backup.printers[v.i].id] = 0
               /\ IsThere(v.target)' /\ v.target \notin import'.created
    <3>1. v \in import.writes /\ v # w
      BY <1>7, <2>8
    <3>2. /\ import.putIn[backup.printers[v.i].id] = 0
          /\ IsThere(v.target) /\ v.target \notin import.created
      BY <2>1, <2>8, <3>1 DEF MapFollows
    <3>3. v.i \in DOMAIN backup.printers /\ v.i # w.i
      BY <1>1, <1>2, <2>8, <3>1 DEF WritesFit, OfPrinter
    <3>4. backup.printers[v.i].id # id /\ backup.printers[v.i].id \in PrinterId
      <4>1. backup.printers[v.i] \in FilePrinter
        BY <1>2, <3>3, FileTyped
      <4>2. QED
        BY <1>2, <3>3, <4>1 DEF FileFits, TellsApart, FilePrinter, id
    <3>5. QED
      BY <1>5, <1>7, <2>3, <3>2, <3>4 DEF IsThere
  <2>9. MapFollows'
    BY <1>1, <2>4, <2>5, <2>6, <2>7, <2>8 DEF MapFollows, OfPrinter
  <2>10. \A i \in DOMAIN backup.floors : \E v \in import'.writes : OfFloor(v) /\ v.i = i
    BY <1>2, <1>7, <2>1 DEF FloorsFollow
  <2>11. FloorsFollow'
    BY <1>1, <1>4, <1>7, <2>1, <2>10 DEF FloorsFollow
  <2>12. QED
    BY <2>2, <2>9, <2>11
<1>13. Unedited'
  <2>1. edits = 0 => ~Restorable
    <3> SUFFICES ASSUME edits = 0, Restorable PROVE FALSE
      OBVIOUS
    <3>1. Restoring
      BY <1>1, <1>2 DEF Unedited
    <3>2. w.target = id
      BY <1>2, <3>1 DEF Restoring, id
    <3>3. QED
      BY <1>2, <1>3, <3>2 DEF id
  <2>2. QED
    BY <1>1, <1>2, <1>7, <2>1 DEF Unedited, Restorable, Distinct
<1>14. QED
  BY <1>8, <1>9, <1>10, <1>11, <1>12, <1>13 DEF YamlInv

\* A printer of a restoring import is put where it is already.
LEMMA UpdatePrinterKeeps ==
    ASSUME YamlInv, NEW w \in import.writes, UpdatePrinter(w) PROVE YamlInv'
<1> DEFINE p == w.target
           id == backup.printers[w.i].id
           idMap == [import.idMap EXCEPT ![p] = p]
<1>1. /\ YamlTyped /\ IdsAreNew /\ LevelsDiffer /\ WritesFit /\ ImportFits /\ Undisturbed
      /\ Unedited
      /\ Writing(w, "printer", FALSE) /\ UNCHANGED <<nextIds, backup, edits>>
      /\ \/ p \in PrintersThere /\ PrinterPut(w, p, idMap, {}) /\ UNCHANGED floorDocs
         \/ p \notin PrintersThere /\ ImportFails(floorDocs) /\ UNCHANGED printerDocs
  BY DEF YamlInv, UpdatePrinter, MappedUpdate
<1>2. /\ import.stage = "writing" /\ OfPrinter(w) /\ ~OfFloor(w) /\ w \in Write /\ p # 0
      /\ backup # <<>> /\ FileFits(backup) /\ import \in Import
      /\ w.i \in DOMAIN backup.printers /\ backup.printers[w.i] \in FilePrinter
  <2>1. w.target # 0
    BY <1>1 DEF Writing
  <2>2. QED
    BY <1>1, <2>1, NextWrite DEF OfPrinter, OfFloor
<1>3. ASSUME p \notin PrintersThere, ImportFails(floorDocs), UNCHANGED printerDocs PROVE YamlInv'
  BY <1>1, <1>2, <1>3, FailureAlone
<1>4. ASSUME p \in PrintersThere, PrinterPut(w, p, idMap, {}), UNCHANGED floorDocs PROVE YamlInv'
  <2>1. /\ p \in PrinterId /\ id \in PrinterId /\ p \in 0..MaxPrinter
        /\ import.idMap \in [PrinterId -> 0..MaxPrinter]
        /\ import.putIn \in [PrinterId -> 0..MaxPrinter]
    BY <1>2, <1>4, YamlAssumption DEF PrintersThere, PrinterId, FilePrinter, Import
  <2>2. /\ idMap \in [PrinterId -> 0..MaxPrinter] /\ idMap[p] = p
        /\ \A q \in PrinterId \ {p} : idMap[q] = import.idMap[q]
    BY <2>1
  <2>3. /\ 0 \notin PrinterId
        /\ \A q \in PrintersThere : q # 0
    BY YamlAssumption DEF PrinterId, PrintersThere
  <2> HIDE DEF p, id, idMap
  <2>4. /\ printerDocs' \in [PrinterId -> PrinterDoc \cup {NoDoc}]
        /\ printerDocs' = [printerDocs EXCEPT ![p] = PrinterOf(backup.printers[w.i])]
        /\ PrintersThere' = PrintersThere \cup {p}
        /\ import' \in Import /\ import'.stage = import.stage
        /\ import'.writes = import.writes \ {w}
        /\ import'.idMap = idMap /\ import'.putIn = [import.putIn EXCEPT ![id] = p]
        /\ import'.created = import.created \cup {}
        /\ import'.floorsIn = import.floorsIn /\ import'.undisturbed = import.undisturbed
    <3> DEFINE none == {}
    <3>1. none \in SUBSET PrinterId /\ PrinterPut(w, p, idMap, none)
      BY <1>4
    <3> HIDE DEF none
    <3>2. /\ printerDocs' \in [PrinterId -> PrinterDoc \cup {NoDoc}]
          /\ printerDocs' = [printerDocs EXCEPT ![p] = PrinterOf(backup.printers[w.i])]
          /\ PrintersThere' = PrintersThere \cup {p}
          /\ import' \in Import /\ import'.stage = import.stage
          /\ import'.writes = import.writes \ {w}
          /\ import'.idMap = idMap /\ import'.putIn = [import.putIn EXCEPT ![id] = p]
          /\ import'.created = import.created \cup none
          /\ import'.floorsIn = import.floorsIn /\ import'.undisturbed = import.undisturbed
      BY <1>2, <2>1, <2>2, <3>1, PrinterPutType DEF id
    <3>3. QED
      BY <3>2 DEF none
  <2>5. PrintersThere' = PrintersThere /\ import'.created = import.created
    BY <1>4, <2>4
  <2>6. FloorsThere' = FloorsThere /\ YamlTyped'
    BY <1>1, <1>4, <2>4 DEF FloorsThere, YamlTyped
  <2>7. IdsAreNew' /\ LevelsDiffer'
    BY <1>1, <1>4, <2>5, <2>6 DEF IdsAreNew, LevelsDiffer
  <2>8. WritesFit' /\ ImportFits'
    BY <1>1, <1>2, <2>4 DEF WritesFit, ImportFits, OfPrinter
  <2>9. Undisturbed'
    <3> SUFFICES ASSUME import'.undisturbed PROVE NoneDangling' /\ MapFollows' /\ FloorsFollow'
      BY DEF Undisturbed
    <3>1. NoneDangling /\ MapFollows /\ FloorsFollow
      BY <1>1, <1>2, <2>4 DEF Undisturbed
    <3>2. NoneDangling'
      BY <1>4, <2>5, <2>6, <3>1 DEF NoneDangling
    <3>3. import'.putIn[id] = p /\ import.putIn[id] = 0 /\ \A q \in PrinterId \ {id} : import'.putIn[q] = import.putIn[q]
      BY <1>2, <2>1, <2>4, <3>1 DEF MapFollows, id
    <3>4. \A q \in import'.created : q \in PrintersThere' /\ q > StartPrinters
      BY <2>5, <3>1 DEF MapFollows
    <3>5. \A q \in PrinterId : IsThere(import.idMap[q])' /\ IsThere(import.putIn[q])'
      <4>1. \A q \in PrinterId : IsThere(import.idMap[q]) /\ IsThere(import.putIn[q])
        BY <3>1 DEF MapFollows
      <4>2. QED
        BY <1>4, <2>2, <2>4, <2>5, <3>3, <4>1 DEF IsThere
    <3>6. ASSUME NEW q \in PrinterId, import'.putIn[q] = q PROVE import'.idMap[q] = q
      <4>1. CASE q = p
        BY <2>2, <2>4, <4>1
      <4>2. CASE q # p
        <5>1. q # id
          BY <3>3, <3>6, <4>2
        <5>2. import.idMap[q] = q
          BY <3>1, <3>3, <3>6, <5>1 DEF MapFollows
        <5>3. QED
          BY <2>2, <2>4, <4>2, <5>2
      <4>3. QED
        BY <4>1, <4>2
    <3>7. p \notin import.created
      BY <1>2, <3>1 DEF MapFollows, p
    <3>8. ASSUME NEW q \in PrinterId, import'.putIn[q] \in import'.created
          PROVE  import'.idMap[q] = import'.putIn[q] \/ \E y \in PrinterId : import'.putIn[y] = q
      <4>1. q # id
        BY <2>5, <3>3, <3>7, <3>8
      <4>2. import.putIn[q] = import'.putIn[q] /\ import.putIn[q] \in import.created
        BY <2>5, <3>3, <3>8, <4>1
      <4>3. import.idMap[q] = import.putIn[q] \/ \E y \in PrinterId : import.putIn[y] = q
        BY <3>1, <4>2 DEF MapFollows
      <4>4. CASE q = p
        BY <2>1, <3>3, <4>4
      <4>5. CASE q # p /\ import.idMap[q] = import.putIn[q]
        BY <2>2, <2>4, <4>2, <4>5
      <4>6. CASE \E y \in PrinterId : import.putIn[y] = q
        BY <2>3, <3>3, <4>6
      <4>7. QED
        BY <4>3, <4>4, <4>5, <4>6
    <3>9. ASSUME NEW v \in import'.writes, OfPrinter(v)
          PROVE  /\ import'.putIn[backup.printers[v.i].id] = 0
                 /\ IsThere(v.target)' /\ v.target \notin import'.created
      <4>1. v \in import.writes /\ v # w
        BY <2>4, <3>9
      <4>2. /\ import.putIn[backup.printers[v.i].id] = 0
            /\ IsThere(v.target) /\ v.target \notin import.created
        BY <3>1, <3>9, <4>1 DEF MapFollows
      <4>3. v.i \in DOMAIN backup.printers /\ v.i # w.i
        BY <1>1, <1>2, <3>9, <4>1 DEF WritesFit, OfPrinter
      <4>4. backup.printers[v.i].id # id /\ backup.printers[v.i].id \in PrinterId
        <5>1. backup.printers[v.i] \in FilePrinter
          BY <1>2, <4>3, FileTyped
        <5>2. QED
          BY <1>2, <4>3, <5>1 DEF FileFits, TellsApart, FilePrinter, id
      <4>5. QED
        BY <2>5, <3>3, <4>2, <4>4 DEF IsThere
    <3>10. MapFollows'
      BY <1>1, <3>4, <3>5, <3>6, <3>8, <3>9 DEF MapFollows, OfPrinter
    <3>11. \A i \in DOMAIN backup.floors : \E v \in import'.writes : OfFloor(v) /\ v.i = i
      BY <1>2, <2>4, <3>1 DEF FloorsFollow
    <3>12. FloorsFollow'
      BY <1>1, <2>4, <3>1, <3>11 DEF FloorsFollow
    <3>13. QED
      BY <3>2, <3>10, <3>12
  <2>10. Unedited'
    <3> SUFFICES ASSUME edits = 0, Restorable PROVE AsExported' /\ Restoring'
      BY <1>1, <1>2, <2>4 DEF Unedited, Restorable, Distinct
    <3>1. AsExported /\ Restoring
      BY <1>1, <1>2 DEF Unedited
    <3>2. p = id
      BY <1>2, <3>1 DEF Restoring, p, id
    <3>3. printerDocs' = printerDocs
      <4>1. printerDocs[p] = PrinterOf(backup.printers[w.i])
        BY <1>2, <3>1, <3>2 DEF AsExported, id
      <4>2. QED
        BY <1>1, <2>1, <2>4, <4>1 DEF YamlTyped
    <3>4. AsExported'
      BY <1>1, <1>4, <2>5, <2>6, <3>1, <3>3 DEF AsExported
    <3>5. \A v \in import'.writes :
             v.target = (IF OfPrinter(v) THEN backup.printers ELSE backup.floors)[v.i].id
      BY <2>4, <3>1 DEF Restoring
    <3>6. ASSUME NEW i \in DOMAIN backup.printers
          PROVE  \/ idMap[backup.printers[i].id] = backup.printers[i].id
                 \/ \E v \in import'.writes : OfPrinter(v) /\ v.i = i
      <4>1. CASE i = w.i
        BY <2>2, <3>2, <4>1 DEF id
      <4>2. CASE i # w.i
        <5>1. backup.printers[i].id \in PrinterId
          BY <1>2, FileTyped DEF FilePrinter
        <5>2. \/ import.idMap[backup.printers[i].id] = backup.printers[i].id
              \/ \E v \in import.writes : OfPrinter(v) /\ v.i = i
          BY <1>2, <3>1 DEF Restoring
        <5>3. CASE import.idMap[backup.printers[i].id] = backup.printers[i].id
          BY <2>2, <5>1, <5>3
        <5>4. CASE \E v \in import.writes : OfPrinter(v) /\ v.i = i
          BY <2>4, <4>2, <5>4
        <5>5. QED
          BY <5>2, <5>3, <5>4
      <4>3. QED
        BY <4>1, <4>2
    <3>7. Restoring'
      BY <1>1, <2>4, <3>5, <3>6 DEF Restoring, OfPrinter
    <3>8. QED
      BY <3>4, <3>7
  <2>11. QED
    BY <2>6, <2>7, <2>8, <2>9, <2>10 DEF YamlInv
<1>5. QED
  BY <1>1, <1>3, <1>4

\* The positions a floor is given are of printers that are there.
LEMMA TranslatedType ==
    ASSUME YamlTyped, import.idMap \in [PrinterId -> 0..MaxPrinter], NEW places \in SUBSET (PrinterId \X Place)
    PROVE  /\ Translated(import.idMap, places) \in SUBSET (PrinterId \X Place)
           /\ (\A p \in PrinterId : IsThere(import.idMap[p])) =>
                 \A pos \in Translated(import.idMap, places) : pos[1] \in PrintersThere
<1>1. ASSUME NEW pos \in Translated(import.idMap, places)
      PROVE  \E q \in places : /\ pos = <<import.idMap[q[1]], q[2]>> /\ import.idMap[q[1]] # 0
                               /\ q[1] \in PrinterId /\ q[2] \in Place
  BY DEF Translated
<1>2. ASSUME NEW pos \in Translated(import.idMap, places)
      PROVE  /\ pos \in PrinterId \X Place
             /\ (\A p \in PrinterId : IsThere(import.idMap[p])) => pos[1] \in PrintersThere
  <2>1. PICK q \in places : /\ pos = <<import.idMap[q[1]], q[2]>> /\ import.idMap[q[1]] # 0
                            /\ q[1] \in PrinterId /\ q[2] \in Place
    BY <1>1
  <2>2. import.idMap[q[1]] \in PrinterId
    <3>1. import.idMap[q[1]] \in 0..MaxPrinter
      BY <2>1
    <3>2. QED
      BY <2>1, <3>1, YamlAssumption DEF PrinterId
  <2>3. QED
    BY <2>1, <2>2 DEF IsThere
<1>3. QED
  BY <1>2

\* What the documents keep when a floor of the file is put into one, no other having its level.
LEMMA FloorPutKeeps ==
    ASSUME YamlInv, import \in Import, NEW f \in FloorId, NEW floor \in FileFloor, ~LevelTaken(floor.level, f),
           floorDocs' = FloorPut(f, floor), UNCHANGED printerDocs
    PROVE  /\ floorDocs' \in [FloorId -> FloorDoc \cup {NoDoc}]
           /\ FloorsThere' = FloorsThere \cup {f} /\ LevelsDiffer'
           /\ floorDocs'[f] = NewFloor(floor.level, Translated(import.idMap, floor.places))
           /\ floorDocs'[f].level = floor.level
           /\ floorDocs'[f].places = Translated(import.idMap, floor.places)
           /\ \A g \in FloorId \ {f} : floorDocs'[g] = floorDocs[g]
           /\ PrintersThere' = PrintersThere
           /\ NoneDangling /\ MapFollows => NoneDangling'
<1> DEFINE places == Translated(import.idMap, floor.places)
           doc == NewFloor(floor.level, places)
<1>1. /\ YamlTyped /\ LevelsDiffer /\ import.idMap \in [PrinterId -> 0..MaxPrinter]
      /\ floor.level \in Level /\ floor.places \in SUBSET (PrinterId \X Place)
  BY DEF YamlInv, Import, FileFloor
<1>2. /\ places \in SUBSET (PrinterId \X Place)
      /\ (\A p \in PrinterId : IsThere(import.idMap[p])) => \A pos \in places : pos[1] \in PrintersThere
  BY <1>1, TranslatedType
<1> HIDE DEF places
<1>3. doc \in FloorDoc /\ doc.level = floor.level /\ doc.places = places
  BY <1>1, <1>2, NewFloorType
<1>4. floorDocs' = [floorDocs EXCEPT ![f] = doc]
  BY DEF FloorPut, places
<1>5. doc = NewFloor(floor.level, Translated(import.idMap, floor.places))
  BY DEF places
<1> HIDE DEF doc
<1>6. /\ floorDocs' \in [FloorId -> FloorDoc \cup {NoDoc}]
      /\ FloorsThere' = FloorsThere \cup {f} /\ floorDocs'[f] = doc
      /\ \A g \in FloorId \ {f} : floorDocs'[g] = floorDocs[g]
  BY <1>1, <1>3, <1>4, FloorWritten
<1>7. PrintersThere' = PrintersThere
  BY DEF PrintersThere
<1>8. LevelsDiffer'
  <2>1. \A g \in FloorsThere \ {f} : g \in FloorId /\ floorDocs[g].level # floor.level
    BY DEF LevelTaken, FloorsThere
  <2>2. QED
    BY <1>1, <1>3, <1>6, <2>1 DEF LevelsDiffer
<1>9. NoneDangling /\ MapFollows => NoneDangling'
  <2> SUFFICES ASSUME NoneDangling, MapFollows PROVE NoneDangling'
    OBVIOUS
  <2>1. \A pos \in places : pos[1] \in PrintersThere
    BY <1>2 DEF MapFollows
  <2>2. FloorsThere \subseteq FloorId
    BY DEF FloorsThere
  <2>3. QED
    BY <1>3, <1>6, <1>7, <2>1, <2>2 DEF NoneDangling
<1>10. QED
  BY <1>3, <1>5, <1>6, <1>7, <1>8, <1>9 DEF places

\* The floors of the file that are written, after one more is.
LEMMA FloorsStillFollow ==
    ASSUME YamlInv, import.stage = "writing", NoneDangling, MapFollows, FloorsFollow, backup' = backup, import \in Import,
           NEW w \in import.writes, w.i \in DOMAIN backup.floors, OfFloor(w),
           \A v \in import.writes : OfFloor(v) /\ ~OfPrinter(v),
           NEW f \in FloorId, FloorsThere' = FloorsThere \cup {f}, nextIds'.floor \in Int, f < nextIds'.floor,
           nextIds.floor \in Int, nextIds'.floor >= nextIds.floor,
           floorDocs'[f].places = Translated(import.idMap, backup.floors[w.i].places),
           \A g \in FloorId \ {f} : floorDocs'[g] = floorDocs[g],
           PrintersThere' = PrintersThere,
           import'.writes = import.writes \ {w}, import'.floorsIn = [import.floorsIn EXCEPT ![w.i] = f],
           import'.created = import.created, import'.putIn = import.putIn, import'.idMap = import.idMap,
           \A i \in DOMAIN backup.floors : i # w.i => import.floorsIn[i] # f
    PROVE  MapFollows' /\ FloorsFollow'
<1>1. MapFollows'
  BY DEF MapFollows, IsThere, OfPrinter
<1>2. /\ import'.floorsIn[w.i] = f /\ DOMAIN import'.floorsIn = DOMAIN backup.floors
      /\ \A i \in DOMAIN backup.floors : i # w.i => import'.floorsIn[i] = import.floorsIn[i]
  BY DEF FloorsFollow
<1>3. \A i, j \in DOMAIN backup.floors :
         import'.floorsIn[i] = import'.floorsIn[j] /\ import'.floorsIn[i] # 0 => i = j
  BY <1>2 DEF FloorsFollow
<1>4. \A i \in DOMAIN backup.floors : import'.floorsIn[i] < nextIds'.floor
  <2>1. \A i \in DOMAIN backup.floors : import.floorsIn[i] \in Int /\ import.floorsIn[i] < nextIds.floor
    <3>1. import.floorsIn \in Seq(0..MaxFloor)
      BY DEF Import
    <3>2. \A i \in DOMAIN import.floorsIn : import.floorsIn[i] \in 0..MaxFloor
      BY <3>1, Listed
    <3>3. QED
      BY <3>2, YamlAssumption DEF FloorsFollow
  <2>2. QED
    BY <1>2, <2>1
<1>5. ASSUME NEW v \in import'.writes PROVE OfFloor(v) /\ v.i # w.i /\ import'.floorsIn[v.i] = v.target
  <2>1. v \in import.writes /\ v # w
    OBVIOUS
  <2>2. v.i \in DOMAIN backup.floors /\ v.i # w.i
    BY <2>1 DEF YamlInv, WritesFit, OfFloor, OfPrinter
  <2>3. QED
    BY <1>2, <2>1, <2>2 DEF FloorsFollow
<1>6. ASSUME NEW i \in DOMAIN backup.floors
      PROVE  \/ \E v \in import'.writes : OfFloor(v) /\ v.i = i
             \/ /\ import'.floorsIn[i] \in FloorsThere'
                /\ floorDocs'[import'.floorsIn[i]].places = Translated(import'.idMap, backup.floors[i].places)
  <2>1. CASE i = w.i
    BY <1>2, <2>1
  <2>2. CASE i # w.i
    <3>1. \/ \E v \in import.writes : OfFloor(v) /\ v.i = i
          \/ /\ import.floorsIn[i] \in FloorsThere
             /\ floorDocs[import.floorsIn[i]].places = Translated(import.idMap, backup.floors[i].places)
      BY DEF FloorsFollow
    <3>2. CASE \E v \in import.writes : OfFloor(v) /\ v.i = i
      BY <2>2, <3>2
    <3>3. ASSUME import.floorsIn[i] \in FloorsThere,
                 floorDocs[import.floorsIn[i]].places = Translated(import.idMap, backup.floors[i].places)
          PROVE  /\ import'.floorsIn[i] \in FloorsThere'
                 /\ floorDocs'[import'.floorsIn[i]].places = Translated(import'.idMap, backup.floors[i].places)
      <4>1. import'.floorsIn[i] = import.floorsIn[i] /\ import.floorsIn[i] \in FloorId \ {f}
        BY <1>2, <2>2, <3>3 DEF FloorsThere
      <4>2. QED
        BY <3>3, <4>1
    <3>4. QED
      BY <3>1, <3>2, <3>3
  <2>3. QED
    BY <2>1, <2>2
<1>7. FloorsFollow'
  BY <1>2, <1>3, <1>4, <1>5, <1>6 DEF FloorsFollow
<1>8. QED
  BY <1>1, <1>7

LEMMA CreateFloorKeeps ==
    ASSUME YamlInv, NEW w \in import.writes, CreateFloor(w) PROVE YamlInv'
<1> DEFINE floor == backup.floors[w.i]
           f == nextIds.floor
           floorsIn == [import.floorsIn EXCEPT ![w.i] = f]
<1>1. /\ YamlTyped /\ IdsAreNew /\ LevelsDiffer /\ WritesFit /\ ImportFits /\ Undisturbed
      /\ Unedited
      /\ Writing(w, "floor", TRUE) /\ f \in FloorId /\ UNCHANGED <<printerDocs, backup, edits>>
      /\ \/ ImportFails(floorDocs) /\ UNCHANGED nextIds
         \/ /\ ~LevelTaken(floor.level, f) /\ floorDocs' = FloorPut(f, floor)
            /\ nextIds' = [nextIds EXCEPT !.floor = @ + 1]
            /\ import' = [import EXCEPT !.writes = @ \ {w}, !.floorsIn = floorsIn]
  BY DEF YamlInv, CreateFloor
<1>2. /\ import.stage = "writing" /\ OfFloor(w) /\ w \in Write /\ w.target = 0
      /\ backup # <<>> /\ FileFits(backup) /\ import \in Import
      /\ w.i \in DOMAIN backup.floors /\ floor \in FileFloor
      /\ \A v \in import.writes : OfFloor(v) /\ ~OfPrinter(v)
  <2>1. w.target = 0
    BY <1>1 DEF Writing
  <2>2. QED
    BY <1>1, <2>1, NextWrite DEF OfFloor
<1>3. ASSUME ImportFails(floorDocs), UNCHANGED nextIds PROVE YamlInv'
  BY <1>1, <1>2, <1>3, FailureAlone
<1>4. ASSUME ~LevelTaken(floor.level, f), floorDocs' = FloorPut(f, floor),
             nextIds' = [nextIds EXCEPT !.floor = @ + 1],
             import' = [import EXCEPT !.writes = @ \ {w}, !.floorsIn = floorsIn]
      PROVE  YamlInv'
  <2>1. /\ nextIds \in [printer : 1..(MaxPrinter + 1), floor : 1..(MaxFloor + 1)]
        /\ Len(StartFloors) \in Nat /\ MaxFloor \in Nat /\ f \in 1..MaxFloor /\ f \in 0..MaxFloor
    BY <1>1, YamlAssumption DEF YamlTyped, FloorId
  <2>2. /\ nextIds' \in [printer : 1..(MaxPrinter + 1), floor : 1..(MaxFloor + 1)]
        /\ nextIds'.printer = nextIds.printer /\ nextIds'.floor = f + 1 /\ nextIds'.floor \in Int
        /\ f < nextIds'.floor /\ f \in Int /\ nextIds'.floor >= f
    BY <1>4, <2>1
  <2>3. f > Len(StartFloors) /\ \A g \in FloorsThere : g \in Int /\ g < f
    BY <1>1 DEF IdsAreNew, FloorsThere, FloorId
  <2>4. floorsIn \in Seq(0..MaxFloor)
    <3>1. import.floorsIn \in Seq(0..MaxFloor)
      BY <1>2 DEF Import
    <3> HIDE DEF f
    <3>2. QED
      BY <2>1, <3>1, Replaced
  <2>5. f = nextIds.floor
    OBVIOUS
  <2> HIDE DEF f, floorsIn, floor
  <2>6. /\ import' \in Import /\ import'.stage = import.stage
        /\ import'.writes = import.writes \ {w}
        /\ import'.floorsIn = floorsIn /\ import'.undisturbed = import.undisturbed
        /\ import'.created = import.created /\ import'.putIn = import.putIn
        /\ import'.idMap = import.idMap
    BY <1>2, <1>4, <2>4 DEF Import
  <2>7. /\ floorDocs' \in [FloorId -> FloorDoc \cup {NoDoc}]
        /\ FloorsThere' = FloorsThere \cup {f} /\ LevelsDiffer'
        /\ floorDocs'[f].places = Translated(import.idMap, floor.places)
        /\ \A g \in FloorId \ {f} : floorDocs'[g] = floorDocs[g]
        /\ PrintersThere' = PrintersThere
        /\ NoneDangling /\ MapFollows => NoneDangling'
    BY <1>1, <1>2, <1>4, FloorPutKeeps
  <2>8. YamlTyped'
    BY <1>1, <2>2, <2>6, <2>7 DEF YamlTyped
  <2>9. IdsAreNew'
    BY <1>1, <2>1, <2>2, <2>3, <2>5, <2>7 DEF IdsAreNew
  <2>10. WritesFit' /\ ImportFits'
    BY <1>1, <1>2, <2>6 DEF WritesFit, ImportFits, OfPrinter
  <2>11. Undisturbed'
    <3> SUFFICES ASSUME import'.undisturbed PROVE NoneDangling' /\ MapFollows' /\ FloorsFollow'
      BY DEF Undisturbed
    <3>1. NoneDangling /\ MapFollows /\ FloorsFollow
      BY <1>1, <1>2, <2>6 DEF Undisturbed
    <3>2. \A i \in DOMAIN backup.floors : i # w.i => import.floorsIn[i] # f
      <4>1. import.floorsIn \in Seq(0..MaxFloor) /\ DOMAIN import.floorsIn = DOMAIN backup.floors
        BY <1>2, <3>1 DEF Import, FloorsFollow
      <4>2. \A i \in DOMAIN backup.floors : import.floorsIn[i] \in Int /\ import.floorsIn[i] < f
        BY <2>1, <2>5, <3>1, <4>1, Listed DEF FloorsFollow
      <4>3. QED
        BY <4>2
    <3>3. MapFollows' /\ FloorsFollow'
      BY <1>1, <1>2, <2>1, <2>2, <2>5, <2>6, <2>7, <3>1, <3>2, FloorsStillFollow DEF floorsIn, floor
    <3>4. QED
      BY <2>7, <3>1, <3>3
  <2>12. Unedited'
    <3>1. edits = 0 => ~Restorable
      <4> SUFFICES ASSUME edits = 0, Restorable PROVE FALSE
        OBVIOUS
      <4>1. Restoring
        BY <1>1, <1>2 DEF Unedited
      <4>2. w.target = floor.id
        BY <1>2, <4>1 DEF Restoring, floor
      <4>3. QED
        BY <1>2, <2>1, <4>2 DEF FileFloor, FloorId
    <3>2. QED
      BY <1>1, <1>2, <2>6, <3>1 DEF Unedited, Restorable, Distinct
  <2>13. QED
    BY <2>7, <2>8, <2>9, <2>10, <2>11, <2>12 DEF YamlInv
<1>5. QED
  BY <1>1, <1>3, <1>4

\* A file with positions that is restored has its floors where they are already: every
\* printer on them is mapped to itself.
LEMMA TranslatedItself ==
    ASSUME NEW idMap, NEW places \in SUBSET (PrinterId \X Place),
           \A pos \in places : idMap[pos[1]] = pos[1]
    PROVE  Translated(idMap, places) = places
<1>1. \A pos \in places : pos[1] \in PrinterId /\ pos[1] # 0 /\ pos = <<pos[1], pos[2]>>
  BY YamlAssumption DEF PrinterId
<1>2. \A pos \in places : <<idMap[pos[1]], pos[2]>> = pos /\ idMap[pos[1]] # 0
  BY <1>1
<1>3. QED
  BY <1>2 DEF Translated

LEMMA UpdateFloorKeeps ==
    ASSUME YamlInv, NEW w \in import.writes, UpdateFloor(w) PROVE YamlInv'
<1> DEFINE floor == backup.floors[w.i]
           f == w.target
<1>1. /\ YamlTyped /\ IdsAreNew /\ LevelsDiffer /\ WritesFit /\ ImportFits /\ Undisturbed
      /\ Unedited
      /\ Writing(w, "floor", FALSE) /\ UNCHANGED <<printerDocs, nextIds, backup, edits>>
      /\ \/ ImportFails(floorDocs)
         \/ /\ f \in FloorsThere /\ ~LevelTaken(floor.level, f)
            /\ \/ ~backup.config.exportFloorGrid /\ ImportFails(FloorPut(f, floor))
               \/ floorDocs' = FloorPut(f, floor) /\ import' = [import EXCEPT !.writes = @ \ {w}]
  BY DEF YamlInv, UpdateFloor
<1>2. /\ import.stage = "writing" /\ OfFloor(w) /\ w \in Write /\ f # 0
      /\ backup # <<>> /\ FileFits(backup) /\ import \in Import
      /\ w.i \in DOMAIN backup.floors /\ floor \in FileFloor
      /\ \A v \in import.writes : OfFloor(v) /\ ~OfPrinter(v)
  <2>1. w.target # 0
    BY <1>1 DEF Writing
  <2>2. QED
    BY <1>1, <2>1, NextWrite DEF OfFloor
<1>3. ASSUME ImportFails(floorDocs) PROVE YamlInv'
  BY <1>1, <1>2, <1>3, FailureAlone
<1>4. ASSUME f \in FloorsThere, ~LevelTaken(floor.level, f), floorDocs' = FloorPut(f, floor)
      PROVE  /\ f \in FloorId /\ floorDocs' \in [FloorId -> FloorDoc \cup {NoDoc}]
             /\ FloorsThere' = FloorsThere /\ LevelsDiffer' /\ IdsAreNew'
             /\ floorDocs'[f] = NewFloor(floor.level, Translated(import.idMap, floor.places))
             /\ floorDocs'[f].places = Translated(import.idMap, floor.places)
             /\ \A g \in FloorId \ {f} : floorDocs'[g] = floorDocs[g]
             /\ PrintersThere' = PrintersThere
             /\ NoneDangling /\ MapFollows => NoneDangling'
  <2>1. f \in FloorId
    BY <1>4 DEF FloorsThere
  <2> HIDE DEF f, floor
  <2>2. /\ floorDocs' \in [FloorId -> FloorDoc \cup {NoDoc}]
        /\ FloorsThere' = FloorsThere \cup {f} /\ LevelsDiffer'
        /\ floorDocs'[f] = NewFloor(floor.level, Translated(import.idMap, floor.places))
        /\ floorDocs'[f].places = Translated(import.idMap, floor.places)
        /\ \A g \in FloorId \ {f} : floorDocs'[g] = floorDocs[g]
        /\ PrintersThere' = PrintersThere
        /\ NoneDangling /\ MapFollows => NoneDangling'
    BY <1>1, <1>2, <1>4, <2>1, FloorPutKeeps
  <2>3. FloorsThere' = FloorsThere
    BY <1>4, <2>2
  <2>4. IdsAreNew'
    BY <1>1, <2>2, <2>3 DEF IdsAreNew
  <2>5. QED
    BY <2>1, <2>2, <2>3, <2>4
<1>5. ASSUME f \in FloorsThere, ~LevelTaken(floor.level, f), ~backup.config.exportFloorGrid,
             ImportFails(FloorPut(f, floor))
      PROVE  YamlInv'
  <2>1. floorDocs' = FloorPut(f, floor)
    BY <1>5 DEF ImportFails
  <2>2. /\ floorDocs' \in [FloorId -> FloorDoc \cup {NoDoc}] /\ LevelsDiffer' /\ IdsAreNew'
        /\ NoneDangling /\ MapFollows => NoneDangling'
    BY <1>4, <1>5, <2>1
  <2> HIDE DEF f, floor
  <2>3. QED
    BY <1>1, <1>2, <1>5, <2>2, FailureKeeps
<1>6. ASSUME f \in FloorsThere, ~LevelTaken(floor.level, f), floorDocs' = FloorPut(f, floor),
             import' = [import EXCEPT !.writes = @ \ {w}]
      PROVE  YamlInv'
  <2>1. /\ f \in FloorId /\ floorDocs' \in [FloorId -> FloorDoc \cup {NoDoc}]
        /\ FloorsThere' = FloorsThere /\ LevelsDiffer' /\ IdsAreNew'
        /\ floorDocs'[f] = NewFloor(floor.level, Translated(import.idMap, floor.places))
        /\ floorDocs'[f].places = Translated(import.idMap, floor.places)
        /\ \A g \in FloorId \ {f} : floorDocs'[g] = floorDocs[g]
        /\ PrintersThere' = PrintersThere
        /\ NoneDangling /\ MapFollows => NoneDangling'
    BY <1>4, <1>6
  <2>2. /\ import' \in Import /\ import'.stage = import.stage
        /\ import'.writes = import.writes \ {w}
        /\ import'.floorsIn = import.floorsIn /\ import'.undisturbed = import.undisturbed
        /\ import'.created = import.created /\ import'.putIn = import.putIn
        /\ import'.idMap = import.idMap
    BY <1>2, <1>6 DEF Import
  <2>3. f = w.target
    OBVIOUS
  <2> HIDE DEF f, floor
  <2>4. YamlTyped'
    BY <1>1, <2>1, <2>2 DEF YamlTyped
  <2>5. WritesFit' /\ ImportFits'
    BY <1>1, <1>2, <2>2 DEF WritesFit, ImportFits, OfPrinter
  <2>6. Undisturbed'
    <3> SUFFICES ASSUME import'.undisturbed PROVE NoneDangling' /\ MapFollows' /\ FloorsFollow'
      BY DEF Undisturbed
    <3>1. NoneDangling /\ MapFollows /\ FloorsFollow
      BY <1>1, <1>2, <2>2 DEF Undisturbed
    <3>2. import.floorsIn[w.i] = f /\ w.i \in DOMAIN import.floorsIn
      BY <1>2, <2>3, <3>1 DEF FloorsFollow
    <3>3. import'.floorsIn = [import.floorsIn EXCEPT ![w.i] = f]
      <4>1. import.floorsIn \in Seq(0..MaxFloor)
        BY <1>2 DEF Import
      <4>2. QED
        BY <2>2, <3>2, <4>1
    <3>4. \A i \in DOMAIN backup.floors : i # w.i => import.floorsIn[i] # f
      BY <1>2, <3>1, <3>2 DEF FloorsFollow
    <3>5. nextIds.floor \in Int /\ nextIds'.floor = nextIds.floor /\ f < nextIds.floor /\ nextIds'.floor >= nextIds.floor
      BY <1>1, <1>6 DEF IdsAreNew, YamlTyped
    <3>6. FloorsThere' = FloorsThere \cup {f}
      BY <1>6, <2>1
    <3>7. MapFollows' /\ FloorsFollow'
      BY <1>1, <1>2, <2>1, <2>2, <3>1, <3>3, <3>4, <3>5, <3>6, FloorsStillFollow DEF floor
    <3>8. QED
      BY <2>1, <3>1, <3>7
  <2>7. Unedited'
    <3> SUFFICES ASSUME edits = 0, Restorable PROVE AsExported' /\ Restoring'
      BY <1>1, <1>2, <2>2 DEF Unedited, Restorable, Distinct
    <3>1. AsExported /\ Restoring
      BY <1>1, <1>2 DEF Unedited
    <3>2. f = floor.id
      BY <1>2, <2>3, <3>1 DEF Restoring, floor
    <3>3. /\ floorDocs[f].there /\ floorDocs[f].level = floor.level
          /\ floorDocs[f].places = floor.places
      BY <1>2, <3>1, <3>2 DEF AsExported, Restorable, floor
    <3>4. floor.places \in SUBSET (PrinterId \X Place)
      BY <1>2 DEF FileFloor
    <3>5. ASSUME NEW pos \in floor.places PROVE import.idMap[pos[1]] = pos[1]
      <4>1. NoneDangling
        BY <1>1 DEF ImportFits, Undisturbed
      <4>2. pos[1] \in PrintersThere
        BY <1>6, <3>3, <4>1 DEF NoneDangling
      <4>3. PICK i \in DOMAIN backup.printers : backup.printers[i].id = pos[1]
        BY <3>1, <4>2 DEF AsExported
      <4>4. QED
        BY <1>2, <3>1, <4>3 DEF Restoring
    <3>6. Translated(import.idMap, floor.places) = floor.places
      BY <3>4, <3>5, TranslatedItself
    <3>7. floorDocs'[f] = floorDocs[f]
      <4>1. floorDocs[f] \in FloorDoc
        BY <1>1, <2>1, <3>3 DEF YamlTyped, NoDoc
      <4>2. floorDocs[f] = NewFloor(floor.level, floor.places)
        BY <3>3, <4>1 DEF FloorDoc, NewFloor
      <4>3. QED
        BY <2>1, <3>6, <4>2
    <3>8. \A g \in FloorId : floorDocs'[g] = floorDocs[g]
      BY <2>1, <3>7
    <3>9. AsExported'
      <4>1. floorDocs' = floorDocs
        BY <1>1, <2>1, <3>8 DEF YamlTyped
      <4>2. QED
        BY <1>1, <2>1, <3>1, <4>1 DEF AsExported
    <3>10. Restoring'
      BY <1>1, <1>2, <2>2, <3>1 DEF Restoring, OfPrinter
    <3>11. QED
      BY <3>9, <3>10
  <2>8. QED
    BY <2>1, <2>4, <2>5, <2>6, <2>7 DEF YamlInv
<1>7. QED
  BY <1>1, <1>3, <1>5, <1>6

\* The invariant holds always.
LEMMA YamlStep == ASSUME YamlInv, [YamlNext]_yamlVars PROVE YamlInv'
<1>1. ASSUME NEW config \in UsualConfig, Export(config) PROVE YamlInv'
  BY <1>1, ExportKeeps
<1>2. ASSUME NEW p \in PrinterId,
             (\E doc \in PrinterDoc : EditPrinter(p, doc)) \/ DeletePrinterDoc(p) \/ RecreatePrinter(p)
      PROVE  YamlInv'
  BY <1>2, EditPrinterKeeps, DeletePrinterDocKeeps, RecreatePrinterKeeps
<1>3. ASSUME (\E f \in FloorId : DeleteFloorDoc(f) \/ ClearFloor(f)) \/ ListFloors PROVE YamlInv'
  BY <1>3, DeleteFloorDocKeeps, ClearFloorKeeps, ListFloorsKeeps
<1>4. ASSUME StartImport \/ AnalysePrinters \/ AnalyseFloors \/ ImportDone PROVE YamlInv'
  BY <1>4, StartImportKeeps, AnalysePrintersKeeps, AnalyseFloorsKeeps, ImportDoneKeeps
<1>5. ASSUME NEW w \in import.writes, CreatePrinter(w) \/ UpdatePrinter(w) \/ CreateFloor(w) \/ UpdateFloor(w)
      PROVE  YamlInv'
  BY <1>5, CreatePrinterKeeps, UpdatePrinterKeeps, CreateFloorKeeps, UpdateFloorKeeps
<1>6. CASE UNCHANGED yamlVars
  <2>1. UNCHANGED <<printerDocs, floorDocs, nextIds, backup, import, edits>>
    BY <1>6 DEF yamlVars
  <2>2. PrintersThere' = PrintersThere /\ FloorsThere' = FloorsThere
    BY <2>1 DEF PrintersThere, FloorsThere
  <2>3. YamlTyped' /\ IdsAreNew' /\ LevelsDiffer'
    BY <2>1, <2>2 DEF YamlInv, YamlTyped, IdsAreNew, LevelsDiffer
  <2>4. WritesFit' /\ ImportFits'
    BY <2>1 DEF YamlInv, WritesFit, ImportFits
  <2>5. Undisturbed'
    BY <2>1, <2>2 DEF YamlInv, Undisturbed, NoneDangling, MapFollows, IsThere, FloorsFollow
  <2>6. Unedited'
    BY <2>1, <2>2 DEF YamlInv, Unedited, AtStart, AsExported, Restorable, Distinct, Restoring
  <2>7. QED
    BY <2>3, <2>4, <2>5, <2>6 DEF YamlInv
<1>7. QED
  BY <1>1, <1>2, <1>3, <1>4, <1>5, <1>6 DEF YamlNext

LEMMA YamlAlways == YamlSpec => []YamlInv
BY YamlStart, YamlStep, PTL DEF YamlSpec

\* The documents, the file and the import are well-typed.
THEOREM YamlTypeCorrect == YamlSpec => []YamlTypeOK
<1>1. YamlInv => YamlTypeOK
  BY DEF YamlInv, YamlTyped, FileFits, YamlTypeOK
<1>2. QED
  BY <1>1, YamlAlways, PTL

LEMMA OwnPositions == ASSUME YamlInv PROVE OwnPositionsImported
<1> SUFFICES ASSUME Imported PROVE OwnPositionsImported
  BY DEF OwnPositionsImported
<1>1. /\ import.stage = "done" /\ import.undisturbed /\ import.writes = {}
      /\ NoneDangling /\ MapFollows /\ FloorsFollow
  BY DEF Imported, YamlInv, WritesFit, Undisturbed
<1>2. backup # <<>> /\ \A i \in DOMAIN backup.floors : backup.floors[i] \in FileFloor
  BY <1>1, ImportHasFile
<1>3. ASSUME NEW i \in DOMAIN backup.floors, NEW pos \in backup.floors[i].places,
             \/ import.putIn[pos[1]] = pos[1]
             \/ import.putIn[pos[1]] \in import.created /\ \A q \in PrinterId : import.putIn[q] # pos[1]
      PROVE  OnFloor(i, import.putIn[pos[1]], pos[2])
  <2>1. pos[1] \in PrinterId /\ pos[1] # 0
    BY <1>2, YamlAssumption DEF FileFloor, PrinterId
  <2>2. import.idMap[pos[1]] = import.putIn[pos[1]] /\ import.putIn[pos[1]] # 0
    <3>1. \A q \in import.created : q # 0
      BY <1>1, YamlAssumption DEF MapFollows, PrintersThere, PrinterId
    <3>2. QED
      BY <1>1, <1>3, <2>1, <3>1 DEF MapFollows
  <2>3. <<import.idMap[pos[1]], pos[2]>> \in Translated(import.idMap, backup.floors[i].places)
    BY <2>2 DEF Translated
  <2>4. floorDocs[import.floorsIn[i]].places = Translated(import.idMap, backup.floors[i].places)
    BY <1>1 DEF FloorsFollow
  <2>5. QED
    BY <2>2, <2>3, <2>4 DEF OnFloor
<1>4. ASSUME NEW pos \in FilePositions
      PROVE  LET p == import.putIn[pos[2]] IN
             \/ p = pos[2]
             \/ p \in import.created /\ \A q \in PrinterId : import.putIn[q] # pos[2]
             => OnFloor(pos[1], p, pos[3])
  <2>1. PICK i \in DOMAIN backup.floors : \E at \in backup.floors[i].places : pos = <<i, at[1], at[2]>>
    BY DEF FilePositions
  <2>2. PICK at \in backup.floors[i].places : pos = <<i, at[1], at[2]>>
    BY <2>1
  <2>3. pos[1] = i /\ pos[2] = at[1] /\ pos[3] = at[2]
    BY <2>2
  <2>4. QED
    BY <1>3, <2>3
<1>5. QED
  BY <1>1, <1>4 DEF OwnPositionsImported, NoneDangling

\* An import that succeeds undisturbed puts the printers of the file on its floors.
THEOREM OwnPositionsAreImported == YamlSpec => []OwnPositionsImported
BY YamlAlways, OwnPositions, PTL

LEMMA NothingChanges == ASSUME YamlInv PROVE RestoreChangesNothing
<1> SUFFICES ASSUME backup # <<>>, edits = 0, Distinct, backup.config.exportFloorGrid
             PROVE  RestoreChangesNothing
  BY DEF RestoreChangesNothing
<1>1. AsExported /\ FileFits(backup) /\ YamlTyped
  BY DEF YamlInv, Unedited, Restorable, YamlTyped
<1>2. ASSUME NEW i \in DOMAIN backup.floors
      PROVE  floorDocs[backup.floors[i].id] = [there |-> TRUE, level |-> backup.floors[i].level,
                                               places |-> backup.floors[i].places]
  <2> DEFINE floor == backup.floors[i]
             doc == floorDocs[floor.id]
  <2>1. floor.id \in FloorId
    BY <1>1, FileTyped DEF FileFloor
  <2>2. doc.there /\ doc.level = floor.level /\ doc.places = floor.places
    BY <1>1 DEF AsExported
  <2>3. doc \in FloorDoc
    BY <1>1, <2>1, <2>2 DEF YamlTyped, NoDoc
  <2> HIDE DEF doc, floor
  <2>4. doc = [there |-> TRUE, level |-> floor.level, places |-> floor.places]
    BY <2>2, <2>3 DEF FloorDoc
  <2>5. QED
    BY <2>4 DEF doc, floor
<1>3. QED
  BY <1>1, <1>2 DEF AsExported, PrinterOf, RestoreChangesNothing

\* A file that is imported where it was exported changes nothing.
THEOREM RestoringChangesNothing == YamlSpec => []RestoreChangesNothing
BY YamlAlways, NothingChanges, PTL

=============================================================================
