------------------------------ MODULE Migrations ------------------------------
(***************************************************************************)
(* The migrations of the database: what each does to the fields of the     *)
(* documents of a collection, one database call after the other (the       *)
(* calls are not given the session of the transaction they are made in).   *)
(* A collection that does not exist is None, else the fields of its        *)
(* documents.                                                              *)
(***************************************************************************)
EXTENDS Actors, Naturals, Sequences

Collection == {"printers", "users", "printerfloors", "floors"}

\* The fields that a migration changes
Field == {"apperance:named", "appearance:named", "appearance", "name", "apikey", "apiKey",
          "enabled", "sortIndex", "fileList:object", "fileList", "password", "passwordHash",
          "printerGroups", "printers"}

\* No collection is not a collection of documents with some fields
ASSUME MigrationAssumption == \A fields \in SUBSET Field : fields # None

\* One call: the documents of a collection lose the field `from` and get the fields `to`, for a
\* rename only if they have it.  "move" renames the collection.
Rename(c, a, b) == [call |-> "rename", on |-> c, from |-> a, to |-> b]
Unset(c, a) == [call |-> "set", on |-> c, from |-> a, to |-> {}]
Assign(c, a, b) == [call |-> "set", on |-> c, from |-> a, to |-> b]
Move(c, d) == [call |-> "move", on |-> c, from |-> c, to |-> d]

\* "appearance:named" is the object with the name of the printer in it
PrintersSettingsApiKey ==
    <<Rename("printers", "apperance:named", {"appearance:named"}),
      Rename("printers", "apikey", {"apiKey"})>>
PrintersEnabled == <<Assign("printers", "enabled", {"enabled"})>>
UserPasswordHash == <<Rename("users", "password", {"passwordHash"})>>
FloorRemoveGroup ==
    <<Unset("printerfloors", "printerGroups"), Assign("printerfloors", "printers", {"printers"}),
      Move("printerfloors", "floors")>>
PrinterRemoveSortIndex == <<Unset("printers", "sortIndex")>>
UserRemoveName == <<Unset("users", "name")>>
PrinterFlattenName == <<Rename("printers", "appearance:named", {"appearance", "name"})>>
PrinterRemoveAppearance == <<Unset("printers", "appearance")>>
PrinterFilesSimpler == <<Assign("printers", "fileList:object", {"fileList"})>>

Migration ==
    <<PrintersSettingsApiKey, PrintersEnabled, UserPasswordHash, FloorRemoveGroup,
      PrinterRemoveSortIndex, UserRemoveName, PrinterFlattenName, PrinterRemoveAppearance,
      PrinterFilesSimpler>>

-----------------------------------------------------------------------------
(* Running them.                                                           *)

Empty(fields) == fields \in {None, {}}

\* The fields of a collection's documents after a call
Called(fields, s) ==
    IF Empty(fields) \/ (s.call = "rename" /\ s.from \notin fields) THEN fields
    ELSE (fields \ {s.from}) \cup s.to

\* A collection cannot be renamed to one that exists
Impossible(docs, s) == s.call = "move" /\ docs[s.on] # None /\ docs[s.to] # None

After(docs, s) ==
    IF s.call = "move"
    THEN IF docs[s.on] = None THEN docs ELSE [docs EXCEPT ![s.to] = docs[s.on], ![s.on] = None]
    ELSE [docs EXCEPT ![s.on] = Called(@, s)]

\* Calls one after the other, and migrations one after the other: the first n
AfterCalls(docs, calls) ==
    LET f[i \in 0..Len(calls)] == IF i = 0 THEN docs ELSE After(f[i - 1], calls[i])
    IN  f[Len(calls)]
Migrated(docs, n) ==
    LET f[i \in 0..n] == IF i = 0 THEN docs ELSE AfterCalls(f[i - 1], Migration[i]) IN f[n]

\* The database of the first release, and of none
Oldest ==
    [c \in Collection |->
        CASE c = "printers" -> {"apperance:named", "apikey", "sortIndex", "fileList:object"}
          [] c = "users" -> {"password", "name"}
          [] c = "printerfloors" -> {"printerGroups"}
          [] OTHER -> None]
Fresh == [c \in Collection |-> None]
=============================================================================
