-------------------------- MODULE HubStartupProofs --------------------------
(***************************************************************************)
(* Starts of the Hub that overlap and are cut off, for any number of       *)
(* servers and commands, any tables and any database.  The invariant says  *)
(* what each process may conclude from the queries it has made, although   *)
(* other processes write between them: what a loop has passed is still as  *)
(* it saw it, because tables are only added (Grown), a foreign database is *)
(* not written to (UnknownUntouched), and the version row comes last       *)
(* (Versioned).                                                            *)
(***************************************************************************)
EXTENDS HubStartup, TLAPS

\* What a process knows at its place in run_hub_migrations.
PlaceSound(p) ==
  /\ pc[p] # "apply" => cursor[p] >= 1
  /\ pc[p] = "any" =>
       /\ found.versions = << >> /\ VersionTable \notin found.malformed
       /\ \A i \in 1..(cursor[p] - 1) : Tables[i] \notin found.tables
       /\ after[p] # "done"
  /\ pc[p] = "validate" =>
       /\ VersionTable \notin found.malformed
       /\ \A i \in 1..(cursor[p] - 1) : Tables[i] \in tables \ found.malformed
       /\ IF after[p] = "done" THEN versions = <<Version>> ELSE found.versions = << >>
       /\ Hub \cap tables # {} \/ versions = <<Version>>
  /\ pc[p] = "apply" =>
       /\ found.versions = << >> /\ found.malformed = {} /\ Hub \cap found.tables = {}
       /\ \A i \in 1..(cursor[p] - 1) : Tables[i] \in tables
  /\ pc[p] \in {"create_version", "set_version"} => Complete(tables) /\ ~ Unrecognized
  /\ pc[p] \in {"done", "serving", "token"} => Complete(tables) /\ versions = <<Version>>

Grown == found.tables \subseteq tables

\* The version row of a good database stands on a complete schema.
Versioned == ~ Unrecognized /\ versions = <<Version>> => Complete(tables)

\* Unless a process was cut off, a schema that is there in part is being
\* created.
PartIsCreated ==
  ~ Unrecognized /\ cuts = 0 /\ Hub \cap tables # {} =>
    Complete(tables) \/ \E q \in Procs : pc[q] = "apply"

IInv ==
  /\ TypeOK /\ LockedByRunning /\ Grown /\ UnknownUntouched /\ Versioned /\ PartIsCreated
  /\ \A p \in Procs : PlaceSound(p)
-----------------------------------------------------------------------------
\* What the assumption says of the database that was found.
LEMMA FoundSound ==
  ASSUME TypeOK
  PROVE  /\ found.tables \subseteq Names /\ found.malformed \subseteq found.tables
         /\ found.versions # << >> => VersionTable \in found.tables \ found.malformed
         /\ Hub \subseteq Names /\ Len(Tables) \in Nat /\ Len(Tables) >= 1
         /\ \A i \in 1..Len(Tables) : Tables[i] \in Hub
         /\ VersionTable \notin Hub
BY StartupAssumption DEF TypeOK, Hub, Names

\* A process that does not move keeps what it knows when others add tables
\* or the version row.
LEMMA OthersKeep ==
  ASSUME NEW q \in Procs, PlaceSound(q),
         found' = found, tables \subseteq tables',
         versions' = versions \/ (versions = << >> /\ versions' = <<Version>>),
         pc'[q] = pc[q], cursor'[q] = cursor[q], after'[q] = after[q]
  PROVE  PlaceSound(q)'
<1>1. /\ Hub' = Hub /\ Unrecognized' = Unrecognized
      /\ Complete(tables) => Complete(tables)'
  BY DEF Hub, Unrecognized, Complete
<1>2. versions = <<Version>> => versions' = <<Version>>
  OBVIOUS
<1>3. Hub \cap tables # {} => Hub \cap tables' # {}
  OBVIOUS
<1> QED BY <1>1, <1>2, <1>3 DEF PlaceSound

\* A step that does not write to the database keeps what is known of it.
LEMMA DatabaseKeeps ==
  ASSUME IInv, UNCHANGED <<found, db>>
  PROVE  /\ Grown' /\ UnknownUntouched' /\ Versioned'
         /\ Unrecognized' = Unrecognized /\ Hub' = Hub
         /\ Complete(tables)' = Complete(tables)
BY DEF IInv, Grown, UnknownUntouched, Versioned, Unrecognized, Complete, Hub, db

\* Nothing has been started.
LEMMA InitInv == Init => IInv
<1> SUFFICES ASSUME Init PROVE IInv
  OBVIOUS
<1>1. TypeOK
  BY StartupAssumption DEF Init, TypeOK, Procs
<1>2. LockedByRunning
  BY DEF Init, LockedByRunning
<1>3. Grown /\ UnknownUntouched /\ Versioned
  BY DEF Init, Grown, UnknownUntouched, Versioned, Unrecognized
<1>4. PartIsCreated
  BY DEF Init, PartIsCreated, Unrecognized
<1>5. \A p \in Procs : PlaceSound(p)
  BY DEF Init, PlaceSound
<1> QED BY <1>1, <1>2, <1>3, <1>4, <1>5 DEF IInv

\* A start leaves the database alone.
LEMMA StartKeeps ==
  ASSUME IInv, NEW p \in Procs, pc[p] = "off",
         pc' = [pc EXCEPT ![p] = "version_table"],
         refused' = refused \ {p},
         UNCHANGED <<found, db, dir, store, cursor, after, cuts>>,
         \/ UNCHANGED holder
         \/ p \in Servers /\ holder' = [holder EXCEPT ![dir[p]] = p]
  PROVE  IInv'
<1>1. TypeOK'
  BY DEF IInv, TypeOK, db
<1>2. LockedByRunning'
  BY DEF IInv, TypeOK, LockedByRunning, Procs
<1>3. Grown' /\ UnknownUntouched' /\ Versioned'
  BY DatabaseKeeps
<1>4. PartIsCreated'
  <2>1. \A q \in Procs : pc[q] = "apply" => pc'[q] = "apply"
    BY DEF IInv, TypeOK
  <2> QED BY <2>1, DatabaseKeeps DEF IInv, PartIsCreated, db
<1>5. ASSUME NEW q \in Procs PROVE PlaceSound(q)'
  <2>1. CASE q = p
    BY <2>1 DEF IInv, TypeOK, PlaceSound
  <2>2. CASE q # p
    BY <2>2, OthersKeep DEF IInv, TypeOK, db
  <2> QED BY <2>1, <2>2
<1> QED BY <1>1, <1>2, <1>3, <1>4, <1>5 DEF IInv

\* A process that ends takes its lock with it.  If it was creating the
\* tables it was cut off.
LEMMA EndKeeps ==
  ASSUME IInv, NEW p \in Procs, End(p), UNCHANGED <<found, db, dir>>,
         refused' \subseteq Procs,
         \/ cuts' = cuts /\ pc[p] # "apply"
         \/ cuts' = cuts + 1 /\ cuts < MaxCuts
  PROVE  IInv'
<1>1. TypeOK'
  BY StartupAssumption, FoundSound DEF IInv, TypeOK, db, End, Release
<1>2. LockedByRunning'
  BY DEF IInv, TypeOK, LockedByRunning, Procs, End, Release
<1>3. Grown' /\ UnknownUntouched' /\ Versioned'
  BY DatabaseKeeps
<1>4. PartIsCreated'
  <2>1. cuts' = 0 => cuts = 0 /\ \A q \in Procs : pc[q] = "apply" => pc'[q] = "apply"
    BY DEF IInv, TypeOK, End
  <2> QED BY <2>1, DatabaseKeeps DEF IInv, PartIsCreated, db
<1>5. ASSUME NEW q \in Procs PROVE PlaceSound(q)'
  <2>1. CASE q = p
    BY <2>1 DEF IInv, TypeOK, PlaceSound, End
  <2>2. CASE q # p
    BY <2>2, OthersKeep DEF IInv, TypeOK, db, End
  <2> QED BY <2>1, <2>2
<1> QED BY <1>1, <1>2, <1>3, <1>4, <1>5 DEF IInv

\* A process moves on without writing; what it has learned has to be shown.
LEMMA MoveKeeps ==
  ASSUME IInv, NEW p \in Procs, NEW place, NEW at \in 0..Len(Tables), Goto(p, place, at),
         UNCHANGED <<found, db, dir, holder, refused, cuts>>,
         place \in {"version_table", "versions", "any", "validate", "apply",
                    "create_version", "set_version", "done", "serving", "token"},
         after' \in [Procs -> {"create_version", "set_version", "done"}],
         \A q \in Procs \ {p} : after'[q] = after[q],
         store' \in [Procs -> 1..2],
         pc[p] \notin {"off", "apply"},
         PlaceSound(p)'
  PROVE  IInv'
<1>1. TypeOK'
  BY DEF IInv, TypeOK, db, Goto
<1>2. LockedByRunning'
  BY DEF IInv, TypeOK, LockedByRunning, Procs, Goto
<1>3. Grown' /\ UnknownUntouched' /\ Versioned'
  BY DatabaseKeeps
<1>4. PartIsCreated'
  <2>1. \A q \in Procs : pc[q] = "apply" => pc'[q] = "apply"
    BY DEF IInv, TypeOK, Goto
  <2> QED BY <2>1, DatabaseKeeps DEF IInv, PartIsCreated, db
<1>5. ASSUME NEW q \in Procs PROVE PlaceSound(q)'
  <2>1. CASE q # p
    BY <2>1, OthersKeep DEF IInv, TypeOK, db, Goto
  <2> QED BY <2>1
<1> QED BY <1>1, <1>2, <1>3, <1>4, <1>5 DEF IInv

\* Looking for the version table.
LEMMA ReadVersionTableKeeps ==
  ASSUME IInv, NEW p \in Procs, ReadVersionTable(p)
  PROVE  IInv'
<1>0. TypeOK /\ Grown /\ pc[p] = "version_table" /\ 1 \in 0..Len(Tables)
  BY FoundSound DEF IInv, ReadVersionTable
<1>1. CASE VersionTable \in tables
  <2>1. Goto(p, "versions", 1) /\ UNCHANGED <<after, found, db, dir, holder, store, refused, cuts>>
    BY <1>1 DEF ReadVersionTable
  <2>2. PlaceSound(p)'
    BY <1>0, <2>1 DEF PlaceSound, Goto, TypeOK
  <2> QED BY <1>0, <2>1, <2>2, MoveKeeps DEF TypeOK
<1>2. CASE VersionTable \notin tables
  <2>1. /\ Goto(p, "any", 1) /\ after' = [after EXCEPT ![p] = "create_version"]
        /\ UNCHANGED <<found, db, dir, holder, store, refused, cuts>>
    BY <1>2 DEF ReadVersionTable
  <2>2. VersionTable \notin found.malformed /\ found.versions = << >>
    BY <1>0, <1>2, FoundSound DEF Grown
  <2>3. PlaceSound(p)'
    BY <1>0, <2>1, <2>2 DEF PlaceSound, Goto, TypeOK
  <2> QED BY <1>0, <2>1, <2>3, MoveKeeps DEF TypeOK
<1> QED BY <1>1, <1>2

\* Reading the version row.
LEMMA ReadVersionsKeeps ==
  ASSUME IInv, NEW p \in Procs, ReadVersions(p)
  PROVE  IInv'
<1>0. TypeOK /\ pc[p] = "versions" /\ 1 \in 0..Len(Tables)
  BY FoundSound DEF IInv, ReadVersions
<1>1. CASE VersionTable \in found.malformed \/ versions \notin {<< >>, <<Version>>}
  <2>1. Refuse(p) /\ UNCHANGED <<found, db, dir, cuts>>
    BY <1>1 DEF ReadVersions
  <2> QED BY <1>0, <2>1, EndKeeps DEF Refuse, TypeOK
<1>2. CASE ~(VersionTable \in found.malformed \/ versions \notin {<< >>, <<Version>>})
  <2>1. CASE versions = << >>
    <3>1. /\ Goto(p, "any", 1) /\ after' = [after EXCEPT ![p] = "set_version"]
          /\ UNCHANGED <<found, db, dir, holder, store, refused, cuts>>
      BY <1>2, <2>1 DEF ReadVersions
    <3>2. found.versions = << >>
      BY <1>0, <2>1 DEF TypeOK
    <3>3. PlaceSound(p)'
      BY <1>0, <1>2, <3>1, <3>2 DEF PlaceSound, Goto, TypeOK
    <3> QED BY <1>0, <3>1, <3>3, MoveKeeps DEF TypeOK
  <2>2. CASE versions = <<Version>> /\ versions # << >>
    <3>1. /\ Goto(p, "validate", 1) /\ after' = [after EXCEPT ![p] = "done"]
          /\ UNCHANGED <<found, db, dir, holder, store, refused, cuts>>
      BY <1>2, <2>2 DEF ReadVersions
    <3>2. PlaceSound(p)'
      BY <1>0, <1>2, <2>2, <3>1 DEF PlaceSound, Goto, TypeOK, db
    <3> QED BY <1>0, <3>1, <3>2, MoveKeeps DEF TypeOK
  <2> QED BY <1>2, <2>1, <2>2
<1> QED BY <1>1, <1>2

\* Looking for any table.
LEMMA HasAnyHubTableKeeps ==
  ASSUME IInv, NEW p \in Procs, HasAnyHubTable(p)
  PROVE  IInv'
<1>0. /\ TypeOK /\ Grown /\ pc[p] = "any" /\ Len(Tables) \in Nat /\ Len(Tables) >= 1
      /\ cursor[p] \in 1..Len(Tables) /\ PlaceSound(p)
  BY FoundSound DEF IInv, HasAnyHubTable, TypeOK, PlaceSound
<1>f. UNCHANGED <<found, db, dir, holder, store, after, refused, cuts>>
  BY DEF HasAnyHubTable
<1>1. CASE Tables[cursor[p]] \in tables
  <2>1. Goto(p, "validate", 1)
    BY <1>1 DEF HasAnyHubTable
  <2>2. Hub \cap tables # {}
    BY <1>0, <1>1 DEF Hub
  <2>3. PlaceSound(p)'
    BY <1>0, <1>f, <2>1, <2>2 DEF PlaceSound, Goto, TypeOK, db, Hub
  <2> QED BY <1>0, <1>f, <2>1, <2>3, MoveKeeps DEF TypeOK
<1>2. CASE Tables[cursor[p]] \notin tables
  <2>1. \A i \in 1..cursor[p] : Tables[i] \notin found.tables
    BY <1>0, <1>2 DEF PlaceSound, Grown
  <2>2. CASE cursor[p] = Len(Tables)
    <3>1. Goto(p, "apply", 0)
      BY <1>2, <2>2 DEF HasAnyHubTable
    <3>2. Hub \cap found.tables = {} /\ found.malformed = {}
      BY <1>0, <2>1, <2>2, FoundSound DEF Hub, Names, PlaceSound
    <3>3. PlaceSound(p)'
      BY <1>0, <1>f, <3>1, <3>2 DEF PlaceSound, Goto, TypeOK, db, Hub
    <3> QED BY <1>0, <1>f, <3>1, <3>3, MoveKeeps DEF TypeOK
  <2>3. CASE cursor[p] # Len(Tables)
    <3>1. Goto(p, "any", cursor[p] + 1)
      BY <1>2, <2>3 DEF HasAnyHubTable
    <3>2. cursor[p] + 1 \in 0..Len(Tables)
      BY <1>0, <2>3
    <3>3. PlaceSound(p)'
      BY <1>0, <1>f, <2>1, <3>1, <3>2 DEF PlaceSound, Goto, TypeOK, db
    <3> QED BY <1>0, <1>f, <3>1, <3>2, <3>3, MoveKeeps DEF TypeOK
  <2> QED BY <2>2, <2>3
<1> QED BY <1>1, <1>2

\* Validating one table.  Once all have been seen, nothing that was found is
\* malformed, and the database is one the code knows.
LEMMA ValidateRequiredColumnsKeeps ==
  ASSUME IInv, NEW p \in Procs, ValidateRequiredColumns(p)
  PROVE  IInv'
<1>0. /\ TypeOK /\ UnknownUntouched /\ pc[p] = "validate"
      /\ Len(Tables) \in Nat /\ Len(Tables) >= 1
      /\ cursor[p] \in 1..Len(Tables) /\ PlaceSound(p)
  BY FoundSound DEF IInv, ValidateRequiredColumns, TypeOK, PlaceSound
<1>1. CASE Tables[cursor[p]] \notin tables \ found.malformed
  <2>1. Refuse(p) /\ UNCHANGED <<found, db, dir, cuts>>
    BY <1>1 DEF ValidateRequiredColumns
  <2> QED BY <1>0, <2>1, EndKeeps DEF Refuse, TypeOK
<1>2. CASE Tables[cursor[p]] \in tables \ found.malformed
  <2>f. UNCHANGED <<found, db, dir, holder, store, after, refused, cuts>>
    BY <1>2 DEF ValidateRequiredColumns
  <2>1. \A i \in 1..cursor[p] : Tables[i] \in tables \ found.malformed
    BY <1>0, <1>2 DEF PlaceSound
  <2>2. CASE cursor[p] # Len(Tables)
    <3>1. Goto(p, "validate", cursor[p] + 1)
      BY <1>2, <2>2 DEF ValidateRequiredColumns
    <3>2. cursor[p] + 1 \in 0..Len(Tables)
      BY <1>0, <2>2
    <3>3. PlaceSound(p)'
      BY <1>0, <2>f, <2>1, <3>1, <3>2 DEF PlaceSound, Goto, TypeOK, db, Hub
    <3> QED BY <1>0, <2>f, <3>1, <3>2, <3>3, MoveKeeps DEF TypeOK
  <2>3. CASE cursor[p] = Len(Tables)
    <3>1. Goto(p, after[p], 1) /\ 1 \in 0..Len(Tables)
      BY <1>0, <1>2, <2>3 DEF ValidateRequiredColumns
    <3>2. Complete(tables)
      BY <2>1, <2>3 DEF Complete, Hub
    <3>3. ASSUME after[p] # "done" PROVE ~ Unrecognized
      <4>1. found.versions = << >> /\ VersionTable \notin found.malformed
        BY <1>0, <3>3 DEF PlaceSound
      <4>2. found.malformed = {}
        BY <1>0, <4>1, <3>2, FoundSound DEF Complete, Hub, Names
      <4>3. ASSUME Unrecognized PROVE FALSE
        <5>1. tables = found.tables
          BY <1>0, <4>3 DEF UnknownUntouched
        <5> QED BY <3>2, <4>1, <4>2, <4>3, <5>1 DEF Unrecognized
      <4> QED BY <4>3
    <3>4. after[p] \in {"create_version", "set_version", "done"}
      BY <1>0 DEF TypeOK
    <3>5. PlaceSound(p)'
      <4>1. pc'[p] = after[p] /\ cursor'[p] = 1
        BY <1>0, <3>1 DEF Goto, TypeOK
      <4>2. Complete(tables)' /\ Unrecognized' = Unrecognized
        BY <2>f, <3>2, DatabaseKeeps
      <4>3. after[p] = "done" => versions' = <<Version>>
        BY <1>0, <2>f DEF PlaceSound, db
      <4> QED BY <3>3, <3>4, <4>1, <4>2, <4>3 DEF PlaceSound
    <3> QED BY <1>0, <2>f, <3>1, <3>4, <3>5, MoveKeeps DEF TypeOK
  <2> QED BY <2>2, <2>3
<1> QED BY <1>1, <1>2

\* A statement adds a table or the version row and the process moves on;
\* what it knows, and what is now known of the database, has to be shown.
LEMMA WriteKeeps ==
  ASSUME IInv, NEW p \in Procs, NEW place, NEW at \in 0..Len(Tables), Goto(p, place, at),
         UNCHANGED <<found, dir, holder, store, after, refused, cuts>>,
         place \in {"apply", "set_version", "done"},
         pc[p] # "off", ~ Unrecognized,
         tables \subseteq tables', tables' \subseteq Names,
         versions' = versions \/ (versions = << >> /\ versions' = <<Version>>),
         Versioned', PartIsCreated', PlaceSound(p)'
  PROVE  IInv'
<1>1. TypeOK'
  BY DEF IInv, TypeOK, Goto, Names
<1>2. LockedByRunning'
  BY DEF IInv, TypeOK, LockedByRunning, Procs, Goto
<1>3. Grown' /\ UnknownUntouched'
  BY DEF IInv, Grown, UnknownUntouched, Unrecognized, Complete, Hub
<1>4. ASSUME NEW q \in Procs PROVE PlaceSound(q)'
  <2>1. CASE q # p
    BY <2>1, OthersKeep DEF IInv, TypeOK, Goto
  <2> QED BY <2>1
<1> QED BY <1>1, <1>2, <1>3, <1>4 DEF IInv

\* Creating a table, on a database that had none.
LEMMA ApplyV1SchemaKeeps ==
  ASSUME IInv, NEW p \in Procs, ApplyV1Schema(p)
  PROVE  IInv'
<1>0. /\ TypeOK /\ Versioned /\ pc[p] = "apply" /\ Len(Tables) \in Nat /\ Len(Tables) >= 1
      /\ cursor[p] \in 0..Len(Tables) /\ PlaceSound(p)
  BY FoundSound DEF IInv, ApplyV1Schema, TypeOK
<1>1. ~ Unrecognized /\ found.malformed = {}
  <2>1. found.versions = << >> /\ found.malformed = {} /\ found.tables \cap Hub = {}
    BY <1>0 DEF PlaceSound
  <2>2. << >> # <<Version>>
    OBVIOUS
  <2> QED BY <2>1, <2>2 DEF Unrecognized
<1>2. tables \subseteq tables' /\ tables' \subseteq Names
  BY <1>0, FoundSound DEF ApplyV1Schema, TypeOK, Names, Hub
<1>3. UNCHANGED <<found, versions, dir, holder, store, after, refused, cuts>>
  BY DEF ApplyV1Schema
<1>4. \A i \in 1..cursor[p] : Tables[i] \in tables'
  BY <1>0 DEF PlaceSound, ApplyV1Schema
<1>5. Versioned'
  BY <1>0, <1>1, <1>2, <1>3 DEF Versioned, Unrecognized, Complete, Hub
<1>6. CASE cursor[p] = Len(Tables)
  <2>1. Goto(p, "set_version", 1) /\ 1 \in 0..Len(Tables)
    BY <1>0, <1>6 DEF ApplyV1Schema
  <2>2. Complete(tables)' /\ ~ Unrecognized'
    BY <1>1, <1>3, <1>4, <1>6 DEF Complete, Hub, Unrecognized
  <2>3. PlaceSound(p)'
    BY <1>0, <2>1, <2>2 DEF PlaceSound, Goto, TypeOK
  <2>4. PartIsCreated'
    BY <2>2 DEF PartIsCreated
  <2> QED BY <1>0, <1>1, <1>2, <1>3, <1>5, <2>1, <2>3, <2>4, WriteKeeps
<1>7. CASE cursor[p] # Len(Tables)
  <2>1. Goto(p, "apply", cursor[p] + 1) /\ cursor[p] + 1 \in 0..Len(Tables)
    BY <1>0, <1>7 DEF ApplyV1Schema
  <2>2. pc'[p] = "apply" /\ cursor'[p] = cursor[p] + 1
    BY <1>0, <2>1 DEF Goto, TypeOK
  <2>3. PlaceSound(p)'
    BY <1>0, <1>3, <1>4, <2>2 DEF PlaceSound, Hub
  <2>4. PartIsCreated'
    BY <2>2 DEF PartIsCreated
  <2> QED BY <1>0, <1>1, <1>2, <1>3, <1>5, <2>1, <2>3, <2>4, WriteKeeps
<1> QED BY <1>6, <1>7

\* Creating the version table, when all others were found to be complete.
LEMMA CreateSchemaVersionKeeps ==
  ASSUME IInv, NEW p \in Procs, CreateSchemaVersion(p)
  PROVE  IInv'
<1>0. /\ TypeOK /\ pc[p] = "create_version" /\ PlaceSound(p)
      /\ 1 \in 0..Len(Tables)
  BY FoundSound DEF IInv, CreateSchemaVersion
<1>1. /\ Goto(p, "set_version", 1) /\ tables \subseteq tables' /\ tables' \subseteq Names
      /\ UNCHANGED <<found, versions, dir, holder, store, after, refused, cuts>>
  BY <1>0 DEF CreateSchemaVersion, TypeOK, Names
<1>2. ~ Unrecognized /\ ~ Unrecognized' /\ Complete(tables)'
  BY <1>0, <1>1 DEF PlaceSound, Unrecognized, Complete, Hub
<1>3. Versioned' /\ PartIsCreated'
  BY <1>2 DEF Versioned, PartIsCreated
<1>4. PlaceSound(p)'
  BY <1>0, <1>1, <1>2 DEF PlaceSound, Goto, TypeOK
<1> QED BY <1>0, <1>1, <1>2, <1>3, <1>4, WriteKeeps

\* Inserting the version row, if there is none.
LEMMA SetSchemaVersionIfEmptyKeeps ==
  ASSUME IInv, NEW p \in Procs, SetSchemaVersionIfEmpty(p)
  PROVE  IInv'
<1>0. /\ TypeOK /\ pc[p] = "set_version" /\ PlaceSound(p)
      /\ 1 \in 0..Len(Tables)
  BY FoundSound DEF IInv, SetSchemaVersionIfEmpty
<1>1. /\ Goto(p, "done", 1) /\ tables \subseteq tables' /\ tables' \subseteq Names
      /\ UNCHANGED <<found, tables, dir, holder, store, after, refused, cuts>>
  BY <1>0 DEF SetSchemaVersionIfEmpty, TypeOK
<1>2. ~ Unrecognized /\ ~ Unrecognized' /\ Complete(tables)'
  BY <1>0, <1>1 DEF PlaceSound, Unrecognized, Complete, Hub
<1>3. Versioned' /\ PartIsCreated'
  BY <1>2 DEF Versioned, PartIsCreated
<1>4. versions \in {<< >>, <<Version>>}
  BY <1>0, <1>2 DEF TypeOK, Unrecognized
<1>5. versions' = <<Version>> /\ (versions' = versions \/ versions = << >>)
  BY <1>4 DEF SetSchemaVersionIfEmpty
<1>6. PlaceSound(p)'
  BY <1>0, <1>1, <1>2, <1>5 DEF PlaceSound, Goto, TypeOK
<1> QED BY <1>0, <1>1, <1>2, <1>3, <1>5, <1>6, WriteKeeps

\* A store is ready.
LEMMA StoreReadyKeeps ==
  ASSUME IInv, NEW p \in Procs, StoreReady(p)
  PROVE  IInv'
<1>0. /\ TypeOK /\ pc[p] = "done" /\ PlaceSound(p)
      /\ 1 \in 0..Len(Tables)
  BY FoundSound DEF IInv, StoreReady
<1>1. UNCHANGED <<found, db, dir, holder, after, refused, cuts>>
  BY DEF StoreReady
<1>2. PICK place \in {"version_table", "serving", "token"} :
        Goto(p, place, 1) /\ store' \in [Procs -> 1..2]
  <2>0. store \in [Procs -> 1..2]
    BY <1>0 DEF TypeOK
  <2>1. CASE p \in Servers /\ store[p] = 1
    BY <2>0, <2>1 DEF StoreReady
  <2>2. CASE p \in Servers /\ store[p] # 1
    BY <2>0, <2>2 DEF StoreReady
  <2>3. CASE p \notin Servers
    BY <2>0, <2>3 DEF StoreReady
  <2> QED BY <2>1, <2>2, <2>3
<1>3. PlaceSound(p)'
  BY <1>0, <1>1, <1>2 DEF PlaceSound, Goto, TypeOK, db, Complete, Hub
<1> QED BY <1>0, <1>1, <1>2, <1>3, MoveKeeps DEF TypeOK

\* Every step keeps the invariant.
LEMMA NextInv == IInv /\ [Next]_vars => IInv'
<1> SUFFICES ASSUME IInv, [Next]_vars PROVE IInv'
  OBVIOUS
<1>0. TypeOK
  BY DEF IInv
<1>1. ASSUME NEW p \in Servers, StartServer(p) PROVE IInv'
  BY <1>1, StartKeeps DEF StartServer, Procs
<1>2. ASSUME NEW p \in Commands, StartCommand(p) PROVE IInv'
  BY <1>2, StartKeeps DEF StartCommand, Procs
<1>3. ASSUME NEW p \in Procs, Step(p) PROVE IInv'
  BY <1>3, ReadVersionTableKeeps, ReadVersionsKeeps, HasAnyHubTableKeeps,
     ValidateRequiredColumnsKeeps, ApplyV1SchemaKeeps, CreateSchemaVersionKeeps,
     SetSchemaVersionIfEmptyKeeps, StoreReadyKeeps
  DEF Step
<1>4. ASSUME NEW p \in Procs, Finish(p) PROVE IInv'
  BY <1>0, <1>4, EndKeeps DEF Finish, Up, TypeOK
<1>5. ASSUME NEW p \in Procs, CutOff(p) PROVE IInv'
  BY <1>0, <1>5, EndKeeps DEF CutOff, TypeOK
<1>6. CASE UNCHANGED vars
  <2>1. UNCHANGED <<found, db, dir, holder, pc, store, cursor, after, refused, cuts>>
    BY <1>6 DEF vars, proc
  <2>2. TypeOK' /\ LockedByRunning' /\ PartIsCreated'
    BY <2>1 DEF IInv, TypeOK, LockedByRunning, PartIsCreated, Unrecognized, Complete, Hub, db
  <2>3. ASSUME NEW q \in Procs PROVE PlaceSound(q)'
    BY <2>1, <2>3, OthersKeep DEF IInv, db
  <2> QED BY <2>1, <2>2, <2>3, DatabaseKeeps DEF IInv
<1> QED BY <1>1, <1>2, <1>3, <1>4, <1>5, <1>6 DEF Next

\* The invariant holds throughout every behaviour.
LEMMA Invariance == Spec => []IInv
BY InitInv, NextInv, PTL DEF Spec
-----------------------------------------------------------------------------
\* A process that works with the database has the complete schema under it,
\* and a lock has a running server, however many starts overlap or are cut
\* off and whatever was in the file.
THEOREM StartsAreSound == Spec => []StartsSound
<1>1. IInv => StartsSound
  BY DEF IInv, StartsSound, ServesCompleteSchema, PlaceSound, Up
<1> QED BY <1>1, Invariance, PTL

\* A database that the code can make nothing of is not written to, even by
\* processes that looked at it while others were looking too.
THEOREM ForeignUntouched == Spec => []UnknownUntouched
<1>1. IInv => UnknownUntouched
  BY DEF IInv
<1> QED BY <1>1, Invariance, PTL

\* Why a start is refused.
LEMMA RefusalStep ==
  ASSUME IInv, Next, NEW p \in Procs, p \in refused', p \notin refused,
         ~ Unrecognized, cuts = 0
  PROVE  \E q \in Procs \ {p} : pc[q] = "apply"
<1>0. TypeOK /\ PlaceSound(p) /\ Versioned /\ PartIsCreated
  BY DEF IInv
<1>1. PICK q \in Procs : Refuse(q) /\ (ReadVersions(q) \/ ValidateRequiredColumns(q))
  BY DEF Next, StartServer, StartCommand, Step, Finish, CutOff, ReadVersionTable, ReadVersions,
     HasAnyHubTable, ValidateRequiredColumns, ApplyV1Schema, CreateSchemaVersion,
     SetSchemaVersionIfEmpty, StoreReady, Procs
<1>2. q = p
  BY <1>1 DEF Refuse
<1>3. found.malformed = {} /\ versions \in {<< >>, <<Version>>}
  BY <1>0 DEF Unrecognized, TypeOK
<1>4. pc[p] = "validate" /\ Tables[cursor[p]] \notin tables
  <2>1. CASE ReadVersions(p)
    <3>1. UNCHANGED refused
      BY <1>3, <2>1 DEF ReadVersions
    <3> QED BY <3>1
  <2>2. CASE ValidateRequiredColumns(p)
    BY <1>3, <2>2 DEF ValidateRequiredColumns
  <2> QED BY <1>1, <1>2, <2>1, <2>2
<1>5. ~ Complete(tables)
  <2>1. cursor[p] \in 1..Len(Tables)
    BY <1>0, <1>4, FoundSound DEF TypeOK, PlaceSound
  <2> QED BY <1>0, <1>4, <2>1, FoundSound DEF Complete
<1>6. Hub \cap tables # {}
  BY <1>0, <1>4, <1>5 DEF PlaceSound, Versioned
<1>7. PICK r \in Procs : pc[r] = "apply"
  BY <1>0, <1>5, <1>6 DEF PartIsCreated
<1> QED BY <1>4, <1>7

\* A start on a good or new database is refused only beside a process that is
\* creating the tables, or after one was cut off.
THEOREM RefusalsAreJustified == Spec => RefusalJustified
<1>1. IInv /\ [Next]_vars =>
        [\A p \in Procs : p \in refused' \ refused =>
           \/ Unrecognized
           \/ cuts > 0
           \/ \E q \in Procs \ {p} : pc[q] = "apply"]_vars
  <2> SUFFICES ASSUME IInv, Next, NEW p \in Procs, p \in refused' \ refused,
                      ~ Unrecognized, ~ (cuts > 0)
               PROVE  \E q \in Procs \ {p} : pc[q] = "apply"
    BY DEF vars, proc
  <2>1. cuts = 0
    BY DEF IInv, TypeOK
  <2> QED BY <2>1, RefusalStep
<1> QED BY <1>1, Invariance, PTL DEF Spec, RefusalJustified
=============================================================================
