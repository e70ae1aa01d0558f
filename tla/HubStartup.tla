----------------------------- MODULE HubStartup -----------------------------
(***************************************************************************)
(* The start of the Hub: servers and `create-token` commands open one      *)
(* SQLite database, look at what is in it and create or check its tables   *)
(* (src/hub/src/migrations.rs), twice in a server, for its two stores.     *)
(* Every query is a step: no transaction holds them together, and the      *)
(* statements of V1_SCHEMA commit one by one.  A process may be cut off    *)
(* between any two.  No code drops or alters a table.                      *)
(***************************************************************************)
EXTENDS Naturals, Sequences

CONSTANTS
  Servers,      \* Hub servers that may be started on the database
  Commands,     \* create-token commands
  Dirs,         \* upload_temp_dir
  Tables,       \* the tables of V1_SCHEMA after schema_version, in order
  Version,      \* CURRENT_SCHEMA_VERSION
  Databases,    \* what may be found in the file
  MaxCuts,      \* bound: processes cut off while they start
  None

\* The tables that exist, those of them that lack a required column, and the
\* rows of schema_version.
VersionTable == "schema_version"
Names == {VersionTable} \cup {Tables[i] : i \in 1..Len(Tables)}
Procs == Servers \cup Commands

ASSUME StartupAssumption ==
  /\ Tables \in Seq(STRING) /\ Len(Tables) > 0
  /\ VersionTable \notin {Tables[i] : i \in 1..Len(Tables)}
  /\ Version \in Nat /\ MaxCuts \in Nat
  /\ Servers \cap Commands = {} /\ None \notin Procs
  /\ \A db \in Databases :
       /\ db.tables \subseteq Names /\ db.malformed \subseteq db.tables
       /\ db.versions \in Seq(Nat)
       /\ db.versions # << >> => VersionTable \in db.tables \ db.malformed

VARIABLES
  found,     \* the database before the first start
  tables,    \* tables that exist now
  versions,  \* rows of schema_version
  dir,       \* each server's configured directory
  holder,    \* the process that has the flock of a directory
  pc,        \* next query of a process, "off" if it does not run
  store,     \* 1: TokenStore, 2: SqliteMetadataStore
  cursor,    \* which table a loop has come to
  after,     \* what follows the validation
  refused,   \* processes whose last start was refused
  cuts       \* processes cut off while they started

db == <<tables, versions>>
proc == <<holder, pc, store, cursor, after, refused>>
vars == <<found, db, dir, proc, cuts>>

Hub == {Tables[i] : i \in 1..Len(Tables)}
Complete(ts) == Hub \subseteq ts \ found.malformed

\* A database that the code can make nothing of.
Unrecognized ==
  \/ found.malformed # {}
  \/ found.versions \notin {<< >>, <<Version>>}
  \/ found.versions = <<Version>> /\ ~ Complete(found.tables)
  \/ found.tables \cap Hub # {} /\ ~ Complete(found.tables)

Starting(p) == pc[p] \notin {"off", "serving", "token"}
Up(p) == pc[p] \in {"serving", "token"}

Init ==
  /\ found \in Databases
  /\ tables = found.tables
  /\ versions = found.versions
  /\ dir \in [Servers -> Dirs]
  /\ holder = [d \in Dirs |-> None]
  /\ pc = [p \in Procs |-> "off"]
  /\ store = [p \in Procs |-> 1]
  /\ cursor = [p \in Procs |-> 1]
  /\ after = [p \in Procs |-> "done"]
  /\ refused = {}
  /\ cuts = 0
-----------------------------------------------------------------------------
\* start_server: the lock of the temporary directory, which is not waited
\* for, then the pool.
StartServer(p) ==
  /\ pc[p] = "off"
  /\ holder[dir[p]] = None
  /\ holder' = [holder EXCEPT ![dir[p]] = p]
  /\ pc' = [pc EXCEPT ![p] = "version_table"]
  /\ refused' = refused \ {p}
  /\ UNCHANGED <<found, db, dir, store, cursor, after, cuts>>

\* create_token_command opens the TokenStore only, without a lock.
StartCommand(p) ==
  /\ pc[p] = "off"
  /\ pc' = [pc EXCEPT ![p] = "version_table"]
  /\ refused' = refused \ {p}
  /\ UNCHANGED <<found, db, dir, holder, store, cursor, after, cuts>>

\* The lock goes with the process.
Release(p) == holder' = [d \in Dirs |-> IF holder[d] = p THEN None ELSE holder[d]]

\* The process ends, and its local variables with it.
End(p) ==
  /\ pc' = [pc EXCEPT ![p] = "off"]
  /\ store' = [store EXCEPT ![p] = 1]
  /\ cursor' = [cursor EXCEPT ![p] = 1]
  /\ after' = [after EXCEPT ![p] = "done"]
  /\ Release(p)

\* An error of run_hub_migrations ends the process.
Refuse(p) == End(p) /\ refused' = refused \cup {p}

Goto(p, place, at) ==
  /\ pc' = [pc EXCEPT ![p] = place]
  /\ cursor' = [cursor EXCEPT ![p] = at]

\* Is there a version table?
ReadVersionTable(p) ==
  /\ pc[p] = "version_table"
  /\ IF VersionTable \in tables
     THEN Goto(p, "versions", 1) /\ UNCHANGED after
     ELSE Goto(p, "any", 1) /\ after' = [after EXCEPT ![p] = "create_version"]
  /\ UNCHANGED <<found, db, dir, holder, store, refused, cuts>>

\* Mutant: an empty version table is refused like one with two rows.
ReadVersionsStrictly(p) ==
  /\ pc[p] = "versions"
  /\ IF versions = <<Version>> /\ VersionTable \notin found.malformed
     THEN /\ Goto(p, "validate", 1)
          /\ after' = [after EXCEPT ![p] = "done"]
          /\ UNCHANGED <<holder, store, refused>>
     ELSE Refuse(p)
  /\ UNCHANGED <<found, db, dir, cuts>>

\* Mutant: a version table without a row belongs to a process that is
\* creating the schema, and is waited for.
ReadVersionsPolling(p) ==
  /\ pc[p] = "versions"
  /\ IF VersionTable \in found.malformed \/ versions \notin {<< >>, <<Version>>}
     THEN Refuse(p)
     ELSE LET empty == versions = << >>
          IN  /\ Goto(p, IF empty THEN "versions" ELSE "validate", 1)
              /\ after' = [after EXCEPT ![p] = "done"]
              /\ UNCHANGED <<holder, store, refused>>
  /\ UNCHANGED <<found, db, dir, cuts>>

\* SELECT version, which fails without the column: no row yet, this version,
\* or anything else.
ReadVersions(p) ==
  /\ pc[p] = "versions"
  /\ IF VersionTable \in found.malformed \/ versions \notin {<< >>, <<Version>>}
     THEN Refuse(p)
     ELSE LET empty == versions = << >>
          IN  /\ Goto(p, IF empty THEN "any" ELSE "validate", 1)
              /\ after' = [after EXCEPT ![p] = IF empty THEN "set_version" ELSE "done"]
              /\ UNCHANGED <<holder, store, refused>>
  /\ UNCHANGED <<found, db, dir, cuts>>

\* Mutant: only the first table is looked for.
HasFirstHubTable(p) ==
  /\ pc[p] = "any"
  /\ Goto(p, IF Tables[1] \in tables THEN "validate" ELSE "apply", 1)
  /\ UNCHANGED <<found, db, dir, holder, store, after, refused, cuts>>

\* has_any_hub_table: one query for each table, up to the first that exists.
HasAnyHubTable(p) ==
  /\ pc[p] = "any"
  /\ IF Tables[cursor[p]] \in tables THEN Goto(p, "validate", 1)
     ELSE IF cursor[p] = Len(Tables) THEN Goto(p, "apply", 0)
     ELSE Goto(p, "any", cursor[p] + 1)
  /\ UNCHANGED <<found, db, dir, holder, store, after, refused, cuts>>

\* Mutant: a table that is not there has no column that is missing.
ValidateColumns(p) ==
  /\ pc[p] = "validate"
  /\ IF Tables[cursor[p]] \in found.malformed THEN Refuse(p)
     ELSE /\ IF cursor[p] = Len(Tables) THEN Goto(p, after[p], 1)
             ELSE Goto(p, "validate", cursor[p] + 1)
          /\ UNCHANGED <<holder, store, after, refused>>
  /\ UNCHANGED <<found, db, dir, cuts>>

\* validate_required_columns: the table and its columns, one after the other.
ValidateRequiredColumns(p) ==
  /\ pc[p] = "validate"
  /\ IF Tables[cursor[p]] \notin tables \ found.malformed THEN Refuse(p)
     ELSE /\ IF cursor[p] = Len(Tables) THEN Goto(p, after[p], 1)
             ELSE Goto(p, "validate", cursor[p] + 1)
          /\ UNCHANGED <<holder, store, after, refused>>
  /\ UNCHANGED <<found, db, dir, cuts>>

\* apply_v1_schema: CREATE TABLE IF NOT EXISTS, schema_version first (0).
ApplyV1Schema(p) ==
  LET i == cursor[p]
  IN  /\ pc[p] = "apply"
      /\ tables' = tables \cup {IF i = 0 THEN VersionTable ELSE Tables[i]}
      /\ IF i = Len(Tables) THEN Goto(p, "set_version", 1) ELSE Goto(p, "apply", i + 1)
      /\ UNCHANGED <<found, versions, dir, holder, store, after, refused, cuts>>

\* create_schema_version.
CreateSchemaVersion(p) ==
  /\ pc[p] = "create_version"
  /\ tables' = tables \cup {VersionTable}
  /\ Goto(p, "set_version", 1)
  /\ UNCHANGED <<found, versions, dir, holder, store, after, refused, cuts>>

\* set_schema_version_if_empty: one statement inserts the row or does not.
SetSchemaVersionIfEmpty(p) ==
  /\ pc[p] = "set_version"
  /\ versions' = IF versions = << >> THEN <<Version>> ELSE versions
  /\ Goto(p, "done", 1)
  /\ UNCHANGED <<found, tables, dir, holder, store, after, refused, cuts>>

\* A store is ready.  A server opens the second one on the same pool; after
\* that, nothing of its start touches the database.
StoreReady(p) ==
  /\ pc[p] = "done"
  /\ IF p \in Servers /\ store[p] = 1
     THEN Goto(p, "version_table", 1) /\ store' = [store EXCEPT ![p] = 2]
     ELSE Goto(p, IF p \in Servers THEN "serving" ELSE "token", 1) /\ UNCHANGED store
  /\ UNCHANGED <<found, db, dir, holder, after, refused, cuts>>

\* A server shuts down and closes the pool; a command has made its token.
Finish(p) ==
  /\ Up(p)
  /\ End(p)
  /\ UNCHANGED <<found, db, dir, refused, cuts>>

\* A process that starts is killed, or a step of its start fails for another
\* reason: a query, the private key, the signer, the client of the CAS, the
\* rate limiter or the port.
CutOff(p) ==
  /\ Starting(p)
  /\ cuts < MaxCuts
  /\ cuts' = cuts + 1
  /\ End(p)
  /\ UNCHANGED <<found, db, dir, refused>>

Step(p) ==
  \/ ReadVersionTable(p) \/ ReadVersions(p) \/ HasAnyHubTable(p)
  \/ ValidateRequiredColumns(p) \/ ApplyV1Schema(p)
  \/ CreateSchemaVersion(p) \/ SetSchemaVersionIfEmpty(p) \/ StoreReady(p)

Next ==
  \/ \E p \in Servers : StartServer(p)
  \/ \E p \in Commands : StartCommand(p)
  \/ \E p \in Procs : Step(p) \/ Finish(p) \/ CutOff(p)

Spec == Init /\ [][Next]_vars

\* A process that starts gets on: SQLite answers or the query fails.
FairSpec == Spec /\ \A p \in Procs : WF_vars(Step(p))
-----------------------------------------------------------------------------
\* The types of the variables; a lock belongs to a server that runs.
TypeOK ==
  /\ found \in Databases
  /\ tables \subseteq Names
  /\ versions \in {found.versions, <<Version>>}
  /\ dir \in [Servers -> Dirs]
  /\ holder \in [Dirs -> Servers \cup {None}]
  /\ pc \in [Procs -> {"off", "version_table", "versions", "any", "validate", "apply",
                       "create_version", "set_version", "done", "serving", "token"}]
  /\ store \in [Procs -> 1..2]
  /\ cursor \in [Procs -> 0..Len(Tables)]
  /\ after \in [Procs -> {"create_version", "set_version", "done"}]
  /\ refused \subseteq Procs
  /\ cuts \in 0..MaxCuts

\* A process that works with the database has all tables with all columns
\* and exactly one version row under it, whoever else was creating them at
\* the same time or was cut off while doing so.
ServesCompleteSchema ==
  \A p \in Procs : Up(p) => Complete(tables) /\ versions = <<Version>>

\* The lock of a directory is held by the running server that uses it, so a
\* start that ended in any way does not keep the next one out.
LockedByRunning ==
  \A d \in Dirs : holder[d] # None => pc[holder[d]] # "off" /\ dir[holder[d]] = d

\* Starts that overlap or are cut off leave neither half a schema under a
\* process that works with it nor a lock without a server.
StartsSound == TypeOK /\ ServesCompleteSchema /\ LockedByRunning

\* A database of another release, or of something else, is left as it was
\* found, by every process that is started on it.
UnknownUntouched == Unrecognized => tables = found.tables /\ versions = found.versions

\* A start on a good or new database is refused only while another process
\* is creating the tables, or after one was cut off.
RefusalJustified ==
  [][\A p \in Procs : p \in refused' \ refused =>
       \/ Unrecognized
       \/ cuts > 0
       \/ \E q \in Procs \ {p} : pc[q] = "apply"]_vars

\* On a good or new database, of the processes that are started at the same
\* time at least one gets to work, unless one was cut off: they do not
\* refuse because of each other.
SomeStartSucceeds ==
  (~ Unrecognized /\ \E p \in Procs : Starting(p)) ~> (cuts > 0 \/ \E p \in Procs : Up(p))
=============================================================================
