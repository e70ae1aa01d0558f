---------------------------- MODULE MCHubStartup ----------------------------
(***************************************************************************)
(* Three of the seven tables; new, good and foreign databases.             *)
(***************************************************************************)
EXTENDS HubStartup

MCTables == <<"users", "tokens", "file_tree">>
MCHub == {"users", "tokens", "file_tree"}
MCDb(ts, bad, vs) == [tables |-> ts, malformed |-> bad, versions |-> vs]

MCDatabases ==
  {MCDb({}, {}, << >>),                                       \* a new file
   MCDb({"schema_version"}, {}, << >>),                       \* just begun
   MCDb(MCHub, {}, << >>),                                    \* before versions
   MCDb(MCHub \cup {"schema_version"}, {}, << >>),
   MCDb(MCHub \cup {"schema_version"}, {}, <<1>>),            \* current
   MCDb(MCHub \cup {"schema_version"}, {}, <<2>>),            \* newer
   MCDb(MCHub \cup {"schema_version"}, {}, <<0>>),            \* older
   MCDb(MCHub \cup {"schema_version"}, {}, <<1, 1>>),
   MCDb({"schema_version"}, {}, <<2>>),
   MCDb({"schema_version"}, {"schema_version"}, << >>),
   MCDb(MCHub \cup {"schema_version"}, {"file_tree"}, <<1>>),
   MCDb({"tokens"}, {"tokens"}, << >>),                       \* another program's
   MCDb({"file_tree"}, {}, << >>),
   MCDb({"schema_version", "users"}, {}, <<1>>)}
=============================================================================
