-------------------------------- MODULE Catalog --------------------------------
(***************************************************************************)
(* The system catalog: the list of databases, the metadata of each and the *)
(* system configuration, as files, and the sessions that work on copies of *)
(* them (catalog_manager.cpp, database_metadata_manager.cpp,               *)
(* database_registry_Manager.cpp, system_config_manager.cpp; the DDL       *)
(* operators of executor.h; handle_client in HAOSQL.cpp).                  *)
(*                                                                         *)
(* Every connection has a CatalogManager of its own.  It loads the         *)
(* registry and the configuration when it is made and the metadata of a    *)
(* database when it is first needed, never reads them again, and saves     *)
(* whole files: what it changed at once, and everything it has once more   *)
(* when the connection ends.  Two globals are shared: the name of the      *)
(* current database, and the index manager with its pointer to the         *)
(* CatalogManager of whoever set it last.                                  *)
(*                                                                         *)
(* A statement is a list of calls; a save is two: the file is cut to       *)
(* nothing when it is opened, and written afterwards.  Other sessions run, *)
(* and the process may be killed, between any two calls.                   *)
(*                                                                         *)
(* Abstractions: paths, dates, owners, status and the configuration's      *)
(* fields (one value); a file is written whole or not at all once it is    *)
(* open, and opening succeeds; the root pages of indexes (BPlusTree).      *)
(***************************************************************************)
EXTENDS Metadata

CONSTANTS
    Client,
    Database,
    SystemData,          \* the database every session begins with
    Definition,          \* the CREATE TABLEs used: columns and constraints
    DefaultSetting, NewSetting,
    Kinds,               \* the statements the clients use
    MaxStatements,       \* bound: statements begun while sessions are serial
    MaxOverlapping,      \* bound: statements begun, once they are not
    MaxSessions,         \* bound: connections made
    MaxKills,            \* bound: kills of the process
    None                 \* no client

ASSUME CatalogAssumption ==
    /\ SystemData \in Database
    /\ Database \cap {"registry", "config"} = {}      \* the names of the other files
    /\ Definition \subseteq [cols : Seq(ColumnName), primary : Seq(ColumnName),
                             notNull : Seq(ColumnName), unique : Seq(ColumnName)]
    /\ \A d \in Definition : d.cols # <<>>
    /\ Kinds \subseteq {"create_database", "drop_database", "use", "show", "create_table",
                        "drop_table", "add_column", "drop_column", "statistics", "configure"}
    /\ {MaxStatements, MaxOverlapping, MaxSessions, MaxKills} \subseteq Nat
    /\ None \notin Client

VARIABLES
    registryFile,    \* database -> [id], the databases.registry file
    metaFile,        \* database -> metadata, the meta_data.hao files there are
    configFile,      \* the system_config.hao file
    mode,            \* client -> where its thread is
    view,            \* client -> its CatalogManager
    calls,           \* client -> the calls its statement has yet to make
    dbName,          \* DBName, one global
    indexOwner,      \* whose CatalogManager the global indexManager points to, if it
                     \* still exists
    statements,      \* history: statements begun
    sessions,        \* history: connections made
    kills,           \* history: kills so far
    serial,          \* history: sessions have not overlapped, no kill hit a save
    latest           \* history: the catalog as serial sessions have made it

files == <<registryFile, metaFile, configFile>>
history == <<statements, sessions, kills>>
vars == <<registryFile, metaFile, configFile, mode, view, calls, dbName, indexOwner,
          statements, sessions, kills, serial, latest>>

\* A file of the catalog: "registry", "config", or a database's metadata.
NoView == [registry |-> <<>>, config |-> DefaultSetting, metas |-> <<>>]

IsView(v) ==
    /\ DOMAIN v = {"registry", "config", "metas"}
    /\ DOMAIN v.registry \subseteq Database
    /\ \A d \in DOMAIN v.registry : v.registry[d] \in [id : Nat]
    /\ v.config \in {DefaultSetting, NewSetting}
    /\ DOMAIN v.metas \subseteq Database
    /\ \A d \in DOMAIN v.metas : IsMetadata(v.metas[d])

\* What a statement may have yet to do.
AnyCall ==
    [op : {"open", "write"}, file : Database \cup {"registry", "config"}, who : Client \cup {None}]
    \cup [op : {"register", "new_metadata", "unregister", "remove_directory"}, db : Database]
    \cup [op : {"create_table"}, table : TableName, cols : Seq(ColumnName), page : Nat]
    \cup [op : {"drop_table"}, table : TableName]
    \cup [op : {"add_column", "drop_column", "set_primary_key", "set_nullable", "set_unique",
                "create_index", "update_index_root"}, table : TableName, col : ColumnName]
    \cup [op : {"update_read_count", "reset_statistics"}]

TypeOK ==
    /\ IsView([registry |-> registryFile, config |-> configFile, metas |-> metaFile])
    /\ mode \in [Client -> {"out", "login", "idle", "leaving"}]
    /\ \A c \in Client : IsView(view[c])
    /\ calls \in [Client -> Seq(AnyCall)]
    /\ \A c \in Client : mode[c] \in {"out", "login"} => calls[c] = <<>>
    /\ dbName \in Database
    /\ indexOwner \in Client \cup {None}
    /\ serial \in BOOLEAN

Init ==
    /\ registryFile = [d \in {SystemData} |-> [id |-> 1]]
    /\ metaFile = [d \in {SystemData} |-> EmptyMetadata]
    /\ configFile = DefaultSetting
    /\ mode = [c \in Client |-> "out"]
    /\ view = [c \in Client |-> NoView]
    /\ calls = [c \in Client |-> <<>>]
    /\ dbName = SystemData
    /\ indexOwner = None
    /\ statements = 0 /\ sessions = 0 /\ kills = 0
    /\ serial = TRUE
    /\ latest = [registry |-> registryFile, config |-> configFile, metas |-> metaFile]

-----------------------------------------------------------------------------
(* Copies and files *)

\* f with x mapped to y, and f without x.
With(f, x, y) == [z \in DOMAIN f \cup {x} |-> IF z = x THEN y ELSE f[z]]
Without(f, x) == [z \in DOMAIN f \ {x} |-> f[z]]

\* LoadDatabaseManager: a cached copy is used as it is.
CanLoad(v, d) == d \in DOMAIN v.metas \/ d \in DOMAIN v.registry \cap DOMAIN metaFile

Loaded(v, d) ==
    IF d \in DOMAIN v.metas \/ ~CanLoad(v, d) THEN v ELSE [v EXCEPT !.metas = With(@, d, metaFile[d])]

\* SaveMetadata, SaveRegistry and SaveConfig of the catalog of client "who".
Save(file, who) ==
    <<[op |-> "open", file |-> file, who |-> who], [op |-> "write", file |-> file, who |-> who]>>
SaveAll(order, who) ==
    [i \in 1..(2 * Len(order)) |->
        [op |-> IF i % 2 = 1 THEN "open" ELSE "write", file |-> order[(i + 1) \div 2], who |-> who]]

\* The catalog after serial sessions once client c's has become v.
Remembered(v, changed) ==
    latest' = IF serial
              THEN [registry |-> v.registry, config |-> v.config,
                    metas |-> [d \in DOMAIN latest.metas \cup changed |->
                                 IF d \in changed THEN v.metas[d] ELSE latest.metas[d]]]
              ELSE latest

-----------------------------------------------------------------------------
(* Connections *)

\* CatalogManager::Initialize, as the first thing the client's thread does.
Connect(c) ==
    /\ mode[c] = "out"
    /\ sessions < MaxSessions
    /\ sessions' = sessions + 1
    /\ mode' = [mode EXCEPT ![c] = "login"]
    /\ view' = [view EXCEPT ![c] = [registry |-> registryFile, config |-> configFile, metas |-> <<>>]]
    /\ serial' = (serial /\ \A o \in Client : mode[o] = "out")
    /\ UNCHANGED <<files, calls, dbName, indexOwner, statements, kills, latest>>

\* setDBName("System_Data"); initIndexManager; GetStorageConfig
Login(c) ==
    /\ mode[c] = "login"
    /\ mode' = [mode EXCEPT ![c] = "idle"]
    /\ dbName' = SystemData
    /\ indexOwner' = c
    /\ view' = [view EXCEPT ![c] = Loaded(@, SystemData)]
    /\ UNCHANGED <<files, calls, history, serial, latest>>

\* Mutant of Leave: only the registry and the configuration are saved.
LeaveQuickly(c) ==
    /\ mode[c] \in {"login", "idle"} /\ calls[c] = <<>>
    /\ mode' = [mode EXCEPT ![c] = "leaving"]
    /\ calls' = [calls EXCEPT ![c] = Save("config", c) \o Save("registry", c)]
    /\ UNCHANGED <<files, view, dbName, indexOwner, history, serial, latest>>

\* Mutant of Leave: the session counts as gone before it has saved.
LeaveAtOnce(c) ==
    /\ mode[c] \in {"login", "idle"} /\ calls[c] = <<>>
    /\ mode' = [mode EXCEPT ![c] = "out"]
    /\ calls' = [calls EXCEPT ![c] = Save("config", c) \o Save("registry", c)]
    /\ UNCHANGED <<files, view, dbName, indexOwner, history, serial, latest>>

\* The connection is gone; ~CatalogManager calls Shutdown, which saves every
\* database the session has looked at, the configuration and the registry.
Leave(c) ==
    /\ mode[c] \in {"login", "idle"} /\ calls[c] = <<>>
    /\ mode' = [mode EXCEPT ![c] = "leaving"]
    /\ \E order \in SetToSeqs(DOMAIN view[c].metas) :
         calls' = [calls EXCEPT ![c] = SaveAll(order, c) \o Save("config", c) \o Save("registry", c)]
    /\ UNCHANGED <<files, view, dbName, indexOwner, history, serial, latest>>

Saves(call, who) == call.op \in {"open", "write"} /\ call.who = who

\* The CatalogManager is gone, whether or not the index manager points to it.
\* What another thread was about to save of it comes to nothing.
Left(c) ==
    /\ mode[c] = "leaving" /\ calls[c] = <<>>
    /\ mode' = [mode EXCEPT ![c] = "out"]
    /\ view' = [view EXCEPT ![c] = NoView]
    /\ indexOwner' = IF indexOwner = c THEN None ELSE indexOwner
    /\ calls' = [o \in Client |->
         [i \in 1..Len(calls[o]) |->
            IF Saves(calls[o][i], c) THEN [calls[o][i] EXCEPT !.who = None] ELSE calls[o][i]]]
    /\ UNCHANGED <<files, dbName, history, serial, latest>>

\* The process ends: files stay as they are.  Statistics that no save has
\* written are gone, and nobody expects otherwise.
ProcessEnds ==
    /\ mode' = [c \in Client |-> "out"]
    /\ view' = [c \in Client |-> NoView]
    /\ calls' = [c \in Client |-> <<>>]
    /\ dbName' = SystemData
    /\ indexOwner' = None
    /\ serial' = (serial /\ \A c \in Client : calls[c] = <<>>)
    /\ latest' = [latest EXCEPT !.metas = [d \in DOMAIN @ |->
                    IF d \in DOMAIN metaFile THEN [@[d] EXCEPT !.reads = metaFile[d].reads] ELSE @[d]]]
    /\ UNCHANGED <<files, statements, sessions>>

Kill ==
    /\ \E c \in Client : mode[c] # "out"
    /\ kills < MaxKills
    /\ kills' = kills + 1
    /\ ProcessEnds

-----------------------------------------------------------------------------
(* Statements: what each is made of *)

Begin(c, kind, program) ==
    /\ kind \in Kinds
    /\ mode[c] = "idle" /\ calls[c] = <<>>
    /\ statements < (IF serial THEN MaxStatements ELSE MaxOverlapping)
    /\ statements' = statements + 1
    /\ calls' = [calls EXCEPT ![c] = program]
    /\ UNCHANGED <<files, mode, sessions, kills, serial>>

\* "use database": no check that there is one of that name.
UseDatabase(c, d) ==
    /\ Begin(c, "use", <<>>)
    /\ dbName' = d
    /\ indexOwner' = c
    /\ UNCHANGED <<view, latest>>

\* "show tables;"
ShowTables(c) ==
    /\ Begin(c, "show", <<>>)
    /\ view' = [view EXCEPT ![c] = Loaded(@, dbName)]
    /\ UNCHANGED <<dbName, indexOwner, latest>>

\* checkDatabaseExists: the name becomes current whatever CreateDatabase does.
CreateDatabase(c, d) ==
    /\ Begin(c, "create_database",
             IF d \in DOMAIN view[c].registry THEN <<>>
             ELSE <<[op |-> "register", db |-> d]>> \o Save("registry", c)
                  \o <<[op |-> "new_metadata", db |-> d], [op |-> "write", file |-> d, who |-> c]>>
                  \o Save(d, c))
    /\ dbName' = d
    /\ UNCHANGED <<view, indexOwner, latest>>

\* Tests only.
DropDatabase(c, d) ==
    /\ d \in DOMAIN view[c].registry
    /\ Begin(c, "drop_database",
             <<[op |-> "unregister", db |-> d]>> \o Save("registry", c)
             \o <<[op |-> "remove_directory", db |-> d]>>)
    /\ UNCHANGED <<view, dbName, indexOwner, latest>>

\* The calls op(x) for the columns x of a list.
ForEach(names, op, t) == [i \in 1..Len(names) |-> [op |-> op, table |-> t, col |-> names[i]]]

\* A primary key has an index made for it at once.
PrimaryKeyCalls(names, t) ==
    [i \in 1..(2 * Len(names)) |->
        [op |-> IF i % 2 = 1 THEN "set_primary_key" ELSE "create_index",
         table |-> t, col |-> names[(i + 1) \div 2]]]

\* buildPlan: the number of tables there are.
PageOfNewTable(v) ==
    IF dbName \in DOMAIN v.metas THEN Cardinality(DOMAIN v.metas[dbName].tables) ELSE 0

\* buildPlan works out the page while it looks at the metadata;
\* CreateTable::execute makes the calls.  NOT NULL calls SetNullable(..., true).
CreateTableStatement(c, t, def) ==
    LET v == Loaded(view[c], dbName)
    IN  /\ Begin(c, "create_table",
                 <<[op |-> "create_table", table |-> t, cols |-> def.cols, page |-> PageOfNewTable(v)]>>
                 \o PrimaryKeyCalls(def.primary, t)
                 \o ForEach(def.notNull, "set_nullable", t)
                 \o ForEach(def.unique, "set_unique", t))
        /\ view' = [view EXCEPT ![c] = v]
        /\ UNCHANGED <<dbName, indexOwner, latest>>

DropTableStatement(c, t) ==
    /\ Begin(c, "drop_table", <<[op |-> "drop_table", table |-> t]>>)
    /\ UNCHANGED <<view, dbName, indexOwner, latest>>

\* ALTER TABLE ... ADD COLUMN.  Its NOT NULL and UNIQUE never reach the
\* operator: buildPlan takes its result, T4 as well, for a CREATE TABLE.
AddColumnStatement(c, t, x) ==
    /\ Begin(c, "add_column", ForEach(<<x>>, "add_column", t))
    /\ UNCHANGED <<view, dbName, indexOwner, latest>>

DropColumnStatement(c, t, x) ==
    /\ Begin(c, "drop_column", ForEach(<<x>>, "drop_column", t))
    /\ UNCHANGED <<view, dbName, indexOwner, latest>>

\* Statistics and configuration, as the tests use them.
StatisticsStatement(c, op) ==
    /\ Begin(c, "statistics", <<[op |-> op]>>)
    /\ UNCHANGED <<view, dbName, indexOwner, latest>>

\* SystemConfigManager's setters, each followed by SaveConfig.
Configure(c) ==
    /\ Begin(c, "configure", Save("config", c))
    /\ view' = [view EXCEPT ![c].config = NewSetting]
    /\ Remembered(view'[c], {})
    /\ UNCHANGED <<dbName, indexOwner>>

-----------------------------------------------------------------------------
(* Calls *)

Now(c, op) == calls[c] # <<>> /\ Head(calls[c]).op = op
Call(c) == Head(calls[c])

\* The current database in client who's catalog.
Meta(who) == Loaded(view[who], dbName).metas[dbName]
HasTable(who, t) == CanLoad(view[who], dbName) /\ t \in DOMAIN Meta(who).tables
HasTheColumn(who, t, x) == HasTable(who, t) /\ HasColumn(Meta(who).tables[t], x)

\* Client c's call has made m of the current database in client who's catalog.
Changes(c, who, m, then) ==
    /\ view' = [view EXCEPT ![who] = [Loaded(@, dbName) EXCEPT !.metas[dbName] = m]]
    /\ calls' = [calls EXCEPT ![c] = then \o Tail(@)]
    /\ Remembered(view'[who], {dbName})
    /\ UNCHANGED <<files, mode, dbName, indexOwner, history, serial>>

\* The call has come to nothing; an exception ends the statement, a result
\* that nobody looks at does not.
Fails(c, who, rest) ==
    /\ view' = [view EXCEPT ![who] = Loaded(@, dbName)]
    /\ calls' = [calls EXCEPT ![c] = rest]
    /\ UNCHANGED <<files, mode, dbName, indexOwner, history, serial, latest>>
Throws(c) == Fails(c, c, <<>>)
Ignored(c, who) == Fails(c, who, Tail(calls[c]))

\* A save of a catalog that has been destroyed: nothing reaches the file.
LostSave(c) ==
    /\ (Now(c, "open") \/ Now(c, "write")) /\ Call(c).who = None
    /\ calls' = [calls EXCEPT ![c] = Tail(@)]
    /\ UNCHANGED <<files, mode, view, dbName, indexOwner, history, serial, latest>>

\* ofstream cuts the file; there is no file to open in a directory that is gone.
Open(c) ==
    /\ Now(c, "open") /\ Call(c).who # None
    /\ LET file == Call(c).file
       IN  /\ registryFile' = IF file = "registry" THEN <<>> ELSE registryFile
           /\ configFile' = IF file = "config" THEN DefaultSetting ELSE configFile
           /\ metaFile' = IF file \in DOMAIN metaFile THEN With(metaFile, file, EmptyMetadata) ELSE metaFile
    /\ calls' = [calls EXCEPT ![c] = Tail(@)]
    /\ UNCHANGED <<mode, view, dbName, indexOwner, history, serial, latest>>

\* What the catalog holds now.
Write(c) ==
    /\ Now(c, "write") /\ Call(c).who # None
    /\ LET file == Call(c).file
           v == view[Call(c).who]
       IN  /\ registryFile' = IF file = "registry" THEN v.registry ELSE registryFile
           /\ configFile' = IF file = "config" THEN v.config ELSE configFile
           /\ metaFile' = IF file \in DOMAIN metaFile \cap DOMAIN v.metas
                          THEN With(metaFile, file, v.metas[file])
                          ELSE metaFile
    /\ calls' = [calls EXCEPT ![c] = Tail(@)]
    /\ UNCHANGED <<mode, view, dbName, indexOwner, history, serial, latest>>

\* RegisterDatabase
Register(c) ==
    /\ Now(c, "register")
    /\ view' = [view EXCEPT ![c].registry = With(@, Call(c).db, [id |-> NewId(@)])]
    /\ calls' = [calls EXCEPT ![c] = Tail(@)]
    /\ Remembered(view'[c], {})
    /\ UNCHANGED <<files, mode, dbName, indexOwner, history, serial>>

\* CreateNewDatabase makes the file, or cuts the one another session made.
NewMetadata(c) ==
    /\ Now(c, "new_metadata")
    /\ view' = [view EXCEPT ![c].metas = With(@, Call(c).db, EmptyMetadata)]
    /\ metaFile' = With(metaFile, Call(c).db, EmptyMetadata)
    /\ calls' = [calls EXCEPT ![c] = Tail(@)]
    /\ Remembered(view'[c], {Call(c).db})
    /\ UNCHANGED <<registryFile, configFile, mode, dbName, indexOwner, history, serial>>

\* UnregisterDatabase, the cached copy first
Unregister(c) ==
    /\ Now(c, "unregister")
    /\ view' = [view EXCEPT ![c].metas = Without(@, Call(c).db), ![c].registry = Without(@, Call(c).db)]
    /\ calls' = [calls EXCEPT ![c] = Tail(@)]
    /\ latest' = IF serial THEN [latest EXCEPT !.metas = Without(@, Call(c).db),
                                               !.registry = Without(@, Call(c).db)] ELSE latest
    /\ UNCHANGED <<files, mode, dbName, indexOwner, history, serial>>

RemoveDirectory(c) ==
    /\ Now(c, "remove_directory")
    /\ metaFile' = Without(metaFile, Call(c).db)
    /\ calls' = [calls EXCEPT ![c] = Tail(@)]
    /\ UNCHANGED <<registryFile, configFile, mode, view, dbName, indexOwner, history, serial, latest>>

CallCreateTable(c) ==
    /\ Now(c, "create_table")
    /\ IF /\ dbName \in DOMAIN view[c].registry
          /\ CanLoad(view[c], dbName)
          /\ CanCreateTable(Meta(c), Call(c).table)
       THEN Changes(c, c, CreateTable(Meta(c), Call(c).table, Call(c).cols, Call(c).page), Save(dbName, c))
       ELSE Throws(c)

\* IF EXISTS is always assumed.
CallDropTable(c) ==
    /\ Now(c, "drop_table")
    /\ IF HasTable(c, Call(c).table)
       THEN Changes(c, c, DropTable(Meta(c), Call(c).table), Save(dbName, c))
       ELSE Ignored(c, c)

\* On a table without columns the code reads columns[-1]: an address some
\* terabyte off, and the process ends.
CallAddColumn(c) ==
    /\ Now(c, "add_column")
    /\ IF HasTable(c, Call(c).table) /\ Meta(c).tables[Call(c).table].cols = <<>>
       THEN ProcessEnds /\ UNCHANGED kills
       ELSE IF HasTable(c, Call(c).table) /\ CanAddColumn(Meta(c).tables[Call(c).table])
       THEN Changes(c, c, AddColumn(Meta(c), Call(c).table, Call(c).col), Save(dbName, c))
       ELSE Throws(c)

\* A call on a column that has to be there.
OnColumn(c, op, can, m) ==
    /\ Now(c, op)
    /\ IF can THEN Changes(c, c, m, Save(dbName, c)) ELSE Throws(c)

CallSetPrimaryKey(c) ==
    OnColumn(c, "set_primary_key", HasTheColumn(c, Call(c).table, Call(c).col),
             SetPrimaryKey(Meta(c), Call(c).table, Call(c).col))

CallSetNullable(c) ==
    OnColumn(c, "set_nullable",
             /\ HasTheColumn(c, Call(c).table, Call(c).col)
             /\ CanSetNullable(Meta(c), Call(c).table, Call(c).col),
             SetNullable(Meta(c), Call(c).table, Call(c).col))

CallSetUnique(c) ==
    OnColumn(c, "set_unique", HasTheColumn(c, Call(c).table, Call(c).col),
             SetUnique(Meta(c), Call(c).table, Call(c).col))

CallDropColumn(c) ==
    OnColumn(c, "drop_column", HasTheColumn(c, Call(c).table, Call(c).col),
             DropColumn(Meta(c), Call(c).table, Call(c).col))

\* IndexManager::CreateIndex works on the catalog its pointer leads to.  When
\* that catalog has been destroyed, the process ends or the call fails.
CallCreateIndex(c) ==
    /\ Now(c, "create_index")
    /\ LET t == Call(c).table
           x == Call(c).col
           o == indexOwner
       IN  IF o = None
           THEN Ignored(c, c) \/ (ProcessEnds /\ UNCHANGED kills)
           ELSE IF /\ CanLoad(view[o], dbName)
                   /\ <<t, x>> \notin DOMAIN Meta(o).indexes
                   /\ CanCreateIndex(Meta(o), t, <<x>>)
           THEN Changes(c, o, CreateIndex(Meta(o), <<t, x>>, t, <<x>>),
                        Save(dbName, o) \o ForEach(<<x>>, "update_index_root", t))
           ELSE Ignored(c, o)

\* UpdateIndexRoot puts the same root in again and saves once more.
CallUpdateIndexRoot(c) ==
    /\ Now(c, "update_index_root")
    /\ LET o == indexOwner
       IN  IF o = None
           THEN Ignored(c, c) \/ (ProcessEnds /\ UNCHANGED kills)
           ELSE IF /\ dbName \in DOMAIN view[o].registry
                   /\ CanLoad(view[o], dbName)
                   /\ <<Call(c).table, Call(c).col>> \in DOMAIN Meta(o).indexes
           THEN Changes(c, o, Meta(o), Save(dbName, o))
           ELSE Ignored(c, o)

\* The counters change in memory only; ResetStatistics saves.
CallUpdateReadCount(c) ==
    /\ Now(c, "update_read_count")
    /\ IF CanLoad(view[c], dbName) THEN Changes(c, c, UpdateIOStats(Meta(c), 1), <<>>) ELSE Throws(c)

CallResetStatistics(c) ==
    /\ Now(c, "reset_statistics")
    /\ IF CanLoad(view[c], dbName)
       THEN Changes(c, c, ResetStatistics(Meta(c)), Save(dbName, c))
       ELSE Throws(c)

-----------------------------------------------------------------------------

Session(c) == Connect(c) \/ Login(c) \/ Leave(c) \/ Left(c)

Statement(c) ==
    \/ ShowTables(c)
    \/ Configure(c)
    \/ \E d \in Database : UseDatabase(c, d) \/ CreateDatabase(c, d) \/ DropDatabase(c, d)
    \/ \E t \in TableName :
         \/ DropTableStatement(c, t)
         \/ \E def \in Definition : CreateTableStatement(c, t, def)
         \/ \E x \in ColumnName : AddColumnStatement(c, t, x) \/ DropColumnStatement(c, t, x)
    \/ \E op \in {"update_read_count", "reset_statistics"} : StatisticsStatement(c, op)

CallStep(c) ==
    \/ Open(c) \/ Write(c) \/ LostSave(c)
    \/ Register(c) \/ NewMetadata(c) \/ Unregister(c) \/ RemoveDirectory(c)
    \/ CallCreateTable(c) \/ CallDropTable(c) \/ CallAddColumn(c) \/ CallDropColumn(c)
    \/ CallSetPrimaryKey(c) \/ CallSetNullable(c) \/ CallSetUnique(c)
    \/ CallCreateIndex(c) \/ CallUpdateIndexRoot(c)
    \/ CallUpdateReadCount(c) \/ CallResetStatistics(c)

Next == Kill \/ \E c \in Client : Session(c) \/ Statement(c) \/ CallStep(c)

Spec == Init /\ [][Next]_vars

-----------------------------------------------------------------------------
(* Properties *)

\* Every metadata there is, in memory or in a file.
Metadatas == {metaFile[d] : d \in DOMAIN metaFile}
             \cup UNION {{view[c].metas[d] : d \in DOMAIN view[c].metas} : c \in Client}
Registries == {registryFile} \cup {view[c].registry : c \in Client}

\* No two tables, indexes or databases of one catalog share an id, whoever
\* created and dropped what before, on a file that was stale or cut short.
IdsAreUnique ==
    /\ \A m \in Metadatas : IdsAreDistinct(m.tables) /\ IdsAreDistinct(m.indexes)
    /\ \A r \in Registries : IdsAreDistinct(r)

\* An index never outlives its table, nor passes to another table that gets
\* the same id: DropTable takes the indexes with it, even when the session
\* that made them is not the one that drops.
IndexesHaveTheirTable ==
    \A m \in Metadatas : \A i \in DOMAIN m.indexes : IndexHasItsTable(m, i)

\* Two columns of a table never claim the same bytes of a record, after any
\* number of columns dropped and added (AddColumn); and until the first DROP
\* TABLE no two tables of a database share a page, if sessions follow one
\* another.  (The page of a new table is the number of tables, executor.cpp:710:
\* after a DROP TABLE it is the page of a table that is still there.)
ColumnAreasAreDisjoint(m) == \A t \in DOMAIN m.tables : ColumnsDisjoint(m.tables[t])
StorageIsDisjoint ==
    \A m \in Metadatas :
        /\ ColumnAreasAreDisjoint(m)
        /\ serial /\ ~m.tableDropped => PagesDistinct(m)

\* An index is on the columns it was made on, until a column is dropped.
IndexesListTheirColumns ==
    \A m \in Metadatas : \A i \in DOMAIN m.indexes :
        (IndexHasItsTable(m, i) /\ ~m.tables[m.indexes[i].of].shrunk) => IndexListsItsColumns(m, i)

\* As long as sessions follow one another and the process is never killed in
\* the middle of a statement, no session, disconnection or kill loses anything
\* of what statements have done to the catalog.
SerialSessionsLoseNothing ==
    serial =>
      /\ \A c \in Client : mode[c] # "out" =>
           /\ view[c].registry = latest.registry
           /\ view[c].config = latest.config
           /\ \A d \in DOMAIN view[c].metas : view[c].metas[d] = latest.metas[d]
      /\ (\A c \in Client : mode[c] = "out") =>
           [registry |-> registryFile, config |-> configFile, metas |-> metaFile] = latest

=============================================================================
