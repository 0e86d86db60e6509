------------------------------- MODULE DbSetup -------------------------------
(***************************************************************************)
(* "indexer setup create-db" and "indexer setup create-user".              *)
(*                                                                         *)
(* create-db sends its statements one by one, outside any transaction, and *)
(* stops at the first one that fails.  Several runs of it may follow each  *)
(* other or run side by side; a run may lose its connection or be killed   *)
(* at any statement, before or after the server applied it.  The script is *)
(* the real one: every type, table and view of pkgs/schema.  A statement   *)
(* is the pair <<kind, name>>, and so is the object that it makes.         *)
(***************************************************************************)
EXTENDS Naturals, Sequences, SequencesExt

CONSTANTS
    Runs,           \* runs of create-db
    Chains,         \* the --chain-name arguments
    Users,          \* database users that create-user is called for
    Versions,       \* TimescaleDB versions, as <<major, minor, patch>>
    MaxLosses       \* bound: statements whose answer is lost

ASSUME DbSetupAssumption ==
    /\ Runs # {} /\ Chains # {} /\ MaxLosses \in Nat
    /\ Versions \subseteq Nat \X Nat \X Nat

VARIABLES
    version,    \* of the TimescaleDB extension on the server
    made,       \* what exists in the new database: the run that made each object
    at,         \* the number of the statement a run sends next
    outcome,    \* how a run stands, and how it ended
    chain,      \* its --chain-name
    roles,      \* users that exist on the server
    access,     \* the tables and views each of them may read
    command,    \* create-user: which privilege it is about to grant, and where
    report,     \* how the last create-user for a user ended
    losses

allVars == <<version, made, at, outcome, chain, roles, access, command, report, losses>>
userVars == <<roles, access, command, report>>

schema == DOMAIN made

-----------------------------------------------------------------------------
(* What pkgs/schema lists *)

\* The order createDatabaseTypes creates them in.
SpecialTypes == <<"amount", "attribute", "event">>

RegularTables == <<"gno_addresses", "gno_validators", "api_keys", "schema_migrations">>

Hypertables ==
    <<"blocks", "validator_block_signing", "address_tx", "transaction_general",
      "bank_msg_send", "bank_msg_multi_send", "vm_msg_call", "vm_msg_add_package",
      "vm_msg_run", "tx_hash_id", "auth_msg_create_session",
      "auth_msg_revoke_session", "auth_msg_revoke_all_sessions">>

AllAggregates ==
    <<"tx_counter", "fee_volume", "daily_active_accounts", "validator_signing_counter",
      "block_counter">>

\* FromTable of every aggregate.
FromTable == [v \in ToSet(AllAggregates) |->
    CASE v \in {"tx_counter", "fee_volume"}  -> "transaction_general"
      [] v = "daily_active_accounts"         -> "address_tx"
      [] v = "validator_signing_counter"     -> "validator_block_signing"
      [] v = "block_counter"                 -> "blocks"]

\* Tables with a column of type amount[] or event[], by their dbtype tags.
AmountTables == {"bank_msg_send", "bank_msg_multi_send", "vm_msg_call",
                 "vm_msg_add_package", "vm_msg_run", "auth_msg_create_session"}
EventTables == {"transaction_general"}
ChainlessTables == {"api_keys", "schema_migrations"}

AllTableNames == ToSet(RegularTables) \cup ToSet(Hypertables)
AllAggrTableNames == ToSet(AllAggregates)

-----------------------------------------------------------------------------
(* The script *)

Each(kind, names) == [i \in DOMAIN names |-> <<kind, names[i]>>]

\* The five statements of createContinuousAggregates for a view.
ViewStatements(v) == <<<<"view", v>>, <<"columnstore", v>>, <<"policy", v>>,
                       <<"interval", v>>, <<"realtime", v>>>>

\* View after view.
AggregateStatements ==
    [i \in 1 .. 5 * Len(AllAggregates) |->
        ViewStatements(AllAggregates[1 + ((i - 1) \div 5)])[1 + ((i - 1) % 5)]]

\* Mutant of Script: the enum of the chains is created after the tables.
ScriptEnumLast == [c \in Chains |->
    <<<<"database", "new">>>> \o Each("type", SpecialTypes)
    \o Each("table", RegularTables) \o Each("hypertable", Hypertables)
    \o <<<<"enum", "chain_name">>, <<"value", c>>>>
    \o AggregateStatements]

\* initializeNewDatabase, as the statements it sends.
Script == [c \in Chains |->
    <<<<"database", "new">>>> \o Each("type", SpecialTypes)
    \o <<<<"enum", "chain_name">>, <<"value", c>>>>
    \o Each("table", RegularTables) \o Each("hypertable", Hypertables)
    \o AggregateStatements]

TypesOf(t) ==
    (IF t \in ChainlessTables THEN {} ELSE {<<"enum", "chain_name">>})
    \cup (IF t \in AmountTables THEN {<<"type", "amount">>} ELSE {})
    \cup (IF t \in EventTables THEN {<<"type", "event">>} ELSE {})

\* The statements that set up a view are in the order the server asks for.
SettingsNeed(s) ==
    IF s[1] = "interval" THEN {<<"columnstore", s[2]>>, <<"policy", s[2]>>} ELSE {<<"view", s[2]>>}

\* What the server must have for a statement to be accepted: the column types of
\* a table, the hypertable under a view, the view under its settings.
Needs(s) ==
    CASE s = <<"type", "event">>          -> {<<"type", "attribute">>}
      [] s[1] = "value"                   -> {<<"enum", "chain_name">>}
      [] s[1] \in {"table", "hypertable"} -> TypesOf(s[2])
      [] s[1] = "view"                    -> {<<"hypertable", FromTable[s[2]]>>}
      [] s[1] \in {"columnstore", "policy", "interval", "realtime"} -> SettingsNeed(s)
      [] OTHER -> {}

\* Mutant of Repeatable: the types are created with IF NOT EXISTS.
RepeatableTypes(s) ==
    s[1] \in {"table", "hypertable", "columnstore", "realtime", "type", "enum", "value"}

\* CREATE TABLE IF NOT EXISTS and ALTER ... SET; all else exists only once.
Repeatable(s) == s[1] \in {"table", "hypertable", "columnstore", "realtime"}

\* 2.19.3 and later.
IsModernVersion(v) ==
    \/ v[1] > 2
    \/ v[1] = 2 /\ v[2] > 19
    \/ v[1] = 2 /\ v[2] = 19 /\ v[3] >= 3

-----------------------------------------------------------------------------
(* create-db *)

NoCommand == [privilege |-> "none", db |-> "none"]

SetupInit ==
    /\ version \in Versions
    /\ made = [o \in {} |-> {}]
    /\ at = [r \in Runs |-> 0]
    /\ outcome = [r \in Runs |-> "unstarted"]
    /\ chain \in [Runs -> Chains]
    /\ roles = {} /\ access = [u \in Users |-> {}]
    /\ command = [u \in Users |-> NoCommand]
    /\ report = [u \in Users |-> "none"]
    /\ losses = 0

Ends(r, how) == outcome' = [outcome EXCEPT ![r] = how] /\ UNCHANGED at

\* createDatabaseSetup: a run that is logged into the new database leaves it as it
\* is and reports success, any other goes through the script.
CreateDatabaseSetup(r) ==
    /\ outcome[r] = "unstarted"
    /\ \/ /\ outcome' = [outcome EXCEPT ![r] = "running"]
          /\ at' = [at EXCEPT ![r] = 1]
       \/ /\ <<"database", "new">> \in schema
          /\ Ends(r, "skipped")
    /\ UNCHANGED <<version, made, chain, userVars, losses>>

Statement(r) == Script[chain[r]][at[r]]

Apply(r) == made' = IF Statement(r) \in schema THEN made
                    ELSE [o \in schema \cup {Statement(r)} |->
                              IF o \in schema THEN made[o] ELSE r]

Fulfilled(r) ==
    /\ Needs(Statement(r)) \subseteq schema
    /\ Statement(r)[1] = "hypertable" => IsModernVersion(version)

\* A run's next statement succeeds.  CreateDatabase forgives a database that is
\* already there when it recognises the server's message.
Succeeds(r) ==
    /\ outcome[r] = "running"
    /\ Fulfilled(r)
    /\ Statement(r) \in schema => Repeatable(Statement(r)) \/ Statement(r)[1] = "database"
    /\ Apply(r)
    /\ IF at[r] = Len(Script[chain[r]]) THEN Ends(r, "created")
       ELSE at' = [at EXCEPT ![r] = @ + 1] /\ UNCHANGED outcome
    /\ UNCHANGED <<version, chain, userVars, losses>>

\* The server rejects the statement, or the version is too old for a hypertable
\* and the process exits; the script ends there.
Rejected(r) ==
    /\ outcome[r] = "running"
    /\ \/ /\ Statement(r) \in schema /\ ~Repeatable(Statement(r))
          /\ Ends(r, "exists")
       \/ /\ ~(Needs(Statement(r)) \subseteq schema)
          /\ Ends(r, "missing")
       \/ /\ Statement(r)[1] = "hypertable" /\ ~IsModernVersion(version)
          /\ Ends(r, "unsupported")
    /\ UNCHANGED <<version, made, chain, userVars, losses>>

\* Mutant of Lost: an error of a view's statements is logged and the script goes on.
LostIsLogged(r) ==
    /\ outcome[r] = "running" /\ losses < MaxLosses /\ losses' = losses + 1
    /\ UNCHANGED made
    /\ IF Statement(r)[1] = "realtime"
       THEN IF at[r] = Len(Script[chain[r]]) THEN Ends(r, "created")
            ELSE at' = [at EXCEPT ![r] = @ + 1] /\ UNCHANGED outcome
       ELSE Ends(r, "lost")
    /\ UNCHANGED <<version, chain, userVars>>

\* The connection breaks or the process is killed: the statement was applied or not.
Lost(r) ==
    /\ outcome[r] = "running" /\ losses < MaxLosses /\ losses' = losses + 1
    /\ UNCHANGED made \/ (Statement(r) \notin schema /\ Fulfilled(r) /\ Apply(r))
    /\ Ends(r, "lost")
    /\ UNCHANGED <<version, chain, userVars>>

-----------------------------------------------------------------------------
(* create-user *)

setupVars == <<version, made, at, outcome, chain>>

\* CREATE USER, in whichever database the command is logged into; a user that
\* exists already is a warning.
CreateUser(u, p, d) ==
    /\ command[u] = NoCommand
    /\ d = "new" => <<"database", "new">> \in schema
    /\ roles' = roles \cup {u}
    /\ command' = [command EXCEPT ![u] = [privilege |-> p, db |-> d]]
    /\ report' = [report EXCEPT ![u] = "none"]
    /\ UNCHANGED <<setupVars, access, losses>>

\* The tables and views that the command names for a privilege.
TableNames(p) ==
    CASE p = "reader" -> AllTableNames \cup AllAggrTableNames
      [] p = "writer" -> AllTableNames
      [] p = "keymgr" -> {"api_keys"}

Relations == {o[2] : o \in {s \in schema : s[1] \in {"table", "hypertable", "view"}}}

\* Mutant of AppointPrivileges: what is not there yet is left out of the grants.
AppointExisting(u) ==
    LET p == command[u].privilege IN
    /\ p # "none"
    /\ access' = [access EXCEPT ![u] =
                      @ \cup IF command[u].db = "new" THEN TableNames(p) \cap Relations ELSE {}]
    /\ report' = [report EXCEPT ![u] = p]
    /\ command' = [command EXCEPT ![u] = NoCommand]
    /\ UNCHANGED <<setupVars, roles, losses>>

\* All GRANTs go out as one message, which the server runs as one transaction: one
\* name that is not a table of that database undoes them all.
AppointPrivileges(u) ==
    LET p == command[u].privilege IN
    /\ p # "none"
    /\ IF command[u].db = "new" /\ TableNames(p) \subseteq Relations
       THEN /\ access' = [access EXCEPT ![u] = @ \cup TableNames(p)]
            /\ report' = [report EXCEPT ![u] = p]
       ELSE /\ report' = [report EXCEPT ![u] = "refused"]
            /\ UNCHANGED access
    /\ command' = [command EXCEPT ![u] = NoCommand]
    /\ UNCHANGED <<setupVars, roles, losses>>

\* The command dies between the user and the grants.
CreateUserDies(u) ==
    /\ command[u] # NoCommand /\ losses < MaxLosses /\ losses' = losses + 1
    /\ command' = [command EXCEPT ![u] = NoCommand]
    /\ report' = [report EXCEPT ![u] = "lost"]
    /\ UNCHANGED <<setupVars, roles, access>>

SetupNext ==
    \/ \E r \in Runs : CreateDatabaseSetup(r) \/ Succeeds(r) \/ Rejected(r) \/ Lost(r)
    \/ \E u \in Users : \/ \E p \in {"reader", "writer", "keymgr"}, d \in {"postgres", "new"} :
                              CreateUser(u, p, d)
                        \/ AppointPrivileges(u) \/ CreateUserDies(u)

SetupSpec == SetupInit /\ [][SetupNext]_allVars

-----------------------------------------------------------------------------

Objects == UNION {ToSet(Script[c]) : c \in Chains}

Complete(r) == \A o \in Objects : o \in schema \/ (o[1] = "value" /\ o[2] # chain[r])

\* Every variable has its type; a run is never past the end of its script.
SetupTypeOK ==
    /\ version \in Versions
    /\ schema \subseteq Objects /\ \A o \in schema : made[o] \in Runs
    /\ outcome \in [Runs -> {"unstarted", "running", "skipped", "created", "exists",
                             "missing", "unsupported", "lost"}]
    /\ \A r \in Runs : at[r] \in 0 .. Len(Script[chain[r]]) /\ chain[r] \in Chains
    /\ roles \subseteq Users
    /\ access \in [Users -> SUBSET (AllTableNames \cup AllAggrTableNames)]
    /\ \A u \in Users :
          /\ command[u].privilege \in {"none", "reader", "writer", "keymgr"}
          /\ command[u].db \in {"none", "postgres", "new"}
          /\ report[u] \in {"none", "reader", "writer", "keymgr", "refused", "lost"}
    /\ losses \in 0 .. MaxLosses

\* The schema is the work of one run: whichever runs of create-db follow or
\* overlap each other, all objects in the new database and the chain in its enum
\* come from the same one.  The statements are no transaction and the tables are
\* IF NOT EXISTS: it is the first CREATE TYPE that keeps the others out.
BuiltByOneRun ==
    \E r \in Runs : \A o \in schema \ {<<"database", "new">>} :
        made[o] = r /\ (o[1] = "value" => o[2] = chain[r])

\* 2.19.3 as a number, for versions below 100.
Number(v) == 10000 * v[1] + 100 * v[2] + v[3]

\* The lists of pkgs/schema are in an order that the server accepts: no run
\* fails for a type, table or view that its script makes later, and none for a
\* version from 2.19.3 on.
ScriptIsSound ==
    \A r \in Runs : /\ outcome[r] # "missing"
                    /\ outcome[r] = "unsupported" => Number(version) < 21903

\* A run that reports success has left the whole schema, hypertables of a
\* supported version included.
CreatedIsComplete ==
    \A r \in Runs : outcome[r] = "created" =>
        /\ Complete(r)
        /\ Number(version) >= 21903

\* What create-user reports is what the user can do: a reader sees every table and
\* view, a writer every table; so neither is reported before create-db came that far.
ReportedIsGranted ==
    \A u \in Users : report[u] \in {"reader", "writer", "keymgr"} =>
        /\ TableNames(report[u]) \subseteq access[u]
        /\ access[u] \subseteq Relations

\* docs/setup.md and README.md: create-user is called with --db-name postgres, the
\* database that create-db was called with, once that one is through.
DocumentedCommandGrants ==
    [][\A u \in Users :
          /\ report'[u] = "refused" /\ report[u] # "refused"
          /\ command[u].db = "postgres"
          => \A r \in Runs : outcome[r] # "created"]_allVars

=============================================================================
