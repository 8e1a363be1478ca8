----------------------------- MODULE Migration -----------------------------
(***************************************************************************)
(* The database as three programs see it: the migration runner that        *)
(* creates or reconciles the schema and provisions the runtime role        *)
(* (backend/scripts/run_migration.py), the validator                       *)
(* (database/validate_schema.py) and the server, which refuses to work     *)
(* under a role with privileges (backend/db_config.py).                    *)
(*                                                                         *)
(* A run of the migration is one transaction under an advisory lock, hence *)
(* one step: it commits verified or leaves everything as it was.  The      *)
(* schema is modelled by where it departs from database/schema_contract.py:*)
(* a set of defects, each a kind of departure that some program looks for. *)
(***************************************************************************)
EXTENDS Naturals, FiniteSets

CONSTANTS
    Production,  \* production_guards_required()
    Repairs,     \* the defects each SQL artifact removes
    Legacies,    \* defects a database may have before the first migration
    LegacyRoles  \* attributes its hiresense_app role may have

Modes == {"schema", "reconcile"}

\* Departures of the tables from the contract, ...
TableDefects == {"missing table", "forbidden table", "missing column",
                 "unexpected column", "legacy column"}
ZoneDefects == {"naive timestamp", "missing timestamptz"}
IndexDefects == {"missing index", "redundant index", "index not unique"}
CheckDefects == {"missing check", "unvalidated check"}
KeyDefects == {"nullable column", "missing foreign key"}
\* ... of who may reach them, and a table the contract says nothing of.
AccessDefects == {"row security off", "table grant", "schema usage", "missing policy"}

Defects == TableDefects \cup ZoneDefects \cup IndexDefects \cup CheckDefects
             \cup KeyDefects \cup AccessDefects \cup {"extra table"}

\* Attributes of the role; {} is a role that is not there.
Irremovable == {"superuser", "replication", "bypassrls"}
Attributes == Irremovable \cup
    {"exists", "login", "inherit", "createrole", "createdb", "member",
     "owns contract table", "owns other table"}

ASSUME MigrationAssumption ==
    /\ Production \in BOOLEAN
    /\ Repairs \in [Modes -> SUBSET Defects]
    /\ Legacies \subseteq SUBSET Defects
    /\ LegacyRoles \subseteq SUBSET Attributes

VARIABLES
    core,        \* how many of the core tables there are
    defects,     \* where the schema departs from the contract
    role,        \* the attributes of hiresense_app
    migrated     \* a migration has committed

schemaVars == <<core, defects, role, migrated>>

MigrationInit ==
    /\ core \in {"none", "some", "all"}
    /\ defects \in Legacies
    /\ role \in LegacyRoles
    /\ migrated = FALSE

\* _provision_runtime_role: what can be taken away is.
Provisioned(r) ==
    (r \ {"inherit", "createrole", "createdb", "member"}) \cup {"exists", "login"}

\* _preflight
Admitted(mode) == core = IF mode = "schema" THEN "none" ELSE "all"

\* _verify, one group of queries after the other
ZonesVerified(d) == d \cap ZoneDefects = {}
IndexesVerified(d) == d \cap IndexDefects = {}
ChecksVerified(d) == d \cap CheckDefects = {}
KeysVerified(d) == d \cap KeyDefects = {}
AccessVerified(d) == d \cap (AccessDefects \ {"missing policy"}) = {}

\* Slip: columns the contract does not know are not looked for.
TablesVerifiedLoosely(d) == d \cap {"missing table", "forbidden table", "missing column"} = {}

TablesVerified(d) == d \cap TableDefects = {}

SchemaVerified(d) ==
    /\ TablesVerified(d) /\ ZonesVerified(d) /\ IndexesVerified(d)
    /\ ChecksVerified(d) /\ KeysVerified(d) /\ AccessVerified(d)

\* _verify, of the role and its policies; the role may be missing outside
\* production.
RoleVerified(r, d) ==
    /\ Production => "exists" \in r
    /\ "exists" \in r =>
         /\ "login" \in r
         /\ r \cap ({"inherit", "createrole", "createdb"} \cup Irremovable) = {}
         /\ "member" \notin r
         /\ "owns contract table" \notin r
         /\ "missing policy" \notin d

\* main: provision (with a password of the runtime role, which production
\* demands), preflight, apply, verify, commit.  A run that fails or dies
\* anywhere is rolled back.
Migrate(mode) ==
    \E password \in IF Production THEN {TRUE} ELSE BOOLEAN :
      LET r == IF password THEN Provisioned(role) ELSE role
          d == defects \ Repairs[mode]
      IN  /\ password => role \cap Irremovable = {}
          /\ Admitted(mode)
          /\ SchemaVerified(d)
          /\ RoleVerified(r, d)
          /\ core' = "all"
          /\ defects' = d
          /\ role' = r
          /\ migrated' = TRUE

\* Slip: the server looks for the contract's tables only.
IdentityTrustedLoosely ==
    /\ "login" \in role
    /\ role \cap (Irremovable \cup {"createrole", "createdb", "member"}) = {}
    /\ "owns contract table" \notin role

\* _verify_runtime_database_identity: a role that can log in and has no
\* attribute, membership or table of its own
IdentityTrusted == role \ {"inherit"} = {"exists", "login"}

\* _validate_database_contract, of the tables: the contract's and no other
TablesValid == core = "all" /\ defects \cap (TableDefects \cup {"extra table"}) = {}

\* ... and of the rest: of naive timestamps it sees those the contract names.
DetailsValid ==
    defects \cap ({"missing timestamptz"} \cup IndexDefects \cup CheckDefects
                    \cup KeyDefects \cup (AccessDefects \ {"missing policy"})) = {}

Validated == TablesValid /\ DetailsValid

MigrationNext == \E mode \in Modes : Migrate(mode)

MigrationTypeOK ==
    /\ core \in {"none", "some", "all"}
    /\ defects \in SUBSET Defects
    /\ role \in SUBSET Attributes
    /\ migrated \in BOOLEAN

\* What one program commits the others accept: after a migration in
\* production the server trusts its role, unless that role owns a table the
\* contract does not know, and the validator finds nothing but such a table.
MigratedIsServable ==
    migrated /\ Production =>
        /\ "owns other table" \notin role => IdentityTrusted
        /\ "extra table" \notin defects => Validated
=============================================================================
