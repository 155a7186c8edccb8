-------------------------------- MODULE Schema ---------------------------------
(***************************************************************************)
(* The SQLite file and those who open it.  The stores' own open runs       *)
(* init_schema, a sequence of statements that each commit by themselves;   *)
(* the server creates the tables of accounts, shares and nonces and wraps  *)
(* its connection into the other stores as it is.                          *)
(***************************************************************************)
EXTENDS Integers, Sequences, FiniteSets

CONSTANTS
    Openers,          \* processes that open the file
    MaxOpens,         \* bounds on the opens
    MaxCuts           \* and on openers that are killed

ASSUME SchemaAssumption == MaxOpens \in Nat /\ MaxCuts \in Nat

VARIABLES
    versions,         \* the rows of schema_version
    schema,           \* table or index -> "none", "current" or, before version
                      \* 3, "capabilities", the name its column then had
    opener,           \* what each opener does next; alone, a history: nobody
                      \* else has worked on the file since it opened
    opens, cuts,
    cut               \* history: an opener was killed after it had renamed a
                      \* column and before it had noted the new version

schemaVars == <<versions, schema, opener, opens, cuts, cut>>

(* The batch of init_schema, statement by statement. *)
Creates == <<"schema_version", "ownership", "idx_ownership_owner", "access_grants",
             "idx_grants_file", "idx_grants_grantee", "keyspaces", "keyspace_docs",
             "idx_keyspace_docs_id_version", "keyspace_members", "idx_keyspace_members_fp",
             "grants", "idx_grants_subject", "idx_grants_keyspace">>
SchemaObjects == {Creates[n] : n \in DOMAIN Creates}
Phase_B == {Creates[n] : n \in 7 .. Len(Creates)}

Renamed == {"keyspace_members", "grants"}
SchemaVersion == 3
Away == [st |-> "away"]

(* A new file, one of version 1, which has nothing of Phase B, one of      *)
(* version 2 and one of version 3.                                         *)
SchemaInit ==
    /\ \E v \in 0 .. 3 :
          /\ versions = IF v = 0 THEN {} ELSE {v}
          /\ schema = [x \in SchemaObjects |->
                CASE v = 0 \/ (v = 1 /\ x \in Phase_B) -> "none"
                  [] v = 2 /\ x \in Renamed -> "capabilities"
                  [] OTHER -> "current"]
    /\ opener = [o \in Openers |-> Away]
    /\ opens = 0 /\ cuts = 0
    /\ cut = FALSE

-----------------------------------------------------------------------------
Least(S) == CHOOSE v \in S : \A w \in S : v <= w

(* current_version: the first row by its primary key, 0 for none.          *)
CurrentVersion == IF versions = {} THEN 0 ELSE Least(versions)

Working == {o \in Openers : opener[o].st \notin {"away", "open", "failed", "serving"}}

GoOn(o, st) == opener' = [opener EXCEPT ![o].st = st]

(* open of a store: init_schema reads the version ... *)
Open(o) ==
    /\ opener[o].st \in {"away", "open", "failed"}
    /\ opens < MaxOpens
    /\ opens' = opens + 1
    /\ opener' = [q \in Openers |->
          CASE q = o -> [st |-> "create", prior |-> CurrentVersion, next |-> 1,
                         alone |-> Working = {}]
            [] q \in Working -> [opener[q] EXCEPT !.alone = FALSE]
            [] OTHER -> opener[q]]
    /\ UNCHANGED <<versions, schema, cuts, cut>>

(* Mutant: the gate lets every older version through. *)
MigratesOlder(prior) == prior < SchemaVersion

(* ... and creates what is missing, one statement of the batch at a time;  *)
(* a file of version 2 is then migrated: ...                               *)
Migrates(prior) == prior >= 2 /\ prior < SchemaVersion

Create(o) ==
    LET n == opener[o].next IN
    /\ opener[o].st = "create"
    /\ schema' = IF schema[Creates[n]] = "none"
                 THEN [schema EXCEPT ![Creates[n]] = "current"] ELSE schema
    /\ IF n < Len(Creates)
       THEN opener' = [opener EXCEPT ![o].next = n + 1]
       ELSE GoOn(o, IF Migrates(opener[o].prior) THEN "keyspace_members" ELSE "forget")
    /\ UNCHANGED <<versions, opens, cuts, cut>>

(* ... migrate_v2_to_v3 renames two columns; a column that is not there    *)
(* makes the open fail, ...                                                *)
Rename(o) ==
    LET t == opener[o].st IN
    /\ t \in Renamed
    /\ IF schema[t] = "capabilities"
       THEN /\ schema' = [schema EXCEPT ![t] = "current"]
            /\ GoOn(o, IF t = "keyspace_members" THEN "grants" ELSE "forget")
       ELSE GoOn(o, "failed") /\ UNCHANGED schema
    /\ UNCHANGED <<versions, opens, cuts, cut>>

(* ... and the version is replaced. *)
Forget(o) ==
    /\ opener[o].st = "forget"
    /\ versions' = {}
    /\ GoOn(o, "note")
    /\ UNCHANGED <<schema, opens, cuts, cut>>

Note(o) ==
    /\ opener[o].st = "note"
    /\ IF SchemaVersion \in versions
       THEN GoOn(o, "failed") /\ UNCHANGED versions
       ELSE versions' = versions \union {SchemaVersion} /\ GoOn(o, "open")
    /\ UNCHANGED <<schema, opens, cuts, cut>>

(* An opener is killed. *)
Cut(o) ==
    /\ o \in Working
    /\ cuts < MaxCuts
    /\ cuts' = cuts + 1
    /\ cut' = (cut \/ (opener[o].st \in {"grants", "forget"} /\ opener[o].prior = 2))
    /\ opener' = [opener EXCEPT ![o] = Away]
    /\ UNCHANGED <<versions, schema, opens>>

(* AppState::from_config with SQLite: the keyspace and grant stores take   *)
(* the connection, and the file, as they are.                              *)
Serve(o) ==
    /\ opener[o].st = "away"
    /\ opens < MaxOpens
    /\ opens' = opens + 1
    /\ opener' = [opener EXCEPT ![o] = [st |-> "serving"]]
    /\ UNCHANGED <<versions, schema, cuts, cut>>

SchemaNext ==
    \E o \in Openers :
       \/ Open(o) \/ Create(o) \/ Rename(o) \/ Forget(o) \/ Note(o) \/ Cut(o)
       \/ Serve(o)

SchemaSpec == SchemaInit /\ [][SchemaNext]_schemaVars

-----------------------------------------------------------------------------
Usable == \A x \in SchemaObjects : schema[x] = "current"

(* Once an open has succeeded, every table and index is there in its       *)
(* present form, and the file is at this version when all are done; an     *)
(* open fails only if another worked on the file during it, or if one had  *)
(* been killed between the first rename and the version: a kill between    *)
(* any other two statements of init_schema is made good by the next open.  *)
OpensAgain ==
    /\ (\E o \in Openers : opener[o].st = "open") =>
          /\ Usable
          /\ Working = {} /\ cuts = 0 => versions = {SchemaVersion}
    /\ \A o \in Openers : opener[o].st = "failed" => ~opener[o].alone \/ cut

(* The keyspaces and the grants of a server that has started can be used   *)
(* ("Schema is created via init_schema", sqlite/keyspace.rs:22 and         *)
(* sqlite/grant.rs:21).                                                    *)
ServingIsUsable ==
    (\E o \in Openers : opener[o].st = "serving") =>
        \A t \in {"keyspaces", "keyspace_docs", "keyspace_members", "grants"} :
            schema[t] = "current"
===============================================================================
