----------------------------- MODULE ProviderIndex -----------------------------
(***************************************************************************)
(* ProviderIndex and its two implementations, run side by side on the same *)
(* calls: a map from files to sets of URLs, and a table of rows with a     *)
(* UNIQUE pair of file and URL.  Each call is one step under one lock.     *)
(***************************************************************************)
EXTENDS Integers, FiniteSets

CONSTANTS
    Tracked,          \* file hashes
    Urls

VARIABLES
    locations,        \* in memory: file -> set of URLs, {} for no entry
    rows,             \* in SQLite: pairs of file and URL
    answers,          \* what each of the two answered last
    strayed           \* history: files of which an update named a location
                      \* that was not there, or a new one that was

indexVars == <<locations, rows, answers, strayed>>

IndexInit ==
    /\ locations = [f \in Tracked |-> {}]
    /\ rows = {}
    /\ answers = <<"ok", "ok">>
    /\ strayed = {}

-----------------------------------------------------------------------------
RowsOf(f) == {r \in rows : r[1] = f}

(* register: insert, INSERT OR IGNORE. *)
RegisterLocation(f, u) ==
    /\ locations' = [locations EXCEPT ![f] = @ \union {u}]
    /\ rows' = rows \union {<<f, u>>}
    /\ answers' = <<"ok", "ok">>
    /\ UNCHANGED strayed

(* Mutant: an update inserts, and leaves the old location. *)
UpdatedAsInsert(f, old, new) == locations[f] \union {new}

(* update_location in memory: remove, if it is there, and insert.          *)
Updated(f, old, new) == (locations[f] \ {old}) \union {new}

(* update_location: the map asks only whether it knows the file, the table *)
(* whether it has the row; and it may not have the new one yet.            *)
UpdateLocation(f, old, new) ==
    LET known == locations[f] # {}
        row == <<f, old>> \in rows
        taken == row /\ old # new /\ <<f, new>> \in rows IN
    /\ locations' = IF known THEN [locations EXCEPT ![f] = Updated(f, old, new)] ELSE locations
    /\ rows' = IF row /\ ~taken THEN (rows \ {<<f, old>>}) \union {<<f, new>>} ELSE rows
    /\ answers' = <<IF known THEN "ok" ELSE "not found",
                    IF ~row THEN "not found" ELSE IF taken THEN "constraint" ELSE "ok">>
    /\ strayed' = IF known /\ (~row \/ taken) THEN strayed \union {f} ELSE strayed

(* remove_location. *)
RemoveLocation(f, u) ==
    /\ locations' = [locations EXCEPT ![f] = @ \ {u}]
    /\ rows' = rows \ {<<f, u>>}
    /\ answers' = <<"ok", "ok">>
    /\ UNCHANGED strayed

(* unregister. *)
UnregisterFile(f) ==
    /\ locations' = [locations EXCEPT ![f] = {}]
    /\ rows' = rows \ RowsOf(f)
    /\ answers' = <<"ok", "ok">>
    /\ strayed' = strayed \ {f}

(* lookup, exists and list_at_provider of each. *)
Lookup(f) == <<locations[f], {r[2] : r \in RowsOf(f)}>>
HasLocation(f) == <<locations[f] # {}, Cardinality(RowsOf(f)) > 0>>
AtProvider(u) == <<{f \in Tracked : u \in locations[f]}, {f \in Tracked : <<f, u>> \in rows}>>

IndexNext ==
    \E f \in Tracked :
       \/ \E u \in Urls : RegisterLocation(f, u) \/ RemoveLocation(f, u)
       \/ \E old, new \in Urls : UpdateLocation(f, old, new)
       \/ UnregisterFile(f)

IndexSpec == IndexInit /\ [][IndexNext]_indexVars

-----------------------------------------------------------------------------
(* The two indexes answer alike and hold alike, file by file, from the     *)
(* start or its unregister on, until an update of that file names an old   *)
(* location that is not there or a new one that is (provider.rs,           *)
(* sqlite_provider.rs).                                                    *)
IndexesAgree ==
    /\ \A f \in Tracked \ strayed :
          Lookup(f)[1] = Lookup(f)[2] /\ HasLocation(f)[1] = HasLocation(f)[2]
    /\ \A u \in Urls : LET at == AtProvider(u) IN at[1] \ strayed = at[2] \ strayed
    /\ strayed = {} => answers[1] = answers[2]
===============================================================================
