------------------------------- MODULE Ownership -------------------------------
(***************************************************************************)
(* OwnershipStore and its two implementations.  register is one step under *)
(* one lock in both, and so is transfer in memory; unregister, and         *)
(* transfer in SQLite, ask is_owner under one lock and change under        *)
(* another.                                                                *)
(***************************************************************************)
EXTENDS Integers, FiniteSets

CONSTANTS
    Keys,             \* fingerprints
    Blobs,            \* file hashes
    Nobody,           \* the owner of an unregistered file
    Callers,          \* concurrent calls
    MaxOwnerCalls     \* a bound on the calls

ASSUME OwnershipAssumption == Nobody \notin Keys /\ MaxOwnerCalls \in Nat

VARIABLES
    sqlite,           \* which implementation runs
    owner,            \* file -> owner
    does,             \* what each caller has checked and does next
    ownerCalls,
    taken             \* history: file -> how a call first changed it that was
                      \* not its owner's: after its key had given the file
                      \* away ("late"), or for nothing ("stolen")

ownerVars == <<sqlite, owner, does, ownerCalls, taken>>

Rest == [op |-> "none"]

OwnerInit ==
    /\ sqlite \in BOOLEAN
    /\ owner = [f \in Blobs |-> Nobody]
    /\ does = [p \in Callers |-> Rest]
    /\ ownerCalls = 0
    /\ taken = [f \in Blobs |-> "no"]

-----------------------------------------------------------------------------
Calls(p) ==
    /\ does[p] = Rest
    /\ ownerCalls < MaxOwnerCalls
    /\ ownerCalls' = ownerCalls + 1

IsOwner(k, f) == owner[f] = k

(* register: the first owner stays. *)
RegisterOwner(p, k, f) ==
    /\ Calls(p)
    /\ owner' = [owner EXCEPT ![f] = IF @ = Nobody THEN k ELSE @]
    /\ UNCHANGED <<sqlite, does, taken>>

(* The other calls of a key that have passed their check for a file.      *)
Passed(p, k, f) ==
    {q \in Callers \ {p} : does[q].op # "none" /\ does[q].key = k /\ does[q].file = f}

(* A file changes hands, or loses its owner; the SQLite statements need a  *)
(* row for that.  A call "knows" until its key gives the file away.        *)
Change(p, k, f, to, knows) ==
    /\ owner' = [owner EXCEPT ![f] = IF sqlite /\ @ = Nobody THEN Nobody ELSE to]
    /\ taken' = IF owner[f] \in {k, Nobody} \/ taken[f] # "no" THEN taken
                ELSE [taken EXCEPT ![f] = IF knows THEN "stolen" ELSE "late"]
    /\ does' = [q \in Callers |->
                  IF q = p THEN Rest
                  ELSE IF IsOwner(k, f) /\ q \in Passed(p, k, f)
                  THEN [does[q] EXCEPT !.knows = FALSE] ELSE does[q]]

(* transfer in memory. *)
TransferMemory(p, k, to, f) ==
    /\ ~sqlite
    /\ Calls(p)
    /\ IF IsOwner(k, f) THEN Change(p, k, f, to, TRUE) ELSE UNCHANGED <<owner, does, taken>>
    /\ UNCHANGED sqlite

(* Mutant: anyone passes. *)
CheckNothing(p, op, k, to, f) ==
    /\ op = "transfer" => sqlite
    /\ Calls(p)
    /\ does' = [does EXCEPT ![p] = [op |-> op, key |-> k, to |-> to, file |-> f,
                                  knows |-> TRUE]]
    /\ UNCHANGED <<sqlite, owner, taken>>

(* is_owner, before an unregister or a transfer in SQLite.                 *)
CheckIsOwner(p, op, k, to, f) ==
    /\ op = "transfer" => sqlite
    /\ Calls(p)
    /\ does' = IF IsOwner(k, f)
               THEN [does EXCEPT ![p] = [op |-> op, key |-> k, to |-> to, file |-> f,
                                  knows |-> TRUE]]
               ELSE does
    /\ UNCHANGED <<sqlite, owner, taken>>

(* UPDATE, which needs a row, and DELETE or remove, whoever owns the file. *)
Apply(p) ==
    /\ does[p].op # "none"
    /\ Change(p, does[p].key, does[p].file,
              IF does[p].op = "transfer" THEN does[p].to ELSE Nobody, does[p].knows)
    /\ UNCHANGED <<sqlite, ownerCalls>>

OwnerNext ==
    \E p \in Callers :
       \/ \E k \in Keys, f \in Blobs :
             \/ RegisterOwner(p, k, f)
             \/ CheckIsOwner(p, "unregister", k, Nobody, f)
             \/ \E to \in Keys : \/ TransferMemory(p, k, to, f)
                                 \/ CheckIsOwner(p, "transfer", k, to, f)
       \/ Apply(p)

OwnerSpec == OwnerInit /\ [][OwnerNext]_ownerVars

-----------------------------------------------------------------------------
(* Only the current owner transfers or unregisters a file: the first call  *)
(* that strikes the file of another was made by a key that had given the   *)
(* file away itself, between that call's check and its change.  No         *)
(* interleaving of the calls of strangers starts it (transfer and          *)
(* unregister of both stores).                                             *)
OwnerDecides == \A f \in Blobs : taken[f] # "stolen"
===============================================================================
