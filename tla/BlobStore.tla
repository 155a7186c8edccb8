------------------------------- MODULE BlobStore -------------------------------
(***************************************************************************)
(* BlobStorage and its three implementations: a ciphertext and its         *)
(* outboard are two objects under one hash, written, read and deleted one  *)
(* after the other.  In memory each is a map entry, locally a file that    *)
(* fs::write empties before it fills it, in S3 an object of its own.       *)
(*                                                                         *)
(* The contents under a hash are the hash's own, whole or cut short: put   *)
(* checks that, and every caller of put_with_outboard in the repository    *)
(* hashes what it stores.                                                  *)
(***************************************************************************)
EXTENDS Integers, FiniteSets

CONSTANTS
    Hashes,
    Users,          \* concurrent calls
    MaxCalls,       \* bounds on the calls
    MaxFaults       \* and on failing accesses and crashes

ASSUME BlobStoreAssumption == MaxCalls \in Nat /\ MaxFaults \in Nat

VARIABLES
    impl,           \* "memory", "local" or "s3"
    blobs,          \* hash -> "absent", "whole" or "torn"
    outboards,      \* the same for the .obao siblings
    call,           \* what each user's call does next, or was answered
    calls, faults,
    certain         \* history: what a hash must hold, if only calls that ran
                    \* alone and to their end have touched it

blobVars == <<impl, blobs, outboards, call, calls, faults, certain>>

Objects == {"absent", "whole", "torn"}
Pairs == [blob : Objects, outboard : Objects]
Neither == [blob |-> "absent", outboard |-> "absent"]
Free == [st |-> "free"]

BlobInit ==
    /\ impl \in {"memory", "local", "s3"}
    /\ blobs = [h \in Hashes |-> "absent"] /\ outboards = blobs
    /\ call = [u \in Users |-> Free]
    /\ calls = 0 /\ faults = 0
    /\ certain = [h \in Hashes |-> {Neither}]

-----------------------------------------------------------------------------
(* "put_blob" is a put_with_outboard of a small file, whose outboard is    *)
(* empty.                                                                  *)
Puts == {"put", "put_both", "put_blob"}
Gets == {"get", "get_both"}
Deletes == {"delete", "delete_both"}

Changes(op) == op \in Puts \union Deletes
Over(c) == c.st \in {"free", "answer"}

(* The calls that are under way and change a hash; those of others.        *)
Changers(h) ==
    {v \in Users : ~Over(call[v]) /\ Changes(call[v].op) /\ call[v].hash = h}
Changing(h, u) == Changers(h) \ {u}

FirstAccess(op) ==
    CASE op \in Puts -> IF impl = "local" THEN "truncate" ELSE "write"
      [] op \in Gets -> "read"
      [] op \in Deletes -> "remove"

Begin(u, op, h) ==
    /\ call[u].st \in {"free", "answer"}
    /\ calls < MaxCalls
    /\ calls' = calls + 1
    /\ LET c == [op |-> op, hash |-> h, st |-> FirstAccess(op),
                 on |-> "blob", got |-> "absent", alone |-> Changing(h, u) = {}] IN
       /\ call' = [v \in Users |->
                     IF v = u THEN c
                     ELSE IF ~Over(call[v]) /\ call[v].hash = h /\ Changes(op)
                     THEN [call[v] EXCEPT !.alone = FALSE] ELSE call[v]]
    /\ UNCHANGED <<impl, blobs, outboards, faults, certain>>

(* What a call has made of a hash it found as p. *)
Effect(op, p) ==
    CASE op \in {"put", "put_blob"} -> [p EXCEPT !.blob = "whole"]
      [] op = "put_both" -> [blob |-> "whole", outboard |-> "whole"]
      [] op = "delete" -> [p EXCEPT !.blob = "absent"]
      [] op = "delete_both" -> [blob |-> "absent", outboard |-> "absent"]
      [] OTHER -> p

Told(what) == [told |-> what]
Got(blob, outboard) == [told |-> "ok", blob |-> blob, outboard |-> outboard]

(* A call ends; one that changed its hash while others did, or failed,     *)
(* leaves behind what cannot be known.                                     *)
End(u, answer) ==
    LET c == call[u] IN
    /\ call' = [call EXCEPT ![u] = [st |-> "answer", op |-> c.op, alone |-> c.alone,
                                    answer |-> answer, was |-> certain[c.hash]]]
    /\ certain' = IF ~Changes(c.op) THEN certain
                  ELSE [certain EXCEPT ![c.hash] =
                           IF c.alone /\ answer = Told("ok")
                           THEN {Effect(c.op, p) : p \in @} ELSE Pairs]

Goes(u, st, on) ==
    call' = [call EXCEPT ![u].st = st, ![u].on = on] /\ UNCHANGED certain

Holds(h, on) == IF on = "blob" THEN blobs[h] ELSE outboards[h]

Becomes(h, on, x) ==
    /\ blobs' = IF on = "blob" THEN [blobs EXCEPT ![h] = x] ELSE blobs
    /\ outboards' = IF on = "blob" THEN outboards ELSE [outboards EXCEPT ![h] = x]

AtStep(u, st) == call[u].st = st

-----------------------------------------------------------------------------
(* fs::write opens the file and truncates it ... *)
Truncate(u) ==
    /\ AtStep(u, "truncate")
    /\ Becomes(call[u].hash, call[u].on, "torn")
    /\ Goes(u, "write", call[u].on)
    /\ UNCHANGED <<impl, calls, faults>>

(* ... and fills it; elsewhere the object appears at once.  The outboard   *)
(* follows the ciphertext.                                                 *)
Write(u) ==
    /\ AtStep(u, "write")
    /\ Becomes(call[u].hash, call[u].on, "whole")
    /\ IF call[u].op = "put_both" /\ call[u].on = "blob"
       THEN Goes(u, FirstAccess("put_both"), "outboard") ELSE End(u, Told("ok"))
    /\ UNCHANGED <<impl, calls, faults>>

(* get verifies what it has read. *)
Verified(x) == x # "torn"

(* get and get_with_outboard: without a ciphertext nothing is found,       *)
(* without an outboard it is taken to be empty.                            *)
Read(u) ==
    /\ AtStep(u, "read")
    /\ LET c == call[u]
           x == Holds(c.hash, c.on) IN
       IF c.on = "blob" /\ x = "absent" THEN End(u, Told("not_found"))
       ELSE IF c.op = "get"
       THEN End(u, IF impl = "memory" \/ Verified(x) THEN Got(x, "absent")
                   ELSE Told("hash_mismatch"))
       ELSE IF c.on = "blob"
       THEN /\ call' = [call EXCEPT ![u].on = "outboard", ![u].got = x]
            /\ UNCHANGED certain
       ELSE End(u, Got(c.got, x))
    /\ UNCHANGED <<impl, blobs, outboards, calls, faults>>

(* Mutant: the outboard is left where it is. *)
RemoveBlobOnly(u) ==
    /\ AtStep(u, "remove")
    /\ Becomes(call[u].hash, "blob", "absent")
    /\ End(u, Told("ok"))
    /\ UNCHANGED <<impl, calls, faults>>

(* delete and delete_with_outboard. *)
Discard(u) ==
    /\ AtStep(u, "remove")
    /\ Becomes(call[u].hash, call[u].on, "absent")
    /\ IF call[u].op = "delete_both" /\ call[u].on = "blob"
       THEN Goes(u, "remove", "outboard") ELSE End(u, Told("ok"))
    /\ UNCHANGED <<impl, calls, faults>>

(* An access to the disk or to S3 fails, a request to S3 with or without   *)
(* its effect.  The local delete_with_outboard takes any error for success *)
(* and goes on.                                                            *)
Fails(u) ==
    /\ impl # "memory" /\ ~Over(call[u])
    /\ faults < MaxFaults
    /\ faults' = faults + 1
    /\ LET c == call[u] IN
       /\ IF impl = "s3" /\ c.st \in {"write", "remove"}
          THEN \E x \in {Holds(c.hash, c.on), IF c.st = "write" THEN "whole" ELSE "absent"} :
                  Becomes(c.hash, c.on, x)
          ELSE UNCHANGED <<blobs, outboards>>
       /\ IF impl = "local" /\ c.op = "delete_both"
          THEN IF c.on = "blob"
               THEN /\ call' = [call EXCEPT ![u].on = "outboard", ![u].alone = FALSE]
                    /\ UNCHANGED certain
               ELSE End(u, Told("unknowing_ok"))
          ELSE End(u, Told("error"))
    /\ UNCHANGED <<impl, calls>>

(* The process ends in the middle of what it does, and starts again.       *)
Crash ==
    /\ faults < MaxFaults
    /\ faults' = faults + 1
    /\ LET hit == {call[u].hash : u \in {v \in Users : ~Over(call[v]) /\ Changes(call[v].op)}} IN
       IF impl = "memory"
       THEN /\ blobs' = [h \in Hashes |-> "absent"] /\ outboards' = blobs'
            /\ certain' = [h \in Hashes |-> {Neither}]
       ELSE /\ certain' = [h \in Hashes |-> IF h \in hit THEN Pairs ELSE certain[h]]
            /\ UNCHANGED <<blobs, outboards>>
    /\ call' = [u \in Users |-> Free]
    /\ UNCHANGED <<impl, calls>>

BlobNext ==
    \/ \E u \in Users :
          \/ \E op \in Puts \union Gets \union Deletes, h \in Hashes : Begin(u, op, h)
          \/ Truncate(u) \/ Write(u) \/ Read(u) \/ Discard(u) \/ Fails(u)
    \/ Crash

BlobSpec == BlobInit /\ [][BlobNext]_blobVars

-----------------------------------------------------------------------------
(* exists and list, in which the name of an outboard is no hash.           *)
Exists(h) == blobs[h] # "absent"
Listed == {h \in Hashes : Exists(h)}

(* What a get finds that finds a hash as p.                                *)
Found(op, p) ==
    IF p.blob = "absent" THEN Told("not_found")
    ELSE IF op = "get_both" THEN Got(p.blob, p.outboard)
    ELSE IF p.blob = "torn" THEN Told("hash_mismatch") ELSE Got("whole", "absent")

(* A put or a delete that runs alone, and to its end, leaves both objects  *)
(* as it should however they were, so that repeating one that failed or    *)
(* was cut short repairs them; a get that runs alone answers what is       *)
(* there; exists and list agree with it; and get, which verifies, never    *)
(* answers with a torn object, whatever runs beside it (put_with_outboard, *)
(* get_with_outboard, delete_with_outboard of memory.rs, local.rs, s3.rs). *)
StoredAsTold ==
    /\ \A h \in Hashes :
          Changers(h) = {} =>
              /\ [blob |-> blobs[h], outboard |-> outboards[h]] \in certain[h]
              /\ h \in Listed => \E p \in certain[h] : p.blob # "absent"
    /\ \A u \in Users : call[u].st = "answer" /\ call[u].op \in Gets =>
          /\ call[u].alone => \/ call[u].answer = Told("error")
                              \/ \E p \in call[u].was : call[u].answer = Found(call[u].op, p)
          /\ call[u].op = "get" => call[u].answer # Got("torn", "absent")
===============================================================================
