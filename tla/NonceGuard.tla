------------------------------ MODULE NonceGuard ------------------------------
(***************************************************************************)
(* Replay protection of recrypt-server.                                    *)
(*                                                                         *)
(* Every protected route runs behind the middleware validate_nonce: it     *)
(* checks that the nonce "{unix_ms}:{uuid}" of the request lies in the     *)
(* freshness window, and then claims it in the NonceStore.  The two steps  *)
(* read the clock and the store at different moments; between them other   *)
(* requests, the background sweep (gc_expired) and the clock move on.      *)
(*                                                                         *)
(* Time is in milliseconds, as in the code; the clock moves forward        *)
(* through the finite set Instants.  Config (window_secs) is fixed.        *)
(***************************************************************************)
EXTENDS Integers

CONSTANTS
    Requests,      \* requests that reach the middleware, each handled once
    Stamps,        \* the unix_ms parts of well-formed nonces
    Uuids,         \* the uuid parts
    Malformed,     \* a header that does not parse as "{u64}:{text}"
    WindowSecs,    \* config.nonce.window_secs
    Instants,      \* clock readings, in ms since the epoch
    MaxRestarts    \* bound on server restarts

Nonces == [ts : Stamps, uuid : Uuids]

ASSUME NonceGuardAssumption ==
    /\ Stamps \subseteq Nat
    /\ Instants \subseteq Nat /\ Instants # {}
    /\ WindowSecs \in Nat
    /\ MaxRestarts \in Nat
    /\ Malformed \notin Nonces

VARIABLES
    backend,  \* which NonceStore runs, SqliteNonceStore or InMemoryNonceStore
    now,      \* the wall clock, ms
    used,     \* the nonces the store holds
    gc,       \* the sweep: idle, or sweeping with the second it read first
    epoch,    \* number of restarts so far
    req       \* the requests: progress, nonce, and of a finished one whether
              \* it ended after the nonce's window, and in which epoch

vars == <<backend, now, used, gc, epoch, req>>

SkewMs == 60000
Secs(ms) == ms \div 1000
WindowMs == WindowSecs * 1000

(* validate_format: parse, then both edges of the window. *)
validate_format(n, ms) ==
    /\ n # Malformed
    /\ ms <= n.ts + WindowMs
    /\ n.ts <= ms + SkewMs

(* Mutant: the entry expires when the nonce was made. *)
ExpiryWithoutWindow(n) == Secs(n.ts)

(* nonce_expiry_secs: the second until which the store keeps the nonce. *)
nonce_expiry_secs(n) == Secs(n.ts) + WindowSecs

Stale(n, ms) == ms > n.ts + WindowMs

Idle == [st |-> "idle"]
Claiming(n) == [st |-> "claiming", nonce |-> n]
Ended(n, s) == [st |-> s, nonce |-> n, late |-> Stale(n, now), epoch |-> epoch]
Rejected == [st |-> "rejected"]

Init ==
    /\ backend \in {"memory", "sqlite"}
    /\ now \in Instants
    /\ used = {}
    /\ gc = [st |-> "idle"]
    /\ epoch = 0
    /\ req = [r \in Requests |-> Idle]

-----------------------------------------------------------------------------
(* Mutant: the nonce is recorded with the format check. *)
CheckAndRecord(r, n) ==
    /\ req[r].st = "idle"
    /\ req' = [req EXCEPT ![r] =
                 IF validate_format(n, now) THEN Claiming(n) ELSE Rejected]
    /\ used' = IF validate_format(n, now) THEN used \union {n} ELSE used
    /\ UNCHANGED <<backend, now, gc, epoch>>

(* The middleware, first half: headers read, format and freshness checked. *)
CheckFormat(r, n) ==
    /\ req[r].st = "idle"
    /\ req' = [req EXCEPT ![r] =
                 IF validate_format(n, now) THEN Claiming(n) ELSE Rejected]
    /\ UNCHANGED <<backend, now, used, gc, epoch>>

(* The middleware, second half: mark_used, atomic in both stores (one write *)
(* lock, one INSERT OR IGNORE).  An unseen nonce lets the handler run.      *)
MarkUsed(r) ==
    /\ req[r].st = "claiming"
    /\ LET n == req[r].nonce IN
         /\ req' = [req EXCEPT ![r] =
                      Ended(n, IF n \in used THEN "replay" ELSE "admitted")]
         /\ used' = used \union {n}
    /\ UNCHANGED <<backend, now, gc, epoch>>

(* The connection closes while mark_used is awaited, and the middleware's  *)
(* future is dropped.  The memory store has not been touched then; the     *)
(* closure already handed to the SQLite thread still runs, or has run.     *)
Abandon(r) ==
    /\ req[r].st = "claiming"
    /\ req' = [req EXCEPT ![r] = Ended(req[r].nonce, "dropped")]
    /\ \/ UNCHANGED used
       \/ backend = "sqlite" /\ used' = used \union {req[r].nonce}
    /\ UNCHANGED <<backend, now, gc, epoch>>

(* gc_expired reads the clock before it waits for the lock ... *)
GcStart ==
    /\ gc.st = "idle"
    /\ gc' = [st |-> "sweeping", cut |-> Secs(now)]
    /\ UNCHANGED <<backend, now, used, epoch, req>>

(* Mutant: the sweep keeps what expired in the second before. *)
GcSweepLess ==
    /\ gc.st = "sweeping"
    /\ used' = {n \in used : nonce_expiry_secs(n) + 1 >= gc.cut}
    /\ gc' = [st |-> "idle"]
    /\ UNCHANGED <<backend, now, epoch, req>>

(* ... and then drops what expired before that second. *)
GcSweep ==
    /\ gc.st = "sweeping"
    /\ used' = {n \in used : nonce_expiry_secs(n) >= gc.cut}
    /\ gc' = [st |-> "idle"]
    /\ UNCHANGED <<backend, now, epoch, req>>

Tick(t) ==
    /\ t > now
    /\ now' = t
    /\ UNCHANGED <<backend, used, gc, epoch, req>>

(* The process ends and starts again: requests in flight are lost, and the *)
(* memory store with them.                                                 *)
Restart ==
    /\ epoch < MaxRestarts
    /\ epoch' = epoch + 1
    /\ used' = IF backend = "sqlite" THEN used ELSE {}
    /\ gc' = [st |-> "idle"]
    /\ req' = [r \in Requests |->
                 IF req[r].st = "claiming" THEN Ended(req[r].nonce, "dropped")
                 ELSE req[r]]
    /\ UNCHANGED <<backend, now>>

Next ==
    \/ \E r \in Requests :
         \/ \E n \in Nonces \union {Malformed} : CheckFormat(r, n)
         \/ MarkUsed(r)
         \/ Abandon(r)
    \/ GcStart
    \/ GcSweep
    \/ \E t \in Instants : Tick(t)
    \/ Restart

(* The sweep is a loop on a timer that only an abort at shutdown ends.     *)
Fairness == WF_vars(GcStart) /\ WF_vars(GcSweep)

Spec == Init /\ [][Next]_vars /\ Fairness
-----------------------------------------------------------------------------
InFlight == [st : {"claiming"}, nonce : Nonces]
Finished == [st : {"admitted", "replay", "dropped"}, nonce : Nonces,
             late : BOOLEAN, epoch : Nat]

TypeOK ==
    /\ backend \in {"memory", "sqlite"}
    /\ now \in Nat
    /\ used \subseteq Nonces
    /\ gc \in [st : {"idle"}] \union [st : {"sweeping"}, cut : Nat]
    /\ epoch \in Nat
    /\ req \in [Requests -> {Idle, Rejected} \union InFlight \union Finished]

Admitted(r) == req[r].st = "admitted"

(* What the store knew when one of two requests ended it still knew, or    *)
(* had forgotten by age alone, when the other did: SQLite keeps its rows   *)
(* over a restart, the memory store only while the process lives.          *)
SameHistory(r1, r2) == backend = "sqlite" \/ req[r1].epoch = req[r2].epoch

(* No nonce admits two requests while it is fresh: of two admissions of    *)
(* one nonce the later claim came after its window closed, unless a        *)
(* restart emptied a memory store in between.  This is what the seconds of *)
(* nonce_expiry_secs against the milliseconds of validate_format, and the  *)
(* sweep's stale clock reading, must not break.                            *)
NoReplayInWindow ==
    \A r1, r2 \in Requests :
        /\ r1 # r2
        /\ Admitted(r1) /\ Admitted(r2)
        /\ req[r1].nonce = req[r2].nonce
        /\ SameHistory(r1, r2)
        => req[r1].late \/ req[r2].late

(* A nonce is called a replay only because another request did use it: a   *)
(* sweep, a restart or a dropped connection never costs a client a fresh   *)
(* nonce that no request of its own carried to the store.                  *)
ReplayJustified ==
    \A r \in Requests : req[r].st = "replay" =>
        \E s \in Requests \ {r} :
            /\ req[s].st \in {"admitted", "dropped"}
            /\ req[s].nonce = req[r].nonce
            /\ SameHistory(r, s)

(* The store does not grow for ever: an expired entry is swept.            *)
ExpiredSwept ==
    \A n \in Nonces :
        (n \in used /\ nonce_expiry_secs(n) < Secs(now)) ~> n \notin used
=============================================================================
