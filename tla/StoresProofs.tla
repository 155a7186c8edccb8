---------------------------- MODULE StoresProofs ----------------------------
(***************************************************************************)
(* What the stores guarantee for every set of callers, keys, hashes, files *)
(* and locations, and for every implementation the server may run with:    *)
(* the nonces, the blobs, the owners of files, the provider index, the     *)
(* versions of the schema, and the records of keyspaces and grants.  They  *)
(* share nothing, and each has its section with an inductive invariant of  *)
(* its own.                                                                *)
(***************************************************************************)
EXTENDS NonceGuard, BlobStore, Ownership, ProviderIndex, Schema, Records,
        FiniteSetTheorems, SequenceTheorems, WellFoundedInduction, TLAPS

(***************************************************************************)
(* Nonces.  For every set of requests, stamps and clock readings, every    *)
(* window and both stores.                                                 *)
(*                                                                         *)
(* NoReplayInWindow and ReplayJustified are not inductive: a step that     *)
(* claims a nonce sees only the store, so the proof needs what the store   *)
(* still knows of the requests (IInv): every admission the store's history *)
(* covers is still in the store or past its window, and whatever is in the *)
(* store was put there by some request.  The first of these survives a     *)
(* sweep because an entry expires, in whole seconds, strictly after its    *)
(* window closes in milliseconds (SweptIsStale).                           *)
(***************************************************************************)

Carried(r) == req[r].st \in {"admitted", "dropped"}

(* The store's current contents account for request r. *)
Covered(r) == backend = "sqlite" \/ req[r].epoch = epoch

IInv ==
    /\ TypeOK
    /\ gc.st = "sweeping" => gc.cut <= Secs(now)
    /\ \A r \in Requests :
         req[r].st \in {"admitted", "replay", "dropped"} => req[r].epoch <= epoch
    /\ \A r \in Requests : Admitted(r) /\ Covered(r) =>
         req[r].nonce \in used \/ Stale(req[r].nonce, now)
    /\ \A n \in used : \E r \in Requests :
         Carried(r) /\ req[r].nonce = n /\ Covered(r)
    /\ NoReplayInWindow
    /\ ReplayJustified

-----------------------------------------------------------------------------
(* An entry the sweep drops can no longer pass validate_format: flooring    *)
(* the stamp and the clock to seconds never frees a nonce early.            *)
LEMMA SweptIsStale ==
    ASSUME NEW ts \in Nat, NEW ms \in Nat, NEW limit \in Nat, NEW w \in Nat,
           limit <= ms \div 1000, (ts \div 1000) + w < limit
    PROVE  ms > ts + w * 1000
<1>1. ts < 1000 * (ts \div 1000) + 1000
  BY SMT
<1>2. 1000 * (ms \div 1000) <= ms
  BY SMT
<1>3. ts \div 1000 \in Int /\ ms \div 1000 \in Int
  BY SMT
<1>. QED
  BY <1>1, <1>2, <1>3, SMT

(* The server starts in the invariant. *)
LEMMA InitIInv == Init => IInv
<1> SUFFICES ASSUME Init PROVE IInv
  OBVIOUS
<1>1. \A r \in Requests : req[r] = Idle
  BY DEF Init
<1>2. TypeOK
  BY <1>1, NonceGuardAssumption DEF Init, TypeOK
<1>. QED
  BY <1>1, <1>2 DEF Init, IInv, NoReplayInWindow, ReplayJustified, Admitted, Idle

(* Requests other than the one that moves keep what the invariant says of   *)
(* them; the cases below are the actions that move a request.               *)
LEMMA CheckFormatStep ==
    ASSUME IInv, NEW r \in Requests, NEW n \in Nonces \union {Malformed},
           CheckFormat(r, n)
    PROVE  IInv'
<1> USE DEF CheckFormat, Carried, Admitted, Covered, SameHistory
<1>1. req[r] = Idle
  BY DEF IInv, TypeOK, InFlight, Finished, Rejected
<1>2. /\ req' \in [Requests -> {Idle, Rejected} \union InFlight \union Finished]
      /\ \A s \in Requests : s # r => req'[s] = req[s]
      /\ req'[r] \in {Rejected} \union InFlight
  BY DEF IInv, TypeOK, validate_format, Claiming, InFlight
<1>3. ~ (req'[r].st \in {"admitted", "replay", "dropped"})
  BY <1>2 DEF Rejected, InFlight
<1>4. \A s \in Requests :
        req[s].st \in {"admitted", "replay", "dropped"} => s # r /\ req'[s] = req[s]
  BY <1>1, <1>2 DEF Idle
<1>5. TypeOK'
  BY <1>2 DEF IInv, TypeOK
<1>6. NoReplayInWindow'
  BY <1>3, <1>2 DEF IInv, NoReplayInWindow
<1>7. ReplayJustified'
  BY <1>2, <1>3, <1>4 DEF IInv, ReplayJustified
<1>8. \A m \in used' : \E s \in Requests :
         Carried(s)' /\ req'[s].nonce = m /\ Covered(s)'
  BY <1>4 DEF IInv
<1>. QED
  BY <1>2, <1>3, <1>5, <1>6, <1>7, <1>8 DEF IInv

(* A claim: the store answers, and remembers the nonce. *)
LEMMA MarkUsedStep ==
    ASSUME IInv, NEW r \in Requests, MarkUsed(r)
    PROVE  IInv'
<1> USE DEF Carried, Admitted, Covered, SameHistory
<1> DEFINE n == req[r].nonce
           s0 == IF n \in used THEN "replay" ELSE "admitted"
<1>1. req[r] \in InFlight /\ n \in Nonces /\ req[r].st = "claiming"
  BY DEF MarkUsed, IInv, TypeOK, Idle, Rejected, InFlight, Finished
<1>2. /\ req' = [req EXCEPT ![r] = Ended(n, s0)]
      /\ used' = used \union {n}
      /\ UNCHANGED <<backend, now, gc, epoch>>
  BY DEF MarkUsed
<1>3. \A s \in Requests : s # r => req'[s] = req[s]
  BY <1>2 DEF IInv, TypeOK
<1>4. /\ req'[r].st = s0 /\ req'[r].nonce = n
      /\ req'[r].late = Stale(n, now) /\ req'[r].epoch = epoch
  BY <1>2 DEF IInv, TypeOK, Ended
<1>5. TypeOK'
  <2>1. Ended(n, s0) \in Finished
    BY <1>1 DEF Ended, Finished, IInv, TypeOK, Stale
  <2>. QED
    BY <1>1, <1>2, <2>1 DEF IInv, TypeOK
<1>6. \A s \in Requests :
        req'[s].st \in {"admitted", "replay", "dropped"} => req'[s].epoch <= epoch'
  BY <1>2, <1>3, <1>4, <1>5 DEF IInv, TypeOK
<1>7. \A s \in Requests : Admitted(s)' /\ Covered(s)' =>
        (req[s].nonce \in used \/ Stale(req[s].nonce, now))'
  BY <1>2, <1>3, <1>4 DEF IInv, Stale
<1>8. \A m \in used' : \E s \in Requests :
        Carried(s)' /\ req'[s].nonce = m /\ Covered(s)'
  <2>1. CASE n \in used
    <3>1. \A s \in Requests : Carried(s) => s # r
      BY <1>1
    <3>. QED
      BY <2>1, <1>2, <1>3, <3>1 DEF IInv
  <2>2. CASE n \notin used
    <3>1. \A s \in Requests : Carried(s) => s # r
      BY <1>1
    <3>2. Carried(r)' /\ req'[r].nonce = n /\ Covered(r)'
      BY <2>2, <1>4, <1>2
    <3>. QED
      BY <1>2, <1>3, <3>1, <3>2 DEF IInv
  <2>. QED
    BY <2>1, <2>2
<1>9. NoReplayInWindow'
  <2> SUFFICES ASSUME NEW s \in Requests, s # r,
                      Admitted(s)', Admitted(r)', req'[s].nonce = n,
                      backend = "sqlite" \/ req'[s].epoch = epoch
               PROVE  req'[r].late
    BY <1>2, <1>3, <1>4 DEF NoReplayInWindow, IInv
  <2>1. n \notin used
    BY <1>4
  <2>. QED
    BY <2>1, <1>3, <1>4 DEF IInv
<1>10. ReplayJustified'
  <2> SUFFICES ASSUME NEW s \in Requests, req'[s].st = "replay"
               PROVE  \E t \in Requests \ {s} :
                        Carried(t)' /\ req'[t].nonce = req'[s].nonce /\ SameHistory(s, t)'
    BY DEF ReplayJustified
  <2>1. CASE s = r
    <3>1. n \in used
      BY <2>1, <1>4
    <3>2. PICK t \in Requests : Carried(t) /\ req[t].nonce = n /\ Covered(t)
      BY <3>1 DEF IInv
    <3>3. t # r
      BY <3>2, <1>1
    <3>. QED
      BY <2>1, <3>2, <3>3, <1>2, <1>3, <1>4
  <2>2. CASE s # r
    <3>1. PICK t \in Requests \ {s} :
             Carried(t) /\ req[t].nonce = req[s].nonce /\ SameHistory(s, t)
      BY <2>2, <1>3 DEF IInv, ReplayJustified
    <3>2. t # r
      BY <3>1, <1>1
    <3>. QED
      BY <2>2, <3>1, <3>2, <1>2, <1>3
  <2>. QED
    BY <2>1, <2>2
<1>11. gc'.st = "sweeping" => gc'.cut <= Secs(now)'
  BY <1>2 DEF IInv, Secs
<1>. QED
  BY <1>5, <1>6, <1>7, <1>8, <1>9, <1>10, <1>11 DEF IInv

(* A claim whose connection drops runs to its end in the store. *)
LEMMA AbandonStep ==
    ASSUME IInv, NEW r \in Requests, Abandon(r)
    PROVE  IInv'
<1> USE DEF Carried, Admitted, Covered, SameHistory
<1> DEFINE n == req[r].nonce
<1>1. req[r] \in InFlight /\ n \in Nonces /\ req[r].st = "claiming"
  BY DEF Abandon, IInv, TypeOK, Idle, Rejected, InFlight, Finished
<1>2. /\ req' = [req EXCEPT ![r] = Ended(n, "dropped")]
      /\ used' = used \/ used' = used \union {n}
      /\ UNCHANGED <<backend, now, gc, epoch>>
  BY DEF Abandon
<1>3. \A s \in Requests : s # r => req'[s] = req[s]
  BY <1>2 DEF IInv, TypeOK
<1>4. req'[r].st = "dropped" /\ req'[r].nonce = n /\ req'[r].epoch = epoch
  BY <1>2 DEF IInv, TypeOK, Ended
<1>5. TypeOK'
  <2>1. Ended(n, "dropped") \in Finished
    BY <1>1 DEF Ended, Finished, IInv, TypeOK, Stale
  <2>. QED
    BY <1>1, <1>2, <2>1 DEF IInv, TypeOK
<1>6. \A s \in Requests :
        req'[s].st \in {"admitted", "replay", "dropped"} => req'[s].epoch <= epoch'
  BY <1>2, <1>3, <1>4, <1>5 DEF IInv, TypeOK
<1>7. \A s \in Requests : Admitted(s)' /\ Covered(s)' =>
        (req[s].nonce \in used \/ Stale(req[s].nonce, now))'
  BY <1>2, <1>3, <1>4 DEF IInv, Stale
<1>8. \A m \in used' : \E s \in Requests :
        Carried(s)' /\ req'[s].nonce = m /\ Covered(s)'
  <2>1. \A s \in Requests : Carried(s) => s # r
    BY <1>1
  <2>2. Carried(r)' /\ req'[r].nonce = n /\ Covered(r)'
    BY <1>4, <1>2
  <2>. QED
    BY <1>2, <1>3, <2>1, <2>2 DEF IInv
<1>9. NoReplayInWindow'
  BY <1>2, <1>3, <1>4 DEF NoReplayInWindow, IInv
<1>10. ReplayJustified'
  BY <1>1, <1>2, <1>3, <1>4 DEF ReplayJustified, IInv
<1>11. gc'.st = "sweeping" => gc'.cut <= Secs(now)'
  BY <1>2 DEF IInv, Secs
<1>. QED
  BY <1>5, <1>6, <1>7, <1>8, <1>9, <1>10, <1>11 DEF IInv

(* The sweep fixes its cut-off, in seconds, from the clock. *)
LEMMA GcStartStep == IInv /\ GcStart => IInv'
<1> SUFFICES ASSUME IInv, GcStart PROVE IInv'
  OBVIOUS
<1>1. gc' = [st |-> "sweeping", cut |-> Secs(now)] /\ UNCHANGED <<backend, now, used, epoch, req>>
  BY DEF GcStart
<1>2. Secs(now) \in Nat
  BY DEF Secs, IInv, TypeOK
<1>3. TypeOK'
  BY <1>1, <1>2 DEF IInv, TypeOK
<1>. QED
  BY <1>1, <1>2, <1>3 DEF IInv, Secs, Carried, Admitted, Covered, SameHistory,
     NoReplayInWindow, ReplayJustified, Stale

(* The sweep: what it drops is past its window, by SweptIsStale.            *)
LEMMA GcSweepStep == IInv /\ GcSweep => IInv'
<1> SUFFICES ASSUME IInv, GcSweep PROVE IInv'
  OBVIOUS
<1> USE DEF Carried, Admitted, Covered, SameHistory
<1>1. /\ used' = {n \in used : nonce_expiry_secs(n) >= gc.cut}
      /\ gc.st = "sweeping" /\ gc' = [st |-> "idle"]
      /\ UNCHANGED <<backend, now, epoch, req>>
  BY DEF GcSweep
<1>2. TypeOK'
  BY <1>1 DEF IInv, TypeOK
<1>3. \A n \in used : n \notin used' => Stale(n, now)
  <2> SUFFICES ASSUME NEW n \in used, n \notin used'
               PROVE  Stale(n, now)
    OBVIOUS
  <2>1. n.ts \in Nat /\ now \in Nat /\ gc.cut \in Nat /\ WindowSecs \in Nat
    BY <1>1, NonceGuardAssumption DEF IInv, TypeOK, Nonces
  <2>2. n.ts \div 1000 \in Nat
    BY <2>1
  <2>3. (n.ts \div 1000) + WindowSecs < gc.cut /\ gc.cut <= now \div 1000
    BY <1>1, <2>1, <2>2 DEF IInv, nonce_expiry_secs, Secs
  <2>4. now > n.ts + WindowSecs * 1000
    BY <2>1, <2>3, SweptIsStale
  <2>. QED
    BY <2>4 DEF Stale, WindowMs
<1>4. \A r \in Requests : Admitted(r)' /\ Covered(r)' =>
        (req[r].nonce \in used \/ Stale(req[r].nonce, now))'
  BY <1>1, <1>3 DEF IInv, Stale
<1>. QED
  BY <1>1, <1>2, <1>4 DEF IInv, NoReplayInWindow, ReplayJustified

(* Time passes: windows only close. *)
LEMMA TickStep ==
    ASSUME IInv, NEW t \in Instants, Tick(t)
    PROVE  IInv'
<1> USE DEF Carried, Admitted, Covered, SameHistory
<1>1. t \in Nat /\ now \in Nat /\ now < t /\ now' = t /\ UNCHANGED <<backend, used, gc, epoch, req>>
  BY NonceGuardAssumption DEF Tick, IInv, TypeOK
<1>2. TypeOK'
  BY <1>1 DEF IInv, TypeOK
<1>3. gc'.st = "sweeping" => gc'.cut <= Secs(now)'
  <2>1. now \div 1000 <= t \div 1000 /\ now \div 1000 \in Nat /\ t \div 1000 \in Nat
    BY <1>1
  <2>2. gc.st = "sweeping" => gc.cut \in Nat
    BY DEF IInv, TypeOK
  <2>. QED
    BY <1>1, <2>1, <2>2 DEF IInv, Secs
<1>4. \A r \in Requests : Admitted(r)' /\ Covered(r)' =>
        (req[r].nonce \in used \/ Stale(req[r].nonce, now))'
  <2> SUFFICES ASSUME NEW r \in Requests, Admitted(r), Covered(r),
                      Stale(req[r].nonce, now)
               PROVE  Stale(req[r].nonce, t)
    BY <1>1 DEF IInv, Stale
  <2>1. req[r].nonce \in Nonces
    BY DEF IInv, TypeOK, Idle, Rejected, InFlight, Finished
  <2>2. req[r].nonce.ts \in Nat
    BY <2>1, NonceGuardAssumption DEF Nonces
  <2>3. WindowMs \in Nat
    BY NonceGuardAssumption DEF WindowMs
  <2>. QED
    BY <1>1, <2>2, <2>3 DEF Stale
<1>. QED
  BY <1>1, <1>2, <1>3, <1>4 DEF IInv, NoReplayInWindow, ReplayJustified

(* A restart drops the requests in flight.  With the memory store it opens  *)
(* a new epoch that covers no earlier request.                              *)
LEMMA RestartStep == IInv /\ Restart => IInv'
<1> SUFFICES ASSUME IInv, Restart PROVE IInv'
  OBVIOUS
<1> USE DEF Carried, Admitted, Covered, SameHistory
<1>1. /\ epoch' = epoch + 1 /\ now' = now /\ backend' = backend /\ gc' = [st |-> "idle"]
      /\ used' = IF backend = "sqlite" THEN used ELSE {}
      /\ \A r \in Requests : req'[r] =
           IF req[r].st = "claiming" THEN Ended(req[r].nonce, "dropped") ELSE req[r]
  BY DEF Restart
<1>2. epoch \in Nat
  BY DEF IInv, TypeOK
<1>3. \A r \in Requests :
        req[r].st = "claiming" =>
          /\ req'[r].st = "dropped" /\ req'[r].nonce = req[r].nonce
          /\ req'[r].epoch = epoch
  <2> SUFFICES ASSUME NEW r \in Requests, req[r].st = "claiming"
               PROVE  /\ req'[r].st = "dropped" /\ req'[r].nonce = req[r].nonce
                      /\ req'[r].epoch = epoch
    OBVIOUS
  <2>1. req'[r] = Ended(req[r].nonce, "dropped")
    BY <1>1
  <2>. QED
    BY <2>1 DEF Ended
<1>4. \A r \in Requests : req[r].st # "claiming" => req'[r] = req[r]
  BY <1>1
<1>5. TypeOK'
  <2>1. ASSUME NEW r \in Requests, req[r].st = "claiming"
        PROVE  Ended(req[r].nonce, "dropped") \in Finished
    <3>1. req[r].nonce \in Nonces
      BY <2>1 DEF IInv, TypeOK, Idle, Rejected, InFlight, Finished
    <3>. QED
      BY <3>1 DEF Ended, Finished, IInv, TypeOK, Stale
  <2>2. req' \in [Requests -> {Idle, Rejected} \union InFlight \union Finished]
    BY <2>1 DEF Restart, IInv, TypeOK
  <2>. QED
    BY <1>1, <1>2, <2>2 DEF IInv, TypeOK
<1>6. \A r \in Requests :
        req'[r].st \in {"admitted", "replay", "dropped"} =>
          req'[r].epoch \in Nat /\ req'[r].epoch <= epoch
  <2> SUFFICES ASSUME NEW r \in Requests,
                      req'[r].st \in {"admitted", "replay", "dropped"}
               PROVE  req'[r].epoch \in Nat /\ req'[r].epoch <= epoch
    OBVIOUS
  <2>1. CASE req[r].st = "claiming"
    BY <2>1, <1>2, <1>3
  <2>2. CASE req[r].st # "claiming"
    BY <2>2, <1>4 DEF IInv, TypeOK, Idle, Rejected, InFlight, Finished
  <2>. QED
    BY <2>1, <2>2
<1>7. \A r \in Requests : Admitted(r)' => Admitted(r) /\ req'[r] = req[r]
  BY <1>3, <1>4
<1>8. \A r \in Requests : Carried(r) => Carried(r)' /\ req'[r] = req[r]
  BY <1>4
<1>9. \A r \in Requests : Carried(r)' /\ Covered(r)' => backend = "sqlite"
  BY <1>1, <1>2, <1>6
<1>10. \A r \in Requests : Admitted(r)' /\ Covered(r)' =>
         (req[r].nonce \in used \/ Stale(req[r].nonce, now))'
  BY <1>1, <1>7, <1>9 DEF IInv, Stale
<1>11. \A n \in used' : \E r \in Requests :
         Carried(r)' /\ req'[r].nonce = n /\ Covered(r)'
  BY <1>1, <1>8 DEF IInv
<1>12. NoReplayInWindow'
  BY <1>1, <1>7 DEF IInv, NoReplayInWindow
<1>13. ReplayJustified'
  BY <1>1, <1>3, <1>4, <1>8 DEF IInv, ReplayJustified
<1>14. \A r \in Requests :
        req'[r].st \in {"admitted", "replay", "dropped"} => req'[r].epoch <= epoch'
  BY <1>1, <1>2, <1>6
<1>. QED
  BY <1>1, <1>5, <1>10, <1>11, <1>12, <1>13, <1>14 DEF IInv

(* No step leaves the invariant. *)
LEMMA NextIInv == IInv /\ [Next]_vars => IInv'
<1> SUFFICES ASSUME IInv, [Next]_vars PROVE IInv'
  OBVIOUS
<1>1. CASE UNCHANGED vars
  BY <1>1 DEF vars, IInv, TypeOK, Carried, Admitted, Covered, SameHistory, Secs,
     Stale, NoReplayInWindow, ReplayJustified
<1>2. CASE Next
  BY <1>2, CheckFormatStep, MarkUsedStep, AbandonStep, GcStartStep, GcSweepStep,
     TickStep, RestartStep DEF Next
<1>. QED
  BY <1>1, <1>2

-----------------------------------------------------------------------------
(* The invariant holds in every reachable state. *)
LEMMA Inductive == Spec => []IInv
BY InitIInv, NextIInv, PTL DEF Spec

(* The variables keep their types, whatever the constants.                  *)
THEOREM TypeCorrect == Spec => []TypeOK
<1>1. IInv => TypeOK
  BY DEF IInv
<1>. QED
  BY <1>1, Inductive, PTL

(* For every window, both stores, any number of concurrent requests and any *)
(* clock readings: the middleware admits a nonce at most once while it is   *)
(* fresh.                                                                   *)
THEOREM NoReplay == Spec => []NoReplayInWindow
<1>1. IInv => NoReplayInWindow
  BY DEF IInv
<1>. QED
  BY <1>1, Inductive, PTL

(* For every instance: a request is turned away as a replay only if another *)
(* request carried the same nonce to the store.                             *)
THEOREM RefusalsJustified == Spec => []ReplayJustified
<1>1. IInv => ReplayJustified
  BY DEF IInv
<1>. QED
  BY <1>1, Inductive, PTL

-----------------------------------------------------------------------------
(***************************************************************************)
(* Owners.  That the owner may be decided away between the check and the   *)
(* change is what taken records; the invariant needs what a call past its  *)
(* check still knows (KnowingOwns): its key owns the file, or someone took *)
(* the file since.                                                         *)
(***************************************************************************)
PassedChecks ==
    [op : {"unregister", "transfer"}, key : Keys, to : Keys \union {Nobody},
     file : Blobs, knows : BOOLEAN]

OwnerTypeOK ==
    /\ sqlite \in BOOLEAN
    /\ owner \in [Blobs -> Keys \union {Nobody}]
    /\ does \in [Callers -> {Rest} \union PassedChecks]
    /\ ownerCalls \in Nat
    /\ taken \in [Blobs -> {"no", "late", "stolen"}]

(* A call that still knows its file works on its key's own, or on one that *)
(* is not the first to be taken.                                           *)
KnowingOwns ==
    \A p \in Callers : does[p].op # "none" /\ does[p].knows =>
        IsOwner(does[p].key, does[p].file) \/ taken[does[p].file] # "no"

OwnerIInv == OwnerTypeOK /\ KnowingOwns /\ OwnerDecides

-----------------------------------------------------------------------------
LEMMA RestOrPassed ==
    ASSUME OwnerTypeOK, NEW p \in Callers
    PROVE  does[p] = Rest \/ (does[p] \in PassedChecks /\ does[p].op # "none")
  BY DEF OwnerTypeOK, PassedChecks, Rest

(* A file changes hands by a call that may: one that found its key the     *)
(* owner, or does not know.                                                *)
LEMMA ChangeStep ==
    ASSUME OwnerIInv, NEW p \in Callers, NEW k \in Keys, NEW f \in Blobs,
           NEW to \in Keys \union {Nobody}, NEW knows \in BOOLEAN,
           Change(p, k, f, to, knows),
           knows => IsOwner(k, f) \/ taken[f] # "no",
           sqlite' = sqlite, ownerCalls' \in Nat
    PROVE  OwnerIInv'
<1>1. OwnerTypeOK'
  <2>1. owner' \in [Blobs -> Keys \union {Nobody}]
    BY DEF Change, OwnerIInv, OwnerTypeOK
  <2>2. taken' \in [Blobs -> {"no", "late", "stolen"}]
    BY DEF Change, OwnerIInv, OwnerTypeOK
  <2>3. does' \in [Callers -> {Rest} \union PassedChecks]
    <3>1. ASSUME NEW q \in Callers PROVE does'[q] \in {Rest} \union PassedChecks
      <4>1. CASE q \in Passed(p, k, f) /\ q # p
        <5>1. does[q] \in PassedChecks
          BY <4>1, RestOrPassed DEF Passed, OwnerIInv, Rest
        <5>2. [does[q] EXCEPT !.knows = FALSE] \in PassedChecks
          BY <5>1 DEF PassedChecks
        <5>. QED
          BY <5>1, <5>2 DEF Change
      <4>2. CASE ~(q \in Passed(p, k, f) /\ q # p)
        BY <4>2 DEF Change, OwnerIInv, OwnerTypeOK
      <4>. QED
        BY <4>1, <4>2
    <3>. QED
      BY <3>1 DEF Change
  <2>. QED
    BY <2>1, <2>2, <2>3 DEF OwnerIInv, OwnerTypeOK
<1>2. OwnerDecides'
  BY DEF OwnerIInv, OwnerTypeOK, OwnerDecides, Change, IsOwner
<1>3. KnowingOwns'
  <2>. SUFFICES ASSUME NEW q \in Callers, does'[q].op # "none", does'[q].knows
                PROVE  owner'[does'[q].file] = does'[q].key \/ taken'[does'[q].file] # "no"
    BY DEF KnowingOwns, IsOwner
  <2>1. q # p
    BY DEF Change, Rest
  <2>2. does[q] # Rest
    BY <2>1 DEF Change, Passed, Rest
  <2>3. does[q] \in PassedChecks /\ does[q].op # "none"
    BY <2>2, RestOrPassed DEF OwnerIInv
  <2>4. ~(IsOwner(k, f) /\ q \in Passed(p, k, f))
    BY <2>1, <2>3 DEF Change, PassedChecks
  <2>5. does'[q] = does[q]
    BY <2>1, <2>4 DEF Change
  <2>6. owner[does[q].file] = does[q].key \/ taken[does[q].file] # "no"
    BY <2>3, <2>5 DEF OwnerIInv, KnowingOwns, IsOwner
  <2>7. does[q].file \in Blobs /\ does[q].key \in Keys
    BY <2>3 DEF PassedChecks
  <2>8. CASE does[q].file # f
    <3>1. owner'[does[q].file] = owner[does[q].file] /\ taken'[does[q].file] = taken[does[q].file]
      BY <2>8, <2>7 DEF Change, OwnerIInv, OwnerTypeOK
    <3>. QED
      BY <3>1, <2>5, <2>6
  <2>9. CASE does[q].file = f
    <3>1. CASE taken[f] # "no"
      BY <3>1, <2>5, <2>9 DEF Change
    <3>2. CASE taken[f] = "no"
      <4>1. owner[f] = does[q].key
        BY <3>2, <2>6, <2>9
      <4>2. owner[f] # k
        BY <4>1, <2>1, <2>3, <2>4, <2>9 DEF Passed, IsOwner
      <4>3. owner[f] # Nobody
        BY <4>1, <2>7, OwnershipAssumption
      <4>4. taken'[f] # "no"
        BY <4>2, <4>3, <3>2 DEF Change, OwnerIInv, OwnerTypeOK
      <4>. QED
        BY <4>4, <2>5, <2>9
    <3>. QED
      BY <3>1, <3>2
  <2>. QED
    BY <2>8, <2>9
<1>. QED
  BY <1>1, <1>2, <1>3 DEF OwnerIInv

LEMMA RegisterOwnerStep ==
    ASSUME OwnerIInv, NEW p \in Callers, NEW k \in Keys, NEW f \in Blobs,
           RegisterOwner(p, k, f)
    PROVE  OwnerIInv'
<1>1. OwnerTypeOK'
  BY DEF OwnerIInv, OwnerTypeOK, RegisterOwner, Calls
<1>2. OwnerDecides'
  BY DEF OwnerIInv, OwnerDecides, RegisterOwner
<1>3. KnowingOwns'
  <2>. SUFFICES ASSUME NEW q \in Callers, does[q].op # "none", does[q].knows
                PROVE  owner'[does[q].file] = does[q].key \/ taken[does[q].file] # "no"
    BY DEF KnowingOwns, IsOwner, RegisterOwner
  <2>1. does[q] \in PassedChecks
    BY RestOrPassed DEF OwnerIInv, Rest
  <2>2. does[q].file \in Blobs /\ does[q].key \in Keys
    BY <2>1 DEF PassedChecks
  <2>3. owner[does[q].file] = does[q].key \/ taken[does[q].file] # "no"
    BY DEF OwnerIInv, KnowingOwns, IsOwner
  <2>. QED
    BY <2>2, <2>3, OwnershipAssumption DEF OwnerIInv, OwnerTypeOK, RegisterOwner
<1>. QED
  BY <1>1, <1>2, <1>3 DEF OwnerIInv

LEMMA CheckIsOwnerStep ==
    ASSUME OwnerIInv, NEW p \in Callers, NEW op \in {"unregister", "transfer"},
           NEW k \in Keys, NEW to \in Keys \union {Nobody}, NEW f \in Blobs,
           CheckIsOwner(p, op, k, to, f)
    PROVE  OwnerIInv'
<1>. DEFINE c == [op |-> op, key |-> k, to |-> to, file |-> f, knows |-> TRUE]
<1>1. c \in PassedChecks
  BY DEF PassedChecks
<1>2. OwnerTypeOK'
  BY <1>1 DEF OwnerIInv, OwnerTypeOK, CheckIsOwner, Calls
<1>3. OwnerDecides'
  BY DEF OwnerIInv, OwnerDecides, CheckIsOwner
<1>4. KnowingOwns'
  <2>. SUFFICES ASSUME NEW q \in Callers, does'[q].op # "none", does'[q].knows
                PROVE  owner[does'[q].file] = does'[q].key \/ taken[does'[q].file] # "no"
    BY DEF KnowingOwns, IsOwner, CheckIsOwner
  <2>1. CASE does'[q] = does[q]
    BY <2>1 DEF OwnerIInv, KnowingOwns, IsOwner
  <2>2. CASE does'[q] # does[q]
    <3>1. IsOwner(k, f) /\ does'[q] = c
      BY <2>2 DEF CheckIsOwner, OwnerIInv, OwnerTypeOK
    <3>. QED
      BY <3>1 DEF IsOwner
  <2>. QED
    BY <2>1, <2>2
<1>. QED
  BY <1>2, <1>3, <1>4 DEF OwnerIInv

LEMMA ApplyStep ==
    ASSUME OwnerIInv, NEW p \in Callers, Apply(p)
    PROVE  OwnerIInv'
<1>1. does[p] \in PassedChecks
  BY RestOrPassed DEF OwnerIInv, Apply, Rest
<1>. DEFINE to == IF does[p].op = "transfer" THEN does[p].to ELSE Nobody
<1>2. /\ does[p].key \in Keys /\ does[p].file \in Blobs /\ does[p].knows \in BOOLEAN
      /\ to \in Keys \union {Nobody}
  BY <1>1 DEF PassedChecks
<1>3. does[p].knows => IsOwner(does[p].key, does[p].file) \/ taken[does[p].file] # "no"
  BY DEF OwnerIInv, KnowingOwns, Apply
<1>4. Change(p, does[p].key, does[p].file, to, does[p].knows)
  BY DEF Apply
<1>5. sqlite' = sqlite /\ ownerCalls' \in Nat
  BY DEF Apply, OwnerIInv, OwnerTypeOK
<1>. HIDE DEF to
<1>. QED
  BY <1>2, <1>3, <1>4, <1>5, ChangeStep

LEMMA TransferMemoryStep ==
    ASSUME OwnerIInv, NEW p \in Callers, NEW k \in Keys, NEW to \in Keys, NEW f \in Blobs,
           TransferMemory(p, k, to, f)
    PROVE  OwnerIInv'
<1>1. sqlite' = sqlite /\ ownerCalls' \in Nat
  BY DEF TransferMemory, Calls, OwnerIInv, OwnerTypeOK
<1>2. CASE IsOwner(k, f)
  <2>1. Change(p, k, f, to, TRUE)
    BY <1>2 DEF TransferMemory
  <2>. QED
    BY <1>1, <1>2, <2>1, ChangeStep
<1>3. CASE ~IsOwner(k, f)
  BY <1>1, <1>3 DEF TransferMemory, OwnerIInv, OwnerTypeOK, KnowingOwns, IsOwner, OwnerDecides
<1>. QED
  BY <1>2, <1>3

(* Of either ownership store, for any number of callers: the first call    *)
(* that takes a file from its owner is no stranger's.                      *)
THEOREM OwnersDecide == OwnerSpec => []OwnerDecides
<1>1. OwnerInit => OwnerIInv
  <2>. SUFFICES ASSUME OwnerInit PROVE OwnerIInv
    OBVIOUS
  <2>1. OwnerTypeOK
    BY DEF OwnerInit, OwnerTypeOK
  <2>2. KnowingOwns /\ OwnerDecides
    BY DEF OwnerInit, KnowingOwns, OwnerDecides, Rest
  <2>. QED
    BY <2>1, <2>2 DEF OwnerIInv
<1>2. OwnerIInv /\ [OwnerNext]_ownerVars => OwnerIInv'
  <2>. SUFFICES ASSUME OwnerIInv, [OwnerNext]_ownerVars PROVE OwnerIInv'
    OBVIOUS
  <2>1. ASSUME NEW p \in Callers, NEW k \in Keys, NEW f \in Blobs, RegisterOwner(p, k, f)
        PROVE  OwnerIInv'
    BY <2>1, RegisterOwnerStep
  <2>2. ASSUME NEW p \in Callers, NEW k \in Keys, NEW f \in Blobs,
               CheckIsOwner(p, "unregister", k, Nobody, f)
        PROVE  OwnerIInv'
    BY <2>2, CheckIsOwnerStep
  <2>3. ASSUME NEW p \in Callers, NEW k \in Keys, NEW f \in Blobs, NEW to \in Keys,
               TransferMemory(p, k, to, f)
        PROVE  OwnerIInv'
    BY <2>3, TransferMemoryStep
  <2>4. ASSUME NEW p \in Callers, NEW k \in Keys, NEW f \in Blobs, NEW to \in Keys,
               CheckIsOwner(p, "transfer", k, to, f)
        PROVE  OwnerIInv'
    BY <2>4, CheckIsOwnerStep
  <2>5. ASSUME NEW p \in Callers, Apply(p) PROVE OwnerIInv'
    BY <2>5, ApplyStep
  <2>6. CASE UNCHANGED ownerVars
    BY <2>6 DEF ownerVars, OwnerIInv, OwnerTypeOK, KnowingOwns, IsOwner, OwnerDecides
  <2>. QED
    BY <2>1, <2>2, <2>3, <2>4, <2>5, <2>6 DEF OwnerNext
<1>3. OwnerIInv => OwnerDecides
  BY DEF OwnerIInv
<1>. QED
  BY <1>1, <1>2, <1>3, PTL DEF OwnerSpec

-----------------------------------------------------------------------------
(***************************************************************************)
(* Locations.  The two indexes agree row by row on every file that no      *)
(* answer of theirs led astray, so that a count or a listing is the same.  *)
(***************************************************************************)
IndexTypeOK ==
    /\ locations \in [Tracked -> SUBSET Urls]
    /\ rows \in SUBSET (Tracked \X Urls) /\ IsFiniteSet(rows)
    /\ strayed \in SUBSET Tracked

(* Row by row, off the files that have strayed. *)
SameRows ==
    \A f \in Tracked \ strayed, u \in Urls : u \in locations[f] <=> <<f, u>> \in rows

SameAnswer == strayed = {} => answers[1] = answers[2]

IndexIInv == IndexTypeOK /\ SameRows /\ SameAnswer

-----------------------------------------------------------------------------
LEMMA RegisterLocationStep ==
    ASSUME IndexIInv, NEW f \in Tracked, NEW u \in Urls, RegisterLocation(f, u)
    PROVE  IndexIInv'
<1>1. IsFiniteSet(rows')
  BY FS_AddElement DEF RegisterLocation, IndexIInv, IndexTypeOK
<1>2. IndexTypeOK'
  BY <1>1 DEF RegisterLocation, IndexIInv, IndexTypeOK
<1>3. SameRows' /\ SameAnswer'
  BY DEF RegisterLocation, IndexIInv, IndexTypeOK, SameRows, SameAnswer
<1>. QED
  BY <1>2, <1>3 DEF IndexIInv

LEMMA RemoveLocationStep ==
    ASSUME IndexIInv, NEW f \in Tracked, NEW u \in Urls, RemoveLocation(f, u)
    PROVE  IndexIInv'
<1>1. IsFiniteSet(rows')
  BY FS_Difference DEF RemoveLocation, IndexIInv, IndexTypeOK
<1>2. IndexTypeOK'
  BY <1>1 DEF RemoveLocation, IndexIInv, IndexTypeOK
<1>3. SameRows' /\ SameAnswer'
  BY DEF RemoveLocation, IndexIInv, IndexTypeOK, SameRows, SameAnswer
<1>. QED
  BY <1>2, <1>3 DEF IndexIInv

LEMMA UnregisterFileStep ==
    ASSUME IndexIInv, NEW f \in Tracked, UnregisterFile(f)
    PROVE  IndexIInv'
<1>1. IsFiniteSet(rows')
  BY FS_Difference DEF UnregisterFile, IndexIInv, IndexTypeOK
<1>2. IndexTypeOK'
  BY <1>1 DEF UnregisterFile, IndexIInv, IndexTypeOK
<1>3. SameRows'
  <2>. SUFFICES ASSUME NEW g \in Tracked, g \notin strayed', NEW u \in Urls
                PROVE  u \in locations'[g] <=> <<g, u>> \in rows'
    BY DEF SameRows
  <2>1. CASE g = f
    BY <2>1 DEF UnregisterFile, RowsOf, IndexIInv, IndexTypeOK
  <2>2. CASE g # f
    BY <2>2 DEF UnregisterFile, RowsOf, IndexIInv, IndexTypeOK, SameRows
  <2>. QED
    BY <2>1, <2>2
<1>4. SameAnswer'
  BY DEF UnregisterFile, SameAnswer
<1>. QED
  BY <1>2, <1>3, <1>4 DEF IndexIInv

(* An update keeps the two together unless it makes the file stray.        *)
LEMMA UpdateLocationStep ==
    ASSUME IndexIInv, NEW f \in Tracked, NEW old \in Urls, NEW new \in Urls,
           UpdateLocation(f, old, new)
    PROVE  IndexIInv'
<1>. DEFINE known == locations[f] # {}
            row == <<f, old>> \in rows
            double == row /\ old # new /\ <<f, new>> \in rows
<1>1. /\ locations' = IF known THEN [locations EXCEPT ![f] = Updated(f, old, new)]
                      ELSE locations
      /\ rows' = IF row /\ ~double THEN (rows \ {<<f, old>>}) \union {<<f, new>>} ELSE rows
      /\ answers' = <<IF known THEN "ok" ELSE "not found",
                      IF ~row THEN "not found" ELSE IF double THEN "constraint" ELSE "ok">>
      /\ strayed' = IF known /\ (~row \/ double) THEN strayed \union {f} ELSE strayed
  BY Zenon DEF UpdateLocation
<1>2. IsFiniteSet(rows')
  <2>1. IsFiniteSet(rows \ {<<f, old>>})
    BY FS_Difference DEF IndexIInv, IndexTypeOK
  <2>2. IsFiniteSet((rows \ {<<f, old>>}) \union {<<f, new>>})
    BY <2>1, FS_AddElement
  <2>3. IsFiniteSet(rows)
    BY DEF IndexIInv, IndexTypeOK
  <2>. QED
    BY ONLY <1>1, <2>2, <2>3
<1>3. IndexTypeOK'
  <2>1. Updated(f, old, new) \in SUBSET Urls
    BY DEF Updated, IndexIInv, IndexTypeOK
  <2>2. locations' \in [Tracked -> SUBSET Urls]
    BY <1>1, <2>1 DEF IndexIInv, IndexTypeOK
  <2>3. <<f, new>> \in Tracked \X Urls
    OBVIOUS
  <2>4. rows' \in SUBSET (Tracked \X Urls)
    BY <1>1, <2>3, Zenon DEF IndexIInv, IndexTypeOK
  <2>5. strayed' \in SUBSET Tracked
    BY <1>1 DEF IndexIInv, IndexTypeOK
  <2>. QED
    BY <1>2, <2>2, <2>4, <2>5 DEF IndexTypeOK
<1>4. f \notin strayed /\ row => known
  BY DEF IndexIInv, SameRows
<1>5. SameRows'
  <2>. SUFFICES ASSUME NEW g \in Tracked, g \notin strayed', NEW u \in Urls
                PROVE  u \in locations'[g] <=> <<g, u>> \in rows'
    BY DEF SameRows
  <2>1. CASE g # f
    BY <1>1, <2>1 DEF IndexIInv, IndexTypeOK, SameRows
  <2>2. CASE g = f
    <3>1. f \notin strayed /\ ~(known /\ (~row \/ double))
      BY <1>1, <2>2
    <3>2. u \in locations[f] <=> <<f, u>> \in rows
      BY <3>1 DEF IndexIInv, SameRows
    <3>3. CASE known
      <4>1. locations'[f] = (locations[f] \ {old}) \union {new}
        BY <1>1, <3>3 DEF Updated, IndexIInv, IndexTypeOK
      <4>2. rows' = (rows \ {<<f, old>>}) \union {<<f, new>>}
        BY <1>1, <3>1, <3>3
      <4>. QED
        BY <2>2, <3>2, <4>1, <4>2
    <3>4. CASE ~known
      BY <1>1, <1>4, <2>2, <3>1, <3>2, <3>4
    <3>. QED
      BY <3>3, <3>4
  <2>. QED
    BY <2>1, <2>2
<1>6. SameAnswer'
  BY <1>1, <1>4 DEF SameAnswer
<1>. QED
  BY <1>3, <1>5, <1>6 DEF IndexIInv

LEMMA IndexInductive == IndexSpec => []IndexIInv
<1>1. IndexInit => IndexIInv
  BY FS_EmptySet DEF IndexInit, IndexIInv, IndexTypeOK, SameRows, SameAnswer
<1>2. IndexIInv /\ [IndexNext]_indexVars => IndexIInv'
  <2>. SUFFICES ASSUME IndexIInv, [IndexNext]_indexVars PROVE IndexIInv'
    OBVIOUS
  <2>1. ASSUME NEW f \in Tracked, NEW u \in Urls, RegisterLocation(f, u)
        PROVE  IndexIInv'
    BY <2>1, RegisterLocationStep
  <2>2. ASSUME NEW f \in Tracked, NEW u \in Urls, RemoveLocation(f, u)
        PROVE  IndexIInv'
    BY <2>2, RemoveLocationStep
  <2>3. ASSUME NEW f \in Tracked, NEW old \in Urls, NEW new \in Urls,
               UpdateLocation(f, old, new)
        PROVE  IndexIInv'
    BY <2>3, UpdateLocationStep
  <2>4. ASSUME NEW f \in Tracked, UnregisterFile(f) PROVE IndexIInv'
    BY <2>4, UnregisterFileStep
  <2>5. CASE UNCHANGED indexVars
    BY <2>5 DEF indexVars, IndexIInv, IndexTypeOK, SameRows, SameAnswer
  <2>. QED
    BY <2>1, <2>2, <2>3, <2>4, <2>5 DEF IndexNext
<1>. QED
  BY <1>1, <1>2, PTL DEF IndexSpec

(* What the property says of the answers follows from the rows. *)
LEMMA SameRowsAgree == IndexIInv => IndexesAgree
<1>. SUFFICES ASSUME IndexIInv PROVE IndexesAgree
  OBVIOUS
<1>1. ASSUME NEW f \in Tracked \ strayed
      PROVE  Lookup(f)[1] = Lookup(f)[2] /\ HasLocation(f)[1] = HasLocation(f)[2]
  <2>1. locations[f] = {r[2] : r \in RowsOf(f)}
    <3>1. ASSUME NEW u \in locations[f] PROVE u \in {r[2] : r \in RowsOf(f)}
      <4>1. u \in Urls
        BY DEF IndexIInv, IndexTypeOK
      <4>2. <<f, u>> \in RowsOf(f)
        BY <4>1 DEF IndexIInv, SameRows, RowsOf
      <4>. QED
        BY <4>2
    <3>2. ASSUME NEW r \in RowsOf(f) PROVE r[2] \in locations[f]
      <4>1. r \in rows /\ r[1] = f /\ r \in Tracked \X Urls
        BY DEF RowsOf, IndexIInv, IndexTypeOK
      <4>2. r = <<f, r[2]>> /\ r[2] \in Urls
        BY <4>1
      <4>. QED
        BY <4>1, <4>2 DEF IndexIInv, SameRows
    <3>. QED
      BY <3>1, <3>2
  <2>2. IsFiniteSet(RowsOf(f))
    BY FS_Subset DEF RowsOf, IndexIInv, IndexTypeOK
  <2>3. Cardinality(RowsOf(f)) \in Nat /\ (Cardinality(RowsOf(f)) = 0 <=> RowsOf(f) = {})
    BY <2>2, FS_CardinalityType, FS_EmptySet
  <2>4. locations[f] # {} <=> RowsOf(f) # {}
    BY <2>1
  <2>5. (locations[f] # {}) = (Cardinality(RowsOf(f)) > 0)
    BY <2>3, <2>4
  <2>. QED
    BY <2>1, <2>5 DEF Lookup, HasLocation
<1>2. ASSUME NEW u \in Urls
      PROVE  AtProvider(u)[1] \ strayed = AtProvider(u)[2] \ strayed
  BY DEF AtProvider, IndexIInv, SameRows
<1>. QED
  BY <1>1, <1>2 DEF IndexesAgree, IndexIInv, SameAnswer

(* For any number of files and locations, and calls in any order, the map  *)
(* and the table answer alike and hold alike until an update strays.       *)
THEOREM IndexesStayAlike == IndexSpec => []IndexesAgree
  BY IndexInductive, SameRowsAgree, PTL

-----------------------------------------------------------------------------
(***************************************************************************)
(* The version of the file.  OpensAgain does not say how far the openers   *)
(* at work have come, so it is not inductive.  The invariant adds what     *)
(* every place in init_schema has behind it whatever the others do         *)
(* (Progress), what the columns of a version 2 are (Columns), and what the *)
(* opener that is alone knows of the version (AloneKnows).                 *)
(***************************************************************************)
Migrating == {"create", "keyspace_members", "grants", "forget", "note"}
Opening ==
    [st : Migrating \union {"open", "failed"}, prior : 0 .. 3, next : 1 .. 14, alone : BOOLEAN]
Openings == Opening \union {Away, [st |-> "serving"]}
Forms == {"none", "capabilities", "current"}

SchemaTypeOK ==
    /\ versions \in {{}, {1}, {2}, {3}}
    /\ schema \in [SchemaObjects -> Forms]
    /\ opener \in [Openers -> Openings]
    /\ opens \in Nat /\ cuts \in Nat
    /\ cut \in BOOLEAN

Gone == \A x \in SchemaObjects : schema[x] # "capabilities"
MadeIn(s, n) == \A m \in 1 .. n : s[Creates[m]] # "none"
Made == MadeIn(schema, 14)

(* The old columns are there only while the file has version 2, and an     *)
(* opener has done what its place in init_schema says.                     *)
Progress ==
    /\ 2 \notin versions => Gone
    /\ \A x \in SchemaObjects \ Renamed : schema[x] # "capabilities"
    /\ \A o \in Openers :
          /\ opener[o].st = "create" => MadeIn(schema, opener[o].next - 1)
          /\ opener[o].st = "create" /\ opener[o].prior # 2 => Gone
          /\ opener[o].st \in {"keyspace_members", "grants"} => Made /\ opener[o].prior = 2
          /\ opener[o].st = "grants" => schema["keyspace_members"] = "current"
          /\ opener[o].st \in {"forget", "note", "open"} => Usable
          /\ opener[o].st = "note" => versions \subseteq {3}

(* Between its first rename and the version only one opener at a time can  *)
(* be; unless one was killed there, the columns of a version 2 are as old  *)
(* as the opener believes.                                                 *)
Midway(s) == s.st = "grants" \/ (s.st = "forget" /\ s.prior = 2)
Columns ==
    /\ \A o, q \in Openers : Midway(opener[o]) /\ Midway(opener[q]) => o = q
    /\ ~cut =>
          /\ \A o \in Openers : opener[o].st = "grants" => schema["grants"] = "capabilities"
          /\ 2 \in versions /\ (\A o \in Openers : ~Midway(opener[o])) =>
                \A t \in Renamed : schema[t] = "capabilities"

(* The opener that is alone is the only one at work and knows the version. *)
AloneKnows ==
    \A o \in Openers : opener[o].st \in Migrating /\ opener[o].alone =>
        /\ \A q \in Openers : opener[q].st \in Migrating => q = o
        /\ IF opener[o].st = "note" THEN versions = {} ELSE opener[o].prior = CurrentVersion

(* Once an open has succeeded, the version is missing only between the     *)
(* two statements that replace it.                                         *)
VersionNoted ==
    cuts = 0 /\ (\E o \in Openers : opener[o].st = "open") =>
        versions = {3} \/ \E o \in Openers : opener[o].st = "note"

FailsJustified == \A o \in Openers : opener[o].st = "failed" => ~opener[o].alone \/ cut

SchemaIInv ==
    SchemaTypeOK /\ Progress /\ Columns /\ AloneKnows /\ VersionNoted /\ FailsJustified

-----------------------------------------------------------------------------
LEMMA BatchFacts ==
    /\ Len(Creates) = 14
    /\ \A n \in 1 .. 14 : Creates[n] \in SchemaObjects
    /\ \A x \in SchemaObjects : \E n \in 1 .. 14 : x = Creates[n]
    /\ Renamed \subseteq SchemaObjects
<1>1. Len(Creates) = 14 /\ DOMAIN Creates = 1 .. 14
  BY DEF Creates
<1>2. Creates[10] = "keyspace_members" /\ Creates[12] = "grants"
  BY DEF Creates
<1>. QED
  BY <1>1, <1>2 DEF SchemaObjects, Renamed

(* What every table having been created and none being old amounts to.     *)
LEMMA MadeAndGone ==
    ASSUME SchemaTypeOK
    PROVE  /\ Made /\ Gone => Usable
           /\ Usable => Made /\ Gone
  BY BatchFacts DEF Made, MadeIn, Gone, Usable, SchemaTypeOK, Forms

LEMMA OpenerStates ==
    ASSUME NEW s \in Openings
    PROVE  /\ s.st \in Migrating \union {"failed", "open"} => s \in Opening
           /\ s.st \in Migrating \/ s.st \in {"away", "open", "failed", "serving"}
<1>1. CASE s \in Opening
  BY <1>1 DEF Opening, Migrating
<1>2. CASE s = Away
  BY <1>2 DEF Away, Migrating
<1>3. CASE s = [st |-> "serving"]
  BY <1>3 DEF Migrating
<1>. QED
  BY <1>1, <1>2, <1>3 DEF Openings

LEMMA WorkingMigrates ==
    ASSUME opener \in [Openers -> Openings]
    PROVE  /\ Working = {o \in Openers : opener[o].st \in Migrating}
           /\ \A o \in Openers : opener[o].st \in Migrating => opener[o] \in Opening
<1>1. ASSUME NEW o \in Openers
      PROVE  /\ o \in Working <=> opener[o].st \in Migrating
             /\ opener[o].st \in Migrating => opener[o] \in Opening
  <2>1. opener[o] \in Openings
    OBVIOUS
  <2>. QED
    BY <2>1, OpenerStates DEF Working, Migrating
<1>. QED
  BY <1>1 DEF Working

LEMMA VersionRead ==
    ASSUME SchemaTypeOK
    PROVE  /\ versions = {} => CurrentVersion = 0
           /\ \A v \in 1 .. 3 : versions = {v} <=> CurrentVersion = v
           /\ CurrentVersion \in 0 .. 3
           /\ CurrentVersion = 2 <=> 2 \in versions
<1>1. ASSUME NEW v \in 1 .. 3 PROVE Least({v}) = v
  BY DEF Least
<1>. QED
  BY <1>1 DEF SchemaTypeOK, CurrentVersion

(* An opener goes on to its next statement. *)
LEMMA GoesOn ==
    ASSUME SchemaTypeOK, NEW o \in Openers, opener[o].st \in Migrating,
           NEW next \in Migrating \union {"open", "failed"}, GoOn(o, next)
    PROVE  /\ opener' \in [Openers -> Openings]
           /\ opener'[o].st = next /\ opener'[o].prior = opener[o].prior
           /\ opener'[o].next = opener[o].next /\ opener'[o].alone = opener[o].alone
           /\ \A q \in Openers \ {o} : opener'[q] = opener[q]
<1>1. opener[o] \in Opening
  BY WorkingMigrates DEF SchemaTypeOK
<1>2. [opener[o] EXCEPT !.st = next] \in Opening
  BY <1>1 DEF Opening
<1>3. opener' = [opener EXCEPT ![o] = [opener[o] EXCEPT !.st = next]]
  BY DEF GoOn
<1>4. opener \in [Openers -> Openings]
  BY DEF SchemaTypeOK
<1>5. opener'[o] = [opener[o] EXCEPT !.st = next]
  BY <1>3, <1>4
<1>6. /\ opener'[o].st = next /\ opener'[o].prior = opener[o].prior
      /\ opener'[o].next = opener[o].next /\ opener'[o].alone = opener[o].alone
  BY <1>1, <1>5 DEF Opening
<1>. QED
  BY <1>2, <1>3, <1>4, <1>6 DEF Openings

-----------------------------------------------------------------------------
LEMMA OpenStep ==
    ASSUME SchemaIInv, NEW o \in Openers, Open(o)
    PROVE  SchemaIInv'
<1>. DEFINE start == [st |-> "create", prior |-> CurrentVersion, next |-> 1,
                      alone |-> Working = {}]
<1>0. SchemaTypeOK /\ Progress /\ opener \in [Openers -> Openings]
  BY DEF SchemaIInv, SchemaTypeOK
<1>1. /\ opener[o].st \in {"away", "open", "failed"}
      /\ opener' = [q \in Openers |->
            CASE q = o -> start
              [] q \in Working -> [opener[q] EXCEPT !.alone = FALSE]
              [] OTHER -> opener[q]]
      /\ opens' = opens + 1
      /\ UNCHANGED <<versions, schema, cuts, cut>>
  BY Zenon DEF Open
<1>2. start \in Opening
  BY <1>0, VersionRead DEF Opening, Migrating
<1>3. o \notin Working
  BY <1>1 DEF Working
<1>4. opener'[o] = start
  BY <1>1, <1>3
<1>5. start.st = "create" /\ start.prior = CurrentVersion /\ start.next = 1
      /\ start.alone = (Working = {})
  OBVIOUS
<1>. HIDE DEF start
<1>6. ASSUME NEW q \in Openers \ {o}
      PROVE  /\ opener'[q] \in Openings
             /\ opener'[q].st = opener[q].st
             /\ opener[q].st \in Migrating =>
                   opener'[q].prior = opener[q].prior /\ opener'[q].next = opener[q].next
                   /\ ~opener'[q].alone
             /\ opener[q].st \notin Migrating => opener'[q] = opener[q]
  <2>1. CASE q \in Working
    <3>1. opener[q] \in Opening /\ opener[q].st \in Migrating
      BY <1>0, <2>1, WorkingMigrates
    <3>2. opener'[q] = [opener[q] EXCEPT !.alone = FALSE]
      BY <1>1, <2>1
    <3>. QED
      BY <3>1, <3>2 DEF Opening, Openings
  <2>2. CASE q \notin Working
    <3>1. opener'[q] = opener[q]
      BY <1>1, <2>2
    <3>. QED
      BY <3>1, <2>2, <1>0, WorkingMigrates
  <2>. QED
    BY <2>1, <2>2
<1>7. SchemaTypeOK'
  <2>1. opener' \in [Openers -> Openings]
    BY <1>1, <1>2, <1>4, <1>6 DEF Openings
  <2>. QED
    BY <1>0, <1>1, <2>1 DEF SchemaTypeOK
<1>8. /\ CurrentVersion' = CurrentVersion /\ Gone' = Gone /\ Made' = Made /\ Usable' = Usable
      /\ schema' = schema
  BY <1>1 DEF CurrentVersion, Gone, Made, Usable, MadeIn
<1>9. Progress'
  <2>1. CurrentVersion # 2 => Gone
    BY <1>0, VersionRead DEF Progress
  <2>2. MadeIn(schema, 0)
    BY DEF MadeIn
  <2>3. /\ opener'[o].st = "create" => MadeIn(schema', opener'[o].next - 1)
        /\ opener'[o].st = "create" /\ opener'[o].prior # 2 => Gone'
    BY <1>4, <1>5, <1>8, <2>1, <2>2
  <2>4. ASSUME NEW q \in Openers \ {o}
        PROVE  /\ opener'[q].st = "create" => MadeIn(schema', opener'[q].next - 1)
               /\ opener'[q].st = "create" /\ opener'[q].prior # 2 => Gone'
               /\ opener'[q].st \in {"keyspace_members", "grants"} =>
                     Made' /\ opener'[q].prior = 2
               /\ opener'[q].st = "grants" => schema'["keyspace_members"] = "current"
               /\ opener'[q].st \in {"forget", "note", "open"} => Usable'
               /\ opener'[q].st = "note" => versions' \subseteq {3}
    BY <1>0, <1>1, <1>6, <1>8 DEF Progress, Migrating
  <2>5. opener'[o].st = "create"
    BY <1>4, <1>5
  <2>6. /\ 2 \notin versions' => Gone'
        /\ \A x \in SchemaObjects \ Renamed : schema'[x] # "capabilities"
    BY <1>0, <1>1, <1>8 DEF Progress
  <2>. QED
    BY <2>3, <2>4, <2>5, <2>6 DEF Progress
<1>10. \A q \in Openers : Midway(opener'[q]) <=> Midway(opener[q])
  BY <1>1, <1>4, <1>5, <1>6 DEF Midway, Migrating
<1>11. Columns'
  <2>1. \A q \in Openers : opener'[q].st = "grants" => opener[q].st = "grants"
    BY <1>4, <1>5, <1>6
  <2>2. Columns
    BY DEF SchemaIInv
  <2>. QED
    BY <2>1, <2>2, <1>1, <1>10 DEF Columns
<1>12. AloneKnows'
  <2>. SUFFICES ASSUME NEW q \in Openers, opener'[q].st \in Migrating, opener'[q].alone
                PROVE  /\ \A r \in Openers : opener'[r].st \in Migrating => r = q
                       /\ IF opener'[q].st = "note" THEN versions' = {}
                          ELSE opener'[q].prior = CurrentVersion'
    BY DEF AloneKnows
  <2>1. q = o
    BY <1>6
  <2>2. Working = {}
    BY <2>1, <1>4, <1>5
  <2>3. \A r \in Openers \ {o} : opener'[r].st \notin Migrating
    BY <2>2, <1>0, <1>6, WorkingMigrates
  <2>. QED
    BY <2>1, <2>3, <1>4, <1>5, <1>8
<1>13. VersionNoted'
  <2>1. \A q \in Openers : opener'[q].st = "open" => opener[q].st = "open"
    BY <1>1, <1>4, <1>5, <1>6
  <2>2. \A q \in Openers : opener[q].st = "note" => opener'[q].st = "note"
    BY <1>1, <1>4, <1>5, <1>6
  <2>. QED
    BY <2>1, <2>2, <1>1 DEF SchemaIInv, VersionNoted
<1>14. FailsJustified'
  BY <1>1, <1>4, <1>5, <1>6 DEF SchemaIInv, FailsJustified, Migrating
<1>. QED
  BY <1>7, <1>9, <1>11, <1>12, <1>13, <1>14 DEF SchemaIInv

(* The step of an opener that touches neither its own alone nor another    *)
(* opener leaves whoever is alone alone.                                   *)
LEMMA StaysAlone ==
    ASSUME SchemaTypeOK, AloneKnows, NEW o \in Openers, opener[o].st \in Migrating,
           opener'[o].alone = opener[o].alone,
           \A q \in Openers \ {o} : opener'[q] = opener[q],
           opener[o].alone /\ opener'[o].st \in Migrating =>
               IF opener'[o].st = "note" THEN versions' = {}
               ELSE opener'[o].prior = CurrentVersion'
    PROVE  AloneKnows'
<1>. SUFFICES ASSUME NEW q \in Openers, opener'[q].st \in Migrating, opener'[q].alone
              PROVE  /\ \A r \in Openers : opener'[r].st \in Migrating => r = q
                     /\ IF opener'[q].st = "note" THEN versions' = {}
                        ELSE opener'[q].prior = CurrentVersion'
  BY DEF AloneKnows
<1>1. q = o
  BY DEF AloneKnows
<1>. QED
  BY <1>1 DEF AloneKnows

LEMMA CreateStep ==
    ASSUME SchemaIInv, NEW o \in Openers, Create(o)
    PROVE  SchemaIInv'
<1>. DEFINE n == opener[o].next
            stmt == Creates[n]
            then == IF Migrates(opener[o].prior) THEN "keyspace_members" ELSE "forget"
<1>0. SchemaTypeOK /\ Progress /\ Columns /\ AloneKnows
  BY DEF SchemaIInv
<1>1. /\ opener[o].st = "create"
      /\ schema' = IF schema[stmt] = "none"
                   THEN [schema EXCEPT ![stmt] = "current"] ELSE schema
      /\ IF n < Len(Creates) THEN opener' = [opener EXCEPT ![o].next = n + 1]
         ELSE GoOn(o, then)
      /\ UNCHANGED <<versions, opens, cuts, cut>>
  BY Zenon DEF Create
<1>2. opener[o] \in Opening /\ opener[o].prior \in 0 .. 3 /\ n \in 1 .. 14
  BY <1>0, <1>1, WorkingMigrates DEF SchemaTypeOK, Migrating, Opening
<1>3. /\ then \in {"keyspace_members", "forget"}
      /\ then = "keyspace_members" <=> opener[o].prior = 2
  BY <1>2 DEF Migrates, SchemaVersion
<1>4. stmt \in SchemaObjects /\ Len(Creates) = 14
  BY <1>2, BatchFacts
<1>. HIDE DEF then, stmt
<1>5. /\ opener' \in [Openers -> Openings]
      /\ \A q \in Openers \ {o} : opener'[q] = opener[q]
      /\ opener'[o].prior = opener[o].prior /\ opener'[o].alone = opener[o].alone
      /\ \/ n < 14 /\ opener'[o].st = "create" /\ opener'[o].next = n + 1
         \/ n = 14 /\ opener'[o].st = then
  <2>1. CASE n < 14
    <3>1. opener' = [opener EXCEPT ![o] = [opener[o] EXCEPT !.next = n + 1]]
      BY <2>1, <1>1, <1>4
    <3>2. [opener[o] EXCEPT !.next = n + 1] \in Opening
      BY <2>1, <1>2 DEF Opening
    <3>3. /\ opener' \in [Openers -> Openings]
          /\ opener'[o] = [opener[o] EXCEPT !.next = n + 1]
          /\ \A q \in Openers \ {o} : opener'[q] = opener[q]
      BY <3>1, <3>2, <1>0 DEF SchemaTypeOK, Openings
    <3>. QED
      BY <3>3, <2>1, <1>1, <1>2 DEF Opening
  <2>2. CASE ~(n < 14)
    <3>1. GoOn(o, then) /\ n = 14
      BY <2>2, <1>1, <1>2, <1>4
    <3>. QED
      BY <3>1, <1>0, <1>1, <1>3, GoesOn DEF Migrating
  <2>. QED
    BY <2>1, <2>2
<1>6. SchemaTypeOK'
  <2>1. schema' \in [SchemaObjects -> Forms]
    BY <1>0, <1>1, <1>4 DEF SchemaTypeOK, Forms
  <2>. QED
    BY <1>0, <1>1, <1>5, <2>1 DEF SchemaTypeOK
<1>7. /\ \A x \in SchemaObjects : schema[x] # "none" => schema'[x] = schema[x]
      /\ \A x \in SchemaObjects : schema'[x] = "capabilities" => schema[x] = "capabilities"
      /\ schema'[stmt] # "none"
  BY <1>0, <1>1, <1>4 DEF SchemaTypeOK
<1>8. ASSUME NEW m, m \in 0 .. 14, MadeIn(schema, m) PROVE MadeIn(schema', m)
  BY <1>7, <1>8, BatchFacts DEF MadeIn
<1>9. MadeIn(schema', n)
  <2>1. MadeIn(schema, n - 1) /\ n - 1 \in 0 .. 14
    BY <1>0, <1>1, <1>2 DEF Progress
  <2>2. MadeIn(schema', n - 1)
    BY <2>1, <1>8
  <2>. QED
    BY <2>2, <1>2, <1>7 DEF MadeIn, stmt
<1>10. /\ Gone => Gone'
       /\ Made => Made'
       /\ Usable => Usable'
  <2>1. Gone => Gone'
    BY <1>7 DEF Gone
  <2>2. Made => Made'
    BY <1>8 DEF Made
  <2>. QED
    BY <2>1, <2>2, <1>0, <1>6, MadeAndGone, BatchFacts
       DEF Made, MadeIn, Gone, Usable, SchemaTypeOK, Forms
<1>11. Progress'
  <2>1. opener'[o].st = "create" => MadeIn(schema', opener'[o].next - 1)
    <3>1. ASSUME opener'[o].next = n + 1 PROVE opener'[o].next - 1 = n
      BY <3>1, <1>2
    <3>. QED
      BY <3>1, <1>3, <1>5, <1>9
  <2>2. opener'[o].st # "create" => Made'
    BY <1>5, <1>9 DEF Made
  <2>3. opener[o].prior # 2 => Gone'
    BY <1>0, <1>1, <1>10 DEF Progress
  <2>4. opener'[o].st = "forget" => Usable'
    <3>1. opener'[o].st = "forget" => opener[o].prior # 2 /\ Made'
      BY <2>2, <1>3, <1>5
    <3>. QED
      BY <3>1, <2>3, <1>6, BatchFacts DEF Made, MadeIn, Gone, Usable, SchemaTypeOK, Forms
  <2>5. opener'[o].st \in {"create", "keyspace_members", "forget"}
        /\ (opener'[o].st = "keyspace_members" => opener'[o].prior = 2)
    BY <1>3, <1>5
  <2>6. ASSUME NEW q \in Openers \ {o}
        PROVE  /\ opener'[q].st = "create" => MadeIn(schema', opener'[q].next - 1)
               /\ opener'[q].st = "create" /\ opener'[q].prior # 2 => Gone'
               /\ opener'[q].st \in {"keyspace_members", "grants"} =>
                     Made' /\ opener'[q].prior = 2
               /\ opener'[q].st = "grants" => schema'["keyspace_members"] = "current"
               /\ opener'[q].st \in {"forget", "note", "open"} => Usable'
               /\ opener'[q].st = "note" => versions' \subseteq {3}
    <3>1. opener'[q] = opener[q]
      BY <1>5
    <3>2. ASSUME opener[q].st = "create" PROVE MadeIn(schema', opener[q].next - 1)
      <4>1. opener[q].next - 1 \in 0 .. 14
        <5>1. opener[q] \in Opening
          BY <3>2, <1>0, WorkingMigrates DEF SchemaTypeOK, Migrating
        <5>. QED
          BY <5>1 DEF Opening
      <4>. QED
        BY <3>2, <4>1, <1>0, <1>8 DEF Progress
    <3>3. opener[q].st = "grants" => schema'["keyspace_members"] = "current"
      BY <1>0, <1>7, BatchFacts DEF Progress, Renamed
    <3>. QED
      BY <3>1, <3>2, <3>3, <1>0, <1>1, <1>10 DEF Progress
  <2>7. /\ 2 \notin versions' => Gone'
        /\ \A x \in SchemaObjects \ Renamed : schema'[x] # "capabilities"
    BY <1>0, <1>1, <1>7, <1>10 DEF Progress
  <2>. QED
    BY <2>1, <2>2, <2>3, <2>4, <2>5, <2>6, <2>7, <1>5 DEF Progress
<1>12. Columns'
  <2>1. \A q \in Openers : /\ Midway(opener'[q]) <=> Midway(opener[q])
                           /\ opener'[q].st = "grants" <=> opener[q].st = "grants"
    BY <1>1, <1>3, <1>5 DEF Midway
  <2>2. \A t \in Renamed : schema[t] = "capabilities" => schema'[t] = "capabilities"
    BY <1>7, BatchFacts
  <2>3. "grants" \in Renamed
    BY DEF Renamed
  <2>4. \A q, r \in Openers : Midway(opener'[q]) /\ Midway(opener'[r]) => q = r
    BY <2>1, <1>0 DEF Columns
  <2>5. ASSUME ~cut', NEW q \in Openers, opener'[q].st = "grants"
        PROVE  schema'["grants"] = "capabilities"
    BY <2>1, <2>2, <2>3, <2>5, <1>0, <1>1 DEF Columns
  <2>6. ASSUME ~cut', 2 \in versions', \A q \in Openers : ~Midway(opener'[q])
        PROVE  \A t \in Renamed : schema'[t] = "capabilities"
    BY <2>1, <2>2, <2>6, <1>0, <1>1 DEF Columns
  <2>. QED
    BY <2>4, <2>5, <2>6 DEF Columns
<1>13. AloneKnows'
  <2>1. CurrentVersion' = CurrentVersion
    BY <1>1 DEF CurrentVersion
  <2>2. opener[o].alone => opener[o].prior = CurrentVersion
    BY <1>0, <1>1 DEF AloneKnows, Migrating
  <2>3. opener'[o].st # "note" /\ opener[o].st \in Migrating
    BY <1>1, <1>3, <1>5 DEF Migrating
  <2>. QED
    BY <2>1, <2>2, <2>3, <1>0, <1>5, StaysAlone
<1>14. VersionNoted' /\ FailsJustified'
  <2>1. /\ opener'[o].st \notin {"open", "note", "failed"}
        /\ opener[o].st \notin {"open", "note", "failed"}
    BY <1>1, <1>3, <1>5
  <2>. QED
    BY <2>1, <1>1, <1>5 DEF SchemaIInv, VersionNoted, FailsJustified
<1>. QED
  BY <1>6, <1>11, <1>12, <1>13, <1>14 DEF SchemaIInv

LEMMA RenameStep ==
    ASSUME SchemaIInv, NEW o \in Openers, Rename(o)
    PROVE  SchemaIInv'
<1>. DEFINE t == opener[o].st
            next == IF schema[t] # "capabilities" THEN "failed"
                    ELSE IF t = "keyspace_members" THEN "grants" ELSE "forget"
<1>0. SchemaTypeOK /\ Progress /\ Columns /\ AloneKnows
  BY DEF SchemaIInv
<1>1. /\ t \in {"keyspace_members", "grants"}
      /\ GoOn(o, next)
      /\ schema' = IF schema[t] = "capabilities" THEN [schema EXCEPT ![t] = "current"]
                   ELSE schema
      /\ UNCHANGED <<versions, opens, cuts, cut>>
  BY DEF Rename, Renamed
<1>2. next \in {"failed", "grants", "forget"}
  BY <1>1
<1>3. /\ opener' \in [Openers -> Openings]
      /\ opener'[o].st = next /\ opener'[o].prior = opener[o].prior
      /\ opener'[o].alone = opener[o].alone
      /\ \A q \in Openers \ {o} : opener'[q] = opener[q]
  BY <1>0, <1>1, <1>2, GoesOn DEF Migrating
<1>4. Made /\ opener[o].prior = 2 /\ t \in SchemaObjects
  BY <1>0, <1>1, BatchFacts DEF Progress, Renamed
<1>5. SchemaTypeOK'
  <2>1. schema' \in [SchemaObjects -> Forms]
    BY <1>0, <1>1, <1>4 DEF SchemaTypeOK, Forms
  <2>. QED
    BY <1>0, <1>1, <1>3, <2>1 DEF SchemaTypeOK
<1>6. \A x \in SchemaObjects :
         /\ schema[x] # "none" => schema'[x] # "none"
         /\ schema[x] = "current" => schema'[x] = "current"
         /\ schema'[x] = "capabilities" => schema[x] = "capabilities"
  BY <1>0, <1>1, <1>4 DEF SchemaTypeOK
<1>7. /\ Made' /\ (Usable => Usable') /\ (Gone => Gone')
      /\ \A m \in 0 .. 14 : MadeIn(schema', m)
  BY <1>4, <1>6, BatchFacts DEF Made, MadeIn, Gone, Usable
<1>8. /\ next = "grants" => schema'["keyspace_members"] = "current"
      /\ next = "forget" => Usable'
  <2>1. next = "grants" => schema'["keyspace_members"] = "current"
    BY <1>0, <1>1, <1>4 DEF SchemaTypeOK
  <2>2. ASSUME next = "forget" PROVE Usable'
    <3>1. t = "grants" /\ schema["grants"] = "capabilities"
      BY <2>2, <1>1
    <3>2. schema["keyspace_members"] = "current"
      BY <3>1, <1>0 DEF Progress
    <3>3. schema' = [schema EXCEPT !["grants"] = "current"]
      BY <3>1, <1>1
    <3>4. ASSUME NEW x \in SchemaObjects PROVE schema'[x] # "capabilities"
      BY <3>2, <3>3, <1>0 DEF Progress, Renamed, SchemaTypeOK
    <3>. QED
      BY <3>4, <1>5, <1>7, BatchFacts DEF Made, MadeIn, Usable, SchemaTypeOK, Forms
  <2>. QED
    BY <2>1, <2>2
<1>. HIDE DEF next
<1>9. Progress'
  <2>1. ASSUME NEW q \in Openers, opener'[q].st = "create" PROVE MadeIn(schema', opener'[q].next - 1)
    <3>1. opener'[q] \in Opening
      BY <2>1, <1>3, OpenerStates DEF Migrating
    <3>2. opener'[q].next - 1 \in 0 .. 14
      BY <3>1 DEF Opening
    <3>. QED
      BY <3>2, <1>7
  <2>2. /\ 2 \notin versions' => Gone'
        /\ \A x \in SchemaObjects \ Renamed : schema'[x] # "capabilities"
    BY <1>0, <1>1, <1>6, <1>7 DEF Progress
  <2>3. ASSUME NEW q \in Openers \ {o}
        PROVE  /\ opener'[q].st = "create" /\ opener'[q].prior # 2 => Gone'
               /\ opener'[q].st \in {"keyspace_members", "grants"} =>
                     Made' /\ opener'[q].prior = 2
               /\ opener'[q].st = "grants" => schema'["keyspace_members"] = "current"
               /\ opener'[q].st \in {"forget", "note", "open"} => Usable'
               /\ opener'[q].st = "note" => versions' \subseteq {3}
    <3>1. opener[q].st = "grants" => schema'["keyspace_members"] = "current"
      BY <1>0, <1>6, BatchFacts DEF Progress, Renamed
    <3>. QED
      BY <3>1, <1>0, <1>1, <1>3, <1>7 DEF Progress
  <2>4. opener'[o].st \in {"failed", "grants", "forget"} /\ opener'[o].prior = 2
    BY <1>2, <1>3, <1>4
  <2>. QED
    BY <2>1, <2>2, <2>3, <2>4, <1>3, <1>7, <1>8 DEF Progress
<1>10. ASSUME NEW q \in Openers, Midway(opener[q]), t = "keyspace_members"
       PROVE  next = "failed"
  <2>1. schema["keyspace_members"] = "current"
    <3>1. CASE opener[q].st = "grants"
      BY <3>1, <1>0 DEF Progress
    <3>2. CASE opener[q].st = "forget"
      BY <3>2, <1>0, BatchFacts DEF Progress, Usable, Renamed
    <3>. QED
      BY <3>1, <3>2, <1>10 DEF Midway
  <2>. QED
    BY <2>1, <1>10 DEF next
<1>11. Midway(opener'[o]) <=> next # "failed"
  BY <1>2, <1>3, <1>4 DEF Midway
<1>12. ASSUME ~cut, t = "grants" PROVE next = "forget"
  BY <1>0, <1>12 DEF Columns, next
<1>13. Columns'
  <2>1. ASSUME NEW q \in Openers, NEW r \in Openers, Midway(opener'[q]), Midway(opener'[r])
        PROVE  q = r
    <3>1. ASSUME NEW p \in Openers \ {o}, Midway(opener'[p]) PROVE ~Midway(opener'[o])
      <4>1. Midway(opener[p])
        BY <3>1, <1>3
      <4>2. t = "grants" => FALSE
        BY <4>1, <1>0, <3>1 DEF Columns, Midway
      <4>. QED
        BY <4>1, <4>2, <1>1, <1>10, <1>11
    <3>. QED
      BY <2>1, <3>1, <1>0, <1>3 DEF Columns
  <2>2. ASSUME ~cut', NEW q \in Openers, opener'[q].st = "grants"
        PROVE  schema'["grants"] = "capabilities"
    <3>1. CASE q = o
      <4>1. t = "keyspace_members" /\ schema[t] = "capabilities"
        BY <3>1, <2>2, <1>1, <1>3 DEF next
      <4>2. \A p \in Openers : ~Midway(opener[p])
        BY <4>1, <1>10 DEF next
      <4>3. 2 \in versions
        BY <4>1, <1>0, <1>4 DEF Progress, Gone
      <4>4. schema["grants"] = "capabilities"
        BY <4>2, <4>3, <2>2, <1>0, <1>1 DEF Columns, Renamed
      <4>. QED
        BY <4>1, <4>4, <1>0, <1>1, <1>4, BatchFacts DEF SchemaTypeOK, Renamed
    <3>2. CASE q # o
      <4>1. opener[q].st = "grants" /\ Midway(opener[q])
        BY <3>2, <2>2, <1>3 DEF Midway
      <4>2. schema["grants"] = "capabilities"
        BY <4>1, <2>2, <1>0, <1>1 DEF Columns
      <4>3. t = "grants" => FALSE
        BY <4>1, <3>2, <1>0 DEF Columns, Midway
      <4>4. schema[t] # "capabilities"
        BY <4>1, <4>3, <1>1, <1>10 DEF next
      <4>. QED
        BY <4>2, <4>4, <1>1
    <3>. QED
      BY <3>1, <3>2
  <2>3. ASSUME ~cut', 2 \in versions', \A q \in Openers : ~Midway(opener'[q]), NEW x \in Renamed
        PROVE  schema'[x] = "capabilities"
    <3>1. next = "failed"
      BY <2>3, <1>11
    <3>2. t = "keyspace_members"
      BY <3>1, <2>3, <1>1, <1>12
    <3>3. \A q \in Openers : ~Midway(opener[q])
      BY <3>2, <2>3, <1>3 DEF Midway
    <3>4. schema[x] = "capabilities"
      BY <3>3, <2>3, <1>0, <1>1 DEF Columns
    <3>5. schema[t] # "capabilities"
      BY <3>1, <1>1 DEF next
    <3>. QED
      BY <3>4, <3>5, <1>1
  <2>. QED
    BY <2>1, <2>2, <2>3 DEF Columns
<1>14. AloneKnows'
  <2>1. CurrentVersion' = CurrentVersion
    BY <1>1 DEF CurrentVersion
  <2>2. opener[o].alone => opener[o].prior = CurrentVersion
    BY <1>0, <1>1 DEF AloneKnows, Migrating
  <2>3. opener'[o].st # "note" /\ opener[o].st \in Migrating
    BY <1>1, <1>2, <1>3 DEF Migrating
  <2>. QED
    BY <2>1, <2>2, <2>3, <1>0, <1>3, StaysAlone
<1>15. VersionNoted'
  BY <1>1, <1>2, <1>3 DEF SchemaIInv, VersionNoted
<1>16. FailsJustified'
  <2>1. ASSUME opener[o].alone, ~cut, next = "failed" PROVE FALSE
    <3>1. /\ \A q \in Openers : opener[q].st \in Migrating => q = o
          /\ CurrentVersion = 2
      BY <2>1, <1>0, <1>1, <1>4 DEF AloneKnows, Migrating
    <3>2. t = "keyspace_members"
      BY <2>1, <1>1, <1>12
    <3>3. \A q \in Openers : ~Midway(opener[q])
      BY <3>1, <3>2 DEF Midway, Migrating
    <3>4. 2 \in versions
      BY <3>1, <1>0, VersionRead
    <3>5. schema["keyspace_members"] = "capabilities"
      BY <3>3, <3>4, <2>1, <1>0 DEF Columns, Renamed
    <3>. QED
      BY <3>2, <3>5, <2>1 DEF next
  <2>. QED
    BY <2>1, <1>1, <1>3 DEF SchemaIInv, FailsJustified
<1>. QED
  BY <1>5, <1>9, <1>13, <1>14, <1>15, <1>16 DEF SchemaIInv

LEMMA ForgetStep ==
    ASSUME SchemaIInv, NEW o \in Openers, Forget(o)
    PROVE  SchemaIInv'
<1>0. SchemaTypeOK /\ Progress /\ Columns /\ AloneKnows
  BY DEF SchemaIInv
<1>1. /\ opener[o].st = "forget" /\ GoOn(o, "note") /\ versions' = {}
      /\ UNCHANGED <<schema, opens, cuts, cut>>
  BY DEF Forget
<1>2. /\ opener' \in [Openers -> Openings]
      /\ opener'[o].st = "note" /\ opener'[o].prior = opener[o].prior
      /\ opener'[o].alone = opener[o].alone
      /\ \A q \in Openers \ {o} : opener'[q] = opener[q]
  BY <1>0, <1>1, GoesOn DEF Migrating
<1>3. SchemaTypeOK'
  BY <1>0, <1>1, <1>2 DEF SchemaTypeOK
<1>4. Usable /\ Gone
  BY <1>0, <1>1, MadeAndGone DEF Progress
<1>5. Usable' /\ Gone' /\ (Made => Made') /\ \A n : MadeIn(schema, n) => MadeIn(schema', n)
  BY <1>1, <1>4 DEF Usable, Gone, Made, MadeIn
<1>6. Progress'
  BY <1>0, <1>1, <1>2, <1>5 DEF Progress
<1>7. Columns'
  <2>1. \A q \in Openers : Midway(opener'[q]) => Midway(opener[q])
    BY <1>2 DEF Midway
  <2>2. \A q \in Openers : opener'[q].st = "grants" => opener[q].st = "grants"
    BY <1>2
  <2>. QED
    BY <2>1, <2>2, <1>0, <1>1 DEF Columns
<1>8. AloneKnows'
  BY <1>0, <1>1, <1>2, StaysAlone DEF Migrating
<1>9. VersionNoted' /\ FailsJustified'
  BY <1>1, <1>2 DEF SchemaIInv, VersionNoted, FailsJustified
<1>. QED
  BY <1>3, <1>6, <1>7, <1>8, <1>9 DEF SchemaIInv

LEMMA NoteStep ==
    ASSUME SchemaIInv, NEW o \in Openers, Note(o)
    PROVE  SchemaIInv'
<1>. DEFINE next == IF 3 \in versions THEN "failed" ELSE "open"
<1>0. SchemaTypeOK /\ Progress /\ Columns /\ AloneKnows
  BY DEF SchemaIInv
<1>1. /\ opener[o].st = "note" /\ GoOn(o, next)
      /\ versions' = versions \union {3}
      /\ UNCHANGED <<schema, opens, cuts, cut>>
  BY DEF Note, SchemaVersion
<1>2. next \in {"failed", "open"} /\ (next = "failed" => versions # {})
  OBVIOUS
<1>. HIDE DEF next
<1>3. /\ opener' \in [Openers -> Openings]
      /\ opener'[o].st = next /\ opener'[o].prior = opener[o].prior
      /\ opener'[o].alone = opener[o].alone
      /\ \A q \in Openers \ {o} : opener'[q] = opener[q]
  BY <1>0, <1>1, <1>2, GoesOn DEF Migrating
<1>4. Usable /\ Gone /\ versions \subseteq {3}
  BY <1>0, <1>1, MadeAndGone DEF Progress
<1>5. versions' = {3}
  BY <1>1, <1>4
<1>6. SchemaTypeOK'
  BY <1>0, <1>1, <1>3, <1>5 DEF SchemaTypeOK
<1>7. Usable' /\ Gone' /\ (Made => Made') /\ \A n : MadeIn(schema, n) => MadeIn(schema', n)
  BY <1>1, <1>4 DEF Usable, Gone, Made, MadeIn
<1>8. Progress'
  BY <1>0, <1>1, <1>2, <1>3, <1>5, <1>7 DEF Progress
<1>9. Columns'
  <2>1. \A q \in Openers : Midway(opener'[q]) => Midway(opener[q])
    BY <1>2, <1>3 DEF Midway
  <2>2. \A q \in Openers : opener'[q].st = "grants" => opener[q].st = "grants"
    BY <1>2, <1>3
  <2>. QED
    BY <2>1, <2>2, <1>0, <1>1, <1>5 DEF Columns
<1>10. AloneKnows'
  BY <1>0, <1>1, <1>2, <1>3, StaysAlone DEF Migrating
<1>11. VersionNoted'
  BY <1>5 DEF VersionNoted
<1>12. FailsJustified'
  <2>1. next = "failed" => ~opener[o].alone
    BY <1>0, <1>1, <1>2 DEF AloneKnows, Migrating
  <2>. QED
    BY <1>1, <1>2, <1>3, <2>1 DEF SchemaIInv, FailsJustified
<1>. QED
  BY <1>6, <1>8, <1>9, <1>10, <1>11, <1>12 DEF SchemaIInv

LEMMA CutStep ==
    ASSUME SchemaIInv, NEW o \in Openers, Cut(o)
    PROVE  SchemaIInv'
<1>0. SchemaTypeOK /\ Progress /\ Columns /\ AloneKnows
  BY DEF SchemaIInv
<1>1. /\ o \in Working /\ cuts' = cuts + 1
      /\ cut' = (cut \/ (opener[o].st \in {"grants", "forget"} /\ opener[o].prior = 2))
      /\ opener' = [opener EXCEPT ![o] = Away]
      /\ UNCHANGED <<versions, schema, opens>>
  BY DEF Cut
<1>2. opener[o].st \in Migrating
  BY <1>0, <1>1, WorkingMigrates DEF SchemaTypeOK
<1>3. /\ opener' \in [Openers -> Openings]
      /\ opener'[o].st = "away"
      /\ \A q \in Openers \ {o} : opener'[q] = opener[q]
  BY <1>0, <1>1 DEF SchemaTypeOK, Openings, Away
<1>4. SchemaTypeOK'
  BY <1>0, <1>1, <1>3 DEF SchemaTypeOK
<1>5. /\ Gone' = Gone /\ Made' = Made /\ Usable' = Usable /\ CurrentVersion' = CurrentVersion
      /\ schema' = schema
  BY <1>1 DEF Gone, Made, Usable, CurrentVersion, MadeIn
<1>6. Progress'
  BY <1>0, <1>1, <1>3, <1>5 DEF Progress
<1>7. Columns'
  <2>1. \A q \in Openers : Midway(opener'[q]) => q # o /\ Midway(opener[q])
    BY <1>3 DEF Midway
  <2>2. ~cut' => ~Midway(opener[o])
    BY <1>0, <1>1 DEF Midway, Progress
  <2>3. \A q \in Openers : opener'[q].st = "grants" => opener[q].st = "grants"
    BY <1>3
  <2>4. ~cut' /\ (\A q \in Openers : ~Midway(opener'[q])) => \A q \in Openers : ~Midway(opener[q])
    BY <2>2, <1>3
  <2>. QED
    BY <2>1, <2>3, <2>4, <1>0, <1>1 DEF Columns
<1>8. AloneKnows'
  <2>. SUFFICES ASSUME NEW q \in Openers, opener'[q].st \in Migrating, opener'[q].alone
                PROVE  /\ \A r \in Openers : opener'[r].st \in Migrating => r = q
                       /\ IF opener'[q].st = "note" THEN versions' = {}
                          ELSE opener'[q].prior = CurrentVersion'
    BY DEF AloneKnows
  <2>1. q # o /\ opener'[q] = opener[q]
    BY <1>3 DEF Migrating
  <2>. QED
    BY <2>1, <1>0, <1>2 DEF AloneKnows
<1>9. VersionNoted'
  BY <1>0, <1>1 DEF VersionNoted, SchemaTypeOK
<1>10. FailsJustified'
  BY <1>1, <1>3 DEF SchemaIInv, FailsJustified
<1>. QED
  BY <1>4, <1>6, <1>7, <1>8, <1>9, <1>10 DEF SchemaIInv

LEMMA ServeStep ==
    ASSUME SchemaIInv, NEW o \in Openers, Serve(o)
    PROVE  SchemaIInv'
<1>0. SchemaTypeOK /\ Progress /\ Columns /\ AloneKnows
  BY DEF SchemaIInv
<1>1. /\ opener[o].st = "away" /\ opens' = opens + 1
      /\ opener' = [opener EXCEPT ![o] = [st |-> "serving"]]
      /\ UNCHANGED <<versions, schema, cuts, cut>>
  BY DEF Serve
<1>2. /\ opener' \in [Openers -> Openings]
      /\ opener'[o].st = "serving"
      /\ \A q \in Openers \ {o} : opener'[q] = opener[q]
  BY <1>0, <1>1 DEF SchemaTypeOK, Openings
<1>3. SchemaTypeOK'
  BY <1>0, <1>1, <1>2 DEF SchemaTypeOK
<1>4. /\ Gone' = Gone /\ Made' = Made /\ Usable' = Usable /\ CurrentVersion' = CurrentVersion
      /\ schema' = schema
  BY <1>1 DEF Gone, Made, Usable, CurrentVersion, MadeIn
<1>5. Progress'
  BY <1>0, <1>1, <1>2, <1>4 DEF Progress
<1>6. Columns'
  <2>1. \A q \in Openers : Midway(opener'[q]) <=> Midway(opener[q])
    BY <1>1, <1>2 DEF Midway
  <2>2. \A q \in Openers : opener'[q].st = "grants" => opener[q].st = "grants"
    BY <1>2
  <2>. QED
    BY <2>1, <2>2, <1>0, <1>1 DEF Columns
<1>7. AloneKnows'
  <2>1. \A q \in Openers : opener'[q].st \in Migrating => opener'[q] = opener[q]
    BY <1>2 DEF Migrating
  <2>2. \A q \in Openers : opener'[q].st \in Migrating <=> opener[q].st \in Migrating
    BY <1>1, <1>2 DEF Migrating
  <2>. QED
    BY <2>1, <2>2, <1>0, <1>1, <1>4 DEF AloneKnows
<1>8. VersionNoted' /\ FailsJustified'
  BY <1>1, <1>2 DEF SchemaIInv, VersionNoted, FailsJustified
<1>. QED
  BY <1>3, <1>5, <1>6, <1>7, <1>8 DEF SchemaIInv

LEMMA SchemaInductive == SchemaSpec => []SchemaIInv
<1>1. SchemaInit => SchemaIInv
  <2>. SUFFICES ASSUME SchemaInit PROVE SchemaIInv
    OBVIOUS
  <2>1. \A o \in Openers : opener[o].st = "away"
    BY DEF SchemaInit, Away
  <2>2. PICK v \in 0 .. 3 :
          /\ versions = IF v = 0 THEN {} ELSE {v}
          /\ schema = [x \in SchemaObjects |->
                CASE v = 0 \/ (v = 1 /\ x \in Phase_B) -> "none"
                  [] v = 2 /\ x \in Renamed -> "capabilities"
                  [] OTHER -> "current"]
    BY DEF SchemaInit
  <2>3. /\ schema \in [SchemaObjects -> Forms]
        /\ \A x \in SchemaObjects : schema[x] = "capabilities" <=> v = 2 /\ x \in Renamed
    BY <2>2 DEF Forms
  <2>4. versions \in {{}, {1}, {2}, {3}} /\ (2 \in versions <=> v = 2)
    BY <2>2
  <2>5. SchemaTypeOK
    BY <2>3, <2>4 DEF SchemaInit, SchemaTypeOK, Openings
  <2>6. Progress
    BY <2>1, <2>3, <2>4 DEF Progress, Gone
  <2>7. Columns /\ AloneKnows
    BY <2>1, <2>3, <2>4, BatchFacts DEF Columns, AloneKnows, Midway, Migrating
  <2>8. VersionNoted /\ FailsJustified
    BY <2>1 DEF VersionNoted, FailsJustified
  <2>. QED
    BY <2>5, <2>6, <2>7, <2>8 DEF SchemaIInv
<1>2. SchemaIInv /\ [SchemaNext]_schemaVars => SchemaIInv'
  <2>. SUFFICES ASSUME SchemaIInv, [SchemaNext]_schemaVars PROVE SchemaIInv'
    OBVIOUS
  <2>1. ASSUME NEW o \in Openers,
               Open(o) \/ Create(o) \/ Rename(o) \/ Forget(o) \/ Note(o) \/ Cut(o) \/ Serve(o)
        PROVE  SchemaIInv'
    BY <2>1, OpenStep, CreateStep, RenameStep, ForgetStep, NoteStep, CutStep, ServeStep
  <2>2. CASE UNCHANGED schemaVars
    BY <2>2 DEF schemaVars, SchemaIInv, SchemaTypeOK, Progress, VersionNoted, Columns,
                AloneKnows, FailsJustified, Gone, Made, MadeIn, Usable, CurrentVersion
  <2>. QED
    BY <2>1, <2>2 DEF SchemaNext
<1>. QED
  BY <1>1, <1>2, PTL DEF SchemaSpec

(* For any number of openers, opens and kills, between any two statements  *)
(* of init_schema: an open that succeeds leaves every table and index in   *)
(* its present form and, once all are done, the version noted; one that    *)
(* nobody worked beside fails only if an opener had been killed between    *)
(* the first rename and the version.                                       *)
THEOREM OpenersSucceed == SchemaSpec => []OpensAgain
<1>1. SchemaIInv => OpensAgain
  <2>. SUFFICES ASSUME SchemaIInv PROVE OpensAgain
    OBVIOUS
  <2>1. ASSUME Working = {} PROVE \A o \in Openers : opener[o].st # "note"
    BY <2>1, WorkingMigrates DEF SchemaIInv, SchemaTypeOK, Migrating
  <2>. QED
    BY <2>1 DEF SchemaIInv, Progress, VersionNoted, FailsJustified, OpensAgain, SchemaVersion
<1>. QED
  BY <1>1, SchemaInductive, PTL

-----------------------------------------------------------------------------
(***************************************************************************)
(* Blobs.  certain[h] is what the answers so far leave possible; the       *)
(* invariant relates it to what a call under way has half done             *)
(* (LoneChange, LoneGet), for the calls that no other call has met.        *)
(***************************************************************************)
Ops == Puts \union Gets \union Deletes
Underway ==
    [op : Ops, hash : Hashes, st : {"truncate", "write", "read", "remove"},
     on : {"blob", "outboard"}, got : Objects, alone : BOOLEAN]
Telling == {"ok", "unknowing_ok", "error", "not_found", "hash_mismatch"}
Answers == [told : Telling] \union [told : {"ok"}, blob : Objects, outboard : Objects]
Answered ==
    [st : {"answer"}, op : Ops, alone : BOOLEAN, answer : Answers, was : SUBSET Pairs]

BlobTypeOK ==
    /\ impl \in {"memory", "local", "s3"}
    /\ blobs \in [Hashes -> Objects] /\ outboards \in [Hashes -> Objects]
    /\ call \in [Users -> {Free} \union Underway \union Answered]
    /\ calls \in Nat /\ faults \in Nat
    /\ certain \in [Hashes -> SUBSET Pairs]

(* Each kind of call has its accesses, and only three go on to an outboard. *)
Fits(c) ==
    /\ c.op \in Puts => c.st \in {"truncate", "write"}
    /\ c.op \in Gets => c.st = "read"
    /\ c.op \in Deletes => c.st = "remove"
    /\ c.st = "truncate" => impl = "local"
    /\ c.on = "outboard" => c.op \in {"put_both", "get_both", "delete_both"}

AllFit == \A u \in Users : ~Over(call[u]) => Fits(call[u])

(* Only the local store writes an object in two steps. *)
WholeElsewhere ==
    impl # "local" => \A h \in Hashes : blobs[h] # "torn" /\ outboards[h] # "torn"

Holding(h) == [blob |-> blobs[h], outboard |-> outboards[h]]

SettledIsCertain == \A h \in Hashes : Changers(h) = {} => Holding(h) \in certain[h]

(* What a change that runs alone has left as it found it, and what it has  *)
(* done.                                                                   *)
HalfDone(c) ==
    /\ \E p \in certain[c.hash] : c.on = "blob" => p.outboard = outboards[c.hash]
    /\ c.on = "outboard" =>
          blobs[c.hash] = IF c.op = "put_both" THEN "whole" ELSE "absent"

LoneChange ==
    \A u \in Users : ~Over(call[u]) /\ Changes(call[u].op) /\ call[u].alone =>
        Changers(call[u].hash) = {u} /\ HalfDone(call[u])

(* A get that runs alone has read what is still there. *)
StillThere(c) == c.on = "outboard" => c.got = blobs[c.hash] /\ c.got # "absent"

LoneGet ==
    \A u \in Users : ~Over(call[u]) /\ call[u].op \in Gets /\ call[u].alone =>
        Changers(call[u].hash) = {} /\ StillThere(call[u])

(* What a get that is over may have answered. *)
Proper(op, alone, answer, was) ==
    /\ alone => answer = Told("error") \/ \E p \in was : answer = Found(op, p)
    /\ op = "get" => answer # Got("torn", "absent")

GetsProper ==
    \A u \in Users : call[u].st = "answer" /\ call[u].op \in Gets =>
        Proper(call[u].op, call[u].alone, call[u].answer, call[u].was)

BlobIInv ==
    BlobTypeOK /\ AllFit /\ WholeElsewhere /\ SettledIsCertain /\ LoneChange /\ LoneGet
    /\ GetsProper

-----------------------------------------------------------------------------
LEMMA UnderwayType ==
    ASSUME BlobTypeOK, NEW u \in Users, ~Over(call[u])
    PROVE  call[u] \in Underway
<1>1. call[u] \in {Free} \union Underway \union Answered
  BY DEF BlobTypeOK
<1>. QED
  BY <1>1 DEF Over, Free, Answered

LEMMA EffectType ==
    ASSUME NEW op, NEW p \in Pairs
    PROVE  Effect(op, p) \in Pairs
  BY DEF Effect, Pairs, Objects

LEMMA UnderwayIsNotOver ==
    ASSUME NEW c \in Underway
    PROVE  ~Over(c)
  BY DEF Underway, Over

(* Who changes what changes with the one call that moves. *)
LEMMA ChangersMove ==
    ASSUME BlobTypeOK, NEW u \in Users, ~Over(call[u]),
           NEW d \in Underway \union Answered,
           d \in Underway => d.op = call[u].op /\ d.hash = call[u].hash,
           call' = [call EXCEPT ![u] = d]
    PROVE  /\ call'[u] = d
           /\ \A v \in Users \ {u} : call'[v] = call[v]
           /\ \A g \in Hashes :
                 Changers(g)' = IF d \in Underway THEN Changers(g) ELSE Changers(g) \ {u}
<1>1. call'[u] = d /\ \A v \in Users \ {u} : call'[v] = call[v]
  BY DEF BlobTypeOK
<1>2. d \in Underway => ~Over(d)
  BY UnderwayIsNotOver
<1>3. d \notin Underway => Over(d)
  BY DEF Answered, Over
<1>. QED
  BY <1>1, <1>2, <1>3 DEF Changers

(* A call ends, having touched no hash but its own, and only to change it. *)
LEMMA EndStep ==
    ASSUME BlobIInv, NEW u \in Users, ~Over(call[u]), NEW answer \in Answers,
           End(u, answer), impl' = impl, calls' \in Nat, faults' \in Nat,
           blobs' \in [Hashes -> Objects], outboards' \in [Hashes -> Objects],
           WholeElsewhere',
           \A g \in Hashes : g # call[u].hash \/ ~Changes(call[u].op) =>
               blobs'[g] = blobs[g] /\ outboards'[g] = outboards[g],
           Changes(call[u].op) /\ call[u].alone /\ answer = Told("ok") =>
               \E p \in certain[call[u].hash] :
                   [blob |-> blobs'[call[u].hash], outboard |-> outboards'[call[u].hash]]
                       = Effect(call[u].op, p),
           call[u].op \in Gets =>
               Proper(call[u].op, call[u].alone, answer, certain[call[u].hash])
    PROVE  BlobIInv'
<1>. DEFINE a == [st |-> "answer", op |-> call[u].op, alone |-> call[u].alone,
                  answer |-> answer, was |-> certain[call[u].hash]]
            h == call[u].hash
            op == call[u].op
            left == IF call[u].alone /\ answer = Told("ok")
                    THEN {Effect(op, p) : p \in certain[h]} ELSE Pairs
<1>0. BlobTypeOK
  BY DEF BlobIInv
<1>1. h \in Hashes /\ op \in Ops /\ call[u].alone \in BOOLEAN
  BY <1>0, UnderwayType DEF Underway
<1>2. a \in Answered /\ a \notin Underway
  BY <1>0, <1>1 DEF Answered, Underway, BlobTypeOK
<1>3. call' = [call EXCEPT ![u] = a]
  BY DEF End
<1>4. certain' = IF ~Changes(op) THEN certain ELSE [certain EXCEPT ![h] = left]
  BY DEF End
<1>5. left \in SUBSET Pairs
  BY <1>0, <1>1, EffectType DEF BlobTypeOK
<1>6. PICK d : d = a
  OBVIOUS
<1>7. d \in Answered /\ d \notin Underway /\ call' = [call EXCEPT ![u] = d]
  BY <1>2, <1>3, <1>6
<1>8. /\ call'[u] = d
      /\ \A v \in Users \ {u} : call'[v] = call[v]
      /\ \A g \in Hashes : Changers(g)' = Changers(g) \ {u}
  BY ONLY <1>0, <1>7, ~Over(call[u]), u \in Users, ChangersMove
<1>9. certain' \in [Hashes -> SUBSET Pairs]
  BY <1>0, <1>1, <1>4, <1>5 DEF BlobTypeOK
<1>10. \A g \in Hashes : g # h \/ ~Changes(op) => certain'[g] = certain[g]
  BY <1>0, <1>4 DEF BlobTypeOK
<1>11. Changes(op) => certain'[h] = left
  BY <1>0, <1>1, <1>4 DEF BlobTypeOK
<1>12. Over(call'[u])
  BY <1>6, <1>8 DEF Over
<1>13. \A g \in Hashes : u \in Changers(g) <=> g = h /\ Changes(op)
  BY DEF Changers
<1>14. BlobTypeOK'
  <2>1. call' \in [Users -> {Free} \union Underway \union Answered]
    BY <1>0, <1>2, <1>3 DEF BlobTypeOK
  <2>. QED
    BY <1>0, <1>9, <2>1 DEF BlobTypeOK
<1>15. AllFit'
  BY <1>8, <1>12 DEF BlobIInv, AllFit, Fits
<1>16. SettledIsCertain'
  <2>. SUFFICES ASSUME NEW g \in Hashes, Changers(g)' = {}
                PROVE  [blob |-> blobs'[g], outboard |-> outboards'[g]] \in certain'[g]
    BY DEF SettledIsCertain, Holding
  <2>1. CASE g = h /\ Changes(op)
    <3>1. [blob |-> blobs'[g], outboard |-> outboards'[g]] \in Pairs
      BY DEF Pairs
    <3>. QED
      BY <2>1, <3>1, <1>11
  <2>2. CASE g # h \/ ~Changes(op)
    <3>1. Changers(g) = {}
      BY <2>2, <1>8, <1>13
    <3>. QED
      BY <2>2, <3>1, <1>10 DEF BlobIInv, SettledIsCertain, Holding
  <2>. QED
    BY <2>1, <2>2
<1>17. LoneChange'
  <2>. SUFFICES ASSUME NEW v \in Users, ~Over(call'[v]), Changes(call'[v].op), call'[v].alone
                PROVE  (Changers(call[v].hash) = {v} /\ HalfDone(call[v]))'
    BY DEF LoneChange
  <2>1. v # u /\ call'[v] = call[v]
    BY <1>8, <1>12
  <2>2. Changers(call[v].hash) = {v} /\ HalfDone(call[v])
    BY <2>1 DEF BlobIInv, LoneChange
  <2>3. call[v].hash \in Hashes
    BY <2>1, <1>0, UnderwayType DEF Underway
  <2>4. call[v].hash # h \/ ~Changes(op)
    BY <2>1, <2>2, <2>3, <1>13
  <2>5. Changers(call[v].hash)' = {v}
    BY <2>1, <2>2, <2>3, <1>8
  <2>6. HalfDone(call[v])'
    BY <2>1, <2>2, <2>3, <2>4, <1>10 DEF HalfDone
  <2>. QED
    BY <2>5, <2>6
<1>18. LoneGet'
  <2>. SUFFICES ASSUME NEW v \in Users, ~Over(call'[v]), call'[v].op \in Gets, call'[v].alone
                PROVE  (Changers(call[v].hash) = {} /\ StillThere(call[v]))'
    BY DEF LoneGet
  <2>1. v # u /\ call'[v] = call[v]
    BY <1>8, <1>12
  <2>2. Changers(call[v].hash) = {} /\ StillThere(call[v])
    BY <2>1 DEF BlobIInv, LoneGet
  <2>3. call[v].hash \in Hashes
    BY <2>1, <1>0, UnderwayType DEF Underway
  <2>4. call[v].hash # h \/ ~Changes(op)
    BY <2>2, <2>3, <1>13
  <2>5. Changers(call[v].hash)' = {}
    BY <2>1, <2>2, <2>3, <1>8
  <2>6. StillThere(call[v])'
    BY <2>1, <2>2, <2>3, <2>4 DEF StillThere
  <2>. QED
    BY <2>5, <2>6
<1>19. GetsProper'
  BY <1>6, <1>8 DEF BlobIInv, GetsProper
<1>. QED
  BY <1>14, <1>15, <1>16, <1>17, <1>18, <1>19 DEF BlobIInv

(* A call goes on, having touched no hash but its own.                     *)
LEMMA GoesOnStep ==
    ASSUME BlobIInv, NEW u \in Users, ~Over(call[u]), NEW c \in Underway,
           c.op = call[u].op, c.hash = call[u].hash, c.alone => call[u].alone, Fits(c),
           call' = [call EXCEPT ![u] = c], certain' = certain,
           impl' = impl, calls' \in Nat, faults' \in Nat,
           blobs' \in [Hashes -> Objects], outboards' \in [Hashes -> Objects],
           WholeElsewhere',
           \A g \in Hashes : g # c.hash \/ ~Changes(c.op) =>
               blobs'[g] = blobs[g] /\ outboards'[g] = outboards[g],
           Changes(c.op) /\ c.alone => HalfDone(c)',
           c.op \in Gets /\ c.alone => StillThere(c)'
    PROVE  BlobIInv'
<1>0. BlobTypeOK
  BY DEF BlobIInv
<1>1. c.hash \in Hashes /\ ~Over(c)
  BY UnderwayIsNotOver DEF Underway
<1>2. /\ call'[u] = c
      /\ \A v \in Users \ {u} : call'[v] = call[v]
      /\ \A g \in Hashes : Changers(g)' = Changers(g)
  BY <1>0, ChangersMove
<1>3. \A g \in Hashes : u \in Changers(g) <=> g = c.hash /\ Changes(c.op)
  BY DEF Changers
<1>4. BlobTypeOK'
  BY <1>0 DEF BlobTypeOK
<1>5. AllFit'
  <2>1. Fits(c)'
    BY DEF Fits
  <2>. QED
    BY <1>2, <2>1 DEF BlobIInv, AllFit, Fits
<1>6. SettledIsCertain'
  <2>. SUFFICES ASSUME NEW g \in Hashes, Changers(g)' = {}
                PROVE  [blob |-> blobs'[g], outboard |-> outboards'[g]] \in certain'[g]
    BY DEF SettledIsCertain, Holding
  <2>1. Changers(g) = {}
    BY <1>2
  <2>2. g # c.hash \/ ~Changes(c.op)
    BY <2>1, <1>3
  <2>. QED
    BY <2>1, <2>2 DEF BlobIInv, SettledIsCertain, Holding
<1>7. LoneChange'
  <2>. SUFFICES ASSUME NEW v \in Users, ~Over(call'[v]), Changes(call'[v].op), call'[v].alone
                PROVE  (Changers(call[v].hash) = {v} /\ HalfDone(call[v]))'
    BY DEF LoneChange
  <2>1. CASE v = u
    <3>1. Changers(c.hash) = {u}
      BY <2>1, <1>2 DEF BlobIInv, LoneChange
    <3>2. Changers(c.hash)' = {u}
      BY <3>1, <1>1, <1>2
    <3>3. HalfDone(c)'
      BY <2>1, <1>2
    <3>. QED
      BY <2>1, <3>2, <3>3, <1>2
  <2>2. CASE v # u
    <3>1. call'[v] = call[v]
      BY <2>2, <1>2
    <3>2. Changers(call[v].hash) = {v} /\ HalfDone(call[v])
      BY <3>1 DEF BlobIInv, LoneChange
    <3>3. call[v].hash \in Hashes
      BY <3>1, <1>0, UnderwayType DEF Underway
    <3>4. call[v].hash # c.hash \/ ~Changes(c.op)
      BY <2>2, <3>2, <3>3, <1>3
    <3>5. Changers(call[v].hash)' = {v}
      BY <3>1, <3>2, <3>3, <1>2
    <3>6. HalfDone(call[v])'
      BY <3>1, <3>2, <3>3, <3>4 DEF HalfDone
    <3>. QED
      BY <3>5, <3>6
  <2>. QED
    BY <2>1, <2>2
<1>8. LoneGet'
  <2>. SUFFICES ASSUME NEW v \in Users, ~Over(call'[v]), call'[v].op \in Gets, call'[v].alone
                PROVE  (Changers(call[v].hash) = {} /\ StillThere(call[v]))'
    BY DEF LoneGet
  <2>1. CASE v = u
    <3>1. Changers(c.hash) = {}
      BY <2>1, <1>2 DEF BlobIInv, LoneGet
    <3>2. Changers(c.hash)' = {}
      BY <3>1, <1>1, <1>2
    <3>3. StillThere(c)'
      BY <2>1, <1>2
    <3>. QED
      BY <2>1, <3>2, <3>3, <1>2
  <2>2. CASE v # u
    <3>1. call'[v] = call[v]
      BY <2>2, <1>2
    <3>2. Changers(call[v].hash) = {} /\ StillThere(call[v])
      BY <3>1 DEF BlobIInv, LoneGet
    <3>3. call[v].hash \in Hashes
      BY <3>1, <1>0, UnderwayType DEF Underway
    <3>4. call[v].hash # c.hash \/ ~Changes(c.op)
      BY <3>2, <3>3, <1>3
    <3>5. Changers(call[v].hash)' = {}
      BY <3>1, <3>2, <3>3, <1>2
    <3>6. StillThere(call[v])'
      BY <3>1, <3>2, <3>3, <3>4 DEF StillThere
    <3>. QED
      BY <3>5, <3>6
  <2>. QED
    BY <2>1, <2>2
<1>9. GetsProper'
  BY <1>1, <1>2 DEF BlobIInv, GetsProper, Over
<1>. QED
  BY <1>4, <1>5, <1>6, <1>7, <1>8, <1>9 DEF BlobIInv

-----------------------------------------------------------------------------
LEMMA BecomesWhat ==
    ASSUME BlobTypeOK, NEW h \in Hashes, NEW on \in {"blob", "outboard"}, NEW x \in Objects,
           Becomes(h, on, x)
    PROVE  /\ blobs' \in [Hashes -> Objects] /\ outboards' \in [Hashes -> Objects]
           /\ \A g \in Hashes : g # h => blobs'[g] = blobs[g] /\ outboards'[g] = outboards[g]
           /\ on = "blob" => blobs'[h] = x /\ outboards' = outboards
           /\ on = "outboard" => outboards'[h] = x /\ blobs' = blobs
  BY DEF BlobTypeOK, Becomes

(* What a call under way looks like.                                       *)
LEMMA UnderwayFacts ==
    ASSUME BlobIInv, NEW u \in Users, ~Over(call[u])
    PROVE  /\ BlobTypeOK /\ call[u] \in Underway /\ Fits(call[u])
           /\ call[u].hash \in Hashes /\ call[u].on \in {"blob", "outboard"}
           /\ call[u].op \in Ops
           /\ call[u].st \in {"truncate", "write"} => call[u].op \in Puts
           /\ call[u].st = "read" => call[u].op \in Gets
           /\ call[u].st = "remove" => call[u].op \in Deletes
           /\ Changes(call[u].op) <=> call[u].op \notin Gets
<1>1. BlobTypeOK /\ call[u] \in Underway /\ Fits(call[u])
  BY UnderwayType DEF BlobIInv, AllFit
<1>2. /\ call[u].hash \in Hashes /\ call[u].on \in {"blob", "outboard"}
      /\ call[u].op \in Ops /\ call[u].st \in {"truncate", "write", "read", "remove"}
  BY <1>1 DEF Underway
<1>. QED
  BY <1>1, <1>2 DEF Fits, Ops, Puts, Gets, Deletes, Changes

LEMMA TruncateStep ==
    ASSUME BlobIInv, NEW u \in Users, Truncate(u)
    PROVE  BlobIInv'
<1>1. /\ call[u].st = "truncate" /\ ~Over(call[u])
      /\ Becomes(call[u].hash, call[u].on, "torn")
      /\ call' = [call EXCEPT ![u].st = "write", ![u].on = call[u].on]
      /\ certain' = certain /\ impl' = impl /\ calls' = calls /\ faults' = faults
  BY DEF Truncate, AtStep, Goes, Over
<1>2. /\ BlobTypeOK /\ call[u] \in Underway /\ Fits(call[u]) /\ call[u].op \in Puts
      /\ call[u].hash \in Hashes /\ call[u].on \in {"blob", "outboard"}
      /\ Changes(call[u].op)
  BY <1>1, UnderwayFacts DEF Changes
<1>3. PICK c : c = [call[u] EXCEPT !.st = "write"]
  OBVIOUS
<1>4. /\ c \in Underway /\ c.op = call[u].op /\ c.hash = call[u].hash
      /\ c.alone = call[u].alone /\ c.on = call[u].on /\ c.st = "write"
  BY <1>2, <1>3 DEF Underway
<1>5. call' = [call EXCEPT ![u] = c]
  BY <1>1, <1>2, <1>3 DEF Underway
<1>6. Fits(c) /\ impl = "local"
  BY <1>1, <1>2, <1>4 DEF Fits, Puts, Gets, Deletes
<1>7. /\ blobs' \in [Hashes -> Objects] /\ outboards' \in [Hashes -> Objects]
      /\ \A g \in Hashes : g # c.hash => blobs'[g] = blobs[g] /\ outboards'[g] = outboards[g]
      /\ c.on = "blob" => outboards' = outboards
      /\ c.on = "outboard" => blobs' = blobs
  BY <1>1, <1>2, <1>4, BecomesWhat DEF Objects
<1>8. c.alone => HalfDone(c)'
  <2>. SUFFICES ASSUME c.alone PROVE HalfDone(c)'
    OBVIOUS
  <2>1. HalfDone(call[u])
    BY <1>1, <1>2, <1>4 DEF BlobIInv, LoneChange
  <2>. QED
    BY <2>1, <1>1, <1>4, <1>7 DEF HalfDone
<1>9. c.op \notin Gets
  BY <1>2, <1>4 DEF Puts, Gets
<1>10. WholeElsewhere' /\ calls' \in Nat /\ faults' \in Nat
  BY <1>1, <1>2, <1>6 DEF WholeElsewhere, BlobTypeOK
<1>. QED
  BY <1>1, <1>2, <1>4, <1>5, <1>6, <1>7, <1>8, <1>9, <1>10, GoesOnStep

LEMMA WriteStep ==
    ASSUME BlobIInv, NEW u \in Users, Write(u)
    PROVE  BlobIInv'
<1>1. /\ call[u].st = "write" /\ ~Over(call[u])
      /\ Becomes(call[u].hash, call[u].on, "whole")
      /\ impl' = impl /\ calls' = calls /\ faults' = faults
  BY DEF Write, AtStep, Over
<1>2. /\ BlobTypeOK /\ call[u] \in Underway /\ Fits(call[u]) /\ call[u].op \in Puts
      /\ call[u].hash \in Hashes /\ call[u].on \in {"blob", "outboard"}
      /\ Changes(call[u].op) /\ call[u].op \notin Gets
  BY <1>1, UnderwayFacts DEF Puts, Gets
<1>3. /\ blobs' \in [Hashes -> Objects] /\ outboards' \in [Hashes -> Objects]
      /\ \A g \in Hashes : g # call[u].hash =>
            blobs'[g] = blobs[g] /\ outboards'[g] = outboards[g]
      /\ call[u].on = "blob" => blobs'[call[u].hash] = "whole" /\ outboards' = outboards
      /\ call[u].on = "outboard" => outboards'[call[u].hash] = "whole" /\ blobs' = blobs
  BY <1>1, <1>2, BecomesWhat DEF Objects
<1>4. WholeElsewhere' /\ calls' \in Nat /\ faults' \in Nat
  BY <1>1, <1>2, <1>3 DEF BlobIInv, WholeElsewhere, BlobTypeOK
<1>5. call[u].alone => HalfDone(call[u])
  BY <1>1, <1>2 DEF BlobIInv, LoneChange
<1>6. CASE call[u].op = "put_both" /\ call[u].on = "blob"
  <2>1. PICK c : c = [call[u] EXCEPT !.st = FirstAccess("put_both"), !.on = "outboard"]
    OBVIOUS
  <2>2. FirstAccess("put_both") = IF impl = "local" THEN "truncate" ELSE "write"
    BY DEF FirstAccess, Puts, Gets, Deletes
  <2>3. /\ c \in Underway /\ c.op = "put_both" /\ c.hash = call[u].hash
        /\ c.alone = call[u].alone /\ c.on = "outboard" /\ c.st = FirstAccess("put_both")
    BY <1>2, <1>6, <2>1, <2>2 DEF Underway
  <2>4. call' = [call EXCEPT ![u] = c] /\ certain' = certain
    BY <1>2, <1>6, <2>1 DEF Underway, Write, Goes
  <2>5. Fits(c)
    BY <2>2, <2>3 DEF Fits, Puts, Gets, Deletes
  <2>6. c.alone => HalfDone(c)'
    BY <1>3, <1>5, <1>6, <2>3, <2>4 DEF HalfDone
  <2>. QED
    BY <1>1, <1>2, <1>3, <1>4, <1>6, <2>3, <2>4, <2>5, <2>6, GoesOnStep
<1>7. CASE ~(call[u].op = "put_both" /\ call[u].on = "blob")
  <2>1. PICK answer : answer = Told("ok")
    OBVIOUS
  <2>2. End(u, answer) /\ answer \in Answers
    BY <1>7, <2>1 DEF Write, Told, Telling, Answers
  <2>3. ASSUME call[u].alone
        PROVE  \E p \in certain[call[u].hash] :
                   [blob |-> blobs'[call[u].hash], outboard |-> outboards'[call[u].hash]]
                       = Effect(call[u].op, p)
    <3>1. PICK p \in certain[call[u].hash] :
             call[u].on = "blob" => p.outboard = outboards[call[u].hash]
      BY <1>5, <2>3 DEF HalfDone
    <3>2. p \in Pairs
      BY <1>2 DEF BlobTypeOK
    <3>3. CASE call[u].op = "put_both"
      <4>1. blobs'[call[u].hash] = "whole" /\ outboards'[call[u].hash] = "whole"
        BY <1>2, <1>3, <1>5, <1>7, <2>3, <3>3 DEF HalfDone
      <4>. QED
        BY <3>3, <4>1 DEF Effect
    <3>4. CASE call[u].op # "put_both"
      <4>1. call[u].op \in {"put", "put_blob"} /\ call[u].on = "blob"
        BY <1>2, <3>4 DEF Fits, Puts
      <4>2. Effect(call[u].op, p) = [p EXCEPT !.blob = "whole"]
        BY <4>1 DEF Effect
      <4>3. [p EXCEPT !.blob = "whole"] = [blob |-> "whole", outboard |-> p.outboard]
        BY <3>2 DEF Pairs
      <4>. QED
        BY <4>1, <4>2, <4>3, <3>1, <1>3
    <3>. QED
      BY <3>3, <3>4
  <2>. QED
    BY <1>1, <1>2, <1>3, <1>4, <2>2, <2>3, EndStep
<1>. QED
  BY <1>6, <1>7

LEMMA RemoveStep ==
    ASSUME BlobIInv, NEW u \in Users, Discard(u)
    PROVE  BlobIInv'
<1>1. /\ call[u].st = "remove" /\ ~Over(call[u])
      /\ Becomes(call[u].hash, call[u].on, "absent")
      /\ impl' = impl /\ calls' = calls /\ faults' = faults
  BY DEF Discard, AtStep, Over
<1>2. /\ BlobTypeOK /\ call[u] \in Underway /\ Fits(call[u]) /\ call[u].op \in Deletes
      /\ call[u].hash \in Hashes /\ call[u].on \in {"blob", "outboard"}
      /\ Changes(call[u].op) /\ call[u].op \notin Gets
  BY <1>1, UnderwayFacts DEF Deletes, Gets
<1>3. /\ blobs' \in [Hashes -> Objects] /\ outboards' \in [Hashes -> Objects]
      /\ \A g \in Hashes : g # call[u].hash =>
            blobs'[g] = blobs[g] /\ outboards'[g] = outboards[g]
      /\ call[u].on = "blob" => blobs'[call[u].hash] = "absent" /\ outboards' = outboards
      /\ call[u].on = "outboard" => outboards'[call[u].hash] = "absent" /\ blobs' = blobs
  BY <1>1, <1>2, BecomesWhat DEF Objects
<1>4. WholeElsewhere' /\ calls' \in Nat /\ faults' \in Nat
  BY <1>1, <1>2, <1>3 DEF BlobIInv, WholeElsewhere, BlobTypeOK
<1>5. call[u].alone => HalfDone(call[u])
  BY <1>1, <1>2 DEF BlobIInv, LoneChange
<1>6. CASE call[u].op = "delete_both" /\ call[u].on = "blob"
  <2>1. PICK c : c = [call[u] EXCEPT !.on = "outboard"]
    OBVIOUS
  <2>2. /\ c \in Underway /\ c.op = "delete_both" /\ c.hash = call[u].hash
        /\ c.alone = call[u].alone /\ c.on = "outboard" /\ c.st = "remove"
    BY <1>1, <1>2, <1>6, <2>1 DEF Underway
  <2>3. call' = [call EXCEPT ![u] = c] /\ certain' = certain
    BY <1>1, <1>2, <1>6, <2>1 DEF Underway, Discard, Goes
  <2>4. Fits(c)
    BY <2>2 DEF Fits, Puts, Gets, Deletes
  <2>5. c.alone => HalfDone(c)'
    BY <1>3, <1>5, <1>6, <2>2, <2>3 DEF HalfDone
  <2>. QED
    BY <1>1, <1>2, <1>3, <1>4, <1>6, <2>2, <2>3, <2>4, <2>5, GoesOnStep
<1>7. CASE ~(call[u].op = "delete_both" /\ call[u].on = "blob")
  <2>1. PICK answer : answer = Told("ok")
    OBVIOUS
  <2>2. End(u, answer) /\ answer \in Answers
    BY <1>7, <2>1 DEF Discard, Told, Telling, Answers
  <2>3. ASSUME call[u].alone
        PROVE  \E p \in certain[call[u].hash] :
                   [blob |-> blobs'[call[u].hash], outboard |-> outboards'[call[u].hash]]
                       = Effect(call[u].op, p)
    <3>1. PICK p \in certain[call[u].hash] :
             call[u].on = "blob" => p.outboard = outboards[call[u].hash]
      BY <1>5, <2>3 DEF HalfDone
    <3>2. p \in Pairs
      BY <1>2 DEF BlobTypeOK
    <3>3. CASE call[u].op = "delete_both"
      <4>1. blobs'[call[u].hash] = "absent" /\ outboards'[call[u].hash] = "absent"
        BY <1>2, <1>3, <1>5, <1>7, <2>3, <3>3 DEF HalfDone
      <4>. QED
        BY <3>3, <4>1 DEF Effect
    <3>4. CASE call[u].op # "delete_both"
      <4>1. call[u].op = "delete" /\ call[u].on = "blob"
        BY <1>2, <3>4 DEF Fits, Deletes
      <4>2. Effect(call[u].op, p) = [p EXCEPT !.blob = "absent"]
        BY <4>1 DEF Effect
      <4>3. [p EXCEPT !.blob = "absent"] = [blob |-> "absent", outboard |-> p.outboard]
        BY <3>2 DEF Pairs
      <4>. QED
        BY <4>1, <4>2, <4>3, <3>1, <1>3
    <3>. QED
      BY <3>3, <3>4
  <2>. QED
    BY <1>1, <1>2, <1>3, <1>4, <2>2, <2>3, EndStep
<1>. QED
  BY <1>6, <1>7

(* A get ends, or a call fails, and changes nothing it had not changed.    *)
LEMMA GetEnds ==
    ASSUME BlobIInv, NEW u \in Users, call[u].st = "read", NEW answer \in Answers,
           End(u, answer), UNCHANGED <<impl, blobs, outboards, calls, faults>>,
           Proper(call[u].op, call[u].alone, answer, certain[call[u].hash])
    PROVE  BlobIInv'
<1>1. ~Over(call[u])
  BY DEF Over
<1>2. BlobTypeOK /\ ~Changes(call[u].op)
  BY <1>1, UnderwayFacts
<1>3. WholeElsewhere'
  BY DEF BlobIInv, WholeElsewhere
<1>. QED
  BY <1>1, <1>2, <1>3, EndStep DEF BlobTypeOK

LEMMA ReadStep ==
    ASSUME BlobIInv, NEW u \in Users, Read(u)
    PROVE  BlobIInv'
<1>. DEFINE h == call[u].hash
            x == Holds(call[u].hash, call[u].on)
<1>1. /\ call[u].st = "read" /\ ~Over(call[u])
      /\ UNCHANGED <<impl, blobs, outboards, calls, faults>>
  BY DEF Read, AtStep, Over
<1>2. /\ BlobTypeOK /\ call[u] \in Underway /\ Fits(call[u]) /\ call[u].op \in Gets
      /\ h \in Hashes /\ call[u].on \in {"blob", "outboard"}
      /\ ~Changes(call[u].op) /\ call[u].got \in Objects
  BY <1>1, UnderwayFacts DEF Underway
<1>3. /\ blobs[h] \in Objects /\ outboards[h] \in Objects
      /\ x = IF call[u].on = "blob" THEN blobs[h] ELSE outboards[h]
  BY <1>2 DEF BlobTypeOK, Holds
<1>4. call[u].alone =>
         /\ [blob |-> blobs[h], outboard |-> outboards[h]] \in certain[h]
         /\ StillThere(call[u])
  BY <1>1, <1>2 DEF BlobIInv, LoneGet, SettledIsCertain, Holding
<1>5. CASE call[u].on = "blob" /\ x = "absent"
  <2>1. PICK answer : answer = Told("not_found")
    OBVIOUS
  <2>2. End(u, answer) /\ answer \in Answers
    BY <1>5, <2>1 DEF Read, Told, Telling, Answers
  <2>3. call[u].alone => \E p \in certain[h] : answer = Found(call[u].op, p)
    BY <1>3, <1>4, <1>5, <2>1 DEF Found
  <2>4. answer # Got("torn", "absent")
    <3>1. answer.told = "not_found" /\ Got("torn", "absent").told = "ok"
      BY <2>1 DEF Told, Got
    <3>. QED
      BY <3>1
  <2>. QED
    BY <1>1, <2>2, <2>3, <2>4, GetEnds DEF Proper
<1>6. CASE ~(call[u].on = "blob" /\ x = "absent") /\ call[u].op = "get"
  <2>0. call[u].on = "blob" /\ x = blobs[h] /\ x # "absent"
    BY <1>2, <1>3, <1>6 DEF Fits
  <2>1. PICK answer : answer = IF impl = "memory" \/ Verified(x) THEN Got(x, "absent")
                               ELSE Told("hash_mismatch")
    OBVIOUS
  <2>2. End(u, answer)
    BY <1>6, <2>0, <2>1 DEF Read
  <2>3. CASE x = "torn"
    <3>1. impl = "local"
      BY <1>2, <2>0, <2>3 DEF BlobIInv, WholeElsewhere
    <3>2. answer = Told("hash_mismatch")
      BY <2>1, <2>3, <3>1 DEF Verified
    <3>3. answer.told = "hash_mismatch" /\ Got("torn", "absent").told = "ok"
      BY <3>2 DEF Told, Got
    <3>4. answer \in Answers
      BY <3>2 DEF Answers, Told, Telling
    <3>5. call[u].alone => \E p \in certain[h] : answer = Found(call[u].op, p)
      BY <1>4, <1>6, <2>0, <2>3, <3>2 DEF Found
    <3>. QED
      BY <1>1, <2>2, <3>3, <3>4, <3>5, GetEnds DEF Proper
  <2>4. CASE x # "torn"
    <3>1. x = "whole" /\ answer = Got("whole", "absent")
      BY <1>3, <2>0, <2>1, <2>4 DEF Verified, Objects
    <3>2. answer.blob = "whole" /\ Got("torn", "absent").blob = "torn"
      BY <3>1 DEF Got
    <3>3. answer \in Answers
      BY <3>1 DEF Answers, Got, Objects
    <3>4. call[u].alone => \E p \in certain[h] : answer = Found(call[u].op, p)
      BY <1>4, <1>6, <2>0, <3>1 DEF Found
    <3>. QED
      BY <1>1, <2>2, <3>2, <3>3, <3>4, GetEnds DEF Proper
  <2>. QED
    BY <2>3, <2>4
<1>7. CASE x # "absent" /\ call[u].op = "get_both" /\ call[u].on = "blob"
  <2>1. PICK c : c = [call[u] EXCEPT !.on = "outboard", !.got = x]
    OBVIOUS
  <2>2. /\ c \in Underway /\ c.op = "get_both" /\ c.hash = h /\ c.alone = call[u].alone
        /\ c.on = "outboard" /\ c.st = "read" /\ c.got = x
    BY <1>1, <1>2, <1>3, <1>7, <2>1 DEF Underway
  <2>3. call' = [call EXCEPT ![u] = c] /\ certain' = certain
    BY <1>2, <1>7, <2>1 DEF Underway, Read
  <2>4. Fits(c)
    BY <2>2 DEF Fits, Puts, Gets, Deletes
  <2>5. StillThere(c)'
    BY <1>1, <1>3, <1>7, <2>2 DEF StillThere
  <2>6. c.op \in Gets /\ ~Changes(c.op) /\ WholeElsewhere'
    BY <1>1, <1>2, <1>7, <2>2 DEF BlobIInv, WholeElsewhere
  <2>. QED
    BY <1>1, <1>2, <1>7, <2>2, <2>3, <2>4, <2>5, <2>6, GoesOnStep DEF BlobTypeOK
<1>8. CASE call[u].op = "get_both" /\ call[u].on = "outboard"
  <2>1. PICK answer : answer = Got(call[u].got, x)
    OBVIOUS
  <2>2. End(u, answer)
    BY <1>8, <2>1 DEF Read
  <2>3. answer \in Answers
    BY <1>2, <1>3, <2>1 DEF Answers, Got
  <2>4. call[u].alone => \E p \in certain[h] : answer = Found(call[u].op, p)
    BY <1>3, <1>4, <1>8, <2>1 DEF Found, StillThere
  <2>. QED
    BY <1>1, <1>8, <2>2, <2>3, <2>4, GetEnds DEF Proper
<1>. QED
  BY <1>2, <1>5, <1>6, <1>7, <1>8 DEF Gets

LEMMA FailsStep ==
    ASSUME BlobIInv, NEW u \in Users, Fails(u)
    PROVE  BlobIInv'
<1>. DEFINE h == call[u].hash
<1>1. /\ ~Over(call[u]) /\ impl # "memory"
      /\ impl' = impl /\ calls' = calls /\ faults' = faults + 1
  BY DEF Fails
<1>2. /\ BlobTypeOK /\ call[u] \in Underway /\ Fits(call[u])
      /\ h \in Hashes /\ call[u].on \in {"blob", "outboard"} /\ call[u].op \in Ops
      /\ call[u].st \in {"write", "remove"} => Changes(call[u].op)
  BY <1>1, UnderwayFacts DEF Puts, Gets, Deletes
<1>3. /\ blobs' \in [Hashes -> Objects] /\ outboards' \in [Hashes -> Objects]
      /\ \A g \in Hashes : g # h \/ ~Changes(call[u].op) =>
            blobs'[g] = blobs[g] /\ outboards'[g] = outboards[g]
      /\ WholeElsewhere'
      /\ impl # "s3" => blobs' = blobs /\ outboards' = outboards
  <2>1. CASE impl = "s3" /\ call[u].st \in {"write", "remove"}
    <3>1. PICK x \in {Holds(h, call[u].on), IF call[u].st = "write" THEN "whole" ELSE "absent"} :
             Becomes(h, call[u].on, x)
      BY <2>1 DEF Fails
    <3>2. Holds(h, call[u].on) \in Objects /\ Holds(h, call[u].on) # "torn"
      BY <1>2, <2>1 DEF Holds, BlobTypeOK, BlobIInv, WholeElsewhere
    <3>3. x \in Objects /\ x # "torn"
      BY <3>1, <3>2 DEF Objects
    <3>4. /\ blobs' \in [Hashes -> Objects] /\ outboards' \in [Hashes -> Objects]
          /\ \A g \in Hashes : g # h => blobs'[g] = blobs[g] /\ outboards'[g] = outboards[g]
          /\ call[u].on = "blob" => blobs'[h] = x /\ outboards' = outboards
          /\ call[u].on = "outboard" => outboards'[h] = x /\ blobs' = blobs
      BY <1>2, <3>1, <3>3, BecomesWhat
    <3>5. WholeElsewhere'
      BY <1>1, <1>2, <3>3, <3>4 DEF BlobIInv, WholeElsewhere
    <3>. QED
      BY <1>2, <2>1, <3>4, <3>5
  <2>2. CASE ~(impl = "s3" /\ call[u].st \in {"write", "remove"})
    <3>1. blobs' = blobs /\ outboards' = outboards
      BY <2>2 DEF Fails
    <3>. QED
      BY <1>1, <1>2, <3>1 DEF BlobIInv, WholeElsewhere, BlobTypeOK
  <2>. QED
    BY <2>1, <2>2
<1>4. calls' \in Nat /\ faults' \in Nat
  BY <1>1, <1>2 DEF BlobTypeOK
<1>5. ASSUME NEW answer \in Answers, End(u, answer),
             answer = Told("error") \/ answer = Told("unknowing_ok"),
             call[u].op \in Gets => answer = Told("error")
      PROVE  BlobIInv'
  <2>1. answer # Told("ok") /\ Told("error") # Got("torn", "absent")
    <3>1. /\ Told("error").told = "error" /\ Told("unknowing_ok").told = "unknowing_ok"
          /\ Told("ok").told = "ok" /\ Got("torn", "absent").told = "ok"
      BY DEF Told, Got
    <3>. QED
      BY <1>5, <3>1
  <2>2. call[u].op \in Gets =>
           Proper(call[u].op, call[u].alone, answer, certain[call[u].hash])
    BY <1>5, <2>1 DEF Proper
  <2>. QED
    BY <1>1, <1>3, <1>4, <1>5, <2>1, <2>2, EndStep
<1>6. CASE impl = "local" /\ call[u].op = "delete_both" /\ call[u].on = "blob"
  <2>1. PICK c : c = [call[u] EXCEPT !.on = "outboard", !.alone = FALSE]
    OBVIOUS
  <2>2. /\ c \in Underway /\ c.op = "delete_both" /\ c.hash = h /\ ~c.alone
        /\ c.on = "outboard" /\ c.st = call[u].st
    BY <1>2, <1>6, <2>1 DEF Underway
  <2>3. call' = [call EXCEPT ![u] = c] /\ certain' = certain
    BY <1>2, <1>6, <2>1 DEF Underway, Fails
  <2>4. Fits(c)
    BY <1>2, <1>6, <2>2 DEF Fits, Puts, Gets, Deletes
  <2>. QED
    BY <1>1, <1>3, <1>4, <1>6, <2>2, <2>3, <2>4, GoesOnStep
<1>7. CASE impl = "local" /\ call[u].op = "delete_both" /\ call[u].on # "blob"
  <2>1. PICK answer : answer = Told("unknowing_ok")
    OBVIOUS
  <2>2. End(u, answer) /\ answer \in Answers /\ call[u].op \notin Gets
    BY <1>7, <2>1 DEF Fails, Told, Telling, Answers, Gets
  <2>. QED
    BY <1>5, <2>1, <2>2
<1>8. CASE ~(impl = "local" /\ call[u].op = "delete_both")
  <2>1. PICK answer : answer = Told("error")
    OBVIOUS
  <2>2. End(u, answer) /\ answer \in Answers
    BY <1>8, <2>1 DEF Fails, Told, Telling, Answers
  <2>. QED
    BY <1>5, <2>1, <2>2
<1>. QED
  BY <1>6, <1>7, <1>8

LEMMA BeginStep ==
    ASSUME BlobIInv, NEW u \in Users, NEW op \in Ops, NEW h \in Hashes, Begin(u, op, h)
    PROVE  BlobIInv'
<1>. DEFINE struck(v) == ~Over(call[v]) /\ call[v].hash = h /\ Changes(op)
<1>1. PICK c : c = [op |-> op, hash |-> h, st |-> FirstAccess(op), on |-> "blob",
                    got |-> "absent", alone |-> Changing(h, u) = {}]
  OBVIOUS
<1>2. /\ Over(call[u]) /\ calls' = calls + 1
      /\ call' = [v \in Users |-> IF v = u THEN c
                                  ELSE IF struck(v) THEN [call[v] EXCEPT !.alone = FALSE]
                                  ELSE call[v]]
      /\ UNCHANGED <<impl, blobs, outboards, faults, certain>>
  BY <1>1 DEF Begin, Over
<1>3. BlobTypeOK
  BY DEF BlobIInv
<1>4. /\ op \in Puts => FirstAccess(op) = IF impl = "local" THEN "truncate" ELSE "write"
      /\ op \in Gets => FirstAccess(op) = "read"
      /\ op \in Deletes => FirstAccess(op) = "remove"
  BY DEF FirstAccess, Puts, Gets, Deletes
<1>5. c \in Underway
  <2>1. FirstAccess(op) \in {"truncate", "write", "read", "remove"}
    BY <1>4 DEF Ops
  <2>. QED
    BY <1>1, <2>1 DEF Underway, Objects
<1>6. /\ c.op = op /\ c.hash = h /\ c.on = "blob" /\ c.st = FirstAccess(op)
      /\ c.alone <=> Changing(h, u) = {}
  BY <1>1
<1>7. Fits(c)
  BY <1>4, <1>6 DEF Fits, Ops, Puts, Gets, Deletes
<1>8. ~Over(c) /\ call'[u] = c
  BY <1>2, <1>5, UnderwayIsNotOver
<1>9. ASSUME NEW v \in Users \ {u}
      PROVE  /\ ~struck(v) => call'[v] = call[v]
             /\ struck(v) => /\ call'[v] \in Underway /\ ~call'[v].alone
                             /\ call'[v].op = call[v].op /\ call'[v].hash = call[v].hash
                             /\ call'[v].st = call[v].st /\ call'[v].on = call[v].on
             /\ Over(call'[v]) <=> Over(call[v])
  <2>1. CASE struck(v)
    <3>1. call[v] \in Underway
      BY <1>3, <2>1, UnderwayType
    <3>2. call'[v] = [call[v] EXCEPT !.alone = FALSE]
      BY <1>2, <2>1
    <3>3. call'[v] \in Underway
      BY <3>1, <3>2 DEF Underway
    <3>. QED
      BY <2>1, <3>1, <3>2, <3>3, UnderwayIsNotOver DEF Underway
  <2>2. CASE ~struck(v)
    BY <1>2, <2>2
  <2>. QED
    BY <2>1, <2>2
<1>. HIDE DEF struck
<1>10. \A v \in Users : struck(v) <=> ~Over(call[v]) /\ call[v].hash = h /\ Changes(op)
  BY DEF struck
<1>11. \A g \in Hashes : Changers(g)' = Changers(g) \union (IF g = h /\ Changes(op) THEN {u} ELSE {})
  <2>1. ASSUME NEW g \in Hashes, NEW v \in Users \ {u}
        PROVE  /\ ~Over(call'[v]) <=> ~Over(call[v])
               /\ call'[v].op = call[v].op
               /\ ~Over(call[v]) => call'[v].hash = call[v].hash
    BY <1>9
  <2>. QED
    BY <1>2, <1>6, <1>8, <2>1 DEF Changers
<1>12. \A g \in Hashes : u \notin Changers(g)
  BY <1>2 DEF Changers
<1>13. BlobTypeOK'
  <2>1. call' \in [Users -> {Free} \union Underway \union Answered]
    <3>1. ASSUME NEW v \in Users PROVE call'[v] \in {Free} \union Underway \union Answered
      <4>1. CASE v = u
        BY <4>1, <1>5, <1>8
      <4>2. CASE v # u
        BY <4>2, <1>3, <1>9 DEF BlobTypeOK
      <4>. QED
        BY <4>1, <4>2
    <3>. QED
      BY <1>2, <3>1
  <2>2. impl' \in {"memory", "local", "s3"}
    BY <1>2, <1>3 DEF BlobTypeOK
  <2>3. blobs' \in [Hashes -> Objects] /\ outboards' \in [Hashes -> Objects]
    BY <1>2, <1>3 DEF BlobTypeOK
  <2>4. calls' \in Nat /\ faults' \in Nat /\ certain' \in [Hashes -> SUBSET Pairs]
    BY <1>2, <1>3 DEF BlobTypeOK
  <2>. QED
    BY ONLY <2>1, <2>2, <2>3, <2>4 DEF BlobTypeOK
<1>14. AllFit'
  <2>. SUFFICES ASSUME NEW v \in Users, ~Over(call'[v]) PROVE Fits(call[v])'
    BY DEF AllFit
  <2>1. CASE v = u
    BY <2>1, <1>2, <1>7, <1>8 DEF Fits
  <2>2. CASE v # u
    <3>1. Fits(call[v])
      BY <2>2, <1>9 DEF BlobIInv, AllFit
    <3>. QED
      BY <2>2, <3>1, <1>2, <1>9 DEF Fits
  <2>. QED
    BY <2>1, <2>2
<1>15. WholeElsewhere' /\ SettledIsCertain'
  BY <1>2, <1>11 DEF BlobIInv, WholeElsewhere, SettledIsCertain, Holding
<1>16. c.alone => Changers(h) = {} /\ [blob |-> blobs[h], outboard |-> outboards[h]] \in certain[h]
  BY <1>6, <1>12 DEF Changing, BlobIInv, SettledIsCertain, Holding
<1>17. ASSUME NEW v \in Users \ {u}, ~Over(call'[v]), call'[v].alone
       PROVE  /\ call'[v] = call[v] /\ call[v].hash \in Hashes
              /\ Changers(call[v].hash)' = Changers(call[v].hash)
  <2>1. ~struck(v) /\ call'[v] = call[v] /\ ~Over(call[v])
    BY <1>17, <1>9
  <2>2. call[v].hash \in Hashes
    BY <2>1, <1>3, UnderwayType DEF Underway
  <2>3. ~(call[v].hash = h /\ Changes(op))
    BY <2>1, <1>10
  <2>4. Changers(call[v].hash)' = Changers(call[v].hash)
    BY <2>1, <2>2, <2>3, <1>11
  <2>. QED
    BY <2>1, <2>2, <2>4
<1>18. LoneChange'
  <2>. SUFFICES ASSUME NEW v \in Users, ~Over(call'[v]), Changes(call'[v].op), call'[v].alone
                PROVE  (Changers(call[v].hash) = {v} /\ HalfDone(call[v]))'
    BY DEF LoneChange
  <2>1. CASE v = u
    <3>1. Changers(h)' = {u}
      BY <2>1, <1>6, <1>8, <1>11, <1>16
    <3>2. [blob |-> blobs[h], outboard |-> outboards[h]].outboard = outboards[h]
      OBVIOUS
    <3>3. HalfDone(c)'
      BY <2>1, <3>2, <1>2, <1>6, <1>8, <1>16 DEF HalfDone
    <3>. QED
      BY <2>1, <3>1, <3>3, <1>6, <1>8 DEF HalfDone
  <2>2. CASE v # u
    <3>1. Changers(call[v].hash) = {v} /\ HalfDone(call[v])
      BY <2>2, <1>17 DEF BlobIInv, LoneChange
    <3>. QED
      BY <2>2, <3>1, <1>2, <1>17 DEF HalfDone
  <2>. QED
    BY <2>1, <2>2
<1>19. LoneGet'
  <2>. SUFFICES ASSUME NEW v \in Users, ~Over(call'[v]), call'[v].op \in Gets, call'[v].alone
                PROVE  (Changers(call[v].hash) = {} /\ StillThere(call[v]))'
    BY DEF LoneGet
  <2>1. CASE v = u
    <3>1. ~Changes(op)
      BY <2>1, <1>6, <1>8 DEF Changes, Puts, Gets, Deletes
    <3>2. Changers(h)' = {}
      BY <2>1, <3>1, <1>8, <1>11, <1>16
    <3>. QED
      BY <2>1, <3>2, <1>6, <1>8 DEF StillThere
  <2>2. CASE v # u
    <3>1. Changers(call[v].hash) = {} /\ StillThere(call[v])
      BY <2>2, <1>17 DEF BlobIInv, LoneGet
    <3>. QED
      BY <2>2, <3>1, <1>2, <1>17 DEF StillThere
  <2>. QED
    BY <2>1, <2>2
<1>20. GetsProper'
  <2>. SUFFICES ASSUME NEW v \in Users, call'[v].st = "answer", call'[v].op \in Gets
                PROVE  Proper(call'[v].op, call'[v].alone, call'[v].answer, call'[v].was)
    BY DEF GetsProper, Proper
  <2>1. v # u
    BY <1>8 DEF Over
  <2>2. Over(call'[v])
    BY DEF Over
  <2>3. call'[v] = call[v]
    BY <2>1, <2>2, <1>9, <1>10
  <2>. QED
    BY <2>3 DEF BlobIInv, GetsProper
<1>. QED
  BY <1>13, <1>14, <1>15, <1>18, <1>19, <1>20 DEF BlobIInv

LEMMA CrashStep ==
    ASSUME BlobIInv, Crash
    PROVE  BlobIInv'
<1>. DEFINE hit == {call[u].hash : u \in {v \in Users : ~Over(call[v]) /\ Changes(call[v].op)}}
<1>1. /\ faults' = faults + 1 /\ impl' = impl /\ calls' = calls
      /\ call' = [u \in Users |-> Free]
      /\ impl = "memory" => /\ blobs' = [h \in Hashes |-> "absent"] /\ outboards' = blobs'
                            /\ certain' = [h \in Hashes |-> {Neither}]
      /\ impl # "memory" => /\ certain' = [h \in Hashes |-> IF h \in hit THEN Pairs ELSE certain[h]]
                            /\ UNCHANGED <<blobs, outboards>>
  BY DEF Crash
<1>2. BlobTypeOK
  BY DEF BlobIInv
<1>3. \A u \in Users : call'[u] = Free /\ Over(call'[u]) /\ call'[u].st = "free"
  BY <1>1 DEF Over, Free
<1>4. Neither \in Pairs /\ Neither = [blob |-> "absent", outboard |-> "absent"]
  BY DEF Neither, Pairs, Objects
<1>5. blobs' \in [Hashes -> Objects] /\ outboards' \in [Hashes -> Objects]
  BY <1>1, <1>2 DEF BlobTypeOK, Objects
<1>6. certain' \in [Hashes -> SUBSET Pairs]
  <2>1. CASE impl = "memory"
    BY <2>1, <1>1, <1>4
  <2>2. CASE impl # "memory"
    BY <2>2, <1>1, <1>2 DEF BlobTypeOK
  <2>. QED
    BY <2>1, <2>2
<1>7. BlobTypeOK'
  BY <1>1, <1>2, <1>5, <1>6 DEF BlobTypeOK
<1>8. AllFit' /\ LoneChange' /\ LoneGet' /\ GetsProper'
  BY <1>3 DEF AllFit, LoneChange, LoneGet, GetsProper
<1>9. WholeElsewhere'
  BY <1>1 DEF BlobIInv, WholeElsewhere
<1>10. SettledIsCertain'
  <2>. SUFFICES ASSUME NEW h \in Hashes
                PROVE  [blob |-> blobs'[h], outboard |-> outboards'[h]] \in certain'[h]
    BY DEF SettledIsCertain, Holding
  <2>1. CASE impl = "memory"
    BY <2>1, <1>1, <1>4
  <2>2. CASE impl # "memory" /\ h \in hit
    <3>1. [blob |-> blobs'[h], outboard |-> outboards'[h]] \in Pairs
      BY <1>5 DEF Pairs
    <3>. QED
      BY <2>2, <3>1, <1>1
  <2>3. CASE impl # "memory" /\ h \notin hit
    <3>1. Changers(h) = {}
      BY <2>3 DEF Changers
    <3>. QED
      BY <2>3, <3>1, <1>1 DEF BlobIInv, SettledIsCertain, Holding
  <2>. QED
    BY <2>1, <2>2, <2>3
<1>. QED
  BY <1>7, <1>8, <1>9, <1>10 DEF BlobIInv

LEMMA BlobInductive == BlobSpec => []BlobIInv
<1>1. BlobInit => BlobIInv
  <2>. SUFFICES ASSUME BlobInit PROVE BlobIInv
    OBVIOUS
  <2>1. \A u \in Users : call[u] = Free /\ Over(call[u]) /\ call[u].st = "free"
    BY DEF BlobInit, Over, Free
  <2>2. Neither \in Pairs /\ Neither = [blob |-> "absent", outboard |-> "absent"]
    BY DEF Neither, Pairs, Objects
  <2>3. BlobTypeOK
    BY <2>2 DEF BlobInit, BlobTypeOK, Objects
  <2>4. AllFit /\ LoneChange /\ LoneGet /\ GetsProper
    BY <2>1 DEF AllFit, LoneChange, LoneGet, GetsProper
  <2>5. WholeElsewhere /\ SettledIsCertain
    BY <2>2 DEF BlobInit, WholeElsewhere, SettledIsCertain, Holding
  <2>. QED
    BY <2>3, <2>4, <2>5 DEF BlobIInv
<1>2. BlobIInv /\ [BlobNext]_blobVars => BlobIInv'
  <2>. SUFFICES ASSUME BlobIInv, [BlobNext]_blobVars PROVE BlobIInv'
    OBVIOUS
  <2>1. ASSUME NEW u \in Users, NEW op \in Ops, NEW h \in Hashes, Begin(u, op, h)
        PROVE  BlobIInv'
    BY <2>1, BeginStep
  <2>2. ASSUME NEW u \in Users,
               Truncate(u) \/ Write(u) \/ Read(u) \/ Discard(u) \/ Fails(u)
        PROVE  BlobIInv'
    BY <2>2, TruncateStep, WriteStep, ReadStep, RemoveStep, FailsStep
  <2>3. CASE Crash
    BY <2>3, CrashStep
  <2>4. CASE UNCHANGED blobVars
    BY <2>4 DEF blobVars, BlobIInv, BlobTypeOK, AllFit, Fits, WholeElsewhere, SettledIsCertain,
                Holding, LoneChange, HalfDone, LoneGet, StillThere, GetsProper, Changers
  <2>. QED
    BY <2>1, <2>2, <2>3, <2>4 DEF BlobNext, Ops
<1>. QED
  BY <1>1, <1>2, PTL DEF BlobSpec

(* Of all three blob stores, for any number of users, hashes, failures and *)
(* crashes: what a change that ran alone was to leave is there, and a get  *)
(* answers what is there and never a torn object it has verified.          *)
THEOREM BlobsStored == BlobSpec => []StoredAsTold
<1>1. BlobIInv => StoredAsTold
  <2>. SUFFICES ASSUME BlobIInv PROVE StoredAsTold
    OBVIOUS
  <2>1. ASSUME NEW h \in Hashes, Changers(h) = {}
        PROVE  /\ [blob |-> blobs[h], outboard |-> outboards[h]] \in certain[h]
               /\ h \in Listed => \E p \in certain[h] : p.blob # "absent"
    <3>1. [blob |-> blobs[h], outboard |-> outboards[h]] \in certain[h]
      BY <2>1 DEF BlobIInv, SettledIsCertain, Holding
    <3>. QED
      BY <3>1 DEF Listed, Exists
  <2>2. ASSUME NEW u \in Users, call[u].st = "answer", call[u].op \in Gets
        PROVE  Proper(call[u].op, call[u].alone, call[u].answer, call[u].was)
    BY <2>2 DEF BlobIInv, GetsProper
  <2>. QED
    BY <2>1, <2>2 DEF StoredAsTold, Proper
<1>. QED
  BY <1>1, BlobInductive, PTL

-----------------------------------------------------------------------------
(***************************************************************************)
(* Records.  For every set of documents and grants that clients or         *)
(* programs send, either store, and any width of a u64.                    *)
(*                                                                         *)
(* ReadsBack says of whatever was told stored that it is read again.  The  *)
(* invariant behind it, RecordsIInv, says that the store still has the     *)
(* record, or its row, under the hash told; and a later document replaces  *)
(* it under that hash.  So no two documents may have one hash (HashesTell).*)
(* A hash is here the bytes hashed, and those of one field can be told     *)
(* from whatever follows them (Delimits): by their number, which is always *)
(* the same or comes first, or by a tag.  The lemmas say so of each field, *)
(* of lists of them, and of fields after one another.                      *)
(*                                                                         *)
(* Grants differ: no expiry is encoded as an expiry of 0.  That two grants *)
(* with one id never meet in the store is for IssueRecord, which takes no  *)
(* id twice.                                                               *)
(*                                                                         *)
(* What is left is that writing and parsing undo each other, for the JSON  *)
(* (DocComesBack, GrantComesBack) and for the rows (RowComesBack,          *)
(* GrantRowComesBack): an i64 gives back its u64, sorted tags their set.   *)
(***************************************************************************)
(* A set of natural numbers that is not empty has a least member.          *)
LEMMA LeastMember ==
    ASSUME NEW T \in SUBSET Nat, T # {}
    PROVE  \E m \in T : \A k \in T : m <= k
<1>1. PICK m \in T : \A y \in T : ~ (<<y, m>> \in OpToRel(<, Nat))
  BY NatLessThanWellFounded, WFMin
<1>2. \A k \in T : ~ (k < m)
  BY <1>1, Zenon DEF OpToRel
<1>. QED
  BY <1>2

(* What the first i of the sequences ss make is p[i].                      *)
Joins(p, ss) ==
    p = [i \in 0..Len(ss) |-> IF i = 0 THEN <<>> ELSE p[i - 1] \o ss[i]]

(* FlattenSeq is a recursive function: there is one with its equations.    *)
LEMMA FlattenExists ==
    ASSUME NEW ss, NEW n \in Nat
    PROVE  \E f : f = [i \in 1..n |-> IF i = 1 THEN ss[i] ELSE f[i - 1] \o ss[i]]
<1>. DEFINE Unfolds(k) == \E f : f = [i \in 1..k |-> IF i = 1 THEN ss[i] ELSE f[i - 1] \o ss[i]]
            Failing == {k \in Nat : ~ Unfolds(k)}
<1>1. Failing = {}
  <2>. SUFFICES ASSUME Failing # {} PROVE FALSE
    OBVIOUS
  <2>1. PICK k \in Failing : \A j \in Failing : k <= j
    <3>. HIDE DEF Unfolds
    <3>. QED
      BY LeastMember
  <2>2. CASE k = 0
    <3>1. PICK f : f = [i \in {} |-> <<>>]
      OBVIOUS
    <3>2. f = [i \in 1..k |-> IF i = 1 THEN ss[i] ELSE f[i - 1] \o ss[i]]
      BY <2>2, <3>1
    <3>. QED
      BY <2>1, <3>2
  <2>3. CASE k # 0
    <3>1. k - 1 \in Nat /\ k - 1 \notin Failing
      <4>. HIDE DEF Unfolds
      <4>. QED
        BY <2>1, <2>3
    <3>2. PICK g : g = [i \in 1..(k - 1) |-> IF i = 1 THEN ss[i] ELSE g[i - 1] \o ss[i]]
      BY <3>1
    <3>3. PICK f : f = [i \in 1..k |-> IF i < k THEN g[i] ELSE IF i = 1 THEN ss[i] ELSE g[i - 1] \o ss[i]]
      OBVIOUS
    <3>4. f = [i \in 1..k |-> IF i = 1 THEN ss[i] ELSE f[i - 1] \o ss[i]]
      <4>1. ASSUME NEW i \in 1..k
            PROVE  f[i] = IF i = 1 THEN ss[i] ELSE f[i - 1] \o ss[i]
        <5>1. i # 1 => i - 1 \in 1..k /\ i - 1 < k
          OBVIOUS
        <5>2. i # 1 => f[i - 1] = g[i - 1]
          BY <3>3, <5>1
        <5>3. i < k => i \in 1..(k - 1)
          BY <3>1
        <5>4. i < k => g[i] = IF i = 1 THEN ss[i] ELSE g[i - 1] \o ss[i]
          BY <3>2, <5>3
        <5>. QED
          BY <3>3, <5>2, <5>4
      <4>2. f = [i \in 1..k |-> f[i]]
        BY <3>3
      <4>. QED
        BY <4>1, <4>2
    <3>. QED
      BY <2>1, <3>4
  <2>. QED
    BY <2>2, <2>3
<1>2. Unfolds(n)
  BY <1>1
<1>. QED
  BY <1>2

(* FlattenSeq makes what joining the sequences one by one makes.           *)
LEMMA FlattenJoins ==
    ASSUME NEW T, NEW ss \in Seq(Seq(T))
    PROVE  \E p : /\ Joins(p, ss) /\ FlattenSeq(ss) = p[Len(ss)]
                  /\ \A i \in 0..Len(ss) : p[i] \in Seq(T)
<1>. DEFINE n == Len(ss)
            Right(f) == f = [i \in 1..n |-> IF i = 1 THEN ss[i] ELSE f[i - 1] \o ss[i]]
            f == CHOOSE f : Right(f)
            p == [i \in 0..n |-> IF i = 0 THEN <<>> ELSE f[i]]
<1>1. n \in Nat /\ \A i \in 1..n : ss[i] \in Seq(T)
  OBVIOUS
<1>2. Right(f)
  <2>1. \E g : Right(g)
    BY <1>1, FlattenExists
  <2>. QED
    BY <2>1, Zenon
<1>3. FlattenSeq(ss) = p[n]
  <2>1. CASE n = 0
    <3>1. ss = <<>>
      BY <2>1
    <3>. QED
      BY <2>1, <3>1 DEF FlattenSeq
  <2>2. CASE n # 0
    <3>1. FlattenSeq(ss) = f[n]
      BY <2>2, Zenon DEF FlattenSeq
    <3>. HIDE DEF f
    <3>. QED
      BY <1>1, <2>2, <3>1
  <2>. QED
    BY <2>1, <2>2
<1>4. \A i \in 1..n : f[i] = IF i = 1 THEN ss[i] ELSE f[i - 1] \o ss[i]
  <2>. HIDE DEF f
  <2>. QED
    BY <1>2
<1>. HIDE DEF f
<1>5. p[0] = <<>> /\ (\A i \in 1..n : p[i] = f[i]) /\ p = [i \in 0..n |-> p[i]]
  BY <1>1
<1>. HIDE DEF p
<1>6. ASSUME NEW i \in 0..n, i # 0 PROVE p[i] = p[i - 1] \o ss[i]
  <2>1. CASE i = 1
    <3>1. 1 \in 1..n /\ p[1] = f[1] /\ f[1] = ss[1] /\ ss[1] \in Seq(T)
      <4>1. 1 \in 1..n
        BY <1>1, <1>6, <2>1
      <4>2. f[1] = ss[1]
        BY <1>4, <4>1
      <4>. QED
        BY <1>1, <1>5, <4>1, <4>2
    <3>2. <<>> \o ss[1] = ss[1]
      BY <3>1
    <3>3. p[1] = p[0] \o ss[1]
      BY <1>5, <3>1, <3>2
    <3>. QED
      BY <2>1, <3>3
  <2>2. CASE i # 1
    <3>1. i \in 1..n /\ i - 1 \in 1..n
      BY <1>1, <1>6, <2>2
    <3>2. f[i] = f[i - 1] \o ss[i]
      BY <1>4, <2>2, <3>1
    <3>3. p[i] = f[i] /\ p[i - 1] = f[i - 1]
      BY <1>5, <3>1
    <3>. QED
      BY <3>2, <3>3
  <2>. QED
    BY <2>1, <2>2
<1>7. Joins(p, ss)
  BY <1>5, <1>6 DEF Joins
<1>8. \A i \in 0..n : p[i] \in Seq(T)
  <2>. DEFINE Failing == {i \in 0..n : p[i] \notin Seq(T)}
  <2>. SUFFICES ASSUME Failing # {} PROVE FALSE
    OBVIOUS
  <2>1. PICK i \in Failing : \A j \in Failing : i <= j
    <3>1. Failing \in SUBSET Nat
      BY <1>1
    <3>. QED
      BY <3>1, LeastMember
  <2>2. CASE i = 0
    <3>1. <<>> \in Seq(T)
      OBVIOUS
    <3>. QED
      BY <1>5, <2>1, <2>2, <3>1
  <2>3. CASE i # 0
    <3>1. i - 1 \in 0..n /\ i \in 1..n /\ i - 1 \notin Failing
      BY <1>1, <2>1, <2>3
    <3>2. p[i - 1] \in Seq(T) /\ ss[i] \in Seq(T) /\ p[i] = p[i - 1] \o ss[i]
      BY <1>1, <1>6, <2>1, <2>3, <3>1
    <3>3. p[i] \in Seq(T)
      BY <3>2
    <3>. QED
      BY <2>1, <3>3
  <2>. QED
    BY <2>2, <2>3
<1>. QED
  BY <1>3, <1>7, <1>8

-----------------------------------------------------------------------------
(* Sequences of one length that begin the same sequence are the same.      *)
LEMMA SplitAlike ==
    ASSUME NEW a \in Octets, NEW b \in Octets, NEW s \in Octets, NEW t \in Octets,
           Len(a) = Len(b), a \o s = b \o t
    PROVE  a = b /\ s = t
<1>. USE DEF Octets
<1>1. Len(a) \in Nat /\ Len(s) \in Nat /\ Len(t) \in Nat /\ Len(s) = Len(t)
  <2>1. Len(a \o s) = Len(a) + Len(s)
    BY ConcatProperties
  <2>2. Len(b \o t) = Len(b) + Len(t)
    BY ConcatProperties
  <2>. QED
    BY <2>1, <2>2
<1>2. ASSUME NEW i \in 1..Len(a) PROVE a[i] = b[i]
  <2>1. (a \o s)[i] = a[i] /\ (b \o t)[i] = b[i]
    OBVIOUS
  <2>. QED
    BY <2>1
<1>3. ASSUME NEW i \in 1..Len(s) PROVE s[i] = t[i]
  <2>1. (a \o s)[Len(a) + i] = s[i]
    <3>1. Len(a) + i \in 1..(Len(a) + Len(s)) /\ Len(a) + i > Len(a) /\ Len(a) + i - Len(a) = i
      BY <1>1
    <3>2. (a \o s)[Len(a) + i] = IF Len(a) + i <= Len(a) THEN a[Len(a) + i] ELSE s[Len(a) + i - Len(a)]
      BY ONLY <3>1, a \in Octets, s \in Octets, ConcatProperties DEF Octets
    <3>. QED
      BY ONLY <3>1, <3>2
  <2>2. (b \o t)[Len(b) + i] = t[i]
    <3>1. Len(b) + i \in 1..(Len(b) + Len(t)) /\ Len(b) + i > Len(b) /\ Len(b) + i - Len(b) = i
      BY <1>1
    <3>. QED
      BY ONLY <3>1, b \in Octets, t \in Octets, ConcatProperties DEF Octets
  <2>. QED
    BY <2>1, <2>2
<1>4. a = b
  BY <1>2, SeqEqual
<1>5. s = t
  BY <1>1, <1>3, SeqEqual
<1>. QED
  BY <1>4, <1>5

(* a, then b: the lemmas below say of \o what the proofs need, and the     *)
(* provers see nothing else of it.                                         *)
Then(a, b) == a \o b

(* Beginnings of one length can be told from what follows them.            *)
LEMMA Begins ==
    \A a, b, s, t \in Octets :
        Len(a) = Len(b) /\ Then(a, s) = Then(b, t) => a = b /\ s = t
  BY SplitAlike DEF Then

(* Bytes after bytes are bytes.                                            *)
LEMMA Closed == \A a, b \in Octets : Then(a, b) \in Octets
  BY ConcatProperties DEF Octets, Then

(* Then is associative.                                                    *)
LEMMA Regroup == \A a, b, z \in Octets : Then(Then(a, b), z) = Then(a, Then(b, z))
<1>. TAKE a, b, z \in Octets
<1>1. (a \o b) \o z = a \o (b \o z)
  BY DEF Octets
<1>. QED
  BY <1>1 DEF Then

(* Nothing, before or after, changes nothing.                              *)
LEMMA Nothing ==
    <<>> \in Octets /\ \A a \in Octets : Then(a, <<>>) = a /\ Then(<<>>, a) = a
  BY ConcatEmptySeq DEF Octets, Then

(* The same for four.                                                      *)
LEMMA Shift ==
    \A a, b, y, z \in Octets : Then(Then(Then(a, b), y), z) = Then(a, Then(b, Then(y, z)))
  BY Closed, Regroup

(* What is the same before is no part of the difference.                   *)
LEMMA Unshift ==
    \A u, a, b, v, w, s, t \in Octets :
        Then(Then(Then(u, a), v), s) = Then(Then(Then(u, b), w), t)
        => /\ Then(a, Then(v, s)) = Then(b, Then(w, t))
           /\ Then(v, s) \in Octets /\ Then(w, t) \in Octets
<1>. TAKE u, a, b, v, w, s, t \in Octets
<1>. HAVE Then(Then(Then(u, a), v), s) = Then(Then(Then(u, b), w), t)
<1>1. Then(v, s) \in Octets /\ Then(w, t) \in Octets
  BY Closed
<1>2. Then(a, Then(v, s)) \in Octets /\ Then(b, Then(w, t)) \in Octets
  BY <1>1, Closed
<1>3. Then(Then(Then(u, a), v), s) = Then(u, Then(a, Then(v, s)))
  BY ONLY u \in Octets, a \in Octets, v \in Octets, s \in Octets, Shift
<1>4. Then(Then(Then(u, b), w), t) = Then(u, Then(b, Then(w, t)))
  BY ONLY u \in Octets, b \in Octets, w \in Octets, t \in Octets, Shift
<1>5. Then(u, Then(a, Then(v, s))) = Then(u, Then(b, Then(w, t)))
  BY <1>3, <1>4, Zenon
<1>. QED
  BY ONLY <1>1, <1>2, <1>5, u \in Octets, Begins

(* p says what the first i of n elements of ss make.                       *)
Builds(p, ss, n) ==
    /\ \A j \in 0..n : p[j] \in Octets
    /\ \A j \in 1..n : ss[j] \in Octets /\ p[j] = Then(p[j - 1], ss[j])

(* What follows the first i of the elements.                               *)
LEMMA Remains ==
    ASSUME NEW n \in Nat, NEW p, NEW ss, Builds(p, ss, n)
    PROVE  \A i \in 0..n : \E s \in Octets : p[n] = Then(p[i], s)
<1>. DEFINE Left(j) == \E s \in Octets : p[n] = Then(p[j], s)
            Failing == {k \in 0..n : ~ Left(n - k)}
<1>2. Failing = {}
  <2>. SUFFICES ASSUME Failing # {} PROVE FALSE
    OBVIOUS
  <2>1. PICK k \in Failing : \A j \in Failing : k <= j
    <3>. HIDE DEF Left
    <3>1. Failing \in SUBSET Nat
      OBVIOUS
    <3>. QED
      BY <3>1, LeastMember
  <2>2. CASE k = 0
    <3>1. n - k = n /\ p[n] \in Octets
      BY <2>2 DEF Builds
    <3>2. p[n] = Then(p[n], <<>>) /\ <<>> \in Octets
      BY <3>1, Nothing
    <3>. QED
      BY <2>1, <3>1, <3>2
  <2>3. CASE k # 0
    <3>1. PICK j : j = n - k
      OBVIOUS
    <3>2. /\ k \in 0..n /\ j \in 0..n /\ j + 1 \in 1..n /\ k - 1 \in 0..n
          /\ n - (k - 1) = j + 1 /\ j + 1 - 1 = j
      <4>. HIDE DEF Left
      <4>1. k \in 0..n
        BY <2>1
      <4>. QED
        BY ONLY <4>1, n \in Nat, <2>3, <3>1
    <3>3. Left(j + 1)
      <4>. HIDE DEF Left
      <4>1. ~ (k <= k - 1)
        BY <3>2
      <4>2. k - 1 \notin Failing
        <5>. HIDE DEF Failing
        <5>. QED
          BY <2>1, <4>1
      <4>3. Left(n - (k - 1))
        BY <3>2, <4>2
      <4>. QED
        BY <3>2, <4>3
    <3>4. PICK s \in Octets : p[n] = Then(p[j + 1], s)
      BY <3>3
    <3>5. p[j + 1] = Then(p[j], ss[j + 1]) /\ p[j] \in Octets /\ ss[j + 1] \in Octets
      <4>1. PICK i \in 1..n : i = j + 1
        BY <3>2
      <4>2. p[i] = Then(p[i - 1], ss[i]) /\ ss[i] \in Octets
        BY <4>1, Zenon DEF Builds
      <4>3. p[j] \in Octets /\ i - 1 = j
        BY <3>2, <4>1 DEF Builds
      <4>. QED
        BY ONLY <4>1, <4>2, <4>3
    <3>6. p[n] = Then(p[j], Then(ss[j + 1], s)) /\ Then(ss[j + 1], s) \in Octets
      <4>1. PICK a, b, x : a = p[j] /\ b = ss[j + 1] /\ x = p[j + 1]
        OBVIOUS
      <4>2. a \in Octets /\ b \in Octets /\ x = Then(a, b) /\ p[n] = Then(x, s)
        BY ONLY <3>4, <3>5, <4>1
      <4>3. p[n] = Then(a, Then(b, s)) /\ Then(b, s) \in Octets
        <5>1. Then(Then(a, b), s) = Then(a, Then(b, s))
          BY ONLY <4>2, s \in Octets, Regroup
        <5>2. Then(b, s) \in Octets
          BY ONLY <4>2, s \in Octets, Closed
        <5>. QED
          BY ONLY <4>2, <5>1, <5>2, Zenon
      <4>. QED
        BY ONLY <4>1, <4>3
    <3>. QED
      BY <2>1, <3>1, <3>6
  <2>. QED
    BY <2>2, <2>3
<1>3. ASSUME NEW i \in 0..n PROVE Left(i)
  <2>. HIDE DEF Left
  <2>1. n - (n - i) = i /\ n - i \in 0..n
    OBVIOUS
  <2>2. Left(n - (n - i))
    BY <1>2, <2>1
  <2>. QED
    BY <2>1, <2>2
<1>. QED
  BY <1>3

-----------------------------------------------------------------------------
(* An encoding that can be told from whatever follows it.                  *)
Delimits(c) ==
    /\ \A x \in DOMAIN c : c[x] \in Octets
    /\ \A x, y \in DOMAIN c, s, t \in Octets : Then(c[x], s) = Then(c[y], t) => x = y /\ s = t

Each(c, xs) == [i \in DOMAIN xs |-> c[xs[i]]]

(* After the same beginning u, the same next element.                      *)
LEMMA NextIsSame ==
    ASSUME NEW c, Delimits(c), NEW x \in DOMAIN c, NEW y \in DOMAIN c, NEW u \in Octets,
           NEW v \in Octets, NEW w \in Octets, NEW s \in Octets, NEW t \in Octets,
           Then(Then(Then(u, c[x]), v), s) = Then(Then(Then(u, c[y]), w), t)
    PROVE  x = y
<1>1. c[x] \in Octets /\ c[y] \in Octets
  BY DEF Delimits
<1>2. PICK a, b : a = c[x] /\ b = c[y]
  OBVIOUS
<1>3. /\ Then(a, Then(v, s)) = Then(b, Then(w, t))
      /\ Then(v, s) \in Octets /\ Then(w, t) \in Octets
  <2>1. a \in Octets /\ b \in Octets
    BY ONLY <1>1, <1>2
  <2>2. Then(Then(Then(u, a), v), s) = Then(Then(Then(u, b), w), t)
    BY <1>2
  <2>. QED
    BY ONLY <2>1, <2>2, u \in Octets, v \in Octets, w \in Octets, s \in Octets, t \in Octets,
            Unshift
<1>4. PICK d, e : d = Then(v, s) /\ e = Then(w, t)
  OBVIOUS
<1>5. d \in Octets /\ e \in Octets /\ Then(c[x], d) = Then(c[y], e)
  BY <1>2, <1>3, <1>4
<1>. QED
  BY ONLY <1>5, x \in DOMAIN c, y \in DOMAIN c, Delimits(c), Zenon DEF Delimits

(* Lists of one length are told apart, element by element.                 *)
LEMMA ListDelimits ==
    ASSUME NEW c, Delimits(c),
           NEW xs \in Seq(DOMAIN c), NEW ys \in Seq(DOMAIN c), Len(xs) = Len(ys),
           NEW s \in Octets, NEW t \in Octets,
           Then(FlattenSeq(Each(c, xs)), s) = Then(FlattenSeq(Each(c, ys)), t)
    PROVE  xs = ys /\ s = t
<1>. DEFINE n == Len(xs)
<1>1. n \in Nat /\ n = Len(ys)
  OBVIOUS
<1>2. ASSUME NEW zs \in Seq(DOMAIN c), Len(zs) = n
      PROVE  /\ Each(c, zs) \in Seq(Octets) /\ Len(Each(c, zs)) = n
             /\ \A i \in 1..n : zs[i] \in DOMAIN c /\ Each(c, zs)[i] = c[zs[i]]
  <2>1. DOMAIN zs = 1..n /\ \A i \in 1..n : zs[i] \in DOMAIN c
    BY <1>2
  <2>2. Each(c, zs) = [i \in 1..n |-> c[zs[i]]] /\ \A i \in 1..n : c[zs[i]] \in Octets
    BY <2>1 DEF Each, Delimits
  <2>. QED
    BY <1>1, <2>1, <2>2
<1>3. ASSUME NEW zs \in Seq(DOMAIN c), Len(zs) = n
      PROVE  \E p : /\ p[0] = <<>> /\ FlattenSeq(Each(c, zs)) = p[n]
                    /\ \A i \in 0..n : p[i] \in Octets
                    /\ \A i \in 1..n : p[i] = Then(p[i - 1], Each(c, zs)[i])
  <2>1. Each(c, zs) \in Seq(Seq(Nat)) /\ Len(Each(c, zs)) = n
    BY <1>2, <1>3 DEF Octets
  <2>2. PICK p : /\ Joins(p, Each(c, zs)) /\ FlattenSeq(Each(c, zs)) = p[Len(Each(c, zs))]
                 /\ \A i \in 0..Len(Each(c, zs)) : p[i] \in Seq(Nat)
    BY <2>1, FlattenJoins
  <2>3. p = [i \in 0..n |-> IF i = 0 THEN <<>> ELSE Then(p[i - 1], Each(c, zs)[i])]
    BY <2>1, <2>2 DEF Joins, Then
  <2>4. p[0] = <<>> /\ \A i \in 1..n : p[i] = Then(p[i - 1], Each(c, zs)[i])
    <3>1. 0 \in 0..n /\ \A i \in 1..n : i \in 0..n /\ i # 0
      BY <1>1
    <3>. QED
      BY <2>3, <3>1
  <2>. QED
    BY <2>1, <2>2, <2>4 DEF Octets
<1>4. ASSUME NEW zs \in Seq(DOMAIN c), Len(zs) = n
      PROVE  \E p : /\ p[0] = <<>> /\ FlattenSeq(Each(c, zs)) = p[n]
                    /\ \A i \in 0..n : p[i] \in Octets
                    /\ \A i \in 1..n : p[i] = Then(p[i - 1], c[zs[i]])
                    /\ \A i \in 0..n : \E s2 \in Octets : p[n] = Then(p[i], s2)
  <2>1. PICK p : /\ p[0] = <<>> /\ FlattenSeq(Each(c, zs)) = p[n]
                 /\ \A i \in 0..n : p[i] \in Octets
                 /\ \A i \in 1..n : p[i] = Then(p[i - 1], Each(c, zs)[i])
    BY <1>3, <1>4, Zenon
  <2>2. \A i \in 1..n : Each(c, zs)[i] \in Octets /\ Each(c, zs)[i] = c[zs[i]]
    BY <1>2, <1>4 DEF Delimits
  <2>3. \A i \in 0..n : \E s2 \in Octets : p[n] = Then(p[i], s2)
    <3>1. \A i \in 1..n : c[zs[i]] \in Octets /\ p[i] = Then(p[i - 1], c[zs[i]])
      BY <2>1, <2>2, Zenon
    <3>2. PICK ss : ss = [i \in 1..n |-> c[zs[i]]]
      OBVIOUS
    <3>3. \A i \in 1..n : ss[i] = c[zs[i]]
      BY <3>2
    <3>4. \A i \in 1..n : ss[i] \in Octets /\ p[i] = Then(p[i - 1], ss[i])
      BY <3>1, <3>3, Zenon
    <3>. QED
      <4>1. Builds(p, ss, n)
        BY <2>1, <3>4, Zenon DEF Builds
      <4>. QED
        BY <1>1, <4>1, Remains
  <2>. QED
    BY <2>1, <2>2, <2>3
<1>10. PICK p : /\ p[0] = <<>> /\ FlattenSeq(Each(c, xs)) = p[n]
                /\ \A i \in 0..n : p[i] \in Octets
                /\ \A i \in 1..n : p[i] = Then(p[i - 1], c[xs[i]])
                /\ \A i \in 0..n : \E s2 \in Octets : p[n] = Then(p[i], s2)
  BY <1>4
<1>11. PICK q : /\ q[0] = <<>> /\ FlattenSeq(Each(c, ys)) = q[n]
                /\ \A i \in 0..n : q[i] \in Octets
                /\ \A i \in 1..n : q[i] = Then(q[i - 1], c[ys[i]])
                /\ \A i \in 0..n : \E s2 \in Octets : q[n] = Then(q[i], s2)
  BY <1>1, <1>4
<1>. DEFINE Same(i) == p[i] = q[i] /\ \A j \in 1..i : xs[j] = ys[j]
            Failing == {i \in 0..n : ~ Same(i)}
<1>5. Failing = {}
  <2>. SUFFICES ASSUME Failing # {} PROVE FALSE
    OBVIOUS
  <2>1. PICK k \in Failing : \A j \in Failing : k <= j
    <3>. HIDE DEF Same
    <3>1. Failing \in SUBSET Nat
      BY <1>1
    <3>. QED
      BY <3>1, LeastMember
  <2>2. CASE k = 0
    BY <1>10, <1>11, <2>1, <2>2
  <2>3. CASE k # 0
    <3>1. k - 1 \in 0..n /\ k \in 1..n
      BY <1>1, <2>1, <2>3
    <3>2. Same(k - 1)
      <4>. HIDE DEF Same
      <4>. QED
        BY <1>1, <2>1, <3>1
    <3>3. p[k] = Then(p[k - 1], c[xs[k]]) /\ q[k] = Then(q[k - 1], c[ys[k]])
      BY <1>10, <1>11, <3>1
    <3>4. PICK v \in Octets : p[n] = Then(p[k], v)
      BY <1>10, <2>1, Zenon
    <3>5. PICK w \in Octets : q[n] = Then(q[k], w)
      BY <1>11, <2>1, Zenon
    <3>6. /\ xs[k] \in DOMAIN c /\ ys[k] \in DOMAIN c
          /\ c[xs[k]] \in Octets /\ c[ys[k]] \in Octets
          /\ p[k - 1] \in Octets /\ q[k - 1] \in Octets
      BY <1>1, <1>2, <1>10, <1>11, <3>1 DEF Delimits
    <3>7. p[n] = Then(Then(p[k - 1], c[xs[k]]), v) /\ q[n] = Then(Then(p[k - 1], c[ys[k]]), w)
      BY <3>2, <3>3, <3>4, <3>5
    <3>10. xs[k] = ys[k]
      <4>. HIDE DEF Failing
      <4>1. Then(p[n], s) = Then(q[n], t)
        BY <1>10, <1>11
      <4>2. PICK x, y : x = xs[k] /\ y = ys[k]
        OBVIOUS
      <4>3. PICK u : u = p[k - 1]
        OBVIOUS
      <4>4. x \in DOMAIN c /\ y \in DOMAIN c /\ u \in Octets
        BY <3>6, <4>2, <4>3
      <4>5. Then(Then(Then(u, c[x]), v), s) = Then(Then(Then(u, c[y]), w), t)
        BY ONLY <3>7, <4>1, <4>2, <4>3, Zenon
      <4>6. x = y
        BY ONLY <4>4, <4>5, v \in Octets, w \in Octets, s \in Octets, t \in Octets, Delimits(c),
                NextIsSame
      <4>. QED
        BY <4>2, <4>6
    <3>11. Same(k)
      <4>1. ASSUME NEW j \in 1..k PROVE xs[j] = ys[j]
        <5>1. j = k \/ j \in 1..(k - 1)
          BY <3>1
        <5>. QED
          BY <3>2, <3>10, <5>1
      <4>. QED
        BY <3>2, <3>3, <3>10, <4>1
    <3>. QED
      BY <2>1, <3>11
  <2>. QED
    BY <2>2, <2>3
<1>6. p[n] = q[n] /\ \A j \in 1..n : xs[j] = ys[j]
  <2>1. n \in 0..n
    BY <1>1
  <2>. QED
    BY <1>5, <2>1
<1>7. xs = ys
  BY <1>1, <1>6, SeqEqual
<1>8. p[n] \in Octets /\ Then(p[n], s) = Then(p[n], t)
  BY <1>1, <1>10, <1>11, <1>6
<1>9. s = t
  <2>1. PICK u : u = p[n]
    OBVIOUS
  <2>. QED
    BY ONLY <1>8, <2>1, s \in Octets, t \in Octets, Begins
<1>. QED
  BY <1>7, <1>9

(* The elements of two sequences after one another.                        *)
LEMMA ElementsJoin ==
    ASSUME NEW T, NEW a \in Seq(T), NEW b \in Seq(T)
    PROVE  ToSet(a \o b) = ToSet(a) \union ToSet(b)
<1>1. Len(a \o b) = Len(a) + Len(b) /\ Len(a) \in Nat /\ Len(b) \in Nat
  BY ConcatProperties
<1>2. \A i \in 1..Len(a) + Len(b) :
        (a \o b)[i] = IF i <= Len(a) THEN a[i] ELSE b[i - Len(a)]
  BY ConcatProperties
<1>3. DOMAIN (a \o b) = 1..Len(a) + Len(b) /\ DOMAIN a = 1..Len(a) /\ DOMAIN b = 1..Len(b)
  BY <1>1
<1>4. ASSUME NEW x \in ToSet(a \o b) PROVE x \in ToSet(a) \union ToSet(b)
  <2>1. PICK i \in 1..Len(a) + Len(b) : x = (a \o b)[i]
    BY <1>3 DEF ToSet
  <2>2. CASE i <= Len(a)
    <3>1. i \in 1..Len(a) /\ x = a[i]
      BY <1>1, <1>2, <2>1, <2>2
    <3>. QED
      BY <1>3, <3>1 DEF ToSet
  <2>3. CASE i > Len(a)
    <3>1. i - Len(a) \in 1..Len(b) /\ x = b[i - Len(a)]
      BY <1>1, <1>2, <2>1, <2>3
    <3>. QED
      BY <1>3, <3>1 DEF ToSet
  <2>. QED
    BY <1>1, <2>2, <2>3
<1>5. ASSUME NEW x \in ToSet(a) PROVE x \in ToSet(a \o b)
  <2>1. PICK i \in 1..Len(a) : x = a[i]
    BY <1>3 DEF ToSet
  <2>2. i \in 1..Len(a) + Len(b) /\ (a \o b)[i] = x
    BY <1>1, <1>2, <2>1
  <2>. QED
    BY <1>3, <2>2 DEF ToSet
<1>6. ASSUME NEW x \in ToSet(b) PROVE x \in ToSet(a \o b)
  <2>1. PICK i \in 1..Len(b) : x = b[i]
    BY <1>3 DEF ToSet
  <2>2. PICK j : j = Len(a) + i
    OBVIOUS
  <2>3. j \in 1..Len(a) + Len(b) /\ ~ (j <= Len(a)) /\ j - Len(a) = i
    BY <1>1, <2>2
  <2>4. (a \o b)[j] = x
    BY <1>2, <2>1, <2>3
  <2>. QED
    BY <1>3, <2>3, <2>4 DEF ToSet
<1>. QED
  BY <1>4, <1>5, <1>6

(* The tags of a set of permissions are that set, and nothing else.        *)
LEMMA SortedTags ==
    ASSUME NEW perms \in SUBSET Permissions
    PROVE  Sorted(perms) \in Seq(Permissions) /\ ToSet(Sorted(perms)) = perms
<1>. DEFINE tag(n) == IF PermissionOrder[n] \in perms THEN <<PermissionOrder[n]>> ELSE <<>>
            ss == [n \in DOMAIN PermissionOrder |-> tag(n)]
<1>1. DOMAIN PermissionOrder = 1..5
  BY DEF PermissionOrder
<1>2. \A n \in 1..5 : PermissionOrder[n] \in Permissions
  BY <1>1 DEF Permissions, ToSet
<1>3. \A n \in 1..5 : /\ tag(n) \in Seq(Permissions)
                      /\ ToSet(tag(n)) = {PermissionOrder[n]} \intersect perms
  <2>. TAKE n \in 1..5
  <2>1. PICK x : x = PermissionOrder[n]
    OBVIOUS
  <2>2. x \in Permissions
    BY <1>2, <2>1
  <2>3. <<x>> \in Seq(Permissions) /\ <<>> \in Seq(Permissions)
    BY <2>2
  <2>4. ToSet(<<x>>) = {x} /\ ToSet(<<>>) = {}
    BY DEF ToSet
  <2>. QED
    BY <2>1, <2>3, <2>4
<1>4. ss \in Seq(Seq(Permissions)) /\ Len(ss) = 5 /\ \A n \in 1..5 : ss[n] = tag(n)
  <2>. HIDE DEF tag
  <2>1. ss \in [1..5 -> Seq(Permissions)]
    BY <1>1, <1>3
  <2>. QED
    BY <1>1, <2>1
<1>5. PICK p : /\ Joins(p, ss) /\ FlattenSeq(ss) = p[5]
               /\ \A i \in 0..5 : p[i] \in Seq(Permissions)
  <2>. HIDE DEF ss
  <2>. QED
    BY <1>4, FlattenJoins
<1>6. p[0] = <<>> /\ \A i \in 1..5 : p[i] = p[i - 1] \o tag(i)
  <2>. HIDE DEF ss, tag
  <2>1. p = [i \in 0..5 |-> IF i = 0 THEN <<>> ELSE p[i - 1] \o ss[i]]
    BY <1>4, <1>5 DEF Joins
  <2>2. p[0] = <<>>
    BY <2>1
  <2>3. \A i \in 1..5 : p[i] = p[i - 1] \o ss[i]
    <3>1. \A i \in 1..5 : i \in 0..5 /\ i # 0
      OBVIOUS
    <3>. QED
      BY <2>1, <3>1
  <2>. QED
    BY <1>4, <2>2, <2>3
<1>. HIDE DEF tag, ss
<1>7. \A i \in 1..5 : ToSet(p[i]) = ToSet(p[i - 1]) \union ({PermissionOrder[i]} \intersect perms)
  <2>. TAKE i \in 1..5
  <2>1. p[i - 1] \in Seq(Permissions) /\ tag(i) \in Seq(Permissions)
    BY <1>3, <1>5
  <2>2. ToSet(p[i - 1] \o tag(i)) = ToSet(p[i - 1]) \union ToSet(tag(i))
    BY <2>1, ElementsJoin
  <2>. QED
    BY <1>3, <1>6, <2>2
<1>8. ToSet(p[0]) = {}
  BY <1>6 DEF ToSet
<1>9. ToSet(p[5]) = {PermissionOrder[i] : i \in 1..5} \intersect perms
  <2>1. ToSet(p[1]) = {PermissionOrder[1]} \intersect perms
    BY <1>7, <1>8
  <2>2. ToSet(p[2]) = {PermissionOrder[1], PermissionOrder[2]} \intersect perms
    BY <1>7, <2>1
  <2>3. ToSet(p[3]) = {PermissionOrder[1], PermissionOrder[2], PermissionOrder[3]} \intersect perms
    BY <1>7, <2>2
  <2>4. ToSet(p[4]) = ToSet(p[3]) \union ({PermissionOrder[4]} \intersect perms)
    BY <1>7
  <2>5. ToSet(p[5]) = ToSet(p[4]) \union ({PermissionOrder[5]} \intersect perms)
    BY <1>7
  <2>6. {PermissionOrder[i] : i \in 1..5} =
          {PermissionOrder[1], PermissionOrder[2], PermissionOrder[3], PermissionOrder[4],
           PermissionOrder[5]}
    OBVIOUS
  <2>. QED
    BY <2>3, <2>4, <2>5, <2>6
<1>10. Permissions = {PermissionOrder[i] : i \in 1..5}
  BY <1>1 DEF Permissions, ToSet
<1>11. Sorted(perms) = p[5]
  BY <1>5 DEF Sorted, ss, tag
<1>12. {PermissionOrder[i] : i \in 1..5} \intersect perms = perms
  BY <1>10
<1>13. p[5] \in Seq(Permissions)
  BY <1>5
<1>14. ToSet(p[5]) = perms
  BY <1>9, <1>12
<1>. QED
  BY ONLY <1>11, <1>13, <1>14

-----------------------------------------------------------------------------
(* What can be told from what follows it: a byte, two, an identifier, and  *)
(* whatever follows its own length.                                        *)
OneCode == [n \in Nat |-> <<n>>]
TwoCode == [n \in Nat \X Nat |-> <<n[1], n[2]>>]
IdCode == [i \in Ids |-> i]
PrefixedCode == [b \in Octets |-> write_len_prefixed(b)]

(* Encodings of one fixed length.                                          *)
LEMMA ByteDelimits ==
    /\ \A n \in Nat : <<n>> \in Octets
    /\ \A m, n \in Nat, s, t \in Octets : Then(<<m>>, s) = Then(<<n>>, t) => m = n /\ s = t
<1>1. \A n \in Nat : <<n>> \in Octets /\ Len(<<n>>) = 1
  BY DEF Octets
<1>2. ASSUME NEW m \in Nat, NEW n \in Nat, NEW s \in Octets, NEW t \in Octets,
             Then(<<m>>, s) = Then(<<n>>, t)
      PROVE  m = n /\ s = t
  <2>1. PICK a, b : a = <<m>> /\ b = <<n>>
    OBVIOUS
  <2>2. a \in Octets /\ b \in Octets /\ Len(a) = Len(b)
    BY <1>1, <2>1
  <2>3. a = b /\ s = t
    BY <1>2, <2>1, <2>2, Begins
  <2>. QED
    BY <2>1, <2>3
<1>. QED
  BY <1>1, <1>2

LEMMA OneDelimits == Delimits(OneCode)
  BY ByteDelimits DEF Delimits, OneCode

LEMMA TwoDelimits == Delimits(TwoCode)
<1>1. \A n \in Nat \X Nat : <<n[1], n[2]>> \in Octets /\ Len(<<n[1], n[2]>>) = 2
  BY DEF Octets
<1>2. ASSUME NEW m \in Nat \X Nat, NEW n \in Nat \X Nat, NEW s \in Octets, NEW t \in Octets,
             Then(<<m[1], m[2]>>, s) = Then(<<n[1], n[2]>>, t)
      PROVE  m = n /\ s = t
  <2>1. PICK a, b : a = <<m[1], m[2]>> /\ b = <<n[1], n[2]>>
    OBVIOUS
  <2>2. a \in Octets /\ b \in Octets /\ Len(a) = Len(b)
    BY <1>1, <2>1
  <2>3. a = b /\ s = t
    BY <1>2, <2>1, <2>2, Begins
  <2>4. m[1] = n[1] /\ m[2] = n[2]
    BY <2>1, <2>3
  <2>. QED
    BY <2>3, <2>4
<1>. QED
  BY <1>1, <1>2 DEF Delimits, TwoCode

LEMMA IdDelimits == Delimits(IdCode)
<1>1. \A i \in Ids : i \in Octets /\ Len(i) = IdLen
  BY DEF Ids, WellFormed
<1>. QED
  BY <1>1, Begins DEF Delimits, IdCode

(* Encodings after one another.                                            *)
Both(c, e) == [z \in (DOMAIN c) \X (DOMAIN e) |-> Then(c[z[1]], e[z[2]])]

(* If each can be told from what follows, so can the two.                  *)
LEMMA BothDelimit ==
    ASSUME NEW c, NEW e, Delimits(c), Delimits(e)
    PROVE  Delimits(Both(c, e)) /\ DOMAIN Both(c, e) = (DOMAIN c) \X (DOMAIN e)
<1>1. \A x \in DOMAIN c : c[x] \in Octets
  BY DEF Delimits
<1>2. \A x \in DOMAIN e : e[x] \in Octets
  BY DEF Delimits
<1>3. ASSUME NEW x \in DOMAIN c, NEW y \in DOMAIN e
      PROVE  Then(c[x], e[y]) \in Octets
  BY <1>1, <1>2, Closed
<1>4. ASSUME NEW x \in DOMAIN c, NEW y \in DOMAIN e, NEW v \in DOMAIN c, NEW w \in DOMAIN e,
             NEW s \in Octets, NEW t \in Octets,
             Then(Then(c[x], e[y]), s) = Then(Then(c[v], e[w]), t)
      PROVE  x = v /\ y = w /\ s = t
  <2>1. PICK f, g, h, l : f = c[x] /\ g = e[y] /\ h = c[v] /\ l = e[w]
    OBVIOUS
  <2>2. f \in Octets /\ g \in Octets /\ h \in Octets /\ l \in Octets
    BY <1>1, <1>2, <2>1
  <2>3. Then(Then(f, g), s) = Then(f, Then(g, s))
    BY ONLY <2>2, s \in Octets, Regroup
  <2>4. Then(Then(h, l), t) = Then(h, Then(l, t))
    BY ONLY <2>2, t \in Octets, Regroup
  <2>5. Then(g, s) \in Octets /\ Then(l, t) \in Octets
    BY ONLY <2>2, s \in Octets, t \in Octets, Closed
  <2>6. Then(c[x], Then(g, s)) = Then(c[v], Then(l, t))
    BY ONLY <1>4, <2>1, <2>3, <2>4, Zenon
  <2>7. x = v /\ Then(g, s) = Then(l, t)
    <3>1. PICK a, b : a = Then(g, s) /\ b = Then(l, t)
      OBVIOUS
    <3>2. a \in Octets /\ b \in Octets /\ Then(c[x], a) = Then(c[v], b)
      BY <2>5, <2>6, <3>1
    <3>3. x = v /\ a = b
      BY ONLY <3>2, x \in DOMAIN c, v \in DOMAIN c, Delimits(c) DEF Delimits
    <3>. QED
      BY <3>1, <3>3
  <2>8. Then(e[y], s) = Then(e[w], t)
    BY ONLY <2>1, <2>7, Zenon
  <2>9. y = w /\ s = t
    BY ONLY <2>8, y \in DOMAIN e, w \in DOMAIN e, s \in Octets, t \in Octets, Delimits(e)
       DEF Delimits
  <2>. QED
    BY <2>7, <2>9
<1>5. DOMAIN Both(c, e) = (DOMAIN c) \X (DOMAIN e)
  BY DEF Both
<1>6. \A z \in (DOMAIN c) \X (DOMAIN e) : /\ Both(c, e)[z] = Then(c[z[1]], e[z[2]])
                                      /\ z[1] \in DOMAIN c /\ z[2] \in DOMAIN e
                                      /\ z = <<z[1], z[2]>>
  <2>. TAKE z \in (DOMAIN c) \X (DOMAIN e)
  <2>1. z[1] \in DOMAIN c /\ z[2] \in DOMAIN e /\ z = <<z[1], z[2]>>
    <3>1. PICK A, B : A = DOMAIN c /\ B = DOMAIN e
      OBVIOUS
    <3>2. z \in A \X B
      BY ONLY <3>1, z \in (DOMAIN c) \X (DOMAIN e), Zenon
    <3>3. z[1] \in A /\ z[2] \in B /\ z = <<z[1], z[2]>>
      BY ONLY <3>2
    <3>. QED
      BY <3>1, <3>3
  <2>2. Both(c, e)[z] = Then(c[z[1]], e[z[2]])
    BY Zenon DEF Both
  <2>. QED
    BY <2>1, <2>2
<1>7. ASSUME NEW z \in (DOMAIN c) \X (DOMAIN e), NEW w \in (DOMAIN c) \X (DOMAIN e),
             NEW s \in Octets, NEW t \in Octets, Then(Both(c, e)[z], s) = Then(Both(c, e)[w], t)
      PROVE  z = w /\ s = t
  <2>1. Then(Then(c[z[1]], e[z[2]]), s) = Then(Then(c[w[1]], e[w[2]]), t)
    BY <1>6, <1>7
  <2>2. z[1] = w[1] /\ z[2] = w[2] /\ s = t
    <3>1. z[1] \in DOMAIN c /\ z[2] \in DOMAIN e /\ w[1] \in DOMAIN c /\ w[2] \in DOMAIN e
      BY <1>6
    <3>. QED
      BY <1>4, <2>1, <3>1
  <2>. QED
    BY <1>6, <2>2
<1>8. \A z \in (DOMAIN c) \X (DOMAIN e) : Both(c, e)[z] \in Octets
  BY <1>3, <1>6
<1>. QED
  BY <1>5, <1>7, <1>8 DEF Delimits

LEMMA PrefixedDelimits == Delimits(PrefixedCode)
<1>1. \A b \in Octets : Len(b) \in Nat /\ write_len_prefixed(b) = Then(<<Len(b)>>, b)
  BY DEF write_len_prefixed, Then, Octets
<1>2. ASSUME NEW b \in Octets PROVE write_len_prefixed(b) \in Octets
  <2>1. PICK x : x = <<Len(b)>>
    OBVIOUS
  <2>2. x \in Octets
    BY <1>1, <2>1, ByteDelimits
  <2>. QED
    BY <1>1, <2>1, <2>2, Closed
<1>3. ASSUME NEW a \in Octets, NEW b \in Octets, NEW s \in Octets, NEW t \in Octets,
             Then(write_len_prefixed(a), s) = Then(write_len_prefixed(b), t)
      PROVE  a = b /\ s = t
  <2>1. PICK x, y : x = <<Len(a)>> /\ y = <<Len(b)>>
    OBVIOUS
  <2>2. x \in Octets /\ y \in Octets
    BY <1>1, <2>1, ByteDelimits
  <2>3. Then(Then(x, a), s) = Then(Then(y, b), t)
    BY <1>1, <1>3, <2>1, Zenon
  <2>4. Then(x, Then(a, s)) = Then(y, Then(b, t))
    BY ONLY <2>2, <2>3, a \in Octets, b \in Octets, s \in Octets, t \in Octets, Regroup
  <2>5. Then(a, s) \in Octets /\ Then(b, t) \in Octets
    BY Closed
  <2>6. Len(a) = Len(b) /\ Then(a, s) = Then(b, t)
    BY <1>1, <2>1, <2>4, <2>5, ByteDelimits
  <2>. QED
    BY <2>6, Begins
<1>. QED
  BY <1>2, <1>3 DEF Delimits, PrefixedCode

(* A list is encoded as bytes.                                             *)
LEMMA ListEncodes ==
    ASSUME NEW c, Delimits(c), NEW xs \in Seq(DOMAIN c)
    PROVE  FlattenSeq(Each(c, xs)) \in Octets
<1>1. Each(c, xs) \in Seq(Seq(Nat))
  <2>1. Len(xs) \in Nat /\ DOMAIN xs = 1..Len(xs) /\ \A i \in 1..Len(xs) : xs[i] \in DOMAIN c
    OBVIOUS
  <2>2. \A i \in 1..Len(xs) : c[xs[i]] \in Seq(Nat)
    BY <2>1 DEF Delimits, Octets
  <2>3. Each(c, xs) \in [1..Len(xs) -> Seq(Nat)]
    BY <2>1, <2>2 DEF Each
  <2>. QED
    BY <2>1, <2>3
<1>2. PICK ss : ss = Each(c, xs)
  OBVIOUS
<1>3. PICK p : /\ FlattenSeq(ss) = p[Len(ss)]
               /\ \A i \in 0..Len(ss) : p[i] \in Seq(Nat)
  BY <1>1, <1>2, FlattenJoins
<1>4. Len(ss) \in 0..Len(ss)
  BY <1>1, <1>2
<1>. QED
  BY <1>2, <1>3, <1>4 DEF Octets

(* A byte that says what follows.                                          *)
LEMMA HeadDelimits ==
    ASSUME NEW m \in Nat, NEW n \in Nat, NEW a \in Octets, NEW b \in Octets,
           NEW s \in Octets, NEW t \in Octets,
           Then(Then(<<m>>, a), s) = Then(Then(<<n>>, b), t)
    PROVE  m = n /\ Then(a, s) = Then(b, t)
<1>1. PICK x, y : x = <<m>> /\ y = <<n>>
  OBVIOUS
<1>2. x \in Octets /\ y \in Octets
  BY <1>1, ByteDelimits
<1>3. Then(Then(x, a), s) = Then(Then(y, b), t)
  BY <1>1
<1>4. Then(x, Then(a, s)) = Then(y, Then(b, t))
  BY ONLY <1>2, <1>3, a \in Octets, b \in Octets, s \in Octets, t \in Octets, Regroup
<1>5. Then(a, s) \in Octets /\ Then(b, t) \in Octets
  BY Closed
<1>. QED
  BY <1>1, <1>4, <1>5, ByteDelimits

(* A code whose every element is a byte, then what the other code says of  *)
(* it, if what is left tells the elements with the same byte apart.        *)
Headed(c, head, body) ==
    \A x \in DOMAIN c : head[x] \in Nat /\ body[x] \in Octets /\ c[x] = Then(<<head[x]>>, body[x])
BodiesTell(c, head, body) ==
    \A x, y \in DOMAIN c, s, t \in Octets :
        head[x] = head[y] /\ Then(body[x], s) = Then(body[y], t) => x = y /\ s = t

(* A byte and a body that can be told, once the byte is known.             *)
LEMMA HeadedDelimits ==
    ASSUME NEW c, NEW head, NEW body, Headed(c, head, body), BodiesTell(c, head, body)
    PROVE  Delimits(c)
<1>1. ASSUME NEW x \in DOMAIN c PROVE c[x] \in Octets
  <2>1. PICK h, b : h = <<head[x]>> /\ b = body[x]
    OBVIOUS
  <2>2. h \in Octets /\ b \in Octets /\ c[x] = Then(h, b)
    BY <2>1, ByteDelimits DEF Headed
  <2>. QED
    BY <2>2, Closed
<1>2. ASSUME NEW x \in DOMAIN c, NEW y \in DOMAIN c, NEW s \in Octets, NEW t \in Octets,
             Then(c[x], s) = Then(c[y], t)
      PROVE  x = y /\ s = t
  <2>1. PICK m, n, a, b : m = head[x] /\ n = head[y] /\ a = body[x] /\ b = body[y]
    OBVIOUS
  <2>2. m \in Nat /\ n \in Nat /\ a \in Octets /\ b \in Octets
    BY <2>1 DEF Headed
  <2>3. Then(Then(<<m>>, a), s) = Then(Then(<<n>>, b), t)
    BY <1>2, <2>1, Zenon DEF Headed
  <2>4. m = n /\ Then(a, s) = Then(b, t)
    BY ONLY <2>2, <2>3, s \in Octets, t \in Octets, HeadDelimits
  <2>. QED
    BY <2>1, <2>4, Zenon DEF BodiesTell
<1>. QED
  BY <1>1, <1>2 DEF Delimits

-----------------------------------------------------------------------------
(* An Option: a 0, or a 1 and the identifier.                              *)
OptionCode == [o \in Optional(Ids) |-> OptionBytes(o)]

(* An Option is nothing, or one identifier.                                *)
LEMMA OptionParts ==
    ASSUME NEW S, NEW o \in Optional(S), o # <<>>
    PROVE  o[1] \in S /\ o = <<o[1]>> /\ Len(o) = 1
<1>1. o \in Seq(S) /\ Len(o) <= 1
  BY DEF Optional
<1>2. PICK n : n = Len(o)
  OBVIOUS
<1>3. n \in Nat \ {0}
  BY <1>1, <1>2, EmptySeq
<1>4. n <= 1
  BY <1>1, <1>2
<1>5. n = 1
  BY ONLY <1>3, <1>4
<1>6. PICK z \in Seq(S) : z = o
  BY <1>1
<1>7. Len(z) = 1
  BY <1>2, <1>5, <1>6
<1>8. z[1] \in S /\ z = <<z[1]>>
  BY ONLY <1>7, z \in Seq(S)
<1>. QED
  BY <1>6, <1>7, <1>8

LEMMA OptionDelimits == Delimits(OptionCode)
<1>. DEFINE head == [o \in Optional(Ids) |-> IF o = <<>> THEN 0 ELSE 1]
            body == [o \in Optional(Ids) |-> IF o = <<>> THEN <<>> ELSE o[1]]
<1>1. DOMAIN OptionCode = Optional(Ids)
  BY DEF OptionCode
<1>2. \A o \in Optional(Ids) : /\ head[o] = IF o = <<>> THEN 0 ELSE 1
                               /\ body[o] = IF o = <<>> THEN <<>> ELSE o[1]
                               /\ OptionCode[o] = OptionBytes(o)
  BY DEF OptionCode
<1>. HIDE DEF head, body
<1>3. Headed(OptionCode, head, body)
  <2>1. ASSUME NEW o \in Optional(Ids)
        PROVE  head[o] \in Nat /\ body[o] \in Octets /\ OptionCode[o] = Then(<<head[o]>>, body[o])
    <3>1. CASE o = <<>>
      <4>1. head[o] = 0 /\ body[o] = <<>> /\ OptionCode[o] = <<0>>
        BY <1>2, <3>1 DEF OptionBytes
      <4>2. PICK z : z = <<0>>
        OBVIOUS
      <4>3. Then(z, <<>>) = z
        BY <4>2, ByteDelimits, Nothing
      <4>. QED
        BY <4>1, <4>2, <4>3, Nothing
    <3>2. CASE o # <<>>
      <4>1. o[1] \in Octets
        BY <3>2, OptionParts DEF Ids
      <4>2. head[o] = 1 /\ body[o] = o[1] /\ OptionCode[o] = OptionBytes(o)
        BY <1>2, <3>2
      <4>3. OptionBytes(o) = Then(<<1>>, o[1])
        BY <3>2, Zenon DEF OptionBytes, Then
      <4>. QED
        BY <4>1, <4>2, <4>3
    <3>. QED
      BY <3>1, <3>2
  <2>. QED
    BY <1>1, <2>1 DEF Headed
<1>4. BodiesTell(OptionCode, head, body)
  <2>1. ASSUME NEW x \in Optional(Ids), NEW y \in Optional(Ids), NEW s \in Octets, NEW t \in Octets,
               head[x] = head[y], Then(body[x], s) = Then(body[y], t)
        PROVE  x = y /\ s = t
    <3>1. CASE x = <<>>
      <4>1. y = <<>>
        BY <1>2, <2>1, <3>1
      <4>2. body[x] = <<>> /\ body[y] = <<>>
        BY <1>2, <3>1, <4>1
      <4>3. Then(<<>>, s) = s /\ Then(<<>>, t) = t
        BY Nothing
      <4>. QED
        BY <2>1, <3>1, <4>1, <4>2, <4>3
    <3>2. CASE x # <<>>
      <4>1. y # <<>>
        BY <1>2, <2>1, <3>2
      <4>2. x[1] \in Ids /\ y[1] \in Ids /\ x = <<x[1]>> /\ y = <<y[1]>>
        BY <3>2, <4>1, OptionParts
      <4>3. body[x] = x[1] /\ body[y] = y[1]
        BY <1>2, <3>2, <4>1
      <4>4. PICK a, b : a = x[1] /\ b = y[1]
        OBVIOUS
      <4>5. a \in Ids /\ b \in Ids /\ Then(a, s) = Then(b, t)
        BY <2>1, <4>2, <4>3, <4>4
      <4>6. DOMAIN IdCode = Ids /\ IdCode[a] = a /\ IdCode[b] = b
        BY <4>5 DEF IdCode
      <4>7. a = b /\ s = t
        BY ONLY <4>5, <4>6, s \in Octets, t \in Octets, IdDelimits DEF Delimits
      <4>. QED
        BY <4>2, <4>4, <4>7
    <3>. QED
      BY <3>1, <3>2
  <2>. QED
    BY <1>1, <2>1 DEF BodiesTell
<1>. QED
  BY <1>3, <1>4, HeadedDelimits

-----------------------------------------------------------------------------
(* A set of permissions: how many, and a byte for each.                    *)
PermissionsCode == [p \in SUBSET Permissions |-> write_permissions(p)]

Number(tag) == CHOOSE n \in DOMAIN PermissionOrder : PermissionOrder[n] = tag

LEMMA PermissionsDelimit == Delimits(PermissionsCode)
<1>. DEFINE head == [p \in SUBSET Permissions |-> Len(Sorted(p))]
            numbers(tags) == [i \in DOMAIN tags |-> Number(tags[i])]
            body == [p \in SUBSET Permissions |-> numbers(Sorted(p))]
<1>1. DOMAIN PermissionsCode = SUBSET Permissions
  BY DEF PermissionsCode
<1>2. \A p \in SUBSET Permissions : head[p] = Len(Sorted(p)) /\ body[p] = numbers(Sorted(p))
  OBVIOUS
<1>3. \A tag \in Permissions : Number(tag) \in Nat /\ PermissionOrder[Number(tag)] = tag
  <2>. TAKE tag \in Permissions
  <2>1. \E n \in DOMAIN PermissionOrder : PermissionOrder[n] = tag
    BY DEF Permissions, ToSet
  <2>2. Number(tag) \in DOMAIN PermissionOrder /\ PermissionOrder[Number(tag)] = tag
    BY <2>1, Zenon DEF Number
  <2>3. DOMAIN PermissionOrder = 1..5
    BY DEF PermissionOrder
  <2>. QED
    BY <2>2, <2>3
<1>4. \A tags \in Seq(Permissions) :
        numbers(tags) \in Octets /\ Len(numbers(tags)) = Len(tags) /\ Len(tags) \in Nat
  <2>. TAKE tags \in Seq(Permissions)
  <2>1. Len(tags) \in Nat /\ DOMAIN tags = 1..Len(tags) /\ \A i \in 1..Len(tags) : tags[i] \in Permissions
    OBVIOUS
  <2>2. numbers(tags) \in [1..Len(tags) -> Nat]
    BY <1>3, <2>1
  <2>. QED
    BY <2>1, <2>2 DEF Octets
<1>5. \A p \in SUBSET Permissions : PermissionsCode[p] = Then(<<head[p]>>, body[p])
  <2>. TAKE p \in SUBSET Permissions
  <2>1. PermissionsCode[p] = write_permissions(p)
    BY DEF PermissionsCode
  <2>2. write_permissions(p) = Then(<<Len(Sorted(p))>>, numbers(Sorted(p)))
    BY Zenon DEF write_permissions, Then, Number
  <2>. QED
    BY <1>2, <2>1, <2>2
<1>. HIDE DEF numbers, head, body
<1>6. Headed(PermissionsCode, head, body)
  <2>1. \A p \in SUBSET Permissions : head[p] \in Nat /\ body[p] \in Octets
    BY <1>2, <1>4, SortedTags
  <2>. QED
    BY <1>1, <1>5, <2>1 DEF Headed
<1>7. BodiesTell(PermissionsCode, head, body)
  <2>1. ASSUME NEW x \in SUBSET Permissions, NEW y \in SUBSET Permissions,
               NEW s \in Octets, NEW t \in Octets,
               head[x] = head[y], Then(body[x], s) = Then(body[y], t)
        PROVE  x = y /\ s = t
    <3>1. PICK a, b : a = Sorted(x) /\ b = Sorted(y)
      OBVIOUS
    <3>2. a \in Seq(Permissions) /\ b \in Seq(Permissions) /\ ToSet(a) = x /\ ToSet(b) = y
      BY <3>1, SortedTags
    <3>3. Len(a) = Len(b)
      BY <1>2, <2>1, <3>1
    <3>4. PICK v, w : v = numbers(a) /\ w = numbers(b)
      OBVIOUS
    <3>5. v \in Octets /\ w \in Octets /\ Len(v) = Len(w)
      BY <1>4, <3>2, <3>3, <3>4
    <3>6. Then(v, s) = Then(w, t)
      BY <1>2, <2>1, <3>1, <3>4
    <3>7. v = w /\ s = t
      BY ONLY <3>5, <3>6, s \in Octets, t \in Octets, Begins
    <3>8. DOMAIN a = 1..Len(a) /\ DOMAIN b = 1..Len(a)
      BY <3>2, <3>3
    <3>9. ASSUME NEW i \in 1..Len(a) PROVE a[i] = b[i]
      <4>1. v[i] = Number(a[i]) /\ w[i] = Number(b[i])
        BY <3>4, <3>8 DEF numbers
      <4>2. a[i] \in Permissions /\ b[i] \in Permissions
        BY <3>2, <3>3
      <4>. QED
        BY <1>3, <3>7, <4>1, <4>2
    <3>10. x = y
      BY <3>2, <3>8, <3>9 DEF ToSet
    <3>. QED
      BY <3>7, <3>10
  <2>. QED
    BY <1>1, <2>1 DEF BodiesTell
<1>. QED
  BY <1>6, <1>7, HeadedDelimits

-----------------------------------------------------------------------------
(* A decryption policy: a 1, or a 2 and the three fields.                  *)
PolicyCode == [p \in DecryptionPolicy |-> encode_decryption_policy(p)]
ThresholdCode == Both(TwoCode, IdCode)
Thresholds == [kind : {"threshold"}, threshold : Nat, total : Nat, policy_ref : Ids]

LEMMA PolicyDelimits == Delimits(PolicyCode)
<1>. DEFINE head == [p \in DecryptionPolicy |-> IF p = Standalone THEN 1 ELSE 2]
            parts(p) == <<<<p.threshold, p.total>>, p.policy_ref>>
            body == [p \in DecryptionPolicy |->
                       IF p = Standalone THEN <<>> ELSE ThresholdCode[parts(p)]]
<1>1. DOMAIN PolicyCode = DecryptionPolicy
  BY DEF PolicyCode
<1>2. \A p \in DecryptionPolicy :
        /\ head[p] = IF p = Standalone THEN 1 ELSE 2
        /\ body[p] = IF p = Standalone THEN <<>> ELSE ThresholdCode[parts(p)]
        /\ PolicyCode[p] = encode_decryption_policy(p)
        /\ p # Standalone => p \in Thresholds
  BY DEF PolicyCode, DecryptionPolicy, Thresholds
<1>3. Delimits(ThresholdCode) /\ DOMAIN ThresholdCode = (Nat \X Nat) \X Ids
  <2>1. DOMAIN TwoCode = Nat \X Nat /\ DOMAIN IdCode = Ids
    BY DEF TwoCode, IdCode
  <2>2. Delimits(ThresholdCode) /\ DOMAIN ThresholdCode = (DOMAIN TwoCode) \X (DOMAIN IdCode)
    BY TwoDelimits, IdDelimits, BothDelimit DEF ThresholdCode
  <2>. QED
    BY <2>1, <2>2
<1>4. \A p \in Thresholds : /\ p.threshold \in Nat /\ p.total \in Nat /\ p.policy_ref \in Ids
                            /\ p.kind = "threshold"
  BY DEF Thresholds
<1>5. \A p \in Thresholds : parts(p) \in DOMAIN ThresholdCode
  BY <1>3, <1>4
<1>6. \A p \in Thresholds : ThresholdCode[parts(p)] = Then(<<p.threshold, p.total>>, p.policy_ref)
  <2>. TAKE p \in Thresholds
  <2>1. PICK z : z = parts(p)
    OBVIOUS
  <2>2. DOMAIN TwoCode = Nat \X Nat /\ DOMAIN IdCode = Ids
    BY DEF TwoCode, IdCode
  <2>3. z \in (DOMAIN TwoCode) \X (DOMAIN IdCode)
    BY <1>4, <2>1, <2>2
  <2>4. ThresholdCode[z] = Then(TwoCode[z[1]], IdCode[z[2]])
    BY <2>3, Zenon DEF ThresholdCode, Both
  <2>5. TwoCode[z[1]] = <<p.threshold, p.total>> /\ IdCode[z[2]] = p.policy_ref
    BY <1>4, <2>1 DEF TwoCode, IdCode
  <2>. QED
    BY <2>1, <2>4, <2>5
<1>7. \A p \in Thresholds : ThresholdCode[parts(p)] \in Octets
  BY <1>3, <1>5 DEF Delimits
<1>8. ASSUME NEW p \in Thresholds, p # Standalone
      PROVE  encode_decryption_policy(p) = Then(<<2>>, ThresholdCode[parts(p)])
  <2>1. PICK x, y : x = p.threshold /\ y = p.total
    OBVIOUS
  <2>2. x \in Nat /\ y \in Nat /\ p.policy_ref \in Seq(Nat)
    BY <1>4, <2>1 DEF Ids, Octets
  <2>3. <<2, x, y>> = <<2>> \o <<x, y>>
    OBVIOUS
  <2>4. <<2>> \in Octets /\ <<x, y>> \in Octets /\ p.policy_ref \in Octets
    BY <2>2 DEF Octets
  <2>5. PICK a, b, z : a = <<2>> /\ b = <<x, y>> /\ z = p.policy_ref
    OBVIOUS
  <2>6. Then(Then(a, b), z) = Then(a, Then(b, z))
    BY <2>4, <2>5, Regroup
  <2>7. encode_decryption_policy(p) = <<2, x, y>> \o z
    BY <1>8, <2>1, <2>5 DEF encode_decryption_policy
  <2>8. encode_decryption_policy(p) = Then(Then(a, b), z)
    BY <2>3, <2>5, <2>7 DEF Then
  <2>. QED
    BY <1>6, <2>1, <2>5, <2>6, <2>8
<1>. HIDE DEF head, body, parts
<1>9. Headed(PolicyCode, head, body)
  <2>1. ASSUME NEW p \in DecryptionPolicy
        PROVE  head[p] \in Nat /\ body[p] \in Octets /\ PolicyCode[p] = Then(<<head[p]>>, body[p])
    <3>1. CASE p = Standalone
      <4>1. head[p] = 1 /\ body[p] = <<>> /\ PolicyCode[p] = <<1>>
        BY <1>2, <3>1 DEF encode_decryption_policy
      <4>2. PICK z : z = <<1>>
        OBVIOUS
      <4>3. Then(z, <<>>) = z
        BY <4>2, ByteDelimits, Nothing
      <4>. QED
        BY <4>1, <4>2, <4>3, Nothing
    <3>2. CASE p # Standalone
      BY <1>2, <1>7, <1>8, <3>2
    <3>. QED
      BY <3>1, <3>2
  <2>. QED
    BY <1>1, <2>1 DEF Headed
<1>10. BodiesTell(PolicyCode, head, body)
  <2>1. ASSUME NEW x \in DecryptionPolicy, NEW y \in DecryptionPolicy,
               NEW s \in Octets, NEW t \in Octets,
               head[x] = head[y], Then(body[x], s) = Then(body[y], t)
        PROVE  x = y /\ s = t
    <3>1. CASE x = Standalone
      <4>1. y = Standalone
        BY <1>2, <2>1, <3>1
      <4>2. body[x] = <<>> /\ body[y] = <<>>
        BY <1>2, <3>1, <4>1
      <4>3. Then(<<>>, s) = s /\ Then(<<>>, t) = t
        BY Nothing
      <4>. QED
        BY <2>1, <3>1, <4>1, <4>2, <4>3
    <3>2. CASE x # Standalone
      <4>1. y # Standalone
        BY <1>2, <2>1, <3>2
      <4>2. x \in Thresholds /\ y \in Thresholds
        BY <1>2, <3>2, <4>1
      <4>3. PICK a, b : a = parts(x) /\ b = parts(y)
        OBVIOUS
      <4>4. a \in DOMAIN ThresholdCode /\ b \in DOMAIN ThresholdCode
        BY <1>5, <4>2, <4>3
      <4>5. Then(ThresholdCode[a], s) = Then(ThresholdCode[b], t)
        BY <1>2, <2>1, <3>2, <4>1, <4>3
      <4>6. a = b /\ s = t
        BY ONLY <1>3, <4>4, <4>5, s \in Octets, t \in Octets DEF Delimits
      <4>7. x.threshold = y.threshold /\ x.total = y.total /\ x.policy_ref = y.policy_ref
        BY <4>3, <4>6 DEF parts
      <4>8. x = y
        BY <4>2, <4>7 DEF Thresholds
      <4>. QED
        BY <4>6, <4>8
    <3>. QED
      BY <3>1, <3>2
  <2>. QED
    BY <1>1, <2>1 DEF BodiesTell
<1>. QED
  BY <1>9, <1>10, HeadedDelimits

(* A rotation mode: its kind, and the identifiers it has, after their      *)
(* number where that is not the kind's.                                    *)
ModeCode == [m \in RotationMode |-> encode_rotation_mode(m)]
Counted == {"revoke", "burn"}
Ordinal(kind) == CHOOSE n \in DOMAIN Modes : Modes[n] = kind

(* What the kind of a mode says of its identifiers.                        *)
LEMMA ModeKinds ==
    /\ \A m \in RotationMode :
         /\ m.ids \in Seq(Ids) /\ m = [kind |-> m.kind, ids |-> m.ids]
         /\ \E n \in DOMAIN Modes : Modes[n] = m.kind
         /\ m.kind \notin Counted =>
              IF m.kind = "fork" THEN Len(m.ids) = 1 ELSE m.ids = <<>>
    /\ DOMAIN Modes = 1..7
<1>. DEFINE P == [kind : {"create", "additive", "hygiene", "tombstone"}, ids : {<<>>}]
            C == [kind : {"revoke", "burn"}, ids : Seq(Ids)]
            F == [kind : {"fork"}, ids : {new \in Seq(Ids) : Len(new) = 1}]
<1>1. DOMAIN Modes = 1..7 /\ Modes[1] = "create" /\ Modes[2] = "additive" /\ Modes[3] = "hygiene"
      /\ Modes[4] = "revoke" /\ Modes[5] = "burn" /\ Modes[6] = "fork" /\ Modes[7] = "tombstone"
  BY DEF Modes
<1>2. ASSUME NEW m \in RotationMode
      PROVE  /\ m.ids \in Seq(Ids) /\ m = [kind |-> m.kind, ids |-> m.ids]
             /\ \E n \in DOMAIN Modes : Modes[n] = m.kind
             /\ m.kind \notin Counted =>
                  IF m.kind = "fork" THEN Len(m.ids) = 1 ELSE m.ids = <<>>
  <2>1. m \in P \/ m \in C \/ m \in F
    BY DEF RotationMode
  <2>2. CASE m \in P
    <3>1. <<>> \in Seq(Ids)
      BY EmptySeq
    <3>2. /\ m.ids = <<>> /\ m.kind \in {"create", "additive", "hygiene", "tombstone"}
          /\ m = [kind |-> m.kind, ids |-> m.ids]
      BY <2>2
    <3>3. \E n \in DOMAIN Modes : Modes[n] = m.kind
      BY <1>1, <3>2
    <3>. QED
      BY <3>1, <3>2, <3>3 DEF Counted
  <2>3. CASE m \in C
    BY <1>1, <2>3 DEF Counted
  <2>4. CASE m \in F
    BY <1>1, <2>4 DEF Counted
  <2>. QED
    BY <2>1, <2>2, <2>3, <2>4
<1>. QED
  BY <1>1, <1>2

(* Lists of identifiers of one length.                                     *)
LEMMA IdLists ==
    \A ids \in Seq(Ids) : /\ Each(IdCode, ids) = ids /\ ids \in Seq(DOMAIN IdCode)
                          /\ FlattenSeq(ids) \in Octets
<1>. TAKE ids \in Seq(Ids)
<1>1. DOMAIN IdCode = Ids /\ \A i \in Ids : IdCode[i] = i
  BY DEF IdCode
<1>2. ids \in Seq(DOMAIN IdCode)
  BY <1>1
<1>3. DOMAIN ids = 1..Len(ids) /\ Len(ids) \in Nat /\ ids = [i \in 1..Len(ids) |-> ids[i]]
      /\ \A i \in 1..Len(ids) : ids[i] \in Ids
  OBVIOUS
<1>4. Each(IdCode, ids) = ids
  BY <1>1, <1>3 DEF Each
<1>. QED
  BY <1>2, <1>4, IdDelimits, ListEncodes

LEMMA ModeDelimits == Delimits(ModeCode)
<1>. DEFINE head == [m \in RotationMode |-> Ordinal(m.kind)]
            count(m) == IF m.kind \in Counted THEN <<Len(m.ids)>> ELSE <<>>
            body == [m \in RotationMode |-> Then(count(m), FlattenSeq(m.ids))]
<1>1. DOMAIN ModeCode = RotationMode
  BY DEF ModeCode
<1>2. \A m \in RotationMode : /\ head[m] = Ordinal(m.kind)
                              /\ body[m] = Then(count(m), FlattenSeq(m.ids))
                              /\ ModeCode[m] = encode_rotation_mode(m)
  BY Zenon DEF ModeCode
<1>3. \A m \in RotationMode : Ordinal(m.kind) \in Nat /\ Modes[Ordinal(m.kind)] = m.kind
  <2>. TAKE m \in RotationMode
  <2>1. \E n \in DOMAIN Modes : Modes[n] = m.kind
    BY ModeKinds
  <2>2. Ordinal(m.kind) \in DOMAIN Modes /\ Modes[Ordinal(m.kind)] = m.kind
    BY <2>1, Zenon DEF Ordinal
  <2>. QED
    BY <2>2, ModeKinds
<1>4. \A m \in RotationMode : count(m) \in Octets
  <2>. TAKE m \in RotationMode
  <2>1. m.ids \in Seq(Ids)
    BY ModeKinds
  <2>2. Len(m.ids) \in Nat
    BY <2>1
  <2>. QED
    BY <2>2, ByteDelimits, Nothing
<1>5. \A m \in RotationMode : FlattenSeq(m.ids) \in Octets
  BY ModeKinds, IdLists
<1>6. \A m \in RotationMode : encode_rotation_mode(m) = Then(<<Ordinal(m.kind)>>, Then(count(m), FlattenSeq(m.ids)))
  <2>. TAKE m \in RotationMode
  <2>1. PICK a, b, z : a = <<Ordinal(m.kind)>> /\ b = count(m) /\ z = FlattenSeq(m.ids)
    OBVIOUS
  <2>2. a \in Octets /\ b \in Octets /\ z \in Octets
    BY <1>3, <1>4, <1>5, <2>1, ByteDelimits
  <2>3. encode_rotation_mode(m) = Then(Then(a, b), z)
    BY <2>1, Zenon DEF encode_rotation_mode, Then, Counted, Ordinal
  <2>. QED
    BY <2>1, <2>2, <2>3, Regroup
<1>. HIDE DEF head, body
<1>7. Headed(ModeCode, head, body)
  <2>1. \A m \in RotationMode : body[m] \in Octets
    <3>. HIDE DEF count
    <3>. QED
      BY <1>2, <1>4, <1>5, Closed
  <2>2. \A m \in RotationMode : ModeCode[m] = Then(<<head[m]>>, body[m]) /\ head[m] \in Nat
    <3>. HIDE DEF count
    <3>. QED
      BY <1>2, <1>3, <1>6
  <2>. QED
    BY <1>1, <2>1, <2>2 DEF Headed
<1>8. BodiesTell(ModeCode, head, body)
  <2>1. ASSUME NEW x \in RotationMode, NEW y \in RotationMode, NEW s \in Octets, NEW t \in Octets,
               head[x] = head[y], Then(body[x], s) = Then(body[y], t)
        PROVE  x = y /\ s = t
    <3>1. x.kind = y.kind
      BY <1>2, <1>3, <2>1
    <3>2. PICK i, j : i = x.ids /\ j = y.ids
      OBVIOUS
    <3>3. i \in Seq(Ids) /\ j \in Seq(Ids)
      BY <3>2, ModeKinds
    <3>4. PICK a, b, v, w : a = count(x) /\ b = count(y) /\ v = FlattenSeq(i) /\ w = FlattenSeq(j)
      OBVIOUS
    <3>5. a \in Octets /\ b \in Octets /\ v \in Octets /\ w \in Octets
      BY <1>4, <1>5, <3>2, <3>4
    <3>6. Then(Then(a, v), s) = Then(Then(b, w), t)
      BY <1>2, <2>1, <3>2, <3>4
    <3>7. Then(a, Then(v, s)) = Then(b, Then(w, t)) /\ Then(v, s) \in Octets /\ Then(w, t) \in Octets
      <4>1. Then(Then(a, v), s) = Then(a, Then(v, s))
        BY ONLY <3>5, s \in Octets, Regroup
      <4>2. Then(Then(b, w), t) = Then(b, Then(w, t))
        BY ONLY <3>5, t \in Octets, Regroup
      <4>3. Then(v, s) \in Octets /\ Then(w, t) \in Octets
        BY ONLY <3>5, s \in Octets, t \in Octets, Closed
      <4>. QED
        BY ONLY <3>6, <4>1, <4>2, <4>3
    <3>8. Len(i) = Len(j) /\ Then(v, s) = Then(w, t)
      <4>1. PICK d, e : d = Then(v, s) /\ e = Then(w, t)
        OBVIOUS
      <4>2. d \in Octets /\ e \in Octets /\ Then(a, d) = Then(b, e)
        BY ONLY <3>7, <4>1
      <4>3. CASE x.kind \in Counted
        <5>1. a = <<Len(i)>> /\ b = <<Len(j)>>
          BY <3>1, <3>2, <3>4, <4>3
        <5>2. Len(i) \in Nat /\ Len(j) \in Nat
          BY <3>3
        <5>3. Len(i) = Len(j) /\ d = e
          BY ONLY <4>2, <5>1, <5>2, ByteDelimits
        <5>. QED
          BY <4>1, <5>3
      <4>4. CASE x.kind \notin Counted
        <5>1. a = <<>> /\ b = <<>>
          BY <3>1, <3>4, <4>4
        <5>2. d = e
          BY ONLY <4>2, <5>1, Nothing
        <5>3. Len(i) = Len(j)
          BY <3>1, <3>2, <4>4, ModeKinds
        <5>. QED
          BY <4>1, <5>2, <5>3
      <4>. QED
        BY <4>3, <4>4
    <3>9. i = j /\ s = t
      <4>1. /\ Each(IdCode, i) = i /\ i \in Seq(DOMAIN IdCode)
            /\ Each(IdCode, j) = j /\ j \in Seq(DOMAIN IdCode)
        BY <3>3, IdLists
      <4>2. Then(FlattenSeq(Each(IdCode, i)), s) = Then(FlattenSeq(Each(IdCode, j)), t)
        BY <3>4, <3>8, <4>1
      <4>3. Len(i) = Len(j)
        BY <3>8
      <4>. QED
        BY ONLY <4>1, <4>2, <4>3, s \in Octets, t \in Octets, IdDelimits, ListDelimits
    <3>10. x = y
      BY <3>1, <3>2, <3>9, ModeKinds
    <3>. QED
      BY <3>9, <3>10
  <2>. QED
    BY <1>1, <2>1 DEF BodiesTell
<1>. QED
  BY <1>7, <1>8, HeadedDelimits

-----------------------------------------------------------------------------
(* Codes of the fields before and after, in the order of the bytes.        *)
MemberCode == [m \in Member |-> MemberBytes(m)]
FieldsCode == Both(Both(Both(Both(IdCode, PermissionsCode), PolicyCode), OneCode), IdCode)
MemberFields(m) ==
    <<<<<<<<m.fingerprint, m.permissions>>, m.decryption_policy>>, m.added_at>>, m.added_by>>

(* What the encoding of two is made of.                                    *)
LEMMA BothMakes ==
    ASSUME NEW c, NEW e, NEW x \in DOMAIN c, NEW y \in DOMAIN e
    PROVE  Both(c, e)[<<x, y>>] = Then(c[x], e[y]) /\ <<x, y>> \in DOMAIN Both(c, e)
<1>1. <<x, y>> \in (DOMAIN c) \X (DOMAIN e) /\ <<x, y>>[1] = x /\ <<x, y>>[2] = y
  OBVIOUS
<1>2. PICK z : z = <<x, y>>
  OBVIOUS
<1>3. Both(c, e)[z] = Then(c[z[1]], e[z[2]]) /\ z \in DOMAIN Both(c, e)
  BY <1>1, <1>2 DEF Both
<1>. QED
  BY <1>1, <1>2, <1>3

(* A member is its fields.                                                 *)
LEMMA MemberParts ==
    ASSUME NEW m \in Member
    PROVE  /\ m.fingerprint \in Ids /\ m.permissions \in SUBSET Permissions
           /\ m.decryption_policy \in DecryptionPolicy /\ m.added_at \in Nat
           /\ m.added_by \in Ids
           /\ m = [fingerprint |-> m.fingerprint, permissions |-> m.permissions,
                   decryption_policy |-> m.decryption_policy, added_at |-> m.added_at,
                   added_by |-> m.added_by]
  BY DEF Member

LEMMA MemberDelimits == Delimits(MemberCode)
<1>. DEFINE c2 == Both(IdCode, PermissionsCode)
            c3 == Both(c2, PolicyCode)
            c4 == Both(c3, OneCode)
<1>1. Delimits(c2)
  BY IdDelimits, PermissionsDelimit, BothDelimit
<1>2. Delimits(c3)
  <2>. HIDE DEF c2
  <2>. QED
    BY <1>1, PolicyDelimits, BothDelimit
<1>3. Delimits(c4)
  <2>. HIDE DEF c3
  <2>. QED
    BY <1>2, OneDelimits, BothDelimit
<1>4. Delimits(FieldsCode)
  <2>1. Delimits(Both(c4, IdCode))
    <3>. HIDE DEF c4
    <3>. QED
      BY <1>3, IdDelimits, BothDelimit
  <2>. QED
    BY <2>1 DEF FieldsCode
<1>5. ASSUME NEW m \in Member
      PROVE  MemberFields(m) \in DOMAIN FieldsCode /\ FieldsCode[MemberFields(m)] = MemberBytes(m)
  <2>1. PICK f, p, d, a, b : /\ f = m.fingerprint /\ p = m.permissions /\ d = m.decryption_policy
                             /\ a = m.added_at /\ b = m.added_by
    OBVIOUS
  <2>2. /\ f \in DOMAIN IdCode /\ p \in DOMAIN PermissionsCode /\ d \in DOMAIN PolicyCode
        /\ a \in DOMAIN OneCode /\ b \in DOMAIN IdCode
    BY <2>1, MemberParts DEF IdCode, PermissionsCode, PolicyCode, OneCode
  <2>3. /\ IdCode[f] = f /\ PermissionsCode[p] = write_permissions(p)
        /\ PolicyCode[d] = encode_decryption_policy(d) /\ OneCode[a] = <<a>> /\ IdCode[b] = b
    BY <2>1, MemberParts DEF IdCode, PermissionsCode, PolicyCode, OneCode
  <2>4. c2[<<f, p>>] = Then(IdCode[f], PermissionsCode[p]) /\ <<f, p>> \in DOMAIN c2
    BY <2>2, BothMakes
  <2>5. c3[<<<<f, p>>, d>>] = Then(c2[<<f, p>>], PolicyCode[d]) /\ <<<<f, p>>, d>> \in DOMAIN c3
    <3>. HIDE DEF c2
    <3>1. PICK x : x = <<f, p>>
      OBVIOUS
    <3>2. c3[<<x, d>>] = Then(c2[x], PolicyCode[d]) /\ <<x, d>> \in DOMAIN c3
      BY <2>2, <2>4, <3>1, BothMakes
    <3>. QED
      BY <3>1, <3>2
  <2>6. PICK y : y = <<<<f, p>>, d>>
    OBVIOUS
  <2>7. c4[<<y, a>>] = Then(c3[y], OneCode[a]) /\ <<y, a>> \in DOMAIN c4
    <3>. HIDE DEF c3
    <3>. QED
      BY <2>2, <2>5, <2>6, BothMakes
  <2>8. PICK z : z = <<y, a>>
    OBVIOUS
  <2>9. FieldsCode[<<z, b>>] = Then(c4[z], IdCode[b]) /\ <<z, b>> \in DOMAIN FieldsCode
    <3>1. FieldsCode = Both(c4, IdCode)
      BY DEF FieldsCode
    <3>. HIDE DEF c4
    <3>. QED
      BY <2>2, <2>7, <2>8, <3>1, BothMakes
  <2>10. MemberFields(m) = <<z, b>>
    BY <2>1, <2>6, <2>8 DEF MemberFields
  <2>11. FieldsCode[<<z, b>>] =
           Then(Then(Then(Then(f, write_permissions(p)), encode_decryption_policy(d)), <<a>>), b)
    <3>. HIDE DEF c2, c3, c4
    <3>. QED
      BY <2>3, <2>4, <2>5, <2>6, <2>7, <2>8, <2>9
  <2>12. MemberBytes(m) =
           Then(Then(Then(Then(f, write_permissions(p)), encode_decryption_policy(d)), <<a>>), b)
    BY <2>1, Zenon DEF MemberBytes, Then
  <2>. QED
    BY <2>9, <2>10, <2>11, <2>12
<1>6. DOMAIN MemberCode = Member /\ \A m \in Member : MemberCode[m] = MemberBytes(m)
  BY DEF MemberCode
<1>7. \A m \in Member : MemberBytes(m) \in Octets
  <2>. TAKE m \in Member
  <2>1. PICK z : z = MemberFields(m)
    OBVIOUS
  <2>. QED
    BY <1>4, <1>5, <2>1 DEF Delimits
<1>8. ASSUME NEW m \in Member, NEW n \in Member, NEW s \in Octets, NEW t \in Octets,
             Then(MemberBytes(m), s) = Then(MemberBytes(n), t)
      PROVE  m = n /\ s = t
  <2>1. PICK x, y : x = MemberFields(m) /\ y = MemberFields(n)
    OBVIOUS
  <2>2. x \in DOMAIN FieldsCode /\ y \in DOMAIN FieldsCode /\ Then(FieldsCode[x], s) = Then(FieldsCode[y], t)
    BY <1>5, <1>8, <2>1
  <2>3. x = y /\ s = t
    BY ONLY <1>4, <2>2, s \in Octets, t \in Octets DEF Delimits
  <2>4. MemberFields(m) = MemberFields(n)
    BY <2>1, <2>3
  <2>5. /\ m.fingerprint = n.fingerprint /\ m.permissions = n.permissions
        /\ m.decryption_policy = n.decryption_policy /\ m.added_at = n.added_at
        /\ m.added_by = n.added_by
    BY ONLY <2>4 DEF MemberFields
  <2>. QED
    BY <2>3, <2>5, MemberParts
<1>. QED
  BY <1>6, <1>7, <1>8 DEF Delimits

(* A document is its fields.                                               *)
LEMMA DocParts ==
    ASSUME NEW d \in KeyspaceDoc
    PROVE  /\ d.id \in Ids /\ d.version \in Nat /\ d.parent \in Optional(Ids)
           /\ d.mode \in RotationMode /\ d.name \in Octets /\ d.root_pk \in Octets
           /\ d.epoch_pre_pk \in Ids /\ d.epoch \in Nat /\ d.members \in Seq(Member)
           /\ d.quorum \in Nat /\ d.signatures \in Seq(Octets) /\ d.created_at \in Nat
           /\ d = [id |-> d.id, version |-> d.version, parent |-> d.parent, mode |-> d.mode,
                   name |-> d.name, root_pk |-> d.root_pk, epoch_pre_pk |-> d.epoch_pre_pk,
                   epoch |-> d.epoch, members |-> d.members, quorum |-> d.quorum,
                   signatures |-> d.signatures, created_at |-> d.created_at]
  BY DEF KeyspaceDoc

(* The fields up to the number of members.                                 *)
HeaderCode ==
    Both(Both(Both(Both(Both(Both(Both(IdCode, OneCode), OptionCode), ModeCode), PrefixedCode),
                   PrefixedCode), IdCode), TwoCode)
Header(d) ==
    <<<<<<<<<<<<<<d.id, d.version>>, d.parent>>, d.mode>>, d.name>>, d.root_pk>>,
      d.epoch_pre_pk>>, <<d.epoch, Len(d.members)>>>>
HeaderBytes(d) ==
    Then(Then(Then(Then(Then(Then(Then(d.id, <<d.version>>), OptionBytes(d.parent)),
        encode_rotation_mode(d.mode)), write_len_prefixed(d.name)),
        write_len_prefixed(d.root_pk)), d.epoch_pre_pk), <<d.epoch, Len(d.members)>>)

LEMMA HeaderDelimits ==
    /\ Delimits(HeaderCode)
    /\ \A d \in KeyspaceDoc : Header(d) \in DOMAIN HeaderCode /\ HeaderCode[Header(d)] = HeaderBytes(d)
<1>. DEFINE c2 == Both(IdCode, OneCode)
            c3 == Both(c2, OptionCode)
            c4 == Both(c3, ModeCode)
            c5 == Both(c4, PrefixedCode)
            c6 == Both(c5, PrefixedCode)
            c7 == Both(c6, IdCode)
            c8 == Both(c7, TwoCode)
<1>1. Delimits(c2)
  BY IdDelimits, OneDelimits, BothDelimit
<1>2. Delimits(c3)
  <2>. HIDE DEF c2
  <2>. QED
    BY <1>1, OptionDelimits, BothDelimit
<1>3. Delimits(c4)
  <2>. HIDE DEF c3
  <2>. QED
    BY <1>2, ModeDelimits, BothDelimit
<1>4. Delimits(c5)
  <2>. HIDE DEF c4
  <2>. QED
    BY <1>3, PrefixedDelimits, BothDelimit
<1>5. Delimits(c6)
  <2>. HIDE DEF c5
  <2>. QED
    BY <1>4, PrefixedDelimits, BothDelimit
<1>6. Delimits(c7)
  <2>. HIDE DEF c6
  <2>. QED
    BY <1>5, IdDelimits, BothDelimit
<1>7. Delimits(c8)
  <2>. HIDE DEF c7
  <2>. QED
    BY <1>6, TwoDelimits, BothDelimit
<1>8. c8 = HeaderCode
  BY DEF HeaderCode
<1>9. ASSUME NEW d \in KeyspaceDoc
      PROVE  Header(d) \in DOMAIN HeaderCode /\ HeaderCode[Header(d)] = HeaderBytes(d)
  <2>. DEFINE f1 == d.id
              f2 == <<f1, d.version>>
              f3 == <<f2, d.parent>>
              f4 == <<f3, d.mode>>
              f5 == <<f4, d.name>>
              f6 == <<f5, d.root_pk>>
              f7 == <<f6, d.epoch_pre_pk>>
              f8 == <<f7, <<d.epoch, Len(d.members)>>>>
              b1 == d.id
              b2 == Then(b1, <<d.version>>)
              b3 == Then(b2, OptionBytes(d.parent))
              b4 == Then(b3, encode_rotation_mode(d.mode))
              b5 == Then(b4, write_len_prefixed(d.name))
              b6 == Then(b5, write_len_prefixed(d.root_pk))
              b7 == Then(b6, d.epoch_pre_pk)
              b8 == Then(b7, <<d.epoch, Len(d.members)>>)
  <2>1. Len(d.members) \in Nat
    BY DocParts
  <2>2. d.id \in DOMAIN IdCode /\ IdCode[d.id] = d.id
    BY <2>1, DocParts DEF IdCode
  <2>3. d.version \in DOMAIN OneCode /\ OneCode[d.version] = <<d.version>>
    BY <2>1, DocParts DEF OneCode
  <2>4. d.parent \in DOMAIN OptionCode /\ OptionCode[d.parent] = OptionBytes(d.parent)
    BY <2>1, DocParts DEF OptionCode
  <2>5. d.mode \in DOMAIN ModeCode /\ ModeCode[d.mode] = encode_rotation_mode(d.mode)
    BY <2>1, DocParts DEF ModeCode
  <2>6. d.name \in DOMAIN PrefixedCode /\ PrefixedCode[d.name] = write_len_prefixed(d.name)
    BY <2>1, DocParts DEF PrefixedCode
  <2>7. d.root_pk \in DOMAIN PrefixedCode /\ PrefixedCode[d.root_pk] = write_len_prefixed(d.root_pk)
    BY <2>1, DocParts DEF PrefixedCode
  <2>8. d.epoch_pre_pk \in DOMAIN IdCode /\ IdCode[d.epoch_pre_pk] = d.epoch_pre_pk
    BY <2>1, DocParts DEF IdCode
  <2>9. <<d.epoch, Len(d.members)>> \in DOMAIN TwoCode /\ TwoCode[<<d.epoch, Len(d.members)>>] = <<d.epoch, Len(d.members)>>
    BY <2>1, DocParts DEF TwoCode
  <2>10. f1 \in DOMAIN IdCode /\ b1 = IdCode[f1]
    BY <2>2
  <2>11. f2 \in DOMAIN c2 /\ b2 = c2[f2]
    <3>. HIDE DEF f1, b1
    <3>1. PICK y : y = d.version
      OBVIOUS
    <3>2. y \in DOMAIN OneCode /\ OneCode[y] = <<d.version>>
      BY <2>3, <3>1
    <3>3. <<f1, y>> \in DOMAIN Both(IdCode, OneCode) /\ Both(IdCode, OneCode)[<<f1, y>>] = Then(b1, OneCode[y])
      <4>1. <<f1, y>> \in DOMAIN Both(IdCode, OneCode)
            /\ Both(IdCode, OneCode)[<<f1, y>>] = Then(IdCode[f1], OneCode[y])
        BY <2>10, <3>2, BothMakes
      <4>. QED
        BY <2>10, <4>1
    <3>. QED
      BY <3>1, <3>2, <3>3
  <2>12. f3 \in DOMAIN c3 /\ b3 = c3[f3]
    <3>. HIDE DEF c2, f2, b2
    <3>1. PICK y : y = d.parent
      OBVIOUS
    <3>2. y \in DOMAIN OptionCode /\ OptionCode[y] = OptionBytes(d.parent)
      BY <2>4, <3>1
    <3>3. <<f2, y>> \in DOMAIN Both(c2, OptionCode) /\ Both(c2, OptionCode)[<<f2, y>>] = Then(b2, OptionCode[y])
      <4>1. <<f2, y>> \in DOMAIN Both(c2, OptionCode)
            /\ Both(c2, OptionCode)[<<f2, y>>] = Then(c2[f2], OptionCode[y])
        BY <2>11, <3>2, BothMakes
      <4>. QED
        BY <2>11, <4>1
    <3>. QED
      BY <3>1, <3>2, <3>3
  <2>13. f4 \in DOMAIN c4 /\ b4 = c4[f4]
    <3>. HIDE DEF c3, f3, b3
    <3>1. PICK y : y = d.mode
      OBVIOUS
    <3>2. y \in DOMAIN ModeCode /\ ModeCode[y] = encode_rotation_mode(d.mode)
      BY <2>5, <3>1
    <3>3. <<f3, y>> \in DOMAIN Both(c3, ModeCode) /\ Both(c3, ModeCode)[<<f3, y>>] = Then(b3, ModeCode[y])
      <4>1. <<f3, y>> \in DOMAIN Both(c3, ModeCode)
            /\ Both(c3, ModeCode)[<<f3, y>>] = Then(c3[f3], ModeCode[y])
        BY <2>12, <3>2, BothMakes
      <4>. QED
        BY <2>12, <4>1
    <3>. QED
      BY <3>1, <3>2, <3>3
  <2>14. f5 \in DOMAIN c5 /\ b5 = c5[f5]
    <3>. HIDE DEF c4, f4, b4
    <3>1. PICK y : y = d.name
      OBVIOUS
    <3>2. y \in DOMAIN PrefixedCode /\ PrefixedCode[y] = write_len_prefixed(d.name)
      BY <2>6, <3>1
    <3>3. <<f4, y>> \in DOMAIN Both(c4, PrefixedCode) /\ Both(c4, PrefixedCode)[<<f4, y>>] = Then(b4, PrefixedCode[y])
      <4>1. <<f4, y>> \in DOMAIN Both(c4, PrefixedCode)
            /\ Both(c4, PrefixedCode)[<<f4, y>>] = Then(c4[f4], PrefixedCode[y])
        BY <2>13, <3>2, BothMakes
      <4>. QED
        BY <2>13, <4>1
    <3>. QED
      BY <3>1, <3>2, <3>3
  <2>15. f6 \in DOMAIN c6 /\ b6 = c6[f6]
    <3>. HIDE DEF c5, f5, b5
    <3>1. PICK y : y = d.root_pk
      OBVIOUS
    <3>2. y \in DOMAIN PrefixedCode /\ PrefixedCode[y] = write_len_prefixed(d.root_pk)
      BY <2>7, <3>1
    <3>3. <<f5, y>> \in DOMAIN Both(c5, PrefixedCode) /\ Both(c5, PrefixedCode)[<<f5, y>>] = Then(b5, PrefixedCode[y])
      <4>1. <<f5, y>> \in DOMAIN Both(c5, PrefixedCode)
            /\ Both(c5, PrefixedCode)[<<f5, y>>] = Then(c5[f5], PrefixedCode[y])
        BY <2>14, <3>2, BothMakes
      <4>. QED
        BY <2>14, <4>1
    <3>. QED
      BY <3>1, <3>2, <3>3
  <2>16. f7 \in DOMAIN c7 /\ b7 = c7[f7]
    <3>. HIDE DEF c6, f6, b6
    <3>1. PICK y : y = d.epoch_pre_pk
      OBVIOUS
    <3>2. y \in DOMAIN IdCode /\ IdCode[y] = d.epoch_pre_pk
      BY <2>8, <3>1
    <3>3. <<f6, y>> \in DOMAIN Both(c6, IdCode) /\ Both(c6, IdCode)[<<f6, y>>] = Then(b6, IdCode[y])
      <4>1. <<f6, y>> \in DOMAIN Both(c6, IdCode)
            /\ Both(c6, IdCode)[<<f6, y>>] = Then(c6[f6], IdCode[y])
        BY <2>15, <3>2, BothMakes
      <4>. QED
        BY <2>15, <4>1
    <3>. QED
      BY <3>1, <3>2, <3>3
  <2>17. f8 \in DOMAIN c8 /\ b8 = c8[f8]
    <3>. HIDE DEF c7, f7, b7
    <3>1. PICK y : y = <<d.epoch, Len(d.members)>>
      OBVIOUS
    <3>2. y \in DOMAIN TwoCode /\ TwoCode[y] = <<d.epoch, Len(d.members)>>
      BY <2>9, <3>1
    <3>3. <<f7, y>> \in DOMAIN Both(c7, TwoCode) /\ Both(c7, TwoCode)[<<f7, y>>] = Then(b7, TwoCode[y])
      <4>1. <<f7, y>> \in DOMAIN Both(c7, TwoCode)
            /\ Both(c7, TwoCode)[<<f7, y>>] = Then(c7[f7], TwoCode[y])
        BY <2>16, <3>2, BothMakes
      <4>. QED
        BY <2>16, <4>1
    <3>. QED
      BY <3>1, <3>2, <3>3
  <2>18. Header(d) = f8 /\ HeaderBytes(d) = b8
    BY Zenon DEF Header, HeaderBytes
  <2>. HIDE DEF c8, f8, b8
  <2>. QED
    BY <1>8, <2>17, <2>18
<1>. HIDE DEF c8
<1>. QED
  BY <1>7, <1>8, <1>9

SignaturesOf(d) == [i \in DOMAIN d.signatures |-> write_len_prefixed(d.signatures[i])]
MembersOf(d) == [i \in DOMAIN d.members |-> MemberBytes(d.members[i])]

(* No two documents are encoded alike.                                     *)
LEMMA HashesTell ==
    ASSUME NEW d \in KeyspaceDoc, NEW e \in KeyspaceDoc, doc_hash(d) = doc_hash(e)
    PROVE  d = e
<1>. DEFINE H(x) == HeaderBytes(x)
            M(x) == FlattenSeq(Each(MemberCode, x.members))
            Q(x) == <<x.quorum, Len(x.signatures)>>
            S(x) == FlattenSeq(Each(PrefixedCode, x.signatures))
            C(x) == <<x.created_at>>
<1>1. DOMAIN MemberCode = Member /\ \A m \in Member : MemberCode[m] = MemberBytes(m)
  BY DEF MemberCode
<1>2. DOMAIN PrefixedCode = Octets /\ \A b \in Octets : PrefixedCode[b] = write_len_prefixed(b)
  BY DEF PrefixedCode
<1>3. ASSUME NEW x \in KeyspaceDoc
      PROVE  doc_hash(x) = Then(Then(Then(Then(H(x), M(x)), Q(x)), S(x)), C(x))
  <2>1. MembersOf(x) = Each(MemberCode, x.members)
    <3>1. DOMAIN x.members = 1..Len(x.members) /\ \A i \in 1..Len(x.members) : x.members[i] \in Member
      <4>1. PICK xs \in Seq(Member) : xs = x.members
        BY DocParts
      <4>2. DOMAIN xs = 1..Len(xs) /\ \A i \in 1..Len(xs) : xs[i] \in Member
        OBVIOUS
      <4>. QED
        BY <4>1, <4>2
    <3>2. \A i \in DOMAIN x.members : MemberBytes(x.members[i]) = MemberCode[x.members[i]]
      BY <1>1, <3>1
    <3>. QED
      BY <3>2, Zenon DEF MembersOf, Each
  <2>2. SignaturesOf(x) = Each(PrefixedCode, x.signatures)
    <3>1. /\ DOMAIN x.signatures = 1..Len(x.signatures)
          /\ \A i \in 1..Len(x.signatures) : x.signatures[i] \in Octets
      <4>1. PICK xs \in Seq(Octets) : xs = x.signatures
        BY DocParts
      <4>2. DOMAIN xs = 1..Len(xs) /\ \A i \in 1..Len(xs) : xs[i] \in Octets
        OBVIOUS
      <4>. QED
        BY <4>1, <4>2
    <3>2. \A i \in DOMAIN x.signatures : write_len_prefixed(x.signatures[i]) = PrefixedCode[x.signatures[i]]
      BY <1>2, <3>1
    <3>. QED
      BY <3>2, Zenon DEF SignaturesOf, Each
  <2>3. doc_hash(x) =
          Then(Then(Then(Then(HeaderBytes(x), FlattenSeq(MembersOf(x))), Q(x)),
                    FlattenSeq(SignaturesOf(x))), C(x))
    BY Zenon DEF doc_hash, HeaderBytes, MembersOf, SignaturesOf, Then
  <2>. QED
    BY <2>1, <2>2, <2>3
<1>4. ASSUME NEW x \in KeyspaceDoc
      PROVE  H(x) \in Octets /\ M(x) \in Octets /\ Q(x) \in Octets /\ S(x) \in Octets /\ C(x) \in Octets
  <2>1. H(x) \in Octets
    <3>1. PICK z : z = Header(x)
      OBVIOUS
    <3>. QED
      BY <3>1, HeaderDelimits DEF Delimits
  <2>2. M(x) \in Octets
    BY <1>1, DocParts, MemberDelimits, ListEncodes
  <2>3. S(x) \in Octets
    BY <1>2, DocParts, PrefixedDelimits, ListEncodes
  <2>4. Q(x) \in Octets
    <3>1. x.quorum \in Nat /\ Len(x.signatures) \in Nat
      BY DocParts
    <3>. QED
      BY <3>1 DEF Octets
  <2>5. C(x) \in Octets
    BY DocParts, ByteDelimits
  <2>. QED
    BY <2>1, <2>2, <2>3, <2>4, <2>5
<1>. HIDE DEF H, M, Q, S, C
(* Regrouped from the right, and told apart from the left.                 *)
<1>5. ASSUME NEW x \in KeyspaceDoc
      PROVE  /\ doc_hash(x) = Then(H(x), Then(M(x), Then(Q(x), Then(S(x), C(x)))))
             /\ Then(S(x), C(x)) \in Octets /\ Then(Q(x), Then(S(x), C(x))) \in Octets
             /\ Then(M(x), Then(Q(x), Then(S(x), C(x)))) \in Octets
  <2>1. PICK a, b, f, g, h : a = H(x) /\ b = M(x) /\ f = Q(x) /\ g = S(x) /\ h = C(x)
    OBVIOUS
  <2>2. a \in Octets /\ b \in Octets /\ f \in Octets /\ g \in Octets /\ h \in Octets
    BY <1>4, <2>1
  <2>3. Then(g, h) \in Octets
    BY ONLY <2>2, Closed
  <2>4. Then(f, Then(g, h)) \in Octets
    BY ONLY <2>2, <2>3, Closed
  <2>5. Then(b, Then(f, Then(g, h))) \in Octets
    BY ONLY <2>2, <2>4, Closed
  <2>6. Then(a, b) \in Octets
    BY ONLY <2>2, Closed
  <2>7. Then(Then(Then(Then(a, b), f), g), h) = Then(Then(a, b), Then(f, Then(g, h)))
    BY ONLY <2>2, <2>6, Shift
  <2>8. Then(Then(a, b), Then(f, Then(g, h))) = Then(a, Then(b, Then(f, Then(g, h))))
    BY ONLY <2>2, <2>4, Regroup
  <2>. QED
    BY <1>3, <2>1, <2>3, <2>4, <2>5, <2>7, <2>8
<1>6. /\ Header(d) = Header(e)
      /\ Then(M(d), Then(Q(d), Then(S(d), C(d)))) = Then(M(e), Then(Q(e), Then(S(e), C(e))))
  <2>1. PICK a, b : a = Then(M(d), Then(Q(d), Then(S(d), C(d))))
                    /\ b = Then(M(e), Then(Q(e), Then(S(e), C(e))))
    OBVIOUS
  <2>2. a \in Octets /\ b \in Octets
    BY <1>5, <2>1
  <2>3. PICK x, y : x = Header(d) /\ y = Header(e)
    OBVIOUS
  <2>4. /\ x \in DOMAIN HeaderCode /\ y \in DOMAIN HeaderCode
        /\ Then(HeaderCode[x], a) = Then(HeaderCode[y], b)
    BY <1>5, <2>1, <2>3, HeaderDelimits DEF H
  <2>5. x = y /\ a = b
    BY ONLY <2>2, <2>4, HeaderDelimits DEF Delimits
  <2>. QED
    BY <2>1, <2>3, <2>5
<1>7. /\ d.id = e.id /\ d.version = e.version /\ d.parent = e.parent /\ d.mode = e.mode
      /\ d.name = e.name /\ d.root_pk = e.root_pk /\ d.epoch_pre_pk = e.epoch_pre_pk
      /\ d.epoch = e.epoch /\ Len(d.members) = Len(e.members)
  BY ONLY <1>6 DEF Header
<1>8. d.members = e.members /\ Then(Q(d), Then(S(d), C(d))) = Then(Q(e), Then(S(e), C(e)))
  <2>1. PICK a, b : a = Then(Q(d), Then(S(d), C(d))) /\ b = Then(Q(e), Then(S(e), C(e)))
    OBVIOUS
  <2>2. a \in Octets /\ b \in Octets
    BY <1>5, <2>1
  <2>3. PICK x, y : x = d.members /\ y = e.members
    OBVIOUS
  <2>4. x \in Seq(DOMAIN MemberCode) /\ y \in Seq(DOMAIN MemberCode) /\ Len(x) = Len(y)
    BY <1>1, <1>7, <2>3, DocParts
  <2>5. Then(FlattenSeq(Each(MemberCode, x)), a) = Then(FlattenSeq(Each(MemberCode, y)), b)
    BY <1>6, <2>1, <2>3 DEF M
  <2>6. x = y /\ a = b
    BY ONLY <2>2, <2>4, <2>5, MemberDelimits, ListDelimits
  <2>. QED
    BY <2>1, <2>3, <2>6
<1>9. /\ d.quorum = e.quorum /\ Len(d.signatures) = Len(e.signatures)
      /\ Then(S(d), C(d)) = Then(S(e), C(e))
  <2>1. PICK a, b : a = Then(S(d), C(d)) /\ b = Then(S(e), C(e))
    OBVIOUS
  <2>2. a \in Octets /\ b \in Octets
    BY <1>5, <2>1
  <2>3. PICK x, y : x = Q(d) /\ y = Q(e)
    OBVIOUS
  <2>4. x \in Octets /\ y \in Octets
    BY <1>4, <2>3
  <2>5. Len(x) = Len(y)
    BY <2>3 DEF Q
  <2>6. x = y /\ a = b
    BY ONLY <1>8, <2>1, <2>2, <2>3, <2>4, <2>5, Begins
  <2>7. Q(d) = Q(e)
    BY <2>3, <2>6
  <2>. QED
    BY <2>1, <2>6, <2>7 DEF Q
<1>10. d.signatures = e.signatures /\ C(d) = C(e)
  <2>1. PICK a, b : a = C(d) /\ b = C(e)
    OBVIOUS
  <2>2. a \in Octets /\ b \in Octets
    BY <1>4, <2>1
  <2>3. PICK x, y : x = d.signatures /\ y = e.signatures
    OBVIOUS
  <2>4. x \in Seq(DOMAIN PrefixedCode) /\ y \in Seq(DOMAIN PrefixedCode) /\ Len(x) = Len(y)
    BY <1>2, <1>9, <2>3, DocParts
  <2>5. Then(FlattenSeq(Each(PrefixedCode, x)), a) = Then(FlattenSeq(Each(PrefixedCode, y)), b)
    BY <1>9, <2>1, <2>3 DEF S
  <2>6. x = y /\ a = b
    BY ONLY <2>2, <2>4, <2>5, PrefixedDelimits, ListDelimits
  <2>. QED
    BY <2>1, <2>3, <2>6
<1>11. d.created_at = e.created_at
  BY <1>10 DEF C
<1>. QED
  BY <1>7, <1>8, <1>9, <1>10, <1>11, DocParts

-----------------------------------------------------------------------------
(* Permissions, written and parsed.                                        *)
LEMMA TagsParse ==
    ASSUME NEW perms \in SUBSET Permissions
    PROVE  /\ ParsePermissions(Sorted(perms)) = perms /\ KnownPermissions(Sorted(perms))
           /\ ToSet(Sorted(perms)) = perms
<1>1. Permissions = {"read", "write", "delegate", "admin", "sign_rotation"}
  <2>1. DOMAIN PermissionOrder = 1..5
    BY DEF PermissionOrder
  <2>2. /\ PermissionOrder[1] = "read" /\ PermissionOrder[2] = "write"
        /\ PermissionOrder[3] = "delegate" /\ PermissionOrder[4] = "admin"
        /\ PermissionOrder[5] = "sign_rotation"
    BY DEF PermissionOrder
  <2>. QED
    BY <2>1, <2>2 DEF Permissions, ToSet
<1>2. \A tag \in Permissions : Lowered(tag) = tag
  BY <1>1 DEF Lowered
<1>3. PICK tags : tags = Sorted(perms)
  OBVIOUS
<1>4. tags \in Seq(Permissions) /\ ToSet(tags) = perms
  BY <1>3, SortedTags
<1>5. \A i \in DOMAIN tags : tags[i] \in Permissions
  BY <1>4
<1>6. {Lowered(tags[i]) : i \in DOMAIN tags} = ToSet(tags)
  BY <1>2, <1>5 DEF ToSet
<1>7. ParsePermissions(tags) = perms
  BY <1>4, <1>6 DEF ParsePermissions
<1>8. KnownPermissions(tags)
  BY <1>2, <1>5 DEF KnownPermissions
<1>. QED
  BY <1>3, <1>4, <1>7, <1>8

(* Members, and documents, that the routes can express.                    *)
MemberToldWhole(m) == m.decryption_policy = Standalone
(* Documents that the routes can express.                                  *)
ToldWhole(d) ==
    /\ d.mode.kind \in {"create", "additive", "hygiene", "tombstone"}
    /\ \A i \in 1..Len(d.members) : MemberToldWhole(d.members[i])

(* A member parsed from its JSON, if its policy is standalone, is that     *)
(* member; otherwise it is refused.                                        *)
LEMMA MemberComesBack ==
    ASSUME NEW m \in Member
    PROVE  /\ MemberReads(FromMember(m)) <=> MemberToldWhole(m)
           /\ MemberToldWhole(m) => ToMember(FromMember(m)) = m
<1>1. PICK f, p, d, a, b : /\ f = m.fingerprint /\ p = m.permissions /\ d = m.decryption_policy
                           /\ a = m.added_at /\ b = m.added_by
  OBVIOUS
<1>2. /\ f \in Ids /\ p \in SUBSET Permissions /\ d \in DecryptionPolicy /\ b \in Ids
      /\ m = [fingerprint |-> f, permissions |-> p, decryption_policy |-> d, added_at |-> a,
              added_by |-> b]
  BY <1>1, MemberParts
<1>3. FromMember(m) = [fingerprint |-> f, permissions |-> Sorted(p), decryption_policy |-> d.kind,
                       added_at |-> a, added_by |-> b]
  <2>1. PICK r : r = FromMember(m)
    OBVIOUS
  <2>2. DOMAIN m = {"fingerprint", "permissions", "decryption_policy", "added_at", "added_by"}
    BY <1>2
  <2>3. DOMAIN r = DOMAIN m /\ r = [n \in DOMAIN r |-> r[n]]
    BY <2>1, <2>2 DEF FromMember
  <2>4. /\ r.fingerprint = f /\ r.permissions = Sorted(p) /\ r.decryption_policy = d.kind
        /\ r.added_at = a /\ r.added_by = b
    BY <1>2, <2>1, <2>2 DEF FromMember
  <2>. QED
    BY <2>1, <2>2, <2>3, <2>4
<1>4. WellFormed(f) /\ WellFormed(b) /\ KnownPermissions(Sorted(p)) /\ ParsePermissions(Sorted(p)) = p
  BY <1>2, TagsParse DEF Ids
<1>5. (string_to_decryption_policy(d.kind) # <<>>) <=> d = Standalone
  <2>1. d = Standalone => d.kind = "standalone"
    BY DEF Standalone
  <2>2. d # Standalone => d.kind = "threshold"
    BY <1>2 DEF DecryptionPolicy
  <2>. QED
    BY <2>1, <2>2 DEF string_to_decryption_policy
<1>6. MemberReads(FromMember(m)) <=> MemberToldWhole(m)
  BY <1>1, <1>3, <1>4, <1>5 DEF MemberReads, MemberToldWhole
<1>7. ASSUME MemberToldWhole(m) PROVE ToMember(FromMember(m)) = m
  <2>1. d = Standalone
    BY <1>1, <1>7 DEF MemberToldWhole
  <2>2. ToMember(FromMember(m)) =
          [fingerprint |-> f, permissions |-> ParsePermissions(Sorted(p)),
           decryption_policy |-> Standalone, added_at |-> a, added_by |-> b]
    <3>1. PICK j, r : j = FromMember(m) /\ r = ToMember(j)
      OBVIOUS
    <3>2. DOMAIN j = {"fingerprint", "permissions", "decryption_policy", "added_at", "added_by"}
      BY <1>3, <3>1
    <3>3. DOMAIN r = DOMAIN j /\ r = [n \in DOMAIN r |-> r[n]]
      BY <3>1, <3>2 DEF ToMember
    <3>4. /\ r.fingerprint = f /\ r.permissions = ParsePermissions(Sorted(p))
          /\ r.decryption_policy = Standalone /\ r.added_at = a /\ r.added_by = b
      BY <1>3, <3>1, <3>2 DEF ToMember
    <3>. QED
      BY <3>1, <3>2, <3>3, <3>4
  <2>. QED
    BY <1>2, <1>4, <2>1, <2>2
<1>. QED
  BY <1>6, <1>7

(* A member that parses is one the routes can express.                     *)
LEMMA MemberParsed ==
    ASSUME NEW m \in MemberJson, MemberReads(m)
    PROVE  ToMember(m) \in Member /\ MemberToldWhole(ToMember(m))
<1>1. ToMember(m) = [fingerprint |-> m.fingerprint, permissions |-> ParsePermissions(m.permissions),
                     decryption_policy |-> Standalone, added_at |-> m.added_at,
                     added_by |-> m.added_by]
  <2>1. PICK r : r = ToMember(m)
    OBVIOUS
  <2>2. DOMAIN m = {"fingerprint", "permissions", "decryption_policy", "added_at", "added_by"}
    BY DEF MemberJson
  <2>3. DOMAIN r = DOMAIN m /\ r = [n \in DOMAIN r |-> r[n]]
    BY <2>1, <2>2 DEF ToMember
  <2>4. /\ r.fingerprint = m.fingerprint /\ r.permissions = ParsePermissions(m.permissions)
        /\ r.decryption_policy = Standalone /\ r.added_at = m.added_at
        /\ r.added_by = m.added_by
    BY <2>1, <2>2 DEF ToMember
  <2>. QED
    BY <2>1, <2>2, <2>3, <2>4
<1>2. m.fingerprint \in Ids /\ m.added_by \in Ids /\ m.added_at \in Nat
  BY DEF MemberJson, MemberReads, Ids
<1>3. ParsePermissions(m.permissions) \in SUBSET Permissions
  BY DEF ParsePermissions
<1>4. Standalone \in DecryptionPolicy
  BY DEF DecryptionPolicy
<1>. QED
  BY <1>1, <1>2, <1>3, <1>4 DEF Member, MemberToldWhole

-----------------------------------------------------------------------------
Reads(j) ==
    /\ \A text \in {j.id, j.epoch_pre_pk} \union ToSet(j.parent) : WellFormed(text)
    /\ string_to_mode(j.mode) # <<>>
    /\ \A text \in {j.root_pk} \union ToSet(j.signatures) : IsTagged(text)
    /\ \A m \in ToSet(j.members) : MemberReads(m)

Parsed(j) ==
    [id |-> j.id, version |-> j.version, parent |-> j.parent, mode |-> string_to_mode(j.mode)[1],
     name |-> j.name, root_pk |-> j.root_pk.bytes, epoch_pre_pk |-> j.epoch_pre_pk,
     epoch |-> j.epoch, members |-> [i \in DOMAIN j.members |-> ToMember(j.members[i])],
     quorum |-> j.quorum, signatures |-> [i \in DOMAIN j.signatures |-> j.signatures[i].bytes],
     created_at |-> j.created_at]

Shown(d) ==
    [id |-> d.id, version |-> d.version, parent |-> d.parent, mode |-> d.mode.kind,
     name |-> d.name, root_pk |-> Tagged(d.root_pk), epoch_pre_pk |-> d.epoch_pre_pk,
     epoch |-> d.epoch, members |-> [i \in DOMAIN d.members |-> FromMember(d.members[i])],
     quorum |-> d.quorum, signatures |-> [i \in DOMAIN d.signatures |-> Tagged(d.signatures[i])],
     created_at |-> d.created_at]

FieldNames == {"id", "version", "parent", "mode", "name", "root_pk", "epoch_pre_pk", "epoch",
               "members", "quorum", "signatures", "created_at"}

(* What json_to_doc does, field by field.                                  *)
LEMMA ParseIs ==
    ASSUME NEW j, j = [n \in FieldNames |-> j[n]]
    PROVE  json_to_doc(j) = IF Reads(j) THEN <<Parsed(j)>> ELSE <<>>
<1>1. [j EXCEPT !.mode = string_to_mode(@)[1],
                !.root_pk = @.bytes,
                !.members = [i \in DOMAIN @ |-> ToMember(@[i])],
                !.signatures = [i \in DOMAIN @ |-> @[i].bytes]] = Parsed(j)
  <2>1. PICK r : r = [j EXCEPT !.mode = string_to_mode(@)[1],
                               !.root_pk = @.bytes,
                               !.members = [i \in DOMAIN @ |-> ToMember(@[i])],
                               !.signatures = [i \in DOMAIN @ |-> @[i].bytes]]
    OBVIOUS
  <2>2. DOMAIN j = FieldNames
    BY Zenon
  <2>3. DOMAIN r = FieldNames /\ r = [n \in FieldNames |-> r[n]]
    BY <2>1, <2>2
  <2>4. /\ r.mode = string_to_mode(j.mode)[1] /\ r.root_pk = j.root_pk.bytes
        /\ r.members = [i \in DOMAIN j.members |-> ToMember(j.members[i])]
        /\ r.signatures = [i \in DOMAIN j.signatures |-> j.signatures[i].bytes]
    BY <2>1, <2>2 DEF FieldNames
  <2>5. /\ r.id = j.id /\ r.version = j.version /\ r.parent = j.parent /\ r.name = j.name
        /\ r.epoch_pre_pk = j.epoch_pre_pk /\ r.epoch = j.epoch /\ r.quorum = j.quorum
        /\ r.created_at = j.created_at
    BY <2>1, <2>2 DEF FieldNames
  <2>6. PICK k, l, ms, ts :
          /\ k = string_to_mode(j.mode)[1] /\ l = j.root_pk.bytes
          /\ ms = [i \in DOMAIN j.members |-> ToMember(j.members[i])]
          /\ ts = [i \in DOMAIN j.signatures |-> j.signatures[i].bytes]
    OBVIOUS
  <2>7. Parsed(j) = [id |-> j.id, version |-> j.version, parent |-> j.parent, mode |-> k,
                     name |-> j.name, root_pk |-> l, epoch_pre_pk |-> j.epoch_pre_pk,
                     epoch |-> j.epoch, members |-> ms, quorum |-> j.quorum,
                     signatures |-> ts, created_at |-> j.created_at]
    BY <2>6, Zenon DEF Parsed
  <2>8. r.mode = k /\ r.root_pk = l /\ r.members = ms /\ r.signatures = ts
    BY <2>4, <2>6
  <2>9. r = Parsed(j)
    BY ONLY <2>3, <2>5, <2>7, <2>8 DEF FieldNames
  <2>. QED
    BY <2>1, <2>9
<1>. QED
  BY <1>1, Zenon DEF json_to_doc, Reads

(* What doc_to_json does, field by field.                                  *)
LEMMA ShownIs ==
    ASSUME NEW d \in KeyspaceDoc
    PROVE  doc_to_json(d) = Shown(d) /\ Shown(d) = [n \in FieldNames |-> Shown(d)[n]]
<1>1. d = [id |-> d.id, version |-> d.version, parent |-> d.parent, mode |-> d.mode,
           name |-> d.name, root_pk |-> d.root_pk, epoch_pre_pk |-> d.epoch_pre_pk,
           epoch |-> d.epoch, members |-> d.members, quorum |-> d.quorum,
           signatures |-> d.signatures, created_at |-> d.created_at]
  BY DocParts
<1>2. doc_to_json(d) = Shown(d)
  <2>1. PICK r : r = doc_to_json(d)
    OBVIOUS
  <2>2. DOMAIN d = FieldNames
    BY <1>1 DEF FieldNames
  <2>3. DOMAIN r = FieldNames /\ r = [n \in FieldNames |-> r[n]]
    BY <2>1, <2>2 DEF doc_to_json
  <2>4. /\ r.mode = d.mode.kind /\ r.root_pk = Tagged(d.root_pk)
        /\ r.members = [i \in DOMAIN d.members |-> FromMember(d.members[i])]
        /\ r.signatures = [i \in DOMAIN d.signatures |-> Tagged(d.signatures[i])]
    BY <2>1, <2>2 DEF doc_to_json, FieldNames
  <2>5. /\ r.id = d.id /\ r.version = d.version /\ r.parent = d.parent /\ r.name = d.name
        /\ r.epoch_pre_pk = d.epoch_pre_pk /\ r.epoch = d.epoch /\ r.quorum = d.quorum
        /\ r.created_at = d.created_at
    BY <2>1, <2>2 DEF doc_to_json, FieldNames
  <2>. QED
    BY <2>1, <2>3, <2>4, <2>5 DEF FieldNames, Shown
<1>3. Shown(d) = [n \in FieldNames |-> Shown(d)[n]]
  BY DEF Shown, FieldNames
<1>. QED
  BY <1>2, <1>3

(* An Option whose elements are in a set is an Option of that set.         *)
LEMMA OptionOf ==
    ASSUME NEW S, NEW o \in Optional(S), NEW T, \A x \in ToSet(o) : x \in T
    PROVE  o \in Optional(T)
<1>1. o \in Seq(S) /\ Len(o) <= 1
  BY DEF Optional
<1>2. o \in Seq(T)
  BY <1>1 DEF ToSet
<1>. QED
  BY <1>1, <1>2 DEF Optional

(* The elements of an Option of a set are in that set.                     *)
LEMMA OptionElements ==
    ASSUME NEW S, NEW o \in Optional(S)
    PROVE  \A x \in ToSet(o) : x \in S
<1>1. o \in Seq(S)
  BY DEF Optional
<1>. QED
  BY <1>1 DEF ToSet

(* A document parsed from its JSON is that document, or is refused if the  *)
(* routes cannot express it.                                               *)
LEMMA DocComesBack ==
    ASSUME NEW d \in KeyspaceDoc
    PROVE  json_to_doc(doc_to_json(d)) = IF ToldWhole(d) THEN <<d>> ELSE <<>>
<1>1. json_to_doc(doc_to_json(d)) = IF Reads(Shown(d)) THEN <<Parsed(Shown(d))>> ELSE <<>>
  <2>1. PICK j : j = Shown(d)
    OBVIOUS
  <2>2. doc_to_json(d) = j /\ j = [n \in FieldNames |-> j[n]]
    BY <2>1, ShownIs
  <2>. QED
    BY <2>1, <2>2, ParseIs
<1>2. PICK ms \in Seq(Member) : ms = d.members
  BY DocParts
<1>3. PICK ss \in Seq(Octets) : ss = d.signatures
  BY DocParts
<1>4. DOMAIN ms = 1..Len(ms) /\ ms = [i \in 1..Len(ms) |-> ms[i]] /\ \A i \in 1..Len(ms) : ms[i] \in Member
  OBVIOUS
<1>5. DOMAIN ss = 1..Len(ss) /\ ss = [i \in 1..Len(ss) |-> ss[i]] /\ \A i \in 1..Len(ss) : ss[i] \in Octets
  OBVIOUS
<1>6. PICK fs : fs = [i \in DOMAIN ms |-> FromMember(ms[i])]
  OBVIOUS
<1>7. PICK ts : ts = [i \in DOMAIN ss |-> Tagged(ss[i])]
  OBVIOUS
<1>8. DOMAIN fs = 1..Len(ms) /\ \A i \in 1..Len(ms) : fs[i] = FromMember(ms[i])
  BY <1>4, <1>6
<1>9. DOMAIN ts = 1..Len(ss) /\ \A i \in 1..Len(ss) : ts[i] = Tagged(ss[i])
  BY <1>5, <1>7
<1>10. /\ Shown(d).id = d.id /\ Shown(d).version = d.version /\ Shown(d).parent = d.parent
       /\ Shown(d).mode = d.mode.kind /\ Shown(d).name = d.name
       /\ Shown(d).root_pk = Tagged(d.root_pk) /\ Shown(d).epoch_pre_pk = d.epoch_pre_pk
       /\ Shown(d).epoch = d.epoch /\ Shown(d).members = fs /\ Shown(d).quorum = d.quorum
       /\ Shown(d).signatures = ts /\ Shown(d).created_at = d.created_at
  BY <1>2, <1>3, <1>6, <1>7 DEF Shown
<1>11. (\A m \in ToSet(fs) : MemberReads(m)) <=> \A i \in 1..Len(ms) : MemberToldWhole(ms[i])
  <2>1. (\A m \in ToSet(fs) : MemberReads(m)) <=> \A i \in 1..Len(ms) : MemberReads(FromMember(ms[i]))
    BY <1>8 DEF ToSet
  <2>2. \A i \in 1..Len(ms) : MemberReads(FromMember(ms[i])) <=> MemberToldWhole(ms[i])
    BY <1>4, MemberComesBack
  <2>. QED
    BY <2>1, <2>2
<1>12. \A text \in {d.id, d.epoch_pre_pk} \union ToSet(d.parent) : WellFormed(text)
  <2>1. \A x \in ToSet(d.parent) : x \in Ids
    BY DocParts, OptionElements
  <2>2. d.id \in Ids /\ d.epoch_pre_pk \in Ids
    BY DocParts
  <2>. QED
    BY <2>1, <2>2 DEF Ids
<1>13. \A text \in {Tagged(d.root_pk)} \union ToSet(ts) : IsTagged(text)
  BY <1>9 DEF ToSet, IsTagged, Tagged
<1>14. (string_to_mode(d.mode.kind) # <<>>)
         <=> d.mode.kind \in {"create", "additive", "hygiene", "tombstone"}
  BY DEF string_to_mode
<1>15. Reads(Shown(d)) <=> ToldWhole(d)
  BY <1>2, <1>10, <1>11, <1>12, <1>13, <1>14, Zenon DEF Reads, ToldWhole
<1>16. ASSUME ToldWhole(d) PROVE Parsed(Shown(d)) = d
  <2>1. string_to_mode(d.mode.kind)[1] = d.mode
    <3>1. d.mode.kind \in {"create", "additive", "hygiene", "tombstone"} /\ d.mode \in RotationMode
      BY <1>16, DocParts DEF ToldWhole
    <3>2. string_to_mode(d.mode.kind)[1] = Plain(d.mode.kind)
      BY <3>1 DEF string_to_mode
    <3>3. d.mode.ids = <<>> /\ d.mode = [kind |-> d.mode.kind, ids |-> d.mode.ids]
      BY <3>1, ModeKinds DEF Counted
    <3>. QED
      BY <3>2, <3>3 DEF Plain
  <2>2. [i \in DOMAIN fs |-> ToMember(fs[i])] = ms
    <3>1. \A i \in 1..Len(ms) : ToMember(fs[i]) = ms[i]
      BY <1>2, <1>4, <1>8, <1>16, MemberComesBack DEF ToldWhole
    <3>. QED
      BY <1>4, <1>8, <3>1
  <2>3. [i \in DOMAIN ts |-> ts[i].bytes] = ss
    <3>1. \A i \in 1..Len(ss) : ts[i].bytes = ss[i]
      BY <1>9 DEF Tagged
    <3>. QED
      BY <1>5, <1>9, <3>1
  <2>4. Tagged(d.root_pk).bytes = d.root_pk
    BY DEF Tagged
  <2>5. Parsed(Shown(d)) =
          [id |-> d.id, version |-> d.version, parent |-> d.parent, mode |-> d.mode,
           name |-> d.name, root_pk |-> d.root_pk, epoch_pre_pk |-> d.epoch_pre_pk,
           epoch |-> d.epoch, members |-> ms, quorum |-> d.quorum, signatures |-> ss,
           created_at |-> d.created_at]
    BY <1>10, <2>1, <2>2, <2>3, <2>4 DEF Parsed
  <2>. QED
    BY <1>2, <1>3, <2>5, DocParts
<1>. QED
  BY <1>1, <1>15, <1>16

(* What parses is a document, and one the routes can express.              *)
LEMMA DocParsed ==
    ASSUME NEW j \in KeyspaceDocJson, json_to_doc(j) # <<>>
    PROVE  json_to_doc(j)[1] \in KeyspaceDoc /\ ToldWhole(json_to_doc(j)[1])
<1>1. /\ j.id \in Octets /\ j.version \in Nat /\ j.parent \in Optional(Octets) /\ j.mode \in STRING
      /\ j.name \in Octets /\ j.root_pk \in Text /\ j.epoch_pre_pk \in Octets /\ j.epoch \in Nat
      /\ j.members \in Seq(MemberJson) /\ j.quorum \in Nat /\ j.signatures \in Seq(Text)
      /\ j.created_at \in Nat
  BY DEF KeyspaceDocJson
<1>2. j = [n \in FieldNames |-> j[n]]
  BY DEF KeyspaceDocJson, FieldNames
<1>3. Reads(j) /\ json_to_doc(j)[1] = Parsed(j)
  BY <1>2, ParseIs
<1>4. PICK ms \in Seq(MemberJson) : ms = j.members
  BY <1>1
<1>5. PICK ss \in Seq(Text) : ss = j.signatures
  BY <1>1
<1>6. PICK fs, ts : /\ fs = [i \in DOMAIN ms |-> ToMember(ms[i])]
                    /\ ts = [i \in DOMAIN ss |-> ss[i].bytes]
  OBVIOUS
<1>7. /\ fs \in Seq(Member) /\ Len(fs) = Len(ms)
      /\ \A i \in 1..Len(ms) : MemberToldWhole(fs[i])
  <2>1. Len(ms) \in Nat /\ DOMAIN ms = 1..Len(ms) /\ \A i \in 1..Len(ms) : ms[i] \in MemberJson
    OBVIOUS
  <2>2. \A i \in 1..Len(ms) : MemberReads(ms[i])
    BY <1>3, <1>4, <2>1 DEF Reads, ToSet
  <2>3. \A i \in 1..Len(ms) : ToMember(ms[i]) \in Member /\ MemberToldWhole(ToMember(ms[i]))
    BY <2>1, <2>2, MemberParsed
  <2>4. fs \in [1..Len(ms) -> Member] /\ \A i \in 1..Len(ms) : fs[i] = ToMember(ms[i])
    BY <1>6, <2>1, <2>3
  <2>. QED
    BY <2>1, <2>3, <2>4
<1>8. ts \in Seq(Octets)
  <2>1. Len(ss) \in Nat /\ DOMAIN ss = 1..Len(ss) /\ \A i \in 1..Len(ss) : ss[i] \in Text
    OBVIOUS
  <2>2. ts \in [1..Len(ss) -> Octets]
    BY <1>6, <2>1 DEF Text
  <2>. QED
    BY <2>1, <2>2
<1>9. j.id \in Ids /\ j.epoch_pre_pk \in Ids /\ j.parent \in Optional(Ids)
  <2>1. WellFormed(j.id) /\ WellFormed(j.epoch_pre_pk) /\ \A x \in ToSet(j.parent) : WellFormed(x)
    BY <1>3 DEF Reads
  <2>2. \A x \in ToSet(j.parent) : x \in Octets
    BY <1>1, OptionElements
  <2>3. \A x \in ToSet(j.parent) : x \in Ids
    BY <2>1, <2>2 DEF Ids
  <2>4. j.parent \in Optional(Ids)
    BY <1>1, <2>3, OptionOf
  <2>. QED
    BY <1>1, <2>1, <2>4 DEF Ids
<1>10. /\ string_to_mode(j.mode)[1] \in RotationMode
       /\ string_to_mode(j.mode)[1].kind \in {"create", "additive", "hygiene", "tombstone"}
  <2>1. j.mode \in {"create", "additive", "hygiene", "tombstone"}
    BY <1>3 DEF Reads, string_to_mode
  <2>2. string_to_mode(j.mode)[1] = [kind |-> j.mode, ids |-> <<>>]
    BY <2>1 DEF string_to_mode, Plain
  <2>. QED
    BY <2>1, <2>2 DEF RotationMode
<1>11. j.root_pk.bytes \in Octets
  BY <1>1 DEF Text
<1>12. PICK mode : mode = string_to_mode(j.mode)[1]
  OBVIOUS
<1>13. Parsed(j) = [id |-> j.id, version |-> j.version, parent |-> j.parent, mode |-> mode,
                    name |-> j.name, root_pk |-> j.root_pk.bytes,
                    epoch_pre_pk |-> j.epoch_pre_pk, epoch |-> j.epoch, members |-> fs,
                    quorum |-> j.quorum, signatures |-> ts, created_at |-> j.created_at]
  BY <1>4, <1>5, <1>6, <1>12, Zenon DEF Parsed
<1>14. Parsed(j) \in KeyspaceDoc
  BY <1>1, <1>7, <1>8, <1>9, <1>10, <1>11, <1>12, <1>13 DEF KeyspaceDoc
<1>15. ToldWhole(Parsed(j))
  BY <1>7, <1>10, <1>12, <1>13 DEF ToldWhole
<1>. QED
  BY <1>3, <1>14, <1>15

(* A document's row.                                                       *)
LEMMA RowComesBack ==
    ASSUME NEW d \in KeyspaceDoc
    PROVE  FromDocBytes(ToDocBytes(d)) = d
<1>1. PICK ms \in Seq(Member) : ms = d.members
  BY DocParts
<1>2. /\ DOMAIN ms = 1..Len(ms) /\ ms = [i \in 1..Len(ms) |-> ms[i]]
      /\ \A i \in 1..Len(ms) : ms[i] \in Member
  OBVIOUS
<1>3. PICK ns : ns = [i \in DOMAIN ms |-> AsList(ms[i])]
  OBVIOUS
<1>4. PICK e : e = [d EXCEPT !.members = ns]
  OBVIOUS
<1>5. ToDocBytes(d) = e
  BY <1>1, <1>3, <1>4 DEF ToDocBytes
<1>6. DOMAIN d = FieldNames /\ d = [n \in FieldNames |-> d[n]]
  BY DEF KeyspaceDoc, FieldNames
<1>7. "members" \in FieldNames
  BY DEF FieldNames
<1>8. e.members = ns /\ DOMAIN ns = 1..Len(ms)
  BY <1>2, <1>3, <1>4, <1>6, <1>7
<1>9. ASSUME NEW m \in Member PROVE AsSet(AsList(m)) = m
  <2>1. PICK x, y : x = AsList(m) /\ y = AsSet(x)
    OBVIOUS
  <2>2. DOMAIN m = {"fingerprint", "permissions", "decryption_policy", "added_at", "added_by"}
        /\ m = [n \in DOMAIN m |-> m[n]]
    BY DEF Member
  <2>3. DOMAIN x = DOMAIN m /\ DOMAIN y = DOMAIN m /\ y = [n \in DOMAIN m |-> y[n]]
    BY <2>1, <2>2 DEF AsList, AsSet
  <2>4. x.permissions = Sorted(m.permissions)
    BY <2>1, <2>2 DEF AsList
  <2>5. y.permissions = m.permissions
    BY <2>1, <2>2, <2>3, <2>4, MemberParts, TagsParse DEF AsSet
  <2>6. \A n \in DOMAIN m : n # "permissions" => y[n] = m[n]
    BY <2>1, <2>3 DEF AsList, AsSet
  <2>7. \A n \in DOMAIN m : y[n] = m[n]
    BY <2>5, <2>6
  <2>. QED
    BY ONLY <2>1, <2>2, <2>3, <2>7
<1>10. [i \in DOMAIN ns |-> AsSet(ns[i])] = ms
  <2>1. \A i \in 1..Len(ms) : AsSet(ns[i]) = ms[i]
    BY <1>2, <1>3, <1>9
  <2>. QED
    BY <1>2, <1>8, <2>1
<1>11. FromDocBytes(e) = [e EXCEPT !.members = ms]
  BY <1>8, <1>10 DEF FromDocBytes
<1>12. [e EXCEPT !.members = ms] = d
  BY <1>1, <1>4, <1>6, <1>7
<1>. QED
  BY <1>5, <1>11, <1>12

-----------------------------------------------------------------------------
(* Grants, as they are stored.                                             *)
AccessGrant ==
    [keyspace_id : Ids, keyspace_version : U64, subject : Ids, issuer : Ids,
     permissions : SUBSET Permissions, expires_at : Optional(U64), delegation_depth : Nat,
     parent_grant : Optional(Ids), created_at : U64]

GrantFields == {"keyspace_id", "keyspace_version", "subject", "issuer", "permissions",
                "expires_at", "delegation_depth", "parent_grant", "created_at"}

(* A grant is its fields.                                                  *)
LEMMA GrantParts ==
    ASSUME NEW g \in AccessGrant
    PROVE  /\ g.keyspace_id \in Ids /\ g.keyspace_version \in U64 /\ g.subject \in Ids
           /\ g.issuer \in Ids /\ g.permissions \in SUBSET Permissions
           /\ g.expires_at \in Optional(U64) /\ g.delegation_depth \in Nat
           /\ g.parent_grant \in Optional(Ids) /\ g.created_at \in U64
           /\ DOMAIN g = GrantFields /\ g = [n \in GrantFields |-> g[n]]
  BY DEF AccessGrant, GrantFields

(* A u64 comes back from its i64.                                          *)
LEMMA WordComesBack ==
    ASSUME NEW n \in U64
    PROVE  AsU64(AsI64(n)) = n
<1>1. PICK m \in Nat \ {0} : m = 2^Width
  BY RecordsAssumption
<1>2. n \in 0..(m - 1)
  BY <1>1 DEF U64
<1>3. n % m = n
  BY <1>2
<1>4. (n - m) % m = n
  BY <1>2
<1>5. AsI64(n) = n - m \/ AsI64(n) = n
  BY <1>1 DEF AsI64
<1>. QED
  BY <1>1, <1>3, <1>4, <1>5 DEF AsU64

(* So does an expiry.                                                      *)
LEMMA OptionComesBack ==
    ASSUME NEW o \in Optional(U64), NEW p, p = [i \in DOMAIN o |-> AsI64(o[i])]
    PROVE  [i \in DOMAIN p |-> AsU64(p[i])] = o
<1>1. o \in Seq(U64)
  BY DEF Optional
<1>2. DOMAIN p = DOMAIN o /\ \A i \in DOMAIN o : p[i] = AsI64(o[i])
  OBVIOUS
<1>3. \A i \in DOMAIN o : o[i] \in U64
  BY <1>1
<1>4. \A i \in DOMAIN o : AsU64(p[i]) = o[i]
  BY <1>2, <1>3, WordComesBack
<1>5. o = [i \in DOMAIN o |-> o[i]]
  BY <1>1
<1>6. [i \in DOMAIN p |-> AsU64(p[i])] = o
  BY ONLY <1>2, <1>4, <1>5
<1>. QED
  BY <1>6

(* A grant read from its row is that grant.                                *)
LEMMA GrantRowComesBack ==
    ASSUME NEW g \in AccessGrant
    PROVE  /\ row_to_grant(GrantRow(g)) = g
           /\ GrantRow(g).subject = g.subject /\ GrantRow(g).keyspace_id = g.keyspace_id
<1>1. PICK r : r = GrantRow(g)
  OBVIOUS
<1>2. DOMAIN r = GrantFields
  BY <1>1, GrantParts DEF GrantRow
<1>3. /\ r.keyspace_version = AsI64(g.keyspace_version)
      /\ r.permissions = Sorted(g.permissions)
      /\ r.expires_at = [i \in DOMAIN g.expires_at |-> AsI64(g.expires_at[i])]
      /\ r.created_at = AsI64(g.created_at)
  BY <1>1, GrantParts DEF GrantRow, GrantFields
<1>4. /\ r.keyspace_id = g.keyspace_id /\ r.subject = g.subject /\ r.issuer = g.issuer
      /\ r.delegation_depth = g.delegation_depth /\ r.parent_grant = g.parent_grant
  BY <1>1, GrantParts DEF GrantRow, GrantFields
<1>5. PICK h : h = row_to_grant(r)
  OBVIOUS
<1>6. DOMAIN h = GrantFields /\ h = [n \in GrantFields |-> h[n]]
  BY <1>2, <1>5 DEF row_to_grant
<1>7. /\ h.keyspace_version = AsU64(r.keyspace_version)
      /\ h.permissions = ParsePermissions(r.permissions)
      /\ h.expires_at = [i \in DOMAIN r.expires_at |-> AsU64(r.expires_at[i])]
      /\ h.created_at = AsU64(r.created_at)
  BY <1>2, <1>5 DEF row_to_grant, GrantFields
<1>8. /\ h.keyspace_id = r.keyspace_id /\ h.subject = r.subject /\ h.issuer = r.issuer
      /\ h.delegation_depth = r.delegation_depth /\ h.parent_grant = r.parent_grant
  BY <1>2, <1>5 DEF row_to_grant, GrantFields
<1>9. /\ h.keyspace_version = g.keyspace_version /\ h.created_at = g.created_at
      /\ h.permissions = g.permissions
  BY <1>3, <1>7, GrantParts, WordComesBack, TagsParse
<1>10. h.expires_at = g.expires_at
  <2>1. PICK o \in Optional(U64) : o = g.expires_at
    BY GrantParts
  <2>2. PICK p : p = r.expires_at
    OBVIOUS
  <2>3. p = [i \in DOMAIN o |-> AsI64(o[i])] /\ h.expires_at = [i \in DOMAIN p |-> AsU64(p[i])]
    BY <1>3, <1>7, <2>1, <2>2
  <2>4. [i \in DOMAIN p |-> AsU64(p[i])] = o
    BY <2>3, OptionComesBack
  <2>. QED
    BY <2>1, <2>3, <2>4
<1>11. \A n \in GrantFields : h[n] = g[n]
  BY <1>4, <1>8, <1>9, <1>10 DEF GrantFields
<1>12. h = g
  BY <1>6, <1>11, GrantParts
<1>. QED
  BY <1>1, <1>4, <1>5, <1>12

(* What a grant must satisfy to be taken.                                  *)
GrantReads(j) ==
    /\ \A text \in {j.keyspace_id, j.subject, j.issuer} \union ToSet(j.parent_grant) :
         WellFormed(text)
    /\ KnownPermissions(j.permissions)

(* A grant parsed from its JSON, at the second it was issued, is that      *)
(* grant.                                                                  *)
LEMMA GrantComesBack ==
    ASSUME NEW g \in AccessGrant
    PROVE  json_to_grant(grant_to_json(g), grant_to_json(g).created_at) = <<g>>
<1>1. PICK j : j = grant_to_json(g)
  OBVIOUS
<1>2. DOMAIN j = GrantFields /\ j.permissions = Sorted(g.permissions) /\ j.created_at = g.created_at
      /\ \A n \in GrantFields : n # "permissions" => j[n] = g[n]
  BY <1>1, GrantParts DEF grant_to_json, GrantFields
<1>3. /\ j.keyspace_id = g.keyspace_id /\ j.subject = g.subject /\ j.issuer = g.issuer
      /\ j.parent_grant = g.parent_grant
  BY <1>2 DEF GrantFields
<1>4. GrantReads(j)
  <2>1. \A x \in ToSet(g.parent_grant) : x \in Ids
    BY GrantParts, OptionElements
  <2>2. g.keyspace_id \in Ids /\ g.subject \in Ids /\ g.issuer \in Ids
    BY GrantParts
  <2>3. KnownPermissions(j.permissions)
    BY <1>2, GrantParts, TagsParse
  <2>. QED
    BY <1>3, <2>1, <2>2, <2>3 DEF GrantReads, Ids
<1>5. PICK h : h = [j EXCEPT !.permissions = ParsePermissions(@), !.created_at = g.created_at]
  OBVIOUS
<1>6. DOMAIN h = GrantFields /\ h = [n \in GrantFields |-> h[n]]
  BY <1>2, <1>5
<1>7. h.permissions = g.permissions /\ h.created_at = g.created_at
  BY <1>2, <1>5, GrantParts, TagsParse DEF GrantFields
<1>8. \A n \in GrantFields : n # "permissions" /\ n # "created_at" => h[n] = g[n]
  BY <1>2, <1>5
<1>9. \A n \in GrantFields : h[n] = g[n]
  BY <1>7, <1>8
<1>10. h = g
  BY <1>6, <1>9, GrantParts
<1>11. json_to_grant(j, g.created_at) = <<h>>
  BY <1>4, <1>5, Zenon DEF json_to_grant, GrantReads
<1>. QED
  BY <1>1, <1>2, <1>10, <1>11

(* What parses is a grant.                                                 *)
LEMMA GrantParsed ==
    ASSUME NEW j \in AccessGrantJson, NEW moment \in U64, json_to_grant(j, moment) # <<>>
    PROVE  json_to_grant(j, moment)[1] \in AccessGrant
<1>1. /\ j.keyspace_id \in Octets /\ j.keyspace_version \in U64 /\ j.subject \in Octets
      /\ j.issuer \in Octets /\ j.expires_at \in Optional(U64) /\ j.delegation_depth \in Nat
      /\ j.parent_grant \in Optional(Octets) /\ DOMAIN j = GrantFields
  BY DEF AccessGrantJson, GrantFields
<1>2. PICK h : h = [j EXCEPT !.permissions = ParsePermissions(@), !.created_at = moment]
  OBVIOUS
<1>3. GrantReads(j) /\ json_to_grant(j, moment) = <<h>>
  BY <1>2, Zenon DEF json_to_grant, GrantReads
<1>4. DOMAIN h = GrantFields /\ h = [n \in GrantFields |-> h[n]]
  BY <1>1, <1>2
<1>5. h.permissions = ParsePermissions(j.permissions) /\ h.created_at = moment
  BY <1>1, <1>2 DEF GrantFields
<1>6. /\ h.keyspace_id = j.keyspace_id /\ h.keyspace_version = j.keyspace_version
      /\ h.subject = j.subject /\ h.issuer = j.issuer /\ h.expires_at = j.expires_at
      /\ h.delegation_depth = j.delegation_depth /\ h.parent_grant = j.parent_grant
  BY <1>1, <1>2 DEF GrantFields
<1>7. j.keyspace_id \in Ids /\ j.subject \in Ids /\ j.issuer \in Ids /\ j.parent_grant \in Optional(Ids)
  <2>1. /\ WellFormed(j.keyspace_id) /\ WellFormed(j.subject) /\ WellFormed(j.issuer)
        /\ \A x \in ToSet(j.parent_grant) : WellFormed(x)
    BY <1>3 DEF GrantReads
  <2>2. \A x \in ToSet(j.parent_grant) : x \in Ids
    BY <1>1, <2>1, OptionElements DEF Ids
  <2>3. j.parent_grant \in Optional(Ids)
    BY <1>1, <2>2, OptionOf
  <2>. QED
    BY <1>1, <2>1, <2>3 DEF Ids
<1>8. h.permissions \in SUBSET Permissions
  BY <1>5 DEF ParsePermissions
<1>9. h = [keyspace_id |-> h.keyspace_id, keyspace_version |-> h.keyspace_version,
           subject |-> h.subject, issuer |-> h.issuer, permissions |-> h.permissions,
           expires_at |-> h.expires_at, delegation_depth |-> h.delegation_depth,
           parent_grant |-> h.parent_grant, created_at |-> h.created_at]
  BY <1>4 DEF GrantFields
<1>10. h \in AccessGrant
  BY <1>1, <1>5, <1>6, <1>7, <1>8, <1>9 DEF AccessGrant
<1>. QED
  BY <1>3, <1>10

(* What the store keeps of a record under its hash is what the record was. *)
DocumentKept(s) ==
    /\ s.how \in {"document", "library"} /\ s.record \in KeyspaceDoc
    /\ s.how = "document" => ToldWhole(s.record)
    /\ s.hash = doc_hash(s.record) /\ s.hash \in DOMAIN documents
    /\ documents[s.hash] = IF in_sqlite THEN ToDocBytes(s.record) ELSE s.record

GrantKept(s) ==
    /\ s.how = "grant" /\ s.record \in AccessGrant
    /\ s.hash = from_grant(s.record) /\ s.hash \in DOMAIN grants
    /\ grants[s.hash] = IF in_sqlite THEN GrantRow(s.record) ELSE s.record

RecordsIInv ==
    /\ in_sqlite \in BOOLEAN /\ second \in U64
    /\ \A s \in sent : DocumentKept(s) \/ GrantKept(s)

(* A document put under a hash replaces at most itself.                    *)
LEMMA PutDocStep ==
    ASSUME RecordsIInv, NEW d \in KeyspaceDoc, NEW how \in {"document", "library"},
           how = "document" => ToldWhole(d), PutDoc(d, how), Post, UNCHANGED grants
    PROVE  RecordsIInv'
<1>1. in_sqlite' = in_sqlite /\ second' = second
  BY DEF Post
<1>2. CASE in_sqlite /\ doc_hash(d) \in DOMAIN documents
  BY <1>1, <1>2 DEF PutDoc, RecordsIInv, DocumentKept, GrantKept
<1>3. CASE ~ (in_sqlite /\ doc_hash(d) \in DOMAIN documents)
  <2>1. PICK h, kept : h = doc_hash(d) /\ kept = IF in_sqlite THEN ToDocBytes(d) ELSE d
    OBVIOUS
  <2>2. /\ documents' = [k \in DOMAIN documents \union {h} |-> IF k = h THEN kept ELSE documents[k]]
        /\ sent' = sent \union {[how |-> how, hash |-> h, record |-> d]}
    BY <1>3, <2>1 DEF PutDoc, Filed
  <2>3. DOMAIN documents' = DOMAIN documents \union {h} /\ documents'[h] = kept
        /\ \A k \in DOMAIN documents : k # h => documents'[k] = documents[k]
    BY <2>2
  <2>4. ASSUME NEW s \in sent PROVE DocumentKept(s)' \/ GrantKept(s)'
    <3>1. CASE GrantKept(s)
      BY <1>1, <3>1 DEF GrantKept
    <3>2. CASE DocumentKept(s) /\ s.hash # h
      BY <1>1, <2>3, <3>2 DEF DocumentKept
    <3>3. CASE DocumentKept(s) /\ s.hash = h
      <4>1. s.record = d
        BY <2>1, <3>3, HashesTell DEF DocumentKept
      <4>. QED
        BY <1>1, <2>1, <2>3, <3>3, <4>1 DEF DocumentKept
    <3>. QED
      BY <3>1, <3>2, <3>3 DEF RecordsIInv
  <2>5. PICK new : new = [how |-> how, hash |-> h, record |-> d]
    OBVIOUS
  <2>6. DocumentKept(new)'
    BY <1>1, <2>1, <2>3, <2>5 DEF DocumentKept
  <2>. QED
    BY <1>1, <2>2, <2>4, <2>5, <2>6 DEF RecordsIInv
<1>. QED
  BY <1>2, <1>3

(* create_keyspace and publish_version keep the invariant,                 *)
LEMMA PostDocStep ==
    ASSUME RecordsIInv, NEW j \in Drafts, PostDoc(j)
    PROVE  RecordsIInv'
<1>1. CASE json_to_doc(j) = <<>>
  BY <1>1 DEF PostDoc, Post, RecordsIInv, DocumentKept, GrantKept
<1>2. CASE json_to_doc(j) # <<>>
  <2>1. PICK d : d = json_to_doc(j)[1]
    OBVIOUS
  <2>2. j \in KeyspaceDocJson
    BY RecordsAssumption
  <2>3. d \in KeyspaceDoc /\ ToldWhole(d)
    BY <1>2, <2>1, <2>2, DocParsed
  <2>4. PutDoc(d, "document") /\ Post /\ UNCHANGED grants
    BY <1>2, <2>1 DEF PostDoc
  <2>. QED
    BY <2>3, <2>4, PutDocStep
<1>. QED
  BY <1>1, <1>2

(* so does whoever puts into the store without the routes,                 *)
LEMMA PutDirectlyStep ==
    ASSUME RecordsIInv, NEW d \in LibraryDocs, PutDirectly(d)
    PROVE  RecordsIInv'
<1>1. d \in KeyspaceDoc
  BY RecordsAssumption
<1>. QED
  BY <1>1, PutDocStep DEF PutDirectly

(* and so does issue_grant.                                                *)
LEMMA PostGrantStep ==
    ASSUME RecordsIInv, NEW j \in GrantDrafts, PostGrant(j)
    PROVE  RecordsIInv'
<1>1. in_sqlite' = in_sqlite /\ second' = second /\ documents' = documents
  BY DEF PostGrant, Post
<1>2. CASE json_to_grant(j, second) = <<>>
  BY <1>1, <1>2 DEF PostGrant, RecordsIInv, DocumentKept, GrantKept
<1>3. CASE json_to_grant(j, second) # <<>>
  <2>1. PICK g : g = json_to_grant(j, second)[1]
    OBVIOUS
  <2>2. j \in AccessGrantJson
    BY RecordsAssumption
  <2>3. g \in AccessGrant
    BY <1>3, <2>1, <2>2, GrantParsed DEF RecordsIInv
  <2>4. IssueRecord(g)
    BY <1>3, <2>1 DEF PostGrant
  <2>5. PICK h, kept : h = from_grant(g) /\ kept = IF in_sqlite THEN GrantRow(g) ELSE g
    OBVIOUS
  <2>6. CASE h \in DOMAIN grants
    BY <1>1, <2>4, <2>5, <2>6 DEF IssueRecord, RecordsIInv, DocumentKept, GrantKept
  <2>7. CASE h \notin DOMAIN grants
    <3>1. /\ grants' = [k \in DOMAIN grants \union {h} |-> IF k = h THEN kept ELSE grants[k]]
          /\ sent' = sent \union {[how |-> "grant", hash |-> h, record |-> g]}
      BY <2>4, <2>5, <2>7 DEF IssueRecord, Filed
    <3>2. DOMAIN grants' = DOMAIN grants \union {h} /\ grants'[h] = kept
          /\ \A k \in DOMAIN grants : grants'[k] = grants[k]
      BY <2>7, <3>1
    <3>3. ASSUME NEW s \in sent PROVE DocumentKept(s)' \/ GrantKept(s)'
      BY <1>1, <3>2 DEF RecordsIInv, DocumentKept, GrantKept
    <3>4. PICK new : new = [how |-> "grant", hash |-> h, record |-> g]
      OBVIOUS
    <3>5. GrantKept(new)'
      BY <1>1, <2>3, <2>5, <3>2, <3>4 DEF GrantKept
    <3>. QED
      BY <1>1, <3>1, <3>3, <3>4, <3>5 DEF RecordsIInv
  <2>. QED
    BY <2>6, <2>7
<1>. QED
  BY <1>2, <1>3

(* RecordsIInv is inductive.                                               *)
LEMMA RecordsInductive == RecordsSpec => []RecordsIInv
<1>1. 2^Width \in Nat \ {0} /\ MaxSeconds \in U64
  BY RecordsAssumption
<1>2. PICK top \in Nat : top + 1 = 2^Width
  BY <1>1
<1>3. U64 = 0..top
  BY <1>2 DEF U64
<1>4. RecordsInit => RecordsIInv
  BY <1>3 DEF RecordsInit, RecordsIInv
<1>5. RecordsIInv /\ [RecordsNext]_recordVars => RecordsIInv'
  <2>. SUFFICES ASSUME RecordsIInv, [RecordsNext]_recordVars PROVE RecordsIInv'
    OBVIOUS
  <2>1. CASE NextSecond
    <3>1. second' \in U64
      BY <1>1, <1>3, <2>1 DEF NextSecond, RecordsIInv
    <3>. QED
      BY <2>1, <3>1 DEF NextSecond, RecordsIInv, DocumentKept, GrantKept
  <2>2. CASE UNCHANGED recordVars
    BY <2>2 DEF recordVars, RecordsIInv, DocumentKept, GrantKept
  <2>. QED
    BY <2>1, <2>2, PostDocStep, PutDirectlyStep, PostGrantStep DEF RecordsNext
<1>. QED
  BY <1>4, <1>5, PTL DEF RecordsSpec

(* Whoever was told that a document or a grant is stored reads it under    *)
(* the hash it was told, and nothing else, whatever was stored before or   *)
(* since, in memory or in SQLite; a document the routes cannot express is  *)
(* refused when read back, never taken for another (keyspace.rs,           *)
(* routes/keyspaces.rs, sqlite/keyspace.rs).                               *)
THEOREM RecordsReadBack == RecordsSpec => []ReadsBack
<1>1. RecordsIInv => ReadsBack
  <2>. SUFFICES ASSUME RecordsIInv, NEW s \in sent
                PROVE  CASE s.how = "grant" ->
                              LET j == get_grant(s.hash) IN
                              /\ json_to_grant(j, j.created_at) = <<s.record>>
                              /\ from_grant(s.record) = s.hash
                              /\ j \in list_grants_by_subject(s.record.subject)
                              /\ j \in list_grants_by_keyspace(s.record.keyspace_id)
                         [] s.how = "document" ->
                              json_to_doc(get_keyspace(s.hash)) = <<s.record>>
                         [] s.how = "library" ->
                              /\ LoadDoc(s.hash) = s.record
                              /\ json_to_doc(get_keyspace(s.hash)) \in {<<>>, <<s.record>>}
    BY Zenon DEF ReadsBack
  <2>1. CASE DocumentKept(s)
    <3>1. PICK d \in KeyspaceDoc : d = s.record
      BY <2>1 DEF DocumentKept
    <3>2. LoadDoc(s.hash) = d
      BY <2>1, <3>1, RowComesBack DEF DocumentKept, LoadDoc
    <3>3. json_to_doc(get_keyspace(s.hash)) = IF ToldWhole(d) THEN <<d>> ELSE <<>>
      BY <3>2, DocComesBack DEF get_keyspace
    <3>4. s.how = "document" => ToldWhole(d)
      BY <2>1, <3>1 DEF DocumentKept
    <3>5. s.how \in {"document", "library"}
      BY <2>1 DEF DocumentKept
    <3>. QED
      BY <3>1, <3>2, <3>3, <3>4, <3>5
  <2>2. CASE GrantKept(s)
    <3>1. PICK g \in AccessGrant : g = s.record
      BY <2>2 DEF GrantKept
    <3>2. LoadGrant(s.hash) = g
      BY <2>2, <3>1, GrantRowComesBack DEF GrantKept, LoadGrant
    <3>3. PICK j : j = get_grant(s.hash)
      OBVIOUS
    <3>4. json_to_grant(j, j.created_at) = <<g>>
      BY <3>2, <3>3, GrantComesBack DEF get_grant
    <3>5. /\ s.hash \in DOMAIN grants /\ grants[s.hash].subject = g.subject
          /\ grants[s.hash].keyspace_id = g.keyspace_id
      BY <2>2, <3>1, GrantRowComesBack DEF GrantKept
    <3>6. j \in list_grants_by_subject(g.subject) /\ j \in list_grants_by_keyspace(g.keyspace_id)
      BY <3>3, <3>5 DEF list_grants_by_subject, list_grants_by_keyspace
    <3>7. s.how = "grant" /\ from_grant(g) = s.hash
      BY <2>2, <3>1 DEF GrantKept
    <3>. QED
      BY <3>1, <3>3, <3>4, <3>6, <3>7
  <2>. QED
    BY <2>1, <2>2 DEF RecordsIInv
<1>. QED
  BY <1>1, RecordsInductive, PTL
=============================================================================
