------------------------------ MODULE FilesProofs ------------------------------
(***************************************************************************)
(* What Files guarantees for every set of accounts, files and requests,    *)
(* for both storages and any number of restarts.                           *)
(*                                                                         *)
(* UploadKept and StoresAgree speak of uploads that were answered and of   *)
(* files at rest.  What makes them inductive is what each stage of a       *)
(* request leaves in the two stores: an upload under way has its file      *)
(* stored unless a delete struck it (UnderWay), an answered upload that no *)
(* delete can strike meets none that is under way (KeptNow), whoever owns  *)
(* or deletes a file has uploaded it (Registered, DeletersUploaded), and   *)
(* of a file that one request at a time is about, the stage of that        *)
(* request tells exactly how far the stores are apart (StageOK).           *)
(***************************************************************************)
EXTENDS Files, TLAPS

Contents == {"none", "partial", "whole"}
Finished == {"created", "refused", "deleted", "failed"}
Stages == InFlight \union Finished
DeleteStages == {"delete", "unregister", "remove", "deleted", "failed"}
Handled ==
    [st : Stages, caller : Fps, file : Hashes, epoch : Nat,
     past : SUBSET Requests, stale : SUBSET Requests]
Downloaded == [st : {"downloaded"}, file : Hashes, data : Contents]
ReqType == {Idle} \union Handled \union Downloaded

TypeOK ==
    /\ storage \in {"memory", "local"}
    /\ blobs \in [Hashes -> Contents]
    /\ owners \in [Hashes -> Fps \union {NoOwner}]
    /\ req \in [Requests -> ReqType]
    /\ restarts \in Nat
    /\ disturbed \subseteq Hashes

(* Only files on disk are written in two steps. *)
WritesLocal == \A r \in Requests : req[r].st \in {"write", "unlinked"} => storage = "local"

(* A file that is cut short has an upload that opened it last. *)
CutShort ==
    \A h \in Hashes : blobs[h] = "partial" =>
        /\ storage = "local"
        /\ \E w \in Requests : req[w].st = "write" /\ req[w].file = h

(* What was over when a request arrived is over. *)
PastOver ==
    \A r \in Requests : req[r].st \in Stages =>
        req[r].past \subseteq DeletesOver(req[r].file) /\ req[r].epoch <= restarts

(* Whoever owns a file, or got past the owner check of a delete, has       *)
(* uploaded it since the last restart before.                              *)
Registered ==
    \A h \in Hashes : owners[h] # NoOwner => Uploader(owners[h], h, restarts)
DeletersUploaded ==
    \A h \in Hashes : \A d \in Deletes(h) : Uploader(req[d].caller, h, req[d].epoch)

(* The file of an upload is there from its first write on until a delete   *)
(* strikes it that was not over when the upload arrived.                   *)
UnderWay ==
    \A r \in Requests :
        Live(r) /\ req[r].st \in {"write", "unlinked", "register"}
          /\ Deletes(req[r].file) \subseteq req[r].past => blobs[req[r].file] # "none"

(* No delete can strike the answered upload. *)
Unhurt(r) == OwnDeletes(r) = {} /\ req[r].stale \subseteq req[r].past

KeptNow ==
    \A r \in Requests : Answered(r) /\ req[r].epoch = restarts /\ Unhurt(r) =>
        /\ blobs[req[r].file] # "none"
        /\ owners[req[r].file] = req[r].caller
        /\ Deletes(req[r].file) \subseteq DeletesOver(req[r].file)

DeletedSince(r) ==
    \E d \in Deletes(req[r].file) : req[d].epoch > req[r].epoch

KeptLater ==
    \A r \in Requests :
        Answered(r) /\ req[r].epoch # restarts /\ Unhurt(r) /\ storage = "local" =>
            blobs[req[r].file] # "none" \/ DeletedSince(r)

History ==
    /\ CutShort /\ PastOver /\ Registered /\ DeletersUploaded
    /\ UnderWay /\ KeptNow /\ KeptLater

IsBusy(r, h) == Live(r) /\ req[r].file = h

(* One request at a time is about an undisturbed file. *)
Alone ==
    \A h \in Hashes \ disturbed : \A r, s \in Requests :
        IsBusy(r, h) /\ IsBusy(s, h) => r = s

Settled(h) == blobs[h] = IF owners[h] = NoOwner THEN "none" ELSE "whole"

(* What a request has made of its file so far, if it is alone with it. *)
StageOK(r) ==
    LET h == req[r].file
        s == req[r].st IN
    /\ s \in {"put", "owner", "delete"} => Settled(h)
    /\ s # "unlinked"
    /\ s = "register" => blobs[h] = "whole"
    /\ s \in {"delete", "unregister", "remove"} => owners[h] = req[r].caller
    /\ s \in {"unregister", "remove"} => blobs[h] = "none"

Remembered == storage = "local" => restarts = 0

StagesOK ==
    Remembered => \A h \in Hashes \ disturbed :
        /\ ~ Busy(h) => Settled(h)
        /\ \A r \in Requests : IsBusy(r, h) => StageOK(r)

IInv ==
    /\ TypeOK
    /\ WritesLocal
    /\ History
    /\ Alone
    /\ StagesOK

-----------------------------------------------------------------------------
(* Of a request that is past its arrival all is known. *)
LEMMA HandledType ==
    ASSUME TypeOK, NEW r \in Requests, req[r].st \in Stages
    PROVE  /\ req[r] \in Handled /\ req[r].caller \in Fps /\ req[r].file \in Hashes
           /\ req[r].epoch \in Nat
<1>1. req[r] \in Handled
  BY DEF TypeOK, ReqType, Idle, Downloaded, Stages, InFlight, Finished
<1>. QED
  BY <1>1 DEF Handled

(* A live request is about its file. *)
LEMMA AtBusy ==
    ASSUME TypeOK, NEW r \in Requests, NEW s \in InFlight, At(r, s)
    PROVE  /\ IsBusy(r, req[r].file) /\ req[r].file \in Hashes /\ req[r].caller \in Fps
           /\ req[r].st = s /\ req[r].st \in Stages /\ Live(r)
  BY HandledType DEF At, IsBusy, Live, Stages

(* What a step leaves of the requests: whatever they are about, what was   *)
(* answered, and deletes that got past their check.                        *)
Moves ==
    /\ req' \in [Requests -> ReqType]
    /\ \A q \in Requests : req[q].st \in Stages =>
          /\ req'[q].st \in Stages
          /\ req'[q].caller = req[q].caller /\ req'[q].file = req[q].file
          /\ req'[q].epoch = req[q].epoch /\ req'[q].past = req[q].past
    /\ \A q \in Requests : req[q].st \in Finished => req'[q] = req[q]
    /\ \A q \in Requests : req[q].st \in DeleteStages => req'[q].st \in DeleteStages

(* What Goes does, and Created. *)
LEMMA GoesMoves ==
    ASSUME TypeOK, NEW r \in Requests, req[r].st \in InFlight, NEW s \in Stages,
           Goes(r, s), req[r].st \in DeleteStages => s \in DeleteStages
    PROVE  /\ req'[r].st = s /\ req'[r].caller = req[r].caller /\ req'[r].file = req[r].file
           /\ req'[r].epoch = req[r].epoch /\ req'[r].past = req[r].past
           /\ \A q \in Requests \ {r} : req'[q] = req[q]
           /\ Moves
<1>1. req[r] \in Handled
  BY HandledType DEF Stages
<1>2. [req[r] EXCEPT !.st = s] \in Handled
  BY <1>1 DEF Handled
<1>3. req' = [req EXCEPT ![r] = [req[r] EXCEPT !.st = s]]
  BY DEF Goes
<1>4. /\ req'[r] = [req[r] EXCEPT !.st = s]
      /\ \A q \in Requests \ {r} : req'[q] = req[q]
      /\ req' \in [Requests -> ReqType]
  BY <1>2, <1>3 DEF TypeOK, ReqType
<1>5. /\ req'[r].st = s /\ req'[r].caller = req[r].caller /\ req'[r].file = req[r].file
      /\ req'[r].epoch = req[r].epoch /\ req'[r].past = req[r].past
  BY <1>1, <1>4 DEF Handled
<1>6. req[r].st \notin Finished
  BY DEF InFlight, Finished
<1>. QED
  BY <1>4, <1>5, <1>6 DEF Moves

LEMMA CreatedMoves ==
    ASSUME TypeOK, NEW r \in Requests, req[r].st = "register", Created(r)
    PROVE  /\ req'[r].st = "created" /\ req'[r].caller = req[r].caller
           /\ req'[r].file = req[r].file
           /\ req'[r].epoch = req[r].epoch /\ req'[r].past = req[r].past
           /\ req'[r].stale = {d \in Deletes(req[r].file) : req[d].caller # req[r].caller}
           /\ \A q \in Requests \ {r} : req'[q] = req[q]
           /\ Moves
<1>. DEFINE late == {d \in Deletes(req[r].file) : req[d].caller # req[r].caller}
            x == [req[r] EXCEPT !.st = "created", !.stale = late]
<1>1. req[r] \in Handled
  BY HandledType DEF Stages, InFlight
<1>2. late \in SUBSET Requests
  BY DEF Deletes
<1>. HIDE DEF late
<1>3. x \in Handled
  BY <1>1, <1>2 DEF Handled, Stages, Finished
<1>4. req' = [req EXCEPT ![r] = x]
  BY DEF Created, late
<1>5. /\ req'[r] = x
      /\ \A q \in Requests \ {r} : req'[q] = req[q]
      /\ req' \in [Requests -> ReqType]
  BY <1>3, <1>4 DEF TypeOK, ReqType
<1>6. /\ req'[r].st = "created" /\ req'[r].caller = req[r].caller
      /\ req'[r].file = req[r].file
      /\ req'[r].epoch = req[r].epoch /\ req'[r].past = req[r].past
      /\ req'[r].stale = late
  BY <1>1, <1>5 DEF Handled
<1>. QED
  BY <1>5, <1>6 DEF Moves, Stages, Finished, DeleteStages, late

(* Deletes, those that are over, and uploaders are never forgotten, so     *)
(* that an upload that is unhurt has always been.                          *)
LEMMA Remembers ==
    ASSUME TypeOK, Moves, restarts' \in Nat, restarts' >= restarts, PastOver
    PROVE  /\ \A h \in Hashes : Deletes(h) \subseteq Deletes(h)'
           /\ \A h \in Hashes : DeletesOver(h) \subseteq DeletesOver(h)'
           /\ \A h \in Hashes : \A d \in Deletes(h) :
                 req'[d].caller = req[d].caller /\ req'[d].epoch = req[d].epoch
           /\ \A f \in Fps, h \in Hashes, e \in Nat : Uploader(f, h, e) => Uploader(f, h, e)'
           /\ \A r \in Requests : Answered(r) =>
                 req'[r] = req[r] /\ (Unhurt(r)' => Unhurt(r))
<1>1. ASSUME NEW h \in Hashes, NEW d \in Deletes(h)
      PROVE  /\ d \in Deletes(h)'
             /\ req'[d].caller = req[d].caller /\ req'[d].epoch = req[d].epoch
             /\ ~ Live(d) => ~ Live(d)'
  <2>1. d \in Requests /\ req[d].st \in DeleteStages /\ req[d].file = h /\ req[d].st \in Stages
    BY DEF Deletes, DeleteStages, Stages, InFlight, Finished
  <2>2. req'[d].st \in DeleteStages /\ req'[d].file = h
        /\ req'[d].caller = req[d].caller /\ req'[d].epoch = req[d].epoch
    BY <2>1 DEF Moves
  <2>3. ASSUME ~ Live(d) PROVE ~ Live(d)'
    <3>1. CASE req[d].st \in Finished
      BY <3>1, <2>1, <2>3 DEF Moves, Live, Finished, InFlight
    <3>2. CASE req[d].st \in InFlight
      <4>1. req[d].epoch # restarts /\ req[d].epoch <= restarts /\ req[d].epoch \in Nat
        BY <3>2, <2>1, <2>3, HandledType DEF Live, PastOver
      <4>. QED
        BY <4>1, <2>2 DEF Live, TypeOK
    <3>. QED
      BY <3>1, <3>2, <2>1 DEF Stages
  <2>. QED
    BY <2>1, <2>2, <2>3 DEF Deletes, DeleteStages
<1>2. \A h \in Hashes : Deletes(h) \subseteq Deletes(h)'
  BY <1>1
<1>3. \A h \in Hashes : DeletesOver(h) \subseteq DeletesOver(h)'
  BY <1>1 DEF DeletesOver
<1>4. ASSUME NEW r \in Requests, Answered(r)
      PROVE  req'[r] = req[r] /\ (Unhurt(r)' => Unhurt(r))
  <2>1. req'[r] = req[r] /\ req[r].file \in Hashes
    BY <1>4, HandledType DEF Moves, Answered, Finished, Stages
  <2>2. OwnDeletes(r) \subseteq OwnDeletes(r)'
    BY <1>1, <2>1 DEF OwnDeletes
  <2>. QED
    BY <2>1, <2>2 DEF Unhurt
<1>5. \A f \in Fps, h \in Hashes, e \in Nat : Uploader(f, h, e) => Uploader(f, h, e)'
  BY <1>4 DEF Uploader, Answered
<1>. QED
  BY <1>1, <1>2, <1>3, <1>4, <1>5

(* A step about file h keeps the history if it loses h, or its owner, only *)
(* where a delete of h is under way.                                       *)
Strikes(h) == \E d \in Deletes(h) : Live(d)
Uploading(r) == Live(r) /\ req[r].st \in {"write", "unlinked", "register"}

LEMMA HistoryStep ==
    ASSUME TypeOK, TypeOK', History, NEW h \in Hashes, Moves, UNCHANGED <<storage, restarts>>,
           \A g \in Hashes \ {h} : blobs'[g] = blobs[g] /\ owners'[g] = owners[g],
           (* what may become of the file and of its owner *)
           blobs'[h] # "none" \/ blobs[h] = "none" \/ Strikes(h),
           owners'[h] = owners[h] \/ owners[h] = NoOwner \/ Strikes(h),
           owners'[h] \in {owners[h], NoOwner} \/ Uploader(owners[h], h, restarts)',
           blobs'[h] = "partial" =>
               storage = "local" /\ \E w \in Requests : req'[w].st = "write" /\ req'[w].file = h,
           (* what the requests become *)
           \A w \in Requests : req[w].st = "write" /\ req[w].file # h => req'[w].st = "write",
           \A q \in Requests : req'[q].st \in Stages /\ req[q].st \notin Stages =>
               req'[q].past = DeletesOver(req'[q].file) /\ req'[q].epoch = restarts
               /\ req'[q].st \in {"put", "owner"},
           \A d \in Requests : req'[d].st \in DeleteStages /\ req[d].st \notin DeleteStages =>
               Live(d) /\ owners[req[d].file] = req[d].caller,
           \A r \in Requests : Uploading(r)' =>
               Uploading(r) \/ blobs'[req'[r].file] # "none",
           \A r \in Requests : Answered(r)' /\ ~ Answered(r) /\ Unhurt(r)' =>
               /\ blobs'[req'[r].file] # "none" /\ owners'[req'[r].file] = req'[r].caller
               /\ ~ Strikes(req[r].file)' /\ req'[r].epoch = restarts
    PROVE  History'
<1>. USE DEF History
<1>0. restarts \in Nat /\ restarts' \in Nat /\ restarts' >= restarts /\ restarts' = restarts
  BY DEF TypeOK
<1>1. /\ \A g \in Hashes : Deletes(g) \subseteq Deletes(g)'
      /\ \A g \in Hashes : DeletesOver(g) \subseteq DeletesOver(g)'
      /\ \A g \in Hashes : \A d \in Deletes(g) :
            req'[d].caller = req[d].caller /\ req'[d].epoch = req[d].epoch
      /\ \A f \in Fps, g \in Hashes, e \in Nat : Uploader(f, g, e) => Uploader(f, g, e)'
      /\ \A r \in Requests : Answered(r) => req'[r] = req[r] /\ (Unhurt(r)' => Unhurt(r))
  BY <1>0, Remembers
<1>2. \A r \in Requests : req'[r].st \in Stages => req'[r].file \in Hashes /\ req'[r].epoch \in Nat
  BY HandledType, TypeOK' DEF TypeOK, ReqType, Handled, Downloaded, Idle, Stages, InFlight, Finished
<1>3. CutShort'
  <2>. SUFFICES ASSUME NEW g \in Hashes, blobs'[g] = "partial"
                PROVE  storage = "local" /\ \E w \in Requests : req'[w].st = "write" /\ req'[w].file = g
    BY DEF CutShort
  <2>1. CASE g # h
    <3>1. PICK w \in Requests : req[w].st = "write" /\ req[w].file = g
      BY <2>1 DEF CutShort
    <3>2. req'[w].st = "write" /\ req'[w].file = g
      BY <3>1, <2>1 DEF Moves, Stages, InFlight
    <3>. QED
      BY <3>2, <2>1 DEF CutShort
  <2>. QED
    BY <2>1
<1>4. PastOver'
  <2>. SUFFICES ASSUME NEW r \in Requests, req'[r].st \in Stages
                PROVE  req'[r].past \subseteq DeletesOver(req[r].file)'
                       /\ req'[r].epoch <= restarts'
    BY DEF PastOver
  <2>1. CASE req[r].st \in Stages
    <3>1. req[r].past \subseteq DeletesOver(req[r].file) /\ req[r].epoch <= restarts
      BY <2>1 DEF PastOver
    <3>2. req'[r].past = req[r].past /\ req'[r].file = req[r].file /\ req'[r].epoch = req[r].epoch
      BY <2>1 DEF Moves
    <3>. QED
      BY <3>1, <3>2, <1>0, <1>1, <1>2
  <2>2. CASE req[r].st \notin Stages
    BY <2>2, <1>0, <1>1, <1>2
  <2>. QED
    BY <2>1, <2>2
<1>5. Registered'
  <2>. SUFFICES ASSUME NEW g \in Hashes, owners'[g] # NoOwner
                PROVE  Uploader(owners[g], g, restarts)'
    BY DEF Registered
  <2>1. CASE owners'[g] = owners[g]
    <3>1. Uploader(owners[g], g, restarts) /\ owners[g] \in Fps
      BY <2>1 DEF Registered, TypeOK
    <3>. QED
      BY <3>1, <2>1, <1>0, <1>1 DEF Uploader, Answered
  <2>. QED
    BY <2>1
<1>6. DeletersUploaded'
  <2>. SUFFICES ASSUME NEW g \in Hashes, NEW d \in Deletes(g)'
                PROVE  Uploader(req[d].caller, g, req[d].epoch)'
    BY DEF DeletersUploaded
  <2>0. d \in Requests /\ req'[d].st \in DeleteStages /\ req'[d].file = g
    BY DEF Deletes, DeleteStages
  <2>1. PICK e \in Nat, f \in Fps :
          e = req'[d].epoch /\ f = req'[d].caller /\ Uploader(f, g, e)
    <3>1. CASE req[d].st \in DeleteStages
      <4>1. req[d].st \in Stages
        BY <3>1 DEF DeleteStages, Stages, InFlight, Finished
      <4>2. req[d].file = g /\ d \in Deletes(g)
        BY <2>0, <3>1, <4>1 DEF Moves, Deletes, DeleteStages
      <4>3. Uploader(req[d].caller, g, req[d].epoch)
        BY <4>2 DEF DeletersUploaded
      <4>. QED
        BY <4>1, <4>3, <2>0, HandledType DEF Moves
    <3>2. CASE req[d].st \notin DeleteStages
      <4>1. Live(d) /\ owners[req[d].file] = req[d].caller /\ req[d].st \in Stages
        BY <3>2, <2>0 DEF Live, Stages
      <4>2. req[d].file = g /\ req[d].caller \in Fps /\ req[d].epoch = restarts
            /\ req'[d].caller = req[d].caller /\ req'[d].epoch = req[d].epoch
        BY <4>1, <2>0, HandledType DEF Moves, Live
      <4>3. Uploader(req[d].caller, g, restarts)
        BY <4>1, <4>2, FilesAssumption DEF Registered
      <4>. QED
        BY <4>2, <4>3, <1>0
    <3>. QED
      BY <3>1, <3>2
  <2>2. Uploader(f, g, e)'
    BY <2>1, <1>1
  <2>. QED
    BY <2>1, <2>2 DEF Uploader, Answered
<1>7. \A r \in Requests, d \in Requests : req[r].st \in Stages /\ d \in Deletes(req[r].file) /\ Live(d) =>
         d \in Deletes(req[r].file)' /\ d \notin req[r].past /\ req'[r].file = req[r].file
  BY <1>1, HandledType DEF PastOver, DeletesOver, Moves
<1>8. UnderWay'
  <2>. SUFFICES ASSUME NEW r \in Requests, Uploading(r)',
                       Deletes(req[r].file)' \subseteq req'[r].past,
                       blobs'[req'[r].file] = "none"
                PROVE  FALSE
    BY DEF UnderWay, Uploading
  <2>1. Uploading(r) /\ req[r].st \in Stages
    BY DEF Uploading, Live, Stages
  <2>2. req'[r].file = req[r].file /\ req'[r].past = req[r].past /\ req[r].file \in Hashes
    BY <2>1, HandledType DEF Moves
  <2>3. Deletes(req[r].file) \subseteq req[r].past
    BY <2>2, <1>1
  <2>4. blobs[req[r].file] # "none"
    BY <2>1, <2>3 DEF UnderWay, Uploading
  <2>5. req[r].file = h /\ Strikes(h)
    BY <2>2, <2>4
  <2>6. PICK d \in Deletes(h) : Live(d)
    BY <2>5 DEF Strikes
  <2>. QED
    BY <2>1, <2>3, <2>5, <2>6, <1>7 DEF Deletes
<1>9. KeptNow'
  <2>. SUFFICES ASSUME NEW r \in Requests, Answered(r)', req'[r].epoch = restarts', Unhurt(r)'
                PROVE  /\ blobs'[req'[r].file] # "none"
                       /\ owners'[req'[r].file] = req'[r].caller
                       /\ ~ Strikes(req[r].file)'
    BY DEF KeptNow, DeletesOver, Strikes
  <2>1. CASE Answered(r)
    <3>1. req'[r] = req[r] /\ Unhurt(r) /\ req[r].st \in Stages /\ req[r].file \in Hashes
          /\ req[r].caller \in Fps
      BY <2>1, <1>1, HandledType DEF Answered, Stages, Finished
    <3>2. /\ blobs[req[r].file] # "none" /\ owners[req[r].file] = req[r].caller
          /\ ~ Strikes(req[r].file)
      BY <2>1, <3>1, <1>0 DEF KeptNow, DeletesOver, Strikes
    <3>3. blobs'[req[r].file] # "none" /\ owners'[req[r].file] = req[r].caller
      BY <3>1, <3>2, FilesAssumption
    <3>4. ASSUME NEW d \in Deletes(req[r].file)', Live(d)' PROVE FALSE
      <4>1. d \in Requests /\ req'[d].st \in DeleteStages /\ req'[d].file = req[r].file
        BY <3>1 DEF Deletes, DeleteStages
      <4>2. CASE req[d].st \in DeleteStages
        <5>1. req[d].st \in Stages
          BY <4>2 DEF DeleteStages, Stages, InFlight, Finished
        <5>2. d \in Deletes(req[r].file) /\ req[d].epoch = req'[d].epoch
          BY <4>1, <4>2, <5>1 DEF Moves, Deletes, DeleteStages
        <5>3. req[d].st \in InFlight
          BY <5>1, <4>1, <3>4 DEF Moves, Live, Stages, InFlight, Finished
        <5>. QED
          BY <5>2, <5>3, <3>2, <3>4, <1>0 DEF Strikes, Live
      <4>3. CASE req[d].st \notin DeleteStages
        <5>1. Live(d) /\ owners[req[d].file] = req[d].caller /\ req[d].st \in Stages
          BY <4>1, <4>3 DEF Live, Stages
        <5>2. req'[d].caller = req[r].caller
          BY <4>1, <5>1, <3>2 DEF Moves
        <5>3. d \notin req[r].past
          <6>1. d \in req[r].past => d \in Deletes(req[r].file)
            BY <3>1 DEF PastOver, DeletesOver
          <6>. QED
            BY <6>1, <4>3 DEF Deletes, DeleteStages
        <5>4. d \in OwnDeletes(r)'
          BY <3>1, <3>4, <5>2, <5>3 DEF OwnDeletes
        <5>. QED
          BY <5>4 DEF Unhurt
      <4>. QED
        BY <4>2, <4>3
    <3>. QED
      BY <3>1, <3>3, <3>4 DEF Strikes
  <2>2. CASE ~ Answered(r)
    BY <2>2
  <2>. QED
    BY <2>1, <2>2
<1>10. KeptLater'
  <2>. SUFFICES ASSUME NEW r \in Requests, Answered(r)', req'[r].epoch # restarts', Unhurt(r)',
                       storage = "local", blobs'[req'[r].file] = "none"
                PROVE  DeletedSince(r)'
    BY DEF KeptLater
  <2>1. Answered(r)
    BY <1>0
  <2>2. /\ req'[r] = req[r] /\ Unhurt(r) /\ req[r].st \in Stages /\ req[r].file \in Hashes
        /\ req[r].epoch \in Nat /\ req[r].epoch < restarts
    BY <2>1, <1>0, <1>1, HandledType DEF Answered, Stages, Finished, PastOver
  <2>3. CASE DeletedSince(r)
    BY <2>2, <2>3, <1>1 DEF DeletedSince
  <2>4. CASE ~ DeletedSince(r)
    <3>1. blobs[req[r].file] # "none"
      BY <2>1, <2>2, <2>4 DEF KeptLater
    <3>2. req[r].file = h /\ Strikes(h)
      BY <3>1, <2>2
    <3>3. PICK d \in Deletes(h) : Live(d)
      BY <3>2 DEF Strikes
    <3>4. req[d].epoch > req[r].epoch
      BY <3>3, <2>2, <1>0 DEF Live
    <3>. QED
      BY <3>2, <3>3, <3>4, <2>4 DEF DeletedSince
  <2>. QED
    BY <2>3, <2>4
<1>. QED
  BY <1>3, <1>4, <1>5, <1>6, <1>8, <1>9, <1>10

(* A step of one request leaves other files as they are; if it fits its    *)
(* own file it keeps Alone and StagesOK.                                   *)
LEMMA StageStep ==
    ASSUME IInv, NEW r \in Requests, NEW h \in Hashes, IsBusy(r, h),
           UNCHANGED <<storage, restarts, disturbed>>,
           \A g \in Hashes \ {h} : blobs'[g] = blobs[g] /\ owners'[g] = owners[g],
           req'[r].file = h, req'[r].epoch = req[r].epoch,
           \A s \in Requests \ {r} :
              \/ req'[s] = req[s]
              \/ IsBusy(s, h) /\ IsBusy(s, h)'
              \/ ~ Live(s) /\ ~ Live(s)',
           Remembered /\ h \notin disturbed =>
              IF req'[r].st \in InFlight THEN StageOK(r)' ELSE Settled(h)'
    PROVE  Alone' /\ StagesOK'
<1>1. \A g \in Hashes, s \in Requests : IsBusy(s, g)' => IsBusy(s, g)
  BY DEF IsBusy, Live
<1>2. Alone'
  BY <1>1 DEF IInv, Alone, IsBusy
<1>3. StagesOK'
  <2> SUFFICES ASSUME Remembered, NEW g \in Hashes \ disturbed
               PROVE  /\ ~ Busy(g)' => Settled(g)'
                      /\ \A s \in Requests : IsBusy(s, g)' => StageOK(s)'
    BY DEF StagesOK, Remembered, Settled
  <2>1. CASE g = h
    <3>1. \A s \in Requests \ {r} : ~ IsBusy(s, h) /\ ~ IsBusy(s, h)'
      BY <1>1, <2>1 DEF IInv, Alone
    <3>2. Busy(h)' <=> req'[r].st \in InFlight
      BY <3>1 DEF Busy, IsBusy, Live
    <3>. QED
      BY <2>1, <3>1, <3>2 DEF IsBusy, Live
  <2>2. CASE g # h
    <3>1. ~ IsBusy(r, g) /\ ~ IsBusy(r, g)'
      BY <2>2 DEF IsBusy
    <3>2. \A s \in Requests : IsBusy(s, g) \/ IsBusy(s, g)' => req'[s] = req[s]
      BY <3>1, <2>2 DEF IsBusy, Live
    <3>3. Busy(g)' <=> Busy(g)
      BY <3>2 DEF Busy, IsBusy, Live
    <3>4. Settled(g)' <=> Settled(g)
      BY <2>2 DEF Settled
    <3>5. ASSUME NEW s \in Requests, IsBusy(s, g)'
          PROVE  StageOK(s)'
      <4>1. req'[s] = req[s] /\ req[s].file = g /\ StageOK(s)
        BY <3>2, <3>5 DEF IsBusy, Live, IInv, StagesOK
      <4>. QED
        BY <4>1, <2>2 DEF StageOK, Settled
    <3>. QED
      BY <3>3, <3>4, <3>5 DEF IInv, StagesOK
  <2>. QED
    BY <2>1, <2>2
<1>. QED
  BY <1>2, <1>3

(* The same, for a step that moves one request. *)
LEMMA OneRequest ==
    ASSUME IInv, TypeOK', NEW r \in Requests, NEW h \in Hashes, IsBusy(r, h), Moves,
           UNCHANGED <<storage, restarts>>,
           \A q \in Requests \ {r} : req'[q] = req[q],
           \A g \in Hashes \ {h} : blobs'[g] = blobs[g] /\ owners'[g] = owners[g],
           blobs'[h] # "none" \/ blobs[h] = "none",
           owners'[h] = owners[h] \/ owners[h] = NoOwner \/ Strikes(h),
           owners'[h] \in {owners[h], NoOwner} \/ Uploader(owners[h], h, restarts)',
           blobs'[h] = "partial" =>
               \/ storage = "local" /\ req'[r].st = "write"
               \/ blobs[h] = "partial" /\ req[r].st # "write",
           req'[r].st \in DeleteStages /\ req[r].st \notin DeleteStages =>
               owners[h] = req[r].caller,
           req'[r].st \in {"write", "unlinked", "register"} =>
               req[r].st \in {"write", "unlinked", "register"} \/ blobs'[h] # "none",
           req'[r].st = "created" /\ Unhurt(r)' =>
               blobs'[h] # "none" /\ owners'[h] = req'[r].caller /\ ~ Strikes(h)'
    PROVE  History'
<1>1. /\ Live(r) /\ req[r].st \in Stages /\ req[r].file = h /\ req[r].epoch = restarts
      /\ req'[r].st \in Stages /\ req'[r].file = h /\ req'[r].epoch = restarts
      /\ req[r].st # "created"
  BY DEF IsBusy, Live, Moves, Stages, InFlight
<1>2. blobs'[h] = "partial" =>
         storage = "local" /\ \E w \in Requests : req'[w].st = "write" /\ req'[w].file = h
  <2>1. ASSUME blobs[h] = "partial", req[r].st # "write"
        PROVE  storage = "local" /\ \E w \in Requests : req'[w].st = "write" /\ req'[w].file = h
    <3>1. storage = "local" /\ \E w \in Requests : req[w].st = "write" /\ req[w].file = h
      BY <2>1 DEF IInv, History, CutShort
    <3>. QED
      BY <3>1, <2>1
  <2>. QED
    BY <2>1, <1>1
<1>3. \A w \in Requests : req[w].st = "write" /\ req[w].file # h => req'[w].st = "write"
  BY <1>1
<1>4. \A q \in Requests : ~ (req'[q].st \in Stages /\ req[q].st \notin Stages)
  BY <1>1
<1>5. \A d \in Requests : req'[d].st \in DeleteStages /\ req[d].st \notin DeleteStages =>
         Live(d) /\ owners[req[d].file] = req[d].caller
  BY <1>1
<1>6. \A q \in Requests : Uploading(q)' => Uploading(q) \/ blobs'[req'[q].file] # "none"
  BY <1>1 DEF Uploading, Live
<1>7. ASSUME NEW q \in Requests, Answered(q)', ~ Answered(q), Unhurt(q)'
      PROVE  /\ blobs'[req'[q].file] # "none" /\ owners'[req'[q].file] = req'[q].caller
             /\ ~ Strikes(req[q].file)' /\ req'[q].epoch = restarts
  <2>1. q = r
    BY <1>7 DEF Answered
  <2>. QED
    BY <2>1, <1>1, <1>7 DEF Answered, Strikes
<1>. QED
  BY <1>2, <1>3, <1>4, <1>5, <1>6, <1>7, HistoryStep DEF IInv

-----------------------------------------------------------------------------
(* An empty server satisfies the invariant. *)
LEMMA InitIInv == Init => IInv
<1> SUFFICES ASSUME Init PROVE IInv
  OBVIOUS
<1>1. \A r \in Requests : req[r].st = "idle"
  BY DEF Init, Idle
<1>2. TypeOK
  BY DEF Init, TypeOK, ReqType, Contents
<1>3. \A r \in Requests : ~ Live(r) /\ req[r].st \notin Stages /\ ~ Answered(r)
  BY <1>1 DEF Live, InFlight, Stages, Finished, Answered
<1>4. \A h \in Hashes : Deletes(h) = {} /\ blobs[h] = "none" /\ owners[h] = NoOwner
  BY <1>1 DEF Init, Deletes
<1>5. History
  BY <1>3, <1>4 DEF History, CutShort, PastOver, Registered, DeletersUploaded, UnderWay,
                    KeptNow, KeptLater
<1>6. StagesOK
  BY <1>3, <1>4 DEF StagesOK, Settled, IsBusy
<1>. QED
  BY <1>1, <1>2, <1>3, <1>5, <1>6 DEF IInv, WritesLocal, Alone, IsBusy

(* A request arrives: it is alone with its file, or disturbs it. *)
LEMMA ArriveStep ==
    ASSUME IInv, NEW r \in Requests, NEW f \in Fps, NEW h \in Hashes,
           NEW s \in {"put", "owner"}, Arrive(r, f, h, s)
    PROVE  IInv'
<1>. DEFINE x == [st |-> s, caller |-> f, file |-> h, epoch |-> restarts,
                  past |-> DeletesOver(h), stale |-> {}]
<1>1. /\ req' = [req EXCEPT ![r] = x] /\ req[r].st = "idle"
      /\ UNCHANGED <<storage, blobs, owners, restarts>>
      /\ disturbed' = IF Busy(h) THEN disturbed \union {h} ELSE disturbed
  BY DEF Arrive, Idle, Touch
<1>2. /\ x \in Handled /\ x.st \in {"put", "owner"} /\ x.file = h
      /\ x.epoch = restarts /\ x.past = DeletesOver(h)
  <2>1. DeletesOver(h) \subseteq Requests
    BY DEF DeletesOver, Deletes
  <2>. QED
    BY <2>1 DEF Handled, Stages, InFlight, IInv, TypeOK
<1>. HIDE DEF x
<1>3. /\ req'[r] = x /\ \A q \in Requests \ {r} : req'[q] = req[q]
      /\ req' \in [Requests -> ReqType]
  BY <1>1, <1>2 DEF IInv, TypeOK, ReqType
<1>4. TypeOK'
  BY <1>1, <1>3 DEF IInv, TypeOK
<1>5. WritesLocal'
  BY <1>1, <1>2, <1>3 DEF IInv, WritesLocal
<1>6. req[r].st \notin Stages /\ req[r].st \notin DeleteStages
  BY <1>1 DEF Stages, InFlight, Finished, DeleteStages
<1>7. Moves
  BY <1>3, <1>6 DEF Moves, Stages
<1>8. History'
  <2>1. CutShort
    BY DEF IInv, History
  <2>2. \A w \in Requests : req[w].st = "write" => req'[w] = req[w]
    BY <1>1, <1>3
  <2>3. \A q \in Requests : req'[q].st \in DeleteStages => req'[q] = req[q]
    BY <1>2, <1>3 DEF DeleteStages
  <2>4. \A q \in Requests : Uploading(q)' => Uploading(q)
    BY <1>1, <1>2, <1>3 DEF Uploading, Live
  <2>5. \A q \in Requests : Answered(q)' => Answered(q)
    BY <1>2, <1>3 DEF Answered
  <2>6. blobs'[h] = "partial" =>
           storage = "local" /\ \E w \in Requests : req'[w].st = "write" /\ req'[w].file = h
    BY <1>1, <2>1, <2>2 DEF CutShort
  <2>7. \A q \in Requests : req'[q].st \in Stages /\ req[q].st \notin Stages =>
           req'[q].past = DeletesOver(req'[q].file) /\ req'[q].epoch = restarts
           /\ req'[q].st \in {"put", "owner"}
    BY <1>2, <1>3
  <2>. QED
    BY <1>1, <1>4, <1>7, <2>2, <2>3, <2>4, <2>5, <2>6, <2>7, HistoryStep DEF IInv
<1>9. \A g \in Hashes, q \in Requests :
        IsBusy(q, g)' => (q = r /\ g = h) \/ (q # r /\ IsBusy(q, g) /\ req'[q] = req[q])
  BY <1>1, <1>2, <1>3 DEF IsBusy, Live
<1>10. Alone'
  <2> SUFFICES ASSUME NEW g \in Hashes \ disturbed', NEW p \in Requests, NEW q \in Requests,
                      IsBusy(p, g)', IsBusy(q, g)', p # q
               PROVE  FALSE
    BY DEF Alone
  <2>1. g \notin disturbed
    BY <1>1
  <2>2. CASE p = r \/ q = r
    <3>1. g = h /\ Busy(h)
      BY <1>9, <2>2 DEF Busy, IsBusy
    <3>. QED
      BY <1>1, <3>1
  <2>3. CASE p # r /\ q # r
    BY <1>9, <2>1, <2>3 DEF IInv, Alone
  <2>. QED
    BY <2>2, <2>3
<1>11. StagesOK'
  <2> SUFFICES ASSUME Remembered, NEW g \in Hashes \ disturbed'
               PROVE  /\ ~ Busy(g)' => Settled(g)
                      /\ \A q \in Requests : IsBusy(q, g)' => StageOK(q)'
    BY <1>1 DEF StagesOK, Remembered, Settled
  <2>1. g \notin disturbed
    BY <1>1
  <2>2. Busy(g) => Busy(g)'
    BY <1>1, <1>3 DEF Busy, Live, InFlight
  <2>3. ASSUME NEW q \in Requests, IsBusy(q, g)' PROVE StageOK(q)'
    <3>1. CASE q = r
      <4>1. g = h /\ ~ Busy(h)
        BY <1>1, <1>9, <2>3, <3>1
      <4>2. Settled(h)
        BY <2>1, <4>1 DEF IInv, StagesOK
      <4>. QED
        BY <1>1, <1>2, <1>3, <3>1, <4>2 DEF StageOK, Settled
    <3>2. CASE q # r
      <4>1. IsBusy(q, g) /\ req'[q] = req[q]
        BY <1>9, <2>3, <3>2
      <4>2. StageOK(q)
        BY <2>1, <4>1 DEF IInv, StagesOK
      <4>. QED
        BY <1>1, <4>1, <4>2 DEF StageOK, Settled
    <3>. QED
      BY <3>1, <3>2
  <2>. QED
    BY <2>1, <2>2, <2>3 DEF IInv, StagesOK
<1>. QED
  BY <1>4, <1>5, <1>8, <1>10, <1>11 DEF IInv

(* An upload writes its file: at once in memory. *)
LEMMA PutMemoryStep ==
    ASSUME IInv, NEW r \in Requests, PutMemory(r)
    PROVE  IInv'
<1> DEFINE h == req[r].file
<1>1. /\ IsBusy(r, h) /\ h \in Hashes /\ req[r].st = "put" /\ Goes(r, "register")
      /\ blobs' = [blobs EXCEPT ![h] = "whole"]
      /\ UNCHANGED <<storage, owners, restarts, disturbed>>
  BY AtBusy DEF PutMemory, IInv, InFlight
<1>2. /\ req'[r].st = "register" /\ req'[r].caller = req[r].caller /\ req'[r].file = h
      /\ req'[r].epoch = req[r].epoch
      /\ \A q \in Requests \ {r} : req'[q] = req[q]
      /\ Moves /\ req' \in [Requests -> ReqType]
  BY <1>1, GoesMoves DEF IInv, InFlight, Stages, DeleteStages, Moves
<1> HIDE DEF h
<1>3. blobs'[h] = "whole" /\ \A g \in Hashes \ {h} : blobs'[g] = blobs[g]
  BY <1>1 DEF IInv, TypeOK
<1>4. TypeOK'
  BY <1>1, <1>2 DEF IInv, TypeOK, Contents
<1>5. WritesLocal'
  BY <1>1, <1>2 DEF IInv, WritesLocal
<1>6. History'
  BY <1>1, <1>2, <1>3, <1>4, OneRequest DEF DeleteStages
<1>7. Alone' /\ StagesOK'
  <2>1. StageOK(r)'
    BY <1>2, <1>3 DEF StageOK
  <2>. QED
    BY <1>1, <1>2, <1>3, <2>1, StageStep DEF InFlight
<1>. QED
  BY <1>4, <1>5, <1>6, <1>7 DEF IInv

(* On disk the file is first truncated ... *)
LEMMA PutOpenStep ==
    ASSUME IInv, NEW r \in Requests, PutOpen(r)
    PROVE  IInv'
<1> DEFINE h == req[r].file
<1>1. /\ IsBusy(r, h) /\ h \in Hashes /\ req[r].st = "put" /\ Goes(r, "write")
      /\ blobs' = [blobs EXCEPT ![h] = "partial"] /\ storage = "local"
      /\ UNCHANGED <<storage, owners, restarts, disturbed>>
  BY AtBusy DEF PutOpen, IInv, InFlight
<1>2. /\ req'[r].st = "write" /\ req'[r].caller = req[r].caller /\ req'[r].file = h
      /\ req'[r].epoch = req[r].epoch
      /\ \A q \in Requests \ {r} : req'[q] = req[q]
      /\ Moves /\ req' \in [Requests -> ReqType]
  BY <1>1, GoesMoves DEF IInv, InFlight, Stages, DeleteStages, Moves
<1> HIDE DEF h
<1>3. blobs'[h] = "partial" /\ \A g \in Hashes \ {h} : blobs'[g] = blobs[g]
  BY <1>1 DEF IInv, TypeOK
<1>4. TypeOK'
  BY <1>1, <1>2 DEF IInv, TypeOK, Contents
<1>5. WritesLocal'
  BY <1>1, <1>2 DEF IInv, WritesLocal
<1>6. History'
  BY <1>1, <1>2, <1>3, <1>4, OneRequest DEF DeleteStages
<1>7. Alone' /\ StagesOK'
  <2>1. StageOK(r)'
    BY <1>2 DEF StageOK
  <2>. QED
    BY <1>1, <1>2, <1>3, <2>1, StageStep DEF InFlight
<1>. QED
  BY <1>4, <1>5, <1>6, <1>7 DEF IInv

(* ... and then filled, unless it has been unlinked. *)
LEMMA PutWriteStep ==
    ASSUME IInv, NEW r \in Requests, PutWrite(r)
    PROVE  IInv'
<1> DEFINE h == req[r].file
<1>1. /\ IsBusy(r, h) /\ h \in Hashes /\ req[r].st \in {"write", "unlinked"}
      /\ Goes(r, "register")
      /\ blobs' = IF req[r].st = "write" THEN [blobs EXCEPT ![h] = "whole"] ELSE blobs
      /\ UNCHANGED <<storage, owners, restarts, disturbed>> /\ storage = "local"
  BY AtBusy DEF PutWrite, At, IInv, InFlight, WritesLocal
<1>2. /\ req'[r].st = "register" /\ req'[r].caller = req[r].caller /\ req'[r].file = h
      /\ req'[r].epoch = req[r].epoch
      /\ \A q \in Requests \ {r} : req'[q] = req[q]
      /\ Moves /\ req' \in [Requests -> ReqType]
  BY <1>1, GoesMoves DEF IInv, InFlight, Stages, DeleteStages, Moves
<1> HIDE DEF h
<1>3. /\ \A g \in Hashes \ {h} : blobs'[g] = blobs[g]
      /\ blobs'[h] = IF req[r].st = "write" THEN "whole" ELSE blobs[h]
  BY <1>1 DEF IInv, TypeOK
<1>4. TypeOK'
  BY <1>1, <1>2 DEF IInv, TypeOK, Contents
<1>5. WritesLocal'
  BY <1>1, <1>2 DEF IInv, WritesLocal
<1>6. History'
  BY <1>1, <1>2, <1>3, <1>4, OneRequest DEF DeleteStages
<1>7. Alone' /\ StagesOK'
  <2>1. Remembered /\ h \notin disturbed => StageOK(r)'
    <3>1. Remembered /\ h \notin disturbed => req[r].st # "unlinked"
      BY <1>1 DEF IInv, StagesOK, StageOK
    <3>. QED
      BY <1>1, <1>2, <1>3, <3>1 DEF StageOK
  <2>. QED
    BY <1>1, <1>2, <1>3, <2>1, StageStep DEF InFlight
<1>. QED
  BY <1>4, <1>5, <1>6, <1>7 DEF IInv

(* The first owner is registered and stays; the upload is answered, kept   *)
(* unless a delete can still strike it.                                    *)
LEMMA RegisterStep ==
    ASSUME IInv, NEW r \in Requests, Register(r)
    PROVE  IInv'
<1>. PICK h \in Hashes, c \in Fps : h = req[r].file /\ c = req[r].caller
  BY AtBusy DEF Register, IInv, InFlight
<1> DEFINE free == owners[h] \in {NoOwner, c}
<1>1. /\ IsBusy(r, h) /\ req[r].file = h /\ req[r].caller = c /\ req[r].st = "register"
      /\ IF free THEN Created(r) ELSE Goes(r, "refused")
      /\ owners' = IF free THEN [owners EXCEPT ![h] = c] ELSE owners
      /\ UNCHANGED <<storage, blobs, restarts, disturbed>>
  BY AtBusy DEF Register, IInv, InFlight
<1>2. /\ req'[r].st = (IF free THEN "created" ELSE "refused")
      /\ req'[r].caller = c /\ req'[r].file = h
      /\ req'[r].epoch = req[r].epoch /\ req'[r].past = req[r].past
      /\ free => req'[r].stale = {d \in Deletes(h) : req[d].caller # c}
      /\ \A q \in Requests \ {r} : req'[q] = req[q]
      /\ Moves /\ req' \in [Requests -> ReqType]
  <2>1. CASE free
    BY <2>1, <1>1, CreatedMoves DEF IInv, Moves
  <2>2. CASE ~ free
    BY <2>2, <1>1, GoesMoves DEF IInv, InFlight, Finished, Stages, DeleteStages, Moves
  <2>. QED
    BY <2>1, <2>2
<1>3. /\ \A g \in Hashes \ {h} : owners'[g] = owners[g]
      /\ owners'[h] = IF free THEN c ELSE owners[h]
      /\ owners'[h] # NoOwner
      /\ owners[h] # NoOwner => owners'[h] = owners[h]
  BY <1>1, FilesAssumption DEF IInv, TypeOK
<1>4. TypeOK'
  BY <1>1, <1>2 DEF IInv, TypeOK
<1>5. WritesLocal'
  BY <1>1, <1>2 DEF IInv, WritesLocal
<1>6. History'
  <2>1. Deletes(h)' = Deletes(h) /\ (Strikes(h)' => Strikes(h))
    BY <1>1, <1>2 DEF Deletes, Strikes, Live
  <2>2. ASSUME free, Unhurt(r)'
        PROVE  blobs'[h] # "none" /\ owners'[h] = req'[r].caller /\ ~ Strikes(h)'
    <3>1. Deletes(h) \subseteq req[r].past
      <4>1. ASSUME NEW d \in Deletes(h) \ req[r].past PROVE FALSE
        <5>1. d # r /\ d \in Requests /\ req'[d] = req[d]
          BY <1>1, <1>2 DEF Deletes
        <5>2. req[d].caller = c => d \in OwnDeletes(r)'
          BY <1>2, <2>1, <5>1 DEF OwnDeletes
        <5>3. req[d].caller # c => d \in req'[r].stale
          BY <1>2, <2>2
        <5>. QED
          BY <5>2, <5>3, <1>2, <2>2 DEF Unhurt
      <4>. QED
        BY <4>1
    <3>2. blobs[h] # "none"
      BY <3>1, <1>1 DEF IInv, History, UnderWay, IsBusy
    <3>3. ~ Strikes(h)
      <4>1. req[r].past \subseteq DeletesOver(h)
        BY <1>1 DEF IInv, History, PastOver, Stages, InFlight
      <4>. QED
        BY <3>1, <4>1 DEF Strikes, DeletesOver
    <3>. QED
      BY <3>2, <3>3, <2>1, <2>2, <1>1, <1>2, <1>3
  <2>3. Uploader(owners[h], h, restarts)'
    <3>1. CASE free
      BY <3>1, <1>1, <1>2, <1>3 DEF Uploader, Answered, IsBusy, Live
    <3>2. CASE ~ free
      <4>1. Uploader(owners[h], h, restarts)
        BY <3>2 DEF IInv, History, Registered
      <4>2. \A q \in Requests : Answered(q) => req'[q] = req[q]
        BY <1>1, <1>2 DEF Answered
      <4>. QED
        BY <4>1, <4>2, <1>1, <3>2 DEF Uploader, Answered
    <3>. QED
      BY <3>1, <3>2
  <2>4. req'[r].st = "created" => free
    BY <1>2
  <2>5. /\ req'[r].st \notin DeleteStages
        /\ req'[r].st \notin {"write", "unlinked", "register"}
        /\ blobs' = blobs /\ UNCHANGED <<storage, restarts>> /\ req[r].st # "write"
        /\ owners'[h] = owners[h] \/ owners[h] = NoOwner
    BY <1>1, <1>2, <1>3 DEF DeleteStages
  <2> HIDE DEF free
  <2>. QED
    BY <1>1, <1>2, <1>3, <1>4, <2>2, <2>3, <2>4, <2>5, OneRequest
<1>7. Alone' /\ StagesOK'
  <2>1. Remembered /\ h \notin disturbed => blobs[h] = "whole"
    BY <1>1 DEF IInv, StagesOK, StageOK
  <2>2. Remembered /\ h \notin disturbed => (blobs'[h] = IF owners'[h] = NoOwner THEN "none" ELSE "whole")
    BY <1>1, <1>3, <2>1
  <2> HIDE DEF free
  <2>4. Remembered /\ h \notin disturbed => Settled(h)'
    BY <2>2 DEF Settled
  <2>. QED
    BY <1>1, <1>2, <1>3, <2>4, StageStep DEF InFlight
<1>. QED
  BY <1>4, <1>5, <1>6, <1>7 DEF IInv

(* A delete asks who owns the file, twice. *)
LEMMA IsOwnerStep ==
    ASSUME IInv, NEW r \in Requests, NEW from, NEW yes, NEW no, IsOwner(r, from, yes, no),
           \/ from = "owner" /\ yes = "delete" /\ no = "refused"
           \/ from = "unregister" /\ yes = "remove" /\ no = "failed"
    PROVE  IInv'
<1>. from \in InFlight
  BY DEF InFlight
<1>. PICK h \in Hashes, c \in Fps : h = req[r].file /\ c = req[r].caller
  BY AtBusy DEF IsOwner, IInv
<1>1. /\ IsBusy(r, h) /\ req[r].file = h /\ req[r].caller = c /\ req[r].st = from
      /\ Goes(r, IF owners[h] = c THEN yes ELSE no)
      /\ UNCHANGED <<storage, blobs, owners, restarts, disturbed>>
  BY AtBusy DEF IsOwner, IInv
<1> DEFINE s == IF owners[h] = c THEN yes ELSE no
<1>2. /\ s \in Stages /\ (from \in DeleteStages => s \in DeleteStages)
      /\ s \notin {"write", "unlinked", "register", "created"}
      /\ s \in DeleteStages /\ from \notin DeleteStages => owners[h] = c
  BY DEF Stages, InFlight, Finished, DeleteStages
<1>3. Goes(r, s)
  BY <1>1
<1> HIDE DEF s
<1>4. /\ req'[r].st = s
      /\ req'[r].caller = c /\ req'[r].file = h /\ req'[r].epoch = req[r].epoch
      /\ \A q \in Requests \ {r} : req'[q] = req[q]
      /\ Moves /\ req' \in [Requests -> ReqType]
  BY <1>1, <1>2, <1>3, GoesMoves DEF IInv, Moves
<1>5. TypeOK'
  BY <1>1, <1>4 DEF IInv, TypeOK
<1>6. WritesLocal'
  BY <1>1, <1>2, <1>4 DEF IInv, WritesLocal
<1>7. History'
  <2>1. blobs' = blobs /\ owners' = owners /\ req'[r].st # "created"
    BY <1>1, <1>2, <1>4
  <2>2. blobs'[h] = "partial" => blobs[h] = "partial" /\ req[r].st # "write"
    BY <1>1
  <2>. QED
    BY <1>1, <1>2, <1>4, <1>5, <2>1, <2>2, OneRequest
<1>8. Alone' /\ StagesOK'
  <2>1. ASSUME Remembered, h \notin disturbed
        PROVE  IF req'[r].st \in InFlight THEN StageOK(r)' ELSE Settled(h)'
    <3>1. StageOK(r)
      BY <1>1, <2>1 DEF IInv, StagesOK
    <3>2. CASE from = "owner" /\ yes = "delete" /\ no = "refused"
      BY <1>1, <1>4, <3>1, <3>2 DEF StageOK, Settled, InFlight, s
    <3>3. CASE from = "unregister" /\ yes = "remove" /\ no = "failed"
      BY <1>1, <1>4, <3>1, <3>3 DEF StageOK, Settled, InFlight, s
    <3>. QED
      BY <3>2, <3>3
  <2>. QED
    BY <1>1, <1>4, <2>1, StageStep
<1>. QED
  BY <1>5, <1>6, <1>7, <1>8 DEF IInv

(* A delete removes the file, also from under those who are writing it.    *)
LEMMA DeleteBlobStep ==
    ASSUME IInv, NEW r \in Requests, DeleteBlob(r)
    PROVE  IInv'
<1>. PICK h \in Hashes : h = req[r].file
  BY AtBusy DEF DeleteBlob, IInv, InFlight
<1>1. /\ IsBusy(r, h) /\ req[r].file = h /\ req[r].st = "delete" /\ req[r] \in Handled
      /\ blobs' = [blobs EXCEPT ![h] = "none"]
      /\ UNCHANGED <<storage, owners, restarts, disturbed>>
  BY AtBusy, HandledType DEF DeleteBlob, IInv, InFlight
<1>2. /\ req'[r] \in Handled /\ req'[r].st = "unregister"
      /\ req'[r].caller = req[r].caller /\ req'[r].file = h
      /\ req'[r].epoch = req[r].epoch /\ req'[r].past = req[r].past
  BY <1>1 DEF DeleteBlob, Handled, Stages, InFlight
<1>3. ASSUME NEW q \in Requests \ {r}, req[q].st = "write", req[q].file = h
      PROVE  /\ req'[q] \in Handled /\ req'[q].st = "unlinked" /\ req'[q].file = h
             /\ req'[q].caller = req[q].caller
             /\ req'[q].epoch = req[q].epoch /\ req'[q].past = req[q].past
  <2>1. req[q] \in Handled
    BY <1>3, HandledType DEF IInv, Stages, InFlight
  <2>2. req'[q] = [req[q] EXCEPT !.st = "unlinked"]
    BY <1>1, <1>3 DEF DeleteBlob
  <2>. QED
    BY <1>3, <2>1, <2>2 DEF Handled, Stages, InFlight
<1>4. \A q \in Requests \ {r} : req[q].st # "write" \/ req[q].file # h => req'[q] = req[q]
  BY <1>1 DEF DeleteBlob
<1>5. blobs'[h] = "none" /\ \A g \in Hashes \ {h} : blobs'[g] = blobs[g]
  BY <1>1 DEF IInv, TypeOK
<1>6. req' \in [Requests -> ReqType]
  <2>1. \A q \in Requests : req'[q] \in ReqType
    BY <1>2, <1>3, <1>4 DEF IInv, TypeOK, ReqType
  <2>2. PICK f : req' = [q \in Requests |-> f[q]]
    BY ZenonT(60) DEF DeleteBlob
  <2>. QED
    BY <2>1, <2>2
<1>7. TypeOK'
  BY <1>1, <1>6 DEF IInv, TypeOK, Contents
<1>8. WritesLocal'
  BY <1>1, <1>2, <1>3, <1>4 DEF IInv, WritesLocal
<1>9. Moves
  <2>1. \A q \in Requests \ {r} :
          \/ req'[q] = req[q]
          \/ /\ req[q].st = "write" /\ req'[q].st = "unlinked"
             /\ req'[q].caller = req[q].caller /\ req'[q].file = req[q].file
             /\ req'[q].epoch = req[q].epoch /\ req'[q].past = req[q].past
    BY <1>3, <1>4
  <2>. QED
    BY <1>1, <1>2, <1>6, <2>1 DEF Moves, Stages, InFlight, Finished, DeleteStages
<1>10. History'
  <2>1. Strikes(h)
    BY <1>1 DEF Strikes, Deletes, IsBusy
  <2>2. \A w \in Requests : req[w].st = "write" /\ req[w].file # h => req'[w].st = "write"
    BY <1>1, <1>4
  <2>3. \A q \in Requests : ~ (req'[q].st \in Stages /\ req[q].st \notin Stages)
    BY <1>1, <1>3, <1>4 DEF Stages, InFlight
  <2>4. \A d \in Requests : ~ (req'[d].st \in DeleteStages /\ req[d].st \notin DeleteStages)
    BY <1>1, <1>3, <1>4 DEF DeleteStages
  <2>5. \A q \in Requests : Uploading(q)' => Uploading(q)
    BY <1>1, <1>2, <1>3, <1>4 DEF Uploading, Live, InFlight
  <2>6. \A q \in Requests : Answered(q)' => Answered(q)
    BY <1>2, <1>3, <1>4 DEF Answered
  <2>. QED
    BY <1>1, <1>5, <1>7, <1>9, <2>1, <2>2, <2>3, <2>4, <2>5, <2>6, HistoryStep DEF IInv
<1>11. Alone' /\ StagesOK'
  <2>1. Remembered /\ h \notin disturbed => StageOK(r)'
    <3>1. Remembered /\ h \notin disturbed => owners[h] = req[r].caller
      BY <1>1 DEF IInv, StagesOK, StageOK
    <3>. QED
      BY <1>1, <1>2, <1>5, <3>1 DEF StageOK
  <2>2. \A q \in Requests \ {r} : req'[q] = req[q] \/ (req[q].st = "write" /\ req[q].file = h)
    BY <1>4
  <2>3. ASSUME NEW q \in Requests \ {r}, IsBusy(q, h), req[q].st = "write", req[q].file = h
        PROVE  IsBusy(q, h)'
    BY <1>1, <1>3, <2>3 DEF IsBusy, Live, InFlight
  <2>4. \A g \in Hashes, q \in Requests : IsBusy(q, g)' => IsBusy(q, g)
    BY <1>1, <1>2, <1>3, <1>4 DEF IsBusy, Live, InFlight
  <2>5. \A q \in Requests \ {r} :
          \/ req'[q] = req[q]
          \/ IsBusy(q, h) /\ IsBusy(q, h)'
          \/ ~ Live(q) /\ ~ Live(q)'
    BY <1>1, <1>3, <2>2, <2>3, <2>4 DEF IsBusy, Live, InFlight
  <2>. QED
    BY <1>1, <1>2, <1>5, <2>1, <2>5, StageStep DEF InFlight
<1>. QED
  BY <1>7, <1>8, <1>10, <1>11 DEF IInv

(* The registration goes last. *)
LEMMA RemoveStep ==
    ASSUME IInv, NEW r \in Requests, Remove(r)
    PROVE  IInv'
<1>. PICK h \in Hashes : h = req[r].file
  BY AtBusy DEF Remove, IInv, InFlight
<1>1. /\ IsBusy(r, h) /\ req[r].file = h /\ req[r].st = "remove" /\ Goes(r, "deleted")
      /\ owners' = [owners EXCEPT ![h] = NoOwner]
      /\ UNCHANGED <<storage, blobs, restarts, disturbed>>
  BY AtBusy DEF Remove, IInv, InFlight
<1>2. /\ req'[r].st = "deleted" /\ req'[r].caller = req[r].caller /\ req'[r].file = h
      /\ req'[r].epoch = req[r].epoch
      /\ \A q \in Requests \ {r} : req'[q] = req[q]
      /\ Moves /\ req' \in [Requests -> ReqType]
  BY <1>1, GoesMoves DEF IInv, InFlight, Finished, Stages, DeleteStages, Moves
<1>3. owners'[h] = NoOwner /\ \A g \in Hashes \ {h} : owners'[g] = owners[g]
  BY <1>1 DEF IInv, TypeOK
<1>4. TypeOK'
  BY <1>1, <1>2 DEF IInv, TypeOK
<1>5. WritesLocal'
  BY <1>1, <1>2 DEF IInv, WritesLocal
<1>6. History'
  <2>1. Strikes(h)
    BY <1>1 DEF Strikes, Deletes, IsBusy
  <2>. QED
    BY <1>1, <1>2, <1>3, <1>4, <2>1, OneRequest DEF DeleteStages
<1>7. Alone' /\ StagesOK'
  <2>1. Remembered /\ h \notin disturbed => Settled(h)'
    <3>1. Remembered /\ h \notin disturbed => blobs[h] = "none"
      BY <1>1 DEF IInv, StagesOK, StageOK
    <3>. QED
      BY <1>1, <1>3, <3>1 DEF Settled
  <2>2. req'[r].st \notin InFlight
    BY <1>2 DEF InFlight
  <2>. QED
    BY <1>1, <1>2, <1>3, <2>1, <2>2, StageStep
<1>. QED
  BY <1>4, <1>5, <1>6, <1>7 DEF IInv

(* A download takes what is there. *)
LEMMA DownloadStep ==
    ASSUME IInv, NEW r \in Requests, NEW h \in Hashes, Download(r, h)
    PROVE  IInv'
<1> DEFINE x == [st |-> "downloaded", file |-> h, data |-> blobs[h]]
<1>1. /\ req' = [req EXCEPT ![r] = x] /\ req[r].st = "idle"
      /\ UNCHANGED <<storage, blobs, owners, restarts, disturbed>>
  BY DEF Download, Idle
<1>2. x \in Downloaded /\ x.st = "downloaded"
  BY DEF Downloaded, IInv, TypeOK
<1> HIDE DEF x
<1>3. /\ req'[r] = x /\ \A q \in Requests \ {r} : req'[q] = req[q]
      /\ req' \in [Requests -> ReqType]
  BY <1>1, <1>2 DEF IInv, TypeOK, ReqType
<1>4. TypeOK'
  BY <1>1, <1>3 DEF IInv, TypeOK
<1>5. WritesLocal'
  BY <1>1, <1>2, <1>3 DEF IInv, WritesLocal
<1>6. \A q \in Requests :
        \/ req'[q] = req[q]
        \/ req[q].st \notin Stages \union {"write"} /\ req'[q].st \notin Stages
  BY <1>1, <1>2, <1>3 DEF Stages, InFlight, Finished
<1>7. Moves
  BY <1>3, <1>6 DEF Moves, Stages, Finished, DeleteStages, InFlight
<1>8. History'
  <2>1. CutShort
    BY DEF IInv, History
  <2>2. \A w \in Requests : req[w].st = "write" => req'[w] = req[w]
    BY <1>6
  <2>3. \A d \in Requests : req'[d].st \in DeleteStages => req'[d] = req[d]
    BY <1>6 DEF Stages, InFlight, Finished, DeleteStages
  <2>4. \A q \in Requests : Uploading(q)' => Uploading(q)
    BY <1>1, <1>6 DEF Uploading, Live, Stages, InFlight
  <2>5. \A q \in Requests : Answered(q)' => Answered(q)
    BY <1>6 DEF Answered, Stages, Finished
  <2>6. \A q \in Requests : ~ (req'[q].st \in Stages /\ req[q].st \notin Stages)
    BY <1>6
  <2>7. blobs'[h] = "partial" =>
           storage = "local" /\ \E w \in Requests : req'[w].st = "write" /\ req'[w].file = h
    BY <1>1, <2>1, <2>2 DEF CutShort
  <2>. QED
    BY <1>1, <1>4, <1>7, <2>2, <2>3, <2>4, <2>5, <2>6, <2>7, HistoryStep DEF IInv
<1>9. \A g \in Hashes, q \in Requests :
        /\ IsBusy(q, g)' <=> IsBusy(q, g)
        /\ IsBusy(q, g) => req'[q] = req[q]
  BY <1>1, <1>2, <1>3 DEF IsBusy, Live, InFlight
<1>10. Alone'
  BY <1>1, <1>9 DEF IInv, Alone
<1>11. StagesOK'
  <2> SUFFICES ASSUME Remembered, NEW g \in Hashes \ disturbed
               PROVE  /\ ~ Busy(g)' => Settled(g)
                      /\ \A q \in Requests : IsBusy(q, g)' => StageOK(q)'
    BY <1>1 DEF StagesOK, Remembered, Settled
  <2>1. Busy(g) <=> Busy(g)'
    BY <1>9 DEF Busy, IsBusy
  <2>2. ASSUME NEW q \in Requests, IsBusy(q, g)' PROVE StageOK(q)'
    <3>1. req'[q] = req[q] /\ StageOK(q)
      BY <1>9, <2>2 DEF IInv, StagesOK
    <3>. QED
      BY <1>1, <3>1 DEF StageOK, Settled
  <2>. QED
    BY <2>1, <2>2 DEF IInv, StagesOK
<1>. QED
  BY <1>4, <1>5, <1>8, <1>10, <1>11 DEF IInv

(* A restart breaks off every request and forgets the owners, and in       *)
(* memory the files too, so that all is settled again; on disk the stores  *)
(* are apart from then on, and what was kept so far stays.                 *)
LEMMA RestartStep ==
    ASSUME IInv, Restart
    PROVE  IInv'
<1>1. /\ restarts' = restarts + 1 /\ restarts \in Nat
      /\ owners' = [h \in Hashes |-> NoOwner]
      /\ blobs' = IF storage = "local" THEN blobs ELSE [h \in Hashes |-> "none"]
      /\ UNCHANGED <<storage, req, disturbed>>
  BY DEF Restart, IInv, TypeOK
<1>2. TypeOK'
  <2>1. blobs' \in [Hashes -> Contents]
    BY <1>1 DEF IInv, TypeOK, Contents
  <2>. QED
    BY <1>1, <2>1 DEF IInv, TypeOK
<1>3. \A r \in Requests : req[r].st \in Stages => req[r].epoch \in Nat /\ req[r].epoch <= restarts
  BY HandledType DEF IInv, History, PastOver
<1>4. \A r \in Requests : ~ Live(r)'
  BY <1>1, <1>3 DEF Live, Stages
<1>5. Moves
  BY <1>1 DEF Moves, IInv, TypeOK
<1>6. \A h \in Hashes : Deletes(h)' = Deletes(h)
  BY <1>1 DEF Deletes
<1>7. \A r \in Requests : Answered(r) => (Unhurt(r)' <=> Unhurt(r)) /\ req[r].file \in Hashes
  <2>1. \A r \in Requests : Answered(r) => req[r].file \in Hashes
    BY HandledType DEF Answered, IInv, Stages, Finished
  <2>. QED
    BY <1>1, <1>6, <2>1 DEF Unhurt, OwnDeletes
<1>8. History'
  <2>1. CutShort'
    BY <1>1 DEF CutShort, IInv, History
  <2>2. PastOver'
    <3>1. \A h \in Hashes : DeletesOver(h) \subseteq DeletesOver(h)'
      BY <1>4, <1>6 DEF DeletesOver, Deletes
    <3>2. \A r \in Requests : req[r].st \in Stages => req[r].file \in Hashes
      BY HandledType DEF IInv
    <3>. QED
      BY <1>1, <1>3, <3>1, <3>2 DEF PastOver, IInv, History
  <2>3. Registered'
    BY <1>1 DEF Registered
  <2>4. DeletersUploaded'
    <3>1. \A f, h, e : Uploader(f, h, e) => \E c \in Requests :
             req[c].st = "created" /\ req[c].caller = f /\ req[c].file = h /\ req[c].epoch = e
      BY DEF Uploader, Answered
    <3>. QED
      BY <1>1, <1>6, <3>1 DEF DeletersUploaded, Uploader, Answered, IInv, History
  <2>5. UnderWay'
    BY <1>4 DEF UnderWay
  <2>6. KeptNow'
    BY <1>1, <1>3 DEF KeptNow, Answered, Stages, Finished
  <2>7. KeptLater'
    <3> SUFFICES ASSUME NEW r \in Requests, Answered(r), Unhurt(r), storage = "local"
                 PROVE  blobs[req[r].file] # "none" \/ DeletedSince(r)'
      BY <1>1, <1>7 DEF KeptLater, Answered
    <3>1. DeletedSince(r) => DeletedSince(r)'
      BY <1>1, <1>6, <1>7 DEF DeletedSince
    <3>. QED
      BY <3>1 DEF IInv, History, KeptNow, KeptLater
  <2>. QED
    BY <2>1, <2>2, <2>3, <2>4, <2>5, <2>6, <2>7 DEF History
<1>9. ~ Remembered' \/ \A h \in Hashes : Settled(h)'
  BY <1>1 DEF Remembered, Settled
<1>10. WritesLocal'
  BY <1>1 DEF IInv, WritesLocal
<1>. QED
  BY <1>2, <1>4, <1>8, <1>9, <1>10 DEF IInv, Alone, StagesOK, IsBusy

LEMMA NextIInv == IInv /\ [Next]_vars => IInv'
<1> SUFFICES ASSUME IInv, [Next]_vars PROVE IInv'
  OBVIOUS
<1>1. CASE \E r \in Requests, f \in Fps, h \in Hashes, s \in {"put", "owner"} :
             Arrive(r, f, h, s)
  BY <1>1, ArriveStep
<1>2. CASE \E r \in Requests : PutMemory(r) \/ PutOpen(r) \/ PutWrite(r) \/ Register(r)
  BY <1>2, PutMemoryStep, PutOpenStep, PutWriteStep, RegisterStep
<1>3. CASE \E r \in Requests : IsOwner(r, "owner", "delete", "refused") \/ DeleteBlob(r)
                        \/ IsOwner(r, "unregister", "remove", "failed") \/ Remove(r)
  BY <1>3, IsOwnerStep, DeleteBlobStep, RemoveStep
<1>4. CASE \E r \in Requests, h \in Hashes : Download(r, h)
  BY <1>4, DownloadStep
<1>5. CASE Restart
  BY <1>5, RestartStep
<1>6. CASE UNCHANGED vars
  <2>1. TypeOK' /\ WritesLocal' /\ Alone' /\ StagesOK'
    BY <1>6 DEF vars, IInv, TypeOK, WritesLocal, Alone, StagesOK, Remembered, StageOK,
                Settled, Busy, IsBusy, Live
  <2>2. History'
    BY <1>6 DEF vars, IInv, History, CutShort, PastOver, Registered, DeletersUploaded,
                UnderWay, KeptNow, KeptLater, DeletedSince, Unhurt, OwnDeletes, Deletes,
                DeletesOver, Live, Uploader, Answered
  <2>. QED
    BY <2>1, <2>2 DEF IInv
<1>. QED
  BY <1>1, <1>2, <1>3, <1>4, <1>5, <1>6 DEF Next

LEMMA Inductive == Spec => []IInv
BY InitIInv, NextIInv, PTL DEF Spec

-----------------------------------------------------------------------------
(* The state always has its type: a request is idle, about a file on       *)
(* behalf of an account, or a download that was answered.                  *)
THEOREM TypeCorrect == Spec => []TypeOK
<1>1. IInv => TypeOK
  BY DEF IInv
<1>. QED
  BY <1>1, Inductive, PTL

(* The file of an upload that was answered stays stored, and registered to *)
(* its caller until the server restarts, as long as the caller deletes it  *)
(* neither then nor while the upload was under way, whatever other         *)
(* requests do in between; only a delete of a former owner that was past   *)
(* its check when the upload was registered can still strike it.  On disk  *)
(* it outlives restarts until one who has uploaded it since deletes it.    *)
THEOREM UploadsKept == Spec => []UploadKept
<1>1. ASSUME IInv, NEW h \in Hashes, blobs[h] # "none" PROVE Stored(h)
  BY <1>1 DEF IInv, TypeOK, Contents, History, CutShort, Stored
<1>2. ASSUME IInv PROVE UploadKept
  <2> SUFFICES ASSUME NEW r \in Requests, Answered(r), Unhurt(r)
               PROVE  IF req[r].epoch = restarts
                      THEN Stored(req[r].file) /\ owners[req[r].file] = req[r].caller
                      ELSE storage = "local" =>
                        /\ \/ Stored(req[r].file)
                           \/ \E d \in Deletes(req[r].file) :
                                 /\ req[d].epoch > req[r].epoch
                                 /\ Uploader(req[d].caller, req[r].file, req[d].epoch)
                        /\ \/ owners[req[r].file] = NoOwner
                           \/ Uploader(owners[req[r].file], req[r].file, restarts)
    BY DEF UploadKept, Unhurt
  <2>1. req[r].file \in Hashes
    BY <1>2, HandledType DEF IInv, Answered, Stages, Finished
  <2>2. CASE req[r].epoch = restarts
    BY <1>1, <1>2, <2>1, <2>2 DEF IInv, History, KeptNow
  <2>3. CASE req[r].epoch # restarts /\ storage = "local"
    <3>1. blobs[req[r].file] # "none" \/ DeletedSince(r)
      BY <1>2, <2>3 DEF IInv, History, KeptLater
    <3>2. DeletedSince(r) => \E d \in Deletes(req[r].file) :
             /\ req[d].epoch > req[r].epoch
             /\ Uploader(req[d].caller, req[r].file, req[d].epoch)
      BY <1>2, <2>1 DEF IInv, History, DeletersUploaded, DeletedSince
    <3>3. owners[req[r].file] = NoOwner \/ Uploader(owners[req[r].file], req[r].file, restarts)
      BY <1>2, <2>1 DEF IInv, History, Registered
    <3>. QED
      BY <1>1, <1>2, <2>1, <2>3, <3>1, <3>2, <3>3
  <2>. QED
    BY <2>2, <2>3
<1>. QED
  BY <1>2, Inductive, PTL

(* A file that no two requests were about at once is, at rest, stored      *)
(* whole if it has an owner and not at all if it has none, for any number  *)
(* of uploads, refused uploads and deletes one after the other.            *)
THEOREM StoresStayTogether == Spec => []StoresAgree
<1>1. IInv => StoresAgree
  BY DEF IInv, StagesOK, StoresAgree, Remembered, Settled
<1>. QED
  BY <1>1, Inductive, PTL
=============================================================================
