-------------------------------- MODULE Wallet --------------------------------
(***************************************************************************)
(* The identity commands of the CLI (commands/identity.rs) on one wallet   *)
(* file.  Each command loads the whole wallet, works on its copy and, if   *)
(* it changes anything, saves the copy over the file; no lock is held, so  *)
(* that commands of two processes interleave.  Exported identities travel  *)
(* as files, which may be changed on their way.                            *)
(*                                                                         *)
(* The wallet engine (identikey-wallet) is external: a wallet file is read *)
(* and written at once, and holds an envelope for each name.               *)
(***************************************************************************)
EXTENDS IdentityCodec, Integers, Sequences

CONSTANTS
    Procs,
    Unnamed,       \* no name given
    NewNames,      \* "identity-1", "identity-2", ... as far as needed
    ImportNames,   \* "imported-1", ...
    Files,
    MaxCommands,   \* bound on commands started
    MaxChanges     \* bound on changes of exported files

ASSUME WalletAssumption ==
    /\ Unnamed \notin Names
    /\ NewNames \in Seq(Names) /\ ImportNames \in Seq(Names)
    /\ MaxCommands \in Nat /\ MaxChanges \in Nat

VARIABLES
    stored,     \* the wallet file: name -> envelope
    active,     \* its active identity
    files,      \* what identities are exported to and imported from
    runs,       \* per process, the command it runs
    used,       \* keys that have been generated
    commands, changes,
    expected,   \* history: name -> identity, as the ended commands would have it
    raced,      \* history: a wallet was saved over one its command had not read
    exported    \* history: identities that have been exported

walletVars == <<stored, active, files, runs, used, commands, changes, expected, raced, exported>>

NoCommand == [st |-> "idle"]
NoFile == [form |-> "none"]

(* What a newer release, which knows an assertion more, exported of key k. *)
Newer(k, b) == [Generated(k, b) EXCEPT !.extra = TRUE]
File(form, doc, source) == [form |-> form, doc |-> doc, source |-> source]
NewerFile(k, b) ==
    File("signed", SignSelfHybrid(ToWire("theirs", Newer(k, b)), k), Newer(k, b))

WalletInit ==
    /\ stored = [n \in Names |-> None]
    /\ active = None
    /\ \E k \in Keys, b \in Known :
          \/ /\ files = [f \in Files |-> NoFile]
             /\ used = {} /\ exported = {}
          \/ /\ files = [f \in Files |-> NewerFile(k, b)]
             /\ used = {k} /\ exported = {Newer(k, b)}
    /\ runs = [p \in Procs |-> NoCommand]
    /\ commands = 0 /\ changes = 0
    /\ expected = [n \in Names |-> None]
    /\ raced = FALSE

-----------------------------------------------------------------------------
(* Wallet::load, through Identity::from_envelope.                          *)
FromDisk(e) ==
    IF e = None THEN None
    ELSE LET w == Decode(e) IN IF w = Err THEN Err ELSE FromStored(w)

Loaded == [n \in Names |-> FromDisk(stored[n])]
Loads == \A n \in Names : Loaded[n] # Err

(* Wallet::save, through Identity::to_envelope: either everything can be   *)
(* encoded or nothing is written.                                          *)
ToDisk(ids) ==
    [n \in Names |-> IF ids[n] = None THEN None ELSE Encode(ToWire(n, ids[n]))]
Saves(ids) == \A n \in Names : ToDisk(ids)[n] # Err

(* A process starts a command, which loads the wallet. *)
Command == [op : {"new", "use", "delete", "export", "import"},
            name : Names \union {Unnamed}, form : {"signed", "json"}, file : Files]
Start(p, c) ==
    /\ commands < MaxCommands
    /\ runs[p].st \in {"idle", "imported"}
    /\ c.name = Unnamed => c.op \in {"new", "import"}
    /\ c.form = "signed" \/ c.op = "export"
    /\ commands' = commands + 1
    /\ runs' = [runs EXCEPT ![p] =
          IF Loads
          THEN [st |-> "loaded", op |-> c.op, name |-> c.name, form |-> c.form,
                file |-> c.file, ids |-> Loaded, active |-> active, stale |-> FALSE]
          ELSE NoCommand]
    /\ UNCHANGED <<stored, active, files, used, changes, expected, raced, exported>>

Running(p, op) == runs[p].st = "loaded" /\ runs[p].op = op

(* The other commands that have loaded the wallet hold an old copy now.    *)
Outdate(p, then) ==
    runs' = [q \in Procs |-> IF q = p THEN then
                             ELSE IF runs[q].st = "loaded"
                             THEN [runs[q] EXCEPT !.stale = TRUE] ELSE runs[q]]

(* The end of a command that changes the wallet: id goes under the name n. *)
Save(p, n, id, act, then) ==
    LET ids == [runs[p].ids EXCEPT ![n] = id] IN
    IF Saves(ids)
    THEN /\ stored' = ToDisk(ids)
         /\ active' = act
         /\ expected' = IF id = None \/ expected[n] = None
                        THEN [expected EXCEPT ![n] = id] ELSE expected
         /\ raced' = (raced \/ runs[p].stale)
         /\ Outdate(p, then)
    ELSE /\ runs' = [runs EXCEPT ![p] = NoCommand]
         /\ UNCHANGED <<stored, active, expected, raced>>

Fail(p) ==
    /\ runs' = [runs EXCEPT ![p] = NoCommand]
    /\ UNCHANGED <<stored, active, expected, raced>>

(* The name given, or the first of a series that is free; the bounded      *)
(* series may have none.                                                   *)
Free(p, series) == {i \in DOMAIN series : runs[p].ids[series[i]] = None}
NamesFor(p, series) ==
    IF runs[p].name # Unnamed THEN {runs[p].name}
    ELSE {series[i] : i \in {i \in Free(p, series) : \A j \in Free(p, series) : i <= j}}

(* Mutant: a name that is taken is taken again. *)
NewReplaces(p) ==
    /\ Running(p, "new")
    /\ \E n \in NamesFor(p, NewNames), k \in Keys \ used, b \in Known :
          /\ Save(p, n, Generated(k, b), IF runs[p].active = None THEN n ELSE runs[p].active,
                  NoCommand)
          /\ used' = used \union {k}
    /\ UNCHANGED <<files, commands, changes, exported>>

(* new_identity: fresh key pairs under a name that is not taken; the first *)
(* identity becomes active.                                                *)
New(p) ==
    /\ Running(p, "new")
    /\ \E n \in NamesFor(p, NewNames) :
          LET w == runs[p] IN
          IF w.ids[n] # None THEN Fail(p) /\ UNCHANGED used
          ELSE \E k \in Keys \ used, b \in Known :
                  /\ Save(p, n, Generated(k, b), IF w.active = None THEN n ELSE w.active,
                          NoCommand)
                  /\ used' = used \union {k}
    /\ UNCHANGED <<files, commands, changes, exported>>

Use(p) ==
    /\ Running(p, "use")
    /\ LET n == runs[p].name IN
       IF runs[p].ids[n] = None THEN Fail(p)
       ELSE Save(p, n, runs[p].ids[n], n, NoCommand)
    /\ UNCHANGED <<files, used, commands, changes, exported>>

(* delete_identity: another identity, in the order of a hash map, takes    *)
(* over if it was the active one.                                          *)
Delete(p) ==
    /\ Running(p, "delete")
    /\ LET n == runs[p].name
           w == runs[p]
           rest == {m \in Names \ {n} : w.ids[m] # None} IN
       IF w.ids[n] = None THEN Fail(p)
       ELSE \E next \in (IF w.active # n THEN {w.active}
                         ELSE IF rest = {} THEN {None} ELSE rest) :
              Save(p, n, None, next, NoCommand)
    /\ UNCHANGED <<files, used, commands, changes, exported>>

(* wire_identity_from_wallet: the fingerprint is computed anew.            *)
Exportable(n, id) == IF id.fp # id.ed THEN Err ELSE ToWire(n, id)

(* export_identity: as the identity it is, or signed.  JSON has no place   *)
(* for unknown assertions.                                                 *)
Exported(n, id, form) ==
    IF form = "json" THEN File(form, [id EXCEPT !.extra = FALSE], id)
    ELSE IF Exportable(n, id) = Err THEN File(form, Err, id)
    ELSE File(form, SignSelfHybrid(Exportable(n, id), id.mlSecret), id)

Export(p) ==
    /\ Running(p, "export")
    /\ LET n == runs[p].name
           id == runs[p].ids[n] IN
       IF id = None \/ Exported(n, id, runs[p].form).doc = Err
       THEN UNCHANGED <<files, exported>>
       ELSE /\ files' = [files EXCEPT ![runs[p].file] = Exported(n, id, runs[p].form)]
            /\ exported' = exported \union {id}
    /\ runs' = [runs EXCEPT ![p] = NoCommand]
    /\ UNCHANGED <<stored, active, used, commands, changes, expected, raced>>

(* import_identity up to the name; the form shows in the first bytes.  A   *)
(* signed envelope is written as it is or as a UR, which is the same bytes *)
(* as text.                                                                *)
FromFile(f) ==
    CASE f.form = "signed" -> IF f.doc = Err THEN Err ELSE Imported(f.doc)
      [] f.form = "json" -> f.doc
      [] OTHER -> Err

(* Its rest: the identity goes under a free name, and is not made active.  *)
Import(p) ==
    /\ Running(p, "import")
    /\ \E n \in NamesFor(p, ImportNames) :
          LET f == files[runs[p].file]
              id == FromFile(f) IN
          IF id = Err \/ runs[p].ids[n] # None THEN Fail(p)
          ELSE Save(p, n, id, runs[p].active, [st |-> "imported", id |-> id, file |-> f])
    /\ UNCHANGED <<files, used, commands, changes, exported>>

-----------------------------------------------------------------------------
(* What may become of an exported file: an assertion is elided, or says    *)
(* something else; a signature goes, or all of the wrapper; another format *)
(* version; a JSON field is edited; the bytes are damaged.                 *)
KeyAssertions == Assertions \ {"created", "name", "pre-backend", "extra"}
Redacted(doc) == {[doc EXCEPT !.inner.hidden = @ \union {a}] : a \in Assertions}
Edited(doc) ==
    {[doc EXCEPT !.inner.says[a] = v] : a \in KeyAssertions, v \in Keys \union {Bad}}
    \union {[doc EXCEPT !.inner.says["pre-backend"] = Unknown],
            [doc EXCEPT !.inner.version = 2]}
Stripped(doc) == {Bare(doc.inner), [doc EXCEPT !.mldsa = None], [doc EXCEPT !.signed = None]}
EditedJson(id) ==
    {[id EXCEPT ![a] = v] : a \in {"fp", "ed", "edSecret", "ml", "preSecret"}, v \in Keys}

Changed(f) ==
    (IF f.form = "json" THEN EditedJson(f.doc)
     ELSE Redacted(f.doc) \union Edited(f.doc) \union Stripped(f.doc)) \ {f.doc}

Change(x) ==
    /\ changes < MaxChanges
    /\ files[x].form \in {"signed", "json"}
    /\ \/ \E d \in Changed(files[x]) :
             files' = [files EXCEPT ![x] = File(files[x].form, d, None)]
       \/ files' = [files EXCEPT ![x] = NoFile]
    /\ changes' = changes + 1
    /\ UNCHANGED <<stored, active, runs, used, commands, expected, raced, exported>>

WalletNext ==
    \/ \E p \in Procs :
          \/ \E c \in Command : Start(p, c)
          \/ New(p) \/ Use(p) \/ Delete(p) \/ Export(p) \/ Import(p)
    \/ \E x \in Files : Change(x)

WalletSpec == WalletInit /\ [][WalletNext]_walletVars

-----------------------------------------------------------------------------
(* Whatever is imported, the wallet that is saved can be loaded again, all *)
(* of it, and its active identity is one it holds: a wallet is saved whole *)
(* or not at all, and never with what cannot be read back.                 *)
Loadable == Loads /\ (active # None => stored[active] # None)

(* As long as no command saves over a wallet it has not read, every        *)
(* identity created or imported is there, unchanged, until a command       *)
(* deletes it, and no command touches another.                             *)
KeptUnlessRaced == ~raced => Loaded = expected

(* What is imported from a signed file, whatever has happened to the file, *)
(* has the keys that the owner of its Ed25519 key exported: eliding and    *)
(* editing can only take away the time and the unknown assertions.         *)
ImportedAsSigned ==
    \A p \in Procs :
        LET id == runs[p].id
            f == runs[p].file IN
        (runs[p].st = "imported" /\ f.form # "json" /\ f.doc.wrapped) =>
        \E e \in exported :
            /\ id = [e EXCEPT !.created = id.created, !.extra = id.extra]
            /\ id.created \in {e.created, Now}
            /\ id.extra => e.extra

(* An exported file that nobody changed is imported as the identity it was *)
(* exported from, without its unknown assertions if it is JSON; to be      *)
(* signed, the identity's secret keys must be those of its public keys.    *)
ExportsReimport ==
    \A x \in Files :
        LET f == files[x] IN
        (f.form # "none" /\ f.source # None) =>
        IF f.form = "json" THEN FromFile(f) = [f.source EXCEPT !.extra = FALSE]
        ELSE (f.source.edSecret = f.source.ed /\ f.source.mlSecret = f.source.ml)
                => FromFile(f) = f.source
===============================================================================
