# Recrypt in TLA+

Recrypt is an HTTP server for end-to-end encrypted files: accounts upload
ciphertext, share it by proxy re-encryption, and manage *keyspaces* (signed,
versioned membership documents) and *grants* within them. What can go wrong in
the server is the order in which concurrent requests read and write its stores;
on the client's side, that an encrypted file is two files, read back in chunks
that are verified one by one, and that commands share a wallet file; between the
two, that client and server have to mean the same by what is signed, encoded and
answered over a network that may fail. These modules model all three. The
primitives are in libraries and taken to be ideal.

A request is an asynchronous function. It checks something, awaits, and acts on
what it read; other requests run at every await. In the models each call of a
store is one step (a lock, or one call of the database thread), and a request
remembers what it has read. A client that disconnects makes the server drop the
request at an await: such a request takes no further step, which every model
without fairness already covers. Only the nonce guard needs an action for it
(`Abandon`), because a database call that was handed over still runs.

## 1. Inventory

| Component | State | Operations | Hard behaviour | What makes it correct |
|---|---|---|---|---|
| Nonce guard (`nonces.rs`, `middleware/nonce.rs`, `state.rs`) | nonces claimed, with an expiry | `validate_nonce` in front of every protected route; sweep every 60 s | check and claim at two times; seconds against milliseconds; restart; dropped connection | no nonce admits twice while fresh; no refusal without a use; expired entries go |
| Keyspaces (`routes/keyspaces.rs`, `keyspace_store.rs`, `sqlite/keyspace.rs`) | documents by hash, versions, latest, member index | create, publish, reads | signer check before put; SQLite reads and writes in two calls | one append-only chain; indexes agree; publishers could sign while their request was handled |
| Grants (`routes/keyspaces.rs`, `grant.rs`, `sqlite/grant.rs`) | grants by content id, revoked rows | issue, revoke, reads | stale issuer check; re-issue after revoke; two different stores | issued by delegates, removed by issuers, revoked for good |
| Files (`routes/files.rs`, `local.rs`, `memory.rs`, `memory/ownership.rs`) | blobs by hash; owner by hash | upload, download, delete | two stores, no transaction; write of a file is not atomic; owners lost at restart | answered uploads are kept until their owner deletes; storage and ownership agree |
| Shares (`routes/recryption.rs`, `shares.rs`) | share policy by (from, to, file) | share, fetch a re-encrypted key, revoke | fetch and revoke act on a policy read before; file may go | keys served as shared; revoke lasts |
| Capability chain (`capability_chain.rs`, `capability.rs`) | none; a walk over envelopes | `verify_chain` | parents come from the caller; the clock moves | authority only shrinks; chains are rooted; parents are those committed to; the walk ends |
| Accounts, signed requests (`routes/accounts.rs`, `sqlite/account.rs`, `middleware/auth.rs`, `core/sign`, CLI `client/`) | keys by fingerprint; what each command awaits | create an account; sign, send and verify a request; answer | exists-then-register over a replacing store; lost, late, duplicated and damaged requests; restart | one act per command; answers are true; acts are as signed; honest requests pass; accounts keep their keys |
| Documents and grants as data (`routes/keyspaces.rs`, `keyspace.rs`, `grant.rs`, `sqlite/grant.rs`) | records by hash | parse, hash, store, load, show | fields of any length side by side; `u64` in `i64` columns; what JSON cannot express | what is read is what was sent |
| Blob storage (`memory.rs`, `local.rs`, `s3.rs`) | ciphertext and outboard by hash | put, get, delete, with and without outboard | two objects; torn writes; failing calls; crashes | a call that ran alone did what it says; a put is all or nothing |
| Ownership stores (`memory/ownership.rs`, `sqlite/ownership.rs`) | owner by hash | register, transfer, unregister | owner check and update under two locks | only owners give a file away |
| Start-up (`state.rs`, `main.rs`, `sqlite/schema.rs`) | the SQLite file | create tables, migrate, serve | statements that commit one by one; a kill in between; tables that nothing creates | a file can be opened again; what serves is usable |
| Provider index (`provider.rs`, `sqlite_provider.rs`) | locations by file | register, move, remove | two stores that differ | both stores answer alike |
| Encrypted files (`hybrid/mod.rs`, CLI `encrypt.rs`, `decrypt.rs`) | `F.enc` and `F.enc.obao` | encrypt; decrypt all, streaming or a range | both files written in place, one after the other; a kill in between; racing processes; what an earlier encryption left | only verified plaintext of one encryption comes out; a complete encryption can be decrypted |
| CLI wallet (`commands/identity.rs`, `wallet/mod.rs`, wire `identity.rs`) | identities of one file; exported identities | new, use, delete, import, export | load, change and save without a lock; exports elided, edited, stripped | no identity is lost; imports say what was signed; the wallet stays loadable |
| Rate limits, errors, PRE backends, armor, FFI, signing service, rest of the CLI, generated clients | none or external | | pure functions; libraries | left to tests |

All protected routes pass the nonce guard first. The keyspace routes feed the
grants: `issue_grant` reads the latest keyspace version. `create_share` asks the
blob storage whether the file exists, `get_recrypted_share` reads it; neither
looks at the owner. What a client uploads is an encrypted file without its
outboard; nothing on the server opens it. Every authenticated route looks up an
account; accounts are never removed, so that lookup is a step only in
`ClientServer`, where they are created.

## 2. Plan

The order follows the weight of what depends on a component.

1. `NonceGuard`, with proofs. *Done.*
2. `KeyspaceRoutes`, the abstract `KeyspaceChain`, `KeyspaceMemory` with proofs,
   `KeyspaceSqlite` with proofs. *Done.*
3. `Grants`, `Files`, `Shares`, with proofs. *Done.*
4. `CapabilityChain`, with proofs. *Done.*
5. `BaoTree`, `EncryptedFiles`, with proofs. *Done.*
6. `Requests`, `ClientServer`: the CLI against the server, with proofs. *Done.*
7. `IdentityCodec`, `Wallet`, with proofs. *Done.*
8. `BlobStore`, `Ownership`, `ProviderIndex`, `Schema`, `Records`: the remaining
   stores, composed for TLC in `MCStores` with the nonce guard and the capability
   chain, with proofs. *Done.*

Every invariant that a passing run checks has a proof; the liveness properties have
none.

## 3. Modules

`MC*` modules give constants their values for TLC. Operators introduced by
"Mutant:" are plausible bugs; each property is checked to fail under one.

### NonceGuard

`used` is the store, `gc` the sweep, `now` the clock in milliseconds, `epoch`
counts restarts. `CheckFormat` is `validate_nonce` up to its await, `MarkUsed`
the claim (atomic in both stores), `Abandon` a dropped request, `GcStart` and
`GcSweep` the two halves of `gc_expired` (it reads the clock before it takes the
lock), `Restart` the end of a process. `backend`, chosen at the start, says which
store runs; `Grants`, `Shares` and (as `storage`) `Files` do the same.

### KeyspaceRoutes, KeyspaceChain, KeyspaceMemory, KeyspaceSqlite

A document is known by its hash; `docs` says what is behind a hash, so a parent
link is a hash and equal documents are equal. `Arrive` is a request up to the
first store access; clients may write any document. `CheckSigner` is the check
of `publish_version`. `KeyspaceMemory` adds the store with its four maps and a
`Put` under one lock; its history variable `began` says how many versions the
keyspace of a request had when it arrived. `KeyspaceSqlite` adds the three
tables and a put in two database calls (`ReadVersions`, `WriteTx`). Its
`keyspace_docs` holds the hashes of a keyspace as the index on (keyspace_id,
version) orders them, which is what `ORDER BY version` reads; `Insert` puts a
row behind those of its version, and the primary key of the table is the test
for `AllStored`. `KeyspaceChain` is what the trait promises: an append-only
chain. The memory store implements it. The SQLite store does as long as no two
puts of a keyspace have overlapped, which the history variable `raced` records:
two that read the same version list both pass `validate_chain`, and both
documents are stored.

### Grants

`versions` is what the chain of a keyspace says of its members' permissions,
`active` the ids that can be read, `revoked` the SQLite rows kept with
`revoked = 1`. An id is the grant's fields as they are encoded (`grant_id`), with
the server's second. `SubmitIssue`, `CheckIssuer`, `Issue` and `SubmitRevoke`,
`Revoke` are the steps between awaits of the two routes; `Publish` and `Tick`
stand for the rest of the server.

### Files

`blobs` is what is stored under a hash (nothing, part of it, or all), `owners`
the ownership map. An upload goes through `Arrive`, a put (`PutMemory`, or
`PutOpen` and `PutWrite` on disk) and `Register`; a delete through two owner
checks (`IsOwner`), `DeleteBlob` and `Remove`. A delete of a file that is being
written unlinks it under the writer. `Restart` breaks off the requests of its
`epoch` and loses the owners and a memory storage; what is on disk stays as it
is, half-written or not. Hashes name contents, so all uploads of a hash write
the same bytes. Three things are history: of a request, the deletes that were
over when it arrived (`past`); of an answered upload, the deletes of other
accounts that were past their owner check by then (`stale`); and the files two
requests were about at once (`disturbed`).

### Shares

`shares` is the store, `files` the hashes that are stored. `SubmitShare`,
`Create`; `LookUp`, `Serve`; `SubmitRevoke`, `Delete` are the steps of the three
routes. An answer remembers the shares and revokes that had been answered before it
(`after`), which orders them.

### CapabilityChain

`chain` is the list built so far, leaf first, `current` the envelope in hand.
`Refuse`, `Accept` and `Resolve` are the three ends of a turn of the loop;
`TimePasses` moves the clock in between. A resolver belongs to the caller and
answers with any envelope it likes, or with none.

### BaoTree, EncryptedFiles

`BaoTree` is the external library: a tree over chunk groups, hashes as the terms
they hash, the outboard in post-order. A response carries each node before its
children; its decoder keeps the nodes to come with the hashes they must have
(`Response`, then `Children` of each parent). In `EncryptedFiles`, `enc` and
`obao` are the two files of one path and `cmd` the commands on it.
`StartEncrypt`, `OpenEnc`, `WriteEnc`, `OpenObao`, `WriteObao` are the `encrypt`
command (each `fs::write` truncates, then fills), `Stop` its kill at any point.
`ReadEnc`, then `DecryptWhole` or `ReadObao`, `DecodeNext` for each item of the
response, and `Finish` are the three ways to decrypt; `pending` is what the
decoder awaits. `decrypt_range` decodes all of the response as well, and writes
of each group what lies in the range. `Damage` changes a stored byte or hash
pair. A ciphertext byte is the plaintext byte with its key and keystream
position, so deciphering at a wrong offset gives noise. Two history variables
serve `SettledDecrypts`: `settled` says that the last encryption ran alone to
its end, `quiet` which commands ran undisturbed.

### Requests, ClientServer

`Requests` has what the CLI signs and sends on one side and what the routes take
the signatures to be over on the other; a signature is its key with its message.
`ClientServer` composes them. `cmd` is what each run of a command waits for or
was told, `server` what the server does for each copy of its request. `Deliver`
is the network: a first or a second copy, in time or late, an upload whole or
damaged; a request or answer that is lost stays where it is. `CheckCreate` and
`Register`, `LookUpAccount`, `CheckOwner`, `LookUpShare` are the accesses of the
handlers up to their effect (`list_shares` compares the fingerprint in its path
with the one in its header first, which are the same in what the CLI sends); the
effects themselves are single steps here and taken apart in `Files` and
`Shares`. `acted` records what each command has made the server do.

### IdentityCodec, Wallet

`IdentityCodec` is an identity in its four forms: in the wallet, in the wire
crate, as an envelope, and signed; with what elision leaves of it and what
`verify` accepts. In `Wallet`, `stored` is the wallet file, `runs` the command
of each process with the copy it has loaded, `files` the exported identities. A
command loads (`Start`), and then `New`, `Use`, `Delete`, `Import` change the
copy and save it whole (`Save`) over whatever the file holds by then; `Change`
is what may happen to an exported file: assertions elided, edited or stripped,
JSON edited.

### Records

A document is followed from the client's JSON through `json_to_doc`, its
canonical bytes, a map or a row, and `doc_to_json`; a grant likewise, through
`json_to_grant`, its row with signed columns, and `grant_to_json`. A hash is the
sequence of bytes hashed, so that two records with the same bytes do meet under
one key, as in the stores: `doc_hash` and `from_grant` are the canonical bytes of
the two, field by field. `ToDocBytes` and `GrantRow` make the rows, in which sets
are sorted lists (`Sorted`) and a u64 is an i64 (`AsI64`); `LoadDoc` and
`LoadGrant` undo that. `PutDirectly` is a program that uses the store crate
without the routes. Who may send a record is left to the other modules: every
request passes.

### BlobStore, Ownership, ProviderIndex, Schema

`BlobStore` takes the storage trait apart into single accesses: `Truncate`,
`Write`, `Read`, `Discard`, on the ciphertext and then on its outboard, with
`Fails` and `Crash`; `certain` records what a hash must hold after calls that ran
alone. `Ownership` has `CheckIsOwner` and `Apply` under two locks where the code
takes two; `taken` follows a file that was struck by somebody who did not own it.
`ProviderIndex` runs the map and the table side by side on the same calls;
`strayed` are the files on which they may differ by then. `Schema` is the SQLite
file: `Open` reads the version, each step of `Create` is one of the fourteen
CREATE statements of the batch (`Creates`, in the code's order, of which `Phase_B`
are those a file of version 1 lacks), `Rename`, `Forget` and `Note` are the
statements of the migration and the version row. Each commits by itself, and
`Cut` is the end of a process between any two of them; `Serve` is a server that
takes the file as it is.

## 4. Runs

| Run | Shows |
|---|---|
| `KeyspaceMemory` | the four maps agree and the store implements the chain; the caller of an answered publish could sign on some version that was the latest while the request was handled |
| `PublisherRace` | *violation:* but not always on the version it replaced: `put` links to the version stored by then, not to the one that was checked |
| `KeyspaceSqlite` | with any race, one put as late as can be: the current version never goes back, the ancestry of every document is stored, and the member index misses nobody; until puts overlap the store implements the chain and the index is exact |
| `Grants` | issued by delegates, removed by issuers; in SQLite revoked for good |
| `Files` | an answered upload stays stored and owned through races and broken uploads until its caller deletes it, but for a delete of a former owner already past its check; over a restart the file on disk stays until somebody who uploaded it since deletes it; undisturbed, the two stores agree |
| `Shares` | served as shared; the last answer stands, share or revoke, and nothing answered before it excuses a loss; revoked until shared again |
| `EncryptedFiles` | through kills, races and damage: only the plaintext of one encryption comes out, to its recipient, and while streaming a prefix of it; ranges are exact; a complete encryption can be decrypted over anything left behind |
| `Wallet` | two processes: the wallet stays loadable and loses nothing unless saves race; imports of signed files have the keys that were exported; untouched exports import as they were |
| `ClientServer` | a command acts at most once; "ok" and refusals are true; the server acts as signed; no honest request is refused for its signature; registered keys stay unless two creates race |
| `Stores` | parts that share nothing, each by itself. Nonce guard, over both stores, with a restart, for stamps and clock readings on both sides of every edge: no replay of a fresh nonce, no unjustified refusal, and expired entries are swept. Stores: `StoredAsTold`: calls that ran alone did what they say, and repeating one repairs; `OwnerDecides`: strangers cannot start taking a file; `IndexesAgree`; `OpensAgain`: an open fails only beside another or after a kill inside the migration, while a kill between any other two statements does no harm; `ReadsBack`: what is read under a hash is what was sent. Capability chain, whatever the resolver answers: attenuation, rootedness, and the walk ends within its depth |
| `CapabilityParents` | *violation:* a parent need not be the envelope whose digest its child names |
| `ServingSchema` | *violation:* a server on a new SQLite file has no keyspace and grant tables |

A run that expects a violation quotes what the repository says in
`PROJECT.json` ("findings").

**Other disagreements.** What the repository says elsewhere and the code does
not do; no run is spent on them:

* Two SQLite puts that read the same version list store two documents of one
  version (`sqlite/keyspace.rs:76`; the comment at 120-121 says the chain check
  "guarantees we only reach here for fresh versions").
* A delete whose owner check is stale removes a file that is another account's by
  then (`routes/files.rs:153`; `docs/http-api-reference.md:279-280`: "the caller's
  fingerprint must match the registered owner"): the one loss `UploadKept` allows.
* `get_with_outboard` and `put_with_outboard` hash nothing, so a download during
  an upload, or after one that broke off, can be cut short (`local.rs:132`;
  `docs/architecture.md:456`: "Every blob is re-hashed on read."; `traits.rs:30-31`).
* `put_with_outboard` is not atomic (`traits.rs:80`: "Store a ciphertext blob and
  its sibling outboard atomically"): disk and S3 write two objects, and the disk
  truncates before it fills. `StoredAsTold` says what may be left.
* A version may follow one whose mode is Tombstone ("Permanently seal the
  keyspace", `keyspace.rs:145`): no code looks at the mode.
* A delegate may grant permissions it does not hold
  (`docs/plans/2026-04-08-keyspaces-and-grants.md:114`): `issue_grant` compares
  none.
* In memory, a grant issued, revoked and issued again within one second has the
  same id and can be read again, though the server's `created_at` is there to
  prevent "replay of identical bytes across revoke cycles"
  (`routes/keyspaces.rs:331-333`). A grant that never expires and one that expired
  at second 0 have the same canonical bytes (`grant.rs:159`).
* Two creates of one account that race are both answered 201, though the second
  should be a conflict (`routes/accounts.rs:107`; `docs/http-api-reference.md:200`),
  and the first one's keys are gone: what `AccountStays` allows (`raced`).
* `share download` calls `/recryption/share/{id}/file`, which the router does not
  have (`routes/mod.rs:85-88`): the command is always answered 404.
* In SQLite, `transfer` can give away what is another's by then
  (`sqlite/ownership.rs:128`; `ownership.rs:29`: "Only the current owner can
  transfer."): what `OwnerDecides` allows (`late`).
* `update_location` of an unknown old location inserts in memory and does nothing
  or fails in SQLite (`provider.rs:103`).
* The migration is meant to run once per file (`schema.rs:133-134`: "The version
  gate above means this only runs once per DB."); killed after the first rename and
  before the old version row is gone it runs again, and fails: what `OpensAgain`
  allows (`cut`).
* A file left with two version rows by the former `INSERT OR REPLACE`
  (`schema.rs:111-113`) is read as the older and not migrated.
* The local `delete_with_outboard` takes every error for success.
* `config set wallet_path` is stored and never read; `tower_governor`'s
  `per_second(n)` is one token every n seconds where the configuration counts
  requests per second (`routes/mod.rs:52`, `62`).

**Bounds.** Two accounts are enough for every property, each of which speaks of
a caller and one other account. The number of requests is what the longest
scenario takes: two for a nonce (two users of it), three keyspace puts (a
version 0 and two racing successors) or four (two more after the one that is
late), over versions 0 to 2; four grant requests (issue, revoke, and a pair that
races), four file requests (two uploads, a delete, a download), four share
requests (share, revoke, share again, fetch). One keyspace, one file and one
uuid suffice, since no code relates two of them. One restart separates before
and after. `MaxVersion`, `MaxSecond`, `MaxRestarts`, `Instants` bound the
counters; the clock readings of the nonce run sit on and beside the edges of the
window and of the second. The chains have up to `max_depth` = 3 capabilities, so
that the middle one is both parent and child, with two digests: a resolver that
answers with anything can put a capability at any depth, and go round until the
depth is used up. Three commands on an encrypted path: an encryption that is
interrupted or races, a whole one, and a decryption. Its files have one, two and
three chunk groups (no parent, one, two levels), the empty one included, and one
is too large; the ranges lie within a group and across groups; one fault. Two
commands of the CLI meet every pair of operations, with one second copy or
damaged upload and one restart; Alice's Ed25519 key comes with two ML-DSA keys.
The wallet has a name `new` picks and one `import` picks, two key pairs, two
processes with four commands (new and export, import in the other, and one
more), and one change to a file. Of the stores, one hash with four calls of two
users and two faults, five ownership calls of two callers on one file, every
call on two files at three providers (a finite state space), four opens by two
openers with two kills. Two records are enough for one to come under the other's
hash; a byte stands for each field, `Width` of 2 lets half of the integers
change their sign, and `MCDrafts` puts fields of lengths 0 to 2 beside each
other. Requests, hashes, keys and accounts, where interchangeable, are declared
symmetric, except in `Stores`, which checks liveness. `CHECK_DEADLOCK FALSE` is
set throughout: a model whose requests are all handled has nothing left to do.

**Fairness.** Only two specifications assume any, and `MCStores` for those two
of its parts. `NonceGuard`: weak fairness of the sweep, a task that loops on a
timer until it is aborted at shutdown and that logs an error and goes on.
`CapabilityChain`: weak fairness of the loop of a synchronous function that
waits for nothing. No request is assumed to finish.

## 5. Proofs

The theorems hold for every value of the constants that satisfies the modules'
assumptions: any number of accounts, requests, processes, copies and restarts,
files of any length. Each rests on an invariant that holds initially and is kept
by every action, one lemma per action.

| Module | Proves about | Invariant |
|---|---|---|
| `KeyspaceMemoryProofs`, `KeyspaceSqliteProofs`, `GrantsProofs`, `FilesProofs`, `SharesProofs`, `ClientServerProofs` | the module of that name | `IInv` |
| `StoresProofs` | nonce guard, ownership store, provider index, SQLite file, blob storage, records | `IInv`, `OwnerIInv`, `IndexIInv`, `SchemaIInv`, `BlobIInv`, `RecordsIInv` |
| `DocumentProofs` | capability chains, wallets, encrypted files | one per theorem, `WalletIInv`, `EncryptionIInv` and `SettledIInv` |

* **Nonce guard** (`TypeCorrect`, `NoReplay`, `RefusalsJustified`). A claim sees
  only the store, so the invariant `IInv` says what the store knows of the
  requests: each admission its history covers is in the store or past its
  window, and each entry was put there by a request. A sweep keeps the first
  part because an entry expires, in whole seconds, strictly after its window
  closes in milliseconds (`SweptIsStale`, arithmetic of `\div`).
* **Keyspaces in memory** (`TypeCorrect`, `StoreStaysConsistent`, `Refinement`,
  `PublishersSign`). `StoreConsistent` needs `Positions`: the document at
  position i of a keyspace is its version i - 1, so that a put never stores a
  document twice. `Refinement` maps a successful put to `Extend` and every other
  step to `Write` or a stutter. `PublishersSign` carries the check of
  `publish_version` to the put: `Checked` says of each stage which versions were
  the latest since the request arrived (`began`), and that on one of them the
  caller signs. It cannot say which one: the store may have moved on between the
  check and the put, and `PublisherRace` shows that it may move to a version on
  which the caller has no rights.
* **Keyspaces in SQLite** (`TypeCorrect`, `NewestIsCurrent`, `HistoryKept`,
  `MembersFound`, `UnracedIsChain`). When the transaction of a put runs, other
  puts may have written since `validate_chain`. `StillFits` says how much of what
  it saw is left: there are at least as many rows as the document's version says
  (`RowsOK`: no version reaches the number of rows), and the parent is a stored
  row of a lower version. `Ordered` and `InitialSegment` give the place of a new
  row in the index, so the upsert takes the summary row over exactly when the
  index has a new last version (`InsertsNewest`). `MembersOK` ties the member
  rows to the stored documents. `Unraced` is the stronger invariant of a keyspace
  in which no two puts overlapped: version numbers are positions and the one put
  in flight still passes `validate_chain`, so it appends (`InsertsExtend`).
* **Capability chain** (`TypeCorrect`, `Attenuation`, `RootedChains`). What a turn
  checks of neighbours is transitive, so it holds over any distance; `Walked` says
  of an unfinished walk that all of it names parents. Nothing is assumed of the
  resolver.
* **Grants** (`TypeCorrect`, `IssuersDelegate`, `OnlyIssuersRevoke`,
  `RevocationIsFinal`). The two stores keep a grant in different places, so
  `RowsApart` says that one is never both stored and revoked. `Checked` carries
  the delegate check of `issue_grant` from the version it read to the store,
  `RevokerIsIssuer` the issuer check of a revoke; with them no interleaving of a
  publish, an issue and a revoke lets a check go stale in a way that matters.
* **Shares** (`TypeCorrect`, `RecipientsServed`, `SharesKept`,
  `RevocationHolds`). A fetch acts on a policy it read earlier. `FetchedOK` says
  that what it holds was once stored for that recipient, `AfterOK` that a fetch
  begun after a revoke cannot hold what was revoked, and `EpochsPast` orders the
  sharings of one file. `SharesKept` is by answers: `AllKept` and `AllGone` say of each
  answered share or revoke that the store is as it left it, or that an answer which
  is not in its `after` changed it; `SendersRevoke` says whose that is.
* **Files** (`TypeCorrect`, `UploadsKept`, `StoresStayTogether`). Blob and
  registration change at two times. `UnderWay` follows an upload from its first
  write: its file is there unless a delete that was not over when the upload
  arrived has passed its owner check. `KeptNow` goes on from its answer: no delete
  that is still under way can strike it, since a delete starts with an owner check
  and the owner is the uploader; the deletes that had passed theirs are the
  uploader's own or in `stale`. Over a restart (`KeptLater`) a delete needs an
  owner anew, who has uploaded the file since (`Registered`, `DeletersUploaded`).
  `CutShort` says that a partial file has an upload that opened it last.
  `HistoryStep` shows this part once for all steps, from what any step leaves
  alone. For a file that one request at a time is about (`Alone`), `StageOK` says for
  each stage how far the two stores are apart; `StoresAgree` is what is left at
  rest. Other requests may write the same bytes, unlink a file being written, or
  fail half-way.
* **Client against server** (`TypeCorrect`, `ActedOnce`, `ToldTheTruth`,
  `OnlyAsAsked`, `HonestServed`, `AccountsStay`). `VerifiedIff` compares the two
  sides of `Requests` for every route: the signatures fit if and only if the
  payload is the one the command named and the account's key is the identity's.
  `CopyOK` says of each copy of a request what the server knows at its stage,
  `Once` that a claimed nonce stands for one copy at work or done, `Refused` that
  a command told an error is over for good, `Claim` why a status is true and
  stays so although accounts change, and `CreatesRace` that of two creates for
  one fingerprint one finds the account unless both were let past `exists`
  (`raced`). `SignatureAssumption` says that a signature is not the absent one,
  which `Some` and `None` are in the code.

* **Ownership stores** (`OwnersDecide`). A caller that passed `is_owner` may find
  the file struck or another's when it acts. `KnowingOwns` says that if it still
  believes what it checked, its key owns the file or the file had been taken
  before; so the first to take a file has been its owner.
* **Provider index** (`IndexesStayAlike`). `SameRows` compares map and table row
  by row on the files that no call has led astray; counts and listings follow
  from it, with the rows a finite set.
* **SQLite file** (`OpenersSucceed`). `Progress` says for each place in
  `init_schema` what its opener finds there: at statement n of the batch, what the
  n - 1 before it create, whoever created it. So an open that gets to its end leaves
  a usable file even beside others. `Columns` says that only one opener at a time is
  between the first rename and the version, and that without a kill there the
  columns are as old as the version says; `AloneKnows` that an opener that is alone
  knows that version, `VersionNoted` where the version row may be missing. An open
  that fails has met another one or the traces of such a kill (`FailsJustified`).
* **Blob storage** (`BlobsStored`). `AllFit` ties what each call awaits to the
  backend, `WholeElsewhere` says that only the local store tears an object.
  Of a call that runs alone, `LoneChange` and `LoneGet` say how far it is and what
  the other object holds by then; `SettledIsCertain` is what is left at rest, and
  `GetsProper` what a `get` may answer, alone or not.
* **Records** (`RecordsReadBack`). `RecordsIInv` says that the store still has
  what it told a caller it stores, as a record or as a row, under the hash told.
  The map replaces what it holds under a hash, so this needs that no two documents
  have the same canonical bytes (`HashesTell`): each field can be told from
  whatever follows it (`Delimits`), having a fixed length, a tag or a count, and so
  can lists of them (`ListDelimits`, over the first place where two lists differ)
  and fields after one another (`BothDelimit`). Without `write_len_prefixed` the
  lemma is false, as TLC shows of the mutant. Grants are not told apart that way:
  no expiry is encoded as the expiry 0, and it is `IssueRecord`, which refuses a
  known id, that keeps the first one. The rest is that writing and parsing undo each
  other: `DocComesBack` and `GrantComesBack` for the JSON, where a document that
  the routes cannot express is refused, `RowComesBack` and `GrantRowComesBack`
  for the rows, with `WordComesBack` for a u64 in a signed column of any width.
* **Wallet** (`WalletStaysLoadable`, `IdentitiesKept`, `ImportsAreSigned`,
  `ExportsComeBack`). `DecodeEncode` is the round trip of one identity, so a file
  saved whole loads whole (`Readable`), with its active identity (`ActiveHeld`,
  `CopiesHold`). `KeptUnlessRaced` is inductive once a copy that is not stale is
  known to be what the file holds. `Genuine` follows an exported file through
  every change: elision and edits keep the digests that are signed, so an import
  that verifies has the keys of an identity its owner exported
  (`ImportedIsSigned`).
* **Encrypted files** (`DecryptsWhatWasEncrypted`, `WritesAPrefix`,
  `RangesAreExact`, `SettledFilesDecrypt`). `WrittenBy` says of `F.enc`, and of
  every copy of it in use, which encryption wrote it, whatever became of its
  ciphertext; key and hash of the plaintext are that encryption's. `Follows` says
  of a decoder that each node it awaits has the hash of the original ciphertext
  there, and that the groups left behind have been written as they were
  encrypted: a group or a pair that hashes to what is awaited is the original
  one. `SettledIInv` adds what a command that runs alone leaves and finds
  (`Whole`, `Covers`): the outboard has a pair for each parent still to come
  (`Holds`), and none fails to verify. The lemmas about
  `BaoTree` are inductions over its ranges, as the least range that would fail
  (`LeastMember`, from the library's well-foundedness of the naturals):
  `HashesDefined` and `PostOrdersDefined` show that the two recursive functions
  exist and have their equations, `PairsOfOutboard` that the outboard holds each
  parent's pair, `HoldsBelow` and `DecipherGroup` what the decoder makes of them.

Only model-checked: the liveness properties, `Terminates` and `ExpiredSwept`,
since fairness and `ENABLED` are out of the prover's reach. What a recursive
function computes is proved only through least counterexamples, as above.

## 6. Not modelled

* Signature and hash algorithms, base58, base64, the envelope library, armor:
  terms stand for what they make. Request bodies that do not parse are refused
  before they touch a store; only `Records` has some. Counts and lengths in canonical
  bytes are a `u32` in the code and a number in `Records`: lists and names stay
  below 2^32.
* Failures of the database. Failures of the disk and of S3 are in `BlobStore`; in
  the other modules a request that fails at a store call looks like one that stops.
* `parent_grant`, `delegation_depth` and the expiry of grants outside `Records`: no
  code acts on them. The leaf's own expiry in a capability chain: `verify_chain`
  leaves it to its caller.
* Of encrypted files: recryption of the wrapped key and signatures over the file;
  damage to the wrapped key, which is left to the backend; a short write of the
  outboard, which is taken for none. `encrypt` without an outboard is the same
  ciphertext and root hash as `encrypt_streaming`.
* A wall clock that goes backwards. The code assumes it does not
  (`SystemTime`), the models too.
* SQLite files with more than one version row, which code no longer in the
  repository wrote.
* The PRE backends and the bindings to OpenFHE and liboqs: cryptography, external.
* Rate limits (a library's), body limits, the mapping of errors to status codes,
  the configuration file, `/sign` and `/verify`, `/capabilities/verify`,
  `/openapi.json`, the output and prompts of the CLI, its `config` and `wallet`
  commands, the generated clients, benches and test harnesses: no state of the
  system changes there.
