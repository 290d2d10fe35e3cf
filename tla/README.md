# GoreeCloud Sync in TLA+

This directory keeps a model of the core of GoreeCloud Sync: what a node does
with the records other devices send it, how a device comes to be trusted and
stops being so, how two nodes connect, how a payload moves over the connection
and into a directory, and how records are read back page by page. TLC checks
the model on small instances; TLAPS proves its main safety properties for every
instance.

    tlc -config MCIngest_faults.cfg MCIngest.tla      one run
    tlapm IngestProofs.tla                            one module of proofs

`PROJECT.json` lists the runs, says for every definition which lines of the
source it models, and for every property a mutation of the code that breaks it.

## 1. The system

Lines and names below refer to `src/internal`.

| Component | State it keeps | Operations | Talks to |
|---|---|---|---|
| `datasets` (envelope, conflict, registry) | none | `ValidateRecord`, `ResolveConflict`, `Negotiate`, `NewTombstone` | used by everything about records |
| `session` (record, authenticated, store) | sessions file: token hash, peer, expiry | `VerifySignedRecord`, `AuthenticatePeer`, `Store.Put`, `Store.Resolve` | HTTP resolvers |
| `policy` | none | `AuthorizeRecord`; two external providers | called by the dataset stores |
| `replication.Ingestor` | none of its own | `Ingest` | guard, providers, stores, receipts, in that order |
| `replication.ReplayGuard` | map of marks, and its file | `Accept` | mutex |
| dataset stores (`SearchHistoryStore`, `BookmarkItemStore`, `BrowserRecordStore` twice) | one file each | `AcceptAndPersist`, `Records`, `ValidatedPage` | mutex each |
| tombstone compaction | none | `CompactTombstones`, `CompactTombstonesWithReceipts` | holds a store's mutex, takes the receipt store's |
| `replication.ReceiptStore` | one file | `Append`, `ForRecord` | mutex |
| `identity.ChallengeStore` | map of challenges in memory | `Issue`, `VerifyAndConsumePairing` | mutex, clock |
| `identity.TrustedDeviceStore` | registry file | `Authorize`, `Revoke`, `IsTrusted`, `Resolve`, `List` | mutex |
| `identity.DeviceKeyStore` | key file | `Save`, `Load`, `Rotate` | a key protector |
| `app.SecurePeerFactory`, `transport.PeerConn` | connection, bound fingerprint, closed flag | resolve, dial, accept, `RevalidatePeer`, `RunWithCurrentTrust`, sequences | registry, TLS |
| secure handshake (`transport/secure_peer.go`) | none | TLS with pinned keys, ready exchange | network |
| payload transfer (`transport`, `app`) | position in the stream | `SendTransferPayload`, `ReceiveTransferPayload` | the other node, registry, source, staging |
| payload publication (`app`) | files under one root | `Publish` | file system |
| manifests (`transfer`) | none | `BuildManifest`, `VerifyChunk`, `VerifyPayload` | used by transfers |
| retrieval (`app/retrieval.go`, `replication/retrieval_page.go`) | none | pages of a dataset | stores |
| HTTP server (`app/server.go`) | listener | handlers, `Run` | everything above |

Where the behaviour is hard:

- **Handlers run concurrently** and hold no lock from one step of `Ingest` to
  the next: the guard, the providers, the store and the receipts are passed one
  after the other while other handlers, and compaction, do the same.
- **Steps fail one at a time.** The guard's mark may be on file and the record
  not; the record may be stored and the receipt not; the guard's own save may
  fail. A crash may come between any two.
- **Records arrive in any order** and from several devices; all nodes must
  agree on the winner.
- **Compaction takes two locks** and reads receipts that were filed later than
  the records.
- **Trust changes at any time**, and is looked at only at checkpoints.
- **A connection is reused** after rejections, and must not be after failures;
  a receipt may be lost on the way back.

What makes each component correct is stated with its module below. The hazards
one by one, each at its line, are in `PROJECT.json`.

## 2. The modules

| Module | Models | Proofs |
|---|---|---|
| `Records` | rules without state: validity, conflicts, digests, receipts, convergence | `IngestProofs` |
| `RecordTable` | abstract: a table that merges envelopes and removes tombstones | |
| `Ingest` | one node's ingestion: handlers, guard, stores, receipts, compaction, crashes | `IngestProofs` |
| `DeviceTrust` | pairing challenges and the registry of trusted devices | `DeviceTrustProofs` |
| `SecurePeers` | extends `DeviceTrust` with peers, checkpoints and operation sequences | `SecurePeersProofs` |
| `Delivery` | abstract: what a payload transfer promises | |
| `PayloadTransfer` | both ends of a connection used for one transfer after another | `PayloadTransferProofs` |
| `Manifests` | what an offer, a manifest and a receipt say of a payload; building and verifying | `PayloadTransferProofs` |
| `Shelf` | abstract: what publication promises to readers of a directory | |
| `Publication` | overlapping `Publish` calls, the directory and its disk | `FilesProofs` |
| `SecureHandshake` | both ends of a connection, from trust to the capability handshake | `SecureHandshakeProofs` |
| `Sessions` | extends `DeviceTrust` with session tokens and the requests that carry them | `SessionsProofs` |
| `DeviceKeys` | the key file under `Save` and `Rotate` | `FilesProofs` |
| `Listing` | a set in the order of its members' keys: `sort.Slice`, and the maps of the JSON encoder | `ServingProofs` |
| `Capabilities` | the negotiation of datasets | `ServingProofs` |
| `Retrieval` | pages of one dataset beside writes, and the store's file | `ServingProofs` |
| `ServerRun` | start and shutdown of the HTTP server | `ServingProofs` |

`SecurePeers` and `Sessions` are composed with `DeviceTrust`, `Retrieval` with
`Records` and `Capabilities`, `Ingest` with `Records`; `Listing` is used by
`Retrieval` and `Capabilities`. `MCPayloadTransfer`,
`MCFiles` and `MCServing` put components beside each other that share no state:
a variable `part`, chosen at first, says of which one a behaviour is.

A definition named *Variant* in a comment is not part of the model: it is a
plausible mistake in the code, and stands before the definition it replaces
when a property is put to the test.

### Records

Instants, revisions and devices are natural numbers: the code only compares
them. A device's number is its place in the order of identifiers that
`ResolveConflict` falls back to. Payloads are opaque, but for none at all
(`NoPayload`, Go's nil map) and one with nothing in it (`EmptyPayload`): a file
that is written and read again gives back none for both (`Persisted`, because
of `omitempty`). `Supersedes` is the order
by revision, instant, deletion, origin; `ResolveConflict` says who wins, and
*converged* when neither does.

The proofs: the rule is symmetric (`ResolveConflictMirrors`), two
converged envelopes agree in all it compares (`ConvergedAgree`), and so do any
two envelopes that nothing in a set beats (`UnbeatenAgree`), which is why the
order of arrival cannot matter.

### Ingest

A handler goroutine is in one of the places `idle`, `accept`, `evaluate`,
`persist`, `receipt`; what runs under one mutex is one action, and what runs
between two is where the others come in.

| Action | Code |
|---|---|
| `Begin` | the handler has a peer, a decoded body and a verified signature |
| `Accept` | `ReplayGuard.Accept`, with the save and its failure |
| `EvaluateProviders` | the two external providers; they may deny or fail |
| `AcceptAndPersist` | `AuthorizeRecord`, then load, resolve, save |
| `AppendReceipt` | the receipt, and the answer to the sender |
| `CompactBegin`, `CompactCheck`, `CompactAbort`, `CompactEnd` | `CompactTombstonesWithReceipts`: it holds the store's mutex throughout and takes the receipt store's once per candidate |
| `CompactTombstones` | the variant in which the caller asserts convergence |
| `Crash` | the process dies between any two steps and starts again |

Files are written by `os.WriteFile` to a temporary name and `os.Rename`, so a
failed or interrupted save leaves the old content; `store`, `receipts` and
`markFile` are the files. The four dataset stores run the same code and are one
variable indexed by the dataset. `Faults` switches on the errors a run wants.

Promises:

- `AckedSurvives`: an update whose sender was answered *accepted* stays
  represented: the store has it, or one that wins over it, or compaction
  removed such a tombstone.
- `ReceiptsAreHonest`, `StoredIsAuthorized`, `InFlightIsSound`,
  `CompactionHoldsTombstones`: what the several files, and the locals of
  handlers that hold no lock, may be relied on for.
- `ObservedByAllConverges`: what comments and tests say of receipts, and the
  code does not do; see the disagreements. `CompactedOnlyForOrigin` is what it
  does instead, and is proved.
- `NeverReadmitted`, `HighWaterMark`: the guard, across restarts, as long as
  its saves succeed.
- `AdmittedIsNotLost`: where stores and providers do not fail and the node
  keeps running, what the guard lets pass reaches the store. With such a fault
  it may not, and the guard refuses the retry.
- `WorkFinishes`: see fairness.
- `TableSpec`: the stores refine `RecordTable`.

### DeviceTrust

`challenge` is the map in memory (0: no entry), `pairings` the verified
pairings callers hold, `registry` the file. `issuedAt`, `granted` and
`approved` are histories. Each operation is one action, because each runs under
its store's mutex from first read to save. Proofs are taken to be verified or
without effect; a key stands for its encoding and its fingerprint.

- `ChallengesPairOnce`, `PairedInTime`: one pairing a challenge, before expiry.
- `TrustIsEarned`: a registry names only what its own account approved and the
  device proved.
- `ActiveKeyIsKept`: the "active-key replacement protection" of `README.md`.

### SecurePeers

One node's connections and the goroutines that run operation sequences, while
`DeviceTrust` goes on underneath between any two of their steps. `late` counts
the operations a runner began since its peer's key was last trusted, `lapsed`
remembers that trust was gone between two steps.

- `PeersAreEarned`: a peer that was admitted had been approved, and had proved
  its key, although registry and handshake are read at different times.
- `AtMostOneLateOperation`: the promise of `OPERATION-TRUST.md`. It cannot be
  none: the checkpoint comes before the operation and nothing is locked.
- `RevocationTakesEffect`: a lasting revocation ends the use of the peer.

### PayloadTransfer

The two calls and the stream between them. A call is at a place, with a
transfer and the next chunk; frames are messages in two sequences. `Write` to a
connection that has ended may seem to succeed; `Read` fails then. `Close`
discards what was on its way to this side; what was on its way to the other may
arrive or be lost from the end (`Lose`). Any goroutine may close the connection
(`HangUp`), the link may go (`Cut`), and when both calls have ended the nodes
may connect again. A payload may be empty, and the same transfer may be
offered again. Each node makes one call at a time on the connection: the code
leaves it to the callers to take turns.

- `StreamInStep`: a side that is open only ever finds a frame it can use. The
  code's rule is that every failure closes the connection and a rejection does
  not; this is why that is enough.
- `AcceptedBeforePayload`, `ReceiptMeansStaged`: no chunk before acceptance; a
  receipt, on either side, means every chunk is staged, once and in order.
  That the sender fails while the receiver succeeds is possible, and allowed.
- `OneLateChunk`: one chunk at most is sent, or staged, after trust is gone.
- `CallsReturn`: see fairness.
- `DeliverySpec`: refinement of `Delivery`.

### Manifests

Payloads are short sequences of bytes; the hash of a payload is the payload
itself, and one value that is no digest. An offer is built, or described
by another program with any cut into chunks, and then the receiver's copy and
the stream drift from it by `MaxChanges` fields or bytes. The loops of
`BuildManifest` and `VerifyPayload` are functions of the number of turns;
`ReadChunk` and `ReadExpected` are one turn.

- `VerifiesItsOwnPayload`: a stream passes `VerifyPayload` exactly if
  `BuildManifest` would make this manifest of it, and was then read to its end.
- `ValidatesWhatCanBeBuilt`: `Validate`, which never sees a payload, accepts
  the shapes that `BuildManifest` makes and no others.
- `ReceiptVouchesForThePayload`: a receipt names no chunks, and still vouches
  for one payload.

### Publication

A call is at `create`, `copy`, `sync`, `link`, `unlink` or `cleanup` of
`LocalPayloadPublisher.Publish`; the directory is shared, and a payload may be
named like a temporary file. `dir` is what programs see, `disk` what a loss of
power leaves; `Settle` is the system writing out an entry by itself. Others may
take a published file away (`Take`), the program may stop (`Crash`), staged
bytes may change between receipt and publication.

- `KeepsItsTemp`: nobody removes or replaces a file that a call still uses.
- `ErrorAloneMeansNotPublished`: the comment on the last error of `Publish`.
- `PublishesTheOffered`: what appears is what the offer declared.
- `IsAShelf`: refinement of `Shelf`; files appear whole and never change, also
  across losses of power.

### SecureHandshake

`made` and `key` are what each node's key store has and uses, `trusted` what
its registry says, `end` the two calls, `wire` what can be read. The TLS
handshake is a hello and two certificates that prove their keys; the ready byte
follows. Keys are rotated and trust changes between any two steps, either end
may expect another device, and the connection may be lost with what is on it.

- `MutuallyAccepted`: `DialSecurePeer` "returns only after both device
  identities are mutually accepted and pinned".
- `BoundIsTheKeyInUse`: the fingerprint later checkpoints ask about is that of
  the key which was authenticated, although it is bound in a step of its own.
- `ConnectingEnds`, `NoWaitForTheGone`: see fairness.

### Sessions

A request reads the clock, resolves its token under the session store's mutex,
asks the registry, and reads its body; each is an action, and `DeviceTrust`
goes on between them. `Put` is `AuthenticatePeer` with the store's `Put`. A
failing save loses nothing; a restart may find no session file.

- `NoRequestAfterRevocation`: a request that begins after a revocation gets no
  further than the registry. One that was asked about before goes through.
- `AcceptedIsEntitled`: from the record back to session, approval and proof.
- `SessionsEndWhenExpired`: no write for one token loses another's session.

### DeviceKeys

`Rotate` writes the key file twice, by a synced temporary file and a rename;
nothing is locked and the directory is not synced, so `onDisk` is the set of
files a loss of power may bring back.

- `StoresWhatWasAsked`: a recorded rotation was called for; what an undisturbed
  call returned is stored.
- `KeyIsNotLost`: every change of the file leaves one that `Load` accepts.

### Capabilities, Retrieval

`Negotiate` takes the other end's list as it comes, and the application from
the own one; `BothEndsAgree` says that two ends which compute apart get the same
datasets, versions and rights, entry by entry, each under its own list's
applications, for lists that name a dataset once.

The store's file is a sequence of records under keys. `Save` writes and `Load`
reads it as the JSON of the map: the keys in order, the last of equal keys, and
no payload where it was empty. `Retrieve` is one page
under the mutex; `AcceptAndPersist` and `Compact` come between pages. An
identifier is its place in the order of strings.

- `WalkIsComplete`: a client that follows the cursor gets everything that was
  there throughout, once, in order, in no older version.
- `ScanNeedsNoOrder`: the window of the smallest identifiers is right for files
  with keys in any order, or repeated; the `scan` part begins in each such file.
- `WalkEnds`: a reader without the right to write can finish a walk of records
  that others write, as long as the file is of one schema version it has and no
  live record in it has lost its payload. One such record fails the whole
  dataset, page by page, for everybody.
- `StaysValid`: that no live record loses its payload. It does not hold; see the
  disagreements.

### ServerRun

`Run`, its goroutine, the channel between them and `net/http` as far as they
use it. `RunTellsTheTruth`: nil means drained, and hides no listener's error.
`RunEnds`: a context that is done ends `Run` whatever handlers do, and the
goroutine follows.

## 3. The runs

| Run | Instance | Shows |
|---|---|---|
| `faults` | 2 handlers, 1 record, 5 envelopes of 2 devices, file guard, asserted compaction; providers, stores, receipts fail, crashes | durability, and no revision twice |
| `compaction` | 2 records, 4 envelopes, 2 of them tombstones, compaction by receipts, no guard so that records come again, failing receipts, fairness | the refinement of `RecordTable`, liveness, nothing lost on the way to the store |
| `mark_lost`, `conflict` | as `faults` with failing guard saves; no faults | disagreements, see below |
| `receipts` | 1 record that both devices delete, both required | disagreement |
| `peers` | 2 accounts, 2 keys, 1 connection, 2 runners, sequences of 2, fairness | peers, checkpoints, revocation |
| `lapse` | as `peers`, one account, no faults | disagreement |
| `transfer` | a payload of 2 chunks and an empty one, all faults, fairness; payloads of up to 3 bytes with 2 changes | transfers and manifests |
| `handshake` | 2 nodes, 3 keys, fairness | connecting |
| `files` | 2 publications, 3 names, 2 payloads; 2 callers of the key store, 2 keys; 1 device, 2 keys, 2 challenges, tokens and requests, failing session files | publication, keys, pairing and requests |
| `serving` | 4 records, 10 envelopes of 2 schema versions; lists of 2 with 2 names of applications; 3 connections; fairness | retrieval, negotiation, shutdown |
| `payload` | the records of `serving` | disagreement |

Bounds, and why they are enough to see something:

- Two handlers: every conflict in `Ingest` is between two holders of one lock
  or one record. The envelopes include an edit and a deletion at one revision
  and instant, the same edit at two revisions, and revisions of two devices
  that cross; so all four stages of the conflict rule decide somewhere.
- `Cutoffs` {1, 2} lets some tombstones expire and others not.
- No guard (`compaction`): a guard only refuses more, so that what reaches the
  stores past one reaches them without, and more than once. The guard with its
  file is in `faults`, its failing saves in `mark_lost`, and `AdmittedArrives`
  is for every guard.
- `MaxTime` bounds the clock in `Tick`; with a TTL of one instant a challenge
  can be answered in time, on expiry and late. `Nonces` bounds the challenges.
- `MaxOps` bounds sequences, 64 in the code: one later operation is needed to
  be late, a second shows that the count does not grow.
- Two chunks: a first, a later one, and a place between. Payloads of three
  bytes and chunks of two: whole, short and missing last chunks.
- `Small` (sessions in `files`): two of each, but not all at once, and two
  logins.
- `OneTemp`, `AtMostOneFile`, `OnlyTheFile`, `TakeTurns` (`files`): calls
  overlap in a directory that had at most one file, or power fails while
  publications use one temporary name; the same for the key file. The proofs of
  `Publication` are without them.
- `handshake` has the two nodes of the connection. That another device answers
  the dial, or is expected, is covered by the theorems, which are for any set
  of devices.
- `MaxScanned`: files of up to four keys against pages of up to three.

Deadlock is checked but in `serving` and `payload`, where a server that has shut
down and lists that are as long as they get have nothing left to do. Symmetry is
used in runs without liveness only.

### Fairness

- `Ingest`: a goroutine that can run does run (WF per section). A mutex is
  handed to a waiter that has starved for a millisecond (`sync.Mutex`), so
  `AcceptAndPersist`, which compactions may keep from the lock again and again,
  has SF. A compaction under way goes on (WF). Nothing makes requests or
  compactions start, or crashes happen.
- `SecurePeers` (`RevocationTakesEffect`): a sequence that has started goes on, its operations return.
  Nothing makes trust change.
- `PayloadTransfer`: a call that can go on does; sources, destinations and the
  authorizer return; a read on a dead link fails in the end (keep-alive of Go's
  TCP connections). The code sets no deadline on transfers, so `CallsReturn`
  has the premise that the other node keeps coming back to the connection or
  the connection ends. Without it a sender may wait for ever for a receiver
  that never calls `ReceiveTransferPayload`.
- `SecureHandshake`: a local step that can be taken is; the deadline passes
  (`GiveUp`), and a read on a lost or closed connection fails. Nothing makes
  the other end answer. `ReceiveHandshake` has no deadline, so
  `NoWaitForTheGone` is about an end that has failed or closed; one that is
  alive and silent is waited for.
- `ServerRun`: goroutines run, a closed listener ends the accept loop, the
  shutdown's limit passes. Nothing makes handlers return.
- `Retrieval`: a client asks on while it has a cursor and is answered
  (`AsksOn`, weak fairness of `Retrieve`). Nothing stops writers.

### Disagreements between the code and what is said of it

1. `mark_lost`: when the guard's save fails, `replay_guard.go:60` deletes the
   entry instead of restoring the mark it had. Revisions that passed before
   pass again.
2. `conflict`: `README.md` says conflicts remain visible. The store keeps the
   winner; the loser's sender is answered *accepted* and its payload is gone.
3. `lapse`: a sequence is said to stop "if trust changes between steps". A
   revocation followed by a new approval of the same key between two
   checkpoints goes unnoticed.
4. `receipts`: a receipt "records that an authenticated peer observed a specific
   record revision" (`replication/receipts.go`), and compaction removes a
   tombstone "after every required peer has durably observed it". But its digest
   names the tombstone's origin, and `Ingest` files receipts only for what the
   peer signed itself. Receipts confirm a tombstone only if its origin is the
   one required peer (`CompactionNeedsTheOrigin`); with two required peers,
   which `receipts_test.go` expects to converge, nothing is ever compacted. The
   test makes the second peer's receipt from the first one's record.
5. `payload`: "Live records must contain application payload"
   (`protocol/README.md`). One with `"payload": {}` is accepted, because the map
   is not nil, and saved without it, because of `omitempty`. Read again it is
   nil, `ValidateRecord` refuses it, and with it every page of its dataset until
   a newer revision replaces the record.
6. `SPECIFICATIONS.md` claims "atomic rotation" of the device key. `Rotate`
   writes twice: a stop or a failed write in between leaves the new key without
   its rotation time, and the caller with an error. `DeviceKeys` has these
   steps; no run is kept for it, as what the file holds is sound each time
   (`KeyIsNotLost`).

## 4. The proofs

All from the assumptions named in the modules (`EnvelopesAssumption`,
`IngestAssumption`, `DevicesAssumption`, `PayloadAssumption`,
`TrustAssumption`, `PeersAssumption`, `TransferAssumption`,
`SessionsAssumption` and their like) and for every value of the constants. Every
component with state has one inductive invariant, which implies that its
variables hold what they can hold. Each was an invariant of a run of TLC before
it was proved; the runs keep what it is for.

**Ingest.** `AckedSurvives` is not inductive: a record is acknowledged two
steps after it was stored, and in between others may replace or compact it.
`DurabilityInv` adds what the handler relies on meanwhile (`InFlightIsSound`:
a handler about to file its receipt has its record represented), what
compaction relies on (`CompactionHoldsTombstones`: its candidates are still the
tombstones it loaded, because it kept the lock) and that a stored envelope is
in its own place (`StoredIsAuthorized`). The key lemmas: whatever a step does
to a store, an envelope is replaced by one that covers it or removed as a
tombstone and remembered; and *covers* is transitive along the conflict order.
From it `NoAcceptedUpdateIsLost`, `ReceiptsFollowTheStore`,
`OnlyAuthorizedIsStored` and the refinement `ImplementsTable`.

`MarksAreHighWater` and `NoRevisionIsReadmitted` assume `Guard = "file"` and
that its saves do not fail; `mark_lost` shows that the second is needed.
`CompactionNeedsTheOrigin` assumes that no caller asserts convergence. A file
gives back an envelope that differs in its payload at most (`PersistedFields`),
which no rule of conflict looks at (`PersistedWins`); so all this is about what
the files hold, whatever they lose.
`AdmittedArrives` assumes that no provider, no store's save and no crash gets
between the guard and the store (`NothingIsLost`); the guard's file and the
receipts may fail. Its invariant says that an admitted envelope is represented,
carried by a handler whose providers agreed, or was never negotiated.

**DeviceTrust.** `TrustInv`: a challenge that is still in the map has paired
nobody and expires one TTL after its issue; what callers hold was granted.

**SecurePeers.** `PeersInv`: while the key is trusted, or a checkpoint has just
passed, no late operation is counted. That makes the next one the first and the
last. It composes with `TrustInv` for `PeersAreEarned`.

**PayloadTransfer.** `StreamInStep` is not inductive: the frame after the next
one would matter a step later, and why no other frame can follow is known only
from where the *other* call is. `StreamInv` says both. `ToReceiverInv` and
`ToSenderInv` give the whole content of the stream from the place of the call
that reads it; `AlignedInv` says that on a live connection the sender is ahead of
the receiver by exactly the frames in flight; `StagedInv` and `ReceiptInv` tie
the destination to the place of the receiver and, from the moment a receipt is
on its way, to the sender. A connection that has ended keeps all but
`AlignedInv`, which is why a call may still read what arrived before. The proof
has one lemma per action, and lemmas for a write, a read, a checkpoint and a
failure that all actions share. From it `StreamInStep`,
`AcceptedBeforePayload`, `ReceiptMeansStaged` and the refinement of `Delivery`.
`OneLateChunk` has an invariant of its own, `LateInv`: a call is where it moves
a chunk only after a checkpoint that found nothing late.

**Publication.** `PublicationInv`: a call's temporary file is its own as long
as it holds it, whole from the verification on, on the disk from the sync on;
so what `Link` makes visible is whole and synced. Two names for one file are
two equal entries, because nothing writes to it after the link. From it the
refinement of `Shelf`: a loss of power takes only what was not yet written out.

**SecureHandshake.** `HandshakeInv`: what an end has at each place, what on the
wire proves about its writer, and that acceptance comes in the order client,
server, client's return. Rotation and approval change stores that no later step
reads again, which is why the invariant survives them.

**Sessions.** `SessionsInv` adds to `TrustInv` that the file holds what was put,
that what a request carries fits its place, and that clock readings are not in
the future.

**DeviceKeys.** `StoresWhatWasAsked` speaks of the present file. A loss of power
may bring back an older one, and a call that is on its way may replace it, so
`KeysInv` says it of every file in `onDisk`, and that a call which is to write
carries a rotation that was asked for, or none. `ClaimHolds` keeps an
undisturbed call's answer apart from those that others have overtaken.
`KeysAreNotLost` is about steps, and follows from the same invariant.

**Manifests.** No state makes these properties true: they are facts about two
loops. `ReadsEveryPiece` gives the loop of `BuildManifest` in closed form:
after *k* turns it has read *k* chunks of the full size, or the stream is at
its end and the chunks are the full ones and the rest. `BuildsEveryPayload`
follows. The loop of `VerifyPayload` is then followed along the manifest
(`VerifiesEveryChunk`): as long as it is content, what it has read is what the
chunks describe. A valid manifest leaves one way to cut its size into chunks
(`OnlyCut`), and hashes that differ for different bytes one payload for it;
that is `StreamsHaveTheirManifest`. In the other direction any valid shape is
built from a payload of its size. Both loops are functions on an interval, so
each step is an ordinary lemma about *k* and *k* + 1, and the induction is over
a set of numbers (`NaturalInduction`, from the well-foundedness of `Nat`): no
operator is passed to a theorem. Streams may end or break at any place;
`ManifestInv` says that nothing else, and only records with the fields of an
offer, come up.

**Listing.** `InOrder` numbers a set by how many members come before each. If
the keys differ it is an increasing sequence of the set (`InOrderLists`), and
there is one (`ListsAreUnique`), which is all that the two users need of a sort.

**Capabilities.** `Negotiate` of two lists is the sequence, in the order of the
datasets, of what pairs of their entries make (`NegotiateLists`). The two ends
pair the same entries and make the same of them but for the application
(`MutualIsSymmetric`), so they list the same datasets, and a set of datasets has
one order: the results are of one length and agree entry by entry
(`NegotiateIsSymmetric`). For that, each list must name a dataset once: the own one does (`ListsInv`), as a registry is a map;
for the other end's it is a premise of `BothEndsAgree`.

**Retrieval.** The scan goes through the file one record at a time and keeps
`limit + 1` candidates. What it has after *k* records is the beginning, of that
length, of the increasing sequence of what a map would hold after *k* records
(`ScanIsBeginning`): a record that is dropped is not among the first *limit* + 1
and cannot come to be, because more records only push it further back.
`AnyFileScans` is about all files of stored envelopes, in any order and with
repeated keys; `ScansAreRight` is about those that are written. `RetrievalInv`
carries `WalkIsComplete` across pages: what the walk has found is still in the
table, in no older version (`SinceInv`), what it has lies behind the cursor
(`GotInv`), and a page takes everything up to the next cursor.

**ServerRun.** `ServerInv`: the goroutine sends what its loop ended with and
nothing else (`EndIsSent`), the server is closed by `Run` only (`MarkedByRun`),
and where `Run` waits for the goroutine after a shutdown that came to its end,
nothing is left that could take a connection (`QuietAfterShutdown`). So the
error that `Run` then receives can only be that of a closed server.

**Only model-checked** is liveness, which is beyond the prover:
`WorkFinishes`, `RevocationTakesEffect`, `CallsReturn`, `ConnectingEnds`,
`NoWaitForTheGone`, `WalkEnds` and `RunEnds`. Every other property of a passing
run is stated by a theorem.
**Only proved**: properties whose run would repeat what another shows, such as
`StoredIsAuthorized`, `HighWaterMark`, `CompactionHoldsTombstones`,
`CompactedOnlyForOrigin`,
`PairedInTime`, `ReceiptMeansStaged`, `AcceptedBeforePayload`,
`ServerAdmitsItsClient`, `ResolvedInTime`, `NoLitterWithoutFault`, and type
correctness of all but `Retrieval`.

## 5. What is not modelled

- **Power failure** of the record, mark, receipt and session files, which are
  renamed without a sync: they may be empty afterwards, which counts as no
  data. The model has it for publication, device keys and, as a lost file in a
  restart, for sessions.
- Roots and paths that are replaced while `Publish` runs.
- Two goroutines that transfer on one `PeerConn` at once; the callers take
  turns. The raw `DialPeer` and `AcceptPeer` have no caller.
- The features in a capability handshake, which nothing uses; routing, headers
  and status pages; `HashReader`; the type in `transfer/session.go`; the choice
  of a subcommand.
- **Cryptography and encodings**: signatures, TLS, JSON, digests. A digest is
  the tuple of what it hashes. Of the JSON of a record's file the model has what
  a round trip changes: the order and repetition of keys, and a payload with
  nothing in it. A record with revision 0 is not in `Envelopes`:
  it would pass the guard once and be refused by `ValidateRecord`.
- An `Ingestor` without a receipt store; it skips the last section.
- The start-up program builds the server without an ingestor, so none of the
  record routes exists in it yet; the model is of the packages.
- `Authorize` with Go's zero instant, which writes an entry that the registry
  then refuses to read.
- The components listed as `not_modelled` in `PROJECT.json`.

## 6. Plan

Done: the modules above, in the order of section 2, with their proofs. Left:

1. Several nodes that exchange records: convergence of their tables, of which
   `UnbeatenAgree` is the core.
2. Power failure of the record files, as soon as the code says what it promises.
3. That the lists a session was negotiated from stay those of the two registries,
   as soon as a registry can change while the program runs.
