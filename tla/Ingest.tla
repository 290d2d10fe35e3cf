-------------------------------- MODULE Ingest --------------------------------
(***************************************************************************)
(* One node's record ingestion: Ingestor.Ingest called by concurrent       *)
(* request handlers, the ReplayGuard and its file, the dataset stores and  *)
(* their files, the ReceiptStore and its file, and tombstone compaction.   *)
(*                                                                         *)
(* A section that runs under one mutex is one action.  The three mutexes   *)
(* (guard, dataset store, receipt store) are released between sections, so *)
(* requests interleave there; compaction alone holds its store's mutex     *)
(* while it takes the receipt store's, and is split at those points.       *)
(* Every save is os.WriteFile to a temporary name and os.Rename: a process *)
(* that dies leaves the old or the new file, so a failed or interrupted    *)
(* save leaves the file as it was.                                         *)
(***************************************************************************)
EXTENDS Records

CONSTANTS
    Requests,          \* handler goroutines that may run at the same time
    Envelopes,         \* what the devices have signed so far, in any order
    Negotiated,        \* device -> capabilities of its authenticated session
    Stores,            \* datasets the Ingestor was given a store for
    RequiredPeers,     \* peers compaction asks receipts of
    Guard,             \* Ingestor.Replay: "none" (nil), "memory" or "file"
    AssertedCompaction,\* callers use CompactTombstones as well
    Cutoffs,           \* values of now - MinimumRetention in compaction calls
    Faults,            \* what may go wrong, a subset of AllFaults
    NoRecord           \* a key that is not in a store's file

AllFaults == {"guardSave", "storeSave", "receiptSave", "receiptLoad",
              "provider", "crash"}

\* The stores that define CompactTombstonesWithReceipts.
Compactable == {"search.history", "bookmarks.items"}

\* Why a record was accepted: the peer, and the providers' decisions.
Evidence == [peerDevice: Devices, privacy: BOOLEAN, trust: BOOLEAN]
Saved == {Persisted(e) : e \in Envelopes}
PersistedRecord == [envelope: Saved, evidence: Evidence]

ReplayKey == Devices \X Datasets \X RecordIDs
KeyOf(peer, record) == <<peer, record.dataset, record.recordID>>

ASSUME EnvelopesAssumption ==
    /\ Envelopes \subseteq RecordEnvelope
    /\ \A e \in Envelopes : e.revision > 0
ASSUME IngestAssumption ==
    /\ Negotiated \in [Devices -> SUBSET Capability]
    /\ \A p \in Devices : \A b, c \in Negotiated[p] :
          b.dataset = c.dataset => b = c
    /\ Stores \subseteq Datasets
    /\ Guard \in {"none", "memory", "file"}
    /\ AssertedCompaction \in BOOLEAN
    /\ Cutoffs \subseteq Nat
    /\ Faults \subseteq AllFaults
    /\ NoRecord \notin PersistedRecord \cup Saved

VARIABLES
    mark,        \* ReplayGuard.revision; 0 stands for no entry
    markFile,    \* what the guard's file holds
    store,       \* the dataset stores' files
    receipts,    \* the receipt store's file
    request,     \* where each handler goroutine is
    compaction,  \* per dataset, a compaction that holds the store's mutex
    admitted,    \* history: envelopes the guard has let pass
    acked,       \* history: envelopes whose sender was answered "accepted"
    compacted    \* history: tombstones that compaction removed

vars == <<mark, markFile, store, receipts, request, compaction,
          admitted, acked, compacted>>

guardVars == <<mark, markFile, admitted>>

Receipt == {ObservationReceipt(e, p) : e \in Envelopes, p \in Devices}

\* A handler, and the locals it carries from one section to the next.
Idle == [pc |-> "idle"]
Busy == [pc: {"accept", "evaluate", "persist", "receipt"}, peer: Devices,
         record: Envelopes, privacy: BOOLEAN, trust: BOOLEAN]
Request == {Idle} \cup Busy

\* A compaction: the candidates it has still to look at, and those to drop.
NotCompacting == [running |-> FALSE]
Running == [running: {TRUE}, todo: SUBSET RecordIDs, drop: SUBSET RecordIDs]
Compaction == {NotCompacting} \cup Running

Init ==
    /\ mark = [k \in ReplayKey |-> 0]
    /\ markFile = mark
    /\ store = [d \in Datasets |-> [i \in RecordIDs |-> NoRecord]]
    /\ receipts = {}
    /\ request = [q \in Requests |-> Idle]
    /\ compaction = [d \in Datasets |-> NotCompacting]
    /\ admitted = {}
    /\ acked = {}
    /\ compacted = {}

-----------------------------------------------------------------------------

\* Variant: the origin of the record is not compared with the session's peer.
AnyOrigin(peer, record) == TRUE

\* The record is signed by the device that the session authenticated.
VerifySignedRecord(peer, record) == record.originDevice = peer

\* AuthorizeRecord: a negotiated capability admits the record, and both
\* providers said yes when they were asked.
AuthorizeRecord(record, peer, privacy, trust) ==
    /\ \E c \in Negotiated[peer] : ValidateRecord(record, c)
    /\ privacy
    /\ trust

\* A handler has resolved its peer, decoded the body and matched the route.
Begin(q) ==
    /\ request[q] = Idle
    /\ \E peer \in Devices, record \in Envelopes :
          /\ VerifySignedRecord(peer, record)
          /\ request' = [request EXCEPT ![q] =
                [pc |-> "accept", peer |-> peer, record |-> record,
                 privacy |-> FALSE, trust |-> FALSE]]
    /\ UNCHANGED <<guardVars, store, receipts, compaction, acked, compacted>>

Goto(q, pc) == request' = [request EXCEPT ![q].pc = pc]
Reject(q) == request' = [request EXCEPT ![q] = Idle]

\* Variant: a revision that passed once passes again.
SameOrNewer(k, revision) == revision >= mark[k]

\* The revision is above every one the guard remembers for the key.
Fresh(k, revision) == revision > mark[k]

\* ReplayGuard.Accept: refuse a revision at or below the mark, otherwise raise
\* the mark and save.  A failed save deletes the entry from the map, whatever
\* revision it had before.
Accept(q) ==
    LET r == request[q]
        k == KeyOf(r.peer, r.record)
        raised == [mark EXCEPT ![k] = r.record.revision]
        fresh == Fresh(k, r.record.revision)
    IN  /\ r.pc = "accept"
        /\ \/ /\ Guard = "none"
              /\ Goto(q, "evaluate")
              /\ admitted' = admitted \cup {r.record}
              /\ UNCHANGED <<mark, markFile>>
           \/ /\ Guard # "none"
              /\ ~fresh
              /\ Reject(q)
              /\ UNCHANGED guardVars
           \/ /\ Guard # "none"
              /\ fresh
              /\ mark' = raised
              /\ markFile' = IF Guard = "file" THEN raised ELSE markFile
              /\ admitted' = admitted \cup {r.record}
              /\ Goto(q, "evaluate")
           \/ /\ Guard = "file"
              /\ "guardSave" \in Faults
              /\ fresh
              /\ mark' = [mark EXCEPT ![k] = 0]
              /\ Reject(q)
              /\ UNCHANGED <<markFile, admitted>>
        /\ UNCHANGED <<store, receipts, compaction, acked, compacted>>

\* The two providers are asked, outside of any lock; either may deny or fail.
EvaluateProviders(q) ==
    /\ request[q].pc = "evaluate"
    /\ \/ request' = [request EXCEPT ![q].pc = "persist",
                                     ![q].privacy = TRUE, ![q].trust = TRUE]
       \/ /\ "provider" \in Faults
          /\ \E privacy, trust \in BOOLEAN :
                request' = [request EXCEPT ![q].pc = "persist",
                               ![q].privacy = privacy, ![q].trust = trust]
       \/ "provider" \in Faults /\ Reject(q)
    /\ UNCHANGED <<guardVars, store, receipts, compaction, acked, compacted>>

\* Variant: a compaction lets its store's mutex go while it reads receipts.
NeverLocked(d) == TRUE

\* No compaction holds the mutex of the dataset's store.
Unlocked(d) == ~compaction[d].running

\* Ingest knows the dataset, and has a store for it.
Dispatched(d) == d \in Stores

\* AcceptAndPersist: authorize, then load, resolve and save under the store's
\* mutex.  A record that loses or ties is not written, and is not an error.
\* Loading the file may fail as well as saving it.
AcceptAndPersist(q) ==
    LET r == request[q]
        d == r.record.dataset
        i == r.record.recordID
        current == store[d][i]
        wins == current # NoRecord =>
                    ResolveConflict(current.envelope, r.record) = "remote"
        evidence == [peerDevice |-> r.peer, privacy |-> r.privacy,
                     trust |-> r.trust]
        authorized == /\ Dispatched(d)
                      /\ AuthorizeRecord(r.record, r.peer, r.privacy, r.trust)
    IN  /\ r.pc = "persist"
        /\ \/ /\ ~authorized
              /\ Reject(q)
              /\ UNCHANGED store
           \/ /\ authorized
              /\ Unlocked(d)
              /\ \/ /\ ~wins
                    /\ Goto(q, "receipt")
                    /\ UNCHANGED store
                 \/ /\ wins
                    /\ store' = [store EXCEPT ![d][i] =
                          [envelope |-> Persisted(r.record), evidence |-> evidence]]
                    /\ Goto(q, "receipt")
                 \/ /\ "storeSave" \in Faults
                    /\ Reject(q)
                    /\ UNCHANGED store
        /\ UNCHANGED <<guardVars, receipts, compaction, acked, compacted>>

\* NewObservationReceipt and ReceiptStore.Append, which skips a receipt it
\* already has; then Ingest returns and the handler answers "accepted".
AppendReceipt(q) ==
    LET r == request[q]
    IN  /\ r.pc = "receipt"
        /\ \/ /\ receipts' = receipts \cup {ObservationReceipt(r.record, r.peer)}
              /\ acked' = acked \cup {r.record}
           \/ /\ "receiptSave" \in Faults
              /\ UNCHANGED <<receipts, acked>>
        /\ Reject(q)
        /\ UNCHANGED <<guardVars, store, compaction, compacted>>

-----------------------------------------------------------------------------

\* A stored tombstone whose retention has elapsed.
Expired(d, i, cutoff) ==
    /\ store[d][i] # NoRecord
    /\ store[d][i].envelope.deleted
    /\ store[d][i].envelope.updatedAt <= cutoff

\* Variant: the removed records are kept and the others dropped.
OnlyRecords(d, ids) ==
    [store EXCEPT ![d] = [i \in RecordIDs |->
        IF i \in ids THEN store[d][i] ELSE NoRecord]]

\* The store after some records were deleted from its map and it was saved.
WithoutRecords(d, ids) ==
    [store EXCEPT ![d] = [i \in RecordIDs |->
        IF i \in ids THEN NoRecord ELSE store[d][i]]]

EnvelopesOf(d, ids) == {store[d][i].envelope : i \in ids}

\* CompactTombstonesWithReceipts takes the store's mutex and loads the file.
CompactBegin(d) ==
    /\ d \in Compactable \cap Stores
    /\ Unlocked(d)
    /\ \E cutoff \in Cutoffs :
          compaction' = [compaction EXCEPT ![d] =
              [running |-> TRUE, drop |-> {},
               todo |-> {i \in RecordIDs : Expired(d, i, cutoff)}]]
    /\ UNCHANGED <<guardVars, store, receipts, request, acked, compacted>>

\* One turn of its loop, in the map's arbitrary order: ForRecord takes and
\* releases the receipt store's mutex.
CompactCheck(d) ==
    /\ compaction[d].running
    /\ \E i \in compaction[d].todo :
          compaction' = [compaction EXCEPT
              ![d].todo = @ \ {i},
              ![d].drop = IF ConvergenceConfirmed(store[d][i].envelope,
                                                  RequiredPeers, receipts)
                          THEN @ \cup {i} ELSE @]
    /\ UNCHANGED <<guardVars, store, receipts, request, acked, compacted>>

\* ForRecord fails: nothing is removed, the mutex is released.
CompactAbort(d) ==
    /\ "receiptLoad" \in Faults
    /\ compaction[d].running
    /\ compaction[d].todo # {}
    /\ compaction' = [compaction EXCEPT ![d] = NotCompacting]
    /\ UNCHANGED <<guardVars, store, receipts, request, acked, compacted>>

\* Variant: a compaction that ends keeps the store's mutex.
CompactEndLocked(d) ==
    /\ compaction[d].running
    /\ compaction[d].todo = {}
    /\ store' = WithoutRecords(d, compaction[d].drop)
    /\ compacted' = compacted \cup EnvelopesOf(d, compaction[d].drop)
    /\ compaction' = [compaction EXCEPT ![d].drop = {}]
    /\ UNCHANGED <<guardVars, receipts, request, acked>>

\* The confirmed tombstones are removed in one save, which may fail.
CompactEnd(d) ==
    /\ compaction[d].running
    /\ compaction[d].todo = {}
    /\ \/ /\ store' = WithoutRecords(d, compaction[d].drop)
          /\ compacted' = compacted \cup EnvelopesOf(d, compaction[d].drop)
       \/ /\ "storeSave" \in Faults
          /\ UNCHANGED <<store, compacted>>
    /\ compaction' = [compaction EXCEPT ![d] = NotCompacting]
    /\ UNCHANGED <<guardVars, receipts, request, acked>>

\* SearchHistoryStore.CompactTombstones: the caller asserts convergence.
CompactTombstones ==
    LET d == "search.history"
    IN  /\ AssertedCompaction
        /\ d \in Stores
        /\ Unlocked(d)
        /\ \E cutoff \in Cutoffs :
              LET ids == {i \in RecordIDs : Expired(d, i, cutoff)}
              IN  /\ store' = WithoutRecords(d, ids)
                  /\ compacted' = compacted \cup EnvelopesOf(d, ids)
        /\ UNCHANGED <<guardVars, receipts, request, compaction, acked>>

\* The process dies and starts again: goroutines and mutexes are gone, the
\* guard reads its file, the other stores read theirs on every call.
Crash ==
    /\ "crash" \in Faults
    /\ mark' = markFile
    /\ request' = [q \in Requests |-> Idle]
    /\ compaction' = [d \in Datasets |-> NotCompacting]
    /\ UNCHANGED <<markFile, store, receipts, admitted, acked, compacted>>

-----------------------------------------------------------------------------

Handle(q) ==
    \/ Begin(q)
    \/ Accept(q)
    \/ EvaluateProviders(q)
    \/ AcceptAndPersist(q)
    \/ AppendReceipt(q)

Compact(d) ==
    \/ CompactBegin(d)
    \/ CompactCheck(d)
    \/ CompactAbort(d)
    \/ CompactEnd(d)

Next ==
    \/ \E q \in Requests : Handle(q)
    \/ \E d \in Datasets : Compact(d)
    \/ CompactTombstones
    \/ Crash

Spec == Init /\ [][Next]_vars

\* A goroutine that can run does run.  Go's mutex hands the lock to a waiter
\* that has starved for a millisecond: AcceptAndPersist gets strong fairness.
Fairness ==
    /\ \A q \in Requests : /\ WF_vars(Accept(q))
                           /\ WF_vars(EvaluateProviders(q))
                           /\ SF_vars(AcceptAndPersist(q))
                           /\ WF_vars(AppendReceipt(q))
    /\ \A d \in Datasets : /\ WF_vars(CompactCheck(d))
                           /\ WF_vars(CompactEnd(d))

FairSpec == Spec /\ Fairness

-----------------------------------------------------------------------------
(* Properties.                                                             *)

\* Every variable holds what the Go types and maps can hold.
TypeOK ==
    /\ mark \in [ReplayKey -> Nat]
    /\ markFile \in [ReplayKey -> Nat]
    /\ store \in [Datasets -> [RecordIDs -> PersistedRecord \cup {NoRecord}]]
    /\ receipts \subseteq Receipt
    /\ request \in [Requests -> Request]
    /\ compaction \in [Datasets -> Compaction]
    /\ admitted \subseteq Envelopes
    /\ acked \subseteq Envelopes
    /\ compacted \subseteq Saved

\* The update e is not lost: the store, or a tombstone that compaction has
\* removed since, holds e or an envelope that wins over it.
Represented(e) ==
    \/ \E d \in Datasets, i \in RecordIDs :
          store[d][i] # NoRecord /\ Covers(store[d][i].envelope, e)
    \/ \E c \in compacted : c.deleted /\ Covers(c, e)

\* An update that its sender was told is accepted stays represented, through
\* concurrent requests, failed saves, crashes and compaction.
AckedSurvives == \A e \in acked : Represented(e)

\* A receipt on file is never ahead of the store: the envelope it speaks of
\* was signed by its observer and is represented (Ingest appends the receipt
\* after AcceptAndPersist, with both locks released in between).
ReceiptsAreHonest ==
    \A r \in receipts : \E e \in Envelopes :
        /\ r = ObservationReceipt(e, e.originDevice)
        /\ Represented(e)

\* What is stored is what the file makes of a record that was signed by the peer
\* its evidence names, was negotiated by it, and to which both providers said
\* yes (AuthorizeRecord fails closed).
StoredIsAuthorized ==
    \A d \in Datasets, i \in RecordIDs :
        store[d][i] # NoRecord =>
            LET e == store[d][i].envelope
                v == store[d][i].evidence
            IN  /\ e.dataset = d /\ e.recordID = i
                /\ v.peerDevice = e.originDevice
                /\ \E signed \in Envelopes :
                      /\ e = Persisted(signed)
                      /\ AuthorizeRecord(signed, v.peerDevice, v.privacy, v.trust)

\* A handler that is about to file its receipt has its record represented
\* already, although it holds no lock and others have run since.
InFlightIsSound ==
    \A q \in Requests : request[q] # Idle =>
        /\ request[q].peer = request[q].record.originDevice
        /\ request[q].pc = "receipt" => Represented(request[q].record)

\* Until it ends, a compaction's candidates are the tombstones it has loaded:
\* no handler has replaced or removed one of them.
CompactionHoldsTombstones ==
    \A d \in Datasets : compaction[d].running =>
        \A i \in compaction[d].todo \cup compaction[d].drop :
            store[d][i] # NoRecord /\ store[d][i].envelope.deleted

\* ConvergenceConfirmed wants a receipt of every required peer with the
\* tombstone's own digest, which names its origin device, and Ingest files a
\* receipt only for a record that its observer signed: receipts confirm a
\* tombstone only when its origin is the one required peer.  This is why two
\* required peers never converge (see ObservedByAllConverges).
CompactedOnlyForOrigin ==
    \A c \in compacted :
        /\ ConvergenceConfirmed(c, RequiredPeers, receipts)
        /\ RequiredPeers = {c.originDevice}

\* receipts.go: a receipt "records that an authenticated peer observed a specific
\* record revision", and a tombstone converges when every required peer has one.
\* Where each of them has filed its receipt for the revision of a stored
\* tombstone, the tombstone would have to be confirmed.
ObservedByAllConverges ==
    \A d \in Datasets, i \in RecordIDs :
        LET e == store[d][i].envelope
            Observed(peer) == \E r \in receipts :
                /\ r.dataset = d /\ r.recordID = i
                /\ r.revision = e.revision
                /\ r.observerDevice = peer
        IN  (/\ store[d][i] # NoRecord /\ e.deleted
             /\ RequiredPeers # {}
             /\ \A peer \in RequiredPeers : Observed(peer))
            => ConvergenceConfirmed(e, RequiredPeers, receipts)

\* ReplayGuard: a revision that is not above every revision let pass before,
\* from the same device for the same record, is refused, across restarts.
NeverReadmitted ==
    [][\A q \in Requests :
          (request[q].pc = "accept" /\ request'[q].pc = "evaluate")
          => LET r == request[q].record
             IN  \A e \in admitted :
                    KeyOf(e.originDevice, e) = KeyOf(r.originDevice, r)
                    => e.revision < r.revision
      ]_vars

\* The guard's mark, in memory and on file, is at least every revision it has
\* let pass for that device and record: none of them can pass again, also
\* after a restart.
HighWaterMark ==
    \A e \in admitted :
        LET k == KeyOf(e.originDevice, e)
        IN  e.revision <= mark[k] /\ e.revision <= markFile[k]

\* Where no provider refuses, no store fails and the node keeps running, a record
\* that has passed the guard, which may refuse it from now on, is on its way to
\* the store, represented, or not negotiated.
AdmittedIsNotLost ==
    \A e \in admitted :
        \/ Represented(e)
        \/ \E q \in Requests : request[q] # Idle /\ request[q].record = e
        \/ e.dataset \notin Stores
        \/ ~\E c \in Negotiated[e.originDevice] : ValidateRecord(e, c)

\* README.md: conflicts "remain visible rather than being silently discarded".
\* Two accepted payloads that compete for one revision of a record would both
\* have to be findable; the store keeps only the winner.
ConflictsRemainVisible ==
    \A e \in acked :
        store[e.dataset][e.recordID] # NoRecord =>
            LET s == store[e.dataset][e.recordID].envelope
            IN  s.revision = e.revision => s.payload = Persisted(e).payload

\* Every request ends, also one that waits for a compaction, and a compaction
\* gives its store's mutex back.
WorkFinishes ==
    /\ \A q \in Requests : request[q] # Idle ~> request[q] = Idle
    /\ \A d \in Datasets : compaction[d].running ~> ~compaction[d].running

\* The inductive invariant behind AckedSurvives.
DurabilityInv ==
    /\ TypeOK
    /\ StoredIsAuthorized
    /\ CompactionHoldsTombstones
    /\ InFlightIsSound
    /\ AckedSurvives
    /\ ReceiptsAreHonest

-----------------------------------------------------------------------------
\* Seen from outside, the stores are a table of envelopes that merges records.
Table == INSTANCE RecordTable WITH
    table <- [d \in Datasets |-> [i \in RecordIDs |->
                 IF store[d][i] = NoRecord THEN NoRecord
                 ELSE store[d][i].envelope]]

\* Ingestion implements the record table.
TableSpec == Table!Spec
=============================================================================
