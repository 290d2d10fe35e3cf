---------------------------- MODULE IngestProofs ----------------------------
(***************************************************************************)
(* Proofs about Records and Ingest for every set of devices, records,      *)
(* envelopes and handlers, whatever faults are possible.                   *)
(***************************************************************************)
EXTENDS Ingest, TLAPS

-----------------------------------------------------------------------------
(* ResolveConflict orders the envelopes of a record: the facts that make   *)
(* replicas agree whatever the order of arrival.                           *)

\* The fields that ResolveConflict compares are numbers and a Boolean.
LEMMA EnvelopeFields ==
    ASSUME NEW a \in RecordEnvelope
    PROVE  /\ a.revision \in Nat
           /\ a.updatedAt \in Nat
           /\ a.deleted \in BOOLEAN
           /\ a.originDevice \in Nat
  <1>1. Devices \subseteq Nat
    BY DevicesAssumption DEF DevicesAssumption
  <1>2. QED
    BY <1>1 DEF RecordEnvelope

\* No envelope wins over itself, so re-delivery of a stored envelope converges.
LEMMA SupersedesIrreflexive ==
    ASSUME NEW a \in RecordEnvelope
    PROVE  ~Supersedes(a, a)
  BY EnvelopeFields DEF Supersedes

\* Two envelopes never win over each other.
LEMMA SupersedesAsymmetric ==
    ASSUME NEW a \in RecordEnvelope, NEW b \in RecordEnvelope,
           Supersedes(a, b)
    PROVE  ~Supersedes(b, a)
  BY EnvelopeFields DEF Supersedes

\* Not being beaten is transitive: keeping the winner of every pair keeps the
\* winner of them all.
LEMMA NotSupersededTransitive ==
    ASSUME NEW a \in RecordEnvelope, NEW b \in RecordEnvelope,
           NEW c \in RecordEnvelope,
           ~Supersedes(b, a), ~Supersedes(c, b)
    PROVE  ~Supersedes(c, a)
  BY EnvelopeFields DEF Supersedes

\* An envelope may stand in for itself, so re-delivery loses nothing.
LEMMA CoversReflexive ==
    ASSUME NEW a \in RecordEnvelope
    PROVE  Covers(a, a)
  BY SupersedesIrreflexive DEF Covers, SameRecord

\* Replacing an envelope twice, each time by one that may stand in for it, loses
\* nothing: what AcceptAndPersist does along a sequence of arrivals.
LEMMA CoversTransitive ==
    ASSUME NEW a \in RecordEnvelope, NEW b \in RecordEnvelope,
           NEW c \in RecordEnvelope,
           Covers(a, b), Covers(b, c)
    PROVE  Covers(a, c)
  BY NotSupersededTransitive DEF Covers, SameRecord

\* An envelope that wins over another of the same record may replace it.
LEMMA SupersedesCovers ==
    ASSUME NEW a \in RecordEnvelope, NEW b \in RecordEnvelope,
           SameRecord(a, b), Supersedes(a, b)
    PROVE  Covers(a, b)
  BY SupersedesAsymmetric DEF Covers

\* The three answers of ResolveConflict are exclusive, and the two sides give
\* mirrored answers: replicas that exchange roles pick the same envelope.
THEOREM ResolveConflictMirrors ==
    ASSUME NEW a \in RecordEnvelope, NEW b \in RecordEnvelope
    PROVE  /\ ResolveConflict(a, b) = "remote" <=> ResolveConflict(b, a) = "local"
           /\ ResolveConflict(a, b) = "converged"
                 <=> ResolveConflict(b, a) = "converged"
  BY SupersedesAsymmetric DEF ResolveConflict

\* Envelopes that converge agree on revision, instant, deletion and origin;
\* nothing is said of the payload, which ResolveConflict does not compare.
THEOREM ConvergedAgree ==
    ASSUME NEW a \in RecordEnvelope, NEW b \in RecordEnvelope,
           ResolveConflict(a, b) = "converged"
    PROVE  /\ a.revision = b.revision
           /\ a.updatedAt = b.updatedAt
           /\ a.deleted = b.deleted
           /\ a.originDevice = b.originDevice
  BY EnvelopeFields DEF ResolveConflict, Supersedes

\* Two replicas that hold envelopes of the same set S, each unbeaten in S,
\* hold envelopes that converge: agreement depends on what was received and
\* not on the order.
THEOREM UnbeatenAgree ==
    ASSUME NEW S \in SUBSET RecordEnvelope, NEW a \in S, NEW b \in S,
           \A e \in S : ~Supersedes(e, a),
           \A e \in S : ~Supersedes(e, b)
    PROVE  ResolveConflict(a, b) = "converged"
  BY DEF ResolveConflict

-----------------------------------------------------------------------------
(* Ingest.                                                                 *)

\* The envelopes that devices sign are envelopes, of known records.
LEMMA EnvelopeTypes ==
    ASSUME NEW e \in Envelopes
    PROVE  /\ e \in RecordEnvelope
           /\ e.dataset \in Datasets
           /\ e.recordID \in RecordIDs
           /\ e.originDevice \in Devices
           /\ e.revision \in Nat
  BY EnvelopesAssumption DEF EnvelopesAssumption, RecordEnvelope

\* A file may lose a payload with nothing in it, and nothing else of a record.
LEMMA PersistedFields ==
    ASSUME NEW a \in RecordEnvelope
    PROVE  /\ Persisted(a) \in RecordEnvelope
           /\ Persisted(a).dataset = a.dataset
           /\ Persisted(a).recordID = a.recordID
           /\ Persisted(a).revision = a.revision
           /\ Persisted(a).updatedAt = a.updatedAt
           /\ Persisted(a).originDevice = a.originDevice
           /\ Persisted(a).deleted = a.deleted
  BY DEF Persisted, RecordEnvelope

\* Hence a record wins over the same ones before and after it is saved.
LEMMA PersistedWins ==
    ASSUME NEW a \in RecordEnvelope, NEW b
    PROVE  /\ Supersedes(Persisted(a), b) <=> Supersedes(a, b)
           /\ Supersedes(b, Persisted(a)) <=> Supersedes(b, a)
           /\ Covers(Persisted(a), b) <=> Covers(a, b)
  <1> DEFINE p == Persisted(a)
  <1>1. /\ p.dataset = a.dataset /\ p.recordID = a.recordID
        /\ p.revision = a.revision /\ p.updatedAt = a.updatedAt
        /\ p.originDevice = a.originDevice /\ p.deleted = a.deleted
    BY PersistedFields
  <1> HIDE DEF p
  <1>2. /\ Supersedes(p, b) <=> Supersedes(a, b)
        /\ Supersedes(b, p) <=> Supersedes(b, a)
    BY <1>1 DEF Supersedes
  <1>3. SameRecord(p, b) <=> SameRecord(a, b)
    BY <1>1 DEF SameRecord
  <1>4. QED
    BY <1>2, <1>3 DEF Covers, p

\* What a file may hold are envelopes, too.
LEMMA SavedTypes ==
    ASSUME NEW e \in Saved
    PROVE  /\ e \in RecordEnvelope
           /\ e.dataset \in Datasets
           /\ e.recordID \in RecordIDs
  <1>1. PICK signed \in Envelopes : e = Persisted(signed)
    BY DEF Saved
  <1>2. e \in RecordEnvelope
    BY <1>1, EnvelopeTypes, PersistedFields
  <1>3. QED
    BY <1>2 DEF RecordEnvelope

\* The absent record is neither a stored record nor an envelope.
LEMMA NoRecordIsNone == NoRecord \notin PersistedRecord \cup Saved
  BY IngestAssumption DEF IngestAssumption

\* A stored record holds an envelope that some device signed.
LEMMA StoredEnvelope ==
    ASSUME TypeOK, NEW d \in Datasets, NEW i \in RecordIDs,
           store[d][i] # NoRecord
    PROVE  /\ store[d][i] \in PersistedRecord
           /\ store[d][i].envelope \in Saved
  <1>1. store[d][i] \in PersistedRecord
    BY DEF TypeOK
  <1>2. QED
    BY <1>1 DEF PersistedRecord

\* A busy handler holds a peer, an envelope and two decisions.
LEMMA BusyRequest ==
    ASSUME TypeOK, NEW q \in Requests, request[q] # Idle
    PROVE  /\ request[q] \in Busy
           /\ request[q].record \in Envelopes
           /\ request[q].peer \in Devices
           /\ request[q].privacy \in BOOLEAN
           /\ request[q].trust \in BOOLEAN
  BY DEF TypeOK, Request, Busy

\* A handler that stands at a section is not idle.
LEMMA PcOfIdle == Idle.pc = "idle"
  BY DEF Idle

\* A handler moves on to another section, or ends.
LEMMA NextRequest ==
    ASSUME TypeOK, NEW q \in Requests, NEW new \in Request
    PROVE  [request EXCEPT ![q] = new] \in [Requests -> Request]
  BY DEF TypeOK

\* A busy handler that moves on is still a busy handler.
LEMMA GotoTypes ==
    ASSUME TypeOK, NEW q \in Requests, request[q] # Idle,
           NEW pc \in {"accept", "evaluate", "persist", "receipt"}, Goto(q, pc)
    PROVE  request' \in [Requests -> Request]
  <1>1. [request[q] EXCEPT !.pc = pc] \in Busy
    BY BusyRequest DEF Busy
  <1>2. request' = [request EXCEPT ![q] = [request[q] EXCEPT !.pc = pc]]
    BY DEF Goto
  <1>3. QED
    BY <1>1, <1>2, NextRequest DEF Request

\* A handler that answers is idle.
LEMMA RejectTypes ==
    ASSUME TypeOK, NEW q \in Requests, Reject(q)
    PROVE  request' \in [Requests -> Request]
  BY NextRequest DEF Request, Reject

-----------------------------------------------------------------------------
(* Types.  TypeOK is inductive once a compaction's candidates are known to *)
(* be stored: what it removes are envelopes.                               *)

\* The initial state, with empty files, is well-formed.
LEMMA TypeInit == Init => TypeOK
  BY DEF Init, TypeOK, ReplayKey, Request, Compaction

\* Every section of a request handler keeps the state well-formed.
LEMMA TypeHandle ==
    ASSUME TypeOK, NEW q \in Requests, Handle(q)
    PROVE  TypeOK'
  <1>1. CASE Begin(q)
    <2>1. PICK peer \in Devices, record \in Envelopes :
            request' = [request EXCEPT ![q] =
                [pc |-> "accept", peer |-> peer, record |-> record,
                 privacy |-> FALSE, trust |-> FALSE]]
      BY <1>1 DEF Begin
    <2>2. request' \in [Requests -> Request]
      BY <2>1, NextRequest DEF Request, Busy
    <2>3. QED
      BY <1>1, <2>2 DEF Begin, guardVars, TypeOK
  <1>2. CASE Accept(q)
    <2> DEFINE r == request[q]
               k == KeyOf(r.peer, r.record)
    <2>1. r # Idle
      BY <1>2, PcOfIdle DEF Accept
    <2>2. r.record \in Envelopes /\ r.record.revision \in Nat
      BY <2>1, BusyRequest, EnvelopeTypes
    <2>3. /\ [mark EXCEPT ![k] = 0] \in [ReplayKey -> Nat]
          /\ [mark EXCEPT ![k] = r.record.revision] \in [ReplayKey -> Nat]
      BY <2>2 DEF TypeOK
    <2>4. Goto(q, "evaluate") \/ Reject(q)
      BY <1>2 DEF Accept
    <2>5. request' \in [Requests -> Request]
      BY <2>1, <2>4, GotoTypes, RejectTypes
    <2>6. mark' \in [ReplayKey -> Nat]
      BY <1>2, <2>3 DEF Accept, guardVars, TypeOK
    <2>7. markFile' \in [ReplayKey -> Nat]
      BY <1>2, <2>3 DEF Accept, guardVars, TypeOK
    <2>8. admitted' \subseteq Envelopes
      BY <1>2, <2>2 DEF Accept, guardVars, TypeOK
    <2>9. UNCHANGED <<store, receipts, compaction, acked, compacted>>
      BY <1>2 DEF Accept
    <2>10. QED
      BY <2>5, <2>6, <2>7, <2>8, <2>9 DEF TypeOK
  <1>3. CASE EvaluateProviders(q)
    <2>1. request[q] # Idle
      BY <1>3, PcOfIdle DEF EvaluateProviders
    <2>2. \A x, y \in BOOLEAN :
            [request[q] EXCEPT !.pc = "persist", !.privacy = x, !.trust = y]
              \in Request
      BY <2>1, BusyRequest DEF Request, Busy
    <2>3. \/ Reject(q)
          \/ \E x, y \in BOOLEAN : request' = [request EXCEPT ![q] =
               [request[q] EXCEPT !.pc = "persist", !.privacy = x, !.trust = y]]
      BY <1>3 DEF EvaluateProviders
    <2>4. request' \in [Requests -> Request]
      <3>1. CASE Reject(q)
        BY <3>1, RejectTypes
      <3>2. ASSUME NEW x \in BOOLEAN, NEW y \in BOOLEAN,
                   request' = [request EXCEPT ![q] =
               [request[q] EXCEPT !.pc = "persist", !.privacy = x, !.trust = y]]
            PROVE  request' \in [Requests -> Request]
        BY <2>2, <3>2, NextRequest
      <3>3. QED
        BY <2>3, <3>1, <3>2
    <2>5. QED
      BY <1>3, <2>4 DEF EvaluateProviders, guardVars, TypeOK
  <1>4. CASE AcceptAndPersist(q)
    <2> DEFINE r == request[q]
               e == r.record
               new == [envelope |-> Persisted(e),
                       evidence |-> [peerDevice |-> r.peer,
                                     privacy |-> r.privacy, trust |-> r.trust]]
    <2>1. r # Idle
      BY <1>4, PcOfIdle DEF AcceptAndPersist
    <2>2. new \in PersistedRecord
      BY <2>1, BusyRequest DEF PersistedRecord, Saved, Evidence
    <2>3. \/ store' = store
          \/ store' = [store EXCEPT ![e.dataset][e.recordID] = new]
      BY <1>4 DEF AcceptAndPersist
    <2>4. store' \in
             [Datasets -> [RecordIDs -> PersistedRecord \cup {NoRecord}]]
      BY <2>2, <2>3 DEF TypeOK
    <2>5. Goto(q, "receipt") \/ Reject(q)
      BY <1>4 DEF AcceptAndPersist
    <2>6. request' \in [Requests -> Request]
      BY <2>1, <2>5, GotoTypes, RejectTypes
    <2>7. QED
      BY <1>4, <2>4, <2>6 DEF AcceptAndPersist, guardVars, TypeOK
  <1>5. CASE AppendReceipt(q)
    <2> DEFINE r == request[q]
    <2>1. r # Idle
      BY <1>5, PcOfIdle DEF AppendReceipt
    <2>2. r.record \in Envelopes /\ r.peer \in Devices
      BY <2>1, BusyRequest
    <2>3. ObservationReceipt(r.record, r.peer) \in Receipt
      BY <2>2 DEF Receipt
    <2>4. request' \in [Requests -> Request]
      BY <1>5, RejectTypes DEF AppendReceipt
    <2>5. QED
      BY <1>5, <2>2, <2>3, <2>4 DEF AppendReceipt, guardVars, TypeOK
  <1>6. QED
    BY <1>1, <1>2, <1>3, <1>4, <1>5 DEF Handle

\* Every section of a compaction keeps the state well-formed: what it removes
\* are envelopes, since it holds on to stored tombstones.
LEMMA TypeCompact ==
    ASSUME TypeOK, CompactionHoldsTombstones, NEW d \in Datasets, Compact(d)
    PROVE  TypeOK'
  <1>1. CASE CompactBegin(d)
    <2>1. PICK cutoff \in Cutoffs :
            compaction' = [compaction EXCEPT ![d] =
                [running |-> TRUE, drop |-> {},
                 todo |-> {i \in RecordIDs : Expired(d, i, cutoff)}]]
      BY <1>1 DEF CompactBegin
    <2>2. [running |-> TRUE, drop |-> {},
           todo |-> {i \in RecordIDs : Expired(d, i, cutoff)}] \in Running
      BY DEF Running
    <2>3. compaction' \in [Datasets -> Compaction]
      BY <2>1, <2>2 DEF Compaction, TypeOK
    <2>4. QED
      BY <1>1, <2>3 DEF CompactBegin, guardVars, TypeOK
  <1>2. CASE CompactCheck(d)
    <2>1. compaction[d] \in Running
      BY <1>2 DEF CompactCheck, NotCompacting, Compaction, TypeOK
    <2>2. PICK i \in compaction[d].todo :
            compaction' = [compaction EXCEPT
                ![d].todo = @ \ {i},
                ![d].drop = IF ConvergenceConfirmed(store[d][i].envelope,
                                                    RequiredPeers, receipts)
                            THEN @ \cup {i} ELSE @]
      BY <1>2 DEF CompactCheck
    <2>3. \A t, u \in SUBSET RecordIDs :
            [compaction[d] EXCEPT !.todo = t, !.drop = u] \in Running
      BY <2>1 DEF Running
    <2>4. /\ i \in RecordIDs
          /\ compaction[d].todo \in SUBSET RecordIDs
          /\ compaction[d].drop \in SUBSET RecordIDs
      BY <2>1 DEF Running
    <2>5. PICK t \in SUBSET RecordIDs, u \in SUBSET RecordIDs :
            compaction' = [compaction EXCEPT ![d] =
                [compaction[d] EXCEPT !.todo = t, !.drop = u]]
      BY <2>2, <2>4
    <2>6. compaction' \in [Datasets -> Compaction]
      BY <2>3, <2>5 DEF Compaction, TypeOK
    <2>7. QED
      BY <1>2, <2>6 DEF CompactCheck, guardVars, TypeOK
  <1>3. CASE CompactAbort(d)
    BY <1>3 DEF CompactAbort, guardVars, Compaction, TypeOK
  <1>4. CASE CompactEnd(d)
    <2>1. compaction[d] \in Running /\ compaction[d].running
      BY <1>4 DEF CompactEnd, NotCompacting, Compaction, TypeOK
    <2>2. EnvelopesOf(d, compaction[d].drop) \subseteq Saved
      BY <2>1, StoredEnvelope
         DEF Running, EnvelopesOf, CompactionHoldsTombstones
    <2>3. WithoutRecords(d, compaction[d].drop) \in
            [Datasets -> [RecordIDs -> PersistedRecord \cup {NoRecord}]]
      BY DEF WithoutRecords, TypeOK
    <2>4. /\ store' \in
               [Datasets -> [RecordIDs -> PersistedRecord \cup {NoRecord}]]
          /\ compacted' \subseteq Saved
      BY <1>4, <2>2, <2>3 DEF CompactEnd, TypeOK
    <2>5. compaction' \in [Datasets -> Compaction]
      BY <1>4 DEF CompactEnd, Compaction, TypeOK
    <2>6. QED
      BY <1>4, <2>4, <2>5 DEF CompactEnd, guardVars, TypeOK
  <1>5. QED
    BY <1>1, <1>2, <1>3, <1>4 DEF Compact

\* The two ways tombstones leave the store, as one shape.
LEMMA AssertedCompactionShape ==
    ASSUME CompactTombstones
    PROVE  \E d \in Datasets, ids \in SUBSET RecordIDs :
             /\ \A i \in ids : /\ store[d][i] # NoRecord
                               /\ store[d][i].envelope.deleted
             /\ ~compaction[d].running
             /\ store' = WithoutRecords(d, ids)
             /\ compacted' = compacted \cup EnvelopesOf(d, ids)
  <1> DEFINE h == "search.history"
  <1>1. PICK cutoff \in Cutoffs :
          LET ids == {i \in RecordIDs : Expired(h, i, cutoff)}
          IN  /\ store' = WithoutRecords(h, ids)
              /\ compacted' = compacted \cup EnvelopesOf(h, ids)
    BY DEF CompactTombstones
  <1>2. h \in Datasets /\ ~compaction[h].running
    BY IngestAssumption DEF CompactTombstones, IngestAssumption, Unlocked
  <1>3. \A i \in {i \in RecordIDs : Expired(h, i, cutoff)} :
          /\ store[h][i] # NoRecord
          /\ store[h][i].envelope.deleted
    BY DEF Expired
  <1>4. QED
    BY <1>1, <1>2, <1>3

\* Every step of the node keeps the state well-formed.
LEMMA TypeStep ==
    ASSUME TypeOK, CompactionHoldsTombstones, [Next]_vars
    PROVE  TypeOK'
  <1>1. ASSUME NEW q \in Requests, Handle(q)
        PROVE  TypeOK'
    BY <1>1, TypeHandle
  <1>2. ASSUME NEW d \in Datasets, Compact(d)
        PROVE  TypeOK'
    BY <1>2, TypeCompact
  <1>3. CASE CompactTombstones
    <2>1. PICK d \in Datasets, ids \in SUBSET RecordIDs :
            /\ \A i \in ids : store[d][i] # NoRecord
            /\ store' = WithoutRecords(d, ids)
            /\ compacted' = compacted \cup EnvelopesOf(d, ids)
      BY <1>3, AssertedCompactionShape
    <2>2. compacted' \subseteq Saved
      BY <2>1, StoredEnvelope DEF EnvelopesOf, TypeOK
    <2>3. store' \in [Datasets -> [RecordIDs -> PersistedRecord \cup {NoRecord}]]
      BY <2>1 DEF WithoutRecords, TypeOK
    <2>4. QED
      BY <1>3, <2>2, <2>3 DEF CompactTombstones, guardVars, TypeOK
  <1>4. CASE Crash
    BY <1>4 DEF Crash, TypeOK, Request, Compaction
  <1>5. CASE UNCHANGED vars
    BY <1>5 DEF vars, TypeOK
  <1>6. QED
    BY <1>1, <1>2, <1>3, <1>4, <1>5 DEF Next

-----------------------------------------------------------------------------
(* Durability.  A step of any actor leaves every represented update        *)
(* represented: a merge replaces an envelope by one that covers it, and    *)
(* what a compaction removes it remembers.                                 *)

\* The key a record is stored under is its own.
LEMMA StoredKey ==
    ASSUME StoredIsAuthorized, NEW d \in Datasets, NEW i \in RecordIDs,
           store[d][i] # NoRecord
    PROVE  /\ store[d][i].envelope.dataset = d
           /\ store[d][i].envelope.recordID = i
  BY DEF StoredIsAuthorized

\* What AcceptAndPersist does to the store: nothing, or one envelope takes its
\* place from nothing or from one it wins over.
LEMMA PersistShape ==
    ASSUME TypeOK, NEW q \in Requests, AcceptAndPersist(q), store' # store
    PROVE  LET r == request[q]
               d == r.record.dataset
               i == r.record.recordID
           IN  /\ r \in Busy
               /\ store' = [store EXCEPT ![d][i] =
                     [envelope |-> Persisted(r.record),
                      evidence |-> [peerDevice |-> r.peer,
                                    privacy |-> r.privacy, trust |-> r.trust]]]
               /\ AuthorizeRecord(r.record, r.peer, r.privacy, r.trust)
               /\ store[d][i] # NoRecord =>
                     Supersedes(r.record, store[d][i].envelope)
               /\ ~compaction[d].running
  <1>1. request[q] \in Busy
    BY PcOfIdle, BusyRequest DEF AcceptAndPersist
  <1>2. QED
    BY <1>1 DEF AcceptAndPersist, ResolveConflict, Unlocked

\* AcceptAndPersist keeps every represented update represented.
LEMMA RepresentedMerge ==
    ASSUME TypeOK, StoredIsAuthorized, NEW q \in Requests, AcceptAndPersist(q),
           NEW e \in Envelopes, Represented(e)
    PROVE  Represented(e)'
  <1>1. compacted' = compacted
    BY DEF AcceptAndPersist
  <1>2. CASE store' = store
    BY <1>1, <1>2 DEF Represented
  <1>3. CASE store' # store
    <2> DEFINE f == request[q].record
               p == Persisted(f)
               new == [envelope |-> p,
                       evidence |-> [peerDevice |-> request[q].peer,
                                     privacy |-> request[q].privacy,
                                     trust |-> request[q].trust]]
    <2>1. /\ request[q] \in Busy
          /\ store' = [store EXCEPT ![f.dataset][f.recordID] = new]
          /\ store[f.dataset][f.recordID] # NoRecord =>
                Supersedes(f, store[f.dataset][f.recordID].envelope)
      BY <1>3, PersistShape
    <2>2. /\ f \in Envelopes /\ f \in RecordEnvelope /\ e \in RecordEnvelope
          /\ f.dataset \in Datasets /\ f.recordID \in RecordIDs
      BY <2>1, EnvelopeTypes DEF Busy
    <2>3. new \in PersistedRecord /\ new # NoRecord
      BY <2>1, NoRecordIsNone DEF Busy, PersistedRecord, Saved, Evidence
    <2>4. CASE \E c \in compacted : c.deleted /\ Covers(c, e)
      BY <1>1, <2>4 DEF Represented
    <2>5. ASSUME NEW d \in Datasets, NEW i \in RecordIDs,
                 store[d][i] # NoRecord, Covers(store[d][i].envelope, e)
          PROVE  Represented(e)'
      <3>1. CASE d = f.dataset /\ i = f.recordID
        <4>1. store[d][i].envelope \in RecordEnvelope
          BY <2>5, StoredEnvelope, SavedTypes
        <4>2. SameRecord(f, store[d][i].envelope)
          BY <2>5, <3>1, StoredKey DEF SameRecord
        <4>3. Covers(f, store[d][i].envelope)
          BY <2>1, <2>2, <2>5, <3>1, <4>1, <4>2, SupersedesCovers
        <4>4. Covers(p, e)
          BY <2>2, <2>5, <4>1, <4>3, CoversTransitive, PersistedWins
        <4>5. store'[d][i] = new
          BY <2>1, <2>2, <3>1 DEF TypeOK
        <4>6. QED
          BY <2>3, <4>4, <4>5 DEF Represented
      <3>2. CASE ~(d = f.dataset /\ i = f.recordID)
        <4>1. store'[d][i] = store[d][i]
          BY <2>1, <2>2, <3>2 DEF TypeOK
        <4>2. QED
          BY <2>5, <4>1 DEF Represented
      <3>3. QED
        BY <3>1, <3>2
    <2>6. QED
      BY <2>4, <2>5 DEF Represented
  <1>4. QED
    BY <1>2, <1>3

\* Removing stored tombstones keeps every represented update represented.
LEMMA RepresentedPurge ==
    ASSUME TypeOK, NEW d \in Datasets, NEW ids \in SUBSET RecordIDs,
           \A i \in ids : store[d][i] # NoRecord /\ store[d][i].envelope.deleted,
           store' = WithoutRecords(d, ids),
           compacted' = compacted \cup EnvelopesOf(d, ids),
           NEW e \in Envelopes, Represented(e)
    PROVE  Represented(e)'
  <1>1. CASE \E c \in compacted : c.deleted /\ Covers(c, e)
    BY <1>1 DEF Represented
  <1>2. ASSUME NEW x \in Datasets, NEW i \in RecordIDs,
               store[x][i] # NoRecord, Covers(store[x][i].envelope, e)
        PROVE  Represented(e)'
    <2>1. CASE x = d /\ i \in ids
      BY <1>2, <2>1 DEF Represented, EnvelopesOf
    <2>2. CASE ~(x = d /\ i \in ids)
      <3>1. store'[x][i] = store[x][i]
        BY <2>2 DEF WithoutRecords, TypeOK
      <3>2. QED
        BY <1>2, <3>1 DEF Represented
    <2>3. QED
      BY <2>1, <2>2
  <1>3. QED
    BY <1>1, <1>2 DEF Represented

\* No step of the node loses a represented update.
LEMMA RepresentedStep ==
    ASSUME TypeOK, StoredIsAuthorized, CompactionHoldsTombstones, [Next]_vars,
           NEW e \in Envelopes, Represented(e)
    PROVE  Represented(e)'
  <1>1. CASE UNCHANGED <<store, compacted>>
    BY <1>1 DEF Represented
  <1>2. ASSUME NEW q \in Requests, Handle(q)
        PROVE  Represented(e)'
    <2>1. CASE AcceptAndPersist(q)
      BY <2>1, RepresentedMerge
    <2>2. CASE ~AcceptAndPersist(q)
      BY <1>1, <1>2, <2>2
         DEF Handle, Begin, Accept, EvaluateProviders, AppendReceipt
    <2>3. QED
      BY <2>1, <2>2
  <1>3. ASSUME NEW d \in Datasets, Compact(d)
        PROVE  Represented(e)'
    <2>1. CASE CompactEnd(d)
      <3>1. CASE UNCHANGED <<store, compacted>>
        BY <1>1, <3>1
      <3>2. CASE ~UNCHANGED <<store, compacted>>
        <4>1. compaction[d] \in Running
          BY <2>1 DEF CompactEnd, NotCompacting, Compaction, TypeOK
        <4>2. compaction[d].drop \in SUBSET RecordIDs
          BY <4>1 DEF Running
        <4>3. /\ store' = WithoutRecords(d, compaction[d].drop)
              /\ compacted' = compacted \cup EnvelopesOf(d, compaction[d].drop)
          BY <2>1, <3>2 DEF CompactEnd
        <4>4. \A i \in compaction[d].drop :
                /\ store[d][i] # NoRecord
                /\ store[d][i].envelope.deleted
          BY <2>1 DEF CompactEnd, CompactionHoldsTombstones
        <4>5. QED
          BY <4>2, <4>3, <4>4, RepresentedPurge
      <3>3. QED
        BY <3>1, <3>2
    <2>2. CASE ~CompactEnd(d)
      BY <1>1, <1>3, <2>2
         DEF Compact, CompactBegin, CompactCheck, CompactAbort
    <2>3. QED
      BY <2>1, <2>2
  <1>4. CASE CompactTombstones
    BY <1>4, AssertedCompactionShape, RepresentedPurge
  <1>5. CASE Crash \/ UNCHANGED vars
    BY <1>1, <1>5 DEF Crash, vars
  <1>6. QED
    BY <1>2, <1>3, <1>4, <1>5 DEF Next

\* A handler's step may change its own locals only.
LEMMA OtherRequests ==
    ASSUME TypeOK, NEW q \in Requests, Handle(q), NEW p \in Requests, p # q
    PROVE  request'[p] = request[p]
  BY DEF Handle, Begin, Accept, EvaluateProviders, AcceptAndPersist,
         AppendReceipt, Goto, Reject, TypeOK

\* How a busy handler got where it is: it was there, it has just begun, or it
\* was busy with the same peer and record.
LEMMA RequestShape ==
    ASSUME TypeOK, NEW q \in Requests, Handle(q), request'[q] # Idle
    PROVE  \/ /\ request'[q].pc = "accept"
              /\ request'[q].peer = request'[q].record.originDevice
           \/ /\ request[q] # Idle
              /\ request'[q].peer = request[q].peer
              /\ request'[q].record = request[q].record
              /\ request'[q].pc = "receipt" => AcceptAndPersist(q)
  <1>1. CASE Begin(q)
    <2>1. PICK peer \in Devices, record \in Envelopes :
            /\ record.originDevice = peer
            /\ request' = [request EXCEPT ![q] =
                 [pc |-> "accept", peer |-> peer, record |-> record,
                  privacy |-> FALSE, trust |-> FALSE]]
      BY <1>1 DEF Begin, VerifySignedRecord
    <2>2. QED
      BY <2>1 DEF TypeOK
  <1>2. CASE ~Begin(q)
    <2>1. request[q] # Idle
      BY <1>2, PcOfIdle
         DEF Handle, Accept, EvaluateProviders, AcceptAndPersist, AppendReceipt
    <2>2. request[q] \in Busy
      BY <2>1, BusyRequest
    <2>3. CASE Accept(q)
      <3>1. Goto(q, "evaluate") \/ Reject(q)
        BY <2>3 DEF Accept
      <3>2. QED
        BY <2>1, <2>2, <3>1 DEF Goto, Reject, TypeOK, Busy
    <2>4. CASE EvaluateProviders(q)
      <3>1. \/ Reject(q)
            \/ \E x, y \in BOOLEAN : request' = [request EXCEPT ![q] =
                 [request[q] EXCEPT !.pc = "persist",
                                    !.privacy = x, !.trust = y]]
        BY <2>4 DEF EvaluateProviders
      <3>2. CASE Reject(q)
        BY <3>2 DEF Reject, TypeOK
      <3>3. ASSUME NEW x \in BOOLEAN, NEW y \in BOOLEAN,
                   request' = [request EXCEPT ![q] =
                     [request[q] EXCEPT !.pc = "persist",
                                        !.privacy = x, !.trust = y]]
            PROVE  /\ request'[q].peer = request[q].peer
                   /\ request'[q].record = request[q].record
                   /\ request'[q].pc = "persist"
        <4>1. request'[q] = [request[q] EXCEPT !.pc = "persist",
                                        !.privacy = x, !.trust = y]
          BY <3>3 DEF TypeOK
        <4>2. QED
          BY <2>2, <4>1 DEF Busy
      <3>4. QED
        BY <2>1, <3>1, <3>2, <3>3
    <2>5. CASE AcceptAndPersist(q)
      <3>1. Goto(q, "receipt") \/ Reject(q)
        BY <2>5 DEF AcceptAndPersist
      <3>2. QED
        BY <2>1, <2>2, <2>5, <3>1 DEF Goto, Reject, TypeOK, Busy
    <2>6. CASE AppendReceipt(q)
      BY <2>6 DEF AppendReceipt, Reject, TypeOK
    <2>7. QED
      BY <1>2, <2>3, <2>4, <2>5, <2>6 DEF Handle
  <1>3. QED
    BY <1>1, <1>2

\* A handler that AcceptAndPersist sends on has its record represented: it won
\* and is stored, or it did not win over what is stored.
LEMMA PersistRepresents ==
    ASSUME TypeOK, StoredIsAuthorized, NEW q \in Requests, AcceptAndPersist(q),
           request'[q] # Idle,
           NEW f \in Envelopes, f = request[q].record
    PROVE  Represented(f)'
  <1> DEFINE current == store[f.dataset][f.recordID]
  <1>1. request[q] \in Busy
    BY PcOfIdle, BusyRequest DEF AcceptAndPersist
  <1>2. /\ f \in Envelopes /\ f \in RecordEnvelope
        /\ f.dataset \in Datasets /\ f.recordID \in RecordIDs
    BY <1>1, EnvelopeTypes DEF Busy
  <1>3. ~Reject(q)
    BY DEF Reject, TypeOK
  <1>4. CASE store' = store
    <2>1. current # NoRecord /\ ~Supersedes(f, current.envelope)
      <3>1. CASE /\ current # NoRecord
                 /\ ResolveConflict(current.envelope, f) # "remote"
        BY <3>1 DEF ResolveConflict
      <3>2. CASE current # NoRecord =>
                    ResolveConflict(current.envelope, f) = "remote"
        <4>1. store' = [store EXCEPT ![f.dataset][f.recordID] =
                [envelope |-> Persisted(f),
                 evidence |-> [peerDevice |-> request[q].peer,
                   privacy |-> request[q].privacy, trust |-> request[q].trust]]]
          BY <1>3, <3>2 DEF AcceptAndPersist
        <4>2. current = [envelope |-> Persisted(f),
                evidence |-> [peerDevice |-> request[q].peer,
                   privacy |-> request[q].privacy, trust |-> request[q].trust]]
          BY <1>2, <1>4, <4>1 DEF TypeOK
        <4>3. current \in PersistedRecord /\ current.envelope = Persisted(f)
          BY <1>1, <4>2 DEF Busy, PersistedRecord, Saved, Evidence
        <4>4. ~Supersedes(f, Persisted(f))
          BY <1>2, SupersedesIrreflexive, PersistedWins
        <4>5. QED
          BY <4>3, <4>4, NoRecordIsNone
      <3>3. QED
        BY <3>1, <3>2
    <2>2. SameRecord(current.envelope, f)
      BY <1>2, <2>1, StoredKey DEF SameRecord
    <2>3. QED
      BY <1>2, <1>4, <2>1, <2>2 DEF Represented, Covers
  <1>5. CASE store' # store
    <2> DEFINE p == Persisted(f)
               new == [envelope |-> p,
                evidence |-> [peerDevice |-> request[q].peer,
                   privacy |-> request[q].privacy, trust |-> request[q].trust]]
    <2>1. store' = [store EXCEPT ![f.dataset][f.recordID] = new]
      BY <1>5, PersistShape
    <2>2. store'[f.dataset][f.recordID] = new
      BY <1>2, <2>1 DEF TypeOK
    <2>3. new # NoRecord
      BY <1>1, NoRecordIsNone DEF Busy, PersistedRecord, Saved, Evidence
    <2>4. Covers(p, f)
      BY <1>2, CoversReflexive, PersistedWins
    <2>5. QED
      BY <1>2, <2>2, <2>3, <2>4 DEF Represented
  <1>6. QED
    BY <1>4, <1>5

-----------------------------------------------------------------------------
(* The inductive invariant, conjunct by conjunct.                          *)

\* AcceptAndPersist stores only what it has authorized for the record's origin;
\* the other steps store nothing.
LEMMA AuthorizedStep ==
    ASSUME TypeOK, StoredIsAuthorized, InFlightIsSound, [Next]_vars
    PROVE  StoredIsAuthorized'
  <1>1. CASE UNCHANGED store
    BY <1>1 DEF StoredIsAuthorized
  <1>2. ASSUME NEW q \in Requests, AcceptAndPersist(q), store' # store
        PROVE  StoredIsAuthorized'
    <2> DEFINE f == request[q].record
               p == Persisted(f)
               new == [envelope |-> p,
                  evidence |-> [peerDevice |-> request[q].peer,
                     privacy |-> request[q].privacy, trust |-> request[q].trust]]
    <2>1. /\ request[q] \in Busy
          /\ store' = [store EXCEPT ![f.dataset][f.recordID] = new]
          /\ AuthorizeRecord(f, request[q].peer, request[q].privacy,
                             request[q].trust)
      BY <1>2, PersistShape
    <2>2. request[q] # Idle
      BY <1>2, PcOfIdle DEF AcceptAndPersist
    <2>3. /\ f \in Envelopes /\ f.dataset \in Datasets /\ f.recordID \in RecordIDs
          /\ request[q].peer = f.originDevice
          /\ p.originDevice = f.originDevice
          /\ p.dataset = f.dataset /\ p.recordID = f.recordID
      BY <2>1, <2>2, EnvelopeTypes, PersistedFields DEF Busy, InFlightIsSound
    <2>4. ASSUME NEW d \in Datasets, NEW i \in RecordIDs, store'[d][i] # NoRecord
          PROVE  LET e == store'[d][i].envelope
                     v == store'[d][i].evidence
                 IN  /\ e.dataset = d /\ e.recordID = i
                     /\ v.peerDevice = e.originDevice
                     /\ \E signed \in Envelopes :
                           /\ e = Persisted(signed)
                           /\ AuthorizeRecord(signed, v.peerDevice,
                                              v.privacy, v.trust)
      <3>1. CASE d = f.dataset /\ i = f.recordID
        <4>1. store'[d][i] = new
          BY <2>1, <2>3, <3>1 DEF TypeOK
        <4>2. /\ store'[d][i].envelope = p
              /\ store'[d][i].evidence.peerDevice = request[q].peer
              /\ store'[d][i].evidence.privacy = request[q].privacy
              /\ store'[d][i].evidence.trust = request[q].trust
          BY <4>1
        <4>3. p.dataset = d /\ p.recordID = i
          BY <2>3, <3>1
        <4>4. /\ AuthorizeRecord(f, request[q].peer, request[q].privacy,
                                 request[q].trust)
              /\ request[q].peer = p.originDevice /\ f \in Envelopes
          BY <2>1, <2>3
        <4>5. QED
          BY <4>2, <4>3, <4>4
      <3>2. CASE ~(d = f.dataset /\ i = f.recordID)
        <4>1. store'[d][i] = store[d][i]
          <5>1. CASE d # f.dataset
            BY <2>1, <5>1 DEF TypeOK
          <5>2. CASE d = f.dataset /\ i # f.recordID
            <6>1. store'[d] = [store[d] EXCEPT ![f.recordID] = new]
              BY <2>1, <2>3, <5>2 DEF TypeOK
            <6>2. QED
              BY <6>1, <5>2 DEF TypeOK
          <5>3. QED
            BY <3>2, <5>1, <5>2
        <4>2. QED
          BY <2>4, <4>1 DEF StoredIsAuthorized
      <3>3. QED
        BY <3>1, <3>2
    <2>5. QED
      BY <2>4 DEF StoredIsAuthorized, AuthorizeRecord
  <1>3. ASSUME NEW d \in Datasets, NEW ids \in SUBSET RecordIDs,
               store' = WithoutRecords(d, ids)
        PROVE  StoredIsAuthorized'
    <2>1. \A x \in Datasets, i \in RecordIDs :
            store'[x][i] = NoRecord \/ store'[x][i] = store[x][i]
      BY <1>3 DEF WithoutRecords, TypeOK
    <2>2. QED
      BY <2>1 DEF StoredIsAuthorized, AuthorizeRecord
  <1>4. ASSUME NEW q \in Requests, Handle(q)
        PROVE  StoredIsAuthorized'
    BY <1>1, <1>2, <1>4
       DEF Handle, Begin, Accept, EvaluateProviders, AppendReceipt
  <1>5. ASSUME NEW d \in Datasets, Compact(d)
        PROVE  StoredIsAuthorized'
    <2>1. CASE CompactEnd(d)
      <3>1. compaction[d] \in Running
        BY <2>1 DEF CompactEnd, NotCompacting, Compaction, TypeOK
      <3>2. QED
        BY <1>1, <1>3, <2>1, <3>1 DEF CompactEnd, Running
    <2>2. CASE ~CompactEnd(d)
      BY <1>1, <1>5, <2>2
         DEF Compact, CompactBegin, CompactCheck, CompactAbort
    <2>3. QED
      BY <2>1, <2>2
  <1>6. CASE CompactTombstones
    BY <1>3, <1>6, AssertedCompactionShape
  <1>7. QED
    BY <1>1, <1>4, <1>5, <1>6 DEF Next, Crash, vars

\* A handler goes on to its receipt only with its record represented, and the
\* steps of the others leave it so.
LEMMA InFlightStep ==
    ASSUME TypeOK, StoredIsAuthorized, CompactionHoldsTombstones,
           InFlightIsSound, [Next]_vars
    PROVE  InFlightIsSound'
  <1>1. TypeOK'
    BY TypeStep
  <1>2. ASSUME NEW p \in Requests, request'[p] # Idle,
               request'[p] = request[p]
        PROVE  /\ request'[p].peer = request'[p].record.originDevice
               /\ \A f \in Envelopes :
                    f = request'[p].record /\ request'[p].pc = "receipt"
                    => Represented(f)'
    <2>1. ASSUME NEW f \in Envelopes, f = request[p].record,
                 request[p].pc = "receipt"
          PROVE  Represented(f)'
      <3>1. Represented(f)
        BY <1>2, <2>1 DEF InFlightIsSound
      <3>2. QED
        BY <3>1, RepresentedStep
    <2>2. QED
      BY <1>2, <2>1 DEF InFlightIsSound
  <1>3. ASSUME NEW q \in Requests, Handle(q), request'[q] # Idle
        PROVE  /\ request'[q].peer = request'[q].record.originDevice
               /\ \A f \in Envelopes :
                    f = request'[q].record /\ request'[q].pc = "receipt"
                    => Represented(f)'
    <2>1. CASE /\ request'[q].pc = "accept"
               /\ request'[q].peer = request'[q].record.originDevice
      BY <2>1
    <2>2. CASE /\ request[q] # Idle
               /\ request'[q].peer = request[q].peer
               /\ request'[q].record = request[q].record
               /\ request'[q].pc = "receipt" => AcceptAndPersist(q)
      <3>1. ASSUME NEW f \in Envelopes, f = request[q].record,
                   request'[q].pc = "receipt"
            PROVE  Represented(f)'
        BY <1>3, <2>2, <3>1, PersistRepresents
      <3>2. QED
        BY <2>2, <3>1 DEF InFlightIsSound
    <2>3. QED
      BY <1>3, <2>1, <2>2, RequestShape
  <1>4. ASSUME NEW p \in Requests, request'[p] # Idle
        PROVE  /\ request'[p].peer = request'[p].record.originDevice
               /\ \A f \in Envelopes :
                    f = request'[p].record /\ request'[p].pc = "receipt"
                    => Represented(f)'
    <2>1. \/ request'[p] = request[p]
          \/ Handle(p)
      <3>1. CASE \E q \in Requests : Handle(q)
        BY <3>1, OtherRequests
      <3>2. CASE UNCHANGED request
        BY <3>2
      <3>3. CASE Crash
        BY <1>4, <3>3 DEF Crash
      <3>4. CASE \/ \E d \in Datasets : Compact(d)
                 \/ CompactTombstones
                 \/ UNCHANGED vars
        BY <3>2, <3>4 DEF Compact, CompactBegin, CompactCheck, CompactAbort,
                          CompactEnd, CompactTombstones, vars
      <3>5. QED
        BY <3>1, <3>3, <3>4 DEF Next
    <2>2. QED
      BY <1>2, <1>3, <1>4, <2>1
  <1>5. \A p \in Requests : request'[p] # Idle => request'[p].record \in Envelopes
    BY <1>1 DEF TypeOK, Request, Busy
  <1>6. QED
    BY <1>4, <1>5 DEF InFlightIsSound, Represented

\* Nothing but the compaction itself touches a store whose mutex it holds.
LEMMA CompactionHoldsStep ==
    ASSUME TypeOK, CompactionHoldsTombstones, [Next]_vars
    PROVE  CompactionHoldsTombstones'
  <1>1. CASE UNCHANGED <<store, compaction>>
    BY <1>1 DEF CompactionHoldsTombstones
  <1>2. ASSUME NEW q \in Requests, Handle(q)
        PROVE  CompactionHoldsTombstones'
    <2>1. CASE AcceptAndPersist(q) /\ store' # store
      <3> DEFINE f == request[q].record
      <3>1. /\ f \in Envelopes
            /\ \E new : store' = [store EXCEPT ![f.dataset][f.recordID] = new]
            /\ ~compaction[f.dataset].running
        BY <2>1, PersistShape DEF Busy
      <3>2. compaction' = compaction
        BY <2>1 DEF AcceptAndPersist
      <3>3. \A d \in Datasets : compaction[d].running => store'[d] = store[d]
        BY <3>1, EnvelopeTypes DEF TypeOK
      <3>4. QED
        BY <3>2, <3>3 DEF CompactionHoldsTombstones
    <2>2. CASE ~(AcceptAndPersist(q) /\ store' # store)
      BY <1>1, <1>2, <2>2 DEF Handle, Begin, Accept, EvaluateProviders,
                              AcceptAndPersist, AppendReceipt
    <2>3. QED
      BY <2>1, <2>2
  <1>3. ASSUME NEW d \in Datasets, compaction' = [compaction EXCEPT ![d] = NotCompacting],
               \A x \in Datasets : x # d => store'[x] = store[x]
        PROVE  CompactionHoldsTombstones'
    BY <1>3 DEF CompactionHoldsTombstones, NotCompacting, TypeOK
  <1>4. ASSUME NEW d \in Datasets, Compact(d)
        PROVE  CompactionHoldsTombstones'
    <2>1. CASE CompactBegin(d)
      <3>1. PICK cutoff \in Cutoffs :
              compaction' = [compaction EXCEPT ![d] =
                  [running |-> TRUE, drop |-> {},
                   todo |-> {i \in RecordIDs : Expired(d, i, cutoff)}]]
        BY <2>1 DEF CompactBegin
      <3>2. store' = store
        BY <2>1 DEF CompactBegin
      <3>3. QED
        BY <3>1, <3>2 DEF CompactionHoldsTombstones, Expired, TypeOK
    <2>2. CASE CompactCheck(d)
      <3>1. compaction[d] \in Running /\ compaction[d].running /\ store' = store
        BY <2>2 DEF CompactCheck, NotCompacting, Compaction, TypeOK
      <3>2. PICK i \in compaction[d].todo :
              compaction' = [compaction EXCEPT
                  ![d].todo = @ \ {i},
                  ![d].drop = IF ConvergenceConfirmed(store[d][i].envelope,
                                                      RequiredPeers, receipts)
                              THEN @ \cup {i} ELSE @]
        BY <2>2 DEF CompactCheck
      <3>3. PICK u : /\ compaction' = [compaction EXCEPT ![d] =
                          [compaction[d] EXCEPT !.todo = @ \ {i}, !.drop = u]]
                     /\ u \subseteq compaction[d].drop \cup {i}
        BY <3>2
      <3>4. compaction'[d].todo \cup compaction'[d].drop
              \subseteq compaction[d].todo \cup compaction[d].drop
        BY <3>1, <3>3 DEF Running, TypeOK
      <3>5. \A x \in Datasets : x # d => compaction'[x] = compaction[x]
        BY <3>3 DEF TypeOK
      <3>6. QED
        BY <3>1, <3>4, <3>5 DEF CompactionHoldsTombstones
    <2>3. CASE CompactAbort(d)
      BY <1>3, <2>3 DEF CompactAbort
    <2>4. CASE CompactEnd(d)
      <3>1. \A x \in Datasets : x # d => store'[x] = store[x]
        BY <2>4 DEF CompactEnd, WithoutRecords, TypeOK
      <3>2. QED
        BY <1>3, <2>4, <3>1 DEF CompactEnd
    <2>5. QED
      BY <1>4, <2>1, <2>2, <2>3, <2>4 DEF Compact
  <1>5. CASE CompactTombstones
    <2>1. PICK d \in Datasets, ids \in SUBSET RecordIDs :
            ~compaction[d].running /\ store' = WithoutRecords(d, ids)
      BY <1>5, AssertedCompactionShape
    <2>2. \A x \in Datasets : x # d => store'[x] = store[x]
      BY <2>1 DEF WithoutRecords, TypeOK
    <2>3. compaction' = compaction
      BY <1>5 DEF CompactTombstones
    <2>4. QED
      BY <2>1, <2>2, <2>3 DEF CompactionHoldsTombstones
  <1>6. CASE Crash
    BY <1>6 DEF Crash, CompactionHoldsTombstones, NotCompacting
  <1>7. QED
    BY <1>1, <1>2, <1>4, <1>5, <1>6 DEF Next, vars

\* An update is acknowledged only when it is represented, and stays so.
LEMMA AckedStep ==
    ASSUME TypeOK, StoredIsAuthorized, CompactionHoldsTombstones,
           InFlightIsSound, AckedSurvives, [Next]_vars
    PROVE  AckedSurvives'
  <1>1. ASSUME NEW e \in acked'
        PROVE  e \in Envelopes /\ Represented(e)
    <2>1. CASE e \in acked
      BY <2>1 DEF AckedSurvives, TypeOK
    <2>2. CASE e \notin acked
      <3>1. PICK q \in Requests : AppendReceipt(q) /\ e = request[q].record
        BY <1>1, <2>2 DEF Next, Handle, Begin, Accept, EvaluateProviders,
             AcceptAndPersist, AppendReceipt, Compact, CompactBegin,
             CompactCheck, CompactAbort, CompactEnd, CompactTombstones,
             Crash, vars
      <3>2. request[q] # Idle /\ request[q].pc = "receipt"
        BY <3>1, PcOfIdle DEF AppendReceipt
      <3>3. QED
        BY <3>1, <3>2, BusyRequest DEF InFlightIsSound
    <2>3. QED
      BY <2>1, <2>2
  <1>2. \A e \in acked' : Represented(e)'
    BY <1>1, RepresentedStep
  <1>3. QED
    BY <1>2 DEF AckedSurvives

\* A receipt is filed only for a represented record, which stays so.
LEMMA ReceiptsStep ==
    ASSUME TypeOK, StoredIsAuthorized, CompactionHoldsTombstones,
           InFlightIsSound, ReceiptsAreHonest, [Next]_vars
    PROVE  ReceiptsAreHonest'
  <1>1. ASSUME NEW r \in receipts'
        PROVE  \E e \in Envelopes : /\ r = ObservationReceipt(e, e.originDevice)
                                    /\ Represented(e)
    <2>1. CASE r \in receipts
      BY <2>1 DEF ReceiptsAreHonest
    <2>2. CASE r \notin receipts
      <3>1. PICK q \in Requests :
              /\ AppendReceipt(q)
              /\ r = ObservationReceipt(request[q].record, request[q].peer)
        BY <1>1, <2>2 DEF Next, Handle, Begin, Accept, EvaluateProviders,
             AcceptAndPersist, AppendReceipt, Compact, CompactBegin,
             CompactCheck, CompactAbort, CompactEnd, CompactTombstones,
             Crash, vars
      <3>2. request[q] # Idle /\ request[q].pc = "receipt"
        BY <3>1, PcOfIdle DEF AppendReceipt
      <3>3. QED
        BY <3>1, <3>2, BusyRequest DEF InFlightIsSound
    <2>3. QED
      BY <2>1, <2>2
  <1>2. ASSUME NEW r \in receipts'
        PROVE  \E e \in Envelopes : /\ r = ObservationReceipt(e, e.originDevice)
                                    /\ Represented(e)'
    BY <1>1, RepresentedStep
  <1>3. QED
    BY <1>2 DEF ReceiptsAreHonest

\* The durability invariant holds of a node with empty files.
LEMMA DurabilityInit == Init => DurabilityInv
  <1> SUFFICES ASSUME Init PROVE DurabilityInv
    OBVIOUS
  <1>1. TypeOK
    BY TypeInit
  <1>2. StoredIsAuthorized
    BY DEF Init, StoredIsAuthorized
  <1>3. CompactionHoldsTombstones
    BY DEF Init, CompactionHoldsTombstones, NotCompacting
  <1>4. InFlightIsSound /\ AckedSurvives /\ ReceiptsAreHonest
    BY DEF Init, InFlightIsSound, AckedSurvives, ReceiptsAreHonest
  <1>5. QED
    BY <1>1, <1>2, <1>3, <1>4 DEF DurabilityInv

\* The durability invariant is inductive.
LEMMA DurabilityStep == DurabilityInv /\ [Next]_vars => DurabilityInv'
  BY TypeStep, AuthorizedStep, CompactionHoldsStep, InFlightStep, AckedStep,
     ReceiptsStep DEF DurabilityInv

\* The conjunction that every step of handlers, compactions and crashes keeps.
THEOREM Durable == Spec => []DurabilityInv
  BY DurabilityInit, DurabilityStep, PTL DEF Spec

\* Ingestion keeps its state well-formed, whatever fails.
THEOREM TypeCorrect == Spec => []TypeOK
  <1>1. DurabilityInv => TypeOK
    BY DEF DurabilityInv
  <1>2. QED
    BY <1>1, Durable, PTL

\* No accepted update is lost to another handler, a failed save, a compaction
\* or a restart of the process.
THEOREM NoAcceptedUpdateIsLost == Spec => []AckedSurvives
  <1>1. DurabilityInv => AckedSurvives
    BY DEF DurabilityInv
  <1>2. QED
    BY <1>1, Durable, PTL

\* The receipt file never speaks of an envelope the store has not merged.
THEOREM ReceiptsFollowTheStore == Spec => []ReceiptsAreHonest
  <1>1. DurabilityInv => ReceiptsAreHonest
    BY DEF DurabilityInv
  <1>2. QED
    BY <1>1, Durable, PTL

\* Acceptance fails closed: only authorized envelopes are ever stored.
THEOREM OnlyAuthorizedIsStored == Spec => []StoredIsAuthorized
  <1>1. DurabilityInv => StoredIsAuthorized
    BY DEF DurabilityInv
  <1>2. QED
    BY <1>1, Durable, PTL

\* Handlers hold no lock between their sections, and may rely on their locals.
THEOREM LocalsStaySound == Spec => []InFlightIsSound
  <1>1. DurabilityInv => InFlightIsSound
    BY DEF DurabilityInv
  <1>2. QED
    BY <1>1, Durable, PTL

\* What a compaction has loaded is still what the store holds when it saves.
THEOREM CandidatesAreHeld == Spec => []CompactionHoldsTombstones
  <1>1. DurabilityInv => CompactionHoldsTombstones
    BY DEF DurabilityInv
  <1>2. QED
    BY <1>1, Durable, PTL

-----------------------------------------------------------------------------
(* Refinement: ingestion implements the record table.                      *)

\* Empty stores are the empty table.
LEMMA TableInit == Init => Table!Init
  BY DEF Init, Table!Init

\* Removing stored tombstones is the table's purge.
LEMMA PurgeRefines ==
    ASSUME TypeOK, NEW d \in Datasets, NEW ids \in SUBSET RecordIDs,
           \A i \in ids : store[d][i] # NoRecord /\ store[d][i].envelope.deleted,
           store' = WithoutRecords(d, ids)
    PROVE  Table!Purge(d, ids)
  <1>1. \A i \in ids : store[d][i].envelope # NoRecord
    BY StoredEnvelope, NoRecordIsNone
  <1>2. QED
    BY <1>1 DEF Table!Purge, WithoutRecords, TypeOK

\* A save of AcceptAndPersist is the table's merge of the handler's record.
LEMMA MergeRefines ==
    ASSUME TypeOK, NEW q \in Requests, AcceptAndPersist(q), store' # store,
           NEW f \in Envelopes, f = request[q].record
    PROVE  Table!Merge(f)
  <1> DEFINE new == [envelope |-> Persisted(f),
                  evidence |-> [peerDevice |-> request[q].peer,
                     privacy |-> request[q].privacy, trust |-> request[q].trust]]
  <1>1. /\ request[q] \in Busy
        /\ store' = [store EXCEPT ![f.dataset][f.recordID] = new]
        /\ store[f.dataset][f.recordID] # NoRecord =>
              Supersedes(f, store[f.dataset][f.recordID].envelope)
    BY PersistShape
  <1>2. f \in Envelopes /\ f.dataset \in Datasets /\ f.recordID \in RecordIDs
    BY <1>1, EnvelopeTypes DEF Busy
  <1>3. new # NoRecord /\ new.envelope = Persisted(f)
    BY <1>1, NoRecordIsNone DEF Busy, PersistedRecord, Saved, Evidence
  <1>4. Table!Persisted(f) = Persisted(f)
    BY DEF Table!Persisted, Persisted
  <1>5. \A g : Table!Supersedes(f, g) <=> Supersedes(f, g)
    BY DEF Table!Supersedes, Supersedes
  <1>6. QED
    BY <1>1, <1>2, <1>3, <1>4, <1>5 DEF Table!Merge, TypeOK

\* Every step of the node is a step of the table or leaves the stores alone.
LEMMA TableStep ==
    ASSUME TypeOK, CompactionHoldsTombstones, [Next]_vars
    PROVE  \/ Table!Next
           \/ store' = store
  <1>1. ASSUME NEW q \in Requests, Handle(q), store' # store
        PROVE  Table!Next
    <2>1. AcceptAndPersist(q)
      BY <1>1 DEF Handle, Begin, Accept, EvaluateProviders, AppendReceipt
    <2>2. request[q].record \in Envelopes
      BY <1>1, <2>1, PersistShape DEF Busy
    <2>3. PICK f \in Envelopes : f = request[q].record
      BY <2>2
    <2>4. Table!Merge(f)
      BY <1>1, <2>1, <2>3, MergeRefines
    <2>5. QED
      BY <2>4 DEF Table!Next
  <1>2. ASSUME NEW d \in Datasets, Compact(d), store' # store
        PROVE  Table!Next
    <2>1. CompactEnd(d)
      BY <1>2 DEF Compact, CompactBegin, CompactCheck, CompactAbort
    <2>2. compaction[d] \in Running /\ compaction[d].running
      BY <2>1 DEF CompactEnd, NotCompacting, Compaction, TypeOK
    <2>3. store' = WithoutRecords(d, compaction[d].drop)
      BY <1>2, <2>1 DEF CompactEnd
    <2>4. compaction[d].drop \in SUBSET RecordIDs
      BY <2>2 DEF Running
    <2>5. PICK ids \in SUBSET RecordIDs : ids = compaction[d].drop
      BY <2>4
    <2>6. \A i \in ids : store[d][i] # NoRecord /\ store[d][i].envelope.deleted
      BY <2>2, <2>5 DEF CompactionHoldsTombstones
    <2>7. Table!Purge(d, ids)
      BY <2>3, <2>5, <2>6, PurgeRefines
    <2>8. QED
      BY <2>7 DEF Table!Next
  <1>3. CASE CompactTombstones
    BY <1>3, AssertedCompactionShape, PurgeRefines DEF Table!Next
  <1>4. QED
    BY <1>1, <1>2, <1>3 DEF Next, Crash, vars

\* Every behaviour of ingestion is one of the record table: an envelope is
\* replaced only by one that wins over it, and only tombstones are removed.
THEOREM ImplementsTable == Spec => TableSpec
  <1>1. DurabilityInv /\ [Next]_vars
          => [Table!Next]_([d \in Datasets |-> [i \in RecordIDs |->
                 IF store[d][i] = NoRecord THEN NoRecord
                 ELSE store[d][i].envelope]])
    BY TableStep DEF DurabilityInv
  <1>2. QED
    BY <1>1, TableInit, Durable, PTL DEF Spec, TableSpec, Table!Spec

-----------------------------------------------------------------------------
(* The replay guard with a file, on a disk that takes its saves.           *)

\* What Accept does to the marks when its save does not fail.
LEMMA AcceptShape ==
    ASSUME TypeOK, InFlightIsSound, Guard = "file", "guardSave" \notin Faults,
           NEW q \in Requests, Accept(q), admitted' # admitted \/ ~Reject(q)
    PROVE  LET r == request[q].record
               k == KeyOf(r.originDevice, r)
           IN  /\ r \in Envelopes
               /\ r.revision > mark[k]
               /\ mark' = [mark EXCEPT ![k] = r.revision]
               /\ markFile' = mark'
               /\ admitted' = admitted \cup {r}
  <1>1. request[q] # Idle
    BY PcOfIdle DEF Accept
  <1>2. /\ request[q].record \in Envelopes
        /\ request[q].peer = request[q].record.originDevice
    BY <1>1, BusyRequest DEF InFlightIsSound
  <1>3. QED
    BY <1>2 DEF Accept, guardVars, Fresh

\* Raising the mark before letting a revision pass keeps the mark above it;
\* a restart reads back the same marks.
LEMMA HighWaterStep ==
    ASSUME TypeOK, InFlightIsSound, HighWaterMark, Guard = "file",
           "guardSave" \notin Faults, [Next]_vars
    PROVE  HighWaterMark'
  <1>1. CASE UNCHANGED guardVars
    BY <1>1 DEF guardVars, HighWaterMark
  <1>2. ASSUME NEW q \in Requests, Accept(q)
        PROVE  HighWaterMark'
    <2> DEFINE r == request[q].record
               k == KeyOf(r.originDevice, r)
    <2>1. CASE admitted' # admitted \/ ~Reject(q)
      <3>1. /\ r \in Envelopes
            /\ r.revision > mark[k]
            /\ mark' = [mark EXCEPT ![k] = r.revision]
            /\ markFile' = mark'
            /\ admitted' = admitted \cup {r}
        BY <1>2, <2>1, AcceptShape
      <3>2. k \in ReplayKey /\ r.revision \in Nat
        BY <3>1, EnvelopeTypes DEF KeyOf, ReplayKey
      <3>3. ASSUME NEW e \in admitted'
            PROVE  e.revision <= mark'[KeyOf(e.originDevice, e)]
        <4> DEFINE ke == KeyOf(e.originDevice, e)
        <4>1. e \in Envelopes
          BY <3>1, <3>3 DEF TypeOK
        <4>2. ke \in ReplayKey /\ e.revision \in Nat
          BY <4>1, EnvelopeTypes DEF KeyOf, ReplayKey
        <4>3. mark \in [ReplayKey -> Nat]
          BY DEF TypeOK
        <4>4. CASE e = r
          BY <3>1, <3>2, <4>3, <4>4
        <4>5. CASE e \in admitted
          <5>1. e.revision <= mark[ke]
            BY <4>5 DEF HighWaterMark
          <5>2. mark[ke] \in Nat /\ mark[k] \in Nat
            BY <3>2, <4>2, <4>3
          <5>3. mark'[ke] = IF ke = k THEN r.revision ELSE mark[ke]
            BY <3>1, <4>2, <4>3
          <5>4. QED
            BY <3>1, <3>2, <4>2, <5>1, <5>2, <5>3
        <4>6. QED
          BY <3>1, <4>4, <4>5
      <3>4. QED
        BY <3>1, <3>3 DEF HighWaterMark
    <2>2. CASE admitted' = admitted /\ Reject(q)
      <3>1. request'[q] = Idle
        BY <2>2 DEF Reject, TypeOK
      <3>2. request[q] # Idle
        BY <1>2, PcOfIdle DEF Accept
      <3>3. request[q].record.revision > mark[KeyOf(request[q].peer, request[q].record)]
              => Goto(q, "evaluate")
        BY <1>2 DEF Accept, Fresh
      <3>4. Goto(q, "evaluate") => request'[q].pc = "evaluate"
        BY <3>2, BusyRequest DEF Goto, TypeOK, Busy
      <3>5. UNCHANGED guardVars
        BY <1>2, <3>1, <3>3, <3>4, PcOfIdle DEF Accept, Fresh
      <3>6. QED
        BY <1>1, <3>5
    <2>3. QED
      BY <2>1, <2>2
  <1>3. ASSUME NEW q \in Requests, Handle(q)
        PROVE  HighWaterMark'
    BY <1>1, <1>2, <1>3
       DEF Handle, Begin, EvaluateProviders, AcceptAndPersist, AppendReceipt
  <1>4. CASE Crash
    BY <1>4 DEF Crash, HighWaterMark
  <1>5. CASE \/ \E d \in Datasets : Compact(d)
             \/ CompactTombstones
             \/ UNCHANGED vars
    BY <1>1, <1>5 DEF Compact, CompactBegin, CompactCheck, CompactAbort,
                      CompactEnd, CompactTombstones, vars, guardVars
  <1>6. QED
    BY <1>3, <1>4, <1>5 DEF Next

\* With a guard file whose saves succeed, the mark in memory and on file is
\* never below a revision that was let pass, also after restarts.
THEOREM MarksAreHighWater ==
    ASSUME Guard = "file", "guardSave" \notin Faults
    PROVE  Spec => []HighWaterMark
  <1>1. Init => HighWaterMark
    BY DEF Init, HighWaterMark
  <1>2. DurabilityInv /\ HighWaterMark /\ [Next]_vars => HighWaterMark'
    BY HighWaterStep DEF DurabilityInv
  <1>3. QED
    BY <1>1, <1>2, Durable, PTL DEF Spec

\* Hence no revision is admitted twice, nor after a later one.
THEOREM NoRevisionIsReadmitted ==
    ASSUME Guard = "file", "guardSave" \notin Faults
    PROVE  Spec => NeverReadmitted
  <1> DEFINE Passes(q) == request[q].pc = "accept" /\ request'[q].pc = "evaluate"
             Above(q) == LET r == request[q].record
                         IN  \A e \in admitted :
                                KeyOf(e.originDevice, e) = KeyOf(r.originDevice, r)
                                => e.revision < r.revision
  <1>1. ASSUME DurabilityInv, HighWaterMark, Next, NEW q \in Requests, Passes(q)
        PROVE  Above(q)
    <2>1. TypeOK /\ InFlightIsSound
      BY <1>1 DEF DurabilityInv
    <2>2. request[q] # Idle /\ request'[q] # Idle /\ request'[q] # request[q]
      BY <1>1, PcOfIdle
    <2>3. Handle(q)
      BY <1>1, <2>1, <2>2, OtherRequests DEF Next, Compact, CompactBegin,
         CompactCheck, CompactAbort, CompactEnd, CompactTombstones, Crash
    <2>4. Accept(q)
      BY <1>1, <2>2, <2>3
         DEF Handle, Begin, EvaluateProviders, AcceptAndPersist, AppendReceipt
    <2>5. ~Reject(q)
      BY <2>1, <2>2 DEF Reject, TypeOK
    <2>6. /\ request[q].record \in Envelopes
          /\ request[q].record.revision > mark[KeyOf(request[q].record.originDevice, request[q].record)]
      BY <2>1, <2>4, <2>5, AcceptShape
    <2>7. ASSUME NEW e \in admitted,
                 KeyOf(e.originDevice, e)
                   = KeyOf(request[q].record.originDevice, request[q].record)
          PROVE  e.revision < request[q].record.revision
      <3>1. e \in Envelopes
        BY <2>1 DEF TypeOK
      <3>2. e.revision <= mark[KeyOf(e.originDevice, e)]
        BY <1>1 DEF HighWaterMark
      <3>3. KeyOf(e.originDevice, e) \in ReplayKey
        BY <3>1, EnvelopeTypes DEF KeyOf, ReplayKey
      <3>4. mark[KeyOf(e.originDevice, e)] \in Nat
        BY <2>1, <3>3 DEF TypeOK
      <3>5. e.revision \in Nat /\ request[q].record.revision \in Nat
        BY <2>6, <3>1, EnvelopeTypes
      <3>6. QED
        BY <2>6, <2>7, <3>2, <3>4, <3>5
    <2>8. QED
      BY <2>7
  <1>2. DurabilityInv /\ HighWaterMark /\ [Next]_vars
          => [\A q \in Requests : Passes(q) => Above(q)]_vars
    BY <1>1
  <1>3. QED
    BY <1>2, Durable, MarksAreHighWater, PTL DEF Spec, NeverReadmitted
-----------------------------------------------------------------------------
(* Compaction by receipts.  What a compaction is about to remove, and what *)
(* was removed, has its receipts, which only grow.                         *)

DropConfirmed ==
    \A d \in Datasets : compaction[d].running =>
        \A i \in compaction[d].drop :
            ConvergenceConfirmed(store[d][i].envelope, RequiredPeers, receipts)

CompactedConfirmed ==
    \A c \in compacted : ConvergenceConfirmed(c, RequiredPeers, receipts)

\* No step removes a receipt.
LEMMA ReceiptsGrow == [Next]_vars => receipts \subseteq receipts'
  BY DEF Next, Handle, Begin, Accept, EvaluateProviders, AcceptAndPersist,
         AppendReceipt, Compact, CompactBegin, CompactCheck, CompactAbort,
         CompactEnd, CompactTombstones, Crash, vars

\* A confirmed tombstone stays confirmed.
LEMMA ConfirmedStays ==
    ASSUME receipts \subseteq receipts', NEW e,
           ConvergenceConfirmed(e, RequiredPeers, receipts)
    PROVE  ConvergenceConfirmed(e, RequiredPeers, receipts')
  BY DEF ConvergenceConfirmed

\* A store and a compaction of it that stay as they are stay confirmed.
LEMMA DropStays ==
    ASSUME DropConfirmed, receipts \subseteq receipts',
           \A d \in Datasets : compaction'[d].running =>
               /\ compaction[d].running
               /\ compaction'[d].drop \subseteq compaction[d].drop
               /\ \A i \in compaction'[d].drop : store'[d][i] = store[d][i]
    PROVE  DropConfirmed'
  <1>1. ASSUME NEW d \in Datasets, compaction'[d].running,
               NEW i \in compaction'[d].drop
        PROVE  ConvergenceConfirmed(store'[d][i].envelope, RequiredPeers, receipts')
    <2>1. ConvergenceConfirmed(store[d][i].envelope, RequiredPeers, receipts)
      BY <1>1 DEF DropConfirmed
    <2>2. store'[d][i] = store[d][i]
      BY <1>1
    <2>3. QED
      BY <2>1, <2>2, ConfirmedStays
  <1>2. QED
    BY <1>1 DEF DropConfirmed, ConvergenceConfirmed

\* A compaction drops what it finds confirmed, and nothing touches its store.
LEMMA DropStep ==
    ASSUME TypeOK, DropConfirmed, [Next]_vars
    PROVE  DropConfirmed'
  <1>1. receipts \subseteq receipts'
    BY ReceiptsGrow
  <1>2. CASE UNCHANGED <<store, compaction>>
    BY <1>1, <1>2, DropStays
  <1>3. ASSUME NEW q \in Requests, Handle(q)
        PROVE  DropConfirmed'
    <2>1. CASE AcceptAndPersist(q) /\ store' # store
      <3> DEFINE f == request[q].record
      <3>1. /\ f \in Envelopes
            /\ \E new : store' = [store EXCEPT ![f.dataset][f.recordID] = new]
            /\ ~compaction[f.dataset].running
        BY <2>1, PersistShape DEF Busy
      <3>2. compaction' = compaction
        BY <2>1 DEF AcceptAndPersist
      <3>3. \A d \in Datasets : compaction[d].running => store'[d] = store[d]
        BY <3>1, EnvelopeTypes DEF TypeOK
      <3>4. QED
        BY <1>1, <3>2, <3>3, DropStays
    <2>2. CASE ~(AcceptAndPersist(q) /\ store' # store)
      BY <1>2, <1>3, <2>2 DEF Handle, Begin, Accept, EvaluateProviders,
                              AcceptAndPersist, AppendReceipt
    <2>3. QED
      BY <2>1, <2>2
  <1>4. ASSUME NEW d \in Datasets,
               compaction' = [compaction EXCEPT ![d] = NotCompacting],
               \A x \in Datasets : x # d => store'[x] = store[x]
        PROVE  DropConfirmed'
    <2>1. \A x \in Datasets : compaction'[x].running =>
            x # d /\ compaction'[x] = compaction[x]
      BY <1>4 DEF NotCompacting, TypeOK
    <2>2. QED
      BY <1>1, <1>4, <2>1, DropStays
  <1>5. ASSUME NEW d \in Datasets, Compact(d)
        PROVE  DropConfirmed'
    <2>1. CASE CompactBegin(d)
      <3>1. PICK cutoff \in Cutoffs :
              compaction' = [compaction EXCEPT ![d] =
                  [running |-> TRUE, drop |-> {},
                   todo |-> {i \in RecordIDs : Expired(d, i, cutoff)}]]
        BY <2>1 DEF CompactBegin
      <3>2. store' = store /\ ~compaction[d].running
        BY <2>1 DEF CompactBegin, Unlocked
      <3>3. compaction'[d].drop = {}
        BY <3>1 DEF TypeOK
      <3>4. \A x \in Datasets : x # d => compaction'[x] = compaction[x]
        BY <3>1 DEF TypeOK
      <3>5. ASSUME NEW x \in Datasets, compaction'[x].running,
                   NEW i \in compaction'[x].drop
            PROVE  ConvergenceConfirmed(store'[x][i].envelope, RequiredPeers, receipts')
        <4>1. x # d
          BY <3>3, <3>5
        <4>2. ConvergenceConfirmed(store[x][i].envelope, RequiredPeers, receipts)
          BY <3>4, <3>5, <4>1 DEF DropConfirmed
        <4>3. QED
          BY <1>1, <3>2, <4>2, ConfirmedStays
      <3>6. QED
        BY <3>5 DEF DropConfirmed, ConvergenceConfirmed
    <2>2. CASE CompactCheck(d)
      <3>1. compaction[d] \in Running /\ compaction[d].running /\ store' = store
        BY <2>2 DEF CompactCheck, NotCompacting, Compaction, TypeOK
      <3>2. PICK i \in compaction[d].todo :
              compaction' = [compaction EXCEPT
                  ![d].todo = @ \ {i},
                  ![d].drop = IF ConvergenceConfirmed(store[d][i].envelope,
                                                      RequiredPeers, receipts)
                              THEN @ \cup {i} ELSE @]
        BY <2>2 DEF CompactCheck
      <3> DEFINE ok == ConvergenceConfirmed(store[d][i].envelope,
                                            RequiredPeers, receipts)
      <3>3. compaction' = [compaction EXCEPT ![d] =
               [compaction[d] EXCEPT !.todo = compaction[d].todo \ {i},
                  !.drop = IF ok THEN compaction[d].drop \cup {i}
                                 ELSE compaction[d].drop]]
        BY <3>2
      <3>4. compaction'[d].drop = IF ok THEN compaction[d].drop \cup {i}
                                        ELSE compaction[d].drop
        BY <3>1, <3>3 DEF Running, TypeOK
      <3>5. \A x \in Datasets : x # d => compaction'[x] = compaction[x]
        BY <3>3 DEF TypeOK
      <3>6. ASSUME NEW x \in Datasets, compaction'[x].running,
                   NEW j \in compaction'[x].drop
            PROVE  ConvergenceConfirmed(store'[x][j].envelope, RequiredPeers, receipts')
        <4>1. ConvergenceConfirmed(store[x][j].envelope, RequiredPeers, receipts)
          <5>1. CASE x # d
            BY <3>5, <3>6, <5>1 DEF DropConfirmed
          <5>2. CASE x = d /\ j \in compaction[d].drop
            BY <3>1, <5>2 DEF DropConfirmed
          <5>3. CASE x = d /\ j \notin compaction[d].drop
            <6>1. ok /\ j = i
              BY <3>4, <3>6, <5>3
            <6>2. QED
              BY <5>3, <6>1
          <5>4. QED
            BY <5>1, <5>2, <5>3
        <4>2. QED
          BY <1>1, <3>1, <4>1, ConfirmedStays
      <3>7. QED
        BY <3>6 DEF DropConfirmed, ConvergenceConfirmed
    <2>3. CASE CompactAbort(d)
      BY <1>4, <2>3 DEF CompactAbort
    <2>4. CASE CompactEnd(d)
      <3>1. \A x \in Datasets : x # d => store'[x] = store[x]
        BY <2>4 DEF CompactEnd, WithoutRecords, TypeOK
      <3>2. QED
        BY <1>4, <2>4, <3>1 DEF CompactEnd
    <2>5. QED
      BY <1>5, <2>1, <2>2, <2>3, <2>4 DEF Compact
  <1>6. CASE CompactTombstones
    <2>1. PICK d \in Datasets, ids \in SUBSET RecordIDs :
            ~compaction[d].running /\ store' = WithoutRecords(d, ids)
      BY <1>6, AssertedCompactionShape
    <2>2. \A x \in Datasets : x # d => store'[x] = store[x]
      BY <2>1 DEF WithoutRecords, TypeOK
    <2>3. compaction' = compaction
      BY <1>6 DEF CompactTombstones
    <2>4. QED
      BY <1>1, <2>1, <2>2, <2>3, DropStays
  <1>7. CASE Crash
    BY <1>7 DEF Crash, DropConfirmed, NotCompacting
  <1>8. QED
    BY <1>2, <1>3, <1>5, <1>6, <1>7 DEF Next, vars

\* What is removed, where no caller asserts convergence, was to be dropped.
LEMMA CompactedStep ==
    ASSUME TypeOK, DropConfirmed, CompactedConfirmed, ~AssertedCompaction,
           [Next]_vars
    PROVE  CompactedConfirmed'
  <1>1. ASSUME NEW c \in compacted'
        PROVE  ConvergenceConfirmed(c, RequiredPeers, receipts)
    <2>1. CASE c \in compacted
      BY <2>1 DEF CompactedConfirmed
    <2>2. CASE c \notin compacted
      <3>1. PICK d \in Datasets : /\ CompactEnd(d)
                                  /\ c \in EnvelopesOf(d, compaction[d].drop)
        BY <1>1, <2>2 DEF Next, Handle, Begin, Accept, EvaluateProviders,
             AcceptAndPersist, AppendReceipt, Compact, CompactBegin,
             CompactCheck, CompactAbort, CompactEnd, CompactTombstones,
             Crash, vars
      <3>2. PICK i \in compaction[d].drop : c = store[d][i].envelope
        BY <3>1 DEF EnvelopesOf
      <3>3. compaction[d].running
        BY <3>1 DEF CompactEnd
      <3>4. QED
        BY <3>2, <3>3 DEF DropConfirmed
    <2>3. QED
      BY <2>1, <2>2
  <1>2. ASSUME NEW c \in compacted'
        PROVE  ConvergenceConfirmed(c, RequiredPeers, receipts')
    BY <1>1, ReceiptsGrow, ConfirmedStays
  <1>3. QED
    BY <1>2 DEF CompactedConfirmed, ConvergenceConfirmed

\* An honest receipt for a tombstone's digest was filed for its origin.
LEMMA ConfirmedByOrigin ==
    ASSUME ReceiptsAreHonest, NEW c, ConvergenceConfirmed(c, RequiredPeers, receipts)
    PROVE  RequiredPeers = {c.originDevice}
  <1>1. ASSUME NEW p \in RequiredPeers
        PROVE  p = c.originDevice
    <2>1. ObservationReceipt(c, p) \in receipts
      BY DEF ConvergenceConfirmed
    <2>2. PICK e \in Envelopes :
            ObservationReceipt(c, p) = ObservationReceipt(e, e.originDevice)
      BY <2>1 DEF ReceiptsAreHonest
    <2>3. p = e.originDevice
      BY <2>2 DEF ObservationReceipt
    <2>4. RecordDigest(c) = RecordDigest(e)
      BY <2>2 DEF ObservationReceipt
    <2>5. c.originDevice = e.originDevice
      BY <2>4 DEF RecordDigest
    <2>6. QED
      BY <2>3, <2>5
  <1>2. RequiredPeers # {}
    BY DEF ConvergenceConfirmed
  <1>3. QED
    BY <1>1, <1>2

\* Whatever peers a caller requires, receipts let a tombstone go only if its
\* own origin is the one that is required.
THEOREM CompactionNeedsTheOrigin ==
    ASSUME ~AssertedCompaction
    PROVE  Spec => []CompactedOnlyForOrigin
  <1>1. Init => DropConfirmed /\ CompactedConfirmed
    BY DEF Init, DropConfirmed, CompactedConfirmed, NotCompacting
  <1>2. DurabilityInv /\ DropConfirmed /\ CompactedConfirmed /\ [Next]_vars
          => (DropConfirmed /\ CompactedConfirmed)'
    BY DropStep, CompactedStep DEF DurabilityInv
  <1>3. DurabilityInv /\ CompactedConfirmed => CompactedOnlyForOrigin
    BY ConfirmedByOrigin
       DEF DurabilityInv, CompactedConfirmed, CompactedOnlyForOrigin
  <1>4. QED
    BY <1>1, <1>2, <1>3, Durable, PTL DEF Spec

-----------------------------------------------------------------------------
(* Where nothing fails, what the guard lets pass is not lost on its way.   *)

\* The providers said yes to every handler that has asked them.
ProvidersAgreed ==
    \A q \in Requests : request[q].pc = "persist" =>
        request[q].privacy /\ request[q].trust

\* A handler that the guard has let pass is carrying the envelope.
Carried(e) ==
    \E q \in Requests : /\ request[q].pc \in {"evaluate", "persist", "receipt"}
                        /\ request[q].record = e

Refused(e) ==
    \/ e.dataset \notin Stores
    \/ ~\E c \in Negotiated[e.originDevice] : ValidateRecord(e, c)

CarriedOrThere ==
    \A e \in admitted : Represented(e) \/ Carried(e) \/ Refused(e)

\* None of the faults that lose an envelope between the guard and the store.
NothingIsLost == Faults \cap {"provider", "storeSave", "crash"} = {}

\* A handler with work to do is busy.
LEMMA CarrierIsBusy ==
    ASSUME TypeOK, NEW q \in Requests, request[q].pc # "idle"
    PROVE  request[q] \in Busy /\ request[q].record \in Envelopes
  BY PcOfIdle, BusyRequest

\* Only EvaluateProviders leads to the store, and both say yes.
LEMMA ProvidersStep ==
    ASSUME TypeOK, ProvidersAgreed, NothingIsLost, [Next]_vars
    PROVE  ProvidersAgreed'
  <1>1. CASE UNCHANGED request
    BY <1>1 DEF ProvidersAgreed
  <1>2. ASSUME NEW q \in Requests, Handle(q)
        PROVE  request'[q].pc = "persist" => request'[q].privacy /\ request'[q].trust
    <2>1. CASE Begin(q)
      <3>1. request'[q].pc = "accept"
        BY <2>1 DEF Begin, TypeOK
      <3>2. QED
        BY <3>1
    <2>2. CASE ~Begin(q)
      <3>1. request[q] \in Busy
        BY <1>2, <2>2, CarrierIsBusy
           DEF Handle, Accept, EvaluateProviders, AcceptAndPersist, AppendReceipt
      <3>2. CASE EvaluateProviders(q)
        <4>1. request'[q] = [request[q] EXCEPT !.pc = "persist",
                                !.privacy = TRUE, !.trust = TRUE]
          BY <3>2 DEF EvaluateProviders, TypeOK, NothingIsLost
        <4>2. QED
          BY <3>1, <4>1 DEF Busy
      <3>3. CASE ~EvaluateProviders(q)
        <4>1. Goto(q, "evaluate") \/ Goto(q, "receipt") \/ Reject(q)
          BY <1>2, <2>2, <3>3 DEF Handle, Accept, AcceptAndPersist, AppendReceipt
        <4>2. request'[q].pc # "persist"
          BY <3>1, <4>1, PcOfIdle DEF Goto, Reject, Busy, TypeOK
        <4>3. QED
          BY <4>2
      <3>4. QED
        BY <3>2, <3>3
    <2>3. QED
      BY <2>1, <2>2
  <1>3. ASSUME NEW q \in Requests, Handle(q)
        PROVE  ProvidersAgreed'
    BY <1>2, <1>3, OtherRequests DEF ProvidersAgreed
  <1>4. CASE \E d \in Datasets : Compact(d)
    BY <1>1, <1>4 DEF Compact, CompactBegin, CompactCheck, CompactAbort, CompactEnd
  <1>5. CASE CompactTombstones
    BY <1>1, <1>5 DEF CompactTombstones
  <1>6. CASE Crash
    BY <1>6 DEF Crash, NothingIsLost
  <1>7. QED
    BY <1>1, <1>3, <1>4, <1>5, <1>6 DEF Next, vars

\* What the guard lets pass is carried on by the same handler.
LEMMA AdmittedIsCarried ==
    ASSUME TypeOK, NEW q \in Requests, Handle(q),
           NEW e \in admitted', e \notin admitted
    PROVE  Carried(e)'
  <1>1. Accept(q) /\ e = request[q].record /\ Goto(q, "evaluate")
    BY DEF Handle, Begin, Accept, EvaluateProviders, AcceptAndPersist,
           AppendReceipt, guardVars
  <1>2. request[q] \in Busy
    BY <1>1, CarrierIsBusy DEF Accept
  <1>3. request'[q] = [request[q] EXCEPT !.pc = "evaluate"]
    BY <1>1 DEF Goto, TypeOK
  <1>4. request'[q].pc = "evaluate" /\ request'[q].record = e
    BY <1>1, <1>2, <1>3 DEF Busy
  <1>5. QED
    BY <1>4 DEF Carried

\* The carrier hands the envelope to its next section, or answers when it is in
\* the store, or when it had no right to be there.
LEMMA CarrierDelivers ==
    ASSUME DurabilityInv, ProvidersAgreed, NothingIsLost, [Next]_vars,
           NEW q \in Requests, Handle(q), NEW e \in Envelopes,
           request[q].pc \in {"evaluate", "persist", "receipt"},
           request[q].record = e
    PROVE  Represented(e)' \/ Carried(e)' \/ Refused(e)
  <1>1. TypeOK /\ StoredIsAuthorized /\ CompactionHoldsTombstones /\ InFlightIsSound
    BY DEF DurabilityInv
  <1>2. request[q] \in Busy /\ request[q] # Idle
    BY <1>1, CarrierIsBusy, PcOfIdle
  <1>3. CASE EvaluateProviders(q)
    <2>1. request'[q] = [request[q] EXCEPT !.pc = "persist",
                            !.privacy = TRUE, !.trust = TRUE]
      BY <1>1, <1>3 DEF EvaluateProviders, TypeOK, NothingIsLost
    <2>2. request'[q].pc = "persist" /\ request'[q].record = e
      BY <1>2, <2>1 DEF Busy
    <2>3. QED
      BY <2>2 DEF Carried
  <1>4. CASE AcceptAndPersist(q)
    <2>1. CASE Goto(q, "receipt")
      <3>1. request'[q] = [request[q] EXCEPT !.pc = "receipt"]
        BY <1>1, <2>1 DEF Goto, TypeOK
      <3>2. request'[q].pc = "receipt" /\ request'[q].record = e
        BY <1>2, <3>1 DEF Busy
      <3>3. QED
        BY <3>2 DEF Carried
    <2>2. CASE ~Goto(q, "receipt")
      <3>1. ~(Dispatched(e.dataset) /\ AuthorizeRecord(e, request[q].peer,
                  request[q].privacy, request[q].trust))
        BY <1>4, <2>2 DEF AcceptAndPersist, NothingIsLost
      <3>2. /\ request[q].privacy /\ request[q].trust
            /\ request[q].peer = e.originDevice
        BY <1>1, <1>2, <1>4 DEF AcceptAndPersist, ProvidersAgreed, InFlightIsSound
      <3>3. QED
        BY <3>1, <3>2 DEF Dispatched, AuthorizeRecord, Refused
    <2>3. QED
      BY <2>1, <2>2
  <1>5. CASE AppendReceipt(q)
    <2>1. Represented(e)
      BY <1>1, <1>2, <1>5 DEF AppendReceipt, InFlightIsSound
    <2>2. QED
      BY <1>1, <2>1, RepresentedStep
  <1>6. QED
    BY <1>3, <1>4, <1>5, PcOfIdle DEF Handle, Begin, Accept

\* Without those faults no step loses an admitted envelope.
LEMMA CarriedStep ==
    ASSUME DurabilityInv, ProvidersAgreed, CarriedOrThere, NothingIsLost, [Next]_vars
    PROVE  CarriedOrThere'
  <1>1. TypeOK /\ TypeOK' /\ StoredIsAuthorized /\ CompactionHoldsTombstones
    BY DurabilityStep DEF DurabilityInv
  <1>2. ASSUME NEW e \in admitted', e \in admitted, Represented(e)
        PROVE  Represented(e)'
    <2>1. e \in Envelopes
      BY <1>1, <1>2 DEF TypeOK
    <2>2. QED
      BY <1>1, <1>2, <2>1, RepresentedStep
  <1>3. CASE UNCHANGED <<request, admitted>>
    <2>1. ASSUME NEW e \in admitted'
          PROVE  Represented(e)' \/ Carried(e)' \/ Refused(e)
      BY <1>2, <1>3, <2>1 DEF CarriedOrThere, Carried
    <2>2. QED
      BY <2>1 DEF CarriedOrThere, Refused, ValidateRecord
  <1>4. ASSUME NEW q \in Requests, Handle(q)
        PROVE  CarriedOrThere'
    <2>1. ASSUME NEW e \in admitted'
          PROVE  Represented(e)' \/ Carried(e)' \/ Refused(e)
      <3>1. CASE e \notin admitted
        BY <1>1, <1>4, <2>1, <3>1, AdmittedIsCarried
      <3>2. CASE e \in admitted /\ Carried(e)
        <4>1. PICK p \in Requests :
                /\ request[p].pc \in {"evaluate", "persist", "receipt"}
                /\ request[p].record = e
          BY <3>2 DEF Carried
        <4>2. CASE p = q
          <5>1. e \in Envelopes
            BY <1>1, <3>2 DEF TypeOK
          <5>2. QED
            BY <1>4, <4>1, <4>2, <5>1, CarrierDelivers
        <4>3. CASE p # q
          <5>1. request'[p] = request[p]
            BY <1>1, <1>4, <4>3, OtherRequests
          <5>2. QED
            BY <4>1, <5>1 DEF Carried
        <4>4. QED
          BY <4>2, <4>3
      <3>3. CASE e \in admitted /\ ~Carried(e)
        BY <1>2, <2>1, <3>3 DEF CarriedOrThere
      <3>4. QED
        BY <3>1, <3>2, <3>3
    <2>2. QED
      BY <2>1 DEF CarriedOrThere, Refused, ValidateRecord
  <1>5. CASE \E d \in Datasets : Compact(d)
    BY <1>3, <1>5 DEF Compact, CompactBegin, CompactCheck, CompactAbort,
                      CompactEnd, guardVars
  <1>6. CASE CompactTombstones
    BY <1>3, <1>6 DEF CompactTombstones, guardVars
  <1>7. CASE Crash
    BY <1>7 DEF Crash, NothingIsLost
  <1>8. QED
    BY <1>3, <1>4, <1>5, <1>6, <1>7 DEF Next, vars

\* For any number of handlers and compactions: where no provider refuses, no
\* store fails and the node keeps running, an admitted revision is on its way,
\* represented, or was never negotiated.  The guard's file and the receipts may
\* fail.
THEOREM AdmittedArrives ==
    ASSUME NothingIsLost
    PROVE  Spec => []AdmittedIsNotLost
  <1>1. Init => ProvidersAgreed /\ CarriedOrThere
    BY PcOfIdle DEF Init, ProvidersAgreed, CarriedOrThere
  <1>2. DurabilityInv /\ ProvidersAgreed /\ CarriedOrThere /\ [Next]_vars
          => (ProvidersAgreed /\ CarriedOrThere)'
    BY ProvidersStep, CarriedStep DEF DurabilityInv
  <1>3. CarriedOrThere => AdmittedIsNotLost
    BY PcOfIdle DEF CarriedOrThere, Carried, Refused, AdmittedIsNotLost
  <1>4. QED
    BY <1>1, <1>2, <1>3, Durable, PTL DEF Spec
=============================================================================
