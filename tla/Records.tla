------------------------------- MODULE Records -------------------------------
(***************************************************************************)
(* The record rules of internal/datasets and internal/replication that     *)
(* have no state of their own: when an envelope is valid, which of two     *)
(* envelopes wins, what an observation receipt says of an envelope, and    *)
(* when a set of receipts confirms a tombstone.                            *)
(*                                                                         *)
(* Data that the rules only compare is abstracted to an ordered or a plain *)
(* value: instants and revisions are natural numbers, and a device is the  *)
(* natural number of its identifier's place in the lexicographic order.    *)
(* An identifier that passed validDeviceID holds no blanks, so TrimSpace   *)
(* leaves it alone.  A record's payload is one of Payloads, NoPayload      *)
(* (Go's nil map) or EmptyPayload: a map with nothing in it, which is what *)
(* "payload": {} decodes to.                                               *)
(***************************************************************************)
EXTENDS Naturals

CONSTANTS Datasets, RecordIDs, Devices, Applications,
          Payloads, NoPayload, EmptyPayload

ASSUME DevicesAssumption == Devices \subseteq Nat
ASSUME PayloadAssumption ==
    /\ NoPayload \notin Payloads /\ EmptyPayload \notin Payloads
    /\ NoPayload # EmptyPayload

\* One signed, transport-neutral unit of replication.
RecordEnvelope ==
    [dataset: Datasets, schemaVersion: Nat, recordID: RecordIDs,
     revision: Nat, updatedAt: Nat, originDevice: Devices,
     deleted: BOOLEAN,
     payload: Payloads \cup {NoPayload, EmptyPayload}]

\* One negotiated dataset of an authenticated peer.
Capability ==
    [dataset: Datasets, application: Applications, schemaVersion: Nat,
     read: BOOLEAN, write: BOOLEAN, delete: BOOLEAN]

-----------------------------------------------------------------------------

\* The envelope agrees with the negotiated capability.  An updatedAt of 0 is
\* Go's zero time.  Blank and oversized identifiers are not in RecordIDs.
ValidateRecord(record, capability) ==
    /\ record.dataset = capability.dataset
    /\ record.schemaVersion >= 1
    /\ record.schemaVersion = capability.schemaVersion
    /\ record.revision # 0
    /\ record.updatedAt # 0
    /\ IF record.deleted
       THEN capability.delete /\ record.payload \in {NoPayload, EmptyPayload}
       ELSE capability.write /\ record.payload # NoPayload

\* The record as a JSON file gives it back: "omitempty" leaves out a payload with
\* nothing in it, and a field that is not there stays nil.
Persisted(record) ==
    IF record.payload = EmptyPayload
    THEN [record EXCEPT !.payload = NoPayload] ELSE record

\* a wins over b by revision, then instant, then deletion, then origin device.
Supersedes(a, b) ==
    \/ a.revision > b.revision
    \/ /\ a.revision = b.revision
       /\ \/ a.updatedAt > b.updatedAt
          \/ /\ a.updatedAt = b.updatedAt
             /\ \/ a.deleted /\ ~b.deleted
                \/ /\ a.deleted = b.deleted
                   /\ a.originDevice > b.originDevice

\* Variant, last writer wins: the revisions are not looked at.
ResolveByTime(local, remote) ==
    IF remote.updatedAt >= local.updatedAt THEN "remote" ELSE "local"

\* Which of the stored and the arriving envelope a replica keeps.
ResolveConflict(local, remote) ==
    IF Supersedes(remote, local) THEN "remote"
    ELSE IF Supersedes(local, remote) THEN "local"
    ELSE "converged"

\* What a receipt remembers of the envelope besides its key and revision.
RecordDigest(record) ==
    <<record.dataset, record.recordID, record.updatedAt, record.originDevice>>

\* The instant of observation only orders the receipt file: it is left out.
ObservationReceipt(record, observer) ==
    [dataset |-> record.dataset, recordID |-> record.recordID,
     revision |-> record.revision, recordDigest |-> RecordDigest(record),
     observerDevice |-> observer]

ConvergenceConfirmed(record, requiredPeers, receipts) ==
    /\ record.deleted
    /\ requiredPeers # {}
    /\ \A peer \in requiredPeers :
          ObservationReceipt(record, peer) \in receipts

-----------------------------------------------------------------------------

\* Vocabulary of the properties: two envelopes of one record, and an envelope
\* that a replica may keep in place of another without losing an update.
SameRecord(a, b) == a.dataset = b.dataset /\ a.recordID = b.recordID

Covers(a, b) == SameRecord(a, b) /\ ~Supersedes(b, a)
=============================================================================
