----------------------------- MODULE Retrieval -----------------------------
(***************************************************************************)
(* Retrieval of one dataset page by page, and the store's file under it.   *)
(* A client asks for a page after its cursor until none is left; the store *)
(* holds its mutex for one page only, so records are accepted and          *)
(* tombstones compacted between any two pages.                             *)
(*                                                                         *)
(* The file is a JSON object: a sequence of envelopes, each under its      *)
(* record's identifier, as decoding gives them back.  An identifier is its *)
(* place in the order of the strings; the cursor 0 is the empty string.    *)
(* The evidence beside an envelope is in the module Ingest.                *)
(***************************************************************************)
EXTENDS Records, Listing, Sequences, SequencesExt, FiniteSetsExt

CONSTANTS
    Dataset,    \* the dataset of the store
    Envelopes,  \* envelopes that devices send, authorized
    Peers,      \* lists of capabilities that sessions have negotiated
    Limits,     \* page sizes that are asked for
    Clock,      \* retention cutoffs of compaction calls
    MaxScanned, \* bound: the longest file that is scanned out of order
    NoRecord

ASSUME RetrievalAssumption ==
    /\ RecordIDs \subseteq Nat \ {0} /\ IsFiniteSet(RecordIDs)
    /\ Datasets \subseteq Nat
    /\ Dataset \in Datasets
    /\ Envelopes \subseteq {e \in RecordEnvelope : e.dataset = Dataset}
    /\ Limits \subseteq 1 .. 1024
    /\ MaxScanned \in Nat
    /\ NoRecord \notin RecordEnvelope

VARIABLES
    file,   \* the store's file
    walk,   \* the client: whether it is at work, and its cursor
    got,    \* the envelopes it has received on this walk
    since   \* history: the records as this walk found them, if still there

vars == <<file, walk, got, since>>

C == INSTANCE Capabilities WITH
        Offers <- {}, MaxOffers <- 0, local <- <<>>, remote <- <<>>

Before(a, b) == a.recordID < b.recordID

Nothing == [i \in RecordIDs |-> NoRecord]

\* The envelopes that the file may have, before and after they were saved.
Stored == Envelopes \cup {Persisted(e) : e \in Envelopes}

-----------------------------------------------------------------------------

\* load: the map that the object decodes to.
Load(f) ==
    [i \in RecordIDs |->
        LET k == SelectLastInSeq(f, LAMBDA e : e.recordID = i)
        IN  IF k = 0 THEN NoRecord ELSE f[k]]

table == Load(file)

\* The records of a map that are in a set of identifiers.
Present(records, ids) == {records[i] : i \in ids} \ {NoRecord}

ByRecordID(S) == InOrder(S, [e \in S |-> e.recordID])

\* save: the keys are written in their order, and every record by the encoder.
Save(records) ==
    file' = ByRecordID({Persisted(e) : e \in Present(records, RecordIDs)})

\* BookmarkItemStore.AcceptAndPersist of an authorized record.
AcceptAndPersist(e) ==
    LET current == table[e.recordID]
    IN  /\ current # NoRecord => ResolveConflict(current, e) = "remote"
        /\ Save([table EXCEPT ![e.recordID] = e])
        /\ UNCHANGED <<walk, got, since>>

\* A tombstone whose retention has elapsed.
Expired(e, cutoff) == e.deleted /\ e.updatedAt <= cutoff

\* CompactTombstonesWithReceipts: any of the expired tombstones are confirmed.
Compact ==
    \E cutoff \in Clock :
    \E ids \in SUBSET {i \in RecordIDs : table[i] # NoRecord
                                          /\ Expired(table[i], cutoff)} :
        /\ ids # {}
        /\ Save([i \in RecordIDs |-> IF i \in ids THEN NoRecord ELSE table[i]])
        /\ since' = [i \in RecordIDs |-> IF i \in ids THEN NoRecord ELSE since[i]]
        /\ UNCHANGED <<walk, got>>

-----------------------------------------------------------------------------

\* Variant: a full window takes no more candidates.
RetainFirst(candidates, c, limit) ==
    IF Len(candidates) >= limit THEN candidates
    ELSE SortSeq(Append(candidates, c), Before)

\* Put a candidate in its place and drop what no longer fits.
RetainPageCandidate(candidates, c, limit) ==
    LET position == Cardinality({k \in DOMAIN candidates :
                                    Before(candidates[k], c)}) + 1
    IN  IF position <= Len(candidates)
           /\ candidates[position].recordID = c.recordID
        THEN [candidates EXCEPT ![position] = c]
        ELSE SubSeq(InsertAt(candidates, position, c),
                    1, Min({limit, Len(candidates) + 1}))

\* Variant: the cursor itself is included.
FromCursor(e, after) == e.recordID >= after

AfterCursor(e, after) == e.recordID > after

\* The scan of a whole file.
Candidates(f, after, limit) ==
    FoldLeft(LAMBDA cs, e : IF AfterCursor(e, after)
                            THEN RetainPageCandidate(cs, e, limit) ELSE cs,
             <<>>, f)

\* Variant: the window is no larger than the page.
WindowOfPage(limit) == limit

\* One more than the page, to know whether there is more.
Window(limit) == limit + 1

\* Every record of the file agrees with the capability.
ValidFile(capability, after, limit) ==
    \A k \in DOMAIN file : ValidateRecord(file[k], capability)

\* Variant: the session's own rights to write and delete count.
AsNegotiated(capability) == capability

\* What a reader's file is held against: others may have written and deleted.
ForValidation(capability) == [capability EXCEPT !.write = TRUE, !.delete = TRUE]

StartWalk ==
    /\ ~ walk.on
    /\ walk' = [on |-> TRUE, after |-> 0]
    /\ got' = <<>>
    /\ since' = table
    /\ UNCHANGED file

\* handleDatasetRetrieve: the peer may read, the file is valid, and the page
\* goes out with the next cursor, if there is more.  A request that fails changes
\* nothing, and can be made again.
Retrieve ==
    /\ walk.on
    /\ \E peer \in Peers, limit \in Limits :
       \E capability \in C!PeerReadCapability(peer, Dataset) :
          /\ ValidFile(ForValidation(capability), walk.after, limit)
          /\ \E candidates \in {Candidates(file, walk.after, Window(limit))} :
             \E page \in {SubSeq(candidates, 1, Min({limit, Len(candidates)}))} :
                /\ got' = got \o page
                /\ walk' = IF Len(candidates) > limit
                           THEN [walk EXCEPT !.after = Last(page).recordID]
                           ELSE [on |-> FALSE, after |-> 0]
    /\ UNCHANGED <<file, since>>

-----------------------------------------------------------------------------

Init ==
    /\ file = <<>>
    /\ walk = [on |-> FALSE, after |-> 0]
    /\ got = <<>>
    /\ since = Nothing

\* A file that something else than save has written.
ForeignFile ==
    /\ file \in UNION {[1 .. m -> Stored] : m \in 0 .. MaxScanned}
    /\ walk = [on |-> FALSE, after |-> 0]
    /\ got = <<>>
    /\ since = Nothing

Next ==
    \/ \E e \in Envelopes : AcceptAndPersist(e)
    \/ Compact
    \/ StartWalk
    \/ Retrieve

Spec == Init /\ [][Next]_vars

\* Some request for the next page would be answered: Retrieve is enabled.
Answerable ==
    /\ walk.on
    /\ \E peer \in Peers, limit \in Limits :
       \E capability \in C!PeerReadCapability(peer, Dataset) :
          ValidFile(ForValidation(capability), walk.after, limit)

\* The client asks on as long as it was given a cursor: weak fairness of
\* Retrieve, in the form that TLC evaluates without ENABLED.
AsksOn == []<>(~ Answerable) \/ []<><<Retrieve>>_vars

FairSpec == Spec /\ AsksOn

-----------------------------------------------------------------------------
(* Properties.                                                             *)

\* Every variable holds what the files and the answers can hold; a record has
\* one place in the file, and at most one in a walk.
TypeOK ==
    /\ file \in Seq(Stored) /\ Len(file) <= Cardinality(RecordIDs)
    /\ walk \in [on: BOOLEAN, after: RecordIDs \cup {0}]
    /\ got \in Seq(Stored) /\ Len(got) <= Cardinality(RecordIDs)
    /\ since \in [RecordIDs -> Stored \cup {NoRecord}]

Passed(i) == ~ walk.on \/ i <= walk.after

\* A client that walks the dataset, in pages of whatever sizes and with writes
\* and compactions between them, gets every record that was there throughout,
\* once and in order, and no older version than what was there when it started.
WalkIsComplete ==
    /\ \A j, k \in DOMAIN got : j < k => Before(got[j], got[k])
    /\ \A i \in RecordIDs : since[i] # NoRecord /\ Passed(i) =>
          \E k \in DOMAIN got : got[k].recordID = i /\ Covers(got[k], since[i])

\* The scan is right for files that save would not write, with their keys in any
\* order or more than once: what it keeps is the beginning of the map that the
\* file decodes to, in the order of the keys.
PageOf(records, after, limit) ==
    LET sorted == ByRecordID(Present(records, {i \in RecordIDs : i > after}))
    IN  SubSeq(sorted, 1, Min({limit, Len(sorted)}))
ScanNeedsNoOrder ==
    \A after \in RecordIDs \cup {0}, limit \in Limits :
        Candidates(file, after, limit) = PageOf(table, after, limit)

\* A walk comes to its end, however many writes go on beside it, unless the file
\* at some time has a record of a schema that no session reads, or a live record
\* that was left without its payload (StaysValid); what a reader itself may write
\* or delete does not matter.
Readable ==
    \E peer \in Peers : \E c \in C!PeerReadCapability(peer, Dataset) :
        \A k \in DOMAIN file : /\ file[k].schemaVersion = c.schemaVersion
                               /\ ~ file[k].deleted => file[k].payload # NoPayload
WalkEnds == walk.on ~> (~ walk.on \/ ~ Readable)

\* protocol/README.md: "Live records must contain application payload".  What was
\* authorized before it was stored is still valid when the store's file is read,
\* for a session of its schema with every right.
StaysValid ==
    \A k \in DOMAIN file :
        ValidateRecord(file[k], [dataset |-> Dataset,
                                 schemaVersion |-> file[k].schemaVersion,
                                 read |-> TRUE, write |-> TRUE, delete |-> TRUE])

-----------------------------------------------------------------------------
(* The inductive invariant of Spec.                                        *)

\* save leaves envelopes that were accepted, each record's once and in order.
FileInv ==
    /\ file \in Seq(Stored)
    /\ \A j, k \in DOMAIN file : j < k => Before(file[j], file[k])

\* What the client has was accepted too, and lies behind its cursor.
GotInv ==
    /\ got \in Seq(Stored)
    /\ walk \in [on: BOOLEAN, after: RecordIDs \cup {0}]
    /\ walk.on => \A k \in DOMAIN got : got[k].recordID <= walk.after

\* A record that the walk found is still there, in a version that is not older.
SinceInv ==
    /\ since \in [RecordIDs -> Stored \cup {NoRecord}]
    /\ \A i \in RecordIDs : since[i] # NoRecord =>
          table[i] # NoRecord /\ Covers(table[i], since[i])

RetrievalInv == FileInv /\ GotInv /\ SinceInv /\ WalkIsComplete
=============================================================================
