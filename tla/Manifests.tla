----------------------------- MODULE Manifests -----------------------------
(***************************************************************************)
(* The descriptions that payload transfers are checked against:            *)
(* internal/transfer/manifest.go and the records of protocol.go.  A        *)
(* manifest is made from a payload by cutting it into chunks; Validate     *)
(* looks at a manifest alone, VerifyPayload holds it against a stream.     *)
(*                                                                         *)
(* The state is the offer its sender made, the offer its receiver holds,   *)
(* and the stream of bytes held against it.  They start as a payload and a *)
(* description of it, made by this code or by another program, and then    *)
(* drift apart, a field or a byte at a time.                               *)
(***************************************************************************)
EXTENDS Integers, SequencesExt, FiniteSetsExt

CONSTANTS
    Bytes,              \* the values a byte may have
    DefaultChunkSize,   \* the largest chunk (1 MiB in the code)
    MaxLen,             \* bound: the longest payload
    MaxChanges          \* bound: changes to the offer and the stream

ASSUME ManifestAssumption ==
    /\ Bytes # {}
    /\ DefaultChunkSize \in Nat \ {0}
    /\ MaxLen \in Nat /\ MaxChanges \in Nat

VARIABLES
    sent,       \* the sender's offer
    held,       \* the offer the receiver holds
    reader,     \* the stream: its bytes, and whether it breaks after them
    changes     \* how often the last two were changed

manifestVars == <<sent, held, reader, changes>>

Payload == BoundedSeq(Bytes, MaxLen)

\* SHA-256 is taken as one-to-one: a digest is the bytes it is of.  Some
\* strings are no digest at all.
Hash(data) == [hex |-> TRUE, of |-> data]
NotADigest == [hex |-> FALSE, of |-> <<>>]
ValidDigest(h) == h.hex

\* A name that validateFilename accepts, and one that it does not.
Leaf == "leaf"
NotALeaf == ".."

Failed == [version |-> 0]
ManifestVersion == 1

\* The running totals of a sequence of numbers.
Totals(s) ==
    LET total[k \in 0 .. Len(s)] == IF k = 0 THEN 0 ELSE total[k - 1] + s[k]
    IN  total
Sum(s) == Totals(s)[Len(s)]
Sizes(m) == [i \in DOMAIN m.chunks |-> m.chunks[i].size]

\* io.ReadFull: up to n bytes, and why there were fewer.
ReadFull(r, n) ==
    [data |-> SubSeq(r.bytes, 1, IF n <= Len(r.bytes) THEN n ELSE Len(r.bytes)),
     rest |-> [bytes |-> SubSeq(r.bytes, n + 1, Len(r.bytes)), breaks |-> r.breaks],
     err |-> IF n <= Len(r.bytes) THEN "nil"
             ELSE IF r.breaks THEN "error"
             ELSE IF r.bytes = <<>> THEN "EOF" ELSE "ErrUnexpectedEOF"]

ValidChunkSize(n) == n \in 1 .. DefaultChunkSize

(***************************************************************************)
(* The code.                                                               *)
(***************************************************************************)

\* Variant of ValidChunkAt: a chunk before the last may be short too.
UnevenChunkAt(m, i) ==
    /\ m.chunks[i].index = i - 1
    /\ m.chunks[i].size \in 1 .. m.chunkSize
    /\ ValidDigest(m.chunks[i].hash)

\* Manifest.Validate, of the chunk at one position.
ValidChunkAt(m, i) ==
    /\ m.chunks[i].index = i - 1
    /\ m.chunks[i].size \in 1 .. m.chunkSize
    /\ i < Len(m.chunks) => m.chunks[i].size = m.chunkSize
    /\ ValidDigest(m.chunks[i].hash)

ExpectedChunks(m) ==
    (m.size \div m.chunkSize) + (IF m.size % m.chunkSize = 0 THEN 0 ELSE 1)

\* Variant of ValidChunks: the sizes are not added up.
UncountedChunks(m) ==
    /\ m.chunks # <<>> /\ Len(m.chunks) = ExpectedChunks(m)
    /\ \A i \in DOMAIN m.chunks : ValidChunkAt(m, i)

ValidChunks(m) ==
    /\ m.chunks # <<>> /\ Len(m.chunks) = ExpectedChunks(m)
    /\ \A i \in DOMAIN m.chunks : ValidChunkAt(m, i)
    /\ Sum(Sizes(m)) = m.size

\* Manifest.Validate.
Validate(m) ==
    /\ m.version = ManifestVersion
    /\ m.filename = Leaf
    /\ m.size >= 0
    /\ ValidChunkSize(m.chunkSize)
    /\ ValidDigest(m.hash)
    /\ IF m.size = 0
       THEN m.chunks = <<>> /\ m.hash = Hash(<<>>)
       ELSE ValidChunks(m)

\* One turn of BuildManifest's loop.
ReadChunk(loop, chunkSize) ==
    LET got == ReadFull(loop.rest, chunkSize)
        chunk == [index |-> Len(loop.chunks), size |-> Len(got.data),
                  hash |-> Hash(got.data)]
    IN  [rest |-> got.rest, err |-> got.err,
         chunks |-> IF got.data = <<>> THEN loop.chunks
                    ELSE Append(loop.chunks, chunk)]

\* BuildManifest reads chunk after chunk until the stream has no full one, which
\* takes no more turns than the stream has bytes, and one.
ReadChunks(r, chunkSize) ==
    LET after[k \in 0 .. Len(r.bytes) + 1] ==
            IF k = 0 THEN [rest |-> r, err |-> "nil", chunks |-> <<>>]
            ELSE IF after[k - 1].err # "nil" THEN after[k - 1]
            ELSE ReadChunk(after[k - 1], chunkSize)
    IN  after[Len(r.bytes) + 1]

BuildManifest(filename, r, chunkSize) ==
    IF filename # Leaf \/ ~ValidChunkSize(chunkSize) THEN Failed
    ELSE LET read == ReadChunks(r, chunkSize)
             m == [version |-> ManifestVersion, filename |-> filename,
                   size |-> Sum(Sizes(read)), chunkSize |-> chunkSize,
                   hash |-> Hash(r.bytes), chunks |-> read.chunks]
         IN  IF read.err \in {"EOF", "ErrUnexpectedEOF"} /\ Validate(m)
             THEN m ELSE Failed

VerifyChunk(expected, data) ==
    /\ expected.index >= 0
    /\ expected.size \in 1 .. DefaultChunkSize
    /\ ValidDigest(expected.hash)
    /\ Len(data) = expected.size
    /\ Hash(data) = expected.hash

\* One turn of VerifyPayload's loop, which ends when a chunk is not as expected.
ReadExpected(loop, expected) ==
    LET got == ReadFull(loop.rest, expected.size)
    IN  [rest |-> got.rest,
         ok |-> got.err = "nil" /\ VerifyChunk(expected, got.data)]

VerifyChunks(chunks, r) ==
    LET after[k \in 0 .. Len(chunks)] ==
            IF k = 0 THEN [rest |-> r, ok |-> TRUE]
            ELSE IF ~ after[k - 1].ok THEN after[k - 1]
            ELSE ReadExpected(after[k - 1], chunks[k])
    IN  after[Len(chunks)]

\* VerifyPayload, with what it leaves unread of the stream.
VerifyPayload(m, r) ==
    IF ~Validate(m) THEN [ok |-> FALSE, rest |-> r]
    ELSE LET read == VerifyChunks(m.chunks, r)
             more == ReadFull(read.rest, 1)
         IN  [ok |-> /\ read.ok
                     /\ more.err = "EOF"
                     /\ Hash(SubSeq(r.bytes, 1, m.size)) = m.hash,
              rest |-> IF read.ok THEN more.rest ELSE read.rest]

\* PayloadOffer.Validate; an offer whose identifier or kind is not well formed
\* has 0 or "other" there.
PayloadProtocolVersion == 1
ValidOffer(o) ==
    /\ o.version = PayloadProtocolVersion
    /\ o.id # 0
    /\ o.kind \in {"file", "text"}
    /\ Validate(o.manifest)

VerifiedPayloadReceipt(o) ==
    [version |-> PayloadProtocolVersion, id |-> o.id, status |-> "verified",
     size |-> o.manifest.size, hash |-> o.manifest.hash]

\* Variant of ReceiptValidFor: the size stands for the payload.
ReceiptOfTheSize(receipt, o) ==
    /\ receipt.version = PayloadProtocolVersion
    /\ receipt.id # 0 /\ receipt.id = o.id
    /\ receipt.status = "verified"
    /\ receipt.size = o.manifest.size

\* PayloadReceipt.ValidateFor
ReceiptValidFor(receipt, o) ==
    /\ receipt.version = PayloadProtocolVersion
    /\ receipt.id # 0 /\ receipt.id = o.id
    /\ receipt.status = "verified"
    /\ receipt.size = o.manifest.size
    /\ receipt.hash = o.manifest.hash

(***************************************************************************)
(* What is held against what.                                              *)
(***************************************************************************)

\* A description by another program: any cut into chunks, honest digests.
Cuts(n) == {s \in BoundedSeq(1 .. DefaultChunkSize + 1, MaxLen) : Sum(s) = n}
Described(p, chunkSize, cut) ==
    LET upTo == Totals(cut)
    IN  [version |-> ManifestVersion, filename |-> Leaf, size |-> Len(p),
         chunkSize |-> chunkSize, hash |-> Hash(p),
         chunks |-> [i \in DOMAIN cut |->
             [index |-> i - 1, size |-> cut[i],
              hash |-> Hash(SubSeq(p, upTo[i - 1] + 1, upTo[i]))]]]

Manifests(p) ==
    {BuildManifest(Leaf, [bytes |-> p, breaks |-> FALSE], c) :
        c \in 1 .. DefaultChunkSize}
    \cup UNION {{Described(p, c, cut) : cut \in Cuts(Len(p))} :
                    c \in 0 .. DefaultChunkSize + 1}

ManifestInit ==
    /\ \E p \in Payload : \E m \in Manifests(p) :
         /\ sent = [version |-> PayloadProtocolVersion, id |-> 1,
                    kind |-> "file", manifest |-> m]
         /\ reader = [bytes |-> p, breaks |-> FALSE]
    /\ held = sent
    /\ changes = 0

Change == changes < MaxChanges /\ changes' = changes + 1 /\ UNCHANGED sent

\* The offer is another one in one of its fields.
ChangeOffer ==
    /\ Change
    /\ \/ \E v \in {0, 2} : held' = [held EXCEPT !.version = v]
       \/ \E i \in {0, 2} : held' = [held EXCEPT !.id = i]
       \/ \E k \in {"text", "other"} : held' = [held EXCEPT !.kind = k]
    /\ UNCHANGED reader

\* So is the manifest, or it is that of another payload.
ChangeManifest ==
    /\ Change
    /\ \E m \in {[held.manifest EXCEPT !.version = 2],
                 [held.manifest EXCEPT !.filename = NotALeaf]}
            \cup {[held.manifest EXCEPT !.size = n] : n \in -1 .. MaxLen}
            \cup {[held.manifest EXCEPT !.hash = h] :
                     h \in {NotADigest} \cup {Hash(p) : p \in Payload}}
            \cup {[held.manifest EXCEPT !.chunks = Append(@, c)] :
                     c \in Range(held.manifest.chunks)}
            \cup {Described(p, held.manifest.chunkSize, Sizes(held.manifest)) :
                     p \in {q \in Payload : Len(q) = Sum(Sizes(held.manifest))}} :
         held' = [held EXCEPT !.manifest = m]
    /\ UNCHANGED reader

ChangeChunk ==
    /\ Change
    /\ \E i \in DOMAIN held.manifest.chunks :
         \E c \in {[held.manifest.chunks[i] EXCEPT !.index = -1],
                   [held.manifest.chunks[i] EXCEPT !.size = 0],
                   [held.manifest.chunks[i] EXCEPT !.hash = NotADigest]}
                \cup {[held.manifest.chunks[i] EXCEPT !.hash = Hash(<<b>>)] :
                         b \in Bytes} :
           held' = [held EXCEPT !.manifest.chunks[i] = c]
    /\ UNCHANGED reader

\* The stream has another byte, one more or one less, or breaks.
ChangeStream ==
    /\ Change
    /\ \/ \E i \in DOMAIN reader.bytes, b \in Bytes :
            reader' = [reader EXCEPT !.bytes[i] = b]
       \/ \E b \in Bytes : /\ Len(reader.bytes) <= MaxLen
                           /\ reader' = [reader EXCEPT !.bytes = Append(@, b)]
       \/ /\ reader.bytes # <<>>
          /\ reader' = [reader EXCEPT !.bytes = Front(@)]
       \/ reader' = [reader EXCEPT !.breaks = TRUE]
    /\ UNCHANGED held

ManifestNext == ChangeOffer \/ ChangeManifest \/ ChangeChunk \/ ChangeStream

ManifestSpec == ManifestInit /\ [][ManifestNext]_manifestVars

(***************************************************************************)
(* Properties.                                                             *)
(***************************************************************************)

\* VerifyPayload and BuildManifest read streams in different ways, one by the
\* sizes of the manifest and one by the chunk size: a stream passes exactly if
\* its own manifest would be this one, so that no payload has two manifests
\* with one chunk size and no manifest two payloads.  When it passes the stream
\* was read to its end, so that what a TeeReader wrote on the side is the
\* payload and nothing else.
VerifiesItsOwnPayload ==
    LET m == held.manifest
        v == VerifyPayload(m, reader)
    IN  /\ v.ok <=> BuildManifest(m.filename, reader, m.chunkSize) = m
        /\ v.ok => /\ v.rest.bytes = <<>> /\ ~reader.breaks
                   /\ Len(reader.bytes) = m.size

\* Validate sees a manifest without its payload, and accepts exactly the shapes
\* that BuildManifest gives to some payload.
Shape(m) ==
    [version |-> m.version, filename |-> m.filename, size |-> m.size,
     chunkSize |-> m.chunkSize,
     chunks |-> [i \in DOMAIN m.chunks |->
                    [index |-> m.chunks[i].index, size |-> m.chunks[i].size]]]
ValidatesWhatCanBeBuilt ==
    LET m == held.manifest
        digests == /\ ValidDigest(m.hash) /\ (m.size = 0 => m.hash = Hash(<<>>))
                   /\ \A i \in DOMAIN m.chunks : ValidDigest(m.chunks[i].hash)
        payloads == {p \in Payload : Len(p) = m.size}
    IN  Validate(m) <=>
          /\ digests
          /\ \E p \in payloads, c \in 1 .. DefaultChunkSize :
               LET b == BuildManifest(Leaf, [bytes |-> p, breaks |-> FALSE], c)
               IN  Shape(b) = Shape(m)

\* A receipt names a transfer, a size and a digest, and neither the chunks nor
\* the name: it still vouches for one payload.  What was sent under the receipt
\* is what verifies for any offer the receipt is valid for.
ReceiptVouchesForThePayload ==
    /\ ValidOffer(sent) /\ ValidOffer(held)
    /\ ReceiptValidFor(VerifiedPayloadReceipt(sent), held)
    /\ VerifyPayload(held.manifest, reader).ok
    => /\ held.id = sent.id
       /\ Hash(reader.bytes) = sent.manifest.hash

(***************************************************************************)
(* The inductive invariant: every change leaves an offer, well formed as a *)
(* record, and a stream.                                                   *)
(***************************************************************************)
Digest == [hex: BOOLEAN, of: Seq(Bytes)]
Stream == [bytes: Seq(Bytes), breaks: BOOLEAN]
ChunkRecord == [index: Int, size: Nat, hash: Digest]
ManifestRecord ==
    [version: {1, 2}, filename: {Leaf, NotALeaf}, size: -1 .. MaxLen,
     chunkSize: Nat, hash: Digest, chunks: Seq(ChunkRecord)]
OfferRecord ==
    [version: 0 .. 2, id: 0 .. 2, kind: {"file", "text", "other"},
     manifest: ManifestRecord]
ManifestInv == sent \in OfferRecord /\ held \in OfferRecord /\ reader \in Stream
=============================================================================
