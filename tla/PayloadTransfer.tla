---------------------------- MODULE PayloadTransfer ----------------------------
(***************************************************************************)
(* Two nodes and the one connection between them: SendTransferPayload on   *)
(* one, ReceiveTransferPayload on the other, both through                  *)
(* SecurePeerFactory, whose checkpoints close the peer when its trust is   *)
(* gone.  The connection is used for one transfer after another, until one *)
(* end closes it or the link goes; then the nodes may open a new one.      *)
(*                                                                         *)
(* A frame is the message it carries: the stream is ordered, TLS delivers  *)
(* no altered or repeated bytes, and a frame cut short is a frame lost.    *)
(* What is in flight when the connection ends may arrive, or be lost from  *)
(* the end.  Transfer IDs are random: they are the elements of Transfers.  *)
(***************************************************************************)
EXTENDS Naturals, SequencesExt

CONSTANTS
    Transfers,  \* payload offers the sender's application has
    Chunks,     \* how many chunks the manifest of each declares, maybe none
    Faults      \* what may go wrong: subset of {"source", "staging", "link"}

ASSUME TransferAssumption ==
    /\ Chunks \in [Transfers -> Nat]
    /\ Faults \subseteq {"source", "staging", "link"}

Sides == {"sender", "receiver"}
Other(s) == IF s = "sender" THEN "receiver" ELSE "sender"

VARIABLES
    party,       \* where the call on each side is, its transfer and chunk
    open,        \* PeerConn not closed, per side
    up,          \* the link underneath carries data
    wire,        \* frames on their way to each side
    trusted,     \* whether each side's registry trusts the other now
    staged,      \* chunks in the last staging destination of each transfer
    authorized,  \* history: transfers the receiver's application allowed
    delivered,   \* history: transfers whose sender took a valid receipt
    late         \* history: chunks moved by each side since it lost trust

conn == <<open, up, wire>>
history == <<authorized, delivered>>
vars == <<party, conn, trusted, staged, history, late>>

Offer(t) == [kind |-> "offer", id |-> t]
Decision(t, accepted) == [kind |-> "decision", id |-> t, accepted |-> accepted]
Chunk(t, i) == [kind |-> "chunk", id |-> t, index |-> i]
Completion(t) == [kind |-> "completion", id |-> t]
Receipt(t) == [kind |-> "receipt", id |-> t]

Frame ==
    UNION {{Offer(t), Completion(t), Receipt(t),
            Decision(t, TRUE), Decision(t, FALSE)}
           \cup {Chunk(t, i) : i \in 1 .. Chunks[t]} : t \in Transfers}

\* Chunk next is the one a call is at; the calls count from 1.
Idle == [pc |-> "idle"]
Waiting == [pc |-> "offer"]
At(pc, t, i) == [pc |-> pc, id |-> t, next |-> i]
SenderAt ==
    {"announce", "decision", "source", "send", "completion", "receipt", "confirm"}
ReceiverAt ==
    {"authorize", "decide", "chunk", "stage", "write", "receipt", "confirm"}
Calls(pcs) ==
    UNION {{At(pc, t, i) : pc \in pcs, i \in 1 .. Chunks[t] + 1} : t \in Transfers}

Init ==
    /\ party = [s \in Sides |-> Idle]
    /\ open = [s \in Sides |-> TRUE]
    /\ up = TRUE
    /\ wire = [s \in Sides |-> <<>>]
    /\ trusted = [s \in Sides |-> TRUE]
    /\ staged = [t \in Transfers |-> <<>>]
    /\ authorized = {}
    /\ delivered = {}
    /\ late = [s \in Sides |-> 0]

Live == up /\ \A s \in Sides : open[s]

-----------------------------------------------------------------------------
(* The connection, as a call sees it.                                      *)

Goto(s, place) == party' = [party EXCEPT ![s] = place]

\* PeerConn.Close: what was on its way to this side is gone.
Close(s) ==
    /\ open' = [open EXCEPT ![s] = FALSE]
    /\ wire' = [wire EXCEPT ![s] = <<>>]
    /\ UNCHANGED up

\* Variant: the call fails and leaves the connection open.
FailOpen(s) == Goto(s, Idle) /\ UNCHANGED conn

\* failPayloadTransfer: the call returns an error, the peer is closed.
Fail(s) == Goto(s, Idle) /\ Close(s)

\* A frame is written in full and the call goes on to place.  On a connection
\* that has ended the write may still seem to succeed; the frame is lost.
Write(s, frame, place) ==
    \/ /\ open[s]
       /\ Goto(s, place)
       /\ wire' = IF Live THEN [wire EXCEPT ![Other(s)] = Append(@, frame)]
                          ELSE wire
       /\ UNCHANGED <<open, up>>
    \/ ~Live /\ Fail(s)

\* Variant: that the other end closed the connection is not noticed.
LinkDown == ~up

\* A read that waits on this connection fails in the end.
Ended == ~Live

\* The next frame is read; place says, for each frame that would do, where the
\* call goes on.  Any other frame does not decode or does not match the offer,
\* and fails the call, as does a connection that has ended.
Read(s, place) ==
    \/ /\ open[s]
       /\ wire[s] # <<>>
       /\ Head(wire[s]) \in DOMAIN place
       /\ Goto(s, place[Head(wire[s])])
       /\ wire' = [wire EXCEPT ![s] = Tail(@)]
       /\ UNCHANGED <<open, up>>
    \/ /\ IF open[s] /\ wire[s] # <<>> THEN Head(wire[s]) \notin DOMAIN place
                                       ELSE Ended
       /\ Fail(s)

\* Variant: a checkpoint that passes whatever the registry says.
Unchecked(s) == TRUE

TrustConfirmed(s) == trusted[s]

\* RevalidatePeer: whether the connection is open is not asked.
Checkpoint(s, place) ==
    \/ TrustConfirmed(s) /\ Goto(s, place) /\ UNCHANGED conn
    \/ ~TrustConfirmed(s) /\ Fail(s)

\* A chunk moves although the last checkpoint's answer may be outdated.
Moved(s) == late' = [late EXCEPT ![s] = IF trusted[s] THEN 0 ELSE @ + 1]

-----------------------------------------------------------------------------
(* SendTransferPayload.                                                    *)

\* The first checkpoint, and the transport's own test that the peer is open.
StartSend(t) ==
    /\ party["sender"] = Idle
    /\ IF open["sender"] THEN Checkpoint("sender", At("announce", t, 1))
                         ELSE Fail("sender")
    /\ UNCHANGED <<trusted, staged, history, late>>

SendOffer ==
    LET c == party["sender"]
    IN  /\ c.pc = "announce"
        /\ Write("sender", Offer(c.id), At("decision", c.id, 1))
        /\ UNCHANGED <<trusted, staged, history, late>>

\* A rejection ends the call with an error, and leaves the connection open.
AfterDecision(t, accepted) == IF accepted THEN At("source", t, 1) ELSE Idle

TakeDecision ==
    LET c == party["sender"]
    IN  /\ c.pc = "decision"
        /\ Read("sender", [f \in {Decision(c.id, b) : b \in BOOLEAN} |->
                              AfterDecision(c.id, f.accepted)])
        /\ UNCHANGED <<trusted, staged, history, late>>

\* The source is read behind a checkpoint and verified against the manifest,
\* chunk by chunk and then for trailing data and the whole hash.
ReadSource ==
    LET c == party["sender"]
    IN  /\ c.pc = "source"
        /\ \/ IF c.next <= Chunks[c.id]
              THEN Checkpoint("sender", At("send", c.id, c.next))
              ELSE Checkpoint("sender", At("completion", c.id, c.next))
           \/ "source" \in Faults /\ Fail("sender")
        /\ UNCHANGED <<trusted, staged, history, late>>

SendChunk ==
    LET c == party["sender"]
    IN  /\ c.pc = "send"
        /\ Write("sender", Chunk(c.id, c.next), At("source", c.id, c.next + 1))
        /\ Moved("sender")
        /\ UNCHANGED <<trusted, staged, history>>

SendCompletion ==
    LET c == party["sender"]
    IN  /\ c.pc = "completion"
        /\ Write("sender", Completion(c.id), At("receipt", c.id, c.next))
        /\ UNCHANGED <<trusted, staged, history, late>>

TakeReceipt ==
    LET c == party["sender"]
    IN  /\ c.pc = "receipt"
        /\ Read("sender", [f \in {Receipt(c.id)} |-> At("confirm", c.id, c.next)])
        /\ delivered' = IF party'["sender"] = Idle THEN delivered
                                                   ELSE delivered \cup {c.id}
        /\ UNCHANGED <<trusted, staged, authorized, late>>

\* The last checkpoint; then the receipt is returned.
ConfirmSend ==
    /\ party["sender"].pc = "confirm"
    /\ Checkpoint("sender", Idle)
    /\ UNCHANGED <<trusted, staged, history, late>>

-----------------------------------------------------------------------------
(* ReceiveTransferPayload.                                                 *)

StartReceive ==
    /\ party["receiver"] = Idle
    /\ IF open["receiver"] THEN Checkpoint("receiver", Waiting)
                           ELSE Fail("receiver")
    /\ UNCHANGED <<trusted, staged, history, late>>

TakeOffer ==
    /\ party["receiver"].pc = "offer"
    /\ Read("receiver", [f \in {Offer(t) : t \in Transfers} |->
                            At("authorize", f.id, 1)])
    /\ UNCHANGED <<trusted, staged, history, late>>

\* The guarded authorizer's checkpoint: a peer that it closes is sent nothing.
GuardAuthorize ==
    LET c == party["receiver"]
    IN  /\ c.pc = "authorize"
        /\ Checkpoint("receiver", At("decide", c.id, 1))
        /\ UNCHANGED <<trusted, staged, history, late>>

\* The application decides and its decision is sent; an accepted transfer has
\* a fresh destination.  A peer closed meanwhile gets no rejection.
Decide ==
    LET c == party["receiver"]
    IN  /\ c.pc = "decide"
        /\ \/ /\ Write("receiver", Decision(c.id, TRUE), At("chunk", c.id, 1))
              /\ authorized' = authorized \cup {c.id}
              /\ staged' = [staged EXCEPT ![c.id] = <<>>]
           \/ /\ Write("receiver", Decision(c.id, FALSE), Idle)
              /\ UNCHANGED <<staged, authorized>>
        /\ UNCHANGED <<trusted, delivered, late>>

MoreChunks(c) == c.next <= Chunks[c.id]

\* The next chunk is read and verified, or after the last one the completion.
TakeChunk ==
    LET c == party["receiver"]
    IN  /\ c.pc = "chunk"
        /\ MoreChunks(c)
        /\ Read("receiver", [f \in {Chunk(c.id, c.next)} |->
                                At("stage", c.id, c.next)])
        /\ UNCHANGED <<trusted, staged, history, late>>

TakeCompletion ==
    LET c == party["receiver"]
    IN  /\ c.pc = "chunk"
        /\ ~MoreChunks(c)
        /\ Read("receiver", [f \in {Completion(c.id)} |->
                                At("receipt", c.id, c.next)])
        /\ UNCHANGED <<trusted, staged, history, late>>

\* currentTrustWriter: a checkpoint, then the write to the destination, which
\* may fail half way.
GuardStaging ==
    LET c == party["receiver"]
    IN  /\ c.pc = "stage"
        /\ Checkpoint("receiver", At("write", c.id, c.next))
        /\ UNCHANGED <<trusted, staged, history, late>>

\* Variant: the error of a write is not looked at.
WriteErrorIgnored(c) ==
    Goto("receiver", At("chunk", c.id, c.next + 1)) /\ UNCHANGED conn

StagingFails(c) == Fail("receiver")

StageChunk ==
    LET c == party["receiver"]
    IN  /\ c.pc = "write"
        /\ \/ /\ staged' = [staged EXCEPT ![c.id] = Append(@, c.next)]
              /\ Goto("receiver", At("chunk", c.id, c.next + 1))
              /\ Moved("receiver")
              /\ UNCHANGED conn
           \/ /\ "staging" \in Faults
              /\ StagingFails(c)
              /\ UNCHANGED <<staged, late>>
        /\ UNCHANGED <<trusted, history>>

SendReceipt ==
    LET c == party["receiver"]
    IN  /\ c.pc = "receipt"
        /\ Write("receiver", Receipt(c.id), At("confirm", c.id, c.next))
        /\ UNCHANGED <<trusted, staged, history, late>>

ConfirmReceive ==
    /\ party["receiver"].pc = "confirm"
    /\ Checkpoint("receiver", Idle)
    /\ UNCHANGED <<trusted, staged, history, late>>

-----------------------------------------------------------------------------
(* What the nodes do besides, and the link.                                *)

\* A node's registry gains or loses its trust in the other node.
ChangeTrust(s) ==
    /\ trusted' = [trusted EXCEPT ![s] = ~@]
    /\ late' = [late EXCEPT ![s] = 0]
    /\ UNCHANGED <<party, conn, staged, history>>

\* Another goroutine of the node closes the peer.
HangUp(s) ==
    /\ open[s]
    /\ Close(s)
    /\ UNCHANGED <<party, trusted, staged, history, late>>

Cut ==
    /\ "link" \in Faults
    /\ up
    /\ up' = FALSE
    /\ UNCHANGED <<party, open, wire, trusted, staged, history, late>>

\* A connection that has ended loses what it has not delivered.
Lose(s) ==
    /\ ~Live
    /\ wire[s] # <<>>
    /\ wire' = [wire EXCEPT ![s] = Front(@)]
    /\ UNCHANGED <<party, open, up, trusted, staged, history, late>>

\* Both nodes have given the connection up, and a new one is made.
Reconnect ==
    /\ ~Live
    /\ \A s \in Sides : party[s] = Idle
    /\ open' = [s \in Sides |-> TRUE]
    /\ up' = TRUE
    /\ wire' = [s \in Sides |-> <<>>]
    /\ UNCHANGED <<party, trusted, staged, history, late>>

SenderStep ==
    \/ SendOffer
    \/ TakeDecision
    \/ ReadSource
    \/ SendChunk
    \/ SendCompletion
    \/ TakeReceipt
    \/ ConfirmSend

ReceiverStep ==
    \/ TakeOffer
    \/ GuardAuthorize
    \/ Decide
    \/ TakeChunk
    \/ TakeCompletion
    \/ GuardStaging
    \/ StageChunk
    \/ SendReceipt
    \/ ConfirmReceive

Next ==
    \/ \E t \in Transfers : StartSend(t)
    \/ StartReceive
    \/ SenderStep
    \/ ReceiverStep
    \/ \E s \in Sides : ChangeTrust(s) \/ HangUp(s) \/ Lose(s)
    \/ Cut
    \/ Reconnect

Spec == Init /\ [][Next]_vars

\* A goroutine that can run does run; callbacks, sources and destinations
\* return.  A read on a connection that has ended fails in the end, also when
\* nothing was heard of it: Go's TCP connections send keep-alive probes.
Fairness == WF_vars(SenderStep) /\ WF_vars(ReceiverStep)

FairSpec == Spec /\ Fairness

-----------------------------------------------------------------------------
(* Properties.                                                             *)

\* Every variable holds what the Go types can hold.
TypeOK ==
    /\ party \in [Sides -> {Idle, Waiting} \cup Calls(SenderAt \cup ReceiverAt)]
    /\ party["sender"] \in {Idle} \cup Calls(SenderAt)
    /\ party["receiver"] \in {Idle, Waiting} \cup Calls(ReceiverAt)
    /\ open \in [Sides -> BOOLEAN]
    /\ up \in BOOLEAN
    /\ wire \in [Sides -> Seq(Frame)]
    /\ trusted \in [Sides -> BOOLEAN]
    /\ staged \in [Transfers -> Seq(Nat)]
    /\ authorized \subseteq Transfers
    /\ delivered \subseteq Transfers
    /\ late \in [Sides -> Nat]

\* The frames that a side could make use of next.
Awaited(s) ==
    LET c == party[s]
        offers == {Offer(t) : t \in Transfers}
        nextChunk(i) == IF i <= Chunks[c.id] THEN {Chunk(c.id, i)}
                                             ELSE {Completion(c.id)}
    IN  IF s = "sender"
        THEN IF c.pc = "decision" THEN {Decision(c.id, b) : b \in BOOLEAN}
             ELSE IF c.pc = "receipt" THEN {Receipt(c.id)}
             ELSE {}
        ELSE IF c.pc \in {"idle", "offer", "confirm"} THEN offers
             ELSE IF c.pc = "chunk" THEN nextChunk(c.next)
             ELSE IF c.pc \in {"stage", "write"} THEN nextChunk(c.next + 1)
             ELSE {}

\* docs/TRANSFER-PROTOCOL.md: a failure closes the peer "so a potentially
\* desynchronized stream is not silently reused".  As long as a side is open,
\* the frame it reads next belongs to the transfer and the place it is at, after
\* any number of transfers, rejections and failures.
StreamInStep ==
    \A s \in Sides : open[s] /\ wire[s] # <<>> => Head(wire[s]) \in Awaited(s)

\* "The receiver must explicitly accept the offer before any payload bytes are
\* sent": chunks are on the wire only towards a call that accepted this offer.
AcceptedBeforePayload ==
    \A f \in ToSet(wire["receiver"]) : f.kind = "chunk" =>
        /\ party["receiver"].pc \in {"chunk", "stage", "write"}
        /\ party["receiver"].id = f.id

Complete(t) == staged[t] = [i \in 1 .. Chunks[t] |-> i]

\* A call that holds the receipt, on either side, speaks of a destination that
\* has every chunk of the manifest, once and in order: the receiver may publish
\* it and the sender may report success.
ReceiptMeansStaged ==
    \A s \in Sides : party[s].pc = "confirm" => Complete(party[s].id)

\* docs/TRANSFER-PROTOCOL.md: revocation "stops later work" at a checkpoint.
\* After a node has lost its trust in the other it sends or stages one more
\* chunk at most, whatever transfers are tried.
OneLateChunk == \A s \in Sides : late[s] <= 1

\* A call returns: if the other side keeps coming back to the connection, or
\* the connection ends, nobody waits for ever.  (The payload protocol sets no
\* deadlines: without the premise a call may wait for ever.)
CallsReturn ==
    \A s \in Sides :
        []<>(party[Other(s)] # Idle \/ ~Live)
            => (party[s] # Idle ~> party[s] = Idle)

-----------------------------------------------------------------------------
(* The inductive invariant behind them.                                    *)

Receiving == {"chunk", "stage", "write"}
BetweenTransfers == {"idle", "offer", "confirm"}

\* The chunk that the receiver reads next, and the frames it reads from then on.
NextToRead(c) == IF c.pc = "chunk" THEN c.next ELSE c.next + 1
Remaining(c, j) ==
    IF NextToRead(c) + j - 1 <= Chunks[c.id]
    THEN Chunk(c.id, NextToRead(c) + j - 1)
    ELSE Completion(c.id)

\* Where a call is agrees with the number of chunks.
PlacesInv ==
    LET S == party["sender"]
        R == party["receiver"]
    IN  /\ S.pc = "send" => S.next <= Chunks[S.id]
        /\ S.pc = "completion" => S.next = Chunks[S.id] + 1
        /\ R.pc \in {"stage", "write"} => R.next <= Chunks[R.id]
        /\ R.pc \in {"receipt", "confirm"} => R.next = Chunks[R.id] + 1

\* What is on its way to the receiver fits the place it is at.
ToReceiverInv ==
    LET R == party["receiver"]
        w == wire["receiver"]
    IN  /\ R.pc \in BetweenTransfers =>
              w = <<>> \/ \E t \in Transfers : w = <<Offer(t)>>
        /\ R.pc \in {"authorize", "decide", "receipt"} => w = <<>>
        /\ R.pc \in Receiving =>
              /\ NextToRead(R) + Len(w) <= Chunks[R.id] + 2
              /\ \A j \in 1 .. Len(w) : w[j] = Remaining(R, j)

\* What is on its way to the sender answers what it waits for.
ToSenderInv ==
    LET S == party["sender"]
        w == wire["sender"]
    IN  \/ w = <<>>
        \/ S.pc = "decision" /\ \E b \in BOOLEAN : w = <<Decision(S.id, b)>>
        \/ S.pc = "receipt" /\ w = <<Receipt(S.id)>>

\* While the connection lives, the place of the sender is that of the receiver
\* and what is in flight in between.
AlignedInv ==
    LET S == party["sender"]
        R == party["receiver"]
        toS == wire["sender"]
        toR == wire["receiver"]
        quiet == toS = <<>> /\ toR = <<>>
        ahead(n) == /\ R.pc \in Receiving
                    /\ R.id = S.id
                    /\ toS = <<>>
                    /\ NextToRead(R) + Len(toR) = n
    IN  Live =>
        /\ S.pc \in {"idle", "announce", "confirm"} =>
              R.pc \in BetweenTransfers /\ quiet
        /\ S.pc = "decision" =>
              \/ /\ R.pc \in BetweenTransfers
                 /\ toS = <<>> /\ toR = <<Offer(S.id)>>
              \/ R.pc \in {"authorize", "decide"} /\ R.id = S.id /\ quiet
              \/ /\ R.pc \in BetweenTransfers
                 /\ toS = <<Decision(S.id, FALSE)>> /\ toR = <<>>
              \/ /\ R.pc = "chunk" /\ R.id = S.id /\ R.next = 1
                 /\ toS = <<Decision(S.id, TRUE)>> /\ toR = <<>>
        /\ S.pc \in {"source", "send", "completion"} => ahead(S.next)
        /\ S.pc = "receipt" =>
              \/ ahead(Chunks[S.id] + 2)
              \/ R.pc = "receipt" /\ R.id = S.id /\ quiet
              \/ /\ R.pc \in BetweenTransfers
                 /\ toS = <<Receipt(S.id)>> /\ toR = <<>>

\* The receiver's destination has the chunks before the one it is at.
StagedInv ==
    LET R == party["receiver"]
    IN  R.pc \in Receiving \cup {"receipt", "confirm"} =>
            /\ R.id \in authorized
            /\ staged[R.id] = [i \in 1 .. R.next - 1 |-> i]

\* From the moment a receipt is on its way until the sender's call returns, the
\* destination it speaks of stays complete.
ReceiptInv ==
    LET S == party["sender"]
    IN  S.pc = "confirm" \/ (S.pc = "receipt" /\ wire["sender"] # <<>>) =>
            /\ S.id \in authorized
            /\ Complete(S.id)
            /\ party["receiver"].pc \in BetweenTransfers
            /\ wire["receiver"] = <<>>

StreamInv ==
    /\ TypeOK
    /\ PlacesInv
    /\ ToReceiverInv
    /\ ToSenderInv
    /\ AlignedInv
    /\ StagedInv
    /\ ReceiptInv

\* A side that is trusted, or has just been found to be, owes nothing.
LateInv ==
    /\ OneLateChunk
    /\ \A s \in Sides : trusted[s] => late[s] = 0
    /\ party["sender"].pc = "send" => late["sender"] = 0
    /\ party["receiver"].pc = "write" => late["receiver"] = 0

-----------------------------------------------------------------------------
\* Seen from outside, the chunks in a destination are counted.
Promise == INSTANCE Delivery WITH
    staged <- [t \in Transfers |-> Len(staged[t])]

\* The two calls implement the delivery of payloads.
DeliverySpec == Promise!Spec
=============================================================================
