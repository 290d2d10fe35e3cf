----------------------- MODULE PayloadTransferProofs ------------------------
(***************************************************************************)
(* Proofs about PayloadTransfer for every set of transfers, every number   *)
(* of chunks and every set of faults, and about Manifests for every set of *)
(* bytes and all sizes.                                                    *)
(***************************************************************************)
EXTENDS PayloadTransfer, Manifests, WellFoundedInduction, TLAPS

-----------------------------------------------------------------------------
(* PayloadTransfer.                                                        *)

\* A call in the middle of a transfer has a place, a transfer and a chunk.
LEMMA CallFields ==
    ASSUME NEW pcs, NEW c \in Calls(pcs)
    PROVE  /\ c = At(c.pc, c.id, c.next)
           /\ c.pc \in pcs
           /\ c.id \in Transfers
           /\ c.next \in 1 .. Chunks[c.id] + 1
           /\ Chunks[c.id] \in Nat
  <1>1. PICK t \in Transfers :
            \E pc \in pcs, i \in 1 .. Chunks[t] + 1 : c = At(pc, t, i)
    BY DEF Calls
  <1>2. PICK pc \in pcs, i \in 1 .. Chunks[t] + 1 : c = At(pc, t, i)
    BY <1>1
  <1>3. c.pc = pc /\ c.id = t /\ c.next = i
    BY <1>2 DEF At
  <1>4. QED
    BY <1>2, <1>3, TransferAssumption

\* Every place, transfer and chunk make one.
LEMMA CallsMade ==
    ASSUME NEW pcs, NEW pc \in pcs, NEW t \in Transfers,
           NEW i \in 1 .. Chunks[t] + 1
    PROVE  /\ At(pc, t, i) \in Calls(pcs)
           /\ At(pc, t, i).pc = pc
           /\ At(pc, t, i).id = t
           /\ At(pc, t, i).next = i
  BY DEF Calls, At

\* The calls of both sides, and what tells apart those that have no transfer.
LEMMA PartyFields ==
    ASSUME TypeOK
    PROVE  /\ \/ party["sender"] = Idle /\ party["sender"].pc = "idle"
              \/ /\ party["sender"] \in Calls(SenderAt)
                 /\ party["sender"].pc \in SenderAt
                 /\ party["sender"].id \in Transfers
                 /\ party["sender"].next \in 1 .. Chunks[party["sender"].id] + 1
                 /\ Chunks[party["sender"].id] \in Nat
           /\ \/ party["receiver"] = Idle /\ party["receiver"].pc = "idle"
              \/ party["receiver"] = Waiting /\ party["receiver"].pc = "offer"
              \/ /\ party["receiver"] \in Calls(ReceiverAt)
                 /\ party["receiver"].pc \in ReceiverAt
                 /\ party["receiver"].id \in Transfers
                 /\ party["receiver"].next \in 1 .. Chunks[party["receiver"].id] + 1
                 /\ Chunks[party["receiver"].id] \in Nat
  <1>1. Idle.pc = "idle" /\ Waiting.pc = "offer"
    BY DEF Idle, Waiting
  <1>2. QED
    BY <1>1, CallFields DEF TypeOK

-----------------------------------------------------------------------------
(* Types and places.                                                       *)

\* What a call on a side can be, and fits the number of chunks.
PlaceOf(s) ==
    IF s = "sender"
    THEN {c \in {Idle} \cup Calls(SenderAt) :
             /\ c.pc = "send" => c.next <= Chunks[c.id]
             /\ c.pc = "completion" => c.next = Chunks[c.id] + 1}
    ELSE {c \in {Idle, Waiting} \cup Calls(ReceiverAt) :
             /\ c.pc \in {"stage", "write"} => c.next <= Chunks[c.id]
             /\ c.pc \in {"receipt", "confirm"} => c.next = Chunks[c.id] + 1}

PartyOK ==
    /\ party = [s \in Sides |-> party[s]]
    /\ \A s \in Sides : party[s] \in PlaceOf(s)

ConnOK ==
    /\ open \in [Sides -> BOOLEAN]
    /\ up \in BOOLEAN
    /\ wire \in [Sides -> Seq(Frame)]

RestOK ==
    /\ trusted \in [Sides -> BOOLEAN]
    /\ staged \in [Transfers -> Seq(Nat)]
    /\ authorized \subseteq Transfers
    /\ delivered \subseteq Transfers
    /\ late \in [Sides -> Nat]

\* The two sides.
LEMMA SidesFacts ==
    /\ "sender" \in Sides /\ "receiver" \in Sides
    /\ Other("sender") = "receiver" /\ Other("receiver") = "sender"
    /\ \A s \in Sides : Other(s) \in Sides /\ Other(s) # s
    /\ \A s \in Sides : s = "sender" \/ s = "receiver"
  BY DEF Sides, Other

\* Type correctness and the places, taken apart.
LEMMA TypeParts ==
    TypeOK /\ PlacesInv <=> PartyOK /\ ConnOK /\ RestOK
  <1>1. \A c \in Calls(SenderAt) : c \in Calls(SenderAt \cup ReceiverAt)
    BY DEF Calls
  <1>2. \A c \in Calls(ReceiverAt) : c \in Calls(SenderAt \cup ReceiverAt)
    BY DEF Calls
  <1>3. ASSUME TypeOK, PlacesInv PROVE PartyOK
    BY <1>3, SidesFacts DEF TypeOK, PlacesInv, PartyOK, PlaceOf
  <1>4. ASSUME PartyOK, ConnOK, RestOK PROVE TypeOK /\ PlacesInv
    <2>1. party["sender"] \in PlaceOf("sender")
          /\ party["receiver"] \in PlaceOf("receiver")
      BY <1>4, SidesFacts DEF PartyOK
    <2>2. party["sender"] \in {Idle} \cup Calls(SenderAt)
          /\ party["receiver"] \in {Idle, Waiting} \cup Calls(ReceiverAt)
      BY <2>1 DEF PlaceOf
    <2>3. \A s \in Sides : party[s] \in {Idle, Waiting} \cup Calls(SenderAt \cup ReceiverAt)
      BY <2>2, <1>1, <1>2, SidesFacts
    <2>4. party \in [Sides -> {Idle, Waiting} \cup Calls(SenderAt \cup ReceiverAt)]
      BY <2>3, <1>4 DEF PartyOK
    <2>5. TypeOK
      BY <1>4, <2>2, <2>4 DEF TypeOK, ConnOK, RestOK
    <2>6. PlacesInv
      BY <2>1 DEF PlacesInv, PlaceOf
    <2>7. QED
      BY <2>5, <2>6
  <1>5. QED
    BY <1>3, <1>4 DEF TypeOK, ConnOK, RestOK

\* A call that comes to a place it fits leaves both calls in such places.
LEMMA Moves ==
    ASSUME PartyOK, NEW s \in Sides, NEW p \in PlaceOf(s), Goto(s, p)
    PROVE  PartyOK'
  BY DEF PartyOK, Goto

\* A call can always return.
LEMMA IdleFits == \A s \in Sides : Idle \in PlaceOf(s)
  BY DEF PlaceOf, Idle

\* The frames that the calls write.
LEMMA FramesMade ==
    ASSUME NEW t \in Transfers
    PROVE  /\ Offer(t) \in Frame /\ Completion(t) \in Frame /\ Receipt(t) \in Frame
           /\ \A b \in BOOLEAN : Decision(t, b) \in Frame
           /\ \A i \in 1 .. Chunks[t] : Chunk(t, i) \in Frame
  <1> DEFINE F(u) == {Offer(u), Completion(u), Receipt(u),
                      Decision(u, TRUE), Decision(u, FALSE)}
                     \cup {Chunk(u, i) : i \in 1 .. Chunks[u]}
  <1>1. Frame = UNION {F(u) : u \in Transfers}
    BY Zenon DEF Frame
  <1>2. \A f \in F(t) : f \in Frame
    <2> HIDE DEF F
    <2>1. QED
      BY <1>1
  <1>3. \A b \in BOOLEAN : b = TRUE \/ b = FALSE
    OBVIOUS
  <1>4. QED
    BY <1>2, <1>3

\* A call that fails, writes, reads or asks for trust is in a place it fits, on
\* a connection of the right type.
LEMMA FailTypes ==
    ASSUME PartyOK, ConnOK, NEW s \in Sides, Fail(s)
    PROVE  PartyOK' /\ ConnOK'
  BY Moves, IdleFits DEF Fail, Close, ConnOK

\* See FailTypes.
LEMMA WriteTypes ==
    ASSUME PartyOK, ConnOK, NEW s \in Sides, NEW f \in Frame,
           NEW p \in PlaceOf(s), Write(s, f, p)
    PROVE  PartyOK' /\ ConnOK'
  <1>1. CASE Goto(s, p) /\ UNCHANGED <<open, up>>
             /\ wire' = IF Live THEN [wire EXCEPT ![Other(s)] = Append(@, f)]
                                ELSE wire
    BY <1>1, Moves, SidesFacts DEF ConnOK
  <1>2. CASE Fail(s)
    BY <1>2, FailTypes
  <1>3. QED
    BY <1>1, <1>2 DEF Write

\* See FailTypes.
LEMMA ReadTypes ==
    ASSUME PartyOK, ConnOK, NEW s \in Sides, NEW place,
           \A f \in DOMAIN place : place[f] \in PlaceOf(s), Read(s, place)
    PROVE  PartyOK' /\ ConnOK'
  <1>1. CASE wire[s] # <<>> /\ Head(wire[s]) \in DOMAIN place
             /\ Goto(s, place[Head(wire[s])])
             /\ wire' = [wire EXCEPT ![s] = Tail(@)] /\ UNCHANGED <<open, up>>
    BY <1>1, Moves DEF ConnOK
  <1>2. CASE Fail(s)
    BY <1>2, FailTypes
  <1>3. QED
    BY <1>1, <1>2 DEF Read

\* See FailTypes.
LEMMA CheckpointTypes ==
    ASSUME PartyOK, ConnOK, NEW s \in Sides, NEW p \in PlaceOf(s), Checkpoint(s, p)
    PROVE  PartyOK' /\ ConnOK'
  <1>1. CASE Goto(s, p) /\ UNCHANGED conn
    BY <1>1, Moves DEF ConnOK, conn
  <1>2. CASE Fail(s)
    BY <1>2, FailTypes
  <1>3. QED
    BY <1>1, <1>2 DEF Checkpoint

\* No node has done anything yet.
LEMMA TypesInit == Init => TypeOK /\ PlacesInv
  BY DEF Init, TypeOK, PlacesInv, Sides, Idle

\* Each step of the sender keeps the types and the places.
LEMMA SenderTypes ==
    ASSUME TypeOK, PlacesInv,
           SenderStep \/ \E t \in Transfers : StartSend(t)
    PROVE  TypeOK' /\ PlacesInv'
  <1> DEFINE c == party["sender"]
             s == "sender"
  <1> SUFFICES PartyOK' /\ ConnOK' /\ RestOK'
    <2>1. (TypeOK /\ PlacesInv <=> PartyOK /\ ConnOK /\ RestOK)'
      BY TypeParts, PTL
    <2>2. QED
      BY <2>1
  <1>1. PartyOK /\ ConnOK /\ RestOK
    BY TypeParts
  <1>2. \/ c = Idle /\ c.pc = "idle"
        \/ /\ c.pc \in SenderAt
           /\ c.id \in Transfers
           /\ c.next \in 1 .. Chunks[c.id] + 1
           /\ Chunks[c.id] \in Nat
    BY PartyFields
  <1>3. \A t \in Transfers, pc \in SenderAt :
            pc \notin {"send", "completion"} =>
                \A i \in 1 .. Chunks[t] + 1 : At(pc, t, i) \in PlaceOf(s)
    BY CallsMade DEF PlaceOf
  <1>4. ASSUME NEW t \in Transfers, NEW i \in 1 .. Chunks[t]
        PROVE  At("send", t, i) \in PlaceOf(s)
    <2>1. i \in 1 .. Chunks[t] + 1 /\ i <= Chunks[t] /\ "send" \in SenderAt
      BY TransferAssumption DEF SenderAt
    <2>2. QED
      BY <2>1, CallsMade DEF PlaceOf
  <1>5. ASSUME NEW t \in Transfers
        PROVE  At("completion", t, Chunks[t] + 1) \in PlaceOf(s)
    <2>1. Chunks[t] + 1 \in 1 .. Chunks[t] + 1 /\ "completion" \in SenderAt
      BY TransferAssumption DEF SenderAt
    <2>2. QED
      BY <2>1, CallsMade DEF PlaceOf
  <1>6. \A t \in Transfers : 1 \in 1 .. Chunks[t] + 1
    BY TransferAssumption
  <1>7. c.pc \in SenderAt => c.id \in Transfers /\ c.next \in 1 .. Chunks[c.id] + 1
                              /\ Chunks[c.id] \in Nat
    BY <1>2 DEF SenderAt
  <1>8. Idle \in PlaceOf(s) /\ s \in Sides
    BY IdleFits, SidesFacts
  <1> HIDE DEF c
  <1>9. ASSUME NEW t \in Transfers, StartSend(t) PROVE PartyOK' /\ ConnOK' /\ RestOK'
    <2>1. At("announce", t, 1) \in PlaceOf(s)
      BY <1>3, <1>6 DEF SenderAt
    <2>2. PartyOK' /\ ConnOK'
      BY <2>1, <1>1, <1>8, <1>9, CheckpointTypes, FailTypes DEF StartSend
    <2>3. QED
      BY <2>2, <1>1, <1>9 DEF StartSend, RestOK, history
  <1>10. CASE SendOffer
    <2>1. c.pc = "announce" /\ Write(s, Offer(c.id), At("decision", c.id, 1))
      BY <1>10 DEF SendOffer, c
    <2>2. At("decision", c.id, 1) \in PlaceOf(s) /\ Offer(c.id) \in Frame
      BY <2>1, <1>3, <1>6, <1>7, FramesMade DEF SenderAt
    <2>3. PartyOK' /\ ConnOK'
      BY <2>1, <2>2, <1>1, <1>8, WriteTypes
    <2>4. QED
      BY <2>3, <1>1, <1>10 DEF SendOffer, RestOK, history
  <1>11. CASE TakeDecision
    <2> DEFINE place == [f \in {Decision(c.id, b) : b \in BOOLEAN} |->
                            AfterDecision(c.id, f.accepted)]
    <2>1. c.pc = "decision" /\ Read(s, place)
      BY <1>11 DEF TakeDecision, c
    <2>2. \A f \in DOMAIN place : place[f] \in PlaceOf(s)
      <3>1. At("source", c.id, 1) \in PlaceOf(s)
        BY <2>1, <1>3, <1>6, <1>7 DEF SenderAt
      <3>2. QED
        BY <3>1, <1>8 DEF AfterDecision
    <2> HIDE DEF place
    <2>3. PartyOK' /\ ConnOK'
      BY <2>1, <2>2, <1>1, <1>8, ReadTypes
    <2>4. QED
      BY <2>3, <1>1, <1>11 DEF TakeDecision, RestOK, history
  <1>12. CASE ReadSource
    <2>1. c.pc = "source"
      BY <1>12 DEF ReadSource, c
    <2>2. c.next <= Chunks[c.id] => At("send", c.id, c.next) \in PlaceOf(s)
      BY <2>1, <1>4, <1>7 DEF SenderAt
    <2>3. ~(c.next <= Chunks[c.id]) => At("completion", c.id, c.next) \in PlaceOf(s)
      <3>1. ~(c.next <= Chunks[c.id]) => c.next = Chunks[c.id] + 1
        BY <2>1, <1>7 DEF SenderAt
      <3>2. QED
        BY <2>1, <3>1, <1>5, <1>7 DEF SenderAt
    <2>4. \/ c.next <= Chunks[c.id] /\ Checkpoint(s, At("send", c.id, c.next))
          \/ ~(c.next <= Chunks[c.id]) /\ Checkpoint(s, At("completion", c.id, c.next))
          \/ Fail(s)
      BY <1>12 DEF ReadSource, c
    <2>5. PartyOK' /\ ConnOK'
      BY <2>2, <2>3, <2>4, <1>1, <1>8, CheckpointTypes, FailTypes
    <2>6. QED
      BY <2>5, <1>1, <1>12 DEF ReadSource, RestOK, history
  <1>13. CASE SendChunk
    <2>1. c.pc = "send"
          /\ Write(s, Chunk(c.id, c.next), At("source", c.id, c.next + 1))
      BY <1>13 DEF SendChunk, c
    <2>2. c.next \in 1 .. Chunks[c.id]
      BY <2>1, <1>7 DEF PlacesInv, SenderAt, c
    <2>3. c.next + 1 \in 1 .. Chunks[c.id] + 1
      BY <2>1, <2>2, <1>7 DEF SenderAt
    <2>4. At("source", c.id, c.next + 1) \in PlaceOf(s)
          /\ Chunk(c.id, c.next) \in Frame
      BY <2>1, <2>2, <2>3, <1>3, <1>7, FramesMade DEF SenderAt
    <2>5. PartyOK' /\ ConnOK'
      BY <2>1, <2>4, <1>1, <1>8, WriteTypes
    <2>6. QED
      BY <2>5, <1>1, <1>8, <1>13 DEF SendChunk, Moved, RestOK, history
  <1>14. CASE SendCompletion
    <2>1. c.pc = "completion" /\ Write(s, Completion(c.id), At("receipt", c.id, c.next))
      BY <1>14 DEF SendCompletion, c
    <2>2. At("receipt", c.id, c.next) \in PlaceOf(s) /\ Completion(c.id) \in Frame
      BY <2>1, <1>3, <1>7, FramesMade DEF SenderAt
    <2>3. PartyOK' /\ ConnOK'
      BY <2>1, <2>2, <1>1, <1>8, WriteTypes
    <2>4. QED
      BY <2>3, <1>1, <1>14 DEF SendCompletion, RestOK, history
  <1>15. CASE TakeReceipt
    <2> DEFINE place == [f \in {Receipt(c.id)} |-> At("confirm", c.id, c.next)]
    <2>1. c.pc = "receipt" /\ Read(s, place)
      BY <1>15 DEF TakeReceipt, c
    <2>2. \A f \in DOMAIN place : place[f] \in PlaceOf(s)
      BY <2>1, <1>3, <1>7 DEF SenderAt
    <2> HIDE DEF place
    <2>3. PartyOK' /\ ConnOK'
      BY <2>1, <2>2, <1>1, <1>8, ReadTypes
    <2>4. c.id \in Transfers
      BY <2>1, <1>7 DEF SenderAt
    <2>5. QED
      BY <2>3, <2>4, <1>1, <1>15 DEF TakeReceipt, RestOK, c
  <1>16. CASE ConfirmSend
    <2>1. PartyOK' /\ ConnOK'
      BY <1>16, <1>1, <1>8, CheckpointTypes DEF ConfirmSend
    <2>2. QED
      BY <2>1, <1>1, <1>16 DEF ConfirmSend, RestOK, history
  <1>17. QED
    BY <1>9, <1>10, <1>11, <1>12, <1>13, <1>14, <1>15, <1>16 DEF SenderStep

\* So does each step of the receiver.
LEMMA ReceiverTypes ==
    ASSUME TypeOK, PlacesInv, ReceiverStep \/ StartReceive
    PROVE  TypeOK' /\ PlacesInv'
  <1> DEFINE c == party["receiver"]
             s == "receiver"
  <1> SUFFICES PartyOK' /\ ConnOK' /\ RestOK'
    <2>1. (TypeOK /\ PlacesInv <=> PartyOK /\ ConnOK /\ RestOK)'
      BY TypeParts, PTL
    <2>2. QED
      BY <2>1
  <1>1. PartyOK /\ ConnOK /\ RestOK
    BY TypeParts
  <1>2. c.pc \in ReceiverAt => /\ c.id \in Transfers
                               /\ c.next \in 1 .. Chunks[c.id] + 1
                               /\ Chunks[c.id] \in Nat
    BY PartyFields DEF ReceiverAt
  <1>3. ASSUME NEW t \in Transfers, NEW pc \in {"authorize", "decide", "chunk"},
               NEW i \in 1 .. Chunks[t] + 1
        PROVE  At(pc, t, i) \in PlaceOf(s)
    <2>1. pc \in ReceiverAt
      BY DEF ReceiverAt
    <2>2. QED
      BY <2>1, CallsMade DEF PlaceOf
  <1>4. ASSUME NEW t \in Transfers, NEW pc \in {"stage", "write"},
               NEW i \in 1 .. Chunks[t]
        PROVE  At(pc, t, i) \in PlaceOf(s)
    <2>1. i \in 1 .. Chunks[t] + 1 /\ i <= Chunks[t] /\ pc \in ReceiverAt
      BY TransferAssumption DEF ReceiverAt
    <2>2. QED
      BY <2>1, CallsMade DEF PlaceOf
  <1>5. ASSUME NEW t \in Transfers, NEW pc \in {"receipt", "confirm"}
        PROVE  At(pc, t, Chunks[t] + 1) \in PlaceOf(s)
    <2>1. Chunks[t] + 1 \in 1 .. Chunks[t] + 1 /\ pc \in ReceiverAt
      BY TransferAssumption DEF ReceiverAt
    <2>2. QED
      BY <2>1, CallsMade DEF PlaceOf
  <1>6. \A t \in Transfers : 1 \in 1 .. Chunks[t] + 1
    BY TransferAssumption
  <1>7. Idle \in PlaceOf(s) /\ Waiting \in PlaceOf(s) /\ s \in Sides
    BY SidesFacts DEF PlaceOf, Idle, Waiting
  <1> HIDE DEF c
  <1>8. CASE StartReceive
    <2>1. PartyOK' /\ ConnOK'
      BY <1>1, <1>7, <1>8, CheckpointTypes, FailTypes DEF StartReceive
    <2>2. QED
      BY <2>1, <1>1, <1>8 DEF StartReceive, RestOK, history
  <1>9. CASE TakeOffer
    <2> DEFINE place == [f \in {Offer(t) : t \in Transfers} |-> At("authorize", f.id, 1)]
    <2>1. Read(s, place)
      BY <1>9 DEF TakeOffer
    <2>2. \A t \in Transfers : Offer(t).id = t
      BY DEF Offer
    <2>3. \A f \in DOMAIN place : place[f] \in PlaceOf(s)
      BY <2>2, <1>3, <1>6
    <2> HIDE DEF place
    <2>4. PartyOK' /\ ConnOK'
      BY <2>1, <2>3, <1>1, <1>7, ReadTypes
    <2>5. QED
      BY <2>4, <1>1, <1>9 DEF TakeOffer, RestOK, history
  <1>10. CASE GuardAuthorize
    <2>1. c.pc = "authorize" /\ Checkpoint(s, At("decide", c.id, 1))
      BY <1>10 DEF GuardAuthorize, c
    <2>2. At("decide", c.id, 1) \in PlaceOf(s)
      BY <2>1, <1>2, <1>3, <1>6 DEF ReceiverAt
    <2>3. PartyOK' /\ ConnOK'
      BY <2>1, <2>2, <1>1, <1>7, CheckpointTypes
    <2>4. QED
      BY <2>3, <1>1, <1>10 DEF GuardAuthorize, RestOK, history
  <1>11. CASE Decide
    <2>1. c.pc = "decide" /\ c.id \in Transfers
      BY <1>11, <1>2 DEF Decide, c, ReceiverAt
    <2>2. /\ At("chunk", c.id, 1) \in PlaceOf(s)
          /\ Decision(c.id, TRUE) \in Frame /\ Decision(c.id, FALSE) \in Frame
      BY <2>1, <1>3, <1>6, FramesMade
    <2>3. \/ Write(s, Decision(c.id, TRUE), At("chunk", c.id, 1))
          \/ Write(s, Decision(c.id, FALSE), Idle)
      BY <1>11 DEF Decide, c
    <2>4. PartyOK' /\ ConnOK'
      BY <2>2, <2>3, <1>1, <1>7, WriteTypes
    <2>5. <<>> \in Seq(Nat)
      OBVIOUS
    <2>6. RestOK'
      BY <2>1, <2>5, <1>1, <1>11 DEF Decide, RestOK, c
    <2>7. QED
      BY <2>4, <2>6
  <1>12. CASE TakeChunk
    <2> DEFINE place == [f \in {Chunk(c.id, c.next)} |-> At("stage", c.id, c.next)]
    <2>1. c.pc = "chunk" /\ c.next <= Chunks[c.id] /\ Read(s, place)
      BY <1>12 DEF TakeChunk, MoreChunks, c
    <2>2. c.id \in Transfers /\ c.next \in 1 .. Chunks[c.id]
      BY <2>1, <1>2 DEF ReceiverAt
    <2>3. \A f \in DOMAIN place : place[f] \in PlaceOf(s)
      BY <2>2, <1>4
    <2> HIDE DEF place
    <2>4. PartyOK' /\ ConnOK'
      BY <2>1, <2>3, <1>1, <1>7, ReadTypes
    <2>5. QED
      BY <2>4, <1>1, <1>12 DEF TakeChunk, RestOK, history
  <1>13. CASE TakeCompletion
    <2> DEFINE place == [f \in {Completion(c.id)} |-> At("receipt", c.id, c.next)]
    <2>1. c.pc = "chunk" /\ ~(c.next <= Chunks[c.id]) /\ Read(s, place)
      BY <1>13 DEF TakeCompletion, MoreChunks, c
    <2>2. c.id \in Transfers /\ c.next = Chunks[c.id] + 1
      BY <2>1, <1>2 DEF ReceiverAt
    <2>3. \A f \in DOMAIN place : place[f] \in PlaceOf(s)
      BY <2>2, <1>5
    <2> HIDE DEF place
    <2>4. PartyOK' /\ ConnOK'
      BY <2>1, <2>3, <1>1, <1>7, ReadTypes
    <2>5. QED
      BY <2>4, <1>1, <1>13 DEF TakeCompletion, RestOK, history
  <1>14. CASE GuardStaging
    <2>1. c.pc = "stage" /\ Checkpoint(s, At("write", c.id, c.next))
      BY <1>14 DEF GuardStaging, c
    <2>2. c.id \in Transfers /\ c.next \in 1 .. Chunks[c.id]
      BY <2>1, <1>2 DEF ReceiverAt, PlacesInv, c
    <2>3. At("write", c.id, c.next) \in PlaceOf(s)
      BY <2>2, <1>4
    <2>4. PartyOK' /\ ConnOK'
      BY <2>1, <2>3, <1>1, <1>7, CheckpointTypes
    <2>5. QED
      BY <2>4, <1>1, <1>14 DEF GuardStaging, RestOK, history
  <1>15. CASE StageChunk
    <2>1. /\ c.pc = "write"
          /\ \/ Goto(s, At("chunk", c.id, c.next + 1)) /\ UNCHANGED conn
             \/ Fail(s)
      BY <1>15 DEF StageChunk, StagingFails, c
    <2>2. /\ c.id \in Transfers /\ c.next \in 1 .. Chunks[c.id]
          /\ c.next + 1 \in 1 .. Chunks[c.id] + 1 /\ c.next \in Nat
      BY <2>1, <1>2 DEF ReceiverAt, PlacesInv, c
    <2>3. At("chunk", c.id, c.next + 1) \in PlaceOf(s)
      BY <2>2, <1>3
    <2>4. PartyOK' /\ ConnOK'
      BY <2>1, <2>3, <1>1, <1>7, Moves, FailTypes DEF conn, ConnOK
    <2>5. staged' \in [Transfers -> Seq(Nat)]
      <3>1. \A q \in Seq(Nat) : Append(q, c.next) \in Seq(Nat)
        BY <2>2
      <3>2. \/ staged' = [staged EXCEPT ![c.id] = Append(@, c.next)]
            \/ staged' = staged
        BY <1>15 DEF StageChunk, c
      <3>3. staged \in [Transfers -> Seq(Nat)]
        BY <1>1 DEF RestOK
      <3>4. staged[c.id] \in Seq(Nat)
        BY <3>3, <2>2
      <3>5. Append(staged[c.id], c.next) \in Seq(Nat)
        BY <3>1, <3>4
      <3>6. QED
        BY <3>2, <3>3, <3>5
    <2>6. late' \in [Sides -> Nat]
      BY <1>1, <1>7, <1>15 DEF StageChunk, RestOK, Moved
    <2>7. QED
      BY <2>4, <2>5, <2>6, <1>1, <1>15 DEF StageChunk, RestOK, history
  <1>16. CASE SendReceipt
    <2>1. c.pc = "receipt" /\ Write(s, Receipt(c.id), At("confirm", c.id, c.next))
      BY <1>16 DEF SendReceipt, c
    <2>2. c.id \in Transfers /\ c.next = Chunks[c.id] + 1
      BY <2>1, <1>2 DEF ReceiverAt, PlacesInv, c
    <2>3. At("confirm", c.id, c.next) \in PlaceOf(s) /\ Receipt(c.id) \in Frame
      BY <2>2, <1>5, FramesMade
    <2>4. PartyOK' /\ ConnOK'
      BY <2>1, <2>3, <1>1, <1>7, WriteTypes
    <2>5. QED
      BY <2>4, <1>1, <1>16 DEF SendReceipt, RestOK, history
  <1>17. CASE ConfirmReceive
    <2>1. PartyOK' /\ ConnOK'
      BY <1>17, <1>1, <1>7, CheckpointTypes DEF ConfirmReceive
    <2>2. QED
      BY <2>1, <1>1, <1>17 DEF ConfirmReceive, RestOK, history
  <1>18. QED
    BY <1>8, <1>9, <1>10, <1>11, <1>12, <1>13, <1>14, <1>15, <1>16, <1>17
       DEF ReceiverStep

\* So does everything else that happens, and a step that changes nothing.
LEMMA OtherTypes ==
    ASSUME TypeOK, PlacesInv,
           \/ \E s \in Sides : ChangeTrust(s) \/ HangUp(s) \/ Lose(s)
           \/ Cut
           \/ Reconnect
           \/ UNCHANGED vars
    PROVE  TypeOK' /\ PlacesInv'
  <1> SUFFICES PartyOK' /\ ConnOK' /\ RestOK'
    <2>1. (TypeOK /\ PlacesInv <=> PartyOK /\ ConnOK /\ RestOK)'
      BY TypeParts, PTL
    <2>2. QED
      BY <2>1
  <1>1. PartyOK /\ ConnOK /\ RestOK
    BY TypeParts
  <1>2. party' = party
    BY DEF ChangeTrust, HangUp, Lose, Cut, Reconnect, vars
  <1>3. PartyOK'
    BY <1>1, <1>2 DEF PartyOK
  <1>4. RestOK'
    <2>1. CASE \E s \in Sides : ChangeTrust(s)
      BY <2>1, <1>1 DEF RestOK, ChangeTrust, history
    <2>2. CASE UNCHANGED <<trusted, staged, history, late>>
      BY <2>2, <1>1 DEF RestOK, history
    <2>3. QED
      BY <2>1, <2>2 DEF HangUp, Lose, Cut, Reconnect, vars
  <1>5. ConnOK'
    <2>1. \A q \in Seq(Frame) : q # <<>> => Front(q) \in Seq(Frame)
      BY DEF Front
    <2>2. CASE \E s \in Sides : Lose(s)
      BY <2>1, <2>2, <1>1 DEF ConnOK, Lose
    <2>3. CASE \E s \in Sides : HangUp(s)
      BY <2>3, <1>1 DEF ConnOK, HangUp, Close
    <2>4. CASE Cut
      BY <2>4, <1>1 DEF ConnOK, Cut
    <2>5. CASE Reconnect
      BY <2>5, <1>1 DEF ConnOK, Reconnect
    <2>6. CASE UNCHANGED conn
      BY <2>6, <1>1 DEF ConnOK, conn
    <2>7. QED
      BY <2>2, <2>3, <2>4, <2>5, <2>6 DEF ChangeTrust, vars
  <1>6. QED
    BY <1>3, <1>4, <1>5

\* Types and places are kept by every step.
LEMMA TypesStep == TypeOK /\ PlacesInv /\ [Next]_vars => TypeOK' /\ PlacesInv'
  BY SenderTypes, ReceiverTypes, OtherTypes DEF Next

\* The calls, the frames and the destinations always have the types of the code,
\* also with empty payloads and after the last chunk.
THEOREM TransferTypeCorrect == Spec => []TypeOK
  BY TypesInit, TypesStep, PTL DEF Spec

-----------------------------------------------------------------------------
(* Trust that is lost stops the work.                                      *)

\* Nothing is late at the start.
LEMMA LateInit == Init => LateInv
  BY DEF Init, LateInv, OneLateChunk, Sides, Idle

\* Where a call goes on when it writes, reads, asks for trust or fails.
LEMMA Outcomes ==
    ASSUME NEW s, NEW f, NEW p, NEW place
    PROVE  /\ Fail(s) => Goto(s, Idle)
           /\ Write(s, f, p) => Goto(s, p) \/ Goto(s, Idle)
           /\ Read(s, place) => \/ \E g \in DOMAIN place : Goto(s, place[g])
                                \/ Goto(s, Idle)
           /\ Checkpoint(s, p) => (trusted[s] /\ Goto(s, p)) \/ Goto(s, Idle)
  BY DEF Fail, Write, Read, Checkpoint, TrustConfirmed

\* A call that moves no chunk comes to where it would move one only if its side
\* has just been found to trust the other.
LEMMA LateKept ==
    ASSUME TypeOK, LateInv, UNCHANGED <<trusted, late>>, NEW s \in Sides, NEW p,
           Goto(s, p), p.pc \in {"send", "write"} => trusted[s]
    PROVE  LateInv'
  BY SidesFacts DEF TypeOK, LateInv, OneLateChunk, Goto

\* A chunk is moved from where late is zero to where it need not be.
LEMMA LateMoved ==
    ASSUME TypeOK, LateInv, UNCHANGED trusted, NEW s \in Sides, NEW p,
           Goto(s, p), p.pc \notin {"send", "write"}, Moved(s), late[s] = 0
    PROVE  LateInv'
  BY SidesFacts DEF TypeOK, LateInv, OneLateChunk, Goto, Moved

\* Every step keeps it so.
LEMMA LateStep == TypeOK /\ LateInv /\ [Next]_vars => LateInv'
  <1> SUFFICES ASSUME TypeOK, LateInv, [Next]_vars
               PROVE  LateInv'
    OBVIOUS
  <1>1. "sender" \in Sides /\ "receiver" \in Sides
    BY SidesFacts
  <1>2. Idle.pc = "idle" /\ Waiting.pc = "offer"
    BY DEF Idle, Waiting
  <1>3. \A pc, t, i : At(pc, t, i).pc = pc
    BY DEF At
  <1>4. ASSUME NEW t \in Transfers, StartSend(t)
        PROVE  LateInv'
    BY <1>1, <1>2, <1>3, <1>4, Outcomes, LateKept DEF StartSend
  <1>5. CASE SendOffer
    BY <1>1, <1>2, <1>3, <1>5, Outcomes, LateKept DEF SendOffer
  <1>6. CASE TakeDecision
    <2> DEFINE t == party["sender"].id
               place == [f \in {Decision(t, b) : b \in BOOLEAN} |->
                            AfterDecision(t, f.accepted)]
    <2>1. Read("sender", place) /\ UNCHANGED <<trusted, late>>
      BY <1>6 DEF TakeDecision
    <2>2. \A f \in DOMAIN place : place[f].pc \in {"source", "idle"}
      BY <1>2, <1>3 DEF AfterDecision
    <2> HIDE DEF place
    <2>3. QED
      BY <2>1, <2>2, <1>1, <1>2, Outcomes, LateKept
  <1>7. CASE ReadSource
    BY <1>1, <1>2, <1>3, <1>7, Outcomes, LateKept DEF ReadSource
  <1>8. CASE SendChunk
    <2>1. late["sender"] = 0
      BY <1>8 DEF SendChunk, LateInv
    <2>2. QED
      BY <2>1, <1>1, <1>2, <1>3, <1>8, Outcomes, LateMoved DEF SendChunk
  <1>9. CASE SendCompletion
    BY <1>1, <1>2, <1>3, <1>9, Outcomes, LateKept DEF SendCompletion
  <1>10. CASE TakeReceipt
    <2> DEFINE c == party["sender"]
               place == [f \in {Receipt(c.id)} |-> At("confirm", c.id, c.next)]
    <2>1. Read("sender", place) /\ UNCHANGED <<trusted, late>>
      BY <1>10 DEF TakeReceipt
    <2>2. \A f \in DOMAIN place : place[f].pc = "confirm"
      BY <1>3
    <2> HIDE DEF place
    <2>3. QED
      BY <2>1, <2>2, <1>1, <1>2, Outcomes, LateKept
  <1>11. CASE ConfirmSend
    BY <1>1, <1>2, <1>11, Outcomes, LateKept DEF ConfirmSend
  <1>12. CASE StartReceive
    BY <1>1, <1>2, <1>12, Outcomes, LateKept DEF StartReceive
  <1>13. CASE TakeOffer
    <2> DEFINE place == [f \in {Offer(t) : t \in Transfers} |-> At("authorize", f.id, 1)]
    <2>1. Read("receiver", place) /\ UNCHANGED <<trusted, late>>
      BY <1>13 DEF TakeOffer
    <2>2. \A f \in DOMAIN place : place[f].pc = "authorize"
      BY <1>3
    <2> HIDE DEF place
    <2>3. QED
      BY <2>1, <2>2, <1>1, <1>2, Outcomes, LateKept
  <1>14. CASE GuardAuthorize
    BY <1>1, <1>2, <1>3, <1>14, Outcomes, LateKept DEF GuardAuthorize
  <1>15. CASE Decide
    <2> DEFINE t == party["receiver"].id
    <2>1. /\ UNCHANGED <<trusted, late>>
          /\ \/ Write("receiver", Decision(t, TRUE), At("chunk", t, 1))
             \/ Write("receiver", Decision(t, FALSE), Idle)
      BY <1>15 DEF Decide
    <2> HIDE DEF t
    <2>2. Goto("receiver", At("chunk", t, 1)) \/ Goto("receiver", Idle)
      BY <2>1, Outcomes
    <2>3. QED
      BY <2>1, <2>2, <1>1, <1>2, <1>3, LateKept
  <1>16. CASE TakeChunk
    <2> DEFINE c == party["receiver"]
               place == [f \in {Chunk(c.id, c.next)} |-> At("stage", c.id, c.next)]
    <2>1. Read("receiver", place) /\ UNCHANGED <<trusted, late>>
      BY <1>16 DEF TakeChunk
    <2>2. \A f \in DOMAIN place : place[f].pc = "stage"
      BY <1>3
    <2> HIDE DEF place
    <2>3. QED
      BY <2>1, <2>2, <1>1, <1>2, Outcomes, LateKept
  <1>17. CASE TakeCompletion
    <2> DEFINE c == party["receiver"]
               place == [f \in {Completion(c.id)} |-> At("receipt", c.id, c.next)]
    <2>1. Read("receiver", place) /\ UNCHANGED <<trusted, late>>
      BY <1>17 DEF TakeCompletion
    <2>2. \A f \in DOMAIN place : place[f].pc = "receipt"
      BY <1>3
    <2> HIDE DEF place
    <2>3. QED
      BY <2>1, <2>2, <1>1, <1>2, Outcomes, LateKept
  <1>18. CASE GuardStaging
    BY <1>1, <1>2, <1>3, <1>18, Outcomes, LateKept DEF GuardStaging
  <1>19. CASE StageChunk
    <2>1. late["receiver"] = 0
      BY <1>19 DEF StageChunk, LateInv
    <2>2. CASE \E t, n : Goto("receiver", At("chunk", t, n)) /\ Moved("receiver")
      BY <2>1, <2>2, <1>1, <1>3, <1>19, LateMoved DEF StageChunk
    <2>3. CASE Fail("receiver") /\ UNCHANGED late
      BY <2>3, <1>1, <1>2, <1>19, Outcomes, LateKept DEF StageChunk
    <2>4. QED
      BY <2>2, <2>3, <1>19 DEF StageChunk, StagingFails
  <1>20. CASE SendReceipt
    BY <1>1, <1>2, <1>3, <1>20, Outcomes, LateKept DEF SendReceipt
  <1>21. CASE ConfirmReceive
    BY <1>1, <1>2, <1>21, Outcomes, LateKept DEF ConfirmReceive
  <1>22. ASSUME NEW s \in Sides, ChangeTrust(s)
         PROVE  LateInv'
    BY <1>22, SidesFacts DEF ChangeTrust, LateInv, OneLateChunk, TypeOK
  <1>23. CASE UNCHANGED <<party, trusted, late>>
    BY <1>23 DEF LateInv, OneLateChunk
  <1>24. QED
    BY <1>4, <1>5, <1>6, <1>7, <1>8, <1>9, <1>10, <1>11, <1>12, <1>13, <1>14,
       <1>15, <1>16, <1>17, <1>18, <1>19, <1>20, <1>21, <1>22, <1>23
       DEF Next, SenderStep, ReceiverStep, HangUp, Lose, Cut, Reconnect, vars

\* Each side moves at most one chunk after it has lost its trust in the other,
\* because it moves a chunk only from where a checkpoint has just let it pass.
THEOREM OneLateChunkAlways == Spec => []OneLateChunk
  <1>1. Init => TypeOK /\ PlacesInv /\ LateInv
    BY TypesInit, LateInit
  <1>2. TypeOK /\ PlacesInv /\ LateInv /\ [Next]_vars
            => (TypeOK /\ PlacesInv /\ LateInv)'
    BY TypesStep, LateStep
  <1>3. LateInv => OneLateChunk
    BY DEF LateInv
  <1>4. QED
    BY <1>1, <1>2, <1>3, PTL DEF Spec

-----------------------------------------------------------------------------
(* The two ends of the stream stay in step.                                *)

\* What StreamInv says besides the types and the places.
StreamRest ==
    /\ ToReceiverInv
    /\ ToSenderInv
    /\ AlignedInv
    /\ StagedInv
    /\ ReceiptInv

\* One side goes on, the other and the connection are as they were.
GoesOn(s, p) ==
    /\ party'[s] = p
    /\ party'[Other(s)] = party[Other(s)]
    /\ Live' = Live

\* Frames are told apart by their kinds and fields.
LEMMA FrameFields ==
    /\ \A t : Offer(t).kind = "offer" /\ Offer(t).id = t
    /\ \A t, b : /\ Decision(t, b).kind = "decision"
                 /\ Decision(t, b).id = t /\ Decision(t, b).accepted = b
    /\ \A t, i : /\ Chunk(t, i).kind = "chunk"
                 /\ Chunk(t, i).id = t /\ Chunk(t, i).index = i
    /\ \A t : Completion(t).kind = "completion" /\ Completion(t).id = t
    /\ \A t : Receipt(t).kind = "receipt" /\ Receipt(t).id = t
  BY DEF Offer, Decision, Chunk, Completion, Receipt

\* Calls are told apart by their places.
LEMMA CallFieldsAt ==
    /\ \A pc, t, i : /\ At(pc, t, i).pc = pc
                     /\ At(pc, t, i).id = t
                     /\ At(pc, t, i).next = i
    /\ Idle.pc = "idle" /\ Waiting.pc = "offer"
  BY DEF At, Idle, Waiting

\* A side that fails gives up its call and what was on its way to it.
LEMMA FailEffect ==
    ASSUME TypeOK, NEW s \in Sides, Fail(s)
    PROVE  /\ party'[s] = Idle
           /\ party'[Other(s)] = party[Other(s)]
           /\ wire'[s] = <<>>
           /\ wire'[Other(s)] = wire[Other(s)]
           /\ ~Live'
  BY SidesFacts DEF TypeOK, Fail, Close, Goto, Live

\* What a write does, unless it fails.
LEMMA WriteEffect ==
    ASSUME TypeOK, NEW s \in Sides, NEW f, NEW p, Write(s, f, p)
    PROVE  \/ Fail(s)
           \/ /\ GoesOn(s, p)
              /\ wire'[s] = wire[s]
              /\ Live => wire'[Other(s)] = Append(wire[Other(s)], f)
              /\ ~Live => wire'[Other(s)] = wire[Other(s)]
  BY SidesFacts DEF TypeOK, Write, Goto, GoesOn, Live

\* What a read does, unless it fails.
LEMMA ReadEffect ==
    ASSUME TypeOK, NEW s \in Sides, NEW place, Read(s, place)
    PROVE  \/ Fail(s)
           \/ \E f \in DOMAIN place :
                 /\ GoesOn(s, place[f])
                 /\ wire[s] # <<>> /\ Head(wire[s]) = f
                 /\ wire'[s] = Tail(wire[s])
                 /\ wire'[Other(s)] = wire[Other(s)]
  BY SidesFacts DEF TypeOK, Read, Goto, GoesOn, Live

\* What a checkpoint does, unless it closes the peer.
LEMMA CheckpointEffect ==
    ASSUME TypeOK, NEW s \in Sides, NEW p, Checkpoint(s, p)
    PROVE  Fail(s) \/ (GoesOn(s, p) /\ UNCHANGED wire)
  <1>1. ASSUME Goto(s, p), UNCHANGED conn
        PROVE  GoesOn(s, p) /\ UNCHANGED wire
    BY <1>1, SidesFacts DEF TypeOK, Goto, GoesOn, Live, conn
  <1>2. QED
    BY <1>1 DEF Checkpoint

\* A failure leaves nothing to be out of step with.
LEMMA FailKeepsStream ==
    ASSUME StreamInv, NEW s \in Sides, Fail(s), UNCHANGED <<staged, authorized>>
    PROVE  StreamRest'
  <1>1. TypeOK /\ StreamRest
    BY DEF StreamInv, StreamRest
  <1>2. Idle.pc = "idle"
    BY DEF Idle
  <1>3. CASE s = "sender"
    <2>1. /\ party'["sender"] = Idle /\ party'["receiver"] = party["receiver"]
          /\ wire'["sender"] = <<>> /\ wire'["receiver"] = wire["receiver"]
          /\ ~Live'
      BY <1>1, <1>3, FailEffect, SidesFacts
    <2>2. ToReceiverInv' /\ ToSenderInv' /\ AlignedInv'
      BY <2>1, <1>1, <1>2 DEF StreamRest, ToReceiverInv, ToSenderInv, AlignedInv
    <2>3. StagedInv' /\ ReceiptInv'
      BY <2>1, <1>1, <1>2 DEF StreamRest, StagedInv, ReceiptInv, Complete
    <2>4. QED
      BY <2>2, <2>3 DEF StreamRest
  <1>4. CASE s = "receiver"
    <2>1. /\ party'["receiver"] = Idle /\ party'["sender"] = party["sender"]
          /\ wire'["receiver"] = <<>> /\ wire'["sender"] = wire["sender"]
          /\ ~Live'
      BY <1>1, <1>4, FailEffect, SidesFacts
    <2>2. ToReceiverInv' /\ ToSenderInv' /\ AlignedInv'
      BY <2>1, <1>1, <1>2 DEF StreamRest, ToReceiverInv, ToSenderInv, AlignedInv,
                              BetweenTransfers, Receiving
    <2>3. StagedInv' /\ ReceiptInv'
      BY <2>1, <1>1, <1>2 DEF StreamRest, StagedInv, ReceiptInv, Complete,
                              BetweenTransfers, Receiving
    <2>4. QED
      BY <2>2, <2>3 DEF StreamRest
  <1>5. QED
    BY <1>3, <1>4, SidesFacts

\* A sequence of at most one frame.
LEMMA OneFrame ==
    ASSUME NEW x
    PROVE  /\ Head(<<x>>) = x /\ Tail(<<x>>) = <<>> /\ <<x>> # <<>>
           /\ Append(<<>>, x) = <<x>> /\ Front(<<x>>) = <<>>
           /\ Len(<<x>>) = 1 /\ Len(<<>>) = 0
  BY DEF Front

\* Behind the only frame there is none.
LEMMA LastFrame ==
    ASSUME NEW T, NEW w \in Seq(T), Len(w) = 1
    PROVE  Tail(w) = <<>>
  <1> DEFINE u == Tail(w)
  <1>1. u \in Seq(T) /\ Len(u) = 0
    OBVIOUS
  <1> HIDE DEF u
  <1>2. u = <<>>
    BY <1>1
  <1>3. QED
    BY <1>2 DEF u

\* What reaches a dead connection's end may be less than what was sent.
LEMMA LoseKeepsStream ==
    ASSUME StreamInv, NEW s \in Sides, Lose(s)
    PROVE  StreamRest'
  <1>1. TypeOK /\ StreamRest
    BY DEF StreamInv, StreamRest
  <1>2. /\ party' = party /\ staged' = staged /\ authorized' = authorized
        /\ ~Live' /\ wire[s] # <<>> /\ wire'[s] = Front(wire[s])
        /\ wire'[Other(s)] = wire[Other(s)]
    BY <1>1, SidesFacts DEF Lose, TypeOK, Live, history
  <1>3. AlignedInv' /\ StagedInv'
    BY <1>1, <1>2 DEF StreamRest, AlignedInv, StagedInv
  <1>4. CASE s = "sender"
    <2>1. wire'["sender"] = <<>>
      BY <1>1, <1>2, <1>4, OneFrame DEF StreamRest, ToSenderInv
    <2>2. wire'["receiver"] = wire["receiver"]
      BY <1>2, <1>4, SidesFacts
    <2>3. ToReceiverInv' /\ ToSenderInv' /\ ReceiptInv'
      BY <2>1, <2>2, <1>1, <1>2 DEF StreamRest, ToReceiverInv, ToSenderInv, ReceiptInv,
                                    Complete
    <2>4. QED
      BY <2>3, <1>3 DEF StreamRest
  <1>5. CASE s = "receiver"
    <2> DEFINE w == wire["receiver"]
               R == party["receiver"]
    <2>1. wire'["sender"] = wire["sender"] /\ wire'["receiver"] = Front(w) /\ w # <<>>
      BY <1>2, <1>5, SidesFacts
    <2>2. w \in Seq(Frame)
      BY <1>1, SidesFacts DEF TypeOK
    <2>3. /\ Front(w) \in Seq(Frame) /\ Len(Front(w)) = Len(w) - 1
          /\ \A j \in 1 .. Len(w) - 1 : Front(w)[j] = w[j]
          /\ Len(w) \in Nat
      BY <2>1, <2>2 DEF Front
    <2>4. ToSenderInv' /\ ReceiptInv'
      BY <2>1, <1>1, <1>2, <1>5 DEF StreamRest, ToSenderInv, ReceiptInv, Complete
    <2>5. ToReceiverInv'
      <3>1. R.pc \in BetweenTransfers => Front(w) = <<>>
        BY <2>1, <1>1, OneFrame DEF StreamRest, ToReceiverInv
      <3>2. R.pc \notin {"authorize", "decide", "receipt"}
        BY <2>1, <1>1 DEF StreamRest, ToReceiverInv
      <3>3. R.pc \in Receiving =>
              /\ NextToRead(R) + Len(w) <= Chunks[R.id] + 2
              /\ \A j \in 1 .. Len(w) : w[j] = Remaining(R, j)
        BY <1>1 DEF StreamRest, ToReceiverInv
      <3>4. R.pc \in Receiving => NextToRead(R) \in Nat /\ Chunks[R.id] \in Nat
        BY <1>1, PartyFields DEF Receiving, NextToRead, ReceiverAt
      <3>5. R.pc \in Receiving =>
              /\ NextToRead(R) + Len(Front(w)) <= Chunks[R.id] + 2
              /\ \A j \in 1 .. Len(Front(w)) : Front(w)[j] = Remaining(R, j)
        <4>1. \A n \in Nat, m \in Nat, k \in Nat :
                n + k <= m + 2 => n + (k - 1) <= m + 2
          OBVIOUS
        <4>2. \A j \in 1 .. Len(w) - 1 : j \in 1 .. Len(w)
          BY <2>3
        <4>3. ASSUME R.pc \in Receiving
              PROVE  \A j \in 1 .. Len(w) - 1 : Front(w)[j] = Remaining(R, j)
          BY <4>3, <3>3, <4>2, <2>3
        <4>4. ASSUME R.pc \in Receiving
              PROVE  NextToRead(R) + (Len(w) - 1) <= Chunks[R.id] + 2
          BY <4>4, <2>3, <3>3, <3>4, <4>1
        <4>5. QED
          BY <2>3, <4>3, <4>4
      <3>6. QED
        BY <2>1, <3>1, <3>2, <3>5, <1>2 DEF ToReceiverInv
    <2>6. QED
      BY <2>4, <2>5, <1>3 DEF StreamRest
  <1>6. QED
    BY <1>4, <1>5, SidesFacts

\* So do the other things that happen besides the calls.
LEMMA OthersKeepStream ==
    ASSUME StreamInv,
           \/ \E s \in Sides : ChangeTrust(s) \/ HangUp(s)
           \/ Cut
           \/ Reconnect
           \/ UNCHANGED vars
    PROVE  StreamRest'
  <1>1. TypeOK /\ StreamRest
    BY DEF StreamInv, StreamRest
  <1>2. /\ party' = party /\ staged' = staged /\ authorized' = authorized
    BY DEF ChangeTrust, HangUp, Cut, Reconnect, vars, history
  <1>3. CASE UNCHANGED conn
    BY <1>1, <1>2, <1>3 DEF StreamRest, ToReceiverInv, ToSenderInv, AlignedInv,
                            StagedInv, ReceiptInv, Complete, conn, Live
  <1>4. CASE Cut
    <2>1. wire' = wire /\ ~Live'
      BY <1>4 DEF Cut, Live
    <2>2. QED
      BY <2>1, <1>1, <1>2 DEF StreamRest, ToReceiverInv, ToSenderInv, AlignedInv,
                              StagedInv, ReceiptInv, Complete
  <1>5. ASSUME NEW s \in Sides, HangUp(s)
        PROVE  StreamRest'
    <2>1. ~Live' /\ wire'[s] = <<>> /\ wire'[Other(s)] = wire[Other(s)]
      BY <1>1, <1>5, SidesFacts DEF HangUp, Close, Live, TypeOK
    <2>2. AlignedInv' /\ StagedInv'
      BY <2>1, <1>1, <1>2 DEF StreamRest, AlignedInv, StagedInv
    <2>3. CASE s = "sender"
      <3>1. wire'["sender"] = <<>> /\ wire'["receiver"] = wire["receiver"]
        BY <2>1, <2>3, SidesFacts
      <3>2. ToReceiverInv' /\ ToSenderInv' /\ ReceiptInv'
        BY <3>1, <1>1, <1>2 DEF StreamRest, ToReceiverInv, ToSenderInv, ReceiptInv,
                                Complete
      <3>3. QED
        BY <3>2, <2>2 DEF StreamRest
    <2>4. CASE s = "receiver"
      <3>1. wire'["receiver"] = <<>> /\ wire'["sender"] = wire["sender"]
        BY <2>1, <2>4, SidesFacts
      <3>2. party["receiver"].pc \in Receiving =>
                /\ NextToRead(party["receiver"]) \in Nat
                /\ Chunks[party["receiver"].id] \in Nat
                /\ NextToRead(party["receiver"]) <= Chunks[party["receiver"].id] + 2
        BY <1>1, PartyFields DEF Receiving, NextToRead, ReceiverAt
      <3>3. ToReceiverInv'
        BY <3>1, <3>2, <1>2 DEF ToReceiverInv
      <3>4. ToSenderInv' /\ ReceiptInv'
        BY <3>1, <1>1, <1>2 DEF StreamRest, ToSenderInv, ReceiptInv, Complete
      <3>5. QED
        BY <3>3, <3>4, <2>2 DEF StreamRest
    <2>5. QED
      BY <2>3, <2>4, SidesFacts
  <1>6. CASE Reconnect
    <2>1. /\ party["sender"].pc = "idle" /\ party["receiver"].pc = "idle"
          /\ wire'["sender"] = <<>> /\ wire'["receiver"] = <<>>
      BY <1>6, SidesFacts DEF Reconnect, Idle
    <2>2. QED
      BY <2>1, <1>2 DEF StreamRest, ToReceiverInv, ToSenderInv, AlignedInv, StagedInv,
                        ReceiptInv, BetweenTransfers, Receiving
  <1>7. QED
    BY <1>3, <1>4, <1>5, <1>6 DEF ChangeTrust, vars, conn

\* The sender asks for trust, reads its source or returns: it neither reads from
\* the connection nor writes to it.
LEMMA QuietSenderStep ==
    ASSUME StreamInv, NEW p, GoesOn("sender", p), UNCHANGED <<wire, staged, authorized>>,
           \/ party["sender"].pc = "idle" /\ p.pc = "announce"
           \/ party["sender"].pc = "confirm" /\ p.pc = "idle"
           \/ /\ party["sender"].pc = "source"
              /\ p.pc \in {"send", "completion"}
              /\ p.id = party["sender"].id /\ p.next = party["sender"].next
    PROVE  StreamRest'
  <1>1. StreamRest
    BY DEF StreamInv, StreamRest
  <1>2. /\ party'["sender"] = p /\ party'["receiver"] = party["receiver"]
        /\ Live' = Live
    BY SidesFacts DEF GoesOn
  <1>3. ToReceiverInv' /\ ToSenderInv' /\ StagedInv' /\ ReceiptInv'
    BY <1>1, <1>2 DEF StreamRest, ToReceiverInv, ToSenderInv, StagedInv, ReceiptInv,
                      Complete
  <1>4. AlignedInv'
    BY <1>1, <1>2 DEF StreamRest, AlignedInv
  <1>5. QED
    BY <1>3, <1>4 DEF StreamRest

\* The sender writes its next frame behind all that are on their way.
LEMMA SenderWrites ==
    ASSUME StreamInv, NEW f, NEW p, UNCHANGED <<staged, authorized>>,
           GoesOn("sender", p),
           wire'["sender"] = wire["sender"],
           Live => wire'["receiver"] = Append(wire["receiver"], f),
           ~Live => wire'["receiver"] = wire["receiver"],
           \/ /\ party["sender"].pc = "send"
              /\ f = Chunk(party["sender"].id, party["sender"].next)
              /\ p = At("source", party["sender"].id, party["sender"].next + 1)
           \/ /\ party["sender"].pc = "completion"
              /\ f = Completion(party["sender"].id)
              /\ p = At("receipt", party["sender"].id, party["sender"].next)
    PROVE  StreamRest'
  <1> DEFINE S == party["sender"]
             R == party["receiver"]
             toR == wire["receiver"]
  <1>1. TypeOK /\ PlacesInv /\ StreamRest
    BY DEF StreamInv, StreamRest
  <1>2. /\ party'["sender"] = p /\ party'["receiver"] = R
        /\ Live' = Live
    BY SidesFacts DEF GoesOn
  <1>3. /\ p.id = S.id
        /\ \/ S.pc = "send" /\ p.pc = "source" /\ p.next = S.next + 1
           \/ S.pc = "completion" /\ p.pc = "receipt" /\ p.next = S.next
    BY CallFieldsAt
  <1>4. /\ S.next \in 1 .. Chunks[S.id] + 1 /\ Chunks[S.id] \in Nat
        /\ S.pc = "send" => S.next <= Chunks[S.id]
        /\ S.pc = "completion" => S.next = Chunks[S.id] + 1
    BY <1>1, PartyFields DEF PlacesInv
  <1>5. wire["sender"] = <<>>
    BY <1>1 DEF StreamRest, ToSenderInv
  <1>6. ToSenderInv' /\ StagedInv' /\ ReceiptInv'
    BY <1>1, <1>2, <1>3, <1>5 DEF StreamRest, ToSenderInv, StagedInv, ReceiptInv
  <1>7. CASE ~Live
    <2>1. ToReceiverInv' /\ AlignedInv'
      BY <1>1, <1>2, <1>7 DEF StreamRest, ToReceiverInv, AlignedInv
    <2>2. QED
      BY <2>1, <1>6 DEF StreamRest
  <1>8. CASE Live
    <2>1. /\ R.pc \in Receiving /\ R.id = S.id
          /\ NextToRead(R) + Len(toR) = S.next
      BY <1>1, <1>3, <1>8 DEF StreamRest, AlignedInv
    <2>2. NextToRead(R) \in Nat
      BY <1>1, <2>1, PartyFields DEF Receiving, NextToRead, ReceiverAt
    <2>3. toR \in Seq(Frame)
      BY <1>1, SidesFacts DEF TypeOK
    <2>4. f = Remaining(R, Len(toR) + 1)
      BY <2>1, <2>2, <2>3, <1>3, <1>4 DEF Remaining
    <2>5. /\ Len(toR) \in Nat /\ Len(Append(toR, f)) = Len(toR) + 1
          /\ \A j \in 1 .. Len(toR) : Append(toR, f)[j] = toR[j]
          /\ Append(toR, f)[Len(toR) + 1] = f
      BY <2>3
    <2>6. \A j \in 1 .. Len(toR) : toR[j] = Remaining(R, j)
      BY <1>1, <2>1 DEF StreamRest, ToReceiverInv
    <2>7. \A j \in 1 .. Len(toR) + 1 : Append(toR, f)[j] = Remaining(R, j)
      <3>1. SUFFICES ASSUME NEW j \in 1 .. Len(toR) + 1
                     PROVE  Append(toR, f)[j] = Remaining(R, j)
        OBVIOUS
      <3>2. CASE j \in 1 .. Len(toR)
        BY <2>5, <2>6, <3>2
      <3>3. CASE j = Len(toR) + 1
        BY <2>4, <2>5, <3>3
      <3>4. j \in 1 .. Len(toR) \/ j = Len(toR) + 1
        BY <2>5
      <3>5. QED
        BY <3>2, <3>3, <3>4
    <2>8. wire'["receiver"] = Append(toR, f)
      BY <1>8
    <2>9. NextToRead(R) + Len(Append(toR, f)) <= Chunks[R.id] + 2
      BY <2>1, <2>2, <2>5, <1>3, <1>4
    <2>10. ToReceiverInv'
      BY <2>1, <2>5, <2>7, <2>8, <2>9, <1>2
         DEF ToReceiverInv, Receiving, BetweenTransfers
    <2>11. NextToRead(R) + Len(Append(toR, f)) = S.next + 1
      BY <2>1, <2>2, <2>5
    <2>12. wire'["sender"] = <<>>
      BY <1>5, <1>8, SidesFacts
    <2>13. /\ p.pc = "source" => p.next = S.next + 1
           /\ p.pc = "receipt" => Chunks[p.id] + 2 = S.next + 1
           /\ p.pc \in {"source", "receipt"}
      BY <1>3, <1>4
    <2>14. AlignedInv'
      BY <2>1, <2>8, <2>11, <2>12, <2>13, <1>2, <1>3 DEF AlignedInv, NextToRead
    <2>15. QED
      BY <2>10, <2>14, <1>6 DEF StreamRest
  <1>9. QED
    BY <1>7, <1>8

\* An offer goes to a receiver between two transfers, on an empty stream.
LEMMA SendOfferKeepsStream ==
    ASSUME StreamInv, SendOffer
    PROVE  StreamRest'
  <1> DEFINE S == party["sender"]
             R == party["receiver"]
             p == At("decision", S.id, 1)
  <1>1. TypeOK /\ StreamRest
    BY DEF StreamInv, StreamRest
  <1>2. S.pc = "announce" /\ Write("sender", Offer(S.id), p)
        /\ UNCHANGED <<staged, authorized>>
    BY DEF SendOffer, history
  <1>3. CASE Fail("sender")
    BY <1>2, <1>3, FailKeepsStream, SidesFacts
  <1>4. CASE /\ GoesOn("sender", p)
             /\ wire'["sender"] = wire["sender"]
             /\ Live => wire'["receiver"] = Append(wire["receiver"], Offer(S.id))
             /\ ~Live => wire'["receiver"] = wire["receiver"]
    <2>1. /\ party'["sender"] = p /\ party'["receiver"] = R /\ Live' = Live
      BY <1>4, SidesFacts DEF GoesOn
    <2>2. p.pc = "decision" /\ p.id = S.id
      BY CallFieldsAt
    <2>3. wire["sender"] = <<>>
      BY <1>1, <1>2 DEF StreamRest, ToSenderInv
    <2>4. ToSenderInv' /\ StagedInv' /\ ReceiptInv'
      BY <2>1, <2>2, <2>3, <1>1, <1>2, <1>4 DEF StreamRest, ToSenderInv, StagedInv, ReceiptInv
    <2>5. CASE ~Live
      <3>1. ToReceiverInv' /\ AlignedInv'
        BY <2>1, <2>5, <1>1, <1>4 DEF StreamRest, ToReceiverInv, AlignedInv
      <3>2. QED
        BY <3>1, <2>4 DEF StreamRest
    <2>6. CASE Live
      <3>1. R.pc \in BetweenTransfers /\ wire["receiver"] = <<>>
        BY <1>1, <1>2, <2>6 DEF StreamRest, AlignedInv
      <3>2. wire'["receiver"] = <<Offer(S.id)>>
        BY <3>1, <2>6, <1>4, OneFrame
      <3>3. S.id \in Transfers
        BY <1>1, <1>2, PartyFields
      <3>4. ToReceiverInv'
        BY <3>1, <3>2, <3>3, <2>1 DEF ToReceiverInv, BetweenTransfers, Receiving
      <3>5. AlignedInv'
        BY <3>1, <3>2, <2>1, <2>2, <2>3, <1>4 DEF AlignedInv
      <3>6. QED
        BY <3>4, <3>5, <2>4 DEF StreamRest
    <2>7. QED
      BY <2>5, <2>6
  <1>5. QED
    BY <1>1, <1>2, <1>3, <1>4, WriteEffect, SidesFacts

\* The sender learns of the decision that the receiver has acted on.
LEMMA TakeDecisionKeepsStream ==
    ASSUME StreamInv, TakeDecision
    PROVE  StreamRest'
  <1> DEFINE S == party["sender"]
             R == party["receiver"]
             place == [f \in {Decision(S.id, b) : b \in BOOLEAN} |->
                          AfterDecision(S.id, f.accepted)]
  <1>1. TypeOK /\ StreamRest
    BY DEF StreamInv, StreamRest
  <1>2. /\ S.pc = "decision" /\ Read("sender", place)
        /\ UNCHANGED <<staged, authorized>>
    BY DEF TakeDecision, history
  <1>3. CASE Fail("sender")
    BY <1>2, <1>3, FailKeepsStream, SidesFacts
  <1>4. ASSUME NEW f \in DOMAIN place,
               GoesOn("sender", place[f]),
               wire["sender"] # <<>>, Head(wire["sender"]) = f,
               wire'["sender"] = Tail(wire["sender"]),
               wire'["receiver"] = wire["receiver"]
        PROVE  StreamRest'
    <2>1. PICK b \in BOOLEAN : f = Decision(S.id, b)
      BY <1>4
    <2>2. wire["sender"] = <<Decision(S.id, b)>> /\ wire'["sender"] = <<>>
      <3>1. \E d \in BOOLEAN : wire["sender"] = <<Decision(S.id, d)>>
        BY <1>1, <1>2, <1>4 DEF StreamRest, ToSenderInv
      <3>2. QED
        BY <3>1, <2>1, <1>4, OneFrame
    <2>3. place[f] = AfterDecision(S.id, b)
      BY <2>1, <1>4, FrameFields
    <2> HIDE DEF place
    <2>4. /\ party'["sender"] = AfterDecision(S.id, b)
          /\ party'["receiver"] = R /\ Live' = Live
      BY <1>4, <2>3, SidesFacts DEF GoesOn
    <2>5. \/ b = TRUE /\ party'["sender"].pc = "source"
             /\ party'["sender"].id = S.id /\ party'["sender"].next = 1
          \/ b = FALSE /\ party'["sender"].pc = "idle"
      BY <2>4, CallFieldsAt DEF AfterDecision
    <2>6. ToReceiverInv' /\ ToSenderInv' /\ StagedInv' /\ ReceiptInv'
      BY <1>1, <1>2, <1>4, <2>2, <2>4, <2>5
         DEF StreamRest, ToReceiverInv, ToSenderInv, StagedInv, ReceiptInv
    <2>7. \A d \in BOOLEAN : <<Decision(S.id, b)>> = <<Decision(S.id, d)>> => b = d
      BY FrameFields, OneFrame
    <2>8. AlignedInv'
      <3>1. CASE ~Live
        BY <3>1, <2>4 DEF AlignedInv
      <3>2. CASE Live /\ b = TRUE
        <4>1. /\ R.pc = "chunk" /\ R.id = S.id /\ R.next = 1
              /\ wire["receiver"] = <<>>
          BY <1>1, <1>2, <2>2, <2>7, <3>2, OneFrame DEF StreamRest, AlignedInv
        <4>2. NextToRead(R) + Len(wire["receiver"]) = 1
          BY <4>1, OneFrame DEF NextToRead
        <4>3. QED
          BY <4>1, <4>2, <3>2, <1>4, <2>2, <2>4, <2>5 DEF AlignedInv, Receiving
      <3>3. CASE Live /\ b = FALSE
        <4>1. R.pc \in BetweenTransfers /\ wire["receiver"] = <<>>
          BY <1>1, <1>2, <2>2, <2>7, <3>3, OneFrame DEF StreamRest, AlignedInv
        <4>2. QED
          BY <4>1, <3>3, <1>4, <2>2, <2>4, <2>5 DEF AlignedInv
      <3>4. QED
        BY <3>1, <3>2, <3>3
    <2>9. QED
      BY <2>6, <2>8 DEF StreamRest
  <1> HIDE DEF place
  <1>5. QED
    BY <1>1, <1>2, <1>3, <1>4, ReadEffect, SidesFacts

\* A receipt that arrives speaks of a complete destination.
LEMMA TakeReceiptKeepsStream ==
    ASSUME StreamInv, TakeReceipt
    PROVE  StreamRest'
  <1> DEFINE S == party["sender"]
             R == party["receiver"]
             p == At("confirm", S.id, S.next)
             place == [f \in {Receipt(S.id)} |-> p]
  <1>1. TypeOK /\ StreamRest
    BY DEF StreamInv, StreamRest
  <1>2. /\ S.pc = "receipt" /\ Read("sender", place)
        /\ UNCHANGED <<staged, authorized>>
    BY DEF TakeReceipt
  <1>3. CASE Fail("sender")
    BY <1>2, <1>3, FailKeepsStream, SidesFacts
  <1>4. ASSUME NEW f \in DOMAIN place,
               GoesOn("sender", place[f]),
               wire["sender"] # <<>>, Head(wire["sender"]) = f,
               wire'["sender"] = Tail(wire["sender"]),
               wire'["receiver"] = wire["receiver"]
        PROVE  StreamRest'
    <2>1. place[f] = p
      BY <1>4
    <2> HIDE DEF place
    <2>2. wire["sender"] = <<Receipt(S.id)>> /\ wire'["sender"] = <<>>
      <3>1. wire["sender"] = <<Receipt(S.id)>>
        BY <1>1, <1>2, <1>4 DEF StreamRest, ToSenderInv
      <3>2. QED
        BY <3>1, <1>4, OneFrame
    <2>3. /\ party'["sender"].pc = "confirm" /\ party'["sender"].id = S.id
          /\ party'["receiver"] = R /\ Live' = Live
      BY <1>4, <2>1, CallFieldsAt, SidesFacts DEF GoesOn
    <2>4. ToReceiverInv' /\ ToSenderInv' /\ StagedInv'
      BY <1>1, <1>2, <1>4, <2>2, <2>3
         DEF StreamRest, ToReceiverInv, ToSenderInv, StagedInv
    <2>5. /\ S.id \in authorized /\ Complete(S.id)
          /\ R.pc \in BetweenTransfers /\ wire["receiver"] = <<>>
      BY <1>1, <1>2, <1>4 DEF StreamRest, ReceiptInv
    <2>6. ReceiptInv'
      BY <2>3, <2>5, <1>2, <1>4 DEF ReceiptInv, Complete
    <2>7. AlignedInv'
      BY <2>2, <2>3, <2>5, <1>4 DEF AlignedInv
    <2>8. QED
      BY <2>4, <2>6, <2>7 DEF StreamRest
  <1> HIDE DEF place
  <1>5. QED
    BY <1>1, <1>2, <1>3, <1>4, ReadEffect, SidesFacts

\* Whatever the sender does, the stream stays in step.
LEMMA SenderKeepsStream ==
    ASSUME StreamInv, SenderStep \/ \E t \in Transfers : StartSend(t)
    PROVE  StreamRest'
  <1> DEFINE S == party["sender"]
  <1>1. TypeOK
    BY DEF StreamInv
  <1>2. UNCHANGED <<staged, authorized>>
    BY DEF SenderStep, StartSend, SendOffer, TakeDecision, ReadSource, SendChunk,
           SendCompletion, TakeReceipt, ConfirmSend, history
  <1>3. Fail("sender") => StreamRest'
    BY <1>2, FailKeepsStream, SidesFacts
  <1>4. ASSUME NEW t \in Transfers, StartSend(t)
        PROVE  StreamRest'
    <2>1. S.pc = "idle" /\ At("announce", t, 1).pc = "announce"
      BY <1>4, CallFieldsAt DEF StartSend
    <2>2. QED
      BY <2>1, <1>1, <1>2, <1>3, <1>4, CheckpointEffect, QuietSenderStep, SidesFacts
         DEF StartSend
  <1>5. CASE ReadSource
    <2> DEFINE send == At("send", S.id, S.next)
               completion == At("completion", S.id, S.next)
    <2>1. /\ S.pc = "source"
          /\ \/ Checkpoint("sender", send)
             \/ Checkpoint("sender", completion)
             \/ Fail("sender")
      BY <1>5 DEF ReadSource
    <2>2. \A p \in {send, completion} :
              p.pc \in {"send", "completion"} /\ p.id = S.id /\ p.next = S.next
      BY CallFieldsAt
    <2> HIDE DEF send, completion
    <2>3. \/ Fail("sender")
          \/ \E p \in {send, completion} : GoesOn("sender", p) /\ UNCHANGED wire
      BY <2>1, <1>1, CheckpointEffect, SidesFacts
    <2>4. QED
      BY <2>1, <2>2, <2>3, <1>2, <1>3, QuietSenderStep
  <1>6. CASE SendChunk
    <2>1. S.pc = "send" /\ Write("sender", Chunk(S.id, S.next), At("source", S.id, S.next + 1))
      BY <1>6 DEF SendChunk
    <2>2. QED
      BY <2>1, <1>1, <1>2, <1>3, WriteEffect, SenderWrites, SidesFacts
  <1>7. CASE SendCompletion
    <2>1. S.pc = "completion" /\ Write("sender", Completion(S.id), At("receipt", S.id, S.next))
      BY <1>7 DEF SendCompletion
    <2>2. QED
      BY <2>1, <1>1, <1>2, <1>3, WriteEffect, SenderWrites, SidesFacts
  <1>8. CASE ConfirmSend
    <2>1. S.pc = "confirm" /\ Idle.pc = "idle" /\ Checkpoint("sender", Idle)
      BY <1>8, CallFieldsAt DEF ConfirmSend
    <2>2. QED
      BY <2>1, <1>1, <1>2, <1>3, CheckpointEffect, QuietSenderStep, SidesFacts
  <1>9. QED
    BY <1>4, <1>5, <1>6, <1>7, <1>8, SendOfferKeepsStream, TakeDecisionKeepsStream,
       TakeReceiptKeepsStream DEF SenderStep

\* The receiver asks for trust, before it decides or stages, or at the ends of
\* its call.
LEMMA QuietReceiverStep ==
    ASSUME StreamInv, NEW p, GoesOn("receiver", p), UNCHANGED <<wire, authorized>>,
           LET R == party["receiver"]
           IN  \/ R.pc = "idle" /\ p.pc = "offer" /\ UNCHANGED staged
               \/ R.pc = "confirm" /\ p.pc = "idle" /\ UNCHANGED staged
               \/ /\ R.pc = "authorize" /\ p.pc = "decide" /\ p.id = R.id
                  /\ UNCHANGED staged
               \/ /\ R.pc = "stage" /\ p.pc = "write"
                  /\ p.id = R.id /\ p.next = R.next
                  /\ UNCHANGED staged
    PROVE  StreamRest'
  <1> DEFINE R == party["receiver"]
  <1>1. StreamRest
    BY DEF StreamInv, StreamRest
  <1>2. /\ party'["receiver"] = p /\ party'["sender"] = party["sender"]
        /\ Live' = Live
    BY SidesFacts DEF GoesOn
  <1>3. R.pc = "stage" => NextToRead(p) = NextToRead(R)
                          /\ \A j \in 1 .. Len(wire["receiver"]) :
                                Remaining(p, j) = Remaining(R, j)
    BY DEF NextToRead, Remaining
  <1>4. StagedInv' /\ ReceiptInv' /\ ToSenderInv'
    BY <1>1, <1>2 DEF StreamRest, StagedInv, ReceiptInv, Complete, ToSenderInv, Receiving,
                      BetweenTransfers
  <1>5. ToReceiverInv'
    BY <1>1, <1>2, <1>3 DEF StreamRest, ToReceiverInv, Receiving, BetweenTransfers
  <1>6. AlignedInv'
    BY <1>1, <1>2, <1>3 DEF StreamRest, AlignedInv, Receiving, BetweenTransfers
  <1>7. QED
    BY <1>4, <1>5, <1>6 DEF StreamRest

\* A staged chunk is the next one.
LEMMA StageChunkKeepsStream ==
    ASSUME StreamInv, StageChunk
    PROVE  StreamRest'
  <1> DEFINE R == party["receiver"]
             p == At("chunk", R.id, R.next + 1)
  <1>1. TypeOK /\ PlacesInv /\ StreamRest
    BY DEF StreamInv, StreamRest
  <1>2. R.pc = "write" /\ UNCHANGED authorized
    BY DEF StageChunk, history
  <1>3. CASE Fail("receiver") /\ UNCHANGED staged
    BY <1>2, <1>3, FailKeepsStream, SidesFacts
  <1>4. ASSUME staged' = [staged EXCEPT ![R.id] = Append(@, R.next)],
               Goto("receiver", p), UNCHANGED conn
        PROVE  StreamRest'
    <2>1. /\ party'["receiver"] = p /\ party'["sender"] = party["sender"]
          /\ Live' = Live /\ wire' = wire
      BY <1>1, <1>4, SidesFacts DEF Goto, TypeOK, Live, conn
    <2>2. p.pc = "chunk" /\ p.id = R.id /\ p.next = R.next + 1
      BY CallFieldsAt
    <2>3. R.id \in Transfers /\ R.next \in Nat \ {0} /\ Chunks[R.id] \in Nat
      BY <1>1, <1>2, PartyFields
    <2>4. NextToRead(p) = NextToRead(R)
          /\ \A j \in 1 .. Len(wire["receiver"]) : Remaining(p, j) = Remaining(R, j)
      BY <1>2, <2>2 DEF NextToRead, Remaining
    <2>5. StagedInv'
      <3>1. staged[R.id] = [i \in 1 .. R.next - 1 |-> i] /\ R.id \in authorized
        BY <1>1, <1>2 DEF StreamRest, StagedInv, Receiving
      <3>2. staged'[R.id] = Append(staged[R.id], R.next)
        BY <1>1, <1>4, <2>3 DEF TypeOK
      <3>3. staged[R.id] \in Seq(Nat)
        BY <1>1, <2>3 DEF TypeOK
      <3>4. Len(staged[R.id]) = R.next - 1
        BY <3>1, <3>3, <2>3
      <3>5. Append(staged[R.id], R.next) = [i \in 1 .. R.next |-> i]
        BY <3>1, <3>3, <3>4, <2>3
      <3>6. p.next - 1 = R.next
        BY <2>2, <2>3
      <3>7. QED
        BY <3>1, <3>2, <3>5, <3>6, <1>2, <2>1, <2>2 DEF StagedInv
    <2>6. ReceiptInv' /\ ToSenderInv'
      BY <1>1, <1>2, <2>1 DEF StreamRest, ReceiptInv, ToSenderInv, BetweenTransfers
    <2>7. ToReceiverInv'
      BY <1>1, <1>2, <2>1, <2>2, <2>4
         DEF StreamRest, ToReceiverInv, Receiving, BetweenTransfers
    <2>8. AlignedInv'
      BY <1>1, <1>2, <2>1, <2>2, <2>4
         DEF StreamRest, AlignedInv, Receiving, BetweenTransfers
    <2>9. QED
      BY <2>5, <2>6, <2>7, <2>8 DEF StreamRest
  <1>5. QED
    BY <1>3, <1>4 DEF StageChunk, StagingFails

\* The receiver takes the only offer there is.
LEMMA TakeOfferKeepsStream ==
    ASSUME StreamInv, TakeOffer
    PROVE  StreamRest'
  <1> DEFINE S == party["sender"]
             R == party["receiver"]
             place == [f \in {Offer(t) : t \in Transfers} |-> At("authorize", f.id, 1)]
  <1>1. TypeOK /\ StreamRest
    BY DEF StreamInv, StreamRest
  <1>2. /\ R.pc = "offer" /\ Read("receiver", place)
        /\ UNCHANGED <<staged, authorized>>
    BY DEF TakeOffer, history
  <1>3. CASE Fail("receiver")
    BY <1>2, <1>3, FailKeepsStream, SidesFacts
  <1>4. ASSUME NEW f \in DOMAIN place,
               GoesOn("receiver", place[f]),
               wire["receiver"] # <<>>, Head(wire["receiver"]) = f,
               wire'["receiver"] = Tail(wire["receiver"]),
               wire'["sender"] = wire["sender"]
        PROVE  StreamRest'
    <2>1. PICK t \in Transfers : f = Offer(t)
      BY <1>4
    <2>2. place[f] = At("authorize", t, 1)
      BY <2>1, <1>4, FrameFields
    <2> HIDE DEF place
    <2>3. wire["receiver"] = <<Offer(t)>> /\ wire'["receiver"] = <<>>
      <3>1. \E u \in Transfers : wire["receiver"] = <<Offer(u)>>
        BY <1>1, <1>2, <1>4 DEF StreamRest, ToReceiverInv, BetweenTransfers
      <3>2. QED
        BY <3>1, <2>1, <1>4, OneFrame
    <2>4. /\ party'["receiver"].pc = "authorize" /\ party'["receiver"].id = t
          /\ party'["sender"] = S /\ Live' = Live
      BY <1>4, <2>2, CallFieldsAt, SidesFacts DEF GoesOn
    <2>5. ToReceiverInv' /\ ToSenderInv' /\ StagedInv' /\ ReceiptInv'
      BY <1>1, <1>2, <1>4, <2>3, <2>4
         DEF StreamRest, ToReceiverInv, ToSenderInv, StagedInv, ReceiptInv,
             BetweenTransfers, Receiving
    <2>6. \A u : <<Offer(t)>> = <<Offer(u)>> => t = u
      BY FrameFields, OneFrame
    <2>7. AlignedInv'
      <3>1. CASE ~Live
        BY <3>1, <2>4 DEF AlignedInv
      <3>2. CASE Live
        <4>1. S.pc \in SenderAt \cup {"idle"}
          BY <1>1, PartyFields
        <4>2. S.pc = "decision" /\ wire["sender"] = <<>> /\ t = S.id
          BY <1>1, <1>2, <1>4, <2>3, <2>6, <3>2, <4>1
             DEF StreamRest, AlignedInv, Receiving, SenderAt
        <4>3. QED
          BY <4>2, <1>4, <2>3, <2>4 DEF AlignedInv
      <3>3. QED
        BY <3>1, <3>2
    <2>8. QED
      BY <2>5, <2>7 DEF StreamRest
  <1> HIDE DEF place
  <1>5. QED
    BY <1>1, <1>2, <1>3, <1>4, ReadEffect, SidesFacts

\* The sender still waits for this decision, if the connection lives; its fresh
\* destination replaces none that a receipt speaks of.
LEMMA DecideKeepsStream ==
    ASSUME StreamInv, Decide
    PROVE  StreamRest'
  <1> DEFINE S == party["sender"]
             R == party["receiver"]
             Answer(b) == IF b THEN At("chunk", R.id, 1) ELSE Idle
             told == S.pc = "confirm" \/ (S.pc = "receipt" /\ wire["sender"] # <<>>)
  <1>1. TypeOK /\ StreamRest
    BY DEF StreamInv, StreamRest
  <1>2. R.pc = "decide" /\ R.id \in Transfers /\ Chunks[R.id] \in Nat
    BY <1>1, PartyFields DEF Decide
  \* No sender holds a receipt, or has one on its way.
  <1>3. wire["receiver"] = <<>> /\ ~told
    BY <1>1, <1>2 DEF StreamRest, ToReceiverInv, ReceiptInv, BetweenTransfers
  <1>4. \E b \in BOOLEAN :
            /\ Write("receiver", Decision(R.id, b), Answer(b))
            /\ b = TRUE => /\ authorized' = authorized \cup {R.id}
                           /\ staged' = [staged EXCEPT ![R.id] = <<>>]
            /\ b = FALSE => UNCHANGED <<staged, authorized>>
    <2>1. \/ /\ Write("receiver", Decision(R.id, TRUE), Answer(TRUE))
             /\ authorized' = authorized \cup {R.id}
             /\ staged' = [staged EXCEPT ![R.id] = <<>>]
          \/ /\ Write("receiver", Decision(R.id, FALSE), Answer(FALSE))
             /\ UNCHANGED <<staged, authorized>>
      BY DEF Decide
    <2> HIDE DEF Answer
    <2>2. QED
      BY <2>1
  <1>5. PICK b \in BOOLEAN :
            /\ Write("receiver", Decision(R.id, b), Answer(b))
            /\ b = TRUE => /\ authorized' = authorized \cup {R.id}
                           /\ staged' = [staged EXCEPT ![R.id] = <<>>]
            /\ b = FALSE => UNCHANGED <<staged, authorized>>
    BY <1>4
  <1>6. CASE Fail("receiver")
    <2>1. /\ party'["receiver"].pc = "idle" /\ party'["sender"] = S
          /\ wire'["receiver"] = <<>> /\ wire'["sender"] = wire["sender"]
          /\ ~Live'
      BY <1>1, <1>6, FailEffect, SidesFacts, CallFieldsAt
    <2>2. QED
      BY <2>1, <1>1, <1>3 DEF StreamRest, ToReceiverInv, ToSenderInv, AlignedInv,
                              StagedInv, ReceiptInv, BetweenTransfers, Receiving
  <1>7. ASSUME GoesOn("receiver", Answer(b)),
               wire'["receiver"] = wire["receiver"],
               Live => wire'["sender"] = Append(wire["sender"], Decision(R.id, b)),
               ~Live => wire'["sender"] = wire["sender"]
        PROVE  StreamRest'
    <2>1. /\ party'["receiver"] = Answer(b) /\ party'["sender"] = S
          /\ Live' = Live /\ wire'["receiver"] = <<>>
      BY <1>3, <1>7, SidesFacts DEF GoesOn
    <2>2. \/ /\ b = TRUE /\ Answer(b).pc = "chunk"
             /\ Answer(b).id = R.id /\ Answer(b).next = 1
          \/ b = FALSE /\ Answer(b).pc = "idle"
      BY CallFieldsAt
    <2> HIDE DEF Answer
    <2>3. ToReceiverInv'
      <3>1. b = TRUE => NextToRead(Answer(b)) = 1
        BY <2>2 DEF NextToRead
      <3>2. QED
        BY <2>1, <2>2, <3>1, <1>2 DEF ToReceiverInv, BetweenTransfers, Receiving
    <2>4. StagedInv'
      <3>1. CASE b = FALSE
        BY <3>1, <2>1, <2>2 DEF StagedInv, Receiving
      <3>2. CASE b = TRUE
        <4>1. R.id \in authorized' /\ staged'[R.id] = <<>>
          BY <3>2, <1>1, <1>2, <1>5 DEF TypeOK
        <4>2. <<>> = [i \in 1 .. 1 - 1 |-> i]
          OBVIOUS
        <4>3. QED
          BY <3>2, <4>1, <4>2, <2>1, <2>2 DEF StagedInv
      <3>3. QED
        BY <3>1, <3>2
    <2>5. CASE ~Live
      <3>1. ToSenderInv' /\ AlignedInv' /\ ReceiptInv'
        BY <2>1, <2>5, <1>1, <1>3, <1>7 DEF StreamRest, ToSenderInv, AlignedInv, ReceiptInv
      <3>2. QED
        BY <3>1, <2>3, <2>4 DEF StreamRest
    <2>6. CASE Live
      <3>1. S.pc \in SenderAt \cup {"idle"}
        BY <1>1, PartyFields
      <3>2. S.pc = "decision" /\ R.id = S.id /\ wire["sender"] = <<>>
        BY <3>1, <2>6, <1>1, <1>2
           DEF StreamRest, AlignedInv, SenderAt, BetweenTransfers, Receiving
      <3>3. wire'["sender"] = <<Decision(S.id, b)>>
        BY <3>2, <2>6, <1>7, OneFrame
      <3>4. ToSenderInv' /\ ReceiptInv'
        BY <3>2, <3>3, <2>1 DEF ToSenderInv, ReceiptInv
      <3>5. AlignedInv'
        BY <3>2, <3>3, <2>1, <2>2 DEF AlignedInv, BetweenTransfers
      <3>6. QED
        BY <3>4, <3>5, <2>3, <2>4 DEF StreamRest
    <2>7. QED
      BY <2>5, <2>6
  <1> HIDE DEF Answer
  <1>8. QED
    BY <1>1, <1>5, <1>6, <1>7, WriteEffect, SidesFacts

\* A receipt is sent when every chunk is staged, to a sender that waits for it.
LEMMA SendReceiptKeepsStream ==
    ASSUME StreamInv, SendReceipt
    PROVE  StreamRest'
  <1> DEFINE S == party["sender"]
             R == party["receiver"]
             p == At("confirm", R.id, R.next)
  <1>1. TypeOK /\ PlacesInv /\ StreamRest
    BY DEF StreamInv, StreamRest
  <1>2. /\ R.pc = "receipt" /\ Write("receiver", Receipt(R.id), p)
        /\ UNCHANGED <<staged, authorized>>
    BY DEF SendReceipt, history
  <1>3. R.id \in Transfers /\ R.next = Chunks[R.id] + 1 /\ Chunks[R.id] \in Nat
    BY <1>1, <1>2, PartyFields DEF PlacesInv
  <1>4. CASE Fail("receiver")
    BY <1>2, <1>4, FailKeepsStream, SidesFacts
  <1>5. ASSUME GoesOn("receiver", p),
               wire'["receiver"] = wire["receiver"],
               Live => wire'["sender"] = Append(wire["sender"], Receipt(R.id)),
               ~Live => wire'["sender"] = wire["sender"]
        PROVE  StreamRest'
    <2>1. /\ party'["receiver"] = p /\ party'["sender"] = S /\ Live' = Live
      BY <1>5, SidesFacts DEF GoesOn
    <2>2. p.pc = "confirm" /\ p.id = R.id /\ p.next = R.next
      BY CallFieldsAt
    <2>3. wire["receiver"] = <<>>
      BY <1>1, <1>2 DEF StreamRest, ToReceiverInv
    <2>4. R.id \in authorized /\ staged[R.id] = [i \in 1 .. R.next - 1 |-> i]
      BY <1>1, <1>2 DEF StreamRest, StagedInv
    <2>5. ToReceiverInv' /\ StagedInv'
      BY <2>1, <2>2, <2>3, <2>4, <1>2, <1>5
         DEF ToReceiverInv, StagedInv, BetweenTransfers, Receiving
    <2>6. CASE ~Live
      <3>1. ToSenderInv' /\ AlignedInv' /\ ReceiptInv'
        BY <2>1, <2>6, <1>1, <1>2, <1>5
           DEF StreamRest, ToSenderInv, AlignedInv, ReceiptInv, BetweenTransfers
      <3>2. QED
        BY <3>1, <2>5 DEF StreamRest
    <2>7. CASE Live
      <3>1. S.pc \in SenderAt \cup {"idle"}
        BY <1>1, PartyFields
      <3>2. S.pc = "receipt" /\ R.id = S.id /\ wire["sender"] = <<>>
        BY <3>1, <2>7, <1>1, <1>2
           DEF StreamRest, AlignedInv, SenderAt, BetweenTransfers, Receiving
      <3>3. wire'["sender"] = <<Receipt(S.id)>>
        BY <3>2, <2>7, <1>5, OneFrame
      <3>4. Complete(S.id)
        BY <3>2, <2>4, <1>3 DEF Complete
      <3>5. ToSenderInv' /\ ReceiptInv'
        BY <3>2, <3>3, <3>4, <2>1, <2>2, <2>3, <2>4, <1>2, <1>5
           DEF ToSenderInv, ReceiptInv, Complete, BetweenTransfers
      <3>6. AlignedInv'
        BY <3>2, <3>3, <2>1, <2>2, <2>3, <1>5 DEF AlignedInv, BetweenTransfers
      <3>7. QED
        BY <3>5, <3>6, <2>5 DEF StreamRest
    <2>8. QED
      BY <2>6, <2>7
  <1>6. QED
    BY <1>1, <1>2, <1>4, <1>5, WriteEffect, SidesFacts

\* The first chunk on its way is taken off, the others stay in order.
LEMMA TakeChunkKeepsStream ==
    ASSUME StreamInv, TakeChunk
    PROVE  StreamRest'
  <1> DEFINE S == party["sender"]
             R == party["receiver"]
             p == At("stage", R.id, R.next)
             w == wire["receiver"]
             place == [f \in {Chunk(R.id, R.next)} |-> p]
  <1>1. TypeOK /\ StreamRest
    BY DEF StreamInv, StreamRest
  <1>2. /\ R.pc = "chunk" /\ Read("receiver", place)
        /\ UNCHANGED <<staged, authorized>>
    BY DEF TakeChunk, history
  <1>3. R.id \in Transfers /\ R.next \in Nat /\ Chunks[R.id] \in Nat
    BY <1>1, <1>2, PartyFields
  <1>4. CASE Fail("receiver")
    BY <1>2, <1>4, FailKeepsStream, SidesFacts
  <1>5. ASSUME NEW f \in DOMAIN place,
               GoesOn("receiver", place[f]),
               w # <<>>,
               wire'["receiver"] = Tail(w),
               wire'["sender"] = wire["sender"]
        PROVE  StreamRest'
    <2>1. place[f] = p
      BY <1>5
    <2> HIDE DEF place
    <2>2. /\ party'["receiver"] = p /\ party'["sender"] = S /\ Live' = Live
          /\ p.pc = "stage" /\ p.id = R.id /\ p.next = R.next
      BY <1>5, <2>1, CallFieldsAt, SidesFacts DEF GoesOn
    <2> HIDE DEF p
    <2>3. w \in Seq(Frame)
      BY <1>1, SidesFacts DEF TypeOK
    <2>4. /\ Len(w) \in Nat /\ Len(Tail(w)) = Len(w) - 1
          /\ \A j \in 1 .. Len(w) - 1 : Tail(w)[j] = w[j + 1]
      BY <2>3, <1>5
    <2>5. /\ NextToRead(R) = R.next /\ NextToRead(p) = R.next + 1
      BY <1>2, <2>2 DEF NextToRead
    <2>6. /\ R.next + Len(w) <= Chunks[R.id] + 2
          /\ \A j \in 1 .. Len(w) : w[j] = Remaining(R, j)
      BY <1>1, <1>2, <2>5 DEF StreamRest, ToReceiverInv, Receiving
    <2>7. \A j \in 1 .. Len(w) - 1 : Remaining(p, j) = Remaining(R, j + 1)
      <3>1. ASSUME NEW j \in 1 .. Len(w) - 1
            PROVE  NextToRead(p) + j - 1 = NextToRead(R) + (j + 1) - 1
        BY <2>4, <2>5, <1>3
      <3>2. QED
        BY <3>1, <2>2 DEF Remaining
    <2>8. NextToRead(p) + Len(Tail(w)) = NextToRead(R) + Len(w)
      BY <2>4, <2>5, <1>3
    <2>9. ToReceiverInv'
      <3>1. \A j \in 1 .. Len(Tail(w)) : Tail(w)[j] = Remaining(p, j)
        BY <2>4, <2>6, <2>7
      <3>2. QED
        BY <3>1, <2>2, <2>5, <2>6, <2>8, <1>5
           DEF ToReceiverInv, BetweenTransfers, Receiving
    <2>10. StagedInv' /\ ReceiptInv' /\ ToSenderInv'
      BY <2>2, <1>1, <1>2, <1>5
         DEF StreamRest, StagedInv, ReceiptInv, ToSenderInv, BetweenTransfers, Receiving
    <2>11. AlignedInv'
      BY <2>2, <2>5, <2>8, <1>1, <1>2, <1>5
         DEF StreamRest, AlignedInv, BetweenTransfers, Receiving
    <2>12. QED
      BY <2>9, <2>10, <2>11 DEF StreamRest
  <1> HIDE DEF place
  <1>6. QED
    BY <1>1, <1>2, <1>4, <1>5, ReadEffect, SidesFacts

\* The completion is the last frame, and the sender waits for the receipt.
LEMMA TakeCompletionKeepsStream ==
    ASSUME StreamInv, TakeCompletion
    PROVE  StreamRest'
  <1> DEFINE S == party["sender"]
             R == party["receiver"]
             p == At("receipt", R.id, R.next)
             w == wire["receiver"]
             place == [f \in {Completion(R.id)} |-> p]
  <1>1. TypeOK /\ StreamRest
    BY DEF StreamInv, StreamRest
  <1>2. /\ R.pc = "chunk" /\ Read("receiver", place)
        /\ UNCHANGED <<staged, authorized>>
    BY DEF TakeCompletion, history
  <1>3. R.id \in Transfers /\ R.next = Chunks[R.id] + 1 /\ Chunks[R.id] \in Nat
    BY <1>1, <1>2, PartyFields DEF TakeCompletion, MoreChunks
  <1>4. CASE Fail("receiver")
    BY <1>2, <1>4, FailKeepsStream, SidesFacts
  <1>5. ASSUME NEW f \in DOMAIN place,
               GoesOn("receiver", place[f]),
               w # <<>>,
               wire'["receiver"] = Tail(w),
               wire'["sender"] = wire["sender"]
        PROVE  StreamRest'
    <2>1. place[f] = p
      BY <1>5
    <2> HIDE DEF place
    <2>2. /\ party'["receiver"] = p /\ party'["sender"] = S /\ Live' = Live
          /\ p.pc = "receipt" /\ p.id = R.id /\ p.next = R.next
      BY <1>5, <2>1, CallFieldsAt, SidesFacts DEF GoesOn
    <2> HIDE DEF p
    <2>3. w \in Seq(Frame)
      BY <1>1, SidesFacts DEF TypeOK
    <2>4. NextToRead(R) = R.next
      BY <1>2 DEF NextToRead
    <2>5. Len(w) = 1
      <3>1. R.next + Len(w) <= Chunks[R.id] + 2
        BY <1>1, <1>2, <2>4 DEF StreamRest, ToReceiverInv, Receiving
      <3>2. Len(w) \in Nat /\ Len(w) # 0
        BY <1>5, <2>3
      <3>3. \A m, n \in Nat : m + 1 + n <= m + 2 /\ n # 0 => n = 1
        OBVIOUS
      <3>4. QED
        BY <3>1, <3>2, <3>3, <1>3
    <2>6. Tail(w) = <<>>
      BY <2>3, <2>5, LastFrame
    <2>7. ToReceiverInv'
      BY <2>2, <2>6, <1>5 DEF ToReceiverInv, BetweenTransfers, Receiving
    <2>8. StagedInv' /\ ReceiptInv' /\ ToSenderInv'
      BY <2>2, <1>1, <1>2, <1>5
         DEF StreamRest, StagedInv, ReceiptInv, ToSenderInv, BetweenTransfers, Receiving
    <2>9. AlignedInv'
      <3>1. CASE ~Live
        BY <3>1, <2>2 DEF AlignedInv
      <3>2. CASE Live
        <4>1. S.pc \in SenderAt \cup {"idle"}
          BY <1>1, PartyFields
        <4>2. S.pc \in SenderAt => S.next \in 1 .. Chunks[S.id] + 1
          BY <1>1, PartyFields DEF SenderAt
        <4>3. /\ S.pc \notin {"idle", "announce", "confirm"}
              /\ S.pc # "decision"
          BY <3>2, <1>1, <1>2, <1>5
             DEF StreamRest, AlignedInv, BetweenTransfers
        <4>4. S.pc \notin {"source", "send", "completion"}
          <5>1. SUFFICES ASSUME S.pc \in {"source", "send", "completion"}
                         PROVE  FALSE
            OBVIOUS
          <5>2. R.id = S.id /\ NextToRead(R) + Len(w) = S.next
            BY <5>1, <3>2, <1>1 DEF StreamRest, AlignedInv
          <5>3. S.next <= Chunks[S.id] + 1 /\ S.next \in Nat
            BY <5>1, <1>1, PartyFields
          <5>4. QED
            BY <5>2, <5>3, <2>4, <2>5, <1>3
        <4>5. S.pc = "receipt"
          BY <4>1, <4>3, <4>4 DEF SenderAt
        <4>6. R.id = S.id /\ wire["sender"] = <<>>
          BY <4>5, <3>2, <1>1, <1>2 DEF StreamRest, AlignedInv, BetweenTransfers
        <4>7. QED
          BY <4>5, <4>6, <2>2, <2>6, <1>5 DEF AlignedInv
      <3>3. QED
        BY <3>1, <3>2
    <2>10. QED
      BY <2>7, <2>8, <2>9 DEF StreamRest
  <1> HIDE DEF place
  <1>6. QED
    BY <1>1, <1>2, <1>4, <1>5, ReadEffect, SidesFacts

\* Whatever the receiver does, the stream stays in step.
LEMMA ReceiverKeepsStream ==
    ASSUME StreamInv, ReceiverStep \/ StartReceive
    PROVE  StreamRest'
  <1> DEFINE R == party["receiver"]
  <1>1. TypeOK
    BY DEF StreamInv
  <1>2. Fail("receiver") /\ UNCHANGED <<staged, authorized>> => StreamRest'
    BY FailKeepsStream, SidesFacts
  <1>3. CASE StartReceive
    <2>1. R.pc = "idle" /\ Waiting.pc = "offer"
      BY <1>3, CallFieldsAt DEF StartReceive
    <2>2. QED
      BY <2>1, <1>1, <1>2, <1>3, CheckpointEffect, QuietReceiverStep, SidesFacts
         DEF StartReceive, history
  <1>4. CASE GuardAuthorize
    <2> DEFINE p == At("decide", R.id, 1)
    <2>1. R.pc = "authorize" /\ Checkpoint("receiver", p)
          /\ UNCHANGED <<staged, authorized>>
      BY <1>4 DEF GuardAuthorize, history
    <2>2. p.pc = "decide" /\ p.id = R.id
      BY CallFieldsAt
    <2> HIDE DEF p
    <2>3. QED
      BY <2>1, <2>2, <1>1, <1>2, CheckpointEffect, QuietReceiverStep, SidesFacts
  <1>5. CASE GuardStaging
    <2> DEFINE p == At("write", R.id, R.next)
    <2>1. R.pc = "stage" /\ Checkpoint("receiver", p)
          /\ UNCHANGED <<staged, authorized>>
      BY <1>5 DEF GuardStaging, history
    <2>2. p.pc = "write" /\ p.id = R.id /\ p.next = R.next
      BY CallFieldsAt
    <2> HIDE DEF p
    <2>3. QED
      BY <2>1, <2>2, <1>1, <1>2, CheckpointEffect, QuietReceiverStep, SidesFacts
  <1>6. CASE ConfirmReceive
    <2>1. R.pc = "confirm" /\ Idle.pc = "idle" /\ Checkpoint("receiver", Idle)
          /\ UNCHANGED <<staged, authorized>>
      BY <1>6, CallFieldsAt DEF ConfirmReceive, history
    <2>2. QED
      BY <2>1, <1>1, <1>2, CheckpointEffect, QuietReceiverStep, SidesFacts
  <1>7. QED
    BY <1>3, <1>4, <1>5, <1>6, TakeOfferKeepsStream, DecideKeepsStream,
       TakeChunkKeepsStream, TakeCompletionKeepsStream, StageChunkKeepsStream,
       SendReceiptKeepsStream DEF ReceiverStep

\* A new connection is in step.
LEMMA StreamInit == Init => StreamInv
  <1> SUFFICES ASSUME Init PROVE StreamInv
    OBVIOUS
  <1>1. /\ party["sender"].pc = "idle" /\ party["receiver"].pc = "idle"
        /\ wire["sender"] = <<>> /\ wire["receiver"] = <<>>
    BY SidesFacts DEF Init, Idle
  <1>2. StreamRest
    BY <1>1 DEF StreamRest, ToReceiverInv, ToSenderInv, AlignedInv, StagedInv,
                ReceiptInv, BetweenTransfers, Receiving
  <1>3. QED
    BY <1>2, TypesInit DEF StreamInv, StreamRest

\* Every step keeps it in step.
LEMMA StreamStep == StreamInv /\ [Next]_vars => StreamInv'
  <1> SUFFICES ASSUME StreamInv, [Next]_vars
               PROVE  StreamInv'
    OBVIOUS
  <1>1. TypeOK' /\ PlacesInv'
    BY TypesStep DEF StreamInv
  <1>2. StreamRest'
    BY SenderKeepsStream, ReceiverKeepsStream, LoseKeepsStream, OthersKeepStream DEF Next
  <1>3. QED
    BY <1>1, <1>2 DEF StreamInv, StreamRest

\* The inductive invariant of the two calls and the connection between them: as
\* long as it lives, where the sender is is where the receiver is and what is in
\* flight in between.
THEOREM StreamAligned == Spec => []StreamInv
  BY StreamInit, StreamStep, PTL DEF Spec

\* The invariant says which frame is first.
LEMMA StreamImpliesInStep == StreamInv => StreamInStep
  <1> SUFFICES ASSUME StreamInv, NEW s \in Sides, open[s], wire[s] # <<>>
               PROVE  Head(wire[s]) \in Awaited(s)
    BY DEF StreamInStep
  <1> DEFINE R == party["receiver"]
             w == wire["receiver"]
  <1>1. CASE s = "sender"
    BY <1>1, OneFrame DEF StreamInv, ToSenderInv, Awaited
  <1>2. CASE s = "receiver"
    <2>1. CASE R.pc \in BetweenTransfers
      <3>1. \E t \in Transfers : Head(w) = Offer(t)
        BY <1>2, <2>1, OneFrame DEF StreamInv, ToReceiverInv
      <3>2. QED
        BY <3>1, <1>2, <2>1 DEF Awaited, BetweenTransfers
    <2>2. CASE R.pc \in Receiving
      <3>1. w \in Seq(Frame) /\ Len(w) >= 1 /\ Head(w) = w[1]
        BY <1>2, SidesFacts DEF StreamInv, TypeOK
      <3>2. Head(w) = Remaining(R, 1)
        BY <2>2, <3>1 DEF StreamInv, ToReceiverInv
      <3>3. R.next \in Nat
        BY <2>2, PartyFields DEF StreamInv, Receiving
      <3>4. NextToRead(R) + 1 - 1 = NextToRead(R)
        BY <3>3 DEF NextToRead
      <3>5. QED
        BY <3>2, <3>4, <1>2, <2>2 DEF Remaining, Awaited, NextToRead, Receiving
    <2>3. R.pc \in BetweenTransfers \cup Receiving
      BY <1>2, PartyFields DEF StreamInv, ToReceiverInv, ReceiverAt, BetweenTransfers,
                               Receiving
    <2>4. QED
      BY <2>1, <2>2, <2>3
  <1>3. QED
    BY <1>1, <1>2, SidesFacts

\* The invariant says to whom chunks are on their way.
LEMMA StreamImpliesAccepted == StreamInv => AcceptedBeforePayload
  <1> SUFFICES ASSUME StreamInv, NEW f \in ToSet(wire["receiver"]), f.kind = "chunk"
               PROVE  /\ party["receiver"].pc \in Receiving
                      /\ party["receiver"].id = f.id
    BY DEF AcceptedBeforePayload, Receiving
  <1> DEFINE R == party["receiver"]
             w == wire["receiver"]
  <1>1. w \in Seq(Frame)
    BY SidesFacts DEF StreamInv, TypeOK
  <1>2. PICK j \in 1 .. Len(w) : f = w[j]
    BY <1>1 DEF ToSet
  <1>3. R.pc \notin BetweenTransfers
    <2> SUFFICES ASSUME R.pc \in BetweenTransfers PROVE FALSE
      OBVIOUS
    <2>1. \E t \in Transfers : w = <<Offer(t)>>
      BY <1>1, <1>2 DEF StreamInv, ToReceiverInv
    <2>2. \E t \in Transfers : f = Offer(t)
      BY <2>1, <1>2
    <2>3. QED
      BY <2>2, FrameFields
  <1>4. R.pc \in Receiving
    BY <1>1, <1>2, <1>3, PartyFields
       DEF StreamInv, ToReceiverInv, ReceiverAt, BetweenTransfers, Receiving
  <1>5. f = Remaining(R, j)
    BY <1>2, <1>4 DEF StreamInv, ToReceiverInv
  <1>6. f.id = R.id
    BY <1>5, FrameFields DEF Remaining
  <1>7. QED
    BY <1>4, <1>6

\* The invariant says what a receipt speaks of.
LEMMA StreamImpliesStaged == StreamInv => ReceiptMeansStaged
  <1> SUFFICES ASSUME StreamInv, NEW s \in Sides, party[s].pc = "confirm"
               PROVE  Complete(party[s].id)
    BY DEF ReceiptMeansStaged
  <1>1. CASE s = "sender"
    BY <1>1 DEF StreamInv, ReceiptInv
  <1>2. CASE s = "receiver"
    <2> DEFINE R == party["receiver"]
    <2>1. R.next = Chunks[R.id] + 1 /\ Chunks[R.id] \in Nat
      BY <1>2, PartyFields DEF StreamInv, PlacesInv
    <2>2. staged[R.id] = [i \in 1 .. R.next - 1 |-> i]
      BY <1>2 DEF StreamInv, StagedInv
    <2>3. QED
      BY <1>2, <2>1, <2>2 DEF Complete
  <1>3. QED
    BY <1>1, <1>2, SidesFacts

\* As long as a side is open, what it reads next belongs to the transfer and
\* the place it is at, after any number of transfers, rejections and failures.
THEOREM StreamStaysInStep == Spec => []StreamInStep
  BY StreamAligned, StreamImpliesInStep, PTL

\* No chunk is on its way to a receiver that has not accepted its offer.
THEOREM PayloadIsAccepted == Spec => []AcceptedBeforePayload
  BY StreamAligned, StreamImpliesAccepted, PTL

\* Whoever holds a receipt may rely on the destination.
THEOREM ReceiptsAreEarned == Spec => []ReceiptMeansStaged
  BY StreamAligned, StreamImpliesStaged, PTL

-----------------------------------------------------------------------------
(* The two calls implement Delivery.                                       *)

\* Nothing is staged, authorized or delivered at the start.
LEMMA DeliveryInit == Init => Promise!Init
  BY OneFrame DEF Init, Promise!Init

\* The steps of Delivery, for one transfer.
LEMMA DeliveryNext ==
    ASSUME NEW t \in Transfers
    PROVE  /\ Promise!Authorize(t) => Promise!Next
           /\ Promise!Stage(t) => Promise!Next
           /\ Promise!Deliver(t) => Promise!Next
  BY DEF Promise!Next

\* Decide, StageChunk and TakeReceipt map to the steps of Delivery, all others to
\* none.
LEMMA DeliveryStep == StreamInv /\ [Next]_vars => [Promise!Next]_(Promise!vars)
  <1> SUFFICES ASSUME StreamInv, [Next]_vars
               PROVE  Promise!Next \/ UNCHANGED Promise!vars
    OBVIOUS
  <1> DEFINE S == party["sender"]
             R == party["receiver"]
             count == [t \in Transfers |-> Len(staged[t])]
  <1>1. TypeOK /\ PlacesInv
    BY DEF StreamInv
  <1>2. ASSUME UNCHANGED <<staged, authorized, delivered>>
        PROVE  UNCHANGED Promise!vars
    BY <1>2 DEF Promise!vars
  <1>3. CASE Decide
    <2>1. R.id \in Transfers /\ UNCHANGED delivered
      BY <1>1, <1>3, PartyFields DEF Decide
    <2>2. PICK t \in Transfers : t = R.id
      BY <2>1
    <2>3. CASE /\ authorized' = authorized \cup {t}
               /\ staged' = [staged EXCEPT ![t] = <<>>]
      <3>1. count' = [count EXCEPT ![t] = 0]
        BY <1>1, <2>3, OneFrame DEF TypeOK
      <3>2. Promise!Authorize(t)
        BY <3>1, <2>1, <2>3 DEF Promise!Authorize
      <3>3. QED
        BY <3>2, DeliveryNext
    <2>4. QED
      BY <2>1, <2>2, <2>3, <1>2, <1>3 DEF Decide
  <1>4. CASE StageChunk
    <2>1. /\ R.pc = "write" /\ R.id \in Transfers /\ R.next \in 1 .. Chunks[R.id]
          /\ Chunks[R.id] \in Nat /\ UNCHANGED <<authorized, delivered>>
      BY <1>1, <1>4, PartyFields DEF StageChunk, PlacesInv, history
    <2>2. PICK t \in Transfers : t = R.id
      BY <2>1
    <2>3. CASE staged' = [staged EXCEPT ![t] = Append(@, R.next)]
      <3>1. t \in authorized /\ staged[t] = [i \in 1 .. R.next - 1 |-> i]
        BY <2>1, <2>2 DEF StreamInv, StagedInv, Receiving
      <3>2. staged[t] \in Seq(Nat)
        BY <2>1, <1>1 DEF TypeOK
      <3>3. Len(staged[t]) = R.next - 1
        BY <3>1, <3>2, <2>1
      <3>4. Len(Append(staged[t], R.next)) = Len(staged[t]) + 1
        BY <3>2
      <3>5. count' = [count EXCEPT ![t] = @ + 1]
        BY <3>4, <2>2, <2>3, <1>1 DEF TypeOK
      <3>6. count[t] < Chunks[t]
        BY <3>3, <2>1, <2>2
      <3> HIDE DEF count
      <3>7. Promise!Stage(t)
        BY <3>1, <3>5, <3>6, <2>1 DEF Promise!Stage, count
      <3>8. QED
        BY <3>7, DeliveryNext
    <2>4. QED
      BY <2>1, <2>2, <2>3, <1>2, <1>4 DEF StageChunk
  <1>5. CASE TakeReceipt
    <2> DEFINE place == [f \in {Receipt(S.id)} |-> At("confirm", S.id, S.next)]
    <2>1. /\ S.pc = "receipt" /\ S.id \in Transfers
          /\ UNCHANGED <<staged, authorized>> /\ Read("sender", place)
      BY <1>1, <1>5, PartyFields DEF TakeReceipt
    <2> HIDE DEF place
    <2>2. CASE party'["sender"] = Idle
      BY <2>1, <2>2, <1>2, <1>5 DEF TakeReceipt
    <2>3. PICK t \in Transfers : t = S.id
      BY <2>1
    <2>4. CASE party'["sender"] # Idle
      <3>1. ~Fail("sender")
        BY <2>4, <1>1, FailEffect, SidesFacts
      <3>2. wire["sender"] # <<>>
        BY <3>1, <2>1, <1>1, ReadEffect, SidesFacts
      <3>3. t \in authorized /\ Complete(t)
        BY <3>2, <2>1, <2>3 DEF StreamInv, ReceiptInv
      <3>4. staged[t] \in Seq(Nat) /\ Chunks[t] \in Nat
        BY <2>1, <1>1, TransferAssumption DEF TypeOK
      <3>5. count[t] = Chunks[t]
        BY <3>3, <3>4, <2>1 DEF Complete
      <3>6. delivered' = delivered \cup {t}
        BY <2>3, <2>4, <1>5 DEF TakeReceipt
      <3> HIDE DEF count
      <3>7. Promise!Deliver(t)
        BY <3>3, <3>5, <3>6, <2>1 DEF Promise!Deliver, count
      <3>8. QED
        BY <3>7, DeliveryNext
    <2>5. QED
      BY <2>2, <2>4
  <1>6. CASE ~Decide /\ ~StageChunk /\ ~TakeReceipt
    <2>1. UNCHANGED <<staged, authorized, delivered>>
      BY <1>6
         DEF Next, SenderStep, ReceiverStep, StartSend, SendOffer, TakeDecision,
             ReadSource, SendChunk, SendCompletion, ConfirmSend, StartReceive,
             TakeOffer, GuardAuthorize, TakeChunk, TakeCompletion, GuardStaging,
             SendReceipt, ConfirmReceive, ChangeTrust, HangUp, Lose, Cut, Reconnect,
             vars, history
    <2>2. QED
      BY <2>1, <1>2
  <1>7. QED
    BY <1>3, <1>4, <1>5, <1>6

\* Seen from outside, the two calls and the connection between them deliver
\* payloads as Delivery says, whatever fails on the way.
THEOREM TransferImplementsDelivery == Spec => DeliverySpec
  BY StreamAligned, DeliveryInit, DeliveryStep, PTL
     DEF Spec, DeliverySpec, Promise!Spec

-----------------------------------------------------------------------------
(* Manifests: induction, and the running totals of a sequence.             *)

Less == {p \in Nat \X Nat : p[1] < p[2]}

\* Every set of natural numbers has a least element.
LEMMA LeastNatural ==
    ASSUME NEW T \in SUBSET Nat, T # {}
    PROVE  \E n \in T : \A m \in T : n <= m
  <1>1. IsWellFoundedOn(Less, Nat)
    BY NatLessThanWellFounded DEF Less, OpToRel
  <1>2. T \subseteq Nat
    OBVIOUS
  <1>3. ASSUME NEW R, NEW S, IsWellFoundedOn(R, S), NEW U, U \subseteq S, U # {}
        PROVE  \E x \in U : \A y \in U : ~(<<y, x>> \in R)
    BY <1>3, WFMin, Zenon
  <1>4. PICK n \in T : \A y \in T : ~(<<y, n>> \in Less)
    BY <1>1, <1>2, <1>3, Zenon
  <1>5. ASSUME NEW m \in T PROVE n <= m
    <2>1. n \in Nat /\ m \in Nat /\ <<m, n>> \notin Less
      BY <1>2, <1>4
    <2>2. QED
      BY <2>1 DEF Less
  <1>6. QED
    BY <1>5

\* Induction: a set that has 0, and n + 1 whenever it has n, has every number.
LEMMA NaturalInduction ==
    ASSUME NEW S, 0 \in S, \A n \in Nat : n \in S => n + 1 \in S
    PROVE  Nat \subseteq S
  <1> SUFFICES ASSUME Nat \ S # {} PROVE FALSE
    OBVIOUS
  <1>1. PICK n \in Nat \ S : \A m \in Nat \ S : n <= m
    BY LeastNatural
  <1>2. n - 1 \in Nat /\ n - 1 \in S
    BY <1>1
  <1>3. QED
    BY <1>1, <1>2

StaysIn(g, S, n) == g \in [S \X (1 .. n) -> S]

\* f is what the n turns of a loop make of base, the k-th with g[<<_, k>>].
IsCourse(f, g, base, S, n) ==
    /\ f \in [0 .. n -> S]
    /\ f[0] = base
    /\ \A k \in 1 .. n : f[k] = g[<<f[k - 1], k>>]

\* A loop of n turns, each of which makes a state of S from one, has a course.
LEMMA CourseExists ==
    ASSUME NEW n \in Nat, NEW S, NEW base \in S, NEW g, StaysIn(g, S, n)
    PROVE  \E f : IsCourse(f, g, base, S, n)
  <1> DEFINE Follows(f, i) == IsCourse(f, g, base, S, i)
             Done == {i \in Nat : i <= n => \E f : Follows(f, i)}
  <1>1. 0 \in Done
    <2>1. Follows([k \in 0 .. 0 |-> base], 0)
      BY DEF IsCourse
    <2>2. QED
      BY <2>1
  <1>2. ASSUME NEW i \in Nat, i \in Done PROVE i + 1 \in Done
    <2> SUFFICES ASSUME i + 1 <= n PROVE \E f : Follows(f, i + 1)
      OBVIOUS
    <2>1. PICK h : Follows(h, i)
      BY <1>2
    <2> DEFINE f == [k \in 0 .. i + 1 |-> IF k = i + 1 THEN g[<<h[i], i + 1>>] ELSE h[k]]
    <2>2. g[<<h[i], i + 1>>] \in S
      <3>1. h[i] \in S /\ i + 1 \in 1 .. n
        BY <2>1 DEF IsCourse
      <3>2. QED
        BY <3>1 DEF StaysIn
    <2>3. f \in [0 .. i + 1 -> S] /\ f[0] = base
      BY <2>1, <2>2 DEF IsCourse
    <2>4. ASSUME NEW k \in 1 .. i + 1 PROVE f[k] = g[<<f[k - 1], k>>]
      <3>1. f[k - 1] = h[k - 1]
        OBVIOUS
      <3>2. CASE k = i + 1
        <4>1. k - 1 = i /\ f[k] = g[<<h[i], i + 1>>]
          BY <3>2
        <4> HIDE DEF f
        <4>2. QED
          BY <3>1, <3>2, <4>1
      <3>3. CASE k # i + 1
        <4>1. k \in 1 .. i /\ f[k] = h[k]
          BY <3>3
        <4>2. QED
          BY <2>1, <3>1, <4>1 DEF IsCourse
      <3>4. QED
        BY <3>2, <3>3
    <2> HIDE DEF f
    <2>5. IsCourse(f, g, base, S, i + 1)
      BY <2>3, <2>4 DEF IsCourse
    <2>6. QED
      BY <2>5
  <1>3. n \in Done
    <2> HIDE DEF Done
    <2>1. QED
      BY <1>1, <1>2, NaturalInduction
  <1>4. QED
    BY <1>3

\* The running totals of a sequence of numbers.
LEMMA TotalsAre ==
    ASSUME NEW s \in Seq(Nat)
    PROVE  /\ Totals(s) \in [0 .. Len(s) -> Nat]
           /\ Totals(s)[0] = 0
           /\ \A k \in 1 .. Len(s) : Totals(s)[k] = Totals(s)[k - 1] + s[k]
           /\ Sum(s) = Totals(s)[Len(s)]
  <1> DEFINE n == Len(s)
             Course(f) == f = [k \in 0 .. n |-> IF k = 0 THEN 0 ELSE f[k - 1] + s[k]]
             g == [p \in Nat \X (1 .. n) |-> p[1] + s[p[2]]]
  <1>0. n \in Nat /\ 0 \in Nat
    OBVIOUS
  <1>1. PICK f \in [0 .. n -> Nat] :
           f[0] = 0 /\ \A k \in 1 .. n : f[k] = g[<<f[k - 1], k>>]
    <2>1. StaysIn(g, Nat, n)
      BY DEF StaysIn
    <2> HIDE DEF g, n
    <2>2. \E f : IsCourse(f, g, 0, Nat, n)
      BY <1>0, <2>1, CourseExists
    <2>3. QED
      BY <2>2 DEF IsCourse
  <1>2. \A k \in 1 .. n : f[k] = f[k - 1] + s[k]
    <2> SUFFICES ASSUME NEW k \in 1 .. n PROVE f[k] = f[k - 1] + s[k]
      OBVIOUS
    <2>1. g[<<f[k - 1], k>>] = f[k - 1] + s[k]
      <3> HIDE DEF n
      <3>1. k - 1 \in 0 .. n
        BY <1>0
      <3>2. f[k - 1] \in Nat
        BY <3>1
      <3>3. QED
        BY <3>2 DEF g
    <2>2. QED
      BY <1>1, <2>1
  <1>3. Course(f)
    <2>1. f = [k \in 0 .. n |-> f[k]]
      OBVIOUS
    <2>2. \A k \in 0 .. n : f[k] = IF k = 0 THEN 0 ELSE f[k - 1] + s[k]
      BY <1>1, <1>2
    <2>3. QED
      BY <2>1, <2>2, Zenon
  <1>4. ASSUME NEW h, Course(h) PROVE h = f
    <2>1. h[0] = 0 /\ \A k \in 1 .. n : h[k] = h[k - 1] + s[k]
      <3> HIDE DEF n
      <3>1. \A k \in 0 .. n : h[k] = IF k = 0 THEN 0 ELSE h[k - 1] + s[k]
        BY <1>4, Zenon
      <3>2. 0 \in 0 .. n /\ \A k \in 1 .. n : k \in 0 .. n /\ k # 0
        BY <1>0
      <3>3. QED
        BY <3>1, <3>2, Zenon
    <2> DEFINE Same == {k \in Nat : k <= n => h[k] = f[k]}
    <2>2. 0 \in Same
      BY <1>1, <2>1
    <2>3. ASSUME NEW k \in Nat, k \in Same PROVE k + 1 \in Same
      BY <1>2, <2>1, <2>3
    <2>4. Nat \subseteq Same
      <3> HIDE DEF Same
      <3>1. QED
        BY <2>2, <2>3, NaturalInduction
    <2>5. \A k \in 0 .. n : h[k] = f[k]
      BY <2>4
    <2>6. QED
      BY <1>4, <2>5
  <1>5. Totals(s) = f
    <2>1. Totals(s) = CHOOSE h : Course(h)
      BY DEF Totals
    <2> HIDE DEF Course
    <2>2. QED
      BY <1>3, <1>4, <2>1
  <1>6. QED
    BY <1>1, <1>2, <1>5 DEF Sum

-----------------------------------------------------------------------------
(* Manifests: reading a stream.                                            *)

\* Sequences with the same elements are the same.
LEMMA SameSequence ==
    ASSUME NEW S, NEW u \in Seq(S), NEW v \in Seq(S), Len(u) = Len(v),
           \A k \in 1 .. Len(u) : u[k] = v[k]
    PROVE  u = v
  OBVIOUS

\* A part of a part of a sequence.
LEMMA PartOfPart ==
    ASSUME NEW S, NEW b \in Seq(S), NEW t \in 0 .. Len(b),
           NEW n \in 0 .. Len(b) - t
    PROVE  LET rest == SubSeq(b, t + 1, Len(b))
           IN  /\ rest \in Seq(S) /\ Len(rest) = Len(b) - t
               /\ SubSeq(b, t + 1, t + n) \in Seq(S)
               /\ Len(SubSeq(b, t + 1, t + n)) = n
               /\ SubSeq(rest, 1, n) = SubSeq(b, t + 1, t + n)
               /\ SubSeq(rest, n + 1, Len(rest)) = SubSeq(b, t + n + 1, Len(b))
  <1> DEFINE L == Len(b)
             rest == SubSeq(b, t + 1, L)
             one == SubSeq(b, t + 1, t + n)
             two == SubSeq(b, t + n + 1, L)
  <1>0. L \in Nat /\ t \in Nat /\ n \in Nat /\ t + n <= L
    OBVIOUS
  <1>1. rest \in Seq(S) /\ Len(rest) = L - t /\ \A k \in 1 .. L - t : rest[k] = b[t + k]
    <2>1. \A k \in t + 1 .. L : k \in 1 .. L
      BY <1>0
    <2>2. rest \in Seq(S) /\ Len(rest) = L - t
      BY <1>0, <2>1
    <2>3. \A k \in 1 .. L - t : rest[k] = b[t + k]
      BY <1>0, <2>1
    <2>4. QED
      BY <2>2, <2>3
  <1>2. one \in Seq(S) /\ Len(one) = n /\ \A k \in 1 .. n : one[k] = b[t + k]
    <2>1. \A k \in t + 1 .. t + n : k \in 1 .. L
      BY <1>0
    <2>2. one \in Seq(S) /\ Len(one) = n
      BY <1>0, <2>1
    <2>3. \A k \in 1 .. n : one[k] = b[t + k]
      BY <1>0, <2>1
    <2>4. QED
      BY <2>2, <2>3
  <1>3. two \in Seq(S) /\ Len(two) = L - t - n
        /\ \A k \in 1 .. L - t - n : two[k] = b[t + n + k]
    <2>1. \A k \in t + n + 1 .. L : k \in 1 .. L
      BY <1>0
    <2>2. two \in Seq(S) /\ Len(two) = L - t - n
      BY <1>0, <2>1
    <2>3. \A k \in 1 .. L - t - n : two[k] = b[t + n + k]
      BY <1>0, <2>1
    <2>4. QED
      BY <2>2, <2>3
  <1> HIDE DEF rest, one, two, L
  <1>4. SubSeq(rest, 1, n) = one
    <2>1. SubSeq(rest, 1, n) \in Seq(S) /\ Len(SubSeq(rest, 1, n)) = n
          /\ \A k \in 1 .. n : SubSeq(rest, 1, n)[k] = rest[k]
      <3>1. \A k \in 1 .. n : k \in 1 .. Len(rest)
        BY <1>0, <1>1
      <3>2. n <= Len(rest)
        BY <1>0, <1>1
      <3>3. QED
        BY <1>0, <1>1, <3>1, <3>2
    <2>2. \A k \in 1 .. n : k \in 1 .. L - t
      BY <1>0
    <2>3. QED
      BY <1>1, <1>2, <2>1, <2>2
  <1>5. SubSeq(rest, n + 1, Len(rest)) = two
    <2> DEFINE v == SubSeq(rest, n + 1, Len(rest))
    <2>1. \A k \in n + 1 .. Len(rest) : k \in 1 .. Len(rest)
      BY <1>0, <1>1
    <2>2. v \in Seq(S) /\ Len(v) = L - t - n
      BY <1>0, <1>1, <2>1
    <2>3. \A k \in 1 .. L - t - n : v[k] = rest[n + k]
      BY <1>0, <1>1, <2>1
    <2> HIDE DEF v
    <2>4. \A k \in 1 .. L - t - n : rest[n + k] = b[t + n + k]
      <3>1. \A k \in 1 .. L - t - n : n + k \in 1 .. L - t /\ t + (n + k) = t + n + k
        BY <1>0
      <3>2. QED
        BY <1>1, <3>1
    <2>5. v = two
      <3>1. \A k \in 1 .. Len(v) : v[k] = two[k]
        BY <1>3, <2>2, <2>3, <2>4
      <3>2. QED
        BY <1>3, <2>2, <3>1, SameSequence
    <2>6. QED
      BY <2>5 DEF v
  <1>6. QED
    BY <1>1, <1>2, <1>4, <1>5 DEF rest, one, two, L

\* The stream after t of its bytes have been read.
From(r, t) == [bytes |-> SubSeq(r.bytes, t + 1, Len(r.bytes)), breaks |-> r.breaks]

\* Before it is read the stream is itself.
LEMMA FromStart ==
    ASSUME NEW r \in Stream
    PROVE  From(r, 0) = r /\ r.bytes \in Seq(Bytes) /\ r.breaks \in BOOLEAN
  <1>1. r.bytes \in Seq(Bytes) /\ r.breaks \in BOOLEAN
        /\ r = [bytes |-> r.bytes, breaks |-> r.breaks]
    BY DEF Stream
  <1>2. SubSeq(r.bytes, 0 + 1, Len(r.bytes)) = r.bytes
    BY <1>1
  <1>3. QED
    BY <1>1, <1>2 DEF From

\* A read that is answered in full.
LEMMA ReadsInFull ==
    ASSUME NEW r \in Stream, NEW t \in 0 .. Len(r.bytes), NEW n \in Nat,
           t + n <= Len(r.bytes)
    PROVE  /\ ReadFull(From(r, t), n) =
                 [data |-> SubSeq(r.bytes, t + 1, t + n), rest |-> From(r, t + n),
                  err |-> "nil"]
           /\ SubSeq(r.bytes, t + 1, t + n) \in Seq(Bytes)
           /\ Len(SubSeq(r.bytes, t + 1, t + n)) = n
           /\ From(r, t) \in Stream
  <1> DEFINE b == r.bytes
             rest == SubSeq(b, t + 1, Len(b))
  <1>0. b \in Seq(Bytes) /\ Len(b) \in Nat /\ n \in 0 .. Len(b) - t
    BY DEF Stream
  <1>1. /\ rest \in Seq(Bytes) /\ Len(rest) = Len(b) - t
        /\ SubSeq(b, t + 1, t + n) \in Seq(Bytes)
        /\ Len(SubSeq(b, t + 1, t + n)) = n
        /\ SubSeq(rest, 1, n) = SubSeq(b, t + 1, t + n)
        /\ SubSeq(rest, n + 1, Len(rest)) = SubSeq(b, t + n + 1, Len(b))
    <2> HIDE DEF b
    <2>1. QED
      BY <1>0, PartOfPart
  <1>2. From(r, t).bytes = rest /\ From(r, t) = [bytes |-> rest, breaks |-> r.breaks]
    BY DEF From
  <1>3. n <= Len(rest)
    BY <1>0, <1>1
  <1>4. [bytes |-> SubSeq(rest, n + 1, Len(rest)), breaks |-> r.breaks] = From(r, t + n)
    BY <1>1 DEF From
  <1>8. From(r, t).breaks = r.breaks
    BY DEF From
  <1> HIDE DEF rest, b
  <1>5. ReadFull(From(r, t), n) =
           [data |-> SubSeq(b, t + 1, t + n), rest |-> From(r, t + n), err |-> "nil"]
    BY <1>1, <1>2, <1>3, <1>4, <1>8 DEF ReadFull
  <1>6. From(r, t) \in Stream
    BY <1>1, <1>2 DEF Stream
  <1>7. QED
    BY <1>1, <1>5, <1>6 DEF b

\* A read that meets the end of the stream.
LEMMA ReadsToTheEnd ==
    ASSUME NEW r \in Stream, NEW t \in 0 .. Len(r.bytes), NEW n \in Nat,
           t + n > Len(r.bytes)
    PROVE  LET L == Len(r.bytes)
               got == ReadFull(From(r, t), n)
           IN  /\ got.data = SubSeq(r.bytes, t + 1, L)
               /\ got.data \in Seq(Bytes) /\ Len(got.data) = L - t
               /\ got.err = IF r.breaks THEN "error"
                            ELSE IF t = L THEN "EOF" ELSE "ErrUnexpectedEOF"
               /\ got.rest = [bytes |-> <<>>, breaks |-> r.breaks]
               /\ got.rest \in Stream
  <1> DEFINE b == r.bytes
             L == Len(b)
             rest == SubSeq(b, t + 1, L)
             m == L - t
  <1>0. b \in Seq(Bytes) /\ L \in Nat /\ t \in Nat /\ t <= L /\ t + n > L
    BY DEF Stream
  <1>1. rest \in Seq(Bytes) /\ Len(rest) = m
    <2> HIDE DEF b
    <2>1. \A k \in t + 1 .. Len(b) : k \in 1 .. Len(b)
      BY <1>0
    <2>2. QED
      BY <1>0, <2>1
  <1>2. From(r, t).bytes = rest /\ From(r, t).breaks = r.breaks
    BY DEF From
  <1> HIDE DEF b, rest
  <1>3. ~ (n <= Len(rest)) /\ (Len(rest) = 0 <=> t = L)
    BY <1>0, <1>1
  <1>4. rest = <<>> <=> t = L
    BY <1>1, <1>3
  <1>5. SubSeq(rest, 1, Len(rest)) = rest
    BY <1>1
  <1>6. SubSeq(rest, n + 1, Len(rest)) = <<>>
    <2>1. n + 1 > Len(rest) /\ n + 1 \in Int /\ Len(rest) \in Int
      BY <1>1, <1>3
    <2>2. QED
      BY <1>1, <2>1
  <1> DEFINE got == ReadFull(From(r, t), n)
  <1>7. got = [data |-> rest, rest |-> [bytes |-> <<>>, breaks |-> r.breaks],
               err |-> IF r.breaks THEN "error"
                       ELSE IF t = L THEN "EOF" ELSE "ErrUnexpectedEOF"]
    BY <1>2, <1>3, <1>4, <1>5, <1>6 DEF ReadFull
  <1>8. [bytes |-> <<>>, breaks |-> r.breaks] \in Stream
    <2>1. r.breaks \in BOOLEAN /\ <<>> \in Seq(Bytes)
      BY DEF Stream
    <2>2. QED
      BY <2>1 DEF Stream
  <1> HIDE DEF got
  <1>9. /\ got.data = rest /\ got.data \in Seq(Bytes) /\ Len(got.data) = m
        /\ got.err = IF r.breaks THEN "error"
                     ELSE IF t = L THEN "EOF" ELSE "ErrUnexpectedEOF"
        /\ got.rest = [bytes |-> <<>>, breaks |-> r.breaks]
        /\ got.rest \in Stream
    BY <1>1, <1>7, <1>8
  <1>10. QED
    BY <1>9 DEF b, rest, got

-----------------------------------------------------------------------------
(* Manifests: how so many bytes are cut into pieces.                       *)

\* Where the i-th of the pieces of c bytes ends, of n bytes, and how many pieces
\* there are.
EndOf(n, c, i) == IF i * c <= n THEN i * c ELSE n
PieceCount(n, c) == (n \div c) + (IF n % c = 0 THEN 0 ELSE 1)

\* Products of the numbers that count pieces.
LEMMA Products ==
    ASSUME NEW c \in Nat \ {0}, NEW i \in Nat, NEW k \in Nat
    PROVE  /\ i * c \in Nat /\ i <= i * c
           /\ (i + 1) * c = i * c + c
           /\ i <= k => i * c <= k * c
           /\ i < k => i * c + c <= k * c
  <1>1. i * c \in Nat /\ (i + 1) * c = i * c + c
    OBVIOUS
  <1>2. i <= i * c
    OBVIOUS
  <1>3. ASSUME i <= k PROVE i * c <= k * c
    <2>1. PICK d \in Nat : k = i + d
      <3>1. k - i \in Nat /\ k = i + (k - i)
        BY <1>3
      <3>2. QED
        BY <3>1
    <2>2. k * c = i * c + d * c /\ d * c \in Nat
      BY <2>1
    <2>3. QED
      BY <1>1, <2>2
  <1>4. ASSUME i < k PROVE i * c + c <= k * c
    <2>1. PICK d \in Nat : k = i + 1 + d
      <3>1. k - i - 1 \in Nat /\ k = i + 1 + (k - i - 1)
        BY <1>4
      <3>2. QED
        BY <3>1
    <2>2. k * c = i * c + c + d * c /\ d * c \in Nat
      BY <2>1
    <2>3. QED
      BY <1>1, <2>2
  <1>5. QED
    BY <1>1, <1>2, <1>3, <1>4

\* Every piece but the last is of c bytes, and the last is what is left.
LEMMA PiecesAre ==
    ASSUME NEW n \in Nat, NEW c \in Nat \ {0}
    PROVE  LET P == PieceCount(n, c)
           IN  /\ P \in 0 .. n /\ (P = 0 <=> n = 0)
               /\ EndOf(n, c, 0) = 0 /\ EndOf(n, c, P) = n
               /\ \A i \in 0 .. P - 1 : EndOf(n, c, i) = i * c /\ i * c < n
               /\ P > 0 => n - (P - 1) * c \in 1 .. c
               /\ n <= P * c
               /\ P * c <= n <=> n % c = 0
               /\ \A i \in 0 .. P : EndOf(n, c, i) \in 0 .. n
               /\ \A i \in 1 .. P : /\ i - 1 \in 0 .. P
                                    /\ EndOf(n, c, i) - EndOf(n, c, i - 1) \in 1 .. c
                                    /\ EndOf(n, c, i - 1) < EndOf(n, c, i)
                                    /\ i < P => EndOf(n, c, i) - EndOf(n, c, i - 1) = c
  <1> DEFINE q == n \div c
             x == n % c
             P == PieceCount(n, c)
  <1>1. q \in Nat /\ x \in 0 .. c - 1 /\ n = c * q + x
    OBVIOUS
  <1>2. P = IF x = 0 THEN q ELSE q + 1
    BY <1>1 DEF PieceCount
  <1> HIDE DEF q, x, P
  <1>3. P \in Nat /\ n = q * c + x /\ q * c \in Nat /\ (q + 1) * c = q * c + c
    BY <1>1, <1>2
  <1>4. q <= q * c
    BY <1>1, Products
  <1>5. P \in 0 .. n /\ (P = 0 <=> n = 0)
    <2>1. CASE x = 0
      <3>1. q = 0 => q * c = 0
        OBVIOUS
      <3>2. QED
        BY <1>1, <1>2, <1>3, <1>4, <2>1, <3>1
    <2>2. CASE x # 0
      BY <1>1, <1>2, <1>3, <1>4, <2>2
    <2>3. QED
      BY <2>1, <2>2
  <1>6. n <= P * c /\ (P * c <= n <=> x = 0)
    <2>1. CASE x = 0
      BY <1>1, <1>2, <1>3, <2>1
    <2>2. CASE x # 0
      BY <1>1, <1>2, <1>3, <2>2
    <2>3. QED
      BY <2>1, <2>2
  <1>7. ASSUME P > 0 PROVE (P - 1) * c \in Nat /\ n - (P - 1) * c \in 1 .. c
    <2>1. CASE x = 0
      <3>1. P = q /\ (q - 1) * c = q * c - c
        BY <1>1, <1>2, <2>1
      <3>2. q - 1 \in Nat
        BY <1>1, <1>7, <3>1
      <3>3. (q - 1) * c \in Nat
        BY <3>2, Products
      <3>4. QED
        BY <1>1, <1>3, <2>1, <3>1, <3>3
    <2>2. CASE x # 0
      <3>1. P - 1 = q
        BY <1>1, <1>2, <2>2
      <3>2. QED
        BY <1>1, <1>3, <2>2, <3>1
    <2>3. QED
      BY <2>1, <2>2
  <1>8. ASSUME NEW i \in 0 .. P - 1 PROVE EndOf(n, c, i) = i * c /\ i * c < n /\ i * c \in Nat
    <2>1. i \in Nat /\ P - 1 \in Nat /\ i <= P - 1 /\ P > 0
      BY <1>3
    <2>2. i * c <= (P - 1) * c /\ i * c \in Nat
      BY <2>1, Products
    <2>3. i * c < n
      BY <1>7, <2>1, <2>2
    <2>4. QED
      BY <2>2, <2>3 DEF EndOf
  <1>9. EndOf(n, c, 0) = 0 /\ EndOf(n, c, P) = n
    <2>1. 0 * c = 0
      OBVIOUS
    <2>2. P * c \in Nat
      BY <1>3, Products
    <2>3. QED
      BY <1>6, <2>1, <2>2 DEF EndOf
  <1>10. \A i \in 0 .. P : EndOf(n, c, i) \in 0 .. n
    <2>1. \A i \in 0 .. P : i = P \/ i \in 0 .. P - 1
      BY <1>3
    <2>2. QED
      BY <1>8, <1>9, <2>1
  <1>11. ASSUME NEW i \in 1 .. P
         PROVE  /\ i - 1 \in 0 .. P
                /\ EndOf(n, c, i) - EndOf(n, c, i - 1) \in 1 .. c
                /\ EndOf(n, c, i - 1) < EndOf(n, c, i)
                /\ i < P => EndOf(n, c, i) - EndOf(n, c, i - 1) = c
    <2>1. i - 1 \in 0 .. P - 1 /\ i \in Nat /\ i - 1 \in Nat /\ P > 0
      BY <1>3
    <2>2. EndOf(n, c, i - 1) = (i - 1) * c /\ (i - 1) * c \in Nat
      BY <1>8, <2>1
    <2>3. CASE i = P
      BY <1>7, <1>9, <2>1, <2>2, <2>3
    <2>4. CASE i < P
      <3>1. i \in 0 .. P - 1
        BY <1>3, <2>4
      <3>2. EndOf(n, c, i) = i * c /\ i * c \in Nat
        BY <1>8, <3>1
      <3>3. (i - 1 + 1) * c = (i - 1) * c + c /\ i - 1 + 1 = i
        BY <2>1, Products
      <3>4. i * c = (i - 1) * c + c
        BY <3>3
      <3>5. QED
        BY <1>3, <2>1, <2>2, <2>4, <3>2, <3>4
    <2>5. QED
      BY <1>3, <2>3, <2>4
  <1>12. QED
    BY <1>5, <1>6, <1>7, <1>8, <1>9, <1>10, <1>11 DEF P, x

\* s is how n bytes are cut into pieces of c.
IsCut(s, n, c) ==
    /\ s \in Seq(Nat)
    /\ Len(s) = PieceCount(n, c)
    /\ \A i \in 1 .. Len(s) : s[i] = EndOf(n, c, i) - EndOf(n, c, i - 1)

\* The running totals of such a cut are where the pieces end.
LEMMA CutsAddUp ==
    ASSUME NEW n \in Nat, NEW c \in Nat \ {0}, NEW s, IsCut(s, n, c)
    PROVE  /\ \A i \in 0 .. Len(s) : Totals(s)[i] = EndOf(n, c, i)
           /\ Sum(s) = n
  <1> DEFINE P == PieceCount(n, c)
             T == Totals(s)
             E(i) == EndOf(n, c, i)
             Reached == {i \in Nat : i <= P => T[i] = E(i)}
  <1>1. s \in Seq(Nat) /\ Len(s) = P /\ \A i \in 1 .. P : s[i] = E(i) - E(i - 1)
    BY DEF IsCut
  <1>2. /\ P \in Nat /\ E(0) = 0 /\ E(P) = n
        /\ \A i \in 0 .. P : E(i) \in 0 .. n
    BY PiecesAre
  <1>3. /\ T[0] = 0 /\ Sum(s) = T[P]
        /\ \A k \in 1 .. P : T[k] = T[k - 1] + s[k]
    BY <1>1, TotalsAre
  <1> HIDE DEF P, T, E
  <1>4. 0 \in Reached
    BY <1>2, <1>3
  <1>5. ASSUME NEW i \in Nat, i \in Reached PROVE i + 1 \in Reached
    <2> SUFFICES ASSUME i + 1 <= P PROVE T[i + 1] = E(i + 1)
      OBVIOUS
    <2>1. i + 1 \in 1 .. P /\ i + 1 - 1 = i /\ i \in 0 .. P /\ i + 1 \in 0 .. P
      BY <1>2
    <2>2. T[i + 1] = T[i] + s[i + 1] /\ s[i + 1] = E(i + 1) - E(i) /\ T[i] = E(i)
      BY <1>1, <1>3, <1>5, <2>1
    <2>3. E(i) \in Nat /\ E(i + 1) \in Nat
      BY <1>2, <2>1
    <2>4. QED
      BY <2>2, <2>3
  <1>6. Nat \subseteq Reached
    <2> HIDE DEF Reached
    <2>1. QED
      BY <1>4, <1>5, NaturalInduction
  <1>7. \A i \in 0 .. P : T[i] = E(i)
    BY <1>2, <1>6
  <1>8. QED
    BY <1>1, <1>2, <1>3, <1>7 DEF T, E

\* Sizes of which all but the last are c and that add up to n are such a cut.
LEMMA OnlyCut ==
    ASSUME NEW n \in Nat \ {0}, NEW c \in Nat \ {0}, NEW s \in Seq(Nat),
           Len(s) = PieceCount(n, c), Sum(s) = n,
           \A i \in 1 .. Len(s) : i < Len(s) => s[i] = c
    PROVE  IsCut(s, n, c)
  <1> DEFINE P == PieceCount(n, c)
             T == Totals(s)
             E(i) == EndOf(n, c, i)
             Reached == {i \in Nat : i <= P - 1 => T[i] = E(i)}
  <1>1. /\ P \in Nat /\ P > 0 /\ E(0) = 0 /\ E(P) = n
        /\ \A i \in 0 .. P : E(i) \in 0 .. n
        /\ \A i \in 1 .. P : i < P => E(i) - E(i - 1) = c
    <2>1. n \in Nat /\ n # 0
      OBVIOUS
    <2>2. P \in 0 .. n /\ (P = 0 <=> n = 0)
      BY <2>1, PiecesAre
    <2>3. E(0) = 0 /\ E(P) = n /\ \A i \in 0 .. P : E(i) \in 0 .. n
      BY <2>1, PiecesAre
    <2>4. \A i \in 1 .. P : i < P => E(i) - E(i - 1) = c
      BY <2>1, PiecesAre
    <2> HIDE DEF P, E
    <2>5. QED
      BY <2>1, <2>2, <2>3, <2>4
  <1>2. /\ T[0] = 0 /\ n = T[P]
        /\ \A k \in 1 .. P : T[k] = T[k - 1] + s[k]
    BY TotalsAre
  <1>3. \A i \in 1 .. P : i < P => s[i] = c
    OBVIOUS
  <1>4. \A i \in 1 .. P : s[i] \in Nat
    OBVIOUS
  <1> HIDE DEF P, T, E
  <1>5. 0 \in Reached
    BY <1>1, <1>2
  <1>6. ASSUME NEW i \in Nat, i \in Reached PROVE i + 1 \in Reached
    <2> SUFFICES ASSUME i + 1 <= P - 1 PROVE T[i + 1] = E(i + 1)
      OBVIOUS
    <2>1. i + 1 \in 1 .. P /\ i + 1 - 1 = i /\ i \in 0 .. P /\ i + 1 \in 0 .. P
          /\ i + 1 < P
      BY <1>1
    <2>2. T[i + 1] = T[i] + s[i + 1] /\ s[i + 1] = c /\ E(i + 1) - E(i) = c
          /\ T[i] = E(i)
      BY <1>1, <1>2, <1>3, <1>6, <2>1
    <2>3. E(i) \in Nat /\ E(i + 1) \in Nat
      BY <1>1, <2>1
    <2>4. QED
      BY <2>2, <2>3
  <1>7. Nat \subseteq Reached
    <2> HIDE DEF Reached
    <2>1. QED
      BY <1>5, <1>6, NaturalInduction
  <1>8. ASSUME NEW i \in 1 .. P PROVE s[i] = E(i) - E(i - 1)
    <2>1. i - 1 \in 0 .. P /\ i \in 0 .. P /\ i - 1 \in Nat /\ i - 1 <= P - 1
      BY <1>1
    <2>2. CASE i < P
      BY <1>1, <1>3, <2>2
    <2>3. CASE i = P
      <3>1. T[P - 1] = E(P - 1)
        BY <1>7, <2>1, <2>3
      <3>2. n = T[P - 1] + s[P] /\ E(P - 1) \in Nat
        BY <1>1, <1>2, <2>1, <2>3
      <3>3. QED
        BY <1>1, <1>4, <2>3, <3>1, <3>2
    <2>4. QED
      BY <1>1, <2>2, <2>3
  <1>9. QED
    BY <1>8 DEF IsCut, P, E

\* The i-th piece of c bytes of a payload, the chunks of the first k pieces, and
\* the manifest they make.
PieceOf(b, c, i) == SubSeq(b, EndOf(Len(b), c, i - 1) + 1, EndOf(Len(b), c, i))
ChunkOf(b, c, i) ==
    [index |-> i - 1, size |-> EndOf(Len(b), c, i) - EndOf(Len(b), c, i - 1),
     hash |-> Hash(PieceOf(b, c, i))]
ChunksOf(b, c, k) == [i \in 1 .. k |-> ChunkOf(b, c, i)]
ManifestOf(b, c) ==
    [version |-> ManifestVersion, filename |-> Leaf, size |-> Len(b),
     chunkSize |-> c, hash |-> Hash(b),
     chunks |-> ChunksOf(b, c, PieceCount(Len(b), c))]

\* A digest of bytes is well formed.
LEMMA DigestsAre ==
    ASSUME NEW b \in Seq(Bytes)
    PROVE  Hash(b) \in Digest /\ ValidDigest(Hash(b)) /\ Hash(b).of = b
  BY DEF Hash, Digest, ValidDigest

\* A piece is as long as it should be, and its chunk is well formed.
LEMMA ChunksAre ==
    ASSUME NEW b \in Seq(Bytes), NEW c \in Nat \ {0},
           NEW i \in 1 .. PieceCount(Len(b), c)
    PROVE  /\ PieceOf(b, c, i) \in Seq(Bytes)
           /\ Len(PieceOf(b, c, i)) = EndOf(Len(b), c, i) - EndOf(Len(b), c, i - 1)
           /\ ChunkOf(b, c, i) \in ChunkRecord
           /\ ChunkOf(b, c, i).index = i - 1
           /\ ChunkOf(b, c, i).size = EndOf(Len(b), c, i) - EndOf(Len(b), c, i - 1)
           /\ ChunkOf(b, c, i).size \in 1 .. c
           /\ i < PieceCount(Len(b), c) => ChunkOf(b, c, i).size = c
           /\ ValidDigest(ChunkOf(b, c, i).hash)
  <1> DEFINE L == Len(b)
             P == PieceCount(L, c)
             t == EndOf(L, c, i - 1)
             u == EndOf(L, c, i)
  <1>1. L \in Nat /\ i \in Nat /\ i - 1 \in Int
    OBVIOUS
  <1>2. t \in 0 .. L /\ u \in 0 .. L /\ t < u /\ u - t \in 1 .. c
        /\ (i < P => u - t = c)
    BY <1>1, PiecesAre
  <1> HIDE DEF L, P, t, u
  <1>3. SubSeq(b, t + 1, u) \in Seq(Bytes) /\ Len(SubSeq(b, t + 1, u)) = u - t
    <2>1. \A k \in t + 1 .. u : k \in 1 .. Len(b)
      BY <1>1, <1>2 DEF L
    <2>2. QED
      BY <1>1, <1>2, <2>1
  <1>4. PieceOf(b, c, i) = SubSeq(b, t + 1, u)
    BY DEF PieceOf, L, t, u
  <1>5. ChunkOf(b, c, i) = [index |-> i - 1, size |-> u - t, hash |-> Hash(PieceOf(b, c, i))]
    BY DEF ChunkOf, L, t, u
  <1>6. Hash(PieceOf(b, c, i)) \in Digest /\ ValidDigest(Hash(PieceOf(b, c, i)))
    BY <1>3, <1>4, DigestsAre
  <1>7. ChunkOf(b, c, i) \in ChunkRecord
    <2>1. u - t \in Nat
      BY <1>1, <1>2
    <2>2. QED
      BY <1>1, <1>5, <1>6, <2>1 DEF ChunkRecord
  <1>8. /\ ChunkOf(b, c, i).index = i - 1
        /\ ChunkOf(b, c, i).size = u - t
        /\ ChunkOf(b, c, i).hash = Hash(PieceOf(b, c, i))
    BY <1>5
  <1>9. QED
    BY <1>2, <1>3, <1>4, <1>6, <1>7, <1>8 DEF L, P, t, u

\* A manifest with the chunk sizes of a cut adds up.
LEMMA SizesAre ==
    ASSUME NEW m, m.chunks \in Seq(ChunkRecord)
    PROVE  /\ Sizes(m) \in Seq(Nat) /\ Len(Sizes(m)) = Len(m.chunks)
           /\ \A i \in 1 .. Len(m.chunks) : Sizes(m)[i] = m.chunks[i].size
  <1>1. Sizes(m) = [i \in 1 .. Len(m.chunks) |-> m.chunks[i].size]
    BY DEF Sizes
  <1>2. \A i \in 1 .. Len(m.chunks) : m.chunks[i].size \in Nat
    <2>1. \A i \in 1 .. Len(m.chunks) : m.chunks[i] \in ChunkRecord
      OBVIOUS
    <2>2. QED
      BY <2>1 DEF ChunkRecord
  <1>3. QED
    BY <1>1, <1>2

\* The chunks of a payload are a sequence of chunk records.
LEMMA ChunksOfAre ==
    ASSUME NEW b \in Seq(Bytes), NEW c \in Nat \ {0},
           NEW k \in 0 .. PieceCount(Len(b), c)
    PROVE  /\ ChunksOf(b, c, k) \in Seq(ChunkRecord) /\ Len(ChunksOf(b, c, k)) = k
           /\ \A i \in 1 .. k : ChunksOf(b, c, k)[i] = ChunkOf(b, c, i)
           /\ k > 0 => ChunksOf(b, c, k) = Append(ChunksOf(b, c, k - 1), ChunkOf(b, c, k))
           /\ PieceCount(Len(b), c) \in Nat
  <1> DEFINE P == PieceCount(Len(b), c)
             S == ChunksOf(b, c, k)
  <1>1. P \in Nat
    <2>1. Len(b) \in Nat
      OBVIOUS
    <2>2. QED
      BY <2>1, PiecesAre
  <1>2. \A i \in 1 .. k : i \in 1 .. P
    BY <1>1
  <1>3. \A i \in 1 .. k : ChunkOf(b, c, i) \in ChunkRecord
    BY <1>2, ChunksAre
  <1>4. S = [i \in 1 .. k |-> ChunkOf(b, c, i)] /\ k \in Nat
    BY <1>1 DEF ChunksOf
  <1> HIDE DEF S, P
  <1>5. S \in Seq(ChunkRecord) /\ Len(S) = k /\ \A i \in 1 .. k : S[i] = ChunkOf(b, c, i)
    BY <1>3, <1>4
  <1>6. ASSUME k > 0 PROVE S = Append(ChunksOf(b, c, k - 1), ChunkOf(b, c, k))
    <2> DEFINE V == ChunksOf(b, c, k - 1)
               W == Append(V, ChunkOf(b, c, k))
    <2>1. V = [i \in 1 .. k - 1 |-> ChunkOf(b, c, i)] /\ k - 1 \in Nat
      BY <1>4, <1>6 DEF ChunksOf
    <2>2. \A i \in 1 .. k - 1 : i \in 1 .. k
      BY <1>4
    <2>3. V \in Seq(ChunkRecord) /\ Len(V) = k - 1
          /\ \A i \in 1 .. k - 1 : V[i] = ChunkOf(b, c, i)
      <3> HIDE DEF V
      <3>1. QED
        BY <1>3, <2>1, <2>2
    <2> HIDE DEF V
    <2>4. k \in 1 .. k /\ ChunkOf(b, c, k) \in ChunkRecord
      BY <1>3, <1>4, <1>6
    <2>5. W \in Seq(ChunkRecord) /\ Len(W) = k
          /\ \A i \in 1 .. k : W[i] = ChunkOf(b, c, i)
      <3>1. W \in Seq(ChunkRecord) /\ Len(W) = k
        BY <1>4, <2>3, <2>4
      <3>2. \A i \in 1 .. k : W[i] = IF i = k THEN ChunkOf(b, c, k) ELSE V[i]
        BY <1>4, <2>3, <2>4
      <3>3. \A i \in 1 .. k : i = k \/ i \in 1 .. k - 1
        BY <1>4
      <3>4. QED
        BY <2>3, <3>1, <3>2, <3>3
    <2> HIDE DEF W
    <2>6. S = W
      BY <1>5, <2>5, SameSequence
    <2>7. QED
      BY <2>6 DEF W, V
  <1>7. QED
    BY <1>1, <1>5, <1>6 DEF S, P

\* The chunks of a payload add up to it.
LEMMA ChunksAddUp ==
    ASSUME NEW b \in Seq(Bytes), NEW c \in Nat \ {0}, NEW m,
           m.chunks = ChunksOf(b, c, PieceCount(Len(b), c))
    PROVE  IsCut(Sizes(m), Len(b), c) /\ Sum(Sizes(m)) = Len(b)
  <1> DEFINE P == PieceCount(Len(b), c)
  <1>1. P \in 0 .. P /\ P \in Nat /\ Len(b) \in Nat
    <2>1. Len(b) \in Nat
      OBVIOUS
    <2>2. P \in Nat
      BY <2>1, PiecesAre
    <2>3. QED
      BY <2>1, <2>2
  <1>2. /\ m.chunks \in Seq(ChunkRecord) /\ Len(m.chunks) = P
        /\ \A i \in 1 .. P : m.chunks[i] = ChunkOf(b, c, i)
    <2>1. P \in 0 .. PieceCount(Len(b), c) /\ m.chunks = ChunksOf(b, c, P)
      BY <1>1
    <2> HIDE DEF P
    <2>2. /\ ChunksOf(b, c, P) \in Seq(ChunkRecord) /\ Len(ChunksOf(b, c, P)) = P
          /\ \A i \in 1 .. P : ChunksOf(b, c, P)[i] = ChunkOf(b, c, i)
      BY <2>1, ChunksOfAre
    <2>3. QED
      BY <2>1, <2>2
  <1>3. \A i \in 1 .. P :
           m.chunks[i].size = EndOf(Len(b), c, i) - EndOf(Len(b), c, i - 1)
    BY <1>2, ChunksAre
  <1>4. IsCut(Sizes(m), Len(b), c)
    BY <1>2, <1>3, SizesAre DEF IsCut
  <1>5. QED
    BY <1>1, <1>4, CutsAddUp

-----------------------------------------------------------------------------
(* Manifests: what BuildManifest makes of a payload.                       *)

\* Where the loop of BuildManifest is after k turns.
TurnOf(r, c, k) ==
    LET L == Len(r.bytes)
    IN  IF k * c <= L
        THEN [rest |-> From(r, k * c), err |-> "nil", chunks |-> ChunksOf(r.bytes, c, k)]
        ELSE [rest |-> [bytes |-> <<>>, breaks |-> r.breaks],
              err |-> IF r.breaks THEN "error"
                      ELSE IF L % c = 0 THEN "EOF" ELSE "ErrUnexpectedEOF",
              chunks |-> ChunksOf(r.bytes, c, PieceCount(L, c))]

\* A piece starts where the one before it ends.
LEMMA PieceFrom ==
    ASSUME NEW b, NEW c, NEW k \in Nat
    PROVE  PieceOf(b, c, k + 1) =
              SubSeq(b, EndOf(Len(b), c, k) + 1, EndOf(Len(b), c, k + 1))
  <1> DEFINE j == k + 1
  <1>1. j - 1 = k
    OBVIOUS
  <1> HIDE DEF j
  <1>2. PieceOf(b, c, j) = SubSeq(b, EndOf(Len(b), c, j - 1) + 1, EndOf(Len(b), c, j))
    BY DEF PieceOf
  <1>3. PieceOf(b, c, j) = SubSeq(b, EndOf(Len(b), c, k) + 1, EndOf(Len(b), c, j))
    BY <1>1, <1>2
  <1>4. QED
    BY <1>3 DEF j

\* A turn after a full chunk reads the next piece of the payload, or what is
\* left of it.
LEMMA NextTurn ==
    ASSUME NEW r \in Stream, NEW c \in Nat \ {0}, NEW k \in Nat,
           k * c <= Len(r.bytes)
    PROVE  ReadChunk(TurnOf(r, c, k), c) = TurnOf(r, c, k + 1)
  <1> DEFINE b == r.bytes
             L == Len(b)
             P == PieceCount(L, c)
             t == k * c
             got == ReadFull(From(r, t), c)
  <1>1. b \in Seq(Bytes) /\ L \in Nat /\ t \in Nat /\ t <= L /\ (k + 1) * c = t + c
    BY Products DEF Stream
  <1>2. /\ P \in Nat /\ L <= P * c /\ EndOf(L, c, P) = L
        /\ (P * c <= L <=> L % c = 0)
        /\ \A i \in 0 .. P - 1 : EndOf(L, c, i) = i * c /\ i * c < L
    <2> HIDE DEF L, b
    <2>1. P \in 0 .. L /\ L <= P * c /\ EndOf(L, c, P) = L
      BY <1>1, PiecesAre
    <2>2. P * c <= L <=> L % c = 0
      BY <1>1, PiecesAre
    <2>3. \A i \in 0 .. P - 1 : EndOf(L, c, i) = i * c /\ i * c < L
      BY <1>1, PiecesAre
    <2>4. QED
      BY <1>1, <2>1, <2>2, <2>3
  <1>3. k <= P
    <2>1. ASSUME k > P PROVE FALSE
      <3>1. P * c + c <= k * c /\ P * c \in Nat
        BY <1>2, <2>1, Products
      <3>2. QED
        BY <1>1, <1>2, <3>1
    <2>2. QED
      BY <1>2, <2>1
  <1>4. TurnOf(r, c, k) = [rest |-> From(r, t), err |-> "nil", chunks |-> ChunksOf(b, c, k)]
    BY DEF TurnOf
  <1>5. ReadChunk(TurnOf(r, c, k), c) =
           [rest |-> got.rest, err |-> got.err,
            chunks |-> IF got.data = <<>> THEN ChunksOf(b, c, k)
                       ELSE Append(ChunksOf(b, c, k),
                              [index |-> Len(ChunksOf(b, c, k)),
                               size |-> Len(got.data), hash |-> Hash(got.data)])]
    BY <1>4 DEF ReadChunk
  <1>6. ChunksOf(b, c, k) \in Seq(ChunkRecord) /\ Len(ChunksOf(b, c, k)) = k
    <2>1. k \in 0 .. P
      BY <1>2, <1>3
    <2>2. QED
      BY <1>1, <2>1, ChunksOfAre
  <1>7. ASSUME k < P
        PROVE  /\ k + 1 \in 0 .. P /\ k + 1 \in 1 .. P
               /\ ChunksOf(b, c, k + 1) =
                     Append(ChunksOf(b, c, k),
                            [index |-> k, size |-> Len(PieceOf(b, c, k + 1)),
                             hash |-> Hash(PieceOf(b, c, k + 1))])
               /\ PieceOf(b, c, k + 1) = SubSeq(b, t + 1, EndOf(L, c, k + 1))
               /\ Len(PieceOf(b, c, k + 1)) = EndOf(L, c, k + 1) - t
               /\ PieceOf(b, c, k + 1) # <<>>
    <2>1. k + 1 \in 0 .. P /\ k + 1 \in 1 .. P /\ k + 1 - 1 = k /\ k + 1 > 0
          /\ k \in 0 .. P - 1
      BY <1>2, <1>7
    <2>2. EndOf(L, c, k) = t
      BY <1>2, <2>1
    <2>3. /\ Len(PieceOf(b, c, k + 1)) = EndOf(L, c, k + 1) - EndOf(L, c, k)
          /\ ChunkOf(b, c, k + 1).size = EndOf(L, c, k + 1) - EndOf(L, c, k)
          /\ ChunkOf(b, c, k + 1).size \in 1 .. c
      BY <1>1, <2>1, ChunksAre
    <2>4. ChunkOf(b, c, k + 1) = [index |-> k, size |-> EndOf(L, c, k + 1) - EndOf(L, c, k),
                                  hash |-> Hash(PieceOf(b, c, k + 1))]
      BY <2>1 DEF ChunkOf
    <2>5. ChunksOf(b, c, k + 1) = Append(ChunksOf(b, c, k), ChunkOf(b, c, k + 1))
      <3> DEFINE j == k + 1
      <3>1. j \in 0 .. PieceCount(Len(b), c) /\ j > 0 /\ j - 1 = k
        BY <2>1
      <3> HIDE DEF j, b
      <3>2. ChunksOf(b, c, j) = Append(ChunksOf(b, c, j - 1), ChunkOf(b, c, j))
        BY <1>1, <3>1, ChunksOfAre
      <3>3. QED
        BY <3>1, <3>2 DEF j
    <2>6. PieceOf(b, c, k + 1) = SubSeq(b, t + 1, EndOf(L, c, k + 1))
      <3> HIDE DEF b, t
      <3>1. QED
        BY <2>2, PieceFrom
    <2>7. PieceOf(b, c, k + 1) # <<>>
      BY <2>3
    <2>8. QED
      BY <2>1, <2>2, <2>3, <2>4, <2>5, <2>6, <2>7
  <1> HIDE DEF L, P, b, t
  <1>8. CASE t + c <= L
    <2>1. k < P
      <3>1. ASSUME k = P PROVE FALSE
        BY <1>1, <1>2, <1>8, <3>1 DEF t
      <3>2. QED
        BY <1>2, <1>3, <3>1
    <2>2. EndOf(L, c, k + 1) = t + c
      BY <1>1, <1>8 DEF EndOf
    <2>3. got = [data |-> SubSeq(b, t + 1, t + c), rest |-> From(r, t + c), err |-> "nil"]
      <3>1. c \in Nat /\ t \in 0 .. Len(r.bytes) /\ t + c <= Len(r.bytes)
        BY <1>1, <1>8 DEF L, b
      <3>2. QED
        BY <3>1, ReadsInFull DEF b
    <2>4. got.data = PieceOf(b, c, k + 1) /\ got.data # <<>> /\ got.err = "nil"
          /\ got.rest = From(r, t + c)
      <3>1. PieceOf(b, c, k + 1) = SubSeq(b, t + 1, t + c)
            /\ PieceOf(b, c, k + 1) # <<>>
        BY <1>7, <2>1, <2>2
      <3> HIDE DEF got
      <3>2. QED
        BY <2>3, <3>1
    <2>5. TurnOf(r, c, k + 1) = [rest |-> From(r, t + c), err |-> "nil",
                                 chunks |-> ChunksOf(b, c, k + 1)]
      BY <1>1, <1>8 DEF TurnOf, L, b, t
    <2> HIDE DEF got
    <2>6. QED
      BY <1>5, <1>6, <1>7, <2>1, <2>4, <2>5
  <1>9. CASE ~ (t + c <= L)
    <2>1. /\ got.data = SubSeq(b, t + 1, L)
          /\ got.data \in Seq(Bytes) /\ Len(got.data) = L - t
          /\ got.err = IF r.breaks THEN "error"
                       ELSE IF t = L THEN "EOF" ELSE "ErrUnexpectedEOF"
          /\ got.rest = [bytes |-> <<>>, breaks |-> r.breaks]
      <3>1. c \in Nat /\ t \in 0 .. Len(r.bytes) /\ t + c > Len(r.bytes)
        BY <1>1, <1>9 DEF L, b
      <3>2. QED
        BY <3>1, ReadsToTheEnd DEF b, L
    <2>2. TurnOf(r, c, k + 1) =
             [rest |-> [bytes |-> <<>>, breaks |-> r.breaks],
              err |-> IF r.breaks THEN "error"
                      ELSE IF L % c = 0 THEN "EOF" ELSE "ErrUnexpectedEOF",
              chunks |-> ChunksOf(b, c, P)]
      BY <1>1, <1>9 DEF TurnOf, L, b, t, P
    <2>3. CASE k = P
      <3>1. t = L /\ L % c = 0
        BY <1>1, <1>2, <2>3 DEF t
      <3>2. got.data = <<>>
        BY <1>1, <2>1, <3>1
      <3> HIDE DEF got
      <3>3. QED
        BY <1>5, <2>1, <2>2, <2>3, <3>1, <3>2
    <2>4. CASE k < P
      <3>1. t < L
        <4>1. k \in 0 .. P - 1
          BY <1>2, <2>4
        <4>2. QED
          BY <1>2, <4>1 DEF t
      <3>2. k + 1 = P
        <4>1. ASSUME k + 1 < P PROVE FALSE
          <5>1. k + 1 \in 0 .. P - 1
            BY <1>2, <4>1
          <5>2. (k + 1) * c < L
            BY <1>2, <5>1
          <5>3. QED
            BY <1>1, <1>9, <5>2 DEF t
        <4>2. QED
          BY <1>2, <2>4, <4>1
      <3>3. EndOf(L, c, k + 1) = L
        BY <1>2, <3>2
      <3>4. L % c # 0
        <4>1. ~ (P * c <= L)
          BY <1>1, <1>9, <3>2 DEF t
        <4>2. QED
          BY <1>2, <4>1
      <3>5. got.data = PieceOf(b, c, k + 1) /\ got.data # <<>> /\ t # L
        <4>1. PieceOf(b, c, k + 1) = SubSeq(b, t + 1, L)
              /\ PieceOf(b, c, k + 1) # <<>>
          BY <1>7, <2>4, <3>3
        <4> HIDE DEF got
        <4>2. QED
          <5>1. t # L
            BY <1>1, <3>1
          <5>2. QED
            BY <2>1, <4>1, <5>1
      <3> HIDE DEF got
      <3>6. QED
        BY <1>5, <1>6, <1>7, <2>1, <2>2, <2>4, <3>2, <3>4, <3>5
    <2>5. QED
      BY <1>2, <1>3, <2>3, <2>4
  <1>10. QED
    BY <1>8, <1>9

\* BuildManifest's loop reads every piece of the payload, and ends as the stream
\* does.
LEMMA ReadsEveryPiece ==
    ASSUME NEW r \in Stream, NEW c \in Nat \ {0}
    PROVE  LET L == Len(r.bytes)
               read == ReadChunks(r, c)
           IN  /\ read.chunks = ChunksOf(r.bytes, c, PieceCount(L, c))
               /\ read.err = IF r.breaks THEN "error"
                             ELSE IF L % c = 0 THEN "EOF" ELSE "ErrUnexpectedEOF"
  <1> DEFINE b == r.bytes
             n == Len(b) + 1
             Turn(f, k) == IF k = 0 THEN [rest |-> r, err |-> "nil", chunks |-> <<>>]
                           ELSE IF f[k - 1].err # "nil" THEN f[k - 1]
                           ELSE ReadChunk(f[k - 1], c)
             Course(f) == f = [k \in 0 .. n |-> Turn(f, k)]
             g == [k \in 0 .. n |-> TurnOf(r, c, k)]
  <1>1. b \in Seq(Bytes) /\ Len(b) \in Nat /\ n \in Nat /\ n = Len(b) + 1
    BY DEF Stream
  <1> HIDE DEF b, n
  <1>2. TurnOf(r, c, 0) = [rest |-> r, err |-> "nil", chunks |-> <<>>]
    <2>1. 0 * c = 0 /\ 0 * c <= Len(r.bytes)
      BY <1>1 DEF b
    <2>2. ChunksOf(r.bytes, c, 0) = <<>>
      BY DEF ChunksOf
    <2>3. From(r, 0) = r
      BY FromStart
    <2>4. TurnOf(r, c, 0) = [rest |-> From(r, 0 * c), err |-> "nil",
                             chunks |-> ChunksOf(r.bytes, c, 0)]
      BY <2>1 DEF TurnOf
    <2>5. QED
      BY <2>1, <2>2, <2>3, <2>4
  <1>3. ASSUME NEW k \in Nat, ~ (k * c <= Len(b))
        PROVE  /\ TurnOf(r, c, k).err = IF r.breaks THEN "error"
                                        ELSE IF Len(b) % c = 0 THEN "EOF" ELSE "ErrUnexpectedEOF"
               /\ TurnOf(r, c, k).chunks = ChunksOf(b, c, PieceCount(Len(b), c))
               /\ TurnOf(r, c, k) = TurnOf(r, c, k + 1)
    <2>1. ~ ((k + 1) * c <= Len(b))
      <3>1. (k + 1) * c = k * c + c /\ k * c \in Nat
        BY Products
      <3>2. QED
        BY <1>1, <1>3, <3>1
    <2>2. QED
      BY <1>3, <2>1 DEF TurnOf, b
  <1>4. ASSUME NEW k \in Nat
        PROVE  TurnOf(r, c, k + 1) = IF TurnOf(r, c, k).err # "nil" THEN TurnOf(r, c, k)
                                     ELSE ReadChunk(TurnOf(r, c, k), c)
    <2>1. CASE k * c <= Len(b)
      <3>1. TurnOf(r, c, k).err = "nil"
        BY <2>1 DEF TurnOf, b
      <3>2. ReadChunk(TurnOf(r, c, k), c) = TurnOf(r, c, k + 1)
        BY <2>1, NextTurn DEF b
      <3>3. QED
        BY <3>1, <3>2
    <2>2. CASE ~ (k * c <= Len(b))
      <3>1. TurnOf(r, c, k).err # "nil"
        BY <1>3, <2>2
      <3>2. QED
        BY <1>3, <2>2, <3>1
    <2>3. QED
      BY <2>1, <2>2
  <1>5. Course(g)
    <2>1. ASSUME NEW k \in 0 .. n PROVE TurnOf(r, c, k) = Turn(g, k)
      <3>1. CASE k = 0
        BY <1>2, <3>1
      <3>2. CASE k # 0
        <4> DEFINE j == k - 1
        <4>1. j \in Nat /\ k = j + 1 /\ j \in 0 .. n
          BY <1>1, <3>2
        <4>2. g[j] = TurnOf(r, c, j)
          BY <4>1
        <4>3. TurnOf(r, c, j + 1) = IF TurnOf(r, c, j).err # "nil" THEN TurnOf(r, c, j)
                                    ELSE ReadChunk(TurnOf(r, c, j), c)
          BY <1>4, <4>1
        <4>4. Turn(g, k) = IF g[j].err # "nil" THEN g[j] ELSE ReadChunk(g[j], c)
          BY <3>2
        <4> HIDE DEF g, j, Turn
        <4>5. QED
          BY <4>1, <4>2, <4>3, <4>4
      <3>3. QED
        BY <3>1, <3>2
    <2>2. [k \in 0 .. n |-> TurnOf(r, c, k)] = [k \in 0 .. n |-> Turn(g, k)]
      <3> HIDE DEF g, Turn
      <3>1. QED
        BY <2>1
    <2>3. QED
      BY <2>2
  <1>6. ASSUME NEW f, Course(f) PROVE f[n] = g[n]
    <2> DEFINE Same == {k \in Nat : k <= n => f[k] = g[k]}
    <2>0. \A k \in 0 .. n : f[k] = Turn(f, k) /\ g[k] = Turn(g, k)
      <3> HIDE DEF Turn, g
      <3>1. QED
        BY <1>5, <1>6
    <2>1. 0 \in Same
      <3>1. f[0] = Turn(f, 0) /\ g[0] = Turn(g, 0)
        <4>1. 0 \in 0 .. n
          BY <1>1
        <4> HIDE DEF Turn, g
        <4>2. QED
          BY <2>0, <4>1
      <3>2. Turn(f, 0) = Turn(g, 0)
        BY Zenon
      <3> HIDE DEF Turn, g
      <3>3. QED
        BY <3>1, <3>2
    <2>2. ASSUME NEW k \in Nat, k \in Same PROVE k + 1 \in Same
      <3> SUFFICES ASSUME k + 1 <= n PROVE f[k + 1] = g[k + 1]
        OBVIOUS
      <3>1. k + 1 \in 0 .. n /\ k + 1 - 1 = k /\ k + 1 # 0 /\ k <= n
        BY <1>1
      <3>2. f[k] = g[k]
        BY <2>2, <3>1
      <3>3. f[k + 1] = Turn(f, k + 1) /\ g[k + 1] = Turn(g, k + 1)
        <4> HIDE DEF Turn, g
        <4>1. QED
          BY <2>0, <3>1
      <3> HIDE DEF g
      <3>4. Turn(f, k + 1) = Turn(g, k + 1)
        BY <3>1, <3>2
      <3> HIDE DEF Turn
      <3>5. QED
        BY <3>3, <3>4
    <2>3. Nat \subseteq Same
      <3> HIDE DEF Same
      <3>1. QED
        BY <2>1, <2>2, NaturalInduction
    <2>4. n \in Same
      BY <1>1, <2>3
    <2> HIDE DEF g, Course
    <2>5. QED
      BY <1>1, <2>4
  <1>7. ReadChunks(r, c) = g[n]
    <2> DEFINE h == CHOOSE f : Course(f)
    <2>1. ReadChunks(r, c) = h[n]
      BY Zenon DEF ReadChunks, n, b
    <2>2. Course(h)
      <3> HIDE DEF Course, g
      <3>1. QED
        BY <1>5, Zenon
    <2> HIDE DEF h, Course, g
    <2>3. QED
      BY <1>6, <2>1, <2>2
  <1>8. g[n] = TurnOf(r, c, n) /\ ~ (n * c <= Len(b))
    <2>1. n <= n * c /\ n * c \in Nat /\ n \in 0 .. n
      BY <1>1, Products
    <2>2. QED
      BY <1>1, <2>1
  <1> HIDE DEF g
  <1>9. QED
    BY <1>1, <1>3, <1>7, <1>8 DEF b

\* The manifest of a payload is valid.
LEMMA ManifestOfIsValid ==
    ASSUME NEW b \in Seq(Bytes), NEW c \in 1 .. DefaultChunkSize
    PROVE  Validate(ManifestOf(b, c))
  <1> DEFINE L == Len(b)
             P == PieceCount(L, c)
             m == ManifestOf(b, c)
  <1>1. c \in Nat \ {0} /\ L \in Nat /\ P \in 0 .. P /\ P \in Nat
        /\ (P = 0 <=> L = 0) /\ ValidChunkSize(c)
    <2>1. c \in Nat \ {0} /\ L \in Nat /\ ValidChunkSize(c)
      BY ManifestAssumption DEF ValidChunkSize
    <2> HIDE DEF L
    <2>2. P \in 0 .. L /\ (P = 0 <=> L = 0)
      BY <2>1, PiecesAre
    <2>3. QED
      BY <2>1, <2>2
  <1>2. /\ m.version = ManifestVersion /\ m.filename = Leaf /\ m.size = L
        /\ m.chunkSize = c /\ m.hash = Hash(b) /\ m.chunks = ChunksOf(b, c, P)
    BY DEF ManifestOf
  <1> HIDE DEF m, P, L
  <1>3. /\ m.chunks \in Seq(ChunkRecord) /\ Len(m.chunks) = P
        /\ \A i \in 1 .. P : m.chunks[i] = ChunkOf(b, c, i)
    <2>1. P \in 0 .. PieceCount(Len(b), c)
      BY <1>1 DEF P, L
    <2>2. /\ ChunksOf(b, c, P) \in Seq(ChunkRecord) /\ Len(ChunksOf(b, c, P)) = P
          /\ \A i \in 1 .. P : ChunksOf(b, c, P)[i] = ChunkOf(b, c, i)
      BY <1>1, <2>1, ChunksOfAre
    <2>3. QED
      BY <1>2, <2>2
  <1>4. ValidDigest(m.hash) /\ m.size >= 0
    BY <1>1, <1>2, DigestsAre
  <1>5. ASSUME L = 0 PROVE Validate(m)
    <2>1. m.chunks = <<>> /\ b = <<>>
      BY <1>1, <1>3, <1>5 DEF L
    <2>2. QED
      BY <1>1, <1>2, <1>4, <1>5, <2>1 DEF Validate
  <1>6. ASSUME L # 0 PROVE Validate(m)
    <2>1. m.chunks # <<>>
      BY <1>1, <1>3, <1>6
    <2>2. Len(m.chunks) = ExpectedChunks(m)
      BY <1>2, <1>3 DEF ExpectedChunks, PieceCount, P
    <2>3. ASSUME NEW i \in 1 .. P PROVE ValidChunkAt(m, i)
      <3>1. /\ m.chunks[i].index = i - 1 /\ m.chunks[i].size \in 1 .. c
            /\ i < P => m.chunks[i].size = c
            /\ ValidDigest(m.chunks[i].hash)
        BY <1>1, <1>3, ChunksAre DEF P, L
      <3>2. QED
        BY <1>2, <1>3, <3>1 DEF ValidChunkAt
    <2>4. Sum(Sizes(m)) = m.size
      BY <1>1, <1>2, ChunksAddUp DEF P, L
    <2>5. DOMAIN m.chunks = 1 .. P
      BY <1>3
    <2>6. ValidChunks(m)
      BY <2>1, <2>2, <2>3, <2>4, <2>5 DEF ValidChunks
    <2>7. QED
      BY <1>1, <1>2, <1>4, <1>6, <2>6 DEF Validate
  <1>7. QED
    BY <1>5, <1>6 DEF m

\* BuildManifest makes of a stream that does not break its manifest.
LEMMA Builds ==
    ASSUME NEW r \in Stream, NEW c \in Nat
    PROVE  BuildManifest(Leaf, r, c) =
              IF ValidChunkSize(c) /\ ~r.breaks THEN ManifestOf(r.bytes, c) ELSE Failed
  <1> DEFINE b == r.bytes
             read == ReadChunks(r, c)
             m == [version |-> ManifestVersion, filename |-> Leaf,
                   size |-> Sum(Sizes(read)), chunkSize |-> c,
                   hash |-> Hash(b), chunks |-> read.chunks]
  <1>1. b \in Seq(Bytes) /\ r.breaks \in BOOLEAN
    BY DEF Stream
  <1>2. CASE ~ValidChunkSize(c)
    BY <1>2, Zenon DEF BuildManifest
  <1>3. CASE ValidChunkSize(c)
    <2>1. c \in Nat \ {0} /\ c \in 1 .. DefaultChunkSize
      BY <1>3, ManifestAssumption DEF ValidChunkSize
    <2>2. /\ read.chunks = ChunksOf(b, c, PieceCount(Len(b), c))
          /\ read.err = IF r.breaks THEN "error"
                        ELSE IF Len(b) % c = 0 THEN "EOF" ELSE "ErrUnexpectedEOF"
      BY <2>1, ReadsEveryPiece
    <2>3. Sum(Sizes(read)) = Len(b)
      <3> HIDE DEF read, b
      <3>1. QED
        BY <1>1, <2>1, <2>2, ChunksAddUp
    <2>4. m = ManifestOf(b, c)
      BY <2>2, <2>3 DEF ManifestOf
    <2>5. Validate(m)
      BY <1>1, <2>1, <2>4, ManifestOfIsValid
    <2>6. BuildManifest(Leaf, r, c) =
             IF read.err \in {"EOF", "ErrUnexpectedEOF"} /\ Validate(m) THEN m ELSE Failed
      BY <1>3, Zenon DEF BuildManifest
    <2>7. read.err \in {"EOF", "ErrUnexpectedEOF"} <=> ~r.breaks
      <3> HIDE DEF read
      <3>1. QED
        BY <1>1, <2>2
    <2> HIDE DEF read, m
    <2>8. QED
      BY <1>3, <2>4, <2>5, <2>6, <2>7
  <1>4. QED
    BY <1>2, <1>3

-----------------------------------------------------------------------------
(* Manifests: what VerifyPayload finds.                                    *)

\* The fields of a manifest, well formed or not.
LEMMA ManifestFields ==
    ASSUME NEW m \in ManifestRecord
    PROVE  /\ m.version \in {1, 2} /\ m.filename \in {Leaf, NotALeaf}
           /\ m.size \in Int /\ m.size <= MaxLen
           /\ m.chunkSize \in Nat /\ m.hash \in Digest /\ m.chunks \in Seq(ChunkRecord)
           /\ m = [version |-> m.version, filename |-> m.filename, size |-> m.size,
                   chunkSize |-> m.chunkSize, hash |-> m.hash, chunks |-> m.chunks]
           /\ \A i \in 1 .. Len(m.chunks) :
                /\ m.chunks[i].index \in Int /\ m.chunks[i].size \in Nat
                /\ m.chunks[i].hash \in Digest
                /\ m.chunks[i] = [index |-> m.chunks[i].index, size |-> m.chunks[i].size,
                                  hash |-> m.chunks[i].hash]
  <1>1. /\ m.version \in {1, 2} /\ m.filename \in {Leaf, NotALeaf}
        /\ m.size \in -1 .. MaxLen
        /\ m.chunkSize \in Nat /\ m.hash \in Digest /\ m.chunks \in Seq(ChunkRecord)
        /\ m = [version |-> m.version, filename |-> m.filename, size |-> m.size,
                chunkSize |-> m.chunkSize, hash |-> m.hash, chunks |-> m.chunks]
    BY DEF ManifestRecord
  <1>2. \A i \in 1 .. Len(m.chunks) : m.chunks[i] \in ChunkRecord
    BY <1>1
  <1>3. QED
    BY <1>1, <1>2, ManifestAssumption DEF ChunkRecord

\* The chunks of a valid manifest have the sizes of a cut.
LEMMA ValidManifestIs ==
    ASSUME NEW m \in ManifestRecord, Validate(m)
    PROVE  LET n == m.size
               c == m.chunkSize
           IN  /\ n \in Nat /\ c \in Nat \ {0} /\ c \in 1 .. DefaultChunkSize
               /\ Len(m.chunks) = PieceCount(n, c)
               /\ \A i \in 1 .. Len(m.chunks) :
                    /\ m.chunks[i].index = i - 1
                    /\ m.chunks[i].size = EndOf(n, c, i) - EndOf(n, c, i - 1)
                    /\ m.chunks[i].size \in 1 .. DefaultChunkSize
                    /\ ValidDigest(m.chunks[i].hash)
               /\ m.version = ManifestVersion /\ m.filename = Leaf
               /\ ValidDigest(m.hash) /\ (n = 0 => m.hash = Hash(<<>>))
  <1> DEFINE n == m.size
             c == m.chunkSize
             P == PieceCount(n, c)
  <1>1. n \in Nat /\ c \in Nat \ {0} /\ c \in 1 .. DefaultChunkSize
        /\ m.chunks \in Seq(ChunkRecord)
        /\ m.version = ManifestVersion /\ m.filename = Leaf
        /\ ValidDigest(m.hash) /\ (n = 0 => m.hash = Hash(<<>>))
    BY ManifestFields, ManifestAssumption DEF Validate, ValidChunkSize
  <1> HIDE DEF n, c
  <1>2. P \in 0 .. n /\ (P = 0 <=> n = 0)
    BY <1>1, PiecesAre
  <1>3. CASE n = 0
    <2>1. m.chunks = <<>>
      BY <1>3 DEF Validate, n
    <2>2. Len(m.chunks) = 0
      BY <2>1
    <2>3. Len(m.chunks) = P
      BY <1>2, <1>3, <2>2
    <2>4. 1 .. Len(m.chunks) = {}
      BY <2>2
    <2> HIDE DEF P
    <2>5. QED
      BY <1>1, <2>3, <2>4 DEF n, c, P
  <1>4. CASE n # 0
    <2>1. ValidChunks(m)
      BY <1>4 DEF Validate, n
    <2>2. Len(m.chunks) = P
      BY <2>1 DEF ValidChunks, ExpectedChunks, PieceCount, n, c
    <2>3. \A i \in 1 .. Len(m.chunks) : ValidChunkAt(m, i)
      BY <1>1, <2>1 DEF ValidChunks
    <2>4. Sum(Sizes(m)) = n
      BY <2>1 DEF ValidChunks, n
    <2>5. \A i \in 1 .. Len(m.chunks) :
            /\ m.chunks[i].index = i - 1 /\ m.chunks[i].size \in 1 .. c
            /\ i < Len(m.chunks) => m.chunks[i].size = c
            /\ ValidDigest(m.chunks[i].hash)
      BY <2>3 DEF ValidChunkAt, c
    <2>6. /\ Sizes(m) \in Seq(Nat) /\ Len(Sizes(m)) = Len(m.chunks)
          /\ \A i \in 1 .. Len(m.chunks) : Sizes(m)[i] = m.chunks[i].size
      BY <1>1, SizesAre
    <2> HIDE DEF P
    <2>7. IsCut(Sizes(m), n, c)
      <3>1. \A i \in 1 .. Len(Sizes(m)) : i < Len(Sizes(m)) => Sizes(m)[i] = c
        BY <2>5, <2>6
      <3>2. n \in Nat \ {0} /\ Len(Sizes(m)) = PieceCount(n, c)
        BY <1>1, <1>4, <2>2, <2>6 DEF P
      <3>3. QED
        BY <1>1, <2>4, <2>6, <3>1, <3>2, OnlyCut
    <2>8. \A i \in 1 .. Len(m.chunks) :
             /\ m.chunks[i].size = EndOf(n, c, i) - EndOf(n, c, i - 1)
             /\ m.chunks[i].size \in 1 .. DefaultChunkSize
      <3>1. \A i \in 1 .. Len(m.chunks) : Sizes(m)[i] = EndOf(n, c, i) - EndOf(n, c, i - 1)
        BY <2>6, <2>7 DEF IsCut
      <3>2. \A x \in 1 .. c : x \in 1 .. DefaultChunkSize
        BY <1>1, ManifestAssumption
      <3>3. QED
        BY <2>5, <2>6, <3>1, <3>2
    <2>9. QED
      BY <1>1, <2>2, <2>5, <2>8 DEF n, c, P
  <1>5. QED
    BY <1>3, <1>4

\* What is left of a stream is a stream.
LEMMA StreamIsLeft ==
    ASSUME NEW r \in Stream, NEW n \in Nat
    PROVE  ReadFull(r, n).rest \in Stream
  <1>1. r.bytes \in Seq(Bytes) /\ r.breaks \in BOOLEAN
    BY DEF Stream
  <1>2. SubSeq(r.bytes, n + 1, Len(r.bytes)) \in Seq(Bytes)
    <2>1. \A k \in n + 1 .. Len(r.bytes) : k \in 1 .. Len(r.bytes)
      BY <1>1
    <2>2. QED
      BY <1>1, <2>1
  <1>3. ReadFull(r, n).rest =
           [bytes |-> SubSeq(r.bytes, n + 1, Len(r.bytes)), breaks |-> r.breaks]
    BY DEF ReadFull
  <1>4. QED
    BY <1>1, <1>2, <1>3 DEF Stream

\* A read that is not answered in full says so.
LEMMA EndIsMet ==
    ASSUME NEW r \in Stream, NEW t \in 0 .. Len(r.bytes), NEW n \in Nat,
           t + n > Len(r.bytes)
    PROVE  ReadFull(From(r, t), n).err # "nil"
  BY ReadsToTheEnd

\* The first k chunks of m are those of the bytes of r.
Fits(m, r, k) ==
    /\ EndOf(m.size, m.chunkSize, k) <= Len(r.bytes)
    /\ \A i \in 1 .. k :
         m.chunks[i].hash = Hash(SubSeq(r.bytes, EndOf(m.size, m.chunkSize, i - 1) + 1,
                                                 EndOf(m.size, m.chunkSize, i)))

\* One turn of VerifyPayload's loop reads a chunk where the last one ended.
LEMMA VerifiesNext ==
    ASSUME NEW m \in ManifestRecord, Validate(m), NEW r \in Stream,
           NEW k \in 1 .. Len(m.chunks), Fits(m, r, k - 1), NEW loop,
           loop.rest = From(r, EndOf(m.size, m.chunkSize, k - 1))
    PROVE  LET next == ReadExpected(loop, m.chunks[k])
           IN  /\ next.ok <=> Fits(m, r, k)
               /\ next.ok => next.rest = From(r, EndOf(m.size, m.chunkSize, k))
  <1> DEFINE b == r.bytes
             L == Len(b)
             n == m.size
             c == m.chunkSize
             t == EndOf(n, c, k - 1)
             u == EndOf(n, c, k)
             s == m.chunks[k].size
             got == ReadFull(From(r, t), s)
             next == ReadExpected(loop, m.chunks[k])
  <1>1. b \in Seq(Bytes) /\ L \in Nat /\ r.breaks \in BOOLEAN
    BY DEF Stream
  <1>2. /\ n \in Nat /\ c \in Nat \ {0}
        /\ m.chunks[k].index = k - 1 /\ s = u - t
        /\ s \in 1 .. DefaultChunkSize /\ ValidDigest(m.chunks[k].hash)
        /\ Len(m.chunks) = PieceCount(n, c)
    BY ValidManifestIs
  <1>3. t \in Nat /\ u \in Nat /\ s \in Nat /\ t + s = u /\ k \in Nat /\ t <= L
    <2> HIDE DEF n, c, s
    <2>1. k - 1 \in 0 .. PieceCount(n, c) /\ k \in 0 .. PieceCount(n, c)
          /\ \A i \in 0 .. PieceCount(n, c) : EndOf(n, c, i) \in 0 .. n
      BY <1>2, PiecesAre
    <2>2. t \in Nat /\ u \in Nat
      BY <1>2, <2>1
    <2>3. t <= L
      BY DEF Fits, n, c
    <2>4. QED
      BY <1>2, <2>2, <2>3, ManifestAssumption
  <1>4. next = [rest |-> got.rest, ok |-> got.err = "nil" /\ VerifyChunk(m.chunks[k], got.data)]
    BY DEF ReadExpected
  <1>5. Fits(m, r, k) <=> u <= L /\ m.chunks[k].hash = Hash(SubSeq(b, t + 1, u))
    <2>1. \A i \in 1 .. k : i = k \/ i \in 1 .. k - 1
      BY <1>3
    <2>2. k \in 1 .. k /\ \A i \in 1 .. k - 1 : i \in 1 .. k
      BY <1>3
    <2>3. QED
      BY <2>1, <2>2 DEF Fits
  <1> HIDE DEF n, c, s, t, u, L, b
  <1>6. CASE u <= L
    <2>1. /\ got = [data |-> SubSeq(b, t + 1, t + s), rest |-> From(r, t + s), err |-> "nil"]
          /\ Len(SubSeq(b, t + 1, t + s)) = s
      <3>1. t \in 0 .. Len(r.bytes) /\ t + s <= Len(r.bytes)
        BY <1>1, <1>3, <1>6 DEF L, b
      <3>2. QED
        BY <1>3, <3>1, ReadsInFull DEF b
    <2>2. got.err = "nil" /\ got.data = SubSeq(b, t + 1, u) /\ Len(got.data) = s
          /\ got.rest = From(r, u)
      <3> HIDE DEF got
      <3>1. QED
        BY <1>3, <2>1
    <2>3. VerifyChunk(m.chunks[k], got.data) <=> m.chunks[k].hash = Hash(SubSeq(b, t + 1, u))
      <3>1. m.chunks[k].index >= 0 /\ m.chunks[k].size = s
        BY <1>2, <1>3 DEF s
      <3> HIDE DEF got
      <3>2. QED
        BY <1>2, <2>2, <3>1 DEF VerifyChunk
    <2> HIDE DEF got, next
    <2>4. (next.ok <=> Fits(m, r, k)) /\ (next.ok => next.rest = From(r, u))
      BY <1>4, <1>5, <1>6, <2>2, <2>3
    <2>5. QED
      BY <2>4 DEF next, u, n, c
  <1>7. CASE ~ (u <= L)
    <2>1. got.err # "nil"
      <3>1. t \in 0 .. Len(r.bytes) /\ t + s > Len(r.bytes)
        BY <1>1, <1>3, <1>7 DEF L, b
      <3>2. QED
        BY <1>3, <3>1, EndIsMet
    <2> HIDE DEF got, next
    <2>2. ~next.ok /\ ~Fits(m, r, k)
      BY <1>4, <1>5, <1>7, <2>1
    <2>3. QED
      BY <2>2 DEF next
  <1>8. QED
    BY <1>6, <1>7

\* The chunks of a valid manifest end one after the other.
LEMMA EndsGrow ==
    ASSUME NEW m \in ManifestRecord, Validate(m), NEW k \in 1 .. Len(m.chunks)
    PROVE  /\ EndOf(m.size, m.chunkSize, k - 1) \in Nat
           /\ EndOf(m.size, m.chunkSize, k) \in Nat
           /\ EndOf(m.size, m.chunkSize, k - 1) <= EndOf(m.size, m.chunkSize, k)
  <1> DEFINE n == m.size
             c == m.chunkSize
             P == PieceCount(n, c)
  <1>1. n \in Nat /\ c \in Nat \ {0} /\ k \in 1 .. P
    BY ValidManifestIs
  <1> HIDE DEF n, c
  <1>2. /\ \A i \in 1 .. P : EndOf(n, c, i - 1) < EndOf(n, c, i)
        /\ P \in Nat
    BY <1>1, PiecesAre
  <1>3. \A i \in 0 .. P : EndOf(n, c, i) \in 0 .. n
    BY <1>1, PiecesAre
  <1> HIDE DEF P
  <1>4. k - 1 \in 0 .. P /\ k \in 0 .. P
    BY <1>1, <1>2
  <1>5. EndOf(n, c, k - 1) \in Nat /\ EndOf(n, c, k) \in Nat
        /\ EndOf(n, c, k - 1) <= EndOf(n, c, k)
    BY <1>1, <1>2, <1>3, <1>4
  <1>6. QED
    BY <1>5 DEF n, c

\* VerifyPayload's loop finds out whether the chunks fit the stream, and if they
\* do it stands at their end.
LEMMA VerifiesEveryChunk ==
    ASSUME NEW m \in ManifestRecord, Validate(m), NEW r \in Stream
    PROVE  LET v == VerifyChunks(m.chunks, r)
           IN  /\ v.ok <=> Fits(m, r, Len(m.chunks))
               /\ v.ok => v.rest = From(r, EndOf(m.size, m.chunkSize, Len(m.chunks)))
  <1> DEFINE S == [rest: Stream, ok: BOOLEAN]
             n == Len(m.chunks)
             base == [rest |-> r, ok |-> TRUE]
             E(k) == EndOf(m.size, m.chunkSize, k)
             g == [p \in S \X (1 .. n) |->
                     IF ~ p[1].ok THEN p[1] ELSE ReadExpected(p[1], m.chunks[p[2]])]
             Course(f) == f = [k \in 0 .. n |->
                                 IF k = 0 THEN base
                                 ELSE IF ~ f[k - 1].ok THEN f[k - 1]
                                 ELSE ReadExpected(f[k - 1], m.chunks[k])]
  <1>1. n \in Nat /\ base \in S /\ m.chunks \in Seq(ChunkRecord)
    BY ManifestFields
  <1>2. StaysIn(g, S, n)
    <2>1. ASSUME NEW s \in S, NEW k \in 1 .. n
          PROVE  (IF ~ s.ok THEN s ELSE ReadExpected(s, m.chunks[k])) \in S
      <3>1. s.rest \in Stream
        OBVIOUS
      <3>2. m.chunks[k].size \in Nat
        BY ManifestFields
      <3>3. ReadFull(s.rest, m.chunks[k].size).rest \in Stream
        BY <3>1, <3>2, StreamIsLeft
      <3>4. ReadExpected(s, m.chunks[k]) =
               [rest |-> ReadFull(s.rest, m.chunks[k].size).rest,
                ok |-> /\ ReadFull(s.rest, m.chunks[k].size).err = "nil"
                       /\ VerifyChunk(m.chunks[k], ReadFull(s.rest, m.chunks[k].size).data)]
        BY DEF ReadExpected
      <3>5. (/\ ReadFull(s.rest, m.chunks[k].size).err = "nil"
             /\ VerifyChunk(m.chunks[k], ReadFull(s.rest, m.chunks[k].size).data))
            \in BOOLEAN
        OBVIOUS
      <3>6. ReadExpected(s, m.chunks[k]) \in S
        BY <3>3, <3>4, <3>5
      <3>7. QED
        BY <3>6
    <2>2. \A p \in S \X (1 .. n) :
            (IF ~ p[1].ok THEN p[1] ELSE ReadExpected(p[1], m.chunks[p[2]])) \in S
      <3> HIDE DEF S, n
      <3>1. QED
        BY <2>1
    <2> HIDE DEF S, n
    <2>3. QED
      BY <2>2 DEF StaysIn
  <1>3. PICK f : Course(f)
    <2>1. PICK f : IsCourse(f, g, base, S, n)
      <3> HIDE DEF g, base, S, n
      <3>1. QED
        BY <1>1, <1>2, CourseExists
    <2>2. f \in [0 .. n -> S] /\ f[0] = base /\ \A k \in 1 .. n : f[k] = g[<<f[k - 1], k>>]
      BY <2>1 DEF IsCourse
    <2>3. ASSUME NEW k \in 1 .. n
          PROVE  f[k] = IF ~ f[k - 1].ok THEN f[k - 1]
                        ELSE ReadExpected(f[k - 1], m.chunks[k])
      <3>1. k - 1 \in 0 .. n
        BY <1>1
      <3>2. f[k - 1] \in S
        <4> HIDE DEF S, n, g
        <4>1. QED
          BY <2>2, <3>1
      <3>3. <<f[k - 1], k>> \in S \X (1 .. n)
        <4> HIDE DEF S, n
        <4>1. QED
          BY <3>2
      <3>4. g[<<f[k - 1], k>>] = IF ~ f[k - 1].ok THEN f[k - 1]
                                 ELSE ReadExpected(f[k - 1], m.chunks[k])
        <4> HIDE DEF S, n
        <4>1. QED
          BY <3>3
      <3> HIDE DEF S, n, g
      <3>5. QED
        BY <2>2, <3>4
    <2>4. \A k \in 0 .. n : f[k] = IF k = 0 THEN base
                                   ELSE IF ~ f[k - 1].ok THEN f[k - 1]
                                   ELSE ReadExpected(f[k - 1], m.chunks[k])
      <3>1. \A k \in 0 .. n : k = 0 \/ k \in 1 .. n
        BY <1>1
      <3> HIDE DEF n, base
      <3>2. QED
        BY <2>2, <2>3, <3>1
    <2>5. f = [k \in 0 .. n |-> f[k]]
      BY <2>2
    <2>6. Course(f)
      <3> HIDE DEF S, n, base, g
      <3>1. QED
        BY <2>4, <2>5, Zenon
    <2>7. QED
      BY <2>6
  <1>4. PICK h : Course(h) /\ VerifyChunks(m.chunks, r) = h[n]
    <2> DEFINE h == CHOOSE x : Course(x)
    <2>1. VerifyChunks(m.chunks, r) = h[n]
      BY Zenon DEF VerifyChunks
    <2>2. Course(h)
      <3> HIDE DEF Course
      <3>1. QED
        BY <1>3, Zenon
    <2> HIDE DEF h, Course, n
    <2>3. QED
      BY <2>1, <2>2
  <1>5. h[0] = base
    <2>1. 0 \in 0 .. n
      BY <1>1
    <2> HIDE DEF n, base
    <2>2. QED
      BY <1>4, <2>1
  <1>6. ASSUME NEW k \in 1 .. n
        PROVE  h[k] = IF ~ h[k - 1].ok THEN h[k - 1] ELSE ReadExpected(h[k - 1], m.chunks[k])
    <2>1. k \in 0 .. n /\ k # 0
      BY <1>1
    <2> HIDE DEF n, base
    <2>2. QED
      BY <1>4, <2>1
  <1> DEFINE Right == {k \in Nat : k <= n => /\ h[k].ok <=> Fits(m, r, k)
                                             /\ h[k].ok => h[k].rest = From(r, E(k))}
  <1>7. 0 \in Right
    <2>1. E(0) = 0
      BY ValidManifestIs, PiecesAre
    <2>2. h[0].ok /\ h[0].rest = r
      BY <1>5
    <2>3. Fits(m, r, 0)
      <3>1. Len(r.bytes) \in Nat /\ 1 .. 0 = {}
        BY DEF Stream
      <3>2. QED
        BY <2>1, <3>1 DEF Fits
    <2>4. h[0].rest = From(r, E(0))
      BY <2>1, <2>2, FromStart
    <2>5. QED
      BY <2>2, <2>3, <2>4
  <1>8. ASSUME NEW j \in Nat, j \in Right PROVE j + 1 \in Right
    <2> DEFINE k == j + 1
    <2> SUFFICES ASSUME k <= n
                 PROVE  /\ h[k].ok <=> Fits(m, r, k)
                        /\ h[k].ok => h[k].rest = From(r, E(k))
      OBVIOUS
    <2>1. k \in 1 .. n /\ k - 1 = j /\ j <= n /\ k \in Nat
      BY <1>1
    <2>2. (h[j].ok <=> Fits(m, r, j)) /\ (h[j].ok => h[j].rest = From(r, E(j)))
      BY <1>8, <2>1
    <2>3. h[k] = IF ~ h[j].ok THEN h[j] ELSE ReadExpected(h[j], m.chunks[k])
      <3> HIDE DEF k, n
      <3>1. QED
        BY <1>6, <2>1
    <2> HIDE DEF k
    <2>4. CASE h[j].ok
      <3>1. Fits(m, r, k - 1) /\ h[j].rest = From(r, EndOf(m.size, m.chunkSize, k - 1))
        BY <2>1, <2>2, <2>4
      <3>2. LET next == ReadExpected(h[j], m.chunks[k])
            IN  /\ next.ok <=> Fits(m, r, k)
                /\ next.ok => next.rest = From(r, EndOf(m.size, m.chunkSize, k))
        BY <2>1, <3>1, VerifiesNext
      <3>3. QED
        BY <2>3, <2>4, <3>2
    <2>5. CASE ~ h[j].ok
      <3>1. ~ Fits(m, r, k)
        <4>1. ASSUME Fits(m, r, k) PROVE Fits(m, r, j)
          <5>1. \A i \in 1 .. j : i \in 1 .. k
            BY <2>1
          <5>2. E(j) <= Len(r.bytes)
            <6>1. E(j) <= E(k) /\ E(j) \in Nat /\ E(k) \in Nat
              <7>1. /\ EndOf(m.size, m.chunkSize, k - 1) \in Nat
                    /\ EndOf(m.size, m.chunkSize, k) \in Nat
                    /\ EndOf(m.size, m.chunkSize, k - 1) <= EndOf(m.size, m.chunkSize, k)
                BY <2>1, EndsGrow
              <7>2. QED
                BY <2>1, <7>1
            <6>2. E(k) <= Len(r.bytes) /\ Len(r.bytes) \in Nat
              BY <4>1 DEF Fits, Stream
            <6> HIDE DEF E
            <6>3. QED
              BY <6>1, <6>2
          <5>3. QED
            BY <4>1, <5>1, <5>2 DEF Fits
        <4>2. QED
          BY <2>2, <2>5, <4>1
      <3>2. QED
        BY <2>3, <2>5, <3>1
    <2>6. QED
      BY <2>4, <2>5
  <1>9. n \in Right
    <2> HIDE DEF Right
    <2>1. QED
      BY <1>1, <1>7, <1>8, NaturalInduction
  <1>10. QED
    BY <1>1, <1>4, <1>9

\* A stream verifies exactly against its own manifest, and is read to its end.
LEMMA Verifies ==
    ASSUME NEW m \in ManifestRecord, Validate(m), NEW r \in Stream
    PROVE  LET v == VerifyPayload(m, r)
           IN  /\ v.ok <=> ~r.breaks /\ m = ManifestOf(r.bytes, m.chunkSize)
               /\ v.ok => v.rest.bytes = <<>>
  <1> DEFINE b == r.bytes
             L == Len(b)
             n == m.size
             c == m.chunkSize
             P == PieceCount(n, c)
             read == VerifyChunks(m.chunks, r)
             more == ReadFull(read.rest, 1)
             v == VerifyPayload(m, r)
  <1>1. b \in Seq(Bytes) /\ L \in Nat /\ r.breaks \in BOOLEAN
    BY DEF Stream
  <1>2. /\ n \in Nat /\ c \in Nat \ {0}
        /\ Len(m.chunks) = P
        /\ \A i \in 1 .. P :
             /\ m.chunks[i].index = i - 1
             /\ m.chunks[i].size = EndOf(n, c, i) - EndOf(n, c, i - 1)
        /\ m.version = ManifestVersion /\ m.filename = Leaf
    BY ValidManifestIs
  <1>3. EndOf(n, c, P) = n /\ P \in Nat
    <2> HIDE DEF n, c
    <2>1. QED
      BY <1>2, PiecesAre
  <1>4. /\ read.ok <=> Fits(m, r, P)
        /\ read.ok => read.rest = From(r, n)
    BY <1>2, <1>3, VerifiesEveryChunk
  <1>5. v = [ok |-> /\ read.ok /\ more.err = "EOF"
                    /\ Hash(SubSeq(b, 1, n)) = m.hash,
             rest |-> IF read.ok THEN more.rest ELSE read.rest]
    BY DEF VerifyPayload
  <1> HIDE DEF read, v, P, L, b, n, c
  <1>6. ASSUME read.ok
        PROVE  /\ n <= L
               /\ more.err = "EOF" <=> (n = L /\ ~r.breaks)
               /\ n = L => more.rest.bytes = <<>>
    <2>1. n <= L
      BY <1>3, <1>4, <1>6 DEF Fits, L, b, n, c
    <2>2. more = ReadFull(From(r, n), 1)
      BY <1>4, <1>6
    <2>3. CASE n < L
      <3>1. n \in 0 .. Len(r.bytes) /\ n + 1 <= Len(r.bytes)
        BY <1>1, <1>2, <2>1, <2>3 DEF L, b
      <3>2. ReadFull(From(r, n), 1).err = "nil"
        BY <3>1, ReadsInFull
      <3>3. QED
        BY <1>1, <1>2, <2>1, <2>2, <2>3, <3>2
    <2>4. CASE n = L
      <3>1. n \in 0 .. Len(r.bytes) /\ n + 1 > Len(r.bytes) /\ n = Len(r.bytes)
        BY <1>1, <1>2, <2>4 DEF L, b
      <3>2. /\ ReadFull(From(r, n), 1).err = IF r.breaks THEN "error" ELSE "EOF"
            /\ ReadFull(From(r, n), 1).rest = [bytes |-> <<>>, breaks |-> r.breaks]
        BY <3>1, ReadsToTheEnd
      <3> HIDE DEF more
      <3>3. QED
        BY <1>1, <2>1, <2>2, <2>4, <3>2
    <2>5. QED
      BY <1>1, <1>2, <2>1, <2>3, <2>4
  <1>7. n = L => SubSeq(b, 1, n) = b
    BY <1>1 DEF L
  <1>8. v.ok <=> Fits(m, r, P) /\ n = L /\ ~r.breaks /\ Hash(b) = m.hash
    <2> HIDE DEF more
    <2>1. v.ok <=> read.ok /\ more.err = "EOF" /\ Hash(SubSeq(b, 1, n)) = m.hash
      BY <1>5
    <2>2. QED
      BY <1>4, <1>6, <1>7, <2>1
  <1>9. v.ok => v.rest.bytes = <<>>
    <2> HIDE DEF more
    <2>1. QED
      BY <1>5, <1>6
  <1>10. ASSUME n = L
         PROVE  Fits(m, r, P) <=> m.chunks = ChunksOf(b, c, P)
    <2>1. /\ ChunksOf(b, c, P) \in Seq(ChunkRecord) /\ Len(ChunksOf(b, c, P)) = P
          /\ \A i \in 1 .. P : ChunksOf(b, c, P)[i] = ChunkOf(b, c, i)
      <3>1. P \in 0 .. PieceCount(Len(b), c)
        BY <1>3, <1>10 DEF P, L
      <3>2. QED
        BY <1>1, <1>2, <3>1, ChunksOfAre
    <2>2. m.chunks \in Seq(ChunkRecord)
      BY ManifestFields
    <2>3. ASSUME NEW i \in 1 .. P
          PROVE  m.chunks[i] = ChunkOf(b, c, i) <=>
                    m.chunks[i].hash = Hash(SubSeq(b, EndOf(n, c, i - 1) + 1, EndOf(n, c, i)))
      <3>1. m.chunks[i] = [index |-> i - 1, size |-> EndOf(n, c, i) - EndOf(n, c, i - 1),
                           hash |-> m.chunks[i].hash]
        BY <1>2, ManifestFields
      <3>2. ChunkOf(b, c, i) =
               [index |-> i - 1, size |-> EndOf(n, c, i) - EndOf(n, c, i - 1),
                hash |-> Hash(SubSeq(b, EndOf(n, c, i - 1) + 1, EndOf(n, c, i)))]
        BY <1>10 DEF ChunkOf, PieceOf, L
      <3>3. QED
        BY <3>1, <3>2
    <2>4. Fits(m, r, P) <=>
             \A i \in 1 .. P :
               m.chunks[i].hash = Hash(SubSeq(b, EndOf(n, c, i - 1) + 1, EndOf(n, c, i)))
      <3>1. EndOf(n, c, P) <= L
        BY <1>1, <1>3, <1>10
      <3>2. QED
        BY <3>1 DEF Fits, b, n, c, L
    <2>5. (\A i \in 1 .. P : m.chunks[i] = ChunkOf(b, c, i)) <=> m.chunks = ChunksOf(b, c, P)
      <3>1. ASSUME \A i \in 1 .. P : m.chunks[i] = ChunkOf(b, c, i)
            PROVE  m.chunks = ChunksOf(b, c, P)
        BY <1>2, <2>1, <2>2, <3>1, SameSequence
      <3>2. QED
        BY <2>1, <3>1
    <2>6. QED
      BY <2>3, <2>4, <2>5
  <1>11. m = ManifestOf(b, c) <=> n = L /\ m.hash = Hash(b) /\ m.chunks = ChunksOf(b, c, P)
    <2>1. m = [version |-> ManifestVersion, filename |-> Leaf, size |-> n,
               chunkSize |-> c, hash |-> m.hash, chunks |-> m.chunks]
      BY <1>2, ManifestFields DEF n, c
    <2>2. ManifestOf(b, c) =
             [version |-> ManifestVersion, filename |-> Leaf, size |-> L,
              chunkSize |-> c, hash |-> Hash(b), chunks |-> ChunksOf(b, c, PieceCount(L, c))]
      BY DEF ManifestOf, L
    <2>3. P = PieceCount(n, c)
      BY DEF P
    <2>4. QED
      BY <2>1, <2>2, <2>3
  <1>12. v.ok <=> ~r.breaks /\ m = ManifestOf(b, c)
    BY <1>8, <1>10, <1>11
  <1>13. QED
    BY <1>9, <1>12 DEF v, b, c

-----------------------------------------------------------------------------
(* Manifests: the invariant and the theorems.                              *)

\* A payload is a sequence of bytes, and no longer than the bound.
LEMMA PayloadsAre ==
    ASSUME NEW p
    PROVE  p \in Payload <=> p \in Seq(Bytes) /\ Len(p) <= MaxLen
  <1>1. p \in Payload <=> \E n \in 0 .. MaxLen : p \in [1 .. n -> Bytes]
    BY DEF Payload, BoundedSeq, SeqOf
  <1>2. ASSUME NEW n \in 0 .. MaxLen, p \in [1 .. n -> Bytes]
        PROVE  p \in Seq(Bytes) /\ Len(p) <= MaxLen
    <2>1. n \in Nat /\ n <= MaxLen
      BY ManifestAssumption
    <2>2. p \in Seq(Bytes) /\ Len(p) = n
      BY <1>2, <2>1
    <2>3. QED
      BY <2>1, <2>2
  <1>3. ASSUME p \in Seq(Bytes), Len(p) <= MaxLen
        PROVE  \E n \in 0 .. MaxLen : p \in [1 .. n -> Bytes]
    <2>1. Len(p) \in 0 .. MaxLen /\ p \in [1 .. Len(p) -> Bytes]
      BY <1>3, ManifestAssumption
    <2>2. QED
      BY <2>1
  <1>4. QED
    BY <1>1, <1>2, <1>3

\* Every payload has a manifest, for every chunk size that is allowed, and it
\* verifies against it.
THEOREM BuildsEveryPayload ==
    ASSUME NEW p \in Seq(Bytes), NEW c \in 1 .. DefaultChunkSize
    PROVE  LET r == [bytes |-> p, breaks |-> FALSE]
               m == BuildManifest(Leaf, r, c)
           IN  /\ Validate(m) /\ m.size = Len(p)
               /\ m.hash = Hash(p) /\ m.chunkSize = c
  <1> DEFINE r == [bytes |-> p, breaks |-> FALSE]
             m == BuildManifest(Leaf, r, c)
  <1>1. r \in Stream /\ c \in Nat /\ ValidChunkSize(c)
    BY ManifestAssumption DEF Stream, ValidChunkSize
  <1>2. r.bytes = p /\ ~r.breaks
    OBVIOUS
  <1> HIDE DEF r
  <1>3. m = ManifestOf(p, c)
    BY <1>1, <1>2, Builds
  <1> HIDE DEF m
  <1>4. Validate(m)
    BY <1>3, ManifestOfIsValid
  <1>5. m.size = Len(p) /\ m.hash = Hash(p) /\ m.chunkSize = c
    BY <1>3 DEF ManifestOf
  <1>6. QED
    BY <1>4, <1>5 DEF m, r

\* The manifest of a payload is a manifest record.
LEMMA ManifestOfIs ==
    ASSUME NEW p \in Payload, NEW c \in 1 .. DefaultChunkSize
    PROVE  ManifestOf(p, c) \in ManifestRecord
  <1> DEFINE P == PieceCount(Len(p), c)
  <1>1. p \in Seq(Bytes) /\ Len(p) \in -1 .. MaxLen /\ c \in Nat \ {0} /\ c \in Nat
        /\ Len(p) \in Nat
    <2>1. p \in Seq(Bytes) /\ Len(p) <= MaxLen
      BY PayloadsAre
    <2>2. QED
      BY <2>1, ManifestAssumption
  <1>2. ChunksOf(p, c, P) \in Seq(ChunkRecord)
    <2>1. P \in 0 .. P
      BY <1>1, PiecesAre
    <2>2. QED
      BY <1>1, <2>1, ChunksOfAre
  <1>3. Hash(p) \in Digest
    BY <1>1, DigestsAre
  <1>4. ManifestVersion \in {1, 2}
    BY DEF ManifestVersion
  <1>5. QED
    BY <1>1, <1>2, <1>3, <1>4 DEF ManifestOf, ManifestRecord

\* Running totals do not decrease.
LEMMA TotalsGrow ==
    ASSUME NEW s \in Seq(Nat), NEW k \in 0 .. Len(s)
    PROVE  Totals(s)[k] \in Nat /\ Totals(s)[k] <= Sum(s)
  <1> DEFINE n == Len(s)
             T == Totals(s)
             Below == {d \in Nat : d <= n => T[n - d] <= T[n]}
  <1>1. /\ n \in Nat /\ Sum(s) = T[n]
        /\ \A i \in 0 .. n : T[i] \in Nat
        /\ \A i \in 1 .. n : T[i] = T[i - 1] + s[i]
        /\ \A i \in 1 .. n : s[i] \in Nat
    <2>1. T \in [0 .. Len(s) -> Nat] /\ Sum(s) = T[n]
          /\ \A i \in 1 .. n : T[i] = T[i - 1] + s[i]
      BY TotalsAre
    <2>2. \A i \in 1 .. n : s[i] \in Nat
      OBVIOUS
    <2>3. n \in Nat
      OBVIOUS
    <2> HIDE DEF T, n
    <2>4. \A i \in 0 .. n : T[i] \in Nat
      BY <2>1 DEF n
    <2>5. QED
      BY <2>1, <2>2, <2>3, <2>4
  <1>0. k \in 0 .. n
    OBVIOUS
  <1> HIDE DEF n, T
  <1>2. 0 \in Below
    BY <1>1
  <1>3. ASSUME NEW d \in Nat, d \in Below PROVE d + 1 \in Below
    <2> SUFFICES ASSUME d + 1 <= n PROVE T[n - (d + 1)] <= T[n]
      OBVIOUS
    <2> DEFINE i == n - d
    <2>1. i \in 1 .. n /\ i - 1 \in 0 .. n /\ i \in 0 .. n /\ n - (d + 1) = i - 1
          /\ n \in 0 .. n
      BY <1>1
    <2>2. T[i] <= T[n]
      BY <1>1, <1>3, <2>1
    <2> HIDE DEF i
    <2>3. T[i - 1] <= T[n]
      <3>1. T[i] = T[i - 1] + s[i] /\ s[i] \in Nat /\ T[i - 1] \in Nat /\ T[n] \in Nat
        BY <1>1, <2>1
      <3>2. QED
        BY <2>2, <3>1
    <2>4. QED
      BY <2>1, <2>3
  <1>4. Nat \subseteq Below
    <2> HIDE DEF Below
    <2>1. QED
      BY <1>2, <1>3, NaturalInduction
  <1>5. T[k] <= T[n] /\ T[k] \in Nat
    <2>1. n - k \in Nat /\ n - k <= n /\ n - (n - k) = k
      BY <1>0, <1>1
    <2>2. QED
      BY <1>0, <1>1, <1>4, <2>1
  <1>6. QED
    BY <1>1, <1>5 DEF T, n

\* A manifest that another program makes is a manifest record too.
LEMMA DescribedIs ==
    ASSUME NEW p \in Payload, NEW c \in Nat, NEW cut \in Seq(Nat), Sum(cut) = Len(p)
    PROVE  Described(p, c, cut) \in ManifestRecord
  <1> DEFINE T == Totals(cut)
             chunk(i) == [index |-> i - 1, size |-> cut[i],
                          hash |-> Hash(SubSeq(p, T[i - 1] + 1, T[i]))]
             chunks == [i \in DOMAIN cut |-> chunk(i)]
  <1>1. p \in Seq(Bytes) /\ Len(p) \in -1 .. MaxLen /\ Len(p) \in Nat
    <2>1. p \in Seq(Bytes) /\ Len(p) <= MaxLen
      BY PayloadsAre
    <2>2. QED
      BY <2>1, ManifestAssumption
  <1>2. Hash(p) \in Digest
    BY <1>1, DigestsAre
  <1>3. ASSUME NEW i \in 1 .. Len(cut) PROVE chunk(i) \in ChunkRecord
    <2>1. i - 1 \in 0 .. Len(cut) /\ i \in 0 .. Len(cut) /\ i - 1 \in Int /\ cut[i] \in Nat
      OBVIOUS
    <2>2. T[i - 1] \in Nat /\ T[i] \in Nat /\ T[i] <= Len(p)
      BY <2>1, TotalsGrow
    <2> HIDE DEF T
    <2>3. SubSeq(p, T[i - 1] + 1, T[i]) \in Seq(Bytes)
      <3>1. \A k \in T[i - 1] + 1 .. T[i] : k \in 1 .. Len(p)
        BY <1>1, <2>2
      <3>2. QED
        BY <1>1, <2>2, <3>1
    <2>4. Hash(SubSeq(p, T[i - 1] + 1, T[i])) \in Digest
      BY <2>3, DigestsAre
    <2>5. QED
      BY <2>1, <2>4 DEF ChunkRecord
  <1>4. chunks \in Seq(ChunkRecord)
    <2>1. chunks = [i \in 1 .. Len(cut) |-> chunk(i)] /\ Len(cut) \in Nat
      OBVIOUS
    <2> HIDE DEF chunk
    <2>2. QED
      BY <1>3, <2>1
  <1>5. ManifestVersion \in {1, 2}
    BY DEF ManifestVersion
  <1>6. Described(p, c, cut) =
           [version |-> ManifestVersion, filename |-> Leaf, size |-> Len(p),
            chunkSize |-> c, hash |-> Hash(p), chunks |-> chunks]
    BY Zenon DEF Described
  <1> HIDE DEF chunks
  <1>7. QED
    BY <1>1, <1>2, <1>4, <1>5, <1>6 DEF ManifestRecord

\* The offers that things start from are offers.
LEMMA ManifestsStart ==
    ASSUME ManifestInit
    PROVE  ManifestInv
  <1>1. PICK p \in Payload : \E m \in Manifests(p) :
          /\ sent = [version |-> PayloadProtocolVersion, id |-> 1,
                     kind |-> "file", manifest |-> m]
          /\ reader = [bytes |-> p, breaks |-> FALSE]
    BY DEF ManifestInit
  <1>8. PICK m \in Manifests(p) :
          /\ sent = [version |-> PayloadProtocolVersion, id |-> 1,
                     kind |-> "file", manifest |-> m]
          /\ reader = [bytes |-> p, breaks |-> FALSE]
    BY <1>1
  <1>2. p \in Seq(Bytes) /\ [bytes |-> p, breaks |-> FALSE] \in Stream
    BY PayloadsAre DEF Stream
  <1>3. m \in ManifestRecord
    <2>1. CASE \E c \in 1 .. DefaultChunkSize :
                 m = BuildManifest(Leaf, [bytes |-> p, breaks |-> FALSE], c)
      <3>1. PICK c \in 1 .. DefaultChunkSize :
              m = BuildManifest(Leaf, [bytes |-> p, breaks |-> FALSE], c)
        BY <2>1
      <3> DEFINE r == [bytes |-> p, breaks |-> FALSE]
      <3>2. r \in Stream /\ r.bytes = p /\ ~r.breaks /\ c \in Nat /\ ValidChunkSize(c)
            /\ m = BuildManifest(Leaf, r, c)
        BY <1>2, <3>1, ManifestAssumption DEF ValidChunkSize
      <3> HIDE DEF r
      <3>3. m = ManifestOf(p, c)
        BY <3>2, Builds
      <3>4. QED
        BY <3>3, ManifestOfIs
    <2>2. CASE \E c \in 0 .. DefaultChunkSize + 1, cut \in Cuts(Len(p)) :
                 m = Described(p, c, cut)
      <3>1. PICK c \in 0 .. DefaultChunkSize + 1, cut \in Cuts(Len(p)) :
              m = Described(p, c, cut)
        BY <2>2
      <3>2. c \in Nat
        BY ManifestAssumption
      <3>3. cut \in Seq(Nat) /\ Sum(cut) = Len(p)
        <4>1. cut \in BoundedSeq(1 .. DefaultChunkSize + 1, MaxLen) /\ Sum(cut) = Len(p)
          BY DEF Cuts
        <4>2. PICK n \in 0 .. MaxLen : cut \in [1 .. n -> 1 .. DefaultChunkSize + 1]
          BY <4>1 DEF BoundedSeq, SeqOf
        <4>3. n \in Nat /\ \A x \in 1 .. DefaultChunkSize + 1 : x \in Nat
          BY ManifestAssumption
        <4>4. cut \in Seq(Nat)
          BY <4>2, <4>3
        <4>5. QED
          BY <4>1, <4>4
      <3>4. QED
        BY <3>1, <3>2, <3>3, DescribedIs
    <2>3. \/ \E c \in 1 .. DefaultChunkSize :
                 m = BuildManifest(Leaf, [bytes |-> p, breaks |-> FALSE], c)
          \/ \E c \in 0 .. DefaultChunkSize + 1, cut \in Cuts(Len(p)) :
                 m = Described(p, c, cut)
      BY <1>8 DEF Manifests
    <2>4. QED
      BY <2>1, <2>2, <2>3
  <1>4. held = sent
    BY DEF ManifestInit
  <1>5. PayloadProtocolVersion \in 0 .. 2 /\ 1 \in 0 .. 2
    BY DEF PayloadProtocolVersion
  <1>6. sent \in OfferRecord
    BY <1>8, <1>3, <1>5 DEF OfferRecord
  <1>7. QED
    BY <1>8, <1>2, <1>4, <1>6 DEF ManifestInv

\* A field of an offer or of its manifest may change.
LEMMA ChangesKeep ==
    ASSUME ManifestInv, [ManifestNext]_manifestVars
    PROVE  ManifestInv'
  <1>1. held \in OfferRecord /\ reader \in Stream /\ sent \in OfferRecord
    BY DEF ManifestInv
  <1>2. held.manifest \in ManifestRecord
    BY <1>1 DEF OfferRecord
  <1> DEFINE m == held.manifest
  <1>3. CASE ChangeOffer
    <2>1. held' \in OfferRecord
      BY <1>1, <1>3 DEF ChangeOffer, OfferRecord
    <2>2. QED
      BY <1>1, <1>3, <2>1 DEF ManifestInv, ChangeOffer, Change
  <1>4. CASE ChangeManifest
    <2>1. ASSUME NEW d \in ManifestRecord
          PROVE  [held EXCEPT !.manifest = d] \in OfferRecord
      BY <1>1 DEF OfferRecord
    <2>2. [m EXCEPT !.version = 2] \in ManifestRecord
      BY <1>2 DEF ManifestRecord
    <2>3. [m EXCEPT !.filename = NotALeaf] \in ManifestRecord
      BY <1>2 DEF ManifestRecord
    <2>4. ASSUME NEW n \in -1 .. MaxLen PROVE [m EXCEPT !.size = n] \in ManifestRecord
      BY <1>2 DEF ManifestRecord
    <2>5. ASSUME NEW h \in {NotADigest} \cup {Hash(p) : p \in Payload}
          PROVE  [m EXCEPT !.hash = h] \in ManifestRecord
      <3>1. h \in Digest
        <4>1. NotADigest \in Digest
          BY DEF NotADigest, Digest
        <4>2. \A p \in Payload : Hash(p) \in Digest
          BY PayloadsAre, DigestsAre
        <4>3. QED
          BY <4>1, <4>2
      <3>2. QED
        BY <1>2, <3>1 DEF ManifestRecord
    <2>6. ASSUME NEW c \in Range(m.chunks)
          PROVE  [m EXCEPT !.chunks = Append(@, c)] \in ManifestRecord
      <3>1. m.chunks \in Seq(ChunkRecord)
        BY <1>2, ManifestFields
      <3>2. c \in ChunkRecord
        <4> DEFINE s == m.chunks
        <4>1. \E i \in DOMAIN s : c = s[i]
          BY DEF Range
        <4> HIDE DEF s
        <4>2. QED
          BY <3>1, <4>1 DEF s
      <3>3. Append(m.chunks, c) \in Seq(ChunkRecord)
        BY <3>1, <3>2
      <3>4. QED
        BY <1>2, <3>3 DEF ManifestRecord
    <2>7. ASSUME NEW p \in {q \in Payload : Len(q) = Sum(Sizes(m))}
          PROVE  Described(p, m.chunkSize, Sizes(m)) \in ManifestRecord
      <3>1. Sizes(m) \in Seq(Nat) /\ m.chunkSize \in Nat
        BY <1>2, ManifestFields, SizesAre
      <3>2. QED
        BY <3>1, DescribedIs
    <2>8. PICK d \in {[held.manifest EXCEPT !.version = 2],
                 [held.manifest EXCEPT !.filename = NotALeaf]}
            \cup {[held.manifest EXCEPT !.size = n] : n \in -1 .. MaxLen}
            \cup {[held.manifest EXCEPT !.hash = h] :
                     h \in {NotADigest} \cup {Hash(p) : p \in Payload}}
            \cup {[held.manifest EXCEPT !.chunks = Append(@, c)] :
                     c \in Range(held.manifest.chunks)}
            \cup {Described(p, held.manifest.chunkSize, Sizes(held.manifest)) :
                     p \in {q \in Payload : Len(q) = Sum(Sizes(held.manifest))}} :
            held' = [held EXCEPT !.manifest = d]
      BY <1>4, Zenon DEF ChangeManifest
    <2>9. d \in ManifestRecord
      BY <2>2, <2>3, <2>4, <2>5, <2>6, <2>7, <2>8
    <2>10. held' \in OfferRecord
      BY <2>1, <2>8, <2>9
    <2>11. QED
      BY <1>1, <1>4, <2>10 DEF ManifestInv, ChangeManifest, Change
  <1>5. CASE ChangeChunk
    <2>1. PICK i \in DOMAIN m.chunks :
            \E c \in {[held.manifest.chunks[i] EXCEPT !.index = -1],
                   [held.manifest.chunks[i] EXCEPT !.size = 0],
                   [held.manifest.chunks[i] EXCEPT !.hash = NotADigest]}
                \cup {[held.manifest.chunks[i] EXCEPT !.hash = Hash(<<b>>)] :
                         b \in Bytes} :
              held' = [held EXCEPT !.manifest.chunks[i] = c]
      BY <1>5 DEF ChangeChunk
    <2>2. m.chunks \in Seq(ChunkRecord) /\ m.chunks[i] \in ChunkRecord
      <3>1. m.chunks \in Seq(ChunkRecord)
        BY <1>2, ManifestFields
      <3>2. QED
        BY <2>1, <3>1
    <2>3. PICK c : /\ c \in ChunkRecord
                   /\ held' = [held EXCEPT !.manifest.chunks[i] = c]
      <3> DEFINE chunk == m.chunks[i]
      <3>0. /\ chunk.index \in Int /\ chunk.size \in Nat /\ chunk.hash \in Digest
            /\ chunk = [index |-> chunk.index, size |-> chunk.size, hash |-> chunk.hash]
        BY <2>2 DEF ChunkRecord
      <3>6. NotADigest \in Digest
        BY DEF NotADigest, Digest
      <3>1. [m.chunks[i] EXCEPT !.index = -1] \in ChunkRecord
        <4>1. [chunk EXCEPT !.index = -1]
                 = [index |-> -1, size |-> chunk.size, hash |-> chunk.hash]
          <5> HIDE DEF chunk
          <5>1. QED
            BY <3>0
        <4>2. [index |-> -1, size |-> chunk.size, hash |-> chunk.hash] \in ChunkRecord
          <5> HIDE DEF chunk
          <5>1. QED
            BY <3>0 DEF ChunkRecord
        <4>3. QED
          BY <4>1, <4>2
      <3>2. [m.chunks[i] EXCEPT !.size = 0] \in ChunkRecord
        BY <2>2 DEF ChunkRecord
      <3>3. [m.chunks[i] EXCEPT !.hash = NotADigest] \in ChunkRecord
        BY <2>2, <3>6 DEF ChunkRecord
      <3>4. ASSUME NEW b \in Bytes
            PROVE  [m.chunks[i] EXCEPT !.hash = Hash(<<b>>)] \in ChunkRecord
        <4>1. <<b>> \in Seq(Bytes)
          OBVIOUS
        <4>2. Hash(<<b>>) \in Digest
          BY <4>1, DigestsAre
        <4>3. QED
          BY <2>2, <4>2 DEF ChunkRecord
      <3>5. QED
        BY <2>1, <3>1, <3>2, <3>3, <3>4
    <2>4. [m.chunks EXCEPT ![i] = c] \in Seq(ChunkRecord)
      BY <2>1, <2>2, <2>3
    <2>5. [m EXCEPT !.chunks = [m.chunks EXCEPT ![i] = c]] \in ManifestRecord
      BY <1>2, <2>4 DEF ManifestRecord
    <2>6. held' = [held EXCEPT !.manifest = [m EXCEPT !.chunks = [m.chunks EXCEPT ![i] = c]]]
      BY <2>3
    <2>7. held' \in OfferRecord
      BY <1>1, <2>5, <2>6 DEF OfferRecord
    <2>8. QED
      BY <1>1, <1>5, <2>7 DEF ManifestInv, ChangeChunk, Change
  <1>6. CASE ChangeStream
    <2>1. reader.bytes \in Seq(Bytes) /\ reader.breaks \in BOOLEAN
      BY <1>1 DEF Stream
    <2>2. ASSUME NEW b \in Seq(Bytes) PROVE [reader EXCEPT !.bytes = b] \in Stream
      BY <1>1 DEF Stream
    <2>3. CASE \E i \in DOMAIN reader.bytes, b \in Bytes :
                 reader' = [reader EXCEPT !.bytes[i] = b]
      <3>1. PICK i \in DOMAIN reader.bytes, b \in Bytes :
                   reader' = [reader EXCEPT !.bytes[i] = b]
        BY <2>3
      <3>2. [reader.bytes EXCEPT ![i] = b] \in Seq(Bytes)
        BY <2>1
      <3>3. reader' = [reader EXCEPT !.bytes = [reader.bytes EXCEPT ![i] = b]]
        BY <3>1
      <3>4. reader' \in Stream
        BY <2>2, <3>2, <3>3
      <3>5. QED
        BY <1>1, <1>6, <3>4 DEF ManifestInv, ChangeStream, Change
    <2>4. CASE \E b \in Bytes : reader' = [reader EXCEPT !.bytes = Append(@, b)]
      <3>1. PICK b \in Bytes : reader' = [reader EXCEPT !.bytes = Append(@, b)]
        BY <2>4
      <3>2. Append(reader.bytes, b) \in Seq(Bytes)
        BY <2>1
      <3>3. reader' = [reader EXCEPT !.bytes = Append(reader.bytes, b)]
        BY <3>1
      <3>4. reader' \in Stream
        BY <2>2, <3>2, <3>3
      <3>5. QED
        BY <1>1, <1>6, <3>4 DEF ManifestInv, ChangeStream, Change
    <2>5. CASE reader.bytes # <<>> /\ reader' = [reader EXCEPT !.bytes = Front(@)]
      <3> DEFINE s == reader.bytes
      <3>1. s \in Seq(Bytes) /\ s # <<>>
        BY <2>1, <2>5
      <3> HIDE DEF s
      <3>2. Front(s) \in Seq(Bytes)
        <4>1. \A k \in 1 .. Len(s) - 1 : k \in 1 .. Len(s)
          BY <3>1
        <4>2. SubSeq(s, 1, Len(s) - 1) \in Seq(Bytes)
          BY <3>1, <4>1
        <4>3. QED
          BY <4>2 DEF Front
      <3>3. reader' = [reader EXCEPT !.bytes = Front(s)]
        BY <2>5 DEF s
      <3>4. reader' \in Stream
        BY <2>2, <3>2, <3>3
      <3>5. QED
        BY <1>1, <1>6, <3>4 DEF ManifestInv, ChangeStream, Change
    <2>6. CASE reader' = [reader EXCEPT !.breaks = TRUE]
      <3>1. reader' \in Stream
        BY <1>1, <2>6 DEF Stream
      <3>2. QED
        BY <1>1, <1>6, <3>1 DEF ManifestInv, ChangeStream, Change
    <2>7. QED
      BY <1>6, <2>3, <2>4, <2>5, <2>6 DEF ChangeStream
  <1>7. CASE UNCHANGED manifestVars
    BY <1>1, <1>7 DEF ManifestInv, manifestVars
  <1>8. QED
    BY <1>3, <1>4, <1>5, <1>6, <1>7 DEF ManifestNext

\* The inductive invariant.
THEOREM ManifestInvariant == ManifestSpec => []ManifestInv
  <1>1. ManifestInit => ManifestInv
    BY ManifestsStart
  <1>2. ManifestInv /\ [ManifestNext]_manifestVars => ManifestInv'
    BY ChangesKeep
  <1>3. QED
    BY <1>1, <1>2, PTL DEF ManifestSpec

\* A stream verifies against a manifest exactly if it is what BuildManifest
\* would make of it, whatever the two are.
LEMMA VerifiesIfBuilt ==
    ASSUME NEW m \in ManifestRecord, NEW r \in Stream
    PROVE  LET v == VerifyPayload(m, r)
           IN  /\ v.ok <=> BuildManifest(m.filename, r, m.chunkSize) = m
               /\ v.ok => /\ v.rest.bytes = <<>> /\ ~r.breaks
                          /\ Len(r.bytes) = m.size
  <1> DEFINE v == VerifyPayload(m, r)
             b == BuildManifest(m.filename, r, m.chunkSize)
  <1>1. m.version \in {1, 2} /\ m.chunkSize \in Nat
    BY ManifestFields
  <1>2. r.bytes \in Seq(Bytes) /\ r.breaks \in BOOLEAN
    BY DEF Stream
  <1>3. Failed # m
    BY <1>1 DEF Failed
  <1>4. CASE ~Validate(m)
    <2>1. v = [ok |-> FALSE, rest |-> r]
      BY <1>4 DEF VerifyPayload
    <2>2. ASSUME b = m PROVE FALSE
      <3>1. CASE m.filename # Leaf
        <4>1. b = Failed
          BY <3>1 DEF BuildManifest
        <4>2. QED
          BY <1>3, <2>2, <4>1
      <3>2. CASE m.filename = Leaf
        <4>1. b = IF ValidChunkSize(m.chunkSize) /\ ~r.breaks
                  THEN ManifestOf(r.bytes, m.chunkSize) ELSE Failed
          BY <1>1, <3>2, Builds
        <4> HIDE DEF b
        <4>2. ValidChunkSize(m.chunkSize) /\ m = ManifestOf(r.bytes, m.chunkSize)
          BY <1>3, <2>2, <4>1
        <4>3. Validate(ManifestOf(r.bytes, m.chunkSize))
          BY <1>2, <4>2, ManifestOfIsValid DEF ValidChunkSize
        <4>4. QED
          BY <1>4, <4>2, <4>3
      <3>3. QED
        BY <3>1, <3>2
    <2> HIDE DEF v, b
    <2>3. ~v.ok
      BY <2>1
    <2>4. QED
      BY <2>2, <2>3 DEF v, b
  <1>5. CASE Validate(m)
    <2>1. m.filename = Leaf /\ ValidChunkSize(m.chunkSize)
      BY <1>5 DEF Validate
    <2>2. b = IF ~r.breaks THEN ManifestOf(r.bytes, m.chunkSize) ELSE Failed
      BY <1>1, <2>1, Builds
    <2>3. /\ v.ok <=> ~r.breaks /\ m = ManifestOf(r.bytes, m.chunkSize)
          /\ v.ok => v.rest.bytes = <<>>
      BY <1>5, Verifies
    <2> HIDE DEF v, b
    <2>4. v.ok <=> b = m
      BY <1>2, <1>3, <2>2, <2>3
    <2>5. m = ManifestOf(r.bytes, m.chunkSize) => Len(r.bytes) = m.size
      BY DEF ManifestOf
    <2>6. QED
      BY <2>3, <2>4, <2>5 DEF v, b
  <1>6. QED
    BY <1>4, <1>5

\* VerifyPayload accepts a stream exactly if BuildManifest would have described
\* it by this manifest: a payload has one manifest with a given chunk size and a
\* manifest one payload.
THEOREM StreamsHaveTheirManifest == ManifestSpec => []VerifiesItsOwnPayload
  <1>1. ManifestInv => VerifiesItsOwnPayload
    <2> SUFFICES ASSUME ManifestInv PROVE VerifiesItsOwnPayload
      OBVIOUS
    <2>1. held.manifest \in ManifestRecord /\ reader \in Stream
      BY DEF ManifestInv, OfferRecord
    <2>2. QED
      BY <2>1, VerifiesIfBuilt DEF VerifiesItsOwnPayload
  <1>2. QED
    BY <1>1, ManifestInvariant, PTL

\* A receipt names no chunks, and vouches for one payload all the same.
THEOREM ReceiptsVouch == ManifestSpec => []ReceiptVouchesForThePayload
  <1>1. ManifestInv => ReceiptVouchesForThePayload
    <2> SUFFICES ASSUME ManifestInv,
                        ValidOffer(sent), ValidOffer(held),
                        ReceiptValidFor(VerifiedPayloadReceipt(sent), held),
                        VerifyPayload(held.manifest, reader).ok
                 PROVE  held.id = sent.id /\ Hash(reader.bytes) = sent.manifest.hash
      BY DEF ReceiptVouchesForThePayload
    <2>1. held.manifest \in ManifestRecord /\ reader \in Stream
      BY DEF ManifestInv, OfferRecord
    <2>2. Validate(held.manifest)
      BY DEF ValidOffer
    <2>3. held.manifest = ManifestOf(reader.bytes, held.manifest.chunkSize)
      BY <2>1, <2>2, Verifies
    <2>4. held.manifest.hash = Hash(reader.bytes)
      <3> DEFINE c == held.manifest.chunkSize
      <3>1. ManifestOf(reader.bytes, c).hash = Hash(reader.bytes)
        BY DEF ManifestOf
      <3> HIDE DEF c
      <3>2. QED
        BY <2>3, <3>1 DEF c
    <2>5. held.id = sent.id /\ held.manifest.hash = sent.manifest.hash
      BY DEF ReceiptValidFor, VerifiedPayloadReceipt
    <2>6. QED
      BY <2>4, <2>5
  <1>2. QED
    BY <1>1, ManifestInvariant, PTL

ChunkShape(m, i) == [index |-> m.chunks[i].index, size |-> m.chunks[i].size]

\* Two manifests have one shape if they differ in their digests alone.
LEMMA SameShape ==
    ASSUME NEW m \in ManifestRecord, NEW b \in ManifestRecord
    PROVE  Shape(b) = Shape(m) <=>
              /\ b.version = m.version /\ b.filename = m.filename
              /\ b.size = m.size /\ b.chunkSize = m.chunkSize
              /\ Len(b.chunks) = Len(m.chunks)
              /\ \A i \in 1 .. Len(m.chunks) :
                    /\ b.chunks[i].index = m.chunks[i].index
                    /\ b.chunks[i].size = m.chunks[i].size
  <1> DEFINE S(d) == [i \in 1 .. Len(d.chunks) |-> ChunkShape(d, i)]
             R(d) == [version |-> d.version, filename |-> d.filename, size |-> d.size,
                      chunkSize |-> d.chunkSize, chunks |-> S(d)]
  <1>1. Shape(b) = R(b) /\ Shape(m) = R(m)
    <2>1. DOMAIN m.chunks = 1 .. Len(m.chunks) /\ DOMAIN b.chunks = 1 .. Len(b.chunks)
      BY ManifestFields
    <2>2. QED
      BY <2>1 DEF Shape, ChunkShape
  <1>2. R(b) = R(m) <=>
           /\ b.version = m.version /\ b.filename = m.filename
           /\ b.size = m.size /\ b.chunkSize = m.chunkSize
           /\ S(b) = S(m)
    <2> HIDE DEF S
    <2>1. QED
      OBVIOUS
  <1>3. Len(b.chunks) \in Nat /\ Len(m.chunks) \in Nat
    BY ManifestFields
  <1>4. ASSUME S(b) = S(m)
        PROVE  /\ Len(b.chunks) = Len(m.chunks)
               /\ \A i \in 1 .. Len(m.chunks) :
                    /\ b.chunks[i].index = m.chunks[i].index
                    /\ b.chunks[i].size = m.chunks[i].size
    <2>1. DOMAIN S(b) = 1 .. Len(b.chunks) /\ DOMAIN S(m) = 1 .. Len(m.chunks)
      OBVIOUS
    <2>2. 1 .. Len(b.chunks) = 1 .. Len(m.chunks)
      <3> HIDE DEF S
      <3>1. QED
        BY <1>4, <2>1
    <2>3. Len(b.chunks) = Len(m.chunks)
      BY <1>3, <2>2
    <2>4. ASSUME NEW i \in 1 .. Len(m.chunks)
          PROVE  /\ b.chunks[i].index = m.chunks[i].index
                 /\ b.chunks[i].size = m.chunks[i].size
      <3>1. S(b)[i] = ChunkShape(b, i) /\ S(m)[i] = ChunkShape(m, i)
        BY <2>3
      <3>2. ChunkShape(b, i) = ChunkShape(m, i)
        <4> HIDE DEF S
        <4>1. QED
          BY <1>4, <3>1
      <3>3. ChunkShape(b, i).index = ChunkShape(m, i).index
            /\ ChunkShape(b, i).size = ChunkShape(m, i).size
        BY <3>2
      <3>4. QED
        BY <3>3 DEF ChunkShape
    <2>5. QED
      BY <2>3, <2>4
  <1>5. ASSUME Len(b.chunks) = Len(m.chunks),
               \A i \in 1 .. Len(m.chunks) :
                    /\ b.chunks[i].index = m.chunks[i].index
                    /\ b.chunks[i].size = m.chunks[i].size
        PROVE  S(b) = S(m)
    <2>1. \A i \in 1 .. Len(m.chunks) : ChunkShape(b, i) = ChunkShape(m, i)
      BY <1>5 DEF ChunkShape
    <2>2. QED
      BY <1>5, <2>1
  <1> HIDE DEF S, R
  <1>6. QED
    BY <1>1, <1>2, <1>4, <1>5

\* A manifest with the shape of one that was built, and proper digests, is valid.
LEMMA ShapeOfBuilt ==
    ASSUME NEW m \in ManifestRecord, NEW p \in Payload, NEW c \in 1 .. DefaultChunkSize,
           Shape(ManifestOf(p, c)) = Shape(m),
           ValidDigest(m.hash), m.size = 0 => m.hash = Hash(<<>>),
           \A i \in DOMAIN m.chunks : ValidDigest(m.chunks[i].hash)
    PROVE  Validate(m)
  <1> DEFINE b == ManifestOf(p, c)
  <1>1. b \in ManifestRecord /\ Validate(b)
    <2>1. p \in Seq(Bytes)
      BY PayloadsAre
    <2>2. QED
      BY <2>1, ManifestOfIs, ManifestOfIsValid
  <1> HIDE DEF b
  <1>2. /\ b.version = m.version /\ b.filename = m.filename
        /\ b.size = m.size /\ b.chunkSize = m.chunkSize
        /\ Len(b.chunks) = Len(m.chunks)
        /\ \A i \in 1 .. Len(m.chunks) :
              /\ b.chunks[i].index = m.chunks[i].index
              /\ b.chunks[i].size = m.chunks[i].size
    BY <1>1, SameShape DEF b
  <1>3. b.chunks \in Seq(ChunkRecord) /\ m.chunks \in Seq(ChunkRecord)
    BY <1>1, ManifestFields
  <1>4. CASE m.size = 0
    <2>1. b.chunks = <<>>
      BY <1>1, <1>2, <1>4 DEF Validate
    <2>2. m.chunks = <<>>
      BY <1>2, <1>3, <2>1
    <2>3. QED
      BY <1>1, <1>2, <1>4, <2>2 DEF Validate
  <1>5. CASE m.size # 0
    <2>1. ValidChunks(b)
      BY <1>1, <1>2, <1>5 DEF Validate
    <2>2. m.chunks # <<>> /\ Len(m.chunks) = ExpectedChunks(m)
      <3>1. b.chunks # <<>> /\ Len(b.chunks) = ExpectedChunks(b)
        BY <2>1 DEF ValidChunks
      <3>2. ExpectedChunks(b) = ExpectedChunks(m)
        BY <1>2 DEF ExpectedChunks
      <3>3. Len(b.chunks) # 0
        BY <1>3, <3>1
      <3>4. Len(m.chunks) # 0
        BY <1>2, <3>3
      <3>5. m.chunks # <<>>
        BY <1>3, <3>4
      <3>6. QED
        BY <1>2, <3>1, <3>2, <3>5
    <2>3. ASSUME NEW i \in DOMAIN m.chunks PROVE ValidChunkAt(m, i)
      <3>1. i \in 1 .. Len(m.chunks) /\ i \in DOMAIN b.chunks
        BY <1>2, <1>3
      <3>2. ValidChunkAt(b, i)
        BY <2>1, <3>1 DEF ValidChunks
      <3>3. QED
        BY <1>2, <3>1, <3>2 DEF ValidChunkAt
    <2>4. Sum(Sizes(m)) = m.size
      <3>1. /\ Sizes(m) \in Seq(Nat) /\ Len(Sizes(m)) = Len(m.chunks)
            /\ \A i \in 1 .. Len(m.chunks) : Sizes(m)[i] = m.chunks[i].size
        BY <1>3, SizesAre
      <3>2. /\ Sizes(b) \in Seq(Nat) /\ Len(Sizes(b)) = Len(b.chunks)
            /\ \A i \in 1 .. Len(b.chunks) : Sizes(b)[i] = b.chunks[i].size
        BY <1>3, SizesAre
      <3>3. Sizes(m) = Sizes(b)
        BY <1>2, <3>1, <3>2, SameSequence
      <3>4. Sum(Sizes(b)) = b.size
        BY <2>1 DEF ValidChunks
      <3>5. QED
        BY <1>2, <3>3, <3>4
    <2>5. ValidChunks(m)
      BY <2>2, <2>3, <2>4 DEF ValidChunks
    <2>6. QED
      BY <1>1, <1>2, <1>5, <2>5 DEF Validate
  <1>6. QED
    BY <1>4, <1>5

\* A valid manifest has the shape of one that is built of some payload.
LEMMA ShapeOfValid ==
    ASSUME NEW m \in ManifestRecord, Validate(m)
    PROVE  \E p \in Payload : /\ Len(p) = m.size
                              /\ Shape(ManifestOf(p, m.chunkSize)) = Shape(m)
  <1> DEFINE n == m.size
             c == m.chunkSize
             x == CHOOSE x \in Bytes : TRUE
             p == [i \in 1 .. n |-> x]
             b == ManifestOf(p, c)
  <1>1. /\ n \in Nat /\ n <= MaxLen /\ c \in Nat \ {0} /\ c \in 1 .. DefaultChunkSize
        /\ Len(m.chunks) = PieceCount(n, c)
        /\ \A i \in 1 .. Len(m.chunks) :
             /\ m.chunks[i].index = i - 1
             /\ m.chunks[i].size = EndOf(n, c, i) - EndOf(n, c, i - 1)
        /\ m.version = ManifestVersion /\ m.filename = Leaf
    BY ValidManifestIs, ManifestFields
  <1>2. x \in Bytes
    BY ManifestAssumption
  <1>3. p \in Seq(Bytes) /\ Len(p) = n
    <2> HIDE DEF x, n
    <2>1. QED
      BY <1>1, <1>2
  <1> HIDE DEF p, x, n, c
  <1>4. p \in Payload
    BY <1>1, <1>3, PayloadsAre
  <1>5. b \in ManifestRecord
    BY <1>1, <1>4, ManifestOfIs
  <1> DEFINE P == PieceCount(n, c)
  <1>6. /\ b.version = ManifestVersion /\ b.filename = Leaf
        /\ b.size = n /\ b.chunkSize = c
        /\ b.chunks = ChunksOf(p, c, P)
    BY <1>3 DEF ManifestOf
  <1>7. P \in 0 .. P
    BY <1>1, PiecesAre
  <1> HIDE DEF b
  <1>8. Len(b.chunks) = P /\ \A i \in 1 .. P : b.chunks[i] = ChunkOf(p, c, i)
    <2>1. P = PieceCount(Len(p), c)
      BY <1>3
    <2> HIDE DEF P
    <2>2. P \in 0 .. PieceCount(Len(p), c)
      BY <1>7, <2>1
    <2>3. Len(ChunksOf(p, c, P)) = P /\ \A i \in 1 .. P : ChunksOf(p, c, P)[i] = ChunkOf(p, c, i)
      BY <1>1, <1>3, <2>2, ChunksOfAre
    <2>4. QED
      BY <1>6, <2>3
  <1>9. \A i \in 1 .. P : /\ b.chunks[i].index = i - 1
                          /\ b.chunks[i].size = EndOf(n, c, i) - EndOf(n, c, i - 1)
    <2>1. \A i \in 1 .. P : /\ ChunkOf(p, c, i).index = i - 1
                             /\ ChunkOf(p, c, i).size = EndOf(n, c, i) - EndOf(n, c, i - 1)
      BY <1>3 DEF ChunkOf
    <2> HIDE DEF P
    <2>2. QED
      BY <1>8, <2>1
  <1> HIDE DEF P
  <1>10. Len(m.chunks) = P
    BY <1>1 DEF P
  <1>11. Shape(b) = Shape(m)
    <2>1. m.size = n /\ m.chunkSize = c
      BY DEF n, c
    <2>2. /\ b.version = m.version /\ b.filename = m.filename
          /\ b.size = m.size /\ b.chunkSize = m.chunkSize
      BY <1>1, <1>6, <2>1
    <2>3. Len(b.chunks) = Len(m.chunks)
      BY <1>8, <1>10
    <2>4. ASSUME NEW i \in 1 .. Len(m.chunks)
          PROVE  /\ b.chunks[i].index = m.chunks[i].index
                 /\ b.chunks[i].size = m.chunks[i].size
      <3>1. i \in 1 .. P
        BY <1>10
      <3>2. b.chunks[i].index = i - 1
            /\ b.chunks[i].size = EndOf(n, c, i) - EndOf(n, c, i - 1)
        BY <1>9, <3>1
      <3>3. m.chunks[i].index = i - 1
            /\ m.chunks[i].size = EndOf(n, c, i) - EndOf(n, c, i - 1)
        BY <1>1
      <3>4. QED
        BY <3>2, <3>3
    <2>5. QED
      BY <1>5, <2>2, <2>3, <2>4, SameShape
  <1>12. QED
    BY <1>3, <1>4, <1>11 DEF b, c, n

\* Validate, which sees no payload, accepts exactly the shapes that BuildManifest
\* gives to some payload.
THEOREM ValidManifestsCanBeBuilt == ManifestSpec => []ValidatesWhatCanBeBuilt
  <1> DEFINE m == held.manifest
             built(p, c) == BuildManifest(Leaf, [bytes |-> p, breaks |-> FALSE], c)
             digests == /\ ValidDigest(m.hash) /\ (m.size = 0 => m.hash = Hash(<<>>))
                        /\ \A i \in DOMAIN m.chunks : ValidDigest(m.chunks[i].hash)
             payloads == {p \in Payload : Len(p) = m.size}
             shaped == \E p \in payloads, c \in 1 .. DefaultChunkSize :
                          Shape(built(p, c)) = Shape(m)
  <1>1. ASSUME NEW p \in Payload, NEW c \in 1 .. DefaultChunkSize
        PROVE  built(p, c) = ManifestOf(p, c)
    <2> DEFINE r == [bytes |-> p, breaks |-> FALSE]
    <2>1. /\ r \in Stream /\ r.bytes = p /\ ~r.breaks
          /\ c \in Nat /\ ValidChunkSize(c) /\ built(p, c) = BuildManifest(Leaf, r, c)
      BY PayloadsAre, ManifestAssumption DEF Stream, ValidChunkSize
    <2> HIDE DEF r, built
    <2>2. QED
      BY <2>1, Builds
  <1>2. ManifestInv => ValidatesWhatCanBeBuilt
    <2> SUFFICES ASSUME ManifestInv PROVE ValidatesWhatCanBeBuilt
      OBVIOUS
    <2>1. m \in ManifestRecord
      BY DEF ManifestInv, OfferRecord
    <2>2. ASSUME Validate(m) PROVE digests /\ shaped
      <3>1. digests
        <4>1. /\ \A i \in 1 .. Len(m.chunks) : ValidDigest(m.chunks[i].hash)
              /\ ValidDigest(m.hash) /\ (m.size = 0 => m.hash = Hash(<<>>))
          <5> HIDE DEF m
          <5>1. QED
            BY <2>1, <2>2, ValidManifestIs
        <4>2. DOMAIN m.chunks = 1 .. Len(m.chunks)
          BY <2>1, ManifestFields
        <4> HIDE DEF m
        <4>3. QED
          BY <4>1, <4>2
      <3>2. m.chunkSize \in 1 .. DefaultChunkSize
        BY <2>2 DEF Validate, ValidChunkSize
      <3>3. PICK p \in Payload : Len(p) = m.size /\ Shape(ManifestOf(p, m.chunkSize)) = Shape(m)
        <4> HIDE DEF m
        <4>1. QED
          BY <2>1, <2>2, ShapeOfValid
      <3>4. p \in payloads /\ Shape(built(p, m.chunkSize)) = Shape(m)
        <4> HIDE DEF built, m
        <4>1. QED
          BY <1>1, <3>2, <3>3
      <3> HIDE DEF built, m, payloads
      <3>5. QED
        BY <3>1, <3>2, <3>4
    <2>3. ASSUME digests, shaped PROVE Validate(m)
      <3>1. PICK p \in payloads, c \in 1 .. DefaultChunkSize : Shape(built(p, c)) = Shape(m)
        <4> HIDE DEF built, m, payloads
        <4>1. QED
          BY <2>3
      <3>2. p \in Payload
        OBVIOUS
      <3>3. Shape(ManifestOf(p, c)) = Shape(m)
        <4> HIDE DEF built, m
        <4>1. QED
          BY <1>1, <3>1, <3>2
      <3> HIDE DEF m
      <3>4. QED
        BY <2>1, <2>3, <3>2, <3>3, ShapeOfBuilt
    <2>4. ValidatesWhatCanBeBuilt <=> (Validate(m) <=> digests /\ shaped)
      BY Zenon DEF ValidatesWhatCanBeBuilt
    <2> HIDE DEF digests, shaped, m
    <2>5. QED
      BY <2>2, <2>3, <2>4
  <1>3. QED
    BY <1>2, ManifestInvariant, PTL
=============================================================================
