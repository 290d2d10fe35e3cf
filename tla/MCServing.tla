------------------------------ MODULE MCServing ------------------------------
(***************************************************************************)
(* Small instances of what serves requests: Retrieval for a few records of *)
(* dataset 1, Capabilities for lists of up to two entries of two datasets, *)
(* and ServerRun with three connections.  They share no state and are      *)
(* checked side by side: a behaviour is of one of the parts.               *)
(***************************************************************************)
EXTENDS Retrieval, Capabilities, ServerRun

VARIABLE part

Envelope(id, version, revision, at, deleted, payload) ==
    [dataset |-> 1, schemaVersion |-> version, recordID |-> id,
     revision |-> revision, updatedAt |-> at, originDevice |-> 1,
     deleted |-> deleted, payload |-> payload]

\* Record 1 is edited; record 2 deleted, and sent late; record 3 comes and
\* goes, its deletion by a clock that is behind.  One device has a newer schema,
\* and leaves record 4 with nothing in its payload.
MCEnvelopes ==
    {Envelope(1, 1, 1, 1, FALSE, "x"), Envelope(1, 1, 2, 1, FALSE, "x"),
     Envelope(2, 1, 1, 1, FALSE, "x"), Envelope(2, 1, 2, 2, TRUE, "none"),
     Envelope(3, 1, 1, 2, FALSE, "x"), Envelope(3, 1, 2, 1, TRUE, "{}"),
     Envelope(4, 1, 1, 1, FALSE, "x"), Envelope(4, 2, 2, 1, FALSE, "{}"),
     Envelope(2, 2, 3, 2, FALSE, "x"), Envelope(3, 2, 1, 1, FALSE, "x")}

Cap(version, read, write) ==
    [dataset |-> 1, application |-> "bookmarks", schemaVersion |-> version,
     read |-> read, write |-> write, delete |-> write]

\* A session that may read and no more, one of the newer schema, and one that
\* may only write.
MCPeers == {<<Cap(1, TRUE, FALSE)>>, <<Cap(2, TRUE, TRUE)>>, <<Cap(2, FALSE, TRUE)>>}

\* Deletion goes through the negotiation as writing does, and is not offered.
\* An application that may read and write has another name at the other end.
MCOffers ==
    [dataset: Datasets, application: {"browser"}, schemaVersion: 0 .. 2,
     read: BOOLEAN, write: BOOLEAN, delete: {FALSE}]
      \cup [dataset: Datasets, application: {"search"}, schemaVersion: {1},
            read: {TRUE}, write: {TRUE}, delete: {FALSE}]

PartInit ==
    /\ \/ part \in {"retrieval", "lists", "server"} /\ Init
       \/ part = "scan" /\ ForeignFile
    /\ NegotiationInit
    /\ ServerInit

PartNext ==
    /\ UNCHANGED part
    /\ \/ /\ part = "retrieval"
          /\ Next
          /\ UNCHANGED <<listVars, serverVars>>
       \/ /\ part = "lists"
          /\ NegotiationNext
          /\ UNCHANGED <<vars, serverVars>>
       \/ /\ part = "server"
          /\ ServerNext
          /\ UNCHANGED <<vars, listVars>>

PartSpec ==
    /\ PartInit
    /\ [][PartNext]_<<part, vars, listVars, serverVars>>
    /\ AsksOn
    /\ part = "server" => ServerFairness

\* Retrieval alone.
StoreSpec == /\ part = "retrieval" /\ PartInit
             /\ [][PartNext]_<<part, vars, listVars, serverVars>>
=============================================================================
