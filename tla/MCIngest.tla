------------------------------- MODULE MCIngest -------------------------------
(***************************************************************************)
(* Small instances of Ingest: two devices, one or two records of           *)
(* search.history, two handlers at a time.                                 *)
(***************************************************************************)
EXTENDS Ingest, TLC

Envelope(id, revision, at, device, deleted, payload) ==
    [dataset |-> "search.history", schemaVersion |-> 1, recordID |-> id,
     revision |-> revision, updatedAt |-> at, originDevice |-> device,
     deleted |-> deleted, payload |-> payload]

MCDatasets == {"search.history"}
MCDevices == {1, 2}

MCCapability ==
    [dataset |-> "search.history", application |-> "search", schemaVersion |-> 1,
     read |-> TRUE, write |-> TRUE, delete |-> TRUE]

\* Both devices negotiated everything.
MCNegotiated == [p \in MCDevices |-> {MCCapability}]

\* Device 2 may not delete.
MCNoDelete ==
    [p \in MCDevices |-> {[MCCapability EXCEPT !.delete = (p = 1)]}]

\* Device 1 edits and then deletes r1; device 2 edits it at both revisions,
\* once at the same revision and instant as the deletion, and deletes it too.
MCEdits == {Envelope("r1", 1, 1, 1, FALSE, "x"),
            Envelope("r1", 2, 2, 1, TRUE, "none"),
            Envelope("r1", 1, 2, 2, FALSE, "y"),
            Envelope("r1", 2, 2, 2, FALSE, "y"),
            Envelope("r1", 3, 1, 2, TRUE, "none")}

\* Two records that one device deletes and the other edits, r1 at a newer revision
\* and r2 with nothing in its payload.
MCDeletes == {Envelope("r1", 1, 1, 1, TRUE, "none"),
              Envelope("r1", 2, 1, 2, FALSE, "y"),
              Envelope("r2", 1, 2, 1, TRUE, "none"),
              Envelope("r2", 1, 1, 2, FALSE, "{}")}

\* Both devices delete one record, at the same revision and instant.
MCBothDelete == {Envelope("r1", 1, 1, 1, FALSE, "x"),
                 Envelope("r1", 2, 2, 1, TRUE, "none"),
                 Envelope("r1", 2, 2, 2, TRUE, "none")}

\* Handlers are interchangeable.
RequestSymmetry == Permutations(Requests)
=============================================================================
