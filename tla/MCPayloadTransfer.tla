-------------------------- MODULE MCPayloadTransfer --------------------------
(***************************************************************************)
(* Small instances of PayloadTransfer, for a payload of two chunks and an  *)
(* empty one, and of Manifests.  The transfer takes a manifest as so many  *)
(* chunks, and what a manifest is worth does not depend on the transfer:   *)
(* they are checked side by side, and a behaviour is one of the two.       *)
(***************************************************************************)
EXTENDS PayloadTransfer, Manifests

CONSTANTS file, text

VARIABLE part  \* which of the two a behaviour shows

MCChunks == [t \in {file, text} |-> IF t = file THEN 2 ELSE 0]

\* Where the transfer is shown, the offer is that of an empty payload.
EmptyOffer ==
    /\ reader.bytes = <<>>
    /\ sent.manifest = BuildManifest(Leaf, reader, 1)

PartInit ==
    /\ part \in {"transfer", "manifest"}
    /\ Init
    /\ ManifestInit
    /\ part = "transfer" => EmptyOffer

PartNext ==
    /\ UNCHANGED part
    /\ \/ /\ part = "transfer"
          /\ Next
          /\ UNCHANGED manifestVars
       \/ /\ part = "manifest"
          /\ ManifestNext
          /\ UNCHANGED vars
       \/ /\ part = "manifest"
          /\ changes = MaxChanges
          /\ UNCHANGED <<vars, manifestVars>>

PartSpec ==
    /\ PartInit
    /\ [][PartNext]_<<part, vars, manifestVars>>
    /\ Fairness
=============================================================================
