---------------------------- MODULE Capabilities ----------------------------
(***************************************************************************)
(* The negotiation of datasets: two applications have each a list of       *)
(* capabilities, and Negotiate makes of the two lists what a session may   *)
(* use.  Each end negotiates on its own, with the other end's list as its  *)
(* remote one.                                                             *)
(*                                                                         *)
(* Datasets are the places of their names in the alphabet.  The own list   *)
(* names a dataset once, as the registry does; the other end's list is     *)
(* taken as it comes.                                                      *)
(***************************************************************************)
EXTENDS Records, Listing, Sequences, SequencesExt

CONSTANTS
    Offers,    \* capabilities that an application may announce
    MaxOffers  \* longest list

ASSUME CapabilitiesAssumption ==
    /\ Datasets \subseteq Nat
    /\ Offers \subseteq Capability
    /\ MaxOffers \in Nat

VARIABLES local, remote

listVars == <<local, remote>>

-----------------------------------------------------------------------------

\* The map of the remote list: a later entry of a dataset replaces an earlier.
RemoteByDataset(list, d) == list[SelectLastInSeq(list, LAMBDA c : c.dataset = d)]

\* The lower version wins.
Version(left, right) ==
    IF right.schemaVersion < left.schemaVersion
    THEN right.schemaVersion ELSE left.schemaVersion

\* What both sides allow, under the own side's application.
Mutual(left, right) ==
    [dataset |-> left.dataset,
     application |-> left.application,
     schemaVersion |-> Version(left, right),
     read |-> left.read /\ right.read,
     write |-> left.write /\ right.write,
     delete |-> left.delete /\ right.delete]

\* Both know the dataset, in a version, and something of it is allowed.
Usable(left, list) ==
    /\ \E c \in ToSet(list) : c.dataset = left.dataset
    /\ LET right == RemoteByDataset(list, left.dataset)
           both == Mutual(left, right)
       IN  /\ left.schemaVersion >= 1
           /\ right.schemaVersion >= 1
           /\ both.read \/ both.write \/ both.delete

\* Variant: the result is left in the order of the own list.
InGivenOrder(caps) == caps

\* No two entries are of one dataset.
ByDataset(caps) == InOrder(ToSet(caps), [c \in ToSet(caps) |-> c.dataset])

\* The places of the own entries that are kept, in their order.
Kept(ours, theirs) ==
    LET places == {i \in DOMAIN ours : Usable(ours[i], theirs)}
    IN  InOrder(places, [i \in places |-> i])

Negotiate(ours, theirs) ==
    LET kept == Kept(ours, theirs)
        AtPlace(i) == Mutual(ours[i], RemoteByDataset(theirs, ours[i].dataset))
    IN  ByDataset([k \in DOMAIN kept |-> AtPlace(kept[k])])

\* The first capability that lets the peer read the dataset, if there is one.
PeerReadCapability(negotiated, d) ==
    LET i == SelectInSeq(negotiated, LAMBDA c : c.dataset = d /\ c.read)
    IN  IF i = 0 THEN {} ELSE {negotiated[i]}

-----------------------------------------------------------------------------

NegotiationInit == local = <<>> /\ remote = <<>>

Once(list) == \A i, j \in DOMAIN list : list[i].dataset = list[j].dataset => i = j

\* The own registry names one more dataset.
AnnounceLocal ==
    /\ Len(local) < MaxOffers
    /\ \E c \in Offers : local' = Append(local, c) /\ Once(local')
    /\ UNCHANGED remote

\* The other end's list has one more entry.
AnnounceRemote ==
    /\ Len(remote) < MaxOffers
    /\ \E c \in Offers : remote' = Append(remote, c)
    /\ UNCHANGED local

NegotiationNext == AnnounceLocal \/ AnnounceRemote

NegotiationSpec == NegotiationInit /\ [][NegotiationNext]_listVars

-----------------------------------------------------------------------------
(* Properties.                                                             *)

\* What the two ends have to agree on.  The application is a name that each end
\* takes from its own list.
Agreed(c) == <<c.dataset, c.schemaVersion, c.read, c.write, c.delete>>
OwnApplications(caps, list) ==
    \A k \in DOMAIN caps : \E c \in ToSet(list) :
        c.dataset = caps[k].dataset /\ c.application = caps[k].application

\* The two ends compute their sessions apart, each with its own applications, and
\* are of one mind on datasets, versions and rights, down to the order, if
\* neither list repeats a dataset.
BothEndsAgree ==
    LET here == Negotiate(local, remote)
        there == Negotiate(remote, local)
    IN  Once(remote) =>
            /\ Len(here) = Len(there)
            /\ \A k \in DOMAIN here : Agreed(here[k]) = Agreed(there[k])
            /\ OwnApplications(here, local) /\ OwnApplications(there, remote)

\* Inductive invariant: the lists hold offers, and the own list each dataset once.
ListsInv == local \in Seq(Offers) /\ remote \in Seq(Offers) /\ Once(local)
=============================================================================
