------------------------------- MODULE Delivery -------------------------------
(***************************************************************************)
(* What a payload transfer promises, seen from outside: the receiver       *)
(* stages the chunks of a transfer only after it has authorized it, in     *)
(* order, each one once; and the sender is told of a delivery only when    *)
(* all of them are staged.  An authorized transfer may be tried again.     *)
(***************************************************************************)
EXTENDS Naturals

CONSTANTS Transfers, Chunks   \* Chunks: how many chunks each transfer has

VARIABLES
    staged,      \* chunks staged for a transfer, in the last destination
    authorized,  \* transfers the receiving application has allowed
    delivered    \* transfers whose sender holds a verified receipt

vars == <<staged, authorized, delivered>>

Init ==
    /\ staged = [t \in Transfers |-> 0]
    /\ authorized = {}
    /\ delivered = {}

\* Each time a transfer is authorized it gets an empty destination.
Authorize(t) ==
    /\ authorized' = authorized \cup {t}
    /\ staged' = [staged EXCEPT ![t] = 0]
    /\ UNCHANGED delivered

Stage(t) ==
    /\ t \in authorized
    /\ staged[t] < Chunks[t]
    /\ staged' = [staged EXCEPT ![t] = @ + 1]
    /\ UNCHANGED <<authorized, delivered>>

Deliver(t) ==
    /\ t \in authorized
    /\ staged[t] = Chunks[t]
    /\ delivered' = delivered \cup {t}
    /\ UNCHANGED <<staged, authorized>>

Next == \E t \in Transfers : Authorize(t) \/ Stage(t) \/ Deliver(t)

Spec == Init /\ [][Next]_vars
=============================================================================
