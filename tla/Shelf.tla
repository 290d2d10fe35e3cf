------------------------------- MODULE Shelf -------------------------------
(***************************************************************************)
(* What publication promises to whoever reads a destination directory: a   *)
(* file appears under its name at once and whole, never in place of        *)
(* another, and does not change.  It goes when its reader takes it away,   *)
(* or, appended to the directory shortly before, in a loss of power.       *)
(***************************************************************************)
CONSTANTS Names, Payloads, Empty

VARIABLES shelf, durable    \* what is under each name; what a power loss leaves

shelfVars == <<shelf, durable>>

ShelfInit ==
    /\ shelf \in [Names -> Payloads \cup {Empty}]
    /\ durable = shelf

Put(n, p) ==
    /\ shelf[n] = Empty
    /\ shelf' = [shelf EXCEPT ![n] = p]
    /\ UNCHANGED durable

Take(n) ==
    /\ shelf' = [shelf EXCEPT ![n] = Empty]
    /\ UNCHANGED durable

Settle(n) ==
    /\ durable' = [durable EXCEPT ![n] = shelf[n]]
    /\ UNCHANGED shelf

LosePower ==
    /\ shelf' = durable
    /\ UNCHANGED durable

ShelfNext ==
    \/ \E n \in Names : \/ \E p \in Payloads : Put(n, p)
                        \/ Take(n)
                        \/ Settle(n)
    \/ LosePower

ShelfSpec == ShelfInit /\ [][ShelfNext]_shelfVars
=============================================================================
