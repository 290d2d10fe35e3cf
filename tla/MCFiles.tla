------------------------------ MODULE MCFiles ------------------------------
(***************************************************************************)
(* Small instances of the components that keep files of their own:         *)
(* Publication, DeviceKeys and Sessions, one device of which may hold two  *)
(* keys.  They share nothing and are checked side by side: a behaviour is  *)
(* of one of the parts, whose cases do not depend on the others.  They do  *)
(* share the model values, so that there are few symmetries to try.        *)
(***************************************************************************)
EXTENDS Publication, DeviceKeys, Sessions, TLC

CONSTANTS c1, c2, x, t1, t2, p1, p2

VARIABLE part

\* Two calls, a name that a payload may have, two names of temporary files, and
\* two payloads; either may be published under any of the names.
MCCalls == {c1, c2}
MCNames == {x, t1, t2}
MCTempNames == {t1, t2}
MCPayloads == {p1, p2}

\* The calls are also those of the key store and the requests; the names of
\* temporary files are the session tokens, the payloads are the nonces.
FileSymmetry == Permutations(MCCalls) \cup Permutations(MCTempNames)
                  \cup Permutations(MCPayloads) \cup Permutations(Keys)

\* Where power fails, publications take turns with one temporary file and calls
\* of the key store with the file.
Parts == {"together", "power", "overlap", "keys", "sessions"}

\* Bound: one of the names of temporary files is not used.
OneTemp == \E t \in TempNames : dir[t] = NoFile /\ disk[t] = NoFile

\* Bound: what is in the directory at first.
AtMostOneFile == Cardinality({n \in Names : dir[n] # NoFile}) <= 1

\* Bound: nothing but the present file may be there after a power failure.
OnlyTheFile == onDisk = {file}

\* Bound: one call at a time, and three older files that may come back.
TakeTurns ==
    /\ Cardinality({c \in Callers : caller[c] # NotCalled}) <= 1
    /\ Cardinality(onDisk) <= 4

\* Bound: there may be two logins, under one token or under two, two pairings
\* and two requests, but not all of them at once.
Small ==
    /\ Cardinality(puts) + Cardinality(granted)
         + Cardinality({r \in Requests : request[r] # Idle}) <= 4
    /\ Cardinality(puts) <= 2

PartInit ==
    /\ part \in Parts
    /\ PublishInit
    /\ KeysInit
    /\ Init
    /\ part = "power" => OneTemp
    /\ part = "together" => AtMostOneFile
    /\ part \in {"overlap", "keys", "sessions"} => dir = [n \in Names |-> NoFile]

PartNext ==
    /\ UNCHANGED part
    /\ \/ /\ part = "together"
          /\ PublishNext
          /\ UNCHANGED <<disk, keysVars, vars>>
       \/ /\ part = "power"
          /\ PublishNext /\ OneTemp'
          /\ UNCHANGED <<keysVars, vars>>
       \/ /\ part = "overlap"
          /\ KeysNext /\ OnlyTheFile'
          /\ UNCHANGED <<publishVars, vars>>
       \/ /\ part = "keys"
          /\ KeysNext /\ TakeTurns'
          /\ UNCHANGED <<publishVars, vars>>
       \/ /\ part = "sessions"
          /\ Next
          /\ UNCHANGED <<publishVars, keysVars>>

PartSpec == PartInit /\ [][PartNext]_<<part, publishVars, keysVars, vars>>
=============================================================================
