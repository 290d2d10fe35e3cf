---------------------------- MODULE Publication ----------------------------
(***************************************************************************)
(* LocalPayloadPublisher.Publish (internal/app/payload_publication.go):    *)
(* calls that publish received payloads in one directory at the same time, *)
(* and the directory.                                                      *)
(*                                                                         *)
(* Temporary files live in the directory they are published in, and a      *)
(* payload may be named like one, so all names are of one set.  A file     *)
(* that has two names, as after Link, is two equal entries: nothing writes *)
(* to it any more.  The directory is the operating system's: what is in it *)
(* outlives a stopped program, and what has reached the disk outlives a    *)
(* loss of power.                                                          *)
(***************************************************************************)
EXTENDS Naturals, FiniteSets

CONSTANTS
    Calls,      \* goroutines that publish
    Names,      \* the names a file of the directory may have
    TempNames,  \* those that os.CreateTemp makes up
    Payloads,   \* the contents that a manifest may describe
    Partial,    \* the contents of a file that was not written to its end
    NoFile,     \* nothing
    PowerMayFail    \* bound: whether power is lost

Temp == [kind: {"temp"}, bytes: Payloads \cup {Partial}, synced: BOOLEAN, by: Calls]
Final == [kind: {"final"}, bytes: Payloads \cup {Partial}, synced: BOOLEAN]
File == Temp \cup Final

ASSUME PublicationAssumption ==
    /\ TempNames \subseteq Names
    /\ Partial \notin Payloads
    /\ NoFile \notin File \cup Payloads
    /\ PowerMayFail \in BOOLEAN

VARIABLES
    dir,        \* what is under each name, as programs see it
    disk,       \* the same, as far as it has reached the disk
    call,       \* where each call is
    outcome,    \* what the last call of each goroutine returned
    linked,     \* history: whether that call has linked its target
    litter      \* history: the temporary files whose removal was prevented

publishVars == <<dir, disk, call, outcome, linked, litter>>

NoCall == [pc |-> "idle"]
Publishing ==
    [pc: {"create", "copy", "sync", "link", "unlink", "cleanup"},
     name: Names, declared: Payloads, staged: Payloads,
     temp: Names, err: {"exists", "failed"}]

Outcome == {"none", "published", "published and error", "exists", "failed"}

PublishTypeOK ==
    /\ dir \in [Names -> File \cup {NoFile}]
    /\ disk \in [Names -> File \cup {NoFile}]
    /\ call \in [Calls -> Publishing \cup {NoCall}]
    /\ outcome \in [Calls -> Outcome]
    /\ linked \in [Calls -> BOOLEAN]
    /\ litter \in SUBSET Names

\* The directory may hold files that were put there before.
PublishInit ==
    /\ dir \in [Names -> [kind: {"final"}, bytes: Payloads, synced: {TRUE}]
                         \cup {NoFile}]
    /\ disk = dir
    /\ call = [c \in Calls |-> NoCall]
    /\ outcome = [c \in Calls |-> "none"]
    /\ linked = [c \in Calls |-> FALSE]
    /\ litter = {}

At(c, pc) == call[c].pc = pc
Goto(c, pc) == call' = [call EXCEPT ![c].pc = pc]

\* The call returns.
Return(c, result) ==
    /\ call' = [call EXCEPT ![c] = NoCall]
    /\ outcome' = [outcome EXCEPT ![c] = result]

\* The call fails with a temporary file to remove.
Fail(c, err) ==
    /\ call' = [call EXCEPT ![c].pc = "cleanup", ![c].err = err]
    /\ UNCHANGED <<dir, outcome, linked, litter>>

(***************************************************************************)
(* The steps of Publish.                                                   *)
(***************************************************************************)

\* Publish is called with an offer, a receipt and the staged bytes, and checks
\* the two, the root and the authorization.
Publish(c) ==
    /\ At(c, "idle")
    /\ \/ /\ \E n \in Names, declared \in Payloads, staged \in Payloads :
               call' = [call EXCEPT ![c] =
                   [pc |-> "create", name |-> n, declared |-> declared,
                    staged |-> staged, temp |-> n, err |-> "failed"]]
          /\ outcome' = [outcome EXCEPT ![c] = "none"]
       \/ UNCHANGED call /\ outcome' = [outcome EXCEPT ![c] = "failed"]
    /\ linked' = [linked EXCEPT ![c] = FALSE]
    /\ UNCHANGED <<dir, disk, litter>>

\* os.CreateTemp takes a name under which there is nothing.
CreateTemp(c) ==
    /\ At(c, "create")
    /\ \/ \E t \in TempNames :
            /\ dir[t] = NoFile
            /\ dir' = [dir EXCEPT ![t] = [kind |-> "temp", bytes |-> Partial,
                                          synced |-> FALSE, by |-> c]]
            /\ call' = [call EXCEPT ![c].pc = "copy", ![c].temp = t]
            /\ UNCHANGED outcome
       \/ Return(c, "failed") /\ UNCHANGED dir
    /\ UNCHANGED <<disk, linked, litter>>

\* Variant of CopyVerified: the receipt is believed.
CopyUnverified(c) ==
    /\ At(c, "copy")
    /\ \/ /\ dir' = [dir EXCEPT ![call[c].temp].bytes = call[c].staged]
          /\ Goto(c, "sync")
          /\ UNCHANGED <<outcome, linked, litter>>
       \/ Fail(c, "failed")
    /\ UNCHANGED disk

\* Chmod, and VerifyPayload through a TeeReader: the staged bytes are copied and
\* are the declared ones.
CopyVerified(c) ==
    /\ At(c, "copy")
    /\ \/ /\ call[c].staged = call[c].declared
          /\ dir' = [dir EXCEPT ![call[c].temp].bytes = call[c].staged]
          /\ Goto(c, "sync")
          /\ UNCHANGED <<outcome, linked, litter>>
       \/ Fail(c, "failed")
    /\ UNCHANGED disk

\* Variant of SyncTemp: the file is only closed.
CloseTemp(c) ==
    /\ At(c, "sync")
    /\ \/ Goto(c, "link") /\ UNCHANGED <<dir, outcome, linked, litter>>
       \/ Fail(c, "failed")
    /\ UNCHANGED disk

\* Sync and Close.
SyncTemp(c) ==
    /\ At(c, "sync")
    /\ \/ /\ dir' = [dir EXCEPT ![call[c].temp].synced = TRUE]
          /\ Goto(c, "link")
          /\ UNCHANGED <<outcome, linked, litter>>
       \/ Fail(c, "failed")
    /\ UNCHANGED disk

\* os.Link fails if there is anything under the name.
Link(c) ==
    /\ At(c, "link")
    /\ \/ /\ dir[call[c].name] = NoFile
          /\ dir' = [dir EXCEPT ![call[c].name] =
                        [kind |-> "final", bytes |-> dir[call[c].temp].bytes,
                         synced |-> dir[call[c].temp].synced]]
          /\ linked' = [linked EXCEPT ![c] = TRUE]
          /\ Goto(c, "unlink")
          /\ UNCHANGED <<outcome, litter>>
       \/ dir[call[c].name] # NoFile /\ Fail(c, "exists")
       \/ Fail(c, "failed")
    /\ UNCHANGED disk

RemoveTemp(c) ==
    \/ /\ dir' = [dir EXCEPT ![call[c].temp] = NoFile]
       /\ UNCHANGED litter
    \/ /\ litter' = litter \cup {call[c].temp}
       /\ UNCHANGED dir

\* Variants of Unlink: the deferred removal follows; the result is not returned.
UnlinkTwice(c) ==
    /\ At(c, "unlink")
    /\ RemoveTemp(c)
    /\ Goto(c, "cleanup")
    /\ UNCHANGED <<disk, outcome, linked>>

UnlinkOrFail(c) ==
    /\ At(c, "unlink")
    /\ RemoveTemp(c)
    /\ Return(c, IF dir' = dir THEN "failed" ELSE "published")
    /\ UNCHANGED <<disk, linked>>

\* The removal after a publication; its failure is returned with the result.
Unlink(c) ==
    /\ At(c, "unlink")
    /\ RemoveTemp(c)
    /\ Return(c, IF dir' = dir THEN "published and error" ELSE "published")
    /\ UNCHANGED <<disk, linked>>

\* The deferred removal after a failure.
Cleanup(c) ==
    /\ At(c, "cleanup")
    /\ RemoveTemp(c)
    /\ Return(c, call[c].err)
    /\ UNCHANGED <<disk, linked>>

Step(c) ==
    \/ Publish(c) \/ CreateTemp(c) \/ CopyVerified(c) \/ SyncTemp(c)
    \/ Link(c) \/ Unlink(c) \/ Cleanup(c)

(***************************************************************************)
(* Everything else.                                                        *)
(***************************************************************************)

\* Somebody takes a published file away.
Take(n) ==
    /\ dir[n] # NoFile /\ dir[n].kind = "final"
    /\ dir' = [dir EXCEPT ![n] = NoFile]
    /\ UNCHANGED <<disk, call, outcome, linked, litter>>

\* The operating system writes what is under a name to the disk.
Settle(n) ==
    /\ PowerMayFail
    /\ disk' = [disk EXCEPT ![n] = dir[n]]
    /\ UNCHANGED <<dir, call, outcome, linked, litter>>

\* The program stops, and its calls with it.
Stops ==
    /\ call' = [c \in Calls |-> NoCall]
    /\ outcome' = [c \in Calls |-> "none"]
    /\ linked' = [c \in Calls |-> FALSE]
    /\ litter' = {n \in Names : dir'[n] # NoFile /\ dir'[n].kind = "temp"}

Crash ==
    /\ UNCHANGED <<dir, disk>>
    /\ Stops

\* What is left of a file: all of it only if it was synced.
Left(f) == IF f = NoFile \/ f.synced THEN f ELSE [f EXCEPT !.bytes = Partial]

PowerLoss ==
    /\ PowerMayFail
    /\ dir' = [n \in Names |-> Left(disk[n])]
    /\ Stops
    /\ UNCHANGED disk

PublishNext ==
    \/ \E c \in Calls : Step(c)
    \/ \E n \in Names : Take(n) \/ Settle(n)
    \/ Crash \/ PowerLoss

PublishSpec == PublishInit /\ [][PublishNext]_publishVars

(***************************************************************************)
(* Properties.                                                             *)
(***************************************************************************)

\* Where a call has a temporary file, and where it still uses it.
Holding == {"copy", "sync", "link", "unlink", "cleanup"}
Owns(c) == call[c].pc \in {"copy", "sync", "link", "unlink"}

\* Calls share the directory and the made-up names, and a payload may be named
\* like a temporary file: no call, and no reader, ever removes or replaces the
\* temporary file of another call under its hands.
KeepsItsTemp ==
    \A c \in Calls : Owns(c) =>
        /\ dir[call[c].temp] # NoFile
        /\ dir[call[c].temp].kind = "temp" /\ dir[call[c].temp].by = c

\* The comment on the last error of Publish: the error is no "proof that no side
\* effect occurred" because the result comes with it.  An error without a
\* result is such a proof.
ErrorAloneMeansNotPublished ==
    \A c \in Calls : outcome[c] \in {"exists", "failed"} => ~linked[c]

\* A temporary file that no running call owns is one whose removal failed, or
\* that was there when the program stopped.
NoLitterWithoutFault ==
    \A n \in Names : dir[n] # NoFile /\ dir[n].kind = "temp" =>
        \/ n \in litter
        \/ call[dir[n].by].pc \in Holding /\ call[dir[n].by].temp = n

\* What appears under a name is what the offer of the linking call declared
\* under that name, whatever happened to the staged bytes since the receipt; or
\* it came back from the disk after a loss of power.
PublishesTheOffered ==
    [][\A n \in Names : dir[n] = NoFile /\ dir'[n] # NoFile /\ dir'[n].kind = "final" =>
          \/ \E c \in Calls : /\ At(c, "link") /\ call[c].name = n
                              /\ dir'[n].bytes = call[c].declared
          \/ dir'[n] = Left(disk[n])]_publishVars

\* What makes them inductive: a call's temporary file is its own until it is
\* removed, whole once it is verified, and on the disk before it is linked.
TempInv ==
    \A c \in Calls : call[c].pc \in Holding =>
        LET f == dir[call[c].temp]
        IN  /\ f \in Temp /\ f.by = c
            /\ call[c].pc \in {"sync", "link", "unlink"} => f.bytes = call[c].declared
            /\ call[c].pc \in {"link", "unlink"} => f.synced

FinalInv ==
    \A n \in Names : /\ dir[n] \in Final => dir[n].synced /\ dir[n].bytes \in Payloads
                     /\ disk[n] \in Final => disk[n].synced /\ disk[n].bytes \in Payloads

LinkedInv ==
    \A c \in Calls :
        /\ call[c] # NoCall => outcome[c] = "none"
        /\ linked[c] => \/ call[c].pc = "unlink"
                        \/ outcome[c] \in {"published", "published and error"}

PublicationInv ==
    /\ PublishTypeOK /\ TempInv /\ FinalInv /\ LinkedInv /\ NoLitterWithoutFault

\* A directory read by others is a Shelf.
Published(f) == IF f # NoFile /\ f.kind = "final" THEN f.bytes ELSE NoFile
Visible == [n \in Names |-> Published(dir[n])]
Lasting == [n \in Names |-> Published(Left(disk[n]))]

Shelf == INSTANCE Shelf WITH Empty <- NoFile, shelf <- Visible, durable <- Lasting

IsAShelf == Shelf!ShelfSpec

=============================================================================
