----------------------------- MODULE DeviceKeys -----------------------------
(***************************************************************************)
(* The DeviceKeyStore: the file with this device's identity key, sealed by *)
(* the platform's key protector.  Save installs a key; Rotate loads the    *)
(* present one, saves the new key with the old creation time, and writes   *)
(* the file a second time with the time of the rotation.                   *)
(*                                                                         *)
(* Nothing is locked: calls of several goroutines interleave between their *)
(* reads and renames, and a process may stop, or the power fail, between   *)
(* the two writes of a rotation.                                           *)
(***************************************************************************)
EXTENDS Naturals

CONSTANTS
    Owners,       \* identifiers of devices
    KeyPairs,
    LastInstant,  \* latest instant a caller passes
    Callers,      \* goroutines that call the store
    NoKeyFile,    \* there is no file
    Torn,         \* a file whose contents were never written out
    KeyFaults     \* what may go wrong: a subset of {"io", "stop", "power"}

ASSUME KeysAssumption ==
    /\ LastInstant \in Nat \ {0}
    /\ KeyFaults \subseteq {"io", "stop", "power"}

\* StoredDeviceKey: rotated is 0 until a rotation is recorded; key stands for
\* the public key and its fingerprint, sealed for the protected private key.
Stored == [device: Owners, key: KeyPairs, sealed: KeyPairs,
           created: 1 .. LastInstant, rotated: 0 .. LastInstant]

ASSUME NoFileAssumption ==
    /\ NoKeyFile \notin Stored /\ Torn \notin Stored
    /\ NoKeyFile # Torn

\* validateStoredDeviceKey: the order of the two times.
Valid(s) == s.rotated # 0 => s.created <= s.rotated

VARIABLES
    file,      \* the key file
    onDisk,    \* what a power failure may leave of it
    caller,    \* the call of each goroutine
    asked,     \* history: the rotations that were called for
    claim      \* history: what the last call returned, while nothing came after

keysVars == <<file, onDisk, caller, asked, claim>>

NotCalled == [pc |-> "idle"]
NoClaim == [key |-> "none"]

KeysInit ==
    /\ file = NoKeyFile
    /\ onDisk = {NoKeyFile}
    /\ caller = [c \in Callers |-> NotCalled]
    /\ asked = {}
    /\ claim = NoClaim

-----------------------------------------------------------------------------

\* What Load accepts: a whole file, whose private key opens and belongs to its
\* public key, and that was not rotated before it was created.
Loadable(f) ==
    /\ f \notin {NoKeyFile, Torn}
    /\ f.sealed = f.key
    /\ Valid(f)

\* The call goes on to write a file; whatever was claimed before is void.
Begin(c, op, stored, at) ==
    /\ caller' = [caller EXCEPT ![c] =
          [pc |-> "write", op |-> op, stored |-> stored, at |-> at]]
    /\ asked' = IF op = "rotate"
                THEN asked \cup {[device |-> stored.device, key |-> stored.key,
                                  at |-> at]}
                ELSE asked
    /\ claim' = NoClaim
    /\ UNCHANGED <<file, onDisk>>

\* Save of a key pair that matches; the protector seals it.
SaveKey(c) ==
    /\ caller[c] = NotCalled
    /\ \E d \in Owners, k \in KeyPairs, at \in 1 .. LastInstant :
          Begin(c, "save", [device |-> d, key |-> k, sealed |-> k,
                            created |-> at, rotated |-> 0], at)

\* rotatedAt is not before CreatedAt.
InOrder(f, at) == f.created <= at

\* Rotate: the present file must load; its device and creation time are kept.
Rotate(c) ==
    /\ caller[c] = NotCalled
    /\ Loadable(file)
    /\ \E k \in KeyPairs, at \in 1 .. LastInstant :
          /\ InOrder(file, at)
          /\ Begin(c, "rotate", [device |-> file.device, key |-> k, sealed |-> k,
                                 created |-> file.created, rotated |-> 0], at)

\* A failed call returns an error; its temporary file is removed.
FailWrite(c) ==
    /\ caller' = [caller EXCEPT ![c] = NotCalled]
    /\ UNCHANGED <<file, onDisk, asked, claim>>

\* write, as far as the synced and closed temporary file.
WriteTemp(c) ==
    /\ caller[c].pc = "write"
    /\ \/ /\ Valid(caller[c].stored)
          /\ caller' = [caller EXCEPT ![c].pc = "rename"]
          /\ UNCHANGED <<file, onDisk, asked, claim>>
       \/ /\ "io" \in KeyFaults \/ ~ Valid(caller[c].stored)
          /\ FailWrite(c)

\* Variant: the temporary file is not synced before it is renamed.
SyncedLate(f) == {f, Torn}

\* What a power failure may leave of a file just renamed: it was synced.
Synced(f) == {f}

\* The directory is not synced: what was there before may come back, unless the
\* system has written the directory out by itself.
OnDiskAfter(f) == {Synced(f) \cup before : before \in {{}, onDisk}}

\* The call that has written f returns f when nobody else is at work.
ReturnFile(c, f) ==
    /\ caller' = [caller EXCEPT ![c] = NotCalled]
    /\ claim' = IF \A o \in Callers \ {c} : caller[o] = NotCalled THEN f ELSE NoClaim

\* Variant: the creation time is recorded as the time of the rotation.
RecordedCreated(c) == [caller[c].stored EXCEPT !.rotated = caller[c].stored.created]

\* The second write of a rotation says when it was.
Recorded(c) == [caller[c].stored EXCEPT !.rotated = caller[c].at]

\* The file is replaced.  The first write of a rotation is followed by the one
\* that records when it was.
Rename(c) ==
    /\ caller[c].pc = "rename"
    /\ \/ /\ file' = caller[c].stored
          /\ onDisk' \in OnDiskAfter(file')
          /\ IF caller[c].op = "rotate"
             THEN /\ caller' = [caller EXCEPT ![c] =
                        [pc |-> "write", op |-> "mark",
                         stored |-> Recorded(c), at |-> caller[c].at]]
                  /\ UNCHANGED claim
             ELSE ReturnFile(c, file')
          /\ UNCHANGED asked
       \/ "io" \in KeyFaults /\ FailWrite(c)

-----------------------------------------------------------------------------

\* Calls end wherever they are.  A temporary file that stays behind is never
\* looked at again.
CutShort == caller' = [c \in Callers |-> NotCalled]

\* The process stops.
Stop ==
    /\ "stop" \in KeyFaults
    /\ \E c \in Callers : caller[c] # NotCalled
    /\ CutShort
    /\ UNCHANGED <<file, onDisk, asked, claim>>

\* The power fails: the directory is never synced, so an earlier file may be
\* there again.
KeyPowerLoss ==
    /\ "power" \in KeyFaults
    /\ \E f \in onDisk : file' = f /\ onDisk' = {f}
    /\ CutShort
    /\ claim' = NoClaim
    /\ UNCHANGED asked

KeysNext ==
    \/ \E c \in Callers : SaveKey(c) \/ Rotate(c) \/ WriteTemp(c) \/ Rename(c)
    \/ Stop
    \/ KeyPowerLoss

KeysSpec == KeysInit /\ [][KeysNext]_keysVars

-----------------------------------------------------------------------------
(* Properties.                                                             *)

\* A recorded rotation is one that was asked for, of that device to that key,
\* also when rotations and saves overlap; and what a call that had the store to
\* itself returned is what the store holds, until the next call or a power
\* failure.
StoresWhatWasAsked ==
    /\ (file \notin {NoKeyFile, Torn} /\ file.rotated # 0) =>
          [device |-> file.device, key |-> file.key, at |-> file.rotated]
             \in asked
    /\ claim # NoClaim => file = claim

\* Whatever calls overlap, fail or are cut short, before and after a power
\* failure: every change of the file leaves one that can be loaded.  Only a
\* power failure may leave none, when the first save was not out yet.
KeyIsNotLost ==
    [][file' # file =>
          \/ file' # NoKeyFile /\ Loadable(file')
          \/ KeyPowerLoss /\ file' = NoKeyFile /\ NoKeyFile \in onDisk]_keysVars

-----------------------------------------------------------------------------
(* The inductive invariant.                                                *)

\* A call that has something to write.  What it writes the second time is what
\* it has written before, with a time.
Writing == [pc: {"write", "rename"}, op: {"save", "rotate", "mark"},
            stored: Stored, at: 1 .. LastInstant]

\* A rotation as it is remembered.
Rotation(f, at) == [device |-> f.device, key |-> f.key, at |-> at]

\* A file that may be found: one that loads, and whose rotation was asked for.
Sound(f) ==
    /\ f \in Stored
    /\ Loadable(f)
    /\ f.rotated # 0 => Rotation(f, f.rotated) \in asked

\* The present file and those that a power failure may leave; there is none
\* before the first save, and none is ever torn.
FilesSound == \A f \in {file} \cup onDisk : f = NoKeyFile \/ Sound(f)

\* A call writes a key it has sealed.  It has no rotation to record before its
\* second write, which records the one that was asked for, and no call renames
\* what validateStoredDeviceKey refuses.
CallsSound ==
    /\ caller \in [Callers -> {NotCalled} \cup Writing]
    /\ \A c \in Callers : caller[c] # NotCalled =>
          LET s == caller[c].stored
          IN  /\ s.sealed = s.key
              /\ s.rotated = (IF caller[c].op = "mark" THEN caller[c].at ELSE 0)
              /\ caller[c].op \in {"rotate", "mark"} =>
                    Rotation(s, caller[c].at) \in asked
              /\ caller[c].pc = "rename" => Valid(s)

\* What was claimed holds while no call is on its way.
ClaimHolds ==
    claim # NoClaim =>
        /\ file = claim
        /\ \A c \in Callers : caller[c] = NotCalled

KeysInv == FilesSound /\ CallsSound /\ ClaimHolds
=============================================================================
