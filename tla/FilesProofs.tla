---------------------------- MODULE FilesProofs -----------------------------
(***************************************************************************)
(* Proofs about the components that write files by a temporary name, for   *)
(* any number of calls, names, payloads and keys: the types and invariants *)
(* of Publication, that a directory read by others is a Shelf, and what    *)
(* DeviceKeys stores.                                                      *)
(***************************************************************************)
EXTENDS Publication, DeviceKeys, TLAPS

-----------------------------------------------------------------------------
(* Publication.                                                            *)
(* Files and calls.                                                        *)

\* A file is a temporary or a final one, told apart by its kind.
LEMMA Kinds ==
    /\ \A f \in Temp : /\ f # NoFile /\ f.kind = "temp" /\ f \notin Final
                       /\ f.bytes \in Payloads \cup {Partial}
                       /\ f.synced \in BOOLEAN /\ f.by \in Calls
    /\ \A f \in Final : /\ f # NoFile /\ f.kind = "final" /\ f \notin Temp
                        /\ f.bytes \in Payloads \cup {Partial}
                        /\ f.synced \in BOOLEAN
    /\ \A f \in File : (f.kind = "temp" <=> f \in Temp) /\ (f.kind = "final" <=> f \in Final)
  <1>1. NoFile \notin File
    BY PublicationAssumption
  <1>2. \A f \in Temp : f.kind = "temp" /\ f \in File
    BY DEF Temp, File
  <1>3. \A f \in Final : f.kind = "final" /\ f \in File
    BY DEF Final, File
  <1>4. QED
    BY <1>1, <1>2, <1>3 DEF Temp, Final, File

\* A call is idle or has the fields of a publication.
LEMMA CallFields ==
    ASSUME PublishTypeOK, NEW c \in Calls
    PROVE  /\ call[c] = NoCall <=> call[c].pc = "idle"
           /\ call[c].pc # "idle" =>
                /\ call[c] \in Publishing
                /\ call[c].name \in Names /\ call[c].temp \in Names
                /\ call[c].declared \in Payloads /\ call[c].staged \in Payloads
                /\ call[c].err \in {"exists", "failed"}
                /\ call[c].pc \in {"create"} \cup Holding
  <1>1. call[c] \in Publishing \cup {NoCall}
    BY DEF PublishTypeOK
  <1>2. CASE call[c] = NoCall
    BY <1>2 DEF NoCall
  <1>3. CASE call[c] \in Publishing
    <2>1. call[c].pc # "idle"
      BY <1>3 DEF Publishing
    <2>2. call[c] # NoCall
      BY <2>1 DEF NoCall
    <2>3. QED
      BY <1>3, <2>1, <2>2 DEF Publishing, Holding
  <1>4. QED
    BY <1>1, <1>2, <1>3

\* Two calls never hold one temporary file.
LEMMA OwnFile ==
    ASSUME PublicationInv, NEW c \in Calls, NEW d \in Calls, c # d,
           call[c].pc \in Holding, call[d].pc \in Holding
    PROVE  call[c].temp # call[d].temp
  BY DEF PublicationInv, TempInv

-----------------------------------------------------------------------------
(* The inductive invariant.                                                *)

\* In a directory that nobody publishes in yet every file is final and whole.
LEMMA PublicationInit == PublishInit => PublicationInv
  <1> SUFFICES ASSUME PublishInit PROVE PublicationInv
    OBVIOUS
  <1>1. \A n \in Names : \/ dir[n] = NoFile
                         \/ dir[n] \in Final /\ dir[n].synced /\ dir[n].bytes \in Payloads
    BY DEF PublishInit, Final
  <1>2. dir \in [Names -> File \cup {NoFile}]
    BY <1>1 DEF PublishInit, File
  <1>3. PublishTypeOK
    BY <1>2 DEF PublishInit, PublishTypeOK, Outcome
  <1>4. NoLitterWithoutFault
    BY <1>1, Kinds DEF NoLitterWithoutFault
  <1>5. TempInv /\ LinkedInv
    BY DEF PublishInit, NoCall, TempInv, LinkedInv, Holding
  <1>6. FinalInv
    BY <1>1, <1>2, Kinds DEF PublishInit, FinalInv
  <1>7. QED
    BY <1>3, <1>4, <1>5, <1>6 DEF PublicationInv

\* A step of one call that leaves the directory as it is: every part but the
\* call's own is kept.
LEMMA CallMoves ==
    ASSUME PublicationInv, NEW c \in Calls, NEW new \in Publishing,
           call' = [call EXCEPT ![c] = new],
           UNCHANGED <<dir, disk, litter>>,
           outcome' = [outcome EXCEPT ![c] = "none"],
           linked' \in [Calls -> BOOLEAN],
           \A d \in Calls : d # c => linked'[d] = linked[d],
           linked'[c] => new.pc = "unlink",
           new.pc = "create" => call[c].pc = "idle",
           new.pc \in Holding =>
             /\ call[c].pc \in Holding /\ new.temp = call[c].temp
             /\ new.pc \in {"sync", "link", "unlink"} =>
                   dir[new.temp].bytes = new.declared
             /\ new.pc \in {"link", "unlink"} => dir[new.temp].synced
    PROVE  PublicationInv'
  <1>1. PublishTypeOK
    BY DEF PublicationInv
  <1>2. PublishTypeOK'
    BY <1>1 DEF PublishTypeOK, Outcome
  <1>3. /\ call'[c] = new /\ outcome'[c] = "none"
        /\ \A d \in Calls : d # c => call'[d] = call[d] /\ outcome'[d] = outcome[d]
    BY <1>1 DEF PublishTypeOK
  <1>4. new.pc \in {"create"} \cup Holding
    BY DEF Publishing, Holding
  <1>5. TempInv'
    <2>1. SUFFICES ASSUME NEW d \in Calls, call'[d].pc \in Holding
                   PROVE  LET f == dir[call'[d].temp]
                          IN  /\ f \in Temp /\ f.by = d
                              /\ call'[d].pc \in {"sync", "link", "unlink"} =>
                                    f.bytes = call'[d].declared
                              /\ call'[d].pc \in {"link", "unlink"} => f.synced
      BY DEF TempInv
    <2>2. CASE d = c
      BY <2>1, <2>2, <1>3 DEF PublicationInv, TempInv
    <2>3. CASE d # c
      BY <2>1, <2>3, <1>3 DEF PublicationInv, TempInv
    <2>4. QED
      BY <2>2, <2>3
  <1>6. FinalInv'
    BY DEF PublicationInv, FinalInv
  <1>7. LinkedInv'
    <2>1. SUFFICES ASSUME NEW d \in Calls
                   PROVE  /\ call'[d] # NoCall => outcome'[d] = "none"
                          /\ linked'[d] => \/ call'[d].pc = "unlink"
                                           \/ outcome'[d] \in {"published", "published and error"}
      BY DEF LinkedInv
    <2>2. CASE d = c
      BY <2>2, <1>3
    <2>3. CASE d # c
      BY <2>3, <1>3 DEF PublicationInv, LinkedInv
    <2>4. QED
      BY <2>2, <2>3
  <1>8. NoLitterWithoutFault'
    <2>1. SUFFICES ASSUME NEW n \in Names, dir[n] # NoFile, dir[n].kind = "temp",
                          n \notin litter
                   PROVE  call'[dir[n].by].pc \in Holding /\ call'[dir[n].by].temp = n
      BY DEF NoLitterWithoutFault
    <2>2. dir[n] \in Temp /\ dir[n].by \in Calls
      BY <2>1, <1>1, Kinds DEF PublishTypeOK
    <2>3. call[dir[n].by].pc \in Holding /\ call[dir[n].by].temp = n
      BY <2>1 DEF PublicationInv, NoLitterWithoutFault
    <2>4. CASE dir[n].by = c
      <3>1. call[c].pc \in Holding
        BY <2>3, <2>4
      <3>2. new.pc \in Holding /\ new.temp = n
        BY <3>1, <1>4, <2>3, <2>4 DEF Holding
      <3>3. QED
        BY <3>2, <2>4, <1>3
    <2>5. CASE dir[n].by # c
      BY <2>2, <2>3, <2>5, <1>3
    <2>6. QED
      BY <2>4, <2>5
  <1>9. QED
    BY <1>2, <1>5, <1>6, <1>7, <1>8 DEF PublicationInv

\* A step of one call that makes or writes its temporary file.
LEMMA CallWrites ==
    ASSUME PublicationInv, NEW c \in Calls, NEW new \in Publishing, NEW f \in Temp,
           call' = [call EXCEPT ![c] = new],
           dir' = [dir EXCEPT ![new.temp] = f],
           UNCHANGED <<disk, outcome, linked, litter>>,
           new.pc \in Holding \ {"unlink"}, f.by = c,
           new.pc \in {"sync", "link"} => f.bytes = new.declared,
           new.pc = "link" => f.synced,
           \/ call[c].pc = "create" /\ dir[new.temp] = NoFile
           \/ call[c].pc \in Holding \ {"unlink"} /\ new.temp = call[c].temp
    PROVE  PublicationInv'
  <1>1. PublishTypeOK /\ new.temp \in Names
    BY DEF PublicationInv, Publishing
  <1>2. /\ call'[c] = new /\ dir'[new.temp] = f
        /\ \A d \in Calls : d # c => call'[d] = call[d]
        /\ \A n \in Names : n # new.temp => dir'[n] = dir[n]
    BY <1>1 DEF PublishTypeOK
  <1>3. call[c] # NoCall /\ new # NoCall
    BY DEF NoCall, Holding
  <1>4. PublishTypeOK'
    BY <1>1 DEF PublishTypeOK, File
  <1>5. \A d \in Calls : d # c /\ call[d].pc \in Holding => call[d].temp # new.temp
    <2>1. SUFFICES ASSUME NEW d \in Calls, d # c, call[d].pc \in Holding
                   PROVE  call[d].temp # new.temp
      OBVIOUS
    <2>2. dir[call[d].temp] \in Temp /\ dir[call[d].temp].by = d
      BY <2>1 DEF PublicationInv, TempInv
    <2>3. CASE dir[new.temp] = NoFile
      BY <2>2, <2>3, Kinds
    <2>4. CASE call[c].pc \in Holding /\ new.temp = call[c].temp
      BY <2>1, <2>4, OwnFile
    <2>5. QED
      BY <2>3, <2>4
  <1>6. TempInv'
    <2>1. SUFFICES ASSUME NEW d \in Calls, call'[d].pc \in Holding
                   PROVE  LET g == dir'[call'[d].temp]
                          IN  /\ g \in Temp /\ g.by = d
                              /\ call'[d].pc \in {"sync", "link", "unlink"} =>
                                    g.bytes = call'[d].declared
                              /\ call'[d].pc \in {"link", "unlink"} => g.synced
      BY DEF TempInv
    <2>2. CASE d = c
      BY <2>2, <1>2
    <2>3. CASE d # c
      <3>1. call'[d] = call[d] /\ call[d].temp \in Names
        BY <2>1, <2>3, <1>1, <1>2, CallFields DEF Holding
      <3>2. dir'[call[d].temp] = dir[call[d].temp]
        BY <2>1, <2>3, <3>1, <1>2, <1>5
      <3>3. QED
        BY <2>1, <3>1, <3>2 DEF PublicationInv, TempInv
    <2>4. QED
      BY <2>2, <2>3
  <1>7. FinalInv'
    <2>1. SUFFICES ASSUME NEW n \in Names
                   PROVE  /\ dir'[n] \in Final => dir'[n].synced /\ dir'[n].bytes \in Payloads
                          /\ disk'[n] \in Final => disk'[n].synced /\ disk'[n].bytes \in Payloads
      BY DEF FinalInv
    <2>2. QED
      BY <1>2, Kinds DEF PublicationInv, FinalInv
  <1>8. LinkedInv'
    <2>1. \A d \in Calls : call'[d] # NoCall => call[d] # NoCall
      BY <1>2, <1>3
    <2>2. \A d \in Calls : call[d].pc = "unlink" => call'[d].pc = "unlink"
      BY <1>2 DEF Holding
    <2>3. QED
      BY <2>1, <2>2 DEF PublicationInv, LinkedInv
  <1>9. NoLitterWithoutFault'
    <2>1. SUFFICES ASSUME NEW n \in Names, dir'[n] # NoFile, dir'[n].kind = "temp",
                          n \notin litter
                   PROVE  call'[dir'[n].by].pc \in Holding /\ call'[dir'[n].by].temp = n
      BY DEF NoLitterWithoutFault
    <2>2. CASE n = new.temp
      BY <2>2, <1>2, <1>3
    <2>3. CASE n # new.temp
      <3>1. dir'[n] = dir[n]
        BY <2>3, <1>2
      <3>2. dir[n] \in Temp /\ dir[n].by \in Calls
        BY <2>1, <3>1, <1>1, Kinds DEF PublishTypeOK
      <3>3. call[dir[n].by].pc \in Holding /\ call[dir[n].by].temp = n
        BY <2>1, <3>1 DEF PublicationInv, NoLitterWithoutFault
      <3>4. CASE dir[n].by = c
        <4>1. call[c].temp = n
          BY <3>3, <3>4
        <4>2. call[c].pc # "create"
          BY <3>3, <3>4 DEF Holding
        <4>3. QED
          BY <4>1, <4>2, <2>3
      <3>5. CASE dir[n].by # c
        BY <3>1, <3>2, <3>3, <3>5, <1>2
      <3>6. QED
        BY <3>4, <3>5
    <2>4. QED
      BY <2>2, <2>3
  <1>10. QED
    BY <1>4, <1>6, <1>7, <1>8, <1>9 DEF PublicationInv

\* A call that returns, and that removes its temporary file if it has one, or
\* fails to.
LEMMA CallReturns ==
    ASSUME PublicationInv, NEW c \in Calls, NEW result \in Outcome,
           Return(c, result), UNCHANGED disk,
           linked' \in [Calls -> BOOLEAN],
           \A d \in Calls : d # c => linked'[d] = linked[d],
           linked'[c] => result \in {"published", "published and error"},
           \/ call[c].pc \notin Holding /\ UNCHANGED <<dir, litter>>
           \/ call[c].pc \in Holding /\ RemoveTemp(c)
    PROVE  PublicationInv'
  <1>1. PublishTypeOK
    BY DEF PublicationInv
  <1>2. /\ call'[c] = NoCall /\ outcome'[c] = result
        /\ \A d \in Calls : d # c => call'[d] = call[d] /\ outcome'[d] = outcome[d]
    BY <1>1 DEF PublishTypeOK, Return
  <1>3. /\ dir' \in [Names -> File \cup {NoFile}] /\ litter' \in SUBSET Names
        /\ litter \subseteq litter'
        /\ \A n \in Names : \/ dir'[n] = dir[n]
                            \/ call[c].pc \in Holding /\ n = call[c].temp /\ dir'[n] = NoFile
        /\ call[c].pc \in Holding =>
              call[c].temp \in litter' \/ dir'[call[c].temp] = NoFile
    <2>1. CASE call[c].pc \notin Holding /\ UNCHANGED <<dir, litter>>
      BY <2>1, <1>1 DEF PublishTypeOK
    <2>2. CASE call[c].pc \in Holding /\ RemoveTemp(c)
      <3>1. call[c].temp \in Names
        BY <2>2, <1>1, CallFields DEF Holding
      <3>2. QED
        BY <2>2, <3>1, <1>1 DEF PublishTypeOK, RemoveTemp
    <2>3. QED
      BY <2>1, <2>2
  <1>4. PublishTypeOK'
    BY <1>1, <1>3 DEF PublishTypeOK, Return
  <1>5. TempInv'
    <2>1. SUFFICES ASSUME NEW d \in Calls, call'[d].pc \in Holding
                   PROVE  LET f == dir'[call'[d].temp]
                          IN  /\ f \in Temp /\ f.by = d
                              /\ call'[d].pc \in {"sync", "link", "unlink"} =>
                                    f.bytes = call'[d].declared
                              /\ call'[d].pc \in {"link", "unlink"} => f.synced
      BY DEF TempInv
    <2>2. d # c
      <3>1. NoCall.pc = "idle"
        BY DEF NoCall
      <3>2. QED
        BY <2>1, <3>1, <1>2 DEF Holding
    <2>3. call'[d] = call[d] /\ call[d].temp \in Names
      BY <2>1, <2>2, <1>1, <1>2, CallFields DEF Holding
    <2>4. dir'[call[d].temp] = dir[call[d].temp]
      BY <2>1, <2>2, <2>3, <1>3, OwnFile
    <2>5. LET f == dir[call[d].temp]
          IN  /\ f \in Temp /\ f.by = d
              /\ call[d].pc \in {"sync", "link", "unlink"} => f.bytes = call[d].declared
              /\ call[d].pc \in {"link", "unlink"} => f.synced
      BY <2>1, <2>3 DEF PublicationInv, TempInv
    <2>6. QED
      BY <2>3, <2>4, <2>5
  <1>6. FinalInv'
    <2>1. SUFFICES ASSUME NEW n \in Names
                   PROVE  /\ dir'[n] \in Final => dir'[n].synced /\ dir'[n].bytes \in Payloads
                          /\ disk'[n] \in Final => disk'[n].synced /\ disk'[n].bytes \in Payloads
      BY DEF FinalInv
    <2>2. QED
      BY <1>3, Kinds DEF PublicationInv, FinalInv
  <1>7. LinkedInv'
    <2>1. SUFFICES ASSUME NEW d \in Calls
                   PROVE  /\ call'[d] # NoCall => outcome'[d] = "none"
                          /\ linked'[d] => \/ call'[d].pc = "unlink"
                                           \/ outcome'[d] \in {"published", "published and error"}
      BY DEF LinkedInv
    <2>2. CASE d = c
      BY <2>2, <1>2
    <2>3. CASE d # c
      BY <2>3, <1>2 DEF PublicationInv, LinkedInv
    <2>4. QED
      BY <2>2, <2>3
  <1>8. NoLitterWithoutFault'
    <2>1. SUFFICES ASSUME NEW n \in Names, dir'[n] # NoFile, dir'[n].kind = "temp",
                          n \notin litter'
                   PROVE  call'[dir'[n].by].pc \in Holding /\ call'[dir'[n].by].temp = n
      BY DEF NoLitterWithoutFault
    <2>2. dir'[n] = dir[n]
      BY <2>1, <1>3
    <2>3. dir[n] \in Temp /\ dir[n].by \in Calls
      BY <2>1, <2>2, <1>1, Kinds DEF PublishTypeOK
    <2>4. call[dir[n].by].pc \in Holding /\ call[dir[n].by].temp = n
      BY <2>1, <2>2, <1>3 DEF PublicationInv, NoLitterWithoutFault
    <2>5. dir[n].by # c
      BY <2>1, <2>2, <2>4, <1>3
    <2>6. QED
      BY <2>2, <2>3, <2>4, <2>5, <1>2
  <1>9. QED
    BY <1>4, <1>5, <1>6, <1>7, <1>8 DEF PublicationInv

\* The call links its temporary file, which is whole and synced, under a name
\* where there is nothing.
LEMMA CallLinks ==
    ASSUME PublicationInv, NEW c \in Calls, Link(c), dir' # dir
    PROVE  PublicationInv'
  <1>1. PublishTypeOK /\ call[c].pc = "link"
    BY DEF PublicationInv, Link, At
  <1>2. /\ call[c] \in Publishing /\ call[c].name \in Names /\ call[c].temp \in Names
        /\ call[c] # NoCall
    BY <1>1, CallFields
  <1>3. PICK n \in Names : n = call[c].name
    BY <1>2
  <1>4. PICK g : g = [kind |-> "final", bytes |-> dir[call[c].temp].bytes,
                      synced |-> dir[call[c].temp].synced]
    OBVIOUS
  <1>5. /\ dir[n] = NoFile /\ dir' = [dir EXCEPT ![n] = g]
        /\ linked' = [linked EXCEPT ![c] = TRUE]
        /\ call' = [call EXCEPT ![c].pc = "unlink"]
        /\ UNCHANGED <<disk, outcome, litter>>
    BY <1>3, <1>4 DEF Link, Fail, Goto
  <1>6. g \in Final /\ g.synced /\ g.bytes \in Payloads
    <2>1. /\ dir[call[c].temp].bytes = call[c].declared /\ dir[call[c].temp].synced
          /\ dir[call[c].temp] \in Temp
      BY <1>1 DEF PublicationInv, TempInv, Holding
    <2>2. QED
      BY <1>1, <1>4, <2>1, CallFields, Kinds DEF Final
  <1>7. [call[c] EXCEPT !.pc = "unlink"] \in Publishing
    BY <1>2 DEF Publishing
  <1>8. /\ dir'[n] = g /\ \A m \in Names : m # n => dir'[m] = dir[m]
        /\ call'[c].pc = "unlink" /\ call'[c].temp = call[c].temp
        /\ call'[c].declared = call[c].declared
        /\ \A d \in Calls : d # c => call'[d] = call[d]
        /\ \A d \in Calls : d # c => linked'[d] = linked[d]
    <2>1. call'[c] = [call[c] EXCEPT !.pc = "unlink"]
      BY <1>1, <1>5 DEF PublishTypeOK
    <2>2. QED
      BY <1>1, <1>2, <1>5, <1>7, <2>1 DEF PublishTypeOK, Publishing
  <1>9. PublishTypeOK'
    <2>1. call' \in [Calls -> Publishing \cup {NoCall}]
      BY <1>1, <1>5, <1>7 DEF PublishTypeOK
    <2>2. dir' \in [Names -> File \cup {NoFile}]
      BY <1>1, <1>5, <1>6 DEF PublishTypeOK, File
    <2>3. QED
      BY <1>1, <1>5, <2>1, <2>2 DEF PublishTypeOK
  <1>10. TempInv'
    <2>1. SUFFICES ASSUME NEW d \in Calls, call'[d].pc \in Holding
                   PROVE  LET f == dir'[call'[d].temp]
                          IN  /\ f \in Temp /\ f.by = d
                              /\ call'[d].pc \in {"sync", "link", "unlink"} =>
                                    f.bytes = call'[d].declared
                              /\ call'[d].pc \in {"link", "unlink"} => f.synced
      BY DEF TempInv
    <2>2. call[d].pc \in Holding
      BY <2>1, <1>1, <1>8 DEF Holding
    <2>3. dir[call[d].temp] \in Temp
      BY <2>2 DEF PublicationInv, TempInv
    <2>4. call[d].temp \in Names /\ call[d].temp # n
      BY <2>2, <2>3, <1>1, <1>5, Kinds, CallFields DEF Holding
    <2>5. dir'[call[d].temp] = dir[call[d].temp]
      BY <2>4, <1>8
    <2>6. CASE d = c
      BY <2>5, <2>6, <1>1, <1>8 DEF PublicationInv, TempInv, Holding
    <2>7. CASE d # c
      BY <2>1, <2>5, <2>7, <1>8 DEF PublicationInv, TempInv
    <2>8. QED
      BY <2>6, <2>7
  <1>11. FinalInv'
    BY <1>5, <1>6, <1>8 DEF PublicationInv, FinalInv
  <1>12. LinkedInv'
    <2>1. outcome[c] = "none"
      BY <1>2 DEF PublicationInv, LinkedInv
    <2>2. SUFFICES ASSUME NEW d \in Calls
                   PROVE  /\ call'[d] # NoCall => outcome'[d] = "none"
                          /\ linked'[d] => \/ call'[d].pc = "unlink"
                                           \/ outcome'[d] \in {"published", "published and error"}
      BY DEF LinkedInv
    <2>3. CASE d = c
      BY <2>1, <2>3, <1>5, <1>8
    <2>4. CASE d # c
      BY <2>4, <1>5, <1>8 DEF PublicationInv, LinkedInv
    <2>5. QED
      BY <2>3, <2>4
  <1>13. NoLitterWithoutFault'
    <2>1. SUFFICES ASSUME NEW m \in Names, dir'[m] # NoFile, dir'[m].kind = "temp",
                          m \notin litter
                   PROVE  call'[dir'[m].by].pc \in Holding /\ call'[dir'[m].by].temp = m
      BY <1>5 DEF NoLitterWithoutFault
    <2>2. m # n
      BY <2>1, <1>6, <1>8, Kinds
    <2>3. dir'[m] = dir[m] /\ dir[m] \in Temp /\ dir[m].by \in Calls
      BY <2>1, <2>2, <1>1, <1>8, Kinds DEF PublishTypeOK
    <2>4. call[dir[m].by].pc \in Holding /\ call[dir[m].by].temp = m
      BY <2>1, <2>3 DEF PublicationInv, NoLitterWithoutFault
    <2>5. QED
      BY <2>3, <2>4, <1>8 DEF Holding
  <1>14. QED
    BY <1>9, <1>10, <1>11, <1>12, <1>13 DEF PublicationInv

\* So does each step of a call.
LEMMA StepKeeps ==
    ASSUME PublicationInv, NEW c \in Calls, Step(c)
    PROVE  PublicationInv'
  <1>1. PublishTypeOK
    BY DEF PublicationInv
  <1>2. call[c].pc # "idle" =>
          /\ outcome[c] = "none" /\ (linked[c] => call[c].pc = "unlink")
          /\ outcome = [outcome EXCEPT ![c] = "none"]
    BY <1>1, CallFields DEF PublicationInv, LinkedInv, PublishTypeOK
  <1>3. CASE Publish(c)
    <2>1. At(c, "idle") /\ call[c].pc \notin Holding
      BY <1>3 DEF Publish, At, Holding
    <2>2. /\ UNCHANGED <<dir, disk, litter>>
          /\ linked' = [linked EXCEPT ![c] = FALSE]
      BY <1>3 DEF Publish
    <2>3. /\ linked' \in [Calls -> BOOLEAN] /\ ~linked'[c]
          /\ \A d \in Calls : d # c => linked'[d] = linked[d]
      BY <2>2, <1>1 DEF PublishTypeOK
    <2>4. CASE UNCHANGED call
      <3>1. CASE outcome' = [outcome EXCEPT ![c] = "failed"]
        <4>1. Return(c, "failed")
          <5>1. call[c] = NoCall
            BY <2>1, <1>1, CallFields DEF At
          <5>2. QED
            BY <2>4, <3>1, <5>1, <1>1 DEF Return, PublishTypeOK
        <4>2. QED
          BY <4>1, <2>1, <2>2, <2>3, CallReturns DEF Outcome
      <3>2. CASE outcome' # [outcome EXCEPT ![c] = "failed"]
        <4>1. PICK n \in Names, p \in Payloads, q \in Payloads :
                call' = [call EXCEPT ![c] =
                   [pc |-> "create", name |-> n, declared |-> p, staged |-> q,
                    temp |-> n, err |-> "failed"]]
          BY <1>3, <3>2 DEF Publish
        <4>2. call'[c] # call[c]
          BY <4>1, <1>1, <2>1 DEF PublishTypeOK, At
        <4>3. QED
          BY <4>2, <2>4
      <3>3. QED
        BY <3>1, <3>2
    <2>5. CASE ~UNCHANGED call
      <3>1. PICK n \in Names, p \in Payloads, q \in Payloads :
              /\ call' = [call EXCEPT ![c] =
                   [pc |-> "create", name |-> n, declared |-> p, staged |-> q,
                    temp |-> n, err |-> "failed"]]
              /\ outcome' = [outcome EXCEPT ![c] = "none"]
        BY <1>3, <2>5 DEF Publish
      <3>2. PICK new :
              new = [pc |-> "create", name |-> n, declared |-> p, staged |-> q,
                     temp |-> n, err |-> "failed"]
        OBVIOUS
      <3>3. new \in Publishing /\ new.pc = "create"
        BY <3>2 DEF Publishing
      <3>4. QED
        BY <2>1, <2>2, <2>3, <3>1, <3>2, <3>3, CallMoves DEF At, Holding
    <2>6. QED
      BY <2>4, <2>5
  <1>4. CASE CreateTemp(c)
    <2>1. call[c].pc = "create" /\ call[c].pc \notin Holding /\ call[c] \in Publishing
      BY <1>4, <1>1, CallFields DEF CreateTemp, At, Holding
    <2>2. UNCHANGED <<disk, linked, litter>>
      BY <1>4 DEF CreateTemp
    <2>3. CASE Return(c, "failed") /\ UNCHANGED dir
      BY <2>1, <2>2, <2>3, <1>1, <1>2, CallReturns DEF Outcome, PublishTypeOK
    <2>4. CASE ~(Return(c, "failed") /\ UNCHANGED dir)
      <3>1. PICK t \in TempNames :
              /\ dir[t] = NoFile
              /\ dir' = [dir EXCEPT ![t] = [kind |-> "temp", bytes |-> Partial,
                                            synced |-> FALSE, by |-> c]]
              /\ call' = [call EXCEPT ![c].pc = "copy", ![c].temp = t]
              /\ UNCHANGED outcome
        BY <1>4, <2>4 DEF CreateTemp
      <3>2. t \in Names
        BY PublicationAssumption
      <3>3. PICK f : f = [kind |-> "temp", bytes |-> Partial,
                          synced |-> FALSE, by |-> c]
        OBVIOUS
      <3>4. f \in Temp /\ f.by = c
        BY <3>3 DEF Temp
      <3>5. PICK new : new = [call[c] EXCEPT !.pc = "copy", !.temp = t]
        OBVIOUS
      <3>6. new \in Publishing /\ new.pc = "copy" /\ new.temp = t
        BY <2>1, <3>2, <3>5 DEF Publishing
      <3>7. call' = [call EXCEPT ![c] = new] /\ dir' = [dir EXCEPT ![new.temp] = f]
        BY <3>1, <3>3, <3>5, <3>6
      <3>8. /\ new.pc \in Holding \ {"unlink"} /\ ~(new.pc \in {"sync", "link"})
            /\ UNCHANGED <<disk, outcome, linked, litter>>
            /\ call[c].pc = "create" /\ dir[new.temp] = NoFile
        BY <2>1, <2>2, <3>1, <3>6 DEF Holding
      <3>9. QED
        BY <3>4, <3>6, <3>7, <3>8, CallWrites
    <2>5. QED
      BY <2>3, <2>4
  <1>5. ASSUME call[c].pc \in {"copy", "sync", "link"}, UNCHANGED disk,
               NEW err \in {"exists", "failed"}, Fail(c, err)
        PROVE  PublicationInv'
    <2>1. call[c] \in Publishing
      BY <1>1, <1>5, CallFields
    <2>2. PICK new : new = [call[c] EXCEPT !.pc = "cleanup", !.err = err]
      OBVIOUS
    <2>3. new \in Publishing /\ new.pc = "cleanup" /\ new.temp = call[c].temp
      BY <2>1, <2>2, <1>5 DEF Publishing
    <2>4. call' = [call EXCEPT ![c] = new]
      BY <1>5, <2>2 DEF Fail
    <2>5. UNCHANGED <<dir, outcome, linked, litter>> /\ ~linked[c]
      BY <1>5, <1>2 DEF Fail
    <2>6. QED
      BY <1>1, <1>2, <1>5, <2>3, <2>4, <2>5, CallMoves DEF Holding, PublishTypeOK
  <1>6. ASSUME call[c].pc \in {"copy", "sync"}, NEW pc \in {"sync", "link"}, Goto(c, pc),
               NEW f \in Temp, f.by = c, dir' = [dir EXCEPT ![call[c].temp] = f],
               f.bytes = call[c].declared, pc = "link" => f.synced,
               UNCHANGED <<disk, outcome, linked, litter>>
        PROVE  PublicationInv'
    <2>1. call[c] \in Publishing
      BY <1>1, <1>6, CallFields
    <2>2. PICK new : new = [call[c] EXCEPT !.pc = pc]
      OBVIOUS
    <2>3. /\ new \in Publishing /\ new.pc = pc /\ new.temp = call[c].temp
          /\ new.declared = call[c].declared
      BY <2>1, <2>2, <1>6 DEF Publishing
    <2>4. /\ call' = [call EXCEPT ![c] = new] /\ dir' = [dir EXCEPT ![new.temp] = f]
          /\ new.pc \in Holding \ {"unlink"}
          /\ call[c].pc \in Holding \ {"unlink"}
      BY <1>6, <2>2, <2>3 DEF Goto, Holding
    <2>5. QED
      BY <1>6, <2>3, <2>4, CallWrites
  <1>7. CASE CopyVerified(c)
    <2>1. call[c].pc = "copy" /\ UNCHANGED disk
      BY <1>7 DEF CopyVerified, At
    <2>2. CASE Fail(c, "failed")
      BY <1>5, <2>1, <2>2
    <2>3. CASE ~Fail(c, "failed")
      <3>1. /\ call[c].staged = call[c].declared /\ Goto(c, "sync")
            /\ dir' = [dir EXCEPT ![call[c].temp].bytes = call[c].staged]
            /\ UNCHANGED <<outcome, linked, litter>>
        BY <1>7, <2>3 DEF CopyVerified
      <3>2. dir[call[c].temp] \in Temp /\ dir[call[c].temp].by = c
        BY <2>1 DEF PublicationInv, TempInv, Holding
      <3>3. call[c].declared \in Payloads
        BY <1>1, <2>1, CallFields
      <3>4. PICK f : f = [dir[call[c].temp] EXCEPT !.bytes = call[c].staged]
        OBVIOUS
      <3>5. f \in Temp /\ f.by = c /\ f.bytes = call[c].declared
        BY <3>1, <3>2, <3>3, <3>4 DEF Temp
      <3>6. dir' = [dir EXCEPT ![call[c].temp] = f]
        BY <3>1, <3>4
      <3>7. QED
        BY <1>6, <2>1, <3>1, <3>5, <3>6
    <2>4. QED
      BY <2>2, <2>3
  <1>8. CASE SyncTemp(c)
    <2>1. call[c].pc = "sync" /\ UNCHANGED disk
      BY <1>8 DEF SyncTemp, At
    <2>2. CASE Fail(c, "failed")
      BY <1>5, <2>1, <2>2
    <2>3. CASE ~Fail(c, "failed")
      <3>1. /\ Goto(c, "link")
            /\ dir' = [dir EXCEPT ![call[c].temp].synced = TRUE]
            /\ UNCHANGED <<outcome, linked, litter>>
        BY <1>8, <2>3 DEF SyncTemp
      <3>2. /\ dir[call[c].temp] \in Temp /\ dir[call[c].temp].by = c
            /\ dir[call[c].temp].bytes = call[c].declared
        BY <2>1 DEF PublicationInv, TempInv, Holding
      <3>3. PICK f : f = [dir[call[c].temp] EXCEPT !.synced = TRUE]
        OBVIOUS
      <3>4. f \in Temp /\ f.by = c /\ f.bytes = call[c].declared /\ f.synced
        BY <3>2, <3>3 DEF Temp
      <3>5. dir' = [dir EXCEPT ![call[c].temp] = f]
        BY <3>1, <3>3
      <3>6. QED
        BY <1>6, <2>1, <3>1, <3>4, <3>5
    <2>4. QED
      BY <2>2, <2>3
  <1>9. CASE Link(c)
    <2>1. call[c].pc = "link" /\ UNCHANGED disk
      BY <1>9 DEF Link, At
    <2>2. CASE dir' # dir
      BY <1>9, <2>2, CallLinks
    <2>3. CASE Fail(c, "exists") \/ Fail(c, "failed")
      BY <1>5, <2>1, <2>3
    <2>4. CASE dir' = dir /\ ~(Fail(c, "exists") \/ Fail(c, "failed"))
      <3>1. /\ dir[call[c].name] = NoFile
            /\ dir' = [dir EXCEPT ![call[c].name] =
                        [kind |-> "final", bytes |-> dir[call[c].temp].bytes,
                         synced |-> dir[call[c].temp].synced]]
        BY <1>9, <2>4 DEF Link
      <3>2. /\ call[c].name \in Names
            /\ dir[call[c].temp] \in Temp /\ dir[call[c].temp].synced
            /\ dir[call[c].temp].bytes \in Payloads
        BY <1>1, <2>1, CallFields DEF PublicationInv, TempInv, Holding
      <3>3. dir'[call[c].name] \in Final
        BY <3>1, <3>2, <1>1 DEF PublishTypeOK, Final
      <3>4. QED
        BY <2>4, <3>1, <3>3, Kinds
    <2>5. QED
      BY <2>2, <2>3, <2>4
  <1>10. CASE Unlink(c)
    <2>1. /\ call[c].pc = "unlink" /\ RemoveTemp(c) /\ UNCHANGED <<disk, linked>>
          /\ \E r \in {"published", "published and error"} : Return(c, r)
      BY <1>10 DEF Unlink, At
    <2>2. PICK r \in {"published", "published and error"} : Return(c, r)
      BY <2>1
    <2>3. QED
      BY <1>1, <2>1, <2>2, CallReturns DEF Outcome, Holding, PublishTypeOK
  <1>11. CASE Cleanup(c)
    <2>1. /\ call[c].pc = "cleanup" /\ RemoveTemp(c) /\ UNCHANGED <<disk, linked>>
          /\ Return(c, call[c].err)
      BY <1>11 DEF Cleanup, At
    <2>2. PICK r \in {"exists", "failed"} : r = call[c].err
      BY <1>1, <2>1, CallFields
    <2>3. Return(c, r) /\ ~linked[c]
      BY <1>2, <2>1, <2>2
    <2>4. QED
      BY <1>1, <2>1, <2>3, CallReturns DEF Outcome, Holding, PublishTypeOK
  <1>12. QED
    BY <1>3, <1>4, <1>7, <1>8, <1>9, <1>10, <1>11 DEF Step

\* Nobody takes a temporary file away.
LEMMA TakeKeeps ==
    ASSUME PublicationInv, NEW n \in Names, Take(n)
    PROVE  PublicationInv'
  <1>1. /\ PublishTypeOK /\ dir[n] \in Final
        /\ dir' = [dir EXCEPT ![n] = NoFile]
        /\ UNCHANGED <<disk, call, outcome, linked, litter>>
    BY Kinds DEF PublicationInv, Take, PublishTypeOK
  <1>2. /\ dir'[n] = NoFile /\ PublishTypeOK'
        /\ \A m \in Names : m # n => dir'[m] = dir[m]
    BY <1>1 DEF PublishTypeOK
  <1>3. TempInv'
    <2>1. \A c \in Calls : call[c].pc \in Holding =>
             call[c].temp \in Names /\ call[c].temp # n
      BY <1>1, CallFields, Kinds DEF PublicationInv, TempInv, Holding
    <2>2. QED
      BY <1>1, <1>2, <2>1 DEF PublicationInv, TempInv
  <1>4. FinalInv'
    BY <1>1, <1>2, Kinds DEF PublicationInv, FinalInv
  <1>5. LinkedInv'
    BY <1>1 DEF PublicationInv, LinkedInv
  <1>6. NoLitterWithoutFault'
    BY <1>1, <1>2 DEF PublicationInv, NoLitterWithoutFault
  <1>7. QED
    BY <1>2, <1>3, <1>4, <1>5, <1>6 DEF PublicationInv

\* A name settles as the directory has it.
LEMMA SettleKeeps ==
    ASSUME PublicationInv, NEW n \in Names, Settle(n)
    PROVE  PublicationInv'
  <1>1. /\ PublishTypeOK
        /\ disk' = [disk EXCEPT ![n] = dir[n]]
        /\ UNCHANGED <<dir, call, outcome, linked, litter>>
    BY DEF PublicationInv, Settle
  <1>2. PublishTypeOK' /\ \A m \in Names : disk'[m] \in {disk[m], dir[m]}
    BY <1>1 DEF PublishTypeOK
  <1>3. FinalInv'
    <2>1. SUFFICES ASSUME NEW m \in Names
                   PROVE  /\ dir[m] \in Final => dir[m].synced /\ dir[m].bytes \in Payloads
                          /\ disk'[m] \in Final => disk'[m].synced /\ disk'[m].bytes \in Payloads
      BY <1>1 DEF FinalInv
    <2>2. QED
      BY <1>2 DEF PublicationInv, FinalInv
  <1>4. TempInv' /\ LinkedInv' /\ NoLitterWithoutFault'
    BY <1>1 DEF PublicationInv, TempInv, LinkedInv, NoLitterWithoutFault
  <1>5. QED
    BY <1>2, <1>3, <1>4 DEF PublicationInv

\* After a stop no call is under way, and every temporary file is litter.
LEMMA StopKeeps ==
    ASSUME PublicationInv, Crash \/ PowerLoss
    PROVE  PublicationInv'
  <1>1. /\ PublishTypeOK /\ UNCHANGED disk
        /\ call' = [c \in Calls |-> NoCall]
        /\ outcome' = [c \in Calls |-> "none"]
        /\ linked' = [c \in Calls |-> FALSE]
        /\ litter' = {n \in Names : dir'[n] # NoFile /\ dir'[n].kind = "temp"}
    BY DEF PublicationInv, Crash, PowerLoss, Stops
  <1>2. /\ dir' \in [Names -> File \cup {NoFile}]
        /\ \A n \in Names : dir'[n] \in Final => dir'[n].synced /\ dir'[n].bytes \in Payloads
    <2>1. CASE UNCHANGED dir
      BY <1>1, <2>1 DEF PublishTypeOK, PublicationInv, FinalInv
    <2>2. CASE dir' = [n \in Names |-> Left(disk[n])]
      <3>1. ASSUME NEW n \in Names
            PROVE  /\ Left(disk[n]) \in File \cup {NoFile}
                   /\ Left(disk[n]) \in Final =>
                         Left(disk[n]).synced /\ Left(disk[n]).bytes \in Payloads
        <4>1. CASE disk[n] = NoFile
          BY <4>1, Kinds DEF Left
        <4>2. CASE disk[n] \in Final
          BY <4>2, <3>1 DEF Left, PublicationInv, FinalInv, File
        <4>3. CASE disk[n] \in Temp
          <5>1. Left(disk[n]) \in Temp
            BY <4>3, Kinds DEF Left, Temp
          <5>2. QED
            BY <5>1, Kinds DEF File
        <4>4. QED
          BY <4>1, <4>2, <4>3, <1>1, <3>1 DEF PublishTypeOK, File
      <3>2. QED
        BY <2>2, <3>1
    <2>3. QED
      BY <2>1, <2>2 DEF Crash, PowerLoss
  <1>3. \A c \in Calls : call'[c] = NoCall /\ call'[c].pc = "idle"
    BY <1>1 DEF NoCall
  <1>4. PublishTypeOK'
    BY <1>1, <1>2 DEF PublishTypeOK, Outcome
  <1>5. TempInv'
    BY <1>3 DEF TempInv, Holding
  <1>6. FinalInv'
    BY <1>1, <1>2 DEF PublicationInv, FinalInv
  <1>7. LinkedInv' /\ NoLitterWithoutFault'
    BY <1>1, <1>3 DEF LinkedInv, NoLitterWithoutFault
  <1>8. QED
    BY <1>4, <1>5, <1>6, <1>7 DEF PublicationInv

\* Every step keeps the invariant.
LEMMA PublicationStep == PublicationInv /\ [PublishNext]_publishVars => PublicationInv'
  <1> SUFFICES ASSUME PublicationInv, [PublishNext]_publishVars PROVE PublicationInv'
    OBVIOUS
  <1>1. CASE UNCHANGED publishVars
    BY <1>1 DEF publishVars, PublicationInv, PublishTypeOK, TempInv, FinalInv, LinkedInv,
                NoLitterWithoutFault
  <1>2. CASE PublishNext
    BY <1>2, StepKeeps, TakeKeeps, SettleKeeps, StopKeeps DEF PublishNext
  <1>3. QED
    BY <1>1, <1>2

\* Types, own files, results and litter: the invariant holds in every state.
THEOREM PublicationInvariant == PublishSpec => []PublicationInv
  BY PublicationInit, PublicationStep, PTL DEF PublishSpec

-----------------------------------------------------------------------------
(* The properties.                                                         *)

\* Type correctness of publication.
THEOREM PublicationTyped == PublishSpec => []PublishTypeOK
  <1>1. PublicationInv => PublishTypeOK
    BY DEF PublicationInv
  <1>2. QED
    BY <1>1, PublicationInvariant, PTL

\* No call loses its temporary file to another call or to a reader.
THEOREM TempsAreKept == PublishSpec => []KeepsItsTemp
  <1>1. PublicationInv => KeepsItsTemp
    BY Kinds DEF PublicationInv, TempInv, KeepsItsTemp, Owns, Holding
  <1>2. QED
    BY <1>1, PublicationInvariant, PTL

\* An error that comes without a result means that nothing was published.
THEOREM ErrorsAreHonest == PublishSpec => []ErrorAloneMeansNotPublished
  <1>1. PublicationInv => ErrorAloneMeansNotPublished
    <2> SUFFICES ASSUME PublicationInv, NEW c \in Calls,
                        outcome[c] \in {"exists", "failed"}, linked[c]
                 PROVE  FALSE
      BY DEF ErrorAloneMeansNotPublished
    <2>1. call[c].pc = "unlink"
      BY DEF PublicationInv, LinkedInv
    <2>2. call[c] # NoCall
      BY <2>1, CallFields DEF PublicationInv
    <2>3. QED
      BY <2>2 DEF PublicationInv, LinkedInv
  <1>2. QED
    BY <1>1, PublicationInvariant, PTL

\* Temporary files are left behind only by a failed removal or a stop.
THEOREM LitterHasACause == PublishSpec => []NoLitterWithoutFault
  <1>1. PublicationInv => NoLitterWithoutFault
    BY DEF PublicationInv
  <1>2. QED
    BY <1>1, PublicationInvariant, PTL

-----------------------------------------------------------------------------
(* The refinement.                                                         *)

\* A file that is not final is not on the shelf; a final one survives a loss of
\* power as it is.
LEMMA WhatIsPublished ==
    ASSUME PublicationInv, NEW n \in Names
    PROVE  /\ Published(dir[n]) \in Payloads \cup {NoFile}
           /\ Published(dir[n]) = NoFile <=> dir[n] \notin Final
           /\ dir[n] \in Final => Published(dir[n]) = dir[n].bytes
           /\ Published(Left(dir[n])) = Published(dir[n])
           /\ Published(Left(Left(disk[n]))) = Published(Left(disk[n]))
  <1>1. dir[n] \in File \cup {NoFile} /\ disk[n] \in File \cup {NoFile}
    BY DEF PublicationInv, PublishTypeOK
  <1>2. NoFile \notin Payloads
    BY PublicationAssumption
  <1>3. dir[n] \in Final => dir[n].synced /\ dir[n].bytes \in Payloads
    BY DEF PublicationInv, FinalInv
  <1>4. \A f \in File \cup {NoFile} : Left(Left(f)) = Left(f)
    BY DEF Left, File, Temp, Final
  <1>5. dir[n] \in Temp => Published(Left(dir[n])) = NoFile /\ Published(dir[n]) = NoFile
    <2>1. ASSUME dir[n] \in Temp
          PROVE  Left(dir[n]) \in Temp
      BY <2>1, Kinds DEF Left, Temp
    <2>2. QED
      BY <2>1, Kinds DEF Published
  <1>6. dir[n] \in Final => Left(dir[n]) = dir[n] /\ Published(dir[n]) = dir[n].bytes
    BY <1>3, Kinds DEF Left, Published
  <1>7. dir[n] = NoFile => Left(dir[n]) = NoFile /\ Published(NoFile) = NoFile
    BY DEF Left, Published
  <1>8. QED
    BY <1>1, <1>2, <1>3, <1>4, <1>5, <1>6, <1>7, Kinds DEF File

\* A directory that holds whole files is a shelf.
LEMMA ShelfStarts == PublishInit => Shelf!ShelfInit
  <1> SUFFICES ASSUME PublishInit PROVE Shelf!ShelfInit
    OBVIOUS
  <1>1. PublicationInv
    BY PublicationInit
  <1>2. Visible \in [Names -> Payloads \cup {NoFile}]
    BY <1>1, WhatIsPublished DEF Visible
  <1>3. Lasting = Visible
    BY <1>1, WhatIsPublished DEF PublishInit, Lasting, Visible
  <1>4. QED
    BY <1>2, <1>3 DEF Shelf!ShelfInit

\* A call's steps show only what it links.
LEMMA StepsShow ==
    ASSUME PublicationInv, NEW c \in Calls, Step(c)
    PROVE  /\ Lasting' = Lasting
           /\ \/ Visible' = Visible
              \/ /\ call[c].pc = "link" /\ call[c].name \in Names
                 /\ call[c].declared \in Payloads
                 /\ dir[call[c].name] = NoFile
                 /\ Published(dir[call[c].name]) = NoFile
                 /\ Visible' = [Visible EXCEPT ![call[c].name] = call[c].declared]
  <1>1. PublishTypeOK /\ PublicationInv'
    BY StepKeeps DEF PublicationInv
  <1>2. Lasting' = Lasting
    <2>1. UNCHANGED disk
      BY DEF Step, Publish, CreateTemp, CopyVerified, SyncTemp, Link, Unlink, Cleanup
    <2>2. QED
      BY <2>1 DEF Lasting
  <1>3. ASSUME UNCHANGED dir
        PROVE  Visible' = Visible
    BY <1>3 DEF Visible
  <1>4. ASSUME NEW t \in Names, \A n \in Names : n # t => dir'[n] = dir[n],
               dir[t] \notin Final, dir'[t] \notin Final
        PROVE  Visible' = Visible
    <2>1. ASSUME NEW n \in Names
          PROVE  Published(dir'[n]) = Published(dir[n])
      <3>1. CASE n # t
        BY <1>4, <3>1
      <3>2. CASE n = t
        <4>1. dir'[t] \in File \cup {NoFile}
          BY <1>1 DEF PublicationInv, PublishTypeOK
        <4>2. Published(dir'[t]) = NoFile
          BY <1>4, <4>1, Kinds DEF Published, File
        <4>3. QED
          BY <1>4, <3>2, <4>2, WhatIsPublished
      <3>3. QED
        BY <3>1, <3>2
    <2>2. QED
      BY <2>1 DEF Visible
  <1>5. ASSUME call[c].pc \in Holding, NEW f,
               dir' = [dir EXCEPT ![call[c].temp] = f], f \notin Final
        PROVE  Visible' = Visible
    <2>1. call[c].temp \in Names /\ dir[call[c].temp] \in Temp
      BY <1>1, <1>5, CallFields DEF PublicationInv, TempInv, Holding
    <2>2. PICK t \in Names : t = call[c].temp
      BY <2>1
    <2>3. dir'[t] = f /\ \A n \in Names : n # t => dir'[n] = dir[n]
      BY <1>1, <1>5, <2>2 DEF PublishTypeOK
    <2>4. QED
      BY <1>4, <1>5, <2>1, <2>2, <2>3, Kinds
  <1>6. CASE Publish(c)
    BY <1>2, <1>3, <1>6 DEF Publish
  <1>7. CASE CreateTemp(c)
    <2>1. CASE UNCHANGED dir
      BY <1>2, <1>3, <2>1
    <2>2. CASE ~UNCHANGED dir
      <3>1. PICK t \in TempNames :
              /\ dir[t] = NoFile
              /\ dir' = [dir EXCEPT ![t] = [kind |-> "temp", bytes |-> Partial,
                                            synced |-> FALSE, by |-> c]]
        BY <1>7, <2>2 DEF CreateTemp
      <3>2. t \in Names
        BY PublicationAssumption
      <3>3. /\ dir'[t] \in Temp /\ \A n \in Names : n # t => dir'[n] = dir[n]
        BY <1>1, <3>1, <3>2 DEF PublishTypeOK, Temp
      <3>4. QED
        BY <1>2, <1>4, <3>1, <3>2, <3>3, Kinds
    <2>3. QED
      BY <2>1, <2>2
  <1>8. ASSUME RemoveTemp(c), call[c].pc \in Holding
        PROVE  Visible' = Visible
    <2>1. CASE UNCHANGED dir
      BY <1>3, <2>1
    <2>2. CASE dir' = [dir EXCEPT ![call[c].temp] = NoFile]
      BY <1>5, <1>8, <2>2, Kinds
    <2>3. QED
      BY <1>8, <2>1, <2>2 DEF RemoveTemp
  <1>9. CASE CopyVerified(c)
    <2>1. call[c].pc = "copy" /\ dir[call[c].temp] \in Temp
      BY <1>9 DEF CopyVerified, At, PublicationInv, TempInv, Holding
    <2>2. CASE UNCHANGED dir
      BY <1>2, <1>3, <2>2
    <2>3. CASE dir' = [dir EXCEPT ![call[c].temp].bytes = call[c].staged]
      <3>1. PICK f : f = [dir[call[c].temp] EXCEPT !.bytes = call[c].staged]
        OBVIOUS
      <3>2. f \notin Final
        BY <2>1, <3>1 DEF Temp, Final
      <3>3. dir' = [dir EXCEPT ![call[c].temp] = f]
        BY <2>3, <3>1
      <3>4. QED
        BY <1>2, <1>5, <2>1, <3>2, <3>3 DEF Holding
    <2>4. QED
      BY <1>9, <2>2, <2>3 DEF CopyVerified, Fail
  <1>10. CASE SyncTemp(c)
    <2>1. call[c].pc = "sync" /\ dir[call[c].temp] \in Temp
      BY <1>10 DEF SyncTemp, At, PublicationInv, TempInv, Holding
    <2>2. CASE UNCHANGED dir
      BY <1>2, <1>3, <2>2
    <2>3. CASE dir' = [dir EXCEPT ![call[c].temp].synced = TRUE]
      <3>1. PICK f : f = [dir[call[c].temp] EXCEPT !.synced = TRUE]
        OBVIOUS
      <3>2. f \notin Final
        BY <2>1, <3>1 DEF Temp, Final
      <3>3. dir' = [dir EXCEPT ![call[c].temp] = f]
        BY <2>3, <3>1
      <3>4. QED
        BY <1>2, <1>5, <2>1, <3>2, <3>3 DEF Holding
    <2>4. QED
      BY <1>10, <2>2, <2>3 DEF SyncTemp, Fail
  <1>11. CASE Link(c)
    <2>1. call[c].pc = "link"
      BY <1>11 DEF Link, At
    <2>2. CASE UNCHANGED dir
      BY <1>2, <1>3, <2>2
    <2>3. CASE ~UNCHANGED dir
      <3>1. PICK n \in Names, p \in Payloads : n = call[c].name /\ p = call[c].declared
        BY <1>1, <2>1, CallFields
      <3>2. PICK g : g = [kind |-> "final", bytes |-> dir[call[c].temp].bytes,
                          synced |-> dir[call[c].temp].synced]
        OBVIOUS
      <3>3. dir[n] = NoFile /\ dir' = [dir EXCEPT ![n] = g]
        BY <1>11, <2>3, <3>1, <3>2 DEF Link, Fail
      <3>4. g.kind = "final" /\ g.bytes = p
        BY <2>1, <3>1, <3>2 DEF PublicationInv, TempInv, Holding
      <3>5. dir'[n] = g /\ \A m \in Names : m # n => dir'[m] = dir[m]
        BY <1>1, <3>3 DEF PublishTypeOK
      <3>6. g # NoFile
        <4>1. dir[call[c].temp] \in Temp
          BY <2>1 DEF PublicationInv, TempInv, Holding
        <4>2. g \in Final
          BY <3>2, <4>1, Kinds DEF Final
        <4>3. QED
          BY <4>2, Kinds
      <3>7. Published(g) = p
        BY <3>4, <3>6 DEF Published
      <3>8. Published(dir[n]) = NoFile
        BY <3>3 DEF Published
      <3>9. Visible' = [Visible EXCEPT ![n] = p]
        BY <3>5, <3>7 DEF Visible
      <3>10. QED
        BY <1>2, <2>1, <3>1, <3>3, <3>8, <3>9
    <2>4. QED
      BY <2>2, <2>3
  <1>12. CASE Unlink(c)
    BY <1>2, <1>8, <1>12 DEF Unlink, At, Holding
  <1>13. CASE Cleanup(c)
    BY <1>2, <1>8, <1>13 DEF Cleanup, At, Holding
  <1>14. QED
    BY <1>6, <1>7, <1>9, <1>10, <1>11, <1>12, <1>13 DEF Step

\* Every step is one of a shelf, or shows nothing.
LEMMA ShelfSteps ==
    ASSUME PublicationInv, [PublishNext]_publishVars
    PROVE  [Shelf!ShelfNext]_(Shelf!shelfVars)
  <1>1. PublishTypeOK
    BY DEF PublicationInv
  <1>2. CASE UNCHANGED publishVars
    BY <1>2 DEF publishVars, Shelf!shelfVars, Visible, Lasting
  <1>3. ASSUME NEW c \in Calls, Step(c)
        PROVE  [Shelf!ShelfNext]_(Shelf!shelfVars)
    <2>1. CASE Visible' = Visible /\ Lasting' = Lasting
      BY <2>1 DEF Shelf!shelfVars
    <2>2. CASE ~(Visible' = Visible /\ Lasting' = Lasting)
      <3>1. PICK n \in Names, p \in Payloads : n = call[c].name /\ p = call[c].declared
        BY <1>3, <2>2, StepsShow
      <3>2. /\ Lasting' = Lasting /\ Visible' = [Visible EXCEPT ![n] = p]
            /\ Published(dir[n]) = NoFile
        BY <1>3, <2>2, <3>1, StepsShow
      <3>3. Visible[n] = NoFile
        BY <3>2 DEF Visible
      <3>4. Shelf!Put(n, p)
        BY <3>2, <3>3 DEF Shelf!Put
      <3>5. QED
        BY <3>4 DEF Shelf!ShelfNext
    <2>3. QED
      BY <2>1, <2>2
  <1>4. ASSUME NEW n \in Names, Take(n)
        PROVE  [Shelf!ShelfNext]_(Shelf!shelfVars)
    <2>1. /\ dir'[n] = NoFile /\ UNCHANGED disk
          /\ \A m \in Names : m # n => dir'[m] = dir[m]
      BY <1>1, <1>4 DEF Take, PublishTypeOK
    <2>2. Visible' = [Visible EXCEPT ![n] = NoFile] /\ Lasting' = Lasting
      BY <2>1 DEF Visible, Lasting, Published
    <2>3. Shelf!Take(n)
      BY <2>2 DEF Shelf!Take
    <2>4. QED
      BY <2>3 DEF Shelf!ShelfNext
  <1>5. ASSUME NEW n \in Names, Settle(n)
        PROVE  [Shelf!ShelfNext]_(Shelf!shelfVars)
    <2>1. /\ disk'[n] = dir[n] /\ UNCHANGED dir
          /\ \A m \in Names : m # n => disk'[m] = disk[m]
      BY <1>1, <1>5 DEF Settle, PublishTypeOK
    <2>2. Published(Left(dir[n])) = Published(dir[n])
      BY WhatIsPublished
    <2>3. Visible' = Visible /\ Lasting' = [Lasting EXCEPT ![n] = Visible[n]]
      BY <2>1, <2>2 DEF Visible, Lasting
    <2>4. Shelf!Settle(n)
      BY <2>3 DEF Shelf!Settle
    <2>5. QED
      BY <2>4 DEF Shelf!ShelfNext
  <1>6. CASE Crash
    BY <1>6 DEF Crash, Shelf!shelfVars, Visible, Lasting
  <1>7. CASE PowerLoss
    <2>1. dir' = [n \in Names |-> Left(disk[n])] /\ UNCHANGED disk
      BY <1>7 DEF PowerLoss
    <2>2. Visible' = Lasting /\ Lasting' = Lasting
      BY <2>1 DEF Visible, Lasting
    <2>3. Shelf!LosePower
      BY <2>2 DEF Shelf!LosePower
    <2>4. QED
      BY <2>3 DEF Shelf!ShelfNext
  <1>8. QED
    BY <1>2, <1>3, <1>4, <1>5, <1>6, <1>7 DEF PublishNext

\* Whoever reads the directory sees files appear at once and whole, never in
\* place of another, and go only by being taken or with a loss of power.
THEOREM PublicationImplementsShelf == PublishSpec => IsAShelf
  BY ShelfStarts, ShelfSteps, PublicationInvariant, PTL
     DEF PublishSpec, IsAShelf, Shelf!ShelfSpec

\* What appears is what the linking call's offer declared, or comes back from
\* the disk.
THEOREM OfferedIsPublished == PublishSpec => PublishesTheOffered
  <1> DEFINE A == \A n \in Names :
                    dir[n] = NoFile /\ dir'[n] # NoFile /\ dir'[n].kind = "final" =>
                      \/ \E c \in Calls : /\ At(c, "link") /\ call[c].name = n
                                          /\ dir'[n].bytes = call[c].declared
                      \/ dir'[n] = Left(disk[n])
  <1>1. PublicationInv /\ PublicationInv' /\ [PublishNext]_publishVars => [A]_publishVars
    <2> SUFFICES ASSUME PublicationInv, PublicationInv', PublishNext, NEW n \in Names,
                        dir[n] = NoFile, dir'[n] # NoFile, dir'[n].kind = "final"
                 PROVE  \/ \E c \in Calls : /\ At(c, "link") /\ call[c].name = n
                                            /\ dir'[n].bytes = call[c].declared
                        \/ dir'[n] = Left(disk[n])
      OBVIOUS
    <2>1. PublishTypeOK
      BY DEF PublicationInv
    <2>2. CASE PowerLoss
      BY <2>2 DEF PowerLoss
    <2>3. Crash => FALSE
      BY DEF Crash
    <2>4. ASSUME NEW m \in Names, Take(m) \/ Settle(m)
          PROVE  FALSE
      BY <2>1, <2>4 DEF Take, Settle, PublishTypeOK
    <2>5. ASSUME NEW c \in Calls, Step(c)
          PROVE  At(c, "link") /\ call[c].name = n /\ dir'[n].bytes = call[c].declared
      <3>1. dir'[n] \in Final
        BY Kinds DEF PublicationInv, PublishTypeOK
      <3>2. Published(dir'[n]) = dir'[n].bytes /\ dir'[n].bytes \in Payloads
        BY <3>1, Kinds DEF Published, PublicationInv, FinalInv
      <3>3. Published(dir[n]) = NoFile
        BY DEF Published
      <3>4. Published(dir'[n]) # Published(dir[n])
        BY <3>2, <3>3, PublicationAssumption
      <3>5. Visible' # Visible
        BY <3>4 DEF Visible
      <3>6. PICK k \in Names, p \in Payloads : k = call[c].name /\ p = call[c].declared
        BY <2>5, <3>5, StepsShow
      <3>7. call[c].pc = "link" /\ Visible' = [Visible EXCEPT ![k] = p]
        BY <2>5, <3>5, <3>6, StepsShow
      <3>8. Visible[n] = Published(dir[n]) /\ Visible'[n] = Published(dir'[n])
        BY DEF Visible
      <3>9. n = k
        BY <3>4, <3>7, <3>8
      <3>10. Visible'[n] = p
        BY <3>7, <3>9 DEF Visible
      <3>11. QED
        BY <3>2, <3>6, <3>7, <3>8, <3>9, <3>10 DEF At
    <2>6. QED
      BY <2>2, <2>3, <2>4, <2>5 DEF PublishNext
  <1>2. QED
    BY <1>1, PublicationInvariant, PTL DEF PublishSpec, PublishesTheOffered

-----------------------------------------------------------------------------
(* DeviceKeys.                                                             *)

\* A stored key is none of the values that stand for something else.
LEMMA StoredFields ==
    ASSUME NEW s \in Stored
    PROVE  /\ s # NoKeyFile /\ s # Torn /\ s # NoClaim
           /\ s.device \in Owners /\ s.key \in KeyPairs /\ s.sealed \in KeyPairs
           /\ s.created \in 1 .. LastInstant /\ s.rotated \in 0 .. LastInstant
  <1>1. s # NoKeyFile /\ s # Torn
    BY NoFileAssumption
  <1>2. s # NoClaim
    BY DEF Stored, NoClaim
  <1>3. QED
    BY <1>1, <1>2 DEF Stored

\* A goroutine that calls is told from one that does not by its record.
LEMMA CallerFields ==
    ASSUME CallsSound, NEW c \in Callers
    PROVE  /\ caller[c] = NotCalled <=> caller[c].pc = "idle"
           /\ caller[c] # NotCalled =>
                /\ caller[c] \in Writing
                /\ caller[c].stored \in Stored
                /\ caller[c].at \in 1 .. LastInstant
                /\ caller[c].op \in {"save", "rotate", "mark"}
                /\ caller[c].pc \in {"write", "rename"}
  <1>1. caller[c] \in {NotCalled} \cup Writing
    BY DEF CallsSound
  <1>2. NotCalled.pc = "idle"
    BY DEF NotCalled
  <1>3. QED
    BY <1>1, <1>2 DEF Writing

\* There is no file and no call at first.
LEMMA KeysInitially == KeysInit => KeysInv
  <1> SUFFICES ASSUME KeysInit PROVE KeysInv
    OBVIOUS
  <1>1. FilesSound
    BY DEF KeysInit, FilesSound
  <1>2. CallsSound
    BY DEF KeysInit, CallsSound
  <1>3. ClaimHolds
    BY DEF KeysInit, ClaimHolds
  <1>4. QED
    BY <1>1, <1>2, <1>3 DEF KeysInv

\* A call begins: it seals what it is to write, and a rotation is asked for.
LEMMA CallBegins ==
    ASSUME KeysInv, NEW c \in Callers, caller[c] = NotCalled,
           NEW op \in {"save", "rotate"}, NEW s \in Stored, NEW at \in 1 .. LastInstant,
           s.sealed = s.key, s.rotated = 0,
           Begin(c, op, s, at)
    PROVE  KeysInv'
  <1> DEFINE new == [pc |-> "write", op |-> op, stored |-> s, at |-> at]
  <1>1. /\ caller' = [caller EXCEPT ![c] = new]
        /\ UNCHANGED <<file, onDisk>> /\ claim' = NoClaim
        /\ asked \subseteq asked'
        /\ op = "rotate" => Rotation(s, at) \in asked'
    BY DEF Begin, Rotation
  <1>2. FilesSound'
    BY <1>1 DEF KeysInv, FilesSound, Sound
  <1>3. new \in Writing
    BY DEF Writing
  <1>4. CallsSound'
    <2>1. caller' \in [Callers -> {NotCalled} \cup Writing]
      BY <1>1, <1>3 DEF KeysInv, CallsSound
    <2>2. /\ caller'[c] = new
          /\ \A d \in Callers : d # c => caller'[d] = caller[d]
      BY <1>1 DEF KeysInv, CallsSound
    <2>3. QED
      BY <1>1, <2>1, <2>2 DEF KeysInv, CallsSound
  <1>5. ClaimHolds'
    BY <1>1 DEF ClaimHolds
  <1>6. QED
    BY <1>2, <1>4, <1>5 DEF KeysInv

\* A call fails and leaves the file alone.
LEMMA CallFails ==
    ASSUME KeysInv, NEW c \in Callers, FailWrite(c)
    PROVE  KeysInv'
  <1>1. /\ caller' = [caller EXCEPT ![c] = NotCalled]
        /\ UNCHANGED <<file, onDisk, asked, claim>>
    BY DEF FailWrite
  <1>2. FilesSound' /\ ClaimHolds'
    BY <1>1 DEF KeysInv, FilesSound, Sound, ClaimHolds, CallsSound
  <1>3. CallsSound'
    BY <1>1 DEF KeysInv, CallsSound
  <1>4. QED
    BY <1>2, <1>3 DEF KeysInv

\* The sealed key goes to the temporary file, which no reader opens.
LEMMA WriteTempKeeps ==
    ASSUME KeysInv, NEW c \in Callers, WriteTemp(c)
    PROVE  KeysInv'
  <1>1. CASE FailWrite(c)
    BY <1>1, CallFails
  <1>2. CASE /\ Valid(caller[c].stored)
             /\ caller' = [caller EXCEPT ![c].pc = "rename"]
             /\ UNCHANGED <<file, onDisk, asked, claim>>
    <2>1. caller[c] # NotCalled
      BY DEF WriteTemp, NotCalled
    <2>2. caller[c] \in Writing
      BY <2>1, CallerFields DEF KeysInv
    <2>3. /\ caller'[c] = [caller[c] EXCEPT !.pc = "rename"]
          /\ \A d \in Callers : d # c => caller'[d] = caller[d]
      BY <1>2 DEF KeysInv, CallsSound
    <2>4. /\ caller'[c] \in Writing
          /\ caller'[c].stored = caller[c].stored /\ caller'[c].at = caller[c].at
          /\ caller'[c].op = caller[c].op
      BY <2>2, <2>3 DEF Writing
    <2>5. caller' \in [Callers -> {NotCalled} \cup Writing]
      BY <1>2, <2>3, <2>4 DEF KeysInv, CallsSound
    <2>6. CallsSound'
      BY <1>2, <2>1, <2>3, <2>4, <2>5 DEF KeysInv, CallsSound
    <2>7. FilesSound'
      BY <1>2 DEF KeysInv, FilesSound, Sound
    <2>8. ClaimHolds'
      BY <1>2, <2>1 DEF KeysInv, ClaimHolds
    <2>9. QED
      BY <2>6, <2>7, <2>8 DEF KeysInv
  <1>3. QED
    BY <1>1, <1>2 DEF WriteTemp

\* What a call renames is a sound file.
LEMMA RenamesSound ==
    ASSUME KeysInv, NEW c \in Callers, caller[c].pc = "rename"
    PROVE  Sound(caller[c].stored)
  <1>1. caller[c] # NotCalled
    BY DEF NotCalled
  <1>2. /\ caller[c].stored \in Stored
        /\ caller[c].op \in {"save", "rotate", "mark"}
        /\ caller[c].at \in 1 .. LastInstant
    BY <1>1, CallerFields DEF KeysInv
  <1>3. Loadable(caller[c].stored)
    BY <1>1, <1>2, StoredFields DEF KeysInv, CallsSound, Loadable
  <1>4. QED
    BY <1>1, <1>2, <1>3 DEF KeysInv, CallsSound, Sound

\* The file is replaced, and those that a power failure may leave are among it
\* and the earlier ones.
LEMMA RenameKeeps ==
    ASSUME KeysInv, NEW c \in Callers, Rename(c)
    PROVE  KeysInv'
  <1> DEFINE s == caller[c].stored
  <1>1. CASE FailWrite(c)
    BY <1>1, CallFails
  <1>2. CASE /\ file' = s
             /\ onDisk' \in OnDiskAfter(file')
             /\ IF caller[c].op = "rotate"
                THEN /\ caller' = [caller EXCEPT ![c] =
                          [pc |-> "write", op |-> "mark",
                           stored |-> Recorded(c), at |-> caller[c].at]]
                     /\ UNCHANGED claim
                ELSE ReturnFile(c, file')
             /\ UNCHANGED asked
    <2>1. caller[c] # NotCalled /\ caller[c].pc = "rename"
      BY DEF Rename, NotCalled
    <2>2. /\ s \in Stored /\ caller[c].at \in 1 .. LastInstant
          /\ caller[c].op \in {"save", "rotate", "mark"}
      BY <2>1, CallerFields DEF KeysInv
    <2>3. onDisk' \subseteq {s} \cup onDisk
      BY <1>2 DEF OnDiskAfter, Synced
    <2>4. FilesSound'
      <3>1. Sound(s)
        BY <2>1, RenamesSound
      <3>2. QED
        BY <1>2, <2>3, <3>1 DEF KeysInv, FilesSound, Sound
    <2>5. claim = NoClaim
      BY <2>1 DEF KeysInv, ClaimHolds
    <2>6. CASE caller[c].op = "rotate"
      <3> DEFINE new == [pc |-> "write", op |-> "mark",
                         stored |-> Recorded(c), at |-> caller[c].at]
      <3>1. /\ Recorded(c) \in Stored
            /\ Recorded(c).device = s.device /\ Recorded(c).key = s.key
            /\ Recorded(c).sealed = s.sealed
            /\ Recorded(c).rotated = caller[c].at
        BY <2>2 DEF Recorded, Stored
      <3>2. new \in Writing
        BY <2>2, <3>1 DEF Writing
      <3>3. /\ caller'[c] = new
            /\ \A d \in Callers : d # c => caller'[d] = caller[d]
            /\ caller' \in [Callers -> {NotCalled} \cup Writing]
        BY <1>2, <2>6, <3>2 DEF KeysInv, CallsSound
      <3>4. Rotation(Recorded(c), caller[c].at) \in asked /\ s.sealed = s.key
        BY <2>1, <2>6, <3>1 DEF KeysInv, CallsSound, Rotation
      <3>5. CallsSound'
        BY <1>2, <3>1, <3>3, <3>4 DEF KeysInv, CallsSound
      <3>6. ClaimHolds'
        BY <1>2, <2>5, <2>6 DEF ClaimHolds
      <3>7. QED
        BY <2>4, <3>5, <3>6 DEF KeysInv
    <2>7. CASE caller[c].op # "rotate"
      <3>1. /\ caller' = [caller EXCEPT ![c] = NotCalled]
            /\ claim' = IF \A o \in Callers \ {c} : caller[o] = NotCalled
                        THEN file' ELSE NoClaim
        BY <1>2, <2>7 DEF ReturnFile
      <3>2. CallsSound'
        BY <1>2, <3>1 DEF KeysInv, CallsSound
      <3>3. ClaimHolds'
        BY <3>1 DEF KeysInv, CallsSound, ClaimHolds
      <3>4. QED
        BY <2>4, <3>2, <3>3 DEF KeysInv
    <2>8. QED
      BY <2>6, <2>7
  <1>3. QED
    BY <1>1, <1>2 DEF Rename

\* Every call ends where it is; after a power failure the file is one of those
\* that may be left.
LEMMA EndsKeep ==
    ASSUME KeysInv, Stop \/ KeyPowerLoss
    PROVE  KeysInv'
  <1>1. /\ CallsSound'
        /\ \A c \in Callers : caller'[c] = NotCalled
    BY DEF Stop, KeyPowerLoss, CutShort, CallsSound
  <1>2. FilesSound'
    BY DEF KeysInv, Stop, KeyPowerLoss, FilesSound, Sound
  <1>3. ClaimHolds'
    BY <1>1 DEF KeysInv, Stop, KeyPowerLoss, ClaimHolds
  <1>4. QED
    BY <1>1, <1>2, <1>3 DEF KeysInv

\* A rotation keeps what the present file says of the device and its creation.
LEMMA BeginningsKeep ==
    ASSUME KeysInv, NEW c \in Callers, SaveKey(c) \/ Rotate(c)
    PROVE  KeysInv'
  <1>1. CASE SaveKey(c)
    <2>1. PICK d \in Owners, k \in KeyPairs, at \in 1 .. LastInstant :
             Begin(c, "save", [device |-> d, key |-> k, sealed |-> k,
                               created |-> at, rotated |-> 0], at)
      BY <1>1 DEF SaveKey
    <2> DEFINE s == [device |-> d, key |-> k, sealed |-> k,
                     created |-> at, rotated |-> 0]
    <2>2. s \in Stored /\ s.sealed = s.key /\ s.rotated = 0
      BY KeysAssumption DEF Stored
    <2>3. caller[c] = NotCalled
      BY <1>1 DEF SaveKey
    <2>4. QED
      BY <2>1, <2>2, <2>3, CallBegins
  <1>2. CASE Rotate(c)
    <2>1. PICK k \in KeyPairs, at \in 1 .. LastInstant :
             Begin(c, "rotate", [device |-> file.device, key |-> k, sealed |-> k,
                                 created |-> file.created, rotated |-> 0], at)
      BY <1>2 DEF Rotate
    <2> DEFINE s == [device |-> file.device, key |-> k, sealed |-> k,
                     created |-> file.created, rotated |-> 0]
    <2>2. file \in Stored
      BY <1>2 DEF Rotate, Loadable, KeysInv, FilesSound, Sound
    <2>3. s \in Stored /\ s.sealed = s.key /\ s.rotated = 0
      BY <2>2, KeysAssumption DEF Stored
    <2>4. caller[c] = NotCalled
      BY <1>2 DEF Rotate
    <2>5. QED
      BY <2>1, <2>3, <2>4, CallBegins
  <1>3. QED
    BY <1>1, <1>2

\* The invariant of the key store holds in every reachable state.
LEMMA KeysInvariant == KeysSpec => []KeysInv
  <1>1. KeysInv /\ [KeysNext]_keysVars => KeysInv'
    <2> SUFFICES ASSUME KeysInv, [KeysNext]_keysVars PROVE KeysInv'
      OBVIOUS
    <2>1. ASSUME NEW c \in Callers, SaveKey(c) \/ Rotate(c) PROVE KeysInv'
      BY <2>1, BeginningsKeep
    <2>2. ASSUME NEW c \in Callers, WriteTemp(c) PROVE KeysInv'
      BY <2>2, WriteTempKeeps
    <2>3. ASSUME NEW c \in Callers, Rename(c) PROVE KeysInv'
      BY <2>3, RenameKeeps
    <2>4. CASE Stop \/ KeyPowerLoss
      BY <2>4, EndsKeep
    <2>5. CASE UNCHANGED keysVars
      BY <2>5 DEF keysVars, KeysInv, FilesSound, Sound, CallsSound, ClaimHolds
    <2>6. QED
      BY <2>1, <2>2, <2>3, <2>4, <2>5 DEF KeysNext
  <1>2. QED
    BY <1>1, KeysInitially, PTL DEF KeysSpec

\* Whatever calls overlap and whatever power failures bring back, a recorded
\* rotation is one that was asked for, and an undisturbed call's answer is what
\* the file holds.
THEOREM KeysStoreWhatWasAsked == KeysSpec => []StoresWhatWasAsked
  <1>1. KeysInv => StoresWhatWasAsked
    <2> SUFFICES ASSUME KeysInv PROVE StoresWhatWasAsked
      OBVIOUS
    <2>1. file = NoKeyFile \/ Sound(file)
      BY DEF KeysInv, FilesSound
    <2>2. QED
      BY <2>1 DEF KeysInv, Sound, Rotation, ClaimHolds, StoresWhatWasAsked
  <1>2. QED
    BY <1>1, KeysInvariant, PTL

\* However many calls overlap, fail or are cut short: a file once there is only
\* ever replaced by one that loads, and goes only with a power failure that
\* comes before the first save has reached the disk.
THEOREM KeysAreNotLost == KeysSpec => KeyIsNotLost
  <1> DEFINE A == file' # file =>
                    \/ file' # NoKeyFile /\ Loadable(file')
                    \/ KeyPowerLoss /\ file' = NoKeyFile /\ NoKeyFile \in onDisk
  <1>1. KeysInv /\ [KeysNext]_keysVars => [A]_keysVars
    <2> SUFFICES ASSUME KeysInv, KeysNext, file' # file
                 PROVE  \/ file' # NoKeyFile /\ Loadable(file')
                        \/ KeyPowerLoss /\ file' = NoKeyFile /\ NoKeyFile \in onDisk
      OBVIOUS
    <2>1. ASSUME NEW c \in Callers, SaveKey(c) \/ Rotate(c) \/ WriteTemp(c)
          PROVE  FALSE
      BY <2>1 DEF SaveKey, Rotate, WriteTemp, Begin, FailWrite
    <2>2. ASSUME NEW c \in Callers, Rename(c)
          PROVE  file' # NoKeyFile /\ Loadable(file')
      <3>1. file' = caller[c].stored /\ caller[c].pc = "rename"
        BY <2>2 DEF Rename, FailWrite
      <3>2. QED
        BY <3>1, RenamesSound, StoredFields DEF Sound
    <2>3. CASE Stop
      BY <2>3 DEF Stop
    <2>4. CASE KeyPowerLoss
      <3>1. file' \in onDisk
        BY <2>4 DEF KeyPowerLoss
      <3>2. file' = NoKeyFile \/ Sound(file')
        BY <3>1 DEF KeysInv, FilesSound
      <3>3. QED
        BY <2>4, <3>1, <3>2, StoredFields DEF Sound
    <2>5. QED
      BY <2>1, <2>2, <2>3, <2>4 DEF KeysNext
  <1>2. QED
    BY <1>1, KeysInvariant, PTL DEF KeysSpec, KeyIsNotLost
=============================================================================
