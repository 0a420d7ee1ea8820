--------------------------- MODULE AiInstallProofs ---------------------------
(***************************************************************************)
(* Proofs about AiInstall, for any number of processes, versions, entries  *)
(* and installs, as long as no future is dropped while its blocking thread *)
(* works (Droppable = FALSE; the run ai_install_dropped shows what happens *)
(* otherwise).                                                             *)
(***************************************************************************)
EXTENDS AiInstall, TLAPS

Holding == {"check", "fetch", "verify", "unpack", "cleanup", "done", "error"}
Removing == {"unmarkother", "removeother"}

(* The blocking thread works exactly while install_one waits for it. *)
ThreadAwaited ==
    \A i \in Installers :
        /\ job[i] \in Unpacking <=> pc[i] = "unpack"
        /\ job[i] \in Cleaning <=> pc[i] = "cleanup"

(* The lock on the wanted folder is held from Acquire to Return. *)
OwnLock == \A i \in Installers : pc[i] \in Holding => lock[want[i]] = i

(* A lock is held for the folder being installed, or for the one other     *)
(* version being removed, and for nothing else.                            *)
LockHasReason ==
    \A i \in Installers : \A f \in Locks(i) :
        (f = want[i] /\ pc[i] \in Holding) \/ (f \in others[i] /\ job[i] \in Removing)

OthersAreOther ==
    \A i \in Installers :
        others[i] # {} => want[i] \notin others[i] /\ job[i] \in {"others"} \cup Removing

OneOther == \A i \in Installers : \A f, g \in Other(i) : f = g

(* What unpack has done so far: the archive is the verified one, and its   *)
(* entries are all in the extraction folder, then all in one place or the  *)
(* other, then all in the folder, then all recorded.                       *)
UnpackProgress ==
    \A i \in Installers :
        /\ job[i] \in Unpacking => staged[want[i]] = "good"
        /\ job[i] = "extract" => extract[want[i]] \subseteq Archive
        /\ job[i] \in {"unmark", "empty"} => extract[want[i]] = Archive
        /\ job[i] = "move" => files[want[i]] \cup extract[want[i]] = Archive
        /\ job[i] \in {"record", "mark"} => files[want[i]] = Archive
        /\ job[i] = "mark" => record[i] = Archive

(* A marker that is there lists the whole verified archive, even after     *)
(* files were damaged or removed behind it.                                *)
MarkerWhole == \A f \in Folders : marker[f] \in {NoMarker, Archive}

InstallInv ==
    /\ TypeOK /\ ThreadAwaited
    /\ OwnLock /\ LockHasReason /\ OthersAreOther /\ OneOther
    /\ UnpackProgress /\ MarkerWhole /\ SuccessIsIntact

USE InstallAssumption
    DEF InstallInv, Holding, Removing, Unpacking, Cleaning, Locks, Other, Goto, JobGoto,
        Content, intact, local, worker, disk

-----------------------------------------------------------------------------
(* Data: the archive is content a folder can hold, and not the absence of  *)
(* a marker.                                                               *)
LEMMA ArchiveFacts ==
    /\ Archive \in Content /\ Archive # {} /\ NoMarker # Archive
    /\ \A e \in Entries : <<"good", e>> \in Archive
<1>1. Archive \in Content
  BY DEF Archive
<1>2. \A e \in Entries : <<"good", e>> \in Archive
  BY DEF Archive
<1>3. Archive # {}
  BY <1>2
<1>4. NoMarker # Archive
  BY <1>1
<1> QED BY <1>1, <1>2, <1>3, <1>4

-----------------------------------------------------------------------------
(* Initial states, and one lemma per action. *)

(* The invariant holds before the first install. *)
LEMMA InitInstallInv == Init => InstallInv
  BY DEF Init, TypeOK, ThreadAwaited, OwnLock, LockHasReason, OthersAreOther, OneOther,
         UnpackProgress, MarkerWhole, SuccessIsIntact

(* plan: an install that begins holds no lock. *)
LEMMA StartStep ==
  ASSUME InstallInv, NEW i \in Installers, NEW f \in Folders, Start(i, f)
  PROVE  InstallInv'
<1> USE DEF Start
<1>1. TypeOK'
  BY ArchiveFacts DEF TypeOK
<1>2. (ThreadAwaited /\ OthersAreOther)'
  BY DEF TypeOK, ThreadAwaited, OthersAreOther
<1>3. (OwnLock /\ LockHasReason /\ OneOther)'
  BY DEF TypeOK, ThreadAwaited, OwnLock, LockHasReason, OthersAreOther, OneOther
<1>4. UnpackProgress'
  BY ArchiveFacts DEF TypeOK, ThreadAwaited, OwnLock, UnpackProgress
<1>5. (MarkerWhole /\ SuccessIsIntact)'
  BY ArchiveFacts DEF TypeOK, ThreadAwaited, OwnLock, UnpackProgress, MarkerWhole, SuccessIsIntact
<1> QED BY <1>1, <1>2, <1>3, <1>4, <1>5

(* lock::acquire gives the folder to one process. *)
LEMMA AcquireStep ==
  ASSUME InstallInv, NEW i \in Installers, Acquire(i)
  PROVE  InstallInv'
<1> USE DEF Acquire
<1>1. TypeOK'
  BY ArchiveFacts DEF TypeOK
<1>2. (ThreadAwaited /\ OthersAreOther)'
  BY DEF TypeOK, ThreadAwaited, OthersAreOther
<1>3. (OwnLock /\ LockHasReason /\ OneOther)'
  BY DEF TypeOK, ThreadAwaited, OwnLock, LockHasReason, OthersAreOther, OneOther
<1>4. UnpackProgress'
  BY ArchiveFacts DEF TypeOK, ThreadAwaited, OwnLock, UnpackProgress
<1>5. (MarkerWhole /\ SuccessIsIntact)'
  BY ArchiveFacts DEF TypeOK, ThreadAwaited, OwnLock, UnpackProgress, MarkerWhole, SuccessIsIntact
<1> QED BY <1>1, <1>2, <1>3, <1>4, <1>5

(* The second look reports success only over an intact folder. *)
LEMMA CheckStep ==
  ASSUME InstallInv, NEW i \in Installers, Check(i)
  PROVE  InstallInv'
<1> USE DEF Check
<1>1. TypeOK'
  BY ArchiveFacts DEF TypeOK
<1>2. (ThreadAwaited /\ OthersAreOther)'
  BY DEF TypeOK, ThreadAwaited, OthersAreOther
<1>3. (OwnLock /\ LockHasReason /\ OneOther)'
  BY DEF TypeOK, ThreadAwaited, OwnLock, LockHasReason, OthersAreOther, OneOther
<1>4. UnpackProgress'
  BY ArchiveFacts DEF TypeOK, ThreadAwaited, OwnLock, UnpackProgress
<1>5. (MarkerWhole /\ SuccessIsIntact)'
  BY ArchiveFacts DEF TypeOK, ThreadAwaited, OwnLock, UnpackProgress, MarkerWhole, SuccessIsIntact
<1> QED BY <1>1, <1>2, <1>3, <1>4, <1>5

(* The archive arrives in a staging folder nobody else is using. *)
LEMMA FetchStep ==
  ASSUME InstallInv, NEW i \in Installers, Fetch(i)
  PROVE  InstallInv'
<1> USE DEF Fetch
<1>1. TypeOK'
  BY ArchiveFacts DEF TypeOK
<1>2. (ThreadAwaited /\ OthersAreOther)'
  BY DEF TypeOK, ThreadAwaited, OthersAreOther
<1>3. (OwnLock /\ LockHasReason /\ OneOther)'
  BY DEF TypeOK, ThreadAwaited, OwnLock, LockHasReason, OthersAreOther, OneOther
<1>4. UnpackProgress'
  BY ArchiveFacts DEF TypeOK, ThreadAwaited, OwnLock, UnpackProgress
<1>5. (MarkerWhole /\ SuccessIsIntact)'
  BY ArchiveFacts DEF TypeOK, ThreadAwaited, OwnLock, UnpackProgress, MarkerWhole, SuccessIsIntact
<1> QED BY <1>1, <1>2, <1>3, <1>4, <1>5

(* Only the archive whose hash is the listing's is unpacked. *)
LEMMA VerifyStep ==
  ASSUME InstallInv, NEW i \in Installers, Verify(i)
  PROVE  InstallInv'
<1> USE DEF Verify
<1>1. TypeOK'
  BY ArchiveFacts DEF TypeOK
<1>2. (ThreadAwaited /\ OthersAreOther)'
  BY DEF TypeOK, ThreadAwaited, OthersAreOther
<1>3. (OwnLock /\ LockHasReason /\ OneOther)'
  <2>1. \A j \in Installers : /\ pc'[j] \in Holding <=> pc[j] \in Holding
                              /\ job'[j] \in Removing <=> job[j] \in Removing
    BY DEF TypeOK, ThreadAwaited
  <2>2. OwnLock'
    BY <2>1 DEF OwnLock
  <2>3. LockHasReason'
    BY <2>1 DEF LockHasReason
  <2> QED BY <2>2, <2>3 DEF OneOther
<1>4. UnpackProgress'
  BY ArchiveFacts DEF TypeOK, ThreadAwaited, OwnLock, UnpackProgress
<1>5. (MarkerWhole /\ SuccessIsIntact)'
  BY ArchiveFacts DEF TypeOK, ThreadAwaited, OwnLock, UnpackProgress, MarkerWhole, SuccessIsIntact
<1> QED BY <1>1, <1>2, <1>3, <1>4, <1>5

(* The lock goes when install_one returns. *)
LEMMA ReturnStep ==
  ASSUME InstallInv, NEW i \in Installers, Return(i)
  PROVE  InstallInv'
<1> USE DEF Return
<1>1. TypeOK'
  BY ArchiveFacts DEF TypeOK
<1>2. (ThreadAwaited /\ OthersAreOther)'
  BY DEF TypeOK, ThreadAwaited, OthersAreOther
<1>3. (OwnLock /\ LockHasReason /\ OneOther)'
  BY DEF TypeOK, ThreadAwaited, OwnLock, LockHasReason, OthersAreOther, OneOther
<1>4. UnpackProgress'
  BY ArchiveFacts DEF TypeOK, ThreadAwaited, OwnLock, UnpackProgress
<1>5. (MarkerWhole /\ SuccessIsIntact)'
  BY ArchiveFacts DEF TypeOK, ThreadAwaited, OwnLock, UnpackProgress, MarkerWhole, SuccessIsIntact
<1> QED BY <1>1, <1>2, <1>3, <1>4, <1>5

(* Unpacking begins with an empty extraction folder. *)
LEMMA WipeStep ==
  ASSUME InstallInv, NEW i \in Installers, Wipe(i)
  PROVE  InstallInv'
<1> USE DEF Wipe
<1>1. TypeOK'
  BY ArchiveFacts DEF TypeOK
<1>2. (ThreadAwaited /\ OthersAreOther)'
  BY DEF TypeOK, ThreadAwaited, OthersAreOther
<1>3. (OwnLock /\ LockHasReason /\ OneOther)'
  BY DEF TypeOK, ThreadAwaited, OwnLock, LockHasReason, OthersAreOther, OneOther
<1>4. UnpackProgress'
  BY ArchiveFacts DEF TypeOK, ThreadAwaited, OwnLock, UnpackProgress
<1>5. (MarkerWhole /\ SuccessIsIntact)'
  BY ArchiveFacts DEF TypeOK, ThreadAwaited, OwnLock, UnpackProgress, MarkerWhole, SuccessIsIntact
<1> QED BY <1>1, <1>2, <1>3, <1>4, <1>5

(* Entries come from the verified archive only. *)
LEMMA ExtractEntryStep ==
  ASSUME InstallInv, NEW i \in Installers, NEW e \in Entries, ExtractEntry(i, e)
  PROVE  InstallInv'
<1> USE DEF ExtractEntry
<1>1. TypeOK'
  BY ArchiveFacts DEF TypeOK
<1>2. (ThreadAwaited /\ OthersAreOther)'
  BY DEF TypeOK, ThreadAwaited, OthersAreOther
<1>3. (OwnLock /\ LockHasReason /\ OneOther)'
  BY DEF TypeOK, ThreadAwaited, OwnLock, LockHasReason, OthersAreOther, OneOther
<1>4. UnpackProgress'
  BY ArchiveFacts DEF TypeOK, ThreadAwaited, OwnLock, UnpackProgress
<1>5. (MarkerWhole /\ SuccessIsIntact)'
  BY ArchiveFacts DEF TypeOK, ThreadAwaited, OwnLock, UnpackProgress, MarkerWhole, SuccessIsIntact
<1> QED BY <1>1, <1>2, <1>3, <1>4, <1>5

(* Extraction ends when every entry is there. *)
LEMMA ExtractedStep ==
  ASSUME InstallInv, NEW i \in Installers, Extracted(i)
  PROVE  InstallInv'
<1> USE DEF Extracted
<1>1. TypeOK'
  BY ArchiveFacts DEF TypeOK
<1>2. (ThreadAwaited /\ OthersAreOther)'
  BY DEF TypeOK, ThreadAwaited, OthersAreOther
<1>3. (OwnLock /\ LockHasReason /\ OneOther)'
  BY DEF TypeOK, ThreadAwaited, OwnLock, LockHasReason, OthersAreOther, OneOther
<1>4. UnpackProgress'
  <2>1. extract[want[i]] = Archive
    BY DEF UnpackProgress, Archive
  <2> QED BY <2>1 DEF TypeOK, UnpackProgress
<1>5. (MarkerWhole /\ SuccessIsIntact)'
  BY ArchiveFacts DEF TypeOK, ThreadAwaited, OwnLock, UnpackProgress, MarkerWhole, SuccessIsIntact
<1> QED BY <1>1, <1>2, <1>3, <1>4, <1>5

(* The old marker goes first. *)
LEMMA UnmarkStep ==
  ASSUME InstallInv, NEW i \in Installers, Unmark(i)
  PROVE  InstallInv'
<1> USE DEF Unmark
<1>1. TypeOK'
  BY ArchiveFacts DEF TypeOK
<1>2. (ThreadAwaited /\ OthersAreOther)'
  BY DEF TypeOK, ThreadAwaited, OthersAreOther
<1>3. (OwnLock /\ LockHasReason /\ OneOther)'
  BY DEF TypeOK, ThreadAwaited, OwnLock, LockHasReason, OthersAreOther, OneOther
<1>4. UnpackProgress'
  BY ArchiveFacts DEF TypeOK, ThreadAwaited, OwnLock, UnpackProgress
<1>5. (MarkerWhole /\ SuccessIsIntact)'
  BY ArchiveFacts DEF TypeOK, ThreadAwaited, OwnLock, UnpackProgress, MarkerWhole, SuccessIsIntact
<1> QED BY <1>1, <1>2, <1>3, <1>4, <1>5

(* The old files go. *)
LEMMA EmptyEntryStep ==
  ASSUME InstallInv, NEW i \in Installers, EmptyEntry(i)
  PROVE  InstallInv'
<1> USE DEF EmptyEntry
<1>1. TypeOK'
  BY ArchiveFacts DEF TypeOK
<1>2. (ThreadAwaited /\ OthersAreOther)'
  BY DEF TypeOK, ThreadAwaited, OthersAreOther
<1>3. (OwnLock /\ LockHasReason /\ OneOther)'
  BY DEF TypeOK, ThreadAwaited, OwnLock, LockHasReason, OthersAreOther, OneOther
<1>4. UnpackProgress'
  BY ArchiveFacts DEF TypeOK, ThreadAwaited, OwnLock, UnpackProgress
<1>5. (MarkerWhole /\ SuccessIsIntact)'
  BY ArchiveFacts DEF TypeOK, ThreadAwaited, OwnLock, UnpackProgress, MarkerWhole, SuccessIsIntact
<1> QED BY <1>1, <1>2, <1>3, <1>4, <1>5

(* The folder is empty when the first entry moves in. *)
LEMMA EmptiedStep ==
  ASSUME InstallInv, NEW i \in Installers, Emptied(i)
  PROVE  InstallInv'
<1> USE DEF Emptied
<1>1. TypeOK'
  BY ArchiveFacts DEF TypeOK
<1>2. (ThreadAwaited /\ OthersAreOther)'
  BY DEF TypeOK, ThreadAwaited, OthersAreOther
<1>3. (OwnLock /\ LockHasReason /\ OneOther)'
  BY DEF TypeOK, ThreadAwaited, OwnLock, LockHasReason, OthersAreOther, OneOther
<1>4. UnpackProgress'
  BY ArchiveFacts DEF TypeOK, ThreadAwaited, OwnLock, UnpackProgress
<1>5. (MarkerWhole /\ SuccessIsIntact)'
  BY ArchiveFacts DEF TypeOK, ThreadAwaited, OwnLock, UnpackProgress, MarkerWhole, SuccessIsIntact
<1> QED BY <1>1, <1>2, <1>3, <1>4, <1>5

(* An entry changes places and is never lost. *)
LEMMA MoveEntryStep ==
  ASSUME InstallInv, NEW i \in Installers, MoveEntry(i)
  PROVE  InstallInv'
<1> USE DEF MoveEntry
<1>1. TypeOK'
  BY ArchiveFacts DEF TypeOK
<1>2. (ThreadAwaited /\ OthersAreOther)'
  BY DEF TypeOK, ThreadAwaited, OthersAreOther
<1>3. (OwnLock /\ LockHasReason /\ OneOther)'
  BY DEF TypeOK, ThreadAwaited, OwnLock, LockHasReason, OthersAreOther, OneOther
<1>4. UnpackProgress'
  BY ArchiveFacts DEF TypeOK, ThreadAwaited, OwnLock, UnpackProgress
<1>5. (MarkerWhole /\ SuccessIsIntact)'
  BY ArchiveFacts DEF TypeOK, ThreadAwaited, OwnLock, UnpackProgress, MarkerWhole, SuccessIsIntact
<1> QED BY <1>1, <1>2, <1>3, <1>4, <1>5

(* When the extraction folder is empty, everything has arrived. *)
LEMMA MovedStep ==
  ASSUME InstallInv, NEW i \in Installers, Moved(i)
  PROVE  InstallInv'
<1> USE DEF Moved
<1>1. TypeOK'
  BY ArchiveFacts DEF TypeOK
<1>2. (ThreadAwaited /\ OthersAreOther)'
  BY DEF TypeOK, ThreadAwaited, OthersAreOther
<1>3. (OwnLock /\ LockHasReason /\ OneOther)'
  BY DEF TypeOK, ThreadAwaited, OwnLock, LockHasReason, OthersAreOther, OneOther
<1>4. UnpackProgress'
  <2>1. files[want[i]] = Archive
    <3>1. files[want[i]] \cup {} = Archive
      BY DEF UnpackProgress
    <3> QED BY <3>1
  <2> QED BY <2>1 DEF TypeOK, UnpackProgress
<1>5. (MarkerWhole /\ SuccessIsIntact)'
  BY ArchiveFacts DEF TypeOK, ThreadAwaited, OwnLock, UnpackProgress, MarkerWhole, SuccessIsIntact
<1> QED BY <1>1, <1>2, <1>3, <1>4, <1>5

(* The marker will list the whole archive. *)
LEMMA RecordStep ==
  ASSUME InstallInv, NEW i \in Installers, Record(i)
  PROVE  InstallInv'
<1> USE DEF Record
<1>1. TypeOK'
  BY ArchiveFacts DEF TypeOK
<1>2. (ThreadAwaited /\ OthersAreOther)'
  BY DEF TypeOK, ThreadAwaited, OthersAreOther
<1>3. (OwnLock /\ LockHasReason /\ OneOther)'
  BY DEF TypeOK, ThreadAwaited, OwnLock, LockHasReason, OthersAreOther, OneOther
<1>4. UnpackProgress'
  BY ArchiveFacts DEF TypeOK, ThreadAwaited, OwnLock, UnpackProgress
<1>5. (MarkerWhole /\ SuccessIsIntact)'
  BY ArchiveFacts DEF TypeOK, ThreadAwaited, OwnLock, UnpackProgress, MarkerWhole, SuccessIsIntact
<1> QED BY <1>1, <1>2, <1>3, <1>4, <1>5

(* The marker is written over a complete folder. *)
LEMMA MarkStep ==
  ASSUME InstallInv, NEW i \in Installers, Mark(i)
  PROVE  InstallInv'
<1> USE DEF Mark
<1>1. TypeOK'
  BY ArchiveFacts DEF TypeOK
<1>2. (ThreadAwaited /\ OthersAreOther)'
  BY DEF TypeOK, ThreadAwaited, OthersAreOther
<1>3. (OwnLock /\ LockHasReason /\ OneOther)'
  BY DEF TypeOK, ThreadAwaited, OwnLock, LockHasReason, OthersAreOther, OneOther
<1>4. UnpackProgress'
  BY ArchiveFacts DEF TypeOK, ThreadAwaited, OwnLock, UnpackProgress
<1>5. (MarkerWhole /\ SuccessIsIntact)'
  BY ArchiveFacts DEF TypeOK, ThreadAwaited, OwnLock, UnpackProgress, MarkerWhole, SuccessIsIntact
<1> QED BY <1>1, <1>2, <1>3, <1>4, <1>5

(* Staging goes, and the other versions are still to be visited. *)
LEMMA UnstageStep ==
  ASSUME InstallInv, NEW i \in Installers, Unstage(i)
  PROVE  InstallInv'
<1> USE DEF Unstage
<1>1. TypeOK'
  BY ArchiveFacts DEF TypeOK
<1>2. (ThreadAwaited /\ OthersAreOther)'
  BY DEF TypeOK, ThreadAwaited, OthersAreOther
<1>3. (OwnLock /\ LockHasReason /\ OneOther)'
  BY DEF TypeOK, ThreadAwaited, OwnLock, LockHasReason, OthersAreOther, OneOther
<1>4. UnpackProgress'
  BY ArchiveFacts DEF TypeOK, ThreadAwaited, OwnLock, UnpackProgress
<1>5. (MarkerWhole /\ SuccessIsIntact)'
  BY ArchiveFacts DEF TypeOK, ThreadAwaited, OwnLock, UnpackProgress, MarkerWhole, SuccessIsIntact
<1> QED BY <1>1, <1>2, <1>3, <1>4, <1>5

(* lock::try_acquire takes one other version, if nobody has it. *)
LEMMA TryOtherStep ==
  ASSUME InstallInv, NEW i \in Installers, NEW g \in Folders, TryOther(i, g)
  PROVE  InstallInv'
<1> USE DEF TryOther
<1>1. TypeOK'
  BY ArchiveFacts DEF TypeOK
<1>2. (ThreadAwaited /\ OthersAreOther)'
  BY DEF TypeOK, ThreadAwaited, OthersAreOther
<1>3. (OwnLock /\ LockHasReason /\ OneOther)'
  BY DEF TypeOK, ThreadAwaited, OwnLock, LockHasReason, OthersAreOther, OneOther
<1>4. UnpackProgress'
  BY ArchiveFacts DEF TypeOK, ThreadAwaited, OwnLock, UnpackProgress
<1>5. (MarkerWhole /\ SuccessIsIntact)'
  BY ArchiveFacts DEF TypeOK, ThreadAwaited, OwnLock, UnpackProgress, MarkerWhole, SuccessIsIntact
<1> QED BY <1>1, <1>2, <1>3, <1>4, <1>5

(* Only a version nobody else holds loses its marker. *)
LEMMA UnmarkOtherStep ==
  ASSUME InstallInv, NEW i \in Installers, UnmarkOther(i)
  PROVE  InstallInv'
<1> USE DEF UnmarkOther
<1>1. TypeOK'
  BY ArchiveFacts DEF TypeOK
<1>2. (ThreadAwaited /\ OthersAreOther)'
  BY DEF TypeOK, ThreadAwaited, OthersAreOther
<1>3. (OwnLock /\ LockHasReason /\ OneOther)'
  BY DEF TypeOK, ThreadAwaited, OwnLock, LockHasReason, OthersAreOther, OneOther
<1>4. UnpackProgress'
  BY ArchiveFacts DEF TypeOK, ThreadAwaited, OwnLock, UnpackProgress
<1>5. (MarkerWhole /\ SuccessIsIntact)'
  <2>1. PICK g \in Other(i) : marker' = [marker EXCEPT ![g] = NoMarker]
    OBVIOUS
  <2>2. \A j \in Installers : pc[j] \in {"cleanup", "done"} => want[j] # g
    BY DEF TypeOK, OwnLock, OthersAreOther
  <2>3. MarkerWhole'
    BY <2>1 DEF TypeOK, MarkerWhole
  <2>4. SuccessIsIntact'
    BY <2>1, <2>2 DEF TypeOK, SuccessIsIntact
  <2> QED BY <2>3, <2>4
<1> QED BY <1>1, <1>2, <1>3, <1>4, <1>5

(* Only a version nobody else holds loses its files. *)
LEMMA RemoveOtherEntryStep ==
  ASSUME InstallInv, NEW i \in Installers, RemoveOtherEntry(i)
  PROVE  InstallInv'
<1> USE DEF RemoveOtherEntry
<1>1. TypeOK'
  BY ArchiveFacts DEF TypeOK
<1>2. (ThreadAwaited /\ OthersAreOther)'
  BY DEF TypeOK, ThreadAwaited, OthersAreOther
<1>3. (OwnLock /\ LockHasReason /\ OneOther)'
  BY DEF TypeOK, ThreadAwaited, OwnLock, LockHasReason, OthersAreOther, OneOther
<1>4. UnpackProgress'
  BY ArchiveFacts DEF TypeOK, ThreadAwaited, OwnLock, UnpackProgress
<1>5. (MarkerWhole /\ SuccessIsIntact)'
  <2>1. PICK g \in Other(i) : \E entry \in files[g] :
                       files' = [files EXCEPT ![g] = @ \ {entry}]
    OBVIOUS
  <2>2. \A j \in Installers : pc[j] \in {"cleanup", "done"} => want[j] # g
    BY DEF TypeOK, OwnLock, OthersAreOther
  <2>3. MarkerWhole'
    BY <2>1 DEF TypeOK, MarkerWhole
  <2>4. SuccessIsIntact'
    BY <2>1, <2>2 DEF TypeOK, SuccessIsIntact
  <2> QED BY <2>3, <2>4
<1> QED BY <1>1, <1>2, <1>3, <1>4, <1>5

(* The removed version's lock is let go. *)
LEMMA RemovedOtherStep ==
  ASSUME InstallInv, NEW i \in Installers, RemovedOther(i)
  PROVE  InstallInv'
<1> USE DEF RemovedOther
<1>1. TypeOK'
  BY ArchiveFacts DEF TypeOK
<1>2. (ThreadAwaited /\ OthersAreOther)'
  BY DEF TypeOK, ThreadAwaited, OthersAreOther
<1>3. (OwnLock /\ LockHasReason /\ OneOther)'
  BY DEF TypeOK, ThreadAwaited, OwnLock, LockHasReason, OthersAreOther, OneOther
<1>4. UnpackProgress'
  BY ArchiveFacts DEF TypeOK, ThreadAwaited, OwnLock, UnpackProgress
<1>5. (MarkerWhole /\ SuccessIsIntact)'
  BY ArchiveFacts DEF TypeOK, ThreadAwaited, OwnLock, UnpackProgress, MarkerWhole, SuccessIsIntact
<1> QED BY <1>1, <1>2, <1>3, <1>4, <1>5

(* So is that of one that cannot be removed. *)
LEMMA LeaveOtherStep ==
  ASSUME InstallInv, NEW i \in Installers, LeaveOther(i)
  PROVE  InstallInv'
<1> USE DEF LeaveOther, Unlocked
<1>1. TypeOK'
  BY ArchiveFacts DEF TypeOK
<1>2. (ThreadAwaited /\ OthersAreOther)'
  BY DEF TypeOK, ThreadAwaited, OthersAreOther
<1>3. (OwnLock /\ LockHasReason /\ OneOther)'
  BY DEF TypeOK, ThreadAwaited, OwnLock, LockHasReason, OthersAreOther, OneOther
<1>4. UnpackProgress'
  BY ArchiveFacts DEF TypeOK, ThreadAwaited, OwnLock, UnpackProgress
<1>5. (MarkerWhole /\ SuccessIsIntact)'
  BY ArchiveFacts DEF TypeOK, ThreadAwaited, OwnLock, UnpackProgress, MarkerWhole, SuccessIsIntact
<1> QED BY <1>1, <1>2, <1>3, <1>4, <1>5

(* Cleaning up ends with the folder as it was. *)
LEMMA CleanedStep ==
  ASSUME InstallInv, NEW i \in Installers, Cleaned(i)
  PROVE  InstallInv'
<1> USE DEF Cleaned
<1>1. TypeOK'
  BY ArchiveFacts DEF TypeOK
<1>2. (ThreadAwaited /\ OthersAreOther)'
  BY DEF TypeOK, ThreadAwaited, OthersAreOther
<1>3. (OwnLock /\ LockHasReason /\ OneOther)'
  BY DEF TypeOK, ThreadAwaited, OwnLock, LockHasReason, OthersAreOther, OneOther
<1>4. UnpackProgress'
  BY ArchiveFacts DEF TypeOK, ThreadAwaited, OwnLock, UnpackProgress
<1>5. (MarkerWhole /\ SuccessIsIntact)'
  BY ArchiveFacts DEF TypeOK, ThreadAwaited, OwnLock, UnpackProgress, MarkerWhole, SuccessIsIntact
<1> QED BY <1>1, <1>2, <1>3, <1>4, <1>5

(* A failed download keeps its lock until install_one returns. *)
LEMMA FetchFailsStep ==
  ASSUME InstallInv, NEW i \in Installers, FetchFails(i)
  PROVE  InstallInv'
<1> USE DEF FetchFails
<1>1. TypeOK'
  BY ArchiveFacts DEF TypeOK
<1>2. (ThreadAwaited /\ OthersAreOther)'
  BY DEF TypeOK, ThreadAwaited, OthersAreOther
<1>3. (OwnLock /\ LockHasReason /\ OneOther)'
  BY DEF TypeOK, ThreadAwaited, OwnLock, LockHasReason, OthersAreOther, OneOther
<1>4. UnpackProgress'
  BY ArchiveFacts DEF TypeOK, ThreadAwaited, OwnLock, UnpackProgress
<1>5. (MarkerWhole /\ SuccessIsIntact)'
  BY ArchiveFacts DEF TypeOK, ThreadAwaited, OwnLock, UnpackProgress, MarkerWhole, SuccessIsIntact
<1> QED BY <1>1, <1>2, <1>3, <1>4, <1>5

(* A failed unpacking leaves no marker it has not written. *)
LEMMA UnpackFailsStep ==
  ASSUME InstallInv, NEW i \in Installers, UnpackFails(i)
  PROVE  InstallInv'
<1> USE DEF UnpackFails
<1>1. TypeOK'
  BY ArchiveFacts DEF TypeOK
<1>2. (ThreadAwaited /\ OthersAreOther)'
  BY DEF TypeOK, ThreadAwaited, OthersAreOther
<1>3. (OwnLock /\ LockHasReason /\ OneOther)'
  BY DEF TypeOK, ThreadAwaited, OwnLock, LockHasReason, OthersAreOther, OneOther
<1>4. UnpackProgress'
  BY ArchiveFacts DEF TypeOK, ThreadAwaited, OwnLock, UnpackProgress
<1>5. (MarkerWhole /\ SuccessIsIntact)'
  BY ArchiveFacts DEF TypeOK, ThreadAwaited, OwnLock, UnpackProgress, MarkerWhole, SuccessIsIntact
<1> QED BY <1>1, <1>2, <1>3, <1>4, <1>5

(* A future dropped while it waits or downloads has no thread working. *)
LEMMA DropStep ==
  ASSUME InstallInv, NEW i \in Installers, Droppable = FALSE, Drop(i)
  PROVE  InstallInv'
<1> USE DEF Drop
<1>1. TypeOK'
  BY ArchiveFacts DEF TypeOK
<1>2. (ThreadAwaited /\ OthersAreOther)'
  BY DEF TypeOK, ThreadAwaited, OthersAreOther
<1>3. (OwnLock /\ LockHasReason /\ OneOther)'
  BY DEF TypeOK, ThreadAwaited, OwnLock, LockHasReason, OthersAreOther, OneOther
<1>4. UnpackProgress'
  BY ArchiveFacts DEF TypeOK, ThreadAwaited, OwnLock, UnpackProgress
<1>5. (MarkerWhole /\ SuccessIsIntact)'
  BY ArchiveFacts DEF TypeOK, ThreadAwaited, OwnLock, UnpackProgress, MarkerWhole, SuccessIsIntact
<1> QED BY <1>1, <1>2, <1>3, <1>4, <1>5

(* A killed process leaves its files as they are, and its locks free. *)
LEMMA KillStep ==
  ASSUME InstallInv, NEW i \in Installers, Kill(i)
  PROVE  InstallInv'
<1> USE DEF Kill, Unlocked
<1>1. TypeOK'
  BY ArchiveFacts DEF TypeOK
<1>2. (ThreadAwaited /\ OthersAreOther)'
  BY DEF TypeOK, ThreadAwaited, OthersAreOther
<1>3. (OwnLock /\ LockHasReason /\ OneOther)'
  BY DEF TypeOK, ThreadAwaited, OwnLock, LockHasReason, OthersAreOther, OneOther
<1>4. UnpackProgress'
  BY ArchiveFacts DEF TypeOK, ThreadAwaited, OwnLock, UnpackProgress
<1>5. (MarkerWhole /\ SuccessIsIntact)'
  BY ArchiveFacts DEF TypeOK, ThreadAwaited, OwnLock, UnpackProgress, MarkerWhole, SuccessIsIntact
<1> QED BY <1>1, <1>2, <1>3, <1>4, <1>5

(* A folder damaged by hand is nobody's. *)
LEMMA DamageStep ==
  ASSUME InstallInv, NEW f \in Folders, Damage(f)
  PROVE  InstallInv'
<1> USE DEF Damage
<1>1. TypeOK'
  BY ArchiveFacts DEF TypeOK
<1>2. (ThreadAwaited /\ OthersAreOther)'
  BY DEF TypeOK, ThreadAwaited, OthersAreOther
<1>3. (OwnLock /\ LockHasReason /\ OneOther)'
  BY DEF TypeOK, ThreadAwaited, OwnLock, LockHasReason, OthersAreOther, OneOther
<1>4. UnpackProgress'
  BY ArchiveFacts DEF TypeOK, ThreadAwaited, OwnLock, UnpackProgress
<1>5. (MarkerWhole /\ SuccessIsIntact)'
  BY ArchiveFacts DEF TypeOK, ThreadAwaited, OwnLock, UnpackProgress, MarkerWhole, SuccessIsIntact
<1> QED BY <1>1, <1>2, <1>3, <1>4, <1>5


-----------------------------------------------------------------------------
(* The theorems. *)

(* Every step preserves the invariant. *)
LEMMA InstallStep ==
  ASSUME InstallInv, [Next]_vars, Droppable = FALSE
  PROVE  InstallInv'
<1>1. CASE UNCHANGED vars
  BY <1>1 DEF vars, TypeOK, ThreadAwaited, OwnLock, LockHasReason, OthersAreOther, OneOther,
              UnpackProgress, MarkerWhole, SuccessIsIntact
<1> HIDE DEF InstallInv
<1>2. ASSUME NEW i \in Installers, Install(i)
      PROVE  InstallInv'
  BY <1>2, AcquireStep, CheckStep, FetchStep, VerifyStep, ReturnStep DEF Install
<1>3. ASSUME NEW i \in Installers, Unpack(i)
      PROVE  InstallInv'
  BY <1>3, WipeStep, ExtractEntryStep, ExtractedStep, UnmarkStep, EmptyEntryStep,
     EmptiedStep, MoveEntryStep, MovedStep, RecordStep, MarkStep DEF Unpack
<1>4. ASSUME NEW i \in Installers, CleanUp(i)
      PROVE  InstallInv'
  BY <1>4, UnstageStep, TryOtherStep, UnmarkOtherStep, RemoveOtherEntryStep,
     RemovedOtherStep, CleanedStep DEF CleanUp
<1>5. ASSUME NEW i \in Installers, Environment(i)
      PROVE  InstallInv'
  BY <1>5, StartStep, FetchFailsStep, UnpackFailsStep, LeaveOtherStep, DropStep, KillStep
     DEF Environment
<1> QED BY <1>1, <1>2, <1>3, <1>4, <1>5, DamageStep DEF Next

(* The invariant holds in every reachable state. *)
THEOREM InstallInvariant ==
  ASSUME Droppable = FALSE
  PROVE  Spec => []InstallInv
<1> HIDE DEF InstallInv
<1>1. InstallInv /\ [Next]_vars => InstallInv'
  BY InstallStep
<1> QED BY InitInstallInv, <1>1, PTL DEF Spec

(* "A folder's marker never stands over an incomplete install"             *)
(* (Plan::install): the marker is written only by an unpacking that holds  *)
(* the folder's lock and has moved in every entry of the verified archive, *)
(* and a folder that has lost a file since is not intact.                  *)
THEOREM MarkerNeverLies ==
  ASSUME Droppable = FALSE
  PROVE  Spec => []MarkerComplete
<1>1. InstallInv => MarkerComplete
  BY DEF MarkerWhole, MarkerComplete
<1> QED BY InstallInvariant, <1>1, PTL

(* A success stays true while its lock is held (install_one,               *)
(* remove_other_versions): whoever cleans up removes only what it has      *)
(* locked, and never its own version.                                      *)
THEOREM SuccessHolds ==
  ASSUME Droppable = FALSE
  PROVE  Spec => []SuccessIsIntact
<1>1. InstallInv => SuccessIsIntact
  BY DEF SuccessIsIntact
<1> QED BY InstallInvariant, <1>1, PTL
=============================================================================
