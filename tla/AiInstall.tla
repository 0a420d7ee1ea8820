------------------------------ MODULE AiInstall ------------------------------
(***************************************************************************)
(* ai::install: processes that share a root install archives into version  *)
(* folders of one dependency.  An install locks its folder, downloads and  *)
(* verifies the archive in staging, and hands the unpacking to a blocking  *)
(* thread: extract, delete the marker, empty the folder, move the entries  *)
(* in, write the marker last.  It then removes the other versions.  A      *)
(* process may be killed, and any file operation may fail, between any two *)
(* steps.                                                                  *)
(***************************************************************************)
EXTENDS Naturals, FiniteSets

CONSTANTS
    Installers,  \* the processes
    Folders,     \* the version folders of the dependency
    Entries,     \* the files of an archive
    MaxStarts,   \* bound on the installs each process begins
    Droppable,   \* whether an install's future is dropped while a blocking
                 \* thread works for it
    NoOne, NoMarker

ASSUME InstallAssumption ==
    /\ MaxStarts \in Nat
    /\ Droppable \in BOOLEAN
    /\ Entries # {}
    /\ NoOne \notin Installers
    /\ \A S \in SUBSET ({"good", "bad"} \X Entries) : NoMarker # S

VARIABLES
    lock,     \* who holds the lock file beside each folder
    marker,   \* the entries recorded in each folder's .installed
    files,    \* the entries in each folder
    staged,   \* the archive in its staging folder
    extract,  \* the entries in its extraction folder
    pc,       \* where each install is
    want,     \* the folder it installs
    retry,    \* whether a mismatch is downloaded once more
    starts,   \* how many installs each process began
    job,      \* where its blocking thread is
    record,   \* the marker that thread is about to write
    others    \* the versions that thread has still to visit

local == <<pc, want, retry, starts>>
worker == <<job, record, others>>
disk == <<marker, files, staged, extract>>
vars == <<lock, disk, local, worker>>

-----------------------------------------------------------------------------
(* Data.  An entry is tagged with the archive it was extracted from: the   *)
(* one the listing's hash names, or another.                               *)

Archive == {"good"} \X Entries

(* Marker::intact: what is recorded is there, and something is recorded. *)
intact(f) == marker[f] # NoMarker /\ marker[f] # {} /\ marker[f] \subseteq files[f]

Goto(i, label) == pc' = [pc EXCEPT ![i] = label]
JobGoto(i, label) == job' = [job EXCEPT ![i] = label]
Locks(i) == {f \in Folders : lock[f] = i}
Unlocked(S) == [f \in Folders |-> IF f \in S THEN NoOne ELSE lock[f]]

Unpacking == {"wipe", "extract", "unmark", "empty", "move", "record", "mark"}
Cleaning == {"unstage", "others", "unmarkother", "removeother"}

-----------------------------------------------------------------------------
(* The install. *)

(* plan: an intact folder is kept, without the lock. *)
Start(i, f) ==
    /\ pc[i] = "idle" /\ job[i] = "none"
    /\ starts[i] < MaxStarts
    /\ starts' = [starts EXCEPT ![i] = @ + 1]
    /\ want' = [want EXCEPT ![i] = f]
    /\ Goto(i, IF intact(f) THEN "idle" ELSE "lock")
    /\ UNCHANGED <<lock, disk, retry, worker>>

(* lock::acquire: at once, or when whoever holds it lets go. *)
Acquire(i) ==
    /\ pc[i] = "lock"
    /\ lock[want[i]] = NoOne
    /\ lock' = [lock EXCEPT ![want[i]] = i]
    /\ Goto(i, "check")
    /\ UNCHANGED <<disk, want, retry, starts, worker>>

(* Mutant: a marker is believed without looking for what it records. *)
CheckTrusting(i) ==
    /\ pc[i] = "check"
    /\ Goto(i, IF marker[want[i]] # NoMarker THEN "done" ELSE "fetch")
    /\ retry' = [retry EXCEPT ![i] = staged[want[i]] \in {"good", "bad"}]
    /\ UNCHANGED <<lock, disk, want, starts, worker>>

(* The second look: another process may have installed it meanwhile. *)
Check(i) ==
    /\ pc[i] = "check"
    /\ Goto(i, IF intact(want[i]) THEN "done" ELSE "fetch")
    /\ retry' = [retry EXCEPT ![i] = staged[want[i]] \in {"good", "bad"}]
    /\ UNCHANGED <<lock, disk, want, starts, worker>>

(* fetch_hashed: a complete file in staging is used, a partial is resumed, *)
(* and what the server sends need not be what the listing's hash names.    *)
Fetch(i) ==
    /\ pc[i] = "fetch"
    /\ IF staged[want[i]] \in {"good", "bad"}
       THEN UNCHANGED staged
       ELSE \E q \in {"good", "bad"} : staged' = [staged EXCEPT ![want[i]] = q]
    /\ Goto(i, "verify")
    /\ UNCHANGED <<lock, marker, files, extract, want, retry, starts, worker>>

(* The hash decides: unpack, discard and download once more, or give up. *)
Verify(i) ==
    /\ pc[i] = "verify"
    /\ \/ /\ staged[want[i]] = "good"
          /\ Goto(i, "unpack")
          /\ JobGoto(i, "wipe")
          /\ UNCHANGED <<staged, retry>>
       \/ /\ staged[want[i]] = "bad"
          /\ staged' = [staged EXCEPT ![want[i]] = "none"]
          /\ Goto(i, IF retry[i] THEN "fetch" ELSE "error")
          /\ retry' = [retry EXCEPT ![i] = FALSE]
          /\ UNCHANGED job
    /\ UNCHANGED <<lock, marker, files, extract, want, starts, record, others>>

(* install_one returns, and the lock goes with it. *)
Return(i) ==
    /\ pc[i] \in {"done", "error"}
    /\ lock' = [lock EXCEPT ![want[i]] = NoOne]
    /\ Goto(i, "idle")
    /\ UNCHANGED <<disk, want, retry, starts, worker>>

-----------------------------------------------------------------------------
(* unpack, on a blocking thread. *)

Wipe(i) ==
    /\ job[i] = "wipe"
    /\ extract' = [extract EXCEPT ![want[i]] = {}]
    /\ JobGoto(i, "extract")
    /\ UNCHANGED <<lock, marker, files, staged, local, record, others>>

ExtractEntry(i, e) ==
    /\ job[i] = "extract"
    /\ staged[want[i]] \in {"good", "bad"}
    /\ LET entry == <<staged[want[i]], e>> IN
          /\ entry \notin extract[want[i]]
          /\ extract' = [extract EXCEPT ![want[i]] = @ \cup {entry}]
    /\ UNCHANGED <<lock, marker, files, staged, local, worker>>

Extracted(i) ==
    /\ job[i] = "extract"
    /\ {staged[want[i]]} \X Entries \subseteq extract[want[i]]
    /\ JobGoto(i, "unmark")
    /\ UNCHANGED <<lock, disk, local, record, others>>

Unmark(i) ==
    /\ job[i] = "unmark"
    /\ marker' = [marker EXCEPT ![want[i]] = NoMarker]
    /\ JobGoto(i, "empty")
    /\ UNCHANGED <<lock, files, staged, extract, local, record, others>>

(* empty_dir, all but staging. *)
EmptyEntry(i) ==
    /\ job[i] = "empty"
    /\ \E entry \in files[want[i]] : files' = [files EXCEPT ![want[i]] = @ \ {entry}]
    /\ UNCHANGED <<lock, marker, staged, extract, local, worker>>

(* The extraction folder is opened to be listed, which fails if it is not  *)
(* there; once it is open, entries somebody else removes are skipped.      *)
Emptied(i) ==
    /\ job[i] = "empty" /\ files[want[i]] = {}
    /\ extract[want[i]] # {}
    /\ JobGoto(i, "move")
    /\ UNCHANGED <<lock, disk, local, record, others>>

MoveEntry(i) ==
    /\ job[i] = "move"
    /\ \E entry \in extract[want[i]] :
          /\ extract' = [extract EXCEPT ![want[i]] = @ \ {entry}]
          /\ files' = [files EXCEPT ![want[i]] = @ \cup {entry}]
    /\ UNCHANGED <<lock, marker, staged, local, worker>>

(* Mutant: the marker does not wait for the last entry. *)
MovedEarly(i) ==
    /\ job[i] = "move" /\ files[want[i]] # {}
    /\ JobGoto(i, "record")
    /\ UNCHANGED <<lock, disk, local, record, others>>

Moved(i) ==
    /\ job[i] = "move" /\ extract[want[i]] = {}
    /\ JobGoto(i, "record")
    /\ UNCHANGED <<lock, disk, local, record, others>>

(* Marker::record lists what the folder holds; Marker::write renames the   *)
(* listing into place.                                                     *)
Record(i) ==
    /\ job[i] = "record"
    /\ record' = [record EXCEPT ![i] = files[want[i]]]
    /\ JobGoto(i, "mark")
    /\ UNCHANGED <<lock, disk, local, others>>

(* The task ends, and install_one, if it still waits, starts the next. *)
Mark(i) ==
    /\ job[i] = "mark"
    /\ marker' = [marker EXCEPT ![want[i]] = record[i]]
    /\ record' = [record EXCEPT ![i] = {}]
    /\ IF pc[i] = "unpack"
       THEN Goto(i, "cleanup") /\ JobGoto(i, "unstage")
       ELSE UNCHANGED pc /\ JobGoto(i, "none")
    /\ UNCHANGED <<lock, files, staged, extract, want, retry, starts, others>>

-----------------------------------------------------------------------------
(* Cleaning up, on a blocking thread: staging, then remove_other_versions, *)
(* all of it best effort.                                                  *)

Unstage(i) ==
    /\ job[i] = "unstage"
    /\ \/ /\ staged' = [staged EXCEPT ![want[i]] = "none"]
          /\ extract' = [extract EXCEPT ![want[i]] = {}]
       \/ UNCHANGED <<staged, extract>>
    /\ others' = [others EXCEPT ![i] = Folders \ {want[i]}]
    /\ JobGoto(i, "others")
    /\ UNCHANGED <<lock, marker, files, local, record>>

(* Mutant: another version is waited for. *)
TryOtherWaiting(i, g) ==
    /\ job[i] = "others"
    /\ g \in others[i]
    /\ lock[g] = NoOne
    /\ lock' = [lock EXCEPT ![g] = i]
    /\ JobGoto(i, "unmarkother")
    /\ UNCHANGED <<disk, local, record, others>>

(* lock::try_acquire: a version somebody else holds locked is left alone. *)
TryOther(i, g) ==
    /\ job[i] = "others"
    /\ g \in others[i]
    /\ \/ /\ lock[g] = NoOne
          /\ lock' = [lock EXCEPT ![g] = i]
          /\ JobGoto(i, "unmarkother")
          /\ UNCHANGED others
       \/ /\ lock[g] # NoOne
          /\ others' = [others EXCEPT ![i] = @ \ {g}]
          /\ UNCHANGED <<lock, job>>
    /\ UNCHANGED <<disk, local, record>>

(* The version it locked. *)
Other(i) == Locks(i) \cap others[i]

UnmarkOther(i) ==
    /\ job[i] = "unmarkother"
    /\ \E g \in Other(i) : marker' = [marker EXCEPT ![g] = NoMarker]
    /\ JobGoto(i, "removeother")
    /\ UNCHANGED <<lock, files, staged, extract, local, record, others>>

RemoveOtherEntry(i) ==
    /\ job[i] = "removeother"
    /\ \E g \in Other(i) : \E entry \in files[g] :
          files' = [files EXCEPT ![g] = @ \ {entry}]
    /\ UNCHANGED <<lock, marker, staged, extract, local, worker>>

(* The folder is gone with its staging, and its lock is let go. *)
RemovedOther(i) ==
    /\ job[i] = "removeother"
    /\ \E g \in Other(i) :
          /\ files[g] = {}
          /\ staged' = [staged EXCEPT ![g] = "none"]
          /\ extract' = [extract EXCEPT ![g] = {}]
          /\ lock' = [lock EXCEPT ![g] = NoOne]
          /\ others' = [others EXCEPT ![i] = @ \ {g}]
    /\ JobGoto(i, "others")
    /\ UNCHANGED <<marker, files, local, record>>

(* A folder that cannot be removed is left as it stands. *)
LeaveOther(i) ==
    /\ job[i] \in {"unmarkother", "removeother"}
    /\ lock' = Unlocked(Other(i))
    /\ others' = [others EXCEPT ![i] = @ \ Other(i)]
    /\ JobGoto(i, "others")
    /\ UNCHANGED <<disk, local, record>>

Cleaned(i) ==
    /\ job[i] = "others" /\ others[i] = {}
    /\ JobGoto(i, "none")
    /\ pc' = IF pc[i] = "cleanup" THEN [pc EXCEPT ![i] = "done"] ELSE pc
    /\ UNCHANGED <<lock, disk, want, retry, starts, record, others>>

-----------------------------------------------------------------------------
(* What goes wrong. *)

(* A download fails, keeping its partial, or a file operation does. *)
FetchFails(i) ==
    /\ pc[i] \in {"check", "fetch", "verify"}
    /\ staged' = IF pc[i] = "fetch" /\ staged[want[i]] = "none"
                 THEN [staged EXCEPT ![want[i]] = "part"] ELSE staged
    /\ Goto(i, "error")
    /\ UNCHANGED <<lock, marker, files, extract, want, retry, starts, worker>>

UnpackFails(i) ==
    /\ job[i] \in Unpacking
    /\ JobGoto(i, "none")
    /\ record' = [record EXCEPT ![i] = {}]
    /\ pc' = IF pc[i] = "unpack" THEN [pc EXCEPT ![i] = "error"] ELSE pc
    /\ UNCHANGED <<lock, disk, want, retry, starts, others>>

(* The install's future is dropped: its lock goes with it, a blocking      *)
(* thread does not.                                                        *)
Drop(i) ==
    /\ pc[i] \in {"lock", "fetch"} \/ (Droppable /\ pc[i] \in {"unpack", "cleanup"})
    /\ Goto(i, "idle")
    /\ lock' = IF pc[i] = "lock" THEN lock ELSE [lock EXCEPT ![want[i]] = NoOne]
    /\ UNCHANGED <<disk, want, retry, starts, worker>>

(* The process is killed: the system releases its locks. *)
Kill(i) ==
    /\ pc[i] # "idle" \/ job[i] # "none"
    /\ Goto(i, "idle")
    /\ JobGoto(i, "none")
    /\ lock' = Unlocked(Locks(i))
    /\ record' = [record EXCEPT ![i] = {}]
    /\ others' = [others EXCEPT ![i] = {}]
    /\ UNCHANGED <<disk, want, retry, starts>>

(* Process i is installing folder f, or removing it as another version. *)
Writes(i, f) ==
    \/ want[i] = f /\ (pc[i] \in {"fetch", "verify", "unpack", "cleanup"} \/ job[i] # "none")
    \/ f \in Other(i) /\ job[i] \in {"unmarkother", "removeother"}

(* A file is deleted by hand, while nobody has the folder locked. *)
Damage(f) ==
    /\ lock[f] = NoOne
    /\ \A i \in Installers : ~Writes(i, f)
    /\ \E entry \in files[f] : files' = [files EXCEPT ![f] = @ \ {entry}]
    /\ UNCHANGED <<lock, marker, staged, extract, local, worker>>

-----------------------------------------------------------------------------
Init ==
    /\ lock = [f \in Folders |-> NoOne]
    /\ marker = [f \in Folders |-> NoMarker]
    /\ files = [f \in Folders |-> {}]
    /\ staged = [f \in Folders |-> "none"]
    /\ extract = [f \in Folders |-> {}]
    /\ pc = [i \in Installers |-> "idle"]
    /\ want \in [Installers -> Folders]
    /\ retry = [i \in Installers |-> FALSE]
    /\ starts = [i \in Installers |-> 0]
    /\ job = [i \in Installers |-> "none"]
    /\ record = [i \in Installers |-> {}]
    /\ others = [i \in Installers |-> {}]

Install(i) == Acquire(i) \/ Check(i) \/ Fetch(i) \/ Verify(i) \/ Return(i)

Unpack(i) ==
    \/ Wipe(i) \/ (\E e \in Entries : ExtractEntry(i, e)) \/ Extracted(i)
    \/ Unmark(i) \/ EmptyEntry(i) \/ Emptied(i) \/ MoveEntry(i) \/ Moved(i)
    \/ Record(i) \/ Mark(i)

CleanUp(i) ==
    \/ Unstage(i) \/ (\E g \in Folders : TryOther(i, g))
    \/ UnmarkOther(i) \/ RemoveOtherEntry(i) \/ RemovedOther(i) \/ Cleaned(i)

Environment(i) ==
    \/ \E f \in Folders : Start(i, f)
    \/ FetchFails(i) \/ UnpackFails(i) \/ LeaveOther(i) \/ Drop(i) \/ Kill(i)

Next ==
    \/ \E i \in Installers : Install(i) \/ Unpack(i) \/ CleanUp(i) \/ Environment(i)
    \/ \E f \in Folders : Damage(f)

Spec == Init /\ [][Next]_vars

(* Futures and blocking threads are scheduled, a transfer ends, and a lock *)
(* that stays free is taken.                                               *)
Fairness ==
    \A i \in Installers :
        WF_vars(Install(i)) /\ WF_vars(Unpack(i)) /\ WF_vars(CleanUp(i))

FairSpec == Spec /\ Fairness

-----------------------------------------------------------------------------
(* Properties. *)

Content == SUBSET ({"good", "bad"} \X Entries)

(* Every variable keeps its type. *)
TypeOK ==
    /\ lock \in [Folders -> Installers \cup {NoOne}]
    /\ marker \in [Folders -> {NoMarker} \cup Content]
    /\ files \in [Folders -> Content]
    /\ staged \in [Folders -> {"none", "part", "good", "bad"}]
    /\ extract \in [Folders -> Content]
    /\ pc \in [Installers -> {"idle", "lock", "check", "fetch", "verify", "unpack",
                              "cleanup", "done", "error"}]
    /\ want \in [Installers -> Folders]
    /\ retry \in [Installers -> BOOLEAN]
    /\ starts \in [Installers -> 0..MaxStarts]
    /\ job \in [Installers -> {"none"} \cup Unpacking \cup Cleaning]
    /\ record \in [Installers -> Content]
    /\ others \in [Installers -> SUBSET Folders]

(* "A folder's marker never stands over an incomplete install"             *)
(* (Plan::install): whatever was killed, failed, damaged or removed        *)
(* half-way, a folder that reads as installed holds every entry of the     *)
(* verified archive.                                                       *)
MarkerComplete ==
    \A f \in Folders : intact(f) => marker[f] = Archive

(* An install that reports success, found current under the lock or made   *)
(* here, still has its folder intact: no other version's clean-up removes  *)
(* it while it is held.                                                    *)
SuccessIsIntact ==
    \A i \in Installers : pc[i] \in {"cleanup", "done"} => intact(want[i])

(* An install ends: processes that each hold their own version's lock and  *)
(* visit the other's never wait on each other.                             *)
InstallEnds ==
    \A i \in Installers : pc[i] # "idle" ~> pc[i] = "idle"
=============================================================================
