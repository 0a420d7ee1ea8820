------------------------------- MODULE FsTrash -------------------------------
(***************************************************************************)
(* fs::move_to_trash and fs::restore_from_trash, off macOS: a handle keeps *)
(* the moment its file was moved, and finds it again by its path among     *)
(* what was trashed since.  Other programs trash, restore and create files *)
(* at the same path, and empty the Trash.  Time is in whole seconds.       *)
(***************************************************************************)
EXTENDS Naturals, FiniteSets

CONSTANTS
    Handles,          \* the handles move_to_trash returns
    MaxFiles,         \* bound on the files made at the path
    MaxClock,         \* bound on the clock
    Tolerance,        \* TOLERANCE_SECS
    Absent            \* no file; no handle

ASSUME TrashAssumption ==
    MaxFiles \in Nat /\ MaxClock \in Nat /\ Tolerance \in Nat /\ Absent \notin Nat

VARIABLES
    clock,
    at_path,      \* the file at the original path
    trash,        \* what is in the Trash: files and when each was trashed
    trashed,      \* the handles: when each file was moved, and which it was
    moving,       \* the move or restore in progress
    made,         \* how many files there have been
    emptied,      \* history: the files destroyed with the Trash
    restored      \* history: the last restore: the handle's time and the item's

trashVars == <<clock, at_path, trash, trashed, moving, made, emptied, restored>>

CreateFile ==
    /\ at_path = Absent /\ made < MaxFiles
    /\ made' = made + 1
    /\ at_path' = made + 1
    /\ UNCHANGED <<clock, trash, trashed, moving, emptied, restored>>

(* move_to_trash: the time is taken before the move. *)
TrashBegins(h) ==
    /\ moving = Absent /\ trashed[h] = Absent /\ at_path # Absent
    /\ moving' = [handle |-> h, does |-> "trash", since |-> clock]
    /\ UNCHANGED <<clock, at_path, trash, trashed, made, emptied, restored>>

TrashMoves ==
    /\ moving # Absent /\ moving.does = "trash"
    /\ moving' = Absent
    /\ \/ /\ at_path # Absent
          /\ trash' = trash \cup {[file |-> at_path, time |-> clock]}
          /\ trashed' = [trashed EXCEPT ![moving.handle] = [since |-> moving.since, file |-> at_path]]
          /\ at_path' = Absent
       \/ UNCHANGED <<trash, trashed, at_path>>
    /\ UNCHANGED <<clock, made, emptied, restored>>

(* The items deleted at or after the recorded moment, less the tolerance. *)
candidates(h) == {item \in trash : item.time + Tolerance >= trashed[h].since}

(* restore_from_trash: nothing if the path is taken; else the newest item. *)
RestoreBegins(h) ==
    /\ moving = Absent /\ trashed[h] # Absent
    /\ at_path = Absent /\ candidates(h) # {}
    /\ \E item \in candidates(h) :
          /\ \A other \in candidates(h) : other.time <= item.time
          /\ moving' = [handle |-> h, does |-> "restore", item |-> item]
    /\ UNCHANGED <<clock, at_path, trash, trashed, made, emptied, restored>>

(* Mutant: the platform replaces what has taken the path since. *)
RestoreReplaces ==
    /\ moving # Absent /\ moving.does = "restore"
    /\ moving' = Absent
    /\ moving.item \in trash
    /\ at_path' = moving.item.file
    /\ trash' = trash \ {moving.item}
    /\ restored' = [since |-> trashed[moving.handle].since, time |-> moving.item.time]
    /\ UNCHANGED <<clock, trashed, made, emptied>>

(* restore_all refuses to replace what has taken the path since, and an    *)
(* item that is gone.                                                      *)
RestoreMoves ==
    /\ moving # Absent /\ moving.does = "restore"
    /\ moving' = Absent
    /\ \/ /\ at_path = Absent /\ moving.item \in trash
          /\ at_path' = moving.item.file
          /\ trash' = trash \ {moving.item}
          /\ restored' = [since |-> trashed[moving.handle].since, time |-> moving.item.time]
       \/ UNCHANGED <<at_path, trash, restored>>
    /\ UNCHANGED <<clock, trashed, made, emptied>>

(* Other programs. *)
OtherTrashes ==
    /\ at_path # Absent
    /\ trash' = trash \cup {[file |-> at_path, time |-> clock]}
    /\ at_path' = Absent
    /\ UNCHANGED <<clock, trashed, moving, made, emptied, restored>>

OtherEmpties(item) ==
    /\ trash' = trash \ {item}
    /\ emptied' = emptied \cup {item.file}
    /\ UNCHANGED <<clock, at_path, trashed, moving, made, restored>>

Second ==
    /\ clock < MaxClock
    /\ clock' = clock + 1
    /\ UNCHANGED <<at_path, trash, trashed, moving, made, emptied, restored>>

TrashInit ==
    /\ clock = 0
    /\ at_path = Absent
    /\ trash = {}
    /\ trashed = [h \in Handles |-> Absent]
    /\ moving = Absent
    /\ made = 0
    /\ emptied = {}
    /\ restored = Absent

TrashNext ==
    \/ CreateFile \/ TrashMoves \/ RestoreMoves \/ OtherTrashes \/ Second
    \/ \E h \in Handles : TrashBegins(h) \/ RestoreBegins(h)
    \/ \E item \in trash : OtherEmpties(item)

TrashSpec == TrashInit /\ [][TrashNext]_trashVars

-----------------------------------------------------------------------------
(* Property. *)

(* "It never overwrites anything", and "the file is never deleted outright"*)
(* : every file there has been is at the path, in the Trash or was emptied *)
(* from it, and in one place only; and what a handle brings back was       *)
(* trashed no earlier than its own file, but for the tolerance.            *)
TrashFaithful ==
    /\ \A f \in 1 .. made :
          Cardinality({p \in {"path"} : at_path = f} \cup {item \in trash : item.file = f}
                         \cup {p \in {"emptied"} : f \in emptied}) = 1
    /\ restored # Absent => restored.time + Tolerance >= restored.since
=============================================================================
