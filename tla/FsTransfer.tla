----------------------------- MODULE FsTransfer -----------------------------
(***************************************************************************)
(* fs::copy_files and fs::move_files: the files of a directory source,     *)
(* listed first, are carried one by one into a destination, which may be   *)
(* the very same directory.  The first failure stops it, and the process   *)
(* may be killed between any two steps.                                    *)
(***************************************************************************)
EXTENDS Naturals, Sequences, FiniteSets

CONSTANTS
    Tree,       \* the source's entries in listing order: [at, kind, matches]
    Existing,   \* destination paths where an unrelated file already is
    Nothing     \* no file at a path

Entry == [at : Seq(STRING), kind : {"file", "special"}, matches : BOOLEAN]

ASSUME TransferAssumption ==
    /\ Tree \in Seq(Entry)
    /\ \A i \in DOMAIN Tree : Tree[i].at # <<>>
    /\ \A i, j \in DOMAIN Tree : Tree[i].at = Tree[j].at => i = j
    /\ Nothing \notin Nat

VARIABLES
    how,      \* recursive, preserve_structure, whether it moves, where to, under which spelling, and whether a rename crosses devices
    contents,     \* what is at each path: the file of an entry, Unrelated, Half or Nothing
    index,       \* the listed entry being dealt with
    doing,    \* "next", "copying", "removing"; "done", "failed"
    tally     \* the summary: files and skipped

transferVars == <<how, contents, index, doing, tally>>

Source(i) == <<"source">> \o Tree[i].at
Name(i) == Tree[i].at[Len(Tree[i].at)]

(* Flattened, a file lands under its own name; preserved, where it was. *)
Dest(i) ==
    <<IF how.in_place THEN "source" ELSE "dest">>
       \o IF how.preserve THEN Tree[i].at ELSE <<Name(i)>>

(* Contents: those of entry i are i; half-written ones; an unrelated file's. *)
Half == 0
Unrelated == Len(Tree) + 1

Roots == {<<"source">>, <<"dest">>}
Relative == {Tree[i].at : i \in DOMAIN Tree} \cup {<<Name(i)>> : i \in DOMAIN Tree}
Places == {root \o at : root \in Roots, at \in Relative}

-----------------------------------------------------------------------------
(* list_path: one level or all of it, unfiltered, so that what the filter  *)
(* leaves out can be counted; special files count as files.                *)
listed(i) == how.recursive \/ Len(Tree[i].at) = 1

(* Mutant: a file is told from its destination by spelling alone, and one  *)
(* that is its own destination by another name is carried onto itself.     *)
is_same_spelling(i) == Source(i) = Dest(i) /\ ~how.alias

(* is_same_file: by identity, whatever the spelling. *)
is_same_file(i) == Source(i) = Dest(i)

Advance == index' = index + 1 /\ doing' = "next"

PassOver ==
    /\ doing = "next" /\ index \in DOMAIN Tree
    /\ ~listed(index)
    /\ Advance
    /\ UNCHANGED <<how, contents, tally>>

(* transfer_file: what the filter refuses, what is no regular file, and    *)
(* what is already where it would go.                                      *)
Skip ==
    /\ doing = "next" /\ index \in DOMAIN Tree /\ listed(index)
    /\ ~Tree[index].matches \/ Tree[index].kind = "special" \/ is_same_file(index)
    /\ tally' = [tally EXCEPT !.skipped = @ + 1]
    /\ Advance
    /\ UNCHANGED <<how, contents>>

Carries ==
    /\ doing = "next" /\ index \in DOMAIN Tree /\ listed(index)
    /\ Tree[index].matches /\ Tree[index].kind = "file" /\ ~is_same_file(index)
    /\ contents[Source(index)] # Nothing

(* rename_or_copy: a rename, at once; over a filesystem boundary a copy,   *)
(* which truncates what is there before it reads.                          *)
Rename ==
    /\ Carries /\ how.moves /\ ~how.crosses
    /\ contents' = [contents EXCEPT ![Source(index)] = Nothing, ![Dest(index)] = contents[Source(index)]]
    /\ tally' = [tally EXCEPT !.files = @ + 1]
    /\ Advance
    /\ UNCHANGED how

CopyBegins ==
    /\ Carries /\ (how.moves => how.crosses)
    /\ contents' = [contents EXCEPT ![Dest(index)] = Half]
    /\ doing' = "copying"
    /\ UNCHANGED <<how, index, tally>>

CopyEnds ==
    /\ doing = "copying"
    /\ contents' = [contents EXCEPT ![Dest(index)] = contents[Source(index)]]
    /\ IF how.moves THEN doing' = "removing" /\ UNCHANGED <<index, tally>>
       ELSE Advance /\ tally' = [tally EXCEPT !.files = @ + 1]
    /\ UNCHANGED how

RemoveSource ==
    /\ doing = "removing"
    /\ contents' = [contents EXCEPT ![Source(index)] = Nothing]
    /\ tally' = [tally EXCEPT !.files = @ + 1]
    /\ Advance
    /\ UNCHANGED how

(* Any call may fail, or the process be killed. *)
TransferFails ==
    /\ doing \in {"next", "copying", "removing"} /\ index \in DOMAIN Tree
    /\ doing' = "failed"
    /\ UNCHANGED <<how, contents, index, tally>>

TransferDone ==
    /\ doing = "next" /\ index = Len(Tree) + 1
    /\ doing' = "done"
    /\ UNCHANGED <<how, contents, index, tally>>

TransferInit ==
    /\ how \in [recursive : BOOLEAN, preserve : BOOLEAN, moves : BOOLEAN, crosses : BOOLEAN,
                in_place : BOOLEAN, alias : BOOLEAN]
    /\ how.in_place => ~how.crosses
    /\ contents = [p \in Places |->
                 IF \E i \in DOMAIN Tree : p = Source(i) THEN CHOOSE i \in DOMAIN Tree : p = Source(i)
                 ELSE IF p \in Existing THEN Unrelated ELSE Nothing]
    /\ index = 1
    /\ doing = "next"
    /\ tally = [files |-> 0, skipped |-> 0]

TransferNext ==
    PassOver \/ Skip \/ Rename \/ CopyBegins \/ CopyEnds \/ RemoveSource
       \/ TransferFails \/ TransferDone

TransferSpec == TransferInit /\ [][TransferNext]_transferVars

-----------------------------------------------------------------------------
(* Property. *)

Carried(i) == listed(i) /\ Tree[i].matches /\ Tree[i].kind = "file" /\ ~is_same_file(i)

(* A file is overwritten when a later one of the call lands on its         *)
(* destination, or on the place it was listed at and never left.              *)
Overwritten(i) ==
    \E j \in DOMAIN Tree \ {i} :
       /\ Carried(j)
       /\ \/ Carried(i) /\ i < j /\ Dest(j) = Dest(i)
          \/ Dest(j) = Source(i)

(* Wherever a transfer stops, no byte of a source is lost: each is whole   *)
(* at its source or at its destination, except one another file of the     *)
(* call was put over; a copy leaves every source where it was; and a       *)
(* transfer that succeeds has counted each listed file once.               *)
NothingLost ==
    /\ \A i \in DOMAIN Tree : \/ contents[Source(i)] = i
                              \/ how.moves /\ Carried(i) /\ contents[Dest(i)] = i
                              \/ Overwritten(i)
    /\ doing = "done" =>
          /\ tally.files + tally.skipped = Cardinality({i \in DOMAIN Tree : listed(i)})
          /\ \A i \in DOMAIN Tree : Carried(i) /\ ~Overwritten(i) =>
                /\ contents[Dest(i)] = i
                /\ how.moves => contents[Source(i)] # i
=============================================================================
