------------------------------ MODULE FsExtract ------------------------------
(***************************************************************************)
(* fs::extract: the entries of a ZIP, TAR.XZ or 7z archive written into a  *)
(* folder.  The three formats drive one Extractor, which counts and budgets*)
(* what it writes, refuses what its options forbid, defers the modes of    *)
(* directories to the end, and stops at the first entry it refuses.        *)
(***************************************************************************)
EXTENDS Naturals, Sequences, FiniteSets

CONSTANTS
    Paths,        \* the paths entries name: sequences of components
    Bytes,        \* the sizes entries declare and hold
    Modes,        \* the modes directories are recorded with
    Searchable,   \* those of them that let a directory be entered
    MaxEntries,   \* bound on the entries of an archive
    Unlimited,    \* no ceiling
    Vacant        \* nothing at a path; no mode

(* The directories a path leads through. *)
Ancestors(p) == {SubSeq(p, 1, n) : n \in 1 .. Len(p) - 1}

ASSUME ExtractAssumption ==
    /\ Paths \subseteq Seq(STRING) \ {<<>>}
    /\ \A p \in Paths : Ancestors(p) \subseteq Paths
    /\ Bytes \subseteq Nat /\ MaxEntries \in Nat /\ Searchable \subseteq Modes
    /\ Vacant \notin {[kind |-> "dir"], "mode"}

VARIABLES
    options,      \* the ceilings, and whether links are extracted
    unread,       \* what entries left unread of a stream they share with the next (7z)
    stage,        \* "open", then "writing" a file, "finishing"; "done" or "failed"
    failure,      \* why it failed
    tree,         \* what is at each path
    current,      \* the file being written: its path and what it declared
    used_bytes, used_entries,     \* the budget
    dir_modes,    \* the modes recorded for directories, in the order of the entries
    links,        \* the links created, to be checked again
    modes,        \* the mode each directory ended with
    summary,      \* what was done
    progress,     \* what the caller's hook was last told
    through       \* history: the files written through a link

extractVars == <<options, unread, stage, failure, tree, current, used_bytes, used_entries,
                 dir_modes, links, modes, summary, progress, through>>

Within(n, ceiling) == IF ceiling = Unlimited THEN TRUE ELSE n <= ceiling

Is(p, kind) == tree[p] # Vacant /\ tree[p].kind = kind

(* What a path names, links followed; a link that goes round names itself. *)
Target(p) ==
    LET hop[n \in 0 .. Cardinality(Paths)] ==
            IF n = 0 THEN p
            ELSE IF Is(hop[n - 1], "link") THEN tree[hop[n - 1]].to ELSE hop[n - 1]
    IN  IF Is(p, "link") THEN hop[Cardinality(Paths)] ELSE p

(* create_dir, recursive: whether nothing but directories is in the way. *)
Enterable(ps) == \A p \in ps : tree[p] = Vacant \/ Is(Target(p), "dir")

WithDirs(ps) == [p \in Paths |-> IF p \in ps /\ tree[p] = Vacant THEN [kind |-> "dir"] ELSE tree[p]]

(* Reporter::finish_entry: the hook is told the counts there are now. *)
Report == progress' = [entries |-> progress.entries + 1, bytes |-> summary'.bytes]

Fail(why) ==
    /\ stage' = "failed" /\ failure' = why
    /\ UNCHANGED <<dir_modes, links, summary, progress, through, current>>

-----------------------------------------------------------------------------
(* The entries. *)

(* Budget::count_entry, for the next entry: every entry counts, whatever becomes of it. *)
Count ==
    /\ stage = "open" /\ used_entries < MaxEntries
    /\ used_entries' = used_entries + 1
    /\ UNCHANGED <<options, modes>>

(* The ceilings' checks. *)
Allowed == Within(used_entries + 1, options.entries)
reserve(declared) ==
    /\ Within(declared, options.file)
    /\ Within(used_bytes + declared, options.total)

(* An entry over the ceiling, one whose name is refused, or one that cannot*)
(* be read at all.                                                         *)
Refused ==
    /\ Count
    /\ Fail(IF Allowed THEN "illegal" ELSE "limit")
    /\ UNCHANGED <<tree, used_bytes, unread>>

(* Mutant: what a skipped entry holds is left in the stream. *)
SkippedUndrained ==
    /\ Count /\ Allowed
    /\ unread' = unread + 1
    /\ summary' = [summary EXCEPT !.skipped = @ + 1]
    /\ Report
    /\ UNCHANGED <<stage, failure, tree, current, used_bytes, dir_modes, links, through>>

(* The root itself, a device, or a link under symlinks(false): nothing is  *)
(* read of it, and un7zip drains the rest of every entry.                  *)
Skipped ==
    /\ Count /\ Allowed
    /\ unread' = 0
    /\ summary' = [summary EXCEPT !.skipped = @ + 1]
    /\ Report
    /\ UNCHANGED <<stage, failure, tree, current, used_bytes, dir_modes, links, through>>

(* visit_dir: its mode waits for finish; a mode of nothing is the default. *)
VisitDir(p, mode) ==
    /\ Count /\ Allowed /\ ~Is(p, "link")
    /\ UNCHANGED <<used_bytes, unread>>
    /\ \/ /\ ~Enterable(Ancestors(p) \cup {p})
          /\ Fail("illegal") /\ UNCHANGED tree
       \/ /\ Enterable(Ancestors(p) \cup {p})
          /\ tree' = WithDirs(Ancestors(p) \cup {p})
          /\ dir_modes' = IF mode = Vacant THEN dir_modes ELSE Append(dir_modes, <<p, mode>>)
          /\ summary' = [summary EXCEPT !.directories = @ + 1]
          /\ Report
          /\ UNCHANGED <<stage, failure, current, links, through>>

(* visit_file: room for what it declares is claimed before it is opened,   *)
(* which truncates what was there, through a link if one was.              *)
OpenFile(p, declared) ==
    /\ Count /\ Allowed
    /\ UNCHANGED unread
    /\ \/ /\ ~reserve(declared)
          /\ Fail("limit") /\ UNCHANGED <<tree, used_bytes>>
       \/ /\ reserve(declared)
          /\ used_bytes' = used_bytes + declared
          /\ IF Enterable(Ancestors(p)) /\ (tree[Target(p)] = Vacant \/ Is(Target(p), "file"))
                /\ \A a \in Ancestors(Target(p)) \ Ancestors(p) : tree[a] # Vacant
             THEN /\ tree' = [WithDirs(Ancestors(p)) EXCEPT ![Target(p)] =
                                 [kind |-> "file", bytes |-> 0, whole |-> FALSE]]
                  /\ stage' = "writing"
                  /\ current' = [path |-> p, target |-> Target(p), declared |-> declared]
                  /\ through' = IF Target(p) = p THEN through \ {p} ELSE through \cup {Target(p)}
                  /\ UNCHANGED <<failure, dir_modes, links, summary, progress>>
             ELSE /\ Fail("io")
                  /\ tree' = IF Enterable(Ancestors(p)) THEN WithDirs(Ancestors(p)) ELSE tree

(* Budget::settle: what was reserved and not written is handed back. *)
settle(reserved, actual) == used_bytes - (reserved - actual)

(* Mutant: what was reserved stays reserved. *)
WriteFileUnsettled(held) ==
    /\ stage = "writing" /\ held <= current.declared
    /\ tree' = [tree EXCEPT ![current.target] = [kind |-> "file", bytes |-> held, whole |-> unread = 0]]
    /\ summary' = [summary EXCEPT !.files = @ + 1, !.bytes = @ + held]
    /\ stage' = "open"
    /\ Report
    /\ UNCHANGED <<options, unread, failure, current, used_bytes, used_entries,
                   dir_modes, links, modes, through>>

(* The copy, of an entry that holds so many bytes: one byte past what was  *)
(* declared is an error, and so is a failed read or write; either removes  *)
(* the file at the entry's path.                                           *)
WriteFile(held) ==
    /\ stage = "writing"
    /\ \/ /\ held <= current.declared
          /\ tree' = [tree EXCEPT ![current.target] = [kind |-> "file", bytes |-> held, whole |-> unread = 0]]
          /\ used_bytes' = settle(current.declared, held)
          /\ summary' = [summary EXCEPT !.files = @ + 1, !.bytes = @ + held]
          /\ stage' = "open"
          /\ Report
          /\ UNCHANGED <<failure, current, dir_modes, links, through>>
       \/ /\ tree' = [tree EXCEPT ![current.path] = Vacant]
          /\ Fail(IF held > current.declared THEN "mismatch" ELSE "io")
          /\ UNCHANGED used_bytes
    /\ UNCHANGED <<options, unread, used_entries, modes>>

(* visit_symlink: the target was accepted; the name must be free.  What the*)
(* link resolves to is checked at once, and again when all is there.  Two  *)
(* bounds here: no entry's path goes on below a link, and no directory     *)
(* entry names one.                                                        *)
VisitSymlink(p, to, contained) ==
    /\ Count /\ Allowed /\ options.symlinks
    /\ \A q \in Paths : p \notin Ancestors(q)
    /\ UNCHANGED <<used_bytes, unread>>
    /\ IF ~Enterable(Ancestors(p)) \/ tree[p] # Vacant
       THEN Fail("io") /\ tree' = IF Enterable(Ancestors(p)) THEN WithDirs(Ancestors(p)) ELSE tree
       ELSE IF ~contained
       THEN Fail("illegal") /\ tree' = WithDirs(Ancestors(p))
       ELSE /\ tree' = [WithDirs(Ancestors(p)) EXCEPT ![p] = [kind |-> "link", to |-> to]]
            /\ links' = links \cup {p}
            /\ summary' = [summary EXCEPT !.symlinks = @ + 1]
            /\ Report
            /\ UNCHANGED <<stage, failure, current, dir_modes, through>>

-----------------------------------------------------------------------------
(* The end. *)

(* The archive has no more entries: every link is checked again. *)
VerifyLinks(p, contained) ==
    /\ stage = "open"
    /\ IF contained THEN stage' = "finishing" /\ UNCHANGED <<failure, tree>>
       ELSE /\ p \in links
            /\ tree' = [tree EXCEPT ![p] = Vacant]
            /\ stage' = "failed" /\ failure' = "illegal"
    /\ UNCHANGED <<options, unread, current, used_bytes, used_entries, dir_modes, links, modes,
                   summary, progress, through>>

SetMode(i) ==
    /\ modes' = [modes EXCEPT ![Target(dir_modes[i][1])] = dir_modes[i][2]]
    /\ dir_modes' = SubSeq(dir_modes, 1, i - 1) \o SubSeq(dir_modes, i + 1, Len(dir_modes))
    /\ UNCHANGED <<options, unread, current, used_bytes, used_entries, links, tree,
                   summary, progress, through>>

(* A mode is applied through the folders above, as they are by then. *)
Reachable(p) == \A a \in Ancestors(p) : modes[a] = Vacant \/ modes[a] \in Searchable

(* Mutant: in the order of the entries. *)
ApplyModeInOrder ==
    /\ stage = "finishing" /\ dir_modes # <<>>
    /\ SetMode(1)
    /\ stage' = IF Reachable(dir_modes[1][1]) THEN stage ELSE "failed"
    /\ failure' = IF Reachable(dir_modes[1][1]) THEN failure ELSE "mode"

(* finish: deepest first, and in the order of the entries among equals. *)
ApplyMode ==
    /\ stage = "finishing" /\ dir_modes # <<>>
    /\ \E i \in DOMAIN dir_modes :
          /\ \A j \in DOMAIN dir_modes :
                \/ Len(dir_modes[j][1]) < Len(dir_modes[i][1])
                \/ Len(dir_modes[j][1]) = Len(dir_modes[i][1]) /\ j >= i
          /\ SetMode(i)
          /\ stage' = IF Reachable(dir_modes[i][1]) THEN stage ELSE "failed"
          /\ failure' = IF Reachable(dir_modes[i][1]) THEN failure ELSE "mode"

Finished ==
    /\ stage = "finishing" /\ dir_modes = <<>>
    /\ stage' = "done"
    /\ UNCHANGED <<options, unread, failure, tree, current, used_bytes, used_entries, dir_modes,
                   links, modes, summary, progress, through>>

-----------------------------------------------------------------------------
Ceilings == Bytes \cup {Unlimited}

(* ExtractOptions. *)
ExtractInit ==
    /\ options \in [total : Ceilings, file : Ceilings, entries : {1, Unlimited}, symlinks : BOOLEAN]
    /\ unread = 0
    /\ stage = "open" /\ failure = Vacant
    /\ tree = [p \in Paths |-> Vacant]
    /\ current = Vacant
    /\ used_bytes = 0 /\ used_entries = 0
    /\ dir_modes = <<>> /\ links = {}
    /\ modes = [p \in Paths |-> Vacant]
    /\ summary = [files |-> 0, directories |-> 0, symlinks |-> 0, skipped |-> 0, bytes |-> 0]
    /\ progress = [entries |-> 0, bytes |-> 0]
    /\ through = {}

ExtractNext ==
    \/ Refused \/ Skipped \/ ApplyMode \/ Finished
    \/ \E p \in Paths, m \in Modes \cup {Vacant} : VisitDir(p, m)
    \/ \E p \in Paths, n \in Bytes : OpenFile(p, n)
    \/ \E n \in Bytes : WriteFile(n)
    \/ \E p, to \in Paths, ok \in BOOLEAN : VisitSymlink(p, to, ok)
    \/ \E p \in Paths, ok \in BOOLEAN : VerifyLinks(p, ok)

ExtractSpec == ExtractInit /\ [][ExtractNext]_extractVars

-----------------------------------------------------------------------------
(* Properties. *)

(* "A half-written file is worse than none": whatever extraction stops at, *)
(* a file it leaves is one entry's contents, all of them and no other's -- *)
(* but for a file written through a link, whose link is removed instead.   *)
NoHalfFile ==
    stage # "writing" =>
        \A p \in Paths \ through : Is(p, "file") => tree[p].whole

(* Every entry that was dealt with. *)
Visited == summary.files + summary.directories + summary.symlinks + summary.skipped

(* Every entry that was counted is in the summary, reported to the hook,   *)
(* and the bytes reserved are those written, or about to be.               *)
CountsAgree ==
    /\ stage \in {"open", "finishing", "done"} =>
          /\ used_bytes = summary.bytes
          /\ used_entries = Visited
          /\ progress = [entries |-> used_entries, bytes |-> summary.bytes]
          /\ Within(used_entries, options.entries)
    /\ stage = "writing" => used_bytes = summary.bytes + current.declared
    /\ Within(used_bytes, options.total)

(* What the files there take, byte by byte. *)
BytesOnDisk == UNION {{p} \X (1 .. tree[p].bytes) : p \in {q \in Paths : Is(q, "file")}}
OnDisk == Cardinality(BytesOnDisk)

(* The budget, the summary, the hook and the disk agree: what is counted is*)
(* what was written, so no archive of small files is refused for what its  *)
(* headers said, and none goes over its ceilings.                          *)
AccountsAgree ==
    /\ CountsAgree
    /\ stage \in {"open", "finishing", "done"} => Within(OnDisk, options.total)

(* A folder the archive wants closed is closed after what is inside it: no *)
(* mode an archive gives stops the extraction from applying another.       *)
ModesDoNotCollide == failure # "mode"
=============================================================================
