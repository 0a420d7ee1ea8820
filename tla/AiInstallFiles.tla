--------------------------- MODULE AiInstallFiles ---------------------------
(***************************************************************************)
(* ai::install_files: processes install the files a selection takes from a *)
(* listing into one folder, in place.  A file may be republished under the *)
(* same name, edited or deleted by hand, or put there beforehand; folders  *)
(* are derived from the files (a compiled model) and must not survive      *)
(* them.  A process may be killed, and any file operation may fail,        *)
(* between any two steps.                                                  *)
(***************************************************************************)
EXTENDS Naturals, FiniteSets

CONSTANTS
    Procs,      \* the processes
    Names,      \* file names
    Listings,   \* what the folder's listing may say: names to contents
    Contents,   \* the contents a file may have
    SizeOf,     \* their sizes: a function from Contents
    ByPrefix,   \* Select::Prefix takes whatever is listed; Select::Names all Names
    MaxStarts,  \* bound on the installs begun
    MaxEdits,   \* bound on the changes made by hand
    Nil         \* no file, no record, no listing

\* The record of a folder: of verified files, or of a trusted folder's stamp.
Records == [kind : {"files"}, files : UNION {[N -> Contents] : N \in SUBSET Names}]
             \cup [kind : {"trusted"}, stamp : UNION {[N -> Nat \X Nat] : N \in SUBSET Names}]

ASSUME FilesAssumption ==
    /\ \A l \in Listings : l \in UNION {[N -> Contents] : N \in SUBSET Names}
    /\ SizeOf \in [Contents -> Nat]
    /\ ByPrefix \in BOOLEAN
    /\ MaxStarts \in Nat /\ MaxEdits \in Nat
    /\ Nil \notin Procs /\ Nil \notin Records

VARIABLES
    holder,    \* who holds the folder's lock
    present,   \* the files in the folder: content, who wrote it, and when
    installed, \* the record, .installed
    derived,   \* what the derived folders were computed from
    fetched,   \* the files in staging
    step,      \* where each process is
    listing,   \* the listing it was given
    trust,     \* whether it was given Trust::LocalFiles
    record,    \* the record it read under the lock
    plan,      \* the record it means to write
    todo,      \* the selected files it has not dealt with yet
    begun, edits,   \* how many installs and changes by hand there were
    stirred    \* history: whether files were changed by hand under an install

job == <<step, listing, trust, record, plan, todo>>
folder == <<present, installed, derived, fetched>>
filesVars == <<holder, folder, job, begun, edits, stirred>>

-----------------------------------------------------------------------------
(* Data. *)

(* A modification time: one no two writes share. *)
Now == begun + edits

File(c, who) == [content |-> c, size |-> SizeOf[c], by |-> who, mtime |-> Now]

Verified(files) == [kind |-> "files", files |-> files]

(* stamp: each file's name, size and modification time. *)
stamp(names) ==
    [kind |-> "trusted", stamp |-> [n \in names |-> <<present[n].size, present[n].mtime>>]]

(* Record::intact: verified files, each still there at its recorded size. *)
intact(r) ==
    /\ r # Nil /\ r.kind = "files" /\ DOMAIN r.files # {}
    /\ \A n \in DOMAIN r.files : present[n] # Nil /\ present[n].size = SizeOf[r.files[n]]

(* wanted: the listed files the selection takes; {} when it is not served. *)
wanted(l) == IF ByPrefix \/ DOMAIN l = Names THEN DOMAIN l ELSE {}

recorded_as(r, n, c) == r # Nil /\ r.kind = "files" /\ n \in DOMAIN r.files /\ r.files[n] = c

(* trusted_names: from the selection, the listing, the record, the folder. *)
trusted_names(l, r) ==
    IF ~ByPrefix THEN Names
    ELSE IF l # Nil THEN DOMAIN l
    ELSE IF r # Nil /\ r.kind = "files" THEN DOMAIN r.files
    ELSE {n \in Names : present[n] # Nil}

Trusts(p) ==
    LET names == trusted_names(listing[p], installed)
    IN  trust[p] /\ names # {} /\ \A n \in names : present[n] # Nil

GoTo(p, label) == step' = [step EXCEPT ![p] = label]

Forget(p) ==
    /\ listing' = [listing EXCEPT ![p] = Nil]
    /\ trust' = [trust EXCEPT ![p] = FALSE]
    /\ record' = [record EXCEPT ![p] = Nil]
    /\ plan' = [plan EXCEPT ![p] = Nil]
    /\ todo' = [todo EXCEPT ![p] = {}]

-----------------------------------------------------------------------------
(* The install. *)

BeginFiles(p, l, t) ==
    /\ step[p] \in {"idle", "ok"}
    /\ begun < MaxStarts
    /\ begun' = begun + 1
    /\ listing' = [listing EXCEPT ![p] = l]
    /\ trust' = [trust EXCEPT ![p] = t]
    /\ GoTo(p, "lock")
    /\ UNCHANGED <<holder, folder, record, plan, todo, edits, stirred>>

AcquireFolder(p) ==
    /\ step[p] = "lock"
    /\ holder = Nil
    /\ holder' = p
    /\ stirred' = FALSE
    /\ GoTo(p, "decide")
    /\ UNCHANGED <<folder, listing, trust, record, plan, todo, begun, edits>>

(* run: trusted, offline, unlisted, not listed, current, or an install.    *)
(* The stamp of a trusted folder is taken before it is cleared.            *)
Decide(p) ==
    LET l     == listing[p]
        names == trusted_names(l, installed)
        Go(label, r, files) == /\ GoTo(p, label)
                               /\ plan' = [plan EXCEPT ![p] = r]
                               /\ todo' = [todo EXCEPT ![p] = files]
    IN  /\ step[p] = "decide"
        /\ record' = [record EXCEPT ![p] = installed]
        /\ \/ /\ Trusts(p)
              /\ Go(IF installed = stamp(names) THEN "done" ELSE "unmark", stamp(names), {})
           \/ /\ ~Trusts(p) /\ l = Nil
              /\ Go(IF intact(installed) THEN "done" ELSE "error", Nil, {})
           \/ /\ ~Trusts(p) /\ l # Nil /\ wanted(l) = {}
              /\ Go("error", Nil, {})
           \/ /\ ~Trusts(p) /\ l # Nil /\ wanted(l) # {}
              /\ Go(IF /\ intact(installed)
                       /\ DOMAIN installed.files = wanted(l)
                       /\ \A n \in wanted(l) : recorded_as(installed, n, l[n])
                    THEN "done" ELSE "unmark",
                    Verified([n \in wanted(l) |-> l[n]]), wanted(l))
        /\ UNCHANGED <<holder, folder, listing, trust, begun, edits, stirred>>

AfterClear(p) == IF plan[p].kind = "trusted" THEN "write" ELSE "keep"

(* Mutant: the derived folders are left for the new files to find. *)
ClearRecordOnly(p) ==
    /\ step[p] = "unmark"
    /\ installed' = Nil
    /\ GoTo(p, AfterClear(p))
    /\ UNCHANGED <<holder, present, derived, fetched, listing, trust, record, plan, todo,
                   begun, edits, stirred>>

(* clear: the record first, then the derived folders. *)
Clear(p) ==
    /\ \/ step[p] = "unmark" /\ installed' = Nil /\ GoTo(p, "empty") /\ UNCHANGED derived
       \/ step[p] = "empty" /\ derived' = Nil /\ GoTo(p, AfterClear(p)) /\ UNCHANGED installed
    /\ UNCHANGED <<holder, present, fetched, listing, trust, record, plan, todo,
                   begun, edits, stirred>>

(* keep: a file at its listed size is kept if it was recorded at its hash, *)
(* or hashes to it.                                                        *)
Keep(p, n) ==
    LET c == listing[p][n]
    IN  /\ step[p] = "keep" /\ n \in todo[p]
        /\ IF /\ present[n] # Nil /\ present[n].size = SizeOf[c]
              /\ recorded_as(record[p], n, c) \/ present[n].content = c
           THEN todo' = [todo EXCEPT ![p] = @ \ {n}] /\ UNCHANGED step
           ELSE GoTo(p, "fetch") /\ UNCHANGED todo
    /\ UNCHANGED <<holder, folder, listing, trust, record, plan, begun, edits, stirred>>

(* fetch_verified: what arrives is what the hash names, or is discarded. *)
FetchFile(p, n) ==
    /\ step[p] = "fetch" /\ n \in todo[p]
    /\ \E c \in Contents :
          /\ fetched' = [fetched EXCEPT ![n] = IF c = listing[p][n] THEN c ELSE Nil]
          /\ GoTo(p, IF c = listing[p][n] THEN "verify" ELSE "error")
    /\ UNCHANGED <<holder, present, installed, derived, listing, trust, record, plan, todo,
                   begun, edits, stirred>>

MoveIn(p, n) ==
    /\ step[p] = "verify" /\ n \in todo[p] /\ fetched[n] = listing[p][n]
    /\ present' = [present EXCEPT ![n] = File(fetched[n], "install")]
    /\ fetched' = [fetched EXCEPT ![n] = Nil]
    /\ todo' = [todo EXCEPT ![p] = @ \ {n}]
    /\ GoTo(p, "keep")
    /\ UNCHANGED <<holder, installed, derived, listing, trust, record, plan, begun, edits, stirred>>

(* Mutant: the record is written before the files are in. *)
FinishEarly(p) ==
    /\ \/ /\ step[p] = "keep"
          /\ GoTo(p, "clean") /\ UNCHANGED <<present, installed, fetched>>
       \/ /\ step[p] = "clean"
          /\ installed' = plan[p]
          /\ GoTo(p, "keep") /\ UNCHANGED <<present, fetched>>
    /\ UNCHANGED <<holder, derived, listing, trust, record, plan, todo, begun, edits, stirred>>

(* The end of install: everything else removed, the record last, staging.  *)
Finish(p) ==
    /\ \/ /\ step[p] = "keep" /\ todo[p] = {}
          /\ GoTo(p, "clean") /\ UNCHANGED <<present, installed, fetched>>
       \/ /\ step[p] = "clean"
          /\ present' = [n \in Names |-> IF n \in wanted(listing[p]) THEN present[n] ELSE Nil]
          /\ GoTo(p, "write") /\ UNCHANGED <<installed, fetched>>
       \/ /\ step[p] = "write"
          /\ installed' = plan[p]
          /\ GoTo(p, IF plan[p].kind = "trusted" THEN "done" ELSE "unstage") /\ UNCHANGED <<present, fetched>>
       \/ /\ step[p] = "unstage"
          /\ fetched' = [n \in Names |-> Nil]
          /\ GoTo(p, "done") /\ UNCHANGED <<present, installed>>
    /\ UNCHANGED <<holder, derived, listing, trust, record, plan, todo, begun, edits, stirred>>

(* install_files returns, and the lock goes with it. *)
ReturnFiles(p) ==
    /\ step[p] \in {"done", "error"}
    /\ holder' = Nil
    /\ GoTo(p, IF step[p] = "done" THEN "ok" ELSE "idle")
    /\ Forget(p)
    /\ UNCHANGED <<folder, begun, edits, stirred>>

-----------------------------------------------------------------------------
(* What can go wrong, and what else happens to the folder. *)

Fails(p) ==
    /\ step[p] \in {"unmark", "empty", "keep", "fetch", "verify", "clean", "write"}
    /\ GoTo(p, "error")
    /\ UNCHANGED <<holder, folder, listing, trust, record, plan, todo, begun, edits, stirred>>

(* The process is killed, or the future dropped while it waits. *)
Killed(p) ==
    /\ step[p] \notin {"idle", "ok"}
    /\ GoTo(p, "idle")
    /\ holder' = IF holder = p THEN Nil ELSE holder
    /\ Forget(p)
    /\ UNCHANGED <<folder, begun, edits, stirred>>

(* A file is replaced, edited or deleted by hand. *)
Edit(n, c) ==
    /\ edits < MaxEdits
    /\ edits' = edits + 1
    /\ present' = [present EXCEPT ![n] =
          IF c = Nil THEN Nil ELSE [File(c, "hand") EXCEPT !.mtime = Now + 1]]
    /\ stirred' = TRUE
    /\ UNCHANGED <<holder, installed, derived, fetched, job, begun>>

(* A process whose install succeeded computes the derived folders. *)
Derive(p) ==
    /\ step[p] = "ok" /\ holder = Nil /\ derived = Nil
    /\ derived' = present
    /\ UNCHANGED <<holder, present, installed, fetched, job, begun, edits, stirred>>

-----------------------------------------------------------------------------
FilesInit ==
    /\ holder = Nil
    /\ present = [n \in Names |-> Nil]
    /\ installed = Nil
    /\ derived = Nil
    /\ fetched = [n \in Names |-> Nil]
    /\ step = [p \in Procs |-> "idle"]
    /\ listing = [p \in Procs |-> Nil]
    /\ trust = [p \in Procs |-> FALSE]
    /\ record = [p \in Procs |-> Nil]
    /\ plan = [p \in Procs |-> Nil]
    /\ todo = [p \in Procs |-> {}]
    /\ begun = 0 /\ edits = 0
    /\ stirred = FALSE

FilesNext ==
    \/ \E p \in Procs, l \in Listings \cup {Nil}, t \in BOOLEAN : BeginFiles(p, l, t)
    \/ \E p \in Procs : \/ AcquireFolder(p) \/ Decide(p) \/ Clear(p) \/ Finish(p) \/ ReturnFiles(p) \/ Fails(p) \/ Killed(p) \/ Derive(p)
    \/ \E p \in Procs, n \in Names : Keep(p, n) \/ FetchFile(p, n) \/ MoveIn(p, n)
    \/ \E n \in Names, c \in Contents \cup {Nil} : Edit(n, c)

FilesSpec == FilesInit /\ [][FilesNext]_filesVars

-----------------------------------------------------------------------------
(* Properties. *)

(* A record of verified files is true: what it names is there, with the    *)
(* contents it names, except for what was changed by hand since.           *)
RecordTrue ==
    intact(installed) => \A n \in DOMAIN installed.files :
        present[n].by = "install" => present[n].content = installed.files[n]

(* "Never new files beside what was compiled from the old ones": nothing   *)
(* installed is beside derived folders computed from another file, and a   *)
(* trusting install that succeeds has noticed every change by hand.        *)
DerivedFresh ==
    derived # Nil =>
        /\ \A n \in Names : present[n] # Nil /\ present[n].by = "install" =>
              derived[n] # Nil /\ derived[n].content = present[n].content
        /\ \A p \in Procs : step[p] = "done" /\ trust[p] /\ ~stirred =>
              \/ ~Trusts(p)
              \/ \A n \in trusted_names(listing[p], installed) : derived[n] = present[n]
=============================================================================
