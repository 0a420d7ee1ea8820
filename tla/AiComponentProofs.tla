------------------------- MODULE AiComponentProofs --------------------------
(***************************************************************************)
(* Proofs about AiInstallFiles, for any number of processes, files,        *)
(* listings, installs and changes by hand, and about AiSession, for any    *)
(* number of threads, providers asked for, failed allocations and ends of  *)
(* the process; and about AiHub, for any history of a repository's pages.  *)
(***************************************************************************)
EXTENDS AiInstallFiles, AiSession, AiHub, SequenceTheorems, FiniteSetTheorems, TLAPS

-----------------------------------------------------------------------------
(* Installed files. *)

Labels == {"idle", "ok", "lock", "decide", "unmark", "empty", "keep", "fetch", "verify",
           "clean", "write", "unstage", "done", "error"}
Files == [content : Contents, size : Nat, by : {"install", "hand"}, mtime : Nat]

FilesTypeOK ==
    /\ holder \in Procs \cup {Nil}
    /\ present \in [Names -> Files \cup {Nil}]
    /\ installed \in Records \cup {Nil}
    /\ derived \in [Names -> Files \cup {Nil}] \cup {Nil}
    /\ fetched \in [Names -> Contents \cup {Nil}]
    /\ step \in [Procs -> Labels]
    /\ listing \in [Procs -> Listings \cup {Nil}]
    /\ trust \in [Procs -> BOOLEAN]
    /\ record \in [Procs -> Records \cup {Nil}]
    /\ plan \in [Procs -> Records \cup {Nil}]
    /\ todo \in [Procs -> SUBSET Names]
    /\ begun \in Nat /\ edits \in Nat /\ stirred \in BOOLEAN

(* One process at a time works in the folder.                               *)
Locked == \A p \in Procs : step[p] \notin {"idle", "ok", "lock"} => holder = p

(* The record is gone before the derived folders are, and both before the   *)
(* first file changes.                                                      *)
Cleared ==
    \A p \in Procs :
       /\ step[p] \in {"empty", "keep", "fetch", "verify", "clean", "write"} => installed = Nil
       /\ step[p] \in {"keep", "fetch", "verify", "clean", "write", "unstage"} => derived = Nil

(* A process that means to install what is listed, and how far it has got.  *)
Installing(p) ==
    /\ step[p] \in {"unmark", "empty", "keep", "fetch", "verify", "clean", "write"}
    /\ plan[p].kind = "files"
Planned ==
    \A p \in Procs :
       /\ step[p] \in {"unmark", "empty", "keep", "fetch", "verify", "clean", "write"} =>
             plan[p] \in Records
       /\ step[p] \in {"keep", "fetch", "verify", "clean", "unstage"} => plan[p].kind = "files"
       /\ Installing(p) =>
             /\ listing[p] \in Listings
             /\ plan[p].files = [n \in wanted(listing[p]) |-> listing[p][n]]
             /\ todo[p] \subseteq wanted(listing[p])
       /\ Installing(p) /\ step[p] \in {"clean", "write"} => todo[p] = {}

(* What is said of a file is true unless it was changed by hand.            *)
IsTrue(n, c) ==
    present[n] # Nil /\ present[n].by = "install" => present[n].content = c

(* So is the record, the record a process has read, of the files it has yet *)
(* to deal with, and the listing, of those it has dealt with.               *)
RecordIsTrue ==
    installed # Nil /\ installed.kind = "files" =>
        \A n \in DOMAIN installed.files : IsTrue(n, installed.files[n])
ReadIsTrue ==
    \A p \in Procs : Installing(p) =>
        \A n \in todo[p], c \in Contents : recorded_as(record[p], n, c) => IsTrue(n, c)
DealtWithIsTrue ==
    \A p \in Procs : Installing(p) =>
        \A n \in wanted(listing[p]) \ todo[p] : IsTrue(n, listing[p][n])

(* No file, and no stamp, has a time still to come.                         *)
PastStamp(r) ==
    r # Nil /\ r.kind = "trusted" => \A n \in DOMAIN r.stamp : r.stamp[n][2] \in 0 .. Now
InThePast ==
    /\ \A n \in Names : present[n] # Nil => present[n].mtime \in 0 .. Now
    /\ PastStamp(installed)
    /\ \A p \in Procs : PastStamp(plan[p])

(* What was derived came from the files installed, and from every file that *)
(* still has the time it was stamped with.                                  *)
DerivedFromInstalled ==
    derived # Nil => \A n \in Names : present[n] # Nil /\ present[n].by = "install" =>
        derived[n] # Nil /\ derived[n].content = present[n].content
DerivedFromStamped ==
    derived # Nil /\ installed # Nil /\ installed.kind = "trusted" =>
        \A n \in DOMAIN installed.stamp :
           present[n] # Nil /\ installed.stamp[n][2] = present[n].mtime => derived[n] = present[n]

(* A trusting install that succeeds has found its stamp, or left nothing    *)
(* derived.                                                                 *)
DoneTrusting ==
    \A p \in Procs : step[p] = "done" /\ trust[p] /\ ~stirred =>
        \/ derived = Nil \/ ~Trusts(p)
        \/ installed = stamp(trusted_names(listing[p], installed))

FilesInv ==
    /\ FilesTypeOK /\ Locked /\ Cleared /\ Planned
    /\ RecordIsTrue /\ ReadIsTrue /\ DealtWithIsTrue
    /\ InThePast /\ DerivedFromInstalled /\ DerivedFromStamped /\ DoneTrusting

(* What a listing selects, and the records made of it and of the folder.    *)
LEMMA WantedListed ==
  ASSUME NEW l \in Listings
  PROVE  /\ wanted(l) \subseteq DOMAIN l /\ wanted(l) \subseteq Names
         /\ \A n \in wanted(l) : l[n] \in Contents
<1>1. PICK N \in SUBSET Names : l \in [N -> Contents]
  BY FilesAssumption
<1> QED BY <1>1 DEF wanted

(* What verifying a listing records is a record of its wanted files. *)
LEMMA VerifiedListing ==
  ASSUME NEW l \in Listings
  PROVE  Verified([n \in wanted(l) |-> l[n]]) \in Records
<1> DEFINE N == wanted(l)
           files == [n \in N |-> l[n]]
<1>1. N \in SUBSET Names /\ files \in [N -> Contents]
  BY WantedListed
<1> HIDE DEF files, N
<1>2. files \in UNION {[M -> Contents] : M \in SUBSET Names}
  BY <1>1
<1> QED BY <1>2 DEF Verified, Records, files, N

(* The stamp of files that are all there is a trusted record, of times that
   are not in the future. *)
LEMMA StampOfFolder ==
  ASSUME FilesTypeOK, InThePast, NEW names \in SUBSET Names,
         \A n \in names : present[n] # Nil
  PROVE  /\ stamp(names) \in Records /\ stamp(names).kind = "trusted"
         /\ PastStamp(stamp(names))
<1> DEFINE times == [n \in names |-> <<present[n].size, present[n].mtime>>]
<1>1. times \in [names -> Nat \X Nat] /\ \A n \in names : times[n][2] \in 0 .. Now
  BY DEF FilesTypeOK, Files, InThePast
<1>2. stamp(names) = [kind |-> "trusted", stamp |-> times]
  BY DEF stamp
<1> HIDE DEF times
<1>3. times \in UNION {[N -> Nat \X Nat] : N \in SUBSET Names} /\ DOMAIN times = names
  BY <1>1
<1> QED BY <1>1, <1>2, <1>3 DEF Records, PastStamp

(* trusted_names returns names of the folder, whatever is recorded. *)
LEMMA TrustedNames ==
  ASSUME FilesTypeOK, NEW p \in Procs
  PROVE  trusted_names(listing[p], installed) \in SUBSET Names
<1>1. CASE listing[p] # Nil
  <2>1. listing[p] \in Listings
    BY <1>1 DEF FilesTypeOK
  <2>2. PICK N \in SUBSET Names : listing[p] \in [N -> Contents]
    BY <2>1, FilesAssumption
  <2> QED BY <1>1, <2>2 DEF trusted_names
<1>2. CASE listing[p] = Nil /\ installed # Nil /\ installed.kind = "files"
  <2>1. installed \in [kind : {"files"}, files : UNION {[N -> Contents] : N \in SUBSET Names}]
    BY <1>2 DEF FilesTypeOK, Records
  <2>2. PICK N \in SUBSET Names : installed.files \in [N -> Contents]
    BY <2>1
  <2> QED BY <1>2, <2>2 DEF trusted_names
<1>3. CASE listing[p] = Nil /\ ~(installed # Nil /\ installed.kind = "files")
  BY <1>3 DEF trusted_names
<1> QED BY <1>1, <1>2, <1>3

(* A process that is done stays so while the folder stays as it is.         *)
LEMMA DoneStays ==
  ASSUME DoneTrusting, UNCHANGED <<present, installed, derived, stirred>>,
         \A p \in Procs : step'[p] = "done" =>
            step[p] = "done" /\ listing'[p] = listing[p] /\ trust'[p] = trust[p]
  PROVE  DoneTrusting'
<1> SUFFICES ASSUME NEW p \in Procs, step'[p] = "done", trust'[p], ~stirred'
             PROVE  \/ derived' = Nil \/ ~Trusts(p)'
                    \/ (installed = stamp(trusted_names(listing[p], installed)))'
  BY DEF DoneTrusting
<1>1. step[p] = "done" /\ listing'[p] = listing[p] /\ trust'[p] = trust[p]
  OBVIOUS
<1>2. trusted_names(listing[p], installed)' = trusted_names(listing[p], installed)
  BY <1>1 DEF trusted_names
<1> DEFINE names == trusted_names(listing[p], installed)
<1>3. stamp(names)' = stamp(names)
  BY <1>2 DEF stamp
<1>4. Trusts(p)' <=> Trusts(p)
  BY <1>1, <1>2 DEF Trusts
<1> QED BY <1>1, <1>2, <1>3, <1>4 DEF DoneTrusting

(* install_files begins: nothing of the folder is read before the lock.    *)
LEMMA BeginFilesKeepsFiles ==
  ASSUME FilesInv, NEW p \in Procs, NEW l \in Listings \cup {Nil}, NEW t \in BOOLEAN, BeginFiles(p, l, t)
  PROVE  FilesInv'
<1> USE FilesAssumption DEF FilesInv, BeginFiles, GoTo, folder, job
<1>1. FilesTypeOK'
  BY DEF FilesTypeOK, Labels, Files
<1>2. Locked'
  BY DEF FilesTypeOK, Locked
<1>3. Cleared'
  BY DEF FilesTypeOK, Locked, Cleared
<1>4. Planned'
  BY DEF FilesTypeOK, Planned, Installing
<1>5. RecordIsTrue'
  BY DEF FilesTypeOK, Locked, Cleared, Planned, Installing, RecordIsTrue, DealtWithIsTrue, IsTrue
<1>6. ReadIsTrue'
  BY DEF FilesTypeOK, Locked, Planned, Installing, RecordIsTrue, ReadIsTrue, IsTrue
<1>7. DealtWithIsTrue'
  BY DEF FilesTypeOK, Locked, Planned, Installing, ReadIsTrue, DealtWithIsTrue, IsTrue
<1>8. InThePast'
  BY DEF FilesTypeOK, Files, InThePast, PastStamp, Now
<1>9. DerivedFromInstalled'
  BY DEF FilesTypeOK, Locked, Cleared, DerivedFromInstalled
<1>10. DerivedFromStamped'
  BY DEF FilesTypeOK, Locked, Cleared, InThePast, PastStamp, DerivedFromStamped
<1>11. DoneTrusting'
  BY DoneStays DEF FilesTypeOK
<1> QED BY <1>1, <1>2, <1>3, <1>4, <1>5, <1>6, <1>7, <1>8, <1>9, <1>10, <1>11

(* The lock is taken, and with it the folder: nobody else is at work in    *)
(* it.                                                                     *)
LEMMA AcquireFolderKeepsFiles ==
  ASSUME FilesInv, NEW p \in Procs, AcquireFolder(p)
  PROVE  FilesInv'
<1> USE FilesAssumption DEF FilesInv, AcquireFolder, GoTo, folder, job
<1>1. FilesTypeOK'
  BY DEF FilesTypeOK, Labels, Files
<1>2. Locked'
  BY DEF FilesTypeOK, Locked
<1>3. Cleared'
  BY DEF FilesTypeOK, Locked, Cleared
<1>4. Planned'
  BY DEF FilesTypeOK, Planned, Installing
<1>5. RecordIsTrue'
  BY DEF FilesTypeOK, Locked, Cleared, Planned, Installing, RecordIsTrue, DealtWithIsTrue, IsTrue
<1>6. ReadIsTrue'
  BY DEF FilesTypeOK, Locked, Planned, Installing, RecordIsTrue, ReadIsTrue, IsTrue
<1>7. DealtWithIsTrue'
  BY DEF FilesTypeOK, Locked, Planned, Installing, ReadIsTrue, DealtWithIsTrue, IsTrue
<1>8. InThePast'
  BY DEF FilesTypeOK, Files, InThePast, PastStamp, Now
<1>9. DerivedFromInstalled'
  BY DEF FilesTypeOK, Locked, Cleared, DerivedFromInstalled
<1>10. DerivedFromStamped'
  BY DEF FilesTypeOK, Locked, Cleared, InThePast, PastStamp, DerivedFromStamped
<1>11. DoneTrusting'
  BY DEF FilesTypeOK, Locked, Cleared, DoneTrusting, Trusts, trusted_names, stamp
<1> QED BY <1>1, <1>2, <1>3, <1>4, <1>5, <1>6, <1>7, <1>8, <1>9, <1>10, <1>11

(* run: what it decides, and what that says of the record it will write.    *)
LEMMA WhatIsDecided ==
  ASSUME FilesInv, NEW p \in Procs, Decide(p)
  PROVE  \E label \in {"done", "unmark", "error"}, r \in Records \cup {Nil}, files \in SUBSET Names :
           /\ step' = [step EXCEPT ![p] = label] /\ record' = [record EXCEPT ![p] = installed]
           /\ plan' = [plan EXCEPT ![p] = r] /\ todo' = [todo EXCEPT ![p] = files]
           /\ PastStamp(r)
           /\ label = "unmark" => r \in Records
           /\ label = "unmark" /\ r.kind = "files" =>
                 /\ listing[p] \in Listings /\ files = wanted(listing[p])
                 /\ r.files = [n \in wanted(listing[p]) |-> listing[p][n]]
           /\ label = "done" /\ Trusts(p) =>
                 installed = stamp(trusted_names(listing[p], installed))
<1> DEFINE names == trusted_names(listing[p], installed)
           l == listing[p]
<1>1. CASE Trusts(p)
  <2> DEFINE label == IF installed = stamp(names) THEN "done" ELSE "unmark"
             r == stamp(names)
  <2>1. /\ step' = [step EXCEPT ![p] = label] /\ record' = [record EXCEPT ![p] = installed]
        /\ plan' = [plan EXCEPT ![p] = r] /\ todo' = [todo EXCEPT ![p] = {}]
    BY <1>1 DEF Decide, GoTo
  <2>2. names \in SUBSET Names /\ \A n \in names : present[n] # Nil
    BY <1>1, TrustedNames DEF FilesInv, Trusts
  <2>3. r \in Records /\ r.kind = "trusted" /\ PastStamp(r)
    BY <2>2, StampOfFolder DEF FilesInv
  <2>4. label \in {"done", "unmark"} /\ (label = "done" => installed = r)
    OBVIOUS
  <2>5. r = stamp(names)
    OBVIOUS
  <2> HIDE DEF label, r
  <2>6. /\ label \in {"done", "unmark", "error"} /\ r \in Records \cup {Nil}
        /\ {} \in SUBSET Names /\ r.kind # "files"
    BY <2>3, <2>4
  <2>7. label = "done" => installed = stamp(names)
    BY <2>4, <2>5
  <2> HIDE DEF names
  <2> QED BY <2>1, <2>3, <2>6, <2>7 DEF names
<1>2. CASE ~Trusts(p) /\ (l = Nil \/ wanted(l) = {})
  <2>1. PICK label \in {"done", "error"} :
          /\ step' = [step EXCEPT ![p] = label] /\ record' = [record EXCEPT ![p] = installed]
          /\ plan' = [plan EXCEPT ![p] = Nil] /\ todo' = [todo EXCEPT ![p] = {}]
    BY <1>2 DEF Decide, GoTo
  <2>2. PastStamp(Nil)
    BY DEF PastStamp
  <2> QED BY <1>2, <2>1, <2>2
<1>3. CASE ~Trusts(p) /\ l # Nil /\ wanted(l) # {}
  <2> DEFINE files == [n \in wanted(l) |-> l[n]]
             r == Verified(files)
  <2>1. PICK label \in {"done", "unmark"} :
          /\ step' = [step EXCEPT ![p] = label] /\ record' = [record EXCEPT ![p] = installed]
          /\ plan' = [plan EXCEPT ![p] = r] /\ todo' = [todo EXCEPT ![p] = wanted(l)]
    BY <1>3 DEF Decide, GoTo
  <2>2. l \in Listings
    BY <1>3 DEF FilesInv, FilesTypeOK
  <2>3. r \in Records /\ wanted(l) \in SUBSET Names
    BY <2>2, VerifiedListing, WantedListed
  <2>4. r.kind = "files" /\ r.files = files /\ PastStamp(r)
    BY DEF Verified, PastStamp
  <2> HIDE DEF r
  <2> QED BY <1>3, <2>1, <2>2, <2>3, <2>4
<1> QED BY <1>1, <1>2, <1>3

(* run: whatever it decides, what it will write is yet to be made true.    *)
LEMMA DecideKeepsFiles ==
  ASSUME FilesInv, NEW p \in Procs, Decide(p)
  PROVE  FilesInv'
<1> USE DEF FilesInv, folder
<1>0. /\ UNCHANGED <<holder, present, installed, derived, fetched, listing, trust, begun, edits, stirred>>
      /\ step[p] = "decide"
  BY DEF Decide
<1>a. PICK label \in {"done", "unmark", "error"}, r \in Records \cup {Nil}, files \in SUBSET Names :
           /\ step' = [step EXCEPT ![p] = label] /\ record' = [record EXCEPT ![p] = installed]
           /\ plan' = [plan EXCEPT ![p] = r] /\ todo' = [todo EXCEPT ![p] = files]
           /\ PastStamp(r)
           /\ label = "unmark" => r \in Records
           /\ label = "unmark" /\ r.kind = "files" =>
                 /\ listing[p] \in Listings /\ files = wanted(listing[p])
                 /\ r.files = [n \in wanted(listing[p]) |-> listing[p][n]]
           /\ label = "done" /\ Trusts(p) =>
                 installed = stamp(trusted_names(listing[p], installed))
  BY WhatIsDecided
<1>b. /\ step'[p] = label /\ record'[p] = installed /\ plan'[p] = r /\ todo'[p] = files
      /\ \A q \in Procs \ {p} : /\ step'[q] = step[q] /\ record'[q] = record[q]
                                /\ plan'[q] = plan[q] /\ todo'[q] = todo[q]
  BY <1>a DEF FilesTypeOK
<1>1. FilesTypeOK'
  BY <1>0, <1>a DEF FilesTypeOK, Labels
<1>2. Locked'
  BY <1>0, <1>b DEF Locked
<1>3. Cleared'
  BY <1>0, <1>b DEF Cleared
<1>4. Planned'
  BY <1>0, <1>a, <1>b DEF Planned, Installing
<1>5. RecordIsTrue'
  BY <1>0 DEF RecordIsTrue, IsTrue
<1>6. ReadIsTrue'
  BY <1>0, <1>b DEF RecordIsTrue, ReadIsTrue, Installing, IsTrue, recorded_as
<1>7. DealtWithIsTrue'
  BY <1>0, <1>a, <1>b DEF DealtWithIsTrue, Installing, IsTrue
<1>8. InThePast'
  BY <1>0, <1>a, <1>b DEF InThePast, PastStamp, Now
<1>9. DerivedFromInstalled'
  BY <1>0 DEF DerivedFromInstalled
<1>10. DerivedFromStamped'
  BY <1>0 DEF DerivedFromStamped
<1>11. DoneTrusting'
  <2>1. Trusts(p)' <=> Trusts(p)
    BY <1>0 DEF Trusts, trusted_names
  <2>2. stamp(trusted_names(listing[p], installed))' = stamp(trusted_names(listing[p], installed))
    BY <1>0 DEF stamp, trusted_names
  <2>3. \A q \in Procs \ {p} : step'[q] # "done"
    BY <1>0, <1>b DEF Locked
  <2> QED BY <1>0, <1>a, <1>b, <2>1, <2>2, <2>3 DEF DoneTrusting
<1> QED BY <1>1, <1>2, <1>3, <1>4, <1>5, <1>6, <1>7, <1>8, <1>9, <1>10, <1>11

(* clear: the record goes first, then what was derived.                    *)
LEMMA ClearKeepsFiles ==
  ASSUME FilesInv, NEW p \in Procs, Clear(p)
  PROVE  FilesInv'
<1> USE FilesAssumption DEF FilesInv, Clear, AfterClear, GoTo, folder, job
<1>1. FilesTypeOK'
  BY DEF FilesTypeOK, Labels, Files
<1>2. Locked'
  BY DEF FilesTypeOK, Locked
<1>3. Cleared'
  BY DEF FilesTypeOK, Locked, Cleared
<1>4. Planned'
  <2>1. plan[p] \in Records => plan[p].kind \in {"files", "trusted"}
    BY DEF Records
  <2>2. /\ step'[p] \in {"empty", "write", "keep"}
        /\ step'[p] = "empty" => step[p] = "unmark"
        /\ step'[p] = "keep" => step[p] = "empty" /\ plan[p].kind # "trusted"
        /\ step'[p] = "write" => step[p] = "empty" /\ plan[p].kind = "trusted"
        /\ \A q \in Procs \ {p} : step'[q] = step[q]
        /\ UNCHANGED <<listing, plan, todo>>
    BY DEF FilesTypeOK
  <2> QED BY <2>1, <2>2 DEF Planned, Installing
<1>5. RecordIsTrue'
  BY DEF FilesTypeOK, Locked, Cleared, Planned, Installing, RecordIsTrue, DealtWithIsTrue, IsTrue
<1>6. ReadIsTrue'
  BY DEF FilesTypeOK, Locked, Planned, Installing, RecordIsTrue, ReadIsTrue, IsTrue
<1>7. DealtWithIsTrue'
  BY DEF FilesTypeOK, Locked, Planned, Installing, ReadIsTrue, DealtWithIsTrue, IsTrue
<1>8. InThePast'
  BY DEF FilesTypeOK, Files, InThePast, PastStamp, Now
<1>9. DerivedFromInstalled'
  BY DEF FilesTypeOK, Locked, Cleared, DerivedFromInstalled
<1>10. DerivedFromStamped'
  BY DEF FilesTypeOK, Locked, Cleared, InThePast, PastStamp, DerivedFromStamped
<1>11. DoneTrusting'
  BY DEF FilesTypeOK, Locked, Cleared, DoneTrusting, Trusts, trusted_names, stamp
<1> QED BY <1>1, <1>2, <1>3, <1>4, <1>5, <1>6, <1>7, <1>8, <1>9, <1>10, <1>11

(* keep: a file is dealt with because the true record read, or its own     *)
(* hash, says what is listed.                                              *)
LEMMA KeepKeepsFiles ==
  ASSUME FilesInv, NEW p \in Procs, NEW n \in Names, Keep(p, n)
  PROVE  FilesInv'
<1> USE FilesAssumption DEF FilesInv, Keep, GoTo, folder, job
<1>1. FilesTypeOK'
  BY DEF FilesTypeOK, Labels, Files
<1>2. Locked'
  BY DEF FilesTypeOK, Locked
<1>3. Cleared'
  BY DEF FilesTypeOK, Locked, Cleared
<1>a. /\ step[p] = "keep" /\ n \in todo[p]
      /\ UNCHANGED <<present, installed, listing, record, plan>>
      /\ \A q \in Procs \ {p} : step'[q] = step[q] /\ todo'[q] = todo[q]
      /\ step'[p] \in {"keep", "fetch"}
      /\ \/ todo'[p] = todo[p]
         \/ /\ todo'[p] = todo[p] \ {n} /\ present[n] # Nil
            /\ recorded_as(record[p], n, listing[p][n]) \/ present[n].content = listing[p][n]
  BY DEF FilesTypeOK
<1>4. Planned'
  BY <1>a DEF Planned, Installing
<1>5. RecordIsTrue'
  BY DEF FilesTypeOK, Locked, Cleared, Planned, Installing, RecordIsTrue, DealtWithIsTrue, IsTrue
<1>6. ReadIsTrue'
  BY DEF FilesTypeOK, Locked, Planned, Installing, RecordIsTrue, ReadIsTrue, IsTrue
<1>7. DealtWithIsTrue'
  <2>1. Installing(p)
    BY <1>a DEF Planned, Installing
  <2>2. listing[p][n] \in Contents
    BY <1>a, <2>1, WantedListed DEF Planned
  <2>3. n \notin todo'[p] => IsTrue(n, listing[p][n])
    BY <1>a, <2>1, <2>2 DEF ReadIsTrue, IsTrue
  <2> QED BY <1>a, <2>1, <2>3 DEF DealtWithIsTrue, Installing, IsTrue
<1>8. InThePast'
  BY DEF FilesTypeOK, Files, InThePast, PastStamp, Now
<1>9. DerivedFromInstalled'
  BY DEF FilesTypeOK, Locked, Cleared, DerivedFromInstalled
<1>10. DerivedFromStamped'
  BY DEF FilesTypeOK, Locked, Cleared, InThePast, PastStamp, DerivedFromStamped
<1>11. DoneTrusting'
  BY DEF FilesTypeOK, Locked, Cleared, DoneTrusting, Trusts, trusted_names, stamp
<1> QED BY <1>1, <1>2, <1>3, <1>4, <1>5, <1>6, <1>7, <1>8, <1>9, <1>10, <1>11

(* fetch_verified: staging is no part of the folder.                       *)
LEMMA FetchFileKeepsFiles ==
  ASSUME FilesInv, NEW p \in Procs, NEW n \in Names, FetchFile(p, n)
  PROVE  FilesInv'
<1> USE FilesAssumption DEF FilesInv, FetchFile, GoTo, folder, job
<1>1. FilesTypeOK'
  BY DEF FilesTypeOK, Labels, Files
<1>2. Locked'
  BY DEF FilesTypeOK, Locked
<1>3. Cleared'
  BY DEF FilesTypeOK, Locked, Cleared
<1>4. Planned'
  BY DEF FilesTypeOK, Planned, Installing
<1>5. RecordIsTrue'
  BY DEF FilesTypeOK, Locked, Cleared, Planned, Installing, RecordIsTrue, DealtWithIsTrue, IsTrue
<1>6. ReadIsTrue'
  BY DEF FilesTypeOK, Locked, Planned, Installing, RecordIsTrue, ReadIsTrue, IsTrue
<1>7. DealtWithIsTrue'
  BY DEF FilesTypeOK, Locked, Planned, Installing, ReadIsTrue, DealtWithIsTrue, IsTrue
<1>8. InThePast'
  BY DEF FilesTypeOK, Files, InThePast, PastStamp, Now
<1>9. DerivedFromInstalled'
  BY DEF FilesTypeOK, Locked, Cleared, DerivedFromInstalled
<1>10. DerivedFromStamped'
  BY DEF FilesTypeOK, Locked, Cleared, InThePast, PastStamp, DerivedFromStamped
<1>11. DoneTrusting'
  BY DEF FilesTypeOK, Locked, Cleared, DoneTrusting, Trusts, trusted_names, stamp
<1> QED BY <1>1, <1>2, <1>3, <1>4, <1>5, <1>6, <1>7, <1>8, <1>9, <1>10, <1>11

(* A file moves in while nothing is recorded and nothing is derived.       *)
LEMMA MoveInKeepsFiles ==
  ASSUME FilesInv, NEW p \in Procs, NEW n \in Names, MoveIn(p, n)
  PROVE  FilesInv'
<1> USE FilesAssumption DEF FilesInv, MoveIn, File, GoTo, folder, job
<1>a. /\ step[p] = "verify" /\ n \in todo[p] /\ fetched[n] = listing[p][n]
      /\ present' = [present EXCEPT ![n] = File(fetched[n], "install")]
      /\ UNCHANGED <<holder, installed, derived, listing, trust, record, plan, begun, edits, stirred>>
  OBVIOUS
<1>b. Installing(p) /\ listing[p][n] \in Contents /\ n \in wanted(listing[p])
  BY <1>a, WantedListed DEF Planned, Installing
<1>c. /\ File(fetched[n], "install") \in Files
      /\ File(fetched[n], "install").content = listing[p][n]
  BY <1>a, <1>b DEF File, Files, FilesTypeOK, Now
<1>d. /\ step'[p] = "keep" /\ todo'[p] = todo[p] \ {n}
      /\ present'[n].content = listing[p][n]
      /\ \A q \in Procs \ {p} : step'[q] = step[q] /\ todo'[q] = todo[q]
      /\ \A m \in Names \ {n} : present'[m] = present[m]
  BY <1>a, <1>c DEF FilesTypeOK
<1>1. FilesTypeOK'
  <2>1. present' \in [Names -> Files \cup {Nil}]
    BY <1>a, <1>c DEF FilesTypeOK
  <2>2. /\ fetched' \in [Names -> Contents \cup {Nil}]
        /\ step' \in [Procs -> Labels] /\ todo' \in [Procs -> SUBSET Names]
    BY DEF FilesTypeOK, Labels
  <2> QED BY <1>a, <2>1, <2>2 DEF FilesTypeOK
<1>2. Locked'
  BY DEF FilesTypeOK, Locked
<1>3. Cleared'
  BY DEF FilesTypeOK, Locked, Cleared
<1>4. Planned'
  BY DEF FilesTypeOK, Planned, Installing
<1>5. RecordIsTrue'
  BY DEF FilesTypeOK, Locked, Cleared, Planned, Installing, RecordIsTrue, DealtWithIsTrue, IsTrue
<1>6. ReadIsTrue'
  BY DEF FilesTypeOK, Locked, Planned, Installing, RecordIsTrue, ReadIsTrue, IsTrue
<1>7. DealtWithIsTrue'
  <2>1. \A q \in Procs \ {p} : ~Installing(q)
    BY <1>a DEF Locked, Installing
  <2>2. \A m \in wanted(listing[p]) \ todo'[p] : IsTrue(m, listing[p][m])'
    <3> SUFFICES ASSUME NEW m \in wanted(listing[p]) \ todo'[p]
                 PROVE  IsTrue(m, listing[p][m])'
      OBVIOUS
    <3>1. CASE m = n
      BY <1>a, <1>d, <3>1 DEF IsTrue
    <3>2. CASE m # n
      <4>1. m \in Names
        BY <1>a, <1>b, WantedListed DEF Planned
      <4> QED BY <1>a, <1>b, <1>d, <3>2, <4>1 DEF DealtWithIsTrue, IsTrue
    <3> QED BY <3>1, <3>2
  <2>3. \A q \in Procs : Installing(q)' => q = p
    BY <1>a, <1>d, <2>1 DEF Installing
  <2> QED BY <1>a, <2>2, <2>3 DEF DealtWithIsTrue
<1>8. InThePast'
  BY DEF FilesTypeOK, Files, InThePast, PastStamp, Now
<1>9. DerivedFromInstalled'
  BY DEF FilesTypeOK, Locked, Cleared, DerivedFromInstalled
<1>10. DerivedFromStamped'
  BY DEF FilesTypeOK, Locked, Cleared, InThePast, PastStamp, DerivedFromStamped
<1>11. DoneTrusting'
  BY DEF FilesTypeOK, Locked, Cleared, DoneTrusting, Trusts, trusted_names, stamp
<1> QED BY <1>1, <1>2, <1>3, <1>4, <1>5, <1>6, <1>7, <1>8, <1>9, <1>10, <1>11

(* The end of an install: the record is written when every file is dealt   *)
(* with.                                                                   *)
LEMMA FinishKeepsFiles ==
  ASSUME FilesInv, NEW p \in Procs, Finish(p)
  PROVE  FilesInv'
<1> USE FilesAssumption DEF FilesInv, Finish, GoTo, folder, job
<1>1. FilesTypeOK'
  BY DEF FilesTypeOK, Labels, Files
<1>2. Locked'
  BY DEF FilesTypeOK, Locked
<1>3. Cleared'
  BY DEF FilesTypeOK, Locked, Cleared
<1>a. /\ step[p] \in {"keep", "clean", "write", "unstage"}
      /\ UNCHANGED <<listing, record, plan, todo>>
      /\ \A q \in Procs \ {p} : step'[q] = step[q]
      /\ step[p] = "keep" => step'[p] = "clean" /\ todo[p] = {}
      /\ step[p] = "clean" => step'[p] = "write"
      /\ step[p] = "write" => /\ installed' = plan[p]
                             /\ step'[p] = IF plan[p].kind = "trusted" THEN "done" ELSE "unstage"
      /\ step[p] = "unstage" => step'[p] = "done"
      /\ step[p] # "write" => installed' = installed
      /\ \A n \in Names : present'[n] \in {present[n], Nil}
  BY DEF FilesTypeOK
<1>b. plan[p] \in Records => plan[p].kind \in {"files", "trusted"}
  BY DEF Records
<1>4. Planned'
  BY <1>a, <1>b DEF Planned, Installing
<1>c. \A n \in Names : \A c : IsTrue(n, c) => IsTrue(n, c)'
  BY <1>a DEF IsTrue
<1>d. Installing(p) => /\ listing[p] \in Listings /\ wanted(listing[p]) \subseteq Names
                       /\ DOMAIN plan[p].files = wanted(listing[p])
                       /\ \A n \in wanted(listing[p]) : plan[p].files[n] = listing[p][n]
  <2> SUFFICES ASSUME Installing(p)
               PROVE  /\ listing[p] \in Listings /\ wanted(listing[p]) \subseteq Names
                      /\ DOMAIN plan[p].files = wanted(listing[p])
                      /\ \A n \in wanted(listing[p]) : plan[p].files[n] = listing[p][n]
    OBVIOUS
  <2>1. /\ listing[p] \in Listings
        /\ plan[p].files = [n \in wanted(listing[p]) |-> listing[p][n]]
    BY DEF Planned
  <2>2. wanted(listing[p]) \subseteq Names
    BY <2>1, WantedListed
  <2> QED BY <2>1, <2>2
<1>5. RecordIsTrue'
  <2>1. CASE step[p] # "write"
    <3>1. installed # Nil /\ installed.kind = "files" => DOMAIN installed.files \subseteq Names
      BY DEF FilesTypeOK, Records
    <3> QED BY <1>a, <1>c, <2>1, <3>1 DEF RecordIsTrue
  <2>2. CASE step[p] = "write" /\ plan[p].kind = "files"
    <3>1. Installing(p) /\ todo[p] = {}
      BY <2>2 DEF Installing, Planned
    <3>2. \A n \in wanted(listing[p]) : IsTrue(n, listing[p][n])'
      BY <1>c, <1>d, <3>1 DEF DealtWithIsTrue
    <3>3. installed' = plan[p]
      BY <1>a, <2>2
    <3> QED BY <1>d, <3>1, <3>2, <3>3 DEF RecordIsTrue
  <2>3. CASE step[p] = "write" /\ plan[p].kind # "files"
    BY <1>a, <2>3 DEF RecordIsTrue
  <2> QED BY <2>1, <2>2, <2>3
<1>e. \A q \in Procs : Installing(q)' => q = p /\ Installing(p)
  <2>1. \A q \in Procs \ {p} : ~Installing(q)
    BY <1>a DEF Locked, Installing
  <2> QED BY <1>a, <2>1 DEF Installing
<1>6. ReadIsTrue'
  BY DEF FilesTypeOK, Locked, Planned, Installing, RecordIsTrue, ReadIsTrue, IsTrue
<1>7. DealtWithIsTrue'
  <2> SUFFICES ASSUME Installing(p), NEW n \in wanted(listing[p]) \ todo[p]
               PROVE  IsTrue(n, listing[p][n])'
    BY <1>a, <1>e DEF DealtWithIsTrue
  <2> QED BY <1>c, <1>d DEF DealtWithIsTrue
<1>8. InThePast'
  BY DEF FilesTypeOK, Files, InThePast, PastStamp, Now
<1>9. DerivedFromInstalled'
  BY DEF FilesTypeOK, Locked, Cleared, DerivedFromInstalled
<1>10. DerivedFromStamped'
  BY DEF FilesTypeOK, Locked, Cleared, InThePast, PastStamp, DerivedFromStamped
<1>11. DoneTrusting'
  BY DEF FilesTypeOK, Locked, Cleared, DoneTrusting, Trusts, trusted_names, stamp
<1> QED BY <1>1, <1>2, <1>3, <1>4, <1>5, <1>6, <1>7, <1>8, <1>9, <1>10, <1>11

(* install_files returns and gives up the lock.                            *)
LEMMA ReturnFilesKeepsFiles ==
  ASSUME FilesInv, NEW p \in Procs, ReturnFiles(p)
  PROVE  FilesInv'
<1> USE FilesAssumption DEF FilesInv, ReturnFiles, Forget, GoTo, folder, job
<1>1. FilesTypeOK'
  BY DEF FilesTypeOK, Labels, Files
<1>2. Locked'
  BY DEF FilesTypeOK, Locked
<1>3. Cleared'
  BY DEF FilesTypeOK, Locked, Cleared
<1>4. Planned'
  BY DEF FilesTypeOK, Planned, Installing
<1>5. RecordIsTrue'
  BY DEF FilesTypeOK, Locked, Cleared, Planned, Installing, RecordIsTrue, DealtWithIsTrue, IsTrue
<1>6. ReadIsTrue'
  BY DEF FilesTypeOK, Locked, Planned, Installing, RecordIsTrue, ReadIsTrue, IsTrue
<1>7. DealtWithIsTrue'
  BY DEF FilesTypeOK, Locked, Planned, Installing, ReadIsTrue, DealtWithIsTrue, IsTrue
<1>8. InThePast'
  BY DEF FilesTypeOK, Files, InThePast, PastStamp, Now
<1>9. DerivedFromInstalled'
  BY DEF FilesTypeOK, Locked, Cleared, DerivedFromInstalled
<1>10. DerivedFromStamped'
  BY DEF FilesTypeOK, Locked, Cleared, InThePast, PastStamp, DerivedFromStamped
<1>11. DoneTrusting'
  BY DEF FilesTypeOK, Locked, Cleared, DoneTrusting, Trusts, trusted_names, stamp
<1> QED BY <1>1, <1>2, <1>3, <1>4, <1>5, <1>6, <1>7, <1>8, <1>9, <1>10, <1>11

(* An error on the way leaves the folder as it is.                         *)
LEMMA FailsKeepsFiles ==
  ASSUME FilesInv, NEW p \in Procs, Fails(p)
  PROVE  FilesInv'
<1> USE FilesAssumption DEF FilesInv, Fails, GoTo, folder, job
<1>1. FilesTypeOK'
  BY DEF FilesTypeOK, Labels, Files
<1>2. Locked'
  BY DEF FilesTypeOK, Locked
<1>3. Cleared'
  BY DEF FilesTypeOK, Locked, Cleared
<1>4. Planned'
  BY DEF FilesTypeOK, Planned, Installing
<1>5. RecordIsTrue'
  BY DEF FilesTypeOK, Locked, Cleared, Planned, Installing, RecordIsTrue, DealtWithIsTrue, IsTrue
<1>6. ReadIsTrue'
  BY DEF FilesTypeOK, Locked, Planned, Installing, RecordIsTrue, ReadIsTrue, IsTrue
<1>7. DealtWithIsTrue'
  BY DEF FilesTypeOK, Locked, Planned, Installing, ReadIsTrue, DealtWithIsTrue, IsTrue
<1>8. InThePast'
  BY DEF FilesTypeOK, Files, InThePast, PastStamp, Now
<1>9. DerivedFromInstalled'
  BY DEF FilesTypeOK, Locked, Cleared, DerivedFromInstalled
<1>10. DerivedFromStamped'
  BY DEF FilesTypeOK, Locked, Cleared, InThePast, PastStamp, DerivedFromStamped
<1>11. DoneTrusting'
  BY DEF FilesTypeOK, Locked, Cleared, DoneTrusting, Trusts, trusted_names, stamp
<1> QED BY <1>1, <1>2, <1>3, <1>4, <1>5, <1>6, <1>7, <1>8, <1>9, <1>10, <1>11

(* So does a kill, which frees the lock.                                   *)
LEMMA KilledKeepsFiles ==
  ASSUME FilesInv, NEW p \in Procs, Killed(p)
  PROVE  FilesInv'
<1> USE FilesAssumption DEF FilesInv, Killed, Forget, GoTo, folder, job
<1>1. FilesTypeOK'
  BY DEF FilesTypeOK, Labels, Files
<1>2. Locked'
  BY DEF FilesTypeOK, Locked
<1>3. Cleared'
  BY DEF FilesTypeOK, Locked, Cleared
<1>4. Planned'
  BY DEF FilesTypeOK, Planned, Installing
<1>5. RecordIsTrue'
  BY DEF FilesTypeOK, Locked, Cleared, Planned, Installing, RecordIsTrue, DealtWithIsTrue, IsTrue
<1>6. ReadIsTrue'
  BY DEF FilesTypeOK, Locked, Planned, Installing, RecordIsTrue, ReadIsTrue, IsTrue
<1>7. DealtWithIsTrue'
  BY DEF FilesTypeOK, Locked, Planned, Installing, ReadIsTrue, DealtWithIsTrue, IsTrue
<1>8. InThePast'
  BY DEF FilesTypeOK, Files, InThePast, PastStamp, Now
<1>9. DerivedFromInstalled'
  BY DEF FilesTypeOK, Locked, Cleared, DerivedFromInstalled
<1>10. DerivedFromStamped'
  BY DEF FilesTypeOK, Locked, Cleared, InThePast, PastStamp, DerivedFromStamped
<1>11. DoneTrusting'
  BY DoneStays DEF FilesTypeOK
<1> QED BY <1>1, <1>2, <1>3, <1>4, <1>5, <1>6, <1>7, <1>8, <1>9, <1>10, <1>11

(* A change by hand is marked as one, and is newer than every stamp.       *)
LEMMA EditKeepsFiles ==
  ASSUME FilesInv, NEW n \in Names, NEW c \in Contents \cup {Nil}, Edit(n, c)
  PROVE  FilesInv'
<1> USE FilesAssumption DEF FilesInv, Edit, File, GoTo, folder, job
<1>a. PICK f \in Files \cup {Nil} :
         /\ present' = [present EXCEPT ![n] = f]
         /\ f # Nil => f.by = "hand" /\ f.mtime = Now + 1
  <2> DEFINE f == [File(c, "hand") EXCEPT !.mtime = Now + 1]
  <2>1. CASE c = Nil
    BY <2>1
  <2>2. CASE c # Nil
    <3>1. f \in Files /\ f.by = "hand" /\ f.mtime = Now + 1
      BY <2>2 DEF File, Files, FilesTypeOK, Now
    <3>2. present' = [present EXCEPT ![n] = f]
      BY <2>2
    <3> HIDE DEF f
    <3> QED BY <3>1, <3>2
  <2> QED BY <2>1, <2>2
<1>b. /\ edits' = edits + 1 /\ stirred' = TRUE
      /\ UNCHANGED <<holder, installed, derived, fetched, job, begun>>
  OBVIOUS
<1>c. present'[n] = f /\ \A m \in Names \ {n} : present'[m] = present[m]
  BY <1>a DEF FilesTypeOK
<1>1. FilesTypeOK'
  BY <1>a, <1>b DEF FilesTypeOK
<1>2. Locked'
  BY DEF FilesTypeOK, Locked
<1>3. Cleared'
  BY DEF FilesTypeOK, Locked, Cleared
<1>4. Planned'
  BY DEF FilesTypeOK, Planned, Installing
<1>5. RecordIsTrue'
  BY DEF FilesTypeOK, Locked, Cleared, Planned, Installing, RecordIsTrue, DealtWithIsTrue, IsTrue
<1>6. ReadIsTrue'
  BY DEF FilesTypeOK, Locked, Planned, Installing, RecordIsTrue, ReadIsTrue, IsTrue
<1>7. DealtWithIsTrue'
  BY DEF FilesTypeOK, Locked, Planned, Installing, ReadIsTrue, DealtWithIsTrue, IsTrue
<1>8. InThePast'
  BY DEF FilesTypeOK, Files, InThePast, PastStamp, Now
<1>9. DerivedFromInstalled'
  BY DEF FilesTypeOK, Locked, Cleared, DerivedFromInstalled
<1>10. DerivedFromStamped'
  <2> SUFFICES ASSUME derived # Nil, installed # Nil, installed.kind = "trusted",
                      NEW m \in DOMAIN installed.stamp, present'[m] # Nil,
                      installed.stamp[m][2] = present'[m].mtime
               PROVE  derived[m] = present'[m]
    BY <1>b DEF DerivedFromStamped
  <2>1. installed.stamp[m][2] \in 0 .. Now /\ Now \in Nat
    BY DEF InThePast, PastStamp, FilesTypeOK, Now
  <2>2. m # n
    BY <1>a, <1>c, <2>1
  <2>3. m \in Names
    BY DEF FilesTypeOK, Records
  <2> QED BY <1>c, <2>2, <2>3 DEF DerivedFromStamped
<1>11. DoneTrusting'
  BY DEF FilesTypeOK, Locked, Cleared, DoneTrusting, Trusts, trusted_names, stamp
<1> QED BY <1>1, <1>2, <1>3, <1>4, <1>5, <1>6, <1>7, <1>8, <1>9, <1>10, <1>11

(* What is derived is derived from the files there are.                    *)
LEMMA DeriveKeepsFiles ==
  ASSUME FilesInv, NEW p \in Procs, Derive(p)
  PROVE  FilesInv'
<1> USE FilesAssumption DEF FilesInv, Derive, GoTo, folder, job
<1>1. FilesTypeOK'
  BY DEF FilesTypeOK, Labels, Files
<1>2. Locked'
  BY DEF FilesTypeOK, Locked
<1>3. Cleared'
  BY DEF FilesTypeOK, Locked, Cleared
<1>4. Planned'
  BY DEF FilesTypeOK, Planned, Installing
<1>5. RecordIsTrue'
  BY DEF FilesTypeOK, Locked, Cleared, Planned, Installing, RecordIsTrue, DealtWithIsTrue, IsTrue
<1>6. ReadIsTrue'
  BY DEF FilesTypeOK, Locked, Planned, Installing, RecordIsTrue, ReadIsTrue, IsTrue
<1>7. DealtWithIsTrue'
  BY DEF FilesTypeOK, Locked, Planned, Installing, ReadIsTrue, DealtWithIsTrue, IsTrue
<1>8. InThePast'
  BY DEF FilesTypeOK, Files, InThePast, PastStamp, Now
<1>9. DerivedFromInstalled'
  BY DEF FilesTypeOK, Locked, Cleared, DerivedFromInstalled
<1>10. DerivedFromStamped'
  BY DEF FilesTypeOK, Locked, Cleared, InThePast, PastStamp, DerivedFromStamped
<1>11. DoneTrusting'
  BY DEF FilesTypeOK, Locked, Cleared, DoneTrusting, Trusts, trusted_names, stamp
<1> QED BY <1>1, <1>2, <1>3, <1>4, <1>5, <1>6, <1>7, <1>8, <1>9, <1>10, <1>11

(* A folder begins empty, and nobody works in it.                          *)
LEMMA FilesInitInv == FilesInit => FilesInv
<1> SUFFICES ASSUME FilesInit PROVE FilesInv
  OBVIOUS
<1> USE DEF FilesInit
<1>1. FilesTypeOK
  BY DEF FilesTypeOK, Labels
<1>2. Locked /\ Cleared /\ Planned /\ ReadIsTrue /\ DealtWithIsTrue /\ DoneTrusting
  BY DEF Locked, Cleared, Planned, Installing, ReadIsTrue, DealtWithIsTrue, DoneTrusting
<1>3. RecordIsTrue /\ InThePast /\ DerivedFromInstalled /\ DerivedFromStamped
  BY DEF RecordIsTrue, InThePast, PastStamp, DerivedFromInstalled, DerivedFromStamped
<1> QED BY <1>1, <1>2, <1>3 DEF FilesInv

(* The invariant holds in every reachable state. *)
THEOREM FilesInvariant == FilesSpec => []FilesInv
<1>1. ASSUME FilesInv, [FilesNext]_filesVars
      PROVE  FilesInv'
  <2>1. CASE UNCHANGED filesVars
    <3> USE <2>1 DEF filesVars, folder, job, FilesInv
    <3>1. FilesTypeOK' /\ Locked' /\ Cleared' /\ Planned'
      BY <1>1 DEF FilesTypeOK, Locked, Cleared, Planned, Installing
    <3>2. RecordIsTrue' /\ ReadIsTrue' /\ DealtWithIsTrue'
      BY <1>1 DEF RecordIsTrue, ReadIsTrue, DealtWithIsTrue, Installing, IsTrue
    <3>3. InThePast' /\ DerivedFromInstalled' /\ DerivedFromStamped'
      BY <1>1 DEF InThePast, PastStamp, Now, DerivedFromInstalled, DerivedFromStamped
    <3>4. DoneTrusting'
      BY <1>1, DoneStays
    <3> QED BY <3>1, <3>2, <3>3, <3>4
  <2> QED BY <1>1, <2>1, BeginFilesKeepsFiles, AcquireFolderKeepsFiles, DecideKeepsFiles,
             ClearKeepsFiles, KeepKeepsFiles, FetchFileKeepsFiles, MoveInKeepsFiles,
             FinishKeepsFiles, ReturnFilesKeepsFiles, FailsKeepsFiles, KilledKeepsFiles,
             EditKeepsFiles, DeriveKeepsFiles
          DEF FilesNext
<1> QED BY <1>1, FilesInitInv, PTL DEF FilesSpec

(* Record::intact. *)
THEOREM RecordIsNeverFalse == FilesSpec => []RecordTrue
<1>1. FilesInv => RecordTrue
  BY DEF FilesInv, RecordIsTrue, RecordTrue, intact, IsTrue
<1> QED BY <1>1, FilesInvariant, PTL

(* clear, stamp. *)
THEOREM NothingBesideTheOld == FilesSpec => []DerivedFresh
<1>1. ASSUME FilesInv
      PROVE  DerivedFresh
  <2>1. ASSUME derived # Nil, NEW p \in Procs, step[p] = "done", trust[p], ~stirred, Trusts(p),
               NEW n \in trusted_names(listing[p], installed)
        PROVE  derived[n] = present[n]
    <3> DEFINE names == trusted_names(listing[p], installed)
    <3>1. installed = stamp(names)
      BY <1>1, <2>1 DEF FilesInv, DoneTrusting
    <3>2. present[n] # Nil
      BY <2>1 DEF Trusts
    <3> HIDE DEF names
    <3>3. /\ installed.kind = "trusted" /\ DOMAIN installed.stamp = names
          /\ n \in names => installed.stamp[n][2] = present[n].mtime
      BY <3>1 DEF stamp
    <3>4. n \in names
      BY <2>1 DEF names
    <3>5. installed # Nil
      <4>1. names \in SUBSET Names /\ \A m \in names : present[m] # Nil
        BY <1>1, <2>1, TrustedNames DEF names, FilesInv, Trusts
      <4>2. stamp(names) \in Records
        BY <1>1, <4>1, StampOfFolder DEF FilesInv
      <4> QED BY <3>1, <4>2, FilesAssumption
    <3> QED BY <1>1, <2>1, <3>2, <3>3, <3>4, <3>5 DEF FilesInv, DerivedFromStamped
  <2> QED BY <1>1, <2>1 DEF FilesInv, DerivedFromInstalled, DerivedFresh
<1> QED BY <1>1, FilesInvariant, PTL

-----------------------------------------------------------------------------
(* Sessions. *)

Stages == {"rest", "load", "publish", "walk", "wait", "attempt", "running", "writing", "failed"}

(* A record of a build, whatever its ladder. *)
IsBuild(b) == b \in [at : Stages, rungs : {b.rungs}, mark : Nat, ran_out : BOOLEAN, said : BOOLEAN]

SessionTypeOK ==
    /\ timing \in {"none", "whole", "torn"} /\ wounded \in BOOLEAN
    /\ tensorrt_build \in Loaders \cup {NoLoader}
    /\ out_of_memory \in [Loaders -> Nat]
    /\ build = [t \in Loaders |-> build[t]]
    /\ \A t \in Loaders : IsBuild(build[t])
    /\ verdict \in [Loaders -> [oom : BOOLEAN, own : BOOLEAN, cpu : BOOLEAN]]

(* A build that has TensorRT's lock, and one that has the cache half written *)
(* or has yet to discard it.                                                *)
Holds(t) == build[t].at \in {"attempt", "running", "writing", "failed"} /\ TensorRtRung(t)
Tore(t) == build[t].at \in {"writing", "failed"} /\ TensorRtRung(t)

OneHolder == \A t \in Loaders : tensorrt_build = t <=> Holds(t)
OnlyTensorRt ==
    \A t \in Loaders : build[t].at \in {"wait", "writing"} => TensorRtRung(t)
TornIsHeld == timing = "torn" /\ ~wounded => \E t \in Loaders : Tore(t)

(* The counter stands above the mark exactly when this build ran out.       *)
MarkIsOwn ==
    \A t \in Loaders : build[t].at \in {"wait", "attempt", "running", "writing", "failed"} =>
        /\ build[t].mark <= out_of_memory[t]
        /\ build[t].ran_out <=> out_of_memory[t] # build[t].mark

SessionInv ==
    SessionTypeOK /\ OneHolder /\ OnlyTensorRt /\ TornIsHeld /\ MarkIsOwn /\ OomIsOwn

(* load_with takes the environment's lock, not TensorRT's.                 *)
LEMMA LoadKeepsSession ==
  ASSUME SessionInv, NEW t \in Loaders, Load(t)
  PROVE  SessionInv'
<1> USE SessionAssumption DEF SessionInv, Load, Free, machineVars, cacheVars
<1>1. SessionTypeOK'
  BY DEF SessionTypeOK, IsBuild, Stages, Resting
<1>2. OneHolder'
  BY DEF SessionTypeOK, IsBuild, OneHolder, OnlyTensorRt, Holds, TensorRtRung, Rung, Resting
<1>3. OnlyTensorRt'
  BY DEF SessionTypeOK, IsBuild, OnlyTensorRt, TensorRtRung, Rung, Resting
<1>4. TornIsHeld'
  BY DEF SessionTypeOK, IsBuild, OneHolder, OnlyTensorRt, TornIsHeld, Holds, Tore, TensorRtRung, Rung, Resting
<1>5. MarkIsOwn'
  BY DEF SessionTypeOK, IsBuild, MarkIsOwn, Resting
<1>6. OomIsOwn'
  BY DEF SessionTypeOK, IsBuild, MarkIsOwn, OomIsOwn, Rung, Resting
<1> QED BY <1>1, <1>2, <1>3, <1>4, <1>5, <1>6

(* The plugin is registered.                                               *)
LEMMA OfferKeepsSession ==
  ASSUME SessionInv, NEW t \in Loaders, Offer(t)
  PROVE  SessionInv'
<1> USE SessionAssumption DEF SessionInv, Offer, machineVars, cacheVars
<1>1. SessionTypeOK'
  BY DEF SessionTypeOK, IsBuild, Stages
<1>2. OneHolder'
  BY DEF SessionTypeOK, IsBuild, OneHolder, OnlyTensorRt, Holds, TensorRtRung, Rung
<1>3. OnlyTensorRt'
  BY DEF SessionTypeOK, IsBuild, OnlyTensorRt, TensorRtRung, Rung
<1>4. TornIsHeld'
  BY DEF SessionTypeOK, IsBuild, OneHolder, OnlyTensorRt, TornIsHeld, Holds, Tore, TensorRtRung, Rung
<1>5. MarkIsOwn'
  BY DEF SessionTypeOK, IsBuild, MarkIsOwn
<1>6. OomIsOwn'
  BY DEF SessionTypeOK, IsBuild, MarkIsOwn, OomIsOwn, Rung
<1> QED BY <1>1, <1>2, <1>3, <1>4, <1>5, <1>6

(* The environment is published.                                           *)
LEMMA PublishKeepsSession ==
  ASSUME SessionInv, NEW t \in Loaders, Publish(t)
  PROVE  SessionInv'
<1> USE SessionAssumption DEF SessionInv, Publish, machineVars, cacheVars
<1>1. SessionTypeOK'
  BY DEF SessionTypeOK, IsBuild, Stages, Resting
<1>2. OneHolder'
  BY DEF SessionTypeOK, IsBuild, OneHolder, OnlyTensorRt, Holds, TensorRtRung, Rung, Resting
<1>3. OnlyTensorRt'
  BY DEF SessionTypeOK, IsBuild, OnlyTensorRt, TensorRtRung, Rung, Resting
<1>4. TornIsHeld'
  BY DEF SessionTypeOK, IsBuild, OneHolder, OnlyTensorRt, TornIsHeld, Holds, Tore, TensorRtRung, Rung, Resting
<1>5. MarkIsOwn'
  BY DEF SessionTypeOK, IsBuild, MarkIsOwn, Resting
<1>6. OomIsOwn'
  BY DEF SessionTypeOK, IsBuild, MarkIsOwn, OomIsOwn, Rung, Resting
<1> QED BY <1>1, <1>2, <1>3, <1>4, <1>5, <1>6

(* A load fails.                                                           *)
LEMMA LoadFailsKeepsSession ==
  ASSUME SessionInv, NEW t \in Loaders, LoadFails(t)
  PROVE  SessionInv'
<1> USE SessionAssumption DEF SessionInv, LoadFails, machineVars, cacheVars
<1>1. SessionTypeOK'
  BY DEF SessionTypeOK, IsBuild, Stages, Resting
<1>2. OneHolder'
  BY DEF SessionTypeOK, IsBuild, OneHolder, OnlyTensorRt, Holds, TensorRtRung, Rung, Resting
<1>3. OnlyTensorRt'
  BY DEF SessionTypeOK, IsBuild, OnlyTensorRt, TensorRtRung, Rung, Resting
<1>4. TornIsHeld'
  BY DEF SessionTypeOK, IsBuild, OneHolder, OnlyTensorRt, TornIsHeld, Holds, Tore, TensorRtRung, Rung, Resting
<1>5. MarkIsOwn'
  BY DEF SessionTypeOK, IsBuild, MarkIsOwn, Resting
<1>6. OomIsOwn'
  BY DEF SessionTypeOK, IsBuild, MarkIsOwn, OomIsOwn, Rung, Resting
<1> QED BY <1>1, <1>2, <1>3, <1>4, <1>5, <1>6

(* A session begins on a new ladder; its thread holds nothing.             *)
LEMMA SessionKeepsSession ==
  ASSUME SessionInv, NEW t \in Loaders, Session(t)
  PROVE  SessionInv'
<1> USE SessionAssumption DEF SessionInv, Session, Free, machineVars, cacheVars
<1>1. SessionTypeOK'
  <2>1. UNCHANGED <<timing, wounded, tensorrt_build, out_of_memory>>
    OBVIOUS
  <2>2. verdict' = [verdict EXCEPT ![t] = NoVerdict]
    OBVIOUS
  <2>3. NoVerdict \in [oom : BOOLEAN, own : BOOLEAN, cpu : BOOLEAN]
    BY DEF NoVerdict
  <2>4. verdict' \in [Loaders -> [oom : BOOLEAN, own : BOOLEAN, cpu : BOOLEAN]]
    BY <2>2, <2>3 DEF SessionTypeOK
  <2>5. IsBuild(build'[t])
    BY DEF SessionTypeOK, IsBuild, Stages
  <2>6. build' = [u \in Loaders |-> build'[u]] /\ \A u \in Loaders \ {t} : build'[u] = build[u]
    BY DEF SessionTypeOK
  <2> QED BY <2>1, <2>4, <2>5, <2>6 DEF SessionTypeOK, IsBuild
<1>2. OneHolder'
  BY DEF SessionTypeOK, IsBuild, OneHolder, OnlyTensorRt, Holds, TensorRtRung, Rung
<1>3. OnlyTensorRt'
  BY DEF SessionTypeOK, IsBuild, OnlyTensorRt, TensorRtRung, Rung
<1>4. TornIsHeld'
  BY DEF SessionTypeOK, IsBuild, OneHolder, OnlyTensorRt, TornIsHeld, Holds, Tore, TensorRtRung, Rung
<1>5. MarkIsOwn'
  BY DEF SessionTypeOK, IsBuild, MarkIsOwn
<1>6. OomIsOwn'
  BY DEF SessionTypeOK, IsBuild, MarkIsOwn, OomIsOwn, Rung, NoVerdict
<1> QED BY <1>1, <1>2, <1>3, <1>4, <1>5, <1>6

(* A rung is tried: the mark is the counter as it stands.                  *)
LEMMA TryRungKeepsSession ==
  ASSUME SessionInv, NEW t \in Loaders, TryRung(t)
  PROVE  SessionInv'
<1> USE SessionAssumption DEF SessionInv, TryRung, machineVars, cacheVars
<1>1. SessionTypeOK'
  BY DEF SessionTypeOK, IsBuild, Stages
<1>2. OneHolder'
  BY DEF SessionTypeOK, IsBuild, OneHolder, OnlyTensorRt, Holds, TensorRtRung, Rung
<1>3. OnlyTensorRt'
  BY DEF SessionTypeOK, IsBuild, OnlyTensorRt, TensorRtRung, Rung
<1>4. TornIsHeld'
  BY DEF SessionTypeOK, IsBuild, OneHolder, OnlyTensorRt, TornIsHeld, Holds, Tore, TensorRtRung, Rung
<1>5. MarkIsOwn'
  BY DEF SessionTypeOK, IsBuild, MarkIsOwn
<1>6. OomIsOwn'
  BY DEF SessionTypeOK, IsBuild, MarkIsOwn, OomIsOwn, Rung
<1> QED BY <1>1, <1>2, <1>3, <1>4, <1>5, <1>6

(* TensorRT's lock is taken when nobody has it.                            *)
LEMMA SerializeKeepsSession ==
  ASSUME SessionInv, NEW t \in Loaders, Serialize(t)
  PROVE  SessionInv'
<1> USE SessionAssumption DEF SessionInv, Serialize, machineVars, cacheVars
<1>1. SessionTypeOK'
  BY DEF SessionTypeOK, IsBuild, Stages
<1>2. OneHolder'
  BY DEF SessionTypeOK, IsBuild, OneHolder, OnlyTensorRt, Holds, TensorRtRung, Rung
<1>3. OnlyTensorRt'
  BY DEF SessionTypeOK, IsBuild, OnlyTensorRt, TensorRtRung, Rung
<1>4. TornIsHeld'
  BY DEF SessionTypeOK, IsBuild, OneHolder, OnlyTensorRt, TornIsHeld, Holds, Tore, TensorRtRung, Rung
<1>5. MarkIsOwn'
  BY DEF SessionTypeOK, IsBuild, MarkIsOwn
<1>6. OomIsOwn'
  BY DEF SessionTypeOK, IsBuild, MarkIsOwn, OomIsOwn, Rung
<1> QED BY <1>1, <1>2, <1>3, <1>4, <1>5, <1>6

(* The runtime is at work, or the attempt has failed before it.            *)
LEMMA AttemptKeepsSession ==
  ASSUME SessionInv, NEW t \in Loaders, Attempt(t)
  PROVE  SessionInv'
<1> USE SessionAssumption DEF SessionInv, Attempt, machineVars, cacheVars
<1>1. SessionTypeOK'
  <2>1. UNCHANGED <<timing, wounded, tensorrt_build, out_of_memory, verdict>>
    OBVIOUS
  <2>2. PICK next \in {"failed", "running"} : build' = [build EXCEPT ![t].at = next]
    OBVIOUS
  <2>3. IsBuild(build'[t])
    BY <2>2 DEF SessionTypeOK, IsBuild, Stages
  <2>4. build' = [u \in Loaders |-> build'[u]] /\ \A u \in Loaders \ {t} : build'[u] = build[u]
    BY <2>2 DEF SessionTypeOK
  <2> QED BY <2>1, <2>3, <2>4 DEF SessionTypeOK, IsBuild
<1>2. OneHolder'
  BY DEF SessionTypeOK, IsBuild, OneHolder, OnlyTensorRt, Holds, TensorRtRung, Rung
<1>3. OnlyTensorRt'
  BY DEF SessionTypeOK, IsBuild, OnlyTensorRt, TensorRtRung, Rung
<1>4. TornIsHeld'
  BY DEF SessionTypeOK, IsBuild, OneHolder, OnlyTensorRt, TornIsHeld, Holds, Tore, TensorRtRung, Rung
<1>5. MarkIsOwn'
  BY DEF SessionTypeOK, IsBuild, MarkIsOwn
<1>6. OomIsOwn'
  BY DEF SessionTypeOK, IsBuild, MarkIsOwn, OomIsOwn, Rung
<1> QED BY <1>1, <1>2, <1>3, <1>4, <1>5, <1>6

(* A failed allocation is counted on its own thread, and lifts the counter *)
(* above the mark.                                                         *)
LEMMA RecordKeepsSession ==
  ASSUME SessionInv, NEW t \in Loaders, Record(t)
  PROVE  SessionInv'
<1> USE SessionAssumption DEF SessionInv, Record, CountOom, machineVars, cacheVars
<1>0. /\ UNCHANGED <<timing, wounded, tensorrt_build, verdict>>
      /\ build[t].at \in {"running", "rest"}
      /\ out_of_memory' = [out_of_memory EXCEPT ![t] = @ + 1]
      /\ build' = [build EXCEPT ![t].ran_out = (build[t].at = "running")]
  OBVIOUS
<1>a. /\ build' = [u \in Loaders |-> build'[u]]
      /\ \A u \in Loaders \ {t} : build'[u] = build[u] /\ out_of_memory'[u] = out_of_memory[u]
      /\ out_of_memory' \in [Loaders -> Nat] /\ out_of_memory'[t] = out_of_memory[t] + 1
  BY <1>0 DEF SessionTypeOK
<1>b. PICK b \in BOOLEAN : build' = [build EXCEPT ![t].ran_out = b]
  <2>1. CASE build[t].at = "running"
    BY <1>0, <2>1
  <2>2. CASE build[t].at # "running"
    BY <1>0, <2>2
  <2> QED BY <2>1, <2>2
<1>c. IsBuild(build'[t]) /\ build'[t].at = build[t].at /\ build'[t].mark = build[t].mark
  BY <1>b DEF SessionTypeOK, IsBuild
<1>d. ASSUME build[t].at = "running" PROVE build'[t].ran_out = TRUE
  <2>1. build' = [build EXCEPT ![t].ran_out = TRUE]
    BY <1>0, <1>d
  <2> QED BY <2>1 DEF SessionTypeOK, IsBuild
<1>1. SessionTypeOK'
  BY <1>0, <1>a, <1>c DEF SessionTypeOK, IsBuild
<1>2. OneHolder'
  BY DEF SessionTypeOK, IsBuild, OneHolder, OnlyTensorRt, Holds, TensorRtRung, Rung
<1>3. OnlyTensorRt'
  BY DEF SessionTypeOK, IsBuild, OnlyTensorRt, TensorRtRung, Rung
<1>4. TornIsHeld'
  BY DEF SessionTypeOK, IsBuild, OneHolder, OnlyTensorRt, TornIsHeld, Holds, Tore, TensorRtRung, Rung
<1>5. MarkIsOwn'
  BY <1>0, <1>a, <1>c, <1>d DEF SessionTypeOK, IsBuild, MarkIsOwn
<1>6. OomIsOwn'
  BY DEF SessionTypeOK, IsBuild, MarkIsOwn, OomIsOwn, Rung
<1> QED BY <1>1, <1>2, <1>3, <1>4, <1>5, <1>6

(* TensorRT rewrites the cache: it is half written, and its builder holds  *)
(* the lock.                                                               *)
LEMMA RewriteKeepsSession ==
  ASSUME SessionInv, NEW t \in Loaders, Rewrite(t)
  PROVE  SessionInv'
<1> USE SessionAssumption DEF SessionInv, Rewrite, machineVars, cacheVars
<1>1. SessionTypeOK'
  BY DEF SessionTypeOK, IsBuild, Stages
<1>2. OneHolder'
  BY DEF SessionTypeOK, IsBuild, OneHolder, OnlyTensorRt, Holds, TensorRtRung, Rung
<1>3. OnlyTensorRt'
  BY DEF SessionTypeOK, IsBuild, OnlyTensorRt, TensorRtRung, Rung
<1>4. TornIsHeld'
  BY DEF SessionTypeOK, IsBuild, OneHolder, OnlyTensorRt, TornIsHeld, Holds, Tore, TensorRtRung, Rung
<1>5. MarkIsOwn'
  BY DEF SessionTypeOK, IsBuild, MarkIsOwn
<1>6. OomIsOwn'
  BY DEF SessionTypeOK, IsBuild, MarkIsOwn, OomIsOwn, Rung
<1> QED BY <1>1, <1>2, <1>3, <1>4, <1>5, <1>6

(* A build ends and lets go of the lock; the cache is whole if TensorRT    *)
(* wrote it.                                                               *)
LEMMA BuiltKeepsSession ==
  ASSUME SessionInv, NEW t \in Loaders, Built(t)
  PROVE  SessionInv'
<1> USE SessionAssumption DEF SessionInv, Built, machineVars, cacheVars
<1>1. SessionTypeOK'
  BY DEF SessionTypeOK, IsBuild, Stages, Resting
<1>2. OneHolder'
  BY DEF SessionTypeOK, IsBuild, OneHolder, OnlyTensorRt, Holds, TensorRtRung, Rung, Resting
<1>3. OnlyTensorRt'
  BY DEF SessionTypeOK, IsBuild, OnlyTensorRt, TensorRtRung, Rung, Resting
<1>4. TornIsHeld'
  BY DEF SessionTypeOK, IsBuild, OneHolder, OnlyTensorRt, TornIsHeld, Holds, Tore, TensorRtRung, Rung, Resting
<1>5. MarkIsOwn'
  BY DEF SessionTypeOK, IsBuild, MarkIsOwn, Resting
<1>6. OomIsOwn'
  BY DEF SessionTypeOK, IsBuild, MarkIsOwn, OomIsOwn, Rung, Resting
<1> QED BY <1>1, <1>2, <1>3, <1>4, <1>5, <1>6

(* A build fails with the lock still held.                                 *)
LEMMA RunFailsKeepsSession ==
  ASSUME SessionInv, NEW t \in Loaders, RunFails(t)
  PROVE  SessionInv'
<1> USE SessionAssumption DEF SessionInv, RunFails, machineVars, cacheVars
<1>1. SessionTypeOK'
  BY DEF SessionTypeOK, IsBuild, Stages
<1>2. OneHolder'
  BY DEF SessionTypeOK, IsBuild, OneHolder, OnlyTensorRt, Holds, TensorRtRung, Rung
<1>3. OnlyTensorRt'
  BY DEF SessionTypeOK, IsBuild, OnlyTensorRt, TensorRtRung, Rung
<1>4. TornIsHeld'
  BY DEF SessionTypeOK, IsBuild, OneHolder, OnlyTensorRt, TornIsHeld, Holds, Tore, TensorRtRung, Rung
<1>5. MarkIsOwn'
  BY DEF SessionTypeOK, IsBuild, MarkIsOwn
<1>6. OomIsOwn'
  BY DEF SessionTypeOK, IsBuild, MarkIsOwn, OomIsOwn, Rung
<1> QED BY <1>1, <1>2, <1>3, <1>4, <1>5, <1>6

(* The cache is emptied before the lock is let go, or left wounded.        *)
LEMMA RungFailsKeepsSession ==
  ASSUME SessionInv, NEW t \in Loaders, RungFails(t)
  PROVE  SessionInv'
<1> USE SessionAssumption DEF SessionInv, RungFails, Discard, OutOfMemory, machineVars, cacheVars
<1>1. SessionTypeOK'
  <2>1. UNCHANGED out_of_memory /\ timing' \in {"none", timing} /\ wounded' \in BOOLEAN
    BY DEF SessionTypeOK
  <2>2. tensorrt_build' \in Loaders \cup {NoLoader}
    BY DEF SessionTypeOK
  <2>3. verdict' \in [Loaders -> [oom : BOOLEAN, own : BOOLEAN, cpu : BOOLEAN]]
    <3> DEFINE v == [oom |-> OutOfMemory(t), cpu |-> Rung(t) = << >>,
                     own |-> build[t].ran_out \/ build[t].said]
    <3>1. v \in [oom : BOOLEAN, own : BOOLEAN, cpu : BOOLEAN]
      BY DEF SessionTypeOK, IsBuild
    <3>2. verdict' = [verdict EXCEPT ![t] = v]
      OBVIOUS
    <3> HIDE DEF v
    <3> QED BY <3>1, <3>2 DEF SessionTypeOK
  <2>4. IsBuild(build'[t])
    BY DEF SessionTypeOK, IsBuild, Stages, Resting
  <2>5. build' = [u \in Loaders |-> build'[u]] /\ \A u \in Loaders \ {t} : build'[u] = build[u]
    BY DEF SessionTypeOK
  <2> QED BY <2>1, <2>2, <2>3, <2>4, <2>5 DEF SessionTypeOK, IsBuild
<1>2. OneHolder'
  BY DEF SessionTypeOK, IsBuild, OneHolder, OnlyTensorRt, Holds, TensorRtRung, Rung, Resting
<1>3. OnlyTensorRt'
  BY DEF SessionTypeOK, IsBuild, OnlyTensorRt, TensorRtRung, Rung, Resting
<1>4. TornIsHeld'
  BY DEF SessionTypeOK, IsBuild, OneHolder, OnlyTensorRt, TornIsHeld, Holds, Tore, TensorRtRung, Rung, Resting
<1>5. MarkIsOwn'
  BY DEF SessionTypeOK, IsBuild, MarkIsOwn, Resting
<1>6. OomIsOwn'
  BY DEF SessionTypeOK, IsBuild, MarkIsOwn, OomIsOwn, Rung, Resting
<1> QED BY <1>1, <1>2, <1>3, <1>4, <1>5, <1>6

(* A panic lets go of the lock without emptying the cache.                 *)
LEMMA BuildPanicsKeepsSession ==
  ASSUME SessionInv, NEW t \in Loaders, BuildPanics(t)
  PROVE  SessionInv'
<1> USE SessionAssumption DEF SessionInv, BuildPanics, machineVars, cacheVars
<1>1. SessionTypeOK'
  BY DEF SessionTypeOK, IsBuild, Stages, Resting
<1>2. OneHolder'
  BY DEF SessionTypeOK, IsBuild, OneHolder, OnlyTensorRt, Holds, TensorRtRung, Rung, Resting
<1>3. OnlyTensorRt'
  BY DEF SessionTypeOK, IsBuild, OnlyTensorRt, TensorRtRung, Rung, Resting
<1>4. TornIsHeld'
  BY DEF SessionTypeOK, IsBuild, OneHolder, OnlyTensorRt, TornIsHeld, Holds, Tore, TensorRtRung, Rung, Resting
<1>5. MarkIsOwn'
  BY DEF SessionTypeOK, IsBuild, MarkIsOwn, Resting
<1>6. OomIsOwn'
  BY DEF SessionTypeOK, IsBuild, MarkIsOwn, OomIsOwn, Rung, Resting
<1> QED BY <1>1, <1>2, <1>3, <1>4, <1>5, <1>6

(* Nothing is built when the process starts.                               *)
LEMMA SessionInitInv == SessionInit => SessionInv
<1> SUFFICES ASSUME SessionInit PROVE SessionInv
  OBVIOUS
<1> USE SessionAssumption DEF SessionInit
<1>1. SessionTypeOK
  <2>1. NoVerdict \in [oom : BOOLEAN, own : BOOLEAN, cpu : BOOLEAN]
    BY DEF NoVerdict
  <2>2. IsBuild(Resting)
    BY DEF IsBuild, Resting, Stages
  <2> QED BY <2>1, <2>2 DEF SessionTypeOK, IsBuild
<1>2. OneHolder /\ OnlyTensorRt /\ MarkIsOwn
  BY DEF OneHolder, OnlyTensorRt, MarkIsOwn, Holds, Resting
<1>3. TornIsHeld /\ OomIsOwn
  BY DEF TornIsHeld, OomIsOwn, NoVerdict
<1> QED BY <1>1, <1>2, <1>3 DEF SessionInv

(* The end of the process takes the locks and the counters with it, and     *)
(* leaves the cache as it is.                                               *)
LEMMA ExitKeepsSession == SessionInv /\ Exit => SessionInv'
<1> SUFFICES ASSUME SessionInv, Exit PROVE SessionInv'
  OBVIOUS
<1> USE SessionAssumption DEF SessionInv, Exit
<1>1. SessionTypeOK'
  <2>1. NoVerdict \in [oom : BOOLEAN, own : BOOLEAN, cpu : BOOLEAN]
    BY DEF NoVerdict
  <2>2. IsBuild(Resting)
    BY DEF IsBuild, Resting, Stages
  <2>3. verdict' \in [Loaders -> [oom : BOOLEAN, own : BOOLEAN, cpu : BOOLEAN]]
    BY <2>1
  <2>4. build' = [t \in Loaders |-> build'[t]] /\ \A t \in Loaders : IsBuild(build'[t])
    BY <2>2
  <2>5. timing' = timing /\ wounded' \in BOOLEAN
    BY DEF SessionTypeOK
  <2>6. tensorrt_build' = NoLoader /\ out_of_memory' \in [Loaders -> Nat]
    OBVIOUS
  <2> QED BY <2>3, <2>4, <2>5, <2>6 DEF SessionTypeOK, IsBuild
<1>2. OneHolder' /\ OnlyTensorRt' /\ MarkIsOwn'
  BY DEF OneHolder, OnlyTensorRt, MarkIsOwn, Holds, Resting
<1>3. TornIsHeld' /\ OomIsOwn'
  BY DEF TornIsHeld, OomIsOwn, NoVerdict
<1> QED BY <1>1, <1>2, <1>3

(* The invariant holds in every reachable state. *)
THEOREM SessionInvariant == SessionSpec => []SessionInv
<1>1. ASSUME SessionInv, [SessionNext]_sessionVars
      PROVE  SessionInv'
  <2>1. CASE Restart \/ Guarded \/ UNCHANGED sessionVars
    <3>1. UNCHANGED <<tensorrt_build, timing, wounded, out_of_memory, build, verdict>>
      BY <2>1 DEF Restart, Guarded, sessionVars, cacheVars
    <3> QED BY <1>1, <3>1 DEF SessionInv, SessionTypeOK, OneHolder, OnlyTensorRt, TornIsHeld,
               MarkIsOwn, OomIsOwn, Holds, Tore, TensorRtRung, Rung, IsBuild
  <2> QED BY <1>1, <2>1, ExitKeepsSession, LoadKeepsSession, OfferKeepsSession,
             PublishKeepsSession, LoadFailsKeepsSession, SessionKeepsSession,
             TryRungKeepsSession, SerializeKeepsSession, AttemptKeepsSession,
             RecordKeepsSession, RewriteKeepsSession, BuiltKeepsSession,
             RunFailsKeepsSession, RungFailsKeepsSession, BuildPanicsKeepsSession
          DEF SessionNext
<1> QED BY <1>1, SessionInitInv, PTL DEF SessionSpec

(* serialized, TENSORRT_BUILD. *)
THEOREM TimingCacheHealed == SessionSpec => []TimingHealed
<1>1. SessionInv => TimingHealed
  BY DEF SessionInv, TornIsHeld, OneHolder, TimingHealed, Tore, Holds
<1> QED BY <1>1, SessionInvariant, PTL

(* rung_error, OUT_OF_MEMORY. *)
THEOREM OutOfMemoryIsItsOwn == SessionSpec => []OomIsOwn
<1>1. SessionInv => OomIsOwn
  BY DEF SessionInv
<1> QED BY <1>1, SessionInvariant, PTL

-----------------------------------------------------------------------------
(* The hub. *)

(* A set in any order. *)
LEMMA AnyOrder ==
  ASSUME NEW S, IsFiniteSet(S), NEW f, f = HubSeqs!SetToSeq(S)
  PROVE  f \in Seq(S) /\ IsInjective(f) /\ Range(f) = S
<1> DEFINE n == Cardinality(S)
<1>1. n \in Nat /\ ExistsBijection(1 .. n, S)
  BY FS_CardinalityType
<1>2. PICK g \in [1 .. n -> S] : HubSeqs!IsInjective(g)
  BY <1>1 DEF ExistsBijection, Bijection, Injection, IsInjective, HubSeqs!IsInjective
<1>3. f = CHOOSE h \in [1 .. n -> S] : HubSeqs!IsInjective(h)
  <2>1. HubSeqs!Cardinality(S) = Cardinality(S)
    BY DEF Cardinality, HubSeqs!Cardinality
  <2> QED BY <2>1 DEF HubSeqs!SetToSeq
<1> HIDE DEF n
<1>9. f \in [1 .. n -> S] /\ HubSeqs!IsInjective(f)
  BY <1>2, <1>3
<1>10. IsInjective(f)
  BY <1>9 DEF IsInjective, HubSeqs!IsInjective
<1>4. Range(f) \subseteq S
  BY <1>9, <1>10 DEF Range
<1>5. f \in Bijection(1 .. n, Range(f))
  BY <1>9, <1>10 DEF Bijection, Injection, Surjection, Range
<1>6. IsFiniteSet(Range(f)) /\ Cardinality(Range(f)) = n
  BY <1>1, <1>4, <1>5, FS_Subset, FS_CountingElements DEF ExistsBijection
<1>7. Range(f) = S
  BY <1>4, <1>1, <1>6, FS_Subset DEF n
<1>8. f \in Seq(S)
  BY <1>1, <1>9, IsASeq
<1> QED BY <1>9, <1>10, <1>7, <1>8

(* Two sequences of different things, one after the other. *)
LEMMA TwoOrders ==
  ASSUME NEW S, NEW T, NEW p \in Seq(S), NEW q \in Seq(T), IsInjective(p), IsInjective(q),
         Range(p) = S, Range(q) = T, S \cap T = {}
  PROVE  p \o q \in Seq(S \cup T) /\ IsInjective(p \o q) /\ Range(p \o q) = S \cup T
<1> DEFINE r == p \o q
<1>1. /\ Len(p) \in Nat /\ Len(q) \in Nat /\ DOMAIN p = 1 .. Len(p) /\ DOMAIN q = 1 .. Len(q)
      /\ p \in Seq(S \cup T) /\ q \in Seq(S \cup T)
  <2>1. p \in [1 .. Len(p) -> S] /\ q \in [1 .. Len(q) -> T] /\ Len(p) \in Nat /\ Len(q) \in Nat
    BY LenProperties
  <2>2. p \in [1 .. Len(p) -> S \cup T] /\ q \in [1 .. Len(q) -> S \cup T]
    BY <2>1
  <2> QED BY <2>1, <2>2, IsASeq
<1>2. /\ r \in Seq(S \cup T) /\ Len(r) = Len(p) + Len(q) /\ DOMAIN r = 1 .. Len(p) + Len(q)
  BY <1>1, ConcatProperties, LenProperties
<1>3. \A i \in 1 .. Len(p) + Len(q) : r[i] = IF i <= Len(p) THEN p[i] ELSE q[i - Len(p)]
  BY <1>1, ConcatProperties
<1> HIDE DEF r
<1>4. \A i \in DOMAIN r : \/ i \in DOMAIN p /\ r[i] = p[i] /\ r[i] \in S
                          \/ i - Len(p) \in DOMAIN q /\ r[i] = q[i - Len(p)] /\ r[i] \in T
  <2> SUFFICES ASSUME NEW i \in DOMAIN r
               PROVE  \/ i \in DOMAIN p /\ r[i] = p[i] /\ r[i] \in S
                      \/ i - Len(p) \in DOMAIN q /\ r[i] = q[i - Len(p)] /\ r[i] \in T
    OBVIOUS
  <2>1. CASE i <= Len(p)
    BY <1>1, <1>2, <1>3, <2>1
  <2>2. CASE ~(i <= Len(p))
    <3>1. i - Len(p) \in DOMAIN q
      BY <1>1, <1>2, <2>2
    <3> QED BY <1>1, <1>2, <1>3, <2>2, <3>1
  <2> QED BY <2>1, <2>2
<1>5. IsInjective(r)
  <2> SUFFICES ASSUME NEW i \in DOMAIN r, NEW j \in DOMAIN r, r[i] = r[j] PROVE i = j
    BY DEF IsInjective
  <2>1. CASE i \in DOMAIN p /\ r[i] = p[i] /\ r[i] \in S
    BY <1>4, <2>1 DEF IsInjective
  <2>2. CASE i - Len(p) \in DOMAIN q /\ r[i] = q[i - Len(p)] /\ r[i] \in T
    <3>1. j - Len(p) \in DOMAIN q /\ r[j] = q[j - Len(p)]
      BY <1>4, <2>2
    <3>2. i - Len(p) = j - Len(p)
      BY <2>2, <3>1 DEF IsInjective
    <3> QED BY <1>1, <1>2, <3>2
  <2> QED BY <1>4, <2>1, <2>2
<1>6. Range(r) = S \cup T
  <2>1. \A i \in DOMAIN p : i \in DOMAIN r /\ r[i] = p[i]
    BY <1>1, <1>2, <1>3
  <2>2. \A i \in DOMAIN q : i + Len(p) \in DOMAIN r /\ r[i + Len(p)] = q[i]
    <3> SUFFICES ASSUME NEW i \in DOMAIN q PROVE i + Len(p) \in DOMAIN r /\ r[i + Len(p)] = q[i]
      OBVIOUS
    <3>1. i + Len(p) \in 1 .. Len(p) + Len(q) /\ ~(i + Len(p) <= Len(p)) /\ (i + Len(p)) - Len(p) = i
      BY <1>1
    <3> QED BY <1>2, <1>3, <3>1
  <2>3. S \subseteq Range(r)
    BY <2>1 DEF Range
  <2>4. T \subseteq Range(r)
    BY <2>2 DEF Range
  <2>5. Range(r) \subseteq S \cup T
    BY <1>4 DEF Range
  <2> QED BY <2>3, <2>4, <2>5
<1> QED BY <1>2, <1>5, <1>6 DEF r

(* The files that can be verified in the first pages of a commit. *)
Verifiable(entries) == {e \in entries : e.file /\ e.hash # Unhashed}
OnPages(commit, n) ==
    Verifiable(UNION {Pages[commit][i] : i \in {j \in DOMAIN Pages[commit] : j <= n}})
Whole(files, set) == files \in Seq(set) /\ IsInjective(files) /\ Range(files) = set

HubFields == {"at", "folder", "commit", "url", "visited", "files", "strict", "error"}
HubInv ==
    /\ DOMAIN reading = HubFields
    /\ head \in Commits
    /\ reading.at = "resolve" => reading.visited = {} /\ reading.files = << >>
    /\ reading.at = "list" =>
          \E n \in Nat \ {0} :
              /\ reading.commit \in Commits
              /\ reading.url = [rev |-> reading.commit, page |-> n]
              /\ reading.visited = {[rev |-> reading.commit, page |-> i] : i \in 1 .. n - 1}
              /\ Whole(reading.files, OnPages(reading.commit, n - 1))
    /\ reading.at = "done" =>
          /\ reading.commit \in Commits
          /\ Whole(reading.files, Verifiable(UNION Range(Pages[reading.commit])))

(* A page more. *)
LEMMA OnePageMore ==
  ASSUME NEW commit \in Commits, NEW n \in Nat \ {0}, NEW files, Whole(files, OnPages(commit, n - 1)),
         NEW page, page = (IF n \in DOMAIN Pages[commit] THEN Pages[commit][n] ELSE {}),
         NEW more, more = HubSeqs!SetToSeq(Verifiable(page))
  PROVE  Whole(files \o more, OnPages(commit, n))
<1> DEFINE before == OnPages(commit, n - 1)  here == Verifiable(page)
<1>1. IsFiniteSet(here)
  <2>1. IsFiniteSet(page)
    BY HubAssumption, FS_EmptySet DEF Commits
  <2> QED BY <2>1, FS_Subset DEF Verifiable
<1>2. more \in Seq(here) /\ IsInjective(more) /\ Range(more) = here
  BY <1>1, AnyOrder
<1>3. DOMAIN Pages[commit] \subseteq Nat
  BY HubAssumption DEF Commits
<1>4. before \cap here = {}
  <2> SUFFICES ASSUME NEW e \in before, e \in here PROVE FALSE
    OBVIOUS
  <2>1. n \in DOMAIN Pages[commit] /\ e \in Pages[commit][n]
    BY DEF Verifiable
  <2>2. PICK i \in DOMAIN Pages[commit] : i <= n - 1 /\ e \in Pages[commit][i]
    BY DEF OnPages, Verifiable
  <2>3. i # n
    BY <1>3, <2>2
  <2> QED BY <2>1, <2>2, <2>3, HubAssumption DEF Commits
<1>5. OnPages(commit, n) = before \cup here
  <2>1. \A j \in DOMAIN Pages[commit] : j <= n <=> j <= n - 1 \/ j = n
    BY <1>3
  <2> QED BY <2>1 DEF OnPages, Verifiable
<1> HIDE DEF before, here
<1>6. files \in Seq(before) /\ IsInjective(files) /\ Range(files) = before
  BY DEF Whole, before
<1>7. /\ files \o more \in Seq(before \cup here) /\ IsInjective(files \o more)
      /\ Range(files \o more) = before \cup here
  BY <1>2, <1>4, <1>6, TwoOrders
<1> QED BY <1>5, <1>7 DEF Whole

(* No listing is under way at first.                                        *)
LEMMA HubInitInv == HubInit => HubInv
  BY HubAssumption DEF HubInit, HubInv, Unread, Commits, HubFields

(* A page more: what was listed is the files of the pages read, each once.  *)
LEMMA ListInv == ASSUME HubInv, List PROVE HubInv'
<1> DEFINE commit == reading.commit
           entries == TreeEntries(reading.url)
           parsed == ParsePage(entries, reading.strict)
           read == [reading EXCEPT !.visited = @ \cup {reading.url}, !.files = @ \o parsed]
<1>1. PICK n \in Nat \ {0} :
         /\ commit \in Commits /\ reading.url = [rev |-> commit, page |-> n]
         /\ reading.visited = {[rev |-> commit, page |-> i] : i \in 1 .. n - 1}
         /\ Whole(reading.files, OnPages(commit, n - 1))
  BY DEF List, HubInv
<1>2. PICK next \in Links(reading.url) :
         reading' = IF parsed = Invalid THEN [Unread EXCEPT !.error = "malformed"]
                    ELSE IF next = Invalid THEN [read EXCEPT !.at = "done"]
                    ELSE IF ~Follow(next, read.visited) THEN [Unread EXCEPT !.error = "malformed"]
                    ELSE [read EXCEPT !.url = next]
  BY DEF List
<1>3. head' = head /\ head \in Commits /\ reading.at = "list"
  BY DEF List, HubInv
<1>4. commit \in Nat \ {0} /\ TreePage(reading.url) = Pages[commit]
  BY <1>1, HubAssumption DEF Commits, TreePage
<1>7. /\ DOMAIN read = HubFields /\ DOMAIN Unread = HubFields /\ DOMAIN reading = HubFields
      /\ read.commit = commit /\ read.files = reading.files \o parsed
      /\ read.visited = reading.visited \cup {reading.url} /\ read.at = "list"
  <2> HIDE DEF parsed
  <2> QED BY <1>3 DEF HubInv, HubFields, Unread
<1>8. DOMAIN reading' = HubFields
  <2> HIDE DEF parsed, read
  <2> QED BY <1>2, <1>7
<1>5. CASE reading'.at = "rest"
  BY <1>3, <1>5, <1>8 DEF HubInv
<1>6. CASE parsed # Invalid /\ reading'.at # "rest"
  <2> DEFINE page == IF n \in DOMAIN Pages[commit] THEN Pages[commit][n] ELSE {}
  <2>1. entries = page
    BY <1>1, <1>4 DEF TreeEntries
  <2>2. parsed = HubSeqs!SetToSeq(Verifiable(page))
    <3>1. {e \in {d \in page : d.file} : e.hash # Unhashed} = Verifiable(page)
      BY DEF Verifiable
    <3> HIDE DEF page
    <3> QED BY <1>6, <2>1, <3>1 DEF ParsePage
  <2> HIDE DEF page, parsed
  <2>3. Whole(reading.files \o parsed, OnPages(commit, n))
    BY <1>1, <2>2, OnePageMore DEF page
  <2>4. CASE next = Invalid
    <3>1. reading' = [read EXCEPT !.at = "done"]
      BY <1>2, <1>6, <2>4
    <3>2. ~(n < Len(Pages[commit]))
      <4>1. CASE n < Len(Pages[commit])
        <5>1. next \in {[rev |-> commit, page |-> n + 1], [rev |-> commit, page |-> 1], Nowhere}
          BY <1>1, <1>4, <4>1 DEF Links
        <5>2. next \in [rev : Nat, page : Nat]
          BY <1>4, <5>1 DEF Nowhere
        <5> QED BY <2>4, <5>2, HubAssumption
      <4> QED BY <4>1
    <3>3. OnPages(commit, n) = Verifiable(UNION Range(Pages[commit]))
      <4>1. \A j \in DOMAIN Pages[commit] : j <= n
        BY <1>1, <3>2, HubAssumption DEF Commits
      <4>2. {j \in DOMAIN Pages[commit] : j <= n} = DOMAIN Pages[commit]
        BY <4>1
      <4> QED BY <4>2 DEF OnPages, Range
    <3>5. reading'.at = "done" /\ reading'.commit = commit /\ reading'.files = reading.files \o parsed
      BY <1>7, <3>1
    <3> QED BY <1>1, <1>3, <1>8, <2>3, <3>3, <3>5 DEF HubInv
  <2>5. CASE next # Invalid
    <3>1. reading' = [read EXCEPT !.url = next] /\ next # Nowhere /\ next \notin read.visited
      BY <1>2, <1>6, <2>5 DEF Follow, Unread
    <3>2. /\ reading'.at = "list" /\ reading'.url = next /\ reading'.commit = commit
          /\ reading'.files = reading.files \o parsed
          /\ reading'.visited = {[rev |-> commit, page |-> i] : i \in 1 .. (n + 1) - 1}
      <4>1. {[rev |-> commit, page |-> i] : i \in 1 .. n - 1} \cup {[rev |-> commit, page |-> n]}
              = {[rev |-> commit, page |-> i] : i \in 1 .. (n + 1) - 1}
        <5>1. 1 .. (n + 1) - 1 = (1 .. n - 1) \cup {n}
          OBVIOUS
        <5> QED BY <5>1
      <4> HIDE DEF read
      <4>2. /\ reading'.at = "list" /\ reading'.url = next /\ reading'.commit = commit
            /\ reading'.files = reading.files \o parsed /\ reading'.visited = read.visited
        BY <1>7, <3>1 DEF HubFields
      <4> QED BY <1>1, <1>7, <4>1, <4>2
    <3>3. next = [rev |-> commit, page |-> n + 1]
      <4>1. next \in {[rev |-> commit, page |-> n + 1], [rev |-> commit, page |-> 1]}
        BY <1>1, <2>5, <3>1 DEF Links
      <4>2. [rev |-> commit, page |-> 1] \in read.visited
        BY <1>1, <1>7
      <4> QED BY <3>1, <4>1, <4>2
    <3>4. n + 1 \in Nat \ {0} /\ (n + 1) - 1 = n
      OBVIOUS
    <3>5. Whole(reading'.files, OnPages(commit, (n + 1) - 1))
      BY <2>3, <3>2, <3>4
    <3> HIDE DEF commit
    <3> DEFINE m == n + 1
    <3>6. /\ m \in Nat \ {0} /\ reading'.commit \in Commits
          /\ reading'.url = [rev |-> reading'.commit, page |-> m]
          /\ reading'.visited = {[rev |-> reading'.commit, page |-> i] : i \in 1 .. m - 1}
          /\ Whole(reading'.files, OnPages(reading'.commit, m - 1))
      BY <1>1, <3>2, <3>3, <3>4, <3>5
    <3> HIDE DEF m
    <3> QED BY <1>3, <1>8, <3>2, <3>6 DEF HubInv, Whole, OnPages, Verifiable
  <2> QED BY <2>4, <2>5
<1> QED BY <1>2, <1>5, <1>6 DEF Unread

(* Every step of the hub keeps the invariant.                               *)
LEMMA HubStep == ASSUME HubInv, [HubNext]_hubVars PROVE HubInv'
<1>1. CASE Push
  BY <1>1 DEF Push, HubInv, Commits
<1>2. CASE Read
  <2>1. head' = head /\ DOMAIN reading' = HubFields /\ reading'.at \in {"rest", "resolve"}
        /\ reading'.visited = {} /\ reading'.files = << >>
    BY <1>2 DEF Read, Unread, HubFields
  <2> QED BY <2>1 DEF HubInv
<1>3. CASE HubFails
  <2>1. head' = head /\ DOMAIN reading' = HubFields /\ reading'.at = "rest"
    BY <1>3 DEF HubFails, Unread, HubFields
  <2> QED BY <2>1 DEF HubInv
<1>4. CASE Resolve
  <2>1. head' = head /\ DOMAIN reading' = HubFields /\ reading'.at = "list"
        /\ reading'.commit = head /\ reading'.url = [rev |-> head, page |-> 1]
        /\ reading'.visited = reading.visited /\ reading'.files = reading.files
    BY <1>4 DEF Resolve, ListedAt, HubInv, HubFields
  <2>2. reading.visited = {} /\ reading.files = << >>
    BY <1>4 DEF Resolve, HubInv
  <2>3. Whole(<< >>, OnPages(head, 0))
    <3>1. OnPages(head, 0) = {}
      <4>1. DOMAIN Pages[head] \subseteq Nat \ {0}
        BY HubAssumption DEF HubInv, Commits
      <4> QED BY <4>1 DEF OnPages, Verifiable
    <3>2. << >> \in Seq({}) /\ DOMAIN << >> = {}
      BY EmptySeq
    <3> QED BY <3>1, <3>2 DEF Whole, IsInjective, Range
  <2>4. {[rev |-> head, page |-> i] : i \in 1 .. 1 - 1} = {}
    OBVIOUS
  <2>5. 1 \in Nat \ {0} /\ 1 - 1 = 0 /\ head \in Commits
    BY DEF HubInv
  <2> QED BY <2>1, <2>2, <2>3, <2>4, <2>5 DEF HubInv
<1>5. CASE List
  BY <1>5, ListInv
<1>6. CASE UNCHANGED hubVars
  BY <1>6 DEF hubVars, HubInv
<1> QED BY <1>1, <1>2, <1>3, <1>4, <1>5, <1>6 DEF HubNext

(* A thing is alone in a sequence of different things as it is in their set. *)
LEMMA PickedOne ==
  ASSUME NEW set, NEW files, Whole(files, set), NEW e \in set, Invalid \notin set
  PROVE  asset_for(files, e.platform) # Invalid <=> \A d \in set : d.platform = e.platform => d = e
<1> DEFINE named == {i \in DOMAIN files : files[i].platform = e.platform}
           pick == CHOOSE i \in named : TRUE
<1>1. /\ Len(files) \in Nat /\ DOMAIN files = 1 .. Len(files) /\ \A i \in DOMAIN files : files[i] \in set
      /\ \A i, j \in DOMAIN files : files[i] = files[j] => i = j
  BY LenProperties DEF Whole, IsInjective
<1>2. PICK k \in DOMAIN files : files[k] = e
  BY DEF Whole, Range
<1>3. k \in named
  BY <1>2
<1>4. asset_for(files, e.platform) = IF Cardinality(named) = 1 THEN files[pick] ELSE Invalid
  BY DEF asset_for
<1>5. named \subseteq DOMAIN files /\ pick \in named
  BY <1>3
<1> HIDE DEF pick
<1>6. IsFiniteSet(named)
  <2>1. IsFiniteSet(1 .. Len(files))
    BY <1>1, FS_Interval
  <2> QED BY <1>1, <1>5, <2>1, FS_Subset
<1>7. asset_for(files, e.platform) # Invalid <=> Cardinality(named) = 1
  BY <1>1, <1>4, <1>5
<1>8. ASSUME Cardinality(named) = 1, NEW d \in set, d.platform = e.platform PROVE d = e
  <2>1. PICK j \in DOMAIN files : files[j] = d
    BY DEF Whole, Range
  <2>2. j \in named
    BY <1>8, <2>1
  <2>3. PICK x : named = {x}
    <3> HIDE DEF named
    <3> QED BY <1>6, <1>8, FS_Singleton
  <2>4. j = k
    BY <1>3, <2>2, <2>3
  <2> QED BY <1>2, <2>1, <2>4
<1>9. ASSUME \A d \in set : d.platform = e.platform => d = e PROVE Cardinality(named) = 1
  <2>1. ASSUME NEW j \in named PROVE j = k
    BY <1>1, <1>2, <1>9, <2>1
  <2>2. named = {k}
    BY <1>3, <2>1
  <2> HIDE DEF named
  <2> QED BY <2>2, FS_Singleton
<1> QED BY <1>7, <1>8, <1>9

(* A listing read whole is its one commit's, each file once. *)
THEOREM OneRevisionHolds == HubSpec => []OneRevision
<1>1. HubInit => HubInv
  BY HubInitInv
<1>2. HubInv /\ [HubNext]_hubVars => HubInv'
  BY HubStep
<1>3. HubInv => OneRevision
  <2> SUFFICES ASSUME HubInv, reading.at = "done"
               PROVE  LET there == {e \in UNION Range(Pages[reading.commit]) : e.file /\ e.hash # Unhashed}
                      IN /\ Range(reading.files) = there
                         /\ Len(reading.files) = Cardinality(there)
                         /\ \A e \in there :
                              asset_for(reading.files, e.platform) # Invalid
                                <=> \A d \in there : d.platform = e.platform => d = e
    BY DEF OneRevision
  <2> DEFINE there == {e \in UNION Range(Pages[reading.commit]) : e.file /\ e.hash # Unhashed}
             files == reading.files
  <2>1. Whole(files, there) /\ reading.commit \in Commits
    BY DEF HubInv, Verifiable
  <2>2. Invalid \notin there
    BY <2>1, HubAssumption DEF Range, Commits
  <2> HIDE DEF there, files
  <2>3. Range(files) = there /\ files \in Bijection(1 .. Len(files), there) /\ Len(files) \in Nat
    <3>1. Len(files) \in Nat /\ files \in [1 .. Len(files) -> there]
      BY <2>1, LenProperties DEF Whole
    <3> QED BY <2>1, <3>1 DEF Whole, Range, Bijection, Injection, Surjection
  <2>4. Len(files) = Cardinality(there)
    BY <2>3, FS_CountingElements DEF ExistsBijection
  <2>5. \A e \in there : asset_for(files, e.platform) # Invalid
                            <=> \A d \in there : d.platform = e.platform => d = e
    BY <2>1, <2>2, PickedOne
  <2> QED BY <2>3, <2>4, <2>5 DEF there, files
<1> QED BY <1>1, <1>2, <1>3, PTL DEF HubSpec
=============================================================================
