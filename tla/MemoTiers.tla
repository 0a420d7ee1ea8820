----------------------------- MODULE MemoTiers ------------------------------
(***************************************************************************)
(* Memo::memory_disk: memory in front of one redb database, with deadlines,*)
(* promotion, removal, the cadence that defers durability, the sweep, and  *)
(* a process that is killed or closes its last handle.                     *)
(*                                                                         *)
(* The two tiers are visited one after the other without a common lock, so *)
(* a step is one access to one tier.  An access to the disk tier is one    *)
(* transaction: redb admits one writer at a time, and the cadence lock is  *)
(* held from before the transaction to after its commit.                   *)
(***************************************************************************)
EXTENDS Naturals, FiniteSets

CONSTANTS
    Threads,       \* users of the handle and its clones
    Keys,
    Sizes,         \* subset of {"fits", "over"}: within or over max_capacity
    Ttls,          \* the times to live written, in ticks; 0 included or not
    PromoteTtl,    \* promote_ttl, 0 for no promotion
    FlushEvery,    \* CacheOpts::flush_every
    FlushInterval, \* CacheOpts::flush_interval, 0 for none
    MaxWrites,     \* bound on set calls
    MaxTime,       \* bound on the clock
    None, Unknown

(* A record: which write it is, its size and when it expires; for a        *)
(* promoted copy also the deadline of the record it came from, and whether *)
(* time passed between reading the one and storing the other.              *)
Copy == [ver : 1..MaxWrites, size : Sizes, until : Nat, origin : Nat, late : BOOLEAN]

ASSUME TiersAssumption ==
    /\ Sizes \subseteq {"fits", "over"}
    /\ Ttls \subseteq Nat
    /\ PromoteTtl \in Nat
    /\ FlushEvery \in Nat \ {0}
    /\ FlushInterval \in Nat
    /\ MaxWrites \in Nat /\ MaxTime \in Nat
    /\ None \notin Copy /\ None \notin Nat /\ Unknown \notin Nat /\ None # Unknown

VARIABLES
    now,         \* both clocks: Instant and SystemTime, without jumps
    memory,      \* MemoryStore::cache
    disk,        \* the committed table
    durable,     \* what the table is after a crash
    pending,     \* Cadence::pending
    lastDurable, \* Cadence::last_durable
    sweeping,    \* DiskStore::sweeping
    call,        \* what each thread is doing
    writes,      \* how many set calls were made: the next value
    \* History, read by no guard.
    deferred,    \* the writes a crash would lose
    last         \* per key, the last write if nothing overlapped it

cadence == <<pending, lastDurable, deferred>>
vars == <<now, memory, disk, durable, sweeping, call, writes, cadence, last>>

-----------------------------------------------------------------------------
(* Data. *)

(* What a set stores. *)
Written(t) == [ver |-> call[t].with.ver, size |-> call[t].with.size,
               until |-> now + call[t].with.ttl, origin |-> 0, late |-> FALSE]

(* get, remove and retain re-check the deadline: remaining, is_live. *)
Live(copy) == copy # None /\ copy.until > now

Seen(tier, k) == IF Live(tier[k]) THEN tier[k].ver ELSE None

(* A call: its step, its keys and what it carries to the next step.        *)
Idle == [op |-> "idle", keys |-> {}, mixed |-> FALSE, with |-> None]
Busy(t) == call[t].op # "idle"
Writing(t) == call[t].op \notin {"idle", "get", "promote", "sweep", "compact"}

(* A call begins on some keys.  `mixed` is history: whether another writer *)
(* was between the tiers of one of them at the same time.                  *)
Begin(t, op, keys, with) ==
    LET writers == {u \in Threads : Writing(u) /\ call[u].keys \cap keys # {}}
    IN  call' = [u \in Threads |->
          IF u = t THEN [op |-> op, keys |-> keys, mixed |-> writers # {}, with |-> with]
          ELSE IF /\ op \in {"set", "remove", "retain"} /\ Busy(u)
                  /\ call[u].keys \cap keys # {}
               THEN [call[u] EXCEPT !.mixed = TRUE] ELSE call[u]]

Step(t, record) == call' = [call EXCEPT ![t] = record]
Goto(t, op) == Step(t, [call[t] EXCEPT !.op = op])

-----------------------------------------------------------------------------
(* The cadence. *)

(* Cadence::next_is_durable *)
NextIsDurable ==
    \/ pending + 1 >= FlushEvery
    \/ FlushInterval # 0 /\ now - lastDurable >= FlushInterval

(* A commit that leaves the table as `table`.  A durable one persists      *)
(* every write before it (Cadence::committed).                             *)
CommitDurably(table) ==
    /\ disk' = table
    /\ durable' = table
    /\ pending' = 0
    /\ lastDurable' = now
    /\ deferred' = {}

CommitDeferred(table, ver) ==
    /\ disk' = table
    /\ pending' = pending + 1
    /\ deferred' = deferred \cup {ver}
    /\ UNCHANGED <<durable, lastDurable>>

(* The transaction fails: nothing is committed and nothing is recorded. *)
NoCommit == UNCHANGED <<disk, durable, cadence>>

-----------------------------------------------------------------------------
(* get: memory, then disk, then promotion. *)

(* Mutant: the promoted copy lives for promote_ttl, whatever is left. *)
PromotionForever(copy) == PromoteTtl

(* How long a disk hit is kept in memory. *)
Promotion(copy) ==
    IF copy.until - now < PromoteTtl THEN copy.until - now ELSE PromoteTtl

Get(t, k) ==
    /\ ~Busy(t)
    /\ ~Live(memory[k])
    /\ Begin(t, "get", {k}, None)
    /\ UNCHANGED <<now, memory, disk, durable, sweeping, writes, cadence, last>>

(* A miss and a failed read end here. *)
GetDisk(t) ==
    /\ call[t].op = "get"
    /\ \E k \in call[t].keys :
          \/ /\ Live(disk[k]) /\ PromoteTtl # 0
             /\ Step(t, [call[t] EXCEPT !.op = "promote",
                            !.with = [copy |-> disk[k], ttl |-> Promotion(disk[k]), at |-> now]])
          \/ Step(t, Idle)
    /\ UNCHANGED <<now, memory, disk, durable, sweeping, writes, cadence, last>>

(* A promotion that races a write of the key leaves what nobody wrote last.*)
Promote(t) ==
    /\ call[t].op = "promote"
    /\ \E k \in call[t].keys :
          /\ memory' = IF call[t].with.copy.size = "over" THEN memory
                       ELSE [memory EXCEPT ![k] =
                              [call[t].with.copy EXCEPT !.until = now + call[t].with.ttl,
                                                        !.origin = call[t].with.copy.until,
                                                        !.late = now # call[t].with.at]]
          /\ last' = IF call[t].mixed THEN [last EXCEPT ![k] = Unknown] ELSE last
    /\ Step(t, Idle)
    /\ UNCHANGED <<now, disk, durable, sweeping, writes, cadence>>

-----------------------------------------------------------------------------
(* set: disk, then memory, whatever disk answered. *)

Set(t, k, size, ttl) ==
    /\ ~Busy(t)
    /\ writes < MaxWrites
    /\ writes' = writes + 1
    /\ Begin(t, "set", {k}, [ver |-> writes + 1, size |-> size, ttl |-> ttl])
    /\ last' = [last EXCEPT ![k] = Unknown]
    /\ UNCHANGED <<now, memory, disk, durable, sweeping, cadence>>

(* DiskStore::set declines a zero ttl and may fail. *)
SetDisk(t) ==
    /\ call[t].op = "set"
    /\ \E k \in call[t].keys :
          \/ /\ call[t].with.ttl # 0
             /\ LET table == [disk EXCEPT ![k] = Written(t)]
                IN  IF NextIsDurable THEN CommitDurably(table)
                                     ELSE CommitDeferred(table, call[t].with.ver)
             /\ Goto(t, "written")
          \/ NoCommit /\ Goto(t, "unwritten")
    /\ UNCHANGED <<now, memory, sweeping, writes, last>>

(* MemoryStore::set declines a zero ttl and a value over the budget: the   *)
(* entry already there is then left as it is.                              *)
SetMemory(t) ==
    /\ call[t].op \in {"written", "unwritten"}
    /\ \E k \in call[t].keys :
          /\ memory' = IF call[t].with.ttl # 0 /\ call[t].with.size = "fits"
                       THEN [memory EXCEPT ![k] = Written(t)] ELSE memory
          /\ last' = [last EXCEPT ![k] =
                IF ~call[t].mixed /\ call[t].op = "written" THEN call[t].with.ver ELSE Unknown]
    /\ Step(t, Idle)
    /\ UNCHANGED <<now, disk, durable, sweeping, writes, cadence>>

-----------------------------------------------------------------------------
(* remove and retain: disk, durably, then memory. *)

Remove(t, k) ==
    /\ ~Busy(t)
    /\ Begin(t, "remove", {k}, None)
    /\ last' = [last EXCEPT ![k] = Unknown]
    /\ UNCHANGED <<now, memory, disk, durable, sweeping, writes, cadence>>

(* Mutant: a removal follows the cadence like any other write. *)
RemoveDiskDeferred(t) ==
    /\ call[t].op = "remove"
    /\ disk' = [k \in Keys |-> IF k \in call[t].keys THEN None ELSE disk[k]]
    /\ Goto(t, "forget")
    /\ UNCHANGED <<now, memory, durable, sweeping, writes, cadence, last>>

RemoveDisk(t) ==
    /\ call[t].op = "remove"
    /\ \/ /\ CommitDurably([k \in Keys |-> IF k \in call[t].keys THEN None ELSE disk[k]])
          /\ Goto(t, "forget")
       \/ NoCommit /\ Goto(t, "fail")
    /\ UNCHANGED <<now, memory, sweeping, writes, last>>

(* Memory is visited whatever disk answered. *)
RemoveMemory(t) ==
    /\ call[t].op \in {"forget", "fail"}
    /\ memory' = [k \in Keys |-> IF k \in call[t].keys THEN None ELSE memory[k]]
    /\ last' = [k \in Keys |->
                  IF k \notin call[t].keys THEN last[k]
                  ELSE IF ~call[t].mixed /\ call[t].op = "forget" THEN None ELSE Unknown]
    /\ Step(t, Idle)
    /\ UNCHANGED <<now, disk, durable, sweeping, writes, cadence>>

(* keep accepts the keys outside `refused`. *)
Retain(t, refused) ==
    /\ ~Busy(t)
    /\ Begin(t, "retain", refused, None)
    /\ last' = [k \in Keys |-> IF k \in refused THEN Unknown ELSE last[k]]
    /\ UNCHANGED <<now, memory, disk, durable, sweeping, writes, cadence>>

(* One transaction, which drops the expired records too; aborted when it   *)
(* drops nothing.  A failure ends the call before memory is touched.       *)
RetainDisk(t) ==
    /\ call[t].op = "retain"
    /\ LET kept == {k \in Keys : Live(disk[k]) /\ k \notin call[t].keys}
       IN  \/ /\ IF \A k \in Keys \ kept : disk[k] = None
                 THEN NoCommit
                 ELSE CommitDurably([k \in Keys |-> IF k \in kept THEN disk[k] ELSE None])
              /\ Step(t, [call[t] EXCEPT !.op = "keep", !.with = [kept |-> kept]])
           \/ NoCommit /\ Step(t, Idle)
    /\ UNCHANGED <<now, memory, sweeping, writes, last>>

(* Mutant: memory asks `keep` again instead of following disk. *)
RetainMemoryAlone(t) ==
    /\ call[t].op = "keep"
    /\ Step(t, Idle)
    /\ last' = [k \in Keys |-> IF k \in call[t].keys /\ ~call[t].mixed THEN None ELSE last[k]]
    /\ UNCHANGED <<now, memory, disk, durable, sweeping, writes, cadence>>

(* Memory keeps what disk kept. *)
RetainMemory(t) ==
    /\ call[t].op = "keep"
    /\ memory' = [k \in Keys |-> IF k \in call[t].with.kept THEN memory[k] ELSE None]
    /\ last' = [k \in Keys |->
                  IF k \notin call[t].keys THEN last[k]
                  ELSE IF call[t].mixed THEN Unknown ELSE None]
    /\ Step(t, Idle)
    /\ UNCHANGED <<now, disk, durable, sweeping, writes, cadence>>

-----------------------------------------------------------------------------
(* flush and cleanup. *)

(* One empty durable commit, if a write is deferred. *)
Flush ==
    /\ pending # 0
    /\ CommitDurably(disk)
    /\ UNCHANGED <<now, memory, sweeping, call, writes, last>>

(* DiskStore::cleanup: a sweep already running is joined by nobody. *)
Cleanup(t) ==
    /\ ~Busy(t)
    /\ ~sweeping
    /\ sweeping' = TRUE
    /\ Begin(t, "sweep", {}, None)
    /\ UNCHANGED <<now, memory, disk, durable, writes, cadence, last>>

(* Mutant: the flag is cleared only by a sweep that reclaimed something. *)
SweepLeaving(t) ==
    /\ call[t].op = "sweep"
    /\ LET table == [k \in Keys |-> IF Live(disk[k]) THEN disk[k] ELSE None]
       IN  /\ disk' = table /\ durable' = table /\ deferred' = {}
           /\ IF table = disk THEN Step(t, Idle) ELSE Goto(t, "compact")
    /\ UNCHANGED <<now, memory, sweeping, writes, pending, lastDurable, last>>

(* The deletion pass commits durably without telling the cadence.  It ends *)
(* the call if it deleted nothing, or failed: the guard clears the flag.   *)
Sweep(t) ==
    /\ call[t].op = "sweep"
    /\ \/ LET table == [k \in Keys |-> IF Live(disk[k]) THEN disk[k] ELSE None]
          IN  /\ disk' = table /\ durable' = table /\ deferred' = {}
              /\ IF table = disk THEN Step(t, Idle) /\ sweeping' = FALSE
                 ELSE Goto(t, "compact") /\ UNCHANGED sweeping
       \/ /\ Step(t, Idle) /\ sweeping' = FALSE
          /\ UNCHANGED <<disk, durable, deferred>>
    /\ UNCHANGED <<now, memory, writes, pending, lastDurable, last>>

Compact(t) ==
    /\ call[t].op = "compact"
    /\ Step(t, Idle)
    /\ sweeping' = FALSE
    /\ UNCHANGED <<now, memory, disk, durable, writes, cadence, last>>

-----------------------------------------------------------------------------
(* What happens to the cache. *)

(* moka evicts to stay under the budget, and reaps expired entries. *)
Evict(k) ==
    /\ memory[k] # None
    /\ memory' = [memory EXCEPT ![k] = None]
    /\ UNCHANGED <<now, disk, durable, sweeping, call, writes, cadence, last>>

Tick ==
    /\ now < MaxTime
    /\ now' = now + 1
    /\ UNCHANGED <<memory, disk, durable, sweeping, call, writes, cadence, last>>

(* The store is opened again over what is durable. *)
Reopen(table) ==
    /\ memory' = [k \in Keys |-> None]
    /\ disk' = table
    /\ durable' = table
    /\ pending' = 0
    /\ lastDurable' = now
    /\ deferred' = {}
    /\ sweeping' = FALSE
    /\ call' = [t \in Threads |-> Idle]
    /\ last' = [k \in Keys |-> IF table[k] = disk[k] THEN last[k] ELSE Unknown]
    /\ UNCHANGED <<now, writes>>

(* The process is killed. *)
Crash == Reopen(durable)

(* The last handle is dropped: DiskStore::drop flushes, best effort. *)
Close ==
    /\ \A t \in Threads : ~Busy(t)
    /\ Reopen(disk) \/ (deferred # {} /\ Reopen(durable))

-----------------------------------------------------------------------------
Init ==
    /\ now = 0
    /\ memory = [k \in Keys |-> None]
    /\ disk = [k \in Keys |-> None]
    /\ durable = [k \in Keys |-> None]
    /\ pending = 0
    /\ lastDurable = 0
    /\ sweeping = FALSE
    /\ call = [t \in Threads |-> Idle]
    /\ writes = 0
    /\ deferred = {}
    /\ last = [k \in Keys |-> None]

Next ==
    \/ \E t \in Threads, k \in Keys : Get(t, k) \/ Remove(t, k)
    \/ \E t \in Threads, k \in Keys, s \in Sizes, ttl \in Ttls : Set(t, k, s, ttl)
    \/ \E t \in Threads, refused \in SUBSET Keys : Retain(t, refused)
    \/ \E t \in Threads : \/ GetDisk(t) \/ Promote(t) \/ SetDisk(t) \/ SetMemory(t)
                          \/ RemoveDisk(t) \/ RemoveMemory(t)
                          \/ RetainDisk(t) \/ RetainMemory(t)
                          \/ Cleanup(t) \/ Sweep(t) \/ Compact(t)
    \/ Flush
    \/ \E k \in Keys : Evict(k)
    \/ Tick
    \/ Crash
    \/ Close

Spec == Init /\ [][Next]_vars

-----------------------------------------------------------------------------
(* Properties. *)

(* "Bytes written come back exactly": with nobody else on the key since    *)
(* the last completed write or removal, each tier serves that write, or    *)
(* nothing.  After a removal neither tier serves anything.                 *)
ServesLastWrite ==
    \A k \in Keys : last[k] # Unknown =>
        Seen(memory, k) \in {None, last[k]} /\ Seen(disk, k) \in {None, last[k]}

(* A crash loses at most the last flush_every - 1 writes, each of them     *)
(* later than what is durable under its key; it never brings back a        *)
(* removed entry, so it can only change a key to an earlier write of it.   *)
CrashLosesOnlyDeferred ==
    /\ Cardinality(deferred) < FlushEvery
    /\ \A k \in Keys : durable[k] # disk[k] =>
          /\ disk[k] # None
          /\ disk[k].ver \in deferred

(* A promoted copy is not served after the record it came from expired,    *)
(* unless the thread slept between reading the one and storing the other.  *)
PromotedNoLonger ==
    \A k \in Keys :
        memory[k] # None /\ memory[k].origin # 0 /\ ~memory[k].late =>
            memory[k].until <= memory[k].origin
=============================================================================
