-------------------------- MODULE MemoStoresProofs --------------------------
(***************************************************************************)
(* Proofs about MemoTiers, for any number of threads, keys, writes, times  *)
(* to live and cadences, and about MemoRegistry, for any number of opening *)
(* threads, stores and attempts.                                           *)
(***************************************************************************)
EXTENDS MemoTiers, MemoRegistry, FiniteSetTheorems, TLAPS

-----------------------------------------------------------------------------
(* The two tiers. *)

Ops == {"idle", "get", "promote", "set", "written", "unwritten", "remove", "forget", "fail",
        "retain", "keep", "sweep", "compact"}

(* A call is a record that carries what its step needs.                     *)
IsCall(c) ==
    /\ c \in [op : Ops, keys : SUBSET Keys, mixed : BOOLEAN, with : {c.with}]
    /\ c.op \in {"set", "written", "unwritten"} =>
          c.with \in [ver : 1 .. MaxWrites, size : Sizes, ttl : Ttls]
    /\ c.op = "promote" => c.with \in [copy : Copy, ttl : Nat, at : Nat]
    /\ c.op \in {"get", "promote", "set", "written", "unwritten", "remove"} =>
          \E k \in Keys : c.keys = {k}

TiersTypeOK ==
    /\ now \in Nat /\ writes \in 0 .. MaxWrites
    /\ memory \in [Keys -> Copy \cup {None}]
    /\ disk \in [Keys -> Copy \cup {None}]
    /\ durable \in [Keys -> Copy \cup {None}]
    /\ pending \in Nat /\ lastDurable \in Nat /\ sweeping \in BOOLEAN
    /\ deferred \in SUBSET (1 .. MaxWrites)
    /\ call = [t \in Threads |-> call[t]]
    /\ \A t \in Threads : IsCall(call[t])
    /\ last \in [Keys -> 1 .. MaxWrites \cup {None, Unknown}]

(* The cadence counts every deferred write, and commits durably in time.    *)
Counted == Cardinality(deferred) <= pending /\ pending < FlushEvery

(* What a crash changes is a deferred write.                                *)
BehindByDeferred ==
    \A k \in Keys : durable[k] # disk[k] => disk[k] # None /\ disk[k].ver \in deferred

(* A promotion carries no more time than its record had left when read.     *)
PromisesWhatIsLeft ==
    \A t \in Threads : call[t].op = "promote" =>
        /\ call[t].with.at <= now
        /\ call[t].with.at + call[t].with.ttl <= call[t].with.copy.until

(* A call that another writer of its keys overlaps knows it.                *)
OverlapIsMixed ==
    \A t, u \in Threads :
        t # u /\ Writing(t) /\ Busy(u) /\ call[t].keys \cap call[u].keys # {} => call[u].mixed

(* While a key is being written, nobody knows which write is its last.      *)
WritingIsUnknown ==
    \A t \in Threads : Writing(t) => \A k \in call[t].keys : last[k] = Unknown

(* What a reader that nobody overlapped promotes is the last write.         *)
PromotesLast ==
    \A t \in Threads : call[t].op = "promote" /\ ~call[t].mixed =>
        \A k \in call[t].keys : last[k] # Unknown => call[t].with.copy.ver = last[k]

(* What a writer that nobody overlapped has left on disk.                   *)
LandedAs(c, k, found) ==
    /\ c.op = "written" => c.with.ttl # 0 /\ (found # None => found.ver = c.with.ver)
    /\ c.op \in {"forget", "keep"} => found = None
    /\ c.op = "keep" => k \notin c.with.kept

Landed ==
    \A t \in Threads : ~call[t].mixed => \A k \in call[t].keys : LandedAs(call[t], k, disk[k])

CrashInv == TiersTypeOK /\ Counted /\ BehindByDeferred /\ PromisesWhatIsLeft /\ PromotedNoLonger
ServeInv == OverlapIsMixed /\ WritingIsUnknown /\ PromotesLast /\ Landed /\ ServesLastWrite

(* What a commit leaves deferred is nothing, or one write more.             *)
LEMMA NoneDeferred == Cardinality({}) = 0
  BY FS_EmptySet

(* A deferred commit adds one write at most.                                *)
LEMMA OneMoreDeferred ==
  ASSUME NEW S \in SUBSET (1 .. MaxWrites), NEW v
  PROVE  /\ Cardinality(S) \in Nat /\ Cardinality(S \cup {v}) \in Nat
         /\ Cardinality(S \cup {v}) <= Cardinality(S) + 1
<1>1. IsFiniteSet(1 .. MaxWrites)
  BY TiersAssumption, FS_Interval
<1>2. IsFiniteSet(S) /\ Cardinality(S) \in Nat
  BY <1>1, FS_Subset, FS_CardinalityType
<1> QED BY <1>2, FS_AddElement

(* After a durable commit nothing is deferred and a crash changes nothing.  *)
LEMMA DurablyBehind ==
  ASSUME deferred' = {}, durable' = disk', pending' \in Nat, pending' < FlushEvery
  PROVE  (Counted /\ BehindByDeferred)'
BY NoneDeferred DEF Counted, BehindByDeferred

(* A step of one call, and what it leaves of the others.                    *)
LEMMA OneCallMoves ==
  ASSUME TiersTypeOK, NEW t \in Threads, NEW c, IsCall(c), call' = [call EXCEPT ![t] = c]
  PROVE  /\ call' = [u \in Threads |-> call'[u]]
         /\ \A u \in Threads : IsCall(call'[u])
         /\ call'[t] = c /\ \A u \in Threads \ {t} : call'[u] = call[u]
<1>1. call'[t] = c /\ \A u \in Threads \ {t} : call'[u] = call[u]
  BY DEF TiersTypeOK
<1> QED BY <1>1 DEF TiersTypeOK

(* A call's next step, with what it carries there.                          *)
Onward(c, op, with) == [c EXCEPT !.op = op, !.with = with]

(* A call that goes on with the same keys is as mixed as it was.            *)
LEMMA CallGoesOn ==
  ASSUME NEW c, IsCall(c), NEW op \in Ops, NEW with,
         op \notin {"set", "written", "unwritten", "remove"},
         op = "promote" => with \in [copy : Copy, ttl : Nat, at : Nat],
         op \in {"get", "promote"} => \E k \in Keys : c.keys = {k}
  PROVE  /\ IsCall(Onward(c, op, with))
         /\ Onward(c, op, with).op = op /\ Onward(c, op, with).keys = c.keys
         /\ Onward(c, op, with).with = with /\ Onward(c, op, with).mixed = c.mixed
<1> DEFINE d == Onward(c, op, with)
<1>1. d.op = op /\ d.keys = c.keys /\ d.with = with /\ d.mixed = c.mixed
  BY DEF IsCall, Onward
<1>2. d \in [op : Ops, keys : SUBSET Keys, mixed : BOOLEAN, with : {d.with}]
  BY DEF IsCall, Onward
<1> HIDE DEF d
<1>3. IsCall(d)
  BY <1>1, <1>2 DEF IsCall
<1> QED BY <1>1, <1>3 DEF d

(* A call that only changes its step.                                       *)
LEMMA CallGoesTo ==
  ASSUME TiersTypeOK, NEW t \in Threads, NEW op \in Ops, Goto(t, op),
         op \in {"written", "unwritten"} => call[t].op = "set",
         op \notin {"get", "promote", "set", "remove"}
  PROVE  /\ call' = [u \in Threads |-> call'[u]] /\ \A u \in Threads : IsCall(call'[u])
         /\ call'[t].op = op /\ call'[t].keys = call[t].keys
         /\ call'[t].with = call[t].with /\ call'[t].mixed = call[t].mixed
         /\ \A u \in Threads \ {t} : call'[u] = call[u]
<1>1. IsCall(call[t])
  BY DEF TiersTypeOK
<1>2. PICK d : d = [call[t] EXCEPT !.op = op]
  OBVIOUS
<1>3. d.op = op /\ d.keys = call[t].keys /\ d.with = call[t].with /\ d.mixed = call[t].mixed
  BY <1>1, <1>2 DEF IsCall
<1>4. d \in [op : Ops, keys : SUBSET Keys, mixed : BOOLEAN, with : {d.with}]
  BY <1>1, <1>2 DEF IsCall
<1>5. IsCall(d)
  BY <1>1, <1>3, <1>4 DEF IsCall
<1>6. call' = [call EXCEPT ![t] = d]
  BY <1>2 DEF Goto, Step
<1> QED BY <1>3, <1>5, <1>6, OneCallMoves

(* A call that ends.                                                        *)
LEMMA CallEnds ==
  ASSUME TiersTypeOK, NEW t \in Threads, Step(t, Idle)
  PROVE  /\ call' = [u \in Threads |-> call'[u]] /\ \A u \in Threads : IsCall(call'[u])
         /\ call'[t] = Idle /\ \A u \in Threads \ {t} : call'[u] = call[u]
<1>1. IsCall(Idle)
  BY DEF IsCall, Idle, Ops
<1> QED BY <1>1, OneCallMoves DEF Step

(* A writer of some keys takes from the disk only what no other writer,     *)
(* unless it is mixed, has left there.                                      *)
LEMMA LandedElsewhere ==
  ASSUME TiersTypeOK, OverlapIsMixed, Landed, NEW t \in Threads, Writing(t),
         NEW u \in Threads \ {t}, ~call[u].mixed, NEW k \in call[u].keys,
         \A j \in Keys \ call[t].keys : disk'[j] \in {disk[j], None}
  PROVE  LandedAs(call[u], k, disk'[k])
<1>1. CASE ~Busy(u)
  BY <1>1 DEF Busy, LandedAs
<1>2. CASE Busy(u)
  <2>1. k \in Keys
    BY DEF TiersTypeOK, IsCall
  <2>2. k \notin call[t].keys
    BY <1>2 DEF OverlapIsMixed
  <2> QED BY <2>1, <2>2 DEF Landed, LandedAs
<1> QED BY <1>1, <1>2

(* A call begins: it knows of the writers of its keys, and they of it.      *)
LEMMA Begins ==
  ASSUME TiersTypeOK, NEW t \in Threads, ~Busy(t), NEW op \in Ops, NEW keys \in SUBSET Keys,
         NEW with, Begin(t, op, keys, with)
  PROVE  /\ call' = [u \in Threads |-> call'[u]]
         /\ call'[t] \in [op : {op}, keys : {keys}, mixed : BOOLEAN, with : {with}]
         /\ \A u \in Threads \ {t} :
               /\ IsCall(call'[u]) /\ call'[u].op = call[u].op /\ call'[u].keys = call[u].keys
               /\ call'[u].with = call[u].with /\ (call[u].mixed => call'[u].mixed)
               /\ Writing(u) /\ call[u].keys \cap keys # {} => call'[t].mixed
               /\ /\ op \in {"set", "remove", "retain"} /\ Busy(u)
                  /\ call[u].keys \cap keys # {}
                  => call'[u].mixed
<1> DEFINE writers == {u \in Threads : Writing(u) /\ call[u].keys \cap keys # {}}
           mine == [op |-> op, keys |-> keys, mixed |-> writers # {}, with |-> with]
           Warned(u) == /\ op \in {"set", "remove", "retain"} /\ Busy(u)
                        /\ call[u].keys \cap keys # {}
<1>1. /\ call' = [u \in Threads |-> call'[u]] /\ call'[t] = mine
      /\ \A u \in Threads \ {t} :
            call'[u] = IF Warned(u) THEN [call[u] EXCEPT !.mixed = TRUE] ELSE call[u]
  BY DEF Begin
<1>2. mine \in [op : {op}, keys : {keys}, mixed : BOOLEAN, with : {with}]
  OBVIOUS
<1>3. ASSUME NEW u \in Threads \ {t}
      PROVE  /\ IsCall(call'[u]) /\ call'[u].op = call[u].op /\ call'[u].keys = call[u].keys
             /\ call'[u].with = call[u].with /\ (call[u].mixed => call'[u].mixed)
             /\ Warned(u) => call'[u].mixed
  <2>1. CASE ~Warned(u)
    BY <1>1, <2>1 DEF TiersTypeOK
  <2>2. CASE Warned(u)
    <3> DEFINE d == [call[u] EXCEPT !.mixed = TRUE]
    <3>1. IsCall(call[u])
      BY DEF TiersTypeOK
    <3>2. d.op = call[u].op /\ d.keys = call[u].keys /\ d.with = call[u].with /\ d.mixed = TRUE
      BY <3>1 DEF IsCall
    <3>3. d \in [op : Ops, keys : SUBSET Keys, mixed : BOOLEAN, with : {d.with}]
      BY <3>1 DEF IsCall
    <3>4. call'[u] = d
      BY <1>1, <2>2
    <3> HIDE DEF d, Warned
    <3>5. IsCall(d)
      BY <3>1, <3>2, <3>3 DEF IsCall
    <3> QED BY <3>2, <3>4, <3>5
  <2> QED BY <2>1, <2>2
<1>4. ASSUME NEW u \in Threads \ {t}, Writing(u), call[u].keys \cap keys # {}
      PROVE  call'[t].mixed
  <2>1. writers # {}
    BY <1>4
  <2>2. mine = [op |-> op, keys |-> keys, mixed |-> TRUE, with |-> with]
    BY <2>1
  <2>3. call'[t] = [op |-> op, keys |-> keys, mixed |-> TRUE, with |-> with]
    BY <1>1, <2>2
  <2> QED BY <2>3
<1> QED BY <1>1, <1>2, <1>3, <1>4

(* get misses memory and goes to disk.                                      *)
LEMMA GetKeepsTiers ==
  ASSUME CrashInv, NEW t \in Threads, NEW k \in Keys, Get(t, k)
  PROVE  CrashInv' /\ (ServeInv /\ "over" \notin Sizes => ServeInv')
<1> USE TiersAssumption DEF CrashInv, Get, Begin, Busy, Writing, Idle, cadence
<1>1. TiersTypeOK'
  BY DEF TiersTypeOK, IsCall, Ops, Copy
<1>2. Counted'
  BY NoneDeferred DEF TiersTypeOK, Counted
<1>3. BehindByDeferred'
  BY DEF TiersTypeOK, Copy, BehindByDeferred
<1>4. PromisesWhatIsLeft'
  BY DEF TiersTypeOK, IsCall, PromisesWhatIsLeft
<1>5. PromotedNoLonger'
  BY DEF TiersTypeOK, IsCall, PromisesWhatIsLeft, PromotedNoLonger
<1>6. ASSUME ServeInv, "over" \notin Sizes PROVE ServeInv'
  <2> USE <1>6 DEF ServeInv
  <2>1. OverlapIsMixed'
    BY DEF TiersTypeOK, IsCall, OverlapIsMixed, Writing, Busy
  <2>2. WritingIsUnknown'
    BY DEF TiersTypeOK, IsCall, OverlapIsMixed, WritingIsUnknown, Writing, Busy
  <2>3. PromotesLast'
    BY DEF TiersTypeOK, IsCall, PromotesLast, OverlapIsMixed, Writing, Busy
  <2>4. Landed'
    BY DEF TiersTypeOK, IsCall, Landed, LandedAs, OverlapIsMixed, Writing, Busy
  <2>5. ServesLastWrite'
    BY DEF TiersTypeOK, IsCall, WritingIsUnknown, PromotesLast, Landed, LandedAs, ServesLastWrite, Seen, Live, Writing
  <2> QED BY <2>1, <2>2, <2>3, <2>4, <2>5
<1> QED BY <1>1, <1>2, <1>3, <1>4, <1>5, <1>6

(* A disk hit is promoted for no longer than it has left.                   *)
LEMMA GetDiskKeepsTiers ==
  ASSUME CrashInv, NEW t \in Threads, GetDisk(t)
  PROVE  CrashInv' /\ (ServeInv /\ "over" \notin Sizes => ServeInv')
<1> USE TiersAssumption
<1>0. TiersTypeOK /\ IsCall(call[t]) /\ call[t].op = "get"
  BY DEF CrashInv, TiersTypeOK, GetDisk
<1>1. PICK k \in Keys : call[t].keys = {k}
  BY <1>0 DEF IsCall
<1> DEFINE with == [copy |-> disk[k], ttl |-> Promotion(disk[k]), at |-> now]
<1>2. UNCHANGED <<now, memory, disk, durable, sweeping, writes, cadence, last>>
  BY DEF GetDisk
<1>3. \/ Step(t, Idle)
      \/ Live(disk[k]) /\ Step(t, [call[t] EXCEPT !.op = "promote", !.with = with])
  BY <1>1 DEF GetDisk
<1>4. /\ call' = [u \in Threads |-> call'[u]] /\ \A u \in Threads : IsCall(call'[u])
      /\ \A u \in Threads \ {t} : call'[u] = call[u]
      /\ \/ call'[t] = Idle
         \/ /\ call'[t].op = "promote" /\ call'[t].keys = {k} /\ call'[t].mixed = call[t].mixed
            /\ call'[t].with.copy = disk[k] /\ call'[t].with.at = now
            /\ now + call'[t].with.ttl <= disk[k].until /\ Live(disk[k])
  <2>1. CASE Step(t, Idle)
    <3>1. IsCall(Idle)
      BY DEF IsCall, Idle, Ops
    <3> QED BY <1>0, <2>1, <3>1, OneCallMoves DEF Step
  <2>2. CASE Live(disk[k]) /\ Step(t, [call[t] EXCEPT !.op = "promote", !.with = with])
    <3>1. disk[k] \in Copy /\ now \in Nat /\ disk[k].until \in Nat /\ disk[k].until > now
      BY <1>0, <2>2 DEF TiersTypeOK, Live, Copy
    <3>2. Promotion(disk[k]) \in Nat /\ now + Promotion(disk[k]) <= disk[k].until
      BY <3>1 DEF Promotion
    <3>3. with \in [copy : Copy, ttl : Nat, at : Nat] /\ with.copy = disk[k] /\ with.at = now
          /\ with.ttl = Promotion(disk[k])
      BY <3>1, <3>2
    <3> HIDE DEF with
    <3> DEFINE d == Onward(call[t], "promote", with)
    <3>4. /\ IsCall(d) /\ d.op = "promote" /\ d.keys = call[t].keys /\ d.with = with
          /\ d.mixed = call[t].mixed
      BY <1>0, <1>1, <3>3, CallGoesOn DEF Ops
    <3>5. call' = [call EXCEPT ![t] = d]
      BY <2>2 DEF Step, Onward
    <3> HIDE DEF d
    <3>6. /\ call' = [u \in Threads |-> call'[u]] /\ \A u \in Threads : IsCall(call'[u])
          /\ call'[t] = d /\ \A u \in Threads \ {t} : call'[u] = call[u]
      BY <1>0, <3>4, <3>5, OneCallMoves
    <3> QED BY <1>1, <2>2, <3>2, <3>3, <3>4, <3>6
  <2> QED BY <1>3, <2>1, <2>2
<1>5. TiersTypeOK'
  BY <1>0, <1>2, <1>4 DEF TiersTypeOK, cadence
<1>6. (Counted /\ BehindByDeferred /\ PromotedNoLonger)'
  BY <1>2 DEF CrashInv, Counted, BehindByDeferred, PromotedNoLonger, cadence
<1>7. PromisesWhatIsLeft'
  BY <1>0, <1>2, <1>4 DEF CrashInv, PromisesWhatIsLeft, TiersTypeOK, Idle
<1>8. ASSUME ServeInv PROVE ServeInv'
  <2> USE <1>0, <1>1, <1>2, <1>4, <1>8 DEF ServeInv, Idle
  <2>1. OverlapIsMixed'
    BY DEF TiersTypeOK, OverlapIsMixed, Writing, Busy
  <2>2. WritingIsUnknown'
    BY DEF WritingIsUnknown, Writing
  <2>3. PromotesLast'
    BY DEF PromotesLast, ServesLastWrite, Seen, Live, TiersTypeOK, Copy
  <2>4. Landed'
    BY DEF Landed, LandedAs
  <2>5. ServesLastWrite'
    BY DEF ServesLastWrite, Seen, Live
  <2> QED BY <2>1, <2>2, <2>3, <2>4, <2>5
<1> QED BY <1>5, <1>6, <1>7, <1>8 DEF CrashInv

(* The promoted copy is the record that was read, for the time it had left. *)
LEMMA PromoteKeepsTiers ==
  ASSUME CrashInv, NEW t \in Threads, Promote(t)
  PROVE  CrashInv' /\ (ServeInv /\ "over" \notin Sizes => ServeInv')
<1> USE TiersAssumption
<1> DEFINE w == call[t].with
<1>0. TiersTypeOK /\ IsCall(call[t]) /\ call[t].op = "promote" /\ Step(t, Idle)
      /\ UNCHANGED <<now, disk, durable, sweeping, writes, cadence>>
  BY DEF CrashInv, TiersTypeOK, Promote
<1>1. PICK k \in Keys : call[t].keys = {k}
  BY <1>0 DEF IsCall
<1>2. /\ w \in [copy : Copy, ttl : Nat, at : Nat]
      /\ w.at <= now /\ w.at + w.ttl <= w.copy.until
  BY <1>0 DEF IsCall, CrashInv, PromisesWhatIsLeft
<1>3. PICK late \in BOOLEAN : late = (now # w.at)
  OBVIOUS
<1> DEFINE c == [w.copy EXCEPT !.until = now + w.ttl, !.origin = w.copy.until, !.late = late]
<1>4. /\ c \in Copy /\ c.ver = w.copy.ver /\ c.origin = w.copy.until /\ c.until = now + w.ttl
      /\ c.late = late
  <2>1. w.copy \in Copy /\ now + w.ttl \in Nat /\ w.copy.until \in Nat
    BY <1>0, <1>2 DEF TiersTypeOK, Copy
  <2> HIDE DEF w
  <2> QED BY <2>1, <1>3 DEF Copy
<1>5. ~c.late => c.until <= c.origin
  BY <1>2, <1>3, <1>4
<1>6. memory' = memory \/ memory' = [memory EXCEPT ![k] = c]
  BY <1>1, <1>3 DEF Promote
<1>7. /\ last' = IF call[t].mixed THEN [last EXCEPT ![k] = Unknown] ELSE last
      /\ w.copy.size # "over" => memory' = [memory EXCEPT ![k] = c]
  BY <1>1, <1>3 DEF Promote
<1>c. /\ call' = [u \in Threads |-> call'[u]] /\ \A u \in Threads : IsCall(call'[u])
      /\ call'[t] = Idle /\ \A u \in Threads \ {t} : call'[u] = call[u]
  BY <1>0, CallEnds
<1> HIDE DEF c, w
<1>8. CrashInv'
  <2>1. TiersTypeOK'
    BY <1>0, <1>4, <1>6, <1>7, <1>c DEF TiersTypeOK, cadence
  <2>2. (Counted /\ BehindByDeferred)'
    BY <1>0 DEF CrashInv, Counted, BehindByDeferred, cadence
  <2>3. PromisesWhatIsLeft'
    BY <1>0, <1>c DEF CrashInv, PromisesWhatIsLeft, Idle
  <2>4. PromotedNoLonger'
    BY <1>0, <1>5, <1>6 DEF CrashInv, PromotedNoLonger, TiersTypeOK
  <2> QED BY <2>1, <2>2, <2>3, <2>4 DEF CrashInv

<1>9. ASSUME ServeInv, "over" \notin Sizes PROVE ServeInv'
  <2> USE <1>0, <1>1, <1>4, <1>6, <1>7, <1>c, <1>9 DEF ServeInv, Idle
  <2>1. OverlapIsMixed'
    BY DEF TiersTypeOK, OverlapIsMixed, Writing, Busy
  <2>2. WritingIsUnknown'
    BY DEF TiersTypeOK, WritingIsUnknown, OverlapIsMixed, Writing, Busy
  <2>3. PromotesLast'
    BY DEF TiersTypeOK, PromotesLast, OverlapIsMixed, Writing, Busy
  <2>4. Landed'
    BY DEF TiersTypeOK, Landed, LandedAs, OverlapIsMixed, Writing, Busy
  <2>5. ServesLastWrite'
    BY DEF w, TiersTypeOK, WritingIsUnknown, PromotesLast, Landed, LandedAs, ServesLastWrite, Seen, Live, Writing
  <2> QED BY <2>1, <2>2, <2>3, <2>4, <2>5
<1> QED BY <1>8, <1>9

(* set begins: nobody knows the last write of its key.                      *)
LEMMA SetKeepsTiers ==
  ASSUME CrashInv, NEW t \in Threads, NEW k \in Keys, NEW size \in Sizes, NEW ttl \in Ttls, Set(t, k, size, ttl)
  PROVE  CrashInv' /\ (ServeInv /\ "over" \notin Sizes => ServeInv')
<1> USE TiersAssumption DEF CrashInv, Set, cadence
<1> DEFINE with == [ver |-> writes + 1, size |-> size, ttl |-> ttl]
<1>a. /\ call' = [u \in Threads |-> call'[u]]
      /\ call'[t] \in [op : {"set"}, keys : {{k}}, mixed : BOOLEAN, with : {with}]
      /\ \A u \in Threads \ {t} :
            /\ IsCall(call'[u]) /\ call'[u].op = call[u].op /\ call'[u].keys = call[u].keys
            /\ call'[u].with = call[u].with /\ (call[u].mixed => call'[u].mixed)
            /\ Writing(u) /\ call[u].keys \cap {k} # {} => call'[t].mixed
            /\ Busy(u) /\ call[u].keys \cap {k} # {} => call'[u].mixed
  <2>1. Begin(t, "set", {k}, with) /\ "set" \in Ops /\ {k} \in SUBSET Keys /\ ~Busy(t)
    BY DEF Ops
  <2>2. "set" \in {"set", "remove", "retain"}
    OBVIOUS
  <2> HIDE DEF with, CrashInv
  <2>3. TiersTypeOK
    BY DEF CrashInv
  <2> QED BY ONLY <2>1, <2>2, <2>3, Begins
<1>b. IsCall(call'[t])
  BY <1>a DEF IsCall, Ops, TiersTypeOK
<1>1. TiersTypeOK'
  <2>1. \A u \in Threads : IsCall(call'[u])
    BY <1>a, <1>b
  <2>2. last' \in [Keys -> 1 .. MaxWrites \cup {None, Unknown}] /\ writes' \in 0 .. MaxWrites
    BY DEF TiersTypeOK
  <2> QED BY <1>a, <2>1, <2>2 DEF TiersTypeOK
<1>2. Counted'
  BY DEF Counted
<1>3. BehindByDeferred'
  BY <1>a DEF TiersTypeOK, Copy, BehindByDeferred
<1>4. PromisesWhatIsLeft'
  BY <1>a DEF TiersTypeOK, IsCall, PromisesWhatIsLeft
<1>5. PromotedNoLonger'
  BY <1>a DEF TiersTypeOK, IsCall, PromisesWhatIsLeft, PromotedNoLonger
<1>6. ASSUME ServeInv, "over" \notin Sizes PROVE ServeInv'
  <2> USE <1>6 DEF ServeInv
  <2>1. OverlapIsMixed'
    BY <1>a DEF TiersTypeOK, IsCall, OverlapIsMixed, Writing, Busy
  <2>2. WritingIsUnknown'
    BY <1>a DEF TiersTypeOK, IsCall, OverlapIsMixed, WritingIsUnknown, Writing, Busy
  <2>3. PromotesLast'
    BY <1>a DEF TiersTypeOK, IsCall, PromotesLast, OverlapIsMixed, Writing, Busy
  <2>4. Landed'
    BY <1>a DEF TiersTypeOK, IsCall, Landed, LandedAs, OverlapIsMixed, Writing, Busy
  <2>5. ServesLastWrite'
    BY <1>a DEF TiersTypeOK, IsCall, WritingIsUnknown, PromotesLast, Landed, LandedAs, ServesLastWrite, Seen, Live, Writing
  <2> QED BY <2>1, <2>2, <2>3, <2>4, <2>5
<1> QED BY <1>1, <1>2, <1>3, <1>4, <1>5, <1>6

(* One more write is deferred, or none is.                                  *)
LEMMA SetDiskKeepsTiers ==
  ASSUME CrashInv, NEW t \in Threads, SetDisk(t)
  PROVE  CrashInv' /\ (ServeInv /\ "over" \notin Sizes => ServeInv')
<1> USE TiersAssumption
<1> DEFINE w == call[t].with
           c == Written(t)
<1>0. TiersTypeOK /\ IsCall(call[t]) /\ call[t].op = "set"
      /\ UNCHANGED <<now, memory, sweeping, writes, last>>
  BY DEF CrashInv, TiersTypeOK, SetDisk
<1>1. PICK k \in Keys : call[t].keys = {k}
  BY <1>0 DEF IsCall
<1>2. w \in [ver : 1 .. MaxWrites, size : Sizes, ttl : Ttls]
  BY <1>0 DEF IsCall
<1>3. c \in Copy /\ c.ver = w.ver
  <2>1. now + w.ttl \in Nat /\ 0 \in Nat
    BY <1>0, <1>2 DEF TiersTypeOK
  <2> QED BY <1>2, <2>1 DEF Written, Copy
<1>4. PICK op \in {"written", "unwritten"} :
        /\ Goto(t, op)
        /\ \/ op = "unwritten" /\ UNCHANGED <<disk, durable, cadence>>
           \/ /\ op = "written" /\ w.ttl # 0 /\ disk' = [disk EXCEPT ![k] = c]
              /\ \/ durable' = disk' /\ pending' = 0 /\ lastDurable' = now /\ deferred' = {}
                 \/ /\ UNCHANGED <<durable, lastDurable>> /\ pending' = pending + 1
                    /\ ~(pending + 1 >= FlushEvery) /\ deferred' = deferred \cup {w.ver}
  BY <1>0, <1>1 DEF SetDisk, CommitDurably, CommitDeferred, NoCommit, NextIsDurable
<1>5. /\ call' = [u \in Threads |-> call'[u]] /\ \A u \in Threads : IsCall(call'[u])
      /\ call'[t].op = op /\ call'[t].keys = call[t].keys
      /\ call'[t].with = w /\ call'[t].mixed = call[t].mixed
      /\ \A u \in Threads \ {t} : call'[u] = call[u]
  BY <1>0, <1>4, CallGoesTo DEF Ops
<1> HIDE DEF w, c
<1>8. CrashInv'
  <2>1. TiersTypeOK'
    BY <1>0, <1>2, <1>3, <1>4, <1>5 DEF TiersTypeOK, cadence
  <2>2. Counted'
    <3>1. CASE deferred' = deferred \cup {w.ver} /\ pending' = pending + 1
               /\ ~(pending + 1 >= FlushEvery)
      <4>1. /\ Cardinality(deferred) \in Nat /\ Cardinality(deferred \cup {w.ver}) \in Nat
            /\ Cardinality(deferred \cup {w.ver}) <= Cardinality(deferred) + 1
        BY <1>0, OneMoreDeferred DEF TiersTypeOK
      <4> QED BY <1>0, <3>1, <4>1 DEF CrashInv, Counted, TiersTypeOK
    <3>2. CASE deferred' = {} /\ pending' = 0
      BY <3>2, NoneDeferred DEF Counted
    <3>3. CASE UNCHANGED cadence
      BY <3>3 DEF CrashInv, Counted, cadence
    <3> QED BY <1>4, <3>1, <3>2, <3>3
  <2>3. BehindByDeferred'
    BY <1>0, <1>3, <1>4 DEF CrashInv, BehindByDeferred, TiersTypeOK, cadence, Copy
  <2>4. (PromisesWhatIsLeft /\ PromotedNoLonger)'
    BY <1>0, <1>4, <1>5 DEF CrashInv, PromisesWhatIsLeft, PromotedNoLonger
  <2> QED BY <2>1, <2>2, <2>3, <2>4 DEF CrashInv
<1>9. ASSUME ServeInv, "over" \notin Sizes PROVE ServeInv'
  <2> USE <1>0, <1>1, <1>3, <1>4, <1>5, <1>9 DEF ServeInv, Idle
  <2>1. OverlapIsMixed'
    BY DEF TiersTypeOK, OverlapIsMixed, Writing, Busy
  <2>2. WritingIsUnknown'
    BY DEF TiersTypeOK, WritingIsUnknown, OverlapIsMixed, Writing, Busy
  <2>3. PromotesLast'
    BY DEF TiersTypeOK, PromotesLast, OverlapIsMixed, Writing, Busy
  <2>4. Landed'
    <3>1. disk'[k] = c \/ op = "unwritten"
      BY DEF TiersTypeOK
    <3>2. \A j \in Keys \ {k} : disk'[j] \in {disk[j], None}
      BY DEF TiersTypeOK
    <3>3. \A u \in Threads \ {t} : ~call[u].mixed =>
             \A j \in call[u].keys : LandedAs(call[u], j, disk'[j])
      BY <3>2, LandedElsewhere DEF Writing
    <3>4. LandedAs(call'[t], k, disk'[k])
      BY <3>1 DEF LandedAs
    <3> QED BY ONLY <1>1, <1>5, <3>3, <3>4 DEF Landed
  <2>5. ServesLastWrite'
    BY DEF TiersTypeOK, WritingIsUnknown, PromotesLast, Landed, LandedAs, ServesLastWrite, Seen, Live, Writing
  <2> QED BY <2>1, <2>2, <2>3, <2>4, <2>5
<1> QED BY <1>8, <1>9

(* Memory follows, and the write is the last if nobody was in between.      *)
LEMMA SetMemoryKeepsTiers ==
  ASSUME CrashInv, NEW t \in Threads, SetMemory(t)
  PROVE  CrashInv' /\ (ServeInv /\ "over" \notin Sizes => ServeInv')
<1> USE TiersAssumption
<1> DEFINE w == call[t].with
           c == Written(t)
<1>0. TiersTypeOK /\ IsCall(call[t]) /\ call[t].op \in {"written", "unwritten"} /\ Step(t, Idle)
      /\ UNCHANGED <<now, disk, durable, sweeping, writes, cadence>>
  BY DEF CrashInv, TiersTypeOK, SetMemory
<1>1. PICK k \in Keys : call[t].keys = {k}
  BY <1>0 DEF IsCall
<1>2. w \in [ver : 1 .. MaxWrites, size : Sizes, ttl : Ttls]
  BY <1>0 DEF IsCall
<1>3. c \in Copy /\ c.ver = w.ver /\ c.origin = 0
  <2>1. now + w.ttl \in Nat /\ 0 \in Nat
    BY <1>0, <1>2 DEF TiersTypeOK
  <2> QED BY <1>2, <2>1 DEF Written, Copy
<1>4. /\ memory' = IF w.ttl # 0 /\ w.size = "fits" THEN [memory EXCEPT ![k] = c] ELSE memory
      /\ last' = [last EXCEPT ![k] =
                    IF ~call[t].mixed /\ call[t].op = "written" THEN w.ver ELSE Unknown]
  BY <1>1 DEF SetMemory
<1>c. /\ call' = [u \in Threads |-> call'[u]] /\ \A u \in Threads : IsCall(call'[u])
      /\ call'[t] = Idle /\ \A u \in Threads \ {t} : call'[u] = call[u]
  BY <1>0, CallEnds
<1>5. \A j \in Keys \ {k} : memory'[j] = memory[j] /\ last'[j] = last[j]
  BY <1>0, <1>4 DEF TiersTypeOK
<1>6. /\ last'[k] = IF ~call[t].mixed /\ call[t].op = "written" THEN w.ver ELSE Unknown
      /\ memory'[k] = IF w.ttl # 0 /\ w.size = "fits" THEN c ELSE memory[k]
  BY <1>0, <1>4 DEF TiersTypeOK
<1>7. \A u \in Threads : \A j \in call[u].keys : j \in Keys
  BY <1>0 DEF TiersTypeOK, IsCall
<1> HIDE DEF c, w
<1>8. CrashInv'
  <2>1. TiersTypeOK'
    BY <1>0, <1>2, <1>3, <1>4, <1>c DEF TiersTypeOK, cadence
  <2>2. (Counted /\ BehindByDeferred)'
    BY <1>0 DEF CrashInv, Counted, BehindByDeferred, cadence
  <2>3. PromisesWhatIsLeft'
    BY <1>0, <1>c DEF CrashInv, PromisesWhatIsLeft, Idle
  <2>4. PromotedNoLonger'
    BY <1>0, <1>3, <1>5, <1>6 DEF CrashInv, PromotedNoLonger, TiersTypeOK
  <2> QED BY <2>1, <2>2, <2>3, <2>4 DEF CrashInv
<1>9. ASSUME ServeInv, "over" \notin Sizes PROVE ServeInv'
  <2> USE <1>0, <1>1, <1>5, <1>6, <1>7, <1>c, <1>9 DEF ServeInv, Idle
  <2>1. OverlapIsMixed'
    BY DEF TiersTypeOK, OverlapIsMixed, Writing, Busy
  <2>2. WritingIsUnknown'
    BY DEF TiersTypeOK, WritingIsUnknown, OverlapIsMixed, Writing, Busy
  <2>3. PromotesLast'
    BY DEF TiersTypeOK, PromotesLast, OverlapIsMixed, Writing, Busy
  <2>4. Landed'
    BY DEF TiersTypeOK, Landed, LandedAs, OverlapIsMixed, Writing, Busy
  <2>5. ServesLastWrite'
    BY <1>2, <1>3 DEF w, TiersTypeOK, WritingIsUnknown, PromotesLast, Landed, LandedAs, ServesLastWrite, Seen, Live, Writing
  <2> QED BY <2>1, <2>2, <2>3, <2>4, <2>5
<1> QED BY <1>8, <1>9

(* remove begins.                                                           *)
LEMMA RemoveKeepsTiers ==
  ASSUME CrashInv, NEW t \in Threads, NEW k \in Keys, Remove(t, k)
  PROVE  CrashInv' /\ (ServeInv /\ "over" \notin Sizes => ServeInv')
<1> USE TiersAssumption DEF CrashInv, Remove, cadence
<1> DEFINE with == None
<1>a. /\ call' = [u \in Threads |-> call'[u]]
      /\ call'[t] \in [op : {"remove"}, keys : {{k}}, mixed : BOOLEAN, with : {with}]
      /\ \A u \in Threads \ {t} :
            /\ IsCall(call'[u]) /\ call'[u].op = call[u].op /\ call'[u].keys = call[u].keys
            /\ call'[u].with = call[u].with /\ (call[u].mixed => call'[u].mixed)
            /\ Writing(u) /\ call[u].keys \cap {k} # {} => call'[t].mixed
            /\ Busy(u) /\ call[u].keys \cap {k} # {} => call'[u].mixed
  <2>1. Begin(t, "remove", {k}, with) /\ "remove" \in Ops /\ {k} \in SUBSET Keys /\ ~Busy(t)
    BY DEF Ops
  <2>2. "remove" \in {"set", "remove", "retain"} /\ TiersTypeOK
    OBVIOUS
  <2> HIDE DEF with, CrashInv, Remove
  <2> QED BY <2>1, <2>2, Begins
<1>b. IsCall(call'[t])
  BY <1>a DEF IsCall, Ops, TiersTypeOK
<1>1. TiersTypeOK'
  <2>1. \A u \in Threads : IsCall(call'[u])
    BY <1>a, <1>b
  <2>2. last' \in [Keys -> 1 .. MaxWrites \cup {None, Unknown}] /\ writes' \in 0 .. MaxWrites
    BY DEF TiersTypeOK
  <2> QED BY <1>a, <2>1, <2>2 DEF TiersTypeOK
<1>2. Counted'
  BY DEF Counted
<1>3. BehindByDeferred'
  BY <1>a DEF TiersTypeOK, Copy, BehindByDeferred
<1>4. PromisesWhatIsLeft'
  BY <1>a DEF TiersTypeOK, IsCall, PromisesWhatIsLeft
<1>5. PromotedNoLonger'
  BY <1>a DEF TiersTypeOK, IsCall, PromisesWhatIsLeft, PromotedNoLonger
<1>6. ASSUME ServeInv, "over" \notin Sizes PROVE ServeInv'
  <2> USE <1>6 DEF ServeInv
  <2>1. OverlapIsMixed'
    BY <1>a DEF TiersTypeOK, IsCall, OverlapIsMixed, Writing, Busy
  <2>2. WritingIsUnknown'
    BY <1>a DEF TiersTypeOK, IsCall, OverlapIsMixed, WritingIsUnknown, Writing, Busy
  <2>3. PromotesLast'
    BY <1>a DEF TiersTypeOK, IsCall, PromotesLast, OverlapIsMixed, Writing, Busy
  <2>4. Landed'
    BY <1>a DEF TiersTypeOK, IsCall, Landed, LandedAs, OverlapIsMixed, Writing, Busy
  <2>5. ServesLastWrite'
    BY <1>a DEF TiersTypeOK, IsCall, WritingIsUnknown, PromotesLast, Landed, LandedAs, ServesLastWrite, Seen, Live, Writing
  <2> QED BY <2>1, <2>2, <2>3, <2>4, <2>5
<1> QED BY <1>1, <1>2, <1>3, <1>4, <1>5, <1>6

(* The removal is durable, or failed.                                       *)
LEMMA RemoveDiskKeepsTiers ==
  ASSUME CrashInv, NEW t \in Threads, RemoveDisk(t)
  PROVE  CrashInv' /\ (ServeInv /\ "over" \notin Sizes => ServeInv')
<1> USE TiersAssumption
<1>0. TiersTypeOK /\ IsCall(call[t]) /\ call[t].op = "remove"
      /\ UNCHANGED <<now, memory, sweeping, writes, last>>
  BY DEF CrashInv, TiersTypeOK, RemoveDisk
<1>1. PICK op \in {"forget", "fail"} :
        /\ Goto(t, op)
        /\ \/ op = "fail" /\ UNCHANGED <<disk, durable, cadence>>
           \/ /\ op = "forget"
              /\ disk' = [k \in Keys |-> IF k \in call[t].keys THEN None ELSE disk[k]]
              /\ durable' = disk' /\ pending' = 0 /\ lastDurable' = now /\ deferred' = {}
  BY DEF RemoveDisk, CommitDurably, NoCommit
<1>2. /\ call' = [u \in Threads |-> call'[u]] /\ \A u \in Threads : IsCall(call'[u])
      /\ call'[t].op = op /\ call'[t].keys = call[t].keys
      /\ call'[t].with = call[t].with /\ call'[t].mixed = call[t].mixed
      /\ \A u \in Threads \ {t} : call'[u] = call[u]
  BY <1>0, <1>1, CallGoesTo DEF Ops
<1>3. \A k \in Keys : disk'[k] = IF k \in call[t].keys /\ op = "forget" THEN None ELSE disk[k]
  BY <1>1
<1>8. CrashInv'
  <2>1. TiersTypeOK'
    BY <1>0, <1>1, <1>2 DEF TiersTypeOK, cadence
  <2>2. (Counted /\ BehindByDeferred)'
    <3>1. CASE UNCHANGED <<disk, durable, cadence>>
      BY <3>1 DEF CrashInv, Counted, BehindByDeferred, cadence
    <3>2. CASE durable' = disk' /\ pending' = 0 /\ deferred' = {}
      BY <3>2, DurablyBehind
    <3> QED BY <1>1, <3>1, <3>2
  <2>3. (PromisesWhatIsLeft /\ PromotedNoLonger)'
    BY <1>0, <1>1, <1>2 DEF CrashInv, PromisesWhatIsLeft, PromotedNoLonger
  <2> QED BY <2>1, <2>2, <2>3 DEF CrashInv
<1>9. ASSUME ServeInv, "over" \notin Sizes PROVE ServeInv'
  <2> USE <1>0, <1>1, <1>2, <1>3, <1>9 DEF ServeInv, Idle
  <2>1. OverlapIsMixed'
    BY DEF TiersTypeOK, OverlapIsMixed, Writing, Busy
  <2>2. WritingIsUnknown'
    BY DEF TiersTypeOK, WritingIsUnknown, OverlapIsMixed, Writing, Busy
  <2>3. PromotesLast'
    BY DEF TiersTypeOK, PromotesLast, OverlapIsMixed, Writing, Busy
  <2>4. Landed'
    <3>1. \A u \in Threads \ {t} : ~call[u].mixed =>
             \A k \in call[u].keys : LandedAs(call[u], k, disk'[k])
      BY LandedElsewhere DEF Writing
    <3>2. \A k \in call[t].keys : LandedAs(call'[t], k, disk'[k])
      BY DEF LandedAs, IsCall
    <3> QED BY ONLY <1>2, <3>1, <3>2 DEF Landed
  <2>5. ServesLastWrite'
    BY DEF TiersTypeOK, WritingIsUnknown, PromotesLast, Landed, LandedAs, ServesLastWrite, Seen, Live, Writing
  <2> QED BY <2>1, <2>2, <2>3, <2>4, <2>5
<1> QED BY <1>8, <1>9

(* Memory is visited whatever disk answered.                                *)
LEMMA RemoveMemoryKeepsTiers ==
  ASSUME CrashInv, NEW t \in Threads, RemoveMemory(t)
  PROVE  CrashInv' /\ (ServeInv /\ "over" \notin Sizes => ServeInv')
<1> USE TiersAssumption DEF CrashInv, RemoveMemory, Step, Idle, cadence
<1>1. TiersTypeOK'
  BY DEF TiersTypeOK, IsCall, Ops, Copy
<1>2. Counted'
  BY NoneDeferred DEF TiersTypeOK, Counted
<1>3. BehindByDeferred'
  BY DEF TiersTypeOK, Copy, BehindByDeferred
<1>4. PromisesWhatIsLeft'
  BY DEF TiersTypeOK, IsCall, PromisesWhatIsLeft
<1>5. PromotedNoLonger'
  BY DEF TiersTypeOK, IsCall, PromisesWhatIsLeft, PromotedNoLonger
<1>6. ASSUME ServeInv, "over" \notin Sizes PROVE ServeInv'
  <2> USE <1>6 DEF ServeInv
  <2>1. OverlapIsMixed'
    BY DEF TiersTypeOK, IsCall, OverlapIsMixed, Writing, Busy
  <2>2. WritingIsUnknown'
    BY DEF TiersTypeOK, IsCall, OverlapIsMixed, WritingIsUnknown, Writing, Busy
  <2>3. PromotesLast'
    BY DEF TiersTypeOK, IsCall, PromotesLast, OverlapIsMixed, Writing, Busy
  <2>4. Landed'
    BY DEF TiersTypeOK, IsCall, Landed, LandedAs, OverlapIsMixed, Writing, Busy
  <2>5. ServesLastWrite'
    BY DEF TiersTypeOK, IsCall, WritingIsUnknown, PromotesLast, Landed, LandedAs, ServesLastWrite, Seen, Live, Writing
  <2> QED BY <2>1, <2>2, <2>3, <2>4, <2>5
<1> QED BY <1>1, <1>2, <1>3, <1>4, <1>5, <1>6

(* retain begins.                                                           *)
LEMMA RetainKeepsTiers ==
  ASSUME CrashInv, NEW t \in Threads, NEW refused \in SUBSET Keys, Retain(t, refused)
  PROVE  CrashInv' /\ (ServeInv /\ "over" \notin Sizes => ServeInv')
<1> USE TiersAssumption DEF CrashInv, Retain, cadence
<1> DEFINE with == None
<1>a. /\ call' = [u \in Threads |-> call'[u]]
      /\ call'[t] \in [op : {"retain"}, keys : {refused}, mixed : BOOLEAN, with : {with}]
      /\ \A u \in Threads \ {t} :
            /\ IsCall(call'[u]) /\ call'[u].op = call[u].op /\ call'[u].keys = call[u].keys
            /\ call'[u].with = call[u].with /\ (call[u].mixed => call'[u].mixed)
            /\ Writing(u) /\ call[u].keys \cap refused # {} => call'[t].mixed
            /\ Busy(u) /\ call[u].keys \cap refused # {} => call'[u].mixed
  <2>1. Begin(t, "retain", refused, with) /\ "retain" \in Ops /\ refused \in SUBSET Keys /\ ~Busy(t)
    BY DEF Ops
  <2>2. "retain" \in {"set", "remove", "retain"}
    OBVIOUS
  <2> HIDE DEF with, CrashInv
  <2>3. TiersTypeOK
    BY DEF CrashInv
  <2> QED BY ONLY <2>1, <2>2, <2>3, Begins
<1>b. IsCall(call'[t])
  BY <1>a DEF IsCall, Ops, TiersTypeOK
<1>1. TiersTypeOK'
  <2>1. \A u \in Threads : IsCall(call'[u])
    BY <1>a, <1>b
  <2>2. last' \in [Keys -> 1 .. MaxWrites \cup {None, Unknown}] /\ writes' \in 0 .. MaxWrites
    BY DEF TiersTypeOK
  <2> QED BY <1>a, <2>1, <2>2 DEF TiersTypeOK
<1>2. Counted'
  BY DEF Counted
<1>3. BehindByDeferred'
  BY <1>a DEF TiersTypeOK, Copy, BehindByDeferred
<1>4. PromisesWhatIsLeft'
  BY <1>a DEF TiersTypeOK, IsCall, PromisesWhatIsLeft
<1>5. PromotedNoLonger'
  BY <1>a DEF TiersTypeOK, IsCall, PromisesWhatIsLeft, PromotedNoLonger
<1>6. ASSUME ServeInv, "over" \notin Sizes PROVE ServeInv'
  <2> USE <1>6 DEF ServeInv
  <2>1. OverlapIsMixed'
    BY <1>a DEF TiersTypeOK, IsCall, OverlapIsMixed, Writing, Busy
  <2>2. WritingIsUnknown'
    BY <1>a DEF TiersTypeOK, IsCall, OverlapIsMixed, WritingIsUnknown, Writing, Busy
  <2>3. PromotesLast'
    BY <1>a DEF TiersTypeOK, IsCall, PromotesLast, OverlapIsMixed, Writing, Busy
  <2>4. Landed'
    BY <1>a DEF TiersTypeOK, IsCall, Landed, LandedAs, OverlapIsMixed, Writing, Busy
  <2>5. ServesLastWrite'
    BY <1>a DEF TiersTypeOK, IsCall, WritingIsUnknown, PromotesLast, Landed, LandedAs, ServesLastWrite, Seen, Live, Writing
  <2> QED BY <2>1, <2>2, <2>3, <2>4, <2>5
<1> QED BY <1>1, <1>2, <1>3, <1>4, <1>5, <1>6

(* What retain drops from disk is dropped durably.                          *)
LEMMA RetainDiskKeepsTiers ==
  ASSUME CrashInv, NEW t \in Threads, RetainDisk(t)
  PROVE  CrashInv' /\ (ServeInv /\ "over" \notin Sizes => ServeInv')
<1> USE TiersAssumption
<1> DEFINE kept == {k \in Keys : Live(disk[k]) /\ k \notin call[t].keys}
<1>0. TiersTypeOK /\ IsCall(call[t]) /\ call[t].op = "retain"
      /\ UNCHANGED <<now, memory, sweeping, writes, last>>
  BY DEF CrashInv, TiersTypeOK, RetainDisk
<1>1. \/ /\ \/ UNCHANGED <<disk, durable, cadence>> /\ \A k \in Keys \ kept : disk[k] = None
            \/ /\ disk' = [k \in Keys |-> IF k \in kept THEN disk[k] ELSE None]
               /\ durable' = disk' /\ pending' = 0 /\ lastDurable' = now /\ deferred' = {}
         /\ Step(t, Onward(call[t], "keep", [kept |-> kept]))
      \/ UNCHANGED <<disk, durable, cadence>> /\ Step(t, Idle)
  BY DEF RetainDisk, CommitDurably, NoCommit, Onward
<1>2. /\ call' = [u \in Threads |-> call'[u]] /\ \A u \in Threads : IsCall(call'[u])
      /\ \A u \in Threads \ {t} : call'[u] = call[u]
      /\ \/ call'[t] = Idle
         \/ /\ call'[t].op = "keep" /\ call'[t].keys = call[t].keys /\ call'[t].with.kept = kept
            /\ call'[t].mixed = call[t].mixed /\ \A k \in Keys \ kept : disk'[k] = None
  <2>1. CASE Step(t, Idle)
    BY <1>0, <2>1, CallEnds
  <2>2. CASE Step(t, Onward(call[t], "keep", [kept |-> kept])) /\ ~Step(t, Idle)
    <3> DEFINE d == Onward(call[t], "keep", [kept |-> kept])
    <3>1. \A k \in Keys \ kept : disk'[k] = None
      BY <1>1, <2>2
    <3> HIDE DEF kept
    <3>2. /\ IsCall(d) /\ d.op = "keep" /\ d.keys = call[t].keys /\ d.with.kept = kept
          /\ d.mixed = call[t].mixed
      <4>1. d.with = [kept |-> kept]
        BY <1>0, CallGoesOn DEF Ops
      <4> QED BY <1>0, <4>1, CallGoesOn DEF Ops
    <3>3. call' = [call EXCEPT ![t] = d]
      BY <2>2 DEF Step
    <3> HIDE DEF d
    <3> QED BY <1>0, <3>1, <3>2, <3>3, OneCallMoves
  <2> QED BY <1>1, <2>1, <2>2
<1>3. \A k \in Keys : disk'[k] \in {disk[k], None}
  BY <1>1
<1>4. \A k \in call[t].keys : k \notin kept /\ k \in Keys
  BY <1>0 DEF IsCall
<1> HIDE DEF kept
<1>8. CrashInv'
  <2>1. TiersTypeOK'
    BY <1>0, <1>1, <1>2 DEF TiersTypeOK, cadence
  <2>2. (Counted /\ BehindByDeferred)'
    <3>1. CASE UNCHANGED <<disk, durable, cadence>>
      BY <3>1 DEF CrashInv, Counted, BehindByDeferred, cadence
    <3>2. CASE durable' = disk' /\ pending' = 0 /\ deferred' = {}
      BY <3>2, DurablyBehind
    <3> QED BY <1>1, <3>1, <3>2
  <2>3. (PromisesWhatIsLeft /\ PromotedNoLonger)'
    BY <1>0, <1>2 DEF CrashInv, PromisesWhatIsLeft, PromotedNoLonger, Idle
  <2> QED BY <2>1, <2>2, <2>3 DEF CrashInv
<1>9. ASSUME ServeInv, "over" \notin Sizes PROVE ServeInv'
  <2> USE <1>0, <1>2, <1>3, <1>4, <1>9 DEF ServeInv, Idle
  <2>1. OverlapIsMixed'
    BY DEF TiersTypeOK, OverlapIsMixed, Writing, Busy
  <2>2. WritingIsUnknown'
    BY DEF TiersTypeOK, WritingIsUnknown, OverlapIsMixed, Writing, Busy
  <2>3. PromotesLast'
    BY DEF TiersTypeOK, PromotesLast, OverlapIsMixed, Writing, Busy
  <2>4. Landed'
    <3>1. \A u \in Threads \ {t} : ~call[u].mixed =>
             \A k \in call[u].keys : LandedAs(call[u], k, disk'[k])
      BY LandedElsewhere DEF Writing
    <3>2. \A k \in call'[t].keys : LandedAs(call'[t], k, disk'[k])
      BY DEF LandedAs
    <3> QED BY ONLY <1>2, <3>1, <3>2 DEF Landed
  <2>5. ServesLastWrite'
    BY DEF TiersTypeOK, WritingIsUnknown, PromotesLast, Landed, LandedAs, ServesLastWrite, Seen, Live, Writing
  <2> QED BY <2>1, <2>2, <2>3, <2>4, <2>5
<1> QED BY <1>8, <1>9

(* Memory keeps what disk kept.                                             *)
LEMMA RetainMemoryKeepsTiers ==
  ASSUME CrashInv, NEW t \in Threads, RetainMemory(t)
  PROVE  CrashInv' /\ (ServeInv /\ "over" \notin Sizes => ServeInv')
<1> USE TiersAssumption DEF CrashInv, RetainMemory, Step, Idle, cadence
<1>1. TiersTypeOK'
  BY DEF TiersTypeOK, IsCall, Ops, Copy
<1>2. Counted'
  BY NoneDeferred DEF TiersTypeOK, Counted
<1>3. BehindByDeferred'
  BY DEF TiersTypeOK, Copy, BehindByDeferred
<1>4. PromisesWhatIsLeft'
  BY DEF TiersTypeOK, IsCall, PromisesWhatIsLeft
<1>5. PromotedNoLonger'
  BY DEF TiersTypeOK, IsCall, PromisesWhatIsLeft, PromotedNoLonger
<1>6. ASSUME ServeInv, "over" \notin Sizes PROVE ServeInv'
  <2> USE <1>6 DEF ServeInv
  <2>1. OverlapIsMixed'
    BY DEF TiersTypeOK, IsCall, OverlapIsMixed, Writing, Busy
  <2>2. WritingIsUnknown'
    BY DEF TiersTypeOK, IsCall, OverlapIsMixed, WritingIsUnknown, Writing, Busy
  <2>3. PromotesLast'
    BY DEF TiersTypeOK, IsCall, PromotesLast, OverlapIsMixed, Writing, Busy
  <2>4. Landed'
    BY DEF TiersTypeOK, IsCall, Landed, LandedAs, OverlapIsMixed, Writing, Busy
  <2>5. ServesLastWrite'
    BY DEF TiersTypeOK, IsCall, WritingIsUnknown, PromotesLast, Landed, LandedAs, ServesLastWrite, Seen, Live, Writing
  <2> QED BY <2>1, <2>2, <2>3, <2>4, <2>5
<1> QED BY <1>1, <1>2, <1>3, <1>4, <1>5, <1>6

(* flush leaves nothing deferred.                                           *)
LEMMA FlushKeepsTiers ==
  ASSUME CrashInv, Flush
  PROVE  CrashInv' /\ (ServeInv /\ "over" \notin Sizes => ServeInv')
<1> USE TiersAssumption DEF CrashInv, Flush, CommitDurably, cadence
<1>1. TiersTypeOK'
  BY DEF TiersTypeOK, IsCall, Ops, Copy
<1>2. Counted'
  BY NoneDeferred DEF TiersTypeOK, Counted
<1>3. BehindByDeferred'
  BY DEF TiersTypeOK, Copy, BehindByDeferred
<1>4. PromisesWhatIsLeft'
  BY DEF TiersTypeOK, IsCall, PromisesWhatIsLeft
<1>5. PromotedNoLonger'
  BY DEF TiersTypeOK, IsCall, PromisesWhatIsLeft, PromotedNoLonger
<1>6. ASSUME ServeInv, "over" \notin Sizes PROVE ServeInv'
  <2> USE <1>6 DEF ServeInv
  <2>1. OverlapIsMixed'
    BY DEF TiersTypeOK, IsCall, OverlapIsMixed, Writing, Busy
  <2>2. WritingIsUnknown'
    BY DEF TiersTypeOK, IsCall, OverlapIsMixed, WritingIsUnknown, Writing, Busy
  <2>3. PromotesLast'
    BY DEF TiersTypeOK, IsCall, PromotesLast, OverlapIsMixed, Writing, Busy
  <2>4. Landed'
    BY DEF TiersTypeOK, IsCall, Landed, LandedAs, OverlapIsMixed, Writing, Busy
  <2>5. ServesLastWrite'
    BY DEF TiersTypeOK, IsCall, WritingIsUnknown, PromotesLast, Landed, LandedAs, ServesLastWrite, Seen, Live, Writing
  <2> QED BY <2>1, <2>2, <2>3, <2>4, <2>5
<1> QED BY <1>1, <1>2, <1>3, <1>4, <1>5, <1>6

(* A sweep writes no key of its own.                                        *)
LEMMA CleanupKeepsTiers ==
  ASSUME CrashInv, NEW t \in Threads, Cleanup(t)
  PROVE  CrashInv' /\ (ServeInv /\ "over" \notin Sizes => ServeInv')
<1> USE TiersAssumption DEF CrashInv, Cleanup, Begin, Busy, Writing, Idle, cadence
<1>1. TiersTypeOK'
  BY DEF TiersTypeOK, IsCall, Ops, Copy
<1>2. Counted'
  BY NoneDeferred DEF TiersTypeOK, Counted
<1>3. BehindByDeferred'
  BY DEF TiersTypeOK, Copy, BehindByDeferred
<1>4. PromisesWhatIsLeft'
  BY DEF TiersTypeOK, IsCall, PromisesWhatIsLeft
<1>5. PromotedNoLonger'
  BY DEF TiersTypeOK, IsCall, PromisesWhatIsLeft, PromotedNoLonger
<1>6. ASSUME ServeInv, "over" \notin Sizes PROVE ServeInv'
  <2> USE <1>6 DEF ServeInv
  <2>1. OverlapIsMixed'
    BY DEF TiersTypeOK, IsCall, OverlapIsMixed, Writing, Busy
  <2>2. WritingIsUnknown'
    BY DEF TiersTypeOK, IsCall, OverlapIsMixed, WritingIsUnknown, Writing, Busy
  <2>3. PromotesLast'
    BY DEF TiersTypeOK, IsCall, PromotesLast, OverlapIsMixed, Writing, Busy
  <2>4. Landed'
    BY DEF TiersTypeOK, IsCall, Landed, LandedAs, OverlapIsMixed, Writing, Busy
  <2>5. ServesLastWrite'
    BY DEF TiersTypeOK, IsCall, WritingIsUnknown, PromotesLast, Landed, LandedAs, ServesLastWrite, Seen, Live, Writing
  <2> QED BY <2>1, <2>2, <2>3, <2>4, <2>5
<1> QED BY <1>1, <1>2, <1>3, <1>4, <1>5, <1>6

(* A sweep takes expired records only, durably, and tells the cadence nothing. *)
LEMMA SweepKeepsTiers ==
  ASSUME CrashInv, NEW t \in Threads, Sweep(t)
  PROVE  CrashInv' /\ (ServeInv /\ "over" \notin Sizes => ServeInv')
<1> USE TiersAssumption
<1>0. TiersTypeOK /\ IsCall(call[t]) /\ call[t].op = "sweep" /\ sweeping' \in BOOLEAN
      /\ UNCHANGED <<now, memory, writes, pending, lastDurable, last>>
  BY DEF CrashInv, TiersTypeOK, Sweep
<1>1. /\ \/ UNCHANGED <<disk, durable, deferred>>
         \/ /\ disk' = [k \in Keys |-> IF Live(disk[k]) THEN disk[k] ELSE None]
            /\ durable' = disk' /\ deferred' = {}
      /\ Step(t, Idle) \/ Goto(t, "compact")
  BY DEF Sweep
<1>2. /\ call' = [u \in Threads |-> call'[u]] /\ \A u \in Threads : IsCall(call'[u])
      /\ \A u \in Threads \ {t} : call'[u] = call[u]
      /\ \/ call'[t] = Idle
         \/ /\ call'[t].op = "compact" /\ call'[t].keys = call[t].keys
            /\ call'[t].mixed = call[t].mixed
  BY <1>0, <1>1, CallEnds, CallGoesTo DEF Ops
<1>3. \A k \in Keys : disk'[k] \in {disk[k], None}
  BY <1>1
<1>8. CrashInv'
  <2>1. TiersTypeOK'
    BY <1>0, <1>1, <1>2 DEF TiersTypeOK
  <2>2. (Counted /\ BehindByDeferred)'
    <3>1. CASE UNCHANGED <<disk, durable, deferred>>
      BY <1>0, <3>1 DEF CrashInv, Counted, BehindByDeferred
    <3>2. CASE durable' = disk' /\ deferred' = {}
      BY <1>0, <3>2, DurablyBehind DEF CrashInv, Counted, TiersTypeOK
    <3> QED BY <1>1, <3>1, <3>2
  <2>3. (PromisesWhatIsLeft /\ PromotedNoLonger)'
    BY <1>0, <1>2 DEF CrashInv, PromisesWhatIsLeft, PromotedNoLonger, Idle
  <2> QED BY <2>1, <2>2, <2>3 DEF CrashInv
<1>9. ASSUME ServeInv, "over" \notin Sizes PROVE ServeInv'
  <2> USE <1>0, <1>2, <1>3, <1>9 DEF ServeInv, Idle
  <2>1. OverlapIsMixed'
    BY DEF TiersTypeOK, OverlapIsMixed, Writing, Busy
  <2>2. WritingIsUnknown'
    BY DEF TiersTypeOK, WritingIsUnknown, OverlapIsMixed, Writing, Busy
  <2>3. PromotesLast'
    BY DEF TiersTypeOK, PromotesLast, OverlapIsMixed, Writing, Busy
  <2>4. Landed'
    BY DEF TiersTypeOK, IsCall, Landed, LandedAs
  <2>5. ServesLastWrite'
    BY DEF TiersTypeOK, WritingIsUnknown, PromotesLast, Landed, LandedAs, ServesLastWrite, Seen, Live, Writing
  <2> QED BY <2>1, <2>2, <2>3, <2>4, <2>5
<1> QED BY <1>8, <1>9

(* Compaction changes no record.                                            *)
LEMMA CompactKeepsTiers ==
  ASSUME CrashInv, NEW t \in Threads, Compact(t)
  PROVE  CrashInv' /\ (ServeInv /\ "over" \notin Sizes => ServeInv')
<1> USE TiersAssumption DEF CrashInv, Compact, Step, Idle, cadence
<1>1. TiersTypeOK'
  BY DEF TiersTypeOK, IsCall, Ops, Copy
<1>2. Counted'
  BY NoneDeferred DEF TiersTypeOK, Counted
<1>3. BehindByDeferred'
  BY DEF TiersTypeOK, Copy, BehindByDeferred
<1>4. PromisesWhatIsLeft'
  BY DEF TiersTypeOK, IsCall, PromisesWhatIsLeft
<1>5. PromotedNoLonger'
  BY DEF TiersTypeOK, IsCall, PromisesWhatIsLeft, PromotedNoLonger
<1>6. ASSUME ServeInv, "over" \notin Sizes PROVE ServeInv'
  <2> USE <1>6 DEF ServeInv
  <2>1. OverlapIsMixed'
    BY DEF TiersTypeOK, IsCall, OverlapIsMixed, Writing, Busy
  <2>2. WritingIsUnknown'
    BY DEF TiersTypeOK, IsCall, OverlapIsMixed, WritingIsUnknown, Writing, Busy
  <2>3. PromotesLast'
    BY DEF TiersTypeOK, IsCall, PromotesLast, OverlapIsMixed, Writing, Busy
  <2>4. Landed'
    BY DEF TiersTypeOK, IsCall, Landed, LandedAs, OverlapIsMixed, Writing, Busy
  <2>5. ServesLastWrite'
    BY DEF TiersTypeOK, IsCall, WritingIsUnknown, PromotesLast, Landed, LandedAs, ServesLastWrite, Seen, Live, Writing
  <2> QED BY <2>1, <2>2, <2>3, <2>4, <2>5
<1> QED BY <1>1, <1>2, <1>3, <1>4, <1>5, <1>6

(* moka may evict anything.                                                 *)
LEMMA EvictKeepsTiers ==
  ASSUME CrashInv, NEW k \in Keys, Evict(k)
  PROVE  CrashInv' /\ (ServeInv /\ "over" \notin Sizes => ServeInv')
<1> USE TiersAssumption DEF CrashInv, Evict, cadence
<1>1. TiersTypeOK'
  BY DEF TiersTypeOK, IsCall, Ops, Copy
<1>2. Counted'
  BY NoneDeferred DEF TiersTypeOK, Counted
<1>3. BehindByDeferred'
  BY DEF TiersTypeOK, Copy, BehindByDeferred
<1>4. PromisesWhatIsLeft'
  BY DEF TiersTypeOK, IsCall, PromisesWhatIsLeft
<1>5. PromotedNoLonger'
  BY DEF TiersTypeOK, IsCall, PromisesWhatIsLeft, PromotedNoLonger
<1>6. ASSUME ServeInv, "over" \notin Sizes PROVE ServeInv'
  <2> USE <1>6 DEF ServeInv
  <2>1. OverlapIsMixed'
    BY DEF TiersTypeOK, IsCall, OverlapIsMixed, Writing, Busy
  <2>2. WritingIsUnknown'
    BY DEF TiersTypeOK, IsCall, OverlapIsMixed, WritingIsUnknown, Writing, Busy
  <2>3. PromotesLast'
    BY DEF TiersTypeOK, IsCall, PromotesLast, OverlapIsMixed, Writing, Busy
  <2>4. Landed'
    BY DEF TiersTypeOK, IsCall, Landed, LandedAs, OverlapIsMixed, Writing, Busy
  <2>5. ServesLastWrite'
    BY DEF TiersTypeOK, IsCall, WritingIsUnknown, PromotesLast, Landed, LandedAs, ServesLastWrite, Seen, Live, Writing
  <2> QED BY <2>1, <2>2, <2>3, <2>4, <2>5
<1> QED BY <1>1, <1>2, <1>3, <1>4, <1>5, <1>6

(* Time only ends what is live.                                             *)
LEMMA TickKeepsTiers ==
  ASSUME CrashInv, Tick
  PROVE  CrashInv' /\ (ServeInv /\ "over" \notin Sizes => ServeInv')
<1> USE TiersAssumption DEF CrashInv, Tick, cadence
<1>1. TiersTypeOK'
  BY DEF TiersTypeOK, IsCall, Ops, Copy
<1>2. Counted'
  BY NoneDeferred DEF TiersTypeOK, Counted
<1>3. BehindByDeferred'
  BY DEF TiersTypeOK, Copy, BehindByDeferred
<1>4. PromisesWhatIsLeft'
  BY DEF TiersTypeOK, IsCall, PromisesWhatIsLeft
<1>5. PromotedNoLonger'
  BY DEF TiersTypeOK, IsCall, PromisesWhatIsLeft, PromotedNoLonger
<1>6. ASSUME ServeInv, "over" \notin Sizes PROVE ServeInv'
  <2> USE <1>6 DEF ServeInv
  <2>1. OverlapIsMixed'
    BY DEF TiersTypeOK, IsCall, OverlapIsMixed, Writing, Busy
  <2>2. WritingIsUnknown'
    BY DEF TiersTypeOK, IsCall, OverlapIsMixed, WritingIsUnknown, Writing, Busy
  <2>3. PromotesLast'
    BY DEF TiersTypeOK, IsCall, PromotesLast, OverlapIsMixed, Writing, Busy
  <2>4. Landed'
    BY DEF TiersTypeOK, IsCall, Landed, LandedAs, OverlapIsMixed, Writing, Busy
  <2>5. ServesLastWrite'
    <3>1. \A e \in Copy \cup {None} : e # None => e.until \in Nat
      BY DEF Copy
    <3>2. \A k \in Keys : Seen(memory, k)' \in {None, Seen(memory, k)}
                          /\ Seen(disk, k)' \in {None, Seen(disk, k)}
      BY <3>1 DEF TiersTypeOK, Seen, Live
    <3> QED BY <3>2 DEF ServesLastWrite
  <2> QED BY <2>1, <2>2, <2>3, <2>4, <2>5
<1> QED BY <1>1, <1>2, <1>3, <1>4, <1>5, <1>6

(* The store comes back with one table or the other.                        *)
LEMMA ReopenKeepsTiers ==
  ASSUME CrashInv, NEW table, table = disk \/ table = durable, Reopen(table)
  PROVE  CrashInv' /\ (ServeInv => ServeInv')
<1> USE TiersAssumption
<1>0. TiersTypeOK /\ now' = now /\ writes' = writes
      /\ memory' = [k \in Keys |-> None] /\ disk' = table /\ durable' = table
      /\ pending' = 0 /\ lastDurable' = now /\ deferred' = {} /\ sweeping' = FALSE
      /\ call' = [t \in Threads |-> Idle]
      /\ last' = [k \in Keys |-> IF table[k] = disk[k] THEN last[k] ELSE Unknown]
  BY DEF CrashInv, Reopen
<1>1. call' = [t \in Threads |-> call'[t]] /\ \A t \in Threads : IsCall(call'[t])
  BY <1>0 DEF IsCall, Ops, Idle
<1>2. TiersTypeOK'
  BY <1>0, <1>1 DEF TiersTypeOK
<1>3. (Counted /\ BehindByDeferred)'
  BY <1>0, DurablyBehind
<1>4. (PromisesWhatIsLeft /\ PromotedNoLonger)'
  BY <1>0 DEF PromisesWhatIsLeft, PromotedNoLonger, Idle
<1>5. ASSUME ServeInv PROVE ServeInv'
  <2>1. (OverlapIsMixed /\ WritingIsUnknown /\ PromotesLast /\ Landed)'
    BY <1>0 DEF OverlapIsMixed, WritingIsUnknown, PromotesLast, Landed, LandedAs, Writing, Busy, Idle
  <2>2. ServesLastWrite'
    BY <1>0, <1>5 DEF ServeInv, ServesLastWrite, Seen, Live
  <2> QED BY <2>1, <2>2 DEF ServeInv
<1> QED BY <1>2, <1>3, <1>4, <1>5 DEF CrashInv

(* The store is empty, nobody is in a call.                                 *)
LEMMA TiersInit ==
  ASSUME Init
  PROVE  CrashInv /\ ServeInv
<1> USE TiersAssumption DEF Init
<1>1. call = [t \in Threads |-> call[t]] /\ \A t \in Threads : IsCall(call[t])
  BY DEF IsCall, Ops, Idle
<1>2. TiersTypeOK
  <2>1. 0 \in 0 .. MaxWrites /\ {} \in SUBSET (1 .. MaxWrites)
    OBVIOUS
  <2>2. /\ memory \in [Keys -> Copy \cup {None}] /\ disk \in [Keys -> Copy \cup {None}]
        /\ durable \in [Keys -> Copy \cup {None}]
        /\ last \in [Keys -> 1 .. MaxWrites \cup {None, Unknown}]
    OBVIOUS
  <2>3. now = 0 /\ writes = 0 /\ pending = 0 /\ lastDurable = 0 /\ sweeping = FALSE /\ deferred = {}
    OBVIOUS
  <2> QED BY ONLY <1>1, <2>1, <2>2, <2>3 DEF TiersTypeOK
<1>3. Counted /\ BehindByDeferred
  BY NoneDeferred DEF Counted, BehindByDeferred
<1>4. PromisesWhatIsLeft /\ PromotedNoLonger
  BY DEF PromisesWhatIsLeft, PromotedNoLonger, Idle
<1>5. OverlapIsMixed /\ WritingIsUnknown /\ PromotesLast /\ Landed
  BY DEF OverlapIsMixed, WritingIsUnknown, PromotesLast, Landed, LandedAs, Writing, Busy, Idle
<1>6. ServesLastWrite
  BY DEF ServesLastWrite, Seen, Live
<1> QED BY <1>2, <1>3, <1>4, <1>5, <1>6 DEF CrashInv, ServeInv

(* Every step keeps the one, and the other unless values are over budget.   *)
LEMMA TiersNext ==
  ASSUME CrashInv, [Next]_vars
  PROVE  CrashInv' /\ (ServeInv /\ "over" \notin Sizes => ServeInv')
<1>1. CASE UNCHANGED vars
  <2> USE <1>1 DEF vars, cadence
  <2>1. CrashInv'
    BY DEF CrashInv, TiersTypeOK, Counted, BehindByDeferred, PromisesWhatIsLeft, PromotedNoLonger,
           IsCall
  <2>2. ServeInv => ServeInv'
    BY DEF ServeInv, OverlapIsMixed, WritingIsUnknown, PromotesLast, Landed, LandedAs,
           ServesLastWrite, Seen, Live, Writing, Busy
  <2> QED BY <2>1, <2>2
<1>2. ASSUME NEW t \in Threads, NEW k \in Keys, Get(t, k) \/ Remove(t, k)
      PROVE  CrashInv' /\ (ServeInv /\ "over" \notin Sizes => ServeInv')
  BY <1>2, GetKeepsTiers, RemoveKeepsTiers
<1>3. ASSUME NEW t \in Threads, NEW k \in Keys, NEW s \in Sizes, NEW ttl \in Ttls,
             Set(t, k, s, ttl)
      PROVE  CrashInv' /\ (ServeInv /\ "over" \notin Sizes => ServeInv')
  BY <1>3, SetKeepsTiers
<1>4. ASSUME NEW t \in Threads, NEW refused \in SUBSET Keys, Retain(t, refused)
      PROVE  CrashInv' /\ (ServeInv /\ "over" \notin Sizes => ServeInv')
  BY <1>4, RetainKeepsTiers
<1>5. ASSUME NEW t \in Threads,
             \/ GetDisk(t) \/ Promote(t) \/ SetDisk(t) \/ SetMemory(t)
             \/ RemoveDisk(t) \/ RemoveMemory(t) \/ RetainDisk(t) \/ RetainMemory(t)
             \/ Cleanup(t) \/ Sweep(t) \/ Compact(t)
      PROVE  CrashInv' /\ (ServeInv /\ "over" \notin Sizes => ServeInv')
  BY <1>5, GetDiskKeepsTiers, PromoteKeepsTiers, SetDiskKeepsTiers, SetMemoryKeepsTiers,
     RemoveDiskKeepsTiers, RemoveMemoryKeepsTiers, RetainDiskKeepsTiers, RetainMemoryKeepsTiers,
     CleanupKeepsTiers, SweepKeepsTiers, CompactKeepsTiers
<1>6. ASSUME Flush \/ (\E k \in Keys : Evict(k)) \/ Tick \/ Crash \/ Close
      PROVE  CrashInv' /\ (ServeInv /\ "over" \notin Sizes => ServeInv')
  BY <1>6, FlushKeepsTiers, EvictKeepsTiers, TickKeepsTiers, ReopenKeepsTiers DEF Crash, Close
<1> QED BY <1>1, <1>2, <1>3, <1>4, <1>5, <1>6 DEF Next

(* In every reachable state the types are right, the cadence counts what a  *)
(* crash would lose, and a promotion is for the time its record has left.   *)
THEOREM TiersInvariant == Spec => []CrashInv
<1>1. Init => CrashInv
  BY TiersInit
<1>2. CrashInv /\ [Next]_vars => CrashInv'
  BY TiersNext
<1> QED BY <1>1, <1>2, PTL DEF Spec

(* A crash loses at most flush_every - 1 writes, and brings nothing back    *)
(* that was removed (the cadence, remove and retain of the disk store).     *)
THEOREM CrashLosesDeferred == Spec => []CrashLosesOnlyDeferred
<1>1. CrashInv => CrashLosesOnlyDeferred
  <2> SUFFICES ASSUME CrashInv PROVE CrashLosesOnlyDeferred
    OBVIOUS
  <2>1. Cardinality(deferred) < FlushEvery
    <3>1. Cardinality(deferred) \in Nat
      BY OneMoreDeferred DEF CrashInv, TiersTypeOK
    <3> QED BY <3>1, TiersAssumption DEF CrashInv, Counted, TiersTypeOK
  <2> QED BY <2>1 DEF CrashInv, BehindByDeferred, CrashLosesOnlyDeferred
<1> QED BY <1>1, TiersInvariant, PTL

(* A promoted copy never outlives the record it was read from (the second   *)
(* half of CompositeStore::get).                                            *)
THEOREM PromotionIsNoLonger == Spec => []PromotedNoLonger
<1>1. CrashInv => PromotedNoLonger
  BY DEF CrashInv
<1> QED BY <1>1, TiersInvariant, PTL

(* If no value is over max_capacity, a key that nobody else is using serves *)
(* its last write or nothing, from either tier, through crashes and sweeps. *)
THEOREM ServesTheLastWrite ==
  ASSUME "over" \notin Sizes
  PROVE  Spec => []ServesLastWrite
<1>1. Init => CrashInv /\ ServeInv
  BY TiersInit
<1>2. CrashInv /\ ServeInv /\ [Next]_vars => (CrashInv /\ ServeInv)'
  BY TiersNext
<1>3. ServeInv => ServesLastWrite
  BY DEF ServeInv
<1> QED BY <1>1, <1>2, <1>3, PTL DEF Spec

-----------------------------------------------------------------------------
(* The registry of open databases. *)

Opened == {"live", "dying", "evicted"}

(* Every variable keeps its type. *)
RegistryTypeOK ==
    /\ at \in [Openers -> {"out", "create", "sleep", "register", "in"}]
    /\ attempt \in [Openers -> 0..MaxAttempts]
    /\ handle \in [Openers -> 0..MaxStores]
    /\ phase \in [Stores -> {"unused", "closed"} \cup Opened]
    /\ sweeper \in [Stores -> {"none", "pending", "running"}]
    /\ registered \in 0..MaxStores
    /\ locked \in 0..MaxStores
    /\ file \in {Nobody, Elsewhere} \cup Openers \cup Stores

(* A sleeping opener has an attempt left. *)
AttemptLeft == \A t \in Openers : at[t] = "sleep" => attempt[t] < MaxAttempts

(* A thread holds a store exactly while it is in. *)
HoldsWhileIn == \A t \in Openers : handle[t] # 0 <=> at[t] = "in"

(* redb's lock: the file belongs to the thread that opened it until it is  *)
(* registered, and to the store until its teardown closed it.              *)
OpenerHasFile == \A t \in Openers : at[t] = "register" => file = t
StoreHasFile == \A g \in Stores : phase[g] \in Opened => file = g

(* A store is live exactly as long as somebody holds it, and then OPEN     *)
(* names it.                                                               *)
LiveIsHeld == \A g \in Stores : phase[g] = "live" <=> Strong(g)
LiveIsNamed == \A g \in Stores : phase[g] = "live" => registered = g

(* OPEN is held across the closing of a file, and by nothing else. *)
LockIsTeardown == \A g \in Stores : locked = g <=> phase[g] = "evicted"

RegistryInv ==
    /\ RegistryTypeOK /\ AttemptLeft /\ HoldsWhileIn
    /\ OpenerHasFile /\ StoreHasFile
    /\ LiveIsHeld /\ LiveIsNamed /\ LockIsTeardown

USE RegistryAssumption DEF RegistryInv, Opened, Stores, Strong, At

-----------------------------------------------------------------------------
(* Initial states, and one lemma per action. *)

(* The invariant holds before the first open. *)
LEMMA RegistryInitInv == RegistryInit => RegistryInv
  BY DEF RegistryInit, RegistryTypeOK, AttemptLeft, HoldsWhileIn, OpenerHasFile,
         StoreHasFile, LiveIsHeld, LiveIsNamed, LockIsTeardown

(* registered(): only a store that nobody holds loses its entry. *)
LEMMA LookupStep ==
  ASSUME RegistryInv, NEW t \in Openers, Lookup(t)
  PROVE  RegistryInv'
<1> USE DEF Lookup
<1>1. (RegistryTypeOK /\ AttemptLeft)'
  <2>1. attempt' \in [Openers -> 0..MaxAttempts]
    <3>1. CASE at[t] = "sleep" /\ attempt' = [attempt EXCEPT ![t] = @ + 1]
      BY <3>1 DEF RegistryTypeOK, AttemptLeft
    <3>2. CASE attempt' = [attempt EXCEPT ![t] = 1]
      BY <3>2 DEF RegistryTypeOK
    <3> QED BY <3>1, <3>2
  <2>2. /\ at' \in [Openers -> {"out", "create", "sleep", "register", "in"}]
        /\ handle' \in [Openers -> 0..MaxStores] /\ registered' \in 0..MaxStores
    <3>1. CASE registered # 0 /\ Strong(registered)
      <4>1. at' = [at EXCEPT ![t] = "in"] /\ handle' = [handle EXCEPT ![t] = registered]
        BY <3>1
      <4>2. registered' = registered
        BY <3>1
      <4> QED BY <4>1, <4>2 DEF RegistryTypeOK
    <3>2. CASE ~(registered # 0 /\ Strong(registered))
      BY <3>2 DEF RegistryTypeOK
    <3> QED BY <3>1, <3>2
  <2>3. \A u \in Openers \ {t} : at'[u] = at[u] /\ attempt'[u] = attempt[u]
    BY DEF RegistryTypeOK
  <2>4. at'[t] # "sleep"
    BY DEF RegistryTypeOK
  <2> QED BY <2>1, <2>2, <2>3, <2>4 DEF RegistryTypeOK, AttemptLeft
<1>2. (HoldsWhileIn /\ OpenerHasFile)'
  BY DEF RegistryTypeOK, HoldsWhileIn, OpenerHasFile
<1>3. (StoreHasFile /\ LockIsTeardown)'
  BY DEF StoreHasFile, LockIsTeardown
<1>4. (LiveIsHeld /\ LiveIsNamed)'
  BY DEF RegistryTypeOK, HoldsWhileIn, LiveIsHeld, LiveIsNamed
<1> QED BY <1>1, <1>2, <1>3, <1>4

(* builder.create: the file is taken only when nobody has it. *)
LEMMA CreateStep ==
  ASSUME RegistryInv, NEW t \in Openers, Create(t)
  PROVE  RegistryInv'
<1> USE DEF Create
<1>1. (RegistryTypeOK /\ AttemptLeft)'
  BY DEF RegistryTypeOK, AttemptLeft
<1>2. (HoldsWhileIn /\ OpenerHasFile)'
  BY DEF RegistryTypeOK, HoldsWhileIn, OpenerHasFile
<1>3. (StoreHasFile /\ LockIsTeardown)'
  BY DEF StoreHasFile, LockIsTeardown
<1>4. (LiveIsHeld /\ LiveIsNamed)'
  BY DEF LiveIsHeld, LiveIsNamed
<1> QED BY <1>1, <1>2, <1>3, <1>4

(* register(): whoever has the file has it alone, so no store is open, and *)
(* OPEN can name the new one.                                              *)
LEMMA RegisterStep ==
  ASSUME RegistryInv, NEW t \in Openers, Register(t)
  PROVE  RegistryInv'
<1> USE DEF Register
<1>1. \A g \in Stores : phase[g] \notin Opened
  BY DEF OpenerHasFile, StoreHasFile
<1>2. ~(registered # 0 /\ Strong(registered))
  BY <1>1 DEF RegistryTypeOK, LiveIsHeld
<1>3. PICK g \in Stores :
          /\ phase[g] = "unused"
          /\ handle' = [handle EXCEPT ![t] = g]
          /\ phase' = [phase EXCEPT ![g] = "live"]
          /\ sweeper' = [sweeper EXCEPT ![g] = "pending"]
          /\ registered' = g /\ file' = g
  BY <1>2
<1>4. (RegistryTypeOK /\ AttemptLeft)'
  BY <1>3 DEF RegistryTypeOK, AttemptLeft
<1>5. HoldsWhileIn'
  BY <1>3 DEF RegistryTypeOK, HoldsWhileIn
<1>6. OpenerHasFile'
  BY <1>3 DEF RegistryTypeOK, OpenerHasFile
<1>7. (StoreHasFile /\ LockIsTeardown)'
  BY <1>1, <1>3 DEF RegistryTypeOK, StoreHasFile, LockIsTeardown
<1>8. (LiveIsHeld /\ LiveIsNamed)'
  BY <1>1, <1>3 DEF RegistryTypeOK, HoldsWhileIn, LiveIsHeld, LiveIsNamed
<1> QED BY <1>4, <1>5, <1>6, <1>7, <1>8

(* The sweep: it keeps a store alive that somebody holds, and may be the   *)
(* last to let go of it.                                                   *)
LEMMA SweeperStep ==
  ASSUME RegistryInv, NEW g \in Stores, Sweeper(g)
  PROVE  RegistryInv'
<1> USE DEF Sweeper, Released
<1>1. (RegistryTypeOK /\ AttemptLeft /\ HoldsWhileIn /\ OpenerHasFile)'
  BY DEF RegistryTypeOK, AttemptLeft, HoldsWhileIn, OpenerHasFile
<1>2. (StoreHasFile /\ LockIsTeardown)'
  BY DEF RegistryTypeOK, StoreHasFile, LockIsTeardown, LiveIsHeld
<1>3. LiveIsHeld'
  BY DEF RegistryTypeOK, LiveIsHeld
<1>4. LiveIsNamed'
  BY DEF RegistryTypeOK, LiveIsNamed
<1> QED BY <1>1, <1>2, <1>3, <1>4

(* A handle is dropped; the last strong reference starts the teardown. *)
LEMMA ReleaseStep ==
  ASSUME RegistryInv, NEW t \in Openers, Release(t)
  PROVE  RegistryInv'
<1> USE DEF Release, Released
<1>1. handle[t] \in Stores /\ Strong(handle[t])
  BY DEF RegistryTypeOK, HoldsWhileIn
<1>2. (RegistryTypeOK /\ AttemptLeft /\ HoldsWhileIn /\ OpenerHasFile)'
  BY <1>1 DEF RegistryTypeOK, AttemptLeft, HoldsWhileIn, OpenerHasFile
<1>3. (StoreHasFile /\ LockIsTeardown)'
  BY <1>1 DEF RegistryTypeOK, StoreHasFile, LockIsTeardown, LiveIsHeld
<1>4. LiveIsHeld'
  BY <1>1 DEF RegistryTypeOK, LiveIsHeld
<1>5. LiveIsNamed'
  BY <1>1 DEF RegistryTypeOK, LiveIsNamed
<1> QED BY <1>2, <1>3, <1>4, <1>5

(* DiskStore::drop: no live store has the file the dying one still has, so *)
(* the entry it evicts is no successor's.                                  *)
LEMMA TeardownStep ==
  ASSUME RegistryInv, NEW g \in Stores, Teardown(g)
  PROVE  RegistryInv'
<1> USE DEF Teardown
<1>1. file = g /\ \A h \in Stores \ {g} : phase[h] \notin Opened
  BY DEF StoreHasFile
<1>2. (RegistryTypeOK /\ AttemptLeft /\ HoldsWhileIn)'
  BY DEF RegistryTypeOK, AttemptLeft, HoldsWhileIn
<1>3. (OpenerHasFile /\ StoreHasFile)'
  <2>1. \A t \in Openers : at[t] # "register"
    BY <1>1 DEF OpenerHasFile
  <2>2. \A h \in Stores \ {g} : phase'[h] = phase[h]
    BY DEF RegistryTypeOK
  <2>3. phase'[g] \in Opened => file' = g
    BY <1>1 DEF RegistryTypeOK
  <2> QED BY <1>1, <2>1, <2>2, <2>3 DEF OpenerHasFile, StoreHasFile
<1>4. LockIsTeardown'
  BY <1>1 DEF RegistryTypeOK, LockIsTeardown
<1>5. phase' \in [Stores -> {"unused", "closed"} \cup Opened] /\ phase'[g] # "live"
  BY DEF RegistryTypeOK
<1>6. \A h \in Stores : phase'[h] # "live" /\ phase[h] # "live"
  BY <1>1, <1>5 DEF RegistryTypeOK
<1>7. (LiveIsHeld /\ LiveIsNamed)'
  BY <1>6 DEF LiveIsHeld, LiveIsNamed
<1> QED BY <1>2, <1>3, <1>4, <1>7

(* Another process takes the file only when nobody here has it. *)
LEMMA OtherStep ==
  ASSUME RegistryInv, Other
  PROVE  RegistryInv'
<1> USE DEF Other
<1>1. (RegistryTypeOK /\ AttemptLeft /\ HoldsWhileIn)'
  BY DEF RegistryTypeOK, AttemptLeft, HoldsWhileIn
<1>2. (OpenerHasFile /\ StoreHasFile /\ LockIsTeardown)'
  BY DEF OpenerHasFile, StoreHasFile, LockIsTeardown
<1>3. (LiveIsHeld /\ LiveIsNamed)'
  BY DEF LiveIsHeld, LiveIsNamed
<1> QED BY <1>1, <1>2, <1>3

-----------------------------------------------------------------------------
(* Every step preserves the invariant. *)
LEMMA RegistryStep ==
  ASSUME RegistryInv, [RegistryNext]_registryVars
  PROVE  RegistryInv'
<1>1. CASE UNCHANGED registryVars
  BY <1>1 DEF registryVars, RegistryTypeOK, AttemptLeft, HoldsWhileIn, OpenerHasFile,
              StoreHasFile, LiveIsHeld, LiveIsNamed, LockIsTeardown
<1> HIDE DEF RegistryInv
<1>2. CASE RegistryNext
  BY <1>2, LookupStep, CreateStep, RegisterStep, SweeperStep, ReleaseStep, TeardownStep,
     OtherStep DEF RegistryNext
<1> QED BY <1>1, <1>2

(* The invariant holds in every reachable state. *)
THEOREM RegistryInvariant == RegistrySpec => []RegistryInv
<1> HIDE DEF RegistryInv
<1>1. RegistryInv /\ [RegistryNext]_registryVars => RegistryInv'
  BY RegistryStep
<1> QED BY RegistryInitInv, <1>1, PTL DEF RegistrySpec

(* A store somebody holds is the one OPEN names, and has the file          *)
(* (open_file, register, DiskStore::drop): a later open shares it instead  *)
(* of failing on redb's lock, and no teardown evicts its successor.        *)
THEOREM LiveStoreShared == RegistrySpec => []LiveIsRegistered
<1>1. RegistryInv => LiveIsRegistered
  BY DEF LiveIsRegistered, LiveIsHeld, LiveIsNamed, StoreHasFile
<1> QED BY RegistryInvariant, <1>1, PTL
=============================================================================
