----------------------------- MODULE O11yMetrics -----------------------------
(* The metric instruments: a histogram several threads record into, its     *)
(* series found or made per tag set up to a cap, and the process-wide list  *)
(* of the instruments the exporter reads.  A counter and a gauge keep one   *)
(* atomic where a histogram keeps its buckets, in the same series map.      *)
EXTENDS Naturals, Integers, Sequences, FiniteSets, Functions

CONSTANTS
    Recorders,      \* threads that record
    TagLists,       \* the tags given, as sequences of pairs
    Samples,        \* the values recorded
    Layouts,        \* bucket bounds: the default's and the caller's
    DEFAULT_BOUNDS,
    MAX_SERIES,
    MaxSamples,     \* bound: values recorded
    Instruments,    \* instruments created, besides the one recorded into
    MIN_PRUNE_AT,
    Unset

VARIABLES
    layout,         \* the OnceLock of the bounds
    entries,        \* TagMap.entries: the series, as they were pushed
    series,         \* TagMap.series, the count the cap is checked against
    overflow,       \* the series of what the cap refused
    readers, writer,\* the RwLock of the entries
    rec,            \* per recorder: see NotRecording
    recorded,       \* every sample a record call has finished filing
    instruments,     \* INSTRUMENTS: the weak handles
    alive,          \* instruments some handle or snapshot still holds
    upgraded,       \* those the snapshot being taken holds
    PRUNE_AT

\* What a series holds: see Buckets.
Series == [tags : TagLists \cup {<<"overflow">>}, counts : Seq(Nat), count : Nat, sum : Int]

ASSUME MetricsAssumption ==
    /\ IsFiniteSet(Recorders) /\ Samples \subseteq Int
    /\ Layouts \cup {DEFAULT_BOUNDS} \subseteq Seq(Int)
    /\ MAX_SERIES \in Nat \ {0} /\ MIN_PRUNE_AT \in Nat \ {0} /\ MaxSamples \in Nat
    /\ Unset \notin Series \cup Seq(Int)

seriesVars == <<layout, entries, series, overflow, readers, writer, rec, recorded>>
instrumentVars == <<instruments, alive, upgraded, PRUNE_AT>>
metricVars == <<seriesVars, instrumentVars>>

NotRecording == [at |-> "rest", tags |-> << >>, value |-> 0, full |-> FALSE,
                 into |-> 0, read |-> 0]
Unless(x, y) == IF x = Unset THEN y ELSE x
First(those) == CHOOSE i \in those : \A j \in those : i <= j
RecAt(t, step) == rec[t].at = step
RecGoto(t, step) == rec' = [rec EXCEPT ![t].at = step]

\* same_tags: the same pairs as often each, in any order (hash_tags only
\* narrows the search to the ones that could be).
same_tags(stored, probe) ==
    /\ Len(stored) = Len(probe)
    /\ \A pair \in Range(stored) \cup Range(probe) :
          Cardinality({i \in DOMAIN stored : stored[i] = pair})
            = Cardinality({i \in DOMAIN probe : probe[i] = pair})
Find(tags) ==
    LET there == {i \in DOMAIN entries : same_tags(entries[i].tags, tags)}
    IN IF there = {} THEN 0 ELSE First(there)
Buckets(tags, bounds) ==
    [tags |-> tags, counts |-> [i \in 1 .. Len(bounds) + 1 |-> 0], count |-> 0, sum |-> 0]
Bucket(bounds, value) ==
    LET over == {i \in DOMAIN bounds : value <= bounds[i]}
    IN IF over = {} THEN Len(bounds) + 1 ELSE First(over)

\* with_buckets: the first call, and only before the first record.
WithBuckets ==
    /\ \E bounds \in Layouts : layout' = Unless(layout, bounds)
    /\ UNCHANGED <<entries, series, overflow, readers, writer, rec, recorded, instrumentVars>>

\* record_with_tags: the layout, and the count of series before the lookup.
Begun == Len(recorded) + Cardinality({t \in Recorders : rec[t].at # "rest"})
RecordWithTags(t) ==
    /\ RecAt(t, "rest") /\ Begun < MaxSamples
    /\ layout' = Unless(layout, DEFAULT_BOUNDS)
    /\ \E tags \in TagLists, value \in Samples :
          rec' = [rec EXCEPT ![t] = [NotRecording EXCEPT !.at = "find", !.tags = tags,
                                        !.value = value, !.full = series >= MAX_SERIES]]
    /\ UNCHANGED <<entries, series, overflow, readers, writer, recorded, instrumentVars>>

\* The read lock: the series is there, or it is not.
FindSeries(t) ==
    /\ RecAt(t, "find") /\ writer = Unset
    /\ IF Find(rec[t].tags) # 0
         THEN /\ readers' = readers \cup {t}
              /\ rec' = [rec EXCEPT ![t].at = "bucket", ![t].into = Find(rec[t].tags)]
              /\ UNCHANGED overflow
         ELSE /\ RecGoto(t, IF rec[t].full THEN "bucket" ELSE "make")
              /\ overflow' = IF rec[t].full THEN Unless(overflow, Buckets(<<"overflow">>, layout))
                                            ELSE overflow
              /\ UNCHANGED readers
    /\ UNCHANGED <<layout, entries, series, writer, recorded, instrumentVars>>

\* The write lock: another thread may have made the series meanwhile.
Pushed(tags) == /\ entries' = Append(entries, Buckets(tags, layout))
                /\ series' = series + 1
MakeSeriesBlindly(t) ==
    /\ RecAt(t, "make") /\ writer = Unset /\ readers = {}
    /\ writer' = t
    /\ Pushed(rec[t].tags)
    /\ rec' = [rec EXCEPT ![t].at = "bucket", ![t].into = Len(entries')]
    /\ UNCHANGED <<layout, overflow, readers, recorded, instrumentVars>>
MakeSeries(t) ==
    /\ RecAt(t, "make") /\ writer = Unset /\ readers = {}
    /\ writer' = t
    /\ IF Find(rec[t].tags) # 0 THEN UNCHANGED <<entries, series>> ELSE Pushed(rec[t].tags)
    /\ rec' = [rec EXCEPT ![t].at = "bucket",
                  ![t].into = IF Find(rec[t].tags) # 0 THEN Find(rec[t].tags) ELSE Len(entries')]
    /\ UNCHANGED <<layout, overflow, readers, recorded, instrumentVars>>

\* Buckets::record, one atomic at a time, on the series or the overflow one.
Into(t) == IF rec[t].into = 0 THEN overflow ELSE entries[rec[t].into]
Store(t, s) ==
    IF rec[t].into = 0 THEN overflow' = s /\ UNCHANGED entries
                       ELSE entries' = [entries EXCEPT ![rec[t].into] = s] /\ UNCHANGED overflow
CountBucket(t) ==
    /\ RecAt(t, "bucket")
    /\ Store(t, [Into(t) EXCEPT !.counts[Bucket(layout, rec[t].value)] = @ + 1])
    /\ RecGoto(t, "count")
    /\ UNCHANGED <<layout, series, readers, writer, recorded, instrumentVars>>
CountAll(t) ==
    /\ RecAt(t, "count")
    /\ Store(t, [Into(t) EXCEPT !.count = @ + 1])
    /\ rec' = [rec EXCEPT ![t].at = "sum", ![t].read = Into(t).sum]
    /\ UNCHANGED <<layout, series, readers, writer, recorded, instrumentVars>>

\* compare_exchange_weak: it may fail with nothing changed, too.
Summed(t) == Into(t).sum = rec[t].read
SumAgain(t) ==
    /\ RecAt(t, "sum")
    /\ rec' = [rec EXCEPT ![t].read = Into(t).sum]
    /\ UNCHANGED <<layout, entries, series, overflow, readers, writer, recorded, instrumentVars>>
SumBlindly(t) ==
    /\ RecAt(t, "sum")
    /\ Store(t, [Into(t) EXCEPT !.sum = rec[t].read + rec[t].value])
    /\ recorded' = Append(recorded, [tags |-> rec[t].tags, value |-> rec[t].value])
    /\ rec' = [rec EXCEPT ![t] = NotRecording]
    /\ readers' = readers \ {t}
    /\ writer' = IF writer = t THEN Unset ELSE writer
    /\ UNCHANGED <<layout, series, instrumentVars>>
SumAll(t) == RecAt(t, "sum") /\ Summed(t) /\ SumBlindly(t)

\* The registry: an instrument is created, its last handle goes, the
\* exporter takes the live ones and reads them with the lock let go.
Pruned(all, held) == {i \in all : i \in held}
RegisterInstrument(i) ==
    /\ i \notin instruments \cup alive
    /\ alive' = alive \cup {i}
    /\ LET all == instruments \cup {i}
           kept == Pruned(all, alive')
       IN IF Cardinality(all) >= PRUNE_AT
            THEN /\ instruments' = kept
                 /\ PRUNE_AT' = IF 2 * Cardinality(kept) > MIN_PRUNE_AT
                                  THEN 2 * Cardinality(kept) ELSE MIN_PRUNE_AT
            ELSE instruments' = all /\ UNCHANGED PRUNE_AT
    /\ UNCHANGED <<upgraded, seriesVars>>
DropInstrument(i) ==
    /\ i \in alive \ upgraded
    /\ alive' = alive \ {i}
    /\ UNCHANGED <<instruments, upgraded, PRUNE_AT, seriesVars>>
Snapshot ==
    /\ upgraded = {} /\ alive # {}
    /\ upgraded' = instruments \cap alive
    /\ instruments' = Pruned(instruments, alive)
    /\ UNCHANGED <<alive, PRUNE_AT, seriesVars>>
SnapshotTaken ==
    /\ upgraded # {}
    /\ upgraded' = {}
    /\ alive' \in {alive} \cup {alive \ gone : gone \in SUBSET upgraded}
    /\ UNCHANGED <<instruments, PRUNE_AT, seriesVars>>

MetricsInit ==
    /\ layout = Unset /\ entries = << >> /\ series = 0 /\ overflow = Unset
    /\ readers = {} /\ writer = Unset
    /\ rec = [t \in Recorders |-> NotRecording] /\ recorded = << >>
    /\ instruments = {} /\ alive = {} /\ upgraded = {} /\ PRUNE_AT = MIN_PRUNE_AT

MetricsNext ==
    \/ WithBuckets \/ Snapshot \/ SnapshotTaken
    \/ \E t \in Recorders :
          \/ RecordWithTags(t) \/ FindSeries(t) \/ MakeSeries(t)
          \/ CountBucket(t) \/ CountAll(t) \/ SumAgain(t) \/ SumAll(t)
    \/ \E i \in Instruments : RegisterInstrument(i) \/ DropInstrument(i)

MetricsSpec == MetricsInit /\ [][MetricsNext]_metricVars

Added(numbers) ==
    LET upto[n \in 0 .. Len(numbers)] == IF n = 0 THEN 0 ELSE upto[n - 1] + numbers[n]
    IN upto[Len(numbers)]
Total(field) ==
    Added([i \in DOMAIN entries |-> entries[i][field]])
      + IF overflow = Unset THEN 0 ELSE overflow[field]

(* Every sample is in exactly one series, its own or the overflow one: a    *)
(* tag set has one series however it is written and however many threads    *)
(* first saw it at once, and when all have finished the buckets, the counts *)
(* and the sums add up to what was recorded.  The cap is passed by no more  *)
(* than the threads that read the count before it was reached.  And an      *)
(* instrument somebody holds is one the exporter sees, however many dead    *)
(* ones are pruned around it, while those never outgrow the watermark.      *)
NoSampleLost ==
    /\ \A i, j \in DOMAIN entries : same_tags(entries[i].tags, entries[j].tags) => i = j
    /\ Len(entries) = series /\ series < MAX_SERIES + Cardinality(Recorders)
    /\ (\A t \in Recorders : RecAt(t, "rest")) =>
          /\ Total("count") = Len(recorded)
          /\ Total("sum") = Added([n \in DOMAIN recorded |-> recorded[n].value])
          /\ \A i \in DOMAIN entries : Added(entries[i].counts) = entries[i].count
    /\ alive \subseteq instruments /\ Cardinality(instruments) < PRUNE_AT
=============================================================================
