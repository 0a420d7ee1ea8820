------------------------- MODULE O11yPipelineProofs -------------------------
(***************************************************************************)
(* Proofs about O11yPipeline, for any number of threads, any capacity and  *)
(* batch size, and any number of records, flushes and intervals.           *)
(***************************************************************************)
EXTENDS O11yPipeline, TLAPS

Opening == {"spawn", "install", "open", "openspans"}
Closing == {"closespans", "signal", "take", "join", "joined"}
InCycle == {"logs", "traces", "report"}
BetweenCycles == {"unborn", "wait", "claim", "exit", "exited"}

(* No cycle is in flight, and none was cut short by a panic. *)
AtRest == w \in BetweenCycles \/ (w = "shutspans" /\ stopping)

(* Types.  The counters are any numbers: their bounds are TLC's.  A buffer *)
(* never outgrows its capacity.                                            *)
CallersTyped ==
    /\ initialized \in BOOLEAN /\ pipeline \in BOOLEAN /\ handle \in BOOLEAN /\ live \in BOOLEAN
    /\ gate \in [Buffered -> BOOLEAN]
    /\ pc \in [Threads -> Labels]
    /\ target \in [Threads -> Nat]
    /\ asked \in [Threads -> SUBSET Nat]

BuffersTyped ==
    /\ queue \in [Buffered -> Seq(Nat)]
    /\ \A s \in Buffered : Len(queue[s]) <= Capacity
    /\ dropped \in [Buffered -> Nat] /\ tally \in [Buffered -> Nat]
    /\ emitted \in Nat

ControlTyped ==
    /\ control \in [shutdown : BOOLEAN, flush_requested : BOOLEAN,
                    batch_ready : BOOLEAN, started : Nat, generation : Nat]
    /\ sleeping \subseteq Threads \cup {Worker}

WorkerTyped ==
    /\ w \in Phases
    /\ stopping \in BOOLEAN /\ backoff \in BOOLEAN /\ ok \in BOOLEAN
    /\ hand \in [Signals -> SUBSET Nat]

Typed == CallersTyped /\ BuffersTyped /\ ControlTyped /\ WorkerTyped

(* The claim of init: one caller at a time starts the worker and opens the *)
(* gates, and after it has, nobody does again.                             *)
OneOpener ==
    /\ \A t, u \in Threads : pc[t] \in Opening /\ pc[u] \in Opening => t = u
    /\ (\E t \in Threads : pc[t] \in Opening) \/ live \/ w # "unborn" => initialized
    /\ live => \A t \in Threads : pc[t] \notin Opening
    /\ \A t \in Threads : pc[t] = "spawn" => w = "unborn"

(* The worker takes the gates down one after the other. *)
GatesShut ==
    live => /\ w \in {"shutspans", "exited", "dead"} => ~gate["logs"]
            /\ w \in {"exited", "dead"} => ~gate["traces"]

(* Who sleeps is in a wait, and waits for something still to come. *)
Sleepers ==
    /\ Worker \in sleeping => w = "wait"
    /\ \A t \in sleeping \cap Threads : pc[t] = "flush"
    /\ NobodyOversleeps

(* Records are numbered as they are pushed, so a later one is no earlier.  *)
Numbered ==
    /\ \A s \in Buffered : Range(queue[s]) \cup hand[s] \subseteq 1..emitted
    /\ \A t \in Threads : asked[t] \subseteq 1..emitted

(* A cycle in flight is the one started and not finished. *)
CycleCount ==
    /\ AtRest => control.generation = control.started
    /\ w \in InCycle => control.generation + 1 = control.started
    /\ control.started - control.generation \in {0, 1}

(* Between cycles, and once it has ended well, the worker holds nothing.   *)
HandEmpty ==
    AtRest => \A s \in Buffered : hand[s] = {}

(* The worker stops only because of the flag, and ends well only then. *)
StopFlag ==
    /\ stopping => control.shutdown
    /\ w \in {"unborn", "wait", "dead"} => ~stopping
    /\ w \in {"exit", "exited"} => stopping

(* What a call asked for has left buffer s, or has left the pipeline. *)
Taken(t, s) == asked[t] \cap Range(queue[s]) = {}
Gone(t, s) == Taken(t, s) /\ asked[t] \cap hand[s] = {}

(* The cycle a flush waits for takes everything it asked for. *)
FlushServed ==
    \A t \in Threads : pc[t] = "flush" =>
        /\ control.started >= target[t] /\ w # "logs" => Taken(t, "logs")
        /\ control.started >= target[t] /\ w \notin {"logs", "traces"} => Taken(t, "traces")
        /\ control.generation >= target[t] => \A s \in Buffered : Gone(t, s)

(* So does the cycle that begins when the worker has seen the flag. *)
ShutdownServed ==
    \A t \in Threads : pc[t] \in Closing /\ stopping =>
        /\ w \notin {"claim", "logs"} => Taken(t, "logs")
        /\ w \notin {"claim", "logs", "traces"} => Taken(t, "traces")
PipelineInv ==
    /\ Typed /\ OneOpener /\ GatesShut /\ Sleepers
    /\ Numbered /\ CycleCount /\ HandEmpty /\ StopFlag
    /\ FlushServed /\ ShutdownServed

-----------------------------------------------------------------------------
(* Sequences *)

(* Buffer::take leaves an empty buffer. *)
LEMMA RangeEmpty == Range(<<>>) = {}
BY DEF Range

(* Buffer::push adds one record. *)
LEMMA RangeAppend ==
  ASSUME NEW S, NEW q \in Seq(S), NEW x \in S
  PROVE  /\ Append(q, x) \in Seq(S)
         /\ Len(Append(q, x)) = Len(q) + 1
         /\ Range(Append(q, x)) \subseteq Range(q) \cup {x}
<1>1. \A k \in DOMAIN Append(q, x) : Append(q, x)[k] \in Range(q) \cup {x}
  BY DEF Range
<1> QED BY <1>1 DEF Range

(* Losing the oldest record adds none. *)
LEMMA RangeTail ==
  ASSUME NEW S, NEW q \in Seq(S), Len(q) > 0
  PROVE  /\ Tail(q) \in Seq(S)
         /\ Len(Tail(q)) = Len(q) - 1
         /\ Range(Tail(q)) \subseteq Range(q)
<1>1. \A k \in DOMAIN Tail(q) : Tail(q)[k] = q[k + 1] /\ k + 1 \in DOMAIN q
  OBVIOUS
<1> QED BY <1>1 DEF Range

(* What a buffer holds is what may be held. *)
LEMMA RangeOf ==
  ASSUME NEW S, NEW q \in Seq(S)
  PROVE  Range(q) \subseteq S
BY DEF Range

-----------------------------------------------------------------------------
USE PipelineAssumption
USE DEF PipelineInv, Goto, Buffered, Signals, Labels, Phases, Opening, Closing,
        InCycle, BetweenCycles, AtRest, Ended, Snapshot, Due,
        global, callers, buffers, worker

(* What is pending was pushed. *)
LEMMA PendingIsPushed ==
  ASSUME Typed
  PROVE  /\ Pending \subseteq Nat
         /\ Numbered => Pending \subseteq 1..emitted
<1>1. \A s \in Buffered : Range(queue[s]) \subseteq Nat /\ hand[s] \subseteq Nat
  BY RangeOf DEF Typed, BuffersTyped, WorkerTyped
<1>2. Pending \subseteq Nat
  BY <1>1 DEF Pending
<1>3. Numbered => Pending \subseteq 1..emitted
  BY DEF Numbered, Pending
<1> QED BY <1>2, <1>3

(* Nothing has been recorded, asked for or started. *)
LEMMA InitPipeline == Init => PipelineInv
<1> SUFFICES ASSUME Init PROVE PipelineInv
  OBVIOUS
<1> USE RangeEmpty DEF Init
<1>1. Typed
  <2>1. CallersTyped
    BY DEF CallersTyped
  <2>2. BuffersTyped
    <3>1. <<>> \in Seq(Nat) /\ Len(<<>>) <= Capacity
      BY DEF PipelineAssumption
    <3>2. queue \in [Buffered -> Seq(Nat)]
      BY <3>1
    <3> QED BY <3>1, <3>2 DEF BuffersTyped
  <2>3. ControlTyped
    BY DEF ControlTyped
  <2>4. WorkerTyped
    BY DEF WorkerTyped
  <2> QED BY <2>1, <2>2, <2>3, <2>4 DEF Typed
<1>2. OneOpener /\ GatesShut /\ Sleepers
  BY DEF OneOpener, GatesShut, Sleepers, NobodyOversleeps
<1>3. Numbered /\ CycleCount /\ HandEmpty /\ StopFlag
  BY DEF Numbered, CycleCount, HandEmpty, StopFlag
<1>4. FlushServed /\ ShutdownServed
  BY DEF FlushServed, ShutdownServed
<1> QED BY <1>1, <1>2, <1>3, <1>4

(* The claim is taken by one caller at a time. *)
LEMMA Init1Step ==
  ASSUME PipelineInv, NEW t \in Threads, Init1(t)
  PROVE  PipelineInv'
<1> USE DEF Init1
<1>1. Typed'
  <2>1. CallersTyped'
    BY DEF Typed, CallersTyped, BuffersTyped
  <2>2. BuffersTyped'
    BY DEF Typed, BuffersTyped
  <2>3. ControlTyped'
    BY DEF Typed, ControlTyped
  <2>4. WorkerTyped'
    BY DEF Typed, WorkerTyped
  <2> QED BY <2>1, <2>2, <2>3, <2>4 DEF Typed
<1>2. OneOpener'
  BY DEF Typed, CallersTyped, WorkerTyped, OneOpener
<1>3. GatesShut'
  BY DEF Typed, CallersTyped, WorkerTyped, OneOpener, GatesShut
<1>4. Sleepers'
  BY DEF Typed, CallersTyped, ControlTyped, WorkerTyped, Sleepers, NobodyOversleeps
<1>5. Numbered'
  BY DEF Typed, CallersTyped, BuffersTyped, WorkerTyped, Numbered, Pending
<1>6. CycleCount'
  BY DEF Typed, CallersTyped, ControlTyped, WorkerTyped, OneOpener, CycleCount, StopFlag
<1>7. HandEmpty'
  BY DEF Typed, CallersTyped, WorkerTyped, OneOpener, HandEmpty, StopFlag
<1>8. StopFlag'
  BY DEF Typed, CallersTyped, ControlTyped, WorkerTyped, OneOpener, StopFlag
<1>9. FlushServed'
  <2>1. \A u \in Threads :
          pc'[u] = "flush" => pc[u] = "flush" /\ asked'[u] = asked[u]
    BY DEF Typed, CallersTyped
  <2> QED BY <2>1 DEF FlushServed, Taken, Gone
<1>10. ShutdownServed'
  BY DEF Typed, CallersTyped, ControlTyped, WorkerTyped, OneOpener, StopFlag, ShutdownServed, Taken
<1> QED BY <1>1, <1>2, <1>3, <1>4, <1>5, <1>6, <1>7, <1>8, <1>9, <1>10

(* A worker that starts has stopped nothing and holds nothing. *)
LEMMA SpawnStep ==
  ASSUME PipelineInv, NEW t \in Threads, Spawn(t)
  PROVE  PipelineInv'
<1> USE DEF Spawn
<1>1. Typed'
  <2>1. CallersTyped'
    BY DEF Typed, CallersTyped, BuffersTyped
  <2>2. BuffersTyped'
    BY DEF Typed, BuffersTyped
  <2>3. ControlTyped'
    BY DEF Typed, ControlTyped
  <2>4. WorkerTyped'
    BY DEF Typed, WorkerTyped
  <2> QED BY <2>1, <2>2, <2>3, <2>4 DEF Typed
<1>2. OneOpener'
  BY DEF Typed, CallersTyped, WorkerTyped, OneOpener
<1>3. GatesShut'
  BY DEF Typed, CallersTyped, WorkerTyped, OneOpener, GatesShut
<1>4. Sleepers'
  BY DEF Typed, CallersTyped, ControlTyped, WorkerTyped, Sleepers, NobodyOversleeps
<1>5. Numbered'
  BY DEF Typed, CallersTyped, BuffersTyped, WorkerTyped, Numbered, Pending
<1>6. CycleCount'
  BY DEF Typed, CallersTyped, ControlTyped, WorkerTyped, OneOpener, CycleCount, StopFlag
<1>7. HandEmpty'
  BY DEF Typed, CallersTyped, WorkerTyped, OneOpener, HandEmpty, StopFlag
<1>8. StopFlag'
  BY DEF Typed, CallersTyped, ControlTyped, WorkerTyped, OneOpener, StopFlag
<1>9. FlushServed'
  <2>1. w = "unborn"
    BY DEF OneOpener
  <2>2. \A u \in Threads : pc'[u] = "flush" => pc[u] = "flush"
    BY DEF Typed, CallersTyped
  <2> QED BY <2>1, <2>2 DEF FlushServed, Taken, Gone
<1>10. ShutdownServed'
  BY DEF Typed, CallersTyped, ControlTyped, WorkerTyped, OneOpener, StopFlag, ShutdownServed, Taken
<1> QED BY <1>1, <1>2, <1>3, <1>4, <1>5, <1>6, <1>7, <1>8, <1>9, <1>10

(* The pipeline is installed by whoever has the claim. *)
LEMMA InstallStep ==
  ASSUME PipelineInv, NEW t \in Threads, Install(t)
  PROVE  PipelineInv'
<1> USE DEF Install
<1>1. Typed'
  <2>1. CallersTyped'
    BY DEF Typed, CallersTyped, BuffersTyped
  <2>2. BuffersTyped'
    BY DEF Typed, BuffersTyped
  <2>3. ControlTyped'
    BY DEF Typed, ControlTyped
  <2>4. WorkerTyped'
    BY DEF Typed, WorkerTyped
  <2> QED BY <2>1, <2>2, <2>3, <2>4 DEF Typed
<1>2. OneOpener'
  BY DEF Typed, CallersTyped, WorkerTyped, OneOpener
<1>3. GatesShut'
  BY DEF Typed, CallersTyped, WorkerTyped, OneOpener, GatesShut
<1>4. Sleepers'
  BY DEF Typed, CallersTyped, ControlTyped, WorkerTyped, Sleepers, NobodyOversleeps
<1>5. Numbered'
  BY DEF Typed, CallersTyped, BuffersTyped, WorkerTyped, Numbered, Pending
<1>6. CycleCount'
  BY DEF Typed, CallersTyped, ControlTyped, WorkerTyped, OneOpener, CycleCount, StopFlag
<1>7. HandEmpty'
  BY DEF Typed, CallersTyped, WorkerTyped, OneOpener, HandEmpty, StopFlag
<1>8. StopFlag'
  BY DEF Typed, CallersTyped, ControlTyped, WorkerTyped, OneOpener, StopFlag
<1>9. FlushServed'
  <2>1. \A u \in Threads :
          pc'[u] = "flush" => pc[u] = "flush" /\ asked'[u] = asked[u]
    BY DEF Typed, CallersTyped
  <2> QED BY <2>1 DEF FlushServed, Taken, Gone
<1>10. ShutdownServed'
  BY DEF Typed, CallersTyped, ControlTyped, WorkerTyped, OneOpener, StopFlag, ShutdownServed, Taken
<1> QED BY <1>1, <1>2, <1>3, <1>4, <1>5, <1>6, <1>7, <1>8, <1>9, <1>10

(* The gates open once, by whoever has the claim. *)
LEMMA OpenStep ==
  ASSUME PipelineInv, NEW t \in Threads, Open(t)
  PROVE  PipelineInv'
<1> USE DEF Open
<1>1. Typed'
  <2>1. CallersTyped'
    BY DEF Typed, CallersTyped, BuffersTyped
  <2>2. BuffersTyped'
    BY DEF Typed, BuffersTyped
  <2>3. ControlTyped'
    BY DEF Typed, ControlTyped
  <2>4. WorkerTyped'
    BY DEF Typed, WorkerTyped
  <2> QED BY <2>1, <2>2, <2>3, <2>4 DEF Typed
<1>2. OneOpener'
  BY DEF Typed, CallersTyped, WorkerTyped, OneOpener
<1>3. GatesShut'
  BY DEF Typed, CallersTyped, WorkerTyped, OneOpener, GatesShut
<1>4. Sleepers'
  BY DEF Typed, CallersTyped, ControlTyped, WorkerTyped, Sleepers, NobodyOversleeps
<1>5. Numbered'
  BY DEF Typed, CallersTyped, BuffersTyped, WorkerTyped, Numbered, Pending
<1>6. CycleCount'
  BY DEF Typed, CallersTyped, ControlTyped, WorkerTyped, OneOpener, CycleCount, StopFlag
<1>7. HandEmpty'
  BY DEF Typed, CallersTyped, WorkerTyped, OneOpener, HandEmpty, StopFlag
<1>8. StopFlag'
  BY DEF Typed, CallersTyped, ControlTyped, WorkerTyped, OneOpener, StopFlag
<1>9. FlushServed'
  <2>1. \A u \in Threads :
          pc'[u] = "flush" => pc[u] = "flush" /\ asked'[u] = asked[u]
    BY DEF Typed, CallersTyped
  <2> QED BY <2>1 DEF FlushServed, Taken, Gone
<1>10. ShutdownServed'
  BY DEF Typed, CallersTyped, ControlTyped, WorkerTyped, OneOpener, StopFlag, ShutdownServed, Taken
<1> QED BY <1>1, <1>2, <1>3, <1>4, <1>5, <1>6, <1>7, <1>8, <1>9, <1>10

(* A record let in is nobody's yet. *)
LEMMA EnterStep ==
  ASSUME PipelineInv, NEW t \in Threads, NEW s \in Buffered, Enter(t, s)
  PROVE  PipelineInv'
<1> USE DEF Enter
<1>1. Typed'
  <2>1. CallersTyped'
    BY DEF Typed, CallersTyped, BuffersTyped
  <2>2. BuffersTyped'
    BY DEF Typed, BuffersTyped
  <2>3. ControlTyped'
    BY DEF Typed, ControlTyped
  <2>4. WorkerTyped'
    BY DEF Typed, WorkerTyped
  <2> QED BY <2>1, <2>2, <2>3, <2>4 DEF Typed
<1>2. OneOpener'
  BY DEF Typed, CallersTyped, WorkerTyped, OneOpener
<1>3. GatesShut'
  BY DEF Typed, CallersTyped, WorkerTyped, OneOpener, GatesShut
<1>4. Sleepers'
  BY DEF Typed, CallersTyped, ControlTyped, WorkerTyped, Sleepers, NobodyOversleeps
<1>5. Numbered'
  BY DEF Typed, CallersTyped, BuffersTyped, WorkerTyped, Numbered, Pending
<1>6. CycleCount'
  BY DEF Typed, CallersTyped, ControlTyped, WorkerTyped, OneOpener, CycleCount, StopFlag
<1>7. HandEmpty'
  BY DEF Typed, CallersTyped, WorkerTyped, OneOpener, HandEmpty, StopFlag
<1>8. StopFlag'
  BY DEF Typed, CallersTyped, ControlTyped, WorkerTyped, OneOpener, StopFlag
<1>9. FlushServed'
  <2>1. \A u \in Threads :
          pc'[u] = "flush" => pc[u] = "flush" /\ asked'[u] = asked[u]
    BY DEF Typed, CallersTyped
  <2> QED BY <2>1 DEF FlushServed, Taken, Gone
<1>10. ShutdownServed'
  BY DEF Typed, CallersTyped, ControlTyped, WorkerTyped, OneOpener, StopFlag, ShutdownServed, Taken
<1> QED BY <1>1, <1>2, <1>3, <1>4, <1>5, <1>6, <1>7, <1>8, <1>9, <1>10

(* A push is later than everything asked for, and may discard. *)
LEMMA PushStep ==
  ASSUME PipelineInv, NEW t \in Threads, Push(t)
  PROVE  PipelineInv'
<1> DEFINE s == pc[t]
           full == Len(queue[s]) >= Capacity
           kept == IF full THEN Tail(queue[s]) ELSE queue[s]
<1>1. /\ s \in Buffered
      /\ queue' = [queue EXCEPT ![s] = Append(kept, emitted + 1)]
      /\ dropped' = [dropped EXCEPT ![s] = IF full THEN dropped[s] + 1 ELSE dropped[s]]
      /\ pc' = [pc EXCEPT ![t] = IF Len(kept) + 1 = MaxBatch THEN "wake" ELSE "idle"]
      /\ emitted' = emitted + 1
      /\ UNCHANGED <<initialized, pipeline, handle, live, gate, control, sleeping, target,
                     asked, w, stopping, backoff, ok, hand, tally>>
  BY DEF Push
<1> HIDE DEF s
<1>2. queue[s] \in Seq(Nat) /\ Len(queue[s]) <= Capacity /\ emitted + 1 \in Nat
  BY <1>1 DEF Typed, BuffersTyped
<1>3. kept \in Seq(Nat) /\ Range(kept) \subseteq Range(queue[s]) /\ Len(kept) + 1 <= Capacity
  <2>1. CASE full
    BY <1>2, <2>1, RangeTail DEF PipelineAssumption
  <2>2. CASE ~full
    BY <1>2, <2>2 DEF PipelineAssumption
  <2> QED BY <2>1, <2>2
<1> HIDE DEF kept, full
<1>4. /\ Append(kept, emitted + 1) \in Seq(Nat)
      /\ Len(Append(kept, emitted + 1)) <= Capacity
      /\ Range(Append(kept, emitted + 1)) \subseteq Range(queue[s]) \cup {emitted + 1}
  BY <1>2, <1>3, RangeAppend
<1>5. \A b \in Buffered : Range(queue'[b]) \subseteq Range(queue[b]) \cup {emitted + 1}
  BY <1>1, <1>4 DEF Typed, BuffersTyped
<1>6. \A u \in Threads : pc'[u] = IF u = t THEN pc'[t] ELSE pc[u]
  BY <1>1 DEF Typed, CallersTyped
<1>7. pc[t] \in Buffered /\ pc'[t] \in {"wake", "idle"}
  BY <1>1 DEF Typed, CallersTyped, s
<1>8. Typed'
  <2>1. CallersTyped'
    BY <1>1 DEF Typed, CallersTyped
  <2>2. BuffersTyped'
    BY <1>1, <1>2, <1>4 DEF Typed, BuffersTyped
  <2> QED BY <1>1, <2>1, <2>2 DEF Typed, ControlTyped, WorkerTyped
<1>9. OneOpener'
  BY <1>1, <1>6, <1>7 DEF OneOpener
<1>10. Sleepers'
  BY <1>1, <1>6, <1>7 DEF Sleepers, NobodyOversleeps
<1>11. (GatesShut /\ CycleCount /\ HandEmpty /\ StopFlag)'
  BY <1>1 DEF GatesShut, CycleCount, HandEmpty, StopFlag
<1>12. \A k \in 1..emitted : k \in 1..emitted' /\ k # emitted + 1
  BY <1>1 DEF Typed, BuffersTyped
<1>13. Numbered'
  <2>1. emitted + 1 \in 1..emitted'
    BY <1>1 DEF Typed, BuffersTyped
  <2> QED BY <1>1, <1>5, <1>12, <2>1 DEF Numbered
<1>14. \A u \in Threads, b \in Buffered :
           asked[u] \cap Range(queue[b]) = {} => asked[u] \cap Range(queue'[b]) = {}
  BY <1>1, <1>5, <1>12 DEF Numbered
<1>15. FlushServed'
  BY <1>1, <1>6, <1>7, <1>14 DEF FlushServed, Taken, Gone
<1>16. ShutdownServed'
  BY <1>1, <1>6, <1>7, <1>14 DEF ShutdownServed, Taken
<1> QED BY <1>8, <1>9, <1>10, <1>11, <1>13, <1>15, <1>16

(* Whoever sleeps is notified of a full batch. *)
LEMMA WakeStep ==
  ASSUME PipelineInv, NEW t \in Threads, Wake(t)
  PROVE  PipelineInv'
<1> USE DEF Wake
<1>1. Typed'
  <2>1. CallersTyped'
    BY DEF Typed, CallersTyped, BuffersTyped
  <2>2. BuffersTyped'
    BY DEF Typed, BuffersTyped
  <2>3. ControlTyped'
    BY DEF Typed, ControlTyped
  <2>4. WorkerTyped'
    BY DEF Typed, WorkerTyped
  <2> QED BY <2>1, <2>2, <2>3, <2>4 DEF Typed
<1>2. OneOpener'
  BY DEF Typed, CallersTyped, WorkerTyped, OneOpener
<1>3. GatesShut'
  BY DEF Typed, CallersTyped, WorkerTyped, OneOpener, GatesShut
<1>4. Sleepers'
  BY DEF Typed, CallersTyped, ControlTyped, WorkerTyped, Sleepers, NobodyOversleeps
<1>5. Numbered'
  BY DEF Typed, CallersTyped, BuffersTyped, WorkerTyped, Numbered, Pending
<1>6. CycleCount'
  BY DEF Typed, CallersTyped, ControlTyped, WorkerTyped, OneOpener, CycleCount, StopFlag
<1>7. HandEmpty'
  BY DEF Typed, CallersTyped, WorkerTyped, OneOpener, HandEmpty, StopFlag
<1>8. StopFlag'
  BY DEF Typed, CallersTyped, ControlTyped, WorkerTyped, OneOpener, StopFlag
<1>9. FlushServed'
  BY DEF Typed, CallersTyped, BuffersTyped, ControlTyped, WorkerTyped, CycleCount, FlushServed, Taken, Gone
<1>10. ShutdownServed'
  BY DEF Typed, CallersTyped, ControlTyped, WorkerTyped, OneOpener, StopFlag, ShutdownServed, Taken
<1> QED BY <1>1, <1>2, <1>3, <1>4, <1>5, <1>6, <1>7, <1>8, <1>9, <1>10

(* A flush waits for a cycle that has not started. *)
LEMMA AskStep ==
  ASSUME PipelineInv, NEW t \in Threads, Ask(t)
  PROVE  PipelineInv'
<1> USE DEF Ask
<1>1. Typed'
  <2>1. CallersTyped'
    BY PendingIsPushed DEF Typed, CallersTyped, ControlTyped
  <2>2. BuffersTyped'
    BY DEF Typed, BuffersTyped
  <2>3. ControlTyped'
    BY DEF Typed, ControlTyped
  <2>4. WorkerTyped'
    BY DEF Typed, WorkerTyped
  <2> QED BY <2>1, <2>2, <2>3, <2>4 DEF Typed
<1>2. OneOpener'
  BY DEF Typed, CallersTyped, WorkerTyped, OneOpener
<1>3. GatesShut'
  BY DEF Typed, CallersTyped, WorkerTyped, OneOpener, GatesShut
<1>4. Sleepers'
  BY DEF Typed, CallersTyped, ControlTyped, WorkerTyped, Sleepers, NobodyOversleeps
<1>5. Numbered'
  BY PendingIsPushed DEF Typed, CallersTyped, Numbered
<1>6. CycleCount'
  BY DEF Typed, CallersTyped, ControlTyped, WorkerTyped, OneOpener, CycleCount, StopFlag
<1>7. HandEmpty'
  BY DEF Typed, CallersTyped, WorkerTyped, OneOpener, HandEmpty, StopFlag
<1>8. StopFlag'
  BY DEF Typed, CallersTyped, ControlTyped, WorkerTyped, OneOpener, StopFlag
<1>9. FlushServed'
  <2>1. /\ control'.started = control.started /\ control'.generation = control.generation
        /\ control.started \in Nat /\ control.generation \in Nat
    BY DEF Typed, ControlTyped
  <2>2. target'[t] > control.started /\ target'[t] > control.generation
    BY <2>1 DEF Typed, CallersTyped, CycleCount
  <2>3. \A u \in Threads \ {t} : pc'[u] = pc[u] /\ target'[u] = target[u] /\ asked'[u] = asked[u]
    BY DEF Typed, CallersTyped
  <2> QED BY <2>1, <2>2, <2>3 DEF Typed, CallersTyped, FlushServed, Taken, Gone
<1>10. ShutdownServed'
  BY DEF Typed, CallersTyped, ControlTyped, WorkerTyped, OneOpener, StopFlag, ShutdownServed, Taken
<1> QED BY <1>1, <1>2, <1>3, <1>4, <1>5, <1>6, <1>7, <1>8, <1>9, <1>10

(* A flush goes to sleep only while its cycle is to come. *)
LEMMA ServedStep ==
  ASSUME PipelineInv, NEW t \in Threads, Served(t)
  PROVE  PipelineInv'
<1> USE DEF Served
<1>1. Typed'
  <2>1. CallersTyped'
    <3>1. CASE pc' = pc
      BY <3>1 DEF Typed, CallersTyped
    <3>2. CASE pc' # pc
      BY <3>2 DEF Typed, CallersTyped
    <3> QED BY <3>1, <3>2
  <2>2. BuffersTyped'
    BY DEF Typed, BuffersTyped
  <2>3. ControlTyped'
    BY DEF Typed, ControlTyped
  <2>4. WorkerTyped'
    BY DEF Typed, WorkerTyped
  <2> QED BY <2>1, <2>2, <2>3, <2>4 DEF Typed
<1>2. OneOpener'
  BY DEF Typed, CallersTyped, WorkerTyped, OneOpener
<1>3. GatesShut'
  BY DEF Typed, CallersTyped, WorkerTyped, OneOpener, GatesShut
<1>4. Sleepers'
  BY DEF Typed, CallersTyped, ControlTyped, WorkerTyped, Sleepers, NobodyOversleeps
<1>5. Numbered'
  BY DEF Typed, CallersTyped, BuffersTyped, WorkerTyped, Numbered, Pending
<1>6. CycleCount'
  BY DEF Typed, CallersTyped, ControlTyped, WorkerTyped, OneOpener, CycleCount, StopFlag
<1>7. HandEmpty'
  BY DEF Typed, CallersTyped, WorkerTyped, OneOpener, HandEmpty, StopFlag
<1>8. StopFlag'
  BY DEF Typed, CallersTyped, ControlTyped, WorkerTyped, OneOpener, StopFlag
<1>9. FlushServed'
  <2>1. \A u \in Threads :
          pc'[u] = "flush" => pc[u] = "flush" /\ asked'[u] = asked[u] /\ target'[u] = target[u]
    BY DEF Typed, CallersTyped
  <2> QED BY <2>1 DEF FlushServed, Taken, Gone
<1>10. ShutdownServed'
  BY DEF Typed, CallersTyped, ControlTyped, WorkerTyped, OneOpener, StopFlag, ShutdownServed, Taken
<1> QED BY <1>1, <1>2, <1>3, <1>4, <1>5, <1>6, <1>7, <1>8, <1>9, <1>10

(* A flush may give up. *)
LEMMA GiveUpStep ==
  ASSUME PipelineInv, NEW t \in Threads, GiveUp(t)
  PROVE  PipelineInv'
<1> USE DEF GiveUp
<1>1. Typed'
  <2>1. CallersTyped'
    BY DEF Typed, CallersTyped, BuffersTyped
  <2>2. BuffersTyped'
    BY DEF Typed, BuffersTyped
  <2>3. ControlTyped'
    BY DEF Typed, ControlTyped
  <2>4. WorkerTyped'
    BY DEF Typed, WorkerTyped
  <2> QED BY <2>1, <2>2, <2>3, <2>4 DEF Typed
<1>2. OneOpener'
  BY DEF Typed, CallersTyped, WorkerTyped, OneOpener
<1>3. GatesShut'
  BY DEF Typed, CallersTyped, WorkerTyped, OneOpener, GatesShut
<1>4. Sleepers'
  BY DEF Typed, CallersTyped, ControlTyped, WorkerTyped, Sleepers, NobodyOversleeps
<1>5. Numbered'
  BY DEF Typed, CallersTyped, BuffersTyped, WorkerTyped, Numbered, Pending
<1>6. CycleCount'
  BY DEF Typed, CallersTyped, ControlTyped, WorkerTyped, OneOpener, CycleCount, StopFlag
<1>7. HandEmpty'
  BY DEF Typed, CallersTyped, WorkerTyped, OneOpener, HandEmpty, StopFlag
<1>8. StopFlag'
  BY DEF Typed, CallersTyped, ControlTyped, WorkerTyped, OneOpener, StopFlag
<1>9. FlushServed'
  <2>1. \A u \in Threads :
          pc'[u] = "flush" => pc[u] = "flush" /\ asked'[u] = asked[u] /\ target'[u] = target[u]
    BY DEF Typed, CallersTyped
  <2> QED BY <2>1 DEF FlushServed, Taken, Gone
<1>10. ShutdownServed'
  BY DEF Typed, CallersTyped, ControlTyped, WorkerTyped, OneOpener, StopFlag, ShutdownServed, Taken
<1> QED BY <1>1, <1>2, <1>3, <1>4, <1>5, <1>6, <1>7, <1>8, <1>9, <1>10

(* Whoever closes a gate opens none. *)
LEMMA CloseStep ==
  ASSUME PipelineInv, NEW t \in Threads, Close(t)
  PROVE  PipelineInv'
<1> USE DEF Close
<1>1. Typed'
  <2>1. CallersTyped'
    <3>1. (IF control.shutdown THEN {} ELSE Pending) \in SUBSET Nat
      BY PendingIsPushed
    <3>2. gate' \in [Buffered -> BOOLEAN]
      BY DEF Typed, CallersTyped
    <3>3. pc' \in [Threads -> Labels]
      BY DEF Typed, CallersTyped
    <3>4. asked' \in [Threads -> SUBSET Nat]
      BY <3>1 DEF Typed, CallersTyped
    <3> QED BY <3>2, <3>3, <3>4 DEF Typed, CallersTyped
  <2>2. BuffersTyped'
    BY DEF Typed, BuffersTyped
  <2>3. ControlTyped'
    BY DEF Typed, ControlTyped
  <2>4. WorkerTyped'
    BY DEF Typed, WorkerTyped
  <2> QED BY <2>1, <2>2, <2>3, <2>4 DEF Typed
<1>2. OneOpener'
  BY DEF Typed, CallersTyped, WorkerTyped, OneOpener
<1>3. GatesShut'
  BY DEF Typed, CallersTyped, WorkerTyped, OneOpener, GatesShut
<1>4. Sleepers'
  BY DEF Typed, CallersTyped, ControlTyped, WorkerTyped, Sleepers, NobodyOversleeps
<1>5. Numbered'
  BY PendingIsPushed DEF Typed, CallersTyped, ControlTyped, Numbered
<1>6. CycleCount'
  BY DEF Typed, CallersTyped, ControlTyped, WorkerTyped, OneOpener, CycleCount, StopFlag
<1>7. HandEmpty'
  BY DEF Typed, CallersTyped, WorkerTyped, OneOpener, HandEmpty, StopFlag
<1>8. StopFlag'
  BY DEF Typed, CallersTyped, ControlTyped, WorkerTyped, OneOpener, StopFlag
<1>9. FlushServed'
  <2>1. \A u \in Threads : pc'[u] = "flush" => pc[u] = "flush" /\ asked'[u] = asked[u]
    BY DEF Typed, CallersTyped
  <2> QED BY <2>1 DEF FlushServed, Taken, Gone
<1>10. ShutdownServed'
  BY DEF Typed, CallersTyped, ControlTyped, WorkerTyped, OneOpener, StopFlag, ShutdownServed, Taken
<1> QED BY <1>1, <1>2, <1>3, <1>4, <1>5, <1>6, <1>7, <1>8, <1>9, <1>10

(* Whoever sleeps is notified of the shutdown. *)
LEMMA SignalStep ==
  ASSUME PipelineInv, NEW t \in Threads, Signal(t)
  PROVE  PipelineInv'
<1> USE DEF Signal
<1>1. Typed'
  <2>1. CallersTyped'
    BY DEF Typed, CallersTyped, BuffersTyped
  <2>2. BuffersTyped'
    BY DEF Typed, BuffersTyped
  <2>3. ControlTyped'
    BY DEF Typed, ControlTyped
  <2>4. WorkerTyped'
    BY DEF Typed, WorkerTyped
  <2> QED BY <2>1, <2>2, <2>3, <2>4 DEF Typed
<1>2. OneOpener'
  BY DEF Typed, CallersTyped, WorkerTyped, OneOpener
<1>3. GatesShut'
  BY DEF Typed, CallersTyped, WorkerTyped, OneOpener, GatesShut
<1>4. Sleepers'
  BY DEF Typed, CallersTyped, ControlTyped, WorkerTyped, Sleepers, NobodyOversleeps
<1>5. Numbered'
  BY DEF Typed, CallersTyped, BuffersTyped, WorkerTyped, Numbered, Pending
<1>6. CycleCount'
  BY DEF Typed, CallersTyped, ControlTyped, WorkerTyped, OneOpener, CycleCount, StopFlag
<1>7. HandEmpty'
  BY DEF Typed, CallersTyped, WorkerTyped, OneOpener, HandEmpty, StopFlag
<1>8. StopFlag'
  BY DEF Typed, CallersTyped, ControlTyped, WorkerTyped, OneOpener, StopFlag
<1>9. FlushServed'
  <2>1. /\ control'.started = control.started
        /\ control'.generation = control.generation
    BY DEF Typed, ControlTyped
  <2>2. \A u \in Threads : pc'[u] = "flush" => pc[u] = "flush" /\ asked'[u] = asked[u]
    BY DEF Typed, CallersTyped
  <2> QED BY <2>1, <2>2 DEF FlushServed, Taken, Gone
<1>10. ShutdownServed'
  BY DEF Typed, CallersTyped, ControlTyped, WorkerTyped, OneOpener, StopFlag, ShutdownServed, Taken
<1> QED BY <1>1, <1>2, <1>3, <1>4, <1>5, <1>6, <1>7, <1>8, <1>9, <1>10

(* A second shutdown asks for nothing. *)
LEMMA TakeHandleStep ==
  ASSUME PipelineInv, NEW t \in Threads, TakeHandle(t)
  PROVE  PipelineInv'
<1> USE DEF TakeHandle
<1>1. Typed'
  <2>1. CallersTyped'
    BY DEF Typed, CallersTyped, BuffersTyped
  <2>2. BuffersTyped'
    BY DEF Typed, BuffersTyped
  <2>3. ControlTyped'
    BY DEF Typed, ControlTyped
  <2>4. WorkerTyped'
    BY DEF Typed, WorkerTyped
  <2> QED BY <2>1, <2>2, <2>3, <2>4 DEF Typed
<1>2. OneOpener'
  BY DEF Typed, CallersTyped, WorkerTyped, OneOpener
<1>3. GatesShut'
  BY DEF Typed, CallersTyped, WorkerTyped, OneOpener, GatesShut
<1>4. Sleepers'
  BY DEF Typed, CallersTyped, ControlTyped, WorkerTyped, Sleepers, NobodyOversleeps
<1>5. Numbered'
  BY DEF Typed, CallersTyped, BuffersTyped, WorkerTyped, Numbered, Pending
<1>6. CycleCount'
  BY DEF Typed, CallersTyped, ControlTyped, WorkerTyped, OneOpener, CycleCount, StopFlag
<1>7. HandEmpty'
  BY DEF Typed, CallersTyped, WorkerTyped, OneOpener, HandEmpty, StopFlag
<1>8. StopFlag'
  BY DEF Typed, CallersTyped, ControlTyped, WorkerTyped, OneOpener, StopFlag
<1>9. FlushServed'
  <2>1. \A u \in Threads :
          pc'[u] = "flush" => pc[u] = "flush" /\ asked'[u] = asked[u]
    BY DEF Typed, CallersTyped
  <2> QED BY <2>1 DEF FlushServed, Taken, Gone
<1>10. ShutdownServed'
  BY DEF Typed, CallersTyped, ControlTyped, WorkerTyped, OneOpener, StopFlag, ShutdownServed, Taken
<1> QED BY <1>1, <1>2, <1>3, <1>4, <1>5, <1>6, <1>7, <1>8, <1>9, <1>10

(* Joining changes nothing the worker does. *)
LEMMA JoinStep ==
  ASSUME PipelineInv, NEW t \in Threads, Join(t)
  PROVE  PipelineInv'
<1> USE DEF Join
<1>1. Typed'
  <2>1. CallersTyped'
    BY DEF Typed, CallersTyped, BuffersTyped
  <2>2. BuffersTyped'
    BY DEF Typed, BuffersTyped
  <2>3. ControlTyped'
    BY DEF Typed, ControlTyped
  <2>4. WorkerTyped'
    BY DEF Typed, WorkerTyped
  <2> QED BY <2>1, <2>2, <2>3, <2>4 DEF Typed
<1>2. OneOpener'
  BY DEF Typed, CallersTyped, WorkerTyped, OneOpener
<1>3. GatesShut'
  BY DEF Typed, CallersTyped, WorkerTyped, OneOpener, GatesShut
<1>4. Sleepers'
  BY DEF Typed, CallersTyped, ControlTyped, WorkerTyped, Sleepers, NobodyOversleeps
<1>5. Numbered'
  BY DEF Typed, CallersTyped, BuffersTyped, WorkerTyped, Numbered, Pending
<1>6. CycleCount'
  BY DEF Typed, CallersTyped, ControlTyped, WorkerTyped, OneOpener, CycleCount, StopFlag
<1>7. HandEmpty'
  BY DEF Typed, CallersTyped, WorkerTyped, OneOpener, HandEmpty, StopFlag
<1>8. StopFlag'
  BY DEF Typed, CallersTyped, ControlTyped, WorkerTyped, OneOpener, StopFlag
<1>9. FlushServed'
  <2>1. \A u \in Threads :
          pc'[u] = "flush" => pc[u] = "flush" /\ asked'[u] = asked[u]
    BY DEF Typed, CallersTyped
  <2> QED BY <2>1 DEF FlushServed, Taken, Gone
<1>10. ShutdownServed'
  BY DEF Typed, CallersTyped, ControlTyped, WorkerTyped, OneOpener, StopFlag, ShutdownServed, Taken
<1> QED BY <1>1, <1>2, <1>3, <1>4, <1>5, <1>6, <1>7, <1>8, <1>9, <1>10

(* shutdown returns. *)
LEMMA ReturnStep ==
  ASSUME PipelineInv, NEW t \in Threads, Return(t)
  PROVE  PipelineInv'
<1> USE DEF Return
<1>1. Typed'
  <2>1. CallersTyped'
    BY DEF Typed, CallersTyped, BuffersTyped
  <2>2. BuffersTyped'
    BY DEF Typed, BuffersTyped
  <2>3. ControlTyped'
    BY DEF Typed, ControlTyped
  <2>4. WorkerTyped'
    BY DEF Typed, WorkerTyped
  <2> QED BY <2>1, <2>2, <2>3, <2>4 DEF Typed
<1>2. OneOpener'
  BY DEF Typed, CallersTyped, WorkerTyped, OneOpener
<1>3. GatesShut'
  BY DEF Typed, CallersTyped, WorkerTyped, OneOpener, GatesShut
<1>4. Sleepers'
  BY DEF Typed, CallersTyped, ControlTyped, WorkerTyped, Sleepers, NobodyOversleeps
<1>5. Numbered'
  BY DEF Typed, CallersTyped, BuffersTyped, WorkerTyped, Numbered, Pending
<1>6. CycleCount'
  BY DEF Typed, CallersTyped, ControlTyped, WorkerTyped, OneOpener, CycleCount, StopFlag
<1>7. HandEmpty'
  BY DEF Typed, CallersTyped, WorkerTyped, OneOpener, HandEmpty, StopFlag
<1>8. StopFlag'
  BY DEF Typed, CallersTyped, ControlTyped, WorkerTyped, OneOpener, StopFlag
<1>9. FlushServed'
  <2>1. \A u \in Threads :
          pc'[u] = "flush" => pc[u] = "flush" /\ asked'[u] = asked[u]
    BY DEF Typed, CallersTyped
  <2> QED BY <2>1 DEF FlushServed, Taken, Gone
<1>10. ShutdownServed'
  BY DEF Typed, CallersTyped, ControlTyped, WorkerTyped, OneOpener, StopFlag, ShutdownServed, Taken
<1> QED BY <1>1, <1>2, <1>3, <1>4, <1>5, <1>6, <1>7, <1>8, <1>9, <1>10

(* The worker sleeps only while nothing is due. *)
LEMMA LookStep ==
  ASSUME PipelineInv, Look
  PROVE  PipelineInv'
<1> USE DEF Look
<1>1. Typed'
  <2>1. CallersTyped'
    BY DEF Typed, CallersTyped, BuffersTyped
  <2>2. BuffersTyped'
    BY DEF Typed, BuffersTyped
  <2>3. ControlTyped'
    BY DEF Typed, ControlTyped
  <2>4. WorkerTyped'
    BY DEF Typed, ControlTyped, WorkerTyped
  <2> QED BY <2>1, <2>2, <2>3, <2>4 DEF Typed
<1>2. OneOpener'
  BY DEF Typed, CallersTyped, WorkerTyped, OneOpener
<1>3. GatesShut'
  BY DEF Typed, CallersTyped, WorkerTyped, OneOpener, GatesShut
<1>4. Sleepers'
  BY DEF Typed, CallersTyped, ControlTyped, WorkerTyped, Sleepers, NobodyOversleeps
<1>5. Numbered'
  BY DEF Typed, CallersTyped, BuffersTyped, WorkerTyped, Numbered, Pending
<1>6. CycleCount'
  BY DEF Typed, CallersTyped, ControlTyped, WorkerTyped, OneOpener, CycleCount, StopFlag
<1>7. HandEmpty'
  BY DEF Typed, CallersTyped, WorkerTyped, OneOpener, HandEmpty, StopFlag
<1>8. StopFlag'
  BY DEF Typed, CallersTyped, ControlTyped, WorkerTyped, OneOpener, StopFlag
<1>9. FlushServed'
  BY DEF Typed, CallersTyped, BuffersTyped, ControlTyped, WorkerTyped, CycleCount, FlushServed, Taken, Gone
<1>10. ShutdownServed'
  BY DEF Typed, CallersTyped, ControlTyped, WorkerTyped, OneOpener, StopFlag, ShutdownServed, Taken
<1> QED BY <1>1, <1>2, <1>3, <1>4, <1>5, <1>6, <1>7, <1>8, <1>9, <1>10

(* An interval that has elapsed is due too. *)
LEMMA TickStep ==
  ASSUME PipelineInv, Tick
  PROVE  PipelineInv'
<1> USE DEF Tick
<1>1. Typed'
  <2>1. CallersTyped'
    BY DEF Typed, CallersTyped, BuffersTyped
  <2>2. BuffersTyped'
    BY DEF Typed, BuffersTyped
  <2>3. ControlTyped'
    BY DEF Typed, ControlTyped
  <2>4. WorkerTyped'
    BY DEF Typed, ControlTyped, WorkerTyped
  <2> QED BY <2>1, <2>2, <2>3, <2>4 DEF Typed
<1>2. OneOpener'
  BY DEF Typed, CallersTyped, WorkerTyped, OneOpener
<1>3. GatesShut'
  BY DEF Typed, CallersTyped, WorkerTyped, OneOpener, GatesShut
<1>4. Sleepers'
  BY DEF Typed, CallersTyped, ControlTyped, WorkerTyped, Sleepers, NobodyOversleeps
<1>5. Numbered'
  BY DEF Typed, CallersTyped, BuffersTyped, WorkerTyped, Numbered, Pending
<1>6. CycleCount'
  BY DEF Typed, CallersTyped, ControlTyped, WorkerTyped, OneOpener, CycleCount, StopFlag
<1>7. HandEmpty'
  BY DEF Typed, CallersTyped, WorkerTyped, OneOpener, HandEmpty, StopFlag
<1>8. StopFlag'
  BY DEF Typed, CallersTyped, ControlTyped, WorkerTyped, OneOpener, StopFlag
<1>9. FlushServed'
  BY DEF Typed, CallersTyped, BuffersTyped, ControlTyped, WorkerTyped, CycleCount, FlushServed, Taken, Gone
<1>10. ShutdownServed'
  BY DEF Typed, CallersTyped, ControlTyped, WorkerTyped, OneOpener, StopFlag, ShutdownServed, Taken
<1> QED BY <1>1, <1>2, <1>3, <1>4, <1>5, <1>6, <1>7, <1>8, <1>9, <1>10

(* The cycle is started before a buffer is taken. *)
LEMMA ClaimStep ==
  ASSUME PipelineInv, Claim
  PROVE  PipelineInv'
<1> USE DEF Claim
<1>1. Typed'
  <2>1. CallersTyped'
    BY DEF Typed, CallersTyped, BuffersTyped
  <2>2. BuffersTyped'
    BY DEF Typed, BuffersTyped
  <2>3. ControlTyped'
    <3>1. control.started + 1 \in Nat
      BY DEF Typed, ControlTyped
    <3> QED BY <3>1 DEF Typed, ControlTyped
  <2>4. WorkerTyped'
    BY DEF Typed, WorkerTyped
  <2> QED BY <2>1, <2>2, <2>3, <2>4 DEF Typed
<1>2. OneOpener'
  BY DEF Typed, CallersTyped, WorkerTyped, OneOpener
<1>3. GatesShut'
  BY DEF Typed, CallersTyped, WorkerTyped, OneOpener, GatesShut
<1>4. Sleepers'
  BY DEF Typed, CallersTyped, ControlTyped, WorkerTyped, Sleepers, NobodyOversleeps
<1>5. Numbered'
  BY DEF Typed, CallersTyped, BuffersTyped, WorkerTyped, Numbered, Pending
<1>6. CycleCount'
  BY DEF Typed, CallersTyped, ControlTyped, WorkerTyped, OneOpener, CycleCount, StopFlag
<1>7. HandEmpty'
  BY DEF Typed, CallersTyped, WorkerTyped, OneOpener, HandEmpty, StopFlag
<1>8. StopFlag'
  BY DEF Typed, CallersTyped, ControlTyped, WorkerTyped, OneOpener, StopFlag
<1>9. FlushServed'
  BY DEF Typed, CallersTyped, BuffersTyped, ControlTyped, WorkerTyped, CycleCount, FlushServed, Taken, Gone
<1>10. ShutdownServed'
  BY DEF Typed, CallersTyped, ControlTyped, WorkerTyped, OneOpener, StopFlag, ShutdownServed, Taken
<1> QED BY <1>1, <1>2, <1>3, <1>4, <1>5, <1>6, <1>7, <1>8, <1>9, <1>10

(* A buffer is emptied into the worker's hand. *)
LEMMA TakeStep ==
  ASSUME PipelineInv, NEW s \in Buffered, Take(s)
  PROVE  PipelineInv'
<1>1. PICK some \in {{}, {Snapshot}} :
          hand' = [hand EXCEPT ![s] = Range(queue[s]), !["metrics"] = some]
  BY DEF Take
<1>2. \A b \in Buffered : hand'[b] = IF b = s THEN Range(queue[s]) ELSE hand[b]
  BY <1>1 DEF Typed, WorkerTyped
<1>3. \A b \in Buffered : Range(queue'[b]) = IF b = s THEN {} ELSE Range(queue[b])
  BY RangeEmpty DEF Take, Typed, BuffersTyped
<1>4. /\ w = s /\ w' = IF s = "logs" THEN "traces" ELSE "report"
      /\ UNCHANGED <<initialized, pipeline, handle, live, gate, emitted, control, sleeping,
                     pc, target, asked, stopping, backoff, ok>>
  BY DEF Take
<1>5. Typed'
  <2>1. BuffersTyped'
    <3>1. <<>> \in Seq(Nat) /\ Len(<<>>) <= Capacity
      BY DEF PipelineAssumption
    <3> QED BY <3>1 DEF Take, Typed, BuffersTyped
  <2>2. hand' \in [Signals -> SUBSET Nat]
    BY <1>1, RangeOf DEF Typed, BuffersTyped, WorkerTyped
  <2> QED BY <1>4, <2>1, <2>2 DEF Typed, CallersTyped, ControlTyped, WorkerTyped
<1>6. (OneOpener /\ GatesShut /\ Sleepers)'
  BY <1>4 DEF Typed, WorkerTyped, OneOpener, GatesShut, Sleepers, NobodyOversleeps
<1>7. Numbered'
  BY <1>2, <1>3, <1>4 DEF Numbered
<1>8. (CycleCount /\ HandEmpty /\ StopFlag)'
  BY <1>4 DEF CycleCount, HandEmpty, StopFlag
<1>9. \A b \in Buffered :
          /\ Range(queue'[b]) \subseteq Range(queue[b])
          /\ hand'[b] \subseteq hand[b] \cup Range(queue[b])
          /\ b = s => Range(queue'[b]) = {}
  BY <1>2, <1>3
<1>10. FlushServed'
  BY <1>4, <1>9 DEF FlushServed, Taken, Gone
<1>11. ShutdownServed'
  BY <1>4, <1>9 DEF ShutdownServed, Taken
<1> QED BY <1>5, <1>6, <1>7, <1>8, <1>10, <1>11

(* Reported drops are not records. *)
LEMMA ReportDropsStep ==
  ASSUME PipelineInv, NEW s \in Buffered, ReportDrops(s)
  PROVE  PipelineInv'
<1> USE DEF ReportDrops
<1>1. Typed'
  <2>1. CallersTyped'
    BY DEF Typed, CallersTyped, BuffersTyped
  <2>2. BuffersTyped'
    BY DEF Typed, BuffersTyped
  <2>3. ControlTyped'
    BY DEF Typed, ControlTyped
  <2>4. WorkerTyped'
    BY DEF Typed, WorkerTyped
  <2> QED BY <2>1, <2>2, <2>3, <2>4 DEF Typed
<1>2. OneOpener'
  BY DEF Typed, CallersTyped, WorkerTyped, OneOpener
<1>3. GatesShut'
  BY DEF Typed, CallersTyped, WorkerTyped, OneOpener, GatesShut
<1>4. Sleepers'
  BY DEF Typed, CallersTyped, ControlTyped, WorkerTyped, Sleepers, NobodyOversleeps
<1>5. Numbered'
  BY DEF Typed, CallersTyped, BuffersTyped, WorkerTyped, Numbered, Pending
<1>6. CycleCount'
  BY DEF Typed, CallersTyped, ControlTyped, WorkerTyped, OneOpener, CycleCount, StopFlag
<1>7. HandEmpty'
  BY DEF Typed, CallersTyped, WorkerTyped, OneOpener, HandEmpty, StopFlag
<1>8. StopFlag'
  BY DEF Typed, CallersTyped, ControlTyped, WorkerTyped, OneOpener, StopFlag
<1>9. FlushServed'
  BY DEF Typed, CallersTyped, BuffersTyped, ControlTyped, WorkerTyped, CycleCount, FlushServed, Taken, Gone
<1>10. ShutdownServed'
  BY DEF Typed, CallersTyped, ControlTyped, WorkerTyped, OneOpener, StopFlag, ShutdownServed, Taken
<1> QED BY <1>1, <1>2, <1>3, <1>4, <1>5, <1>6, <1>7, <1>8, <1>9, <1>10

(* What is posted is pending no longer. *)
LEMMA PostStep ==
  ASSUME PipelineInv, NEW s \in Signals, Post(s)
  PROVE  PipelineInv'
<1> USE DEF Post
<1>1. Typed'
  <2>1. CallersTyped'
    BY DEF Typed, CallersTyped, BuffersTyped
  <2>2. BuffersTyped'
    BY DEF Typed, BuffersTyped
  <2>3. ControlTyped'
    BY DEF Typed, ControlTyped
  <2>4. WorkerTyped'
    BY DEF Typed, WorkerTyped
  <2> QED BY <2>1, <2>2, <2>3, <2>4 DEF Typed
<1>2. OneOpener'
  BY DEF Typed, CallersTyped, WorkerTyped, OneOpener
<1>3. GatesShut'
  BY DEF Typed, CallersTyped, WorkerTyped, OneOpener, GatesShut
<1>4. Sleepers'
  BY DEF Typed, CallersTyped, ControlTyped, WorkerTyped, Sleepers, NobodyOversleeps
<1>5. Numbered'
  BY DEF Typed, CallersTyped, BuffersTyped, WorkerTyped, Numbered, Pending
<1>6. CycleCount'
  BY DEF Typed, CallersTyped, ControlTyped, WorkerTyped, OneOpener, CycleCount, StopFlag
<1>7. HandEmpty'
  BY DEF Typed, CallersTyped, WorkerTyped, OneOpener, HandEmpty, StopFlag
<1>8. StopFlag'
  BY DEF Typed, CallersTyped, ControlTyped, WorkerTyped, OneOpener, StopFlag
<1>9. FlushServed'
  BY DEF Typed, CallersTyped, BuffersTyped, ControlTyped, WorkerTyped, CycleCount, FlushServed, Taken, Gone
<1>10. ShutdownServed'
  BY DEF Typed, CallersTyped, ControlTyped, WorkerTyped, OneOpener, StopFlag, ShutdownServed, Taken
<1> QED BY <1>1, <1>2, <1>3, <1>4, <1>5, <1>6, <1>7, <1>8, <1>9, <1>10

(* A cycle is over when the worker holds nothing. *)
LEMMA FinishStep ==
  ASSUME PipelineInv, Finish
  PROVE  PipelineInv'
<1> USE DEF Finish, CycleOver
<1>1. Typed'
  <2>1. CallersTyped'
    BY DEF Typed, CallersTyped, BuffersTyped
  <2>2. BuffersTyped'
    BY DEF Typed, BuffersTyped
  <2>3. ControlTyped'
    BY DEF Typed, ControlTyped
  <2>4. WorkerTyped'
    BY DEF Typed, WorkerTyped
  <2> QED BY <2>1, <2>2, <2>3, <2>4 DEF Typed
<1>2. OneOpener'
  BY DEF Typed, CallersTyped, WorkerTyped, OneOpener
<1>3. GatesShut'
  BY DEF Typed, CallersTyped, WorkerTyped, OneOpener, GatesShut
<1>4. Sleepers'
  BY DEF Typed, CallersTyped, ControlTyped, WorkerTyped, Sleepers, NobodyOversleeps
<1>5. Numbered'
  BY DEF Typed, CallersTyped, BuffersTyped, WorkerTyped, Numbered, Pending
<1>6. CycleCount'
  BY DEF Typed, CallersTyped, ControlTyped, WorkerTyped, OneOpener, CycleCount, StopFlag
<1>7. HandEmpty'
  BY DEF Typed, CallersTyped, WorkerTyped, OneOpener, HandEmpty, StopFlag
<1>8. StopFlag'
  BY DEF Typed, CallersTyped, ControlTyped, WorkerTyped, OneOpener, StopFlag
<1>9. FlushServed'
  BY DEF Typed, CallersTyped, BuffersTyped, ControlTyped, WorkerTyped, CycleCount, FlushServed, Taken, Gone
<1>10. ShutdownServed'
  BY DEF Typed, CallersTyped, ControlTyped, WorkerTyped, OneOpener, StopFlag, ShutdownServed, Taken
<1> QED BY <1>1, <1>2, <1>3, <1>4, <1>5, <1>6, <1>7, <1>8, <1>9, <1>10

(* The gates go one after the other, and then the worker. *)
LEMMA SentinelStep ==
  ASSUME PipelineInv, Sentinel
  PROVE  PipelineInv'
<1> USE DEF Sentinel
<1>1. Typed'
  <2>1. CallersTyped'
    BY DEF Typed, CallersTyped, BuffersTyped
  <2>2. BuffersTyped'
    BY DEF Typed, BuffersTyped
  <2>3. ControlTyped'
    BY DEF Typed, ControlTyped
  <2>4. WorkerTyped'
    BY DEF Typed, WorkerTyped
  <2> QED BY <2>1, <2>2, <2>3, <2>4 DEF Typed
<1>2. OneOpener'
  BY DEF Typed, CallersTyped, WorkerTyped, OneOpener
<1>3. GatesShut'
  BY DEF Typed, CallersTyped, WorkerTyped, OneOpener, GatesShut
<1>4. Sleepers'
  BY DEF Typed, CallersTyped, ControlTyped, WorkerTyped, Sleepers, NobodyOversleeps
<1>5. Numbered'
  BY DEF Typed, CallersTyped, BuffersTyped, WorkerTyped, Numbered, Pending
<1>6. CycleCount'
  BY DEF Typed, CallersTyped, ControlTyped, WorkerTyped, OneOpener, CycleCount, StopFlag
<1>7. HandEmpty'
  BY DEF Typed, CallersTyped, WorkerTyped, OneOpener, HandEmpty, StopFlag
<1>8. StopFlag'
  BY DEF Typed, CallersTyped, ControlTyped, WorkerTyped, OneOpener, StopFlag
<1>9. FlushServed'
  BY DEF Typed, CallersTyped, BuffersTyped, ControlTyped, WorkerTyped, CycleCount, FlushServed, Taken, Gone
<1>10. ShutdownServed'
  BY DEF Typed, CallersTyped, ControlTyped, WorkerTyped, OneOpener, StopFlag, ShutdownServed, Taken
<1> QED BY <1>1, <1>2, <1>3, <1>4, <1>5, <1>6, <1>7, <1>8, <1>9, <1>10

-----------------------------------------------------------------------------
(* Every step keeps the invariant. *)
LEMMA PipelineStep == PipelineInv /\ [Next]_vars => PipelineInv'
<1> SUFFICES ASSUME PipelineInv, [Next]_vars PROVE PipelineInv'
  OBVIOUS
<1>1. CASE UNCHANGED vars
  BY <1>1 DEF vars, Typed, CallersTyped, BuffersTyped, ControlTyped, WorkerTyped, OneOpener, GatesShut, Sleepers, NobodyOversleeps, Numbered,
       CycleCount, HandEmpty, StopFlag, FlushServed, ShutdownServed, Taken, Gone
<1> HIDE DEF PipelineInv
<1>2. ASSUME NEW t \in Threads, Caller(t) PROVE PipelineInv'
  BY <1>2, Init1Step, SpawnStep, InstallStep, OpenStep, EnterStep, PushStep, WakeStep,
     AskStep, ServedStep, GiveUpStep, CloseStep, SignalStep, TakeHandleStep, JoinStep,
     ReturnStep DEF Caller
<1>3. CASE Cycle
  BY <1>3, LookStep, ClaimStep, FinishStep, SentinelStep, TakeStep, ReportDropsStep,
     PostStep DEF Cycle
<1>4. CASE Tick
  BY <1>4, TickStep
<1> QED BY <1>1, <1>2, <1>3, <1>4 DEF Next

(* The invariant of the pipeline: every caller, the worker, the gates, the *)
(* buffers and the cycle counters, together.                               *)
THEOREM PipelineInvariant == Spec => []PipelineInv
<1> HIDE DEF PipelineInv
<1> QED BY InitPipeline, PipelineStep, PTL DEF Spec

(* flush(): whatever was recorded before the call is no longer pending     *)
(* when its cycle is over, for any number of callers recording, flushing   *)
(* and shutting down meanwhile.                                            *)
THEOREM FlushIsServed == Spec => []FlushDrains
<1>1. PipelineInv => FlushDrains
  BY DEF Typed, CallersTyped, FlushServed, Gone, Taken, FlushDrains, Pending
<1> HIDE DEF PipelineInv
<1> QED BY <1>1, PipelineInvariant, PTL

(* shutdown(): so it is when the worker it joined ended well.              *)
THEOREM ShutdownIsServed == Spec => []ShutdownDrains
<1>1. PipelineInv => ShutdownDrains
  BY DEF Typed, HandEmpty, StopFlag, ShutdownServed, Taken, ShutdownDrains, Pending
<1> HIDE DEF PipelineInv
<1> QED BY <1>1, PipelineInvariant, PTL

(* The condition variable: every change that ends a wait notifies, so      *)
(* nobody sleeps through it.                                               *)
THEOREM SleepIsJustified == Spec => []NobodyOversleeps
<1>1. PipelineInv => NobodyOversleeps
  BY DEF Sleepers
<1> HIDE DEF PipelineInv
<1> QED BY <1>1, PipelineInvariant, PTL

(* The sentinel: no gate the worker served outlives it. *)
THEOREM GatesGoDown == Spec => []GatesFollowWorker
<1>1. PipelineInv => GatesFollowWorker
  BY DEF GatesShut, GatesFollowWorker
<1> HIDE DEF PipelineInv
<1> QED BY <1>1, PipelineInvariant, PTL

=============================================================================
