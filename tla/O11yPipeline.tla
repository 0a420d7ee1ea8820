---------------------------- MODULE O11yPipeline ----------------------------
(***************************************************************************)
(* o11y: the process-wide telemetry pipeline.  Any thread may call init,   *)
(* record a log or a span, flush, or shut telemetry down; one worker       *)
(* thread exports in cycles.  The gates, the two drop-oldest buffers, the  *)
(* control block under its mutex and its condition variable are shared.    *)
(* One action is one critical section or one atomic store.                 *)
(***************************************************************************)
EXTENDS Naturals, Sequences, FiniteSets, Functions

CONSTANTS
    Threads,     \* the callers
    Recorders, Flushers, Stoppers,  \* those that record, flush, shut down
    Worker,      \* the export thread
    Capacity,    \* max_buffered
    MaxBatch,    \* max_batch_size
    MaxRecords,  \* bound on the records pushed
    MaxFlushes,  \* bound on the flushes asked for
    MaxTicks     \* bound on the flush intervals that elapse

ASSUME PipelineAssumption ==
    /\ Worker \notin Threads
    /\ Recorders \cup Flushers \cup Stoppers \subseteq Threads
    /\ Capacity \in Nat /\ MaxBatch \in Nat
    /\ 1 <= MaxBatch /\ MaxBatch <= Capacity
    /\ MaxRecords \in Nat /\ MaxFlushes \in Nat /\ MaxTicks \in Nat

VARIABLES
    initialized,  \* INITIALIZED
    pipeline,     \* whether PIPELINE is set
    handle,       \* whether the worker's JoinHandle is still there to take
    gate,         \* THRESHOLD and TRACING: whether each signal is let in
    queue,        \* the records of each buffer, oldest first
    dropped,      \* the drop tally of each buffer
    control,      \* the worker's instructions and the cycle counters
    sleeping,     \* who waits on the condition variable
    pc, target,   \* each caller: its place, the cycle its flush waits for
    w,            \* where the worker is
    stopping,     \* its shutting_down
    backoff,      \* whether it backs off after a failure
    ok,           \* whether every post of this cycle succeeded
    hand,         \* what it took of each signal and has not posted yet
    tally,        \* the drops it took and has not reported yet
    emitted, flushes, ticks,  \* what the bounds count
    asked,        \* history: what was pending when a call began
    live          \* history: whether the gates opened before a living worker

callers == <<pc, target, asked>>
buffers == <<queue, dropped, emitted>>
worker == <<w, stopping, backoff, ok, hand, tally, ticks>>
global == <<initialized, pipeline, handle, live>>
vars == <<global, gate, buffers, control, sleeping, callers, worker, flushes>>

Buffered == {"logs", "traces"}
Signals == Buffered \cup {"metrics"}
Snapshot == 0   \* what metric::snapshot returned; records are 1, 2, ...

Goto(t, label) == pc' = [pc EXCEPT ![t] = label]

(* The records neither posted nor reported nor discarded. *)
Pending == UNION {Range(queue[s]) \cup hand[s] : s \in Buffered}

(* The worker has begun to shut the gates, or is gone. *)
Ended == {"shutspans", "exited", "dead"}

-----------------------------------------------------------------------------
(* init *)

(* The claim: one caller goes on, and it may find telemetry disabled. *)
Init1(t) ==
    /\ pc[t] = "idle"
    /\ ~initialized
    /\ initialized' = TRUE
    /\ \/ Goto(t, "spawn")
       \/ UNCHANGED pc
    /\ UNCHANGED <<pipeline, handle, live, gate, buffers, control, sleeping,
                   target, asked, worker, flushes>>

(* The worker starts, or the claim is given back. *)
Spawn(t) ==
    /\ pc[t] = "spawn"
    /\ \/ w' = "wait" /\ Goto(t, "install") /\ UNCHANGED initialized
       \/ initialized' = FALSE /\ Goto(t, "idle") /\ UNCHANGED w
    /\ UNCHANGED <<pipeline, handle, live, gate, buffers, control, sleeping,
                   target, asked, stopping, backoff, ok, hand, tally,
                   ticks, flushes>>

Install(t) ==
    /\ pc[t] = "install"
    /\ pipeline' = TRUE /\ handle' = TRUE
    /\ Goto(t, "open")
    /\ UNCHANGED <<initialized, live, gate, buffers, control, sleeping, target, asked, worker, flushes>>

(* gate::open, which is two stores and comes last. *)
Open(t) ==
    /\ \/ /\ pc[t] = "open"
          /\ gate' = [gate EXCEPT !["logs"] = TRUE]
          /\ Goto(t, "openspans")
          /\ UNCHANGED live
       \/ /\ pc[t] = "openspans"
          /\ gate' = [gate EXCEPT !["traces"] = TRUE]
          /\ live' = (w \notin Ended)
          /\ Goto(t, "idle")
    /\ UNCHANGED <<initialized, pipeline, handle, buffers, control, sleeping,
                   target, asked, worker, flushes>>

-----------------------------------------------------------------------------
(* Recording *)

(* The gate lets a record in; log::emit does not ask.  A span passes its   *)
(* gate when it opens and is recorded when it ends.  Without a pipeline    *)
(* the record goes nowhere.                                                *)
Enter(t, s) ==
    /\ pc[t] = "idle"
    /\ gate[s] \/ s = "logs"
    /\ pipeline
    /\ emitted + Cardinality({u \in Threads : pc[u] \in Buffered}) < MaxRecords
    /\ Goto(t, s)
    /\ UNCHANGED <<global, gate, buffers, control, sleeping, target, asked,
                   worker, flushes>>

(* Buffer::push: a full buffer loses its oldest record. *)
Push(t) ==
    /\ pc[t] \in Buffered
    /\ LET s == pc[t]
           full == Len(queue[s]) >= Capacity
           kept == IF full THEN Tail(queue[s]) ELSE queue[s]
       IN  /\ queue' = [queue EXCEPT ![s] = Append(kept, emitted + 1)]
           /\ dropped' = [dropped EXCEPT ![s] = IF full THEN @ + 1 ELSE @]
           /\ Goto(t, IF Len(kept) + 1 = MaxBatch THEN "wake" ELSE "idle")
    /\ emitted' = emitted + 1
    /\ UNCHANGED <<global, gate, control, sleeping, target, asked,
                   worker, flushes>>

(* Mutant: the flag is set but nobody is notified. *)
WakeQuietly(t) ==
    /\ pc[t] = "wake"
    /\ control' = [control EXCEPT !.batch_ready = TRUE]
    /\ Goto(t, "idle")
    /\ UNCHANGED <<global, gate, buffers, sleeping, target, asked,
                   worker, flushes>>

(* wake_if_batched, for the push that reached the threshold. *)
Wake(t) ==
    /\ pc[t] = "wake"
    /\ control' = [control EXCEPT !.batch_ready = TRUE]
    /\ sleeping' = {}
    /\ Goto(t, "idle")
    /\ UNCHANGED <<global, gate, buffers, target, asked, worker,
                   flushes>>

-----------------------------------------------------------------------------
(* flush *)

(* Mutant: the cycle in flight counts. *)
AskCurrent(t) ==
    /\ pc[t] = "idle"
    /\ pipeline /\ ~control.shutdown
    /\ flushes < MaxFlushes
    /\ flushes' = flushes + 1
    /\ target' = [target EXCEPT ![t] = control.generation + 1]
    /\ asked' = [asked EXCEPT ![t] = Pending]
    /\ control' = [control EXCEPT !.flush_requested = TRUE]
    /\ sleeping' = {}
    /\ Goto(t, "flush")
    /\ UNCHANGED <<global, gate, buffers, worker>>

(* The request: the first cycle to start from here on serves it. *)
Ask(t) ==
    /\ pc[t] = "idle"
    /\ pipeline /\ ~control.shutdown
    /\ flushes < MaxFlushes
    /\ flushes' = flushes + 1
    /\ target' = [target EXCEPT ![t] = control.started + 1]
    /\ asked' = [asked EXCEPT ![t] = Pending]
    /\ control' = [control EXCEPT !.flush_requested = TRUE]
    /\ sleeping' = {}
    /\ Goto(t, "flush")
    /\ UNCHANGED <<global, gate, buffers, worker>>

(* The loop: served, shut down, or back to sleep. *)
Served(t) ==
    /\ pc[t] = "flush" /\ t \notin sleeping
    /\ IF control.generation < target[t] /\ ~control.shutdown
       THEN sleeping' = sleeping \cup {t} /\ UNCHANGED <<pc, target, asked>>
       ELSE /\ Goto(t, "idle")
            /\ target' = [target EXCEPT ![t] = 0]
            /\ asked' = [asked EXCEPT ![t] = {}]
            /\ UNCHANGED sleeping
    /\ UNCHANGED <<global, gate, buffers, control, worker, flushes>>

(* A whole timeout passed in one wait: flush gives up. *)
GiveUp(t) ==
    /\ pc[t] = "flush" /\ t \in sleeping
    /\ sleeping' = sleeping \ {t}
    /\ Goto(t, "idle")
    /\ target' = [target EXCEPT ![t] = 0]
    /\ asked' = [asked EXCEPT ![t] = {}]
    /\ UNCHANGED <<global, gate, buffers, control, worker, flushes>>

-----------------------------------------------------------------------------
(* shutdown *)

(* gate::close, which is two stores and comes first. *)
Close(t) ==
    /\ \/ /\ pc[t] = "idle"
          /\ gate' = [gate EXCEPT !["logs"] = FALSE]
          /\ asked' = [asked EXCEPT ![t] = IF control.shutdown THEN {} ELSE Pending]
          /\ Goto(t, "closespans")
       \/ /\ pc[t] = "closespans"
          /\ gate' = [gate EXCEPT !["traces"] = FALSE]
          /\ Goto(t, "signal")
          /\ UNCHANGED asked
    /\ UNCHANGED <<global, buffers, control, sleeping, target, worker,
                   flushes>>

(* Mutant: the worker is asked for one more export only. *)
SignalFlush(t) ==
    /\ pc[t] = "signal"
    /\ IF pipeline
       THEN /\ control' = [control EXCEPT !.flush_requested = TRUE]
            /\ sleeping' = {}
            /\ Goto(t, "take")
            /\ UNCHANGED asked
       ELSE /\ Goto(t, "idle")
            /\ asked' = [asked EXCEPT ![t] = {}]
            /\ UNCHANGED <<control, sleeping>>
    /\ UNCHANGED <<global, gate, buffers, target, worker, flushes>>

(* The flag, or nothing more when no pipeline is installed. *)
Signal(t) ==
    /\ pc[t] = "signal"
    /\ IF pipeline
       THEN /\ control' = [control EXCEPT !.shutdown = TRUE]
            /\ sleeping' = {}
            /\ Goto(t, "take")
            /\ UNCHANGED asked
       ELSE /\ Goto(t, "idle")
            /\ asked' = [asked EXCEPT ![t] = {}]
            /\ UNCHANGED <<control, sleeping>>
    /\ UNCHANGED <<global, gate, buffers, target, worker, flushes>>

(* Whoever takes the handle joins; a second call returns at once. *)
TakeHandle(t) ==
    /\ pc[t] = "take"
    /\ handle' = FALSE
    /\ IF handle
       THEN Goto(t, "join") /\ UNCHANGED asked
       ELSE Goto(t, "idle") /\ asked' = [asked EXCEPT ![t] = {}]
    /\ UNCHANGED <<initialized, pipeline, live, gate, buffers, control,
                   sleeping, target, worker, flushes>>

Join(t) ==
    /\ pc[t] = "join"
    /\ w \in {"exited", "dead"}
    /\ Goto(t, "joined")
    /\ UNCHANGED <<global, gate, buffers, control, sleeping, target,
                   asked, worker, flushes>>

Return(t) ==
    /\ pc[t] = "joined"
    /\ Goto(t, "idle")
    /\ asked' = [asked EXCEPT ![t] = {}]
    /\ UNCHANGED <<global, gate, buffers, control, sleeping, target,
                   worker, flushes>>

-----------------------------------------------------------------------------
(* The worker *)

(* What ends wait() early, besides the shutdown. *)
Due == control.flush_requested \/ (control.batch_ready /\ ~backoff)

(* A look at the instructions in wait(), under the mutex: at first, and    *)
(* after every notification.                                               *)
Look ==
    /\ w = "wait" /\ Worker \notin sleeping
    /\ IF control.shutdown \/ Due
       THEN /\ w' = "claim"
            /\ stopping' = control.shutdown
            /\ UNCHANGED sleeping
       ELSE sleeping' = sleeping \cup {Worker} /\ UNCHANGED <<w, stopping>>
    /\ UNCHANGED <<global, gate, buffers, control, callers, backoff, ok, hand,
                   tally, ticks, flushes>>

(* The interval, lengthened by the backoff, has elapsed. *)
Tick ==
    /\ w = "wait" /\ Worker \in sleeping
    /\ ticks < MaxTicks
    /\ ticks' = ticks + 1
    /\ w' = "claim"
    /\ stopping' = control.shutdown
    /\ sleeping' = sleeping \ {Worker}
    /\ UNCHANGED <<global, gate, buffers, control, callers, backoff, ok, hand,
                   tally, flushes>>

(* The requests are claimed before the buffers are drained. *)
Claim ==
    /\ w = "claim"
    /\ control' = [control EXCEPT !.flush_requested = FALSE,
                                  !.batch_ready = FALSE,
                                  !.started = @ + 1]
    /\ w' = "logs"
    /\ UNCHANGED <<global, gate, buffers, sleeping, callers, stopping, backoff,
                   ok, hand, tally, ticks, flushes>>

(* Buffer::take, of the logs and then of the spans.  metric::snapshot      *)
(* follows, and whether any instrument lives is up to the program.         *)
Take(s) ==
    /\ w = s
    /\ \E some \in IF s = "traces" THEN {{}, {Snapshot}} ELSE {{}} :
           hand' = [hand EXCEPT ![s] = Range(queue[s]), !["metrics"] = some]
    /\ queue' = [queue EXCEPT ![s] = <<>>]
    /\ tally' = [tally EXCEPT ![s] = dropped[s]]
    /\ dropped' = [dropped EXCEPT ![s] = 0]
    /\ w' = IF s = "logs" THEN "traces" ELSE "report"
    /\ UNCHANGED <<global, gate, emitted, control, sleeping, callers, stopping,
                   backoff, ok, ticks, flushes>>

(* report_drops, for each signal that lost something.  The callback may    *)
(* panic, and then the thread unwinds.                                     *)
ReportDrops(s) ==
    /\ w = "report"
    /\ tally[s] > 0
    /\ s = "traces" => tally["logs"] = 0
    /\ tally' = [tally EXCEPT ![s] = 0]
    /\ w' \in {"report", "panic"}
    /\ UNCHANGED <<global, gate, buffers, control, sleeping, callers, stopping,
                   backoff, ok, hand, ticks, flushes>>

(* post: accepted, or refused and reported, which may panic too. *)
Post(s) ==
    /\ w = "report"
    /\ \A b \in Buffered : tally[b] = 0
    /\ hand[s] # {}
    /\ s # "logs" => hand["logs"] = {}
    /\ s = "metrics" => hand["traces"] = {}
    /\ hand' = [hand EXCEPT ![s] = {}]
    /\ \/ UNCHANGED <<w, ok>>
       \/ ok' = FALSE /\ w' \in {"report", "panic"}
    /\ UNCHANGED <<global, gate, buffers, control, sleeping, callers, stopping,
                   backoff, tally, ticks, flushes>>

CycleOver ==
    /\ w = "report"
    /\ \A b \in Buffered : tally[b] = 0
    /\ \A s \in Signals : hand[s] = {}

(* Mutant: the thread stops as soon as it sees the flag. *)
FinishHasty ==
    /\ CycleOver
    /\ backoff' = ~ok /\ ok' = TRUE
    /\ control' = [control EXCEPT !.generation = @ + 1]
    /\ sleeping' = {}
    /\ w' = IF control.shutdown THEN "exit" ELSE "wait"
    /\ UNCHANGED <<global, gate, buffers, callers, stopping, hand, tally, ticks,
                   flushes>>

(* The end of a cycle.  Only a cycle that began for the shutdown is last. *)
Finish ==
    /\ CycleOver
    /\ backoff' = ~ok /\ ok' = TRUE
    /\ control' = [control EXCEPT !.generation = @ + 1]
    /\ sleeping' = {}
    /\ w' = IF stopping THEN "exit" ELSE "wait"
    /\ UNCHANGED <<global, gate, buffers, callers, stopping, hand, tally, ticks,
                   flushes>>

(* Mutant: one of the two gates is left standing. *)
SentinelHalf ==
    /\ \/ /\ w \in {"exit", "panic"}
          /\ gate' = [gate EXCEPT !["logs"] = FALSE]
          /\ w' = "shutspans"
          /\ stopping' = (w = "exit")
       \/ /\ w = "shutspans"
          /\ w' = IF stopping THEN "exited" ELSE "dead"
          /\ UNCHANGED <<gate, stopping>>
    /\ UNCHANGED <<global, buffers, control, sleeping, callers, backoff, ok,
                   hand, tally, ticks, flushes>>

(* Sentinel: however the thread ends, it shuts both gates. *)
Sentinel ==
    /\ \/ /\ w \in {"exit", "panic"}
          /\ gate' = [gate EXCEPT !["logs"] = FALSE]
          /\ w' = "shutspans"
          /\ stopping' = (w = "exit")
       \/ /\ w = "shutspans"
          /\ gate' = [gate EXCEPT !["traces"] = FALSE]
          /\ w' = IF stopping THEN "exited" ELSE "dead"
          /\ UNCHANGED stopping
    /\ UNCHANGED <<global, buffers, control, sleeping, callers, backoff, ok,
                   hand, tally, ticks, flushes>>

-----------------------------------------------------------------------------
Init ==
    /\ initialized = FALSE /\ pipeline = FALSE /\ handle = FALSE
    /\ live = FALSE
    /\ gate = [s \in Buffered |-> FALSE]
    /\ queue = [s \in Buffered |-> <<>>]
    /\ dropped = [s \in Buffered |-> 0]
    /\ emitted = 0 /\ flushes = 0 /\ ticks = 0
    /\ control = [shutdown |-> FALSE, flush_requested |-> FALSE,
                  batch_ready |-> FALSE, started |-> 0, generation |-> 0]
    /\ sleeping = {}
    /\ pc = [t \in Threads |-> "idle"]
    /\ target = [t \in Threads |-> 0]
    /\ asked = [t \in Threads |-> {}]
    /\ w = "unborn" /\ stopping = FALSE /\ backoff = FALSE /\ ok = TRUE
    /\ hand = [s \in Signals |-> {}]
    /\ tally = [s \in Buffered |-> 0]

Caller(t) ==
    \/ Init1(t) \/ Spawn(t) \/ Install(t) \/ Open(t)
    \/ t \in Recorders /\ \E s \in Buffered : Enter(t, s)
    \/ Push(t) \/ Wake(t)
    \/ t \in Flushers /\ Ask(t)
    \/ Served(t) \/ GiveUp(t)
    \/ t \in Stoppers /\ Close(t)
    \/ Signal(t) \/ TakeHandle(t) \/ Join(t) \/ Return(t)

Cycle ==
    \/ Look \/ Claim \/ Finish \/ Sentinel
    \/ \E s \in Buffered : Take(s) \/ ReportDrops(s)
    \/ \E s \in Signals : Post(s)

Next == (\E t \in Threads : Caller(t)) \/ Cycle \/ Tick

Spec == Init /\ [][Next]_vars

(* Steps a thread is bound to take once it has begun a call: a call is not *)
(* begun by fairness, and giving a flush up is left to the clock.          *)
Proceed(t) ==
    \/ Spawn(t) \/ Install(t) \/ Open(t) \/ Push(t) \/ Wake(t) \/ Served(t)
    \/ (pc[t] = "closespans" /\ Close(t))
    \/ Signal(t) \/ TakeHandle(t) \/ Join(t) \/ Return(t)

(* The threads are scheduled, and every post ends within the timeout of    *)
(* the client.                                                             *)
FairSpec ==
    /\ Spec
    /\ WF_vars(Cycle)
    /\ \A t \in Threads : WF_vars(Proceed(t))

-----------------------------------------------------------------------------
(* Properties *)

Labels == {"idle", "spawn", "install", "open", "openspans", "logs", "traces", "wake",
           "flush", "closespans", "signal", "take", "join", "joined"}
Phases == {"unborn", "wait", "claim", "logs", "traces", "report",
           "exit", "panic", "shutspans", "exited", "dead"}
Records == 1 .. MaxRecords

(* Types, and the bounds the code enforces: a buffer never outgrows its    *)
(* capacity, and at most one cycle is started and not finished.            *)
TypeOK ==
    /\ {initialized, pipeline, handle, live, stopping, backoff, ok} \subseteq BOOLEAN
    /\ gate \in [Buffered -> BOOLEAN]
    /\ queue \in [Buffered -> Seq(Records)]
    /\ \A s \in Buffered : Len(queue[s]) <= Capacity
    /\ dropped \in [Buffered -> Nat] /\ tally \in [Buffered -> Nat]
    /\ emitted \in 0 .. MaxRecords /\ flushes \in 0 .. MaxFlushes
    /\ ticks \in 0 .. MaxTicks
    /\ control \in [shutdown : BOOLEAN, flush_requested : BOOLEAN,
                     batch_ready : BOOLEAN, started : Nat, generation : Nat]
    /\ control.started - control.generation \in {0, 1}
    /\ sleeping \subseteq Threads \cup {Worker}
    /\ pc \in [Threads -> Labels] /\ w \in Phases
    /\ target \in [Threads -> Nat]
    /\ hand \in [Signals -> SUBSET (Records \cup {Snapshot})]
    /\ asked \in [Threads -> SUBSET Records]

(* A flush whose cycle is over left nothing behind: every record buffered, *)
(* or held by a cycle already in flight, when flush() was called has been  *)
(* posted, refused with a report, or discarded as the oldest.              *)
FlushDrains ==
    \A t \in Threads :
        (pc[t] = "flush" /\ control.generation >= target[t]) =>
            asked[t] \cap Pending = {}

(* When shutdown() has joined a worker that did not panic, everything that *)
(* was buffered when it was called has been exported or reported, whatever *)
(* cycle was in flight when the flag was set.  (A record that arrives when *)
(* another caller has already set the flag is emitted after a shutdown.)   *)
ShutdownDrains ==
    \A t \in Threads :
        (pc[t] = "joined" /\ w = "exited") => asked[t] \cap Pending = {}

(* Nobody sleeps through what it waits for: not the worker while there is  *)
(* something to export for, not a flush that has been served or shut down. *)
NobodyOversleeps ==
    /\ Worker \in sleeping => ~control.shutdown /\ ~Due
    /\ \A t \in sleeping \cap Threads :
           control.generation < target[t] /\ ~control.shutdown

(* Once the gates have opened before a living worker, a worker that has    *)
(* ended, by shutdown or by a panic, has taken both of them down: no       *)
(* caller fills a buffer nobody drains.                                    *)
GatesFollowWorker ==
    live /\ w \in {"exited", "dead"} => \A s \in Buffered : ~gate[s]

(* flush() and shutdown() return, and neither needs the interval to elapse *)
(* for it, unless the worker panicked: then a flush waits for its timeout. *)
CallsReturn ==
    /\ \A t \in Flushers : pc[t] = "flush" ~> (pc[t] # "flush" \/ w = "dead")
    /\ \A t \in Stoppers : pc[t] = "signal" ~> pc[t] = "idle"

=============================================================================
