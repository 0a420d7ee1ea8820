------------------------------ MODULE AiSession ------------------------------
(* Sessions of the ONNX Runtime: one process starts it, finds its providers *)
(* and builds sessions on several threads.  A session walks a ladder of     *)
(* rungs until one builds.  Builds with TensorRT come one at a time and     *)
(* share a timing cache on disk, which a failed one may leave half written; *)
(* a failure is told apart as out of memory by what the runtime logged on   *)
(* the thread that built.                                                   *)
EXTENDS Naturals, Sequences
Lists == INSTANCE SequencesExt

CONSTANTS
    Loaders,
    Requested,      \* the provider lists asked for
    CoreMlHere,     \* cfg!(target_os = "macos")
    MaxRecords,     \* bound: out-of-memory records of one thread
    MaxExits,       \* bound: ends of the process
    NoLoader

ASSUME SessionAssumption == NoLoader \notin Loaders

VARIABLES
    process,        \* the process: "new", "restarted" by prepare, or "up"
    exits,
    environment,    \* ENVIRONMENT holds one
    offered,        \* WEBGPU
    loading,        \* who holds ENVIRONMENT's lock, loading
    tensorrt_build, \* who holds TENSORRT_BUILD
    timing,         \* the timing cache: "none", "whole" or "torn"
    wounded,        \* a torn one was left by a panic, an exit or a folder
                    \*   that would not be emptied
    out_of_memory,  \* the thread-local counters
    build,          \* per thread: see Resting
    verdict         \* per thread: how its last rung failed

sessionVars == <<process, exits, environment, offered, loading, tensorrt_build,
                 timing, wounded, out_of_memory, build, verdict>>
machineVars == <<process, exits, environment, offered, loading>>
cacheVars == <<tensorrt_build, timing, wounded>>

Resting == [at |-> "rest", rungs |-> << >>, mark |-> 0, ran_out |-> FALSE,
            said |-> FALSE]
NoVerdict == [oom |-> FALSE, own |-> FALSE, cpu |-> FALSE]

-----------------------------------------------------------------------------
(* The ladder. *)

AUTO_ORDER == <<"TensorRT", "CUDA", "CoreML", "WebGPU">>
Detect(cuda, tensorrt) ==
    {a \in Lists!ToSet(AUTO_ORDER) :
        \/ a = "CUDA" /\ cuda
        \/ a = "TensorRT" /\ cuda /\ tensorrt
        \/ a = "CoreML" /\ CoreMlHere
        \/ a = "WebGPU" /\ offered}

UpToCpu(list) ==
    IF \E i \in DOMAIN list : list[i] = "CPU"
      THEN SubSeq(list, 1, Lists!SelectInSeq(list, LAMBDA x : x = "CPU") - 1)
      ELSE list
Expanded(list) ==
    Lists!FlattenSeq([i \in DOMAIN list |->
                        IF list[i] = "Auto" THEN AUTO_ORDER ELSE <<list[i]>>])
Chain(list, supported) ==
    Lists!FoldLeft(LAMBDA kept, a :
                      IF a \in supported /\ ~Lists!Contains(kept, a) THEN Append(kept, a) ELSE kept,
                   << >>, Expanded(UpToCpu(list)))
ladder(list, supported) ==
    LET chain == Chain(list, supported)
    IN [i \in 1 .. Len(chain) + 1 |-> SubSeq(chain, i, Len(chain))]

-----------------------------------------------------------------------------
(* The process: prepare, and the runtime's load. *)

\* On Linux the process replaces itself once, the guard variable set; an
\* exec that fails leaves it running as it was.
Restart ==
    /\ process = "new"
    /\ process' \in {"restarted", "up"}
    /\ UNCHANGED <<exits, environment, offered, loading, cacheVars,
                   out_of_memory, build, verdict>>
Guarded ==
    /\ process = "restarted" /\ process' = "up"
    /\ UNCHANGED <<exits, environment, offered, loading, cacheVars,
                   out_of_memory, build, verdict>>

Free(t) == process = "up" /\ build[t].at = "rest"

\* load_with takes the lock; a second load, and one of a folder with no
\* marker or library, or of a library that will not start, ends there.
Load(t) ==
    /\ Free(t) /\ loading = NoLoader /\ ~environment
    /\ loading' = t
    /\ build' = [build EXCEPT ![t].at = "load"]
    /\ UNCHANGED <<process, exits, environment, offered, cacheVars,
                   out_of_memory, verdict>>
Offer(t) ==                             \* started; the plugin is registered
    /\ build[t].at = "load"
    /\ offered' \in BOOLEAN
    /\ build' = [build EXCEPT ![t].at = "publish"]
    /\ UNCHANGED <<process, exits, environment, loading, cacheVars,
                   out_of_memory, verdict>>
Publish(t) ==
    /\ build[t].at = "publish"
    /\ environment' = TRUE /\ loading' = NoLoader
    /\ build' = [build EXCEPT ![t] = Resting]
    /\ UNCHANGED <<process, exits, offered, cacheVars, out_of_memory, verdict>>
LoadFails(t) ==                         \* an error, or a panic in the runtime
    /\ build[t].at = "load"
    /\ loading' = NoLoader
    /\ build' = [build EXCEPT ![t] = Resting]
    /\ UNCHANGED <<process, exits, environment, offered, cacheVars,
                   out_of_memory, verdict>>

Exit ==
    /\ process = "up" /\ exits < MaxExits
    /\ process' = "new" /\ exits' = exits + 1
    /\ environment' = FALSE /\ offered' = FALSE
    /\ loading' = NoLoader /\ tensorrt_build' = NoLoader
    /\ wounded' = (timing = "torn") /\ UNCHANGED timing
    /\ out_of_memory' = [t \in Loaders |-> 0]
    /\ build' = [t \in Loaders |-> Resting]
    /\ verdict' = [t \in Loaders |-> NoVerdict]

-----------------------------------------------------------------------------
(* session and build. *)

Rung(t) == Head(build[t].rungs)
TensorRtRung(t) == Lists!Contains(Rung(t), "TensorRT")

Session(t) ==
    /\ Free(t)
    /\ \E list \in Requested, cuda, tensorrt \in BOOLEAN :
          build' = [build EXCEPT ![t].at = "walk",
                        ![t].rungs = ladder(list, Detect(cuda, tensorrt))]
    /\ verdict' = [verdict EXCEPT ![t] = NoVerdict]
    /\ UNCHANGED <<machineVars, cacheVars, out_of_memory>>

\* The mark is taken, then the lock if the rung attaches TensorRT.
TryRung(t) ==
    /\ build[t].at = "walk"
    /\ build' = [build EXCEPT ![t].mark = out_of_memory[t], ![t].ran_out = FALSE,
                    ![t].said = FALSE,
                    ![t].at = IF TensorRtRung(t) THEN "wait" ELSE "attempt"]
    /\ UNCHANGED <<machineVars, cacheVars, out_of_memory, verdict>>
Serialize(t) ==
    /\ build[t].at = "wait" /\ tensorrt_build = NoLoader
    /\ tensorrt_build' = t
    /\ build' = [build EXCEPT ![t].at = "attempt"]
    /\ UNCHANGED <<machineVars, timing, wounded, out_of_memory, verdict>>

\* attempt: no environment, a cache folder that cannot be created, or the
\* runtime at work, its options fixed by the rung and the tuning.
Attempt(t) ==
    /\ build[t].at = "attempt" /\ loading = NoLoader
    /\ \E next \in {"failed"} \cup (IF environment THEN {"running"} ELSE {}) :
          build' = [build EXCEPT ![t].at = next]
    /\ UNCHANGED <<machineVars, cacheVars, out_of_memory, verdict>>

\* The runtime logs a failed allocation on the thread that builds, or on a
\* thread that runs a session it has built.
CountEverywhere(t) == [u \in Loaders |-> out_of_memory[u] + 1]
CountOom(t) == [out_of_memory EXCEPT ![t] = @ + 1]
Record(t) ==
    /\ build[t].at \in {"running", "rest"} /\ environment
    /\ out_of_memory[t] < MaxRecords
    /\ out_of_memory' = CountOom(t)
    /\ build' = [build EXCEPT ![t].ran_out = (build[t].at = "running")]
    /\ UNCHANGED <<machineVars, cacheVars, verdict>>

\* TensorRT rewrites the timing cache as its build ends.
Rewrite(t) ==
    /\ build[t].at = "running" /\ TensorRtRung(t)
    /\ timing' = "torn" /\ wounded' = FALSE
    /\ build' = [build EXCEPT ![t].at = "writing"]
    /\ UNCHANGED <<machineVars, tensorrt_build, out_of_memory, verdict>>
Built(t) ==
    /\ \/ build[t].at = "running" /\ ~TensorRtRung(t)
          /\ UNCHANGED <<timing, tensorrt_build>>
       \/ build[t].at = "writing"
          /\ timing' = "whole" /\ tensorrt_build' = NoLoader
    /\ build' = [build EXCEPT ![t] = Resting]
    /\ UNCHANGED <<machineVars, wounded, out_of_memory, verdict>>
RunFails(t) ==
    /\ build[t].at \in {"running", "writing"}
    /\ \E said \in BOOLEAN :
          build' = [build EXCEPT ![t].at = "failed", ![t].said = said]
    /\ UNCHANGED <<machineVars, cacheVars, out_of_memory, verdict>>

\* serialized empties the timing folder before it lets go of the lock; that
\* it could not is swallowed.
DiscardNothing(t) == timing' = timing /\ wounded' = wounded
Discard(t) ==
    IF TensorRtRung(t)
      THEN \/ timing' = "none" /\ wounded' = FALSE
           \/ timing' = timing /\ wounded' = (timing = "torn")
      ELSE UNCHANGED <<timing, wounded>>

\* rung_error, then walk goes on to the next rung or ends with an error.
OutOfMemory(t) ==
    /\ Rung(t) # << >>
    /\ out_of_memory[t] # build[t].mark \/ build[t].said
RungFails(t) ==
    /\ build[t].at = "failed"
    /\ Discard(t)
    /\ tensorrt_build' = IF TensorRtRung(t) THEN NoLoader ELSE tensorrt_build
    /\ verdict' = [verdict EXCEPT ![t] =
                     [oom |-> OutOfMemory(t), cpu |-> Rung(t) = << >>,
                      own |-> build[t].ran_out \/ build[t].said]]
    /\ build' = [build EXCEPT ![t] =
                   IF Len(@.rungs) = 1 THEN Resting
                   ELSE [Resting EXCEPT !.at = "walk", !.rungs = Tail(build[t].rungs)]]
    /\ UNCHANGED <<machineVars, out_of_memory>>

\* A panic in the runtime's builder unwinds through the lock, which the next
\* build takes all the same.
BuildPanics(t) ==
    /\ build[t].at \in {"running", "writing"}
    /\ tensorrt_build' = IF TensorRtRung(t) THEN NoLoader ELSE tensorrt_build
    /\ wounded' = (wounded \/ build[t].at = "writing")
    /\ build' = [build EXCEPT ![t] = Resting]
    /\ UNCHANGED <<machineVars, timing, out_of_memory, verdict>>

SessionInit ==
    /\ process = "new" /\ exits = 0
    /\ environment = FALSE /\ offered = FALSE /\ loading = NoLoader
    /\ tensorrt_build = NoLoader /\ timing = "none" /\ wounded = FALSE
    /\ out_of_memory = [t \in Loaders |-> 0]
    /\ build = [t \in Loaders |-> Resting]
    /\ verdict = [t \in Loaders |-> NoVerdict]

SessionNext ==
    \/ Restart \/ Guarded \/ Exit
    \/ \E t \in Loaders :
          \/ Load(t) \/ Offer(t) \/ Publish(t) \/ LoadFails(t)
          \/ Session(t) \/ TryRung(t) \/ Serialize(t) \/ Attempt(t) \/ Record(t)
          \/ Rewrite(t) \/ Built(t) \/ RunFails(t) \/ RungFails(t) \/ BuildPanics(t)

SessionSpec == SessionInit /\ [][SessionNext]_sessionVars

(* A half-written timing cache is never what the next build starts from: it *)
(* is there only while the build that is writing it holds the lock, or after *)
(* one that could not clean up (serialized, TENSORRT_BUILD).                *)
TimingHealed ==
    timing = "torn" /\ ~wounded =>
        \E t \in Loaders : tensorrt_build = t /\ build[t].at \in {"writing", "failed"}

(* A rung's failure is out of memory exactly when its own build ran out,    *)
(* whatever the other threads' builds and this thread's earlier sessions    *)
(* logged, and never on the CPU (rung_error, OUT_OF_MEMORY).                *)
OomIsOwn ==
    \A t \in Loaders : verdict[t].oom <=> (verdict[t].own /\ ~verdict[t].cpu)

=============================================================================
