----------------------------- MODULE MemoFlight -----------------------------
(***************************************************************************)
(* Memo::get_or_compute and Memo::get_or_compute_async over one handle:    *)
(* the in-flight table (Flight), the shared computation (Call), the leader *)
(* guard and the store they read and fill.                                 *)
(*                                                                         *)
(* A caller is a thread (get_or_compute) or a future (get_or_compute_async)*)
(* that may be dropped at any await.  A step is what the code does between *)
(* two points where another caller can run: one store access, one critical *)
(* section of `calls` or of a call's `outcome`.                            *)
(***************************************************************************)
EXTENDS Naturals, FiniteSets

CONSTANTS
    Callers,        \* the threads and futures that use the handle
    AsyncCallers,   \* those that run get_or_compute_async
    Keys,           \* cache keys
    Types,          \* type fingerprints
    Values,         \* what a computation can return
    CallIds,        \* the heap cells an Arc<Call> can occupy
    BlockingStore,  \* store.path().is_some(): async store access is spawned
    MaxOrphans,     \* bound on spawned writes whose future was dropped
    NoCall, NoOutcome, NoEntry, NoOne, Raw   \* distinct markers

ASSUME FlightAssumption ==
    /\ AsyncCallers \subseteq Callers
    /\ BlockingStore \in BOOLEAN
    /\ MaxOrphans \in Nat
    /\ NoCall \notin CallIds
    /\ NoOne \notin Callers
    /\ Raw \notin Types

VARIABLES
    pc,         \* where each caller is
    key, type,  \* the arguments of its current request
    call,       \* the Arc<Call> it holds, as leader or follower
    out,        \* the leader's own result: what it stores, publishes and returns
    published,  \* Leader::published
    taken,      \* the wakers a publishing leader took out of the call
    calls,      \* Flight::calls
    outcome,    \* Call::outcome
    wakers,     \* Call::wakers
    store,      \* the bytes stored under each key
    tasks,      \* spawn_blocking writes not yet run
    \* History: what the properties need to remember, never read by a guard.
    answers,    \* per call, the results its leader and followers returned
    vanished,   \* per call, whether its leader panicked or was dropped
    faulty      \* whether a caller's last look at the store failed

locals == <<key, type, call, out, published, taken>>
history == <<answers, vanished, faulty>>
vars == <<pc, locals, calls, outcome, wakers, store, tasks, history>>

-----------------------------------------------------------------------------
(* Data. *)

Entry == [fp : Types \cup {Raw}, val : Values]
Ready == [tag : {"Ready"}, entry : Entry]
Failure == [tag : {"Compute", "Encode", "Abandoned"}]
Outcome == Ready \cup Failure
Abandoned == [tag |-> "Abandoned"]
Task == [key : Keys, entry : Entry, by : CallIds, who : Callers \cup {NoOne}]

ASSUME MarkerAssumption == NoOutcome \notin Outcome /\ NoEntry \notin Entry

FlightKeys == Types \X Keys

(* Mutant: one flight per key, whatever its type. *)
flight_key_untyped(t, k) == <<CHOOSE u \in Types : TRUE, k>>

(* flight_key: the fingerprint is part of the key. *)
flight_key(t, k) == <<t, k>>
FK(c) == flight_key(type[c], key[c])

(* header::decode: bytes of another type, or without a header, are a miss. *)
decode(t, e) == e # NoEntry /\ e.fp = t

(* Mutant: a follower reports an encoding failure as a failed computation. *)
resolve_mislabelled(t, o) ==
    IF o.tag = "Ready" /\ ~decode(t, o.entry) THEN Abandoned
    ELSE IF o.tag = "Encode" THEN [tag |-> "Compute"] ELSE o

(* resolve: what a follower makes of the published outcome. *)
resolve(t, o) ==
    IF o.tag = "Ready" /\ ~decode(t, o.entry) THEN Abandoned ELSE o

LeaderPCs == {"recheck", "compute", "set", "setting", "publish", "notify", "drop"}
AbandonPCs == {"abandon", "abnotify"}
FollowerPCs == {"wait", "parked"}
PCs == {"idle", "load", "enter"} \cup LeaderPCs \cup AbandonPCs \cup FollowerPCs

(* An Arc<Call> is freed once neither the table nor a caller (nor, in this *)
(* model's history, an orphaned write) refers to it.                       *)
Free(id) ==
    /\ \A fk \in FlightKeys : calls[fk] # id
    /\ \A c \in Callers : call[c] # id
    /\ \A t \in tasks : t.by # id

Goto(c, label) == pc' = [pc EXCEPT ![c] = label]

(* The caller is done: it drops its Arc<Call> and returns `o`. *)
Return(c, o) ==
    /\ Goto(c, "idle")
    /\ call' = [call EXCEPT ![c] = NoCall]
    /\ answers' = IF call[c] = NoCall THEN answers
                  ELSE [answers EXCEPT ![call[c]] = @ \cup {o}]

-----------------------------------------------------------------------------
(* Requests. *)

(* A caller asks for key k as a value of type t. *)
Start(c, k, t) ==
    /\ pc[c] = "idle"
    /\ Goto(c, "load")
    /\ key' = [key EXCEPT ![c] = k]
    /\ type' = [type EXCEPT ![c] = t]
    /\ UNCHANGED <<call, out, published, taken, calls, outcome, wakers, store,
                   tasks, history>>

(* load_raw / load_async before the flight: a hit returns at once; a miss, *)
(* an undecodable entry and a failed read all go on to the flight.         *)
Load(c) ==
    /\ pc[c] = "load"
    /\ \/ /\ decode(type[c], store[key[c]])
          /\ Goto(c, "idle")
       \/ \E failed \in BOOLEAN :
             /\ failed \/ ~decode(type[c], store[key[c]])
             /\ Goto(c, "enter")
    /\ UNCHANGED <<locals, calls, outcome, wakers, store, tasks, history>>

(* Mutants: the fresh call is not installed; the leader computes at once. *)
EnterAs(c, installed, label) ==
    /\ pc[c] = "enter"
    /\ \/ /\ calls[FK(c)] # NoCall
          /\ call' = [call EXCEPT ![c] = calls[FK(c)]]
          /\ Goto(c, "wait")
          /\ UNCHANGED <<published, calls, outcome, wakers, answers, vanished>>
       \/ /\ calls[FK(c)] = NoCall
          /\ \E id \in CallIds :
                /\ Free(id)
                /\ calls' = IF installed THEN [calls EXCEPT ![FK(c)] = id] ELSE calls
                /\ call' = [call EXCEPT ![c] = id]
                /\ outcome' = [outcome EXCEPT ![id] = NoOutcome]
                /\ wakers' = [wakers EXCEPT ![id] = {}]
                /\ answers' = [answers EXCEPT ![id] = {}]
                /\ vanished' = [vanished EXCEPT ![id] = FALSE]
          /\ published' = [published EXCEPT ![c] = FALSE]
          /\ Goto(c, label)
    /\ UNCHANGED <<key, type, out, taken, store, tasks, faulty>>

EnterUninstalled(c) == EnterAs(c, FALSE, "recheck")
EnterUnchecked(c) == EnterAs(c, TRUE, "compute")

(* Flight::enter, under the `calls` lock: join the running call, or        *)
(* install a fresh one and become its leader.                              *)
Enter(c) ==
    /\ pc[c] = "enter"
    /\ \/ /\ calls[FK(c)] # NoCall
          /\ call' = [call EXCEPT ![c] = calls[FK(c)]]
          /\ Goto(c, "wait")
          /\ UNCHANGED <<published, calls, outcome, wakers, answers, vanished>>
       \/ /\ calls[FK(c)] = NoCall
          /\ \E id \in CallIds :
                /\ Free(id)
                /\ calls' = [calls EXCEPT ![FK(c)] = id]
                /\ call' = [call EXCEPT ![c] = id]
                /\ outcome' = [outcome EXCEPT ![id] = NoOutcome]
                /\ wakers' = [wakers EXCEPT ![id] = {}]
                /\ answers' = [answers EXCEPT ![id] = {}]
                /\ vanished' = [vanished EXCEPT ![id] = FALSE]
          /\ published' = [published EXCEPT ![c] = FALSE]
          /\ Goto(c, "recheck")
    /\ UNCHANGED <<key, type, out, taken, store, tasks, faulty>>

-----------------------------------------------------------------------------
(* Followers. *)

(* Mutant: a future goes to sleep without leaving its waker. *)
WaitUnregistered(c) ==
    /\ pc[c] = "wait"
    /\ \/ /\ outcome[call[c]] # NoOutcome
          /\ Return(c, resolve(type[c], outcome[call[c]]))
       \/ /\ outcome[call[c]] = NoOutcome
          /\ Goto(c, "parked")
          /\ UNCHANGED <<call, answers>>
    /\ UNCHANGED <<key, type, out, published, taken, calls, outcome, wakers,
                   store, tasks, vanished, faulty>>

(* Call::wait and Call::poll, under the `outcome` lock: take the published *)
(* outcome, or go to sleep.  A thread sleeps on the condition variable,    *)
(* which releases the lock; a future leaves its waker, still holding it.   *)
Wait(c) ==
    /\ pc[c] = "wait"
    /\ \/ /\ outcome[call[c]] # NoOutcome
          /\ Return(c, resolve(type[c], outcome[call[c]]))
          /\ UNCHANGED wakers
       \/ /\ outcome[call[c]] = NoOutcome
          /\ Goto(c, "parked")
          /\ wakers' = IF c \in AsyncCallers
                       THEN [wakers EXCEPT ![call[c]] = @ \cup {c}]
                       ELSE wakers
          /\ UNCHANGED <<call, answers>>
    /\ UNCHANGED <<key, type, out, published, taken, calls, outcome, store,
                   tasks, vanished, faulty>>

(* A spurious wake-up of the condition variable, or a spurious poll. *)
SpuriousWake(c) ==
    /\ pc[c] = "parked"
    /\ Goto(c, "wait")
    /\ UNCHANGED <<locals, calls, outcome, wakers, store, tasks, history>>

-----------------------------------------------------------------------------
(* The leader. *)

(* The second look, now that the flight is held. *)
Recheck(c) ==
    /\ pc[c] = "recheck"
    /\ \/ /\ decode(type[c], store[key[c]])
          /\ out' = [out EXCEPT ![c] = [tag |-> "Ready", entry |-> store[key[c]]]]
          /\ Goto(c, "publish")
          /\ UNCHANGED faulty
       \/ \E failed \in BOOLEAN :
             /\ failed \/ ~decode(type[c], store[key[c]])
             /\ faulty' = [faulty EXCEPT ![c] = failed]
             /\ Goto(c, "compute")
             /\ UNCHANGED out
    /\ UNCHANGED <<key, type, call, published, taken, calls, outcome, wakers,
                   store, tasks, answers, vanished>>

(* compute() and encode_or_publish: the closure succeeds and its value is  *)
(* encoded, the closure fails, or the encoding does.                       *)
Compute(c) ==
    /\ pc[c] = "compute"
    /\ \/ \E v \in Values :
             /\ out' = [out EXCEPT ![c] =
                          [tag |-> "Ready", entry |-> [fp |-> type[c], val |-> v]]]
             /\ Goto(c, "set")
       \/ \E failure \in {"Compute", "Encode"} :
             /\ out' = [out EXCEPT ![c] = [tag |-> failure]]
             /\ Goto(c, "publish")
    /\ UNCHANGED <<key, type, call, published, taken, calls, outcome, wakers,
                   store, tasks, history>>

(* store.set: best effort, so a failed or declined write changes nothing. *)
Written(k, e) == store' = [store EXCEPT ![k] = e] \/ UNCHANGED store

(* store.set called inline: a thread always, a future over a memory store. *)
Set(c) ==
    /\ pc[c] = "set"
    /\ ~(BlockingStore /\ c \in AsyncCallers)
    /\ Written(key[c], out[c].entry)
    /\ Goto(c, "publish")
    /\ UNCHANGED <<locals, calls, outcome, wakers, tasks, history>>

(* store_set over a blocking store: the write moves to a blocking task. *)
SpawnSet(c) ==
    /\ pc[c] = "set"
    /\ BlockingStore /\ c \in AsyncCallers
    /\ tasks' = tasks \cup {[key |-> key[c], entry |-> out[c].entry,
                             by |-> call[c], who |-> c]}
    /\ Goto(c, "setting")
    /\ UNCHANGED <<locals, calls, outcome, wakers, store, history>>

(* The blocking task runs, whether or not a future still awaits it. *)
RunTask(t) ==
    /\ Written(t.key, t.entry)
    /\ tasks' = tasks \ {t}
    /\ pc' = IF t.who = NoOne THEN pc ELSE [pc EXCEPT ![t.who] = "publish"]
    /\ UNCHANGED <<locals, calls, outcome, wakers, history>>

(* Call::publish up to the unlock: the first outcome sticks, and the       *)
(* wakers leave with it.                                                   *)
CallPublish(c, o) ==
    IF outcome[call[c]] = NoOutcome
    THEN /\ outcome' = [outcome EXCEPT ![call[c]] = o]
         /\ taken' = [taken EXCEPT ![c] = wakers[call[c]]]
         /\ wakers' = [wakers EXCEPT ![call[c]] = {}]
    ELSE taken' = [taken EXCEPT ![c] = {}] /\ UNCHANGED <<outcome, wakers>>

(* Call::publish after the unlock: notify_all, and every taken waker. *)
Woken(c) ==
    {d \in Callers : /\ pc[d] = "parked" /\ call[d] = call[c]
                     /\ d \in AsyncCallers => d \in taken[c]}

Wakes(c, label) ==
    pc' = [d \in Callers |-> IF d = c THEN label
                             ELSE IF d \in Woken(c) THEN "wait" ELSE pc[d]]

Publish(c) ==
    /\ pc[c] = "publish"
    /\ CallPublish(c, out[c])
    /\ Goto(c, "notify")
    /\ UNCHANGED <<key, type, call, out, published, calls, store, tasks, history>>

Notify(c) ==
    /\ pc[c] = "notify"
    /\ Wakes(c, "drop")
    /\ published' = [published EXCEPT ![c] = TRUE]
    /\ taken' = [taken EXCEPT ![c] = {}]
    /\ UNCHANGED <<key, type, call, out, calls, outcome, wakers, store,
                   tasks, history>>

(* Mutant: a leader that published nothing leaves its followers asleep. *)
DropSilently(c) ==
    /\ pc[c] = "drop"
    /\ calls' = [calls EXCEPT ![FK(c)] = NoCall]
    /\ Return(c, IF published[c] THEN out[c] ELSE Abandoned)
    /\ out' = [out EXCEPT ![c] = NoOutcome]
    /\ published' = [published EXCEPT ![c] = FALSE]
    /\ faulty' = [faulty EXCEPT ![c] = FALSE]
    /\ UNCHANGED <<key, type, taken, outcome, wakers, store, tasks, vanished>>

(* Leader::drop: deregister, and only then release the followers of a      *)
(* leader that published nothing.                                          *)
Drop(c) ==
    /\ pc[c] = "drop"
    /\ calls' = [calls EXCEPT ![FK(c)] = NoCall]
    /\ IF published[c]
       THEN Return(c, out[c])
       ELSE Goto(c, "abandon") /\ UNCHANGED <<call, answers>>
    /\ out' = [out EXCEPT ![c] = NoOutcome]
    /\ published' = [published EXCEPT ![c] = FALSE]
    /\ faulty' = [faulty EXCEPT ![c] = FALSE]
    /\ UNCHANGED <<key, type, taken, outcome, wakers, store, tasks, vanished>>

Abandon(c) ==
    /\ pc[c] = "abandon"
    /\ CallPublish(c, Abandoned)
    /\ Goto(c, "abnotify")
    /\ UNCHANGED <<key, type, call, out, published, calls, store, tasks, history>>

AbandonNotify(c) ==
    /\ pc[c] = "abnotify"
    /\ Wakes(c, "idle")
    /\ call' = [call EXCEPT ![c] = NoCall]
    /\ taken' = [taken EXCEPT ![c] = {}]
    /\ UNCHANGED <<key, type, out, published, calls, outcome, wakers, store,
                   tasks, history>>

-----------------------------------------------------------------------------
(* What can go wrong, and what the rest of the program does. *)

Vanish(c) ==
    /\ Goto(c, "drop")
    /\ vanished' = [vanished EXCEPT ![call[c]] = TRUE]
    /\ UNCHANGED <<locals, calls, outcome, wakers, store, answers, faulty>>

(* The closure panics, and the guard unwinds. *)
Panic(c) ==
    /\ pc[c] = "compute"
    /\ Vanish(c)
    /\ UNCHANGED tasks

(* A future leading the flight is dropped at an await: the second look or  *)
(* the write (blocking store only), or the computation.                    *)
Orphans == {t \in tasks : t.who = NoOne}

CancelLeader(c) ==
    /\ c \in AsyncCallers
    /\ \/ pc[c] = "compute"
       \/ pc[c] = "recheck" /\ BlockingStore
       \/ pc[c] = "setting" /\ Cardinality(Orphans) < MaxOrphans
    /\ Vanish(c)
    /\ tasks' = {IF t.who = c THEN [t EXCEPT !.who = NoOne] ELSE t : t \in tasks}

(* A future waiting on somebody else's flight, or reading a blocking store *)
(* before it, is dropped.                                                  *)
CancelFollower(c) ==
    /\ c \in AsyncCallers
    /\ pc[c] \in FollowerPCs \/ (pc[c] = "load" /\ BlockingStore)
    /\ Goto(c, "idle")
    /\ call' = [call EXCEPT ![c] = NoCall]
    /\ UNCHANGED <<key, type, out, published, taken, calls, outcome, wakers,
                   store, tasks, history>>

(* remove, retain, expiry, eviction: the entry goes.  set_bytes: bytes     *)
(* without a header take its place.                                        *)
StoreLoses(k) ==
    /\ store[k] # NoEntry
    /\ store' = [store EXCEPT ![k] = NoEntry]
    /\ UNCHANGED <<pc, locals, calls, outcome, wakers, tasks, history>>

SetBytes(k, v) ==
    /\ store' = [store EXCEPT ![k] = [fp |-> Raw, val |-> v]]
    /\ UNCHANGED <<pc, locals, calls, outcome, wakers, tasks, history>>

-----------------------------------------------------------------------------
Init ==
    /\ pc = [c \in Callers |-> "idle"]
    /\ key \in [Callers -> Keys]
    /\ type \in [Callers -> Types]
    /\ call = [c \in Callers |-> NoCall]
    /\ out = [c \in Callers |-> NoOutcome]
    /\ published = [c \in Callers |-> FALSE]
    /\ taken = [c \in Callers |-> {}]
    /\ calls = [fk \in FlightKeys |-> NoCall]
    /\ outcome = [id \in CallIds |-> NoOutcome]
    /\ wakers = [id \in CallIds |-> {}]
    /\ store = [k \in Keys |-> NoEntry]
    /\ tasks = {}
    /\ answers = [id \in CallIds |-> {}]
    /\ vanished = [id \in CallIds |-> FALSE]
    /\ faulty = [c \in Callers |-> FALSE]

(* What a caller does on its own, given the processor. *)
Proceed(c) ==
    \/ Load(c) \/ Enter(c) \/ Wait(c)
    \/ Recheck(c) \/ Compute(c) \/ Set(c) \/ SpawnSet(c)
    \/ Publish(c) \/ Notify(c) \/ Drop(c) \/ Abandon(c) \/ AbandonNotify(c)

Environment ==
    \/ \E c \in Callers, k \in Keys, t \in Types : Start(c, k, t)
    \/ \E c \in Callers : \/ SpuriousWake(c) \/ Panic(c)
                          \/ CancelLeader(c) \/ CancelFollower(c)
    \/ \E k \in Keys : StoreLoses(k)
    \/ \E k \in Keys, v \in Values : SetBytes(k, v)

Next ==
    \/ \E c \in Callers : Proceed(c)
    \/ \E t \in tasks : RunTask(t)
    \/ Environment

Spec == Init /\ [][Next]_vars

(* Threads and futures are scheduled, blocking tasks are run, and every    *)
(* computation ends.  Nobody has to make a request, panic or be dropped.   *)
Fairness ==
    /\ \A c \in Callers : WF_vars(Proceed(c))
    /\ WF_vars(\E t \in tasks : RunTask(t))

FairSpec == Spec /\ Fairness

-----------------------------------------------------------------------------
(* Properties. *)

(* Every variable keeps its type. *)
TypeOK ==
    /\ pc \in [Callers -> PCs]
    /\ key \in [Callers -> Keys]
    /\ type \in [Callers -> Types]
    /\ call \in [Callers -> CallIds \cup {NoCall}]
    /\ out \in [Callers -> Outcome \cup {NoOutcome}]
    /\ published \in [Callers -> BOOLEAN]
    /\ taken \in [Callers -> SUBSET Callers]
    /\ calls \in [FlightKeys -> CallIds \cup {NoCall}]
    /\ outcome \in [CallIds -> Outcome \cup {NoOutcome}]
    /\ wakers \in [CallIds -> SUBSET Callers]
    /\ store \in [Keys -> Entry \cup {NoEntry}]
    /\ tasks \subseteq Task
    /\ answers \in [CallIds -> SUBSET Outcome]
    /\ vanished \in [CallIds -> BOOLEAN]
    /\ faulty \in [Callers -> BOOLEAN]

(* "compute runs once" (Memo::get_or_compute): two callers never lead, and *)
(* so never compute, the same key and type at the same time.               *)
SingleFlight ==
    \A c, d \in Callers :
        pc[c] \in LeaderPCs /\ pc[d] \in LeaderPCs /\ FK(c) = FK(d) => c = d

(* No caller sleeps on a call nobody will wake it from: while it is        *)
(* parked, its leader has still to publish, and then to notify it (the     *)
(* window Call::poll closes by registering under the `outcome` lock, and   *)
(* the one Leader::drop closes for a leader that panicked or was dropped). *)
ToPublish(l) ==
    \/ pc[l] \in {"recheck", "compute", "set", "setting", "publish", "abandon"}
    \/ pc[l] = "drop" /\ ~published[l]

ToNotify(l) == pc[l] \in {"notify", "abnotify"}

NobodyStranded ==
    \A c \in Callers : pc[c] = "parked" =>
        \E l \in Callers :
            /\ call[l] = call[c]
            /\ \/ /\ ToPublish(l)
                  /\ c \in AsyncCallers => c \in wakers[call[c]]
               \/ /\ ToNotify(l)
                  /\ c \in AsyncCallers => c \in taken[l]

(* Everybody who joined one computation, its leader included, returns the  *)
(* same value or the same error (Outcome's contract).                      *)
Agreement ==
    \A id \in CallIds : Cardinality(answers[id]) <= 1

(* ComputeAbandoned reaches a caller only when the leader really panicked  *)
(* or was dropped: never because two types shared a flight and one could   *)
(* not decode the other's bytes (flight_key, resolve).                     *)
AbandonedMeansVanished ==
    \A id \in CallIds : Abandoned \in answers[id] => vanished[id]

(* The second look pays off: a leader computes a value that is already     *)
(* cached only if its own read failed, or a dropped future's spawned write *)
(* landed late.  In particular a caller that enters just after the         *)
(* previous leader left is served from the cache.                          *)
NoWastedCompute ==
    \A c \in Callers :
        pc[c] = "compute" /\ decode(type[c], store[key[c]]) =>
            faulty[c] \/ BlockingStore

(* Every request returns, however its leader ends: nobody waits forever. *)
EveryRequestReturns ==
    \A c \in Callers : pc[c] # "idle" ~> pc[c] = "idle"

(* MemoError::ComputeAbandoned: "Nothing was cached and the next call      *)
(* retries."  A call that ended abandoned has no write still to land.      *)
NothingCachedWhenAbandoned ==
    \A t \in tasks : outcome[t.by] # Abandoned
=============================================================================
