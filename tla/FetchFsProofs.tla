--------------------------- MODULE FetchFsProofs ----------------------------
(***************************************************************************)
(* Proofs about components that share no state: FetchHandle, which         *)
(* implements Promise however long a download runs and however its owner   *)
(* mixes track, cancel and join; FetchRequests, for any number of fetchers *)
(* and requests; FsTrash, for any number of files, handles and other       *)
(* programs at the path; FsTransfer, for any tree; and FsExtract, for any  *)
(* archive, ceilings and modes.                                            *)
(***************************************************************************)
EXTENDS FetchHandle, FetchRequests, FsTrash, FsTransfer, FsExtract, FiniteSetTheorems,
        SequenceTheorems, TLAPS

-----------------------------------------------------------------------------
(* The handle of a download. *)

Ended == {"ok", "err", "panicked", "aborted"}
Awaiting == {"joining", "ending"}

(* The types the argument needs. *)
HandleTypeOK ==
    /\ task \in {"running"} \cup Ended
    /\ join_handle \in BOOLEAN /\ torn \in BOOLEAN
    /\ succeeded \in {"none", "yes", "no"}
    /\ owner \in {"free", "tracking", "gone"} \cup Awaiting
    /\ joined \in {"none", "ok", "err"}

(* While the JoinHandle is there, nobody has awaited the task and nobody   *)
(* has been answered; whoever took it is still the only one to await it.   *)
NobodyAsked ==
    /\ join_handle => owner \in {"free", "tracking"}
    /\ join_handle \/ owner \in Awaiting =>
          succeeded = "none" /\ joined = "none" /\ ~torn
    /\ owner \in Awaiting => ~join_handle

(* Once the await of the task returned, succeeded keeps how it ended. *)
KeepsHowItEnded ==
    ~join_handle /\ owner \notin Awaiting /\ ~torn => ~Running /\ succeeded = Kept

(* An answer agrees with how the task ended. *)
AnsweredTruly ==
    joined # "none" /\ ~torn => ~Running /\ (joined = "ok" <=> task = "ok")

HandleInv == HandleTypeOK /\ NobodyAsked /\ KeepsHowItEnded /\ AnsweredTruly

USE DEF HandleInv, HandleTypeOK, NobodyAsked, KeepsHowItEnded, AnsweredTruly, Ended,
        Awaiting, Running, Kept, taskVars, ownerVars

-----------------------------------------------------------------------------
(* The invariant holds before the download's first byte. *)
LEMMA HandleInitInv == HandleInit => HandleInv
  BY DEF HandleInit

(* Every step of the task and of its owner preserves it. *)
LEMMA HandleStep ==
  ASSUME HandleInv, [HandleNext]_handleVars
  PROVE  HandleInv'
<1>1. CASE Update \/ Settle \/ Panic \/ Aborted
  BY <1>1 DEF Update, Settle, Panic, Aborted
<1>2. CASE Cancel \/ Track \/ Changed
  BY <1>2 DEF Cancel, Track, Changed
<1>3. CASE Awaits
  BY <1>3 DEF Awaits
<1>4. CASE Awaited
  BY <1>4 DEF Awaited
<1>5. CASE Dropped
  BY <1>5 DEF Dropped
<1>6. CASE UNCHANGED handleVars
  BY <1>6 DEF handleVars
<1> QED BY <1>1, <1>2, <1>3, <1>4, <1>5, <1>6 DEF HandleNext

(* The invariant holds in every reachable state. *)
THEOREM HandleInvariant == HandleSpec => []HandleInv
<1>1. HandleInv /\ [HandleNext]_handleVars => HandleInv'
  BY HandleStep
<1> QED BY HandleInitInv, <1>1, PTL DEF HandleSpec

-----------------------------------------------------------------------------
(* The refinement, under the mapping of Outcome. *)

pending == IF Running THEN "pending" ELSE IF task = "ok" THEN "ok" ELSE "err"
answer == IF torn THEN "unknown" ELSE IF joined = "none" THEN "nothing" ELSE joined

(* A step maps to the end of the work, to an answer that is how it ended,  *)
(* to the loss of the answer, or to nothing.                               *)
LEMMA HandleRefines ==
  ASSUME HandleInv, [HandleNext]_handleVars
  PROVE  [Outcome!Next]_<<pending, answer>>
<1> USE DEF Outcome!Next, Outcome!End, Outcome!Tell, Outcome!Lose, pending, answer
<1>1. CASE Settle \/ Panic \/ Aborted
  BY <1>1 DEF Settle, Panic, Aborted
<1>2. CASE Update \/ Cancel \/ Track \/ Changed
  BY <1>2 DEF Update, Cancel, Track, Changed
<1>3. CASE Awaits
  BY <1>3 DEF Awaits
<1>4. CASE Awaited
  BY <1>4 DEF Awaited
<1>5. CASE Dropped
  BY <1>5 DEF Dropped
<1>6. CASE UNCHANGED handleVars
  BY <1>6 DEF handleVars
<1> QED BY <1>1, <1>2, <1>3, <1>4, <1>5, <1>6 DEF HandleNext

(* What track and join tell the owner of a download (join_once) is how its *)
(* task ended, once or many times, and never before it did, until an await *)
(* of the task is dropped or raises the task's panic: FetchHandle          *)
(* implements Promise.                                                     *)
THEOREM JoinIsTruthful == HandleSpec => TruthfulJoin
<1>1. HandleInit => Outcome!Init
  BY DEF HandleInit, Outcome!Init
<1>2. HandleInv /\ [HandleNext]_handleVars => [Outcome!Next]_<<pending, answer>>
  BY HandleRefines
<1> QED BY <1>1, <1>2, HandleInvariant, PTL DEF HandleSpec, TruthfulJoin, Outcome!Spec, pending, answer

-----------------------------------------------------------------------------
(* FetchRequests. *)

(* What a request waits: what a server asked for, or the Fibonacci delay. *)
Delay(asked, n) == Min2(MaxBackoff, Or(asked, fibonacci_delay(n)))
Hints == Asks \cup {NotSet}
Delays == {0} \cup {Delay(a, n) : a \in Hints, n \in Nat}

(* A request under way. *)
Active == [at : {"build", "send", "read", "wait"}, of : Fetchers,
           client : Client \cup {NotSet}, attempt : Nat,
           retries : RetryCounts \cup {0, NotSet}, limit : Limits \cup {NotSet},
           hint : Hints, asked : Hints, body : Nat, wait : Delays]

(* What a fetcher is set to. *)
Settings == [built_from : Nat, retries : RetryCounts \cup {0}, limit : Limits \cup {NotSet}]

RequestsTypeOK ==
    /\ settings \in [Fetchers -> Settings]
    /\ client \in [Fetchers -> Client \cup {NotSet}]
    /\ reconfigured \in Nat
    /\ req \in [Requests -> {AtRest} \cup Active]

(* A client that is kept is the one of the configuration its fetcher has,  *)
(* and the one every request past `build` uses.                            *)
KeptIsCurrent ==
    \A f \in Fetchers : client[f] # NotSet => client[f].built_from = settings[f].built_from
UsesKept ==
    \A r \in Requests : req[r].at \in {"send", "read", "wait"} =>
        client[req[r].of] # NotSet /\ req[r].client = client[req[r].of]

(* A hint is recorded by the attempt that was given it and taken by the    *)
(* wait after it: no attempt begins with one.                              *)
NoStaleHint ==
    \A r \in Requests :
        /\ req[r].at # "idle" => req[r].hint = NotSet
        /\ req[r].at = "read" => req[r].asked = NotSet
        /\ req[r].at = "wait" => req[r].wait = Delay(req[r].asked, req[r].attempt + 1)

RequestsInv == RequestsTypeOK /\ KeptIsCurrent /\ UsesKept /\ NoStaleHint

(* No fetcher has a client before the first request. *)
LEMMA RequestsInitInv == RequestsInit => RequestsInv
  BY DEF RequestsInit, RequestsInv, RequestsTypeOK, KeptIsCurrent, UsesKept, NoStaleHint, AtRest,
         Settings

(* The records that adjusting a fetcher, and waking a request, leave. *)
LEMMA AdjustedSettings ==
  ASSUME NEW s \in Settings, NEW n, NEW l,
         NEW t, t = [s EXCEPT !.retries = n, !.limit = l]
  PROVE  t = [built_from |-> s.built_from, retries |-> n, limit |-> l]
  BY DEF Settings

(* A request that wakes up from its wait.                                   *)
LEMMA AwakeRequest ==
  ASSUME NEW q \in Active, NEW n,
         NEW t, t = [q EXCEPT !.at = "send", !.attempt = n, !.wait = 0, !.asked = NotSet]
  PROVE  t = [at |-> "send", of |-> q.of, client |-> q.client, attempt |-> n,
              retries |-> q.retries, limit |-> q.limit, hint |-> q.hint, asked |-> NotSet,
              body |-> q.body, wait |-> 0]
  BY DEF Active

(* A request that is not at rest is a full record. *)
LEMMA ActiveReq ==
  ASSUME RequestsTypeOK, NEW r \in Requests, req[r].at # "idle"
  PROVE  req[r] \in Active
  BY DEF RequestsTypeOK, AtRest

(* The builders and clones touch fetchers that no request uses. *)
LEMMA BuildersKeep ==
  ASSUME RequestsInv, NEW f \in Fetchers, NEW g \in Fetchers,
         Reconfigure(f) \/ Adjust(f) \/ CloneFetch(f, g)
  PROVE  RequestsInv'
<1> USE RequestsAssumption DEF RequestsInv, RequestsTypeOK, KeptIsCurrent, UsesKept, NoStaleHint, Unused
<1>0. \A r \in Requests : req[r].at # "idle" => req[r].of \in Fetchers
  BY ActiveReq DEF Active
<1>1. CASE Reconfigure(f)
  BY <1>0, <1>1 DEF Reconfigure, Settings
<1>2. CASE Adjust(f)
  <2>1. PICK n \in RetryCounts, l \in Limits \cup {NotSet} :
           settings' = [settings EXCEPT ![f] = [@ EXCEPT !.retries = n, !.limit = l]]
    BY <1>2 DEF Adjust
  <2>2. settings' = [settings EXCEPT ![f] =
             [built_from |-> settings[f].built_from, retries |-> n, limit |-> l]]
    <3>1. settings[f] \in Settings
      OBVIOUS
    <3> QED BY <2>1, <3>1, AdjustedSettings
  <2>5. RequestsTypeOK'
    <3>1. [built_from |-> settings[f].built_from, retries |-> n, limit |-> l] \in Settings
      BY DEF Settings
    <3>2. settings' \in [Fetchers -> Settings]
      BY <2>2, <3>1
    <3>3. reconfigured' = reconfigured + 1 /\ UNCHANGED <<client, req>>
      BY <1>2 DEF Adjust
    <3>4. reconfigured' \in Nat
      BY <3>3
    <3> QED BY <3>2, <3>3, <3>4
  <2>3. \A g1 \in Fetchers : settings'[g1].built_from = settings[g1].built_from
    BY <2>2
  <2>4. UNCHANGED <<client, req>>
    BY <1>2 DEF Adjust
  <2> QED BY <1>0, <2>3, <2>4, <2>5
<1>3. CASE CloneFetch(f, g)
  BY <1>0, <1>3 DEF CloneFetch
<1> QED BY <1>1, <1>2, <1>3

(* A step that only moves one request, to rest or to a record whose own    *)
(* part of the invariant holds and whose client is the one it had.         *)
LEMMA RequestMoves ==
  ASSUME RequestsInv, NEW r \in Requests, NEW q \in {AtRest} \cup Active,
         UNCHANGED <<settings, client, reconfigured>>,
         req' = [req EXCEPT ![r] = q],
         q.at \in {"send", "read", "wait"} =>
            client[q.of] # NotSet /\ q.client = client[q.of],
         q.at # "idle" => q.hint = NotSet,
         q.at = "read" => q.asked = NotSet,
         q.at = "wait" => q.wait = Delay(q.asked, q.attempt + 1)
  PROVE  RequestsInv'
<1> USE DEF RequestsInv
<1>1. RequestsTypeOK'
  BY DEF RequestsTypeOK
<1>2. \A s \in Requests : req'[s] = IF s = r THEN q ELSE req[s]
  BY DEF RequestsTypeOK
<1>3. KeptIsCurrent'
  BY DEF KeptIsCurrent
<1>4. UsesKept'
  BY <1>2 DEF UsesKept
<1>5. NoStaleHint'
  BY <1>2 DEF NoStaleHint
<1> QED BY <1>1, <1>3, <1>4, <1>5

(* prepare: a request begins without a hint, with the fetcher's client if  *)
(* there is one.                                                           *)
LEMMA SendKeeps ==
  ASSUME RequestsInv, NEW r \in Requests, NEW f \in Fetchers, Send(r, f)
  PROVE  RequestsInv'
<1>1. PICK o \in Options : req' = [req EXCEPT ![r] = Prepared(f, o)]
  BY DEF Send
<1>2. Prepared(f, o) \in Active
  BY DEF Prepared, Options, Or, Active, Hints, Delays, RequestsInv, RequestsTypeOK, Settings
<1> QED BY <1>1, <1>2, RequestMoves DEF Send, Prepared

(* get_or_init: the request uses what the cell has, its own or another's. *)
LEMMA BuildKeeps ==
  ASSUME RequestsInv, NEW r \in Requests, Build(r)
  PROVE  RequestsInv'
<1> DEFINE f == req[r].of
           own == [built_by |-> r, built_from |-> settings[f].built_from]
           kept == Or(client[f], own)
<1> USE DEF RequestsInv
<1>1. req[r] \in Active /\ f \in Fetchers
  BY ActiveReq DEF Build, Active
<1>2. own \in Client
  BY <1>1 DEF RequestsTypeOK, Client, Settings
<1>3. /\ kept \in Client /\ kept.built_from = settings[f].built_from
      /\ client[f] # NotSet => kept = client[f]
  BY <1>1, <1>2, RequestsAssumption DEF Or, KeptIsCurrent, RequestsTypeOK
<1>4. /\ client' = [client EXCEPT ![f] = kept]
      /\ req' = [req EXCEPT ![r] = [@ EXCEPT !.at = "send", !.client = kept]]
      /\ UNCHANGED <<settings, reconfigured>>
  BY DEF Build
<1> HIDE DEF f, own, kept
<1>5. [req[r] EXCEPT !.at = "send", !.client = kept] \in Active
  BY <1>1, <1>3 DEF Active
<1>6. RequestsTypeOK'
  BY <1>1, <1>3, <1>4, <1>5 DEF RequestsTypeOK
<1>7. /\ req'[r].at = "send" /\ req'[r].client = kept /\ req'[r].of = f
      /\ req'[r].hint = req[r].hint
      /\ \A s \in Requests \ {r} : req'[s] = req[s]
  BY <1>1, <1>4 DEF RequestsTypeOK, Active, f
<1>8. client'[f] = kept /\ \A g \in Fetchers \ {f} : client'[g] = client[g]
  BY <1>1, <1>4 DEF RequestsTypeOK
<1>9. KeptIsCurrent'
  BY <1>3, <1>4, <1>8 DEF KeptIsCurrent
<1>10. \A s \in Requests : req[s].at \in {"send", "read", "wait"} => req[s].of \in Fetchers
  BY ActiveReq DEF Active
<1>11. UsesKept'
  BY <1>1, <1>3, <1>7, <1>8, <1>10, RequestsAssumption DEF UsesKept
<1>12. NoStaleHint'
  BY <1>7 DEF NoStaleHint, Build
<1> QED BY <1>6, <1>9, <1>11, <1>12

(* An attempt that failed leaves a request at rest, or waiting for what    *)
(* the answer that failed asked for.                                       *)
LEMMA FailedWaits ==
  ASSUME NEW q \in Active, NEW transient \in BOOLEAN, q.hint = q.asked,
         Failed(q, transient) # AtRest
  PROVE  LET w == Failed(q, transient)
         IN /\ w \in Active
            /\ w.at = "wait" /\ w.of = q.of /\ w.client = q.client
            /\ w.hint = NotSet /\ w.wait = Delay(w.asked, w.attempt + 1)
<1> DEFINE d == Delay(q.hint, q.attempt + 1)
<1>1. Failed(q, transient) =
        [q EXCEPT !.at = "wait", !.body = 0, !.wait = d, !.hint = NotSet]
  BY DEF Failed, Retried, Taken, Delay, Active
<1>2. d \in Delays /\ NotSet \in Hints
  BY DEF Delays, Hints, Active
<1>3. d = Delay(q.asked, q.attempt + 1)
  OBVIOUS
<1> HIDE DEF d
<1>4. Failed(q, transient) =
        [at |-> "wait", of |-> q.of, client |-> q.client, attempt |-> q.attempt,
         retries |-> q.retries, limit |-> q.limit, hint |-> NotSet, asked |-> q.asked,
         body |-> 0, wait |-> d]
  BY <1>1 DEF Active
<1> QED BY <1>2, <1>3, <1>4 DEF Active

(* Whatever a request meets leaves its part of the invariant true. *)
LEMMA AttemptKeeps ==
  ASSUME RequestsInv, NEW r \in Requests, req[r].at # "idle",
         UNCHANGED <<settings, client, reconfigured>>,
         NEW q \in Active, NEW transient \in BOOLEAN,
         q.of = req[r].of, q.client = req[r].client, q.hint = q.asked,
         req[r].at \in {"send", "read"},
         req' = [req EXCEPT ![r] = Failed(q, transient)]
  PROVE  RequestsInv'
<1>1. client[q.of] # NotSet /\ q.client = client[q.of]
  BY DEF RequestsInv, UsesKept
<1>2. CASE Failed(q, transient) = AtRest
  BY <1>2, RequestMoves DEF AtRest
<1>3. CASE Failed(q, transient) # AtRest
  <2> DEFINE w == Failed(q, transient)
  <2>1. /\ w \in Active
        /\ w.at = "wait" /\ w.of = q.of /\ w.client = q.client
        /\ w.hint = NotSet /\ w.wait = Delay(w.asked, w.attempt + 1)
    BY <1>3, FailedWaits
  <2>2. req' = [req EXCEPT ![r] = w]
    OBVIOUS
  <2> HIDE DEF w
  <2>3. client[w.of] # NotSet /\ w.client = client[w.of]
    BY <1>1, <2>1
  <2>4. w.at # "read"
    BY <2>1
  <2> QED BY <2>1, <2>2, <2>3, <2>4, RequestMoves
<1> QED BY <1>2, <1>3

(* One attempt and its answer. *)
LEMMA RequestKeeps ==
  ASSUME RequestsInv, NEW r \in Requests,
         \/ BuildFails(r) \/ Lost(r) \/ Declined(r) \/ Answered(r)
         \/ Chunk(r) \/ EndBody(r) \/ Broken(r) \/ Awake(r)
  PROVE  RequestsInv'
<1> DEFINE old == req[r]
<1>0. old \in Active
  BY ActiveReq DEF BuildFails, Lost, Declined, Answered, Chunk, EndBody, Broken, Awake, RequestsInv
<1>a. /\ old.at \in {"send", "read", "wait"} =>
            client[old.of] # NotSet /\ old.client = client[old.of]
      /\ old.hint = NotSet
      /\ old.at = "read" => old.asked = NotSet
  BY <1>0 DEF RequestsInv, UsesKept, NoStaleHint, Active
<1>1. CASE BuildFails(r) \/ EndBody(r)
  BY <1>1, RequestMoves DEF BuildFails, EndBody, AtRest
<1>2. CASE Lost(r)
  <2>1. [old EXCEPT !.asked = NotSet] \in Active
    BY <1>0 DEF Active, Hints
  <2> QED BY <1>0, <1>a, <1>2, <2>1, AttemptKeeps DEF Lost, Active
<1>3. CASE Declined(r)
  <2>1. PICK s \in Statuses :
           req' = [req EXCEPT ![r] = Failed([@ EXCEPT !.hint = s.ask, !.asked = s.ask], s.transient)]
    BY <1>3 DEF Declined
  <2>2. s.ask \in Hints /\ s.transient \in BOOLEAN
    BY DEF Statuses, Hints
  <2>3. [old EXCEPT !.hint = s.ask, !.asked = s.ask] \in Active
    BY <1>0, <2>2 DEF Active
  <2> QED BY <1>0, <1>a, <1>3, <2>1, <2>2, <2>3, AttemptKeeps DEF Declined, Active
<1>4. CASE Broken(r)
  BY <1>0, <1>a, <1>4, AttemptKeeps DEF Broken
<1>5. CASE Answered(r)
  <2>1. PICK declared \in 0 .. MaxBody :
           req' = [req EXCEPT ![r] =
              IF Over(declared, old.limit) THEN AtRest
              ELSE [old EXCEPT !.at = "read", !.hint = NotSet, !.asked = NotSet]]
    BY <1>5 DEF Answered
  <2>2. [old EXCEPT !.at = "read", !.hint = NotSet, !.asked = NotSet] \in Active
    BY <1>0 DEF Active, Hints
  <2>3. CASE Over(declared, old.limit)
    BY <1>5, <2>1, <2>3, RequestMoves DEF Answered, AtRest
  <2>4. CASE ~Over(declared, old.limit)
    BY <1>0, <1>a, <1>5, <2>1, <2>2, <2>4, RequestMoves DEF Answered, Active
  <2> QED BY <2>3, <2>4
<1>6. CASE Chunk(r)
  <2> DEFINE q == [old EXCEPT !.body = @ + 1]
  <2>1. /\ q \in Active /\ q.at = old.at /\ q.of = old.of /\ q.client = old.client
        /\ q.hint = old.hint /\ q.asked = old.asked
    BY <1>0 DEF Active
  <2>2. CASE Over(old.body + 1, old.limit)
    BY <1>6, <2>2, RequestMoves DEF Chunk, AtRest
  <2>3. CASE ~Over(old.body + 1, old.limit)
    <3>1. req' = [req EXCEPT ![r] = q]
      BY <1>6, <2>3 DEF Chunk, RequestsInv, RequestsTypeOK
    <3>2. old.at = "read"
      BY <1>6 DEF Chunk
    <3>3. UNCHANGED <<settings, client, reconfigured>>
      BY <1>6 DEF Chunk
    <3> HIDE DEF q
    <3>4. /\ client[q.of] # NotSet /\ q.client = client[q.of]
          /\ q.hint = NotSet /\ q.asked = NotSet /\ q.at # "wait"
      BY <1>a, <2>1, <3>2
    <3> QED BY <2>1, <3>1, <3>3, <3>4, RequestMoves
  <2> QED BY <2>2, <2>3
<1>7. CASE Awake(r)
  <2> DEFINE q == [at |-> "send", of |-> old.of, client |-> old.client,
                   attempt |-> old.attempt + 1, retries |-> old.retries,
                   limit |-> old.limit, hint |-> old.hint, asked |-> NotSet,
                   body |-> old.body, wait |-> 0]
  <2>1. q \in Active
    BY <1>0 DEF Active, Hints, Delays
  <2>2. req' = [req EXCEPT ![r] = q]
    BY <1>0, <1>7, AwakeRequest DEF Awake
  <2>3. q.at = "send" /\ q.of = old.of /\ q.client = old.client /\ q.hint = old.hint
    OBVIOUS
  <2>4. old.at = "wait" /\ UNCHANGED <<settings, client, reconfigured>>
    BY <1>7 DEF Awake
  <2> HIDE DEF q
  <2>5. q.at \notin {"build", "read", "wait"} /\ old.at \notin {"idle", "build"}
    BY <2>3, <2>4
  <2> QED BY <1>a, <2>1, <2>2, <2>3, <2>4, <2>5, RequestMoves
<1> QED BY <1>1, <1>2, <1>3, <1>4, <1>5, <1>6, <1>7

(* The invariant holds in every reachable state. *)
THEOREM RequestsInvariant == RequestsSpec => []RequestsInv
<1>1. ASSUME RequestsInv, [RequestsNext]_requestVars
      PROVE  RequestsInv'
  <2>1. CASE \/ \E f \in Fetchers : Reconfigure(f) \/ Adjust(f)
             \/ \E f, g \in Fetchers : CloneFetch(f, g)
    BY <1>1, <2>1, BuildersKeep
  <2>2. CASE \E r \in Requests, f \in Fetchers : Send(r, f)
    BY <1>1, <2>2, SendKeeps
  <2>3. CASE \E r \in Requests : Build(r)
    BY <1>1, <2>3, BuildKeeps
  <2>4. CASE \E r \in Requests :
               \/ BuildFails(r) \/ Lost(r) \/ Declined(r) \/ Answered(r)
               \/ Chunk(r) \/ EndBody(r) \/ Broken(r) \/ Awake(r)
    BY <1>1, <2>4, RequestKeeps
  <2>5. CASE UNCHANGED requestVars
    BY <1>1, <2>5 DEF requestVars, RequestsInv, RequestsTypeOK, KeptIsCurrent, UsesKept, NoStaleHint
  <2> QED BY <1>1, <2>1, <2>2, <2>3, <2>4, <2>5 DEF RequestsNext
<1> QED BY RequestsInitInv, <1>1, PTL DEF RequestsSpec

(* However many requests found no client and built one at once, those of   *)
(* one fetcher use one, of the configuration it has (Fetch::client).       *)
THEOREM ClientShared == RequestsSpec => []OneClient
<1>1. RequestsInv => OneClient
  <2> SUFFICES ASSUME RequestsInv, NEW r \in Requests, req[r].at \notin {"idle", "build"}
               PROVE  /\ req[r].client = client[req[r].of]
                      /\ req[r].client.built_from = settings[req[r].of].built_from
    BY DEF OneClient
  <2>1. req[r] \in Active
    BY ActiveReq DEF RequestsInv
  <2> QED BY <2>1 DEF RequestsInv, KeptIsCurrent, UsesKept, Active
<1> QED BY <1>1, RequestsInvariant, PTL

(* A retry waits for what the answer that failed asked for, and never for  *)
(* what an earlier one did (RetryAfter).                                   *)
THEOREM WaitIsTheLastAsked == RequestsSpec => []WaitsAsAsked
<1>1. RequestsInv => WaitsAsAsked
  BY DEF RequestsInv, NoStaleHint, WaitsAsAsked, Delay
<1> QED BY <1>1, RequestsInvariant, PTL

-----------------------------------------------------------------------------
(* The Trash. *)

TrashTypeOK ==
    /\ clock \in Nat /\ made \in Nat
    /\ at_path \in {Absent} \cup 1 .. made
    /\ trash \subseteq [file : 1 .. made, time : Nat]
    /\ emptied \subseteq 1 .. made
    /\ trashed \in [Handles -> {Absent} \cup [since : Nat, file : Nat]]
    /\ moving \in {Absent} \cup [handle : Handles, does : {"trash"}, since : Nat]
                           \cup [handle : Handles, does : {"restore"}, item : [file : Nat, time : Nat]]
    /\ restored \in {Absent} \cup [since : Nat, time : Nat]

(* Where a file is. *)
OnPath(f) == at_path = f
InTrash(f) == \E item \in trash : item.file = f
Destroyed(f) == f \in emptied

(* A file is in one place, and the Trash holds it once. *)
OnePlace ==
    /\ \A f \in 1 .. made :
          /\ OnPath(f) \/ InTrash(f) \/ Destroyed(f)
          /\ ~(OnPath(f) /\ InTrash(f)) /\ ~(OnPath(f) /\ Destroyed(f))
          /\ ~(InTrash(f) /\ Destroyed(f))
    /\ \A item, other \in trash : item.file = other.file => item = other

(* An item is chosen, and brought back, no older than its handle allows:   *)
(* the handle it was chosen for keeps its moment until the restore ends.   *)
ChosenInTime ==
    /\ moving # Absent /\ moving.does = "restore" =>
          /\ trashed[moving.handle] # Absent
          /\ moving.item.time + Tolerance >= trashed[moving.handle].since
    /\ restored # Absent => restored.time + Tolerance >= restored.since

TrashInv == TrashTypeOK /\ OnePlace /\ ChosenInTime

(* There is no file yet.                                                   *)
LEMMA TrashInitInv == TrashInit => TrashInv
  BY TrashAssumption DEF TrashInit, TrashInv, TrashTypeOK, OnePlace, ChosenInTime

(* A new file is at the path, and nowhere else. *)
LEMMA CreateKeeps == TrashInv /\ CreateFile => TrashInv'
<1> SUFFICES ASSUME TrashInv, CreateFile PROVE TrashInv'
  OBVIOUS
<1> USE TrashAssumption DEF TrashInv
<1>1. /\ made' = made + 1 /\ at_path' = made + 1 /\ at_path = Absent
      /\ UNCHANGED <<clock, trash, trashed, moving, emptied, restored>>
  BY DEF CreateFile
<1>2. TrashTypeOK'
  BY <1>1 DEF TrashTypeOK
<1>3. OnePlace'
  <2>1. ~InTrash(made + 1) /\ ~Destroyed(made + 1)
    BY DEF TrashTypeOK, InTrash, Destroyed
  <2>2. \A f \in 1 .. made : ~OnPath(f) /\ f # made + 1
    BY <1>1 DEF TrashTypeOK, OnPath
  <2>3. 1 .. made' = 1 .. made \cup {made + 1}
    BY <1>1 DEF TrashTypeOK
  <2> QED BY <1>1, <2>1, <2>2, <2>3 DEF OnePlace, OnPath, InTrash, Destroyed
<1>4. ChosenInTime'
  BY <1>1 DEF ChosenInTime
<1> QED BY <1>2, <1>3, <1>4

(* A file that leaves the path for the Trash, whoever moves it. *)
LEMMA ToTrash ==
  ASSUME TrashInv, at_path # Absent, at_path' = Absent,
         trash' = trash \cup {[file |-> at_path, time |-> clock]},
         UNCHANGED <<clock, made, emptied>>
  PROVE  /\ OnePlace'
         /\ trash' \subseteq [file : 1 .. made', time : Nat]
<1> DEFINE new == [file |-> at_path, time |-> clock]
<1>1. at_path \in 1 .. made /\ new \in [file : 1 .. made, time : Nat] /\ new.file = at_path
  BY DEF TrashInv, TrashTypeOK
<1>2. trash' = trash \cup {new} /\ trash \subseteq [file : 1 .. made, time : Nat]
  BY DEF TrashInv, TrashTypeOK
<1> HIDE DEF new
<1>3. \A item \in trash : item.file # at_path
  BY <1>1 DEF TrashInv, OnePlace, OnPath, InTrash
<1>4. \A f : InTrash(f)' <=> InTrash(f) \/ f = at_path
  BY <1>1, <1>2 DEF InTrash
<1>5. \A f \in 1 .. made : ~OnPath(f)' /\ (OnPath(f) <=> f = at_path)
  BY TrashAssumption DEF OnPath, TrashInv, TrashTypeOK
<1>6. \A f : Destroyed(f)' <=> Destroyed(f)
  BY DEF Destroyed
<1>7. \A item, other \in trash' : item.file = other.file => item = other
  BY <1>1, <1>2, <1>3 DEF TrashInv, OnePlace
<1>8. made' = made
  OBVIOUS
<1>9. OnePlace'
  <2> SUFFICES \A f \in 1 .. made :
                  /\ OnPath(f)' \/ InTrash(f)' \/ Destroyed(f)'
                  /\ ~(OnPath(f)' /\ InTrash(f)') /\ ~(OnPath(f)' /\ Destroyed(f)')
                  /\ ~(InTrash(f)' /\ Destroyed(f)')
    BY <1>7, <1>8 DEF OnePlace
  <2> QED BY <1>1, <1>4, <1>5, <1>6 DEF TrashInv, OnePlace
<1> QED BY <1>1, <1>2, <1>8, <1>9

(* move_to_trash's second half. *)
LEMMA TrashMovesKeeps == TrashInv /\ TrashMoves => TrashInv'
<1> SUFFICES ASSUME TrashInv, TrashMoves PROVE TrashInv'
  OBVIOUS
<1> USE TrashAssumption
<1>1. /\ moving # Absent /\ moving.does = "trash" /\ moving' = Absent
      /\ UNCHANGED <<clock, made, emptied, restored>>
  BY DEF TrashMoves
<1>2. moving.handle \in Handles /\ moving.since \in Nat
  BY <1>1 DEF TrashInv, TrashTypeOK
<1>3. CASE UNCHANGED <<trash, trashed, at_path>>
  BY <1>1, <1>3 DEF TrashInv, TrashTypeOK, OnePlace, OnPath, InTrash, Destroyed, ChosenInTime
<1>4. CASE at_path # Absent /\ at_path' = Absent
  <2>1. /\ trash' = trash \cup {[file |-> at_path, time |-> clock]}
        /\ trashed' = [trashed EXCEPT ![moving.handle] = [since |-> moving.since, file |-> at_path]]
    BY <1>4 DEF TrashMoves
  <2>2. OnePlace' /\ trash' \subseteq [file : 1 .. made', time : Nat]
    BY <1>1, <1>4, <2>1, ToTrash
  <2>3. at_path \in Nat
    BY <1>4 DEF TrashInv, TrashTypeOK
  <2>4. trashed' \in [Handles -> {Absent} \cup [since : Nat, file : Nat]]
    BY <1>2, <2>1, <2>3 DEF TrashInv, TrashTypeOK
  <2>5. TrashTypeOK'
    BY <1>1, <1>4, <2>2, <2>4 DEF TrashInv, TrashTypeOK
  <2>6. ChosenInTime'
    BY <1>1 DEF TrashInv, ChosenInTime
  <2> QED BY <2>2, <2>5, <2>6 DEF TrashInv
<1> QED BY <1>3, <1>4 DEF TrashMoves

(* restore_from_trash chooses among the candidates. *)
LEMMA RestoreBeginsKeeps ==
  ASSUME TrashInv, NEW h \in Handles, RestoreBegins(h)
  PROVE  TrashInv'
<1>1. PICK item \in candidates(h) : moving' = [handle |-> h, does |-> "restore", item |-> item]
  BY DEF RestoreBegins
<1>2. /\ trashed[h] # Absent
      /\ UNCHANGED <<clock, at_path, trash, trashed, made, emptied, restored>>
  BY DEF RestoreBegins
<1>3. item \in trash /\ item.time + Tolerance >= trashed[h].since
  BY DEF candidates
<1>4. item \in [file : Nat, time : Nat]
  BY <1>3 DEF TrashInv, TrashTypeOK
<1>5. moving' \in [handle : Handles, does : {"restore"}, item : [file : Nat, time : Nat]]
  BY <1>1, <1>4
<1>6. TrashTypeOK'
  BY <1>2, <1>5 DEF TrashInv, TrashTypeOK
<1>7. OnePlace'
  BY <1>2 DEF TrashInv, OnePlace, OnPath, InTrash, Destroyed
<1>8. moving'.handle = h /\ moving'.item = item
  BY <1>1
<1>9. ChosenInTime'
  BY <1>2, <1>3, <1>8 DEF TrashInv, ChosenInTime
<1> QED BY <1>6, <1>7, <1>9 DEF TrashInv

(* An item leaves the Trash for a path that is free. *)
LEMMA RestoreMovesKeeps == TrashInv /\ RestoreMoves => TrashInv'
<1> SUFFICES ASSUME TrashInv, RestoreMoves PROVE TrashInv'
  OBVIOUS
<1> DEFINE item == moving.item
<1>1. /\ moving # Absent /\ moving.does = "restore" /\ moving' = Absent
      /\ UNCHANGED <<clock, trashed, made, emptied>>
  BY DEF RestoreMoves
<1>2. CASE UNCHANGED <<at_path, trash, restored>>
  BY <1>1, <1>2 DEF TrashInv, TrashTypeOK, OnePlace, OnPath, InTrash, Destroyed, ChosenInTime
<1>3. CASE at_path = Absent /\ item \in trash /\ at_path' = item.file /\ trash' = trash \ {item}
  <2>1. restored' = [since |-> trashed[moving.handle].since, time |-> item.time]
    BY <1>3, TrashAssumption DEF RestoreMoves, TrashInv, TrashTypeOK
  <2>2. /\ item \in [file : 1 .. made, time : Nat]
        /\ moving.handle \in Handles /\ trashed[moving.handle] # Absent
        /\ item.time + Tolerance >= trashed[moving.handle].since
    BY <1>1, <1>3 DEF TrashInv, TrashTypeOK, ChosenInTime
  <2> HIDE DEF item
  <2>3. trashed[moving.handle] \in [since : Nat, file : Nat]
    BY <2>2 DEF TrashInv, TrashTypeOK
  <2>4. restored' \in [since : Nat, time : Nat]
        /\ restored'.time = item.time /\ restored'.since = trashed[moving.handle].since
    BY <2>1, <2>2, <2>3
  <2>5. TrashTypeOK'
    BY <1>1, <1>3, <2>2, <2>4 DEF TrashInv, TrashTypeOK
  <2>6. ChosenInTime'
    BY <1>1, <2>2, <2>4 DEF ChosenInTime
  <2>7. \A f \in 1 .. made : InTrash(f)' <=> InTrash(f) /\ f # item.file
    BY <1>3 DEF InTrash, TrashInv, OnePlace
  <2>8. \A f \in 1 .. made : ~OnPath(f) /\ (OnPath(f)' <=> f = item.file)
    BY <1>3, TrashAssumption DEF OnPath
  <2>9. \A f : Destroyed(f)' <=> Destroyed(f)
    BY <1>1 DEF Destroyed
  <2>10. InTrash(item.file) /\ item.file \in 1 .. made
    BY <1>3, <2>2 DEF InTrash
  <2>11. OnePlace'
    <3>1. \A x, y \in trash' : x.file = y.file => x = y
      BY <1>3 DEF TrashInv, OnePlace
    <3>2. \A f \in 1 .. made :
             /\ OnPath(f)' \/ InTrash(f)' \/ Destroyed(f)'
             /\ ~(OnPath(f)' /\ InTrash(f)') /\ ~(OnPath(f)' /\ Destroyed(f)')
             /\ ~(InTrash(f)' /\ Destroyed(f)')
      BY <2>7, <2>8, <2>9, <2>10 DEF TrashInv, OnePlace
    <3>3. made' = made
      BY <1>1
    <3> QED BY <3>1, <3>2, <3>3 DEF OnePlace
  <2> QED BY <2>5, <2>6, <2>11 DEF TrashInv
<1> QED BY <1>2, <1>3 DEF RestoreMoves

(* What other programs do to the path and to the Trash. *)
LEMMA OtherTrashesKeeps == TrashInv /\ OtherTrashes => TrashInv'
<1> SUFFICES ASSUME TrashInv, OtherTrashes PROVE TrashInv'
  OBVIOUS
<1>1. /\ at_path # Absent /\ at_path' = Absent
      /\ trash' = trash \cup {[file |-> at_path, time |-> clock]}
      /\ UNCHANGED <<clock, trashed, moving, made, emptied, restored>>
  BY DEF OtherTrashes
<1>2. OnePlace' /\ trash' \subseteq [file : 1 .. made', time : Nat]
  BY <1>1, ToTrash
<1>3. TrashTypeOK' /\ ChosenInTime'
  BY <1>1, <1>2 DEF TrashInv, TrashTypeOK, ChosenInTime
<1> QED BY <1>2, <1>3 DEF TrashInv

(* An item destroyed with the Trash was only there.                        *)
LEMMA OtherEmptiesKeeps ==
  ASSUME TrashInv, NEW item \in trash, OtherEmpties(item)
  PROVE  TrashInv'
<1>1. /\ trash' = trash \ {item} /\ emptied' = emptied \cup {item.file}
      /\ UNCHANGED <<clock, at_path, trashed, moving, made, restored>>
  BY DEF OtherEmpties
<1>2. item.file \in 1 .. made /\ InTrash(item.file)
  BY DEF TrashInv, TrashTypeOK, InTrash
<1>3. TrashTypeOK' /\ ChosenInTime'
  BY <1>1, <1>2 DEF TrashInv, TrashTypeOK, ChosenInTime
<1>4. \A f \in 1 .. made : InTrash(f)' <=> InTrash(f) /\ f # item.file
  BY <1>1 DEF InTrash, TrashInv, OnePlace
<1>5. \A f : /\ OnPath(f)' <=> OnPath(f)
             /\ Destroyed(f)' <=> Destroyed(f) \/ f = item.file
  BY <1>1 DEF OnPath, Destroyed
<1>6. \A x, y \in trash' : x.file = y.file => x = y
  BY <1>1 DEF TrashInv, OnePlace
<1>7. \A f \in 1 .. made :
         /\ OnPath(f)' \/ InTrash(f)' \/ Destroyed(f)'
         /\ ~(OnPath(f)' /\ InTrash(f)') /\ ~(OnPath(f)' /\ Destroyed(f)')
         /\ ~(InTrash(f)' /\ Destroyed(f)')
  BY <1>2, <1>4, <1>5 DEF TrashInv, OnePlace
<1>8. OnePlace'
  BY <1>1, <1>6, <1>7 DEF OnePlace
<1> QED BY <1>3, <1>8 DEF TrashInv

(* The invariant holds in every reachable state. *)
THEOREM TrashInvariant == TrashSpec => []TrashInv
<1>1. ASSUME TrashInv, [TrashNext]_trashVars
      PROVE  TrashInv'
  <2>1. CASE \E h \in Handles : TrashBegins(h)
    <3>1. PICK h \in Handles : TrashBegins(h)
      BY <2>1
    <3>2. /\ moving' = [handle |-> h, does |-> "trash", since |-> clock]
          /\ UNCHANGED <<clock, at_path, trash, trashed, made, emptied, restored>>
      BY <3>1 DEF TrashBegins
    <3> QED BY <1>1, <3>2 DEF TrashInv, TrashTypeOK, OnePlace, OnPath, InTrash, Destroyed,
                              ChosenInTime
  <2>2. CASE Second
    BY <1>1, <2>2 DEF Second, TrashInv, TrashTypeOK, OnePlace, OnPath, InTrash, Destroyed,
                      ChosenInTime
  <2>3. CASE UNCHANGED trashVars
    BY <1>1, <2>3 DEF trashVars, TrashInv, TrashTypeOK, OnePlace, OnPath, InTrash, Destroyed,
                      ChosenInTime
  <2> QED BY <1>1, <2>1, <2>2, <2>3, CreateKeeps, TrashMovesKeeps, RestoreBeginsKeeps,
             RestoreMovesKeeps, OtherTrashesKeeps, OtherEmptiesKeeps DEF TrashNext
<1> QED BY <1>1, TrashInitInv, PTL DEF TrashSpec

(* A set that holds one thing. *)
LEMMA OneOf ==
  ASSUME NEW S, NEW x, S = {x}
  PROVE  Cardinality(S) = 1
  BY FS_Singleton

(* What a handle brings back, and where every file is. *)
THEOREM NothingOverwritten == TrashSpec => []TrashFaithful
<1>1. ASSUME TrashInv
      PROVE  TrashFaithful
  <2>4. restored # Absent => restored.time + Tolerance >= restored.since
    BY <1>1 DEF TrashInv, ChosenInTime
  <2> SUFFICES ASSUME NEW f \in 1 .. made
               PROVE  Cardinality({p \in {"path"} : at_path = f}
                                    \cup {item \in trash : item.file = f}
                                    \cup {p \in {"emptied"} : f \in emptied}) = 1
    BY <2>4 DEF TrashFaithful
  <2> DEFINE places == {p \in {"path"} : at_path = f} \cup {item \in trash : item.file = f}
                         \cup {p \in {"emptied"} : f \in emptied}
  <2>1. CASE OnPath(f)
    <3>1. places = {"path"}
      BY <1>1, <2>1 DEF TrashInv, OnePlace, OnPath, InTrash, Destroyed
    <3> QED BY <3>1, OneOf
  <2>2. CASE InTrash(f)
    <3>1. PICK item \in trash : item.file = f
      BY <2>2 DEF InTrash
    <3>2. places = {item}
      BY <1>1, <2>2, <3>1 DEF TrashInv, OnePlace, OnPath, Destroyed
    <3> QED BY <3>2, OneOf
  <2>3. CASE Destroyed(f)
    <3>1. places = {"emptied"}
      BY <1>1, <2>3 DEF TrashInv, OnePlace, OnPath, InTrash, Destroyed
    <3> QED BY <3>1, OneOf
  <2> QED BY <1>1, <2>1, <2>2, <2>3 DEF TrashInv, OnePlace
<1> QED BY <1>1, TrashInvariant, PTL

-----------------------------------------------------------------------------
(* Copying and moving a directory. *)

(* The entries that were listed.                                           *)
Entries == DOMAIN Tree

TransferTypeOK ==
    /\ how \in [recursive : BOOLEAN, preserve : BOOLEAN, moves : BOOLEAN, crosses : BOOLEAN,
                in_place : BOOLEAN, alias : BOOLEAN]
    /\ contents = [p \in Places |-> contents[p]]
    /\ index \in 1 .. Len(Tree) + 1
    /\ doing \in {"next", "copying", "removing", "done", "failed"}
    /\ tally \in [files : Nat, skipped : Nat]

(* What is under way is a carry, and a source is removed only after a copy. *)
UnderWay ==
    /\ doing \in {"copying", "removing"} => index \in Entries /\ Carried(index)
    /\ doing = "removing" => how.moves
    /\ doing = "done" => index = Len(Tree) + 1

(* Unless another entry is put over it: a source is there until it is       *)
(* moved, and gone afterwards; and what has been carried has arrived.        *)
SourceKept ==
    \A i \in Entries : ~Overwritten(i) /\ (index <= i \/ ~how.moves \/ ~Carried(i)) =>
        contents[Source(i)] = i
SourceMoved ==
    \A i \in Entries : ~Overwritten(i) /\ Carried(i) /\ i < index /\ how.moves =>
        contents[Source(i)] # i
Arrived ==
    \A i \in Entries :
        /\ ~Overwritten(i) /\ Carried(i)
        /\ i < index \/ (i = index /\ doing = "removing")
        => contents[Dest(i)] = i

(* Each listed entry so far was counted once.                               *)
ListedBefore(n) == {i \in Entries : i < n /\ listed(i)}
Tallied == tally.files + tally.skipped = Cardinality(ListedBefore(index))

TransferInv ==
    TransferTypeOK /\ UnderWay /\ SourceKept /\ SourceMoved /\ Arrived /\ Tallied

(* Where entries are, and where they go.                                    *)
LEMMA TreeFacts ==
    /\ Entries = 1 .. Len(Tree) /\ Len(Tree) \in Nat
    /\ \A i \in Entries : Tree[i].at \in Seq(STRING) /\ Len(Tree[i].at) \in Nat \ {0}
                          /\ Name(i) \in STRING
<1>1. Entries = 1 .. Len(Tree) /\ Len(Tree) \in Nat
  BY TransferAssumption DEF Entries
<1>2. ASSUME NEW i \in Entries
      PROVE  Tree[i].at \in Seq(STRING) /\ Len(Tree[i].at) \in Nat \ {0} /\ Name(i) \in STRING
  <2>1. Tree[i] \in Entry
    BY <1>1, TransferAssumption, ElementOfSeq DEF Entries
  <2>2. Tree[i].at \in Seq(STRING)
    BY <2>1 DEF Entry
  <2>3. Tree[i].at # <<>>
    BY TransferAssumption DEF Entries
  <2>4. Len(Tree[i].at) \in Nat \ {0}
    BY <2>2, <2>3, EmptySeq
  <2> QED BY <2>2, <2>4, ElementOfSeq DEF Name
<1> QED BY <1>1, <1>2

(* Paths under two roots are equal only if both parts are.                  *)
LEMMA Under ==
  ASSUME NEW S, NEW r, NEW s, NEW a \in Seq(S), NEW b \in Seq(S), <<r>> \o a = <<s>> \o b
  PROVE  r = s /\ a = b
<1> DEFINE W == S \cup {r, s}
<1>1. <<r>> \in Seq(W) /\ <<s>> \in Seq(W)
  OBVIOUS
<1>2. a \in Seq(W) /\ b \in Seq(W)
  OBVIOUS
<1> HIDE DEF W
<1>3. (<<r>> \o a)[1] = r /\ (<<s>> \o b)[1] = s
  BY <1>1, <1>2
<1>4. r = s
  BY <1>3
<1> QED BY <1>1, <1>2, <1>4, ConcatSimplifications

(* The same of paths of names.                                              *)
LEMMA UnderText ==
  ASSUME NEW r, NEW s, NEW a \in Seq(STRING), NEW b \in Seq(STRING), <<r>> \o a = <<s>> \o b
  PROVE  r = s /\ a = b
BY Under, Zenon

(* No two entries have one source.                                          *)
LEMMA SourcesDiffer ==
  ASSUME NEW i \in Entries, NEW j \in Entries, Source(i) = Source(j)
  PROVE  i = j
<1>1. Tree[i].at \in Seq(STRING) /\ Tree[j].at \in Seq(STRING)
  BY TreeFacts
<1>2. <<"source">> \o Tree[i].at = <<"source">> \o Tree[j].at
  BY DEF Source
<1>4. Tree[i].at = Tree[j].at
  BY <1>1, <1>2, Under, Zenon
<1> QED BY <1>4, TransferAssumption DEF Entries

(* Where an entry is, and goes, is a place.                                 *)
LEMMA DestPlace ==
  ASSUME NEW i \in Entries
  PROVE  Source(i) \in Places /\ Dest(i) \in Places
<1>1. Tree[i].at \in Relative /\ <<Name(i)>> \in Relative
  BY DEF Relative, Entries
<1>2. <<"source">> \in Roots /\ <<"dest">> \in Roots
  BY DEF Roots
<1>3. \A r \in Roots, a \in Relative : r \o a \in Places
  BY DEF Places
<1> QED BY <1>1, <1>2, <1>3 DEF Source, Dest

(* Nothing lands on a source that is carried away: in place, a file in the  *)
(* way of a flattened one is where it belongs.                              *)
LEMMA NothingLandsOnCarried ==
  ASSUME NEW i \in Entries, NEW j \in Entries, Carried(j)
  PROVE  Dest(i) # Source(j)
<1> SUFFICES ASSUME Dest(i) = Source(j) PROVE FALSE
  OBVIOUS
<1>0. Dest(i) = <<"source">> \o Tree[j].at
  BY DEF Source
<1>a. Tree[i].at \in Seq(STRING) /\ Tree[j].at \in Seq(STRING)
  BY TreeFacts
<1>1. Dest(j) # Source(j)
  BY DEF Carried, is_same_file
<1>2. <<Name(i)>> \in Seq(STRING) /\ <<Name(j)>> \in Seq(STRING)
  <2> DEFINE ni == Name(i) nj == Name(j)
  <2>1. ni \in STRING /\ nj \in STRING
    BY TreeFacts
  <2> HIDE DEF ni, nj
  <2>2. \A S : \A e \in S : <<e>> \in Seq(S)
    OBVIOUS
  <2>3. <<ni>> \in Seq(STRING) /\ <<nj>> \in Seq(STRING)
    BY <2>1, <2>2
  <2> QED BY <2>3 DEF ni, nj
<1>3. CASE how.preserve
  <2>1. Dest(i) = <<IF how.in_place THEN "source" ELSE "dest">> \o Tree[i].at
    BY <1>3 DEF Dest
  <2>2. (IF how.in_place THEN "source" ELSE "dest") = "source" /\ Tree[i].at = Tree[j].at
    <3> DEFINE root == IF how.in_place THEN "source" ELSE "dest"
    <3> DEFINE here == "source"
    <3>1. <<root>> \o Tree[i].at = <<here>> \o Tree[j].at
      BY <1>0, <2>1
    <3> HIDE DEF root, here
    <3>2. root = here /\ Tree[i].at = Tree[j].at
      BY ONLY <1>a, <3>1, UnderText
    <3> QED BY <3>2 DEF root, here
  <2>3. i = j
    BY <2>2, TransferAssumption DEF Entries
  <2> QED BY <1>1, <2>3
<1>4. CASE ~how.preserve
  <2>1. Dest(i) = <<IF how.in_place THEN "source" ELSE "dest">> \o <<Name(i)>>
    BY <1>4 DEF Dest
  <2>2. (IF how.in_place THEN "source" ELSE "dest") = "source" /\ <<Name(i)>> = Tree[j].at
    <3> DEFINE root == IF how.in_place THEN "source" ELSE "dest"
    <3> DEFINE here == "source"
    <3>1. <<root>> \o <<Name(i)>> = <<here>> \o Tree[j].at
      BY <1>0, <2>1
    <3> HIDE DEF root, here
    <3>2. root = here /\ <<Name(i)>> = Tree[j].at
      BY ONLY <1>a, <1>2, <3>1, UnderText
    <3> QED BY <3>2 DEF root, here
  <2>3. Name(j) = Name(i)
    <3>1. Len(<<Name(i)>>) = 1 /\ <<Name(i)>>[1] = Name(i)
      OBVIOUS
    <3> QED BY ONLY <2>2, <3>1 DEF Name
  <2>4. Dest(j) = <<"source">> \o Tree[j].at
    BY <1>4, <2>2, <2>3 DEF Dest
  <2> QED BY <1>1, <2>4 DEF Source
<1> QED BY <1>3, <1>4

-----------------------------------------------------------------------------
(* What a carry leaves of the others.                                       *)
LEMMA CarryLeaves ==
  ASSUME TransferTypeOK, NEW k \in Entries, Carried(k), NEW i \in Entries, i # k, ~Overwritten(i)
  PROVE  /\ Source(i) # Source(k) /\ Source(i) # Dest(k)
         /\ Carried(i) => Dest(i) # Source(k)
         /\ Carried(i) /\ i < k => Dest(i) # Dest(k)
<1>1. Source(i) # Source(k)
  BY SourcesDiffer
<1>2. Dest(i) # Source(k)
  BY NothingLandsOnCarried
<1>3. /\ ~(Carried(i) /\ i < k /\ Dest(k) = Dest(i))
      /\ Dest(k) # Source(i)
  BY DEF Overwritten, Entries
<1> QED BY <1>1, <1>2, <1>3

(* Passing an entry counts it once, if it is listed.                        *)
LEMMA CountsOne ==
  ASSUME NEW n \in Entries
  PROVE  /\ listed(n) => Cardinality(ListedBefore(n + 1)) = Cardinality(ListedBefore(n)) + 1
         /\ ~listed(n) => ListedBefore(n + 1) = ListedBefore(n)
         /\ Cardinality(ListedBefore(n)) \in Nat
<1>1. Entries = 1 .. Len(Tree) /\ Len(Tree) \in Nat
  BY TreeFacts
<1>2. IsFiniteSet(Entries)
  BY <1>1, FS_Interval
<1>3. IsFiniteSet(ListedBefore(n)) /\ n \notin ListedBefore(n)
  BY <1>1, <1>2, FS_Subset DEF ListedBefore
<1>4. ASSUME listed(n) PROVE ListedBefore(n + 1) = ListedBefore(n) \cup {n}
  BY <1>1, <1>4 DEF ListedBefore
<1>5. ASSUME ~listed(n) PROVE ListedBefore(n + 1) = ListedBefore(n)
  BY <1>1, <1>5 DEF ListedBefore
<1> QED BY <1>3, <1>4, <1>5, FS_AddElement, FS_CardinalityType

-----------------------------------------------------------------------------
(* Before the first entry every source is there.                            *)
LEMMA TransferInitInv == TransferInit => TransferInv
<1> SUFFICES ASSUME TransferInit PROVE TransferInv
  OBVIOUS
<1> USE DEF TransferInit
<1>1. Entries = 1 .. Len(Tree) /\ Len(Tree) \in Nat
  BY TreeFacts
<1>2. TransferTypeOK
  BY <1>1 DEF TransferTypeOK
<1>3. UnderWay
  BY DEF UnderWay
<1>4. SourceKept
  <2> SUFFICES ASSUME NEW i \in Entries PROVE contents[Source(i)] = i
    BY DEF SourceKept
  <2>1. \A j \in DOMAIN Tree : Source(i) = Source(j) <=> j = i
    BY SourcesDiffer DEF Entries
  <2>2. Source(i) \in Places
    BY DestPlace
  <2> QED BY <2>1, <2>2 DEF Entries
<1>5. SourceMoved /\ Arrived
  BY <1>1 DEF SourceMoved, Arrived
<1>6. Tallied
  <2>1. ListedBefore(1) = {}
    BY <1>1 DEF ListedBefore
  <2> QED BY <2>1, FS_EmptySet DEF Tallied
<1> QED BY <1>2, <1>3, <1>4, <1>5, <1>6 DEF TransferInv

(* A step that changes neither how, nor what can be told from it, keeps     *)
(* what is carried and overwritten the same.                                *)
LEMMA SameCarried ==
  ASSUME how' = how
  PROVE  /\ \A i : Carried(i)' <=> Carried(i)
         /\ \A i : Overwritten(i)' <=> Overwritten(i)
         /\ \A i : Dest(i)' = Dest(i) /\ Source(i)' = Source(i)
         /\ \A i : listed(i)' <=> listed(i)
         /\ \A n : ListedBefore(n)' = ListedBefore(n)
<1>1. \A i : Dest(i)' = Dest(i) /\ Source(i)' = Source(i)
  BY DEF Dest, Source
<1>2. \A i : (Carried(i)' <=> Carried(i)) /\ (listed(i)' <=> listed(i))
  BY <1>1 DEF Carried, listed, is_same_file
<1>3. \A i : Overwritten(i)' <=> Overwritten(i)
  BY <1>1, <1>2 DEF Overwritten
<1>4. \A n : ListedBefore(n)' = ListedBefore(n)
  BY <1>2 DEF ListedBefore, Entries
<1> QED BY <1>1, <1>2, <1>3, <1>4

(* The filter, special files and files already in place.                    *)
LEMMA PassingKeeps ==
  ASSUME TransferInv, PassOver \/ Skip
  PROVE  TransferInv'
<1> USE DEF TransferInv
<1>1. /\ UNCHANGED <<how, contents>> /\ index \in Entries /\ doing = "next"
      /\ index' = index + 1 /\ doing' = "next" /\ ~Carried(index)
  BY DEF PassOver, Skip, Advance, Carried, Entries, TransferTypeOK, is_same_file
<1>2. Entries = 1 .. Len(Tree) /\ Len(Tree) \in Nat
  BY TreeFacts
<1>3. TransferTypeOK'
  BY <1>1, <1>2 DEF TransferTypeOK, PassOver, Skip
<1>4. UnderWay'
  BY <1>1 DEF UnderWay
<1>5. /\ \A i \in Entries : Overwritten(i)' <=> Overwritten(i)
      /\ \A i \in Entries : Carried(i)' <=> Carried(i)
      /\ \A i \in Entries : Source(i)' = Source(i) /\ Dest(i)' = Dest(i)
      /\ \A n : ListedBefore(n)' = ListedBefore(n)
  BY <1>1, SameCarried
<1>6. \A i \in Entries : i < index' => i < index \/ i = index
  BY <1>1, <1>2
<1>7. SourceKept'
  <2> SUFFICES ASSUME NEW i \in Entries, ~Overwritten(i), index' <= i \/ ~how.moves \/ ~Carried(i)
               PROVE  contents[Source(i)] = i
    BY <1>1, <1>5 DEF SourceKept
  <2>1. index <= i \/ ~how.moves \/ ~Carried(i)
    BY <1>1, <1>2
  <2> QED BY <2>1 DEF SourceKept
<1>8. SourceMoved'
  BY <1>1, <1>5, <1>6 DEF SourceMoved
<1>9. Arrived'
  BY <1>1, <1>5, <1>6 DEF Arrived
<1>10. Tallied'
  <2>1. CASE PassOver
    BY <1>1, <1>5, <2>1, CountsOne DEF PassOver, Tallied
  <2>2. CASE Skip
    BY <1>1, <1>5, <2>2, CountsOne DEF Skip, Tallied, TransferTypeOK
  <2> QED BY <2>1, <2>2
<1> QED BY <1>3, <1>4, <1>7, <1>8, <1>9, <1>10

(* A rename takes one name and gives the other, at once.                    *)
LEMMA RenameKeeps ==
  ASSUME TransferInv, Rename
  PROVE  TransferInv'
<1> USE DEF TransferInv
<1> DEFINE k == index
<1>1. /\ how' = how /\ index \in Entries /\ doing = "next" /\ Carried(index)
      /\ index' = index + 1 /\ doing' = "next" /\ how.moves
      /\ contents' = [contents EXCEPT ![Source(index)] = Nothing,
                                       ![Dest(index)] = contents[Source(index)]]
      /\ tally' = [tally EXCEPT !.files = @ + 1]
  BY DEF Rename, Carries, Advance, Carried, Entries
<1>2. Entries = 1 .. Len(Tree) /\ Len(Tree) \in Nat /\ Nothing \notin Nat
  BY TreeFacts, TransferAssumption
<1>3. TransferTypeOK'
  <2>1. contents' = [p \in Places |-> contents'[p]]
    BY <1>1 DEF TransferTypeOK
  <2>2. tally' \in [files : Nat, skipped : Nat]
    BY <1>1 DEF TransferTypeOK
  <2> QED BY <1>1, <1>2, <2>1, <2>2 DEF TransferTypeOK
<1>4. UnderWay'
  BY <1>1 DEF UnderWay
<1>5. /\ \A i \in Entries : Overwritten(i)' <=> Overwritten(i)
      /\ \A i \in Entries : Carried(i)' <=> Carried(i)
      /\ \A i \in Entries : Source(i)' = Source(i) /\ Dest(i)' = Dest(i)
      /\ \A n : ListedBefore(n)' = ListedBefore(n)
  BY <1>1, SameCarried
<1>6. \A i \in Entries : Source(i) \in Places /\ Dest(i) \in Places
  BY DestPlace
<1>7. Dest(k) # Source(k)
  BY <1>1 DEF Carried, is_same_file
<1>8. ~Overwritten(k) => /\ contents'[Dest(k)] = k /\ contents'[Source(k)] # k
  <2>1. ~Overwritten(k) => contents[Source(k)] = k
    BY <1>1, <1>2 DEF SourceKept
  <2> QED BY <1>1, <1>2, <1>6, <1>7, <2>1 DEF TransferTypeOK
<1>9. ASSUME NEW i \in Entries, i # k, ~Overwritten(i)
      PROVE  /\ contents'[Source(i)] = contents[Source(i)]
             /\ Carried(i) /\ i < k => contents'[Dest(i)] = contents[Dest(i)]
  <2>1. Source(i) \notin {Source(k), Dest(k)}
    BY <1>1, <1>9, CarryLeaves
  <2>2. Carried(i) /\ i < k => Dest(i) \notin {Source(k), Dest(k)}
    BY <1>1, <1>9, CarryLeaves
  <2> QED BY <1>1, <1>6, <2>1, <2>2, <1>9 DEF TransferTypeOK
<1>10. SourceKept'
  <2> SUFFICES ASSUME NEW i \in Entries, ~Overwritten(i), index' <= i \/ ~how.moves \/ ~Carried(i)
               PROVE  contents'[Source(i)] = i
    BY <1>1, <1>5 DEF SourceKept
  <2>1. i # k /\ (index <= i \/ ~how.moves \/ ~Carried(i))
    BY <1>1, <1>2
  <2> QED BY <2>1, <1>9 DEF SourceKept
<1>11. SourceMoved'
  <2> SUFFICES ASSUME NEW i \in Entries, ~Overwritten(i), Carried(i), i < index'
               PROVE  contents'[Source(i)] # i
    BY <1>1, <1>5 DEF SourceMoved
  <2>1. i = k \/ (i < k /\ i # k)
    BY <1>1, <1>2
  <2> QED BY <2>1, <1>1, <1>8, <1>9 DEF SourceMoved
<1>12. Arrived'
  <2> SUFFICES ASSUME NEW i \in Entries, ~Overwritten(i), Carried(i), i < index'
               PROVE  contents'[Dest(i)] = i
    BY <1>1, <1>5 DEF Arrived
  <2>1. i = k \/ (i < k /\ i # k)
    BY <1>1, <1>2
  <2> QED BY <2>1, <1>8, <1>9 DEF Arrived
<1>13. Tallied'
  BY <1>1, <1>5, CountsOne DEF Tallied, TransferTypeOK, Carried
<1> QED BY <1>3, <1>4, <1>10, <1>11, <1>12, <1>13

(* A copy in progress has hurt its destination only.                        *)
LEMMA CopyKeeps ==
  ASSUME TransferInv, CopyBegins \/ CopyEnds
  PROVE  TransferInv'
<1> USE DEF TransferInv
<1> DEFINE k == index
<1>1. /\ how' = how /\ index \in Entries /\ Carried(index) /\ doing # "removing"
      /\ \E c : contents' = [contents EXCEPT ![Dest(index)] = c]
      /\ \/ CopyBegins /\ index' = index /\ doing' = "copying" /\ tally' = tally
         \/ /\ CopyEnds /\ contents' = [contents EXCEPT ![Dest(index)] = contents[Source(index)]]
            /\ \/ how.moves /\ doing' = "removing" /\ index' = index /\ tally' = tally
               \/ ~how.moves /\ doing' = "next" /\ index' = index + 1
                  /\ tally' = [tally EXCEPT !.files = @ + 1]
  BY DEF CopyBegins, CopyEnds, Carries, Advance, Carried, Entries, UnderWay, TransferTypeOK
<1>2. Entries = 1 .. Len(Tree) /\ Len(Tree) \in Nat
  BY TreeFacts
<1>3. TransferTypeOK'
  <2>1. contents' = [p \in Places |-> contents'[p]]
    BY <1>1 DEF TransferTypeOK
  <2>2. tally' \in [files : Nat, skipped : Nat]
    BY <1>1 DEF TransferTypeOK
  <2> QED BY <1>1, <1>2, <2>1, <2>2 DEF TransferTypeOK
<1>5. /\ \A i \in Entries : Overwritten(i)' <=> Overwritten(i)
      /\ \A i \in Entries : Carried(i)' <=> Carried(i)
      /\ \A i \in Entries : Source(i)' = Source(i) /\ Dest(i)' = Dest(i)
      /\ \A n : ListedBefore(n)' = ListedBefore(n)
  BY <1>1, SameCarried
<1>4. UnderWay'
  BY <1>1, <1>5 DEF UnderWay
<1>6. \A i \in Entries : Source(i) \in Places /\ Dest(i) \in Places
  BY DestPlace
<1>7. Dest(k) # Source(k)
  BY <1>1 DEF Carried, is_same_file
<1>8. ~Overwritten(k) /\ CopyEnds => contents'[Dest(k)] = k
  <2>1. ~Overwritten(k) => contents[Source(k)] = k
    BY <1>1, <1>2 DEF SourceKept
  <2> QED BY <1>1, <1>6, <2>1 DEF TransferTypeOK, CopyEnds
<1>9. ASSUME NEW i \in Entries, ~Overwritten(i)
      PROVE  /\ contents'[Source(i)] = contents[Source(i)]
             /\ Carried(i) /\ i < k => contents'[Dest(i)] = contents[Dest(i)]
  <2>1. Source(i) # Dest(k)
    BY <1>1, <1>7, <1>9, CarryLeaves
  <2>2. Carried(i) /\ i < k => Dest(i) # Dest(k)
    BY <1>1, <1>2, <1>9, CarryLeaves
  <2> QED BY <1>1, <1>6, <2>1, <2>2, <1>9 DEF TransferTypeOK
<1>10. SourceKept'
  <2> SUFFICES ASSUME NEW i \in Entries, ~Overwritten(i), index' <= i \/ ~how.moves \/ ~Carried(i)
               PROVE  contents'[Source(i)] = i
    BY <1>1, <1>5 DEF SourceKept
  <2>1. index <= i \/ ~how.moves \/ ~Carried(i)
    BY <1>1, <1>2
  <2> QED BY <2>1, <1>9 DEF SourceKept
<1>11. SourceMoved'
  <2> SUFFICES ASSUME NEW i \in Entries, ~Overwritten(i), Carried(i), i < index', how.moves
               PROVE  contents'[Source(i)] # i
    BY <1>1, <1>5 DEF SourceMoved
  <2>1. i < index
    BY <1>1, <1>2
  <2> QED BY <2>1, <1>9 DEF SourceMoved
<1>12. Arrived'
  <2> SUFFICES ASSUME NEW i \in Entries, ~Overwritten(i), Carried(i),
                      i < index' \/ (i = index' /\ doing' = "removing")
               PROVE  contents'[Dest(i)] = i
    BY <1>1, <1>5 DEF Arrived
  <2>1. (i = k /\ CopyEnds) \/ i < k
    BY <1>1, <1>2
  <2> QED BY <2>1, <1>8, <1>9 DEF Arrived
<1>13. Tallied'
  BY <1>1, <1>5, CountsOne DEF Tallied, TransferTypeOK, Carried
<1> QED BY <1>3, <1>4, <1>10, <1>11, <1>12, <1>13

(* The source of a whole copy is removed.                                   *)
LEMMA RemoveSourceKeeps ==
  ASSUME TransferInv, RemoveSource
  PROVE  TransferInv'
<1> USE DEF TransferInv
<1> DEFINE k == index
<1>1. /\ how' = how /\ index \in Entries /\ doing = "removing" /\ Carried(index)
      /\ index' = index + 1 /\ doing' = "next" /\ how.moves
      /\ contents' = [contents EXCEPT ![Source(index)] = Nothing]
      /\ tally' = [tally EXCEPT !.files = @ + 1]
  BY DEF RemoveSource, UnderWay, Advance
<1>2. Entries = 1 .. Len(Tree) /\ Len(Tree) \in Nat /\ Nothing \notin Nat
  BY TreeFacts, TransferAssumption
<1>3. TransferTypeOK'
  BY <1>1, <1>2 DEF TransferTypeOK
<1>4. UnderWay'
  BY <1>1 DEF UnderWay
<1>5. /\ \A i \in Entries : Overwritten(i)' <=> Overwritten(i)
      /\ \A i \in Entries : Carried(i)' <=> Carried(i)
      /\ \A i \in Entries : Source(i)' = Source(i) /\ Dest(i)' = Dest(i)
      /\ \A n : ListedBefore(n)' = ListedBefore(n)
  BY <1>1, SameCarried
<1>6. \A i \in Entries : Source(i) \in Places /\ Dest(i) \in Places
  BY DestPlace
<1>7. Dest(k) # Source(k)
  BY <1>1 DEF Carried, is_same_file
<1>8. contents'[Source(k)] # k /\ contents'[Dest(k)] = contents[Dest(k)]
  BY <1>1, <1>2, <1>6, <1>7 DEF TransferTypeOK
<1>9. ASSUME NEW i \in Entries, i # k, ~Overwritten(i)
      PROVE  /\ contents'[Source(i)] = contents[Source(i)]
             /\ Carried(i) => contents'[Dest(i)] = contents[Dest(i)]
  <2>1. Source(i) # Source(k) /\ (Carried(i) => Dest(i) # Source(k))
    BY <1>1, <1>9, CarryLeaves
  <2> QED BY <1>1, <1>6, <2>1, <1>9 DEF TransferTypeOK
<1>10. SourceKept'
  <2> SUFFICES ASSUME NEW i \in Entries, ~Overwritten(i), index' <= i \/ ~how.moves \/ ~Carried(i)
               PROVE  contents'[Source(i)] = i
    BY <1>1, <1>5 DEF SourceKept
  <2>1. i # k /\ (index <= i \/ ~how.moves \/ ~Carried(i))
    BY <1>1, <1>2
  <2> QED BY <2>1, <1>9 DEF SourceKept
<1>11. SourceMoved'
  <2> SUFFICES ASSUME NEW i \in Entries, ~Overwritten(i), Carried(i), i < index'
               PROVE  contents'[Source(i)] # i
    BY <1>1, <1>5 DEF SourceMoved
  <2>1. i = k \/ (i < k /\ i # k)
    BY <1>1, <1>2
  <2> QED BY <2>1, <1>1, <1>8, <1>9 DEF SourceMoved
<1>12. Arrived'
  <2> SUFFICES ASSUME NEW i \in Entries, ~Overwritten(i), Carried(i), i < index'
               PROVE  contents'[Dest(i)] = i
    BY <1>1, <1>5 DEF Arrived
  <2>1. i = k \/ (i < k /\ i # k)
    BY <1>1, <1>2
  <2> QED BY <2>1, <1>1, <1>8, <1>9 DEF Arrived
<1>13. Tallied'
  BY <1>1, <1>5, CountsOne DEF Tallied, TransferTypeOK, Carried
<1> QED BY <1>3, <1>4, <1>10, <1>11, <1>12, <1>13

(* Ends, of either kind, change nothing that is anywhere.                   *)
LEMMA EndingKeeps ==
  ASSUME TransferInv, TransferFails \/ TransferDone \/ UNCHANGED transferVars
  PROVE  TransferInv'
<1>1. /\ UNCHANGED <<how, contents, index, tally>>
      /\ doing' \in {"failed", "done", doing} /\ (doing' = "done" => index = Len(Tree) + 1 \/ doing = "done")
  BY DEF TransferFails, TransferDone, transferVars
<1>2. /\ \A i \in Entries : Overwritten(i)' <=> Overwritten(i)
      /\ \A i \in Entries : Carried(i)' <=> Carried(i)
      /\ \A i \in Entries : Source(i)' = Source(i) /\ Dest(i)' = Dest(i)
      /\ \A n : ListedBefore(n)' = ListedBefore(n)
  BY <1>1, SameCarried
<1> QED BY <1>1, <1>2 DEF TransferInv, TransferTypeOK, UnderWay, SourceKept, SourceMoved, Arrived, Tallied

(* transfer_dir: whatever has been passed has been dealt with, and what has *)
(* not is where it was.                                                     *)
THEOREM TransferInvariant == TransferSpec => []TransferInv
<1>1. ASSUME TransferInv, [TransferNext]_transferVars
      PROVE  TransferInv'
  BY <1>1, PassingKeeps, RenameKeeps, CopyKeeps, RemoveSourceKeeps, EndingKeeps DEF TransferNext
<1> QED BY <1>1, TransferInitInv, PTL DEF TransferSpec

(* copy_files, move_files: no byte of a source is lost, wherever it stops.  *)
THEOREM NoFileIsLost == TransferSpec => []NothingLost
<1>1. ASSUME TransferInv
      PROVE  NothingLost
  <2>1. ASSUME NEW i \in Entries
        PROVE  \/ contents[Source(i)] = i
               \/ how.moves /\ Carried(i) /\ contents[Dest(i)] = i
               \/ Overwritten(i)
    <3>1. index <= i \/ i < index
      BY <1>1, TreeFacts DEF TransferInv, TransferTypeOK
    <3> QED BY <1>1, <3>1 DEF TransferInv, SourceKept, Arrived
  <2>2. ASSUME doing = "done"
        PROVE  tally.files + tally.skipped = Cardinality({i \in Entries : listed(i)})
    <3>1. ListedBefore(index) = {i \in Entries : listed(i)}
      BY <1>1, <2>2, TreeFacts DEF ListedBefore, TransferInv, UnderWay
    <3> QED BY <1>1, <3>1 DEF TransferInv, Tallied
  <2>3. ASSUME doing = "done", NEW i \in Entries, Carried(i), ~Overwritten(i)
        PROVE  contents[Dest(i)] = i /\ (how.moves => contents[Source(i)] # i)
    <3>1. i < index
      BY <1>1, <2>3, TreeFacts DEF TransferInv, UnderWay
    <3> QED BY <1>1, <2>3, <3>1 DEF TransferInv, Arrived, SourceMoved
  <2> QED BY <2>1, <2>2, <2>3 DEF NothingLost, Entries
<1> QED BY <1>1, TransferInvariant, PTL

-----------------------------------------------------------------------------
(* Extracting an archive. *)

ExtractTypeOK ==
    /\ options \in [total : Ceilings, file : Ceilings, entries : {1, Unlimited}, symlinks : BOOLEAN]
    /\ stage \in {"open", "writing", "finishing", "done", "failed"}
    /\ tree = [p \in Paths |-> tree[p]]
    /\ used_bytes \in Nat /\ used_entries \in Nat
    /\ dir_modes \in Seq(Paths \X Modes)
    /\ modes = [p \in Paths |-> modes[p]]
    /\ summary \in [files : Nat, directories : Nat, symlinks : Nat, skipped : Nat, bytes : Nat]

(* What is being written is a file, at the entry's path or through a link.  *)
WritesFile ==
    stage = "writing" =>
        /\ current.path \in Paths /\ current.declared \in Nat
        /\ current.target = current.path \/ current.target \in through
        /\ current.target \in Paths => tree[current.target].kind = "file"

(* Every file is whole but the one that is being written, and what went     *)
(* through a link; nothing is left of one entry for the next to read.       *)
FilesWhole ==
    /\ unread = 0
    /\ \A p \in Paths \ through : Is(p, "file") =>
          tree[p].whole \/ (stage = "writing" /\ p = current.target)

(* A directory stays one, and the modes given so far are those of the       *)
(* deepest.                                                                 *)
DirsStay == stage # "failed" => \A i \in DOMAIN dir_modes : Is(dir_modes[i][1], "dir")
DeepestFirst ==
    /\ stage \in {"open", "writing"} => \A a \in Paths : modes[a] = Vacant
    /\ stage = "finishing" =>
          \A a \in Paths : modes[a] # Vacant =>
             \A i \in DOMAIN dir_modes : Len(dir_modes[i][1]) <= Len(a)

(* The entry being written is counted, and not yet reported.                *)
Counted ==
    /\ CountsAgree
    /\ stage # "failed" => Within(used_entries, options.entries)
    /\ stage = "writing" =>
          used_entries = Visited + 1 /\ progress = [entries |-> Visited, bytes |-> summary.bytes]

ExtractInv ==
    /\ ExtractTypeOK /\ WritesFile /\ FilesWhole /\ DirsStay /\ DeepestFirst
    /\ ModesDoNotCollide /\ Counted

(* Nothing is there, and nothing counted, before the first entry.           *)
LEMMA ExtractInitInv == ExtractInit => ExtractInv
<1> SUFFICES ASSUME ExtractInit PROVE ExtractInv
  OBVIOUS
<1> USE ExtractAssumption DEF ExtractInit
<1>1. ExtractTypeOK
  BY DEF ExtractTypeOK
<1>2. WritesFile /\ FilesWhole /\ DirsStay /\ DeepestFirst /\ ModesDoNotCollide
  BY DEF WritesFile, FilesWhole, DirsStay, DeepestFirst, ModesDoNotCollide, Is
<1>3. Counted
  <2>1. options.total \in Nat \cup {Unlimited} /\ options.entries \in {1, Unlimited}
    BY DEF Ceilings
  <2>2. Within(used_bytes, options.total) /\ Within(used_entries, options.entries)
    BY <2>1 DEF Within
  <2>3. Visited = 0
    BY DEF Visited
  <2> QED BY <2>2, <2>3 DEF Counted, CountsAgree
<1> QED BY <1>1, <1>2, <1>3 DEF ExtractInv

(* An entry that fails leaves the counts, and no half file.                 *)
LEMMA FailingKeeps ==
  ASSUME ExtractInv, NEW why, why # "mode", Fail(why), tree' = [p \in Paths |-> tree'[p]],
         stage = "open", UNCHANGED <<options, modes, unread, used_bytes>>, used_entries' = used_entries + 1,
         \A p \in Paths : tree'[p] = tree[p] \/ tree'[p] = [kind |-> "dir"]
  PROVE  ExtractInv'
<1> USE DEF Fail, ExtractInv
<1>1. ExtractTypeOK'
  BY DEF ExtractTypeOK
<1>2. WritesFile' /\ FilesWhole' /\ DirsStay' /\ DeepestFirst' /\ ModesDoNotCollide'
  BY DEF WritesFile, FilesWhole, DirsStay, DeepestFirst, ModesDoNotCollide, Is
<1>3. Counted'
  BY DEF Counted, CountsAgree, Within
<1> QED BY <1>1, <1>2, <1>3

(* create_dir_all changes what was vacant, and nothing else.                *)
LEMMA DirsMade ==
  ASSUME NEW ps
  PROVE  /\ WithDirs(ps) = [p \in Paths |-> WithDirs(ps)[p]]
         /\ \A p \in Paths : WithDirs(ps)[p] = tree[p] \/ (tree[p] = Vacant /\ WithDirs(ps)[p] = [kind |-> "dir"])
         /\ \A p \in Paths : p \in ps => WithDirs(ps)[p] # Vacant
  BY ExtractAssumption DEF WithDirs

(* A refused entry, with a path that leaves the root or over a ceiling.     *)
LEMMA RefusedKeeps ==
  ASSUME ExtractInv, Refused
  PROVE  ExtractInv'
<1>1. PICK why \in {"illegal", "limit"} : Fail(why)
  BY DEF Refused
<1>2. /\ UNCHANGED <<options, modes, tree, used_bytes, unread>> /\ stage = "open"
      /\ used_entries' = used_entries + 1
  BY DEF Refused, Count
<1> QED BY <1>1, <1>2, FailingKeeps DEF ExtractInv, ExtractTypeOK

(* An entry that is skipped is drained and counted.                         *)
LEMMA SkippedKeeps ==
  ASSUME ExtractInv, Skipped
  PROVE  ExtractInv'
<1> USE DEF Skipped, Count, Report, ExtractInv
<1>1. ExtractTypeOK'
  BY DEF ExtractTypeOK
<1>2. WritesFile' /\ FilesWhole' /\ DirsStay' /\ DeepestFirst' /\ ModesDoNotCollide'
  BY DEF WritesFile, FilesWhole, DirsStay, DeepestFirst, ModesDoNotCollide, Is
<1>3. Counted'
  BY DEF Counted, CountsAgree, Visited, Allowed, ExtractTypeOK
<1> QED BY <1>1, <1>2, <1>3

(* visit_dir: a directory is made, and waits for its mode.                  *)
LEMMA VisitDirKeeps ==
  ASSUME ExtractInv, NEW p \in Paths, NEW mode \in Modes \cup {Vacant}, VisitDir(p, mode)
  PROVE  ExtractInv'
<1> USE DEF ExtractInv
<1>1. /\ UNCHANGED <<options, modes, used_bytes, unread>> /\ stage = "open"
      /\ used_entries' = used_entries + 1 /\ ~Is(p, "link") /\ Allowed
  BY DEF VisitDir, Count
<1>2. CASE Fail("illegal") /\ UNCHANGED tree
  BY <1>1, <1>2, FailingKeeps DEF ExtractTypeOK
<1>3. CASE ~(Fail("illegal") /\ UNCHANGED tree)
  <2> DEFINE ps == Ancestors(p) \cup {p}
  <2>1. /\ Enterable(ps) /\ tree' = WithDirs(ps)
        /\ dir_modes' = IF mode = Vacant THEN dir_modes ELSE Append(dir_modes, <<p, mode>>)
        /\ summary' = [summary EXCEPT !.directories = @ + 1]
        /\ Report /\ UNCHANGED <<stage, failure, current, links, through>>
    BY <1>3 DEF VisitDir
  <2>2. /\ tree' = [q \in Paths |-> tree'[q]]
        /\ \A q \in Paths : tree'[q] = tree[q] \/ (tree[q] = Vacant /\ tree'[q] = [kind |-> "dir"])
    BY <2>1, DirsMade
  <2>3. Is(p, "dir")'
    <3>1. tree'[p] = [kind |-> "dir"] \/ Is(p, "dir")
      <4>1. tree[p] = Vacant \/ Is(Target(p), "dir")
        BY <2>1 DEF Enterable
      <4>2. Target(p) = p
        BY <1>1 DEF Target
      <4>3. tree'[p] # Vacant
        BY <2>1, DirsMade
      <4> QED BY <2>2, <4>1, <4>2, <4>3
    <3> QED BY <3>1, <2>2, ExtractAssumption DEF Is
  <2>4. ExtractTypeOK'
    <3>1. dir_modes' \in Seq(Paths \X Modes)
      BY <2>1 DEF ExtractTypeOK
    <3>2. summary' \in [files : Nat, directories : Nat, symlinks : Nat, skipped : Nat, bytes : Nat]
      BY <2>1 DEF ExtractTypeOK
    <3>3. UNCHANGED <<options, stage, used_bytes, modes>> /\ used_entries' \in Nat
      BY <1>1, <2>1 DEF ExtractTypeOK
    <3> QED BY <2>2, <3>1, <3>2, <3>3 DEF ExtractTypeOK
  <2>5. WritesFile' /\ ModesDoNotCollide' /\ DeepestFirst'
    BY <1>1, <2>1 DEF WritesFile, ModesDoNotCollide, DeepestFirst
  <2>8. FilesWhole'
    <3>1. \A q \in Paths : Is(q, "file")' => Is(q, "file") /\ tree'[q] = tree[q]
      BY <2>2 DEF Is
    <3> QED BY <1>1, <2>1, <3>1 DEF FilesWhole
  <2>6. DirsStay'
    <3>1. \A q \in Paths : Is(q, "dir") => Is(q, "dir")'
      BY <2>2, ExtractAssumption DEF Is
    <3>2. \A i \in DOMAIN dir_modes : dir_modes[i][1] \in Paths /\ Is(dir_modes[i][1], "dir")
      BY <1>1 DEF DirsStay, ExtractTypeOK
    <3>3. CASE mode = Vacant
      BY <2>1, <3>1, <3>2, <3>3 DEF DirsStay
    <3>4. CASE mode # Vacant
      <4>1. /\ dir_modes \in Seq(Paths \X Modes) /\ <<p, mode>> \in Paths \X Modes
            /\ dir_modes' = Append(dir_modes, <<p, mode>>)
        BY <2>1, <3>4 DEF ExtractTypeOK
      <4>2. \A i \in DOMAIN dir_modes' : dir_modes'[i][1] = p
               \/ (i \in DOMAIN dir_modes /\ dir_modes'[i] = dir_modes[i])
        BY <4>1
      <4> QED BY <2>3, <3>1, <3>2, <4>2 DEF DirsStay
    <3> QED BY <3>3, <3>4
  <2>7. Counted'
    BY <1>1, <2>1 DEF Counted, CountsAgree, Visited, Allowed, ExtractTypeOK, Report
  <2> QED BY <2>4, <2>5, <2>6, <2>7, <2>8
<1> QED BY <1>2, <1>3

(* visit_file: the file is opened, and truncated, before it is written.     *)
LEMMA OpenFileKeeps ==
  ASSUME ExtractInv, NEW p \in Paths, NEW declared \in Bytes, OpenFile(p, declared)
  PROVE  ExtractInv'
<1> USE DEF ExtractInv
<1>1. /\ UNCHANGED <<options, modes, unread>> /\ stage = "open"
      /\ used_entries' = used_entries + 1 /\ Allowed
  BY DEF OpenFile, Count
<1>2. CASE Fail("limit") /\ UNCHANGED <<tree, used_bytes>>
  BY <1>1, <1>2, FailingKeeps DEF ExtractTypeOK
<1>3. CASE ~(Fail("limit") /\ UNCHANGED <<tree, used_bytes>>)
  <2>1. reserve(declared) /\ used_bytes' = used_bytes + declared /\ declared \in Nat
    BY <1>3, ExtractAssumption DEF OpenFile
  <2>2. Within(used_bytes', options.total)
    BY <2>1 DEF reserve
  <2>3. CASE Fail("io") /\ tree' \in {tree, WithDirs(Ancestors(p))}
    <3>1. /\ tree' = [q \in Paths |-> tree'[q]]
          /\ \A q \in Paths : tree'[q] = tree[q] \/ tree'[q] = [kind |-> "dir"]
      BY <2>3, DirsMade DEF ExtractTypeOK
    <3>2. ExtractTypeOK'
      BY <1>1, <2>1, <2>3, <3>1 DEF ExtractTypeOK, Fail
    <3>3. WritesFile' /\ FilesWhole' /\ DirsStay' /\ DeepestFirst' /\ ModesDoNotCollide'
      BY <1>1, <2>3, <3>1 DEF Fail, WritesFile, FilesWhole, DirsStay, DeepestFirst, ModesDoNotCollide, Is
    <3>4. Counted'
      BY <1>1, <2>2, <2>3 DEF Fail, Counted, CountsAgree
    <3> QED BY <3>2, <3>3, <3>4
  <2>4. CASE ~(Fail("io") /\ tree' \in {tree, WithDirs(Ancestors(p))})
    <3> DEFINE t == Target(p)  grown == WithDirs(Ancestors(p))
    <3>1. /\ tree[t] = Vacant \/ Is(t, "file")
          /\ tree' = [grown EXCEPT ![t] = [kind |-> "file", bytes |-> 0, whole |-> FALSE]]
          /\ stage' = "writing"
          /\ current' = [path |-> p, target |-> t, declared |-> declared]
          /\ through' = IF t = p THEN through \ {p} ELSE through \cup {t}
          /\ UNCHANGED <<failure, dir_modes, links, summary, progress>>
      BY <1>3, <2>1, <2>4 DEF OpenFile
    <3>2. /\ grown = [q \in Paths |-> grown[q]]
          /\ \A q \in Paths : grown[q] = tree[q] \/ (tree[q] = Vacant /\ grown[q] = [kind |-> "dir"])
      BY DirsMade
    <3> HIDE DEF t, grown
    <3>3. /\ tree' = [q \in Paths |-> tree'[q]]
          /\ t \in Paths => tree'[t] = [kind |-> "file", bytes |-> 0, whole |-> FALSE]
          /\ \A q \in Paths : q # t => tree'[q] = tree[q] \/ (tree[q] = Vacant /\ tree'[q] = [kind |-> "dir"])
      BY <3>1, <3>2
    <3>4. ExtractTypeOK'
      BY <1>1, <2>1, <3>1, <3>3 DEF ExtractTypeOK
    <3>5. WritesFile'
      BY <2>1, <3>1, <3>3 DEF WritesFile
    <3>6. FilesWhole'
      BY <1>1, <3>1, <3>3 DEF FilesWhole, Is
    <3>7. DirsStay'
      <4>1. \A q \in Paths : Is(q, "dir") => Is(q, "dir")'
        BY <3>1, <3>3, ExtractAssumption DEF Is
      <4>2. \A i \in DOMAIN dir_modes : dir_modes[i][1] \in Paths /\ Is(dir_modes[i][1], "dir")
        BY <1>1 DEF DirsStay, ExtractTypeOK
      <4> QED BY <3>1, <4>1, <4>2 DEF DirsStay
    <3>8. DeepestFirst' /\ ModesDoNotCollide'
      BY <1>1, <3>1 DEF DeepestFirst, ModesDoNotCollide
    <3>9. Counted'
      BY <1>1, <2>1, <2>2, <3>1 DEF Counted, CountsAgree, Visited, Allowed, ExtractTypeOK
    <3> QED BY <3>4, <3>5, <3>6, <3>7, <3>8, <3>9
  <2> QED BY <2>3, <2>4
<1> QED BY <1>2, <1>3

(* A copy that ends leaves its file whole, or removed.                      *)
LEMMA WriteFileKeeps ==
  ASSUME ExtractInv, NEW held \in Bytes, WriteFile(held)
  PROVE  ExtractInv'
<1> USE DEF ExtractInv
<1>1. /\ UNCHANGED <<options, unread, used_entries, modes, current, dir_modes, links, through>>
      /\ stage = "writing" /\ held \in Nat
  BY ExtractAssumption DEF WriteFile, Fail
<1>2. CASE stage' = "open"
  <2>1. /\ held <= current.declared /\ failure' = failure
        /\ tree' = [tree EXCEPT ![current.target] = [kind |-> "file", bytes |-> held, whole |-> unread = 0]]
        /\ used_bytes' = used_bytes - (current.declared - held)
        /\ summary' = [summary EXCEPT !.files = @ + 1, !.bytes = @ + held]
        /\ Report
    BY <1>2 DEF WriteFile, Fail, settle
  <2> DEFINE t == current.target
  <2>2. /\ tree' = [q \in Paths |-> tree'[q]]
        /\ t \in Paths => tree'[t] = [kind |-> "file", bytes |-> held, whole |-> unread = 0]
        /\ \A q \in Paths : q # t => tree'[q] = tree[q]
    BY <2>1 DEF ExtractTypeOK
  <2>3. /\ current.declared \in Nat /\ used_bytes = summary.bytes + current.declared
        /\ summary.bytes \in Nat
    BY <1>1 DEF WritesFile, Counted, CountsAgree, ExtractTypeOK
  <2>4. summary' \in [files : Nat, directories : Nat, symlinks : Nat, skipped : Nat, bytes : Nat]
    <3>1. summary \in [files : Nat, directories : Nat, symlinks : Nat, skipped : Nat, bytes : Nat]
      BY DEF ExtractTypeOK
    <3>2. summary' = [summary EXCEPT !.files = @ + 1, !.bytes = @ + held] /\ held \in Nat
      BY <1>1, <2>1
    <3>3. summary' = [files |-> summary.files + 1, directories |-> summary.directories,
                      symlinks |-> summary.symlinks, skipped |-> summary.skipped,
                      bytes |-> summary.bytes + held]
      BY ONLY <3>1, <3>2
    <3> QED BY ONLY <3>1, <3>2, <3>3
  <2>5. used_bytes' \in Nat /\ used_bytes' = summary.bytes + held /\ used_bytes' <= used_bytes
    BY <1>1, <2>1, <2>3
  <2>6. ExtractTypeOK'
    BY <1>1, <1>2, <2>2, <2>4, <2>5 DEF ExtractTypeOK
  <2>7. WritesFile' /\ DeepestFirst' /\ ModesDoNotCollide'
    BY <1>1, <1>2, <2>1 DEF WritesFile, DeepestFirst, ModesDoNotCollide
  <2>8. FilesWhole'
    <3>1. t \in Paths => tree'[t].whole
      <4>1. unread = 0
        BY DEF FilesWhole
      <4>2. \A b : [kind |-> "file", bytes |-> held, whole |-> b].whole = b
        OBVIOUS
      <4>3. t \in Paths => tree'[t].whole = (unread = 0)
        BY <2>2, <4>2, Zenon
      <4> QED BY <4>1, <4>3, Zenon
    <3> HIDE DEF t
    <3>2. \A q \in Paths \ through : q # t => (Is(q, "file") => tree[q].whole)
      BY DEF FilesWhole, t
    <3>3. \A q \in Paths \ through : Is(q, "file")' => tree'[q].whole
      BY <2>2, <3>1, <3>2 DEF Is
    <3> QED BY <1>1, <3>3 DEF FilesWhole
  <2>9. DirsStay'
    <3>1. \A i \in DOMAIN dir_modes : dir_modes[i][1] \in Paths /\ Is(dir_modes[i][1], "dir")
      BY <1>1 DEF DirsStay, ExtractTypeOK
    <3>2. \A q \in Paths : Is(q, "dir") => q # t
      BY <1>1 DEF WritesFile, Is
    <3> QED BY <1>1, <2>2, <3>1, <3>2 DEF DirsStay, Is
  <2>10. Counted'
    <3>1. Within(used_bytes', options.total)
      BY <2>5, <1>1, ExtractAssumption DEF Counted, CountsAgree, Within, ExtractTypeOK, Ceilings
    <3>2. Visited' = Visited + 1 /\ summary'.bytes = summary.bytes + held
      BY <1>1, <2>1 DEF Visited, ExtractTypeOK
    <3>3. used_entries = Visited + 1 /\ progress = [entries |-> Visited, bytes |-> summary.bytes]
      BY <1>1 DEF Counted
    <3>4. progress' = [entries |-> Visited + 1, bytes |-> summary'.bytes]
      BY <2>1, <3>3 DEF Report
    <3> QED BY <1>1, <1>2, <2>5, <3>1, <3>2, <3>3, <3>4 DEF Counted, CountsAgree
  <2> QED BY <2>6, <2>7, <2>8, <2>9, <2>10
<1>3. CASE stage' # "open"
  <2>1. /\ tree' = [tree EXCEPT ![current.path] = Vacant] /\ UNCHANGED used_bytes
        /\ stage' = "failed" /\ failure' \in {"mismatch", "io"} /\ UNCHANGED <<summary, progress>>
    BY <1>3 DEF WriteFile, Fail
  <2>2. /\ tree' = [q \in Paths |-> tree'[q]]
        /\ \A q \in Paths : tree'[q] = IF q = current.path THEN Vacant ELSE tree[q]
    BY <2>1 DEF ExtractTypeOK
  <2>3. ExtractTypeOK'
    BY <1>1, <2>1, <2>2 DEF ExtractTypeOK
  <2>4. WritesFile' /\ DirsStay' /\ DeepestFirst' /\ ModesDoNotCollide'
    BY <1>1, <2>1 DEF WritesFile, DirsStay, DeepestFirst, ModesDoNotCollide
  <2>5. FilesWhole'
    BY <1>1, <2>1, <2>2 DEF FilesWhole, WritesFile, Is
  <2>6. Counted'
    BY <1>1, <2>1 DEF Counted, CountsAgree
  <2> QED BY <2>3, <2>4, <2>5, <2>6
<1> QED BY <1>2, <1>3

(* visit_symlink: a link is made where nothing was.                         *)
LEMMA VisitSymlinkKeeps ==
  ASSUME ExtractInv, NEW p \in Paths, NEW to \in Paths, NEW contained \in BOOLEAN,
         VisitSymlink(p, to, contained)
  PROVE  ExtractInv'
<1> USE DEF ExtractInv
<1> DEFINE grown == WithDirs(Ancestors(p))
<1>1. /\ UNCHANGED <<options, modes, used_bytes, unread>> /\ stage = "open"
      /\ used_entries' = used_entries + 1 /\ Allowed
  BY DEF VisitSymlink, Count
<1>2. /\ grown = [q \in Paths |-> grown[q]]
      /\ \A q \in Paths : grown[q] = tree[q] \/ (tree[q] = Vacant /\ grown[q] = [kind |-> "dir"])
  BY DirsMade
<1>3. CASE (Fail("io") \/ Fail("illegal")) /\ tree' \in {tree, grown}
  <2>1. PICK why \in {"io", "illegal"} : Fail(why)
    BY <1>3
  <2>2. /\ tree' = [q \in Paths |-> tree'[q]]
        /\ \A q \in Paths : tree'[q] = tree[q] \/ tree'[q] = [kind |-> "dir"]
    BY <1>2, <1>3 DEF ExtractTypeOK
  <2> QED BY <1>1, <2>1, <2>2, FailingKeeps
<1>4. CASE ~((Fail("io") \/ Fail("illegal")) /\ tree' \in {tree, grown})
  <2>1. /\ tree[p] = Vacant /\ tree' = [grown EXCEPT ![p] = [kind |-> "link", to |-> to]]
        /\ summary' = [summary EXCEPT !.symlinks = @ + 1]
        /\ Report /\ UNCHANGED <<stage, failure, current, dir_modes, through>>
    BY <1>4 DEF VisitSymlink
  <2> HIDE DEF grown
  <2>2. /\ tree' = [q \in Paths |-> tree'[q]] /\ tree'[p] = [kind |-> "link", to |-> to]
        /\ \A q \in Paths : q # p => tree'[q] = tree[q] \/ (tree[q] = Vacant /\ tree'[q] = [kind |-> "dir"])
    BY <1>2, <2>1
  <2>3. ExtractTypeOK'
    <3>1. summary' \in [files : Nat, directories : Nat, symlinks : Nat, skipped : Nat, bytes : Nat]
      BY <2>1 DEF ExtractTypeOK
    <3>2. UNCHANGED <<options, stage, used_bytes, modes, dir_modes>> /\ used_entries' \in Nat
      BY <1>1, <2>1 DEF ExtractTypeOK
    <3> QED BY <2>2, <3>1, <3>2 DEF ExtractTypeOK
  <2>4. WritesFile' /\ DeepestFirst' /\ ModesDoNotCollide'
    BY <1>1, <2>1 DEF WritesFile, DeepestFirst, ModesDoNotCollide
  <2>5. FilesWhole'
    <3>1. \A q \in Paths : Is(q, "file")' => Is(q, "file") /\ tree'[q] = tree[q]
      BY <2>2 DEF Is
    <3> QED BY <1>1, <2>1, <3>1 DEF FilesWhole
  <2>6. DirsStay'
    <3>1. \A q \in Paths : Is(q, "dir") => Is(q, "dir")'
      BY <2>1, <2>2, ExtractAssumption DEF Is
    <3>2. \A i \in DOMAIN dir_modes : dir_modes[i][1] \in Paths /\ Is(dir_modes[i][1], "dir")
      BY <1>1 DEF DirsStay, ExtractTypeOK
    <3> QED BY <2>1, <3>1, <3>2 DEF DirsStay
  <2>7. Counted'
    BY <1>1, <2>1 DEF Counted, CountsAgree, Visited, Allowed, ExtractTypeOK, Report
  <2> QED BY <2>3, <2>4, <2>5, <2>6, <2>7
<1> QED BY <1>3, <1>4

(* Links are verified, and removed, before the modes are applied.           *)
LEMMA VerifyLinksKeeps ==
  ASSUME ExtractInv, NEW p \in Paths, NEW contained \in BOOLEAN, VerifyLinks(p, contained)
  PROVE  ExtractInv'
<1> USE DEF ExtractInv
<1>1. /\ UNCHANGED <<options, unread, current, used_bytes, used_entries, dir_modes, links, modes,
                     summary, progress, through>>
      /\ stage = "open" /\ tree' \in {tree, [tree EXCEPT ![p] = Vacant]}
      /\ \/ stage' = "finishing" /\ UNCHANGED <<failure, tree>>
         \/ stage' = "failed" /\ failure' = "illegal"
  BY DEF VerifyLinks
<1>2. /\ tree' = [q \in Paths |-> tree'[q]]
      /\ \A q \in Paths : tree'[q] \in {Vacant, tree[q]}
  BY <1>1 DEF ExtractTypeOK
<1>3. ExtractTypeOK'
  BY <1>1, <1>2 DEF ExtractTypeOK
<1>4. WritesFile' /\ DeepestFirst' /\ ModesDoNotCollide'
  BY <1>1 DEF WritesFile, DeepestFirst, ModesDoNotCollide
<1>5. FilesWhole'
  BY <1>1, <1>2 DEF FilesWhole, Is
<1>6. DirsStay'
  BY <1>1 DEF DirsStay, Is
<1>7. Counted'
  BY <1>1 DEF Counted, CountsAgree, Visited
<1> QED BY <1>3, <1>4, <1>5, <1>6, <1>7

(* The rest of a sequence, without one element.                             *)
LEMMA Without ==
  ASSUME NEW S, NEW s \in Seq(S), NEW i \in 1 .. Len(s)
  PROVE  LET rest == SubSeq(s, 1, i - 1) \o SubSeq(s, i + 1, Len(s))
         IN  rest \in Seq(S) /\ \A j \in DOMAIN rest : \E m \in DOMAIN s : rest[j] = s[m]
<1> DEFINE head == SubSeq(s, 1, i - 1)  tail == SubSeq(s, i + 1, Len(s))
<1>1. /\ head \in Seq(S) /\ Len(head) = i - 1
      /\ \A j \in 1 .. i - 1 : head[j] = s[j]
  OBVIOUS
<1>2. /\ tail \in Seq(S) /\ Len(tail) = Len(s) - i
      /\ \A j \in 1 .. Len(s) - i : tail[j] = s[i + j]
  OBVIOUS
<1> HIDE DEF head, tail
<1>3. /\ head \o tail \in Seq(S) /\ Len(head \o tail) = Len(s) - 1
      /\ \A j \in 1 .. Len(s) - 1 : j <= i - 1 => (head \o tail)[j] = head[j]
      /\ \A j \in 1 .. Len(s) - 1 : j > i - 1 => (head \o tail)[j] = tail[j - (i - 1)]
  <2>1. /\ head \o tail \in Seq(S) /\ Len(head \o tail) = Len(head) + Len(tail)
        /\ \A j \in 1 .. Len(head) + Len(tail) :
              (head \o tail)[j] = IF j <= Len(head) THEN head[j] ELSE tail[j - Len(head)]
    BY <1>1, <1>2, ConcatProperties
  <2>2. Len(s) \in Nat /\ Len(head) + Len(tail) = Len(s) - 1
    BY <1>1, <1>2
  <2>3. ASSUME NEW j \in 1 .. Len(s) - 1, j <= i - 1
        PROVE  (head \o tail)[j] = head[j]
    BY <1>1, <2>1, <2>2, <2>3
  <2>4. ASSUME NEW j \in 1 .. Len(s) - 1, j > i - 1
        PROVE  (head \o tail)[j] = tail[j - (i - 1)]
    <3>1. ~(j <= Len(head)) /\ Len(head) = i - 1 /\ j \in 1 .. Len(head) + Len(tail)
      BY <1>1, <2>2, <2>4
    <3> QED BY <2>1, <3>1
  <2> QED BY <2>1, <2>2, <2>3, <2>4
<1>4. ASSUME NEW j \in 1 .. Len(s) - 1
      PROVE  \E m \in 1 .. Len(s) : (head \o tail)[j] = s[m]
  <2>3. Len(s) \in Nat /\ i \in Int /\ j \in Int
    OBVIOUS
  <2>1. CASE j <= i - 1
    <3>1. j \in 1 .. i - 1 /\ j \in 1 .. Len(s)
      BY <2>1
    <3> QED BY <1>1, <1>3, <2>1, <3>1
  <2>2. CASE j > i - 1
    <3>1. j - (i - 1) \in 1 .. Len(s) - i /\ i + (j - (i - 1)) \in 1 .. Len(s)
      BY <2>2
    <3>2. (head \o tail)[j] = tail[j - (i - 1)]
      BY <1>3, <2>2
    <3> QED BY <1>2, <3>1, <3>2
  <2>4. j <= i - 1 \/ j > i - 1
    BY <2>3
  <2> QED BY <2>1, <2>2, <2>4
<1>5. DOMAIN (head \o tail) = 1 .. Len(s) - 1 /\ DOMAIN s = 1 .. Len(s)
  BY <1>3
<1>6. head \o tail \in Seq(S) /\ \A j \in DOMAIN (head \o tail) : \E m \in DOMAIN s : (head \o tail)[j] = s[m]
  BY <1>3, <1>4, <1>5
<1> QED BY <1>6 DEF head, tail

(* The folders above a path are shorter.                                    *)
LEMMA AncestorsShorter ==
  ASSUME NEW p \in Paths, NEW a \in Ancestors(p)
  PROVE  a \in Paths /\ Len(a) \in Nat /\ Len(p) \in Nat /\ Len(a) < Len(p)
<1>1. a \in Paths /\ p \in Seq(STRING) /\ a \in Seq(STRING)
  BY ExtractAssumption
<1>2. PICK n \in 1 .. Len(p) - 1 : a = SubSeq(p, 1, n)
  BY DEF Ancestors
<1>3. Len(p) \in Nat /\ Len(a) \in Nat
  BY <1>1
<1>4. \A S : \A s \in Seq(S) : \A m \in 1 .. Len(s) - 1 : Len(SubSeq(s, 1, m)) = m
  OBVIOUS
<1>5. Len(a) = n
  BY <1>1, <1>2, <1>4, Zenon
<1> QED BY <1>1, <1>2, <1>3, <1>5

(* finish: the modes are applied from below.                                *)
LEMMA ApplyModeKeeps ==
  ASSUME ExtractInv, ApplyMode
  PROVE  ExtractInv'
<1> USE DEF ExtractInv
<1>1. PICK i \in DOMAIN dir_modes :
        /\ \A j \in DOMAIN dir_modes :
              \/ Len(dir_modes[j][1]) < Len(dir_modes[i][1])
              \/ Len(dir_modes[j][1]) = Len(dir_modes[i][1]) /\ j >= i
        /\ SetMode(i)
        /\ stage' = IF Reachable(dir_modes[i][1]) THEN stage ELSE "failed"
        /\ failure' = IF Reachable(dir_modes[i][1]) THEN failure ELSE "mode"
  BY DEF ApplyMode
<1> DEFINE p == dir_modes[i][1]
<1>2. stage = "finishing" /\ dir_modes \in Seq(Paths \X Modes)
  BY DEF ApplyMode, ExtractTypeOK
<1>3. p \in Paths /\ Is(p, "dir") /\ \A j \in DOMAIN dir_modes : dir_modes[j][1] \in Paths
  BY <1>2 DEF DirsStay
<1>4. Target(p) = p
  BY <1>3 DEF Target, Is
<1>5. /\ modes' = [modes EXCEPT ![p] = dir_modes[i][2]]
      /\ dir_modes' \in Seq(Paths \X Modes)
      /\ \A j \in DOMAIN dir_modes' : \E m \in DOMAIN dir_modes : dir_modes'[j] = dir_modes[m]
      /\ UNCHANGED <<options, unread, current, used_bytes, used_entries, links, tree,
                     summary, progress, through>>
  <2>1. /\ modes' = [modes EXCEPT ![p] = dir_modes[i][2]]
        /\ dir_modes' = SubSeq(dir_modes, 1, i - 1) \o SubSeq(dir_modes, i + 1, Len(dir_modes))
        /\ UNCHANGED <<options, unread, current, used_bytes, used_entries, links, tree,
                       summary, progress, through>>
    BY <1>1, <1>4 DEF SetMode
  <2>2. i \in 1 .. Len(dir_modes)
    BY <1>2
  <2> DEFINE rest == SubSeq(dir_modes, 1, i - 1) \o SubSeq(dir_modes, i + 1, Len(dir_modes))
  <2> HIDE DEF ExtractInv, p
  <2>3. /\ rest \in Seq(Paths \X Modes)
        /\ \A j \in DOMAIN rest : \E m \in DOMAIN dir_modes : rest[j] = dir_modes[m]
    <3>1. dir_modes \in Seq(Paths \X Modes)
      BY <1>2
    <3> QED BY ONLY <2>2, <3>1, Without, Zenon
  <2>5. dir_modes' = rest
    BY <2>1
  <2> HIDE DEF rest
  <2>4. /\ dir_modes' \in Seq(Paths \X Modes)
        /\ \A j \in DOMAIN dir_modes' : \E m \in DOMAIN dir_modes : dir_modes'[j] = dir_modes[m]
    BY <2>3, <2>5
  <2> QED BY <2>1, <2>4
<1>6. \A q \in Paths : Len(q) \in Nat
  BY ExtractAssumption
<1>7. \A j \in DOMAIN dir_modes : Len(dir_modes[j][1]) <= Len(p)
  BY <1>1, <1>3, <1>6
<1>8. Reachable(p)
  <2> SUFFICES ASSUME NEW a \in Ancestors(p) PROVE modes[a] = Vacant
    BY DEF Reachable
  <2>1. a \in Paths /\ Len(a) \in Nat /\ Len(p) \in Nat /\ Len(a) < Len(p)
    BY <1>3, AncestorsShorter
  <2> QED BY <1>2, <2>1 DEF DeepestFirst
<1>9. stage' = stage /\ failure' = failure
  BY <1>1, <1>8
<1> HIDE DEF p
<1>10. ExtractTypeOK'
  BY <1>2, <1>5, <1>9 DEF ExtractTypeOK
<1>11. WritesFile' /\ ModesDoNotCollide'
  BY <1>2, <1>5, <1>9 DEF WritesFile, ModesDoNotCollide
<1>12. FilesWhole'
  BY <1>5, <1>9 DEF FilesWhole, Is
<1>13. DirsStay'
  BY <1>2, <1>5, <1>9 DEF DirsStay, Is
<1>14. DeepestFirst'
  <2> SUFFICES ASSUME NEW a \in Paths, modes'[a] # Vacant, NEW j \in DOMAIN dir_modes'
               PROVE  Len(dir_modes'[j][1]) <= Len(a)
    BY <1>2, <1>9 DEF DeepestFirst
  <2>1. PICK m \in DOMAIN dir_modes : dir_modes'[j] = dir_modes[m]
    BY <1>5
  <2>2. a = p \/ modes[a] # Vacant
    BY <1>5 DEF ExtractTypeOK
  <2> QED BY <1>2, <1>7, <2>1, <2>2 DEF DeepestFirst
<1>15. Counted'
  BY <1>2, <1>5, <1>9 DEF Counted, CountsAgree, Visited
<1> QED BY <1>10, <1>11, <1>12, <1>13, <1>14, <1>15

(* The end, and no step at all, change nothing.                             *)
LEMMA FinishedKeeps ==
  ASSUME ExtractInv, Finished \/ UNCHANGED extractVars
  PROVE  ExtractInv'
<1> USE DEF ExtractInv
<1>1. /\ UNCHANGED <<options, unread, failure, tree, current, used_bytes, used_entries, dir_modes,
                     links, modes, summary, progress, through>>
      /\ stage' = stage \/ (stage = "finishing" /\ stage' = "done")
  BY DEF Finished, extractVars
<1>2. ExtractTypeOK' /\ WritesFile' /\ DeepestFirst' /\ ModesDoNotCollide'
  BY <1>1 DEF ExtractTypeOK, WritesFile, DeepestFirst, ModesDoNotCollide
<1>3. FilesWhole' /\ DirsStay'
  BY <1>1 DEF FilesWhole, DirsStay, Is
<1>4. Counted'
  BY <1>1 DEF Counted, CountsAgree, Visited
<1> QED BY <1>2, <1>3, <1>4

(* Extracting: every file but the one being written is whole, every folder  *)
(* is there for its mode, and every entry is counted once.                  *)
THEOREM ExtractInvariant == ExtractSpec => []ExtractInv
<1>1. ASSUME ExtractInv, [ExtractNext]_extractVars
      PROVE  ExtractInv'
  BY <1>1, RefusedKeeps, SkippedKeeps, VisitDirKeeps, OpenFileKeeps, WriteFileKeeps,
     VisitSymlinkKeeps, VerifyLinksKeeps, ApplyModeKeeps, FinishedKeeps DEF ExtractNext
<1> QED BY <1>1, ExtractInitInv, PTL DEF ExtractSpec

(* visit_file: no file is left half written, or with another entry's bytes. *)
THEOREM NoFileIsHalf == ExtractSpec => []NoHalfFile
<1>1. ExtractInv => NoHalfFile
  BY DEF ExtractInv, FilesWhole, NoHalfFile
<1> QED BY <1>1, ExtractInvariant, PTL

(* finish: a folder is closed after what is inside it.                      *)
THEOREM ModesReachTheirFolders == ExtractSpec => []ModesDoNotCollide
<1>1. ExtractInv => ModesDoNotCollide
  BY DEF ExtractInv
<1> QED BY <1>1, ExtractInvariant, PTL

(* Budget: what was counted was written, and is within the ceilings.        *)
THEOREM CountsAlwaysAgree == ExtractSpec => []CountsAgree
<1>1. ExtractInv => CountsAgree
  BY DEF ExtractInv, Counted
<1> QED BY <1>1, ExtractInvariant, PTL

-----------------------------------------------------------------------------
(* The accounts of an extraction and the disk. *)

(* What is on disk is no more than the summary says.                        *)
DiskInv ==
    /\ IsFiniteSet(BytesOnDisk) /\ OnDisk <= summary.bytes

(* A step that leaves, removes or truncates files, and writes none.         *)
LEMMA DiskShrinks ==
  ASSUME ExtractInv, DiskInv, summary'.bytes = summary.bytes,
         \A p \in Paths : tree'[p] # Vacant /\ tree'[p].kind = "file" =>
             tree'[p] = tree[p] \/ tree'[p].bytes = 0
  PROVE  DiskInv'
<1>1. ASSUME NEW p \in Paths, Is(p, "file")', NEW b \in 1 .. tree'[p].bytes
      PROVE  Is(p, "file") /\ b \in 1 .. tree[p].bytes
  <2>1. tree'[p].bytes # 0
    BY <1>1
  <2>2. tree'[p] = tree[p]
    BY <1>1, <2>1 DEF Is
  <2> QED BY <1>1, <2>2 DEF Is
<1>2. BytesOnDisk' \subseteq BytesOnDisk
  BY <1>1 DEF BytesOnDisk
<1>3. IsFiniteSet(BytesOnDisk') /\ Cardinality(BytesOnDisk') <= Cardinality(BytesOnDisk)
      /\ Cardinality(BytesOnDisk) \in Nat /\ Cardinality(BytesOnDisk') \in Nat
  BY <1>2, FS_Subset, FS_CardinalityType DEF DiskInv
<1>4. summary.bytes \in Nat
  BY DEF ExtractInv, ExtractTypeOK
<1> QED BY <1>3, <1>4 DEF DiskInv, OnDisk

(* A step that writes one file adds no more than what it held.              *)
LEMMA DiskGrows ==
  ASSUME ExtractInv, DiskInv, NEW t, NEW held \in Nat,
         summary'.bytes = summary.bytes + held,
         \A p \in Paths : p # t => tree'[p] = tree[p],
         t \in Paths => tree'[t].bytes = held
  PROVE  DiskInv'
<1> DEFINE file == {t} \X (1 .. held)  disk == BytesOnDisk
<1>1. ASSUME NEW p \in Paths, Is(p, "file")', NEW b \in 1 .. tree'[p].bytes
      PROVE  <<p, b>> \in disk \cup file
  <2>1. CASE p = t
    BY <1>1, <2>1
  <2>2. CASE p # t
    <3>1. tree'[p] = tree[p]
      BY <2>2
    <3> QED BY <1>1, <3>1 DEF Is, BytesOnDisk
  <2> QED BY <2>1, <2>2
<1>2. BytesOnDisk' \subseteq disk \cup file
  <2> HIDE DEF disk, file
  <2> QED BY <1>1 DEF BytesOnDisk
<1>3. IsFiniteSet(file) /\ Cardinality(file) = held
  <2>1. IsFiniteSet({t}) /\ Cardinality({t}) = 1
    BY FS_Singleton
  <2>2. IsFiniteSet(1 .. held) /\ Cardinality(1 .. held) = held
    BY FS_Interval
  <2>3. IsFiniteSet(file) /\ Cardinality(file) = Cardinality({t}) * Cardinality(1 .. held)
    BY <2>1, <2>2, FS_Product
  <2> QED BY <2>1, <2>2, <2>3
<1> HIDE DEF file
<1>4. IsFiniteSet(disk) /\ Cardinality(disk) \in Nat /\ Cardinality(disk) <= summary.bytes
  BY FS_CardinalityType DEF DiskInv, OnDisk
<1> HIDE DEF disk
<1>5. IsFiniteSet(disk \cup file) /\ Cardinality(disk \cup file) \in Nat
      /\ Cardinality(disk \cup file) <= Cardinality(disk) + held
  <2>1. /\ IsFiniteSet(disk \cup file) /\ IsFiniteSet(disk \cap file)
        /\ Cardinality(disk \cup file) = Cardinality(disk) + Cardinality(file) - Cardinality(disk \cap file)
    BY <1>3, <1>4, FS_Union, FS_Intersection
  <2>2. Cardinality(disk \cap file) \in Nat /\ Cardinality(disk \cup file) \in Nat
    BY <2>1, FS_CardinalityType
  <2> QED BY <1>3, <1>4, <2>1, <2>2
<1>6. IsFiniteSet(BytesOnDisk') /\ Cardinality(BytesOnDisk') <= Cardinality(disk \cup file)
      /\ Cardinality(BytesOnDisk') \in Nat
  BY <1>2, <1>5, FS_Subset, FS_CardinalityType
<1>7. summary.bytes \in Nat
  BY DEF ExtractInv, ExtractTypeOK
<1> QED BY <1>4, <1>5, <1>6, <1>7 DEF DiskInv, OnDisk

(* Every step of an extraction keeps the disk within its accounts.          *)
LEMMA DiskStep == ASSUME ExtractInv, DiskInv, [ExtractNext]_extractVars PROVE DiskInv'
<1> DEFINE Shrunk == /\ summary'.bytes = summary.bytes
                     /\ \A p \in Paths : tree'[p] # Vacant /\ tree'[p].kind = "file" =>
                           tree'[p] = tree[p] \/ tree'[p].bytes = 0
<1>1. \A ps : \A q \in Paths : WithDirs(ps)[q] = tree[q] \/ WithDirs(ps)[q] = [kind |-> "dir"]
  BY DirsMade
<1>2. [kind |-> "dir"].kind # "file"
  OBVIOUS
<1>3. /\ summary \in [files : Nat, directories : Nat, symlinks : Nat, skipped : Nat, bytes : Nat]
      /\ tree = [p \in Paths |-> tree[p]]
  BY DEF ExtractInv, ExtractTypeOK
<1>4. ASSUME Refused PROVE Shrunk
  BY <1>4 DEF Refused, Fail
<1>5. ASSUME Skipped PROVE Shrunk
  BY <1>3, <1>5 DEF Skipped
<1>6. ASSUME NEW p \in Paths, NEW mode \in Modes \cup {Vacant}, VisitDir(p, mode) PROVE Shrunk
  <2>1. summary'.bytes = summary.bytes /\ (tree' = tree \/ \E ps : tree' = WithDirs(ps))
    BY <1>3, <1>6 DEF VisitDir, Fail
  <2> QED BY <1>1, <1>2, <2>1
<1>7. ASSUME NEW p \in Paths, NEW n \in Bytes, OpenFile(p, n) PROVE Shrunk
  <2>1. /\ summary' = summary
        /\ \/ tree' = tree
           \/ tree' = WithDirs(Ancestors(p))
           \/ tree' = [WithDirs(Ancestors(p)) EXCEPT ![Target(p)] =
                          [kind |-> "file", bytes |-> 0, whole |-> FALSE]]
    BY <1>7 DEF OpenFile, Fail
  <2>2. CASE tree' = tree \/ tree' = WithDirs(Ancestors(p))
    BY <1>1, <1>2, <2>1, <2>2
  <2>3. CASE tree' = [WithDirs(Ancestors(p)) EXCEPT ![Target(p)] =
                          [kind |-> "file", bytes |-> 0, whole |-> FALSE]]
    <3> DEFINE grown == WithDirs(Ancestors(p))  t == Target(p)
    <3>1. grown = [q \in Paths |-> grown[q]]
      BY DirsMade
    <3>2. \A q \in Paths : grown[q] = tree[q] \/ grown[q] = [kind |-> "dir"]
      BY <1>1
    <3> HIDE DEF grown, t
    <3>3. \A q \in Paths : tree'[q] = grown[q] \/ tree'[q].bytes = 0
      BY <2>3, <3>1 DEF grown, t
    <3> QED BY <1>2, <2>1, <3>2, <3>3
  <2> QED BY <2>1, <2>2, <2>3
<1>8. ASSUME NEW held \in Bytes, WriteFile(held) PROVE DiskInv'
  <2>1. held \in Nat
    BY ExtractAssumption
  <2>2. CASE tree' = [tree EXCEPT ![current.path] = Vacant] /\ summary' = summary
    <3>1. \A p \in Paths : tree'[p] \in {Vacant, tree[p]}
      BY <1>3, <2>2
    <3> QED BY <2>2, <3>1, DiskShrinks
  <2>3. CASE tree' = [tree EXCEPT ![current.target] = [kind |-> "file", bytes |-> held, whole |-> unread = 0]]
             /\ summary' = [summary EXCEPT !.files = @ + 1, !.bytes = @ + held]
    <3> DEFINE t == current.target  here == unread = 0
    <3>1. summary'.bytes = summary.bytes + held
      BY <1>3, <2>3
    <3>2. tree' = [tree EXCEPT ![t] = [kind |-> "file", bytes |-> held, whole |-> here]]
      BY <2>3
    <3> HIDE DEF t, here
    <3>3. /\ \A p \in Paths : p # t => tree'[p] = tree[p]
          /\ t \in Paths => tree'[t].bytes = held
      BY <1>3, <3>2
    <3> QED BY <2>1, <3>1, <3>3, DiskGrows
  <2> QED BY <1>8, <2>2, <2>3 DEF WriteFile, Fail
<1>9. ASSUME NEW p \in Paths, NEW to \in Paths, NEW ok \in BOOLEAN, VisitSymlink(p, to, ok) PROVE Shrunk
  <2>1. /\ summary'.bytes = summary.bytes
        /\ \/ tree' = tree
           \/ tree' = WithDirs(Ancestors(p))
           \/ tree' = [WithDirs(Ancestors(p)) EXCEPT ![p] = [kind |-> "link", to |-> to]]
    BY <1>3, <1>9 DEF VisitSymlink, Fail
  <2> DEFINE grown == WithDirs(Ancestors(p))
  <2>2. /\ grown = [q \in Paths |-> grown[q]]
        /\ \A q \in Paths : grown[q] = tree[q] \/ grown[q] = [kind |-> "dir"]
    BY DirsMade
  <2>3. [kind |-> "link", to |-> to].kind # "file"
    OBVIOUS
  <2> HIDE DEF grown
  <2>4. \A q \in Paths : \/ tree'[q] = tree[q] \/ tree'[q] = [kind |-> "dir"]
                         \/ tree'[q] = [kind |-> "link", to |-> to]
    BY <2>1, <2>2 DEF grown
  <2> QED BY <1>2, <2>1, <2>3, <2>4
<1>10. ASSUME NEW p \in Paths, NEW ok \in BOOLEAN, VerifyLinks(p, ok) PROVE Shrunk
  <2>1. summary' = summary /\ tree' \in {tree, [tree EXCEPT ![p] = Vacant]}
    BY <1>10 DEF VerifyLinks
  <2>2. \A q \in Paths : tree'[q] \in {Vacant, tree[q]}
    BY <1>3, <2>1
  <2> QED BY <2>1, <2>2
<1>11. ASSUME ApplyMode PROVE Shrunk
  BY <1>11 DEF ApplyMode, SetMode
<1>12. ASSUME Finished \/ UNCHANGED extractVars PROVE Shrunk
  BY <1>12 DEF Finished, extractVars
<1>13. ASSUME Shrunk PROVE DiskInv'
  BY <1>13, DiskShrinks
<1> HIDE DEF Shrunk
<1> QED BY <1>4, <1>5, <1>6, <1>7, <1>8, <1>9, <1>10, <1>11, <1>12, <1>13 DEF ExtractNext

(* Budget: what is counted is what was written, and what the files take on  *)
(* disk is within the ceiling on it.                                        *)
THEOREM AccountsAlwaysAgree == ExtractSpec => []AccountsAgree
<1>1. ExtractInit => DiskInv
  <2> SUFFICES ASSUME ExtractInit PROVE DiskInv
    OBVIOUS
  <2>1. BytesOnDisk = {} /\ summary.bytes = 0
    BY DEF ExtractInit, BytesOnDisk, Is
  <2> QED BY <2>1, FS_EmptySet DEF DiskInv, OnDisk
<1>2. ExtractInv /\ DiskInv /\ [ExtractNext]_extractVars => DiskInv'
  BY DiskStep
<1>3. ExtractInv /\ DiskInv => AccountsAgree
  <2> SUFFICES ASSUME ExtractInv, DiskInv PROVE AccountsAgree
    OBVIOUS
  <2>1. CountsAgree
    BY DEF ExtractInv, Counted
  <2>2. ASSUME stage \in {"open", "finishing", "done"} PROVE Within(OnDisk, options.total)
    <3>1. summary.bytes \in Nat /\ options.total \in Nat \cup {Unlimited} /\ OnDisk \in Nat
      BY FS_CardinalityType, ExtractAssumption DEF ExtractInv, ExtractTypeOK, Ceilings, DiskInv, OnDisk
    <3>2. Within(summary.bytes, options.total)
      BY <2>1, <2>2 DEF CountsAgree
    <3> QED BY <3>1, <3>2 DEF Within, DiskInv
  <2> QED BY <2>1, <2>2 DEF AccountsAgree
<1> QED BY <1>1, <1>2, <1>3, ExtractInvariant, PTL DEF ExtractSpec
=============================================================================
