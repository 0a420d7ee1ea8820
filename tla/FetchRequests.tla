---------------------------- MODULE FetchRequests ----------------------------
(* Fetch: what a fetcher's requests share, and what one of them does.  The  *)
(* HTTP client is built on first use, by whichever requests find none, and *)
(* thrown away by every builder method it was built from.  A text or json  *)
(* request is sent, its body read under a cap, and sent again after a wait *)
(* the server may have asked for.                                          *)
EXTENDS Naturals

CONSTANTS
    Fetchers, Requests,
    RetryCounts,        \* numbers a retry setting takes
    Limits,             \* numbers a body cap takes
    Asks,               \* waits a 429 or a 503 asks for
    MaxBackoff,         \* MAX_BACKOFF_SECS
    MaxBody,            \* bound: the largest body a server sends
    MaxReconfigures,    \* bound: builder calls and clones
    NotSet

\* A client: which request built it, and from which configuration.
Client == [built_by : Requests, built_from : Nat]

ASSUME RequestsAssumption == NotSet \notin Client

VARIABLES
    settings,           \* per fetcher: what its client is built from, its
                        \*   default retries and its default cap
    client,             \* per fetcher: its OnceLock, NotSet while empty
    reconfigured,       \* builder calls and clones made so far
    req                 \* per request: see AtRest

requestVars == <<settings, client, reconfigured, req>>

AtRest == [at |-> "idle"]
Min2(x, y) == IF x < y THEN x ELSE y

fib[n \in Nat] == IF n <= 1 THEN n ELSE fib[n - 1] + fib[n - 2]
fibonacci_delay(n) == fib[n + 1]

\* Options of one request: overrides, and whether its method may be resent.
Options == [retries : RetryCounts \cup {NotSet}, limit : Limits \cup {NotSet},
            idempotent : BOOLEAN, retry_non_idempotent : BOOLEAN]

\* Fetch::header, headers, disable_http2, the timeouts, proxy, no_proxy: a
\* new configuration and no client.  They take the fetcher by value, so no
\* request of it is running.
Unused(f) == \A r \in Requests : req[r].at # "idle" => req[r].of # f
ReconfigureKeeping(f) ==            \* a builder that forgets the client
    /\ Unused(f) /\ reconfigured < MaxReconfigures
    /\ reconfigured' = reconfigured + 1
    /\ settings' = [settings EXCEPT ![f].built_from = reconfigured + 1]
    /\ UNCHANGED <<client, req>>
Reconfigure(f) ==
    /\ Unused(f) /\ reconfigured < MaxReconfigures
    /\ reconfigured' = reconfigured + 1
    /\ settings' = [settings EXCEPT ![f].built_from = reconfigured + 1]
    /\ client' = [client EXCEPT ![f] = NotSet]
    /\ UNCHANGED req

\* retries, max_body_bytes: settings no client is built from.
Adjust(f) ==
    /\ Unused(f) /\ reconfigured < MaxReconfigures
    /\ reconfigured' = reconfigured + 1
    /\ \E n \in RetryCounts, l \in Limits \cup {NotSet} :
          settings' = [settings EXCEPT ![f] = [@ EXCEPT !.retries = n, !.limit = l]]
    /\ UNCHANGED <<client, req>>

CloneFetch(f, g) ==
    /\ f # g /\ Unused(g)
    /\ settings' = [settings EXCEPT ![g] = settings[f]]
    /\ client' = [client EXCEPT ![g] = NotSet]
    /\ reconfigured < MaxReconfigures /\ reconfigured' = reconfigured + 1
    /\ UNCHANGED req

\* prepare: the client, if there is one, and the overrides against the
\* defaults, which cannot change while the request borrows the fetcher.
Or(x, y) == IF x = NotSet THEN y ELSE x
Prepared(f, o) ==
    [at |-> IF client[f] = NotSet THEN "build" ELSE "send",
     of |-> f, client |-> client[f], attempt |-> 0,
     retries |-> IF o.idempotent \/ o.retry_non_idempotent
                   THEN Or(o.retries, settings[f].retries) ELSE 0,
     limit |-> Or(o.limit, settings[f].limit),
     hint |-> NotSet, asked |-> NotSet, body |-> 0, wait |-> 0]

Send(r, f) ==
    /\ req[r] = AtRest
    /\ \E o \in Options : req' = [req EXCEPT ![r] = Prepared(f, o)]
    /\ UNCHANGED <<settings, client, reconfigured>>

\* The client is built from the configuration, and get_or_init keeps the
\* first of those built at once; a proxy URL it rejects is the request's error.
BuildOwn(r) ==                      \* the client built is used, kept or not
    /\ req[r].at = "build"
    /\ LET f == req[r].of
           own == [built_by |-> r, built_from |-> settings[f].built_from]
       IN /\ client' = [client EXCEPT ![f] = Or(@, own)]
          /\ req' = [req EXCEPT ![r] = [@ EXCEPT !.at = "send", !.client = own]]
    /\ UNCHANGED <<settings, reconfigured>>
Build(r) ==
    /\ req[r].at = "build"
    /\ LET f == req[r].of
           own == [built_by |-> r, built_from |-> settings[f].built_from]
           kept == Or(client[f], own)
       IN /\ client' = [client EXCEPT ![f] = kept]
          /\ req' = [req EXCEPT ![r] = [@ EXCEPT !.at = "send", !.client = kept]]
    /\ UNCHANGED <<settings, reconfigured>>
BuildFails(r) ==
    /\ req[r].at = "build"
    /\ req' = [req EXCEPT ![r] = AtRest]
    /\ UNCHANGED <<settings, client, reconfigured>>

\* RetryAfter::take, and what a request becomes when an attempt failed:
\* over, or waiting for the next one.
TakenNever(q) == q
Taken(q) == [q EXCEPT !.hint = NotSet]
Retried(q) ==
    Taken([q EXCEPT !.at = "wait", !.body = 0,
             !.wait = Min2(MaxBackoff, Or(q.hint, fibonacci_delay(q.attempt + 1)))])
Failed(q, transient) ==
    IF q.attempt >= q.retries \/ ~transient THEN AtRest ELSE Retried(q)

\* One attempt's answer: none came; a status that is an error, with the wait
\* it asks for if it is a 429 or a 503; or a body of a declared length.
Statuses == [transient : {TRUE}, ask : Asks \cup {NotSet}]
            \cup [transient : {FALSE}, ask : {NotSet}]
Lost(r) ==
    /\ req[r].at = "send"
    /\ req' = [req EXCEPT ![r] = Failed([@ EXCEPT !.asked = NotSet], TRUE)]
    /\ UNCHANGED <<settings, client, reconfigured>>
Declined(r) ==
    /\ req[r].at = "send"
    /\ \E s \in Statuses :
          req' = [req EXCEPT ![r] =
             Failed([@ EXCEPT !.hint = s.ask, !.asked = s.ask], s.transient)]
    /\ UNCHANGED <<settings, client, reconfigured>>
Over(n, limit) == IF limit = NotSet THEN FALSE ELSE n > limit
Answered(r) ==
    /\ req[r].at = "send"
    /\ \E declared \in 0 .. MaxBody :
          req' = [req EXCEPT ![r] =
             IF Over(declared, @.limit) THEN AtRest           \* BodyTooLarge
             ELSE [@ EXCEPT !.at = "read", !.hint = NotSet, !.asked = NotSet]]
    /\ UNCHANGED <<settings, client, reconfigured>>

\* read_capped: a chunk, whatever length was declared; the end; a break.
Chunk(r) ==
    /\ req[r].at = "read" /\ req[r].body < MaxBody
    /\ req' = [req EXCEPT ![r] =
          IF Over(@.body + 1, @.limit) THEN AtRest            \* BodyTooLarge
          ELSE [@ EXCEPT !.body = req[r].body + 1]]
    /\ UNCHANGED <<settings, client, reconfigured>>
EndBody(r) ==                       \* decoded, or not the JSON asked for
    /\ req[r].at = "read"
    /\ req' = [req EXCEPT ![r] = AtRest]
    /\ UNCHANGED <<settings, client, reconfigured>>
Broken(r) ==
    /\ req[r].at = "read"
    /\ req' = [req EXCEPT ![r] = Failed(@, TRUE)]
    /\ UNCHANGED <<settings, client, reconfigured>>

Awake(r) ==
    /\ req[r].at = "wait"
    /\ req' = [req EXCEPT ![r] = [@ EXCEPT !.at = "send", !.attempt = req[r].attempt + 1,
                                          !.wait = 0, !.asked = NotSet]]
    /\ UNCHANGED <<settings, client, reconfigured>>

RequestsInit ==
    /\ settings = [f \in Fetchers |-> [built_from |-> 0, retries |-> 0, limit |-> NotSet]]
    /\ client = [f \in Fetchers |-> NotSet]
    /\ reconfigured = 0
    /\ req = [r \in Requests |-> AtRest]

RequestsNext ==
    \/ \E f \in Fetchers : Reconfigure(f) \/ Adjust(f)
    \/ \E f, g \in Fetchers : CloneFetch(f, g)
    \/ \E r \in Requests :
          \/ \E f \in Fetchers : Send(r, f)
          \/ Build(r) \/ BuildFails(r) \/ Lost(r) \/ Declined(r) \/ Answered(r)
          \/ Chunk(r) \/ EndBody(r) \/ Broken(r) \/ Awake(r)

RequestsSpec == RequestsInit /\ [][RequestsNext]_requestVars

(* The wait before a retry is the one the very answer that failed asked   *)
(* for, and the Fibonacci one when that answer asked for nothing or none  *)
(* came, never one an earlier attempt was asked for (RetryAfter).          *)
WaitsAsAsked ==
    \A r \in Requests : req[r].at = "wait" =>
        req[r].wait = Min2(MaxBackoff,
                           Or(req[r].asked, fibonacci_delay(req[r].attempt + 1)))

(* Requests of one fetcher use one client between them, however many found *)
(* none and built one, and it is the client of the configuration the       *)
(* fetcher has now (Fetch::client, the builders' resets).                  *)
OneClient ==
    \A r \in Requests : req[r].at \notin {"idle", "build"} =>
        /\ req[r].client = client[req[r].of]
        /\ req[r].client.built_from = settings[req[r].of].built_from
=============================================================================
