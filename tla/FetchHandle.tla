----------------------------- MODULE FetchHandle -----------------------------
(* The handle of a download: what its owner learns of the task behind it.   *)
(* The task reports progress over a watch channel and ends by itself, by an *)
(* abort or by a panic; track and join await it, once between them, and     *)
(* either future may be dropped at an await.                                *)
EXTENDS Naturals

CONSTANTS MaxUpdates        \* bound: progress updates before the last one

VARIABLES
    task,       \* how the background task stands
    last_progress, \* the watch channel: updates sent, and the last one's flags
    seen,       \* the updates the handle has seen
    aborting,   \* abort() was called
    join_handle, \* Download.handle is there
    succeeded,  \* Download.succeeded: "none" until the task was awaited
    digest,     \* the OnceLock the task publishes to is set
    owner,      \* what the owner is doing
    joined,     \* what the last call that returned said
    torn        \* an await of the task itself never returned: its future was
                \*   dropped, or the task's panic was raised through it

handleVars == <<task, last_progress, seen, aborting, join_handle, succeeded, digest,
                owner, joined, torn>>
taskVars == <<task, last_progress, digest>>
ownerVars == <<seen, aborting, join_handle, succeeded, owner, joined, torn>>

Running == task = "running"

\* Progress::in_flight, coalesced by byte count and by time.
Update ==
    /\ Running /\ last_progress.sent < MaxUpdates
    /\ last_progress' = [last_progress EXCEPT !.sent = @ + 1]
    /\ UNCHANGED <<task, digest, ownerVars>>

\* run: the digest if there is one, the last update, the task's result.
Settle ==
    /\ Running
    /\ \E ok, hashed \in BOOLEAN :
          /\ task' = IF ok THEN "ok" ELSE "err"
          /\ digest' = (ok /\ hashed)
          /\ last_progress' = [sent |-> last_progress.sent + 1, completed |-> TRUE, failed |-> ~ok]
    /\ UNCHANGED ownerVars
Panic ==
    /\ Running /\ task' = "panicked"
    /\ UNCHANGED <<last_progress, digest, ownerVars>>
\* An abort lands at an await of the task, which may finish before it.
Aborted ==
    /\ Running /\ aborting /\ task' = "aborted"
    /\ UNCHANGED <<last_progress, digest, ownerVars>>

Cancel ==
    /\ owner = "free"
    /\ aborting' = (aborting \/ join_handle)
    /\ UNCHANGED <<taskVars, seen, join_handle, succeeded, owner, joined, torn>>

Track ==
    /\ owner = "free" /\ owner' = "tracking"
    /\ UNCHANGED <<taskVars, seen, aborting, join_handle, succeeded, joined, torn>>
Changed ==
    /\ owner = "tracking" /\ seen < last_progress.sent
    /\ seen' = last_progress.sent
    /\ UNCHANGED <<taskVars, aborting, join_handle, succeeded, owner, joined, torn>>

\* join_once: it takes the handle, or answers from what the first one kept.
\* join comes here at once, track when the sender is gone.
Awaits ==
    /\ \/ owner = "free"
       \/ owner = "tracking" /\ seen = last_progress.sent /\ ~Running
    /\ IF join_handle
         THEN /\ join_handle' = FALSE
              /\ owner' = IF owner = "free" THEN "joining" ELSE "ending"
              /\ UNCHANGED joined
         ELSE /\ joined' = IF succeeded = "no" THEN "err" ELSE "ok"
              /\ owner' = IF owner = "free" THEN "gone" ELSE "free"
              /\ UNCHANGED join_handle
    /\ UNCHANGED <<taskVars, seen, aborting, succeeded, torn>>

\* joined: the task's result, Cancelled, or its panic.
KeptFromProgress == IF last_progress.failed THEN "no" ELSE "yes"
Kept == IF task = "ok" THEN "yes" ELSE "no"
Awaited ==
    /\ owner \in {"joining", "ending"} /\ ~Running
    /\ IF task = "panicked"
         THEN torn' = TRUE /\ UNCHANGED <<succeeded, joined>>
         ELSE /\ succeeded' = Kept
              /\ joined' = IF task = "ok" THEN "ok" ELSE "err"
              /\ UNCHANGED torn
    /\ owner' = IF owner = "joining" THEN "gone" ELSE "free"
    /\ UNCHANGED <<taskVars, seen, aborting, join_handle>>

\* The owner drops the future it awaits; join took the Download with it.
Dropped ==
    /\ owner \in {"tracking", "joining", "ending"}
    /\ torn' = (torn \/ owner # "tracking")
    /\ owner' = IF owner = "joining" THEN "gone" ELSE "free"
    /\ UNCHANGED <<taskVars, seen, aborting, join_handle, succeeded, joined>>

HandleInit ==
    /\ task = "running" /\ join_handle = TRUE
    /\ last_progress = [sent |-> 0, completed |-> FALSE, failed |-> FALSE]
    /\ seen = 0 /\ aborting = FALSE /\ succeeded = "none" /\ digest = FALSE
    /\ owner = "free" /\ joined = "none" /\ torn = FALSE

HandleNext ==
    \/ Update \/ Settle \/ Panic \/ Aborted
    \/ Cancel \/ Track \/ Changed \/ Awaits \/ Awaited \/ Dropped

HandleSpec == HandleInit /\ [][HandleNext]_handleVars

Outcome == INSTANCE Promise WITH
    outcome <- IF Running THEN "pending" ELSE IF task = "ok" THEN "ok" ELSE "err",
    told <- IF torn THEN "unknown" ELSE IF joined = "none" THEN "nothing" ELSE joined

(* Whatever the order of track, cancel and join, a call that returns says   *)
(* Ok exactly when the transfer succeeded, once or many times: unless the   *)
(* await of the task never returned, for then join_once has let go of the   *)
(* handle and kept nothing, and answers Ok to whatever became of the task.  *)
TruthfulJoin == Outcome!Spec
=============================================================================
