------------------------------ MODULE O11ySpans ------------------------------
(* The open spans of each thread: guards on the stack of the thread that    *)
(* opened them, futures that put their span on the stack of whatever thread *)
(* polls them and take it off again, and spans owned by a handle.           *)
EXTENDS Naturals, Sequences, Functions

CONSTANTS
    Workers,    \* threads
    Futures,    \* futures that may be instrumented
    MaxSpans,   \* bound: spans opened
    NoSpan

ASSUME SpansAssumption == MaxSpans \in Nat /\ NoSpan \notin [id : Nat, parked : BOOLEAN]

VARIABLES
    tracing,    \* the gate
    spans,      \* history: per span, by its id, its parent
    stack,      \* context.rs STACK, per thread: ids, innermost last
    guards,     \* the Span guards alive, per thread
    pendingSpans,    \* per future, its PendingSpan; NoSpan before and after
    polls,      \* per thread, the polls under way: a poll may poll another
    owned,      \* the OwnedSpan handles alive
    ended,      \* history: the spans whose owner let them go
    missed,     \* history: those it let go of with the gate shut
    exported    \* the spans handed to the pipeline, in order

spanVars == <<tracing, spans, stack, guards, pendingSpans, polls, owned, ended, missed, exported>>

Ids == 1 .. Len(spans)

Top(seq) == seq[Len(seq)]
Popped(seq) == SubSeq(seq, 1, Len(seq) - 1)

\* The PendingSpan after Instrument, its state parked; FALSE while it is on
\* a stack.
PendingSpan(id, parked) == [id |-> id, parked |-> parked]

\* inherit: the innermost span here is the parent.
Inherited(t) == IF stack[t] = << >> THEN NoSpan ELSE Top(stack[t])
Opened(parent) ==
    /\ Len(spans) < MaxSpans
    /\ spans' = Append(spans, parent)

\* context::remove: the uppermost one with this id, wherever it is.
remove(here, id) ==
    LET found == {i \in DOMAIN here : here[i] = id}
        index == CHOOSE i \in found : \A j \in found : j <= i
    IN IF found = {} THEN here
       ELSE SubSeq(here, 1, index - 1) \o SubSeq(here, index + 1, Len(here))
OnStack(t, id) == id \in Range(stack[t])
Removed(t, id) == remove(stack[t], id)

\* pipeline::record_span, and the history of what was let go.
LetGo(id) ==
    /\ ended' = ended \cup {id}
    /\ missed' = IF tracing THEN missed ELSE missed \cup {id}

\* span! with the gate open; shut, the guard records nothing.
Enter(t) ==
    /\ tracing /\ Opened(Inherited(t))
    /\ stack' = [stack EXCEPT ![t] = Append(@, Len(spans'))]
    /\ guards' = [guards EXCEPT ![t] = @ \cup {Len(spans')}]
    /\ UNCHANGED <<tracing, pendingSpans, polls, owned, ended, missed, exported>>

\* A guard dropped on its thread, in whatever order.
DropGuard(t, id) ==
    /\ id \in guards[t]
    /\ guards' = [guards EXCEPT ![t] = @ \ {id}]
    /\ stack' = [stack EXCEPT ![t] = Removed(t, id)]
    /\ exported' = IF OnStack(t, id) THEN Append(exported, id) ELSE exported
    /\ LetGo(id)
    /\ UNCHANGED <<tracing, spans, pendingSpans, polls, owned>>

\* Instrument::instrument, Span::detach: the guard becomes the future's.
Detach(t, id, f) ==
    /\ id \in guards[t] /\ pendingSpans[f] = NoSpan
    /\ guards' = [guards EXCEPT ![t] = @ \ {id}]
    /\ stack' = [stack EXCEPT ![t] = Removed(t, id)]
    /\ pendingSpans' = [pendingSpans EXCEPT ![f] = PendingSpan(id, OnStack(t, id))]
    /\ UNCHANGED <<tracing, spans, polls, owned, ended, missed, exported>>

Polled(f) == \E t \in Workers : f \in Range(polls[t])

\* Instrumented::poll begins: enter.
PollBegins(t, f) ==
    /\ pendingSpans[f] # NoSpan /\ ~Polled(f)
    /\ polls' = [polls EXCEPT ![t] = Append(@, f)]
    /\ stack' = IF pendingSpans[f].parked THEN [stack EXCEPT ![t] = Append(@, pendingSpans[f].id)] ELSE stack
    /\ pendingSpans' = [pendingSpans EXCEPT ![f].parked = FALSE]
    /\ UNCHANGED <<tracing, spans, guards, owned, ended, missed, exported>>

\* exit: the state is what remove found.
Exited(t, f) == PendingSpan(pendingSpans[f].id, OnStack(t, pendingSpans[f].id))

PollReturnsLeaving(t, f) ==         \* a panic that skips the exit
    /\ polls[t] # << >> /\ f = Top(polls[t])
    /\ polls' = [polls EXCEPT ![t] = Popped(@)]
    /\ UNCHANGED <<tracing, spans, stack, pendingSpans, guards, owned, ended, missed, exported>>
\* The poll was pending, or panicked: Exit's drop took the span back off.
PollReturns(t, f) ==
    /\ polls[t] # << >> /\ f = Top(polls[t])
    /\ polls' = [polls EXCEPT ![t] = Popped(@)]
    /\ stack' = [stack EXCEPT ![t] = Removed(t, pendingSpans[f].id)]
    /\ pendingSpans' = [pendingSpans EXCEPT ![f] = Exited(t, f)]
    /\ UNCHANGED <<tracing, spans, guards, owned, ended, missed, exported>>

\* finish, with the stack and the state as they are: exits first, then takes
\* the state, which is on no stack by then.
SpanFinished(t, f, here) ==
    LET id == pendingSpans[f].id
        found == id \in Range(here)
    IN /\ stack' = [stack EXCEPT ![t] = remove(here, id)]
       /\ exported' = IF found THEN Append(exported, id) ELSE exported
       /\ pendingSpans' = [pendingSpans EXCEPT ![f] = NoSpan]
       /\ LetGo(id)

\* The poll was ready: exited, then finished.
PollReady(t, f) ==
    /\ polls[t] # << >> /\ f = Top(polls[t])
    /\ polls' = [polls EXCEPT ![t] = Popped(@)]
    /\ SpanFinished(t, f, Removed(t, pendingSpans[f].id))
    /\ UNCHANGED <<tracing, spans, guards, owned>>

\* PendingSpan's Drop: a future dropped between polls, on any thread.
DropFuture(t, f) ==
    /\ pendingSpans[f] # NoSpan /\ ~Polled(f)
    /\ SpanFinished(t, f, stack[t])
    /\ UNCHANGED <<tracing, spans, guards, polls, owned>>

\* trace::start: under the current span, under any span's context, or at the root.
StartOwned(t) ==
    /\ tracing
    /\ \E parent \in {Inherited(t), NoSpan} \cup owned : Opened(parent)
    /\ owned' = owned \cup {Len(spans')}
    /\ UNCHANGED <<tracing, stack, guards, pendingSpans, polls, ended, missed, exported>>

\* OwnedSpan's Drop, on any thread; after shutdown it is discarded.
EndOwned(id) ==
    /\ id \in owned
    /\ owned' = owned \ {id}
    /\ exported' = IF tracing THEN Append(exported, id) ELSE exported
    /\ LetGo(id)
    /\ UNCHANGED <<tracing, spans, stack, guards, pendingSpans, polls>>

\* gate::close, by shutdown or by a worker that dies.
CloseGate ==
    /\ tracing /\ tracing' = FALSE
    /\ UNCHANGED <<spans, stack, guards, pendingSpans, polls, owned, ended, missed, exported>>

SpansInit ==
    /\ tracing = TRUE /\ spans = << >> /\ owned = {}
    /\ stack = [t \in Workers |-> << >>] /\ guards = [t \in Workers |-> {}]
    /\ pendingSpans = [f \in Futures |-> NoSpan] /\ polls = [t \in Workers |-> << >>]
    /\ ended = {} /\ missed = {} /\ exported = << >>

SpansNext ==
    \/ CloseGate
    \/ \E t \in Workers : Enter(t) \/ StartOwned(t)
    \/ \E t \in Workers, id \in Ids : DropGuard(t, id)
    \/ \E t \in Workers, f \in Futures :
          \/ PollBegins(t, f) \/ PollReturns(t, f) \/ PollReady(t, f) \/ DropFuture(t, f)
          \/ \E id \in Ids : Detach(t, id, f)
    \/ \E id \in Ids : EndOwned(id)

SpansSpec == SpansInit /\ [][SpansNext]_spanVars

(* A thread's stack holds the spans of its guards and of the futures it is  *)
(* polling, each once, and nothing else: a span that ended, or a future's   *)
(* between two polls, is never the parent of what opens there next          *)
(* (PendingSpan::exit, and the Exit guard of Instrumented::poll).           *)
StacksBalance ==
    \A t \in Workers :
       /\ IsInjective(stack[t])
       /\ Range(stack[t]) = guards[t] \cup {pendingSpans[f].id : f \in Range(polls[t])}

(* A span reaches the exporter when its owner lets it go, once, unless the  *)
(* gate was shut by then (span.rs: a future dropped before it resolves      *)
(* still closes its span; instrumented.rs: closed when it resolves).        *)
EndedIsExported ==
    /\ IsInjective(exported)
    /\ ended \ missed \subseteq Range(exported)
=============================================================================
