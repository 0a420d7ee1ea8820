------------------------------ MODULE O11yBridge ------------------------------
(* The tracing layer: tracing's tree of spans, of which some are exported as *)
(* owned spans, some folded into their events, and some opened while the     *)
(* gate was shut.                                                            *)
EXTENDS Naturals, Sequences, Functions

CONSTANTS
    Tasks,      \* threads that open spans
    Remotes,    \* contexts from outside the process
    Fields,     \* the keys of a folded span's fields
    MaxTree,    \* bound: tracing spans
    MaxFrames,  \* bound: nested with_parent calls
    NoContext

\* A context is a span of the tree, which is a number, or it is a remote one.
ASSUME BridgeAssumption ==
    /\ MaxTree \in Nat /\ MaxFrames \in Nat
    /\ Remotes \cap Nat = {} /\ NoContext \notin Nat \cup Remotes

VARIABLES
    gate,       \* "before" init, "open", "shut"
    tracingTree,    \* tracing's spans: see TracingSpan
    remote,     \* REMOTE_PARENT, per thread
    frames,     \* per thread, the with_parent calls running: given and replaced
    emitted     \* what a step has just sent or linked

bridgeVars == <<gate, tracingTree, remote, frames, emitted>>

\* A span: the thread that opened it, its parent, whether it is open, what its extensions hold
\* ("none", "Exported", "Folded"), the context the OwnedSpan was opened
\* under, the fields, each with the span whose value it is, and its failure.
TracingSpan(t, parent, extension, under, fields, failed) ==
    [by |-> t, parent |-> parent, live |-> TRUE, extension |-> extension, under |-> under,
     fields |-> fields, failed |-> failed]

\* SpanRef::scope: the span and its ancestors, innermost first.
scope[s \in 0 .. Len(tracingTree)] ==
    IF s = 0 THEN << >> ELSE <<s>> \o scope[tracingTree[s].parent]

\* The first of these on the path.
Nearest(path, those) ==
    LET at == {i \in DOMAIN path : path[i] \in those}
    IN IF at = {} THEN NoContext ELSE path[CHOOSE i \in at : \A j \in at : i <= j]

Exported == {a \in DOMAIN tracingTree : tracingTree[a].extension = "Exported"}
Giving(k) == {a \in DOMAIN tracingTree : k \in DOMAIN tracingTree[a].fields}

nearest_exported_shallow(s) ==
    IF s \in Exported THEN s ELSE NoContext
nearest_exported(s) == Nearest(scope[s], Exported)

Else(context, other) == IF context = NoContext THEN other ELSE context

\* on_new_span, under a span still open or none; fold_spans decides, and a
\* field named error marks it failed.
OnNewSpan(t) ==
    /\ Len(tracingTree) < MaxTree
    /\ \E parent \in {0} \cup {s \in DOMAIN tracingTree : tracingTree[s].live},
          folds, error \in BOOLEAN, keys \in SUBSET Fields :
          LET under == Else(nearest_exported(parent), remote[t])
              fields == [k \in keys |-> Len(tracingTree) + 1]
          IN tracingTree' = Append(tracingTree,
                IF gate # "open" THEN TracingSpan(t, parent, "none", NoContext, << >>, FALSE)
                ELSE IF folds THEN TracingSpan(t, parent, "Folded", NoContext, fields, FALSE)
                ELSE TracingSpan(t, parent, "Exported", under, << >>, error))
    /\ UNCHANGED <<gate, remote, frames, emitted>>

\* on_record: fields added after a span was created; on a folded one they
\* replace, under the same key.
OnRecord(s) ==
    /\ gate = "open" /\ tracingTree[s].live
    /\ \/ /\ tracingTree[s].extension = "Exported"
          /\ tracingTree' = [tracingTree EXCEPT ![s].failed = TRUE]
       \/ /\ tracingTree[s].extension = "Folded"
          /\ \E k \in Fields : tracingTree' = [tracingTree EXCEPT
                ![s].fields = [f \in DOMAIN @ \cup {k} |-> s]]
    /\ UNCHANGED <<gate, remote, frames, emitted>>

\* on_follows_from: a link to the nearest exported span there.
OnFollowsFrom(s, follows) ==
    /\ gate = "open" /\ tracingTree[s].live /\ tracingTree[follows].live
    /\ tracingTree[s].extension = "Exported" /\ nearest_exported(follows) # NoContext
    /\ emitted' = [link |-> nearest_exported(follows), inside |-> follows]
    /\ UNCHANGED <<gate, tracingTree, remote, frames>>

\* on_event: folded fields, innermost first, under the nearest exported
\* span, which an ERROR event marks failed.
Gathered(path) ==
    [k \in UNION {DOMAIN tracingTree[a].fields : a \in Range(path)} |-> Nearest(path, Giving(k))]
OnEvent(s) ==
    /\ gate = "open"
    /\ s # 0 => tracingTree[s].live
    /\ \E error \in BOOLEAN :
          /\ emitted' = [inside |-> s, error |-> error,
                        under |-> nearest_exported(s), fields |-> Gathered(scope[s])]
          /\ tracingTree' = IF error /\ nearest_exported(s) # NoContext
                              THEN [tracingTree EXCEPT ![nearest_exported(s)].failed = TRUE]
                              ELSE tracingTree
    /\ UNCHANGED <<gate, remote, frames>>

\* on_close, once tracing has no handle and no child of it left; with the
\* gate shut the span is discarded.
OnClose(s) ==
    /\ tracingTree[s].live
    /\ \A c \in DOMAIN tracingTree : tracingTree[c].parent = s => ~tracingTree[c].live
    /\ tracingTree' = [tracingTree EXCEPT ![s].live = FALSE]
    /\ emitted' = IF gate = "open" /\ tracingTree[s].extension = "Exported"
                    THEN [span |-> s, parent |-> tracingTree[s].under] ELSE NoContext
    /\ UNCHANGED <<gate, remote, frames>>

\* with_parent: sets the context while it runs, and puts back what it
\* replaced, whether it returns or panics.
WithParent(t, context) ==
    /\ gate = "open" /\ Len(frames[t]) < MaxFrames
    /\ remote' = [remote EXCEPT ![t] = context]
    /\ frames' = [frames EXCEPT ![t] = Append(@, [given |-> context, previous |-> remote[t]])]
    /\ UNCHANGED <<gate, tracingTree, emitted>>
Restore(t) ==
    /\ frames[t] # << >>
    /\ remote' = [remote EXCEPT ![t] = frames[t][Len(frames[t])].previous]
    /\ frames' = [frames EXCEPT ![t] = SubSeq(@, 1, Len(@) - 1)]
    /\ UNCHANGED <<gate, tracingTree, emitted>>

\* init opens the gate, shutdown shuts it: once each.
Gate ==
    /\ \/ gate = "before" /\ gate' = "open"
       \/ gate = "open" /\ gate' = "shut"
    /\ UNCHANGED <<tracingTree, remote, frames, emitted>>

BridgeInit ==
    /\ gate = "before" /\ tracingTree = << >> /\ emitted = NoContext
    /\ remote = [t \in Tasks |-> NoContext] /\ frames = [t \in Tasks |-> << >>]

\* What was sent is the pipeline's from here on.
Delivered ==
    /\ emitted # NoContext /\ emitted' = NoContext
    /\ UNCHANGED <<gate, tracingTree, remote, frames>>

BridgeNext ==
    \/ Delivered
    \/ /\ emitted = NoContext
       /\ \/ Gate
          \/ \E t \in Tasks : OnNewSpan(t) \/ Restore(t) \/ \E c \in Remotes : WithParent(t, c)
          \/ \E s \in {0} \cup DOMAIN tracingTree : OnEvent(s)
          \/ \E s \in DOMAIN tracingTree :
                OnRecord(s) \/ OnClose(s) \/ \E o \in DOMAIN tracingTree : OnFollowsFrom(s, o)

BridgeSpec == BridgeInit /\ [][BridgeNext]_bridgeVars

Innermost(those) == IF those = {} THEN NoContext
                    ELSE CHOOSE s \in those : \A o \in those : o <= s
Around(s) == Range(scope[s])
ExportedAround(s) == Innermost(Around(s) \cap Exported)

(* What is exported is tracing's tree without the spans that are folded or  *)
(* were opened with the gate shut: a span hangs under the innermost one     *)
(* exported around it, or, with none, under the context of the innermost    *)
(* with_parent still running on its thread; a parent ends after its         *)
(* children; an event lands in the innermost exported span around it, with  *)
(* the innermost value of every folded field, and an error fails that span. *)
TreeStep ==
    /\ \A s \in DOMAIN tracingTree' \ DOMAIN tracingTree, t \in Tasks :
          LET new == tracingTree'[s]
              running == {frames[t][i].given : i \in {Len(frames[t])} \ {0}}
          IN (new.extension = "Exported" /\ new.by = t) =>
                new.under = (IF ExportedAround(new.parent) # NoContext
                               THEN ExportedAround(new.parent)
                               ELSE IF running = {} THEN NoContext ELSE CHOOSE c \in running : TRUE)
    /\ emitted' \notin {emitted, NoContext} =>
          LET e == emitted' IN
          /\ "span" \in DOMAIN e /\ e.parent \in DOMAIN tracingTree =>
                tracingTree[e.parent].live
          /\ "link" \in DOMAIN e => e.link = ExportedAround(e.inside)
          /\ "error" \in DOMAIN e =>
                /\ e.under = ExportedAround(e.inside)
                /\ e.error /\ e.under # NoContext => tracingTree'[e.under].failed
                /\ \A k \in Fields :
                      IF Around(e.inside) \cap Giving(k) = {} THEN k \notin DOMAIN e.fields
                      ELSE e.fields[k] = Innermost(Around(e.inside) \cap Giving(k))
TreePreserved == [][TreeStep]_bridgeVars
=============================================================================
