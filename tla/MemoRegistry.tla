---------------------------- MODULE MemoRegistry ----------------------------
(***************************************************************************)
(* The disk stores this process has open: one database file, threads that  *)
(* open and release it, background sweeps that keep a store alive, and the *)
(* teardown of a store whose last handle went.                             *)
(*                                                                         *)
(* redb locks the file exclusively.  The registry, OPEN, holds a Weak      *)
(* reference and is a mutex: it is not held while the file is opened, and  *)
(* a teardown holds it until the file is closed.                           *)
(***************************************************************************)
EXTENDS Naturals

CONSTANTS
    Openers,        \* threads of this process
    MaxStores,      \* bound on the stores ever registered
    MaxAttempts,    \* OPEN_ATTEMPTS
    Nobody, Elsewhere   \* distinct markers

ASSUME RegistryAssumption ==
    /\ MaxStores \in Nat /\ MaxAttempts \in Nat \ {0}
    /\ {Nobody, Elsewhere} \cap (Openers \cup 0..MaxStores) = {}
    /\ Openers \cap 0..MaxStores = {}

VARIABLES
    at,         \* where each opener is in open_file
    attempt,    \* its attempt
    handle,     \* the store it holds, 0 for none
    phase,      \* each store: "unused", "live", "dying", "evicted", "closed"
    sweeper,    \* its background sweep: "none", "pending", "running"
    registered, \* the generation OPEN names, 0 for none
    locked,     \* who holds OPEN: a store being torn down, or 0
    file        \* who has the database open

registryVars == <<at, attempt, handle, phase, sweeper, registered, locked, file>>

Stores == 1..MaxStores

(* The strong references: upgrade fails when there is none. *)
Strong(g) == (\E t \in Openers : handle[t] = g) \/ sweeper[g] = "running"

At(t, from, to) == at[t] = from /\ at' = [at EXCEPT ![t] = to]

(* The last strong reference starts the teardown. *)
Released(g, holders, sweeps) ==
    IF holders = {} /\ sweeps # "running" THEN [phase EXCEPT ![g] = "dying"] ELSE phase

-----------------------------------------------------------------------------
(* registered(): share the live store, or clear a dead entry on the way. *)
Lookup(t) ==
    /\ locked = 0
    /\ \/ at[t] = "out" /\ attempt' = [attempt EXCEPT ![t] = 1]
       \/ at[t] = "sleep" /\ attempt' = [attempt EXCEPT ![t] = @ + 1]
    /\ IF registered # 0 /\ Strong(registered)
       THEN /\ handle' = [handle EXCEPT ![t] = registered]
            /\ at' = [at EXCEPT ![t] = "in"]
            /\ UNCHANGED registered
       ELSE /\ registered' = 0
            /\ at' = [at EXCEPT ![t] = "create"]
            /\ UNCHANGED handle
    /\ UNCHANGED <<phase, sweeper, locked, file>>

(* builder.create, without OPEN: the file is locked by whoever has it. *)
Create(t) ==
    /\ \/ file = Nobody /\ At(t, "create", "register") /\ file' = t
       \/ file # Nobody /\ attempt[t] < MaxAttempts /\ At(t, "create", "sleep") /\ UNCHANGED file
       \/ file # Nobody /\ attempt[t] = MaxAttempts /\ At(t, "create", "out") /\ UNCHANGED file
    /\ UNCHANGED <<attempt, handle, phase, sweeper, registered, locked>>

(* register(): another's live store wins; otherwise a new generation, with *)
(* a sweep that holds only a Weak reference.                               *)
Register(t) ==
    /\ locked = 0
    /\ At(t, "register", "in")
    /\ IF registered # 0 /\ Strong(registered)
       THEN /\ handle' = [handle EXCEPT ![t] = registered]
            /\ file' = Nobody
            /\ UNCHANGED <<phase, sweeper, registered>>
       ELSE \E g \in Stores :
            /\ phase[g] = "unused" /\ \A h \in 1..(g - 1) : phase[h] # "unused"
            /\ handle' = [handle EXCEPT ![t] = g]
            /\ phase' = [phase EXCEPT ![g] = "live"]
            /\ sweeper' = [sweeper EXCEPT ![g] = "pending"]
            /\ registered' = g
            /\ file' = g
    /\ UNCHANGED <<attempt, locked>>

Sweeper(g) ==
    /\ \/ /\ sweeper[g] = "pending"
          /\ sweeper' = [sweeper EXCEPT ![g] = IF Strong(g) THEN "running" ELSE "none"]
          /\ UNCHANGED phase
       \/ /\ sweeper[g] = "running"
          /\ sweeper' = [sweeper EXCEPT ![g] = "none"]
          /\ phase' = Released(g, {t \in Openers : handle[t] = g}, "none")
    /\ UNCHANGED <<at, attempt, handle, registered, locked, file>>

Release(t) ==
    /\ At(t, "in", "out")
    /\ handle' = [handle EXCEPT ![t] = 0]
    /\ phase' = Released(handle[t], {u \in Openers \ {t} : handle[u] = handle[t]},
                         sweeper[handle[t]])
    /\ UNCHANGED <<attempt, sweeper, registered, locked, file>>

(* Mutant: the file is closed before OPEN is taken, and whatever OPEN names*)
(* is evicted.                                                             *)
TeardownEarly(g) ==
    /\ \/ phase[g] = "dying" /\ phase' = [phase EXCEPT ![g] = "evicted"]
          /\ file' = Nobody /\ UNCHANGED <<registered, locked>>
       \/ phase[g] = "evicted" /\ locked = 0 /\ phase' = [phase EXCEPT ![g] = "closed"]
          /\ registered' = 0 /\ UNCHANGED <<file, locked>>
    /\ UNCHANGED <<at, attempt, handle, sweeper>>

(* DiskStore::drop: take OPEN, evict its own generation only, close the    *)
(* file, and only then let go of OPEN.                                     *)
Teardown(g) ==
    /\ \/ /\ phase[g] = "dying" /\ locked = 0
          /\ phase' = [phase EXCEPT ![g] = "evicted"]
          /\ registered' = IF registered = g THEN 0 ELSE registered
          /\ locked' = g
          /\ UNCHANGED file
       \/ /\ phase[g] = "evicted"
          /\ phase' = [phase EXCEPT ![g] = "closed"]
          /\ file' = Nobody
          /\ locked' = 0
          /\ UNCHANGED registered
    /\ UNCHANGED <<at, attempt, handle, sweeper>>

(* Another process opens and closes the file. *)
Other ==
    /\ \/ file = Nobody /\ file' = Elsewhere
       \/ file = Elsewhere /\ file' = Nobody
    /\ UNCHANGED <<at, attempt, handle, phase, sweeper, registered, locked>>

-----------------------------------------------------------------------------
RegistryInit ==
    /\ at = [t \in Openers |-> "out"]
    /\ attempt = [t \in Openers |-> 0]
    /\ handle = [t \in Openers |-> 0]
    /\ phase = [g \in Stores |-> "unused"]
    /\ sweeper = [g \in Stores |-> "none"]
    /\ registered = 0
    /\ locked = 0
    /\ file = Nobody

RegistryNext ==
    \/ \E t \in Openers : Lookup(t) \/ Create(t) \/ Register(t) \/ Release(t)
    \/ \E g \in Stores : Sweeper(g) \/ Teardown(g)
    \/ Other

RegistrySpec == RegistryInit /\ [][RegistryNext]_registryVars

-----------------------------------------------------------------------------
(* Properties. *)

(* A store that anybody still holds is the one OPEN names, and holds the   *)
(* file: a later open in this process shares it instead of failing on its  *)
(* lock.  A teardown must not evict its successor.                         *)
LiveIsRegistered ==
    \A g \in Stores : Strong(g) => registered = g /\ file = g
=============================================================================
