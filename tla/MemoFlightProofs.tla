-------------------------- MODULE MemoFlightProofs --------------------------
(***************************************************************************)
(* Proofs about MemoFlight, for any number of callers, keys and types: the *)
(* flight's own invariant, and on top of it what the callers are told and  *)
(* what is computed for them.                                              *)
(***************************************************************************)
EXTENDS MemoFlight, FiniteSetTheorems, TLAPS

Owners == LeaderPCs \cup AbandonPCs

(* A caller holds an Arc<Call> exactly while it leads or follows a flight. *)
HoldsCall ==
    \A c \in Callers : pc[c] \in Owners \cup FollowerPCs => call[c] \in CallIds

(* The table and the leaders agree, in both directions. *)
LeaderRegistered ==
    \A c \in Callers : pc[c] \in LeaderPCs => calls[FK(c)] = call[c]

RegisteredHasLeader ==
    \A fk \in FlightKeys : calls[fk] # NoCall =>
        \E c \in Callers : pc[c] \in LeaderPCs /\ FK(c) = fk /\ call[c] = calls[fk]

(* No call has two owners. *)
OneOwner ==
    \A c, d \in Callers :
        pc[c] \in Owners /\ pc[d] \in Owners /\ call[c] = call[d] => c = d

(* A call's outcome appears when its owner publishes, not before. *)
Unpublished ==
    \A c \in Callers : ToPublish(c) => outcome[call[c]] = NoOutcome

Published ==
    \A c \in Callers :
        ToNotify(c) \/ (pc[c] = "drop" /\ published[c])
            => outcome[call[c]] # NoOutcome

(* Leader::published is set by the publication and by nothing else. *)
FlagClear ==
    \A c \in Callers : pc[c] \in Owners \ {"drop"} => ~published[c]

(* The leader's own result is there when it is stored, published, returned. *)
HasResult ==
    \A c \in Callers :
        /\ pc[c] \in {"set", "setting"} => out[c] \in Ready
        /\ pc[c] \in {"publish", "notify"} => out[c] \in Outcome
        /\ pc[c] = "drop" /\ published[c] => out[c] \in Outcome

(* A follower of an unpublished call has an owner that will publish. *)
FollowerHasOwner ==
    \A c \in Callers :
        pc[c] \in FollowerPCs /\ outcome[call[c]] = NoOutcome =>
            \E l \in Callers : ToPublish(l) /\ call[l] = call[c]

(* A spawned write is awaited by the one leader that spawned it. *)
TaskAwaited ==
    /\ \A t \in tasks : t.who # NoOne => pc[t.who] = "setting"
    /\ \A t, u \in tasks : t.who = u.who /\ t.who # NoOne => t = u

IInv ==
    /\ TypeOK
    /\ HoldsCall
    /\ LeaderRegistered
    /\ RegisteredHasLeader
    /\ OneOwner
    /\ Unpublished
    /\ Published
    /\ FlagClear
    /\ HasResult
    /\ FollowerHasOwner
    /\ TaskAwaited
    /\ NobodyStranded

-----------------------------------------------------------------------------
(* Data. *)

(* How entries and outcomes are built, and what a ready outcome carries. *)
LEMMA OutcomeFacts ==
    /\ \A o \in Ready : o \in Outcome /\ o.entry \in Entry
    /\ \A e \in Entry : [tag |-> "Ready", entry |-> e] \in Ready
    /\ \A t \in Types, v \in Values : [fp |-> t, val |-> v] \in Entry
    /\ \A v \in Values : [fp |-> Raw, val |-> v] \in Entry
    /\ Abandoned \in Outcome
    /\ [tag |-> "Compute"] \in Outcome /\ [tag |-> "Encode"] \in Outcome
  BY DEF Outcome, Ready, Failure, Entry, Abandoned

(* What a follower makes of an outcome is again an outcome. *)
LEMMA ResolveType ==
  ASSUME NEW t \in Types, NEW o \in Outcome
  PROVE  resolve(t, o) \in Outcome
  BY OutcomeFacts DEF resolve

(* What decodes is an entry. *)
LEMMA DecodeType ==
  ASSUME NEW t \in Types, NEW e \in Entry \cup {NoEntry}, decode(t, e)
  PROVE  e \in Entry
  BY DEF decode

-----------------------------------------------------------------------------
(* Initial states, and one lemma per action. *)

(* The invariant holds before the first request. *)
LEMMA InitIInv == Init => IInv
  BY FlightAssumption
  DEF Init, IInv, TypeOK, HoldsCall, LeaderRegistered, RegisteredHasLeader, OneOwner,
      Unpublished, Published, FlagClear, HasResult, FollowerHasOwner, TaskAwaited,
      NobodyStranded, ToPublish, ToNotify, Owners, LeaderPCs, AbandonPCs, FollowerPCs,
      PCs

USE FlightAssumption, MarkerAssumption
    DEF IInv, ToPublish, ToNotify, Owners, LeaderPCs, AbandonPCs, FollowerPCs, PCs,
        FK, flight_key, locals, history, Goto, Task

(* A request begins: the caller holds no call yet. *)
LEMMA StartStep ==
  ASSUME NEW c \in Callers, NEW k \in Keys, NEW t \in Types, IInv, Start(c, k, t)
  PROVE  IInv'
<1> USE DEF Start
<1>1. TypeOK'
  BY OutcomeFacts, ResolveType, DecodeType DEF TypeOK, HasResult, HoldsCall
<1>2. HasResult'
  BY OutcomeFacts, DecodeType DEF TypeOK, HasResult, TaskAwaited
<1>3. (HoldsCall /\ LeaderRegistered /\ RegisteredHasLeader /\ OneOwner)'
  BY DEF TypeOK, HoldsCall, LeaderRegistered, RegisteredHasLeader, OneOwner, TaskAwaited
<1>4. (Unpublished /\ Published /\ FlagClear /\ TaskAwaited)'
  BY DEF TypeOK, HoldsCall, OneOwner, Unpublished, Published, FlagClear, HasResult,
         TaskAwaited
<1>5. FollowerHasOwner'
  BY DEF TypeOK, HoldsCall, OneOwner, FlagClear, FollowerHasOwner
<1>6. NobodyStranded'
  BY DEF TypeOK, HoldsCall, OneOwner, FlagClear, NobodyStranded
<1> QED BY <1>1, <1>2, <1>3, <1>4, <1>5, <1>6

(* The first look at the store leaves the flight alone. *)
LEMMA LoadStep ==
  ASSUME NEW c \in Callers, IInv, Load(c)
  PROVE  IInv'
<1> USE DEF Load, decode
<1>1. TypeOK'
  BY OutcomeFacts, ResolveType, DecodeType DEF TypeOK, HasResult, HoldsCall
<1>2. HasResult'
  BY OutcomeFacts, DecodeType DEF TypeOK, HasResult, TaskAwaited
<1>3. (HoldsCall /\ LeaderRegistered /\ RegisteredHasLeader /\ OneOwner)'
  BY DEF TypeOK, HoldsCall, LeaderRegistered, RegisteredHasLeader, OneOwner, TaskAwaited
<1>4. (Unpublished /\ Published /\ FlagClear /\ TaskAwaited)'
  BY DEF TypeOK, HoldsCall, OneOwner, Unpublished, Published, FlagClear, HasResult,
         TaskAwaited
<1>5. FollowerHasOwner'
  BY DEF TypeOK, HoldsCall, OneOwner, FlagClear, FollowerHasOwner
<1>6. NobodyStranded'
  BY DEF TypeOK, HoldsCall, OneOwner, FlagClear, NobodyStranded
<1> QED BY <1>1, <1>2, <1>3, <1>4, <1>5, <1>6

(* Flight::enter: a fresh call gets exactly one owner, its leader, and a   *)
(* follower joins a call whose owner has not published.                    *)
LEMMA EnterStep ==
  ASSUME NEW c \in Callers, IInv, Enter(c)
  PROVE  IInv'
<1> USE DEF Enter
<1>1. CASE calls[FK(c)] # NoCall
  <2>1. (TypeOK /\ HasResult /\ HoldsCall)'
    <3>1. FK(c) \in FlightKeys
      BY DEF TypeOK, FlightKeys
    <3>2. calls[FK(c)] \in CallIds
      BY <1>1, <3>1 DEF TypeOK
    <3>3. TypeOK'
      BY <1>1, <3>2 DEF TypeOK
    <3>4. HasResult'
      BY <1>1 DEF TypeOK, HasResult
    <3>5. HoldsCall'
      BY <1>1, <3>2 DEF TypeOK, HoldsCall
    <3> QED BY <3>3, <3>4, <3>5
  <2>2. (LeaderRegistered /\ RegisteredHasLeader /\ OneOwner)'
    <3>1. LeaderRegistered'
      BY <1>1 DEF TypeOK, LeaderRegistered, RegisteredHasLeader, OneOwner
    <3>2. RegisteredHasLeader'
      BY <1>1 DEF TypeOK, LeaderRegistered, RegisteredHasLeader, OneOwner
    <3>3. OneOwner'
      BY <1>1 DEF TypeOK, LeaderRegistered, RegisteredHasLeader, OneOwner
    <3> QED BY <3>1, <3>2, <3>3
  <2>3. (Unpublished /\ Published /\ FlagClear /\ TaskAwaited)'
    BY <1>1 DEF TypeOK, Unpublished, Published, FlagClear, TaskAwaited
  <2>4. FollowerHasOwner'
    <3>1. PICK l \in Callers : pc[l] \in LeaderPCs /\ FK(l) = FK(c) /\ call[l] = calls[FK(c)]
      BY <1>1 DEF RegisteredHasLeader, TypeOK, FlightKeys
    <3>2. outcome[call[l]] = NoOutcome => ToPublish(l)
      BY <3>1 DEF Published
    <3>3. c # l
      BY <3>1
    <3> QED BY <1>1, <3>1, <3>2, <3>3 DEF FollowerHasOwner, TypeOK
  <2>5. NobodyStranded'
    BY <1>1 DEF NobodyStranded, TypeOK
  <2> QED BY <2>1, <2>2, <2>3, <2>4, <2>5
<1>2. CASE calls[FK(c)] = NoCall
  <2>1. PICK id \in CallIds :
            /\ Free(id)
            /\ calls' = [calls EXCEPT ![FK(c)] = id]
            /\ call' = [call EXCEPT ![c] = id]
            /\ outcome' = [outcome EXCEPT ![id] = NoOutcome]
            /\ wakers' = [wakers EXCEPT ![id] = {}]
            /\ answers' = [answers EXCEPT ![id] = {}]
            /\ vanished' = [vanished EXCEPT ![id] = FALSE]
    BY <1>2
  <2>2. /\ pc' = [pc EXCEPT ![c] = "recheck"]
        /\ published' = [published EXCEPT ![c] = FALSE]
        /\ UNCHANGED <<key, type, out, taken, store, tasks, faulty>>
    BY <1>2
  <2>3. FK(c) \in FlightKeys /\ \A d \in Callers : FK(d) \in FlightKeys
    BY DEF TypeOK, FlightKeys
  <2>4. \A d \in Callers : call[d] # id
    BY <2>1 DEF Free
  <2>5. TypeOK'
    BY <2>1, <2>2, <2>3 DEF TypeOK
  <2>6. (HasResult /\ HoldsCall /\ FlagClear /\ TaskAwaited)'
    <3>1. HasResult'
      BY <2>2 DEF TypeOK, HasResult
    <3>2. HoldsCall'
      BY <2>1, <2>2 DEF TypeOK, HoldsCall
    <3>3. FlagClear'
      BY <2>2 DEF TypeOK, FlagClear
    <3>4. TaskAwaited'
      BY <2>2 DEF TypeOK, TaskAwaited
    <3> QED BY <3>1, <3>2, <3>3, <3>4
  <2>7. LeaderRegistered'
    <3>1. \A d \in Callers : pc[d] \in LeaderPCs => FK(d) # FK(c)
      BY <1>2 DEF LeaderRegistered, HoldsCall
    <3> QED BY <2>1, <2>2, <2>3, <3>1 DEF TypeOK, LeaderRegistered
  <2>8. RegisteredHasLeader'
    <3> SUFFICES ASSUME NEW fk \in FlightKeys, calls'[fk] # NoCall
                 PROVE  \E l \in Callers : /\ pc'[l] \in LeaderPCs
                                           /\ FK(l)' = fk
                                           /\ call'[l] = calls'[fk]
      BY DEF RegisteredHasLeader
    <3>1. CASE fk = FK(c)
      BY <2>1, <2>2, <2>3, <3>1 DEF TypeOK
    <3>2. CASE fk # FK(c)
      <4>1. PICK l \in Callers : pc[l] \in LeaderPCs /\ FK(l) = fk /\ call[l] = calls[fk]
        BY <2>1, <2>3, <3>2 DEF TypeOK, RegisteredHasLeader
      <4> QED BY <2>1, <2>2, <2>3, <3>2, <4>1 DEF TypeOK
    <3> QED BY <3>1, <3>2
  <2>9. OneOwner'
    BY <2>1, <2>2, <2>4 DEF TypeOK, OneOwner
  <2>10. (Unpublished /\ Published)'
    <3>1. Unpublished'
      BY <2>1, <2>2, <2>4 DEF TypeOK, Unpublished, Published, HoldsCall
    <3>2. Published'
      BY <2>1, <2>2, <2>4 DEF TypeOK, Unpublished, Published, HoldsCall
    <3> QED BY <3>1, <3>2
  <2>11. /\ \A d \in Callers : d # c => /\ pc'[d] = pc[d] /\ call'[d] = call[d]
                                        /\ published'[d] = published[d]
         /\ \A d \in Callers : call[d] \in CallIds =>
               outcome'[call[d]] = outcome[call[d]] /\ wakers'[call[d]] = wakers[call[d]]
         /\ pc'[c] \notin FollowerPCs /\ taken' = taken
    BY <2>1, <2>2, <2>4 DEF TypeOK
  <2>12. FollowerHasOwner'
    <3> SUFFICES ASSUME NEW d \in Callers, pc'[d] \in FollowerPCs,
                        outcome'[call'[d]] = NoOutcome
                 PROVE  \E l \in Callers : ToPublish(l)' /\ call'[l] = call'[d]
      BY DEF FollowerHasOwner
    <3>1. PICK l \in Callers : ToPublish(l) /\ call[l] = call[d]
      BY <2>11 DEF FollowerHasOwner, HoldsCall
    <3> QED BY <2>11, <3>1
  <2>13. NobodyStranded'
    <3> SUFFICES ASSUME NEW d \in Callers, pc'[d] = "parked"
                 PROVE  \E l \in Callers :
                          /\ call'[l] = call'[d]
                          /\ \/ /\ ToPublish(l)'
                                /\ d \in AsyncCallers => d \in wakers'[call'[d]]
                             \/ /\ ToNotify(l)'
                                /\ d \in AsyncCallers => d \in taken'[l]
      BY DEF NobodyStranded
    <3>1. PICK l \in Callers :
                          /\ call[l] = call[d]
                          /\ \/ /\ ToPublish(l)
                                /\ d \in AsyncCallers => d \in wakers[call[d]]
                             \/ /\ ToNotify(l)
                                /\ d \in AsyncCallers => d \in taken[l]
      BY <2>11 DEF NobodyStranded
    <3>2. l # c /\ d # c /\ call[d] \in CallIds
      BY <2>11, <3>1 DEF HoldsCall
    <3> QED BY <2>11, <3>1, <3>2
  <2> QED BY <2>5, <2>6, <2>7, <2>8, <2>9, <2>10, <2>12, <2>13
<1> QED BY <1>1, <1>2

(* Call::wait and Call::poll: a caller parks only on a call that is not    *)
(* published, with its waker in place.                                     *)
LEMMA WaitStep ==
  ASSUME NEW c \in Callers, IInv, Wait(c)
  PROVE  IInv'
<1> USE DEF Wait, Return
<1>1. TypeOK'
  <2>1. call[c] \in CallIds
    BY DEF HoldsCall
  <2>2. outcome[call[c]] # NoOutcome => resolve(type[c], outcome[call[c]]) \in Outcome
    BY <2>1, ResolveType DEF TypeOK
  <2> HIDE DEF resolve
  <2>3. pc' \in [Callers -> PCs] /\ call' \in [Callers -> CallIds \cup {NoCall}]
    BY DEF TypeOK
  <2>4. answers' \in [CallIds -> SUBSET Outcome]
    BY <2>1, <2>2 DEF TypeOK
  <2>5. wakers' \in [CallIds -> SUBSET Callers]
    BY <2>1 DEF TypeOK
  <2> QED BY <2>3, <2>4, <2>5 DEF TypeOK
<1>2. HasResult'
  BY OutcomeFacts, DecodeType DEF TypeOK, HasResult, TaskAwaited
<1>3. (HoldsCall /\ LeaderRegistered /\ RegisteredHasLeader /\ OneOwner)'
  <2>1. HoldsCall'
    BY DEF TypeOK, HoldsCall
  <2>2. LeaderRegistered'
    BY DEF TypeOK, LeaderRegistered
  <2>3. RegisteredHasLeader'
    BY DEF TypeOK, LeaderRegistered, RegisteredHasLeader
  <2>4. OneOwner'
    BY DEF TypeOK, OneOwner
  <2> QED BY <2>1, <2>2, <2>3, <2>4
<1>4. (Unpublished /\ Published /\ FlagClear /\ TaskAwaited)'
  <2>1. Unpublished'
    BY DEF TypeOK, HoldsCall, OneOwner, Unpublished, FlagClear
  <2>2. Published'
    BY DEF TypeOK, HoldsCall, OneOwner, Unpublished, Published
  <2>3. FlagClear'
    BY DEF TypeOK, FlagClear
  <2>4. TaskAwaited'
    BY DEF TypeOK, TaskAwaited
  <2> QED BY <2>1, <2>2, <2>3, <2>4
<1>5. (FollowerHasOwner /\ NobodyStranded)'
  <2>1. FollowerHasOwner'
    BY DEF TypeOK, HoldsCall, OneOwner, Unpublished, FollowerHasOwner
  <2>2. NobodyStranded'
    BY DEF TypeOK, HoldsCall, OneOwner, Unpublished, Published, FollowerHasOwner, NobodyStranded
  <2> QED BY <2>1, <2>2
<1> QED BY <1>1, <1>2, <1>3, <1>4, <1>5

(* A spurious wake-up only makes a caller look again. *)
LEMMA SpuriousWakeStep ==
  ASSUME NEW c \in Callers, IInv, SpuriousWake(c)
  PROVE  IInv'
<1> USE DEF SpuriousWake
<1>1. TypeOK'
  BY OutcomeFacts, ResolveType, DecodeType DEF TypeOK, HasResult, HoldsCall
<1>2. HasResult'
  BY OutcomeFacts, DecodeType DEF TypeOK, HasResult, TaskAwaited
<1>3. (HoldsCall /\ LeaderRegistered /\ RegisteredHasLeader /\ OneOwner)'
  BY DEF TypeOK, HoldsCall, LeaderRegistered, RegisteredHasLeader, OneOwner, TaskAwaited
<1>4. (Unpublished /\ Published /\ FlagClear /\ TaskAwaited)'
  BY DEF TypeOK, HoldsCall, OneOwner, Unpublished, Published, FlagClear, HasResult,
         TaskAwaited
<1>5. (FollowerHasOwner /\ NobodyStranded)'
  BY DEF TypeOK, HoldsCall, OneOwner, Unpublished, Published, FlagClear, HasResult,
         FollowerHasOwner, TaskAwaited, NobodyStranded
<1> QED BY <1>1, <1>2, <1>3, <1>4, <1>5

(* The second look: a hit is ready to be published. *)
LEMMA RecheckStep ==
  ASSUME NEW c \in Callers, IInv, Recheck(c)
  PROVE  IInv'
<1> USE DEF Recheck
<1>1. TypeOK'
  <2>1. decode(type[c], store[key[c]]) => store[key[c]] \in Entry
    BY DecodeType DEF TypeOK
  <2>2. out' \in [Callers -> Outcome \cup {NoOutcome}]
    BY <2>1, OutcomeFacts DEF TypeOK
  <2>3. pc' \in [Callers -> PCs] /\ faulty' \in [Callers -> BOOLEAN]
    BY DEF TypeOK
  <2> QED BY <2>2, <2>3 DEF TypeOK
<1>2. HasResult'
  BY OutcomeFacts, DecodeType DEF TypeOK, HasResult, TaskAwaited
<1>3. (HoldsCall /\ LeaderRegistered /\ RegisteredHasLeader /\ OneOwner)'
  <2>1. HoldsCall'
    BY DEF TypeOK, HoldsCall
  <2>2. LeaderRegistered'
    BY DEF TypeOK, LeaderRegistered
  <2>3. RegisteredHasLeader'
    BY DEF TypeOK, LeaderRegistered, RegisteredHasLeader
  <2>4. OneOwner'
    BY DEF TypeOK, OneOwner
  <2> QED BY <2>1, <2>2, <2>3, <2>4
<1>4. (Unpublished /\ Published /\ FlagClear /\ TaskAwaited)'
  <2>1. Unpublished'
    BY DEF TypeOK, HoldsCall, OneOwner, Unpublished, FlagClear
  <2>2. Published'
    BY DEF TypeOK, HoldsCall, OneOwner, Unpublished, Published
  <2>3. FlagClear'
    BY DEF TypeOK, FlagClear
  <2>4. TaskAwaited'
    BY DEF TypeOK, TaskAwaited
  <2> QED BY <2>1, <2>2, <2>3, <2>4
<1>5. FollowerHasOwner'
  BY DEF TypeOK, HoldsCall, OneOwner, FlagClear, FollowerHasOwner
<1>6. NobodyStranded'
  BY DEF TypeOK, HoldsCall, OneOwner, FlagClear, NobodyStranded
<1> QED BY <1>1, <1>2, <1>3, <1>4, <1>5, <1>6

(* The computation ends with something to store or to publish. *)
LEMMA ComputeStep ==
  ASSUME NEW c \in Callers, IInv, Compute(c)
  PROVE  IInv'
<1> USE DEF Compute
<1>1. TypeOK'
  <2>1. CASE \E v \in Values :
               /\ out' = [out EXCEPT ![c] =
                            [tag |-> "Ready", entry |-> [fp |-> type[c], val |-> v]]]
               /\ Goto(c, "set")
    <3>1. PICK v \in Values :
               out' = [out EXCEPT ![c] =
                            [tag |-> "Ready", entry |-> [fp |-> type[c], val |-> v]]]
      BY <2>1
    <3>2. [tag |-> "Ready", entry |-> [fp |-> type[c], val |-> v]] \in Outcome
      BY OutcomeFacts DEF TypeOK
    <3> QED BY <2>1, <3>1, <3>2 DEF TypeOK
  <2>2. CASE \E failure \in {"Compute", "Encode"} :
               /\ out' = [out EXCEPT ![c] = [tag |-> failure]]
               /\ Goto(c, "publish")
    BY <2>2, OutcomeFacts DEF TypeOK
  <2> QED BY <2>1, <2>2
<1>2. HasResult'
  BY OutcomeFacts, DecodeType DEF TypeOK, HasResult, TaskAwaited
<1>3. (HoldsCall /\ LeaderRegistered /\ RegisteredHasLeader /\ OneOwner)'
  <2>1. HoldsCall'
    BY DEF TypeOK, HoldsCall
  <2>2. LeaderRegistered'
    BY DEF TypeOK, LeaderRegistered
  <2>3. RegisteredHasLeader'
    BY DEF TypeOK, LeaderRegistered, RegisteredHasLeader
  <2>4. OneOwner'
    BY DEF TypeOK, OneOwner
  <2> QED BY <2>1, <2>2, <2>3, <2>4
<1>4. (Unpublished /\ Published /\ FlagClear /\ TaskAwaited)'
  <2>1. Unpublished'
    BY DEF TypeOK, HoldsCall, OneOwner, Unpublished, FlagClear
  <2>2. Published'
    BY DEF TypeOK, HoldsCall, OneOwner, Unpublished, Published
  <2>3. FlagClear'
    BY DEF TypeOK, FlagClear
  <2>4. TaskAwaited'
    BY DEF TypeOK, TaskAwaited
  <2> QED BY <2>1, <2>2, <2>3, <2>4
<1>5. FollowerHasOwner'
  BY DEF TypeOK, HoldsCall, OneOwner, FlagClear, FollowerHasOwner
<1>6. NobodyStranded'
  BY DEF TypeOK, HoldsCall, OneOwner, FlagClear, NobodyStranded
<1> QED BY <1>1, <1>2, <1>3, <1>4, <1>5, <1>6

(* The write in place leaves the flight alone. *)
LEMMA SetStep ==
  ASSUME NEW c \in Callers, IInv, Set(c)
  PROVE  IInv'
<1> USE DEF Set, Written
<1>1. TypeOK'
  BY OutcomeFacts, ResolveType, DecodeType DEF TypeOK, HasResult, HoldsCall
<1>2. HasResult'
  BY OutcomeFacts, DecodeType DEF TypeOK, HasResult, TaskAwaited
<1>3. (HoldsCall /\ LeaderRegistered /\ RegisteredHasLeader /\ OneOwner)'
  BY DEF TypeOK, HoldsCall, LeaderRegistered, RegisteredHasLeader, OneOwner, TaskAwaited
<1>4. (Unpublished /\ Published /\ FlagClear /\ TaskAwaited)'
  BY DEF TypeOK, HoldsCall, OneOwner, Unpublished, Published, FlagClear, HasResult,
         TaskAwaited
<1>5. (FollowerHasOwner /\ NobodyStranded)'
  BY DEF TypeOK, HoldsCall, OneOwner, Unpublished, Published, FlagClear, HasResult,
         FollowerHasOwner, TaskAwaited, NobodyStranded
<1> QED BY <1>1, <1>2, <1>3, <1>4, <1>5

(* A spawned write is awaited by its leader. *)
LEMMA SpawnSetStep ==
  ASSUME NEW c \in Callers, IInv, SpawnSet(c)
  PROVE  IInv'
<1> USE DEF SpawnSet
<1>1. TypeOK'
  BY OutcomeFacts, ResolveType, DecodeType DEF TypeOK, HasResult, HoldsCall
<1>2. HasResult'
  BY OutcomeFacts, DecodeType DEF TypeOK, HasResult, TaskAwaited
<1>3. (HoldsCall /\ LeaderRegistered /\ RegisteredHasLeader /\ OneOwner)'
  BY DEF TypeOK, HoldsCall, LeaderRegistered, RegisteredHasLeader, OneOwner, TaskAwaited
<1>4. (Unpublished /\ Published /\ FlagClear /\ TaskAwaited)'
  BY DEF TypeOK, HoldsCall, OneOwner, Unpublished, Published, FlagClear, HasResult,
         TaskAwaited
<1>5. (FollowerHasOwner /\ NobodyStranded)'
  BY DEF TypeOK, HoldsCall, OneOwner, Unpublished, Published, FlagClear, HasResult,
         FollowerHasOwner, TaskAwaited, NobodyStranded
<1> QED BY <1>1, <1>2, <1>3, <1>4, <1>5

(* A spawned write sends whoever still awaits it on to publish. *)
LEMMA RunTaskStep ==
  ASSUME NEW t \in tasks, IInv, RunTask(t)
  PROVE  IInv'
<1> USE DEF RunTask, Written
<1>1. TypeOK'
  BY OutcomeFacts, ResolveType, DecodeType DEF TypeOK, HasResult, HoldsCall
<1>2. HasResult'
  BY OutcomeFacts, DecodeType DEF TypeOK, HasResult, TaskAwaited
<1>3. (HoldsCall /\ LeaderRegistered /\ RegisteredHasLeader /\ OneOwner)'
  BY DEF TypeOK, HoldsCall, LeaderRegistered, RegisteredHasLeader, OneOwner, TaskAwaited
<1>4. (Unpublished /\ Published /\ FlagClear /\ TaskAwaited)'
  BY DEF TypeOK, HoldsCall, OneOwner, Unpublished, Published, FlagClear, HasResult,
         TaskAwaited
<1>5. (FollowerHasOwner /\ NobodyStranded)'
  BY DEF TypeOK, HoldsCall, OneOwner, Unpublished, Published, FlagClear, HasResult,
         FollowerHasOwner, TaskAwaited, NobodyStranded
<1> QED BY <1>1, <1>2, <1>3, <1>4, <1>5

(* Call::publish under the lock: the wakers leave with the outcome. *)
LEMMA PublishStep ==
  ASSUME NEW c \in Callers, IInv, Publish(c)
  PROVE  IInv'
<1> USE DEF Publish, CallPublish
<1>1. TypeOK'
  <2>1. call[c] \in CallIds /\ out[c] \in Outcome
    BY DEF HoldsCall, HasResult
  <2>2. outcome' \in [CallIds -> Outcome \cup {NoOutcome}]
    BY <2>1 DEF TypeOK
  <2>3. taken' \in [Callers -> SUBSET Callers] /\ wakers' \in [CallIds -> SUBSET Callers]
    BY <2>1 DEF TypeOK
  <2> QED BY <2>2, <2>3 DEF TypeOK
<1>2. HasResult'
  BY OutcomeFacts, DecodeType DEF TypeOK, HasResult, TaskAwaited
<1>3. (HoldsCall /\ LeaderRegistered /\ RegisteredHasLeader /\ OneOwner)'
  <2>1. HoldsCall'
    BY DEF TypeOK, HoldsCall
  <2>2. LeaderRegistered'
    BY DEF TypeOK, LeaderRegistered
  <2>3. RegisteredHasLeader'
    BY DEF TypeOK, LeaderRegistered, RegisteredHasLeader
  <2>4. OneOwner'
    BY DEF TypeOK, OneOwner
  <2> QED BY <2>1, <2>2, <2>3, <2>4
<1>4. (Unpublished /\ Published /\ FlagClear /\ TaskAwaited)'
  <2>1. Unpublished'
    BY DEF TypeOK, HoldsCall, OneOwner, Unpublished, FlagClear
  <2>2. Published'
    BY DEF TypeOK, HoldsCall, OneOwner, Unpublished, Published, FlagClear, HasResult
  <2>3. FlagClear'
    BY DEF TypeOK, FlagClear
  <2>4. TaskAwaited'
    BY DEF TypeOK, TaskAwaited
  <2> QED BY <2>1, <2>2, <2>3, <2>4
<1>5. (FollowerHasOwner /\ NobodyStranded)'
  <2>1. FollowerHasOwner'
    BY DEF TypeOK, HoldsCall, OneOwner, Unpublished, HasResult, FollowerHasOwner
  <2>2. NobodyStranded'
    BY DEF TypeOK, HoldsCall, OneOwner, Unpublished, Published, FollowerHasOwner, NobodyStranded
  <2> QED BY <2>1, <2>2
<1> QED BY <1>1, <1>2, <1>3, <1>4, <1>5

(* Call::publish after the lock: everybody parked on the call is woken. *)
LEMMA NotifyStep ==
  ASSUME NEW c \in Callers, IInv, Notify(c)
  PROVE  IInv'
<1> USE DEF Notify, Wakes, Woken
<1>1. TypeOK'
  BY OutcomeFacts, ResolveType, DecodeType DEF TypeOK, HasResult, HoldsCall
<1>2. HasResult'
  BY OutcomeFacts, DecodeType DEF TypeOK, HasResult, TaskAwaited
<1>3. (HoldsCall /\ LeaderRegistered /\ RegisteredHasLeader /\ OneOwner)'
  BY DEF TypeOK, HoldsCall, LeaderRegistered, RegisteredHasLeader, OneOwner, TaskAwaited
<1>4. (Unpublished /\ Published /\ FlagClear /\ TaskAwaited)'
  BY DEF TypeOK, HoldsCall, OneOwner, Unpublished, Published, FlagClear, HasResult,
         TaskAwaited
<1>5. (FollowerHasOwner /\ NobodyStranded)'
  BY DEF TypeOK, HoldsCall, OneOwner, Unpublished, Published, FlagClear, HasResult,
         FollowerHasOwner, TaskAwaited, NobodyStranded
<1> QED BY <1>1, <1>2, <1>3, <1>4, <1>5

(* Leader::drop deregisters the call; a leader that published nothing      *)
(* still owns it.                                                          *)
LEMMA DropStep ==
  ASSUME NEW c \in Callers, IInv, Drop(c)
  PROVE  IInv'
<1> USE DEF Drop, Return
<1>1. call[c] \in CallIds /\ FK(c) \in FlightKeys
  BY DEF TypeOK, HoldsCall, FlightKeys
<1>2. TypeOK'
  <2>1. published[c] => out[c] \in Outcome
    BY DEF HasResult
  <2>2. answers' \in [CallIds -> SUBSET Outcome]
    BY <1>1, <2>1 DEF TypeOK
  <2>3. pc' \in [Callers -> PCs] /\ call' \in [Callers -> CallIds \cup {NoCall}]
    BY DEF TypeOK
  <2> QED BY <1>1, <2>2, <2>3 DEF TypeOK
<1>3. HasResult'
  BY DEF TypeOK, HasResult
<1>4. (HoldsCall /\ OneOwner /\ FollowerHasOwner)'
  <2>1. CASE published[c]
    <3>1. HoldsCall'
      BY <2>1 DEF TypeOK, HoldsCall
    <3>2. OneOwner'
      BY <2>1 DEF TypeOK, OneOwner
    <3>3. FollowerHasOwner'
      BY <2>1 DEF TypeOK, FollowerHasOwner
    <3> QED BY <3>1, <3>2, <3>3
  <2>2. CASE ~published[c]
    <3>1. HoldsCall'
      BY <2>2 DEF TypeOK, HoldsCall
    <3>2. OneOwner'
      BY <2>2 DEF TypeOK, OneOwner
    <3>3. FollowerHasOwner'
      BY <2>2 DEF TypeOK, FollowerHasOwner
    <3> QED BY <3>1, <3>2, <3>3
  <2> QED BY <2>1, <2>2
<1>5. LeaderRegistered'
  BY DEF TypeOK, HoldsCall, OneOwner, LeaderRegistered
<1>6. RegisteredHasLeader'
  BY DEF TypeOK, HoldsCall, OneOwner, LeaderRegistered, RegisteredHasLeader
<1>7. (Unpublished /\ Published /\ FlagClear /\ TaskAwaited)'
  BY DEF TypeOK, HoldsCall, OneOwner, Unpublished, Published, FlagClear, TaskAwaited
<1>8. NobodyStranded'
  <2>1. /\ \A u \in Callers \ {c} : pc'[u] = pc[u] /\ call'[u] = call[u]
        /\ \A u \in Callers \ {c} : published'[u] = published[u]
    BY DEF TypeOK
  <2>2. pc'[c] # "parked" /\ UNCHANGED <<wakers, taken>>
    BY DEF TypeOK
  <2>3. ~published[c] => pc'[c] = "abandon" /\ call'[c] = call[c]
    BY DEF TypeOK
  <2>4. \A d \in Callers : pc'[d] = "parked" => d # c /\ pc[d] = "parked"
    BY <2>1, <2>2
  <2> SUFFICES ASSUME NEW d \in Callers, pc'[d] = "parked"
               PROVE  \E l \in Callers :
                         /\ call'[l] = call'[d]
                         /\ \/ /\ ToPublish(l)'
                               /\ d \in AsyncCallers => d \in wakers'[call'[d]]
                            \/ /\ ToNotify(l)'
                               /\ d \in AsyncCallers => d \in taken'[l]
    BY DEF NobodyStranded
  <2>5. PICK l \in Callers :
          /\ call[l] = call[d]
          /\ \/ ToPublish(l) /\ (d \in AsyncCallers => d \in wakers[call[d]])
             \/ ToNotify(l) /\ (d \in AsyncCallers => d \in taken[l])
    BY <2>4 DEF NobodyStranded
  <2>6. CASE l = c
    BY <2>1, <2>2, <2>3, <2>4, <2>5, <2>6
  <2>7. CASE l # c
    BY <2>1, <2>2, <2>4, <2>5, <2>7
  <2> QED BY <2>6, <2>7
<1> QED BY <1>2, <1>3, <1>4, <1>5, <1>6, <1>7, <1>8

(* An unpublished call gets its outcome from Leader::drop. *)
LEMMA AbandonStep ==
  ASSUME NEW c \in Callers, IInv, Abandon(c)
  PROVE  IInv'
<1> USE DEF Abandon, CallPublish
<1>1. TypeOK'
  <2>1. call[c] \in CallIds
    BY DEF HoldsCall
  <2>2. Abandoned \in Outcome
    BY OutcomeFacts
  <2> HIDE DEF Goto
  <2>3. outcome' \in [CallIds -> Outcome \cup {NoOutcome}]
    BY <2>1, <2>2 DEF TypeOK
  <2>4. taken' \in [Callers -> SUBSET Callers] /\ wakers' \in [CallIds -> SUBSET Callers]
    BY <2>1 DEF TypeOK
  <2> QED BY <2>3, <2>4 DEF TypeOK, Goto
<1>2. HasResult'
  BY OutcomeFacts, DecodeType DEF TypeOK, HasResult, TaskAwaited
<1>3. (HoldsCall /\ LeaderRegistered /\ RegisteredHasLeader /\ OneOwner)'
  BY DEF TypeOK, HoldsCall, LeaderRegistered, RegisteredHasLeader, OneOwner, TaskAwaited
<1>4. (Unpublished /\ FlagClear /\ TaskAwaited)'
  BY DEF TypeOK, HoldsCall, OneOwner, Unpublished, FlagClear, TaskAwaited
<1>5. Published'
  BY OutcomeFacts DEF TypeOK, HoldsCall, OneOwner, Unpublished, Published
<1>6. FollowerHasOwner'
  <2> SUFFICES ASSUME NEW d \in Callers, pc'[d] \in FollowerPCs,
                      outcome'[call'[d]] = NoOutcome
               PROVE  \E l \in Callers : ToPublish(l)' /\ call'[l] = call'[d]
    BY DEF FollowerHasOwner
  <2>1. d # c /\ pc[d] = pc'[d] /\ call' = call /\ published' = published
    BY DEF TypeOK
  <2>2. call[d] # call[c] /\ outcome[call[d]] = NoOutcome
    BY <2>1, OutcomeFacts DEF TypeOK, HoldsCall, Unpublished
  <2>3. PICK l \in Callers : ToPublish(l) /\ call[l] = call[d]
    BY <2>1, <2>2 DEF FollowerHasOwner
  <2>4. pc'[l] = pc[l]
    BY <2>2, <2>3 DEF TypeOK
  <2> QED BY <2>1, <2>3, <2>4
<1>7. NobodyStranded'
  BY OutcomeFacts DEF TypeOK, HoldsCall, OneOwner, Unpublished, NobodyStranded
<1> QED BY <1>1, <1>2, <1>3, <1>4, <1>5, <1>6, <1>7

(* And its followers are woken. *)
LEMMA AbandonNotifyStep ==
  ASSUME NEW c \in Callers, IInv, AbandonNotify(c)
  PROVE  IInv'
<1> USE DEF AbandonNotify, Wakes, Woken
<1>1. TypeOK'
  BY OutcomeFacts, ResolveType, DecodeType DEF TypeOK, HasResult, HoldsCall
<1>2. HasResult'
  BY OutcomeFacts, DecodeType DEF TypeOK, HasResult, TaskAwaited
<1>3. (HoldsCall /\ LeaderRegistered /\ RegisteredHasLeader /\ OneOwner)'
  BY DEF TypeOK, HoldsCall, LeaderRegistered, RegisteredHasLeader, OneOwner, TaskAwaited
<1>4. (Unpublished /\ Published /\ FlagClear /\ TaskAwaited)'
  BY DEF TypeOK, HoldsCall, OneOwner, Unpublished, Published, FlagClear, HasResult,
         TaskAwaited
<1>5. (FollowerHasOwner /\ NobodyStranded)'
  BY DEF TypeOK, HoldsCall, OneOwner, Unpublished, Published, FlagClear, HasResult,
         FollowerHasOwner, TaskAwaited, NobodyStranded
<1> QED BY <1>1, <1>2, <1>3, <1>4, <1>5

(* A panicking computation unwinds into Leader::drop. *)
LEMMA PanicStep ==
  ASSUME NEW c \in Callers, IInv, Panic(c)
  PROVE  IInv'
<1> USE DEF Panic, Vanish
<1>1. TypeOK'
  BY OutcomeFacts, ResolveType, DecodeType DEF TypeOK, HasResult, HoldsCall
<1>2. HasResult'
  BY DEF TypeOK, HasResult, FlagClear
<1>3. (HoldsCall /\ LeaderRegistered /\ RegisteredHasLeader /\ OneOwner)'
  BY DEF TypeOK, HoldsCall, LeaderRegistered, RegisteredHasLeader, OneOwner, TaskAwaited
<1>4. (Unpublished /\ Published /\ FlagClear /\ TaskAwaited)'
  BY DEF TypeOK, HoldsCall, OneOwner, Unpublished, Published, FlagClear, HasResult,
         TaskAwaited
<1>5. (FollowerHasOwner /\ NobodyStranded)'
  BY DEF TypeOK, HoldsCall, OneOwner, Unpublished, Published, FlagClear, HasResult,
         FollowerHasOwner, TaskAwaited, NobodyStranded
<1> QED BY <1>1, <1>2, <1>3, <1>4, <1>5

(* A dropped leading future does too, orphaning its write. *)
LEMMA CancelLeaderStep ==
  ASSUME NEW c \in Callers, IInv, CancelLeader(c)
  PROVE  IInv'
<1> USE DEF CancelLeader, Vanish
<1>1. TypeOK'
  <2>1. call[c] \in CallIds
    BY DEF HoldsCall
  <2>2. ASSUME NEW t \in tasks
        PROVE  (IF t.who = c THEN [t EXCEPT !.who = NoOne] ELSE t) \in Task
    BY DEF TypeOK
  <2>3. tasks' \subseteq Task
    BY <2>2
  <2> QED BY <2>1, <2>3 DEF TypeOK
<1>2. HasResult'
  BY DEF TypeOK, HasResult, FlagClear
<1>3. (HoldsCall /\ LeaderRegistered /\ RegisteredHasLeader /\ OneOwner)'
  BY DEF TypeOK, HoldsCall, LeaderRegistered, RegisteredHasLeader, OneOwner, TaskAwaited
<1>4. (Unpublished /\ Published /\ FlagClear /\ TaskAwaited)'
  BY DEF TypeOK, HoldsCall, OneOwner, Unpublished, Published, FlagClear, HasResult,
         TaskAwaited
<1>5. (FollowerHasOwner /\ NobodyStranded)'
  BY DEF TypeOK, HoldsCall, OneOwner, Unpublished, Published, FlagClear, HasResult,
         FollowerHasOwner, TaskAwaited, NobodyStranded
<1> QED BY <1>1, <1>2, <1>3, <1>4, <1>5

(* A dropped follower leaves nobody waiting on it. *)
LEMMA CancelFollowerStep ==
  ASSUME NEW c \in Callers, IInv, CancelFollower(c)
  PROVE  IInv'
<1> USE DEF CancelFollower
<1>1. TypeOK'
  BY OutcomeFacts, ResolveType, DecodeType DEF TypeOK, HasResult, HoldsCall
<1>2. HasResult'
  BY OutcomeFacts, DecodeType DEF TypeOK, HasResult, TaskAwaited
<1>3. (HoldsCall /\ LeaderRegistered /\ RegisteredHasLeader /\ OneOwner)'
  BY DEF TypeOK, HoldsCall, LeaderRegistered, RegisteredHasLeader, OneOwner, TaskAwaited
<1>4. (Unpublished /\ Published /\ FlagClear /\ TaskAwaited)'
  BY DEF TypeOK, HoldsCall, OneOwner, Unpublished, Published, FlagClear, HasResult,
         TaskAwaited
<1>5. FollowerHasOwner'
  BY DEF TypeOK, HoldsCall, OneOwner, FlagClear, FollowerHasOwner
<1>6. NobodyStranded'
  BY DEF TypeOK, HoldsCall, OneOwner, FlagClear, NobodyStranded
<1> QED BY <1>1, <1>2, <1>3, <1>4, <1>5, <1>6

(* Entries vanishing from the store leave the flight alone. *)
LEMMA StoreLosesStep ==
  ASSUME NEW k \in Keys, IInv, StoreLoses(k)
  PROVE  IInv'
<1> USE DEF StoreLoses
<1>1. TypeOK'
  BY OutcomeFacts, ResolveType, DecodeType DEF TypeOK, HasResult, HoldsCall
<1>2. HasResult'
  BY OutcomeFacts, DecodeType DEF TypeOK, HasResult, TaskAwaited
<1>3. (HoldsCall /\ LeaderRegistered /\ RegisteredHasLeader /\ OneOwner)'
  BY DEF TypeOK, HoldsCall, LeaderRegistered, RegisteredHasLeader, OneOwner, TaskAwaited
<1>4. (Unpublished /\ Published /\ FlagClear /\ TaskAwaited)'
  BY DEF TypeOK, HoldsCall, OneOwner, Unpublished, Published, FlagClear, HasResult,
         TaskAwaited
<1>5. (FollowerHasOwner /\ NobodyStranded)'
  BY DEF TypeOK, HoldsCall, OneOwner, Unpublished, Published, FlagClear, HasResult,
         FollowerHasOwner, TaskAwaited, NobodyStranded
<1> QED BY <1>1, <1>2, <1>3, <1>4, <1>5

(* So do bytes put there by set_bytes. *)
LEMMA SetBytesStep ==
  ASSUME NEW k \in Keys, NEW v \in Values, IInv, SetBytes(k, v)
  PROVE  IInv'
<1> USE DEF SetBytes
<1>1. TypeOK'
  BY OutcomeFacts, ResolveType, DecodeType DEF TypeOK, HasResult, HoldsCall
<1>2. HasResult'
  BY OutcomeFacts, DecodeType DEF TypeOK, HasResult, TaskAwaited
<1>3. (HoldsCall /\ LeaderRegistered /\ RegisteredHasLeader /\ OneOwner)'
  BY DEF TypeOK, HoldsCall, LeaderRegistered, RegisteredHasLeader, OneOwner, TaskAwaited
<1>4. (Unpublished /\ Published /\ FlagClear /\ TaskAwaited)'
  BY DEF TypeOK, HoldsCall, OneOwner, Unpublished, Published, FlagClear, HasResult,
         TaskAwaited
<1>5. (FollowerHasOwner /\ NobodyStranded)'
  BY DEF TypeOK, HoldsCall, OneOwner, Unpublished, Published, FlagClear, HasResult,
         FollowerHasOwner, TaskAwaited, NobodyStranded
<1> QED BY <1>1, <1>2, <1>3, <1>4, <1>5

-----------------------------------------------------------------------------
(* The theorems. *)

(* A step that changes nothing preserves the invariant. *)
LEMMA StutterStep ==
  ASSUME IInv, UNCHANGED vars
  PROVE  IInv'
BY DEF vars, IInv, TypeOK, HoldsCall, LeaderRegistered, RegisteredHasLeader, OneOwner,
       Unpublished, Published, FlagClear, HasResult, FollowerHasOwner, TaskAwaited,
       NobodyStranded

(* Every step preserves the invariant. *)
LEMMA NextStep ==
  ASSUME IInv, [Next]_vars
  PROVE  IInv'
<1> HIDE DEF IInv
<1>1. CASE \E c \in Callers : Proceed(c)
  <2> PICK c \in Callers : Proceed(c)
    BY <1>1
  <2> QED
    BY LoadStep, EnterStep, WaitStep, RecheckStep, ComputeStep, SetStep, SpawnSetStep,
       PublishStep, NotifyStep, DropStep, AbandonStep, AbandonNotifyStep
    DEF Proceed
<1>2. CASE \E t \in tasks : RunTask(t)
  BY <1>2, RunTaskStep
<1>3. CASE Environment
  BY <1>3, StartStep, SpuriousWakeStep, PanicStep, CancelLeaderStep, CancelFollowerStep,
     StoreLosesStep, SetBytesStep
  DEF Environment
<1>4. CASE UNCHANGED vars
  BY <1>4, StutterStep
<1> QED BY <1>1, <1>2, <1>3, <1>4 DEF Next

(* The invariant holds in every reachable state. *)
THEOREM Invariant == Spec => []IInv
<1>1. IInv /\ [Next]_vars => IInv'
  BY NextStep
<1> QED BY InitIInv, <1>1, PTL DEF Spec

(* Every variable of the flight keeps its type. *)
THEOREM TypeCorrect == Spec => []TypeOK
<1>1. IInv => TypeOK
  BY DEF IInv
<1> QED BY Invariant, <1>1, PTL

(* Single flight (Memo::get_or_compute, Flight::enter): two callers never  *)
(* lead the same key and type, because each leader's own call is the one   *)
(* the table holds under that key, and no call has two owners.             *)
THEOREM OneLeader == Spec => []SingleFlight
<1>1. ASSUME IInv, NEW c \in Callers, NEW d \in Callers,
             pc[c] \in LeaderPCs, pc[d] \in LeaderPCs, FK(c) = FK(d)
      PROVE  c = d
  <2>1. calls[FK(c)] = call[c] /\ calls[FK(d)] = call[d]
    BY <1>1 DEF LeaderRegistered
  <2>2. call[c] = call[d]
    BY <1>1, <2>1
  <2> QED BY <1>1, <2>2 DEF OneOwner
<1>2. IInv => SingleFlight
  BY <1>1 DEF SingleFlight
<1> QED BY Invariant, <1>2, PTL

(* No lost wake-up (Call::wait, Call::poll, Leader::drop): whoever sleeps  *)
(* on a call has an owner that has still to publish or to notify, and      *)
(* whose notification will reach it.                                       *)
THEOREM NoLostWakeup == Spec => []NobodyStranded
<1>1. IInv => NobodyStranded
  BY DEF IInv
<1> QED BY Invariant, <1>1, PTL

-----------------------------------------------------------------------------
(* The answers. *)

(* Everybody who asks through one call asks for the leader's type. *)
SameType ==
    \A c, l \in Callers :
        /\ pc[c] \in FollowerPCs /\ pc[l] \in LeaderPCs /\ call[c] = call[l]
        => type[c] = type[l]

(* What a leader stores, publishes or returns is of its own type. *)
OwnType ==
    \A l \in Callers :
        /\ pc[l] \in {"set", "setting", "publish", "notify"} \/ (pc[l] = "drop" /\ published[l])
        /\ out[l] \in Ready
        => out[l].entry.fp = type[l]

(* A follower can decode what its call published. *)
Decodable ==
    \A c \in Callers :
        /\ pc[c] \in FollowerPCs /\ outcome[call[c]] \in Ready
        => outcome[call[c]].entry.fp = type[c]

(* A leader returns what it published. *)
ReturnsPublished ==
    \A l \in Callers :
        pc[l] = "notify" \/ (pc[l] = "drop" /\ published[l]) => outcome[call[l]] = out[l]

(* Every answer is the outcome of its call. *)
AnswersOutcome == \A id \in CallIds : \A o \in answers[id] : o = outcome[id]

(* Only a leader that vanished abandons its call. *)
NotAbandoned ==
    \A l \in Callers :
        pc[l] \in {"publish", "notify"} \/ (pc[l] = "drop" /\ published[l])
            => out[l] # Abandoned

AbandonersVanished ==
    \A l \in Callers :
        pc[l] \in AbandonPCs \/ (pc[l] = "drop" /\ ~published[l]) => vanished[call[l]]

OutcomeVanished == \A id \in CallIds : outcome[id] = Abandoned => vanished[id]

(* Writes are spawned over a blocking store only. *)
SpawnedIfBlocking == tasks # {} => BlockingStore

AnswersInv ==
    /\ SameType /\ OwnType /\ Decodable /\ ReturnsPublished /\ AnswersOutcome
    /\ NotAbandoned /\ AbandonersVanished /\ OutcomeVanished
    /\ SpawnedIfBlocking /\ NoWastedCompute

USE DEF AnswersInv
HIDE DEF Task

-----------------------------------------------------------------------------
(* Data. *)

(* A ready outcome is no abandonment, and neither is a failure of the      *)
(* computation; a failure carries no entry.                                *)
LEMMA AbandonedFacts ==
    /\ Abandoned \notin Ready
    /\ \A tag \in {"Compute", "Encode"} : [tag |-> tag] # Abandoned /\ [tag |-> tag] \notin Ready
  BY DEF Abandoned, Ready

(* Decoding succeeds on entries of the type asked for. *)
LEMMA ResolveDecodable ==
  ASSUME NEW t \in Types, NEW o \in Outcome, o \in Ready => o.entry.fp = t
  PROVE  resolve(t, o) = o
<1>1. o.tag = "Ready" => o \in Ready
  BY DEF Outcome, Failure, Ready
<1>2. o \in Ready => o.entry # NoEntry
  BY OutcomeFacts
<1> QED BY <1>1, <1>2 DEF resolve, decode

-----------------------------------------------------------------------------
(* Initial states, and one lemma per action. *)

(* Nobody has been told anything before the first request. *)
LEMMA InitAnswers == Init => AnswersInv
  BY OutcomeFacts DEF Init, SameType, OwnType, Decodable, ReturnsPublished, AnswersOutcome,
       NotAbandoned, AbandonersVanished, OutcomeVanished, SpawnedIfBlocking, NoWastedCompute

(* A request begins with no call. *)
LEMMA StartAnswers ==
  ASSUME IInv, AnswersInv, NEW c \in Callers, NEW k \in Keys, NEW t \in Types, Start(c, k, t)
  PROVE  AnswersInv'
<1> USE DEF Start
<1>1. (SameType /\ OwnType)'
  BY DEF TypeOK, SameType, OwnType, TaskAwaited
<1>2. Decodable'
  BY DEF TypeOK, HoldsCall, Decodable
<1>3. (ReturnsPublished /\ NotAbandoned)'
  BY DEF TypeOK, HoldsCall, ReturnsPublished, NotAbandoned, TaskAwaited, FlagClear, OneOwner
<1>4. AnswersOutcome'
  BY DEF TypeOK, HoldsCall, AnswersOutcome
<1>5. (AbandonersVanished /\ OutcomeVanished)'
  BY DEF TypeOK, HoldsCall, AbandonersVanished, OutcomeVanished, FlagClear, TaskAwaited
<1>6. (SpawnedIfBlocking /\ NoWastedCompute)'
  BY DEF TypeOK, SpawnedIfBlocking, NoWastedCompute, decode
<1> QED BY <1>1, <1>2, <1>3, <1>4, <1>5, <1>6

(* The first look at the store tells nobody else anything. *)
LEMMA LoadAnswers ==
  ASSUME IInv, AnswersInv, NEW c \in Callers, Load(c)
  PROVE  AnswersInv'
<1> USE DEF Load
<1>1. (SameType /\ OwnType)'
  BY DEF TypeOK, SameType, OwnType, TaskAwaited
<1>2. Decodable'
  BY DEF TypeOK, HoldsCall, Decodable
<1>3. (ReturnsPublished /\ NotAbandoned)'
  BY DEF TypeOK, HoldsCall, ReturnsPublished, NotAbandoned, TaskAwaited, FlagClear, OneOwner
<1>4. AnswersOutcome'
  BY DEF TypeOK, HoldsCall, AnswersOutcome
<1>5. (AbandonersVanished /\ OutcomeVanished)'
  BY DEF TypeOK, HoldsCall, AbandonersVanished, OutcomeVanished, FlagClear, TaskAwaited
<1>6. (SpawnedIfBlocking /\ NoWastedCompute)'
  BY DEF TypeOK, SpawnedIfBlocking, NoWastedCompute, decode
<1> QED BY <1>1, <1>2, <1>3, <1>4, <1>5, <1>6

(* Flight::enter: who joins a call has its leader's type. *)
LEMMA EnterAnswers ==
  ASSUME IInv, AnswersInv, NEW c \in Callers, Enter(c)
  PROVE  AnswersInv'
<1> USE DEF Enter
<1>1. FK(c) \in FlightKeys
  BY DEF TypeOK, FlightKeys
<1>2. /\ \A d \in Callers \ {c} : /\ pc'[d] = pc[d] /\ call'[d] = call[d]
                                  /\ published'[d] = published[d]
      /\ pc'[c] \in {"wait", "recheck"}
      /\ type' = type /\ key' = key /\ out' = out /\ store' = store /\ tasks' = tasks
      /\ faulty' = faulty
  BY DEF TypeOK
<1>3. (SpawnedIfBlocking /\ NoWastedCompute)'
  BY <1>2 DEF SpawnedIfBlocking, NoWastedCompute
<1>4. NotAbandoned'
  BY <1>2 DEF NotAbandoned
<1>5. CASE calls[FK(c)] # NoCall
  <2>1. PICK l \in Callers : pc[l] \in LeaderPCs /\ FK(l) = FK(c) /\ call[l] = calls[FK(c)]
    BY <1>1, <1>5 DEF RegisteredHasLeader
  <2>2. /\ pc'[c] = "wait" /\ call'[c] = call[l] /\ type[l] = type[c] /\ l # c
        /\ outcome' = outcome /\ answers' = answers /\ vanished' = vanished
    BY <1>5, <2>1 DEF TypeOK
  <2>3. SameType'
    <3>1. \A m \in Callers : pc[m] \in LeaderPCs /\ call[m] = call[l] => m = l
      BY <2>1 DEF OneOwner
    <3> QED BY <1>2, <2>2, <3>1 DEF SameType
  <2>4. OwnType'
    BY <1>2, <2>2 DEF OwnType
  <2>5. Decodable'
    <3>1. outcome[call[l]] \in Ready => outcome[call[l]].entry.fp = type[c]
      <4>1. outcome[call[l]] \in Ready => outcome[call[l]] # NoOutcome
        BY OutcomeFacts
      <4>2. outcome[call[l]] \in Ready =>
                /\ pc[l] = "notify" \/ (pc[l] = "drop" /\ published[l])
                /\ outcome[call[l]] = out[l]
        BY <2>1, <4>1 DEF Unpublished, ReturnsPublished
      <4> QED BY <2>1, <2>2, <4>2 DEF OwnType
    <3> QED BY <1>2, <2>2, <3>1 DEF Decodable
  <2>6. (ReturnsPublished /\ AnswersOutcome /\ AbandonersVanished /\ OutcomeVanished)'
    BY <1>2, <2>2 DEF ReturnsPublished, AnswersOutcome, AbandonersVanished, OutcomeVanished
  <2> QED BY <1>3, <1>4, <2>3, <2>4, <2>5, <2>6
<1>6. CASE calls[FK(c)] = NoCall
  <2>1. PICK id \in CallIds :
            /\ Free(id)
            /\ call' = [call EXCEPT ![c] = id]
            /\ outcome' = [outcome EXCEPT ![id] = NoOutcome]
            /\ answers' = [answers EXCEPT ![id] = {}]
            /\ vanished' = [vanished EXCEPT ![id] = FALSE]
    BY <1>6
  <2>2. pc'[c] = "recheck" /\ call'[c] = id
    BY <1>6, <2>1 DEF TypeOK
  <2>3. \A d \in Callers : call[d] # id
    BY <2>1 DEF Free
  <2>4. /\ answers'[id] = {} /\ outcome'[id] = NoOutcome
        /\ \A x \in CallIds \ {id} : /\ outcome'[x] = outcome[x] /\ answers'[x] = answers[x]
                                     /\ vanished'[x] = vanished[x]
    BY <2>1 DEF TypeOK
  <2>5. SameType'
    BY <1>2, <2>2, <2>3 DEF SameType
  <2>6. OwnType'
    BY <1>2, <2>2 DEF OwnType
  <2>7. Decodable'
    BY <1>2, <2>2, <2>3, <2>4 DEF HoldsCall, Decodable
  <2>8. (ReturnsPublished /\ AbandonersVanished)'
    BY <1>2, <2>2, <2>3, <2>4 DEF HoldsCall, ReturnsPublished, AbandonersVanished
  <2>9. (AnswersOutcome /\ OutcomeVanished)'
    BY <2>4, OutcomeFacts DEF AnswersOutcome, OutcomeVanished
  <2> QED BY <1>3, <1>4, <2>5, <2>6, <2>7, <2>8, <2>9
<1> QED BY <1>5, <1>6

(* A follower that wakes up returns the call's outcome as it is. *)
LEMMA WaitAnswers ==
  ASSUME IInv, AnswersInv, NEW c \in Callers, Wait(c)
  PROVE  AnswersInv'
<1> USE DEF Wait, Return
<1>1. (SameType /\ OwnType)'
  BY DEF TypeOK, SameType, OwnType, TaskAwaited
<1>2. Decodable'
  BY DEF TypeOK, HoldsCall, Decodable
<1>3. (ReturnsPublished /\ NotAbandoned)'
  BY DEF TypeOK, HoldsCall, ReturnsPublished, NotAbandoned, TaskAwaited, FlagClear, OneOwner
<1>4. AnswersOutcome'
  <2>1. call[c] \in CallIds
    BY DEF HoldsCall
  <2>2. CASE outcome[call[c]] = NoOutcome
    BY <2>2 DEF AnswersOutcome
  <2>3. CASE outcome[call[c]] # NoOutcome
    <3>1. resolve(type[c], outcome[call[c]]) = outcome[call[c]]
      BY <2>1, <2>3, ResolveDecodable DEF TypeOK, Decodable
    <3> HIDE DEF resolve
    <3> QED BY <2>1, <2>3, <3>1 DEF TypeOK, AnswersOutcome
  <2> QED BY <2>2, <2>3
<1>5. (AbandonersVanished /\ OutcomeVanished)'
  BY DEF TypeOK, HoldsCall, AbandonersVanished, OutcomeVanished, FlagClear, TaskAwaited
<1>6. (SpawnedIfBlocking /\ NoWastedCompute)'
  BY DEF TypeOK, SpawnedIfBlocking, NoWastedCompute, decode
<1> QED BY <1>1, <1>2, <1>3, <1>4, <1>5, <1>6

(* A spurious wake-up answers nobody. *)
LEMMA SpuriousWakeAnswers ==
  ASSUME IInv, AnswersInv, NEW c \in Callers, SpuriousWake(c)
  PROVE  AnswersInv'
<1> USE DEF SpuriousWake
<1>1. (SameType /\ OwnType)'
  BY DEF TypeOK, SameType, OwnType, TaskAwaited
<1>2. Decodable'
  BY DEF TypeOK, HoldsCall, Decodable
<1>3. (ReturnsPublished /\ NotAbandoned)'
  BY DEF TypeOK, HoldsCall, ReturnsPublished, NotAbandoned, TaskAwaited, FlagClear, OneOwner
<1>4. AnswersOutcome'
  BY DEF TypeOK, HoldsCall, AnswersOutcome
<1>5. (AbandonersVanished /\ OutcomeVanished)'
  BY DEF TypeOK, HoldsCall, AbandonersVanished, OutcomeVanished, FlagClear, TaskAwaited
<1>6. (SpawnedIfBlocking /\ NoWastedCompute)'
  BY DEF TypeOK, SpawnedIfBlocking, NoWastedCompute, decode
<1> QED BY <1>1, <1>2, <1>3, <1>4, <1>5, <1>6

(* The second look sends a leader on to compute only after a miss. *)
LEMMA RecheckAnswers ==
  ASSUME IInv, AnswersInv, NEW c \in Callers, Recheck(c)
  PROVE  AnswersInv'
<1> USE DEF Recheck
<1>1. (SameType /\ OwnType)'
  <2>1. SameType'
    BY DEF TypeOK, SameType
  <2>2. OwnType'
    BY DEF TypeOK, OwnType, decode
  <2> QED BY <2>1, <2>2
<1>2. Decodable'
  BY DEF TypeOK, HoldsCall, Decodable
<1>3. (ReturnsPublished /\ NotAbandoned)'
  <2>1. pc'[c] = "publish" => out'[c] \in Ready
    BY DecodeType, OutcomeFacts DEF TypeOK
  <2>2. ReturnsPublished'
    BY DEF TypeOK, ReturnsPublished
  <2>3. NotAbandoned'
    BY <2>1, AbandonedFacts DEF TypeOK, NotAbandoned
  <2> QED BY <2>2, <2>3
<1>4. AnswersOutcome'
  BY DEF TypeOK, HoldsCall, AnswersOutcome
<1>5. (AbandonersVanished /\ OutcomeVanished)'
  BY DEF TypeOK, HoldsCall, AbandonersVanished, OutcomeVanished, FlagClear, TaskAwaited
<1>6. (SpawnedIfBlocking /\ NoWastedCompute)'
  BY DEF TypeOK, SpawnedIfBlocking, NoWastedCompute, decode
<1> QED BY <1>1, <1>2, <1>3, <1>4, <1>5, <1>6

(* What is computed has the leader's type, and is no abandonment. *)
LEMMA ComputeAnswers ==
  ASSUME IInv, AnswersInv, NEW c \in Callers, Compute(c)
  PROVE  AnswersInv'
<1> USE DEF Compute
<1>1. (SameType /\ OwnType)'
  <2>1. SameType'
    BY DEF TypeOK, SameType
  <2>2. out'[c] \in Ready => out'[c].entry.fp = type[c]
    BY AbandonedFacts DEF TypeOK
  <2>3. OwnType'
    BY <2>2 DEF TypeOK, OwnType
  <2> QED BY <2>1, <2>3
<1>2. Decodable'
  BY DEF TypeOK, HoldsCall, Decodable
<1>3. (ReturnsPublished /\ NotAbandoned)'
  <2>1. pc'[c] = "publish" => out'[c] # Abandoned
    BY AbandonedFacts DEF TypeOK
  <2>2. \A l \in Callers \ {c} : pc'[l] = pc[l] /\ out'[l] = out[l]
    BY DEF TypeOK
  <2>3. pc'[c] \in {"set", "publish"}
    BY DEF TypeOK
  <2> QED BY <2>1, <2>2, <2>3 DEF ReturnsPublished, NotAbandoned
<1>4. AnswersOutcome'
  BY DEF TypeOK, HoldsCall, AnswersOutcome
<1>5. (AbandonersVanished /\ OutcomeVanished)'
  BY DEF TypeOK, HoldsCall, AbandonersVanished, OutcomeVanished, FlagClear, TaskAwaited
<1>6. (SpawnedIfBlocking /\ NoWastedCompute)'
  BY DEF TypeOK, SpawnedIfBlocking, NoWastedCompute, decode
<1> QED BY <1>1, <1>2, <1>3, <1>4, <1>5, <1>6

(* A stored value is of the type its leader leads. *)
LEMMA SetAnswers ==
  ASSUME IInv, AnswersInv, NEW c \in Callers, Set(c)
  PROVE  AnswersInv'
<1> USE DEF Set, Written
<1>1. (SameType /\ OwnType)'
  BY DEF TypeOK, SameType, OwnType, TaskAwaited
<1>2. Decodable'
  BY DEF TypeOK, HoldsCall, Decodable
<1>3. (ReturnsPublished /\ NotAbandoned)'
  <2>1. out[c] # Abandoned
    BY AbandonedFacts DEF HasResult
  <2> QED BY <2>1 DEF TypeOK, ReturnsPublished, NotAbandoned
<1>4. AnswersOutcome'
  BY DEF TypeOK, HoldsCall, AnswersOutcome
<1>5. (AbandonersVanished /\ OutcomeVanished)'
  BY DEF TypeOK, HoldsCall, AbandonersVanished, OutcomeVanished, FlagClear, TaskAwaited
<1>6. (SpawnedIfBlocking /\ NoWastedCompute)'
  <2>1. out[c].entry.fp = type[c]
    BY DEF HasResult, OwnType
  <2>2. ASSUME NEW d \in Callers, pc[d] = "compute", decode(type[d], store'[key[d]])
        PROVE  decode(type[d], store[key[d]])
    <3>1. FK(d) # FK(c)
      BY <2>2 DEF LeaderRegistered, OneOwner
    <3> QED BY <2>1, <2>2, <3>1 DEF TypeOK, Written, decode
  <2>3. \A d \in Callers : pc'[d] = "compute" => pc[d] = "compute"
    BY DEF TypeOK
  <2> QED BY <2>2, <2>3 DEF SpawnedIfBlocking, NoWastedCompute
<1> QED BY <1>1, <1>2, <1>3, <1>4, <1>5, <1>6

(* Only a blocking store has its writes spawned. *)
LEMMA SpawnSetAnswers ==
  ASSUME IInv, AnswersInv, NEW c \in Callers, SpawnSet(c)
  PROVE  AnswersInv'
<1> USE DEF SpawnSet
<1>1. (SameType /\ OwnType)'
  BY DEF TypeOK, SameType, OwnType, TaskAwaited
<1>2. Decodable'
  BY DEF TypeOK, HoldsCall, Decodable
<1>3. (ReturnsPublished /\ NotAbandoned)'
  BY DEF TypeOK, HoldsCall, ReturnsPublished, NotAbandoned, TaskAwaited, FlagClear, OneOwner
<1>4. AnswersOutcome'
  BY DEF TypeOK, HoldsCall, AnswersOutcome
<1>5. (AbandonersVanished /\ OutcomeVanished)'
  BY DEF TypeOK, HoldsCall, AbandonersVanished, OutcomeVanished, FlagClear, TaskAwaited
<1>6. (SpawnedIfBlocking /\ NoWastedCompute)'
  BY DEF TypeOK, SpawnedIfBlocking, NoWastedCompute, decode
<1> QED BY <1>1, <1>2, <1>3, <1>4, <1>5, <1>6

(* So only there does one land behind somebody's second look. *)
LEMMA RunTaskAnswers ==
  ASSUME IInv, AnswersInv, NEW t \in tasks, RunTask(t)
  PROVE  AnswersInv'
<1> USE DEF RunTask, Written
<1>1. (SameType /\ OwnType)'
  BY DEF TypeOK, SameType, OwnType, TaskAwaited
<1>2. Decodable'
  BY DEF TypeOK, HoldsCall, Decodable
<1>3. (ReturnsPublished /\ NotAbandoned)'
  <2>1. t.who # NoOne => t.who \in Callers /\ out[t.who] # Abandoned
    BY AbandonedFacts DEF TypeOK, Task, TaskAwaited, HasResult
  <2> QED BY <2>1 DEF TypeOK, ReturnsPublished, NotAbandoned
<1>4. AnswersOutcome'
  BY DEF TypeOK, HoldsCall, AnswersOutcome
<1>5. (AbandonersVanished /\ OutcomeVanished)'
  BY DEF TypeOK, HoldsCall, AbandonersVanished, OutcomeVanished, FlagClear, TaskAwaited
<1>6. (SpawnedIfBlocking /\ NoWastedCompute)'
  BY DEF TypeOK, SpawnedIfBlocking, NoWastedCompute, decode
<1> QED BY <1>1, <1>2, <1>3, <1>4, <1>5, <1>6

(* Call::publish: the first outcome sticks, and it is the leader's. *)
LEMMA PublishAnswers ==
  ASSUME IInv, AnswersInv, NEW c \in Callers, Publish(c)
  PROVE  AnswersInv'
<1> USE DEF Publish, CallPublish
<1>1. (SameType /\ OwnType)'
  BY DEF TypeOK, SameType, OwnType, TaskAwaited
<1>2. Decodable'
  <2>1. call[c] \in CallIds /\ outcome[call[c]] = NoOutcome
    BY DEF HoldsCall, Unpublished
  <2>2. outcome' = [outcome EXCEPT ![call[c]] = out[c]]
    BY <2>1
  <2> SUFFICES ASSUME NEW d \in Callers, pc'[d] \in FollowerPCs, outcome'[call'[d]] \in Ready
               PROVE  outcome'[call'[d]].entry.fp = type'[d]
    BY DEF Decodable
  <2>3. pc[d] \in FollowerPCs /\ call[d] \in CallIds
    BY DEF TypeOK, HoldsCall
  <2>4. CASE call[d] = call[c]
    BY <2>1, <2>2, <2>3, <2>4 DEF TypeOK, SameType, OwnType
  <2>5. CASE call[d] # call[c]
    BY <2>2, <2>3, <2>5 DEF TypeOK, Decodable
  <2> QED BY <2>4, <2>5
<1>3. (ReturnsPublished /\ NotAbandoned)'
  <2>1. call[c] \in CallIds /\ outcome[call[c]] = NoOutcome
    BY DEF HoldsCall, Unpublished
  <2>2. outcome' = [outcome EXCEPT ![call[c]] = out[c]] /\ pc' = [pc EXCEPT ![c] = "notify"]
    BY <2>1
  <2>3. \A l \in Callers : pc'[l] \in LeaderPCs => pc[l] \in LeaderPCs /\ call[l] \in CallIds
    BY <2>2 DEF TypeOK, HoldsCall
  <2>4. ReturnsPublished'
    BY <2>1, <2>2, <2>3 DEF TypeOK, OneOwner, ReturnsPublished
  <2>5. NotAbandoned'
    BY <2>2 DEF TypeOK, NotAbandoned
  <2> QED BY <2>4, <2>5
<1>4. AnswersOutcome'
  BY DEF TypeOK, HoldsCall, AnswersOutcome
<1>5. (AbandonersVanished /\ OutcomeVanished)'
  <2>1. out[c] # Abandoned
    BY DEF NotAbandoned
  <2>2. OutcomeVanished'
    BY <2>1 DEF TypeOK, HoldsCall, OutcomeVanished
  <2>3. AbandonersVanished'
    BY DEF TypeOK, AbandonersVanished
  <2> QED BY <2>2, <2>3
<1>6. (SpawnedIfBlocking /\ NoWastedCompute)'
  BY DEF TypeOK, SpawnedIfBlocking, NoWastedCompute, decode
<1> QED BY <1>1, <1>2, <1>3, <1>4, <1>5, <1>6

(* Waking the followers changes no outcome. *)
LEMMA NotifyAnswers ==
  ASSUME IInv, AnswersInv, NEW c \in Callers, Notify(c)
  PROVE  AnswersInv'
<1> USE DEF Notify, Wakes, Woken
<1>1. (SameType /\ OwnType)'
  BY DEF TypeOK, SameType, OwnType, TaskAwaited
<1>2. Decodable'
  BY DEF TypeOK, HoldsCall, Decodable
<1>3. (ReturnsPublished /\ NotAbandoned)'
  BY DEF TypeOK, HoldsCall, ReturnsPublished, NotAbandoned, TaskAwaited, FlagClear, OneOwner
<1>4. AnswersOutcome'
  BY DEF TypeOK, HoldsCall, AnswersOutcome
<1>5. (AbandonersVanished /\ OutcomeVanished)'
  BY DEF TypeOK, HoldsCall, AbandonersVanished, OutcomeVanished, FlagClear, TaskAwaited
<1>6. (SpawnedIfBlocking /\ NoWastedCompute)'
  BY DEF TypeOK, SpawnedIfBlocking, NoWastedCompute, decode
<1> QED BY <1>1, <1>2, <1>3, <1>4, <1>5, <1>6

(* Leader::drop: a leader that published returns what it published. *)
LEMMA DropAnswers ==
  ASSUME IInv, AnswersInv, NEW c \in Callers, Drop(c)
  PROVE  AnswersInv'
<1> USE DEF Drop, Return
<1>1. (SameType /\ OwnType)'
  <2>1. SameType'
    BY DEF TypeOK, SameType
  <2>2. pc'[c] \notin LeaderPCs /\ \A l \in Callers \ {c} : pc'[l] = pc[l] /\ out'[l] = out[l]
    BY DEF TypeOK
  <2>3. OwnType'
    BY <2>2 DEF OwnType
  <2> QED BY <2>1, <2>3
<1>2. Decodable'
  BY DEF TypeOK, HoldsCall, Decodable
<1>3. (ReturnsPublished /\ NotAbandoned)'
  BY DEF TypeOK, HoldsCall, ReturnsPublished, NotAbandoned, TaskAwaited, FlagClear, OneOwner
<1>4. AnswersOutcome'
  <2>1. call[c] \in CallIds
    BY DEF HoldsCall
  <2>2. CASE published[c]
    <3>1. out[c] = outcome[call[c]]
      BY <2>2 DEF ReturnsPublished
    <3>2. answers' = [answers EXCEPT ![call[c]] = @ \cup {out[c]}]
      BY <2>1, <2>2
    <3> QED BY <2>1, <3>1, <3>2 DEF TypeOK, AnswersOutcome
  <2>3. CASE ~published[c]
    BY <2>3 DEF AnswersOutcome
  <2> QED BY <2>2, <2>3
<1>5. (AbandonersVanished /\ OutcomeVanished)'
  BY DEF TypeOK, HoldsCall, AbandonersVanished, OutcomeVanished, FlagClear, TaskAwaited
<1>6. (SpawnedIfBlocking /\ NoWastedCompute)'
  BY DEF TypeOK, SpawnedIfBlocking, NoWastedCompute, decode
<1> QED BY <1>1, <1>2, <1>3, <1>4, <1>5, <1>6

(* Only a leader that vanished publishes Abandoned. *)
LEMMA AbandonAnswers ==
  ASSUME IInv, AnswersInv, NEW c \in Callers, Abandon(c)
  PROVE  AnswersInv'
<1> USE DEF Abandon, CallPublish
<1>1. (SameType /\ OwnType)'
  BY DEF TypeOK, SameType, OwnType, TaskAwaited
<1>2. Decodable'
  <2>1. \A d \in Callers : pc'[d] \in FollowerPCs => pc[d] \in FollowerPCs
    BY DEF TypeOK
  <2>2. \A id \in CallIds : outcome'[id] \in Ready => outcome'[id] = outcome[id]
    BY AbandonedFacts DEF TypeOK
  <2> QED BY <2>1, <2>2 DEF HoldsCall, Decodable
<1>3. (ReturnsPublished /\ NotAbandoned)'
  BY DEF TypeOK, HoldsCall, ReturnsPublished, NotAbandoned, TaskAwaited, FlagClear, OneOwner
<1>4. AnswersOutcome'
  BY DEF TypeOK, HoldsCall, AnswersOutcome
<1>5. (AbandonersVanished /\ OutcomeVanished)'
  BY DEF TypeOK, HoldsCall, AbandonersVanished, OutcomeVanished, FlagClear, TaskAwaited
<1>6. (SpawnedIfBlocking /\ NoWastedCompute)'
  BY DEF TypeOK, SpawnedIfBlocking, NoWastedCompute, decode
<1> QED BY <1>1, <1>2, <1>3, <1>4, <1>5, <1>6

(* Waking the abandoned followers changes no outcome. *)
LEMMA AbandonNotifyAnswers ==
  ASSUME IInv, AnswersInv, NEW c \in Callers, AbandonNotify(c)
  PROVE  AnswersInv'
<1> USE DEF AbandonNotify, Wakes, Woken
<1>1. (SameType /\ OwnType)'
  BY DEF TypeOK, SameType, OwnType, TaskAwaited
<1>2. Decodable'
  BY DEF TypeOK, HoldsCall, Decodable
<1>3. (ReturnsPublished /\ NotAbandoned)'
  BY DEF TypeOK, HoldsCall, ReturnsPublished, NotAbandoned, TaskAwaited, FlagClear, OneOwner
<1>4. AnswersOutcome'
  BY DEF TypeOK, HoldsCall, AnswersOutcome
<1>5. (AbandonersVanished /\ OutcomeVanished)'
  BY DEF TypeOK, HoldsCall, AbandonersVanished, OutcomeVanished, FlagClear, TaskAwaited
<1>6. (SpawnedIfBlocking /\ NoWastedCompute)'
  BY DEF TypeOK, SpawnedIfBlocking, NoWastedCompute, decode
<1> QED BY <1>1, <1>2, <1>3, <1>4, <1>5, <1>6

(* A panicking leader has vanished. *)
LEMMA PanicAnswers ==
  ASSUME IInv, AnswersInv, NEW c \in Callers, Panic(c)
  PROVE  AnswersInv'
<1> USE DEF Panic, Vanish
<1>1. (SameType /\ OwnType)'
  BY DEF TypeOK, SameType, OwnType, FlagClear
<1>2. Decodable'
  BY DEF TypeOK, HoldsCall, Decodable
<1>3. (ReturnsPublished /\ NotAbandoned)'
  BY DEF TypeOK, HoldsCall, ReturnsPublished, NotAbandoned, TaskAwaited, FlagClear, OneOwner
<1>4. AnswersOutcome'
  BY DEF TypeOK, HoldsCall, AnswersOutcome
<1>5. (AbandonersVanished /\ OutcomeVanished)'
  BY DEF TypeOK, HoldsCall, AbandonersVanished, OutcomeVanished, FlagClear, TaskAwaited
<1>6. (SpawnedIfBlocking /\ NoWastedCompute)'
  BY DEF TypeOK, SpawnedIfBlocking, NoWastedCompute, decode
<1> QED BY <1>1, <1>2, <1>3, <1>4, <1>5, <1>6

(* So has a dropped one. *)
LEMMA CancelLeaderAnswers ==
  ASSUME IInv, AnswersInv, NEW c \in Callers, CancelLeader(c)
  PROVE  AnswersInv'
<1> USE DEF CancelLeader, Vanish
<1>1. (SameType /\ OwnType)'
  BY DEF TypeOK, SameType, OwnType, FlagClear
<1>2. Decodable'
  BY DEF TypeOK, HoldsCall, Decodable
<1>3. (ReturnsPublished /\ NotAbandoned)'
  BY DEF TypeOK, HoldsCall, ReturnsPublished, NotAbandoned, TaskAwaited, FlagClear, OneOwner
<1>4. AnswersOutcome'
  BY DEF TypeOK, HoldsCall, AnswersOutcome
<1>5. (AbandonersVanished /\ OutcomeVanished)'
  BY DEF TypeOK, HoldsCall, AbandonersVanished, OutcomeVanished, FlagClear, TaskAwaited
<1>6. (SpawnedIfBlocking /\ NoWastedCompute)'
  BY DEF TypeOK, SpawnedIfBlocking, NoWastedCompute, decode
<1> QED BY <1>1, <1>2, <1>3, <1>4, <1>5, <1>6

(* A dropped follower returns nothing. *)
LEMMA CancelFollowerAnswers ==
  ASSUME IInv, AnswersInv, NEW c \in Callers, CancelFollower(c)
  PROVE  AnswersInv'
<1> USE DEF CancelFollower
<1>1. (SameType /\ OwnType)'
  BY DEF TypeOK, SameType, OwnType, TaskAwaited
<1>2. Decodable'
  BY DEF TypeOK, HoldsCall, Decodable
<1>3. (ReturnsPublished /\ NotAbandoned)'
  BY DEF TypeOK, HoldsCall, ReturnsPublished, NotAbandoned, TaskAwaited, FlagClear, OneOwner
<1>4. AnswersOutcome'
  BY DEF TypeOK, HoldsCall, AnswersOutcome
<1>5. (AbandonersVanished /\ OutcomeVanished)'
  BY DEF TypeOK, HoldsCall, AbandonersVanished, OutcomeVanished, FlagClear, TaskAwaited
<1>6. (SpawnedIfBlocking /\ NoWastedCompute)'
  BY DEF TypeOK, SpawnedIfBlocking, NoWastedCompute, decode
<1> QED BY <1>1, <1>2, <1>3, <1>4, <1>5, <1>6

(* An entry that goes makes nothing decodable. *)
LEMMA StoreLosesAnswers ==
  ASSUME IInv, AnswersInv, NEW k \in Keys, StoreLoses(k)
  PROVE  AnswersInv'
<1> USE DEF StoreLoses
<1>1. (SameType /\ OwnType)'
  BY DEF TypeOK, SameType, OwnType, TaskAwaited
<1>2. Decodable'
  BY DEF TypeOK, HoldsCall, Decodable
<1>3. (ReturnsPublished /\ NotAbandoned)'
  BY DEF TypeOK, HoldsCall, ReturnsPublished, NotAbandoned, TaskAwaited, FlagClear, OneOwner
<1>4. AnswersOutcome'
  BY DEF TypeOK, HoldsCall, AnswersOutcome
<1>5. (AbandonersVanished /\ OutcomeVanished)'
  BY DEF TypeOK, HoldsCall, AbandonersVanished, OutcomeVanished, FlagClear, TaskAwaited
<1>6. (SpawnedIfBlocking /\ NoWastedCompute)'
  BY DEF TypeOK, SpawnedIfBlocking, NoWastedCompute, decode
<1> QED BY <1>1, <1>2, <1>3, <1>4, <1>5, <1>6

(* Bytes without a header do not decode as any type. *)
LEMMA SetBytesAnswers ==
  ASSUME IInv, AnswersInv, NEW k \in Keys, NEW v \in Values, SetBytes(k, v)
  PROVE  AnswersInv'
<1> USE DEF SetBytes
<1>1. (SameType /\ OwnType)'
  BY DEF TypeOK, SameType, OwnType, TaskAwaited
<1>2. Decodable'
  BY DEF TypeOK, HoldsCall, Decodable
<1>3. (ReturnsPublished /\ NotAbandoned)'
  BY DEF TypeOK, HoldsCall, ReturnsPublished, NotAbandoned, TaskAwaited, FlagClear, OneOwner
<1>4. AnswersOutcome'
  BY DEF TypeOK, HoldsCall, AnswersOutcome
<1>5. (AbandonersVanished /\ OutcomeVanished)'
  BY DEF TypeOK, HoldsCall, AbandonersVanished, OutcomeVanished, FlagClear, TaskAwaited
<1>6. (SpawnedIfBlocking /\ NoWastedCompute)'
  BY DEF TypeOK, SpawnedIfBlocking, NoWastedCompute, decode
<1> QED BY <1>1, <1>2, <1>3, <1>4, <1>5, <1>6

-----------------------------------------------------------------------------
(* The theorems. *)

(* Every step preserves the invariant. *)
LEMMA NextAnswers ==
  ASSUME IInv, AnswersInv, [Next]_vars
  PROVE  AnswersInv'
<1>1. CASE UNCHANGED vars
  BY <1>1 DEF vars, SameType, OwnType, Decodable, ReturnsPublished, AnswersOutcome,
              NotAbandoned, AbandonersVanished, OutcomeVanished, SpawnedIfBlocking,
              NoWastedCompute, decode
<1> HIDE DEF IInv, AnswersInv
<1>2. CASE \E c \in Callers : Proceed(c)
  <2> PICK c \in Callers : Proceed(c)
    BY <1>2
  <2> QED
    BY LoadAnswers, EnterAnswers, WaitAnswers, RecheckAnswers, ComputeAnswers, SetAnswers,
       SpawnSetAnswers, PublishAnswers, NotifyAnswers, DropAnswers, AbandonAnswers,
       AbandonNotifyAnswers
    DEF Proceed
<1>3. CASE \E t \in tasks : RunTask(t)
  BY <1>3, RunTaskAnswers
<1>4. CASE Environment
  BY <1>4, StartAnswers, SpuriousWakeAnswers, PanicAnswers, CancelLeaderAnswers,
     CancelFollowerAnswers, StoreLosesAnswers, SetBytesAnswers
  DEF Environment
<1> QED BY <1>1, <1>2, <1>3, <1>4 DEF Next

(* The invariant holds in every reachable state. *)
THEOREM AnswersInvariant == Spec => []AnswersInv
<1> HIDE DEF IInv, AnswersInv
<1>1. IInv /\ AnswersInv /\ [Next]_vars => AnswersInv'
  BY NextAnswers
<1> QED BY InitAnswers, Invariant, <1>1, PTL DEF Spec

(* Outcome's contract: the leader and everybody who joined its call return *)
(* one and the same value or error, because all of them return what the    *)
(* leader published, and all of them can decode it.                        *)
THEOREM OneAnswer == Spec => []Agreement
<1>1. ASSUME AnswersInv, NEW id \in CallIds
      PROVE  Cardinality(answers[id]) <= 1
  <2>1. answers[id] = {} \/ answers[id] = {outcome[id]}
    BY <1>1 DEF AnswersOutcome
  <2>2. Cardinality({}) = 0
    BY FS_EmptySet
  <2>3. Cardinality({outcome[id]}) = 1
    BY FS_Singleton
  <2> QED BY <2>1, <2>2, <2>3
<1>2. AnswersInv => Agreement
  BY <1>1 DEF Agreement
<1> QED BY AnswersInvariant, <1>2, PTL

(* ComputeAbandoned is the truth (resolve, Leader::drop): whoever is told  *)
(* so had a leader that panicked or was dropped, and not one of another    *)
(* type whose bytes do not decode.                                         *)
THEOREM AbandonedIsTrue == Spec => []AbandonedMeansVanished
<1>1. AnswersInv => AbandonedMeansVanished
  BY DEF AbandonedMeansVanished, AnswersOutcome, OutcomeVanished
<1> QED BY AnswersInvariant, <1>1, PTL

(* Nobody computes what is already cached (the second look of              *)
(* get_or_compute): between a leader's miss and its computation, nobody    *)
(* else can put a value of its type under its key, except a spawned write  *)
(* that a dropped future left behind.                                      *)
THEOREM CachedIsNotComputed == Spec => []NoWastedCompute
<1>1. AnswersInv => NoWastedCompute
  BY DEF NoWastedCompute
<1> QED BY AnswersInvariant, <1>1, PTL
=============================================================================
