--------------------------- MODULE ComponentProofs ---------------------------
(***************************************************************************)
(* Proofs about the components whose definitions go through a list, a path *)
(* or a tree: the names of entries (FsNames), the spans of a thread        *)
(* (O11ySpans), the tracing bridge (O11yBridge) and the metric instruments *)
(* (O11yMetrics).  What such a definition is for every input is proved by  *)
(* induction as a fact about a set of numbers.                             *)
(***************************************************************************)
EXTENDS FsNames, O11ySpans, O11yBridge, O11yMetrics,
        SequenceTheorems, FiniteSetTheorems, WellFoundedInduction, TLAPS

-----------------------------------------------------------------------------
(* Induction, as facts about sets of numbers, and what it defines. *)

(* A set that has a number when it has all below it has every number.       *)
LEMMA StrongInduction ==
  ASSUME NEW T, \A m \in Nat : (\A k \in 0 .. m - 1 : k \in T) => m \in T
  PROVE  \A m \in Nat : m \in T
<1> DEFINE Rest == Nat \ T
<1>1. SUFFICES ASSUME Rest # {} PROVE FALSE
  OBVIOUS
<1>2. Rest \subseteq Nat
  OBVIOUS
<1>3. PICK x \in Rest : \A y \in Rest : ~ (<<y, x>> \in OpToRel(<, Nat))
  <2>1. IsWellFoundedOn(OpToRel(<, Nat), Nat)
    BY NatLessThanWellFounded
  <2> HIDE DEF Rest
  <2> QED BY <1>1, <1>2, <2>1, WFMin
<1>4. \A k \in 0 .. x - 1 : k \in T
  <2> SUFFICES ASSUME NEW k \in 0 .. x - 1, k \notin T PROVE FALSE
    OBVIOUS
  <2>1. k \in Rest /\ <<k, x>> \in OpToRel(<, Nat)
    BY DEF OpToRel
  <2> QED BY <2>1, <1>3
<1> QED BY <1>4

(* A set that has 0, and with a number the next, has every number.          *)
LEMMA SetInduction ==
  ASSUME NEW T, 0 \in T, \A m \in Nat : m \in T => m + 1 \in T
  PROVE  \A m \in Nat : m \in T
<1>1. ASSUME NEW m \in Nat, \A k \in 0 .. m - 1 : k \in T PROVE m \in T
  <2>1. CASE m = 0
    BY <2>1
  <2>2. CASE m # 0
    <3>1. m - 1 \in Nat /\ m - 1 \in 0 .. m - 1 /\ (m - 1) + 1 = m
      BY <2>2
    <3> QED BY <1>1, <3>1
  <2> QED BY <2>1, <2>2
<1> QED BY <1>1, StrongInduction

(* A function each of whose values is a step from an earlier one. *)
Recursion(S, init, n, back, step) ==
    /\ init \in S /\ n \in Nat
    /\ back \in [1 .. n -> Nat] /\ \A i \in 1 .. n : back[i] < i
    /\ step \in [1 .. n -> [S -> S]]
Solves(f, S, init, n, back, step) ==
    /\ f \in [0 .. n -> S] /\ f[0] = init
    /\ \A i \in 1 .. n : f[i] = step[i][f[back[i]]]

(* There is a function that solves such a recursion.                        *)
LEMMA FiniteRecursion ==
  ASSUME NEW S, NEW init, NEW n, NEW back, NEW step, Recursion(S, init, n, back, step)
  PROVE  \E f : Solves(f, S, init, n, back, step)
<1>4. /\ init \in S /\ n \in Nat
      /\ back \in [1 .. n -> Nat] /\ \A i \in 1 .. n : back[i] < i
      /\ step \in [1 .. n -> [S -> S]]
  BY DEF Recursion
<1> DEFINE Good(f, m) == f[0] = init /\ \A i \in 1 .. m : f[i] = step[i][f[back[i]]]
           T == {m \in Nat : m <= n => \E f \in [0 .. m -> S] : Good(f, m)}
<1>1. 0 \in T
  <2> DEFINE one == [i \in 0 .. 0 |-> init]
  <2>1. one \in [0 .. 0 -> S] /\ one[0] = init
    BY <1>4
  <2> HIDE DEF one
  <2>3. Good(one, 0)
    BY <2>1
  <2> QED BY <2>1, <2>3
<1>2. ASSUME NEW m \in Nat, m \in T PROVE m + 1 \in T
  <2>8. m + 1 \in Nat
    OBVIOUS
  <2> SUFFICES ASSUME m + 1 <= n PROVE \E f \in [0 .. m + 1 -> S] : Good(f, m + 1)
    BY <2>8, Zenon
  <2>1. PICK f \in [0 .. m -> S] : Good(f, m)
    <3>1. m <= n
      BY <1>4
    <3> QED BY <1>2, <3>1
  <2> DEFINE b == back[m + 1]  last == step[m + 1][f[b]]
             g == [i \in 0 .. m + 1 |-> IF i = m + 1 THEN last ELSE f[i]]
  <2>2. m + 1 \in 1 .. n /\ b \in Nat /\ b < m + 1 /\ b \in 0 .. m
    BY <1>4
  <2>3. f[b] \in S /\ step[m + 1] \in [S -> S] /\ last \in S
    BY <1>4, <2>2
  <2> HIDE DEF b, last
  <2>4. g \in [0 .. m + 1 -> S]
    BY <2>3
  <2>5. \A i \in 0 .. m : g[i] = f[i]
    OBVIOUS
  <2>6. g[m + 1] = last /\ g[0] = f[0]
    OBVIOUS
  <2> HIDE DEF g
  <2>7. ASSUME NEW i \in 1 .. m + 1 PROVE g[i] = step[i][g[back[i]]]
    <3>1. CASE i = m + 1
      BY <3>1, <2>2, <2>5, <2>6 DEF b, last
    <3>2. CASE i # m + 1
      <4>1. i \in 1 .. m /\ i \in 1 .. n
        BY <1>4, <3>2
      <4>2. back[i] \in 0 .. m
        BY <1>4, <4>1
      <4> QED BY <4>1, <4>2, <2>1, <2>5
    <3> QED BY <3>1, <3>2
  <2> QED BY <2>1, <2>4, <2>6, <2>7
<1> HIDE DEF T
<1>3. n \in T
  BY <1>1, <1>2, <1>4, SetInduction
<1> QED BY <1>3, <1>4 DEF T, Solves

-----------------------------------------------------------------------------
(* FsNames: the names under which the entries of an archive are laid out.   *)

Parts == UNION {[1 .. n -> Components] : n \in 0 .. MaxComponents}

(* What is kept of a sequence, in order: what is kept was in it. *)
PushedOf(parts) ==
    CHOOSE f : f = [n \in 0 .. Len(parts) |->
        IF n = 0 THEN << >>
        ELSE IF parts[n] \in {"", "."} THEN f[n - 1] ELSE Append(f[n - 1], parts[n])]

(* The recursion of Plain has a solution: what each component adds.         *)
LEMMA Pushing ==
  ASSUME NEW C, NEW parts \in Seq(C), NEW f, f = PushedOf(parts)
  PROVE  /\ f \in [0 .. Len(parts) -> Seq(C)] /\ f[0] = << >>
         /\ \A n \in 1 .. Len(parts) :
               f[n] = IF parts[n] \in {"", "."} THEN f[n - 1] ELSE Append(f[n - 1], parts[n])
<1> DEFINE m == Len(parts)
           back == [n \in 1 .. m |-> n - 1]
           step == [n \in 1 .. m |-> [q \in Seq(C) |-> IF parts[n] \in {"", "."} THEN q ELSE Append(q, parts[n])]]
<1>1. m \in Nat /\ \A n \in 1 .. m : parts[n] \in C
  BY LenProperties
<1> HIDE DEF m
<1>2. << >> \in Seq(C)
  BY EmptySeq
<1>3. back \in [1 .. m -> Nat] /\ \A n \in 1 .. m : back[n] < n
  BY <1>1
<1>4. step \in [1 .. m -> [Seq(C) -> Seq(C)]]
  <2> SUFFICES ASSUME NEW n \in 1 .. m, NEW q \in Seq(C)
               PROVE  (IF parts[n] \in {"", "."} THEN q ELSE Append(q, parts[n])) \in Seq(C)
    OBVIOUS
  <2>1. parts[n] \in C
    BY <1>1
  <2>2. Append(q, parts[n]) \in Seq(C)
    BY <2>1, AppendProperties
  <2> QED BY <2>2
<1>5. PICK g \in [0 .. m -> Seq(C)] : g[0] = << >> /\ \A n \in 1 .. m : g[n] = step[n][g[back[n]]]
  <2> HIDE DEF back, step
  <2>1. Recursion(Seq(C), << >>, m, back, step)
    BY <1>1, <1>2, <1>3, <1>4 DEF Recursion
  <2>2. \E g : Solves(g, Seq(C), << >>, m, back, step)
    BY <2>1, FiniteRecursion
  <2> QED BY <2>2 DEF Solves
<1>6. \A n \in 1 .. m : g[n] = IF parts[n] \in {"", "."} THEN g[n - 1] ELSE Append(g[n - 1], parts[n])
  <2> SUFFICES ASSUME NEW n \in 1 .. m
               PROVE  g[n] = IF parts[n] \in {"", "."} THEN g[n - 1] ELSE Append(g[n - 1], parts[n])
    OBVIOUS
  <2>1. n - 1 \in 0 .. m /\ g[n - 1] \in Seq(C)
    BY <1>1
  <2> QED BY <1>5, <2>1
<1> DEFINE unfold(h) == [n \in 0 .. m |->
              IF n = 0 THEN << >>
              ELSE IF parts[n] \in {"", "."} THEN h[n - 1] ELSE Append(h[n - 1], parts[n])]
<1>7. g = unfold(g)
  <2>1. \A n \in 0 .. m : n # 0 => n \in 1 .. m
    BY <1>1
  <2> QED BY <1>5, <1>6, <2>1
<1>8. f = unfold(f)
  <2>1. f = CHOOSE h : h = unfold(h)
    BY DEF PushedOf, m
  <2> HIDE DEF PushedOf
  <2> QED BY <1>7, <2>1
<1>9. f[0] = << >> /\ \A n \in 1 .. m : f[n] = IF parts[n] \in {"", "."} THEN f[n - 1] ELSE Append(f[n - 1], parts[n])
  <2>1. 0 \in 0 .. m /\ \A n \in 1 .. m : n \in 0 .. m /\ n # 0
    BY <1>1
  <2> QED BY <1>8, <2>1
<1>10. DOMAIN f = 0 .. m
  BY <1>8
<1>11. \A n \in Nat : n <= m => f[n] \in Seq(C)
  <2> DEFINE T == {n \in Nat : n <= m => f[n] \in Seq(C)}
  <2>1. 0 \in T
    BY <1>2, <1>9
  <2>2. ASSUME NEW n \in Nat, n \in T PROVE n + 1 \in T
    <3>1. CASE n + 1 <= m
      <4>1. n + 1 \in 1 .. m /\ (n + 1) - 1 = n /\ f[n] \in Seq(C) /\ parts[n + 1] \in C
        BY <1>1, <2>2, <3>1
      <4>2. f[n + 1] = IF parts[n + 1] \in {"", "."} THEN f[n] ELSE Append(f[n], parts[n + 1])
        BY <1>9, <4>1
      <4>3. f[n + 1] \in Seq(C)
        <5>1. Append(f[n], parts[n + 1]) \in Seq(C)
          BY <4>1, AppendProperties
        <5> QED BY <4>1, <4>2, <5>1
      <4> QED BY <4>3
    <3> QED BY <3>1
  <2> HIDE DEF T
  <2>3. \A n \in Nat : n \in T
    BY <2>1, <2>2, SetInduction
  <2> QED BY <2>3 DEF T
<1>12. f \in [0 .. m -> Seq(C)]
  <2>1. f = [n \in 0 .. m |-> f[n]]
    BY <1>8
  <2>2. \A n \in 0 .. m : f[n] \in Seq(C)
    BY <1>1, <1>11
  <2> QED BY <2>1, <2>2
<1> QED BY <1>9, <1>12 DEF m

(* What is left of a path is names and dot-dots of it, in their order.      *)
LEMMA PlainKeeps ==
  ASSUME NEW C, NEW parts \in Seq(C)
  PROVE  /\ Plain(parts) \in Seq(C)
         /\ \A i \in DOMAIN Plain(parts) :
               Plain(parts)[i] \notin {"", "."} /\ \E j \in DOMAIN parts : parts[j] = Plain(parts)[i]
<1> DEFINE f == PushedOf(parts)  m == Len(parts)
           Kept(q) == \A i \in DOMAIN q : q[i] \notin {"", "."} /\ \E j \in DOMAIN parts : parts[j] = q[i]
<1>1. Plain(parts) = f[m]
  BY DEF Plain, PushedOf
<1>2. m \in Nat /\ DOMAIN parts = 1 .. m
  BY LenProperties
<1>3. /\ f \in [0 .. m -> Seq(C)] /\ f[0] = << >>
      /\ \A n \in 1 .. m : f[n] = IF parts[n] \in {"", "."} THEN f[n - 1] ELSE Append(f[n - 1], parts[n])
  BY Pushing
<1> HIDE DEF f, m
<1> HIDE DEF Kept
<1> DEFINE T == {n \in Nat : n <= m => Kept(f[n])}
<1>4. 0 \in T
  <2>1. DOMAIN << >> = {}
    OBVIOUS
  <2> QED BY <1>3, <2>1 DEF Kept
<1>5. ASSUME NEW n \in Nat, n \in T PROVE n + 1 \in T
  <2> DEFINE k == n + 1
  <2> SUFFICES ASSUME k <= m PROVE Kept(f[k])
    OBVIOUS
  <2>1. k \in 1 .. m /\ k - 1 = n /\ n <= m /\ n \in 0 .. m
    BY <1>2
  <2>2. f[n] \in Seq(C) /\ Kept(f[n]) /\ k \in DOMAIN parts /\ parts[k] \in C
    <3>1. Kept(f[n])
      BY <1>5, <2>1
    <3>2. f[n] \in Seq(C)
      BY <1>3, <2>1
    <3> QED BY <1>2, <2>1, <3>1, <3>2, LenProperties
  <2>3. f[k] = IF parts[k] \in {"", "."} THEN f[n] ELSE Append(f[n], parts[k])
    BY <1>3, <2>1
  <2> HIDE DEF k, T
  <2>4. CASE parts[k] \in {"", "."}
    BY <2>2, <2>3, <2>4
  <2>5. CASE parts[k] \notin {"", "."}
    <3> DEFINE q == f[n]  e == parts[k]
    <3>1. q \in Seq(C) /\ e \in C /\ f[k] = Append(q, e) /\ Kept(q) /\ e \notin {"", "."}
      BY <2>2, <2>3, <2>5
    <3>2. \E j \in DOMAIN parts : parts[j] = e
      BY <2>2
    <3> HIDE DEF q, e
    <3>3. \A i \in DOMAIN Append(q, e) : Append(q, e)[i] = e \/ (i \in DOMAIN q /\ Append(q, e)[i] = q[i])
      <4>1. /\ Append(q, e) \in Seq(C) /\ Len(Append(q, e)) = Len(q) + 1 /\ Len(q) \in Nat
            /\ DOMAIN q = 1 .. Len(q) /\ DOMAIN Append(q, e) = 1 .. Len(Append(q, e))
        BY <3>1, AppendProperties, LenProperties
      <4>2. \A i \in 1 .. Len(q) : Append(q, e)[i] = q[i]
        BY <3>1, AppendProperties
      <4>3. Append(q, e)[Len(q) + 1] = e
        BY <3>1, AppendProperties
      <4>4. \A i \in 1 .. Len(q) + 1 : i = Len(q) + 1 \/ i \in 1 .. Len(q)
        BY <4>1
      <4> QED BY <4>1, <4>2, <4>3, <4>4
    <3>4. Kept(Append(q, e))
      BY <3>1, <3>2, <3>3 DEF Kept
    <3> QED BY <3>1, <3>4
  <2> QED BY <2>4, <2>5
<1> HIDE DEF T
<1>6. \A n \in Nat : n \in T
  BY <1>4, <1>5, SetInduction
<1>7. Kept(f[m])
  <2>1. m \in T
    BY <1>2, <1>6
  <2> QED BY <1>2, <2>1 DEF T
<1>8. f[m] \in Seq(C)
  <2>1. m \in 0 .. m
    BY <1>2
  <2> QED BY <1>3, <2>1
<1> QED BY <1>1, <1>7, <1>8 DEF Kept

(* A name accepted is nothing but names. *)
LEMMA NamesOnly ==
  ASSUME NEW path, path.parts \in Seq(Components), validate_entry_name(path) # Rejected
  PROVE  /\ validate_entry_name(path) = Plain(path.parts) /\ Plain(path.parts) \in Seq(Components)
         /\ \A i \in DOMAIN Plain(path.parts) : Plain(path.parts)[i] = "name"
<1>1. /\ validate_entry_name(path) = Plain(path.parts)
      /\ \A i \in DOMAIN path.parts : path.parts[i] # ".." /\ path.parts[i] # "NUL"
  BY DEF validate_entry_name, is_reserved_device_name
<1> DEFINE parts == path.parts  kept == Plain(parts)
<1>2. parts \in Seq(Components)
  OBVIOUS
<1> HIDE DEF parts
<1>3. kept \in Seq(Components)
      /\ \A i \in DOMAIN kept : kept[i] \notin {"", "."} /\ \E j \in DOMAIN parts : parts[j] = kept[i]
  BY <1>2, PlainKeeps
<1>4. \A i \in DOMAIN kept : kept[i] \in Components
  BY <1>3, LenProperties
<1>5. \A i \in DOMAIN kept : kept[i] = "name"
  <2> SUFFICES ASSUME NEW i \in DOMAIN kept PROVE kept[i] = "name"
    OBVIOUS
  <2>1. kept[i] # ".." /\ kept[i] # "NUL"
    BY <1>1, <1>3 DEF parts
  <2> HIDE DEF kept
  <2> QED BY <1>3, <1>4, <2>1 DEF Components
<1> QED BY <1>1, <1>3, <1>5 DEF parts

(* A target accepted climbs first, and no further than the root. *)
PassedOf(depth, parts) ==
    CHOOSE f : f = [n \in 0 .. Len(parts) |->
        IF n = 0 THEN {depth}
        ELSE IF parts[n] = ".." THEN {d - 1 : d \in f[n - 1]}
        ELSE 0 .. MaxComponents]

(* The recursion of Passes has a solution: the depth after each component.  *)
LEMMA Passing ==
  ASSUME NEW depth \in Nat, NEW C, NEW parts \in Seq(C), NEW f, f = PassedOf(depth, parts)
  PROVE  /\ DOMAIN f = 0 .. Len(parts) /\ f[0] = {depth}
         /\ \A n \in 1 .. Len(parts) :
               f[n] = IF parts[n] = ".." THEN {d - 1 : d \in f[n - 1]} ELSE 0 .. MaxComponents
<1> DEFINE m == Len(parts)
           back == [n \in 1 .. m |-> n - 1]
           step == [n \in 1 .. m |-> [q \in SUBSET Int |->
                       IF parts[n] = ".." THEN {d - 1 : d \in q} ELSE 0 .. MaxComponents]]
           unfold(h) == [n \in 0 .. m |->
              IF n = 0 THEN {depth}
              ELSE IF parts[n] = ".." THEN {d - 1 : d \in h[n - 1]} ELSE 0 .. MaxComponents]
<1>1. m \in Nat
  BY LenProperties
<1> HIDE DEF m
<1>2. {depth} \in SUBSET Int
  OBVIOUS
<1>3. back \in [1 .. m -> Nat] /\ \A n \in 1 .. m : back[n] < n
  BY <1>1
<1>4. step \in [1 .. m -> [SUBSET Int -> SUBSET Int]]
  <2> SUFFICES ASSUME NEW n \in 1 .. m, NEW q \in SUBSET Int
               PROVE  (IF parts[n] = ".." THEN {d - 1 : d \in q} ELSE 0 .. MaxComponents) \in SUBSET Int
    OBVIOUS
  <2>1. {d - 1 : d \in q} \in SUBSET Int /\ 0 .. MaxComponents \in SUBSET Int
    BY NamesAssumption
  <2> QED BY <2>1
<1>5. PICK g \in [0 .. m -> SUBSET Int] : g[0] = {depth} /\ \A n \in 1 .. m : g[n] = step[n][g[back[n]]]
  <2> HIDE DEF back, step
  <2>1. Recursion(SUBSET Int, {depth}, m, back, step)
    BY <1>1, <1>2, <1>3, <1>4 DEF Recursion
  <2>2. \E g : Solves(g, SUBSET Int, {depth}, m, back, step)
    BY <2>1, FiniteRecursion
  <2> QED BY <2>2 DEF Solves
<1>6. \A n \in 1 .. m : g[n] = IF parts[n] = ".." THEN {d - 1 : d \in g[n - 1]} ELSE 0 .. MaxComponents
  <2> SUFFICES ASSUME NEW n \in 1 .. m
               PROVE  g[n] = IF parts[n] = ".." THEN {d - 1 : d \in g[n - 1]} ELSE 0 .. MaxComponents
    OBVIOUS
  <2>1. n - 1 \in 0 .. m /\ g[n - 1] \in SUBSET Int
    BY <1>1
  <2> QED BY <1>5, <2>1
<1>7. g = unfold(g)
  <2>1. \A n \in 0 .. m : n # 0 => n \in 1 .. m
    BY <1>1
  <2>2. \A n \in 0 .. m : g[n] = IF n = 0 THEN {depth}
                                 ELSE IF parts[n] = ".." THEN {d - 1 : d \in g[n - 1]} ELSE 0 .. MaxComponents
    BY <1>5, <1>6, <2>1
  <2>3. g = [n \in 0 .. m |-> g[n]]
    BY <1>5
  <2> QED BY <2>2, <2>3, Zenon
<1>8. f = unfold(f)
  <2>1. f = CHOOSE h : h = unfold(h)
    BY DEF PassedOf, m
  <2> HIDE DEF PassedOf
  <2> QED BY <1>7, <2>1
<1>9. 0 \in 0 .. m /\ \A n \in 1 .. m : n \in 0 .. m /\ n # 0
  BY <1>1
<1> QED BY <1>8, <1>9 DEF m

(* A target that is accepted never passes above the root on its way.        *)
LEMMA TargetStays ==
  ASSUME NEW depth \in Nat, NEW path, path.parts \in Seq(Components), validate_symlink_target(depth, path)
  PROVE  \A d \in Passes(depth, Plain(path.parts)) : d >= 0
<1> DEFINE parts == Plain(path.parts)  f == PassedOf(depth, parts)  m == Len(parts)
           ups == {i \in DOMAIN parts : parts[i] = ".."}  k == Cardinality(ups)
<1>1. parts \in Seq(Components) /\ m \in Nat /\ DOMAIN parts = 1 .. m
  BY PlainKeeps, LenProperties
<1>2. ups = 1 .. k /\ k <= depth
  BY DEF validate_symlink_target
<1>3. k \in Nat
  <2>1. IsFiniteSet(1 .. m)
    BY <1>1, FS_Interval
  <2>2. ups \subseteq 1 .. m
    BY <1>1
  <2> HIDE DEF ups
  <2> QED BY <2>1, <2>2, FS_Subset, FS_CardinalityType
<1>4. Passes(depth, parts) = UNION {f[n] : n \in DOMAIN f}
  BY DEF Passes, PassedOf
<1>5. \A n \in 1 .. m : parts[n] = ".." <=> n <= k
  BY <1>1, <1>2, <1>3
<1> HIDE DEF parts, f, m, k, ups
<1>6. /\ DOMAIN f = 0 .. m /\ f[0] = {depth}
      /\ \A n \in 1 .. m : f[n] = IF parts[n] = ".." THEN {d - 1 : d \in f[n - 1]} ELSE 0 .. MaxComponents
  BY <1>1, Passing DEF f, m
<1> DEFINE T == {n \in Nat : n <= m => (n <= k => f[n] = {depth - n}) /\ \A d \in f[n] : d \in Int /\ d >= 0}
<1>7. 0 \in T
  BY <1>6
<1>8. ASSUME NEW n \in Nat, n \in T PROVE n + 1 \in T
  <2> SUFFICES ASSUME n + 1 <= m
               PROVE  (n + 1 <= k => f[n + 1] = {depth - (n + 1)}) /\ \A d \in f[n + 1] : d \in Int /\ d >= 0
    OBVIOUS
  <2>1. n + 1 \in 1 .. m /\ (n + 1) - 1 = n /\ n <= m
    BY <1>1
  <2>2. f[n + 1] = IF parts[n + 1] = ".." THEN {d - 1 : d \in f[n]} ELSE 0 .. MaxComponents
    BY <1>6, <2>1
  <2>3. CASE n + 1 <= k
    <3>1. parts[n + 1] = ".." /\ n <= k
      BY <1>3, <1>5, <2>1, <2>3
    <3>2. f[n] = {depth - n}
      BY <1>8, <2>1, <3>1
    <3>3. f[n + 1] = {depth - (n + 1)}
      BY <2>2, <3>1, <3>2
    <3>4. depth - (n + 1) >= 0
      BY <1>2, <1>3, <2>3
    <3> QED BY <3>3, <3>4
  <2>4. CASE ~(n + 1 <= k)
    <3>1. parts[n + 1] # ".."
      BY <1>5, <2>1, <2>4
    <3>2. f[n + 1] = 0 .. MaxComponents
      BY <2>2, <3>1
    <3> QED BY <2>4, <3>2, NamesAssumption
  <2> QED BY <2>3, <2>4
<1> HIDE DEF T
<1>9. \A n \in Nat : n \in T
  BY <1>7, <1>8, SetInduction
<1>10. \A n \in 0 .. m : \A d \in f[n] : d >= 0
  BY <1>1, <1>9 DEF T
<1> QED BY <1>4, <1>6, <1>10 DEF parts

(* Two paths one after the other: the first is in front. *)
LEMMA FirstInFront ==
  ASSUME NEW C, NEW p \in Seq(C), NEW q \in Seq(C)
  PROVE  NameSeqs!IsPrefix(p, p \o q) /\ Len(p \o q) \in Nat /\ (p # << >> => Len(p \o q) > 0)
<1>1. /\ Len(p) \in Nat /\ Len(q) \in Nat /\ p \o q \in Seq(C) /\ Len(p \o q) = Len(p) + Len(q)
      /\ \A i \in 1 .. Len(p) + Len(q) : (p \o q)[i] = IF i <= Len(p) THEN p[i] ELSE q[i - Len(p)]
  BY ConcatProperties, LenProperties
<1> DEFINE r == p \o q
<1> HIDE DEF r
<1>2. \A i \in 1 .. Len(p) : r[i] = p[i]
  BY <1>1 DEF r
<1>3. r \in Seq(C) /\ Len(r) \in Nat /\ Len(p) <= Len(r)
  BY <1>1 DEF r
<1>4. SubSeq(p, 1, Len(p)) = SubSeq(r, 1, Len(p))
  <2>1. /\ SubSeq(p, 1, Len(p)) \in Seq(C) /\ Len(SubSeq(p, 1, Len(p))) = Len(p)
        /\ \A i \in 1 .. Len(p) : SubSeq(p, 1, Len(p))[i] = p[i]
    BY <1>1, SubSeqProperties
  <2>2. /\ SubSeq(r, 1, Len(p)) \in Seq(C) /\ Len(SubSeq(r, 1, Len(p))) = Len(p)
        /\ \A i \in 1 .. Len(p) : SubSeq(r, 1, Len(p))[i] = r[i]
    BY <1>1, <1>3, SubSeqProperties
  <2> QED BY <1>2, <2>1, <2>2, SeqEqual
<1>5. p # << >> => Len(p) > 0
  BY <1>1, EmptySeq
<1> QED BY <1>1, <1>3, <1>4, <1>5 DEF r, NameSeqs!IsPrefix

(* A path is a prefix and a sequence of components.                         *)
LEMMA PathTyped ==
  ASSUME NEW path \in PathTexts PROVE path.parts \in Seq(Components)
<1>1. PICK n \in 0 .. MaxComponents : path.parts \in [1 .. n -> Components]
  BY DEF PathTexts
<1> QED BY <1>1, NamesAssumption, IsASeq

(* What is accepted stays inside. *)
THEOREM StaysInsideHolds == NamesSpec => []StaysInside
<1>1. NamesInit => StaysInside
  BY DEF NamesInit, StaysInside
<1>2. StaysInside /\ [NamesNext]_namesVars => StaysInside'
  <2> SUFFICES ASSUME StaysInside, [NamesNext]_namesVars PROVE StaysInside'
    OBVIOUS
  <2>1. ASSUME NEW path \in PathTexts, asked' = [what |-> "name", path |-> path],
               answer' = validate_entry_name(path)
        PROVE  StaysInside'
    <3>1. answer' # Rejected => \A i \in DOMAIN answer' : answer'[i] = "name"
      BY <2>1, PathTyped, NamesOnly
    <3> QED BY <2>1, <3>1 DEF StaysInside
  <2>2. ASSUME NEW path \in PathTexts, NEW depth \in 0 .. 2,
               asked' = [what |-> "target", path |-> path, depth |-> depth],
               answer' = validate_symlink_target(depth, path)
        PROVE  StaysInside'
    <3>1. answer' => \A d \in Passes(depth, Plain(path.parts)) : d >= 0
      <4> SUFFICES ASSUME answer' PROVE \A d \in Passes(depth, Plain(path.parts)) : d >= 0
        OBVIOUS
      <4>1. validate_symlink_target(depth, path)
        BY <2>2, Zenon
      <4>2. path.parts \in Seq(Components) /\ depth \in Nat
        BY PathTyped
      <4> QED BY <4>1, <4>2, TargetStays
    <3>2. asked'.what = "target" /\ asked'.depth = depth /\ asked'.path = path
      BY <2>2
    <3> QED BY <3>1, <3>2 DEF StaysInside
  <2>3. ASSUME NEW name \in PathTexts, NEW sub \in PathTexts,
               asked' = [what |-> "file", name |-> name, sub |-> sub],
               answer' = mk_config_file_at(name, sub)
        PROVE  StaysInside'
    <3> SUFFICES ASSUME answer' # Rejected
                 PROVE  Len(answer') > 1 /\ NameSeqs!IsPrefix(Plain(name.parts), answer')
      BY <2>3 DEF StaysInside
    <3> DEFINE path == user_path(name, sub)  n == validate_entry_name(name)  s == validate_entry_name(sub)
    <3>1. answer' = path /\ path # Rejected /\ Len(path) # 1
      BY <2>3 DEF mk_config_file_at
    <3>2. n # Rejected /\ n # << >> /\ s # Rejected /\ path = n \o s
      BY <3>1 DEF user_path
    <3>3. n = Plain(name.parts) /\ n \in Seq(Components) /\ s \in Seq(Components)
      BY <3>2, PathTyped, NamesOnly
    <3> HIDE DEF n, s, path
    <3>4. NameSeqs!IsPrefix(n, n \o s) /\ Len(n \o s) \in Nat /\ Len(n \o s) > 0
      BY <3>2, <3>3, FirstInFront
    <3> QED BY <3>1, <3>2, <3>3, <3>4
  <2>4. ASSUME NEW ext, NEW added, asked' = [what |-> "extension", ext |-> ext, added |-> added]
        PROVE  StaysInside'
    BY <2>4 DEF StaysInside
  <2>5. ASSUME NEW e \in Entries, asked' = [what |-> "entry", entry |-> e], answer' = classify(e)
        PROVE  StaysInside'
    BY <2>5 DEF StaysInside, classify, Entries
  <2>6. CASE UNCHANGED namesVars
    BY <2>6 DEF namesVars, StaysInside
  <2>7. CASE NamesNext
    BY <2>1, <2>2, <2>3, <2>4, <2>5, <2>7 DEF NamesNext, Ask
  <2> QED BY <2>6, <2>7
<1> QED BY <1>1, <1>2, PTL DEF NamesSpec

-----------------------------------------------------------------------------
(* O11ySpans: the stack of spans of a thread.                               *)

Parents == Nat \cup {NoSpan}
SpansTypeOK ==
    /\ tracing \in BOOLEAN
    /\ spans \in Seq(Parents)
    /\ stack \in [Workers -> Seq(Nat)]
    /\ guards \in [Workers -> SUBSET Ids]
    /\ pendingSpans \in [Futures -> {NoSpan} \cup [id : Ids, parked : BOOLEAN]]
    /\ polls \in [Workers -> Seq(Futures)]
    /\ owned \subseteq Ids

(* A span has one owner: a guard of one thread, or one future. *)
OneOwner ==
    /\ \A t, u \in Workers, id \in Ids : id \in guards[t] /\ id \in guards[u] => t = u
    /\ \A f, g \in Futures :
          pendingSpans[f] # NoSpan /\ pendingSpans[g] # NoSpan /\ pendingSpans[f].id = pendingSpans[g].id
             => f = g
    /\ \A f \in Futures, t \in Workers : pendingSpans[f] # NoSpan => pendingSpans[f].id \notin guards[t]

(* A future is polled by one thread, once, and is parked between its polls. *)
OnePoll ==
    /\ \A t \in Workers : IsInjective(polls[t])
    /\ \A t, u \in Workers, f \in Futures : f \in Range(polls[t]) /\ f \in Range(polls[u]) => t = u
    /\ \A t \in Workers, f \in Futures : f \in Range(polls[t]) => pendingSpans[f] # NoSpan
    /\ \A f \in Futures : pendingSpans[f] # NoSpan => (pendingSpans[f].parked <=> ~Polled(f))

SpansInv == SpansTypeOK /\ OneOwner /\ OnePoll /\ StacksBalance

(* What taking an id off a stack leaves. *)
LEMMA RemoveIndex ==
  ASSUME NEW S, NEW s \in Seq(S), IsInjective(s), NEW i \in 1 .. Len(s),
         NEW r, r = SubSeq(s, 1, i - 1) \o SubSeq(s, i + 1, Len(s))
  PROVE  r \in Seq(S) /\ IsInjective(r) /\ Range(r) = Range(s) \ {s[i]}
<1> DEFINE n == Len(s)  a == SubSeq(s, 1, i - 1)  b == SubSeq(s, i + 1, n)
<1>1. n \in Nat /\ i \in 1 .. n /\ DOMAIN s = 1 .. n /\ \A k \in 1 .. n : s[k] \in S
  BY LenProperties
<1>2. /\ a \in Seq(S) /\ Len(a) = i - 1 /\ \A k \in 1 .. i - 1 : a[k] = s[k]
  OBVIOUS
<1>3. /\ b \in Seq(S) /\ Len(b) = n - i /\ \A k \in 1 .. n - i : b[k] = s[i + k]
  OBVIOUS
<1>4. r = a \o b
  OBVIOUS
<1> HIDE DEF n, a, b
<1>5. /\ r \in Seq(S) /\ Len(r) = Len(a) + Len(b)
      /\ \A k \in 1 .. Len(a) + Len(b) : r[k] = IF k <= Len(a) THEN a[k] ELSE b[k - Len(a)]
  <2>1. /\ a \o b \in Seq(S) /\ Len(a \o b) = Len(a) + Len(b)
        /\ \A k \in 1 .. Len(a) + Len(b) : (a \o b)[k] = IF k <= Len(a) THEN a[k] ELSE b[k - Len(a)]
    BY <1>2, <1>3, ConcatProperties
  <2> QED BY <2>1, <1>4
<1>6. DOMAIN r = 1 .. n - 1 /\ Len(r) = n - 1
  <2>1. Len(r) = (i - 1) + (n - i)
    BY <1>2, <1>3, <1>5
  <2>2. DOMAIN r = 1 .. Len(r)
    BY <1>5, LenProperties
  <2>3. (i - 1) + (n - i) = n - 1
    BY <1>1
  <2> QED BY <2>1, <2>2, <2>3
<1>7. \A k \in 1 .. n - 1 : k < i => r[k] = s[k]
  <2> SUFFICES ASSUME NEW k \in 1 .. n - 1, k < i PROVE r[k] = s[k]
    OBVIOUS
  <2>1. k <= i - 1 /\ k \in 1 .. i - 1 /\ k \in 1 .. (i - 1) + (n - i)
    BY <1>1
  <2>2. r[k] = a[k]
    BY <2>1, <1>5, <1>2, <1>3
  <2> QED BY <2>1, <2>2, <1>2
<1>8. \A k \in 1 .. n - 1 : ~(k < i) => r[k] = s[k + 1]
  <2> SUFFICES ASSUME NEW k \in 1 .. n - 1, ~(k < i) PROVE r[k] = s[k + 1]
    OBVIOUS
  <2>1. k - (i - 1) \in 1 .. n - i /\ ~(k <= i - 1) /\ k \in 1 .. (i - 1) + (n - i)
    BY <1>1
  <2>2. r[k] = b[k - (i - 1)]
    BY <2>1, <1>5, <1>2, <1>3
  <2>3. b[k - (i - 1)] = s[i + (k - (i - 1))]
    BY <2>1, <1>3
  <2>4. i + (k - (i - 1)) = k + 1
    BY <1>1
  <2> QED BY <2>2, <2>3, <2>4
<1>9. \A j, k \in 1 .. n : s[j] = s[k] => j = k
  BY <1>1 DEF IsInjective
<1>10. \A k \in 1 .. n - 1 : k \in 1 .. n /\ k + 1 \in 1 .. n
  BY <1>1
<1>11. IsInjective(r)
  <2> SUFFICES ASSUME NEW j \in 1 .. n - 1, NEW k \in 1 .. n - 1, r[j] = r[k] PROVE j = k
    BY <1>6 DEF IsInjective
  <2>1. CASE j < i /\ k < i
    BY <2>1, <1>7, <1>9, <1>10
  <2>2. CASE j < i /\ ~(k < i)
    <3>1. j = k + 1
      BY <2>2, <1>7, <1>8, <1>9, <1>10
    <3> QED BY <2>2, <3>1, <1>1
  <2>3. CASE ~(j < i) /\ k < i
    <3>2. s[j + 1] = s[k]
      BY <2>3, <1>7, <1>8
    <3>1. j + 1 = k
      BY <3>2, <1>9, <1>10
    <3> QED BY <2>3, <3>1, <1>1
  <2>4. CASE ~(j < i) /\ ~(k < i)
    <3>1. j + 1 = k + 1
      BY <2>4, <1>8, <1>9, <1>10
    <3> QED BY <3>1, <1>1
  <2> QED BY <2>1, <2>2, <2>3, <2>4
<1>12. Range(r) = Range(s) \ {s[i]}
  <2>1. ASSUME NEW e \in Range(r) PROVE e \in Range(s) \ {s[i]}
    <3>1. PICK k \in 1 .. n - 1 : e = r[k]
      BY <1>6, <2>1 DEF Range
    <3>2. CASE k < i
      <4>1. e = s[k] /\ k \in 1 .. n /\ k # i
        <5>1. e = s[k] /\ k \in 1 .. n
          BY <3>1, <3>2, <1>7, <1>10
        <5> QED BY <5>1, <3>2, <1>1
      <4> QED BY <4>1, <1>1, <1>9 DEF Range
    <3>3. CASE ~(k < i)
      <4>1. e = s[k + 1] /\ k + 1 \in 1 .. n /\ k + 1 # i
        <5>1. e = s[k + 1] /\ k + 1 \in 1 .. n
          BY <3>1, <3>3, <1>8, <1>10
        <5> QED BY <5>1, <3>3, <1>1
      <4> QED BY <4>1, <1>1, <1>9 DEF Range
    <3> QED BY <3>2, <3>3
  <2>2. ASSUME NEW e \in Range(s), e # s[i] PROVE e \in Range(r)
    <3>1. PICK x \in 1 .. n : e = s[x]
      BY <1>1, <2>2 DEF Range
    <3>2. x # i
      BY <3>1, <2>2
    <3>3. CASE x < i
      <4>1. x \in 1 .. n - 1 /\ r[x] = e
        <5>1. x \in 1 .. n - 1
          BY <3>3, <1>1
        <5> QED BY <5>1, <3>1, <3>3, <1>7
      <4> QED BY <4>1, <1>6 DEF Range
    <3>4. CASE ~(x < i)
      <4>1. x - 1 \in 1 .. n - 1 /\ ~(x - 1 < i) /\ (x - 1) + 1 = x
        BY <3>2, <3>4, <1>1
      <4>2. r[x - 1] = e
        BY <3>1, <4>1, <1>8
      <4> QED BY <4>1, <4>2, <1>6 DEF Range
    <3> QED BY <3>3, <3>4
  <2> QED BY <2>1, <2>2
<1> QED BY <1>5, <1>11, <1>12

(* remove takes away one place, of the span it looks for, and no other.     *)
LEMMA RemoveLeaves ==
  ASSUME NEW S, NEW s \in Seq(S), IsInjective(s), NEW id, NEW r, r = remove(s, id)
  PROVE  r \in Seq(S) /\ IsInjective(r) /\ Range(r) = Range(s) \ {id}
<1> DEFINE found == {i \in DOMAIN s : s[i] = id}
           index == CHOOSE i \in found : \A j \in found : j <= i
<1>1. CASE found = {}
  BY <1>1 DEF remove, Range
<1>2. CASE found # {}
  <2>1. Len(s) \in Nat /\ DOMAIN s = 1 .. Len(s)
    BY LenProperties
  <2>2. \E i \in found : \A j \in found : j <= i
    BY <1>2, <2>1 DEF IsInjective
  <2>3. index \in found
    BY <2>2
  <2>4. index \in 1 .. Len(s) /\ s[index] = id
    BY <2>3, <2>1
  <2>5. r = SubSeq(s, 1, index - 1) \o SubSeq(s, index + 1, Len(s))
    BY <1>2 DEF remove
  <2> HIDE DEF index
  <2> QED BY <2>4, <2>5, RemoveIndex
<1> QED BY <1>1, <1>2

(* What goes on top of a sequence, and what comes off. *)
LEMMA AppendLeaves ==
  ASSUME NEW S, NEW s \in Seq(S), IsInjective(s), NEW e \in S
  PROVE  Append(s, e) \in Seq(S) /\ Range(Append(s, e)) = Range(s) \cup {e}
         /\ (e \notin Range(s) => IsInjective(Append(s, e)))
<1> DEFINE r == Append(s, e)
<1>1. Len(s) \in Nat /\ DOMAIN s = 1 .. Len(s) /\ r \in Seq(S) /\ Len(r) = Len(s) + 1
      /\ DOMAIN r = 1 .. Len(s) + 1
      /\ (\A i \in 1 .. Len(s) : r[i] = s[i]) /\ r[Len(s) + 1] = e
  BY LenProperties, AppendProperties
<1> HIDE DEF r
<1>2. Range(r) = Range(s) \cup {e}
  BY <1>1 DEF Range
<1>3. ASSUME e \notin Range(s) PROVE IsInjective(r)
  <2> SUFFICES ASSUME NEW i \in 1 .. Len(s) + 1, NEW j \in 1 .. Len(s) + 1, r[i] = r[j]
               PROVE  i = j
    BY <1>1 DEF IsInjective
  <2> QED BY <1>1, <1>3 DEF IsInjective, Range
<1> QED BY <1>1, <1>2, <1>3 DEF r

(* The top taken away, the rest is what was below it.                       *)
LEMMA PopLeaves ==
  ASSUME NEW S, NEW s \in Seq(S), IsInjective(s), s # << >>, NEW r, r = Popped(s)
  PROVE  r \in Seq(S) /\ IsInjective(r) /\ Range(r) = Range(s) \ {Top(s)} /\ Top(s) \in Range(s)
<1>1. Len(s) \in Nat \ {0} /\ DOMAIN s = 1 .. Len(s)
  BY LenProperties, EmptySeq
<1>2. /\ SubSeq(s, 1, Len(s) - 1) \o SubSeq(s, Len(s) + 1, Len(s)) = SubSeq(s, 1, Len(s) - 1)
  <2>1. SubSeq(s, Len(s) + 1, Len(s)) = << >>
    BY <1>1, SubSeqEmpty
  <2>2. SubSeq(s, 1, Len(s) - 1) \in Seq(S)
    BY <1>1
  <2> QED BY <2>1, <2>2, ConcatEmptySeq
<1>3. Top(s) = s[Len(s)] /\ Len(s) \in 1 .. Len(s) /\ Top(s) \in Range(s)
  BY <1>1 DEF Top, Range
<1>4. r = SubSeq(s, 1, Len(s) - 1) \o SubSeq(s, Len(s) + 1, Len(s))
  BY <1>2 DEF Popped
<1>5. r \in Seq(S) /\ IsInjective(r) /\ Range(r) = Range(s) \ {s[Len(s)]}
  BY <1>3, <1>4, RemoveIndex, Zenon
<1> QED BY <1>3, <1>5

(* No span is open at first.                                                *)
LEMMA SpansInitInv == SpansInit => SpansInv
<1> SUFFICES ASSUME SpansInit PROVE SpansInv
  OBVIOUS
<1> USE DEF SpansInit
<1>1. SpansTypeOK
  BY DEF SpansTypeOK
<1>2. \A t \in Workers : stack[t] = << >> /\ polls[t] = << >> /\ guards[t] = {}
  OBVIOUS
<1>3. IsInjective(<< >>) /\ Range(<< >>) = {}
  BY DEF IsInjective, Range
<1>4. OneOwner /\ OnePoll
  BY <1>2, <1>3 DEF OneOwner, OnePoll
<1>5. StacksBalance
  BY <1>2, <1>3 DEF StacksBalance
<1> QED BY <1>1, <1>4, <1>5 DEF SpansInv

(* What is on a stack is a span there is. *)
LEMMA OnlySpans ==
  ASSUME SpansInv, NEW t \in Workers
  PROVE  /\ Range(stack[t]) \subseteq Ids /\ IsInjective(stack[t])
         /\ Range(stack[t]) = guards[t] \cup {pendingSpans[f].id : f \in Range(polls[t])}
         /\ Range(polls[t]) \subseteq Futures /\ IsInjective(polls[t])
         /\ stack[t] \in Seq(Nat) /\ polls[t] \in Seq(Futures)
<1>1. stack[t] \in Seq(Nat) /\ polls[t] \in Seq(Futures) /\ guards[t] \subseteq Ids
  BY DEF SpansInv, SpansTypeOK
<1>2. Range(polls[t]) \subseteq Futures
  BY <1>1, RangeOfSeq
<1>3. \A f \in Range(polls[t]) : pendingSpans[f] # NoSpan
  BY <1>2 DEF SpansInv, OnePoll
<1>4. \A f \in Range(polls[t]) : pendingSpans[f].id \in Ids
  BY <1>2, <1>3 DEF SpansInv, SpansTypeOK
<1>5. IsInjective(stack[t]) /\ IsInjective(polls[t])
      /\ Range(stack[t]) = guards[t] \cup {pendingSpans[f].id : f \in Range(polls[t])}
  BY DEF SpansInv, StacksBalance, OnePoll
<1> QED BY <1>1, <1>2, <1>4, <1>5

(* Nothing of the stacks changes. *)
LEMMA StacksAsTheyWere ==
  ASSUME SpansInv, UNCHANGED <<stack, guards, pendingSpans, polls>>,
         Ids \subseteq Ids', spans' \in Seq(Parents), tracing' \in BOOLEAN, owned' \subseteq Ids'
  PROVE  SpansInv'
<1>1. SpansTypeOK'
  BY DEF SpansInv, SpansTypeOK
<1>2. OneOwner'
  <2>1. \A t \in Workers : guards[t] \subseteq Ids
    BY DEF SpansInv, SpansTypeOK
  <2> QED BY <2>1 DEF SpansInv, OneOwner
<1>3. OnePoll' /\ StacksBalance'
  BY DEF SpansInv, OnePoll, StacksBalance, Polled
<1> QED BY <1>1, <1>2, <1>3 DEF SpansInv

(* A span opened takes the next id. *)
LEMMA NextId ==
  ASSUME SpansInv, NEW parent \in Parents, Opened(parent)
  PROVE  /\ spans' \in Seq(Parents) /\ Len(spans') \in Ids' /\ Len(spans') \notin Ids
         /\ Len(spans') \in Nat /\ Ids \subseteq Ids' /\ Ids' = Ids \cup {Len(spans')}
<1>1. spans \in Seq(Parents) /\ spans' = Append(spans, parent)
  BY DEF SpansInv, SpansTypeOK, Opened
<1>2. spans' \in Seq(Parents) /\ Len(spans') = Len(spans) + 1 /\ Len(spans) \in Nat
  BY <1>1, AppendProperties, LenProperties
<1> QED BY <1>2 DEF Ids

(* What a span inherits is a span, or none.                                 *)
LEMMA InheritedIsParent ==
  ASSUME SpansInv, NEW t \in Workers
  PROVE  Inherited(t) \in Parents
<1>1. stack[t] \in Seq(Nat)
  BY DEF SpansInv, SpansTypeOK
<1>2. stack[t] # << >> => Len(stack[t]) \in 1 .. Len(stack[t])
  BY <1>1, EmptySeq
<1> QED BY <1>1, <1>2, ElementOfSeq DEF Inherited, Top, Parents

(* A guard: its span on top of the stack, and nobody else has it.           *)
LEMMA EnterInv == ASSUME SpansInv, NEW t \in Workers, Enter(t) PROVE SpansInv'
<1> DEFINE n == Len(spans')
<1>1. /\ spans' \in Seq(Parents) /\ n \in Ids' /\ n \notin Ids
      /\ n \in Nat /\ Ids \subseteq Ids' /\ Ids' = Ids \cup {n}
  BY NextId, InheritedIsParent DEF Enter
<1> HIDE DEF n
<1>2. /\ stack' = [stack EXCEPT ![t] = Append(@, n)] /\ guards' = [guards EXCEPT ![t] = @ \cup {n}]
      /\ UNCHANGED <<tracing, pendingSpans, polls, owned>>
  BY DEF Enter, n
<1>3. /\ Range(stack[t]) \subseteq Ids /\ IsInjective(stack[t]) /\ stack[t] \in Seq(Nat)
  BY OnlySpans
<1>4. stack \in [Workers -> Seq(Nat)] /\ guards \in [Workers -> SUBSET Ids] /\ owned \subseteq Ids
      /\ tracing \in BOOLEAN /\ polls \in [Workers -> Seq(Futures)]
      /\ pendingSpans \in [Futures -> {NoSpan} \cup [id : Ids, parked : BOOLEAN]]
  BY DEF SpansInv, SpansTypeOK
<1>5. /\ stack'[t] = Append(stack[t], n) /\ guards'[t] = guards[t] \cup {n}
      /\ \A u \in Workers : u # t => stack'[u] = stack[u] /\ guards'[u] = guards[u]
  BY <1>2, <1>4
<1>6. stack'[t] \in Seq(Nat) /\ Range(stack'[t]) = Range(stack[t]) \cup {n} /\ IsInjective(stack'[t])
  <2>1. n \notin Range(stack[t])
    BY <1>1, <1>3
  <2>2. stack'[t] = Append(stack[t], n)
    BY <1>5
  <2>3. stack'[t] \in Seq(Nat) /\ Range(stack'[t]) = Range(stack[t]) \cup {n}
        /\ (n \notin Range(stack[t]) => IsInjective(stack'[t]))
    <3> DEFINE old == stack[t]  new == stack'[t]
    <3>1. old \in Seq(Nat) /\ IsInjective(old) /\ new = Append(old, n) /\ n \in Nat
      BY <2>2, <1>1, <1>3
    <3> HIDE DEF old, new
    <3>2. new \in Seq(Nat) /\ Range(new) = Range(old) \cup {n} /\ (n \notin Range(old) => IsInjective(new))
      BY <3>1, AppendLeaves
    <3> QED BY <3>2 DEF old, new
  <2> QED BY <2>1, <2>3
<1>7. SpansTypeOK'
  <2>1. stack' \in [Workers -> Seq(Nat)]
    BY <1>2, <1>4, <1>6, <1>5
  <2>2. guards' \in [Workers -> SUBSET Ids']
    BY <1>1, <1>2, <1>4
  <2>3. pendingSpans' \in [Futures -> {NoSpan} \cup [id : Ids', parked : BOOLEAN]]
    BY <1>1, <1>2, <1>4
  <2> QED BY <1>1, <1>2, <1>4, <2>1, <2>2, <2>3 DEF SpansTypeOK
<1>8. OneOwner'
  <2>1. \A u, v \in Workers, id \in Ids' : id \in guards'[u] /\ id \in guards'[v] => u = v
    <3>1. \A u \in Workers : n \notin guards[u]
      BY <1>1, <1>4
    <3>2. \A u \in Workers : guards[u] \subseteq Ids
      BY <1>4
    <3>3. \A u \in Workers, id \in Ids' : id \in guards'[u] => (id = n /\ u = t) \/ id \in guards[u]
      BY <1>5
    <3>4. \A u, v \in Workers, id \in Ids : id \in guards[u] /\ id \in guards[v] => u = v
      BY DEF SpansInv, OneOwner
    <3> QED BY <3>1, <3>2, <3>3, <3>4
  <2>2. \A f \in Futures : pendingSpans[f] # NoSpan => pendingSpans[f].id \in Ids
    BY <1>4
  <2>3. \A f \in Futures, u \in Workers : pendingSpans[f] # NoSpan => pendingSpans[f].id \notin guards'[u]
    BY <1>1, <1>5, <2>2 DEF SpansInv, OneOwner
  <2> QED BY <1>2, <2>1, <2>3 DEF SpansInv, OneOwner
<1>9. OnePoll'
  BY <1>2 DEF SpansInv, OnePoll, Polled
<1>10. StacksBalance'
  <2>1. ASSUME NEW u \in Workers
        PROVE  /\ IsInjective(stack'[u])
               /\ Range(stack'[u]) = guards'[u] \cup {pendingSpans[f].id : f \in Range(polls[u])}
    <3>1. CASE u = t
      BY <3>1, <1>5, <1>6, OnlySpans
    <3>2. CASE u # t
      BY <3>2, <1>5, OnlySpans
    <3> QED BY <3>1, <3>2
  <2> QED BY <1>2, <2>1 DEF StacksBalance
<1> QED BY <1>7, <1>8, <1>9, <1>10 DEF SpansInv

(* An owned span is on no stack.                                            *)
LEMMA StartOwnedInv == ASSUME SpansInv, NEW t \in Workers, StartOwned(t) PROVE SpansInv'
<1>1. PICK parent \in {Inherited(t), NoSpan} \cup owned : Opened(parent)
  BY DEF StartOwned
<1>2. owned \subseteq Ids /\ tracing \in BOOLEAN /\ Len(spans) \in Nat
  BY LenProperties DEF SpansInv, SpansTypeOK
<1>3. parent \in Parents
  <2>1. Inherited(t) \in Parents
    BY InheritedIsParent
  <2>2. NoSpan \in Parents /\ \A id \in owned : id \in Parents
    BY <1>2 DEF Parents, Ids
  <2> QED BY <2>1, <2>2
<1>4. /\ spans' \in Seq(Parents) /\ Len(spans') \in Ids' /\ Ids \subseteq Ids'
  BY <1>1, <1>3, NextId
<1> QED BY <1>2, <1>4, StacksAsTheyWere DEF StartOwned

(* An owned span ends and leaves every stack alone.                         *)
LEMMA EndOwnedInv == ASSUME SpansInv, NEW id \in Ids, EndOwned(id) PROVE SpansInv'
<1>1. Ids' = Ids /\ spans' = spans /\ owned' \subseteq owned /\ tracing' = tracing
      /\ UNCHANGED <<stack, guards, pendingSpans, polls>>
  BY DEF EndOwned, Ids
<1>2. spans \in Seq(Parents) /\ owned \subseteq Ids /\ tracing \in BOOLEAN
  BY DEF SpansInv, SpansTypeOK
<1> QED BY <1>1, <1>2, StacksAsTheyWere

(* The gate shuts and leaves every stack alone.                             *)
LEMMA CloseGateInv == ASSUME SpansInv, CloseGate PROVE SpansInv'
<1>1. Ids' = Ids /\ spans' = spans /\ owned' = owned /\ tracing' \in BOOLEAN
      /\ UNCHANGED <<stack, guards, pendingSpans, polls>>
  BY DEF CloseGate, Ids
<1>2. spans \in Seq(Parents) /\ owned \subseteq Ids
  BY DEF SpansInv, SpansTypeOK
<1> QED BY <1>1, <1>2, StacksAsTheyWere

(* A guard gone from its thread takes its span off the stack. *)
LEMMA GuardGone ==
  ASSUME SpansInv, NEW t \in Workers, NEW id \in guards[t],
         guards' = [guards EXCEPT ![t] = @ \ {id}],
         stack' = [stack EXCEPT ![t] = Removed(t, id)]
  PROVE  /\ guards' \in [Workers -> SUBSET Ids] /\ guards'[t] = guards[t] \ {id}
         /\ stack' \in [Workers -> Seq(Nat)]
         /\ Range(stack'[t]) = guards'[t] \cup {pendingSpans[f].id : f \in Range(polls[t])}
         /\ IsInjective(stack'[t])
         /\ \A u \in Workers : u # t => stack'[u] = stack[u] /\ guards'[u] = guards[u]
         /\ OnStack(t, id)
<1>1. /\ Range(stack[t]) = guards[t] \cup {pendingSpans[f].id : f \in Range(polls[t])}
      /\ IsInjective(stack[t]) /\ stack[t] \in Seq(Nat) /\ Range(polls[t]) \subseteq Futures
  BY OnlySpans
<1>2. stack \in [Workers -> Seq(Nat)] /\ guards \in [Workers -> SUBSET Ids]
  BY DEF SpansInv, SpansTypeOK
<1>3. stack'[t] = remove(stack[t], id)
  BY <1>2 DEF Removed
<1>4. stack'[t] \in Seq(Nat) /\ IsInjective(stack'[t]) /\ Range(stack'[t]) = Range(stack[t]) \ {id}
  BY <1>1, <1>3, RemoveLeaves
<1>5. \A f \in Range(polls[t]) : pendingSpans[f].id # id
  BY <1>1 DEF SpansInv, OneOwner, OnePoll
<1>6. guards'[t] = guards[t] \ {id}
  BY <1>2
<1> QED BY <1>1, <1>2, <1>4, <1>5, <1>6 DEF OnStack

(* A guard goes, in whatever order, with its own span.                      *)
LEMMA DropGuardInv == ASSUME SpansInv, NEW t \in Workers, NEW id \in Ids, DropGuard(t, id) PROVE SpansInv'
<1>1. /\ id \in guards[t] /\ guards' = [guards EXCEPT ![t] = @ \ {id}]
      /\ stack' = [stack EXCEPT ![t] = Removed(t, id)]
      /\ UNCHANGED <<tracing, spans, pendingSpans, polls, owned>>
  BY DEF DropGuard
<1>2. Ids' = Ids
  BY <1>1 DEF Ids
<1>3. /\ guards' \in [Workers -> SUBSET Ids] /\ guards'[t] = guards[t] \ {id}
      /\ stack' \in [Workers -> Seq(Nat)]
      /\ Range(stack'[t]) = guards'[t] \cup {pendingSpans[f].id : f \in Range(polls[t])}
      /\ IsInjective(stack'[t])
      /\ \A u \in Workers : u # t => stack'[u] = stack[u] /\ guards'[u] = guards[u]
  BY <1>1, GuardGone
<1>4. SpansTypeOK'
  BY <1>1, <1>2, <1>3 DEF SpansInv, SpansTypeOK
<1>5. OneOwner'
  BY <1>1, <1>2, <1>3 DEF SpansInv, OneOwner
<1>6. OnePoll'
  BY <1>1 DEF SpansInv, OnePoll, Polled
<1>7. StacksBalance'
  BY <1>1, <1>3 DEF SpansInv, StacksBalance
<1> QED BY <1>4, <1>5, <1>6, <1>7 DEF SpansInv

(* A span goes over from its guard to a future.                             *)
LEMMA DetachInv ==
  ASSUME SpansInv, NEW t \in Workers, NEW id \in Ids, NEW f \in Futures, Detach(t, id, f)
  PROVE  SpansInv'
<1>1. /\ id \in guards[t] /\ guards' = [guards EXCEPT ![t] = @ \ {id}] /\ pendingSpans[f] = NoSpan
      /\ stack' = [stack EXCEPT ![t] = Removed(t, id)]
      /\ pendingSpans' = [pendingSpans EXCEPT ![f] = PendingSpan(id, OnStack(t, id))]
      /\ UNCHANGED <<tracing, spans, polls, owned>>
  BY DEF Detach
<1>2. Ids' = Ids
  BY <1>1 DEF Ids
<1>3. /\ guards' \in [Workers -> SUBSET Ids] /\ guards'[t] = guards[t] \ {id}
      /\ stack' \in [Workers -> Seq(Nat)]
      /\ Range(stack'[t]) = guards'[t] \cup {pendingSpans[g].id : g \in Range(polls[t])}
      /\ IsInjective(stack'[t])
      /\ \A u \in Workers : u # t => stack'[u] = stack[u] /\ guards'[u] = guards[u]
      /\ OnStack(t, id)
  BY <1>1, GuardGone
<1>4. pendingSpans \in [Futures -> {NoSpan} \cup [id : Ids, parked : BOOLEAN]]
      /\ guards \in [Workers -> SUBSET Ids]
  BY DEF SpansInv, SpansTypeOK
<1>5. /\ pendingSpans'[f] = [id |-> id, parked |-> TRUE]
      /\ \A g \in Futures : g # f => pendingSpans'[g] = pendingSpans[g]
  BY <1>1, <1>3, <1>4 DEF PendingSpan
<1>6. pendingSpans' \in [Futures -> {NoSpan} \cup [id : Ids, parked : BOOLEAN]]
  BY <1>1, <1>3, <1>4 DEF PendingSpan
<1>7. SpansTypeOK'
  BY <1>1, <1>2, <1>3, <1>6 DEF SpansInv, SpansTypeOK
<1>8. \A g \in Futures : pendingSpans[g] # NoSpan => pendingSpans[g].id # id
  BY <1>1 DEF SpansInv, OneOwner
<1>9. \A u \in Workers : id \notin guards'[u]
  BY <1>1, <1>3 DEF SpansInv, OneOwner
<1>10. OneOwner'
  <2>1. \A u, v \in Workers, i \in Ids : i \in guards'[u] /\ i \in guards'[v] => u = v
    BY <1>3 DEF SpansInv, OneOwner
  <2>2. ASSUME NEW g \in Futures, NEW h \in Futures, pendingSpans'[g] # NoSpan,
               pendingSpans'[h] # NoSpan, pendingSpans'[g].id = pendingSpans'[h].id
        PROVE  g = h
    BY <1>5, <1>8, <2>2 DEF SpansInv, OneOwner
  <2>3. ASSUME NEW g \in Futures, NEW u \in Workers, pendingSpans'[g] # NoSpan
        PROVE  pendingSpans'[g].id \notin guards'[u]
    BY <1>3, <1>5, <1>9, <2>3 DEF SpansInv, OneOwner
  <2> QED BY <1>2, <2>1, <2>2, <2>3 DEF OneOwner
<1>11. \A u \in Workers : f \notin Range(polls[u])
  BY <1>1 DEF SpansInv, OnePoll
<1>12. \A u \in Workers : Range(polls[u]) \subseteq Futures
  BY OnlySpans
<1>13. OnePoll'
  <2>1. \A g \in Futures : Polled(g)' <=> Polled(g)
    BY <1>1 DEF Polled
  <2>2. pendingSpans'[f] # NoSpan
    <3>1. id \in Nat
      BY LenProperties DEF Ids, SpansInv, SpansTypeOK
    <3>2. [id |-> id, parked |-> TRUE] \in [id : Nat, parked : BOOLEAN]
      BY <3>1
    <3> QED BY <1>5, <3>2, SpansAssumption
  <2>3. ~Polled(f)
    BY <1>11 DEF Polled
  <2>4. \A g \in Futures : pendingSpans'[g] # NoSpan => (pendingSpans'[g].parked <=> ~Polled(g)')
    BY <1>5, <2>1, <2>3 DEF SpansInv, OnePoll
  <2>5. \A u \in Workers, g \in Futures : g \in Range(polls[u]) => pendingSpans'[g] # NoSpan
    BY <1>5, <1>11 DEF SpansInv, OnePoll
  <2> QED BY <1>1, <2>4, <2>5 DEF SpansInv, OnePoll
<1>14. StacksBalance'
  <2>1. \A u \in Workers : {pendingSpans'[g].id : g \in Range(polls[u])} = {pendingSpans[g].id : g \in Range(polls[u])}
    BY <1>5, <1>11, <1>12
  <2> QED BY <1>1, <1>3, <2>1 DEF SpansInv, StacksBalance
<1> QED BY <1>7, <1>10, <1>13, <1>14 DEF SpansInv

(* A poll over takes its future's span off the stack. *)
LEMMA PollGone ==
  ASSUME SpansInv, NEW t \in Workers, NEW f \in Futures, polls[t] # << >>, f = Top(polls[t]),
         polls' = [polls EXCEPT ![t] = Popped(@)],
         stack' = [stack EXCEPT ![t] = Removed(t, pendingSpans[f].id)]
  PROVE  /\ polls' \in [Workers -> Seq(Futures)] /\ IsInjective(polls'[t])
         /\ Range(polls'[t]) = Range(polls[t]) \ {f} /\ f \in Range(polls[t])
         /\ stack' \in [Workers -> Seq(Nat)] /\ IsInjective(stack'[t])
         /\ Range(stack'[t]) = guards[t] \cup {pendingSpans[g].id : g \in Range(polls'[t])}
         /\ \A u \in Workers : u # t => stack'[u] = stack[u] /\ polls'[u] = polls[u]
         /\ \A u \in Workers : f \notin Range(polls'[u])
         /\ pendingSpans[f] # NoSpan /\ OnStack(t, pendingSpans[f].id)
<1> DEFINE id == pendingSpans[f].id
<1>1. /\ Range(stack[t]) = guards[t] \cup {pendingSpans[g].id : g \in Range(polls[t])}
      /\ IsInjective(stack[t]) /\ stack[t] \in Seq(Nat) /\ Range(polls[t]) \subseteq Futures
      /\ IsInjective(polls[t]) /\ polls[t] \in Seq(Futures)
  BY OnlySpans
<1>2. stack \in [Workers -> Seq(Nat)] /\ polls \in [Workers -> Seq(Futures)]
  BY DEF SpansInv, SpansTypeOK
<1>3. polls'[t] = Popped(polls[t]) /\ stack'[t] = remove(stack[t], id)
      /\ \A u \in Workers : u # t => stack'[u] = stack[u] /\ polls'[u] = polls[u]
  BY <1>2 DEF Removed
<1>4. polls'[t] \in Seq(Futures) /\ IsInjective(polls'[t]) /\ Range(polls'[t]) = Range(polls[t]) \ {f}
      /\ f \in Range(polls[t])
  BY <1>1, <1>3, PopLeaves
<1>5. stack'[t] \in Seq(Nat) /\ IsInjective(stack'[t]) /\ Range(stack'[t]) = Range(stack[t]) \ {id}
  BY <1>1, <1>3, RemoveLeaves
<1>6. pendingSpans[f] # NoSpan
  BY <1>4 DEF SpansInv, OnePoll
<1>7. id \notin guards[t]
  BY <1>6 DEF SpansInv, OneOwner
<1>8. \A g \in Range(polls[t]) : pendingSpans[g].id = id => g = f
  BY <1>1, <1>6 DEF SpansInv, OneOwner, OnePoll
<1>9. Range(stack'[t]) = guards[t] \cup {pendingSpans[g].id : g \in Range(polls'[t])}
  BY <1>1, <1>4, <1>5, <1>7, <1>8
<1>10. id \in Range(stack[t])
  BY <1>1, <1>4
<1>11. \A u \in Workers : f \notin Range(polls'[u])
  BY <1>3, <1>4 DEF SpansInv, OnePoll
<1>12. polls' \in [Workers -> Seq(Futures)]
  BY <1>2, <1>3, <1>4
<1>13. stack' \in [Workers -> Seq(Nat)]
  BY <1>2, <1>3, <1>5
<1> QED BY <1>3, <1>4, <1>5, <1>6, <1>9, <1>10, <1>11, <1>12, <1>13 DEF OnStack

(* A poll puts the span of its future on the stack, unless it is there.     *)
LEMMA PollBeginsInv ==
  ASSUME SpansInv, NEW t \in Workers, NEW f \in Futures, PollBegins(t, f)
  PROVE  SpansInv'
<1> DEFINE id == pendingSpans[f].id
<1>1. /\ pendingSpans[f] # NoSpan /\ ~Polled(f)
      /\ polls' = [polls EXCEPT ![t] = Append(@, f)]
      /\ stack' = IF pendingSpans[f].parked THEN [stack EXCEPT ![t] = Append(@, id)] ELSE stack
      /\ pendingSpans' = [pendingSpans EXCEPT ![f].parked = FALSE]
      /\ UNCHANGED <<tracing, spans, guards, owned>>
  BY DEF PollBegins
<1>2. Ids' = Ids
  BY <1>1 DEF Ids
<1>3. stack \in [Workers -> Seq(Nat)] /\ polls \in [Workers -> Seq(Futures)]
      /\ pendingSpans \in [Futures -> {NoSpan} \cup [id : Ids, parked : BOOLEAN]]
  BY DEF SpansInv, SpansTypeOK
<1>4. pendingSpans[f].parked
  BY <1>1 DEF SpansInv, OnePoll
<1>5. pendingSpans[f] \in [id : Ids, parked : BOOLEAN] /\ id \in Ids /\ id \in Nat
  BY <1>1, <1>3, LenProperties DEF Ids, SpansInv, SpansTypeOK
<1>6. /\ pendingSpans'[f] = [id |-> id, parked |-> FALSE]
      /\ \A g \in Futures : g # f => pendingSpans'[g] = pendingSpans[g]
  BY <1>1, <1>3, <1>5
<1>7. pendingSpans' \in [Futures -> {NoSpan} \cup [id : Ids, parked : BOOLEAN]]
  BY <1>3, <1>1, <1>5
<1>8. pendingSpans'[f] # NoSpan /\ pendingSpans'[f].id = id /\ pendingSpans'[f].parked = FALSE
  <2> HIDE DEF id
  <2>1. [id |-> id, parked |-> FALSE] \in [id : Nat, parked : BOOLEAN]
    BY <1>5
  <2>2. pendingSpans'[f] # NoSpan
    BY <2>1, <1>6, SpansAssumption
  <2> QED BY <2>2, <1>6
<1> HIDE DEF id
<1>9. stack'[t] = Append(stack[t], id) /\ polls'[t] = Append(polls[t], f)
      /\ \A u \in Workers : u # t => stack'[u] = stack[u] /\ polls'[u] = polls[u]
  BY <1>1, <1>3, <1>4
<1>10. /\ Range(stack[t]) = guards[t] \cup {pendingSpans[g].id : g \in Range(polls[t])}
       /\ IsInjective(stack[t]) /\ stack[t] \in Seq(Nat) /\ Range(polls[t]) \subseteq Futures
       /\ IsInjective(polls[t]) /\ polls[t] \in Seq(Futures)
  BY OnlySpans
<1>11. \A u \in Workers : f \notin Range(polls[u])
  BY <1>1 DEF Polled
<1>12. \A g \in Futures : pendingSpans[g] # NoSpan /\ pendingSpans[g].id = id => g = f
  BY <1>1 DEF SpansInv, OneOwner, id
<1>13. id \notin Range(stack[t])
  <2>1. id \notin guards[t]
    BY <1>1 DEF SpansInv, OneOwner, id
  <2>2. \A g \in Range(polls[t]) : pendingSpans[g] # NoSpan
    BY <1>10 DEF SpansInv, OnePoll
  <2>3. \A g \in Range(polls[t]) : pendingSpans[g].id # id
    BY <2>2, <1>10, <1>11, <1>12
  <2> QED BY <1>10, <2>1, <2>3
<1>14. stack'[t] \in Seq(Nat) /\ Range(stack'[t]) = Range(stack[t]) \cup {id} /\ IsInjective(stack'[t])
  <2> DEFINE old == stack[t]  new == stack'[t]
  <2>1. old \in Seq(Nat) /\ IsInjective(old) /\ new = Append(old, id) /\ id \in Nat /\ id \notin Range(old)
    BY <1>5, <1>9, <1>10, <1>13
  <2> HIDE DEF old, new
  <2>2. new \in Seq(Nat) /\ Range(new) = Range(old) \cup {id} /\ IsInjective(new)
    BY <2>1, AppendLeaves
  <2> QED BY <2>2 DEF old, new
<1>15. polls'[t] \in Seq(Futures) /\ Range(polls'[t]) = Range(polls[t]) \cup {f} /\ IsInjective(polls'[t])
  <2> DEFINE old == polls[t]  new == polls'[t]
  <2>1. old \in Seq(Futures) /\ IsInjective(old) /\ new = Append(old, f) /\ f \notin Range(old)
    BY <1>9, <1>10, <1>11
  <2> HIDE DEF old, new
  <2>2. new \in Seq(Futures) /\ Range(new) = Range(old) \cup {f} /\ IsInjective(new)
    BY <2>1, AppendLeaves
  <2> QED BY <2>2 DEF old, new
<1>16. SpansTypeOK'
  <2>1. stack' \in [Workers -> Seq(Nat)]
    BY <1>1, <1>3, <1>4, <1>9, <1>14
  <2>2. polls' \in [Workers -> Seq(Futures)]
    BY <1>1, <1>3, <1>9, <1>15
  <2> QED BY <1>1, <1>2, <1>7, <2>1, <2>2 DEF SpansInv, SpansTypeOK
<1>17. \A g \in Futures : (pendingSpans'[g] # NoSpan <=> pendingSpans[g] # NoSpan)
          /\ (pendingSpans[g] # NoSpan => pendingSpans'[g].id = pendingSpans[g].id)
  BY <1>1, <1>6, <1>8 DEF id
<1>18. OneOwner'
  BY <1>1, <1>2, <1>17 DEF SpansInv, OneOwner
<1>19. OnePoll'
  <2>1. \A u \in Workers : IsInjective(polls'[u])
    BY <1>9, <1>15 DEF SpansInv, OnePoll
  <2>2. \A u \in Workers, g \in Futures : g \in Range(polls'[u]) <=> (g = f /\ u = t) \/ g \in Range(polls[u])
    BY <1>9, <1>15
  <2>3. \A u, v \in Workers, g \in Futures : g \in Range(polls'[u]) /\ g \in Range(polls'[v]) => u = v
    BY <1>11, <2>2 DEF SpansInv, OnePoll
  <2>4. \A u \in Workers, g \in Futures : g \in Range(polls'[u]) => pendingSpans'[g] # NoSpan
    BY <1>1, <1>17, <2>2 DEF SpansInv, OnePoll
  <2>5. \A g \in Futures : g # f => (Polled(g)' <=> Polled(g))
    BY <2>2 DEF Polled
  <2>6. Polled(f)'
    BY <2>2 DEF Polled
  <2>7. \A g \in Futures : pendingSpans'[g] # NoSpan => (pendingSpans'[g].parked <=> ~Polled(g)')
    BY <1>6, <1>8, <2>5, <2>6 DEF SpansInv, OnePoll
  <2> QED BY <2>1, <2>3, <2>4, <2>7 DEF OnePoll
<1>20. StacksBalance'
  <2>1. ASSUME NEW u \in Workers
        PROVE  /\ IsInjective(stack'[u])
               /\ Range(stack'[u]) = guards[u] \cup {pendingSpans'[g].id : g \in Range(polls'[u])}
    <3>1. \A g \in Range(polls[u]) : g \in Futures /\ pendingSpans[g] # NoSpan
      BY OnlySpans DEF SpansInv, OnePoll
    <3>2. {pendingSpans'[g].id : g \in Range(polls[u])} = {pendingSpans[g].id : g \in Range(polls[u])}
      BY <3>1, <1>17
    <3>3. CASE u = t
      <4>1. {pendingSpans'[g].id : g \in Range(polls'[t])} = {pendingSpans'[g].id : g \in Range(polls[t])} \cup {id}
        BY <1>15, <1>8
      <4> QED BY <3>2, <3>3, <4>1, <1>10, <1>14
    <3>4. CASE u # t
      BY <3>2, <3>4, <1>9, OnlySpans
    <3> QED BY <3>3, <3>4
  <2> QED BY <1>1, <2>1 DEF StacksBalance
<1> QED BY <1>16, <1>18, <1>19, <1>20 DEF SpansInv

(* A poll that ends takes it off again.                                     *)
LEMMA PollReturnsInv ==
  ASSUME SpansInv, NEW t \in Workers, NEW f \in Futures, PollReturns(t, f)
  PROVE  SpansInv'
<1> DEFINE id == pendingSpans[f].id
<1>1. /\ polls[t] # << >> /\ f = Top(polls[t])
      /\ polls' = [polls EXCEPT ![t] = Popped(@)]
      /\ stack' = [stack EXCEPT ![t] = Removed(t, pendingSpans[f].id)]
      /\ pendingSpans' = [pendingSpans EXCEPT ![f] = Exited(t, f)]
      /\ UNCHANGED <<tracing, spans, guards, owned>>
  BY DEF PollReturns
<1>2. Ids' = Ids
  BY <1>1 DEF Ids
<1>3. /\ polls' \in [Workers -> Seq(Futures)] /\ IsInjective(polls'[t])
      /\ Range(polls'[t]) = Range(polls[t]) \ {f} /\ f \in Range(polls[t])
      /\ stack' \in [Workers -> Seq(Nat)] /\ IsInjective(stack'[t])
      /\ Range(stack'[t]) = guards[t] \cup {pendingSpans[g].id : g \in Range(polls'[t])}
      /\ \A u \in Workers : u # t => stack'[u] = stack[u] /\ polls'[u] = polls[u]
      /\ \A u \in Workers : f \notin Range(polls'[u])
      /\ pendingSpans[f] # NoSpan /\ OnStack(t, pendingSpans[f].id)
  BY <1>1, PollGone
<1>4. pendingSpans \in [Futures -> {NoSpan} \cup [id : Ids, parked : BOOLEAN]]
  BY DEF SpansInv, SpansTypeOK
<1>5. id \in Ids /\ id \in Nat
  BY <1>3, <1>4, LenProperties DEF Ids, SpansInv, SpansTypeOK
<1>6. /\ pendingSpans'[f] = [id |-> id, parked |-> TRUE]
      /\ \A g \in Futures : g # f => pendingSpans'[g] = pendingSpans[g]
  BY <1>1, <1>3, <1>4 DEF PendingSpan, Exited
<1>7. pendingSpans' \in [Futures -> {NoSpan} \cup [id : Ids, parked : BOOLEAN]]
  <2> HIDE DEF id
  <2>1. [id |-> id, parked |-> TRUE] \in [id : Ids, parked : BOOLEAN]
    BY <1>5
  <2>2. pendingSpans' = [pendingSpans EXCEPT ![f] = Exited(t, f)]
    BY <1>1
  <2>3. \A g \in Futures : pendingSpans'[g] \in {NoSpan} \cup [id : Ids, parked : BOOLEAN]
    BY <2>1, <1>4, <1>6
  <2> QED BY <2>2, <2>3, <1>4
<1>8. pendingSpans'[f] # NoSpan /\ pendingSpans'[f].id = id /\ pendingSpans'[f].parked = TRUE
  <2> HIDE DEF id
  <2>1. [id |-> id, parked |-> TRUE] \in [id : Nat, parked : BOOLEAN]
    BY <1>5
  <2>2. pendingSpans'[f] # NoSpan
    BY <2>1, <1>6, SpansAssumption
  <2> QED BY <2>2, <1>6
<1>9. SpansTypeOK'
  BY <1>1, <1>2, <1>3, <1>7 DEF SpansInv, SpansTypeOK
<1>10. \A g \in Futures : (pendingSpans'[g] # NoSpan <=> pendingSpans[g] # NoSpan)
          /\ (pendingSpans[g] # NoSpan => pendingSpans'[g].id = pendingSpans[g].id)
  BY <1>3, <1>6, <1>8
<1>11. OneOwner'
  BY <1>1, <1>2, <1>10 DEF SpansInv, OneOwner
<1>12. OnePoll'
  <2>1. \A u \in Workers : IsInjective(polls'[u])
    BY <1>3 DEF SpansInv, OnePoll
  <2>2. \A u \in Workers, g \in Futures : g \in Range(polls'[u]) <=> g # f /\ g \in Range(polls[u])
    BY <1>3
  <2>3. \A u, v \in Workers, g \in Futures : g \in Range(polls'[u]) /\ g \in Range(polls'[v]) => u = v
    BY <2>2 DEF SpansInv, OnePoll
  <2>4. \A u \in Workers, g \in Futures : g \in Range(polls'[u]) => pendingSpans'[g] # NoSpan
    BY <1>10, <2>2 DEF SpansInv, OnePoll
  <2>5. \A g \in Futures : g # f => (Polled(g)' <=> Polled(g))
    BY <2>2 DEF Polled
  <2>6. ~Polled(f)'
    BY <2>2 DEF Polled
  <2>7. \A g \in Futures : pendingSpans'[g] # NoSpan => (pendingSpans'[g].parked <=> ~Polled(g)')
    BY <1>6, <1>8, <2>5, <2>6 DEF SpansInv, OnePoll
  <2> QED BY <2>1, <2>3, <2>4, <2>7 DEF OnePoll
<1>13. StacksBalance'
  <2>1. ASSUME NEW u \in Workers
        PROVE  /\ IsInjective(stack'[u])
               /\ Range(stack'[u]) = guards[u] \cup {pendingSpans'[g].id : g \in Range(polls'[u])}
    <3>1. \A g \in Range(polls[u]) : g \in Futures /\ pendingSpans[g] # NoSpan
      BY OnlySpans DEF SpansInv, OnePoll
    <3>2. \A g \in Range(polls'[u]) : g \in Range(polls[u])
      BY <1>3
    <3>3. {pendingSpans'[g].id : g \in Range(polls'[u])} = {pendingSpans[g].id : g \in Range(polls'[u])}
      BY <3>1, <3>2, <1>10
    <3>4. CASE u = t
      BY <3>3, <3>4, <1>3
    <3>5. CASE u # t
      BY <3>3, <3>5, <1>3, OnlySpans
    <3> QED BY <3>4, <3>5
  <2> QED BY <1>1, <2>1 DEF StacksBalance
<1> QED BY <1>9, <1>11, <1>12, <1>13 DEF SpansInv

(* A future finished has no span any more, and nothing else has changed. *)
LEMMA FutureGone ==
  ASSUME SpansInv, NEW f \in Futures,
         pendingSpans' = [pendingSpans EXCEPT ![f] = NoSpan],
         UNCHANGED <<tracing, spans, guards, owned>>,
         polls' \in [Workers -> Seq(Futures)], stack' \in [Workers -> Seq(Nat)],
         \A u \in Workers : IsInjective(polls'[u]) /\ Range(polls'[u]) = Range(polls[u]) \ {f},
         \A u \in Workers : IsInjective(stack'[u])
            /\ Range(stack'[u]) = guards[u] \cup {pendingSpans[g].id : g \in Range(polls'[u])}
  PROVE  SpansInv'
<1>1. Ids' = Ids
  BY DEF Ids
<1>2. pendingSpans \in [Futures -> {NoSpan} \cup [id : Ids, parked : BOOLEAN]]
  BY DEF SpansInv, SpansTypeOK
<1>3. pendingSpans'[f] = NoSpan /\ \A g \in Futures : g # f => pendingSpans'[g] = pendingSpans[g]
  BY <1>2
<1>4. pendingSpans' \in [Futures -> {NoSpan} \cup [id : Ids, parked : BOOLEAN]]
  BY <1>2
<1>5. SpansTypeOK'
  BY <1>1, <1>4 DEF SpansInv, SpansTypeOK
<1>6. OneOwner'
  BY <1>1, <1>3 DEF SpansInv, OneOwner
<1>7. OnePoll'
  <2>1. \A u, v \in Workers, g \in Futures : g \in Range(polls'[u]) /\ g \in Range(polls'[v]) => u = v
    BY DEF SpansInv, OnePoll
  <2>2. \A u \in Workers, g \in Futures : g \in Range(polls'[u]) => pendingSpans'[g] # NoSpan
    BY <1>3 DEF SpansInv, OnePoll
  <2>3. \A g \in Futures : g # f => (Polled(g)' <=> Polled(g))
    BY DEF Polled
  <2>4. \A g \in Futures : pendingSpans'[g] # NoSpan => (pendingSpans'[g].parked <=> ~Polled(g)')
    BY <1>3, <2>3 DEF SpansInv, OnePoll
  <2> QED BY <2>1, <2>2, <2>4 DEF OnePoll
<1>8. StacksBalance'
  <2>1. \A u \in Workers : Range(polls[u]) \subseteq Futures
    BY OnlySpans
  <2>2. \A u \in Workers : {pendingSpans'[g].id : g \in Range(polls'[u])}
                             = {pendingSpans[g].id : g \in Range(polls'[u])}
    BY <1>3, <2>1
  <2> QED BY <2>2 DEF StacksBalance
<1> QED BY <1>5, <1>6, <1>7, <1>8 DEF SpansInv

(* Removing what is not there removes nothing. *)
LEMMA NotThere ==
  ASSUME NEW here, NEW id, id \notin Range(here)
  PROVE  remove(here, id) = here
  BY DEF remove, Range

(* A future resolves: its span is finished.                                 *)
LEMMA PollReadyInv ==
  ASSUME SpansInv, NEW t \in Workers, NEW f \in Futures, PollReady(t, f)
  PROVE  SpansInv'
<1> DEFINE id == pendingSpans[f].id
<1>1. /\ polls[t] # << >> /\ f = Top(polls[t])
      /\ polls' = [polls EXCEPT ![t] = Popped(@)]
      /\ UNCHANGED <<tracing, spans, guards, owned>>
      /\ SpanFinished(t, f, Removed(t, id))
  BY DEF PollReady
<1>2. /\ stack' = [stack EXCEPT ![t] = remove(Removed(t, id), id)]
      /\ pendingSpans' = [pendingSpans EXCEPT ![f] = NoSpan]
  BY <1>1 DEF SpanFinished
<1>3. remove(Removed(t, id), id) = Removed(t, id)
  <2>1. stack[t] \in Seq(Nat) /\ IsInjective(stack[t])
    BY OnlySpans
  <2>2. Range(Removed(t, id)) = Range(stack[t]) \ {id}
    BY <2>1, RemoveLeaves DEF Removed
  <2> QED BY <2>2, NotThere
<1>4. stack' = [stack EXCEPT ![t] = Removed(t, id)]
  BY <1>2, <1>3
<1>5. /\ polls' \in [Workers -> Seq(Futures)] /\ IsInjective(polls'[t])
      /\ Range(polls'[t]) = Range(polls[t]) \ {f} /\ f \in Range(polls[t])
      /\ stack' \in [Workers -> Seq(Nat)] /\ IsInjective(stack'[t])
      /\ Range(stack'[t]) = guards[t] \cup {pendingSpans[g].id : g \in Range(polls'[t])}
      /\ \A u \in Workers : u # t => stack'[u] = stack[u] /\ polls'[u] = polls[u]
      /\ \A u \in Workers : f \notin Range(polls'[u])
  BY <1>1, <1>4, PollGone
<1>6. \A u \in Workers : IsInjective(polls'[u]) /\ Range(polls'[u]) = Range(polls[u]) \ {f}
  BY <1>5, OnlySpans
<1>7. \A u \in Workers : IsInjective(stack'[u])
            /\ Range(stack'[u]) = guards[u] \cup {pendingSpans[g].id : g \in Range(polls'[u])}
  BY <1>5, OnlySpans
<1> QED BY <1>1, <1>2, <1>5, <1>6, <1>7, FutureGone

(* A future is dropped between polls: its span is finished.                 *)
LEMMA DropFutureInv ==
  ASSUME SpansInv, NEW t \in Workers, NEW f \in Futures, DropFuture(t, f)
  PROVE  SpansInv'
<1> DEFINE id == pendingSpans[f].id
<1>1. /\ pendingSpans[f] # NoSpan /\ ~Polled(f)
      /\ UNCHANGED <<tracing, spans, guards, owned>> /\ polls' = polls
      /\ stack' = [stack EXCEPT ![t] = remove(stack[t], id)]
      /\ pendingSpans' = [pendingSpans EXCEPT ![f] = NoSpan]
  BY DEF DropFuture, SpanFinished
<1>2. \A u \in Workers : f \notin Range(polls[u])
  BY <1>1 DEF Polled
<1>3. Range(stack[t]) = guards[t] \cup {pendingSpans[g].id : g \in Range(polls[t])}
      /\ Range(polls[t]) \subseteq Futures
  BY OnlySpans
<1>4. id \notin Range(stack[t])
  <2>1. id \notin guards[t]
    BY <1>1 DEF SpansInv, OneOwner
  <2>2. \A g \in Range(polls[t]) : pendingSpans[g] # NoSpan
    BY <1>3 DEF SpansInv, OnePoll
  <2>3. \A g \in Range(polls[t]) : pendingSpans[g].id # id
    BY <1>1, <1>2, <1>3, <2>2 DEF SpansInv, OneOwner
  <2> QED BY <1>3, <2>1, <2>3
<1>5. remove(stack[t], id) = stack[t]
  BY <1>4, NotThere
<1>6. polls \in [Workers -> Seq(Futures)] /\ stack \in [Workers -> Seq(Nat)]
  BY DEF SpansInv, SpansTypeOK
<1>7. stack' = stack
  BY <1>1, <1>5, <1>6
<1>8. \A u \in Workers : IsInjective(polls'[u]) /\ Range(polls'[u]) = Range(polls[u]) \ {f}
  BY <1>1, <1>2, OnlySpans
<1>9. \A u \in Workers : IsInjective(stack'[u])
            /\ Range(stack'[u]) = guards[u] \cup {pendingSpans[g].id : g \in Range(polls'[u])}
  BY <1>1, <1>7, OnlySpans
<1> QED BY <1>1, <1>6, <1>7, <1>8, <1>9, FutureGone

(* Every step of the spans keeps the invariant.                             *)
LEMMA SpansStep == SpansInv /\ [SpansNext]_spanVars => SpansInv'
<1> SUFFICES ASSUME SpansInv, [SpansNext]_spanVars PROVE SpansInv'
  OBVIOUS
<1>1. CASE CloseGate
  BY <1>1, CloseGateInv
<1>2. ASSUME NEW t \in Workers, Enter(t) \/ StartOwned(t) PROVE SpansInv'
  BY <1>2, EnterInv, StartOwnedInv
<1>3. ASSUME NEW t \in Workers, NEW id \in Ids, DropGuard(t, id) PROVE SpansInv'
  BY <1>3, DropGuardInv
<1>4. ASSUME NEW t \in Workers, NEW f \in Futures,
             \/ PollBegins(t, f) \/ PollReturns(t, f) \/ PollReady(t, f) \/ DropFuture(t, f)
      PROVE  SpansInv'
  BY <1>4, PollBeginsInv, PollReturnsInv, PollReadyInv, DropFutureInv
<1>5. ASSUME NEW t \in Workers, NEW f \in Futures, NEW id \in Ids, Detach(t, id, f) PROVE SpansInv'
  BY <1>5, DetachInv
<1>6. ASSUME NEW id \in Ids, EndOwned(id) PROVE SpansInv'
  BY <1>6, EndOwnedInv
<1>7. CASE UNCHANGED spanVars
  <2>1. Ids' = Ids /\ UNCHANGED <<stack, guards, pendingSpans, polls, spans, tracing, owned>>
    BY <1>7 DEF spanVars, Ids
  <2>2. spans \in Seq(Parents) /\ owned \subseteq Ids /\ tracing \in BOOLEAN
    BY DEF SpansInv, SpansTypeOK
  <2> QED BY <2>1, <2>2, StacksAsTheyWere
<1> QED BY <1>1, <1>2, <1>3, <1>4, <1>5, <1>6, <1>7 DEF SpansNext

(* The stacks' types hold in every reachable state (context.rs, span.rs). *)
THEOREM SpansTypeCorrect == SpansSpec => []SpansTypeOK
<1>1. SpansInv => SpansTypeOK
  BY DEF SpansInv
<1> QED BY <1>1, SpansInitInv, SpansStep, PTL DEF SpansSpec

(* A thread's stack holds the spans of its guards and of the futures it is  *)
(* polling, each once, and nothing else: context::remove, PendingSpan::exit *)
(* and finish, for any number of threads, futures and spans.                *)
THEOREM StacksBalanceHolds == SpansSpec => []StacksBalance
<1>1. SpansInv => StacksBalance
  BY DEF SpansInv
<1> QED BY <1>1, SpansInitInv, SpansStep, PTL DEF SpansSpec

(* A span has one owner, and a future is polled by one thread at a time,    *)
(* its span off every stack between its polls (instrumented.rs).            *)
THEOREM SpansOwnedOnce == SpansSpec => [](OneOwner /\ OnePoll)
<1>1. SpansInv => OneOwner /\ OnePoll
  BY DEF SpansInv
<1> QED BY <1>1, SpansInitInv, SpansStep, PTL DEF SpansSpec

-----------------------------------------------------------------------------
(* O11yBridge: the tracing tree and the spans exported for it.              *)

Fieldings == UNION {[keys -> Nat] : keys \in SUBSET Fields}
TracingSpans ==
    [by : Tasks, parent : Nat, live : BOOLEAN, extension : {"none", "Exported", "Folded"},
     under : Nat \cup Remotes \cup {NoContext}, fields : Fieldings, failed : BOOLEAN]

(* A span was opened after its parent. *)
Shaped(tree) ==
    /\ tree \in Seq(TracingSpans)
    /\ \A s \in DOMAIN tree : tree[s].parent \in 0 .. s - 1

(* The scopes of a tree, and what makes a sequence innermost first. *)
ScopeOf(tree) ==
    CHOOSE g : g = [s \in 0 .. Len(tree) |-> IF s = 0 THEN << >> ELSE <<s>> \o g[tree[s].parent]]
Descending(path) == \A i, j \in DOMAIN path : i < j => path[j] < path[i]

(* The recursion of scope has a solution: a span and what is above it.      *)
LEMMA ScopeUnfolds ==
  ASSUME NEW tree, Shaped(tree), NEW f, f = ScopeOf(tree)
  PROVE  /\ f \in [0 .. Len(tree) -> Seq(Nat)] /\ f[0] = << >>
         /\ \A s \in 1 .. Len(tree) : f[s] = <<s>> \o f[tree[s].parent]
<1> DEFINE n == Len(tree)
           back == [s \in 1 .. n |-> tree[s].parent]
           step == [s \in 1 .. n |-> [q \in Seq(Nat) |-> <<s>> \o q]]
<1>1. n \in Nat /\ DOMAIN tree = 1 .. n /\ \A s \in 1 .. n : tree[s].parent \in 0 .. s - 1
  BY LenProperties DEF Shaped
<1> HIDE DEF n
<1>2. << >> \in Seq(Nat)
  BY EmptySeq
<1>3. back \in [1 .. n -> Nat] /\ \A s \in 1 .. n : back[s] < s
  BY <1>1
<1>4. step \in [1 .. n -> [Seq(Nat) -> Seq(Nat)]]
  <2> SUFFICES ASSUME NEW s \in 1 .. n, NEW q \in Seq(Nat) PROVE <<s>> \o q \in Seq(Nat)
    OBVIOUS
  <2>1. <<s>> \in Seq(Nat)
    BY <1>1
  <2> QED BY <2>1, ConcatProperties
<1>5. PICK g \in [0 .. n -> Seq(Nat)] :
         g[0] = << >> /\ \A s \in 1 .. n : g[s] = step[s][g[back[s]]]
  <2> HIDE DEF back, step
  <2>1. Recursion(Seq(Nat), << >>, n, back, step)
    BY <1>1, <1>2, <1>3, <1>4 DEF Recursion
  <2>2. \E g : Solves(g, Seq(Nat), << >>, n, back, step)
    BY <2>1, FiniteRecursion
  <2> QED BY <2>2 DEF Solves
<1>6. \A s \in 1 .. n : tree[s].parent \in 0 .. n /\ g[s] = <<s>> \o g[tree[s].parent]
  <2> SUFFICES ASSUME NEW s \in 1 .. n
               PROVE  tree[s].parent \in 0 .. n /\ g[s] = <<s>> \o g[tree[s].parent]
    OBVIOUS
  <2>1. tree[s].parent \in 0 .. n
    BY <1>1
  <2>2. g[tree[s].parent] \in Seq(Nat)
    BY <2>1
  <2> QED BY <1>5, <2>1, <2>2
<1>7. g = [s \in 0 .. n |-> IF s = 0 THEN << >> ELSE <<s>> \o g[tree[s].parent]]
  <2>1. \A s \in 0 .. n : s # 0 => s \in 1 .. n
    BY <1>1
  <2> QED BY <1>5, <1>6, <2>1
<1>8. f = [s \in 0 .. n |-> IF s = 0 THEN << >> ELSE <<s>> \o f[tree[s].parent]]
  <2>1. f = CHOOSE h : h = [s \in 0 .. n |-> IF s = 0 THEN << >> ELSE <<s>> \o h[tree[s].parent]]
    BY DEF ScopeOf, n
  <2> HIDE DEF ScopeOf
  <2> QED BY <1>7, <2>1
<1>9. f[0] = << >> /\ \A s \in 1 .. n : f[s] = <<s>> \o f[tree[s].parent]
  <2>1. 0 \in 0 .. n /\ \A s \in 1 .. n : s \in 0 .. n /\ s # 0
    BY <1>1
  <2> QED BY <1>8, <2>1
<1>10. DOMAIN f = 0 .. n
  BY <1>8
<1>11. \A s \in Nat : s <= n => f[s] \in Seq(Nat)
  <2> DEFINE T == {s \in Nat : s <= n => f[s] \in Seq(Nat)}
  <2>1. ASSUME NEW m \in Nat, \A k \in 0 .. m - 1 : k \in T PROVE m \in T
    <3>1. CASE m = 0
      BY <1>2, <1>9, <3>1
    <3>2. CASE m # 0 /\ m <= n
      <4>1. m \in 1 .. n /\ tree[m].parent \in 0 .. m - 1 /\ <<m>> \in Seq(Nat)
        BY <1>1, <3>2
      <4>2. f[tree[m].parent] \in Seq(Nat)
        BY <4>1, <2>1, <1>1
      <4>3. f[m] = <<m>> \o f[tree[m].parent]
        BY <1>9, <4>1
      <4>4. f[m] \in Seq(Nat)
        BY <4>1, <4>2, <4>3, ConcatProperties
      <4> QED BY <4>4
    <3> QED BY <3>1, <3>2
  <2> HIDE DEF T
  <2>2. \A m \in Nat : m \in T
    BY <2>1, StrongInduction
  <2> QED BY <2>2 DEF T
<1>12. f \in [0 .. n -> Seq(Nat)]
  BY <1>1, <1>8, <1>11
<1> QED BY <1>9, <1>12 DEF n

(* An element put before a sequence of smaller ones. *)
LEMMA ConsDescends ==
  ASSUME NEW s \in Nat, NEW q \in Seq(Nat), Descending(q), \A e \in Range(q) : e < s
  PROVE  /\ <<s>> \o q \in Seq(Nat) /\ Descending(<<s>> \o q)
         /\ Range(<<s>> \o q) = {s} \cup Range(q)
<1> DEFINE r == <<s>> \o q
<1>1. <<s>> \in Seq(Nat) /\ Len(<<s>>) = 1 /\ <<s>>[1] = s
  OBVIOUS
<1>2. /\ r \in Seq(Nat) /\ Len(r) = 1 + Len(q) /\ Len(q) \in Nat /\ DOMAIN q = 1 .. Len(q)
      /\ DOMAIN r = 1 .. 1 + Len(q)
  BY <1>1, ConcatProperties, LenProperties
<1>3. \A i \in 1 .. 1 + Len(q) : r[i] = IF i <= 1 THEN <<s>>[i] ELSE q[i - 1]
  BY <1>1, ConcatProperties
<1> HIDE DEF r
<1>4. r[1] = s
  BY <1>1, <1>2, <1>3
<1>5. \A i \in 2 .. 1 + Len(q) : r[i] = q[i - 1] /\ i - 1 \in DOMAIN q /\ q[i - 1] \in Range(q)
  <2> SUFFICES ASSUME NEW i \in 2 .. 1 + Len(q)
               PROVE  r[i] = q[i - 1] /\ i - 1 \in DOMAIN q /\ q[i - 1] \in Range(q)
    OBVIOUS
  <2>1. i \in 1 .. 1 + Len(q) /\ ~(i <= 1) /\ i - 1 \in DOMAIN q
    BY <1>2
  <2>2. r[i] = q[i - 1]
    BY <1>3, <2>1
  <2> QED BY <2>1, <2>2 DEF Range
<1>6. \A i \in DOMAIN q : i + 1 \in 2 .. 1 + Len(q) /\ r[i + 1] = q[i]
  BY <1>2, <1>3
<1>7. Range(r) = {s} \cup Range(q)
  <2>1. ASSUME NEW e \in Range(r) PROVE e \in {s} \cup Range(q)
    <3>1. PICK i \in 1 .. 1 + Len(q) : e = r[i]
      BY <1>2, <2>1 DEF Range
    <3>2. CASE i = 1
      BY <1>4, <3>1, <3>2
    <3>3. CASE i # 1
      BY <1>2, <1>5, <3>1, <3>3
    <3> QED BY <3>2, <3>3
  <2>2. ASSUME NEW e \in Range(q) PROVE e \in Range(r)
    <3>1. PICK i \in DOMAIN q : e = q[i]
      BY <2>2 DEF Range
    <3>2. i + 1 \in DOMAIN r /\ r[i + 1] = e
      BY <3>1, <1>2, <1>6
    <3> QED BY <3>2 DEF Range
  <2>3. s \in Range(r)
    <3>1. 1 \in DOMAIN r
      BY <1>2
    <3> QED BY <3>1, <1>4 DEF Range
  <2> QED BY <2>1, <2>2, <2>3
<1>8. Descending(r)
  <2> SUFFICES ASSUME NEW i \in DOMAIN r, NEW j \in DOMAIN r, i < j PROVE r[j] < r[i]
    BY DEF Descending
  <2>1. j \in 2 .. 1 + Len(q) /\ i \in 1 .. 1 + Len(q)
    BY <1>2
  <2>2. CASE i = 1
    BY <2>1, <2>2, <1>4, <1>5
  <2>3. CASE i # 1
    <3>1. i \in 2 .. 1 + Len(q) /\ i - 1 < j - 1
      BY <2>1, <2>3, <1>2
    <3> QED BY <2>1, <3>1, <1>5 DEF Descending
  <2> QED BY <2>2, <2>3
<1> QED BY <1>2, <1>7, <1>8 DEF r

(* A scope is spans of the tree, each after the next.                       *)
LEMMA ScopeShape ==
  ASSUME NEW tree, Shaped(tree), NEW f, f = ScopeOf(tree)
  PROVE  /\ Range(f[0]) = {}
         /\ \A s \in 0 .. Len(tree) : f[s] \in Seq(Nat) /\ Descending(f[s]) /\ Range(f[s]) \subseteq 1 .. s
         /\ \A s \in 1 .. Len(tree) : Range(f[s]) = {s} \cup Range(f[tree[s].parent])
<1> DEFINE n == Len(tree)
           Good(s) == f[s] \in Seq(Nat) /\ Descending(f[s]) /\ Range(f[s]) \subseteq 1 .. s
                      /\ (s # 0 => Range(f[s]) = {s} \cup Range(f[tree[s].parent]))
           T == {s \in Nat : s <= n => Good(s)}
<1>1. n \in Nat /\ DOMAIN tree = 1 .. n /\ \A s \in 1 .. n : tree[s].parent \in 0 .. s - 1
  BY LenProperties DEF Shaped
<1>2. /\ f \in [0 .. n -> Seq(Nat)] /\ f[0] = << >>
      /\ \A s \in 1 .. n : f[s] = <<s>> \o f[tree[s].parent]
  BY ScopeUnfolds
<1> HIDE DEF n
<1>3. Range(f[0]) = {} /\ Descending(f[0])
  <2>1. DOMAIN << >> = {}
    OBVIOUS
  <2> QED BY <1>2, <2>1 DEF Range, Descending
<1>4. ASSUME NEW m \in Nat, \A k \in 0 .. m - 1 : k \in T PROVE m \in T
  <2>1. CASE m = 0
    <3>1. f[0] \in Seq(Nat)
      BY <1>1, <1>2
    <3> QED BY <1>3, <2>1, <3>1
  <2>2. CASE m # 0 /\ m <= n
    <3> DEFINE p == tree[m].parent
    <3>1. m \in 1 .. n /\ p \in 0 .. m - 1 /\ p \in Nat /\ p <= n
      BY <1>1, <2>2
    <3>2. f[m] = <<m>> \o f[p]
      BY <1>2, <3>1
    <3> HIDE DEF p
    <3>3. f[p] \in Seq(Nat) /\ Descending(f[p]) /\ Range(f[p]) \subseteq 1 .. p
      BY <3>1, <1>4
    <3>4. \A e \in Range(f[p]) : e < m
      BY <3>1, <3>3
    <3>5. f[m] \in Seq(Nat) /\ Descending(f[m]) /\ Range(f[m]) = {m} \cup Range(f[p])
      BY <3>2, <3>3, <3>4, ConsDescends
    <3>6. Range(f[m]) \subseteq 1 .. m
      BY <3>1, <3>3, <3>5
    <3>7. Range(f[m]) = {m} \cup Range(f[tree[m].parent])
      BY <3>5 DEF p
    <3> QED BY <3>5, <3>6, <3>7
  <2> QED BY <2>1, <2>2
<1> HIDE DEF T
<1>5. \A m \in Nat : m \in T
  BY <1>4, StrongInduction
<1>6. \A s \in 0 .. n : Good(s)
  <2> SUFFICES ASSUME NEW s \in 0 .. n PROVE Good(s)
    OBVIOUS
  <2>1. s \in Nat /\ s <= n
    BY <1>1
  <2>2. s \in T
    BY <1>5, <2>1
  <2> HIDE DEF Good
  <2> QED BY <2>1, <2>2 DEF T
<1>7. \A s \in 1 .. n : s \in 0 .. n /\ s # 0
  BY <1>1
<1> QED BY <1>3, <1>6, <1>7 DEF n

(* What does not change the parents of a tree changes none of its scopes. *)
LEMMA ScopesStay ==
  ASSUME NEW tree, Shaped(tree), NEW next, Shaped(next), Len(tree) <= Len(next),
         \A s \in 1 .. Len(tree) : next[s].parent = tree[s].parent,
         NEW f, f = ScopeOf(tree), NEW g, g = ScopeOf(next)
  PROVE  \A s \in 0 .. Len(tree) : g[s] = f[s]
<1> DEFINE n == Len(tree)
           T == {s \in Nat : s <= n => g[s] = f[s]}
<1>1. n \in Nat /\ DOMAIN tree = 1 .. n /\ (\A s \in 1 .. n : tree[s].parent \in 0 .. s - 1)
      /\ Len(next) \in Nat
  BY LenProperties DEF Shaped
<1>2. /\ f[0] = << >> /\ \A s \in 1 .. n : f[s] = <<s>> \o f[tree[s].parent]
  BY ScopeUnfolds
<1>3. /\ g[0] = << >> /\ \A s \in 1 .. Len(next) : g[s] = <<s>> \o g[next[s].parent]
  BY ScopeUnfolds
<1>4. \A s \in 1 .. n : s \in 1 .. Len(next) /\ next[s].parent = tree[s].parent
  BY <1>1
<1> HIDE DEF n
<1>5. ASSUME NEW m \in Nat, \A k \in 0 .. m - 1 : k \in T PROVE m \in T
  <2>1. CASE m = 0
    BY <1>2, <1>3, <2>1
  <2>2. CASE m # 0 /\ m <= n
    <3>1. m \in 1 .. n /\ tree[m].parent \in 0 .. m - 1 /\ tree[m].parent <= n
      BY <1>1, <2>2
    <3>2. g[tree[m].parent] = f[tree[m].parent]
      BY <3>1, <1>5
    <3>3. g[m] = <<m>> \o g[next[m].parent] /\ next[m].parent = tree[m].parent
      BY <1>3, <1>4, <3>1
    <3>4. f[m] = <<m>> \o f[tree[m].parent]
      BY <1>2, <3>1
    <3> QED BY <3>2, <3>3, <3>4
  <2> QED BY <2>1, <2>2
<1> HIDE DEF T
<1>6. \A m \in Nat : m \in T
  BY <1>5, StrongInduction
<1> QED BY <1>1, <1>6 DEF T, n

(* The ancestors of an open span are open. *)
LEMMA AncestorsOpen ==
  ASSUME NEW tree, Shaped(tree), NEW f, f = ScopeOf(tree),
         \A s \in DOMAIN tree : tree[s].live /\ tree[s].parent # 0 => tree[tree[s].parent].live,
         NEW s \in 1 .. Len(tree), tree[s].live
  PROVE  \A a \in Range(f[s]) : tree[a].live
<1> DEFINE n == Len(tree)
           T == {m \in Nat : m \in 1 .. n /\ tree[m].live => \A a \in Range(f[m]) : tree[a].live}
<1>1. n \in Nat /\ DOMAIN tree = 1 .. n /\ \A m \in 1 .. n : tree[m].parent \in 0 .. m - 1
  BY LenProperties DEF Shaped
<1>2. Range(f[0]) = {} /\ \A m \in 1 .. n : Range(f[m]) = {m} \cup Range(f[tree[m].parent])
  <2>1. Shaped(tree) /\ f = ScopeOf(tree)
    OBVIOUS
  <2>2. /\ Range(f[0]) = {}
        /\ \A m \in 1 .. Len(tree) : Range(f[m]) = {m} \cup Range(f[tree[m].parent])
    BY <2>1, ScopeShape, ZenonT(60)
  <2> QED BY <2>2
<1> HIDE DEF n
<1>3. ASSUME NEW m \in Nat, \A k \in 0 .. m - 1 : k \in T PROVE m \in T
  <2>1. CASE m \in 1 .. n /\ tree[m].live
    <3> DEFINE p == tree[m].parent
    <3>1. p \in 0 .. m - 1 /\ Range(f[m]) = {m} \cup Range(f[p]) /\ (p # 0 => tree[p].live)
      BY <1>1, <1>2, <2>1
    <3> HIDE DEF p
    <3>2. CASE p = 0
      BY <1>2, <2>1, <3>1, <3>2
    <3>3. CASE p # 0
      <4>1. p \in 1 .. n /\ p \in T
        BY <1>1, <1>3, <2>1, <3>1, <3>3
      <4> QED BY <2>1, <3>1, <3>3, <4>1
    <3> QED BY <3>2, <3>3
  <2> QED BY <2>1
<1> HIDE DEF T
<1>4. \A m \in Nat : m \in T
  BY <1>3, StrongInduction
<1>5. s \in T /\ s \in 1 .. n
  BY <1>4 DEF n
<1> QED BY <1>5 DEF T

(* The nearest on a path, innermost first, is the innermost: the largest. *)
LEMMA NearestIsInnermost ==
  ASSUME NEW path \in Seq(Nat), Descending(path), NEW those
  PROVE  /\ Nearest(path, those) = Innermost(Range(path) \cap those)
         /\ (Range(path) \cap those = {} => Nearest(path, those) = NoContext)
         /\ (Range(path) \cap those # {} => Nearest(path, those) \in Range(path) \cap those)
<1> DEFINE at == {i \in DOMAIN path : path[i] \in those}  set == Range(path) \cap those
           first == CHOOSE i \in at : \A j \in at : i <= j
<1>1. Len(path) \in Nat /\ DOMAIN path = 1 .. Len(path) /\ \A i \in 1 .. Len(path) : path[i] \in Nat
  BY LenProperties
<1>2. set = {path[i] : i \in at}
  BY DEF Range
<1>3. CASE at = {}
  <2>1. set = {}
    BY <1>2, <1>3
  <2> QED BY <1>3, <2>1 DEF Nearest, Innermost
<1>4. CASE at # {}
  <2>1. \E i \in at : \A j \in at : i <= j
    <3> DEFINE T == {m \in Nat : m \notin at}
    <3>1. SUFFICES ASSUME ~ \E i \in at : \A j \in at : i <= j PROVE FALSE
      OBVIOUS
    <3>2. ASSUME NEW m \in Nat, \A k \in 0 .. m - 1 : k \in T PROVE m \in T
      <4> SUFFICES ASSUME m \in at PROVE FALSE
        OBVIOUS
      <4>1. \A j \in at : j \in Nat /\ j \notin 0 .. m - 1
        BY <1>1, <3>2
      <4>2. \A j \in at : m <= j
        BY <4>1
      <4> QED BY <3>1, <4>2
    <3> HIDE DEF T
    <3>3. \A m \in Nat : m \in T
      BY <3>2, StrongInduction
    <3> QED BY <1>1, <1>4, <3>3 DEF T
  <2>2. first \in at /\ \A j \in at : first <= j
    BY <2>1
  <2> HIDE DEF first
  <2>3. path[first] \in set /\ \A e \in set : e <= path[first]
    <3>1. path[first] \in set
      BY <1>2, <2>2
    <3>2. ASSUME NEW j \in at PROVE path[j] <= path[first]
      <4>1. CASE j = first
        BY <1>1, <2>2, <4>1
      <4>2. CASE j # first
        <5>1. first < j /\ first \in DOMAIN path /\ j \in DOMAIN path
          BY <1>1, <2>2, <4>2
        <5>2. path[j] < path[first]
          BY <5>1 DEF Descending
        <5> QED BY <5>1, <5>2, <1>1
      <4> QED BY <4>1, <4>2
    <3> QED BY <1>2, <3>1, <3>2
  <2>4. Nearest(path, those) = path[first]
    BY <1>4 DEF Nearest, first
  <2>5. \A e \in set : e \in Nat
    BY <1>1, <1>2
  <2>6. Innermost(set) = path[first]
    <3> HIDE DEF set, at
    <3> DEFINE c == CHOOSE s \in set : \A o \in set : o <= s
    <3>1. c \in set /\ \A o \in set : o <= c
      BY <2>3
    <3>2. c = path[first]
      <4> HIDE DEF c
      <4>1. c \in Nat /\ path[first] \in Nat /\ c <= path[first] /\ path[first] <= c
        BY <2>3, <2>5, <3>1
      <4> QED BY <4>1
    <3>3. set # {}
      BY <2>3
    <3> QED BY <3>2, <3>3 DEF Innermost
  <2> QED BY <2>3, <2>4, <2>6
<1> QED BY <1>3, <1>4

Frames == [given : Remotes, previous : Remotes \cup {NoContext}]
BridgeTypeOK ==
    /\ Shaped(tracingTree)
    /\ remote \in [Tasks -> Remotes \cup {NoContext}]
    /\ frames \in [Tasks -> Seq(Frames)]

(* A span open has its parent open, and so all that is around it. *)
OpenInside ==
    \A s \in DOMAIN tracingTree :
        tracingTree[s].live /\ tracingTree[s].parent # 0 => tracingTree[tracingTree[s].parent].live

(* A span exported under one of the tree is inside that one. *)
UnderAround ==
    \A s \in DOMAIN tracingTree :
        tracingTree[s].under \in Nat => tracingTree[s].under \in Around(tracingTree[s].parent)

(* A thread's context is the one its innermost with_parent was given, and   *)
(* each has kept the one it replaced.                                       *)
GivenOf(fs, i) == IF i = 0 THEN NoContext ELSE fs[i].given
ContextsNest ==
    \A t \in Tasks :
        /\ remote[t] = GivenOf(frames[t], Len(frames[t]))
        /\ \A i \in DOMAIN frames[t] : frames[t][i].previous = GivenOf(frames[t], i - 1)

BridgeInv == BridgeTypeOK /\ OpenInside /\ UnderAround /\ ContextsNest

(* Nothing is traced at first.                                              *)
LEMMA BridgeInitInv == BridgeInit => BridgeInv
<1> SUFFICES ASSUME BridgeInit PROVE BridgeInv
  OBVIOUS
<1>1. tracingTree = << >> /\ Len(tracingTree) = 0 /\ \A s \in DOMAIN tracingTree : FALSE
  BY DEF BridgeInit
<1>2. Shaped(tracingTree)
  BY <1>1 DEF Shaped
<1>3. remote \in [Tasks -> Remotes \cup {NoContext}] /\ frames \in [Tasks -> Seq(Frames)]
  BY DEF BridgeInit
<1>4. OpenInside /\ UnderAround
  BY <1>1 DEF OpenInside, UnderAround
<1>5. ContextsNest
  BY DEF BridgeInit, ContextsNest, GivenOf
<1> QED BY <1>2, <1>3, <1>4, <1>5 DEF BridgeInv, BridgeTypeOK

(* The scope of a span of this tree.                                        *)
LEMMA ScopeHere ==
  ASSUME Shaped(tracingTree)
  PROVE  /\ scope = ScopeOf(tracingTree)
         /\ Len(tracingTree) \in Nat /\ DOMAIN tracingTree = 1 .. Len(tracingTree)
         /\ Around(0) = {}
         /\ \A s \in 0 .. Len(tracingTree) :
               /\ scope[s] \in Seq(Nat) /\ Descending(scope[s]) /\ Around(s) \subseteq 1 .. s
               /\ Around(s) \subseteq DOMAIN tracingTree
<1> DEFINE n == Len(tracingTree)
<1>1. scope = ScopeOf(tracingTree)
  BY DEF scope, ScopeOf
<1>2. n \in Nat /\ DOMAIN tracingTree = 1 .. n
  BY LenProperties DEF Shaped
<1>3. /\ Range(scope[0]) = {}
      /\ \A s \in 0 .. n : scope[s] \in Seq(Nat) /\ Descending(scope[s]) /\ Range(scope[s]) \subseteq 1 .. s
  <2> DEFINE f == scope  tree == tracingTree
  <2>1. Shaped(tree) /\ f = ScopeOf(tree)
    BY <1>1
  <2> HIDE DEF f, tree
  <2>2. /\ Range(f[0]) = {}
        /\ \A s \in 0 .. Len(tree) : f[s] \in Seq(Nat) /\ Descending(f[s]) /\ Range(f[s]) \subseteq 1 .. s
    BY <2>1, ScopeShape, ZenonT(60)
  <2> QED BY <2>2 DEF f, tree
<1> HIDE DEF n
<1>4. \A s \in 0 .. n : 1 .. s \subseteq 1 .. n
  BY <1>2
<1> QED BY <1>1, <1>2, <1>3, <1>4 DEF Around, n

(* The nearest exported span of this tree is the innermost of those around. *)
LEMMA NearestHere ==
  ASSUME Shaped(tracingTree), NEW s \in 0 .. Len(tracingTree)
  PROVE  /\ nearest_exported(s) = ExportedAround(s)
         /\ nearest_exported(s) = NoContext \/ nearest_exported(s) \in Around(s) \cap Exported
         /\ \A k : /\ Nearest(scope[s], Giving(k)) = Innermost(Around(s) \cap Giving(k))
<1>1. scope[s] \in Seq(Nat) /\ Descending(scope[s])
  BY ScopeHere
<1> QED BY <1>1, NearestIsInnermost DEF nearest_exported, ExportedAround, Around

(* A step that changes no span's parent, and opens none. *)
LEMMA TreeKept ==
  ASSUME BridgeInv, Shaped(tracingTree'), Len(tracingTree') = Len(tracingTree),
         \A s \in DOMAIN tracingTree : /\ tracingTree'[s].parent = tracingTree[s].parent
                                       /\ tracingTree'[s].under = tracingTree[s].under,
         OpenInside', UNCHANGED <<remote, frames>>
  PROVE  BridgeInv'
<1>1. DOMAIN tracingTree = 1 .. Len(tracingTree) /\ DOMAIN tracingTree' = DOMAIN tracingTree
      /\ Len(tracingTree) \in Nat
  BY LenProperties DEF BridgeInv, BridgeTypeOK, Shaped
<1>2. \A s \in 0 .. Len(tracingTree) : scope'[s] = scope[s]
  <2> DEFINE f == scope  g == scope'  tree == tracingTree  next == tracingTree'
  <2>1. f = ScopeOf(tree) /\ g = ScopeOf(next)
    BY DEF scope, ScopeOf
  <2>2. Shaped(tree) /\ Shaped(next) /\ Len(tree) <= Len(next)
        /\ \A s \in 1 .. Len(tree) : next[s].parent = tree[s].parent
    BY <1>1 DEF BridgeInv, BridgeTypeOK
  <2> HIDE DEF f, g, tree, next
  <2>3. \A s \in 0 .. Len(tree) : g[s] = f[s]
    BY <2>1, <2>2, ScopesStay
  <2> QED BY <2>3 DEF f, g, tree, next
<1>3. BridgeTypeOK' /\ ContextsNest'
  BY DEF BridgeInv, BridgeTypeOK, ContextsNest
<1>4. UnderAround'
  <2> SUFFICES ASSUME NEW s \in DOMAIN tracingTree, tracingTree[s].under \in Nat
               PROVE  tracingTree[s].under \in Around(tracingTree[s].parent)'
    BY <1>1 DEF UnderAround
  <2>1. tracingTree[s].parent \in 0 .. Len(tracingTree) /\ tracingTree'[s].parent = tracingTree[s].parent
    BY <1>1 DEF BridgeInv, BridgeTypeOK, Shaped
  <2>2. scope'[tracingTree'[s].parent] = scope[tracingTree[s].parent]
    BY <1>2, <2>1
  <2> QED BY <2>2 DEF BridgeInv, UnderAround, Around
<1> QED BY <1>3, <1>4 DEF BridgeInv

(* A span as on_new_span makes it. *)
LEMMA SpanMade ==
  ASSUME NEW t \in Tasks, NEW parent \in Nat, NEW x \in {"none", "Exported", "Folded"},
         NEW u \in Nat \cup Remotes \cup {NoContext}, NEW d \in Fieldings, NEW e \in BOOLEAN,
         NEW span, span = TracingSpan(t, parent, x, u, d, e)
  PROVE  /\ span \in TracingSpans /\ span.parent = parent /\ span.by = t /\ span.live
         /\ span.under = u /\ span.extension = x
  BY DEF TracingSpan, TracingSpans

(* A span opens under the nearest exported one, or the remote parent.       *)
LEMMA OnNewSpanInv == ASSUME BridgeInv, NEW t \in Tasks, OnNewSpan(t) PROVE BridgeInv' /\ TreeStep
<1> DEFINE n == Len(tracingTree)
<1>1. PICK parent \in {0} \cup {s \in DOMAIN tracingTree : tracingTree[s].live},
           folds \in BOOLEAN, error \in BOOLEAN, keys \in SUBSET Fields :
         tracingTree' = Append(tracingTree,
            IF gate # "open" THEN TracingSpan(t, parent, "none", NoContext, << >>, FALSE)
            ELSE IF folds THEN TracingSpan(t, parent, "Folded", NoContext, [k \in keys |-> n + 1], FALSE)
            ELSE TracingSpan(t, parent, "Exported", Else(nearest_exported(parent), remote[t]), << >>, error))
  BY DEF OnNewSpan
<1>2. UNCHANGED <<gate, remote, frames, emitted>>
  BY DEF OnNewSpan
<1>3. Shaped(tracingTree) /\ remote \in [Tasks -> Remotes \cup {NoContext}]
  BY DEF BridgeInv, BridgeTypeOK
<1>4. n \in Nat /\ DOMAIN tracingTree = 1 .. n /\ parent \in 0 .. n
  BY <1>3, ScopeHere
<1> DEFINE under == Else(nearest_exported(parent), remote[t])
           new == IF gate # "open" THEN TracingSpan(t, parent, "none", NoContext, << >>, FALSE)
                  ELSE IF folds THEN TracingSpan(t, parent, "Folded", NoContext, [k \in keys |-> n + 1], FALSE)
                  ELSE TracingSpan(t, parent, "Exported", under, << >>, error)
<1>5. nearest_exported(parent) = ExportedAround(parent)
      /\ (nearest_exported(parent) = NoContext \/ nearest_exported(parent) \in Around(parent) \cap Exported)
      /\ Around(parent) \subseteq 1 .. n
  BY <1>3, <1>4, NearestHere, ScopeHere
<1>6. under \in Nat \cup Remotes \cup {NoContext}
      /\ (under \in 1 .. n => under \in Around(parent))
  <2>1. remote[t] \in Remotes \cup {NoContext} /\ remote[t] \notin 1 .. n
    BY <1>3, BridgeAssumption
  <2>2. CASE nearest_exported(parent) = NoContext
    BY <2>1, <2>2 DEF Else
  <2>3. CASE nearest_exported(parent) # NoContext
    BY <1>4, <1>5, <2>3 DEF Else
  <2> QED BY <2>2, <2>3
<1> HIDE DEF under, n
<1>7. << >> \in Fieldings
  <2>1. << >> \in [{} -> Nat]
    <3>1. << >> \in [1 .. Len(<< >>) -> Nat] /\ Len(<< >>) = 0
      <4>1. << >> \in Seq(Nat)
        BY EmptySeq
      <4> QED BY <4>1, LenProperties, EmptySeq
    <3>2. 1 .. 0 = {}
      OBVIOUS
    <3> QED BY <3>1, <3>2
  <2> QED BY <2>1 DEF Fieldings
<1>8. [k \in keys |-> n + 1] \in Fieldings
  <2>1. [k \in keys |-> n + 1] \in [keys -> Nat]
    BY <1>4
  <2> QED BY <2>1 DEF Fieldings
<1>9. new \in TracingSpans /\ new.parent = parent /\ new.by = t /\ new.live
      /\ new.under \in {NoContext, under} /\ (new.extension = "Exported" => new.under = under)
  <2> DEFINE none == << >>  fs == [k \in keys |-> n + 1]  no == FALSE
  <2>1. no \in BOOLEAN /\ none \in Fieldings /\ fs \in Fieldings /\ parent \in Nat /\ NoContext \in Nat \cup Remotes \cup {NoContext}
    BY <1>4, <1>7, <1>8
  <2> HIDE DEF none, fs, no
  <2>3. new \in {TracingSpan(t, parent, "none", NoContext, none, no),
                 TracingSpan(t, parent, "Folded", NoContext, fs, no),
                 TracingSpan(t, parent, "Exported", under, none, error)}
    BY DEF none, fs, no
  <2> HIDE DEF new
  <2>4. CASE new = TracingSpan(t, parent, "none", NoContext, none, no)
    <3>1. new \in TracingSpans /\ new.parent = parent /\ new.by = t /\ new.live
          /\ new.under = NoContext /\ new.extension = "none"
      BY <2>1, <2>4, SMTT(30) DEF TracingSpan, TracingSpans
    <3>2. "none" # "Exported"
      OBVIOUS
    <3> QED BY <3>1, <3>2
  <2>5. CASE new = TracingSpan(t, parent, "Folded", NoContext, fs, no)
    <3>1. new \in TracingSpans /\ new.parent = parent /\ new.by = t /\ new.live
          /\ new.under = NoContext /\ new.extension = "Folded"
      BY <2>1, <2>5, SMTT(30) DEF TracingSpan, TracingSpans
    <3>2. "Folded" # "Exported"
      OBVIOUS
    <3> QED BY <3>1, <3>2
  <2>6. CASE new = TracingSpan(t, parent, "Exported", under, none, error)
    <3>1. "Exported" \in {"none", "Exported", "Folded"} /\ error \in BOOLEAN
          /\ under \in Nat \cup Remotes \cup {NoContext}
      BY <1>6
    <3>2. /\ new \in TracingSpans /\ new.parent = parent /\ new.by = t /\ new.live
          /\ new.under = under
      BY <2>1, <2>6, <3>1, SpanMade
    <3> QED BY <3>2
  <2> QED BY <2>3, <2>4, <2>5, <2>6
<1>10. tracingTree' = Append(tracingTree, new)
  BY <1>1 DEF under
<1> HIDE DEF new
<1>11. /\ tracingTree' \in Seq(TracingSpans) /\ Len(tracingTree') = n + 1
       /\ DOMAIN tracingTree' = 1 .. n + 1
       /\ (\A s \in 1 .. n : tracingTree'[s] = tracingTree[s]) /\ tracingTree'[n + 1] = new
  <2>1. tracingTree \in Seq(TracingSpans)
    BY <1>3 DEF Shaped
  <2> QED BY <2>1, <1>9, <1>10, AppendProperties, LenProperties DEF n
<1>12. Shaped(tracingTree')
  <2>1. ASSUME NEW s \in 1 .. n + 1 PROVE tracingTree'[s].parent \in 0 .. s - 1
    <3>1. CASE s = n + 1
      BY <1>4, <1>9, <1>11, <3>1
    <3>2. CASE s # n + 1
      <4>1. s \in 1 .. n
        BY <1>4, <3>2
      <4> QED BY <1>3, <1>4, <1>11, <4>1 DEF Shaped
    <3> QED BY <3>1, <3>2
  <2> QED BY <1>11, <2>1 DEF Shaped
<1>13. \A s \in 0 .. n : scope'[s] = scope[s]
  <2> DEFINE f == scope  g == scope'  tree == tracingTree  next == tracingTree'
  <2>1. f = ScopeOf(tree) /\ g = ScopeOf(next)
    BY DEF scope, ScopeOf
  <2>2. Shaped(tree) /\ Shaped(next) /\ Len(tree) <= Len(next) /\ n = Len(tree)
        /\ \A s \in 1 .. Len(tree) : next[s].parent = tree[s].parent
    BY <1>3, <1>4, <1>11, <1>12 DEF n
  <2> HIDE DEF f, g, tree, next
  <2>3. \A s \in 0 .. Len(tree) : g[s] = f[s]
    BY <2>1, <2>2, ScopesStay
  <2> QED BY <2>2, <2>3 DEF f, g
<1>14. BridgeTypeOK' /\ ContextsNest'
  BY <1>2, <1>12 DEF BridgeInv, BridgeTypeOK, ContextsNest
<1>15. OpenInside'
  <2> SUFFICES ASSUME NEW s \in 1 .. n + 1, tracingTree'[s].live, tracingTree'[s].parent # 0
               PROVE  tracingTree'[tracingTree'[s].parent].live
    BY <1>11 DEF OpenInside
  <2>1. CASE s = n + 1
    <3>1. tracingTree'[s].parent = parent /\ parent \in 1 .. n /\ tracingTree[parent].live
      BY <1>1, <1>4, <1>9, <1>11, <2>1
    <3> QED BY <1>11, <3>1
  <2>2. CASE s # n + 1
    <3>1. s \in 1 .. n /\ tracingTree'[s] = tracingTree[s] /\ tracingTree[s].parent \in 0 .. s - 1
      BY <1>3, <1>4, <1>11, <2>2 DEF Shaped
    <3>2. tracingTree[s].parent \in 1 .. n
      BY <1>4, <3>1
    <3>3. tracingTree[tracingTree[s].parent].live
      BY <1>4, <3>1 DEF BridgeInv, OpenInside
    <3> QED BY <1>11, <3>1, <3>2, <3>3
  <2> QED BY <2>1, <2>2
<1>16. UnderAround'
  <2> SUFFICES ASSUME NEW s \in 1 .. n + 1, tracingTree'[s].under \in Nat
               PROVE  tracingTree'[s].under \in Around(tracingTree[s].parent)'
    BY <1>11 DEF UnderAround
  <2>1. CASE s = n + 1
    <3>1. new.under \in Nat /\ tracingTree'[s] = new
      BY <1>11, <2>1
    <3>2. new.under = under /\ under # NoContext /\ under \in Nat
      BY <1>9, <3>1, BridgeAssumption
    <3>3. under \in Around(parent)
      <4>1. under = nearest_exported(parent) \/ under \in Remotes \cup {NoContext}
        BY <1>3 DEF under, Else
      <4>2. under = nearest_exported(parent)
        BY <3>2, <4>1, BridgeAssumption
      <4> QED BY <1>5, <3>2, <4>2
    <3>4. scope'[parent] = scope[parent] /\ tracingTree'[s].parent = parent
      BY <1>4, <1>9, <1>13, <3>1
    <3> QED BY <3>1, <3>2, <3>3, <3>4 DEF Around
  <2>2. CASE s # n + 1
    <3>1. s \in 1 .. n /\ tracingTree'[s] = tracingTree[s] /\ tracingTree[s].parent \in 0 .. s - 1
      BY <1>3, <1>4, <1>11, <2>2 DEF Shaped
    <3>2. tracingTree[s].parent \in 0 .. n
      BY <1>4, <3>1
    <3>3. scope'[tracingTree[s].parent] = scope[tracingTree[s].parent]
      BY <1>13, <3>2
    <3>4. tracingTree[s].under \in Around(tracingTree[s].parent)
      BY <1>4, <3>1 DEF BridgeInv, UnderAround
    <3> QED BY <3>1, <3>3, <3>4 DEF Around
  <2> QED BY <2>1, <2>2
<1>17. TreeStep
  <2> DEFINE running == {frames[t][i].given : i \in {Len(frames[t])} \ {0}}
             said == IF ExportedAround(parent) # NoContext THEN ExportedAround(parent)
                     ELSE IF running = {} THEN NoContext ELSE CHOOSE c \in running : TRUE
  <2>1. emitted' = emitted
    BY <1>2
  <2>2. under = said
    <3>1. Len(frames[t]) \in Nat
      BY LenProperties DEF BridgeInv, BridgeTypeOK
    <3>2. remote[t] = IF Len(frames[t]) = 0 THEN NoContext ELSE frames[t][Len(frames[t])].given
      BY DEF BridgeInv, ContextsNest, GivenOf
    <3>3. CASE Len(frames[t]) = 0
      <4>1. running = {}
        BY <3>3
      <4> QED BY <1>5, <3>2, <3>3, <4>1 DEF under, Else
    <3>4. CASE Len(frames[t]) # 0
      <4>1. running = {frames[t][Len(frames[t])].given}
        BY <3>4
      <4>2. (CHOOSE c \in running : TRUE) = frames[t][Len(frames[t])].given
        BY <4>1
      <4> HIDE DEF running
      <4> QED BY <1>5, <3>2, <3>4, <4>1, <4>2 DEF under, Else
    <3> QED BY <3>3, <3>4
  <2>3. ASSUME NEW s \in DOMAIN tracingTree' \ DOMAIN tracingTree
        PROVE  s = n + 1 /\ tracingTree'[s] = new
    BY <1>4, <1>11
  <2>4. ASSUME NEW s \in DOMAIN tracingTree' \ DOMAIN tracingTree, NEW u \in Tasks,
               tracingTree'[s].extension = "Exported", tracingTree'[s].by = u
        PROVE  u = t /\ tracingTree'[s].parent = parent /\ tracingTree'[s].under = said
    BY <1>9, <2>2, <2>3, <2>4
  <2> HIDE DEF said
  <2>5. ASSUME NEW s \in DOMAIN tracingTree' \ DOMAIN tracingTree, NEW u \in Tasks
        PROVE  LET made == tracingTree'[s]
                   given == {frames[u][i].given : i \in {Len(frames[u])} \ {0}}
               IN (made.extension = "Exported" /\ made.by = u) =>
                     made.under = (IF ExportedAround(made.parent) # NoContext
                                     THEN ExportedAround(made.parent)
                                     ELSE IF given = {} THEN NoContext ELSE CHOOSE c \in given : TRUE)
    BY <2>4 DEF said
  <2> QED BY <2>1, <2>5 DEF TreeStep
<1> QED BY <1>14, <1>15, <1>16, <1>17 DEF BridgeInv

(* A step that rewrites one span where it hangs, or ends it with no child    *)
(* of it open.                                                              *)
LEMMA SpanRewritten ==
  ASSUME BridgeInv, NEW s \in DOMAIN tracingTree, NEW span \in TracingSpans,
         span.parent = tracingTree[s].parent, span.under = tracingTree[s].under,
         \/ span.live = tracingTree[s].live
         \/ ~span.live /\ \A c \in DOMAIN tracingTree : tracingTree[c].parent = s => ~tracingTree[c].live,
         tracingTree' = [tracingTree EXCEPT ![s] = span], UNCHANGED <<remote, frames>>
  PROVE  BridgeInv' /\ DOMAIN tracingTree' = DOMAIN tracingTree /\ tracingTree'[s] = span
<1>1. /\ tracingTree \in Seq(TracingSpans) /\ Len(tracingTree) \in Nat
      /\ DOMAIN tracingTree = 1 .. Len(tracingTree)
      /\ \A c \in DOMAIN tracingTree : tracingTree[c].parent \in 0 .. c - 1
  BY ScopeHere DEF BridgeInv, BridgeTypeOK, Shaped
<1>2. /\ tracingTree' \in Seq(TracingSpans) /\ Len(tracingTree') = Len(tracingTree)
      /\ DOMAIN tracingTree' = DOMAIN tracingTree
      /\ tracingTree'[s] = span /\ \A c \in DOMAIN tracingTree : c # s => tracingTree'[c] = tracingTree[c]
  <2>1. /\ tracingTree' \in Seq(TracingSpans) /\ Len(tracingTree') = Len(tracingTree)
    BY <1>1, ExceptSeq
  <2> QED BY <1>1, <2>1
<1>3. \A c \in DOMAIN tracingTree : /\ tracingTree'[c].parent = tracingTree[c].parent
                                    /\ tracingTree'[c].under = tracingTree[c].under
  BY <1>2
<1>4. Shaped(tracingTree')
  BY <1>1, <1>2, <1>3 DEF Shaped
<1>5. OpenInside'
  <2> SUFFICES ASSUME NEW c \in DOMAIN tracingTree, tracingTree'[c].live, tracingTree'[c].parent # 0
               PROVE  tracingTree'[tracingTree'[c].parent].live
    BY <1>2 DEF OpenInside
  <2> DEFINE p == tracingTree[c].parent
  <2>1. p \in DOMAIN tracingTree /\ p # c /\ tracingTree'[c].parent = p
    BY <1>1, <1>3
  <2> HIDE DEF p
  <2>2. CASE tracingTree[c].live
    <3>1. tracingTree[p].live
      BY <1>3, <2>1, <2>2 DEF BridgeInv, OpenInside, p
    <3>2. CASE p # s
      BY <1>2, <2>1, <3>1, <3>2
    <3>3. CASE p = s
      <4>1. span.live = tracingTree[s].live
        BY <2>2, <3>3 DEF p
      <4>2. tracingTree'[tracingTree'[c].parent] = span
        BY <1>2, <2>1, <3>3
      <4>3. tracingTree[s].live
        BY <3>1, <3>3
      <4> QED BY ONLY <4>1, <4>2, <4>3, Zenon
    <3> QED BY <3>2, <3>3
  <2>3. CASE ~tracingTree[c].live
    <3>1. c = s /\ span.live
      BY <1>2, <2>3
    <3> QED BY <2>3, <3>1
  <2> QED BY <2>2, <2>3
<1>6. BridgeInv'
  BY <1>2, <1>3, <1>4, <1>5, TreeKept
<1> QED BY <1>2, <1>6

(* A step that opens nothing and sends nothing. *)
LEMMA StepSilent ==
  ASSUME DOMAIN tracingTree' = DOMAIN tracingTree, emitted' \in {emitted, NoContext}
  PROVE  TreeStep
  BY DEF TreeStep

(* What a span's fields hold after one of them was recorded. *)
LEMMA FieldRecorded ==
  ASSUME NEW fields \in Fieldings, NEW k \in Fields, NEW s \in Nat
  PROVE  [f \in DOMAIN fields \cup {k} |-> s] \in Fieldings
<1>1. DOMAIN fields \cup {k} \in SUBSET Fields
  BY DEF Fieldings
<1>2. [f \in DOMAIN fields \cup {k} |-> s] \in [DOMAIN fields \cup {k} -> Nat]
  OBVIOUS
<1> QED BY <1>1, <1>2 DEF Fieldings

(* A folded span is given a field, and an exported one a failure.           *)
LEMMA OnRecordInv ==
  ASSUME BridgeInv, NEW s \in DOMAIN tracingTree, OnRecord(s) PROVE BridgeInv' /\ TreeStep
<1>1. tracingTree[s] \in TracingSpans /\ s \in Nat
  BY ScopeHere DEF BridgeInv, BridgeTypeOK, Shaped
<1>2. UNCHANGED <<gate, remote, frames, emitted>>
  BY DEF OnRecord
<1>3. CASE tracingTree' = [tracingTree EXCEPT ![s].failed = TRUE]
  <2> DEFINE span == [tracingTree[s] EXCEPT !.failed = TRUE]
  <2>1. /\ span \in TracingSpans /\ span.parent = tracingTree[s].parent
        /\ span.under = tracingTree[s].under /\ span.live = tracingTree[s].live
    BY <1>1 DEF TracingSpans
  <2>2. tracingTree' = [tracingTree EXCEPT ![s] = span]
    BY <1>3
  <2> HIDE DEF span
  <2>3. BridgeInv' /\ DOMAIN tracingTree' = DOMAIN tracingTree
    BY <1>2, <2>1, <2>2, SpanRewritten
  <2> QED BY <1>2, <2>3, StepSilent
<1>4. ASSUME NEW k \in Fields,
             tracingTree' = [tracingTree EXCEPT ![s].fields = [f \in DOMAIN @ \cup {k} |-> s]]
      PROVE  BridgeInv' /\ TreeStep
  <2> DEFINE fields == [f \in DOMAIN tracingTree[s].fields \cup {k} |-> s]
             span == [tracingTree[s] EXCEPT !.fields = fields]
  <2>1. fields \in Fieldings
    BY <1>1, FieldRecorded DEF TracingSpans
  <2>2. tracingTree' = [tracingTree EXCEPT ![s] = span]
    BY <1>4
  <2> HIDE DEF fields
  <2>3. /\ span \in TracingSpans /\ span.parent = tracingTree[s].parent
        /\ span.under = tracingTree[s].under /\ span.live = tracingTree[s].live
    BY <1>1, <2>1 DEF TracingSpans
  <2> HIDE DEF span
  <2>4. BridgeInv' /\ DOMAIN tracingTree' = DOMAIN tracingTree
    BY <1>2, <2>2, <2>3, SpanRewritten
  <2> QED BY <1>2, <2>4, StepSilent
<1> QED BY <1>3, <1>4 DEF OnRecord

(* All that is around an open span is open. *)
LEMMA ParentsAroundOpen ==
  ASSUME BridgeInv, NEW s \in DOMAIN tracingTree, tracingTree[s].live, tracingTree[s].parent # 0
  PROVE  \A a \in Around(tracingTree[s].parent) : tracingTree[a].live
<1>1. /\ Shaped(tracingTree) /\ DOMAIN tracingTree = 1 .. Len(tracingTree) /\ Len(tracingTree) \in Nat
      /\ tracingTree[s].parent \in 0 .. s - 1
  BY ScopeHere DEF BridgeInv, BridgeTypeOK, Shaped
<1>2. tracingTree[s].parent \in 1 .. Len(tracingTree)
  BY <1>1
<1> DEFINE f == scope  tree == tracingTree  p == tracingTree[s].parent
<1>3. /\ Shaped(tree) /\ f = ScopeOf(tree) /\ p \in 1 .. Len(tree) /\ tree[p].live
      /\ \A c \in DOMAIN tree : tree[c].live /\ tree[c].parent # 0 => tree[tree[c].parent].live
  BY <1>1, <1>2, ScopeHere DEF BridgeInv, OpenInside
<1> HIDE DEF f, tree, p
<1>4. \A a \in Range(f[p]) : tree[a].live
  BY <1>3, AncestorsOpen
<1> QED BY <1>4 DEF f, tree, p, Around

(* A span is closed: its export has the parent it was given.                *)
LEMMA OnCloseInv ==
  ASSUME BridgeInv, NEW s \in DOMAIN tracingTree, OnClose(s) PROVE BridgeInv' /\ TreeStep
<1> DEFINE span == [tracingTree[s] EXCEPT !.live = FALSE]
<1>1. tracingTree[s] \in TracingSpans /\ Shaped(tracingTree)
  BY DEF BridgeInv, BridgeTypeOK, Shaped
<1>2. /\ span \in TracingSpans /\ span.parent = tracingTree[s].parent
      /\ span.under = tracingTree[s].under /\ ~span.live
  BY <1>1 DEF TracingSpans
<1>3. tracingTree' = [tracingTree EXCEPT ![s] = span] /\ UNCHANGED <<remote, frames>> /\ tracingTree[s].live
      /\ \A c \in DOMAIN tracingTree : tracingTree[c].parent = s => ~tracingTree[c].live
  BY DEF OnClose
<1> HIDE DEF span
<1>4. BridgeInv' /\ DOMAIN tracingTree' = DOMAIN tracingTree
  BY <1>2, <1>3, SpanRewritten
<1>5. CASE emitted' = NoContext
  BY <1>4, <1>5, StepSilent
<1>6. CASE emitted' = [span |-> s, parent |-> tracingTree[s].under]
  <2>1. "link" \notin DOMAIN emitted' /\ "error" \notin DOMAIN emitted' /\ emitted'.parent = tracingTree[s].under
    BY <1>6
  <2>2. ASSUME tracingTree[s].under \in DOMAIN tracingTree PROVE tracingTree[tracingTree[s].under].live
    <3>1. tracingTree[s].under \in Nat
      BY <2>2, <1>1, ScopeHere
    <3>2. tracingTree[s].under \in Around(tracingTree[s].parent)
      BY <3>1 DEF BridgeInv, UnderAround
    <3>3. tracingTree[s].parent # 0
      BY <1>1, <3>2, ScopeHere
    <3> QED BY <1>1, <1>3, <3>2, <3>3, ParentsAroundOpen
  <2> QED BY <1>4, <2>1, <2>2 DEF TreeStep
<1> QED BY <1>5, <1>6 DEF OnClose

(* A step that leaves the tree alone. *)
LEMMA TreeOnly ==
  ASSUME BridgeInv, UNCHANGED tracingTree, ContextsNest',
         remote' \in [Tasks -> Remotes \cup {NoContext}], frames' \in [Tasks -> Seq(Frames)]
  PROVE  BridgeInv'
<1>1. Shaped(tracingTree)' /\ OpenInside'
  BY DEF BridgeInv, BridgeTypeOK, Shaped, OpenInside
<1>2. scope' = scope
  BY DEF scope
<1>3. UnderAround'
  BY <1>2 DEF BridgeInv, UnderAround, Around
<1> QED BY <1>1, <1>3 DEF BridgeInv, BridgeTypeOK
(* Where the tree is as it was, its spans are as they were.                 *)
LEMMA TreeSame ==
  ASSUME BridgeInv, UNCHANGED <<tracingTree, remote, frames>> PROVE BridgeInv'
<1>1. ContextsNest' /\ remote' \in [Tasks -> Remotes \cup {NoContext}] /\ frames' \in [Tasks -> Seq(Frames)]
  BY DEF BridgeInv, BridgeTypeOK, ContextsNest
<1> QED BY <1>1, TreeOnly

(* A link is to the nearest exported span.                                  *)
LEMMA OnFollowsFromInv ==
  ASSUME BridgeInv, NEW s \in DOMAIN tracingTree, NEW o \in DOMAIN tracingTree, OnFollowsFrom(s, o)
  PROVE  BridgeInv' /\ TreeStep
<1>1. UNCHANGED <<gate, tracingTree, remote, frames>>
      /\ emitted' = [link |-> nearest_exported(o), inside |-> o]
  BY DEF OnFollowsFrom
<1>2. BridgeInv'
  BY <1>1, TreeSame
<1>3. nearest_exported(o) = ExportedAround(o)
  <2>1. Shaped(tracingTree)
    BY DEF BridgeInv, BridgeTypeOK
  <2>2. o \in 0 .. Len(tracingTree)
    BY <2>1, ScopeHere
  <2> QED BY <2>1, <2>2, NearestHere
<1>4. /\ "span" \notin DOMAIN emitted' /\ "error" \notin DOMAIN emitted'
      /\ emitted'.link = ExportedAround(emitted'.inside)
  BY <1>1, <1>3
<1> QED BY <1>1, <1>2, <1>4 DEF TreeStep

(* An event has the fields folded around it, and the innermost counts.      *)
LEMMA OnEventInv ==
  ASSUME BridgeInv, NEW s \in {0} \cup DOMAIN tracingTree, OnEvent(s) PROVE BridgeInv' /\ TreeStep
<1> DEFINE near == nearest_exported(s)
<1>1. PICK error \in BOOLEAN :
         /\ emitted' = [inside |-> s, error |-> error, under |-> near, fields |-> Gathered(scope[s])]
         /\ tracingTree' = IF error /\ near # NoContext
                             THEN [tracingTree EXCEPT ![near].failed = TRUE] ELSE tracingTree
  BY DEF OnEvent
<1>2. UNCHANGED <<gate, remote, frames>>
  BY DEF OnEvent
<1>3. Shaped(tracingTree) /\ s \in 0 .. Len(tracingTree)
  <2>1. Shaped(tracingTree)
    BY DEF BridgeInv, BridgeTypeOK
  <2> QED BY <2>1, ScopeHere
<1>4. /\ near = ExportedAround(s)
      /\ near = NoContext \/ near \in DOMAIN tracingTree
      /\ \A k : Nearest(scope[s], Giving(k)) = Innermost(Around(s) \cap Giving(k))
      /\ Around(s) \subseteq DOMAIN tracingTree
  BY <1>3, NearestHere, ScopeHere
<1>5. \A k \in Fields : IF Around(s) \cap Giving(k) = {} THEN k \notin DOMAIN Gathered(scope[s])
                        ELSE Gathered(scope[s])[k] = Innermost(Around(s) \cap Giving(k))
  <2> SUFFICES ASSUME NEW k \in Fields
               PROVE  IF Around(s) \cap Giving(k) = {} THEN k \notin DOMAIN Gathered(scope[s])
                      ELSE Gathered(scope[s])[k] = Innermost(Around(s) \cap Giving(k))
    OBVIOUS
  <2> DEFINE keys == UNION {DOMAIN tracingTree[a].fields : a \in Range(scope[s])}
  <2>1. k \in keys <=> Around(s) \cap Giving(k) # {}
    BY <1>4 DEF Around, Giving
  <2>2. DOMAIN Gathered(scope[s]) = keys
    BY DEF Gathered
  <2>3. k \in keys => Gathered(scope[s])[k] = Nearest(scope[s], Giving(k))
    BY DEF Gathered
  <2> HIDE DEF keys
  <2> QED BY <1>4, <2>1, <2>2, <2>3
<1> HIDE DEF near
<1>6. BridgeInv' /\ DOMAIN tracingTree' = DOMAIN tracingTree
      /\ (error /\ near # NoContext => tracingTree'[near].failed)
  <2>1. CASE error /\ near # NoContext
    <3> DEFINE span == [tracingTree[near] EXCEPT !.failed = TRUE]
    <3>1. near \in DOMAIN tracingTree /\ tracingTree[near] \in TracingSpans
      BY <1>3, <1>4, <2>1 DEF Shaped
    <3>2. /\ span \in TracingSpans /\ span.parent = tracingTree[near].parent
          /\ span.under = tracingTree[near].under /\ span.live = tracingTree[near].live /\ span.failed
      BY <3>1 DEF TracingSpans
    <3>3. tracingTree' = [tracingTree EXCEPT ![near] = span]
      BY <1>1, <2>1
    <3> HIDE DEF span
    <3>4. BridgeInv' /\ DOMAIN tracingTree' = DOMAIN tracingTree /\ tracingTree'[near] = span
      BY <1>2, <3>1, <3>2, <3>3, SpanRewritten
    <3> QED BY <3>2, <3>4
  <2>2. CASE ~(error /\ near # NoContext)
    <3>1. UNCHANGED <<tracingTree, remote, frames>>
      BY <1>1, <1>2, <2>2
    <3> QED BY <2>2, <3>1, TreeSame
  <2> QED BY <2>1, <2>2
<1> DEFINE gathered == Gathered(scope[s])
<1>7. /\ "span" \notin DOMAIN emitted' /\ "link" \notin DOMAIN emitted'
      /\ emitted'.inside = s /\ emitted'.error = error /\ emitted'.under = near
      /\ emitted'.fields = gathered
  BY <1>1
<1> HIDE DEF gathered
<1>8. TreeStep
  <2>1. /\ emitted'.under = ExportedAround(emitted'.inside)
        /\ emitted'.error /\ emitted'.under # NoContext => tracingTree'[emitted'.under].failed
    BY <1>4, <1>6, <1>7
  <2>2. \A k \in Fields : IF Around(emitted'.inside) \cap Giving(k) = {} THEN k \notin DOMAIN emitted'.fields
                          ELSE emitted'.fields[k] = Innermost(Around(emitted'.inside) \cap Giving(k))
    BY <1>5, <1>7 DEF gathered
  <2> QED BY <1>6, <1>7, <2>1, <2>2 DEF TreeStep
<1> QED BY <1>6, <1>8

(* A remote parent is set for the time of a call.                           *)
LEMMA WithParentInv ==
  ASSUME BridgeInv, NEW t \in Tasks, NEW c \in Remotes, WithParent(t, c) PROVE BridgeInv' /\ TreeStep
<1> DEFINE frame == [given |-> c, previous |-> remote[t]]
<1>1. /\ UNCHANGED <<gate, tracingTree, emitted>> /\ remote' = [remote EXCEPT ![t] = c]
      /\ frames' = [frames EXCEPT ![t] = Append(frames[t], frame)]
  BY DEF WithParent
<1>2. /\ remote \in [Tasks -> Remotes \cup {NoContext}] /\ frames \in [Tasks -> Seq(Frames)]
      /\ frames[t] \in Seq(Frames) /\ frame \in Frames /\ frame.given = c /\ frame.previous = remote[t]
  BY DEF BridgeInv, BridgeTypeOK, Frames
<1> HIDE DEF frame
<1> DEFINE n == Len(frames[t])  deeper == Append(frames[t], frame)
<1>3. /\ n \in Nat /\ DOMAIN frames[t] = 1 .. n /\ deeper \in Seq(Frames) /\ Len(deeper) = n + 1
      /\ (\A i \in 1 .. n : deeper[i] = frames[t][i]) /\ deeper[n + 1] = frame
      /\ DOMAIN deeper = 1 .. n + 1
  BY <1>2, AppendProperties, LenProperties
<1> HIDE DEF n, deeper
<1>4. remote' \in [Tasks -> Remotes \cup {NoContext}] /\ frames' \in [Tasks -> Seq(Frames)]
      /\ remote'[t] = c /\ frames'[t] = deeper
      /\ \A o \in Tasks : o # t => remote'[o] = remote[o] /\ frames'[o] = frames[o]
  BY <1>1, <1>2, <1>3 DEF deeper
<1>5. ASSUME NEW i \in 1 .. n + 1 PROVE deeper[i].previous = GivenOf(deeper, i - 1)
  <2>1. CASE i = n + 1
    <3>1. remote[t] = GivenOf(frames[t], n)
      BY DEF BridgeInv, ContextsNest, n
    <3>2. GivenOf(deeper, n) = GivenOf(frames[t], n)
      BY <1>3 DEF GivenOf
    <3>3. i - 1 = n
      BY <1>3, <2>1
    <3> QED BY <1>2, <1>3, <2>1, <3>1, <3>2, <3>3
  <2>2. CASE i # n + 1
    <3>1. i \in 1 .. n /\ i - 1 \in 0 .. n
      BY <1>3, <2>2
    <3>2. frames[t][i].previous = GivenOf(frames[t], i - 1)
      BY <1>3, <3>1 DEF BridgeInv, ContextsNest
    <3>3. GivenOf(deeper, i - 1) = GivenOf(frames[t], i - 1)
      BY <1>3, <3>1 DEF GivenOf
    <3> QED BY <1>3, <3>1, <3>2, <3>3
  <2> QED BY <2>1, <2>2
<1>6. ContextsNest'
  <2>1. c = GivenOf(deeper, n + 1)
    BY <1>2, <1>3 DEF GivenOf
  <2> SUFFICES ASSUME NEW o \in Tasks
               PROVE  /\ remote'[o] = GivenOf(frames'[o], Len(frames'[o]))
                      /\ \A i \in DOMAIN frames'[o] : frames'[o][i].previous = GivenOf(frames'[o], i - 1)
    BY DEF ContextsNest, GivenOf
  <2>2. CASE o = t
    BY <1>3, <1>4, <1>5, <2>1, <2>2
  <2>3. CASE o # t
    BY <1>4, <2>3 DEF BridgeInv, ContextsNest
  <2> QED BY <2>2, <2>3
<1>7. BridgeInv'
  BY <1>1, <1>4, <1>6, TreeOnly
<1> QED BY <1>1, <1>7, StepSilent

(* The remote parent is what it was, in whatever order.                     *)
LEMMA RestoreInv ==
  ASSUME BridgeInv, NEW t \in Tasks, Restore(t) PROVE BridgeInv' /\ TreeStep
<1> DEFINE n == Len(frames[t])  rest == SubSeq(frames[t], 1, n - 1)
<1>1. /\ UNCHANGED <<gate, tracingTree, emitted>> /\ frames[t] # << >>
      /\ remote' = [remote EXCEPT ![t] = frames[t][n].previous]
      /\ frames' = [frames EXCEPT ![t] = rest]
  BY DEF Restore
<1>2. /\ remote \in [Tasks -> Remotes \cup {NoContext}] /\ frames \in [Tasks -> Seq(Frames)]
      /\ frames[t] \in Seq(Frames)
  BY DEF BridgeInv, BridgeTypeOK
<1>3. /\ n \in Nat /\ DOMAIN frames[t] = 1 .. n /\ n # 0
  BY <1>1, <1>2, LenProperties, EmptySeq
<1>4. /\ rest \in Seq(Frames) /\ Len(rest) = n - 1 /\ DOMAIN rest = 1 .. n - 1
      /\ \A i \in 1 .. n - 1 : rest[i] = frames[t][i]
  BY <1>2, <1>3, SubSeqProperties, LenProperties
<1>5. frames[t][n] \in Frames /\ frames[t][n].previous \in Remotes \cup {NoContext}
      /\ frames[t][n].previous = GivenOf(frames[t], n - 1)
  <2>1. n \in DOMAIN frames[t]
    BY <1>3
  <2>2. frames[t][n].previous = GivenOf(frames[t], n - 1)
    BY <2>1 DEF BridgeInv, ContextsNest
  <2>3. frames[t][n] \in Frames
    BY <1>2, <1>3, <2>1
  <2> QED BY <2>2, <2>3 DEF Frames
<1> HIDE DEF n, rest
<1>6. remote' \in [Tasks -> Remotes \cup {NoContext}] /\ frames' \in [Tasks -> Seq(Frames)]
      /\ remote'[t] = frames[t][n].previous /\ frames'[t] = rest
      /\ \A o \in Tasks : o # t => remote'[o] = remote[o] /\ frames'[o] = frames[o]
  BY <1>1, <1>2, <1>4, <1>5
<1>7. \A i \in 0 .. n - 1 : GivenOf(rest, i) = GivenOf(frames[t], i)
  BY <1>3, <1>4 DEF GivenOf
<1>8. ContextsNest'
  <2> SUFFICES ASSUME NEW o \in Tasks
               PROVE  /\ remote'[o] = GivenOf(frames'[o], Len(frames'[o]))
                      /\ \A i \in DOMAIN frames'[o] : frames'[o][i].previous = GivenOf(frames'[o], i - 1)
    BY DEF ContextsNest, GivenOf
  <2>1. CASE o = t
    <3>1. ASSUME NEW i \in DOMAIN rest PROVE rest[i].previous = GivenOf(rest, i - 1)
      <4>1. i \in 1 .. n - 1 /\ i \in DOMAIN frames[t] /\ i - 1 \in 0 .. n - 1
        BY <1>3, <1>4
      <4>2. frames[t][i].previous = GivenOf(frames[t], i - 1)
        BY <4>1 DEF BridgeInv, ContextsNest
      <4> QED BY <1>4, <1>7, <4>1, <4>2
    <3>2. n - 1 \in 0 .. n - 1
      BY <1>3
    <3> QED BY <1>4, <1>5, <1>6, <1>7, <2>1, <3>1, <3>2
  <2>2. CASE o # t
    BY <1>6, <2>2 DEF BridgeInv, ContextsNest
  <2> QED BY <2>1, <2>2
<1>9. BridgeInv'
  BY <1>1, <1>6, <1>8, TreeOnly
<1> QED BY <1>1, <1>9, StepSilent

(* Every step of the bridge keeps the invariant, and emits what is true.    *)
LEMMA BridgeStep == BridgeInv /\ [BridgeNext]_bridgeVars => BridgeInv' /\ TreeStep
<1> SUFFICES ASSUME BridgeInv, [BridgeNext]_bridgeVars PROVE BridgeInv' /\ TreeStep
  OBVIOUS
<1>1. CASE Delivered
  BY <1>1, TreeSame, StepSilent DEF Delivered
<1>2. CASE Gate
  BY <1>2, TreeSame, StepSilent DEF Gate
<1>3. ASSUME NEW t \in Tasks, OnNewSpan(t) PROVE BridgeInv' /\ TreeStep
  BY <1>3, OnNewSpanInv
<1>4. ASSUME NEW t \in Tasks, Restore(t) PROVE BridgeInv' /\ TreeStep
  BY <1>4, RestoreInv
<1>5. ASSUME NEW t \in Tasks, NEW c \in Remotes, WithParent(t, c) PROVE BridgeInv' /\ TreeStep
  BY <1>5, WithParentInv
<1>6. ASSUME NEW s \in {0} \cup DOMAIN tracingTree, OnEvent(s) PROVE BridgeInv' /\ TreeStep
  BY <1>6, OnEventInv
<1>7. ASSUME NEW s \in DOMAIN tracingTree, OnRecord(s) PROVE BridgeInv' /\ TreeStep
  BY <1>7, OnRecordInv
<1>8. ASSUME NEW s \in DOMAIN tracingTree, OnClose(s) PROVE BridgeInv' /\ TreeStep
  BY <1>8, OnCloseInv
<1>9. ASSUME NEW s \in DOMAIN tracingTree, NEW o \in DOMAIN tracingTree, OnFollowsFrom(s, o)
      PROVE  BridgeInv' /\ TreeStep
  BY <1>9, OnFollowsFromInv
<1>10. CASE UNCHANGED bridgeVars
  BY <1>10, TreeSame, StepSilent DEF bridgeVars
<1> QED BY <1>1, <1>2, <1>3, <1>4, <1>5, <1>6, <1>7, <1>8, <1>9, <1>10 DEF BridgeNext

(* What is exported is tracing's tree without the spans that are folded or  *)
(* were opened with the gate shut.                                          *)
THEOREM TreePreservedHolds == BridgeSpec => TreePreserved
<1>1. BridgeInit => BridgeInv
  BY BridgeInitInv
<1>2. BridgeInv /\ [BridgeNext]_bridgeVars => BridgeInv' /\ TreeStep
  BY BridgeStep
<1>3. BridgeInv /\ [BridgeNext]_bridgeVars => [TreeStep]_bridgeVars
  BY <1>2
<1> QED BY <1>1, <1>2, <1>3, PTL DEF BridgeSpec, TreePreserved

(* A thread's remote context is the one its innermost with_parent was given. *)
THEOREM ContextsNested == BridgeSpec => [](BridgeTypeOK /\ ContextsNest)
<1>1. BridgeInit => BridgeInv
  BY BridgeInitInv
<1>2. BridgeInv /\ [BridgeNext]_bridgeVars => BridgeInv'
  BY BridgeStep
<1>3. BridgeInv => BridgeTypeOK /\ ContextsNest
  BY DEF BridgeInv
<1> QED BY <1>1, <1>2, <1>3, PTL DEF BridgeSpec

-----------------------------------------------------------------------------
(* O11yMetrics: the sums, the series, the registry.                         *)

(* The sums of what a sequence begins with. *)
UptoOf(numbers) ==
    CHOOSE f : f = [n \in 0 .. Len(numbers) |-> IF n = 0 THEN 0 ELSE f[n - 1] + numbers[n]]

(* The recursion of Added has a solution: the sums of what comes first.     *)
LEMMA Summing ==
  ASSUME NEW numbers \in Seq(Int), NEW f, f = UptoOf(numbers)
  PROVE  /\ f \in [0 .. Len(numbers) -> Int] /\ f[0] = 0 /\ Added(numbers) = f[Len(numbers)]
         /\ \A n \in 1 .. Len(numbers) : f[n] = f[n - 1] + numbers[n]
<1> DEFINE m == Len(numbers)
           back == [n \in 1 .. m |-> n - 1]
           step == [n \in 1 .. m |-> [q \in Int |-> q + numbers[n]]]
           unfold(h) == [n \in 0 .. m |-> IF n = 0 THEN 0 ELSE h[n - 1] + numbers[n]]
<1>1. m \in Nat /\ \A n \in 1 .. m : numbers[n] \in Int
  BY LenProperties
<1>2. Added(numbers) = f[m]
  BY DEF Added, UptoOf
<1> HIDE DEF m
<1>3. back \in [1 .. m -> Nat] /\ \A n \in 1 .. m : back[n] < n
  BY <1>1
<1>4. step \in [1 .. m -> [Int -> Int]]
  BY <1>1
<1>5. PICK g \in [0 .. m -> Int] : g[0] = 0 /\ \A n \in 1 .. m : g[n] = step[n][g[back[n]]]
  <2> HIDE DEF back, step
  <2>1. Recursion(Int, 0, m, back, step)
    <3>1. 0 \in Int /\ m \in Nat
      BY <1>1
    <3> QED BY <1>3, <1>4, <3>1, Zenon DEF Recursion
  <2>2. \E g : Solves(g, Int, 0, m, back, step)
    BY <2>1, FiniteRecursion
  <2> QED BY <2>2 DEF Solves
<1>6. \A n \in 1 .. m : n - 1 \in 0 .. m /\ n \in 0 .. m /\ n # 0
  BY <1>1
<1>7. \A n \in 1 .. m : g[n] = g[n - 1] + numbers[n]
  <2> SUFFICES ASSUME NEW n \in 1 .. m PROVE g[n] = g[n - 1] + numbers[n]
    OBVIOUS
  <2>1. g[n - 1] \in Int
    BY <1>6
  <2> QED BY <1>5, <2>1
<1>8. g = unfold(g)
  <2>1. \A n \in 0 .. m : n # 0 => n \in 1 .. m
    BY <1>1
  <2>2. \A n \in 0 .. m : g[n] = IF n = 0 THEN 0 ELSE g[n - 1] + numbers[n]
    BY <1>5, <1>7, <2>1
  <2>3. g = [n \in 0 .. m |-> g[n]]
    BY <1>5
  <2> QED BY <2>2, <2>3, Zenon
<1>9. f = unfold(f)
  <2>1. f = CHOOSE h : h = unfold(h)
    BY DEF UptoOf, m
  <2> HIDE DEF UptoOf
  <2> QED BY <1>8, <2>1
<1>10. f[0] = 0 /\ \A n \in 1 .. m : f[n] = f[n - 1] + numbers[n]
  <2>1. 0 \in 0 .. m
    BY <1>1
  <2> QED BY <1>6, <1>9, <2>1
<1>11. \A n \in Nat : n <= m => f[n] \in Int
  <2> DEFINE T == {n \in Nat : n <= m => f[n] \in Int}
  <2>1. 0 \in T
    BY <1>10
  <2>2. ASSUME NEW n \in Nat, n \in T PROVE n + 1 \in T
    <3> SUFFICES ASSUME n + 1 <= m PROVE f[n + 1] \in Int
      OBVIOUS
    <3>1. n + 1 \in 1 .. m /\ (n + 1) - 1 = n /\ f[n] \in Int /\ numbers[n + 1] \in Int
      BY <1>1, <2>2
    <3> QED BY <1>10, <3>1
  <2> HIDE DEF T
  <2>3. \A n \in Nat : n \in T
    BY <2>1, <2>2, SetInduction
  <2> QED BY <2>3 DEF T
<1>12. f \in [0 .. m -> Int]
  <2>1. f = [n \in 0 .. m |-> f[n]]
    BY <1>9
  <2>2. \A n \in 0 .. m : f[n] \in Int
    BY <1>1, <1>11
  <2> QED BY <2>1, <2>2
<1> QED BY <1>2, <1>10, <1>12 DEF m

(* A sum is a number.                                                       *)
LEMMA AddedInt ==
  ASSUME NEW p \in Seq(Int) PROVE Added(p) \in Int
<1>1. Len(p) \in 0 .. Len(p)
  BY LenProperties
<1>2. UptoOf(p) \in [0 .. Len(p) -> Int] /\ Added(p) = UptoOf(p)[Len(p)]
  BY Summing
<1> QED BY <1>1, <1>2

(* One of the numbers grows by so much, and so does the sum; none, and it   *)
(* stays.                                                                   *)
LEMMA AddedOne ==
  ASSUME NEW p \in Seq(Int), NEW q \in Seq(Int), Len(q) = Len(p), NEW k \in 1 .. Len(p), NEW d \in Int,
         q[k] = p[k] + d, \A i \in 1 .. Len(p) : i # k => q[i] = p[i]
  PROVE  Added(q) = Added(p) + d
<1> DEFINE m == Len(p)  f == UptoOf(p)  g == UptoOf(q)
           T == {n \in Nat : n <= m => (n < k => g[n] = f[n]) /\ (k <= n => g[n] = f[n] + d)}
<1>1. m \in Nat /\ k \in 1 .. m /\ (\A i \in 1 .. m : p[i] \in Int /\ q[i] \in Int)
      /\ q[k] = p[k] + d /\ \A i \in 1 .. m : i # k => q[i] = p[i]
  BY LenProperties
<1>2. /\ f \in [0 .. m -> Int] /\ f[0] = 0 /\ Added(p) = f[m]
      /\ \A n \in 1 .. m : f[n] = f[n - 1] + p[n]
  BY Summing
<1>3. /\ g \in [0 .. m -> Int] /\ g[0] = 0 /\ Added(q) = g[m]
      /\ \A n \in 1 .. m : g[n] = g[n - 1] + q[n]
  BY Summing
<1> HIDE DEF m, f, g
<1>4. 0 \in T
  <2>1. 0 < k /\ ~ (k <= 0) /\ 0 \in Nat
    BY <1>1
  <2>2. g[0] = f[0]
    BY <1>2, <1>3
  <2> QED BY <2>1, <2>2
<1>5. ASSUME NEW n \in Nat, n \in T PROVE n + 1 \in T
  <2> DEFINE j == n + 1
  <2> SUFFICES ASSUME j <= m PROVE (j < k => g[j] = f[j]) /\ (k <= j => g[j] = f[j] + d)
    OBVIOUS
  <2>6. j \in 1 .. m /\ j - 1 = n /\ n <= m /\ n \in 0 .. m
    BY <1>1
  <2>1. j \in 1 .. m /\ j - 1 = n /\ n <= m /\ n \in 0 .. m /\ f[n] \in Int /\ p[j] \in Int
    BY <1>1, <1>2, <2>6
  <2>2. (n < k => g[n] = f[n]) /\ (k <= n => g[n] = f[n] + d)
    BY <1>5, <2>1
  <2>3. f[j] = f[n] + p[j] /\ g[j] = g[n] + q[j]
    BY <1>2, <1>3, <2>1
  <2> HIDE DEF j, T
  <2>4. CASE j < k
    BY <1>1, <2>1, <2>2, <2>3, <2>4
  <2>5. CASE j = k
    BY <1>1, <2>1, <2>2, <2>3, <2>5
  <2>7. CASE j > k
    BY <1>1, <2>1, <2>2, <2>3, <2>7
  <2> QED BY <1>1, <2>1, <2>4, <2>5, <2>7
<1> HIDE DEF T
<1>6. m \in T
  BY <1>1, <1>4, <1>5, SetInduction
<1> QED BY <1>1, <1>2, <1>3, <1>6 DEF T

(* One number more.                                                         *)
LEMMA AddedMore ==
  ASSUME NEW p \in Seq(Int), NEW q \in Seq(Int), Len(q) = Len(p) + 1,
         \A i \in 1 .. Len(p) : q[i] = p[i]
  PROVE  Added(q) = Added(p) + q[Len(q)]
<1> DEFINE m == Len(p)  f == UptoOf(p)  g == UptoOf(q)
           T == {n \in Nat : n <= m => g[n] = f[n]}
<1>1. m \in Nat /\ (\A i \in 1 .. m : q[i] = p[i]) /\ Len(q) = m + 1
  BY LenProperties
<1>2. /\ f \in [0 .. m -> Int] /\ f[0] = 0 /\ Added(p) = f[m]
      /\ \A n \in 1 .. m : f[n] = f[n - 1] + p[n]
  BY Summing
<1>3. /\ g[0] = 0 /\ Added(q) = g[m + 1]
      /\ \A n \in 1 .. m + 1 : g[n] = g[n - 1] + q[n]
  <2>1. /\ g[0] = 0 /\ Added(q) = g[Len(q)]
        /\ \A n \in 1 .. Len(q) : g[n] = g[n - 1] + q[n]
    BY Summing
  <2> HIDE DEF g, m
  <2> QED BY <1>1, <2>1
<1> HIDE DEF m, f, g
<1>4. 0 \in T
  BY <1>1, <1>2, <1>3
<1>5. ASSUME NEW n \in Nat, n \in T PROVE n + 1 \in T
  <2> DEFINE j == n + 1
  <2> SUFFICES ASSUME j <= m PROVE g[j] = f[j]
    OBVIOUS
  <2>1. j \in 1 .. m /\ j \in 1 .. m + 1 /\ j - 1 = n /\ g[n] = f[n]
    BY <1>1, <1>5
  <2> QED BY <1>1, <1>2, <1>3, <2>1
<1> HIDE DEF T
<1>6. m \in T
  BY <1>1, <1>4, <1>5, SetInduction
<1>7. g[m] = f[m] /\ m + 1 \in 1 .. m + 1 /\ (m + 1) - 1 = m
  BY <1>1, <1>6 DEF T
<1> QED BY <1>1, <1>2, <1>3, <1>7

(* Nothing but zeros.                                                       *)
LEMMA AddedZeros ==
  ASSUME NEW p \in Seq(Int), \A i \in 1 .. Len(p) : p[i] = 0 PROVE Added(p) = 0
<1> DEFINE m == Len(p)  f == UptoOf(p)  T == {n \in Nat : n <= m => f[n] = 0}
<1>1. m \in Nat /\ \A i \in 1 .. m : p[i] = 0
  BY LenProperties
<1>2. /\ f[0] = 0 /\ Added(p) = f[m]
      /\ \A n \in 1 .. m : f[n] = f[n - 1] + p[n]
  BY Summing
<1> HIDE DEF m, f
<1>3. 0 \in T
  BY <1>2
<1>4. ASSUME NEW n \in Nat, n \in T PROVE n + 1 \in T
  <2> SUFFICES ASSUME n + 1 <= m PROVE f[n + 1] = 0
    OBVIOUS
  <2>1. n + 1 \in 1 .. m /\ (n + 1) - 1 = n /\ f[n] = 0
    BY <1>1, <1>4
  <2>2. f[n + 1] = f[n] + p[n + 1] /\ p[n + 1] = 0
    BY <1>1, <1>2, <2>1
  <2> QED BY <2>1, <2>2
<1> HIDE DEF T
<1>5. m \in T
  BY <1>1, <1>3, <1>4, SetInduction
<1> QED BY <1>1, <1>2, <1>5 DEF T

(* The first of some numbers is one of them.                                *)
LEMMA FirstIn ==
  ASSUME NEW those \in SUBSET Nat, those # {} PROVE First(those) \in those
<1>1. \E i \in those : \A j \in those : i <= j
  <2> DEFINE T == {m \in Nat : m \notin those}
  <2>1. SUFFICES ASSUME ~ \E i \in those : \A j \in those : i <= j PROVE FALSE
    OBVIOUS
  <2>2. ASSUME NEW m \in Nat, \A k \in 0 .. m - 1 : k \in T PROVE m \in T
    <3> SUFFICES ASSUME m \in those PROVE FALSE
      OBVIOUS
    <3>1. \A j \in those : j \in Nat /\ j \notin 0 .. m - 1
      BY <2>2
    <3>2. \A j \in those : m <= j
      BY <3>1
    <3> QED BY <2>1, <3>2
  <2> HIDE DEF T
  <2>3. \A m \in Nat : m \in T
    BY <2>2, StrongInduction
  <2> QED BY <2>3 DEF T
<1> QED BY <1>1 DEF First
-----------------------------------------------------------------------------
(* The totals of some series and of the overflow one, in either field.      *)
SeriesFields == {"count", "sum"}
Column(some, field) == [i \in DOMAIN some |-> some[i][field]]
Share(one, field) == IF one = Unset THEN 0 ELSE one[field]
TotalOf(some, one, field) == Added(Column(some, field)) + Share(one, field)

(* What a series holds, by name.                                            *)
LEMMA InSeries ==
  ASSUME NEW s \in Series
  PROVE  /\ s.counts \in Seq(Nat) /\ s.count \in Nat /\ s.sum \in Int /\ s # Unset
         /\ \A field \in SeriesFields : s[field] \in Int
         /\ s["count"] = s.count /\ s["sum"] = s.sum
BY MetricsAssumption DEF Series, SeriesFields

(* One field of some series, in their order.                                *)
LEMMA ColumnInts ==
  ASSUME NEW some \in Seq(Series), NEW field \in SeriesFields
  PROVE  /\ Column(some, field) \in Seq(Int) /\ Len(Column(some, field)) = Len(some)
         /\ \A i \in 1 .. Len(some) : Column(some, field)[i] = some[i][field] /\ some[i] \in Series
<1>1. Len(some) \in Nat /\ DOMAIN some = 1 .. Len(some) /\ \A i \in 1 .. Len(some) : some[i] \in Series
  BY LenProperties
<1>2. Column(some, field) = [i \in 1 .. Len(some) |-> some[i][field]]
  BY <1>1 DEF Column
<1>3. \A i \in 1 .. Len(some) : some[i][field] \in Int
  BY <1>1, InSeries
<1>4. Column(some, field) \in [1 .. Len(some) -> Int]
  BY <1>2, <1>3
<1>5. Column(some, field) \in Seq(Int)
  BY <1>1, <1>4
<1>6. Len(Column(some, field)) = Len(some)
  BY <1>1, <1>4, <1>5, LenProperties
<1> QED BY <1>1, <1>2, <1>5, <1>6

(* The share of the overflow series is a number.                            *)
LEMMA ShareInt ==
  ASSUME NEW one \in Series \cup {Unset}, NEW field \in SeriesFields
  PROVE  Share(one, field) \in Int
BY InSeries DEF Share

(* A total is a number.                                                     *)
LEMMA TotalInt ==
  ASSUME NEW some \in Seq(Series), NEW one \in Series \cup {Unset}, NEW field \in SeriesFields
  PROVE  TotalOf(some, one, field) \in Int
<1>1. Column(some, field) \in Seq(Int)
  BY ColumnInts
<1>2. Added(Column(some, field)) \in Int /\ Share(one, field) \in Int
  BY <1>1, AddedInt, ShareInt
<1> QED BY <1>2 DEF TotalOf

(* One series takes a share more.                                           *)
LEMMA TotalAt ==
  ASSUME NEW some \in Seq(Series), NEW one \in Series \cup {Unset}, NEW field \in SeriesFields,
         NEW k \in 1 .. Len(some), NEW s \in Series, NEW d \in Int, s[field] = some[k][field] + d
  PROVE  LET then == [some EXCEPT ![k] = s]
         IN /\ then \in Seq(Series) /\ Len(then) = Len(some)
            /\ TotalOf(then, one, field) = TotalOf(some, one, field) + d
<1> DEFINE then == [some EXCEPT ![k] = s]  p == Column(some, field)  q == Column(then, field)
<1>1. Len(some) \in Nat /\ some \in [1 .. Len(some) -> Series] /\ DOMAIN some = 1 .. Len(some)
  BY LenProperties
<1>2. then \in [1 .. Len(some) -> Series] /\ then[k] = s
      /\ \A i \in 1 .. Len(some) : i # k => then[i] = some[i]
  BY <1>1
<1>3. then \in Seq(Series)
  BY <1>1, <1>2
<1>4. Len(then) = Len(some)
  BY <1>1, <1>2, <1>3, LenProperties
<1>5. p \in Seq(Int) /\ Len(p) = Len(some) /\ \A i \in 1 .. Len(some) : p[i] = some[i][field]
  BY ColumnInts
<1> HIDE DEF then, p, q
<1>6. q \in Seq(Int) /\ Len(q) = Len(then) /\ \A i \in 1 .. Len(then) : q[i] = then[i][field]
  BY <1>3, ColumnInts DEF q
<1>7. Len(q) = Len(p) /\ k \in 1 .. Len(p) /\ q[k] = p[k] + d
      /\ \A i \in 1 .. Len(p) : i # k => q[i] = p[i]
  BY <1>2, <1>4, <1>5, <1>6
<1>8. Added(q) = Added(p) + d
  BY <1>5, <1>6, <1>7, AddedOne
<1>9. Added(p) \in Int /\ Share(one, field) \in Int
  BY <1>5, AddedInt, ShareInt
<1>10. TotalOf(then, one, field) = Added(q) + Share(one, field)
       /\ TotalOf(some, one, field) = Added(p) + Share(one, field)
  BY DEF TotalOf, p, q
<1>11. TotalOf(then, one, field) = TotalOf(some, one, field) + d
  BY <1>8, <1>9, <1>10
<1> QED BY <1>3, <1>4, <1>11 DEF then

(* The overflow series takes it.                                            *)
LEMMA TotalOver ==
  ASSUME NEW some \in Seq(Series), NEW one \in Series \cup {Unset}, NEW field \in SeriesFields,
         NEW s \in Series, NEW d \in Int, s[field] = Share(one, field) + d
  PROVE  TotalOf(some, s, field) = TotalOf(some, one, field) + d
<1>1. Column(some, field) \in Seq(Int)
  BY ColumnInts
<1>2. Added(Column(some, field)) \in Int /\ Share(one, field) \in Int
  BY <1>1, AddedInt, ShareInt
<1>3. Share(s, field) = s[field]
  BY InSeries DEF Share
<1> QED BY <1>2, <1>3 DEF TotalOf

(* A series more, with nothing in it.                                       *)
LEMMA TotalMore ==
  ASSUME NEW some \in Seq(Series), NEW one \in Series \cup {Unset}, NEW field \in SeriesFields,
         NEW s \in Series, s[field] = 0
  PROVE  TotalOf(Append(some, s), one, field) = TotalOf(some, one, field)
<1> DEFINE then == Append(some, s)  p == Column(some, field)  q == Column(then, field)
<1>1. /\ Len(some) \in Nat /\ then \in Seq(Series) /\ Len(then) = Len(some) + 1 /\ then[Len(some) + 1] = s
      /\ \A i \in 1 .. Len(some) : then[i] = some[i]
  BY AppendProperties, LenProperties
<1>2. p \in Seq(Int) /\ Len(p) = Len(some) /\ \A i \in 1 .. Len(some) : p[i] = some[i][field]
  BY ColumnInts
<1> HIDE DEF then, p, q
<1>3. q \in Seq(Int) /\ Len(q) = Len(then) /\ \A i \in 1 .. Len(then) : q[i] = then[i][field]
  BY <1>1, ColumnInts DEF q
<1>4. Len(q) = Len(p) + 1 /\ (\A i \in 1 .. Len(p) : q[i] = p[i]) /\ q[Len(q)] = 0
  <2>1. Len(q) = Len(p) + 1 /\ Len(q) = Len(some) + 1
    BY <1>1, <1>2, <1>3
  <2>2. \A i \in 1 .. Len(some) : i \in 1 .. Len(then)
    BY <1>1
  <2>3. \A i \in 1 .. Len(p) : q[i] = p[i]
    BY <1>1, <1>2, <1>3, <2>2
  <2>4. Len(some) + 1 \in 1 .. Len(then)
    BY <1>1
  <2>5. q[Len(some) + 1] = 0
    BY <1>1, <1>3, <2>4
  <2> QED BY <2>1, <2>3, <2>5
<1>5. Added(q) = Added(p) + q[Len(q)]
  BY <1>2, <1>3, <1>4, AddedMore
<1>6. Added(p) \in Int
  BY <1>2, AddedInt
<1>7. Added(q) = Added(p)
  BY <1>4, <1>5, <1>6
<1> QED BY <1>7 DEF TotalOf, p, q, then

(* The buckets of a new series are as many as the bounds and one, and empty. *)
LEMMA NewSeries ==
  ASSUME NEW tags \in TagLists \cup {<<"overflow">>}, NEW bounds \in Seq(Int)
  PROVE  /\ Buckets(tags, bounds) \in Series /\ Buckets(tags, bounds).tags = tags
         /\ Len(Buckets(tags, bounds).counts) = Len(bounds) + 1
         /\ Buckets(tags, bounds).count = 0 /\ Buckets(tags, bounds).sum = 0
         /\ \A field \in SeriesFields : Buckets(tags, bounds)[field] = 0
         /\ Added(Buckets(tags, bounds).counts) = 0
<1> DEFINE m == Len(bounds) + 1  counts == [i \in 1 .. m |-> 0]
<1>1. m \in Nat
  BY LenProperties
<1>2. counts \in [1 .. m -> Nat] /\ \A i \in 1 .. m : counts[i] = 0
  OBVIOUS
<1>3. Buckets(tags, bounds) = [tags |-> tags, counts |-> counts, count |-> 0, sum |-> 0]
  BY DEF Buckets
<1> HIDE DEF m, counts
<1>4. counts \in Seq(Nat)
  BY <1>1, <1>2
<1>5. Len(counts) = m
  BY <1>1, <1>2, <1>4, LenProperties
<1>6. counts \in Seq(Int)
  BY <1>1, <1>2
<1>7. Added(counts) = 0
  BY <1>2, <1>5, <1>6, AddedZeros
<1>8. Buckets(tags, bounds) \in Series
  BY <1>3, <1>4 DEF Series
<1>9. \A field \in SeriesFields : Buckets(tags, bounds)[field] = 0
  BY <1>3 DEF SeriesFields
<1> QED BY <1>3, <1>5, <1>7, <1>8, <1>9 DEF m
-----------------------------------------------------------------------------
(* Where a recorder is, and what it may count on there.                     *)
Steps == {"rest", "find", "make", "bucket", "count", "sum"}
Recording == [at : Steps, tags : TagLists \cup {<< >>}, value : Int, full : BOOLEAN,
              into : Nat, read : Int]
SeriesTypes ==
    /\ layout \in Seq(Int) \cup {Unset} /\ entries \in Seq(Series)
    /\ series = Len(entries) /\ overflow \in Series \cup {Unset}
    /\ rec \in [Recorders -> Recording] /\ recorded \in Seq([tags : TagLists, value : Int])
Working(t) ==
    /\ rec[t].at # "rest" => layout # Unset /\ rec[t].tags \in TagLists
    /\ rec[t].at \in {"find", "make"} => rec[t].into = 0
    /\ rec[t].at = "make" => ~ rec[t].full
    /\ rec[t].at \in {"bucket", "count", "sum"} =>
          rec[t].into \in 0 .. Len(entries) /\ (rec[t].into = 0 => overflow # Unset)
Shape(s) == layout # Unset /\ Len(s.counts) = Len(layout) + 1
AllShaped == /\ \A i \in 1 .. Len(entries) : Shape(entries[i])
             /\ overflow # Unset => Shape(overflow)
OneSeries == \A i, j \in 1 .. Len(entries) : same_tags(entries[i].tags, entries[j].tags) => i = j

(* Who is about to make a series, who has counted a sample in and not yet   *)
(* summed it, who has found its bucket and not yet counted it.              *)
Pending == {t \in Recorders : rec[t].at \in {"find", "make"} /\ ~ rec[t].full}
Counted == {t \in Recorders : rec[t].at = "sum"}
Bucketed(i) == {t \in Recorders : rec[t].at = "count" /\ rec[t].into = i}
Capped == series + Cardinality(Pending) < MAX_SERIES + Cardinality(Recorders)

Values == [n \in DOMAIN recorded |-> recorded[n].value]
Accounts ==
    /\ TotalOf(entries, overflow, "count") = Len(recorded) + Cardinality(Counted)
    /\ TotalOf(entries, overflow, "sum") = Added(Values)
    /\ \A i \in 1 .. Len(entries) :
          Added(entries[i].counts) = entries[i].count + Cardinality(Bucketed(i))
Registry == /\ IsFiniteSet(instruments) /\ PRUNE_AT \in Nat
            /\ alive \subseteq instruments /\ Cardinality(instruments) < PRUNE_AT
SeriesInv == /\ SeriesTypes /\ (\A t \in Recorders : Working(t)) /\ AllShaped /\ OneSeries
             /\ Capped /\ Accounts
MetricsInv == SeriesInv /\ Registry
-----------------------------------------------------------------------------
(* A bucket is one of the buckets.                                          *)
LEMMA BucketIn ==
  ASSUME NEW bounds \in Seq(Int), NEW value \in Int
  PROVE  Bucket(bounds, value) \in 1 .. Len(bounds) + 1
<1> DEFINE over == {i \in DOMAIN bounds : value <= bounds[i]}
<1>1. Len(bounds) \in Nat /\ DOMAIN bounds = 1 .. Len(bounds)
  BY LenProperties
<1>2. over \in SUBSET Nat /\ over \subseteq 1 .. Len(bounds)
  BY <1>1
<1>3. Bucket(bounds, value) = IF over = {} THEN Len(bounds) + 1 ELSE First(over)
  BY DEF Bucket
<1> HIDE DEF over
<1>4. CASE over = {}
  BY <1>1, <1>3, <1>4
<1>5. CASE over # {}
  <2>1. First(over) \in 1 .. Len(bounds)
    BY <1>2, <1>5, FirstIn
  <2> QED BY <1>1, <1>3, <1>5, <2>1
<1> QED BY <1>4, <1>5

(* The search finds one of the series, or there is none with these tags.    *)
LEMMA FindIn ==
  ASSUME NEW tags, entries \in Seq(Series)
  PROVE  /\ Find(tags) \in 0 .. Len(entries)
         /\ Find(tags) = 0 => \A i \in 1 .. Len(entries) : ~ same_tags(entries[i].tags, tags)
<1> DEFINE there == {i \in DOMAIN entries : same_tags(entries[i].tags, tags)}
<1>1. Len(entries) \in Nat /\ DOMAIN entries = 1 .. Len(entries)
  BY LenProperties
<1>2. there \in SUBSET Nat /\ there \subseteq 1 .. Len(entries)
  BY <1>1
<1>3. Find(tags) = IF there = {} THEN 0 ELSE First(there)
  BY DEF Find
<1>4. there = {} => \A i \in 1 .. Len(entries) : ~ same_tags(entries[i].tags, tags)
  BY <1>1
<1> HIDE DEF there
<1>5. CASE there = {}
  BY <1>1, <1>3, <1>4, <1>5
<1>6. CASE there # {}
  <2>1. First(there) \in 1 .. Len(entries)
    BY <1>2, <1>6, FirstIn
  <2> QED BY <1>1, <1>3, <1>6, <2>1
<1> QED BY <1>5, <1>6

(* One sample more in a bucket is one more in all.                          *)
LEMMA BucketMore ==
  ASSUME NEW counts \in Seq(Nat), NEW k \in 1 .. Len(counts)
  PROVE  LET then == [counts EXCEPT ![k] = @ + 1]
         IN then \in Seq(Nat) /\ Len(then) = Len(counts) /\ Added(then) = Added(counts) + 1
<1> DEFINE then == [counts EXCEPT ![k] = @ + 1]
<1>1. Len(counts) \in Nat /\ counts \in [1 .. Len(counts) -> Nat] /\ DOMAIN counts = 1 .. Len(counts)
  BY LenProperties
<1>2. then \in [1 .. Len(counts) -> Nat] /\ then[k] = counts[k] + 1
      /\ \A i \in 1 .. Len(counts) : i # k => then[i] = counts[i]
  BY <1>1
<1> HIDE DEF then
<1>3. then \in Seq(Nat)
  BY <1>1, <1>2
<1>4. Len(then) = Len(counts)
  BY <1>1, <1>2, <1>3, LenProperties
<1>5. then \in Seq(Int) /\ counts \in Seq(Int)
  BY <1>3
<1>7. 1 \in Int /\ then[k] = counts[k] + 1 /\ \A i \in 1 .. Len(counts) : i # k => then[i] = counts[i]
  BY <1>2
<1>6. Added(then) = Added(counts) + 1
  BY <1>4, <1>5, <1>7, AddedOne
<1> QED BY <1>3, <1>4, <1>6 DEF then

(* Tags are the same in either order of asking.                             *)
LEMMA SameEitherWay ==
  ASSUME NEW one, NEW other, same_tags(one, other) PROVE same_tags(other, one)
<1>1. Range(one) \cup Range(other) = Range(other) \cup Range(one)
  OBVIOUS
<1> QED BY <1>1, Zenon DEF same_tags

(* Of the recorders somewhere, one comes, goes, or neither.                 *)
LEMMA OneMoves ==
  ASSUME NEW S \in SUBSET Recorders, NEW U \in SUBSET Recorders, NEW t \in Recorders,
         S \ {t} = U \ {t}
  PROVE  /\ Cardinality(S) \in Nat /\ Cardinality(U) \in Nat
         /\ (t \in S <=> t \in U) => Cardinality(U) = Cardinality(S)
         /\ t \notin S /\ t \in U => Cardinality(U) = Cardinality(S) + 1
         /\ t \in S /\ t \notin U => Cardinality(S) = Cardinality(U) + 1
<1>1. IsFiniteSet(S) /\ IsFiniteSet(U)
  BY MetricsAssumption, FS_Subset
<1>2. Cardinality(S) \in Nat /\ Cardinality(U) \in Nat
  BY <1>1, FS_CardinalityType
<1>3. ASSUME t \in S <=> t \in U PROVE Cardinality(U) = Cardinality(S)
  <2>1. S = U
    BY <1>3
  <2> QED BY <2>1
<1>4. ASSUME t \notin S, t \in U PROVE Cardinality(U) = Cardinality(S) + 1
  <2>1. U = S \cup {t}
    BY <1>4
  <2> QED BY <1>1, <1>4, <2>1, FS_AddElement
<1>5. ASSUME t \in S, t \notin U PROVE Cardinality(S) = Cardinality(U) + 1
  <2>1. S = U \cup {t}
    BY <1>5
  <2> QED BY <1>1, <1>5, <2>1, FS_AddElement
<1> QED BY <1>2, <1>3, <1>4, <1>5

(* What a recorder's step does to the sets of them.                         *)
LEMMA Moving ==
  ASSUME rec \in [Recorders -> Recording], NEW t \in Recorders, NEW r \in Recording,
         rec' = [rec EXCEPT ![t] = r]
  PROVE  /\ rec' \in [Recorders -> Recording] /\ rec'[t] = r
         /\ \A u \in Recorders : u # t => rec'[u] = rec[u]
         /\ Pending \in SUBSET Recorders /\ Pending' \in SUBSET Recorders
         /\ Pending \ {t} = Pending' \ {t}
         /\ t \in Pending <=> rec[t].at \in {"find", "make"} /\ ~ rec[t].full
         /\ t \in Pending' <=> r.at \in {"find", "make"} /\ ~ r.full
         /\ Counted \in SUBSET Recorders /\ Counted' \in SUBSET Recorders
         /\ Counted \ {t} = Counted' \ {t}
         /\ t \in Counted <=> rec[t].at = "sum"
         /\ t \in Counted' <=> r.at = "sum"
         /\ \A i \in Nat :
               /\ Bucketed(i) \in SUBSET Recorders /\ Bucketed(i)' \in SUBSET Recorders
               /\ Bucketed(i) \ {t} = Bucketed(i)' \ {t}
               /\ t \in Bucketed(i) <=> rec[t].at = "count" /\ rec[t].into = i
               /\ t \in Bucketed(i)' <=> r.at = "count" /\ r.into = i
<1>1. rec' \in [Recorders -> Recording] /\ rec'[t] = r
      /\ \A u \in Recorders : u # t => rec'[u] = rec[u]
  OBVIOUS
<1>2. /\ Pending \in SUBSET Recorders /\ Pending' \in SUBSET Recorders
      /\ Pending \ {t} = Pending' \ {t}
      /\ t \in Pending <=> rec[t].at \in {"find", "make"} /\ ~ rec[t].full
      /\ t \in Pending' <=> r.at \in {"find", "make"} /\ ~ r.full
  BY <1>1, Zenon DEF Pending
<1>3. /\ Counted \in SUBSET Recorders /\ Counted' \in SUBSET Recorders
      /\ Counted \ {t} = Counted' \ {t}
      /\ t \in Counted <=> rec[t].at = "sum"
      /\ t \in Counted' <=> r.at = "sum"
  BY <1>1, Zenon DEF Counted
<1>4. ASSUME NEW i \in Nat
      PROVE  /\ Bucketed(i) \in SUBSET Recorders /\ Bucketed(i)' \in SUBSET Recorders
             /\ Bucketed(i) \ {t} = Bucketed(i)' \ {t}
             /\ t \in Bucketed(i) <=> rec[t].at = "count" /\ rec[t].into = i
             /\ t \in Bucketed(i)' <=> r.at = "count" /\ r.into = i
  BY <1>1, Zenon DEF Bucketed
<1> QED BY <1>1, <1>2, <1>3, <1>4
-----------------------------------------------------------------------------
(* The others stay as they work, whatever grows meanwhile.                  *)
LEMMA OthersWork ==
  ASSUME SeriesTypes, NEW t \in Recorders, \A u \in Recorders : u # t => rec'[u] = rec[u],
         layout # Unset => layout' # Unset, overflow # Unset => overflow' # Unset,
         Len(entries) \in Nat, Len(entries') \in Nat, Len(entries) <= Len(entries'),
         \A u \in Recorders : Working(u), Working(t)'
  PROVE  \A u \in Recorders : Working(u)'
<1> SUFFICES ASSUME NEW u \in Recorders, u # t PROVE Working(u)'
  OBVIOUS
<1>1. rec'[u] = rec[u] /\ Working(u)
  OBVIOUS
<1>2. rec[u].into \in 0 .. Len(entries) => rec[u].into \in 0 .. Len(entries')
  OBVIOUS
<1> HIDE DEF SeriesTypes
<1> QED BY <1>1, <1>2, Zenon DEF Working

(* A step of another kind: no series but the one it counts on changes.      *)
LEMMA Stored ==
  ASSUME SeriesTypes, NEW t \in Recorders, rec[t].into \in 0 .. Len(entries),
         rec[t].into = 0 => overflow # Unset,
         NEW s \in Series, Store(t, s), s.tags = Into(t).tags
  PROVE  /\ entries' \in Seq(Series) /\ Len(entries') = Len(entries)
         /\ overflow' \in Series \cup {Unset} /\ (overflow' = Unset <=> overflow = Unset)
         /\ Into(t) \in Series
         /\ \A i \in 1 .. Len(entries) :
               /\ i # rec[t].into => entries'[i] = entries[i]
               /\ i = rec[t].into => entries'[i] = s /\ Into(t) = entries[i]
               /\ entries'[i].tags = entries[i].tags
         /\ overflow' = overflow \/ overflow' = s
         /\ \A field \in SeriesFields, d \in Int :
               s[field] = Into(t)[field] + d =>
                  TotalOf(entries', overflow', field) = TotalOf(entries, overflow, field) + d
<1> DEFINE k == rec[t].into
<1>1. entries \in Seq(Series) /\ overflow \in Series \cup {Unset} /\ Len(entries) \in Nat
      /\ entries \in [1 .. Len(entries) -> Series]
  BY LenProperties DEF SeriesTypes
<1>2. CASE k = 0
  <2>1. overflow' = s /\ entries' = entries /\ Into(t) = overflow /\ overflow \in Series
    BY <1>1, <1>2 DEF Store, Into
  <2>2. s # Unset /\ overflow # Unset
    BY <1>2, InSeries
  <2>3. ASSUME NEW field \in SeriesFields, NEW d \in Int, s[field] = Into(t)[field] + d
        PROVE  TotalOf(entries', overflow', field) = TotalOf(entries, overflow, field) + d
    <3>1. s[field] = Share(overflow, field) + d
      BY <2>1, <2>2, <2>3 DEF Share
    <3>2. TotalOf(entries, s, field) = TotalOf(entries, overflow, field) + d
      BY <1>1, <3>1, TotalOver
    <3> QED BY <2>1, <3>2
  <2>4. \A i \in 1 .. Len(entries) : i # k
    BY <1>1, <1>2
  <2> QED BY <1>1, <2>1, <2>2, <2>3, <2>4
<1>3. CASE k # 0
  <2>1. k \in 1 .. Len(entries)
    BY <1>1, <1>3
  <2>2. entries' = [entries EXCEPT ![k] = s] /\ overflow' = overflow /\ Into(t) = entries[k]
    BY <1>3 DEF Store, Into
  <2>3. /\ entries' \in Seq(Series) /\ Len(entries') = Len(entries)
        /\ \A field \in SeriesFields, d \in Int :
              s[field] = entries[k][field] + d =>
                 TotalOf(entries', overflow, field) = TotalOf(entries, overflow, field) + d
    <3> HIDE DEF k
    <3>1. "count" \in SeriesFields
      BY DEF SeriesFields
    <3>2. s["count"] \in Int /\ entries[k]["count"] \in Int
      BY <1>1, <2>1, <3>1, InSeries
    <3>3. s["count"] = entries[k]["count"] + (s["count"] - entries[k]["count"])
          /\ s["count"] - entries[k]["count"] \in Int
      BY <3>2
    <3>4. [entries EXCEPT ![k] = s] \in Seq(Series) /\ Len([entries EXCEPT ![k] = s]) = Len(entries)
      BY <1>1, <2>1, <3>1, <3>3, TotalAt
    <3>5. ASSUME NEW field \in SeriesFields, NEW d \in Int, s[field] = entries[k][field] + d
          PROVE  TotalOf([entries EXCEPT ![k] = s], overflow, field) = TotalOf(entries, overflow, field) + d
      BY <1>1, <2>1, <3>5, TotalAt
    <3> QED BY <2>2, <3>4, <3>5
  <2>4. \A i \in 1 .. Len(entries) : (i # k => entries'[i] = entries[i]) /\ (i = k => entries'[i] = s)
    BY <1>1, <2>1, <2>2
  <2>5. entries[k] \in Series
    BY <1>1, <2>1
  <2> QED BY <1>1, <2>1, <2>2, <2>3, <2>4, <2>5
<1> QED BY <1>2, <1>3

(* And then the series keep their shape and their tags.                     *)
LEMMA StoredKeeps ==
  ASSUME SeriesTypes, AllShaped, OneSeries, layout' = layout, NEW s \in Series, NEW t \in Recorders,
         Len(s.counts) = Len(Into(t).counts), Shape(Into(t)),
         Len(entries') = Len(entries),
         \A i \in 1 .. Len(entries) : entries'[i] = entries[i] \/ entries'[i] = s,
         \A i \in 1 .. Len(entries) : entries'[i].tags = entries[i].tags,
         overflow' = overflow \/ overflow' = s
  PROVE  AllShaped' /\ OneSeries'
<1>1. \A x : Shape(x)' <=> Shape(x)
  BY DEF Shape
<1>2. Shape(s)
  BY DEF Shape
<1>3. AllShaped'
  BY <1>1, <1>2, Zenon DEF AllShaped, Shape
<1>4. OneSeries'
  <2> SUFFICES ASSUME NEW i \in 1 .. Len(entries), NEW j \in 1 .. Len(entries),
                      same_tags(entries'[i].tags, entries'[j].tags)
               PROVE  i = j
    BY Zenon DEF OneSeries
  <2>1. entries'[i].tags = entries[i].tags /\ entries'[j].tags = entries[j].tags
    OBVIOUS
  <2>2. same_tags(entries[i].tags, entries[j].tags)
    BY <2>1, Zenon
  <2> QED BY <2>2, Zenon DEF OneSeries
<1> QED BY <1>3, <1>4
-----------------------------------------------------------------------------
(* Once there are bounds they stay, and before there is no series.          *)
LEMMA BoundsSet ==
  ASSUME SeriesTypes, AllShaped, NEW bounds \in Seq(Int), layout' = Unless(layout, bounds),
         entries' = entries, overflow' = overflow
  PROVE  layout' \in Seq(Int) /\ layout' # Unset /\ AllShaped'
<1>1. layout' \in Seq(Int) /\ layout' # Unset
  BY MetricsAssumption DEF SeriesTypes, Unless
<1>2. layout # Unset => layout' = layout
  BY Zenon DEF Unless
<1>3. \A x : Shape(x) => Shape(x)'
  BY <1>2, Zenon DEF Shape
<1>4. AllShaped'
  BY <1>3, Zenon DEF AllShaped
<1> QED BY <1>1, <1>4

(* Who counts nothing leaves the accounts as they are.                      *)
LEMMA AccountsStay ==
  ASSUME Accounts, entries' = entries, overflow' = overflow, recorded' = recorded,
         Cardinality(Counted') = Cardinality(Counted),
         \A i \in 1 .. Len(entries) : Cardinality(Bucketed(i)') = Cardinality(Bucketed(i))
  PROVE  Accounts'
BY Zenon DEF Accounts, Values

(* The bounds are set before anything is recorded, or not at all.           *)
LEMMA WithBucketsKeeps ==
  ASSUME SeriesInv, WithBuckets PROVE SeriesInv'
<1>1. PICK bounds \in Layouts : layout' = Unless(layout, bounds)
  BY Zenon DEF WithBuckets
<1>2. UNCHANGED <<entries, series, overflow, rec, recorded>>
  BY Zenon DEF WithBuckets
<1>3. bounds \in Seq(Int)
  BY MetricsAssumption
<1>4. SeriesTypes /\ AllShaped /\ OneSeries /\ Capped /\ Accounts
  BY Zenon DEF SeriesInv
<1>5. layout' \in Seq(Int) /\ layout' # Unset /\ AllShaped'
  BY <1>1, <1>2, <1>3, <1>4, BoundsSet
<1>6. SeriesTypes'
  BY <1>2, <1>4, <1>5, Zenon DEF SeriesTypes
<1>7. \A t \in Recorders : Working(t)'
  BY <1>2, <1>5, Zenon DEF SeriesInv, Working
<1>8. OneSeries' /\ Capped' /\ Accounts'
  BY <1>2, <1>4, Zenon DEF OneSeries, Capped, Pending, Accounts, Counted, Bucketed, Values
<1> QED BY <1>5, <1>6, <1>7, <1>8, Zenon DEF SeriesInv

(* A record begins: it may make a series only if the cap was not reached.   *)
LEMMA RecordKeeps ==
  ASSUME SeriesInv, NEW t \in Recorders, RecordWithTags(t) PROVE SeriesInv'
<1>1. PICK tags \in TagLists, value \in Samples :
         rec' = [rec EXCEPT ![t] = [NotRecording EXCEPT !.at = "find", !.tags = tags,
                                       !.value = value, !.full = series >= MAX_SERIES]]
  BY DEF RecordWithTags
<1> DEFINE r == [NotRecording EXCEPT !.at = "find", !.tags = tags, !.value = value,
                                    !.full = series >= MAX_SERIES]
<1>2. rec' = [rec EXCEPT ![t] = r]
  BY <1>1
<1>3. r \in Recording /\ r.at = "find" /\ r.tags \in TagLists /\ r.into = 0
      /\ (r.full <=> series >= MAX_SERIES)
  <2>1. value \in Int
    BY MetricsAssumption
  <2>2. (series >= MAX_SERIES) \in BOOLEAN
    OBVIOUS
  <2>3. NotRecording \in Recording /\ NotRecording.into = 0
    BY DEF NotRecording, Recording, Steps
  <2>4. ASSUME NEW full \in BOOLEAN, NEW s \in Recording, s.into = 0,
               NEW v, v = [s EXCEPT !.at = "find", !.tags = tags, !.value = value, !.full = full]
        PROVE  v \in Recording /\ v.at = "find" /\ v.tags \in TagLists /\ v.into = 0 /\ v.full = full
    BY <2>1, <2>4 DEF Recording, Steps
  <2> DEFINE b == series >= MAX_SERIES
  <2>5. r = [NotRecording EXCEPT !.at = "find", !.tags = tags, !.value = value, !.full = b]
    OBVIOUS
  <2>6. b \in BOOLEAN
    BY <2>2
  <2> HIDE DEF r, b
  <2>7. r \in Recording /\ r.at = "find" /\ r.tags \in TagLists /\ r.into = 0 /\ r.full = b
    BY <2>3, <2>4, <2>5, <2>6
  <2>8. r.full <=> series >= MAX_SERIES
    BY <2>7, Zenon DEF b
  <2> QED BY <2>7, <2>8
<1> HIDE DEF r
<1>4. /\ rec[t].at = "rest" /\ layout' = Unless(layout, DEFAULT_BOUNDS)
      /\ UNCHANGED <<entries, series, overflow, recorded>>
  BY DEF RecordWithTags, RecAt
<1>5. SeriesTypes /\ AllShaped /\ OneSeries /\ Capped /\ Accounts /\ \A u \in Recorders : Working(u)
  BY Zenon DEF SeriesInv
<1>6. DEFAULT_BOUNDS \in Seq(Int)
  BY MetricsAssumption
<1>7. layout' \in Seq(Int) /\ layout' # Unset /\ AllShaped'
  BY <1>4, <1>5, <1>6, BoundsSet
<1>8. rec \in [Recorders -> Recording] /\ Len(entries) \in Nat /\ series = Len(entries)
  BY <1>5, LenProperties DEF SeriesTypes
<1>9. /\ rec' \in [Recorders -> Recording] /\ rec'[t] = r
      /\ \A u \in Recorders : u # t => rec'[u] = rec[u]
      /\ Pending \in SUBSET Recorders /\ Pending' \in SUBSET Recorders
      /\ Pending \ {t} = Pending' \ {t} /\ t \notin Pending /\ (t \in Pending' <=> ~ r.full)
      /\ Counted \in SUBSET Recorders /\ Counted' \in SUBSET Recorders
      /\ Counted \ {t} = Counted' \ {t} /\ t \notin Counted /\ t \notin Counted'
      /\ \A i \in Nat : /\ Bucketed(i) \in SUBSET Recorders /\ Bucketed(i)' \in SUBSET Recorders
                        /\ Bucketed(i) \ {t} = Bucketed(i)' \ {t}
                        /\ t \notin Bucketed(i) /\ t \notin Bucketed(i)'
  BY <1>2, <1>3, <1>4, <1>8, Moving
<1>10. SeriesTypes'
  BY <1>4, <1>5, <1>7, <1>9, Zenon DEF SeriesTypes
<1>11. \A u \in Recorders : Working(u)'
  <2>1. Working(t)'
    BY <1>3, <1>7, <1>9 DEF Working
  <2>2. Len(entries) <= Len(entries') /\ Len(entries') \in Nat
    BY <1>4, <1>8
  <2> QED BY <1>4, <1>5, <1>7, <1>8, <1>9, <2>1, <2>2, OthersWork
<1>12. Capped'
  <2>1. /\ Cardinality(Pending) \in Nat /\ Cardinality(Pending') \in Nat
        /\ (t \in Pending <=> t \in Pending') => Cardinality(Pending') = Cardinality(Pending)
        /\ t \notin Pending /\ t \in Pending' => Cardinality(Pending') = Cardinality(Pending) + 1
    BY <1>9, OneMoves
  <2>2. Cardinality(Pending') <= Cardinality(Recorders) /\ Cardinality(Recorders) \in Nat
    BY <1>9, MetricsAssumption, FS_Subset, FS_CardinalityType
  <2>3. MAX_SERIES \in Nat
    BY MetricsAssumption
  <2>4. series + Cardinality(Pending) < MAX_SERIES + Cardinality(Recorders)
    BY <1>5 DEF Capped
  <2>5. CASE r.full
    <3>1. Cardinality(Pending') = Cardinality(Pending)
      BY <1>9, <2>1, <2>5
    <3> QED BY <1>4, <2>4, <3>1 DEF Capped
  <2>6. CASE ~ r.full
    <3>1. series < MAX_SERIES
      BY <1>3, <1>8, <2>3, <2>6
    <3>2. series + Cardinality(Pending') < MAX_SERIES + Cardinality(Recorders)
      BY <1>8, <2>1, <2>2, <2>3, <3>1
    <3> QED BY <1>4, <3>2 DEF Capped
  <2> QED BY <2>5, <2>6
<1>13. Accounts'
  <2>1. Cardinality(Counted') = Cardinality(Counted)
    BY <1>9, OneMoves
  <2>2. ASSUME NEW i \in 1 .. Len(entries) PROVE Cardinality(Bucketed(i)') = Cardinality(Bucketed(i))
    <3>1. i \in Nat
      BY <1>8
    <3> QED BY <1>9, <3>1, OneMoves
  <2> QED BY <1>4, <1>5, <2>1, <2>2, AccountsStay
<1> QED BY <1>4, <1>5, <1>7, <1>10, <1>11, <1>12, <1>13, Zenon DEF SeriesInv, OneSeries

(* On the way to its series a recorder leaves the accounts alone, and is    *)
(* pending no more once it has one.                                         *)
LEMMA Places ==
  ASSUME rec \in [Recorders -> Recording], NEW t \in Recorders, NEW r \in Recording,
         rec' = [rec EXCEPT ![t] = r], rec[t].at \in {"find", "make"},
         r.at \in {"make", "bucket"}, r.full = rec[t].full
  PROVE  /\ rec' \in [Recorders -> Recording] /\ rec'[t] = r
         /\ \A u \in Recorders : u # t => rec'[u] = rec[u]
         /\ Cardinality(Counted') = Cardinality(Counted)
         /\ \A i \in Nat : Cardinality(Bucketed(i)') = Cardinality(Bucketed(i))
         /\ Cardinality(Pending) \in Nat /\ Cardinality(Pending') \in Nat
         /\ Cardinality(Pending') <= Cardinality(Pending)
         /\ ~ r.full /\ r.at = "bucket" => Cardinality(Pending) = Cardinality(Pending') + 1
<1>1. /\ rec' \in [Recorders -> Recording] /\ rec'[t] = r
      /\ \A u \in Recorders : u # t => rec'[u] = rec[u]
      /\ Pending \in SUBSET Recorders /\ Pending' \in SUBSET Recorders
      /\ Pending \ {t} = Pending' \ {t}
      /\ (t \in Pending <=> ~ rec[t].full) /\ (t \in Pending' <=> r.at = "make" /\ ~ r.full)
      /\ Counted \in SUBSET Recorders /\ Counted' \in SUBSET Recorders
      /\ Counted \ {t} = Counted' \ {t} /\ t \notin Counted /\ t \notin Counted'
      /\ \A i \in Nat : /\ Bucketed(i) \in SUBSET Recorders /\ Bucketed(i)' \in SUBSET Recorders
                        /\ Bucketed(i) \ {t} = Bucketed(i)' \ {t}
                        /\ t \notin Bucketed(i) /\ t \notin Bucketed(i)'
  BY Moving
<1>2. Cardinality(Counted') = Cardinality(Counted)
  BY <1>1, OneMoves
<1>3. ASSUME NEW i \in Nat PROVE Cardinality(Bucketed(i)') = Cardinality(Bucketed(i))
  BY <1>1, OneMoves
<1>4. /\ Cardinality(Pending) \in Nat /\ Cardinality(Pending') \in Nat
      /\ (t \in Pending <=> t \in Pending') => Cardinality(Pending') = Cardinality(Pending)
      /\ t \in Pending /\ t \notin Pending' => Cardinality(Pending) = Cardinality(Pending') + 1
  BY <1>1, OneMoves
<1>5. t \in Pending' => t \in Pending
  BY <1>1
<1>6. Cardinality(Pending') <= Cardinality(Pending)
  BY <1>4, <1>5
<1>7. ~ r.full /\ r.at = "bucket" => t \in Pending /\ t \notin Pending'
  BY <1>1
<1> QED BY <1>1, <1>2, <1>3, <1>4, <1>6, <1>7

(* A record finds its series, the overflow one, or that it must make one.   *)
LEMMA FindKeeps ==
  ASSUME SeriesInv, NEW t \in Recorders, FindSeries(t) PROVE SeriesInv'
<1> DEFINE found == Find(rec[t].tags)
           r == IF found # 0 THEN [rec[t] EXCEPT !.at = "bucket", !.into = found]
                             ELSE [rec[t] EXCEPT !.at = IF rec[t].full THEN "bucket" ELSE "make"]
<1>1. SeriesTypes /\ AllShaped /\ OneSeries /\ Capped /\ Accounts /\ \A u \in Recorders : Working(u)
  BY Zenon DEF SeriesInv
<1>2. /\ rec \in [Recorders -> Recording] /\ Len(entries) \in Nat /\ series = Len(entries)
      /\ layout \in Seq(Int) \cup {Unset} /\ overflow \in Series \cup {Unset}
      /\ entries \in Seq(Series) /\ recorded \in Seq([tags : TagLists, value : Int])
  BY <1>1, LenProperties DEF SeriesTypes
<1>3. rec[t].at = "find" /\ UNCHANGED <<layout, entries, series, recorded>>
  BY DEF FindSeries, RecAt
<1>4. layout # Unset /\ rec[t].tags \in TagLists /\ rec[t].into = 0 /\ rec[t] \in Recording
  BY <1>1, <1>2, <1>3 DEF Working
<1>5. found \in 0 .. Len(entries)
  BY <1>2, FindIn
<1>6. rec' = [rec EXCEPT ![t] = r]
  BY <1>2 DEF FindSeries, RecGoto
<1>7. overflow' = IF found = 0 /\ rec[t].full THEN Unless(overflow, Buckets(<<"overflow">>, layout))
                                             ELSE overflow
  BY DEF FindSeries
<1> HIDE DEF found
<1>8. /\ r \in Recording /\ r.at \in {"make", "bucket"} /\ r.full = rec[t].full
      /\ r.tags = rec[t].tags /\ r.into = found
      /\ (r.at = "make" <=> found = 0 /\ ~ rec[t].full)
  <2>1. CASE found # 0
    <3>1. r = [rec[t] EXCEPT !.at = "bucket", !.into = found] /\ found \in Nat
      BY <1>2, <1>5, <2>1
    <3> HIDE DEF r
    <3> QED BY <1>4, <2>1, <3>1 DEF Recording, Steps
  <2>2. CASE found = 0 /\ rec[t].full
    <3>1. r = [rec[t] EXCEPT !.at = "bucket"]
      BY <2>2
    <3> HIDE DEF r
    <3> QED BY <1>4, <2>2, <3>1 DEF Recording, Steps
  <2>3. CASE found = 0 /\ ~ rec[t].full
    <3>1. r = [rec[t] EXCEPT !.at = "make"]
      BY <2>3
    <3> HIDE DEF r
    <3> QED BY <1>4, <2>3, <3>1 DEF Recording, Steps
  <2> QED BY <2>1, <2>2, <2>3
<1> HIDE DEF r
<1>9. /\ rec' \in [Recorders -> Recording] /\ rec'[t] = r
      /\ \A u \in Recorders : u # t => rec'[u] = rec[u]
      /\ Cardinality(Counted') = Cardinality(Counted)
      /\ \A i \in Nat : Cardinality(Bucketed(i)') = Cardinality(Bucketed(i))
      /\ Cardinality(Pending) \in Nat /\ Cardinality(Pending') \in Nat
      /\ Cardinality(Pending') <= Cardinality(Pending)
  BY <1>2, <1>3, <1>6, <1>8, Places
<1> DEFINE new == Buckets(<<"overflow">>, layout)
<1>10. new \in Series /\ Len(new.counts) = Len(layout) + 1 /\ new # Unset
       /\ \A field \in SeriesFields : new[field] = 0
  BY <1>2, <1>4, NewSeries, InSeries
<1>11. /\ overflow' = overflow \/ (overflow = Unset /\ overflow' = new)
       /\ overflow' \in Series \cup {Unset} /\ (overflow # Unset => overflow' # Unset)
       /\ found = 0 /\ rec[t].full => overflow' # Unset
  BY <1>2, <1>7, <1>10, Zenon DEF Unless
<1> HIDE DEF new
<1>12. SeriesTypes'
  BY <1>2, <1>3, <1>9, <1>11, Zenon DEF SeriesTypes
<1>13. \A u \in Recorders : Working(u)'
  <2>1. Working(t)'
    BY <1>3, <1>4, <1>5, <1>8, <1>9, <1>11 DEF Working
  <2>2. Len(entries) <= Len(entries') /\ Len(entries') \in Nat
    BY <1>2, <1>3
  <2> QED BY <1>1, <1>2, <1>3, <1>9, <1>11, <2>1, <2>2, OthersWork
<1>14. AllShaped'
  <2>1. \A x : Shape(x)' <=> Shape(x)
    BY <1>3, Zenon DEF Shape
  <2>2. Shape(new)
    BY <1>4, <1>10, Zenon DEF Shape
  <2> QED BY <1>1, <1>3, <1>11, <2>1, <2>2, Zenon DEF AllShaped
<1>15. OneSeries' /\ Capped'
  <2>1. Capped'
    <3>1. series + Cardinality(Pending) < MAX_SERIES + Cardinality(Recorders)
      BY <1>1 DEF Capped
    <3>2. Cardinality(Recorders) \in Nat /\ MAX_SERIES \in Nat
      BY MetricsAssumption, FS_CardinalityType
    <3>3. series' + Cardinality(Pending') < MAX_SERIES + Cardinality(Recorders)
      BY <1>2, <1>3, <1>9, <3>1, <3>2
    <3> QED BY <3>3 DEF Capped
  <2> QED BY <1>1, <1>3, <2>1, Zenon DEF OneSeries
<1>16. Accounts'
  <2>1. ASSUME NEW field \in SeriesFields
        PROVE  TotalOf(entries', overflow', field) = TotalOf(entries, overflow, field)
    <3>1. CASE overflow' = overflow
      BY <1>3, <3>1
    <3>2. CASE overflow = Unset /\ overflow' = new
      <4>1. new[field] = Share(overflow, field) + 0 /\ 0 \in Int
        BY <1>10, <3>2 DEF Share
      <4>2. TotalOf(entries, new, field) = TotalOf(entries, overflow, field) + 0
        BY <1>2, <1>10, <4>1, TotalOver
      <4>4. TotalOf(entries, overflow, field) \in Int
        BY <1>2, TotalInt
      <4> QED BY <1>3, <3>2, <4>2, <4>4
    <3> QED BY <1>11, <3>1, <3>2
  <2>2. "count" \in SeriesFields /\ "sum" \in SeriesFields
    BY DEF SeriesFields
  <2>3. \A i \in 1 .. Len(entries) : Cardinality(Bucketed(i)') = Cardinality(Bucketed(i))
    BY <1>2, <1>9
  <2> QED BY <1>1, <1>3, <1>9, <2>1, <2>2, <2>3, Zenon DEF Accounts, Values
<1> QED BY <1>12, <1>13, <1>14, <1>15, <1>16, Zenon DEF SeriesInv

(* A series is made, unless it has been made meanwhile.                     *)
LEMMA MakeKeeps ==
  ASSUME SeriesInv, NEW t \in Recorders, MakeSeries(t) PROVE SeriesInv'
<1> DEFINE found == Find(rec[t].tags)
           into == IF found # 0 THEN found ELSE Len(entries')
           r == [rec[t] EXCEPT !.at = "bucket", !.into = into]
           new == Buckets(rec[t].tags, layout)
<1>1. SeriesTypes /\ AllShaped /\ OneSeries /\ Capped /\ Accounts /\ \A u \in Recorders : Working(u)
  BY Zenon DEF SeriesInv
<1>2. /\ rec \in [Recorders -> Recording] /\ Len(entries) \in Nat /\ series = Len(entries)
      /\ layout \in Seq(Int) \cup {Unset} /\ overflow \in Series \cup {Unset}
      /\ entries \in Seq(Series) /\ recorded \in Seq([tags : TagLists, value : Int])
  BY <1>1, LenProperties DEF SeriesTypes
<1>3. rec[t].at = "make" /\ UNCHANGED <<layout, overflow, recorded>>
  BY DEF MakeSeries, RecAt
<1>4. layout \in Seq(Int) /\ layout # Unset /\ rec[t].tags \in TagLists /\ rec[t].into = 0
      /\ ~ rec[t].full /\ rec[t] \in Recording
  BY <1>1, <1>2, <1>3 DEF Working
<1>5. found \in 0 .. Len(entries)
      /\ (found = 0 => \A i \in 1 .. Len(entries) : ~ same_tags(entries[i].tags, rec[t].tags))
  BY <1>2, FindIn
<1>6. rec' = [rec EXCEPT ![t] = r]
  BY <1>2 DEF MakeSeries
<1>7. IF found # 0 THEN UNCHANGED <<entries, series>>
                   ELSE entries' = Append(entries, new) /\ series' = series + 1
  BY DEF MakeSeries, Pushed
<1> HIDE DEF found
<1>8. /\ new \in Series /\ new.tags = rec[t].tags /\ Len(new.counts) = Len(layout) + 1
      /\ new.count = 0 /\ Added(new.counts) = 0 /\ \A field \in SeriesFields : new[field] = 0
  BY <1>4, NewSeries
<1> HIDE DEF new
<1>9. ASSUME found = 0
      PROVE  /\ entries' \in Seq(Series) /\ Len(entries') = Len(entries) + 1
             /\ entries'[Len(entries) + 1] = new
             /\ \A i \in 1 .. Len(entries) : entries'[i] = entries[i]
  <2>1. entries' = Append(entries, new)
    BY <1>7, <1>9
  <2> QED BY <1>2, <1>8, <2>1, AppendProperties
<1>10. /\ entries' \in Seq(Series) /\ Len(entries') \in Nat /\ Len(entries) <= Len(entries')
       /\ series' = Len(entries') /\ series' <= series + 1 /\ into \in 1 .. Len(entries')
       /\ \A i \in 1 .. Len(entries) : entries'[i] = entries[i]
  <2>1. CASE found # 0
    BY <1>2, <1>5, <1>7, <2>1
  <2>2. CASE found = 0
    BY <1>2, <1>7, <1>9, <2>2
  <2> QED BY <2>1, <2>2
<1> HIDE DEF into
<1>11. /\ r \in Recording /\ r.at = "bucket" /\ r.full = rec[t].full
       /\ r.tags = rec[t].tags /\ r.into = into
  <2>1. into \in Nat
    BY <1>10
  <2> QED BY <1>4, <2>1 DEF Recording, Steps
<1> HIDE DEF r
<1>12. /\ rec' \in [Recorders -> Recording] /\ rec'[t] = r
       /\ \A u \in Recorders : u # t => rec'[u] = rec[u]
       /\ Cardinality(Counted') = Cardinality(Counted)
       /\ \A i \in Nat : Cardinality(Bucketed(i)') = Cardinality(Bucketed(i))
       /\ Cardinality(Pending) \in Nat /\ Cardinality(Pending') \in Nat
       /\ Cardinality(Pending) = Cardinality(Pending') + 1
  BY <1>2, <1>3, <1>4, <1>6, <1>11, Places
<1>13. SeriesTypes'
  BY <1>2, <1>3, <1>10, <1>12, Zenon DEF SeriesTypes
<1>14. \A u \in Recorders : Working(u)'
  <2>1. Working(t)'
    BY <1>3, <1>4, <1>10, <1>11, <1>12 DEF Working
  <2> QED BY <1>1, <1>2, <1>3, <1>10, <1>12, <2>1, OthersWork
<1>15. Capped'
  <2>1. series + Cardinality(Pending) < MAX_SERIES + Cardinality(Recorders)
    BY <1>1 DEF Capped
  <2>2. Cardinality(Recorders) \in Nat /\ MAX_SERIES \in Nat
    BY MetricsAssumption, FS_CardinalityType
  <2>3. series' + Cardinality(Pending') < MAX_SERIES + Cardinality(Recorders)
    BY <1>2, <1>10, <1>12, <2>1, <2>2
  <2> QED BY <2>3 DEF Capped
<1>16. CASE found # 0
  <2>1. UNCHANGED <<entries, layout, overflow, recorded>>
    BY <1>3, <1>7, <1>16
  <2>2. AllShaped' /\ OneSeries'
    BY <1>1, <2>1, Zenon DEF AllShaped, Shape, OneSeries
  <2>3. \A i \in 1 .. Len(entries) : Cardinality(Bucketed(i)') = Cardinality(Bucketed(i))
    BY <1>2, <1>12
  <2>4. Accounts'
    BY <1>1, <1>12, <2>1, <2>3, AccountsStay
  <2> QED BY <1>13, <1>14, <1>15, <2>2, <2>4, Zenon DEF SeriesInv
<1>17. CASE found = 0
  <2> DEFINE m == Len(entries) + 1
  <2>1. \A i \in 1 .. Len(entries') : i = m \/ i \in 1 .. Len(entries)
    BY <1>2, <1>9, <1>17
  <2>2. entries'[m] = new /\ Len(entries') = m /\ m \in Nat /\ m \notin 1 .. Len(entries)
    BY <1>2, <1>9, <1>17
  <2> HIDE DEF m
  <2>3. AllShaped'
    <3>1. \A x : Shape(x)' <=> Shape(x)
      BY <1>3, Zenon DEF Shape
    <3>2. Shape(new)
      BY <1>4, <1>8, Zenon DEF Shape
    <3> QED BY <1>1, <1>3, <1>10, <2>1, <2>2, <3>1, <3>2, Zenon DEF AllShaped
  <2>4. OneSeries'
    <3> SUFFICES ASSUME NEW i \in 1 .. Len(entries'), NEW j \in 1 .. Len(entries'),
                        same_tags(entries'[i].tags, entries'[j].tags)
                 PROVE  i = j
      BY Zenon DEF OneSeries
    <3>1. \A k \in 1 .. Len(entries) : ~ same_tags(entries[k].tags, new.tags)
      BY <1>5, <1>8, <1>17
    <3>2. \A k \in 1 .. Len(entries) : ~ same_tags(new.tags, entries[k].tags)
      BY <3>1, SameEitherWay
    <3>3. CASE i = m /\ j = m
      BY <3>3
    <3>4. CASE i = m /\ j # m
      BY <1>10, <2>1, <2>2, <3>2, <3>4, Zenon
    <3>5. CASE i # m /\ j = m
      BY <1>10, <2>1, <2>2, <3>1, <3>5, Zenon
    <3>6. CASE i # m /\ j # m
      BY <1>1, <1>10, <2>1, <3>6, Zenon DEF OneSeries
    <3> QED BY <3>3, <3>4, <3>5, <3>6
  <2>5. Accounts'
    <3>1. "count" \in SeriesFields /\ "sum" \in SeriesFields
      BY DEF SeriesFields
    <3>2. \A field \in SeriesFields :
             TotalOf(entries', overflow', field) = TotalOf(entries, overflow, field)
      BY <1>2, <1>3, <1>7, <1>8, <1>17, TotalMore
    <3>3. /\ TotalOf(entries', overflow', "count") = Len(recorded') + Cardinality(Counted')
          /\ TotalOf(entries', overflow', "sum") = Added(Values')
      BY <1>1, <1>3, <1>12, <3>1, <3>2, Zenon DEF Accounts, Values
    <3>4. ASSUME NEW i \in 1 .. Len(entries')
          PROVE  Added(entries'[i].counts) = entries'[i].count + Cardinality(Bucketed(i)')
      <4>1. CASE i \in 1 .. Len(entries)
        <5>1. i \in Nat /\ entries'[i] = entries[i]
          BY <1>2, <1>10, <4>1
        <5>2. Added(entries[i].counts) = entries[i].count + Cardinality(Bucketed(i))
          BY <1>1, <4>1, Zenon DEF Accounts
        <5> QED BY <1>12, <5>1, <5>2
      <4>2. CASE i = m
        <5>1. Bucketed(m) = {}
          BY <1>1, <2>2 DEF Bucketed, Working
        <5>2. Cardinality(Bucketed(m)) = 0
          BY <5>1, FS_EmptySet
        <5> QED BY <1>8, <1>12, <2>2, <4>2, <5>2
      <4> QED BY <2>1, <4>1, <4>2
    <3> QED BY <3>3, <3>4, Zenon DEF Accounts
  <2> QED BY <1>13, <1>14, <1>15, <2>3, <2>4, <2>5, Zenon DEF SeriesInv
<1> QED BY <1>16, <1>17

(* What is known of a recorder that counts on its series.                   *)
LEMMA Counting ==
  ASSUME SeriesInv, NEW t \in Recorders, rec[t].at \in {"bucket", "count", "sum"}
  PROVE  /\ SeriesTypes /\ AllShaped /\ OneSeries /\ Capped /\ Accounts /\ \A u \in Recorders : Working(u)
         /\ rec \in [Recorders -> Recording] /\ Len(entries) \in Nat /\ series = Len(entries)
         /\ layout \in Seq(Int) /\ rec[t] \in Recording /\ rec[t].tags \in TagLists
         /\ rec[t].into \in 0 .. Len(entries) /\ (rec[t].into = 0 => overflow # Unset)
         /\ Into(t) \in Series /\ Shape(Into(t)) /\ t \notin Pending
         /\ entries \in Seq(Series) /\ overflow \in Series \cup {Unset}
<1>1. SeriesTypes /\ AllShaped /\ OneSeries /\ Capped /\ Accounts /\ \A u \in Recorders : Working(u)
  BY Zenon DEF SeriesInv
<1>2. /\ rec \in [Recorders -> Recording] /\ Len(entries) \in Nat /\ series = Len(entries)
      /\ layout \in Seq(Int) \cup {Unset} /\ rec[t] \in Recording
      /\ entries \in Seq(Series) /\ overflow \in Series \cup {Unset}
  BY <1>1, LenProperties DEF SeriesTypes
<1>3. /\ rec[t].into \in 0 .. Len(entries) /\ (rec[t].into = 0 => overflow # Unset)
      /\ layout # Unset /\ rec[t].tags \in TagLists
  BY <1>1 DEF Working
<1>4. Into(t) \in Series /\ Shape(Into(t))
  <2>1. CASE rec[t].into = 0
    BY <1>1, <1>2, <1>3, <2>1 DEF Into, AllShaped
  <2>2. CASE rec[t].into # 0
    <3>1. rec[t].into \in 1 .. Len(entries)
      BY <1>2, <1>3, <2>2
    <3> QED BY <1>1, <1>2, <2>2, <3>1 DEF Into, AllShaped
  <2> QED BY <2>1, <2>2
<1>5. t \notin Pending
  BY DEF Pending
<1> QED BY <1>1, <1>2, <1>3, <1>4, <1>5

(* A recorder that is not about to make a series keeps the cap as it is.    *)
LEMMA CapStays ==
  ASSUME Capped, series' = series, rec \in [Recorders -> Recording],
         NEW t \in Recorders, t \notin Pending,
         NEW r \in Recording, rec' = [rec EXCEPT ![t] = r], r.at \notin {"find", "make"}
  PROVE  Capped'
<1>1. /\ Pending \in SUBSET Recorders /\ Pending' \in SUBSET Recorders
      /\ Pending \ {t} = Pending' \ {t} /\ t \notin Pending'
  BY Moving
<1>2. Cardinality(Pending') = Cardinality(Pending)
  BY <1>1, OneMoves
<1> QED BY <1>2, Zenon DEF Capped

(* The bucket counts the sample before the series does.                     *)
LEMMA CountBucketKeeps ==
  ASSUME SeriesInv, NEW t \in Recorders, CountBucket(t) PROVE SeriesInv'
<1> DEFINE k == Bucket(layout, rec[t].value)
           s == [Into(t) EXCEPT !.counts[k] = @ + 1]
           r == [rec[t] EXCEPT !.at = "count"]
<1>1. /\ rec[t].at = "bucket" /\ Store(t, s) /\ rec' = [rec EXCEPT ![t].at = "count"]
      /\ UNCHANGED <<layout, series, recorded>>
  BY DEF CountBucket, RecAt, RecGoto
<1>2. /\ SeriesTypes /\ AllShaped /\ OneSeries /\ Capped /\ Accounts /\ \A u \in Recorders : Working(u)
      /\ rec \in [Recorders -> Recording] /\ Len(entries) \in Nat /\ series = Len(entries)
      /\ layout \in Seq(Int) /\ rec[t] \in Recording /\ rec[t].tags \in TagLists
      /\ rec[t].into \in 0 .. Len(entries) /\ (rec[t].into = 0 => overflow # Unset)
      /\ Into(t) \in Series /\ Shape(Into(t)) /\ t \notin Pending
  BY <1>1, Counting
<1>3. k \in 1 .. Len(Into(t).counts)
  <2>1. rec[t].value \in Int
    BY <1>2 DEF Recording
  <2>2. k \in 1 .. Len(layout) + 1
    BY <1>2, <2>1, BucketIn
  <2> QED BY <1>2, <2>2 DEF Shape
<1> HIDE DEF k
<1>4. Into(t).counts \in Seq(Nat)
  BY <1>2, InSeries
<1> DEFINE counts == [Into(t).counts EXCEPT ![k] = @ + 1]
<1>5. counts \in Seq(Nat) /\ Len(counts) = Len(Into(t).counts) /\ Added(counts) = Added(Into(t).counts) + 1
  BY <1>3, <1>4, BucketMore
<1>6. s = [Into(t) EXCEPT !.counts = counts]
  OBVIOUS
<1> HIDE DEF counts
<1>7. s \in Series /\ s.counts = counts /\ s.tags = Into(t).tags /\ s.count = Into(t).count
      /\ \A field \in SeriesFields : s[field] = Into(t)[field]
  BY <1>2, <1>5, <1>6 DEF Series, SeriesFields
<1>8. rec' = [rec EXCEPT ![t] = r]
  BY <1>1, <1>2
<1>9. r \in Recording /\ r.at = "count" /\ r.into = rec[t].into /\ r.tags = rec[t].tags
  BY <1>2 DEF Recording, Steps
<1> HIDE DEF s, r
<1>10. /\ entries' \in Seq(Series) /\ Len(entries') = Len(entries)
       /\ overflow' \in Series \cup {Unset} /\ (overflow' = Unset <=> overflow = Unset)
       /\ \A i \in 1 .. Len(entries) :
             /\ i # rec[t].into => entries'[i] = entries[i]
             /\ i = rec[t].into => entries'[i] = s /\ Into(t) = entries[i]
             /\ entries'[i].tags = entries[i].tags
       /\ overflow' = overflow \/ overflow' = s
       /\ \A field \in SeriesFields, d \in Int :
             s[field] = Into(t)[field] + d =>
                TotalOf(entries', overflow', field) = TotalOf(entries, overflow, field) + d
  BY <1>1, <1>2, <1>7, Stored
<1>11. AllShaped' /\ OneSeries'
  <2>1. \A i \in 1 .. Len(entries) : entries'[i] = entries[i] \/ entries'[i] = s
    BY <1>10
  <2>2. Len(s.counts) = Len(Into(t).counts)
    BY <1>5, <1>7
  <2> QED BY <1>1, <1>2, <1>7, <1>10, <2>1, <2>2, StoredKeeps
<1>12. /\ rec' \in [Recorders -> Recording] /\ rec'[t] = r
       /\ \A u \in Recorders : u # t => rec'[u] = rec[u]
       /\ Counted \in SUBSET Recorders /\ Counted' \in SUBSET Recorders
       /\ Counted \ {t} = Counted' \ {t} /\ t \notin Counted /\ t \notin Counted'
       /\ \A i \in Nat : /\ Bucketed(i) \in SUBSET Recorders /\ Bucketed(i)' \in SUBSET Recorders
                         /\ Bucketed(i) \ {t} = Bucketed(i)' \ {t}
                         /\ t \notin Bucketed(i) /\ (t \in Bucketed(i)' <=> rec[t].into = i)
  <2>1. /\ rec' \in [Recorders -> Recording] /\ rec'[t] = r
        /\ \A u \in Recorders : u # t => rec'[u] = rec[u]
        /\ Counted \in SUBSET Recorders /\ Counted' \in SUBSET Recorders
        /\ Counted \ {t} = Counted' \ {t}
        /\ t \in Counted <=> rec[t].at = "sum"
        /\ t \in Counted' <=> r.at = "sum"
    BY <1>2, <1>8, <1>9, Moving
  <2>2. \A i \in Nat :
           /\ Bucketed(i) \in SUBSET Recorders /\ Bucketed(i)' \in SUBSET Recorders
           /\ Bucketed(i) \ {t} = Bucketed(i)' \ {t}
           /\ t \in Bucketed(i) <=> rec[t].at = "count" /\ rec[t].into = i
           /\ t \in Bucketed(i)' <=> r.at = "count" /\ r.into = i
    BY <1>2, <1>8, <1>9, Moving
  <2> QED BY <1>1, <1>9, <2>1, <2>2
<1>13. SeriesTypes'
  BY <1>1, <1>2, <1>10, <1>12, Zenon DEF SeriesTypes
<1>14. \A u \in Recorders : Working(u)'
  <2>1. Working(t)'
    BY <1>1, <1>2, <1>9, <1>10, <1>12 DEF Working, Shape
  <2>2. Len(entries) <= Len(entries') /\ Len(entries') \in Nat
    BY <1>2, <1>10
  <2> QED BY <1>1, <1>2, <1>10, <1>12, <2>1, <2>2, OthersWork
<1>15. Capped'
  BY <1>1, <1>2, <1>8, <1>9, CapStays
<1>16. Accounts'
  <2>1. \A field \in SeriesFields :
           TotalOf(entries', overflow', field) = TotalOf(entries, overflow, field)
    <3> SUFFICES ASSUME NEW field \in SeriesFields
                 PROVE  TotalOf(entries', overflow', field) = TotalOf(entries, overflow, field)
      OBVIOUS
    <3>1. Into(t)[field] \in Int /\ TotalOf(entries, overflow, field) \in Int
      BY <1>2, InSeries, TotalInt DEF SeriesTypes
    <3>2. s[field] = Into(t)[field] + 0 /\ 0 \in Int
      BY <1>7, <3>1
    <3> QED BY <1>10, <3>1, <3>2
  <2>2. "count" \in SeriesFields /\ "sum" \in SeriesFields
    BY DEF SeriesFields
  <2>3. Cardinality(Counted') = Cardinality(Counted)
    BY <1>12, OneMoves
  <2>4. ASSUME NEW i \in 1 .. Len(entries')
        PROVE  Added(entries'[i].counts) = entries'[i].count + Cardinality(Bucketed(i)')
    <3>1. i \in 1 .. Len(entries) /\ i \in Nat
      BY <1>2, <1>10
    <3>2. Added(entries[i].counts) = entries[i].count + Cardinality(Bucketed(i))
      BY <1>2, <3>1, Zenon DEF Accounts
    <3>3. /\ Cardinality(Bucketed(i)) \in Nat
          /\ i # rec[t].into => Cardinality(Bucketed(i)') = Cardinality(Bucketed(i))
          /\ i = rec[t].into => Cardinality(Bucketed(i)') = Cardinality(Bucketed(i)) + 1
      BY <1>12, <3>1, OneMoves
    <3>4. CASE i # rec[t].into
      BY <1>10, <3>1, <3>2, <3>3, <3>4
    <3>5. CASE i = rec[t].into
      <4>1. entries'[i] = s /\ Into(t) = entries[i]
        BY <1>10, <3>1, <3>5
      <4>2. entries[i].count \in Nat
        BY <1>2, <4>1, InSeries
      <4>3. Added(Into(t).counts) = Into(t).count + Cardinality(Bucketed(i))
        BY <3>2, <4>1
      <4>4. Added(counts) = Into(t).count + Cardinality(Bucketed(i)')
        BY <1>5, <3>3, <3>5, <4>1, <4>2, <4>3
      <4> QED BY <1>7, <4>1, <4>4
    <3> QED BY <3>4, <3>5
  <2> QED BY <1>1, <1>2, <2>1, <2>2, <2>3, <2>4, Zenon DEF Accounts, Values
<1> QED BY <1>11, <1>13, <1>14, <1>15, <1>16, Zenon DEF SeriesInv

(* The series counts the sample before it sums it.                          *)
LEMMA CountAllKeeps ==
  ASSUME SeriesInv, NEW t \in Recorders, CountAll(t) PROVE SeriesInv'
<1> DEFINE s == [Into(t) EXCEPT !.count = @ + 1]
           r == [rec[t] EXCEPT !.at = "sum", !.read = Into(t).sum]
<1>1. /\ rec[t].at = "count" /\ Store(t, s)
      /\ rec' = [rec EXCEPT ![t].at = "sum", ![t].read = Into(t).sum]
      /\ UNCHANGED <<layout, series, recorded>>
  BY DEF CountAll, RecAt
<1>2. /\ SeriesTypes /\ AllShaped /\ OneSeries /\ Capped /\ Accounts /\ \A u \in Recorders : Working(u)
      /\ rec \in [Recorders -> Recording] /\ Len(entries) \in Nat /\ series = Len(entries)
      /\ layout \in Seq(Int) /\ rec[t] \in Recording /\ rec[t].tags \in TagLists
      /\ rec[t].into \in 0 .. Len(entries) /\ (rec[t].into = 0 => overflow # Unset)
      /\ Into(t) \in Series /\ Shape(Into(t)) /\ t \notin Pending
      /\ entries \in Seq(Series) /\ overflow \in Series \cup {Unset}
  BY <1>1, Counting
<1>3. s \in Series /\ s.counts = Into(t).counts /\ s.tags = Into(t).tags
      /\ s.count = Into(t).count + 1 /\ s["count"] = Into(t)["count"] + 1 /\ s["sum"] = Into(t)["sum"]
  <2>1. s \in Series /\ s.counts = Into(t).counts /\ s.tags = Into(t).tags
        /\ s.count = Into(t).count + 1 /\ s.sum = Into(t).sum
    <3>1. Into(t).count + 1 \in Nat
      BY <1>2, InSeries
    <3>2. s = [Into(t) EXCEPT !.count = Into(t).count + 1]
      BY <1>2
    <3> HIDE DEF s
    <3> QED BY <1>2, <3>1, <3>2 DEF Series
  <2> HIDE DEF s
  <2> QED BY <1>2, <2>1, InSeries
<1>4. rec' = [rec EXCEPT ![t] = r]
  BY <1>1, <1>2
<1>5. r \in Recording /\ r.at = "sum" /\ r.into = rec[t].into /\ r.tags = rec[t].tags
  <2>1. Into(t).sum \in Int
    BY <1>2, InSeries
  <2> QED BY <1>2, <2>1 DEF Recording, Steps
<1> HIDE DEF s, r
<1>6. /\ entries' \in Seq(Series) /\ Len(entries') = Len(entries)
      /\ overflow' \in Series \cup {Unset} /\ (overflow' = Unset <=> overflow = Unset)
      /\ \A i \in 1 .. Len(entries) :
            /\ i # rec[t].into => entries'[i] = entries[i]
            /\ i = rec[t].into => entries'[i] = s /\ Into(t) = entries[i]
            /\ entries'[i].tags = entries[i].tags
      /\ overflow' = overflow \/ overflow' = s
      /\ \A field \in SeriesFields, d \in Int :
            s[field] = Into(t)[field] + d =>
               TotalOf(entries', overflow', field) = TotalOf(entries, overflow, field) + d
  BY <1>1, <1>2, <1>3, Stored
<1>7. AllShaped' /\ OneSeries'
  <2>1. \A i \in 1 .. Len(entries) : entries'[i] = entries[i] \/ entries'[i] = s
    BY <1>6
  <2>2. Len(s.counts) = Len(Into(t).counts)
    BY <1>3
  <2> QED BY <1>1, <1>2, <1>3, <1>6, <2>1, <2>2, StoredKeeps
<1>8. /\ rec' \in [Recorders -> Recording] /\ rec'[t] = r
      /\ \A u \in Recorders : u # t => rec'[u] = rec[u]
      /\ Counted \in SUBSET Recorders /\ Counted' \in SUBSET Recorders
      /\ Counted \ {t} = Counted' \ {t} /\ t \notin Counted /\ t \in Counted'
      /\ \A i \in Nat : /\ Bucketed(i) \in SUBSET Recorders /\ Bucketed(i)' \in SUBSET Recorders
                        /\ Bucketed(i) \ {t} = Bucketed(i)' \ {t}
                        /\ t \notin Bucketed(i)' /\ (t \in Bucketed(i) <=> rec[t].into = i)
  <2>1. /\ rec' \in [Recorders -> Recording] /\ rec'[t] = r
        /\ \A u \in Recorders : u # t => rec'[u] = rec[u]
        /\ Counted \in SUBSET Recorders /\ Counted' \in SUBSET Recorders
        /\ Counted \ {t} = Counted' \ {t}
        /\ t \in Counted <=> rec[t].at = "sum"
        /\ t \in Counted' <=> r.at = "sum"
    BY <1>2, <1>4, <1>5, Moving
  <2>2. \A i \in Nat :
           /\ Bucketed(i) \in SUBSET Recorders /\ Bucketed(i)' \in SUBSET Recorders
           /\ Bucketed(i) \ {t} = Bucketed(i)' \ {t}
           /\ t \in Bucketed(i) <=> rec[t].at = "count" /\ rec[t].into = i
           /\ t \in Bucketed(i)' <=> r.at = "count" /\ r.into = i
    BY <1>2, <1>4, <1>5, Moving
  <2> QED BY <1>1, <1>5, <2>1, <2>2
<1>9. SeriesTypes'
  BY <1>1, <1>2, <1>6, <1>8, Zenon DEF SeriesTypes
<1>10. \A u \in Recorders : Working(u)'
  <2>1. Working(t)'
    BY <1>1, <1>2, <1>5, <1>6, <1>8 DEF Working, Shape
  <2>2. Len(entries) <= Len(entries') /\ Len(entries') \in Nat
    BY <1>2, <1>6
  <2> QED BY <1>1, <1>2, <1>6, <1>8, <2>1, <2>2, OthersWork
<1>11. Capped'
  BY <1>1, <1>2, <1>4, <1>5, CapStays
<1>12. Accounts'
  <2>1. "count" \in SeriesFields /\ "sum" \in SeriesFields
    BY DEF SeriesFields
  <2>2. /\ Cardinality(Counted) \in Nat
        /\ Cardinality(Counted') = Cardinality(Counted) + 1
    BY <1>8, OneMoves
  <2>3. TotalOf(entries', overflow', "count") = Len(recorded') + Cardinality(Counted')
    <3>1. TotalOf(entries', overflow', "count") = TotalOf(entries, overflow, "count") + 1
      BY <1>3, <1>6, <2>1
    <3>2. TotalOf(entries, overflow, "count") = Len(recorded) + Cardinality(Counted)
      BY <1>2, Zenon DEF Accounts
    <3>3. Len(recorded) \in Nat
      BY <1>2, LenProperties DEF SeriesTypes
    <3> QED BY <1>1, <2>2, <3>1, <3>2, <3>3
  <2>4. TotalOf(entries', overflow', "sum") = Added(Values')
    <3>1. Into(t)["sum"] \in Int /\ TotalOf(entries, overflow, "sum") \in Int
      BY <1>2, <2>1, InSeries, TotalInt
    <3>2. s["sum"] = Into(t)["sum"] + 0 /\ 0 \in Int
      BY <1>3, <3>1
    <3>3. TotalOf(entries', overflow', "sum") = TotalOf(entries, overflow, "sum")
      BY <1>6, <2>1, <3>1, <3>2
    <3> QED BY <1>1, <1>2, <3>3, Zenon DEF Accounts, Values
  <2>5. ASSUME NEW i \in 1 .. Len(entries')
        PROVE  Added(entries'[i].counts) = entries'[i].count + Cardinality(Bucketed(i)')
    <3>1. i \in 1 .. Len(entries) /\ i \in Nat
      BY <1>2, <1>6
    <3>2. Added(entries[i].counts) = entries[i].count + Cardinality(Bucketed(i))
      BY <1>2, <3>1, Zenon DEF Accounts
    <3>3. /\ Cardinality(Bucketed(i)') \in Nat
          /\ i # rec[t].into => Cardinality(Bucketed(i)') = Cardinality(Bucketed(i))
          /\ i = rec[t].into => Cardinality(Bucketed(i)) = Cardinality(Bucketed(i)') + 1
      BY <1>8, <3>1, OneMoves
    <3>4. CASE i # rec[t].into
      BY <1>6, <3>1, <3>2, <3>3, <3>4
    <3>5. CASE i = rec[t].into
      <4>1. entries'[i] = s /\ Into(t) = entries[i]
        BY <1>6, <3>1, <3>5
      <4>2. Into(t).count \in Nat
        BY <1>2, InSeries
      <4>3. Added(Into(t).counts) = Into(t).count + Cardinality(Bucketed(i))
        BY <3>2, <4>1
      <4>4. Added(Into(t).counts) = (Into(t).count + 1) + Cardinality(Bucketed(i)')
        BY <3>3, <3>5, <4>2, <4>3
      <4> QED BY <1>3, <4>1, <4>4
    <3> QED BY <3>4, <3>5
  <2> QED BY <2>3, <2>4, <2>5, Zenon DEF Accounts
<1> QED BY <1>7, <1>9, <1>10, <1>11, <1>12, Zenon DEF SeriesInv

(* The sum moved on: it is read again.                                      *)
LEMMA SumAgainKeeps ==
  ASSUME SeriesInv, NEW t \in Recorders, SumAgain(t) PROVE SeriesInv'
<1> DEFINE r == [rec[t] EXCEPT !.read = Into(t).sum]
<1>1. /\ rec[t].at = "sum" /\ rec' = [rec EXCEPT ![t].read = Into(t).sum]
      /\ UNCHANGED <<layout, entries, series, overflow, recorded>>
  BY DEF SumAgain, RecAt
<1>2. /\ SeriesTypes /\ AllShaped /\ OneSeries /\ Capped /\ Accounts /\ \A u \in Recorders : Working(u)
      /\ rec \in [Recorders -> Recording] /\ Len(entries) \in Nat
      /\ rec[t] \in Recording /\ Into(t) \in Series /\ t \notin Pending
  BY <1>1, Counting
<1>3. rec' = [rec EXCEPT ![t] = r]
  BY <1>1, <1>2
<1>4. r \in Recording /\ r.at = "sum" /\ r.into = rec[t].into /\ r.tags = rec[t].tags
  <2>1. Into(t).sum \in Int
    BY <1>2, InSeries
  <2> QED BY <1>1, <1>2, <2>1 DEF Recording
<1> HIDE DEF r
<1>5. /\ rec' \in [Recorders -> Recording] /\ rec'[t] = r
      /\ \A u \in Recorders : u # t => rec'[u] = rec[u]
      /\ Counted \in SUBSET Recorders /\ Counted' \in SUBSET Recorders
      /\ Counted \ {t} = Counted' \ {t} /\ t \in Counted /\ t \in Counted'
      /\ \A i \in Nat : /\ Bucketed(i) \in SUBSET Recorders /\ Bucketed(i)' \in SUBSET Recorders
                        /\ Bucketed(i) \ {t} = Bucketed(i)' \ {t}
                        /\ t \notin Bucketed(i)' /\ t \notin Bucketed(i)
  <2>1. /\ rec' \in [Recorders -> Recording] /\ rec'[t] = r
        /\ \A u \in Recorders : u # t => rec'[u] = rec[u]
        /\ Counted \in SUBSET Recorders /\ Counted' \in SUBSET Recorders
        /\ Counted \ {t} = Counted' \ {t}
        /\ t \in Counted <=> rec[t].at = "sum"
        /\ t \in Counted' <=> r.at = "sum"
    BY <1>2, <1>3, <1>4, Moving
  <2>2. \A i \in Nat :
           /\ Bucketed(i) \in SUBSET Recorders /\ Bucketed(i)' \in SUBSET Recorders
           /\ Bucketed(i) \ {t} = Bucketed(i)' \ {t}
           /\ t \in Bucketed(i) <=> rec[t].at = "count" /\ rec[t].into = i
           /\ t \in Bucketed(i)' <=> r.at = "count" /\ r.into = i
    BY <1>2, <1>3, <1>4, Moving
  <2> QED BY <1>1, <1>4, <2>1, <2>2
<1>6. SeriesTypes'
  BY <1>1, <1>2, <1>5, Zenon DEF SeriesTypes
<1>7. \A u \in Recorders : Working(u)'
  <2>1. Working(t)'
    BY <1>1, <1>2, <1>4, <1>5 DEF Working
  <2>2. Len(entries) <= Len(entries') /\ Len(entries') \in Nat
    BY <1>1, <1>2
  <2> QED BY <1>1, <1>2, <1>5, <2>1, <2>2, OthersWork
<1>8. Capped'
  BY <1>1, <1>2, <1>3, <1>4, CapStays
<1>9. Accounts'
  <2>1. Cardinality(Counted') = Cardinality(Counted)
    BY <1>5, OneMoves
  <2>2. ASSUME NEW i \in 1 .. Len(entries) PROVE Cardinality(Bucketed(i)') = Cardinality(Bucketed(i))
    <3>1. i \in Nat
      BY <1>2
    <3> QED BY <1>5, <3>1, OneMoves
  <2> QED BY <1>1, <1>2, <2>1, <2>2, AccountsStay
<1>10. AllShaped' /\ OneSeries'
  BY <1>1, <1>2, Zenon DEF AllShaped, Shape, OneSeries
<1> QED BY <1>6, <1>7, <1>8, <1>9, <1>10, Zenon DEF SeriesInv

(* The values of the samples, with one filed more.                          *)
LEMMA ValuesMore ==
  ASSUME recorded \in Seq([tags : TagLists, value : Int]),
         NEW sample \in [tags : TagLists, value : Int], recorded' = Append(recorded, sample)
  PROVE  /\ recorded' \in Seq([tags : TagLists, value : Int])
         /\ Len(recorded) \in Nat /\ Len(recorded') = Len(recorded) + 1
         /\ Added(Values') = Added(Values) + sample.value
<1> DEFINE p == Values  q == Values'  m == Len(recorded)
<1>1. /\ m \in Nat /\ DOMAIN recorded = 1 .. m
      /\ \A i \in 1 .. m : recorded[i] \in [tags : TagLists, value : Int]
  BY LenProperties
<1>2. /\ recorded' \in Seq([tags : TagLists, value : Int]) /\ Len(recorded') = m + 1
      /\ recorded'[m + 1] = sample /\ \A i \in 1 .. m : recorded'[i] = recorded[i]
  BY AppendProperties
<1>3. DOMAIN recorded' = 1 .. m + 1
      /\ \A i \in 1 .. m + 1 : recorded'[i] \in [tags : TagLists, value : Int]
  BY <1>1, <1>2, LenProperties
<1> HIDE DEF m
<1>4. p \in [1 .. m -> Int] /\ \A i \in 1 .. m : p[i] = recorded[i].value
  BY <1>1 DEF Values
<1>5. q \in [1 .. m + 1 -> Int] /\ \A i \in 1 .. m + 1 : q[i] = recorded'[i].value
  BY <1>3 DEF Values
<1> HIDE DEF p, q
<1>6. p \in Seq(Int) /\ Len(p) = m
  <2>1. p \in Seq(Int)
    BY <1>1, <1>4
  <2> QED BY <1>1, <1>4, <2>1, LenProperties
<1>7. q \in Seq(Int) /\ Len(q) = m + 1
  <2>1. q \in Seq(Int)
    BY <1>1, <1>5
  <2> QED BY <1>1, <1>5, <2>1, LenProperties
<1>8. Len(q) = Len(p) + 1 /\ (\A i \in 1 .. Len(p) : q[i] = p[i]) /\ q[Len(q)] = sample.value
  BY <1>1, <1>2, <1>4, <1>5, <1>6, <1>7
<1>9. Added(q) = Added(p) + q[Len(q)]
  BY <1>6, <1>7, <1>8, AddedMore
<1>10. Added(q) = Added(p) + sample.value
  BY <1>8, <1>9
<1> QED BY <1>1, <1>2, <1>10 DEF p, q, m

(* The sample is summed and filed.                                          *)
LEMMA SumAllKeeps ==
  ASSUME SeriesInv, NEW t \in Recorders, SumAll(t) PROVE SeriesInv'
<1> DEFINE v == rec[t].value
           s == [Into(t) EXCEPT !.sum = rec[t].read + v]
           sample == [tags |-> rec[t].tags, value |-> v]
<1>1. /\ rec[t].at = "sum" /\ Store(t, s) /\ Into(t).sum = rec[t].read
      /\ recorded' = Append(recorded, sample) /\ rec' = [rec EXCEPT ![t] = NotRecording]
      /\ UNCHANGED <<layout, series>>
  BY DEF SumAll, SumBlindly, Summed, RecAt
<1>2. /\ SeriesTypes /\ AllShaped /\ OneSeries /\ Capped /\ Accounts /\ \A u \in Recorders : Working(u)
      /\ rec \in [Recorders -> Recording] /\ Len(entries) \in Nat /\ series = Len(entries)
      /\ layout \in Seq(Int) /\ rec[t] \in Recording /\ rec[t].tags \in TagLists
      /\ rec[t].into \in 0 .. Len(entries) /\ (rec[t].into = 0 => overflow # Unset)
      /\ Into(t) \in Series /\ Shape(Into(t)) /\ t \notin Pending
      /\ entries \in Seq(Series) /\ overflow \in Series \cup {Unset}
  BY <1>1, Counting
<1>3. v \in Int /\ rec[t].read \in Int /\ sample \in [tags : TagLists, value : Int]
      /\ sample.value = v /\ recorded \in Seq([tags : TagLists, value : Int])
  BY <1>2 DEF Recording, SeriesTypes
<1> HIDE DEF v
<1>4. s \in Series /\ s.counts = Into(t).counts /\ s.tags = Into(t).tags
      /\ s.count = Into(t).count /\ s["count"] = Into(t)["count"] /\ s["sum"] = Into(t)["sum"] + v
  <2>1. rec[t].read + v \in Int
    BY <1>3
  <2>2. s \in Series /\ s.counts = Into(t).counts /\ s.tags = Into(t).tags
        /\ s.count = Into(t).count /\ s.sum = rec[t].read + v
    BY <1>2, <2>1 DEF Series
  <2> HIDE DEF s
  <2> QED BY <1>1, <1>2, <2>2, InSeries
<1>5. NotRecording \in Recording /\ NotRecording.at = "rest" /\ NotRecording.into = 0
  BY DEF NotRecording, Recording, Steps
<1> HIDE DEF s, sample
<1>6. /\ entries' \in Seq(Series) /\ Len(entries') = Len(entries)
      /\ overflow' \in Series \cup {Unset} /\ (overflow' = Unset <=> overflow = Unset)
      /\ \A i \in 1 .. Len(entries) :
            /\ i # rec[t].into => entries'[i] = entries[i]
            /\ i = rec[t].into => entries'[i] = s /\ Into(t) = entries[i]
            /\ entries'[i].tags = entries[i].tags
      /\ overflow' = overflow \/ overflow' = s
      /\ \A field \in SeriesFields, d \in Int :
            s[field] = Into(t)[field] + d =>
               TotalOf(entries', overflow', field) = TotalOf(entries, overflow, field) + d
  BY <1>1, <1>2, <1>4, Stored
<1>7. AllShaped' /\ OneSeries'
  <2>1. \A i \in 1 .. Len(entries) : entries'[i] = entries[i] \/ entries'[i] = s
    BY <1>6
  <2>2. Len(s.counts) = Len(Into(t).counts)
    BY <1>4
  <2> QED BY <1>1, <1>2, <1>4, <1>6, <2>1, <2>2, StoredKeeps
<1>8. /\ rec' \in [Recorders -> Recording] /\ rec'[t] = NotRecording
      /\ \A u \in Recorders : u # t => rec'[u] = rec[u]
      /\ Counted \in SUBSET Recorders /\ Counted' \in SUBSET Recorders
      /\ Counted \ {t} = Counted' \ {t} /\ t \in Counted /\ t \notin Counted'
      /\ \A i \in Nat : /\ Bucketed(i) \in SUBSET Recorders /\ Bucketed(i)' \in SUBSET Recorders
                        /\ Bucketed(i) \ {t} = Bucketed(i)' \ {t}
                        /\ t \notin Bucketed(i)' /\ t \notin Bucketed(i)
  <2>1. /\ rec' \in [Recorders -> Recording] /\ rec'[t] = NotRecording
        /\ \A u \in Recorders : u # t => rec'[u] = rec[u]
        /\ Counted \in SUBSET Recorders /\ Counted' \in SUBSET Recorders
        /\ Counted \ {t} = Counted' \ {t}
        /\ t \in Counted <=> rec[t].at = "sum"
        /\ t \in Counted' <=> NotRecording.at = "sum"
    BY <1>1, <1>2, <1>5, Moving
  <2>2. \A i \in Nat :
           /\ Bucketed(i) \in SUBSET Recorders /\ Bucketed(i)' \in SUBSET Recorders
           /\ Bucketed(i) \ {t} = Bucketed(i)' \ {t}
           /\ t \in Bucketed(i) <=> rec[t].at = "count" /\ rec[t].into = i
           /\ t \in Bucketed(i)' <=> NotRecording.at = "count" /\ NotRecording.into = i
    BY <1>1, <1>2, <1>5, Moving
  <2> QED BY <1>1, <1>5, <2>1, <2>2
<1>9. /\ recorded' \in Seq([tags : TagLists, value : Int])
      /\ Len(recorded) \in Nat /\ Len(recorded') = Len(recorded) + 1
      /\ Added(Values') = Added(Values) + v
  BY <1>1, <1>3, ValuesMore
<1>10. SeriesTypes'
  BY <1>1, <1>2, <1>6, <1>8, <1>9, Zenon DEF SeriesTypes
<1>11. \A u \in Recorders : Working(u)'
  <2>1. Working(t)'
    BY <1>5, <1>8 DEF Working
  <2>2. Len(entries) <= Len(entries') /\ Len(entries') \in Nat
    BY <1>2, <1>6
  <2> QED BY <1>1, <1>2, <1>6, <1>8, <2>1, <2>2, OthersWork
<1>12. Capped'
  BY <1>1, <1>2, <1>5, CapStays
<1>13. Accounts'
  <2>1. "count" \in SeriesFields /\ "sum" \in SeriesFields
    BY DEF SeriesFields
  <2>2. /\ Cardinality(Counted') \in Nat
        /\ Cardinality(Counted) = Cardinality(Counted') + 1
    BY <1>8, OneMoves
  <2>3. TotalOf(entries', overflow', "count") = Len(recorded') + Cardinality(Counted')
    <3>1. Into(t)["count"] \in Int /\ TotalOf(entries, overflow, "count") \in Int
      BY <1>2, <2>1, InSeries, TotalInt
    <3>2. s["count"] = Into(t)["count"] + 0 /\ 0 \in Int
      BY <1>4, <3>1
    <3>3. TotalOf(entries', overflow', "count") = TotalOf(entries, overflow, "count")
      BY <1>6, <2>1, <3>1, <3>2
    <3>4. TotalOf(entries, overflow, "count") = Len(recorded) + Cardinality(Counted)
      BY <1>2, Zenon DEF Accounts
    <3> QED BY <1>9, <2>2, <3>3, <3>4
  <2>4. TotalOf(entries', overflow', "sum") = Added(Values')
    <3>1. TotalOf(entries', overflow', "sum") = TotalOf(entries, overflow, "sum") + v
      BY <1>3, <1>4, <1>6, <2>1
    <3>2. TotalOf(entries, overflow, "sum") = Added(Values)
      BY <1>2, Zenon DEF Accounts
    <3> QED BY <1>9, <3>1, <3>2
  <2>5. ASSUME NEW i \in 1 .. Len(entries')
        PROVE  Added(entries'[i].counts) = entries'[i].count + Cardinality(Bucketed(i)')
    <3>1. i \in 1 .. Len(entries) /\ i \in Nat
      BY <1>2, <1>6
    <3>2. Added(entries[i].counts) = entries[i].count + Cardinality(Bucketed(i))
      BY <1>2, <3>1, Zenon DEF Accounts
    <3>3. Cardinality(Bucketed(i)') = Cardinality(Bucketed(i))
      BY <1>8, <3>1, OneMoves
    <3>4. entries'[i].counts = entries[i].counts /\ entries'[i].count = entries[i].count
      BY <1>4, <1>6, <3>1
    <3> QED BY <3>2, <3>3, <3>4
  <2> QED BY <2>3, <2>4, <2>5, Zenon DEF Accounts
<1> QED BY <1>7, <1>10, <1>11, <1>12, <1>13, Zenon DEF SeriesInv
-----------------------------------------------------------------------------
(* The registry: pruning takes no instrument that is held, and leaves the   *)
(* watermark above what it left.                                            *)
LEMMA RegistryMoves ==
  ASSUME Registry, \/ Snapshot \/ SnapshotTaken
                   \/ \E i \in Instruments : RegisterInstrument(i) \/ DropInstrument(i)
  PROVE  Registry'
<1>1. /\ IsFiniteSet(instruments) /\ PRUNE_AT \in Nat /\ alive \subseteq instruments
      /\ Cardinality(instruments) < PRUNE_AT /\ Cardinality(instruments) \in Nat
  BY FS_CardinalityType DEF Registry
<1>2. ASSUME NEW some \in SUBSET instruments
      PROVE  IsFiniteSet(some) /\ Cardinality(some) < PRUNE_AT
  <2>1. IsFiniteSet(some) /\ Cardinality(some) <= Cardinality(instruments)
    BY <1>1, FS_Subset
  <2>2. Cardinality(some) \in Nat
    BY <2>1, FS_CardinalityType
  <2> QED BY <1>1, <2>1, <2>2
<1>3. CASE Snapshot
  <2>1. instruments' = {i \in instruments : i \in alive} /\ alive' = alive /\ PRUNE_AT' = PRUNE_AT
    BY <1>3 DEF Snapshot, Pruned
  <2>2. instruments' \in SUBSET instruments /\ alive' \subseteq instruments'
    BY <1>1, <2>1
  <2> QED BY <1>1, <1>2, <2>1, <2>2 DEF Registry
<1>4. CASE SnapshotTaken
  <2>1. instruments' = instruments /\ alive' \subseteq alive /\ PRUNE_AT' = PRUNE_AT
    BY <1>4 DEF SnapshotTaken
  <2> QED BY <1>1, <2>1 DEF Registry
<1>5. ASSUME NEW i \in Instruments, DropInstrument(i) PROVE Registry'
  <2>1. instruments' = instruments /\ alive' \subseteq alive /\ PRUNE_AT' = PRUNE_AT
    BY <1>5 DEF DropInstrument
  <2> QED BY <1>1, <2>1 DEF Registry
<1>6. ASSUME NEW i \in Instruments, RegisterInstrument(i) PROVE Registry'
  <2> DEFINE whole == instruments \cup {i}
             kept == {j \in whole : j \in alive'}
  <2>1. /\ i \notin instruments /\ alive' = alive \cup {i}
        /\ IF Cardinality(whole) >= PRUNE_AT
             THEN /\ instruments' = kept
                  /\ PRUNE_AT' = IF 2 * Cardinality(kept) > MIN_PRUNE_AT
                                   THEN 2 * Cardinality(kept) ELSE MIN_PRUNE_AT
             ELSE instruments' = whole /\ UNCHANGED PRUNE_AT
    BY <1>6 DEF RegisterInstrument, Pruned
  <2>2. IsFiniteSet(whole) /\ Cardinality(whole) \in Nat
    BY <1>1, FS_AddElement, FS_CardinalityType
  <2>3. kept \subseteq whole /\ i \in kept /\ alive' \subseteq kept /\ alive' \subseteq whole
    BY <1>1, <2>1
  <2> HIDE DEF whole, kept
  <2>4. IsFiniteSet(kept) /\ Cardinality(kept) \in Nat /\ Cardinality(kept) # 0
    <3>1. IsFiniteSet(kept)
      BY <2>2, <2>3, FS_Subset
    <3> QED BY <2>3, <3>1, FS_CardinalityType, FS_EmptySet
  <2>5. MIN_PRUNE_AT \in Nat
    BY MetricsAssumption
  <2>6. CASE Cardinality(whole) >= PRUNE_AT
    <3>1. PRUNE_AT' \in Nat /\ Cardinality(kept) < PRUNE_AT'
      BY <2>1, <2>4, <2>5, <2>6
    <3> QED BY <2>1, <2>3, <2>4, <2>6, <3>1 DEF Registry
  <2>7. CASE ~ (Cardinality(whole) >= PRUNE_AT)
    <3>1. PRUNE_AT' = PRUNE_AT /\ instruments' = whole /\ Cardinality(whole) < PRUNE_AT
      BY <1>1, <2>1, <2>2, <2>7
    <3> QED BY <1>1, <2>2, <2>3, <3>1 DEF Registry
  <2> QED BY <2>6, <2>7
<1> QED BY <1>3, <1>4, <1>5, <1>6

(* Nothing is recorded at first, and nothing registered.                    *)
LEMMA MetricsStarts == ASSUME MetricsInit PROVE MetricsInv
<1>1. rec = [t \in Recorders |-> NotRecording] /\ recorded = << >> /\ entries = << >>
      /\ layout = Unset /\ series = 0 /\ overflow = Unset
  BY DEF MetricsInit
<1>2. NotRecording \in Recording /\ NotRecording.at = "rest"
  BY DEF NotRecording, Recording, Steps
<1>3. rec \in [Recorders -> Recording] /\ \A t \in Recorders : rec[t].at = "rest"
  BY <1>1, <1>2
<1>4. Len(entries) = 0 /\ entries \in Seq(Series) /\ Len(recorded) = 0
      /\ recorded \in Seq([tags : TagLists, value : Int])
  BY <1>1
<1>5. SeriesTypes
  BY <1>1, <1>3, <1>4 DEF SeriesTypes
<1>6. \A t \in Recorders : Working(t)
  BY <1>3 DEF Working
<1>7. AllShaped /\ OneSeries
  BY <1>1, <1>4 DEF AllShaped, OneSeries
<1>8. Pending = {} /\ Counted = {}
  BY <1>3 DEF Pending, Counted
<1>9. Cardinality(Pending) = 0 /\ Cardinality(Counted) = 0
  BY <1>8, FS_EmptySet
<1>10. Capped
  <2>1. Cardinality(Recorders) \in Nat /\ MAX_SERIES \in Nat /\ MAX_SERIES # 0
    BY MetricsAssumption, FS_CardinalityType
  <2> QED BY <1>1, <1>9, <2>1 DEF Capped
<1>11. Accounts
  <2>1. "count" \in SeriesFields /\ "sum" \in SeriesFields
    BY DEF SeriesFields
  <2>2. \A field \in SeriesFields : TotalOf(entries, overflow, field) = 0
    <3> SUFFICES ASSUME NEW field \in SeriesFields PROVE TotalOf(entries, overflow, field) = 0
      OBVIOUS
    <3>1. Column(entries, field) \in Seq(Int) /\ Len(Column(entries, field)) = Len(entries)
      BY <1>4, ColumnInts
    <3>2. \A i \in 1 .. Len(Column(entries, field)) : Column(entries, field)[i] = 0
      BY <1>4, <3>1
    <3>3. Added(Column(entries, field)) = 0
      BY <3>1, <3>2, AddedZeros
    <3>4. Share(overflow, field) = 0
      BY <1>1, Zenon DEF Share
    <3> QED BY <3>3, <3>4 DEF TotalOf
  <2>3. Added(Values) = 0
    <3>1. Values = << >>
      BY <1>1 DEF Values
    <3>2. Values \in Seq(Int) /\ \A i \in 1 .. Len(Values) : Values[i] = 0
      BY <3>1
    <3> QED BY <3>2, AddedZeros
  <2> QED BY <1>4, <1>9, <2>1, <2>2, <2>3 DEF Accounts
<1>12. Registry
  <2>1. Cardinality({}) = 0 /\ IsFiniteSet({})
    BY FS_EmptySet
  <2> QED BY <2>1, MetricsAssumption DEF MetricsInit, Registry
<1> QED BY <1>5, <1>6, <1>7, <1>10, <1>11, <1>12 DEF MetricsInv, SeriesInv

(* Every step of the metrics keeps the invariant.                           *)
LEMMA MetricsStep == ASSUME MetricsInv, [MetricsNext]_metricVars PROVE MetricsInv'
<1>1. SeriesInv /\ Registry
  BY Zenon DEF MetricsInv
<1>2. ASSUME UNCHANGED seriesVars PROVE SeriesInv'
  BY <1>1, <1>2, Zenon DEF seriesVars, SeriesInv, SeriesTypes, Working, AllShaped, Shape, OneSeries,
     Capped, Pending, Accounts, Counted, Bucketed, Values
<1>3. ASSUME UNCHANGED instrumentVars PROVE Registry'
  BY <1>1, <1>3, Zenon DEF instrumentVars, Registry
<1>4. CASE UNCHANGED metricVars
  BY <1>2, <1>3, <1>4 DEF metricVars, MetricsInv
<1>5. CASE WithBuckets
  <2>1. UNCHANGED instrumentVars
    BY <1>5 DEF WithBuckets
  <2> QED BY <1>1, <1>3, <1>5, <2>1, WithBucketsKeeps DEF MetricsInv
<1>6. CASE \/ Snapshot \/ SnapshotTaken
           \/ \E i \in Instruments : RegisterInstrument(i) \/ DropInstrument(i)
  <2>1. UNCHANGED seriesVars
    BY <1>6 DEF Snapshot, SnapshotTaken, RegisterInstrument, DropInstrument
  <2>2. Registry'
    BY <1>1, <1>6, RegistryMoves
  <2> QED BY <1>2, <2>1, <2>2 DEF MetricsInv
<1>7. ASSUME NEW t \in Recorders,
             \/ RecordWithTags(t) \/ FindSeries(t) \/ MakeSeries(t)
             \/ CountBucket(t) \/ CountAll(t) \/ SumAgain(t) \/ SumAll(t)
      PROVE  MetricsInv'
  <2>1. UNCHANGED instrumentVars
    BY <1>7 DEF RecordWithTags, FindSeries, MakeSeries, CountBucket, CountAll, SumAgain, SumAll, SumBlindly
  <2>2. SeriesInv'
    BY <1>1, <1>7, RecordKeeps, FindKeeps, MakeKeeps, CountBucketKeeps, CountAllKeeps,
       SumAgainKeeps, SumAllKeeps
  <2> QED BY <1>3, <2>1, <2>2 DEF MetricsInv
<1> QED BY <1>4, <1>5, <1>6, <1>7 DEF MetricsNext

(* Every sample is counted once, in one series; the cap is passed by no     *)
(* more than the recorders at work; and no held instrument is lost.         *)
THEOREM NoSampleLostHolds == MetricsSpec => []NoSampleLost
<1>1. ASSUME MetricsInv PROVE NoSampleLost
  <2>1. SeriesTypes /\ OneSeries /\ Capped /\ Accounts /\ Registry
    BY <1>1, Zenon DEF MetricsInv, SeriesInv
  <2>2. DOMAIN entries = 1 .. Len(entries) /\ Len(entries) = series /\ Len(entries) \in Nat
        /\ Len(recorded) \in Nat
    BY <2>1, LenProperties DEF SeriesTypes
  <2>3. \A i, j \in DOMAIN entries : same_tags(entries[i].tags, entries[j].tags) => i = j
    BY <2>1, <2>2, Zenon DEF OneSeries
  <2>4. series < MAX_SERIES + Cardinality(Recorders)
    <3>1. Pending \in SUBSET Recorders
      BY DEF Pending
    <3>2. Cardinality(Pending) \in Nat /\ Cardinality(Recorders) \in Nat /\ MAX_SERIES \in Nat
      BY <3>1, MetricsAssumption, FS_Subset, FS_CardinalityType
    <3>3. series + Cardinality(Pending) < MAX_SERIES + Cardinality(Recorders)
      BY <2>1 DEF Capped
    <3> QED BY <2>2, <3>2, <3>3
  <2>5. ASSUME \A t \in Recorders : RecAt(t, "rest")
        PROVE  /\ Total("count") = Len(recorded)
               /\ Total("sum") = Added([n \in DOMAIN recorded |-> recorded[n].value])
               /\ \A i \in DOMAIN entries : Added(entries[i].counts) = entries[i].count
    <3>1. Counted = {} /\ \A i \in Nat : Bucketed(i) = {}
      BY <2>5 DEF RecAt, Counted, Bucketed
    <3>2. Cardinality(Counted) = 0 /\ \A i \in Nat : Cardinality(Bucketed(i)) = 0
      BY <3>1, FS_EmptySet
    <3>3. Total("count") = TotalOf(entries, overflow, "count")
          /\ Total("sum") = TotalOf(entries, overflow, "sum")
      BY Zenon DEF Total, TotalOf, Column, Share
    <3>4. Total("count") = Len(recorded) + Cardinality(Counted)
      BY <2>1, <3>3, Zenon DEF Accounts
    <3>5. Total("sum") = Added([n \in DOMAIN recorded |-> recorded[n].value])
      BY <2>1, <3>3, Zenon DEF Accounts, Values
    <3>6. ASSUME NEW i \in DOMAIN entries PROVE Added(entries[i].counts) = entries[i].count
      <4>1. i \in 1 .. Len(entries) /\ i \in Nat
        BY <2>2
      <4>2. Added(entries[i].counts) = entries[i].count + Cardinality(Bucketed(i))
        BY <2>1, <4>1, Zenon DEF Accounts
      <4>3. entries[i].count \in Nat
        BY <2>1, <4>1, InSeries DEF SeriesTypes
      <4> QED BY <3>2, <4>1, <4>2, <4>3
    <3>7. Total("count") = Len(recorded)
      BY <2>2, <3>2, <3>4
    <3> QED BY <3>5, <3>6, <3>7
  <2>6. alive \subseteq instruments /\ Cardinality(instruments) < PRUNE_AT
    BY <2>1 DEF Registry
  <2> QED BY <2>2, <2>3, <2>4, <2>5, <2>6, Zenon DEF NoSampleLost
<1>2. MetricsInit => MetricsInv
  BY MetricsStarts
<1>3. MetricsInv /\ [MetricsNext]_metricVars => MetricsInv'
  BY MetricsStep
<1>4. MetricsInv => NoSampleLost
  BY <1>1
<1> QED BY <1>2, <1>3, <1>4, PTL DEF MetricsSpec
=============================================================================
