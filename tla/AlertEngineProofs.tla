------------------------- MODULE AlertEngineProofs -------------------------
(***************************************************************************)
(* Proofs about AlertEngine, for any rules, logs, replicas, tasks, workers *)
(* and settings: what the cooldown bounds, that edits lose nothing, and    *)
(* the types.                                                              *)
(***************************************************************************)
EXTENDS AlertEngine, FiniteSetTheorems, TLAPS

-----------------------------------------------------------------------------
(* Counting in the windows of a sequence. *)

(* The entries of s behind the first k that are in T, and their number. *)
Places(s, k, T) == {i \in (k + 1)..Len(s) : s[i] \in T}
Count(s, k, T) == Cardinality(Places(s, k, T))

LEMMA PlacesFinite ==
    ASSUME NEW S, NEW s \in Seq(S), NEW k \in Nat, NEW T
    PROVE  IsFiniteSet(Places(s, k, T)) /\ Count(s, k, T) \in Nat
  <1>1. IsFiniteSet((k + 1)..Len(s)) BY FS_Interval
  <1>2. Places(s, k, T) \in SUBSET ((k + 1)..Len(s)) BY DEF Places
  <1>3. IsFiniteSet(Places(s, k, T)) BY <1>1, <1>2, FS_Subset
  <1> QED BY <1>3, FS_CardinalityType DEF Count

(* An entry that is appended is in every window. *)
LEMMA CountAppend ==
    ASSUME NEW S, NEW s \in Seq(S), NEW e \in S, NEW T, NEW k \in 0..Len(s)
    PROVE  Count(Append(s, e), k, T) = Count(s, k, T) + IF e \in T THEN 1 ELSE 0
  <1> DEFINE t == Append(s, e)
             n == Len(s) + 1
  <1>1. /\ Len(t) = n /\ t[n] = e
        /\ \A i \in (k + 1)..Len(s) : t[i] = s[i]
    OBVIOUS
  <1>2. n \notin Places(s, k, T) BY DEF Places
  <1>3. Places(t, k, T) = IF e \in T THEN Places(s, k, T) \cup {n} ELSE Places(s, k, T)
    <2> HIDE DEF t
    <2> QED BY <1>1 DEF Places
  <1>4. IsFiniteSet(Places(s, k, T)) /\ Count(s, k, T) \in Nat BY PlacesFinite
  <1>5. CASE e \in T
    <2>1. Cardinality(Places(s, k, T) \cup {n}) = Cardinality(Places(s, k, T)) + 1
      BY <1>2, <1>4, FS_AddElement
    <2> QED BY <1>3, <1>5, <2>1 DEF Count
  <1>6. CASE e \notin T BY <1>3, <1>4, <1>6 DEF Count
  <1> QED BY <1>5, <1>6

(* The window that begins at the end is empty. *)
LEMMA CountNone ==
    ASSUME NEW S, NEW s \in Seq(S), NEW T
    PROVE  Count(s, Len(s), T) = 0
  <1>1. Places(s, Len(s), T) = {} BY DEF Places
  <1> QED BY <1>1, FS_EmptySet DEF Count

(* Dropping the oldest entry moves the windows. *)
LEMMA CountTail ==
    ASSUME NEW S, NEW s \in Seq(S), s # <<>>, NEW T, NEW k \in 0..(Len(s) - 1)
    PROVE  Count(Tail(s), k, T) = Count(s, k + 1, T)
  <1> DEFINE A == Places(Tail(s), k, T)
             B == Places(s, k + 1, T)
             f == [i \in A |-> i + 1]
  <1>1. /\ Tail(s) \in Seq(S) /\ Len(Tail(s)) = Len(s) - 1
        /\ \A i \in 1..(Len(s) - 1) : Tail(s)[i] = s[i + 1]
    OBVIOUS
  <1>2. \A i \in A : i \in Int /\ i + 1 \in B BY <1>1 DEF Places
  <1>3. \A j \in B : j \in Int /\ j - 1 \in A BY <1>1 DEF Places
  <1>4. f \in Bijection(A, B)
    <2> HIDE DEF A, B
    <2>1. f \in [A -> B] BY <1>2
    <2>2. \A x, y \in A : f[x] = f[y] => x = y BY <1>2
    <2>3. \A j \in B : \E i \in A : f[i] = j
      <3> TAKE j \in B
      <3>1. j - 1 \in A /\ j \in Int BY <1>3
      <3>2. f[j - 1] = j BY <3>1
      <3> QED BY <3>1, <3>2
    <2> HIDE DEF f
    <2> QED BY <2>1, <2>2, <2>3 DEF Bijection, Injection, Surjection, IsInjective
  <1>5. IsFiniteSet(A)
    <2>1. k \in Nat OBVIOUS
    <2> QED BY <1>1, <2>1, PlacesFinite
  <1>6. Cardinality(A) = Cardinality(B)
    BY <1>4, <1>5, FS_Bijection DEF ExistsBijection
  <1> QED BY <1>6 DEF Count

(* A later window has no more. *)
LEMMA CountLater ==
    ASSUME NEW S, NEW s \in Seq(S), NEW T, NEW k \in Nat
    PROVE  Count(s, k, T) <= Count(s, 0, T)
  <1>1. Places(s, k, T) \in SUBSET Places(s, 0, T) BY DEF Places
  <1>2. IsFiniteSet(Places(s, 0, T)) BY PlacesFinite
  <1> QED BY <1>1, <1>2, FS_Subset DEF Count

(* What is not in T is in its complement. *)
LEMMA CountRest ==
    ASSUME NEW S, NEW s \in Seq(S), NEW T
    PROVE  Count(s, 0, S \ T) = Len(s) - Count(s, 0, T)
  <1> DEFINE D == 1..Len(s)
             A == Places(s, 0, T)
             B == Places(s, 0, S \ T)
  <1>1. IsFiniteSet(D) /\ Cardinality(D) = Len(s)
    <2>1. Len(s) \in Nat /\ 1 \in Int OBVIOUS
    <2> QED BY <2>1, FS_Interval
  <1>2. B = D \ A BY DEF Places
  <1>3. A \subseteq D BY DEF Places
  <1>4. IsFiniteSet(A) /\ Cardinality(A) \in Nat BY PlacesFinite DEF Count
  <1> HIDE DEF D, A, B
  <1>5. Cardinality(D \ A) = Cardinality(D) - Cardinality(D \cap A)
    BY <1>1, FS_Difference
  <1>6. D \cap A = A BY <1>3
  <1> QED BY <1>1, <1>2, <1>5, <1>6 DEF Count, A, B

-----------------------------------------------------------------------------
(* Sums over a finite set, as the library folds them: one element after
   another is picked and taken out. *)
Picked(s) == CHOOSE x \in s : TRUE
Part(f, g, s) == IF s = {} THEN 0 ELSE f[Picked(s)] + g[s \ {Picked(s)}]
Parts(f, S) == CHOOSE g : g = [s \in SUBSET S |-> Part(f, g, s)]
SubsetsUpTo(S, n) == {s \in SUBSET S : Cardinality(s) <= n}

LEMMA SumUnfold ==
    ASSUME NEW f, NEW S PROVE SumFunctionOnSet(f, S) = Parts(f, S)[S]
  BY DEF SumFunctionOnSet, FoldFunctionOnSet, MapThenFoldSet, Parts, Part, Picked

(* Induction, for sets of numbers. *)
LEMMA LeastNumber ==
    ASSUME NEW T \in SUBSET Nat, T # {}
    PROVE  \E n \in T : \A m \in T : n <= m
  <1>1. \E n \in T : \A m \in T : <<m, n>> \notin OpToRel(<, Nat)
    BY WFMin, NatLessThanWellFounded
  <1>2. ASSUME NEW m \in Nat, NEW n \in Nat, m < n PROVE <<m, n>> \in OpToRel(<, Nat)
    <2>1. <<m, n>> \in Nat \X Nat /\ <<m, n>>[1] < <<m, n>>[2] BY <1>2
    <2> QED BY <2>1 DEF OpToRel
  <1>3. PICK n \in T : \A m \in T : <<m, n>> \notin OpToRel(<, Nat) BY <1>1
  <1>4. \A m \in T : ~(m < n) /\ m \in Nat /\ n \in Nat BY <1>2, <1>3
  <1> QED BY <1>4

LEMMA NumbersInductive ==
    ASSUME NEW T, 0 \in T, \A n \in Nat : n \in T => n + 1 \in T
    PROVE  Nat \subseteq T
  <1> DEFINE B == Nat \ T
  <1> SUFFICES ASSUME B # {} PROVE FALSE OBVIOUS
  <1>1. PICK n \in B : \A m \in B : n <= m BY LeastNumber
  <1>2. n # 0 /\ n - 1 \in Nat BY <1>1
  <1>3. n - 1 \notin B BY <1>1, <1>2
  <1> QED BY <1>1, <1>2, <1>3

LEMMA PickedOut ==
    ASSUME NEW S, IsFiniteSet(S), NEW s \in SUBSET S, s # {}
    PROVE  /\ Picked(s) \in s /\ s \ {Picked(s)} \in SUBSET S
           /\ IsFiniteSet(s)
           /\ Cardinality(s) \in Nat /\ Cardinality(s \ {Picked(s)}) = Cardinality(s) - 1
  <1>1. Picked(s) \in s BY DEF Picked
  <1>2. IsFiniteSet(s) /\ Cardinality(s) \in Nat BY FS_Subset, FS_CardinalityType
  <1> QED BY <1>1, <1>2, FS_RemoveElement

(* The recursion is well defined. *)
LEMMA PartsExist ==
    ASSUME NEW f, NEW S, IsFiniteSet(S)
    PROVE  \A s \in SUBSET S : Parts(f, S)[s] = Part(f, Parts(f, S), s)
  <1> DEFINE T == {n \in Nat : \E g : g = [s \in SubsetsUpTo(S, n) |-> Part(f, g, s)]}
  <1>1. 0 \in T
    <2> DEFINE g == [s \in SubsetsUpTo(S, 0) |-> 0]
    <2>1. \A s \in SubsetsUpTo(S, 0) : s = {}
      BY FS_EmptySet, FS_Subset, FS_CardinalityType DEF SubsetsUpTo
    <2>2. g = [s \in SubsetsUpTo(S, 0) |-> Part(f, g, s)] BY <2>1 DEF Part
    <2> QED BY <2>2
  <1>2. ASSUME NEW n \in Nat, n \in T PROVE n + 1 \in T
    <2>1. PICK g : g = [s \in SubsetsUpTo(S, n) |-> Part(f, g, s)] BY <1>2
    <2> DEFINE h == [s \in SubsetsUpTo(S, n + 1) |-> Part(f, g, s)]
    <2>2. ASSUME NEW s \in SubsetsUpTo(S, n + 1) PROVE Part(f, g, s) = Part(f, h, s)
      <3>1. CASE s = {} BY <3>1 DEF Part
      <3>2. CASE s # {}
        <4> DEFINE t == s \ {Picked(s)}
        <4>1. /\ t \in SUBSET S /\ Cardinality(s) \in Nat
              /\ Cardinality(t) = Cardinality(s) - 1 /\ Cardinality(s) <= n + 1
          BY <3>2, PickedOut DEF SubsetsUpTo
        <4> HIDE DEF t
        <4>2. t \in SubsetsUpTo(S, n) /\ t \in SubsetsUpTo(S, n + 1) BY <4>1 DEF SubsetsUpTo
        <4>3. g[t] = Part(f, g, t) BY <2>1, <4>2
        <4>4. h[t] = Part(f, g, t) BY <4>2
        <4> QED BY <3>2, <4>3, <4>4 DEF Part, t
      <3> QED BY <3>1, <3>2
    <2>3. h = [s \in SubsetsUpTo(S, n + 1) |-> Part(f, h, s)] BY <2>2
    <2> HIDE DEF h
    <2> QED BY <2>3
  <1> HIDE DEF T
  <1>3. Cardinality(S) \in T
    BY <1>1, <1>2, NumbersInductive, FS_CardinalityType
  <1>4. PICK g : g = [s \in SubsetsUpTo(S, Cardinality(S)) |-> Part(f, g, s)] BY <1>3 DEF T
  <1>5. SubsetsUpTo(S, Cardinality(S)) = SUBSET S BY FS_Subset DEF SubsetsUpTo
  <1>6. \E e : e = [s \in SUBSET S |-> Part(f, e, s)] BY <1>4, <1>5
  <1>7. Parts(f, S) = [s \in SUBSET S |-> Part(f, Parts(f, S), s)] BY <1>6 DEF Parts
  <1> QED BY <1>7

(* Where g is f with one more at each element of T, its sum is larger by the
   number of those. *)
LEMMA SumGrows ==
    ASSUME NEW S, IsFiniteSet(S), NEW T \in SUBSET S, NEW f, NEW g,
           \A x \in S : f[x] \in Nat /\ g[x] = f[x] + IF x \in T THEN 1 ELSE 0
    PROVE  /\ SumFunctionOnSet(f, S) \in Nat
           /\ (\A x \in S : f[x] = 0) => SumFunctionOnSet(f, S) = 0
           /\ SumFunctionOnSet(g, S) = SumFunctionOnSet(f, S) + Cardinality(T)
  <1> DEFINE F == Parts(f, S)
             G == Parts(g, S)
             Fine(s) == /\ F[s] \in Nat /\ G[s] = F[s] + Cardinality(s \cap T)
                        /\ (\A x \in S : f[x] = 0) => F[s] = 0
             Ns == {n \in Nat : \A s \in SubsetsUpTo(S, n) : Fine(s)}
  <1>1. \A s \in SUBSET S : F[s] = Part(f, F, s) /\ G[s] = Part(g, G, s)
    BY PartsExist
  <1> HIDE DEF F, G
  <1>2. Fine({})
    <2>1. F[{}] = 0 /\ G[{}] = 0 BY <1>1 DEF Part
    <2>2. {} \cap T = {} OBVIOUS
    <2> QED BY <2>1, <2>2, FS_EmptySet
  <1>3. 0 \in Ns
    <2>1. \A s \in SubsetsUpTo(S, 0) : s = {}
      BY FS_EmptySet, FS_Subset, FS_CardinalityType DEF SubsetsUpTo
    <2> QED BY <1>2, <2>1
  <1>4. ASSUME NEW n \in Nat, n \in Ns PROVE n + 1 \in Ns
    <2> SUFFICES ASSUME NEW s \in SubsetsUpTo(S, n + 1) PROVE Fine(s)
      OBVIOUS
    <2> SUFFICES ASSUME s # {} PROVE Fine(s)
      BY <1>2
    <2> DEFINE x == Picked(s)
               t == s \ {x}
    <2>1. /\ s \in SUBSET S /\ x \in s /\ t \in SUBSET S /\ Cardinality(s) \in Nat
          /\ Cardinality(t) = Cardinality(s) - 1 /\ Cardinality(s) <= n + 1
          /\ IsFiniteSet(s)
      BY PickedOut DEF SubsetsUpTo
    <2>2. F[s] = f[x] + F[t] /\ G[s] = g[x] + G[t] BY <1>1, <2>1 DEF Part
    <2> HIDE DEF x, t
    <2>3. t \in SubsetsUpTo(S, n) BY <2>1 DEF SubsetsUpTo
    <2>4. /\ F[t] \in Nat /\ G[t] = F[t] + Cardinality(t \cap T)
          /\ (\A y \in S : f[y] = 0) => F[t] = 0
      BY <1>4, <2>3
    <2> DEFINE more == IF x \in T THEN 1 ELSE 0
               ct == Cardinality(t \cap T)
               cs == Cardinality(s \cap T)
    <2>5. ct \in Nat /\ cs = ct + more
      <3>1. IsFiniteSet(t \cap T) BY <2>1, FS_Subset DEF t
      <3>2. ct \in Nat BY <3>1, FS_CardinalityType
      <3>3. CASE x \in T
        <4>1. s \cap T = (t \cap T) \cup {x} /\ x \notin t \cap T BY <2>1, <3>3 DEF t
        <4>2. cs = ct + 1 BY <3>1, <4>1, FS_AddElement
        <4>3. more = 1 BY <3>3
        <4> QED BY <3>2, <4>2, <4>3
      <3>4. CASE x \notin T
        <4>1. s \cap T = t \cap T BY <3>4 DEF t
        <4>2. cs = ct BY <4>1
        <4>3. more = 0 BY <3>4
        <4> HIDE DEF cs, ct, more
        <4> QED BY <3>2, <4>2, <4>3
      <3> QED BY <3>3, <3>4
    <2>6. f[x] \in Nat /\ g[x] = f[x] + more /\ more \in Nat BY <2>1
    <2>7. (\A y \in S : f[y] = 0) => f[x] = 0 BY <2>1
    <2> HIDE DEF more, ct, cs
    <2>8. G[t] = F[t] + ct /\ F[t] \in Nat BY <2>4 DEF ct
    <2>9. F[s] \in Nat /\ G[s] = F[s] + cs BY <2>2, <2>5, <2>6, <2>8
    <2>10. (\A y \in S : f[y] = 0) => F[s] = 0 BY <2>2, <2>4, <2>7
    <2> QED BY <2>9, <2>10 DEF cs
  <1> DEFINE N == Cardinality(S)
  <1>5. N \in Nat BY FS_CardinalityType
  <1> HIDE DEF Ns
  <1>6. N \in Ns BY <1>3, <1>4, <1>5, NumbersInductive
  <1>7. S \in SubsetsUpTo(S, N) BY <1>5 DEF SubsetsUpTo
  <1>8. Fine(S) BY <1>6, <1>7 DEF Ns
  <1>9. S \cap T = T OBVIOUS
  <1> QED BY <1>8, <1>9, SumUnfold DEF F, G

(* The same of functions; f may differ from g at one place only. *)
LEMMA SumMore ==
    ASSUME NEW S, IsFiniteSet(S), NEW T \in SUBSET S, NEW f \in [S -> Nat],
           NEW g \in [S -> Nat], \A x \in S : g[x] = f[x] + IF x \in T THEN 1 ELSE 0
    PROVE  /\ SumFunction(f) \in Nat
           /\ SumFunction(g) = SumFunction(f) + Cardinality(T)
  <1>1. DOMAIN f = S /\ DOMAIN g = S OBVIOUS
  <1>2. /\ SumFunctionOnSet(f, S) \in Nat
        /\ SumFunctionOnSet(g, S) = SumFunctionOnSet(f, S) + Cardinality(T)
    BY SumGrows
  <1> QED BY <1>1, <1>2 DEF SumFunction

LEMMA SumOneMore ==
    ASSUME NEW S, IsFiniteSet(S), NEW x \in S, NEW f \in [S -> Nat],
           NEW g \in [S -> Nat], g[x] = f[x] + 1, \A y \in S \ {x} : g[y] = f[y]
    PROVE  SumFunction(f) \in Nat /\ SumFunction(g) = SumFunction(f) + 1
  <1>1. {x} \in SUBSET S /\ Cardinality({x}) = 1 BY FS_Singleton
  <1>2. \A y \in S : g[y] = f[y] + IF y \in {x} THEN 1 ELSE 0 OBVIOUS
  <1>3. SumFunction(f) \in Nat /\ SumFunction(g) = SumFunction(f) + Cardinality({x})
    BY <1>1, <1>2, SumMore
  <1> QED BY <1>1, <1>3

LEMMA SumType ==
    ASSUME NEW S, IsFiniteSet(S), NEW f \in [S -> Nat] PROVE SumFunction(f) \in Nat
  <1>1. PICK T \in SUBSET S : T = {} OBVIOUS
  <1>2. \A x \in S : f[x] \in Nat /\ f[x] = f[x] + IF x \in T THEN 1 ELSE 0 BY <1>1
  <1>3. SumFunctionOnSet(f, S) \in Nat BY <1>2, SumGrows
  <1>4. DOMAIN f = S OBVIOUS
  <1> QED BY <1>3, <1>4 DEF SumFunction

LEMMA SumZero ==
    ASSUME NEW S, IsFiniteSet(S), NEW f \in [S -> Nat], \A x \in S : f[x] = 0
    PROVE  SumFunction(f) = 0
  <1>1. PICK T \in SUBSET S : T = {} OBVIOUS
  <1>2. DOMAIN f = S OBVIOUS
  <1>3. \A x \in S : f[x] \in Nat /\ f[x] = f[x] + IF x \in T THEN 1 ELSE 0 BY <1>1
  <1>4. SumFunctionOnSet(f, S) = 0 BY <1>3, SumGrows
  <1> QED BY <1>2, <1>4 DEF SumFunction

LEMMA SumSingle ==
    ASSUME NEW S, IsFiniteSet(S), NEW x \in S, NEW f \in [S -> Nat],
           f[x] = 1, \A y \in S \ {x} : f[y] = 0
    PROVE  SumFunction(f) = 1
  <1> DEFINE zero == [y \in S |-> 0]
  <1>1. zero \in [S -> Nat] /\ \A y \in S : zero[y] = 0 OBVIOUS
  <1> HIDE DEF zero
  <1>2. f[x] = zero[x] + 1 /\ \A y \in S \ {x} : f[y] = zero[y] BY <1>1
  <1>3. SumFunction(zero) = 0 BY <1>1, SumZero
  <1>4. SumFunction(f) = SumFunction(zero) + 1 BY <1>1, <1>2, SumOneMore
  <1> QED BY <1>3, <1>4

-----------------------------------------------------------------------------
(* The cooldown. *)

UpdatesSince(r, k) == Count(recent[r], k, {Update})
AlertsSince(r, k) == Count(recent[r], k, Events)

(* Replicas with r still to come in their evaluation that do not know of the
   last u updates of its statistics, those that are about to write them, and
   those that can raise no alert of r before they read the rules again. *)
Blind(r, u) ==
    {c \in Replicas : r \in todo[c] /\ fired[c] # r /\ seen[c][r] + u <= fireCount[r]}
Firing(r) == {c \in Replicas : fired[c] = r}
Spent(r, u) == IF u = 0 THEN Firing(r) ELSE Replicas \ Blind(r, u)

(* Alerts since any point of the window were raised by different replicas,
   each of which is spent as far as the updates since then tell. *)
Bounded(r) ==
    \A k \in 0..Len(recent[r]) :
        AlertsSince(r, k) <= Cardinality(Spent(r, UpdatesSince(r, k))) + unrecorded[r]

EvaluationInOrder ==
    \A c \in Replicas :
        /\ todo[c] # {} => event[c] # NoEvent
        /\ fired[c] # NoRule => fired[c] \in todo[c]

CooldownInv == TypeOK /\ EvaluationInOrder /\ \A r \in Rules : Bounded(r)

LEMMA SpentFinite ==
    ASSUME NEW r \in Rules, NEW u
    PROVE  /\ IsFiniteSet(Spent(r, u)) /\ Cardinality(Spent(r, u)) \in Nat
           /\ Cardinality(Spent(r, u)) <= Cardinality(Replicas)
           /\ Cardinality(Replicas) \in Nat
  <1>1. Spent(r, u) \in SUBSET Replicas BY DEF Spent, Firing
  <1>2. IsFiniteSet(Replicas) BY InputsAssumption
  <1> QED BY <1>1, <1>2, FS_Subset, FS_CardinalityType

(* A rule whose window stays as it is is bounded as long as no replica that is
   spent becomes able to fire. *)
LEMMA BoundedFrame ==
    ASSUME NEW r \in Rules, Bounded(r), TypeOK,
           UNCHANGED <<recent[r], unrecorded[r]>>,
           \A u \in Nat : Spent(r, u) \subseteq Spent(r, u)'
    PROVE  Bounded(r)'
  <1> SUFFICES ASSUME NEW k \in 0..Len(recent[r])
               PROVE  AlertsSince(r, k) <= Cardinality(Spent(r, UpdatesSince(r, k)))'
                                             + unrecorded[r]
    BY DEF Bounded, AlertsSince, UpdatesSince
  <1>1. recent[r] \in Seq(Events \cup {Update}) /\ k \in Nat /\ unrecorded[r] \in Nat
    BY DEF TypeOK
  <1>2. UpdatesSince(r, k) \in Nat /\ AlertsSince(r, k) \in Nat
    BY <1>1, PlacesFinite DEF UpdatesSince, AlertsSince
  <1>3. PICK u \in Nat : u = UpdatesSince(r, k) BY <1>2
  <1>4. u = UpdatesSince(r, k)' BY <1>3 DEF UpdatesSince
  <1> DEFINE was == Spent(r, u)
             is == Spent(r, u)'
  <1>5. is \in SUBSET Replicas BY DEF Spent, Firing
  <1>6. IsFiniteSet(is) /\ Cardinality(is) \in Nat
    BY <1>5, InputsAssumption, FS_Subset, FS_CardinalityType
  <1>7. was \in SUBSET is OBVIOUS
  <1>8. AlertsSince(r, k) <= Cardinality(was) + unrecorded[r] BY <1>3 DEF Bounded
  <1>9. Cardinality(was) \in Nat BY SpentFinite
  <1>10. Cardinality(Spent(r, UpdatesSince(r, k)))' = Cardinality(is) BY <1>4
  <1> HIDE DEF was, is
  <1>11. Cardinality(was) <= Cardinality(is) BY <1>6, <1>7, FS_Subset
  <1> QED BY <1>1, <1>2, <1>6, <1>8, <1>9, <1>10, <1>11

LEMMA TimesCount ==
    ASSUME NEW S, NEW s \in Seq(S), NEW x
    PROVE  Times(x, s) = Count(s, 0, {x})
  <1>1. {i \in DOMAIN s : s[i] = x} = Places(s, 0, {x}) BY DEF Places
  <1> QED BY <1>1 DEF Times, Count

(* One evaluation keeps its types and its order. *)
LEMMA TypesKept ==
    ASSUME TypeOK, EvaluationInOrder, Next
    PROVE  TypeOK' /\ EvaluationInOrder'
  <1> USE InputsAssumption DEF TypeOK, EvaluationInOrder
  <1> USE DEF ruleVars, groupVars, evalVars, histVars
  <1>1. ASSUME NEW c \in Replicas, NEW p \in Partitions, Poll(c, p)
        PROVE  TypeOK' /\ EvaluationInOrder'
    <2>1. Log[p][pos[p] + 1] \in Events
      <3>1. pos[p] + 1 \in 1..Len(Log[p]) BY <1>1 DEF Poll
      <3> QED BY <3>1 DEF Events
    <2> DEFINE e == Log[p][pos[p] + 1]
               next == {r \in active : <<r, e>> \in Matches}
    <2>2. /\ event' = [event EXCEPT ![c] = e] /\ todo' = [todo EXCEPT ![c] = next]
          /\ seen' = [seen EXCEPT ![c] = fireCount]
          /\ pos' = [pos EXCEPT ![p] = pos[p] + 1]
          /\ UNCHANGED <<ruleVars, up, owner, moves, fired, histVars>>
      BY <1>1 DEF Poll
    <2>3. e \in Events /\ e # NoEvent /\ next \in SUBSET Rules BY <2>1
    <2>4. fired[c] = NoRule BY <1>1 DEF Poll
    <2> HIDE DEF e, next
    <2>5. TypeOK' BY <2>2, <2>3
    <2>6. EvaluationInOrder' BY <2>2, <2>3, <2>4
    <2> QED BY <2>5, <2>6
  <1>2. ASSUME NEW c \in Replicas, NEW r \in Rules, Skip(c, r)
        PROVE  TypeOK' /\ EvaluationInOrder'
    BY <1>2 DEF Skip
  <1>3. ASSUME NEW c \in Replicas, NEW r \in Rules, Fire(c, r)
        PROVE  TypeOK' /\ EvaluationInOrder'
    <2>1. event[c] \in Events BY <1>3 DEF Fire
    <2>2. Append(recent[r], event[c]) \in Seq(Events \cup {Update}) BY <2>1
    <2> QED BY <1>3, <2>1, <2>2 DEF Fire
  <1>4. ASSUME NEW c \in Replicas, Record(c)
        PROVE  TypeOK' /\ EvaluationInOrder'
    <2>1. fired[c] \in Rules BY <1>4 DEF Record
    <2>2. Append(recent[fired[c]], Update) \in Seq(Events \cup {Update}) BY <2>1
    <2> QED BY <1>4, <2>1, <2>2 DEF Record
  <1>5. ASSUME NEW c \in Replicas, Finish(c) \/ Abort(c) \/ Crash(c)
        PROVE  TypeOK' /\ EvaluationInOrder'
    <2>1. Leave(c) /\ UNCHANGED <<active, fireCount, recent, office, owner, pos>>
      BY <1>5 DEF Finish, Abort, Crash
    <2>2. NothingSeen \in [Rules -> Nat] BY DEF NothingSeen
    <2>3. /\ event' \in [Replicas -> Events \cup {NoEvent}]
          /\ todo' \in [Replicas -> SUBSET Rules]
          /\ seen' \in [Replicas -> [Rules -> Nat]]
          /\ fired' \in [Replicas -> Rules \cup {NoRule}]
          /\ unrecorded' \in [Rules -> Nat]
      BY <2>1, <2>2 DEF Leave
    <2>4. outcome' \in [Events -> SUBSET {"evaluated", "failed"}]
      <3>1. CASE Finish(c)
        <4>1. event[c] \in Events BY <3>1 DEF Finish
        <4> QED BY <3>1, <4>1 DEF Finish
      <3>2. CASE Abort(c)
        <4>1. event[c] \in Events BY <3>2 DEF Abort
        <4> QED BY <3>2, <4>1 DEF Abort
      <3>3. CASE Crash(c) BY <3>3 DEF Crash
      <3> QED BY <1>5, <3>1, <3>2, <3>3
    <2>5. up' \subseteq Replicas /\ moves' \in 0..MaxMoves
      BY <1>5 DEF Finish, Abort, Crash
    <2>6. TypeOK' BY <2>1, <2>3, <2>4, <2>5
    <2>7. EvaluationInOrder' BY <2>1 DEF Leave
    <2> QED BY <2>6, <2>7
  <1>6. ASSUME NEW c \in Replicas, Restart(c)
        PROVE  TypeOK' /\ EvaluationInOrder'
    BY <1>6 DEF Restart, Resume
  <1>7. ASSUME NEW p \in Partitions, NEW c \in Replicas, Assign(p, c)
        PROVE  TypeOK' /\ EvaluationInOrder'
    BY <1>7 DEF Assign, Resume
  <1>8. ASSUME NEW r \in Rules, SetStatus(r)
        PROVE  TypeOK' /\ EvaluationInOrder'
    BY <1>8 DEF SetStatus
  <1>9. ASSUME NEW r \in Rules, Elapse(r)
        PROVE  TypeOK' /\ EvaluationInOrder'
    <2>1. recent[r] \in Seq(Events \cup {Update}) /\ recent[r] # <<>> BY <1>9 DEF Elapse
    <2>2. Tail(recent[r]) \in Seq(Events \cup {Update}) BY <2>1
    <2> QED BY <1>9, <2>2 DEF Elapse
  <1>10. CASE Hour BY <1>10 DEF Hour
  <1> QED
    BY <1>1, <1>2, <1>3, <1>4, <1>5, <1>6, <1>7, <1>8, <1>9, <1>10 DEF Next, Step

(* The firing replica was not spent, and is now. *)
LEMMA FireBounded ==
    ASSUME CooldownInv, NEW c \in Replicas, NEW s \in Rules, Fire(c, s)
    PROVE  \A r \in Rules : Bounded(r)'
  <1> USE DEF CooldownInv
  <1>1. ASSUME NEW r \in Rules, r # s PROVE Bounded(r)'
    <2>1. UNCHANGED <<recent[r], unrecorded[r]>> BY <1>1 DEF Fire, histVars, TypeOK
    <2>2. \A u \in Nat : Spent(r, u) \subseteq Spent(r, u)'
      <3> SUFFICES ASSUME NEW u \in Nat, NEW d \in Spent(r, u) PROVE d \in Spent(r, u)'
        OBVIOUS
      <3>1. /\ d \in Replicas /\ fired'[d] = IF d = c THEN s ELSE fired[d]
            /\ UNCHANGED <<todo, seen, fireCount>>
            /\ fired[c] = NoRule /\ NoRule # r
        BY InputsAssumption DEF Fire, TypeOK, Spent, Firing
      <3> QED BY <1>1, <3>1 DEF Spent, Firing, Blind
    <2> QED BY <2>1, <2>2, BoundedFrame
  <1>2. Bounded(s)'
    <2> SUFFICES ASSUME NEW k \in 0..Len(recent'[s])
                 PROVE  AlertsSince(s, k)'
                          <= Cardinality(Spent(s, UpdatesSince(s, k)))' + unrecorded'[s]
      BY DEF Bounded
    <2> DEFINE h == recent[s]
    <2>1. /\ h \in Seq(Events \cup {Update}) /\ event[c] \in Events
          /\ event[c] \notin {Update} /\ unrecorded'[s] = unrecorded[s]
          /\ unrecorded[s] \in Nat
      BY InputsAssumption DEF Fire, TypeOK, EvaluationInOrder, histVars
    <2>2. recent'[s] = Append(h, event[c]) BY DEF Fire, TypeOK
    <2>3. k \in Nat /\ Len(h) \in Nat /\ Len(recent'[s]) = Len(h) + 1 BY <2>1, <2>2
    <2>4. CASE k = Len(h) + 1
      <3>1. recent'[s] \in Seq(Events \cup {Update}) BY <2>1, <2>2
      <3>2. AlertsSince(s, k)' = 0
        BY <2>3, <2>4, <3>1, CountNone DEF AlertsSince
      <3>3. Cardinality(Spent(s, UpdatesSince(s, k)))' \in Nat
        <4>1. Spent(s, UpdatesSince(s, k))' \in SUBSET Replicas BY DEF Spent, Firing
        <4> QED BY <4>1, InputsAssumption, FS_Subset, FS_CardinalityType
      <3> QED BY <2>1, <3>2, <3>3
    <2>5. CASE k \in 0..Len(h)
      <3>1. /\ AlertsSince(s, k)' = AlertsSince(s, k) + 1
            /\ UpdatesSince(s, k)' = UpdatesSince(s, k)
        <4> HIDE DEF h
        <4>1. /\ Count(Append(h, event[c]), k, Events) = Count(h, k, Events) + 1
              /\ Count(Append(h, event[c]), k, {Update}) = Count(h, k, {Update}) + 0
          BY <2>1, <2>5, CountAppend
        <4>2. Count(h, k, {Update}) \in Nat BY <2>1, <2>3, PlacesFinite
        <4> QED BY <2>2, <4>1, <4>2 DEF AlertsSince, UpdatesSince, h
      <3>2. /\ UpdatesSince(s, k) \in Nat /\ UpdatesSince(s, 0) \in Nat
            /\ UpdatesSince(s, k) <= UpdatesSince(s, 0) /\ AlertsSince(s, k) \in Nat
        BY <2>1, <2>3, PlacesFinite, CountLater DEF UpdatesSince, AlertsSince
      <3>3. PICK u \in Nat : u = UpdatesSince(s, k) BY <3>2
      <3> DEFINE was == Spent(s, u)
                 is == Spent(s, u)'
      <3>4. UpdatesSince(s, 0) = Times(Update, recent[s])
        BY <2>1, TimesCount DEF UpdatesSince
      <3>5. seen[c][s] + u <= fireCount[s] /\ s \in todo[c] /\ fired[c] = NoRule
        BY <3>2, <3>3, <3>4 DEF Fire, Cooling, TypeOK
      <3>6. c \notin was
        BY <3>5, InputsAssumption DEF Spent, Firing, Blind
      <3>7. was \cup {c} \subseteq is
        BY <3>5, InputsAssumption DEF Spent, Firing, Blind, Fire, TypeOK
      <3>8. /\ is \in SUBSET Replicas BY DEF Spent, Firing
      <3>9. IsFiniteSet(is) /\ Cardinality(is) \in Nat
        BY <3>8, InputsAssumption, FS_Subset, FS_CardinalityType
      <3>10. IsFiniteSet(was) /\ Cardinality(was) \in Nat BY SpentFinite
      <3>11. AlertsSince(s, k) <= Cardinality(was) + unrecorded[s]
        BY <2>5, <3>3 DEF Bounded
      <3>12. Cardinality(Spent(s, UpdatesSince(s, k)))' = Cardinality(is)
        BY <3>1, <3>3
      <3> HIDE DEF was, is
      <3>13. Cardinality(was \cup {c}) = Cardinality(was) + 1
        BY <3>6, <3>10, FS_AddElement
      <3>14. Cardinality(was \cup {c}) <= Cardinality(is) BY <3>7, <3>9, FS_Subset
      <3> QED BY <2>1, <3>1, <3>2, <3>9, <3>10, <3>11, <3>12, <3>13, <3>14
    <2> QED BY <2>3, <2>4, <2>5
  <1> QED BY <1>1, <1>2

(* A window that begins at the end has no alerts. *)
LEMMA NoAlertsLeft ==
    ASSUME NEW r \in Rules, TypeOK',  UpdatesSince(r, Len(recent[r]))' \in Nat
    PROVE  /\ AlertsSince(r, Len(recent[r]))' = 0
           /\ 0 <= Cardinality(Spent(r, UpdatesSince(r, Len(recent[r]))))' + unrecorded'[r]
  <1>1. recent'[r] \in Seq(Events \cup {Update}) /\ unrecorded'[r] \in Nat BY DEF TypeOK
  <1>2. Spent(r, UpdatesSince(r, Len(recent[r])))' \in SUBSET Replicas
    BY DEF Spent, Firing
  <1>3. Cardinality(Spent(r, UpdatesSince(r, Len(recent[r]))))' \in Nat
    BY <1>2, InputsAssumption, FS_Subset, FS_CardinalityType
  <1>4. AlertsSince(r, Len(recent[r]))' = 0 BY <1>1, CountNone DEF AlertsSince
  <1> QED BY <1>1, <1>3, <1>4

(* One update more in every window, and every replica that is to fire does not
   know of that one either. *)
LEMMA RecordBounded ==
    ASSUME CooldownInv, TypeOK', NEW c \in Replicas, Record(c)
    PROVE  \A r \in Rules : Bounded(r)'
  <1>0. PICK s \in Rules : s = fired[c] BY DEF Record, CooldownInv, TypeOK
  <1>1. s \in Rules /\ s \in todo[c] /\ s # NoRule
    BY <1>0, InputsAssumption DEF Record, CooldownInv, TypeOK, EvaluationInOrder
  <1>2. /\ fireCount' = [fireCount EXCEPT ![s] = @ + 1]
        /\ recent' = [recent EXCEPT ![s] = Append(@, Update)]
        /\ todo' = [todo EXCEPT ![c] = @ \ {s}]
        /\ fired' = [fired EXCEPT ![c] = NoRule]
        /\ UNCHANGED <<seen, unrecorded>>
    BY <1>0 DEF Record, histVars
  <1> USE DEF CooldownInv
  <1>4. ASSUME NEW r \in Rules, r # s PROVE Bounded(r)'
    <2>1. UNCHANGED <<recent[r], unrecorded[r]>> BY <1>1, <1>2, <1>4 DEF TypeOK
    <2>2. \A u \in Nat : Spent(r, u) \subseteq Spent(r, u)'
      <3> SUFFICES ASSUME NEW u \in Nat, NEW d \in Spent(r, u) PROVE d \in Spent(r, u)'
        OBVIOUS
      <3>1. /\ d \in Replicas /\ fired'[d] = IF d = c THEN NoRule ELSE fired[d]
            /\ todo'[d] = IF d = c THEN todo[c] \ {s} ELSE todo[d]
            /\ fireCount'[r] = fireCount[r] /\ seen' = seen
            /\ NoRule # r
        BY <1>1, <1>2, <1>4, InputsAssumption DEF TypeOK, Spent, Firing
      <3> QED BY <1>0, <1>4, <3>1 DEF Spent, Firing, Blind
    <2> QED BY <2>1, <2>2, BoundedFrame
  <1>5. Bounded(s)'
    <2> SUFFICES ASSUME NEW k \in 0..Len(recent'[s])
                 PROVE  AlertsSince(s, k)'
                          <= Cardinality(Spent(s, UpdatesSince(s, k)))' + unrecorded'[s]
      BY DEF Bounded
    <2> DEFINE h == recent[s]
    <2>1. /\ h \in Seq(Events \cup {Update}) /\ Update \notin Events
          /\ unrecorded'[s] = unrecorded[s] /\ unrecorded[s] \in Nat
      BY <1>1, <1>2, InputsAssumption DEF TypeOK
    <2>2. recent'[s] = Append(h, Update) BY <1>1, <1>2 DEF TypeOK
    <2>3. k \in Nat /\ Len(h) \in Nat /\ Len(recent'[s]) = Len(h) + 1 BY <2>1, <2>2
    <2>4. CASE k = Len(h) + 1
      <3>1. UpdatesSince(s, Len(recent[s]))' \in Nat
        <4>1. recent'[s] \in Seq(Events \cup {Update}) /\ Len(recent'[s]) \in Nat
          BY <2>1, <2>2
        <4> QED BY <4>1, PlacesFinite DEF UpdatesSince
      <3> QED BY <1>1, <2>3, <2>4, <3>1, NoAlertsLeft
    <2>5. CASE k \in 0..Len(h)
      <3>1. /\ AlertsSince(s, k) \in Nat /\ UpdatesSince(s, k) \in Nat
            /\ AlertsSince(s, k)' = AlertsSince(s, k)
            /\ UpdatesSince(s, k)' = UpdatesSince(s, k) + 1
        <4> HIDE DEF h
        <4>1. /\ Count(Append(h, Update), k, Events) = Count(h, k, Events) + 0
              /\ Count(Append(h, Update), k, {Update}) = Count(h, k, {Update}) + 1
          BY <2>1, <2>5, CountAppend
        <4>2. Count(h, k, Events) \in Nat /\ Count(h, k, {Update}) \in Nat
          BY <2>1, <2>3, PlacesFinite
        <4> QED BY <2>2, <4>1, <4>2 DEF AlertsSince, UpdatesSince, h
      <3>2. PICK u \in Nat : u = UpdatesSince(s, k) BY <3>1
      <3> DEFINE was == Spent(s, u)
                 is == Spent(s, u + 1)'
      <3>3. was \subseteq is
        <4> SUFFICES ASSUME NEW d \in was PROVE d \in is OBVIOUS
        <4>1. /\ d \in Replicas /\ fired'[d] = IF d = c THEN NoRule ELSE fired[d]
              /\ todo'[d] = IF d = c THEN todo[c] \ {s} ELSE todo[d]
              /\ fireCount'[s] = fireCount[s] + 1 /\ fireCount[s] \in Nat
              /\ seen'[d][s] = seen[d][s] /\ seen[d][s] \in Nat
          BY <1>1, <1>2 DEF TypeOK, Spent, Firing
        <4>2. d \notin Blind(s, u + 1)' BY <1>0, <4>1 DEF Spent, Firing, Blind
        <4> QED BY <4>1, <4>2 DEF Spent
      <3>4. is \in SUBSET Replicas BY DEF Spent, Firing
      <3>5. IsFiniteSet(is) /\ Cardinality(is) \in Nat
        BY <3>4, InputsAssumption, FS_Subset, FS_CardinalityType
      <3>6. Cardinality(was) \in Nat BY <1>1, SpentFinite
      <3>7. AlertsSince(s, k) <= Cardinality(was) + unrecorded[s]
        BY <1>1, <2>5, <3>2 DEF Bounded
      <3>8. Cardinality(Spent(s, UpdatesSince(s, k)))' = Cardinality(is)
        BY <3>1, <3>2
      <3> HIDE DEF was, is
      <3>9. Cardinality(was) <= Cardinality(is) BY <3>3, <3>5, FS_Subset
      <3> QED BY <2>1, <3>1, <3>5, <3>6, <3>7, <3>8, <3>9
    <2> QED BY <2>3, <2>4, <2>5
  <1> QED BY <1>4, <1>5

(* A replica that leaves its evaluation can raise nothing more in it; if it had
   an alert whose statistics are missing, that one is counted apart. *)
LEMMA LeaveBounded ==
    ASSUME CooldownInv, NEW c \in Replicas, Leave(c), UNCHANGED <<recent, fireCount>>
    PROVE  \A r \in Rules : Bounded(r)'
  <1> USE DEF CooldownInv
  <1> TAKE r \in Rules
  <1>1. ASSUME NEW d \in Replicas
        PROVE  /\ fired'[d] = IF d = c THEN NoRule ELSE fired[d]
               /\ todo'[d] = IF d = c THEN {} ELSE todo[d]
               /\ d # c => seen'[d] = seen[d]
    BY DEF Leave, TypeOK
  <1>2. NoRule # r BY InputsAssumption
  <1>3. CASE fired[c] # r
    <2>1. UNCHANGED <<recent[r], unrecorded[r]>> BY <1>3 DEF Leave, TypeOK
    <2>2. \A u \in Nat : Spent(r, u) \subseteq Spent(r, u)'
      BY <1>1, <1>2, <1>3 DEF Spent, Firing, Blind
    <2> QED BY <2>1, <2>2, BoundedFrame
  <1>4. CASE fired[c] = r
    <2> SUFFICES ASSUME NEW k \in 0..Len(recent'[r])
                 PROVE  AlertsSince(r, k)'
                          <= Cardinality(Spent(r, UpdatesSince(r, k)))' + unrecorded'[r]
      BY DEF Bounded
    <2>1. /\ recent[r] \in Seq(Events \cup {Update}) /\ k \in 0..Len(recent[r])
          /\ k \in Nat /\ unrecorded[r] \in Nat /\ unrecorded'[r] = unrecorded[r] + 1
      BY <1>4 DEF TypeOK, Leave
    <2>2. UpdatesSince(r, k) \in Nat /\ AlertsSince(r, k) \in Nat
      BY <2>1, PlacesFinite DEF UpdatesSince, AlertsSince
    <2>3. PICK u \in Nat : u = UpdatesSince(r, k) BY <2>2
    <2>4. u = UpdatesSince(r, k)' /\ AlertsSince(r, k)' = AlertsSince(r, k)
      BY <2>3 DEF UpdatesSince, AlertsSince
    <2> DEFINE was == Spent(r, u)
               is == Spent(r, u)'
    <2>5. was \ {c} \subseteq is BY <1>1, <1>2 DEF Spent, Firing, Blind
    <2>6. is \in SUBSET Replicas BY DEF Spent, Firing
    <2>7. IsFiniteSet(is) /\ Cardinality(is) \in Nat
      BY <2>6, InputsAssumption, FS_Subset, FS_CardinalityType
    <2>8. IsFiniteSet(was) /\ Cardinality(was) \in Nat BY SpentFinite
    <2>9. AlertsSince(r, k) <= Cardinality(was) + unrecorded[r]
      BY <2>1, <2>3 DEF Bounded
    <2>10. Cardinality(Spent(r, UpdatesSince(r, k)))' = Cardinality(is) BY <2>4
    <2> HIDE DEF was, is
    <2>11. Cardinality(was \ {c}) >= Cardinality(was) - 1
           /\ Cardinality(was \ {c}) \in Nat
      <3>1. /\ IsFiniteSet(was \ {c})
            /\ \/ Cardinality(was \ {c}) = Cardinality(was) - 1
               \/ Cardinality(was \ {c}) = Cardinality(was)
        BY <2>8, FS_RemoveElement
      <3>2. Cardinality(was \ {c}) \in Nat BY <3>1, FS_CardinalityType
      <3> QED BY <2>8, <3>1, <3>2
    <2>12. Cardinality(was \ {c}) <= Cardinality(is) BY <2>5, <2>7, FS_Subset
    <2> QED BY <2>1, <2>2, <2>4, <2>7, <2>8, <2>9, <2>10, <2>11, <2>12
  <1> QED BY <1>3, <1>4

(* Every window of the rest of a sequence is one of the sequence. *)
LEMMA ElapseBounded ==
    ASSUME CooldownInv, NEW s \in Rules, Elapse(s)
    PROVE  \A r \in Rules : Bounded(r)'
  <1> USE DEF CooldownInv
  <1>1. /\ recent' = [recent EXCEPT ![s] = Tail(@)] /\ recent[s] # <<>>
        /\ UNCHANGED <<unrecorded, fireCount, todo, seen, fired>>
    BY DEF Elapse, evalVars, histVars
  <1>2. \A r \in Rules, u \in Nat : Spent(r, u)' = Spent(r, u)
    BY <1>1 DEF Spent, Firing, Blind
  <1>3. ASSUME NEW r \in Rules, r # s PROVE Bounded(r)'
    <2>1. UNCHANGED <<recent[r], unrecorded[r]>> BY <1>1, <1>3 DEF TypeOK
    <2>2. \A u \in Nat : Spent(r, u) \subseteq Spent(r, u)' BY <1>2
    <2> QED BY <2>1, <2>2, BoundedFrame
  <1>4. Bounded(s)'
    <2> SUFFICES ASSUME NEW k \in 0..Len(recent'[s])
                 PROVE  AlertsSince(s, k)'
                          <= Cardinality(Spent(s, UpdatesSince(s, k)))' + unrecorded'[s]
      BY DEF Bounded
    <2> DEFINE h == recent[s]
    <2>1. h \in Seq(Events \cup {Update}) /\ h # <<>> BY <1>1 DEF TypeOK
    <2>2. recent'[s] = Tail(h) BY <1>1 DEF TypeOK
    <2>3. /\ k \in 0..(Len(h) - 1) /\ k + 1 \in 0..Len(h) /\ k + 1 \in Nat
      BY <2>1, <2>2
    <2>4. /\ AlertsSince(s, k)' = AlertsSince(s, k + 1)
          /\ UpdatesSince(s, k)' = UpdatesSince(s, k + 1)
      <3> HIDE DEF h
      <3>1. /\ Count(Tail(h), k, Events) = Count(h, k + 1, Events)
            /\ Count(Tail(h), k, {Update}) = Count(h, k + 1, {Update})
        BY <2>1, <2>3, CountTail
      <3> QED BY <2>2, <3>1 DEF AlertsSince, UpdatesSince, h
    <2>5. UpdatesSince(s, k + 1) \in Nat BY <2>1, <2>3, PlacesFinite DEF UpdatesSince
    <2>6. PICK u \in Nat : u = UpdatesSince(s, k + 1) BY <2>5
    <2>7. Spent(s, UpdatesSince(s, k))' = Spent(s, u)
      <3>1. Spent(s, UpdatesSince(s, k))' = Spent(s, u)' BY <2>4, <2>6
      <3> QED BY <1>2, <3>1
    <2>8. AlertsSince(s, k + 1) <= Cardinality(Spent(s, u)) + unrecorded[s]
      BY <2>3, <2>6 DEF Bounded
    <2>9. Cardinality(Spent(s, UpdatesSince(s, k)))' = Cardinality(Spent(s, u)) BY <2>7
    <2> QED BY <1>1, <2>4, <2>8, <2>9
  <1> QED BY <1>3, <1>4

(* Steps that fire nothing and write no statistics. *)
LEMMA QuietBounded ==
    ASSUME CooldownInv, UNCHANGED <<recent, unrecorded, fireCount, fired>>,
           \A c \in Replicas : \/ todo'[c] \subseteq todo[c] /\ seen'[c] = seen[c]
                               \/ todo[c] = {} /\ seen'[c] = fireCount
    PROVE  \A r \in Rules : Bounded(r)'
  <1> USE DEF CooldownInv
  <1> TAKE r \in Rules
  <1>1. \A u \in Nat : Spent(r, u) \subseteq Spent(r, u)'
    <2> SUFFICES ASSUME NEW u \in Nat, u # 0 PROVE Blind(r, u)' \subseteq Blind(r, u)
      BY DEF Spent, Firing
    <2> SUFFICES ASSUME NEW c \in Replicas, c \in Blind(r, u)' PROVE c \in Blind(r, u)
      BY DEF Blind
    <2>1. /\ r \in todo'[c] /\ fired[c] # r /\ seen'[c][r] + u <= fireCount[r]
          /\ fireCount[r] \in Nat
      BY DEF Blind, TypeOK
    <2>2. seen'[c] # fireCount BY <2>1
    <2> QED BY <2>1, <2>2 DEF Blind
  <1> QED BY <1>1, BoundedFrame

LEMMA CooldownInit == Init => CooldownInv
  <1> SUFFICES ASSUME Init PROVE CooldownInv OBVIOUS
  <1>1. TypeOK
    BY InputsAssumption DEF Init, TypeOK, NothingSeen
  <1>2. EvaluationInOrder BY DEF Init, EvaluationInOrder
  <1>3. ASSUME NEW r \in Rules PROVE Bounded(r)
    <2> SUFFICES ASSUME NEW k \in 0..Len(recent[r])
                 PROVE  AlertsSince(r, k)
                          <= Cardinality(Spent(r, UpdatesSince(r, k))) + unrecorded[r]
      BY DEF Bounded
    <2>1. recent[r] = <<>> /\ unrecorded[r] = 0 BY DEF Init
    <2>2. k = Len(recent[r]) /\ recent[r] \in Seq(Events \cup {Update}) BY <2>1
    <2>3. AlertsSince(r, k) = 0 BY <2>2, CountNone DEF AlertsSince
    <2>4. Cardinality(Spent(r, UpdatesSince(r, k))) \in Nat BY SpentFinite
    <2> QED BY <2>1, <2>3, <2>4
  <1> QED BY <1>1, <1>2, <1>3 DEF CooldownInv

LEMMA CooldownStep == CooldownInv /\ [Next]_vars => CooldownInv'
  <1> SUFFICES ASSUME CooldownInv, [Next]_vars PROVE CooldownInv' OBVIOUS
  <1>1. CASE UNCHANGED vars
    <2>1. TypeOK' /\ EvaluationInOrder'
      BY <1>1 DEF CooldownInv, TypeOK, EvaluationInOrder, vars, ruleVars, groupVars,
                  evalVars, histVars
    <2>2. \A r \in Rules : Bounded(r)'
      BY <1>1, QuietBounded DEF vars, ruleVars, evalVars, histVars
    <2> QED BY <2>1, <2>2 DEF CooldownInv
  <1>2. CASE Next
    <2> USE DEF CooldownInv
    <2>1. TypeOK' /\ EvaluationInOrder' BY <1>2, TypesKept
    <2> SUFFICES \A r \in Rules : Bounded(r)' BY <2>1
    <2>2. ASSUME NEW c \in Replicas, NEW p \in Partitions, Poll(c, p)
          PROVE  \A r \in Rules : Bounded(r)'
      <3>1. todo[c] = {} BY <2>2 DEF Poll, EvaluationInOrder
      <3>2. \A d \in Replicas : \/ todo'[d] \subseteq todo[d] /\ seen'[d] = seen[d]
                                \/ todo[d] = {} /\ seen'[d] = fireCount
        BY <2>2, <3>1 DEF Poll, TypeOK
      <3> QED BY <2>2, <3>2, QuietBounded DEF Poll, ruleVars, histVars
    <2>3. ASSUME NEW c \in Replicas, NEW r \in Rules, Skip(c, r)
          PROVE  \A s \in Rules : Bounded(s)'
      <3>1. \A d \in Replicas : todo'[d] \subseteq todo[d] /\ seen'[d] = seen[d]
        BY <2>3 DEF Skip, TypeOK
      <3> QED BY <2>3, <3>1, QuietBounded DEF Skip, ruleVars, histVars
    <2>4. ASSUME NEW c \in Replicas, NEW r \in Rules, Fire(c, r)
          PROVE  \A s \in Rules : Bounded(s)'
      BY <2>4, FireBounded
    <2>5. ASSUME NEW c \in Replicas, Record(c) PROVE \A r \in Rules : Bounded(r)'
      BY <2>1, <2>5, RecordBounded
    <2>6. ASSUME NEW c \in Replicas, Finish(c) \/ Abort(c) \/ Crash(c)
          PROVE  \A r \in Rules : Bounded(r)'
      BY <2>6, LeaveBounded DEF Finish, Abort, Crash, ruleVars
    <2>7. ASSUME NEW r \in Rules, Elapse(r) PROVE \A s \in Rules : Bounded(s)'
      BY <2>7, ElapseBounded
    <2>8. ASSUME UNCHANGED <<fireCount, recent, evalVars, histVars>>
          PROVE  \A r \in Rules : Bounded(r)'
      BY <2>8, QuietBounded DEF evalVars, histVars
    <2>9. \/ \E c \in Replicas, p \in Partitions : Poll(c, p)
          \/ \E c \in Replicas, r \in Rules : Skip(c, r) \/ Fire(c, r)
          \/ \E c \in Replicas : Record(c) \/ Finish(c) \/ Abort(c) \/ Crash(c)
          \/ \E r \in Rules : Elapse(r)
          \/ UNCHANGED <<fireCount, recent, evalVars, histVars>>
      BY <1>2 DEF Next, Step, Restart, Assign, SetStatus, Hour, ruleVars
    <2> QED BY <2>2, <2>3, <2>4, <2>5, <2>6, <2>7, <2>8, <2>9
  <1> QED BY <1>1, <1>2

(* Each replica has at most one alert of a rule within its cooldown that its next
   reading of the rule would not show, however partitions change hands. *)
LEMMA RulesInvariant == Spec => []CooldownInv
  BY CooldownInit, CooldownStep, PTL DEF Spec

LEMMA CooldownImplies == CooldownInv => AlertsPerCooldownBounded
  <1> SUFFICES ASSUME CooldownInv, NEW r \in Rules
               PROVE  AlertsInWindow(r) <= Cardinality(Replicas) + unrecorded[r]
    BY DEF AlertsPerCooldownBounded
  <1> DEFINE h == recent[r]
             u == UpdatesSince(r, 0)
  <1>1. h \in Seq(Events \cup {Update}) /\ unrecorded[r] \in Nat
    BY DEF CooldownInv, TypeOK
  <1>2. Times(Update, h) = Count(h, 0, {Update}) BY <1>1, TimesCount
  <1>3. (Events \cup {Update}) \ {Update} = Events BY InputsAssumption
  <1>4. Count(h, 0, Events) = Len(h) - Count(h, 0, {Update})
    BY <1>1, <1>3, CountRest
  <1>5. AlertsInWindow(r) = AlertsSince(r, 0)
    BY <1>2, <1>4 DEF AlertsInWindow, AlertsSince
  <1>6. 0 \in 0..Len(h) BY <1>1
  <1>7. AlertsSince(r, 0) <= Cardinality(Spent(r, u)) + unrecorded[r]
    BY <1>6 DEF CooldownInv, Bounded
  <1>8. /\ Cardinality(Spent(r, u)) \in Nat /\ Cardinality(Replicas) \in Nat
        /\ Cardinality(Spent(r, u)) <= Cardinality(Replicas)
    BY SpentFinite
  <1>9. AlertsSince(r, 0) \in Nat BY <1>1, PlacesFinite DEF AlertsSince
  <1> HIDE DEF h, u
  <1> QED BY <1>1, <1>5, <1>7, <1>8, <1>9

-----------------------------------------------------------------------------
(* Settings. *)

(* A request that has found its row writes just the columns it was given, and
   rows are never taken away. *)
AsAsked(q) ==
    LET req == request[q]
    IN  /\ req = [stage |-> req.stage, item |-> req.item, data |-> req.data,
                  sets |-> req.data]
        /\ req.item \in Settings /\ DOMAIN req.data \subseteq Columns
        /\ item[req.item] # NoRow

SettingsInv ==
    /\ SettingsTypeOK /\ EditsKept
    /\ DOMAIN latest = Settings
    /\ \A q \in Requests : request[q] # NoRequest => AsAsked(q)

(* A row with columns replaced is a row. *)
LEMMA Merged ==
    ASSUME NEW row, NEW data, DOMAIN row = Columns, DOMAIN data \subseteq Columns
    PROVE  DOMAIN Overlay(data, row) = Columns /\ Overlay(data, row) # NoRow
  <1>1. DOMAIN Overlay(data, row) = Columns BY DEF Overlay
  <1>2. DOMAIN NoRow = {} BY DEF NoRow
  <1>3. Columns # {} BY DEF Columns
  <1> QED BY <1>1, <1>2, <1>3

LEMMA SettingsInitially == SettingsInit => SettingsInv
  <1> SUFFICES ASSUME SettingsInit PROVE SettingsInv OBVIOUS
  <1>1. item = [i \in Settings |-> IF i \in GlobalRules THEN Foreign[i] ELSE NoRow]
    BY DEF SettingsInit
  <1>2. \A i \in Settings : item[i] = NoRow \/ DOMAIN item[i] = Columns
    BY <1>1, SettingsAssumption
  <1>3. SettingsTypeOK
    BY <1>1, <1>2, SettingsAssumption DEF SettingsInit, SettingsTypeOK, NoRequest
  <1>4. EditsKept /\ DOMAIN latest = Settings BY <1>1 DEF SettingsInit, EditsKept
  <1> QED BY <1>3, <1>4 DEF SettingsInit, SettingsInv

LEMMA SettingsStep == SettingsInv /\ [SettingsNext]_settingsVars => SettingsInv'
  <1> SUFFICES ASSUME SettingsInv, [SettingsNext]_settingsVars PROVE SettingsInv' OBVIOUS
  <1> USE DEF SettingsInv, SettingsTypeOK
  <1>1. ASSUME NEW i \in Settings, NEW row \in Bodies[i], Create(i, row)
        PROVE  SettingsInv'
    <2>1. row # NoRow
      <3>1. DOMAIN row # {} BY <1>1 DEF Create, Columns
      <3>2. DOMAIN NoRow = {} BY DEF NoRow
      <3> QED BY <3>1, <3>2
    <2>2. /\ DOMAIN row = Columns /\ requests' \in 0..MaxRequests
          /\ item' = [item EXCEPT ![i] = row] /\ latest' = [latest EXCEPT ![i] = row]
          /\ UNCHANGED <<request, digest, mailed>>
      BY <1>1, SettingsAssumption DEF Create
    <2>3. \A q \in Requests : request[q] # NoRequest => AsAsked(q)'
      BY <2>1, <2>2 DEF AsAsked
    <2> QED BY <2>2, <2>3 DEF EditsKept
  <1>2. ASSUME NEW q \in Requests, NEW i \in Settings, NEW data \in Bodies[i], Find(q, i, data)
        PROVE  SettingsInv'
    <2>1. DOMAIN data \subseteq Columns BY SettingsAssumption
    <2> DEFINE new == [stage |-> "found", item |-> i, data |-> data, sets |-> data]
    <2>2. /\ request' = [request EXCEPT ![q] = new] /\ item[i] # NoRow
          /\ requests' \in 0..MaxRequests
          /\ UNCHANGED <<item, digest, mailed, latest>>
      BY <1>2, SettingsAssumption DEF Find, Sets
    <2>3. \A p \in Requests : request'[p] = IF p = q THEN new ELSE request[p]
      BY <2>2
    <2>4. \A p \in Requests : request'[p] # NoRequest => AsAsked(p)'
      BY <2>1, <2>2, <2>3 DEF AsAsked
    <2>5. \A p \in Requests : request'[p].stage \in {"none", "found", "updated"}
      BY <2>3
    <2> QED BY <2>2, <2>4, <2>5 DEF EditsKept
  <1>3. ASSUME NEW q \in Requests, RunUpdate(q) PROVE SettingsInv'
    <2>1. request[q] # NoRequest BY <1>3 DEF RunUpdate, NoRequest
    <2>2. AsAsked(q) BY <2>1
    <2> DEFINE new == [request[q] EXCEPT !.stage = "updated"]
    <2>3. new = [stage |-> "updated", item |-> request[q].item,
                 data |-> request[q].data, sets |-> request[q].data]
      BY <2>2 DEF AsAsked
    <2>4. /\ request' = [request EXCEPT ![q] = new]
          /\ UNCHANGED <<item, requests, digest, mailed, latest>>
      BY <1>3 DEF RunUpdate
    <2> HIDE DEF new
    <2>5. \A p \in Requests : request'[p] = IF p = q THEN new ELSE request[p]
      BY <2>4
    <2>6. \A p \in Requests : request'[p] # NoRequest => AsAsked(p)'
      BY <2>2, <2>3, <2>4, <2>5 DEF AsAsked
    <2>7. \A p \in Requests : request'[p].stage \in {"none", "found", "updated"}
      BY <2>3, <2>5
    <2> QED BY <2>4, <2>6, <2>7 DEF EditsKept
  <1>4. ASSUME NEW q \in Requests, CommitUpdate(q) \/ FailUpdate(q) PROVE SettingsInv'
    <2>1. \A p \in Requests : request'[p] = IF p = q THEN NoRequest ELSE request[p]
      BY <1>4 DEF CommitUpdate, FailUpdate
    <2>2. DOMAIN request' = Requests BY <1>4 DEF CommitUpdate, FailUpdate
    <2>3. UNCHANGED <<requests, digest, mailed>> BY <1>4 DEF CommitUpdate, FailUpdate
    <2>4. /\ DOMAIN item' = Settings /\ DOMAIN latest' = Settings /\ EditsKept'
          /\ \A i \in Settings : item'[i] = NoRow \/ DOMAIN item'[i] = Columns
          /\ \A i \in Settings : item[i] # NoRow => item'[i] # NoRow
      <3>1. CASE UNCHANGED <<item, latest>> BY <3>1 DEF EditsKept
      <3>2. CASE ~UNCHANGED <<item, latest>>
        <4> DEFINE i == request[q].item
                   data == request[q].data
        <4>1. request[q] # NoRequest BY <1>4, <3>2 DEF CommitUpdate, FailUpdate, NoRequest
        <4>2. AsAsked(q) BY <4>1
        <4>3. i \in Settings /\ item[i] # NoRow /\ DOMAIN data \subseteq Columns
          BY <4>2 DEF AsAsked
        <4>4. request[q].sets = data BY <4>2 DEF AsAsked
        <4>5. /\ item' = [item EXCEPT ![i] = Overlay(data, item[i])]
              /\ latest' = [latest EXCEPT ![i] = Overlay(data, latest[i])]
          BY <1>4, <3>2, <4>4 DEF CommitUpdate, FailUpdate
        <4>6. item[i] = latest[i] /\ DOMAIN item[i] = Columns BY <4>3 DEF EditsKept
        <4> HIDE DEF i, data
        <4>7. DOMAIN Overlay(data, item[i]) = Columns /\ Overlay(data, item[i]) # NoRow
          BY <4>3, <4>6, Merged
        <4> QED BY <4>3, <4>5, <4>6, <4>7 DEF EditsKept
      <3> QED BY <3>1, <3>2
    <2>5. \A p \in Requests : request'[p] # NoRequest => AsAsked(p)'
      BY <2>1, <2>4 DEF AsAsked
    <2>6. \A p \in Requests : request'[p].stage \in {"none", "found", "updated"}
      BY <2>1 DEF NoRequest
    <2> QED BY <2>2, <2>3, <2>4, <2>5, <2>6
  <1>5. CASE StartDigest \/ LoseDigest
    BY <1>5 DEF StartDigest, LoseDigest, EditsKept, AsAsked
  <1>6. ASSUME NEW c \in MailTargets, SendDigest(c) PROVE SettingsInv'
    <2>1. mailed' \in [MailTargets -> SUBSET AlertLevels]
      BY <1>6 DEF SendDigest
    <2>2. digest' \subseteq MailTargets /\ UNCHANGED <<item, request, requests, latest>>
      BY <1>6 DEF SendDigest
    <2> QED BY <2>1, <2>2 DEF EditsKept, AsAsked
  <1>7. CASE UNCHANGED settingsVars
    BY <1>7 DEF settingsVars, EditsKept, AsAsked
  <1> QED BY <1>1, <1>2, <1>3, <1>4, <1>5, <1>6, <1>7 DEF SettingsNext

LEMMA SettingsInvariant == SettingsSpec => []SettingsInv
  BY SettingsInitially, SettingsStep, PTL DEF SettingsSpec

(* A dry run differs from an evaluation in one thing only, whatever the row. *)
LEMMA DryRunAgrees == DryRunTrue
  BY DEF DryRunTrue, DryRun, CheckConditions

-----------------------------------------------------------------------------
(* The dispatch. *)

LEMMA OneChanges ==
    ASSUME NEW S, IsFiniteSet(S), NEW A \in SUBSET S, NEW B \in SUBSET S, NEW w,
           A \ {w} = B \ {w}
    PROVE  /\ Cardinality(A) \in Nat /\ Cardinality(B) \in Nat
           /\ Cardinality(A) + (IF w \in B THEN 1 ELSE 0)
                = Cardinality(B) + (IF w \in A THEN 1 ELSE 0)
  <1> DEFINE C == A \ {w}
  <1>1. IsFiniteSet(C) BY FS_Subset
  <1>2. PICK n \in Nat : n = Cardinality(C) BY <1>1, FS_CardinalityType
  <1>3. Cardinality(C \cup {w}) = n + 1
    <2>1. w \notin C OBVIOUS
    <2> HIDE DEF C
    <2> QED BY <1>1, <1>2, <2>1, FS_AddElement
  <1>4. /\ w \in A => A = C \cup {w}
        /\ w \notin A => A = C
    OBVIOUS
  <1>5. /\ w \in B => B = C \cup {w}
        /\ w \notin B => B = C
    OBVIOUS
  <1> HIDE DEF C
  <1> QED BY <1>2, <1>3, <1>4, <1>5

(* A run holds a task until it ends, and what it did is uncommitted until its
   commit. *)
RunInOrder(w) ==
    /\ job[w] = NoJob \/ committed[w]
          => left[w] = {} /\ at[w] = NoChannel /\ result[w] = NoResult
    /\ job[w] = NoJob => ~committed[w]
    /\ \A ch \in left[w] : result[w][ch] = "none"
    /\ \A ch \in InApp : result[w][ch] \in {"none", "sent"}
    /\ \A ch \in Unsupported : result[w][ch] \in {"none", "skipped"}

(* What the task of j may still send: a message in each form, or a run that
   has not committed. *)
Queued(j) == [n \in 0..MaxRetries |-> ready[j][n] + orphans[j][n]]
Messages(j) == SumFunction(Queued(j))
Holding(j) == {w \in Workers : job[w] = j /\ ~committed[w]}

TasksBounded ==
    \A j \in Jobs, ch \in Channels :
        log[j][ch]["sent"] + Messages(j) + Cardinality(Holding(j)) <= 1 + faults

DispatchInv ==
    /\ DispatchTypeOK /\ (\A w \in Workers : RunInOrder(w))
    /\ CountersMatchLog /\ EveryNoticeTraced /\ TasksBounded

LEMMA CellTyped ==
    ASSUME NEW A, NEW B, NEW f \in [A -> [B -> Nat]], NEW a \in A, NEW b \in B,
           NEW x \in Nat
    PROVE  [f EXCEPT ![a][b] = x] \in [A -> [B -> Nat]]
  OBVIOUS

LEMMA CellType ==
    ASSUME NEW f \in [Jobs -> [0..MaxRetries -> Nat]]
    PROVE  \A j \in Jobs, n \in 0..MaxRetries : f[j][n] \in Nat
  OBVIOUS

LEMMA CellMore ==
    ASSUME NEW f \in [Jobs -> [0..MaxRetries -> Nat]], NEW i \in Jobs,
           NEW n \in 0..MaxRetries, NEW d \in Int, NEW g, g = [f EXCEPT ![i][n] = @ + d]
    PROVE  \A j \in Jobs, m \in 0..MaxRetries :
              g[j][m] = f[j][m] + IF i = j /\ m = n THEN d ELSE 0
  <1> TAKE j \in Jobs, m \in 0..MaxRetries
  <1>1. f[j][m] \in Nat BY CellType
  <1>2. f[i] \in [0..MaxRetries -> Nat] OBVIOUS
  <1>3. CASE i = j
    <2>1. g[j] = [f[i] EXCEPT ![n] = f[i][n] + d] BY <1>3
    <2>2. CASE m = n
      <3>1. g[j][m] = f[j][m] + d BY <1>2, <1>3, <2>1, <2>2
      <3> QED BY <1>3, <2>2, <3>1
    <2>3. CASE m # n
      <3>1. g[j][m] = f[j][m] BY <1>2, <1>3, <2>1, <2>3
      <3> QED BY <1>1, <2>3, <3>1
    <2> QED BY <2>2, <2>3
  <1>4. CASE i # j
    <2>1. g[j] = f[j] BY <1>4
    <2> QED BY <1>1, <1>4, <2>1
  <1> QED BY <1>3, <1>4

LEMMA SameRun ==
    ASSUME NEW v, RunInOrder(v), UNCHANGED <<job[v], left[v], at[v], result[v], committed[v]>>
    PROVE  RunInOrder(v)'
  BY DEF RunInOrder

LEMMA DispatchTypesKept ==
    ASSUME DispatchTypeOK, \A w \in Workers : RunInOrder(w), DispatchNext
    PROVE  DispatchTypeOK' /\ \A w \in Workers : RunInOrder(w)'
  <1>0. \A j \in Jobs, n \in 0..MaxRetries : ready[j][n] \in Nat /\ orphans[j][n] \in Nat
    BY CellType DEF DispatchTypeOK
  <1> USE DEF DispatchTypeOK, NoticeTable
  <1> USE DEF queueVars, runVars, dbVars
  <1>1. ASSUME NEW w \in Workers, NEW j \in Jobs, NEW n \in 0..MaxRetries, Take(w, j, n)
        PROVE  DispatchTypeOK' /\ \A v \in Workers : RunInOrder(v)'
    <2> DEFINE next == {ch \in Channels : <<j, ch>> \in Eligible}
    <2>1. /\ ready' = [ready EXCEPT ![j][n] = @ - 1] /\ ready[j][n] > 0
          /\ job[w] = NoJob /\ job' = [job EXCEPT ![w] = j]
          /\ tries' = [tries EXCEPT ![w] = n] /\ left' = [left EXCEPT ![w] = next]
          /\ UNCHANGED <<orphans, settled, forgotten, at, result, committed, dbVars,
                         delivered, unlogged, faults>>
      BY <1>1 DEF Take
    <2>2. next \in SUBSET Channels OBVIOUS
    <2> HIDE DEF next
    <2>3. ready' \in [Jobs -> [0..MaxRetries -> Nat]]
      <3>1. ready[j][n] - 1 \in Nat BY <1>0, <2>1
      <3> QED BY <2>1, <3>1, CellTyped
    <2>4. DispatchTypeOK' BY <2>1, <2>2, <2>3
    <2>5. result[w] = NoResult /\ ~committed[w] BY <2>1 DEF RunInOrder
    <2>6. \A ch \in Channels : result[w][ch] = "none" BY <2>5 DEF NoResult
    <2>7. job'[w] # NoJob BY <2>1, KindsAssumption
    <2>8. ASSUME NEW v \in Workers PROVE RunInOrder(v)'
      <3>1. CASE v = w BY <2>1, <2>2, <2>5, <2>6, <2>7, <3>1 DEF RunInOrder, Channels
      <3>2. CASE v # w
        <4>1. UNCHANGED <<job[v], left[v], at[v], result[v], committed[v]>>
          BY <2>1, <3>2
        <4> QED BY <4>1, SameRun
      <3> QED BY <3>1, <3>2
    <2> QED BY <2>4, <2>8
  <1>2. ASSUME NEW w \in Workers, NEW ch \in Channels,
               SendOk(w, ch) \/ SendRaises(w, ch) \/ SendSkips(w, ch)
        PROVE  DispatchTypeOK' /\ \A v \in Workers : RunInOrder(v)'
    <2>1. PICK o \in LogStatus :
             /\ result' = [result EXCEPT ![w][ch] = o]
             /\ ch \in InApp => o = "sent"
             /\ ch \in Unsupported => o = "skipped"
      <3>1. CASE SendOk(w, ch) BY <3>1 DEF SendOk, LogStatus
      <3>2. CASE SendRaises(w, ch)
        <4>1. ch \notin InApp /\ ch \notin Unsupported
          BY <3>2, KindsAssumption DEF SendRaises
        <4> QED BY <3>2, <4>1 DEF SendRaises, LogStatus
      <3>3. CASE SendSkips(w, ch)
        <4>1. ch \notin InApp BY <3>3, KindsAssumption DEF SendSkips
        <4> QED BY <3>3, <4>1 DEF SendSkips, LogStatus
      <3> QED BY <1>2, <3>1, <3>2, <3>3
    <2>2. /\ job[w] \in Jobs /\ ch \in left[w] /\ at' = [at EXCEPT ![w] = ch]
          /\ left' = [left EXCEPT ![w] = @ \ {ch}]
          /\ UNCHANGED <<queueVars, job, tries, committed, dbVars, faults>>
      BY <1>2 DEF SendOk, SendRaises, SendSkips, Sending
    <2>3. result' \in [Workers -> [Channels -> LogStatus \cup {"none"}]] BY <2>1
    <2>4. PICK j \in Jobs : j = job[w] BY <2>2
    <2>5. delivered' \in NoticeTable /\ unlogged' \in NoticeTable
      <3>1. CASE SendOk(w, ch) BY <2>4, <3>1 DEF SendOk
      <3>2. CASE SendRaises(w, ch)
        <4>1. PICK n \in {0, 1} :
                 /\ delivered' = [delivered EXCEPT ![j][ch] = @ + n]
                 /\ unlogged' = [unlogged EXCEPT ![j][ch] = @ + n]
          BY <2>4, <3>2 DEF SendRaises
        <4>2. delivered[j][ch] + n \in Nat /\ unlogged[j][ch] + n \in Nat OBVIOUS
        <4> QED BY <4>1, <4>2
      <3>3. CASE SendSkips(w, ch) BY <3>3 DEF SendSkips
      <3> QED BY <1>2, <3>1, <3>2, <3>3
    <2>6. DispatchTypeOK' BY <2>2, <2>3, <2>5
    <2>7. ASSUME NEW v \in Workers PROVE RunInOrder(v)'
      <3>1. CASE v = w
        <4>1. job[w] # NoJob /\ ~committed[w] BY <2>2 DEF RunInOrder
        <4>2. \A c \in Channels : result'[w][c] = IF c = ch THEN o ELSE result[w][c]
          BY <2>1
        <4>3. left'[w] = left[w] \ {ch} /\ left[w] \in SUBSET Channels BY <2>2
        <4>4. \A c \in left'[w] : result'[w][c] = "none"
          BY <4>2, <4>3 DEF RunInOrder
        <4>5. \A c \in InApp : result'[w][c] \in {"none", "sent"}
          BY <2>1, <4>2 DEF RunInOrder, Channels
        <4>6. \A c \in Unsupported : result'[w][c] \in {"none", "skipped"}
          BY <2>1, <4>2 DEF RunInOrder, Channels
        <4>7. UNCHANGED <<job, committed>> BY <2>2
        <4> QED BY <3>1, <4>1, <4>4, <4>5, <4>6, <4>7 DEF RunInOrder
      <3>2. CASE v # w
        <4>1. UNCHANGED <<job[v], left[v], at[v], result[v], committed[v]>>
          BY <2>1, <2>2, <3>2
        <4> QED BY <4>1, SameRun
      <3> QED BY <3>1, <3>2
    <2> QED BY <2>6, <2>7
  <1>3. ASSUME NEW w \in Workers, LogResult(w)
        PROVE  DispatchTypeOK' /\ \A v \in Workers : RunInOrder(v)'
    <2>1. DispatchTypeOK' BY <1>3 DEF LogResult
    <2>2. ASSUME NEW v \in Workers PROVE RunInOrder(v)'
      <3>1. UNCHANGED <<job, left, result, committed>> BY <1>3 DEF LogResult
      <3>2. at'[v] = at[v] \/ at'[v] = NoChannel BY <1>3 DEF LogResult
      <3> QED BY <3>1, <3>2 DEF RunInOrder
    <2> QED BY <2>1, <2>2
  <1>4. ASSUME NEW w \in Workers, Commit(w)
        PROVE  DispatchTypeOK' /\ \A v \in Workers : RunInOrder(v)'
    <2> DEFINE j == job[w]
    <2>1. j \in Jobs BY <1>4 DEF Commit
    <2> DEFINE rows == {ch \in Channels : result[w][ch] # "none"}
               new == [ch \in Channels |->
                         IF ch \in rows
                         THEN Logged(log[j][ch], result[w][ch]) ELSE log[j][ch]]
    <2>2. /\ log' \in [Jobs -> [Channels -> [LogStatus -> Nat]]]
          /\ counter' \in [Channels -> [sent : Nat, failed : Nat]]
      <3>1. log' = [log EXCEPT ![j] = new] BY <1>4 DEF Commit
      <3>2. \A ch \in rows : result[w][ch] \in LogStatus OBVIOUS
      <3>3. log[j] \in [Channels -> [LogStatus -> Nat]] BY <2>1
      <3>4. ASSUME NEW ch \in Channels PROVE new[ch] \in [LogStatus -> Nat]
        BY <3>2, <3>3 DEF Logged
      <3>5. new \in [Channels -> [LogStatus -> Nat]] BY <3>4
      <3> HIDE DEF new
      <3>6. log' \in [Jobs -> [Channels -> [LogStatus -> Nat]]] BY <2>1, <3>1, <3>5
      <3>7. \A ch \in Channels : Counted(counter[ch], result[w][ch]) \in [sent : Nat, failed : Nat]
        BY DEF Counted
      <3>8. counter' \in [Channels -> [sent : Nat, failed : Nat]]
        BY <1>4, <3>7 DEF Commit
      <3> QED BY <3>6, <3>8
    <2>3. noticeCount' \in [Jobs -> Nat]
      <3> DEFINE A == {ch \in {ch \in Channels : result[w][ch] # "none"} :
                          result[w][ch] \in {"sent", "skipped"}}
      <3>1. A \in SUBSET Channels OBVIOUS
      <3>2. Cardinality(A) \in Nat
        BY <3>1, KindsAssumption, FS_Subset, FS_CardinalityType
      <3>3. noticeCount' = [noticeCount EXCEPT ![j] = @ + Cardinality(A)]
        BY <1>4 DEF Commit
      <3> HIDE DEF A
      <3> QED BY <2>1, <3>2, <3>3
    <2>4. delivered' \in NoticeTable
      <3> DEFINE more == [ch \in Channels |->
                            IF ch \in rows \cap InApp THEN delivered[j][ch] + 1
                            ELSE delivered[j][ch]]
      <3>1. delivered' = [delivered EXCEPT ![j] = more] BY <1>4 DEF Commit
      <3>2. more \in [Channels -> Nat] BY <2>1
      <3> HIDE DEF more
      <3> QED BY <2>1, <3>1, <3>2
    <2>5. /\ committed' \in [Workers -> BOOLEAN]
          /\ result' \in [Workers -> [Channels -> LogStatus \cup {"none"}]]
      BY <1>4 DEF Commit, NoResult
    <2>6. DispatchTypeOK' BY <1>4, <2>2, <2>3, <2>4, <2>5 DEF Commit
    <2>7. ASSUME NEW v \in Workers PROVE RunInOrder(v)'
      <3>1. UNCHANGED <<job, left, at>> BY <1>4 DEF Commit
      <3>2. CASE v = w
        <4>1. job[w] # NoJob /\ left[w] = {} /\ at[w] = NoChannel BY <1>4 DEF Commit
        <4>2. result'[w] = NoResult BY <1>4 DEF Commit
        <4>3. \A ch \in Channels : result'[w][ch] = "none" BY <4>2 DEF NoResult
        <4>4. NoResult' = NoResult BY DEF NoResult
        <4> QED BY <3>1, <3>2, <4>1, <4>2, <4>3, <4>4 DEF RunInOrder, Channels
      <3>3. CASE v # w
        <4>1. UNCHANGED <<result[v], committed[v]>> BY <1>4, <3>3 DEF Commit
        <4> QED BY <3>1, <4>1 DEF RunInOrder
      <3> QED BY <3>2, <3>3
    <2> QED BY <2>6, <2>7
  <1>5. ASSUME NEW w \in Workers, EndRun(w)
        PROVE  /\ job' \in [Workers -> Jobs \cup {NoJob}]
               /\ tries' \in [Workers -> 0..MaxRetries]
               /\ left' \in [Workers -> SUBSET Channels]
               /\ at' \in [Workers -> Channels \cup {NoChannel}]
               /\ result' \in [Workers -> [Channels -> LogStatus \cup {"none"}]]
               /\ committed' \in [Workers -> BOOLEAN]
               /\ \A v \in Workers : RunInOrder(v)'
    <2>1. ASSUME NEW v \in Workers PROVE RunInOrder(v)'
      <3>1. CASE v = w
        <4>1. /\ job'[w] = NoJob /\ left'[w] = {} /\ at'[w] = NoChannel
              /\ result'[w] = NoResult /\ committed'[w] = FALSE
          BY <1>5 DEF EndRun
        <4>2. \A ch \in Channels : result'[w][ch] = "none" BY <4>1 DEF NoResult
        <4> QED BY <3>1, <4>1, <4>2 DEF RunInOrder, Channels
      <3>2. CASE v # w
        <4>1. UNCHANGED <<job[v], left[v], at[v], result[v], committed[v]>>
          BY <1>5, <3>2 DEF EndRun
        <4> QED BY <4>1, SameRun
      <3> QED BY <3>1, <3>2
    <2>2. NoResult \in [Channels -> LogStatus \cup {"none"}] BY DEF NoResult
    <2> QED BY <1>5, <2>1, <2>2, KindsAssumption DEF EndRun
  <1>6. ASSUME NEW w \in Workers, Undo(w), job[w] # NoJob PROVE unlogged' \in NoticeTable
    BY <1>6 DEF Undo
  <1>7. ASSUME NEW w \in Workers, Ack(w)
        PROVE  DispatchTypeOK' /\ \A v \in Workers : RunInOrder(v)'
    BY <1>5, <1>7 DEF Ack
  <1>8. ASSUME NEW w \in Workers, AbortRun(w)
        PROVE  DispatchTypeOK' /\ \A v \in Workers : RunInOrder(v)'
    <2>1. job[w] \in Jobs BY <1>8 DEF AbortRun
    <2>2. settled' \subseteq Jobs /\ ready' \in [Jobs -> [0..MaxRetries -> Nat]]
      <3>1. CASE tries[w] < MaxRetries
        <4>1. tries[w] + 1 \in 0..MaxRetries BY <3>1, KindsAssumption
        <4>2. PICK m \in 0..MaxRetries : m = tries[w] + 1 BY <4>1
        <4>3. PICK j \in Jobs : j = job[w] BY <2>1
        <4>4. ready' = [ready EXCEPT ![j][m] = ready[j][m] + 1] /\ settled' = settled
          BY <1>8, <3>1, <4>2, <4>3 DEF AbortRun, Retry
        <4>5. ready[j][m] + 1 \in Nat BY <1>0
        <4> QED BY <4>4, <4>5, CellTyped
      <3>2. CASE ~(tries[w] < MaxRetries) BY <1>8, <2>1, <3>2 DEF AbortRun, Retry
      <3> QED BY <3>1, <3>2
    <2> QED BY <1>5, <1>6, <1>8, <2>2 DEF AbortRun
  <1>9. ASSUME NEW w \in Workers, LoseWorker(w)
        PROVE  DispatchTypeOK' /\ \A v \in Workers : RunInOrder(v)'
    <2>1. job[w] \in Jobs BY <1>9 DEF LoseWorker
    <2>2. /\ orphans' \in [Jobs -> [0..MaxRetries -> Nat]] /\ faults' \in 0..MaxFaults
      <3>1. PICK j \in Jobs, m \in 0..MaxRetries : j = job[w] /\ m = tries[w] BY <2>1
      <3>2. /\ orphans' = [orphans EXCEPT ![j][m] = orphans[j][m] + 1]
            /\ faults' = faults + 1 /\ faults < MaxFaults
        BY <1>9, <3>1 DEF LoseWorker
      <3>3. orphans[j][m] + 1 \in Nat BY <1>0
      <3>4. orphans' \in [Jobs -> [0..MaxRetries -> Nat]] BY <3>2, <3>3, CellTyped
      <3>5. faults' \in 0..MaxFaults BY <3>2, KindsAssumption
      <3> QED BY <3>4, <3>5
    <2> QED BY <1>5, <1>6, <1>9, <2>2 DEF LoseWorker
  <1>12. ASSUME NEW w \in Workers, LoseChild(w)
         PROVE  DispatchTypeOK' /\ \A v \in Workers : RunInOrder(v)'
    <2>1. job[w] \in Jobs BY <1>12 DEF LoseChild
    <2>2. forgotten' \subseteq Jobs BY <1>12, <2>1 DEF LoseChild
    <2>3. faults' = faults + 1 /\ faults < MaxFaults BY <1>12 DEF LoseChild
    <2>4. faults' \in 0..MaxFaults BY <2>3, KindsAssumption
    <2> QED BY <1>5, <1>6, <1>12, <2>2, <2>4 DEF LoseChild
  <1>10. ASSUME NEW w \in Workers, Overrun(w)
         PROVE  DispatchTypeOK' /\ \A v \in Workers : RunInOrder(v)'
    <2>1. UNCHANGED runVars BY <1>10 DEF Overrun
    <2>2. \A v \in Workers : RunInOrder(v)' BY <2>1 DEF RunInOrder
    <2>3. PICK j \in Jobs : j = job[w] BY <1>10 DEF Overrun
    <2>4. /\ ready' = [ready EXCEPT ![j][tries[w]] = ready[j][tries[w]] + 1]
          /\ faults' = faults + 1 /\ faults < MaxFaults
          /\ UNCHANGED <<orphans, settled, forgotten, dbVars, delivered, unlogged>>
      BY <1>10, <2>3 DEF Overrun
    <2>5. ready[j][tries[w]] + 1 \in Nat BY <1>0
    <2>6. ready' \in [Jobs -> [0..MaxRetries -> Nat]] BY <2>4, <2>5, CellTyped
    <2>7. faults' \in 0..MaxFaults BY <2>4, KindsAssumption
    <2> QED BY <2>1, <2>2, <2>4, <2>6, <2>7
  <1>11. ASSUME NEW j \in Jobs, NEW n \in 0..MaxRetries, Redeliver(j, n)
         PROVE  DispatchTypeOK' /\ \A v \in Workers : RunInOrder(v)'
    <2>1. UNCHANGED runVars BY <1>11 DEF Redeliver
    <2>2. \A v \in Workers : RunInOrder(v)' BY <2>1 DEF RunInOrder
    <2>3. /\ ready' \in [Jobs -> [0..MaxRetries -> Nat]]
          /\ orphans' \in [Jobs -> [0..MaxRetries -> Nat]]
      <3>1. /\ orphans' = [orphans EXCEPT ![j][n] = orphans[j][n] - 1]
            /\ ready' = [ready EXCEPT ![j][n] = ready[j][n] + 1] /\ orphans[j][n] > 0
        BY <1>11 DEF Redeliver
      <3>2. orphans[j][n] - 1 \in Nat /\ ready[j][n] + 1 \in Nat BY <1>0, <3>1
      <3> QED BY <3>1, <3>2, CellTyped
    <2> QED BY <1>11, <2>2, <2>3 DEF Redeliver
  <1> QED
    BY <1>1, <1>2, <1>3, <1>4, <1>7, <1>8, <1>9, <1>10, <1>11, <1>12 DEF DispatchNext, Run

(* Only a commit writes the log and the counters. *)
LEMMA WritesOnlyOnCommit ==
    ASSUME DispatchNext, \A w \in Workers : ~Commit(w)
    PROVE  UNCHANGED dbVars
  <1>1. ASSUME NEW w \in Workers, NEW ch \in Channels,
               SendOk(w, ch) \/ SendRaises(w, ch) \/ SendSkips(w, ch)
        PROVE  UNCHANGED dbVars
    BY <1>1 DEF SendOk, SendRaises, SendSkips, Sending
  <1>2. ASSUME NEW w \in Workers,
               \/ LogResult(w) \/ Ack(w) \/ AbortRun(w)
               \/ LoseWorker(w) \/ LoseChild(w) \/ Overrun(w)
        PROVE  UNCHANGED dbVars
    BY <1>2 DEF LogResult, Ack, AbortRun, LoseWorker, LoseChild, Overrun
  <1>3. ASSUME NEW w, NEW j, NEW n, Take(w, j, n) \/ Redeliver(j, n)
        PROVE  UNCHANGED dbVars
    BY <1>3 DEF Take, Redeliver
  <1> QED BY <1>1, <1>2, <1>3 DEF DispatchNext, Run

LEMMA CountersKept ==
    ASSUME DispatchTypeOK, DispatchTypeOK', CountersMatchLog, NEW w \in Workers, Commit(w)
    PROVE  CountersMatchLog'
  <1> DEFINE rows == {ch \in Channels : result[w][ch] # "none"}
  <1>1. PICK j \in Jobs : j = job[w] BY DEF Commit, DispatchTypeOK
  <1>2. PICK r : r = result[w] OBVIOUS
  <1>3. /\ \A ch \in Channels : r[ch] \in LogStatus \cup {"none"}
        /\ \A i \in Jobs, ch \in Channels, s \in LogStatus : log[i][ch][s] \in Nat
        /\ \A ch \in Channels : counter[ch].sent \in Nat /\ counter[ch].failed \in Nat
    <2>1. r \in [Channels -> LogStatus \cup {"none"}] BY <1>2 DEF DispatchTypeOK
    <2>2. log \in [Jobs -> [Channels -> [LogStatus -> Nat]]] BY DEF DispatchTypeOK
    <2>3. counter \in [Channels -> [sent : Nat, failed : Nat]] BY DEF DispatchTypeOK
    <2>4. \A ch \in Channels : r[ch] \in LogStatus \cup {"none"} BY <2>1
    <2>5. \A i \in Jobs, ch \in Channels, s \in LogStatus : log[i][ch][s] \in Nat BY <2>2
    <2>6. \A ch \in Channels : counter[ch].sent \in Nat /\ counter[ch].failed \in Nat BY <2>3
    <2> QED BY <2>4, <2>5, <2>6
  <1>4. ASSUME NEW i \in Jobs, NEW ch \in Channels, NEW s \in LogStatus
        PROVE  log'[i][ch][s] = log[i][ch][s] + IF i = j /\ r[ch] = s THEN 1 ELSE 0
    <2>1. log' = [log EXCEPT ![j] = [c \in Channels |->
                    IF c \in rows THEN Logged(log[j][c], r[c]) ELSE log[j][c]]]
      BY <1>1, <1>2 DEF Commit
    <2>2. log[i][ch] \in [LogStatus -> Nat] /\ "none" \notin LogStatus
      BY DEF DispatchTypeOK, LogStatus
    <2>3. CASE i = j
      <3>1. log'[i][ch] = IF ch \in rows THEN Logged(log[j][ch], r[ch]) ELSE log[j][ch]
        BY <2>1, <2>3 DEF DispatchTypeOK
      <3>2. ch \in rows <=> r[ch] # "none" BY <1>2
      <3>3. CASE r[ch] = s
        <4>1. log'[i][ch] = [log[j][ch] EXCEPT ![s] = log[j][ch][s] + 1]
          BY <2>2, <3>1, <3>2, <3>3 DEF Logged
        <4> QED BY <2>2, <2>3, <3>3, <4>1
      <3>4. CASE r[ch] # s
        <4>1. log'[i][ch][s] = log[j][ch][s]
          BY <2>2, <2>3, <3>1, <3>4 DEF Logged
        <4> QED BY <1>3, <2>3, <3>4, <4>1
      <3> QED BY <3>3, <3>4
    <2>4. CASE i # j
      <3>1. log'[i] = log[i] BY <2>1, <2>4 DEF DispatchTypeOK
      <3> QED BY <1>3, <2>4, <3>1
    <2> QED BY <2>3, <2>4
  <1>5. ASSUME NEW ch \in Channels, NEW s \in LogStatus
        PROVE  /\ Rows(ch, s) \in Nat
               /\ Rows(ch, s)' = Rows(ch, s) + IF r[ch] = s THEN 1 ELSE 0
    <2> DEFINE f == [i \in Jobs |-> log[i][ch][s]]
               g == [i \in Jobs |-> log'[i][ch][s]]
    <2>1. f \in [Jobs -> Nat] BY <1>3
    <2>2. \A i \in Jobs : g[i] = f[i] + IF i = j /\ r[ch] = s THEN 1 ELSE 0 BY <1>4
    <2>3. g \in [Jobs -> Nat] BY <2>1, <2>2
    <2>4. Rows(ch, s) = SumFunction(f) /\ Rows(ch, s)' = SumFunction(g) BY DEF Rows
    <2> HIDE DEF f, g
    <2>5. PICK T \in SUBSET Jobs : T = IF r[ch] = s THEN {j} ELSE {} OBVIOUS
    <2>6. Cardinality(T) = IF r[ch] = s THEN 1 ELSE 0
      BY <2>5, FS_EmptySet, FS_Singleton
    <2>7. \A i \in Jobs : g[i] = f[i] + IF i \in T THEN 1 ELSE 0 BY <2>2, <2>5
    <2>8. SumFunction(f) \in Nat /\ SumFunction(g) = SumFunction(f) + Cardinality(T)
      BY <2>1, <2>3, <2>7, SumMore, KindsAssumption
    <2> QED BY <2>4, <2>6, <2>8
  <1>6. ASSUME NEW ch \in Channels
        PROVE  /\ counter'[ch].sent = Rows(ch, "sent")'
               /\ counter'[ch].failed = Rows(ch, "failed")' + Rows(ch, "skipped")'
    <2>1. counter'[ch] = IF ch \in rows THEN Counted(counter[ch], r[ch]) ELSE counter[ch]
      BY <1>2 DEF Commit
    <2>2. ch \in rows <=> r[ch] # "none" BY <1>2
    <2>3. /\ counter'[ch].sent = counter[ch].sent + IF r[ch] = "sent" THEN 1 ELSE 0
          /\ counter'[ch].failed
               = counter[ch].failed + IF r[ch] \in {"failed", "skipped"} THEN 1 ELSE 0
      BY <1>3, <2>1, <2>2 DEF Counted
    <2>4. /\ counter[ch].sent = Rows(ch, "sent")
          /\ counter[ch].failed = Rows(ch, "failed") + Rows(ch, "skipped")
      BY DEF CountersMatchLog
    <2>5. {"sent", "failed", "skipped"} = LogStatus BY DEF LogStatus
    <2>6. /\ Rows(ch, "sent")' = Rows(ch, "sent") + IF r[ch] = "sent" THEN 1 ELSE 0
          /\ Rows(ch, "failed")' = Rows(ch, "failed") + IF r[ch] = "failed" THEN 1 ELSE 0
          /\ Rows(ch, "skipped")' = Rows(ch, "skipped") + IF r[ch] = "skipped" THEN 1 ELSE 0
          /\ Rows(ch, "failed") \in Nat /\ Rows(ch, "skipped") \in Nat
      BY <1>5, <2>5
    <2>7. ~(r[ch] = "failed" /\ r[ch] = "skipped") OBVIOUS
    <2> QED BY <2>3, <2>4, <2>6, <2>7
  <1>7. ASSUME NEW i \in Jobs
        PROVE  noticeCount'[i] = SumFunction(
                 [ch \in Channels |-> log[i][ch]["sent"] + log[i][ch]["skipped"]])'
    <2> DEFINE f == [ch \in Channels |-> log[i][ch]["sent"] + log[i][ch]["skipped"]]
               g == [ch \in Channels |-> log'[i][ch]["sent"] + log'[i][ch]["skipped"]]
               A == {ch \in {ch \in Channels : result[w][ch] # "none"} :
                        result[w][ch] \in {"sent", "skipped"}}
    <2>1. "sent" \in LogStatus /\ "skipped" \in LogStatus BY DEF LogStatus
    <2>2. f \in [Channels -> Nat] BY <1>3, <2>1
    <2>3. A \in SUBSET Channels /\ \A ch \in Channels : ch \in A <=> r[ch] \in {"sent", "skipped"}
      BY <1>2
    <2>4. noticeCount' = [noticeCount EXCEPT ![j] = @ + Cardinality(A)]
      BY <1>1 DEF Commit
    <2>5. noticeCount[i] = SumFunction(f) BY DEF CountersMatchLog
    <2>6. \A ch \in Channels :
             /\ log[i][ch]["sent"] \in Nat /\ log[i][ch]["skipped"] \in Nat
             /\ log'[i][ch]["sent"] = log[i][ch]["sent"]
                  + IF i = j /\ r[ch] = "sent" THEN 1 ELSE 0
             /\ log'[i][ch]["skipped"] = log[i][ch]["skipped"]
                  + IF i = j /\ r[ch] = "skipped" THEN 1 ELSE 0
      BY <1>3, <1>4, <2>1
    <2>7. SumFunction(g) = SumFunction(
                 [ch \in Channels |-> log[i][ch]["sent"] + log[i][ch]["skipped"]])'
      OBVIOUS
    <2> HIDE DEF A
    <2>8. PICK T \in SUBSET Channels : T = IF i = j THEN A ELSE {} BY <2>3
    <2>9. ASSUME NEW ch \in Channels
          PROVE  g[ch] = f[ch] + IF ch \in T THEN 1 ELSE 0
      <3>1. ch \in T <=> i = j /\ (r[ch] = "sent" \/ r[ch] = "skipped") BY <2>3, <2>8
      <3>2. ~(r[ch] = "sent" /\ r[ch] = "skipped") OBVIOUS
      <3>3. /\ f[ch] = log[i][ch]["sent"] + log[i][ch]["skipped"]
            /\ g[ch] = log'[i][ch]["sent"] + log'[i][ch]["skipped"]
        OBVIOUS
      <3> HIDE DEF f, g
      <3> QED BY <2>6, <3>1, <3>2, <3>3
    <2>10. DOMAIN g = Channels /\ g = [ch \in Channels |-> g[ch]] OBVIOUS
    <2> HIDE DEF f, g
    <2>11. g \in [Channels -> Nat] BY <2>2, <2>9, <2>10
    <2>12. SumFunction(f) \in Nat /\ SumFunction(g) = SumFunction(f) + Cardinality(T)
      BY <2>2, <2>9, <2>11, SumMore, KindsAssumption
    <2>13. noticeCount'[i] = noticeCount[i] + Cardinality(T)
      <3>1. CASE i = j BY <2>4, <2>8, <3>1 DEF DispatchTypeOK
      <3>2. CASE i # j
        <4>1. noticeCount'[i] = noticeCount[i] /\ noticeCount[i] \in Nat
          BY <2>4, <3>2 DEF DispatchTypeOK
        <4>2. Cardinality(T) = 0 BY <2>8, <3>2, FS_EmptySet
        <4> QED BY <4>1, <4>2
      <3> QED BY <3>1, <3>2
    <2> QED BY <2>5, <2>7, <2>12, <2>13
  <1> QED BY <1>6, <1>7 DEF CountersMatchLog

(* Runs of j that sent to ch and have not committed. *)
Carrying(j, ch) ==
    {w \in Workers : job[w] = j /\ ch \in External /\ result[w][ch] = "sent"}

LEMMA PendingChanges ==
    ASSUME NEW w \in Workers, NEW j, NEW ch,
           \A v \in Workers \ {w} : UNCHANGED <<job[v], result[v]>>
    PROVE  /\ Pending(j, ch) \in Nat /\ Pending(j, ch)' \in Nat
           /\ Pending(j, ch) + (IF w \in Carrying(j, ch)' THEN 1 ELSE 0)
                = Pending(j, ch)' + (IF w \in Carrying(j, ch) THEN 1 ELSE 0)
  <1>1. PICK A, B : A = Carrying(j, ch) /\ B = Carrying(j, ch)' OBVIOUS
  <1>2. A \in SUBSET Workers /\ B \in SUBSET Workers BY <1>1 DEF Carrying
  <1>3. \A v \in Workers \ {w} : v \in A <=> v \in B BY <1>1 DEF Carrying
  <1>4. A \ {w} = B \ {w} BY <1>2, <1>3
  <1>5. Pending(j, ch) = Cardinality(A) /\ Pending(j, ch)' = Cardinality(B)
    BY <1>1 DEF Pending, Carrying
  <1>6. /\ Cardinality(A) \in Nat /\ Cardinality(B) \in Nat
        /\ Cardinality(A) + (IF w \in B THEN 1 ELSE 0)
             = Cardinality(B) + (IF w \in A THEN 1 ELSE 0)
    BY <1>2, <1>4, OneChanges, KindsAssumption
  <1> QED BY <1>1, <1>5, <1>6

LEMMA NoticesKept ==
    ASSUME DispatchTypeOK, \A w \in Workers : RunInOrder(w), EveryNoticeTraced,
           DispatchNext
    PROVE  EveryNoticeTraced'
  <1> SUFFICES ASSUME NEW j \in Jobs, NEW ch \in Channels
               PROVE  delivered'[j][ch] = log'[j][ch]["sent"] + Pending(j, ch)'
                                            + unlogged'[j][ch]
    BY DEF EveryNoticeTraced
  <1>1. /\ delivered[j][ch] = log[j][ch]["sent"] + Pending(j, ch) + unlogged[j][ch]
        /\ log[j][ch]["sent"] \in Nat /\ delivered[j][ch] \in Nat /\ unlogged[j][ch] \in Nat
    BY DEF EveryNoticeTraced, DispatchTypeOK, NoticeTable, LogStatus
  <1>2. ASSUME UNCHANGED <<job, result, log, delivered, unlogged>>
        PROVE  delivered'[j][ch] = log'[j][ch]["sent"] + Pending(j, ch)' + unlogged'[j][ch]
    BY <1>1, <1>2 DEF Pending
  <1>3. ASSUME NEW w \in Workers, NEW i \in Jobs, NEW n \in 0..MaxRetries, Take(w, i, n)
        PROVE  delivered'[j][ch] = log'[j][ch]["sent"] + Pending(j, ch)' + unlogged'[j][ch]
    <2>1. /\ \A v \in Workers \ {w} : UNCHANGED <<job[v], result[v]>>
          /\ job[w] = NoJob /\ UNCHANGED <<result, log, delivered, unlogged>>
      BY <1>3 DEF Take, dbVars
    <2>2. result[w][ch] = "none" BY <2>1 DEF RunInOrder, NoResult
    <2>3. w \notin Carrying(j, ch) /\ w \notin Carrying(j, ch)' BY <2>1, <2>2 DEF Carrying
    <2>4. Pending(j, ch)' = Pending(j, ch) BY <2>1, <2>3, PendingChanges
    <2> QED BY <1>1, <2>1, <2>4
  <1>4. ASSUME NEW w \in Workers, NEW c \in Channels,
               SendOk(w, c) \/ SendRaises(w, c) \/ SendSkips(w, c)
        PROVE  delivered'[j][ch] = log'[j][ch]["sent"] + Pending(j, ch)' + unlogged'[j][ch]
    <2> DEFINE Sent(o, d) ==
                   /\ result' = [result EXCEPT ![w][c] = o]
                   /\ o = "sent" /\ c \in External <=> d = 1
                   /\ \/ /\ delivered' = IF d = 1
                                         THEN [delivered EXCEPT ![job[w]][c] = @ + 1]
                                         ELSE delivered
                         /\ unlogged' = unlogged
                      \/ /\ d = 0
                         /\ \E n \in {0, 1} :
                               /\ delivered' = [delivered EXCEPT ![job[w]][c] = @ + n]
                               /\ unlogged' = [unlogged EXCEPT ![job[w]][c] = @ + n]
    <2>1. \E o \in LogStatus, d \in {0, 1} : Sent(o, d)
      <3>1. CASE SendOk(w, c)
        <4>1. Sent("sent", IF c \in External THEN 1 ELSE 0) BY <3>1 DEF SendOk
        <4> QED BY <4>1 DEF LogStatus
      <3>2. CASE SendRaises(w, c)
        <4>1. PICK n \in {0, 1} :
                 /\ delivered' = [delivered EXCEPT ![job[w]][c] = @ + n]
                 /\ unlogged' = [unlogged EXCEPT ![job[w]][c] = @ + n]
          BY <3>2 DEF SendRaises
        <4>2. result' = [result EXCEPT ![w][c] = "failed"] BY <3>2 DEF SendRaises
        <4>3. "failed" # "sent" /\ 0 # 1 OBVIOUS
        <4>4. 0 = 0 /\ \E n1 \in {0, 1} :
                 /\ delivered' = [delivered EXCEPT ![job[w]][c] = @ + n1]
                 /\ unlogged' = [unlogged EXCEPT ![job[w]][c] = @ + n1]
          BY <4>1
        <4>5. Sent("failed", 0) BY <4>2, <4>3, <4>4
        <4> QED BY <4>5 DEF LogStatus
      <3>3. CASE SendSkips(w, c)
        <4>1. Sent("skipped", 0) BY <3>3 DEF SendSkips
        <4> QED BY <4>1 DEF LogStatus
      <3> QED BY <1>4, <3>1, <3>2, <3>3
    <2>2. PICK o \in LogStatus, d \in {0, 1} : Sent(o, d) BY <2>1
    <2>3. job[w] \in Jobs /\ c \in left[w] /\ UNCHANGED <<job, log>>
      BY <1>4 DEF SendOk, SendRaises, SendSkips, Sending, dbVars, DispatchTypeOK
    <2>4. \A v \in Workers \ {w} : UNCHANGED <<job[v], result[v]>> BY <2>2, <2>3
    <2>5. result[w][c] = "none" BY <2>3 DEF RunInOrder
    <2>6. /\ result'[w][c] = o
          /\ \A b \in Channels \ {c} : result'[w][b] = result[w][b]
      BY <2>2 DEF DispatchTypeOK
    <2>7. CASE j = job[w] /\ ch = c
      <3>1. w \notin Carrying(j, ch) BY <2>5, <2>7 DEF Carrying
      <3>2. w \in Carrying(j, ch)' <=> d = 1 BY <2>2, <2>3, <2>6, <2>7 DEF Carrying
      <3>3. Pending(j, ch) \in Nat /\ Pending(j, ch)' = Pending(j, ch) + d
        BY <2>4, <3>1, <3>2, PendingChanges
      <3>4. \/ delivered'[j][ch] = delivered[j][ch] + d /\ unlogged'[j][ch] = unlogged[j][ch]
            \/ d = 0 /\ \E n \in {0, 1} : /\ delivered'[j][ch] = delivered[j][ch] + n
                                          /\ unlogged'[j][ch] = unlogged[j][ch] + n
        BY <1>1, <2>2, <2>7 DEF DispatchTypeOK, NoticeTable
      <3> QED BY <1>1, <2>3, <3>3, <3>4
    <2>8. CASE ~(j = job[w] /\ ch = c)
      <3>1. w \in Carrying(j, ch)' <=> w \in Carrying(j, ch) BY <2>3, <2>6, <2>8 DEF Carrying
      <3>2. Pending(j, ch)' = Pending(j, ch) BY <2>4, <3>1, PendingChanges
      <3>3. delivered'[j][ch] = delivered[j][ch] /\ unlogged'[j][ch] = unlogged[j][ch]
        <4>1. /\ \/ delivered' = delivered
                 \/ \E n \in {0, 1} : delivered' = [delivered EXCEPT ![job[w]][c] = @ + n]
                 \/ delivered' = [delivered EXCEPT ![job[w]][c] = @ + 1]
              /\ \/ unlogged' = unlogged
                 \/ \E n \in {0, 1} : unlogged' = [unlogged EXCEPT ![job[w]][c] = @ + n]
          BY <2>2
        <4>2. delivered \in [Jobs -> [Channels -> Nat]] /\ unlogged \in [Jobs -> [Channels -> Nat]]
          BY DEF DispatchTypeOK, NoticeTable
        <4> QED BY <2>3, <2>8, <4>1, <4>2
      <3> QED BY <1>1, <2>3, <3>2, <3>3
    <2> QED BY <2>7, <2>8
  <1>5. ASSUME NEW w \in Workers, Commit(w)
        PROVE  delivered'[j][ch] = log'[j][ch]["sent"] + Pending(j, ch)' + unlogged'[j][ch]
    <2> DEFINE rows == {c \in Channels : result[w][c] # "none"}
    <2>1. PICK i \in Jobs : i = job[w] BY <1>5 DEF Commit, DispatchTypeOK
    <2>2. /\ log' = [log EXCEPT ![i] = [c \in Channels |->
                       IF c \in rows THEN Logged(log[i][c], result[w][c]) ELSE log[i][c]]]
          /\ delivered' = [delivered EXCEPT ![i] = [c \in Channels |->
                IF c \in rows \cap InApp THEN delivered[i][c] + 1 ELSE delivered[i][c]]]
          /\ result' = [result EXCEPT ![w] = NoResult] /\ UNCHANGED <<job, unlogged>>
      BY <1>5, <2>1 DEF Commit
    <2>3. \A v \in Workers \ {w} : UNCHANGED <<job[v], result[v]>> BY <2>2
    <2>4. result'[w][ch] = "none" BY <2>2 DEF NoResult, DispatchTypeOK
    <2>5. w \notin Carrying(j, ch)' BY <2>4 DEF Carrying
    <2>6. CASE j = i
      <3>1. w \in Carrying(j, ch) <=> ch \in External /\ result[w][ch] = "sent"
        BY <2>1, <2>6 DEF Carrying
      <3>2. log[j][ch] \in [LogStatus -> Nat] /\ "sent" \in LogStatus
        BY DEF DispatchTypeOK, LogStatus
      <3>3. log'[j][ch] = IF ch \in rows THEN Logged(log[j][ch], result[w][ch]) ELSE log[j][ch]
        BY <2>2, <2>6 DEF DispatchTypeOK
      <3>4. log'[j][ch]["sent"] = log[j][ch]["sent"] + IF result[w][ch] = "sent" THEN 1 ELSE 0
        <4>1. CASE result[w][ch] = "sent" BY <3>2, <3>3, <4>1 DEF Logged
        <4>2. CASE result[w][ch] # "sent" BY <1>1, <3>2, <3>3, <4>2 DEF Logged
        <4> QED BY <4>1, <4>2
      <3>5. delivered'[j][ch] = delivered[j][ch] + IF ch \in rows /\ ch \in InApp THEN 1 ELSE 0
        BY <1>1, <2>2, <2>6 DEF DispatchTypeOK, NoticeTable
      <3>6. ch \in rows <=> result[w][ch] # "none" OBVIOUS
      <3>7. result[w][ch] = "sent" <=> w \in Carrying(j, ch) \/ (ch \in rows /\ ch \in InApp)
        <4>1. ch \in InApp => result[w][ch] \in {"none", "sent"} BY DEF RunInOrder
        <4>2. ch \in Unsupported => result[w][ch] \in {"none", "skipped"} BY DEF RunInOrder
        <4> QED BY <3>1, <4>1, <4>2, KindsAssumption DEF Channels
      <3>8. ~(w \in Carrying(j, ch) /\ ch \in InApp) BY <3>1, KindsAssumption
      <3>9. /\ Pending(j, ch) \in Nat /\ Pending(j, ch)' \in Nat
            /\ Pending(j, ch) = Pending(j, ch)' + IF w \in Carrying(j, ch) THEN 1 ELSE 0
        BY <2>3, <2>5, PendingChanges
      <3>10. unlogged'[j][ch] = unlogged[j][ch] BY <2>2
      <3> HIDE DEF rows
      <3> QED BY <1>1, <3>4, <3>5, <3>7, <3>8, <3>9, <3>10
    <2>7. CASE j # i
      <3>1. w \notin Carrying(j, ch) BY <2>1, <2>7 DEF Carrying
      <3>2. Pending(j, ch)' = Pending(j, ch) BY <2>3, <2>5, <3>1, PendingChanges
      <3>3. UNCHANGED <<log[j], delivered[j], unlogged>>
        BY <2>2, <2>7 DEF DispatchTypeOK, NoticeTable
      <3> QED BY <1>1, <3>2, <3>3
    <2> QED BY <2>6, <2>7
  <1>6. ASSUME NEW w \in Workers, Undo(w) \/ (committed[w] /\ unlogged' = unlogged),
               EndRun(w), job[w] # NoJob, UNCHANGED <<log, delivered>>
        PROVE  delivered'[j][ch] = log'[j][ch]["sent"] + Pending(j, ch)' + unlogged'[j][ch]
    <2>1. \A v \in Workers \ {w} : UNCHANGED <<job[v], result[v]>> BY <1>6 DEF EndRun
    <2>2. w \notin Carrying(j, ch)'
      <3>1. result'[w][ch] = "none" BY <1>6 DEF EndRun, NoResult, DispatchTypeOK
      <3> QED BY <3>1 DEF Carrying
    <2>3. /\ Pending(j, ch) \in Nat /\ Pending(j, ch)' \in Nat
          /\ Pending(j, ch) = Pending(j, ch)' + IF w \in Carrying(j, ch) THEN 1 ELSE 0
      BY <2>1, <2>2, PendingChanges
    <2>4. committed[w] => w \notin Carrying(j, ch)
      <3>1. committed[w] => result[w][ch] = "none" BY DEF RunInOrder, NoResult
      <3> QED BY <3>1 DEF Carrying
    <2>5. unlogged'[j][ch] = unlogged[j][ch] + IF w \in Carrying(j, ch) THEN 1 ELSE 0
      <3>1. CASE Undo(w)
        <4>1. PICK i \in Jobs : i = job[w] BY <1>6 DEF DispatchTypeOK
        <4>2. unlogged' = [unlogged EXCEPT ![i] = [c \in Channels |->
                 unlogged[i][c] + IF c \in External /\ result[w][c] = "sent" THEN 1 ELSE 0]]
          BY <3>1, <4>1 DEF Undo
        <4>3. unlogged'[j][ch] = unlogged[j][ch]
                + IF j = i /\ ch \in External /\ result[w][ch] = "sent" THEN 1 ELSE 0
          BY <1>1, <4>2 DEF DispatchTypeOK, NoticeTable
        <4>4. w \in Carrying(j, ch) <=> j = i /\ ch \in External /\ result[w][ch] = "sent"
          BY <4>1 DEF Carrying
        <4> QED BY <4>3, <4>4
      <3>2. CASE committed[w] /\ unlogged' = unlogged BY <1>1, <2>4, <3>2
      <3> QED BY <1>6, <3>1, <3>2
    <2>6. UNCHANGED <<log[j][ch], delivered[j][ch]>> BY <1>6
    <2> QED BY <1>1, <2>3, <2>5, <2>6
  <1>7. ASSUME NEW w \in Workers, Ack(w) \/ AbortRun(w) \/ LoseWorker(w) \/ LoseChild(w)
        PROVE  delivered'[j][ch] = log'[j][ch]["sent"] + Pending(j, ch)' + unlogged'[j][ch]
    <2>1. /\ Undo(w) \/ (committed[w] /\ unlogged' = unlogged)
          /\ EndRun(w) /\ job[w] # NoJob /\ UNCHANGED <<log, delivered>>
      BY <1>7 DEF Ack, AbortRun, LoseWorker, LoseChild, dbVars
    <2> QED BY <1>6, <2>1
  <1>8. ASSUME NEW w \in Workers, LogResult(w) \/ Overrun(w)
        PROVE  UNCHANGED <<job, result, log, delivered, unlogged>>
    BY <1>8 DEF LogResult, Overrun, runVars, dbVars
  <1>9. ASSUME NEW i \in Jobs, NEW n \in 0..MaxRetries, Redeliver(i, n)
        PROVE  UNCHANGED <<job, result, log, delivered, unlogged>>
    BY <1>9 DEF Redeliver, runVars, dbVars
  <1> QED BY <1>2, <1>3, <1>4, <1>5, <1>7, <1>8, <1>9 DEF DispatchNext, Run

(* One message of a task comes or goes. *)
LEMMA MessagesChange ==
    ASSUME DispatchTypeOK, DispatchTypeOK', NEW j \in Jobs, NEW m \in 0..MaxRetries,
           \A n \in (0..MaxRetries) \ {m} :
               ready'[j][n] + orphans'[j][n] = ready[j][n] + orphans[j][n],
           NEW d \in {-1, 0, 1},
           ready'[j][m] + orphans'[j][m] = ready[j][m] + orphans[j][m] + d
    PROVE  /\ Messages(j) \in Nat /\ Messages(j)' \in Nat
           /\ Messages(j)' = Messages(j) + d
  <1> DEFINE N == 0..MaxRetries
  <1>1. PICK f, g : f = Queued(j) /\ g = Queued(j)' OBVIOUS
  <1>2. /\ \A n \in N : ready[j][n] \in Nat /\ orphans[j][n] \in Nat
        /\ \A n \in N : ready'[j][n] \in Nat /\ orphans'[j][n] \in Nat
    BY CellType DEF DispatchTypeOK
  <1>3. /\ f = [n \in N |-> ready[j][n] + orphans[j][n]]
        /\ g = [n \in N |-> ready'[j][n] + orphans'[j][n]]
    BY <1>1 DEF Queued
  <1>4. IsFiniteSet(N) BY FS_Interval, KindsAssumption
  <1> HIDE DEF N
  <1>5. f \in [N -> Nat] /\ g \in [N -> Nat] BY <1>2, <1>3
  <1>6. m \in N BY DEF N
  <1>7. g[m] = f[m] + d /\ \A n \in N \ {m} : g[n] = f[n] BY <1>3, <1>6 DEF N
  <1>8. Messages(j) = SumFunction(f) /\ Messages(j)' = SumFunction(g)
    BY <1>1 DEF Messages
  <1>9. CASE d = 1
    <2>1. SumFunction(f) \in Nat /\ SumFunction(g) = SumFunction(f) + 1
      <3>1. g[m] = f[m] + 1 /\ \A n \in N \ {m} : g[n] = f[n] BY <1>7, <1>9
      <3> QED BY <1>4, <1>5, <1>6, <3>1, SumOneMore
    <2> QED BY <1>8, <1>9, <2>1
  <1>10. CASE d = -1
    <2>1. f[m] = g[m] + 1 /\ \A n \in N \ {m} : f[n] = g[n]
      BY <1>5, <1>6, <1>7, <1>10
    <2>2. SumFunction(g) \in Nat /\ SumFunction(f) = SumFunction(g) + 1
      BY <1>4, <1>5, <1>6, <2>1, SumOneMore
    <2> QED BY <1>8, <1>10, <2>2
  <1>11. CASE d = 0
    <2>1. \A n \in N : g[n] = f[n] BY <1>5, <1>6, <1>7, <1>11
    <2>2. f = g BY <1>5, <2>1
    <2>3. SumFunction(f) \in Nat BY <1>4, <1>5, SumType
    <2> QED BY <1>8, <1>11, <2>2, <2>3
  <1> QED BY <1>9, <1>10, <1>11

LEMMA HoldingChanges ==
    ASSUME NEW w \in Workers, NEW j,
           \A v \in Workers \ {w} : UNCHANGED <<job[v], committed[v]>>
    PROVE  /\ Cardinality(Holding(j)) \in Nat /\ Cardinality(Holding(j))' \in Nat
           /\ Cardinality(Holding(j)) + (IF w \in Holding(j)' THEN 1 ELSE 0)
                = Cardinality(Holding(j))' + (IF w \in Holding(j) THEN 1 ELSE 0)
  <1>1. PICK A, B : A = Holding(j) /\ B = Holding(j)' OBVIOUS
  <1>2. A \in SUBSET Workers /\ B \in SUBSET Workers BY <1>1 DEF Holding
  <1>3. \A v \in Workers \ {w} : v \in A <=> v \in B BY <1>1 DEF Holding
  <1>4. A \ {w} = B \ {w} BY <1>2, <1>3
  <1>5. /\ Cardinality(A) \in Nat /\ Cardinality(B) \in Nat
        /\ Cardinality(A) + (IF w \in B THEN 1 ELSE 0)
             = Cardinality(B) + (IF w \in A THEN 1 ELSE 0)
    BY <1>2, <1>4, OneChanges, KindsAssumption
  <1> QED BY <1>1, <1>5

LEMMA TasksKept ==
    ASSUME DispatchTypeOK, DispatchTypeOK', \A w \in Workers : RunInOrder(w),
           TasksBounded, DispatchNext
    PROVE  TasksBounded'
  <1> SUFFICES ASSUME NEW j \in Jobs, NEW ch \in Channels
               PROVE  log'[j][ch]["sent"] + Messages(j)' + Cardinality(Holding(j))'
                        <= 1 + faults'
    BY DEF TasksBounded
  <1> DEFINE Bound == log[j][ch]["sent"] + Messages(j) + Cardinality(Holding(j)) <= 1 + faults
             H == Cardinality(Holding(j))
             L == log[j][ch]["sent"]
  <1>1. Bound /\ L \in Nat /\ faults \in Nat
    BY DEF TasksBounded, DispatchTypeOK, LogStatus
  <1>2. ASSUME UNCHANGED <<ready, orphans>>
        PROVE  Messages(j) \in Nat /\ Messages(j)' = Messages(j)
    <2>1. 0 \in 0..MaxRetries BY KindsAssumption
    <2>2. \A n \in 0..MaxRetries :
             /\ ready'[j][n] + orphans'[j][n] = ready[j][n] + orphans[j][n]
             /\ ready'[j][n] + orphans'[j][n] = ready[j][n] + orphans[j][n] + 0
      <3>1. \A n \in 0..MaxRetries : ready[j][n] \in Nat /\ orphans[j][n] \in Nat
        BY CellType DEF DispatchTypeOK
      <3> QED BY <1>2, <3>1
    <2>3. Messages(j) \in Nat /\ Messages(j)' = Messages(j) + 0
      BY <2>1, <2>2, MessagesChange
    <2> QED BY <2>3
  <1>3. ASSUME UNCHANGED <<job, committed>>
        PROVE  H \in Nat /\ H' = H
    <2>1. Holding(j)' = Holding(j) BY <1>3 DEF Holding
    <2>2. Holding(j) \in SUBSET Workers BY DEF Holding
    <2> QED BY <2>1, <2>2, FS_Subset, FS_CardinalityType, KindsAssumption
  <1>4. ASSUME NEW i \in Jobs, NEW n \in 0..MaxRetries, NEW d \in {-1, 1},
               \/ /\ ready' = [ready EXCEPT ![i][n] = @ + d] /\ orphans' = orphans
               \/ /\ orphans' = [orphans EXCEPT ![i][n] = @ + d] /\ ready' = ready
        PROVE  /\ Messages(j) \in Nat /\ Messages(j)' \in Nat
               /\ Messages(j)' = Messages(j) + IF i = j THEN d ELSE 0
    <2>1. \A m \in 0..MaxRetries :
             /\ ready[j][m] \in Nat /\ orphans[j][m] \in Nat
             /\ ready'[j][m] \in Nat /\ orphans'[j][m] \in Nat
      BY CellType DEF DispatchTypeOK
    <2>2. PICK e \in {-1, 0, 1} : e = IF i = j THEN d ELSE 0 OBVIOUS
    <2>3. /\ \A m \in (0..MaxRetries) \ {n} :
                ready'[j][m] + orphans'[j][m] = ready[j][m] + orphans[j][m]
          /\ ready'[j][n] + orphans'[j][n] = ready[j][n] + orphans[j][n] + e
      <3>1. CASE ready' = [ready EXCEPT ![i][n] = @ + d] /\ orphans' = orphans
        <4>1. \A m \in 0..MaxRetries :
                 ready'[j][m] = ready[j][m] + IF i = j /\ m = n THEN d ELSE 0
          <5>1. ready \in [Jobs -> [0..MaxRetries -> Nat]] /\ d \in Int BY DEF DispatchTypeOK
          <5> QED BY <3>1, <5>1, CellMore
        <4> QED BY <2>1, <2>2, <3>1, <4>1
      <3>2. CASE orphans' = [orphans EXCEPT ![i][n] = @ + d] /\ ready' = ready
        <4>1. \A m \in 0..MaxRetries :
                 orphans'[j][m] = orphans[j][m] + IF i = j /\ m = n THEN d ELSE 0
          <5>1. orphans \in [Jobs -> [0..MaxRetries -> Nat]] /\ d \in Int BY DEF DispatchTypeOK
          <5> QED BY <3>2, <5>1, CellMore
        <4> QED BY <2>1, <2>2, <3>2, <4>1
      <3> QED BY <1>4, <3>1, <3>2
    <2>4. Messages(j) \in Nat /\ Messages(j)' \in Nat /\ Messages(j)' = Messages(j) + e
      BY <2>3, MessagesChange
    <2> QED BY <2>2, <2>4
  <1> HIDE DEF H, L
  <1>5. ASSUME NEW w \in Workers, NEW i \in Jobs, NEW n \in 0..MaxRetries, Take(w, i, n)
        PROVE  L' + Messages(j)' + H' <= 1 + faults'
    <2>1. /\ ready' = [ready EXCEPT ![i][n] = @ + (-1)] /\ UNCHANGED orphans
          /\ \A v \in Workers \ {w} : UNCHANGED <<job[v], committed[v]>>
          /\ job[w] = NoJob /\ job'[w] = i /\ UNCHANGED <<committed, log, faults>>
      BY <1>5 DEF Take, dbVars, DispatchTypeOK
    <2>2. w \notin Holding(j) BY <2>1, KindsAssumption DEF Holding
    <2>3. w \in Holding(j)' <=> i = j BY <2>1 DEF Holding, RunInOrder
    <2>4. H \in Nat /\ H' = H + IF i = j THEN 1 ELSE 0
      BY <2>1, <2>2, <2>3, HoldingChanges DEF H
    <2>5. /\ Messages(j) \in Nat /\ Messages(j)' \in Nat
          /\ Messages(j)' = Messages(j) + IF i = j THEN -1 ELSE 0
      BY <1>4, <2>1
    <2>6. L' = L /\ faults' = faults BY <2>1 DEF L
    <2> QED BY <1>1, <2>4, <2>5, <2>6 DEF H, L
  <1>6. ASSUME NEW w \in Workers, Commit(w)
        PROVE  L' + Messages(j)' + H' <= 1 + faults'
    <2>1. PICK i \in Jobs : i = job[w] BY <1>6 DEF Commit, DispatchTypeOK
    <2>2. /\ UNCHANGED <<ready, orphans, job, faults>> /\ ~committed[w]
          /\ committed' = [committed EXCEPT ![w] = TRUE]
      BY <1>6 DEF Commit, queueVars
    <2>3. \A v \in Workers \ {w} : UNCHANGED <<job[v], committed[v]>> BY <2>2
    <2>4. w \in Holding(j) <=> i = j BY <2>1, <2>2 DEF Holding
    <2>5. w \notin Holding(j)' BY <2>2 DEF Holding, DispatchTypeOK
    <2>6. H \in Nat /\ H' \in Nat /\ H = H' + IF i = j THEN 1 ELSE 0
      BY <2>3, <2>4, <2>5, HoldingChanges DEF H
    <2>7. L' \in Nat /\ L' <= L + IF i = j THEN 1 ELSE 0
      <3>1. log' = [log EXCEPT ![i] = [c \in Channels |->
                      IF result[w][c] # "none" THEN Logged(log[i][c], result[w][c])
                      ELSE log[i][c]]]
        BY <1>6, <2>1 DEF Commit
      <3>2. log[j][ch] \in [LogStatus -> Nat] /\ "sent" \in LogStatus
        BY DEF DispatchTypeOK, LogStatus
      <3>3. CASE i = j
        <4>1. log'[j][ch] = IF result[w][ch] # "none" THEN Logged(log[j][ch], result[w][ch])
                            ELSE log[j][ch]
          BY <3>1, <3>3 DEF DispatchTypeOK
        <4>2. log'[j][ch]["sent"] = log[j][ch]["sent"]
                \/ log'[j][ch]["sent"] = log[j][ch]["sent"] + 1
          BY <3>2, <4>1 DEF Logged
        <4>3. L' = L \/ L' = L + 1 BY <4>2 DEF L
        <4> QED BY <1>1, <3>3, <4>3
      <3>4. CASE i # j
        <4>1. log'[j] = log[j] BY <3>1, <3>4 DEF DispatchTypeOK
        <4>2. L' = L BY <4>1 DEF L
        <4> QED BY <1>1, <3>4, <4>2
      <3> QED BY <3>3, <3>4
    <2>8. Messages(j) \in Nat /\ Messages(j)' = Messages(j) BY <1>2, <2>2
    <2>9. faults' = faults BY <2>2
    <2> QED BY <1>1, <2>6, <2>7, <2>8, <2>9 DEF H, L
  <1>7. ASSUME NEW w \in Workers, EndRun(w), job[w] # NoJob
        PROVE  /\ H \in Nat /\ H' \in Nat
               /\ H = H' + IF job[w] = j /\ ~committed[w] THEN 1 ELSE 0
    <2>1. /\ \A v \in Workers \ {w} : UNCHANGED <<job[v], committed[v]>>
          /\ job'[w] = NoJob
      BY <1>7 DEF EndRun, DispatchTypeOK
    <2>2. w \notin Holding(j)' BY <2>1, KindsAssumption DEF Holding
    <2>3. w \in Holding(j) <=> job[w] = j /\ ~committed[w] BY DEF Holding
    <2> QED BY <2>1, <2>2, <2>3, HoldingChanges DEF H
  <1>8. ASSUME NEW w \in Workers, Ack(w) PROVE L' + Messages(j)' + H' <= 1 + faults'
    <2>1. /\ EndRun(w) /\ job[w] # NoJob /\ committed[w]
          /\ UNCHANGED <<ready, orphans, log, faults>>
      BY <1>8 DEF Ack, dbVars
    <2>2. H \in Nat /\ H' = H BY <1>7, <2>1
    <2>3. Messages(j) \in Nat /\ Messages(j)' = Messages(j) BY <1>2, <2>1
    <2>4. L' = L /\ faults' = faults BY <2>1 DEF L
    <2> QED BY <1>1, <2>2, <2>3, <2>4 DEF H, L
  <1>9. ASSUME NEW w \in Workers, AbortRun(w) PROVE L' + Messages(j)' + H' <= 1 + faults'
    <2>1. /\ EndRun(w) /\ job[w] # NoJob /\ ~committed[w] /\ Retry(w)
          /\ UNCHANGED <<orphans, log, faults>>
      BY <1>9 DEF AbortRun, dbVars
    <2>2. /\ H \in Nat /\ H' \in Nat /\ H = H' + IF job[w] = j THEN 1 ELSE 0
      BY <1>7, <2>1
    <2>3. PICK i \in Jobs, n \in 0..MaxRetries : i = job[w] /\ n = tries[w]
      BY <2>1 DEF DispatchTypeOK
    <2>4. /\ Messages(j) \in Nat /\ Messages(j)' \in Nat
          /\ Messages(j)' <= Messages(j) + IF i = j THEN 1 ELSE 0
      <3>1. CASE n < MaxRetries
        <4>1. n + 1 \in 0..MaxRetries BY <3>1, KindsAssumption
        <4>2. PICK m \in 0..MaxRetries : m = n + 1 BY <4>1
        <4>3. ready' = [ready EXCEPT ![i][m] = @ + 1]
          BY <2>1, <2>3, <3>1, <4>2 DEF Retry
        <4>4. /\ Messages(j) \in Nat /\ Messages(j)' \in Nat
              /\ Messages(j)' = Messages(j) + IF i = j THEN 1 ELSE 0
          BY <1>4, <2>1, <4>3
        <4> QED BY <4>4
      <3>2. CASE ~(n < MaxRetries)
        <4>1. ready' = ready BY <2>1, <2>3, <3>2 DEF Retry
        <4>2. Messages(j) \in Nat /\ Messages(j)' = Messages(j) BY <1>2, <2>1, <4>1
        <4> QED BY <4>2
      <3> QED BY <3>1, <3>2
    <2>5. L' = L /\ faults' = faults BY <2>1 DEF L
    <2> QED BY <1>1, <2>2, <2>3, <2>4, <2>5 DEF H, L
  <1>10. ASSUME NEW w \in Workers, LoseWorker(w)
         PROVE  L' + Messages(j)' + H' <= 1 + faults'
    <2>1. PICK i \in Jobs, n \in 0..MaxRetries : i = job[w] /\ n = tries[w]
      BY <1>10 DEF LoseWorker, DispatchTypeOK
    <2>2. /\ EndRun(w) /\ job[w] # NoJob /\ faults' = faults + 1
          /\ orphans' = [orphans EXCEPT ![i][n] = @ + 1]
          /\ UNCHANGED <<ready, log>>
      BY <1>10, <2>1 DEF LoseWorker, dbVars
    <2>3. H \in Nat /\ H' \in Nat /\ H' <= H BY <1>7, <2>2
    <2>4. /\ Messages(j) \in Nat /\ Messages(j)' \in Nat
          /\ Messages(j)' = Messages(j) + IF i = j THEN 1 ELSE 0
      BY <1>4, <2>2
    <2>5. L' = L BY <2>2 DEF L
    <2> QED BY <1>1, <2>2, <2>3, <2>4, <2>5 DEF H, L
  <1>16. ASSUME NEW w \in Workers, LoseChild(w)
         PROVE  L' + Messages(j)' + H' <= 1 + faults'
    <2>1. /\ EndRun(w) /\ job[w] # NoJob /\ faults' = faults + 1
          /\ UNCHANGED <<ready, orphans, log>>
      BY <1>16 DEF LoseChild, dbVars
    <2>2. H \in Nat /\ H' \in Nat /\ H' <= H BY <1>7, <2>1
    <2>3. Messages(j) \in Nat /\ Messages(j)' = Messages(j) BY <1>2, <2>1
    <2>4. L' = L BY <2>1 DEF L
    <2> QED BY <1>1, <2>1, <2>2, <2>3, <2>4 DEF H, L
  <1>11. ASSUME NEW w \in Workers, Overrun(w)
         PROVE  L' + Messages(j)' + H' <= 1 + faults'
    <2>1. PICK i \in Jobs, n \in 0..MaxRetries : i = job[w] /\ n = tries[w]
      BY <1>11 DEF Overrun, DispatchTypeOK
    <2>2. /\ faults' = faults + 1
          /\ ready' = [ready EXCEPT ![i][n] = @ + 1]
          /\ UNCHANGED <<orphans, job, committed, log>>
      BY <1>11, <2>1 DEF Overrun, dbVars, runVars
    <2>3. H \in Nat /\ H' = H BY <1>3, <2>2
    <2>4. /\ Messages(j) \in Nat /\ Messages(j)' \in Nat
          /\ Messages(j)' = Messages(j) + IF i = j THEN 1 ELSE 0
      BY <1>4, <2>2
    <2>5. L' = L BY <2>2 DEF L
    <2> QED BY <1>1, <2>2, <2>3, <2>4, <2>5 DEF H, L
  <1>12. ASSUME NEW i \in Jobs, NEW n \in 0..MaxRetries, Redeliver(i, n)
         PROVE  L' + Messages(j)' + H' <= 1 + faults'
    <2>1. /\ orphans' = [orphans EXCEPT ![i][n] = orphans[i][n] - 1]
          /\ ready' = [ready EXCEPT ![i][n] = ready[i][n] + 1]
          /\ UNCHANGED <<job, committed, log, faults>>
      BY <1>12 DEF Redeliver, runVars, dbVars
    <2>2. \A m \in 0..MaxRetries :
             /\ ready'[j][m] + orphans'[j][m] = ready[j][m] + orphans[j][m]
             /\ ready'[j][m] + orphans'[j][m] = ready[j][m] + orphans[j][m] + 0
      <3>1. \A m \in 0..MaxRetries : ready[j][m] \in Nat /\ orphans[j][m] \in Nat
        BY CellType DEF DispatchTypeOK
      <3>2. /\ ready' = [ready EXCEPT ![i][n] = @ + 1]
            /\ orphans' = [orphans EXCEPT ![i][n] = @ + (-1)]
        BY <2>1, CellType DEF DispatchTypeOK
      <3>3. ASSUME NEW m \in 0..MaxRetries
            PROVE  /\ ready'[j][m] = ready[j][m] + IF i = j /\ m = n THEN 1 ELSE 0
                   /\ orphans'[j][m] = orphans[j][m] + IF i = j /\ m = n THEN -1 ELSE 0
        <4>1. /\ ready \in [Jobs -> [0..MaxRetries -> Nat]]
              /\ orphans \in [Jobs -> [0..MaxRetries -> Nat]]
          BY DEF DispatchTypeOK
        <4>2. ready'[j][m] = ready[j][m] + IF i = j /\ m = n THEN 1 ELSE 0
          <5>1. PICK d \in Int : d = 1 OBVIOUS
          <5>2. ready' = [ready EXCEPT ![i][n] = @ + d] BY <3>2, <5>1
          <5>3. ready'[j][m] = ready[j][m] + IF i = j /\ m = n THEN d ELSE 0
            <6>1. ready \in [Jobs -> [0..MaxRetries -> Nat]] /\ d \in Int
              BY <4>1, <5>1
            <6> QED BY <5>2, <6>1, CellMore
          <5> QED BY <5>1, <5>3
        <4>3. orphans'[j][m] = orphans[j][m] + IF i = j /\ m = n THEN -1 ELSE 0
          <5>1. PICK d \in Int : d = -1 OBVIOUS
          <5>2. orphans' = [orphans EXCEPT ![i][n] = @ + d] BY <3>2, <5>1
          <5>3. orphans'[j][m] = orphans[j][m] + IF i = j /\ m = n THEN d ELSE 0
            <6>1. orphans \in [Jobs -> [0..MaxRetries -> Nat]] /\ d \in Int
              BY <4>1, <5>1
            <6> QED BY <5>2, <6>1, CellMore
          <5> QED BY <5>1, <5>3
        <4> QED BY <4>2, <4>3
      <3> QED BY <3>1, <3>3
    <2>3. Messages(j) \in Nat /\ Messages(j)' = Messages(j) + 0
      BY <2>2, MessagesChange
    <2>4. H \in Nat /\ H' = H BY <1>3, <2>1
    <2>5. L' = L /\ faults' = faults BY <2>1 DEF L
    <2> QED BY <1>1, <2>3, <2>4, <2>5 DEF H, L
  <1>13. ASSUME UNCHANGED <<ready, orphans, job, committed, log, faults>>
         PROVE  L' + Messages(j)' + H' <= 1 + faults'
    <2>1. H' = H /\ Messages(j)' = Messages(j) BY <1>2, <1>3, <1>13
    <2>2. L' = L /\ faults' = faults BY <1>13 DEF L
    <2> QED BY <1>1, <2>1, <2>2 DEF H, L
  <1>14. ASSUME NEW w \in Workers, NEW c \in Channels,
                SendOk(w, c) \/ SendRaises(w, c) \/ SendSkips(w, c) \/ LogResult(w)
         PROVE  UNCHANGED <<ready, orphans, job, committed, log, faults>>
    BY <1>14 DEF SendOk, SendRaises, SendSkips, Sending, LogResult, queueVars, dbVars
  <1>15. ASSUME NEW w \in Workers, LogResult(w)
         PROVE  UNCHANGED <<ready, orphans, job, committed, log, faults>>
    BY <1>15 DEF LogResult, queueVars, dbVars
  <1> QED
    BY <1>5, <1>6, <1>8, <1>9, <1>10, <1>11, <1>12, <1>13, <1>14, <1>15, <1>16
    DEF DispatchNext, Run, H, L

LEMMA DispatchInitially == DispatchInit => DispatchInv
  <1> SUFFICES ASSUME DispatchInit PROVE DispatchInv OBVIOUS
  <1> USE DEF DispatchInit
  <1>1. 0 \in 0..MaxRetries /\ faults \in 0..MaxFaults BY KindsAssumption
  <1>2. DispatchTypeOK
    BY <1>1 DEF DispatchTypeOK, NoticeTable, NoNotice, NoResult
  <1>3. \A w \in Workers : RunInOrder(w) BY DEF RunInOrder, NoResult, Channels
  <1>4. ASSUME NEW ch \in Channels, NEW s \in LogStatus PROVE Rows(ch, s) = 0
    <2> DEFINE f == [j \in Jobs |-> log[j][ch][s]]
    <2>1. f \in [Jobs -> Nat] /\ \A j \in Jobs : f[j] = 0 OBVIOUS
    <2>2. Rows(ch, s) = SumFunction(f) BY DEF Rows
    <2> HIDE DEF f
    <2> QED BY <2>1, <2>2, SumZero, KindsAssumption
  <1>5. ASSUME NEW j \in Jobs
        PROVE  SumFunction([ch \in Channels |-> log[j][ch]["sent"] + log[j][ch]["skipped"]]) = 0
    <2> DEFINE f == [ch \in Channels |-> log[j][ch]["sent"] + log[j][ch]["skipped"]]
    <2>1. \A ch \in Channels : log[j][ch]["sent"] = 0 /\ log[j][ch]["skipped"] = 0
      BY DEF LogStatus
    <2>2. ASSUME NEW ch \in Channels PROVE f[ch] = 0
      <3>1. f[ch] = log[j][ch]["sent"] + log[j][ch]["skipped"] OBVIOUS
      <3> HIDE DEF f
      <3> QED BY <2>1, <3>1
    <2>3. f = [ch \in Channels |-> f[ch]] OBVIOUS
    <2> HIDE DEF f
    <2>4. f \in [Channels -> Nat] BY <2>2, <2>3
    <2>5. SumFunction(f) = 0 BY <2>2, <2>4, SumZero, KindsAssumption
    <2> QED BY <2>5 DEF f
  <1>6. CountersMatchLog
    <2>1. {"sent", "failed", "skipped"} = LogStatus BY DEF LogStatus
    <2>2. \A ch \in Channels :
             Rows(ch, "sent") = 0 /\ Rows(ch, "failed") = 0 /\ Rows(ch, "skipped") = 0
      BY <1>4, <2>1
    <2>3. \A ch \in Channels : counter[ch].sent = 0 /\ counter[ch].failed = 0 OBVIOUS
    <2>4. \A j \in Jobs : noticeCount[j] = 0 OBVIOUS
    <2> HIDE DEF DispatchInit
    <2>5. \A ch \in Channels :
             /\ counter[ch].sent = Rows(ch, "sent")
             /\ counter[ch].failed = Rows(ch, "failed") + Rows(ch, "skipped")
      BY <2>2, <2>3
    <2>6. \A j \in Jobs : noticeCount[j] = SumFunction(
             [ch \in Channels |-> log[j][ch]["sent"] + log[j][ch]["skipped"]])
      BY <1>5, <2>4
    <2> QED BY <2>5, <2>6 DEF CountersMatchLog
  <1>7. EveryNoticeTraced
    <2> SUFFICES ASSUME NEW j \in Jobs, NEW ch \in Channels
                 PROVE  delivered[j][ch] = log[j][ch]["sent"] + Pending(j, ch) + unlogged[j][ch]
      BY DEF EveryNoticeTraced
    <2>1. \A w \in Workers : result[w][ch] = "none" BY DEF NoResult
    <2>2. Carrying(j, ch) = {} BY <2>1 DEF Carrying
    <2>3. Pending(j, ch) = 0 BY <2>2, FS_EmptySet DEF Pending, Carrying
    <2>4. delivered[j][ch] = 0 /\ log[j][ch]["sent"] = 0 /\ unlogged[j][ch] = 0
      BY DEF NoNotice, LogStatus
    <2> QED BY <2>3, <2>4
  <1>8. TasksBounded
    <2> SUFFICES ASSUME NEW j \in Jobs, NEW ch \in Channels
                 PROVE  log[j][ch]["sent"] + Messages(j) + Cardinality(Holding(j)) <= 1 + faults
      BY DEF TasksBounded
    <2> DEFINE N == 0..MaxRetries
    <2>1. PICK f : f = Queued(j) OBVIOUS
    <2>2. \A n \in N : ready[j][n] = (IF n = 0 THEN 1 ELSE 0) /\ orphans[j][n] = 0
      OBVIOUS
    <2>3. f = [n \in N |-> IF n = 0 THEN 1 ELSE 0] BY <2>1, <2>2 DEF Queued
    <2>4. IsFiniteSet(N) BY FS_Interval, KindsAssumption
    <2>5. PICK z \in N : z = 0 BY <1>1
    <2> HIDE DEF N, DispatchInit
    <2>6. f \in [N -> Nat] BY <2>3
    <2>7. f[z] = 1 /\ \A n \in N \ {z} : f[n] = 0 BY <2>3, <2>5
    <2>8. SumFunction(f) = 1 BY <2>4, <2>6, <2>7, SumSingle
    <2> USE DEF DispatchInit
    <2>9. Messages(j) = 1 BY <2>1, <2>8 DEF Messages
    <2>10. Holding(j) = {} BY KindsAssumption DEF Holding
    <2>11. Cardinality(Holding(j)) = 0 BY <2>10, FS_EmptySet
    <2>12. log[j][ch]["sent"] = 0 /\ faults = 0 BY DEF LogStatus
    <2> QED BY <2>9, <2>11, <2>12
  <1> QED BY <1>2, <1>3, <1>6, <1>7, <1>8 DEF DispatchInv

LEMMA DispatchStep == DispatchInv /\ [DispatchNext]_dispatchVars => DispatchInv'
  <1> SUFFICES ASSUME DispatchInv, [DispatchNext]_dispatchVars PROVE DispatchInv' OBVIOUS
  <1> USE DEF DispatchInv
  <1>1. CASE DispatchNext
    <2>1. DispatchTypeOK' /\ \A w \in Workers : RunInOrder(w)' BY <1>1, DispatchTypesKept
    <2>2. CountersMatchLog'
      <3>1. CASE \A w \in Workers : ~Commit(w)
        <4>1. UNCHANGED dbVars BY <1>1, <3>1, WritesOnlyOnCommit
        <4> QED BY <4>1 DEF dbVars, CountersMatchLog, Rows
      <3>2. CASE \E w \in Workers : Commit(w) BY <2>1, <3>2, CountersKept
      <3> QED BY <3>1, <3>2
    <2>3. EveryNoticeTraced' BY <1>1, NoticesKept
    <2>4. TasksBounded' BY <1>1, <2>1, TasksKept
    <2> QED BY <2>1, <2>2, <2>3, <2>4
  <1>2. CASE UNCHANGED dispatchVars
    <2> USE <1>2 DEF dispatchVars, queueVars, runVars, dbVars
    <2>1. DispatchTypeOK' BY DEF DispatchTypeOK
    <2>2. \A w \in Workers : RunInOrder(w)' BY DEF RunInOrder
    <2>3. CountersMatchLog' BY DEF CountersMatchLog, Rows
    <2>4. EveryNoticeTraced' BY DEF EveryNoticeTraced, Pending
    <2>5. TasksBounded' BY DEF TasksBounded, Messages, Queued, Holding
    <2> QED BY <2>1, <2>2, <2>3, <2>4, <2>5
  <1> QED BY <1>1, <1>2

LEMMA DispatchInvariant == DispatchSpec => []DispatchInv
  BY DispatchInitially, DispatchStep, PTL DEF DispatchSpec

(* A run that sent is one that still holds the task, so the runs that may send
   bound the notices the log does not know of. *)
LEMMA DispatchImplies == DispatchInv => DispatchAccounted
  <1> SUFFICES ASSUME DispatchInv, NEW j \in Jobs, NEW ch \in Channels
               PROVE  delivered[j][ch] <= 1 + unlogged[j][ch] + faults
    BY DEF DispatchInv, DispatchAccounted, RepeatsExcused
  <1> USE DEF DispatchInv
  <1>1. Carrying(j, ch) \in SUBSET Holding(j)
    <2> SUFFICES ASSUME NEW w \in Carrying(j, ch) PROVE w \in Holding(j) OBVIOUS
    <2>1. w \in Workers /\ job[w] = j /\ result[w][ch] = "sent" BY DEF Carrying
    <2>2. ~committed[w] BY <2>1 DEF RunInOrder, NoResult
    <2> QED BY <2>1, <2>2 DEF Holding
  <1>2. Holding(j) \in SUBSET Workers BY DEF Holding
  <1>3. IsFiniteSet(Holding(j)) /\ Cardinality(Holding(j)) \in Nat
    BY <1>2, FS_Subset, FS_CardinalityType, KindsAssumption
  <1>4. /\ Pending(j, ch) \in Nat /\ Pending(j, ch) <= Cardinality(Holding(j))
    <2>1. Pending(j, ch) = Cardinality(Carrying(j, ch)) BY DEF Pending, Carrying
    <2>2. Cardinality(Carrying(j, ch)) \in Nat
      BY <1>1, <1>3, FS_Subset, FS_CardinalityType
    <2> QED BY <1>1, <1>3, <2>1, <2>2, FS_Subset
  <1>5. Messages(j) \in Nat
    <2> DEFINE N == 0..MaxRetries
    <2>1. PICK f : f = Queued(j) OBVIOUS
    <2>2. \A n \in N : ready[j][n] \in Nat /\ orphans[j][n] \in Nat
      BY CellType DEF DispatchTypeOK
    <2>3. f = [n \in N |-> ready[j][n] + orphans[j][n]] BY <2>1 DEF Queued
    <2>4. IsFiniteSet(N) BY FS_Interval, KindsAssumption
    <2> HIDE DEF N
    <2>5. f \in [N -> Nat] BY <2>2, <2>3
    <2> QED BY <2>1, <2>4, <2>5, SumType DEF Messages
  <1>6. /\ log[j][ch]["sent"] \in Nat /\ unlogged[j][ch] \in Nat /\ faults \in Nat
    BY DEF DispatchTypeOK, LogStatus, NoticeTable
  <1>7. log[j][ch]["sent"] + Messages(j) + Cardinality(Holding(j)) <= 1 + faults
    BY DEF TasksBounded
  <1>8. delivered[j][ch] = log[j][ch]["sent"] + Pending(j, ch) + unlogged[j][ch]
    BY DEF EveryNoticeTraced
  <1> QED BY <1>3, <1>4, <1>5, <1>6, <1>7, <1>8

-----------------------------------------------------------------------------
(* The engine: a part that does not take the step is left alone. *)

LEMMA EngineParts == EngineSpec => Spec /\ DispatchSpec /\ SettingsSpec
  <1>1. EngineInit => Init /\ DispatchInit /\ SettingsInit BY DEF EngineInit
  <1>2. [EngineNext]_engineVars
          => [Next]_vars /\ [DispatchNext]_dispatchVars /\ [SettingsNext]_settingsVars
    BY DEF EngineNext, engineVars, Evaluating, Dispatching, Editing
  <1> QED BY <1>1, <1>2, PTL DEF EngineSpec, Spec, DispatchSpec, SettingsSpec

(* _evaluate_rule reads last_fired_at before the alert and writes it after: the
   alerts a rule raises within a cooldown stay below the replicas plus the
   updates that were lost, whatever the events, and however partitions move. *)
THEOREM CooldownBounded == EngineSpec => []AlertsPerCooldownBounded
  BY EngineParts, RulesInvariant, CooldownImplies, PTL

(* dispatch_alert_notifications_task: whatever the workers, channels, retries
   and faults, the counters of channels and alerts agree with the log, every
   notice that went out is accounted for, and a channel gets a logged notice
   again only after a crash or a visibility timeout. *)
THEOREM DispatchBalanced == EngineSpec => []DispatchAccounted
  BY EngineParts, DispatchInvariant, DispatchImplies, PTL

(* update_rule and update_channel: every edit that was answered is in its row,
   with the edits of other columns that came between; a dry run agrees with
   the evaluation of any row. *)
THEOREM SettingsAreKept == EngineSpec => []SettingsKept
  <1>1. SettingsInv => SettingsKept BY DryRunAgrees DEF SettingsInv, SettingsKept
  <1> QED BY <1>1, EngineParts, SettingsInvariant, PTL

(* The types of all three parts. *)
THEOREM EngineTypes == EngineSpec => []EngineTypeOK
  <1> DEFINE Focused == focus \in {"evaluation", "dispatch", "settings"}
  <1>1. EngineInit => Focused BY DEF EngineInit
  <1>2. Focused /\ [EngineNext]_engineVars => Focused' BY DEF EngineNext, engineVars
  <1>3. CooldownInv /\ DispatchInv /\ SettingsInv /\ Focused => EngineTypeOK
    BY DEF CooldownInv, DispatchInv, SettingsInv, EngineTypeOK
  <1> QED
    BY <1>1, <1>2, <1>3, EngineParts, RulesInvariant, DispatchInvariant,
       SettingsInvariant, PTL DEF EngineSpec
=============================================================================
