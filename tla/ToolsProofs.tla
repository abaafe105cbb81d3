---------------------------- MODULE ToolsProofs ----------------------------
(***************************************************************************)
(* Proofs about the host's set-up (module HostSetup) and the slave's load  *)
(* monitor (module LoadMonitor), for every cfg file, table and set of      *)
(* tasks.                                                                  *)
(***************************************************************************)
EXTENDS HostSetup, LoadMonitor, FiniteSetTheorems, SequenceTheorems, NaturalsInduction, WellFoundedInduction, TLAPS

-----------------------------------------------------------------------------
(* Sums: the folds of FiniteSetsExt are recursive functions on sets, so what *)
(* they compute is shown by looking for a smallest counterexample.           *)

LEMMA LeastNumber ==
  ASSUME NEW T \in SUBSET Nat, T # {}
  PROVE  \E n \in T : \A m \in T : n <= m
<1>1. PICK x \in T : \A y \in T : ~ (<<y, x>> \in OpToRel(<, Nat))
  BY NatLessThanWellFounded, WFMin
<1>2. \A y \in T : ~ (y < x)
  BY <1>1 DEF OpToRel
<1>3. QED
  BY <1>2

LEMMA SmallestSubset ==
  ASSUME NEW S, IsFiniteSet(S), NEW B \in SUBSET (SUBSET S), B # {}
  PROVE  \E T \in B : \A U \in B : U \subseteq T => U = T
<1>1. IsWellFoundedOn(StrictSubsetOrdering(S), SUBSET S)
  BY FS_StrictSubsetOrderingWellFounded, FS_FiniteSubsetsOfFinite
<1>2. PICK T \in B : \A U \in B : ~ (<<U, T>> \in StrictSubsetOrdering(S))
  BY <1>1, WFMin
<1>3. QED
  BY <1>2 DEF StrictSubsetOrdering

\* The element of a set that a fold takes next.
NextOf(s) == CHOOSE x \in s : TRUE

\* The recursive function by which FoldSet adds the values of f up.
Sums(f, S) ==
  CHOOSE g : g = [s \in SUBSET S |-> IF s = {} THEN 0 ELSE g[s \ {NextOf(s)}] + f[NextOf(s)]]
Sum(f, S) == FoldSet(LAMBDA a, s : s + f[a], 0, S)

LEMMA SumUnfolded ==
  ASSUME NEW f, NEW S
  PROVE  Sum(f, S) = Sums(f, S)[S]
BY DEF Sum, FoldSet, MapThenFoldSet, Sums, NextOf

\* g adds up the subsets of S with up to n elements.
Small(S, n) == {s \in SUBSET S : Cardinality(s) <= n}
AddsUp(g, f, S, n) ==
  /\ g = [s \in Small(S, n) |-> g[s]]
  /\ \A s \in Small(S, n) : g[s] = IF s = {} THEN 0 ELSE g[s \ {NextOf(s)}] + f[NextOf(s)]

LEMMA SumsExist ==
  ASSUME NEW S, IsFiniteSet(S), NEW f
  PROVE  \A s \in SUBSET S : Sums(f, S)[s] = IF s = {} THEN 0 ELSE Sums(f, S)[s \ {NextOf(s)}] + f[NextOf(s)]
<1>1. \A s \in SUBSET S : IsFiniteSet(s) /\ Cardinality(s) \in Nat /\ Cardinality(s) <= Cardinality(S)
  BY FS_Subset, FS_CardinalityType
<1>2. \A s \in SUBSET S : s # {} => /\ NextOf(s) \in s /\ s \ {NextOf(s)} \in SUBSET S
                                    /\ Cardinality(s \ {NextOf(s)}) = Cardinality(s) - 1
  BY <1>1, FS_RemoveElement DEF NextOf
<1>3. \A s \in SUBSET S : Cardinality(s) = 0 <=> s = {}
  BY <1>1, FS_EmptySet
<1> DEFINE bad == {n \in Nat : ~ \E g : AddsUp(g, f, S, n)}
<1>4. bad = {}
  <2>1. SUFFICES ASSUME bad # {} PROVE FALSE
    OBVIOUS
  <2>2. PICK n \in bad : \A m \in bad : n <= m
    <3>1. bad \in SUBSET Nat
      OBVIOUS
    <3> HIDE DEF bad
    <3>2. QED
      BY <2>1, <3>1, LeastNumber
  <2>3. n \in Nat
    OBVIOUS
  <2>4. n # 0
    <3>1. SUFFICES ASSUME n = 0 PROVE FALSE
      OBVIOUS
    <3> DEFINE g == [s \in Small(S, 0) |-> 0]
    <3>2. \A s \in Small(S, 0) : s = {}
      BY <1>1, <1>3 DEF Small
    <3>3. AddsUp(g, f, S, 0)
      BY <3>2 DEF AddsUp
    <3>4. QED
      BY <3>1, <3>3
  <2>5. n - 1 \in Nat /\ n - 1 \notin bad
    <3>1. n - 1 \in Nat /\ ~(n <= n - 1)
      BY <2>3, <2>4
    <3> HIDE DEF bad
    <3>2. QED
      BY <2>2, <3>1
  <2>6. PICK g : AddsUp(g, f, S, n - 1)
    BY <2>5
  <2> DEFINE h == [s \in Small(S, n) |-> IF s \in Small(S, n - 1) THEN g[s] ELSE g[s \ {NextOf(s)}] + f[NextOf(s)]]
  <2>7. ASSUME NEW s \in Small(S, n)
        PROVE  h[s] = IF s = {} THEN 0 ELSE h[s \ {NextOf(s)}] + f[NextOf(s)]
    <3>1. s \in SUBSET S /\ Cardinality(s) \in Nat /\ Cardinality(s) <= n
      BY <1>1 DEF Small
    <3>2. CASE s = {}
      <4>1. Cardinality(s) = 0 /\ s \in Small(S, n - 1)
        BY <1>3, <2>5, <3>1, <3>2 DEF Small
      <4>2. QED
        BY <2>6, <3>2, <4>1 DEF AddsUp
    <3>3. CASE s # {}
      <4> DEFINE r == s \ {NextOf(s)}
      <4>1. r \in SUBSET S /\ Cardinality(r) = Cardinality(s) - 1
        BY <1>2, <3>1, <3>3
      <4>2. r \in Small(S, n - 1) /\ r \in Small(S, n)
        BY <2>3, <3>1, <4>1 DEF Small
      <4>3. h[r] = g[r]
        BY <4>2
      <4>4. h[s] = g[r] + f[NextOf(s)]
        BY <2>6, <3>3 DEF AddsUp
      <4>5. QED
        BY <3>3, <4>3, <4>4
    <3>4. QED
      BY <3>2, <3>3
  <2>8. AddsUp(h, f, S, n)
    <3>1. h = [s \in Small(S, n) |-> h[s]]
      OBVIOUS
    <3> HIDE DEF h
    <3>2. QED
      BY <2>7, <3>1 DEF AddsUp
  <2>9. QED
    BY <2>8
<1>5. PICK g : AddsUp(g, f, S, Cardinality(S))
  <2>1. Cardinality(S) \in Nat
    BY FS_CardinalityType
  <2>2. Cardinality(S) \notin bad
    BY <1>4
  <2>3. QED
    BY <2>1, <2>2
<1>6. Small(S, Cardinality(S)) = SUBSET S
  BY <1>1 DEF Small
<1>7. g = [s \in SUBSET S |-> IF s = {} THEN 0 ELSE g[s \ {NextOf(s)}] + f[NextOf(s)]]
  <2>1. g = [s \in SUBSET S |-> g[s]] /\ \A s \in SUBSET S : g[s] = IF s = {} THEN 0 ELSE g[s \ {NextOf(s)}] + f[NextOf(s)]
    BY <1>5, <1>6 DEF AddsUp
  <2>2. QED
    BY <2>1
<1>8. Sums(f, S) = [s \in SUBSET S |-> IF s = {} THEN 0 ELSE Sums(f, S)[s \ {NextOf(s)}] + f[NextOf(s)]]
  <2> DEFINE Rec(u) == u = [s \in SUBSET S |-> IF s = {} THEN 0 ELSE u[s \ {NextOf(s)}] + f[NextOf(s)]]
  <2>1. Rec(g)
    BY <1>7
  <2>2. Sums(f, S) = CHOOSE u : Rec(u)
    BY DEF Sums
  <2> HIDE DEF Rec
  <2>3. Rec(Sums(f, S))
    BY <2>1, <2>2
  <2>4. QED
    BY <2>3 DEF Rec
<1>9. QED
  BY <1>8

LEMMA SumsInt ==
  ASSUME NEW S, IsFiniteSet(S), NEW f, \A x \in S : f[x] \in Int
  PROVE  \A s \in SUBSET S : Sums(f, S)[s] \in Int
<1> DEFINE bad == {s \in SUBSET S : Sums(f, S)[s] \notin Int}
<1>1. SUFFICES ASSUME bad # {} PROVE FALSE
  OBVIOUS
<1>2. PICK s \in bad : \A u \in bad : u \subseteq s => u = s
  <2>1. bad \in SUBSET (SUBSET S)
    OBVIOUS
  <2> HIDE DEF bad
  <2>2. QED
    BY <1>1, <2>1, SmallestSubset
<1>3. s # {} /\ Sums(f, S)[s] = Sums(f, S)[s \ {NextOf(s)}] + f[NextOf(s)]
  <2>1. Sums(f, S)[s] = IF s = {} THEN 0 ELSE Sums(f, S)[s \ {NextOf(s)}] + f[NextOf(s)]
    BY SumsExist
  <2>2. Sums(f, S)[s] \notin Int
    OBVIOUS
  <2>3. QED
    BY <2>1, <2>2
<1>4. NextOf(s) \in s /\ f[NextOf(s)] \in Int
  BY <1>3 DEF NextOf
<1>5. s \ {NextOf(s)} \notin bad
  BY <1>2, <1>4
<1>6. QED
  BY <1>3, <1>4, <1>5

\* What storing v at a does to the sums.
LEMMA SumOfStored ==
  ASSUME NEW S, IsFiniteSet(S), NEW f, \A x \in S : f[x] \in Int,
         NEW g, NEW a, NEW v \in Int, a \in S => g[a] = v, \A x \in S : x # a => g[x] = f[x]
  PROVE  Sum(g, S) \in Int /\ Sum(f, S) \in Int /\ Sum(g, S) = Sum(f, S) + IF a \in S THEN v - f[a] ELSE 0
<1>0. \A x \in S : g[x] \in Int
  OBVIOUS
<1>1. \A s \in SUBSET S : Sums(f, S)[s] \in Int /\ Sums(g, S)[s] \in Int
  BY <1>0, SumsInt
<1> DEFINE more(s) == IF a \in s THEN v - f[a] ELSE 0
           bad == {s \in SUBSET S : Sums(g, S)[s] # Sums(f, S)[s] + more(s)}
<1>2. bad = {}
  <2>1. SUFFICES ASSUME bad # {} PROVE FALSE
    OBVIOUS
  <2>2. PICK s \in bad : \A u \in bad : u \subseteq s => u = s
    <3>1. bad \in SUBSET (SUBSET S)
      OBVIOUS
    <3> HIDE DEF bad
    <3>2. QED
      BY <2>1, <3>1, SmallestSubset
  <2> DEFINE x == NextOf(s)
             r == s \ {x}
  <2>e. /\ Sums(f, S)[s] = IF s = {} THEN 0 ELSE Sums(f, S)[s \ {NextOf(s)}] + f[NextOf(s)]
        /\ Sums(g, S)[s] = IF s = {} THEN 0 ELSE Sums(g, S)[s \ {NextOf(s)}] + g[NextOf(s)]
    BY SumsExist
  <2>3. s # {}
    <3>1. SUFFICES ASSUME s = {} PROVE FALSE
      OBVIOUS
    <3>2. Sums(f, S)[s] = 0 /\ Sums(g, S)[s] = 0 /\ more(s) = 0
      BY <2>e, <3>1
    <3>3. QED
      BY <3>2
  <2>4. s \in SUBSET S /\ x \in s /\ x \in S /\ r \in SUBSET S
    BY <2>3 DEF NextOf
  <2>5. Sums(f, S)[s] = Sums(f, S)[r] + f[x] /\ Sums(g, S)[s] = Sums(g, S)[r] + g[x]
    BY <2>e, <2>3
  <2>6. r \notin bad
    BY <2>2, <2>4
  <2>7. Sums(g, S)[r] = Sums(f, S)[r] + more(r)
    BY <2>4, <2>6
  <2>8. Sums(f, S)[r] \in Int /\ f[x] \in Int /\ g[x] \in Int
    BY <1>0, <1>1, <2>4
  <2>9. more(s) = more(r) + (g[x] - f[x])
    <3>1. CASE x = a
      <4>1. a \in s /\ a \notin r /\ g[x] = v
        BY <2>4, <3>1
      <4> HIDE DEF r, x
      <4>2. QED
        BY <2>8, <3>1, <4>1
    <3>2. CASE x # a
      <4>1. (a \in s <=> a \in r) /\ g[x] = f[x]
        BY <2>4, <3>2
      <4>2. a \in s => f[a] \in Int
        BY <2>4
      <4> HIDE DEF r, x
      <4>3. QED
        BY <2>8, <4>1, <4>2
    <3>3. QED
      BY <3>1, <3>2
  <2>10. more(r) \in Int
    BY <2>4
  <2> HIDE DEF more, r, x
  <2>11. Sums(g, S)[s] = Sums(f, S)[s] + more(s)
    BY <2>5, <2>7, <2>8, <2>9, <2>10
  <2>12. QED
    BY <2>11
<1>3. S \in SUBSET S
  OBVIOUS
<1>4. Sums(g, S)[S] = Sums(f, S)[S] + more(S)
  BY <1>2, <1>3
<1>5. QED
  BY <1>1, <1>3, <1>4, SumUnfolded

LEMMA SumOfZeros ==
  ASSUME NEW S, IsFiniteSet(S), NEW f, \A x \in S : f[x] = 0
  PROVE  Sum(f, S) = 0
<1> DEFINE bad == {s \in SUBSET S : Sums(f, S)[s] # 0}
<1>1. bad = {}
  <2>1. SUFFICES ASSUME bad # {} PROVE FALSE
    OBVIOUS
  <2>2. PICK s \in bad : \A u \in bad : u \subseteq s => u = s
    <3>1. bad \in SUBSET (SUBSET S)
      OBVIOUS
    <3> HIDE DEF bad
    <3>2. QED
      BY <2>1, <3>1, SmallestSubset
  <2>3. s # {} /\ Sums(f, S)[s] = Sums(f, S)[s \ {NextOf(s)}] + f[NextOf(s)]
    BY SumsExist
  <2>4. NextOf(s) \in s /\ f[NextOf(s)] = 0
    BY <2>3 DEF NextOf
  <2>5. s \ {NextOf(s)} \notin bad
    BY <2>2, <2>4
  <2>6. QED
    BY <2>3, <2>4, <2>5
<1>2. QED
  BY <1>1, SumUnfolded

-----------------------------------------------------------------------------
(* The load monitor. *)

\* Updates and resets go through all accumulators, each once.
LEMMA Orders ==
  /\ UpdateOrder = ResetOrder /\ Len(UpdateOrder) \in Nat /\ Len(UpdateOrder) >= 4 /\ UpdateOrder[3] = "total"
  /\ DOMAIN UpdateOrder = 1 .. Len(UpdateOrder) /\ DOMAIN ResetOrder = 1 .. Len(UpdateOrder)
  /\ \A i \in 1 .. Len(UpdateOrder) : UpdateOrder[i] \in Parts \cup {"total"}
  /\ \A i, j \in 1 .. Len(UpdateOrder) : UpdateOrder[i] = UpdateOrder[j] => i = j
  /\ \A a \in Parts \cup {"total"} : \E i \in 1 .. Len(UpdateOrder) : UpdateOrder[i] = a
<1> DEFINE n == Cardinality(Registered)
           r == RegisteredInOrder
           four == <<"hwi", "swi", "total", "idle">>
<1>1. IsFiniteSet(Registered) /\ Registered \cap {"hwi", "swi", "idle", "total", "other"} = {}
  BY LoadMonitorAssumption
<1>2. n \in Nat /\ ExistsBijection(1 .. n, Registered)
  BY <1>1, FS_CardinalityType
<1>3. PICK b \in [1 .. n -> Registered] : \A i, j \in DOMAIN b : b[i] = b[j] => i = j
  BY <1>2 DEF ExistsBijection, Bijection, Injection, IsInjective
<1>4. r \in [1 .. n -> Registered] /\ \A i, j \in DOMAIN r : r[i] = r[j] => i = j
  <2> DEFINE P(s) == \A i, j \in DOMAIN s : s[i] = s[j] => i = j
  <2>1. P(b)
    BY <1>3
  <2>2. r = CHOOSE s \in [1 .. n -> Registered] : P(s)
    BY DEF RegisteredInOrder
  <2> HIDE DEF P, r
  <2>3. r \in [1 .. n -> Registered] /\ P(r)
    BY <2>1, <2>2
  <2>4. QED
    BY <2>3 DEF P
<1> HIDE DEF r
<1>5. \A a \in Registered : \E i \in 1 .. n : r[i] = a
  <2>1. r \in Injection(1 .. n, Registered)
    BY <1>4 DEF Injection, IsInjective
  <2>2. Cardinality(1 .. n) = n
    BY <1>2, FS_Interval
  <2>3. r \in Surjection(1 .. n, Registered)
    BY <1>1, <2>1, <2>2, FS_Injection
  <2>4. QED
    BY <2>3 DEF Surjection
<1>6. r \in Seq(Registered) /\ Len(r) = n
  <2>1. r \in Seq(Registered)
    BY <1>2, <1>4
  <2>2. DOMAIN r = 1 .. n /\ DOMAIN r = 1 .. Len(r) /\ Len(r) \in Nat
    BY <1>4, <2>1, LenProperties
  <2>3. QED
    BY <1>2, <2>1, <2>2
<1>7. four \in Seq(Parts \cup {"total"}) /\ Len(four) = 4
  BY DEF Parts
<1> DEFINE all == four \o r
<1>8. UpdateOrder = all /\ ResetOrder = all
  BY DEF UpdateOrder, ResetOrder, r
<1>9. /\ all \in Seq(Parts \cup {"total"}) /\ Len(all) = 4 + n
      /\ \A i \in 1 .. 4 + n : all[i] = IF i <= 4 THEN four[i] ELSE r[i - 4]
  <2>1. r \in Seq(Parts \cup {"total"})
    <3>1. \A i \in 1 .. n : r[i] \in Parts \cup {"total"}
      BY <1>4 DEF Parts
    <3>2. r \in [1 .. n -> Parts \cup {"total"}]
      BY <1>4, <3>1
    <3>3. QED
      BY <1>2, <3>2
  <2> HIDE DEF four
  <2>2. Len(all) = Len(four) + Len(r) /\ all \in Seq(Parts \cup {"total"})
    BY <1>7, <2>1, ConcatProperties
  <2>3. \A i \in 1 .. Len(four) + Len(r) : all[i] = IF i <= Len(four) THEN four[i] ELSE r[i - Len(four)]
    BY <1>7, <2>1, ConcatProperties
  <2>4. QED
    <3> HIDE DEF all
    <3>1. QED
      BY <1>6, <1>7, <2>2, <2>3
<1>10. four[1] = "hwi" /\ four[2] = "swi" /\ four[3] = "total" /\ four[4] = "idle"
  OBVIOUS
<1> HIDE DEF four, all
<1>11. DOMAIN all = 1 .. 4 + n /\ \A i \in 1 .. 4 + n : all[i] \in Parts \cup {"total"}
  BY <1>2, <1>9, LenProperties, ElementOfSeq
<1>12. ASSUME NEW i \in 1 .. 4 + n, NEW j \in 1 .. 4 + n, all[i] = all[j] PROVE i = j
  <2>1. \A k \in 1 .. 4 : k = 1 \/ k = 2 \/ k = 3 \/ k = 4
    OBVIOUS
  <2>2. ASSUME NEW k \in 5 .. 4 + n PROVE k - 4 \in 1 .. n /\ all[k] = r[k - 4] /\ r[k - 4] \in Registered
    <3>1. k - 4 \in 1 .. n /\ k \in 1 .. 4 + n /\ ~(k <= 4)
      BY <1>2
    <3>2. r[k - 4] \in Registered
      BY <1>4, <3>1
    <3>3. QED
      BY <1>9, <3>1, <3>2
  <2>3. \A k \in 1 .. 4 : all[k] = four[k] /\ four[k] \notin Registered
    BY <1>1, <1>2, <1>9, <1>10, <2>1
  <2>4. CASE i \in 1 .. 4 /\ j \in 1 .. 4
    BY <1>10, <1>12, <2>1, <2>3, <2>4
  <2>5. CASE i \in 5 .. 4 + n /\ j \in 5 .. 4 + n
    <3>1. i - 4 = j - 4
      BY <1>4, <1>12, <2>2, <2>5
    <3>2. QED
      BY <3>1
  <2>6. (i \in 1 .. 4 <=> j \in 1 .. 4) /\ (i \in 1 .. 4 \/ i \in 5 .. 4 + n) /\ (j \in 1 .. 4 \/ j \in 5 .. 4 + n)
    BY <1>2, <1>12, <2>2, <2>3
  <2>7. QED
    BY <2>4, <2>5, <2>6
<1>13. ASSUME NEW a \in Parts \cup {"total"} PROVE \E i \in 1 .. 4 + n : all[i] = a
  <2>1. CASE a \in Registered
    <3>1. PICK i \in 1 .. n : r[i] = a
      BY <1>5, <2>1
    <3>2. 4 + i \in 1 .. 4 + n /\ ~(4 + i <= 4) /\ 4 + i - 4 = i
      BY <1>2
    <3>3. QED
      BY <1>9, <3>1, <3>2
  <2>2. CASE a \notin Registered
    <3>1. a = "hwi" \/ a = "swi" \/ a = "total" \/ a = "idle"
      BY <2>2 DEF Parts
    <3>2. 1 \in 1 .. 4 + n /\ 2 \in 1 .. 4 + n /\ 3 \in 1 .. 4 + n /\ 4 \in 1 .. 4 + n
      BY <1>2
    <3>3. QED
      BY <1>9, <1>10, <3>1, <3>2
  <2>3. QED
    BY <2>1, <2>2
<1>14. 3 \in 1 .. 4 + n /\ all[3] = "total"
  BY <1>2, <1>9, <1>10
<1>15. QED
  BY <1>2, <1>8, <1>9, <1>11, <1>12, <1>13, <1>14

-----------------------------------------------------------------------------
(* The load monitor's inductive invariant. *)

LoadTypes ==
  /\ acc \in [Parts \cup {"total"} -> Nat]
  /\ hook = NotRunning \/ hook \in [at : 1 .. Len(UpdateOrder), loaded : Nat \cup {-1}, who : Parts \cup {"other"}]
  /\ resetAt \in [Tasks -> 0 .. Len(UpdateOrder) + 1]
  /\ undisturbed \in [Tasks -> BOOLEAN]

\* A reset that no update has met has set all it has come past to 0.
Cleared ==
  \A t \in Tasks : resetAt[t] > 0 /\ undisturbed[t] =>
    hook = NotRunning /\ \A j \in 1 .. Len(UpdateOrder) : j < resetAt[t] => acc[UpdateOrder[j]] = 0

\* The update has stored accumulator a.
Updated(a) == \E j \in 1 .. Len(UpdateOrder) : j < hook.at /\ UpdateOrder[j] = a
UpdatedTotal == IF Updated("total") THEN 1 ELSE 0
UpdatedPart == IF Updated(hook.who) THEN 1 ELSE 0

\* Without resets in between, the update adds to what it loaded, and the sums are apart
\* only by what it has added to one side so far.
Balanced ==
  (\A t \in Tasks : resetAt[t] = 0) /\ ~torn =>
    /\ hook # NotRunning /\ hook.loaded # -1 => hook.loaded = acc[UpdateOrder[hook.at]]
    /\ Sum(acc, Parts) + UpdatedTotal <= acc["total"] + UpdatedPart

LoadInv == LoadTypes /\ Cleared /\ Balanced

LEMMA PartsFinite == IsFiniteSet(Parts) /\ "total" \notin Parts /\ "other" \notin Parts
<1>1. IsFiniteSet({"hwi", "swi", "idle"}) /\ IsFiniteSet(Registered)
  <2>1. IsFiniteSet({"hwi"})
    <3>1. IsFiniteSet({} \cup {"hwi"})
      BY FS_EmptySet, FS_AddElement
    <3>2. QED
      BY <3>1
  <2>2. IsFiniteSet({"hwi"} \cup {"swi"})
    BY <2>1, FS_AddElement
  <2>3. IsFiniteSet(({"hwi"} \cup {"swi"}) \cup {"idle"})
    BY <2>2, FS_AddElement
  <2>4. ({"hwi"} \cup {"swi"}) \cup {"idle"} = {"hwi", "swi", "idle"}
    OBVIOUS
  <2>5. QED
    BY <2>3, <2>4, LoadMonitorAssumption
<1>2. QED
  BY <1>1, FS_Union, LoadMonitorAssumption DEF Parts


LEMMA LoadInit == LoadMonitorInit => LoadInv
<1> SUFFICES ASSUME LoadMonitorInit PROVE LoadInv
  OBVIOUS
<1> USE DEF LoadMonitorInit
<1>1. LoadTypes
  BY Orders DEF LoadTypes
<1>2. Cleared
  BY DEF Cleared
<1>3. Balanced
  <2>1. Sum(acc, Parts) = 0
    <3>1. IsFiniteSet(Parts) /\ \A x \in Parts : acc[x] = 0
      BY PartsFinite
    <3>2. QED
      BY <3>1, SumOfZeros
  <2>2. acc["total"] = 0 /\ UpdatedTotal = 0 /\ UpdatedPart \in {0, 1}
    BY Orders DEF UpdatedTotal, UpdatedPart, Updated, NotRunning
  <2>3. QED
    BY <2>1, <2>2 DEF Balanced
<1>4. QED
  BY <1>1, <1>2, <1>3 DEF LoadInv

\* While an update steps, no reset under way is undisturbed.
LEMMA DisturbClears ==
  ASSUME Disturb, resetAt' = resetAt
  PROVE  Cleared'
<1>1. ASSUME NEW t \in Tasks, resetAt'[t] > 0, undisturbed'[t] PROVE FALSE
  <2>1. resetAt[t] = 0
    BY <1>1, Zenon DEF Disturb
  <2>2. QED
    BY <1>1, <2>1
<1>2. QED
  BY <1>1 DEF Cleared

LEMMA DisturbType ==
  ASSUME LoadTypes, Disturb
  PROVE  undisturbed' \in [Tasks -> BOOLEAN]
BY DEF Disturb

LEMMA UpdateBeginKeeps ==
  ASSUME LoadInv, UpdateBegin
  PROVE  LoadInv'
<1> USE DEF LoadInv, UpdateBegin
<1>1. PICK who \in Parts \cup {"other"} : hook' = [at |-> 1, loaded |-> -1, who |-> who]
  OBVIOUS
<1>2. LoadTypes'
  BY <1>1, Orders, DisturbType DEF LoadTypes
<1>3. Cleared'
  BY DisturbClears
<1>4. ~Updated("total") /\ (\A a : ~Updated(a)) /\ (\A a : ~Updated(a)')
  BY <1>1, Orders DEF Updated, NotRunning
<1>5. UpdatedTotal = 0 /\ UpdatedPart = 0 /\ UpdatedTotal' = 0 /\ UpdatedPart' = 0
  BY <1>4 DEF UpdatedTotal, UpdatedPart
<1>6. hook'.loaded = -1
  BY <1>1
<1>7. Balanced'
  BY <1>5, <1>6 DEF Balanced
<1>8. QED
  BY <1>2, <1>3, <1>7

LEMMA RunningHook ==
  ASSUME LoadTypes, hook.at > 0
  PROVE  /\ hook \in [at : 1 .. Len(UpdateOrder), loaded : Nat \cup {-1}, who : Parts \cup {"other"}]
         /\ hook.at \in 1 .. Len(UpdateOrder) /\ hook # NotRunning
BY DEF LoadTypes, NotRunning

LEMMA UpdateLoadKeeps ==
  ASSUME LoadInv, UpdateLoad
  PROVE  LoadInv'
<1> USE DEF LoadInv, UpdateLoad
<1>1. hook \in [at : 1 .. Len(UpdateOrder), loaded : Nat \cup {-1}, who : Parts \cup {"other"}] /\ hook.at \in 1 .. Len(UpdateOrder)
  BY RunningHook
<1>2. UpdateOrder[hook.at] \in Parts \cup {"total"} /\ acc[UpdateOrder[hook.at]] \in Nat
  BY <1>1, Orders DEF LoadTypes
<1>3. hook'.at = hook.at /\ hook'.who = hook.who /\ hook'.loaded = acc[UpdateOrder[hook.at]]
  BY <1>1
<1>4. hook' \in [at : 1 .. Len(UpdateOrder), loaded : Nat \cup {-1}, who : Parts \cup {"other"}]
  BY <1>1, <1>2
<1>5. LoadTypes'
  BY <1>4, DisturbType DEF LoadTypes, UpdateOrder
<1>6. Cleared'
  BY DisturbClears
<1>7. UpdatedTotal' = UpdatedTotal /\ UpdatedPart' = UpdatedPart
  BY <1>3 DEF UpdatedTotal, UpdatedPart, Updated
<1>8. Balanced'
  BY <1>3, <1>7 DEF Balanced
<1>9. QED
  BY <1>5, <1>6, <1>8

LEMMA UpdateStoreKeeps ==
  ASSUME LoadInv, UpdateStore
  PROVE  LoadInv'
<1> USE DEF LoadInv, UpdateStore
<1> DEFINE L == Len(UpdateOrder)
           a == UpdateOrder[hook.at]
           v == hook.loaded + Share(hook.who, a)
           last == hook.at = L
<1>1. /\ hook \in [at : 1 .. L, loaded : Nat \cup {-1}, who : Parts \cup {"other"}]
      /\ hook.at \in 1 .. L /\ hook # NotRunning /\ hook.loaded \in Nat /\ hook.who \in Parts \cup {"other"}
  BY RunningHook
<1>2. a \in Parts \cup {"total"} /\ acc[a] \in Nat /\ v \in Nat
  BY <1>1, Orders DEF LoadTypes, Share
<1>3. acc' = [acc EXCEPT ![a] = v]
  OBVIOUS
<1>4. acc' \in [Parts \cup {"total"} -> Nat] /\ acc'[a] = v /\ \A x \in Parts \cup {"total"} : x # a => acc'[x] = acc[x]
  BY <1>2, <1>3 DEF LoadTypes
<1>5. last => hook' = NotRunning
  OBVIOUS
<1>6. ~last => /\ hook' \in [at : 1 .. L, loaded : Nat \cup {-1}, who : Parts \cup {"other"}]
               /\ hook'.at = hook.at + 1 /\ hook'.who = hook.who /\ hook'.loaded = -1
  <2>1. SUFFICES ASSUME ~last PROVE hook' = [hook EXCEPT !.at = @ + 1, !.loaded = -1] /\ hook.at + 1 \in 1 .. L
    BY <1>1
  <2>2. QED
    BY <1>1, <2>1, Orders
<1>7. LoadTypes'
  BY <1>4, <1>5, <1>6, DisturbType DEF LoadTypes, UpdateOrder
<1>8. Cleared'
  BY DisturbClears
<1>9. ASSUME \A t \in Tasks : resetAt[t] = 0, ~torn
      PROVE  /\ hook' # NotRunning => hook'.loaded = -1
             /\ Sum(acc', Parts) + UpdatedTotal' <= acc'["total"] + UpdatedPart'
  <2>1. hook.loaded = acc[a] /\ Sum(acc, Parts) + UpdatedTotal <= acc["total"] + UpdatedPart
    BY <1>1, <1>9 DEF Balanced
  <2>2. \A x \in Parts : acc[x] \in Int
    BY DEF LoadTypes
  <2>3. /\ Sum(acc', Parts) \in Int /\ Sum(acc, Parts) \in Int
        /\ Sum(acc', Parts) = Sum(acc, Parts) + IF a \in Parts THEN v - acc[a] ELSE 0
    <3>1. IsFiniteSet(Parts) /\ v \in Int /\ (a \in Parts => acc'[a] = v) /\ \A x \in Parts : x # a => acc'[x] = acc[x]
      BY <1>2, <1>4, PartsFinite
    <3> HIDE DEF a, v, LoadInv, UpdateStore
    <3>2. QED
      BY <2>2, <3>1, SumOfStored
  <2>4. v - acc[a] = Share(hook.who, a) /\ acc["total"] \in Nat /\ acc'["total"] \in Nat
    BY <1>2, <1>4, <2>1 DEF LoadTypes, Share
  <2>5. "total" \notin Parts /\ "other" \notin Parts
    BY LoadMonitorAssumption DEF Parts
  <2>6. acc'["total"] = acc["total"] + IF a = "total" THEN 1 ELSE 0
    BY <1>2, <1>4, <2>1 DEF Share, LoadTypes
  <2>7. Sum(acc', Parts) = Sum(acc, Parts) + IF a = hook.who THEN 1 ELSE 0
    <3>1. CASE a = "total"
      BY <1>1, <2>3, <2>5, <3>1
    <3>2. CASE a # "total"
      BY <1>2, <2>3, <2>4, <3>2 DEF Share
    <3>3. QED
      BY <3>1, <3>2
  <2>8. UpdatedTotal \in {0, 1} /\ UpdatedPart \in {0, 1}
    BY DEF UpdatedTotal, UpdatedPart
  <2>9. CASE ~last
    <3>1. \A x : Updated(x)' <=> Updated(x) \/ x = a
      BY <1>1, <1>6, <2>9, Orders DEF Updated, UpdateOrder
    <3>2. ~Updated(a)
      BY <1>1, Orders DEF Updated
    <3>3. UpdatedTotal' = UpdatedTotal + IF a = "total" THEN 1 ELSE 0
      <4>1. Updated("total")' <=> Updated("total") \/ "total" = a
        BY <3>1
      <4>2. QED
        BY <3>2, <4>1 DEF UpdatedTotal
    <3>4. UpdatedPart' = UpdatedPart + IF a = hook.who THEN 1 ELSE 0
      <4>1. Updated(hook.who)' <=> Updated(hook.who) \/ hook.who = a
        BY <1>6, <2>9, <3>1 DEF Updated
      <4>2. QED
        BY <1>6, <2>9, <3>2, <4>1 DEF UpdatedPart
    <3> HIDE DEF a, v, last, L
    <3>5. QED
      BY <1>6, <2>1, <2>3, <2>4, <2>6, <2>7, <2>8, <2>9, <3>3, <3>4
  <2>10. CASE last
    <3>1. \A x : ~Updated(x)'
      BY <1>5, <2>10 DEF Updated, NotRunning
    <3>2. UpdatedTotal' = 0 /\ UpdatedPart' = 0
      BY <3>1 DEF UpdatedTotal, UpdatedPart
    <3>3. a # "total" /\ Updated("total")
      BY <1>1, <2>10, Orders DEF Updated
    <3>4. UpdatedTotal = 1 /\ (a = hook.who => UpdatedPart = 0)
      <4>1. ~Updated(a)
        BY <1>1, Orders DEF Updated
      <4>2. QED
        BY <3>3, <4>1 DEF UpdatedTotal, UpdatedPart
    <3> HIDE DEF a, v, last, L
    <3>5. QED
      BY <1>5, <2>1, <2>3, <2>4, <2>6, <2>7, <2>8, <2>10, <3>2, <3>3, <3>4
  <2>11. QED
    BY <2>9, <2>10
<1>10. Balanced'
  BY <1>9 DEF Balanced
<1>11. QED
  BY <1>7, <1>8, <1>10

LEMMA ResetBeginKeeps ==
  ASSUME LoadInv, NEW t \in Tasks, ResetBegin(t), acc' = acc, hook' = hook, torn' = torn
  PROVE  LoadInv'
<1> USE DEF LoadInv, ResetBegin
<1>1. LoadTypes'
  BY Orders DEF LoadTypes, UpdateOrder
<1>2. resetAt'[t] = 1 /\ \A u \in Tasks : u # t => resetAt'[u] = resetAt[u]
  BY DEF LoadTypes
<1>3. Cleared'
  <2>1. SUFFICES ASSUME NEW u \in Tasks, resetAt'[u] > 0, undisturbed'[u]
                 PROVE  hook = NotRunning /\ \A j \in 1 .. Len(UpdateOrder) : j < resetAt'[u] => acc[UpdateOrder[j]] = 0
    BY DEF Cleared
  <2>2. CASE u = t
    <3>1. hook = NotRunning
      BY <2>1, <2>2 DEF LoadTypes
    <3>2. QED
      BY <1>2, <2>2, <3>1, Orders
  <2>3. CASE u # t
    <3>1. undisturbed[u] /\ resetAt[u] > 0
      BY <1>2, <2>1, <2>3
    <3>2. QED
      BY <1>2, <2>3, <3>1 DEF Cleared
  <2>4. QED
    BY <2>2, <2>3
<1>4. Balanced'
  BY <1>2 DEF Balanced
<1>5. QED
  BY <1>1, <1>3, <1>4

LEMMA ResetStepKeeps ==
  ASSUME LoadInv, NEW t \in Tasks, ResetStep(t)
  PROVE  LoadInv'
<1> USE DEF LoadInv, ResetStep
<1> DEFINE k == resetAt[t]
<1>1. k \in 1 .. Len(UpdateOrder) /\ ResetOrder[k] = UpdateOrder[k] /\ UpdateOrder[k] \in Parts \cup {"total"}
  BY Orders
<1>2. acc' \in [Parts \cup {"total"} -> Nat] /\ \A x \in Parts \cup {"total"} : acc'[x] = IF x = UpdateOrder[k] THEN 0 ELSE acc[x]
  BY <1>1 DEF LoadTypes
<1>3. resetAt' \in [Tasks -> 0 .. Len(UpdateOrder) + 1] /\ resetAt'[t] = k + 1 /\ \A u \in Tasks : u # t => resetAt'[u] = resetAt[u]
  BY <1>1, Orders DEF LoadTypes
<1>4. LoadTypes'
  BY <1>2, <1>3 DEF LoadTypes, UpdateOrder
<1>5. Cleared'
  <2>1. SUFFICES ASSUME NEW u \in Tasks, resetAt'[u] > 0, undisturbed[u],
                        NEW j \in 1 .. Len(UpdateOrder)
                 PROVE  hook = NotRunning /\ (j < resetAt'[u] => acc'[UpdateOrder[j]] = 0)
    BY DEF Cleared, UpdateOrder
  <2>2. resetAt[u] > 0
    BY <1>1, <1>3, <2>1
  <2>3. hook = NotRunning /\ (j < resetAt[u] => acc[UpdateOrder[j]] = 0)
    BY <2>1, <2>2 DEF Cleared
  <2>4. j < resetAt'[u] => j < resetAt[u] \/ j = k
    BY <1>1, <1>3, <2>1 DEF LoadTypes
  <2>5. UpdateOrder[j] \in Parts \cup {"total"}
    BY Orders
  <2>6. QED
    BY <1>2, <2>3, <2>4, <2>5
<1>6. Balanced'
  BY <1>1, <1>3 DEF Balanced
<1>7. QED
  BY <1>4, <1>5, <1>6

LEMMA ResetEndKeeps ==
  ASSUME LoadInv, NEW t \in Tasks, ResetEnd(t), acc' = acc, hook' = hook
  PROVE  LoadInv'
<1> USE DEF LoadInv, ResetEnd
<1>1. resetAt[t] = Len(UpdateOrder) + 1
  BY Orders
<1>2. resetAt' \in [Tasks -> 0 .. Len(UpdateOrder) + 1] /\ resetAt'[t] = 0 /\ \A u \in Tasks : u # t => resetAt'[u] = resetAt[u]
  BY Orders DEF LoadTypes
<1>3. LoadTypes'
  BY <1>2 DEF LoadTypes, UpdateOrder
<1>4. Cleared'
  <2>1. SUFFICES ASSUME NEW u \in Tasks, resetAt'[u] > 0, undisturbed[u]
                 PROVE  hook = NotRunning /\ \A j \in 1 .. Len(UpdateOrder) : j < resetAt'[u] => acc[UpdateOrder[j]] = 0
    BY DEF Cleared, UpdateOrder
  <2>2. u # t /\ resetAt[u] > 0 /\ resetAt'[u] = resetAt[u]
    BY <1>2, <2>1
  <2>3. QED
    BY <2>1, <2>2 DEF Cleared
<1>5. ASSUME \A u \in Tasks : resetAt'[u] = 0, ~torn'
      PROVE  hook = NotRunning /\ Sum(acc, Parts) + UpdatedTotal <= acc["total"] + UpdatedPart
  <2>1. hook = NotRunning /\ \A j \in 1 .. Len(UpdateOrder) : acc[UpdateOrder[j]] = 0
    <3>1. undisturbed[t]
      BY <1>5
    <3>2. resetAt[t] > 0 /\ \A j \in 1 .. Len(UpdateOrder) : j < resetAt[t]
      BY <1>1, Orders
    <3>3. QED
      BY <3>1, <3>2 DEF Cleared
  <2>2. \A x \in Parts \cup {"total"} : acc[x] = 0
    BY <2>1, Orders
  <2>3. Sum(acc, Parts) = 0
    <3> HIDE DEF LoadInv, ResetEnd
    <3>1. QED
      BY <2>2, PartsFinite, SumOfZeros
  <2>4. \A x : ~Updated(x)
    BY <2>1, Orders DEF Updated, NotRunning
  <2>5. UpdatedTotal = 0 /\ UpdatedPart = 0
    BY <2>4 DEF UpdatedTotal, UpdatedPart
  <2>6. QED
    BY <2>1, <2>2, <2>3, <2>5
<1>6. UpdatedTotal' = UpdatedTotal /\ UpdatedPart' = UpdatedPart
  BY DEF UpdatedTotal, UpdatedPart, Updated, UpdateOrder
<1>7. Balanced'
  BY <1>5, <1>6 DEF Balanced
<1>8. QED
  BY <1>3, <1>4, <1>7

LEMMA LoadInvStutter ==
  ASSUME LoadInv, UNCHANGED <<acc, hook, resetAt, undisturbed, torn>>
  PROVE  LoadInv'
BY DEF LoadInv, LoadTypes, Cleared, Balanced, UpdatedTotal, UpdatedPart, Updated, UpdateOrder

\* Safety, LoadsAddUp: as long as no reset of Utils_prfLoadCalcReset overlaps with an
\* update, what Utils_prfLoadUpdate has added to the parts is no more than
\* what it has added to the total, for any tasks registered, any number of
\* windows and any interleaving of the hook with the two tasks' resets.
THEOREM LoadLoadsAddUp == LoadMonitorSpec => []LoadsAddUp
<1>1. LoadInv /\ [LoadMonitorNext]_loadVars => LoadInv'
  <2> SUFFICES ASSUME LoadInv, [LoadMonitorNext]_loadVars PROVE LoadInv'
    OBVIOUS
  <2>1. CASE UpdateBegin
    BY <2>1, UpdateBeginKeeps
  <2>2. CASE UpdateLoad
    BY <2>2, UpdateLoadKeeps
  <2>3. CASE UpdateStore
    BY <2>3, UpdateStoreKeeps
  <2>4. CASE \E t \in Tasks : ResetStep(t)
    BY <2>4, ResetStepKeeps
  <2>5. CASE Report
    BY <2>5, LoadInvStutter DEF Report
  <2>6. CASE AutoReset
    <3>1. CASE ResetBegin("loadtsk")
      BY <2>6, <3>1, ResetBeginKeeps DEF AutoReset, Tasks
    <3>2. CASE UNCHANGED <<resetAt, undisturbed>>
      BY <2>6, <3>2, LoadInvStutter DEF AutoReset
    <3>3. QED
      BY <2>6, <3>1, <3>2 DEF AutoReset
  <2>7. CASE AutoResetDone
    BY <2>7, ResetEndKeeps DEF AutoResetDone, Tasks
  <2>8. CASE Tsk1Begin
    BY <2>8, LoadInvStutter DEF Tsk1Begin
  <2>9. CASE Tsk1Reset
    BY <2>9, ResetBeginKeeps DEF Tsk1Reset, Tasks
  <2>10. CASE Tsk1ResetDone
    BY <2>10, ResetEndKeeps DEF Tsk1ResetDone, Tasks
  <2>11. CASE Tsk1Run
    BY <2>11, LoadInvStutter DEF Tsk1Run
  <2>12. CASE UNCHANGED loadVars
    BY <2>12, LoadInvStutter DEF loadVars
  <2>13. QED
    BY <2>1, <2>2, <2>3, <2>4, <2>5, <2>6, <2>7, <2>8, <2>9, <2>10, <2>11, <2>12 DEF LoadMonitorNext
<1>2. LoadInv => LoadsAddUp
  <2>1. SUFFICES ASSUME LoadInv, hook = NotRunning, \A t \in Tasks : resetAt[t] = 0, ~torn
                 PROVE  Sum(acc, Parts) <= acc["total"]
    BY DEF LoadsAddUp, Sum
  <2>2. \A x : ~Updated(x)
    BY <2>1, Orders DEF Updated, NotRunning
  <2>3. UpdatedTotal = 0 /\ UpdatedPart = 0
    BY <2>2 DEF UpdatedTotal, UpdatedPart
  <2>4. Sum(acc, Parts) + 0 <= acc["total"] + 0 /\ acc["total"] \in Nat
    BY <2>1, <2>3 DEF LoadInv, Balanced, LoadTypes
  <2>5. Sum(acc, Parts) \in Int
    <3>1. \A x \in Parts : acc[x] \in Int
      BY <2>1 DEF LoadInv, LoadTypes
    <3>2. QED
      BY <3>1, PartsFinite, SumsInt, SumUnfolded
  <2>6. QED
    BY <2>4, <2>5
<1>3. QED
  BY LoadInit, <1>1, <1>2, PTL DEF LoadMonitorSpec

-----------------------------------------------------------------------------
(* The host's set-up. *)

Kinds == {"ipc", "rpc", "drmFd", "dev", "compute_bo", "inBuf_bo", "use"}
SetUpBefore ==
  [parse |-> {}, overrun |-> {}, Ipc_start |-> {}, Mx_initialize |-> {"ipc"}, drmOpen |-> {"ipc", "rpc"},
   omap_device_new |-> {"ipc", "rpc", "drmFd"}, compute_bo |-> {"ipc", "rpc", "drmFd", "dev"},
   compute_map |-> {"ipc", "rpc", "drmFd", "dev", "compute_bo"},
   inBuf_bo |-> {"ipc", "rpc", "drmFd", "dev", "compute_bo"}, inBuf_map |-> Kinds \ {"use"},
   MmRpc_use |-> Kinds \ {"use"}]

\* Each step of main finds what the steps before it have set up; at `leave' it may be
\* any part of it that has all it needs, or could not be undone.
SetupInv ==
  /\ hpc \in DOMAIN SetUpBefore => held = SetUpBefore[hpc] /\ stuck = {}
  /\ hpc \in {"MmRpc_call", "test"} => held \in {Kinds \ {"use"}, Kinds} /\ stuck = {}
  /\ hpc = "test" => contents = "answer"
  /\ hpc = "leave" => /\ held \subseteq Kinds /\ stuck \subseteq held
                      /\ \A r \in held \ stuck : Needs[r] \subseteq held
  /\ hpc = "returned" => stuck = held \/ held = {"ipc"}
  /\ hpc \in DOMAIN SetUpBefore \cup {"MmRpc_call", "test", "leave", "returned"}

\* LeaveOrder has everything, and each thing comes after all that need it.
LEMMA LeaveOrderRight ==
  /\ DOMAIN LeaveOrder = 1 .. 7
  /\ \A i \in 1 .. 7 : LeaveOrder[i] \in Kinds
  /\ \A x \in Kinds : \E i \in 1 .. 7 : LeaveOrder[i] = x
  /\ \A i, j \in 1 .. 7 : i <= j => LeaveOrder[i] \notin Needs[LeaveOrder[j]]
<1> USE DEF LeaveOrder, Kinds, Needs
<1>1. DOMAIN LeaveOrder = 1 .. 7 /\ \A i \in 1 .. 7 : LeaveOrder[i] \in Kinds
  OBVIOUS
<1>2. /\ LeaveOrder[1] = "use" /\ LeaveOrder[2] = "inBuf_bo" /\ LeaveOrder[3] = "compute_bo" /\ LeaveOrder[4] = "dev"
      /\ LeaveOrder[5] = "drmFd" /\ LeaveOrder[6] = "rpc" /\ LeaveOrder[7] = "ipc"
  OBVIOUS
<1>3. /\ Needs["ipc"] = {} /\ Needs["rpc"] = {"ipc"} /\ Needs["drmFd"] = {} /\ Needs["dev"] = {"drmFd"}
      /\ Needs["compute_bo"] = {"dev"} /\ Needs["inBuf_bo"] = {"dev"} /\ Needs["use"] = {"inBuf_bo", "rpc"}
  OBVIOUS
<1>4. \A k \in 1 .. 7 : k = 1 \/ k = 2 \/ k = 3 \/ k = 4 \/ k = 5 \/ k = 6 \/ k = 7
  OBVIOUS
<1> HIDE DEF LeaveOrder, Needs
<1>5. \A x \in Kinds : \E i \in 1 .. 7 : LeaveOrder[i] = x
  <2>1. {1, 2, 3, 4, 5, 6, 7} \subseteq 1 .. 7
    OBVIOUS
  <2>2. QED
    BY <1>2, <2>1
<1>6. ASSUME NEW i \in 1 .. 7, NEW j \in 1 .. 7, i <= j
      PROVE  LeaveOrder[i] \notin Needs[LeaveOrder[j]]
  <2>1. CASE j = 1
    <3>1. i = 1
      BY <1>4, <1>6, <2>1
    <3>2. QED
      BY <1>2, <1>3, <2>1, <3>1
  <2>2. CASE j \in {2, 3}
    <3>1. i \in {1, 2, 3}
      BY <1>4, <1>6, <2>2
    <3>2. QED
      BY <1>2, <1>3, <2>2, <3>1
  <2>3. CASE j = 4
    <3>1. i \in {1, 2, 3, 4}
      BY <1>4, <1>6, <2>3
    <3>2. QED
      BY <1>2, <1>3, <2>3, <3>1
  <2>4. CASE j \in {5, 7}
    BY <1>2, <1>3, <2>4
  <2>5. CASE j = 6
    <3>1. i \in {1, 2, 3, 4, 5, 6}
      BY <1>4, <1>6, <2>5
    <3>2. QED
      BY <1>2, <1>3, <2>5, <3>1
  <2>6. QED
    BY <1>4, <2>1, <2>2, <2>3, <2>4, <2>5
<1>7. QED
  BY <1>1, <1>5, <1>6

LEMMA LeaveKeeps ==
  ASSUME SetupInv, Leave
  PROVE  SetupInv'
<1> USE DEF SetupInv, Leave
<1> DEFINE left == {i \in DOMAIN LeaveOrder : LeaveOrder[i] \in held \ stuck}
<1>1. /\ hpc = "leave" /\ held \subseteq Kinds /\ stuck \subseteq held
      /\ \A r \in held \ stuck : Needs[r] \subseteq held
  OBVIOUS
<1>2. CASE left = {}
  <2>1. held = stuck /\ hpc' = "returned" /\ held' = held /\ stuck' = stuck
    BY <1>1, <1>2, LeaveOrderRight
  <2>2. QED
    BY <2>1 DEF SetUpBefore
<1>3. CASE left # {}
  <2> DEFINE m == Min(left)
             u == LeaveOrder[m]
  <2>1. m \in left /\ \A i \in left : m <= i
    <3>1. left \in SUBSET Nat
      BY LeaveOrderRight
    <3> HIDE DEF left
    <3>2. \E n \in left : \A i \in left : n <= i
      BY <1>3, <3>1, LeastNumber
    <3>3. QED
      BY <3>2 DEF Min
  <2>2. Undo(u) /\ hpc' = "leave"
    BY <1>1, <1>3
  <2>3. u \in held \ stuck
    BY <2>1
  <2> HIDE DEF m
  <2>4. CASE stuck' = stuck \cup {u} /\ held' = held
    <3>1. QED
      BY <1>1, <2>2, <2>3, <2>4 DEF SetUpBefore
  <2>5. CASE held' = held \ {u} /\ stuck' = stuck
    <3>1. ASSUME NEW r \in held' \ stuck' PROVE Needs[r] \subseteq held'
      <4>1. r \in held \ stuck /\ r \in Kinds /\ Needs[r] \subseteq held
        BY <1>1, <2>5, <3>1
      <4>2. PICK i \in 1 .. 7 : LeaveOrder[i] = r
        BY <4>1, LeaveOrderRight
      <4>3. i \in left /\ m \in 1 .. 7 /\ m <= i
        BY <2>1, <4>1, <4>2, LeaveOrderRight
      <4>4. u \notin Needs[r]
        BY <4>2, <4>3, LeaveOrderRight
      <4>5. QED
        BY <2>5, <4>1, <4>4
    <3>2. stuck' \subseteq held'
      BY <1>1, <2>3, <2>5
    <3> HIDE DEF u, left
    <3>3. QED
      BY <1>1, <2>2, <2>5, <3>1, <3>2 DEF SetUpBefore
  <2>6. QED
    BY <2>2, <2>4, <2>5 DEF Undo
<1>4. QED
  BY <1>2, <1>3

LEMMA SetupNext ==
  ASSUME SetupInv, [HostSetupNext]_hostVars
  PROVE  SetupInv'
<1> USE DEF SetupInv, SetUpBefore, Kinds
<1>1. CASE HostTooManyTokens \/ HostParseKey \/ HostParseValue \/ HostParseLine \/ HostParseEnd
  <2>1. hpc = "parse" /\ held' = held /\ stuck' = stuck /\ hpc' \in {"parse", "returned", "overrun", "Ipc_start"}
    BY <1>1 DEF HostTooManyTokens, HostParseKey, HostParseValue, HostParseLine, HostParseEnd
  <2>2. QED
    BY <2>1
<1>2. CASE IpcStart \/ MxInitialize
  BY <1>2 DEF IpcStart, MxInitialize, Acquire
<1>3. CASE DrmOpen \/ OmapDeviceNew \/ ComputeBo \/ ComputeMap \/ InBufBo \/ InBufMap
  <2>1. CASE DrmOpen
    BY <2>1 DEF DrmOpen, Acquire, Needs
  <2>2. CASE OmapDeviceNew
    BY <2>2 DEF OmapDeviceNew, Acquire, Needs
  <2>3. CASE ComputeBo
    BY <2>3 DEF ComputeBo, Acquire, Needs
  <2>4. CASE ComputeMap
    BY <2>4 DEF ComputeMap, Acquire, Needs
  <2>5. CASE InBufBo
    BY <2>5 DEF InBufBo, Acquire, Needs
  <2>6. CASE InBufMap
    BY <2>6 DEF InBufMap, Acquire, Needs
  <2>7. QED
    BY <1>3, <2>1, <2>2, <2>3, <2>4, <2>5, <2>6
<1>4. CASE MmRpcUse
  BY <1>4 DEF MmRpcUse
<1>5. CASE MmRpcCall \/ HostTest
  BY <1>5 DEF MmRpcCall, HostTest, Needs
<1>6. CASE Leave
  BY <1>6, LeaveKeeps
<1>7. CASE UNCHANGED hostVars
  BY <1>7 DEF hostVars
<1>8. QED
  BY <1>1, <1>2, <1>3, <1>4, <1>5, <1>6, <1>7 DEF HostSetupNext

\* Safety, SetupUndone: whatever the cfg file and wherever the set-up fails, main undoes at
\* `leave' nothing that something left needs, tests only with an answered
\* buffer, and returns with nothing held but, after a failed Mx_initialize, IPC.
THEOREM HostSetupUndone == HostSetupSpec => []SetupUndone
<1>1. HostSetupInit => SetupInv
  BY DEF HostSetupInit, SetupInv, SetUpBefore
<1>2. SetupInv => SetupUndone
  BY DEF SetupInv, SetupUndone, SetUpBefore, Kinds, Needs
<1>3. QED
  BY <1>1, <1>2, SetupNext, PTL DEF HostSetupSpec

-----------------------------------------------------------------------------
(* More about sums. *)

\* Which element is taken first makes no difference.
LEMMA SumsTaken ==
  ASSUME NEW S, IsFiniteSet(S), NEW f, \A x \in S : f[x] \in Int
  PROVE  \A s \in SUBSET S : \A x \in s : Sums(f, S)[s] = Sums(f, S)[s \ {x}] + f[x]
<1>0. \A s \in SUBSET S : Sums(f, S)[s] \in Int
  BY SumsInt
<1> DEFINE Good(s) == \A x \in s : Sums(f, S)[s] = Sums(f, S)[s \ {x}] + f[x]
           bad == {s \in SUBSET S : ~ Good(s)}
<1>1. SUFFICES ASSUME bad # {} PROVE FALSE
  OBVIOUS
<1>2. PICK s \in bad : \A u \in bad : u \subseteq s => u = s
  <2>1. bad \in SUBSET (SUBSET S)
    OBVIOUS
  <2> HIDE DEF bad
  <2>2. QED
    BY <1>1, <2>1, SmallestSubset
<1>3. s \in SUBSET S /\ ~ Good(s)
  OBVIOUS
<1>4. PICK x \in s : Sums(f, S)[s] # Sums(f, S)[s \ {x}] + f[x]
  BY <1>3
<1> DEFINE y == NextOf(s)
<1>5. y \in s /\ Sums(f, S)[s] = Sums(f, S)[s \ {y}] + f[y]
  <2>1. s # {} /\ NextOf(s) \in s
    BY DEF NextOf
  <2>2. Sums(f, S)[s] = IF s = {} THEN 0 ELSE Sums(f, S)[s \ {NextOf(s)}] + f[NextOf(s)]
    BY <1>3, SumsExist
  <2>3. QED
    BY <2>1, <2>2
<1> HIDE DEF y
<1>6. x # y
  BY <1>4, <1>5
<1>7. Good(s \ {y}) /\ Good(s \ {x})
  <2>1. s \ {y} \in SUBSET S /\ s \ {y} # s /\ s \ {x} \in SUBSET S /\ s \ {x} # s
    BY <1>3, <1>5
  <2>2. s \ {y} \notin bad /\ s \ {x} \notin bad
    <3> HIDE DEF bad
    <3>1. QED
      BY <1>2, <2>1
  <2>3. QED
    BY <2>1, <2>2
<1>8. (s \ {y}) \ {x} = (s \ {x}) \ {y}
  OBVIOUS
<1> DEFINE r == (s \ {x}) \ {y}
<1>9. Sums(f, S)[s \ {y}] = Sums(f, S)[r] + f[x] /\ Sums(f, S)[s \ {x}] = Sums(f, S)[r] + f[y]
  BY <1>5, <1>6, <1>7, <1>8
<1>10. Sums(f, S)[r] \in Int /\ f[x] \in Int /\ f[y] \in Int
  BY <1>0, <1>3, <1>5
<1> HIDE DEF r
<1>11. QED
  BY <1>4, <1>5, <1>9, <1>10

\* A sum over a part of a set.
LEMMA SumsOfPart ==
  ASSUME NEW S, IsFiniteSet(S), NEW U \in SUBSET S, NEW f
  PROVE  Sums(f, S)[U] = Sum(f, U)
<1>1. IsFiniteSet(U)
  BY FS_Subset
<1> DEFINE bad == {s \in SUBSET U : Sums(f, S)[s] # Sums(f, U)[s]}
<1>2. bad = {}
  <2>1. SUFFICES ASSUME bad # {} PROVE FALSE
    OBVIOUS
  <2>2. PICK s \in bad : \A u \in bad : u \subseteq s => u = s
    <3>1. bad \in SUBSET (SUBSET U)
      OBVIOUS
    <3> HIDE DEF bad
    <3>2. QED
      BY <1>1, <2>1, <3>1, SmallestSubset
  <2>3. s \in SUBSET U /\ s \in SUBSET S /\ Sums(f, S)[s] # Sums(f, U)[s]
    OBVIOUS
  <2>4. /\ Sums(f, S)[s] = IF s = {} THEN 0 ELSE Sums(f, S)[s \ {NextOf(s)}] + f[NextOf(s)]
        /\ Sums(f, U)[s] = IF s = {} THEN 0 ELSE Sums(f, U)[s \ {NextOf(s)}] + f[NextOf(s)]
    BY <1>1, <2>3, SumsExist
  <2>5. s # {}
    BY <2>3, <2>4
  <2>6. NextOf(s) \in s
    BY <2>5 DEF NextOf
  <2>7. s \ {NextOf(s)} \notin bad
    BY <2>2, <2>6
  <2>8. Sums(f, S)[s \ {NextOf(s)}] = Sums(f, U)[s \ {NextOf(s)}]
    BY <2>3, <2>7
  <2>9. QED
    BY <2>3, <2>4, <2>5, <2>8
<1>3. U \in SUBSET U
  OBVIOUS
<1>4. QED
  BY <1>2, <1>3, SumUnfolded

\* One summand more.
LEMMA SumOfMore ==
  ASSUME NEW S, IsFiniteSet(S), NEW a, a \notin S, NEW f, \A x \in S \cup {a} : f[x] \in Int
  PROVE  Sum(f, S \cup {a}) = Sum(f, S) + f[a] /\ Sum(f, S) \in Int
<1> DEFINE T == S \cup {a}
<1>1. IsFiniteSet(T)
  BY FS_AddElement
<1>2. T \in SUBSET T /\ S \in SUBSET T /\ T \ {a} = S /\ a \in T
  OBVIOUS
<1> HIDE DEF T
<1>3. \A x \in T : f[x] \in Int
  BY DEF T
<1>4. Sums(f, T)[T] = Sums(f, T)[T \ {a}] + f[a]
  BY <1>1, <1>2, <1>3, SumsTaken
<1>5. Sums(f, T)[T] = Sum(f, T) /\ Sums(f, T)[S] = Sum(f, S) /\ Sums(f, T)[S] \in Int
  BY <1>1, <1>2, <1>3, SumsOfPart, SumsInt
<1>6. QED
  BY <1>2, <1>4, <1>5 DEF T

\* A sum of multiples of 4 is one.
LEMMA SumOfWords ==
  ASSUME NEW S, IsFiniteSet(S), NEW f, \A x \in S : f[x] \in Nat /\ f[x] % 4 = 0
  PROVE  Sum(f, S) \in Nat /\ Sum(f, S) % 4 = 0
<1> DEFINE Good(x) == x \in Nat /\ x % 4 = 0
           bad == {s \in SUBSET S : ~ Good(Sums(f, S)[s])}
<1>1. bad = {}
  <2>1. SUFFICES ASSUME bad # {} PROVE FALSE
    OBVIOUS
  <2>2. PICK s \in bad : \A u \in bad : u \subseteq s => u = s
    <3>1. bad \in SUBSET (SUBSET S)
      OBVIOUS
    <3> HIDE DEF bad
    <3>2. QED
      BY <2>1, <3>1, SmallestSubset
  <2>3. s \in SUBSET S /\ ~ Good(Sums(f, S)[s])
    OBVIOUS
  <2>4. Sums(f, S)[s] = IF s = {} THEN 0 ELSE Sums(f, S)[s \ {NextOf(s)}] + f[NextOf(s)]
    BY <2>3, SumsExist
  <2>5. s # {}
    <3>1. Good(0)
      OBVIOUS
    <3>2. QED
      BY <2>3, <2>4, <3>1
  <2>6. NextOf(s) \in s
    BY <2>5 DEF NextOf
  <2>7. s \ {NextOf(s)} \notin bad
    BY <2>2, <2>6
  <2> DEFINE p == Sums(f, S)[s \ {NextOf(s)}]
             q == f[NextOf(s)]
  <2>8. p % 4 = 0 /\ p \in Nat /\ q \in Nat /\ q % 4 = 0 /\ Sums(f, S)[s] = p + q
    BY <2>3, <2>4, <2>5, <2>6, <2>7
  <2> HIDE DEF p, q
  <2>9. (p + q) % 4 = 0 /\ p + q \in Nat
    BY <2>8
  <2>10. QED
    BY <2>3, <2>8, <2>9
<1>2. S \in SUBSET S
  OBVIOUS
<1>3. QED
  BY <1>1, <1>2, SumUnfolded

-----------------------------------------------------------------------------
(* The cfg file. *)

\* What module HostSetup says of its cfg file, of any file: the words of a line, the
\* number of words before it, the number of words before a word, and the words
\* themselves.
WordsIn(c, l) == IF c[l].comment THEN 0 ELSE Len(c[l].words)
StartOf(c, l) == Sum([i \in 1 .. l - 1 |-> WordsIn(c, i)], 1 .. l - 1)
PosOf(c, p) == p[2] - 1 + StartOf(c, p[1])
PlacesIn(c) == {p \in (1 .. Len(c)) \X (Nat \ {0}) : p[2] <= WordsIn(c, p[1])}
AtPlace(c, p) == c[p[1]].words[p[2]]

\* The numbers of words add up.
LEMMA StartsAddUp ==
  ASSUME NEW c \in CfgFiles
  PROVE  /\ Len(c) \in Nat
         /\ \A l \in 1 .. Len(c) : WordsIn(c, l) \in Nat
         /\ StartOf(c, 1) = 0
         /\ \A l \in 1 .. Len(c) : StartOf(c, l + 1) = StartOf(c, l) + WordsIn(c, l)
         /\ \A l \in 1 .. Len(c) + 1 : StartOf(c, l) \in Nat
<1>1. Len(c) \in Nat /\ \A l \in 1 .. Len(c) : WordsIn(c, l) \in Nat
  <2>1. c \in Seq([comment : BOOLEAN, tokens : Nat, words : Seq([text : STRING, value : Int])])
    BY CfgFilesAssumption
  <2>2. \A l \in 1 .. Len(c) : c[l].words \in Seq([text : STRING, value : Int])
    <3> DEFINE R == [comment : BOOLEAN, tokens : Nat, words : Seq([text : STRING, value : Int])]
    <3>1. \A l \in 1 .. Len(c) : c[l] \in R
      <4>1. c \in Seq(R)
        BY <2>1
      <4> HIDE DEF R
      <4>2. QED
        BY <4>1
    <3>2. QED
      BY <3>1
  <2>3. QED
    BY <2>1, <2>2 DEF WordsIn
<1> DEFINE W(l) == [i \in 1 .. l |-> WordsIn(c, i)]
           upTo(l) == Sum(W(l), 1 .. l)
<1>2. \A l : StartOf(c, l) = upTo(l - 1)
  BY DEF StartOf
<1>3. StartOf(c, 1) = 0
  <2>1. IsFiniteSet(1 .. 0) /\ \A x \in 1 .. 0 : W(0)[x] = 0
    BY FS_Interval
  <2>2. Sum(W(0), 1 .. 0) = 0
    <3> HIDE DEF W
    <3>1. QED
      BY <2>1, SumOfZeros
  <2>3. 1 - 1 = 0
    OBVIOUS
  <2>4. QED
    BY <1>2, <2>2, <2>3
<1>4. ASSUME NEW l \in 1 .. Len(c)
      PROVE  StartOf(c, l + 1) = StartOf(c, l) + WordsIn(c, l) /\ StartOf(c, l) \in Int
  <2>1. l + 1 - 1 = l /\ (1 .. l - 1) \cup {l} = 1 .. l /\ l \notin 1 .. l - 1
    BY <1>1
  <2>2. IsFiniteSet(1 .. l - 1) /\ IsFiniteSet(1 .. l)
    BY <1>1, FS_Interval
  <2>3. \A x \in 1 .. l : W(l)[x] \in Int /\ W(l)[x] = WordsIn(c, x)
    BY <1>1
  <2>4. \A x \in 1 .. l - 1 : W(l - 1)[x] = W(l)[x] /\ W(l)[x] \in Int
    BY <1>1
  <2> DEFINE A == W(l)
             B == W(l - 1)
             P == 1 .. l - 1
  <2>5. IsFiniteSet(P) /\ l \notin P /\ (\A x \in P \cup {l} : A[x] \in Int)
        /\ \A x \in P : A[x] = B[x] /\ B[x] \in Int
    BY <2>1, <2>2, <2>3, <2>4
  <2>6. A[l] = WordsIn(c, l) /\ P \cup {l} = 1 .. l
    BY <2>1, <2>3
  <2>7. StartOf(c, l + 1) = Sum(A, P \cup {l}) /\ StartOf(c, l) = Sum(B, P)
    <3> HIDE DEF upTo
    <3>1. StartOf(c, l + 1) = upTo(l)
      BY <1>2, <2>1
    <3>2. StartOf(c, l) = upTo(l - 1)
      BY <1>2
    <3> USE DEF upTo
    <3>3. QED
      BY <2>6, <3>1, <3>2
  <2> HIDE DEF A, B, P
  <2>8. Sum(A, P \cup {l}) = Sum(A, P) + A[l] /\ Sum(A, P) \in Int
    BY <2>5, SumOfMore
  <2>9. Sum(A, P) = Sum(B, P)
    <3>1. Sum(A, P) \in Int /\ Sum(B, P) \in Int /\ Sum(A, P) = Sum(B, P) + IF l \in P THEN 0 - B[l] ELSE 0
      BY <2>5, SumOfStored
    <3>2. QED
      BY <2>5, <3>1
  <2>10. QED
    BY <2>6, <2>7, <2>8, <2>9
<1>5. \A l \in 1 .. Len(c) + 1 : StartOf(c, l) \in Nat
  <2> DEFINE bad == {l \in 1 .. Len(c) + 1 : StartOf(c, l) \notin Nat}
  <2>1. SUFFICES ASSUME bad # {} PROVE FALSE
    OBVIOUS
  <2>2. PICK l \in bad : \A m \in bad : l <= m
    <3>1. bad \in SUBSET Nat
      BY <1>1
    <3> HIDE DEF bad
    <3>2. QED
      BY <2>1, <3>1, LeastNumber
  <2>3. l \in 1 .. Len(c) + 1 /\ StartOf(c, l) \notin Nat /\ l # 1
    BY <1>3
  <2>4. l - 1 \in 1 .. Len(c) /\ l - 1 + 1 = l
    BY <1>1, <2>3
  <2>5. l - 1 \notin bad
    <3>1. l - 1 < l
      BY <2>3
    <3> HIDE DEF bad
    <3>2. QED
      BY <1>1, <2>2, <2>3, <3>1
  <2>6. StartOf(c, l - 1) \in Nat
    BY <1>1, <2>4, <2>5
  <2>7. QED
    BY <1>1, <1>4, <2>3, <2>4, <2>6
<1>6. QED
  BY <1>1, <1>3, <1>4, <1>5

\* Earlier lines have no more words before them.
LEMMA StartsGrow ==
  ASSUME NEW c \in CfgFiles, NEW l \in 1 .. Len(c) + 1, NEW m \in 1 .. Len(c) + 1, l <= m
  PROVE  StartOf(c, l) <= StartOf(c, m)
<1>1. Len(c) \in Nat
  BY StartsAddUp
<1> DEFINE bad == {k \in l .. Len(c) + 1 : ~ (StartOf(c, l) <= StartOf(c, k))}
<1>2. SUFFICES bad = {}
  BY <1>1, <1>2
<1>3. SUFFICES ASSUME bad # {} PROVE FALSE
  OBVIOUS
<1>4. PICK k \in bad : \A j \in bad : k <= j
  <2>1. bad \in SUBSET Nat
    BY <1>1
  <2> HIDE DEF bad
  <2>2. QED
    BY <1>3, <2>1, LeastNumber
<1>5. k \in l .. Len(c) + 1 /\ ~ (StartOf(c, l) <= StartOf(c, k))
  OBVIOUS
<1>6. k # l
  BY <1>1, <1>5, StartsAddUp
<1>7. k - 1 \in l .. Len(c) + 1 /\ k - 1 \in 1 .. Len(c) /\ k - 1 + 1 = k /\ ~ (k <= k - 1)
  BY <1>1, <1>5, <1>6
<1>8. k - 1 \notin bad
  <2> HIDE DEF bad
  <2>1. QED
    BY <1>4, <1>7
<1>9. StartOf(c, l) <= StartOf(c, k - 1)
  BY <1>7, <1>8
<1>10. StartOf(c, k) = StartOf(c, k - 1) + WordsIn(c, k - 1) /\ WordsIn(c, k - 1) \in Nat
       /\ StartOf(c, k - 1) \in Nat /\ StartOf(c, l) \in Nat
  BY <1>1, <1>7, StartsAddUp
<1>11. QED
  BY <1>5, <1>9, <1>10

\* Different words have different numbers of words before them, and each line's
\* come before the next line's.
LEMMA PlacesApart ==
  ASSUME NEW c \in CfgFiles, NEW p \in PlacesIn(c), NEW q \in PlacesIn(c)
  PROVE  /\ PosOf(c, p) \in Nat
         /\ PosOf(c, p) < StartOf(c, p[1] + 1)
         /\ p[1] < q[1] => PosOf(c, p) < PosOf(c, q)
         /\ p[1] = q[1] => (p[2] <= q[2] <=> PosOf(c, p) <= PosOf(c, q))
         /\ PosOf(c, p) = PosOf(c, q) => p = q
<1>0. Len(c) \in Nat
  BY StartsAddUp
<1>1. /\ p = <<p[1], p[2]>> /\ p[1] \in 1 .. Len(c) /\ p[2] \in Nat \ {0} /\ p[2] <= WordsIn(c, p[1])
      /\ q = <<q[1], q[2]>> /\ q[1] \in 1 .. Len(c) /\ q[2] \in Nat \ {0} /\ q[2] <= WordsIn(c, q[1])
  BY DEF PlacesIn
<1>2. /\ StartOf(c, p[1]) \in Nat /\ StartOf(c, p[1] + 1) = StartOf(c, p[1]) + WordsIn(c, p[1]) /\ WordsIn(c, p[1]) \in Nat
      /\ StartOf(c, q[1]) \in Nat /\ StartOf(c, q[1] + 1) = StartOf(c, q[1]) + WordsIn(c, q[1]) /\ WordsIn(c, q[1]) \in Nat
  BY <1>0, <1>1, StartsAddUp
<1>3. PosOf(c, p) \in Nat /\ PosOf(c, q) \in Nat /\ PosOf(c, p) < StartOf(c, p[1] + 1) /\ PosOf(c, q) < StartOf(c, q[1] + 1)
      /\ StartOf(c, p[1]) <= PosOf(c, p) /\ StartOf(c, q[1]) <= PosOf(c, q)
  <2>1. PosOf(c, p) \in Nat /\ PosOf(c, p) < StartOf(c, p[1] + 1) /\ StartOf(c, p[1]) <= PosOf(c, p)
    <3> DEFINE w == p[2]
               n == WordsIn(c, p[1])
               t == StartOf(c, p[1])
               e == StartOf(c, p[1] + 1)
    <3>1. w \in Nat \ {0} /\ t \in Nat /\ e \in Nat /\ n \in Nat /\ w <= n /\ e = t + n
      BY <1>1, <1>2
    <3>2. PosOf(c, p) = w - 1 + t
      BY DEF PosOf
    <3> HIDE DEF w, n, t, e
    <3>3. PosOf(c, p) \in Nat /\ PosOf(c, p) < e /\ t <= PosOf(c, p)
      BY <3>1, <3>2
    <3>4. QED
      BY <3>3 DEF t, e
  <2>2. PosOf(c, q) \in Nat /\ PosOf(c, q) < StartOf(c, q[1] + 1) /\ StartOf(c, q[1]) <= PosOf(c, q)
    <3> DEFINE w == q[2]
               n == WordsIn(c, q[1])
               t == StartOf(c, q[1])
               e == StartOf(c, q[1] + 1)
    <3>1. w \in Nat \ {0} /\ t \in Nat /\ e \in Nat /\ n \in Nat /\ w <= n /\ e = t + n
      BY <1>1, <1>2
    <3>2. PosOf(c, q) = w - 1 + t
      BY DEF PosOf
    <3> HIDE DEF w, n, t, e
    <3>3. PosOf(c, q) \in Nat /\ PosOf(c, q) < e /\ t <= PosOf(c, q)
      BY <3>1, <3>2
    <3>4. QED
      BY <3>3 DEF t, e
  <2>3. QED
    BY <2>1, <2>2
<1>4. p[1] < q[1] => PosOf(c, p) < PosOf(c, q)
  <2> SUFFICES ASSUME p[1] < q[1] PROVE PosOf(c, p) < PosOf(c, q)
    OBVIOUS
  <2>1. StartOf(c, p[1] + 1) <= StartOf(c, q[1])
    <3>1. p[1] + 1 \in 1 .. Len(c) + 1 /\ q[1] \in 1 .. Len(c) + 1 /\ p[1] + 1 <= q[1]
      BY <1>0, <1>1
    <3>2. QED
      BY <3>1, StartsGrow
  <2>2. QED
    BY <1>2, <1>3, <2>1
<1>5. q[1] < p[1] => PosOf(c, q) < PosOf(c, p)
  <2> SUFFICES ASSUME q[1] < p[1] PROVE PosOf(c, q) < PosOf(c, p)
    OBVIOUS
  <2>1. StartOf(c, q[1] + 1) <= StartOf(c, p[1])
    <3>1. q[1] + 1 \in 1 .. Len(c) + 1 /\ p[1] \in 1 .. Len(c) + 1 /\ q[1] + 1 <= p[1]
      BY <1>0, <1>1
    <3>2. QED
      BY <3>1, StartsGrow
  <2>2. QED
    BY <1>2, <1>3, <2>1
<1>6. p[1] = q[1] => (p[2] <= q[2] <=> PosOf(c, p) <= PosOf(c, q)) /\ (p[2] = q[2] <=> PosOf(c, p) = PosOf(c, q))
  BY <1>1, <1>2 DEF PosOf
<1>7. PosOf(c, p) = PosOf(c, q) => p = q
  <2> SUFFICES ASSUME PosOf(c, p) = PosOf(c, q) PROVE p = q
    OBVIOUS
  <2>1. p[1] = q[1]
    BY <1>1, <1>3, <1>4, <1>5
  <2>2. p[2] = q[2]
    BY <1>6, <2>1
  <2>3. QED
    BY <1>1, <2>1, <2>2
<1>8. QED
  BY <1>3, <1>4, <1>6, <1>7

\* Again what module HostSetup says of its cfg file: the lines that count, the number
\* of those before a line, the key of a value, the values of a key on a line, those
\* of them among the first n words, and what the last of some values is.
LinesIn(c) == {l \in 1 .. Len(c) : ~ c[l].comment}
RankIn(c, l) == Cardinality({m \in LinesIn(c) : m < l})
KeyIn(c, p) == AtPlace(c, CHOOSE q \in PlacesIn(c) : PosOf(c, q) + 1 = PosOf(c, p)).text
ValuesIn(c, l, k) == {p \in PlacesIn(c) : p[1] = l /\ PosOf(c, p) % 2 = 1 /\ KeyIn(c, p) = k}
ReadOf(c, n, l, k) == {p \in ValuesIn(c, l, k) : PosOf(c, p) < n}
LastOf(c, V) == IF V = {} THEN 0 ELSE AtPlace(c, CHOOSE p \in V : \A q \in V : q[2] <= p[2]).value

\* The lines are counted one by one.
LEMMA RanksCount ==
  ASSUME NEW c \in CfgFiles
  PROVE  /\ RankIn(c, 1) = 0 /\ RankIn(c, Len(c) + 1) = Cardinality(LinesIn(c))
         /\ \A l \in 1 .. Len(c) + 1 : RankIn(c, l) \in Nat
         /\ \A l \in 1 .. Len(c) : RankIn(c, l + 1) = RankIn(c, l) + IF c[l].comment THEN 0 ELSE 1
         /\ \A l, m \in LinesIn(c) : RankIn(c, l) = RankIn(c, m) => l = m
<1>1. Len(c) \in Nat
  BY StartsAddUp
<1> DEFINE before(l) == {m \in LinesIn(c) : m < l}
<1>2. LinesIn(c) \in SUBSET (1 .. Len(c)) /\ IsFiniteSet(LinesIn(c))
  <2>1. LinesIn(c) \in SUBSET (1 .. Len(c))
    BY DEF LinesIn
  <2>2. IsFiniteSet(1 .. Len(c))
    BY <1>1, FS_Interval
  <2>3. QED
    BY <2>1, <2>2, FS_Subset
<1>3. \A l : IsFiniteSet(before(l)) /\ Cardinality(before(l)) \in Nat
  BY <1>2, FS_Subset, FS_CardinalityType
<1>4. before(1) = {} /\ before(Len(c) + 1) = LinesIn(c)
  BY <1>1, <1>2
<1>5. ASSUME NEW l \in 1 .. Len(c)
      PROVE  before(l + 1) = (IF c[l].comment THEN before(l) ELSE before(l) \cup {l}) /\ l \notin before(l)
  BY <1>1, <1>2 DEF LinesIn
<1>6. ASSUME NEW l \in 1 .. Len(c)
      PROVE  RankIn(c, l + 1) = RankIn(c, l) + IF c[l].comment THEN 0 ELSE 1
  <2>1. Cardinality(before(l) \cup {l}) = Cardinality(before(l)) + 1
    <3>1. l \notin before(l)
      BY <1>5
    <3> HIDE DEF before
    <3>2. QED
      BY <1>3, <3>1, FS_AddElement
  <2>2. RankIn(c, l + 1) = Cardinality(before(l + 1)) /\ RankIn(c, l) = Cardinality(before(l))
    BY DEF RankIn
  <2> HIDE DEF before
  <2>3. CASE c[l].comment
    <3>1. RankIn(c, l + 1) = RankIn(c, l)
      BY <1>5, <2>2, <2>3
    <3>2. RankIn(c, l) \in Nat
      BY <1>3, <2>2
    <3>3. QED
      BY <2>3, <3>1, <3>2
  <2>4. CASE ~ c[l].comment
    BY <1>5, <2>1, <2>2, <2>4
  <2>5. QED
    BY <2>3, <2>4
<1>7. ASSUME NEW l \in LinesIn(c), NEW m \in LinesIn(c), l < m
      PROVE  RankIn(c, l) < RankIn(c, m)
  <2>1. l \in 1 .. Len(c) /\ ~ c[l].comment /\ m \in 1 .. Len(c)
    BY DEF LinesIn
  <2>2. before(l + 1) \subseteq before(m)
    BY <1>1, <1>2, <1>7, <2>1
  <2>3. Cardinality(before(l + 1)) <= Cardinality(before(m))
    <3> HIDE DEF before
    <3>1. QED
      BY <1>3, <2>2, FS_Subset
  <2>4. RankIn(c, l + 1) <= RankIn(c, m) /\ RankIn(c, l + 1) = RankIn(c, l) + 1
    BY <1>6, <2>1, <2>3 DEF RankIn
  <2>5. RankIn(c, l) \in Nat /\ RankIn(c, m) \in Nat
    BY <1>3 DEF RankIn
  <2>6. QED
    BY <2>4, <2>5
<1>8. \A l, m \in LinesIn(c) : RankIn(c, l) = RankIn(c, m) => l = m
  <2> SUFFICES ASSUME NEW l \in LinesIn(c), NEW m \in LinesIn(c), RankIn(c, l) = RankIn(c, m) PROVE l = m
    OBVIOUS
  <2>1. l \in Nat /\ m \in Nat /\ RankIn(c, l) \in Nat
    BY <1>2, <1>3 DEF RankIn
  <2>2. ~ (l < m) /\ ~ (m < l)
    BY <1>7, <2>1
  <2>3. QED
    BY <2>1, <2>2
<1>9. RankIn(c, 1) = 0 /\ RankIn(c, Len(c) + 1) = Cardinality(LinesIn(c))
  BY <1>4, FS_EmptySet DEF RankIn
<1>10. \A l \in 1 .. Len(c) + 1 : RankIn(c, l) \in Nat
  BY <1>3 DEF RankIn
<1>11. QED
  BY <1>6, <1>8, <1>9, <1>10

\* One word more is read.
LEMMA OneMoreWord ==
  ASSUME NEW c \in CfgFiles, NEW p \in PlacesIn(c), NEW l, NEW k
  PROVE  /\ p \notin ValuesIn(c, l, k) => ReadOf(c, PosOf(c, p) + 1, l, k) = ReadOf(c, PosOf(c, p), l, k)
         /\ p \in ValuesIn(c, l, k) => LastOf(c, ReadOf(c, PosOf(c, p) + 1, l, k)) = AtPlace(c, p).value
<1> DEFINE n == PosOf(c, p)
<1>1. ValuesIn(c, l, k) \subseteq PlacesIn(c) /\ \A q \in ValuesIn(c, l, k) : q[1] = l
  BY DEF ValuesIn
<1>2. n \in Nat /\ \A q \in ValuesIn(c, l, k) : PosOf(c, q) \in Nat /\ (PosOf(c, q) = n => q = p)
  BY <1>1, PlacesApart
<1>3. \A q \in ValuesIn(c, l, k) : PosOf(c, q) < n + 1 <=> PosOf(c, q) < n \/ q = p
  BY <1>2
<1>4. CASE p \notin ValuesIn(c, l, k)
  BY <1>3, <1>4 DEF ReadOf
<1>5. CASE p \in ValuesIn(c, l, k)
  <2> DEFINE V == ReadOf(c, n + 1, l, k)
  <2>1. p \in V /\ \A q \in V : q \in PlacesIn(c) /\ q[1] = p[1] /\ PosOf(c, q) <= PosOf(c, p)
    BY <1>1, <1>2, <1>3, <1>5 DEF ReadOf
  <2> HIDE DEF V
  <2>2. \A q \in V : q[2] <= p[2]
    BY <2>1, PlacesApart
  <2>3. \A r \in V : (\A q \in V : q[2] <= r[2]) => r = p
    <3> SUFFICES ASSUME NEW r \in V, \A q \in V : q[2] <= r[2] PROVE r = p
      OBVIOUS
    <3>1. p[2] <= r[2] /\ r[1] = p[1] /\ r \in PlacesIn(c) /\ PosOf(c, r) <= PosOf(c, p)
      BY <2>1
    <3>2. PosOf(c, p) <= PosOf(c, r)
      BY <3>1, PlacesApart
    <3>3. PosOf(c, p) = PosOf(c, r)
      BY <3>1, <3>2, PlacesApart
    <3>4. QED
      BY <3>1, <3>3, PlacesApart
  <2>4. (CHOOSE r \in V : \A q \in V : q[2] <= r[2]) = p
    BY <2>1, <2>2, <2>3
  <2>5. LastOf(c, V) = AtPlace(c, p).value
    BY <2>1, <2>4 DEF LastOf
  <2>6. QED
    BY <1>5, <2>5 DEF V
<1>6. QED
  BY <1>4, <1>5

\* The key of a value is the word before it.
LEMMA KeyBefore ==
  ASSUME NEW c \in CfgFiles, NEW p, NEW q \in PlacesIn(c), PosOf(c, q) + 1 = PosOf(c, p)
  PROVE  KeyIn(c, p) = AtPlace(c, q).text
<1>1. \A r \in PlacesIn(c) : PosOf(c, r) \in Nat /\ (PosOf(c, r) = PosOf(c, q) => r = q)
  BY PlacesApart
<1>2. \A r \in PlacesIn(c) : PosOf(c, r) + 1 = PosOf(c, p) => r = q
  BY <1>1
<1>3. (CHOOSE r \in PlacesIn(c) : PosOf(c, r) + 1 = PosOf(c, p)) = q
  BY <1>2
<1>4. QED
  BY <1>3 DEF KeyIn

\* At the end of the file all has been read.
LEMMA AllRead ==
  ASSUME NEW c \in CfgFiles, NEW l, NEW k
  PROVE  ReadOf(c, StartOf(c, Len(c) + 1), l, k) = ValuesIn(c, l, k)
<1>1. ASSUME NEW p \in PlacesIn(c) PROVE PosOf(c, p) < StartOf(c, Len(c) + 1)
  <2>1. p[1] \in 1 .. Len(c) /\ Len(c) \in Nat
    BY StartsAddUp DEF PlacesIn
  <2>2. p[1] + 1 \in 1 .. Len(c) + 1 /\ Len(c) + 1 \in 1 .. Len(c) + 1 /\ p[1] + 1 <= Len(c) + 1
    BY <2>1
  <2>3. StartOf(c, p[1] + 1) <= StartOf(c, Len(c) + 1) /\ StartOf(c, p[1] + 1) \in Nat /\ StartOf(c, Len(c) + 1) \in Nat
    BY <2>2, StartsGrow, StartsAddUp
  <2>4. PosOf(c, p) \in Nat /\ PosOf(c, p) < StartOf(c, p[1] + 1)
    BY PlacesApart
  <2>5. QED
    BY <2>3, <2>4
<1>2. QED
  BY <1>1 DEF ReadOf, ValuesIn

-----------------------------------------------------------------------------
(* The parser. *)

\* Every other word among the first n of file c is a key.
KeysRead(c, n) ==
  \A p \in PlacesIn(c) : PosOf(c, p) < n /\ PosOf(c, p) % 2 = 0 => AtPlace(c, p).text \in hostKeys

\* After n words of file c: each of the lines counted so far has its place in x, and
\* each place has the values that have been read of its line.
EntriesHold(c, count, x, n) ==
  /\ KeysRead(c, n)
  /\ x \in [Entries -> [hostKeys -> Int]]
  /\ \A i \in 0 .. count - 1 : \E l \in LinesIn(c) : RankIn(c, l) = i
  /\ \A l \in LinesIn(c), k \in hostKeys :
       RankIn(c, l) \in Entries => x[RankIn(c, l)][k] = LastOf(c, ReadOf(c, n, l, k))

\* While main reads: it is at a word or the end of a line, a key has been read iff an
\* odd number of words has, and it is the last of them.
ParseInv ==
  /\ at \in (1 .. Len(cfg) + 1) \X (Nat \ {0})
  /\ IF at[1] <= Len(cfg) THEN at[2] <= WordsIn(cfg, at[1]) + 1 ELSE at[2] = 1
  /\ hflag = PosOf(cfg, at) % 2
  /\ hflag = 1 => \E q \in PlacesIn(cfg) : PosOf(cfg, q) + 1 = PosOf(cfg, at) /\ AtPlace(cfg, q).text = hkey
  /\ hflag = 1 => hkey \in hostKeys
  /\ linecount = RankIn(cfg, at[1])
  /\ EntriesHold(cfg, linecount, xyz, PosOf(cfg, at))

PlanInv ==
  /\ cfg \in CfgFiles
  /\ hpc = "parse" => ParseInv
  /\ hpc \notin {"parse", "overrun", "returned"} =>
       /\ linecount = RankIn(cfg, Len(cfg) + 1) /\ linecount <= MAX_NUM_THREADS
       /\ EntriesHold(cfg, linecount, xyz, StartOf(cfg, Len(cfg) + 1))

\* The start of the file.
LEMMA PlanInit == HostSetupInit => PlanInv
<1> SUFFICES ASSUME HostSetupInit PROVE PlanInv
  OBVIOUS
<1>1. cfg \in CfgFiles /\ at = <<1, 1>> /\ hflag = 0 /\ linecount = 0 /\ hpc = "parse" /\ xyz = [i \in Entries |-> NoEntry]
  BY DEF HostSetupInit
<1>2. /\ Len(cfg) \in Nat /\ StartOf(cfg, 1) = 0 /\ RankIn(cfg, 1) = 0
      /\ \A l \in 1 .. Len(cfg) : WordsIn(cfg, l) \in Nat
  BY <1>1, StartsAddUp, RanksCount
<1>3. PosOf(cfg, at) = 0
  BY <1>1, <1>2 DEF PosOf
<1>4. \A l, k : ReadOf(cfg, 0, l, k) = {}
  <2>1. \A l, k : \A p \in ValuesIn(cfg, l, k) : p \in PlacesIn(cfg)
    BY DEF ValuesIn
  <2>2. \A p \in PlacesIn(cfg) : PosOf(cfg, p) \in Nat
    BY <1>1, PlacesApart
  <2>3. QED
    BY <2>1, <2>2 DEF ReadOf
<1>5. EntriesHold(cfg, linecount, xyz, 0)
  <2>1. \A l, k : LastOf(cfg, ReadOf(cfg, 0, l, k)) = 0
    BY <1>4 DEF LastOf
  <2>2. xyz \in [Entries -> [hostKeys -> Int]] /\ \A i \in Entries, k \in hostKeys : xyz[i][k] = 0
    BY <1>1 DEF NoEntry
  <2>3. \A i \in 0 .. linecount - 1 : FALSE
    BY <1>1
  <2>4. KeysRead(cfg, 0)
    BY <1>1, PlacesApart DEF KeysRead
  <2>5. QED
    BY <2>1, <2>2, <2>3, <2>4 DEF EntriesHold
<1>6. at \in (1 .. Len(cfg) + 1) \X (Nat \ {0}) /\ hflag = PosOf(cfg, at) % 2 /\ linecount = RankIn(cfg, at[1])
  BY <1>1, <1>2, <1>3
<1>7. IF at[1] <= Len(cfg) THEN at[2] <= WordsIn(cfg, at[1]) + 1 ELSE at[2] = 1
  BY <1>1, <1>2
<1>8. QED
  BY <1>1, <1>3, <1>5, <1>6, <1>7 DEF PlanInv, ParseInv

\* Where main is in the middle of a line, it is at one of its words.
LEMMA AtWord ==
  ASSUME cfg \in CfgFiles, ParseInv, at[1] <= Len(cfg), at[2] <= Len(Words)
  PROVE  /\ at \in PlacesIn(cfg) /\ WordAt(at) = AtPlace(cfg, at) /\ PosOf(cfg, at) \in Nat
         /\ at[1] \in LinesIn(cfg) /\ AtPlace(cfg, at).value \in Int
         /\ PosOf(cfg, <<at[1], at[2] + 1>>) = PosOf(cfg, at) + 1
<1>1. Len(cfg) \in Nat /\ at[1] \in 1 .. Len(cfg) /\ at[2] \in Nat \ {0} /\ at = <<at[1], at[2]>>
  BY StartsAddUp DEF ParseInv
<1>2. cfg[at[1]] \in [comment : BOOLEAN, tokens : Nat, words : Seq([text : STRING, value : Int])]
  <2> DEFINE R == [comment : BOOLEAN, tokens : Nat, words : Seq([text : STRING, value : Int])]
  <2>1. cfg \in Seq(R)
    BY CfgFilesAssumption
  <2> HIDE DEF R
  <2>2. cfg[at[1]] \in R
    BY <1>1, <2>1
  <2>3. QED
    BY <2>2 DEF R
<1>3. ~ cfg[at[1]].comment /\ Len(cfg[at[1]].words) \in Nat /\ at[2] <= Len(cfg[at[1]].words)
  <2>1. cfg[at[1]].words \in Seq([text : STRING, value : Int])
    BY <1>2
  <2>2. Len(<<>>) = 0
    OBVIOUS
  <2>3. QED
    BY <1>1, <2>1, <2>2 DEF Words, ThisLine
<1>4. at[2] <= WordsIn(cfg, at[1])
  BY <1>3 DEF WordsIn
<1>5. at \in PlacesIn(cfg)
  BY <1>1, <1>4 DEF PlacesIn
<1>6. AtPlace(cfg, at).value \in Int
  <2> DEFINE R == [text : STRING, value : Int]
  <2>1. cfg[at[1]].words \in Seq(R)
    BY <1>2
  <2>2. at[2] \in 1 .. Len(cfg[at[1]].words)
    BY <1>1, <1>3
  <2>3. cfg[at[1]].words[at[2]] \in R
    <3> HIDE DEF R
    <3>1. QED
      BY <2>1, <2>2
  <2>4. QED
    BY <2>3 DEF AtPlace
<1>7. PosOf(cfg, <<at[1], at[2] + 1>>) = PosOf(cfg, at) + 1 /\ PosOf(cfg, at) \in Nat
  <2>1. PosOf(cfg, at) \in Nat /\ StartOf(cfg, at[1]) \in Nat
    BY <1>1, <1>5, PlacesApart, StartsAddUp
  <2>2. QED
    BY <1>1, <2>1 DEF PosOf
<1>8. QED
  BY <1>1, <1>3, <1>5, <1>6, <1>7 DEF WordAt, AtPlace, LinesIn

\* A key.
LEMMA ParseKeyStep ==
  ASSUME PlanInv, HostParseKey
  PROVE  PlanInv'
<1>1. /\ cfg \in CfgFiles /\ hpc = "parse" /\ ParseInv /\ hflag = 0 /\ at[1] <= Len(cfg) /\ at[2] <= Len(Words)
      /\ cfg' = cfg /\ linecount' = linecount /\ xyz' = xyz
  BY DEF PlanInv, HostParseKey
<1>2. CASE hpc' = "returned"
  BY <1>1, <1>2 DEF PlanInv
<1>3. CASE hpc' # "returned"
  <2>1. WordAt(at).text \in hostKeys /\ hkey' = WordAt(at).text /\ hflag' = 1 /\ at' = <<at[1], at[2] + 1>> /\ hpc' = "parse"
    BY <1>1, <1>3 DEF HostParseKey
  <2>2. PICK n \in Nat : n = PosOf(cfg, at)
    BY <1>1, AtWord
  <2>3. /\ at \in PlacesIn(cfg) /\ WordAt(at) = AtPlace(cfg, at) /\ PosOf(cfg, at') = n + 1
    BY <1>1, <2>1, <2>2, AtWord
  <2>4. at[1] \in 1 .. Len(cfg) /\ at[2] \in Nat \ {0} /\ at[2] <= WordsIn(cfg, at[1]) /\ at'[1] = at[1] /\ at'[2] = at[2] + 1
    BY <2>1, <2>3 DEF PlacesIn
  <2>5. n % 2 = 0
    BY <1>1, <2>2 DEF ParseInv
  <2>6. (n + 1) % 2 = 1
    BY <2>5
  <2>7. \A l, k : at \notin ValuesIn(cfg, l, k)
    BY <2>2, <2>5 DEF ValuesIn
  <2>8. EntriesHold(cfg, linecount, xyz, n + 1)
    <3>1. EntriesHold(cfg, linecount, xyz, n)
      BY <1>1, <2>2 DEF ParseInv
    <3>2. \A l, k : ReadOf(cfg, n + 1, l, k) = ReadOf(cfg, n, l, k)
      BY <1>1, <2>2, <2>3, <2>7, OneMoreWord
    <3>3. KeysRead(cfg, n + 1)
      <4>1. SUFFICES ASSUME NEW p \in PlacesIn(cfg), PosOf(cfg, p) < n + 1, PosOf(cfg, p) % 2 = 0
                     PROVE  AtPlace(cfg, p).text \in hostKeys
        BY DEF KeysRead
      <4>2. PosOf(cfg, p) \in Nat /\ (PosOf(cfg, p) = n => p = at)
        BY <1>1, <2>2, <2>3, PlacesApart
      <4>3. CASE PosOf(cfg, p) = n
        BY <2>1, <2>3, <4>2, <4>3
      <4>4. CASE PosOf(cfg, p) # n
        <5>1. PosOf(cfg, p) < n
          BY <4>1, <4>2, <4>4
        <5>2. QED
          BY <3>1, <4>1, <5>1 DEF EntriesHold, KeysRead
      <4>5. QED
        BY <4>3, <4>4
    <3>4. QED
      BY <3>1, <3>2, <3>3 DEF EntriesHold
  <2>9. ParseInv'
    <3>1. at' \in (1 .. Len(cfg) + 1) \X (Nat \ {0}) /\ at'[1] <= Len(cfg) /\ at'[2] <= WordsIn(cfg, at'[1]) + 1
      <4>1. Len(cfg) \in Nat /\ WordsIn(cfg, at[1]) \in Nat
        BY <1>1, <2>4, StartsAddUp
      <4>2. QED
        BY <2>1, <2>4, <4>1
    <3>2. hflag' = PosOf(cfg, at') % 2
      BY <2>1, <2>3, <2>6
    <3>3. linecount' = RankIn(cfg, at'[1])
      BY <1>1, <2>4 DEF ParseInv
    <3>4. PosOf(cfg, at) + 1 = PosOf(cfg, at') /\ AtPlace(cfg, at).text = hkey'
      BY <2>1, <2>2, <2>3
    <3>5. hkey' \in hostKeys
      BY <2>1
    <3>6. QED
      BY <1>1, <2>3, <2>8, <3>1, <3>2, <3>3, <3>4, <3>5 DEF ParseInv
  <2>10. QED
    BY <1>1, <2>1, <2>9 DEF PlanInv
<1>4. QED
  BY <1>2, <1>3

\* A value.
LEMMA ParseValueStep ==
  ASSUME PlanInv, HostParseValue
  PROVE  PlanInv'
<1>1. /\ cfg \in CfgFiles /\ hpc = "parse" /\ ParseInv /\ hflag = 1 /\ at[1] <= Len(cfg) /\ at[2] <= Len(Words)
      /\ cfg' = cfg /\ linecount' = linecount /\ hkey' = hkey
  BY DEF PlanInv, HostParseValue
<1>2. CASE hpc' = "returned"
  BY <1>1, <1>2 DEF PlanInv
<1>3. CASE hpc' # "returned"
  <2>1. /\ xyz' = [xyz EXCEPT ![linecount][hkey] = WordAt(at).value]
        /\ linecount + 1 < MAX_NUM_THREADS /\ hflag' = 0 /\ at' = <<at[1], at[2] + 1>> /\ hpc' = "parse"
    BY <1>1, <1>3 DEF HostParseValue, HostAddKeyValue
  <2>2. PICK n \in Nat : n = PosOf(cfg, at)
    BY <1>1, AtWord
  <2>3. /\ at \in PlacesIn(cfg) /\ WordAt(at) = AtPlace(cfg, at) /\ PosOf(cfg, at') = n + 1
        /\ at[1] \in LinesIn(cfg) /\ AtPlace(cfg, at).value \in Int
    BY <1>1, <2>1, <2>2, AtWord
  <2>4. at[1] \in 1 .. Len(cfg) /\ at[2] \in Nat \ {0} /\ at[2] <= WordsIn(cfg, at[1]) /\ at'[1] = at[1] /\ at'[2] = at[2] + 1
    BY <2>1, <2>3 DEF PlacesIn
  <2>5. n % 2 = 1
    BY <1>1, <2>2 DEF ParseInv
  <2>6. (n + 1) % 2 = 0
    BY <2>5
  <2>7. hkey \in hostKeys /\ KeyIn(cfg, at) = hkey
    <3>1. hkey \in hostKeys
      BY <1>1 DEF ParseInv
    <3>2. PICK q \in PlacesIn(cfg) : PosOf(cfg, q) + 1 = PosOf(cfg, at) /\ AtPlace(cfg, q).text = hkey
      BY <1>1 DEF ParseInv
    <3>3. QED
      BY <1>1, <3>1, <3>2, KeyBefore
  <2>8. \A l, k : at \in ValuesIn(cfg, l, k) <=> l = at[1] /\ k = hkey
    BY <2>2, <2>3, <2>5, <2>7 DEF ValuesIn
  <2>9. linecount = RankIn(cfg, at[1]) /\ linecount \in Entries
    <3>1. linecount = RankIn(cfg, at[1])
      BY <1>1 DEF ParseInv
    <3>2. Len(cfg) \in Nat
      BY <1>1, StartsAddUp
    <3>3. RankIn(cfg, at[1]) \in Nat
      BY <1>1, <2>4, <3>2, RanksCount
    <3>4. QED
      BY <2>1, <3>1, <3>3, HostSetupAssumption DEF Entries
  <2>10. EntriesHold(cfg, linecount, xyz', n + 1)
    <3>1. EntriesHold(cfg, linecount, xyz, n)
      BY <1>1, <2>2 DEF ParseInv
    <3>2. xyz \in [Entries -> [hostKeys -> Int]]
      BY <3>1 DEF EntriesHold
    <3> DEFINE v == AtPlace(cfg, at).value
    <3>3. v \in Int /\ xyz' = [xyz EXCEPT ![linecount][hkey] = v]
      BY <2>1, <2>3
    <3> HIDE DEF v
    <3>4. /\ xyz' \in [Entries -> [hostKeys -> Int]] /\ xyz'[linecount][hkey] = v
          /\ \A i \in Entries, k \in hostKeys : i # linecount \/ k # hkey => xyz'[i][k] = xyz[i][k]
      <4> HIDE DEF hostKeys, Entries
      <4>1. QED
        BY <2>7, <2>9, <3>2, <3>3
    <3>5. ASSUME NEW l \in LinesIn(cfg), NEW k \in hostKeys, RankIn(cfg, l) \in Entries
          PROVE  xyz'[RankIn(cfg, l)][k] = LastOf(cfg, ReadOf(cfg, n + 1, l, k))
      <4>1. CASE l = at[1] /\ k = hkey
        <5>1. at \in ValuesIn(cfg, l, k)
          BY <2>8, <4>1
        <5>2. LastOf(cfg, ReadOf(cfg, n + 1, l, k)) = v
          BY <1>1, <2>2, <2>3, <5>1, OneMoreWord DEF v
        <5>3. QED
          BY <2>9, <3>4, <4>1, <5>2
      <4>2. CASE ~ (l = at[1] /\ k = hkey)
        <5>1. at \notin ValuesIn(cfg, l, k)
          BY <2>8, <4>2
        <5>2. ReadOf(cfg, n + 1, l, k) = ReadOf(cfg, n, l, k)
          BY <1>1, <2>2, <2>3, <5>1, OneMoreWord
        <5>3. RankIn(cfg, l) # linecount \/ k # hkey
          <6>1. RankIn(cfg, l) = RankIn(cfg, at[1]) => l = at[1]
            BY <1>1, <2>3, RanksCount
          <6>2. QED
            BY <2>9, <4>2, <6>1
        <5>4. xyz'[RankIn(cfg, l)][k] = xyz[RankIn(cfg, l)][k]
          BY <3>4, <3>5, <5>3
        <5>5. xyz[RankIn(cfg, l)][k] = LastOf(cfg, ReadOf(cfg, n, l, k))
          BY <3>1, <3>5 DEF EntriesHold
        <5>6. QED
          BY <5>2, <5>4, <5>5
      <4>3. QED
        BY <4>1, <4>2
    <3>6. KeysRead(cfg, n + 1)
      <4>1. SUFFICES ASSUME NEW p \in PlacesIn(cfg), PosOf(cfg, p) < n + 1, PosOf(cfg, p) % 2 = 0
                     PROVE  AtPlace(cfg, p).text \in hostKeys
        BY DEF KeysRead
      <4>2. PosOf(cfg, p) \in Nat /\ PosOf(cfg, p) # n
        BY <1>1, <2>5, <4>1, PlacesApart
      <4>3. PosOf(cfg, p) < n
        BY <4>1, <4>2
      <4>4. QED
        BY <3>1, <4>1, <4>3 DEF EntriesHold, KeysRead
    <3>7. QED
      BY <3>1, <3>4, <3>5, <3>6 DEF EntriesHold
  <2>11. ParseInv'
    <3>1. at' \in (1 .. Len(cfg) + 1) \X (Nat \ {0}) /\ at'[1] <= Len(cfg) /\ at'[2] <= WordsIn(cfg, at'[1]) + 1
      <4>1. Len(cfg) \in Nat /\ WordsIn(cfg, at[1]) \in Nat
        BY <1>1, <2>4, StartsAddUp
      <4>2. QED
        BY <2>1, <2>4, <4>1
    <3>2. hflag' = PosOf(cfg, at') % 2 /\ hflag' # 1
      BY <2>1, <2>3, <2>6
    <3>3. linecount' = RankIn(cfg, at'[1])
      BY <1>1, <2>4 DEF ParseInv
    <3>4. QED
      BY <1>1, <2>3, <2>10, <3>1, <3>2, <3>3 DEF ParseInv
  <2>12. QED
    BY <1>1, <2>1, <2>11 DEF PlanInv
<1>4. QED
  BY <1>2, <1>3

\* The end of a line.
LEMMA ParseLineStep ==
  ASSUME PlanInv, HostParseLine
  PROVE  PlanInv'
<1>1. /\ cfg \in CfgFiles /\ hpc = "parse" /\ ParseInv /\ at[1] <= Len(cfg) /\ at[2] > Len(Words)
      /\ linecount' = linecount + (IF ThisLine.comment THEN 0 ELSE 1) /\ at' = <<at[1] + 1, 1>>
      /\ hpc' = hpc /\ cfg' = cfg /\ hflag' = hflag /\ hkey' = hkey /\ xyz' = xyz
  BY DEF PlanInv, HostParseLine
<1>2. /\ at \in (1 .. Len(cfg) + 1) \X (Nat \ {0}) /\ at[2] <= WordsIn(cfg, at[1]) + 1
      /\ hflag = PosOf(cfg, at) % 2 /\ linecount = RankIn(cfg, at[1])
      /\ EntriesHold(cfg, linecount, xyz, PosOf(cfg, at))
  BY <1>1 DEF ParseInv
<1> DEFINE l == at[1]
           w == at[2]
<1>3. Len(cfg) \in Nat /\ l \in 1 .. Len(cfg) /\ w \in Nat \ {0}
  BY <1>1, <1>2, StartsAddUp
<1>4. /\ WordsIn(cfg, l) \in Nat /\ StartOf(cfg, l) \in Nat /\ StartOf(cfg, l + 1) = StartOf(cfg, l) + WordsIn(cfg, l)
      /\ RankIn(cfg, l) \in Nat /\ RankIn(cfg, l + 1) = RankIn(cfg, l) + IF cfg[l].comment THEN 0 ELSE 1
  BY <1>1, <1>3, StartsAddUp, RanksCount
<1>5. w = WordsIn(cfg, l) + 1
  <2>1. Len(<<>>) = 0
    OBVIOUS
  <2>2. Len(Words) = WordsIn(cfg, l)
    BY <2>1 DEF Words, ThisLine, WordsIn
  <2>3. QED
    BY <1>1, <1>2, <1>3, <1>4, <2>2
<1>6. PosOf(cfg, at) = StartOf(cfg, l + 1) /\ PosOf(cfg, at') = StartOf(cfg, l + 1)
  <2>1. PosOf(cfg, at) = w - 1 + StartOf(cfg, l)
    BY DEF PosOf
  <2>2. PosOf(cfg, at') = 1 - 1 + StartOf(cfg, l + 1)
    BY <1>1 DEF PosOf
  <2> HIDE DEF l, w
  <2>3. QED
    BY <1>4, <1>5, <2>1, <2>2
<1>7. linecount' = RankIn(cfg, l + 1)
  BY <1>1, <1>2, <1>4 DEF ThisLine
<1>8. \A i \in 0 .. linecount' - 1 : \E m \in LinesIn(cfg) : RankIn(cfg, m) = i
  <2> SUFFICES ASSUME NEW i \in 0 .. linecount' - 1 PROVE \E m \in LinesIn(cfg) : RankIn(cfg, m) = i
    OBVIOUS
  <2>1. CASE i \in 0 .. linecount - 1
    BY <1>2, <2>1 DEF EntriesHold
  <2>2. CASE i \notin 0 .. linecount - 1
    <3>1. ~ cfg[l].comment /\ i = RankIn(cfg, l)
      <4>1. CASE cfg[l].comment
        BY <1>1, <2>2, <1>2, <1>4, <4>1 DEF ThisLine
      <4>2. CASE ~ cfg[l].comment
        <5>1. linecount' = linecount + 1 /\ linecount \in Nat
          BY <1>1, <1>2, <1>4, <4>2 DEF ThisLine
        <5>2. i = linecount
          BY <2>2, <5>1
        <5>3. QED
          BY <1>2, <4>2, <5>2
      <4>3. QED
        BY <4>1, <4>2
    <3>2. l \in LinesIn(cfg)
      BY <1>3, <3>1 DEF LinesIn
    <3>3. QED
      BY <3>1, <3>2
  <2>3. QED
    BY <2>1, <2>2
<1>9. EntriesHold(cfg, linecount', xyz, PosOf(cfg, at'))
  BY <1>2, <1>6, <1>8 DEF EntriesHold
<1>10. at' \in (1 .. Len(cfg) + 1) \X (Nat \ {0}) /\ at'[1] = l + 1 /\ at'[2] = 1
  BY <1>1, <1>3
<1>11. IF at'[1] <= Len(cfg) THEN at'[2] <= WordsIn(cfg, at'[1]) + 1 ELSE at'[2] = 1
  <2>1. CASE l + 1 <= Len(cfg)
    <3>1. l + 1 \in 1 .. Len(cfg)
      BY <1>3, <2>1
    <3>2. WordsIn(cfg, l + 1) \in Nat
      BY <1>1, <3>1, StartsAddUp
    <3>3. QED
      BY <1>10, <2>1, <3>2
  <2>2. QED
    BY <1>10, <2>1
<1>12. hflag' = PosOf(cfg, at') % 2 /\ linecount' = RankIn(cfg, at'[1])
  BY <1>1, <1>2, <1>6, <1>7, <1>10
<1>13. hflag' = 1 => hkey' \in hostKeys /\ \E q \in PlacesIn(cfg) : PosOf(cfg, q) + 1 = PosOf(cfg, at') /\ AtPlace(cfg, q).text = hkey'
  BY <1>1, <1>6 DEF ParseInv
<1> HIDE DEF l, w
<1>14. ParseInv'
  BY <1>1, <1>9, <1>10, <1>11, <1>12, <1>13 DEF ParseInv
<1>15. QED
  BY <1>1, <1>14 DEF PlanInv

\* The end of the file.
LEMMA ParseEndStep ==
  ASSUME PlanInv, HostParseEnd
  PROVE  PlanInv'
<1>1. /\ cfg \in CfgFiles /\ hpc = "parse" /\ ParseInv /\ at[1] > Len(cfg)
      /\ hpc' = (IF linecount > MAX_NUM_THREADS THEN "overrun" ELSE "Ipc_start")
      /\ cfg' = cfg /\ linecount' = linecount /\ xyz' = xyz
  BY DEF PlanInv, HostParseEnd, parsed
<1>2. /\ at \in (1 .. Len(cfg) + 1) \X (Nat \ {0}) /\ at[2] = 1 /\ linecount = RankIn(cfg, at[1])
      /\ EntriesHold(cfg, linecount, xyz, PosOf(cfg, at)) /\ Len(cfg) \in Nat
  BY <1>1, StartsAddUp DEF ParseInv
<1>3. at[1] = Len(cfg) + 1
  BY <1>1, <1>2
<1>4. StartOf(cfg, Len(cfg) + 1) \in Nat /\ RankIn(cfg, Len(cfg) + 1) \in Nat
  BY <1>1, <1>2, StartsAddUp, RanksCount
<1>5. PosOf(cfg, at) = StartOf(cfg, Len(cfg) + 1)
  BY <1>2, <1>3, <1>4 DEF PosOf
<1>6. hpc' = "Ipc_start" => linecount <= MAX_NUM_THREADS
  BY <1>1, <1>2, <1>3, <1>4, HostSetupAssumption
<1>7. linecount = RankIn(cfg, Len(cfg) + 1) /\ EntriesHold(cfg, linecount, xyz, StartOf(cfg, Len(cfg) + 1))
  BY <1>2, <1>3, <1>5
<1>8. QED
  BY <1>1, <1>6, <1>7 DEF PlanInv

\* Every step: past the parser, nothing that it has made changes.
LEMMA PlanNext ==
  ASSUME PlanInv, [HostSetupNext]_hostVars
  PROVE  PlanInv'
<1>1. CASE HostParseKey
  BY <1>1, ParseKeyStep
<1>2. CASE HostParseValue
  BY <1>2, ParseValueStep
<1>3. CASE HostParseLine
  BY <1>3, ParseLineStep
<1>4. CASE HostParseEnd
  BY <1>4, ParseEndStep
<1>5. CASE /\ cfg' = cfg /\ linecount' = linecount /\ xyz' = xyz
           /\ hpc \notin {"parse", "overrun", "returned"}
           /\ hpc' # "parse"
  BY <1>5 DEF PlanInv
<1>6. CASE IpcStart \/ MxInitialize \/ DrmOpen \/ OmapDeviceNew \/ ComputeBo \/ ComputeMap \/ InBufBo \/ InBufMap
  BY <1>5, <1>6 DEF IpcStart, MxInitialize, DrmOpen, OmapDeviceNew, ComputeBo, ComputeMap, InBufBo, InBufMap, Acquire, parsed
<1>7. CASE MmRpcUse \/ MmRpcCall \/ HostTest \/ Leave
  BY <1>5, <1>7 DEF MmRpcUse, MmRpcCall, HostTest, Leave, parsed
<1>8. CASE UNCHANGED hostVars
  BY <1>8 DEF PlanInv, ParseInv, hostVars
<1>9. CASE HostTooManyTokens
  BY <1>9 DEF PlanInv, HostTooManyTokens, parsed
<1>10. QED
  BY <1>1, <1>2, <1>3, <1>4, <1>6, <1>7, <1>8, <1>9 DEF HostSetupNext

\* A set of numbers with a bound has a largest one.
LEMMA LargestNumber ==
  ASSUME NEW T \in SUBSET Nat, T # {}, NEW b \in Nat, \A x \in T : x <= b
  PROVE  Max(T) \in T /\ \A x \in T : x <= Max(T)
<1> DEFINE U == {u \in Nat : \A x \in T : x <= u}
<1>1. PICK u \in U : \A v \in U : u <= v
  <2>1. U \in SUBSET Nat /\ U # {}
    OBVIOUS
  <2> HIDE DEF U
  <2>2. QED
    BY <2>1, LeastNumber
<1>2. u \in Nat /\ \A x \in T : x <= u
  OBVIOUS
<1>3. u \in T
  <2>1. SUFFICES ASSUME u \notin T PROVE FALSE
    OBVIOUS
  <2>2. PICK y \in T : TRUE
    OBVIOUS
  <2>3. u - 1 \in Nat /\ \A x \in T : x <= u - 1
    BY <1>2, <2>1, <2>2
  <2>4. u - 1 \in U /\ ~ (u <= u - 1)
    BY <1>2, <2>3
  <2> HIDE DEF U
  <2>5. QED
    BY <1>1, <2>4
<1>4. \E m \in T : \A x \in T : m >= x
  BY <1>2, <1>3
<1>5. Max(T) \in T /\ \A x \in T : Max(T) >= x
  BY <1>4 DEF Max
<1>6. QED
  BY <1>5

\* The words of a line as the property has them.
LEMMA LineWords ==
  ASSUME cfg \in CfgFiles, NEW l \in 1 .. Len(cfg)
  PROVE  /\ Len(WordsOf(l)) = WordsIn(cfg, l) /\ WordsIn(cfg, l) \in Nat
         /\ DOMAIN WordsOf(l) = 1 .. WordsIn(cfg, l)
         /\ WordsOf(l) = <<>> <=> WordsIn(cfg, l) = 0
         /\ \A w \in 1 .. WordsIn(cfg, l) :
              <<l, w>> \in PlacesIn(cfg) /\ AtPlace(cfg, <<l, w>>) = WordsOf(l)[w]
<1> DEFINE W == [text : STRING, value : Int]
           R == [comment : BOOLEAN, tokens : Nat, words : Seq(W)]
<1>1. cfg[l] \in R
  <2>1. cfg \in Seq(R)
    BY CfgFilesAssumption
  <2> HIDE DEF R
  <2>2. QED
    BY <2>1
<1>2. WordsOf(l) \in Seq(W)
  <2>1. cfg[l].words \in Seq(W)
    BY <1>1
  <2> HIDE DEF W, R
  <2>2. <<>> \in Seq(W)
    OBVIOUS
  <2>3. QED
    BY <2>1, <2>2 DEF WordsOf
<1> HIDE DEF W, R
<1>3. Len(WordsOf(l)) = WordsIn(cfg, l)
  <2>1. Len(<<>>) = 0
    OBVIOUS
  <2>2. QED
    BY <2>1 DEF WordsOf, WordsIn
<1>4. WordsIn(cfg, l) \in Nat /\ DOMAIN WordsOf(l) = 1 .. WordsIn(cfg, l) /\ (WordsOf(l) = <<>> <=> WordsIn(cfg, l) = 0)
  BY <1>2, <1>3, EmptySeq, LenProperties
<1>5. ASSUME NEW w \in 1 .. WordsIn(cfg, l)
      PROVE  <<l, w>> \in PlacesIn(cfg) /\ AtPlace(cfg, <<l, w>>) = WordsOf(l)[w]
  <2>1. w \in Nat \ {0} /\ w <= WordsIn(cfg, l)
    BY <1>4
  <2>2. ~ cfg[l].comment
    BY <2>1 DEF WordsIn
  <2>3. QED
    BY <2>1, <2>2 DEF PlacesIn, AtPlace, WordsOf
<1>6. QED
  BY <1>3, <1>4, <1>5

\* Behind the first word of the file, every word has one before it, on its line or at
\* the end of the last line before it that has any.
LEMMA WordBefore ==
  ASSUME cfg \in CfgFiles, NEW l \in 1 .. Len(cfg), StartOf(cfg, l) > 0
  PROVE  \E m \in 1 .. l - 1 :
           /\ WordsIn(cfg, m) # 0 /\ StartOf(cfg, m) + WordsIn(cfg, m) = StartOf(cfg, l)
           /\ \A n \in m + 1 .. l - 1 : WordsIn(cfg, n) = 0
<1>1. /\ Len(cfg) \in Nat /\ StartOf(cfg, 1) = 0
      /\ \A n \in 1 .. Len(cfg) : StartOf(cfg, n) \in Nat /\ WordsIn(cfg, n) \in Nat /\ StartOf(cfg, n + 1) = StartOf(cfg, n) + WordsIn(cfg, n)
  <2>1. \A n \in 1 .. Len(cfg) : n \in 1 .. Len(cfg) + 1
    BY StartsAddUp
  <2>2. QED
    BY <2>1, StartsAddUp
<1> DEFINE T == {n \in 1 .. l : StartOf(cfg, n) = StartOf(cfg, l)}
<1>2. PICK n \in T : \A t \in T : n <= t
  <2>1. T \in SUBSET Nat /\ l \in T
    BY <1>1
  <2> HIDE DEF T
  <2>2. QED
    BY <2>1, LeastNumber
<1>3. n \in 1 .. l /\ StartOf(cfg, n) = StartOf(cfg, l)
  OBVIOUS
<1>4. n # 1
  BY <1>1, <1>3
<1> DEFINE m == n - 1
<1>5. m \in 1 .. l - 1 /\ m \in 1 .. Len(cfg) /\ m + 1 = n /\ ~ (n <= m)
  BY <1>1, <1>3, <1>4
<1>6. m \notin T
  <2> HIDE DEF T, m
  <2>1. QED
    BY <1>2, <1>5
<1>7. StartOf(cfg, m) # StartOf(cfg, l) /\ StartOf(cfg, m + 1) = StartOf(cfg, l)
  <2>1. m \in 1 .. l
    BY <1>1, <1>5
  <2> HIDE DEF m
  <2>2. QED
    BY <1>3, <1>5, <1>6, <2>1
<1> HIDE DEF m, T
<1>8. WordsIn(cfg, m) # 0 /\ StartOf(cfg, m) + WordsIn(cfg, m) = StartOf(cfg, l)
  BY <1>1, <1>5, <1>7
<1>9. ASSUME NEW k \in m + 1 .. l - 1 PROVE WordsIn(cfg, k) = 0
  <2>1. /\ k \in 1 .. Len(cfg) /\ k \in 1 .. Len(cfg) + 1 /\ k + 1 \in 1 .. Len(cfg) + 1 /\ l \in 1 .. Len(cfg) + 1
        /\ m + 1 \in 1 .. Len(cfg) + 1 /\ m + 1 <= k /\ k + 1 <= l
    BY <1>1, <1>5
  <2>2. StartOf(cfg, m + 1) <= StartOf(cfg, k) /\ StartOf(cfg, k + 1) <= StartOf(cfg, l)
    BY <2>1, StartsGrow
  <2>3. QED
    BY <1>1, <1>7, <2>1, <2>2
<1>10. QED
  BY <1>5, <1>8, <1>9

\* A value other than 0 is that of a word directly behind its key.
LEMMA ValuesSaid ==
  ASSUME cfg \in CfgFiles, NEW l \in 1 .. Len(cfg), NEW k,
         LastOf(cfg, ValuesIn(cfg, l, k)) # 0
  PROVE  SaidOn(l, k, LastOf(cfg, ValuesIn(cfg, l, k)))
<1> DEFINE V == ValuesIn(cfg, l, k)
           p == CHOOSE p \in V : \A q \in V : q[2] <= p[2]
           v == LastOf(cfg, V)
<1>1. V # {} /\ v = AtPlace(cfg, p).value
  BY DEF LastOf
<1>2. \A q \in V : q \in PlacesIn(cfg) /\ q[1] = l /\ q[2] \in Nat /\ q[2] <= WordsIn(cfg, l)
  BY DEF ValuesIn, PlacesIn
<1>3. p \in V
  <2> DEFINE T == {q[2] : q \in V}
  <2>1. T \in SUBSET Nat /\ T # {} /\ \A x \in T : x <= WordsIn(cfg, l)
    BY <1>1, <1>2
  <2>2. WordsIn(cfg, l) \in Nat
    BY LineWords
  <2>3. \E x \in T : \A y \in T : y <= x
    <3> HIDE DEF T
    <3>1. QED
      BY <2>1, <2>2, LargestNumber
  <2>4. \E q \in V : \A r \in V : r[2] <= q[2]
    BY <2>3
  <2> HIDE DEF V
  <2>5. QED
    BY <2>4
<1>4. p \in PlacesIn(cfg) /\ p[1] = l /\ PosOf(cfg, p) % 2 = 1 /\ KeyIn(cfg, p) = k
  <2> HIDE DEF p
  <2>1. QED
    BY <1>3 DEF ValuesIn
<1> HIDE DEF p, v, V
<1> DEFINE w == p[2]
<1>5. w \in 1 .. WordsIn(cfg, l) /\ p = <<l, w>> /\ WordsIn(cfg, l) \in Nat /\ StartOf(cfg, l) \in Nat
  <2>1. l \in 1 .. Len(cfg) + 1
    BY StartsAddUp
  <2>2. QED
    BY <1>4, <2>1, LineWords, StartsAddUp DEF PlacesIn
<1>6. v = WordsOf(l)[w].value
  BY <1>1, <1>5, LineWords
<1>7. PosOf(cfg, p) = w - 1 + StartOf(cfg, l)
  BY <1>4 DEF PosOf
<1> HIDE DEF w
<1>8. CASE w = 1
  <2>1. StartOf(cfg, l) > 0
    <3>1. StartOf(cfg, l) % 2 = 1
      BY <1>4, <1>5, <1>7, <1>8
    <3>2. QED
      BY <1>5, <3>1
  <2>2. PICK m \in 1 .. l - 1 : /\ WordsIn(cfg, m) # 0 /\ StartOf(cfg, m) + WordsIn(cfg, m) = StartOf(cfg, l)
                               /\ \A n \in m + 1 .. l - 1 : WordsIn(cfg, n) = 0
    BY <2>1, WordBefore
  <2>3. /\ m \in 1 .. Len(cfg) /\ m \in 1 .. Len(cfg) + 1 /\ \A n \in m + 1 .. l - 1 : n \in 1 .. Len(cfg)
    BY StartsAddUp
  <2>4. StartOf(cfg, m) \in Nat /\ WordsIn(cfg, m) \in Nat /\ WordsIn(cfg, m) \in 1 .. WordsIn(cfg, m)
    BY <2>2, <2>3, StartsAddUp
  <2> DEFINE q == <<m, WordsIn(cfg, m)>>
  <2>5. q \in PlacesIn(cfg) /\ AtPlace(cfg, q) = WordsOf(m)[WordsIn(cfg, m)]
    BY <2>3, <2>4, LineWords
  <2>6. PosOf(cfg, q) + 1 = PosOf(cfg, p)
    <3>1. PosOf(cfg, q) = WordsIn(cfg, m) - 1 + StartOf(cfg, m)
      BY DEF PosOf
    <3> HIDE DEF q
    <3>2. QED
      BY <1>5, <1>7, <1>8, <2>2, <2>4, <3>1
  <2>7. WordsOf(m)[Len(WordsOf(m))].text = k
    <3>1. KeyIn(cfg, p) = AtPlace(cfg, q).text
      BY <2>5, <2>6, KeyBefore
    <3>2. QED
      BY <1>4, <2>3, <2>5, <3>1, LineWords
  <2>8. WordsOf(m) # <<>> /\ \A n \in m + 1 .. l - 1 : WordsOf(n) = <<>>
    BY <2>2, <2>3, LineWords
  <2>9. WordsOf(l) # <<>>
    BY <1>5, LineWords
  <2>10. QED
    BY <1>6, <1>8, <2>7, <2>8, <2>9 DEF SaidOn, EndsBefore, v, V
<1>9. CASE w # 1
  <2> DEFINE q == <<l, w - 1>>
  <2>1. w - 1 \in 1 .. WordsIn(cfg, l)
    BY <1>5, <1>9
  <2>2. q \in PlacesIn(cfg) /\ AtPlace(cfg, q) = WordsOf(l)[w - 1]
    BY <2>1, LineWords
  <2>3. PosOf(cfg, q) + 1 = PosOf(cfg, p)
    <3>1. PosOf(cfg, q) = (w - 1) - 1 + StartOf(cfg, l)
      BY DEF PosOf
    <3> HIDE DEF q
    <3>2. QED
      BY <1>5, <1>7, <3>1
  <2>4. WordsOf(l)[w - 1].text = k
    BY <1>4, <2>2, <2>3, KeyBefore
  <2>5. w \in Behind(WordsOf(l), k)
    BY <1>5, <2>1, <2>4, LineWords DEF Behind
  <2>6. QED
    BY <1>6, <2>5 DEF SaidOn, v, V
<1>10. QED
  BY <1>8, <1>9

\* In a file whose every other word is a key, a line of pairs begins with a key, so its
\* values are the words behind its keys.
LEMMA PairsRead ==
  ASSUME cfg \in CfgFiles, NEW l \in 1 .. Len(cfg), NEW k \in hostKeys,
         KeysRead(cfg, StartOf(cfg, Len(cfg) + 1)), Pairs(WordsOf(l))
  PROVE  LastOf(cfg, ValuesIn(cfg, l, k)) = AskedOf(WordsOf(l), k)
<1> DEFINE words == WordsOf(l)
           n == WordsIn(cfg, l)
           start == StartOf(cfg, l)
<1>1. /\ n \in Nat /\ DOMAIN words = 1 .. n /\ start \in Nat
      /\ \A w \in 1 .. n : <<l, w>> \in PlacesIn(cfg) /\ AtPlace(cfg, <<l, w>>) = words[w]
  <2>1. l \in 1 .. Len(cfg) + 1
    BY StartsAddUp
  <2>2. QED
    BY <2>1, LineWords, StartsAddUp
<1>2. \A w : PosOf(cfg, <<l, w>>) = w - 1 + start
  BY DEF PosOf
<1>3. \A w \in 1 .. n : (w - 1 + start) % 2 = 0 => IsKey(words[w])
  <2>1. SUFFICES ASSUME NEW w \in 1 .. n, (w - 1 + start) % 2 = 0 PROVE words[w].text \in hostKeys
    BY DEF IsKey
  <2>2. <<l, w>> \in PlacesIn(cfg) /\ PosOf(cfg, <<l, w>>) % 2 = 0 /\ AtPlace(cfg, <<l, w>>) = words[w]
    BY <1>1, <1>2, <2>1
  <2>3. PosOf(cfg, <<l, w>>) < StartOf(cfg, Len(cfg) + 1)
    <3>1. /\ Len(cfg) \in Nat /\ l + 1 \in 1 .. Len(cfg) + 1 /\ Len(cfg) + 1 \in 1 .. Len(cfg) + 1 /\ l + 1 <= Len(cfg) + 1
      BY StartsAddUp
    <3>2. StartOf(cfg, l + 1) <= StartOf(cfg, Len(cfg) + 1)
      BY <3>1, StartsGrow
    <3>3. StartOf(cfg, l + 1) = start + n /\ StartOf(cfg, Len(cfg) + 1) \in Nat
      BY <3>1, StartsAddUp
    <3> HIDE DEF words, n, start
    <3>4. QED
      BY <1>1, <1>2, <3>2, <3>3
  <2>4. QED
    BY <2>2, <2>3 DEF KeysRead
<1>4. \A w \in 1 .. n : IF IsKey(words[w]) THEN w + 1 \in 1 .. n /\ ~ IsKey(words[w + 1])
                       ELSE w - 1 \in 1 .. n /\ IsKey(words[w - 1])
  BY <1>1 DEF Pairs
<1> HIDE DEF words, n, start
<1>5. n # 0 => start % 2 = 0
  <2>1. SUFFICES ASSUME n # 0, start % 2 # 0 PROVE FALSE
    OBVIOUS
  <2>2. 1 \in 1 .. n
    BY <1>1, <2>1
  <2>3. 2 \in 1 .. n /\ ~ IsKey(words[2])
    BY <1>1, <1>4, <2>2
  <2>4. (2 - 1 + start) % 2 = 0
    BY <1>1, <2>1
  <2>5. QED
    BY <1>3, <2>3, <2>4
<1>6. ASSUME NEW w \in 1 .. n
      PROVE  (w - 1 + start) % 2 = 1 <=> w - 1 \in 1 .. n /\ IsKey(words[w - 1])
  <2>1. start % 2 = 0
    BY <1>1, <1>5
  <2>2. CASE (w - 1 + start) % 2 = 1
    <3>1. w - 1 \in 1 .. n /\ ((w - 1) - 1 + start) % 2 = 0
      BY <1>1, <2>1, <2>2
    <3>2. QED
      BY <1>3, <2>2, <3>1
  <2>3. CASE (w - 1 + start) % 2 # 1
    <3>1. (w - 1 + start) % 2 = 0
      BY <1>1, <2>3
    <3>2. IsKey(words[w])
      BY <1>3, <3>1
    <3>3. ASSUME w - 1 \in 1 .. n, IsKey(words[w - 1]) PROVE FALSE
      <4>1. (w - 1) + 1 = w
        BY <1>1
      <4>2. QED
        BY <1>4, <3>2, <3>3, <4>1
    <3>4. QED
      BY <2>3, <3>3
  <2>4. QED
    BY <2>2, <2>3
<1>7. \A p : p \in ValuesIn(cfg, l, k) <=> \E w \in Behind(words, k) : p = <<l, w>>
  <2>1. ASSUME NEW w \in 1 .. n, w - 1 \in 1 .. n PROVE KeyIn(cfg, <<l, w>>) = words[w - 1].text
    <3>1. PosOf(cfg, <<l, w - 1>>) + 1 = PosOf(cfg, <<l, w>>)
      BY <1>1, <1>2
    <3>2. QED
      BY <1>1, <2>1, <3>1, KeyBefore
  <2>2. ASSUME NEW p \in ValuesIn(cfg, l, k) PROVE \E w \in Behind(words, k) : p = <<l, w>>
    <3>1. p \in PlacesIn(cfg) /\ p[1] = l /\ PosOf(cfg, p) % 2 = 1 /\ KeyIn(cfg, p) = k
      BY DEF ValuesIn
    <3>2. PICK w \in 1 .. n : p = <<l, w>>
      <4>1. p[2] \in Nat \ {0} /\ p[2] <= n /\ p = <<l, p[2]>>
        BY <3>1 DEF PlacesIn, n
      <4>2. QED
        BY <1>1, <4>1
    <3>3. w - 1 \in 1 .. n
      BY <1>2, <1>6, <3>1, <3>2
    <3>4. words[w - 1].text = k
      BY <2>1, <3>1, <3>2, <3>3
    <3>5. QED
      BY <1>1, <3>2, <3>3, <3>4 DEF Behind
  <2>3. ASSUME NEW w \in Behind(words, k) PROVE <<l, w>> \in ValuesIn(cfg, l, k)
    <3>1. w \in 1 .. n /\ w - 1 \in 1 .. n /\ words[w - 1].text = k
      BY <1>1 DEF Behind
    <3>2. IsKey(words[w - 1])
      BY <3>1 DEF IsKey
    <3>3. PosOf(cfg, <<l, w>>) % 2 = 1
      BY <1>2, <1>6, <3>1, <3>2
    <3>4. QED
      BY <1>1, <2>1, <3>1, <3>3 DEF ValuesIn
  <2>4. QED
    BY <2>2, <2>3
<1> DEFINE B == Behind(words, k)
           V == ValuesIn(cfg, l, k)
<1>8. B \in SUBSET Nat /\ \A w \in B : w <= n /\ w \in 1 .. n
  BY <1>1 DEF Behind
<1>9. CASE B = {}
  <2>1. V = {}
    BY <1>7, <1>9
  <2>2. QED
    BY <1>9, <2>1 DEF LastOf, AskedOf, words
<1>10. CASE B # {}
  <2> DEFINE M == Max(B)
  <2>1. M \in B /\ \A w \in B : w <= M
    <3> HIDE DEF B
    <3>1. QED
      BY <1>1, <1>8, <1>10, LargestNumber
  <2>2. <<l, M>> \in V /\ \A q \in V : q[2] <= <<l, M>>[2]
    <3> HIDE DEF M
    <3>1. QED
      BY <1>7, <2>1
  <2>3. \A p \in V : (\A q \in V : q[2] <= p[2]) => p = <<l, M>>
    <3> SUFFICES ASSUME NEW p \in V, \A q \in V : q[2] <= p[2] PROVE p = <<l, M>>
      OBVIOUS
    <3>1. PICK w \in B : p = <<l, w>>
      BY <1>7
    <3> HIDE DEF B, V, M
    <3>2. M <= w /\ w <= M
      BY <2>1, <2>2, <3>1
    <3>3. w \in Nat /\ M \in Nat
      BY <1>8, <2>1, <3>1
    <3>4. QED
      BY <3>1, <3>2, <3>3
  <2>4. (CHOOSE p \in V : \A q \in V : q[2] <= p[2]) = <<l, M>>
    <3> HIDE DEF V, M
    <3>1. QED
      BY <2>2, <2>3
  <2>5. LastOf(cfg, V) = AtPlace(cfg, <<l, M>>).value
    <3> HIDE DEF M
    <3>1. V # {}
      BY <2>2
    <3>2. QED
      BY <2>4, <3>1 DEF LastOf
  <2>6. AtPlace(cfg, <<l, M>>) = words[M]
    <3> HIDE DEF M
    <3>1. QED
      BY <1>1, <1>8, <2>1
  <2>7. AskedOf(words, k) = words[M].value
    BY <1>10 DEF AskedOf
  <2>8. QED
    BY <2>5, <2>6, <2>7 DEF words
<1>11. QED
  BY <1>9, <1>10

\* What the test is run with is what the file asks for.
LEMMA PlanGood ==
  ASSUME PlanInv
  PROVE  PlanAsAsked
<1> SUFFICES ASSUME hpc = "test"
             PROVE  /\ linecount = Cardinality(HostLines)
                    /\ \A i \in DOMAIN pThrConfig, k \in hostKeys :
                         /\ Pairs(WordsOf(LineOf(i))) => pThrConfig[i][k] = AskedOf(WordsOf(LineOf(i)), k)
                         /\ pThrConfig[i][k] # 0 => SaidOn(LineOf(i), k, pThrConfig[i][k])
                    /\ LET parts == SumOver(payloadSize, DOMAIN pThrConfig)
                       IN (\A i \in DOMAIN pThrConfig : payloadSize[i] % 4 = 0) /\ parts < UIntSize => parts <= bufferPtrSize
  BY DEF PlanAsAsked
<1>1. /\ cfg \in CfgFiles /\ linecount = RankIn(cfg, Len(cfg) + 1) /\ linecount <= MAX_NUM_THREADS
      /\ EntriesHold(cfg, linecount, xyz, StartOf(cfg, Len(cfg) + 1))
  BY DEF PlanInv
<1>2. HostLines = LinesIn(cfg) /\ \A l \in LinesIn(cfg) : l \in 1 .. Len(cfg)
  BY DEF HostLines, LinesIn
<1>3. linecount = Cardinality(HostLines) /\ linecount \in Nat
  <2>1. Len(cfg) \in Nat
    BY <1>1, StartsAddUp
  <2>2. RankIn(cfg, Len(cfg) + 1) = Cardinality(LinesIn(cfg)) /\ RankIn(cfg, Len(cfg) + 1) \in Nat
    BY <1>1, <2>1, RanksCount
  <2>3. QED
    BY <1>1, <1>2, <2>2
<1>4. DOMAIN pThrConfig = 0 .. linecount - 1 /\ \A i \in 0 .. linecount - 1 : i \in Entries /\ pThrConfig[i] = xyz[i]
  BY <1>1, <1>3, HostSetupAssumption DEF pThrConfig, Entries
<1>5. ASSUME NEW i \in 0 .. linecount - 1, NEW k \in hostKeys
      PROVE  /\ Pairs(WordsOf(LineOf(i))) => pThrConfig[i][k] = AskedOf(WordsOf(LineOf(i)), k)
             /\ pThrConfig[i][k] # 0 => SaidOn(LineOf(i), k, pThrConfig[i][k])
  <2>1. LineOf(i) \in LinesIn(cfg) /\ RankIn(cfg, LineOf(i)) = i
    <3>1. \E l \in LinesIn(cfg) : RankIn(cfg, l) = i
      BY <1>1 DEF EntriesHold
    <3>2. QED
      BY <1>2, <3>1 DEF LineOf, RankIn
  <2>2. xyz[i][k] = LastOf(cfg, ReadOf(cfg, StartOf(cfg, Len(cfg) + 1), LineOf(i), k))
    BY <1>1, <1>4, <2>1 DEF EntriesHold
  <2>3. ReadOf(cfg, StartOf(cfg, Len(cfg) + 1), LineOf(i), k) = ValuesIn(cfg, LineOf(i), k)
    BY <1>1, AllRead
  <2>4. pThrConfig[i][k] = LastOf(cfg, ValuesIn(cfg, LineOf(i), k)) /\ LineOf(i) \in 1 .. Len(cfg)
    BY <1>2, <1>4, <2>1, <2>2, <2>3
  <2>5. KeysRead(cfg, StartOf(cfg, Len(cfg) + 1))
    BY <1>1 DEF EntriesHold
  <2>6. QED
    BY <1>1, <2>4, <2>5, PairsRead, ValuesSaid
<1>6. ASSUME \A i \in DOMAIN pThrConfig : payloadSize[i] % 4 = 0, SumOver(payloadSize, DOMAIN pThrConfig) < UIntSize
      PROVE  SumOver(payloadSize, DOMAIN pThrConfig) <= bufferPtrSize
  <2> DEFINE S == 0 .. linecount - 1
             f == [i \in S |-> pThrConfig[i].msgSize % UIntSize]
  <2>1. IsFiniteSet(S)
    BY <1>3, FS_Interval
  <2>2. \A i \in S : f[i] \in Nat /\ f[i] % 4 = 0
    <3>1. xyz \in [Entries -> [hostKeys -> Int]]
      BY <1>1 DEF EntriesHold
    <3>2. "msgSize" \in hostKeys
      BY DEF hostKeys
    <3>3. \A i \in S : xyz[i]["msgSize"] \in Int
      <4> HIDE DEF hostKeys, Entries
      <4>1. QED
        BY <1>4, <3>1, <3>2
    <3>4. \A i \in S : f[i] = payloadSize[i] /\ f[i] = xyz[i]["msgSize"] % UIntSize
      BY <1>4 DEF payloadSize
    <3>5. \A x \in Int : x % UIntSize \in Nat
      BY HostSetupAssumption
    <3> HIDE DEF f, S
    <3>6. QED
      BY <1>4, <1>6, <3>3, <3>4, <3>5 DEF S
  <2>3. SumOver(payloadSize, DOMAIN pThrConfig) = Sum(f, S)
    <3>1. payloadSize = f
      BY <1>4 DEF payloadSize
    <3> HIDE DEF f
    <3>2. QED
      BY <1>4, <3>1 DEF SumOver, Sum, FoldSet, MapThenFoldSet
  <2> HIDE DEF f, S
  <2> DEFINE t == Sum(f, S)
  <2>4. t \in Nat /\ t % 4 = 0 /\ t < UIntSize
    BY <1>6, <2>1, <2>2, <2>3, SumOfWords
  <2>5. totalReqPayloadSize = t % UIntSize
    BY <2>3 DEF totalReqPayloadSize
  <2> HIDE DEF t
  <2>6. t % UIntSize = t
    BY <2>4, HostSetupAssumption
  <2>7. bufferPtrSize = 4 * (t \div 4)
    BY <2>5, <2>6 DEF bufferPtrSize
  <2>8. t <= 4 * (t \div 4)
    BY <2>4
  <2>9. QED
    BY <2>3, <2>7, <2>8 DEF t
<1>7. QED
  BY <1>3, <1>4, <1>5, <1>6

\* Safety, PlanAsAsked: for every cfg file that main gets through without leaving its
\* arrays, each line that is no comment is one thread, in order; a line of keys
\* with a number behind each has the last number of every key, whatever the
\* other lines are; any other value than 0 is that of a word behind its key; and
\* the buffer has room for parts of whole words whose sum does not wrap (main,
\* the strtok loops, add_key_value).
THEOREM HostPlanAsAsked == HostSetupSpec => []PlanAsAsked
<1>1. HostSetupInit => PlanInv
  BY PlanInit
<1>2. PlanInv /\ [HostSetupNext]_hostVars => PlanInv'
  BY PlanNext
<1>3. PlanInv => PlanAsAsked
  BY PlanGood
<1>4. QED
  BY <1>1, <1>2, <1>3, PTL DEF HostSetupSpec

=============================================================================
