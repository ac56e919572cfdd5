--------------------------- MODULE TataLetak_proofs ---------------------------
(***************************************************************************)
(* The layout of a procedure of any length, in any lanes, with any         *)
(* decisions, laid out with any hash of the edges: the bounded propagation *)
(* is complete, no two shapes share a place, and a lane is read from left  *)
(* to right.                                                               *)
(*                                                                         *)
(* The passes are folds and recursive functions.  That such a definition   *)
(* has the value its equation says is shown here for any rank its          *)
(* arguments descend by, from induction over sets of natural numbers.      *)
(***************************************************************************)
EXTENDS TataLetak, FiniteSetTheorems, TLAPS

-----------------------------------------------------------------------------
(***************************************************************************)
(* Induction and recursion.                                                *)
(***************************************************************************)

\* A set of natural numbers that has 0 and every successor has them all.
LEMMA InduksiHimpunan ==
  ASSUME NEW T \in SUBSET Nat, 0 \in T, \A i \in T : i + 1 \in T
  PROVE  T = Nat
<1>1. SUFFICES ASSUME NEW x \in Nat, x \notin T PROVE FALSE
  OBVIOUS
<1> DEFINE C == {s \in FiniteSubsetsOf(Nat) : \E i \in Nat \ T : s = 0 .. i}
<1> DEFINE R == StrictSubsetOrdering(Nat)
<1>2. IsWellFoundedOn(R, FiniteSubsetsOf(Nat))
  BY FS_StrictSubsetOrderingWellFounded
<1>3. \A i \in Nat \ T : 0 .. i \in C
  BY FS_Interval DEF FiniteSubsetsOf
<1>4. C \subseteq FiniteSubsetsOf(Nat) /\ C # {}
  BY <1>1, <1>3
<1>5. PICK s \in C : \A y \in C : ~(<<y, s>> \in R)
  <2> HIDE DEF C, R
  <2> QED BY <1>2, <1>4, WFMin
<1>6. PICK m \in Nat \ T : s = 0 .. m
  OBVIOUS
<1>7. m - 1 \in Nat \ T
  BY <1>6
<1>8. 0 .. (m - 1) \in C
  BY <1>3, <1>7
<1>9. 0 .. (m - 1) \subseteq 0 .. m /\ 0 .. (m - 1) # 0 .. m /\ 0 .. m \subseteq Nat
  BY <1>6
<1>10. <<0 .. (m - 1), s>> \in R
  BY <1>6, <1>9 DEF StrictSubsetOrdering
<1> QED
  BY <1>5, <1>8, <1>10

\* What holds of an element as soon as it holds of all of lower rank, holds of all.
LEMMA InduksiPangkat ==
  ASSUME NEW S, NEW r \in [S -> Nat], NEW B \in SUBSET S,
         \A x \in S : (\A y \in S : r[y] < r[x] => y \in B) => x \in B
  PROVE  B = S
<1> DEFINE T == {i \in Nat : \A x \in S : r[x] < i => x \in B}
<1>1. 0 \in T
  OBVIOUS
<1>2. ASSUME NEW i \in T PROVE i + 1 \in T
  <2>1. SUFFICES ASSUME NEW x \in S, r[x] < i + 1 PROVE x \in B
    BY <1>2
  <2>2. \A y \in S : r[y] < r[x] => y \in B
    BY <1>2, <2>1
  <2> QED
    BY <2>2
<1>3. T = Nat
  <2> HIDE DEF T
  <2>1. T \in SUBSET Nat
    BY DEF T
  <2> QED
    BY <1>1, <1>2, <2>1, InduksiHimpunan
<1>4. ASSUME NEW x \in S PROVE x \in B
  <2>1. r[x] + 1 \in T /\ r[x] < r[x] + 1
    BY <1>3
  <2> QED
    BY <2>1
<1> QED
  BY <1>4

\* G gives what a function has at x, from what it has at the elements of lower rank.
RekursiTurun(S, r, V, G) ==
    /\ r \in [S -> Nat] /\ \E b \in Nat : \A x \in S : r[x] < b
    /\ V # {}
    /\ G \in [S -> [[S -> V] -> V]]
    /\ \A x \in S : \A f, g \in [S -> V] :
            (\A y \in S : r[y] < r[x] => f[y] = g[y]) => G[x][f] = G[x][g]

\* A recursion that descends by a bounded rank has a solution.
LEMMA RekursiAda ==
  ASSUME NEW S, NEW r, NEW V, NEW G, RekursiTurun(S, r, V, G)
  PROVE  \E k \in [S -> V] : \A x \in S : k[x] = G[x][k]
<1> USE DEF RekursiTurun
<1> DEFINE T == {i \in Nat : \E f \in [S -> V] : \A x \in S : r[x] < i => f[x] = G[x][f]}
<1>1. 0 \in T
  <2>0. PICK v \in V : TRUE
    OBVIOUS
  <2>1. [x \in S |-> v] \in [S -> V] /\ \A x \in S : ~(r[x] < 0)
    OBVIOUS
  <2>2. \E f \in [S -> V] : \A x \in S : r[x] < 0 => f[x] = G[x][f]
    BY <2>1
  <2> QED
    BY <2>2
<1>2. ASSUME NEW i \in T PROVE i + 1 \in T
  <2>1. PICK f \in [S -> V] : \A x \in S : r[x] < i => f[x] = G[x][f]
    BY <1>2
  <2> DEFINE g == [x \in S |-> IF r[x] < i THEN f[x] ELSE G[x][f]]
  <2>2. g \in [S -> V]
    OBVIOUS
  <2>3. ASSUME NEW x \in S, r[x] < i + 1 PROVE g[x] = G[x][g]
    <3>1. g[x] = G[x][f]
      BY <2>1
    <3>2. \A y \in S : r[y] < r[x] => f[y] = g[y]
      BY <1>2, <2>3
    <3> HIDE DEF g
    <3>3. G[x][f] = G[x][g]
      BY <2>2, <3>2
    <3> QED
      BY <3>1, <3>3
  <2> HIDE DEF g
  <2> QED
    BY <1>2, <2>2, <2>3
<1>3. T = Nat
  <2> HIDE DEF T
  <2>1. T \in SUBSET Nat
    BY DEF T
  <2> QED
    BY <1>1, <1>2, <2>1, InduksiHimpunan
<1>4. PICK b \in Nat : \A x \in S : r[x] < b
  OBVIOUS
<1>5. b \in T
  BY <1>3
<1> QED
  BY <1>4, <1>5

-----------------------------------------------------------------------------
(***************************************************************************)
(* Finite sets of numbers and folds.                                       *)
(***************************************************************************)

\* The values of a function on a finite set are finitely many.
LEMMA CitraHingga ==
  ASSUME NEW S, IsFiniteSet(S), NEW f
  PROVE  IsFiniteSet({f[x] : x \in S})
<1> DEFINE T == {f[x] : x \in S}
<1> DEFINE g == [x \in S |-> f[x]]
<1>1. g \in Surjection(S, T)
  BY DEF Surjection
<1> HIDE DEF g, T
<1>2. IsFiniteSet(T)
  BY <1>1, FS_Surjection
<1> QED
  BY <1>2 DEF T

\* A finite set of natural numbers that is not empty has a greatest element.
LEMMA TerbesarSifat ==
  ASSUME NEW S \in SUBSET Nat, IsFiniteSet(S), S # {}
  PROVE  /\ Terbesar(S) \in S
         /\ \A j \in S : j <= Terbesar(S)
<1> DEFINE T == {i \in Nat : \A f \in [1 .. i -> Nat] :
                    i = 0 \/ \E x \in 1 .. i : \A y \in 1 .. i : f[y] <= f[x]}
<1>1. 0 \in T
  OBVIOUS
<1>2. ASSUME NEW i \in T PROVE i + 1 \in T
  <2>0. i \in Nat /\ \A f \in [1 .. i -> Nat] :
            i = 0 \/ \E x \in 1 .. i : \A y \in 1 .. i : f[y] <= f[x]
    BY <1>2
  <2>1. ASSUME NEW f \in [1 .. i + 1 -> Nat]
        PROVE  \E x \in 1 .. i + 1 : \A y \in 1 .. i + 1 : f[y] <= f[x]
    <3>1. CASE i = 0
      BY <3>1
    <3>2. CASE i # 0
      <4> DEFINE g == [x \in 1 .. i |-> f[x]]
      <4>1. g \in [1 .. i -> Nat]
        BY <2>0
      <4>2. PICK x \in 1 .. i : \A y \in 1 .. i : g[y] <= g[x]
        <5> HIDE DEF g
        <5> QED BY <2>0, <3>2, <4>1
      <4>3. x \in 1 .. i + 1 /\ i + 1 \in 1 .. i + 1
        BY <2>0
      <4>4. \A y \in 1 .. i + 1 : y = i + 1 \/ y \in 1 .. i
        BY <2>0
      <4>5. CASE f[i + 1] <= f[x]
        BY <4>2, <4>3, <4>4, <4>5
      <4>6. CASE f[i + 1] > f[x]
        <5>1. \A y \in 1 .. i : f[y] <= f[x] /\ f[y] \in Nat
          BY <2>0, <4>2
        <5>2. \A y \in 1 .. i + 1 : f[y] <= f[i + 1]
          BY <4>3, <4>4, <4>6, <5>1
        <5> QED
          BY <4>3, <5>2
      <4> QED
        BY <4>3, <4>5, <4>6
    <3> QED
      BY <3>1, <3>2
  <2>2. \A f \in [1 .. i + 1 -> Nat] :
            i + 1 = 0 \/ \E x \in 1 .. i + 1 : \A y \in 1 .. i + 1 : f[y] <= f[x]
    BY <2>1
  <2>3. i + 1 \in Nat
    BY <2>0
  <2> QED
    BY <2>2, <2>3
<1>3. T = Nat
  <2> HIDE DEF T
  <2>1. T \in SUBSET Nat
    BY DEF T
  <2> QED
    BY <1>1, <1>2, <2>1, InduksiHimpunan
<1>4. PICK c \in Nat : ExistsBijection(1 .. c, S)
  BY FS_NatBijection
<1>5. PICK f \in Bijection(1 .. c, S) : TRUE
  BY <1>4 DEF ExistsBijection
<1>6. /\ f \in [1 .. c -> Nat]
      /\ \A j \in S : \E y \in 1 .. c : f[y] = j
      /\ \A y \in 1 .. c : f[y] \in S
  BY <1>5 DEF Bijection, Surjection, Injection
<1>7. c # 0
  <2>1. 1 .. 0 = {}
    OBVIOUS
  <2> QED
    BY <1>6, <2>1
<1>8. PICK x \in 1 .. c : \A y \in 1 .. c : f[y] <= f[x]
  <2>1. c \in T
    BY <1>3
  <2> QED
    BY <1>6, <1>7, <2>1
<1>9. f[x] \in S /\ \A j \in S : j <= f[x]
  BY <1>6, <1>8
<1> QED
  BY <1>9 DEF Terbesar

\* The numbers 1 .. i as a fold meets them.
LEMMA AwalanMax ==
  ASSUME NEW m \in Nat, NEW i \in 1 .. m
  PROVE  /\ 1 .. i \in SUBSET (1 .. m) /\ 1 .. i # {}
         /\ Max(1 .. i) = i
         /\ (1 .. i) \ {i} = 1 .. (i - 1)
         /\ 1 .. (i - 1) \in SUBSET (1 .. m)
<1>1. i \in 1 .. i /\ \A y \in 1 .. i : i >= y
  OBVIOUS
<1>2. \A x \in 1 .. i : (\A y \in 1 .. i : x >= y) => x = i
  BY <1>1
<1> QED
  BY <1>1, <1>2 DEF Max

\* A set of positions is finite and no larger than the last position.
LEMMA BagianHingga ==
  ASSUME NEW m \in Nat, NEW t \in SUBSET (1 .. m)
  PROVE  IsFiniteSet(t) /\ Cardinality(t) \in Nat /\ Cardinality(t) < m + 1
<1>1. IsFiniteSet(1 .. m) /\ Cardinality(1 .. m) = m
  BY FS_Interval
<1>2. IsFiniteSet(t) /\ Cardinality(t) <= Cardinality(1 .. m)
  BY <1>1, FS_Subset
<1>3. Cardinality(t) \in Nat
  BY <1>2, FS_CardinalityType
<1> QED
  BY <1>1, <1>2, <1>3

\* A set of positions that is not empty has a last one.
LEMMA MaxSifat ==
  ASSUME NEW m \in Nat, NEW t \in SUBSET (1 .. m), t # {}
  PROVE  Max(t) \in t
<1>1. IsFiniteSet(t)
  BY BagianHingga
<1>2. Terbesar(t) \in t /\ \A j \in t : j <= Terbesar(t)
  BY <1>1, TerbesarSifat
<1>3. \E x \in t : \A y \in t : x >= y
  BY <1>2
<1> QED
  BY <1>3 DEF Max

\* Induction up to a bound.
LEMMA InduksiSampai ==
  ASSUME NEW m \in Nat, NEW B, 0 \in B, \A i \in 1 .. m : i - 1 \in B => i \in B
  PROVE  \A i \in 0 .. m : i \in B
<1> DEFINE T == {i \in Nat : i <= m => i \in B}
<1>1. 0 \in T
  OBVIOUS
<1>2. ASSUME NEW i \in T PROVE i + 1 \in T
  BY <1>2
<1>3. T = Nat
  <2> HIDE DEF T
  <2>1. T \in SUBSET Nat
    BY DEF T
  <2> QED
    BY <1>1, <1>2, <2>1, InduksiHimpunan
<1> QED
  BY <1>3

\* A fold over 1 .. m from k, by steps that stay in V.
LipatTutup(m, V, k, langkah) == m \in Nat /\ k \in V /\ langkah \in [1 .. m -> [V -> V]]

\* g has what the fold over each set of positions computes.
Lipatan(m, k, langkah, g) ==
    \A t \in SUBSET (1 .. m) :
        g[t] = IF t = {} THEN k ELSE langkah[Max(t)][g[t \ {Max(t)}]]

\* What a fold computes exists, for any step that stays in a set.
LEMMA LipatAda ==
  ASSUME NEW m, NEW V, NEW k, NEW langkah, LipatTutup(m, V, k, langkah)
  PROVE  \E g \in [SUBSET (1 .. m) -> V] : Lipatan(m, k, langkah, g)
<1>0. m \in Nat /\ k \in V /\ langkah \in [1 .. m -> [V -> V]]
  BY DEF LipatTutup
<1> DEFINE S == SUBSET (1 .. m)
<1> DEFINE r == [t \in S |-> Cardinality(t)]
<1> DEFINE G == [t \in S |-> [f \in [S -> V] |->
                    IF t = {} THEN k ELSE langkah[Max(t)][f[t \ {Max(t)}]]]]
<1>1. \A t \in S : IsFiniteSet(t) /\ Cardinality(t) \in Nat /\ Cardinality(t) < m + 1
  BY <1>0, BagianHingga
<1>2. \A t \in S : t # {} => Max(t) \in t /\ Max(t) \in 1 .. m /\ t \ {Max(t)} \in S
  BY <1>0, MaxSifat
<1>3. \A t \in S : t # {} => r[t \ {Max(t)}] < r[t]
  BY <1>1, <1>2, FS_RemoveElement
<1>4. r \in [S -> Nat] /\ \A t \in S : r[t] < m + 1
  BY <1>1
<1>5. G \in [S -> [[S -> V] -> V]]
  <2>1. ASSUME NEW t \in S, NEW f \in [S -> V], t # {}
        PROVE  langkah[Max(t)][f[t \ {Max(t)}]] \in V
    <3>1. f[t \ {Max(t)}] \in V
      BY <1>2, <2>1
    <3> QED
      BY <1>0, <1>2, <2>1, <3>1
  <2> QED
    BY <1>0, <2>1
<1>6. \A t \in S : \A f, g \in [S -> V] :
        (\A y \in S : r[y] < r[t] => f[y] = g[y]) => G[t][f] = G[t][g]
  BY <1>2, <1>3
<1>7. \A t \in S : \A f \in [S -> V] :
        G[t][f] = IF t = {} THEN k ELSE langkah[Max(t)][f[t \ {Max(t)}]]
  OBVIOUS
<1>8. \E g \in [S -> V] : \A t \in S : g[t] = G[t][g]
  <2> HIDE DEF S, r, G
  <2>1. V # {} /\ \E b \in Nat : \A t \in S : r[t] < b
    <3>1. m + 1 \in Nat
      BY <1>0
    <3> QED
      BY <1>0, <1>4, <3>1
  <2>2. RekursiTurun(S, r, V, G)
    BY <1>4, <1>5, <1>6, <2>1 DEF RekursiTurun
  <2> QED
    BY <2>2, RekursiAda
<1> HIDE DEF G, S, r
<1>9. \E g \in [S -> V] : \A t \in S :
        g[t] = IF t = {} THEN k ELSE langkah[Max(t)][g[t \ {Max(t)}]]
  <2>1. PICK g \in [S -> V] : \A t \in S : g[t] = G[t][g]
    BY <1>8
  <2>2. \A t \in S : g[t] = IF t = {} THEN k ELSE langkah[Max(t)][g[t \ {Max(t)}]]
    BY <1>7, <2>1
  <2> QED
    BY <2>2
<1> QED
  BY <1>9 DEF S, Lipatan

-----------------------------------------------------------------------------
(***************************************************************************)
(* Shapes and edges.                                                       *)
(***************************************************************************)

\* A row of a procedure of n rows.
Baris == [lajur : Nat, jenis : {"task", "decision"}, ya : 0 .. n, tidak : 0 .. n]

\* The procedure is one the editor can hold, and the seed one a reset can give.
ProsedurSah ==
    /\ n \in 1 .. MaxBaris
    /\ baris \in [1 .. n -> Baris]
    /\ seed \in 0 .. MaxSeed

SisiSah == [dari : 0 .. n, ke : 1 .. n + 1, label : 0 .. 2]

\* Every edge joins two shapes, and two edges never leave a shape with one label.
LEMMA SisiSifat ==
  ASSUME ProsedurSah
  PROVE  /\ SemuaSisi \subseteq SisiSah
         /\ \A e, f \in SemuaSisi : e.dari = f.dari /\ e.label = f.label => e = f
         /\ SemuaSisi # {}
<1>1. n \in Nat \ {0} /\ n \in 1 .. n /\ 1 \in 1 .. n
  BY BatasAssumption DEF ProsedurSah
<1>2. \A x \in 1 .. n : baris[x] \in Baris
  BY DEF ProsedurSah
<1>3. \A f, t, l : Sisi(f, t, l) = [dari |-> f, ke |-> t, label |-> l]
  BY DEF Sisi
<1>4. \A x \in 1 .. n : Jenis(x) = baris[x].jenis
  BY DEF Jenis
<1>5. ASSUME NEW e \in SisiBaris
      PROVE  /\ e.dari \in 1 .. n /\ e \in SisiSah
             /\ \/ e.label = 1 /\ e.ke = baris[e.dari].ya /\ Jenis(e.dari) = "decision"
                \/ e.label = 2 /\ e.ke = baris[e.dari].tidak /\ Jenis(e.dari) = "decision"
                \/ /\ e.label = 0 /\ Jenis(e.dari) = "task"
                   /\ e.ke = IF baris[e.dari].ya # 0 THEN baris[e.dari].ya ELSE e.dari + 1
  <2>1. CASE \E x \in 1 .. n : /\ Jenis(x) = "decision" /\ baris[x].ya # 0
                               /\ e = Sisi(x, baris[x].ya, 1)
    BY <1>1, <1>2, <1>3, <2>1 DEF Baris, SisiSah
  <2>2. CASE \E x \in 1 .. n : /\ Jenis(x) = "decision" /\ baris[x].tidak # 0
                               /\ e = Sisi(x, baris[x].tidak, 2)
    BY <1>1, <1>2, <1>3, <2>2 DEF Baris, SisiSah
  <2>3. CASE \E x \in 1 .. n - 1 : /\ Jenis(x) = "task" /\ baris[x].ya = 0
                                   /\ e = Sisi(x, x + 1, 0)
    BY <1>1, <1>3, <2>3 DEF SisiSah
  <2>4. CASE \E x \in 1 .. n : /\ Jenis(x) = "task" /\ baris[x].ya # 0
                               /\ e = Sisi(x, baris[x].ya, 0)
    BY <1>1, <1>2, <1>3, <2>4 DEF Baris, SisiSah
  <2> QED
    BY <2>1, <2>2, <2>3, <2>4 DEF SisiBaris
<1>6. ASSUME NEW e \in SemuaSisi
      PROVE  \/ e = Sisi(0, 1, 0)
             \/ e \in SisiBaris
             \/ \E x \in 1 .. n : e = Sisi(x, Akhir, 0) /\ \A f \in SisiBaris : f.dari # x
  BY DEF SemuaSisi
<1>7. SemuaSisi \subseteq SisiSah
  BY <1>1, <1>3, <1>5, <1>6 DEF SisiSah, Akhir
<1>8. ASSUME NEW e \in SemuaSisi, NEW f \in SemuaSisi, e.dari = f.dari, e.label = f.label
      PROVE  e = f
  <2>1. e.ke = f.ke
    BY <1>1, <1>3, <1>5, <1>6, <1>8
  <2>2. e \in SisiSah /\ f \in SisiSah
    BY <1>7, <1>8
  <2> QED
    BY <1>8, <2>1, <2>2 DEF SisiSah
<1>9. Sisi(0, 1, 0) \in SemuaSisi
  BY DEF SemuaSisi
<1> QED
  BY <1>7, <1>8, <1>9

LEMMA SisiHingga ==
  ASSUME ProsedurSah
  PROVE  /\ IsFiniteSet(SemuaSisi)
         /\ Cardinality(SemuaSisi) \in Nat \ {0}
<1> DEFINE T == (0 .. n) \X (0 .. 2)
<1> DEFINE f == [e \in SemuaSisi |-> <<e.dari, e.label>>]
<1>1. IsFiniteSet(T)
  <2>1. n \in Nat
    BY BatasAssumption DEF ProsedurSah
  <2>2. IsFiniteSet(0 .. n)
    BY <2>1, FS_Interval
  <2>3. IsFiniteSet(0 .. 2)
    <3>1. PICK c \in Nat : c = 2
      OBVIOUS
    <3>2. IsFiniteSet(0 .. c)
      BY FS_Interval
    <3> QED
      BY <3>1, <3>2
  <2> QED
    BY <2>2, <2>3, FS_Product
<1>2. f \in [SemuaSisi -> T]
  BY SisiSifat DEF SisiSah
<1>3. \A e, g \in SemuaSisi : f[e] = f[g] => e = g
  BY SisiSifat
<1>4. f \in Injection(SemuaSisi, T)
  BY <1>2, <1>3 DEF Injection, IsInjective
<1>5. IsFiniteSet(SemuaSisi)
  <2> HIDE DEF T, f
  <2> QED
    BY <1>1, <1>4, FS_Injection
<1> QED
  BY <1>5, SisiSifat, FS_CardinalityType, FS_EmptySet

-----------------------------------------------------------------------------
(***************************************************************************)
(* The order of the edges.                                                 *)
(***************************************************************************)

\* sortConnectionsForRouting compares by span, label, direction of a Tidak, hash and
\* place in the list: a strict total order, whatever the hash is.
LEMMA MendahuluiUrut ==
  ASSUME ProsedurSah
  PROVE  /\ \A e \in SemuaSisi : ~Mendahului(e, e)
         /\ \A e, f \in SemuaSisi : e # f => Mendahului(e, f) \/ Mendahului(f, e)
         /\ \A e, f, g \in SemuaSisi : Mendahului(e, f) /\ Mendahului(f, g) => Mendahului(e, g)
<1> DEFINE balik(e) == e.label = 2 /\ e.ke < e.dari
<1>1. n \in Nat /\ n <= MaxBaris /\ MaxBaris \in Nat
  BY BatasAssumption DEF ProsedurSah
<1>2. ASSUME NEW e \in SemuaSisi
      PROVE  /\ e \in SisiSah /\ e.dari \in Int /\ e.ke \in Int /\ e.label \in Int
             /\ Rentang(e) \in Int
             /\ Sidik(seed, e) \in Int
             /\ UrutanDaftar(e) = IF e.ke = n + 1 THEN n + 1 + e.dari ELSE e.dari
  <2>1. e \in SisiSah
    BY SisiSifat
  <2>2. e \in SisiMungkin
    BY <1>1, <2>1 DEF SisiSah, SisiMungkin
  <2>3. Sidik(seed, e) \in Nat
    BY <2>2, SidikAssumption DEF ProsedurSah
  <2>4. e.dari \in Int /\ e.ke \in Int /\ e.label \in Int
    BY <1>1, <2>1 DEF SisiSah
  <2> QED
    BY <2>1, <2>3, <2>4 DEF Rentang, UrutanDaftar, Akhir
<1>3. \A e, f \in SemuaSisi :
        Mendahului(e, f) <=>
            \/ Rentang(e) > Rentang(f)
            \/ /\ Rentang(e) = Rentang(f)
               /\ \/ e.label > f.label
                  \/ /\ e.label = f.label
                     /\ \/ balik(e) /\ ~balik(f)
                        \/ /\ balik(e) <=> balik(f)
                           /\ \/ Sidik(seed, e) < Sidik(seed, f)
                              \/ Sidik(seed, e) = Sidik(seed, f) /\ UrutanDaftar(e) < UrutanDaftar(f)
  BY DEF Mendahului
<1>4. \A e, f \in SemuaSisi : e.dari = f.dari /\ e.label = f.label => e = f
  BY SisiSifat
<1>5. \A e \in SemuaSisi : UrutanDaftar(e) \in Int
  BY <1>1, <1>2
<1>6. ASSUME NEW e \in SemuaSisi, NEW f \in SemuaSisi, UrutanDaftar(e) = UrutanDaftar(f),
             e.label = f.label
      PROVE  e = f
  <2>1. e.dari \in 0 .. n /\ f.dari \in 0 .. n
    BY <1>2 DEF SisiSah
  <2>2. e.dari = f.dari
    BY <1>1, <1>2, <1>6, <2>1
  <2> QED
    BY <1>4, <1>6, <2>2
<1> HIDE DEF balik
<1>7. \A e, f \in SemuaSisi : e # f => Mendahului(e, f) \/ Mendahului(f, e)
  BY <1>2, <1>3, <1>5, <1>6
<1> QED
  BY <1>2, <1>3, <1>5, <1>7

\* kiri has what comes before each element of a finite set, in a strict total order.
UrutTotal(S, kiri) ==
    /\ IsFiniteSet(S) /\ S # {} /\ kiri \in [S -> SUBSET S]
    /\ \A x \in S : x \notin kiri[x] /\ \A y \in kiri[x] : kiri[y] \subseteq kiri[x]
    /\ \A x, y \in S : x # y => x \in kiri[y] \/ y \in kiri[x]

\* Counting what comes before gives every element a place of its own, and takes them all.
LEMMA UrutTempat ==
  ASSUME NEW S, NEW kiri, UrutTotal(S, kiri)
  PROVE  /\ Cardinality(S) \in Nat \ {0}
         /\ \A x \in S : Cardinality(kiri[x]) \in 0 .. Cardinality(S) - 1
         /\ \A x, y \in S : Cardinality(kiri[x]) = Cardinality(kiri[y]) => x = y
         /\ \A i \in 0 .. Cardinality(S) - 1 : \E x \in S : Cardinality(kiri[x]) = i
<1> DEFINE m == Cardinality(S)
<1> DEFINE r == [x \in S |-> Cardinality(kiri[x])]
<1>1. /\ IsFiniteSet(S) /\ \A x \in S : kiri[x] \subseteq S /\ x \notin kiri[x]
      /\ \A x \in S : \A y \in kiri[x] : kiri[y] \subseteq kiri[x]
      /\ \A x, y \in S : x # y => x \in kiri[y] \/ y \in kiri[x]
  BY DEF UrutTotal
<1>2. m \in Nat \ {0}
  <2>1. m \in Nat
    BY <1>1, FS_CardinalityType
  <2>2. m # 0
    BY <1>1, FS_EmptySet DEF UrutTotal
  <2> QED
    BY <2>1, <2>2
<1>3. ASSUME NEW x \in S
      PROVE  IsFiniteSet(kiri[x]) /\ r[x] \in 0 .. m - 1
  <2>1. IsFiniteSet(kiri[x]) /\ Cardinality(kiri[x]) <= m /\ Cardinality(kiri[x]) # m
    BY <1>1, FS_Subset
  <2>2. Cardinality(kiri[x]) \in Nat
    BY <2>1, FS_CardinalityType
  <2> HIDE DEF m
  <2> QED
    BY <1>2, <2>1, <2>2
<1>4. ASSUME NEW x \in S, NEW y \in kiri[x]
      PROVE  r[y] # r[x]
  <2>1. kiri[y] \subseteq kiri[x] /\ y \notin kiri[y] /\ y \in S
    BY <1>1
  <2>2. kiri[y] # kiri[x]
    BY <2>1
  <2>3. Cardinality(kiri[y]) # Cardinality(kiri[x])
    BY <1>3, <2>1, <2>2, FS_Subset
  <2> QED
    BY <2>1, <2>3
<1>5. \A x, y \in S : r[x] = r[y] => x = y
  <2> HIDE DEF r
  <2> QED
    BY <1>1, <1>4
<1>6. r \in [S -> 0 .. m - 1]
  BY <1>3
<1>7. r \in Injection(S, 0 .. m - 1)
  <2> HIDE DEF r, m
  <2> QED
    BY <1>5, <1>6 DEF Injection, IsInjective
<1>8. IsFiniteSet(0 .. m - 1) /\ Cardinality(0 .. m - 1) = m
  <2>1. m - 1 \in Int /\ ~(0 > m - 1) /\ (m - 1) - 0 + 1 = m
    BY <1>2
  <2> HIDE DEF m
  <2> QED
    BY <1>2, <2>1, FS_Interval
<1>9. r \in Surjection(S, 0 .. m - 1)
  <2> HIDE DEF r
  <2> QED
    BY <1>1, <1>7, <1>8, FS_Injection
<1>10. \A i \in 0 .. m - 1 : \E x \in S : r[x] = i
  <2> HIDE DEF r
  <2> QED
    BY <1>9 DEF Surjection
<1> QED
  BY <1>2, <1>3, <1>5, <1>10

\* Every edge has a place of its own in the order, and the places are all taken.
LEMMA TempatSisi ==
  ASSUME ProsedurSah
  PROVE  /\ \A e \in SemuaSisi :
                Cardinality({f \in SemuaSisi : Mendahului(f, e)})
                    \in 0 .. Cardinality(SemuaSisi) - 1
         /\ \A e, g \in SemuaSisi :
                Cardinality({f \in SemuaSisi : Mendahului(f, e)})
                    = Cardinality({f \in SemuaSisi : Mendahului(f, g)}) => e = g
         /\ \A i \in 0 .. Cardinality(SemuaSisi) - 1 :
                \E e \in SemuaSisi : Cardinality({f \in SemuaSisi : Mendahului(f, e)}) = i
<1> DEFINE S == SemuaSisi
<1> DEFINE kiri == [e \in S |-> {f \in S : Mendahului(f, e)}]
<1>1. \A e \in S : kiri[e] = {f \in S : Mendahului(f, e)}
  OBVIOUS
<1>2. \A e, f \in S : f \in kiri[e] <=> Mendahului(f, e)
  OBVIOUS
<1>3. IsFiniteSet(S) /\ S # {}
  BY SisiHingga, SisiSifat
<1>4. kiri \in [S -> SUBSET S]
  OBVIOUS
<1> HIDE DEF kiri
<1>5. UrutTotal(S, kiri)
  <2>1. \A e \in S : e \notin kiri[e]
    BY <1>2, MendahuluiUrut
  <2>2. \A e \in S : \A f \in kiri[e] : kiri[f] \subseteq kiri[e]
    <3>1. SUFFICES ASSUME NEW e \in S, NEW f \in kiri[e], NEW g \in kiri[f]
                   PROVE  g \in kiri[e]
      OBVIOUS
    <3>2. f \in S /\ g \in S
      BY <1>4
    <3> QED
      BY <1>2, <3>1, <3>2, MendahuluiUrut
  <2>3. \A e, f \in S : e # f => e \in kiri[f] \/ f \in kiri[e]
    BY <1>2, MendahuluiUrut
  <2> QED
    BY <1>3, <1>4, <2>1, <2>2, <2>3 DEF UrutTotal
<1>6. /\ \A e \in S : Cardinality(kiri[e]) \in 0 .. Cardinality(S) - 1
      /\ \A e, g \in S : Cardinality(kiri[e]) = Cardinality(kiri[g]) => e = g
      /\ \A i \in 0 .. Cardinality(S) - 1 : \E e \in S : Cardinality(kiri[e]) = i
  <2> HIDE DEF S
  <2> QED
    BY <1>5, UrutTempat
<1>7. \A e \in S : Cardinality({f \in S : Mendahului(f, e)}) = Cardinality(kiri[e])
  BY <1>1
<1> HIDE DEF S
<1>8. \A e \in S : Cardinality({f \in S : Mendahului(f, e)}) \in 0 .. Cardinality(S) - 1
  BY <1>6, <1>7
<1>9. \A e, g \in S : Cardinality({f \in S : Mendahului(f, e)})
                        = Cardinality({f \in S : Mendahului(f, g)}) => e = g
  BY <1>6, <1>7
<1>10. \A i \in 0 .. Cardinality(S) - 1 :
           \E e \in S : Cardinality({f \in S : Mendahului(f, e)}) = i
  BY <1>6, <1>7
<1> QED
  BY <1>8, <1>9, <1>10 DEF S

\* A quotient and a remainder are unique.
LEMMA SisaTunggal ==
  ASSUME NEW m \in Nat, m > 0, NEW a \in 0 .. m - 1, NEW b \in 0 .. m - 1,
         NEW q \in Int, NEW r \in Int, m * q + a = m * r + b
  PROVE  a = b
<1>1. CASE q < r
  <2>1. m * (q + 1) <= m * r
    BY <1>1
  <2>2. m * (q + 1) = m * q + m
    OBVIOUS
  <2> QED
    BY <2>1, <2>2
<1>2. CASE q > r
  <2>1. m * (r + 1) <= m * q
    BY <1>2
  <2>2. m * (r + 1) = m * r + m
    OBVIOUS
  <2> QED
    BY <2>1, <2>2
<1> QED
  BY <1>1, <1>2

LEMMA SisaSifat ==
  ASSUME NEW a \in Nat, NEW m \in Nat, m > 0
  PROVE  /\ a % m \in 0 .. m - 1
         /\ a \div m \in Int
         /\ a = m * (a \div m) + (a % m)
  OBVIOUS

LEMMA SisaTambah ==
  ASSUME NEW a \in Nat, NEW m \in Nat, m > 0
  PROVE  (a + m) % m = a % m
<1> DEFINE c == a + m
<1> DEFINE x == a % m
<1> DEFINE y == c % m
<1> DEFINE q == (a \div m) + 1
<1> DEFINE r == c \div m
<1>1. c \in Nat
  OBVIOUS
<1>2. c = m * r + y /\ r \in Int /\ y \in 0 .. m - 1
  <2> HIDE DEF c
  <2> QED
    BY <1>1, SisaSifat
<1>3. a = m * (a \div m) + x /\ a \div m \in Int /\ x \in 0 .. m - 1
  BY SisaSifat
<1>4. m * q = m * (a \div m) + m /\ q \in Int
  BY <1>3
<1>5. m * q + x = m * r + y
  <2>1. c = a + m
    OBVIOUS
  <2> HIDE DEF c, x, y, q, r
  <2> QED
    BY <1>2, <1>3, <1>4, <2>1
<1>6. x = y
  <2> HIDE DEF c, x, y, q, r
  <2> QED
    BY <1>2, <1>3, <1>4, <1>5, SisaTunggal
<1> QED
  BY <1>6

\* A rotation leaves no place out.
LEMMA PutarPenuh ==
  ASSUME NEW m \in Nat, m > 0, NEW s \in Nat, NEW j \in 1 .. m
  PROVE  \E i \in 1 .. m : ((i - 1 + s) % m) + 1 = j
<1> DEFINE T == {t \in Nat : \A c \in 1 .. m : \E i \in 1 .. m : ((i - 1 + t) % m) + 1 = c}
<1>1. 0 \in T
  <2>1. ASSUME NEW c \in 1 .. m PROVE ((c - 1 + 0) % m) + 1 = c
    <3>1. c - 1 + 0 \in Nat /\ c - 1 + 0 < m
      OBVIOUS
    <3> QED
      BY <3>1
  <2> QED
    BY <2>1
<1>2. ASSUME NEW t \in T PROVE t + 1 \in T
  <2>1. t \in Nat /\ \A c \in 1 .. m : \E i \in 1 .. m : ((i - 1 + t) % m) + 1 = c
    BY <1>2
  <2>2. ASSUME NEW c \in 1 .. m PROVE \E i \in 1 .. m : ((i - 1 + (t + 1)) % m) + 1 = c
    <3>1. PICK i \in 1 .. m : ((i - 1 + t) % m) + 1 = c
      BY <2>1
    <3>2. CASE i = 1
      <4>1. (m - 1 + (t + 1)) = (i - 1 + t) + m /\ i - 1 + t \in Nat
        BY <2>1, <3>2
      <4>2. ((i - 1 + t) + m) % m = (i - 1 + t) % m
        BY <4>1, SisaTambah
      <4>3. ((m - 1 + (t + 1)) % m) + 1 = c
        BY <3>1, <4>1, <4>2
      <4> QED
        BY <4>3
    <3>3. CASE i # 1
      <4>1. i - 1 \in 1 .. m /\ ((i - 1) - 1 + (t + 1)) = i - 1 + t
        BY <2>1, <3>3
      <4> QED
        BY <3>1, <4>1
    <3> QED
      BY <3>2, <3>3
  <2>3. t + 1 \in Nat
    BY <2>1
  <2> QED
    BY <2>2, <2>3
<1>3. T = Nat
  <2> HIDE DEF T
  <2>1. T \in SUBSET Nat
    BY DEF T
  <2> QED
    BY <1>1, <1>2, <2>1, InduksiHimpunan
<1>4. s \in T
  BY <1>3
<1> QED
  BY <1>4

\* The passes are given every edge of the procedure, and no others.
LEMMA UrutKoneksiSifat ==
  ASSUME ProsedurSah
  PROVE  /\ UrutKoneksi \in [1 .. Cardinality(SemuaSisi) -> SemuaSisi]
         /\ \A e \in SemuaSisi : \E i \in DOMAIN UrutKoneksi : UrutKoneksi[i] = e
<1> DEFINE S == SemuaSisi
<1> DEFINE m == Cardinality(S)
<1> DEFINE tempat(e) == Cardinality({f \in S : Mendahului(f, e)})
<1> DEFINE urut == [i \in 1 .. m |-> CHOOSE e \in S : tempat(e) = i - 1]
<1> DEFINE putar(i) == ((i - 1 + seed) % m) + 1
<1>1. m \in Nat /\ m > 0 /\ seed \in Nat
  BY SisiHingga, BatasAssumption DEF ProsedurSah
<1>2. \A i \in 1 .. m : urut[i] \in S /\ tempat(urut[i]) = i - 1
  <2>1. \A i \in 1 .. m : \E e \in S : tempat(e) = i - 1
    <3>1. \A i \in 1 .. m : i - 1 \in 0 .. m - 1
      BY <1>1
    <3> QED
      BY <3>1, TempatSisi
  <2> HIDE DEF tempat
  <2> QED
    BY <2>1
<1>3. \A i \in 1 .. m : putar(i) \in 1 .. m
  <2>1. ASSUME NEW i \in 1 .. m PROVE putar(i) \in 1 .. m
    <3>1. i - 1 + seed \in Nat
      BY <1>1
    <3> HIDE DEF m
    <3> QED
      BY <1>1, <3>1, SisaSifat
  <2> QED
    BY <2>1
<1>4. UrutKoneksi = [i \in 1 .. m |-> urut[putar(i)]]
  BY DEF UrutKoneksi
<1>5. ASSUME NEW e \in S PROVE \E i \in 1 .. m : urut[putar(i)] = e
  <2>1. tempat(e) \in 0 .. m - 1
    BY <1>5, TempatSisi
  <2>2. PICK j \in 1 .. m : tempat(e) = j - 1
    <3> HIDE DEF m, tempat
    <3>1. tempat(e) + 1 \in 1 .. m /\ tempat(e) = (tempat(e) + 1) - 1
      BY <1>1, <2>1
    <3> QED
      BY <3>1
  <2>3. urut[j] = e
    BY <1>2, <1>5, <2>2, TempatSisi
  <2>4. \E i \in 1 .. m : putar(i) = j
    <3> HIDE DEF m
    <3> QED
      BY <1>1, PutarPenuh
  <2> QED
    BY <2>3, <2>4
<1> HIDE DEF urut, putar, m
<1>6. UrutKoneksi \in [1 .. m -> S]
  BY <1>2, <1>3, <1>4
<1>7. \A e \in S : \E i \in DOMAIN UrutKoneksi : UrutKoneksi[i] = e
  BY <1>4, <1>5
<1> QED
  BY <1>6, <1>7 DEF m

-----------------------------------------------------------------------------
(***************************************************************************)
(* The ranks.                                                              *)
(***************************************************************************)
Kolom == [Simpul -> Nat]

\* The edges have been computed.
KoneksiSah ==
    /\ ProsedurSah
    /\ koneksi \in [1 .. Cardinality(SemuaSisi) -> SemuaSisi]
    /\ \A e \in SemuaSisi : \E i \in DOMAIN koneksi : koneksi[i] = e

\* The greatest of finitely many values.
LEMMA TerbesarCitra ==
  ASSUME NEW S, IsFiniteSet(S), S # {}, NEW f, \A x \in S : f[x] \in Nat
  PROVE  /\ Terbesar({f[x] : x \in S}) \in Nat
         /\ \A x \in S : f[x] <= Terbesar({f[x_1] : x_1 \in S})
<1> DEFINE T == {f[x] : x \in S}
<1>1. IsFiniteSet(T)
  BY CitraHingga
<1>2. T \in SUBSET Nat /\ T # {}
  OBVIOUS
<1>3. Terbesar(T) \in T /\ \A j \in T : j <= Terbesar(T)
  <2> HIDE DEF T
  <2> QED
    BY <1>1, <1>2, TerbesarSifat
<1> QED
  BY <1>2, <1>3

\* Which shapes and edges there are.
LEMMA KoneksiSifat ==
  ASSUME KoneksiSah
  PROVE  /\ n \in Nat \ {0} /\ Simpul = 0 .. n + 1 /\ IsFiniteSet(Simpul) /\ Simpul # {}
         /\ Cardinality(SemuaSisi) \in Nat
         /\ DOMAIN koneksi = 1 .. Cardinality(SemuaSisi)
         /\ \A i \in DOMAIN koneksi :
                /\ koneksi[i] \in SemuaSisi /\ koneksi[i] \in SisiSah
                /\ koneksi[i].dari \in Simpul /\ koneksi[i].ke \in Simpul
         /\ Tepi = SemuaSisi
         /\ \A x \in Simpul : Pra(x) \in SUBSET Simpul /\ \A p \in Pra(x) : p < x
<1>1. n \in Nat \ {0}
  BY BatasAssumption DEF KoneksiSah, ProsedurSah
<1>2. Simpul = 0 .. n + 1 /\ Simpul # {}
  BY <1>1 DEF Simpul
<1>3. IsFiniteSet(Simpul)
  <2>1. 0 \in Int /\ n + 1 \in Int
    BY <1>1
  <2> QED
    BY <1>2, <2>1, FS_Interval
<1>4. ProsedurSah
  BY DEF KoneksiSah
<1>5. Cardinality(SemuaSisi) \in Nat /\ SemuaSisi \subseteq SisiSah
  BY <1>4, SisiHingga, SisiSifat
<1>6. DOMAIN koneksi = 1 .. Cardinality(SemuaSisi)
      /\ \A i \in DOMAIN koneksi : koneksi[i] \in SemuaSisi
  BY DEF KoneksiSah
<1>7. \A e \in SemuaSisi : e \in SisiSah /\ e.dari \in Simpul /\ e.ke \in Simpul
  BY <1>1, <1>2, <1>5 DEF SisiSah
<1>8. Tepi = SemuaSisi
  BY <1>6 DEF Tepi, KoneksiSah
<1>9. \A x \in Simpul : Pra(x) \in SUBSET Simpul /\ \A p \in Pra(x) : p < x
  BY <1>7, <1>8 DEF Pra, Maju
<1> QED
  BY <1>1, <1>2, <1>3, <1>5, <1>6, <1>7, <1>8, <1>9

LEMMA LangkahiSifat ==
  \A p, x, d : /\ Langkahi(p, x, d) \in 0 .. 1
               /\ Lajur(p) = Lajur(x) => Langkahi(p, x, d) = 1
  BY DEF Langkahi, ArahLintas

\* The ranking is well defined: a shape is ranked after what it looks at.
LEMMA PangkatTipe ==
  ASSUME KoneksiSah
  PROVE  Pangkat \in Kolom
<1> DEFINE P == [x \in Simpul |-> Pra(x)]
<1> DEFINE maju == [p \in Simpul |-> [x \in Simpul |-> Langkahi(p, x, Arah(p))]]
<1> DEFINE isi(k, x) ==
        IF P[x] # {} THEN Terbesar({k[p] + maju[p][x] : p \in P[x]})
        ELSE IF x > 0 /\ Lajur(x - 1) = Lajur(x) THEN k[x - 1] + 1
        ELSE 0
<1> DEFINE r == [x \in Simpul |-> x]
<1> DEFINE G == [x \in Simpul |-> [k \in [Simpul -> Nat] |-> isi(k, x)]]
<1>1. /\ n \in Nat /\ Simpul = 0 .. n + 1 /\ IsFiniteSet(Simpul)
      /\ \A x \in Simpul : P[x] \in SUBSET Simpul /\ \A p \in P[x] : p < x
  BY KoneksiSifat
<1>2. \A p, x \in Simpul : maju[p][x] \in Nat
  BY LangkahiSifat
<1>3. ASSUME NEW k, NEW x \in Simpul, \A y \in Simpul : y < x => k[y] \in Nat
      PROVE  isi(k, x) \in Nat
  <2>1. CASE P[x] # {}
    <3> DEFINE f == [p \in P[x] |-> k[p] + maju[p][x]]
    <3>1. IsFiniteSet(P[x])
      BY <1>1, FS_Subset
    <3>2. ASSUME NEW p \in P[x] PROVE f[p] \in Nat
      <4>1. p \in Simpul /\ p < x
        BY <1>1, <1>3, <3>2
      <4>2. k[p] \in Nat /\ maju[p][x] \in Nat
        BY <1>2, <1>3, <4>1
      <4> HIDE DEF P, maju
      <4> QED
        BY <3>2, <4>2
    <3>3. Terbesar({f[p] : p \in P[x]}) \in Nat
      <4> HIDE DEF P, f
      <4> QED
        BY <2>1, <3>1, <3>2, TerbesarCitra
    <3>4. {f[p] : p \in P[x]} = {k[p] + maju[p][x] : p \in P[x]}
      OBVIOUS
    <3> QED
      BY <2>1, <3>3, <3>4
  <2>2. CASE P[x] = {} /\ x > 0 /\ Lajur(x - 1) = Lajur(x)
    <3>1. x - 1 \in Simpul /\ x - 1 < x
      BY <1>1, <2>2
    <3> QED
      BY <1>3, <2>2, <3>1
  <2> HIDE DEF P, maju
  <2> QED
    BY <2>1, <2>2
<1>4. G \in [Simpul -> [[Simpul -> Nat] -> Nat]]
  <2> HIDE DEF isi
  <2> QED
    BY <1>3
<1>5. ASSUME NEW x \in Simpul, NEW f \in [Simpul -> Nat], NEW g \in [Simpul -> Nat],
             \A y \in Simpul : y < x => f[y] = g[y]
      PROVE  isi(f, x) = isi(g, x)
  <2>1. {f[p] + maju[p][x] : p \in P[x]} = {g[p] + maju[p][x] : p \in P[x]}
    <3>1. \A p \in P[x] : f[p] = g[p]
      BY <1>1, <1>5
    <3> HIDE DEF P, maju
    <3> QED
      BY <3>1
  <2>2. x > 0 => f[x - 1] = g[x - 1]
    BY <1>1, <1>5
  <2> HIDE DEF P, maju
  <2> QED
    BY <2>1, <2>2
<1>6. RekursiTurun(Simpul, r, Nat, G)
  <2>1. r \in [Simpul -> Nat] /\ \A x \in Simpul : r[x] < n + 2
    BY <1>1
  <2>2. n + 2 \in Nat /\ Nat # {}
    BY <1>1
  <2>3. \A x \in Simpul : \A f, g \in [Simpul -> Nat] :
            (\A y \in Simpul : r[y] < r[x] => f[y] = g[y]) => G[x][f] = G[x][g]
    <3> HIDE DEF isi
    <3> QED
      BY <1>5
  <2> HIDE DEF r, G
  <2> QED
    BY <1>4, <2>1, <2>2, <2>3 DEF RekursiTurun
<1>7. \E k : k = [x \in Simpul |-> isi(k, x)]
  <2>1. PICK k \in [Simpul -> Nat] : \A x \in Simpul : k[x] = G[x][k]
    <3> HIDE DEF G, r
    <3> QED
      BY <1>6, RekursiAda
  <2> HIDE DEF isi
  <2>2. k = [x \in Simpul |-> isi(k, x)]
    BY <2>1
  <2> QED
    BY <2>2
<1>8. Pangkat = CHOOSE k : k = [x \in Simpul |-> isi(k, x)]
  BY DEF Pangkat
<1>9. Pangkat = [x \in Simpul |-> isi(Pangkat, x)]
  <2> HIDE DEF isi
  <2> QED
    BY <1>7, <1>8
<1>10. Pangkat \in [Simpul -> Nat]
  <2> DEFINE B == {x \in Simpul : Pangkat[x] \in Nat}
  <2> HIDE DEF isi
  <2>1. \A x \in Simpul : (\A y \in Simpul : r[y] < r[x] => y \in B) => x \in B
    BY <1>3, <1>9
  <2>2. B = Simpul
    <3>1. r \in [Simpul -> Nat] /\ B \in SUBSET Simpul
      BY <1>1
    <3> HIDE DEF r, B
    <3> QED
      BY <2>1, <3>1, InduksiPangkat
  <2> QED
    BY <1>9, <2>2
<1> QED
  BY <1>10 DEF Kolom

-----------------------------------------------------------------------------
(***************************************************************************)
(* The branches of decisions are pushed to the right.                      *)
(***************************************************************************)

\* One decision leaves every shape with a column, and moves none to the left.
LEMMA GeserSatuTipe ==
  ASSUME KoneksiSah, NEW k \in Kolom, NEW d \in 1 .. n
  PROVE  GeserSatu(k, d) \in Kolom
<1> DEFINE selajur == {i \in Keluar(d) : Lajur(koneksi[i].ke) = Lajur(d)}
<1> DEFINE jarak(i) == 1 + IF i \in selajur THEN Cardinality({j \in selajur : j < i}) ELSE 0
<1> DEFINE ke(x) == {i \in Keluar(d) : koneksi[i].ke = x}
<1> DEFINE M == Cardinality(SemuaSisi)
<1>1. M \in Nat /\ DOMAIN koneksi = 1 .. M
  BY KoneksiSifat
<1>2. Keluar(d) \in SUBSET (1 .. M)
  BY <1>1 DEF Keluar
<1>3. ASSUME NEW i PROVE jarak(i) \in Nat
  <2>1. Cardinality({j \in selajur : j < i}) \in Nat
    <3>1. {j \in selajur : j < i} \in SUBSET (1 .. M)
      BY <1>2
    <3> HIDE DEF M, selajur
    <3> QED
      BY <1>1, <3>1, BagianHingga
  <2> HIDE DEF selajur
  <2> QED
    BY <2>1
<1>4. d \in Simpul /\ k[d] \in Nat
  BY KoneksiSifat DEF Kolom
<1>5. ASSUME NEW x \in Simpul
      PROVE  Terbesar({k[x]} \cup {k[d] + jarak(i) : i \in ke(x)}) \in Nat
  <2> DEFINE f == [i \in ke(x) |-> k[d] + jarak(i)]
  <2> DEFINE T == {f[i] : i \in ke(x)}
  <2>1. IsFiniteSet(ke(x))
    <3>1. ke(x) \in SUBSET (1 .. M)
      BY <1>2
    <3> HIDE DEF M, ke
    <3> QED
      BY <1>1, <3>1, BagianHingga
  <2>2. IsFiniteSet(T)
    <3> HIDE DEF ke, f
    <3> QED
      BY <2>1, CitraHingga
  <2>3. IsFiniteSet(T \cup {k[x]})
    <3> HIDE DEF T
    <3> QED
      BY <2>2, FS_AddElement
  <2>4. \A i \in ke(x) : f[i] \in Nat
    <3> HIDE DEF jarak, ke
    <3> QED
      BY <1>3, <1>4
  <2>5. k[x] \in Nat
    BY <1>5 DEF Kolom
  <2>6. Terbesar(T \cup {k[x]}) \in Nat
    <3>1. T \cup {k[x]} \in SUBSET Nat /\ T \cup {k[x]} # {}
      <4> HIDE DEF f, ke
      <4> QED
        BY <2>4, <2>5
    <3> HIDE DEF T
    <3> QED
      BY <2>3, <3>1, TerbesarSifat
  <2>7. T \cup {k[x]} = {k[x]} \cup {k[d] + jarak(i) : i \in ke(x)}
    <3> HIDE DEF jarak, ke
    <3> QED
      OBVIOUS
  <2> HIDE DEF T, jarak, ke
  <2> QED
    BY <2>6, <2>7
<1>6. GeserSatu(k, d) = IF Jenis(d) # "decision" THEN k
        ELSE [x \in Simpul |-> Terbesar({k[x]} \cup {k[d] + jarak(i) : i \in ke(x)})]
  BY DEF GeserSatu
<1> HIDE DEF jarak, ke
<1> QED
  BY <1>5, <1>6 DEF Kolom

\* The fold over the rows leaves every shape with a column.
LEMMA GeserTipe ==
  ASSUME KoneksiSah, NEW k \in Kolom
  PROVE  FoldLeft(GeserSatu, k, [i \in 1 .. n |-> i]) \in Kolom
<1> DEFINE s == [i \in 1 .. n |-> i]
<1> DEFINE langkah == [i \in 1 .. n |-> [c \in Kolom |-> GeserSatu(c, i)]]
<1>1. n \in Nat
  BY KoneksiSifat
<1>2. langkah \in [1 .. n -> [Kolom -> Kolom]]
  BY GeserSatuTipe
<1>3. PICK g \in [SUBSET (1 .. n) -> Kolom] : Lipatan(n, k, langkah, g)
  <2> HIDE DEF langkah
  <2>1. LipatTutup(n, Kolom, k, langkah)
    BY <1>1, <1>2 DEF LipatTutup
  <2> QED
    BY <2>1, LipatAda
<1> DEFINE Rumus(q) == q = [t \in SUBSET DOMAIN s |->
                                IF t = {} THEN k ELSE GeserSatu(q[t \ {Max(t)}], s[Max(t)])]
<1>4. Rumus(g)
  <2>1. ASSUME NEW t \in SUBSET (1 .. n), t # {}
        PROVE  langkah[Max(t)][g[t \ {Max(t)}]] = GeserSatu(g[t \ {Max(t)}], s[Max(t)])
    <3>1. Max(t) \in 1 .. n /\ t \ {Max(t)} \in SUBSET (1 .. n)
      BY <1>1, <2>1, MaxSifat
    <3> QED
      BY <1>3, <3>1
  <2>2. DOMAIN s = 1 .. n
    OBVIOUS
  <2> HIDE DEF langkah, s
  <2> QED
    BY <1>3, <2>1, <2>2 DEF Lipatan
<1> DEFINE iter == CHOOSE q : Rumus(q)
<1>5. Rumus(iter)
  <2> HIDE DEF Rumus
  <2> QED
    BY <1>4
<1>6. FoldLeft(GeserSatu, k, s) = iter[DOMAIN s]
  BY DEF FoldLeft, MapThenFoldSet
<1> HIDE DEF iter
<1>7. iter[1 .. 0] = k
  BY <1>5
<1>8. ASSUME NEW i \in 1 .. n PROVE iter[1 .. i] = GeserSatu(iter[1 .. (i - 1)], i)
  <2>1. /\ 1 .. i \in SUBSET (1 .. n) /\ 1 .. i # {}
        /\ Max(1 .. i) = i /\ (1 .. i) \ {i} = 1 .. (i - 1)
    BY <1>1, AwalanMax
  <2>2. DOMAIN s = 1 .. n /\ s[i] = i
    OBVIOUS
  <2> HIDE DEF s
  <2> QED
    BY <1>5, <2>1, <2>2
<1>9. \A i \in 0 .. n : iter[1 .. i] \in Kolom
  <2> DEFINE B == {i \in 0 .. n : iter[1 .. i] \in Kolom}
  <2>1. 0 \in B
    BY <1>1, <1>7
  <2>2. \A i \in 1 .. n : i - 1 \in B => i \in B
    BY <1>1, <1>8, GeserSatuTipe
  <2>3. \A i \in 0 .. n : i \in B
    <3> HIDE DEF B
    <3> QED
      BY <1>1, <2>1, <2>2, InduksiSampai
  <2> QED
    BY <2>3
<1>10. n \in 0 .. n /\ DOMAIN s = 1 .. n
  BY <1>1
<1> QED
  BY <1>6, <1>9, <1>10

-----------------------------------------------------------------------------
(***************************************************************************)
(* The propagation.                                                        *)
(***************************************************************************)

\* The advances are those of the runs of the edges.
LompatSah == lompat = [i \in DOMAIN koneksi |->
                        Langkahi(koneksi[i].dari, koneksi[i].ke, Arah(koneksi[i].dari))]

\* The i-th edge has nothing left to push in k.
Puas(k, i) == Maju(koneksi[i]) => k[koneksi[i].ke] >= k[koneksi[i].dari] + lompat[i]

\* An edge moves nothing to the left, and at most its target, when it is not satisfied.
LEMMA DorongSatuSifat ==
  ASSUME KoneksiSah, LompatSah, NEW k \in Kolom, NEW i \in DOMAIN koneksi
  PROVE  /\ DorongSatu(k, i) \in Kolom
         /\ \A x \in Simpul : k[x] <= DorongSatu(k, i)[x]
         /\ \A x \in Simpul : x # koneksi[i].ke => DorongSatu(k, i)[x] = k[x]
         /\ Puas(k, i) => DorongSatu(k, i) = k
         /\ Puas(DorongSatu(k, i), i)
<1> DEFINE e == koneksi[i]
<1>1. e.dari \in Simpul /\ e.ke \in Simpul
  BY KoneksiSifat
<1>2. lompat[i] \in Nat
  BY LangkahiSifat DEF LompatSah
<1>3. k[e.dari] \in Nat /\ k[e.ke] \in Nat /\ \A x \in Simpul : k[x] \in Nat
  BY <1>1 DEF Kolom
<1>4. DorongSatu(k, i) = IF Maju(e) /\ k[e.dari] + lompat[i] > k[e.ke]
                         THEN [k EXCEPT ![e.ke] = k[e.dari] + lompat[i]] ELSE k
  BY DEF DorongSatu
<1>5. Simpul \subseteq Nat /\ (Maju(e) => e.dari # e.ke)
  BY <1>1, KoneksiSifat DEF Maju
<1>6. CASE Maju(e) /\ k[e.dari] + lompat[i] > k[e.ke]
  <2>1. DorongSatu(k, i) = [k EXCEPT ![e.ke] = k[e.dari] + lompat[i]]
    BY <1>4, <1>6
  <2>2. DorongSatu(k, i) \in Kolom
    BY <1>1, <1>2, <1>3, <2>1 DEF Kolom
  <2>3. DorongSatu(k, i)[e.ke] = k[e.dari] + lompat[i]
    BY <1>1, <2>1 DEF Kolom
  <2>4. \A x \in Simpul : x # e.ke => DorongSatu(k, i)[x] = k[x]
    BY <2>1 DEF Kolom
  <2> HIDE DEF e
  <2>5. \A x \in Simpul : k[x] <= DorongSatu(k, i)[x]
    BY <1>2, <1>3, <1>6, <2>3, <2>4
  <2>6. ~(k[e.ke] >= k[e.dari] + lompat[i])
    BY <1>2, <1>3, <1>6
  <2>7. DorongSatu(k, i)[e.ke] >= DorongSatu(k, i)[e.dari] + lompat[i]
    <3>1. DorongSatu(k, i)[e.dari] = k[e.dari]
      BY <1>1, <1>5, <1>6, <2>4
    <3>2. k[e.dari] + lompat[i] >= k[e.dari] + lompat[i]
      BY <1>2, <1>3
    <3> QED
      BY <2>3, <3>1, <3>2
  <2> QED
    BY <1>6, <2>2, <2>4, <2>5, <2>6, <2>7 DEF Puas, e
<1>7. CASE ~(Maju(e) /\ k[e.dari] + lompat[i] > k[e.ke])
  <2>1. DorongSatu(k, i) = k
    BY <1>4, <1>7
  <2>2. Maju(e) => k[e.ke] >= k[e.dari] + lompat[i]
    <3> HIDE DEF e
    <3> QED BY <1>2, <1>3, <1>7
  <2> QED
    BY <1>3, <2>1, <2>2 DEF Puas
<1> QED
  BY <1>6, <1>7

\* h has the columns before and after each edge of a pass that starts in k.
Jejak(k, h) ==
    /\ h \in [0 .. Cardinality(SemuaSisi) -> Kolom]
    /\ h[0] = k
    /\ \A i \in DOMAIN koneksi : h[i] = DorongSatu(h[i - 1], i)

\* A pass is the edges one after the other.
LEMMA JejakAda ==
  ASSUME KoneksiSah, LompatSah, NEW k \in Kolom
  PROVE  \E h : /\ Jejak(k, h)
                /\ FoldLeft(DorongSatu, k, [i \in DOMAIN koneksi |-> i])
                        = h[Cardinality(SemuaSisi)]
<1> DEFINE M == Cardinality(SemuaSisi)
<1> DEFINE s == [i \in DOMAIN koneksi |-> i]
<1> DEFINE langkah == [i \in 1 .. M |-> [c \in Kolom |-> DorongSatu(c, i)]]
<1>1. M \in Nat /\ DOMAIN koneksi = 1 .. M
  BY KoneksiSifat
<1>2. langkah \in [1 .. M -> [Kolom -> Kolom]]
  <2> HIDE DEF M
  <2> QED
    BY <1>1, DorongSatuSifat
<1> HIDE DEF M
<1>3. PICK g \in [SUBSET (1 .. M) -> Kolom] : Lipatan(M, k, langkah, g)
  <2> HIDE DEF langkah
  <2>1. LipatTutup(M, Kolom, k, langkah)
    BY <1>1, <1>2 DEF LipatTutup
  <2> QED
    BY <2>1, LipatAda
<1> DEFINE Rumus(q) == q = [t \in SUBSET DOMAIN s |->
                                IF t = {} THEN k ELSE DorongSatu(q[t \ {Max(t)}], s[Max(t)])]
<1>0. DOMAIN s = 1 .. M /\ \A i \in 1 .. M : s[i] = i
  BY <1>1
<1>4. Rumus(g)
  <2>1. ASSUME NEW t \in SUBSET (1 .. M), t # {}
        PROVE  langkah[Max(t)][g[t \ {Max(t)}]] = DorongSatu(g[t \ {Max(t)}], s[Max(t)])
    <3>1. Max(t) \in 1 .. M /\ t \ {Max(t)} \in SUBSET (1 .. M)
      BY <1>1, <2>1, MaxSifat
    <3> HIDE DEF s
    <3> QED
      BY <1>0, <1>3, <3>1
  <2> HIDE DEF langkah, s
  <2> QED
    BY <1>0, <1>3, <2>1 DEF Lipatan
<1> DEFINE iter == CHOOSE q : Rumus(q)
<1>5. Rumus(iter)
  <2> HIDE DEF Rumus
  <2> QED
    BY <1>4
<1>6. FoldLeft(DorongSatu, k, s) = iter[DOMAIN s]
  BY DEF FoldLeft, MapThenFoldSet
<1> HIDE DEF iter, s
<1>7. iter[1 .. 0] = k
  BY <1>5
<1>8. ASSUME NEW i \in 1 .. M PROVE iter[1 .. i] = DorongSatu(iter[1 .. (i - 1)], i)
  <2>1. /\ 1 .. i \in SUBSET (1 .. M) /\ 1 .. i # {}
        /\ Max(1 .. i) = i /\ (1 .. i) \ {i} = 1 .. (i - 1)
    BY <1>1, AwalanMax
  <2>2. \A t \in SUBSET (1 .. M) : t # {} => iter[t] = DorongSatu(iter[t \ {Max(t)}], s[Max(t)])
    BY <1>0, <1>5
  <2> HIDE DEF Rumus
  <2>3. iter[1 .. i] = DorongSatu(iter[1 .. (i - 1)], s[i])
    BY <2>1, <2>2
  <2> QED
    BY <1>0, <2>3
<1>9. \A i \in 0 .. M : iter[1 .. i] \in Kolom
  <2> DEFINE B == {i \in 0 .. M : iter[1 .. i] \in Kolom}
  <2>1. 0 \in B
    BY <1>1, <1>7
  <2>2. \A i \in 1 .. M : i - 1 \in B => i \in B
    BY <1>1, <1>8, DorongSatuSifat
  <2>3. \A i \in 0 .. M : i \in B
    <3> HIDE DEF B
    <3> QED
      BY <1>1, <2>1, <2>2, InduksiSampai
  <2> QED
    BY <2>3
<1> DEFINE h == [i \in 0 .. M |-> iter[1 .. i]]
<1>10. h \in [0 .. M -> Kolom] /\ h[0] = k
  BY <1>1, <1>7, <1>9
<1>11. \A i \in 1 .. M : h[i] = DorongSatu(h[i - 1], i)
  BY <1>1, <1>8
<1>12. h[M] = iter[DOMAIN s]
  BY <1>0, <1>1
<1> HIDE DEF h
<1>13. Jejak(k, h)
  BY <1>1, <1>10, <1>11 DEF Jejak, M
<1> QED
  BY <1>6, <1>12, <1>13 DEF M, s

\* Nothing moves to the left during a pass.
LEMMA JejakNaik ==
  ASSUME KoneksiSah, LompatSah, NEW k \in Kolom, NEW h, Jejak(k, h)
  PROVE  \A j \in 0 .. Cardinality(SemuaSisi) : \A i \in 0 .. j : \A x \in Simpul : h[i][x] <= h[j][x]
<1> DEFINE M == Cardinality(SemuaSisi)
<1>1. M \in Nat /\ DOMAIN koneksi = 1 .. M
  BY KoneksiSifat
<1>2. h \in [0 .. M -> Kolom] /\ \A i \in 1 .. M : h[i] = DorongSatu(h[i - 1], i)
  BY <1>1 DEF Jejak
<1> HIDE DEF M
<1> DEFINE B == {j \in 0 .. M : \A i \in 0 .. j : \A x \in Simpul : h[i][x] <= h[j][x]}
<1>3. \A i \in 0 .. M : \A x \in Simpul : h[i][x] \in Nat
  BY <1>2 DEF Kolom
<1>4. 0 \in B
  <2>1. \A i \in 0 .. 0 : i = 0
    OBVIOUS
  <2> QED
    BY <1>1, <1>3, <2>1
<1>5. ASSUME NEW j \in 1 .. M, j - 1 \in B PROVE j \in B
  <2>1. ASSUME NEW i \in 0 .. j, NEW x \in Simpul PROVE h[i][x] <= h[j][x]
    <3>1. j \in 0 .. M /\ j - 1 \in 0 .. M /\ i \in 0 .. M
      BY <1>1
    <3>2. h[j - 1][x] <= h[j][x]
      BY <1>1, <1>2, <3>1, DorongSatuSifat
    <3>3. CASE i = j
      BY <1>3, <3>1, <3>3
    <3>4. CASE i # j
      <4>1. i \in 0 .. j - 1
        BY <3>4
      <4>2. h[i][x] <= h[j - 1][x]
        BY <1>5, <4>1
      <4> QED
        BY <1>3, <3>1, <3>2, <4>2
    <3> QED
      BY <3>3, <3>4
  <2> QED
    BY <1>1, <2>1
<1>6. \A j \in 0 .. M : j \in B
  <2> HIDE DEF B
  <2> QED
    BY <1>1, <1>4, <1>5, InduksiSampai
<1> QED
  BY <1>6 DEF M

\* A pass leaves every shape with a column.
LEMMA DorongTipe ==
  ASSUME KoneksiSah, LompatSah, NEW k \in Kolom
  PROVE  FoldLeft(DorongSatu, k, [i \in DOMAIN koneksi |-> i]) \in Kolom
<1>1. PICK h : /\ Jejak(k, h)
               /\ FoldLeft(DorongSatu, k, [i \in DOMAIN koneksi |-> i])
                       = h[Cardinality(SemuaSisi)]
  BY JejakAda
<1>2. Cardinality(SemuaSisi) \in 0 .. Cardinality(SemuaSisi)
  BY KoneksiSifat
<1> QED
  BY <1>1, <1>2 DEF Jejak

\* A pass that changes nothing has found every edge satisfied.
LEMMA DorongDiam ==
  ASSUME KoneksiSah, LompatSah, NEW k \in Kolom,
         FoldLeft(DorongSatu, k, [i \in DOMAIN koneksi |-> i]) = k
  PROVE  \A i \in DOMAIN koneksi : Puas(k, i)
<1> DEFINE M == Cardinality(SemuaSisi)
<1>1. PICK h : Jejak(k, h) /\ k = h[M]
  BY JejakAda
<1>2. M \in Nat /\ DOMAIN koneksi = 1 .. M
  BY KoneksiSifat
<1>3. \A j \in 0 .. M : \A i \in 0 .. j : \A x \in Simpul : h[i][x] <= h[j][x]
  BY <1>1, JejakNaik
<1>4. h \in [0 .. M -> Kolom] /\ h[0] = k /\ \A i \in 1 .. M : h[i] = DorongSatu(h[i - 1], i)
  BY <1>1, <1>2 DEF Jejak
<1> HIDE DEF M
<1>5. ASSUME NEW i \in 0 .. M PROVE h[i] = k
  <2>1. h[i] \in [Simpul -> Nat] /\ k \in [Simpul -> Nat]
    BY <1>4 DEF Kolom
  <2>2. i \in 0 .. M /\ 0 \in 0 .. i /\ M \in 0 .. M
    BY <1>2
  <2>3. \A x \in Simpul : h[0][x] <= h[i][x] /\ h[i][x] <= h[M][x]
    BY <1>2, <1>3, <2>2
  <2>4. \A x \in Simpul : h[i][x] = k[x]
    <3>1. \A x \in Simpul : k[x] <= h[i][x] /\ h[i][x] <= k[x]
      BY <1>1, <1>4, <2>3
    <3>2. \A x \in Simpul : k[x] \in Nat /\ h[i][x] \in Nat
      BY <2>1
    <3> QED
      BY <3>1, <3>2
  <2> QED
    BY <2>1, <2>4
<1>6. ASSUME NEW i \in 1 .. M PROVE Puas(k, i)
  <2>1. i \in 0 .. M /\ i - 1 \in 0 .. M
    BY <1>2
  <2>2. k = DorongSatu(k, i)
    BY <1>4, <1>5, <2>1
  <2>3. Puas(DorongSatu(k, i), i)
    BY <1>2, DorongSatuSifat
  <2> QED
    BY <2>2, <2>3
<1> QED
  BY <1>2, <1>6

\* Every edge that ends at p or before it is satisfied.
PuasSampai(k, p) == \A i \in DOMAIN koneksi : koneksi[i].ke <= p => Puas(k, i)

\* A pass satisfies the edges that end one shape further: the shapes before are at rest.
LEMMA DorongMaju ==
  ASSUME KoneksiSah, LompatSah, NEW k \in Kolom, NEW p \in Nat, PuasSampai(k, p)
  PROVE  PuasSampai(FoldLeft(DorongSatu, k, [i \in DOMAIN koneksi |-> i]), p + 1)
<1> DEFINE M == Cardinality(SemuaSisi)
<1>1. PICK h : /\ Jejak(k, h)
               /\ FoldLeft(DorongSatu, k, [i \in DOMAIN koneksi |-> i]) = h[M]
  BY JejakAda
<1>2. M \in Nat /\ DOMAIN koneksi = 1 .. M /\ Simpul \subseteq Nat
  BY KoneksiSifat
<1>3. \A j \in 0 .. M : \A i \in 0 .. j : \A x \in Simpul : h[i][x] <= h[j][x]
  BY <1>1, JejakNaik
<1>4. h \in [0 .. M -> Kolom] /\ h[0] = k /\ \A i \in 1 .. M : h[i] = DorongSatu(h[i - 1], i)
  BY <1>1, <1>2 DEF Jejak
<1>5. \A i \in 1 .. M : koneksi[i].dari \in Simpul /\ koneksi[i].ke \in Simpul
  BY <1>2, KoneksiSifat
<1> HIDE DEF M
<1> DEFINE B == {j \in 0 .. M : \A x \in Simpul : x <= p => h[j][x] = k[x]}
<1>6. 0 \in B
  BY <1>2, <1>4
<1>7. ASSUME NEW j \in 1 .. M, j - 1 \in B PROVE j \in B
  <2>1. j \in 0 .. M /\ j - 1 \in 0 .. M /\ h[j - 1] \in Kolom /\ h[j] = DorongSatu(h[j - 1], j)
    BY <1>2, <1>4
  <2>2. \A x \in Simpul : x <= p => h[j - 1][x] = k[x]
    BY <1>7
  <2>3. CASE koneksi[j].ke <= p
    <3>1. Puas(k, j)
      BY <1>2, <2>3 DEF PuasSampai
    <3>2. Maju(koneksi[j]) => koneksi[j].dari <= p
      <4>1. koneksi[j].dari \in Nat /\ koneksi[j].ke \in Nat
        BY <1>2, <1>5
      <4> QED
        BY <2>3, <4>1 DEF Maju
    <3>3. Puas(h[j - 1], j)
      BY <1>5, <2>2, <2>3, <3>1, <3>2 DEF Puas
    <3>4. h[j] = h[j - 1]
      BY <1>2, <2>1, <3>3, DorongSatuSifat
    <3> QED
      BY <2>1, <2>2, <3>4
  <2>4. CASE ~(koneksi[j].ke <= p)
    <3>1. \A x \in Simpul : x # koneksi[j].ke => h[j][x] = h[j - 1][x]
      BY <1>2, <2>1, DorongSatuSifat
    <3>2. \A x \in Simpul : x <= p => h[j][x] = k[x]
      BY <2>2, <2>4, <3>1
    <3> QED
      BY <2>1, <3>2
  <2> QED
    BY <2>3, <2>4
<1>8. \A j \in 0 .. M : \A x \in Simpul : x <= p => h[j][x] = k[x]
  <2>1. \A j \in 0 .. M : j \in B
    <3> HIDE DEF B
    <3> QED
      BY <1>2, <1>6, <1>7, InduksiSampai
  <2> QED
    BY <2>1
<1>9. ASSUME NEW i \in 1 .. M, koneksi[i].ke <= p + 1, Maju(koneksi[i])
      PROVE  h[M][koneksi[i].ke] >= h[M][koneksi[i].dari] + lompat[i]
  <2> DEFINE x == koneksi[i].dari
  <2> DEFINE y == koneksi[i].ke
  <2>1. x \in Simpul /\ y \in Simpul /\ x <= p
    <3>1. x \in Simpul /\ y \in Simpul
      BY <1>5
    <3>2. x \in Nat /\ y \in Nat /\ x < y /\ y <= p + 1
      BY <1>2, <1>9, <3>1 DEF Maju
    <3> QED
      BY <3>1, <3>2
  <2>2. i \in 0 .. M /\ M \in 0 .. M /\ i - 1 \in 0 .. M
    BY <1>2
  <2>3. Puas(h[i], i)
    BY <1>2, <1>4, <2>2, DorongSatuSifat
  <2>4. h[i][y] >= h[i][x] + lompat[i]
    BY <1>9, <2>3 DEF Puas
  <2>5. h[i][x] = h[M][x]
    BY <1>8, <2>1, <2>2
  <2>6. h[i][y] <= h[M][y]
    BY <1>2, <1>3, <2>1, <2>2
  <2>7. h[i][y] \in Nat /\ h[M][y] \in Nat /\ h[M][x] \in Nat
    BY <1>4, <2>1, <2>2 DEF Kolom
  <2>8. lompat[i] \in Nat
    BY <1>2, LangkahiSifat DEF LompatSah
  <2> HIDE DEF x, y
  <2>9. h[M][y] >= h[M][x] + lompat[i]
    BY <2>4, <2>5, <2>6, <2>7, <2>8
  <2> QED
    BY <2>9 DEF x, y
<1>10. PuasSampai(h[M], p + 1)
  BY <1>2, <1>9 DEF PuasSampai, Puas
<1> QED
  BY <1>1, <1>10

-----------------------------------------------------------------------------
(***************************************************************************)
(* The columns of a lane are made distinct.                                *)
(***************************************************************************)

\* kiri has the elements of a finite set that come before each, in a partial order.
UrutanSah(S, k, kiri) ==
    /\ IsFiniteSet(S) /\ k \in [S -> Nat] /\ kiri \in [S -> SUBSET S]
    /\ \A x \in S : x \notin kiri[x] /\ \A y \in kiri[x] : kiri[y] \subseteq kiri[x]

\* b puts every element behind those before it.
Baru(S, k, kiri, b) == b = [x \in S |-> Terbesar({k[x]} \cup {b[y] + 1 : y \in kiri[x]})]

\* The place behind those before x, when they have places.
LEMMA BaruIsi ==
  ASSUME NEW S, NEW k, NEW kiri, UrutanSah(S, k, kiri), NEW x \in S, NEW b,
         \A y \in kiri[x] : b[y] \in Nat
  PROVE  /\ Terbesar({k[x]} \cup {b[y] + 1 : y \in kiri[x]}) \in Nat
         /\ k[x] <= Terbesar({k[x]} \cup {b[y] + 1 : y \in kiri[x]})
         /\ \A z \in kiri[x] : b[z] < Terbesar({k[x]} \cup {b[y] + 1 : y \in kiri[x]})
<1> DEFINE f == [y \in kiri[x] |-> b[y] + 1]
<1> DEFINE T == {f[y] : y \in kiri[x]}
<1> DEFINE U == T \cup {k[x]}
<1>1. IsFiniteSet(kiri[x]) /\ k[x] \in Nat
  <2>1. IsFiniteSet(S) /\ kiri[x] \subseteq S /\ k[x] \in Nat
    BY DEF UrutanSah
  <2> QED
    BY <2>1, FS_Subset
<1>2. IsFiniteSet(T)
  <2> HIDE DEF f
  <2> QED
    BY <1>1, CitraHingga
<1>3. IsFiniteSet(U)
  <2> HIDE DEF T
  <2> QED
    BY <1>2, FS_AddElement
<1>4. U \in SUBSET Nat /\ U # {}
  <2>1. \A y \in kiri[x] : f[y] \in Nat
    OBVIOUS
  <2> HIDE DEF f
  <2> QED
    BY <1>1, <2>1
<1>5. Terbesar(U) \in U /\ \A j \in U : j <= Terbesar(U)
  <2> HIDE DEF U
  <2> QED
    BY <1>3, <1>4, TerbesarSifat
<1>6. U = {k[x]} \cup {b[y] + 1 : y \in kiri[x]}
  OBVIOUS
<1>7. Terbesar(U) \in Nat /\ k[x] <= Terbesar(U)
  <2>1. k[x] \in U
    OBVIOUS
  <2> HIDE DEF U
  <2> QED
    BY <1>4, <1>5, <2>1
<1>8. ASSUME NEW z \in kiri[x] PROVE b[z] < Terbesar(U)
  <2>1. b[z] + 1 \in U /\ b[z] \in Nat
    OBVIOUS
  <2> HIDE DEF U
  <2>2. b[z] + 1 <= Terbesar(U)
    BY <1>5, <2>1
  <2> QED
    BY <1>7, <2>1, <2>2
<1> HIDE DEF U
<1> QED
  BY <1>6, <1>7, <1>8

\* There are such places, and they are in order.
LEMMA BaruSifat ==
  ASSUME NEW S, NEW k, NEW kiri, UrutanSah(S, k, kiri)
  PROVE  /\ \E b : Baru(S, k, kiri, b)
         /\ \A b : Baru(S, k, kiri, b) =>
                /\ b \in [S -> Nat]
                /\ \A x \in S : k[x] <= b[x] /\ \A y \in kiri[x] : b[y] < b[x]
<1> DEFINE isi(b, x) == Terbesar({k[x]} \cup {b[y] + 1 : y \in kiri[x]})
<1> DEFINE r == [x \in S |-> Cardinality(kiri[x])]
<1> DEFINE G == [x \in S |-> [b \in [S -> Nat] |-> isi(b, x)]]
<1>1. /\ IsFiniteSet(S) /\ \A x \in S : kiri[x] \subseteq S /\ x \notin kiri[x]
      /\ \A x \in S : \A y \in kiri[x] : kiri[y] \subseteq kiri[x]
  BY DEF UrutanSah
<1>2. /\ \A x \in S : IsFiniteSet(kiri[x]) /\ r[x] \in Nat /\ r[x] < Cardinality(S) + 1
      /\ Cardinality(S) + 1 \in Nat
  <2>1. ASSUME NEW x \in S
        PROVE  IsFiniteSet(kiri[x]) /\ r[x] \in Nat /\ r[x] < Cardinality(S) + 1
    <3>1. IsFiniteSet(kiri[x]) /\ Cardinality(kiri[x]) <= Cardinality(S)
      BY <1>1, FS_Subset
    <3>2. Cardinality(kiri[x]) \in Nat /\ Cardinality(S) \in Nat
      BY <1>1, <3>1, FS_CardinalityType
    <3> QED
      BY <3>1, <3>2
  <2>2. Cardinality(S) \in Nat
    BY <1>1, FS_CardinalityType
  <2> QED
    BY <2>1, <2>2
<1>3. ASSUME NEW x \in S, NEW y \in kiri[x] PROVE r[y] < r[x]
  <2>1. kiri[y] \subseteq kiri[x] /\ y \notin kiri[y] /\ y \in S
    BY <1>1
  <2>2. kiri[y] # kiri[x]
    BY <2>1
  <2>3. Cardinality(kiri[y]) < Cardinality(kiri[x])
    BY <1>2, <2>1, <2>2, FS_Subset
  <2> QED
    BY <2>1, <2>3
<1>4. r \in [S -> Nat]
  BY <1>2
<1> HIDE DEF r
<1>5. ASSUME NEW x \in S, NEW b, \A y \in S : r[y] < r[x] => b[y] \in Nat
      PROVE  isi(b, x) \in Nat /\ k[x] <= isi(b, x) /\ \A y \in kiri[x] : b[y] < isi(b, x)
  <2>1. \A y \in kiri[x] : b[y] \in Nat
    BY <1>1, <1>3, <1>5
  <2> QED
    BY <2>1, BaruIsi
<1>6. ASSUME NEW x \in S, NEW f \in [S -> Nat], NEW g \in [S -> Nat],
             \A y \in S : r[y] < r[x] => f[y] = g[y]
      PROVE  isi(f, x) = isi(g, x)
  <2>1. \A y \in kiri[x] : f[y] = g[y]
    BY <1>1, <1>3, <1>6
  <2>2. {f[y] + 1 : y \in kiri[x]} = {g[y] + 1 : y \in kiri[x]}
    BY <2>1
  <2> QED
    BY <2>2
<1> HIDE DEF isi
<1>7. RekursiTurun(S, r, Nat, G)
  <2>1. G \in [S -> [[S -> Nat] -> Nat]]
    BY <1>5
  <2>2. \A x \in S : \A f, g \in [S -> Nat] :
            (\A y \in S : r[y] < r[x] => f[y] = g[y]) => G[x][f] = G[x][g]
    BY <1>6
  <2>3. \E c \in Nat : \A x \in S : r[x] < c
    BY <1>2
  <2> HIDE DEF G
  <2> QED
    BY <1>4, <2>1, <2>2, <2>3 DEF RekursiTurun
<1>8. \E b : b = [x \in S |-> isi(b, x)]
  <2>1. PICK b \in [S -> Nat] : \A x \in S : b[x] = G[x][b]
    <3> HIDE DEF G
    <3> QED
      BY <1>7, RekursiAda
  <2>2. b = [x \in S |-> isi(b, x)]
    BY <2>1
  <2> QED
    BY <2>2
<1>9. ASSUME NEW b, b = [x \in S |-> isi(b, x)]
      PROVE  /\ b \in [S -> Nat]
             /\ \A x \in S : k[x] <= b[x] /\ \A y \in kiri[x] : b[y] < b[x]
  <2> DEFINE B == {x \in S : b[x] \in Nat}
  <2>1. \A x \in S : b[x] = isi(b, x)
    BY <1>9
  <2>2. \A x \in S : (\A y \in S : r[y] < r[x] => y \in B) => x \in B
    BY <1>5, <2>1
  <2>3. B = S
    <3>1. B \in SUBSET S
      OBVIOUS
    <3> HIDE DEF B
    <3> QED
      BY <1>4, <2>2, <3>1, InduksiPangkat
  <2>4. \A x \in S : b[x] \in Nat
    BY <2>3
  <2>5. b \in [S -> Nat]
    BY <1>9, <2>4
  <2> QED
    BY <1>5, <2>1, <2>4, <2>5
<1>10. \A b : Baru(S, k, kiri, b) <=> b = [x \in S |-> isi(b, x)]
  BY DEF Baru, isi
<1> QED
  BY <1>8, <1>9, <1>10

\* A lane has one shape per column.
Terpisah(k) == \A x, y \in Simpul : x # y /\ Lajur(x) = Lajur(y) => k[x] # k[y]

\* Made distinct, the shapes of a lane keep their order.
LEMMA UnikSifat ==
  ASSUME KoneksiSah, NEW k \in Kolom
  PROVE  /\ Unik(k) \in Kolom
         /\ Terpisah(Unik(k))
         /\ \A x, y \in Simpul : Lajur(x) = Lajur(y) /\ k[y] < k[x] => Unik(k)[y] < Unik(k)[x]
<1> DEFINE U == Utama
<1> DEFINE giliran == [x \in Simpul |-> IF x \in U THEN 0 ELSE 1]
<1> DEFINE sebelum(y, x) ==
        \/ k[y] < k[x]
        \/ k[y] = k[x] /\ giliran[y] < giliran[x]
        \/ k[y] = k[x] /\ giliran[y] = giliran[x] /\ y < x
<1> DEFINE kiri == [x \in Simpul |-> {y \in Simpul : Lajur(y) = Lajur(x) /\ sebelum(y, x)}]
<1>1. IsFiniteSet(Simpul) /\ Simpul \subseteq Nat /\ k \in [Simpul -> Nat]
  BY KoneksiSifat DEF Kolom
<1>2. Unik(k) = CHOOSE b : Baru(Simpul, k, kiri, b)
  BY DEF Unik, Baru
<1>3. \A x \in Simpul : giliran[x] \in Nat
  OBVIOUS
<1> HIDE DEF giliran, U
<1>4. /\ \A x \in Simpul : ~sebelum(x, x)
      /\ \A x, y, z \in Simpul : sebelum(x, y) /\ sebelum(y, z) => sebelum(x, z)
      /\ \A x, y \in Simpul : x # y => sebelum(x, y) \/ sebelum(y, x)
  <2>1. \A x \in Simpul : k[x] \in Nat /\ x \in Nat /\ giliran[x] \in Nat
    BY <1>1, <1>3
  <2>2. \A x \in Simpul : ~sebelum(x, x)
    BY <2>1
  <2>3. \A x, y, z \in Simpul : sebelum(x, y) /\ sebelum(y, z) => sebelum(x, z)
    BY <2>1
  <2>4. \A x, y \in Simpul : x # y => sebelum(x, y) \/ sebelum(y, x)
    BY <2>1
  <2> HIDE DEF sebelum
  <2> QED
    BY <2>2, <2>3, <2>4
<1>5. \A x, y \in Simpul : k[y] < k[x] => sebelum(y, x)
  OBVIOUS
<1> HIDE DEF sebelum
<1>6. UrutanSah(Simpul, k, kiri)
  BY <1>1, <1>4 DEF UrutanSah
<1>7. Baru(Simpul, k, kiri, Unik(k))
  <2> HIDE DEF kiri
  <2>1. \E b : Baru(Simpul, k, kiri, b)
    BY <1>6, BaruSifat
  <2> QED
    BY <1>2, <2>1
<1>8. /\ Unik(k) \in [Simpul -> Nat]
      /\ \A x \in Simpul : \A y \in kiri[x] : Unik(k)[y] < Unik(k)[x]
  <2> HIDE DEF kiri
  <2> QED
    BY <1>6, <1>7, BaruSifat
<1>9. \A x, y \in Simpul : Lajur(y) = Lajur(x) /\ sebelum(y, x) => Unik(k)[y] < Unik(k)[x]
  BY <1>8
<1>10. Terpisah(Unik(k))
  <2>1. SUFFICES ASSUME NEW x \in Simpul, NEW y \in Simpul, x # y, Lajur(x) = Lajur(y)
                 PROVE  Unik(k)[x] # Unik(k)[y]
    BY DEF Terpisah
  <2>2. Unik(k)[x] < Unik(k)[y] \/ Unik(k)[y] < Unik(k)[x]
    BY <1>4, <1>9, <2>1
  <2>3. Unik(k)[x] \in Nat /\ Unik(k)[y] \in Nat
    BY <1>8
  <2> QED
    BY <2>2, <2>3
<1> QED
  BY <1>5, <1>8, <1>9, <1>10 DEF Kolom

-----------------------------------------------------------------------------
(***************************************************************************)
(* Simple handoffs between lanes are straightened, and empty columns       *)
(* closed.                                                                 *)
(***************************************************************************)

\* An edge to a later row of its own lane is read from left to right.
Terbaca(k) == \A e \in Tepi : Maju(e) /\ Lajur(e.dari) = Lajur(e.ke) => k[e.dari] < k[e.ke]

\* The columns the last passes work on.
Rapi == {k \in Kolom : Terpisah(k) /\ Terbaca(k)}

\* Pulling the end of a handoff back disturbs no other shape and no other edge.
LEMMA LurusSatuSifat ==
  ASSUME KoneksiSah, NEW k \in Rapi, NEW e \in Tepi
  PROVE  LurusSatu(k, e) \in Rapi
<1> DEFINE b == [k EXCEPT ![e.ke] = k[e.dari]]
<1>1. CASE ~(Serahan(e) /\ k[e.ke] > k[e.dari] /\ ~Terisi(k, e.ke, k[e.dari]))
  BY <1>1 DEF LurusSatu
<1>2. CASE Serahan(e) /\ k[e.ke] > k[e.dari] /\ ~Terisi(k, e.ke, k[e.dari])
  <2>1. LurusSatu(k, e) = b
    BY <1>2 DEF LurusSatu
  <2>2. /\ Simpul \subseteq Nat /\ k \in [Simpul -> Nat]
        /\ \A f \in Tepi : f.dari \in Simpul /\ f.ke \in Simpul
    <3>1. \A f \in Tepi : f.dari \in Simpul /\ f.ke \in Simpul
      BY KoneksiSifat DEF Tepi
    <3> QED
      BY <3>1, KoneksiSifat DEF Rapi, Kolom
  <2>3. /\ b \in [Simpul -> Nat] /\ b[e.ke] = k[e.dari]
        /\ \A x \in Simpul : x # e.ke => b[x] = k[x]
    BY <2>2
  <2> HIDE DEF b
  <2>4. Terpisah(b)
    <3>1. SUFFICES ASSUME NEW x \in Simpul, NEW y \in Simpul, x # y, Lajur(x) = Lajur(y)
                   PROVE  b[x] # b[y]
      BY DEF Terpisah
    <3>2. \A z \in Simpul : z # e.ke /\ Lajur(z) = Lajur(e.ke) => k[z] # k[e.dari]
      BY <1>2 DEF Terisi
    <3>3. k[x] # k[y]
      BY <3>1 DEF Rapi, Terpisah
    <3> QED
      BY <2>3, <3>1, <3>2, <3>3
  <2>5. Terbaca(b)
    <3>1. SUFFICES ASSUME NEW f \in Tepi, Maju(f), Lajur(f.dari) = Lajur(f.ke)
                   PROVE  b[f.dari] < b[f.ke]
      BY DEF Terbaca
    <3>2. f.ke # e.ke
      BY <1>2, <3>1 DEF Serahan, Lurusan
    <3>3. k[f.dari] < k[f.ke]
      BY <3>1 DEF Rapi, Terbaca
    <3>4. b[f.ke] = k[f.ke]
      BY <2>2, <2>3, <3>2
    <3>5. CASE f.dari = e.ke
      <4>1. b[f.dari] = k[e.dari]
        BY <2>3, <3>5
      <4>2. k[e.dari] < k[f.dari]
        BY <1>2, <2>2, <3>5
      <4>3. k[e.dari] \in Nat /\ k[f.dari] \in Nat /\ k[f.ke] \in Nat
        BY <2>2
      <4> QED
        BY <3>3, <3>4, <4>1, <4>2, <4>3
    <3>6. CASE f.dari # e.ke
      BY <2>2, <2>3, <3>3, <3>4, <3>6
    <3> QED
      BY <3>5, <3>6
  <2> QED
    BY <2>1, <2>3, <2>4, <2>5 DEF Rapi, Kolom
<1> QED
  BY <1>1, <1>2

\* The edges out of one shape.
LEMMA LurusDariSifat ==
  ASSUME KoneksiSah, NEW k \in Rapi, NEW x
  PROVE  LurusDari(k, x) \in Rapi
<1> DEFINE M == Cardinality(SemuaSisi)
<1> DEFINE satu(h, e) == IF e.dari = x THEN LurusSatu(h, e) ELSE h
<1> DEFINE langkah == [i \in 1 .. M |-> [c \in Rapi |-> satu(c, koneksi[i])]]
<1>1. M \in Nat /\ DOMAIN koneksi = 1 .. M
  BY KoneksiSifat
<1> HIDE DEF M
<1>2. \A i \in 1 .. M : \A c \in Rapi : satu(c, koneksi[i]) \in Rapi
  <2>1. \A i \in 1 .. M : koneksi[i] \in Tepi
    BY <1>1 DEF Tepi
  <2> QED
    BY <2>1, LurusSatuSifat
<1> HIDE DEF satu
<1>3. PICK g \in [SUBSET (1 .. M) -> Rapi] : Lipatan(M, k, langkah, g)
  <2>0. langkah \in [1 .. M -> [Rapi -> Rapi]]
    BY <1>2
  <2> HIDE DEF langkah
  <2>1. LipatTutup(M, Rapi, k, langkah)
    BY <1>1, <2>0 DEF LipatTutup
  <2> QED
    BY <2>1, LipatAda
<1> DEFINE Rumus(q) == q = [t \in SUBSET DOMAIN koneksi |->
                                IF t = {} THEN k ELSE satu(q[t \ {Max(t)}], koneksi[Max(t)])]
<1>4. Rumus(g)
  <2>1. ASSUME NEW t \in SUBSET (1 .. M), t # {}
        PROVE  langkah[Max(t)][g[t \ {Max(t)}]] = satu(g[t \ {Max(t)}], koneksi[Max(t)])
    <3>1. Max(t) \in 1 .. M /\ t \ {Max(t)} \in SUBSET (1 .. M)
      BY <1>1, <2>1, MaxSifat
    <3> QED
      BY <1>3, <3>1
  <2> HIDE DEF langkah
  <2> QED
    BY <1>1, <1>3, <2>1 DEF Lipatan
<1> DEFINE iter == CHOOSE q : Rumus(q)
<1>5. Rumus(iter)
  <2> HIDE DEF Rumus
  <2> QED
    BY <1>4
<1>6. LurusDari(k, x) = iter[DOMAIN koneksi]
  BY DEF LurusDari, FoldLeft, MapThenFoldSet, satu
<1> HIDE DEF iter
<1>7. iter[1 .. 0] = k
  BY <1>5
<1>8. ASSUME NEW i \in 1 .. M PROVE iter[1 .. i] = satu(iter[1 .. (i - 1)], koneksi[i])
  <2>1. /\ 1 .. i \in SUBSET (1 .. M) /\ 1 .. i # {}
        /\ Max(1 .. i) = i /\ (1 .. i) \ {i} = 1 .. (i - 1)
    BY <1>1, AwalanMax
  <2>2. \A t \in SUBSET (1 .. M) : t # {} => iter[t] = satu(iter[t \ {Max(t)}], koneksi[Max(t)])
    BY <1>1, <1>5
  <2> HIDE DEF Rumus
  <2> QED
    BY <2>1, <2>2
<1>9. \A i \in 0 .. M : iter[1 .. i] \in Rapi
  <2> DEFINE B == {i \in 0 .. M : iter[1 .. i] \in Rapi}
  <2>1. 0 \in B
    BY <1>1, <1>7
  <2>2. \A i \in 1 .. M : i - 1 \in B => i \in B
    BY <1>1, <1>2, <1>8
  <2>3. \A i \in 0 .. M : i \in B
    <3> HIDE DEF B
    <3> QED
      BY <1>1, <2>1, <2>2, InduksiSampai
  <2> QED
    BY <2>3
<1>10. M \in 0 .. M
  BY <1>1
<1> QED
  BY <1>1, <1>6, <1>9, <1>10

\* The edges out of every shape.
LEMMA LurusSifat ==
  ASSUME KoneksiSah, NEW k \in Rapi
  PROVE  Lurus(k) \in Rapi
<1> DEFINE M == n + 1
<1> DEFINE s == [i \in 1 .. n + 1 |-> i - 1]
<1> DEFINE langkah == [i \in 1 .. M |-> [c \in Rapi |-> LurusDari(c, s[i])]]
<1>1. M \in Nat /\ DOMAIN s = 1 .. M
  BY KoneksiSifat
<1>6a. Lurus(k) = FoldLeft(LurusDari, k, s)
  BY DEF Lurus
<1> HIDE DEF M, s
<1>2. \A i \in 1 .. M : \A c \in Rapi : LurusDari(c, s[i]) \in Rapi
  BY LurusDariSifat
<1>3. PICK g \in [SUBSET (1 .. M) -> Rapi] : Lipatan(M, k, langkah, g)
  <2>0. langkah \in [1 .. M -> [Rapi -> Rapi]]
    BY <1>2
  <2> HIDE DEF langkah
  <2>1. LipatTutup(M, Rapi, k, langkah)
    BY <1>1, <2>0 DEF LipatTutup
  <2> QED
    BY <2>1, LipatAda
<1> DEFINE Rumus(q) == q = [t \in SUBSET DOMAIN s |->
                                IF t = {} THEN k ELSE LurusDari(q[t \ {Max(t)}], s[Max(t)])]
<1>4. Rumus(g)
  <2>1. ASSUME NEW t \in SUBSET (1 .. M), t # {}
        PROVE  langkah[Max(t)][g[t \ {Max(t)}]] = LurusDari(g[t \ {Max(t)}], s[Max(t)])
    <3>1. Max(t) \in 1 .. M /\ t \ {Max(t)} \in SUBSET (1 .. M)
      BY <1>1, <2>1, MaxSifat
    <3> QED
      BY <1>3, <3>1
  <2> HIDE DEF langkah
  <2> QED
    BY <1>1, <1>3, <2>1 DEF Lipatan
<1> DEFINE iter == CHOOSE q : Rumus(q)
<1>5. Rumus(iter)
  <2> HIDE DEF Rumus
  <2> QED
    BY <1>4
<1>6. Lurus(k) = iter[DOMAIN s]
  BY <1>6a DEF FoldLeft, MapThenFoldSet
<1> HIDE DEF iter
<1>7. iter[1 .. 0] = k
  BY <1>5
<1>8. ASSUME NEW i \in 1 .. M PROVE iter[1 .. i] = LurusDari(iter[1 .. (i - 1)], s[i])
  <2>1. /\ 1 .. i \in SUBSET (1 .. M) /\ 1 .. i # {}
        /\ Max(1 .. i) = i /\ (1 .. i) \ {i} = 1 .. (i - 1)
    BY <1>1, AwalanMax
  <2>2. \A t \in SUBSET (1 .. M) : t # {} => iter[t] = LurusDari(iter[t \ {Max(t)}], s[Max(t)])
    BY <1>1, <1>5
  <2> HIDE DEF Rumus
  <2> QED
    BY <2>1, <2>2
<1>9. \A i \in 0 .. M : iter[1 .. i] \in Rapi
  <2> DEFINE B == {i \in 0 .. M : iter[1 .. i] \in Rapi}
  <2>1. 0 \in B
    BY <1>1, <1>7
  <2>2. \A i \in 1 .. M : i - 1 \in B => i \in B
    BY <1>1, <1>2, <1>8
  <2>3. \A i \in 0 .. M : i \in B
    <3> HIDE DEF B
    <3> QED
      BY <1>1, <2>1, <2>2, InduksiSampai
  <2> QED
    BY <2>3
<1>10. M \in 0 .. M
  BY <1>1
<1> QED
  BY <1>1, <1>6, <1>9, <1>10

\* Closing the empty columns keeps which of two columns is further right.
LEMMA PadatSifat ==
  ASSUME KoneksiSah, NEW k \in Rapi
  PROVE  Padat(k) \in Rapi
<1> DEFINE A(x) == {k[y] : y \in {z \in Simpul : k[z] < k[x]}}
<1>1. /\ IsFiniteSet(Simpul) /\ k \in [Simpul -> Nat]
      /\ \A f \in Tepi : f.dari \in Simpul /\ f.ke \in Simpul
  <2>1. \A f \in Tepi : f.dari \in Simpul /\ f.ke \in Simpul
    BY KoneksiSifat DEF Tepi
  <2> QED
    BY <2>1, KoneksiSifat DEF Rapi, Kolom
<1>2. \A x \in Simpul : IsFiniteSet(A(x)) /\ Cardinality(A(x)) \in Nat
  <2>1. SUFFICES ASSUME NEW x \in Simpul PROVE IsFiniteSet(A(x))
    BY FS_CardinalityType
  <2> DEFINE Z == {z \in Simpul : k[z] < k[x]}
  <2>2. IsFiniteSet(Z)
    BY <1>1, FS_Subset
  <2>3. A(x) = {k[y] : y \in Z}
    OBVIOUS
  <2> HIDE DEF Z, A
  <2> QED
    BY <2>2, <2>3, CitraHingga
<1>3. \A x \in Simpul : Padat(k)[x] = Cardinality(A(x))
  BY DEF Padat
<1>4. Padat(k) \in Kolom
  BY <1>2 DEF Padat, Kolom
<1>5. ASSUME NEW x \in Simpul, NEW y \in Simpul, k[x] < k[y]
      PROVE  Padat(k)[x] < Padat(k)[y]
  <2>1. A(x) \subseteq A(y)
    <3>1. \A z \in Simpul : k[z] < k[x] => k[z] < k[y]
      BY <1>1, <1>5
    <3> QED
      BY <3>1
  <2>2. k[x] \in A(y)
    BY <1>5
  <2>3. k[x] \notin A(x)
    <3>1. \A z \in Simpul : k[z] < k[x] => k[z] # k[x]
      BY <1>1
    <3> QED
      BY <3>1
  <2> HIDE DEF A
  <2>4. Cardinality(A(x)) < Cardinality(A(y))
    BY <1>2, <2>1, <2>2, <2>3, FS_Subset
  <2> QED
    BY <1>3, <2>4
<1> HIDE DEF A
<1>6. Terpisah(Padat(k))
  <2>1. SUFFICES ASSUME NEW x \in Simpul, NEW y \in Simpul, x # y, Lajur(x) = Lajur(y)
                 PROVE  Padat(k)[x] # Padat(k)[y]
    BY DEF Terpisah
  <2>2. k[x] # k[y] /\ k[x] \in Nat /\ k[y] \in Nat
    BY <1>1, <2>1 DEF Rapi, Terpisah
  <2>3. k[x] < k[y] \/ k[y] < k[x]
    BY <2>2
  <2>4. Padat(k)[x] < Padat(k)[y] \/ Padat(k)[y] < Padat(k)[x]
    BY <1>5, <2>3
  <2>5. Padat(k)[x] \in Nat /\ Padat(k)[y] \in Nat
    BY <1>4 DEF Kolom
  <2> QED
    BY <2>4, <2>5
<1>7. Terbaca(Padat(k))
  BY <1>1, <1>5 DEF Terbaca, Rapi
<1> QED
  BY <1>4, <1>6, <1>7 DEF Rapi

\* No column to the left of a shape is empty.
Rapat(k) == \A x \in Simpul : \A c \in 0 .. k[x] : \E y \in Simpul : k[y] = c

LEMMA PadatRapat ==
  ASSUME KoneksiSah, NEW k \in Kolom
  PROVE  Rapat(Padat(k))
<1> DEFINE V == {k[x] : x \in Simpul}
<1> DEFINE kiri == [v \in V |-> {w \in V : w < v}]
<1>1. IsFiniteSet(Simpul) /\ Simpul # {} /\ k \in [Simpul -> Nat]
  BY KoneksiSifat DEF Kolom
<1>2. IsFiniteSet(V) /\ V # {} /\ V \in SUBSET Nat
  BY <1>1, CitraHingga
<1>3. \A x \in Simpul : Padat(k)[x] = Cardinality(kiri[k[x]])
  <2>1. SUFFICES ASSUME NEW x \in Simpul
                 PROVE  {k[y] : y \in {z \in Simpul : k[z] < k[x]}} = kiri[k[x]]
    BY DEF Padat
  <2> QED
    OBVIOUS
<1>4. \A v \in V : \E x \in Simpul : v = k[x]
  OBVIOUS
<1>5. \A x \in Simpul : k[x] \in V
  OBVIOUS
<1> HIDE DEF V
<1>6. \A v, w \in V : w \in kiri[v] <=> w < v
  OBVIOUS
<1>7. kiri \in [V -> SUBSET V]
  OBVIOUS
<1> HIDE DEF kiri
<1>8. UrutTotal(V, kiri)
  <2>1. \A v \in V : v \notin kiri[v]
    BY <1>2, <1>6
  <2>2. \A v \in V : \A w \in kiri[v] : kiri[w] \subseteq kiri[v]
    <3>1. SUFFICES ASSUME NEW v \in V, NEW w \in kiri[v], NEW u \in kiri[w] PROVE u \in kiri[v]
      OBVIOUS
    <3>2. w \in V /\ u \in V
      BY <1>7
    <3>3. v \in Nat /\ w \in Nat /\ u \in Nat
      BY <1>2, <3>2
    <3>4. u < w /\ w < v
      BY <1>6, <3>2
    <3> QED
      BY <1>6, <3>2, <3>3, <3>4
  <2>3. \A v, w \in V : v # w => v \in kiri[w] \/ w \in kiri[v]
    <3>1. \A v, w \in V : v # w => v < w \/ w < v
      BY <1>2
    <3> QED
      BY <1>6, <3>1
  <2> QED
    BY <1>2, <1>7, <2>1, <2>2, <2>3 DEF UrutTotal
<1>9. /\ Cardinality(V) \in Nat
      /\ \A v \in V : Cardinality(kiri[v]) \in 0 .. Cardinality(V) - 1
      /\ \A i \in 0 .. Cardinality(V) - 1 : \E v \in V : Cardinality(kiri[v]) = i
  BY <1>8, UrutTempat
<1>10. SUFFICES ASSUME NEW x \in Simpul, NEW c \in 0 .. Padat(k)[x]
                PROVE  \E y \in Simpul : Padat(k)[y] = c
  BY DEF Rapat
<1>11. c \in 0 .. Cardinality(V) - 1
  <2>1. Padat(k)[x] \in 0 .. Cardinality(V) - 1
    BY <1>3, <1>5, <1>9
  <2> QED
    BY <1>9, <2>1
<1>12. PICK v \in V : Cardinality(kiri[v]) = c
  BY <1>9, <1>11
<1>13. PICK y \in Simpul : v = k[y]
  BY <1>4
<1> QED
  BY <1>3, <1>12, <1>13

\* The end is put behind everything, and no edge leaves it.
LEMMA UnikRapi ==
  ASSUME KoneksiSah, NEW k \in Kolom, Terbaca(k)
  PROVE  Unik(DenganAkhir(k)) \in Rapi
<1> DEFINE b == DenganAkhir(k)
<1> DEFINE batas == Terbesar({k[x] : x \in Simpul})
<1>1. /\ n \in Nat /\ Simpul = 0 .. n + 1 /\ IsFiniteSet(Simpul) /\ Simpul # {}
      /\ Akhir \in Simpul /\ k \in [Simpul -> Nat]
  BY KoneksiSifat DEF Akhir, Kolom
<1>2. \A e \in Tepi : e.dari \in Simpul /\ e.ke \in Simpul /\ e.dari # Akhir
  <2>1. \A i \in DOMAIN koneksi : /\ koneksi[i].dari \in Simpul /\ koneksi[i].ke \in Simpul
                                  /\ koneksi[i].dari \in 0 .. n
    BY KoneksiSifat DEF SisiSah
  <2>2. \A x \in 0 .. n : x # Akhir
    BY <1>1 DEF Akhir
  <2> QED
    BY <2>1, <2>2 DEF Tepi
<1>3. batas \in Nat /\ \A x \in Simpul : k[x] <= batas
  BY <1>1, TerbesarCitra
<1> HIDE DEF batas
<1>4. b = [k EXCEPT ![Akhir] = batas + 1]
  BY DEF DenganAkhir, batas
<1> HIDE DEF b
<1>5. b \in Kolom
  BY <1>1, <1>3, <1>4 DEF Kolom
<1>6. ASSUME NEW e \in Tepi, Maju(e), Lajur(e.dari) = Lajur(e.ke)
      PROVE  b[e.dari] < b[e.ke]
  <2>1. k[e.dari] < k[e.ke] /\ k[e.dari] <= batas /\ k[e.dari] \in Nat
    BY <1>1, <1>2, <1>3, <1>6 DEF Terbaca
  <2>2. b[e.dari] = k[e.dari]
    BY <1>1, <1>2, <1>4
  <2>3. b[e.ke] = IF e.ke = Akhir THEN batas + 1 ELSE k[e.ke]
    BY <1>1, <1>2, <1>4
  <2> QED
    BY <1>3, <2>1, <2>2, <2>3
<1>7. Unik(b) \in Kolom /\ Terpisah(Unik(b)) /\ Terbaca(Unik(b))
  BY <1>2, <1>5, <1>6, UnikSifat DEF Terbaca
<1> QED
  BY <1>7 DEF b, Rapi

\* An edge that advances a column within its lane is read from left to right.
LEMMA PuasTerbaca ==
  ASSUME KoneksiSah, LompatSah, NEW k \in Kolom, \A i \in DOMAIN koneksi : Puas(k, i)
  PROVE  Terbaca(k)
<1>1. SUFFICES ASSUME NEW i \in DOMAIN koneksi, Maju(koneksi[i]),
                      Lajur(koneksi[i].dari) = Lajur(koneksi[i].ke)
               PROVE  k[koneksi[i].dari] < k[koneksi[i].ke]
  BY DEF Terbaca, Tepi
<1>2. lompat[i] = 1
  BY <1>1, LangkahiSifat DEF LompatSah
<1>3. k[koneksi[i].ke] >= k[koneksi[i].dari] + 1
  BY <1>1, <1>2 DEF Puas
<1>4. k[koneksi[i].dari] \in Nat /\ k[koneksi[i].ke] \in Nat
  BY KoneksiSifat DEF Kolom
<1> QED
  BY <1>3, <1>4

\* A pass over satisfied edges changes nothing.
LEMMA DorongSelesai ==
  ASSUME KoneksiSah, LompatSah, NEW k \in Kolom, \A i \in DOMAIN koneksi : Puas(k, i)
  PROVE  FoldLeft(DorongSatu, k, [i \in DOMAIN koneksi |-> i]) = k
<1> DEFINE M == Cardinality(SemuaSisi)
<1>1. PICK h : /\ Jejak(k, h)
               /\ FoldLeft(DorongSatu, k, [i \in DOMAIN koneksi |-> i]) = h[M]
  BY JejakAda
<1>2. M \in Nat /\ DOMAIN koneksi = 1 .. M
  BY KoneksiSifat
<1>3. h[0] = k /\ \A i \in 1 .. M : h[i] = DorongSatu(h[i - 1], i)
  BY <1>1, <1>2 DEF Jejak
<1> HIDE DEF M
<1> DEFINE B == {i \in 0 .. M : h[i] = k}
<1>4. 0 \in B
  BY <1>2, <1>3
<1>5. \A i \in 1 .. M : i - 1 \in B => i \in B
  BY <1>2, <1>3, DorongSatuSifat
<1>6. \A i \in 0 .. M : i \in B
  <2> HIDE DEF B
  <2> QED
    BY <1>2, <1>4, <1>5, InduksiSampai
<1>7. M \in 0 .. M
  BY <1>2
<1> QED
  BY <1>1, <1>6, <1>7

-----------------------------------------------------------------------------
(***************************************************************************)
(* The invariant.                                                          *)
(***************************************************************************)
Tahap == {"hubung", "peringkat", "geser", "dorong", "unik", "lurus", "selesai"}

\* The types: no edge is known before the edges are computed, then all of them are.
TypeOK ==
    /\ ProsedurSah
    /\ tahap \in Tahap
    /\ sapuan \in Nat
    /\ kolom \in Kolom
    /\ IF tahap = "hubung" THEN koneksi = <<>> ELSE KoneksiSah
    /\ tahap \notin {"hubung", "peringkat"} => LompatSah

\* Each pass of the propagation settles one shape more.
DorongMajuInv ==
    tahap = "dorong" => sapuan < BatasDorong /\ PuasSampai(kolom, sapuan)

\* The propagation leaves no edge unsatisfied.
DorongInv == tahap = "unik" => \A i \in DOMAIN koneksi : Puas(kolom, i)

\* The passes after it keep the shapes apart and the lanes readable.
RapiInv == tahap \in {"lurus", "selesai"} => kolom \in Rapi

\* The finished diagram has no empty column.
RapatInv == tahap = "selesai" => Rapat(kolom)

IInv == TypeOK /\ DorongMajuInv /\ DorongInv /\ RapiInv /\ RapatInv

\* What is computed from the rows changes with the rows only.
LEMMA TetapBaris ==
  ASSUME UNCHANGED <<baris, seed>>
  PROVE  /\ n' = n /\ Simpul' = Simpul /\ Kolom' = Kolom /\ SemuaSisi' = SemuaSisi
         /\ ProsedurSah' = ProsedurSah /\ BatasDorong' = BatasDorong
         /\ UrutKoneksi' = UrutKoneksi
<1>1. n' = n
  BY DEF n
<1>2. Simpul' = Simpul /\ Kolom' = Kolom /\ BatasDorong' = BatasDorong
  BY <1>1 DEF Simpul, Kolom, BatasDorong
<1>3. ProsedurSah' = ProsedurSah
  BY <1>1 DEF ProsedurSah, Baris
<1>4. SemuaSisi' = SemuaSisi
  BY <1>1 DEF SemuaSisi, SisiBaris, Sisi, Jenis, Akhir
<1>5. UrutKoneksi' = UrutKoneksi
  BY <1>1, <1>4 DEF UrutKoneksi, Mendahului, UrutanDaftar, Akhir, Rentang
<1> QED
  BY <1>1, <1>2, <1>3, <1>4, <1>5

\* What is computed from the edges changes with the rows and the edges only.
LEMMA TetapKoneksi ==
  ASSUME UNCHANGED <<baris, seed, koneksi>>
  PROVE  /\ KoneksiSah' = KoneksiSah /\ Rapi' = Rapi
         /\ lompat' = lompat => LompatSah' = LompatSah
         /\ lompat' = lompat => \A k, p : PuasSampai(k, p)' = PuasSampai(k, p)
<1>1. n' = n /\ Simpul' = Simpul /\ Kolom' = Kolom /\ SemuaSisi' = SemuaSisi
      /\ ProsedurSah' = ProsedurSah
  BY TetapBaris
<1>2. KoneksiSah' = KoneksiSah
  BY <1>1 DEF KoneksiSah
<1>3. Tepi' = Tepi
  BY DEF Tepi
<1>4. \A k : Terpisah(k)' = Terpisah(k)
  BY <1>1 DEF Terpisah, Lajur, Akhir
<1>5. \A k : Terbaca(k)' = Terbaca(k)
  BY <1>1, <1>3 DEF Terbaca, Lajur, Akhir, Maju
<1>6. Rapi' = Rapi
  BY <1>1, <1>4, <1>5 DEF Rapi
<1>7. lompat' = lompat => LompatSah' = LompatSah
  BY <1>1, <1>3 DEF LompatSah, Langkahi, ArahLintas, Arah, Pra, Jenis, Lajur, Akhir
<1>8. lompat' = lompat => \A k, p : PuasSampai(k, p)' = PuasSampai(k, p)
  BY DEF PuasSampai, Puas
<1> QED
  BY <1>2, <1>6, <1>7, <1>8

\* A change of the rows or of the seed starts from nothing.
LEMMA DariAwalInv ==
  ASSUME DariAwal, ProsedurSah'
  PROVE  IInv'
<1>1. tahap' = "hubung" /\ sapuan' = 0 /\ koneksi' = <<>> /\ kolom' = [x \in Simpul' |-> 0]
  BY DEF DariAwal, Lanjut
<1>2. (kolom \in Kolom)'
  BY <1>1 DEF Kolom
<1>3. TypeOK'
  BY <1>1, <1>2 DEF TypeOK, Tahap
<1> QED
  BY <1>1, <1>3 DEF IInv, DorongMajuInv, DorongInv, RapiInv, RapatInv

\* A procedure without one of its rows is a procedure.
LEMMA TanpaSah ==
  ASSUME ProsedurSah, n > 1, NEW i \in 1 .. n, baris' = Tanpa(i)
  PROVE  /\ n' = n - 1 /\ n' \in 1 .. MaxBaris
         /\ baris' \in [1 .. n' -> Baris']
<1> DEFINE asal(j) == baris[IF j < i THEN j ELSE j + 1]
           jenis(j) == IF j \in {1, n - 1} THEN "task" ELSE asal(j).jenis
           ke(t) == IF t = i THEN 0 ELSE IF t > i THEN t - 1 ELSE t
           sebelum(j) == {g \in 1 .. j : \A h \in 1 .. g : asal(h).lajur # asal(j).lajur}
           lajur(j) == Cardinality({asal(g).lajur : g \in sebelum(j)}) + 1
           tidak(j) == IF jenis(j) = "task" THEN 0 ELSE ke(asal(j).tidak)
<1>1. n \in Nat /\ n - 1 \in 1 .. MaxBaris /\ \A x \in 1 .. n : baris[x] \in Baris
  BY BatasAssumption DEF ProsedurSah
<1>2. baris' = [j \in 1 .. n - 1 |->
                  [lajur |-> lajur(j), jenis |-> jenis(j), ya |-> ke(asal(j).ya), tidak |-> tidak(j)]]
  BY DEF Tanpa
<1>3. n' = n - 1
  <2> HIDE DEF lajur, jenis, tidak, ke, asal
  <2> QED
    BY <1>1, <1>2 DEF n
<1>4. \A j \in 1 .. n - 1 : asal(j) \in Baris
  BY <1>1
<1>5. \A t \in 0 .. n : ke(t) \in 0 .. n - 1
  BY <1>1
<1>6. ASSUME NEW j \in 1 .. n - 1 PROVE lajur(j) \in Nat
  <2>1. IsFiniteSet(sebelum(j))
    <3>1. IsFiniteSet(1 .. j)
      BY <1>1, FS_Interval
    <3> QED
      BY <3>1, FS_Subset
  <2>2. IsFiniteSet({asal(g).lajur : g \in sebelum(j)})
    <3> DEFINE B == sebelum(j)
               f == [g \in B |-> asal(g).lajur]
               L == {asal(g).lajur : g \in B}
    <3> HIDE DEF sebelum, asal
    <3>1. f \in Surjection(B, L)
      BY DEF Surjection
    <3> HIDE DEF f, L
    <3> QED
      BY <2>1, <3>1, FS_Surjection DEF L
  <2> HIDE DEF sebelum, asal
  <2> QED
    BY <2>2, FS_CardinalityType
<1>7. ASSUME NEW j \in 1 .. n - 1
      PROVE  [lajur |-> lajur(j), jenis |-> jenis(j), ya |-> ke(asal(j).ya), tidak |-> tidak(j)]
                \in [lajur : Nat, jenis : {"task", "decision"}, ya : 0 .. n - 1, tidak : 0 .. n - 1]
  <2>1. asal(j).jenis \in {"task", "decision"} /\ asal(j).ya \in 0 .. n /\ asal(j).tidak \in 0 .. n
    BY <1>4 DEF Baris
  <2>2. ke(asal(j).ya) \in 0 .. n - 1 /\ ke(asal(j).tidak) \in 0 .. n - 1 /\ 0 \in 0 .. n - 1
    BY <1>1, <1>5, <2>1
  <2>3. jenis(j) \in {"task", "decision"} /\ tidak(j) \in 0 .. n - 1
    BY <2>1, <2>2
  <2> HIDE DEF lajur, jenis, tidak, ke, asal
  <2> QED
    BY <1>6, <2>2, <2>3
<1>8. Baris' = [lajur : Nat, jenis : {"task", "decision"}, ya : 0 .. n - 1, tidak : 0 .. n - 1]
  BY <1>3 DEF Baris
<1> HIDE DEF lajur, jenis, tidak, ke, asal
<1> QED
  BY <1>1, <1>2, <1>3, <1>7, <1>8

LEMMA InitInv == Init => IInv
<1>1. SUFFICES ASSUME NEW m \in 1 .. MaxBaris, NEW l \in UrutLajur(m),
                      baris = [i \in 1 .. m |-> Tugas(l[i])],
                      seed = 0, tahap = "hubung", sapuan = 0, koneksi = <<>>,
                      kolom = [x \in Simpul |-> 0]
               PROVE  IInv
  BY DEF Init
<1>2. m \in Nat /\ n = m
  BY <1>1, BatasAssumption DEF n
<1>3. \A i \in 1 .. m : l[i] \in 1 .. m
  BY DEF UrutLajur
<1>4. \A i \in 1 .. m : Tugas(l[i]) \in Baris
  BY <1>2, <1>3 DEF Tugas, Baris
<1>5. ProsedurSah
  BY <1>1, <1>2, <1>4, BatasAssumption DEF ProsedurSah
<1>6. kolom \in Kolom
  BY <1>1 DEF Kolom
<1> QED
  BY <1>1, <1>5, <1>6 DEF IInv, TypeOK, Tahap, DorongMajuInv, DorongInv, RapiInv, RapatInv

LEMMA NextInv == IInv /\ [Next]_vars => IInv'
<1> SUFFICES ASSUME IInv, [Next]_vars PROVE IInv'
  OBVIOUS
<1> USE DEF IInv
<1>0. TypeOK /\ ProsedurSah /\ n \in Nat
  BY BatasAssumption DEF TypeOK, ProsedurSah
<1>1. CASE Hubungkan
  <2>1. /\ koneksi' = UrutKoneksi /\ tahap' = "peringkat" /\ sapuan' = 0
        /\ UNCHANGED <<baris, seed, lompat, kolom>>
    BY <1>1 DEF Hubungkan, Lanjut
  <2>2. UrutKoneksi \in [1 .. Cardinality(SemuaSisi) -> SemuaSisi]
        /\ \A e \in SemuaSisi : \E i \in DOMAIN UrutKoneksi : UrutKoneksi[i] = e
    BY <1>0, UrutKoneksiSifat
  <2>3. ProsedurSah' /\ SemuaSisi' = SemuaSisi /\ Kolom' = Kolom
    BY <1>0, <2>1, TetapBaris
  <2>4. KoneksiSah'
    BY <2>1, <2>2, <2>3 DEF KoneksiSah
  <2>5. TypeOK'
    BY <1>0, <2>1, <2>3, <2>4 DEF TypeOK, Tahap
  <2> QED
    BY <2>1, <2>5 DEF DorongMajuInv, DorongInv, RapiInv, RapatInv
<1>2. CASE Peringkat
  <2>1. /\ tahap = "peringkat" /\ tahap' = "geser" /\ sapuan' = 0 /\ kolom' = Pangkat
        /\ lompat' = [i \in DOMAIN koneksi |->
                        Langkahi(koneksi[i].dari, koneksi[i].ke, Arah(koneksi[i].dari))]
        /\ UNCHANGED <<baris, seed, koneksi>>
    BY <1>2 DEF Peringkat, Lanjut
  <2>2. KoneksiSah
    BY <2>1 DEF TypeOK
  <2>3. KoneksiSah' /\ ProsedurSah' /\ Kolom' = Kolom
    BY <1>0, <2>1, <2>2, TetapBaris, TetapKoneksi
  <2>4. kolom' \in Kolom
    BY <2>1, <2>2, PangkatTipe
  <2>5. LompatSah'
    BY <2>1 DEF LompatSah, Langkahi, ArahLintas, Arah, Pra, Tepi, Maju, Jenis, Lajur, Akhir, n
  <2>6. TypeOK'
    BY <2>1, <2>3, <2>4, <2>5 DEF TypeOK, Tahap
  <2> QED
    BY <2>1, <2>6 DEF DorongMajuInv, DorongInv, RapiInv, RapatInv
<1>3. CASE GeserCabang
  <2>1. /\ tahap = "geser" /\ tahap' = "dorong" /\ sapuan' = 0
        /\ kolom' = FoldLeft(GeserSatu, kolom, [i \in 1 .. n |-> i])
        /\ UNCHANGED <<baris, seed, koneksi, lompat>>
    BY <1>3 DEF GeserCabang, Lanjut
  <2>2. KoneksiSah /\ LompatSah /\ kolom \in Kolom
    BY <2>1 DEF TypeOK
  <2>3. KoneksiSah' /\ LompatSah' /\ ProsedurSah' /\ Kolom' = Kolom
        /\ BatasDorong' = BatasDorong
    BY <1>0, <2>1, <2>2, TetapBaris, TetapKoneksi
  <2>4. kolom' \in Kolom
    BY <2>1, <2>2, GeserTipe
  <2>5. TypeOK'
    BY <2>1, <2>3, <2>4 DEF TypeOK, Tahap
  <2>6. PuasSampai(kolom, 0)'
    <3>1. \A i \in DOMAIN koneksi : ~(koneksi[i].ke <= 0)
      <4>1. \A i \in DOMAIN koneksi : koneksi[i].ke \in 1 .. n + 1
        BY <2>2, KoneksiSifat DEF SisiSah
      <4> QED
        BY <1>0, <4>1
    <3> QED
      BY <2>1, <3>1 DEF PuasSampai
  <2>7. 0 < BatasDorong
    BY <1>0 DEF BatasDorong
  <2> QED
    BY <2>1, <2>3, <2>5, <2>6, <2>7 DEF DorongMajuInv, DorongInv, RapiInv, RapatInv
<1>4. CASE Dorong
  <2> DEFINE k == FoldLeft(DorongSatu, kolom, [i \in DOMAIN koneksi |-> i])
  <2>1. /\ tahap = "dorong" /\ kolom' = k
        /\ \/ (k = kolom \/ sapuan + 1 = BatasDorong) /\ tahap' = "unik" /\ sapuan' = 0
           \/ /\ ~(k = kolom \/ sapuan + 1 = BatasDorong)
              /\ tahap' = "dorong" /\ sapuan' = sapuan + 1
        /\ UNCHANGED <<baris, seed, koneksi, lompat>>
    BY <1>4 DEF Dorong, Lanjut
  <2> HIDE DEF k
  <2>2. KoneksiSah /\ LompatSah /\ kolom \in Kolom /\ sapuan \in Nat
        /\ sapuan < BatasDorong /\ PuasSampai(kolom, sapuan)
    BY <2>1 DEF TypeOK, DorongMajuInv
  <2>3. KoneksiSah' /\ LompatSah' /\ ProsedurSah' /\ Kolom' = Kolom
        /\ BatasDorong' = BatasDorong
    BY <1>0, <2>1, <2>2, TetapBaris, TetapKoneksi
  <2>4. k \in Kolom
    BY <2>2, DorongTipe DEF k
  <2>5. TypeOK'
    BY <2>1, <2>2, <2>3, <2>4 DEF TypeOK, Tahap
  <2>6. PuasSampai(k, sapuan + 1)
    BY <2>2, DorongMaju DEF k
  <2>7. CASE tahap' = "dorong"
    <3>1. sapuan + 1 < BatasDorong
      BY <1>0, <2>1, <2>2, <2>7 DEF BatasDorong
    <3>2. PuasSampai(kolom, sapuan)'
      BY <2>1, <2>6, <2>7 DEF PuasSampai, Puas
    <3> QED
      BY <2>1, <2>3, <2>5, <2>7, <3>1, <3>2 DEF DorongMajuInv, DorongInv, RapiInv, RapatInv
  <2>8. CASE tahap' = "unik"
    <3>1. CASE k = kolom
      <4>1. \A i \in DOMAIN koneksi : Puas(k, i)
        BY <2>2, <3>1, DorongDiam DEF k
      <4> QED
        BY <2>1, <2>5, <2>8, <4>1 DEF DorongMajuInv, DorongInv, RapiInv, RapatInv, Puas
    <3>2. CASE sapuan + 1 = BatasDorong
      <4>1. \A i \in DOMAIN koneksi : koneksi[i].ke \in 1 .. n + 1
        BY <2>2, KoneksiSifat DEF SisiSah
      <4>2. \A i \in DOMAIN koneksi : koneksi[i].ke <= sapuan + 1
        BY <1>0, <3>2, <4>1 DEF BatasDorong
      <4>3. \A i \in DOMAIN koneksi : Puas(k, i)
        BY <2>6, <4>2 DEF PuasSampai
      <4> QED
        BY <2>1, <2>5, <2>8, <4>3 DEF DorongMajuInv, DorongInv, RapiInv, RapatInv, Puas
    <3> QED
      BY <2>1, <2>8, <3>1, <3>2
  <2> QED
    BY <2>1, <2>7, <2>8
<1>5. CASE Unikkan
  <2>1. /\ tahap = "unik" /\ tahap' = "lurus" /\ sapuan' = 0
        /\ kolom' = Unik(DenganAkhir(kolom))
        /\ UNCHANGED <<baris, seed, koneksi, lompat>>
    BY <1>5 DEF Unikkan, Lanjut
  <2>2. KoneksiSah /\ LompatSah /\ kolom \in Kolom /\ \A i \in DOMAIN koneksi : Puas(kolom, i)
    BY <2>1 DEF TypeOK, DorongInv
  <2>3. KoneksiSah' /\ LompatSah' /\ ProsedurSah' /\ Kolom' = Kolom /\ Rapi' = Rapi
    BY <1>0, <2>1, <2>2, TetapBaris, TetapKoneksi
  <2>4. kolom' \in Rapi
    BY <2>1, <2>2, PuasTerbaca, UnikRapi
  <2>5. kolom' \in Kolom
    BY <2>4 DEF Rapi
  <2>6. TypeOK'
    BY <2>1, <2>3, <2>5 DEF TypeOK, Tahap
  <2> QED
    BY <2>1, <2>3, <2>4, <2>6 DEF DorongMajuInv, DorongInv, RapiInv, RapatInv
<1>6. CASE Luruskan
  <2>1. /\ tahap = "lurus" /\ tahap' \in {"lurus", "selesai"} /\ sapuan' \in {0, sapuan + 1}
        /\ kolom' = Padat(Lurus(kolom))
        /\ UNCHANGED <<baris, seed, koneksi, lompat>>
    BY <1>6 DEF Luruskan, Lanjut
  <2>2. KoneksiSah /\ LompatSah /\ kolom \in Rapi /\ sapuan \in Nat
    BY <2>1 DEF TypeOK, RapiInv
  <2>3. KoneksiSah' /\ LompatSah' /\ ProsedurSah' /\ Kolom' = Kolom /\ Rapi' = Rapi
    BY <1>0, <2>1, <2>2, TetapBaris, TetapKoneksi
  <2>4. kolom' \in Rapi
    BY <2>1, <2>2, LurusSifat, PadatSifat
  <2>5. kolom' \in Kolom
    BY <2>4 DEF Rapi
  <2>6. TypeOK'
    BY <2>1, <2>2, <2>3, <2>5 DEF TypeOK, Tahap
  <2>7. RapatInv'
    <3>1. Lurus(kolom) \in Kolom
      BY <2>2, LurusSifat DEF Rapi
    <3>2. Rapat(Padat(Lurus(kolom)))
      BY <2>2, <3>1, PadatRapat
    <3>3. Rapat(kolom')
      BY <2>1, <3>2
    <3>4. Simpul' = Simpul
      BY <2>1, TetapBaris
    <3> QED
      BY <3>3, <3>4 DEF RapatInv, Rapat
  <2> QED
    BY <2>1, <2>3, <2>4, <2>6, <2>7 DEF DorongMajuInv, DorongInv, RapiInv
<1>7. CASE AturUlang
  <2>1. DariAwal /\ seed < MaxSeed /\ seed' = seed + 1 /\ baris' = baris
    BY <1>7 DEF AturUlang
  <2>2. n' = n
    BY <2>1 DEF n
  <2>3. ProsedurSah'
    BY <1>0, <2>1, <2>2, BatasAssumption DEF ProsedurSah, Baris
  <2> QED
    BY <2>1, <2>3, DariAwalInv
<1>8. CASE JadikanKeputusan
  <2>1. PICK i \in 2 .. n - 1, ya \in 0 .. n, tidak \in 0 .. n :
            baris' = [baris EXCEPT ![i].jenis = "decision", ![i].ya = ya, ![i].tidak = tidak]
    BY <1>8 DEF JadikanKeputusan
  <2>2. DariAwal /\ seed' = seed
    BY <1>8 DEF JadikanKeputusan
  <2>3. baris \in [1 .. n -> Baris] /\ i \in 1 .. n
    BY <1>0 DEF ProsedurSah
  <2>4. baris' \in [1 .. n -> Baris]
    <3>1. baris[i] \in Baris
      BY <2>3
    <3>2. [[[baris[i] EXCEPT !.jenis = "decision"] EXCEPT !.ya = ya] EXCEPT !.tidak = tidak]
            \in Baris
      BY <3>1 DEF Baris
    <3> QED
      BY <2>1, <2>3, <3>2
  <2>5. n' = n
    BY <1>0, <2>4 DEF n
  <2>6. ProsedurSah'
    BY <1>0, <2>2, <2>4, <2>5 DEF ProsedurSah, Baris
  <2> QED
    BY <2>2, <2>6, DariAwalInv
<1>9. CASE JadikanTugas
  <2>1. PICK i \in 1 .. n : baris' = [baris EXCEPT ![i].jenis = "task", ![i].tidak = 0]
    BY <1>9 DEF JadikanTugas
  <2>2. DariAwal /\ seed' = seed
    BY <1>9 DEF JadikanTugas
  <2>3. baris' \in [1 .. n -> Baris]
    <3>1. baris \in [1 .. n -> Baris] /\ baris[i] \in Baris
      BY <1>0 DEF ProsedurSah
    <3>2. 0 \in 0 .. n
      BY <1>0
    <3>3. [[baris[i] EXCEPT !.jenis = "task"] EXCEPT !.tidak = 0] \in Baris
      BY <3>1, <3>2 DEF Baris
    <3> QED
      BY <2>1, <3>1, <3>3
  <2>4. n' = n
    BY <1>0, <2>3 DEF n
  <2>5. ProsedurSah'
    BY <1>0, <2>2, <2>3, <2>4 DEF ProsedurSah, Baris
  <2> QED
    BY <2>2, <2>5, DariAwalInv
<1>10. CASE HapusBaris
  <2>1. PICK i \in 1 .. n : baris' = Tanpa(i)
    BY <1>10 DEF HapusBaris
  <2>2. DariAwal /\ seed' = seed /\ n > 1
    BY <1>10 DEF HapusBaris
  <2>3. /\ n' = n - 1 /\ n' \in 1 .. MaxBaris
        /\ baris' \in [1 .. n' -> Baris']
    BY <1>0, <2>1, <2>2, TanpaSah
  <2>4. ProsedurSah'
    BY <1>0, <2>2, <2>3 DEF ProsedurSah
  <2> QED
    BY <2>2, <2>4, DariAwalInv
<1>11. CASE UNCHANGED vars
  <2>1. UNCHANGED <<baris, seed, koneksi, lompat, tahap, sapuan, kolom>>
    BY <1>11 DEF vars
  <2>2. ProsedurSah' = ProsedurSah /\ Kolom' = Kolom /\ BatasDorong' = BatasDorong
        /\ KoneksiSah' = KoneksiSah /\ LompatSah' = LompatSah /\ Rapi' = Rapi
        /\ \A k, p : PuasSampai(k, p)' = PuasSampai(k, p)
    BY <2>1, TetapBaris, TetapKoneksi
  <2>3. TypeOK'
    BY <1>0, <2>1, <2>2 DEF TypeOK
  <2>4. DorongMajuInv' /\ RapiInv'
    BY <2>1, <2>2 DEF DorongMajuInv, RapiInv, PuasSampai, Puas
  <2>5. DorongInv'
    BY <2>1 DEF DorongInv, Puas
  <2>6. RapatInv'
    <3>1. Simpul' = Simpul
      BY <2>1, TetapBaris
    <3> QED
      BY <2>1, <3>1 DEF RapatInv, Rapat
  <2> QED
    BY <2>3, <2>4, <2>5, <2>6
<1> QED
  BY <1>1, <1>2, <1>3, <1>4, <1>5, <1>6, <1>7, <1>8, <1>9, <1>10, <1>11 DEF Next

\* The invariant holds of every behaviour.
THEOREM InvarianTataLetak == Spec => []IInv
<1>1. Init => IInv
  BY InitInv
<1>2. IInv /\ [Next]_vars => IInv'
  BY NextInv
<1> QED
  BY <1>1, <1>2, PTL DEF Spec

\* The types hold: every pass finds all its edges and leaves every shape with a column.
THEOREM TipeTataLetak == Spec => []TypeOK
<1>1. IInv => TypeOK
  BY DEF IInv
<1> QED
  BY <1>1, InvarianTataLetak, PTL

\* enforceForwardMonotonicColumns is complete: when its loop ends, every edge to a later
\* row advances the columns it has to, in a procedure of any length, with any branches
\* and in whatever order the hash puts the edges.
THEOREM DorongTuntasBenar == Spec => []DorongTuntas
<1>1. IInv => DorongTuntas
  BY DEF IInv, DorongInv, DorongTuntas, Puas
<1> QED
  BY <1>1, InvarianTataLetak, PTL

\* The bound of that loop is never what ends it: the pass it ends with changed nothing.
THEOREM DorongBerhentiTenang ==
  Spec => [][tahap = "dorong" /\ tahap' = "unik" => kolom' = kolom]_vars
<1>1. IInv /\ [Next]_vars => [tahap = "dorong" /\ tahap' = "unik" => kolom' = kolom]_vars
  <2>1. SUFFICES ASSUME IInv, Next, tahap = "dorong", tahap' = "unik" PROVE kolom' = kolom
    OBVIOUS
  <2> DEFINE k == FoldLeft(DorongSatu, kolom, [i \in DOMAIN koneksi |-> i])
  <2>2. kolom' = k /\ (k = kolom \/ sapuan + 1 = BatasDorong)
    BY <2>1 DEF Next, Hubungkan, Peringkat, GeserCabang, Dorong, Unikkan, Luruskan,
                AturUlang, JadikanKeputusan, JadikanTugas, HapusBaris, Lanjut
  <2>3. KoneksiSah /\ LompatSah /\ kolom \in Kolom /\ PuasSampai(kolom, sapuan) /\ sapuan \in Nat
    BY <2>1 DEF IInv, TypeOK, DorongMajuInv
  <2>4. CASE sapuan + 1 = BatasDorong
    <3>1. n \in Nat /\ \A i \in DOMAIN koneksi : koneksi[i].ke \in 1 .. n + 1
      BY <2>3, KoneksiSifat DEF SisiSah
    <3>2. \A i \in DOMAIN koneksi : koneksi[i].ke <= sapuan
      BY <2>3, <2>4, <3>1 DEF BatasDorong
    <3>3. \A i \in DOMAIN koneksi : Puas(kolom, i)
      BY <2>3, <3>2 DEF PuasSampai
    <3> QED
      BY <2>2, <2>3, <3>3, DorongSelesai
  <2> HIDE DEF k
  <2> QED
    BY <2>2, <2>4
<1> QED
  BY <1>1, InvarianTataLetak, PTL DEF Spec

\* No two shapes share a lane and a column, neither when the columns of the lanes were
\* made distinct nor after straightenSimpleCrossLaneTaskChains pulled shapes back.
THEOREM SatuPerKolomBenar == Spec => []SatuPerKolom
<1>1. IInv => SatuPerKolom
  BY DEF IInv, RapiInv, Rapi, Terpisah, SatuPerKolom
<1> QED
  BY <1>1, InvarianTataLetak, PTL

\* In the finished diagram every edge to a later row of its own lane points to the right.
THEOREM ArahBacaBenar == Spec => []ArahBaca
<1>1. IInv => ArahBaca
  BY DEF IInv, RapiInv, Rapi, Terbaca, ArahBaca, Jadi
<1> QED
  BY <1>1, InvarianTataLetak, PTL

\* compactStepColumnIndices: in the finished diagram no column before a shape is empty.
THEOREM TanpaKolomKosong ==
  Spec => [](tahap = "selesai" => \A x \in Simpul : \A c \in 0 .. kolom[x] :
                                      \E y \in Simpul : kolom[y] = c)
<1>1. IInv => (tahap = "selesai" => \A x \in Simpul : \A c \in 0 .. kolom[x] :
                                      \E y \in Simpul : kolom[y] = c)
  BY DEF IInv, RapatInv, Rapat
<1> QED
  BY <1>1, InvarianTataLetak, PTL

\* sortConnectionsForRouting loses no edge and doubles none, whatever the seed and the
\* hash: the passes visit every edge of the procedure once.
THEOREM SisiSekali ==
  Spec => [](tahap # "hubung" =>
                /\ Tepi = SemuaSisi
                /\ \A i, j \in DOMAIN koneksi : koneksi[i] = koneksi[j] => i = j)
<1>1. IInv => (tahap # "hubung" =>
                /\ Tepi = SemuaSisi
                /\ \A i, j \in DOMAIN koneksi : koneksi[i] = koneksi[j] => i = j)
  <2>1. SUFFICES ASSUME KoneksiSah
                 PROVE  /\ Tepi = SemuaSisi
                        /\ \A i, j \in DOMAIN koneksi : koneksi[i] = koneksi[j] => i = j
    BY DEF IInv, TypeOK
  <2> DEFINE m == Cardinality(SemuaSisi)
  <2>2. m \in Nat /\ DOMAIN koneksi = 1 .. m /\ Tepi = SemuaSisi
    BY <2>1, KoneksiSifat
  <2>3. koneksi \in Surjection(1 .. m, SemuaSisi)
    BY <2>1, <2>2 DEF KoneksiSah, Surjection
  <2>4. IsFiniteSet(1 .. m) /\ Cardinality(1 .. m) = m
    <3> HIDE DEF m
    <3> QED
      BY <2>2, FS_Interval
  <2>5. koneksi \in Injection(1 .. m, SemuaSisi)
    BY <2>3, <2>4, FS_Surjection
  <2> QED
    BY <2>2, <2>5 DEF Injection, IsInjective
<1> QED
  BY <1>1, InvarianTataLetak, PTL
=============================================================================
