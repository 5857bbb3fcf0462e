------------------------------ MODULE FoldLemmas ------------------------------
(***************************************************************************)
(* What a left fold over a sequence computes, for every step and every     *)
(* start: the sums of money and the passes over books and files of the     *)
(* models are such folds.  A module that reasons about one instantiates    *)
(* this one with                                                           *)
(*     op(p, acc, x)   the step,     base(p)   where it starts,            *)
(* p being whatever else the two depend on, and cites FoldEmpty,           *)
(* FoldAppend and, for what must be shown for every sequence,              *)
(* SequenceInduction.                                                      *)
(*                                                                         *)
(* Fold is FoldLeft of SequencesExt written out, so that an instance of    *)
(* this module does not bring all of that one.                             *)
(*                                                                         *)
(* FoldLeft is defined by a CHOOSE of a recursive function on the subsets  *)
(* of the domain.  That there is one is proved here, from the least number *)
(* of a set of naturals, and not assumed.                                  *)
(***************************************************************************)
EXTENDS Integers, Sequences, FiniteSetsExt, FiniteSetTheorems, TLAPS

CONSTANTS op(_, _, _), base(_)

Fold(p, s) ==
    MapThenFoldSet(LAMBDA x, acc : op(p, acc, x), base(p), LAMBDA i : s[i], LAMBDA S : Max(S), DOMAIN s)

-----------------------------------------------------------------------------
(* Induction. *)
LessThan == {pair \in Nat \X Nat : pair[1] < pair[2]}

\* A set of naturals that is not empty has a least element.
LEMMA LeastNumber ==
    ASSUME NEW T \in SUBSET Nat, T # {}
    PROVE  \E x \in T : \A y \in T : x <= y
<1>1. IsWellFoundedOn(LessThan, Nat)
  BY NatLessThanWellFounded DEF OpToRel, LessThan
<1>2. PICK x \in T : \A y \in T : <<y, x>> \notin LessThan
  BY <1>1, WFMin
<1>3. \A y \in T : ~(y < x)
  BY <1>2 DEF LessThan
<1> QED
  BY <1>3

\* A set with 0 and the successor of each of its numbers has all of them.
LEMMA Induction ==
    ASSUME NEW S, 0 \in S, \A n \in Nat : n \in S => n + 1 \in S
    PROVE  Nat \subseteq S
<1> DEFINE T == Nat \ S
<1>1. ASSUME T # {} PROVE FALSE
  <2>1. PICK x \in T : \A y \in T : x <= y
    BY <1>1, LeastNumber
  <2>2. x # 0
    BY <2>1
  <2>3. x - 1 \in S
    BY <2>1, <2>2
  <2> QED
    BY <2>1, <2>2, <2>3
<1> QED
  BY <1>1

\* Max chooses the largest number of a finite interval's subset.
LEMMA MaxOf ==
    ASSUME NEW n \in Nat, NEW T \in SUBSET (1 .. n), T # {}
    PROVE  Max(T) \in T /\ \A t \in T : Max(T) >= t
<1> DEFINE Gap == {n - t : t \in T}
<1>0. \A t \in T : t \in 1 .. n /\ n - t \in Nat
  OBVIOUS
<1>1. Gap \in SUBSET Nat /\ Gap # {}
  BY <1>0
<1>2. PICK d \in Gap : \A e \in Gap : d <= e
  BY <1>1, LeastNumber
<1>3. PICK m \in T : d = n - m
  BY <1>2
<1>4. ASSUME NEW t \in T PROVE m >= t
  <2>1. n - m <= n - t
    BY <1>2, <1>3
  <2> QED
    BY <2>1, <1>0
<1> QED
  BY <1>3, <1>4 DEF Max

-----------------------------------------------------------------------------
(* The recursive function behind a fold exists: it takes the elements of a finite set in the *)
(* order in which m chooses them, x as q[x].                                                 *)
Small(S, n) == {s \in SUBSET S : Cardinality(s) <= n}
Step(p, q, m, g, s) == IF s = {} THEN base(p) ELSE op(p, g[s \ {m[s]}], q[m[s]])
Recursion(p, q, m, S, g) == g = [s \in S |-> Step(p, q, m, g, s)]

\* It is built for the subsets of at most 0, 1, 2... elements.
LEMMA RecursionExists ==
    ASSUME NEW p, NEW q, NEW m, NEW S, IsFiniteSet(S), \A s \in SUBSET S : s # {} => m[s] \in s
    PROVE  \E g : Recursion(p, q, m, SUBSET S, g)
<1> DEFINE Good == {k \in Nat : \E g : g = [s \in Small(S, k) |-> Step(p, q, m, g, s)]}
<1>0. /\ \A s \in SUBSET S : IsFiniteSet(s) /\ Cardinality(s) \in Nat /\ Cardinality(s) <= Cardinality(S)
      /\ \A s \in SUBSET S : s # {} => m[s] \in s
  <2>1. \A s \in SUBSET S : IsFiniteSet(s) /\ Cardinality(s) <= Cardinality(S)
    BY FS_Subset
  <2>2. \A s \in SUBSET S : Cardinality(s) \in Nat
    BY <2>1, FS_CardinalityType
  <2> QED
    BY <2>1, <2>2
<1>1. 0 \in Good
  <2> DEFINE g == [s \in Small(S, 0) |-> base(p)]
  <2>1. \A s \in Small(S, 0) : s = {}
    BY <1>0, FS_EmptySet DEF Small
  <2>2. \A s \in Small(S, 0) : Step(p, q, m, g, s) = base(p)
    BY <2>1 DEF Step
  <2>3. g = [s \in Small(S, 0) |-> Step(p, q, m, g, s)]
    BY <2>2
  <2> QED
    BY <2>3
<1>2. ASSUME NEW k \in Nat, k \in Good PROVE k + 1 \in Good
  <2>1. PICK g : g = [s \in Small(S, k) |-> Step(p, q, m, g, s)]
    BY <1>2
  <2> DEFINE h == [s \in Small(S, k + 1) |-> Step(p, q, m, g, s)]
  <2>2. \A s \in Small(S, k + 1) : s # {} => s \ {m[s]} \in Small(S, k)
    <3> SUFFICES ASSUME NEW s \in Small(S, k + 1), s # {} PROVE s \ {m[s]} \in Small(S, k)
      OBVIOUS
    <3>1. s \in SUBSET S /\ Cardinality(s) <= k + 1 /\ IsFiniteSet(s) /\ m[s] \in s
      BY <1>0 DEF Small
    <3>2. Cardinality(s \ {m[s]}) = Cardinality(s) - 1
      BY <3>1, FS_RemoveElement
    <3> QED
      BY <3>1, <3>2, <1>0 DEF Small
  <2>3. \A s \in Small(S, k) : s \in Small(S, k + 1) /\ h[s] = g[s]
    BY <2>1, <1>0 DEF Small
  <2>4. \A s \in Small(S, k + 1) : Step(p, q, m, g, s) = Step(p, q, m, h, s)
    BY <2>2, <2>3 DEF Step
  <2>5. h = [s \in Small(S, k + 1) |-> Step(p, q, m, h, s)]
    BY <2>4
  <2> HIDE DEF h
  <2> QED
    BY <2>5
<1> HIDE DEF Good
<1>3. Cardinality(S) \in Good
  BY <1>0, <1>1, <1>2, Induction
<1>4. Small(S, Cardinality(S)) = SUBSET S
  BY <1>0 DEF Small
<1> QED
  BY <1>3, <1>4 DEF Good, Recursion

\* The values of the fold, prefix by prefix.
FoldsOfPrefixes(p, s, h) ==
    /\ h[0] = base(p)
    /\ \A n \in 1 .. Len(s) : h[n] = op(p, h[n - 1], s[n])

\* A fold is the last of the values it takes on the prefixes.
LEMMA FoldByPrefixes ==
    ASSUME NEW E, NEW s \in Seq(E), NEW p
    PROVE  \E h : FoldsOfPrefixes(p, s, h) /\ h[Len(s)] = Fold(p, s)
<1> DEFINE S == 1 .. Len(s)
           G == CHOOSE g : g = [t \in SUBSET S |-> IF t = {} THEN base(p) ELSE op(p, g[t \ {Max(t)}], s[Max(t)])]
           h == [n \in 0 .. Len(s) |-> G[1 .. n]]
<1>1. G = [t \in SUBSET S |-> IF t = {} THEN base(p) ELSE op(p, G[t \ {Max(t)}], s[Max(t)])]
  <2> DEFINE m == [t \in SUBSET S |-> Max(t)]
  <2>0. IsFiniteSet(S) /\ (\A t \in SUBSET S : m[t] = Max(t)) /\ \A t \in SUBSET S : t # {} => m[t] \in t
    <3>1. Len(s) \in Nat
      OBVIOUS
    <3>2. IsFiniteSet(S)
      BY <3>1, FS_Interval
    <3>3. \A t \in SUBSET S : t # {} => Max(t) \in t
      BY <3>1, MaxOf
    <3> QED
      BY <3>2, <3>3
  <2> HIDE DEF m, S
  <2>1. PICK g : Recursion(p, s, m, SUBSET S, g)
    <3>1. \A t \in SUBSET S : t # {} => m[t] \in t
      BY <2>0
    <3> QED
      BY <2>0, <3>1, RecursionExists
  <2>2. g = [t \in SUBSET S |-> IF t = {} THEN base(p) ELSE op(p, g[t \ {Max(t)}], s[Max(t)])]
    BY <2>0, <2>1 DEF Recursion, Step
  <2> QED
    BY <2>2
<1>2. DOMAIN s = S
  OBVIOUS
<1>3. Fold(p, s) = G[S]
  BY <1>2 DEF Fold, MapThenFoldSet
<1> HIDE DEF G
<1>4. h[0] = base(p)
  <2>1. 1 .. 0 = {}
    OBVIOUS
  <2> QED
    BY <1>1, <2>1
<1>5. ASSUME NEW n \in 1 .. Len(s) PROVE h[n] = op(p, h[n - 1], s[n])
  <2>1. (1 .. n) \in SUBSET S /\ 1 .. n # {} /\ n \in Nat
    OBVIOUS
  <2>2. Max(1 .. n) = n
    <3> DEFINE T == 1 .. n
    <3>1. T \in SUBSET (1 .. n) /\ T # {} /\ n \in T /\ \A k \in T : k \in Int /\ k <= n
      BY <2>1
    <3> HIDE DEF T
    <3>2. Max(T) \in T /\ \A k \in T : Max(T) >= k
      BY <2>1, <3>1, MaxOf
    <3>3. \A k \in T : k >= n => k = n
      BY <2>1, <3>1
    <3>4. Max(T) = n
      BY <3>1, <3>2, <3>3
    <3> QED
      BY <3>4 DEF T
  <2>3. (1 .. n) \ {n} = 1 .. (n - 1)
    OBVIOUS
  <2>4. G[1 .. n] = op(p, G[(1 .. n) \ {Max(1 .. n)}], s[Max(1 .. n)])
    BY <1>1, <2>1
  <2>5. h[n] = G[1 .. n] /\ h[n - 1] = G[1 .. (n - 1)]
    BY <2>1
  <2> HIDE DEF h
  <2> QED
    BY <2>2, <2>3, <2>4, <2>5
<1>6. h[Len(s)] = G[S]
  OBVIOUS
<1> HIDE DEF h
<1> QED
  BY <1>3, <1>4, <1>5, <1>6 DEF FoldsOfPrefixes

\* On a common prefix two sequences take the same values.
LEMMA PrefixesAgree ==
    ASSUME NEW E, NEW s \in Seq(E), NEW t \in Seq(E), NEW p, NEW g, NEW h, FoldsOfPrefixes(p, s, g), FoldsOfPrefixes(p, t, h),
           NEW m \in Nat, m <= Len(s), m <= Len(t), \A i \in 1 .. m : s[i] = t[i]
    PROVE  g[m] = h[m]
<1> DEFINE Same == {n \in Nat : n <= m => g[n] = h[n]}
<1>1. 0 \in Same
  BY DEF FoldsOfPrefixes
<1>2. \A n \in Nat : n \in Same => n + 1 \in Same
  <2> SUFFICES ASSUME NEW n \in Nat, n \in Same, n + 1 <= m PROVE g[n + 1] = h[n + 1]
    OBVIOUS
  <2>1. n + 1 \in 1 .. Len(s) /\ n + 1 \in 1 .. Len(t) /\ (n + 1) - 1 = n /\ g[n] = h[n] /\ s[n + 1] = t[n + 1]
    OBVIOUS
  <2> QED
    BY <2>1 DEF FoldsOfPrefixes
<1> HIDE DEF Same
<1>3. m \in Same
  BY <1>1, <1>2, Induction
<1> QED
  BY <1>3 DEF Same

\* The fold of nothing is where it starts.
THEOREM FoldEmpty == \A p : Fold(p, <<>>) = base(p)
<1> SUFFICES ASSUME NEW p PROVE Fold(p, <<>>) = base(p)
  OBVIOUS
<1>1. <<>> \in Seq({}) /\ Len(<<>>) = 0
  OBVIOUS
<1> QED
  BY <1>1, FoldByPrefixes DEF FoldsOfPrefixes

\* One element more is one step more.
THEOREM FoldAppend ==
    \A E, p : \A s \in Seq(E), x \in E : Fold(p, Append(s, x)) = op(p, Fold(p, s), x)
<1> SUFFICES ASSUME NEW E, NEW p, NEW s \in Seq(E), NEW x \in E
             PROVE  Fold(p, Append(s, x)) = op(p, Fold(p, s), x)
  OBVIOUS
<1> DEFINE t == Append(s, x)
           n == Len(s)
<1>1. t \in Seq(E) /\ n \in Nat /\ Len(t) = n + 1 /\ t[n + 1] = x /\ \A i \in 1 .. n : t[i] = s[i]
  OBVIOUS
<1> HIDE DEF t, n
<1>2. PICK g : FoldsOfPrefixes(p, s, g) /\ g[n] = Fold(p, s)
  BY FoldByPrefixes DEF n
<1>3. PICK h : FoldsOfPrefixes(p, t, h) /\ h[n + 1] = Fold(p, t)
  BY <1>1, FoldByPrefixes
<1>4. g[n] = h[n]
  <2>1. n = Len(s) /\ n <= n /\ n <= Len(t)
    BY <1>1 DEF n
  <2> QED
    BY <1>1, <1>2, <1>3, <2>1, PrefixesAgree
<1>5. h[n + 1] = op(p, h[n], x)
  <2>1. n + 1 \in 1 .. Len(t) /\ (n + 1) - 1 = n
    BY <1>1
  <2>2. h[n + 1] = op(p, h[(n + 1) - 1], t[n + 1])
    BY <1>3, <2>1 DEF FoldsOfPrefixes
  <2> QED
    BY <1>1, <2>1, <2>2
<1> QED
  BY <1>2, <1>3, <1>4, <1>5 DEF t

-----------------------------------------------------------------------------
(* What holds of the empty sequence and of every longer one by a last       *)
(* element holds of all of them.                                            *)
THEOREM SequenceInduction ==
    ASSUME NEW E, NEW S, <<>> \in S,
           \A s \in Seq(E) : \A x \in E : s \in S => Append(s, x) \in S
    PROVE  Seq(E) \subseteq S
<1> DEFINE Good == {n \in Nat : \A s \in Seq(E) : Len(s) = n => s \in S}
<1>1. 0 \in Good
  OBVIOUS
<1>2. ASSUME NEW n \in Nat, n \in Good PROVE n + 1 \in Good
  <2> SUFFICES ASSUME NEW s \in Seq(E), Len(s) = n + 1 PROVE s \in S
    OBVIOUS
  <2> DEFINE t == [i \in 1 .. n |-> s[i]]
  <2>1. t \in Seq(E) /\ Len(t) = n
    OBVIOUS
  <2>2. s[n + 1] \in E
    OBVIOUS
  <2>3. s = Append(t, s[n + 1])
    BY <2>1, <2>2
  <2> HIDE DEF t
  <2> QED
    BY <1>2, <2>1, <2>2, <2>3
<1> HIDE DEF Good
<1>3. Nat \subseteq Good
  BY <1>1, <1>2, Induction
<1> QED
  BY <1>3 DEF Good

\* What holds of no elements, and of one element more, holds of a finite set.
THEOREM SetInduction ==
    ASSUME NEW S, IsFiniteSet(S), NEW G, {} \in G, \A T \in SUBSET S, x \in S : x \notin T /\ T \in G => T \union {x} \in G
    PROVE  S \in G
<1> DEFINE Good == {n \in Nat : \A T \in SUBSET S : Cardinality(T) = n => T \in G}
<1>0. \A T \in SUBSET S : IsFiniteSet(T) /\ Cardinality(T) \in Nat
  BY FS_Subset, FS_CardinalityType
<1>1. 0 \in Good
  <2>1. \A T \in SUBSET S : Cardinality(T) = 0 => T = {}
    BY <1>0, FS_EmptySet
  <2> QED
    BY <2>1
<1>2. ASSUME NEW n \in Nat, n \in Good PROVE n + 1 \in Good
  <2> SUFFICES ASSUME NEW T \in SUBSET S, Cardinality(T) = n + 1 PROVE T \in G
    OBVIOUS
  <2>0. T # {}
    <3>1. Cardinality(T) # 0
      OBVIOUS
    <3> QED
      BY <3>1, FS_EmptySet
  <2>1. PICK x \in T : TRUE
    BY <2>0
  <2>2. Cardinality(T \ {x}) = Cardinality(T) - 1
    BY <1>0, FS_RemoveElement
  <2>3. T \ {x} \in SUBSET S /\ Cardinality(T \ {x}) = n /\ x \in S /\ (T \ {x}) \union {x} = T
    BY <2>2
  <2> QED
    BY <1>2, <2>3
<1> HIDE DEF Good
<1>3. Cardinality(S) \in Good
  BY <1>0, <1>1, <1>2, Induction
<1> QED
  BY <1>3 DEF Good

-----------------------------------------------------------------------------
(* A fold over a finite set takes its elements in an order of its own.  If the order makes no *)
(* difference to op, any element may be taken last.                                           *)
FoldOver(p, S) == MapThenFoldSet(LAMBDA x, acc : op(p, acc, x), base(p), LAMBDA x : x, LAMBDA s : CHOOSE x \in s : TRUE, S)

Chosen(s) == CHOOSE x \in s : TRUE
Folds(p, S, g) == g = [s \in SUBSET S |-> IF s = {} THEN base(p) ELSE op(p, g[s \ {Chosen(s)}], Chosen(s))]

\* The function of the subsets that the fold is taken from.
LEMMA FoldOverExists ==
    ASSUME NEW p, NEW S, IsFiniteSet(S)
    PROVE  \E g : Folds(p, S, g) /\ g[S] = FoldOver(p, S)
<1> DEFINE G == CHOOSE g : g = [s \in SUBSET S |-> IF s = {} THEN base(p)
                                   ELSE op(p, g[s \ {CHOOSE x \in s : TRUE}], CHOOSE x \in s : TRUE)]
           m == [s \in SUBSET S |-> Chosen(s)]
           q == [x \in S |-> x]
<1>1. \E g : Folds(p, S, g)
  <2>1. \A s \in SUBSET S : m[s] = Chosen(s) /\ (s # {} => m[s] \in s)
    BY DEF Chosen
  <2> HIDE DEF m, q, G
  <2>2. PICK g : Recursion(p, q, m, SUBSET S, g)
    <3>1. \A s \in SUBSET S : s # {} => m[s] \in s
      BY <2>1
    <3> QED
      BY <3>1, RecursionExists
  <2>3. \A s \in SUBSET S : s # {} => q[m[s]] = Chosen(s)
    BY <2>1 DEF q
  <2>4. g = [s \in SUBSET S |-> IF s = {} THEN base(p) ELSE op(p, g[s \ {Chosen(s)}], Chosen(s))]
    BY <2>1, <2>2, <2>3 DEF Recursion, Step
  <2> QED
    BY <2>4 DEF Folds
<1>2. Folds(p, S, G)
  BY <1>1 DEF Folds, Chosen
<1>3. FoldOver(p, S) = G[S]
  BY DEF FoldOver, MapThenFoldSet
<1> QED
  BY <1>2, <1>3

\* Two folds that start and go on alike.
Alike(p, q, S) == base(p) = base(q) /\ \A a, x : x \in S => op(p, a, x) = op(q, a, x)

\* The functions for two sets agree on what is a subset of both.
LEMMA FoldsAgree ==
    ASSUME NEW p, NEW q, NEW S, NEW T, NEW g, NEW h, Folds(p, S, g), Folds(q, T, h), NEW s \in SUBSET S, s \subseteq T,
           IsFiniteSet(s), Alike(p, q, s)
    PROVE  g[s] = h[s]
<1> DEFINE Good == {n \in Nat : \A t \in SUBSET s : Cardinality(t) = n => g[t] = h[t]}
<1>0. \A t \in SUBSET s : IsFiniteSet(t) /\ Cardinality(t) \in Nat
  BY FS_Subset, FS_CardinalityType
<1>1. 0 \in Good
  <2>1. \A t \in SUBSET s : Cardinality(t) = 0 => t = {}
    BY <1>0, FS_EmptySet
  <2> QED
    BY <2>1 DEF Folds, Alike
<1>2. ASSUME NEW n \in Nat, n \in Good PROVE n + 1 \in Good
  <2> SUFFICES ASSUME NEW t \in SUBSET s, Cardinality(t) = n + 1 PROVE g[t] = h[t]
    OBVIOUS
  <2>1. t # {} /\ Chosen(t) \in t
    BY FS_EmptySet DEF Chosen
  <2>2. Cardinality(t \ {Chosen(t)}) = n
    <3>1. IsFiniteSet(t) /\ Chosen(t) \in t
      BY <1>0, <2>1
    <3>2. Cardinality(t \ {Chosen(t)}) = Cardinality(t) - 1
      BY <3>1, FS_RemoveElement
    <3> QED
      BY <3>2
  <2>3. g[t \ {Chosen(t)}] = h[t \ {Chosen(t)}]
    BY <1>2, <2>2
  <2>4. /\ g[t] = op(p, g[t \ {Chosen(t)}], Chosen(t)) /\ h[t] = op(q, h[t \ {Chosen(t)}], Chosen(t))
        /\ Chosen(t) \in s
    BY <2>1 DEF Folds
  <2> QED
    BY <2>3, <2>4 DEF Alike
<1> HIDE DEF Good
<1>3. Cardinality(s) \in Good
  BY <1>0, <1>1, <1>2, Induction
<1> QED
  BY <1>3 DEF Good

\* The fold of no elements is where it starts.
THEOREM FoldOverEmpty == \A p : FoldOver(p, {}) = base(p)
<1> SUFFICES ASSUME NEW p PROVE FoldOver(p, {}) = base(p)
  OBVIOUS
<1>1. PICK g : Folds(p, {}, g) /\ g[{}] = FoldOver(p, {})
  BY FS_EmptySet, FoldOverExists
<1> QED
  BY <1>1 DEF Folds

\* The element that is chosen is taken last.
LEMMA FoldOverChosen ==
    ASSUME NEW p, NEW S, IsFiniteSet(S), S # {}
    PROVE  FoldOver(p, S) = op(p, FoldOver(p, S \ {Chosen(S)}), Chosen(S))
<1> DEFINE T == S \ {Chosen(S)}
<1>1. PICK g : Folds(p, S, g) /\ g[S] = FoldOver(p, S)
  BY FoldOverExists
<1>2. IsFiniteSet(T)
  BY FS_Subset
<1>3. PICK h : Folds(p, T, h) /\ h[T] = FoldOver(p, T)
  BY <1>2, FoldOverExists
<1>4. T \in SUBSET S /\ T \subseteq T
  OBVIOUS
<1> HIDE DEF T
<1>5. g[T] = h[T]
  BY <1>1, <1>2, <1>3, <1>4, FoldsAgree DEF Alike
<1>6. g[S] = op(p, g[T], Chosen(S))
  BY <1>1 DEF Folds, T
<1> QED
  BY <1>1, <1>3, <1>5, <1>6 DEF T

\* Folds that start and go on alike come to the same.
THEOREM FoldOverAlike ==
    ASSUME NEW p, NEW q, NEW S, IsFiniteSet(S), Alike(p, q, S)
    PROVE  FoldOver(p, S) = FoldOver(q, S)
<1>1. PICK g : Folds(p, S, g) /\ g[S] = FoldOver(p, S)
  BY FoldOverExists
<1>2. PICK h : Folds(q, S, h) /\ h[S] = FoldOver(q, S)
  BY FoldOverExists
<1>3. g[S] = h[S]
  BY <1>1, <1>2, FoldsAgree
<1> QED
  BY <1>1, <1>2, <1>3

\* What the values of a fold are, and that op does not tell the orders of two elements apart.
Commutes(p, A, E) ==
    /\ base(p) \in A
    /\ \A a \in A, x \in E : op(p, a, x) \in A
    /\ \A a \in A, x, y \in E : op(p, op(p, a, x), y) = op(p, op(p, a, y), x)

\* Any element may be taken last.
THEOREM FoldOverAny ==
    ASSUME NEW p, NEW A, NEW E, Commutes(p, A, E), NEW S \in SUBSET E, IsFiniteSet(S)
    PROVE  FoldOver(p, S) \in A /\ \A x \in S : FoldOver(p, S) = op(p, FoldOver(p, S \ {x}), x)
<1> DEFINE Is(T) == FoldOver(p, T) \in A /\ \A x \in T : FoldOver(p, T) = op(p, FoldOver(p, T \ {x}), x)
           Good == {n \in Nat : \A T \in SUBSET S : Cardinality(T) <= n => Is(T)}
<1>0. \A T \in SUBSET S : IsFiniteSet(T) /\ Cardinality(T) \in Nat
  BY FS_Subset, FS_CardinalityType
<1>1. 0 \in Good
  <2>1. \A T \in SUBSET S : Cardinality(T) <= 0 => T = {}
    BY <1>0, FS_EmptySet
  <2>2. Is({})
    BY FoldOverEmpty DEF Commutes
  <2> QED
    BY <2>1, <2>2
<1>2. ASSUME NEW n \in Nat, n \in Good PROVE n + 1 \in Good
  <2> SUFFICES ASSUME NEW T \in SUBSET S, Cardinality(T) = n + 1 PROVE Is(T)
    BY <1>0, <1>2
  <2> DEFINE c == Chosen(T)
  <2>1. T # {} /\ c \in T /\ c \in E /\ IsFiniteSet(T)
    BY <1>0, FS_EmptySet DEF Chosen
  <2>2. \A x \in T : Cardinality(T \ {x}) = n
    <3>1. \A x \in T : Cardinality(T \ {x}) = Cardinality(T) - 1
      BY <2>1, FS_RemoveElement
    <3> QED
      BY <3>1
  <2>3. \A x \in T : Is(T \ {x})
    BY <1>2, <2>2
  <2>4. FoldOver(p, T) = op(p, FoldOver(p, T \ {c}), c)
    BY <2>1, FoldOverChosen
  <2> HIDE DEF c, Good
  <2>5. FoldOver(p, T) \in A
    BY <2>1, <2>3, <2>4 DEF Commutes
  <2>6. ASSUME NEW x \in T PROVE FoldOver(p, T) = op(p, FoldOver(p, T \ {x}), x)
    <3>1. CASE x = c
      BY <2>4, <3>1
    <3>2. CASE x # c
      <4> DEFINE R == (T \ {c}) \ {x}
      <4>1. R = (T \ {x}) \ {c} /\ x \in T \ {c} /\ c \in T \ {x} /\ x \in E
        BY <2>1, <3>2
      <4>2. FoldOver(p, T \ {c}) = op(p, FoldOver(p, R), x)
        BY <2>1, <2>3, <4>1
      <4>3. FoldOver(p, T \ {x}) = op(p, FoldOver(p, R), c)
        BY <2>3, <4>1
      <4>4. FoldOver(p, R) \in A
        <5>1. R \in SUBSET S /\ Cardinality(T \ {c}) = n /\ IsFiniteSet(T \ {c})
          BY <1>0, <2>1, <2>2
        <5>2. R \in SUBSET S /\ Cardinality(R) <= n
          BY SMTT(30), <1>0, <4>1, <5>1, FS_RemoveElement
        <5> QED
          BY <1>2, <5>2 DEF Good
      <4> HIDE DEF R
      <4> QED
        BY <2>1, <2>4, <4>1, <4>2, <4>3, <4>4 DEF Commutes
    <3> QED
      BY <3>1, <3>2
  <2> QED
    BY <2>5, <2>6
<1> HIDE DEF Good
<1>3. Cardinality(S) \in Good
  BY <1>0, <1>1, <1>2, Induction
<1> QED
  BY <1>3 DEF Good
=============================================================================
