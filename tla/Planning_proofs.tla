-------------------------- MODULE Planning_proofs ---------------------------
(***************************************************************************)
(* The plan of a scan, for every inventory, every budget and every limit on*)
(* a wave: the scopes partition the files after each pass, none exceeds the*)
(* budgets that could have been cut, _coalesce never finds anything to     *)
(* merge, no two bins of a module fit together, and the waves cover the    *)
(* scopes in the order of their dependencies.                              *)
(*                                                                         *)
(* The sums of lines and the order of the nodes come first, then _cut,     *)
(* _coalesce and _pack_siblings, then the invariant PlanInv and its steps. *)
(***************************************************************************)
EXTENDS Prompting, Layering_proofs

(***************************************************************************)
(* The lines of a set of files.                                            *)
(***************************************************************************)

Sized(S) == IsFiniteSet(S) /\ \A f \in S : f.loc \in Nat

\* One step of the sum that Loc is, over the files of s.
Sum(g, s) == IF s = {} THEN 0 ELSE (CHOOSE x \in s : TRUE).loc + g[s \ {CHOOSE x \in s : TRUE}]

\* g is the recursive function of the fold over the subsets of S.
Summing(S, g) == g = [s \in SUBSET S |-> Sum(g, s)]

LEMMA SumIs ==
  ASSUME NEW S, NEW s \in SUBSET S, IsFiniteSet(S)
  PROVE  /\ Cardinality(s) \in Nat /\ IsFiniteSet(s) /\ (Cardinality(s) = 0 <=> s = {})
         /\ \A x \in s : s \ {x} \in SUBSET S /\ Cardinality(s \ {x}) = Cardinality(s) - 1
         /\ s # {} => (CHOOSE x \in s : TRUE) \in s
<1>1. IsFiniteSet(s) /\ Cardinality(s) \in Nat
  BY FS_Subset, FS_CardinalityType
<1>2. Cardinality(s) = 0 <=> s = {}
  BY <1>1, FS_EmptySet
<1>3. \A x \in s : s \ {x} \in SUBSET S /\ Cardinality(s \ {x}) = Cardinality(s) - 1
  BY <1>1, FS_RemoveElement
<1> QED
  BY <1>1, <1>2, <1>3

\* The recursion of a fold over a finite set has a result.
LEMMA SumExists ==
  ASSUME NEW S, IsFiniteSet(S)
  PROVE  \E g : Summing(S, g)
<1> DEFINE Good(k, g) == \A s \in SUBSET S : Cardinality(s) <= k => g[s] = Sum(g, s)
           Bad == {k \in Nat : ~\E g : Good(k, g)}
<1>1. Bad = {}
  <2> SUFFICES ASSUME Bad # {} PROVE FALSE
    OBVIOUS
  <2>1. PICK k \in Bad : \A j \in Bad : k <= j
    <3>1. Min(Bad) \in Bad /\ \A j \in Bad : Min(Bad) <= j
      BY MinNat
    <3> QED
      BY <3>1
  <2>2. \E h : \A s \in SUBSET S : Cardinality(s) < k => h[s] = Sum(h, s)
    <3>1. CASE k = 0
      BY <3>1, SumIs
    <3>2. CASE k # 0
      <4>1. k - 1 \in Nat /\ k - 1 \notin Bad
        BY <3>2, <2>1
      <4>2. PICK h : Good(k - 1, h)
        BY <4>1
      <4>3. \A s \in SUBSET S : Cardinality(s) < k => Cardinality(s) <= k - 1
        BY SumIs
      <4> QED
        BY <4>2, <4>3
    <3> QED
      BY <3>1, <3>2
  <2>3. PICK h : \A s \in SUBSET S : Cardinality(s) < k => h[s] = Sum(h, s)
    BY <2>2
  <2> DEFINE g == [s \in SUBSET S |-> Sum(h, s)]
  <2>4. ASSUME NEW s \in SUBSET S, Cardinality(s) <= k PROVE g[s] = Sum(g, s)
    <3>1. CASE s = {}
      BY <3>1 DEF Sum
    <3>2. CASE s # {}
      <4>1. PICK x \in s : x = CHOOSE y \in s : TRUE
        BY <3>2
      <4>2. s \ {x} \in SUBSET S /\ Cardinality(s \ {x}) < k
        BY <2>4, SumIs
      <4>3. g[s \ {x}] = h[s \ {x}]
        BY <4>2, <2>3
      <4> QED
        BY <4>1, <4>3, <3>2 DEF Sum
    <3> QED
      BY <3>1, <3>2
  <2>5. Good(k, g)
    BY <2>4
  <2> HIDE DEF g
  <2> QED
    BY <2>1, <2>5
<1>2. Cardinality(S) \in Nat /\ \A s \in SUBSET S : Cardinality(s) <= Cardinality(S)
  BY FS_CardinalityType, FS_Subset
<1>3. PICK g : Good(Cardinality(S), g)
  BY <1>1, <1>2
<1>4. \A s \in SUBSET S : g[s] = Sum(g, s)
  BY <1>2, <1>3
<1> DEFINE h == [s \in SUBSET S |-> Sum(g, s)]
<1>5. \A s \in SUBSET S : h[s] = g[s]
  BY <1>4
<1>6. \A s \in SUBSET S : Sum(h, s) = Sum(g, s)
  <2> SUFFICES ASSUME NEW s \in SUBSET S, s # {} PROVE Sum(h, s) = Sum(g, s)
    BY DEF Sum
  <2>1. PICK x \in s : x = CHOOSE y \in s : TRUE
    OBVIOUS
  <2>2. s \ {x} \in SUBSET S
    OBVIOUS
  <2> QED
    BY <2>1, <2>2, <1>5 DEF Sum
<1>7. h = [s \in SUBSET S |-> Sum(h, s)]
  BY <1>6
<1> QED
  BY <1>7 DEF Summing

\* Loc is such a sum, over the subsets of its argument.
LEMMA LocIs ==
  ASSUME NEW S, IsFiniteSet(S)
  PROVE  \E g : Loc(S) = g[S] /\ Summing(S, g)
<1> DEFINE g == CHOOSE h : h = [s \in SUBSET S |-> Sum(h, s)]
<1>1. Loc(S) = g[S]
  BY DEF Loc, MapThenSumSet, MapThenFoldSet, Sum
<1>2. g = [s \in SUBSET S |-> Sum(g, s)]
  BY SumExists DEF Summing
<1> QED
  BY <1>1, <1>2 DEF Summing

\* Of some sets of files one is smallest: induction over sets, without an operator.
LEMMA Smallest ==
  ASSUME NEW S, IsFiniteSet(S), NEW Bad \in SUBSET SUBSET S, Bad # {}
  PROVE  \E s \in Bad : \A t \in Bad : t \subseteq s => t = s
<1> DEFINE K == {Cardinality(s) : s \in Bad}
<1>1. \A s \in Bad : IsFiniteSet(s) /\ Cardinality(s) \in Nat
  BY FS_Subset, FS_CardinalityType
<1>2. K \in SUBSET Nat /\ K # {}
  BY <1>1
<1>3. Min(K) \in K /\ \A k \in K : Min(K) <= k
  BY <1>2, MinNat
<1>4. PICK s \in Bad : Cardinality(s) = Min(K)
  BY <1>3
<1>5. ASSUME NEW t \in Bad, t \subseteq s PROVE t = s
  <2>1. Cardinality(s) <= Cardinality(t) /\ Cardinality(t) <= Cardinality(s)
    BY <1>1, <1>3, <1>4, <1>5, FS_Subset
  <2>2. Cardinality(s) = Cardinality(t)
    BY <2>1, <1>1
  <2> QED
    BY <2>2, <1>1, <1>5, FS_Subset
<1> QED
  BY <1>4, <1>5

\* Whatever the sum is computed in, it is the same.
LEMMA SumsAgree ==
  ASSUME NEW S, IsFiniteSet(S), NEW T, NEW g, NEW h,
         Summing(S, g), Summing(T, h), S \subseteq T
  PROVE  \A s \in SUBSET S : g[s] = h[s]
<1> DEFINE Bad == {s \in SUBSET S : g[s] # h[s]}
<1> SUFFICES ASSUME Bad # {} PROVE FALSE
  OBVIOUS
<1>b. Bad \in SUBSET SUBSET S
  OBVIOUS
<1>1. PICK s \in Bad : \A t \in Bad : t \subseteq s => t = s
  <2> HIDE DEF Bad
  <2> QED
    BY <1>b, Smallest
<1>2. s \in SUBSET S /\ s \in SUBSET T /\ g[s] # h[s]
  BY <1>1
<1>3. g[s] = Sum(g, s) /\ h[s] = Sum(h, s)
  BY <1>2 DEF Summing
<1>4. s # {}
  BY <1>2, <1>3 DEF Sum
<1>5. PICK x \in s : x = CHOOSE y \in s : TRUE
  BY <1>4
<1>6. s \ {x} \in SUBSET S /\ s \ {x} \notin Bad
  BY <1>1, <1>2
<1>7. g[s \ {x}] = h[s \ {x}]
  BY <1>6
<1> QED
  BY <1>2, <1>3, <1>4, <1>5, <1>7 DEF Sum

\* A file more is its lines more, whichever file it is.
LEMMA SumAdds ==
  ASSUME NEW S, Sized(S), NEW g, Summing(S, g)
  PROVE  \A s \in SUBSET S : g[s] \in Nat /\ \A x \in s : g[s] = x.loc + g[s \ {x}]
<1> DEFINE Good(s) == g[s] \in Nat /\ \A x \in s : g[s] = x.loc + g[s \ {x}]
           Bad == {s \in SUBSET S : ~Good(s)}
<1> SUFFICES ASSUME Bad # {} PROVE FALSE
  OBVIOUS
<1>b. Bad \in SUBSET SUBSET S /\ IsFiniteSet(S)
  BY DEF Sized
<1>1. PICK s \in Bad : \A t \in Bad : t \subseteq s => t = s
  <2> HIDE DEF Bad
  <2> QED
    BY <1>b, Smallest
<1>2. s \in SUBSET S /\ ~Good(s) /\ \A x \in s : x.loc \in Nat
  BY <1>1 DEF Sized
<1>3. \A t \in SUBSET s : t # s => t \in SUBSET S /\ Good(t)
  <2> SUFFICES ASSUME NEW t \in SUBSET s, t # s PROVE t \in SUBSET S /\ Good(t)
    OBVIOUS
  <2>1. t \in SUBSET S /\ t \notin Bad
    BY <1>1, <1>2
  <2> QED
    BY <2>1
<1>4. g[s] = Sum(g, s)
  BY <1>2 DEF Summing
<1>5. s # {}
  BY <1>2, <1>4 DEF Sum
<1>6. PICK c \in s : c = CHOOSE y \in s : TRUE
  BY <1>5
<1>7. g[s] = c.loc + g[s \ {c}] /\ g[s] \in Nat
  <2>1. g[s] = c.loc + g[s \ {c}]
    BY <1>4, <1>5, <1>6 DEF Sum
  <2>2. g[s \ {c}] \in Nat
    BY <1>3
  <2> QED
    BY <2>1, <2>2, <1>2
<1>8. ASSUME NEW x \in s, x # c PROVE g[s] = x.loc + g[s \ {x}]
  <2>1. x \in s \ {c} /\ c \in s \ {x} /\ (s \ {c}) \ {x} = (s \ {x}) \ {c}
    BY <1>8
  <2>2. g[s \ {c}] = x.loc + g[(s \ {c}) \ {x}]
    BY <2>1, <1>3
  <2>3. g[s \ {x}] = c.loc + g[(s \ {x}) \ {c}]
    BY <2>1, <1>3
  <2>4. g[(s \ {c}) \ {x}] \in Nat
    BY <2>1, <1>3
  <2>5. x.loc \in Nat /\ c.loc \in Nat
    BY <1>2
  <2> HIDE DEF Good, Bad
  <2> DEFINE n == g[(s \ {c}) \ {x}]
  <2>6. g[s \ {c}] = x.loc + n /\ g[s \ {x}] = c.loc + n /\ n \in Nat
    BY <2>1, <2>2, <2>3, <2>4
  <2> HIDE DEF n
  <2> QED
    BY <2>5, <2>6, <1>7
<1> QED
  BY <1>2, <1>7, <1>8

\* Fewer files have fewer lines.
LEMMA LocGrows ==
  ASSUME NEW S, Sized(S), NEW A \in SUBSET S
  PROVE  Loc(S) \in Nat /\ Loc(A) \in Nat /\ Loc(A) <= Loc(S)
<1>s. IsFiniteSet(S) /\ IsFiniteSet(A)
  BY FS_Subset DEF Sized
<1>1. PICK g : Loc(S) = g[S] /\ Summing(S, g)
  BY <1>s, LocIs
<1>2. PICK h : Loc(A) = h[A] /\ Summing(A, h)
  BY <1>s, LocIs
<1>3. Loc(A) = g[A]
  <2>1. \A s \in SUBSET A : h[s] = g[s]
    BY <1>1, <1>2, <1>s, SumsAgree
  <2> QED
    BY <2>1, <1>2
<1>4. \A s \in SUBSET S : g[s] \in Nat /\ \A x \in s : g[s] = x.loc + g[s \ {x}]
  BY <1>1, SumAdds
<1> DEFINE Bad == {s \in SUBSET S : A \subseteq s /\ g[s] < g[A]}
<1>5. Bad = {}
  <2> SUFFICES ASSUME Bad # {} PROVE FALSE
    OBVIOUS
  <2>a. Bad \in SUBSET SUBSET S
    OBVIOUS
  <2>1. PICK s \in Bad : \A t \in Bad : t \subseteq s => t = s
    <3> HIDE DEF Bad
    <3> QED
      BY <2>a, <1>s, Smallest
  <2>2. s \in SUBSET S /\ A \subseteq s /\ g[s] < g[A] /\ g[A] \in Nat
    BY <2>1, <1>4
  <2>3. PICK x \in s : x \notin A
    BY <2>2
  <2>4. s \ {x} \in SUBSET S /\ A \subseteq s \ {x} /\ s \ {x} # s /\ s \ {x} \subseteq s
    BY <2>2, <2>3
  <2>5. g[s] = x.loc + g[s \ {x}] /\ x.loc \in Nat /\ g[s] \in Nat /\ g[s \ {x}] \in Nat
    BY <2>2, <2>4, <1>4 DEF Sized
  <2>6. s \ {x} \in Bad
    BY <2>2, <2>4, <2>5
  <2> QED
    BY <2>1, <2>4, <2>6
<1>6. g[A] \in Nat /\ g[S] \in Nat /\ ~(g[S] < g[A])
  BY <1>4, <1>5
<1>7. Loc(S) = g[S]
  BY <1>1
<1> QED
  BY <1>3, <1>6, <1>7

LEMMA FitsShrinks ==
  ASSUME NEW S, Sized(S), NEW A \in SUBSET S, Fits(S)
  PROVE  Fits(A)
<1>1. Cardinality(A) <= Cardinality(S) /\ Cardinality(A) \in Nat /\ Cardinality(S) \in Nat
  BY FS_Subset, FS_CardinalityType DEF Sized
<1> QED
  BY <1>1, LocGrows, BudgetsArePositive DEF Fits

(***************************************************************************)
(* Paths.                                                                  *)
(***************************************************************************)

LEMMA PrefixMeans ==
  ASSUME NEW S, NEW s \in Seq(S), NEW t \in Seq(S)
  PROVE  IsPrefix(s, t) <=> Len(s) <= Len(t) /\ \A i \in 1..Len(s) : s[i] = t[i]
<1> SUFFICES ASSUME Len(s) <= Len(t)
             PROVE  SubSeq(s, 1, Len(s)) = SubSeq(t, 1, Len(s)) <=> \A i \in 1..Len(s) : s[i] = t[i]
  BY DEF IsPrefix
<1>1. Len(s) \in 0..Len(s) /\ Len(s) \in 0..Len(t)
  OBVIOUS
<1> DEFINE a == SubSeq(s, 1, Len(s))
           b == SubSeq(t, 1, Len(s))
<1>2. /\ a \in Seq(S) /\ Len(a) = Len(s) /\ \A i \in 1..Len(s) : a[i] = s[i]
  BY <1>1, PrefixIs
<1>3. /\ b \in Seq(S) /\ Len(b) = Len(s) /\ \A i \in 1..Len(s) : b[i] = t[i]
  BY <1>1, PrefixIs
<1> HIDE DEF a, b
<1>4. a = b <=> \A i \in 1..Len(s) : a[i] = b[i]
  BY <1>2, <1>3
<1> QED
  BY <1>2, <1>3, <1>4 DEF a, b

LEMMA ConcatIs ==
  ASSUME NEW S, NEW h \in Seq(S), NEW a \in Seq(S)
  PROVE  /\ h \o a \in Seq(S) /\ Len(h \o a) = Len(h) + Len(a) /\ Len(h) \in Nat /\ Len(a) \in Nat
         /\ \A i \in 1..Len(h) : (h \o a)[i] = h[i]
         /\ \A i \in 1..Len(a) : (h \o a)[Len(h) + i] = a[i]
  OBVIOUS

LEMMA SamePath ==
  ASSUME NEW S, NEW s \in Seq(S), NEW t \in Seq(S), Len(s) = Len(t), \A i \in 1..Len(s) : s[i] = t[i]
  PROVE  s = t
  OBVIOUS

LEMMA PrefixesAre ==
  ASSUME NEW S, NEW t \in Seq(S)
  PROVE  /\ \A d : d \in Prefixes(t) <=> d \in Seq(S) /\ IsPrefix(d, t)
         /\ IsFiniteSet(Prefixes(t))
<1>1. ASSUME NEW d \in Prefixes(t) PROVE d \in Seq(S) /\ IsPrefix(d, t)
  <2>1. PICK l \in 0..Len(t) : d = SubSeq(t, 1, l)
    BY DEF Prefixes
  <2>2. d \in Seq(S) /\ Len(d) = l /\ \A i \in 1..l : d[i] = t[i]
    BY <2>1, PrefixIs
  <2> QED
    BY <2>2, PrefixMeans
<1>2. ASSUME NEW d \in Seq(S), IsPrefix(d, t) PROVE d \in Prefixes(t)
  <2>1. Len(d) \in 0..Len(t) /\ \A i \in 1..Len(d) : d[i] = t[i]
    BY <1>2, PrefixMeans
  <2>2. d = SubSeq(t, 1, Len(d))
    BY <2>1, PrefixIs, SamePath
  <2> QED
    BY <2>1, <2>2 DEF Prefixes
<1>3. IsFiniteSet(Prefixes(t))
  <2> DEFINE h == [l \in 0..Len(t) |-> SubSeq(t, 1, l)]
  <2>1. IsFiniteSet(0..Len(t))
    BY FS_Interval
  <2>2. Prefixes(t) = {h[l] : l \in 0..Len(t)}
    BY DEF Prefixes
  <2> HIDE DEF h
  <2> QED
    BY <2>1, <2>2, FiniteImage
<1> QED
  BY <1>1, <1>2, <1>3

LEMMA PrefixOrder ==
  ASSUME NEW S, NEW a \in Seq(S), NEW b \in Seq(S), NEW c \in Seq(S)
  PROVE  /\ IsPrefix(a, a) /\ IsPrefix(<<>>, a)
         /\ IsPrefix(a, b) /\ IsPrefix(b, c) => IsPrefix(a, c)
         /\ IsPrefix(a, c) /\ IsPrefix(b, c) => IsPrefix(a, b) \/ IsPrefix(b, a)
         /\ IsPrefix(a, b) /\ IsPrefix(b, a) => a = b
<1>1. IsPrefix(a, a)
  BY PrefixMeans
<1>2. IsPrefix(<<>>, a)
  <2>1. <<>> \in Seq(S) /\ Len(<<>>) = 0
    OBVIOUS
  <2>2. Len(<<>>) <= Len(a) /\ \A i \in 1..Len(<<>>) : <<>>[i] = a[i]
    BY <2>1
  <2>3. PICK e \in Seq(S) : e = <<>>
    BY <2>1
  <2>4. Len(e) <= Len(a) /\ \A i \in 1..Len(e) : e[i] = a[i]
    BY <2>2, <2>3
  <2> QED
    BY <2>3, <2>4, PrefixMeans
<1>3. ASSUME IsPrefix(a, b), IsPrefix(b, c) PROVE IsPrefix(a, c)
  BY <1>3, PrefixMeans
<1>4. ASSUME IsPrefix(a, c), IsPrefix(b, c) PROVE IsPrefix(a, b) \/ IsPrefix(b, a)
  BY <1>4, PrefixMeans
<1>5. ASSUME IsPrefix(a, b), IsPrefix(b, a) PROVE a = b
  BY <1>5, PrefixMeans, SamePath
<1> QED
  BY <1>1, <1>2, <1>3, <1>4, <1>5

\* Below the home of a module the paths are as they are relative to it.
LEMMA BelowHome ==
  ASSUME NEW S, NEW h \in Seq(S), NEW a \in Seq(S), NEW b \in Seq(S)
  PROVE  /\ h \o a \in Seq(S)
         /\ IsPrefix(a, b) => IsPrefix(h \o a, h \o b)
         /\ h \o a = h \o b => a = b
<1>1. /\ h \o a \in Seq(S) /\ Len(h \o a) = Len(h) + Len(a)
      /\ \A i \in 1..Len(h) : (h \o a)[i] = h[i]
      /\ \A i \in 1..Len(a) : (h \o a)[Len(h) + i] = a[i]
  OBVIOUS
<1>2. /\ h \o b \in Seq(S) /\ Len(h \o b) = Len(h) + Len(b)
      /\ \A i \in 1..Len(h) : (h \o b)[i] = h[i]
      /\ \A i \in 1..Len(b) : (h \o b)[Len(h) + i] = b[i]
  OBVIOUS
<1>3. ASSUME IsPrefix(a, b) PROVE IsPrefix(h \o a, h \o b)
  <2>1. Len(a) <= Len(b) /\ \A i \in 1..Len(a) : a[i] = b[i]
    BY <1>3, PrefixMeans
  <2>2. ASSUME NEW i \in 1..Len(h \o a) PROVE (h \o a)[i] = (h \o b)[i]
    <3>1. CASE i \in 1..Len(h)
      BY <3>1, <1>1, <1>2
    <3>2. CASE i \notin 1..Len(h)
      <4>1. i - Len(h) \in 1..Len(a) /\ i - Len(h) \in 1..Len(b) /\ i = Len(h) + (i - Len(h))
        BY <3>2, <2>1, <1>1
      <4> QED
        BY <4>1, <2>1, <1>1, <1>2
    <3> QED
      BY <3>1, <3>2
  <2>3. Len(h \o a) <= Len(h \o b)
    BY <2>1, <1>1, <1>2
  <2> QED
    BY <2>2, <2>3, <1>1, <1>2, PrefixMeans
<1>4. ASSUME h \o a = h \o b PROVE a = b
  <2>1. Len(a) = Len(b)
    BY <1>1, <1>2, <1>4
  <2>2. \A i \in 1..Len(a) : a[i] = b[i]
    BY <2>1, <1>1, <1>2, <1>4
  <2> QED
    BY <2>1, <2>2, SamePath
<1> QED
  BY <1>1, <1>3, <1>4

\* The parent of a path below the home.
LEMMA FrontBelowHome ==
  ASSUME NEW S, NEW h \in Seq(S), NEW a \in Seq(S), a # <<>>
  PROVE  /\ Front(h \o a) = h \o Front(a) /\ Front(a) \in Seq(S)
         /\ IsPrefix(Front(a), a) /\ Front(a) # a
<1>1. /\ Front(a) \in Seq(S) /\ Len(a) \in Nat \ {0} /\ Len(Front(a)) = Len(a) - 1
      /\ \A i \in 1..(Len(a) - 1) : Front(a)[i] = a[i]
  BY FrontIs
<1>2. /\ h \o a \in Seq(S) /\ Len(h \o a) = Len(h) + Len(a) /\ h \o a # <<>> /\ Len(h) \in Nat
      /\ \A i \in 1..Len(h) : (h \o a)[i] = h[i]
      /\ \A i \in 1..Len(a) : (h \o a)[Len(h) + i] = a[i]
  BY <1>1
<1>3. /\ Front(h \o a) \in Seq(S) /\ Len(Front(h \o a)) = Len(h) + Len(a) - 1
      /\ \A i \in 1..(Len(h) + Len(a) - 1) : Front(h \o a)[i] = (h \o a)[i]
  <2> DEFINE w == h \o a
  <2>1. w \in Seq(S) /\ w # <<>> /\ Len(w) = Len(h) + Len(a)
    BY <1>2
  <2> HIDE DEF w
  <2>2. /\ Front(w) \in Seq(S) /\ Len(Front(w)) = Len(w) - 1
        /\ \A i \in 1..(Len(w) - 1) : Front(w)[i] = w[i]
    BY <2>1, FrontIs, Zenon
  <2> QED
    BY <2>1, <2>2 DEF w
<1>4. /\ h \o Front(a) \in Seq(S) /\ Len(h \o Front(a)) = Len(h) + Len(a) - 1
      /\ \A i \in 1..Len(h) : (h \o Front(a))[i] = h[i]
      /\ \A i \in 1..(Len(a) - 1) : (h \o Front(a))[Len(h) + i] = a[i]
  <2>1. PICK w \in Seq(S) : w = Front(a)
    BY <1>1
  <2>2. /\ h \o w \in Seq(S) /\ Len(h \o w) = Len(h) + Len(w)
        /\ \A i \in 1..Len(h) : (h \o w)[i] = h[i]
        /\ \A i \in 1..Len(w) : (h \o w)[Len(h) + i] = w[i]
    BY ConcatIs
  <2>3. Len(w) = Len(a) - 1 /\ Len(h) \in Nat /\ Len(a) \in Nat
    BY <2>1, <1>1, <1>2
  <2>4. \A i \in 1..(Len(a) - 1) : (h \o w)[Len(h) + i] = a[i]
    BY <2>1, <2>2, <2>3, <1>1
  <2> QED
    BY <2>1, <2>2, <2>3, <2>4
<1>5. ASSUME NEW i \in 1..(Len(h) + Len(a) - 1) PROVE Front(h \o a)[i] = (h \o Front(a))[i]
  <2>1. CASE i \in 1..Len(h)
    BY <2>1, <1>2, <1>3, <1>4
  <2>2. CASE i \notin 1..Len(h)
    <3>1. i - Len(h) \in 1..(Len(a) - 1) /\ i - Len(h) \in 1..Len(a) /\ i = Len(h) + (i - Len(h))
      BY <2>2, <1>1, <1>2
    <3> QED
      BY <3>1, <1>2, <1>3, <1>4
  <2> QED
    BY <2>1, <2>2
<1>6. Front(h \o a) = h \o Front(a)
  BY <1>3, <1>4, <1>5, SamePath
<1>7. IsPrefix(Front(a), a)
  BY <1>1, PrefixMeans
<1> QED
  BY <1>1, <1>6, <1>7

(***************************************************************************)
(* _cut.                                                                   *)
(***************************************************************************)

Directory == Seq(Nat \ {Loose})

Scanned(F) ==
    /\ IsFiniteSet(F)
    /\ \A f \in F : f.module \in Owners /\ f.dir \in Directory /\ f.loc \in Nat

LEMMA ScannedParts ==
  ASSUME NEW F, Scanned(F), NEW G \in SUBSET F
  PROVE  Scanned(G) /\ Sized(G)
<1>1. IsFiniteSet(G)
  BY FS_Subset DEF Scanned
<1> QED
  BY <1>1 DEF Scanned, Sized

\* The two kinds of scope that _cut makes.
Whole(m, F, d) ==
    [node |-> Home[m] \o d, module |-> m, files |-> Under(F, d), oversized |-> ~Fits(Under(F, d))]
Rest(m, F, d) ==
    [node |-> Home[m] \o d \o <<Loose>>, module |-> m, files |-> Here(F, d), oversized |-> FALSE]

LEMMA CutIs ==
  ASSUME NEW m, NEW F
  PROVE  /\ \A s : s \in Cut(m, F) <=>
                \E d \in Reached(F) : \/ ~Splits(F, d) /\ s = Whole(m, F, d)
                                      \/ Splits(F, d) /\ Here(F, d) # {} /\ s = Rest(m, F, d)
  BY DEF Cut, Whole, Rest

\* _cut is called on a directory when every one above it was split.
LEMMA ReachedIs ==
  ASSUME NEW F, Scanned(F)
  PROVE  /\ \A d : d \in Reached(F) <=>
                /\ d \in Directory /\ \E f \in F : IsPrefix(d, f.dir)
                /\ \A e \in Directory : IsPrefix(e, d) /\ e # d => Splits(F, e)
         /\ IsFiniteSet(Reached(F))
<1>f. IsFiniteSet(F) /\ \A f \in F : f.dir \in Directory
  BY DEF Scanned
<1> DEFINE all == UNION {Prefixes(f.dir) : f \in F}
<1>1. \A d : d \in all <=> d \in Directory /\ \E f \in F : IsPrefix(d, f.dir)
  BY <1>f, PrefixesAre DEF Directory
<1>2. IsFiniteSet(all)
  <2> DEFINE h == [f \in F |-> Prefixes(f.dir)]
             T == {h[f] : f \in F}
  <2>1. IsFiniteSet(T)
    <3> HIDE DEF h
    <3> QED
      BY <1>f, FiniteImage
  <2>2. \A p \in T : IsFiniteSet(p)
    BY <1>f, PrefixesAre DEF Directory
  <2>3. all = UNION T
    OBVIOUS
  <2> HIDE DEF T, all
  <2> QED
    BY <2>1, <2>2, <2>3, FS_UNION
<1>3. Reached(F) = {d \in all : \A e \in Prefixes(d) \ {d} : Splits(F, e)}
  BY DEF Reached
<1>4. \A d \in Directory : \A e : e \in Prefixes(d) <=> e \in Directory /\ IsPrefix(e, d)
  BY PrefixesAre DEF Directory
<1> HIDE DEF all
<1>5. ASSUME NEW d
      PROVE  d \in Reached(F) <=>
                /\ d \in Directory /\ \E f \in F : IsPrefix(d, f.dir)
                /\ \A e \in Directory : IsPrefix(e, d) /\ e # d => Splits(F, e)
  BY <1>1, <1>3, <1>4
<1>6. IsFiniteSet(Reached(F))
  BY <1>2, <1>3, FS_Subset
<1> QED
  BY <1>5, <1>6

\* What a scope of a module holds.
LEMMA CutScope ==
  ASSUME NEW m \in Owners, NEW F, Scanned(F), NEW s \in Cut(m, F)
  PROVE  /\ s.module = m /\ s.files \subseteq F
         /\ ~Fits(s.files) => \A f, g \in s.files : f.dir = g.dir
<1>1. PICK d \in Reached(F) : \/ ~Splits(F, d) /\ s = Whole(m, F, d)
                              \/ Splits(F, d) /\ Here(F, d) # {} /\ s = Rest(m, F, d)
  BY CutIs
<1>2. CASE ~Splits(F, d) /\ s = Whole(m, F, d)
  BY <1>2 DEF Whole, Under, Splits, Here
<1>3. CASE s = Rest(m, F, d)
  BY <1>3 DEF Rest, Here
<1> QED
  BY <1>1, <1>2, <1>3

\* No file is in two scopes of its module.
LEMMA CutOnce ==
  ASSUME NEW m \in Owners, NEW F, Scanned(F), NEW s \in Cut(m, F), NEW t \in Cut(m, F),
         NEW f \in s.files, f \in t.files
  PROVE  s = t
<1>1. PICK d \in Reached(F) : \/ ~Splits(F, d) /\ s = Whole(m, F, d)
                              \/ Splits(F, d) /\ Here(F, d) # {} /\ s = Rest(m, F, d)
  BY CutIs
<1>2. PICK e \in Reached(F) : \/ ~Splits(F, e) /\ t = Whole(m, F, e)
                              \/ Splits(F, e) /\ Here(F, e) # {} /\ t = Rest(m, F, e)
  BY CutIs
<1>3. d \in Directory /\ e \in Directory /\ f \in F /\ f.dir \in Directory
  <2>1. f \in F
    BY CutScope
  <2> QED
    BY <2>1, ReachedIs DEF Scanned
<1>4. IsPrefix(d, f.dir) /\ (Splits(F, d) => f.dir = d)
  BY <1>1, <1>3, PrefixOrder DEF Whole, Rest, Under, Here, Directory
<1>5. IsPrefix(e, f.dir) /\ (Splits(F, e) => f.dir = e)
  BY <1>2, <1>3, PrefixOrder DEF Whole, Rest, Under, Here, Directory
<1>6. IsPrefix(d, e) /\ d # e => Splits(F, d)
  BY <1>3, ReachedIs
<1>7. IsPrefix(e, d) /\ e # d => Splits(F, e)
  BY <1>3, ReachedIs
<1>8. IsPrefix(d, e) \/ IsPrefix(e, d)
  BY <1>3, <1>4, <1>5, PrefixOrder DEF Directory
<1>9. d = e
  <2>1. CASE IsPrefix(d, e) /\ d # e
    <3>1. f.dir = d
      BY <2>1, <1>4, <1>6
    <3>2. IsPrefix(e, d)
      BY <3>1, <1>5
    <3> QED
      BY <3>2, <2>1, <1>3, PrefixOrder DEF Directory
  <2>2. CASE IsPrefix(e, d) /\ d # e
    <3>1. f.dir = e
      BY <2>2, <1>5, <1>7
    <3>2. IsPrefix(d, e)
      BY <3>1, <1>4
    <3> QED
      BY <3>2, <2>2, <1>3, PrefixOrder DEF Directory
  <2> QED
    BY <2>1, <2>2, <1>8
<1> QED
  BY <1>1, <1>2, <1>9

\* Every file is in a scope of its module.
LEMMA CutCovers ==
  ASSUME NEW m \in Owners, NEW F, Scanned(F), NEW f \in F
  PROVE  \E s \in Cut(m, F) : f \in s.files
<1> DEFINE n == Len(f.dir)
           cut == [l \in 0..n |-> SubSeq(f.dir, 1, l)]
           T == {l \in 0..n : ~Splits(F, cut[l])}
<1>1. f.dir \in Directory /\ n \in Nat
  BY DEF Scanned, Directory
<1>2. \A l \in 0..n : /\ cut[l] \in Directory /\ Len(cut[l]) = l
                      /\ \A i \in 1..l : cut[l][i] = f.dir[i]
  BY <1>1, PrefixIs DEF Directory
<1> HIDE DEF cut, n
<1>3. \A l \in 0..n : IsPrefix(cut[l], f.dir)
  <2> SUFFICES ASSUME NEW l \in 0..n PROVE IsPrefix(cut[l], f.dir)
    OBVIOUS
  <2>1. cut[l] \in Directory /\ Len(cut[l]) <= Len(f.dir)
    BY <1>1, <1>2 DEF n
  <2>2. \A i \in 1..Len(cut[l]) : cut[l][i] = f.dir[i]
    BY <1>2
  <2> QED
    BY <2>1, <2>2, <1>1, PrefixMeans DEF Directory
<1>4. \A l \in 0..n : \A e \in Directory :
         IsPrefix(e, cut[l]) /\ e # cut[l] => Len(e) \in 0..n /\ Len(e) < l /\ e = cut[Len(e)]
  <2> SUFFICES ASSUME NEW l \in 0..n, NEW e \in Directory, IsPrefix(e, cut[l]), e # cut[l]
               PROVE  Len(e) \in 0..n /\ Len(e) < l /\ e = cut[Len(e)]
    OBVIOUS
  <2>1. Len(e) <= l /\ \A i \in 1..Len(e) : e[i] = cut[l][i]
    BY <1>2, PrefixMeans DEF Directory
  <2>2. Len(e) # l
    <3>1. cut[l] \in Directory /\ Len(cut[l]) = l
      BY <1>2
    <3>2. Len(e) = Len(cut[l]) => e = cut[l]
      BY <2>1, <3>1, SamePath DEF Directory
    <3> QED
      BY <3>1, <3>2
  <2>3. Len(e) \in 0..n /\ Len(e) < l /\ Len(e) \in Nat
    BY <2>1, <2>2, <1>1 DEF Directory
  <2>4. \A i \in 1..Len(e) : e[i] = cut[Len(e)][i]
    BY <2>1, <2>3, <1>2
  <2>5. e = cut[Len(e)]
    BY <2>3, <2>4, <1>2, SamePath DEF Directory
  <2> QED
    BY <2>3, <2>5
<1>5. ASSUME NEW l \in 0..n, \A k \in 0..n : k < l => Splits(F, cut[k]) PROVE cut[l] \in Reached(F)
  BY <1>2, <1>3, <1>4, <1>5, ReachedIs
<1>6. CASE T = {}
  <2>1. n \in 0..n /\ cut[n] = f.dir
    BY <1>1, <1>2, SamePath DEF Directory, n
  <2>2. f.dir \in Reached(F) /\ Splits(F, f.dir) /\ f \in Here(F, f.dir)
    BY <2>1, <1>5, <1>6 DEF Here
  <2>3. Rest(m, F, f.dir) \in Cut(m, F) /\ f \in Rest(m, F, f.dir).files
    BY <2>2, CutIs DEF Rest
  <2> QED
    BY <2>3
<1>7. CASE T # {}
  <2>1. PICK l \in T : \A k \in T : l <= k
    <3>1. T \in SUBSET Nat
      BY <1>1
    <3>2. Min(T) \in T /\ \A k \in T : Min(T) <= k
      BY <3>1, <1>7, MinNat
    <3> QED
      BY <3>2
  <2>2. l \in 0..n /\ ~Splits(F, cut[l]) /\ \A k \in 0..n : k < l => Splits(F, cut[k])
    BY <2>1, <1>1
  <2>3. cut[l] \in Reached(F)
    BY <2>2, <1>5
  <2>4. Whole(m, F, cut[l]) \in Cut(m, F)
    BY <2>2, <2>3, CutIs
  <2>5. f \in Whole(m, F, cut[l]).files
    BY <2>2, <1>3 DEF Whole, Under
  <2> QED
    BY <2>4, <2>5
<1> QED
  BY <1>6, <1>7

LEMMA CutFinite ==
  ASSUME NEW m \in Owners, NEW F, Scanned(F)
  PROVE  IsFiniteSet(Cut(m, F))
<1> DEFINE w == [d \in Reached(F) |-> Whole(m, F, d)]
           r == [d \in Reached(F) |-> Rest(m, F, d)]
           all == {w[d] : d \in Reached(F)} \union {r[d] : d \in Reached(F)}
<1>1. Cut(m, F) \in SUBSET all
  BY CutIs
<1> HIDE DEF w, r
<1>2. IsFiniteSet({w[d] : d \in Reached(F)}) /\ IsFiniteSet({r[d] : d \in Reached(F)})
  BY ReachedIs, FiniteImage
<1>3. IsFiniteSet(all)
  BY <1>2, FS_Union
<1> HIDE DEF all
<1> QED
  BY <1>1, <1>3, FS_Subset

\* The directories that _cut makes up end in Loose.
LEMMA MadeUp ==
  ASSUME NEW h \in Seq(Nat), NEW d \in Seq(Nat)
  PROVE  /\ d \o <<Loose>> \in Seq(Nat) /\ d \o <<Loose>> # <<>>
         /\ Front(d \o <<Loose>>) = d /\ IsPrefix(d, d \o <<Loose>>)
         /\ h \o d \o <<Loose>> = h \o (d \o <<Loose>>)
<1>l. <<Loose>> \in Seq(Nat) /\ Len(<<Loose>>) = 1
  BY DEF Loose
<1>1. PICK e : e = d \o <<Loose>>
  OBVIOUS
<1>2. /\ e \in Seq(Nat) /\ Len(e) = Len(d) + 1 /\ Len(d) \in Nat
      /\ \A i \in 1..Len(d) : e[i] = d[i]
      /\ e[Len(d) + 1] = <<Loose>>[1]
  <2>1. 1 \in 1..Len(<<Loose>>)
    BY <1>l
  <2> QED
    BY <1>1, <1>l, <2>1, ConcatIs
<1>3. e # <<>>
  BY <1>2
<1>4. Front(e) = d
  <2>1. Front(e) \in Seq(Nat) /\ Len(Front(e)) = Len(e) - 1 /\ \A i \in 1..(Len(e) - 1) : Front(e)[i] = e[i]
    BY <1>2, <1>3, FrontIs
  <2>2. Len(Front(e)) = Len(d) /\ \A i \in 1..Len(Front(e)) : Front(e)[i] = d[i]
    BY <2>1, <1>2
  <2> QED
    BY <2>1, <2>2, SamePath
<1>5. IsPrefix(d, e)
  <2>1. Len(d) <= Len(e) /\ \A i \in 1..Len(d) : d[i] = e[i]
    BY <1>2
  <2> QED
    BY <2>1, <1>2, PrefixMeans
<1>6. h \o d \o <<Loose>> = h \o e
  <2>1. PICK k : k = h \o d
    OBVIOUS
  <2>2. /\ k \in Seq(Nat) /\ Len(k) = Len(h) + Len(d) /\ Len(h) \in Nat /\ Len(d) \in Nat
        /\ \A i \in 1..Len(h) : k[i] = h[i]
        /\ \A i \in 1..Len(d) : k[Len(h) + i] = d[i]
    BY <2>1, ConcatIs
  <2>3. PICK x : x = k \o <<Loose>>
    OBVIOUS
  <2>4. /\ x \in Seq(Nat) /\ Len(x) = Len(k) + 1 /\ \A i \in 1..Len(k) : x[i] = k[i]
        /\ x[Len(k) + 1] = <<Loose>>[1]
    <3>1. 1 \in 1..Len(<<Loose>>)
      BY <1>l
    <3>2. /\ k \o <<Loose>> \in Seq(Nat) /\ Len(k \o <<Loose>>) = Len(k) + Len(<<Loose>>)
          /\ \A i \in 1..Len(k) : (k \o <<Loose>>)[i] = k[i]
          /\ \A i \in 1..Len(<<Loose>>) : (k \o <<Loose>>)[Len(k) + i] = <<Loose>>[i]
      BY <2>2, <1>l
    <3> QED
      BY <2>3, <1>l, <3>1, <3>2
  <2>5. PICK y : y = h \o e
    OBVIOUS
  <2>6. /\ y \in Seq(Nat) /\ Len(y) = Len(h) + Len(e) /\ \A i \in 1..Len(h) : y[i] = h[i]
        /\ \A i \in 1..Len(e) : y[Len(h) + i] = e[i]
    <3>1. /\ h \o e \in Seq(Nat) /\ Len(h \o e) = Len(h) + Len(e)
          /\ \A i \in 1..Len(h) : (h \o e)[i] = h[i]
          /\ \A i \in 1..Len(e) : (h \o e)[Len(h) + i] = e[i]
      <4>1. e \in Seq(Nat)
        BY <1>2
      <4> QED
        BY <4>1, ConcatIs
    <3> QED
      BY <2>5, <3>1
  <2>7. Len(x) = Len(y) /\ Len(x) = Len(h) + Len(d) + 1
    BY <2>2, <2>4, <2>6, <1>2
  <2>8. ASSUME NEW i \in 1..Len(x) PROVE x[i] = y[i]
    <3>1. CASE i \in 1..Len(h)
      <4>1. i \in 1..Len(k) /\ k[i] = h[i]
        BY <3>1, <2>2
      <4> QED
        BY <3>1, <4>1, <2>4, <2>6
    <3>2. CASE i \notin 1..Len(h)
      <4>1. PICK j \in 1..Len(e) : i = Len(h) + j
        <5>1. i - Len(h) \in 1..Len(e) /\ i = Len(h) + (i - Len(h))
          BY <3>2, <2>7, <2>2, <1>2
        <5> QED
          BY <5>1
      <4>2. y[i] = e[j]
        BY <4>1, <2>6
      <4>3. CASE j \in 1..Len(d)
        <5>1. e[j] = d[j] /\ k[i] = d[j]
          BY <4>1, <4>3, <1>2, <2>2
        <5>2. i \in 1..Len(k)
          BY <4>1, <4>3, <2>2
        <5> QED
          BY <5>1, <5>2, <4>2, <2>4
      <4>4. CASE j \notin 1..Len(d)
        <5>1. j = Len(d) + 1
          BY <4>4, <1>2
        <5>2. i = Len(k) + 1
          BY <4>1, <5>1, <2>2
        <5> QED
          BY <5>1, <5>2, <4>2, <1>2, <2>4
      <4> QED
        BY <4>3, <4>4
    <3> QED
      BY <3>1, <3>2
  <2>9. x = y
    BY <2>4, <2>6, <2>7, <2>8, SamePath
  <2> QED
    BY <2>1, <2>3, <2>5, <2>9
<1> QED
  BY <1>1, <1>2, <1>3, <1>4, <1>5, <1>6

LEMMA DirectoryIsPath == \A d \in Directory : d \in Seq(Nat)
  BY DEF Directory

\* Where a scope of the module lies: at or in the directory d below the home.
LEMMA CutNode ==
  ASSUME NEW m \in Owners, NEW F, NEW d \in Directory
  PROVE  /\ Whole(m, F, d).node = Home[m] \o d /\ Home[m] \o d \in Seq(Nat)
         /\ Rest(m, F, d).node = Home[m] \o (d \o <<Loose>>) /\ Home[m] \o (d \o <<Loose>>) \in Seq(Nat)
<1>1. Home[m] \in Seq(Nat) /\ d \in Seq(Nat)
  BY HomesArePaths, DirectoryIsPath
<1>2. d \o <<Loose>> \in Seq(Nat) /\ Home[m] \o d \o <<Loose>> = Home[m] \o (d \o <<Loose>>)
  BY <1>1, MadeUp
<1>3. Home[m] \o d \in Seq(Nat) /\ Home[m] \o (d \o <<Loose>>) \in Seq(Nat)
  BY <1>1, <1>2, ConcatIs
<1> QED
  BY <1>2, <1>3 DEF Whole, Rest

\* The scopes of a module have nodes of their own.
LEMMA CutNodes ==
  ASSUME NEW m \in Owners, NEW F, Scanned(F), NEW s \in Cut(m, F), NEW t \in Cut(m, F)
  PROVE  s.node \in Seq(Nat) /\ (s.node = t.node => s = t)
<1>1. PICK d \in Reached(F) : \/ ~Splits(F, d) /\ s = Whole(m, F, d)
                              \/ Splits(F, d) /\ Here(F, d) # {} /\ s = Rest(m, F, d)
  BY CutIs
<1>2. PICK e \in Reached(F) : \/ ~Splits(F, e) /\ t = Whole(m, F, e)
                              \/ Splits(F, e) /\ Here(F, e) # {} /\ t = Rest(m, F, e)
  BY CutIs
<1>3. d \in Directory /\ e \in Directory
  BY ReachedIs
<1>d. Whole(m, F, d).node = Home[m] \o d /\ Home[m] \o d \in Seq(Nat)
      /\ Rest(m, F, d).node = Home[m] \o (d \o <<Loose>>) /\ Home[m] \o (d \o <<Loose>>) \in Seq(Nat)
  BY <1>3, CutNode
<1>e. Whole(m, F, e).node = Home[m] \o e /\ Rest(m, F, e).node = Home[m] \o (e \o <<Loose>>)
  BY <1>3, CutNode
<1>h. Home[m] \in Seq(Nat) /\ d \in Seq(Nat) /\ e \in Seq(Nat)
  BY <1>3, HomesArePaths, DirectoryIsPath
<1>u. /\ d \o <<Loose>> \in Seq(Nat) /\ Front(d \o <<Loose>>) = d
      /\ e \o <<Loose>> \in Seq(Nat) /\ Front(e \o <<Loose>>) = e
  BY <1>h, MadeUp
<1>4. s.node \in Seq(Nat)
  BY <1>1, <1>d
<1>5. ASSUME NEW a \in Directory, NEW b \in Directory, Home[m] \o a = Home[m] \o (b \o <<Loose>>) PROVE FALSE
  <2>1. a = b \o <<Loose>>
    <3>1. a \in Seq(Nat) /\ b \in Seq(Nat)
      BY DirectoryIsPath
    <3>2. b \o <<Loose>> \in Seq(Nat)
      BY <3>1, MadeUp
    <3> QED
      BY <3>1, <3>2, <1>h, <1>5, BelowHome
  <2>2. a[Len(b) + 1] = Loose /\ Len(b) + 1 \in 1..Len(a)
    BY <2>1 DEF Directory, Loose
  <2> QED
    BY <2>2 DEF Directory
<1>6. ASSUME s.node = t.node PROVE s = t
  <2>1. CASE s = Whole(m, F, d) /\ t = Whole(m, F, e) /\ ~Splits(F, d) /\ ~Splits(F, e)
    <3>1. Home[m] \o d = Home[m] \o e
      BY <2>1, <1>6, <1>d, <1>e
    <3>2. d = e
      BY <3>1, <1>h, BelowHome
    <3> QED
      BY <3>2, <2>1
  <2>2. CASE s = Whole(m, F, d) /\ t = Rest(m, F, e)
    <3>1. Home[m] \o d = Home[m] \o (e \o <<Loose>>)
      BY <2>2, <1>6, <1>d, <1>e
    <3> QED
      BY <3>1, <1>3, <1>5
  <2>3. CASE s = Rest(m, F, d) /\ t = Whole(m, F, e)
    <3>1. Home[m] \o e = Home[m] \o (d \o <<Loose>>)
      BY <2>3, <1>6, <1>d, <1>e
    <3> QED
      BY <3>1, <1>3, <1>5
  <2>4. CASE s = Rest(m, F, d) /\ t = Rest(m, F, e)
    <3>1. Home[m] \o (d \o <<Loose>>) = Home[m] \o (e \o <<Loose>>)
      BY <2>4, <1>6, <1>d, <1>e
    <3>2. PICK b \in Seq(Nat) : b = d \o <<Loose>> /\ Front(b) = d
      BY <1>u
    <3>3. PICK c \in Seq(Nat) : c = e \o <<Loose>> /\ Front(c) = e
      BY <1>u
    <3>4. Home[m] \o b = Home[m] \o c
      BY <3>1, <3>2, <3>3
    <3>5. b = c
      BY <3>4, <1>h, BelowHome
    <3>6. d = e
      BY <3>2, <3>3, <3>5
    <3> QED
      BY <3>6, <2>4
  <2> QED
    BY <2>1, <2>2, <2>3, <2>4, <1>1, <1>2
<1> QED
  BY <1>4, <1>6

(***************************************************************************)
(* The scopes that _cut makes of a scan.                                   *)
(***************************************************************************)

OwnFiles(m) == {f \in files : f.module = m}

CutScopes == UNION {Cut(m, OwnFiles(m)) : m \in Owners}

LEMMA CutScopesAre ==
  ASSUME Scanned(files)
  PROVE  /\ IsFiniteSet(CutScopes)
         /\ \A s \in CutScopes : /\ s.module \in Owners /\ s \in Cut(s.module, OwnFiles(s.module))
                                 /\ s.files \subseteq OwnFiles(s.module) /\ s.node \in Seq(Nat)
                                 /\ ~Fits(s.files) => \A f, g \in s.files : f.dir = g.dir
         /\ \A s, t \in CutScopes : s # t => s.files \intersect t.files = {}
         /\ \A s, t \in CutScopes : s.module = t.module /\ s.node = t.node => s = t
         /\ FilesOf(CutScopes) = files
<1>1. \A m \in Owners : Scanned(OwnFiles(m)) /\ OwnFiles(m) \subseteq files
  BY ScannedParts DEF OwnFiles
<1>2. IsFiniteSet(CutScopes)
  <2> DEFINE h == [m \in Owners |-> Cut(m, OwnFiles(m))]
             T == {h[m] : m \in Owners}
  <2>1. IsFiniteSet(Owners)
    BY ModulesAreNumbers, FS_AddElement DEF Owners
  <2>2. \A p \in T : IsFiniteSet(p)
    BY <1>1, CutFinite
  <2>3. CutScopes = UNION T
    BY DEF CutScopes
  <2>4. IsFiniteSet(T)
    <3> HIDE DEF h
    <3> QED
      BY <2>1, FiniteImage
  <2> HIDE DEF T
  <2> QED
    BY <2>2, <2>3, <2>4, FS_UNION
<1>3. ASSUME NEW s \in CutScopes
      PROVE  /\ s.module \in Owners /\ s \in Cut(s.module, OwnFiles(s.module))
             /\ s.files \subseteq OwnFiles(s.module) /\ s.node \in Seq(Nat)
             /\ ~Fits(s.files) => \A f, g \in s.files : f.dir = g.dir
  <2>1. PICK m \in Owners : s \in Cut(m, OwnFiles(m))
    BY DEF CutScopes
  <2>2. /\ s.module = m /\ s.files \subseteq OwnFiles(m)
        /\ ~Fits(s.files) => \A f, g \in s.files : f.dir = g.dir
    BY <2>1, <1>1, CutScope
  <2>3. s.node \in Seq(Nat)
    BY <2>1, <1>1, CutNodes
  <2> QED
    BY <2>1, <2>2, <2>3
<1>4. ASSUME NEW s \in CutScopes, NEW t \in CutScopes, NEW f \in s.files, f \in t.files PROVE s = t
  <2>1. s.module = t.module
    BY <1>3, <1>4 DEF OwnFiles
  <2> QED
    BY <2>1, <1>1, <1>3, <1>4, CutOnce
<1>5. \A s, t \in CutScopes : s.module = t.module /\ s.node = t.node => s = t
  BY <1>1, <1>3, CutNodes
<1>6. FilesOf(CutScopes) = files
  <2>1. FilesOf(CutScopes) \subseteq files
    BY <1>3 DEF FilesOf, OwnFiles
  <2>2. ASSUME NEW f \in files PROVE f \in FilesOf(CutScopes)
    <3>1. f.module \in Owners /\ f \in OwnFiles(f.module)
      BY DEF Scanned, OwnFiles
    <3>2. PICK s \in Cut(f.module, OwnFiles(f.module)) : f \in s.files
      BY <3>1, <1>1, CutCovers
    <3>3. s \in CutScopes
      BY <3>1, <3>2 DEF CutScopes
    <3> QED
      BY <3>2, <3>3 DEF FilesOf
  <2> QED
    BY <2>1, <2>2
<1> QED
  BY <1>2, <1>3, <1>4, <1>5, <1>6

\* What _cut split can never be put together again.
LEMMA CutNotMergeable ==
  ASSUME Scanned(files)
  PROVE  Mergeable(CutScopes) = {}
<1> SUFFICES ASSUME NEW p \in Mergeable(CutScopes) PROVE FALSE
  OBVIOUS
<1> DEFINE group == Group(CutScopes, p)
<1>1. /\ p \in Parents(CutScopes) /\ Cardinality(group) >= 2 /\ Fits(FilesOf(group))
      /\ \A s, t \in group : s.module = t.module
  BY DEF Mergeable
<1>2. PICK s \in CutScopes : s.node # <<>> /\ p = Front(s.node)
  BY <1>1 DEF Parents
<1>3. PICK m, F : m = s.module /\ F = OwnFiles(m)
  OBVIOUS
<1>4. m \in Owners /\ s \in Cut(m, F) /\ Scanned(F) /\ s.node \in Seq(Nat) /\ Home[m] \in Seq(Nat)
  BY <1>3, CutScopesAre, ScannedParts, HomesArePaths DEF OwnFiles
<1>5. PICK d \in Reached(F) : \/ ~Splits(F, d) /\ s = Whole(m, F, d)
                              \/ Splits(F, d) /\ Here(F, d) # {} /\ s = Rest(m, F, d)
  BY <1>4, CutIs
<1>6. d \in Directory /\ p \in Seq(Nat) /\ d \in Seq(Nat)
  <2>1. d \in Directory
    BY <1>4, ReachedIs
  <2>2. p \in Seq(Nat)
    BY <1>2, <1>4, FrontIs
  <2> QED
    BY <2>1, <2>2, DirectoryIsPath
<1>n. Whole(m, F, d).node = Home[m] \o d /\ Rest(m, F, d).node = Home[m] \o (d \o <<Loose>>)
  BY <1>4, <1>6, CutNode
<1>u. d \o <<Loose>> \in Seq(Nat) /\ Front(d \o <<Loose>>) = d /\ d \o <<Loose>> # <<>>
  BY <1>6, MadeUp
<1>7. s \in group
  <2>1. IsPrefix(p, s.node)
    <3>0. PICK n : n = s.node
      OBVIOUS
    <3>1. Len(p) = Len(n) - 1 /\ Len(n) \in Nat \ {0} /\ \A i \in 1..(Len(n) - 1) : p[i] = n[i]
      BY <3>0, <1>2, <1>4, FrontIs
    <3>2. Len(p) <= Len(n) /\ \A i \in 1..Len(p) : p[i] = n[i]
      BY <3>1
    <3> QED
      BY <3>0, <3>2, <1>4, <1>6, PrefixMeans
  <2> QED
    BY <2>1 DEF Group
<1>8. \A t \in group : t \in Cut(m, F) /\ t \in CutScopes
  BY <1>1, <1>3, <1>7, CutScopesAre DEF Group
<1>9. CASE s = Whole(m, F, d) /\ ~Splits(F, d) /\ d = <<>>
  <2>1. ASSUME NEW t \in group PROVE t = s
    <3>1. PICK e \in Reached(F) : \/ ~Splits(F, e) /\ t = Whole(m, F, e)
                                  \/ Splits(F, e) /\ Here(F, e) # {} /\ t = Rest(m, F, e)
      BY <1>8, CutIs
    <3>2. IsPrefix(d, e) /\ e \in Directory
      BY <3>1, <1>4, <1>9, ReachedIs, PrefixOrder DEF Directory
    <3>3. d = e
      BY <3>2, <1>4, <1>6, <1>9, <3>1, ReachedIs
    <3> QED
      BY <3>1, <3>3, <1>9
  <2>2. group = {s}
    BY <2>1, <1>7
  <2>3. Cardinality({s}) = 1
    BY FS_Singleton
  <2>4. Cardinality(group) = 1
    BY <2>2, <2>3
  <2> HIDE DEF group
  <2> QED
    BY <2>4, <1>1
<1>10. CASE ~(s = Whole(m, F, d) /\ ~Splits(F, d) /\ d = <<>>)
  <2>1. PICK e \in Directory : p = Home[m] \o e /\ e \in Reached(F) /\ Splits(F, e)
    <3>1. CASE s = Rest(m, F, d) /\ Splits(F, d)
      <4>1. PICK b \in Seq(Nat) : b = d \o <<Loose>> /\ b # <<>> /\ Front(b) = d /\ s.node = Home[m] \o b
        BY <3>1, <1>n, <1>u
      <4>2. p = Home[m] \o d
        <5>1. Home[m] \in Seq(Nat) /\ b # <<>>
          BY <4>1, <1>4
        <5>2. Front(Home[m] \o b) = Home[m] \o Front(b)
          BY <5>1, FrontBelowHome, Zenon
        <5> QED
          BY <5>2, <4>1, <1>2
      <4> QED
        BY <4>2, <3>1, <1>6
    <3>2. CASE s = Whole(m, F, d) /\ ~Splits(F, d)
      <4>1. d # <<>> /\ s.node = Home[m] \o d
        BY <3>2, <1>n, <1>10
      <4>2. p = Home[m] \o Front(d)
        <5>1. Front(Home[m] \o d) = Home[m] \o Front(d)
          BY <4>1, <1>4, <1>6, FrontBelowHome
        <5> QED
          BY <5>1, <4>1, <1>2
      <4>3. Front(d) \in Directory /\ IsPrefix(Front(d), d) /\ Front(d) # d
        BY <4>1, <1>6, FrontBelowHome DEF Directory
      <4>4. Splits(F, Front(d))
        BY <4>3, <1>4, ReachedIs
      <4>5. Front(d) \in Reached(F)
        <5>1. PICK f \in F : IsPrefix(d, f.dir)
          BY <1>4, <1>5, ReachedIs
        <5>2. IsPrefix(Front(d), f.dir) /\ f.dir \in Directory
          BY <5>1, <4>3, <1>4, <1>6, PrefixOrder DEF Directory, Scanned
        <5>3. ASSUME NEW e \in Directory, IsPrefix(e, Front(d)), e # Front(d) PROVE Splits(F, e)
          <6>1. IsPrefix(e, d)
            BY <5>3, <4>3, <1>6, PrefixOrder DEF Directory
          <6>2. e # d
            BY <5>3, <4>3, <1>6, PrefixOrder DEF Directory
          <6> QED
            BY <6>1, <6>2, <1>4, ReachedIs
        <5> QED
          BY <5>1, <5>2, <5>3, <4>3, <1>4, ReachedIs
      <4> QED
        BY <4>2, <4>3, <4>4, <4>5
    <3> QED
      BY <3>1, <3>2, <1>5
  <2>2. Under(F, e) \subseteq FilesOf(group)
    <3> SUFFICES ASSUME NEW f \in F, IsPrefix(e, f.dir) PROVE f \in FilesOf(group)
      BY DEF Under
    <3>1. PICK t \in Cut(m, F) : f \in t.files
      BY <1>4, CutCovers
    <3>2. PICK c \in Reached(F) : \/ ~Splits(F, c) /\ t = Whole(m, F, c)
                                  \/ Splits(F, c) /\ Here(F, c) # {} /\ t = Rest(m, F, c)
      BY CutIs
    <3>3. c \in Directory /\ f.dir \in Directory /\ c \in Seq(Nat) /\ e \in Seq(Nat)
      <4>1. c \in Directory
        BY <1>4, ReachedIs
      <4>2. f.dir \in Directory
        BY <1>4 DEF Scanned
      <4> QED
        BY <4>1, <4>2, <2>1, DirectoryIsPath
    <3>4. IsPrefix(c, f.dir) /\ (Splits(F, c) => f.dir = c)
      BY <3>1, <3>2, <3>3, PrefixOrder DEF Whole, Rest, Under, Here, Directory
    <3>5. IsPrefix(e, c)
      <4>1. CASE Splits(F, c)
        BY <4>1, <3>4
      <4>2. CASE ~Splits(F, c)
        <5>1. IsPrefix(e, c) \/ IsPrefix(c, e)
          BY <3>3, <3>4, <2>1, PrefixOrder DEF Directory
        <5>2. IsPrefix(c, e) /\ c # e => Splits(F, c)
          BY <3>3, <2>1, <1>4, ReachedIs
        <5> QED
          BY <5>1, <5>2, <4>2, <2>1
      <4> QED
        BY <4>1, <4>2
    <3>n. Whole(m, F, c).node = Home[m] \o c /\ Rest(m, F, c).node = Home[m] \o (c \o <<Loose>>)
      BY <3>3, <1>4, CutNode
    <3>u. PICK b \in Seq(Nat) : b = c \o <<Loose>> /\ IsPrefix(c, b)
      BY <3>3, MadeUp
    <3>6. IsPrefix(p, t.node)
      <4>1. CASE t = Whole(m, F, c)
        <5>1. IsPrefix(Home[m] \o e, Home[m] \o c)
          BY <3>3, <3>5, <1>4, BelowHome
        <5> QED
          BY <5>1, <4>1, <3>n, <2>1
      <4>2. CASE t = Rest(m, F, c)
        <5>1. IsPrefix(e, b)
          BY <3>3, <3>5, <3>u, PrefixOrder
        <5>2. IsPrefix(Home[m] \o e, Home[m] \o b)
          BY <5>1, <3>3, <3>u, <1>4, BelowHome
        <5> QED
          BY <5>2, <4>2, <3>n, <3>u, <2>1
      <4> QED
        BY <4>1, <4>2, <3>2
    <3>7. t \in group
      BY <3>1, <3>6, <1>3, <1>4 DEF Group, CutScopes
    <3> QED
      BY <3>1, <3>7 DEF FilesOf
  <2>3. FilesOf(group) \subseteq files
    BY <1>8, CutScopesAre DEF FilesOf, OwnFiles
  <2>4. Sized(FilesOf(group))
    BY <2>3, ScannedParts
  <2>5. Fits(Under(F, e))
    BY <2>2, <2>4, <1>1, FitsShrinks
  <2> QED
    BY <2>1, <2>5 DEF Splits
<1> QED
  BY <1>9, <1>10

(***************************************************************************)
(* The order of nodes.                                                     *)
(***************************************************************************)

\* a comes before b: where they first differ, a has ended or has the lower segment.
LEMMA NodeBeforeIs ==
  ASSUME NEW a \in Seq(Nat), NEW b \in Seq(Nat)
  PROVE  NodeBefore(a, b) <=>
           \E i \in 1..Len(b) :
              /\ \A j \in 1..(i - 1) : j <= Len(a) /\ a[j] = b[j]
              /\ i = Len(a) + 1 \/ (i <= Len(a) /\ a[i] < b[i])
<1>d. DOMAIN a = 1..Len(a) /\ DOMAIN b = 1..Len(b) /\ Len(a) \in Nat /\ Len(b) \in Nat
  OBVIOUS
<1>1. ASSUME IsStrictPrefix(a, b)
      PROVE  \E i \in 1..Len(b) : i = Len(a) + 1 /\ \A j \in 1..(i - 1) : j <= Len(a) /\ a[j] = b[j]
  <2>1. a # b /\ Len(a) <= Len(b) /\ \A i \in 1..Len(a) : a[i] = b[i]
    BY <1>1, PrefixMeans DEF IsStrictPrefix
  <2>2. Len(a) # Len(b)
    BY <2>1, SamePath
  <2>3. Len(a) + 1 \in 1..Len(b)
    <3>1. Len(a) <= Len(b) /\ Len(a) \in Nat /\ Len(b) \in Nat
      BY <2>1, <1>d
    <3> QED
      BY <3>1, <2>2
  <2> QED
    BY <2>1, <2>3, <1>d
<1>2. ASSUME NEW i \in 1..Len(b), i = Len(a) + 1, \A j \in 1..(i - 1) : j <= Len(a) /\ a[j] = b[j]
      PROVE  IsStrictPrefix(a, b)
  <2>1. Len(a) <= Len(b) /\ Len(a) # Len(b) /\ \A j \in 1..Len(a) : a[j] = b[j]
    <3>1. Len(a) \in Nat /\ Len(b) \in Nat /\ i \in 1..Len(b) /\ i = Len(a) + 1
      BY <1>2, <1>d
    <3>2. Len(a) <= Len(b) /\ Len(a) # Len(b) /\ 1..Len(a) = 1..(i - 1)
      BY <3>1
    <3> QED
      BY <3>2, <1>2
  <2>2. IsPrefix(a, b)
    BY <2>1, PrefixMeans
  <2> QED
    BY <2>1, <2>2 DEF IsStrictPrefix
<1>3. (\E i \in DOMAIN a \intersect DOMAIN b : a[i] < b[i] /\ \A j \in 1..(i - 1) : a[j] = b[j])
      <=> \E i \in 1..Len(b) : /\ \A j \in 1..(i - 1) : j <= Len(a) /\ a[j] = b[j]
                               /\ i <= Len(a) /\ a[i] < b[i]
  <2>1. ASSUME NEW i \in DOMAIN a \intersect DOMAIN b, a[i] < b[i], \A j \in 1..(i - 1) : a[j] = b[j]
        PROVE  i \in 1..Len(b) /\ i <= Len(a) /\ \A j \in 1..(i - 1) : j <= Len(a) /\ a[j] = b[j]
    BY <2>1, <1>d
  <2>2. ASSUME NEW i \in 1..Len(b), i <= Len(a) PROVE i \in DOMAIN a \intersect DOMAIN b
    BY <2>2, <1>d
  <2> QED
    BY <2>1, <2>2
<1> QED
  BY <1>1, <1>2, <1>3 DEF NodeBefore

LEMMA NodeOrder ==
  ASSUME NEW a \in Seq(Nat), NEW b \in Seq(Nat), NEW c \in Seq(Nat)
  PROVE  /\ ~NodeBefore(a, a)
         /\ NodeBefore(a, b) /\ NodeBefore(b, c) => NodeBefore(a, c)
         /\ a # b => NodeBefore(a, b) \/ NodeBefore(b, a)
<1>d. /\ Len(a) \in Nat /\ Len(b) \in Nat /\ Len(c) \in Nat
      /\ \A i \in 1..Len(a) : a[i] \in Nat
      /\ \A i \in 1..Len(b) : b[i] \in Nat
      /\ \A i \in 1..Len(c) : c[i] \in Nat
  OBVIOUS
<1>1. ~NodeBefore(a, a)
  <2> SUFFICES ASSUME NEW i \in 1..Len(a), i = Len(a) + 1 \/ (i <= Len(a) /\ a[i] < a[i]) PROVE FALSE
    BY NodeBeforeIs
  <2> QED
    BY <1>d
<1>2. ASSUME NodeBefore(a, b), NodeBefore(b, c) PROVE NodeBefore(a, c)
  <2>1. PICK i \in 1..Len(b) : /\ \A j \in 1..(i - 1) : j <= Len(a) /\ a[j] = b[j]
                               /\ i = Len(a) + 1 \/ (i <= Len(a) /\ a[i] < b[i])
    BY <1>2, NodeBeforeIs
  <2>2. PICK k \in 1..Len(c) : /\ \A j \in 1..(k - 1) : j <= Len(b) /\ b[j] = c[j]
                               /\ k = Len(b) + 1 \/ (k <= Len(b) /\ b[k] < c[k])
    BY <1>2, NodeBeforeIs
  <2>3. CASE i < k
    <3>1. i \in 1..Len(c) /\ b[i] = c[i]
      BY <2>3, <2>2, <1>d
    <3>2. \A j \in 1..(i - 1) : j <= Len(a) /\ a[j] = c[j]
      <4> SUFFICES ASSUME NEW j \in 1..(i - 1) PROVE j <= Len(a) /\ a[j] = c[j]
        OBVIOUS
      <4>1. j \in 1..(k - 1)
        BY <2>3
      <4> QED
        BY <4>1, <2>1, <2>2
    <3> QED
      BY <3>1, <3>2, <2>1, NodeBeforeIs
  <2>4. CASE i = k
    <3>1. b[k] < c[k] /\ k <= Len(b)
      BY <2>1, <2>2, <2>4, <1>d
    <3>2. \A j \in 1..(k - 1) : j <= Len(a) /\ a[j] = c[j]
      BY <2>1, <2>2, <2>4
    <3>3. k = Len(a) + 1 \/ (k <= Len(a) /\ a[k] < c[k])
      <4>1. CASE k = Len(a) + 1
        BY <4>1
      <4>2. CASE k <= Len(a) /\ a[k] < b[k]
        <5>1. a[k] \in Nat /\ b[k] \in Nat /\ c[k] \in Nat
          BY <4>2, <3>1, <1>d
        <5>2. a[k] < c[k]
          <6>1. PICK x, y, z \in Nat : x = a[k] /\ y = b[k] /\ z = c[k]
            BY <5>1
          <6>2. x < y /\ y < z
            BY <6>1, <4>2, <3>1
          <6>3. x < z
            BY <6>1, <6>2
          <6> QED
            BY <6>1, <6>3
        <5> QED
          BY <5>2, <4>2
      <4> QED
        BY <4>1, <4>2, <2>1, <2>4
    <3> QED
      BY <3>2, <3>3, NodeBeforeIs
  <2>5. CASE k < i
    <3>1. k \in 1..(i - 1) /\ k <= Len(b)
      BY <2>1, <2>5, <1>d
    <3>2. k <= Len(a) /\ a[k] = b[k] /\ b[k] < c[k]
      BY <3>1, <2>1, <2>2, <1>d
    <3>3. \A j \in 1..(k - 1) : j <= Len(a) /\ a[j] = c[j]
      BY <2>1, <2>2, <2>5, <1>d
    <3> QED
      BY <3>2, <3>3, NodeBeforeIs
  <2> QED
    BY <2>3, <2>4, <2>5
<1>3. ASSUME a # b PROVE NodeBefore(a, b) \/ NodeBefore(b, a)
  <2> DEFINE D == {i \in Nat \ {0} : i <= Len(a) /\ i <= Len(b) /\ a[i] # b[i]}
  <2>1. CASE D = {}
    <3>0. \A i \in 1..Len(a) : i <= Len(b) => a[i] = b[i]
      <4> SUFFICES ASSUME NEW i \in 1..Len(a), i <= Len(b), a[i] # b[i] PROVE FALSE
        OBVIOUS
      <4>1. i \in Nat \ {0} /\ i <= Len(a)
        BY <1>d
      <4>2. i \in D
        BY <4>1
      <4> QED
        BY <4>2, <2>1
    <3>1. Len(a) # Len(b)
      BY <3>0, <1>3, SamePath, <1>d
    <3>2. CASE Len(a) < Len(b)
      <4>1. PICK i \in 1..Len(b) : i = Len(a) + 1
        BY <3>2, <1>d
      <4>2. \A j \in 1..(i - 1) : j <= Len(a) /\ a[j] = b[j]
        <5>1. \A j \in 1..(i - 1) : j \in 1..Len(a) /\ j <= Len(a) /\ j <= Len(b)
          BY <4>1, <3>2, <1>d
        <5> QED
          BY <5>1, <3>0
      <4> QED
        BY <4>1, <4>2, NodeBeforeIs
    <3>3. CASE Len(b) < Len(a)
      <4>1. PICK i \in 1..Len(a) : i = Len(b) + 1
        BY <3>3, <1>d
      <4>2. \A j \in 1..(i - 1) : j <= Len(b) /\ b[j] = a[j]
        <5>1. \A j \in 1..(i - 1) : j \in 1..Len(a) /\ j <= Len(b)
          BY <4>1, <3>3, <1>d
        <5> QED
          BY <5>1, <3>0
      <4> QED
        BY <4>1, <4>2, NodeBeforeIs
    <3> QED
      BY <3>1, <3>2, <3>3, <1>d
  <2>2. CASE D # {}
    <3>1. PICK i \in D : \A j \in D : i <= j
      <4>1. D \in SUBSET Nat
        OBVIOUS
      <4>2. Min(D) \in D /\ \A j \in D : Min(D) <= j
        BY <4>1, <2>2, MinNat
      <4> QED
        BY <4>2
    <3>2. /\ i \in 1..Len(a) /\ i \in 1..Len(b) /\ a[i] # b[i] /\ a[i] \in Nat /\ b[i] \in Nat
      BY <1>d
    <3>3. \A j \in 1..(i - 1) : j <= Len(a) /\ j <= Len(b) /\ a[j] = b[j]
      BY <3>1, <3>2, <1>d
    <3>4. CASE a[i] < b[i]
      BY <3>2, <3>3, <3>4, NodeBeforeIs
    <3>5. CASE b[i] < a[i]
      <4>1. /\ \A j \in 1..(i - 1) : j <= Len(b) /\ b[j] = a[j]
            /\ i <= Len(b)
        BY <3>2, <3>3
      <4> QED
        BY <4>1, <3>2, <3>5, NodeBeforeIs
    <3> QED
      BY <3>2, <3>4, <3>5
  <2> QED
    BY <2>1, <2>2
<1> QED
  BY <1>1, <1>2, <1>3

\* Of some scopes with nodes of their own one is first.
LEMMA FirstOf ==
  ASSUME NEW B, IsFiniteSet(B), B # {}, \A s \in B : s.node \in Seq(Nat),
         \A s, t \in B : s.node = t.node => s = t
  PROVE  \E s \in B : \A t \in B \ {s} : NodeBefore(s.node, t.node)
<1> DEFINE before == [s \in B |-> {t \in B : NodeBefore(t.node, s.node)}]
           Sets == {before[s] : s \in B}
<1>1. Sets \in SUBSET SUBSET B /\ Sets # {}
  <2>1. \A s \in B : before[s] \subseteq B
    OBVIOUS
  <2>2. PICK s \in B : TRUE
    OBVIOUS
  <2>3. before[s] \in Sets
    OBVIOUS
  <2> HIDE DEF before
  <2> QED
    BY <2>1, <2>3
<1>2. PICK S \in Sets : \A T \in Sets : T \subseteq S => T = S
  <2> HIDE DEF Sets
  <2> QED
    BY <1>1, Smallest
<1>3. PICK s \in B : S = before[s]
  OBVIOUS
<1>4. \A t \in B : t \in S <=> NodeBefore(t.node, s.node)
  BY <1>3
<1>5. ASSUME NEW t \in S PROVE FALSE
  <2>1. t \in B /\ NodeBefore(t.node, s.node) /\ before[t] \in Sets
    BY <1>1, <1>4
  <2>2. before[t] \subseteq S
    <3> SUFFICES ASSUME NEW u \in B, NodeBefore(u.node, t.node) PROVE u \in S
      BY <2>1
    <3>1. NodeBefore(u.node, s.node)
      <4>1. u.node \in Seq(Nat) /\ t.node \in Seq(Nat) /\ s.node \in Seq(Nat)
        BY <2>1
      <4> QED
        BY <4>1, <2>1, NodeOrder
    <3> QED
      BY <3>1, <1>4
  <2>3. before[t] = S
    BY <2>1, <2>2, <1>2
  <2>4. NodeBefore(t.node, t.node)
    BY <2>1, <2>3
  <2> QED
    BY <2>1, <2>4, NodeOrder
<1>6. ASSUME NEW t \in B \ {s} PROVE NodeBefore(s.node, t.node)
  <2>1. s.node \in Seq(Nat) /\ t.node \in Seq(Nat) /\ s.node # t.node
    OBVIOUS
  <2>2. ~NodeBefore(t.node, s.node)
    BY <1>4, <1>5
  <2> QED
    BY <2>1, <2>2, NodeOrder
<1> QED
  BY <1>6

(***************************************************************************)
(* _pack_siblings.                                                         *)
(***************************************************************************)

\* The scope that takes the place of a bin.
LEMMA PackedIs ==
  ASSUME NEW B, IsFiniteSet(B), B # {}, \A s \in B : s.node \in Seq(Nat),
         \A s, t \in B : s.node = t.node => s = t,
         NEW m, \A s \in B : s.module = m
  PROVE  Packed(B).module = m /\ Packed(B).files = FilesOf(B)
<1>1. CASE Cardinality(B) = 1
  <2>1. PICK s : B = {s}
    BY <1>1, FS_Singleton
  <2>2. Packed(B) = s
    BY <1>1, <2>1 DEF Packed
  <2>3. FilesOf(B) = s.files
    BY <2>1 DEF FilesOf
  <2> QED
    BY <2>1, <2>2, <2>3
<1>2. CASE Cardinality(B) # 1
  <2> DEFINE first == CHOOSE s \in B : \A t \in B \ {s} : NodeBefore(s.node, t.node)
  <2>1. first \in B
    BY FirstOf
  <2>2. Packed(B).module = first.module /\ Packed(B).files = FilesOf(B)
    BY <1>2 DEF Packed, MergeScopes
  <2> QED
    BY <2>1, <2>2
<1> QED
  BY <1>1, <1>2

\* First-fit.
LEMMA PlaceIs ==
  ASSUME NEW S, NEW b \in Seq(S), NEW s
  PROVE  \/ \E k \in 1..Len(b) :
               /\ Fits(FilesOf(b[k] \union {s}))
               /\ Place(b, s) = [b EXCEPT ![k] = @ \union {s}]
         \/ /\ \A k \in 1..Len(b) : ~Fits(FilesOf(b[k] \union {s}))
            /\ Place(b, s) = Append(b, {s})
<1> DEFINE I == {i \in 1..Len(b) : Fits(FilesOf(b[i] \union {s}))}
<1>1. Place(b, s) = IF (IF I # {} THEN Min(I) ELSE 0) = 0 THEN Append(b, {s})
                    ELSE [b EXCEPT ![IF I # {} THEN Min(I) ELSE 0] = @ \union {s}]
  BY DEF Place, SelectInSeq
<1>2. CASE I = {}
  BY <1>1, <1>2
<1>3. CASE I # {}
  <2>1. I \in SUBSET Nat
    OBVIOUS
  <2>2. Min(I) \in I
    BY <2>1, <1>3, MinNat
  <2>3. PICK k \in I : k = Min(I)
    BY <2>2
  <2>4. k # 0 /\ k \in 1..Len(b) /\ Fits(FilesOf(b[k] \union {s}))
    OBVIOUS
  <2>5. Place(b, s) = [b EXCEPT ![k] = @ \union {s}]
    BY <1>1, <1>3, <2>3, <2>4
  <2> QED
    BY <2>4, <2>5
<1> QED
  BY <1>2, <1>3

(***************************************************************************)
(* The inductive invariant.                                                *)
(***************************************************************************)

\* The bins b of a module, when some scopes are left: what they hold, and that none has
\* room for a scope that was put into a later one.
ModuleBins(m, b, left) ==
    /\ b \in Seq(SUBSET CutScopes)
    /\ \A i \in 1..Len(b) :
          /\ b[i] # {} /\ Fits(FilesOf(b[i]))
          /\ \A s \in b[i] : s.module = m /\ s \notin left
          /\ \A j \in 1..Len(b) : i < j =>
                /\ b[i] \intersect b[j] = {}
                /\ \E s \in b[j] : ~Fits(FilesOf(b[i] \union {s}))

PackingInv ==
    /\ bins = [m \in Owners |-> bins[m]]
    /\ small \subseteq CutScopes /\ \A s \in small : Fits(s.files)
    /\ \A m \in Owners : ModuleBins(m, bins[m], small)

Filled == UNION {ToSet(bins[m]) : m \in Owners}

Merged == (CutScopes \ UNION Filled) \union {Packed(bin) : bin \in Filled}

\* The scopes of each phase.
ScopesInv ==
    /\ phase \in {"layer", "cut"} => scopes = {}
    /\ phase \in {"layer", "cut", "coalesce"} => \A m \in Owners : bins[m] = <<>>
    /\ phase \in {"coalesce", "pack"} => scopes = CutScopes
    /\ phase \in {"schedule", "done"} => scopes = Merged

WavesInv ==
    /\ waves \in Seq([level : Nat, scopes : SUBSET scopes])
    /\ phase \notin {"schedule", "done"} => waves = <<>>
    /\ WavesPartition
    /\ \A i \in 1..Len(waves) : \A s \in scopes \ Scheduled : waves[i].level <= Level(s)

\* A module is above those it imports that are in no cycle.
LevelsInv ==
    /\ CyclesFound
    /\ level \in [Modules -> Nat]
    /\ \A e \in edges : (\A c \in cycles : e[2] \notin c) => level[e[2]] < level[e[1]]

PlanInv ==
    /\ TarjanInv
    /\ Scanned(files)
    /\ phase \in {"layer", "cut", "coalesce", "pack", "schedule", "done"}
    /\ phase # "layer" => LevelsInv
    /\ PackingInv
    /\ ScopesInv
    /\ WavesInv

\* What the passes of `partition` keep.
Sound(S) ==
    /\ IsFiniteSet(S) /\ IsPartition(S, files)
    /\ \A s \in S : /\ s.module \in Owners
                    /\ \A f \in s.files : f.module = s.module
                    /\ ~Fits(s.files) => \A f, g \in s.files : f.dir = g.dir

LEMMA CutIsSound == Scanned(files) => Sound(CutScopes)
<1> SUFFICES ASSUME Scanned(files) PROVE Sound(CutScopes)
  OBVIOUS
<1>1. IsPartition(CutScopes, files)
  BY CutScopesAre DEF IsPartition
<1>2. \A s \in CutScopes : \A f \in s.files : f.module = s.module
  BY CutScopesAre DEF OwnFiles
<1> QED
  BY <1>1, <1>2, CutScopesAre DEF Sound

\* The files of some scopes are finitely many.
LEMMA SomeFiles ==
  ASSUME Scanned(files), NEW B \in SUBSET CutScopes
  PROVE  Sized(FilesOf(B)) /\ FilesOf(B) \subseteq files /\ IsFiniteSet(B)
<1>1. FilesOf(B) \subseteq files
  BY CutScopesAre DEF FilesOf
<1>2. IsFiniteSet(B)
  BY CutScopesAre, FS_Subset
<1> QED
  BY <1>1, <1>2, ScannedParts

LEMMA FilledAre ==
  ASSUME Scanned(files), PackingInv
  PROVE  /\ \A b \in Filled :
               /\ b \subseteq CutScopes /\ IsFiniteSet(b) /\ b # {} /\ Fits(FilesOf(b))
               /\ \E m \in Owners : \A s \in b : s.module = m
         /\ \A b, c \in Filled : b # c => b \intersect c = {}
<1>1. \A b \in Filled : \E m \in Owners : \E i \in 1..Len(bins[m]) : b = bins[m][i]
  <2> SUFFICES ASSUME NEW m \in Owners, NEW b \in ToSet(bins[m])
               PROVE  \E i \in 1..Len(bins[m]) : b = bins[m][i]
    BY DEF Filled
  <2>1. bins[m] \in Seq(SUBSET CutScopes)
    BY DEF PackingInv, ModuleBins
  <2> QED
    BY <2>1 DEF ToSet
<1>2. ASSUME NEW m \in Owners, NEW i \in 1..Len(bins[m])
      PROVE  /\ bins[m][i] \subseteq CutScopes /\ bins[m][i] # {} /\ Fits(FilesOf(bins[m][i]))
             /\ \A s \in bins[m][i] : s.module = m
  <2>1. ModuleBins(m, bins[m], small)
    BY DEF PackingInv
  <2> QED
    BY <2>1 DEF ModuleBins
<1>3. ASSUME NEW m \in Owners, NEW i \in 1..Len(bins[m]), NEW j \in 1..Len(bins[m]), i # j
      PROVE  bins[m][i] \intersect bins[m][j] = {}
  <2>1. ModuleBins(m, bins[m], small)
    BY DEF PackingInv
  <2>2. i < j \/ j < i
    BY <1>3, <2>1 DEF ModuleBins
  <2> QED
    BY <2>1, <2>2 DEF ModuleBins
<1>4. ASSUME NEW b \in Filled
      PROVE  /\ b \subseteq CutScopes /\ IsFiniteSet(b) /\ b # {} /\ Fits(FilesOf(b))
             /\ \E m \in Owners : \A s \in b : s.module = m
  <2>1. b \subseteq CutScopes /\ b # {} /\ Fits(FilesOf(b)) /\ \E m \in Owners : \A s \in b : s.module = m
    BY <1>1, <1>2
  <2> QED
    BY <2>1, SomeFiles
<1>5. ASSUME NEW b \in Filled, NEW c \in Filled, b # c PROVE b \intersect c = {}
  <2>1. PICK m \in Owners : \E i \in 1..Len(bins[m]) : b = bins[m][i]
    BY <1>1
  <2>2. PICK n \in Owners : \E i \in 1..Len(bins[n]) : c = bins[n][i]
    BY <1>1
  <2>3. CASE m = n
    BY <2>1, <2>2, <2>3, <1>3, <1>5
  <2>4. CASE m # n
    <3>1. (\A s \in b : s.module = m) /\ (\A s \in c : s.module = n)
      BY <2>1, <2>2, <1>2
    <3> QED
      BY <3>1, <2>4
  <2> QED
    BY <2>3, <2>4
<1> QED
  BY <1>4, <1>5

\* What takes the place of a bin.
LEMMA PackedBin ==
  ASSUME Scanned(files), PackingInv, NEW b \in Filled
  PROVE  /\ Packed(b).files = FilesOf(b) /\ Packed(b).module \in Owners /\ Fits(FilesOf(b))
         /\ \A s \in b : s \in CutScopes /\ s.module = Packed(b).module
<1>1. /\ b \subseteq CutScopes /\ IsFiniteSet(b) /\ b # {} /\ Fits(FilesOf(b))
      /\ \E m \in Owners : \A s \in b : s.module = m
  BY FilledAre
<1>2. PICK m \in Owners : \A s \in b : s.module = m
  BY <1>1
<1>3. \A s \in b : s.node \in Seq(Nat)
  BY <1>1, CutScopesAre
<1>4. \A s, t \in b : s.node = t.node => s = t
  BY <1>1, <1>2, CutScopesAre
<1>5. Packed(b).module = m /\ Packed(b).files = FilesOf(b)
  BY <1>1, <1>2, <1>3, <1>4, PackedIs
<1> QED
  BY <1>1, <1>2, <1>5

LEMMA MergedIsSound ==
  ASSUME Scanned(files), PackingInv
  PROVE  Sound(Merged)
<1> DEFINE Left == CutScopes \ UNION Filled
           New == {Packed(b) : b \in Filled}
<1>m. Merged = Left \union New
  BY DEF Merged
<1>c. Sound(CutScopes)
  BY CutIsSound
<1>1. IsFiniteSet(Merged)
  <2> DEFINE h == [b \in Filled |-> Packed(b)]
  <2>1. IsFiniteSet(Filled)
    <3>1. Filled \in SUBSET SUBSET CutScopes
      BY FilledAre
    <3>2. IsFiniteSet(SUBSET CutScopes)
      BY <1>c, FS_SUBSET DEF Sound
    <3> QED
      BY <3>1, <3>2, FS_Subset
  <2>2. IsFiniteSet({h[b] : b \in Filled})
    <3> HIDE DEF h
    <3> QED
      BY <2>1, FiniteImage
  <2>3. New = {h[b] : b \in Filled}
    OBVIOUS
  <2>4. IsFiniteSet(Left)
    BY <1>c, FS_Subset DEF Sound
  <2> HIDE DEF h, New, Left
  <2> QED
    BY <2>2, <2>3, <2>4, <1>m, FS_Union
<1>2. ASSUME NEW s \in Merged
      PROVE  /\ s.module \in Owners
             /\ \A f \in s.files : f.module = s.module
             /\ ~Fits(s.files) => \A f, g \in s.files : f.dir = g.dir
  <2>1. CASE s \in Left
    BY <2>1, <1>c DEF Sound
  <2>2. CASE s \in New
    <3>1. PICK b \in Filled : s = Packed(b)
      BY <2>2
    <3>2. s.files = FilesOf(b) /\ s.module \in Owners /\ Fits(FilesOf(b))
      BY <3>1, PackedBin
    <3>3. \A f \in s.files : f.module = s.module
      <4> SUFFICES ASSUME NEW t \in b, NEW f \in t.files PROVE f.module = s.module
        BY <3>2 DEF FilesOf
      <4>1. t \in CutScopes /\ t.module = s.module
        BY <3>1, PackedBin
      <4> QED
        BY <4>1, <1>c DEF Sound
    <3> QED
      BY <3>2, <3>3
  <2> QED
    BY <2>1, <2>2, <1>m
<1>d. \A s, t \in CutScopes : s # t => s.files \intersect t.files = {}
  BY CutScopesAre
<1>3. ASSUME NEW s \in Left, NEW b \in Filled PROVE s.files \intersect FilesOf(b) = {}
  <2> SUFFICES ASSUME NEW t \in b, NEW f \in t.files, f \in s.files PROVE FALSE
    BY DEF FilesOf
  <2>1. t \in CutScopes /\ s \in CutScopes /\ t # s
    BY PackedBin
  <2> QED
    BY <2>1, <1>d
<1>4. ASSUME NEW b \in Filled, NEW c \in Filled, b # c PROVE FilesOf(b) \intersect FilesOf(c) = {}
  <2> SUFFICES ASSUME NEW s \in b, NEW t \in c, NEW f \in s.files, f \in t.files PROVE FALSE
    BY DEF FilesOf
  <2>1. s # t
    BY <1>4, FilledAre
  <2>2. s \in CutScopes /\ t \in CutScopes
    BY PackedBin
  <2> QED
    BY <2>1, <2>2, <1>d
<1>5. ASSUME NEW s \in Merged, NEW t \in Merged, s # t PROVE s.files \intersect t.files = {}
  <2>1. CASE s \in Left /\ t \in Left
    BY <2>1, <1>d, <1>5
  <2>2. CASE s \in Left /\ t \in New
    <3>1. PICK c \in Filled : t = Packed(c)
      BY <2>2
    <3>2. t.files = FilesOf(c)
      BY <3>1, PackedBin
    <3> QED
      BY <3>2, <2>2, <1>3
  <2>3. CASE s \in New /\ t \in Left
    <3>1. PICK c \in Filled : s = Packed(c)
      BY <2>3
    <3>2. s.files = FilesOf(c)
      BY <3>1, PackedBin
    <3>3. t.files \intersect FilesOf(c) = {}
      BY <2>3, <1>3
    <3> QED
      BY <3>2, <3>3
  <2>4. CASE s \in New /\ t \in New
    <3>1. PICK b \in Filled : s = Packed(b)
      BY <2>4
    <3>2. PICK c \in Filled : t = Packed(c)
      BY <2>4
    <3>3. s.files = FilesOf(b) /\ t.files = FilesOf(c) /\ b # c
      BY <3>1, <3>2, <1>5, PackedBin
    <3> QED
      BY <3>3, <1>4
  <2> QED
    BY <2>1, <2>2, <2>3, <2>4, <1>m
<1>6. FilesOf(Merged) = files
  <2>c. FilesOf(CutScopes) = files
    BY CutScopesAre
  <2>1. ASSUME NEW f \in FilesOf(Merged) PROVE f \in files
    <3>1. PICK s \in Merged : f \in s.files
      BY DEF FilesOf
    <3>2. CASE s \in Left
      BY <3>1, <3>2, <2>c DEF FilesOf
    <3>3. CASE s \in New
      <4>1. PICK b \in Filled : s = Packed(b)
        BY <3>3
      <4>2. f \in FilesOf(b)
        BY <4>1, <3>1, PackedBin
      <4>3. PICK t \in b : f \in t.files
        BY <4>2 DEF FilesOf
      <4>4. t \in CutScopes
        BY <4>3, PackedBin
      <4> QED
        BY <4>3, <4>4, <2>c DEF FilesOf
    <3> QED
      BY <3>2, <3>3, <1>m
  <2>2. ASSUME NEW f \in files PROVE f \in FilesOf(Merged)
    <3>1. PICK s \in CutScopes : f \in s.files
      BY <2>c DEF FilesOf
    <3>2. CASE s \in Left
      <4>1. s \in Merged
        BY <3>2, <1>m
      <4> QED
        BY <4>1, <3>1 DEF FilesOf
    <3>3. CASE s \notin Left
      <4>1. PICK b \in Filled : s \in b
        BY <3>1, <3>3
      <4>2. f \in FilesOf(b)
        BY <4>1, <3>1 DEF FilesOf
      <4>3. f \in Packed(b).files /\ Packed(b) \in Merged
        BY <4>2, <1>m, PackedBin
      <4> QED
        BY <4>3 DEF FilesOf
    <3> QED
      BY <3>2, <3>3
  <2> QED
    BY <2>1, <2>2
<1>7. IsPartition(Merged, files)
  BY <1>5, <1>6 DEF IsPartition
<1> QED
  BY <1>1, <1>2, <1>7 DEF Sound

\* Two bins of a module never fit together.
LEMMA BinsAreTight ==
  ASSUME Scanned(files), PackingInv, NEW m \in Owners,
         NEW i \in DOMAIN bins[m], NEW j \in DOMAIN bins[m], i # j
  PROVE  ~Fits(FilesOf(bins[m][i] \union bins[m][j]))
<1>1. /\ bins[m] \in Seq(SUBSET CutScopes) /\ DOMAIN bins[m] = 1..Len(bins[m])
      /\ \A k, l \in 1..Len(bins[m]) : k < l => \E s \in bins[m][l] : ~Fits(FilesOf(bins[m][k] \union {s}))
  <2>1. ModuleBins(m, bins[m], small)
    BY DEF PackingInv
  <2>2. bins[m] \in Seq(SUBSET CutScopes)
    BY <2>1 DEF ModuleBins
  <2>3. \A k, l \in 1..Len(bins[m]) : k < l => \E s \in bins[m][l] : ~Fits(FilesOf(bins[m][k] \union {s}))
    BY <2>1 DEF ModuleBins
  <2>4. PICK b \in Seq(SUBSET CutScopes) : b = bins[m]
    BY <2>2
  <2>5. DOMAIN b = 1..Len(b)
    BY <2>4
  <2> QED
    BY <2>2, <2>3, <2>4, <2>5
<1>2. ASSUME NEW k \in 1..Len(bins[m]), NEW l \in 1..Len(bins[m]), k < l
      PROVE  ~Fits(FilesOf(bins[m][k] \union bins[m][l]))
  <2>1. PICK s \in bins[m][l] : ~Fits(FilesOf(bins[m][k] \union {s}))
    BY <1>1, <1>2
  <2> DEFINE few == FilesOf(bins[m][k] \union {s})
             all == FilesOf(bins[m][k] \union bins[m][l])
  <2>2. few \subseteq all
    BY DEF FilesOf
  <2>3. Sized(all)
    <3>1. bins[m][k] \union bins[m][l] \in SUBSET CutScopes
      BY <1>1
    <3> QED
      BY <3>1, SomeFiles
  <2> HIDE DEF few, all
  <2>4. Fits(all) => Fits(few)
    BY <2>2, <2>3, FitsShrinks
  <2> QED
    BY <2>1, <2>4 DEF few, all
<1>3. i \in 1..Len(bins[m]) /\ j \in 1..Len(bins[m]) /\ (i < j \/ j < i)
  BY <1>1
<1>4. bins[m][i] \union bins[m][j] = bins[m][j] \union bins[m][i]
  OBVIOUS
<1> QED
  BY <1>2, <1>3, <1>4

(***************************************************************************)
(* The steps.                                                              *)
(***************************************************************************)

LEMMA PackingSame ==
  ASSUME PackingInv, UNCHANGED <<files, packing>>
  PROVE  PackingInv' /\ CutScopes' = CutScopes /\ Merged' = Merged
<1>1. files' = files /\ small' = small /\ bins' = bins
  BY DEF packing
<1>2. CutScopes' = CutScopes
  BY <1>1 DEF CutScopes, OwnFiles
<1>3. Merged' = Merged
  BY <1>1, <1>2 DEF Merged, Filled
<1>4. PackingInv'
  <2>1. ASSUME NEW m \in Owners PROVE ModuleBins(m, bins[m], small)'
    <3>1. ModuleBins(m, bins[m], small)
      BY DEF PackingInv
    <3> QED
      BY <3>1, <1>1, <1>2 DEF ModuleBins
  <2> QED
    BY <2>1, <1>1, <1>2 DEF PackingInv
<1> QED
  BY <1>2, <1>3, <1>4

LEMMA NoWaves == waves' = <<>> /\ phase' # "done" => WavesInv'
<1> SUFFICES ASSUME waves' = <<>>, phase' # "done" PROVE WavesInv'
  OBVIOUS
<1>1. DOMAIN waves' = {} /\ Len(waves') = 0 /\ waves' \in Seq([level : Nat, scopes : SUBSET scopes'])
  OBVIOUS
<1>2. WavesPartition'
  BY <1>1 DEF WavesPartition
<1> QED
  BY <1>1, <1>2 DEF WavesInv

\* A scope put into the first bin with room, or into a new one.
LEMMA PlaceKeeps ==
  ASSUME Scanned(files), NEW m, NEW b, NEW left \in SUBSET CutScopes, ModuleBins(m, b, left),
         NEW s \in left, s.module = m, Fits(s.files)
  PROVE  ModuleBins(m, Place(b, s), left \ {s})
<1>1. /\ b \in Seq(SUBSET CutScopes)
      /\ \A i \in 1..Len(b) :
            /\ b[i] # {} /\ Fits(FilesOf(b[i]))
            /\ \A t \in b[i] : t.module = m /\ t \notin left
            /\ \A j \in 1..Len(b) : i < j =>
                  /\ b[i] \intersect b[j] = {}
                  /\ \E t \in b[j] : ~Fits(FilesOf(b[i] \union {t}))
  BY DEF ModuleBins
<1>s. s \in CutScopes /\ \A i \in 1..Len(b) : s \notin b[i]
  BY <1>1
<1>2. ASSUME NEW k \in 1..Len(b), Fits(FilesOf(b[k] \union {s})),
             NEW c, c = [b EXCEPT ![k] = @ \union {s}]
      PROVE  ModuleBins(m, c, left \ {s})
  <2>1. /\ c \in Seq(SUBSET CutScopes) /\ Len(c) = Len(b)
        /\ \A i \in 1..Len(b) : c[i] = IF i = k THEN b[k] \union {s} ELSE b[i]
    BY <1>1, <1>2, <1>s
  <2>2. ASSUME NEW i \in 1..Len(c)
        PROVE  c[i] # {} /\ Fits(FilesOf(c[i])) /\ \A t \in c[i] : t.module = m /\ t \notin left \ {s}
    BY <2>1, <1>1, <1>2
  <2>3. ASSUME NEW i \in 1..Len(c), NEW j \in 1..Len(c), i < j
        PROVE  c[i] \intersect c[j] = {} /\ \E t \in c[j] : ~Fits(FilesOf(c[i] \union {t}))
    <3>1. i \in 1..Len(b) /\ j \in 1..Len(b) /\ b[i] \intersect b[j] = {}
      BY <2>1, <2>3, <1>1
    <3>2. c[i] \intersect c[j] = {}
      BY <3>1, <2>1, <2>3, <1>s
    <3>3. PICK t \in b[j] : ~Fits(FilesOf(b[i] \union {t}))
      BY <3>1, <2>3, <1>1
    <3>4. t \in c[j] /\ b[i] \subseteq c[i]
      BY <3>1, <3>3, <2>1
    <3>5. ~Fits(FilesOf(c[i] \union {t}))
      <4> DEFINE few == FilesOf(b[i] \union {t})
                 all == FilesOf(c[i] \union {t})
      <4>1. few \subseteq all
        BY <3>4 DEF FilesOf
      <4>2. Sized(all)
        <5>1. c[i] \union {t} \in SUBSET CutScopes
          BY <3>1, <3>3, <2>1, <1>1
        <5> QED
          BY <5>1, SomeFiles
      <4> HIDE DEF few, all
      <4>3. Fits(all) => Fits(few)
        BY <4>1, <4>2, FitsShrinks
      <4> QED
        BY <3>3, <4>3 DEF few, all
    <3> QED
      BY <3>2, <3>4, <3>5
  <2> QED
    BY <2>1, <2>2, <2>3 DEF ModuleBins
<1>3. ASSUME \A k \in 1..Len(b) : ~Fits(FilesOf(b[k] \union {s})),
             NEW c, c = Append(b, {s})
      PROVE  ModuleBins(m, c, left \ {s})
  <2>0. {s} \in SUBSET CutScopes
    BY <1>s
  <2>1. /\ c \in Seq(SUBSET CutScopes) /\ Len(c) = Len(b) + 1 /\ Len(b) \in Nat
        /\ c[Len(b) + 1] = {s} /\ \A i \in 1..Len(b) : c[i] = b[i]
    BY <1>1, <1>3, <2>0, AppendIs
  <2>2. ASSUME NEW i \in 1..Len(c)
        PROVE  c[i] # {} /\ Fits(FilesOf(c[i])) /\ \A t \in c[i] : t.module = m /\ t \notin left \ {s}
    <3>1. CASE i \in 1..Len(b)
      BY <3>1, <2>1, <1>1
    <3>2. CASE i \notin 1..Len(b)
      <4>1. c[i] = {s}
        BY <3>2, <2>1
      <4>2. FilesOf({s}) = s.files
        BY DEF FilesOf
      <4> QED
        BY <4>1, <4>2
    <3> QED
      BY <3>1, <3>2
  <2>3. ASSUME NEW i \in 1..Len(c), NEW j \in 1..Len(c), i < j
        PROVE  c[i] \intersect c[j] = {} /\ \E t \in c[j] : ~Fits(FilesOf(c[i] \union {t}))
    <3>1. i \in 1..Len(b) /\ c[i] = b[i]
      BY <2>1, <2>3
    <3>2. CASE j \in 1..Len(b)
      BY <3>1, <3>2, <2>1, <2>3, <1>1
    <3>3. CASE j \notin 1..Len(b)
      <4>1. c[j] = {s}
        BY <3>3, <2>1
      <4> QED
        BY <4>1, <3>1, <1>3, <1>s
    <3> QED
      BY <3>2, <3>3
  <2> QED
    BY <2>1, <2>2, <2>3 DEF ModuleBins
<1>4. \/ \E k \in 1..Len(b) : /\ Fits(FilesOf(b[k] \union {s}))
                              /\ Place(b, s) = [b EXCEPT ![k] = @ \union {s}]
      \/ /\ \A k \in 1..Len(b) : ~Fits(FilesOf(b[k] \union {s}))
         /\ Place(b, s) = Append(b, {s})
  BY <1>1, PlaceIs
<1> QED
  BY <1>2, <1>3, <1>4

LEMMA PlaceScopeKeeps == PlanInv /\ PlaceScope => PlanInv'
<1> SUFFICES ASSUME PlanInv, PlaceScope PROVE PlanInv'
  OBVIOUS
<1>u. /\ UNCHANGED <<phase, edges, files, tarjanVars, level, scopes, waves>> /\ phase = "pack"
  BY DEF PlaceScope
<1>1. PICK s \in small : /\ bins' = [bins EXCEPT ![s.module] = Place(@, s)]
                         /\ small' = small \ {s}
  BY DEF PlaceScope
<1>i. Scanned(files) /\ PackingInv /\ TarjanInv /\ LevelsInv /\ ScopesInv /\ WavesInv
  BY <1>u DEF PlanInv
<1>2. /\ s \in CutScopes /\ s.module \in Owners /\ Fits(s.files) /\ small \in SUBSET CutScopes
  BY <1>i, CutScopesAre DEF PackingInv
<1>3. PICK m \in Owners : m = s.module
  BY <1>2
<1>c. CutScopes' = CutScopes
  BY <1>u DEF CutScopes, OwnFiles
<1>4. bins' = [n \in Owners |-> IF n = m THEN Place(bins[m], s) ELSE bins[n]]
  BY <1>1, <1>3, <1>i DEF PackingInv
<1>5. PackingInv'
  <2>1. \A n \in Owners : ModuleBins(n, bins[n], small)
    BY <1>i DEF PackingInv
  <2>2. ASSUME NEW n \in Owners PROVE ModuleBins(n, bins'[n], small')
    <3>1. CASE n = m
      <4>1. ModuleBins(m, Place(bins[m], s), small \ {s})
        BY <2>1, <1>2, <1>3, <1>i, PlaceKeeps
      <4> QED
        BY <4>1, <3>1, <1>1, <1>4
    <3>2. CASE n # m
      <4>1. bins'[n] = bins[n] /\ small' \subseteq small
        BY <3>2, <1>1, <1>4
      <4>2. ModuleBins(n, bins[n], small')
        BY <4>1, <2>1 DEF ModuleBins
      <4> QED
        BY <4>1, <4>2
    <3> QED
      BY <3>1, <3>2
  <2>3. \A n \in Owners : ModuleBins(n, bins[n], small)'
    BY <2>2, <1>c DEF ModuleBins
  <2>4. small' \subseteq CutScopes' /\ \A t \in small' : Fits(t.files)
    BY <1>1, <1>c, <1>i DEF PackingInv
  <2>5. bins' = [n \in Owners |-> bins'[n]]
    BY <1>4
  <2> QED
    BY <2>3, <2>4, <2>5 DEF PackingInv
<1>6. TarjanInv' /\ LevelsInv'
  <2>1. TarjanInv'
    BY <1>u, <1>i, TarjanUntouched
  <2> QED
    BY <2>1, <1>u, <1>i DEF LevelsInv, CyclesFound, Unvisited, tarjanVars
<1>7. ScopesInv'
  BY <1>u, <1>i, <1>c DEF ScopesInv
<1>8. WavesInv'
  <2>1. waves' = <<>> /\ phase' # "done"
    BY <1>u, <1>i DEF WavesInv
  <2> QED
    BY <2>1, NoWaves
<1> QED
  BY <1>5, <1>6, <1>7, <1>8, <1>u, <1>i DEF PlanInv, Scanned

LEMMA PlanInit == Init => PlanInv
<1> SUFFICES ASSUME Init PROVE PlanInv
  OBVIOUS
<1>1. PICK inventory \in Inventories : edges = inventory.edges /\ files = inventory.files
  BY DEF Init
<1>2. Scanned(files) /\ edges \subseteq Edges
  BY <1>1, InventoriesAreScans DEF Scanned, Directory
<1>3. TarjanInv
  BY <1>2, TarjanInit DEF Init
<1>4. PackingInv
  <2>1. ASSUME NEW m \in Owners PROVE ModuleBins(m, bins[m], small)
    <3>1. bins[m] = <<>>
      BY DEF Init
    <3>2. <<>> \in Seq(SUBSET CutScopes) /\ Len(<<>>) = 0
      OBVIOUS
    <3>3. ModuleBins(m, <<>>, small)
      BY <3>2 DEF ModuleBins
    <3> QED
      BY <3>1, <3>3
  <2> QED
    BY <2>1 DEF PackingInv, Init
<1>5. ScopesInv
  BY DEF ScopesInv, Init
<1>6. WavesInv
  <2>1. waves = <<>> /\ phase # "done"
    BY DEF Init
  <2>2. DOMAIN waves = {} /\ Len(waves) = 0 /\ waves \in Seq([level : Nat, scopes : SUBSET scopes])
    BY <2>1
  <2>3. WavesPartition
    BY <2>1, <2>2 DEF WavesPartition
  <2> QED
    BY <2>1, <2>2, <2>3 DEF WavesInv
<1> QED
  BY <1>2, <1>3, <1>4, <1>5, <1>6 DEF PlanInv, Init

LEMMA SearchKeeps == PlanInv /\ SearchStep => PlanInv'
<1> SUFFICES ASSUME PlanInv, SearchStep PROVE PlanInv'
  OBVIOUS
<1>u. UNCHANGED <<phase, edges, files, level, scopes, packing, waves>> /\ phase = "layer" /\ FindCycles
  BY DEF SearchStep
<1>i. Scanned(files) /\ PackingInv /\ TarjanInv /\ ScopesInv /\ WavesInv
  BY DEF PlanInv
<1>1. TarjanInv'
  BY <1>u, <1>i, TarjanStep
<1>2. PackingInv' /\ CutScopes' = CutScopes
  BY <1>u, <1>i, PackingSame
<1>3. ScopesInv'
  BY <1>u, <1>i DEF ScopesInv, packing
<1>4. WavesInv'
  <2>1. waves' = <<>> /\ phase' # "done"
    BY <1>u, <1>i DEF WavesInv
  <2> QED
    BY <2>1, NoWaves
<1> QED
  BY <1>1, <1>2, <1>3, <1>4, <1>u, <1>i DEF PlanInv, Scanned

LEMMA LayerKeeps == PlanInv /\ Layer => PlanInv'
<1> SUFFICES ASSUME PlanInv, Layer PROVE PlanInv'
  OBVIOUS
<1>u. /\ UNCHANGED <<edges, files, tarjanVars, scopes, packing, waves>>
      /\ phase = "layer" /\ phase' = "cut" /\ CyclesFound /\ level' = LevelOf
  BY DEF Layer
<1>i. Scanned(files) /\ PackingInv /\ TarjanInv /\ ScopesInv /\ WavesInv
  BY DEF PlanInv
<1>1. TarjanInv'
  BY <1>u, <1>i, TarjanUntouched
<1>2. PackingInv'
  BY <1>u, <1>i, PackingSame
<1>3. ScopesInv'
  BY <1>u, <1>i DEF ScopesInv, packing
<1>4. WavesInv'
  <2>1. waves' = <<>> /\ phase' # "done"
    BY <1>u, <1>i DEF WavesInv
  <2> QED
    BY <2>1, NoWaves
<1>5. LevelsInv'
  <2>1. CyclesFound'
    BY <1>u DEF CyclesFound, Unvisited, tarjanVars
  <2>2. \A m \in Modules : LevelOf[m] \in Nat
    BY <1>u, <1>i, LevelOfIs
  <2>3. LevelOf = [m \in Modules |-> LevelOf[m]]
    BY DEF LevelOf
  <2>4. LevelOf \in [Modules -> Nat]
    BY <2>2, <2>3
  <2>5. \A e \in edges : (\A c \in cycles : e[2] \notin c) => LevelOf[e[2]] < LevelOf[e[1]]
    BY <1>u, <1>i, ImportsAreLower
  <2>6. edges' = edges /\ cycles' = cycles
    BY <1>u DEF tarjanVars
  <2> QED
    BY <2>1, <2>4, <2>5, <2>6, <1>u DEF LevelsInv
<1> QED
  BY <1>1, <1>2, <1>3, <1>4, <1>5, <1>u, <1>i DEF PlanInv, Scanned

LEMMA LevelsSame ==
  ASSUME TarjanInv, LevelsInv, UNCHANGED <<edges, tarjanVars, level>>
  PROVE  TarjanInv' /\ LevelsInv'
<1>1. TarjanInv'
  BY TarjanUntouched
<1> QED
  BY <1>1 DEF LevelsInv, CyclesFound, Unvisited, tarjanVars

LEMMA CutKeeps == PlanInv /\ CutModules => PlanInv'
<1> SUFFICES ASSUME PlanInv, CutModules PROVE PlanInv'
  OBVIOUS
<1>u. /\ UNCHANGED <<edges, files, tarjanVars, level, packing, waves>>
      /\ phase = "cut" /\ phase' = "coalesce"
      /\ scopes' = UNION {Cut(m, {f \in files : f.module = m}) : m \in Owners}
  BY DEF CutModules
<1>i. Scanned(files) /\ PackingInv /\ TarjanInv /\ LevelsInv /\ ScopesInv /\ WavesInv
  BY <1>u DEF PlanInv
<1>1. TarjanInv' /\ LevelsInv'
  BY <1>u, <1>i, LevelsSame
<1>2. PackingInv' /\ CutScopes' = CutScopes
  BY <1>u, <1>i, PackingSame
<1>3. ScopesInv'
  <2>1. scopes' = CutScopes
    BY <1>u DEF CutScopes, OwnFiles
  <2> QED
    BY <2>1, <1>2, <1>u, <1>i DEF ScopesInv, packing
<1>4. WavesInv'
  <2>1. waves' = <<>> /\ phase' # "done"
    BY <1>u, <1>i DEF WavesInv
  <2> QED
    BY <2>1, NoWaves
<1> QED
  BY <1>1, <1>2, <1>3, <1>4, <1>u, <1>i DEF PlanInv, Scanned

\* A small scope is within the budgets.
LEMMA SmallFits ==
  ASSUME Scanned(files), NEW s \in Packable(CutScopes)
  PROVE  s \in CutScopes /\ Fits(s.files)
<1>1. s \in CutScopes /\ 2 * Cardinality(s.files) <= MaxFiles /\ 2 * Loc(s.files) <= MaxLoc
  BY DEF Packable, Small
<1>2. Sized(s.files)
  <2>1. {s} \in SUBSET CutScopes /\ FilesOf({s}) = s.files
    BY <1>1 DEF FilesOf
  <2> QED
    BY <2>1, SomeFiles
<1>3. Cardinality(s.files) \in Nat /\ Loc(s.files) \in Nat
  <2>1. s.files \in SUBSET s.files
    OBVIOUS
  <2> QED
    BY <2>1, <1>2, LocGrows, FS_CardinalityType DEF Sized
<1> QED
  BY <1>1, <1>3, BudgetsArePositive DEF Fits

LEMMA CoalesceKeeps == PlanInv /\ CoalesceScopes => PlanInv'
<1> SUFFICES ASSUME PlanInv, CoalesceScopes PROVE PlanInv'
  OBVIOUS
<1>p. phase = "coalesce"
  BY DEF CoalesceScopes
<1>i. Scanned(files) /\ PackingInv /\ TarjanInv /\ LevelsInv /\ ScopesInv /\ WavesInv
  BY <1>p DEF PlanInv
<1>s. scopes = CutScopes /\ \A m \in Owners : bins[m] = <<>>
  BY <1>p, <1>i DEF ScopesInv
<1>m. Mergeable(scopes) = {}
  BY <1>s, <1>i, CutNotMergeable
<1>u. /\ UNCHANGED <<edges, files, tarjanVars, level, bins, waves, scopes>>
      /\ phase' = "pack" /\ small' = Packable(scopes)
  BY <1>m DEF CoalesceScopes
<1>1. TarjanInv' /\ LevelsInv'
  BY <1>u, <1>i, LevelsSame
<1>c. CutScopes' = CutScopes
  BY <1>u DEF CutScopes, OwnFiles
<1>2. PackingInv'
  <2>1. \A t \in small' : t \in CutScopes /\ Fits(t.files)
    BY <1>u, <1>s, <1>i, SmallFits
  <2>2. ASSUME NEW m \in Owners PROVE ModuleBins(m, bins[m], small)'
    <3>1. bins'[m] = <<>> /\ <<>> \in Seq(SUBSET CutScopes) /\ Len(<<>>) = 0
      BY <1>u, <1>s
    <3> QED
      BY <3>1, <1>c DEF ModuleBins
  <2>3. bins' = [m \in Owners |-> bins'[m]]
    BY <1>u, <1>i DEF PackingInv
  <2> QED
    BY <2>1, <2>2, <2>3, <1>c DEF PackingInv
<1>3. ScopesInv'
  BY <1>c, <1>u, <1>s DEF ScopesInv
<1>4. WavesInv'
  <2>1. waves' = <<>> /\ phase' # "done"
    BY <1>u, <1>i, <1>p DEF WavesInv
  <2> QED
    BY <2>1, NoWaves
<1> QED
  BY <1>1, <1>2, <1>3, <1>4, <1>u, <1>i DEF PlanInv, Scanned

LEMMA MergeBinsKeeps == PlanInv /\ MergeBins => PlanInv'
<1> SUFFICES ASSUME PlanInv, MergeBins PROVE PlanInv'
  OBVIOUS
<1>u. /\ UNCHANGED <<edges, files, tarjanVars, level, packing, waves>> /\ phase = "pack"
      /\ phase' = IF IsPartition(scopes', files) THEN "schedule" ELSE "refused"
  BY DEF MergeBins
<1>i. Scanned(files) /\ PackingInv /\ TarjanInv /\ LevelsInv /\ ScopesInv /\ WavesInv
  BY <1>u DEF PlanInv
<1>s. scopes' = Merged
  <2>1. scopes = CutScopes
    BY <1>u, <1>i DEF ScopesInv
  <2>2. scopes' = (scopes \ UNION Filled) \union {Packed(bin) : bin \in Filled}
    BY DEF MergeBins, Filled
  <2> QED
    BY <2>1, <2>2 DEF Merged
<1>p. phase' = "schedule"
  <2>1. IsPartition(Merged, files)
    BY <1>i, MergedIsSound DEF Sound
  <2> QED
    BY <2>1, <1>s, <1>u
<1>1. TarjanInv' /\ LevelsInv'
  BY <1>u, <1>i, LevelsSame
<1>2. PackingInv' /\ Merged' = Merged
  BY <1>u, <1>i, PackingSame
<1>3. ScopesInv'
  BY <1>2, <1>p, <1>s DEF ScopesInv
<1>4. WavesInv'
  <2>1. waves' = <<>> /\ phase' # "done"
    BY <1>u, <1>i, <1>p DEF WavesInv
  <2> QED
    BY <2>1, NoWaves
<1> QED
  BY <1>1, <1>2, <1>3, <1>4, <1>p, <1>u, <1>i DEF PlanInv, Scanned

\* The scopes after every pass.
LEMMA ScopesAreSound ==
  ASSUME PlanInv, phase \notin {"layer", "cut"}
  PROVE  Sound(scopes)
<1>1. scopes = CutScopes \/ scopes = Merged
  BY DEF PlanInv, ScopesInv
<1> QED
  BY <1>1, CutIsSound, MergedIsSound DEF PlanInv

LEMMA EmitWaveKeeps == PlanInv /\ EmitWave => PlanInv'
<1> SUFFICES ASSUME PlanInv, EmitWave PROVE PlanInv'
  OBVIOUS
<1>u. /\ UNCHANGED <<phase, edges, files, tarjanVars, level, scopes, packing>>
      /\ phase = "schedule" /\ scopes \ Scheduled # {}
  BY DEF EmitWave
<1>i. Scanned(files) /\ PackingInv /\ TarjanInv /\ LevelsInv /\ ScopesInv /\ WavesInv
  BY <1>u DEF PlanInv
<1>1. TarjanInv' /\ LevelsInv'
  BY <1>u, <1>i, LevelsSame
<1>2. PackingInv' /\ Merged' = Merged /\ CutScopes' = CutScopes
  BY <1>u, <1>i, PackingSame
<1>3. ScopesInv'
  BY <1>2, <1>u, <1>i DEF ScopesInv, packing
<1> DEFINE left == scopes \ Scheduled
           heights == {Level(s) : s \in left}
           bucket(l) == {s \in left : Level(s) = l}
<1>s. IsFiniteSet(scopes) /\ \A s \in scopes : Level(s) \in Nat
  <2>1. Sound(scopes)
    BY <1>u, ScopesAreSound
  <2>2. ASSUME NEW s \in scopes PROVE Level(s) \in Nat
    BY <1>i DEF Level, LevelsInv
  <2> QED
    BY <2>1, <2>2 DEF Sound
<1>l. PICK l : /\ l = Min(heights) /\ l \in heights /\ \A s \in left : l <= Level(s)
  <2>1. heights \in SUBSET Nat /\ heights # {}
    BY <1>s, <1>u
  <2>2. Min(heights) \in heights /\ \A y \in heights : Min(heights) <= y
    BY <2>1, MinNat
  <2> QED
    BY <2>2
<1>n. l \in Nat /\ bucket(l) # {} /\ bucket(l) \subseteq scopes /\ IsFiniteSet(bucket(l))
  <2>1. bucket(l) \subseteq scopes
    OBVIOUS
  <2>2. IsFiniteSet(bucket(l))
    BY <2>1, <1>s, FS_Subset
  <2> QED
    BY <2>1, <2>2, <1>l, <1>s
<1>c. PICK chunk \in kSubset(Lesser(MaxConcurrent, Cardinality(bucket(l))), bucket(l)) :
         waves' = Append(waves, [level |-> l, scopes |-> chunk])
  BY <1>l DEF EmitWave
<1>k. /\ chunk \subseteq left /\ chunk \subseteq scopes /\ \A s \in chunk : Level(s) = l
      /\ Cardinality(chunk) \in 1..MaxConcurrent /\ chunk # {}
  <2>1. chunk \subseteq bucket(l) /\ Cardinality(chunk) = Lesser(MaxConcurrent, Cardinality(bucket(l)))
    BY <1>c DEF kSubset
  <2>2. Cardinality(bucket(l)) \in Nat /\ Cardinality(bucket(l)) # 0
    BY <1>n, FS_CardinalityType, FS_EmptySet
  <2>3. Cardinality(chunk) \in 1..MaxConcurrent
    BY <2>1, <2>2, MaxConcurrentIsPositive DEF Lesser
  <2>4. chunk # {}
    BY <2>3, FS_EmptySet
  <2> QED
    BY <2>1, <2>3, <2>4
<1> DEFINE Wave == [level : Nat, scopes : SUBSET scopes]
           w == [level |-> l, scopes |-> chunk]
<1>w. /\ waves \in Seq(Wave) /\ w \in Wave
  BY <1>i, <1>n, <1>k DEF WavesInv
<1>a. /\ waves' \in Seq(Wave) /\ Len(waves') = Len(waves) + 1 /\ Len(waves) \in Nat
      /\ waves'[Len(waves) + 1] = w
      /\ \A i \in 1..Len(waves) : waves'[i] = waves[i]
      /\ DOMAIN waves = 1..Len(waves) /\ DOMAIN waves' = 1..Len(waves')
  <2> HIDE DEF Wave, w
  <2>1. waves' = Append(waves, w)
    BY <1>c DEF w
  <2>2. waves' \in Seq(Wave)
    BY <2>1, <1>w, AppendIs
  <2> QED
    BY <2>1, <2>2, <1>w, AppendIs
<1>o. \A i \in 1..Len(waves) :
          /\ Cardinality(waves[i].scopes) \in 1..MaxConcurrent
          /\ \A s \in waves[i].scopes : Level(s) = waves[i].level
          /\ \A j \in 1..(i - 1) :
                /\ waves[j].scopes \intersect waves[i].scopes = {}
                /\ waves[j].level <= waves[i].level
          /\ \A s \in left : waves[i].level <= Level(s)
          /\ waves[i].scopes \subseteq Scheduled
  BY <1>i, <1>a DEF WavesInv, WavesPartition, Scheduled
<1>v. \A s : Level(s)' = Level(s)
  BY <1>u DEF Level
<1>x. Scheduled' = Scheduled \union chunk
  <2>1. \A i \in 1..Len(waves') : i \in 1..Len(waves) \/ i = Len(waves) + 1
    BY <1>a
  <2>2. Len(waves) + 1 \in 1..Len(waves') /\ 1..Len(waves) \subseteq 1..Len(waves')
    BY <1>a
  <2>3. w.scopes = chunk
    OBVIOUS
  <2>4. ASSUME NEW s \in Scheduled' PROVE s \in Scheduled \union chunk
    <3>1. PICK i \in 1..Len(waves') : s \in waves'[i].scopes
      BY <1>a DEF Scheduled
    <3>2. CASE i \in 1..Len(waves)
      BY <3>1, <3>2, <1>a DEF Scheduled
    <3>3. CASE i = Len(waves) + 1
      BY <3>1, <3>3, <2>3, <1>a
    <3> QED
      BY <2>1, <3>2, <3>3
  <2>5. ASSUME NEW s \in Scheduled PROVE s \in Scheduled'
    <3>1. PICK i \in 1..Len(waves) : s \in waves[i].scopes
      BY <1>a DEF Scheduled
    <3>2. s \in waves'[i].scopes /\ i \in DOMAIN waves'
      BY <3>1, <2>2, <1>a
    <3> QED
      BY <3>2 DEF Scheduled
  <2>6. ASSUME NEW s \in chunk PROVE s \in Scheduled'
    <3>1. s \in waves'[Len(waves) + 1].scopes /\ Len(waves) + 1 \in DOMAIN waves'
      BY <2>2, <2>3, <1>a
    <3> QED
      BY <3>1 DEF Scheduled
  <2> QED
    BY <2>4, <2>5, <2>6
<1>4. WavesInv'
  <2>1. ASSUME NEW i \in 1..Len(waves')
        PROVE  /\ Cardinality(waves'[i].scopes) \in 1..MaxConcurrent
               /\ \A s \in waves'[i].scopes : Level(s) = waves'[i].level
               /\ \A j \in 1..(i - 1) :
                     /\ waves'[j].scopes \intersect waves'[i].scopes = {}
                     /\ waves'[j].level <= waves'[i].level
               /\ \A s \in scopes \ Scheduled' : waves'[i].level <= Level(s)
    <3>1. CASE i \in 1..Len(waves)
      <4>1. \A j \in 1..(i - 1) : j \in 1..Len(waves)
        BY <3>1, <1>a
      <4> QED
        BY <3>1, <4>1, <1>o, <1>x, <1>a
    <3>2. CASE i = Len(waves) + 1
      <4>1. waves'[i].scopes = chunk /\ waves'[i].level = l
        BY <3>2, <1>a
      <4>2. ASSUME NEW j \in 1..(i - 1)
            PROVE  waves'[j].scopes \intersect chunk = {} /\ waves'[j].level <= l
        <5>1. j \in 1..Len(waves) /\ waves'[j] = waves[j]
          BY <3>2, <1>a
        <5>2. waves[j].scopes \subseteq Scheduled /\ \A s \in left : waves[j].level <= Level(s)
          BY <5>1, <1>o
        <5>3. PICK s \in chunk : TRUE
          BY <1>k
        <5> QED
          BY <5>1, <5>2, <5>3, <1>k
      <4>3. \A s \in scopes \ Scheduled' : l <= Level(s)
        BY <1>l, <1>x
      <4> QED
        BY <4>1, <4>2, <4>3, <1>k
    <3>3. i \in 1..Len(waves) \/ i = Len(waves) + 1
      BY <1>a
    <3> QED
      BY <3>1, <3>2, <3>3
  <2>2. phase' = "schedule" /\ scopes' = scopes
    BY <1>u
  <2>3. WavesPartition'
    BY <2>1, <2>2, <1>a, <1>v DEF WavesPartition
  <2>4. \A i \in 1..Len(waves') : \A s \in scopes' \ Scheduled' : waves'[i].level <= Level(s)'
    BY <2>1, <2>2, <1>v
  <2>5. waves' \in Seq([level : Nat, scopes : SUBSET scopes'])
    BY <2>2, <1>a
  <2> QED
    BY <2>2, <2>3, <2>4, <2>5 DEF WavesInv
<1> QED
  BY <1>1, <1>2, <1>3, <1>4, <1>u, <1>i DEF PlanInv, Scanned

LEMMA EndKeeps == PlanInv /\ EndSchedule => PlanInv'
<1> SUFFICES ASSUME PlanInv, EndSchedule PROVE PlanInv'
  OBVIOUS
<1>u. /\ UNCHANGED <<edges, files, tarjanVars, level, scopes, packing, waves>>
      /\ phase = "schedule" /\ phase' = "done" /\ scopes \subseteq Scheduled
  BY DEF EndSchedule
<1>i. Scanned(files) /\ PackingInv /\ TarjanInv /\ LevelsInv /\ ScopesInv /\ WavesInv
  BY <1>u DEF PlanInv
<1>1. TarjanInv' /\ LevelsInv'
  BY <1>u, <1>i, LevelsSame
<1>2. PackingInv' /\ Merged' = Merged /\ CutScopes' = CutScopes
  BY <1>u, <1>i, PackingSame
<1>3. ScopesInv'
  BY <1>2, <1>u, <1>i DEF ScopesInv, packing
<1>4. WavesInv'
  <2>1. Scheduled \subseteq scopes
    <3> SUFFICES ASSUME NEW i \in DOMAIN waves PROVE waves[i].scopes \subseteq scopes
      BY DEF Scheduled
    <3>1. waves \in Seq([level : Nat, scopes : SUBSET scopes])
      BY <1>i DEF WavesInv
    <3> DEFINE Wave == [level : Nat, scopes : SUBSET scopes]
    <3>2. waves[i] \in Wave
      <4> HIDE DEF Wave
      <4>1. waves \in Seq(Wave)
        BY <3>1 DEF Wave
      <4> QED
        BY <4>1
    <3> QED
      BY <3>2
  <2>2. Scheduled' = scopes' /\ Scheduled' = Scheduled
    BY <2>1, <1>u DEF Scheduled
  <2>3. \A s : Level(s)' = Level(s)
    BY <1>u DEF Level
  <2>4. WavesPartition'
    BY <2>2, <2>3, <1>u, <1>i DEF WavesInv, WavesPartition
  <2> QED
    BY <2>2, <2>3, <2>4, <1>u, <1>i DEF WavesInv
<1> QED
  BY <1>1, <1>2, <1>3, <1>4, <1>u, <1>i DEF PlanInv, Scanned

LEMMA PlanUntouched == PlanInv /\ UNCHANGED vars => PlanInv'
<1> SUFFICES ASSUME PlanInv, UNCHANGED vars PROVE PlanInv'
  OBVIOUS
<1>u. UNCHANGED <<phase, edges, files, tarjanVars, level, scopes, packing, waves>>
  BY DEF vars
<1>1. PackingInv' /\ Merged' = Merged /\ CutScopes' = CutScopes
  BY <1>u, PackingSame DEF PlanInv
<1>2. TarjanInv' /\ (phase' # "layer" => LevelsInv')
  <2>1. TarjanInv'
    BY <1>u, TarjanUntouched DEF PlanInv
  <2> QED
    BY <2>1, <1>u, LevelsSame DEF PlanInv
<1>3. ScopesInv'
  BY <1>1, <1>u DEF ScopesInv, PlanInv, packing
<1>4. WavesInv'
  <2>1. \A s : Level(s)' = Level(s)
    BY <1>u DEF Level
  <2>2. Scheduled' = Scheduled
    BY <1>u DEF Scheduled
  <2>3. WavesPartition'
    BY <2>1, <2>2, <1>u DEF WavesInv, WavesPartition, PlanInv
  <2> QED
    BY <2>1, <2>2, <2>3, <1>u DEF WavesInv, PlanInv
<1> QED
  BY <1>1, <1>2, <1>3, <1>4, <1>u DEF PlanInv, Scanned

LEMMA PlanStep == PlanInv /\ Next => PlanInv'
  BY SearchKeeps, LayerKeeps, CutKeeps, CoalesceKeeps, PlaceScopeKeeps, MergeBinsKeeps,
     EmitWaveKeeps, EndKeeps DEF Next

THEOREM PlanInvariant == ReadingSpec => []PlanInv
<1>1. ReadingInit => PlanInv
  BY PlanInit DEF ReadingInit
<1>2. PlanInv /\ [ReadingNext]_<<vars, readVars>> => PlanInv'
  BY PlanStep, PlanUntouched DEF ReadingNext
<1> QED
  BY <1>1, <1>2, PTL DEF ReadingSpec

\* A scope is read after those of the modules outside the cycles that its module imports.
LEMMA ImportersAreLater ==
  ASSUME PlanInv
  PROVE  DependenciesFirst
<1> SUFFICES ASSUME NEW i \in DOMAIN waves, NEW j \in DOMAIN waves,
                    NEW s \in waves[i].scopes, NEW t \in waves[j].scopes,
                    <<s.module, t.module>> \in edges, \A c \in cycles : t.module \notin c
             PROVE  j < i
  BY DEF DependenciesFirst
<1>w. WavesPartition /\ waves \in Seq([level : Nat, scopes : SUBSET scopes])
  BY DEF PlanInv, WavesInv
<1>1. phase # "layer"
  <2>1. waves # <<>>
    OBVIOUS
  <2> QED
    BY <2>1 DEF PlanInv, WavesInv
<1>2. LevelsInv
  BY <1>1 DEF PlanInv
<1>3. level[t.module] < level[s.module] /\ s.module \in Modules /\ t.module \in Modules
  <2>1. PICK e \in edges : e = <<s.module, t.module>>
    OBVIOUS
  <2>2. e[1] = s.module /\ e[2] = t.module
    BY <2>1
  <2>3. e[1] \in Modules /\ e[2] \in Modules
    <3>1. edges \subseteq Edges
      BY DEF PlanInv, TarjanInv, TarjanTypes
    <3> QED
      BY <3>1 DEF Edges
  <2> QED
    BY <2>2, <2>3, <1>2 DEF LevelsInv
<1>4. Level(s) = waves[i].level /\ Level(t) = waves[j].level /\ Level(t) < Level(s)
  BY <1>3, <1>w DEF WavesPartition, Level
<1>5. i \in 1..Len(waves) /\ j \in 1..Len(waves) /\ Len(waves) \in Nat
      /\ waves[i].level \in Nat /\ waves[j].level \in Nat
  <2> DEFINE Wave == [level : Nat, scopes : SUBSET scopes]
  <2>1. waves[i] \in Wave /\ waves[j] \in Wave /\ i \in 1..Len(waves) /\ j \in 1..Len(waves) /\ Len(waves) \in Nat
    <3> HIDE DEF Wave
    <3>1. waves \in Seq(Wave)
      BY <1>w DEF Wave
    <3> QED
      BY <3>1
  <2> QED
    BY <2>1
<1>6. ~(i < j)
  <2> SUFFICES ASSUME i < j PROVE FALSE
    OBVIOUS
  <2>1. i \in 1..(j - 1)
    BY <1>5
  <2>2. waves[i].level <= waves[j].level
    BY <2>1, <1>w DEF WavesPartition
  <2> QED
    BY <2>2, <1>4, <1>5
<1>7. i # j
  BY <1>4, <1>5
<1> QED
  BY <1>5, <1>6, <1>7

LEMMA ScheduleIsSound == PlanInv => ScheduleSound
<1> SUFFICES ASSUME PlanInv PROVE ScheduleSound
  OBVIOUS
<1>1. CyclesAreComponents /\ LowLinks
  BY TarjanResult DEF PlanInv
<1>2. WavesPartition /\ waves \in Seq([level : Nat, scopes : SUBSET scopes])
  BY DEF PlanInv, WavesInv
<1>3. DependenciesFirst
  BY ImportersAreLater
<1> QED
  BY <1>1, <1>2, <1>3 DEF ScheduleSound

LEMMA PartitionIsSound == PlanInv => PartitionSound
<1> SUFFICES ASSUME PlanInv PROVE PartitionSound
  OBVIOUS
<1>1. EveryFileOnce
  BY ScopesAreSound DEF EveryFileOnce, Sound
<1>2. OnlyDirectoriesExceed
  <2>1. CASE phase \in {"layer", "cut"}
    <3>1. scopes = {}
      BY <2>1 DEF PlanInv, ScopesInv
    <3> QED
      BY <3>1 DEF OnlyDirectoriesExceed
  <2>2. CASE phase \notin {"layer", "cut"}
    BY <2>2, ScopesAreSound DEF OnlyDirectoriesExceed, Sound
  <2> QED
    BY <2>1, <2>2
<1>3. NothingToCoalesce
  BY CutNotMergeable DEF NothingToCoalesce, PlanInv, ScopesInv
<1>4. PackedTight
  BY BinsAreTight DEF PackedTight, PlanInv
<1> QED
  BY <1>1, <1>2, <1>3, <1>4 DEF PartitionSound

THEOREM ScheduleIsRight == ReadingSpec => []ScheduleSound
  BY PlanInvariant, ScheduleIsSound, PTL

THEOREM PartitionIsRight == ReadingSpec => []PartitionSound
  BY PlanInvariant, PartitionIsSound, PTL

(***************************************************************************)
(* The nodes of the scopes tell the modules apart.                         *)
(***************************************************************************)

\* The first k segments of the node are those of the path of the file f, at or below the
\* home of its module; then the node ends or goes on with the made-up segment.
Stem(node, m, f, k) ==
    LET path == Home[m] \o f.dir IN
    /\ f \in files /\ f.module = m
    /\ k \in Len(Home[m])..Len(path) /\ k <= Len(node)
    /\ \A i \in 1..k : node[i] = path[i]
    /\ Len(node) = k \/ node[k + 1] = Loose

\* No inventory has a file of one module below another.
Apart == \A f \in files : \A m \in Owners \ {f.module} :
            IsPrefix(Home[f.module], Home[m]) => ~IsPrefix(Home[m], Home[f.module] \o f.dir)

LEMMA PathOfFile ==
  ASSUME Scanned(files), NEW f \in files
  PROVE  /\ f.module \in Owners /\ Home[f.module] \in Directory /\ f.dir \in Directory
         /\ Home[f.module] \o f.dir \in Directory
<1>1. f.module \in Owners /\ f.dir \in Directory
  BY DEF Scanned
<1>2. Home[f.module] \in Directory
  BY <1>1, ModulesAreApart DEF Directory
<1>3. Home[f.module] \o f.dir \in Directory
  BY <1>1, <1>2, ConcatIs DEF Directory
<1> QED
  BY <1>1, <1>2, <1>3

LEMMA StemTellsModule ==
  ASSUME Scanned(files), Apart, NEW node \in Seq(Nat), NEW m, NEW n, NEW f, NEW g, NEW k, NEW l,
         Stem(node, m, f, k), Stem(node, n, g, l)
  PROVE  m = n /\ k = l
<1>1. /\ f \in files /\ f.module = m /\ m \in Owners /\ Home[m] \in Directory /\ Home[m] \o f.dir \in Directory
      /\ g \in files /\ g.module = n /\ n \in Owners /\ Home[n] \in Directory /\ Home[n] \o g.dir \in Directory
  BY PathOfFile DEF Stem
<1> DEFINE p == Home[m] \o f.dir
           q == Home[n] \o g.dir
<1>2. /\ p \in Seq(Nat) /\ q \in Seq(Nat) /\ Home[m] \in Seq(Nat) /\ Home[n] \in Seq(Nat)
      /\ f.dir \in Seq(Nat) /\ g.dir \in Seq(Nat)
      /\ \A i \in 1..Len(p) : p[i] # Loose
      /\ \A i \in 1..Len(q) : q[i] # Loose
  <2>1. \A x \in Directory : x \in Seq(Nat) /\ \A i \in 1..Len(x) : x[i] # Loose
    BY DEF Directory
  <2>2. f.dir \in Directory /\ g.dir \in Directory
    BY <1>1 DEF Scanned
  <2> QED
    BY <2>1, <2>2, <1>1
<1>3. /\ k \in Len(Home[m])..Len(p) /\ k <= Len(node) /\ \A i \in 1..k : node[i] = p[i]
      /\ l \in Len(Home[n])..Len(q) /\ l <= Len(node) /\ \A i \in 1..l : node[i] = q[i]
      /\ Len(node) = k \/ node[k + 1] = Loose
      /\ Len(node) = l \/ node[l + 1] = Loose
  BY DEF Stem
<1>4. /\ \A i \in 1..Len(Home[m]) : p[i] = Home[m][i]
      /\ \A i \in 1..Len(Home[n]) : q[i] = Home[n][i]
      /\ Len(Home[m]) \in Nat /\ Len(Home[n]) \in Nat /\ Len(p) \in Nat /\ Len(q) \in Nat /\ Len(node) \in Nat
  <2>0. \A a, b \in Seq(Nat) : Len(a) \in Nat /\ \A i \in 1..Len(a) : (a \o b)[i] = a[i]
    BY ConcatIs
  <2>1. \A i \in 1..Len(Home[m]) : p[i] = Home[m][i]
    BY <2>0, <1>2, Zenon
  <2>2. \A i \in 1..Len(Home[n]) : q[i] = Home[n][i]
    BY <2>0, <1>2, Zenon
  <2>3. Len(p) \in Nat /\ Len(q) \in Nat /\ Len(node) \in Nat /\ Len(Home[m]) \in Nat /\ Len(Home[n]) \in Nat
    BY <2>0, <1>2, Zenon
  <2> QED
    BY <2>1, <2>2, <2>3, Zenon
<1> HIDE DEF p, q
<1>5. k = l
  <2>1. ~(k < l)
    <3> SUFFICES ASSUME k < l PROVE FALSE
      OBVIOUS
    <3>1. k + 1 \in 1..l /\ k + 1 \in 1..Len(q) /\ Len(node) # k
      BY <1>3, <1>4
    <3> QED
      BY <3>1, <1>2, <1>3
  <2>2. ~(l < k)
    <3> SUFFICES ASSUME l < k PROVE FALSE
      OBVIOUS
    <3>1. l + 1 \in 1..k /\ l + 1 \in 1..Len(p) /\ Len(node) # l
      BY <1>3, <1>4
    <3> QED
      BY <3>1, <1>2, <1>3
  <2> QED
    BY <2>1, <2>2, <1>3, <1>4
<1>6. ASSUME Len(Home[m]) <= Len(Home[n]), m # n PROVE FALSE
  <2>1. IsPrefix(Home[m], Home[n])
    <3>1. \A i \in 1..Len(Home[m]) : Home[m][i] = Home[n][i]
      <4> TAKE i \in 1..Len(Home[m])
      <4>1. i \in 1..Len(Home[n]) /\ i \in 1..k /\ i \in 1..l
        BY <1>3, <1>4, <1>5, <1>6
      <4> QED
        BY <4>1, <1>3, <1>4
    <3> QED
      BY <3>1, <1>2, <1>6, PrefixMeans
  <2>2. IsPrefix(Home[n], p)
    <3>1. \A i \in 1..Len(Home[n]) : Home[n][i] = p[i]
      <4> TAKE i \in 1..Len(Home[n])
      <4>1. i \in 1..k /\ i \in 1..l
        BY <1>3, <1>4, <1>5
      <4> QED
        BY <4>1, <1>3, <1>4
    <3>2. Len(Home[n]) <= Len(p)
      BY <1>3, <1>4, <1>5
    <3> QED
      BY <3>1, <3>2, <1>2, PrefixMeans
  <2> QED
    BY <2>1, <2>2, <1>1, <1>6 DEF Apart, p
<1>7. ASSUME Len(Home[n]) <= Len(Home[m]), m # n PROVE FALSE
  <2>1. IsPrefix(Home[n], Home[m])
    <3>1. \A i \in 1..Len(Home[n]) : Home[n][i] = Home[m][i]
      <4> TAKE i \in 1..Len(Home[n])
      <4>1. i \in 1..Len(Home[m]) /\ i \in 1..k /\ i \in 1..l
        BY <1>3, <1>4, <1>5, <1>7
      <4> QED
        BY <4>1, <1>3, <1>4
    <3> QED
      BY <3>1, <1>2, <1>7, PrefixMeans
  <2>2. IsPrefix(Home[m], q)
    <3>1. \A i \in 1..Len(Home[m]) : Home[m][i] = q[i]
      <4> TAKE i \in 1..Len(Home[m])
      <4>1. i \in 1..k /\ i \in 1..l
        BY <1>3, <1>4, <1>5
      <4> QED
        BY <4>1, <1>3, <1>4
    <3>2. Len(Home[m]) <= Len(q)
      BY <1>3, <1>4, <1>5
    <3> QED
      BY <3>1, <3>2, <1>2, PrefixMeans
  <2> QED
    BY <2>1, <2>2, <1>1, <1>7 DEF Apart, q
<1> QED
  BY <1>4, <1>5, <1>6, <1>7

\* The stem of a scope of _cut is its directory.
LEMMA StemOfCut ==
  ASSUME Scanned(files), NEW s \in CutScopes
  PROVE  /\ s.node \in Seq(Nat) /\ s.module \in Owners
         /\ \E f, k : Stem(s.node, s.module, f, k) /\ Len(s.node) \in {k, k + 1}
<1> DEFINE m == s.module
           F == OwnFiles(m)
           h == Home[m]
<1>1. m \in Owners /\ s \in Cut(m, F) /\ s.node \in Seq(Nat)
  BY CutScopesAre
<1>2. Scanned(F) /\ F \subseteq files
  BY ScannedParts DEF OwnFiles
<1>3. PICK d \in Reached(F) : \/ ~Splits(F, d) /\ s = Whole(m, F, d)
                              \/ Splits(F, d) /\ Here(F, d) # {} /\ s = Rest(m, F, d)
  <2> HIDE DEF F, m
  <2> QED
    BY <1>1, CutIs
<1>4. d \in Directory /\ \E f \in F : IsPrefix(d, f.dir)
  <2> HIDE DEF F, m
  <2> QED
    BY <1>2, ReachedIs
<1>5. PICK f \in F : IsPrefix(d, f.dir)
  BY <1>4
<1>6. f \in files /\ f.module = m /\ f.dir \in Directory
  BY <1>2, <1>5 DEF OwnFiles, Scanned
<1>7. h \in Seq(Nat) /\ d \in Seq(Nat) /\ f.dir \in Seq(Nat)
  BY <1>1, <1>4, <1>6, HomesArePaths, DirectoryIsPath
<1>8. PICK w \in Seq(Nat) : w = h \o d
  BY <1>7, ConcatIs
<1>9. PICK path \in Seq(Nat) : path = h \o f.dir
  BY <1>7, ConcatIs
<1>k. /\ Len(h) \in Nat /\ Len(w) \in Nat /\ Len(path) \in Nat /\ Len(h) <= Len(w)
      /\ Len(w) <= Len(path) /\ \A i \in 1..Len(w) : w[i] = path[i]
  <2>1. IsPrefix(w, path)
    BY <1>5, <1>7, <1>8, <1>9, BelowHome
  <2>2. Len(h) \in Nat /\ Len(d) \in Nat /\ Len(h \o d) = Len(h) + Len(d)
    BY <1>7, ConcatIs
  <2>3. Len(w) <= Len(path) /\ \A i \in 1..Len(w) : w[i] = path[i]
    <3> HIDE DEF h
    <3> QED
      BY <2>1, PrefixMeans
  <2> QED
    BY <2>2, <2>3, <1>8
<1> DEFINE k == Len(w)
<1>10. CASE s = Whole(m, F, d)
  <2>1. s.node = w
    BY <1>8, <1>10 DEF Whole
  <2>2. Stem(s.node, m, f, k)
    <3> SUFFICES /\ k \in Len(h)..Len(path) /\ k <= Len(w)
                 /\ \A i \in 1..k : w[i] = path[i]
                 /\ Len(w) = k
      BY <2>1, <1>6, <1>9 DEF Stem
    <3> QED
      BY <1>k
  <2> QED
    BY <2>1, <2>2, <1>1
<1>11. CASE s = Rest(m, F, d)
  <2>1. s.node = w \o <<Loose>>
    <3>1. Rest(m, F, d).node = h \o d \o <<Loose>>
      BY DEF Rest
    <3> HIDE DEF m, F, h
    <3> QED
      BY <1>8, <1>11, <3>1
  <2>3. /\ Len(w \o <<Loose>>) = Len(w) + 1 /\ (w \o <<Loose>>)[Len(w) + 1] = Loose
        /\ \A i \in 1..Len(w) : (w \o <<Loose>>)[i] = w[i]
    OBVIOUS
  <2>4. /\ Len(s.node) = k + 1 /\ s.node[k + 1] = Loose
        /\ \A i \in 1..k : s.node[i] = path[i]
    BY <2>1, <2>3, <1>k
  <2>5. Stem(s.node, m, f, k)
    <3> SUFFICES /\ k \in Len(h)..Len(path) /\ k <= Len(s.node)
                 /\ \A i \in 1..k : s.node[i] = path[i]
                 /\ s.node[k + 1] = Loose
      BY <1>6, <1>9 DEF Stem
    <3> QED
      BY <2>4, <1>k
  <2> QED
    BY <2>4, <2>5, <1>1
<1> QED
  BY <1>3, <1>10, <1>11

\* A scope at the root of the repository is the whole of its module.
LEMMA RootIsAlone ==
  ASSUME Scanned(files), NEW s \in CutScopes, NEW t \in CutScopes, s.module = t.module, s.node = <<>>
  PROVE  s = t
<1> DEFINE m == s.module
           F == OwnFiles(m)
<1>1. m \in Owners /\ s \in Cut(m, F) /\ t \in Cut(m, F) /\ Scanned(F)
  <2>1. Scanned(F)
    BY ScannedParts DEF OwnFiles
  <2> QED
    BY <2>1, CutScopesAre
<1> HIDE DEF F, m
<1>2. PICK d \in Reached(F) : \/ ~Splits(F, d) /\ s = Whole(m, F, d)
                              \/ Splits(F, d) /\ Here(F, d) # {} /\ s = Rest(m, F, d)
  BY <1>1, CutIs
<1>3. PICK e \in Reached(F) : \/ ~Splits(F, e) /\ t = Whole(m, F, e)
                              \/ Splits(F, e) /\ Here(F, e) # {} /\ t = Rest(m, F, e)
  BY <1>1, CutIs
<1>4. d \in Directory /\ e \in Directory /\ d \in Seq(Nat) /\ e \in Seq(Nat) /\ Home[m] \in Seq(Nat)
  BY <1>1, ReachedIs, DirectoryIsPath, HomesArePaths
<1>5. PICK h \in Seq(Nat) : h = Home[m]
  BY <1>4
<1>6. s # Rest(m, F, d)
  <2>1. Rest(m, F, d).node = h \o (d \o <<Loose>>) /\ d \o <<Loose>> \in Seq(Nat)
    <3>1. Rest(m, F, d).node = Home[m] \o (d \o <<Loose>>)
      BY <1>1, <1>4, CutNode
    <3>2. d \o <<Loose>> \in Seq(Nat)
      BY <1>4, MadeUp
    <3> QED
      BY <3>1, <3>2, <1>5
  <2>2. Len(d \o <<Loose>>) = Len(d) + 1
    BY <1>4
  <2>3. PICK a \in Seq(Nat) : a = d \o <<Loose>>
    BY <2>1
  <2>4. Len(a) > 0
    BY <2>2, <2>3, <1>4
  <2>5. PICK b \in Seq(Nat) : b = h \o a /\ Len(b) = Len(h) + Len(a)
    BY ConcatIs
  <2>6. b # <<>>
    <3>1. Len(h) \in Nat /\ Len(a) \in Nat
      OBVIOUS
    <3>2. Len(b) > 0
      BY <2>4, <2>5, <3>1
    <3> QED
      BY <3>2
  <2> QED
    BY <2>1, <2>3, <2>5, <2>6
<1>7. ~Splits(F, d) /\ s = Whole(m, F, d)
  BY <1>2, <1>6
<1>8. d = <<>>
  <2>1. h \o d = <<>>
    BY <1>5, <1>7 DEF Whole
  <2>2. Len(h \o d) = Len(h) + Len(d) /\ Len(h) \in Nat /\ Len(d) \in Nat
    BY <1>4, ConcatIs
  <2>3. Len(d) = 0
    BY <2>1, <2>2
  <2> QED
    BY <2>3, <1>4
<1>9. e = d
  <2>1. IsPrefix(d, e)
    BY <1>4, <1>8, PrefixOrder
  <2> QED
    BY <2>1, <1>1, <1>4, <1>7, ReachedIs
<1> QED
  BY <1>3, <1>7, <1>9

\* The longest path that all of some nodes begin with.
LEMMA CommonPrefixIs ==
  ASSUME NEW N \in SUBSET Seq(Nat), N # {}
  PROVE  /\ LongestCommonPrefix(N) \in Seq(Nat)
         /\ \A t \in N : IsPrefix(LongestCommonPrefix(N), t)
         /\ \A o \in Seq(Nat) : (\A t \in N : IsPrefix(o, t)) => Len(o) <= Len(LongestCommonPrefix(N))
<1> DEFINE Common == CommonPrefixes(N)
<1>1. \A o : o \in Common <=> o \in Seq(Nat) /\ \A t \in N : IsPrefix(o, t)
  <2>1. \A t \in N : \A d : d \in Prefixes(t) <=> d \in Seq(Nat) /\ IsPrefix(d, t)
    BY PrefixesAre
  <2> QED
    BY <2>1 DEF CommonPrefixes
<1>2. PICK t \in N : t \in Seq(Nat)
  OBVIOUS
<1> HIDE DEF Common
<1>3. \A o \in Common : Len(o) \in 0..Len(t)
  <2> TAKE o \in Common
  <2>1. o \in Seq(Nat) /\ IsPrefix(o, t)
    BY <1>1, <1>2
  <2> QED
    BY <2>1, <1>2, PrefixMeans
<1>4. <<>> \in Common
  <2>1. <<>> \in Seq(Nat)
    OBVIOUS
  <2>2. \A u \in N : IsPrefix(<<>>, u)
    <3> TAKE u \in N
    <3>1. u \in Seq(Nat)
      OBVIOUS
    <3> QED
      BY <3>1, PrefixOrder
  <2> QED
    BY <1>1, <2>1, <2>2, Zenon
<1> DEFINE short == {Len(t) - Len(o) : o \in Common}
<1>5. short \in SUBSET Nat /\ short # {}
  <2>1. \A o \in Common : Len(t) - Len(o) \in Nat
    BY <1>2, <1>3
  <2> QED
    BY <2>1, <1>4
<1>6. Min(short) \in short /\ \A n \in short : Min(short) <= n
  <2> HIDE DEF short
  <2> QED
    BY <1>5, MinNat
<1>7. PICK longest \in Common : Min(short) = Len(t) - Len(longest)
  BY <1>6
<1>8. \A o \in Common : Len(o) <= Len(longest)
  <2> TAKE o \in Common
  <2>1. Len(t) - Len(longest) <= Len(t) - Len(o)
    BY <1>6, <1>7
  <2> QED
    BY <2>1, <1>2, <1>3
<1>9. /\ LongestCommonPrefix(N) \in Common
      /\ \A o \in Common : Len(o) <= Len(LongestCommonPrefix(N))
  <2>1. LongestCommonPrefix(N) = CHOOSE l \in Common : \A o \in Common : Len(o) <= Len(l)
    BY DEF LongestCommonPrefix, Common
  <2> QED
    BY <2>1, <1>8
<1> QED
  BY <1>1, <1>9

\* The stem of what takes the place of a bin is the directory that its scopes share.
LEMMA StemOfPacked ==
  ASSUME Scanned(files), PackingInv, NEW b \in Filled
  PROVE  /\ Packed(b).node \in Seq(Nat) /\ Packed(b).module \in Owners
         /\ \E f, k : Stem(Packed(b).node, Packed(b).module, f, k)
<1>1. /\ b \subseteq CutScopes /\ IsFiniteSet(b) /\ b # {}
      /\ \E m \in Owners : \A s \in b : s.module = m
  BY FilledAre
<1>2. PICK m \in Owners : \A s \in b : s.module = m
  BY <1>1
<1>3. \A s \in b : s.node \in Seq(Nat)
  BY <1>1, CutScopesAre
<1>4. \A s, t \in b : s.node = t.node => s = t
  BY <1>1, <1>2, CutScopesAre
<1>5. Packed(b).module = m
  BY <1>1, <1>2, <1>3, <1>4, PackedIs
<1>6. CASE Cardinality(b) = 1
  <2>1. PICK s : b = {s}
    BY <1>1, <1>6, FS_Singleton
  <2>2. Packed(b) = s
    BY <1>6, <2>1 DEF Packed
  <2> QED
    BY <2>1, <2>2, <1>1, StemOfCut
<1>7. CASE Cardinality(b) # 1
  <2> DEFINE first == CHOOSE s \in b : \A t \in b \ {s} : NodeBefore(s.node, t.node)
             N == {s.node : s \in b}
             L == LongestCommonPrefix(N)
             tail == <<Loose, Last(first.node), Cardinality(b) - 1>>
  <2>1. PICK s \in b : s = first
    <3>1. \E s \in b : \A t \in b \ {s} : NodeBefore(s.node, t.node)
      BY <1>1, <1>3, <1>4, FirstOf
    <3>2. first \in b
      BY <3>1, Zenon
    <3> QED
      BY <3>2
  <2>2. PICK t \in b : t # s
    <3> SUFFICES ASSUME \A t \in b : t = s PROVE FALSE
      OBVIOUS
    <3>1. b = {s}
      BY <2>1
    <3> QED
      BY <3>1, <1>7, FS_Singleton
  <2>3. s.node \in Seq(Nat) /\ t.node \in Seq(Nat) /\ s.node # t.node /\ s.module = m /\ t.module = m
    BY <1>2, <1>3, <1>4, <2>2
  <2>4. /\ L \in Seq(Nat) /\ \A u \in b : IsPrefix(L, u.node)
        /\ \A o \in Seq(Nat) : (\A u \in b : IsPrefix(o, u.node)) => Len(o) <= Len(L)
    <3>1. N \in SUBSET Seq(Nat) /\ N # {}
      BY <1>1, <1>3
    <3>2. /\ L \in Seq(Nat) /\ \A x \in N : IsPrefix(L, x)
          /\ \A o \in Seq(Nat) : (\A x \in N : IsPrefix(o, x)) => Len(o) <= Len(L)
      <4> HIDE DEF N
      <4> QED
        BY <3>1, CommonPrefixIs
    <3> HIDE DEF L
    <3> QED
      BY <3>2
  <2>n. Packed(b).node = L \o tail
    BY <1>7 DEF Packed, MergeScopes
  <2>p. PICK l \in Seq(Nat) : l = L
    BY <2>4
  <2> HIDE DEF L
  <2>5. PICK f, k : Stem(s.node, m, f, k) /\ Len(s.node) \in {k, k + 1}
    BY <1>1, <2>3, StemOfCut
  <2>6. PICK g, j : Stem(t.node, m, g, j) /\ Len(t.node) \in {j, j + 1}
    BY <1>1, <2>3, StemOfCut
  <2>h. PICK h \in Seq(Nat) : h = Home[m] /\ \A x \in Directory : IsPrefix(h, h \o x) /\ h \o x \in Seq(Nat)
    <3>1. Home[m] \in Seq(Nat)
      BY HomesArePaths
    <3>2. \A x \in Directory : IsPrefix(Home[m], Home[m] \o x) /\ Home[m] \o x \in Seq(Nat)
      <4> TAKE x \in Directory
      <4>1. x \in Seq(Nat)
        BY DirectoryIsPath
      <4>2. PICK a \in Seq(Nat) : a = Home[m]
        BY <3>1
      <4>3. a \o x \in Seq(Nat) /\ Len(a) <= Len(a \o x) /\ \A i \in 1..Len(a) : a[i] = (a \o x)[i]
        BY <4>1
      <4>4. IsPrefix(a, a \o x)
        BY <4>3, PrefixMeans
      <4> QED
        BY <4>2, <4>3, <4>4
    <3> QED
      BY <3>1, <3>2
  <2>7. PICK p \in Seq(Nat) : /\ p = Home[m] \o f.dir
                              /\ \A i \in 1..Len(p) : p[i] # Loose
    <3>1. f \in files /\ f.module = m
      BY <2>5 DEF Stem
    <3>2. Home[m] \o f.dir \in Directory
      BY <3>1, PathOfFile
    <3>3. \A x \in Directory : x \in Seq(Nat) /\ \A i \in 1..Len(x) : x[i] # Loose
      BY DEF Directory
    <3> QED
      BY <3>2, <3>3
  <2>8. PICK q \in Seq(Nat) : /\ q = Home[m] \o g.dir
                              /\ \A i \in 1..Len(q) : q[i] # Loose
    <3>1. g \in files /\ g.module = m
      BY <2>6 DEF Stem
    <3>2. Home[m] \o g.dir \in Directory
      BY <3>1, PathOfFile
    <3>3. \A x \in Directory : x \in Seq(Nat) /\ \A i \in 1..Len(x) : x[i] # Loose
      BY DEF Directory
    <3> QED
      BY <3>2, <3>3
  <2>s. /\ k \in Len(h)..Len(p) /\ k <= Len(s.node) /\ \A i \in 1..k : s.node[i] = p[i]
        /\ Len(s.node) = k \/ s.node[k + 1] = Loose
        /\ j \in Len(h)..Len(q) /\ j <= Len(t.node) /\ \A i \in 1..j : t.node[i] = q[i]
        /\ Len(t.node) = j \/ t.node[j + 1] = Loose
    BY <2>5, <2>6, <2>7, <2>8, <2>h DEF Stem
  <2>t. /\ Len(l) \in Nat /\ Len(h) \in Nat /\ Len(p) \in Nat /\ Len(q) \in Nat /\ k \in Nat /\ j \in Nat
        /\ Len(s.node) \in Nat /\ Len(t.node) \in Nat
    <3>1. \A x \in Seq(Nat) : Len(x) \in Nat
      OBVIOUS
    <3>2. /\ Len(l) \in Nat /\ Len(h) \in Nat /\ Len(p) \in Nat /\ Len(q) \in Nat
          /\ Len(s.node) \in Nat /\ Len(t.node) \in Nat
      BY <3>1, <2>3, Zenon
    <3>3. k \in Len(h)..Len(p) /\ j \in Len(h)..Len(q)
      BY <2>s, Zenon
    <3> QED
      BY <3>2, <3>3
  <2>9. /\ Len(l) <= Len(s.node) /\ \A i \in 1..Len(l) : l[i] = s.node[i]
        /\ Len(l) <= Len(t.node) /\ \A i \in 1..Len(l) : l[i] = t.node[i]
    <3>1. IsPrefix(l, s.node) /\ IsPrefix(l, t.node)
      BY <2>2, <2>4, <2>p, Zenon
    <3>2. PICK x \in Seq(Nat), y \in Seq(Nat) : x = s.node /\ y = t.node
      BY <2>3
    <3>3. IsPrefix(l, x) /\ IsPrefix(l, y)
      BY <3>1, <3>2
    <3>4. /\ Len(l) <= Len(x) /\ \A i \in 1..Len(l) : l[i] = x[i]
          /\ Len(l) <= Len(y) /\ \A i \in 1..Len(l) : l[i] = y[i]
      BY <3>3, PrefixMeans
    <3> QED
      BY <3>2, <3>4
  <2>10. Len(l) <= k
    <3> SUFFICES ASSUME k < Len(l) PROVE FALSE
      BY <2>t
    <3>1. k + 1 \in 1..Len(l) /\ Len(s.node) = k + 1 /\ s.node[k + 1] = Loose /\ Len(l) = k + 1
      BY <2>9, <2>s, <2>5, <2>t
    <3>2. t.node[k + 1] = Loose
      BY <3>1, <2>9
    <3>3. j = k
      <4>1. ~(k < j)
        <5> SUFFICES ASSUME k < j PROVE FALSE
          OBVIOUS
        <5>1. k + 1 \in 1..j /\ k + 1 \in 1..Len(q)
          BY <2>s, <2>t
        <5> QED
          BY <5>1, <3>2, <2>8, <2>s
      <4>2. ~(j < k)
        <5> SUFFICES ASSUME j < k PROVE FALSE
          OBVIOUS
        <5>1. j + 1 \in 1..k /\ j + 1 \in 1..Len(l) /\ j + 1 \in 1..Len(p) /\ Len(t.node) # j
          BY <2>s, <2>t, <2>9, <3>1
        <5>2. s.node[j + 1] = Loose
          BY <5>1, <2>s, <2>9
        <5> QED
          BY <5>1, <5>2, <2>s, <2>7
      <4> QED
        BY <4>1, <4>2, <2>t
    <3>4. Len(t.node) = k + 1
      BY <3>1, <3>3, <2>6, <2>9, <2>t
    <3>5. s.node = t.node
      <4>1. \A i \in 1..Len(s.node) : s.node[i] = t.node[i]
        BY <3>1, <2>9
      <4> QED
        BY <4>1, <3>1, <3>4, <2>3, SamePath
    <3> QED
      BY <3>5, <2>3
  <2>11. Len(h) <= Len(l)
    <3>1. ASSUME NEW u \in b PROVE IsPrefix(h, u.node)
      <4>1. u.node \in Seq(Nat) /\ u.module = m
        BY <1>2, <1>3
      <4>2. PICK e, i : Stem(u.node, m, e, i)
        BY <4>1, <1>1, StemOfCut
      <4>3. e \in files /\ e.module = m /\ e.dir \in Directory
        BY <4>2 DEF Stem, Scanned
      <4>4. PICK r \in Seq(Nat) : r = h \o e.dir /\ IsPrefix(h, r)
        BY <4>3, <2>h
      <4>5. i \in Len(h)..Len(r) /\ i <= Len(u.node) /\ \A x \in 1..i : u.node[x] = r[x]
        BY <4>2, <4>4, <2>h DEF Stem
      <4>6. \A x \in 1..Len(h) : h[x] = r[x]
        BY <4>4, PrefixMeans
      <4>7. Len(h) <= Len(u.node) /\ \A x \in 1..Len(h) : h[x] = u.node[x]
        BY <4>1, <4>5, <4>6
      <4> QED
        BY <4>1, <4>7, PrefixMeans
    <3> QED
      BY <3>1, <2>4, <2>p
  <2>12. PICK w \in Seq(Nat) : w = tail /\ w[1] = Loose /\ Len(w) = 3
    <3>1. s.node # <<>>
      BY <1>1, <2>2, <2>3, RootIsAlone
    <3>2. Last(s.node) \in Nat
      BY <3>1, <2>3, FrontIs
    <3>3. Cardinality(b) - 1 \in Nat
      <4>1. Cardinality(b) \in Nat /\ Cardinality(b) # 0
        BY <1>1, FS_CardinalityType, FS_EmptySet
      <4> QED
        BY <4>1
    <3>4. tail \in Seq(Nat)
      BY <3>2, <3>3, <2>1 DEF Loose
    <3> QED
      BY <3>4
  <2>13. Packed(b).node = l \o w /\ l \o w \in Seq(Nat)
    BY <2>n, <2>p, <2>12
  <2>14. PICK node \in Seq(Nat) : /\ node = Packed(b).node /\ Len(node) = Len(l) + 3
                                  /\ node[Len(l) + 1] = Loose
                                  /\ \A i \in 1..Len(l) : node[i] = l[i]
    <3>1. Len(l \o w) = Len(l) + 3 /\ (l \o w)[Len(l) + 1] = Loose /\ \A i \in 1..Len(l) : (l \o w)[i] = l[i]
      BY <2>12
    <3> QED
      BY <3>1, <2>13
  <2>15. \A i \in 1..Len(l) : node[i] = p[i]
    <3> TAKE i \in 1..Len(l)
    <3>1. i \in 1..k
      BY <2>10, <2>t
    <3> QED
      BY <3>1, <2>9, <2>14, <2>s
  <2>16. Stem(node, m, f, Len(l))
    <3>1. f \in files /\ f.module = m
      BY <2>5 DEF Stem
    <3>2. Len(l) \in Len(h)..Len(p) /\ Len(l) <= Len(node)
      BY <2>10, <2>11, <2>14, <2>s, <2>t
    <3> QED
      BY <3>1, <3>2, <2>7, <2>h, <2>14, <2>15 DEF Stem
  <2> QED
    BY <2>14, <2>16, <1>5
<1> QED
  BY <1>6, <1>7

\* Two scopes of a plan with one node are of one module.
LEMMA NodesTellModules ==
  ASSUME Scanned(files), Apart, PackingInv, NEW s \in Merged, NEW t \in Merged, s.node = t.node
  PROVE  s.module = t.module
<1>1. \A u \in Merged : u.node \in Seq(Nat) /\ \E f, k : Stem(u.node, u.module, f, k)
  BY StemOfCut, StemOfPacked DEF Merged
<1> QED
  BY <1>1, StemTellsModule

(***************************************************************************)
(* What a prompt passes on.                                                *)
(***************************************************************************)

\* Claims that a prompt can sort.
Sortable(R) == IsFiniteSet(R) /\ \A c \in R : c.subject \in Seq(Nat) /\ c.evidence \in Nat

LEMMA TellOrder ==
  ASSUME NEW R, Sortable(R), NEW c \in R, NEW d \in R, NEW e \in R
  PROVE  /\ ~TellFirst(c, c)
         /\ TellFirst(c, d) /\ TellFirst(d, e) => TellFirst(c, e)
<1>1. PICK a \in Seq(Nat), b \in Seq(Nat), x \in Seq(Nat) :
          a = c.subject /\ b = d.subject /\ x = e.subject
  BY DEF Sortable
<1>2. c.evidence \in Nat /\ d.evidence \in Nat /\ e.evidence \in Nat
  BY DEF Sortable
<1>3. ~NodeBefore(a, a) /\ (NodeBefore(a, b) /\ NodeBefore(b, x) => NodeBefore(a, x))
  BY NodeOrder
<1> QED
  BY <1>1, <1>2, <1>3 DEF TellFirst

\* Some claim is told before none of the others.
LEMMA SomeFirst ==
  ASSUME NEW R, Sortable(R), R # {}
  PROVE  \E c \in R : \A d \in R : ~TellFirst(d, c)
<1> DEFINE before == [c \in R |-> {d \in R : TellFirst(d, c)}]
           Sets == {before[c] : c \in R}
<1>1. Sets \in SUBSET SUBSET R /\ Sets # {}
  <2>1. \A c \in R : before[c] \subseteq R
    OBVIOUS
  <2>2. PICK c \in R : TRUE
    OBVIOUS
  <2>3. before[c] \in Sets
    OBVIOUS
  <2> HIDE DEF before
  <2> QED
    BY <2>1, <2>3
<1>2. PICK S \in Sets : \A T \in Sets : T \subseteq S => T = S
  <2> HIDE DEF Sets
  <2> QED
    BY <1>1, Smallest DEF Sortable
<1>3. PICK c \in R : S = before[c]
  OBVIOUS
<1>4. ASSUME NEW d \in R, TellFirst(d, c) PROVE FALSE
  <2>1. before[d] \subseteq before[c]
    BY <1>4, TellOrder
  <2>2. before[d] = before[c]
    BY <2>1, <1>2, <1>3
  <2>3. d \in before[c] /\ d \notin before[d]
    BY <1>4, TellOrder
  <2> QED
    BY <2>2, <2>3
<1> QED
  BY <1>4

\* What is told is the whole of the relevant claims up to the budget, and nothing before it
\* is left out.
LEMMA InheritIs ==
  ASSUME NEW R, Sortable(R), NEW budget \in Nat
  PROVE  /\ Inherit(R, budget) \subseteq R
         /\ \A c \in Inherit(R, budget), d \in R \ Inherit(R, budget) : c.evidence >= d.evidence
         /\ budget = 0 => Inherit(R, budget) = {}
<1> DEFINE Room == Min({budget, Cardinality(R)})
           Foremost(K) == K \subseteq R /\ \A c \in K, d \in R \ K : ~TellFirst(d, c)
           Short == {k \in Nat : \E K \in SUBSET R : Foremost(K) /\ Cardinality(K) + k = Room}
<1>1. IsFiniteSet(R) /\ Cardinality(R) \in Nat
  BY FS_CardinalityType DEF Sortable
<1>2. Room \in {budget, Cardinality(R)} /\ Room \in Nat /\ Room <= budget /\ Room <= Cardinality(R)
  <2>1. {budget, Cardinality(R)} \in SUBSET Nat /\ {budget, Cardinality(R)} # {}
    BY <1>1
  <2>2. Room \in {budget, Cardinality(R)} /\ \A y \in {budget, Cardinality(R)} : Room <= y
    BY <2>1, MinNat
  <2> QED
    BY <2>1, <2>2
<1> HIDE DEF Room
<1>3. Room \in Short
  <2>1. {} \in SUBSET R /\ Foremost({}) /\ Cardinality({}) = 0
    BY FS_EmptySet
  <2> QED
    BY <2>1, <1>2
<1>4. Min(Short) \in Short /\ \A k \in Short : Min(Short) <= k
  <2>1. Short \in SUBSET Nat /\ Short # {}
    BY <1>3
  <2> HIDE DEF Short
  <2> QED
    BY <2>1, MinNat
<1>5. PICK k \in Nat : k = Min(Short)
  BY <1>4
<1>6. PICK K \in SUBSET R : Foremost(K) /\ Cardinality(K) + k = Room
  BY <1>4, <1>5
<1>7. IsFiniteSet(K) /\ Cardinality(K) \in Nat
  BY <1>1, FS_Subset, FS_CardinalityType
<1>8. k = 0
  <2> SUFFICES ASSUME k # 0 PROVE FALSE
    OBVIOUS
  <2>1. R \ K # {}
    <3> SUFFICES ASSUME R \ K = {} PROVE FALSE
      OBVIOUS
    <3>1. K = R
      OBVIOUS
    <3> QED
      BY <3>1, <1>1, <1>2, <1>6
  <2>2. PICK x \in R \ K : \A d \in R \ K : ~TellFirst(d, x)
    <3>1. Sortable(R \ K)
      BY FS_Subset DEF Sortable
    <3> QED
      BY <2>1, <3>1, SomeFirst
  <2> DEFINE L == K \union {x}
  <2>3. L \in SUBSET R /\ Foremost(L)
    BY <1>6, <2>2
  <2>4. Cardinality(L) = Cardinality(K) + 1
    BY <1>7, <2>2, FS_AddElement
  <2>5. k - 1 \in Nat /\ Cardinality(L) + (k - 1) = Room
    BY <2>4, <1>6, <1>7
  <2>6. k - 1 \in Short
    <3> HIDE DEF L
    <3> QED
      BY <2>3, <2>5
  <2> QED
    BY <2>6, <1>4, <1>5
<1>9. Foremost(K) /\ K \in kSubset(Room, R)
  BY <1>6, <1>7, <1>8 DEF kSubset
<1> DEFINE kept == Inherit(R, budget)
<1>10. Foremost(kept) /\ kept \in kSubset(Room, R)
  <2>1. kept = CHOOSE x \in kSubset(Room, R) : \A c \in x, d \in R \ x : ~TellFirst(d, c)
    BY DEF Inherit, Room
  <2>2. \E x \in kSubset(Room, R) : \A c \in x, d \in R \ x : ~TellFirst(d, c)
    BY <1>9
  <2>3. kept \in kSubset(Room, R) /\ \A c \in kept, d \in R \ kept : ~TellFirst(d, c)
    <3> HIDE DEF kept
    <3> QED
      BY <2>1, <2>2, Zenon
  <2>4. kept \subseteq R
    BY <2>3 DEF kSubset
  <2> HIDE DEF kept
  <2> QED
    BY <2>3, <2>4
<1>11. kept \subseteq R /\ Cardinality(kept) = Room
  BY <1>10 DEF kSubset
<1>12. \A c \in kept, d \in R \ kept : c.evidence >= d.evidence
  <2> HIDE DEF kept
  <2> TAKE c \in kept, d \in R \ kept
  <2>1. ~TellFirst(d, c) /\ c.evidence \in Nat /\ d.evidence \in Nat
    BY <1>10, <1>11 DEF Sortable
  <2> QED
    BY <2>1 DEF TellFirst
<1>13. ASSUME budget = 0 PROVE kept = {}
  <2>1. Room = 0 /\ IsFiniteSet(kept)
    BY <1>1, <1>2, <1>11, <1>13, FS_Subset
  <2> HIDE DEF kept
  <2> QED
    BY <2>1, <1>11, FS_EmptySet
<1> QED
  BY <1>11, <1>12, <1>13

\* The levers after n turns, when g are those after each.
TurnOf(g, n, digest) == IF n = 0 THEN Widest ELSE Tighten(g[n - 1], digest)

Turning(g, digest) == g = [n \in 0..MaxTurns |-> TurnOf(g, n, digest)]

LeversOk(v) ==
    /\ v = [inherited |-> v.inherited, digest |-> v.digest, rows |-> v.rows]
    /\ v.inherited \in 0..MaxInherited /\ v.digest \in MinDigest..MaxDigest /\ v.rows \in MinRows..MaxRows

\* How far the levers may still be drawn.
Slack(v) == v.inherited + v.digest + v.rows

LEMMA HalvedIs ==
  ASSUME NEW n \in Nat, NEW floor \in Nat, floor <= n
  PROVE  /\ Halved(n, floor) \in floor..n
         /\ n > floor /\ n > 0 => Halved(n, floor) < n
         /\ n = floor => Halved(n, floor) = n
<1>1. n \div 2 \in Nat /\ n \div 2 <= n /\ (n > 0 => n \div 2 < n)
  OBVIOUS
<1> QED
  BY <1>1 DEF Halved

\* Each turn draws a lever, as long as not all of them are at their floors.
LEMMA TightenIs ==
  ASSUME NEW v, LeversOk(v), NEW digest \in BOOLEAN
  PROVE  /\ LeversOk(Tighten(v, digest)) /\ Slack(v) \in Nat \ {0} /\ Slack(Tighten(v, digest)) \in Nat
         /\ Tighten(v, digest) # v => Slack(Tighten(v, digest)) < Slack(v)
         /\ Tighten(v, digest) = v => v.inherited = 0
<1> DEFINE i == v.inherited
           d == v.digest
           r == v.rows
<1>1. /\ v = [inherited |-> i, digest |-> d, rows |-> r]
      /\ i \in 0..MaxInherited /\ d \in MinDigest..MaxDigest /\ r \in MinRows..MaxRows
      /\ i \in Nat /\ d \in Nat /\ r \in Nat \ {0} /\ MinDigest \in Nat \ {0} /\ MinRows \in Nat \ {0}
  BY FloorsAreBelow DEF LeversOk
<1> HIDE DEF i, d, r
<1>2. CASE i > 0
  <2>1. Tighten(v, digest) = [inherited |-> Halved(i, 0), digest |-> d, rows |-> r]
    BY <1>1, <1>2 DEF Tighten
  <2>2. Halved(i, 0) \in 0..i /\ Halved(i, 0) < i
    BY <1>1, <1>2, HalvedIs
  <2> QED
    BY <1>1, <2>1, <2>2, FloorsAreBelow DEF LeversOk, Slack, i, d, r
<1>3. CASE i = 0 /\ digest /\ d > MinDigest
  <2>1. Tighten(v, digest) = [inherited |-> i, digest |-> Halved(d, MinDigest), rows |-> r]
    BY <1>1, <1>3 DEF Tighten
  <2>2. Halved(d, MinDigest) \in MinDigest..d /\ Halved(d, MinDigest) < d
    BY <1>1, <1>3, HalvedIs
  <2>3. PICK e \in MinDigest..d : e = Halved(d, MinDigest) /\ e < d
    BY <2>2
  <2>4. PICK w : w = Tighten(v, digest)
    OBVIOUS
  <2>5. w = [inherited |-> i, digest |-> e, rows |-> r]
    BY <2>1, <2>3, <2>4
  <2>6. w.inherited = i /\ w.digest = e /\ w.rows = r /\ w # v /\ e \in MinDigest..MaxDigest /\ e \in Nat
    BY <2>5, <2>3, <1>1, FloorsAreBelow DEF d
  <2>7. LeversOk(w)
    BY <2>5, <2>6, <1>1 DEF LeversOk
  <2>8. Slack(v) = i + d + r /\ Slack(w) = i + e + r
    BY <2>6 DEF Slack, i, d, r
  <2> QED
    BY <1>1, <2>3, <2>4, <2>6, <2>7, <2>8
<1>4. CASE i = 0 /\ ~(digest /\ d > MinDigest)
  <2>1. Tighten(v, digest) = [inherited |-> i, digest |-> d, rows |-> Halved(r, MinRows)]
    BY <1>1, <1>4 DEF Tighten
  <2>2. /\ Halved(r, MinRows) \in MinRows..r
        /\ r > MinRows => Halved(r, MinRows) < r
        /\ r = MinRows => Halved(r, MinRows) = r
    BY <1>1, HalvedIs
  <2>3. Tighten(v, digest) # v => Halved(r, MinRows) < r
    BY <1>1, <2>1, <2>2
  <2> QED
    BY <1>1, <1>4, <2>1, <2>2, <2>3, FloorsAreBelow DEF LeversOk, Slack, i, d, r
<1> QED
  BY <1>1, <1>2, <1>3, <1>4

\* The turns of the levers are well defined.
LEMMA TurnsExist ==
  ASSUME NEW digest \in BOOLEAN
  PROVE  \E g : Turning(g, digest)
<1> DEFINE Good(k, g) == \A n \in 0..k : g[n] = TurnOf(g, n, digest)
           Bad == {k \in Nat : ~\E g : Good(k, g)}
<1>0. MaxTurns \in Nat
  BY FloorsAreBelow DEF MaxTurns
<1>1. Bad = {}
  <2> SUFFICES ASSUME Bad # {} PROVE FALSE
    OBVIOUS
  <2>1. PICK k \in Bad : \A j \in Bad : k <= j
    <3>1. Min(Bad) \in Bad /\ \A j \in Bad : Min(Bad) <= j
      BY MinNat
    <3> QED
      BY <3>1
  <2>2. k \in Nat /\ ~\E g : Good(k, g)
    BY <2>1
  <2>3. CASE k = 0
    <3> DEFINE g == [n \in {0} |-> Widest]
    <3>1. \A n \in 0..0 : g[n] = TurnOf(g, n, digest)
      BY DEF TurnOf
    <3>2. Good(0, g)
      BY <3>1
    <3> HIDE DEF g
    <3> QED
      BY <2>2, <2>3, <3>2
  <2>4. CASE k # 0
    <3>1. k - 1 \in Nat /\ k - 1 \notin Bad
      BY <2>1, <2>4
    <3>2. PICK h : Good(k - 1, h)
      BY <3>1
    <3> DEFINE g == [n \in 0..k |-> IF n < k THEN h[n] ELSE Tighten(h[k - 1], digest)]
    <3>3. ASSUME NEW n \in 0..k PROVE g[n] = TurnOf(g, n, digest)
      <4>1. CASE n < k
        <5>1. n \in 0..(k - 1) /\ g[n] = h[n] /\ h[n] = TurnOf(h, n, digest)
          BY <4>1, <3>1, <3>2
        <5>2. n # 0 => g[n - 1] = h[n - 1]
          BY <4>1, <3>1
        <5> QED
          BY <5>1, <5>2 DEF TurnOf
      <4>2. CASE n = k
        <5>1. g[k] = Tighten(h[k - 1], digest) /\ g[k - 1] = h[k - 1]
          BY <3>1
        <5> HIDE DEF g
        <5> QED
          BY <4>2, <5>1, <2>4 DEF TurnOf
      <4> QED
        BY <4>1, <4>2, <3>1
    <3>4. Good(k, g)
      BY <3>3
    <3> HIDE DEF g
    <3> QED
      BY <2>2, <3>4
  <2> QED
    BY <2>3, <2>4
<1>2. PICK h : Good(MaxTurns, h)
  BY <1>0, <1>1
<1> DEFINE g == [n \in 0..MaxTurns |-> h[n]]
<1>3. ASSUME NEW n \in 0..MaxTurns PROVE g[n] = TurnOf(g, n, digest)
  <2>1. g[n] = h[n] /\ h[n] = TurnOf(h, n, digest)
    BY <1>2
  <2>2. n # 0 => g[n - 1] = h[n - 1]
    BY <1>0
  <2> QED
    BY <2>1, <2>2 DEF TurnOf
<1>4. g = [n \in 0..MaxTurns |-> TurnOf(g, n, digest)]
  <2>1. g = [n \in 0..MaxTurns |-> g[n]]
    OBVIOUS
  <2> HIDE DEF g
  <2> QED
    BY <2>1, <1>3
<1> QED
  BY <1>4 DEF Turning

\* After each turn the levers are between their floors and where they started.
LEMMA TurnsOk ==
  ASSUME NEW digest \in BOOLEAN, NEW g, Turning(g, digest)
  PROVE  \A n \in 0..MaxTurns : LeversOk(g[n])
<1> DEFINE Bad == {n \in 0..MaxTurns : ~LeversOk(g[n])}
<1>0. LeversOk(Widest) /\ MaxTurns \in Nat
  BY FloorsAreBelow DEF LeversOk, Widest, MaxTurns
<1> SUFFICES ASSUME Bad # {} PROVE FALSE
  OBVIOUS
<1>1. PICK k \in Bad : \A j \in Bad : k <= j
  <2>1. Bad \in SUBSET Nat
    BY <1>0
  <2>2. Min(Bad) \in Bad /\ \A j \in Bad : Min(Bad) <= j
    BY <2>1, MinNat
  <2> QED
    BY <2>2
<1>2. k \in 0..MaxTurns /\ ~LeversOk(g[k]) /\ g[k] = TurnOf(g, k, digest) /\ k \in Nat
  BY <1>0, <1>1 DEF Turning
<1>3. k # 0
  BY <1>0, <1>2 DEF TurnOf
<1>4. k - 1 \in 0..MaxTurns /\ k - 1 \notin Bad
  BY <1>0, <1>1, <1>2, <1>3
<1>5. LeversOk(g[k - 1])
  BY <1>4
<1> QED
  BY <1>2, <1>3, <1>5, TightenIs DEF TurnOf

\* The levers are drawn until the text fits, or nothing more can be drawn.
LEMMA TurnsEnd ==
  ASSUME NEW digest \in BOOLEAN, NEW Fitting \in SUBSET (0..MaxTurns), NEW g,
         Turning(g, digest)
  PROVE  \E n \in 0..MaxTurns :
            /\ n \in Fitting \/ Tighten(g[n], digest) = g[n]
            /\ \A m \in 0..(n - 1) : m \notin Fitting /\ Tighten(g[m], digest) # g[m]
<1> DEFINE Stop(n) == n \in Fitting \/ Tighten(g[n], digest) = g[n]
           Stops == {n \in 0..MaxTurns : Stop(n)}
<1>0. MaxTurns \in Nat /\ Slack(Widest) = MaxTurns
  BY FloorsAreBelow DEF MaxTurns, Slack, Widest
<1>o. \A n \in 0..MaxTurns : LeversOk(g[n])
  BY TurnsOk
<1>1. Stops # {}
  <2> SUFFICES ASSUME Stops = {} PROVE FALSE
    OBVIOUS
  <2> DEFINE Bad == {n \in 0..MaxTurns : Slack(g[n]) > MaxTurns - n}
  <2>1. Bad = {}
    <3> SUFFICES ASSUME Bad # {} PROVE FALSE
      OBVIOUS
    <3>1. PICK k \in Bad : \A j \in Bad : k <= j
      <4>1. Bad \in SUBSET Nat
        BY <1>0
      <4>2. Min(Bad) \in Bad /\ \A j \in Bad : Min(Bad) <= j
        BY <4>1, MinNat
      <4> QED
        BY <4>2
    <3>2. k \in 0..MaxTurns /\ Slack(g[k]) > MaxTurns - k /\ k \in Nat
      BY <3>1, <1>0
    <3>3. g[k] = TurnOf(g, k, digest)
      BY <3>2 DEF Turning
    <3>4. CASE k = 0
      BY <3>2, <3>3, <3>4, <1>0 DEF TurnOf
    <3>5. CASE k # 0
      <4>1. k - 1 \in 0..MaxTurns /\ k - 1 \notin Bad
        BY <3>1, <3>2, <3>5, <1>0
      <4>2. Slack(g[k - 1]) <= MaxTurns - (k - 1)
        <5>1. LeversOk(g[k - 1])
          BY <4>1, <1>o
        <5>2. Slack(g[k - 1]) \in Nat
          BY <5>1, TightenIs
        <5> QED
          BY <4>1, <5>2, <1>0, <3>2
      <4>3. g[k] = Tighten(g[k - 1], digest) /\ Tighten(g[k - 1], digest) # g[k - 1]
        BY <3>3, <3>5, <4>1 DEF TurnOf
      <4>4. Slack(g[k]) < Slack(g[k - 1]) /\ Slack(g[k]) \in Nat /\ Slack(g[k - 1]) \in Nat
        BY <4>1, <4>3, <1>o, TightenIs
      <4> QED
        BY <4>2, <4>4, <3>2, <1>0
    <3> QED
      BY <3>4, <3>5
  <2>2. Slack(g[MaxTurns]) <= 0 /\ Slack(g[MaxTurns]) \in Nat \ {0}
    <3>1. MaxTurns \in 0..MaxTurns
      BY <1>0
    <3>2. Slack(g[MaxTurns]) \in Nat \ {0}
      BY <3>1, <1>o, TightenIs
    <3>3. ~(Slack(g[MaxTurns]) > MaxTurns - MaxTurns)
      BY <2>1, <3>1
    <3> QED
      BY <3>2, <3>3, <1>0
  <2> QED
    BY <2>2
<1>2. Min(Stops) \in Stops /\ \A n \in Stops : Min(Stops) <= n
  <2>1. Stops \in SUBSET Nat
    BY <1>0
  <2> HIDE DEF Stops
  <2> QED
    BY <2>1, <1>1, MinNat
<1>3. PICK n \in Stops : \A k \in Stops : n <= k
  BY <1>2
<1>4. n \in 0..MaxTurns /\ Stop(n) /\ \A m \in 0..(n - 1) : m \in 0..MaxTurns /\ ~(n <= m)
  BY <1>0, <1>3
<1> QED
  BY <1>3, <1>4

\* The prompt accounts for every relevant claim; those with the most evidence are shown,
\* and none if it does not fit.
LEMMA PromptIs ==
  ASSUME NEW S, NEW imports, NEW deps, NEW K, NEW digest \in BOOLEAN,
         Sortable(Relevant(K, ImportedSymbols(imports), deps))
  PROVE  LET p == BuildPrompt(S, imports, deps, K, digest) IN
         /\ p.inherited \union p.elided = Relevant(K, ImportedSymbols(imports), deps)
         /\ \A c \in p.inherited, d \in p.elided : c.evidence >= d.evidence
         /\ p.exhausted => p.inherited = {}
<1> DEFINE R == Relevant(K, ImportedSymbols(imports), deps)
           Fit(levers) == Size(S, imports, R, levers, digest) <= MaxPrompt
           g == CHOOSE h : h = [n \in 0..MaxTurns |-> TurnOf(h, n, digest)]
           last == CHOOSE n \in 0..MaxTurns :
                       /\ Fit(g[n]) \/ Tighten(g[n], digest) = g[n]
                       /\ \A m \in 0..(n - 1) : ~Fit(g[m]) /\ Tighten(g[m], digest) # g[m]
           shown == Inherit(R, g[last].inherited)
           p == BuildPrompt(S, imports, deps, K, digest)
<1>1. p.inherited = shown /\ p.elided = R \ shown /\ p.exhausted = ~Fit(g[last])
  BY DEF BuildPrompt, TurnOf
<1>2. Turning(g, digest)
  <2>1. g = CHOOSE h : Turning(h, digest)
    BY DEF Turning
  <2> HIDE DEF g
  <2> QED
    BY <2>1, TurnsExist
<1> HIDE DEF g, R, Fit, p
<1>3. \E n \in 0..MaxTurns :
         /\ Fit(g[n]) \/ Tighten(g[n], digest) = g[n]
         /\ \A m \in 0..(n - 1) : ~Fit(g[m]) /\ Tighten(g[m], digest) # g[m]
  <2> DEFINE Fitting == {n \in 0..MaxTurns : Fit(g[n])}
  <2>1. PICK n \in 0..MaxTurns :
           /\ n \in Fitting \/ Tighten(g[n], digest) = g[n]
           /\ \A m \in 0..(n - 1) : m \notin Fitting /\ Tighten(g[m], digest) # g[m]
    <3> HIDE DEF Fitting
    <3>1. Fitting \in SUBSET (0..MaxTurns)
      BY DEF Fitting
    <3>2. \E n \in 0..MaxTurns :
             /\ n \in Fitting \/ Tighten(g[n], digest) = g[n]
             /\ \A m \in 0..(n - 1) : m \notin Fitting /\ Tighten(g[m], digest) # g[m]
      BY <3>1, <1>2, TurnsEnd
    <3> QED
      BY <3>2, Zenon
  <2>2. \A m \in 0..(n - 1) : m \in 0..MaxTurns
    BY FloorsAreBelow DEF MaxTurns
  <2> QED
    BY <2>1, <2>2
<1>4. last \in 0..MaxTurns /\ (Fit(g[last]) \/ Tighten(g[last], digest) = g[last])
  BY <1>3
<1> DEFINE levers == g[last]
<1> HIDE DEF last
<1>5. LeversOk(levers) /\ (Fit(levers) \/ levers.inherited = 0)
  BY <1>2, <1>4, TurnsOk, TightenIs
<1>6. levers.inherited \in Nat
  BY <1>5, FloorsAreBelow DEF LeversOk
<1> DEFINE told1 == Inherit(R, levers.inherited)
<1>7. /\ told1 \subseteq R /\ \A c \in told1, d \in R \ told1 : c.evidence >= d.evidence
      /\ levers.inherited = 0 => told1 = {}
  <2>1. Sortable(R)
    BY DEF R
  <2> QED
    BY <2>1, <1>6, InheritIs
<1>8. p.inherited = told1 /\ p.elided = R \ told1 /\ p.exhausted = ~Fit(levers)
  BY <1>1
<1> HIDE DEF told1, levers
<1>9. /\ p.inherited \union p.elided = R
      /\ \A c \in p.inherited, d \in p.elided : c.evidence >= d.evidence
      /\ p.exhausted => p.inherited = {}
  BY <1>5, <1>7, <1>8
<1> QED
  BY <1>9 DEF p, R

(***************************************************************************)
(* The claims of the waves that were read, and the prompts.                *)
(***************************************************************************)

\* The claim c comes from a scope of one of these waves that were read.
OfWave(c, from) == \E j \in from..(wave - 1) : j \in DOMAIN waves /\ \E t \in waves[j].scopes : c.nodes = {t.node}

\* The prompt of n was built from the claims K in the wave i, and what is not in K is of
\* that wave or of a later one.
BuiltIn(i, n) ==
    \E s \in waves[i].scopes : \E K \in SUBSET claims, digest \in BOOLEAN :
        /\ s.node = n /\ told[n] = PromptOf(n, K, digest)
        /\ \A c \in claims \ K : OfWave(c, i)

ReadInv ==
    /\ Apart
    /\ phase # "done" => wave = 1 /\ asked = {} /\ told = <<>> /\ claims = {}
    /\ wave \in Nat \ {0}
    /\ asked # {} => wave \in DOMAIN waves /\ asked = waves[wave].scopes
    /\ IsFiniteSet(claims)
    /\ \A c \in claims : c.subject \in Seq(Nat) /\ c.evidence \in Nat /\ OfWave(c, 1)
    /\ \A n \in DOMAIN told : \E i \in 1..Len(waves) : i <= wave /\ BuiltIn(i, n)

\* The scopes of a wave are scopes of the plan.
LEMMA WaveScopes ==
  ASSUME PlanInv, NEW i \in DOMAIN waves
  PROVE  waves[i].scopes \subseteq scopes /\ i \in 1..Len(waves) /\ Len(waves) \in Nat
<1> DEFINE Wave == [level : Nat, scopes : SUBSET scopes]
<1>1. waves \in Seq(Wave)
  BY DEF PlanInv, WavesInv
<1>2. waves[i] \in Wave /\ i \in 1..Len(waves) /\ Len(waves) \in Nat
  <2> HIDE DEF Wave
  <2> QED
    BY <1>1
<1> QED
  BY <1>2

\* The claims of an answer, folded.
LEMMA FoldedIs ==
  ASSUME ReadInv, PlanInv, wave \in DOMAIN waves, phase = "done",
         NEW answered \in SUBSET Answerable(waves[wave].scopes)
  PROVE  /\ IsFiniteSet(Folded(answered)) /\ claims \subseteq Folded(answered)
         /\ \A c \in Folded(answered) \ claims :
               /\ c.subject \in Seq(Nat) /\ c.evidence \in Nat
               /\ \E t \in waves[wave].scopes : c.nodes = {t.node}
<1> DEFINE of(s) == {[c EXCEPT !.nodes = {s.node}] : c \in Answer(s)}
           g == [s \in answered |-> of(s)]
           new == UNION {of(s) : s \in answered}
<1>1. answered \subseteq waves[wave].scopes /\ \A s \in answered : WellFormed(Answer(s))
  BY DEF Answerable
<1>2. IsFiniteSet(answered)
  <2>1. IsFiniteSet(scopes)
    BY ScopesAreSound DEF Sound
  <2>3. waves[wave].scopes \subseteq scopes
    BY WaveScopes
  <2> QED
    BY <1>1, <2>1, <2>3, FS_Subset
<1>3. \A s \in answered : IsFiniteSet(of(s))
  <2> TAKE s \in answered
  <2> DEFINE h == [c \in Answer(s) |-> [c EXCEPT !.nodes = {s.node}]]
  <2>1. IsFiniteSet(Answer(s))
    BY <1>1 DEF WellFormed
  <2>2. of(s) = {h[c] : c \in Answer(s)}
    OBVIOUS
  <2> HIDE DEF h, of
  <2> QED
    BY <2>1, <2>2, FiniteImage
<1>4. IsFiniteSet(new)
  <2>1. {of(s) : s \in answered} = {g[s] : s \in answered}
    OBVIOUS
  <2>2. IsFiniteSet({of(s) : s \in answered})
    <3> HIDE DEF g, of
    <3> QED
      BY <2>1, <1>2, FiniteImage
  <2> HIDE DEF of
  <2> QED
    BY <2>2, <1>3, FS_UNION
<1>5. ASSUME NEW s \in answered, NEW c \in of(s)
      PROVE  c.subject \in Seq(Nat) /\ c.evidence \in Nat /\ c.nodes = {s.node}
  <2>1. PICK d \in Answer(s) : c = [d EXCEPT !.nodes = {s.node}]
    BY <1>5
  <2>2. d \in [subject : Seq(Nat), kind : STRING, evidence : Nat, nodes : {{}}]
    BY <1>1, <2>1 DEF WellFormed
  <2> QED
    BY <2>1, <2>2
<1>6. Folded(answered) = claims \union new
  BY DEF Folded
<1>7. IsFiniteSet(claims \union new)
  <2> HIDE DEF new
  <2> QED
    BY <1>4, FS_Union DEF ReadInv
<1> HIDE DEF of
<1> QED
  BY <1>1, <1>5, <1>6, <1>7

\* The next wave begins, with the claims of the answers and what was told.
LEMMA NextWaveKeeps ==
  ASSUME ReadInv, PlanInv, wave \in DOMAIN waves, phase = "done", UNCHANGED vars,
         NEW answered \in SUBSET Answerable(waves[wave].scopes), claims' = Folded(answered),
         wave' = wave + 1, asked' = {},
         \A n \in DOMAIN told' :
            \E i \in 1..Len(waves) : i <= wave /\ \E s \in waves[i].scopes : \E K \in SUBSET claims, digest \in BOOLEAN :
                /\ s.node = n /\ told'[n] = PromptOf(n, K, digest)
                /\ \A c \in claims \ K : OfWave(c, i)
  PROVE  ReadInv'
<1>u. UNCHANGED <<phase, edges, files, scopes, waves>>
  BY DEF vars
<1>1. /\ IsFiniteSet(claims') /\ claims \subseteq claims'
      /\ \A c \in claims' \ claims : /\ c.subject \in Seq(Nat) /\ c.evidence \in Nat
                                     /\ \E t \in waves[wave].scopes : c.nodes = {t.node}
  BY FoldedIs
<1>2. wave \in Nat \ {0} /\ wave' = wave + 1
  BY DEF ReadInv
<1>3. \A c : \A i \in Nat \ {0} : OfWave(c, i) => OfWave(c, i)'
  <2> SUFFICES ASSUME NEW c, NEW i \in Nat \ {0}, OfWave(c, i) PROVE OfWave(c, i)'
    OBVIOUS
  <2>1. PICK j \in i..(wave - 1) : j \in DOMAIN waves /\ \E t \in waves[j].scopes : c.nodes = {t.node}
    BY DEF OfWave
  <2>2. j \in i..(wave' - 1)
    BY <1>2
  <2> QED
    BY <2>1, <2>2, <1>u DEF OfWave
<1>4. \A c \in claims' \ claims : \A i \in 1..wave : OfWave(c, i)'
  <2> SUFFICES ASSUME NEW c \in claims' \ claims, NEW i \in 1..wave PROVE OfWave(c, i)'
    OBVIOUS
  <2>1. wave \in i..(wave' - 1)
    BY <1>2
  <2> QED
    BY <2>1, <1>1, <1>u DEF OfWave
<1>5. \A n, K, digest : PromptOf(n, K, digest)' = PromptOf(n, K, digest)
  BY <1>u DEF PromptOf, Leaf, ImportsOf, Deps
<1>6. \A n \in DOMAIN told' : \E i \in 1..Len(waves') : i <= wave' /\ BuiltIn(i, n)'
  <2> TAKE n \in DOMAIN told'
  <2>1. PICK i \in 1..Len(waves) :
           i <= wave /\ \E s \in waves[i].scopes : \E K \in SUBSET claims, digest \in BOOLEAN :
                /\ s.node = n /\ told'[n] = PromptOf(n, K, digest)
                /\ \A c \in claims \ K : OfWave(c, i)
    OBVIOUS
  <2>2. PICK s \in waves[i].scopes, K \in SUBSET claims, digest \in BOOLEAN :
                /\ s.node = n /\ told'[n] = PromptOf(n, K, digest)
                /\ \A c \in claims \ K : OfWave(c, i)
    BY <2>1
  <2>3. i \in Nat \ {0} /\ i \in 1..wave /\ i <= wave'
    BY <2>1, <1>2
  <2>4. \A c \in claims' \ K : OfWave(c, i)'
    BY <2>2, <2>3, <1>3, <1>4
  <2>5. K \in SUBSET claims'
    BY <1>1
  <2>6. BuiltIn(i, n)'
    BY <2>2, <2>4, <2>5, <1>5, <1>u DEF BuiltIn
  <2> QED
    BY <2>3, <2>6, <1>u
<1>7. \A c \in claims' : c.subject \in Seq(Nat) /\ c.evidence \in Nat /\ OfWave(c, 1)'
  <2> TAKE c \in claims'
  <2>1. CASE c \in claims
    BY <2>1, <1>3 DEF ReadInv
  <2>2. CASE c \notin claims
    <3>1. 1 \in 1..wave
      BY <1>2
    <3> QED
      BY <2>2, <3>1, <1>1, <1>4
  <2> QED
    BY <2>1, <2>2
<1>8. Apart'
  BY <1>u DEF ReadInv, Apart
<1>9. wave' \in Nat \ {0}
  BY <1>2
<1> QED
  BY <1>1, <1>6, <1>7, <1>8, <1>9, <1>u DEF ReadInv

\* What is told after prompts were written, and before the wave is over.
LEMMA WrittenIs ==
  ASSUME ReadInv, wave \in DOMAIN waves, NEW digest \in BOOLEAN,
         told' = Written(Nodes(waves[wave].scopes), claims, digest)
  PROVE  \A n \in DOMAIN told' :
            \E i \in 1..Len(waves) : i <= wave /\ \E s \in waves[i].scopes : \E K \in SUBSET claims, d \in BOOLEAN :
                /\ s.node = n /\ told'[n] = PromptOf(n, K, d)
                /\ \A c \in claims \ K : OfWave(c, i)
<1> TAKE n \in DOMAIN told'
<1>1. DOMAIN told' = Nodes(waves[wave].scopes) \union DOMAIN told
  BY DEF Written
<1>2. CASE n \in Nodes(waves[wave].scopes)
  <2>1. told'[n] = PromptOf(n, claims, digest)
    BY <1>2 DEF Written
  <2>2. PICK s \in waves[wave].scopes : s.node = n
    BY <1>2 DEF Nodes
  <2>3. wave \in 1..Len(waves) /\ wave <= wave
    BY DEF ReadInv
  <2> QED
    BY <2>1, <2>2, <2>3
<1>3. CASE n \notin Nodes(waves[wave].scopes)
  <2>1. told'[n] = told[n] /\ n \in DOMAIN told
    BY <1>1, <1>3 DEF Written
  <2> QED
    BY <2>1 DEF ReadInv, BuiltIn
<1> QED
  BY <1>2, <1>3

LEMMA ReadWavesKeep ==
  ASSUME ReadInv, PlanInv, RunWave \/ CmdCollect \/ \E digest \in BOOLEAN : CmdPrompts(digest), UNCHANGED vars
  PROVE  ReadInv'
<1>u. UNCHANGED <<phase, edges, files, scopes, waves>>
  BY DEF vars
<1>w. waves \in Seq([level : Nat, scopes : SUBSET scopes])
  BY DEF PlanInv, WavesInv
<1>1. CASE RunWave
  <2>1. wave \in DOMAIN waves /\ phase = "done" /\ asked = {}
    BY <1>1 DEF RunWave, Reading
  <2>2. PICK answered \in SUBSET Answerable(waves[wave].scopes) : claims' = Folded(answered)
    BY <1>1 DEF RunWave
  <2>3. told' = Written(Nodes(waves[wave].scopes), claims, FALSE) /\ wave' = wave + 1 /\ asked' = {}
    BY <1>1, <2>1 DEF RunWave
  <2> QED
    BY <2>1, <2>2, <2>3, <1>w, WrittenIs, NextWaveKeeps
<1>2. CASE CmdCollect
  <2>1. wave \in DOMAIN waves /\ phase = "done" /\ asked = waves[wave].scopes
    BY <1>2 DEF CmdCollect, ReadInv
  <2>2. PICK answered \in SUBSET Answerable(waves[wave].scopes) : claims' = Folded(answered)
    BY <1>2, <2>1 DEF CmdCollect
  <2>3. told' = told /\ wave' = wave + 1 /\ asked' = {}
    BY <1>2 DEF CmdCollect
  <2>4. \A n \in DOMAIN told' :
            \E i \in 1..Len(waves) : i <= wave /\ \E s \in waves[i].scopes : \E K \in SUBSET claims, d \in BOOLEAN :
                /\ s.node = n /\ told'[n] = PromptOf(n, K, d)
                /\ \A c \in claims \ K : OfWave(c, i)
    BY <2>3 DEF ReadInv, BuiltIn
  <2> QED
    BY <2>1, <2>2, <2>3, <2>4, NextWaveKeeps
<1>3. ASSUME NEW digest \in BOOLEAN, CmdPrompts(digest) PROVE ReadInv'
  <2>1. wave \in DOMAIN waves /\ phase = "done"
    BY <1>3 DEF CmdPrompts, Reading
  <2>2. /\ told' = Written(Nodes(waves[wave].scopes), claims, digest) /\ asked' = waves[wave].scopes
        /\ wave' = wave /\ claims' = claims
    BY <1>3 DEF CmdPrompts
  <2>3. \A n \in DOMAIN told' :
            \E i \in 1..Len(waves) : i <= wave /\ \E s \in waves[i].scopes : \E K \in SUBSET claims, d \in BOOLEAN :
                /\ s.node = n /\ told'[n] = PromptOf(n, K, d)
                /\ \A c \in claims \ K : OfWave(c, i)
    BY <2>1, <2>2, <1>w, WrittenIs
  <2>4. \A n, K, d : PromptOf(n, K, d)' = PromptOf(n, K, d)
    BY <1>u DEF PromptOf, Leaf, ImportsOf, Deps
  <2>5. \A c, i : OfWave(c, i)' = OfWave(c, i)
    BY <1>u, <2>2 DEF OfWave
  <2>6. \A n \in DOMAIN told' : \E i \in 1..Len(waves') : i <= wave' /\ BuiltIn(i, n)'
    BY <2>2, <2>3, <2>4, <2>5, <1>u DEF BuiltIn
  <2>7. Apart'
    BY <1>u DEF ReadInv, Apart
  <2> QED
    BY <2>1, <2>2, <2>5, <2>6, <2>7, <1>u DEF ReadInv
<1> QED
  BY <1>1, <1>2, <1>3

LEMMA ReadInit == ReadingInit => ReadInv
<1> SUFFICES ASSUME ReadingInit PROVE ReadInv
  OBVIOUS
<1>1. Apart
  <2>1. PICK inventory \in Inventories : files = inventory.files
    BY DEF ReadingInit, Init
  <2> QED
    BY <2>1, ModulesAreApart DEF Apart
<1>2. wave = 1 /\ asked = {} /\ told = <<>> /\ claims = {} /\ phase = "layer"
  BY DEF ReadingInit, Init
<1>3. DOMAIN told = {} /\ IsFiniteSet(claims)
  BY <1>2, FS_EmptySet
<1> QED
  BY <1>1, <1>2, <1>3 DEF ReadInv

\* While the plan is made nothing is read.
LEMMA PlanKeepsRead ==
  ASSUME ReadInv, Next, UNCHANGED readVars
  PROVE  ReadInv'
<1>1. phase # "done" /\ files' = files
  BY DEF Next, SearchStep, Layer, CutModules, CoalesceScopes, PlaceScope, MergeBins, EmitWave, EndSchedule
<1>2. wave' = 1 /\ asked' = {} /\ told' = <<>> /\ claims' = {}
  BY <1>1 DEF ReadInv, readVars
<1>3. Apart'
  BY <1>1 DEF ReadInv, Apart
<1>4. DOMAIN told' = {} /\ IsFiniteSet(claims')
  BY <1>2, FS_EmptySet
<1> QED
  BY <1>2, <1>3, <1>4 DEF ReadInv

LEMMA ReadUntouched ==
  ASSUME ReadInv, UNCHANGED <<vars, readVars>>
  PROVE  ReadInv'
<1>u. UNCHANGED <<phase, edges, files, scopes, waves, wave, asked, told, claims>>
  BY DEF vars, readVars
<1>1. \A n, K, d : PromptOf(n, K, d)' = PromptOf(n, K, d)
  BY <1>u DEF PromptOf, Leaf, ImportsOf, Deps
<1>2. \A c, i : OfWave(c, i)' = OfWave(c, i)
  BY <1>u DEF OfWave
<1>3. \A i, n : BuiltIn(i, n)' = BuiltIn(i, n)
  BY <1>u, <1>1, <1>2 DEF BuiltIn
<1>4. Apart'
  BY <1>u DEF ReadInv, Apart
<1> QED
  BY <1>2, <1>3, <1>4, <1>u DEF ReadInv

\* The prompts, the claims and the waves agree at every step.
THEOREM ReadInvariant == ReadingSpec => [](PlanInv /\ ReadInv)
<1>1. ReadingInit => PlanInv /\ ReadInv
  BY PlanInit, ReadInit DEF ReadingInit
<1>2. PlanInv /\ ReadInv /\ [ReadingNext]_<<vars, readVars>> => (PlanInv /\ ReadInv)'
  BY PlanStep, PlanUntouched, ReadWavesKeep, PlanKeepsRead, ReadUntouched DEF ReadingNext
<1> QED
  BY <1>1, <1>2, PTL DEF ReadingSpec

\* What a scope is to know of a module, and is known, is among the relevant claims.
LEMMA KnownIsRelevant ==
  ASSUME NEW K, NEW c \in K, c.subject \in Seq(Nat), NEW imports, NEW deps,
         \/ c.subject \in imports
         \/ /\ c.kind \in Fallback
            /\ \E n \in c.nodes : n # <<>> /\ \E d \in deps : Home[d] = <<n[1]>>
  PROVE  c \in Relevant(K, ImportedSymbols(imports), deps)
<1>1. CASE c.subject \in imports
  <2>1. PICK a \in Seq(Nat) : a = c.subject
    OBVIOUS
  <2>2. IsPrefix(a, a)
    BY PrefixOrder
  <2>3. c.subject \in ImportedSymbols(imports)
    BY <1>1 DEF ImportedSymbols
  <2> QED
    BY <2>1, <2>2, <2>3 DEF Relevant, IsSigmaClaim
<1>2. CASE c.kind \in Fallback /\ \E n \in c.nodes : n # <<>> /\ \E d \in deps : Home[d] = <<n[1]>>
  BY <1>2 DEF Relevant, FromDependency
<1> QED
  BY <1>1, <1>2

\* The node of a scope begins with the home of its module.
LEMMA NodeBelowHome ==
  ASSUME Scanned(files), PackingInv, NEW s \in Merged, Len(Home[s.module]) = 1
  PROVE  s.node # <<>> /\ Home[s.module] = <<s.node[1]>>
<1>1. s.node \in Seq(Nat) /\ \E f, k : Stem(s.node, s.module, f, k)
  BY StemOfCut, StemOfPacked DEF Merged
<1>2. PICK f, k : Stem(s.node, s.module, f, k)
  BY <1>1
<1>3. f \in files /\ f.module = s.module
  BY <1>2 DEF Stem
<1>4. PICK h \in Seq(Nat), d \in Seq(Nat) : h = Home[s.module] /\ d = f.dir
  BY <1>3, PathOfFile, DirectoryIsPath
<1>5. PICK node \in Seq(Nat) : node = s.node
  BY <1>1
<1>6. Len(h) = 1 /\ k \in Len(h)..Len(h \o d) /\ k <= Len(node) /\ \A i \in 1..k : node[i] = (h \o d)[i]
  BY <1>2, <1>4, <1>5 DEF Stem
<1>7. (h \o d)[1] = h[1] /\ Len(h \o d) \in Nat /\ Len(node) \in Nat
  <2>1. PICK w \in Seq(Nat) : w = h \o d
    BY ConcatIs
  <2>2. 1 \in 1..Len(h) /\ Len(w) \in Nat /\ Len(node) \in Nat
    BY <1>6
  <2>3. \A i \in 1..Len(h) : (h \o d)[i] = h[i]
    BY ConcatIs
  <2> QED
    BY <2>1, <2>2, <2>3
<1>8. 1 \in 1..k /\ Len(node) > 0 /\ node[1] = h[1]
  <2>1. k \in 1..Len(h \o d) /\ k <= Len(node)
    BY <1>6
  <2>2. 1 \in 1..k /\ Len(node) > 0
    BY <2>1, <1>7
  <2>3. node[1] = (h \o d)[1]
    BY <2>2, <1>6
  <2> QED
    BY <2>2, <2>3, <1>7
<1>n. node # <<>>
  BY <1>8
<1>9. h = <<h[1]>>
  <2>1. PICK a \in Nat : a = h[1]
    <3>1. 1 \in 1..Len(h)
      BY <1>6
    <3>2. h[1] \in Nat
      BY <3>1
    <3> QED
      BY <3>2
  <2>2. <<a>> \in Seq(Nat) /\ Len(<<a>>) = 1 /\ <<a>>[1] = a
    OBVIOUS
  <2>3. PICK b \in Seq(Nat) : b = <<a>> /\ Len(b) = 1 /\ b[1] = a
    BY <2>2
  <2>4. h = b
    <3>1. Len(h) = Len(b) /\ \A i \in 1..Len(h) : h[i] = b[i]
      BY <2>1, <2>3, <1>6
    <3> QED
      BY <3>1, SamePath
  <2> QED
    BY <2>1, <2>3, <2>4
<1> QED
  BY <1>4, <1>5, <1>8, <1>9, <1>n

LEMMA DependenciesTold == PlanInv /\ ReadInv => DependenciesAreTold
<1> SUFFICES ASSUME PlanInv, ReadInv, phase = "done", NEW n \in DOMAIN told
             PROVE  LET s == Leaf(n)
                        p == told[n]
                        Made(c, m) == \E t \in scopes : t.module = m /\ t.node \in c.nodes
                        Before(m) == \A k \in cycles : m \notin k
                    IN /\ \A m \in Deps(s.module) : Before(m) =>
                             \A c \in claims :
                                /\ Made(c, m)
                                /\ c.subject \in ImportsOf(s) \/ (c.kind \in Fallback /\ Len(Home[m]) = 1)
                                => c \in p.inherited \union p.elided
                       /\ \A c \in p.inherited, d \in p.elided : c.evidence >= d.evidence
                       /\ p.exhausted => p.inherited = {}
  BY DEF DependenciesAreTold
<1> DEFINE s == Leaf(n)
           p == told[n]
<1>1. PICK i \in 1..Len(waves) : BuiltIn(i, n)
  BY DEF ReadInv
<1>2. PICK own \in waves[i].scopes, K \in SUBSET claims, digest \in BOOLEAN :
         /\ own.node = n /\ p = PromptOf(n, K, digest)
         /\ \A c \in claims \ K : OfWave(c, i)
  BY <1>1 DEF BuiltIn
<1>3. scopes = Merged /\ Scanned(files) /\ Apart /\ PackingInv
  BY DEF PlanInv, ScopesInv, ReadInv
<1>i. i \in DOMAIN waves /\ own \in scopes
  <2>1. i \in DOMAIN waves
    BY DEF PlanInv, WavesInv
  <2> QED
    BY <2>1, WaveScopes
<1>4. s \in scopes /\ s.node = n /\ s.module = own.module
  <2>1. s = CHOOSE t \in scopes : t.node = n
    BY DEF Leaf
  <2>2. s \in scopes /\ s.node = n
    <3> HIDE DEF s
    <3> QED
      BY <2>1, <1>2, <1>i
  <2> HIDE DEF s
  <2> QED
    BY <2>2, <1>2, <1>3, <1>i, NodesTellModules
<1> DEFINE deps == Deps(s.module)
           R == Relevant(K, ImportedSymbols(ImportsOf(s)), deps)
<1>5. p = BuildPrompt(s.files, ImportsOf(s), deps, K, digest)
  BY <1>2 DEF PromptOf
<1>6. Sortable(R)
  <2>1. R \subseteq claims
    BY DEF Relevant
  <2>2. IsFiniteSet(R)
    BY <2>1, FS_Subset DEF ReadInv
  <2> HIDE DEF R
  <2> QED
    BY <2>1, <2>2 DEF Sortable, ReadInv
<1>7. /\ p.inherited \union p.elided = R
      /\ \A c \in p.inherited, d \in p.elided : c.evidence >= d.evidence
      /\ p.exhausted => p.inherited = {}
  BY <1>5, <1>6, PromptIs
<1> HIDE DEF s, p
<1>8. ASSUME NEW m \in Deps(s.module), \A k \in cycles : m \notin k, NEW c \in claims,
             NEW t \in scopes, t.module = m, t.node \in c.nodes,
             c.subject \in ImportsOf(s) \/ (c.kind \in Fallback /\ Len(Home[m]) = 1)
      PROVE  c \in R
  <2>1. c \in K
    <3> SUFFICES ASSUME c \notin K PROVE FALSE
      OBVIOUS
    <3>1. PICK j \in i..(wave - 1) : j \in DOMAIN waves /\ \E u \in waves[j].scopes : c.nodes = {u.node}
      BY <1>2 DEF OfWave
    <3>2. PICK u \in waves[j].scopes : c.nodes = {u.node}
      BY <3>1
    <3>3. j \in DOMAIN waves /\ u \in scopes
      BY <3>1, WaveScopes
    <3>4. u.module = m
      BY <3>2, <3>3, <1>3, <1>8, NodesTellModules
    <3>5. <<own.module, u.module>> \in edges /\ \A k \in cycles : u.module \notin k
      BY <3>4, <1>4, <1>8 DEF Deps
    <3>6. j < i
      <4>1. DependenciesFirst
        BY ImportersAreLater
      <4> QED
        BY <4>1, <3>3, <3>2, <3>5, <1>i, <1>2 DEF DependenciesFirst
    <3>7. i \in Nat /\ j \in Nat /\ i <= j
      BY <3>1, <1>i, WaveScopes
    <3> QED
      BY <3>6, <3>7
  <2>2. c.kind \in Fallback /\ Len(Home[m]) = 1
        => \E x \in c.nodes : x # <<>> /\ \E d \in deps : Home[d] = <<x[1]>>
    BY <1>3, <1>8, NodeBelowHome
  <2>3. c.subject \in Seq(Nat)
    BY DEF ReadInv
  <2> HIDE DEF deps
  <2> QED
    BY <2>1, <2>2, <2>3, <1>8, KnownIsRelevant
<1> HIDE DEF R
<1> QED
  BY <1>7, <1>8 DEF s, p

\* What an agent is to know of the modules that its scope imports, it is told, for every
\* graph, layout and answer.
THEOREM PromptsTell == ReadingSpec => []DependenciesAreTold
  BY ReadInvariant, DependenciesTold, PTL
=============================================================================
