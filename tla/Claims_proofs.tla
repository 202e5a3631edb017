---------------------------- MODULE Claims_proofs ----------------------------
(***************************************************************************)
(* What is proved of Claims, for any worlds, files, answers and insertions:*)
(* the properties of its fold, from the well-formedness of the log and of  *)
(* the tree.  The lemmas say what the operators on sequences return as     *)
(* sets; where an induction is needed, the least counterexample is taken.  *)
(***************************************************************************)
EXTENDS Claims, FiniteSetTheorems, SequenceTheorems, WellFoundedInduction, TLAPS

(***************************************************************************)
(* Numbers, sets and sequences.                                            *)
(***************************************************************************)

\* What Min of the community modules chooses.
LEMMA MinNat ==
  ASSUME NEW T \in SUBSET Nat, T # {}
  PROVE  Min(T) \in T /\ \A y \in T : Min(T) <= y
<1>1. \E x \in T : \A y \in T : ~(<<y, x>> \in OpToRel(<, Nat))
  BY NatLessThanWellFounded, WFMin
<1>2. PICK x \in T : \A y \in T : ~(<<y, x>> \in OpToRel(<, Nat))
  BY <1>1
<1>3. \A y \in T : y < x => <<y, x>> \in OpToRel(<, Nat)
  BY DEF OpToRel
<1>4. \A y \in T : ~(y < x)
  BY <1>2, <1>3
<1>5. \A y \in T : x <= y
  BY <1>4
<1> QED
  BY <1>5 DEF Min

\* Of some numbers one is smallest: induction, without an operator.
LEMMA Earliest ==
  ASSUME NEW Bad, Bad \subseteq Nat, Bad # {}
  PROVE  \E k \in Nat : k \in Bad /\ (k # 0 => k - 1 \in Nat /\ k - 1 \notin Bad)
<1>1. Min(Bad) \in Bad /\ \A j \in Bad : Min(Bad) <= j
  BY MinNat
<1>2. PICK k \in Nat : k = Min(Bad)
  BY <1>1
<1>3. k # 0 => k - 1 \in Nat /\ ~(k <= k - 1)
  OBVIOUS
<1> QED
  BY <1>1, <1>2, <1>3

\* A sequence and its elements.
LEMMA SeqIs ==
  ASSUME NEW s
  PROVE  IsSeq(s) <=> \E n \in Nat : s = [i \in 1..n |-> s[i]]
<1>1. ASSUME IsSeq(s) PROVE \E n \in Nat : s = [i \in 1..n |-> s[i]]
  BY <1>1 DEF IsSeq
<1>2. ASSUME NEW n \in Nat, s = [i \in 1..n |-> s[i]] PROVE IsSeq(s)
  <2>1. s \in [1..n -> ToSet(s)]
    BY <1>2 DEF ToSet
  <2> QED
    BY <2>1 DEF IsSeq
<1> QED
  BY <1>1, <1>2

LEMMA AnySeq ==
  ASSUME NEW S, NEW s \in Seq(S)
  PROVE  IsSeq(s) /\ ToSet(s) \subseteq S
  BY DEF IsSeq, ToSet

LEMMA SeqLen ==
  ASSUME NEW s, IsSeq(s)
  PROVE  /\ Len(s) \in Nat /\ DOMAIN s = 1..Len(s)
         /\ \A i \in 1..Len(s) : s[i] \in ToSet(s)
         /\ \A x \in ToSet(s) : \E i \in 1..Len(s) : x = s[i]
  BY DEF IsSeq, ToSet

\* A sequence given by its elements.
LEMMA Listed ==
  ASSUME NEW n \in Nat, NEW f
  PROVE  /\ IsSeq([i \in 1..n |-> f[i]]) /\ Len([i \in 1..n |-> f[i]]) = n
         /\ ToSet([i \in 1..n |-> f[i]]) = {f[i] : i \in 1..n}
<1> DEFINE s == [i \in 1..n |-> f[i]]
<1>1. \A i \in 1..n : s[i] = f[i]
  OBVIOUS
<1>2. ToSet(s) = {f[i] : i \in 1..n}
  BY <1>1 DEF ToSet
<1>3. s \in Seq(ToSet(s)) /\ Len(s) = n
  BY DEF ToSet
<1> QED
  BY <1>2, <1>3 DEF IsSeq

LEMMA SeqAppend ==
  ASSUME NEW s, IsSeq(s), NEW e
  PROVE  IsSeq(Append(s, e)) /\ ToSet(Append(s, e)) = ToSet(s) \union {e}
<1>1. s \in Seq(ToSet(s) \union {e})
  BY DEF IsSeq
<1>2. Append(s, e) \in Seq(ToSet(s) \union {e})
  BY <1>1
<1>3. /\ Len(s) \in Nat /\ DOMAIN s = 1..Len(s) /\ DOMAIN Append(s, e) = 1..(Len(s) + 1)
      /\ Append(s, e)[Len(s) + 1] = e
      /\ \A i \in 1..Len(s) : Append(s, e)[i] = s[i]
  BY <1>1, SeqLen
<1>4. \A i \in 1..(Len(s) + 1) : i \in 1..Len(s) \/ i = Len(s) + 1
  BY <1>3
<1>5. ToSet(Append(s, e)) = ToSet(s) \union {e}
  <2>1. ASSUME NEW x \in ToSet(Append(s, e)) PROVE x \in ToSet(s) \union {e}
    BY <1>3, <1>4 DEF ToSet
  <2>2. ASSUME NEW x \in ToSet(s) \union {e} PROVE x \in ToSet(Append(s, e))
    <3>1. CASE x = e
      BY <1>3, <3>1 DEF ToSet
    <3>2. CASE x \in ToSet(s)
      <4>1. PICK i \in 1..Len(s) : x = s[i]
        BY <3>2, SeqLen
      <4>2. i \in 1..(Len(s) + 1)
        BY <1>3
      <4> QED
        BY <1>3, <4>1, <4>2 DEF ToSet
    <3> QED
      BY <3>1, <3>2
  <2> QED
    BY <2>1, <2>2
<1> QED
  BY <1>2, <1>5 DEF IsSeq

LEMMA SeqConcat ==
  ASSUME NEW s, IsSeq(s), NEW t, IsSeq(t)
  PROVE  IsSeq(s \o t) /\ ToSet(s \o t) = ToSet(s) \union ToSet(t)
<1> DEFINE S == ToSet(s) \union ToSet(t)
<1>1. s \in Seq(S) /\ t \in Seq(S)
  BY DEF IsSeq
<1>2. s \o t \in Seq(S) /\ Len(s \o t) = Len(s) + Len(t)
  BY <1>1
<1>3. ToSet(s \o t) \subseteq S
  BY <1>2 DEF ToSet
<1>4. ASSUME NEW x \in ToSet(s) PROVE x \in ToSet(s \o t)
  <2>1. PICK i \in 1..Len(s) : x = s[i]
    BY SeqLen
  <2>2. (s \o t)[i] = s[i] /\ i \in 1..Len(s \o t)
    BY <1>1, <1>2
  <2> QED
    BY <2>1, <2>2, <1>2 DEF ToSet
<1>5. ASSUME NEW x \in ToSet(t) PROVE x \in ToSet(s \o t)
  <2>1. PICK i \in 1..Len(t) : x = t[i]
    BY SeqLen
  <2>2. (s \o t)[Len(s) + i] = t[i] /\ Len(s) + i \in 1..Len(s \o t)
    BY <1>1, <1>2
  <2> QED
    BY <2>1, <2>2, <1>2 DEF ToSet
<1> QED
  BY <1>2, <1>3, <1>4, <1>5 DEF IsSeq

LEMMA SeqFinite ==
  ASSUME NEW s, IsSeq(s)
  PROVE  IsFiniteSet(ToSet(s))
<1>1. s \in Surjection(1..Len(s), ToSet(s))
  BY SeqLen DEF Surjection, IsSeq
<1>2. IsFiniteSet(1..Len(s))
  BY SeqLen, FS_Interval
<1> QED
  BY <1>1, <1>2, FS_Surjection
(***************************************************************************)
(* Where and FlattenSeq.                                                   *)
(***************************************************************************)

\* f holds what Where has taken of the first elements of s.
Sifting(s, T, f) ==
    f = [i \in 0..Len(s) |->
            IF i = 0 THEN <<>>
            ELSE IF s[i] \in T THEN Append(f[i - 1], s[i]) ELSE f[i - 1]]

\* Some f does.
LEMMA SiftingExists ==
  ASSUME NEW s, IsSeq(s), NEW T
  PROVE  \E f : Sifting(s, T, f)
<1> DEFINE n == Len(s)
           Next1(f, i) == IF i = 0 THEN <<>>
                          ELSE IF s[i] \in T THEN Append(f[i - 1], s[i]) ELSE f[i - 1]
           Begun(k, f) == f = [i \in 0..k |-> Next1(f, i)]
           Bad == {k \in Nat : ~\E f : Begun(k, f)}
<1>1. n \in Nat
  BY SeqLen
<1>2. Bad = {}
  <2> SUFFICES ASSUME Bad # {} PROVE FALSE
    OBVIOUS
  <2>1. PICK k \in Nat : k \in Bad /\ (k # 0 => k - 1 \in Nat /\ k - 1 \notin Bad)
    <3>1. Bad \subseteq Nat
      OBVIOUS
    <3> HIDE DEF Bad
    <3> QED
      BY <3>1, Earliest
  <2>2. CASE k = 0
    <3> DEFINE f == [i \in 0..k |-> <<>>]
    <3>1. \A i \in 0..k : i = 0 /\ f[i] = Next1(f, i)
      BY <2>2
    <3>2. f = [i \in 0..k |-> Next1(f, i)]
      BY <3>1
    <3> HIDE DEF f
    <3> QED
      BY <2>1, <3>2
  <2>3. CASE k # 0
    <3>1. k - 1 \in Nat /\ \E f : Begun(k - 1, f)
      BY <2>1, <2>3
    <3>2. PICK g : Begun(k - 1, g)
      BY <3>1
    <3> DEFINE f == [i \in 0..k |-> Next1(g, i)]
    <3>3. \A i \in 0..(k - 1) : f[i] = g[i]
      <4> TAKE i \in 0..(k - 1)
      <4>1. i \in 0..k /\ f[i] = Next1(g, i)
        BY <3>1
      <4>2. g[i] = Next1(g, i)
        BY <3>2
      <4> QED
        BY <4>1, <4>2
    <3>4. \A i \in 0..k : Next1(f, i) = Next1(g, i)
      <4> TAKE i \in 0..k
      <4>1. CASE i = 0
        BY <4>1
      <4>2. CASE i # 0
        <5>1. i - 1 \in 0..(k - 1)
          BY <4>2
        <5> HIDE DEF f
        <5> QED
          BY <5>1, <3>3
      <4> QED
        BY <4>1, <4>2
    <3>5. f = [i \in 0..k |-> Next1(f, i)]
      BY <3>4
    <3> HIDE DEF f
    <3> QED
      BY <2>1, <3>5
  <2> QED
    BY <2>2, <2>3
<1> QED
  BY <1>1, <1>2 DEF Sifting

\* Where keeps the elements that are in T and no others.
LEMMA WhereIs ==
  ASSUME NEW s, IsSeq(s), NEW T
  PROVE  IsSeq(Where(s, T)) /\ ToSet(Where(s, T)) = ToSet(s) \intersect T
<1> DEFINE f == CHOOSE g : Sifting(s, T, g)
           Taken(i) == {s[j] : j \in 1..i} \intersect T
           Bad == {i \in 0..Len(s) : ~(IsSeq(f[i]) /\ ToSet(f[i]) = Taken(i))}
<1>1. Where(s, T) = f[Len(s)]
  BY DEF Where, Sifting
<1>2. Sifting(s, T, f)
  BY SiftingExists
<1>3. Len(s) \in Nat
  BY SeqLen
<1> HIDE DEF f
<1>4. Bad = {}
  <2> SUFFICES ASSUME Bad # {} PROVE FALSE
    OBVIOUS
  <2>1. PICK k \in Nat : k \in Bad /\ (k # 0 => k - 1 \in Nat /\ k - 1 \notin Bad)
    <3>1. Bad \subseteq Nat
      BY <1>3
    <3> HIDE DEF Bad
    <3> QED
      BY <3>1, Earliest
  <2>2. CASE k = 0
    <3>1. f[k] = <<>>
      BY <1>2, <1>3, <2>2 DEF Sifting
    <3>2. IsSeq(<<>>) /\ ToSet(<<>>) = {}
      BY DEF IsSeq, ToSet
    <3>3. Taken(k) = {}
      BY <2>2
    <3> QED
      BY <2>1, <3>1, <3>2, <3>3
  <2>3. CASE k # 0
    <3>0. k - 1 \in Nat /\ k - 1 \notin Bad /\ k \in 0..Len(s)
      BY <2>1, <2>3
    <3>1. k - 1 \in 0..Len(s) /\ k \in 1..Len(s)
      BY <3>0, <2>3, <1>3
    <3>2. IsSeq(f[k - 1]) /\ ToSet(f[k - 1]) = Taken(k - 1)
      BY <3>0, <3>1
    <3>3. f[k] = IF s[k] \in T THEN Append(f[k - 1], s[k]) ELSE f[k - 1]
      <4>1. k \in 0..Len(s)
        BY <3>0
      <4> QED
        BY <1>2, <2>3, <4>1 DEF Sifting
    <3>4. {s[j] : j \in 1..k} = {s[j] : j \in 1..(k - 1)} \union {s[k]}
      <4>1. 1..k = 1..(k - 1) \union {k}
        BY <3>1, <1>3
      <4> QED
        BY <4>1
    <3>5. CASE s[k] \in T
      <4>1. IsSeq(f[k]) /\ ToSet(f[k]) = Taken(k - 1) \union {s[k]}
        BY <3>2, <3>3, <3>5, SeqAppend
      <4>2. Taken(k) = Taken(k - 1) \union {s[k]}
        BY <3>4, <3>5
      <4> QED
        BY <2>1, <4>1, <4>2
    <3>6. CASE s[k] \notin T
      <4>1. Taken(k) = Taken(k - 1)
        BY <3>4, <3>6
      <4> QED
        BY <2>1, <3>2, <3>3, <3>6, <4>1
    <3> QED
      BY <3>5, <3>6
  <2> QED
    BY <2>2, <2>3
<1>5. IsSeq(f[Len(s)]) /\ ToSet(f[Len(s)]) = Taken(Len(s))
  BY <1>3, <1>4
<1>6. {s[j] : j \in 1..Len(s)} = ToSet(s)
  BY SeqLen DEF ToSet
<1> QED
  BY <1>1, <1>5, <1>6

\* f holds the concatenations of the first sequences of ss.
Joining(ss, f) ==
    f = [i \in 1..Len(ss) |-> IF i = 1 THEN ss[i] ELSE f[i - 1] \o ss[i]]

\* Some f does.
LEMMA JoiningExists ==
  ASSUME NEW ss, IsSeq(ss)
  PROVE  \E f : Joining(ss, f)
<1> DEFINE n == Len(ss)
           Joined1(f, i) == IF i = 1 THEN ss[i] ELSE f[i - 1] \o ss[i]
           Begun(k, f) == f = [i \in 1..k |-> Joined1(f, i)]
           Bad == {k \in Nat : ~\E f : Begun(k, f)}
<1>1. n \in Nat
  BY SeqLen
<1>2. Bad = {}
  <2> SUFFICES ASSUME Bad # {} PROVE FALSE
    OBVIOUS
  <2>1. PICK k \in Nat : k \in Bad /\ (k # 0 => k - 1 \in Nat /\ k - 1 \notin Bad)
    <3>1. Bad \subseteq Nat
      OBVIOUS
    <3> HIDE DEF Bad
    <3> QED
      BY <3>1, Earliest
  <2>2. CASE k = 0
    <3> DEFINE f == [i \in 1..k |-> ss[i]]
    <3>1. \A i \in 1..k : f[i] = Joined1(f, i)
      BY <2>2
    <3>2. f = [i \in 1..k |-> Joined1(f, i)]
      BY <3>1
    <3> HIDE DEF f
    <3> QED
      BY <2>1, <3>2
  <2>3. CASE k # 0
    <3>1. k - 1 \in Nat /\ \E f : Begun(k - 1, f)
      BY <2>1, <2>3
    <3>2. PICK g : Begun(k - 1, g)
      BY <3>1
    <3> DEFINE f == [i \in 1..k |-> Joined1(g, i)]
    <3>3. \A i \in 1..(k - 1) : f[i] = g[i]
      <4> TAKE i \in 1..(k - 1)
      <4>1. i \in 1..k /\ f[i] = Joined1(g, i)
        BY <3>1
      <4>2. g[i] = Joined1(g, i)
        BY <3>2
      <4> QED
        BY <4>1, <4>2
    <3>4. \A i \in 1..k : Joined1(f, i) = Joined1(g, i)
      <4> TAKE i \in 1..k
      <4>1. CASE i = 1
        BY <4>1
      <4>2. CASE i # 1
        <5>1. i - 1 \in 1..(k - 1)
          BY <4>2
        <5> HIDE DEF f
        <5> QED
          BY <5>1, <3>3
      <4> QED
        BY <4>1, <4>2
    <3>5. f = [i \in 1..k |-> Joined1(f, i)]
      BY <3>4
    <3> HIDE DEF f
    <3> QED
      BY <2>1, <3>5
  <2> QED
    BY <2>2, <2>3
<1> QED
  BY <1>1, <1>2 DEF Joining

\* FlattenSeq has the elements of all its sequences.
LEMMA FlattenIs ==
  ASSUME NEW ss, IsSeq(ss), \A t \in ToSet(ss) : IsSeq(t)
  PROVE  /\ IsSeq(FlattenSeq(ss))
         /\ ToSet(FlattenSeq(ss)) = UNION {ToSet(t) : t \in ToSet(ss)}
<1> DEFINE n == Len(ss)
           f == CHOOSE g : Joining(ss, g)
           Upto(i) == UNION {ToSet(ss[j]) : j \in 1..i}
           Bad == {i \in 1..n : ~(IsSeq(f[i]) /\ ToSet(f[i]) = Upto(i))}
<1>1. n \in Nat /\ \A i \in 1..n : IsSeq(ss[i])
  BY SeqLen
<1>2. CASE n = 0
  <2>1. ss = <<>> /\ FlattenSeq(ss) = ss /\ ToSet(ss) = {}
    BY <1>2 DEF IsSeq, FlattenSeq, ToSet
  <2> QED
    BY <2>1
<1>3. CASE n # 0
  <2>1. FlattenSeq(ss) = f[n]
    BY <1>3 DEF FlattenSeq, Joining
  <2>2. Joining(ss, f)
    BY JoiningExists
  <2> HIDE DEF f
  <2>3. Bad = {}
    <3> SUFFICES ASSUME Bad # {} PROVE FALSE
      OBVIOUS
    <3>1. PICK k \in Nat : k \in Bad /\ (k # 0 => k - 1 \in Nat /\ k - 1 \notin Bad)
      <4>1. Bad \subseteq Nat
        BY <1>1
      <4> HIDE DEF Bad
      <4> QED
        BY <4>1, Earliest
    <3>2. k \in 1..n /\ k # 0 /\ IsSeq(ss[k])
      BY <3>1, <1>1
    <3>3. CASE k = 1
      <4>1. f[k] = ss[k]
        BY <2>2, <3>2, <3>3 DEF Joining
      <4>2. Upto(k) = ToSet(ss[k])
        BY <3>3
      <4> QED
        BY <3>1, <3>2, <4>1, <4>2
    <3>4. CASE k # 1
      <4>1. k - 1 \in 1..n
        BY <3>2, <3>4, <1>1
      <4>2. IsSeq(f[k - 1]) /\ ToSet(f[k - 1]) = Upto(k - 1)
        BY <3>1, <3>2, <4>1
      <4>3. f[k] = f[k - 1] \o ss[k]
        BY <2>2, <3>2, <3>4 DEF Joining
      <4>4. IsSeq(f[k]) /\ ToSet(f[k]) = Upto(k - 1) \union ToSet(ss[k])
        BY <4>2, <4>3, <3>2, SeqConcat
      <4>5. Upto(k) = Upto(k - 1) \union ToSet(ss[k])
        <5>1. 1..k = 1..(k - 1) \union {k}
          BY <3>2, <4>1, <1>1
        <5> QED
          BY <5>1
      <4> QED
        BY <3>1, <4>4, <4>5
    <3> QED
      BY <3>3, <3>4
  <2>4. IsSeq(f[n]) /\ ToSet(f[n]) = Upto(n)
    BY <1>1, <1>3, <2>3
  <2>5. ToSet(ss) = {ss[j] : j \in 1..n}
    BY SeqLen DEF ToSet
  <2>6. Upto(n) = UNION {ToSet(t) : t \in ToSet(ss)}
    BY <2>5
  <2> QED
    BY <2>1, <2>4, <2>6
<1> QED
  BY <1>2, <1>3

(***************************************************************************)
(* The invariant: what is collected is well formed and gated, and lines    *)
(* move down, by no more than was inserted.                                *)
(***************************************************************************)

\* A row of unknowns[] that passed the gates.
Genuine(u) ==
    /\ u = Question(u, u.node, u.provenance)
    /\ u.subject = None \/ SubjectExists(u.subject)
    /\ GateNegativeEntailment(u)

ValidPatch(p) ==
    /\ p.node \in Nodes /\ p.status \in {"complete", "invalid"} /\ p.generation \in Nat
    /\ ValidClaims(p.claims) /\ IsSeq(p.unknowns)
    /\ \A u \in ToSet(p.unknowns) : Genuine(u)

ValidLog(l) == IsSeq(l) /\ \A p \in ToSet(l) : ValidPatch(p)

LogInv == ValidLog(log)

InboxInv == \A a \in inbox : ValidAnswer(a)

TreeInv ==
    /\ tree = [file \in DOMAIN tree |-> tree[file]]
    /\ \A file \in DOMAIN tree : IsText(tree[file])

MovedInv ==
    /\ inserted \in Nat
    /\ moved = [file \in DOMAIN tree |-> moved[file]]
    /\ \A file \in DOMAIN tree :
          /\ moved[file] = [line \in DOMAIN moved[file] |-> moved[file][line]]
          /\ \A line \in DOMAIN moved[file] :
                line \in Nat /\ moved[file][line] \in line..(line + inserted)

ClaimsInv == LogInv /\ InboxInv /\ TreeInv /\ MovedInv

LEMMA ClaimsInit == Init => ClaimsInv
<1> SUFFICES ASSUME Init PROVE ClaimsInv
  OBVIOUS
<1>1. PICK s \in Scenarios : world = s.world /\ tree = s.tree /\ inbox = s.inbox
  BY DEF Init
<1>2. TreeInv /\ InboxInv
  BY <1>1, AnswersAreWellFormed DEF TreeInv, InboxInv
<1>3. LogInv
  <2>1. log \in Seq({})
    BY DEF Init
  <2>2. IsSeq(log) /\ ToSet(log) = {}
    BY <2>1, AnySeq
  <2> QED
    BY <2>2 DEF LogInv, ValidLog
<1>4. MovedInv
  <2>1. moved = [file \in DOMAIN tree |-> [line \in DOMAIN tree[file] |-> line]] /\ inserted = 0
    BY DEF Init
  <2>2. \A file \in DOMAIN tree : DOMAIN tree[file] \subseteq Nat
    BY <1>2, SeqLen DEF TreeInv, IsText
  <2>3. ASSUME NEW file \in DOMAIN tree
        PROVE  /\ moved[file] = [line \in DOMAIN tree[file] |-> line]
               /\ DOMAIN moved[file] = DOMAIN tree[file]
    BY <2>1
  <2>4. ASSUME NEW file \in DOMAIN tree, NEW line \in DOMAIN moved[file]
        PROVE  line \in Nat /\ moved[file][line] \in line..(line + inserted)
    <3>1. line \in Nat /\ moved[file][line] = line
      BY <2>2, <2>3, <2>4
    <3> QED
      BY <3>1, <2>1
  <2>5. moved = [file \in DOMAIN tree |-> moved[file]]
    BY <2>1
  <2> QED
    BY <2>1, <2>3, <2>4, <2>5 DEF MovedInv
<1> QED
  BY <1>2, <1>3, <1>4 DEF ClaimsInv

\* What passes the gates is genuine.
LEMMA GatedIs ==
  ASSUME NEW unknowns, IsSeq(unknowns), NEW node
  PROVE  /\ IsSeq(GatePatchUnknowns(unknowns, node))
         /\ \A u \in ToSet(GatePatchUnknowns(unknowns, node)) : Genuine(u)
<1> DEFINE passing == {u \in ToSet(unknowns) : Passes(u)}
           kept == Where(unknowns, passing)
           rows == [i \in 1..Len(kept) |-> Question(kept[i], node, ProvenanceState(node))]
<1>1. IsSeq(kept) /\ ToSet(kept) = passing
  BY WhereIs
<1>2. DOMAIN kept = 1..Len(kept) /\ Len(kept) \in Nat /\ \A i \in 1..Len(kept) : kept[i] \in passing
  BY <1>1, SeqLen
<1>3. GatePatchUnknowns(unknowns, node) = rows
  BY <1>2 DEF GatePatchUnknowns
<1> HIDE DEF kept
<1>4. IsSeq(rows) /\ ToSet(rows) = {rows[i] : i \in 1..Len(kept)}
  <2>1. rows = [i \in 1..Len(kept) |-> rows[i]]
    OBVIOUS
  <2> QED
    BY <2>1, <1>2, SeqIs DEF ToSet
<1>5. ASSUME NEW i \in 1..Len(kept) PROVE Genuine(rows[i])
  <2>1. Passes(kept[i])
    BY <1>2
  <2>2. rows[i].subject = kept[i].subject /\ rows[i].channel = kept[i].channel
    BY DEF Question
  <2>3. rows[i] = Question(rows[i], rows[i].node, rows[i].provenance)
    BY DEF Question
  <2> HIDE DEF rows
  <2> QED
    BY <2>1, <2>2, <2>3 DEF Passes, Genuine, GateSubjectExists, GateNegativeEntailment
<1> QED
  BY <1>3, <1>4, <1>5

\* The generation of a new patch is a number.
LEMMA FiniteImage ==
  ASSUME NEW S, IsFiniteSet(S), NEW f
  PROVE  IsFiniteSet({f[x] : x \in S})
<1> DEFINE T == {f[x] : x \in S}
           g == [x \in S |-> f[x]]
<1>1. g \in Surjection(S, T)
  BY DEF Surjection
<1> QED
  BY <1>1, FS_Surjection

\* What Max of the community modules chooses.
LEMMA MaxNat ==
  ASSUME NEW T \in SUBSET Nat, T # {}, IsFiniteSet(T)
  PROVE  Max(T) \in T /\ \A y \in T : y <= Max(T)
<1> DEFINE above == [x \in T |-> {y \in T : x < y}]
           K == {Cardinality(above[x]) : x \in T}
<1>1. \A x \in T : IsFiniteSet(above[x]) /\ Cardinality(above[x]) \in Nat
  BY FS_Subset, FS_CardinalityType
<1>2. PICK x \in T : \A y \in T : Cardinality(above[x]) <= Cardinality(above[y])
  <2>1. K \in SUBSET Nat /\ K # {}
    BY <1>1
  <2>2. Min(K) \in K /\ \A k \in K : Min(K) <= k
    BY <2>1, MinNat
  <2>3. PICK x \in T : Cardinality(above[x]) = Min(K)
    BY <2>2
  <2> QED
    BY <2>2, <2>3
<1>3. \A y \in T : y <= x
  <2> SUFFICES ASSUME NEW y \in T, x < y PROVE FALSE
    OBVIOUS
  <2>1. above[y] \in SUBSET above[x] /\ above[x] # above[y]
    <3>1. above[x] = {z \in T : x < z} /\ above[y] = {z \in T : y < z}
      OBVIOUS
    <3>2. y \in above[x] /\ y \notin above[y] /\ \A z \in T : z \in Nat
      BY <3>1
    <3>3. \A z \in above[y] : z \in above[x]
      BY <3>1, <3>2
    <3> QED
      BY <3>2, <3>3
  <2>2. Cardinality(above[y]) < Cardinality(above[x])
    <3>1. Cardinality(above[y]) <= Cardinality(above[x])
      BY <2>1, <1>1, FS_Subset
    <3>2. Cardinality(above[x]) # Cardinality(above[y])
      BY <2>1, <1>1, FS_Subset
    <3> QED
      BY <3>1, <3>2, <1>1
  <2> QED
    BY <2>2, <1>1, <1>2
<1>4. \E z \in T : \A y \in T : z >= y
  BY <1>3
<1> QED
  BY <1>4 DEF Max

\* The complete patches of a node.
Attempts(patches, n) == F!Of(F!Complete(patches), n)

\* best_complete is one of them.
LEMMA BestIs ==
  ASSUME NEW patches, IsFiniteSet(patches), \A p \in patches : p.generation \in Nat, NEW n,
         Attempts(patches, n) # {}
  PROVE  F!Best(patches, n) \in Attempts(patches, n)
<1> DEFINE A == Attempts(patches, n)
           f == [p \in A |-> p.generation]
           T == {f[p] : p \in A}
<1>1. A \subseteq patches
  BY DEF Attempts, F!Of, F!Complete
<1>2. T \subseteq Nat /\ T # {} /\ IsFiniteSet(T)
  <2>1. IsFiniteSet(A)
    BY <1>1, FS_Subset
  <2>2. IsFiniteSet(T)
    BY <2>1, FiniteImage
  <2> QED
    BY <1>1, <2>2
<1>3. PICK p \in A : \A q \in A : f[q] <= f[p]
  <2>1. Max(T) \in T /\ \A t \in T : t <= Max(T)
    BY <1>2, MaxNat
  <2> QED
    BY <2>1
<1>4. \A q \in A : q.generation <= p.generation
  BY <1>3
<1> QED
  BY <1>4 DEF F!Best, Attempts

\* The patches of a log.
LEMMA LogIs ==
  ASSUME LogInv
  PROVE  /\ IsFiniteSet(ToSet(log)) /\ \A p \in ToSet(log) : p.generation \in Nat
  BY SeqFinite DEF LogInv, ValidLog, ValidPatch

LEMMA NextGenerationIs ==
  ASSUME LogInv, NEW n
  PROVE  F!NextGeneration(ToSet(log), n) \in Nat
<1> DEFINE A == F!Of(ToSet(log), n)
           f == [p \in A |-> p.generation]
           T == {f[p] : p \in A}
<1>1. CASE A = {}
  BY <1>1 DEF F!NextGeneration
<1>2. CASE A # {}
  <2>1. A \subseteq ToSet(log)
    BY DEF F!Of
  <2>2. T \subseteq Nat /\ T # {} /\ IsFiniteSet(T)
    <3>1. IsFiniteSet(A)
      BY <2>1, LogIs, FS_Subset
    <3>2. IsFiniteSet(T)
      BY <3>1, FiniteImage
    <3> QED
      BY <2>1, <1>2, <3>2, LogIs
  <2>3. Max(T) \in Nat
    BY <2>2, MaxNat
  <2>4. T = {p.generation : p \in A}
    BY DEF F!Of
  <2>5. F!NextGeneration(ToSet(log), n) = Max({p.generation : p \in A}) + 1
    BY <1>2 DEF F!NextGeneration, F!Max, Max
  <2> HIDE DEF A, T
  <2> QED
    BY <2>3, <2>4, <2>5
<1> QED
  BY <1>1, <1>2

\* The world stays, so what is genuine stays so.
LEMMA StaysGenuine ==
  ASSUME UNCHANGED world, NEW u, Genuine(u)
  PROVE  Genuine(u)'
  BY DEF Genuine, Question, SubjectExists, DefFqns, EdgeSubjects, GateNegativeEntailment, EdgeKeys

LEMMA StaysValid ==
  ASSUME UNCHANGED world, NEW p, ValidPatch(p)
  PROVE  ValidPatch(p)'
  BY StaysGenuine DEF ValidPatch

LEMMA CollectKeeps ==
  ASSUME ClaimsInv, NEW answer, Collect(answer)
  PROVE  ClaimsInv'
<1>1. UNCHANGED <<world, tree, inserted, moved>> /\ answer \in inbox /\ inbox' \subseteq inbox
  BY DEF Collect
<1>2. TreeInv' /\ MovedInv' /\ InboxInv'
  BY <1>1 DEF ClaimsInv, TreeInv, MovedInv, InboxInv, ValidAnswer
<1>3. PICK p : log' = Append(log, p) /\ ValidPatch(p)
  <2>1. ValidAnswer(answer) /\ LogInv
    BY <1>1 DEF ClaimsInv, InboxInv
  <2>2. CASE answer.valid
    <3> DEFINE gated == GatePatchUnknowns(answer.unknowns, answer.node)
               gen == F!NextGeneration(ToSet(log), answer.node)
               p == [node |-> answer.node, run |-> "run", status |-> "complete", generation |-> gen,
                     claims |-> answer.claims, unknowns |-> gated]
    <3>1. log' = Append(log, p)
      BY <2>2 DEF Collect
    <3>2. IsSeq(gated) /\ \A u \in ToSet(gated) : Genuine(u)
      BY <2>1, <2>2, GatedIs DEF ValidAnswer
    <3>3. gen \in Nat
      BY <2>1, NextGenerationIs
    <3> HIDE DEF gated, gen
    <3>4. ValidPatch(p)
      BY <2>1, <2>2, <3>2, <3>3 DEF ValidPatch, ValidAnswer
    <3> QED
      BY <3>1, <3>4
  <2>3. CASE ~answer.valid
    <3> DEFINE p == [node |-> answer.node, run |-> "run", status |-> "invalid", generation |-> 1,
                     claims |-> <<>>, unknowns |-> <<>>]
    <3>1. log' = Append(log, p)
      BY <2>3 DEF Collect
    <3>2. p.claims \in Seq({}) /\ p.unknowns \in Seq({})
      OBVIOUS
    <3>3. p.node \in Nodes /\ p.status = "invalid" /\ p.generation = 1
      BY <2>1 DEF ValidAnswer
    <3> HIDE DEF p
    <3>4. IsSeq(p.claims) /\ ToSet(p.claims) \subseteq {} /\ IsSeq(p.unknowns) /\ ToSet(p.unknowns) \subseteq {}
      BY <3>2, AnySeq
    <3>5. ValidPatch(p)
      BY <3>3, <3>4 DEF ValidPatch, ValidClaims
    <3> QED
      BY <3>1, <3>5
  <2> QED
    BY <2>2, <2>3
<1>4. LogInv'
  <2>1. IsSeq(log') /\ ToSet(log') = ToSet(log) \union {p}
    BY <1>3, SeqAppend DEF ClaimsInv, LogInv, ValidLog
  <2>2. ASSUME NEW q \in ToSet(log') PROVE ValidPatch(q)'
    <3>1. ValidPatch(q)
      BY <2>1, <1>3 DEF ClaimsInv, LogInv, ValidLog
    <3> QED
      BY <3>1, <1>1, StaysValid
  <2> QED
    BY <2>1, <2>2 DEF LogInv, ValidLog
<1> QED
  BY <1>2, <1>4 DEF ClaimsInv

\* A line more is a text again.
LEMMA InsertedIs ==
  ASSUME NEW lines, IsText(lines), NEW n \in 1..(Len(lines) + 1), NEW line, IsSeq(line)
  PROVE  IsText(InsertAt(lines, n, line))
<1> DEFINE S == ToSet(lines) \union {line}
           before == SubSeq(lines, 1, n - 1)
           after == SubSeq(lines, n, Len(lines))
<1>1. lines \in Seq(S) /\ Len(lines) \in Nat
  BY SeqLen DEF IsText, IsSeq
<1>2. before \in Seq(S)
  BY <1>1, SubSeqProperties
<1>3. after \in Seq(S)
  BY <1>1, SubSeqProperties
<1>4. <<line>> \in Seq(S)
  OBVIOUS
<1>5. InsertAt(lines, n, line) = before \o <<line>> \o after
  BY DEF InsertAt
<1> HIDE DEF before, after, S
<1>6. InsertAt(lines, n, line) \in Seq(S)
  BY <1>2, <1>3, <1>4, <1>5
<1>7. \A l \in S : IsSeq(l)
  BY DEF IsText, S
<1> QED
  BY <1>6, <1>7, AnySeq DEF IsText

LEMMA InsertLineKeeps ==
  ASSUME ClaimsInv, NEW file \in DOMAIN tree, NEW n \in 1..(Len(tree[file]) + 1), InsertLine(file, n)
  PROVE  ClaimsInv'
<1>1. /\ UNCHANGED <<world, inbox, log>> /\ inserted' = inserted + 1
      /\ moved' = [moved EXCEPT ![file] =
                      [line \in DOMAIN @ |-> IF n <= @[line] THEN @[line] + 1 ELSE @[line]]]
  BY DEF InsertLine
<1>2. PICK line \in NewLines : tree' = [tree EXCEPT ![file] = InsertAt(@, n, line)]
  BY DEF InsertLine
<1>3. InboxInv' /\ LogInv'
  BY <1>1, StaysValid DEF ClaimsInv, InboxInv, LogInv, ValidLog
<1>4. DOMAIN tree' = DOMAIN tree /\ tree' = [f \in DOMAIN tree' |-> tree'[f]]
      /\ \A f \in DOMAIN tree : tree'[f] = IF f = file THEN InsertAt(tree[file], n, line) ELSE tree[f]
  BY <1>2 DEF ClaimsInv, TreeInv
<1>5. TreeInv'
  <2>1. IsText(InsertAt(tree[file], n, line))
    BY InsertedIs, AnswersAreWellFormed DEF ClaimsInv, TreeInv
  <2>2. \A f \in DOMAIN tree' : IsText(tree'[f])
    BY <1>4, <2>1 DEF ClaimsInv, TreeInv
  <2> QED
    BY <1>4, <2>2 DEF TreeInv
<1>6. MovedInv'
  <2>1. MovedInv /\ n \in Nat
    BY SeqLen DEF ClaimsInv, TreeInv, IsText
  <2> DEFINE shifted == [l \in DOMAIN moved[file] |->
                            IF n <= moved[file][l] THEN moved[file][l] + 1 ELSE moved[file][l]]
  <2>2. DOMAIN moved = DOMAIN tree /\ moved' = [moved EXCEPT ![file] = shifted]
    BY <1>1, <2>1 DEF MovedInv
  <2>3. /\ moved' = [f \in DOMAIN tree |-> moved'[f]] /\ moved'[file] = shifted
        /\ \A f \in DOMAIN tree : f # file => moved'[f] = moved[f]
    BY <2>1, <2>2 DEF MovedInv
  <2>4. \A l \in DOMAIN shifted :
           /\ l \in DOMAIN moved[file]
           /\ shifted[l] = IF n <= moved[file][l] THEN moved[file][l] + 1 ELSE moved[file][l]
    OBVIOUS
  <2>5. shifted = [l \in DOMAIN shifted |-> shifted[l]]
    OBVIOUS
  <2> HIDE DEF shifted
  <2>6. ASSUME NEW l \in DOMAIN shifted
        PROVE  l \in Nat /\ shifted[l] \in l..(l + inserted')
    BY <2>1, <2>4, <1>1 DEF MovedInv
  <2>7. ASSUME NEW f \in DOMAIN tree, f # file, NEW l \in DOMAIN moved[f]
        PROVE  l \in Nat /\ moved[f][l] \in l..(l + inserted')
    BY <2>1, <2>7, <1>1 DEF MovedInv
  <2>8. inserted' \in Nat
    BY <2>1, <1>1 DEF MovedInv
  <2>9. ASSUME NEW f \in DOMAIN tree
        PROVE  /\ moved'[f] = [l \in DOMAIN moved'[f] |-> moved'[f][l]]
               /\ \A l \in DOMAIN moved'[f] : l \in Nat /\ moved'[f][l] \in l..(l + inserted')
    <3>1. CASE f = file
      BY <3>1, <2>3, <2>5, <2>6
    <3>2. CASE f # file
      BY <3>2, <2>1, <2>3, <2>7 DEF MovedInv
    <3> QED
      BY <3>1, <3>2
  <2> QED
    BY <1>4, <2>3, <2>8, <2>9 DEF MovedInv
<1> QED
  BY <1>3, <1>5, <1>6 DEF ClaimsInv

LEMMA ClaimsStep == ClaimsInv /\ [Next]_vars => ClaimsInv'
<1>1. ASSUME ClaimsInv, UNCHANGED vars PROVE ClaimsInv'
  <2>1. UNCHANGED <<world, tree, inserted, moved, inbox, log>>
    BY <1>1 DEF vars
  <2>2. LogInv'
    BY <1>1, <2>1, StaysValid DEF ClaimsInv, LogInv, ValidLog
  <2> QED
    BY <1>1, <2>1, <2>2 DEF ClaimsInv, InboxInv, TreeInv, MovedInv
<1> QED
  BY <1>1, CollectKeeps, InsertLineKeeps DEF Next

(***************************************************************************)
(* cmd_collect appends what is well formed and has passed the gates, and a *)
(* line that is inserted moves no other line up, nor down by more than one:*)
(* in every world, for every order of answers and insertions.              *)
(***************************************************************************)
THEOREM ClaimsInvariant == Spec => []ClaimsInv
  BY ClaimsInit, ClaimsStep, PTL DEF Spec

\* The words of a file, and where a text can begin in it.
LEMMA MatchesAreFinite ==
  ASSUME NEW lines, IsText(lines), NEW needle, IsSeq(needle)
  PROVE  IsFiniteSet(FindMatches(lines, needle))
<1> DEFINE words(n) == [w \in DOMAIN lines[n] |-> [word |-> lines[n][w], line |-> n]]
           ss == [n \in DOMAIN lines |-> words(n)]
           blob == NormalisedIndex(lines)
<1>1. DOMAIN lines = 1..Len(lines) /\ Len(lines) \in Nat /\ \A n \in 1..Len(lines) : IsSeq(lines[n])
  BY SeqLen DEF IsText
<1>2. ASSUME NEW n \in 1..Len(lines) PROVE IsSeq(words(n))
  <2>1. DOMAIN lines[n] = 1..Len(lines[n]) /\ Len(lines[n]) \in Nat
    BY <1>1, SeqLen
  <2>2. words(n) = [w \in 1..Len(lines[n]) |-> words(n)[w]]
    BY <2>1
  <2> QED
    BY <2>1, <2>2, SeqIs
<1>3. IsSeq(ss) /\ \A t \in ToSet(ss) : IsSeq(t)
  <2>1. ss = [n \in 1..Len(lines) |-> ss[n]]
    BY <1>1
  <2>2. \A t \in ToSet(ss) : \E n \in 1..Len(lines) : t = words(n)
    BY <1>1 DEF ToSet
  <2> HIDE DEF words
  <2> QED
    BY <1>1, <1>2, <2>1, <2>2, SeqIs
<1>4. blob = FlattenSeq(ss)
  BY DEF NormalisedIndex
<1>5. IsSeq(blob) /\ Len(blob) \in Nat /\ Len(needle) \in Nat
  <2> HIDE DEF ss
  <2> QED
    BY <1>3, <1>4, FlattenIs, SeqLen
<1> HIDE DEF ss, blob, words
<1> DEFINE all == 1..(Len(blob) - Len(needle) + 1)
           found == {i \in all : \A k \in DOMAIN needle : blob[i + k - 1].word = needle[k]}
           short == {j \in found : blob[j + Len(needle) - 1].line - blob[j].line < MAX_SPAN}
           at == [i \in short |-> blob[i].line]
<1>6. FindMatches(lines, needle) = IF needle = <<>> THEN {} ELSE {at[i] : i \in short}
  BY DEF FindMatches, blob
<1>7. IsFiniteSet(short)
  <2>1. IsFiniteSet(all)
    <3>1. Len(blob) - Len(needle) + 1 \in Int
      BY <1>5
    <3> QED
      BY <3>1, FS_Interval
  <2>2. short \subseteq all
    OBVIOUS
  <2> QED
    BY <2>1, <2>2, FS_Subset
<1> HIDE DEF short, at
<1>8. IsFiniteSet({at[i] : i \in short})
  BY <1>7, FiniteImage
<1> QED
  BY <1>6, <1>8, FS_EmptySet

\* A citation that still verifies follows its text.
LEMMA Follows == ClaimsInv => CitationsFollow
<1> SUFFICES ASSUME ClaimsInv, inserted <= LINE_WINDOW,
                    NEW p \in ToSet(log), NEW c \in ToSet(p.claims), NEW a \in ToSet(c.evidence),
                    a.file \in DOMAIN moved, a.line \in DOMAIN moved[a.file],
                    moved[a.file][a.line] \in FindMatches(Lines(a.file), a.text),
                    Check(a).ok
             PROVE  Check(a).line = moved[a.file][a.line]
  BY DEF CitationsFollow
<1> DEFINE at == moved[a.file][a.line]
           hits == FindMatches(Lines(a.file), a.text)
           near == Near(hits, a.line)
<1>1. IsSeq(a.text) /\ IsText(Lines(a.file))
  <2>1. ValidClaims(p.claims)
    BY DEF ClaimsInv, LogInv, ValidLog, ValidPatch
  <2>2. a.file \in DOMAIN tree
    BY DEF ClaimsInv, MovedInv
  <2> QED
    BY <2>1, <2>2 DEF ValidClaims, ClaimsInv, TreeInv, Lines
<1>2. IsFiniteSet(hits)
  BY <1>1, MatchesAreFinite
<1>3. a.line \in Nat /\ at \in a.line..(a.line + inserted) /\ inserted \in Nat /\ LINE_WINDOW \in Nat
  BY AnchorAssumption DEF ClaimsInv, MovedInv, AnchorAssumption
<1>4. Check(a) = VerifyAt(a, hits, near)
  BY DEF Check, VerifyAnchor
<1> HIDE DEF hits
<1>5. at \in near
  BY <1>3 DEF Near, hits
<1>6. IsFiniteSet(near) /\ Cardinality(near) \in Nat
  BY <1>2, FS_Subset, FS_CardinalityType DEF Near
<1> HIDE DEF near, at
<1>7. ~(Cardinality(near) > 1) /\ Check(a).line = Min(near)
  BY <1>4 DEF VerifyAt
<1>8. near = {at}
  <2>1. Cardinality(near \ {at}) = Cardinality(near) - 1 /\ IsFiniteSet(near \ {at})
    BY <1>5, <1>6, FS_RemoveElement
  <2>2. Cardinality(near \ {at}) \in Nat
    BY <2>1, FS_CardinalityType
  <2>3. Cardinality(near \ {at}) = 0
    BY <1>6, <1>7, <2>1, <2>2
  <2>4. near \ {at} = {}
    BY <2>1, <2>3, FS_EmptySet
  <2> QED
    BY <2>4, <1>5
<1>9. at \in Nat
  BY <1>3 DEF at
<1>10. Min({at}) = at
  BY <1>9, MinNat
<1> QED
  BY <1>7, <1>8, <1>10 DEF at

(***************************************************************************)
(* verify_anchor moves a citation to where its text has gone, as long as   *)
(* no more lines were inserted than its window has, and never to a copy.   *)
(***************************************************************************)
THEOREM CitationsAreFollowed == Spec => []CitationsFollow
  BY ClaimsInvariant, Follows, PTL

(***************************************************************************)
(* The rows of a log.                                                      *)
(***************************************************************************)

\* The sequence f[1], ..., f[n].
LEMMA ListIs ==
  ASSUME NEW s, NEW n \in Nat, s = [i \in 1..n |-> s[i]]
  PROVE  IsSeq(s) /\ ToSet(s) = {s[i] : i \in 1..n} /\ DOMAIN s = 1..n
  BY SeqIs DEF ToSet

LEMMA CompletedIs ==
  ASSUME NEW l, ValidLog(l)
  PROVE  /\ IsSeq(Completed(l)) /\ ToSet(Completed(l)) = F!Complete(ToSet(l))
         /\ \A p \in F!Complete(ToSet(l)) : p \in ToSet(l) /\ p.status = "complete" /\ ValidPatch(p)
<1>1. F!Complete(ToSet(l)) \subseteq ToSet(l) /\ \A p \in F!Complete(ToSet(l)) : p.status = "complete"
  BY DEF F!Complete
<1>2. IsSeq(l)
  BY DEF ValidLog
<1>3. IsSeq(Completed(l)) /\ ToSet(Completed(l)) = ToSet(l) \intersect F!Complete(ToSet(l))
  BY <1>2, WhereIs DEF Completed
<1> QED
  BY <1>1, <1>3 DEF ValidLog

\* Of the patches of a log one is best for each node that has a complete one.
LEMMA LiveIs ==
  ASSUME NEW l, ValidLog(l)
  PROVE  /\ IsSeq(LivePatches(l))
         /\ ToSet(LivePatches(l)) = {F!Best(ToSet(l), p.node) : p \in F!Complete(ToSet(l))}
<1> DEFINE complete == Completed(l)
           n == Len(complete)
           first == {i \in DOMAIN complete : \A j \in 1..(i - 1) : complete[j].node # complete[i].node}
           all == [i \in DOMAIN complete |-> i]
           order == Where(all, first)
           live == [k \in DOMAIN order |-> F!Best(ToSet(l), complete[order[k]].node)]
<1>1. /\ ToSet(complete) = F!Complete(ToSet(l)) /\ DOMAIN complete = 1..n /\ n \in Nat
      /\ \A i \in 1..n : complete[i] \in ToSet(complete)
      /\ \A p \in ToSet(complete) : \E i \in 1..n : p = complete[i]
  BY CompletedIs, SeqLen
<1>2. LivePatches(l) = live
  BY DEF LivePatches
<1> HIDE DEF complete
<1>3. IsSeq(all) /\ ToSet(all) = 1..n
  <2>1. all = [i \in 1..n |-> all[i]]
    BY <1>1
  <2>2. IsSeq(all) /\ ToSet(all) = {all[i] : i \in 1..n}
    BY <1>1, <2>1, ListIs
  <2>3. {all[i] : i \in 1..n} = 1..n
    BY <1>1
  <2> QED
    BY <2>2, <2>3
<1>4. first \subseteq 1..n
  BY <1>1
<1> HIDE DEF all
<1>5. IsSeq(order) /\ ToSet(order) = first
  <2> HIDE DEF first
  <2>1. IsSeq(order) /\ ToSet(order) = ToSet(all) \intersect first
    BY <1>3, WhereIs
  <2> QED
    BY <2>1, <1>3, <1>4
<1> HIDE DEF order
<1>6. /\ DOMAIN order = 1..Len(order) /\ Len(order) \in Nat
      /\ \A k \in 1..Len(order) : order[k] \in first
      /\ \A i \in first : \E k \in 1..Len(order) : i = order[k]
  BY <1>5, SeqLen
<1>7. IsSeq(live) /\ ToSet(live) = {live[k] : k \in 1..Len(order)}
  <2>1. live = [k \in 1..Len(order) |-> live[k]]
    BY <1>6
  <2> HIDE DEF live
  <2> QED
    BY <1>6, <2>1, SeqIs DEF ToSet
<1>8. ASSUME NEW k \in 1..Len(order)
      PROVE  live[k] \in {F!Best(ToSet(l), p.node) : p \in F!Complete(ToSet(l))}
  BY <1>1, <1>4, <1>6
<1>9. ASSUME NEW p \in F!Complete(ToSet(l))
      PROVE  \E k \in 1..Len(order) : live[k] = F!Best(ToSet(l), p.node)
  <2> DEFINE I == {i \in 1..n : complete[i].node = p.node}
  <2>1. I \subseteq Nat /\ I # {}
    BY <1>1
  <2>2. PICK i \in I : \A j \in I : i <= j
    <3> HIDE DEF I
    <3> QED
      BY <2>1, MinNat
  <2>3. i \in first
    <3>1. i \in DOMAIN complete /\ i \in Nat
      BY <1>1
    <3>2. \A j \in 1..(i - 1) : j \in 1..n /\ ~(i <= j)
      BY <1>1
    <3>3. \A j \in 1..(i - 1) : complete[j].node # complete[i].node
      BY <2>2, <3>2
    <3> QED
      BY <3>1, <3>3
  <2>4. PICK k \in 1..Len(order) : i = order[k]
    BY <2>3, <1>6
  <2>5. live[k] = F!Best(ToSet(l), complete[i].node)
    BY <2>4, <1>6
  <2> QED
    BY <2>5, <2>2
<1> HIDE DEF live
<1> QED
  BY <1>2, <1>7, <1>8, <1>9

\* The patch that is live for a node.
LEMMA LiveOf ==
  ASSUME NEW l, ValidLog(l), NEW p \in ToSet(LivePatches(l))
  PROVE  /\ p \in ToSet(l) /\ p \in F!Complete(ToSet(l)) /\ ValidPatch(p)
         /\ p = F!Best(ToSet(l), p.node)
<1>1. PICK q \in F!Complete(ToSet(l)) : p = F!Best(ToSet(l), q.node)
  BY LiveIs
<1>2. IsFiniteSet(ToSet(l)) /\ \A r \in ToSet(l) : r.generation \in Nat
  BY SeqFinite DEF ValidLog, ValidPatch
<1>3. q \in Attempts(ToSet(l), q.node)
  BY DEF Attempts, F!Of, F!Complete
<1>4. p \in Attempts(ToSet(l), q.node)
  BY <1>1, <1>2, <1>3, BestIs
<1>5. p.node = q.node /\ p \in F!Complete(ToSet(l)) /\ p \in ToSet(l)
  BY <1>4 DEF Attempts, F!Of, F!Complete
<1> QED
  BY <1>1, <1>5 DEF ValidLog

\* Every node with a complete patch has a live one.
LEMMA LiveExists ==
  ASSUME NEW l, ValidLog(l), NEW q \in F!Complete(ToSet(l))
  PROVE  \E p \in ToSet(LivePatches(l)) : p.node = q.node
<1>1. F!Best(ToSet(l), q.node) \in ToSet(LivePatches(l))
  BY LiveIs
<1>2. IsFiniteSet(ToSet(l)) /\ \A r \in ToSet(l) : r.generation \in Nat
  BY SeqFinite DEF ValidLog, ValidPatch
<1>3. q \in Attempts(ToSet(l), q.node)
  BY DEF Attempts, F!Of, F!Complete
<1>4. F!Best(ToSet(l), q.node) \in Attempts(ToSet(l), q.node)
  BY <1>2, <1>3, BestIs
<1> QED
  BY <1>1, <1>4 DEF Attempts, F!Of

LEMMA ClaimedIs ==
  ASSUME NEW p, IsSeq(p.claims)
  PROVE  IsSeq(Claimed(p)) /\ ToSet(Claimed(p)) = {Kept(c, p.node) : c \in Surviving(p)}
<1> DEFINE kept == Where(p.claims, Surviving(p))
           rows == [i \in DOMAIN kept |-> Kept(kept[i], p.node)]
<1>1. Claimed(p) = rows
  BY DEF Claimed
<1>2. IsSeq(kept) /\ ToSet(kept) = Surviving(p)
  <2>1. Surviving(p) \subseteq ToSet(p.claims)
    BY DEF Surviving
  <2> QED
    BY <2>1, WhereIs
<1> HIDE DEF kept
<1>3. /\ DOMAIN kept = 1..Len(kept) /\ Len(kept) \in Nat
      /\ \A i \in 1..Len(kept) : kept[i] \in Surviving(p)
      /\ \A c \in Surviving(p) : \E i \in 1..Len(kept) : c = kept[i]
  BY <1>2, SeqLen
<1>4. rows = [i \in 1..Len(kept) |-> rows[i]] /\ \A i \in 1..Len(kept) : rows[i] = Kept(kept[i], p.node)
  BY <1>3
<1> HIDE DEF rows
<1>5. IsSeq(rows) /\ ToSet(rows) = {rows[i] : i \in 1..Len(kept)}
  BY <1>3, <1>4, SeqIs DEF ToSet
<1>6. {rows[i] : i \in 1..Len(kept)} = {Kept(c, p.node) : c \in Surviving(p)}
  <2>1. ASSUME NEW i \in 1..Len(kept) PROVE rows[i] \in {Kept(c, p.node) : c \in Surviving(p)}
    BY <1>3, <1>4
  <2>2. ASSUME NEW c \in Surviving(p) PROVE \E i \in 1..Len(kept) : rows[i] = Kept(c, p.node)
    BY <1>3, <1>4
  <2> QED
    BY <2>1, <2>2
<1> QED
  BY <1>1, <1>5, <1>6

\* The rows are the surviving claims of the live patches.
LEMMA RowsAre ==
  ASSUME NEW l, ValidLog(l)
  PROVE  /\ IsSeq(Rows(l))
         /\ ToSet(Rows(l)) =
              UNION {{Kept(c, p.node) : c \in Surviving(p)} : p \in ToSet(LivePatches(l))}
<1> DEFINE live == LivePatches(l)
           ss == [k \in DOMAIN live |-> Claimed(live[k])]
<1>1. Rows(l) = FlattenSeq(ss)
  BY DEF Rows
<1>2. /\ DOMAIN live = 1..Len(live) /\ Len(live) \in Nat
      /\ \A k \in 1..Len(live) : live[k] \in ToSet(live)
      /\ \A p \in ToSet(live) : \E k \in 1..Len(live) : p = live[k]
  BY LiveIs, SeqLen
<1>3. \A p \in ToSet(live) : IsSeq(p.claims)
  BY LiveOf DEF ValidPatch, ValidClaims
<1> HIDE DEF live
<1>4. ss = [k \in 1..Len(live) |-> ss[k]] /\ \A k \in 1..Len(live) : ss[k] = Claimed(live[k])
  BY <1>2
<1> HIDE DEF ss
<1>5. IsSeq(ss) /\ ToSet(ss) = {ss[k] : k \in 1..Len(live)}
  BY <1>2, <1>4, SeqIs DEF ToSet
<1>6. ToSet(ss) = {Claimed(p) : p \in ToSet(live)}
  <2>1. ASSUME NEW k \in 1..Len(live) PROVE ss[k] \in {Claimed(p) : p \in ToSet(live)}
    BY <1>2, <1>4
  <2>2. ASSUME NEW p \in ToSet(live) PROVE \E k \in 1..Len(live) : ss[k] = Claimed(p)
    BY <1>2, <1>4
  <2> QED
    BY <1>5, <2>1, <2>2
<1>7. \A p \in ToSet(live) : IsSeq(Claimed(p)) /\ ToSet(Claimed(p)) = {Kept(c, p.node) : c \in Surviving(p)}
  BY <1>3, ClaimedIs
<1>8. /\ IsSeq(FlattenSeq(ss))
      /\ ToSet(FlattenSeq(ss)) = UNION {ToSet(t) : t \in ToSet(ss)}
  BY <1>5, <1>6, <1>7, FlattenIs
<1>9. {ToSet(t) : t \in ToSet(ss)} = {{Kept(c, p.node) : c \in Surviving(p)} : p \in ToSet(live)}
  <2> DEFINE kept(p) == {Kept(c, p.node) : c \in Surviving(p)}
  <2>1. \A p \in ToSet(live) : ToSet(Claimed(p)) = kept(p)
    BY <1>7
  <2> HIDE DEF kept
  <2>2. {ToSet(t) : t \in ToSet(ss)} = {kept(p) : p \in ToSet(live)}
    BY <1>6, <2>1
  <2> QED
    BY <2>2 DEF kept
<1> QED
  BY <1>1, <1>8, <1>9 DEF live

\* Each row comes from a live patch, and rows are told apart by node and id.
LEMMA RowKeys ==
  ASSUME NEW l, ValidLog(l)
  PROVE  /\ \A r \in ToSet(Rows(l)) : r.node \in Nat /\ r.id \in Nat /\ r.kind \in Nat
         /\ \A r, s \in ToSet(Rows(l)) : r.node = s.node /\ r.id = s.id => r = s
<1>1. ASSUME NEW r \in ToSet(Rows(l))
      PROVE  \E p \in ToSet(LivePatches(l)) : \E c \in Surviving(p) : r = Kept(c, p.node)
  BY RowsAre
<1>2. ASSUME NEW p \in ToSet(LivePatches(l)), NEW c \in Surviving(p), NEW r, r = Kept(c, p.node)
      PROVE  /\ r.node = p.node /\ r.id = c.id /\ r.kind = c.kind
             /\ p.node \in Nat /\ c.id \in Nat /\ c.kind \in Nat
  <2>1. ValidPatch(p) /\ c \in ToSet(p.claims)
    BY LiveOf DEF Surviving
  <2>2. p.node \in Nat /\ c.id \in Nat /\ c.kind \in Nat
    BY <2>1, ClaimsAssumption DEF ValidPatch, ValidClaims, ClaimsAssumption
  <2> QED
    BY <1>2, <2>2 DEF Kept
<1>3. ASSUME NEW r \in ToSet(Rows(l)), NEW s \in ToSet(Rows(l)), r.node = s.node, r.id = s.id
      PROVE  r = s
  <2>1. PICK p \in ToSet(LivePatches(l)) : \E c \in Surviving(p) : r = Kept(c, p.node)
    BY <1>1
  <2>11. PICK c \in Surviving(p) : r = Kept(c, p.node)
    BY <2>1
  <2>2. PICK q \in ToSet(LivePatches(l)) : \E d \in Surviving(q) : s = Kept(d, q.node)
    BY <1>1
  <2>22. PICK d \in Surviving(q) : s = Kept(d, q.node)
    BY <2>2
  <2>3. p.node = q.node /\ c.id = d.id
    BY <1>2, <1>3, <2>11, <2>22
  <2>4. p = q /\ ValidPatch(p)
    <3>1. p = F!Best(ToSet(l), p.node) /\ q = F!Best(ToSet(l), q.node) /\ ValidPatch(p)
      BY LiveOf
    <3> QED
      BY <3>1, <2>3
  <2>5. c \in ToSet(p.claims) /\ d \in ToSet(p.claims)
    BY <2>4 DEF Surviving
  <2>6. c = d
    BY <2>3, <2>4, <2>5 DEF ValidPatch, ValidClaims
  <2> QED
    BY <2>11, <2>22, <2>4, <2>6
<1> QED
  BY <1>1, <1>2, <1>3

(***************************************************************************)
(* The merge operator, on rows that are told apart by node and id.         *)
(***************************************************************************)

Keyed(rows) ==
    /\ \A r \in rows : r.node \in Nat /\ r.id \in Nat /\ r.kind \in Nat
    /\ \A r, s \in rows : r.node = s.node /\ r.id = s.id => r = s

\* Some row comes before all others.
LEMMA SomeFirst ==
  ASSUME NEW S, S # {}, Keyed(S)
  PROVE  \E r \in S : \A s \in S : ~ClaimBefore(s, r)
<1> DEFINE node == [r \in S |-> r.node]
           ns == {node[r] : r \in S}
<1>1. ns \subseteq Nat /\ ns # {}
  BY DEF Keyed
<1>2. PICK r \in S : \A s \in S : r.node <= s.node
  <2>1. Min(ns) \in ns /\ \A k \in ns : Min(ns) <= k
    <3> HIDE DEF ns
    <3> QED
      BY <1>1, MinNat
  <2> QED
    BY <2>1
<1> DEFINE same == {s \in S : s.node = r.node}
           id == [s \in same |-> s.id]
           ids == {id[s] : s \in same}
<1>3. ids \subseteq Nat /\ ids # {}
  BY DEF Keyed
<1>4. PICK t \in same : \A s \in same : t.id <= s.id
  <2>1. Min(ids) \in ids /\ \A k \in ids : Min(ids) <= k
    <3> HIDE DEF ids
    <3> QED
      BY <1>3, MinNat
  <2> QED
    BY <2>1
<1>5. ASSUME NEW s \in S, ClaimBefore(s, t) PROVE FALSE
  <2>1. s.node \in Nat /\ s.id \in Nat /\ t.node \in Nat /\ t.id \in Nat /\ t.node = r.node /\ t.node <= s.node
    BY <1>2 DEF Keyed
  <2>2. s.node = t.node => t.id <= s.id
    BY <1>4
  <2> QED
    BY <1>5, <2>1, <2>2 DEF ClaimBefore
<1> QED
  BY <1>5

\* First is the row before all others, whatever order the rows are in.
LEMMA FirstIs ==
  ASSUME NEW rows, IsSeq(rows), ToSet(rows) # {}, Keyed(ToSet(rows))
  PROVE  First(rows) \in ToSet(rows) /\ \A s \in ToSet(rows) : ~ClaimBefore(s, First(rows))
<1> DEFINE I == {i \in DOMAIN rows : \A j \in DOMAIN rows : ~ClaimBefore(rows[j], rows[i])}
<1>1. /\ DOMAIN rows \subseteq Nat
      /\ \A i \in DOMAIN rows : rows[i] \in ToSet(rows)
      /\ \A x \in ToSet(rows) : \E i \in DOMAIN rows : x = rows[i]
  BY SeqLen DEF ToSet
<1>2. I \subseteq Nat /\ I # {}
  <2>1. PICK r \in ToSet(rows) : \A s \in ToSet(rows) : ~ClaimBefore(s, r)
    BY SomeFirst
  <2>2. PICK i \in DOMAIN rows : r = rows[i]
    BY <1>1
  <2>3. i \in I
    BY <1>1, <2>1, <2>2
  <2> QED
    BY <1>1, <2>3
<1>3. Min(I) \in I
  <2> HIDE DEF I
  <2> QED
    BY <1>2, MinNat
<1>4. First(rows) = rows[Min(I)]
  BY DEF First
<1> QED
  BY <1>1, <1>3, <1>4

LEMMA SameFirst ==
  ASSUME NEW r1, IsSeq(r1), NEW r2, IsSeq(r2), ToSet(r1) = ToSet(r2), ToSet(r1) # {}, Keyed(ToSet(r1))
  PROVE  First(r1) = First(r2)
<1> DEFINE a == First(r1)
           b == First(r2)
<1>1. a \in ToSet(r1) /\ b \in ToSet(r1) /\ ~ClaimBefore(a, b) /\ ~ClaimBefore(b, a)
  BY FirstIs
<1> HIDE DEF a, b
<1>2. a.node \in Nat /\ b.node \in Nat /\ a.id \in Nat /\ b.id \in Nat
  BY <1>1 DEF Keyed
<1>3. a.node = b.node /\ a.id = b.id
  BY <1>1, <1>2 DEF ClaimBefore
<1>4. a = b
  BY <1>1, <1>3 DEF Keyed
<1> QED
  BY <1>4 DEF a, b

LEMMA GroupIs ==
  ASSUME NEW rows, IsSeq(rows), NEW g
  PROVE  /\ IsSeq(GroupOf(rows, g))
         /\ ToSet(GroupOf(rows, g)) = {c \in ToSet(rows) : <<c.subject, c.kind>> = g}
<1> DEFINE T == {c \in ToSet(rows) : <<c.subject, c.kind>> = g}
<1>1. GroupOf(rows, g) = Where(rows, T)
  BY DEF GroupOf
<1>2. T \subseteq ToSet(rows)
  OBVIOUS
<1> HIDE DEF T
<1>3. IsSeq(GroupOf(rows, g)) /\ ToSet(GroupOf(rows, g)) = T
  BY <1>1, <1>2, WhereIs
<1> QED
  BY <1>3 DEF T

\* Some signature of the group wins.
LEMMA WinnersAre ==
  ASSUME NEW subject, NEW group, group # {}
  PROVE  /\ Resolve(subject, group).winners \subseteq {Signature(c) : c \in group}
         /\ Resolve(subject, group).winners # {}
<1> DEFINE sigs == {Signature(c) : c \in group}
           By(sig) == {c \in group : Signature(c) = sig}
           owning == {s \in sigs : ClaimModules(By(s)) \intersect world.owners[subject] # {}}
           leaders == {s \in sigs : \A t \in sigs :
                       Cardinality(DistinctAnchors(By(t))) <= Cardinality(DistinctAnchors(By(s)))}
           w == CASE Cardinality(owning) = 1 -> [by |-> "ownership", winners |-> owning]
                  [] Cardinality(owning) # 1 /\ Cardinality(leaders) = 1 -> [by |-> "evidence", winners |-> leaders]
                  [] OTHER -> [by |-> IF Comparable(leaders) THEN "contested" ELSE "raises", winners |-> sigs]
<1>1. Resolve(subject, group) = w
  BY Zenon DEF Resolve
<1>2. owning \subseteq sigs /\ leaders \subseteq sigs /\ sigs # {}
  OBVIOUS
<1>3. Cardinality({}) = 0
  BY FS_EmptySet
<1> HIDE DEF owning, leaders, sigs
<1>4. w.winners \subseteq sigs /\ w.winners # {}
  BY <1>2, <1>3
<1> HIDE DEF w
<1> QED
  BY <1>1, <1>4 DEF sigs

LEMMA WinningIs ==
  ASSUME NEW rows, IsSeq(rows), NEW g \in Groups(rows)
  PROVE  /\ IsSeq(Winning(rows, g))
         /\ ToSet(Winning(rows, g)) =
              {c \in ToSet(GroupOf(rows, g)) : Signature(c) \in ResolvedBy(rows, g).winners}
         /\ ToSet(Winning(rows, g)) # {}
<1> DEFINE T == {c \in ToSet(rows) : Signature(c) \in ResolvedBy(rows, g).winners}
           group == ToSet(GroupOf(rows, g))
<1>1. group \subseteq ToSet(rows) /\ group # {} /\ IsSeq(GroupOf(rows, g))
  BY GroupIs DEF Groups
<1>2. Winning(rows, g) = Where(GroupOf(rows, g), T)
  BY DEF Winning
<1>3. IsSeq(Winning(rows, g)) /\ ToSet(Winning(rows, g)) = group \intersect T
  <2> HIDE DEF T
  <2> QED
    BY <1>1, <1>2, WhereIs
<1>4. group \intersect T = {c \in group : Signature(c) \in ResolvedBy(rows, g).winners}
  BY <1>1
<1>5. {c \in group : Signature(c) \in ResolvedBy(rows, g).winners} # {}
  <2>1. ResolvedBy(rows, g) = Resolve(g[1], group)
    BY DEF ResolvedBy
  <2> DEFINE winners == ResolvedBy(rows, g).winners
  <2>2. winners \subseteq {Signature(c) : c \in group} /\ winners # {}
    <3> HIDE DEF group
    <3> QED
      BY <1>1, <2>1, WinnersAre
  <2> QED
    BY <2>2
<1> QED
  BY <1>3, <1>4, <1>5

\* Rows merge to one claim for each subject and kind, which keeps them.
LEMMA MergedIs ==
  ASSUME NEW rows, IsSeq(rows), Keyed(ToSet(rows)), NEW g \in Groups(rows)
  PROVE  \E part, confidence :
            /\ MergedClaim(rows, g) = Union(part, confidence)
            /\ IsSeq(part) /\ ToSet(part) \subseteq ToSet(GroupOf(rows, g)) /\ ToSet(part) # {}
            /\ Unanimous(rows, g) => part = GroupOf(rows, g)
<1>1. IsSeq(GroupOf(rows, g)) /\ ToSet(GroupOf(rows, g)) # {}
  BY GroupIs DEF Groups
<1>2. IsSeq(Winning(rows, g)) /\ ToSet(Winning(rows, g)) # {}
      /\ ToSet(Winning(rows, g)) \subseteq ToSet(GroupOf(rows, g))
  BY WinningIs
<1>3. CASE Unanimous(rows, g)
  BY <1>1, <1>3 DEF MergedClaim
<1>4. CASE ~Unanimous(rows, g) /\ ResolvedBy(rows, g).by = "contested"
  BY <1>1, <1>4 DEF MergedClaim
<1>5. CASE ~Unanimous(rows, g) /\ ResolvedBy(rows, g).by # "contested"
  BY <1>2, <1>5 DEF MergedClaim
<1> QED
  BY <1>3, <1>4, <1>5

\* The merged claim is about the subject and kind of its group.
LEMMA MergedKeys ==
  ASSUME NEW rows, IsSeq(rows), Keyed(ToSet(rows)), NEW g \in Groups(rows)
  PROVE  /\ <<MergedClaim(rows, g).subject, MergedClaim(rows, g).kind>> = g
         /\ MergedClaim(rows, g).kind \in Nat /\ MergedClaim(rows, g).id \in Nat
<1>1. PICK part, confidence :
            /\ MergedClaim(rows, g) = Union(part, confidence)
            /\ IsSeq(part) /\ ToSet(part) \subseteq ToSet(GroupOf(rows, g)) /\ ToSet(part) # {}
  BY MergedIs
<1>2. ToSet(GroupOf(rows, g)) = {c \in ToSet(rows) : <<c.subject, c.kind>> = g}
  BY GroupIs
<1>3. Keyed(ToSet(part))
  BY <1>1, <1>2 DEF Keyed
<1>4. First(part) \in ToSet(part)
  BY <1>1, <1>3, FirstIs
<1>5. <<First(part).subject, First(part).kind>> = g /\ First(part).kind \in Nat /\ First(part).id \in Nat
  BY <1>1, <1>2, <1>3, <1>4 DEF Keyed
<1>6. /\ MergedClaim(rows, g).subject = First(part).subject /\ MergedClaim(rows, g).kind = First(part).kind
      /\ MergedClaim(rows, g).id = First(part).id
  BY <1>1 DEF Union, UnionAround
<1> QED
  BY <1>5, <1>6

\* Entailment sets the verdict and the confidence.
LEMMA EntailIs ==
  ASSUME NEW rows, IsSeq(rows), Keyed(ToSet(rows)), NEW g \in Groups(rows)
  PROVE  LET c == MergedClaim(rows, g)
             e == Entail(c)
         IN  /\ e.subject = c.subject /\ e.kind = c.kind /\ e.id = c.id
             /\ e.channel = c.channel /\ e.nodes = c.nodes /\ e.statements = c.statements
             /\ e.verdict \in {"entailed", "contradicted", "consistent"}
             /\ e.verdict = "entailed" => c.channel # None /\ <<c.subject, c.channel>> \in EdgeKeys
<1> DEFINE c == MergedClaim(rows, g)
           verdict == CASE c.channel # None /\ <<c.subject, c.channel>> \in EdgeKeys -> "entailed"
                     [] /\ c.channel # None => <<c.subject, c.channel>> \notin EdgeKeys
                        /\ c.subject \in DefFqns
                        /\ c.visibility \notin {None, world.defs[c.subject]} -> "contradicted"
                     [] OTHER -> "consistent"
           level == IF verdict = "contradicted" /\ c.author = "human" THEN "contested" ELSE c.confidence
           e == [c EXCEPT !.verdict = verdict, !.confidence = level]
<1>1. PICK part, confidence : c = Union(part, confidence)
  BY MergedIs
<1> HIDE DEF c
<1>2. Entail(c) = e
  BY Zenon DEF Entail
<1>3. verdict \in {"entailed", "contradicted", "consistent"}
      /\ (verdict = "entailed" => c.channel # None /\ <<c.subject, c.channel>> \in EdgeKeys)
  OBVIOUS
<1> HIDE DEF verdict, level
<1>4. e.subject = c.subject /\ e.kind = c.kind /\ e.id = c.id /\ e.channel = c.channel
      /\ e.nodes = c.nodes /\ e.statements = c.statements /\ e.verdict = verdict
  BY <1>1 DEF Union, UnionAround
<1> HIDE DEF e
<1> QED
  BY <1>2, <1>3, <1>4 DEF c

(***************************************************************************)
(* Which order the log has makes no difference.                            *)
(***************************************************************************)

LEMMA SameGroups ==
  ASSUME NEW r1, IsSeq(r1), NEW r2, IsSeq(r2), ToSet(r1) = ToSet(r2), Keyed(ToSet(r1)), NEW g
  PROVE  /\ ToSet(GroupOf(r1, g)) = ToSet(GroupOf(r2, g)) /\ Keyed(ToSet(GroupOf(r1, g)))
         /\ Unanimous(r1, g) = Unanimous(r2, g)
         /\ ResolvedBy(r1, g) = ResolvedBy(r2, g)
         /\ ConflictRecord(r1, g) = ConflictRecord(r2, g)
<1>1. ToSet(GroupOf(r1, g)) = ToSet(GroupOf(r2, g)) /\ Keyed(ToSet(GroupOf(r1, g)))
  <2>1. /\ ToSet(GroupOf(r1, g)) = {c \in ToSet(r1) : <<c.subject, c.kind>> = g}
        /\ ToSet(GroupOf(r2, g)) = {c \in ToSet(r2) : <<c.subject, c.kind>> = g}
    BY GroupIs
  <2> QED
    BY <2>1 DEF Keyed
<1>2. Unanimous(r1, g) = Unanimous(r2, g) /\ ResolvedBy(r1, g) = ResolvedBy(r2, g)
  BY <1>1 DEF Unanimous, ResolvedBy
<1>3. ConflictRecord(r1, g) = ConflictRecord(r2, g)
  BY <1>1, <1>2 DEF ConflictRecord
<1> QED
  BY <1>1, <1>2, <1>3

LEMMA SameUnion ==
  ASSUME NEW r1, IsSeq(r1), NEW r2, IsSeq(r2), ToSet(r1) = ToSet(r2), ToSet(r1) # {}, Keyed(ToSet(r1)),
         NEW confidence
  PROVE  Union(r1, confidence) = Union(r2, confidence) /\ Highest(r1) = Highest(r2)
  BY SameFirst DEF Union, UnionAround, Highest

LEMMA SameMerged ==
  ASSUME NEW r1, IsSeq(r1), NEW r2, IsSeq(r2), ToSet(r1) = ToSet(r2), Keyed(ToSet(r1)), NEW g \in Groups(r1)
  PROVE  MergedClaim(r1, g) = MergedClaim(r2, g)
<1> DEFINE g1 == GroupOf(r1, g)
           g2 == GroupOf(r2, g)
           w1 == Winning(r1, g)
           w2 == Winning(r2, g)
<1>1. g \in Groups(r2)
  BY DEF Groups
<1>2. IsSeq(g1) /\ IsSeq(g2) /\ ToSet(g1) = ToSet(g2) /\ ToSet(g1) # {} /\ Keyed(ToSet(g1))
  <2>1. ToSet(g1) # {}
    BY GroupIs DEF Groups
  <2> QED
    BY <2>1, GroupIs, SameGroups
<1>3. Unanimous(r1, g) = Unanimous(r2, g) /\ ResolvedBy(r1, g) = ResolvedBy(r2, g)
  BY SameGroups
<1>4. IsSeq(w1) /\ IsSeq(w2) /\ ToSet(w1) = ToSet(w2) /\ ToSet(w1) # {} /\ Keyed(ToSet(w1))
  <2>1. /\ IsSeq(w1) /\ ToSet(w1) = {c \in ToSet(g1) : Signature(c) \in ResolvedBy(r1, g).winners}
        /\ ToSet(w1) # {}
    BY WinningIs
  <2>2. IsSeq(w2) /\ ToSet(w2) = {c \in ToSet(g2) : Signature(c) \in ResolvedBy(r2, g).winners}
    BY <1>1, WinningIs
  <2>3. ToSet(w1) = ToSet(w2)
    BY <2>1, <2>2, <1>2, <1>3
  <2>4. Keyed(ToSet(w1))
    BY <2>1, <1>2 DEF Keyed
  <2> QED
    BY <2>1, <2>2, <2>3, <2>4
<1> HIDE DEF g1, g2, w1, w2
<1>5. Highest(g1) = Highest(g2) /\ \A k : Union(g1, k) = Union(g2, k)
  BY <1>2, SameUnion
<1>6. Highest(w1) = Highest(w2) /\ \A k : Union(w1, k) = Union(w2, k)
  BY <1>4, SameUnion
<1>7. /\ MergedClaim(r1, g) = IF Unanimous(r1, g) THEN Union(g1, Highest(g1))
                              ELSE IF ResolvedBy(r1, g).by = "contested" THEN Union(g1, "contested")
                              ELSE Union(w1, Highest(w1))
      /\ MergedClaim(r2, g) = IF Unanimous(r2, g) THEN Union(g2, Highest(g2))
                              ELSE IF ResolvedBy(r2, g).by = "contested" THEN Union(g2, "contested")
                              ELSE Union(w2, Highest(w2))
  BY Zenon DEF MergedClaim, g1, g2, w1, w2
<1> QED
  BY <1>3, <1>5, <1>6, <1>7

\* Claims and conflicts are a function of the set of the rows.
LEMMA SameDecision ==
  ASSUME NEW r1, IsSeq(r1), NEW r2, IsSeq(r2), ToSet(r1) = ToSet(r2), Keyed(ToSet(r1)), NEW u1, NEW u2
  PROVE  Decided(StateOf(r1, u1)) = Decided(StateOf(r2, u2))
<1>1. Groups(r1) = Groups(r2)
  BY DEF Groups
<1>2. ASSUME NEW g
      PROVE  Unanimous(r1, g) = Unanimous(r2, g) /\ ResolvedBy(r1, g) = ResolvedBy(r2, g)
             /\ ConflictRecord(r1, g) = ConflictRecord(r2, g)
  BY SameGroups
<1>3. Raises(r1) = Raises(r2)
  BY <1>1, <1>2 DEF Raises
<1>4. Conflicts(r1) = Conflicts(r2)
  BY <1>1, <1>2 DEF Conflicts
<1>5. Merged(r1) = Merged(r2)
  <2>1. \A g \in Groups(r1) : MergedClaim(r1, g) = MergedClaim(r2, g)
    BY SameMerged
  <2> QED
    BY <1>1, <2>1 DEF Merged
<1> QED
  BY <1>3, <1>4, <1>5 DEF StateOf, Decided

\* Two logs of the same patches have the same rows.
LEMMA SameRows ==
  ASSUME NEW l1, ValidLog(l1), NEW l2, IsSeq(l2), ToSet(l1) = ToSet(l2)
  PROVE  ValidLog(l2) /\ ToSet(Rows(l1)) = ToSet(Rows(l2))
<1>1. ValidLog(l2)
  BY DEF ValidLog
<1>2. ToSet(LivePatches(l1)) = ToSet(LivePatches(l2))
  BY <1>1, LiveIs
<1> QED
  BY <1>1, <1>2, RowsAre

\* A log in another order.
LEMMA Reordered ==
  ASSUME IsSeq(log), NEW order \in Bijection(DOMAIN log, DOMAIN log)
  PROVE  /\ IsSeq([i \in DOMAIN log |-> log[order[i]]])
         /\ ToSet([i \in DOMAIN log |-> log[order[i]]]) = ToSet(log)
<1> DEFINE l == [i \in DOMAIN log |-> log[order[i]]]
<1>1. DOMAIN log = 1..Len(log) /\ Len(log) \in Nat
  BY SeqLen
<1>2. order \in [DOMAIN log -> DOMAIN log] /\ \A w \in DOMAIN log : \E v \in DOMAIN log : order[v] = w
  BY DEF Bijection, Surjection, Injection
<1>3. IsSeq(l)
  <2>1. l = [i \in 1..Len(log) |-> l[i]]
    BY <1>1
  <2> HIDE DEF l
  <2> QED
    BY <1>1, <2>1, SeqIs
<1>4. ToSet(l) = ToSet(log)
  BY <1>2 DEF ToSet
<1> QED
  BY <1>3, <1>4

LEMMA Independent == ClaimsInv => OrderIndependent
<1> SUFFICES ASSUME ClaimsInv, NEW order \in Bijection(DOMAIN log, DOMAIN log)
             PROVE  Decided(Folded([i \in DOMAIN log |-> log[order[i]]])) = Decided(Folded(log))
  BY DEF OrderIndependent
<1> DEFINE l == [i \in DOMAIN log |-> log[order[i]]]
<1>1. ValidLog(log)
  BY DEF ClaimsInv, LogInv, ValidLog
<1>2. IsSeq(l) /\ ToSet(l) = ToSet(log)
  BY <1>1, Reordered DEF ValidLog
<1> HIDE DEF l
<1>3. ValidLog(l) /\ ToSet(Rows(l)) = ToSet(Rows(log))
  BY <1>1, <1>2, SameRows
<1>4. IsSeq(Rows(l)) /\ IsSeq(Rows(log)) /\ Keyed(ToSet(Rows(l)))
  BY <1>1, <1>3, RowsAre, RowKeys DEF Keyed
<1>5. \A u1, u2 : Decided(StateOf(Rows(l), u1)) = Decided(StateOf(Rows(log), u2))
  BY <1>3, <1>4, SameDecision
<1>6. Decided(Folded(l)) = Decided(Folded(log))
  BY <1>5 DEF Folded
<1> QED
  BY <1>6 DEF l

(***************************************************************************)
(* The claims and conflicts of state.json are a function of the set of     *)
(* patches: `cdp fold --check` finds no order that changes them.           *)
(***************************************************************************)
THEOREM FoldIsOrderIndependent == Spec => []OrderIndependent
  BY ClaimsInvariant, Independent, PTL

(***************************************************************************)
(* The questions of state.json.                                            *)
(***************************************************************************)

\* What a patch asks, and which of its claims it has lost.
LEMMA DemotedIs ==
  ASSUME NEW p, ValidPatch(p)
  PROVE  /\ IsSeq(Demoted(p))
         /\ ToSet(Demoted(p)) = ToSet(p.unknowns) \union
                {Unverified(c, p.node) : c \in ToSet(p.claims) \ Surviving(p)}
<1> DEFINE T == ToSet(p.claims) \ Surviving(p)
           failed == Where(p.claims, T)
           rows == [i \in DOMAIN failed |-> Unverified(failed[i], p.node)]
<1>1. Demoted(p) = p.unknowns \o rows
  BY DEF Demoted
<1>2. IsSeq(p.claims) /\ IsSeq(p.unknowns)
  BY DEF ValidPatch, ValidClaims
<1>3. IsSeq(failed) /\ ToSet(failed) = T
  <2>1. T \subseteq ToSet(p.claims)
    OBVIOUS
  <2> HIDE DEF T
  <2>2. IsSeq(Where(p.claims, T)) /\ ToSet(Where(p.claims, T)) = ToSet(p.claims) \intersect T
    BY <1>2, WhereIs
  <2>3. ToSet(p.claims) \intersect T = T
    BY <2>1
  <2> QED
    BY <2>2, <2>3
<1> HIDE DEF failed
<1>4. /\ DOMAIN failed = 1..Len(failed) /\ Len(failed) \in Nat
      /\ \A i \in 1..Len(failed) : failed[i] \in T
      /\ \A c \in T : \E i \in 1..Len(failed) : c = failed[i]
  BY <1>3, SeqLen
<1>5. rows = [i \in 1..Len(failed) |-> rows[i]] /\ \A i \in 1..Len(failed) : rows[i] = Unverified(failed[i], p.node)
  BY <1>4
<1> HIDE DEF rows, T
<1>6. IsSeq(rows) /\ ToSet(rows) = {rows[i] : i \in 1..Len(failed)}
  BY <1>4, <1>5, SeqIs DEF ToSet
<1>7. ToSet(rows) = {Unverified(c, p.node) : c \in T}
  <2>1. ASSUME NEW i \in 1..Len(failed) PROVE rows[i] \in {Unverified(c, p.node) : c \in T}
    BY <1>4, <1>5
  <2>2. ASSUME NEW c \in T PROVE \E i \in 1..Len(failed) : rows[i] = Unverified(c, p.node)
    BY <1>4, <1>5
  <2> QED
    BY <1>6, <2>1, <2>2
<1>8. IsSeq(p.unknowns \o rows) /\ ToSet(p.unknowns \o rows) = ToSet(p.unknowns) \union ToSet(rows)
  BY <1>2, <1>6, SeqConcat
<1> QED
  BY <1>1, <1>7, <1>8 DEF T

\* Of the questions that are one the first one stays: none is made up, and none is
\* left without one like it.
LEMMA DedupeIs ==
  ASSUME NEW us, IsSeq(us)
  PROVE  /\ DedupeUnknowns(us) \subseteq ToSet(us)
         /\ \A u \in ToSet(us) : \E v \in DedupeUnknowns(us) : v.node = u.node /\ v.question = u.question
<1> DEFINE stays == {k \in DOMAIN us :
               \A j \in 1..(k - 1) : <<us[j].node, us[j].question>> # <<us[k].node, us[k].question>>}
<1>1. DOMAIN us = 1..Len(us) /\ Len(us) \in Nat
  BY SeqLen
<1>2. DedupeUnknowns(us) = {us[i] : i \in stays}
  BY DEF DedupeUnknowns
<1>3. DedupeUnknowns(us) \subseteq ToSet(us)
  BY <1>2 DEF ToSet
<1>4. ASSUME NEW u \in ToSet(us)
      PROVE  \E k \in stays : us[k].node = u.node /\ us[k].question = u.question
  <2> DEFINE I == {i \in DOMAIN us : us[i].node = u.node /\ us[i].question = u.question}
  <2>1. I \subseteq Nat /\ I # {}
    BY <1>1, SeqLen
  <2>2. PICK k \in I : \A j \in I : k <= j
    <3> HIDE DEF I
    <3> QED
      BY <2>1, MinNat
  <2>3. \A j \in 1..(k - 1) : j \in DOMAIN us /\ ~(k <= j)
    BY <1>1
  <2>4. \A j \in 1..(k - 1) : ~(us[j].node = u.node /\ us[j].question = u.question)
    BY <2>2, <2>3
  <2>5. k \in stays
    BY <2>4
  <2> QED
    BY <2>5
<1> HIDE DEF stays
<1> QED
  BY <1>2, <1>3, <1>4

\* The questions of a log are those of its complete patches.
LEMMA QuestionsAre ==
  ASSUME NEW l, ValidLog(l)
  PROVE  /\ \A u \in Questions(l) : \E p \in F!Complete(ToSet(l)) : u \in ToSet(Demoted(p))
         /\ \A p \in F!Complete(ToSet(l)) : \A u \in ToSet(Demoted(p)) :
               \E v \in Questions(l) : v.node = u.node /\ v.question = u.question
<1> DEFINE complete == Completed(l)
           ss == [k \in DOMAIN complete |-> Demoted(complete[k])]
<1>1. /\ DOMAIN complete = 1..Len(complete) /\ Len(complete) \in Nat
      /\ \A k \in 1..Len(complete) : complete[k] \in F!Complete(ToSet(l))
      /\ \A p \in F!Complete(ToSet(l)) : \E k \in 1..Len(complete) : p = complete[k]
  BY CompletedIs, SeqLen
<1>2. \A p \in F!Complete(ToSet(l)) : IsSeq(Demoted(p))
  BY CompletedIs, DemotedIs
<1>3. Questions(l) = DedupeUnknowns(FlattenSeq(ss))
  BY DEF Questions
<1> HIDE DEF complete
<1>4. ss = [k \in 1..Len(complete) |-> ss[k]] /\ \A k \in 1..Len(complete) : ss[k] = Demoted(complete[k])
  BY <1>1
<1> HIDE DEF ss
<1>5. IsSeq(ss) /\ ToSet(ss) = {ss[k] : k \in 1..Len(complete)}
  BY <1>1, <1>4, SeqIs DEF ToSet
<1>6. ToSet(ss) = {Demoted(p) : p \in F!Complete(ToSet(l))}
  <2>1. ASSUME NEW k \in 1..Len(complete) PROVE ss[k] \in {Demoted(p) : p \in F!Complete(ToSet(l))}
    BY <1>1, <1>4
  <2>2. ASSUME NEW p \in F!Complete(ToSet(l)) PROVE \E k \in 1..Len(complete) : ss[k] = Demoted(p)
    BY <1>1, <1>4
  <2> QED
    BY <1>5, <2>1, <2>2
<1>7. /\ IsSeq(FlattenSeq(ss))
      /\ ToSet(FlattenSeq(ss)) = UNION {ToSet(t) : t \in ToSet(ss)}
  BY <1>2, <1>5, <1>6, FlattenIs
<1>8. ToSet(FlattenSeq(ss)) = UNION {ToSet(Demoted(p)) : p \in F!Complete(ToSet(l))}
  BY <1>6, <1>7
<1>9. /\ Questions(l) \subseteq ToSet(FlattenSeq(ss))
      /\ \A u \in ToSet(FlattenSeq(ss)) : \E v \in Questions(l) : v.node = u.node /\ v.question = u.question
  BY <1>3, <1>7, DedupeIs
<1> QED
  BY <1>8, <1>9

LEMMA UnverifiedIs ==
  ASSUME NEW c, NEW node
  PROVE  /\ Genuine(Unverified(c, node)) /\ Unverified(c, node).node = node
         /\ Unverified(c, node).question = <<"Unverified", c.statement>>
  BY DEF Genuine, Unverified, Question, GateNegativeEntailment

LEMMA GapIs ==
  ASSUME NEW node
  PROVE  Genuine(Gap(node)) /\ Gap(node).node = node
  BY DEF Genuine, Gap, Question, GateNegativeEntailment

\* All of them are about something, and about no fact that extraction has stated.
LEMMA QuestionsGenuine ==
  ASSUME NEW l, ValidLog(l), NEW u \in Questions(l) \union Gaps(l)
  PROVE  Genuine(u)
<1>1. CASE u \in Gaps(l)
  BY <1>1, GapIs DEF Gaps
<1>2. CASE u \in Questions(l)
  <2>1. PICK p \in F!Complete(ToSet(l)) : u \in ToSet(Demoted(p))
    BY <1>2, QuestionsAre
  <2>2. ValidPatch(p)
    BY CompletedIs
  <2>3. CASE u \in ToSet(p.unknowns)
    BY <2>2, <2>3 DEF ValidPatch
  <2>4. CASE u \in {Unverified(c, p.node) : c \in ToSet(p.claims) \ Surviving(p)}
    BY <2>4, UnverifiedIs
  <2> QED
    BY <2>1, <2>2, <2>3, <2>4, DemotedIs
<1> QED
  BY <1>1, <1>2

\* The ratchet moves a question's status and nothing else.
LEMMA DischargeIs ==
  ASSUME NEW u, Genuine(u), NEW claims
  PROVE  /\ Discharge(u, claims).subject = u.subject /\ Discharge(u, claims).channel = u.channel
         /\ Discharge(u, claims).node = u.node /\ Discharge(u, claims).question = u.question
         /\ Discharge(u, claims).status # "moot"
         /\ Discharge(u, claims).status = "resolved" =>
               u.subject # None /\ \E c \in AnswersTo(u, claims) : c.verdict # "contradicted"
<1> DEFINE s == CASE u.subject = None -> "open"
          [] u.subject # None /\ ~SubjectExists(u.subject) -> "moot"
          [] OTHER -> IF \E c \in AnswersTo(u, claims) : c.verdict # "contradicted" THEN "resolved" ELSE "open"
<1>1. Discharge(u, claims) = [u EXCEPT !.status = s]
  BY Zenon DEF Discharge
<1>2. /\ s # "moot"
      /\ s = "resolved" => u.subject # None /\ \E c \in AnswersTo(u, claims) : c.verdict # "contradicted"
  BY DEF Genuine
<1> HIDE DEF s
<1> DEFINE d == [u EXCEPT !.status = s]
<1>3. PICK q, v, node, provenance : u = Question(v, node, provenance) /\ q = v
  BY DEF Genuine
<1>4. d.subject = u.subject /\ d.channel = u.channel /\ d.node = u.node /\ d.question = u.question /\ d.status = s
  BY <1>3 DEF Question
<1> HIDE DEF d
<1> QED
  BY <1>1, <1>2, <1>4 DEF d

\* One claim answers a question: those with one subject and kind are merged.
LEMMA OneAnswer ==
  ASSUME NEW rows, IsSeq(rows), Keyed(ToSet(rows)), NEW u,
         NEW c \in AnswersTo(u, Merged(rows)), NEW d \in AnswersTo(u, Merged(rows))
  PROVE  c = d
<1>1. PICK g \in Groups(rows) : c = Entail(MergedClaim(rows, g))
  BY DEF AnswersTo, Merged
<1>2. PICK h \in Groups(rows) : d = Entail(MergedClaim(rows, h))
  BY DEF AnswersTo, Merged
<1>3. <<c.subject, c.kind>> = g /\ <<d.subject, d.kind>> = h /\ c.kind \in Nat /\ d.kind \in Nat
  <2>1. ASSUME NEW k \in Groups(rows)
        PROVE  /\ <<Entail(MergedClaim(rows, k)).subject, Entail(MergedClaim(rows, k)).kind>> = k
               /\ Entail(MergedClaim(rows, k)).kind \in Nat
    <3> DEFINE m == MergedClaim(rows, k)
    <3>1. <<m.subject, m.kind>> = k /\ m.kind \in Nat
      BY MergedKeys
    <3>2. Entail(m).subject = m.subject /\ Entail(m).kind = m.kind
      BY EntailIs
    <3> HIDE DEF m
    <3> QED
      BY <3>1, <3>2 DEF m
  <2> QED
    BY <1>1, <1>2, <2>1
<1>4. c.subject = d.subject
  BY DEF AnswersTo
<1>5. ~(c.kind < d.kind) /\ ~(d.kind < c.kind)
  BY <1>3 DEF AnswersTo
<1>6. g = h
  BY <1>3, <1>4, <1>5
<1> QED
  BY <1>1, <1>2, <1>6

LEMMA FoldedIs ==
  ASSUME NEW l
  PROVE  /\ ~Folded(l).raises =>
               /\ Folded(l).claims = Merged(Rows(l)) /\ Folded(l).conflicts = Conflicts(Rows(l))
               /\ Folded(l).unknowns =
                    {Discharge(u, Merged(Rows(l))) : u \in Questions(l) \union Gaps(l)}
         /\ Folded(l).raises => Folded(l).unknowns = {}
<1> DEFINE us == Questions(l) \union Gaps(l)
           claims == Merged(Rows(l))
           asked == {Discharge(u, claims) : u \in us}
           conflicts == Conflicts(Rows(l))
<1>1. Folded(l) = IF Raises(Rows(l)) THEN [raises |-> TRUE, claims |-> {}, conflicts |-> {}, unknowns |-> {}]
                  ELSE [raises |-> FALSE, claims |-> claims, conflicts |-> conflicts, unknowns |-> asked]
  BY DEF Folded, StateOf
<1> HIDE DEF claims, asked, conflicts
<1>2. /\ ~Folded(l).raises =>
            Folded(l).claims = claims /\ Folded(l).conflicts = conflicts /\ Folded(l).unknowns = asked
      /\ Folded(l).raises => Folded(l).unknowns = {}
  BY <1>1
<1> QED
  BY <1>2 DEF claims, asked, conflicts

LEMMA GenuineQuestions == ClaimsInv => QuestionsAreGenuine
<1> SUFFICES ASSUME ClaimsInv, NEW w \in Folded(log).unknowns
             PROVE  /\ w.status # "moot"
                    /\ w.status = "resolved" /\ w.channel # None =>
                          \A c \in AnswersTo(w, Folded(log).claims) : c.verdict = "consistent"
  BY DEF QuestionsAreGenuine
<1> DEFINE rows == Rows(log)
           claims == Merged(rows)
<1>1. ValidLog(log)
  BY DEF ClaimsInv, LogInv, ValidLog
<1>2. IsSeq(rows) /\ Keyed(ToSet(rows))
  BY <1>1, RowsAre, RowKeys DEF Keyed
<1> HIDE DEF rows
<1>3. /\ Folded(log).claims = claims
      /\ Folded(log).unknowns = {Discharge(u, claims) : u \in Questions(log) \union Gaps(log)}
  BY FoldedIs DEF rows
<1>4. PICK u \in Questions(log) \union Gaps(log) : w = Discharge(u, claims)
  BY <1>3
<1>5. Genuine(u)
  BY <1>1, QuestionsGenuine
<1> HIDE DEF claims
<1>6. /\ w.subject = u.subject /\ w.channel = u.channel /\ w.status # "moot"
      /\ w.status = "resolved" =>
            u.subject # None /\ \E c \in AnswersTo(u, claims) : c.verdict # "contradicted"
  BY <1>4, <1>5, DischargeIs
<1>7. ASSUME w.status = "resolved", w.channel # None, NEW c \in AnswersTo(w, claims)
      PROVE  c.verdict = "consistent"
  <2>1. AnswersTo(w, claims) = AnswersTo(u, claims)
    BY <1>6 DEF AnswersTo
  <2>2. PICK d \in AnswersTo(u, claims) : d.verdict # "contradicted"
    BY <1>6, <1>7
  <2>3. c = d
    BY <1>2, <2>1, OneAnswer DEF claims
  <2>4. c \in claims /\ c.subject = u.subject /\ c.channel = u.channel
    BY <2>1 DEF AnswersTo
  <2>5. PICK g \in Groups(rows) : c = Entail(MergedClaim(rows, g))
    BY <2>4 DEF claims, Merged
  <2>7. /\ c.verdict \in {"entailed", "contradicted", "consistent"}
        /\ c.verdict = "entailed" => <<c.subject, c.channel>> \in EdgeKeys
    <3> DEFINE m == MergedClaim(rows, g)
    <3>1. /\ Entail(m).subject = m.subject /\ Entail(m).channel = m.channel
          /\ Entail(m).verdict \in {"entailed", "contradicted", "consistent"}
          /\ Entail(m).verdict = "entailed" => m.channel # None /\ <<m.subject, m.channel>> \in EdgeKeys
      BY <1>2, EntailIs
    <3> HIDE DEF m
    <3> QED
      BY <2>5, <3>1 DEF m
  <2>8. <<u.subject, u.channel>> \notin EdgeKeys
    BY <1>5, <1>6, <1>7 DEF Genuine, GateNegativeEntailment
  <2> QED
    BY <2>2, <2>3, <2>4, <2>7, <2>8
<1> QED
  BY <1>3, <1>6, <1>7

(***************************************************************************)
(* A question that the gates let in is about something at every fold, and  *)
(* what resolves one about a channel is a judgement, never an edge.        *)
(***************************************************************************)
THEOREM QuestionsStayGenuine == Spec => []QuestionsAreGenuine
  BY ClaimsInvariant, GenuineQuestions, PTL

\* A node with patches of which none is complete is a gap.
LEMMA UnansweredIs ==
  ASSUME NEW l, ValidLog(l), NEW p \in ToSet(l), ~\E q \in F!Complete(ToSet(l)) : q.node = p.node
  PROVE  Gap(p.node) \in Gaps(l)
<1> DEFINE statuses == {q.status : q \in F!Of(ToSet(l), p.node)}
<1>1. p \in F!Of(ToSet(l), p.node) /\ p.node \in Nodes
  BY DEF F!Of, ValidLog, ValidPatch
<1>2. \A q \in F!Of(ToSet(l), p.node) : q.status = "invalid"
  BY DEF F!Of, F!Complete, ValidLog, ValidPatch
<1>3. statuses = {"invalid"}
  BY <1>1, <1>2
<1>4. F!NodeStatus(ToSet(l), p.node) =
         IF statuses = {} THEN "none"
         ELSE CHOOSE s \in statuses : \A t \in statuses : F!STATUS_RANK[t] <= F!STATUS_RANK[s]
  BY DEF F!NodeStatus
<1>5. F!STATUS_RANK["invalid"] = 3
  BY DEF F!STATUS_RANK
<1> HIDE DEF statuses
<1>6. F!NodeStatus(ToSet(l), p.node) = "invalid"
  BY <1>3, <1>4, <1>5
<1> QED
  BY <1>1, <1>6 DEF Gaps

LEMMA NothingLost == ClaimsInv => NothingVanishes
<1> SUFFICES ASSUME ClaimsInv, ~Folded(log).raises
             PROVE  /\ \A p \in ToSet(LivePatches(log)) : \A c \in ToSet(p.claims) :
                          \/ \E m \in Folded(log).claims :
                                m.subject = c.subject /\ p.node \in m.nodes /\ c.statement \in m.statements
                          \/ \E k \in Folded(log).conflicts : \E o \in k.positions :
                                k.subject = c.subject /\ o.node = p.node /\ o.statement = c.statement
                          \/ \E u \in Folded(log).unknowns :
                                u.node = p.node /\ u.question = <<"Unverified", c.statement>>
                    /\ \A p \in ToSet(log) :
                          \/ p.node \in {q.node : q \in ToSet(LivePatches(log))}
                          \/ Gap(p.node).question \in {u.question : u \in Folded(log).unknowns}
  BY DEF NothingVanishes
<1> DEFINE rows == Rows(log)
           claims == Merged(rows)
           unknowns == Questions(log) \union Gaps(log)
<1>1. ValidLog(log)
  BY DEF ClaimsInv, LogInv, ValidLog
<1>2. IsSeq(rows) /\ Keyed(ToSet(rows))
  BY <1>1, RowsAre, RowKeys DEF Keyed
<1>3. \A p \in ToSet(LivePatches(log)) : \A c \in Surviving(p) : Kept(c, p.node) \in ToSet(rows)
  BY <1>1, RowsAre
<1> HIDE DEF rows
<1>4. /\ Folded(log).claims = claims /\ Folded(log).conflicts = Conflicts(rows)
      /\ Folded(log).unknowns = {Discharge(u, claims) : u \in unknowns}
  BY FoldedIs DEF rows
<1>5. \A u \in unknowns : Genuine(u)
  BY <1>1, QuestionsGenuine
<1> HIDE DEF unknowns
<1>6. ASSUME NEW u \in unknowns
      PROVE  \E v \in Folded(log).unknowns : v.node = u.node /\ v.question = u.question
  <2>1. Discharge(u, claims) \in Folded(log).unknowns
    BY <1>4
  <2> HIDE DEF claims
  <2>2. Discharge(u, claims).node = u.node /\ Discharge(u, claims).question = u.question
    BY <1>5, DischargeIs
  <2> QED
    BY <2>1, <2>2
<1>7. ASSUME NEW p \in ToSet(LivePatches(log)), NEW c \in Surviving(p)
      PROVE  \/ \E m \in Folded(log).claims :
                   m.subject = c.subject /\ p.node \in m.nodes /\ c.statement \in m.statements
             \/ \E k \in Folded(log).conflicts : \E o \in k.positions :
                   k.subject = c.subject /\ o.node = p.node /\ o.statement = c.statement
  <2> DEFINE r == Kept(c, p.node)
             g == <<r.subject, r.kind>>
  <2>1. r.node = p.node /\ r.subject = c.subject /\ r.statement = c.statement
    BY DEF Kept
  <2>2. r \in ToSet(rows)
    BY <1>3
  <2> HIDE DEF r
  <2>3. g \in Groups(rows) /\ r \in ToSet(GroupOf(rows, g)) /\ g[1] = r.subject
    BY <1>2, <2>2, GroupIs DEF Groups
  <2> HIDE DEF g
  <2>4. CASE Unanimous(rows, g)
    <3>1. PICK part, confidence : MergedClaim(rows, g) = Union(part, confidence) /\ part = GroupOf(rows, g)
      BY <1>2, <2>3, <2>4, MergedIs
    <3> DEFINE m == MergedClaim(rows, g)
    <3>2. r.node \in m.nodes /\ r.statement \in m.statements
      BY <2>3, <3>1 DEF Union, UnionAround
    <3>3. <<m.subject, m.kind>> = g
      BY <1>2, <2>3, MergedKeys
    <3>4. Entail(m) \in claims
      BY <2>3 DEF Merged
    <3>5. Entail(m).subject = m.subject /\ Entail(m).nodes = m.nodes /\ Entail(m).statements = m.statements
      BY <1>2, <2>3, EntailIs
    <3> HIDE DEF m, claims
    <3>6. m.subject = r.subject
      BY <2>3, <3>3
    <3> QED
      BY <1>4, <2>1, <3>2, <3>4, <3>5, <3>6
  <2>5. CASE ~Unanimous(rows, g)
    <3> DEFINE k == ConflictRecord(rows, g)
               o == [sig |-> Signature(r), node |-> r.node, statement |-> r.statement]
    <3>1. k \in Conflicts(rows)
      BY <2>3, <2>5 DEF Conflicts
    <3>2. o \in k.positions /\ k.subject = r.subject
      BY <2>3 DEF ConflictRecord
    <3>3. o.node = r.node /\ o.statement = r.statement
      OBVIOUS
    <3> HIDE DEF k, o
    <3> QED
      BY <1>4, <2>1, <3>1, <3>2, <3>3
  <2> QED
    BY <2>4, <2>5
<1>8. ASSUME NEW p \in ToSet(LivePatches(log)), NEW c \in ToSet(p.claims) \ Surviving(p)
      PROVE  \E u \in Folded(log).unknowns :
                u.node = p.node /\ u.question = <<"Unverified", c.statement>>
  <2>1. p \in F!Complete(ToSet(log)) /\ ValidPatch(p)
    BY <1>1, LiveOf
  <2>2. Unverified(c, p.node) \in ToSet(Demoted(p))
    BY <2>1, DemotedIs
  <2>3. PICK u \in Questions(log) :
           u.node = Unverified(c, p.node).node /\ u.question = Unverified(c, p.node).question
    BY <1>1, <2>1, <2>2, QuestionsAre
  <2>4. PICK v \in Folded(log).unknowns : v.node = u.node /\ v.question = u.question
    BY <1>6 DEF unknowns
  <2> QED
    BY <2>3, <2>4, UnverifiedIs
<1>9. ASSUME NEW p \in ToSet(log)
      PROVE  \/ p.node \in {q.node : q \in ToSet(LivePatches(log))}
             \/ Gap(p.node).question \in {u.question : u \in Folded(log).unknowns}
  <2>1. CASE \E q \in F!Complete(ToSet(log)) : q.node = p.node
    BY <1>1, <2>1, LiveExists
  <2>2. CASE ~\E q \in F!Complete(ToSet(log)) : q.node = p.node
    <3>1. Gap(p.node) \in unknowns
      BY <1>1, <2>2, UnansweredIs DEF unknowns
    <3> QED
      BY <3>1, <1>6
  <2> QED
    BY <2>1, <2>2
<1> QED
  BY <1>7, <1>8, <1>9

(***************************************************************************)
(* Evidence or drop, and never silence: what a live answer claims is in a  *)
(* claim, a conflict or a question, and a node without an answer is a gap. *)
(***************************************************************************)
THEOREM NothingIsLost == Spec => []NothingVanishes
  BY ClaimsInvariant, NothingLost, PTL
==============================================================================
