-------------------------- MODULE Layering_proofs ---------------------------
(***************************************************************************)
(* The search for cycles of Layering, for every graph: the modules that    *)
(* are in no component yet lie on the stack in the order of their          *)
(* discovery, and what is popped is a component.  Then the levels: a module*)
(* lies above every module it imports that is in no cycle.                 *)
(***************************************************************************)
EXTENDS Layering, FiniteSetTheorems, SequenceTheorems, WellFoundedInduction, TLAPS

(***************************************************************************)
(* Numbers, sequences and paths.                                           *)
(***************************************************************************)

\* What Min of the community modules chooses.
LEMMA MinNat ==
  ASSUME NEW T \in SUBSET Nat, T # {}
  PROVE  Min(T) \in T /\ \A y \in T : Min(T) <= y
<1>1. \E x \in T : \A y \in T : ~(<<y, x>> \in OpToRel(<, Nat))
  BY NatLessThanWellFounded, WFMin
<1>2. PICK x \in T : \A y \in T : ~(<<y, x>> \in OpToRel(<, Nat))
  BY <1>1
<1>3. \A y \in T : y < x => <<y, x>> \in OpToRel(<, Nat)
  BY DEF OpToRel
<1>4. \A y \in T : ~(y < x)
  BY <1>2, <1>3
<1>5. \A y \in T : x <= y
  BY <1>4
<1> QED
  BY <1>5 DEF Min

\* One more element of a sequence.
LEMMA AppendIs ==
  ASSUME NEW S, NEW s \in Seq(S), NEW e \in S
  PROVE  /\ Append(s, e) \in Seq(S)
         /\ Len(Append(s, e)) = Len(s) + 1 /\ Len(s) \in Nat
         /\ Append(s, e)[Len(s) + 1] = e
         /\ \A i \in 1..Len(s) : Append(s, e)[i] = s[i]
         /\ ToSet(Append(s, e)) = ToSet(s) \union {e}
  BY DEF ToSet

\* The first n elements of a sequence.
LEMMA PrefixIs ==
  ASSUME NEW S, NEW s \in Seq(S), NEW n \in 0..Len(s)
  PROVE  /\ SubSeq(s, 1, n) \in Seq(S) /\ Len(SubSeq(s, 1, n)) = n
         /\ \A i \in 1..n : SubSeq(s, 1, n)[i] = s[i]
<1>1. SubSeq(s, 1, n) \in Seq(S)
  OBVIOUS
<1>2. Len(SubSeq(s, 1, n)) = n
  OBVIOUS
<1>3. \A i \in 1..n : SubSeq(s, 1, n)[i] = s[i]
  OBVIOUS
<1> QED
  BY <1>1, <1>2, <1>3

\* All elements of a sequence but the last.
LEMMA FrontIs ==
  ASSUME NEW S, NEW s \in Seq(S), s # <<>>
  PROVE  /\ Front(s) \in Seq(S) /\ Len(s) \in Nat \ {0}
         /\ Len(Front(s)) = Len(s) - 1 /\ Last(s) = s[Len(s)] /\ Last(s) \in S
         /\ \A i \in 1..(Len(s) - 1) : Front(s)[i] = s[i]
  BY SubSeqProperties DEF Front, Last

\* The function with one more value.
LEMMA WithType ==
  ASSUME NEW f, NEW m, NEW S, NEW v \in S, \A x \in DOMAIN f : f[x] \in S
  PROVE  With(f, m, v) \in [DOMAIN f \union {m} -> S]
  BY DEF With

\* Paths are as long as one likes.
LEMMA ReachesSelf == \A a \in Modules : Reaches(a, a)
  BY DEF Reaches

LEMMA ReachesOn ==
  ASSUME NEW a \in Modules, NEW b \in Modules, NEW c \in Modules, Reaches(a, b), Reaches(b, c)
  PROVE  Reaches(a, c)
  BY DEF Reaches

LEMMA ReachesDep ==
  ASSUME NEW a \in Modules, NEW b \in Deps(a)
  PROVE  b \in Modules /\ Reaches(a, b)
  BY DEF Reaches, Deps

\* Nothing leaves a set that holds what its members import.
LEMMA ReachesWithin ==
  ASSUME edges \subseteq Edges, NEW S \in SUBSET Modules, \A x \in S : Deps(x) \subseteq S,
         NEW a \in S, NEW b, Reaches(a, b)
  PROVE  b \in S
<1>1. \A e \in edges : e[1] \in S => e[2] \in S
  BY DEF Edges, Deps
<1> QED
  BY <1>1 DEF Reaches

(***************************************************************************)
(* The invariant.                                                          *)
(***************************************************************************)

OnStack == ToSet(stack)
Found == DOMAIN index

\* The modules whose component is complete.
Closed == Found \ OnStack

Node(i) == work[i].node
Frames == 1..Len(work)
Frame == [node : Modules, todo : SUBSET Modules]

TarjanTypes ==
    /\ edges \subseteq Edges
    /\ Found \subseteq Modules /\ IsFiniteSet(Found)
    /\ index \in [Found -> Nat] /\ low \in [Found -> Nat]
    /\ \A x \in Found : index[x] < Cardinality(Found)
    /\ \A x, y \in Found : index[x] = index[y] => x = y
    /\ stack \in Seq(Modules) /\ OnStack \subseteq Found
    /\ work \in Seq(Frame)
    /\ \A i \in Frames : work[i].todo \subseteq Deps(Node(i))

\* The frames are modules of the stack, from its first one, in the order of the stack.
StackOrder ==
    /\ \A i, j \in 1..Len(stack) : i < j => index[stack[i]] < index[stack[j]]
    /\ \A i, j \in Frames : i < j => index[Node(i)] < index[Node(j)]
    /\ \A i \in Frames : Node(i) \in OnStack
    /\ \A x \in OnStack : work # <<>> /\ index[Node(1)] <= index[x]

\* x has no frame, or d is not left to look at.
Looked(x, d) == \A i \in Frames : Node(i) = x => d \notin work[i].todo

\* low[x] names a module of the stack that x reaches, another one when x is finished, and
\* none above a module of the stack that x imports.
LowOf(x) ==
    /\ low[x] <= index[x]
    /\ \E z \in OnStack : index[z] = low[x] /\ Reaches(x, z)
    /\ (\A i \in Frames : Node(i) # x) => low[x] < index[x]
    /\ \A d \in Deps(x) : Looked(x, d) => d \in Found /\ (d \in OnStack => low[x] <= index[d])

\* A frame reaches what lies above it, and has the `low` of what was finished right above.
FrameOf(k) ==
    \A y \in OnStack :
        /\ index[Node(k)] <= index[y] => Reaches(Node(k), y)
        /\ /\ index[Node(k)] < index[y]
           /\ \A j \in Frames : k < j => index[y] < index[Node(j)]
           => low[Node(k)] <= low[y]

\* The complete components import nothing but each other, and are reported.
ClosedOff ==
    /\ \A x \in Closed : Deps(x) \subseteq Closed
    /\ cycles = {c \in {Component(m) : m \in Closed} : Cardinality(c) > 1}

TarjanInv ==
    /\ TarjanTypes
    /\ StackOrder
    /\ \A x \in OnStack : LowOf(x)
    /\ \A k \in Frames : FrameOf(k)
    /\ ClosedOff

LEMMA TarjanInit == LayeringInit /\ edges \subseteq Edges => TarjanInv
<1> SUFFICES ASSUME LayeringInit, edges \subseteq Edges PROVE TarjanInv
  OBVIOUS
<1>1. Found = {} /\ OnStack = {} /\ Frames = {} /\ Closed = {} /\ 1..Len(stack) = {}
  BY DEF LayeringInit, Found, OnStack, Frames, Closed, ToSet
<1>2. index \in [{} -> Nat] /\ low \in [{} -> Nat] /\ stack \in Seq(Modules) /\ work \in Seq(Frame)
  BY DEF LayeringInit
<1>3. TarjanTypes
  BY <1>1, <1>2, FS_EmptySet DEF TarjanTypes
<1>4. StackOrder
  BY <1>1 DEF StackOrder
<1>5. ClosedOff
  BY <1>1 DEF ClosedOff, LayeringInit
<1> QED
  BY <1>1, <1>3, <1>4, <1>5 DEF TarjanInv

\* The graph is not searched for changes.
LEMMA SameGraph ==
  ASSUME UNCHANGED edges
  PROVE  /\ \A a, b : Reaches(a, b)' <=> Reaches(a, b)
         /\ \A a : Deps(a)' = Deps(a) /\ Component(a)' = Component(a)
  BY DEF Reaches, Deps, Component

\* What the search does not touch keeps its invariant.
LEMMA TarjanUntouched ==
  ASSUME TarjanInv, UNCHANGED <<edges, tarjanVars>>
  PROVE  TarjanInv'
<1>1. UNCHANGED <<edges, index, low, stack, work, cycles>>
  BY DEF tarjanVars
<1>2. /\ Found' = Found /\ OnStack' = OnStack /\ Closed' = Closed /\ Frames' = Frames
      /\ \A i : Node(i)' = Node(i)
      /\ \A x, d : Looked(x, d)' <=> Looked(x, d)
  BY <1>1 DEF Found, OnStack, Closed, Frames, Node, Looked
<1>3. TarjanTypes'
  BY <1>1, <1>2, SameGraph DEF TarjanInv, TarjanTypes
<1>4. StackOrder'
  BY <1>1, <1>2 DEF TarjanInv, StackOrder
<1>5. \A x \in OnStack' : LowOf(x)'
  BY <1>1, <1>2, SameGraph DEF TarjanInv, LowOf
<1>6. \A k \in Frames' : FrameOf(k)'
  BY <1>1, <1>2, SameGraph DEF TarjanInv, FrameOf
<1>7. ClosedOff'
  BY <1>1, <1>2, SameGraph DEF TarjanInv, ClosedOff
<1> QED
  BY <1>3, <1>4, <1>5, <1>6, <1>7 DEF TarjanInv

(***************************************************************************)
(* The steps.                                                              *)
(***************************************************************************)

\* A module is discovered above the frames, which have looked at it.
LEMMA DiscoverKeeps ==
  ASSUME TarjanInv, UNCHANGED edges, NEW m \in Unvisited, NEW frames \in Seq(Frame),
         Discover(m, frames), Len(frames) = Len(work),
         \A i \in Frames : /\ frames[i].node = Node(i) /\ frames[i].todo \subseteq work[i].todo
                           /\ \A d \in work[i].todo : d \in frames[i].todo \/ (d = m /\ i = Len(work)),
         work # <<>> => m \in Deps(Node(Len(work)))
  PROVE  TarjanInv'
<1>n. PICK n, c : n = Len(work) /\ c = Cardinality(Found)
  OBVIOUS
<1>a. /\ TarjanTypes /\ StackOrder /\ ClosedOff
      /\ \A x \in OnStack : LowOf(x)
      /\ \A k \in Frames : FrameOf(k)
  BY DEF TarjanInv
<1>b. /\ n \in Nat /\ c \in Nat /\ m \in Modules /\ m \notin Found /\ OnStack \subseteq Found
      /\ \A x \in Found : index[x] \in Nat /\ low[x] \in Nat /\ index[x] < c
      /\ Frames = 1..n /\ (work = <<>> <=> n = 0)
      /\ \A i \in Frames : Node(i) \in OnStack
  BY <1>n, <1>a, FS_CardinalityType DEF TarjanTypes, Unvisited, Found, Frames, StackOrder
<1>1. /\ Found' = Found \union {m}
      /\ index'[m] = c /\ low'[m] = c
      /\ \A x \in Found : index'[x] = index[x] /\ low'[x] = low[x]
      /\ index' \in [Found \union {m} -> Nat] /\ low' \in [Found \union {m} -> Nat]
  <2>1. index' = With(index, m, c) /\ low' = With(low, m, c)
    BY <1>n DEF Discover, Found
  <2>2. DOMAIN index = Found /\ DOMAIN low = Found
    BY <1>a DEF TarjanTypes, Found
  <2>3. /\ With(index, m, c) \in [Found \union {m} -> Nat]
        /\ With(low, m, c) \in [Found \union {m} -> Nat]
    BY <2>2, <1>b, WithType
  <2>4. /\ With(index, m, c)[m] = c /\ With(low, m, c)[m] = c
        /\ \A x \in Found : x # m => /\ With(index, m, c)[x] = index[x]
                                     /\ With(low, m, c)[x] = low[x]
    <3>1. With(index, m, c)[m] = c /\ \A x \in Found : x # m => With(index, m, c)[x] = index[x]
      BY <2>2 DEF With
    <3>2. With(low, m, c)[m] = c /\ \A x \in Found : x # m => With(low, m, c)[x] = low[x]
      BY <2>2 DEF With
    <3> QED
      BY <3>1, <3>2
  <2> QED
    BY <2>1, <2>3, <2>4, <1>b DEF Found
<1>2. /\ stack' \in Seq(Modules) /\ Len(stack') = Len(stack) + 1 /\ Len(stack) \in Nat
      /\ stack'[Len(stack) + 1] = m /\ \A i \in 1..Len(stack) : stack'[i] = stack[i]
      /\ OnStack' = OnStack \union {m} /\ \A i \in 1..Len(stack) : stack[i] \in OnStack
  <2>1. stack' = Append(stack, m) /\ stack \in Seq(Modules)
    BY <1>a DEF Discover, TarjanTypes
  <2>2. \A i \in 1..Len(stack) : stack[i] \in OnStack
    BY <2>1 DEF OnStack, ToSet
  <2> QED
    BY <2>1, <2>2, <1>b, AppendIs DEF OnStack
<1>3. /\ work' \in Seq(Frame) /\ Frames' = 1..(n + 1) /\ work' # <<>>
      /\ Node(n + 1)' = m /\ work'[n + 1].todo = Deps(m)
      /\ \A i \in Frames : Node(i)' = Node(i) /\ work'[i].todo = frames[i].todo
  <2> DEFINE e == [node |-> m, todo |-> Deps(m)]
  <2>1. work' = Append(frames, e) /\ e \in Frame /\ e.node = m /\ e.todo = Deps(m)
    BY <1>b DEF Discover, Frame, Deps
  <2> HIDE DEF e
  <2>2. /\ work' \in Seq(Frame) /\ Len(work') = n + 1 /\ work'[n + 1] = e
        /\ \A i \in 1..n : work'[i] = frames[i]
    BY <2>1, <1>n, AppendIs
  <2>3. work' # <<>>
    BY <2>2, <1>b
  <2> QED
    BY <2>1, <2>2, <2>3, <1>b DEF Frames, Node
<1>4. Closed' = Closed /\ cycles' = cycles
  BY <1>1, <1>2, <1>b DEF Closed, Discover
<1>c. \A i \in Frames' : \/ i \in Frames
                         \/ i = n + 1 /\ Node(i)' = m /\ work'[i].todo = Deps(m)
  BY <1>3, <1>b
<1>d. /\ \A i \in 1..Len(stack') : \/ i \in 1..Len(stack)
                                   \/ i = Len(stack) + 1 /\ stack'[i] = m
      /\ \A i \in 1..Len(stack) : stack'[i] = stack[i] /\ stack[i] \in OnStack
  BY <1>2
<1>e. \A x \in OnStack : x # m /\ index'[x] = index[x] /\ low'[x] = low[x] /\ index[x] < c
  BY <1>1, <1>b
<1>5. \A i \in Frames : work'[i].todo \subseteq Deps(Node(i))
  BY <1>3, <1>a DEF TarjanTypes
<1>6. TarjanTypes'
  <2>1. IsFiniteSet(Found') /\ Cardinality(Found') = c + 1
    BY <1>1, <1>b, <1>a, <1>n, FS_AddElement DEF TarjanTypes
  <2>2. \A x \in Found' : index'[x] < c + 1
    BY <1>1, <1>b
  <2>3. \A x, y \in Found' : index'[x] = index'[y] => x = y
    BY <1>1, <1>b, <1>a DEF TarjanTypes
  <2>4. \A i \in Frames' : work'[i].todo \subseteq Deps(Node(i)')
    BY <1>3, <1>5, <1>c
  <2>5. edges' \subseteq Edges
    BY <1>a DEF TarjanTypes
  <2>6. Found' \subseteq Modules /\ OnStack' \subseteq Found'
    BY <1>1, <1>2, <1>b, <1>a DEF TarjanTypes
  <2>7. index' \in [Found' -> Nat] /\ low' \in [Found' -> Nat]
    BY <1>1
  <2>8. \A i \in Frames' : (work[i].todo \subseteq Deps(Node(i)))'
    BY <2>4, SameGraph
  <2>9. stack' \in Seq(Modules) /\ work' \in Seq(Frame)
    BY <1>2, <1>3
  <2> QED
    BY <2>1, <2>2, <2>3, <2>5, <2>6, <2>7, <2>8, <2>9 DEF TarjanTypes
<1>7. StackOrder'
  <2>1. ASSUME NEW i \in 1..Len(stack'), NEW j \in 1..Len(stack'), i < j
        PROVE  index'[stack'[i]] < index'[stack'[j]]
    <3>1. i \in 1..Len(stack)
      BY <2>1, <1>2
    <3>2. CASE j \in 1..Len(stack)
      BY <2>1, <3>1, <3>2, <1>d, <1>e, <1>a DEF StackOrder
    <3>3. CASE stack'[j] = m
      BY <3>1, <3>3, <1>d, <1>e, <1>1
    <3> QED
      BY <3>2, <3>3, <1>d
  <2>2. ASSUME NEW i \in Frames', NEW j \in Frames', i < j
        PROVE  index'[Node(i)'] < index'[Node(j)']
    <3>1. i \in Frames
      BY <2>2, <1>3, <1>b
    <3>2. CASE j \in Frames
      BY <2>2, <3>1, <3>2, <1>3, <1>b, <1>e, <1>a DEF StackOrder
    <3>3. CASE Node(j)' = m
      BY <3>1, <3>3, <1>3, <1>b, <1>e, <1>1
    <3> QED
      BY <3>2, <3>3, <1>c
  <2>3. \A i \in Frames' : Node(i)' \in OnStack'
    BY <1>2, <1>3, <1>b, <1>c
  <2>4. ASSUME NEW x \in OnStack' PROVE index'[Node(1)'] <= index'[x]
    <3>1. CASE 1 \in Frames
      <4>1. Node(1)' = Node(1) /\ Node(1) \in OnStack /\ index[Node(1)] \in Nat
        BY <3>1, <1>3, <1>b
      <4>2. CASE x \in OnStack
        BY <4>1, <4>2, <1>e, <1>a DEF StackOrder
      <4>3. CASE x = m
        BY <4>1, <4>3, <1>e, <1>1, <1>b
      <4> QED
        BY <4>2, <4>3, <1>2
    <3>2. CASE 1 \notin Frames
      <4>1. work = <<>> /\ 1 \in Frames'
        BY <3>2, <1>b, <1>3
      <4>2. x = m /\ Node(1)' = m
        BY <4>1, <3>2, <1>c, <1>2, <1>a DEF StackOrder
      <4> QED
        BY <4>2, <1>1, <1>b
    <3> QED
      BY <3>1, <3>2
  <2> QED
    BY <2>1, <2>2, <2>3, <2>4, <1>3 DEF StackOrder
<1>8. ASSUME NEW x \in OnStack' PROVE LowOf(x)'
  <2>1. CASE x = m
    <3>1. \A d \in Deps(m) : ~Looked(m, d)'
      BY <1>3, <1>b DEF Looked
    <3>2. \E i \in Frames' : Node(i)' = m
      BY <1>3, <1>b
    <3>3. Reaches(m, m)'
      BY <1>b, ReachesSelf, SameGraph
    <3> QED
      BY <2>1, <3>1, <3>2, <3>3, <1>1, <1>2, <1>b, SameGraph DEF LowOf
  <2>2. CASE x \in OnStack
    <3>1. LowOf(x) /\ x \in Found /\ x # m
      BY <2>2, <1>a, <1>b
    <3>2. low'[x] <= index'[x]
      BY <3>1, <1>1 DEF LowOf
    <3>3. \E z \in OnStack' : index'[z] = low'[x] /\ Reaches(x, z)'
      BY <3>1, <1>1, <1>2, <1>b, SameGraph DEF LowOf
    <3>4. (\A i \in Frames' : Node(i)' # x) => low'[x] < index'[x]
      BY <3>1, <1>1, <1>3, <1>b DEF LowOf
    <3>5. ASSUME NEW d \in Deps(x), Looked(x, d)'
          PROVE  d \in Found' /\ (d \in OnStack' => low'[x] <= index'[d])
      <4>1. CASE Looked(x, d)
        BY <4>1, <3>1, <1>1, <1>2, <1>b DEF LowOf
      <4>2. CASE ~Looked(x, d)
        <5>1. PICK i \in Frames : Node(i) = x /\ d \in work[i].todo
          BY <4>2 DEF Looked
        <5>2. d \notin frames[i].todo
          <6>1. i \in Frames' /\ Node(i)' = x /\ work'[i].todo = frames[i].todo
            BY <5>1, <1>3, <1>b
          <6> QED
            BY <6>1, <3>5 DEF Looked
        <5>3. d = m
          BY <5>1, <5>2
        <5> QED
          BY <5>3, <3>1, <1>1, <1>b DEF LowOf
      <4> QED
        BY <4>1, <4>2
    <3> QED
      BY <3>2, <3>3, <3>4, <3>5, SameGraph DEF LowOf
  <2> QED
    BY <2>1, <2>2, <1>2
<1>9. ASSUME NEW k \in Frames' PROVE FrameOf(k)'
  <2> SUFFICES ASSUME NEW y \in OnStack'
               PROVE  /\ index'[Node(k)'] <= index'[y] => Reaches(Node(k)', y)
                      /\ /\ index'[Node(k)'] < index'[y]
                         /\ \A j \in Frames' : k < j => index'[y] < index'[Node(j)']
                         => low'[Node(k)'] <= low'[y]
    BY SameGraph DEF FrameOf
  <2>1. CASE k = n + 1
    <3>1. Node(k)' = m
      BY <2>1, <1>c, <1>b
    <3>2. index'[m] <= index'[y] => y = m
      BY <1>1, <1>2, <1>b, <1>e
    <3> QED
      BY <3>1, <3>2, <1>1, <1>2, <1>b, ReachesSelf
  <2>2. CASE k \in Frames /\ y \in OnStack
    <3>1. FrameOf(k) /\ Node(k)' = Node(k) /\ Node(k) \in Found /\ y \in Found
      BY <2>2, <1>a, <1>b, <1>3
    <3>2. (\A j \in Frames' : k < j => index'[y] < index'[Node(j)'])
             => \A j \in Frames : k < j => index[y] < index[Node(j)]
      BY <3>1, <1>1, <1>3, <1>b
    <3> QED
      BY <2>2, <3>1, <3>2, <1>1 DEF FrameOf
  <2>3. CASE k \in Frames /\ y = m
    <3>1. n \in Frames /\ k <= n /\ Node(k)' = Node(k) /\ work # <<>>
      <4>1. k \in 1..n /\ n \in 1..n
        BY <2>3, <1>b
      <4> QED
        BY <4>1, <1>b, <1>3
    <3>2. index[Node(k)] <= index[Node(n)] /\ Node(n) \in OnStack
      BY <2>3, <3>1, <1>a, <1>b DEF StackOrder
    <3>3. Reaches(Node(k), Node(n))
      BY <2>3, <3>2, <1>a DEF FrameOf
    <3>4. Reaches(Node(n), m) /\ Node(n) \in Modules /\ Node(k) \in Modules
      BY <3>1, <2>3, <1>a, <1>b, <1>n, ReachesDep DEF TarjanTypes
    <3>5. Reaches(Node(k), m)
      BY <3>3, <3>4, <1>b, ReachesOn
    <3>6. n + 1 \in Frames' /\ k < n + 1 /\ Node(n + 1)' = m
      BY <3>1, <1>3, <1>b
    <3> QED
      BY <2>3, <3>1, <3>5, <3>6, <1>1, <1>b
  <2> QED
    BY <2>1, <2>2, <2>3, <1>2, <1>3, <1>b
<1>10. ClosedOff'
  BY <1>4, <1>a, SameGraph DEF ClosedOff
<1> QED
  BY <1>6, <1>7, <1>8, <1>9, <1>10 DEF TarjanInv

LEMMA NextRootKeeps == TarjanInv /\ UNCHANGED edges /\ NextRoot => TarjanInv'
<1> SUFFICES ASSUME TarjanInv, UNCHANGED edges, NextRoot PROVE TarjanInv'
  OBVIOUS
<1>1. Unvisited \in SUBSET Nat /\ Unvisited # {} /\ Len(work) = 0 /\ work \in Seq(Frame)
  BY ModulesAreNumbers DEF NextRoot, Unvisited, TarjanInv, TarjanTypes
<1>2. Min(Unvisited) \in Unvisited
  BY <1>1, MinNat
<1>3. Frames = {}
  BY <1>1 DEF Frames
<1> QED
  BY <1>1, <1>2, <1>3, DiscoverKeeps DEF NextRoot

\* What is left of the frames when the first child of the top one is taken.
LEMMA AdvancedIs ==
  ASSUME TarjanInv, work # <<>>, Top.todo # {}
  PROVE  /\ Advanced \in Seq(Frame) /\ Len(Advanced) = Len(work) /\ Len(work) \in Frames
         /\ Min(Top.todo) \in Top.todo /\ Top.todo \subseteq Modules
         /\ Top.node = Node(Len(work)) /\ Top.todo = work[Len(work)].todo
         /\ Top.todo \subseteq Deps(Node(Len(work)))
         /\ \A i \in Frames : /\ Advanced[i].node = Node(i)
                              /\ Advanced[i].todo = IF i = Len(work) THEN Top.todo \ {Min(Top.todo)}
                                                    ELSE work[i].todo
<1> DEFINE n == Len(work)
           left == Top.todo \ {Min(Top.todo)}
<1>1. /\ work \in Seq(Frame) /\ n \in Frames /\ Top = work[n] /\ DOMAIN work = Frames
      /\ work \in [Frames -> Frame]
  BY DEF TarjanInv, TarjanTypes, Frames, Top, Last
<1>2. \A i \in Frames : work[i] \in Frame
  BY <1>1
<1>3. Top.todo = work[n].todo /\ Top.todo \subseteq Deps(Node(n)) /\ Top.todo \subseteq Modules
  <2>1. Top \in Frame /\ work[n].todo \subseteq Deps(Node(n))
    BY <1>1, <1>2 DEF TarjanInv, TarjanTypes
  <2> QED
    BY <2>1, <1>1 DEF Frame
<1>4. Min(Top.todo) \in Top.todo
  BY <1>3, ModulesAreNumbers, MinNat
<1>5. Advanced = [work EXCEPT ![n] = [@ EXCEPT !.todo = left]]
  BY <1>1 DEF Advanced
<1> HIDE DEF left
<1>6. [work[n] EXCEPT !.todo = left] \in Frame /\ left \subseteq Top.todo
  BY <1>1, <1>2, <1>3 DEF Frame, left
<1>7. /\ Advanced \in [Frames -> Frame]
      /\ \A i \in Frames : Advanced[i] = IF i = n THEN [work[n] EXCEPT !.todo = left] ELSE work[i]
  BY <1>1, <1>5, <1>6
<1>8. Advanced \in Seq(Frame) /\ Len(Advanced) = Len(work)
  BY <1>1, <1>7 DEF Frames
<1>9. \A i \in Frames : /\ Advanced[i].node = Node(i)
                        /\ Advanced[i].todo = IF i = n THEN left ELSE work[i].todo
  BY <1>1, <1>2, <1>7 DEF Frame, Node
<1> QED
  BY <1>1, <1>3, <1>4, <1>8, <1>9 DEF Node, left

LEMMA DescendKeeps == TarjanInv /\ UNCHANGED edges /\ Descend => TarjanInv'
<1> SUFFICES ASSUME TarjanInv, UNCHANGED edges, Descend PROVE TarjanInv'
  OBVIOUS
<1>1. /\ work # <<>> /\ Top.todo # {} /\ Min(Top.todo) \in Unvisited
      /\ Discover(Min(Top.todo), Advanced)
  BY DEF Descend
<1>2. \A i \in Frames :
         /\ Advanced[i].node = Node(i) /\ Advanced[i].todo \subseteq work[i].todo
         /\ \A d \in work[i].todo : d \in Advanced[i].todo \/ (d = Min(Top.todo) /\ i = Len(work))
  BY <1>1, AdvancedIs
<1> QED
  BY <1>1, <1>2, AdvancedIs, DiscoverKeeps

\* A child that is known is looked at.
LEMMA LookBackKeeps == TarjanInv /\ UNCHANGED edges /\ LookBack => TarjanInv'
<1> SUFFICES ASSUME TarjanInv, UNCHANGED edges, LookBack PROVE TarjanInv'
  OBVIOUS
<1>n. PICK n, t, e : n = Len(work) /\ t = Node(n) /\ e = Min(Top.todo)
  OBVIOUS
<1>a. /\ TarjanTypes /\ StackOrder /\ ClosedOff
      /\ \A x \in OnStack : LowOf(x)
      /\ \A k \in Frames : FrameOf(k)
  BY DEF TarjanInv
<1>b. work # <<>> /\ Top.todo # {} /\ work' = Advanced
  BY DEF LookBack
<1>1. /\ work' \in Seq(Frame) /\ Len(work') = n /\ n \in Frames /\ Frames' = Frames /\ work' # <<>>
      /\ Found' = Found /\ OnStack' = OnStack /\ Closed' = Closed
      /\ UNCHANGED <<index, stack, cycles>>
      /\ \A i \in Frames : Node(i)' = Node(i)
      /\ \A i \in Frames : work'[i].todo = IF i = n THEN work[n].todo \ {e} ELSE work[i].todo
  <2>1. /\ work' \in Seq(Frame) /\ Len(work') = n /\ n \in Frames
        /\ \A i \in Frames : work'[i].node = Node(i)
        /\ \A i \in Frames : work'[i].todo = IF i = n THEN work[n].todo \ {e} ELSE work[i].todo
    BY <1>b, <1>n, AdvancedIs
  <2>2. UNCHANGED <<index, stack, cycles>>
    BY DEF LookBack
  <2>3. Found' = Found /\ OnStack' = OnStack /\ Closed' = Closed
    BY <2>2 DEF Found, OnStack, Closed
  <2>4. Frames' = Frames /\ work' # <<>> /\ \A i \in Frames : Node(i)' = Node(i)
    BY <2>1, <1>n DEF Frames, Node
  <2> QED
    BY <2>1, <2>2, <2>3, <2>4
<1>2. e \in work[n].todo /\ e \in Deps(t) /\ e \in Modules /\ e \in Found /\ t \in OnStack /\ t \in Found
  <2>1. e \in work[n].todo /\ e \in Modules /\ e \in Deps(t)
    BY <1>b, <1>n, AdvancedIs
  <2>2. e \notin Unvisited /\ n \in Frames
    BY <1>1, <1>n DEF LookBack
  <2> QED
    BY <2>1, <2>2, <1>n, <1>a DEF Unvisited, Found, StackOrder, TarjanTypes
<1>3. /\ low' \in [Found -> Nat]
      /\ \A x \in Found : x # t => low'[x] = low[x]
      /\ low'[t] <= low[t]
      /\ low'[t] = low[t] \/ (e \in OnStack /\ low'[t] = index[e])
      /\ e \in OnStack => low'[t] <= index[e]
  <2>1. low \in [Found -> Nat] /\ index[e] \in Nat /\ low[t] \in Nat
    BY <1>a, <1>2 DEF TarjanTypes
  <2>2. Top.node = t
    BY <1>b, <1>n, AdvancedIs
  <2>3. low' = IF e \in OnStack THEN [low EXCEPT ![t] = Lesser(low[t], index[e])] ELSE low
    BY <1>n, <2>2 DEF LookBack, OnStack
  <2>4. /\ Lesser(low[t], index[e]) \in Nat
        /\ Lesser(low[t], index[e]) <= low[t] /\ Lesser(low[t], index[e]) <= index[e]
        /\ Lesser(low[t], index[e]) = low[t] \/ Lesser(low[t], index[e]) = index[e]
    BY <2>1 DEF Lesser
  <2>5. CASE e \in OnStack
    BY <2>1, <2>3, <2>4, <2>5, <1>2
  <2>6. CASE e \notin OnStack
    BY <2>1, <2>3, <2>6, <1>2
  <2> QED
    BY <2>5, <2>6
<1>4. \A x \in Found : low'[x] \in Nat /\ low[x] \in Nat /\ index[x] \in Nat /\ low'[x] <= low[x]
  BY <1>a, <1>3 DEF TarjanTypes
<1>5. TarjanTypes'
  <2>1. \A i \in Frames' : work'[i].todo \subseteq Deps(Node(i)')
    BY <1>1, <1>a DEF TarjanTypes
  <2> QED
    BY <2>1, <1>1, <1>3, <1>a, SameGraph DEF TarjanTypes
<1>6. StackOrder'
  <2>1. Node(1)' = Node(1)
    BY <1>1, <1>n DEF Frames
  <2>2. \A i, j \in Frames' : i < j => index'[Node(i)'] < index'[Node(j)']
    BY <1>1, <1>a DEF StackOrder
  <2> QED
    BY <2>1, <2>2, <1>1, <1>a DEF StackOrder
<1>7. ASSUME NEW x, NEW d, Looked(x, d)' PROVE Looked(x, d) \/ (x = t /\ d = e)
  BY <1>7, <1>1, <1>n DEF Looked
<1>8. ASSUME NEW x \in OnStack' PROVE LowOf(x)'
  <2>1. x \in OnStack /\ x \in Found /\ LowOf(x)
    BY <1>1, <1>a DEF TarjanTypes
  <2>2. low'[x] <= index'[x]
    BY <2>1, <1>1, <1>4 DEF LowOf
  <2>3. \E z \in OnStack' : index'[z] = low'[x] /\ Reaches(x, z)'
    <3>1. CASE low'[x] = low[x]
      BY <3>1, <2>1, <1>1, SameGraph DEF LowOf
    <3>2. CASE x = t /\ e \in OnStack /\ low'[t] = index[e]
      <4>1. Reaches(t, e)
        BY <1>2, <1>a, ReachesDep DEF TarjanTypes
      <4> QED
        BY <3>2, <4>1, <1>1, SameGraph
    <3> QED
      BY <3>1, <3>2, <2>1, <1>3
  <2>4. (\A i \in Frames' : Node(i)' # x) => low'[x] < index'[x]
    BY <2>1, <1>1, <1>4 DEF LowOf
  <2>5. ASSUME NEW d \in Deps(x), Looked(x, d)'
        PROVE  d \in Found' /\ (d \in OnStack' => low'[x] <= index'[d])
    <3>1. CASE Looked(x, d)
      <4>1. d \in Found /\ (d \in OnStack => low[x] <= index[d])
        BY <3>1, <2>1 DEF LowOf
      <4> QED
        BY <4>1, <2>1, <1>1, <1>4
    <3>2. CASE x = t /\ d = e
      BY <3>2, <1>1, <1>2, <1>3
    <3> QED
      BY <3>1, <3>2, <2>5, <1>7
  <2> QED
    BY <2>2, <2>3, <2>4, <2>5, SameGraph DEF LowOf
<1>9. ASSUME NEW k \in Frames' PROVE FrameOf(k)'
  <2>1. k \in Frames /\ FrameOf(k) /\ Node(k)' = Node(k) /\ Node(k) \in Found
    BY <1>1, <1>a DEF TarjanTypes, StackOrder
  <2> SUFFICES ASSUME NEW y \in OnStack'
               PROVE  /\ index[Node(k)] <= index[y] => Reaches(Node(k), y)
                      /\ /\ index[Node(k)] < index[y]
                         /\ \A j \in Frames : k < j => index[y] < index[Node(j)]
                         => low'[Node(k)] <= low'[y]
    BY <2>1, <1>1, SameGraph DEF FrameOf
  <2>2. y \in OnStack /\ y \in Found
    BY <1>1, <1>a DEF TarjanTypes
  <2>3. ASSUME index[Node(k)] < index[y], \A j \in Frames : k < j => index[y] < index[Node(j)]
        PROVE  low'[Node(k)] <= low'[y]
    <3>1. y # t
      <4>1. CASE k < n
        BY <4>1, <2>2, <2>3, <1>1, <1>n, <1>4
      <4>2. CASE k = n
        BY <4>2, <2>1, <2>2, <2>3, <1>n, <1>4
      <4> QED
        BY <4>1, <4>2, <2>1, <1>n, <1>1 DEF Frames
    <3>2. low[Node(k)] <= low[y]
      BY <2>1, <2>2, <2>3 DEF FrameOf
    <3> QED
      BY <3>1, <3>2, <2>1, <2>2, <1>3, <1>4
  <2> QED
    BY <2>1, <2>2, <2>3 DEF FrameOf
<1>10. ClosedOff'
  BY <1>1, <1>a, SameGraph DEF ClosedOff
<1> QED
  BY <1>5, <1>6, <1>8, <1>9, <1>10 DEF TarjanInv

(***************************************************************************)
(* A module without children left.                                         *)
(***************************************************************************)

\* The frames below the top one.
LEMMA FinishFrames ==
  ASSUME TarjanInv, Finish
  PROVE  /\ work' \in Seq(Frame) /\ Len(work') = Len(work) - 1 /\ Len(work) \in Frames
         /\ Frames' = 1..(Len(work) - 1) /\ (work' = <<>> <=> Len(work) = 1)
         /\ \A i \in Frames' : Node(i)' = Node(i) /\ work'[i].todo = work[i].todo /\ i \in Frames
         /\ Front(work) = work' /\ Top.node = Node(Len(work)) /\ work[Len(work)].todo = {}
         /\ work' # <<>> => Last(Front(work)).node = Node(Len(work) - 1)
<1> DEFINE n == Len(work)
<1>1. work \in Seq(Frame) /\ work # <<>> /\ work' = Front(work) /\ Top = Last(work) /\ Top.todo = {}
  BY DEF Finish, Top, TarjanInv, TarjanTypes
<1>2. /\ work' \in Seq(Frame) /\ n \in Nat \ {0} /\ Len(work') = n - 1 /\ Last(work) = work[n]
      /\ \A i \in 1..(n - 1) : work'[i] = work[i]
  BY <1>1, FrontIs
<1>3. Frames = 1..n /\ Frames' = 1..(n - 1) /\ (work' = <<>> <=> n = 1)
  BY <1>2 DEF Frames
<1>4. \A i \in Frames' : Node(i)' = Node(i) /\ work'[i].todo = work[i].todo /\ i \in Frames
  BY <1>2, <1>3 DEF Node
<1>5. ASSUME work' # <<>> PROVE Last(Front(work)).node = Node(n - 1)
  <2>1. Last(work') = work'[n - 1] /\ n - 1 \in 1..(n - 1)
    <3>1. Last(work') = work'[Len(work')]
      BY <1>5, <1>2, FrontIs
    <3> QED
      BY <3>1, <1>5, <1>2, <1>3
  <2> QED
    BY <2>1, <1>1, <1>2 DEF Node
<1>6. Top.node = Node(n) /\ work[n].todo = {} /\ n \in Frames
  BY <1>1, <1>2, <1>3 DEF Node
<1> QED
  BY <1>1, <1>2, <1>3, <1>4, <1>5, <1>6

\* What the top module m has on the stack, and the module below it.
LEMMA FinishTop ==
  ASSUME TarjanInv, Finish, NEW n, n = Len(work), NEW m, m = Node(n)
  PROVE  /\ m \in OnStack /\ m \in Modules /\ low[m] <= index[m]
         /\ \A x \in OnStack : index[m] <= index[x] => Reaches(m, x) /\ low[m] <= low[x]
         /\ \A x \in OnStack : index[m] < index[x] => \A i \in Frames : Node(i) # x
         /\ \A i \in Frames : i # n => index[Node(i)] < index[m] /\ Node(i) # m
         /\ low[m] # index[m] => n # 1
         /\ \A x \in OnStack : index[x] < index[m] => n # 1
<1>a. TarjanTypes /\ StackOrder /\ LowOf(m) /\ FrameOf(n) /\ n \in Frames /\ m \in OnStack
  BY FinishFrames DEF TarjanInv, StackOrder
<1>b. /\ OnStack \subseteq Found /\ m \in Modules
      /\ \A x \in OnStack : index[x] \in Nat /\ low[x] \in Nat
      /\ \A x \in OnStack : index[x] = index[m] => x = m
  BY <1>a DEF TarjanTypes
<1>c. n \in Nat /\ Frames = 1..n
  BY <1>a DEF Frames, TarjanTypes
<1>1. \A i \in Frames : i # n => index[Node(i)] < index[m]
  BY <1>a, <1>c DEF StackOrder
<1>2. \A i \in Frames : i # n => Node(i) # m
  BY <1>1, <1>a, <1>b
<1>3. \A x \in OnStack : index[m] < index[x] => \A i \in Frames : Node(i) # x
  BY <1>1, <1>a, <1>b
<1>4. ASSUME NEW x \in OnStack, index[m] <= index[x] PROVE Reaches(m, x) /\ low[m] <= low[x]
  <2>1. Reaches(m, x)
    BY <1>4, <1>a DEF FrameOf
  <2>2. CASE x = m
    BY <2>1, <2>2, <1>b
  <2>3. CASE x # m
    <3>1. index[Node(n)] < index[x]
      BY <2>3, <1>4, <1>a, <1>b
    <3>2. \A j \in Frames : n < j => index[x] < index[Node(j)]
      BY <1>c
    <3> QED
      BY <2>1, <3>1, <3>2, <1>a DEF FrameOf
  <2> QED
    BY <2>2, <2>3
<1>5. \A x \in OnStack : index[x] < index[m] => n # 1
  BY <1>a, <1>b DEF StackOrder
<1>6. low[m] # index[m] => n # 1
  <2>1. PICK z \in OnStack : index[z] = low[m]
    BY <1>a DEF LowOf
  <2>2. low[m] <= index[m]
    BY <1>a DEF LowOf
  <2> QED
    BY <2>1, <2>2, <1>5, <1>a, <1>b
<1> QED
  BY <1>1, <1>2, <1>3, <1>4, <1>5, <1>6, <1>a, <1>b DEF LowOf

\* A finished module that is not the root of its component hands its `low` down.
LEMMA HandDownKeeps ==
  ASSUME TarjanInv, UNCHANGED edges, Finish, low[Top.node] # index[Top.node]
  PROVE  TarjanInv'
<1>n. PICK n, m, p : n = Len(work) /\ m = Node(n) /\ p = Node(n - 1)
  OBVIOUS
<1>a. /\ TarjanTypes /\ StackOrder /\ ClosedOff
      /\ \A x \in OnStack : LowOf(x)
      /\ \A k \in Frames : FrameOf(k)
  BY DEF TarjanInv
<1>1. /\ UNCHANGED <<index, stack, cycles>>
      /\ Found' = Found /\ OnStack' = OnStack /\ Closed' = Closed
  <2>1. UNCHANGED <<index, stack, cycles>>
    BY DEF Finish
  <2> QED
    BY <2>1 DEF Found, OnStack, Closed
<1>2. /\ m \in OnStack /\ m \in Found /\ low[m] <= index[m] /\ low[m] # index[m]
      /\ \A x \in OnStack : index[m] <= index[x] => Reaches(m, x) /\ low[m] <= low[x]
      /\ n \in Frames /\ n # 1 /\ Frames = 1..n /\ n \in Nat
  BY <1>n, <1>a, FinishTop, FinishFrames DEF TarjanTypes, Frames
<1>3. /\ work' \in Seq(Frame) /\ Frames' = 1..(n - 1) /\ work' # <<>> /\ n - 1 \in Frames'
      /\ \A i \in Frames' : Node(i)' = Node(i) /\ work'[i].todo = work[i].todo /\ i \in Frames
  BY <1>n, <1>2, FinishFrames
<1>4. p \in OnStack /\ p \in Found /\ p \in Modules /\ m \in Modules /\ index[p] < index[m] /\ p # m
  <2>1. n - 1 \in Frames /\ n - 1 # n
    BY <1>2, <1>3
  <2>2. \A i \in Frames : i # n => index[Node(i)] < index[m] /\ Node(i) # m
    BY <1>n, FinishTop
  <2>3. Node(n - 1) \in OnStack
    BY <2>1, <1>a DEF StackOrder
  <2> QED
    BY <2>1, <2>2, <2>3, <1>n, <1>2, <1>a DEF TarjanTypes
<1>5. /\ low' \in [Found -> Nat]
      /\ \A x \in Found : x # p => low'[x] = low[x]
      /\ low'[p] <= low[p] /\ low'[p] <= low[m]
      /\ low'[p] = low[p] \/ low'[p] = low[m]
  <2>1. low \in [Found -> Nat] /\ low[m] \in Nat /\ low[p] \in Nat
    BY <1>a, <1>2, <1>4 DEF TarjanTypes
  <2>2. low' = [low EXCEPT ![p] = Lesser(low[p], low[m])]
    BY <1>n, <1>3, FinishFrames DEF Finish
  <2>3. /\ Lesser(low[p], low[m]) \in Nat
        /\ Lesser(low[p], low[m]) <= low[p] /\ Lesser(low[p], low[m]) <= low[m]
        /\ Lesser(low[p], low[m]) = low[p] \/ Lesser(low[p], low[m]) = low[m]
    BY <2>1 DEF Lesser
  <2> QED
    BY <2>1, <2>2, <2>3, <1>4
<1>6. \A x \in Found : low'[x] \in Nat /\ low[x] \in Nat /\ index[x] \in Nat /\ low'[x] <= low[x]
  BY <1>a, <1>5 DEF TarjanTypes
<1>7. TarjanTypes'
  <2>1. \A i \in Frames' : work'[i].todo \subseteq Deps(Node(i)')
    BY <1>3, <1>a DEF TarjanTypes
  <2> QED
    BY <2>1, <1>1, <1>3, <1>5, <1>a, SameGraph DEF TarjanTypes
<1>8. StackOrder'
  <2>1. Node(1)' = Node(1)
    BY <1>2, <1>3
  <2>2. \A i, j \in Frames' : i < j => index'[Node(i)'] < index'[Node(j)']
    BY <1>1, <1>3, <1>a DEF StackOrder
  <2>3. \A i \in Frames' : Node(i)' \in OnStack'
    BY <1>1, <1>3, <1>a DEF StackOrder
  <2> QED
    BY <2>1, <2>2, <2>3, <1>1, <1>3, <1>a DEF StackOrder
<1>9. ASSUME NEW x, NEW d, Looked(x, d)' PROVE Looked(x, d)
  <2>1. ASSUME NEW i \in Frames, Node(i) = x PROVE d \notin work[i].todo
    <3>1. CASE i = n
      BY <3>1, <1>n, FinishFrames
    <3>2. CASE i # n
      <4>1. i \in Frames'
        BY <3>2, <1>2, <1>3
      <4> QED
        BY <4>1, <2>1, <1>9, <1>3 DEF Looked
    <3> QED
      BY <3>1, <3>2
  <2> QED
    BY <2>1 DEF Looked
<1>10. ASSUME NEW x \in OnStack' PROVE LowOf(x)'
  <2>1. x \in OnStack /\ x \in Found /\ LowOf(x)
    BY <1>1, <1>a DEF TarjanTypes
  <2>2. low'[x] <= index'[x]
    BY <2>1, <1>1, <1>6 DEF LowOf
  <2>3. \E z \in OnStack' : index'[z] = low'[x] /\ Reaches(x, z)'
    <3>1. CASE low'[x] = low[x]
      BY <3>1, <2>1, <1>1, SameGraph DEF LowOf
    <3>2. CASE x = p /\ low'[p] = low[m]
      <4>1. PICK z \in OnStack : index[z] = low[m] /\ Reaches(m, z)
        BY <1>2, <1>a DEF LowOf
      <4>2. Reaches(p, m) /\ z \in Modules
        BY <1>2, <1>3, <1>4, <1>a, <1>n DEF FrameOf, TarjanTypes
      <4>3. Reaches(p, z)
        BY <4>1, <4>2, <1>4, ReachesOn
      <4> QED
        BY <3>2, <4>1, <4>3, <1>1, SameGraph
    <3> QED
      BY <3>1, <3>2, <2>1, <1>5
  <2>4. (\A i \in Frames' : Node(i)' # x) => low'[x] < index'[x]
    <3>1. CASE x = m
      BY <3>1, <1>1, <1>2, <1>6, <2>1
    <3>2. CASE x # m
      <4> SUFFICES ASSUME \A i \in Frames' : Node(i)' # x PROVE low[x] < index[x]
        BY <1>1, <1>6, <2>1
      <4>1. \A i \in Frames : Node(i) # x
        BY <3>2, <1>n, <1>2, <1>3
      <4> QED
        BY <4>1, <2>1 DEF LowOf
    <3> QED
      BY <3>1, <3>2
  <2>5. ASSUME NEW d \in Deps(x), Looked(x, d)'
        PROVE  d \in Found' /\ (d \in OnStack' => low'[x] <= index'[d])
    <3>1. d \in Found /\ (d \in OnStack => low[x] <= index[d])
      BY <2>5, <1>9, <2>1 DEF LowOf
    <3> QED
      BY <3>1, <2>1, <1>1, <1>6
  <2> QED
    BY <2>2, <2>3, <2>4, <2>5, SameGraph DEF LowOf
<1>11. ASSUME NEW k \in Frames' PROVE FrameOf(k)'
  <2>1. k \in Frames /\ k # n /\ k <= n - 1 /\ FrameOf(k) /\ Node(k)' = Node(k) /\ Node(k) \in Found
    BY <1>2, <1>3, <1>a DEF TarjanTypes, StackOrder
  <2> SUFFICES ASSUME NEW y \in OnStack'
               PROVE  /\ index[Node(k)] <= index[y] => Reaches(Node(k), y)
                      /\ /\ index[Node(k)] < index[y]
                         /\ \A j \in Frames' : k < j => index[y] < index[Node(j)]
                         => low'[Node(k)] <= low'[y]
    BY <2>1, <1>1, <1>3, SameGraph DEF FrameOf
  <2>2. y \in OnStack /\ y \in Found
    BY <1>1, <1>a DEF TarjanTypes
  <2>3. ASSUME index[Node(k)] < index[y], \A j \in Frames' : k < j => index[y] < index[Node(j)]
        PROVE  low'[Node(k)] <= low'[y]
    <3>1. y # p
      <4>1. CASE k < n - 1
        BY <4>1, <2>2, <2>3, <1>3, <1>n, <1>6
      <4>2. CASE k = n - 1
        BY <4>2, <2>1, <2>2, <2>3, <1>n, <1>6
      <4> QED
        BY <4>1, <4>2, <2>1, <1>2
    <3>2. low'[y] = low[y]
      BY <3>1, <2>2, <1>5
    <3>3. CASE index[y] < index[m]
      <4>1. \A j \in Frames : k < j => index[y] < index[Node(j)]
        BY <2>3, <3>3, <1>n, <1>2, <1>3
      <4>2. low[Node(k)] <= low[y]
        BY <4>1, <2>1, <2>2, <2>3 DEF FrameOf
      <4> QED
        BY <3>2, <4>2, <2>1, <2>2, <1>6
    <3>4. CASE index[m] <= index[y]
      <4>1. k = n - 1
        <5>1. CASE k < n - 1
          <6>1. index[y] < index[p]
            BY <5>1, <2>3, <1>n, <1>3
          <6> QED
            BY <6>1, <3>4, <1>2, <1>4, <1>6, <2>2
        <5> QED
          BY <5>1, <2>1, <1>2
      <4>2. low[m] <= low[y]
        BY <3>4, <2>2, <1>2
      <4> QED
        BY <3>2, <4>1, <4>2, <1>n, <1>2, <1>4, <1>5, <1>6, <2>2
    <3> QED
      BY <3>3, <3>4, <2>2, <1>2, <1>6
  <2> QED
    BY <2>1, <2>2, <2>3 DEF FrameOf
<1>12. ClosedOff'
  BY <1>1, <1>a, SameGraph DEF ClosedOff
<1> QED
  BY <1>7, <1>8, <1>10, <1>11, <1>12 DEF TarjanInv

\* The stack below m, and what is popped with it.
LEMMA PopIs ==
  ASSUME stack \in Seq(Modules), NEW m \in OnStack,
         \A i, j \in 1..Len(stack) : i < j => index[stack[i]] < index[stack[j]],
         \A x \in OnStack : index[x] \in Nat,
         NEW at, at = Min({i \in 1..Len(stack) : stack[i] = m})
  PROVE  /\ SubSeq(stack, 1, at - 1) \in Seq(Modules)
         /\ \A i \in 1..Len(SubSeq(stack, 1, at - 1)) : /\ i \in 1..Len(stack)
                                                        /\ SubSeq(stack, 1, at - 1)[i] = stack[i]
         /\ ToSet(SubSeq(stack, 1, at - 1)) = {x \in OnStack : index[x] < index[m]}
         /\ {stack[i] : i \in at..Len(stack)} = {x \in OnStack : index[m] <= index[x]}
<1> DEFINE I == {i \in 1..Len(stack) : stack[i] = m}
           below == SubSeq(stack, 1, at - 1)
<1>2. I \in SUBSET Nat /\ I # {}
  BY DEF OnStack, ToSet
<1>3. at \in I
  BY <1>2, MinNat
<1>4. at \in 1..Len(stack) /\ stack[at] = m /\ Len(stack) \in Nat
  BY <1>3
<1>5. \A i \in 1..Len(stack) : stack[i] \in OnStack /\ stack[i] \in Modules
  BY DEF OnStack, ToSet
<1>6. \A i \in 1..(at - 1) : i \in 1..Len(stack)
  BY <1>4
<1>7. /\ below \in Seq(Modules) /\ Len(below) = at - 1
      /\ \A i \in 1..(at - 1) : below[i] = stack[i]
  <2>1. at - 1 \in 0..Len(stack)
    BY <1>4
  <2> QED
    BY <2>1, PrefixIs
<1>8. \A i \in 1..Len(stack) : /\ i < at => index[stack[i]] < index[m]
                               /\ at <= i => index[m] <= index[stack[i]]
  BY <1>4, <1>5
<1> HIDE DEF below, I
<1>9. ToSet(below) = {x \in OnStack : index[x] < index[m]}
  <2>1. ToSet(below) = {below[i] : i \in 1..(at - 1)}
    <3>1. DOMAIN below = 1..(at - 1)
      BY <1>7
    <3> QED
      BY <3>1 DEF ToSet
  <2>2. ASSUME NEW x \in ToSet(below) PROVE x \in OnStack /\ index[x] < index[m]
    <3>1. PICK i \in 1..(at - 1) : x = stack[i]
      BY <2>1, <2>2, <1>7
    <3> QED
      BY <3>1, <1>4, <1>5, <1>6, <1>8
  <2>3. ASSUME NEW x \in OnStack, index[x] < index[m] PROVE x \in ToSet(below)
    <3>1. PICK i \in 1..Len(stack) : x = stack[i]
      BY DEF OnStack, ToSet
    <3>2. i \in 1..(at - 1)
      BY <3>1, <2>3, <1>4, <1>5, <1>8
    <3> QED
      BY <3>1, <3>2, <2>1, <1>7
  <2> QED
    BY <2>2, <2>3
<1>10. {stack[i] : i \in at..Len(stack)} = {x \in OnStack : index[m] <= index[x]}
  <2>1. ASSUME NEW i \in at..Len(stack) PROVE stack[i] \in OnStack /\ index[m] <= index[stack[i]]
    BY <1>4, <1>5, <1>8
  <2>2. ASSUME NEW x \in OnStack, index[m] <= index[x] PROVE \E i \in at..Len(stack) : x = stack[i]
    <3>1. PICK i \in 1..Len(stack) : x = stack[i]
      BY DEF OnStack, ToSet
    <3>2. i \in at..Len(stack)
      BY <3>1, <2>2, <1>4, <1>5, <1>8
    <3> QED
      BY <3>1, <3>2
  <2> QED
    BY <2>1, <2>2
<1> QED
  BY <1>6, <1>7, <1>9, <1>10 DEF below

\* What lies on the stack from a root m upwards is a component.
LEMMA Popped ==
  ASSUME TarjanInv, Finish, NEW m, m = Node(Len(work)), low[m] = index[m],
         NEW above, above = {x \in OnStack : index[m] <= index[x]}
  PROVE  /\ \A x \in Closed \union above : Deps(x) \subseteq Closed \union above
         /\ \A x \in above : Component(x) = above
<1>n. PICK n : n = Len(work)
  OBVIOUS
<1>a. /\ TarjanTypes /\ ClosedOff /\ \A x \in OnStack : LowOf(x)
      /\ above \subseteq OnStack /\ OnStack \subseteq Found /\ Found \subseteq Modules
      /\ \A x \in Found : index[x] \in Nat /\ low[x] \in Nat
      /\ Closed \subseteq Modules /\ edges \subseteq Edges
  BY DEF TarjanInv, TarjanTypes, Closed
<1>b. /\ m \in above /\ m \in Modules /\ m \in Found
      /\ \A x \in above : Reaches(m, x) /\ low[m] <= low[x]
      /\ \A i \in Frames : i # n => index[Node(i)] < index[m]
      /\ work[n].todo = {}
  BY <1>n, <1>a, FinishTop, FinishFrames
<1>1. ASSUME NEW x \in above, NEW d \in Deps(x) PROVE d \in Closed \union above
  <2>1. Looked(x, d)
    <3>1. ASSUME NEW i \in Frames, Node(i) = x PROVE i = n
      BY <3>1, <1>a, <1>b
    <3> QED
      BY <3>1, <1>b DEF Looked
  <2>2. d \in Found /\ (d \in OnStack => low[x] <= index[d])
    BY <2>1, <1>a DEF LowOf
  <2>3. CASE d \in OnStack
    BY <2>2, <2>3, <1>a, <1>b
  <2>4. CASE d \notin OnStack
    BY <2>2, <2>4 DEF Closed
  <2> QED
    BY <2>3, <2>4
<1>2. \A x \in Closed : Deps(x) \subseteq Closed
  BY <1>a DEF ClosedOff
<1>3. \A x \in Closed \union above : Deps(x) \subseteq Closed \union above
  BY <1>1, <1>2
<1>4. \A x \in above : Reaches(x, m)
  <2> SUFFICES ASSUME NEW w \in above, ~Reaches(w, m) PROVE FALSE
    OBVIOUS
  <2> DEFINE Bad == {x \in above : ~Reaches(x, m)}
             At == {index[x] : x \in Bad}
  <2>1. At \in SUBSET Nat /\ At # {}
    BY <1>a
  <2>2. PICK x \in Bad : \A y \in Bad : index[x] <= index[y]
    <3>1. Min(At) \in At /\ \A y \in At : Min(At) <= y
      BY <2>1, MinNat
    <3>2. PICK x \in Bad : index[x] = Min(At)
      BY <3>1
    <3> QED
      BY <3>1, <3>2
  <2>3. x \in above /\ x # m /\ index[m] < index[x]
    <3>1. x # m
      BY <1>b, ReachesSelf
    <3>2. index[x] # index[m]
      BY <3>1, <1>a, <1>b DEF TarjanTypes
    <3> QED
      BY <3>1, <3>2, <1>a, <1>b
  <2>4. low[x] < index[x]
    <3>1. \A i \in Frames : Node(i) # x
      BY <2>3, <1>n, <1>a, FinishTop
    <3> QED
      BY <3>1, <2>3, <1>a DEF LowOf
  <2>5. PICK z \in OnStack : index[z] = low[x] /\ Reaches(x, z)
    BY <2>3, <1>a DEF LowOf
  <2>6. z \in above /\ index[z] < index[x]
    BY <2>3, <2>4, <2>5, <1>a, <1>b
  <2>7. Reaches(z, m)
    BY <2>2, <2>6, <1>a
  <2>8. Reaches(x, m)
    BY <2>3, <2>5, <2>6, <2>7, <1>a, <1>b, ReachesOn
  <2> QED
    BY <2>8
<1>5. ASSUME NEW x \in above PROVE Component(x) = above
  <2>1. ASSUME NEW y \in above PROVE y \in Component(x)
    <3>1. Reaches(x, y) /\ Reaches(y, x)
      BY <1>4, <1>b, <1>a, ReachesOn
    <3> QED
      BY <3>1, <1>a DEF Component
  <2>2. ASSUME NEW y \in Component(x) PROVE y \in above
    <3>1. y \in Modules /\ Reaches(x, y) /\ Reaches(y, x)
      BY <2>2 DEF Component
    <3>2. y \in Closed \union above
      BY <3>1, <1>3, <1>a, ReachesWithin
    <3>3. y \in Closed => x \in Closed
      BY <3>1, <1>2, <1>a, ReachesWithin
    <3> QED
      BY <3>2, <3>3, <1>a DEF Closed
  <2> QED
    BY <2>1, <2>2
<1> QED
  BY <1>3, <1>5

\* The root of a component takes it from the stack.
LEMMA PopKeeps ==
  ASSUME TarjanInv, UNCHANGED edges, Finish, low[Top.node] = index[Top.node]
  PROVE  TarjanInv'
<1>n. PICK n, m, above : /\ n = Len(work) /\ m = Node(n)
                         /\ above = {x \in OnStack : index[m] <= index[x]}
  OBVIOUS
<1>a. /\ TarjanTypes /\ StackOrder /\ ClosedOff
      /\ \A x \in OnStack : LowOf(x)
      /\ \A k \in Frames : FrameOf(k)
      /\ OnStack \subseteq Found /\ Found \subseteq Modules
      /\ \A x \in Found : index[x] \in Nat /\ low[x] \in Nat
  BY DEF TarjanInv, TarjanTypes
<1>1. /\ m \in OnStack /\ low[m] = index[m] /\ n \in Frames /\ Frames = 1..n /\ n \in Nat
      /\ \A x \in OnStack : index[x] < index[m] => n # 1
      /\ \A i \in Frames : i # n => index[Node(i)] < index[m] /\ Node(i) # m
  BY <1>n, <1>a, FinishTop, FinishFrames DEF TarjanTypes, Frames
<1>2. /\ work' \in Seq(Frame) /\ Frames' = 1..(n - 1) /\ (work' = <<>> <=> n = 1)
      /\ \A i \in Frames' : Node(i)' = Node(i) /\ work'[i].todo = work[i].todo /\ i \in Frames
      /\ \A i \in Frames : i # n => i \in Frames'
      /\ \A i \in Frames' : i < n
  BY <1>n, <1>1, FinishFrames
<1>3. /\ UNCHANGED index /\ stack' \in Seq(Modules)
      /\ \A i \in 1..Len(stack') : i \in 1..Len(stack) /\ stack'[i] = stack[i]
      /\ OnStack' = {x \in OnStack : index[x] < index[m]}
      /\ cycles' = IF Cardinality(above) > 1 THEN cycles \union {above} ELSE cycles
  <2>1. PICK at : at = Min({i \in 1..Len(stack) : stack[i] = m})
    OBVIOUS
  <2>4. {i \in 1..Len(stack) : stack[i] = m} # {} /\ Top.node = m
    <3>1. DOMAIN stack = 1..Len(stack) /\ m \in {stack[i] : i \in DOMAIN stack}
      BY <1>1, <1>a DEF TarjanTypes, OnStack, ToSet
    <3>2. Top.node = m
      BY <1>n, FinishFrames
    <3> QED
      BY <3>1, <3>2
  <2>5. at = SelectInSeq(stack, LAMBDA x : x = Top.node)
    BY <2>1, <2>4 DEF SelectInSeq
  <2>2. /\ UNCHANGED index /\ stack' = SubSeq(stack, 1, at - 1)
        /\ cycles' = IF Cardinality({stack[i] : i \in at..Len(stack)}) > 1
                     THEN cycles \union {{stack[i] : i \in at..Len(stack)}} ELSE cycles
    <3>1. UNCHANGED index
      BY DEF Finish
    <3>2. stack' = SubSeq(stack, 1, at - 1)
      BY <2>5 DEF Finish
    <3>3. cycles' = IF Cardinality({stack[i] : i \in at..Len(stack)}) > 1
                    THEN cycles \union {{stack[i] : i \in at..Len(stack)}} ELSE cycles
      BY <2>5 DEF Finish
    <3> QED
      BY <3>1, <3>2, <3>3
  <2>3. /\ SubSeq(stack, 1, at - 1) \in Seq(Modules)
        /\ \A i \in 1..Len(SubSeq(stack, 1, at - 1)) : /\ i \in 1..Len(stack)
                                                       /\ SubSeq(stack, 1, at - 1)[i] = stack[i]
        /\ ToSet(SubSeq(stack, 1, at - 1)) = {x \in OnStack : index[x] < index[m]}
        /\ {stack[i] : i \in at..Len(stack)} = above
    <3>1. /\ stack \in Seq(Modules)
          /\ \A i, j \in 1..Len(stack) : i < j => index[stack[i]] < index[stack[j]]
          /\ \A x \in OnStack : index[x] \in Nat
      BY <1>a DEF TarjanTypes, StackOrder
    <3>2. {stack[i] : i \in at..Len(stack)} = {x \in OnStack : index[m] <= index[x]}
      BY <2>1, <3>1, <1>1, PopIs
    <3> QED
      BY <2>1, <3>1, <3>2, <1>1, <1>n, PopIs
  <2> QED
    BY <2>2, <2>3 DEF OnStack
<1>4. low' = low
  <2>1. CASE n = 1
    BY <2>1, <1>2, <1>n, FinishFrames DEF Finish
  <2>2. CASE n # 1
    <3> DEFINE p == Node(n - 1)
    <3>1. n - 1 \in Frames
      BY <2>2, <1>1
    <3>2. p \in Found /\ low[p] <= index[p] /\ index[p] < index[m]
      <4>1. p \in OnStack /\ LowOf(p) /\ n - 1 # n
        BY <3>1, <1>1, <1>a DEF StackOrder
      <4> QED
        BY <4>1, <3>1, <1>1, <1>a DEF LowOf
    <3>3. low' = [low EXCEPT ![p] = Lesser(low[p], low[m])]
      BY <2>2, <1>2, <1>n, FinishFrames DEF Finish
    <3>4. Lesser(low[p], low[m]) = low[p]
      BY <3>2, <1>1, <1>a DEF Lesser
    <3> QED
      BY <3>2, <3>3, <3>4, <1>a DEF TarjanTypes
  <2> QED
    BY <2>1, <2>2
<1>5. /\ Found' = Found /\ OnStack' \subseteq OnStack /\ Closed' = Closed \union above
      /\ m \in above /\ above \subseteq OnStack
  BY <1>n, <1>1, <1>3, <1>a DEF Found, Closed
<1>6. TarjanTypes'
  <2>1. \A i \in Frames' : work'[i].todo \subseteq Deps(Node(i)')
    BY <1>2, <1>a DEF TarjanTypes
  <2>2. OnStack' \subseteq Found'
    BY <1>5, <1>a
  <2> QED
    BY <2>1, <2>2, <1>2, <1>3, <1>4, <1>5, <1>a, SameGraph DEF TarjanTypes
<1>7. StackOrder'
  <2>1. \A i, j \in 1..Len(stack') : i < j => index'[stack'[i]] < index'[stack'[j]]
    BY <1>3, <1>a DEF StackOrder
  <2>2. \A i, j \in Frames' : i < j => index'[Node(i)'] < index'[Node(j)']
    BY <1>2, <1>3, <1>a DEF StackOrder
  <2>3. \A i \in Frames' : Node(i)' \in OnStack'
    BY <1>1, <1>2, <1>3, <1>a DEF StackOrder
  <2>4. ASSUME NEW x \in OnStack' PROVE work' # <<>> /\ index'[Node(1)'] <= index'[x]
    <3>1. n # 1 /\ x \in OnStack /\ 1 \in Frames'
      BY <1>1, <1>2, <1>3
    <3>2. Node(1)' = Node(1)
      BY <3>1, <1>2
    <3> QED
      BY <3>1, <3>2, <1>2, <1>3, <1>a DEF StackOrder
  <2> QED
    BY <2>1, <2>2, <2>3, <2>4 DEF StackOrder
<1>8. ASSUME NEW x, NEW d, Looked(x, d)', x # m PROVE Looked(x, d)
  BY <1>8, <1>n, <1>2 DEF Looked
<1>9. ASSUME NEW x \in OnStack' PROVE LowOf(x)'
  <2>1. x \in OnStack /\ x \in Found /\ index[x] < index[m] /\ x # m /\ LowOf(x)
    BY <1>1, <1>3, <1>a
  <2>2. \E z \in OnStack' : index[z] = low[x] /\ Reaches(x, z)
    <3>1. PICK z \in OnStack : index[z] = low[x] /\ Reaches(x, z)
      BY <2>1 DEF LowOf
    <3>2. index[z] < index[m]
      BY <3>1, <2>1, <1>1, <1>a DEF LowOf
    <3> QED
      BY <3>1, <3>2, <1>3
  <2>3. ASSUME \A i \in Frames' : Node(i)' # x PROVE low[x] < index[x]
    <3>1. \A i \in Frames : Node(i) # x
      BY <2>1, <2>3, <1>n, <1>2
    <3> QED
      BY <3>1, <2>1 DEF LowOf
  <2>4. ASSUME NEW d \in Deps(x), Looked(x, d)'
        PROVE  d \in Found' /\ (d \in OnStack' => low[x] <= index[d])
    <3>1. Looked(x, d)
      BY <2>1, <2>4, <1>8
    <3> QED
      BY <3>1, <2>1, <1>5 DEF LowOf
  <2> QED
    BY <2>1, <2>2, <2>3, <2>4, <1>3, <1>4, SameGraph DEF LowOf
<1>10. ASSUME NEW k \in Frames' PROVE FrameOf(k)'
  <2>1. k \in Frames /\ FrameOf(k) /\ Node(k)' = Node(k)
    BY <1>2, <1>a
  <2> SUFFICES ASSUME NEW y \in OnStack'
               PROVE  /\ index[Node(k)] <= index[y] => Reaches(Node(k), y)
                      /\ /\ index[Node(k)] < index[y]
                         /\ \A j \in Frames' : k < j => index[y] < index[Node(j)]
                         => low[Node(k)] <= low[y]
    BY <2>1, <1>2, <1>3, <1>4, SameGraph DEF FrameOf
  <2>2. y \in OnStack /\ index[y] < index[m]
    BY <1>3
  <2>3. (\A j \in Frames' : k < j => index[y] < index[Node(j)])
           => \A j \in Frames : k < j => index[y] < index[Node(j)]
    BY <2>2, <1>n, <1>2
  <2> QED
    BY <2>1, <2>2, <2>3 DEF FrameOf
<1>11. ClosedOff'
  <2>1. /\ \A x \in Closed \union above : Deps(x) \subseteq Closed \union above
        /\ \A x \in above : Component(x) = above
    BY <1>n, <1>1, Popped
  <2>2. \A x \in Closed' : Deps(x)' \subseteq Closed'
    BY <2>1, <1>5, SameGraph
  <2>3. {Component(x) : x \in Closed'} = {Component(x) : x \in Closed} \union {above}
    BY <2>1, <1>5
  <2>4. cycles' = {c \in {Component(x) : x \in Closed'} : Cardinality(c) > 1}
    BY <2>3, <1>3, <1>a DEF ClosedOff
  <2> QED
    BY <2>2, <2>4, SameGraph DEF ClosedOff
<1> QED
  BY <1>6, <1>7, <1>9, <1>10, <1>11 DEF TarjanInv

LEMMA TarjanStep == TarjanInv /\ UNCHANGED edges /\ FindCycles => TarjanInv'
  BY NextRootKeeps, DescendKeeps, LookBackKeeps, HandDownKeeps, PopKeeps DEF FindCycles

(***************************************************************************)
(* What the invariant says of the result.                                  *)
(***************************************************************************)

LEMMA TarjanResult == TarjanInv => CyclesAreComponents /\ LowLinks
<1> SUFFICES ASSUME TarjanInv PROVE CyclesAreComponents /\ LowLinks
  OBVIOUS
<1>a. TarjanTypes /\ StackOrder /\ ClosedOff /\ \A x \in OnStack : LowOf(x)
  BY DEF TarjanInv
<1>1. CyclesAreComponents
  <2> SUFFICES ASSUME CyclesFound
               PROVE  cycles = {c \in {Component(m) : m \in Modules} : Cardinality(c) > 1}
    BY DEF CyclesAreComponents
  <2>1. Closed = Modules
    BY <1>a DEF CyclesFound, StackOrder, Unvisited, Closed, Found, TarjanTypes
  <2> QED
    BY <2>1, <1>a DEF ClosedOff
<1>2. ASSUME NEW i \in 1..Len(stack)
      PROVE  /\ low[stack[i]] <= index[stack[i]]
             /\ \E j \in 1..i : index[stack[j]] = low[stack[i]]
  <2>1. stack[i] \in OnStack /\ Len(stack) \in Nat /\ LowOf(stack[i])
    BY <1>a DEF OnStack, ToSet, TarjanTypes
  <2>2. PICK j \in 1..Len(stack) : index[stack[j]] = low[stack[i]]
    BY <2>1 DEF LowOf, OnStack, ToSet
  <2>3. low[stack[i]] <= index[stack[i]] /\ index[stack[i]] \in Nat /\ index[stack[j]] \in Nat
    BY <2>1, <1>a DEF LowOf, OnStack, ToSet, TarjanTypes
  <2>4. j <= i
    BY <2>1, <2>2, <2>3, <1>a DEF StackOrder
  <2> QED
    BY <2>1, <2>2, <2>3, <2>4
<1>3. LowLinks
  BY <1>2, <1>a DEF LowLinks, StackOrder, OnStack, Node, Frames
<1> QED
  BY <1>1, <1>3

(***************************************************************************)
(* The levels.                                                             *)
(***************************************************************************)

\* The values of a function on a finite set.
LEMMA FiniteImage ==
  ASSUME NEW S, IsFiniteSet(S), NEW f
  PROVE  IsFiniteSet({f[x] : x \in S})
<1> DEFINE T == {f[x] : x \in S}
           g == [x \in S |-> f[x]]
<1>1. g \in Surjection(S, T)
  BY DEF Surjection
<1> QED
  BY <1>1, FS_Surjection

\* What Max of the community modules chooses.
LEMMA MaxNat ==
  ASSUME NEW T \in SUBSET Nat, T # {}, IsFiniteSet(T)
  PROVE  Max(T) \in T /\ \A y \in T : y <= Max(T)
<1> DEFINE above == [x \in T |-> {y \in T : x < y}]
           K == {Cardinality(above[x]) : x \in T}
<1>1. \A x \in T : IsFiniteSet(above[x]) /\ Cardinality(above[x]) \in Nat
  BY FS_Subset, FS_CardinalityType
<1>2. PICK x \in T : \A y \in T : Cardinality(above[x]) <= Cardinality(above[y])
  <2>1. K \in SUBSET Nat /\ K # {}
    BY <1>1
  <2>2. Min(K) \in K /\ \A k \in K : Min(K) <= k
    BY <2>1, MinNat
  <2>3. PICK x \in T : Cardinality(above[x]) = Min(K)
    BY <2>2
  <2> QED
    BY <2>2, <2>3
<1>3. \A y \in T : y <= x
  <2> SUFFICES ASSUME NEW y \in T, x < y PROVE FALSE
    OBVIOUS
  <2>1. above[y] \in SUBSET above[x] /\ above[x] # above[y]
    <3>1. above[x] = {z \in T : x < z} /\ above[y] = {z \in T : y < z}
      OBVIOUS
    <3>2. y \in above[x] /\ y \notin above[y] /\ \A z \in T : z \in Nat
      BY <3>1
    <3>3. \A z \in above[y] : z \in above[x]
      BY <3>1, <3>2
    <3> QED
      BY <3>2, <3>3
  <2>2. Cardinality(above[y]) < Cardinality(above[x])
    <3>1. Cardinality(above[y]) <= Cardinality(above[x])
      BY <2>1, <1>1, FS_Subset
    <3>2. Cardinality(above[x]) # Cardinality(above[y])
      BY <2>1, <1>1, FS_Subset
    <3> QED
      BY <3>1, <3>2, <1>1
  <2> QED
    BY <2>2, <1>1, <1>2
<1>4. \E z \in T : \A y \in T : z >= y
  BY <1>3
<1> QED
  BY <1>4 DEF Max

\* What a module imports outside its cycle.
Below(m) == {d \in Deps(m) : ~SameCycle(m, d)}

\* The graph without the edges of its cycles has none: it can be sorted.
LEMMA BelowIsWellFounded ==
  ASSUME TarjanInv, CyclesFound, NEW S \in SUBSET Modules, S # {}
  PROVE  \E m \in S : Below(m) \intersect S = {}
<1> DEFINE reached == [m \in Modules |-> {x \in Modules : Reaches(m, x)}]
           K == {Cardinality(reached[m]) : m \in S}
<1>a. edges \subseteq Edges /\ CyclesAreComponents
  BY TarjanResult DEF TarjanInv, TarjanTypes
<1>1. \A m \in Modules : IsFiniteSet(reached[m]) /\ Cardinality(reached[m]) \in Nat
  BY ModulesAreNumbers, FS_Subset, FS_CardinalityType
<1>2. PICK m \in S : \A x \in S : Cardinality(reached[m]) <= Cardinality(reached[x])
  <2>1. K \in SUBSET Nat /\ K # {}
    BY <1>1
  <2>2. Min(K) \in K /\ \A k \in K : Min(K) <= k
    BY <2>1, MinNat
  <2>3. PICK x \in S : Cardinality(reached[x]) = Min(K)
    BY <2>2
  <2> QED
    BY <2>2, <2>3
<1> SUFFICES ASSUME NEW d \in S, d \in Deps(m), ~SameCycle(m, d) PROVE FALSE
  BY DEF Below
<1>3. Reaches(m, d) /\ d # m
  BY <1>a, ReachesDep DEF Deps, Edges
<1>4. ~Reaches(d, m)
  <2> SUFFICES ASSUME Reaches(d, m) PROVE FALSE
    OBVIOUS
  <2>1. m \in Component(m) /\ d \in Component(m)
    BY <1>3, ReachesSelf DEF Component
  <2>2. IsFiniteSet(Component(m)) /\ Cardinality(Component(m)) \in Nat
    BY ModulesAreNumbers, FS_Subset, FS_CardinalityType DEF Component
  <2>3. Cardinality(Component(m)) # 0 /\ Cardinality(Component(m)) # 1
    <3>1. Cardinality(Component(m)) # 0
      BY <2>1, <2>2, FS_EmptySet
    <3>2. Cardinality(Component(m)) # 1
      BY <2>1, <2>2, <1>3, FS_Singleton
    <3> QED
      BY <3>1, <3>2
  <2>4. Component(m) \in cycles
    BY <2>2, <2>3, <1>a DEF CyclesAreComponents
  <2> QED
    BY <2>1, <2>4 DEF SameCycle
<1>5. reached[d] \in SUBSET reached[m] /\ m \in reached[m] /\ m \notin reached[d]
  BY <1>3, <1>4, ReachesOn, ReachesSelf
<1>6. Cardinality(reached[d]) < Cardinality(reached[m])
  BY <1>5, <1>1, FS_Subset
<1> HIDE DEF reached, K
<1> QED
  BY <1>1, <1>2, <1>6

\* One step of the recursion of depth.
DepthOf(g, m) == Max({0} \union {g[d] + 1 : d \in {x \in Deps(m) : ~SameCycle(m, x)}})

LEMMA DepthOfIs ==
  ASSUME NEW m \in Modules, NEW g, \A d \in Below(m) : g[d] \in Nat
  PROVE  /\ DepthOf(g, m) \in Nat /\ \A d \in Below(m) : g[d] + 1 <= DepthOf(g, m)
         /\ \A h : (\A d \in Below(m) : h[d] = g[d]) => DepthOf(h, m) = DepthOf(g, m)
<1> DEFINE h == [d \in Below(m) |-> g[d] + 1]
           T == {h[d] : d \in Below(m)}
<1>1. IsFiniteSet(Below(m))
  BY ModulesAreNumbers, FS_Subset DEF Below, Deps
<1>2. IsFiniteSet(T) /\ T \in SUBSET Nat
  <2>1. \A d \in Below(m) : h[d] \in Nat
    OBVIOUS
  <2> HIDE DEF h
  <2> QED
    BY <2>1, <1>1, FiniteImage
<1>3. {0} \union T = {0} \union {g[d] + 1 : d \in {x \in Deps(m) : ~SameCycle(m, x)}}
  BY DEF Below
<1>4. IsFiniteSet({0} \union T) /\ {0} \union T \in SUBSET Nat /\ {0} \union T # {}
  <2>1. IsFiniteSet(T \union {0})
    BY <1>2, FS_AddElement
  <2>2. T \union {0} = {0} \union T
    OBVIOUS
  <2> HIDE DEF T
  <2> QED
    BY <2>1, <2>2, <1>2
<1>5. DepthOf(g, m) = Max({0} \union T)
  BY <1>3 DEF DepthOf
<1>6. DepthOf(g, m) \in Nat /\ \A d \in Below(m) : g[d] + 1 <= DepthOf(g, m)
  BY <1>4, <1>5, MaxNat
<1>7. ASSUME NEW k, \A d \in Below(m) : k[d] = g[d] PROVE DepthOf(k, m) = DepthOf(g, m)
  <2>1. {g[d] + 1 : d \in Below(m)} = {k[d] + 1 : d \in Below(m)}
    BY <1>7
  <2> QED
    BY <2>1 DEF DepthOf, Below
<1> QED
  BY <1>6, <1>7

\* A depth for every module, the same whatever it is computed from.
LEMMA DepthExists ==
  ASSUME TarjanInv, CyclesFound
  PROVE  \E g \in [Modules -> Nat] :
            /\ \A m \in Modules : g[m] = DepthOf(g, m)
            /\ \A h : (\A m \in Modules : h[m] = DepthOf(h, m)) => \A m \in Modules : h[m] = g[m]
<1> DEFINE Good(S, g) == \A m \in S : Below(m) \subseteq S /\ g[m] = DepthOf(g, m)
           Sorted == {S \in SUBSET Modules : \E g \in [Modules -> Nat] : Good(S, g)}
           size == [S \in SUBSET Modules |-> Cardinality(Modules \ S)]
           K == {size[S] : S \in Sorted}
<1>1. \A S \in SUBSET Modules : IsFiniteSet(Modules \ S) /\ size[S] \in Nat
  BY ModulesAreNumbers, FS_Difference, FS_CardinalityType
<1>2. {} \in Sorted
  <2>1. [m \in Modules |-> 0] \in [Modules -> Nat]
    OBVIOUS
  <2> QED
    BY <2>1
<1>3. PICK S \in Sorted : \A U \in Sorted : size[S] <= size[U]
  <2> HIDE DEF Sorted, size
  <2>1. Sorted \subseteq SUBSET Modules
    BY DEF Sorted
  <2>2. K \in SUBSET Nat /\ K # {}
    BY <2>1, <1>1, <1>2
  <2>3. Min(K) \in K /\ \A k \in K : Min(K) <= k
    BY <2>2, MinNat
  <2>4. PICK S \in Sorted : size[S] = Min(K)
    BY <2>3
  <2> QED
    BY <2>3, <2>4
<1>4. PICK g \in [Modules -> Nat] : Good(S, g)
  OBVIOUS
<1>5. S \in SUBSET Modules
  OBVIOUS
<1>6. S = Modules
  <2> SUFFICES ASSUME S # Modules PROVE FALSE
    OBVIOUS
  <2>1. PICK m \in Modules \ S : Below(m) \intersect (Modules \ S) = {}
    BY <1>5, BelowIsWellFounded
  <2>2. Below(m) \subseteq S /\ m \notin S /\ \A d \in Below(m) : g[d] \in Nat
    BY <2>1 DEF Below, Deps
  <2> DEFINE more == [g EXCEPT ![m] = DepthOf(g, m)]
  <2>3. more \in [Modules -> Nat] /\ more[m] = DepthOf(g, m) /\ \A x \in S : more[x] = g[x]
    <3>1. DepthOf(g, m) \in Nat
      BY <2>1, <2>2, DepthOfIs
    <3> QED
      BY <3>1, <2>1, <2>2, <1>5
  <2> HIDE DEF more
  <2>4. ASSUME NEW x \in S \union {m} PROVE Below(x) \subseteq S \union {m} /\ more[x] = DepthOf(more, x)
    <3>1. Below(x) \subseteq S /\ x \in Modules
      BY <2>1, <2>2, <1>4, <1>5
    <3>2. \A d \in Below(x) : g[d] \in Nat /\ more[d] = g[d]
      BY <3>1, <2>3, <1>5
    <3>3. DepthOf(more, x) = DepthOf(g, x)
      BY <3>1, <3>2, DepthOfIs
    <3> QED
      BY <3>1, <3>3, <2>2, <2>3, <1>4
  <2>5. S \union {m} \in Sorted
    BY <2>1, <2>3, <2>4, <1>5
  <2>6. size[S \union {m}] < size[S]
    <3>1. Modules \ (S \union {m}) \in SUBSET (Modules \ S) /\ Modules \ (S \union {m}) # Modules \ S
      BY <2>1
    <3>2. /\ Cardinality(Modules \ (S \union {m})) <= Cardinality(Modules \ S)
          /\ Cardinality(Modules \ (S \union {m})) # Cardinality(Modules \ S)
      BY <3>1, <1>1, <1>5, FS_Subset
    <3>3. S \union {m} \in SUBSET Modules
      BY <2>1, <1>5
    <3>4. size[S \union {m}] \in Nat /\ size[S] \in Nat
      BY <3>3, <1>1, <1>5
    <3> QED
      BY <3>2, <3>3, <3>4, <1>5
  <2>7. S \union {m} \in SUBSET Modules
    BY <2>1, <1>5
  <2> HIDE DEF Sorted, size
  <2>8. size[S] <= size[S \union {m}]
    BY <2>5, <1>3
  <2>9. size[S] \in Nat /\ size[S \union {m}] \in Nat
    BY <2>7, <1>1, <1>5
  <2> QED
    BY <2>6, <2>8, <2>9
<1>7. \A m \in Modules : g[m] = DepthOf(g, m)
  BY <1>4, <1>6
<1>8. ASSUME NEW h, \A m \in Modules : h[m] = DepthOf(h, m) PROVE \A m \in Modules : h[m] = g[m]
  <2> DEFINE D == {m \in Modules : h[m] # g[m]}
  <2> SUFFICES ASSUME D # {} PROVE FALSE
    OBVIOUS
  <2>1. PICK m \in D : Below(m) \intersect D = {}
    BY BelowIsWellFounded
  <2>2. \A d \in Below(m) : h[d] = g[d] /\ g[d] \in Nat
    BY <2>1 DEF Below, Deps
  <2>3. DepthOf(h, m) = DepthOf(g, m)
    BY <2>2, DepthOfIs
  <2> QED
    BY <2>3, <1>7, <1>8
<1> QED
  BY <1>7, <1>8

\* The recursion of depth has a result.
LEMMA DepthIs ==
  ASSUME TarjanInv, CyclesFound
  PROVE  \A m \in Modules : Depth[m] \in Nat /\ \A d \in Below(m) : Depth[d] + 1 <= Depth[m]
<1>1. PICK g \in [Modules -> Nat] :
         /\ \A m \in Modules : g[m] = DepthOf(g, m)
         /\ \A h : (\A m \in Modules : h[m] = DepthOf(h, m)) => \A m \in Modules : h[m] = g[m]
  BY DepthExists
<1>2. Depth = CHOOSE h : h = [m \in Modules |-> DepthOf(h, m)]
  BY DEF Depth, DepthOf
<1>3. g = [m \in Modules |-> DepthOf(g, m)]
  BY <1>1
<1>4. Depth = [m \in Modules |-> DepthOf(Depth, m)]
  BY <1>2, <1>3
<1>5. \A m \in Modules : Depth[m] = g[m]
  BY <1>1, <1>4
<1> SUFFICES ASSUME NEW m \in Modules
             PROVE  Depth[m] \in Nat /\ \A d \in Below(m) : Depth[d] + 1 <= Depth[m]
  OBVIOUS
<1>6. Below(m) \subseteq Modules
  BY DEF Below, Deps
<1>7. \A d \in Below(m) : g[d] + 1 <= DepthOf(g, m)
  BY <1>6, DepthOfIs
<1> QED
  BY <1>1, <1>5, <1>6, <1>7

\* The modules of a cycle are lifted together, and no other ones.
LEMMA LiftedIs ==
  ASSUME TarjanInv, CyclesFound
  PROVE  /\ \A m \in Modules : Lifted[m] \in Nat /\ Depth[m] <= Lifted[m]
         /\ \A m \in Modules : (\A c \in cycles : m \notin c) => Lifted[m] = Depth[m]
<1> SUFFICES ASSUME NEW m \in Modules
             PROVE  /\ Lifted[m] \in Nat /\ Depth[m] <= Lifted[m]
                    /\ (\A c \in cycles : m \notin c) => Lifted[m] = Depth[m]
  OBVIOUS
<1> DEFINE others == {y \in Modules : SameCycle(m, y)}
           T == {Depth[x] : x \in others}
<1>1. Lifted[m] = Max({Depth[m]} \union T)
  BY DEF Lifted
<1>2. IsFiniteSet(T) /\ T \in SUBSET Nat
  <2>1. IsFiniteSet(others)
    BY ModulesAreNumbers, FS_Subset
  <2> QED
    BY <2>1, DepthIs, FiniteImage
<1>3. IsFiniteSet(T \union {Depth[m]}) /\ T \union {Depth[m]} = {Depth[m]} \union T
  BY <1>2, FS_AddElement
<1>4. {Depth[m]} \union T \in SUBSET Nat /\ Depth[m] \in {Depth[m]} \union T
  BY <1>2, DepthIs
<1> HIDE DEF T
<1>5. Lifted[m] \in {Depth[m]} \union T /\ \A y \in {Depth[m]} \union T : y <= Lifted[m]
  BY <1>1, <1>3, <1>4, MaxNat
<1>6. (\A c \in cycles : m \notin c) => T = {}
  BY DEF T, SameCycle
<1> QED
  BY <1>4, <1>5, <1>6

\* Levels nobody has are dropped: what is higher stays higher.
LEMMA LevelOfIs ==
  ASSUME TarjanInv, CyclesFound
  PROVE  /\ \A m \in Modules : LevelOf[m] \in Nat
         /\ \A m, d \in Modules : Lifted[d] < Lifted[m] => LevelOf[d] < LevelOf[m]
<1> DEFINE lower == [m \in Modules |-> {Lifted[x] : x \in {y \in Modules : Lifted[y] < Lifted[m]}}]
<1>1. \A m \in Modules : LevelOf[m] = Cardinality(lower[m])
  BY DEF LevelOf
<1>2. ASSUME NEW m \in Modules PROVE IsFiniteSet(lower[m])
  <2>1. IsFiniteSet({y \in Modules : Lifted[y] < Lifted[m]})
    BY ModulesAreNumbers, FS_Subset
  <2>2. IsFiniteSet({Lifted[x] : x \in {y \in Modules : Lifted[y] < Lifted[m]}})
    BY <2>1, FiniteImage
  <2> QED
    BY <2>2
<1>3. \A m \in Modules : LevelOf[m] \in Nat
  BY <1>1, <1>2, FS_CardinalityType
<1>4. ASSUME NEW m \in Modules, NEW d \in Modules, Lifted[d] < Lifted[m] PROVE LevelOf[d] < LevelOf[m]
  <2>1. Lifted[m] \in Nat /\ \A x \in Modules : Lifted[x] \in Nat
    BY LiftedIs
  <2>2. lower[d] \in SUBSET lower[m]
    BY <1>4, <2>1
  <2>3. Lifted[d] \in lower[m] /\ Lifted[d] \notin lower[d]
    BY <1>4, <2>1
  <2> HIDE DEF lower
  <2>4. Cardinality(lower[d]) <= Cardinality(lower[m]) /\ Cardinality(lower[d]) # Cardinality(lower[m])
    BY <2>2, <2>3, <1>2, FS_Subset
  <2> QED
    BY <2>4, <1>1, <1>3
<1> QED
  BY <1>3, <1>4

\* What lies in no cycle is on a lower level than its importers.
LEMMA ImportsAreLower ==
  ASSUME TarjanInv, CyclesFound, NEW e \in edges, \A c \in cycles : e[2] \notin c
  PROVE  e[1] \in Modules /\ e[2] \in Modules /\ LevelOf[e[2]] < LevelOf[e[1]]
<1>1. e[1] \in Modules /\ e[2] \in Modules /\ e = <<e[1], e[2]>>
  BY DEF TarjanInv, TarjanTypes, Edges
<1>2. e[2] \in Below(e[1])
  BY <1>1 DEF Below, Deps, SameCycle
<1>3. Depth[e[2]] + 1 <= Depth[e[1]] /\ Depth[e[2]] \in Nat /\ Depth[e[1]] \in Nat
  BY <1>1, <1>2, DepthIs
<1>4. Lifted[e[2]] < Lifted[e[1]]
  BY <1>1, <1>3, LiftedIs
<1> QED
  BY <1>1, <1>4, LevelOfIs
=============================================================================
