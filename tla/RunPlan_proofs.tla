--------------------------- MODULE RunPlan_proofs ---------------------------
(***************************************************************************)
(* Proofs about Lessons and RunPlan, for any repositories, run ids,        *)
(* promotions, processes, trees and bounds: a cut never changes, a version *)
(* is promoted only on a repository it did not learn from, an invocation   *)
(* keeps the lessons of its pin, and, where a commit is scanned into one   *)
(* snapshot only, nothing is inherited that the log does not answer.       *)
(***************************************************************************)
EXTENDS RunPlan, TLAPS

(***************************************************************************)
(* The lessons.                                                            *)
(***************************************************************************)
Origins == [run : RunNames, hint : Hints, origin : Repos]
Rows(versions) == [run : RunNames, hint : Hints, cut : {Pending} \cup versions, origin : Repos]

HasLeaf(a) == \E l \in leafRuns : l.run = a.run /\ l.repo = a.origin

(* The rows are well formed, versions are not the mark of a pending row,
   each promotion comes from a leaf that is still there, and a trial under
   way is about a version that learned nothing from its repository. *)
LessonInv ==
    /\ \A l \in leafRuns : l.repo \in Repos
    /\ promotions \in Seq(Rows(DOMAIN cuts))
    /\ Pending \notin DOMAIN cuts
    /\ \A v \in DOMAIN cuts : cuts[v] \in [promoted : BOOLEAN, holdout : Repos \cup {Nobody}]
    /\ cuts = [v \in DOMAIN cuts |-> cuts[v]]
    /\ cutting = [c \in Cutters |-> cutting[c]]
    /\ reflecting \in [Repos -> SUBSET Origins]
    /\ holdout = [r \in Repos |-> holdout[r]]
    /\ \A i \in DOMAIN promotions : HasLeaf(promotions[i])
    /\ \A r \in Repos : \A a \in reflecting[r] : HasLeaf(a)
    /\ \A r \in Repos : holdout[r] # 0 =>
         /\ holdout[r] \in DOMAIN cuts
         /\ \A i \in DOMAIN promotions : promotions[i].cut = holdout[r] => promotions[i].origin # r
    /\ HoldoutIsUnseen

(* What no step does to a version that is cut. *)
CutsKept ==
    \A v \in DOMAIN cuts : v \in DOMAIN cuts' /\ LoadLessons(promotions', v) = LoadLessons(promotions, v)

LEMMA InitLessonInv == LessonsInit => LessonInv
  BY HomeAssumption DEF LessonsInit, LessonInv, HoldoutIsUnseen, Rows, HasLeaf

(* The steps of Lessons, apart from those that write rows or versions. *)
LEMMA LeafStep ==
  ASSUME LessonInv, NEW repo \in Repos, NEW run, NEW outliers,
         RecordLeafRuns(repo, run, outliers), UNCHANGED <<promotions, cuts, cutting, reflecting, holdout>>
  PROVE  LessonInv' /\ CutsKept
<1>1. leafRuns \subseteq leafRuns' /\ \A l \in leafRuns' : l.repo \in Repos
  BY DEF RecordLeafRuns, LessonInv
<1>2. \A i \in DOMAIN promotions : HasLeaf(promotions[i])'
  BY <1>1 DEF LessonInv, HasLeaf
<1>3. \A r \in Repos : \A a \in reflecting[r] : HasLeaf(a)'
  BY <1>1 DEF LessonInv, HasLeaf
<1> QED
  BY <1>1, <1>2, <1>3 DEF LessonInv, CutsKept, HoldoutIsUnseen, HasLeaf

LEMMA ReflectStep ==
  ASSUME LessonInv, NEW repo \in Repos, NEW run \in RunNames, Reflect(repo, run)
  PROVE  LessonInv' /\ CutsKept
<1>1. PICK reply : reflecting' = [reflecting EXCEPT ![repo] = Accepted(SelectOutliers(run), reply)]
  BY DEF Reflect
<1>2. \A a \in Accepted(SelectOutliers(run), reply) : a \in Origins /\ HasLeaf(a)
  BY DEF Accepted, SelectOutliers, LessonInv, Origins, HasLeaf
<1>3. reflecting' \in [Repos -> SUBSET Origins] /\ \A r \in Repos : \A b \in reflecting'[r] : HasLeaf(b)
  BY <1>1, <1>2 DEF LessonInv
<1> QED
  BY <1>3 DEF Reflect, LessonInv, CutsKept, HoldoutIsUnseen, HasLeaf

LEMMA RecordStep ==
  ASSUME LessonInv, NEW repo \in Repos, RecordPromotion(repo)
  PROVE  LessonInv' /\ CutsKept
<1>1. PICK a \in reflecting[repo] :
        /\ promotions' = Append(promotions, [run |-> a.run, hint |-> a.hint, cut |-> Pending, origin |-> a.origin])
        /\ reflecting' = [reflecting EXCEPT ![repo] = @ \ {a}]
  BY DEF RecordPromotion
<1> DEFINE row == [run |-> a.run, hint |-> a.hint, cut |-> Pending, origin |-> a.origin]
<1>2. a \in Origins /\ HasLeaf(a)
  BY DEF LessonInv
<1>3. row \in Rows(DOMAIN cuts) /\ HasLeaf(row) /\ row.cut = Pending
  BY <1>2 DEF Origins, Rows, HasLeaf
<1> HIDE DEF row
<1>4. promotions' = Append(promotions, row)
  BY <1>1 DEF row
<1>5. /\ promotions' \in Seq(Rows(DOMAIN cuts))
      /\ DOMAIN promotions' = DOMAIN promotions \cup {Len(promotions) + 1}
      /\ Len(promotions) + 1 \notin DOMAIN promotions
      /\ promotions'[Len(promotions) + 1] = row
      /\ \A i \in DOMAIN promotions : promotions'[i] = promotions[i]
  BY <1>3, <1>4 DEF LessonInv
<1>6. UNCHANGED <<leafRuns, cuts, cutting, holdout>>
  BY DEF RecordPromotion
<1>7. reflecting' \in [Repos -> SUBSET Origins] /\ \A r \in Repos : reflecting'[r] \subseteq reflecting[r]
  BY <1>1 DEF LessonInv
<1>8. \A i \in DOMAIN promotions' : HasLeaf(promotions'[i])
  BY <1>3, <1>5 DEF LessonInv
<1>9. \A v \in DOMAIN cuts : \A i \in DOMAIN promotions' :
        promotions'[i].cut = v => i \in DOMAIN promotions /\ promotions'[i] = promotions[i]
  BY <1>3, <1>5 DEF LessonInv
<1>10. CutsKept
  BY <1>5, <1>6, <1>9 DEF CutsKept, LoadLessons
<1>11. HoldoutIsUnseen'
  BY <1>6, <1>9 DEF LessonInv, HoldoutIsUnseen
<1>12. \A r \in Repos : holdout[r] # 0 =>
         \A i \in DOMAIN promotions' : promotions'[i].cut = holdout[r] => promotions'[i].origin # r
  BY <1>9 DEF LessonInv
<1> QED
  BY <1>5, <1>6, <1>7, <1>8, <1>10, <1>11, <1>12 DEF LessonInv, HasLeaf

LEMMA ReadCutStep ==
  ASSUME LessonInv, NEW c \in Cutters, ReadCutVersion(c)
  PROVE  LessonInv' /\ CutsKept
  BY DEF LessonInv, ReadCutVersion, CutsKept, HoldoutIsUnseen, HasLeaf

LEMMA WriteCutStep ==
  ASSUME LessonInv, NEW c \in Cutters, WriteCut(c)
  PROVE  LessonInv' /\ CutsKept
<1> DEFINE version == cutting[c]
<1>1. UNCHANGED <<leafRuns, reflecting, holdout>> /\ cutting' = [d \in Cutters |-> cutting'[d]] /\ version # Pending
  BY DEF WriteCut, LessonInv, Pending
<1>2. CASE version \in DOMAIN cuts
  BY <1>1, <1>2 DEF WriteCut, Freeze, LessonInv, CutsKept, HoldoutIsUnseen, HasLeaf
<1>3. CASE version \notin DOMAIN cuts
  <2> DEFINE Frozen(i) == IF promotions[i].cut = Pending THEN [promotions[i] EXCEPT !.cut = version] ELSE promotions[i]
  <2>1. /\ promotions' = [i \in DOMAIN promotions |-> Frozen(i)]
        /\ cuts' = [v \in DOMAIN cuts \cup {version} |->
                      IF v = version THEN [promoted |-> FALSE, holdout |-> Nobody] ELSE cuts[v]]
    BY <1>3 DEF WriteCut, Freeze
  <2>2. \A i \in DOMAIN promotions :
          /\ promotions[i] \in Rows(DOMAIN cuts)
          /\ Frozen(i) \in Rows(DOMAIN cuts \cup {version})
          /\ Frozen(i).run = promotions[i].run /\ Frozen(i).origin = promotions[i].origin
          /\ Frozen(i).hint = promotions[i].hint
          /\ Frozen(i).cut # version => Frozen(i) = promotions[i]
          /\ Frozen(i).cut = version => promotions[i].cut = Pending
    <3> SUFFICES ASSUME NEW i \in DOMAIN promotions
                 PROVE  /\ promotions[i] \in Rows(DOMAIN cuts)
                        /\ Frozen(i) \in Rows(DOMAIN cuts \cup {version})
                        /\ Frozen(i).run = promotions[i].run /\ Frozen(i).origin = promotions[i].origin
                        /\ Frozen(i).hint = promotions[i].hint
                        /\ Frozen(i).cut # version => Frozen(i) = promotions[i]
                        /\ Frozen(i).cut = version => promotions[i].cut = Pending
      OBVIOUS
    <3>1. promotions[i] \in Rows(DOMAIN cuts)
      BY DEF LessonInv
    <3>2. CASE promotions[i].cut = Pending
      <4>1. Frozen(i) = [promotions[i] EXCEPT !.cut = version]
        BY <3>2
      <4>2. Frozen(i) = [run |-> promotions[i].run, hint |-> promotions[i].hint, cut |-> version,
                         origin |-> promotions[i].origin]
        BY <3>1, <4>1 DEF Rows
      <4> HIDE DEF Frozen
      <4> QED
        BY <3>1, <3>2, <4>2 DEF Rows
    <3>3. CASE promotions[i].cut # Pending
      BY <1>3, <3>1, <3>3 DEF Rows
    <3> QED
      BY <3>2, <3>3
  <2> HIDE DEF Frozen
  <2>3. promotions' \in Seq(Rows(DOMAIN cuts'))
    <3>1. DOMAIN promotions = 1 .. Len(promotions) /\ Len(promotions) \in Nat
      BY DEF LessonInv
    <3>2. promotions' \in [1 .. Len(promotions) -> Rows(DOMAIN cuts')]
      BY <2>1, <2>2, <3>1
    <3> QED
      BY <3>1, <3>2
  <2>4. DOMAIN promotions' = DOMAIN promotions /\ \A i \in DOMAIN promotions : promotions'[i] = Frozen(i)
    BY <2>1
  <2>5. \A v \in DOMAIN cuts : \A i \in DOMAIN promotions :
          (promotions'[i].cut = v <=> promotions[i].cut = v) /\ promotions'[i].hint = promotions[i].hint
    BY <1>1, <1>3, <2>2, <2>4 DEF LessonInv
  <2>6. CutsKept
    BY <2>1, <2>4, <2>5 DEF CutsKept, LoadLessons
  <2>7. HoldoutIsUnseen'
    <3> SUFFICES ASSUME NEW v \in DOMAIN cuts', NEW i \in DOMAIN promotions', promotions'[i].cut = v
                 PROVE  promotions'[i].origin # cuts'[v].holdout
      BY DEF HoldoutIsUnseen
    <3>1. CASE v = version
      <4>1. cuts'[v].holdout = Nobody
        BY <2>1, <3>1
      <4>2. promotions'[i].origin \in Repos
        BY <2>2, <2>4 DEF Rows
      <4> QED
        BY <4>1, <4>2, HomeAssumption
    <3>2. CASE v # version
      <4>1. v \in DOMAIN cuts /\ cuts'[v] = cuts[v]
        BY <2>1, <3>2
      <4> QED
        BY <2>2, <2>4, <2>5, <4>1 DEF LessonInv, HoldoutIsUnseen
    <3> QED
      BY <3>1, <3>2
  <2>8. /\ Pending \notin DOMAIN cuts'
        /\ \A v \in DOMAIN cuts' : cuts'[v] \in [promoted : BOOLEAN, holdout : Repos \cup {Nobody}]
        /\ cuts' = [v \in DOMAIN cuts' |-> cuts'[v]]
    BY <1>1, <2>1 DEF LessonInv
  <2>9. \A i \in DOMAIN promotions' : HasLeaf(promotions'[i])
    BY <2>2, <2>4 DEF LessonInv, HasLeaf
  <2>10. \A r \in Repos : holdout[r] # 0 =>
           /\ holdout[r] \in DOMAIN cuts'
           /\ \A i \in DOMAIN promotions' : promotions'[i].cut = holdout[r] => promotions'[i].origin # r
    BY <2>1, <2>2, <2>4, <2>5 DEF LessonInv
  <2> QED
    BY <1>1, <2>3, <2>6, <2>7, <2>8, <2>9, <2>10 DEF LessonInv, HasLeaf
<1> QED
  BY <1>2, <1>3

LEMMA BeginHoldoutStep ==
  ASSUME LessonInv, NEW repo \in Repos, NEW version \in DOMAIN cuts, BeginHoldout(repo, version)
  PROVE  LessonInv' /\ CutsKept
<1>1. \A i \in DOMAIN promotions : promotions[i].cut = version => promotions[i].origin # repo
  BY DEF LessonInv, BeginHoldout, LearnedReposForCut, HasLeaf
<1> QED
  BY <1>1 DEF LessonInv, BeginHoldout, CutsKept, HoldoutIsUnseen, HasLeaf

LEMMA EndHoldoutStep ==
  ASSUME LessonInv, NEW repo \in Repos, EndHoldout(repo)
  PROVE  LessonInv' /\ CutsKept
<1> DEFINE version == holdout[repo]
<1>1. /\ version \in DOMAIN cuts
      /\ \A i \in DOMAIN promotions : promotions[i].cut = version => promotions[i].origin # repo
  BY DEF LessonInv, EndHoldout
<1>2. UNCHANGED <<leafRuns, promotions, cutting, reflecting>> /\ holdout' = [r \in Repos |-> holdout'[r]]
      /\ \A r \in Repos : holdout'[r] # 0 => holdout'[r] = holdout[r]
  BY DEF LessonInv, EndHoldout
<1>3. CASE UNCHANGED cuts
  BY <1>2, <1>3 DEF LessonInv, CutsKept, HoldoutIsUnseen, HasLeaf
<1>4. CASE cuts' = [cuts EXCEPT ![version] = [promoted |-> TRUE, holdout |-> repo]]
  <2>1. DOMAIN cuts' = DOMAIN cuts /\ cuts'[version].holdout = repo
        /\ \A v \in DOMAIN cuts : v # version => cuts'[v] = cuts[v]
    BY <1>1, <1>4
  <2>2. HoldoutIsUnseen'
    BY <1>1, <1>2, <2>1 DEF LessonInv, HoldoutIsUnseen
  <2>3. \A v \in DOMAIN cuts' : cuts'[v] \in [promoted : BOOLEAN, holdout : Repos \cup {Nobody}]
    BY <1>1, <1>4 DEF LessonInv
  <2>4. cuts' = [v \in DOMAIN cuts' |-> cuts'[v]]
    BY <1>4 DEF LessonInv
  <2> QED
    BY <1>2, <2>1, <2>2, <2>3, <2>4 DEF LessonInv, CutsKept, HasLeaf
<1> QED
  BY <1>3, <1>4 DEF EndHoldout

LEMMA UnpromoteStep ==
  ASSUME LessonInv, NEW version \in DOMAIN cuts, Unpromote(version)
  PROVE  LessonInv' /\ CutsKept
<1>1. cuts' = [cuts EXCEPT ![version] = [promoted |-> FALSE, holdout |-> cuts[version].holdout]]
  BY DEF Unpromote
<1>2. UNCHANGED <<leafRuns, promotions, cutting, reflecting, holdout>>
  BY DEF Unpromote
<1>3. DOMAIN cuts' = DOMAIN cuts /\ cuts' = [v \in DOMAIN cuts' |-> cuts'[v]]
      /\ \A v \in DOMAIN cuts : cuts'[v].holdout = cuts[v].holdout
                                /\ cuts'[v] \in [promoted : BOOLEAN, holdout : Repos \cup {Nobody}]
  BY <1>1 DEF LessonInv
<1> QED
  BY <1>2, <1>3 DEF LessonInv, CutsKept, HoldoutIsUnseen, HasLeaf

(***************************************************************************)
(* The steps of RunPlan on the lessons.                                    *)
(***************************************************************************)
LEMMA LessonStutter ==
  ASSUME LessonInv, UNCHANGED lessonVars
  PROVE  LessonInv' /\ CutsKept
  BY DEF lessonVars, LessonInv, CutsKept, HoldoutIsUnseen, HasLeaf

LEMMA LessonNext ==
  ASSUME LessonInv, [Next]_vars
  PROVE  LessonInv' /\ CutsKept
<1>1. CASE \/ \E t \in Trees : Scan(t)
           \/ \E resume \in BOOLEAN, pin \in Pins : Start(resume, pin)
           \/ Leave
           \/ UNCHANGED vars
  <2>1. UNCHANGED lessonVars
    BY <1>1 DEF Scan, Start, Leave, vars
  <2> QED
    BY <2>1, LessonStutter
<1>2. CASE Wave
  <2>1. PICK outliers : RecordLeafRuns(Home, inv.run, outliers)
    BY <1>2 DEF Wave
  <2>2. UNCHANGED <<promotions, cuts, cutting, reflecting, holdout>>
    BY <1>2 DEF Wave
  <2> QED
    BY <2>1, <2>2, LeafStep, HomeAssumption
<1>3. CASE \E run \in RunNames : ReflectHere(run)
  BY <1>3, ReflectStep, HomeAssumption DEF ReflectHere
<1>4. CASE \E repo \in Repos \ {Home}, run \in RunNames : ReflectElsewhere(repo, run)
  BY <1>4, ReflectStep DEF ReflectElsewhere
<1>5. CASE \E repo \in Repos \ {Home}, run \in RunNames : Elsewhere(repo, run)
  <2>1. PICK repo \in Repos, run \in RunNames, outlier \in BOOLEAN : RunElsewhere(repo, run, {outlier})
    BY <1>5 DEF Elsewhere
  <2>2. RecordLeafRuns(repo, run, {outlier}) /\ UNCHANGED <<promotions, cuts, cutting, reflecting, holdout>>
    BY <2>1 DEF RunElsewhere
  <2> QED
    BY <2>2, LeafStep
<1>6. CASE \E repo \in Repos : RecordPromotion(repo)
  BY <1>6, RecordStep
<1>7. CASE \E repo \in Repos, v \in DOMAIN cuts : Trial(repo, v)
  BY <1>7, BeginHoldoutStep DEF Trial
<1>8. CASE \E repo \in Repos : EndHoldout(repo)
  BY <1>8, EndHoldoutStep
<1>9. CASE \E v \in DOMAIN cuts : Unpromote(v)
  BY <1>9, UnpromoteStep
<1>10. CASE \E c \in Cutters : Cut(c)
  BY <1>10, ReadCutStep, WriteCutStep DEF Cut
<1> QED
  BY <1>1, <1>2, <1>3, <1>4, <1>5, <1>6, <1>7, <1>8, <1>9, <1>10 DEF Next

(* No repository promotes a version that learned from it. *)
THEOREM HoldoutSplitIsReal == Spec => []HoldoutIsUnseen
<1>1. Init => LessonInv
  BY InitLessonInv DEF Init
<1>2. LessonInv /\ [Next]_vars => LessonInv'
  BY LessonNext
<1>3. LessonInv => HoldoutIsUnseen
  BY DEF LessonInv
<1> QED
  BY <1>1, <1>2, <1>3, PTL DEF Spec

(* A version names the same promotions for ever. *)
THEOREM CutsAreImmutable == Spec => CutsNeverChange
<1>1. Init => LessonInv
  BY InitLessonInv DEF Init
<1>2. LessonInv /\ [Next]_vars => LessonInv'
  BY LessonNext
<1>3. LessonInv /\ [Next]_vars =>
        [\A v \in DOMAIN cuts : /\ v \in DOMAIN cuts'
                                /\ LoadLessons(promotions', v) = LoadLessons(promotions, v)]_lessonVars
  BY LessonNext DEF CutsKept
<1> QED
  BY <1>1, <1>2, <1>3, PTL DEF Spec, CutsNeverChange

(***************************************************************************)
(* The invocation and its pin.                                             *)
(***************************************************************************)
Invocation(i) ==
    i = [run |-> i.run, skip |-> i.skip, waves |-> i.waves, pin |-> i.pin, hints |-> i.hints]

RunRow(r) == r = [partition |-> r.partition, pin |-> r.pin]

PinInv ==
    /\ runs = [r \in DOMAIN runs |-> runs[r]]
    /\ \A r \in DOMAIN runs : RunRow(runs[r])
    /\ inv # Nobody => Invocation(inv) /\ inv.run \in DOMAIN runs
    /\ PinHolds

(* A pin, of the default or of an explicit version, is none or a cut. *)
LEMMA PinsAreCuts == \A pin \in Pins : pin # 0 => pin \in DOMAIN cuts
<1>1. LatestLessonVersion \in {0} \cup DOMAIN cuts
  BY DEF LatestLessonVersion, MaxVersion
<1> QED
  BY <1>1 DEF Pins

LEMMA PinInit == Init => PinInv
  BY DEF Init, PinInv, PinHolds

LEMMA PinStart ==
  ASSUME PinInv, LessonInv, NEW resume \in BOOLEAN, NEW pin \in Pins, Start(resume, pin)
  PROVE  PinInv'
<1> DEFINE c == Chosen(resume)
           begun == BeginRun(c.run, tree)
<1>1. /\ runs' = [begun EXCEPT ![c.run].pin = pin]
      /\ inv' = [run |-> c.run, skip |-> c.skip, waves |-> tree.waves, pin |-> pin,
                 hints |-> LoadLessons(promotions, pin)]
      /\ UNCHANGED lessonVars
  BY DEF Start
<1> HIDE DEF c
<1>2. /\ begun = [r \in DOMAIN begun |-> begun[r]]
      /\ c.run \in DOMAIN begun
      /\ \A r \in DOMAIN begun : RunRow(begun[r])
  BY DEF BeginRun, PinInv, RunRow
<1> HIDE DEF begun
<1>3. PICK row : row = begun[c.run]
  OBVIOUS
<1>4. runs' = [begun EXCEPT ![c.run] = [row EXCEPT !.pin = pin]]
  BY <1>1, <1>3
<1>5. row = [partition |-> row.partition, pin |-> row.pin]
  BY <1>2, <1>3 DEF RunRow
<1>6. [row EXCEPT !.pin = pin] = [partition |-> row.partition, pin |-> pin]
  BY <1>5
<1>7. runs' = [begun EXCEPT ![c.run] = [partition |-> row.partition, pin |-> pin]]
  BY <1>4, <1>6
<1>8. /\ runs' = [r \in DOMAIN runs' |-> runs'[r]]
      /\ c.run \in DOMAIN runs' /\ runs'[c.run].pin = pin
      /\ \A r \in DOMAIN runs' : RunRow(runs'[r])
  BY <1>2, <1>7 DEF RunRow
<1>9. Invocation(inv')
  BY <1>1 DEF Invocation
<1>10. PinHolds'
  BY <1>1, <1>8, PinsAreCuts DEF PinHolds, lessonVars
<1> QED
  BY <1>1, <1>8, <1>9, <1>10 DEF PinInv

LEMMA PinStep ==
  ASSUME PinInv, LessonInv, [Next]_vars
  PROVE  PinInv'
<1>1. CutsKept
  BY LessonNext
<1>2. CASE UNCHANGED <<runs, inv>>
  BY <1>1, <1>2 DEF PinInv, PinHolds, CutsKept
<1>3. CASE Wave
  <2>1. inv' = [inv EXCEPT !.waves = Tail(@)] /\ runs' = runs /\ inv # Nobody
    BY <1>3 DEF Wave
  <2>2. inv' = [run |-> inv.run, skip |-> inv.skip, waves |-> Tail(inv.waves), pin |-> inv.pin, hints |-> inv.hints]
    BY <2>1 DEF PinInv, Invocation
  <2>3. Invocation(inv') /\ inv'.run = inv.run /\ inv'.pin = inv.pin /\ inv'.hints = inv.hints
    BY <2>2 DEF Invocation
  <2> QED
    BY <1>1, <2>1, <2>3 DEF PinInv, PinHolds, CutsKept
<1>4. CASE \E resume \in BOOLEAN, pin \in Pins : Start(resume, pin)
  BY <1>4, PinStart
<1>5. CASE Leave
  BY <1>5 DEF Leave, PinInv, PinHolds
<1>6. CASE ~(Wave \/ Leave \/ \E resume \in BOOLEAN, pin \in Pins : Start(resume, pin))
  <2>1. UNCHANGED <<runs, inv>>
    BY <1>6 DEF Next, Scan, ReflectHere, ReflectElsewhere, Elsewhere, Trial, Cut, planVars, vars
  <2> QED
    BY <1>2, <2>1
<1> QED
  BY <1>3, <1>4, <1>5, <1>6

(* What an invocation has loaded is what the version in its row holds. *)
THEOREM InvocationKeepsItsPin == Spec => []PinHolds
<1>1. Init => LessonInv /\ PinInv
  BY InitLessonInv, PinInit DEF Init
<1>2. LessonInv /\ PinInv /\ [Next]_vars => LessonInv' /\ PinInv'
  BY LessonNext, PinStep
<1>3. PinInv => PinHolds
  BY DEF PinInv
<1> QED
  BY <1>1, <1>2, <1>3, PTL DEF Spec

(***************************************************************************)
(* Inheritance.                                                            *)
(***************************************************************************)
(* A commit is scanned into one snapshot: no scan sees uncommitted changes. *)
Clean == \A t, u \in Trees : t.head = u.head => t.snap = u.snap

AnsweredIn(snap, hash) == \E p \in log : p.snap = snap /\ p.hash = hash /\ p.status = "complete"

PaidInv ==
    /\ tree \in Trees
    /\ \A r \in tasks : r.state = "folded" => \A t \in Trees : t.head = r.run[1] => AnsweredIn(t.snap, r.hash)
    /\ inv # Nobody => Invocation(inv) /\ inv.run[1] = tree.head
    /\ InheritedIsInLog

LEMMA PaidStart ==
  ASSUME Clean, PaidInv, NEW resume \in BOOLEAN, NEW pin \in Pins, Start(resume, pin)
  PROVE  PaidInv'
<1> DEFINE c == Chosen(resume)
<1>1. /\ tasks' = IF c.run = c.from THEN tasks ELSE CopyFoldedTasks(c.from, c.run, c.skip)
      /\ inv' = [run |-> c.run, skip |-> c.skip, waves |-> tree.waves, pin |-> pin,
                 hints |-> LoadLessons(promotions, pin)]
      /\ UNCHANGED <<tree, log>>
  BY DEF Start
<1>2. /\ c.run[1] = tree.head
      /\ c.from[1] = tree.head
      /\ c.skip \subseteq FoldedHashes(c.from)
  BY DEF Chosen, RunId, NextRunId
<1> HIDE DEF c
<1>3. \A h \in FoldedHashes(c.from) : \A t \in Trees : t.head = tree.head => AnsweredIn(t.snap, h)
  BY <1>2 DEF FoldedHashes, PaidInv
<1>4. \A h \in c.skip : AnsweredIn(tree.snap, h)
  BY <1>2, <1>3 DEF PaidInv
<1>5. InheritedIsInLog' /\ Invocation(inv') /\ inv'.run[1] = tree'.head
  BY <1>1, <1>2, <1>4 DEF InheritedIsInLog, Answered, AnsweredIn, Invocation
<1>6. \A r \in tasks' : r.state = "folded" => \A t \in Trees : t.head = r.run[1] => AnsweredIn(t.snap, r.hash)
  <2>1. \A r \in tasks' : r \in tasks \/ (r.run = c.run /\ r.hash \in FoldedHashes(c.from))
    BY <1>1 DEF CopyFoldedTasks
  <2> QED
    BY <1>2, <1>3, <2>1 DEF PaidInv
<1> QED
  BY <1>1, <1>5, <1>6 DEF PaidInv, AnsweredIn

LEMMA PaidWave ==
  ASSUME Clean, PaidInv, Wave
  PROVE  PaidInv'
<1> DEFINE todo == {s \in Head(inv.waves) : s.hash \notin inv.skip}
<1>1. PICK done \in SUBSET todo :
        /\ log' = log \cup {Patch(s, "complete") : s \in done} \cup {Patch(s, "failed") : s \in todo \ done}
        /\ tasks' = SetState(SetState(tasks, inv.run, {s.hash : s \in done}, "folded"),
                             inv.run, {s.hash : s \in todo \ done}, "abandoned")
  BY DEF Wave
<1>2. inv # Nobody /\ tree' = tree /\ inv' = [inv EXCEPT !.waves = Tail(@)]
  BY DEF Wave
<1>3. inv' = [run |-> inv.run, skip |-> inv.skip, waves |-> Tail(inv.waves), pin |-> inv.pin, hints |-> inv.hints]
  BY <1>2 DEF PaidInv, Invocation
<1>4. Invocation(inv') /\ inv'.run = inv.run /\ inv'.skip = inv.skip
  BY <1>3 DEF Invocation
<1>5. \A snap, hash : AnsweredIn(snap, hash) => AnsweredIn(snap, hash)'
  BY <1>1 DEF AnsweredIn
<1>6. \A s \in done : AnsweredIn(tree.snap, s.hash)'
  <2> SUFFICES ASSUME NEW s \in done
               PROVE  \E p \in log' : p.snap = tree.snap /\ p.hash = s.hash /\ p.status = "complete"
    BY <1>2 DEF AnsweredIn
  <2>1. Patch(s, "complete") \in log'
    BY <1>1
  <2>2. Patch(s, "complete").snap = tree.snap /\ Patch(s, "complete").hash = s.hash
        /\ Patch(s, "complete").status = "complete"
    BY DEF Patch
  <2> QED
    BY <2>1, <2>2
<1>7. \A r \in tasks' : r.state = "folded" =>
        r \in tasks \/ (r.run = inv.run /\ \E s \in done : r.hash = s.hash)
  BY <1>1 DEF SetState
<1>8. \A r \in tasks' : r.state = "folded" => \A t \in Trees : t.head = r.run[1] => AnsweredIn(t.snap, r.hash)'
  <2> SUFFICES ASSUME NEW r \in tasks', r.state = "folded", NEW t \in Trees, t.head = r.run[1]
               PROVE  AnsweredIn(t.snap, r.hash)'
    OBVIOUS
  <2>1. CASE r \in tasks
    BY <1>5, <2>1 DEF PaidInv
  <2>2. CASE r.run = inv.run /\ \E s \in done : r.hash = s.hash
    <3>1. t.head = tree.head /\ tree \in Trees
      BY <1>2, <2>2 DEF PaidInv
    <3>2. t.snap = tree.snap
      BY <3>1 DEF Clean
    <3>3. PICK s \in done : r.hash = s.hash
      BY <2>2
    <3>4. AnsweredIn(tree.snap, s.hash)'
      BY <1>6
    <3> QED
      BY <1>2, <3>2, <3>3, <3>4
  <2> QED
    BY <1>7, <2>1, <2>2
<1>9. InheritedIsInLog'
  BY <1>2, <1>4, <1>5 DEF PaidInv, InheritedIsInLog, Answered, AnsweredIn
<1> QED
  BY <1>2, <1>4, <1>8, <1>9 DEF PaidInv

LEMMA PaidStep ==
  ASSUME Clean, PaidInv, [Next]_vars
  PROVE  PaidInv'
<1>1. CASE UNCHANGED <<tree, log, tasks, inv>>
  BY <1>1 DEF PaidInv, InheritedIsInLog, Answered, AnsweredIn
<1>2. CASE \E t \in Trees : Scan(t)
  BY <1>2 DEF Scan, Idle, PaidInv, InheritedIsInLog, AnsweredIn
<1>3. CASE \E resume \in BOOLEAN, pin \in Pins : Start(resume, pin)
  BY <1>3, PaidStart
<1>4. CASE Wave
  BY <1>4, PaidWave
<1>5. CASE Leave
  BY <1>5 DEF Leave, PaidInv, InheritedIsInLog, AnsweredIn
<1>6. CASE ~(Wave \/ Leave \/ (\E t \in Trees : Scan(t))
             \/ \E resume \in BOOLEAN, pin \in Pins : Start(resume, pin))
  <2>1. UNCHANGED <<tree, log, tasks, inv>>
    BY <1>6 DEF Next, ReflectHere, ReflectElsewhere, Elsewhere, Trial, Cut, planVars, vars
  <2> QED
    BY <1>1, <2>1
<1> QED
  BY <1>2, <1>3, <1>4, <1>5, <1>6

(* Where every scan of a commit goes into one snapshot, an invocation skips
   nothing that its log does not answer. *)
THEOREM InheritanceIsSound == Clean /\ Spec => []InheritedIsInLog
<1> SUFFICES ASSUME Clean PROVE Spec => []InheritedIsInLog
  OBVIOUS
<1>1. Init => PaidInv
  BY DEF Init, PaidInv, InheritedIsInLog
<1>2. PaidInv /\ [Next]_vars => PaidInv'
  BY PaidStep
<1>3. PaidInv => InheritedIsInLog
  BY DEF PaidInv
<1> QED
  BY <1>1, <1>2, <1>3, PTL DEF Spec
=============================================================================
