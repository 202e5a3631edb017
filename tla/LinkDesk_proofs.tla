--------------------------- MODULE LinkDesk_proofs ---------------------------
(***************************************************************************)
(* What is proved of LinkDesk, for any repositories, edges, keys of paths  *)
(* and bounds: the verdicts of the report were asked for, none is lost     *)
(* before the next scan, and no call that was read is passed over.         *)
(***************************************************************************)
EXTENDS LinkDesk, TLAPS

IsLink(l) ==
    l = [protocol |-> l.protocol, kind |-> l.kind, caller |-> l.caller, callee |-> l.callee,
         status |-> l.status, resolution |-> l.resolution]

IsReport(rep) == rep = [links |-> rep.links, unmatched |-> rep.unmatched]

\* The verdict of a link that no refresh has moved answers one of these tasks.
AskedIn(tasks, l) ==
    Judged(l) /\ l.status = None =>
        \E t \in tasks : /\ t.name = l.resolution.name
                         /\ LinkId(l) \in t.candidates
                         /\ l.resolution.at \in Anchors(t)

Sound(rep, tasks) == IsReport(rep) /\ \A l \in rep.links : IsLink(l) /\ AskedIn(tasks, l)

\* Each verdict of the one report is in the other.
Keeps(old, new) == \A l \in old.links : Judged(l) => \E m \in new.links : Judged(m) /\ Ends(m) = Ends(l)

-----------------------------------------------------------------------------
(* Links *)

\* A verdict changes nothing else of a link.
LEMMA Judging ==
  ASSUME NEW l, IsLink(l), NEW v
  PROVE  LET k == [l EXCEPT !.resolution = v] IN
         /\ IsLink(k) /\ LinkId(k) = LinkId(l) /\ Ends(k) = Ends(l)
         /\ k.status = l.status /\ k.resolution = v
<1> DEFINE k == [l EXCEPT !.resolution = v]
<1>1. k = [protocol |-> l.protocol, kind |-> l.kind, caller |-> l.caller, callee |-> l.callee,
           status |-> l.status, resolution |-> v]
  BY DEF IsLink
<1> HIDE DEF k
<1>2. /\ k.protocol = l.protocol /\ k.kind = l.kind /\ k.caller = l.caller /\ k.callee = l.callee
      /\ k.status = l.status /\ k.resolution = v
  BY <1>1
<1>3. IsLink(k)
  BY <1>1, <1>2 DEF IsLink
<1>4. LinkId(k) = LinkId(l) /\ Ends(k) = Ends(l)
  BY <1>2 DEF LinkId, Ends
<1> QED
  BY <1>2, <1>3, <1>4 DEF k

\* The verdict that FoldResolutions takes from valid patches is one that was asked for.
LEMMA ResolutionIsAsked ==
  ASSUME NEW patches, NEW tasks, NEW l,
         \A p \in patches : \E t \in tasks : ValidPatch(p, t),
         \E p \in patches : \E r \in p.resolutions : r.link = LinkId(l)
  PROVE  /\ Resolution(patches, l).verdict \in Verdicts
         /\ \E t \in tasks : /\ t.name = Resolution(patches, l).name
                             /\ LinkId(l) \in t.candidates
                             /\ Resolution(patches, l).at \in Anchors(t)
<1> DEFINE p == CHOOSE q \in patches : \E r \in q.resolutions : r.link = LinkId(l)
           r == CHOOSE x \in p.resolutions : x.link = LinkId(l)
<1>1. p \in patches /\ \E x \in p.resolutions : x.link = LinkId(l)
  OBVIOUS
<1>2. r \in p.resolutions /\ r.link = LinkId(l)
  BY <1>1
<1>3. Resolution(patches, l) = [verdict |-> r.verdict, at |-> r.at, name |-> p.name]
  BY DEF Resolution
<1> HIDE DEF p, r
<1>4. PICK t \in tasks : ValidPatch(p, t)
  BY <1>1
<1>5. /\ t.name = p.name /\ r.link \in t.candidates
      /\ r.verdict \in Verdicts /\ r.at \in Anchors(t)
  BY <1>2, <1>4 DEF ValidPatch
<1> QED
  BY <1>2, <1>3, <1>5

\* A record whose verdict is a word is a verdict.
LEMMA WordsAreVerdicts ==
  ASSUME NEW l, l.resolution.verdict \in Verdicts
  PROVE  Judged(l)
BY NoneIsNoWord DEF Judged, Unjudged

\* Folding patches that are valid for tasks keeps a report sound, and keeps its verdicts.
LEMMA FoldIsSound ==
  ASSUME NEW rep, NEW tasks, Sound(rep, tasks), NEW patches,
         \A p \in patches : \E t \in tasks : ValidPatch(p, t)
  PROVE  Sound(FoldResolutions(rep, patches), tasks) /\ Keeps(rep, FoldResolutions(rep, patches))
<1> DEFINE About(l) == \E p \in patches : \E r \in p.resolutions : r.link = LinkId(l)
           Image(l) == IF About(l) THEN [l EXCEPT !.resolution = Resolution(patches, l)] ELSE l
           folded == FoldResolutions(rep, patches)
<1>1. folded = [rep EXCEPT !.links = {Image(l) : l \in @}]
  BY DEF FoldResolutions
<1>2. IsReport(folded) /\ folded.links = {Image(l) : l \in rep.links}
  <2>1. rep = [links |-> rep.links, unmatched |-> rep.unmatched]
    BY DEF Sound, IsReport
  <2>2. folded = [links |-> {Image(l) : l \in rep.links}, unmatched |-> rep.unmatched]
    <3> HIDE DEF Image, folded
    <3> QED BY <1>1, <2>1
  <2> QED
    <3> HIDE DEF Image, folded
    <3> QED BY <2>2 DEF IsReport
<1>3. ASSUME NEW l \in rep.links
      PROVE  /\ IsLink(Image(l)) /\ AskedIn(tasks, Image(l)) /\ Ends(Image(l)) = Ends(l)
             /\ Judged(l) => Judged(Image(l))
  <2>1. IsLink(l) /\ AskedIn(tasks, l)
    BY DEF Sound
  <2>2. CASE About(l)
    <3> DEFINE v == Resolution(patches, l)
    <3>1. Image(l) = [l EXCEPT !.resolution = v]
      BY <2>2
    <3>2. /\ v.verdict \in Verdicts
          /\ \E t \in tasks : t.name = v.name /\ LinkId(l) \in t.candidates /\ v.at \in Anchors(t)
      BY <2>2, ResolutionIsAsked
    <3> HIDE DEF v, Image
    <3>3. /\ IsLink(Image(l)) /\ LinkId(Image(l)) = LinkId(l) /\ Ends(Image(l)) = Ends(l)
          /\ Image(l).resolution = v
      BY <2>1, <3>1, Judging
    <3>4. AskedIn(tasks, Image(l))
      BY <3>2, <3>3 DEF AskedIn
    <3>5. Judged(Image(l))
      BY <3>2, <3>3, WordsAreVerdicts
    <3> QED
      BY <3>3, <3>4, <3>5
  <2>3. CASE ~About(l)
    BY <2>1, <2>3
  <2> QED
    BY <2>2, <2>3
<1> HIDE DEF Image, folded
<1>4. Sound(folded, tasks)
  BY <1>2, <1>3 DEF Sound
<1>5. Keeps(rep, folded)
  BY <1>2, <1>3 DEF Keeps
<1> QED
  BY <1>4, <1>5 DEF folded

\* A scan starts with no verdict.
LEMMA ScanIsUnjudged ==
  ASSUME NEW snapshots
  PROVE  /\ IsReport(ScanLinks(snapshots))
         /\ \A l \in ScanLinks(snapshots).links : IsLink(l) /\ ~Judged(l)
<1>1. ASSUME NEW e, NEW caller, NEW callee
      PROVE  IsLink(Link(e, caller, callee)) /\ ~Judged(Link(e, caller, callee))
  BY DEF Link, IsLink, Judged
<1>2. IsReport(ScanLinks(snapshots))
  BY DEF ScanLinks, IsReport
<1>3. ASSUME NEW l \in ScanLinks(snapshots).links
      PROVE  IsLink(l) /\ ~Judged(l)
  <2>1. \E e, caller, callee : l = Link(e, caller, callee)
    BY DEF ScanLinks
  <2> QED
    BY <1>1, <2>1
<1> QED
  BY <1>2, <1>3

\* An endpoint stays in its repository and module, with its key.
LEMMA EndpointsStay ==
  ASSUME NEW fresh, NEW side, NEW channel, Endpoint(fresh, side, channel) # None
  PROVE  LET at == Endpoint(fresh, side, channel) IN
         at.repo = side.repo /\ at.module = side.module /\ Key(at.target) = Key(side.target)
<1> DEFINE Again(s) == {f \in EdgesFor(s, channel) : f.module = side.module /\ Key(f.target) = Key(side.target)}
           found == UNION {{Side(s, e) : e \in Again(s)} : s \in {t \in fresh : t.repo = side.repo}}
           at == Endpoint(fresh, side, channel)
<1>1. CASE side.repo \notin RefreshedRepos(fresh)
  BY <1>1 DEF Endpoint
<1>2. CASE side.repo \in RefreshedRepos(fresh)
  <2>1. found # {} /\ at = CHOOSE f \in found : TRUE
    BY <1>2 DEF Endpoint, StillPresent
  <2>2. at \in found
    BY <2>1
  <2>3. PICK s \in fresh : s.repo = side.repo /\ at \in {Side(s, e) : e \in Again(s)}
    BY <2>2
  <2>5. PICK e \in Again(s) : at = Side(s, e)
    BY <2>3
  <2>4. at.repo = s.repo /\ at.module = e.module /\ at.target = e.target
    <3> HIDE DEF at
    <3> QED BY <2>5 DEF Side
  <2> QED
    BY <2>3, <2>4, <2>5
<1> QED
  BY <1>1, <1>2

\* A refresh keeps the verdict of a link, or moves the link.
LEMMA CarriedLink ==
  ASSUME NEW fresh, NEW l, IsLink(l)
  PROVE  LET k == CarryLink(fresh, l) IN
         /\ IsLink(k) /\ Ends(k) = Ends(l) /\ k.resolution = l.resolution
         /\ k = l \/ k.status \in {"live", "decayed"}
<1> DEFINE caller == Endpoint(fresh, l.caller, l.protocol)
           callee == Endpoint(fresh, l.callee, InboundOf[l.protocol])
           a == IF caller = None THEN l.caller ELSE caller
           b == IF callee = None THEN l.callee ELSE callee
           s == IF None \in {caller, callee} THEN "decayed" ELSE "live"
           k == CarryLink(fresh, l)
<1>1. CASE ~Touches(l, RefreshedRepos(fresh))
  BY <1>1 DEF CarryLink
<1>2. CASE Touches(l, RefreshedRepos(fresh))
  <2>1. a.repo = l.caller.repo /\ a.module = l.caller.module /\ Key(a.target) = Key(l.caller.target)
    BY EndpointsStay
  <2>2. b.repo = l.callee.repo /\ b.module = l.callee.module /\ Key(b.target) = Key(l.callee.target)
    BY EndpointsStay
  <2>3. s \in {"live", "decayed"}
    OBVIOUS
  <2>4. k = [l EXCEPT !.caller = IF caller = None THEN @ ELSE caller,
                      !.callee = IF callee = None THEN @ ELSE callee,
                      !.status = s]
    BY <1>2 DEF CarryLink
  <2>5. k = [protocol |-> l.protocol, kind |-> l.kind, caller |-> a, callee |-> b,
             status |-> s, resolution |-> l.resolution]
    <3> HIDE DEF caller, callee, s, k
    <3> QED BY <2>4 DEF IsLink
  <2> HIDE DEF a, b, s, k
  <2>6. /\ k.protocol = l.protocol /\ k.kind = l.kind /\ k.caller = a /\ k.callee = b
        /\ k.status = s /\ k.resolution = l.resolution
    BY <2>5
  <2>7. IsLink(k)
    BY <2>5, <2>6 DEF IsLink
  <2>8. Ends(k) = Ends(l)
    BY <2>1, <2>2, <2>6 DEF Ends
  <2> QED
    BY <2>3, <2>6, <2>7, <2>8 DEF k
<1> QED
  BY <1>1, <1>2

\* A refresh of some repositories keeps a report sound, and keeps its verdicts.
LEMMA RefreshIsSound ==
  ASSUME NEW rep, NEW tasks, Sound(rep, tasks), NEW fresh
  PROVE  Sound(RefreshLinks(rep, fresh), tasks) /\ Keeps(rep, RefreshLinks(rep, fresh))
<1> DEFINE new == RefreshLinks(rep, fresh)
<1>1. /\ IsReport(new)
      /\ new.links = {CarryLink(fresh, l) : l \in rep.links} \union FreshLinks(rep, fresh)
  BY DEF RefreshLinks, IsReport
<1>2. ASSUME NEW l \in rep.links
      PROVE  /\ IsLink(CarryLink(fresh, l)) /\ AskedIn(tasks, CarryLink(fresh, l))
             /\ Ends(CarryLink(fresh, l)) = Ends(l)
             /\ Judged(l) => Judged(CarryLink(fresh, l))
  <2>1. IsLink(l) /\ AskedIn(tasks, l)
    BY DEF Sound
  <2>2. /\ IsLink(CarryLink(fresh, l)) /\ Ends(CarryLink(fresh, l)) = Ends(l)
        /\ CarryLink(fresh, l).resolution = l.resolution
        /\ CarryLink(fresh, l) = l \/ CarryLink(fresh, l).status \in {"live", "decayed"}
    BY <2>1, CarriedLink
  <2>3. AskedIn(tasks, CarryLink(fresh, l))
    <3>1. CASE CarryLink(fresh, l) = l
      BY <2>1, <3>1
    <3>2. CASE CarryLink(fresh, l).status \in {"live", "decayed"}
      BY <3>2, NoneIsNoWord DEF AskedIn
    <3> QED
      BY <2>2, <3>1, <3>2
  <2> QED
    BY <2>2, <2>3 DEF Judged
<1>3. ASSUME NEW l \in FreshLinks(rep, fresh)
      PROVE  IsLink(l) /\ AskedIn(tasks, l)
  <2>1. PICK k \in ScanLinks(fresh).links : l = [k EXCEPT !.status = "live"]
    BY DEF FreshLinks
  <2>2. IsLink(k)
    BY ScanIsUnjudged
  <2>3. l = [protocol |-> k.protocol, kind |-> k.kind, caller |-> k.caller, callee |-> k.callee,
             status |-> "live", resolution |-> k.resolution]
    BY <2>1, <2>2 DEF IsLink
  <2>4. IsLink(l) /\ l.status = "live"
    BY <2>3 DEF IsLink
  <2> QED
    BY <2>4, NoneIsNoWord DEF AskedIn
<1> HIDE DEF new
<1>4. Sound(new, tasks)
  BY <1>1, <1>2, <1>3 DEF Sound
<1>5. Keeps(rep, new)
  BY <1>1, <1>2 DEF Keeps
<1> QED
  BY <1>4, <1>5 DEF new

-----------------------------------------------------------------------------
(* The commands *)

\* A process of `link run` holds a sound report with every verdict of the table, and
\* has shown the task that it waits for.
RunInv ==
    run # None =>
        /\ run = [report |-> run.report, todo |-> run.todo, task |-> run.task, attempt |-> run.attempt]
        /\ Sound(run.report, shown)
        /\ Keeps(report, run.report)
        /\ run.task # None => run.task \in shown

DeskInv ==
    /\ scans \in Nat
    /\ Sound(report, shown)
    /\ out # None => out = [tasks |-> out.tasks, inbox |-> out.inbox] /\ out.tasks \subseteq shown
    /\ RunInv

\* More tasks that were shown disturb no report.
LEMMA ShowingIsSound ==
  ASSUME NEW rep, NEW tasks, NEW more, Sound(rep, tasks), tasks \subseteq more
  PROVE  Sound(rep, more)
BY DEF Sound, AskedIn

LEMMA KeepsItself == \A rep : Keeps(rep, rep)
BY DEF Keeps

LEMMA KeepsOn ==
  ASSUME NEW a, NEW b, NEW c, Keeps(a, b), Keeps(b, c)
  PROVE  Keeps(a, c)
BY DEF Keeps

LEMMA DeskInit == Init => DeskInv
<1> SUFFICES ASSUME Init PROVE DeskInv
  OBVIOUS
<1>1. Sound(report, shown)
  BY DEF Init, Sound, IsReport
<1> QED
  BY <1>1 DEF Init, DeskInv, RunInv

LEMMA DeskUntouched ==
  ASSUME DeskInv, UNCHANGED <<report, out, run, scans, shown>>
  PROVE  DeskInv'
BY DEF DeskInv, RunInv, Sound, Keeps, IsReport, IsLink, AskedIn, Judged, LinkId, Ends, Anchors

\* A command that is alone may replace the report by one that is sound.
LEMMA DeskReplaced ==
  ASSUME DeskInv, Free, Sound(report', shown), scans' \in Nat, UNCHANGED <<out, run, shown>>
  PROVE  DeskInv'
<1>1. Sound(report, shown)'
  BY DEF Sound, AskedIn, IsReport, IsLink, Judged, LinkId, Anchors
<1> QED
  BY <1>1 DEF DeskInv, RunInv, Free

LEMMA ScanStep ==
  ASSUME DeskInv, NEW named \in SUBSET Repos, LinkScan(named)
  PROVE  DeskInv' /\ scans' # scans
<1>1. Sound(report', shown)
  BY ScanIsUnjudged DEF LinkScan, Sound, AskedIn
<1>2. scans' \in Nat /\ scans' # scans
  BY DEF LinkScan, DeskInv
<1> QED
  BY <1>1, <1>2, DeskReplaced DEF LinkScan

LEMMA RefreshStep ==
  ASSUME DeskInv, NEW named \in SUBSET Repos, LinkRefresh(named)
  PROVE  DeskInv' /\ Keeps(report, report')
<1>1. Sound(report', shown) /\ Keeps(report, report')
  BY RefreshIsSound DEF LinkRefresh, DeskInv
<1> QED
  BY <1>1, DeskReplaced DEF LinkRefresh, DeskInv

LEMMA CollectStep ==
  ASSUME DeskInv, LinkCollect
  PROVE  DeskInv' /\ Keeps(report, report')
<1> DEFINE valid == {p \in out.inbox : \E t \in out.tasks : ValidPatch(p, t)}
<1>1. \A p \in valid : \E t \in shown : ValidPatch(p, t)
  BY DEF LinkCollect, DeskInv
<1>2. Sound(report', shown) /\ Keeps(report, report')
  BY <1>1, FoldIsSound DEF LinkCollect, DeskInv
<1> QED
  BY <1>2, DeskReplaced DEF LinkCollect, DeskInv

LEMMA PromptsStep ==
  ASSUME DeskInv, LinkPrompts
  PROVE  DeskInv'
<1>1. shown \subseteq shown' /\ out'.tasks \subseteq shown' /\ report' = report /\ run = None
  BY DEF LinkPrompts, Free
<1>2. Sound(report, shown')
  BY <1>1, ShowingIsSound DEF DeskInv
<1>3. Sound(report, shown)'
  BY <1>1, <1>2 DEF Sound, AskedIn, IsReport, IsLink, Judged, LinkId, Anchors
<1>4. out' = [tasks |-> out'.tasks, inbox |-> out'.inbox]
  BY DEF LinkPrompts
<1>5. run' = None /\ scans' = scans
  BY <1>1 DEF LinkPrompts
<1> QED
  BY <1>1, <1>3, <1>4, <1>5 DEF DeskInv, RunInv

LEMMA DropStep ==
  ASSUME DeskInv, out # None, NEW patch, DropPatch(patch)
  PROVE  DeskInv'
<1>1. out'.tasks = out.tasks /\ out' = [tasks |-> out'.tasks, inbox |-> out'.inbox]
  <2>1. out = [tasks |-> out.tasks, inbox |-> out.inbox]
    BY DEF DeskInv
  <2>2. out' = [out EXCEPT !.inbox = {p \in @ : p.name # patch.name} \union {patch}]
    BY DEF DropPatch
  <2>3. out' = [tasks |-> out.tasks, inbox |-> {p \in out.inbox : p.name # patch.name} \union {patch}]
    BY <2>1, <2>2
  <2> QED
    BY <2>3
<1>2. UNCHANGED <<report, run, scans, shown>>
  BY DEF DropPatch
<1>3. Sound(report, shown)' /\ RunInv'
  BY <1>2 DEF DeskInv, RunInv, Sound, Keeps, IsReport, IsLink, AskedIn, Judged, LinkId, Ends,
     Anchors
<1> QED
  BY <1>1, <1>2, <1>3 DEF DeskInv

-----------------------------------------------------------------------------
(* link run *)

\* The invariant after a step of the process, which leaves the table alone.
LEMMA RunMoved ==
  ASSUME DeskInv, UNCHANGED <<report, out, scans>>, shown \subseteq shown',
         run' = [report |-> run'.report, todo |-> run'.todo, task |-> run'.task, attempt |-> run'.attempt],
         Sound(run'.report, shown'), Keeps(report, run'.report),
         run'.task # None => run'.task \in shown'
  PROVE  DeskInv'
<1>1. Sound(report, shown')
  BY ShowingIsSound DEF DeskInv
<1>2. Sound(report, shown)' /\ Sound(run.report, shown)' /\ Keeps(report, run.report)'
  BY <1>1 DEF Sound, AskedIn, IsReport, IsLink, Judged, LinkId, Anchors, Keeps, Ends
<1>3. out' # None => out' = [tasks |-> out'.tasks, inbox |-> out'.inbox] /\ out'.tasks \subseteq shown'
  BY DEF DeskInv
<1> QED
  BY <1>2, <1>3 DEF DeskInv, RunInv

LEMMA StartStep ==
  ASSUME DeskInv, StartRun
  PROVE  DeskInv'
<1>1. /\ run' = [report |-> report, todo |-> BuildTasks(report), task |-> None, attempt |-> 0]
      /\ UNCHANGED <<report, out, scans, shown>>
  BY DEF StartRun
<1>2. /\ run'.report = report /\ run'.task = None
      /\ run' = [report |-> run'.report, todo |-> run'.todo, task |-> run'.task, attempt |-> run'.attempt]
  BY <1>1
<1>3. Sound(run'.report, shown') /\ Keeps(report, run'.report)
  BY <1>1, <1>2, KeepsItself DEF DeskInv
<1> QED
  BY <1>1, <1>2, <1>3, RunMoved

LEMMA SkipStep ==
  ASSUME DeskInv, run # None, NEW t, SkipTask(t)
  PROVE  DeskInv'
<1>1. /\ run = [report |-> run.report, todo |-> run.todo, task |-> run.task, attempt |-> run.attempt]
      /\ Sound(run.report, shown) /\ Keeps(report, run.report)
  BY DEF DeskInv, RunInv
<1>2. run.task = None /\ run' = [run EXCEPT !.todo = @ \ {t}] /\ UNCHANGED <<report, out, scans, shown>>
  BY DEF SkipTask
<1>3. run' = [report |-> run.report, todo |-> run.todo \ {t}, task |-> run.task, attempt |-> run.attempt]
  BY <1>1, <1>2
<1>4. /\ run'.report = run.report /\ run'.task = None
      /\ run' = [report |-> run'.report, todo |-> run'.todo, task |-> run'.task, attempt |-> run'.attempt]
  BY <1>2, <1>3
<1>5. Sound(run'.report, shown') /\ Keeps(report, run'.report)
  BY <1>1, <1>2, <1>4
<1> QED
  BY <1>2, <1>4, <1>5, RunMoved

LEMMA DispatchStep ==
  ASSUME DeskInv, run # None, NEW t, Dispatch(t)
  PROVE  DeskInv'
<1>1. /\ run = [report |-> run.report, todo |-> run.todo, task |-> run.task, attempt |-> run.attempt]
      /\ Sound(run.report, shown) /\ Keeps(report, run.report)
  BY DEF DeskInv, RunInv
<1>2. /\ run' = [run EXCEPT !.task = t, !.todo = @ \ {t}, !.attempt = @ + 1]
      /\ shown' = shown \union {t} /\ UNCHANGED <<report, out, scans>>
  BY DEF Dispatch
<1>3. run' = [report |-> run.report, todo |-> run.todo \ {t}, task |-> t, attempt |-> run.attempt + 1]
  BY <1>1, <1>2
<1>4. /\ run'.report = run.report /\ run'.task = t
      /\ run' = [report |-> run'.report, todo |-> run'.todo, task |-> run'.task, attempt |-> run'.attempt]
  BY <1>3
<1>5. Sound(run'.report, shown') /\ Keeps(report, run'.report)
  BY <1>1, <1>2, <1>4, ShowingIsSound
<1> QED
  BY <1>2, <1>4, <1>5, RunMoved

LEMMA ValidatedStep ==
  ASSUME DeskInv, run # None, run.task # None, NEW patch, Validated(patch)
  PROVE  DeskInv'
<1>1. /\ run = [report |-> run.report, todo |-> run.todo, task |-> run.task, attempt |-> run.attempt]
      /\ Sound(run.report, shown) /\ Keeps(report, run.report) /\ run.task \in shown
  BY DEF DeskInv, RunInv
<1>2. /\ ValidPatch(patch, run.task)
      /\ run' = [run EXCEPT !.report = FoldResolutions(@, {patch}), !.task = None, !.attempt = 0]
      /\ UNCHANGED <<report, out, scans, shown>>
  BY DEF Validated
<1>3. run' = [report |-> FoldResolutions(run.report, {patch}), todo |-> run.todo, task |-> None, attempt |-> 0]
  BY <1>1, <1>2
<1>4. /\ run'.report = FoldResolutions(run.report, {patch}) /\ run'.task = None
      /\ run' = [report |-> run'.report, todo |-> run'.todo, task |-> run'.task, attempt |-> run'.attempt]
  BY <1>3
<1>5. /\ Sound(FoldResolutions(run.report, {patch}), shown)
      /\ Keeps(run.report, FoldResolutions(run.report, {patch}))
  BY <1>1, <1>2, FoldIsSound
<1>6. Sound(run'.report, shown') /\ Keeps(report, run'.report)
  BY <1>1, <1>2, <1>4, <1>5, KeepsOn
<1> QED
  BY <1>2, <1>4, <1>6, RunMoved

LEMMA FailedStep ==
  ASSUME DeskInv, run # None, FailedAttempt
  PROVE  DeskInv'
<1>1. /\ run = [report |-> run.report, todo |-> run.todo, task |-> run.task, attempt |-> run.attempt]
      /\ Sound(run.report, shown) /\ Keeps(report, run.report)
      /\ run.task # None => run.task \in shown
  BY DEF DeskInv, RunInv
<1>2. UNCHANGED <<report, out, scans, shown>>
  BY DEF FailedAttempt
<1>3. CASE run.attempt = MaxAttempts
  <2>1. run' = [run EXCEPT !.task = None, !.attempt = 0]
    BY <1>3 DEF FailedAttempt
  <2>2. run' = [report |-> run.report, todo |-> run.todo, task |-> None, attempt |-> 0]
    BY <1>1, <2>1
  <2>3. /\ run'.report = run.report /\ run'.task = None
        /\ run' = [report |-> run'.report, todo |-> run'.todo, task |-> run'.task, attempt |-> run'.attempt]
    BY <2>2
  <2>4. Sound(run'.report, shown') /\ Keeps(report, run'.report)
    BY <1>1, <1>2, <2>3
  <2> QED
    BY <1>2, <2>3, <2>4, RunMoved
<1>4. CASE run.attempt # MaxAttempts
  <2>1. run' = run
    BY <1>4 DEF FailedAttempt
  <2> QED
    BY <1>2, <2>1, DeskUntouched
<1> QED
  BY <1>3, <1>4

\* The process writes what it holds, and is gone.
LEMMA FinishStep ==
  ASSUME DeskInv, run # None, FinishRun
  PROVE  DeskInv' /\ Keeps(report, report')
<1>1. Sound(run.report, shown) /\ Keeps(report, run.report)
  BY DEF DeskInv, RunInv
<1>2. report' = run.report /\ run' = None /\ UNCHANGED <<out, scans, shown>>
  BY DEF FinishRun
<1>3. Sound(report, shown)'
  BY <1>1, <1>2 DEF Sound, AskedIn, IsReport, IsLink, Judged, LinkId, Anchors
<1> QED
  BY <1>1, <1>2, <1>3 DEF DeskInv, RunInv

LEMMA CrashStep ==
  ASSUME DeskInv, CrashRun
  PROVE  DeskInv'
<1>1. run' = None /\ UNCHANGED <<report, out, scans, shown>>
  BY DEF CrashRun
<1>2. Sound(report, shown)'
  BY <1>1 DEF DeskInv, Sound, AskedIn, IsReport, IsLink, Judged, LinkId, Anchors
<1> QED
  BY <1>1, <1>2 DEF DeskInv, RunInv

-----------------------------------------------------------------------------
(* The theorems *)

\* Every step keeps the invariant, and every step but a scan keeps the verdicts.
LEMMA DeskNext ==
  ASSUME DeskInv, [Next]_vars
  PROVE  DeskInv' /\ (scans' = scans => Keeps(report, report'))
<1>1. ASSUME NEW r \in Repos, BeginSnapshot(r) \/ WriteArtifacts(r)
      PROVE  DeskInv' /\ report' = report
  BY <1>1, DeskUntouched DEF BeginSnapshot, WriteArtifacts
<1>2. ASSUME NEW named \in SUBSET Repos \ {{}}, LinkScan(named) \/ LinkRefresh(named)
      PROVE  DeskInv' /\ (scans' = scans => Keeps(report, report'))
  BY <1>2, ScanStep, RefreshStep
<1>3. CASE LinkPrompts
  BY <1>3, PromptsStep, KeepsItself DEF LinkPrompts
<1>4. ASSUME out # None, NEW patch, DropPatch(patch)
      PROVE  DeskInv' /\ report' = report
  BY <1>4, DropStep DEF DropPatch
<1>5. CASE LinkCollect
  BY <1>5, CollectStep
<1>6. CASE StartRun
  BY <1>6, StartStep, KeepsItself DEF StartRun
<1>7. ASSUME run # None, NEW t, SkipTask(t) \/ Dispatch(t)
      PROVE  DeskInv' /\ report' = report
  BY <1>7, SkipStep, DispatchStep DEF SkipTask, Dispatch
<1>8. ASSUME run # None, Answered
      PROVE  DeskInv' /\ report' = report
  BY <1>8, ValidatedStep, FailedStep DEF Answered, Validated, FailedAttempt
<1>9. ASSUME run # None, FinishRun
      PROVE  DeskInv' /\ Keeps(report, report')
  BY <1>9, FinishStep
<1>10. ASSUME CrashRun
       PROVE  DeskInv' /\ report' = report
  BY <1>10, CrashStep DEF CrashRun
<1>11. ASSUME NEW name \in leased, ExpireLease(name)
       PROVE  DeskInv' /\ report' = report
  BY <1>11, DeskUntouched DEF ExpireLease
<1>12. CASE UNCHANGED vars
  BY <1>12, DeskUntouched, KeepsItself DEF vars
<1> QED
  BY <1>1, <1>2, <1>3, <1>4, <1>5, <1>6, <1>7, <1>8, <1>9, <1>10, <1>11, <1>12, KeepsItself DEF Next

\* A verdict of a link that no refresh has moved is one that a task asked for, and cites
\* an anchor that the task showed.
THEOREM VerdictsAreGenuine == Spec => []VerdictsWereShown
<1>1. DeskInv => VerdictsWereShown
  BY DEF DeskInv, Sound, AskedIn, VerdictsWereShown
<1> QED
  BY <1>1, DeskInit, DeskNext, PTL DEF Spec

\* A folded verdict stays until links are scanned again: no refresh, collect or run that
\* was under way loses it.
THEOREM VerdictsAreKept == Spec => VerdictsStay
<1>1. DeskInv /\ [Next]_vars =>
        [\A l \in report.links :
           Judged(l) /\ scans' = scans =>
             \E m \in report'.links : Judged(m) /\ Ends(m) = Ends(l)]_vars
  BY DeskNext DEF Keeps
<1> QED
  BY <1>1, DeskInit, DeskNext, PTL DEF Spec, VerdictsStay

-----------------------------------------------------------------------------
(* No call is lost *)

\* What a report says of an outbound edge of a snapshot: a link, or that nothing answers;
\* or another edge of the module stands for it.
Tells(rep, s, e) ==
    \/ \E l \in rep.links : l.protocol = e.channel /\ l.caller = Side(s, e)
    \/ Unmatched(e.channel, Side(s, e)) \in rep.unmatched
    \/ \E f \in OutEdges(s) \ {e} :
          <<f.channel, f.module, Key(f.target)>> = <<e.channel, e.module, Key(e.target)>>

TellsAll(rep, s) == \A e \in OutEdges(s) : Tells(rep, s, e)

\* A report tells of every edge that a scan or a refresh read for it.
Accounts(rep) ==
    \A r \in Repos : read[r] # None => read[r].repo = r /\ TellsAll(rep, read[r])

\* The process of `link run` holds a report that does too: nobody scans meanwhile.
AccountsInv ==
    /\ DeskInv
    /\ Accounts(report)
    /\ run # None => Accounts(run.report)

LEMMA AccountedIsShown == Accounts(report) => EveryCallIsAccounted
<1> SUFFICES ASSUME Accounts(report), NEW r \in Repos, read[r] # None, NEW e \in OutEdges(read[r])
             PROVE  \/ \E l \in QueryService(report, r).links :
                         l.protocol = e.channel /\ l.caller = Side(read[r], e)
                    \/ Unmatched(e.channel, Side(read[r], e)) \in QueryService(report, r).unmatched
                    \/ \E f \in OutEdges(read[r]) \ {e} :
                          <<f.channel, f.module, Key(f.target)>> = <<e.channel, e.module, Key(e.target)>>
  BY DEF EveryCallIsAccounted
<1>1. Tells(report, read[r], e) /\ Side(read[r], e).repo = r
  BY DEF Accounts, TellsAll, Side
<1>2. ASSUME NEW l \in report.links, l.caller = Side(read[r], e)
      PROVE  l \in QueryService(report, r).links
  BY <1>1, <1>2 DEF QueryService, Touches
<1>3. ASSUME Unmatched(e.channel, Side(read[r], e)) \in report.unmatched
      PROVE  Unmatched(e.channel, Side(read[r], e)) \in QueryService(report, r).unmatched
  BY <1>1, <1>3 DEF QueryService, Unmatched
<1> QED
  BY <1>1, <1>2, <1>3 DEF Tells

\* A scan tells of each outbound edge of its snapshots.
LEMMA ScanTells ==
  ASSUME NEW snapshots, NEW s \in snapshots, NEW e \in OutEdges(s)
  PROVE  \/ \E callee : Link(e, Side(s, e), callee) \in ScanLinks(snapshots).links
         \/ Unmatched(e.channel, Side(s, e)) \in ScanLinks(snapshots).unmatched
<1> DEFINE calls == UNION {{[edge |-> f, caller |-> Side(t, f)] : f \in OutEdges(t)} : t \in snapshots}
           c == [edge |-> e, caller |-> Side(s, e)]
<1>1. c \in calls
  OBVIOUS
<1>2. /\ ScanLinks(snapshots).links
           = UNION {{Link(d.edge, d.caller, callee) : callee \in Answering(snapshots, d.edge)} : d \in calls}
      /\ ScanLinks(snapshots).unmatched
           = {Unmatched(d.edge.channel, d.caller) : d \in {x \in calls : Answering(snapshots, x.edge) = {}}}
  BY DEF ScanLinks
<1>3. c.edge = e /\ c.caller = Side(s, e)
  OBVIOUS
<1> HIDE DEF calls, c
<1>4. CASE Answering(snapshots, e) = {}
  BY <1>1, <1>2, <1>3, <1>4
<1>5. ASSUME NEW callee \in Answering(snapshots, e)
      PROVE  Link(e, Side(s, e), callee) \in ScanLinks(snapshots).links
  BY <1>1, <1>2, <1>3, <1>5
<1> QED
  BY <1>4, <1>5

LEMMA NewScanTells ==
  ASSUME NEW snapshots, NEW s \in snapshots
  PROVE  TellsAll(ScanLinks(snapshots), s)
<1> SUFFICES ASSUME NEW e \in OutEdges(s) PROVE Tells(ScanLinks(snapshots), s, e)
  BY DEF TellsAll
<1>1. ASSUME NEW callee
      PROVE  /\ Link(e, Side(s, e), callee).protocol = e.channel
             /\ Link(e, Side(s, e), callee).caller = Side(s, e)
  BY DEF Link
<1> QED
  BY <1>1, ScanTells DEF Tells

\* A verdict moves no link.
LEMMA FoldTells ==
  ASSUME NEW rep, NEW tasks, Sound(rep, tasks), NEW patches, NEW s, TellsAll(rep, s)
  PROVE  TellsAll(FoldResolutions(rep, patches), s)
<1> DEFINE About(l) == \E p \in patches : \E r \in p.resolutions : r.link = LinkId(l)
           Image(l) == IF About(l) THEN [l EXCEPT !.resolution = Resolution(patches, l)] ELSE l
           folded == FoldResolutions(rep, patches)
<1>1. folded = [rep EXCEPT !.links = {Image(l) : l \in @}]
  BY DEF FoldResolutions
<1>2. folded.links = {Image(l) : l \in rep.links} /\ folded.unmatched = rep.unmatched
  <2>1. rep = [links |-> rep.links, unmatched |-> rep.unmatched]
    BY DEF Sound, IsReport
  <2> HIDE DEF Image, folded
  <2> QED
    BY <1>1, <2>1
<1>3. ASSUME NEW l \in rep.links
      PROVE  Image(l).protocol = l.protocol /\ Image(l).caller = l.caller
  <2>1. l = [protocol |-> l.protocol, kind |-> l.kind, caller |-> l.caller, callee |-> l.callee,
             status |-> l.status, resolution |-> l.resolution]
    BY DEF Sound, IsLink
  <2> DEFINE v == Resolution(patches, l)
  <2>2. [l EXCEPT !.resolution = v]
          = [protocol |-> l.protocol, kind |-> l.kind, caller |-> l.caller, callee |-> l.callee,
             status |-> l.status, resolution |-> v]
    <3> HIDE DEF v
    <3> QED BY <2>1
  <2> HIDE DEF v
  <2>3. [l EXCEPT !.resolution = v].protocol = l.protocol /\ [l EXCEPT !.resolution = v].caller = l.caller
    BY <2>2
  <2> QED
    BY <2>3 DEF v
<1> HIDE DEF Image, folded
<1>4. ASSUME NEW e \in OutEdges(s) PROVE Tells(folded, s, e)
  BY <1>2, <1>3 DEF TellsAll, Tells
<1> QED
  BY <1>4 DEF TellsAll, folded

\* Of the directories that a refresh reads, that of a repository is the only one with its name.
LEMMA SnapshotsDiffer ==
  ASSUME NEW named \in SUBSET Repos, NEW r \in Repos, NEW t \in {SnapshotOf(q) : q \in named}, t.repo = r
  PROVE  r \in named /\ dirs[r].ready /\ t = Snapshot(r, dirs[r].head)
<1>1. PICK q \in named : t = SnapshotOf(q)
  OBVIOUS
<1>2. CASE ~dirs[q].ready
  BY <1>1, <1>2, NoneIsNoRepo DEF SnapshotOf
<1>3. CASE dirs[q].ready
  BY <1>1, <1>3 DEF SnapshotOf, Snapshot
<1> QED
  BY <1>2, <1>3

\* A link keeps its protocol; a caller outside the refreshed repositories stays.
LEMMA CarriedCaller ==
  ASSUME NEW fresh, NEW l, IsLink(l)
  PROVE  LET k == CarryLink(fresh, l)
             at == Endpoint(fresh, l.caller, l.protocol)
         IN /\ k.protocol = l.protocol
            /\ k.caller = IF Touches(l, RefreshedRepos(fresh)) /\ at # None THEN at ELSE l.caller
<1> DEFINE caller == Endpoint(fresh, l.caller, l.protocol)
           callee == Endpoint(fresh, l.callee, InboundOf[l.protocol])
           a == IF caller = None THEN l.caller ELSE caller
           b == IF callee = None THEN l.callee ELSE callee
           s == IF None \in {caller, callee} THEN "decayed" ELSE "live"
           k == CarryLink(fresh, l)
<1>1. CASE ~Touches(l, RefreshedRepos(fresh))
  BY <1>1 DEF CarryLink
<1>2. CASE Touches(l, RefreshedRepos(fresh))
  <2>1. k = [l EXCEPT !.caller = IF caller = None THEN @ ELSE caller,
                      !.callee = IF callee = None THEN @ ELSE callee,
                      !.status = s]
    BY <1>2 DEF CarryLink
  <2>2. k = [protocol |-> l.protocol, kind |-> l.kind, caller |-> a, callee |-> b,
             status |-> s, resolution |-> l.resolution]
    <3> HIDE DEF caller, callee, s, k
    <3> QED BY <2>1 DEF IsLink
  <2> HIDE DEF a, b, s, k
  <2>3. k.protocol = l.protocol /\ k.caller = a
    BY <2>2
  <2> QED
    BY <1>2, <2>3 DEF a, k
<1> QED
  BY <1>1, <1>2

\* A snapshot that is not read again is told of as before.
LEMMA RefreshTellsOld ==
  ASSUME NEW rep, NEW tasks, Sound(rep, tasks), NEW fresh, NEW s, TellsAll(rep, s),
         s.repo \notin RefreshedRepos(fresh)
  PROVE  TellsAll(RefreshLinks(rep, fresh), s)
<1> DEFINE new == RefreshLinks(rep, fresh)
<1>1. /\ \A l \in rep.links : CarryLink(fresh, l) \in new.links
      /\ Elsewhere(rep, fresh) \subseteq new.unmatched
  BY DEF RefreshLinks
<1> HIDE DEF new
<1> SUFFICES ASSUME NEW e \in OutEdges(s) PROVE Tells(new, s, e)
  BY DEF TellsAll, new
<1>2. Tells(rep, s, e) /\ Side(s, e).repo = s.repo
  BY DEF TellsAll, Side
<1>3. ASSUME NEW l \in rep.links, l.protocol = e.channel, l.caller = Side(s, e)
      PROVE  Tells(new, s, e)
  <2>1. Endpoint(fresh, l.caller, l.protocol) = l.caller
    BY <1>2, <1>3 DEF Endpoint
  <2>2. CarryLink(fresh, l).protocol = l.protocol /\ CarryLink(fresh, l).caller = l.caller
    BY <2>1, CarriedCaller DEF Sound
  <2> QED
    BY <1>1, <1>3, <2>2 DEF Tells
<1>4. ASSUME Unmatched(e.channel, Side(s, e)) \in rep.unmatched
      PROVE  Tells(new, s, e)
  <2>1. Unmatched(e.channel, Side(s, e)) \in Elsewhere(rep, fresh)
    BY <1>2, <1>4 DEF Elsewhere, Unmatched
  <2> QED
    BY <1>1, <2>1 DEF Tells
<1> QED
  BY <1>2, <1>3, <1>4 DEF Tells

\* The caller of a link in a repository that is read again is an edge of the snapshot, this
\* one or another of its module with its key.
LEMMA CallerFound ==
  ASSUME NEW fresh, NEW s \in fresh, \A t \in fresh : t.repo = s.repo => t = s,
         NEW e \in OutEdges(s)
  PROVE  \E f \in OutEdges(s) :
            /\ Endpoint(fresh, Side(s, e), e.channel) = Side(s, f)
            /\ <<f.channel, f.module, Key(f.target)>> = <<e.channel, e.module, Key(e.target)>>
<1> DEFINE Again(t) == {f \in EdgesFor(t, e.channel) : /\ f.module = Side(s, e).module
                                                       /\ Key(f.target) = Key(Side(s, e).target)}
           found == UNION {{Side(t, f) : f \in Again(t)} : t \in {x \in fresh : x.repo = Side(s, e).repo}}
<1>1. /\ Side(s, e).repo = s.repo /\ Side(s, e).module = e.module /\ Side(s, e).target = e.target
  BY DEF Side
<1>2. e.channel \in Outbound /\ e \in EdgesFor(s, e.channel)
  BY DEF OutEdges, EdgesFor
<1>3. Side(s, e) \in found
  BY <1>1, <1>2
<1>4. Endpoint(fresh, Side(s, e), e.channel) = CHOOSE f \in found : TRUE
  BY <1>1, <1>3 DEF Endpoint, StillPresent, RefreshedRepos
<1>5. Endpoint(fresh, Side(s, e), e.channel) \in found
  BY <1>3, <1>4
<1>6. PICK t \in {x \in fresh : x.repo = Side(s, e).repo} :
           Endpoint(fresh, Side(s, e), e.channel) \in {Side(t, f) : f \in Again(t)}
  BY <1>5
<1>7. t = s
  BY <1>1, <1>6
<1>8. PICK f \in Again(s) : Endpoint(fresh, Side(s, e), e.channel) = Side(s, f)
  BY <1>6, <1>7
<1>9. f \in OutEdges(s) /\ f.channel = e.channel /\ f.module = e.module /\ Key(f.target) = Key(e.target)
  BY <1>1, <1>2, <1>8 DEF EdgesFor, OutEdges
<1> QED
  BY <1>8, <1>9

\* A snapshot that a refresh reads is told of by its own scan, or by the link that was
\* there.
LEMMA RefreshTellsNew ==
  ASSUME NEW rep, NEW tasks, Sound(rep, tasks), NEW fresh, NEW s \in fresh,
         \A t \in fresh : t.repo = s.repo => t = s
  PROVE  TellsAll(RefreshLinks(rep, fresh), s)
<1> DEFINE new == RefreshLinks(rep, fresh)
           known == {LinkId(l) : l \in rep.links}
<1>1. /\ \A l \in rep.links : CarryLink(fresh, l) \in new.links
      /\ \A k \in ScanLinks(fresh).links : LinkId(k) \notin known => [k EXCEPT !.status = "live"] \in new.links
      /\ ScanLinks(fresh).unmatched \subseteq new.unmatched
  BY DEF RefreshLinks, FreshLinks
<1> HIDE DEF new
<1> SUFFICES ASSUME NEW e \in OutEdges(s) PROVE Tells(new, s, e)
  BY DEF TellsAll, new
<1>2. CASE Unmatched(e.channel, Side(s, e)) \in ScanLinks(fresh).unmatched
  BY <1>1, <1>2 DEF Tells
<1>3. ASSUME NEW callee, Link(e, Side(s, e), callee) \in ScanLinks(fresh).links
      PROVE  Tells(new, s, e)
  <2> DEFINE k == Link(e, Side(s, e), callee)
  <2>1. k.protocol = e.channel /\ k.caller = Side(s, e)
    BY DEF Link
  <2>2. CASE LinkId(k) \notin known
    <3>1. [k EXCEPT !.status = "live"].protocol = e.channel
          /\ [k EXCEPT !.status = "live"].caller = Side(s, e)
      BY DEF Link
    <3> HIDE DEF k
    <3> QED
      BY <1>1, <1>3, <2>2, <3>1 DEF Tells, k
  <2>3. CASE LinkId(k) \in known
    <3>1. PICK l \in rep.links : LinkId(l) = LinkId(k)
      BY <2>3
    <3>2. l.protocol = e.channel /\ l.caller = Side(s, e)
      <4> HIDE DEF k
      <4> QED BY <2>1, <3>1 DEF LinkId
    <3>3. PICK f \in OutEdges(s) :
            /\ Endpoint(fresh, Side(s, e), e.channel) = Side(s, f)
            /\ <<f.channel, f.module, Key(f.target)>> = <<e.channel, e.module, Key(e.target)>>
      BY CallerFound
    <3>4. CASE f # e
      BY <3>3, <3>4 DEF Tells
    <3>5. CASE f = e
      <4>1. CarryLink(fresh, l).protocol = e.channel /\ CarryLink(fresh, l).caller = Side(s, e)
        BY <3>2, <3>3, <3>5, CarriedCaller DEF Sound
      <4> QED
        BY <1>1, <4>1 DEF Tells
    <3> QED
      BY <3>4, <3>5
  <2> QED
    BY <2>2, <2>3
<1> QED
  BY <1>2, <1>3, ScanTells

\* The table as it was tells as much as before.
LEMMA SameTable ==
  ASSUME Accounts(report), report' = report, read' = read
  PROVE  Accounts(report)'
BY DEF Accounts, TellsAll, Tells

LEMMA ScanAccounts ==
  ASSUME AccountsInv, DeskInv', NEW named \in SUBSET Repos, LinkScan(named)
  PROVE  AccountsInv'
<1> DEFINE fresh == {SnapshotOf(q) : q \in named}
<1>1. /\ report' = ScanLinks(fresh) /\ run' = None
      /\ read' = [r \in Repos |-> IF r \in named /\ dirs[r].ready THEN Snapshot(r, dirs[r].head) ELSE None]
  BY DEF LinkScan, Free
<1>2. ASSUME NEW r \in Repos, read'[r] # None
      PROVE  read'[r].repo = r /\ TellsAll(ScanLinks(fresh), read'[r])
  <2>1. r \in named /\ dirs[r].ready /\ read'[r] = Snapshot(r, dirs[r].head)
    BY <1>1, <1>2
  <2>2. read'[r] \in fresh /\ read'[r].repo = r
    BY <2>1 DEF SnapshotOf, Snapshot
  <2> QED
    BY <2>2, NewScanTells
<1> HIDE DEF fresh
<1>3. Accounts(report)'
  BY <1>1, <1>2 DEF Accounts, TellsAll, Tells
<1> QED
  BY <1>1, <1>3 DEF AccountsInv

LEMMA RefreshAccounts ==
  ASSUME AccountsInv, DeskInv', NEW named \in SUBSET Repos, LinkRefresh(named)
  PROVE  AccountsInv'
<1> DEFINE fresh == {SnapshotOf(q) : q \in named}
<1>1. /\ report' = RefreshLinks(report, fresh) /\ run' = None
      /\ read' = [r \in Repos |-> IF r \in named /\ dirs[r].ready THEN Snapshot(r, dirs[r].head) ELSE read[r]]
  BY DEF LinkRefresh, Free
<1>2. Sound(report, shown) /\ Accounts(report)
  BY DEF AccountsInv, DeskInv
<1>3. ASSUME NEW r \in Repos, read'[r] # None
      PROVE  read'[r].repo = r /\ TellsAll(RefreshLinks(report, fresh), read'[r])
  <2>1. CASE r \in named /\ dirs[r].ready
    <3>1. read'[r] = Snapshot(r, dirs[r].head)
      BY <1>1, <2>1
    <3>2. read'[r] \in fresh /\ read'[r].repo = r
      BY <2>1, <3>1 DEF SnapshotOf, Snapshot
    <3>3. \A t \in fresh : t.repo = r => t = read'[r]
      BY <3>1, SnapshotsDiffer
    <3> HIDE DEF fresh
    <3> QED
      BY <1>2, <3>2, <3>3, RefreshTellsNew
  <2>2. CASE ~(r \in named /\ dirs[r].ready)
    <3>1. read'[r] = read[r] /\ read[r].repo = r /\ TellsAll(report, read[r])
      BY <1>1, <1>2, <1>3, <2>2 DEF Accounts
    <3>2. r \notin RefreshedRepos(fresh)
      BY <2>2, SnapshotsDiffer DEF RefreshedRepos
    <3> HIDE DEF fresh
    <3> QED
      BY <1>2, <3>1, <3>2, RefreshTellsOld
  <2> QED
    BY <2>1, <2>2
<1> HIDE DEF fresh
<1>4. Accounts(report)'
  BY <1>1, <1>3 DEF Accounts, TellsAll, Tells
<1> QED
  BY <1>1, <1>4 DEF AccountsInv

LEMMA CollectAccounts ==
  ASSUME AccountsInv, DeskInv', LinkCollect
  PROVE  AccountsInv'
<1> DEFINE valid == {p \in out.inbox : \E t \in out.tasks : ValidPatch(p, t)}
<1>1. report' = FoldResolutions(report, valid) /\ run' = None /\ read' = read
  BY DEF LinkCollect, Free
<1>2. Sound(report, shown) /\ Accounts(report)
  BY DEF AccountsInv, DeskInv
<1> HIDE DEF valid
<1>3. Accounts(report)'
  BY <1>1, <1>2, FoldTells DEF Accounts, TellsAll, Tells
<1> QED
  BY <1>1, <1>3 DEF AccountsInv

\* The steps of the process, and those that touch no report.
LEMMA StartAccounts ==
  ASSUME AccountsInv, DeskInv', StartRun
  PROVE  AccountsInv'
<1>1. run'.report = report /\ report' = report /\ read' = read
  BY DEF StartRun
<1>2. Accounts(report)' /\ Accounts(run.report)'
  BY <1>1 DEF AccountsInv, Accounts, TellsAll, Tells
<1> QED
  BY <1>2 DEF AccountsInv

LEMMA HeldStep ==
  ASSUME AccountsInv, DeskInv', run # None, NEW held, run'.report = held,
         \A s : TellsAll(run.report, s) => TellsAll(held, s), UNCHANGED <<report, read>>
  PROVE  AccountsInv'
<1>1. Accounts(report)'
  BY SameTable DEF AccountsInv
<1>2. Accounts(run.report)'
  BY DEF AccountsInv, Accounts, TellsAll, Tells
<1> QED
  BY <1>1, <1>2 DEF AccountsInv

LEMMA RunAccounts ==
  ASSUME AccountsInv, DeskInv', run # None, NEW t, SkipTask(t) \/ Dispatch(t) \/ FailedAttempt
  PROVE  AccountsInv'
<1>1. run = [report |-> run.report, todo |-> run.todo, task |-> run.task, attempt |-> run.attempt]
  BY DEF AccountsInv, DeskInv, RunInv
<1>2. run'.report = run.report
  BY <1>1 DEF SkipTask, Dispatch, FailedAttempt
<1>3. UNCHANGED <<report, read>>
  BY DEF SkipTask, Dispatch, FailedAttempt
<1> QED
  BY <1>2, <1>3, HeldStep

LEMMA ValidatedAccounts ==
  ASSUME AccountsInv, DeskInv', run # None, NEW patch, Validated(patch)
  PROVE  AccountsInv'
<1> DEFINE held == FoldResolutions(run.report, {patch})
<1>1. /\ run = [report |-> run.report, todo |-> run.todo, task |-> run.task, attempt |-> run.attempt]
      /\ Sound(run.report, shown)
  BY DEF AccountsInv, DeskInv, RunInv
<1>2. /\ run' = [run EXCEPT !.report = FoldResolutions(@, {patch}), !.task = None, !.attempt = 0]
      /\ UNCHANGED <<report, read>>
  BY DEF Validated
<1>3. run' = [report |-> held, todo |-> run.todo, task |-> None, attempt |-> 0]
  BY <1>1, <1>2
<1> HIDE DEF held
<1>4. run'.report = held
  BY <1>3
<1>5. \A s : TellsAll(run.report, s) => TellsAll(held, s)
  BY <1>1, FoldTells DEF held
<1> QED
  BY <1>2, <1>4, <1>5, HeldStep

LEMMA FinishAccounts ==
  ASSUME AccountsInv, DeskInv', run # None, FinishRun
  PROVE  AccountsInv'
<1>1. report' = run.report /\ run' = None /\ read' = read
  BY DEF FinishRun
<1>2. Accounts(report)'
  BY <1>1 DEF AccountsInv, Accounts, TellsAll, Tells
<1> QED
  BY <1>1, <1>2 DEF AccountsInv

LEMMA OthersAccount ==
  ASSUME AccountsInv, DeskInv', UNCHANGED <<report, read>>, run' = run \/ run' = None
  PROVE  AccountsInv'
<1>1. Accounts(report)'
  BY SameTable DEF AccountsInv
<1>2. ASSUME run' = run, run # None PROVE Accounts(run.report)'
  BY <1>2 DEF AccountsInv, Accounts, TellsAll, Tells
<1> QED
  BY <1>1, <1>2 DEF AccountsInv

\* No step of any command loses a call.
LEMMA AccountsNext ==
  ASSUME AccountsInv, [Next]_vars
  PROVE  AccountsInv'
<1>desk. DeskInv'
  BY DeskNext DEF AccountsInv
<1>1. ASSUME NEW r \in Repos, BeginSnapshot(r) \/ WriteArtifacts(r) PROVE AccountsInv'
  BY <1>desk, <1>1, OthersAccount DEF BeginSnapshot, WriteArtifacts
<1>2. ASSUME NEW named \in SUBSET Repos \ {{}}, LinkScan(named) \/ LinkRefresh(named)
      PROVE  AccountsInv'
  BY <1>desk, <1>2, ScanAccounts, RefreshAccounts
<1>3. CASE LinkPrompts
  BY <1>desk, <1>3, OthersAccount DEF LinkPrompts
<1>4. ASSUME NEW patch, DropPatch(patch) PROVE AccountsInv'
  BY <1>desk, <1>4, OthersAccount DEF DropPatch
<1>5. CASE LinkCollect
  BY <1>desk, <1>5, CollectAccounts
<1>6. CASE StartRun
  BY <1>desk, <1>6, StartAccounts
<1>7. ASSUME run # None, NEW t, SkipTask(t) \/ Dispatch(t) PROVE AccountsInv'
  BY <1>desk, <1>7, RunAccounts
<1>8. ASSUME run # None, Answered PROVE AccountsInv'
  BY <1>desk, <1>8, ValidatedAccounts, RunAccounts DEF Answered
<1>9. ASSUME run # None, FinishRun PROVE AccountsInv'
  BY <1>desk, <1>9, FinishAccounts
<1>10. ASSUME CrashRun PROVE AccountsInv'
  BY <1>desk, <1>10, OthersAccount DEF CrashRun
<1>11. ASSUME NEW name \in leased, ExpireLease(name) PROVE AccountsInv'
  BY <1>desk, <1>11, OthersAccount DEF ExpireLease
<1>12. CASE UNCHANGED vars
  BY <1>desk, <1>12, OthersAccount DEF vars
<1> QED
  BY <1>1, <1>2, <1>3, <1>4, <1>5, <1>6, <1>7, <1>8, <1>9, <1>10, <1>11, <1>12 DEF Next

\* Each outbound call of a snapshot that the report was computed from is shown as the
\* caller of a link or as unmatched, unless another call of its module has its key:
\* through every order of scans, refreshes, half-written snapshots, verdicts and runs.
THEOREM CallsAreAccounted == Spec => []EveryCallIsAccounted
<1>1. Init => AccountsInv
  <2>1. Init => DeskInv
    BY DeskInit
  <2>2. ASSUME Init PROVE Accounts(report) /\ run = None
    BY <2>2 DEF Init, Accounts
  <2> QED
    BY <2>1, <2>2 DEF AccountsInv
<1>2. AccountsInv => EveryCallIsAccounted
  BY AccountedIsShown DEF AccountsInv
<1> QED
  BY <1>1, <1>2, AccountsNext, PTL DEF Spec
=============================================================================
