-------------------------- MODULE BuildDriverProofs --------------------------
(* Proofs about BuildDriver, for every stage list and every behaviour of the  *)
(* stages that the named assumptions admit, however often the trees are       *)
(* edited and builds interrupted.                                             *)
EXTENDS BuildDriver, FiniteSetTheorems, TLAPS

-----------------------------------------------------------------------------
(* Type correctness.                                                          *)

\* What a build reads is a tree.
LEMMA InputType ==
    ASSUME TypeOK, NEW overlay \in BOOLEAN
    PROVE  Input(overlay) \in Tree
  BY DEF TypeOK, Input, Overlaid, Tree

\* The ID files of a tree are a tree.
LEMMA IdsType ==
    ASSUME NEW t \in Tree
    PROVE  Ids(t) \in Tree
  BY DEF Ids, Tree

\* The stages that the batch file lists are scripts, each once.
LEMMA StagesType ==
    ASSUME NEW t \in Tree
    PROVE  Stages(t[Bat]) \in Seq(Scripts) /\ IsInjective(Stages(t[Bat]))
  BY BuildAssumption, ListAssumption DEF Tree

\* There may be no build.
LEMMA IdleType == Idle \in Job
  <1>1. NoTree \in Tree /\ NoFiles \in Exports
    BY DEF NoTree, NoFiles, Tree, Exports
  <1>2. 0 \in 0..MaxPasses /\ <<>> \in Seq(Scripts)
    BY BuildAssumption
  <1> QED BY <1>1, <1>2 DEF Idle, Job

\* The stage to run next is one of the scripts.
LEMMA StageIsScript ==
    ASSUME TypeOK, RunStage
    PROVE  job.k \in 1..Len(job.stages) /\ job.stages[job.k] \in Scripts
  <1>1. job.k \in Nat \ {0} /\ job.stages \in Seq(Scripts)
    BY DEF TypeOK, Job
  <1> QED BY <1>1 DEF RunStage

\* Starting a build keeps the types.
LEMMA StartType ==
    ASSUME TypeOK, NEW overlay \in BOOLEAN, NEW sync \in BOOLEAN, NEW force \in BOOLEAN,
           Start(overlay, sync, force)
    PROVE  TypeOK'
  <1> DEFINE over == IF overlay THEN Listed(ovl) ELSE {}
  <1>1. job' = [Idle EXCEPT !.pc = "copy", !.overlay = overlay, !.sync = sync,
                            !.todo = Listed(src), !.over = over]
    BY Zenon DEF Start
  <1>2. Listed(src) \subseteq Export \cup File /\ over \subseteq File
    BY DEF Listed
  <1> HIDE DEF over
  <1>3. job' \in Job
    BY <1>1, <1>2, IdleType, Zenon DEF Job
  <1> QED BY <1>3 DEF Start, TypeOK

\* Copying a file keeps the types.
LEMMA CopyFileType ==
    ASSUME TypeOK, NEW f \in File, CopyBase(f) \/ CopyOverlay(f)
    PROVE  TypeOK'
  <1>1. job \in Job /\ job.work \in Tree
    BY DEF TypeOK, Job
  <1>2. CASE CopyBase(f)
    <2>1. /\ job.todo \ {f} \subseteq Export \cup File
          /\ [job.work EXCEPT ![f] = src[f]] \in Tree
      BY <1>1 DEF Job, TypeOK, Tree
    <2>2. job' = [job EXCEPT !.todo = job.todo \ {f}, !.work = [job.work EXCEPT ![f] = src[f]]]
      BY <1>1, <1>2, Zenon DEF CopyBase, Job
    <2>3. job' \in Job
      BY <1>1, <2>1, <2>2, Zenon DEF Job
    <2> QED BY <1>2, <2>3 DEF CopyBase, TypeOK
  <1>3. CASE CopyOverlay(f)
    <2>1. /\ job.over \ {f} \subseteq File
          /\ [job.work EXCEPT ![f] = ovl[f]] \in Tree
      BY <1>1 DEF Job, TypeOK, Tree
    <2>2. job' = [job EXCEPT !.over = job.over \ {f}, !.work = [job.work EXCEPT ![f] = ovl[f]]]
      BY <1>1, <1>3, Zenon DEF CopyOverlay, Job
    <2>3. job' \in Job
      BY <1>1, <2>1, <2>2, Zenon DEF Job
    <2> QED BY <1>3, <2>3 DEF CopyOverlay, TypeOK
  <1> QED BY <1>2, <1>3

\* Beginning the first pass keeps the types.
LEMMA ParseType ==
    ASSUME TypeOK, Parse
    PROVE  TypeOK'
  <1> DEFINE known == Kind(job.overlay) \in synced /\ ~job.edited
  <1>1. job \in Job /\ job.work \in Tree /\ 1 \in 0..MaxPasses
    BY BuildAssumption DEF TypeOK, Job
  <1>2. Ids(job.work) \in Tree /\ Stages(job.work[Bat]) \in Seq(Scripts)
    BY <1>1, IdsType, StagesType
  <1>3. job' = [job EXCEPT !.pc = "pass", !.stages = Stages(job.work[Bat]), !.pass = 1,
                           !.before = Ids(job.work), !.settled = known]
    BY Zenon DEF Parse
  <1>4. known \in BOOLEAN
    OBVIOUS
  <1> HIDE DEF known
  <1>5. job' \in Job
    BY <1>1, <1>2, <1>3, <1>4, Zenon DEF Job
  <1> QED BY <1>5 DEF Parse, TypeOK

\* So does all of it.
LEMMA CopyType ==
    ASSUME TypeOK, Copy
    PROVE  TypeOK'
  <1>1. CASE CannotBegin
    BY <1>1, IdleType DEF CannotBegin, TypeOK
  <1> QED BY <1>1, CopyFileType, ParseType DEF Copy

\* Running a stage keeps the types.
LEMMA RunStageType ==
    ASSUME TypeOK, RunStage
    PROVE  TypeOK'
  <1>1. job \in Job /\ job.work \in Tree /\ job.exports \in Exports /\ job.k + 1 \in Nat \ {0}
    BY DEF TypeOK, Job
  <1>2. job.stages[job.k] \in Scripts
    BY StageIsScript
  <1>3. /\ StageTree(job.stages[job.k], job.work, job.exports) \in Tree
        /\ StageExports(job.stages[job.k], job.work, job.exports) \in Exports
    BY <1>1, <1>2, StageAssumption, Zenon
  <1>4. job' \in Job
    BY <1>1, <1>3, Zenon DEF RunStage, Job
  <1> QED BY <1>1, <1>4 DEF RunStage, TypeOK

\* Another pass keeps the types.
LEMMA RetryType ==
    ASSUME TypeOK, Retry
    PROVE  TypeOK'
  <1>1. job \in Job /\ job.pass + 1 \in 0..MaxPasses /\ 1 \in Nat \ {0}
    BY BuildAssumption DEF TypeOK, Job, Retry
  <1>2. Ids(job.work) \in Tree /\ NoFiles \in Exports
    BY <1>1, IdsType DEF Job, NoFiles, Exports
  <1>3. job' \in Job
    BY <1>1, <1>2, Zenon DEF Retry, NextPass, Job
  <1> QED BY <1>3 DEF Retry, TypeOK

\* Publishing keeps the types.
LEMMA PublishType ==
    ASSUME TypeOK, Publish
    PROVE  TypeOK'
  <1>1. job \in Job
    BY DEF TypeOK
  <1>2. ASSUME NEW f \in Export \cup {Marker}, Skip(f)
        PROVE  TypeOK'
    <2>1. job.todo \ {f} \subseteq Export \cup File
      BY <1>1 DEF Job
    <2>2. job' \in Job
      BY <1>1, <1>2, <2>1, Zenon DEF Skip, Job
    <2> QED BY <1>2, <2>2 DEF Skip, TypeOK
  <1>3. ASSUME NEW f \in Export \cup {Marker}, WriteTmp(f)
        PROVE  TypeOK'
    <2>1. job' \in Job
      BY <1>1, <1>3, Zenon DEF WriteTmp, Job
    <2> QED BY <1>3, <2>1 DEF WriteTmp, TypeOK
  <1>4. CASE Replace
    <2>1. job.todo \ {job.writing} \subseteq Export \cup File
      BY <1>1 DEF Job
    <2>2. job' \in Job
      BY <1>1, <1>4, <2>1, Zenon DEF Replace, Job
    <2>3. job.exports[job.writing] \in Data \cup {Absent}
      BY <1>1, <1>4 DEF Replace, Job, Exports
    <2>4. out' \in [Export -> Data \cup {Absent, Foreign}]
      BY <1>4, <2>3 DEF Replace, TypeOK
    <2> QED BY <1>4, <2>2, <2>4 DEF Replace, TypeOK
  <1>5. CASE ReplaceMarker
    <2>1. job' \in Job
      BY <1>1, <1>5, Zenon DEF ReplaceMarker, Job
    <2>2. marker' \in Exports
      BY <1>1, <1>5 DEF ReplaceMarker, Job
    <2> QED BY <1>5, <2>1, <2>2 DEF ReplaceMarker, TypeOK
  <1> QED BY <1>2, <1>3, <1>4, <1>5 DEF Publish

\* Comparing keeps the types.
LEMMA CompareType ==
    ASSUME TypeOK, Compare
    PROVE  TypeOK'
  <1>1. job \in Job
    BY DEF TypeOK
  <1>2. {f \in Differ : job.work[f] # Absent} \subseteq Export \cup File
    BY BuildAssumption DEF Differ
  <1>3. CASE job.sync
    <2>1. job' = [job EXCEPT !.pc = "sync", !.todo = {f \in Differ : job.work[f] # Absent}]
      BY <1>3, Zenon DEF Compare
    <2>2. job' \in Job
      BY <1>1, <1>2, <2>1, Zenon DEF Job
    <2> QED BY <1>3, <2>2 DEF Compare, TypeOK
  <1>4. CASE ~job.sync
    BY <1>4, IdleType DEF Compare, TypeOK
  <1> QED BY <1>3, <1>4

\* Writing ID files back keeps the types.
LEMMA SyncType ==
    ASSUME TypeOK, NEW f \in IdFile, Sync(f) \/ WriteSyncTmp(f)
    PROVE  TypeOK'
  <1>1. job \in Job /\ f \in File
    BY BuildAssumption DEF TypeOK
  <1>2. CASE WriteSyncTmp(f)
    <2>1. job' \in Job
      BY <1>1, <1>2, Zenon DEF WriteSyncTmp, Job
    <2>2. [overlay |-> job.overlay, file |-> f] \in [overlay : BOOLEAN, file : IdFile]
      BY <1>1 DEF Job
    <2> QED BY <1>2, <2>1, <2>2 DEF WriteSyncTmp, TypeOK
  <1>3. CASE Sync(f)
    <2>1. job.todo \ {f} \subseteq Export \cup File
      BY <1>1 DEF Job
    <2>2. job' \in Job
      BY <1>1, <1>3, <2>1, Zenon DEF Sync, Job
    <2>3. job.work[f] \in Bytes \cup {Absent}
      BY <1>1 DEF Job, Tree
    <2>4. src' \in Tree /\ ovl' \in Tree
      BY <1>1, <1>3, <2>3 DEF Sync, TypeOK, Tree
    <2> QED BY <1>3, <2>2, <2>4 DEF Sync, TypeOK
  <1> QED BY <1>2, <1>3

\* What the user edits keeps the types.
LEMMA UserEditsType ==
    ASSUME TypeOK, NEW e \in Edit, UserEdits(e)
    PROVE  TypeOK'
  <1>1. job \in Job
    BY DEF TypeOK
  <1>2. job' \in Job
    BY <1>1, Zenon DEF UserEdits, Job
  <1>3. e.file \in File /\ e.bytes \in Bytes \cup {Absent}
    BY BuildAssumption
  <1>4. src' \in Tree /\ ovl' \in Tree
    BY <1>3 DEF UserEdits, TypeOK, Tree
  <1> QED BY <1>2, <1>4 DEF UserEdits, TypeOK

\* Actions that end a build, and those that begin to publish.
LEMMA OtherType ==
    ASSUME TypeOK, Accept \/ GiveUp \/ Finish \/ Interrupt
    PROVE  TypeOK'
  <1>1. job \in Job
    BY DEF TypeOK
  <1>2. CASE Accept
    <2>1. Present(job.exports) \subseteq Export \cup File
      BY DEF Present
    <2>2. job' \in Job
      BY <1>1, <1>2, <2>1, Zenon DEF Accept, Job
    <2> QED BY <1>2, <2>2 DEF Accept, TypeOK
  <1>3. CASE GiveUp
    BY <1>3, IdleType DEF GiveUp, TypeOK
  <1>4. CASE Finish
    BY <1>4, IdleType DEF Finish, TypeOK, Kind
  <1>5. CASE Interrupt
    BY <1>5, IdleType DEF Interrupt, CleanUp, TypeOK
  <1> QED BY <1>2, <1>3, <1>4, <1>5

\* What the operations of the driver do to the types of its state: nothing.
THEOREM TypeCorrect == Spec => []TypeOK
  <1>1. Init => TypeOK
    <2> SUFFICES ASSUME Init PROVE TypeOK
      OBVIOUS
    <2>1. src \in Tree /\ ovl \in Tree
      BY BuildAssumption DEF Init, NoTree, Tree
    <2>2. out \in [Export -> Data \cup {Absent, Foreign}]
      BY DEF Init
    <2> QED BY <2>1, <2>2, IdleType DEF Init, TypeOK
  <1>2. TypeOK /\ [Next]_vars => TypeOK'
    <2> SUFFICES ASSUME TypeOK, [Next]_vars PROVE TypeOK'
      OBVIOUS
    <2>1. CASE UNCHANGED vars
      BY <2>1 DEF vars, TypeOK
    <2>2. CASE Next
      BY <2>2, StartType, CopyType, RunStageType, RetryType, PublishType, CompareType, SyncType,
         UserEditsType, OtherType DEF Next, Build, WriteBack
    <2> QED BY <2>1, <2>2
  <1> QED BY <1>1, <1>2, PTL DEF Spec

-----------------------------------------------------------------------------
(* The trees that the stages of a pass have seen.  Since each ID file has one *)
(* writer among them and each runs once, a file is in each of those trees as  *)
(* it was before the pass or as it is now; so that it has not changed over    *)
(* the pass means that it has not changed within it.                          *)

Began(f) == \E i \in 1..(job.k - 1) : Writes(job.stages[i], f)

Passing == ~At("idle") /\ ~At("copy")
Fresh == job.k = 1 /\ job.exports = NoFiles /\ ~job.failed /\ ~job.settled /\ job.writing = Absent

PassInv ==
  IF ~Passing THEN saw = {} /\ (At("copy") => Fresh) ELSE
    /\ job.stages # <<>> /\ IsInjective(job.stages)
    /\ job.k > 1 => saw # {}
    /\ HasAccepted => /\ job.k > Len(job.stages)
                      /\ ~job.failed /\ Ids(job.work) = job.before
    /\ \A t \in saw : \A f \in File \ IdFile : t[f] = job.work[f]
    /\ \A t \in saw : \A f \in IdFile : t[f] \in {job.before[f], job.work[f]}
    /\ \A f \in IdFile : job.work[f] = job.before[f] \/ Began(f)

\* From the invariant: every stage of an accepted pass saw its final tree.
LEMMA PassInvSaw ==
    ASSUME TypeOK, PassInv
    PROVE  EveryStageSawTheFinalTree
  <1> SUFFICES ASSUME HasAccepted PROVE saw = {job.work}
    BY DEF EveryStageSawTheFinalTree
  <1>1. job \in Job /\ Passing
    BY DEF TypeOK, HasAccepted, Passing, At
  <1>2. saw # {}
    <2>1. job.stages \in Seq(Scripts) /\ job.stages # <<>> /\ job.k \in Nat
      BY <1>1 DEF Job, PassInv
    <2>2. Len(job.stages) > 0 /\ Len(job.stages) \in Nat
      BY <2>1
    <2>3. job.k > Len(job.stages)
      BY <1>1 DEF PassInv
    <2> QED BY <1>1, <2>1, <2>2, <2>3 DEF PassInv
  <1>3. ASSUME NEW t \in saw PROVE t = job.work
    <2>1. t \in Tree /\ job.work \in Tree
      BY <1>1 DEF TypeOK, Job
    <2>2. ASSUME NEW f \in IdFile PROVE t[f] = job.work[f]
      <3>1. f \in File
        BY BuildAssumption
      <3>2. job.before[f] = job.work[f]
        BY <1>1, <3>1 DEF PassInv, Ids
      <3> QED BY <1>1, <3>2 DEF PassInv
    <2>3. \A f \in File : t[f] = job.work[f]
      BY <1>1, <2>2 DEF PassInv
    <2> QED BY <2>1, <2>3 DEF Tree
  <1> QED BY <1>2, <1>3

\* What PassInv reads of a job.
SamePass == /\ job'.stages = job.stages /\ job'.k = job.k /\ job'.work = job.work
            /\ job'.before = job.before /\ job'.failed = job.failed /\ saw' = saw

\* A step that leaves the pass alone keeps the invariant.
LEMMA PassInvSame ==
    ASSUME PassInv, SamePass, Passing, Passing', HasAccepted' => HasAccepted
    PROVE  PassInv'
  BY DEF PassInv, SamePass, Began, Ids

\* It holds when there is no build.
LEMMA PassInvIdle ==
    ASSUME job' = Idle, saw' = {}
    PROVE  PassInv'
  BY DEF PassInv, Passing, Idle, At

\* It holds when the first pass begins.
LEMMA PassInvParse ==
    ASSUME TypeOK, PassInv, Parse
    PROVE  PassInv'
  <1> DEFINE tree == job.work
  <1>1. job \in Job /\ tree \in Tree
    BY DEF TypeOK, Job
  <1>2. IsInjective(Stages(tree[Bat])) /\ Stages(tree[Bat]) # <<>>
    BY <1>1, StagesType DEF Parse
  <1>3. /\ job'.pc = "pass" /\ job'.stages = Stages(tree[Bat]) /\ job'.work = tree
        /\ job'.before = Ids(tree) /\ job'.k = job.k /\ job.pc = "copy"
    BY <1>1, Zenon DEF Parse, Copied, At, Job
  <1>4. saw' = {} /\ job.k = 1
    BY <1>3 DEF Parse, PassInv, Passing, Fresh, At
  <1> HIDE DEF tree
  <1>5. \A f \in IdFile : job'.work[f] = job'.before[f]
    BY <1>3, BuildAssumption DEF Ids
  <1> QED BY <1>2, <1>3, <1>4, <1>5 DEF PassInv, Passing, HasAccepted, At

\* What a build has before its first pass.
LEMMA FreshStart ==
    ASSUME NEW overlay \in BOOLEAN, NEW sync \in BOOLEAN, NEW force \in BOOLEAN,
           Start(overlay, sync, force)
    PROVE  job'.pc = "copy" /\ Fresh' /\ job'.stages = <<>>
  BY IdleType, Zenon DEF Start, Idle, Fresh

\* It keeps that until then.
LEMMA FreshCopy ==
    ASSUME TypeOK, NEW f \in File, CopyBase(f) \/ CopyOverlay(f), Fresh
    PROVE  Fresh' /\ job.pc = "copy" /\ job'.pc = "copy"
  <1>1. job \in Job
    BY DEF TypeOK
  <1>2. CASE CopyBase(f)
    BY <1>1, <1>2, Zenon DEF CopyBase, Fresh, Job, At
  <1>3. CASE CopyOverlay(f)
    BY <1>1, <1>3, Zenon DEF CopyOverlay, Fresh, Job, At
  <1> QED BY <1>2, <1>3

\* Copying keeps the invariant.
LEMMA PassInvCopy ==
    ASSUME TypeOK, PassInv, Copy
    PROVE  PassInv'
  <1>1. ASSUME NEW f \in File, CopyBase(f) \/ CopyOverlay(f)
        PROVE  PassInv'
    <2>1. job.pc = "copy"
      BY <1>1 DEF CopyBase, CopyOverlay, At
    <2>2. Fresh /\ saw = {}
      BY <2>1 DEF PassInv, Passing, At
    <2>3. Fresh' /\ job'.pc = "copy"
      BY <1>1, <2>2, FreshCopy
    <2>4. saw' = saw
      BY <1>1 DEF CopyBase, CopyOverlay
    <2> QED BY <2>2, <2>3, <2>4 DEF PassInv, Passing, At
  <1>2. CASE CannotBegin
    <2>1. saw' = {}
      BY <1>2 DEF CannotBegin, PassInv, Passing, At
    <2> QED BY <1>2, <2>1, PassInvIdle DEF CannotBegin
  <1> QED BY <1>1, <1>2, PassInvParse DEF Copy

\* It holds at the start of another pass.
LEMMA PassInvRetry ==
    ASSUME TypeOK, PassInv, Retry
    PROVE  PassInv'
  <1>1. job \in Job
    BY DEF TypeOK
  <1>2. /\ job'.pc = job.pc /\ job'.stages = job.stages /\ job'.k = 1 
        /\ job'.work = job.work /\ job'.before = Ids(job.work)
    BY <1>1, Zenon DEF Retry, NextPass, Job
  <1>3. saw' = {} /\ job.pc = "pass"
    BY DEF Retry, PassIsOver, At
  <1>4. \A f \in IdFile : job'.work[f] = job'.before[f]
    BY <1>2, BuildAssumption DEF Ids
  <1> QED BY <1>2, <1>3, <1>4 DEF PassInv, Passing, HasAccepted, At

\* Accepting a pass keeps it: the ID files were left as they were.
LEMMA PassInvAccept ==
    ASSUME TypeOK, PassInv, Accept
    PROVE  PassInv'
  <1>1. job \in Job
    BY DEF TypeOK
  <1>2. SamePass /\ job'.pc = "publish"
    BY <1>1, Zenon DEF Accept, Job, SamePass
  <1>3. job.pc = "pass" /\ job.k > Len(job.stages) /\ ~job.failed /\ Ids(job.work) = job.before
    BY DEF Accept, PassIsOver, At, Accepted, IdsChanged
  <1> QED BY <1>2, <1>3 DEF PassInv, Passing, SamePass, Began, Ids, At, HasAccepted

\* Running a stage keeps it: a stage reads only what earlier stages left.
LEMMA PassInvRunStage ==
    ASSUME TypeOK, PassInv, RunStage
    PROVE  PassInv'
  <1> DEFINE s == job.stages[job.k]
             x == job.exports
  <1>1. job \in Job /\ job.work \in Tree /\ x \in Exports /\ job.k \in Nat \ {0}
    BY DEF TypeOK, Job
  <1>2. job.k \in 1..Len(job.stages) /\ s \in Scripts
    BY StageIsScript
  <1>3. /\ job'.pc = job.pc /\ job'.stages = job.stages /\ job'.k = job.k + 1
        /\ job'.work = StageTree(s, job.work, x) /\ job'.before = job.before
    BY <1>1, Zenon DEF RunStage, Job
  <1>4. saw' = saw \cup {job.work} /\ job.pc = "pass"
    BY DEF RunStage, At
  <1>5. /\ job.stages # <<>> /\ IsInjective(job.stages)
        /\ \A t \in saw : \A f \in File \ IdFile : t[f] = job.work[f]
        /\ \A t \in saw : \A f \in IdFile : t[f] \in {job.before[f], job.work[f]}
        /\ \A f \in IdFile : job.work[f] = job.before[f] \/ Began(f)
    BY <1>4 DEF PassInv, Passing, At
  <1> HIDE DEF x
  <1>6. ASSUME NEW f \in File, job'.work[f] # job.work[f]
        PROVE  f \in IdFile /\ Writes(s, f) /\ job.work[f] = job.before[f]
    <2>1. Writes(s, f)
      BY <1>1, <1>3, <1>6 DEF Writes
    <2>2. f \in IdFile
      BY <1>2, <2>1, WriterAssumption
    <2>3. ~Began(f)
      <3> SUFFICES ASSUME NEW i \in 1..(job.k - 1), Writes(job.stages[i], f) PROVE FALSE
        BY DEF Began
      <3>1. job.stages \in Seq(Scripts)
        BY <1>1 DEF Job
      <3>2. i \in 1..Len(job.stages) /\ i # job.k
        BY <1>1, <1>2, <3>1
      <3>3. job.stages[i] \in Scripts /\ job.stages[i] # s
        BY <1>2, <1>5, <3>1, <3>2 DEF IsInjective
      <3> QED BY <1>2, <2>1, <3>3, WriterAssumption
    <2> QED BY <1>5, <2>1, <2>2, <2>3
  <1>7. ASSUME NEW f \in IdFile PROVE job'.work[f] = job'.before[f] \/ Began(f)'
    <2>1. f \in File
      BY BuildAssumption
    <2>2. CASE Began(f)
      <3>1. PICK i \in 1..(job.k - 1) : Writes(job.stages[i], f)
        BY <2>2 DEF Began
      <3>2. i \in 1..(job'.k - 1)
        BY <1>1, <1>3
      <3>3. Writes(job'.stages[i], f)
        BY <1>3, <3>1
      <3> QED BY <3>2, <3>3 DEF Began, Writes
    <2>3. CASE job'.work[f] # job.work[f]
      <3>1. Writes(s, f)
        BY <1>6, <2>1, <2>3
      <3>2. job.k \in 1..(job'.k - 1)
        BY <1>1, <1>3
      <3>3. Writes(job'.stages[job.k], f)
        BY <1>3, <3>1
      <3> QED BY <3>2, <3>3 DEF Began, Writes
    <2> QED BY <1>3, <1>5, <2>2, <2>3
  <1>8. ASSUME NEW t \in saw', NEW f \in File \ IdFile PROVE t[f] = job'.work[f]
    BY <1>4, <1>5, <1>6
  <1>9. ASSUME NEW t \in saw', NEW f \in IdFile
        PROVE  t[f] \in {job'.before[f], job'.work[f]}
    <2>1. f \in File
      BY BuildAssumption
    <2>2. t[f] \in {job.before[f], job.work[f]}
      BY <1>4, <1>5
    <2> QED BY <1>3, <1>6, <2>1, <2>2
  <1> HIDE DEF s
  <1> QED BY <1>3, <1>4, <1>5, <1>7, <1>8, <1>9 DEF PassInv, Passing, HasAccepted, At

\* Every step keeps the invariant of passes.
LEMMA PassInvStep ==
    ASSUME TypeOK, PassInv, [Next]_vars
    PROVE  PassInv'
  <1>1. job \in Job
    BY DEF TypeOK
  <1>2. ASSUME NEW overlay \in BOOLEAN, NEW sync \in BOOLEAN, NEW force \in BOOLEAN,
               Start(overlay, sync, force)
        PROVE  PassInv'
    <2>1. job'.pc = "copy" /\ Fresh'
      BY <1>2, FreshStart
    <2>2. saw' = {}
      BY <1>2 DEF Start, PassInv, Passing, At
    <2> QED BY <2>1, <2>2 DEF PassInv, Passing, At
  <1>3. CASE Copy \/ RunStage \/ Accept \/ Retry
    BY <1>3, PassInvCopy, PassInvRunStage, PassInvAccept, PassInvRetry
  <1>4. CASE GiveUp \/ Finish \/ Interrupt
    BY <1>4, PassInvIdle DEF GiveUp, Finish, Interrupt
  <1>5. CASE Publish
    <2>1. SamePass /\ job.pc = "publish" /\ job'.pc \in {"publish", "compare"}
      BY <1>1, <1>5, ZenonT(40)
         DEF Publish, Skip, Publishing, WriteTmp, Replace, ReplaceMarker, SamePass, Job, At
    <2> QED BY <2>1, PassInvSame DEF At, Passing, HasAccepted
  <1>6. CASE Compare
    <2>1. CASE job.sync
      <3>1. SamePass /\ job.pc = "compare" /\ job'.pc = "sync"
        BY <1>1, <1>6, <2>1, Zenon DEF Compare, SamePass, Job, At
      <3> QED BY <3>1, PassInvSame DEF At, Passing, HasAccepted
    <2>2. CASE ~job.sync
      BY <1>6, <2>2, PassInvIdle DEF Compare
    <2> QED BY <2>1, <2>2
  <1>7. ASSUME NEW f \in IdFile, Sync(f) \/ WriteSyncTmp(f) PROVE PassInv'
    <2>1. CASE Sync(f)
      <3>1. SamePass /\ job.pc = "sync" /\ job'.pc = "sync"
        BY <1>1, <2>1, Zenon DEF Sync, SamePass, Job, At
      <3> QED BY <3>1, PassInvSame DEF At, Passing, HasAccepted
    <2>2. CASE WriteSyncTmp(f)
      <3>1. SamePass /\ job.pc = "sync" /\ job'.pc = "sync"
        BY <1>1, <2>2, Zenon DEF WriteSyncTmp, SamePass, Job, At
      <3> QED BY <3>1, PassInvSame DEF At, Passing, HasAccepted
    <2> QED BY <1>7, <2>1, <2>2
  <1>8. ASSUME NEW e \in Edit, UserEdits(e) PROVE PassInv'
    <2>1. CASE At("idle")
      BY <1>8, <2>1 DEF UserEdits, PassInv, Passing, At
    <2>2. CASE At("copy")
      <3>1. job'.pc = "copy" /\ saw' = saw /\ saw = {} /\ Fresh
        BY <1>1, <1>8, <2>2, Zenon DEF UserEdits, PassInv, Passing, At, Job
      <3>2. Fresh'
        BY <1>1, <1>8, <3>1, Zenon DEF UserEdits, Fresh, Job
      <3> QED BY <3>1, <3>2 DEF PassInv, Passing, At
    <2>3. CASE Passing
      <3>1. SamePass /\ job'.pc = job.pc
        BY <1>1, <1>8, <2>3, Zenon DEF UserEdits, Passing, SamePass, Job
      <3> QED BY <2>3, <3>1, PassInvSame DEF At, Passing, HasAccepted
    <2> QED BY <2>1, <2>2, <2>3 DEF Passing
  <1>9. CASE UNCHANGED vars
    <2>1. saw' = saw /\ job' = job
      BY <1>9 DEF vars
    <2> QED BY <2>1 DEF PassInv, Passing, Fresh, Began, HasAccepted, At
  <1> QED BY <1>2, <1>3, <1>4, <1>5, <1>6, <1>7, <1>8, <1>9 DEF Next, Build, WriteBack

\* Every stage of an accepted pass has seen the final tree, though the driver
\* only compares the ID files before the pass with those after it.
THEOREM AcceptedPassesAgree == Spec => []EveryStageSawTheFinalTree
  <1>1. Init => PassInv
    BY DEF Init, PassInv, Passing, Idle, At
  <1>2. TypeOK /\ PassInv /\ [Next]_vars => PassInv'
    BY PassInvStep
  <1>3. TypeOK /\ PassInv => EveryStageSawTheFinalTree
    BY PassInvSaw
  <1> QED BY <1>1, <1>2, <1>3, TypeCorrect, PTL DEF Spec

-----------------------------------------------------------------------------
(* Publishing.  A file leaves todo when the output directory holds what the   *)
(* accepted pass exported, and the marker is written when none is left.       *)

PublishInv ==
  /\ At("publish") =>
       /\ job.todo \subseteq Present(job.exports)
       /\ \A f \in Present(job.exports) \ job.todo : out[f] = job.exports[f]
       /\ job.writing \in Export => job.writing \in job.todo
       /\ job.writing = Marker => job.todo = {}
  /\ At("pass") => job.writing = Absent
  /\ PublishedAsAccepted
  /\ MarkerNamesOwnFiles
  /\ At("sync") => job.sync

\* A step of publish keeps the invariant of publishing.
LEMMA PublishStep ==
    ASSUME TypeOK, PublishInv, Publish
    PROVE  PublishInv'
  <1>1. /\ job \in Job /\ job.pc = "publish" /\ job.exports \in Exports
        /\ marker \in Exports \cup {Absent}
    BY DEF TypeOK, Publish, Skip, Publishing, WriteTmp, Replace, ReplaceMarker, Job, At
  <1>2. /\ job.todo \subseteq Present(job.exports)
        /\ \A f \in Present(job.exports) \ job.todo : out[f] = job.exports[f]
        /\ job.writing \in Export => job.writing \in job.todo
        /\ job.writing = Marker => job.todo = {}
        /\ MarkerNamesOwnFiles
    BY <1>1 DEF PublishInv, At
  <1>3. ASSUME NEW f \in Export \cup {Marker}, Skip(f)
        PROVE  PublishInv'
    <2>1. /\ job'.pc = "publish" /\ job'.exports = job.exports /\ job'.todo = job.todo \ {f}
          /\ job'.writing = job.writing /\ out' = out /\ marker' = marker
      BY <1>1, <1>3, Zenon DEF Skip, Job
    <2>2. out[f] = job.exports[f] /\ job.writing = Absent
      BY <1>3 DEF Skip, Changed, Publishing
    <2> QED BY <1>2, <2>1, <2>2, BuildAssumption
            DEF PublishInv, At, PublishedAsAccepted, MarkerNamesOwnFiles, Present
  <1>4. ASSUME NEW f \in Export \cup {Marker}, WriteTmp(f)
        PROVE  PublishInv'
    <2>1. /\ job'.pc = "publish" /\ job'.exports = job.exports /\ job'.todo = job.todo
          /\ job'.writing = f /\ out' = out /\ marker' = marker
      BY <1>1, <1>4, Zenon DEF WriteTmp, Job
    <2>2. f \in job.todo \/ (f = Marker /\ job.todo = {})
      BY <1>4 DEF WriteTmp, Publishing
    <2>3. Marker \notin job.todo
      BY <1>2, BuildAssumption DEF Present
    <2>4. (f \in Export => f \in job.todo) /\ (f = Marker => job.todo = {})
      BY <2>2, <2>3, BuildAssumption
    <2>5. \A g \in Present(job.exports) \ job.todo : out'[g] = job.exports[g]
      BY <1>2, <2>1
    <2>6. MarkerNamesOwnFiles'
      BY <1>2, <2>1 DEF MarkerNamesOwnFiles, Present
    <2> QED BY <1>2, <2>1, <2>4, <2>5, <2>6 DEF PublishInv, At, PublishedAsAccepted, Present
  <1>5. CASE Replace
    <2> DEFINE w == job.writing
    <2>1. /\ job'.pc = "publish" /\ job'.exports = job.exports /\ job'.todo = job.todo \ {w}
          /\ job'.writing = Absent /\ marker' = marker
      BY <1>1, <1>5, Zenon DEF Replace, Job
    <2>2. w \in Export /\ w \in job.todo /\ out' = [out EXCEPT ![w] = job.exports[w]]
      BY <1>2, <1>5 DEF Replace
    <2>3. job.exports[w] \notin {Absent, Foreign}
      BY <1>1, <1>2, <2>2, BuildAssumption DEF Present, Exports
    <2>4. out'[w] = job.exports[w] /\ \A f \in Export \ {w} : out'[f] = out[f]
      BY <2>2 DEF TypeOK
    <2>5. \A f \in Present(job.exports) \ (job.todo \ {w}) : out'[f] = job.exports[f]
      BY <1>2, <2>4 DEF Present
    <2>6. MarkerNamesOwnFiles'
      BY <1>2, <2>1, <2>3, <2>4 DEF MarkerNamesOwnFiles, Present
    <2> HIDE DEF w
    <2> QED BY <1>2, <2>1, <2>5, <2>6, BuildAssumption DEF PublishInv, At, PublishedAsAccepted, Present
  <1>6. CASE ReplaceMarker
    <2>1. /\ job'.pc = "compare" /\ job'.exports = job.exports /\ out' = out
          /\ marker' = job.exports /\ job.todo = {}
      BY <1>1, <1>2, <1>6, Zenon DEF ReplaceMarker, Job
    <2>2. \A f \in Present(job.exports) : out[f] = job.exports[f]
      BY <1>2, <2>1
    <2>3. \A f \in Present(job.exports) : job.exports[f] \notin {Absent, Foreign}
      BY <1>1, BuildAssumption DEF Present, Exports
    <2> QED BY <2>1, <2>2, <2>3 DEF PublishInv, At, PublishedAsAccepted, MarkerNamesOwnFiles, Present
  <1> QED BY <1>3, <1>4, <1>5, <1>6 DEF Publish

\* Outside of publishing, only what the directory and the marker hold matters.
LEMMA PublishInvSame ==
    ASSUME PublishInv, out' = out, marker' = marker, ~At("publish")',
           (At("compare") \/ At("sync"))' => /\ At("compare") \/ At("sync")
                                             /\ job'.exports = job.exports,
           At("sync")' => job'.sync, At("pass")' => job'.writing = Absent
    PROVE  PublishInv'
  BY DEF PublishInv, PublishedAsAccepted, MarkerNamesOwnFiles, At, Present

\* So does every step.
LEMMA PublishInvStep ==
    ASSUME TypeOK, PassInv, PublishInv, [Next]_vars
    PROVE  PublishInv'
  <1>1. job \in Job
    BY DEF TypeOK
  <1>2. ASSUME NEW overlay \in BOOLEAN, NEW sync \in BOOLEAN, NEW force \in BOOLEAN,
               Start(overlay, sync, force)
        PROVE  PublishInv'
    <2>1. job'.pc = "copy" /\ out' = out /\ marker' = marker
      BY <1>2, FreshStart DEF Start
    <2> QED BY <2>1, PublishInvSame DEF At
  <1>3. CASE RunStage \/ Retry
    <2>1. /\ job.pc = "pass" /\ job'.pc = "pass" /\ job'.writing = job.writing
          /\ out' = out /\ marker' = marker
      BY <1>1, <1>3, Zenon DEF RunStage, Retry, NextPass, PassIsOver, At, Job
    <2>2. job'.writing = Absent
      BY <2>1 DEF PublishInv, At
    <2> QED BY <2>1, <2>2, PublishInvSame DEF At
  <1>4. CASE CannotBegin \/ GiveUp \/ Finish \/ Interrupt
    <2>1. job'.pc = "idle" /\ out' = out /\ marker' = marker
      BY <1>4 DEF CannotBegin, GiveUp, Finish, Interrupt, Idle
    <2> QED BY <2>1, PublishInvSame DEF At
  <1>5. CASE Accept
    <2>1. /\ job.pc = "pass" /\ job'.pc = "publish" /\ job'.todo = Present(job.exports)
          /\ job'.exports = job.exports /\ job'.writing = job.writing
          /\ out' = out /\ marker' = marker
      BY <1>1, <1>5, Zenon DEF Accept, PassIsOver, At, Job
    <2>2. job.writing = Absent
      BY <2>1 DEF PublishInv, At
    <2> QED BY <2>1, <2>2, BuildAssumption
            DEF PublishInv, PublishedAsAccepted, MarkerNamesOwnFiles, At, Present
  <1>6. CASE Publish
    BY <1>6, PublishStep
  <1>7. CASE Compare
    <2>1. CASE job.sync
      <3>1. /\ job.pc = "compare" /\ job'.pc = "sync" /\ job'.sync /\ job'.exports = job.exports
            /\ out' = out /\ marker' = marker
        BY <1>1, <1>7, <2>1, Zenon DEF Compare, At, Job
      <3> QED BY <3>1, PublishInvSame DEF At
    <2>2. CASE ~job.sync
      <3>1. job'.pc = "idle" /\ out' = out /\ marker' = marker
        BY <1>7, <2>2 DEF Compare, Idle
      <3> QED BY <3>1, PublishInvSame DEF At
    <2> QED BY <2>1, <2>2
  <1>8. ASSUME NEW f \in IdFile, Sync(f) \/ WriteSyncTmp(f) PROVE PublishInv'
    <2>1. /\ job.pc = "sync" /\ job'.pc = "sync" /\ job'.sync = job.sync
          /\ job'.exports = job.exports /\ out' = out /\ marker' = marker
      <3>1. CASE Sync(f)
        BY <1>1, <3>1, Zenon DEF Sync, At, Job
      <3>2. CASE WriteSyncTmp(f)
        BY <1>1, <3>2, Zenon DEF WriteSyncTmp, At, Job
      <3> QED BY <1>8, <3>1, <3>2
    <2>2. job.sync
      BY <2>1 DEF PublishInv, At
    <2> QED BY <2>1, <2>2, PublishInvSame DEF At
  <1>9. ASSUME NEW e \in Edit, UserEdits(e) PROVE PublishInv'
    <2>1. /\ job'.pc = job.pc /\ job'.sync = job.sync /\ job'.exports = job.exports
          /\ job'.todo = job.todo /\ job'.writing = job.writing
          /\ out' = out /\ marker' = marker
      BY <1>1, <1>9, Zenon DEF UserEdits, Job
    <2> QED BY <2>1 DEF PublishInv, PublishedAsAccepted, MarkerNamesOwnFiles, At, Present
  <1>10. CASE UNCHANGED vars
    <2>1. job' = job /\ out' = out /\ marker' = marker
      BY <1>10 DEF vars
    <2> QED BY <2>1 DEF PublishInv, PublishedAsAccepted, MarkerNamesOwnFiles, At, Present
  <1>11. ASSUME NEW f \in File, CopyBase(f) \/ CopyOverlay(f) PROVE PublishInv'
    <2>1. job.pc = "copy" /\ out' = out /\ marker' = marker
      BY <1>11 DEF CopyBase, CopyOverlay, At
    <2>2. job'.pc = "copy"
      BY <1>11, <2>1, FreshCopy DEF PassInv, Passing, At
    <2> QED BY <2>1, <2>2, PublishInvSame DEF At
  <1>12. CASE Parse
    <2>1. /\ job.pc = "copy" /\ job'.pc = "pass" /\ job'.writing = job.writing
          /\ out' = out /\ marker' = marker
      BY <1>1, <1>12, Zenon DEF Parse, Copied, At, Job
    <2>2. job.writing = Absent
      BY <2>1 DEF PassInv, Passing, Fresh, At
    <2> QED BY <2>1, <2>2, PublishInvSame DEF At
  <1> QED BY <1>2, <1>3, <1>4, <1>5, <1>6, <1>7, <1>8, <1>9, <1>10, <1>11, <1>12
          DEF Next, Build, Copy, WriteBack

\* It holds before any build.
LEMMA PublishInvInit ==
    ASSUME Init
    PROVE  PublishInv
  <1>1. job.pc = "idle" /\ job.writing = Absent /\ marker = Absent
    BY DEF Init, Idle
  <1> QED BY <1>1 DEF PublishInv, PublishedAsAccepted, MarkerNamesOwnFiles, At

\* It holds always.
LEMMA PublishInvHolds == Spec => [](TypeOK /\ PassInv /\ PublishInv)
  <1>1. Init => PassInv
    BY DEF Init, PassInv, Passing, Idle, At
  <1>2. TypeOK /\ PassInv /\ PublishInv /\ [Next]_vars => PassInv' /\ PublishInv'
    BY PassInvStep, PublishInvStep
  <1> QED BY <1>1, <1>2, PublishInvInit, TypeCorrect, PTL DEF Spec

\* When the marker is there, the directory holds the exports of the accepted
\* pass, whatever earlier builds left in it (publish in build.py).
THEOREM PublishedWhatWasAccepted == Spec => []PublishedAsAccepted
  <1>1. PublishInv => PublishedAsAccepted
    BY DEF PublishInv
  <1> QED BY <1>1, PublishInvHolds, PTL

\* Through every interruption the marker lists files that this tool wrote.
THEOREM MarkerIsTrue == Spec => []MarkerNamesOwnFiles
  <1>1. PublishInv => MarkerNamesOwnFiles
    BY DEF PublishInv
  <1> QED BY <1>1, PublishInvHolds, PTL

-----------------------------------------------------------------------------
(* The action properties, from the invariants.                                *)

\* No step publishes a file of a pass that was not accepted, or half a file.
THEOREM OnlyAcceptedIsPublished == Spec => OutputIsWhole
  <1> DEFINE Whole == \A f \in Export : out'[f] # out[f] =>
                        ~job.failed /\ Ids(job.work) = job.before /\ out'[f] = job.exports[f]
  <1>1. ASSUME TypeOK, PassInv, [Next]_vars PROVE Whole
    <2> SUFFICES ASSUME NEW f \in Export, out'[f] # out[f]
                 PROVE  ~job.failed /\ Ids(job.work) = job.before /\ out'[f] = job.exports[f]
      OBVIOUS
    <2>1. Replace
      BY <1>1 DEF Next, Build, Start, Copy, CopyBase, CopyOverlay, Parse, CannotBegin, RunStage,
                  Accept, Retry, GiveUp, Publish, Skip, WriteTmp, ReplaceMarker, Compare,
                  WriteBack, WriteSyncTmp, Sync, Finish, Interrupt, UserEdits, vars
    <2>2. At("publish") /\ out' = [out EXCEPT ![job.writing] = job.exports[job.writing]]
      BY <2>1 DEF Replace
    <2>3. f = job.writing /\ out'[f] = job.exports[f]
      BY <1>1, <2>2 DEF TypeOK
    <2> QED BY <1>1, <2>2, <2>3 DEF PassInv, Passing, HasAccepted, At
  <1>2. TypeOK /\ PassInv /\ [Next]_vars => [Whole]_vars
    BY <1>1
  <1> QED BY <1>2, PublishInvHolds, PTL DEF Spec, OutputIsWhole

\* The driver writes the base tree only for --sync-ids, and there only its ID
\* files and their temporary files (_atomic_write in build.py).
THEOREM BaseIsTheUsers == Spec => BaseIsOnlySynced
  <1> DEFINE Synced == edits' = edits /\ <<src, TmpIn(FALSE)>>' # <<src, TmpIn(FALSE)>> =>
                         /\ At("sync") /\ job.sync /\ ~job.overlay
                         /\ \A f \in File \ IdFile : src'[f] = src[f]
  <1>1. ASSUME TypeOK, PublishInv, [Next]_vars PROVE Synced
    <2> SUFFICES ASSUME edits' = edits, src' # src \/ TmpIn(FALSE)' # TmpIn(FALSE)
                 PROVE  /\ At("sync") /\ job.sync /\ ~job.overlay
                        /\ \A f \in File \ IdFile : src'[f] = src[f]
      OBVIOUS
    <2>1. ASSUME NEW e \in Edit, UserEdits(e) PROVE FALSE
      BY <1>1, <2>1 DEF UserEdits, TypeOK
    <2>2. ASSUME NEW f, job.overlay,
                 \/ litter' = litter \cup {[overlay |-> job.overlay, file |-> f]}
                 \/ litter' = litter \ {[overlay |-> job.overlay, file |-> f]}
          PROVE  TmpIn(FALSE)' = TmpIn(FALSE)
      BY <1>1, <2>2 DEF TmpIn, TypeOK, Job
    <2>3. CASE Interrupt
      <3>1. src' = src /\ litter' # litter
        BY <2>3 DEF Interrupt, TmpIn
      <3>2. At("sync") /\ litter' = litter \ {[overlay |-> job.overlay, file |-> job.writing]}
        BY <2>3, <3>1 DEF Interrupt, CleanUp
      <3>3. ~job.overlay
        BY <2>2, <2>3, <3>1, <3>2
      <3> QED BY <1>1, <3>1, <3>2, <3>3 DEF PublishInv
    <2>4. ASSUME NEW f \in IdFile, WriteSyncTmp(f)
          PROVE  At("sync") /\ ~job.overlay /\ src' = src
      <3>1. /\ At("sync") /\ src' = src
            /\ litter' = litter \cup {[overlay |-> job.overlay, file |-> f]}
        BY <2>4 DEF WriteSyncTmp
      <3>2. ~job.overlay
        BY <2>2, <3>1
      <3> QED BY <3>1, <3>2
    <2>5. ASSUME NEW f \in IdFile, Sync(f)
          PROVE  At("sync") /\ ~job.overlay /\ \A g \in File \ IdFile : src'[g] = src[g]
      <3>1. /\ At("sync") /\ litter' = litter \ {[overlay |-> job.overlay, file |-> f]}
            /\ job.overlay => src' = src
            /\ ~job.overlay => src' = [src EXCEPT ![f] = job.work[f]]
        BY <2>5 DEF Sync
      <3>2. ~job.overlay
        BY <2>2, <3>1
      <3> QED BY <1>1, <3>1, <3>2 DEF TypeOK, Tree
    <2>6. Interrupt \/ \E f \in IdFile : WriteSyncTmp(f) \/ Sync(f)
      <3> SUFFICES ASSUME ~Interrupt, ~\E f \in IdFile : WriteSyncTmp(f) \/ Sync(f)
                   PROVE  src' = src /\ litter' = litter
        BY DEF TmpIn
      <3> QED BY <1>1, <2>1
              DEF Next, Build, Start, Copy, CopyBase, CopyOverlay, Parse, CannotBegin, RunStage,
                  Accept, Retry, GiveUp, Publish, Skip, WriteTmp, Replace, ReplaceMarker, Compare,
                  WriteBack, Finish, vars
    <2> QED BY <1>1, <2>3, <2>4, <2>5, <2>6 DEF PublishInv
  <1>2. TypeOK /\ PublishInv /\ [Next]_vars => [Synced]_vars
    BY <1>1
  <1> QED BY <1>2, PublishInvHolds, PTL DEF Spec, BaseIsOnlySynced

\* What is being written back is still to be written back.
LitterInv ==
  /\ LitterIsOfAKill
  /\ At("compare") => job.writing = Absent
  /\ At("sync") => job.writing = Absent \/ job.writing \in job.todo

\* A step that writes no temporary file into a tree keeps that.
LEMMA LitterSame ==
    ASSUME TypeOK, LitterInv, litter' = litter, interrupts' = interrupts,
           ~At("sync") \/ job.writing = Absent \/
             (job'.pc = job.pc /\ job'.writing = job.writing /\ job'.overlay = job.overlay)
    PROVE  LitterIsOfAKill'
  <1> SUFFICES ASSUME NEW t \in litter, interrupts = 0
               PROVE  At("sync")' /\ t = [overlay |-> job'.overlay, file |-> job'.writing]
    BY DEF LitterIsOfAKill, TypeOK
  <1>1. At("sync") /\ t = [overlay |-> job.overlay, file |-> job.writing] /\ t.file \in IdFile
    BY DEF LitterInv, LitterIsOfAKill, TypeOK
  <1>2. job.writing # Absent
    BY <1>1, BuildAssumption
  <1> QED BY <1>1, <1>2 DEF At

\* Every step keeps it.
LEMMA LitterInvStep ==
    ASSUME TypeOK, LitterInv, [Next]_vars
    PROVE  LitterInv'
  <1>1. job \in Job
    BY DEF TypeOK
  <1>2. CASE \/ \E overlay, sync, force \in BOOLEAN : Start(overlay, sync, force)
             \/ Copy \/ RunStage \/ Accept \/ Retry \/ GiveUp
             \/ \E f \in Export \cup {Marker} : Skip(f) \/ WriteTmp(f)
             \/ Replace
    <2>1. ~At("sync") /\ litter' = litter /\ interrupts' = interrupts
      BY <1>2 DEF Start, Copy, CopyBase, CopyOverlay, Parse, Copied, CannotBegin, RunStage, Accept,
                  Retry, GiveUp, PassIsOver, Skip, Publishing, WriteTmp, Replace, At
    <2>2. ~At("sync")' /\ ~At("compare")'
      <3>1. job' = Idle => ~At("sync")' /\ ~At("compare")'
        BY DEF Idle, At
      <3>2. CASE \E overlay, sync, force \in BOOLEAN : Start(overlay, sync, force)
        BY <3>2, FreshStart DEF At
      <3>3. CASE Copy
        BY <1>1, <3>1, <3>3, Zenon DEF Copy, CopyBase, CopyOverlay, Parse, CannotBegin, Job, At
      <3>4. CASE RunStage \/ Accept \/ Retry \/ GiveUp
        BY <1>1, <3>1, <3>4, Zenon DEF RunStage, Accept, Retry, PassIsOver, NextPass, GiveUp, Job, At
      <3>5. CASE Replace \/ \E f \in Export \cup {Marker} : Skip(f) \/ WriteTmp(f)
        BY <1>1, <3>5, Zenon DEF Replace, Skip, Publishing, WriteTmp, Job, At
      <3> QED BY <1>2, <3>2, <3>3, <3>4, <3>5
    <2> QED BY <2>1, <2>2, LitterSame DEF LitterInv
  <1>3. CASE ReplaceMarker
    <2>1. job.pc = "publish" /\ job'.pc = "compare" /\ job'.writing = Absent
      BY <1>1, <1>3, Zenon DEF ReplaceMarker, Job, At
    <2> QED BY <1>3, <2>1, LitterSame DEF ReplaceMarker, LitterInv, At
  <1>4. CASE Compare
    <2>1. job.pc = "compare" /\ (job' = Idle \/ (job'.pc = "sync" /\ job'.writing = job.writing))
      BY <1>1, <1>4, Zenon DEF Compare, Job, At
    <2>2. litter' = litter /\ interrupts' = interrupts /\ job.writing = Absent
      BY <1>4, <2>1 DEF Compare, LitterInv, At
    <2> QED BY <2>1, <2>2, LitterSame DEF LitterInv, Idle, At
  <1>5. ASSUME NEW f \in IdFile, WriteSyncTmp(f)
        PROVE  LitterInv'
    <2>1. /\ job.pc = "sync" /\ job'.pc = "sync" /\ job'.writing = f /\ job'.overlay = job.overlay
          /\ job'.todo = job.todo /\ f \in job.todo /\ job.writing = Absent
      BY <1>1, <1>5, Zenon DEF WriteSyncTmp, Job, At
    <2>2. ASSUME NEW t \in litter PROVE interrupts > 0
      <3>1. t.file \in IdFile
        BY DEF TypeOK
      <3> QED BY <2>1, <3>1, BuildAssumption DEF LitterInv, LitterIsOfAKill
    <2>3. LitterIsOfAKill'
      BY <1>5, <2>1, <2>2 DEF WriteSyncTmp, LitterIsOfAKill, At
    <2> QED BY <2>1, <2>3 DEF LitterInv, At
  <1>6. ASSUME NEW f \in IdFile, Sync(f)
        PROVE  LitterInv'
    <2>1. /\ job.pc = "sync" /\ job'.pc = "sync" /\ job'.writing = Absent /\ job.writing = f
          /\ litter' = litter \ {[overlay |-> job.overlay, file |-> f]} /\ interrupts' = interrupts
      BY <1>1, <1>6, Zenon DEF Sync, Job, At
    <2>2. LitterIsOfAKill'
      BY <2>1 DEF LitterInv, LitterIsOfAKill
    <2> QED BY <2>1, <2>2 DEF LitterInv, At
  <1>7. CASE Finish
    <2>1. At("sync") /\ job.todo = {} /\ litter' = litter /\ interrupts' = interrupts
      BY <1>7 DEF Finish
    <2>2. job.writing = Absent /\ job'.pc = "idle"
      BY <1>7, <2>1 DEF Finish, LitterInv, Idle
    <2> QED BY <2>1, <2>2, LitterSame DEF LitterInv, At
  <1>8. CASE Interrupt
    <2>1. interrupts' > 0 /\ job'.pc = "idle"
      BY <1>8 DEF Interrupt, Idle, TypeOK
    <2> QED BY <2>1 DEF LitterInv, LitterIsOfAKill, At
  <1>9. ASSUME NEW e \in Edit, UserEdits(e)
        PROVE  LitterInv'
    <2>1. /\ job'.pc = job.pc /\ job'.writing = job.writing /\ job'.overlay = job.overlay
          /\ job'.todo = job.todo /\ litter' = litter /\ interrupts' = interrupts
      BY <1>1, <1>9, Zenon DEF UserEdits, Job
    <2> QED BY <2>1, LitterSame DEF LitterInv, At
  <1>10. CASE UNCHANGED vars
    BY <1>10 DEF vars, LitterInv, LitterIsOfAKill, At
  <1> QED BY <1>2, <1>3, <1>4, <1>5, <1>6, <1>7, <1>8, <1>9, <1>10
          DEF Next, Build, Publish, WriteBack

\* A temporary file that no build is writing was left by a killed one.
THEOREM LitterIsAKills == Spec => []LitterIsOfAKill
  <1>1. Init => LitterInv
    BY DEF Init, LitterInv, LitterIsOfAKill, Idle, At
  <1>2. LitterInv => LitterIsOfAKill
    BY DEF LitterInv
  <1> QED BY <1>1, <1>2, LitterInvStep, TypeCorrect, PTL DEF Spec

-----------------------------------------------------------------------------
(* A pass as a trace: g[k] is what its first k stages have left of an empty   *)
(* export directory and a tree.                                               *)

Blank(tree) == [work |-> tree, exports |-> NoFiles, failed |-> FALSE]

After(s, p) == [work    |-> StageTree(s, p.work, p.exports),
                exports |-> StageExports(s, p.work, p.exports),
                failed  |-> p.failed \/ ~StageOk(s, p.work, p.exports)]

Trace(g, stages, n, tree) ==
    g = [k \in 0..n |-> IF k = 0 THEN Blank(tree) ELSE After(stages[k], g[k - 1])]

\* Of some of the numbers up to n, one is the least.
LEMMA LeastOf ==
    ASSUME NEW n \in Nat, NEW S \in SUBSET (0..n), S # {}
    PROVE  \E m \in S : \A k \in S : m <= k
  <1> DEFINE T    == 0..n
             P    == {0..k : k \in S}
  <1>1. IsFiniteSet(T)
    BY FS_Interval
  <1>2. P \subseteq FiniteSubsetsOf(T) /\ P # {}
    <2>1. \A k \in S : 0..k \in SUBSET T /\ IsFiniteSet(0..k)
      BY FS_Interval
    <2> QED BY <2>1 DEF FiniteSubsetsOf
  <1>3. PICK p \in P : \A q \in P : <<q, p>> \notin StrictSubsetOrdering(T)
    <2> HIDE DEF P
    <2> QED BY <1>1, <1>2, FS_StrictSubsetOrderingWellFounded, WFMin
  <1>4. PICK m \in S : p = 0..m
    OBVIOUS
  <1>5. ASSUME NEW k \in S, k < m PROVE FALSE
    <2>1. 0..k \subseteq 0..m /\ m \in 0..m /\ m \notin 0..k /\ 0..k \in SUBSET T /\ 0..m \in SUBSET T
      BY <1>5
    <2>2. <<0..k, p>> \in StrictSubsetOrdering(T)
      BY <1>4, <2>1 DEF StrictSubsetOrdering
    <2> QED BY <1>3, <2>2
  <1> QED BY <1>5

\* Stages are programs: from the same tree they leave the same.
LEMMA TraceUnique ==
    ASSUME NEW n \in Nat, NEW stages, NEW tree, NEW f, NEW g,
           Trace(f, stages, n, tree), Trace(g, stages, n, tree)
    PROVE  f[n] = g[n]
  <1> DEFINE S == {k \in 0..n : f[k] # g[k]}
  <1> SUFFICES ASSUME f[n] # g[n] PROVE FALSE
    OBVIOUS
  <1>1. S \in SUBSET (0..n) /\ S # {}
    OBVIOUS
  <1>2. PICK m \in S : \A k \in S : m <= k
    <2> HIDE DEF S
    <2> QED BY <1>1, LeastOf
  <1>3. m \in 0..n /\ f[m] # g[m]
    BY <1>2
  <1>4. CASE m = 0
    BY <1>3, <1>4 DEF Trace
  <1>5. CASE m # 0
    <2>1. m - 1 \in 0..n /\ m - 1 \notin S
      BY <1>2, <1>3, <1>5
    <2>2. f[m - 1] = g[m - 1]
      BY <2>1
    <2> QED BY <1>3, <1>5, <2>2 DEF Trace
  <1> QED BY <1>4, <1>5

\* What CleanPass computes is where a trace ends.
LEMMA CleanPassIsTrace ==
    ASSUME NEW stages, NEW n \in Nat, n = Len(stages), NEW tree, NEW g,
           Trace(g, stages, n, tree)
    PROVE  CleanPass(stages, tree) = g[n]
  <1> DEFINE run == CHOOSE f : Trace(f, stages, n, tree)
  <1>1. Trace(run, stages, n, tree)
    OBVIOUS
  <1>2. CleanPass(stages, tree) = run[n]
    BY DEF CleanPass, Trace, Blank, After
  <1> HIDE DEF run
  <1> QED BY <1>1, <1>2, TraceUnique

\* A trace goes on with the next stage.
LEMMA TraceGoesOn ==
    ASSUME NEW n \in Nat, NEW stages, NEW tree, NEW g, Trace(g, stages, n, tree)
    PROVE  \E h : /\ Trace(h, stages, n + 1, tree)
                  /\ \A i \in 0..n : h[i] = g[i]
                  /\ h[n + 1] = After(stages[n + 1], g[n])
  <1> DEFINE h == [k \in 0..(n + 1) |-> IF k = n + 1 THEN After(stages[k], g[k - 1]) ELSE g[k]]
  <1>1. \A i \in 0..n : h[i] = g[i]
    OBVIOUS
  <1>2. h[n + 1] = After(stages[n + 1], g[n])
    OBVIOUS
  <1>3. \A k \in 0..(n + 1) : h[k] = IF k = 0 THEN Blank(tree) ELSE After(stages[k], h[k - 1])
    <2> SUFFICES ASSUME NEW k \in 0..(n + 1)
                 PROVE  h[k] = IF k = 0 THEN Blank(tree) ELSE After(stages[k], h[k - 1])
      OBVIOUS
    <2>1. CASE k = n + 1
      <3>1. k # 0 /\ k - 1 = n /\ n \in 0..n
        BY <2>1
      <3> QED BY <1>1, <1>2, <2>1, <3>1
    <2>2. CASE k # n + 1
      <3>1. k \in 0..n /\ (k # 0 => k - 1 \in 0..n)
        BY <2>2
      <3>2. g[k] = IF k = 0 THEN Blank(tree) ELSE After(stages[k], g[k - 1])
        BY <3>1 DEF Trace
      <3> HIDE DEF h
      <3> QED BY <1>1, <3>1, <3>2
    <2> QED BY <2>1, <2>2
  <1>4. h = [k \in 0..(n + 1) |-> h[k]]
    OBVIOUS
  <1> HIDE DEF h
  <1>5. Trace(h, stages, n + 1, tree)
    BY <1>3, <1>4 DEF Trace
  <1> QED BY <1>1, <1>2, <1>5
\* Where a pass is.
Here == [work |-> job.work, exports |-> job.exports, failed |-> job.failed]

\* The tree that the pass began with.
From == [f \in File |-> IF f \in IdFile THEN job.before[f] ELSE job.work[f]]

\* The first n stages have led from a tree to p, and were given these trees.
Traced(tree, stages, n, trees, p) ==
    \E g : /\ Trace(g, stages, n, tree) /\ g[n] = p
           /\ \A i \in 0..(n - 1) : g[i].work \in trees

TraceInv ==
  Passing => /\ job.k <= Len(job.stages) + 1 /\ job.before = Ids(From)
                 /\ Traced(From, job.stages, job.k - 1, saw, Here)

\* A pass begins with a tree and an empty export directory.
LEMMA TraceBegins ==
    ASSUME NEW stages, NEW trees, NEW tree
    PROVE  Traced(tree, stages, 0, trees, Blank(tree))
  <1> DEFINE h == [k \in 0..0 |-> Blank(tree)]
  <1>1. Trace(h, stages, 0, tree)
    BY DEF Trace
  <1>2. h[0] = Blank(tree)
    OBVIOUS
  <1>3. \A i \in 0..(0 - 1) : h[i].work \in trees
    OBVIOUS
  <1> HIDE DEF h
  <1> QED BY <1>1, <1>2, <1>3 DEF Traced

\* What is traced stays so when a stage runs.
LEMMA TracedGoesOn ==
    ASSUME NEW n \in Nat, NEW tree, NEW stages, NEW trees, NEW p,
           Traced(tree, stages, n, trees, p)
    PROVE  Traced(tree, stages, n + 1, trees \cup {p.work}, After(stages[n + 1], p))
  <1> DEFINE end == After(stages[n + 1], p)
  <1>1. PICK g : /\ Trace(g, stages, n, tree) /\ g[n] = p
                 /\ \A i \in 0..(n - 1) : g[i].work \in trees
    BY DEF Traced
  <1>2. PICK h : /\ Trace(h, stages, n + 1, tree)
                 /\ \A i \in 0..n : h[i] = g[i]
                 /\ h[n + 1] = After(stages[n + 1], g[n])
    BY <1>1, TraceGoesOn
  <1>3. h[n + 1] = end
    BY <1>1, <1>2
  <1>4. ASSUME NEW i \in 0..((n + 1) - 1) PROVE h[i].work \in trees \cup {p.work}
    <2>1. i \in 0..n /\ h[i] = g[i]
      BY <1>2
    <2>2. i = n \/ i \in 0..(n - 1)
      BY <2>1
    <2> QED BY <1>1, <2>1, <2>2
  <1> HIDE DEF end
  <1>5. Traced(tree, stages, n + 1, trees \cup {p.work}, end)
    BY <1>2, <1>3, <1>4 DEF Traced
  <1> QED BY <1>5 DEF end

\* A step that leaves the pass alone keeps the invariant.
LEMMA TraceInvSame ==
    ASSUME TraceInv, SamePass, job'.exports = job.exports, Passing
    PROVE  TraceInv'
  BY DEF TraceInv, SamePass, Here, From, Ids

\* So does a step after which a pass has only begun.
LEMMA TraceInvBegins ==
    ASSUME job' \in Job, job'.k = 1, job'.exports = NoFiles, job'.failed = FALSE,
           job'.before = Ids(job'.work)
    PROVE  TraceInv' /\ From' = job'.work
  <1>1. Here' = Blank(job'.work)
    BY DEF Here, Blank
  <1>2. Traced(job'.work, job'.stages, 0, saw', Blank(job'.work))
    BY TraceBegins
  <1>3. job'.k <= Len(job'.stages) + 1 /\ job'.k - 1 = 0
    BY DEF Job
  <1>4. From' = job'.work
    <2>1. job'.work \in Tree
      BY DEF Job
    <2>2. \A f \in File : f \in IdFile => job'.before[f] = job'.work[f]
      BY DEF Ids
    <2> QED BY <2>1, <2>2 DEF From, Tree
  <1>5. Traced(From', job'.stages, job'.k - 1, saw', Here')
    BY <1>1, <1>2, <1>3, <1>4
  <1>6. job'.before = Ids(From)'
    BY <1>4 DEF Ids
  <1> QED BY <1>3, <1>4, <1>5, <1>6 DEF TraceInv, Here, From, Ids

\* A stage leaves alone what a pass began with.
LEMMA FromRunStage ==
    ASSUME TypeOK, RunStage
    PROVE  From' = From /\ job'.before = job.before
  <1> DEFINE s == job.stages[job.k]
  <1>1. job \in Job /\ job.work \in Tree /\ job.exports \in Exports
    BY DEF TypeOK, Job
  <1>2. s \in Scripts
    BY StageIsScript
  <1>3. job'.work = StageTree(s, job.work, job.exports) /\ job'.before = job.before
    BY <1>1, Zenon DEF RunStage, Job
  <1> HIDE DEF s
  <1>4. ASSUME NEW f \in File \ IdFile PROVE job'.work[f] = job.work[f]
    <2>1. ~Writes(s, f)
      BY <1>2, WriterAssumption
    <2> QED BY <1>1, <1>3, <2>1 DEF Writes
  <1> QED BY <1>3, <1>4 DEF From

\* So does a stage.
LEMMA TraceInvRunStage ==
    ASSUME TypeOK, TraceInv, RunStage
    PROVE  TraceInv'
  <1> DEFINE s == job.stages[job.k]
             n == job.k - 1
  <1>1. job \in Job
    BY DEF TypeOK
  <1>2. n \in Nat /\ n + 1 = job.k /\ job.k \in 1..Len(job.stages) /\ Len(job.stages) \in Nat
    BY <1>1, StageIsScript DEF Job
  <1>3. /\ job'.stages = job.stages /\ job'.k = job.k + 1
        /\ job'.work = StageTree(s, job.work, job.exports)
        /\ job'.exports = StageExports(s, job.work, job.exports)
        /\ job'.failed = (job.failed \/ ~StageOk(s, job.work, job.exports))
    BY <1>1, Zenon DEF RunStage, Job
  <1>4. saw' = saw \cup {Here.work}
    BY DEF RunStage, Here
  <1>5. Here' = After(s, Here)
    BY <1>3 DEF Here, After
  <1>6. Traced(From, job.stages, n, saw, Here) /\ job.before = Ids(From)
    BY DEF TraceInv, RunStage, Passing, At
  <1> HIDE DEF n
  <1>7. Traced(From, job.stages, n + 1, saw \cup {Here.work}, After(job.stages[n + 1], Here))
    BY <1>2, <1>6, TracedGoesOn
  <1>8. From' = From
    BY FromRunStage
  <1>9. job'.before = Ids(From)'
    BY <1>6, <1>8, FromRunStage DEF Ids
  <1>10. Traced(From', job'.stages, job'.k - 1, saw', Here')
    <2>1. job'.k - 1 = n + 1 /\ s = job.stages[n + 1]
      BY <1>2, <1>3
    <2> HIDE DEF s
    <2> QED BY <1>3, <1>4, <1>5, <1>7, <1>8, <2>1
  <1>11. job'.k <= Len(job'.stages) + 1
    BY <1>2, <1>3
  <1> QED BY <1>9, <1>10, <1>11 DEF TraceInv, Here, From, Ids

\* Every step keeps the invariant.
LEMMA TraceInvStep ==
    ASSUME TypeOK, TypeOK', PassInv, TraceInv, [Next]_vars
    PROVE  TraceInv'
  <1>1. job \in Job /\ job' \in Job
    BY DEF TypeOK
  <1>2. ASSUME NEW overlay \in BOOLEAN, NEW sync \in BOOLEAN, NEW force \in BOOLEAN,
               Start(overlay, sync, force)
        PROVE  TraceInv'
    <2>1. job'.pc = "copy"
      BY <1>2, FreshStart
    <2> QED BY <2>1 DEF TraceInv, Passing, At
  <1>3. CASE RunStage
    BY <1>3, TraceInvRunStage
  <1>4. CASE Retry
    <2>1. /\ job'.k = 1 /\ job'.exports = NoFiles /\ job'.failed = FALSE
          /\ job'.before = Ids(job'.work)
      BY <1>1, <1>4, Zenon DEF Retry, NextPass, Job
    <2> QED BY <1>1, <2>1, TraceInvBegins
  <1>5. CASE CannotBegin \/ GiveUp \/ Finish \/ Interrupt \/ (Compare /\ ~job.sync)
    BY <1>5 DEF CannotBegin, GiveUp, Finish, Interrupt, Compare, TraceInv, Passing, Idle, At
  <1>6. CASE Accept \/ Publish
    <2>1. SamePass /\ job'.exports = job.exports /\ Passing
      BY <1>1, <1>6, ZenonT(40)
         DEF Accept, PassIsOver, Publish, Skip, Publishing, WriteTmp, Replace, ReplaceMarker,
             SamePass, Passing, Job, At
    <2> QED BY <2>1, TraceInvSame
  <1>7. CASE Compare /\ job.sync
    <2>1. SamePass /\ job'.exports = job.exports /\ Passing
      BY <1>1, <1>7, Zenon DEF Compare, SamePass, Passing, Job, At
    <2> QED BY <2>1, TraceInvSame
  <1>8. ASSUME NEW f \in IdFile, Sync(f) \/ WriteSyncTmp(f) PROVE TraceInv'
    <2>1. SamePass /\ job'.exports = job.exports /\ Passing
      <3>1. CASE Sync(f)
        BY <1>1, <3>1, Zenon DEF Sync, SamePass, Passing, Job, At
      <3>2. CASE WriteSyncTmp(f)
        BY <1>1, <3>2, Zenon DEF WriteSyncTmp, SamePass, Passing, Job, At
      <3> QED BY <1>8, <3>1, <3>2
    <2> QED BY <2>1, TraceInvSame
  <1>9. ASSUME NEW e \in Edit, UserEdits(e) PROVE TraceInv'
    <2>1. job'.pc = job.pc
      BY <1>1, <1>9, Zenon DEF UserEdits, Job, At
    <2>2. CASE ~Passing
      BY <2>1, <2>2 DEF TraceInv, Passing, At
    <2>3. CASE Passing
      <3>1. SamePass /\ job'.exports = job.exports
        BY <1>1, <1>9, <2>3, Zenon DEF UserEdits, Passing, SamePass, Job
      <3> QED BY <2>3, <3>1, TraceInvSame
    <2> QED BY <2>2, <2>3
  <1>10. CASE UNCHANGED vars
    <2>1. saw' = saw /\ job' = job
      BY <1>10 DEF vars
    <2> QED BY <2>1 DEF TraceInv, Here, From, Ids, Passing, At
  <1>11. ASSUME NEW f \in File, CopyBase(f) \/ CopyOverlay(f) PROVE TraceInv'
    <2>1. job'.pc = "copy"
      BY <1>1, <1>11, Zenon DEF CopyBase, CopyOverlay, Job, At
    <2> QED BY <2>1 DEF TraceInv, Passing, At
  <1>12. CASE Parse
    <2>1. /\ job.pc = "copy" /\ job'.k = job.k /\ job'.exports = job.exports
          /\ job'.failed = job.failed /\ job'.before = Ids(job'.work)
      BY <1>1, <1>12, Zenon DEF Parse, Copied, Job, At
    <2>2. Fresh
      BY <2>1 DEF PassInv, Passing, At
    <2>3. job'.k = 1 /\ job'.exports = NoFiles /\ job'.failed = FALSE
      BY <1>1, <2>1, <2>2 DEF Fresh, Job
    <2> QED BY <1>1, <2>1, <2>3, TraceInvBegins
  <1> QED BY <1>2, <1>3, <1>4, <1>5, <1>6, <1>7, <1>8, <1>9, <1>10, <1>11, <1>12
          DEF Next, Build, Copy, WriteBack

\* When a pass is accepted, the tree it began with is the one it ended with.
LEMMA TraceInvFixpoint ==
    ASSUME TypeOK, PassInv, TraceInv
    PROVE  AcceptedIsAFixpoint
  <1> SUFFICES ASSUME HasAccepted
               PROVE  CleanPass(job.stages, job.work) =
                        [work |-> job.work, exports |-> job.exports, failed |-> FALSE]
    BY DEF AcceptedIsAFixpoint
  <1> DEFINE n == Len(job.stages)
  <1>1. job \in Job /\ Passing
    BY DEF TypeOK, HasAccepted, Passing, At
  <1>2. job.stages \in Seq(Scripts) /\ job.k \in Nat /\ job.stages # <<>>
    BY <1>1 DEF Job, PassInv
  <1>3. n \in Nat /\ n > 0 /\ job.k - 1 = n
    BY <1>1, <1>2 DEF PassInv, TraceInv
  <1>4. ~job.failed
    BY <1>1 DEF PassInv
  <1>5. saw = {job.work}
    BY PassInvSaw DEF EveryStageSawTheFinalTree
  <1> HIDE DEF n
  <1> DEFINE tree == From
  <1>6. Traced(tree, job.stages, n, saw, Here)
    BY <1>1, <1>3 DEF TraceInv
  <1> HIDE DEF tree
  <1>7. PICK g : /\ Trace(g, job.stages, n, tree) /\ g[n] = Here
                 /\ \A i \in 0..(n - 1) : g[i].work \in saw
    BY <1>6 DEF Traced
  <1>8. g[0] = Blank(tree)
    BY <1>3, <1>7 DEF Trace
  <1>9. tree = job.work
    <2>1. g[0].work \in saw
      BY <1>3, <1>7
    <2> QED BY <1>5, <1>8, <2>1 DEF Blank
  <1>10. CleanPass(job.stages, tree) = g[n]
    BY <1>3, <1>7, CleanPassIsTrace DEF n
  <1>11. job.failed = FALSE
    BY <1>1, <1>4 DEF Job
  <1> QED BY <1>7, <1>9, <1>10, <1>11 DEF Here

\* Only a fixpoint is published: another whole pass over the accepted tree
\* would fail nowhere, change no file of it and export the same (build.py runs
\* passes until the ID files stop changing, and publishes the last).
THEOREM OnlyAFixpointIsPublished == Spec => []AcceptedIsAFixpoint
  <1>1. Init => PassInv /\ TraceInv
    BY DEF Init, PassInv, TraceInv, Passing, Idle, At
  <1>2. TypeOK /\ PassInv /\ [Next]_vars => PassInv'
    BY PassInvStep
  <1>3. TypeOK /\ TypeOK' /\ PassInv /\ TraceInv /\ [Next]_vars => TraceInv'
    BY TraceInvStep
  <1>4. TypeOK /\ PassInv /\ TraceInv => AcceptedIsAFixpoint
    BY TraceInvFixpoint
  <1> QED BY <1>1, <1>2, <1>3, <1>4, TypeCorrect, PTL DEF Spec
-----------------------------------------------------------------------------
(* A build after a completed --sync-ids.                                      *)

\* A whole pass over the tree would leave it as it is.
Stable(tree) ==
    LET end == CleanPass(Stages(tree[Bat]), tree) IN end.work = tree /\ end.failed = FALSE

\* What a build that no edit has disturbed shares with its input: at first the
\* files that are copied; then all but the ID files, no ID file that is only
\* there, and once it has written them back, everything.
CopyInv ==
  At("copy") =>
    /\ job.over # {} => job.overlay
    /\ ~job.edited =>
         /\ \A f \in File \ (job.todo \cup job.over) : Input(job.overlay)[f] = job.work[f]
         /\ job.todo # {} /\ job.overlay => job.over = Listed(ovl)

InputInv ==
  /\ CopyInv
  /\ Passing =>
    /\ job.stages = Stages(job.work[Bat])
    /\ At("sync") => job.todo \subseteq {f \in IdFile : job.work[f] # Absent}
    /\ ~job.edited =>
         /\ \A f \in File \ IdFile : Input(job.overlay)[f] = job.work[f]
         /\ \A f \in IdFile : job.work[f] = Absent => Input(job.overlay)[f] = Absent
         /\ At("sync") => \A f \in IdFile \ job.todo : Input(job.overlay)[f] = job.work[f]

\* Where a --sync-ids has completed, a pass over the input is stable ...
InputsAreStable == \A overlay \in BOOLEAN : Kind(overlay) \in synced => Stable(Input(overlay))

\* ... so that a build of it needs one pass and has nothing to write back.
SettledPass ==
  job.settled => /\ ~At("idle") /\ job.pass = 1 /\ Stable(From)
                 /\ ~job.edited => Input(job.overlay) = From
                 /\ At("sync") /\ ~job.edited => job.todo = {}

\* A step that leaves the pass, its input and what is known of it alone.
SameBuild == /\ SamePass /\ job'.overlay = job.overlay /\ job'.edited = job.edited
             /\ job'.settled = job.settled /\ job'.pass = job.pass
             /\ src' = src /\ ovl' = ovl

\* Accepting and publishing are such steps.
LEMMA PublishIsSame ==
    ASSUME TypeOK, Accept \/ Publish
    PROVE  SameBuild /\ Passing /\ Passing' /\ ~At("sync") /\ ~At("sync")'
  <1>1. job \in Job
    BY DEF TypeOK
  <1>2. CASE Accept
    BY <1>1, <1>2, Zenon DEF Accept, PassIsOver, SameBuild, SamePass, Passing, Job, At
  <1>3. CASE Replace \/ ReplaceMarker
    <2>1. job.pc = "publish" /\ job'.pc \in {"publish", "compare"}
      BY <1>1, <1>3, Zenon DEF Replace, ReplaceMarker, Job, At
    <2>2. SameBuild
      <3>1. CASE Replace
        BY <1>1, <3>1, Zenon DEF Replace, SameBuild, SamePass, Job
      <3>2. CASE ReplaceMarker
        BY <1>1, <3>2, Zenon DEF ReplaceMarker, SameBuild, SamePass, Job
      <3> QED BY <1>3, <3>1, <3>2
    <2> QED BY <2>1, <2>2 DEF Passing, At
  <1>4. ASSUME NEW f \in Export \cup {Marker}, Skip(f) \/ WriteTmp(f)
        PROVE  SameBuild /\ job.pc = "publish" /\ job'.pc = "publish"
    <2>1. job.pc = "publish"
      BY <1>4 DEF Skip, Publishing, WriteTmp, At
    <2>2. CASE Skip(f)
      BY <1>1, <2>1, <2>2, Zenon DEF Skip, SameBuild, SamePass, Job
    <2>3. CASE WriteTmp(f)
      BY <1>1, <2>1, <2>3, Zenon DEF WriteTmp, SameBuild, SamePass, Job
    <2> QED BY <1>4, <2>2, <2>3
  <1>5. (\E f \in Export \cup {Marker} : Skip(f) \/ WriteTmp(f))
          => SameBuild /\ Passing /\ Passing' /\ ~At("sync") /\ ~At("sync")'
    BY <1>4 DEF Passing, At
  <1> QED BY <1>2, <1>3, <1>5 DEF Publish

\* Such a step keeps what a build shares with its input.
LEMMA InputInvSame ==
    ASSUME InputInv, SameBuild, Passing, Passing', ~At("sync")'
    PROVE  InputInv'
  BY DEF InputInv, CopyInv, Passing, SameBuild, SamePass, Input, Overlaid, At

\* A build lists its input ...
LEMMA InputInvStart ==
    ASSUME TypeOK, NEW overlay \in BOOLEAN, NEW sync \in BOOLEAN,
           NEW force \in BOOLEAN, Start(overlay, sync, force)
    PROVE  InputInv'
  <1>1. /\ job'.pc = "copy" /\ job'.overlay = overlay /\ job'.todo = Listed(src)
        /\ job'.over = (IF overlay THEN Listed(ovl) ELSE {}) /\ job'.work = NoTree
        /\ src' = src /\ ovl' = ovl
    BY IdleType, Zenon DEF Start, Idle
  <1>2. ASSUME NEW f \in File \ (job'.todo \cup job'.over)
        PROVE  Input(job.overlay)'[f] = job'.work[f]
    BY <1>1, <1>2 DEF Input, Overlaid, Listed, NoTree
  <1> QED BY <1>1, <1>2 DEF InputInv, CopyInv, Passing, Listed, At

\* ... and copies it.
LEMMA InputInvCopy ==
    ASSUME TypeOK, InputInv, NEW f \in File, CopyBase(f) \/ CopyOverlay(f)
    PROVE  InputInv'
  <1>1. job \in Job /\ job.work \in [File -> Bytes \cup {Absent}]
    BY DEF TypeOK, Job, Tree
  <1>2. src' = src /\ ovl' = ovl /\ job.pc = "copy"
    BY DEF CopyBase, CopyOverlay, At
  <1>3. CopyInv
    BY DEF InputInv
  <1>4. CASE CopyBase(f)
    <2>1. /\ job'.pc = job.pc /\ job'.overlay = job.overlay /\ job'.edited = job.edited
          /\ job'.over = job.over /\ job'.todo = job.todo \ {f}
          /\ job'.work = [job.work EXCEPT ![f] = src[f]]
      BY <1>1, <1>4, Zenon DEF CopyBase, Job
    <2>2. f \in job.todo
      BY <1>4 DEF CopyBase
    <2>3. ASSUME ~job.edited, NEW g \in File \ (job'.todo \cup job'.over)
          PROVE  Input(job.overlay)'[g] = job'.work[g]
      <3>1. CASE g = f
        <4>1. job.overlay => ovl[f] = Absent
          BY <1>2, <1>3, <2>1, <2>2, <2>3, <3>1 DEF CopyInv, Listed, At
        <4> QED BY <1>1, <1>2, <2>1, <3>1, <4>1 DEF Input, Overlaid
      <3>2. CASE g # f
        <4>1. Input(job.overlay)[g] = job.work[g]
          BY <1>2, <1>3, <2>1, <2>3, <3>2 DEF CopyInv, At
        <4> QED BY <1>1, <1>2, <2>1, <3>2, <4>1 DEF Input, Overlaid
      <3> QED BY <3>1, <3>2
    <2>4. job'.over # {} => job'.overlay
      BY <1>2, <1>3, <2>1 DEF CopyInv, At
    <2>5. ~job.edited /\ job'.todo # {} /\ job.overlay => job'.over = Listed(ovl)'
      BY <1>2, <1>3, <2>1, <2>2 DEF CopyInv, Listed, At
    <2> QED BY <1>2, <2>1, <2>3, <2>4, <2>5 DEF InputInv, CopyInv, Passing, At
  <1>5. CASE CopyOverlay(f)
    <2>1. /\ job'.pc = job.pc /\ job'.overlay = job.overlay /\ job'.edited = job.edited
          /\ job'.over = job.over \ {f} /\ job'.todo = job.todo
          /\ job'.work = [job.work EXCEPT ![f] = ovl[f]]
      BY <1>1, <1>5, Zenon DEF CopyOverlay, Job
    <2>2. f \in job.over /\ job.todo = {} /\ ovl[f] # Absent /\ job.overlay
      BY <1>2, <1>3, <1>5 DEF CopyOverlay, CopyInv, At
    <2>3. ASSUME ~job.edited, NEW g \in File \ (job'.todo \cup job'.over)
          PROVE  Input(job.overlay)'[g] = job'.work[g]
      <3>1. CASE g = f
        BY <1>1, <1>2, <2>1, <2>2, <3>1 DEF Input, Overlaid
      <3>2. CASE g # f
        <4>1. Input(job.overlay)[g] = job.work[g]
          BY <1>2, <1>3, <2>1, <2>3, <3>2 DEF CopyInv, At
        <4> QED BY <1>1, <1>2, <2>1, <3>2, <4>1 DEF Input, Overlaid
      <3> QED BY <3>1, <3>2
    <2> QED BY <1>2, <2>1, <2>2, <2>3 DEF InputInv, CopyInv, Passing, At
  <1> QED BY <1>4, <1>5

\* What no edit has disturbed while it was copied is the input.
LEMMA CopiedIsInput ==
    ASSUME TypeOK, InputInv, Copied, ~job.edited
    PROVE  Input(job.overlay) = job.work
  <1>1. job \in Job /\ Input(job.overlay) \in Tree /\ job.work \in Tree
    BY InputType DEF TypeOK, Job
  <1>2. \A f \in File : Input(job.overlay)[f] = job.work[f]
    BY DEF InputInv, CopyInv, Copied
  <1> QED BY <1>1, <1>2 DEF Tree

\* A pass begins with what has been copied.
LEMMA InputInvParse ==
    ASSUME TypeOK, InputInv, Parse
    PROVE  InputInv'
  <1>1. job \in Job
    BY DEF TypeOK
  <1>2. /\ job'.pc = "pass" /\ job'.stages = Stages(job.work[Bat]) /\ job'.work = job.work
        /\ job'.overlay = job.overlay /\ job'.edited = job.edited
        /\ src' = src /\ ovl' = ovl
    BY <1>1, Zenon DEF Parse, Job
  <1>3. ~job.edited => Input(job.overlay) = job.work
    BY CopiedIsInput DEF Parse
  <1>4. Input(job.overlay)' = Input(job.overlay)
    BY <1>2 DEF Input, Overlaid
  <1>5. ~job'.edited => Input(job.overlay)' = job'.work
    BY <1>2, <1>3, <1>4
  <1>6. IdFile \subseteq File
    BY BuildAssumption
  <1> QED BY <1>2, <1>5, <1>6 DEF InputInv, CopyInv, Passing, At

\* A stage writes only ID files and removes none.
LEMMA InputInvRunStage ==
    ASSUME TypeOK, InputInv, RunStage
    PROVE  InputInv'
  <1> DEFINE s == job.stages[job.k]
  <1>1. job \in Job /\ job.work \in Tree /\ job.exports \in Exports
    BY DEF TypeOK, Job
  <1>2. s \in Scripts
    BY StageIsScript
  <1>3. /\ job'.pc = "pass" /\ job.pc = "pass"
        /\ job'.stages = job.stages /\ job'.work = StageTree(s, job.work, job.exports)
        /\ job'.overlay = job.overlay /\ job'.edited = job.edited
    BY <1>1, Zenon DEF RunStage, Job, At
  <1>4. src' = src /\ ovl' = ovl
    BY DEF RunStage
  <1> HIDE DEF s
  <1>5. ASSUME NEW f \in File \ IdFile PROVE job'.work[f] = job.work[f]
    <2>1. ~Writes(s, f)
      BY <1>2, WriterAssumption
    <2> QED BY <1>1, <1>3, <2>1 DEF Writes
  <1>6. ASSUME NEW f \in IdFile, job'.work[f] = Absent PROVE job.work[f] = Absent
    <2>1. f \in File
      BY BuildAssumption
    <2> QED BY <1>1, <1>2, <1>3, <1>6, <2>1, RemoveAssumption
  <1>7. job'.work[Bat] = job.work[Bat]
    BY <1>5, BuildAssumption
  <1>8. job.stages = Stages(job.work[Bat])
    BY <1>3 DEF InputInv, Passing, At
  <1> QED BY <1>3, <1>4, <1>5, <1>6, <1>7, <1>8 DEF InputInv, CopyInv, Passing, At, Input, Overlaid

\* What differs from the input is what --sync-ids has to write.
LEMMA InputInvCompare ==
    ASSUME TypeOK, InputInv, Compare, job.sync
    PROVE  InputInv'
  <1>1. /\ SameBuild /\ job.pc = "compare" /\ job'.pc = "sync"
        /\ job'.todo = {f \in Differ : job.work[f] # Absent}
    <2>1. job \in Job
      BY DEF TypeOK
    <2>2. job' = [job EXCEPT !.pc = "sync", !.todo = {f \in Differ : job.work[f] # Absent}]
      BY Zenon DEF Compare
    <2>3. job.pc = "compare" /\ saw' = saw /\ src' = src /\ ovl' = ovl
      BY DEF Compare, At
    <2> QED BY <2>1, <2>2, <2>3, Zenon DEF SameBuild, SamePass, Job
  <1>2. job'.todo \subseteq {f \in IdFile : job'.work[f] # Absent}
    BY <1>1 DEF Differ, SameBuild, SamePass
  <1>3. ASSUME ~job.edited, NEW f \in IdFile \ job'.todo
        PROVE  Input(job.overlay)[f] = job.work[f]
    <2>1. job.work[f] = Absent => Input(job.overlay)[f] = Absent
      BY <1>1, <1>3 DEF InputInv, Passing, At
    <2> QED BY <1>1, <1>3, <2>1 DEF Differ
  <1>4. Input(job.overlay)' = Input(job.overlay)
    BY <1>1 DEF SameBuild, Input, Overlaid
  <1> QED BY <1>1, <1>2, <1>3, <1>4
          DEF InputInv, CopyInv, Passing, At, SameBuild, SamePass, Input, Overlaid

\* Where a file has been written back, input and work tree agree.
LEMMA InputAfterSync ==
    ASSUME TypeOK, NEW f \in IdFile, Sync(f), job.work[f] # Absent
    PROVE  /\ Input(job.overlay)'[f] = job.work[f]
           /\ \A g \in File \ {f} : Input(job.overlay)'[g] = Input(job.overlay)[g]
  <1>1. f \in File /\ src \in [File -> Bytes \cup {Absent}] /\ ovl \in [File -> Bytes \cup {Absent}]
    BY BuildAssumption DEF TypeOK, Tree
  <1>2. job'.overlay = job.overlay
    BY Zenon DEF Sync, TypeOK, Job
  <1>3. CASE job.overlay
    <2>1. src' = src /\ ovl' = [ovl EXCEPT ![f] = job.work[f]]
      BY <1>3 DEF Sync
    <2> QED BY <1>1, <1>2, <1>3, <2>1 DEF Input, Overlaid
  <1>4. CASE ~job.overlay
    <2>1. src' = [src EXCEPT ![f] = job.work[f]]
      BY <1>4 DEF Sync
    <2> QED BY <1>1, <1>2, <1>4, <2>1 DEF Input
  <1> QED BY <1>3, <1>4

\* Writing one back keeps the invariant.
LEMMA InputInvSync ==
    ASSUME TypeOK, InputInv, NEW f \in IdFile, Sync(f)
    PROVE  InputInv'
  <1>1. job \in Job
    BY DEF TypeOK
  <1>2. /\ SamePass /\ job.pc = "sync" /\ job'.pc = "sync" /\ job'.overlay = job.overlay
        /\ job'.edited = job.edited /\ job'.todo = job.todo \ {f} /\ f \in job.todo
    BY <1>1, Zenon DEF Sync, SamePass, Job, At
  <1>3. /\ job.stages = Stages(job.work[Bat])
        /\ job.todo \subseteq {g \in IdFile : job.work[g] # Absent}
    BY <1>2 DEF InputInv, CopyInv, Passing, At
  <1>4. /\ Input(job.overlay)'[f] = job.work[f] /\ job.work[f] # Absent
        /\ \A g \in File \ {f} : Input(job.overlay)'[g] = Input(job.overlay)[g]
    BY <1>2, <1>3, InputAfterSync
  <1>5. IdFile \subseteq File
    BY BuildAssumption
  <1>6. ASSUME ~job.edited
        PROVE  /\ \A g \in File \ IdFile : Input(job.overlay)'[g] = job.work[g]
               /\ \A g \in IdFile : job.work[g] = Absent => Input(job.overlay)'[g] = Absent
               /\ \A g \in IdFile \ job'.todo : Input(job.overlay)'[g] = job.work[g]
    <2>1. /\ \A g \in File \ IdFile : Input(job.overlay)[g] = job.work[g]
          /\ \A g \in IdFile : job.work[g] = Absent => Input(job.overlay)[g] = Absent
          /\ \A g \in IdFile \ job.todo : Input(job.overlay)[g] = job.work[g]
      BY <1>2, <1>6 DEF InputInv, CopyInv, Passing, At
    <2> QED BY <1>2, <1>4, <1>5, <2>1
  <1> QED BY <1>2, <1>3, <1>6 DEF InputInv, CopyInv, Passing, At, SamePass

\* Every step keeps the invariant.
LEMMA InputInvStep ==
    ASSUME TypeOK, InputInv, [Next]_vars
    PROVE  InputInv'
  <1>1. job \in Job
    BY DEF TypeOK
  <1>2. ASSUME NEW overlay \in BOOLEAN, NEW sync \in BOOLEAN, NEW force \in BOOLEAN,
               Start(overlay, sync, force)
        PROVE  InputInv'
    BY <1>2, InputInvStart
  <1>3. CASE RunStage \/ (Compare /\ job.sync)
    BY <1>3, InputInvRunStage, InputInvCompare
  <1>4. CASE CannotBegin \/ GiveUp \/ Finish \/ Interrupt \/ (Compare /\ ~job.sync)
    BY <1>4 DEF CannotBegin, GiveUp, Finish, Interrupt, Compare, InputInv, CopyInv, Passing, Idle, At
  <1>5. CASE Accept \/ Publish
    BY <1>5, PublishIsSame, InputInvSame
  <1>6. CASE Retry
    <2>1. /\ job.pc = "pass" /\ job'.pc = "pass" /\ job'.stages = job.stages
          /\ job'.work = job.work /\ job'.overlay = job.overlay /\ job'.edited = job.edited
          /\ src' = src /\ ovl' = ovl
      BY <1>1, <1>6, Zenon DEF Retry, PassIsOver, NextPass, Job, At
    <2> QED BY <2>1 DEF InputInv, CopyInv, Passing, Input, Overlaid, At
  <1>7. ASSUME NEW f \in IdFile, Sync(f) \/ WriteSyncTmp(f) PROVE InputInv'
    <2>1. CASE Sync(f)
      BY <2>1, InputInvSync
    <2>2. CASE WriteSyncTmp(f)
      <3>1. /\ SameBuild /\ job.pc = "sync" /\ job'.pc = "sync" /\ job'.todo = job.todo
        BY <1>1, <2>2, Zenon DEF WriteSyncTmp, SameBuild, SamePass, Job, At
      <3> QED BY <3>1 DEF InputInv, CopyInv, Passing, SameBuild, SamePass, Input, Overlaid, At
    <2> QED BY <1>7, <2>1, <2>2
  <1>8. ASSUME NEW e \in Edit, UserEdits(e) PROVE InputInv'
    <2>1. CASE At("idle")
      BY <1>8, <2>1 DEF UserEdits, InputInv, CopyInv, Passing, At
    <2>2. CASE ~At("idle")
      <3>1. /\ job'.pc = job.pc /\ job'.stages = job.stages /\ job'.work = job.work
            /\ job'.todo = job.todo /\ job'.over = job.over /\ job'.overlay = job.overlay
            /\ job'.edited
        BY <1>1, <1>8, <2>2, Zenon DEF UserEdits, Job
      <3> QED BY <2>2, <3>1 DEF InputInv, CopyInv, Passing, At
    <2> QED BY <2>1, <2>2
  <1>9. CASE UNCHANGED vars
    <2>1. src' = src /\ ovl' = ovl /\ job' = job
      BY <1>9 DEF vars
    <2> QED BY <2>1 DEF InputInv, CopyInv, Passing, Listed, Input, Overlaid, At
  <1>10. CASE Copy /\ ~CannotBegin
    BY <1>10, InputInvCopy, InputInvParse DEF Copy
  <1> QED BY <1>2, <1>3, <1>4, <1>5, <1>6, <1>7, <1>8, <1>9, <1>10 DEF Next, Build, Copy, WriteBack

\* What --sync-ids has left stays stable until the input is changed.
LEMMA StableStays ==
    ASSUME InputsAreStable,
           \/ src' = src /\ ovl' = ovl /\ synced' = synced
           \/ src' = src /\ synced' = synced \ {"overlay"}
           \/ synced' = {}
    PROVE  InputsAreStable'
  <1>1. ASSUME NEW overlay \in BOOLEAN, Kind(overlay) \in synced'
        PROVE  Kind(overlay) \in synced /\ Input(overlay)' = Input(overlay)
    BY <1>1 DEF Kind, Input, Overlaid
  <1>2. ASSUME NEW overlay \in BOOLEAN, Kind(overlay) \in synced'
        PROVE  Stable(Input(overlay)')
    BY <1>1, <1>2 DEF InputsAreStable
  <1> QED BY <1>2 DEF InputsAreStable, Kind, Stable

\* A completed --sync-ids leaves the work tree as the input, and that is stable.
LEMMA StableFinish ==
    ASSUME TypeOK, PassInv, TraceInv, InputInv, InputsAreStable, Finish
    PROVE  InputsAreStable'
  <1>1. job \in Job /\ job.pc = "sync" /\ job.todo = {} /\ src' = src /\ ovl' = ovl
    BY DEF TypeOK, Finish, At
  <1>2. synced' = synced \cup (IF job.edited THEN {} ELSE {Kind(job.overlay)})
    BY DEF Finish
  <1>3. Stable(job.work)
    <2>1. job.stages = Stages(job.work[Bat])
      BY <1>1 DEF InputInv, Passing, At
    <2>2. CleanPass(job.stages, job.work) =
            [work |-> job.work, exports |-> job.exports, failed |-> FALSE]
      BY <1>1, TraceInvFixpoint DEF AcceptedIsAFixpoint, HasAccepted, At
    <2> QED BY <2>1, <2>2 DEF Stable
  <1>4. ASSUME ~job.edited PROVE Input(job.overlay) = job.work
    <2>1. \A f \in File : Input(job.overlay)[f] = job.work[f]
      BY <1>1, <1>4 DEF InputInv, Passing, At
    <2>2. Input(job.overlay) \in Tree /\ job.work \in Tree
      BY <1>1, InputType DEF Job
    <2> QED BY <2>1, <2>2 DEF Tree
  <1>5. ASSUME NEW overlay \in BOOLEAN, Kind(overlay) \in synced'
        PROVE  Stable(Input(overlay)')
    <2>1. Input(overlay)' = Input(overlay)
      BY <1>1 DEF Input, Overlaid
    <2>2. CASE Kind(overlay) \in synced
      BY <2>1, <2>2 DEF InputsAreStable
    <2>3. CASE Kind(overlay) \notin synced
      <3>1. ~job.edited /\ Kind(overlay) = Kind(job.overlay) /\ job.overlay \in BOOLEAN
        BY <1>1, <1>2, <1>5, <2>3 DEF Job
      <3>2. overlay = job.overlay
        BY <3>1 DEF Kind
      <3> QED BY <1>3, <1>4, <2>1, <3>1, <3>2
    <2> QED BY <2>2, <2>3
  <1> QED BY <1>5 DEF InputsAreStable, Kind, Stable

\* Every step keeps that.
LEMMA StableStep ==
    ASSUME TypeOK, PassInv, TraceInv, InputInv, InputsAreStable, [Next]_vars
    PROVE  InputsAreStable'
  <1>1. CASE Finish
    BY <1>1, StableFinish
  <1>2. CASE /\ ~Finish
             /\ ~\E f \in IdFile : Sync(f)
             /\ ~\E e \in Edit : UserEdits(e)
    <2>1. src' = src /\ ovl' = ovl /\ synced' = synced
      BY <1>2 DEF Next, Build, Start, Copy, CopyBase, CopyOverlay, Parse, CannotBegin, RunStage,
                  Accept, Retry, GiveUp, Publish, Skip, WriteTmp, Replace, ReplaceMarker, Compare,
                  WriteBack, WriteSyncTmp, Interrupt, vars
    <2> QED BY <2>1, StableStays
  <1>3. ASSUME NEW f \in IdFile, Sync(f) PROVE InputsAreStable'
    BY <1>3, StableStays DEF Sync
  <1>4. ASSUME NEW e \in Edit, UserEdits(e) PROVE InputsAreStable'
    BY <1>4, StableStays DEF UserEdits
  <1> QED BY <1>1, <1>2, <1>3, <1>4

\* A build that began from a stable tree does not need another pass.
LEMMA SettledIsAccepted ==
    ASSUME TypeOK, PassInv, TraceInv, InputInv, SettledPass, PassIsOver
    PROVE  ~job.settled \/ Accepted
  <1> SUFFICES ASSUME job.settled PROVE Accepted
    OBVIOUS
  <1> DEFINE n    == Len(job.stages)
             tree == From
  <1>1. job \in Job /\ Passing /\ Stable(tree)
    BY DEF TypeOK, SettledPass, PassIsOver, Passing, At
  <1>2. n \in Nat /\ job.k - 1 = n
    BY <1>1 DEF Job, TraceInv, PassIsOver
  <1>3. job.before = Ids(tree) /\ Traced(tree, job.stages, n, saw, Here)
    BY <1>1, <1>2 DEF TraceInv
  <1>4. job.stages = Stages(tree[Bat])
    BY <1>1, BuildAssumption DEF InputInv, From
  <1> HIDE DEF tree
  <1>5. CleanPass(job.stages, tree) = Here
    <2>1. PICK g : Trace(g, job.stages, n, tree) /\ g[n] = Here
      BY <1>3 DEF Traced
    <2> QED BY <1>2, <2>1, CleanPassIsTrace
  <1>6. Here.work = tree /\ Here.failed = FALSE
    BY <1>1, <1>4, <1>5 DEF Stable
  <1> QED BY <1>3, <1>6 DEF Here, Accepted, IdsChanged

\* A step that leaves a build alone keeps it settled.
LEMMA SettledSame ==
    ASSUME SettledPass, SameBuild, ~At("idle")', ~At("sync")'
    PROVE  SettledPass'
  BY DEF SettledPass, SameBuild, SamePass, From, Input, Overlaid, Stable, At
\* A first pass begins as settled as the input is that was copied.
LEMMA SettledParse ==
    ASSUME TypeOK, InputInv, InputsAreStable, Parse
    PROVE  SettledPass'
  <1> DEFINE tree == job.work
  <1>1. job \in Job /\ tree \in Tree
    BY DEF TypeOK, Job
  <1>2. /\ job'.pc = "pass" /\ job'.pass = 1 /\ job'.overlay = job.overlay
        /\ job'.work = tree /\ job'.before = Ids(tree) /\ job'.edited = job.edited
        /\ job'.settled = (Kind(job.overlay) \in synced /\ ~job.edited)
        /\ src' = src /\ ovl' = ovl
    BY <1>1, Zenon DEF Parse, Job
  <1>3. ~job.edited => Input(job.overlay) = tree
    BY CopiedIsInput DEF Parse
  <1>4. Input(job.overlay)' = Input(job.overlay)
    BY <1>2 DEF Input, Overlaid
  <1>5. job'.settled => Stable(tree) /\ Input(job.overlay)' = tree
    BY <1>1, <1>2, <1>3, <1>4 DEF InputsAreStable, Job
  <1> HIDE DEF tree
  <1>6. From' = tree
    BY <1>1, <1>2 DEF From, Ids, Tree
  <1> QED BY <1>2, <1>5, <1>6 DEF SettledPass, At, Stable

\* Where nothing is to be written back, a sync has nothing to do.
LEMMA SettledCompare ==
    ASSUME TypeOK, PassInv, SettledPass, Compare, job.sync
    PROVE  SettledPass'
  <1>1. job \in Job
    BY DEF TypeOK
  <1>2. /\ SameBuild /\ job.pc = "compare" /\ job'.pc = "sync"
        /\ job'.todo = {f \in Differ : job.work[f] # Absent}
    <2>1. job' = [job EXCEPT !.pc = "sync", !.todo = {f \in Differ : job.work[f] # Absent}]
      BY Zenon DEF Compare
    <2>2. job.pc = "compare" /\ saw' = saw /\ src' = src /\ ovl' = ovl
      BY DEF Compare, At
    <2> QED BY <1>1, <2>1, <2>2, Zenon DEF SameBuild, SamePass, Job
  <1>3. From = job.work
    <2>1. Ids(job.work) = job.before /\ job.work \in Tree
      BY <1>1, <1>2 DEF PassInv, Passing, HasAccepted, At, Job
    <2> QED BY <2>1 DEF From, Ids, Tree
  <1>4. From' = From /\ Input(job.overlay)' = Input(job.overlay)
    BY <1>2 DEF SameBuild, SamePass, From, Input, Overlaid
  <1>5. ASSUME job.settled, ~job.edited PROVE job'.todo = {}
    <2>1. Input(job.overlay) = job.work
      BY <1>3, <1>5 DEF SettledPass
    <2>2. Differ = {}
      BY <2>1 DEF Differ
    <2> QED BY <1>2, <2>2
  <1> QED BY <1>2, <1>4, <1>5 DEF SettledPass, SameBuild, At, Stable

\* Every step keeps a settled build settled.
LEMMA SettledStep ==
    ASSUME TypeOK, PassInv, TraceInv, InputInv, InputsAreStable, SettledPass, [Next]_vars
    PROVE  SettledPass'
  <1>1. job \in Job
    BY DEF TypeOK
  <1>2. ASSUME NEW overlay \in BOOLEAN, NEW sync \in BOOLEAN, NEW force \in BOOLEAN,
               Start(overlay, sync, force)
        PROVE  SettledPass'
    <2>1. ~job'.settled
      BY <1>2, FreshStart DEF Fresh
    <2> QED BY <2>1 DEF SettledPass
  <1>3. CASE RunStage
    <2>1. /\ job'.pc = job.pc /\ job.pc = "pass" /\ job'.overlay = job.overlay
          /\ job'.edited = job.edited /\ job'.settled = job.settled /\ job'.pass = job.pass
          /\ src' = src /\ ovl' = ovl
      BY <1>1, <1>3, Zenon DEF RunStage, Job, At
    <2>2. From' = From
      BY <1>3, FromRunStage
    <2> QED BY <2>1, <2>2 DEF SettledPass, Input, Overlaid, At, Stable
  <1>4. CASE Accept \/ Publish
    <2>1. ~At("idle")'
      BY <1>1, <1>4, Zenon
         DEF Accept, Publish, Skip, Publishing, WriteTmp, Replace, ReplaceMarker, Job, At
    <2> QED BY <1>4, <2>1, PublishIsSame, SettledSame
  <1>5. CASE Retry
    <2>1. ~job.settled
      BY <1>5, SettledIsAccepted DEF Retry, Accepted
    <2>2. job'.settled = job.settled
      BY <1>1, <1>5, Zenon DEF Retry, NextPass, Job
    <2> QED BY <2>1, <2>2 DEF SettledPass
  <1>6. CASE CannotBegin \/ GiveUp \/ Finish \/ Interrupt \/ (Compare /\ ~job.sync)
    BY <1>6 DEF CannotBegin, GiveUp, Finish, Interrupt, Compare, SettledPass, Idle
  <1>7. CASE Compare /\ job.sync
    BY <1>7, SettledCompare
  <1>8. ASSUME NEW f \in IdFile, Sync(f) \/ WriteSyncTmp(f) PROVE SettledPass'
    <2>1. /\ SamePass /\ job.pc = "sync" /\ job'.pc = "sync" /\ job'.edited = job.edited
          /\ job'.settled = job.settled /\ job'.pass = job.pass /\ f \in job.todo
      <3>1. CASE Sync(f)
        BY <1>1, <3>1, Zenon DEF Sync, SamePass, Job, At
      <3>2. CASE WriteSyncTmp(f)
        BY <1>1, <3>2, Zenon DEF WriteSyncTmp, SamePass, Job, At
      <3> QED BY <1>8, <3>1, <3>2
    <2>2. job.settled => job.edited
      BY <2>1 DEF SettledPass, At
    <2>3. From' = From
      BY <2>1 DEF SamePass, From
    <2> QED BY <2>1, <2>2, <2>3 DEF SettledPass, At, Stable
  <1>9. ASSUME NEW e \in Edit, UserEdits(e) PROVE SettledPass'
    <2>1. CASE At("idle")
      BY <1>9, <2>1 DEF UserEdits, SettledPass
    <2>2. CASE ~At("idle")
      <3>1. /\ job'.pc = job.pc /\ job'.work = job.work /\ job'.before = job.before
            /\ job'.settled = job.settled /\ job'.pass = job.pass /\ job'.edited
        BY <1>1, <1>9, <2>2, Zenon DEF UserEdits, Job
      <3>2. From' = From
        BY <3>1 DEF From
      <3> QED BY <3>1, <3>2 DEF SettledPass, At, Stable
    <2> QED BY <2>1, <2>2
  <1>10. CASE UNCHANGED vars
    <2>1. src' = src /\ ovl' = ovl /\ job' = job
      BY <1>10 DEF vars
    <2> QED BY <2>1 DEF SettledPass, From, Input, Overlaid, At, Stable
  <1>11. ASSUME NEW f \in File, CopyBase(f) \/ CopyOverlay(f) PROVE SettledPass'
    <2>1. Fresh
      BY <1>11 DEF CopyBase, CopyOverlay, PassInv, Passing, At
    <2>2. ~job'.settled
      BY <1>11, <2>1, FreshCopy DEF Fresh
    <2> QED BY <2>2 DEF SettledPass
  <1>12. CASE Parse
    BY <1>12, SettledParse
  <1> QED BY <1>2, <1>3, <1>4, <1>5, <1>6, <1>7, <1>8, <1>9, <1>10, <1>11, <1>12
          DEF Next, Build, Copy, WriteBack

\* After a completed --sync-ids, and as long as nobody edits the input, a build
\* takes one pass and has nothing to write back (the loop over passes and the
\* comparison at the end of build.py).
THEOREM SyncedIsSettled == Spec => []SyncedBuildsInOnePass
  <1> DEFINE Inv == PassInv /\ TraceInv /\ InputInv /\ InputsAreStable /\ SettledPass
  <1>1. Init => Inv
    BY DEF Init, PassInv, TraceInv, InputInv, CopyInv, InputsAreStable, SettledPass, Passing, Idle, At
  <1>2. TypeOK /\ TypeOK' /\ Inv /\ [Next]_vars => Inv'
    BY PassInvStep, TraceInvStep, InputInvStep, StableStep, SettledStep
  <1>3. Inv => SyncedBuildsInOnePass
    BY DEF SettledPass, SyncedBuildsInOnePass
  <1> QED BY <1>1, <1>2, <1>3, TypeCorrect, PTL DEF Spec

===============================================================================
