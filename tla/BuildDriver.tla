----------------------------- MODULE BuildDriver -----------------------------
(* The build driver, src/src/modsys/build.py: builds of a base tree, with or  *)
(* without an overlay, into one output directory, one at a time, while the    *)
(* user may edit the trees and a build may be interrupted at any step.        *)
(*                                                                            *)
(* A tree maps file names to contents.  A stage is an unknown program: what   *)
(* it does to the work tree and to the export directory is given by constant  *)
(* operators.  Contents of files are compared, never looked into.             *)
EXTENDS Naturals, Sequences, SequencesExt

CONSTANTS
  File,                  \* names of a source tree: module files, ID files, bat
  IdFile,                \* those of the form ID_*.py
  Bat,                   \* build_module.bat
  Bytes,                 \* contents of source files
  Export,                \* names that stages write into the export directory
  Data,                  \* what they write there
  Stage,                 \* the process_*.py scripts
  Excluded,              \* the two of them that are never run
  Absent,                \* there is no such file
  Foreign,               \* contents of an output file this tool did not write
  Marker,                \* .modsys-build.json
  Lines(_),              \* the process_*.py lines of a bat
  StageOk(_, _, _),      \* exit status 0 and no ERROR line; in (tree, exports)
  StageTree(_, _, _),    \* the work tree the stage leaves behind
  StageExports(_, _, _), \* the export directory it leaves behind
  MaxPasses,             \* MAX_PASSES
  Source,                \* base trees the model starts from
  Leftover,              \* what an output directory may hold at first
  Edit,                  \* edits the user may make: [overlay, file, bytes]
  MaxEdits, MaxInterrupts \* bounds of the model

Tree == [File -> Bytes \cup {Absent}]
Exports == [Export -> Data \cup {Absent}]

(* The stage list that a bat asks for.                                        *)
Stages(bat) == SelectSeq(Lines(bat), LAMBDA s : s \notin Excluded)

(* The process_*.py of the list; the two excluded ones may do anything.       *)
Scripts == Stage \ Excluded
Writes(s, f) == \E t \in Tree, x \in Exports : StageTree(s, t, x)[f] # t[f]

ASSUME BuildAssumption ==
  /\ IdFile \subseteq File /\ Bat \in File \ IdFile /\ Source \subseteq Tree
  /\ Leftover \subseteq SUBSET Export
  /\ Foreign \notin Data \cup {Absent} /\ Marker \notin Export \cup {Absent}
  /\ Absent \notin Export \cup IdFile
  /\ MaxPasses \in Nat \ {0} /\ MaxEdits \in Nat /\ MaxInterrupts \in Nat
  /\ Edit \subseteq [overlay : BOOLEAN, file : File, bytes : Bytes \cup {Absent}]

ASSUME StageAssumption ==
  \A s \in Scripts, t \in Tree, x \in Exports :
    /\ StageOk(s, t, x) \in BOOLEAN /\ StageTree(s, t, x) \in Tree
    /\ StageExports(s, t, x) \in Exports

(* build_module.bat has each script once.                                     *)
ASSUME ListAssumption ==
  \A b \in Bytes \cup {Absent} :
    /\ Lines(b) \in Seq(Stage) /\ IsInjective(Stages(b)) /\ Stages(b) \in Seq(Scripts)

(* A script of the list writes no file of the tree but its own ID file.       *)
ASSUME WriterAssumption ==
  \A f \in File, s, r \in Scripts :
    Writes(s, f) => f \in IdFile /\ (Writes(r, f) => r = s)

(* And none removes a file of the tree: an ID file is opened to be written.   *)
ASSUME RemoveAssumption ==
  \A s \in Scripts, t \in Tree, x \in Exports, f \in File :
    StageTree(s, t, x)[f] = Absent => t[f] = Absent

VARIABLES
  src,    \* the base tree
  ovl,    \* the overlay directory
  out,    \* the output directory
  tmp,    \* names with a .modsys-tmp file in the output directory
  litter, \* such files in the trees: [overlay: is it there?, file: whose?]
  marker, \* the files the marker lists, with their contents, or Absent
  job,    \* the running build
  saw,    \* auxiliary: the work trees that the stages of this pass have seen
  synced, \* auxiliary: the kinds of build whose input is as a --sync-ids left it
  edits, interrupts

vars == <<src, ovl, out, tmp, litter, marker, job, saw, synced, edits, interrupts>>

-----------------------------------------------------------------------------
NoFiles == [f \in Export |-> Absent]
NoTree == [f \in File |-> Absent]

(* stages is the list read from the work tree's bat, before the ID snapshot   *)
(* of the pass, k the next stage, todo the names still to be copied from the  *)
(* base (then published, then synced), over those to be copied from the       *)
(* overlay, writing the one whose temporary file is being written; settled    *)
(* and edited are auxiliary.                                                  *)
Idle == [pc |-> "idle", overlay |-> FALSE, sync |-> FALSE, over |-> {}, stages |-> <<>>, pass |-> 0,
         k |-> 1, work |-> NoTree, before |-> NoTree, failed |-> FALSE, exports |-> NoFiles,
         todo |-> {}, writing |-> Absent, settled |-> FALSE, edited |-> FALSE]

At(pc) == job.pc = pc

Ids(tree) == [f \in File |-> IF f \in IdFile THEN tree[f] ELSE Absent]
Present(files) == {f \in Export : files[f] # Absent}
Listed(tree) == {f \in File : tree[f] # Absent}
Overlaid(base, over) == [f \in File |-> IF over[f] # Absent THEN over[f] ELSE base[f]]
Input(overlay) == IF overlay THEN Overlaid(src, ovl) ELSE src
Kind(overlay) == IF overlay THEN "overlay" ELSE "base"

-----------------------------------------------------------------------------
Init ==
  /\ src \in Source /\ ovl = NoTree
  /\ \E foreign \in Leftover :
       out = [f \in Export |-> IF f \in foreign THEN Foreign ELSE Absent]
  /\ tmp = {} /\ litter = {} /\ marker = Absent /\ job = Idle
  /\ saw = {} /\ synced = {} /\ edits = 0 /\ interrupts = 0

(* "not created by this tool": files in it, but no marker.                    *)
Refused(force) == (Present(out) # {} \/ tmp # {}) /\ marker = Absent /\ ~force

(* The directories are listed; their files are then copied one by one, in any *)
(* order, those of the overlay over those of the base.                        *)
Start(overlay, sync, force) ==
  /\ At("idle") /\ src[Bat] # Absent /\ ~Refused(force)
  /\ job' = [Idle EXCEPT !.pc = "copy", !.overlay = overlay, !.sync = sync,
                         !.todo = Listed(src), !.over = IF overlay THEN Listed(ovl) ELSE {}]
  /\ UNCHANGED <<src, ovl, out, tmp, litter, marker, saw, synced, edits, interrupts>>

CopyBase(f) ==
  /\ At("copy") /\ f \in job.todo /\ src[f] # Absent
  /\ job' = [job EXCEPT !.todo = @ \ {f}, !.work[f] = src[f]]
  /\ UNCHANGED <<src, ovl, out, tmp, litter, marker, saw, synced, edits, interrupts>>

CopyOverlay(f) ==
  /\ At("copy") /\ job.todo = {} /\ f \in job.over /\ ovl[f] # Absent
  /\ job' = [job EXCEPT !.over = @ \ {f}, !.work[f] = ovl[f]]
  /\ UNCHANGED <<src, ovl, out, tmp, litter, marker, saw, synced, edits, interrupts>>

Copied == At("copy") /\ job.todo = {} /\ job.over = {}

(* parse_stages, and the first pass.                                          *)
Parse ==
  /\ Copied /\ Stages(job.work[Bat]) # <<>>
  /\ job' = [job EXCEPT !.pc = "pass", !.stages = Stages(job.work[Bat]), !.pass = 1,
                        !.before = Ids(job.work),
                        !.settled = Kind(job.overlay) \in synced /\ ~job.edited]
  /\ UNCHANGED <<src, ovl, out, tmp, litter, marker, saw, synced, edits, interrupts>>

(* A listed file is gone, or there is nothing to run.                         *)
CannotBegin ==
  /\ At("copy")
  /\ \/ \E f \in job.todo : src[f] = Absent
     \/ job.todo = {} /\ \E f \in job.over : ovl[f] = Absent
     \/ Copied /\ Stages(job.work[Bat]) = <<>>
  /\ job' = Idle
  /\ UNCHANGED <<src, ovl, out, tmp, litter, marker, saw, synced, edits, interrupts>>

(* One stage, in a process of its own.  A failed one does not end the pass.   *)
RunStage ==
  /\ At("pass") /\ job.k <= Len(job.stages)
  /\ LET s == job.stages[job.k] IN
       job' = [job EXCEPT !.k = @ + 1,
                          !.failed = @ \/ ~StageOk(s, job.work, job.exports),
                          !.work = StageTree(s, job.work, job.exports),
                          !.exports = StageExports(s, job.work, job.exports)]
  /\ saw' = saw \cup {job.work}
  /\ UNCHANGED <<src, ovl, out, tmp, litter, marker, synced, edits, interrupts>>

PassIsOver == At("pass") /\ job.k > Len(job.stages)
\* Mutant of IdsChanged: only files that come or go count.
IdsChanged_ByName == \E f \in IdFile : (job.work[f] = Absent) # (job.before[f] = Absent)
IdsChanged == Ids(job.work) # job.before
Accepted == ~job.failed /\ ~IdsChanged

Accept ==
  /\ PassIsOver /\ Accepted
  /\ job' = [job EXCEPT !.pc = "publish", !.todo = Present(job.exports)]
  /\ UNCHANGED <<src, ovl, out, tmp, litter, marker, saw, synced, edits, interrupts>>

\* Mutants of NextPass: the export directory is not emptied; passes are not
\* counted.
NextPass_KeepsExports == [job EXCEPT !.pass = @ + 1, !.k = 1, !.before = Ids(job.work),
                                     !.failed = FALSE]
NextPass_Uncounted == [job EXCEPT !.k = 1, !.before = Ids(job.work),
                                  !.failed = FALSE, !.exports = NoFiles]

NextPass == [job EXCEPT !.pass = @ + 1, !.k = 1, !.before = Ids(job.work),
                        !.failed = FALSE, !.exports = NoFiles]

Retry ==
  /\ PassIsOver /\ IdsChanged /\ job.pass < MaxPasses
  /\ job' = NextPass /\ saw' = {}
  /\ UNCHANGED <<src, ovl, out, tmp, litter, marker, synced, edits, interrupts>>

(* BuildError: a rerun cannot help, or the passes are used up.                *)
GiveUp ==
  /\ PassIsOver /\ ~Accepted /\ (IdsChanged => job.pass = MaxPasses)
  /\ job' = Idle /\ saw' = {}
  /\ UNCHANGED <<src, ovl, out, tmp, litter, marker, synced, edits, interrupts>>

-----------------------------------------------------------------------------
Publishing(f) == At("publish") /\ job.writing = Absent /\ f \in job.todo
\* Mutant of Changed: a file that exists is left alone.
Changed_OnlyIfNew(f) == out[f] = Absent
Changed(f) == out[f] # job.exports[f]

Skip(f) ==
  /\ Publishing(f) /\ ~Changed(f)
  /\ job' = [job EXCEPT !.todo = @ \ {f}]
  /\ UNCHANGED <<src, ovl, out, tmp, litter, marker, saw, synced, edits, interrupts>>

\* Mutant of WriteTmp: the marker may be written before the files.
WriteTmp_MarkerFirst(f) ==
  /\ \/ Publishing(f) /\ Changed(f)
     \/ At("publish") /\ job.writing = Absent /\ f = Marker
  /\ job' = [job EXCEPT !.writing = f]
  /\ tmp' = tmp \cup {f}
  /\ UNCHANGED <<src, ovl, out, litter, marker, saw, synced, edits, interrupts>>

(* _atomic_write: a temporary file first ...                                  *)
WriteTmp(f) ==
  /\ \/ Publishing(f) /\ Changed(f)
     \/ At("publish") /\ job.writing = Absent /\ job.todo = {} /\ f = Marker
  /\ job' = [job EXCEPT !.writing = f]
  /\ tmp' = tmp \cup {f}
  /\ UNCHANGED <<src, ovl, out, litter, marker, saw, synced, edits, interrupts>>

(* ... that takes the place of the file in one step.                          *)
Replace ==
  /\ At("publish") /\ job.writing \in Export
  /\ out' = [out EXCEPT ![job.writing] = job.exports[job.writing]]
  /\ tmp' = tmp \ {job.writing}
  /\ job' = [job EXCEPT !.todo = @ \ {job.writing}, !.writing = Absent]
  /\ UNCHANGED <<src, ovl, litter, marker, saw, synced, edits, interrupts>>

ReplaceMarker ==
  /\ At("publish") /\ job.writing = Marker
  /\ marker' = job.exports
  /\ tmp' = tmp \ {Marker}
  /\ job' = [job EXCEPT !.pc = "compare", !.writing = Absent]
  /\ UNCHANGED <<src, ovl, out, litter, saw, synced, edits, interrupts>>

\* Mutant of Differ: the ID files of the overlay are forgotten.
Differ_FromBase == {f \in IdFile : src[f] # job.work[f]}

(* The input trees are read again here: they may have been edited meanwhile.  *)
Differ == {f \in IdFile : Input(job.overlay)[f] # job.work[f]}

Compare ==
  /\ At("compare")
  /\ IF job.sync THEN job' = [job EXCEPT !.pc = "sync",
                                         !.todo = {f \in Differ : job.work[f] # Absent}]
                      /\ saw' = saw
                 ELSE job' = Idle /\ saw' = {}
  /\ UNCHANGED <<src, ovl, out, tmp, litter, marker, synced, edits, interrupts>>

(* _atomic_write again, next to the files of the tree: the temporary file ... *)
WriteSyncTmp(f) ==
  /\ At("sync") /\ f \in job.todo /\ job.writing = Absent
  /\ job' = [job EXCEPT !.writing = f]
  /\ litter' = litter \cup {[overlay |-> job.overlay, file |-> f]}
  /\ UNCHANGED <<src, ovl, out, tmp, marker, saw, synced, edits, interrupts>>

(* ... replaces the ID file.                                                  *)
Sync(f) ==
  /\ At("sync") /\ f \in job.todo /\ job.writing = f
  /\ IF job.overlay THEN ovl' = [ovl EXCEPT ![f] = job.work[f]] /\ src' = src
                    ELSE src' = [src EXCEPT ![f] = job.work[f]] /\ ovl' = ovl
  /\ litter' = litter \ {[overlay |-> job.overlay, file |-> f]}
  /\ synced' = IF job.overlay THEN synced \ {"overlay"} ELSE {}
  /\ job' = [job EXCEPT !.todo = @ \ {f}, !.writing = Absent]
  /\ UNCHANGED <<out, tmp, marker, saw, edits, interrupts>>

Finish ==
  /\ At("sync") /\ job.todo = {}
  /\ synced' = synced \cup (IF job.edited THEN {} ELSE {Kind(job.overlay)})
  /\ job' = Idle /\ saw' = {}
  /\ UNCHANGED <<src, ovl, out, tmp, litter, marker, edits, interrupts>>

-----------------------------------------------------------------------------
(* The process is killed, or a file operation raises OSError, which runs the  *)
(* clean-up of _atomic_write.                                                 *)
CleanUp ==
  IF At("sync")
    THEN litter' = litter \ {[overlay |-> job.overlay, file |-> job.writing]} /\ tmp' = tmp
    ELSE tmp' = tmp \ {job.writing} /\ litter' = litter

Interrupt ==
  /\ ~At("idle") /\ interrupts < MaxInterrupts
  /\ CleanUp \/ UNCHANGED <<tmp, litter>>
  /\ interrupts' = interrupts + 1
  /\ job' = Idle /\ saw' = {}
  /\ UNCHANGED <<src, ovl, out, marker, synced, edits>>

UserEdits(e) ==
  /\ edits < MaxEdits
  /\ IF e.overlay THEN ovl' = [ovl EXCEPT ![e.file] = e.bytes] /\ src' = src
                  ELSE src' = [src EXCEPT ![e.file] = e.bytes] /\ ovl' = ovl
  /\ <<src, ovl>>' # <<src, ovl>>
  /\ synced' = IF e.overlay THEN synced \ {"overlay"} ELSE {}
  /\ edits' = edits + 1
  /\ job' = IF At("idle") THEN job ELSE [job EXCEPT !.edited = TRUE]
  /\ UNCHANGED <<out, tmp, litter, marker, saw, interrupts>>

Copy == (\E f \in File : CopyBase(f) \/ CopyOverlay(f)) \/ Parse \/ CannotBegin
Publish == (\E f \in Export \cup {Marker} : Skip(f) \/ WriteTmp(f)) \/ Replace \/ ReplaceMarker
WriteBack == (\E f \in IdFile : WriteSyncTmp(f) \/ Sync(f)) \/ Finish
Build == Copy \/ RunStage \/ Accept \/ Retry \/ GiveUp \/ Publish \/ Compare \/ WriteBack

Next ==
  \/ \E overlay, sync, force \in BOOLEAN : Start(overlay, sync, force)
  \/ Build
  \/ Interrupt
  \/ \E e \in Edit : UserEdits(e)

Spec == Init /\ [][Next]_vars
FairSpec == Spec /\ WF_vars(Build)

-----------------------------------------------------------------------------
Job == [pc : {"idle", "copy", "pass", "publish", "compare", "sync"},
        overlay : BOOLEAN, sync : BOOLEAN, over : SUBSET File, stages : Seq(Scripts),
        pass : 0..MaxPasses, k : Nat \ {0}, work : Tree, before : Tree,
        failed : BOOLEAN, exports : Exports, todo : SUBSET (Export \cup File),
        writing : Export \cup IdFile \cup {Marker, Absent}, settled : BOOLEAN, edited : BOOLEAN]

TypeOK ==
  /\ src \in Tree /\ ovl \in Tree
  /\ out \in [Export -> Data \cup {Absent, Foreign}]
  /\ tmp \subseteq Export \cup {Marker} /\ litter \subseteq [overlay : BOOLEAN, file : IdFile]
  /\ marker \in Exports \cup {Absent}
  /\ job \in Job
  /\ saw \subseteq Tree /\ synced \subseteq {"base", "overlay"}
  /\ edits \in Nat /\ interrupts \in Nat

HasAccepted == At("publish") \/ At("compare") \/ At("sync")

(* "The ID_*.py bytes did not change during the pass" is read off two         *)
(* snapshots, at the ends of the pass.  It is meant to say that every stage   *)
(* of the accepted pass has seen the same, final work tree.                   *)
EveryStageSawTheFinalTree == HasAccepted => saw = {job.work}

(* A whole pass over a tree, from an empty export directory.                  *)
CleanPass(stages, tree) ==
  LET run[k \in 0..Len(stages)] ==
        IF k = 0 THEN [work |-> tree, exports |-> NoFiles, failed |-> FALSE]
        ELSE LET p == run[k - 1] IN
             [work |-> StageTree(stages[k], p.work, p.exports),
              exports |-> StageExports(stages[k], p.work, p.exports),
              failed |-> p.failed \/ ~StageOk(stages[k], p.work, p.exports)]
  IN run[Len(stages)]

(* Only a fixpoint is published: another pass over the work tree would fail   *)
(* nowhere, change no file of the tree and export the same files.             *)
AcceptedIsAFixpoint ==
  HasAccepted => CleanPass(job.stages, job.work) =
                   [work |-> job.work, exports |-> job.exports, failed |-> FALSE]

(* When the marker has been written, the directory holds what this build      *)
(* exported, whatever earlier builds, finished or interrupted, left there,    *)
(* and the marker lists exactly that.                                         *)
PublishedAsAccepted ==
  At("compare") \/ At("sync") =>
    marker = job.exports /\ \A f \in Present(job.exports) : out[f] = job.exports[f]

(* The marker is written last: through every interruption, each file that it  *)
(* lists is there and was written by this tool.                               *)
MarkerNamesOwnFiles ==
  marker # Absent => \A f \in Present(marker) : out[f] \notin {Absent, Foreign}

(* After a completed --sync-ids, and until the input of that kind of build is *)
(* changed, a build takes one pass and finds nothing to synchronise.          *)
SyncedBuildsInOnePass ==
  job.settled => job.pass = 1 /\ (At("sync") /\ ~job.edited => job.todo = {})

(* What a tree holds besides its files.                                       *)
TmpIn(overlay) == {t \in litter : t.overlay = overlay}

(* The base tree is written by the user, or by a --sync-ids without overlay,  *)
(* which writes ID files and temporary files named after them.                *)
BaseIsOnlySynced ==
  [][edits' = edits /\ <<src, TmpIn(FALSE)>>' # <<src, TmpIn(FALSE)>> =>
       /\ At("sync") /\ job.sync /\ ~job.overlay
       /\ \A f \in File \ IdFile : src'[f] = src[f]]_vars

(* A temporary file in either tree belongs to the ID file that is being       *)
(* written there, or a kill has left it.                                      *)
LitterIsOfAKill ==
  \A t \in litter : \/ At("sync") /\ t = [overlay |-> job.overlay, file |-> job.writing]
                    \/ interrupts > 0

(* The output directory changes only under a build whose last pass was        *)
(* accepted, and a file in it only to what that pass exported: no rejected    *)
(* pass and no half-written file is ever seen there.                          *)
OutputIsWhole ==
  [][\A f \in Export : out'[f] # out[f] =>
       ~job.failed /\ Ids(job.work) = job.before /\ out'[f] = job.exports[f]]_vars

(* Every build ends: a source whose IDs never settle too.                     *)
EveryBuildEnds == ~At("idle") ~> At("idle")
=============================================================================
