-------------------------- MODULE ConversationProofs --------------------------
(***************************************************************************)
(* Proofs about Conversation, for every value of its constants.            *)
(*                                                                         *)
(* They rest on what is proved of the two parts alone: GP is the game of   *)
(* Conversation with the lemmas of GameTransportProofs, and MP its server  *)
(* with those of MemoryProofs.                                             *)
(***************************************************************************)
EXTENDS Conversation, FiniteSetTheorems, TLAPS

GP == INSTANCE GameTransportProofs WITH
    Faults <- {"no_answer"}, Companions <- {TRUE}, Saves <- FALSE,
    MaxStale <- 0, MaxAbandoned <- 0, MaxInFlight <- 1

MP == INSTANCE MemoryProofs WITH
    Branch <- {Campaign}, Session <- 1 .. MaxOpens, JobId <- 1 .. MaxTalks,
    Npc <- {Companion}, Talk <- {Spoken}, RecallRows <- 2,
    WorkerLimit <- MaxTalks + 1, MaxAttempts <- MaxTalks

-----------------------------------------------------------------------------
(* The invariant                                                            *)

\* The outstanding request as the engine and the server see it.
Sent == [rid |-> tx.rid, op |-> tx.op, job |-> tx.job, mixed |-> FALSE]
Wire(code) == [rid |-> tx.rid, op |-> tx.op, job |-> tx.job, session |-> tx.inst, code |-> code]
WireCodes == GP!Codes \cup {"none", "dead"}

\* There is one request at a time, and everybody means the same one.
Linked == IF tx.rid = 0 THEN inflight = {} /\ net = {}
          ELSE inflight = {Sent} /\ \E code \in WireCodes : net = {Wire(code)}

\* What the window can send has the key of an attempt, and so has what it has
\* sent.
WindowInBounds == /\ conv.job <= MaxTalks /\ owed.ack <= MaxTalks /\ owed.cancel <= MaxTalks
                  /\ win.inst <= MaxOpens /\ (win.open => win.inst # 0)
SentInBounds == tx.rid # 0 => tx.job \in 1 .. MaxTalks /\ tx.inst \in 1 .. MaxOpens

GameInv  == GP!TypeInv /\ GP!OwesInv /\ WindowInBounds
PartsInv == GameInv /\ MP!TypeInv /\ Linked /\ SentInBounds

\* The reply in the window is the one to its talk, and the server has it.
ReplyStands ==
    win.open /\ conv.state = "READY" =>
        conv.text = conv.job /\ Known(KeyOf(win.inst, conv.job))

\* An ack is owed for what was shown.
OwedIsShown == win.open /\ owed.ack # 0 => KeyOf(win.inst, owed.ack) \in shown

\* An ack is for what was shown, and an answer tells what the server knows.
WireInv == \A q \in net :
    /\ q.op = "ACK" => KeyIn(q) \in shown
    /\ q.code = "READY" => Known(KeyIn(q))
    /\ q.code = "READY" /\ q.op = "ACK" => Mem!StateOf(KeyIn(q)) = "committed"

\* All of it.
ConvInv == /\ PartsInv /\ ReplyStands /\ OwedIsShown /\ WireInv
           /\ OnlyTheShownIsRemembered

-----------------------------------------------------------------------------
(* The parts                                                                *)

\* The constants of a conversation meet every assumption of the game window's
\* proofs, so that its lemmas can be cited here.
LEMMA GameAssumed == /\ GP!TimesAssumption /\ GP!FaultsAssumption
                     /\ GP!PlayerAssumption /\ GP!GameBoundsAssumption
  BY ClockAssumption, TalksAssumption
  DEF GP!TimesAssumption, GP!FaultsAssumption, GP!PlayerAssumption, GP!GameBoundsAssumption

\* The same for the server's memory: its assumptions follow from the
\* conversation's, so that its lemmas can be cited here.
LEMMA ServerAssumed == /\ MP!TalkAssumption /\ MP!LimitAssumption /\ MP!RecallAssumption
                       /\ MP!DbAssumption /\ MP!NoneAssumption
  <1>1. MP!TalkAssumption /\ MP!LimitAssumption /\ MP!RecallAssumption
    BY TalksAssumption DEF MP!TalkAssumption, MP!LimitAssumption, MP!RecallAssumption, Spoken
  <1>2. MP!DbAssumption
    BY ServerAssumption DEF MP!DbAssumption, Mem!DbAssumption
  <1>3. MP!NoneAssumption
    BY ServerAssumption
    DEF MP!NoneAssumption, Mem!NoneAssumption, MP!Key, MP!Worker, MP!Attempt, MP!Job, MP!Seen,
        Mem!Key, Mem!Worker, Mem!Attempt, Mem!Job, Mem!Seen, MP!Conversation, Mem!Conversation,
        MP!States, Mem!States
  <1> QED BY <1>1, <1>2, <1>3

\* A step of the game window keeps the window's inductive invariant, in the
\* composed system as in the window alone.
LEMMA GameKeeps ==
    GP!TypeInv /\ GP!OwesInv /\ [GP!Next]_GP!vars => GP!TypeInv' /\ GP!OwesInv'
  BY GameAssumed, GP!OwesStep, GP!TypeInvStep
  DEF GP!OwesStep, GP!TypeInvStep

\* The game of Conversation is the game those lemmas are about.
LEMMA SameGame ==
    ASSUME NEW job, NEW passed, NEW r, NEW f
    PROVE  /\ Game!Init => GP!Init
           /\ Game!OpenWindow => GP!OpenWindow
           /\ Game!ChooseMemory => GP!ChooseMemory
           /\ Game!SayJob(job) => GP!SayJob(job)
           /\ Game!CancelTalk => GP!CancelTalk
           /\ Game!CloseWindow => GP!CloseWindow
           /\ Game!Run(passed) => GP!Run(passed)
           /\ Game!Receive(r, f) => GP!Receive(r, f)
  <1>1. /\ Game!Init => GP!Init
        /\ Game!ChooseMemory => GP!ChooseMemory
        /\ Game!CancelTalk => GP!CancelTalk
    BY DEF Game!Init, GP!Init, Game!ChooseMemory, GP!ChooseMemory, Game!CancelTalk, GP!CancelTalk,
           Game!NoRequest, GP!NoRequest, Game!NoTalk, GP!NoTalk, Game!NoneOwed, GP!NoneOwed,
           Game!NoWindow, GP!NoWindow, Game!Waiting, GP!Waiting
  <1>8. Game!OpenWindow => GP!OpenWindow
    BY DEF Game!OpenWindow, GP!OpenWindow, Game!NoTalk, GP!NoTalk, Game!NoneOwed, GP!NoneOwed
  <1>2. ASSUME NEW op, NEW n
        PROVE  /\ Game!Transmit(op, n) => GP!Transmit(op, n)
               /\ Game!TxSend(op, n) => GP!TxSend(op, n)
    BY DEF Game!Transmit, GP!Transmit, Game!TxSend, GP!TxSend, Game!Fresh, GP!Fresh, Game!Cardinality, GP!Cardinality,
           Game!RidsInUse, GP!RidsInUse, Game!Launched, GP!Launched
  <1>3. Game!SayJob(job) => GP!SayJob(job)
    BY <1>2 DEF Game!SayJob, GP!SayJob, Game!Waiting, GP!Waiting
  <1>4. Game!CloseWindow => GP!CloseWindow
    BY <1>2 DEF Game!CloseWindow, GP!CloseWindow
  <1>5. ASSUME NEW ack, NEW since, NEW waited
        PROVE  Game!Sends(ack, since, waited) => GP!Sends(ack, since, waited)
    BY <1>2 DEF Game!Sends, GP!Sends, Game!SendsCancel, GP!SendsCancel, Game!SendsAck, GP!SendsAck,
           Game!SendsPoll, GP!SendsPoll, Game!GivesUp, GP!GivesUp, Game!Waiting, GP!Waiting
  <1>6. Game!Run(passed) => GP!Run(passed)
    BY <1>5 DEF Game!Run, GP!Run, Game!Least, GP!Least, Game!GivesUp, GP!GivesUp,
           Game!OwedAck, GP!OwedAck, Game!Waiting, GP!Waiting
  <1>7. Game!Receive(r, f) => GP!Receive(r, f)
    BY DEF Game!Receive, GP!Receive, Game!DropIdle, GP!DropIdle, Game!DropStray, GP!DropStray,
           Game!Stray, GP!Stray, Game!Complete, GP!Complete, Game!Fail, GP!Fail, Game!Ours, GP!Ours,
           Game!Idle, GP!Idle, Game!NoRequest, GP!NoRequest, Game!Acknowledged, GP!Acknowledged,
           Game!ForConversation, GP!ForConversation, Game!Waiting, GP!Waiting,
           Game!Taken, GP!Taken
  <1> QED BY <1>1, <1>3, <1>4, <1>6, <1>7, <1>8

\* Nor is its server another one.
LEMMA SameServer ==
    ASSUME NEW k, NEW w
    PROVE  /\ Mem!Init => MP!Init
           /\ Mem!Answer => MP!Answer
           /\ Mem!CollectFails => MP!CollectFails
           /\ Mem!Cancel(k) => MP!Cancel(k)
           /\ Mem!Ack(k) => MP!Ack(k)
           /\ Mem!Admit(k, Spoken) => MP!Admit(k, Spoken)
           /\ Mem!AdmitRefused(k, Spoken) => MP!AdmitRefused(k, Spoken)
           /\ Mem!AdmitRefusedUnrecorded(k, Spoken) => MP!AdmitRefusedUnrecorded(k, Spoken)
           /\ Mem!StoreSettles(w) => MP!StoreSettles(w)
           /\ Mem!StoreDrops(w) => MP!StoreDrops(w)
           /\ Mem!Restart => MP!Restart
           /\ Mem!StateOf(k) = MP!StateOf(k)
           /\ Mem!Collected(Mem!Finished) = MP!Collected(MP!Finished)
           /\ Mem!Key = MP!Key /\ Mem!Worker = MP!Worker
  <1>1. Mem!Key = MP!Key /\ Mem!Worker = MP!Worker /\ Mem!Conversation = MP!Conversation
    BY DEF Mem!Key, MP!Key, Mem!Worker, MP!Worker, Mem!Conversation, MP!Conversation
  <1>2. Mem!Finished = MP!Finished
    BY <1>1 DEF Mem!Finished, MP!Finished, Mem!Ended, MP!Ended
  <1>3. ASSUME NEW done
        PROVE  /\ Mem!Collected(done) = MP!Collected(done)
               /\ Mem!Drained(done) = MP!Drained(done)
    BY <1>1 DEF Mem!Collected, MP!Collected, Mem!Drained, MP!Drained, Mem!Recorded, MP!Recorded,
           Mem!ReplyOf, MP!ReplyOf
  <1>4. Mem!Init => MP!Init
    BY <1>1 DEF Mem!Init, MP!Init
  <1>5. /\ Mem!Answer => MP!Answer
        /\ Mem!CollectFails => MP!CollectFails
    BY <1>2, <1>3 DEF Mem!Answer, MP!Answer, Mem!CollectFails, MP!CollectFails
  <1>6. Mem!Cancel(k) => MP!Cancel(k)
    BY <1>2, <1>3 DEF Mem!Cancel, MP!Cancel, Mem!StoreCanceled, MP!StoreCanceled,
           Mem!Ended, MP!Ended
  <1>7. Mem!Ack(k) => MP!Ack(k)
    BY <1>2, <1>3 DEF Mem!Ack, MP!Ack, Mem!Exchange, MP!Exchange
  <1>8. ASSUME NEW state PROVE Mem!Insert(k, Spoken, state) => MP!Insert(k, Spoken, state)
    BY <1>1, <1>2, <1>3
    DEF Mem!Insert, MP!Insert, Mem!MayAdmit, MP!MayAdmit, Mem!Latest, MP!Latest,
        Mem!ConversationOf, MP!ConversationOf, Mem!Cardinality, MP!Cardinality
  <1>9. /\ Mem!Admit(k, Spoken) => MP!Admit(k, Spoken)
        /\ Mem!AdmitRefused(k, Spoken) => MP!AdmitRefused(k, Spoken)
        /\ Mem!AdmitRefusedUnrecorded(k, Spoken) => MP!AdmitRefusedUnrecorded(k, Spoken)
    BY <1>2, <1>3, <1>8
    DEF Mem!Admit, MP!Admit, Mem!AdmitRefused, MP!AdmitRefused, Mem!AdmitRefusedUnrecorded,
        MP!AdmitRefusedUnrecorded, Mem!NextWorker, MP!NextWorker, Mem!Ended, MP!Ended
  <1>10. /\ Mem!StoreSettles(w) => MP!StoreSettles(w)
         /\ Mem!StoreDrops(w) => MP!StoreDrops(w)
    BY DEF Mem!StoreSettles, MP!StoreSettles, Mem!StoreDrops, MP!StoreDrops, Mem!Ended, MP!Ended,
           Mem!durable, MP!durable
  <1>11. Mem!Restart => MP!Restart
    BY <1>1 DEF Mem!Restart, MP!Restart
  <1>12. Mem!StateOf(k) = MP!StateOf(k)
    BY DEF Mem!StateOf, MP!StateOf
  <1> QED BY <1>1, <1>2, <1>3, <1>4, <1>5, <1>6, <1>7, <1>9, <1>10, <1>11, <1>12

-----------------------------------------------------------------------------
(* The request on its way                                                   *)

\* A number drawn for a talk is none that the game knows.
LEMMA NewJobIsNew ==
    ASSUME GP!TypeInv
    PROVE  NewJob \in Nat \ {0} /\ NewJob \notin GP!JobsInUse
  <1> DEFINE known == {k.job : k \in {a \in Mem!Key : attempts[a] # None}}
             used  == GP!JobsInUse \cup known
  <1>1. IsFiniteSet(GP!JobsInUse)
    BY GameAssumed, GP!InUseIsFinite DEF GP!InUseIsFinite, IsFiniteSet, GP!IsFiniteSet
  <1>2. IsFiniteSet(known)
    <2>1. known \subseteq 1 .. MaxTalks
      BY DEF Mem!Key
    <2>2. IsFiniteSet(1 .. MaxTalks)
      BY TalksAssumption, FS_Interval
    <2> QED BY <2>1, <2>2, FS_Subset
  <1>3. NewJob = GP!Fresh(used)
    BY DEF NewJob, Game!Fresh, GP!Fresh, Game!Cardinality, GP!Cardinality,
           Game!JobsInUse, GP!JobsInUse
  <1> HIDE DEF used
  <1>4. GP!IsFiniteSet(used)
    <2>1. IsFiniteSet(used)
      BY <1>1, <1>2, FS_Union DEF used
    <2> QED BY <2>1 DEF IsFiniteSet, GP!IsFiniteSet
  <1>5. GP!Fresh(used) \in Nat \ {0} /\ GP!Fresh(used) \notin used
    BY <1>4, GameAssumed, GP!FreshIsNew DEF GP!FreshIsNew
  <1> QED BY <1>3, <1>5 DEF used

\* The outstanding request stays as it is, or there is still none.
Quiet == /\ tx'.rid = tx.rid /\ tx'.op = tx.op /\ tx'.job = tx.job /\ tx'.inst = tx.inst
         /\ inflight' = inflight

\* The window sends a request.
SendsOne(op, job) == /\ tx.rid = 0 /\ win.inst \in 1 .. MaxOpens /\ job \in 1 .. MaxTalks
                     /\ op \in GP!Ops /\ GP!Transmit(op, job)

\* Nothing new is on its way.
LEMMA QuietLinked ==
    ASSUME Linked, SentInBounds, Quiet, Send
    PROVE  Linked' /\ SentInBounds' /\ net' = net
  <1>1. net' = net
    BY DEF Quiet, Send
  <1> QED BY <1>1 DEF Quiet, Linked, SentInBounds, Sent, Wire, WireCodes

\* A request that is sent is the only one.
LEMMA SendLinked ==
    ASSUME GP!TypeInv, Linked, NEW op, NEW job, SendsOne(op, job), Send
    PROVE  /\ Linked' /\ SentInBounds'
           /\ tx'.rid # 0 /\ tx'.op = op /\ tx'.job = job /\ tx'.inst = win.inst
           /\ \E rid : net' = {[rid |-> rid, op |-> op, job |-> job, session |-> win.inst,
                                code |-> "none"]}
  <1> DEFINE r == [rid |-> tx'.rid, op |-> op, job |-> job, mixed |-> FALSE]
             q == [rid |-> tx'.rid, op |-> op, job |-> job, session |-> win.inst, code |-> "none"]
  <1>1. inflight = {} /\ net = {}
    BY DEF Linked, SendsOne
  <1>2. job \in GP!Rid
    BY DEF SendsOne, GP!Rid
  <1>3. /\ tx'.rid \in GP!Rid /\ tx'.op = op /\ tx'.job = job /\ tx'.inst = win.inst
    BY <1>2, GameAssumed, GP!TransmitType DEF SendsOne, GP!TransmitType
  <1>4. inflight' = {r}
    <2>1. PICK rid : /\ tx' = [rid |-> rid, op |-> op, job |-> job, since |-> 0, inst |-> win.inst]
                     /\ inflight' = GP!Launched([rid |-> rid, op |-> op, job |-> job,
                                                 mixed |-> FALSE])
      BY DEF SendsOne, GP!Transmit
    <2> QED BY <1>1, <2>1 DEF GP!Launched
  <1>5. net' = {q}
    BY <1>1, <1>4 DEF Send
  <1>6. tx'.rid # 0
    BY <1>3 DEF GP!Rid
  <1>7. Linked'
    BY <1>3, <1>4, <1>5, <1>6 DEF Linked, Sent, Wire, WireCodes
  <1>8. SentInBounds'
    BY <1>3 DEF SentInBounds, SendsOne
  <1> QED BY <1>3, <1>5, <1>6, <1>7, <1>8

-----------------------------------------------------------------------------
(* What the player does                                                     *)

\* A click begins or ends something: it makes no reply and owes no ack, and
\* what the window shows or owes after it, it did before.
ClickMoves ==
    /\ Quiet \/ \E op \in {"TALK", "CANCEL"} : \E job : SendsOne(op, job)
    /\ GameInv'
    /\ win'.open /\ conv'.state = "READY" =>
          /\ win.open /\ win'.inst = win.inst /\ conv.state = "READY"
          /\ conv'.text = conv.text /\ conv'.job = conv.job
    /\ win'.open /\ owed'.ack # 0 =>
          win.open /\ win'.inst = win.inst /\ owed'.ack = owed.ack

\* The fields of the game's state.
LEMMA Fields ==
    ASSUME GP!TypeInv
    PROVE  /\ tx \in [rid : Nat, op : GP!Ops, job : Nat, since : Int, inst : Nat]
           /\ conv \in [state : {"IDLE", "SUBMITTING", "PENDING", "READY", "FAILED", "CANCELED"},
                        job : Nat, waited : Nat, new : BOOLEAN, text : Nat]
           /\ owed \in [cancel : Nat, ack : Nat]
           /\ win \in [open : BOOLEAN, inst : Nat, age : Nat, companion : BOOLEAN,
                       chosen : BOOLEAN]
           /\ conv.state # "IDLE" => conv.job # 0
  BY DEF GP!TypeInv, GP!TypeOK, GP!TxType, GP!ConvType, GP!OwedType, GP!WinType, GP!Terminal,
         GP!BegunHasJob

\* A new window has no conversation yet.
LEMMA OpenMoves == GameInv /\ GP!OpenWindow => ClickMoves
  <1> SUFFICES ASSUME GameInv, GP!OpenWindow PROVE ClickMoves
    OBVIOUS
  <1>1. GP!TypeInv' /\ GP!OwesInv'
    BY GameKeeps DEF GameInv, GP!Next
  <1>2. Quiet
    BY Fields DEF GP!OpenWindow, Quiet, GameInv
  <1>3. conv'.state = "IDLE" /\ owed'.ack = 0
    BY DEF GP!OpenWindow, GP!NoTalk, GP!NoneOwed
  <1>4. WindowInBounds'
    BY Fields, TalksAssumption
    DEF GP!OpenWindow, GP!NoTalk, GP!NoneOwed, GameInv, WindowInBounds
  <1> QED BY <1>1, <1>2, <1>3, <1>4 DEF ClickMoves, GameInv

\* Say begins a talk under a new number, and sends it.
LEMMA SayMoves == GameInv /\ Say => ClickMoves
  <1> SUFFICES ASSUME GameInv, Say PROVE ClickMoves
    OBVIOUS
  <1>1. /\ NewJob \in GP!Rid \ GP!JobsInUse /\ NewJob <= MaxTalks /\ NewJob \in 1 .. MaxTalks
    BY NewJobIsNew, TalksAssumption DEF GameInv, Say, GP!Rid
  <1>2. GP!SayJob(NewJob)
    BY SameGame DEF Say
  <1>3. GP!TypeInv' /\ GP!OwesInv'
    BY <1>1, <1>2, GameAssumed, GP!SayJobType, GP!OwesSay DEF GameInv, GP!SayJobType, GP!OwesSay
  <1>4. /\ tx.rid = 0 /\ win.open /\ win' = win /\ owed' = owed
        /\ GP!Transmit("TALK", NewJob)
        /\ conv' = [conv EXCEPT !.state = "SUBMITTING", !.job = NewJob, !.waited = 0]
    BY <1>2 DEF GP!SayJob, GP!TxSend
  <1>5. conv'.state = "SUBMITTING" /\ conv'.job = NewJob
    BY <1>4, Fields DEF GameInv
  <1>6. SendsOne("TALK", NewJob)
    BY <1>1, <1>4, Fields, TalksAssumption DEF SendsOne, GP!Ops, GameInv, WindowInBounds
  <1>7. WindowInBounds'
    BY <1>1, <1>4, <1>5 DEF GameInv, WindowInBounds
  <1> QED BY <1>3, <1>4, <1>5, <1>6, <1>7 DEF ClickMoves, GameInv

\* Closing sends a cancel, for what is not shown.
LEMMA CloseMoves == GameInv /\ GP!CloseWindow => ClickMoves
  <1> SUFFICES ASSUME GameInv, GP!CloseWindow PROVE ClickMoves
    OBVIOUS
  <1>1. GP!TypeInv' /\ GP!OwesInv'
    BY GameKeeps DEF GameInv, GP!Next
  <1>2. ~win'.open /\ win'.inst = win.inst /\ owed' = owed /\ win.open
    BY Fields DEF GP!CloseWindow, GameInv
  <1>3. conv'.job = conv.job
    BY Fields DEF GP!CloseWindow, GameInv
  <1>4. WindowInBounds'
    BY <1>2, <1>3 DEF GameInv, WindowInBounds
  <1>5. Quiet \/ SendsOne("CANCEL", conv.job)
    <2>1. CASE Quiet
      BY <2>1
    <2>2. CASE conv.job # 0 /\ tx.rid = 0 /\ GP!Transmit("CANCEL", conv.job)
      BY <1>2, <2>2, Fields, TalksAssumption DEF SendsOne, GP!Ops, GameInv, WindowInBounds
    <2> QED BY <2>1, <2>2 DEF GP!CloseWindow, GP!TxSend, Quiet
  <1> QED BY <1>1, <1>2, <1>4, <1>5 DEF ClickMoves, GameInv

\* The other clicks send nothing.
LEMMA QuietMoves == GameInv /\ (GP!ChooseMemory \/ GP!CancelTalk) => ClickMoves
  <1>1. ASSUME GameInv, GP!ChooseMemory PROVE ClickMoves
    <2>1. GP!TypeInv' /\ GP!OwesInv'
      BY <1>1, GameKeeps DEF GameInv, GP!Next
    <2>2. /\ Quiet /\ conv' = conv /\ owed' = owed
          /\ win'.open = win.open /\ win'.inst = win.inst
      BY <1>1, Fields DEF GP!ChooseMemory, Quiet, GameInv
    <2> QED BY <1>1, <2>1, <2>2 DEF ClickMoves, GameInv, WindowInBounds
  <1>2. ASSUME GameInv, GP!CancelTalk PROVE ClickMoves
    <2>1. GP!TypeInv' /\ GP!OwesInv'
      BY <1>2, GameKeeps DEF GameInv, GP!Next
    <2>2. /\ Quiet /\ win' = win /\ conv'.state = "CANCELED" /\ conv'.job = conv.job
          /\ owed'.cancel = conv.job /\ owed'.ack = owed.ack
      BY <1>2, Fields DEF GP!CancelTalk, Quiet, GameInv
    <2> QED BY <1>2, <2>1, <2>2 DEF ClickMoves, GameInv, WindowInBounds
  <1> QED BY <1>1, <1>2

\* So no click does more.
LEMMA Clicks == GameInv /\ Click => ClickMoves
  BY SameGame, OpenMoves, SayMoves, CloseMoves, QuietMoves DEF Click

-----------------------------------------------------------------------------
(* What the run trigger does                                                *)

\* It comes to owe an ack for what it displays, and sends what is owed.
FrameMoves ==
    /\ GameInv' /\ win.open /\ win'.open /\ win'.inst = win.inst /\ conv'.job = conv.job
    /\ conv'.state = "READY" => conv.state = "READY" /\ conv'.text = conv.text
    /\ \/ owed'.ack = owed.ack
       \/ conv.new /\ conv.state = "READY" /\ owed'.ack = conv.job
    /\ \/ Quiet
       \/ \E op \in {"CANCEL", "RESULT"} : \E job : SendsOne(op, job)
       \/ SendsOne("ACK", owed'.ack) /\ owed'.ack # 0

LEMMA Frames ==
    ASSUME GameInv, NEW passed \in {0, 1}, GP!Run(passed)
    PROVE  FrameMoves
  <1> DEFINE ack    == GP!OwedAck
             since  == GP!Least(tx.since + passed, PollMs)
             waited == GP!Waits(passed)
  <1>1. GP!TypeInv' /\ GP!OwesInv'
    BY GameKeeps DEF GameInv, GP!Next
  <1>2. win.open /\ win'.open /\ win'.inst = win.inst
    BY Fields DEF GP!Run, GameInv
  <1>3. /\ conv'.job = conv.job
        /\ conv'.state = "READY" => conv.state = "READY" /\ conv'.text = conv.text
        /\ GP!Sends(ack, since, waited)
    BY GameAssumed, GP!RunConv DEF GP!RunConv, GameInv
  <1>4. ack = owed.ack \/ (conv.new /\ conv.state = "READY" /\ ack = conv.job)
    BY DEF GP!OwedAck
  <1>5. ack \in Nat /\ ack <= MaxTalks
    BY <1>4, Fields DEF GameInv, WindowInBounds
  <1>6. win.inst \in 1 .. MaxOpens
    BY <1>2, Fields, TalksAssumption DEF GameInv, WindowInBounds
  <1> HIDE DEF ack, since, waited
  <1>7. ASSUME owed'.ack = ack, owed'.cancel <= MaxTalks,
               \/ Quiet
               \/ \E op \in {"CANCEL", "RESULT"} : \E job : SendsOne(op, job)
               \/ SendsOne("ACK", ack) /\ ack # 0
        PROVE  FrameMoves
    <2>1. WindowInBounds'
      BY <1>2, <1>3, <1>5, <1>7 DEF GameInv, WindowInBounds
    <2> QED BY <1>1, <1>2, <1>3, <1>4, <1>7, <2>1 DEF FrameMoves, GameInv
  <1>8. CASE GP!SendsCancel /\ GP!Transmit("CANCEL", owed.cancel)
             /\ owed' = [cancel |-> 0, ack |-> ack]
    <2>1. SendsOne("CANCEL", owed.cancel)
      BY <1>6, <1>8, Fields, TalksAssumption
      DEF SendsOne, GP!SendsCancel, GP!Ops, GameInv, WindowInBounds
    <2> QED BY <1>7, <1>8, <2>1, TalksAssumption
  <1>9. CASE GP!SendsAck(ack, since) /\ GP!Transmit("ACK", ack)
             /\ owed' = [owed EXCEPT !.ack = ack]
    <2>1. SendsOne("ACK", ack) /\ ack # 0
      BY <1>5, <1>6, <1>9, TalksAssumption DEF SendsOne, GP!SendsAck, GP!Ops
    <2>2. owed'.ack = ack /\ owed'.cancel = owed.cancel
      BY <1>9, Fields DEF GameInv
    <2> QED BY <1>7, <2>1, <2>2 DEF GameInv, WindowInBounds
  <1>10. CASE GP!SendsPoll(ack, since, waited) /\ GP!Transmit("RESULT", conv.job)
              /\ owed' = [owed EXCEPT !.ack = ack]
    <2>1. SendsOne("RESULT", conv.job)
      BY <1>6, <1>10, Fields, TalksAssumption
      DEF SendsOne, GP!SendsPoll, GP!Ops, GameInv, WindowInBounds
    <2>2. owed'.ack = ack /\ owed'.cancel = owed.cancel
      BY <1>10, Fields DEF GameInv
    <2> QED BY <1>7, <2>1, <2>2 DEF GameInv, WindowInBounds
  <1>11. CASE tx' = [tx EXCEPT !.since = since] /\ owed' = [owed EXCEPT !.ack = ack]
              /\ UNCHANGED inflight
    <2>1. Quiet /\ owed'.ack = ack /\ owed'.cancel = owed.cancel
      BY <1>11, Fields DEF GameInv, Quiet
    <2> QED BY <1>7, <2>1 DEF GameInv, WindowInBounds
  <1> QED BY <1>3, <1>8, <1>9, <1>10, <1>11 DEF GP!Sends

-----------------------------------------------------------------------------
(* What a callback does                                                     *)

\* It completes the request; the conversation takes a reply only to its own
\* talk, and what is owed is settled only by the answer to an ack.
CallbackMoves(q) ==
    /\ GameInv' /\ Linked' /\ SentInBounds' /\ net' = {}
    /\ win' = win /\ conv'.job = conv.job
    /\ \/ conv'.state = conv.state /\ conv'.text = conv.text
       \/ conv'.state # "READY"
       \/ /\ conv'.text = conv.job /\ q.code = "READY"
          /\ q.job = conv.job /\ q.session = win.inst
    /\ \/ owed'.ack = owed.ack
       \/ /\ owed'.ack = 0 /\ q.code = "READY" /\ q.op = "ACK"
          /\ q.job = owed.ack /\ q.session = win.inst

\* Only the answer that the server gave to the outstanding request arrives, or
\* none.
LEMMA Callbacks ==
    ASSUME PartsInv, NEW q \in net, Deliver(q) \/ Lose(q)
    PROVE  CallbackMoves(q)
  <1>1. PICK f : /\ Completes(q, f)
                 /\ \/ q.code \in GP!Codes
                       /\ f = [wf |-> TRUE, rid |-> q.rid, job |-> q.job, code |-> q.code]
                    \/ f = GP!NoAnswer
    BY DEF Deliver, Lose, Game!NoAnswer, GP!NoAnswer, Game!Codes, GP!Codes
  <1>2. /\ tx.rid # 0 /\ inflight = {Sent} /\ net = {q}
        /\ q.rid = tx.rid /\ q.op = tx.op /\ q.job = tx.job /\ q.session = tx.inst
    BY DEF PartsInv, Linked, Wire
  <1>3. GP!Receive(Sent, f)
    BY <1>1, <1>2, SameGame DEF Completes
  <1>4. f \in GP!Frames(Sent)
    <2>1. Sent.rid = q.rid /\ Sent.job = q.job
      BY <1>2 DEF Sent
    <2>2. CASE f = GP!NoAnswer
      BY <2>2 DEF GP!Frames
    <2>3. CASE q.code \in GP!Codes
               /\ f = [wf |-> TRUE, rid |-> q.rid, job |-> q.job, code |-> q.code]
      BY <2>1, <2>3 DEF GP!Frames, GP!Answers
    <2> QED BY <1>1, <2>2, <2>3
  <1>5. GP!TypeInv' /\ GP!OwesInv'
    <2>1. GP!Callback(Sent)
      BY <1>3, <1>4 DEF GP!Callback
    <2> QED BY <1>2, <2>1, GameKeeps DEF GP!Next, PartsInv, GameInv
  <1>6. ~GP!Stray(f)
    BY <1>1, <1>2 DEF GP!Stray, GP!NoAnswer
  <1>7. /\ inflight' = {} /\ win' = win /\ tx' = GP!Idle(tx) /\ net' = {}
    BY <1>1, <1>2, <1>3, <1>6
    DEF Completes, GP!Receive, GP!DropIdle, GP!DropStray, GP!Complete, GP!Fail
  <1>8. tx'.rid = 0
    BY <1>7 DEF GP!Idle, GP!NoRequest
  <1>9. CASE GP!Complete(f)
    <2>1. f.rid = q.rid /\ f.job = q.job /\ f.code = q.code
      BY <1>1, <1>9 DEF GP!Complete, GP!Ours, GP!NoAnswer
    <2>2. /\ conv'.job = conv.job
          /\ \/ conv' = conv
             \/ conv'.state # "READY"
             \/ /\ conv'.text = f.job /\ f.code = "READY"
                /\ tx.job = conv.job /\ tx.inst = win.inst
      BY <1>9, Fields
      DEF PartsInv, GameInv, GP!Complete, GP!Taken, GP!ForConversation, GP!Waiting
    <2>3. \/ owed' = owed
          \/ /\ owed'.ack = 0 /\ owed'.cancel = owed.cancel
             /\ f.code = "READY" /\ tx.op = "ACK" /\ win.open /\ tx.inst = win.inst
      BY <1>9, Fields DEF PartsInv, GameInv, GP!Complete, GP!Acknowledged
    <2>4. win.open /\ tx.inst = win.inst /\ tx.op = "ACK" => owed.ack = tx.job
      BY <1>2 DEF PartsInv, GameInv, GP!OwesInv, GP!Owes
    <2>5. WindowInBounds'
      BY <1>7, <2>2, <2>3, TalksAssumption DEF PartsInv, GameInv, WindowInBounds
    <2> QED BY <1>2, <1>5, <1>7, <1>8, <2>1, <2>2, <2>3, <2>4, <2>5
            DEF CallbackMoves, GameInv, Linked, SentInBounds
  <1>10. CASE GP!Fail(f)
    <2>1. /\ owed' = owed /\ conv'.job = conv.job
          /\ conv' = conv \/ conv'.state = "FAILED"
      BY <1>10, Fields DEF PartsInv, GameInv, GP!Fail
    <2>2. WindowInBounds'
      BY <1>7, <2>1 DEF PartsInv, GameInv, WindowInBounds
    <2> QED BY <1>5, <1>7, <1>8, <2>1, <2>2 DEF CallbackMoves, GameInv, Linked, SentInBounds
  <1> QED BY <1>2, <1>3, <1>6, <1>9, <1>10 DEF GP!Receive, GP!DropIdle, GP!DropStray

-----------------------------------------------------------------------------
(* What the server does                                                     *)

\* A step that has to do with no exchange in particular, or begins one.
Passive == \/ MP!Answer \/ MP!CollectFails \/ MP!Restart
           \/ \E k \in MP!Key : MP!TalkRequest(k, Spoken)
           \/ \E w \in MP!Worker : MP!StoreSettles(w) \/ MP!StoreDrops(w)

\* It takes nothing away that can be shown, and commits nothing.
LEMMA PassiveKeeps ==
    ASSUME MP!TypeInv, Passive
    PROVE  MP!TypeInv' /\ \A k \in MP!Key : MP!Kept(k)
  <1>1. MP!Next
    BY DEF Passive, MP!Next
  <1>2. MP!TypeInv'
    BY <1>1, ServerAssumed, MP!TypeInvStep DEF MP!TypeInvStep
  <1>3. ASSUME NEW k \in MP!Key PROVE MP!Kept(k)
    BY ServerAssumed, MP!KeptByOthers DEF MP!KeptByOthers, Passive
  <1> QED BY <1>2, <1>3

\* A cancel or an ack does nothing to another exchange.
LEMMA OthersKeep ==
    ASSUME MP!TypeInv, NEW j \in MP!Key, MP!Cancel(j) \/ MP!Ack(j)
    PROVE  /\ MP!TypeInv'
           /\ \A k \in MP!Key : k # j => MP!Kept(k)
           /\ MP!Cancel(j) => MP!StateOf(j)' = "canceled"
           /\ MP!Ack(j) => MP!StateOf(j)' = "committed"
  <1>1. MP!Next
    BY DEF MP!Next
  <1>2. MP!TypeInv'
    BY <1>1, ServerAssumed, MP!TypeInvStep DEF MP!TypeInvStep
  <1>3. ASSUME NEW k \in MP!Key, k # j PROVE MP!Kept(k)
    BY <1>3, ServerAssumed, MP!KeptByOthers DEF MP!KeptByOthers
  <1> QED BY <1>2, <1>3, ServerAssumed, MP!CanceledOrCommitted DEF MP!CanceledOrCommitted

\* The request that is on its way has the key of an attempt.
LEMMA KeyIsKey ==
    ASSUME PartsInv, NEW q \in net
    PROVE  /\ tx.rid # 0 /\ net = {q} /\ q \in {Wire(code) : code \in WireCodes}
           /\ q.op = tx.op /\ q.job = tx.job /\ q.session = tx.inst
           /\ KeyIn(q) \in MP!Key
  <1>1. /\ tx.rid # 0 /\ net = {q} /\ q \in {Wire(code) : code \in WireCodes}
        /\ q.op = tx.op /\ q.job = tx.job /\ q.session = tx.inst
    BY DEF PartsInv, Linked, Wire
  <1>2. tx.job \in 1 .. MaxTalks /\ tx.inst \in 1 .. MaxOpens
    BY <1>1 DEF PartsInv, SentInBounds
  <1> QED BY <1>1, <1>2 DEF KeyIn, KeyOf, MP!Key

\* A step of the server keeps every exchange, unless a request is for it; the
\* request gets the code of what the server knows now.
ServerMoves ==
    /\ UNCHANGED <<gameVars, shown>> /\ MP!TypeInv'
    /\ \A k \in MP!Key :
          \/ MP!Kept(k)
          \/ \E q \in net : /\ k = KeyIn(q)
                            /\ \/ q.op = "CANCEL" /\ MP!StateOf(k)' = "canceled"
                               \/ q.op = "ACK" /\ MP!StateOf(k)' = "committed"
    /\ Linked' /\ WireInv'

\* The request with another code is still the same.
LEMMA RecodedLinked ==
    ASSUME PartsInv, WireInv, NEW q \in net, NEW code \in WireCodes, Replied(q, code),
           UNCHANGED <<gameVars, shown>>,
           code = "READY" => /\ MP!StateOf(KeyIn(q))' \in {"ready", "committed"}
                             /\ q.op = "ACK" => MP!StateOf(KeyIn(q))' = "committed"
    PROVE  Linked' /\ WireInv'
  <1> DEFINE p == [q EXCEPT !.code = code]
  <1>1. /\ tx.rid # 0 /\ net = {q} /\ q \in {Wire(c) : c \in WireCodes}
    BY KeyIsKey
  <1>2. p = Wire(code) /\ p.op = q.op /\ p.code = code /\ KeyIn(p) = KeyIn(q)
    BY <1>1 DEF Wire, KeyIn
  <1>3. net' = {p}
    BY <1>1 DEF Replied
  <1> HIDE DEF p
  <1>4. tx' = tx /\ inflight' = inflight /\ shown' = shown
    BY DEF gameVars
  <1>5. Linked'
    BY <1>1, <1>2, <1>3, <1>4 DEF PartsInv, Linked, Sent, Wire, WireCodes
  <1>6. q.op = "ACK" => KeyIn(q) \in shown'
    BY <1>4 DEF WireInv
  <1>7. Mem!StateOf(KeyIn(q))' = MP!StateOf(KeyIn(q))'
    BY DEF Mem!StateOf, MP!StateOf
  <1>8. WireInv'
    BY <1>2, <1>3, <1>6, <1>7 DEF WireInv, Known
  <1> QED BY <1>5, <1>8

\* A row that is answered with READY can be shown.
LEMMA CodeTells ==
    ASSUME NEW row
    PROVE  /\ CodeOf(row) \in GP!Codes
           /\ CodeOf(row) = "READY" => row # None /\ row.state \in {"ready", "committed"}
  <1>1. CASE row = None
    BY <1>1 DEF CodeOf, GP!Codes
  <1>2. CASE row # None /\ row.state \in {"ready", "committed"}
    BY <1>2 DEF CodeOf, GP!Codes
  <1>3. CASE row # None /\ row.state \notin {"ready", "committed"}
    BY <1>3 DEF CodeOf, GP!Codes
  <1> QED BY <1>1, <1>2, <1>3

\* What a request is answered is what its step has recorded.
LEMMA ServeMoves == ASSUME PartsInv, WireInv, NEW q \in net, Serve(q) PROVE ServerMoves
  <1> DEFINE k == KeyIn(q)
  <1>1. k \in MP!Key
    BY KeyIsKey
  <1>2. MP!TypeInv /\ UNCHANGED <<gameVars, shown>>
    BY DEF PartsInv, Serve
  <1>3. /\ CodeOf(attempts'[k]) \in WireCodes
        /\ CodeOf(attempts'[k]) = "READY" => MP!StateOf(k)' \in {"ready", "committed"}
    BY CodeTells DEF WireCodes, MP!StateOf
  <1>4. Replied(q, CodeOf(attempts'[k]))
    BY DEF Serve
  <1> HIDE DEF k
  <1>5. \/ Passive /\ q.op # "ACK"
        \/ q.op = "CANCEL" /\ MP!Cancel(k)
        \/ q.op = "ACK" /\ MP!Ack(k)
        \/ q.op = "ACK" /\ StateNow(k) # "ready" /\ MP!Answer
    <2>1. Effect(q)
      BY DEF Serve
    <2>2. ASSUME Mem!Admit(k, Spoken) \/ Mem!AdmitRefused(k, Spoken) PROVE Passive
      BY <1>1, <2>2, SameServer DEF Passive, MP!TalkRequest
    <2>3. Mem!Answer => MP!Answer /\ Passive
      BY SameServer DEF Passive
    <2>4. (Mem!Cancel(k) => MP!Cancel(k)) /\ (Mem!Ack(k) => MP!Ack(k))
      BY SameServer
    <2> QED BY <2>1, <2>2, <2>3, <2>4 DEF Effect, k
  <1>6. ASSUME MP!TypeInv',
               \A j \in MP!Key :
                  \/ MP!Kept(j)
                  \/ j = k /\ \/ q.op = "CANCEL" /\ MP!StateOf(j)' = "canceled"
                              \/ q.op = "ACK" /\ MP!StateOf(j)' = "committed",
               CodeOf(attempts'[k]) = "READY" /\ q.op = "ACK" => MP!StateOf(k)' = "committed"
        PROVE  ServerMoves
    <2>1. Linked' /\ WireInv'
      BY <1>2, <1>3, <1>4, <1>6, RecodedLinked DEF k
    <2> QED BY <1>2, <1>6, <2>1 DEF ServerMoves, k
  <1>7. CASE Passive /\ q.op # "ACK"
    BY <1>2, <1>6, <1>7, PassiveKeeps
  <1>8. CASE q.op = "CANCEL" /\ MP!Cancel(k)
    BY <1>1, <1>2, <1>6, <1>8, OthersKeep
  <1>9. CASE q.op = "ACK" /\ MP!Ack(k)
    BY <1>1, <1>2, <1>6, <1>9, OthersKeep
  <1>10. CASE q.op = "ACK" /\ StateNow(k) # "ready" /\ MP!Answer
    <2>1. MP!TypeInv' /\ \A j \in MP!Key : MP!Kept(j)
      BY <1>2, <1>10, PassiveKeeps DEF Passive
    <2>2. MP!StateOf(k)' = IF attempts[k] = None THEN "none"
                           ELSE MP!Collected(MP!Finished)[k].state
      BY <1>1, <1>2, <1>10, ServerAssumed, MP!AnswerTells DEF MP!AnswerTells
    <2>3. MP!StateOf(k)' # "ready"
      BY <1>10, <2>2, SameServer DEF StateNow
    <2> QED BY <1>3, <1>6, <2>1, <2>3
  <1> QED BY <1>5, <1>7, <1>8, <1>9, <1>10

\* A request whose statement fails has recorded some results, at most.
LEMMA ServeFailsMoves == ASSUME PartsInv, WireInv, NEW q \in net, ServeFails(q) PROVE ServerMoves
  <1>1. KeyIn(q) \in MP!Key
    BY KeyIsKey
  <1>2. MP!TypeInv /\ UNCHANGED <<gameVars, shown>> /\ Replied(q, "OTHER")
    BY DEF PartsInv, ServeFails
  <1>3. Passive
    BY <1>1, SameServer DEF ServeFails, Passive, MP!TalkRequest
  <1>4. MP!TypeInv' /\ \A j \in MP!Key : MP!Kept(j)
    BY <1>2, <1>3, PassiveKeeps
  <1>5. "OTHER" \in WireCodes
    BY DEF WireCodes, GP!Codes
  <1>6. Linked' /\ WireInv'
    BY <1>2, <1>5, RecodedLinked
  <1> QED BY <1>2, <1>4, <1>6 DEF ServerMoves

\* The worker takes no answer back.
LEMMA WorkMoves == PartsInv /\ WireInv /\ Work => ServerMoves
  <1> SUFFICES ASSUME PartsInv, WireInv, Work PROVE ServerMoves
    OBVIOUS
  <1>1. Passive
    BY SameServer DEF Work, Passive
  <1>2. MP!TypeInv' /\ \A k \in MP!Key : MP!Kept(k)
    BY <1>1, PassiveKeeps DEF PartsInv
  <1>3. net' = net /\ UNCHANGED <<gameVars, shown>>
    BY DEF Work
  <1>4. tx' = tx /\ inflight' = inflight /\ shown' = shown
    BY <1>3 DEF gameVars
  <1>5. Linked'
    BY <1>3, <1>4 DEF PartsInv, Linked, Sent, Wire, WireCodes
  <1>6. WireInv'
    <2> SUFFICES ASSUME NEW q \in net
                 PROVE  /\ q.op = "ACK" => KeyIn(q) \in shown
                        /\ q.code = "READY" => MP!StateOf(KeyIn(q))' \in {"ready", "committed"}
                        /\ q.code = "READY" /\ q.op = "ACK"
                              => MP!StateOf(KeyIn(q))' = "committed"
      BY <1>3, <1>4 DEF WireInv, Known, KeyIn, Mem!StateOf, MP!StateOf
    <2>1. KeyIn(q) \in MP!Key
      BY KeyIsKey
    <2>2. MP!Kept(KeyIn(q))
      BY <1>2, <2>1
    <2>3. Mem!StateOf(KeyIn(q)) = MP!StateOf(KeyIn(q))
      BY SameServer
    <2> HIDE DEF WireInv
    <2> QED BY <2>2, <2>3 DEF WireInv, Known, MP!Kept
  <1> QED BY <1>2, <1>3, <1>5, <1>6 DEF ServerMoves

\* Nor does a restart, which leaves no answer.
LEMMA RestartMoves == PartsInv /\ WireInv /\ Restart => ServerMoves
  <1> SUFFICES ASSUME PartsInv, WireInv, Restart PROVE ServerMoves
    OBVIOUS
  <1>1. Passive
    BY SameServer DEF Restart, Passive
  <1>2. MP!TypeInv' /\ \A k \in MP!Key : MP!Kept(k)
    BY <1>1, PassiveKeeps DEF PartsInv
  <1>3. net' = {[q EXCEPT !.code = "dead"] : q \in net} /\ UNCHANGED <<gameVars, shown>>
    BY DEF Restart
  <1>4. tx' = tx /\ inflight' = inflight /\ shown' = shown
    BY <1>3 DEF gameVars
  <1>5. ASSUME NEW q \in net
        PROVE  [q EXCEPT !.code = "dead"] = Wire("dead")
    BY KeyIsKey DEF Wire
  <1>6. Linked'
    <2>1. CASE net = {}
      BY <1>3, <1>4, <2>1 DEF PartsInv, Linked, Sent
    <2>2. CASE net # {}
      <3>1. tx.rid # 0 /\ net' = {Wire("dead")}
        BY <1>3, <1>5, <2>2, KeyIsKey
      <3> QED BY <1>4, <3>1 DEF PartsInv, Linked, Sent, Wire, WireCodes
    <2> QED BY <2>1, <2>2
  <1>7. WireInv'
    <2>1. ASSUME NEW p \in net'
          PROVE  p.code = "dead" /\ (p.op = "ACK" => KeyIn(p) \in shown)
      <3>1. PICK q \in net : p = [q EXCEPT !.code = "dead"]
        BY <1>3
      <3>2. p.code = "dead" /\ p.op = q.op /\ KeyIn(p) = KeyIn(q)
        BY <3>1, KeyIsKey DEF Wire, KeyIn
      <3> QED BY <3>2 DEF WireInv
    <2> QED BY <1>4, <2>1 DEF WireInv, KeyIn
  <1> QED BY <1>2, <1>3, <1>6, <1>7 DEF ServerMoves

-----------------------------------------------------------------------------
(* The invariant holds                                                      *)

\* A step of the game leaves the server as it is.
LEMMA ServerStays ==
    ASSUME MP!TypeInv, UNCHANGED serverVars
    PROVE  /\ MP!TypeInv'
           /\ \A k : Mem!StateOf(k)' = Mem!StateOf(k)
           /\ \A k : Known(k) => Known(k)'
  <1>1. UNCHANGED MP!vars
    BY DEF serverVars, MP!vars
  <1>2. MP!TypeInv'
    BY <1>1, ServerAssumed, MP!TypeInvStep DEF MP!TypeInvStep
  <1>3. ASSUME NEW k PROVE Mem!StateOf(k)' = Mem!StateOf(k)
    BY DEF serverVars, Mem!StateOf
  <1> QED BY <1>2, <1>3 DEF Known

\* So it keeps the invariant if what it sends, shows and owes is in order.
LEMMA GameStep ==
    ASSUME ConvInv, UNCHANGED serverVars, shown \subseteq shown',
           GameInv', Linked', SentInBounds',
           \/ net' \subseteq net
           \/ \E rid, op, job :
                 /\ net' = {[rid |-> rid, op |-> op, job |-> job, session |-> win.inst,
                             code |-> "none"]}
                 /\ op = "ACK" => KeyOf(win.inst, job) \in shown',
           win'.open /\ conv'.state = "READY" =>
                 conv'.text = conv'.job /\ Known(KeyOf(win'.inst, conv'.job)),
           win'.open /\ owed'.ack # 0 => KeyOf(win'.inst, owed'.ack) \in shown'
    PROVE  ConvInv'
  <1>1. /\ MP!TypeInv'
        /\ \A k : Mem!StateOf(k)' = Mem!StateOf(k)
        /\ \A k : Known(k) => Known(k)'
    BY ServerStays DEF ConvInv, PartsInv
  <1>2. PartsInv'
    BY <1>1 DEF PartsInv
  <1>3. ReplyStands'
    BY <1>1 DEF ReplyStands, KeyOf
  <1>4. OwedIsShown'
    BY DEF OwedIsShown, KeyOf
  <1>5. WireInv'
    <2> SUFFICES ASSUME NEW q \in net'
                 PROVE  /\ q.op = "ACK" => KeyIn(q) \in shown'
                        /\ q.code = "READY" => Known(KeyIn(q))'
                        /\ q.code = "READY" /\ q.op = "ACK"
                              => Mem!StateOf(KeyIn(q))' = "committed"
      BY DEF WireInv, KeyIn
    <2>1. CASE q \in net
      BY <1>1, <2>1 DEF ConvInv, WireInv
    <2>2. CASE \E rid, op, job :
                 /\ q = [rid |-> rid, op |-> op, job |-> job, session |-> win.inst,
                         code |-> "none"]
                 /\ op = "ACK" => KeyOf(win.inst, job) \in shown'
      BY <2>2 DEF KeyIn
    <2> QED BY <2>1, <2>2
  <1>6. OnlyTheShownIsRemembered'
    BY <1>1 DEF ConvInv, OnlyTheShownIsRemembered, Mem!Key
  <1> QED BY <1>2, <1>3, <1>4, <1>5, <1>6 DEF ConvInv

\* A click shows nothing and owes nothing that was not there before.
LEMMA ClickStep == ConvInv /\ Click => ConvInv'
  <1> SUFFICES ASSUME ConvInv, Click PROVE ConvInv'
    OBVIOUS
  <1>1. ClickMoves /\ Send /\ UNCHANGED <<serverVars, shown>>
    BY Clicks DEF Click, ConvInv, PartsInv
  <1>2. /\ GameInv' /\ shown' = shown
        /\ win'.open /\ conv'.state = "READY" =>
              conv'.text = conv'.job /\ Known(KeyOf(win'.inst, conv'.job))
        /\ win'.open /\ owed'.ack # 0 => KeyOf(win'.inst, owed'.ack) \in shown'
    BY <1>1 DEF ClickMoves, ConvInv, ReplyStands, OwedIsShown
  <1>3. CASE Quiet
    <2>1. Linked' /\ SentInBounds' /\ net' = net
      BY <1>1, <1>3, QuietLinked DEF ConvInv, PartsInv
    <2> QED BY <1>1, <1>2, <2>1, GameStep
  <1>4. ASSUME NEW op \in {"TALK", "CANCEL"}, NEW job, SendsOne(op, job) PROVE ConvInv'
    <2>1. /\ Linked' /\ SentInBounds'
          /\ \E rid : net' = {[rid |-> rid, op |-> op, job |-> job, session |-> win.inst,
                               code |-> "none"]}
      BY <1>1, <1>4, SendLinked DEF ConvInv, PartsInv, GameInv
    <2> QED BY <1>1, <1>2, <1>4, <2>1, GameStep
  <1> QED BY <1>1, <1>3, <1>4 DEF ClickMoves

\* The run trigger owes an ack only for the reply that it displays.
LEMMA FrameStep == ASSUME ConvInv, NEW passed \in {0, 1}, Frame(passed) PROVE ConvInv'
  <1>1. FrameMoves /\ Send /\ UNCHANGED serverVars
    BY SameGame, Frames DEF Frame, ConvInv, PartsInv
  <1>2. /\ GameInv' /\ shown \subseteq shown'
        /\ win'.open /\ conv'.state = "READY" =>
              conv'.text = conv'.job /\ Known(KeyOf(win'.inst, conv'.job))
    BY <1>1 DEF FrameMoves, Frame, ConvInv, ReplyStands
  <1>3. owed'.ack # 0 => KeyOf(win.inst, owed'.ack) \in shown'
    <2>1. CASE owed'.ack = owed.ack
      BY <1>1, <1>2, <2>1 DEF FrameMoves, ConvInv, OwedIsShown
    <2>2. CASE conv.new /\ conv.state = "READY" /\ owed'.ack = conv.job
      BY <1>1, <2>2 DEF FrameMoves, Frame, ConvInv, ReplyStands
    <2> QED BY <1>1, <2>1, <2>2 DEF FrameMoves
  <1>4. win'.open /\ owed'.ack # 0 => KeyOf(win'.inst, owed'.ack) \in shown'
    BY <1>1, <1>3 DEF FrameMoves
  <1>5. CASE Quiet
    <2>1. Linked' /\ SentInBounds' /\ net' = net
      BY <1>1, <1>5, QuietLinked DEF ConvInv, PartsInv
    <2> QED BY <1>1, <1>2, <1>4, <2>1, GameStep
  <1>6. ASSUME NEW op, NEW job, SendsOne(op, job), op = "ACK" => job = owed'.ack /\ job # 0
        PROVE  ConvInv'
    <2>1. /\ Linked' /\ SentInBounds'
          /\ \E rid : net' = {[rid |-> rid, op |-> op, job |-> job, session |-> win.inst,
                               code |-> "none"]}
      BY <1>1, <1>6, SendLinked DEF ConvInv, PartsInv, GameInv
    <2> QED BY <1>1, <1>2, <1>3, <1>4, <1>6, <2>1, GameStep
  <1> QED BY <1>1, <1>5, <1>6 DEF FrameMoves

\* A callback brings a reply that the server has.
LEMMA CallbackStep == ASSUME ConvInv, NEW q \in net, Deliver(q) \/ Lose(q) PROVE ConvInv'
  <1>1. CallbackMoves(q) /\ UNCHANGED <<serverVars, shown>>
    BY Callbacks DEF ConvInv, Deliver, Lose, Completes
  <1>2. q.code = "READY" => Known(KeyOf(q.session, q.job))
    BY DEF ConvInv, WireInv, KeyIn
  <1>3. win'.open /\ conv'.state = "READY" =>
           conv'.text = conv'.job /\ Known(KeyOf(win'.inst, conv'.job))
    BY <1>1, <1>2 DEF CallbackMoves, ConvInv, ReplyStands
  <1>4. win'.open /\ owed'.ack # 0 => KeyOf(win'.inst, owed'.ack) \in shown'
    BY <1>1 DEF CallbackMoves, ConvInv, OwedIsShown
  <1> QED BY <1>1, <1>3, <1>4, GameStep DEF CallbackMoves

\* The server takes away nothing that is shown, and commits only what was.
LEMMA ServerStep == ConvInv /\ ServerMoves => ConvInv'
  <1> SUFFICES ASSUME ConvInv, ServerMoves PROVE ConvInv'
    OBVIOUS
  <1>1. /\ conv' = conv /\ owed' = owed /\ win' = win /\ tx' = tx /\ shown' = shown
        /\ MP!TypeInv' /\ Linked' /\ WireInv'
    BY DEF ServerMoves, gameVars
  <1>2. GameInv' /\ SentInBounds'
    <2>1. UNCHANGED GP!vars
      BY DEF ServerMoves, gameVars, GP!vars
    <2>2. GP!TypeInv' /\ GP!OwesInv'
      BY <2>1, GameKeeps DEF ConvInv, PartsInv, GameInv
    <2> QED BY <1>1, <2>2 DEF ConvInv, PartsInv, GameInv, WindowInBounds, SentInBounds
  <1>3. PartsInv'
    BY <1>1, <1>2 DEF PartsInv
  <1>4. OwedIsShown'
    BY <1>1 DEF ConvInv, OwedIsShown, KeyOf
  <1>5. ASSUME NEW k \in MP!Key
        PROVE  \/ MP!Kept(k)
               \/ \E q \in net : /\ k = KeyIn(q)
                                 /\ \/ q.op = "CANCEL" /\ MP!StateOf(k)' = "canceled"
                                    \/ q.op = "ACK" /\ MP!StateOf(k)' = "committed"
    BY DEF ServerMoves
  <1>6. \A k : Mem!StateOf(k) = MP!StateOf(k)
    BY SameServer
  <1>7. \A k : Mem!StateOf(k)' = MP!StateOf(k)'
    BY DEF Mem!StateOf, MP!StateOf
  <1>8. ReplyStands'
    <2> SUFFICES ASSUME win.open, conv.state = "READY",
                        NEW k \in MP!Key, k = KeyOf(win.inst, conv.job)
                 PROVE  conv.text = conv.job /\ Mem!StateOf(k)' \in {"ready", "committed"}
      <3>1. win.open /\ conv.state = "READY" => KeyOf(win.inst, conv.job) \in MP!Key
        BY Fields, TalksAssumption
        DEF ConvInv, PartsInv, GameInv, WindowInBounds, KeyOf, MP!Key
      <3> QED BY <1>1, <3>1 DEF ReplyStands, Known, KeyOf, Mem!StateOf
    <2>1. conv.text = conv.job /\ Mem!StateOf(k) \in {"ready", "committed"}
      BY DEF ConvInv, ReplyStands, Known
    <2>2. ASSUME NEW q \in net, q.op = "CANCEL" PROVE k # KeyIn(q)
      <3>1. /\ tx.rid # 0 /\ tx.op = "CANCEL" /\ q.job = tx.job /\ q.session = tx.inst
        BY <2>2, KeyIsKey DEF ConvInv
      <3>2. tx.inst = win.inst => tx.job # conv.job
        BY <3>1 DEF ConvInv, PartsInv, GameInv, GP!OwesInv, GP!Owes, GP!Current
      <3> QED BY <3>1, <3>2 DEF KeyOf, KeyIn
    <2>3. MP!Kept(k) \/ MP!StateOf(k)' = "committed"
      BY <1>5, <2>2
    <2> QED BY <1>6, <1>7, <2>1, <2>3 DEF MP!Kept
  <1>9. OnlyTheShownIsRemembered'
    <2> SUFFICES ASSUME NEW k \in MP!Key, MP!StateOf(k)' = "committed" PROVE k \in shown
      BY <1>1, <1>7, SameServer DEF OnlyTheShownIsRemembered, Mem!Key
    <2>1. CASE MP!Kept(k)
      <3>1. Mem!StateOf(k) = "committed"
        BY <1>6, <2>1 DEF MP!Kept
      <3> QED BY <3>1, SameServer DEF ConvInv, OnlyTheShownIsRemembered
    <2>2. CASE \E q \in net : k = KeyIn(q) /\ q.op = "ACK"
      BY <2>2 DEF ConvInv, WireInv
    <2> QED BY <1>5, <2>1, <2>2
  <1> QED BY <1>1, <1>3, <1>4, <1>8, <1>9 DEF ConvInv

\* Every step keeps the invariant.
LEMMA ConvStep == ConvInv /\ [Next]_vars => ConvInv'
  <1> SUFFICES ASSUME ConvInv, [Next]_vars PROVE ConvInv'
    OBVIOUS
  <1>0. PartsInv /\ WireInv
    BY DEF ConvInv
  <1>1. CASE Click
    BY <1>1, ClickStep
  <1>2. CASE \E passed \in {0, 1} : Frame(passed)
    BY <1>2, FrameStep
  <1>3. CASE \E q \in net : Deliver(q) \/ Lose(q)
    BY <1>3, CallbackStep
  <1>4. CASE \E q \in net : Serve(q) \/ ServeFails(q)
    BY <1>0, <1>4, ServeMoves, ServeFailsMoves, ServerStep
  <1>5. CASE Work \/ Restart
    BY <1>0, <1>5, WorkMoves, RestartMoves, ServerStep
  <1>6. CASE UNCHANGED vars
    <2>1. /\ UNCHANGED <<gameVars, shown>> /\ UNCHANGED serverVars /\ net' = net
          /\ conv' = conv /\ owed' = owed /\ win' = win /\ tx' = tx
          /\ inflight' = inflight /\ shown' = shown
      BY <1>6 DEF vars, gameVars
    <2>2. Quiet /\ Linked' /\ SentInBounds'
      BY <1>0, <2>1 DEF Quiet, PartsInv, Linked, SentInBounds, Sent, Wire, WireCodes
    <2>3. GameInv'
      <3>1. UNCHANGED GP!vars
        BY <2>1 DEF gameVars, GP!vars
      <3>2. GP!TypeInv' /\ GP!OwesInv'
        BY <1>0, <3>1, GameKeeps DEF PartsInv, GameInv
      <3> QED BY <1>0, <2>1, <3>2 DEF PartsInv, GameInv, WindowInBounds
    <2>4. /\ win'.open /\ conv'.state = "READY" =>
                conv'.text = conv'.job /\ Known(KeyOf(win'.inst, conv'.job))
          /\ win'.open /\ owed'.ack # 0 => KeyOf(win'.inst, owed'.ack) \in shown'
      BY <2>1 DEF ConvInv, ReplyStands, OwedIsShown
    <2> QED BY <2>1, <2>2, <2>3, <2>4, GameStep
  <1> QED BY <1>1, <1>2, <1>3, <1>4, <1>5, <1>6 DEF Next

\* It holds at the start.
LEMMA ConvInit == Init => ConvInv
  <1> SUFFICES ASSUME Init PROVE ConvInv
    OBVIOUS
  <1>1. GP!Init /\ MP!Init /\ net = {} /\ shown = {}
    BY SameGame, SameServer DEF Init
  <1>2. GP!TypeInv /\ MP!TypeInv
    BY <1>1, GameAssumed, ServerAssumed, GP!InitTypeInv, MP!InitTypeInv
    DEF GP!InitTypeInv, MP!InitTypeInv
  <1>3. /\ tx.rid = 0 /\ inflight = {} /\ conv.job = 0 /\ conv.state = "IDLE"
        /\ owed.ack = 0 /\ owed.cancel = 0 /\ ~win.open /\ win.inst = 0 /\ saved.tx.rid = 0
    BY <1>1 DEF GP!Init, GP!NoRequest, GP!NoTalk, GP!NoneOwed, GP!NoWindow
  <1>4. GP!OwesInv
    BY <1>3 DEF GP!OwesInv, GP!SentBefore, GP!Owes
  <1>5. PartsInv
    BY <1>1, <1>2, <1>3, <1>4, TalksAssumption
    DEF PartsInv, GameInv, WindowInBounds, SentInBounds, Linked
  <1>6. ReplyStands /\ OwedIsShown /\ WireInv
    BY <1>1, <1>3 DEF ReplyStands, OwedIsShown, WireInv
  <1>7. OnlyTheShownIsRemembered
    <2>1. \A k \in MP!Key : attempts[k] = None
      BY <1>1 DEF MP!Init
    <2> QED BY <2>1, SameServer DEF OnlyTheShownIsRemembered, Mem!StateOf
  <1> QED BY <1>5, <1>6, <1>7 DEF ConvInv

\* So it always holds.
LEMMA ConvInvHolds == Spec => []ConvInv
  BY ConvInit, ConvStep, PTL DEF Spec

\* As long as a window shows a reply the server has it, provisional or
\* committed, whatever restarts, expires, fails or arrives late.
THEOREM ShownStays == Spec => []ShownIsKept
  <1>1. ConvInv => ShownIsKept
    BY DEF ConvInv, ReplyStands, ShownIsKept
  <1> QED BY <1>1, ConvInvHolds, PTL

\* The history holds only exchanges whose reply the window has displayed.
THEOREM OnlyTheSeenIsHistory == Spec => []OnlyTheShownIsRemembered
  <1>1. ConvInv => OnlyTheShownIsRemembered
    BY DEF ConvInv
  <1> QED BY <1>1, ConvInvHolds, PTL

-----------------------------------------------------------------------------
(* An ack is forgotten only when the exchange is durable                    *)

\* What ConfirmedIsRemembered says of a step.
Confirmed == \A k \in Mem!Key :
    Here(k) /\ owed.ack = k.job /\ owed'.ack # k.job /\ win'.inst = win.inst
       => Mem!StateOf(k) = "committed"

\* Only the answer to the ack settles it, and the server has committed before
\* it answered.
LEMMA ConfirmedStep == ConvInv /\ [Next]_vars => Confirmed
  <1> SUFFICES ASSUME ConvInv, [Next]_vars, NEW k \in Mem!Key, win.open, k.session = win.inst,
                      owed.ack = k.job, owed'.ack # k.job, win'.inst = win.inst
               PROVE  Mem!StateOf(k) = "committed"
    BY DEF Confirmed, Here
  <1>0. GameInv /\ PartsInv /\ WireInv /\ win.inst \in Nat
    BY Fields DEF ConvInv, PartsInv, GameInv
  <1>1. k = KeyOf(win.inst, owed.ack) /\ k.job # 0
    BY DEF Mem!Key, KeyOf
  <1>2. CASE Click
    <2>1. GP!OpenWindow \/ owed'.ack = owed.ack
      BY <1>0, <1>2, SameGame, Fields
      DEF Click, Say, GameInv, GP!ChooseMemory, GP!SayJob, GP!CancelTalk, GP!CloseWindow
    <2>2. ~GP!OpenWindow
      BY DEF GP!OpenWindow
    <2> QED BY <2>1, <2>2
  <1>3. CASE \E passed \in {0, 1} : Frame(passed)
    <2>1. FrameMoves
      BY <1>0, <1>3, SameGame, Frames DEF Frame
    <2>2. owed.ack = conv.job
      BY <1>0, <1>1 DEF GameInv, GP!OwesInv, GP!Owes
    <2> QED BY <2>1, <2>2 DEF FrameMoves
  <1>4. ASSUME NEW q \in net, Deliver(q) \/ Lose(q) PROVE Mem!StateOf(k) = "committed"
    <2>1. CallbackMoves(q)
      BY <1>0, <1>4, Callbacks
    <2>2. /\ q.code = "READY" /\ q.op = "ACK" /\ q.job = owed.ack /\ q.session = win.inst
      BY <2>1 DEF CallbackMoves
    <2> QED BY <1>0, <1>1, <2>2 DEF WireInv, KeyIn
  <1>5. CASE \/ \E q \in net : Serve(q) \/ ServeFails(q)
             \/ Work \/ Restart \/ UNCHANGED vars
    <2>1. owed' = owed
      BY <1>5 DEF Serve, ServeFails, Work, Restart, vars, gameVars
    <2> QED BY <2>1
  <1> QED BY <1>2, <1>3, <1>4, <1>5 DEF Next

\* The window forgets an ack only when the exchange is in the history.
THEOREM NothingConfirmedIsLost == Spec => ConfirmedIsRemembered
  <1>1. ConvInv /\ [Next]_vars => [Confirmed]_vars
    BY ConfirmedStep
  <1> QED BY <1>1, ConvInvHolds, PTL DEF Spec, ConfirmedIsRemembered, Confirmed

===============================================================================
