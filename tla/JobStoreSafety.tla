---------------------------- MODULE JobStoreSafety ----------------------------
(***************************************************************************)
(* Proofs about JobStore, for every value of its constants: its types,     *)
(* that the store loses no job and runs none twice, that the pending jobs  *)
(* of an npc and scope are at most one, and its limits.  The invariants    *)
(* are about an Inner, so that each helper of the model can be shown to    *)
(* keep them by itself.                                                    *)
(***************************************************************************)
EXTENDS JobStore, FiniteSetTheorems, TLAPS

-----------------------------------------------------------------------------
(* Type correctness.  What a locked section works on is an Inner; each      *)
(* helper maps Inners to Inners.                                            *)

InnerType == [jobs : [Id -> Job \cup {None}], queue : SUBSET Entry,
              running : Running, kill : SUBSET Serial]

\* A job that is stored is a Job.
LEMMA StoredIsJob ==
    ASSUME NEW s \in InnerType, NEW j \in Id, s.jobs[j] # None
    PROVE  s.jobs[j] \in Job
  BY DEF InnerType

\* Jobs that leave PENDING leave behind an Inner (settle).
LEMMA LeaveType ==
    ASSUME NEW s \in InnerType, NEW live \in SUBSET StoredIds(s),
           NEW state \in State, NEW by \in Nat, NEW now \in Nat
    PROVE  Leave(s, live, state, by, now) \in InnerType
  <1> DEFINE r == Leave(s, live, state, by, now)
  <1>1. r.jobs \in [Id -> Job \cup {None}]
    <2> SUFFICES ASSUME NEW j \in Id PROVE r.jobs[j] \in Job \cup {None}
      BY DEF Leave
    <2>1. CASE j \in live
      <3>1. s.jobs[j] \in Job
        BY <2>1, StoredIsJob DEF StoredIds
      <3>2. r.jobs[j] = [s.jobs[j] EXCEPT !.state = state, !.by = by, !.finished = now]
        BY <2>1 DEF Leave
      <3> QED BY <3>1, <3>2 DEF Job
    <2>2. CASE j \notin live
      BY <2>2 DEF Leave, InnerType
    <2> QED BY <2>1, <2>2
  <1>2. r.queue \in SUBSET Entry
    BY DEF Leave, InnerType
  <1>3. r.running \in Running
    BY DEF Leave, InnerType, Running
  <1>4. r.kill \in SUBSET Serial
    BY DEF Leave, InnerType, Running, Serial
  <1>5. r = [jobs |-> r.jobs, queue |-> r.queue, running |-> r.running, kill |-> r.kill]
    BY DEF Leave
  <1> QED BY <1>1, <1>2, <1>3, <1>4, <1>5 DEF InnerType

\* Settling leaves an Inner.
LEMMA SettleType ==
    ASSUME NEW s \in InnerType, NEW S, NEW state \in State, NEW by \in Nat,
           NEW now \in Nat
    PROVE  Settle(s, S, state, by, now) \in InnerType
  <1>1. S \cap PendingIds(s) \in SUBSET StoredIds(s)
    BY DEF PendingIds, StoredIds, IsPending
  <1> QED BY <1>1, LeaveType DEF Settle

\* Removing jobs leaves an Inner, and its queue and sockets alone.
LEMMA RemoveType ==
    ASSUME NEW s \in InnerType, NEW S
    PROVE  /\ Remove(s, S) \in InnerType
           /\ Remove(s, S).queue = s.queue
           /\ Remove(s, S).running = s.running
           /\ Remove(s, S).kill = s.kill
           /\ \A j \in Id : Remove(s, S).jobs[j] = IF j \in S THEN None ELSE s.jobs[j]
  BY DEF Remove, InnerType

\* The states that handlers and runs give a job are states, and not PENDING.
LEMMA StateTypes ==
    /\ Failed("timeout") \in State
    /\ Canceled("canceled") \in State
    /\ Canceled("superseded") \in State
    /\ Pending \in State
    /\ Outcome \subseteq State \ {Pending}
    /\ Failed("timeout") # Pending
    /\ Canceled("canceled") # Pending
    /\ Canceled("superseded") # Pending
    /\ State \subseteq Answer
    /\ {Busy, Conflict, Unknown} \subseteq Answer
    /\ {Ready, Failed("upstream_error"), Failed("timeout"), Failed("canceled")}
          \subseteq Outcome
  BY DEF State, Outcome, Answer, Failed, Canceled, Pending, Ready, FailReasons

\* The sweep leaves an Inner.
LEMMA SweepType ==
    ASSUME NEW s \in InnerType, NEW now \in Nat
    PROVE  Sweep(s, now) \in InnerType
  BY SettleType, RemoveType, StateTypes DEF Sweep

\* Inserting a job with its queue entry leaves an Inner.
LEMMA InsertType ==
    ASSUME NEW s \in InnerType, NEW id \in Id, NEW talk \in Talk, NEW now \in Nat,
           NEW serial \in Serial
    PROVE  Insert(s, id, talk, now, serial) \in InnerType
  <1> DEFINE new == [talk |-> talk, state |-> Pending, by |-> 0,
                     created |-> now, finished |-> 0, serial |-> serial]
             entry == [serial |-> serial, id |-> id]
  <1>1. new \in Job /\ entry \in Entry
    BY StateTypes DEF Job, Entry
  <1>2. [s.jobs EXCEPT ![id] = new] \in [Id -> Job \cup {None}]
    BY <1>1 DEF InnerType
  <1>3. s.queue \cup {entry} \in SUBSET Entry
    BY <1>1 DEF InnerType
  <1>4. Insert(s, id, talk, now, serial) =
           [s EXCEPT !.jobs = [s.jobs EXCEPT ![id] = new], !.queue = s.queue \cup {entry}]
    BY DEF Insert
  <1> HIDE DEF new, entry
  <1> QED BY <1>2, <1>3, <1>4 DEF InnerType

\* Admission leaves an Inner.
LEMMA AdmitType ==
    ASSUME NEW s \in InnerType, NEW id \in Id, NEW talk \in Talk, NEW now \in Nat,
           NEW serial \in Serial
    PROVE  Admit(s, id, talk, now, serial) \in InnerType
  <1> DEFINE settled == Settle(s, Victims(s, talk), Canceled("superseded"), 0, now)
             roomy   == Remove(settled, Evicted(settled))
  <1>1. settled \in InnerType
    BY SettleType, StateTypes
  <1>2. roomy \in InnerType
    BY <1>1, RemoveType
  <1> QED BY <1>2, InsertType DEF Admit

\* What a locked section starts with is an Inner.
LEMMA LockedType == TypeOK => Locked \in InnerType
  BY DEF TypeOK, Locked, InnerType

\* Dropping the lock makes the Inner the store's state.
LEMMA UnlockType ==
    ASSUME NEW s \in InnerType, Unlock(s)
    PROVE  /\ jobs' \in [Id -> Job \cup {None}]
           /\ queue' \subseteq Entry
           /\ running' \in Running
  BY DEF Unlock, InnerType

\* What result and cancel answer is an answer.
LEMMA StateOrUnknownType ==
    ASSUME NEW s \in InnerType, NEW id \in Id
    PROVE  StateOrUnknown(s, id) \in Answer
  BY StoredIsJob, StateTypes DEF StateOrUnknown, Job

\* A request in flight names an id, and a talk its parameters.
Named == \A h \in Handler : handler[h].phase = "stamped" =>
            /\ handler[h].id \in Id
            /\ handler[h].op = "talk" => handler[h].talk \in Talk

\* The worker between two jobs knows none; otherwise it knows one.
WorkerHasJob ==
    IF worker.phase \in {"seeking", "waiting"}
    THEN worker = [Between EXCEPT !.phase = worker.phase] /\ running = NotRunning
    ELSE /\ worker.id \in Id /\ worker.serial \in Serial
         /\ running.id = worker.id
         /\ running.conn \in {0, worker.serial}
         /\ worker.phase = "finishing" => worker.outcome \in Outcome

TypeInv == TypeOK /\ Named /\ WorkerHasJob

\* A handler may be idle.
LEMMA IdleType == Idle \in HandlerState
  BY DEF Idle, HandlerState

\* The worker may be between two jobs.
LEMMA BetweenType == Between \in Worker
  BY DEF Between, Worker

\* The worker may have a job.
LEMMA RunningWorkerType ==
    ASSUME NEW id \in Id, NEW serial \in Serial, NEW due \in Nat
    PROVE  [Between EXCEPT !.phase = "connecting", !.id = id, !.serial = serial,
                           !.due = due] \in Worker
  BY BetweenType DEF Worker, Serial

\* Answering leaves the handlers well formed.
LEMMA AnsweredType ==
    ASSUME TypeOK, Named, NEW h \in Handler, NEW answer \in Answer, NEW kill \in SUBSET Serial,
           Answered(h, answer, kill)
    PROVE  handler' \in [Handler -> HandlerState] /\ Named'
  BY DEF TypeOK, Answered, Idle, HandlerState, Named

\* The store starts well formed.
THEOREM InitTypeInv == Init => TypeInv
  <1> SUFFICES ASSUME Init PROVE TypeInv
    OBVIOUS
  <1>1. TypeOK
    BY IdleType, BetweenType DEF Init, TypeOK, NotRunning, Running
  <1>2. Named
    BY DEF Init, Named, Idle
  <1>3. WorkerHasJob
    BY DEF Init, WorkerHasJob, Between
  <1> QED BY <1>1, <1>2, <1>3 DEF TypeInv

\* A locked section of a handler: it leaves an Inner whose running differs from
\* the old one at most by a socket taken, and the worker at most woken.
LEMMA HandlerSectionType ==
    ASSUME TypeInv, NEW h \in Handler, NEW s \in InnerType,
           s.running \in {running, [running EXCEPT !.conn = 0]},
           NEW answer \in Answer,
           Unlock(s), Answered(h, answer, s.kill),
           worker' = worker \/ Notify,
           clock' = clock, shut' = shut, admitted' \in Nat, first' \in [Id -> Nat]
    PROVE  TypeInv'
  <1>1. /\ jobs' \in [Id -> Job \cup {None}]
        /\ queue' \subseteq Entry
        /\ running' \in Running
    BY UnlockType
  <1>2. handler' \in [Handler -> HandlerState] /\ Named'
    BY AnsweredType DEF TypeInv, InnerType
  <1>3. worker' \in Worker
    BY DEF TypeInv, TypeOK, Notify, Worker
  <1>4. TypeOK'
    BY <1>1, <1>2, <1>3 DEF TypeInv, TypeOK
  <1>5. WorkerHasJob'
    <2>1. running' \in {running, [running EXCEPT !.conn = 0]}
      BY DEF Unlock
    <2>2. running \in Running /\ worker \in Worker
      BY DEF TypeInv, TypeOK
    <2>3. CASE worker.phase \in {"seeking", "waiting"}
      <3>1. worker' \in {worker, [worker EXCEPT !.phase = "seeking"]}
        BY <2>2, <2>3 DEF Notify, Worker
      <3>2. running' = NotRunning
        BY <2>1, <2>3 DEF TypeInv, WorkerHasJob, NotRunning
      <3> QED BY <2>3, <3>1, <3>2 DEF TypeInv, WorkerHasJob, Between
    <2>4. CASE worker.phase \notin {"seeking", "waiting"}
      <3>1. worker' = worker
        BY <2>2, <2>4 DEF Notify, Worker
      <3> QED BY <2>1, <2>2, <2>4, <3>1 DEF TypeInv, WorkerHasJob, Running
    <2> QED BY <2>3, <2>4
  <1> QED BY <1>2, <1>4, <1>5 DEF TypeInv

\* Sweeping and settling take at most the socket of the running job.
LEMMA SettleRunning ==
    ASSUME NEW s \in InnerType, NEW S, NEW state, NEW by, NEW now
    PROVE  Settle(s, S, state, by, now).running
              \in {s.running, [s.running EXCEPT !.conn = 0]}
  BY DEF Settle, Leave

\* The sweep takes at most the socket of the running job.
LEMMA SweepRunning ==
    ASSUME NEW s \in InnerType, NEW now \in Nat
    PROVE  Sweep(s, now).running \in {s.running, [s.running EXCEPT !.conn = 0]}
  BY SettleRunning, SettleType, RemoveType, StateTypes DEF Sweep

\* So does an admission.
LEMMA AdmitRunning ==
    ASSUME NEW s \in InnerType, NEW id \in Id, NEW talk \in Talk, NEW now \in Nat,
           NEW serial \in Serial
    PROVE  Admit(s, id, talk, now, serial).running
              \in {s.running, [s.running EXCEPT !.conn = 0]}
  <1> DEFINE settled == Settle(s, Victims(s, talk), Canceled("superseded"), 0, now)
             roomy   == Remove(settled, Evicted(settled))
  <1>1. settled \in InnerType
    BY SettleType, StateTypes
  <1>2. settled.running \in {s.running, [s.running EXCEPT !.conn = 0]}
    BY SettleRunning
  <1>3. roomy \in InnerType /\ roomy.running = settled.running
    BY <1>1, RemoveType
  <1>4. Insert(roomy, id, talk, now, serial).running = roomy.running
    BY <1>3 DEF Insert, InnerType
  <1> HIDE DEF settled
  <1> QED BY <1>2, <1>3, <1>4 DEF Admit, settled

\* Taking a socket twice is taking it once.
LEMMA TakenTwice ==
    ASSUME NEW r \in Running, NEW q \in {r, [r EXCEPT !.conn = 0]}
    PROVE  /\ q \in Running
           /\ {q, [q EXCEPT !.conn = 0]} \subseteq {r, [r EXCEPT !.conn = 0]}
  BY DEF Running

\* Every step keeps TypeInv.
THEOREM TypeInvStep == TypeInv /\ [Next]_vars => TypeInv'
  <1> SUFFICES ASSUME TypeInv, [Next]_vars PROVE TypeInv'
    OBVIOUS
  <1> USE DEF TypeInv
  <1>l. Locked \in InnerType /\ Locked.running = running
    BY LockedType DEF Locked
  <1>1. ASSUME NEW h \in Handler, Arrive(h) PROVE TypeInv'
    <2> PICK op \in Ops, id \in Id, talk \in Talk \cup {None} :
               /\ (op = "talk") = (talk # None)
               /\ handler' = [handler EXCEPT ![h] =
                     [Idle EXCEPT !.phase = "stamped", !.op = op, !.id = id,
                                  !.talk = talk, !.stamp = clock]]
      BY <1>1 DEF Arrive
    <2> DEFINE new == [Idle EXCEPT !.phase = "stamped", !.op = op, !.id = id,
                                   !.talk = talk, !.stamp = clock]
    <2>1. new \in HandlerState /\ new.id = id /\ new.talk = talk /\ new.op = op
      BY IdleType, OpsAssumption DEF TypeOK, HandlerState, Idle
    <2>2. handler' \in [Handler -> HandlerState]
      BY <2>1 DEF TypeOK
    <2>3. Named'
      BY <2>1 DEF TypeOK, Named
    <2>4. TypeOK' /\ WorkerHasJob'
      BY <1>1, <2>2 DEF Arrive, TypeOK, WorkerHasJob, inner
    <2> QED BY <2>3, <2>4
  <1>2. ASSUME NEW h \in Handler, HandlerLocked(h) PROVE TypeInv'
    <2> DEFINE hs    == handler[h]
               swept == Sweep(Locked, hs.stamp)
    <2>1. hs \in HandlerState /\ hs.stamp \in Nat
      BY DEF TypeOK, HandlerState
    <2>2. hs.phase = "stamped" /\ hs.id \in Id /\ (hs.op = "talk" => hs.talk \in Talk)
      BY <1>2 DEF HandlerLocked, TalkKnown, TalkBusy, TalkAdmitted, Result, Cancel, Named
    <2>3. swept \in InnerType
      BY <1>l, <2>1, SweepType
    <2>4. swept.running \in {running, [running EXCEPT !.conn = 0]}
      BY <1>l, <2>1, SweepRunning
    <2>5. running \in Running /\ admitted \in Nat /\ first \in [Id -> Nat]
      BY DEF TypeOK
    <2> HIDE DEF swept, TypeInv
    <2>6. CASE TalkKnown(h)
      <3>1. swept.jobs[hs.id] # None => swept.jobs[hs.id].state \in Answer
        BY <2>2, <2>3, StoredIsJob, StateTypes DEF Job
      <3>2. PICK answer \in Answer : Unlock(swept) /\ Answered(h, answer, swept.kill)
        BY <2>6, <3>1, StateTypes DEF TalkKnown, swept
      <3> QED BY <2>3, <2>4, <2>5, <2>6, <3>2, HandlerSectionType DEF TalkKnown
    <2>7. CASE TalkBusy(h)
      <3>1. Unlock(swept) /\ Answered(h, Busy, swept.kill)
        BY <2>7 DEF TalkBusy, swept
      <3> QED BY <2>3, <2>4, <2>5, <2>7, <3>1, HandlerSectionType, StateTypes DEF TalkBusy
    <2>8. CASE TalkAdmitted(h)
      <3> DEFINE done == Admit(swept, hs.id, hs.talk, hs.stamp, admitted + 1)
      <3>1. admitted + 1 \in Serial /\ hs.talk \in Talk
        BY <2>2, <2>5, <2>8 DEF Serial, TalkAdmitted
      <3>2. done \in InnerType
        BY <2>1, <2>2, <2>3, <3>1, AdmitType
      <3>3. done.running \in {running, [running EXCEPT !.conn = 0]}
        <4>1. done.running \in {swept.running, [swept.running EXCEPT !.conn = 0]}
          BY <2>1, <2>2, <2>3, <3>1, AdmitRunning
        <4>2. {swept.running, [swept.running EXCEPT !.conn = 0]}
                 \subseteq {running, [running EXCEPT !.conn = 0]}
          BY <2>4, <2>5, TakenTwice
        <4> HIDE DEF done
        <4> QED BY <4>1, <4>2
      <3>4. Unlock(done) /\ Answered(h, Pending, done.kill)
        BY <2>8 DEF TalkAdmitted, swept
      <3>5. admitted' \in Nat /\ first' \in [Id -> Nat]
        <4>1. first' = [first EXCEPT ![hs.id] = IF @ = 0 THEN admitted + 1 ELSE @]
          BY <2>8 DEF TalkAdmitted
        <4>2. admitted' = admitted + 1
          BY <2>8 DEF TalkAdmitted
        <4> QED BY <2>2, <2>5, <4>1, <4>2
      <3> HIDE DEF done
      <3> QED BY <2>8, <3>2, <3>3, <3>4, <3>5, HandlerSectionType, StateTypes
              DEF TalkAdmitted
    <2>9. CASE Result(h)
      <3>1. Unlock(swept) /\ Answered(h, StateOrUnknown(swept, hs.id), swept.kill)
        BY <2>9 DEF Result, swept
      <3> QED BY <2>2, <2>3, <2>4, <2>5, <2>9, <3>1, HandlerSectionType,
                 StateOrUnknownType DEF Result
    <2>10. CASE Cancel(h)
      <3> DEFINE done == Settle(swept, {hs.id}, Canceled("canceled"), 0, hs.stamp)
      <3>1. done \in InnerType
        BY <2>1, <2>3, SettleType, StateTypes
      <3>2. done.running \in {running, [running EXCEPT !.conn = 0]}
        <4>1. done.running \in {swept.running, [swept.running EXCEPT !.conn = 0]}
          BY <2>3, SettleRunning
        <4>2. {swept.running, [swept.running EXCEPT !.conn = 0]}
                 \subseteq {running, [running EXCEPT !.conn = 0]}
          BY <2>4, <2>5, TakenTwice
        <4> HIDE DEF done
        <4> QED BY <4>1, <4>2
      <3>3. Unlock(done) /\ Answered(h, StateOrUnknown(done, hs.id), done.kill)
        BY <2>10 DEF Cancel, swept
      <3> HIDE DEF done
      <3> QED BY <2>2, <2>5, <2>10, <3>1, <3>2, <3>3, HandlerSectionType,
                 StateOrUnknownType DEF Cancel
    <2> QED BY <1>2, <2>6, <2>7, <2>8, <2>9, <2>10 DEF HandlerLocked
  <1>3. ASSUME NEW h \in Handler, ShutDown(h) PROVE TypeInv'
    <2>1. TypeOK'
      BY <1>3, IdleType DEF ShutDown, TypeOK, inner, HandlerState
    <2>2. Named' /\ WorkerHasJob'
      BY <1>3 DEF ShutDown, TypeOK, Named, WorkerHasJob, Idle, inner
    <2> QED BY <2>1, <2>2
  <1>p. ASSUME NEW S PROVE /\ Popped(S) \in InnerType
                           /\ worker.phase = "seeking" => Popped(S).running = NotRunning
    <2> DEFINE s == [Locked EXCEPT !.queue = queue \ S]
    <2>1. s \in InnerType /\ s.running = running
      BY <1>l DEF InnerType, Locked
    <2>2. clock \in Nat
      BY DEF TypeOK
    <2>3. Popped(S) = Settle(s, {e.id : e \in S}, Failed("timeout"), 0, clock)
      BY DEF Popped
    <2>4. Popped(S) \in InnerType
      BY <2>1, <2>2, <2>3, SettleType, StateTypes
    <2>5. Popped(S).running \in {running, [running EXCEPT !.conn = 0]}
      <3> HIDE DEF s
      <3> QED BY <2>1, <2>3, SettleRunning
    <2> QED BY <2>4, <2>5 DEF WorkerHasJob, NotRunning
  <1>4. CASE NextJob
    <2> PICK e \in queue : /\ Runnable(e)
                           /\ Unlock([Popped(Before(e)) EXCEPT !.queue = @ \ {e},
                                         !.running = [id |-> e.id, conn |-> 0]])
                           /\ worker' = [Between EXCEPT !.phase = "connecting", !.id = e.id,
                                            !.serial = e.serial, !.due = Due(jobs[e.id])]
      BY <1>4 DEF NextJob
    <2>1. e \in Entry /\ e.id \in Id /\ e.serial \in Serial
      BY DEF TypeOK, Entry
    <2>2. jobs[e.id] \in Job /\ Due(jobs[e.id]) \in Nat
      BY <2>1, LimitsAssumption DEF TypeOK, Runnable, IsPending, Due, Job
    <2> DEFINE s == [Popped(Before(e)) EXCEPT !.queue = @ \ {e},
                        !.running = [id |-> e.id, conn |-> 0]]
    <2>3. s \in InnerType /\ s.running = [id |-> e.id, conn |-> 0]
      BY <1>p, <2>1 DEF InnerType, Running
    <2>4. worker' \in Worker /\ WorkerHasJob'
      <3>1. worker' = [phase |-> "connecting", id |-> e.id, serial |-> e.serial,
                       due |-> Due(jobs[e.id]), cloned |-> FALSE, outcome |-> None,
                       stamp |-> 0]
        BY DEF Between
      <3>2. running' = [id |-> e.id, conn |-> 0]
        BY <2>3 DEF Unlock
      <3>3. worker' \in Worker
        BY <2>1, <2>2, RunningWorkerType
      <3>4. /\ worker'.phase = "connecting"
            /\ worker'.id = e.id /\ worker'.serial = e.serial
        BY <3>1
      <3> QED BY <2>1, <3>2, <3>3, <3>4 DEF WorkerHasJob
    <2>5. TypeOK'
      BY <1>4, <2>3, <2>4, UnlockType DEF NextJob, TypeOK
    <2>6. Named'
      BY <1>4 DEF NextJob, Named
    <2> QED BY <2>4, <2>5, <2>6
  <1>5. CASE NothingToRun
    <2>1. Unlock(Popped(queue)) /\ running' = NotRunning
      BY <1>5, <1>p DEF NothingToRun, Unlock
    <2>2. worker' = [Between EXCEPT !.phase = "waiting"]
      BY <1>5 DEF NothingToRun, WorkerHasJob, Between
    <2>3. TypeOK'
      BY <1>5, <1>p, <2>1, <2>2, UnlockType DEF NothingToRun, TypeOK, Worker, Between
    <2> QED BY <1>5, <2>1, <2>2, <2>3 DEF NothingToRun, Named, WorkerHasJob, Between
  <1>6. CASE SpuriousWakeup
    BY <1>6 DEF SpuriousWakeup, TypeOK, Named, WorkerHasJob, Worker, Between, inner
  <1>7. ASSUME NEW outcome \in Outcome, Generated(outcome),
               worker.phase \in {"connecting", "posting"}
        PROVE TypeInv'
    <2>1. worker' \in Worker
      BY <1>7 DEF Generated, TypeOK, Worker
    <2> QED BY <1>7, <2>1 DEF Generated, TypeOK, Named, WorkerHasJob, Worker, inner
  <1>8. CASE ConnectFails \/ ConnectTimesOut \/ AttachRefused \/ Respond \/ PostTimesOut
             \/ PostAborted \/ CannedReply
    BY <1>7, <1>8, StateTypes DEF ConnectFails, ConnectTimesOut, AttachRefused, Respond,
           PostTimesOut, PostAborted, CannedReply
  <1>9. CASE Attach
    <2> PICK cloned \in BOOLEAN :
          /\ running' = IF cloned THEN [running EXCEPT !.conn = worker.serial]
                                  ELSE running
          /\ worker' = [worker EXCEPT !.phase = "posting", !.cloned = cloned]
      BY <1>9 DEF Attach
    <2>1. worker' \in Worker /\ running' \in Running
      BY DEF TypeOK, Worker, Running
    <2>2. WorkerHasJob'
      BY <1>9, <2>1 DEF Attach, WorkerHasJob, TypeOK, Worker, Running
    <2> QED BY <1>9, <2>1, <2>2 DEF Attach, TypeOK, Named
  <1>10. CASE Finish
    <2> DEFINE swept == Sweep(Freed, worker.stamp)
               done  == Settle(swept, {worker.id}, worker.outcome, worker.serial,
                               worker.stamp)
    <2>1. Freed \in InnerType /\ Freed.running = NotRunning
      BY <1>l DEF Freed, InnerType, NotRunning, Running, Locked
    <2>2. /\ worker.stamp \in Nat /\ worker.serial \in Nat
          /\ worker.outcome \in State
      BY <1>10, StateTypes DEF Finish, TypeOK, Worker, WorkerHasJob
    <2>3. swept \in InnerType /\ done \in InnerType
      BY <2>1, <2>2, SweepType, SettleType
    <2>4. done.running = NotRunning
      <3>1. swept.running = NotRunning
        BY <2>1, <2>2, SweepRunning DEF NotRunning
      <3> QED BY <2>3, <3>1, SettleRunning DEF NotRunning
    <2>5. Unlock(done) /\ worker' = Between
      BY <1>10 DEF Finish
    <2> HIDE DEF done
    <2>6. TypeOK'
      BY <1>10, <2>3, <2>5, UnlockType, BetweenType DEF Finish, TypeOK
    <2>7. Named'
      BY <1>10 DEF Finish, Named
    <2>8. WorkerHasJob'
      <3>1. running' = NotRunning
        BY <2>4, <2>5 DEF Unlock
      <3>2. /\ Between.phase = "seeking"
            /\ [Between EXCEPT !.phase = Between.phase] = Between
        BY DEF Between
      <3> QED BY <2>5, <3>1, <3>2 DEF WorkerHasJob
    <2> QED BY <2>6, <2>7, <2>8
  <1>11. CASE Tick
    BY <1>11 DEF Tick, TypeOK, Named, WorkerHasJob, inner
  <1>12. CASE UNCHANGED vars
    BY <1>12 DEF vars, TypeOK, Named, WorkerHasJob
  <1> QED BY <1>1, <1>2, <1>3, <1>4, <1>5, <1>6, <1>8, <1>9, <1>10, <1>11, <1>12
          DEF Next, HandlerStep, WorkerStep, WorkerAlone

\* The types hold in every reachable state; with them, a running socket is
\* always that of the run the worker is in (WorkerHasJob).
THEOREM TypeCorrect == Spec => []TypeOK
  <1>1. TypeInv => TypeOK
    BY DEF TypeInv
  <1> QED BY <1>1, InitTypeInv, TypeInvStep, PTL DEF Spec

-----------------------------------------------------------------------------
(* The books                                                                *)

\* Of an Inner, while the worker has the run n of job id (None between runs):
\* the queue is exactly the pending jobs other than that run ...
Placed(s, id, n) ==
    /\ \A j \in Id : IsPending(s.jobs[j]) =>
          (([serial |-> s.jobs[j].serial, id |-> j] \in s.queue)
              <=> ~(j = id /\ s.jobs[j].serial = n))
    /\ \A e \in s.queue : IsPending(s.jobs[e.id]) /\ s.jobs[e.id].serial = e.serial

SameLine(job, talk) == job.talk.npc = talk.npc /\ job.talk.scope = talk.scope

\* ... no two pending jobs share a line ...
OnePerLine(s) ==
    \A i, j \in Id : /\ IsPending(s.jobs[i]) /\ IsPending(s.jobs[j])
                     /\ SameLine(s.jobs[i], s.jobs[j].talk)
                     => i = j

\* ... and no job has a serial that is still to be given out.
Numbered(s, top) == \A j \in Id : s.jobs[j] # None => s.jobs[j].serial <= top

Sound(s, id, n, top) == Placed(s, id, n) /\ OnePerLine(s) /\ Numbered(s, top)

\* Jobs leaving PENDING keep an Inner sound.
LEMMA LeaveSound ==
    ASSUME NEW s \in InnerType, NEW live \in SUBSET PendingIds(s),
           NEW state \in State \ {Pending}, NEW by \in Nat, NEW now \in Nat,
           NEW id, NEW n, NEW top, Sound(s, id, n, top)
    PROVE  Sound(Leave(s, live, state, by, now), id, n, top)
  <1> DEFINE r == Leave(s, live, state, by, now)
  <1>1. ASSUME NEW j \in Id, j \in live
        PROVE  /\ ~IsPending(r.jobs[j]) /\ s.jobs[j] # None
               /\ r.jobs[j].serial = s.jobs[j].serial
    <2>1. s.jobs[j] \in Job /\ s.jobs[j] # None
      BY <1>1, StoredIsJob DEF PendingIds, IsPending
    <2>2. r.jobs[j] = [s.jobs[j] EXCEPT !.state = state, !.by = by, !.finished = now]
      BY <1>1 DEF Leave
    <2>3. r.jobs[j].state = state /\ r.jobs[j].serial = s.jobs[j].serial
      BY <2>1, <2>2 DEF Job
    <2> QED BY <2>1, <2>3 DEF IsPending
  <1>2. ASSUME NEW j \in Id, j \notin live
        PROVE  r.jobs[j] = s.jobs[j]
    BY <1>2 DEF Leave
  <1>3. r.queue = {e \in s.queue : e.id \notin live}
    BY DEF Leave
  <1>4. \A e \in s.queue : e.id \in Id
    BY DEF InnerType, Entry
  <1> HIDE DEF r
  <1>5. Placed(r, id, n)
    BY <1>1, <1>2, <1>3, <1>4 DEF Sound, Placed
  <1>6. OnePerLine(r)
    BY <1>1, <1>2 DEF Sound, OnePerLine
  <1>7. Numbered(r, top)
    BY <1>1, <1>2 DEF Sound, Numbered
  <1> QED BY <1>5, <1>6, <1>7 DEF Sound, r

\* Settling keeps an Inner sound.
LEMMA SettleSound ==
    ASSUME NEW s \in InnerType, NEW S, NEW state \in State \ {Pending},
           NEW by \in Nat, NEW now \in Nat,
           NEW id, NEW n, NEW top, Sound(s, id, n, top)
    PROVE  Sound(Settle(s, S, state, by, now), id, n, top)
  <1>1. S \cap PendingIds(s) \in SUBSET PendingIds(s)
    OBVIOUS
  <1> QED BY <1>1, LeaveSound DEF Settle

\* Removing terminal jobs (expiry and eviction) keeps an Inner sound.
LEMMA RemoveSound ==
    ASSUME NEW s \in InnerType, NEW S \in SUBSET TerminalIds(s),
           NEW id, NEW n, NEW top, Sound(s, id, n, top)
    PROVE  Sound(Remove(s, S), id, n, top)
  <1> DEFINE r == Remove(s, S)
  <1>1. \A j \in Id : r.jobs[j] = IF j \in S THEN None ELSE s.jobs[j]
    BY RemoveType
  <1>2. r.queue = s.queue
    BY RemoveType
  <1>3. \A j \in S : ~IsPending(s.jobs[j])
    BY DEF TerminalIds, IsTerminal, IsPending
  <1>4. \A e \in s.queue : e.id \in Id
    BY DEF InnerType, Entry
  <1>5. \A j \in Id : IsPending(r.jobs[j]) => r.jobs[j] = s.jobs[j]
    BY <1>1 DEF IsPending
  <1> HIDE DEF r
  <1>6. Placed(r, id, n)
    BY <1>1, <1>2, <1>3, <1>4, <1>5 DEF Sound, Placed
  <1>7. OnePerLine(r)
    BY <1>5 DEF Sound, OnePerLine
  <1>8. Numbered(r, top)
    BY <1>1 DEF Sound, Numbered
  <1> QED BY <1>6, <1>7, <1>8 DEF Sound, r

\* The sweep keeps an Inner sound: it settles, then removes terminal jobs.
LEMMA SweepSound ==
    ASSUME NEW s \in InnerType, NEW now \in Nat,
           NEW id, NEW n, NEW top, Sound(s, id, n, top)
    PROVE  Sound(Sweep(s, now), id, n, top)
  <1> DEFINE overdue == {j \in PendingIds(s) : now >= Due(s.jobs[j])}
             swept   == Settle(s, overdue, Failed("timeout"), 0, now)
             expired == {j \in TerminalIds(swept) : now - swept.jobs[j].finished >= Ttl}
  <1>1. swept \in InnerType
    BY SettleType, StateTypes
  <1>2. Sound(swept, id, n, top)
    BY SettleSound, StateTypes
  <1>3. expired \in SUBSET TerminalIds(swept)
    OBVIOUS
  <1> HIDE DEF swept
  <1>4. Sound(Remove(swept, expired), id, n, top)
    BY <1>1, <1>2, <1>3, RemoveSound
  <1> QED BY <1>4 DEF Sweep, swept

\* A new job, numbered above all others, on an id and a line that are free.
LEMMA InsertSound ==
    ASSUME NEW s \in InnerType, NEW i \in Id, NEW talk \in Talk, NEW now \in Nat,
           NEW id, NEW n \in Nat, NEW top \in Nat, n <= top,
           Sound(s, id, n, top), s.jobs[i] = None,
           \A j \in Id : IsPending(s.jobs[j]) => ~SameLine(s.jobs[j], talk)
    PROVE  Sound(Insert(s, i, talk, now, top + 1), id, n, top + 1)
  <1> DEFINE r   == Insert(s, i, talk, now, top + 1)
             new == [talk |-> talk, state |-> Pending, by |-> 0,
                     created |-> now, finished |-> 0, serial |-> top + 1]
             entry == [serial |-> top + 1, id |-> i]
  <1>1. /\ new # None /\ IsPending(new) /\ new.serial = top + 1
        /\ new.talk = talk
    <2>1. new \in Job
      BY StateTypes DEF Job, Serial
    <2> QED BY <2>1, NoneAssumption DEF IsPending
  <1>2. r.jobs[i] = new /\ \A j \in Id : j # i => r.jobs[j] = s.jobs[j]
    BY DEF Insert, InnerType
  <1>3. r.queue = s.queue \cup {entry}
    BY DEF Insert, InnerType
  <1>4. entry.id = i /\ entry.serial = top + 1
    OBVIOUS
  <1>5. \A e \in s.queue : e.id \in Id /\ e.id # i /\ e # entry
    BY DEF InnerType, Entry, Sound, Placed, IsPending
  <1>6. \A j \in Id : s.jobs[j] # None => s.jobs[j].serial \in Nat /\ s.jobs[j].serial <= top
    BY StoredIsJob DEF Job, Serial, Sound, Numbered
  <1> HIDE DEF r, new
  <1>7. Placed(r, id, n)
    <2>1. ASSUME NEW j \in Id, IsPending(r.jobs[j])
          PROVE  ([serial |-> r.jobs[j].serial, id |-> j] \in r.queue)
                    <=> ~(j = id /\ r.jobs[j].serial = n)
      <3>1. CASE j = i
        BY <1>1, <1>2, <1>3, <3>1
      <3>2. CASE j # i
        <4>1. [serial |-> r.jobs[j].serial, id |-> j] # entry
          BY <3>2
        <4> QED BY <1>2, <1>3, <2>1, <3>2, <4>1 DEF Sound, Placed
      <3> QED BY <3>1, <3>2
    <2>2. ASSUME NEW e \in r.queue
          PROVE  IsPending(r.jobs[e.id]) /\ r.jobs[e.id].serial = e.serial
      BY <1>1, <1>2, <1>3, <1>4, <1>5 DEF Sound, Placed
    <2> QED BY <2>1, <2>2 DEF Placed
  <1>8. OnePerLine(r)
    BY <1>1, <1>2 DEF Sound, OnePerLine, SameLine
  <1>9. Numbered(r, top + 1)
    BY <1>1, <1>2, <1>6 DEF Numbered
  <1> QED BY <1>7, <1>8, <1>9 DEF Sound, r

\* What settling does: to the jobs it leaves alone and to the queue ...
LEMMA SettleSpares ==
    ASSUME NEW s, NEW S, NEW state, NEW by, NEW now
    PROVE  /\ \A j \in Id : ~(j \in S /\ IsPending(s.jobs[j])) =>
                 Settle(s, S, state, by, now).jobs[j] = s.jobs[j]
           /\ Settle(s, S, state, by, now).queue
                 = {e \in s.queue : e.id \notin S \cap PendingIds(s)}
  BY DEF Settle, Leave, PendingIds

\* ... and to a job that ends.
LEMMA SettleEnds ==
    ASSUME NEW s \in InnerType, NEW S, NEW state \in State, NEW by \in Nat,
           NEW now \in Nat, NEW j \in Id, j \in S, IsPending(s.jobs[j])
    PROVE  LET job == Settle(s, S, state, by, now).jobs[j] IN
           /\ job \in Job
           /\ job.state = state /\ job.by = by /\ job.finished = now
           /\ job.serial = s.jobs[j].serial /\ job.talk = s.jobs[j].talk
           /\ job.created = s.jobs[j].created
  <1>1. s.jobs[j] \in Job
    BY StoredIsJob DEF IsPending
  <1>2. Settle(s, S, state, by, now).jobs[j]
           = [s.jobs[j] EXCEPT !.state = state, !.by = by, !.finished = now]
    BY DEF Settle, Leave, PendingIds
  <1> QED BY <1>1, <1>2 DEF Job

\* No job that was to be settled is pending after it.
LEMMA SettledIsNotPending ==
    ASSUME NEW s \in InnerType, NEW S, NEW state \in State \ {Pending},
           NEW by \in Nat, NEW now \in Nat, NEW j \in S, j \in Id
    PROVE  ~IsPending(Settle(s, S, state, by, now).jobs[j])
  <1>1. CASE IsPending(s.jobs[j])
    BY <1>1, SettleEnds DEF IsPending
  <1>2. CASE ~IsPending(s.jobs[j])
    BY <1>2, SettleSpares
  <1> QED BY <1>1, <1>2

\* Admission keeps an Inner sound: the victims of its line go first.
LEMMA AdmitSound ==
    ASSUME NEW s \in InnerType, NEW i \in Id, NEW talk \in Talk, NEW now \in Nat,
           NEW id, NEW n \in Nat, NEW top \in Nat, n <= top,
           Sound(s, id, n, top), s.jobs[i] = None
    PROVE  Sound(Admit(s, i, talk, now, top + 1), id, n, top + 1)
  <1> DEFINE state   == Canceled("superseded")
             settled == Settle(s, Victims(s, talk), state, 0, now)
             roomy   == Remove(settled, Evicted(settled))
  <1>1. settled \in InnerType /\ Sound(settled, id, n, top)
    BY SettleType, SettleSound, StateTypes
  <1>2. \A j \in Id : IsPending(settled.jobs[j]) => ~SameLine(settled.jobs[j], talk)
    <2> SUFFICES ASSUME NEW j \in Id, IsPending(settled.jobs[j])
                 PROVE  ~SameLine(settled.jobs[j], talk)
      OBVIOUS
    <2>1. j \notin Victims(s, talk)
      BY SettledIsNotPending, StateTypes
    <2>2. settled.jobs[j] = s.jobs[j]
      <3> HIDE DEF state
      <3> QED BY <2>1, SettleSpares
    <2> QED BY <2>1, <2>2 DEF Victims, PendingIds, SameLine
  <1>3. settled.jobs[i] = None
    BY SettleSpares DEF IsPending
  <1> HIDE DEF settled
  <1>4. roomy \in InnerType
    BY <1>1, RemoveType
  <1>5. Evicted(settled) \in SUBSET TerminalIds(settled)
    BY DEF Evicted
  <1>6. Sound(roomy, id, n, top)
    BY <1>1, <1>5, RemoveSound
  <1>7. roomy.jobs[i] = None
    BY <1>1, <1>3, RemoveType
  <1>8. \A j \in Id : IsPending(roomy.jobs[j]) => ~SameLine(roomy.jobs[j], talk)
    BY <1>1, <1>2, RemoveType DEF IsPending
  <1> HIDE DEF roomy
  <1>9. Sound(Insert(roomy, i, talk, now, top + 1), id, n, top + 1)
    BY <1>4, <1>6, <1>7, <1>8, InsertSound
  <1> QED BY <1>9 DEF Admit, roomy, settled

\* The inductive invariant.
SoundInv == /\ TypeInv
            /\ Sound(Locked, worker.id, worker.serial, admitted)
            /\ worker.serial <= admitted

\* Dropping the lock keeps what the section left sound.
LEMMA SoundUnlocked ==
    ASSUME NEW s \in InnerType, Unlock(s), NEW id, NEW n, NEW top, Sound(s, id, n, top)
    PROVE  Sound(Locked', id, n, top)
  BY DEF Unlock, Locked, Sound, Placed, OnePerLine, Numbered

\* The empty store is sound.
THEOREM InitSoundInv == Init => SoundInv
  <1> SUFFICES ASSUME Init PROVE SoundInv
    OBVIOUS
  <1>1. TypeInv
    BY InitTypeInv
  <1>2. /\ \A j \in Id : Locked.jobs[j] = None
        /\ Locked.queue = {}
    BY DEF Init, Locked
  <1>3. Sound(Locked, worker.id, worker.serial, admitted)
    BY <1>2 DEF Sound, Placed, OnePerLine, Numbered, IsPending
  <1>4. worker.serial <= admitted
    BY DEF Init, Between
  <1> QED BY <1>1, <1>3, <1>4 DEF SoundInv

\* A step that leaves jobs, queue and the worker's run alone.
LEMMA SoundElsewhere ==
    ASSUME SoundInv, UNCHANGED <<jobs, queue, admitted>>,
           worker'.id = worker.id, worker'.serial = worker.serial
    PROVE  /\ Sound(Locked', worker'.id, worker'.serial, admitted')
           /\ worker'.serial <= admitted'
  BY DEF SoundInv, Sound, Placed, OnePerLine, Numbered, Locked

\* What next_job discards were pending jobs that are overdue now: after it the
\* queue is still exact.
LEMMA PoppedSound ==
    ASSUME SoundInv, NEW S \in SUBSET queue
    PROVE  /\ Popped(S) \in InnerType
           /\ Sound(Popped(S), worker.id, worker.serial, admitted)
           /\ \A e \in queue \ S : e.id \notin {d.id : d \in S}
           /\ \A e \in queue \ S : /\ e \in Popped(S).queue
                                  /\ Popped(S).jobs[e.id] = jobs[e.id]
  <1> DEFINE s    == [Locked EXCEPT !.queue = queue \ S]
             gone == {d.id : d \in S}
             r    == Popped(S)
  <1>1. TypeOK /\ Locked \in InnerType
    BY LockedType DEF SoundInv, TypeInv
  <1>2. s \in InnerType /\ s.jobs = jobs /\ s.queue = queue \ S
    BY <1>1 DEF InnerType, Locked
  <1>3. clock \in Nat
    BY <1>1 DEF TypeOK
  <1> HIDE DEF s
  <1>4. r = Settle(s, gone, Failed("timeout"), 0, clock)
    BY DEF Popped, s
  <1>5. r \in InnerType
    BY <1>2, <1>3, <1>4, SettleType, StateTypes
  <1>q. \A e \in queue : e \in Entry /\ e = [serial |-> e.serial, id |-> e.id]
    BY <1>1 DEF TypeOK, Entry
  <1>6. \A e \in queue : IsPending(jobs[e.id]) /\ jobs[e.id].serial = e.serial /\ e.id \in Id
    BY <1>q DEF SoundInv, Sound, Placed, Locked, Entry
  <1>7. \A e \in queue \ S : e.id \notin gone
    <2> SUFFICES ASSUME NEW e \in queue \ S, NEW d \in S, e.id = d.id PROVE FALSE
      OBVIOUS
    <2> QED BY <1>q, <1>6
  <1>8. \A j \in Id : IF j \in gone THEN ~IsPending(r.jobs[j]) ELSE r.jobs[j] = jobs[j]
    <2>1. \A j \in Id : j \in gone => ~IsPending(r.jobs[j])
      BY <1>2, <1>3, <1>4, SettledIsNotPending, StateTypes
    <2>2. \A j \in Id : j \notin gone => r.jobs[j] = jobs[j]
      BY <1>2, <1>4, SettleSpares
    <2> QED BY <2>1, <2>2
  <1>9. \A j \in Id : r.jobs[j] # None =>
           jobs[j] # None /\ r.jobs[j].serial = jobs[j].serial
    <2> SUFFICES ASSUME NEW j \in Id, r.jobs[j] # None
                 PROVE  jobs[j] # None /\ r.jobs[j].serial = jobs[j].serial
      OBVIOUS
    <2>1. jobs[j] # None => jobs[j] \in Job
      BY <1>1 DEF TypeOK
    <2>2. CASE j \in gone /\ IsPending(jobs[j])
      BY <1>2, <1>3, <1>4, <2>2, SettleEnds, StateTypes DEF IsPending
    <2>3. CASE ~(j \in gone /\ IsPending(jobs[j]))
      BY <1>2, <1>4, <2>3, SettleSpares
    <2> QED BY <2>2, <2>3
  <1>10. r.queue = queue \ S
    <2>1. r.queue = {e \in s.queue : e.id \notin (gone \cap PendingIds(s))}
      BY <1>4, SettleSpares
    <2> QED BY <1>2, <1>7, <2>1
  <1> HIDE DEF gone, r
  <1>11. Placed(r, worker.id, worker.serial)
    <2>1. \A j \in Id \ gone : \A m : [serial |-> m, id |-> j] \in queue
                                          <=> [serial |-> m, id |-> j] \in queue \ S
      BY DEF gone
    <2>2. \A e \in queue \ S : e.id \in Id \ gone
      BY <1>6, <1>7
    <2> QED BY <1>6, <1>8, <1>10, <2>1, <2>2 DEF SoundInv, Sound, Placed, Locked
  <1>12. OnePerLine(r)
    BY <1>8 DEF SoundInv, Sound, OnePerLine, Locked
  <1>13. Numbered(r, admitted)
    BY <1>9 DEF SoundInv, Sound, Numbered, Locked
  <1>14. \A e \in queue \ S : e \in r.queue /\ r.jobs[e.id] = jobs[e.id]
    BY <1>6, <1>7, <1>8, <1>10
  <1> QED BY <1>5, <1>7, <1>11, <1>12, <1>13, <1>14 DEF Sound, r, gone

\* Every step keeps SoundInv.
THEOREM SoundInvStep == SoundInv /\ [Next]_vars => SoundInv'
  <1> SUFFICES ASSUME SoundInv, [Next]_vars PROVE SoundInv'
    OBVIOUS
  <1>1. TypeInv /\ TypeOK
    BY DEF SoundInv, TypeInv
  <1>2. TypeInv'
    BY <1>1, TypeInvStep
  <1>3. Locked \in InnerType /\ Sound(Locked, worker.id, worker.serial, admitted)
    BY <1>1, LockedType DEF SoundInv
  <1>4. /\ worker \in Worker /\ worker.serial \in Nat /\ admitted \in Nat
        /\ worker.serial <= admitted
    BY <1>1 DEF SoundInv, TypeOK, Worker
  <1> SUFFICES /\ Sound(Locked', worker'.id, worker'.serial, admitted')
               /\ worker'.serial <= admitted'
    BY <1>2 DEF SoundInv
  <1>5. ASSUME NEW h \in Handler, HandlerLocked(h)
        PROVE  /\ Sound(Locked', worker'.id, worker'.serial, admitted')
               /\ worker'.serial <= admitted'
    <2> DEFINE hs    == handler[h]
               swept == Sweep(Locked, hs.stamp)
    <2>1. hs \in HandlerState /\ hs.stamp \in Nat
      BY <1>1 DEF TypeOK, HandlerState
    <2>2. hs.phase = "stamped" /\ hs.id \in Id /\ (hs.op = "talk" => hs.talk \in Talk)
      BY <1>1, <1>5 DEF HandlerLocked, TalkKnown, TalkBusy, TalkAdmitted, Result, Cancel,
                   TypeInv, Named
    <2>3. swept \in InnerType
      BY <1>3, <2>1, SweepType
    <2>4. Sound(swept, worker.id, worker.serial, admitted)
      BY <1>3, <2>1, SweepSound
    <2> HIDE DEF swept
    <2>5. CASE TalkKnown(h) \/ TalkBusy(h) \/ Result(h)
      <3>1. Unlock(swept) /\ worker' = worker /\ admitted' = admitted
        BY <2>5 DEF TalkKnown, TalkBusy, Result, swept
      <3> QED BY <1>4, <2>3, <2>4, <3>1, SoundUnlocked
    <2>6. CASE TalkAdmitted(h)
      <3> DEFINE done == Admit(swept, hs.id, hs.talk, hs.stamp, admitted + 1)
      <3>1. /\ swept.jobs[hs.id] = None /\ hs.talk \in Talk /\ Unlock(done)
            /\ admitted' = admitted + 1 /\ Notify
        BY <2>2, <2>6 DEF TalkAdmitted, swept
      <3>2. admitted + 1 \in Serial
        BY <1>4 DEF Serial
      <3>3. done \in InnerType
        BY <2>1, <2>2, <2>3, <3>1, <3>2, AdmitType
      <3>4. Sound(done, worker.id, worker.serial, admitted + 1)
        BY <1>4, <2>1, <2>2, <2>3, <2>4, <3>1, AdmitSound
      <3>5. worker'.id = worker.id /\ worker'.serial = worker.serial
        BY <1>4, <3>1 DEF Notify, Worker
      <3> HIDE DEF done
      <3> QED BY <1>4, <3>1, <3>3, <3>4, <3>5, SoundUnlocked
    <2>7. CASE Cancel(h)
      <3> DEFINE done == Settle(swept, {hs.id}, Canceled("canceled"), 0, hs.stamp)
      <3>1. Unlock(done) /\ worker' = worker /\ admitted' = admitted
        BY <2>7 DEF Cancel, swept
      <3>2. done \in InnerType /\ Sound(done, worker.id, worker.serial, admitted)
        BY <2>1, <2>3, <2>4, SettleType, SettleSound, StateTypes
      <3> HIDE DEF done
      <3> QED BY <1>4, <3>1, <3>2, SoundUnlocked
    <2> QED BY <1>5, <2>5, <2>6, <2>7 DEF HandlerLocked
  <1>6. CASE NextJob
    <2> PICK e \in queue : /\ Runnable(e)
                           /\ Unlock([Popped(Before(e)) EXCEPT !.queue = @ \ {e},
                                         !.running = [id |-> e.id, conn |-> 0]])
                           /\ worker' = [Between EXCEPT !.phase = "connecting", !.id = e.id,
                                            !.serial = e.serial, !.due = Due(jobs[e.id])]
                           /\ admitted' = admitted
      BY <1>6 DEF NextJob
    <2> DEFINE r == Popped(Before(e))
    <2>1. worker.phase = "seeking" /\ worker.id = None
      BY <1>1, <1>6 DEF NextJob, TypeInv, WorkerHasJob, Between
    <2>2. /\ r \in InnerType
          /\ Sound(r, None, worker.serial, admitted)
          /\ e \in r.queue /\ r.jobs[e.id] = jobs[e.id]
      <3>1. Before(e) \in SUBSET queue /\ e \in queue \ Before(e)
        BY <1>1 DEF Before, TypeOK, Entry, Serial
      <3> QED BY <2>1, <3>1, PoppedSound
    <2>3. worker'.id = e.id /\ worker'.serial = e.serial
      BY DEF Between
    <2>4. /\ IsPending(r.jobs[e.id]) /\ r.jobs[e.id].serial = e.serial
          /\ e.id \in Id /\ e = [serial |-> e.serial, id |-> e.id]
      BY <2>2 DEF Sound, Placed, InnerType, Entry
    <2>5. r.jobs = jobs' /\ queue' = r.queue \ {e}
      BY <2>2 DEF Unlock, InnerType
    <2> HIDE DEF r
    <2>6. None \notin Id
      BY NoneAssumption
    <2>7. ASSUME NEW j \in Id, IsPending(jobs'[j])
          PROVE  ([serial |-> jobs'[j].serial, id |-> j] \in queue')
                   <=> ~(j = e.id /\ jobs'[j].serial = e.serial)
      <3>1. [serial |-> jobs'[j].serial, id |-> j] \in r.queue
        BY <2>2, <2>5, <2>6, <2>7 DEF Sound, Placed
      <3>2. CASE j = e.id
        BY <2>4, <2>5, <3>2
      <3>3. CASE j # e.id
        BY <2>4, <2>5, <3>1, <3>3
      <3> QED BY <3>2, <3>3
    <2>8. Placed(Locked', worker'.id, worker'.serial)
      BY <2>2, <2>3, <2>5, <2>7 DEF Sound, Placed, Locked
    <2>9. OnePerLine(Locked') /\ Numbered(Locked', admitted')
      BY <2>2, <2>5 DEF Sound, OnePerLine, Numbered, Locked
    <2>10. worker'.serial <= admitted'
      BY <2>2, <2>3, <2>4 DEF Sound, Numbered, IsPending
    <2> QED BY <2>8, <2>9, <2>10 DEF Sound
  <1>7. CASE NothingToRun
    <2>1. Unlock(Popped(queue)) /\ admitted' = admitted
          /\ worker'.id = worker.id /\ worker'.serial = worker.serial
      BY <1>4, <1>7 DEF NothingToRun, Worker
    <2>2. /\ Popped(queue) \in InnerType
          /\ Sound(Popped(queue), worker.id, worker.serial, admitted)
      BY PoppedSound
    <2> QED BY <1>4, <2>1, <2>2, SoundUnlocked
  <1>8. CASE Finish
    <2> DEFINE swept == Sweep(Freed, worker.stamp)
               done  == Settle(swept, {worker.id}, worker.outcome, worker.serial,
                               worker.stamp)
    <2>1. /\ Freed \in InnerType
          /\ Sound(Freed, worker.id, worker.serial, admitted)
      BY <1>3 DEF Freed, Locked, InnerType, Running, NotRunning, Sound, Placed,
                  OnePerLine, Numbered
    <2>2. /\ worker.stamp \in Nat /\ worker.id \in Id
          /\ worker.outcome \in State \ {Pending}
      BY <1>1, <1>4, <1>8, StateTypes DEF Finish, Worker, TypeInv, WorkerHasJob
    <2>3. swept \in InnerType /\ Sound(swept, worker.id, worker.serial, admitted)
      BY <2>1, <2>2, SweepType, SweepSound
    <2> HIDE DEF swept
    <2>4. done \in InnerType /\ Sound(done, worker.id, worker.serial, admitted)
      BY <1>4, <2>2, <2>3, SettleType, SettleSound
    <2>5. ~IsPending(done.jobs[worker.id])
      BY <1>4, <2>2, <2>3, SettledIsNotPending
    <2>6. Unlock(done) /\ worker' = Between /\ admitted' = admitted
      BY <1>8 DEF Finish, swept
    <2> HIDE DEF done
    <2>7. Sound(done, None, 0, admitted)
      BY <2>4, <2>5, NoneAssumption DEF Sound, Placed
    <2> QED BY <1>4, <2>4, <2>6, <2>7, SoundUnlocked DEF Between
  <1>9. CASE /\ UNCHANGED <<jobs, queue, admitted>>
             /\ worker'.id = worker.id /\ worker'.serial = worker.serial
    BY <1>9, SoundElsewhere
  <1>10. ASSUME NEW outcome, Generated(outcome)
         PROVE  /\ UNCHANGED <<jobs, queue, admitted>>
                /\ worker'.id = worker.id /\ worker'.serial = worker.serial
    BY <1>4, <1>10 DEF Generated, inner, Worker
  <1>11. CASE ConnectFails \/ ConnectTimesOut \/ AttachRefused \/ Respond \/ PostTimesOut
              \/ PostAborted \/ CannedReply
    BY <1>9, <1>10, <1>11 DEF ConnectFails, ConnectTimesOut, AttachRefused, Respond,
           PostTimesOut, PostAborted, CannedReply
  <1>12. CASE SpuriousWakeup \/ Attach \/ Tick \/ UNCHANGED vars
              \/ \E h \in Handler : Arrive(h) \/ ShutDown(h)
    <2>1. UNCHANGED <<jobs, queue, admitted>>
      BY <1>12 DEF SpuriousWakeup, Attach, Tick, vars, Arrive, ShutDown, inner
    <2>2. worker'.id = worker.id /\ worker'.serial = worker.serial
      BY <1>4, <1>12 DEF SpuriousWakeup, Attach, Tick, vars, Arrive, ShutDown, inner, Worker
    <2> QED BY <1>9, <2>1, <2>2
  <1> QED BY <1>5, <1>6, <1>7, <1>8, <1>11, <1>12
          DEF Next, HandlerStep, WorkerStep, WorkerAlone

\* A sound store has a place for every pending job.
LEMMA SoundGivesPlaces == SoundInv => EveryPendingJobHasAPlace
  <1> SUFFICES ASSUME SoundInv PROVE EveryPendingJobHasAPlace
    OBVIOUS
  <1>1. worker \in Worker /\ WorkerHasJob
    BY DEF SoundInv, TypeInv, TypeOK
  <1>2. \A j \in Id : Busying(j) <=> (worker.id = j /\ worker.serial = jobs[j].serial)
    <2>1. worker.phase \in {"seeking", "waiting"} => worker.id = None
      BY <1>1 DEF WorkerHasJob, Between
    <2> QED BY <1>1, <2>1, NoneAssumption DEF Busying, Worker
  <1> QED BY <1>2 DEF SoundInv, Sound, Placed, Locked, EveryPendingJobHasAPlace, Queued

\* No job is lost and none is run twice: a PENDING job is on the queue or in the
\* worker's hands, never both, and the queue holds nothing else.
THEOREM NoJobIsLost == Spec => []EveryPendingJobHasAPlace
  BY InitSoundInv, SoundInvStep, SoundGivesPlaces, PTL DEF Spec

\* In a sound store the pending jobs of a line are at most one.
LEMMA SoundGivesLines == SoundInv => OnePendingPerLine
  BY DEF SoundInv, Sound, OnePerLine, SameLine, Locked, OnePendingPerLine

\* "By construction at most one": superseding keeps the pending jobs of an npc
\* and scope at most one.
THEOREM LinesAreExclusive == Spec => []OnePendingPerLine
  BY InitSoundInv, SoundInvStep, SoundGivesLines, PTL DEF Spec


-----------------------------------------------------------------------------
(* Limits.  A section that admits nothing lets queue and store only shrink. *)

Shrinks(s, r) == r.queue \subseteq s.queue /\ StoredIds(r) \subseteq StoredIds(s)

\* Shrinking twice is shrinking.
LEMMA ShrinksTwice ==
    ASSUME NEW s, NEW r, NEW t, Shrinks(s, r), Shrinks(r, t)
    PROVE  Shrinks(s, t)
  BY DEF Shrinks

\* Settling stores no job and queues none.
LEMMA SettleShrinks ==
    ASSUME NEW s \in InnerType, NEW S, NEW state \in State, NEW by \in Nat,
           NEW now \in Nat
    PROVE  /\ Shrinks(s, Settle(s, S, state, by, now))
           /\ StoredIds(s) \subseteq StoredIds(Settle(s, S, state, by, now))
  <1> DEFINE r == Settle(s, S, state, by, now)
  <1>1. r.queue \subseteq s.queue
    BY DEF Settle, Leave
  <1>2. ASSUME NEW j \in Id PROVE r.jobs[j] # None <=> s.jobs[j] # None
    <2>1. CASE j \in S /\ IsPending(s.jobs[j])
      BY <2>1, SettleEnds, NoneAssumption DEF IsPending
    <2>2. CASE ~(j \in S /\ IsPending(s.jobs[j]))
      BY <2>2, SettleSpares
    <2> QED BY <2>1, <2>2
  <1> QED BY <1>1, <1>2 DEF Shrinks, StoredIds

\* Nor does removing, which takes exactly the ids it is given.
LEMMA RemoveShrinks ==
    ASSUME NEW s \in InnerType, NEW S
    PROVE  Shrinks(s, Remove(s, S)) /\ StoredIds(Remove(s, S)) = StoredIds(s) \ S
  BY RemoveType DEF Shrinks, StoredIds

\* Nor does the sweep.
LEMMA SweepShrinks ==
    ASSUME NEW s \in InnerType, NEW now \in Nat
    PROVE  Shrinks(s, Sweep(s, now))
  <1> DEFINE overdue == {j \in PendingIds(s) : now >= Due(s.jobs[j])}
             swept   == Settle(s, overdue, Failed("timeout"), 0, now)
             expired == {j \in TerminalIds(swept) : now - swept.jobs[j].finished >= Ttl}
  <1>1. swept \in InnerType /\ Shrinks(s, swept)
    BY SettleType, SettleShrinks, StateTypes
  <1> HIDE DEF swept
  <1>2. Shrinks(swept, Remove(swept, expired))
    BY <1>1, RemoveShrinks
  <1> QED BY <1>1, <1>2, ShrinksTwice DEF Sweep, swept

\* Within the limits, of an Inner.
Small(s) == /\ Cardinality(StoredIds(s)) <= MaxJobs
            /\ IsFiniteSet(s.queue) /\ Cardinality(s.queue) <= QueueLen

\* The store is finite, as ids are.
LEMMA StoredFinite ==
    ASSUME NEW s PROVE IsFiniteSet(StoredIds(s)) /\ Cardinality(StoredIds(s)) \in Nat
  <1>1. StoredIds(s) \in SUBSET Id
    BY DEF StoredIds
  <1> QED BY <1>1, IdAssumption, FS_Subset, FS_CardinalityType

\* What shrinks stays within the limits.
LEMMA ShrinksSmall ==
    ASSUME NEW s, NEW r, Shrinks(s, r), Small(s)
    PROVE  Small(r)
  <1>1. Cardinality(StoredIds(r)) <= Cardinality(StoredIds(s))
    BY StoredFinite, FS_Subset DEF Shrinks
  <1>2. IsFiniteSet(r.queue) /\ Cardinality(r.queue) <= Cardinality(s.queue)
    BY FS_Subset DEF Shrinks, Small
  <1>3. Cardinality(r.queue) \in Nat /\ Cardinality(s.queue) \in Nat
    BY <1>2, FS_CardinalityType DEF Small
  <1> QED BY <1>1, <1>2, <1>3, StoredFinite, LimitsAssumption DEF Small

\* Among finitely many terminal jobs one ended first.
LEMMA OneEndedFirst ==
    ASSUME NEW s \in InnerType, TerminalIds(s) # {}
    PROVE  \E j \in TerminalIds(s) : {i \in TerminalIds(s) : EndedBefore(s, i, j)} = {}
  <1> DEFINE T         == TerminalIds(s)
             Ahead(j) == {i \in T : EndedBefore(s, i, j)}
             P         == {Ahead(j) : j \in T}
  <1>1. IsFiniteSet(T)
    <2>1. T \in SUBSET Id
      BY DEF TerminalIds
    <2> QED BY <2>1, IdAssumption, FS_Subset
  <1>2. P \subseteq FiniteSubsetsOf(T) /\ P # {}
    <2>1. \A j \in T : Ahead(j) \in SUBSET T /\ IsFiniteSet(Ahead(j))
      <3> HIDE DEF T
      <3> QED BY <1>1, FS_Subset
    <2> QED BY <2>1 DEF FiniteSubsetsOf
  <1>3. PICK p \in P : \A q \in P : <<q, p>> \notin StrictSubsetOrdering(T)
    <2> HIDE DEF P
    <2> QED BY <1>2, FS_StrictSubsetOrderingWellFounded, WFMin
  <1>4. PICK j \in T : p = Ahead(j)
    OBVIOUS
  <1>5. ASSUME NEW i \in Ahead(j) PROVE FALSE
    <2>1. \A k \in T : k \in Nat /\ s.jobs[k].finished \in Nat
      BY IdAssumption, StoredIsJob DEF TerminalIds, IsTerminal, Job
    <2>2. Ahead(i) \subseteq Ahead(j)
      BY <1>5, <2>1 DEF EndedBefore
    <2>3. i \notin Ahead(i)
      BY <1>5, <2>1 DEF EndedBefore
    <2>4. Ahead(i) # Ahead(j)
      BY <1>5, <2>3
    <2>5. <<Ahead(i), p>> \in StrictSubsetOrdering(T)
      BY <1>4, <2>2, <2>4 DEF StrictSubsetOrdering
    <2> QED BY <1>3, <1>5, <2>5
  <1> QED BY <1>4, <1>5

\* Eviction makes room for one where there is a terminal job.
LEMMA EvictedEnough ==
    ASSUME NEW s \in InnerType, Cardinality(StoredIds(s)) <= MaxJobs,
           Cardinality(StoredIds(s)) >= MaxJobs => TerminalIds(s) # {}
    PROVE  Cardinality(StoredIds(s) \ Evicted(s)) < MaxJobs
  <1> DEFINE all  == StoredIds(s)
             gone == Evicted(s)
  <1>1. IsFiniteSet(all) /\ Cardinality(all) \in Nat /\ MaxJobs \in Nat
    BY StoredFinite, LimitsAssumption
  <1>2. CASE Cardinality(all) = MaxJobs
    <2>1. PICK j \in TerminalIds(s) : {i \in TerminalIds(s) : EndedBefore(s, i, j)} = {}
      BY <1>2, OneEndedFirst, LimitsAssumption
    <2>2. j \in gone
      BY <1>1, <1>2, <2>1, FS_EmptySet DEF Evicted
    <2>3. j \in all
      BY DEF TerminalIds, IsTerminal, StoredIds
    <2>4. Cardinality(all \ {j}) = MaxJobs - 1 /\ IsFiniteSet(all \ {j})
      <3> HIDE DEF all
      <3> QED BY <1>1, <1>2, <2>3, FS_RemoveElement
    <2>5. Cardinality(all \ gone) <= Cardinality(all \ {j})
      <3>1. all \ gone \in SUBSET (all \ {j})
        BY <2>2
      <3> QED BY <2>4, <3>1, FS_Subset
    <2>6. Cardinality(all \ gone) \in Nat
      <3> HIDE DEF gone, all
      <3> QED BY <1>1, FS_Difference, FS_CardinalityType
    <2> QED BY <1>1, <2>4, <2>5, <2>6
  <1>3. CASE Cardinality(all) # MaxJobs
    <2>1. Cardinality(all \ gone) <= Cardinality(all) /\ Cardinality(all \ gone) \in Nat
      <3> HIDE DEF gone, all
      <3>1. all \ gone \in SUBSET all
        OBVIOUS
      <3> QED BY <1>1, <3>1, FS_Subset, FS_CardinalityType
    <2> QED BY <1>1, <1>3, <2>1
  <1> QED BY <1>2, <1>3

\* Admission keeps to the limits: NoRoom was looked at before it.
LEMMA AdmitSmall ==
    ASSUME NEW s \in InnerType, NEW i \in Id, NEW talk \in Talk, NEW now \in Nat,
           NEW serial \in Serial, Small(s), ~NoRoom(s, talk)
    PROVE  Small(Admit(s, i, talk, now, serial))
  <1> DEFINE state   == Canceled("superseded")
             settled == Settle(s, Victims(s, talk), state, 0, now)
             roomy   == Remove(settled, Evicted(settled))
             r       == Insert(roomy, i, talk, now, serial)
  <1>1. settled \in InnerType /\ Shrinks(s, settled) /\ StoredIds(settled) = StoredIds(s)
    <2>1. state \in State
      BY StateTypes
    <2> HIDE DEF state
    <2>2. settled \in InnerType /\ Shrinks(s, settled)
      BY <2>1, SettleType, SettleShrinks
    <2>3. StoredIds(s) \subseteq StoredIds(settled)
      BY <2>1, SettleShrinks
    <2> QED BY <2>2, <2>3 DEF Shrinks
  <1>2. settled.queue = {e \in s.queue : e.id \notin Victims(s, talk)}
    <2>1. settled.queue = {e \in s.queue : e.id \notin Victims(s, talk) \cap PendingIds(s)}
      BY DEF Settle, Leave
    <2>2. Victims(s, talk) \cap PendingIds(s) = Victims(s, talk)
      BY DEF Victims
    <2> QED BY <2>1, <2>2
  <1>3. TerminalIds(s) \subseteq TerminalIds(settled) /\ Victims(s, talk) \subseteq TerminalIds(settled)
    <2>1. \A j \in TerminalIds(s) : settled.jobs[j] = s.jobs[j]
      <3> HIDE DEF state
      <3> QED BY SettleSpares DEF TerminalIds, IsTerminal, IsPending
    <2>2. ASSUME NEW j \in Victims(s, talk) PROVE j \in TerminalIds(settled)
      <3>1. j \in Id /\ IsPending(s.jobs[j])
        BY DEF Victims, PendingIds
      <3> QED BY <3>1, SettleEnds, StateTypes, NoneAssumption DEF TerminalIds, IsTerminal
    <2> QED BY <2>1, <2>2 DEF TerminalIds
  <1>4. Cardinality(settled.queue) < QueueLen /\ IsFiniteSet(settled.queue)
    <2>1. IsFiniteSet(settled.queue) /\ Cardinality(settled.queue) \in Nat
      BY <1>1, FS_Subset, FS_CardinalityType DEF Shrinks, Small
    <2> QED BY <1>2, <2>1, LimitsAssumption DEF NoRoom
  <1>5. Cardinality(StoredIds(settled) \ Evicted(settled)) < MaxJobs
    <2>1. Cardinality(StoredIds(settled)) <= MaxJobs
      BY <1>1 DEF Small
    <2>2. Cardinality(StoredIds(settled)) >= MaxJobs => TerminalIds(settled) # {}
      BY <1>1, <1>3 DEF NoRoom
    <2> HIDE DEF settled
    <2> QED BY <1>1, <2>1, <2>2, EvictedEnough
  <1> HIDE DEF settled
  <1>6. /\ roomy \in InnerType /\ roomy.queue = settled.queue
        /\ Cardinality(StoredIds(roomy)) < MaxJobs
    BY <1>1, <1>5, RemoveType, RemoveShrinks
  <1> HIDE DEF roomy
  <1>7. /\ r.queue = roomy.queue \cup {[serial |-> serial, id |-> i]}
        /\ StoredIds(r) \subseteq StoredIds(roomy) \cup {i}
    BY <1>6 DEF Insert, InnerType, StoredIds
  <1> HIDE DEF r
  <1>8. IsFiniteSet(r.queue) /\ Cardinality(r.queue) <= QueueLen
    <2> DEFINE entry == [serial |-> serial, id |-> i]
               some  == roomy.queue
               more  == some \cup {entry}
    <2>1. IsFiniteSet(some) /\ Cardinality(some) \in Nat /\ Cardinality(some) < QueueLen
      BY <1>4, <1>6, FS_CardinalityType
    <2>2. r.queue = more
      BY <1>7
    <2> HIDE DEF entry, some
    <2>3. IsFiniteSet(more) /\ Cardinality(more) <= Cardinality(some) + 1
      <3>1. IsFiniteSet(more) /\ Cardinality(more) =
               IF entry \in some THEN Cardinality(some) ELSE Cardinality(some) + 1
        BY <2>1, FS_AddElement, Zenon
      <3> QED BY <2>1, <3>1
    <2>4. Cardinality(more) \in Nat
      BY <2>3, FS_CardinalityType
    <2> QED BY <2>1, <2>2, <2>3, <2>4, LimitsAssumption
  <1>9. Cardinality(StoredIds(r)) <= MaxJobs
    <2> DEFINE some == StoredIds(roomy)
               more == some \cup {i}
    <2>1. IsFiniteSet(some) /\ Cardinality(some) \in Nat /\ Cardinality(some) < MaxJobs
      BY <1>6, StoredFinite
    <2> HIDE DEF some
    <2>2. IsFiniteSet(more) /\ Cardinality(more) <= Cardinality(some) + 1 /\ Cardinality(more) \in Nat
      BY <2>1, FS_AddElement
    <2>3. Cardinality(StoredIds(r)) <= Cardinality(more)
      BY <1>7, <2>2, FS_Subset DEF some
    <2> QED BY <2>1, <2>2, <2>3, StoredFinite, LimitsAssumption
  <1> QED BY <1>8, <1>9 DEF Small, Admit, r, roomy, settled

\* The inductive invariant: the limits, and a queue that is empty while the
\* worker sleeps.
SmallInv == TypeInv /\ Small(Locked) /\ SleepsOnlyWhenIdle

\* Dropping the lock keeps the limits of what the section left.
LEMMA SmallUnlocked ==
    ASSUME NEW s, Unlock(s), Small(s)
    PROVE  Small(Locked')
  BY DEF Unlock, Locked, Small, StoredIds

\* The empty store is within the limits, and its worker does not sleep.
LEMMA InitSmallInv == Init => SmallInv
  <1> SUFFICES ASSUME Init PROVE SmallInv
    OBVIOUS
  <1>1. StoredIds(Locked) = {} /\ Locked.queue = {}
    BY DEF Init, StoredIds, Locked
  <1>2. Small(Locked)
    BY <1>1, FS_EmptySet, LimitsAssumption DEF Small
  <1> QED BY <1>2, InitTypeInv DEF Init, SmallInv, SleepsOnlyWhenIdle

\* Every step keeps SmallInv.
THEOREM SmallInvStep == SmallInv /\ [Next]_vars => SmallInv'
  <1> SUFFICES ASSUME SmallInv, [Next]_vars PROVE SmallInv'
    OBVIOUS
  <1>1. TypeInv /\ TypeOK /\ TypeInv' /\ Locked \in InnerType
    BY TypeInvStep, LockedType DEF SmallInv, TypeInv
  <1>2. worker \in Worker /\ worker' \in Worker
    BY <1>1 DEF TypeInv, TypeOK
  <1> SUFFICES Small(Locked') /\ SleepsOnlyWhenIdle'
    BY <1>1 DEF SmallInv
  \* A section that only shrinks the store, while the worker goes on as before.
  <1>3. ASSUME NEW s, Unlock(s), Shrinks(Locked, s), worker' = worker
        PROVE  Small(Locked') /\ SleepsOnlyWhenIdle'
    BY <1>3, ShrinksSmall, SmallUnlocked DEF SmallInv, SleepsOnlyWhenIdle, Shrinks, Locked, Unlock
  <1>4. ASSUME NEW h \in Handler, HandlerLocked(h)
        PROVE  Small(Locked') /\ SleepsOnlyWhenIdle'
    <2> DEFINE hs    == handler[h]
               swept == Sweep(Locked, hs.stamp)
    <2>1. hs.stamp \in Nat
      BY <1>1 DEF TypeOK, HandlerState
    <2>2. hs.phase = "stamped" /\ hs.id \in Id /\ (hs.op = "talk" => hs.talk \in Talk)
      BY <1>1, <1>4 DEF HandlerLocked, TalkKnown, TalkBusy, TalkAdmitted, Result, Cancel,
                   TypeInv, Named
    <2>3. swept \in InnerType /\ Shrinks(Locked, swept)
      BY <1>1, <2>1, SweepType, SweepShrinks
    <2> HIDE DEF swept
    <2>4. CASE TalkKnown(h) \/ TalkBusy(h) \/ Result(h)
      BY <1>3, <2>3, <2>4 DEF TalkKnown, TalkBusy, Result, swept
    <2>5. CASE TalkAdmitted(h)
      <3> DEFINE done == Admit(swept, hs.id, hs.talk, hs.stamp, admitted + 1)
      <3>1. /\ hs.talk \in Talk /\ Unlock(done) /\ Notify /\ ~NoRoom(swept, hs.talk)
        BY <2>2, <2>5 DEF TalkAdmitted, swept
      <3>2. admitted + 1 \in Serial
        BY <1>1 DEF TypeOK, Serial
      <3>3. Small(swept)
        BY <2>3, ShrinksSmall DEF SmallInv
      <3>4. Small(done)
        BY <2>1, <2>2, <2>3, <3>1, <3>2, <3>3, AdmitSmall
      <3> HIDE DEF done
      <3> QED BY <1>2, <3>1, <3>4, SmallUnlocked DEF Notify, SleepsOnlyWhenIdle, Worker
    <2>6. CASE Cancel(h)
      <3> DEFINE done == Settle(swept, {hs.id}, Canceled("canceled"), 0, hs.stamp)
      <3>1. Unlock(done) /\ worker' = worker
        BY <2>6 DEF Cancel, swept
      <3>2. Shrinks(swept, done)
        BY <2>1, <2>3, SettleShrinks, StateTypes
      <3> HIDE DEF done
      <3> QED BY <1>3, <2>3, <3>1, <3>2, ShrinksTwice
    <2> QED BY <1>4, <2>4, <2>5, <2>6 DEF HandlerLocked
  <1>5. ASSUME NEW S \in SUBSET queue
        PROVE  /\ Popped(S) \in InnerType
               /\ Shrinks(Locked, Popped(S)) /\ Popped(S).queue \subseteq queue \ S
    <2> DEFINE s == [Locked EXCEPT !.queue = queue \ S]
    <2>1. s \in InnerType /\ s.queue = queue \ S /\ StoredIds(s) = StoredIds(Locked)
      BY <1>1 DEF InnerType, Locked, StoredIds
    <2> HIDE DEF s
    <2>2. Shrinks(s, Popped(S)) /\ Popped(S) \in InnerType
      BY <1>1, <2>1, SettleShrinks, SettleType, StateTypes DEF Popped, s, TypeOK
    <2> QED BY <2>1, <2>2 DEF Shrinks, Locked
  <1>6. CASE NextJob
    <2> PICK e \in queue : /\ Unlock([Popped(Before(e)) EXCEPT !.queue = @ \ {e},
                                         !.running = [id |-> e.id, conn |-> 0]])
                           /\ worker'.phase = "connecting"
      BY <1>6 DEF NextJob, Between
    <2> DEFINE r == Popped(Before(e))
               s == [r EXCEPT !.queue = @ \ {e}, !.running = [id |-> e.id, conn |-> 0]]
    <2>1. Shrinks(Locked, r) /\ r \in InnerType
      BY <1>5 DEF Before
    <2> HIDE DEF r
    <2>2. Shrinks(Locked, s)
      BY <2>1 DEF Shrinks, StoredIds, InnerType
    <2>3. Small(s)
      BY <2>2, ShrinksSmall DEF SmallInv
    <2> HIDE DEF s
    <2>4. Small(Locked')
      BY <2>3, SmallUnlocked DEF s, r
    <2> QED BY <2>4 DEF SleepsOnlyWhenIdle
  <1>7. CASE NothingToRun
    <2>1. Unlock(Popped(queue)) /\ Small(Popped(queue)) /\ Popped(queue).queue = {}
      BY <1>5, <1>7, ShrinksSmall DEF NothingToRun, SmallInv
    <2> QED BY <2>1, SmallUnlocked DEF SleepsOnlyWhenIdle, Unlock
  <1>8. CASE Finish
    <2> DEFINE swept == Sweep(Freed, worker.stamp)
               done  == Settle(swept, {worker.id}, worker.outcome, worker.serial,
                               worker.stamp)
    <2>1. Freed \in InnerType /\ Shrinks(Locked, Freed)
      BY <1>1 DEF Freed, Locked, InnerType, Running, NotRunning, Shrinks, StoredIds
    <2>2. /\ worker.stamp \in Nat /\ worker.serial \in Nat /\ worker.outcome \in State
      BY <1>1, <1>2, <1>8, StateTypes DEF Finish, Worker, TypeInv, WorkerHasJob
    <2>3. swept \in InnerType /\ Shrinks(Freed, swept)
      BY <2>1, <2>2, SweepType, SweepShrinks
    <2> HIDE DEF swept
    <2>4. Shrinks(swept, done)
      BY <2>2, <2>3, SettleShrinks
    <2>5. Unlock(done) /\ worker' = Between
      BY <1>8 DEF Finish, swept
    <2> HIDE DEF done
    <2>6. Small(done)
      BY <2>1, <2>3, <2>4, ShrinksTwice, ShrinksSmall DEF SmallInv
    <2> QED BY <2>5, <2>6, SmallUnlocked DEF SleepsOnlyWhenIdle, Between
  <1>9. CASE /\ UNCHANGED <<jobs, queue>>
             /\ worker'.phase = "waiting" => worker.phase = "waiting"
    BY <1>9 DEF SmallInv, Small, StoredIds, Locked, SleepsOnlyWhenIdle
  <1>10. CASE \/ ConnectFails \/ ConnectTimesOut \/ AttachRefused \/ Respond \/ PostTimesOut
              \/ PostAborted \/ CannedReply \/ SpuriousWakeup \/ Attach
    BY <1>2, <1>9, <1>10 DEF ConnectFails, ConnectTimesOut, AttachRefused, Respond,
           PostTimesOut, PostAborted, CannedReply, SpuriousWakeup, Attach, Generated, inner, Worker
  <1>11. CASE Tick \/ UNCHANGED vars \/ \E h \in Handler : Arrive(h) \/ ShutDown(h)
    BY <1>9, <1>11 DEF Tick, vars, Arrive, ShutDown, inner
  <1> QED BY <1>4, <1>6, <1>7, <1>8, <1>10, <1>11
          DEF Next, HandlerStep, WorkerStep, WorkerAlone

\* The store never holds more than max_jobs, nor the queue more than queue_len:
\* what an admission evicts is enough for the job it adds.
THEOREM LimitsAreKept == Spec => []WithinLimits
  <1>1. SmallInv => WithinLimits
    BY DEF SmallInv, Small, WithinLimits, Locked, StoredIds
  <1> QED BY <1>1, InitSmallInv, SmallInvStep, PTL DEF Spec

\* No wakeup is lost: while the worker waits on the condition variable, nothing is
\* queued.
THEOREM SleepIsIdle == Spec => []SleepsOnlyWhenIdle
  <1>1. SmallInv => SleepsOnlyWhenIdle
    BY DEF SmallInv
  <1> QED BY <1>1, InitSmallInv, SmallInvStep, PTL DEF Spec

===============================================================================
