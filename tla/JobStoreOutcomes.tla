--------------------------- MODULE JobStoreOutcomes ---------------------------
(***************************************************************************)
(* Proofs about what becomes of jobs: that the deadline wins, that the     *)
(* outcome of a job id's first use is its own, that aborts reach the run   *)
(* they are meant for and no other, and that the store implements          *)
(* JobContract, for every value of the constants.                          *)
(***************************************************************************)
EXTENDS JobStoreSafety

-----------------------------------------------------------------------------
(* How one locked section moves the jobs.  A job stays, goes, or leaves     *)
(* PENDING with a verdict that respects its deadline and that is one of V:  *)
(* [id, state, by].                                                         *)

Timely(job) ==
    /\ job.state.code \in {"READY", "CANCELED"} => job.finished < Due(job)
    /\ job.state = Failed("timeout") /\ job.by \in {0, job.serial} => job.finished >= Due(job)

Ends(a, b) ==
    /\ IsPending(a) /\ IsTerminal(b) /\ b \in Job
    /\ b.serial = a.serial /\ b.talk = a.talk /\ b.created = a.created
    /\ Timely(b)

Goes(a, b) == a # None /\ b = None

Moves(s, r, V) ==
    \A j \in Id : \/ r.jobs[j] = s.jobs[j]
                  \/ Goes(s.jobs[j], r.jobs[j])
                  \/ /\ Ends(s.jobs[j], r.jobs[j])
                     /\ [id |-> j, state |-> r.jobs[j].state, by |-> r.jobs[j].by] \in V

\* What handlers, and the sweep, make of a job.
ByHand == [id : Id, state : {Failed("timeout"), Canceled("canceled"), Canceled("superseded")},
           by : {0}]

\* Jobs that move twice move once: only a pending job ends, and it ends once.
LEMMA MovesTwice ==
    ASSUME NEW s, NEW r, NEW t, NEW V, Moves(s, r, V), Moves(r, t, V)
    PROVE  Moves(s, t, V)
  BY DEF Moves, Ends, Goes, IsPending, IsTerminal

\* Settling moves jobs, if what it makes of them respects their deadlines.
LEMMA SettleMoves ==
    ASSUME NEW s \in InnerType, NEW S, NEW state \in State \ {Pending}, NEW by \in Nat,
           NEW now \in Nat, NEW V,
           \A j \in S \cap PendingIds(s) :
               /\ state.code \in {"READY", "CANCELED"} => now < Due(s.jobs[j])
               /\ state = Failed("timeout") /\ by \in {0, s.jobs[j].serial}
                     => now >= Due(s.jobs[j])
               /\ [id |-> j, state |-> state, by |-> by] \in V
    PROVE  Moves(s, Settle(s, S, state, by, now), V)
  <1> DEFINE r == Settle(s, S, state, by, now)
  <1> SUFFICES ASSUME NEW j \in Id
               PROVE  \/ r.jobs[j] = s.jobs[j]
                      \/ /\ Ends(s.jobs[j], r.jobs[j])
                         /\ [id |-> j, state |-> r.jobs[j].state, by |-> r.jobs[j].by] \in V
    BY DEF Moves
  <1>1. CASE j \in S /\ IsPending(s.jobs[j])
    <2>1. /\ r.jobs[j] \in Job
          /\ r.jobs[j].state = state /\ r.jobs[j].by = by /\ r.jobs[j].finished = now
          /\ r.jobs[j].serial = s.jobs[j].serial /\ r.jobs[j].talk = s.jobs[j].talk
          /\ r.jobs[j].created = s.jobs[j].created
      BY <1>1, SettleEnds
    <2> HIDE DEF r
    <2>2. j \in S \cap PendingIds(s)
      BY <1>1 DEF PendingIds
    <2>3. Timely(r.jobs[j])
      BY <2>1, <2>2 DEF Timely, Due
    <2> QED BY <1>1, <2>1, <2>2, <2>3, NoneAssumption DEF Ends, IsTerminal
  <1>2. CASE ~(j \in S /\ IsPending(s.jobs[j]))
    BY <1>2, SettleSpares
  <1> QED BY <1>1, <1>2

\* Removing terminal jobs moves jobs.
LEMMA RemoveMoves ==
    ASSUME NEW s \in InnerType, NEW S \in SUBSET TerminalIds(s), NEW V
    PROVE  Moves(s, Remove(s, S), V)
  BY RemoveType DEF Moves, Goes, TerminalIds, IsTerminal

\* After a sweep, what is pending is not overdue, and nothing that was pending
\* is gone: what has just ended is not past its time to live.
LEMMA SweepMoves ==
    ASSUME NEW s \in InnerType, NEW now \in Nat, NEW V, ByHand \subseteq V
    PROVE  /\ Moves(s, Sweep(s, now), V)
           /\ \A j \in Id : IsPending(Sweep(s, now).jobs[j]) => now < Due(Sweep(s, now).jobs[j])
           /\ \A j \in Id : IsPending(s.jobs[j]) => Sweep(s, now).jobs[j] # None
  <1> DEFINE timeout == Failed("timeout")
             overdue == {j \in PendingIds(s) : now >= Due(s.jobs[j])}
             swept   == Settle(s, overdue, timeout, 0, now)
             expired == {j \in TerminalIds(swept) : now - swept.jobs[j].finished >= Ttl}
             r       == Remove(swept, expired)
  <1>1. swept \in InnerType
    BY SettleType, StateTypes
  <1>2. timeout \in State \ {Pending} /\ timeout.code \notin {"READY", "CANCELED"}
    BY StateTypes DEF Failed
  <1>3. Moves(s, swept, V)
    <2>1. \A j \in overdue : [id |-> j, state |-> timeout, by |-> 0] \in V
      BY DEF ByHand, PendingIds
    <2> HIDE DEF timeout
    <2> QED BY <1>2, <2>1, SettleMoves
  <1>4. \A j \in Id : IsPending(swept.jobs[j]) =>
           swept.jobs[j] = s.jobs[j] /\ now < Due(swept.jobs[j])
    <2> SUFFICES ASSUME NEW j \in Id, IsPending(swept.jobs[j])
                 PROVE  swept.jobs[j] = s.jobs[j] /\ now < Due(swept.jobs[j])
      OBVIOUS
    <2>1. j \notin overdue
      <3> HIDE DEF timeout
      <3> QED BY <1>2, SettledIsNotPending
    <2>2. swept.jobs[j] = s.jobs[j]
      <3> HIDE DEF timeout
      <3> QED BY <2>1, SettleSpares
    <2>3. Due(s.jobs[j]) \in Nat
      BY <2>2, StoredIsJob, LimitsAssumption DEF IsPending, Due, Job
    <2> QED BY <2>1, <2>2, <2>3 DEF PendingIds
  <1>5. ASSUME NEW j \in Id, IsPending(s.jobs[j])
        PROVE  swept.jobs[j] # None /\ j \notin expired
    <2>1. CASE j \in overdue
      <3>1. swept.jobs[j] \in Job /\ swept.jobs[j].finished = now
        <4> HIDE DEF timeout
        <4> QED BY <1>2, <1>5, <2>1, SettleEnds
      <3> QED BY <3>1, NoneAssumption, LimitsAssumption
    <2>2. CASE j \notin overdue
      <3>1. swept.jobs[j] = s.jobs[j]
        <4> HIDE DEF timeout
        <4> QED BY <2>2, SettleSpares
      <3> QED BY <1>5, <3>1 DEF IsPending, TerminalIds, IsTerminal
    <2> QED BY <2>1, <2>2
  <1> HIDE DEF swept
  <1>6. Moves(swept, r, V)
    BY <1>1, RemoveMoves
  <1>7. \A j \in Id : r.jobs[j] = IF j \in expired THEN None ELSE swept.jobs[j]
    BY <1>1, RemoveType
  <1>8. Sweep(s, now) = r
    BY DEF Sweep, swept
  <1> HIDE DEF r, expired
  <1>9. \A j \in Id : IsPending(r.jobs[j]) => now < Due(r.jobs[j])
    BY <1>4, <1>7 DEF IsPending
  <1>10. \A j \in Id : IsPending(s.jobs[j]) => r.jobs[j] # None
    BY <1>5, <1>7
  <1> QED BY <1>3, <1>6, <1>8, <1>9, <1>10, MovesTwice

\* After the jobs of s have moved as handlers move them, the run n begins on the
\* id i, which is free by then.
Begins(s, after, i, n) ==
    \E r \in InnerType, new \in Job :
       /\ Moves(s, r, ByHand) /\ r.jobs[i] = None
       /\ IsPending(new) /\ new.serial = n /\ new.by = 0
       /\ after = [r.jobs EXCEPT ![i] = new]

\* An admission may come after other moves of its section.
LEMMA BeginsLater ==
    ASSUME NEW s, NEW t, NEW after, NEW i, NEW n, Moves(s, t, ByHand), Begins(t, after, i, n)
    PROVE  Begins(s, after, i, n)
  BY MovesTwice DEF Begins

\* An admission: the jobs move as in any section, and then one begins.
LEMMA AdmitMoves ==
    ASSUME NEW s \in InnerType, NEW i \in Id, NEW talk \in Talk, NEW now \in Nat,
           NEW serial \in Serial, s.jobs[i] = None,
           \A j \in Id : IsPending(s.jobs[j]) => now < Due(s.jobs[j])
    PROVE  Begins(s, Admit(s, i, talk, now, serial).jobs, i, serial)
  <1> DEFINE state   == Canceled("superseded")
             settled == Settle(s, Victims(s, talk), state, 0, now)
             roomy   == Remove(settled, Evicted(settled))
             new     == [talk |-> talk, state |-> Pending, by |-> 0,
                         created |-> now, finished |-> 0, serial |-> serial]
  <1>1. state \in State \ {Pending} /\ state # Failed("timeout")
    BY StateTypes DEF Canceled, Failed
  <1>2. settled \in InnerType /\ settled.jobs[i] = None
    BY <1>1, SettleType, SettleSpares DEF IsPending
  <1>3. Moves(s, settled, ByHand)
    <2>1. \A j \in Victims(s, talk) \cap PendingIds(s) :
             now < Due(s.jobs[j]) /\ [id |-> j, state |-> state, by |-> 0] \in ByHand
      BY DEF PendingIds, ByHand
    <2> HIDE DEF state
    <2> QED BY <1>1, <2>1, SettleMoves
  <1> HIDE DEF settled
  <1>4. Evicted(settled) \in SUBSET TerminalIds(settled)
    BY DEF Evicted
  <1>5. roomy \in InnerType /\ Moves(settled, roomy, ByHand) /\ roomy.jobs[i] = None
    BY <1>2, <1>4, RemoveType, RemoveMoves
  <1> HIDE DEF roomy
  <1>6. new \in Job
    BY StateTypes DEF Job
  <1>7. IsPending(new)
    BY <1>6, NoneAssumption DEF IsPending
  <1>8. Admit(s, i, talk, now, serial).jobs = [roomy.jobs EXCEPT ![i] = new]
    BY <1>5 DEF Admit, Insert, InnerType, roomy, settled
  <1>9. Moves(s, roomy, ByHand)
    BY <1>3, <1>5, MovesTwice
  <1>10. new.serial = serial /\ new.by = 0
    OBVIOUS
  <1> HIDE DEF new
  <1> QED BY <1>5, <1>6, <1>7, <1>8, <1>9, <1>10 DEF Begins

-----------------------------------------------------------------------------
(* How a step moves the jobs.                                               *)

\* What the run that the worker has writes, if it finishes now.
ByRun == {v \in [id : Id, state : Outcome, by : Serial] :
             /\ worker.phase = "finishing"
             /\ v = [id |-> worker.id, state |-> worker.outcome, by |-> worker.serial]}

Admits(i) ==
    /\ ~IsPending(jobs[i])
    /\ Begins(Locked, jobs', i, admitted + 1)
    /\ admitted' = admitted + 1
    /\ first' = [first EXCEPT ![i] = IF @ = 0 THEN admitted + 1 ELSE @]

\* While the worker has a run: the id was admitted first no later than as this
\* run, and last no earlier; the deadline it keeps is that of its job; a run ends
\* in a timeout after its deadline only, and as canceled only when its job has
\* left PENDING.
RunInv ==
    worker.phase \in {"connecting", "posting", "finishing"} =>
        LET job == jobs[worker.id]
        IN  /\ first[worker.id] \in 1 .. worker.serial
            /\ job # None => worker.serial <= job.serial
            /\ job # None /\ job.serial = worker.serial => worker.due = Due(job)
            /\ worker.phase = "finishing" /\ worker.outcome = Failed("timeout")
                  => worker.stamp >= worker.due
            /\ worker.phase = "finishing" /\ worker.outcome = Failed("canceled")
                  => ~(IsPending(job) /\ job.serial = worker.serial)

\* What the invariant says of one stored job, whose id was admitted first as n.
Own(job, n) ==
    /\ n \in 1 .. job.serial
    /\ IsTerminal(job) => Timely(job)
    /\ job.serial = n => job.by \in {0, job.serial} /\ job.state # Failed("canceled")

OutcomeInv == /\ SoundInv /\ RunInv
              /\ \A j \in Id : first[j] <= admitted
              /\ \A j \in Id : jobs[j] # None => Own(jobs[j], first[j])

\* Dropping the lock makes the moves of the section those of the step.
LEMMA LockedMoves ==
    ASSUME NEW s, NEW V, Unlock(s), Moves(Locked, s, V)
    PROVE  Moves(Locked, Locked', V)
  BY DEF Unlock, Locked, Moves

\* Every step moves the jobs as handlers do, or as the run that finishes does,
\* or admits one.
LEMMA StepMoves ==
    ASSUME SoundInv, RunInv, [Next]_vars
    PROVE  \/ (Moves(Locked, Locked', ByHand \cup ByRun) /\ UNCHANGED <<admitted, first>>)
           \/ \E h \in Handler : TalkAdmitted(h) /\ Admits(handler[h].id)
  <1> DEFINE V    == ByHand \cup ByRun
             Goal == Moves(Locked, Locked', V) /\ UNCHANGED <<admitted, first>>
  <1>1. TypeInv /\ TypeOK /\ Locked \in InnerType /\ worker \in Worker
    BY LockedType DEF SoundInv, TypeInv, TypeOK
  <1>2. ASSUME NEW h \in Handler, HandlerLocked(h)
        PROVE  Goal \/ (TalkAdmitted(h) /\ Admits(handler[h].id))
    <2> DEFINE hs    == handler[h]
               swept == Sweep(Locked, hs.stamp)
    <2>1. hs.stamp \in Nat
      BY <1>1 DEF TypeOK, HandlerState
    <2>2. hs.phase = "stamped" /\ hs.id \in Id /\ (hs.op = "talk" => hs.talk \in Talk)
      BY <1>1, <1>2 DEF HandlerLocked, TalkKnown, TalkBusy, TalkAdmitted, Result, Cancel,
                   TypeInv, Named
    <2>3. /\ swept \in InnerType /\ Moves(Locked, swept, ByHand) /\ Moves(Locked, swept, V)
          /\ \A j \in Id : IsPending(swept.jobs[j]) => hs.stamp < Due(swept.jobs[j])
          /\ \A j \in Id : IsPending(jobs[j]) => swept.jobs[j] # None
      <3> HIDE DEF V
      <3>1. ByHand \subseteq V /\ Locked.jobs = jobs
        BY DEF V, Locked
      <3> QED BY <1>1, <2>1, <3>1, SweepType, SweepMoves
    <2> HIDE DEF swept, V
    <2>4. CASE TalkKnown(h) \/ TalkBusy(h) \/ Result(h)
      BY <2>3, <2>4, LockedMoves DEF TalkKnown, TalkBusy, Result, swept
    <2>5. CASE TalkAdmitted(h)
      <3> DEFINE n    == admitted + 1
                 done == Admit(swept, hs.id, hs.talk, hs.stamp, n)
      <3>1. /\ swept.jobs[hs.id] = None /\ hs.talk \in Talk /\ Unlock(done)
            /\ admitted' = n
            /\ first' = [first EXCEPT ![hs.id] = IF @ = 0 THEN n ELSE @]
        BY <2>2, <2>5 DEF TalkAdmitted, swept
      <3>2. n \in Serial
        BY <1>1 DEF TypeOK, Serial
      <3> HIDE DEF hs, n
      <3>3. Begins(swept, done.jobs, hs.id, n)
        BY <2>1, <2>2, <2>3, <3>1, <3>2, AdmitMoves
      <3> HIDE DEF done
      <3>4. Begins(Locked, jobs', hs.id, n) /\ ~IsPending(jobs[hs.id])
        BY <2>2, <2>3, <3>1, <3>3, BeginsLater DEF Unlock
      <3>5. Admits(hs.id)
        BY <3>1, <3>4 DEF Admits, n
      <3> QED BY <2>5, <3>5 DEF hs
    <2>6. CASE Cancel(h)
      <3> DEFINE state == Canceled("canceled")
                 done  == Settle(swept, {hs.id}, state, 0, hs.stamp)
      <3>1. Unlock(done) /\ UNCHANGED <<admitted, first>>
        BY <2>6 DEF Cancel, swept
      <3>2. state \in State \ {Pending} /\ state # Failed("timeout")
        BY StateTypes DEF Canceled, Failed
      <3>3. \A j \in {hs.id} \cap PendingIds(swept) :
               hs.stamp < Due(swept.jobs[j]) /\ [id |-> j, state |-> state, by |-> 0] \in V
        BY <2>3 DEF PendingIds, ByHand, V
      <3> HIDE DEF state
      <3>4. Moves(swept, done, V)
        BY <2>1, <2>3, <3>2, <3>3, SettleMoves
      <3> HIDE DEF done
      <3> QED BY <2>3, <3>1, <3>4, MovesTwice, LockedMoves
    <2> QED BY <1>2, <2>4, <2>5, <2>6 DEF HandlerLocked
  <1>3. ASSUME NEW S \in SUBSET queue, \A e \in S : ~Runnable(e)
        PROVE  Popped(S) \in InnerType /\ Moves(Locked, Popped(S), V)
    <2> DEFINE s     == [Locked EXCEPT !.queue = queue \ S]
               ids   == {e.id : e \in S}
               state == Failed("timeout")
    <2>1. s \in InnerType /\ s.jobs = jobs
      BY <1>1 DEF InnerType, Locked
    <2>2. state \in State \ {Pending} /\ state.code \notin {"READY", "CANCELED"} /\ clock \in Nat
      BY <1>1, StateTypes DEF Failed, TypeOK
    <2>3. \A j \in ids \cap PendingIds(s) :
             clock >= Due(jobs[j]) /\ [id |-> j, state |-> state, by |-> 0] \in V
      <3> SUFFICES ASSUME NEW e \in S, IsPending(jobs[e.id]), e.id \in Id
                   PROVE  clock >= Due(jobs[e.id]) /\ [id |-> e.id, state |-> state, by |-> 0] \in V
        BY <2>1 DEF PendingIds
      <3>1. Due(jobs[e.id]) \in Nat
        BY <1>1, LimitsAssumption DEF TypeOK, IsPending, Due, Job
      <3> QED BY <1>3, <2>2, <3>1 DEF Runnable, ByHand
    <2> HIDE DEF s, ids, state, V
    <2>4. Moves(s, Settle(s, ids, state, 0, clock), V)
      BY <2>1, <2>2, <2>3, SettleMoves
    <2>5. Popped(S) = Settle(s, ids, state, 0, clock)
      BY DEF Popped, s, ids, state
    <2> QED BY <2>1, <2>2, <2>4, <2>5, SettleType DEF Moves, Locked
  <1>4. CASE NextJob
    <2> PICK e \in queue : /\ \A d \in Before(e) : ~Runnable(d)
                           /\ Unlock([Popped(Before(e)) EXCEPT !.queue = @ \ {e},
                                         !.running = [id |-> e.id, conn |-> 0]])
                           /\ UNCHANGED <<admitted, first>>
      BY <1>4 DEF NextJob
    <2>1. Popped(Before(e)) \in InnerType /\ Moves(Locked, Popped(Before(e)), V)
      <3>1. Before(e) \in SUBSET queue
        BY DEF Before
      <3> HIDE DEF V
      <3> QED BY <1>3, <3>1
    <2>2. jobs' = Popped(Before(e)).jobs
      BY <2>1 DEF Unlock, InnerType
    <2> QED BY <2>1, <2>2 DEF Moves, Locked
  <1>5. CASE NothingToRun
    <2> HIDE DEF V
    <2>1. PICK s \in {Popped(queue)} : Unlock(s) /\ \A e \in queue : ~Runnable(e)
      BY <1>5 DEF NothingToRun
    <2>2. Moves(Locked, s, V)
      BY <1>3, <2>1
    <2>3. UNCHANGED <<admitted, first>>
      BY <1>5 DEF NothingToRun
    <2> QED BY <2>1, <2>2, <2>3, LockedMoves DEF V
  <1>6. CASE Finish
    <2> DEFINE state == worker.outcome
               swept == Sweep(Freed, worker.stamp)
               done  == Settle(swept, {worker.id}, state, worker.serial, worker.stamp)
    <2>1. Freed \in InnerType /\ Freed.jobs = jobs
      BY <1>1 DEF Freed, Locked, InnerType, Running, NotRunning
    <2>2. /\ worker.stamp \in Nat /\ worker.id \in Id /\ worker.serial \in Serial
          /\ state \in Outcome /\ state \in State \ {Pending}
          /\ worker.phase = "finishing"
      BY <1>1, <1>6, StateTypes DEF Finish, Worker, TypeInv, WorkerHasJob
    <2>3. /\ swept \in InnerType /\ Moves(Locked, swept, V)
          /\ \A j \in Id : IsPending(swept.jobs[j]) =>
                worker.stamp < Due(swept.jobs[j]) /\ swept.jobs[j] = jobs[j]
      <3>1. /\ swept \in InnerType /\ Moves(Freed, swept, V)
            /\ \A j \in Id : IsPending(swept.jobs[j]) => worker.stamp < Due(swept.jobs[j])
        <4> HIDE DEF V
        <4>1. ByHand \subseteq V
          BY DEF V
        <4> QED BY <2>1, <2>2, <4>1, SweepType, SweepMoves
      <3> HIDE DEF swept, V
      <3>2. Moves(Locked, swept, V)
        BY <2>1, <3>1 DEF Moves, Locked
      <3>3. \A j \in Id : IsPending(swept.jobs[j]) => swept.jobs[j] = jobs[j]
        BY <2>1, <3>1 DEF Moves, Ends, Goes, IsPending, IsTerminal
      <3> QED BY <3>1, <3>2, <3>3
    <2>4. Unlock(done) /\ UNCHANGED <<admitted, first>>
      BY <1>6 DEF Finish
    <2> HIDE DEF swept
    <2>5. \A j \in {worker.id} \cap PendingIds(swept) :
             /\ worker.stamp < Due(swept.jobs[j])
             /\ state = Failed("timeout") /\ worker.serial \in {0, swept.jobs[j].serial}
                   => worker.stamp >= Due(swept.jobs[j])
             /\ [id |-> j, state |-> state, by |-> worker.serial] \in V
      <3> SUFFICES ASSUME IsPending(swept.jobs[worker.id])
                   PROVE  /\ worker.stamp < Due(swept.jobs[worker.id])
                          /\ state = Failed("timeout") /\ worker.serial \in {0, swept.jobs[worker.id].serial}
                                => worker.stamp >= Due(swept.jobs[worker.id])
                          /\ [id |-> worker.id, state |-> state, by |-> worker.serial] \in V
        BY DEF PendingIds
      <3>1. swept.jobs[worker.id] = jobs[worker.id] /\ jobs[worker.id] # None
        BY <2>2, <2>3 DEF IsPending
      <3>2. [id |-> worker.id, state |-> state, by |-> worker.serial] \in ByRun
        BY <2>2 DEF ByRun
      <3> QED BY <2>2, <2>3, <3>1, <3>2 DEF RunInv, Serial
    <2> HIDE DEF V, state
    <2>6. Moves(swept, done, V)
      <3>1. worker.serial \in Nat
        BY <2>2 DEF Serial
      <3> QED BY <2>2, <2>3, <2>5, <3>1, SettleMoves
    <2> HIDE DEF done
    <2>7. Moves(Locked, done, V)
      BY <2>3, <2>6, MovesTwice
    <2> QED BY <2>4, <2>7, LockedMoves DEF V
  <1>7. CASE UNCHANGED <<jobs, admitted, first>>
    BY <1>7 DEF Moves, Locked
  <1>8. CASE \/ ConnectFails \/ ConnectTimesOut \/ AttachRefused \/ Respond \/ PostTimesOut
             \/ PostAborted \/ CannedReply \/ SpuriousWakeup \/ Attach
             \/ Tick \/ UNCHANGED vars \/ \E h \in Handler : Arrive(h) \/ ShutDown(h)
    BY <1>7, <1>8 DEF ConnectFails, ConnectTimesOut, AttachRefused, Respond, PostTimesOut,
           PostAborted, CannedReply, SpuriousWakeup, Attach, Generated, inner, Tick, vars,
           Arrive, ShutDown
  <1> HIDE DEF V
  <1> QED BY <1>2, <1>4, <1>5, <1>6, <1>8 DEF Next, HandlerStep, WorkerStep, WorkerAlone, V

-----------------------------------------------------------------------------
(* The deadline wins, and the outcome of an id's first use is its own.      *)

\* A job that ends by a handler or by the worker's run ends as its own: a run of
\* a later use of the id than its first finds the first one gone.
LEMMA OwnMoves ==
    ASSUME OutcomeInv, NEW r, Moves(Locked, r, ByHand \cup ByRun), NEW j \in Id, r.jobs[j] # None
    PROVE  /\ jobs[j] # None /\ Own(r.jobs[j], first[j])
           /\ r.jobs[j].serial = jobs[j].serial /\ Due(r.jobs[j]) = Due(jobs[j])
           /\ IsPending(r.jobs[j]) => IsPending(jobs[j])
  <1> DEFINE a == jobs[j]
             b == r.jobs[j]
  <1>1. /\ SoundInv /\ RunInv
        /\ a # None => a \in Job /\ Own(a, first[j])
    BY DEF OutcomeInv, SoundInv, TypeInv, TypeOK
  <1>2. CASE b = a
    BY <1>1, <1>2
  <1>3. CASE /\ Ends(a, b)
             /\ [id |-> j, state |-> b.state, by |-> b.by] \in ByHand \cup ByRun
    <2>1. /\ a # None /\ IsPending(a) /\ ~IsPending(b) /\ b.serial = a.serial /\ Due(b) = Due(a)
          /\ Timely(b) /\ a.serial \in Serial /\ first[j] \in 1 .. b.serial
      BY <1>1, <1>3 DEF Ends, IsPending, IsTerminal, Due, Job, Own
    <2>2. CASE [id |-> j, state |-> b.state, by |-> b.by] \in ByHand
      <3>1. b.by = 0 /\ b.state # Failed("canceled")
        BY <2>2 DEF ByHand, Failed, Canceled
      <3> QED BY <2>1, <3>1 DEF Own
    <2>3. CASE [id |-> j, state |-> b.state, by |-> b.by] \in ByRun
      <3>1. /\ worker.phase = "finishing" /\ j = worker.id
            /\ b.state = worker.outcome /\ b.by = worker.serial
        BY <2>3 DEF ByRun
      <3>2. worker.serial \in Serial
        BY <1>1, <3>1 DEF SoundInv, TypeInv, WorkerHasJob
      <3>3. first[j] \in 1 .. worker.serial /\ worker.serial <= a.serial
        BY <1>1, <2>1, <3>1 DEF RunInv
      <3>4. a.serial = first[j] => b.by = a.serial
        BY <2>1, <3>1, <3>2, <3>3 DEF Serial
      <3>5. b.by = a.serial => b.state # Failed("canceled")
        BY <1>1, <2>1, <3>1 DEF RunInv
      <3> QED BY <2>1, <3>4, <3>5 DEF Own
    <2> QED BY <1>3, <2>1, <2>2, <2>3
  <1> QED BY <1>2, <1>3 DEF Moves, Goes, Locked

\* The empty store has no outcomes.
LEMMA InitOutcomeInv == Init => OutcomeInv
  <1> SUFFICES ASSUME Init PROVE OutcomeInv
    OBVIOUS
  <1>1. SoundInv
    BY InitSoundInv
  <1>2. RunInv
    BY DEF Init, RunInv, Between
  <1>3. \A j \in Id : first[j] <= admitted /\ jobs[j] = None
    BY DEF Init
  <1> QED BY <1>1, <1>2, <1>3 DEF OutcomeInv

\* A step of another thread: the run's job moves, if at all, as jobs do.
LEMMA RunInvKept ==
    ASSUME SoundInv, RunInv, worker' = worker,
           worker.id \in Id =>
              /\ first'[worker.id] = first[worker.id]
              /\ jobs'[worker.id] # None =>
                    /\ jobs[worker.id] # None
                    /\ jobs'[worker.id].serial = jobs[worker.id].serial
                    /\ Due(jobs'[worker.id]) = Due(jobs[worker.id])
                    /\ IsPending(jobs'[worker.id]) => IsPending(jobs[worker.id])
    PROVE  RunInv'
  <1>1. CASE worker.phase \in {"connecting", "posting", "finishing"}
    <2>1. worker.id \in Id
      BY <1>1 DEF SoundInv, TypeInv, WorkerHasJob
    <2> DEFINE old == jobs[worker.id]
               new == jobs'[worker.id]
    <2>2. /\ first'[worker.id] = first[worker.id]
          /\ new # None =>
                /\ old # None /\ new.serial = old.serial /\ Due(new) = Due(old)
                /\ IsPending(new) => IsPending(old)
      BY <2>1
    <2>3. /\ first[worker.id] \in 1 .. worker.serial
          /\ old # None => worker.serial <= old.serial
          /\ old # None /\ old.serial = worker.serial => worker.due = Due(old)
          /\ worker.phase = "finishing" /\ worker.outcome = Failed("timeout")
                => worker.stamp >= worker.due
          /\ worker.phase = "finishing" /\ worker.outcome = Failed("canceled")
                => ~(IsPending(old) /\ old.serial = worker.serial)
      BY <1>1 DEF RunInv
    <2> HIDE DEF old
    <2>4. /\ first'[worker.id] \in 1 .. worker.serial
          /\ new # None => worker.serial <= new.serial
          /\ new # None /\ new.serial = worker.serial => worker.due = Due(new)
          /\ worker.phase = "finishing" /\ worker.outcome = Failed("canceled")
                => ~(IsPending(new) /\ new.serial = worker.serial)
      BY <2>2, <2>3 DEF IsPending
    <2> QED BY <2>3, <2>4 DEF RunInv, Due, IsPending
  <1>2. CASE worker.phase \notin {"connecting", "posting", "finishing"}
    BY <1>2 DEF RunInv
  <1> QED BY <1>1, <1>2

\* What the worker's own steps leave of RunInv: it takes a job, or gives one up.
LEMMA RunInvByWorker ==
    ASSUME OutcomeInv, WorkerStep, ~Finish, UNCHANGED <<admitted, first>>
    PROVE  RunInv'
  <1>1. /\ SoundInv /\ TypeInv /\ TypeOK /\ worker \in Worker /\ RunInv
        /\ \A j \in Id : jobs[j] # None => jobs[j] \in Job /\ Own(jobs[j], first[j])
    BY DEF OutcomeInv, SoundInv, TypeInv, TypeOK
  <1>2. CASE NextJob
    <2> PICK e \in queue : /\ Runnable(e)
                           /\ Unlock([Popped(Before(e)) EXCEPT !.queue = @ \ {e},
                                         !.running = [id |-> e.id, conn |-> 0]])
                           /\ worker' = [Between EXCEPT !.phase = "connecting", !.id = e.id,
                                            !.serial = e.serial, !.due = Due(jobs[e.id])]
      BY <1>2 DEF NextJob
    <2>1. Before(e) \in SUBSET queue /\ e \in queue \ Before(e) /\ e \in Entry
      BY <1>1 DEF Before, TypeOK, Entry, Serial
    <2>2. Popped(Before(e)) \in InnerType /\ Popped(Before(e)).jobs[e.id] = jobs[e.id]
      BY <1>1, <2>1, PoppedSound
    <2>3. jobs'[e.id] = jobs[e.id]
      BY <2>2 DEF Unlock, InnerType
    <2>4. e.id \in Id /\ jobs[e.id] # None /\ jobs[e.id].serial = e.serial
      BY <1>1, <2>1 DEF SoundInv, Sound, Placed, Locked, Entry, IsPending
    <2>5. /\ worker'.phase = "connecting" /\ worker'.id = e.id /\ worker'.serial = e.serial
          /\ worker'.due = Due(jobs[e.id])
      BY DEF Between
    <2>6. first[e.id] \in 1 .. e.serial /\ e.serial \in Serial
      BY <1>1, <2>1, <2>4 DEF Own, Entry
    <2> QED BY <2>3, <2>4, <2>5, <2>6 DEF RunInv, Due, Serial
  <1>3. CASE NothingToRun \/ SpuriousWakeup
    BY <1>1, <1>3 DEF NothingToRun, SpuriousWakeup, RunInv, Worker
  <1>4. CASE Attach
    BY <1>1, <1>4 DEF Attach, RunInv, Worker, Due
  <1>5. ASSUME NEW outcome \in Outcome, Generated(outcome),
               worker.phase \in {"connecting", "posting"},
               outcome = Failed("timeout") => clock >= worker.due,
               outcome = Failed("canceled") => ~IsPending(jobs[worker.id])
        PROVE  RunInv'
    <2>1. /\ worker'.phase = "finishing" /\ worker'.id = worker.id
          /\ worker'.serial = worker.serial /\ worker'.due = worker.due
          /\ worker'.outcome = outcome /\ worker'.stamp = clock /\ jobs' = jobs
          /\ first' = first
      BY <1>1, <1>5 DEF Generated, Worker, inner
    <2> QED BY <1>1, <1>5, <2>1 DEF RunInv, Due
  <1>6. CASE \/ ConnectFails \/ ConnectTimesOut \/ AttachRefused \/ Respond
             \/ PostTimesOut \/ PostAborted \/ CannedReply
    <2>1. /\ Failed("upstream_error") \notin {Failed("timeout"), Failed("canceled")}
          /\ Ready \notin {Failed("timeout"), Failed("canceled")}
          /\ Failed("timeout") # Failed("canceled")
      BY DEF Failed, Ready
    <2>2. CASE AttachRefused
      <3>1. /\ worker.phase = "connecting" /\ Generated(Failed("canceled"))
            /\ ~IsPending(jobs[worker.id])
        BY <1>1, <2>2 DEF AttachRefused, TypeInv, WorkerHasJob
      <3> QED BY <1>5, <2>1, <3>1, StateTypes
    <2>3. CASE ConnectFails \/ Respond \/ PostAborted
      BY <1>5, <2>1, <2>3, StateTypes DEF ConnectFails, Respond, PostAborted
    <2>4. CASE ConnectTimesOut \/ PostTimesOut \/ CannedReply
      BY <1>5, <2>1, <2>4, StateTypes DEF ConnectTimesOut, PostTimesOut, CannedReply
    <2> QED BY <1>6, <2>2, <2>3, <2>4
  <1> QED BY <1>2, <1>3, <1>4, <1>6 DEF WorkerStep, WorkerAlone

\* Every step keeps OutcomeInv.
THEOREM OutcomeInvStep == OutcomeInv /\ [Next]_vars => OutcomeInv'
  <1> SUFFICES ASSUME OutcomeInv, [Next]_vars PROVE OutcomeInv'
    OBVIOUS
  <1>1. /\ SoundInv /\ RunInv /\ TypeOK /\ worker \in Worker /\ SoundInv' /\ TypeOK'
        /\ \A j \in Id : first[j] <= admitted
        /\ \A j \in Id : jobs[j] # None => Own(jobs[j], first[j])
    BY SoundInvStep DEF OutcomeInv, SoundInv, TypeInv, TypeOK
  <1>2. CASE Moves(Locked, Locked', ByHand \cup ByRun) /\ UNCHANGED <<admitted, first>>
    <2>1. ASSUME NEW j \in Id, jobs'[j] # None
          PROVE  /\ jobs[j] # None /\ Own(jobs'[j], first[j])
                 /\ jobs'[j].serial = jobs[j].serial /\ Due(jobs'[j]) = Due(jobs[j])
                 /\ IsPending(jobs'[j]) => IsPending(jobs[j])
      <3>1. Locked'.jobs = jobs'
        BY DEF Locked
      <3> DEFINE r == Locked'
      <3>2. Moves(Locked, r, ByHand \cup ByRun) /\ r.jobs[j] # None
        BY <1>2, <2>1, <3>1
      <3> HIDE DEF r
      <3>3. /\ jobs[j] # None /\ Own(r.jobs[j], first[j])
            /\ r.jobs[j].serial = jobs[j].serial /\ Due(r.jobs[j]) = Due(jobs[j])
            /\ IsPending(r.jobs[j]) => IsPending(jobs[j])
        BY <3>2, OwnMoves
      <3> QED BY <3>1, <3>3 DEF r
    <2>2. worker' = worker \/ WorkerStep
      <3>1. \A h \in Handler : ~TalkAdmitted(h)
        BY <1>1, <1>2 DEF TalkAdmitted, TypeOK
      <3>2. \A h \in Handler : HandlerStep(h) => worker' = worker
        BY <3>1 DEF HandlerStep, Arrive, HandlerLocked, TalkKnown, TalkBusy, Result, Cancel, ShutDown
      <3> QED BY <3>2 DEF Next, Tick, vars
    <2>3. RunInv'
      <3>1. CASE worker' = worker
        BY <1>1, <1>2, <2>1, <3>1, RunInvKept
      <3>2. CASE Finish
        BY <3>2 DEF Finish, RunInv, Between
      <3>3. CASE WorkerStep /\ ~Finish
        BY <1>2, <3>3, RunInvByWorker
      <3> QED BY <2>2, <3>1, <3>2, <3>3
    <2> QED BY <1>1, <1>2, <2>1, <2>3 DEF OutcomeInv
  <1>3. ASSUME NEW h \in Handler, TalkAdmitted(h), Admits(handler[h].id)
        PROVE  OutcomeInv'
    <2> DEFINE i == handler[h].id
    <2>1. i \in Id /\ admitted \in Nat /\ first \in [Id -> Nat]
      BY <1>1, <1>3 DEF SoundInv, TypeInv, Named, TalkAdmitted, TypeOK
    <2> HIDE DEF i
    <2>2. PICK r \in InnerType, new \in Job :
             /\ Moves(Locked, r, ByHand) /\ r.jobs[i] = None
             /\ IsPending(new) /\ new.serial = admitted + 1 /\ new.by = 0
             /\ jobs' = [r.jobs EXCEPT ![i] = new]
      BY <1>3 DEF Admits, Begins, i
    <2>3. /\ admitted' = admitted + 1
          /\ first' = [first EXCEPT ![i] = IF @ = 0 THEN admitted + 1 ELSE @]
      BY <1>3 DEF Admits, i
    <2>4. jobs'[i] = new /\ \A j \in Id : j # i => jobs'[j] = r.jobs[j]
      BY <2>1, <2>2 DEF InnerType
    <2>5. \A j \in Id : j # i => first'[j] = first[j]
      BY <2>1, <2>3
    <2>6. first'[i] \in 1 .. admitted + 1 /\ (first[i] # 0 => first'[i] = first[i])
      BY <1>1, <2>1, <2>3
    <2>7. Moves(Locked, r, ByHand \cup ByRun)
      BY <2>2 DEF Moves
    <2>8. \A j \in Id : j # i /\ jobs'[j] # None =>
             /\ jobs[j] # None /\ Own(jobs'[j], first[j])
             /\ jobs'[j].serial = jobs[j].serial /\ Due(jobs'[j]) = Due(jobs[j])
             /\ IsPending(jobs'[j]) => IsPending(jobs[j])
      BY <2>4, <2>7, OwnMoves
    <2>9. Own(new, first'[i])
      BY <2>2, <2>6, StateTypes DEF Own, IsTerminal, IsPending, Pending, Failed
    <2>10. \A j \in Id : jobs'[j] # None => Own(jobs'[j], first'[j])
      BY <2>4, <2>5, <2>8, <2>9
    <2>11. \A j \in Id : first'[j] <= admitted'
      BY <1>1, <2>1, <2>3, <2>5, <2>6
    <2>12. RunInv'
      <3>1. CASE worker.phase \in {"connecting", "posting", "finishing"}
        <4>1. worker' = worker /\ worker.id \in Id /\ worker.serial \in Nat /\ worker.serial <= admitted
          BY <1>1, <1>3, <3>1 DEF TalkAdmitted, Notify, Worker, SoundInv, TypeInv, WorkerHasJob, Serial
        <4>2. first'[worker.id] = first[worker.id]
          BY <1>1, <2>5, <2>6, <3>1, <4>1 DEF RunInv
        <4>3. CASE worker.id = i
          BY <1>1, <2>1, <2>2, <2>4, <3>1, <4>1, <4>2, <4>3 DEF RunInv
        <4>4. CASE worker.id # i
          BY <1>1, <2>8, <4>1, <4>2, <4>4, RunInvKept
        <4> QED BY <4>3, <4>4
      <3>2. CASE worker.phase \notin {"connecting", "posting", "finishing"}
        BY <1>1, <1>3, <3>2 DEF TalkAdmitted, Notify, Worker, RunInv
      <3> QED BY <3>1, <3>2
    <2> QED BY <1>1, <2>10, <2>11, <2>12 DEF OutcomeInv
  <1> QED BY <1>1, <1>2, <1>3, StepMoves

\* "The deadline wins over a result that arrives after it" (finish), by the clock
\* of whoever ended the job.
THEOREM TheDeadlineWins == Spec => []DeadlineWins
  <1>1. OutcomeInv => DeadlineWins
    BY DEF OutcomeInv, Own, Timely, DeadlineWins, IsTerminal
  <1> QED BY <1>1, InitOutcomeInv, OutcomeInvStep, PTL DEF Spec

\* The first use of a job id ends by a handler or by its own run, and never with
\* the reason of a run that was called off (attach, finish).
THEOREM FirstUseIsItsOwn == Spec => []FirstUseOutcomesAreTheirOwn
  <1>1. OutcomeInv => FirstUseOutcomesAreTheirOwn
    BY DEF OutcomeInv, Own, FirstUseOutcomesAreTheirOwn
  <1> QED BY <1>1, InitOutcomeInv, OutcomeInvStep, PTL DEF Spec

-----------------------------------------------------------------------------
(* The store implements the contract of its clients.                        *)

\* A client tells the stored jobs from None, and the pending ones from others.
LEMMA ViewOfJob ==
    ASSUME NEW job \in Job \cup {None}
    PROVE  /\ View(job) = None <=> job = None
           /\ Contract!Pending(View(job)) <=> IsPending(job)
           /\ job # None =>
                 /\ View(job).run = job.serial /\ View(job).state = job.state
                 /\ View(job).line = [npc |-> job.talk.npc, scope |-> job.talk.scope]
                 /\ View(job).line \in [npc : Npc, scope : Scope]
  <1>1. CASE job = None
    BY <1>1 DEF View, Contract!Pending, IsPending
  <1>2. CASE job # None
    <2>1. View(job) \in Seen
      BY <1>2 DEF View, Seen, Job, Talk
    <2>2. View(job) # None
      BY <2>1, NoneAssumption
    <2> QED BY <1>2, <2>1, <2>2 DEF View, Contract!Pending, IsPending, Seen
  <1> QED BY <1>1, <1>2

\* Where jobs move, clients see a verdict, or that the job is gone.
LEMMA MovesSeen ==
    ASSUME NEW s, NEW r, NEW V, Moves(s, r, V), NEW j \in Id,
           s.jobs[j] \in Job \cup {None}, r.jobs[j] \in Job \cup {None}
    PROVE  /\ \/ View(r.jobs[j]) = View(s.jobs[j])
              \/ Contract!Settles(View(s.jobs[j]), View(r.jobs[j]))
              \/ Contract!Drops(View(s.jobs[j]), View(r.jobs[j]))
           /\ ~Contract!Starts(View(s.jobs[j]), View(r.jobs[j]))
  <1> DEFINE a == s.jobs[j]
             b == r.jobs[j]
  <1>1. /\ Contract!Pending(View(a)) <=> IsPending(a)
        /\ Contract!Pending(View(b)) <=> IsPending(b)
        /\ View(a) = None <=> a = None
        /\ View(b) = None <=> b = None
    BY ViewOfJob
  <1>2. CASE a = b
    BY <1>1, <1>2 DEF Contract!Starts
  <1>3. CASE Goes(a, b)
    BY <1>1, <1>3 DEF Contract!Starts, Contract!Drops, Goes, IsPending
  <1>4. CASE Ends(a, b)
    <2>1. /\ a # None /\ b # None /\ IsPending(a) /\ ~IsPending(b)
          /\ b.state \in State \ {Pending}
          /\ b.serial = a.serial /\ b.talk = a.talk
      BY <1>4 DEF Ends, IsPending, IsTerminal, Job
    <2>2. View(b) = [View(a) EXCEPT !.state = b.state]
      BY <2>1 DEF View
    <2> QED BY <1>1, <2>1, <2>2 DEF Contract!Starts, Contract!Settles
  <1> QED BY <1>2, <1>3, <1>4 DEF Moves

\* Every step of the store is a step of the contract.
LEMMA ContractStep ==
    ASSUME OutcomeInv, OutcomeInv', [Next]_vars
    PROVE  Contract!Next
  <1>1. /\ SoundInv /\ RunInv /\ SoundInv' /\ jobs \in [Id -> Job \cup {None}]
        /\ jobs' \in [Id -> Job \cup {None}] /\ admitted \in Nat
    BY DEF OutcomeInv, SoundInv, TypeInv, TypeOK
  <1>2. \A i, j \in Id : Contract!Pending(View(jobs'[i])) /\ Contract!Pending(View(jobs'[j])) /\ i # j
                            => View(jobs'[i]).line # View(jobs'[j]).line
    <2> SUFFICES ASSUME NEW i \in Id, NEW j \in Id, i # j,
                        Contract!Pending(View(jobs'[i])), Contract!Pending(View(jobs'[j]))
                 PROVE  View(jobs'[i]).line # View(jobs'[j]).line
      OBVIOUS
    <2>1. IsPending(jobs'[i]) /\ IsPending(jobs'[j])
      BY <1>1, ViewOfJob
    <2>2. ~SameLine(jobs'[i], jobs'[j].talk)
      BY <1>1, <2>1 DEF SoundInv, Sound, OnePerLine, Locked, IsPending, SameLine
    <2>3. /\ View(jobs'[i]).line = [npc |-> jobs'[i].talk.npc, scope |-> jobs'[i].talk.scope]
          /\ View(jobs'[j]).line = [npc |-> jobs'[j].talk.npc, scope |-> jobs'[j].talk.scope]
      BY <1>1, <2>1, ViewOfJob DEF IsPending
    <2> QED BY <2>2, <2>3 DEF SameLine
  <1>3. CASE Moves(Locked, Locked', ByHand \cup ByRun)
    <2> DEFINE r == Locked'
    <2>1. Moves(Locked, r, ByHand \cup ByRun) /\ Locked.jobs = jobs /\ r.jobs = jobs'
      BY <1>3 DEF Locked
    <2> HIDE DEF r
    <2>2. \A j \in Id :
             /\ \/ View(jobs'[j]) = View(jobs[j])
                \/ Contract!Settles(View(jobs[j]), View(jobs'[j]))
                \/ Contract!Drops(View(jobs[j]), View(jobs'[j]))
             /\ ~Contract!Starts(View(jobs[j]), View(jobs'[j]))
      BY <1>1, <2>1, MovesSeen
    <2> QED BY <1>2, <2>2 DEF Contract!Next, Contract!Step
  <1>4. ASSUME NEW h \in Handler, TalkAdmitted(h), Admits(handler[h].id)
        PROVE  Contract!Next
    <2> DEFINE i == handler[h].id
    <2>1. i \in Id
      BY <1>1, <1>4 DEF SoundInv, TypeInv, Named, TalkAdmitted
    <2> HIDE DEF i
    <2>2. PICK r \in InnerType, new \in Job :
             /\ Moves(Locked, r, ByHand) /\ IsPending(new) /\ new.serial = admitted + 1
             /\ jobs' = [r.jobs EXCEPT ![i] = new]
      BY <1>4 DEF Admits, Begins, i
    <2>3. jobs'[i] = new /\ \A j \in Id : j # i => jobs'[j] = r.jobs[j]
      BY <2>1, <2>2 DEF InnerType
    <2>4. \A j \in Id : j # i =>
             /\ \/ View(jobs'[j]) = View(jobs[j])
                \/ Contract!Settles(View(jobs[j]), View(jobs'[j]))
                \/ Contract!Drops(View(jobs[j]), View(jobs'[j]))
             /\ ~Contract!Starts(View(jobs[j]), View(jobs'[j]))
      <3>1. Locked.jobs = jobs
        BY DEF Locked
      <3>2. \A j \in Id : j # i => r.jobs[j] \in Job \cup {None}
        BY <1>1, <2>3
      <3> QED BY <1>1, <2>2, <2>3, <3>1, <3>2, MovesSeen
    <2>5. Contract!Starts(View(jobs[i]), View(jobs'[i]))
      <3>1. ~IsPending(jobs[i])
        BY <1>4 DEF Admits, i
      <3>2. jobs[i] # None => jobs[i].serial \in Nat /\ jobs[i].serial <= admitted
        BY <1>1, <2>1 DEF SoundInv, Sound, Numbered, Locked, Job, Serial
      <3>3. /\ ~Contract!Pending(View(jobs[i])) /\ Contract!Pending(View(new))
            /\ View(new).run = admitted + 1 /\ View(new).line \in [npc : Npc, scope : Scope]
            /\ View(jobs[i]) # None => jobs[i] # None /\ View(jobs[i]).run = jobs[i].serial
        BY <1>1, <2>1, <2>2, <3>1, ViewOfJob DEF IsPending
      <3> QED BY <1>1, <2>3, <3>2, <3>3 DEF Contract!Starts
    <2> QED BY <1>2, <2>4, <2>5 DEF Contract!Next, Contract!Step
  <1> QED BY <1>1, <1>3, <1>4, StepMoves

\* The store implements JobContract: what a client sees of an id is a job that
\* begins once, gets one verdict, and goes; a talk begins at most one job, and
\* supersedes what was pending on its line.
THEOREM StoreKeepsTheContract == Spec => KeepsTheContract
  <1>1. Init => Contract!Init
    BY DEF Init, Contract!Init, View
  <1>2. OutcomeInv /\ OutcomeInv' /\ [Next]_vars => Contract!Next
    BY ContractStep
  <1> QED BY <1>1, <1>2, InitOutcomeInv, OutcomeInvStep, PTL
          DEF Spec, KeepsTheContract, Contract!Spec

-----------------------------------------------------------------------------
(* Aborts: the socket of a run whose job leaves PENDING is collected under   *)
(* the lock, and shut down after it.                                        *)

\* What a locked section does to the running job's socket: it keeps it, and a
\* pending job with it; or the job leaves PENDING and the socket is collected.
Keeps(s, t) ==
    /\ t.running = s.running /\ t.kill = s.kill
    /\ s.running.id \in Id /\ IsPending(s.jobs[s.running.id])
          => IsPending(t.jobs[s.running.id])

Collects(s, t) ==
    /\ t.running = [s.running EXCEPT !.conn = 0]
    /\ t.kill = s.kill \cup ({s.running.conn} \ {0})
    /\ s.running.id \in Id /\ IsPending(s.jobs[s.running.id])
    /\ IsPending(t.jobs[s.running.id])
          => t.jobs[s.running.id].serial # s.jobs[s.running.id].serial

Hangs(s, t) == Keeps(s, t) \/ Collects(s, t)

\* What is pending after jobs have moved was so before.
LEMMA MovesPending ==
    ASSUME NEW s, NEW r, NEW V, Moves(s, r, V)
    PROVE  \A j \in Id : IsPending(r.jobs[j]) => r.jobs[j] = s.jobs[j]
  BY DEF Moves, Goes, Ends, IsPending, IsTerminal

\* Two parts of a locked section collect the socket at most once.
LEMMA HangsTwice ==
    ASSUME NEW s \in InnerType, NEW r, NEW t, NEW V, Moves(s, r, V), Hangs(s, r), Hangs(r, t),
           \A j \in Id : IsPending(s.jobs[j]) /\ IsPending(t.jobs[j]) =>
               t.jobs[j] = r.jobs[j] \/ t.jobs[j].serial # s.jobs[j].serial
    PROVE  Hangs(s, t)
  <1> DEFINE id == s.running.id
  <1>1. s.running \in Running /\ r.running.id = id
    BY DEF Hangs, Keeps, Collects, InnerType, Running
  <1>2. id \in Id /\ IsPending(r.jobs[id]) => r.jobs[id] = s.jobs[id]
    BY MovesPending
  <1>3. CASE Keeps(s, r) /\ Keeps(r, t)
    BY <1>3 DEF Keeps, Hangs
  <1>4. CASE Keeps(s, r) /\ Collects(r, t)
    BY <1>1, <1>2, <1>4 DEF Keeps, Collects, Hangs
  <1>5. CASE Collects(s, r) /\ Keeps(r, t)
    BY <1>1, <1>2, <1>5 DEF Keeps, Collects, Hangs
  <1>6. CASE Collects(s, r) /\ Collects(r, t)
    BY <1>1, <1>2, <1>6 DEF Collects
  <1> QED BY <1>3, <1>4, <1>5, <1>6 DEF Hangs

\* Settling collects the socket of a job that leaves PENDING.
LEMMA SettleHangs ==
    ASSUME NEW s \in InnerType, NEW S, NEW state \in State \ {Pending}, NEW by \in Nat,
           NEW now \in Nat
    PROVE  Hangs(s, Settle(s, S, state, by, now))
  <1> DEFINE t  == Settle(s, S, state, by, now)
             id == s.running.id
  <1>1. CASE id \in S \cap PendingIds(s)
    <2>1. /\ t.running = [s.running EXCEPT !.conn = 0]
          /\ t.kill = s.kill \cup ({s.running.conn} \ {0})
      BY <1>1 DEF Settle, Leave
    <2>2. id \in Id /\ IsPending(s.jobs[id])
      BY <1>1 DEF PendingIds
    <2>3. ~IsPending(t.jobs[id])
      BY <1>1, <2>2, SettledIsNotPending
    <2> QED BY <2>1, <2>2, <2>3 DEF Hangs, Collects, t
  <1>2. CASE id \notin S \cap PendingIds(s)
    <2>1. t.running = s.running /\ t.kill = s.kill
      BY <1>2 DEF Settle, Leave
    <2>2. id \in Id /\ IsPending(s.jobs[id]) => t.jobs[id] = s.jobs[id]
      BY <1>2, SettleSpares DEF PendingIds
    <2> QED BY <2>1, <2>2 DEF Hangs, Keeps, t
  <1> QED BY <1>1, <1>2

\* Removing terminal jobs collects no socket.
LEMMA RemoveHangs ==
    ASSUME NEW s \in InnerType, NEW S \in SUBSET TerminalIds(s)
    PROVE  Hangs(s, Remove(s, S))
  BY RemoveType DEF Hangs, Keeps, TerminalIds, IsTerminal, IsPending

\* The sweep collects the socket of a job that it fails.
LEMMA SweepHangs ==
    ASSUME NEW s \in InnerType, NEW now \in Nat
    PROVE  Hangs(s, Sweep(s, now))
  <1> DEFINE timeout == Failed("timeout")
             overdue == {j \in PendingIds(s) : now >= Due(s.jobs[j])}
             swept   == Settle(s, overdue, timeout, 0, now)
             expired == {j \in TerminalIds(swept) : now - swept.jobs[j].finished >= Ttl}
             V       == [id : Id, state : {timeout}, by : {0}]
  <1>1. timeout \in State \ {Pending} /\ timeout.code \notin {"READY", "CANCELED"}
    BY StateTypes DEF Failed
  <1>2. \A j \in overdue : now >= Due(s.jobs[j]) /\ [id |-> j, state |-> timeout, by |-> 0] \in V
    BY DEF PendingIds
  <1> HIDE DEF timeout, V
  <1>3. swept \in InnerType /\ Hangs(s, swept) /\ Moves(s, swept, V)
    BY <1>1, <1>2, SettleType, SettleHangs, SettleMoves
  <1> HIDE DEF swept
  <1>4. Hangs(swept, Remove(swept, expired)) /\ Moves(swept, Remove(swept, expired), V)
    BY <1>3, RemoveHangs, RemoveMoves
  <1>5. Hangs(s, Remove(swept, expired))
    BY <1>3, <1>4, HangsTwice, MovesPending
  <1> QED BY <1>5 DEF Sweep, swept, timeout

\* A new job does not take over the socket of an older job with its id.
LEMMA AdmitHangs ==
    ASSUME NEW s \in InnerType, NEW i \in Id, NEW talk \in Talk, NEW now \in Nat,
           NEW serial \in Serial, s.jobs[i] = None,
           \A j \in Id : IsPending(s.jobs[j]) => now < Due(s.jobs[j]),
           \A j \in Id : s.jobs[j] # None => s.jobs[j].serial # serial
    PROVE  Hangs(s, Admit(s, i, talk, now, serial))
  <1> DEFINE state   == Canceled("superseded")
             settled == Settle(s, Victims(s, talk), state, 0, now)
             roomy   == Remove(settled, Evicted(settled))
             t       == Insert(roomy, i, talk, now, serial)
             V       == [id : Id, state : {state}, by : {0}]
  <1>1. state \in State \ {Pending} /\ state # Failed("timeout")
    BY StateTypes DEF Canceled, Failed
  <1>2. \A j \in Victims(s, talk) \cap PendingIds(s) :
           now < Due(s.jobs[j]) /\ [id |-> j, state |-> state, by |-> 0] \in V
    BY DEF PendingIds
  <1>3. settled.jobs[i] = None
    BY SettleSpares DEF IsPending
  <1> HIDE DEF state, V
  <1>4. settled \in InnerType /\ Hangs(s, settled) /\ Moves(s, settled, V)
    BY <1>1, <1>2, SettleType, SettleHangs, SettleMoves
  <1> HIDE DEF settled
  <1>5. Evicted(settled) \in SUBSET TerminalIds(settled)
    BY DEF Evicted
  <1>6. /\ roomy \in InnerType /\ Hangs(settled, roomy) /\ Moves(settled, roomy, V)
        /\ roomy.jobs[i] = None
    BY <1>3, <1>4, <1>5, RemoveType, RemoveHangs, RemoveMoves
  <1> HIDE DEF roomy
  <1>7. Hangs(s, roomy) /\ Moves(s, roomy, V)
    BY <1>4, <1>6, HangsTwice, MovesPending, MovesTwice
  <1>8. /\ t.running = roomy.running /\ t.kill = roomy.kill
        /\ t.jobs[i].serial = serial /\ \A j \in Id : j # i => t.jobs[j] = roomy.jobs[j]
    BY <1>6 DEF Insert, InnerType
  <1> HIDE DEF t
  <1>9. ~IsPending(roomy.jobs[i])
    BY <1>6 DEF IsPending
  <1>10. Hangs(s, t)
    <2>1. CASE Keeps(s, roomy)
      BY <1>8, <1>9, <2>1 DEF Keeps, Hangs
    <2>2. CASE Collects(s, roomy)
      BY <1>8, <2>2 DEF Collects, Hangs, IsPending
    <2> QED BY <1>7, <2>1, <2>2 DEF Hangs
  <1> QED BY <1>10 DEF Admit, t, roomy, settled, state

\* A handler's locked section: what it does to the socket, and what it is left
\* to shut down.
LEMMA HandlerHangs ==
    ASSUME SoundInv, NEW h \in Handler, HandlerLocked(h)
    PROVE  \E s \in InnerType : /\ Hangs(Locked, s) /\ Unlock(s)
                                /\ \E answer : Answered(h, answer, s.kill)
  <1> DEFINE hs    == handler[h]
             swept == Sweep(Locked, hs.stamp)
             top   == admitted + 1
  <1>1. TypeInv /\ TypeOK /\ Locked \in InnerType
    BY LockedType DEF SoundInv, TypeInv
  <1>2. /\ hs.stamp \in Nat /\ hs.id \in Id /\ (hs.op = "talk" => hs.talk \in Talk)
        /\ top \in Serial
    BY <1>1 DEF HandlerLocked, TalkKnown, TalkBusy, TalkAdmitted, Result, Cancel,
           TypeInv, Named, TypeOK, HandlerState, Serial
  <1>3. /\ swept \in InnerType /\ Hangs(Locked, swept) /\ Moves(Locked, swept, ByHand)
        /\ \A j \in Id : IsPending(swept.jobs[j]) => hs.stamp < Due(swept.jobs[j])
    BY <1>1, <1>2, SweepType, SweepHangs, SweepMoves
  <1>4. CASE TalkKnown(h) \/ TalkBusy(h) \/ Result(h)
    BY <1>3, <1>4 DEF TalkKnown, TalkBusy, Result
  <1>5. CASE TalkAdmitted(h)
    <2> DEFINE done == Admit(swept, hs.id, hs.talk, hs.stamp, top)
    <2>1. /\ swept.jobs[hs.id] = None /\ hs.talk \in Talk
          /\ Unlock(done) /\ Answered(h, Pending, done.kill)
      BY <1>2, <1>5 DEF TalkAdmitted
    <2>2. \A j \in Id : jobs[j] # None => jobs[j].serial \in Nat /\ jobs[j].serial <= admitted
      BY <1>1 DEF SoundInv, Sound, Numbered, Locked, TypeOK, Job, Serial
    <2>3. \A j \in Id : swept.jobs[j] # None => swept.jobs[j].serial # top
      <3> HIDE DEF swept
      <3>1. \A j \in Id : swept.jobs[j] # None =>
               jobs[j] # None /\ swept.jobs[j].serial = jobs[j].serial
        BY <1>3 DEF Moves, Goes, Ends, IsPending, Locked
      <3> QED BY <1>1, <2>2, <3>1 DEF TypeOK
    <2> HIDE DEF swept, hs, top
    <2>4. Hangs(swept, done) /\ Begins(swept, done.jobs, hs.id, top)
      BY <1>2, <1>3, <2>1, <2>3, AdmitHangs, AdmitMoves
    <2> HIDE DEF done
    <2>5. ASSUME NEW j \in Id, IsPending(Locked.jobs[j]), IsPending(done.jobs[j])
          PROVE  done.jobs[j] = swept.jobs[j] \/ done.jobs[j].serial # Locked.jobs[j].serial
      <3>1. PICK r \in InnerType, new \in Job :
               /\ Moves(swept, r, ByHand) /\ new.serial = top
               /\ done.jobs = [r.jobs EXCEPT ![hs.id] = new]
        BY <2>4 DEF Begins
      <3>2. done.jobs[j] = IF j = hs.id THEN new ELSE r.jobs[j]
        BY <3>1 DEF InnerType
      <3>3. Locked.jobs[j].serial # top
        BY <1>1, <2>2, <2>5 DEF Locked, IsPending, top, TypeOK
      <3> QED BY <2>5, <3>1, <3>2, <3>3, MovesPending
    <2>6. done \in InnerType
      BY <1>2, <1>3, <2>1, AdmitType DEF done
    <2>7. Hangs(Locked, done)
      BY <1>1, <1>3, <2>4, <2>5, HangsTwice
    <2> QED BY <2>1, <2>6, <2>7
  <1>6. CASE Cancel(h)
    <2> DEFINE state == Canceled("canceled")
               done  == Settle(swept, {hs.id}, state, 0, hs.stamp)
    <2>1. Unlock(done) /\ Answered(h, StateOrUnknown(done, hs.id), done.kill)
      BY <1>6 DEF Cancel
    <2>2. state \in State \ {Pending} /\ state # Failed("timeout")
      BY StateTypes DEF Canceled, Failed
    <2>3. \A j \in {hs.id} \cap PendingIds(swept) :
             hs.stamp < Due(swept.jobs[j]) /\ [id |-> j, state |-> state, by |-> 0] \in ByHand
      BY <1>3 DEF PendingIds, ByHand
    <2> HIDE DEF state, swept, hs
    <2>4. done \in InnerType /\ Hangs(swept, done) /\ Moves(swept, done, ByHand)
      BY <1>2, <1>3, <2>2, <2>3, SettleType, SettleHangs, SettleMoves
    <2> HIDE DEF done
    <2>5. Hangs(Locked, done)
      BY <1>1, <1>3, <2>4, HangsTwice, MovesPending
    <2> QED BY <2>1, <2>4, <2>5
  <1> QED BY <1>4, <1>5, <1>6 DEF HandlerLocked

\* What j holds after a step, if anything, it held before, and it is pending only
\* if it was.
Older(j) == jobs'[j] # None =>
                /\ jobs[j] # None /\ jobs'[j].serial = jobs[j].serial
                /\ IsPending(jobs'[j]) => IsPending(jobs[j])

\* A step gives no stored job another serial and makes none pending again; it
\* stores at most one job that is new, with the next serial.
LEMMA StepSerials ==
    ASSUME OutcomeInv, OutcomeInv', [Next]_vars
    PROVE  \/ admitted' = admitted /\ (\A j \in Id : Older(j))
           \/ /\ admitted' = admitted + 1
              /\ \E i \in Id : /\ jobs'[i] # None => jobs'[i].serial = admitted + 1
                               /\ \A j \in Id : j # i => Older(j)
  <1>1. SoundInv /\ RunInv
    BY DEF OutcomeInv
  <1>2. CASE Moves(Locked, Locked', ByHand \cup ByRun) /\ UNCHANGED <<admitted, first>>
    <2> DEFINE r == Locked'
    <2>1. Moves(Locked, r, ByHand \cup ByRun) /\ r.jobs = jobs'
      BY <1>2 DEF Locked
    <2> HIDE DEF r
    <2>2. \A j \in Id : Older(j)
      BY <2>1, OwnMoves DEF Older
    <2> QED BY <1>2, <2>2
  <1>3. ASSUME NEW h \in Handler, TalkAdmitted(h), Admits(handler[h].id)
        PROVE  /\ admitted' = admitted + 1
               /\ \E i \in Id : /\ jobs'[i] # None => jobs'[i].serial = admitted + 1
                                /\ \A j \in Id : j # i => Older(j)
    <2> DEFINE i == handler[h].id
    <2>1. i \in Id
      BY <1>1, <1>3 DEF SoundInv, TypeInv, Named, TalkAdmitted
    <2> HIDE DEF i
    <2>2. PICK r \in InnerType, new \in Job :
             /\ Moves(Locked, r, ByHand) /\ new.serial = admitted + 1
             /\ jobs' = [r.jobs EXCEPT ![i] = new]
      BY <1>3 DEF Admits, Begins, i
    <2>3. jobs'[i] = new /\ \A j \in Id : j # i => jobs'[j] = r.jobs[j]
      BY <2>1, <2>2 DEF InnerType
    <2>4. Moves(Locked, r, ByHand \cup ByRun)
      BY <2>2 DEF Moves
    <2>5. \A j \in Id : j # i => Older(j)
      BY <2>3, <2>4, OwnMoves DEF Older
    <2>6. admitted' = admitted + 1
      BY <1>3 DEF Admits
    <2> QED BY <2>1, <2>2, <2>3, <2>5, <2>6
  <1> QED BY <1>1, <1>2, <1>3, StepMoves

\* Serials tell the jobs apart, and the worker's run from those of other ids.
Apart ==
    /\ \A i, j \in Id : jobs[i] # None /\ jobs[j] # None /\ jobs[i].serial = jobs[j].serial
                           => i = j
    /\ \A j \in Id : jobs[j] # None /\ jobs[j].serial = worker.serial => j = worker.id

\* The worker's run changes only when it takes a queued job or ends one.
LEMMA WorkerTakes ==
    ASSUME OutcomeInv, OutcomeInv', [Next]_vars
    PROVE  \/ worker'.serial = worker.serial /\ worker'.id = worker.id
           \/ worker'.serial = 0
           \/ /\ admitted' = admitted
              /\ \E e \in queue : /\ worker'.serial = e.serial /\ worker'.id = e.id
                                  /\ e.id \in Id /\ jobs[e.id] # None
                                  /\ jobs[e.id].serial = e.serial
  <1>1. SoundInv /\ TypeInv /\ worker \in Worker /\ queue \subseteq Entry
    BY DEF OutcomeInv, SoundInv, TypeInv, TypeOK
  <1>2. CASE NextJob
    <2> PICK e \in queue :
           worker' = [Between EXCEPT !.phase = "connecting", !.id = e.id,
                         !.serial = e.serial, !.due = Due(jobs[e.id])]
      BY <1>2 DEF NextJob
    <2>1. worker'.serial = e.serial /\ worker'.id = e.id
      BY DEF Between
    <2>2. e.id \in Id /\ jobs[e.id] # None /\ jobs[e.id].serial = e.serial
      BY <1>1 DEF SoundInv, Sound, Placed, Locked, IsPending, Entry
    <2>3. admitted' = admitted
      BY <1>2 DEF NextJob
    <2> QED BY <2>1, <2>2, <2>3
  <1>3. CASE Finish
    BY <1>3 DEF Finish, Between
  <1>4. CASE WorkerStep /\ ~NextJob /\ ~Finish
    <2>1. CASE NothingToRun \/ SpuriousWakeup \/ ConnectFails \/ ConnectTimesOut
      BY <1>1, <2>1 DEF NothingToRun, SpuriousWakeup, ConnectFails, ConnectTimesOut, Generated, Worker
    <2>2. CASE Attach \/ AttachRefused
      BY <1>1, <2>2 DEF Attach, AttachRefused, Generated, Worker
    <2>3. CASE Respond \/ PostTimesOut \/ PostAborted \/ CannedReply
      BY <1>1, <2>3 DEF Respond, PostTimesOut, PostAborted, CannedReply, Generated, Worker
    <2> QED BY <1>4, <2>1, <2>2, <2>3 DEF WorkerStep, WorkerAlone
  <1>5. CASE Tick \/ UNCHANGED vars \/ \E h \in Handler : HandlerStep(h)
    <2>1. worker' = worker \/ Notify
      BY <1>5 DEF Tick, vars, HandlerStep, Arrive, ShutDown, HandlerLocked, TalkKnown,
             TalkBusy, TalkAdmitted, Result, Cancel
    <2> QED BY <1>1, <2>1 DEF Notify, Worker
  <1> QED BY <1>2, <1>3, <1>4, <1>5 DEF Next

\* Every step keeps the serials apart.
LEMMA ApartStep ==
    ASSUME OutcomeInv, OutcomeInv', Apart, [Next]_vars
    PROVE  Apart'
  <1>1. /\ admitted \in Nat /\ worker.serial \in Nat /\ worker.serial <= admitted
        /\ \A j \in Id : jobs[j] # None => jobs[j].serial \in Serial /\ jobs[j].serial <= admitted
        /\ \A j \in Id : jobs'[j] # None => jobs'[j].serial \in Serial
    BY DEF OutcomeInv, SoundInv, TypeInv, TypeOK, Worker, Sound, Numbered, Locked, Job
  <1>2. \/ admitted' = admitted /\ (\A j \in Id : Older(j))
        \/ /\ admitted' = admitted + 1
           /\ \E i \in Id : /\ jobs'[i] # None => jobs'[i].serial = admitted + 1
                            /\ \A j \in Id : j # i => Older(j)
    BY StepSerials
  <1>3. \A i, j \in Id : jobs'[i] # None /\ jobs'[j] # None /\ jobs'[i].serial = jobs'[j].serial
                            => i = j
    BY <1>1, <1>2 DEF Apart, Serial, Older
  <1>4. \A j \in Id : jobs'[j] # None /\ jobs'[j].serial = worker'.serial => j = worker'.id
    BY <1>1, <1>2, WorkerTakes DEF Apart, Serial, Older
  <1> QED BY <1>3, <1>4 DEF Apart

\* The sockets that are shut down, or will be.
Doomed == shut \cup ToShut

\* A running socket belongs to the worker's request, and the job of that id is
\* pending; a request that can be aborted has its socket there, or it is doomed;
\* what is doomed is no pending job's; and only a handler that has dropped the
\* lock has sockets to shut down.
SocketInv ==
    /\ OutcomeInv /\ Apart
    /\ running.conn # 0 => IsPending(jobs[running.id])
    /\ worker.phase = "posting" /\ worker.cloned =>
          running.conn = worker.serial \/ worker.serial \in Doomed
    /\ \A n \in Doomed : n <= admitted /\ \A j \in Id : IsPending(jobs[j]) => jobs[j].serial # n
    /\ \A h \in Handler : handler[h].phase # "answered" => handler[h].kill = {}

\* No socket is open at the start.
LEMMA InitSocketInv == Init => SocketInv
  <1> SUFFICES ASSUME Init PROVE SocketInv
    OBVIOUS
  <1>1. OutcomeInv
    BY InitOutcomeInv
  <1>2. Apart
    BY DEF Init, Apart
  <1>3. Doomed = {}
    BY DEF Init, Doomed, ToShut, Idle
  <1> QED BY <1>1, <1>2, <1>3 DEF Init, SocketInv, NotRunning, Between, Idle

\* While every doomed serial was doomed, and the worker's request stays doomed, no
\* pending job is doomed: no job becomes pending again, and a new one has a new serial.
LEMMA DoomedStep ==
    ASSUME SocketInv, OutcomeInv', [Next]_vars, NEW n \in Doomed
    PROVE  n <= admitted' /\ \A j \in Id : IsPending(jobs'[j]) => jobs'[j].serial # n
  <1>1. /\ OutcomeInv /\ admitted \in Nat /\ n <= admitted
        /\ \A j \in Id : IsPending(jobs[j]) => jobs[j].serial # n
        /\ n \in Nat
    <2>1. shut \subseteq Serial /\ \A h \in Handler : handler[h].kill \subseteq Serial
      BY DEF SocketInv, OutcomeInv, SoundInv, TypeInv, TypeOK, HandlerState
    <2>2. n \in Nat
      BY <2>1 DEF Doomed, ToShut, Serial
    <2> QED BY <2>2 DEF SocketInv, OutcomeInv, SoundInv, TypeInv, TypeOK
  <1>2. \/ admitted' = admitted /\ (\A j \in Id : Older(j))
        \/ /\ admitted' = admitted + 1
           /\ \E i \in Id : /\ jobs'[i] # None => jobs'[i].serial = admitted + 1
                            /\ \A j \in Id : j # i => Older(j)
    BY <1>1, StepSerials
  <1>3. n <= admitted'
    BY <1>1, <1>2
  <1>4. ASSUME NEW j \in Id, IsPending(jobs'[j]) PROVE jobs'[j].serial # n
    <2>1. jobs'[j] # None
      BY <1>4 DEF IsPending
    <2>2. CASE Older(j)
      BY <1>1, <1>4, <2>1, <2>2 DEF Older
    <2>3. CASE ~Older(j)
      BY <1>1, <1>2, <2>1, <2>3
    <2> QED BY <2>2, <2>3
  <1> QED BY <1>3, <1>4

\* A handler's locked section.
LEMMA SocketByHandler ==
    ASSUME SocketInv, OutcomeInv', [Next]_vars, NEW h \in Handler, HandlerLocked(h)
    PROVE  /\ running'.conn # 0 => IsPending(jobs'[running'.id])
           /\ worker'.phase = "posting" /\ worker'.cloned =>
                 running'.conn = worker'.serial \/ worker'.serial \in Doomed'
           /\ \A n \in Doomed' : /\ n <= admitted'
                                 /\ \A j \in Id : IsPending(jobs'[j]) => jobs'[j].serial # n
           /\ \A k \in Handler : handler'[k].phase # "answered" => handler'[k].kill = {}
  <1>1. /\ OutcomeInv /\ SoundInv /\ TypeInv /\ TypeOK /\ WorkerHasJob /\ Apart
        /\ worker \in Worker /\ running \in Running /\ worker.serial <= admitted
        /\ handler \in [Handler -> HandlerState]
    BY DEF SocketInv, OutcomeInv, SoundInv, TypeInv, TypeOK
  <1>2. PICK s \in InnerType : /\ Hangs(Locked, s) /\ Unlock(s)
                               /\ \E answer : Answered(h, answer, s.kill)
    BY <1>1, HandlerHangs
  <1>3. handler[h].phase = "stamped" /\ handler[h].kill = {} /\ shut' = shut
    BY DEF HandlerLocked, TalkKnown, TalkBusy, TalkAdmitted, Result, Cancel, SocketInv
  <1>4. /\ handler'[h].phase = "answered" /\ handler'[h].kill = s.kill
        /\ \A k \in Handler : k # h => handler'[k] = handler[k]
    BY <1>1, <1>2 DEF Answered, Idle
  <1>5. Doomed' = Doomed \cup s.kill
    <2>1. ToShut' = ToShut \cup s.kill
      BY <1>3, <1>4 DEF ToShut
    <2> QED BY <1>3, <2>1 DEF Doomed
  <1>6. \A k \in Handler : handler'[k].phase # "answered" => handler'[k].kill = {}
    BY <1>4 DEF SocketInv
  <1>7. worker'.phase = "posting" => worker' = worker
    BY <1>1 DEF HandlerLocked, TalkKnown, TalkBusy, TalkAdmitted, Result, Cancel, Notify, Worker
  <1>8. running' = s.running /\ jobs' = s.jobs
    BY <1>2 DEF Unlock
  <1>9. running.conn # 0 => /\ worker.phase \notin {"seeking", "waiting"}
                            /\ running.conn = worker.serial /\ running.id = worker.id
                            /\ worker.id \in Id /\ worker.serial \in Serial
    BY <1>1 DEF WorkerHasJob, NotRunning
  <1>10. CASE Keeps(Locked, s)
    <2>1. running' = running /\ s.kill = {}
      BY <1>8, <1>10 DEF Keeps, Locked
    <2>2. running.id \in Id /\ IsPending(jobs[running.id]) => IsPending(jobs'[running.id])
      BY <1>8, <1>10 DEF Keeps, Locked
    <2>3. running'.conn # 0 => IsPending(jobs'[running'.id])
      BY <1>9, <2>1, <2>2 DEF SocketInv
    <2>4. Doomed' = Doomed
      BY <1>5, <2>1
    <2> QED BY <1>6, <1>7, <2>1, <2>3, <2>4, DoomedStep DEF SocketInv
  <1>11. CASE Collects(Locked, s)
    <2>1. /\ running'.conn = 0 /\ s.kill = {running.conn} \ {0}
          /\ running.id \in Id /\ IsPending(jobs[running.id])
          /\ IsPending(jobs'[running.id]) => jobs'[running.id].serial # jobs[running.id].serial
      BY <1>1, <1>8, <1>11 DEF Collects, Locked, Running
    <2>2. worker'.phase = "posting" /\ worker'.cloned => worker'.serial \in Doomed'
      <3> SUFFICES ASSUME worker.phase = "posting", worker.cloned
                   PROVE  worker.serial \in Doomed'
        BY <1>7
      <3>1. worker.serial \in Serial
        BY <1>1 DEF WorkerHasJob
      <3>2. running.conn = worker.serial \/ worker.serial \in Doomed
        BY DEF SocketInv
      <3> QED BY <1>5, <2>1, <3>1, <3>2 DEF Serial
    <2>3. ASSUME running.conn # 0
          PROVE  /\ running.conn <= admitted'
                 /\ \A j \in Id : IsPending(jobs'[j]) => jobs'[j].serial # running.conn
      <3>1. running.conn = worker.serial /\ running.id = worker.id /\ worker.serial \in Serial
        BY <1>9, <2>3
      <3>2. \/ admitted' = admitted /\ (\A j \in Id : Older(j))
            \/ /\ admitted' = admitted + 1
               /\ \E i \in Id : /\ jobs'[i] # None => jobs'[i].serial = admitted + 1
                                /\ \A j \in Id : j # i => Older(j)
        BY <1>1, StepSerials
      <3>3. admitted \in Nat
        BY <1>1 DEF TypeOK
      <3>4. ASSUME NEW j \in Id, IsPending(jobs'[j]), jobs'[j].serial = worker.serial
            PROVE  FALSE
        <4>1. jobs'[j] # None /\ Older(j)
          BY <1>1, <3>1, <3>2, <3>3, <3>4 DEF IsPending, Serial
        <4>2. jobs[j] # None /\ jobs[j].serial = worker.serial
          BY <3>4, <4>1 DEF Older
        <4>3. j = running.id
          BY <1>1, <3>1, <4>2 DEF Apart
        <4> QED BY <2>1, <3>4, <4>2, <4>3
      <3>5. worker.serial <= admitted'
        BY <1>1, <3>1, <3>2, <3>3 DEF Serial
      <3> QED BY <3>1, <3>4, <3>5
    <2>4. \A n \in Doomed' : /\ n <= admitted'
                             /\ \A j \in Id : IsPending(jobs'[j]) => jobs'[j].serial # n
      BY <1>5, <2>1, <2>3, DoomedStep
    <2> QED BY <1>6, <2>1, <2>2, <2>4
  <1> QED BY <1>2, <1>10, <1>11 DEF Hangs

\* Every step keeps SocketInv.
THEOREM SocketInvStep == SocketInv /\ [Next]_vars => SocketInv'
  <1> SUFFICES ASSUME SocketInv, [Next]_vars PROVE SocketInv'
    OBVIOUS
  <1>1. /\ OutcomeInv /\ OutcomeInv' /\ Apart'
        /\ SoundInv /\ TypeInv /\ TypeOK /\ WorkerHasJob /\ Apart
        /\ worker \in Worker /\ running \in Running
        /\ handler \in [Handler -> HandlerState]
    BY OutcomeInvStep, ApartStep DEF SocketInv, OutcomeInv, SoundInv, TypeInv, TypeOK
  <1>2. ASSUME NEW h \in Handler, HandlerLocked(h) PROVE SocketInv'
    BY <1>1, <1>2, SocketByHandler DEF SocketInv
  <1>3. ASSUME Doomed' = Doomed,
               running'.conn # 0 => IsPending(jobs'[running'.id]),
               worker'.phase = "posting" /\ worker'.cloned =>
                  running'.conn = worker'.serial \/ worker'.serial \in Doomed,
               \A h \in Handler : handler'[h].phase # "answered" => handler'[h].kill = {}
        PROVE  SocketInv'
    <2>1. \A n \in Doomed' : /\ n <= admitted'
                             /\ \A j \in Id : IsPending(jobs'[j]) => jobs'[j].serial # n
      BY <1>1, <1>3, DoomedStep
    <2> QED BY <1>1, <1>3, <2>1 DEF SocketInv
  <1>4. UNCHANGED <<handler, shut>> => Doomed' = Doomed
    BY DEF Doomed, ToShut
  <1>5. CASE WorkerStep /\ ~Attach
    <2>1. UNCHANGED <<handler, shut>>
      <3>1. CASE NextJob \/ NothingToRun \/ Finish
        BY <3>1 DEF NextJob, NothingToRun, Finish
      <3>2. CASE ~(NextJob \/ NothingToRun \/ Finish)
        BY <1>5, <3>2 DEF WorkerStep, WorkerAlone, SpuriousWakeup, ConnectFails, ConnectTimesOut,
               AttachRefused, Respond, PostTimesOut, PostAborted, CannedReply, Generated
      <3> QED BY <3>1, <3>2
    <2>2. worker'.phase # "posting"
      <3>1. CASE NothingToRun \/ Finish \/ SpuriousWakeup
        BY <1>1, <3>1 DEF NothingToRun, Finish, SpuriousWakeup, Between, Worker
      <3>2. CASE NextJob
        <4> PICK e \in queue :
               worker' = [Between EXCEPT !.phase = "connecting", !.id = e.id,
                             !.serial = e.serial, !.due = Due(jobs[e.id])]
          BY <3>2 DEF NextJob
        <4> QED BY DEF Between
      <3>3. CASE \E outcome : Generated(outcome)
        <4> PICK outcome : worker' = [worker EXCEPT !.phase = "finishing", !.outcome = outcome,
                                                   !.stamp = clock]
          BY <3>3 DEF Generated
        <4> QED BY <1>1 DEF Worker
      <3> QED BY <1>5, <3>1, <3>2, <3>3 DEF WorkerStep, WorkerAlone, ConnectFails, ConnectTimesOut,
                 AttachRefused, Respond, PostTimesOut, PostAborted, CannedReply
    <2>3. running'.conn # 0 => UNCHANGED <<running, jobs>>
      <3>1. CASE NextJob
        <4>1. PICK e \in queue :
                 Unlock([Popped(Before(e)) EXCEPT !.queue = @ \ {e},
                            !.running = [id |-> e.id, conn |-> 0]])
          BY <3>1 DEF NextJob
        <4>2. Before(e) \in SUBSET queue
          BY DEF Before
        <4>3. Popped(Before(e)) \in InnerType
          BY <1>1, <4>2, PoppedSound
        <4> QED BY <4>1, <4>3 DEF Unlock, InnerType
      <3>2. CASE NothingToRun
        <4>1. Unlock(Popped(queue)) /\ worker.phase = "seeking"
          BY <3>2 DEF NothingToRun
        <4>2. Locked.running.conn = 0 /\ Locked.running \in Running
          BY <1>1, <4>1 DEF WorkerHasJob, Locked, NotRunning
        <4>3. Popped(queue).running \in {Locked.running, [Locked.running EXCEPT !.conn = 0]}
          <5> DEFINE s   == [Locked EXCEPT !.queue = queue \ queue]
                     ids == {e.id : e \in queue}
                     why == Failed("timeout")
          <5>1. s.running = Locked.running /\ s \in InnerType
            BY <1>1, LockedType DEF Locked, InnerType
          <5>2. Popped(queue) = Settle(s, ids, why, 0, clock)
            BY DEF Popped
          <5> HIDE DEF s, ids, why
          <5>3. Settle(s, ids, why, 0, clock).running \in {s.running, [s.running EXCEPT !.conn = 0]}
            BY <5>1, SettleRunning
          <5> QED BY <5>1, <5>2, <5>3
        <4> QED BY <4>1, <4>2, <4>3 DEF Unlock, Running
      <3>3. CASE Finish
        <4> DEFINE swept == Sweep(Freed, worker.stamp)
                   done  == Settle(swept, {worker.id}, worker.outcome, worker.serial,
                                   worker.stamp)
        <4>1. Freed \in InnerType /\ Freed.running.conn = 0
          BY <1>1, LockedType DEF Freed, Locked, InnerType, Running, NotRunning
        <4>2. worker.stamp \in Nat
          BY <1>1 DEF Worker
        <4>3. swept.running \in {Freed.running, [Freed.running EXCEPT !.conn = 0]}
          BY <4>1, <4>2, SweepRunning
        <4>t. swept \in InnerType
          BY <4>1, <4>2, SweepType
        <4> HIDE DEF swept
        <4>4. done.running \in {swept.running, [swept.running EXCEPT !.conn = 0]}
          <5> DEFINE ids == {worker.id}
          <5> HIDE DEF ids
          <5>1. Settle(swept, ids, worker.outcome, worker.serial, worker.stamp).running
                   \in {swept.running, [swept.running EXCEPT !.conn = 0]}
            BY <4>t, SettleRunning
          <5> QED BY <5>1 DEF ids
        <4>5. Unlock(done)
          BY <3>3 DEF Finish, swept
        <4>6. Freed.running \in Running
          BY <4>1 DEF InnerType
        <4> HIDE DEF done
        <4> QED BY <4>1, <4>3, <4>4, <4>5, <4>6 DEF Unlock, Running
      <3> QED BY <1>5, <3>1, <3>2, <3>3 DEF WorkerStep, WorkerAlone, SpuriousWakeup, ConnectFails,
                 ConnectTimesOut, AttachRefused, Respond, PostTimesOut, PostAborted, CannedReply,
                 Generated, inner
    <2>4. running'.conn # 0 => IsPending(jobs'[running'.id])
      BY <2>3 DEF SocketInv
    <2> QED BY <1>3, <1>4, <2>1, <2>2, <2>4 DEF SocketInv
  <1>6. CASE Attach
    <2>1. UNCHANGED <<handler, shut, jobs>>
      BY <1>6 DEF Attach
    <2>2. PICK cloned \in BOOLEAN :
             /\ running' = IF cloned THEN [running EXCEPT !.conn = worker.serial] ELSE running
             /\ worker' = [worker EXCEPT !.phase = "posting", !.cloned = cloned]
      BY <1>6 DEF Attach
    <2>3. running.id = worker.id /\ IsPending(jobs[worker.id])
      BY <1>6 DEF Attach
    <2>4. running'.id = running.id
      BY <1>1, <2>2 DEF Running
    <2>5. running'.conn # 0 => IsPending(jobs'[running'.id])
      BY <2>1, <2>3, <2>4
    <2>6. worker'.cloned => running'.conn = worker'.serial
      BY <1>1, <2>2 DEF Running, Worker
    <2> QED BY <1>3, <1>4, <2>1, <2>5, <2>6 DEF SocketInv
  <1>7. CASE Tick \/ UNCHANGED vars
    BY <1>3, <1>4, <1>7 DEF Tick, vars, inner, SocketInv
  <1>8. ASSUME NEW h \in Handler, Arrive(h) PROVE SocketInv'
    <2>1. /\ handler[h].phase = "idle" /\ handler'[h].phase = "stamped" /\ handler'[h].kill = {}
          /\ \A k \in Handler : k # h => handler'[k] = handler[k]
          /\ UNCHANGED <<jobs, running, worker, shut>>
      BY <1>1, <1>8 DEF Arrive, Idle, inner
    <2>2. \A k \in Handler : handler'[k].kill = handler[k].kill
      BY <2>1 DEF SocketInv
    <2>3. Doomed' = Doomed
      BY <2>1, <2>2 DEF Doomed, ToShut
    <2> QED BY <1>3, <2>1, <2>3 DEF SocketInv
  <1>9. ASSUME NEW h \in Handler, ShutDown(h) PROVE SocketInv'
    <2>1. /\ handler'[h].kill = {} /\ shut' = shut \cup handler[h].kill
          /\ \A k \in Handler : k # h => handler'[k] = handler[k]
          /\ UNCHANGED <<jobs, running, worker>>
      BY <1>1, <1>9 DEF ShutDown, Idle, inner
    <2>2. ToShut = handler[h].kill \cup ToShut'
      <3>1. ToShut' = UNION {handler[k].kill : k \in Handler \ {h}}
        BY <2>1 DEF ToShut
      <3> QED BY <3>1 DEF ToShut
    <2>3. Doomed' = Doomed
      BY <2>1, <2>2 DEF Doomed
    <2> QED BY <1>3, <2>1, <2>3 DEF SocketInv
  <1> QED BY <1>2, <1>5, <1>6, <1>7, <1>8, <1>9 DEF Next, HandlerStep

\* A request whose job left PENDING is aborted: its socket has been shut down or
\* a handler is about to, unless the dup of the socket had failed (attach, abort).
THEOREM AbortsReachTheWorker == Spec => []AbortReachesTheWorker
  <1>1. SocketInv => AbortReachesTheWorker
    BY DEF SocketInv, OutcomeInv, SoundInv, TypeInv, WorkerHasJob, Serial, Doomed,
           AbortReachesTheWorker
  <1> QED BY <1>1, InitSocketInv, SocketInvStep, PTL DEF Spec

\* No abort hits the request of a job that is still PENDING, however late it comes.
THEOREM AbortsHitNoPendingJob == Spec => []AbortHitsNoPendingJob
  <1>1. SocketInv => AbortHitsNoPendingJob
    BY DEF SocketInv, Doomed, AbortHitsNoPendingJob
  <1> QED BY <1>1, InitSocketInv, SocketInvStep, PTL DEF Spec

===============================================================================
