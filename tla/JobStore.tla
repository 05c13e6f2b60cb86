------------------------------ MODULE JobStore ------------------------------
(***************************************************************************)
(* The job store of calradia-server and its single worker (jobs.rs), with  *)
(* the part of the upstream client (upstream.rs) that the worker runs      *)
(* between taking a job and recording its outcome.                         *)
(*                                                                         *)
(* All shared state is behind one mutex, so each locked section is one     *)
(* action.  What is NOT atomic is what happens around the lock: a handler  *)
(* reads the clock before it takes the lock and shuts upstream sockets     *)
(* down after it has dropped it, and the worker connects, posts and reads  *)
(* with no lock at all.  Those are separate actions here.                  *)
(*                                                                         *)
(* Time is an integer clock; Instant::now() is the value of the clock.     *)
(* Every admission gets a serial number.  It stands for the position in    *)
(* the VecDeque (push_back order) and it tells apart the incarnations of a *)
(* job id that a client uses again; the code has no such number.           *)
(***************************************************************************)
EXTENDS Integers, FiniteSets

CONSTANTS
    Id,            \* job ids (u32, ordered: evictions break ties by id)
    Npc, Scope,    \* a new job supersedes the pending jobs of its npc and scope
    Words,         \* the rest of the fingerprint: day, pname, msg
    Handler,       \* connection threads that may be in the store at once
    Ops,           \* the requests clients make: talk, result, cancel
    MaxJobs, QueueLen, Deadline, Ttl,   \* Limits
    Backends,      \* what may serve a job: "upstream", "canned" (the code has one of them)
    MaxTime,       \* bound of the clock
    MaxAdmissions, \* bound of the number of jobs ever admitted
    None           \* the absent value of an Option

Talk   == [npc : Npc, scope : Scope, words : Words]
Serial == Nat \ {0}

\* "upstream_error" stands for upstream_unavailable and empty_reply too: nothing
\* below depends on which of the three it is.
FailReasons == {"timeout", "upstream_error", "canceled"}

Pending        == [code |-> "PENDING",  text |-> "pending"]
Ready          == [code |-> "READY",    text |-> "reply"]
Failed(why)    == [code |-> "FAILED",   text |-> why]
Canceled(why)  == [code |-> "CANCELED", text |-> why]
Busy           == [code |-> "BUSY",     text |-> "busy"]
Conflict       == [code |-> "BAD_REQUEST", text |-> "conflict"]
Unknown        == [code |-> "UNKNOWN_JOB", text |-> "unknown_job"]

Outcome == {Ready} \cup {Failed(why) : why \in FailReasons}
State   == {Pending, Canceled("canceled"), Canceled("superseded")} \cup Outcome
Answer  == State \cup {Busy, Conflict, Unknown}

\* by is the serial of the run that produced the state, 0 if a handler did:
\* it stands for the reply text.  finished is read only after the job ended.
Job == [talk : Talk, state : State, by : Nat,
        created : Nat, finished : Nat, serial : Serial]

\* What a client can tell of a job.
Seen == [run : Serial, line : [npc : Npc, scope : Scope], state : State]

ASSUME IdAssumption     == Id \subseteq Nat /\ IsFiniteSet(Id)
ASSUME LimitsAssumption == /\ MaxJobs \in Nat \ {0}  /\ QueueLen \in Nat \ {0}
                           /\ Deadline \in Nat \ {0} /\ Ttl \in Nat \ {0}
ASSUME BoundsAssumption == MaxTime \in Nat /\ MaxAdmissions \in Nat
ASSUME NoneAssumption   == None \notin Id \cup Job \cup Talk \cup Seen
ASSUME OpsAssumption    == Ops \subseteq {"talk", "result", "cancel"}
ASSUME BackendAssumption == Backends \subseteq {"upstream", "canned"}

VARIABLES
    clock,      \* Instant::now()
    jobs,       \* Inner.jobs: id -> job, None where the map has no entry
    queue,      \* Inner.queue: [serial, id] entries, front = least serial
    running,    \* Inner.running: [id, conn]; id = None is Option::None, conn
                \* is the serial of the run whose socket it clones, 0 is None
    worker,     \* the worker thread, between its locked sections too
    handler,    \* the connection threads
    shut,       \* runs whose upstream socket has been shut down
    admitted,   \* admissions so far: the last serial given out
    first       \* the serial of each id's first admission, 0 before it

inner == <<jobs, queue, running>>
vars  == <<clock, jobs, queue, running, worker, handler, shut,
          admitted, first>>

Entry   == [serial : Serial, id : Id]
Running == [id : Id \cup {None}, conn : Nat]
NotRunning == [id |-> None, conn |-> 0]

Worker == [phase : {"seeking", "waiting", "connecting", "posting", "finishing"},
           id : Id \cup {None}, serial : Nat, due : Nat,
           cloned : BOOLEAN, outcome : Outcome \cup {None}, stamp : Nat]
Between == [phase |-> "seeking", id |-> None, serial |-> 0, due |-> 0,
            cloned |-> FALSE, outcome |-> None, stamp |-> 0]

HandlerState == [phase : {"idle", "stamped", "answered"},
                 op : {"talk", "result", "cancel"},
                 id : Id \cup {None}, talk : Talk \cup {None}, stamp : Nat,
                 answer : Answer \cup {None}, kill : SUBSET Serial]
Idle == [phase |-> "idle", op |-> "result", id |-> None, talk |-> None,
         stamp |-> 0, answer |-> None, kill |-> {}]

Init == /\ clock = 0
        /\ jobs = [j \in Id |-> None]
        /\ queue = {}
        /\ running = NotRunning
        /\ worker = Between
        /\ handler = [h \in Handler |-> Idle]
        /\ shut = {}
        /\ admitted = 0
        /\ first = [j \in Id |-> 0]

-----------------------------------------------------------------------------
(* What the locked sections do to Inner.  An Inner here is a record that    *)
(* also collects the sockets to shut down once the lock is dropped.         *)

Locked == [jobs |-> jobs, queue |-> queue, running |-> running, kill |-> {}]

Unlock(s) == jobs' = s.jobs /\ queue' = s.queue /\ running' = s.running

\* Below, \E s \in {e} : ... names the value e, so that TLC computes it once.

IsPending(job)  == job # None /\ job.state = Pending
IsTerminal(job) == job # None /\ job.state # Pending
Due(job)        == job.created + Deadline
SameTalk(job, talk) == job.talk.npc = talk.npc /\ job.talk.words = talk.words

PendingIds(s) == {j \in Id : IsPending(s.jobs[j])}
TerminalIds(s) == {j \in Id : IsTerminal(s.jobs[j])}
StoredIds(s)  == {j \in Id : s.jobs[j] # None}

\* Jobs leave PENDING: they get their state and their end, are taken off the
\* queue, and if one of them is running, it gives up its socket.
Leave(s, live, state, by, now) ==
    [jobs |-> [j \in Id |->
                 IF j \in live
                 THEN [s.jobs[j] EXCEPT !.state = state, !.by = by, !.finished = now]
                 ELSE s.jobs[j]],
     queue |-> {e \in s.queue : e.id \notin live},
     running |-> IF s.running.id \in live THEN [s.running EXCEPT !.conn = 0]
                                          ELSE s.running,
     kill |-> IF s.running.id \in live THEN s.kill \cup ({s.running.conn} \ {0})
                                       ELSE s.kill]

\* Mutants of Settle: a terminal job settles again; the queue entry stays; the
\* socket goes whichever job runs.
Settle_Again(s, S, state, by, now) == Leave(s, S \cap StoredIds(s), state, by, now)
Settle_KeepsQueue(s, S, state, by, now) ==
    [Leave(s, S \cap PendingIds(s), state, by, now) EXCEPT !.queue = s.queue]
Settle_AnySocket(s, S, state, by, now) ==
    [Leave(s, S \cap PendingIds(s), state, by, now) EXCEPT
        !.kill = IF S \cap PendingIds(s) = {} THEN @
                 ELSE s.kill \cup ({s.running.conn} \ {0})]

\* Settle for each job of S: only a pending one leaves PENDING.
Settle(s, S, state, by, now) == Leave(s, S \cap PendingIds(s), state, by, now)

Remove(s, S) ==
    [s EXCEPT !.jobs = [j \in Id |-> IF j \in S THEN None ELSE s.jobs[j]]]

\* Run first by every handler and by finish: overdue jobs fail, then terminal
\* jobs past their TTL go.
Sweep(s, now) ==
    LET overdue == {j \in PendingIds(s) : now >= Due(s.jobs[j])}
        swept   == Settle(s, overdue, Failed("timeout"), 0, now)
        expired == {j \in TerminalIds(swept) : now - swept.jobs[j].finished >= Ttl}
    IN  Remove(swept, expired)

-----------------------------------------------------------------------------
(* Admission of a new job                                                   *)

\* Mutant of Victims: the running job is forgotten.
Victims_OnlyQueued(s, talk) ==
    {j \in PendingIds(s) : /\ s.jobs[j].talk.npc = talk.npc
                           /\ s.jobs[j].talk.scope = talk.scope
                           /\ s.running.id # j}

Victims(s, talk) == {j \in PendingIds(s) : /\ s.jobs[j].talk.npc = talk.npc
                                           /\ s.jobs[j].talk.scope = talk.scope}

NoRoom(s, talk) ==
    \/ Cardinality({e \in s.queue : e.id \notin Victims(s, talk)}) >= QueueLen
    \/ /\ Cardinality(StoredIds(s)) >= MaxJobs
       /\ Victims(s, talk) = {} /\ TerminalIds(s) = {}

EndedBefore(s, a, b) ==
    \/ s.jobs[a].finished < s.jobs[b].finished
    \/ s.jobs[a].finished = s.jobs[b].finished /\ a < b

\* Mutant of Evicted: the store may be full before the insert.
Evicted_OneShort(s) ==
    {j \in TerminalIds(s) :
        Cardinality({i \in TerminalIds(s) : EndedBefore(s, i, j)})
            < Cardinality(StoredIds(s)) - MaxJobs}

\* The terminal jobs that go while the store is full, first finished first.
Evicted(s) ==
    {j \in TerminalIds(s) :
        Cardinality({i \in TerminalIds(s) : EndedBefore(s, i, j)})
            < Cardinality(StoredIds(s)) + 1 - MaxJobs}

Insert(s, id, talk, now, serial) ==
    [s EXCEPT !.jobs = [s.jobs EXCEPT ![id] =
                          [talk |-> talk, state |-> Pending, by |-> 0,
                           created |-> now, finished |-> 0, serial |-> serial]],
              !.queue = s.queue \cup {[serial |-> serial, id |-> id]}]

\* The victims go before the room is made, so a victim may be evicted in the
\* same locked section.
Admit(s, id, talk, now, serial) ==
    LET settled == Settle(s, Victims(s, talk), Canceled("superseded"), 0, now)
        roomy   == Remove(settled, Evicted(settled))
    IN  Insert(roomy, id, talk, now, serial)

-----------------------------------------------------------------------------
(* Connection threads                                                       *)

\* Talks that will still reach admit: with them the admissions stay bounded.
TalksInFlight ==
    {h \in Handler : handler[h].phase = "stamped" /\ handler[h].op = "talk"}

\* A request arrives; the handler reads the clock, not yet holding the lock.
Arrive(h) ==
    /\ handler[h].phase = "idle"
    /\ \E op \in Ops, id \in Id, talk \in Talk \cup {None} :
          /\ (op = "talk") = (talk # None)
          /\ op = "talk" => /\ admitted + Cardinality(TalksInFlight) < MaxAdmissions
                            /\ clock + Deadline <= MaxTime
          /\ handler' = [handler EXCEPT ![h] =
                [Idle EXCEPT !.phase = "stamped", !.op = op, !.id = id,
                             !.talk = talk, !.stamp = clock]]
    /\ UNCHANGED <<clock, inner, worker, shut, admitted, first>>

Answered(h, answer, kill) ==
    handler' = [handler EXCEPT ![h] =
                  [Idle EXCEPT !.phase = "answered", !.answer = answer, !.kill = kill]]

\* Mutant of Notify: the wakeup is lost.
Notify_Lost == UNCHANGED worker

\* notify_one: the worker, if it waits, runs again.
Notify == worker' = [worker EXCEPT !.phase = IF @ = "waiting" THEN "seeking" ELSE @]

\* talk_with_prompt: the job exists, with these parameters or with others.
TalkKnown(h) ==
    /\ handler[h].phase = "stamped" /\ handler[h].op = "talk"
    /\ \E swept \in {Sweep(Locked, handler[h].stamp)} :
       \E job \in {swept.jobs[handler[h].id]} :
          /\ job # None
          /\ Unlock(swept)
          /\ Answered(h, IF SameTalk(job, handler[h].talk) THEN job.state ELSE Conflict,
                      swept.kill)
    /\ UNCHANGED <<clock, worker, shut, admitted, first>>

TalkBusy(h) ==
    /\ handler[h].phase = "stamped" /\ handler[h].op = "talk"
    /\ \E swept \in {Sweep(Locked, handler[h].stamp)} :
          /\ swept.jobs[handler[h].id] = None
          /\ NoRoom(swept, handler[h].talk)
          /\ Unlock(swept)
          /\ Answered(h, Busy, swept.kill)
    /\ UNCHANGED <<clock, worker, shut, admitted, first>>

TalkAdmitted(h) ==
    /\ handler[h].phase = "stamped" /\ handler[h].op = "talk"
    /\ \E swept \in {Sweep(Locked, handler[h].stamp)} :
          /\ swept.jobs[handler[h].id] = None
          /\ ~NoRoom(swept, handler[h].talk)
          /\ \E done \in {Admit(swept, handler[h].id, handler[h].talk,
                                handler[h].stamp, admitted + 1)} :
                Unlock(done) /\ Answered(h, Pending, done.kill)
    /\ Notify
    /\ admitted' = admitted + 1
    /\ first' = [first EXCEPT ![handler[h].id] = IF @ = 0 THEN admitted + 1 ELSE @]
    /\ UNCHANGED <<clock, shut>>

StateOrUnknown(s, id) == IF s.jobs[id] = None THEN Unknown ELSE s.jobs[id].state

Result(h) ==
    /\ handler[h].phase = "stamped" /\ handler[h].op = "result"
    /\ \E swept \in {Sweep(Locked, handler[h].stamp)} :
          /\ Unlock(swept)
          /\ Answered(h, StateOrUnknown(swept, handler[h].id), swept.kill)
    /\ UNCHANGED <<clock, worker, shut, admitted, first>>

Cancel(h) ==
    /\ handler[h].phase = "stamped" /\ handler[h].op = "cancel"
    /\ \E swept \in {Sweep(Locked, handler[h].stamp)} :
       \E done \in {Settle(swept, {handler[h].id}, Canceled("canceled"), 0,
                           handler[h].stamp)} :
          /\ Unlock(done)
          /\ Answered(h, StateOrUnknown(done, handler[h].id), done.kill)
    /\ UNCHANGED <<clock, worker, shut, admitted, first>>

\* The lock is free again: shut the collected sockets down, then answer.
ShutDown(h) ==
    /\ handler[h].phase = "answered"
    /\ shut' = shut \cup handler[h].kill
    /\ handler' = [handler EXCEPT ![h] = Idle]
    /\ UNCHANGED <<clock, inner, worker, admitted, first>>

-----------------------------------------------------------------------------
(* The worker                                                               *)

Runnable(e) == IsPending(jobs[e.id]) /\ clock < Due(jobs[e.id])

\* next_job pops the entries of S for good; a job among them that is still
\* pending is overdue, and fails.  Nothing is running, so no socket is taken.
Popped(S) == Settle([Locked EXCEPT !.queue = queue \ S], {e.id : e \in S},
                    Failed("timeout"), 0, clock)

Before(e) == {d \in queue : d.serial < e.serial}

\* next_job takes the first job in the queue that is not overdue.
NextJob ==
    /\ worker.phase = "seeking"
    /\ \E e \in queue :
          /\ Runnable(e)
          /\ \A d \in Before(e) : ~Runnable(d)
          /\ \E s \in {Popped(Before(e))} :
                Unlock([s EXCEPT !.queue = @ \ {e},
                                 !.running = [id |-> e.id, conn |-> 0]])
          /\ worker' = [Between EXCEPT !.phase = "connecting", !.id = e.id,
                             !.serial = e.serial, !.due = Due(jobs[e.id])]
    /\ UNCHANGED <<clock, handler, shut, admitted, first>>

\* next_job pops everything without finding one, and waits on the condvar.
NothingToRun ==
    /\ worker.phase = "seeking"
    /\ \A e \in queue : ~Runnable(e)
    /\ \E s \in {Popped(queue)} : Unlock(s)
    /\ worker' = [worker EXCEPT !.phase = "waiting"]
    /\ UNCHANGED <<clock, handler, shut, admitted, first>>

\* A condition variable may also wake on its own.
SpuriousWakeup ==
    /\ worker.phase = "waiting"
    /\ worker' = [worker EXCEPT !.phase = "seeking"]
    /\ UNCHANGED <<clock, inner, handler, shut, admitted, first>>

\* generate returned: the worker reads the clock, not yet holding the lock.
Generated(outcome) ==
    /\ worker' = [worker EXCEPT !.phase = "finishing", !.outcome = outcome,
                                !.stamp = clock]
    /\ UNCHANGED <<clock, inner, handler, shut, admitted, first>>

\* Resolving or connecting failed, or the code panicked.
ConnectFails ==
    /\ worker.phase = "connecting" /\ "upstream" \in Backends
    /\ Generated(Failed("upstream_error"))

ConnectTimesOut ==
    /\ worker.phase = "connecting" /\ "upstream" \in Backends
    /\ clock >= worker.due
    /\ Generated(Failed("timeout"))

\* Mutant of Attach: the job is not looked at.
Attach_Unchecked ==
    /\ worker.phase = "connecting" /\ "upstream" \in Backends
    /\ running.id = worker.id
    /\ \E cloned \in BOOLEAN :
          /\ running' = IF cloned THEN [running EXCEPT !.conn = worker.serial]
                                  ELSE running
          /\ worker' = [worker EXCEPT !.phase = "posting", !.cloned = cloned]
    /\ UNCHANGED <<clock, jobs, queue, handler, shut, admitted, first>>

\* Connected, and attach takes the lock.  The dup of the socket may fail; then
\* the request runs, but nobody can abort it.
Attach ==
    /\ worker.phase = "connecting" /\ "upstream" \in Backends
    /\ running.id = worker.id /\ IsPending(jobs[worker.id])
    /\ \E cloned \in BOOLEAN :
          /\ running' = IF cloned THEN [running EXCEPT !.conn = worker.serial]
                                  ELSE running
          /\ worker' = [worker EXCEPT !.phase = "posting", !.cloned = cloned]
    /\ UNCHANGED <<clock, jobs, queue, handler, shut, admitted, first>>

AttachRefused ==
    /\ worker.phase = "connecting" /\ "upstream" \in Backends
    /\ ~(running.id = worker.id /\ IsPending(jobs[worker.id]))
    /\ Generated(Failed("canceled"))

\* The upstream answered: a text with a letter, or anything else.
Respond ==
    /\ worker.phase = "posting"
    /\ \E outcome \in {Ready, Failed("upstream_error")} : Generated(outcome)

\* Mutant of PostTimesOut: the socket has no timeout.
PostTimesOut_Never == FALSE

\* DeadlineIo lets no read or write pass the deadline.
PostTimesOut ==
    /\ worker.phase = "posting"
    /\ clock >= worker.due
    /\ Generated(Failed("timeout"))

\* The blocked read or write wakes with an error: somebody shut the socket.
PostAborted ==
    /\ worker.phase = "posting"
    /\ worker.serial \in shut
    /\ Generated(Failed("upstream_error"))

\* The canned backend sleeps for its delay or up to the deadline; it never
\* attaches, so nothing can abort it.
CannedReply ==
    /\ worker.phase = "connecting" /\ "canned" \in Backends
    /\ \/ Generated(Ready)
       \/ clock >= worker.due /\ Generated(Failed("timeout"))

\* finish: running goes first, so no socket is left to be shut down here.
Freed == [Locked EXCEPT !.running = NotRunning]

\* Mutants of Finish: the sweep is missing; a terminal job is written over.
Finish_NoSweep ==
    /\ worker.phase = "finishing"
    /\ \E done \in {Settle(Freed, {worker.id}, worker.outcome, worker.serial,
                           worker.stamp)} : Unlock(done)
    /\ worker' = Between
    /\ UNCHANGED <<clock, handler, shut, admitted, first>>
Finish_Overwrites ==
    /\ worker.phase = "finishing"
    /\ \E swept \in {Sweep(Freed, worker.stamp)} :
       \E done \in {Settle_Again(swept, {worker.id}, worker.outcome, worker.serial,
                                 worker.stamp)} : Unlock(done)
    /\ worker' = Between
    /\ UNCHANGED <<clock, handler, shut, admitted, first>>

Finish ==
    /\ worker.phase = "finishing"
    /\ \E swept \in {Sweep(Freed, worker.stamp)} :
       \E done \in {Settle(swept, {worker.id}, worker.outcome, worker.serial,
                           worker.stamp)} : Unlock(done)
    /\ worker' = Between
    /\ UNCHANGED <<clock, handler, shut, admitted, first>>

Tick == /\ clock < MaxTime
        /\ clock' = clock + 1
        /\ UNCHANGED <<inner, worker, handler, shut, admitted, first>>

-----------------------------------------------------------------------------
HandlerLocked(h) ==
    TalkKnown(h) \/ TalkBusy(h) \/ TalkAdmitted(h) \/ Result(h) \/ Cancel(h)

HandlerStep(h) == Arrive(h) \/ HandlerLocked(h) \/ ShutDown(h)

\* What the worker does on its own, without an answer from the upstream.
WorkerAlone ==
    \/ NextJob \/ NothingToRun \/ Finish
    \/ ConnectTimesOut \/ AttachRefused \/ PostTimesOut \/ PostAborted \/ CannedReply

WorkerStep ==
    \/ WorkerAlone
    \/ SpuriousWakeup \/ ConnectFails \/ Attach \/ Respond

Next == (\E h \in Handler : HandlerStep(h)) \/ WorkerStep \/ Tick

Spec == Init /\ [][Next]_vars

-----------------------------------------------------------------------------
(* Fairness.  Threads that can go on, go on: the mutex is held only for the *)
(* actions above, and std's mutex lets every waiter in eventually.  Nothing *)
(* is assumed of the upstream: it may never answer.                         *)

HandlersFair == \A h \in Handler : WF_vars(HandlerLocked(h)) /\ WF_vars(ShutDown(h))

\* Time passes, and the worker's own steps are taken.  This includes that a
\* connection attempt ends at the deadline, which holds for an upstream given
\* as an IP literal (the default): resolving a name has no timeout.
FairSpec == Spec /\ HandlersFair /\ WF_vars(WorkerAlone) /\ WF_vars(Tick)

-----------------------------------------------------------------------------
(* Properties                                                               *)

TypeOK == /\ clock \in Nat
          /\ jobs \in [Id -> Job \cup {None}]
          /\ queue \subseteq Entry
          /\ running \in Running
          /\ worker \in Worker
          /\ handler \in [Handler -> HandlerState]
          /\ shut \subseteq Serial
          /\ admitted \in Nat
          /\ first \in [Id -> Nat]

Busying(j) == /\ worker.phase \in {"connecting", "posting", "finishing"}
              /\ worker.id = j /\ worker.serial = jobs[j].serial

Queued(j) == [serial |-> jobs[j].serial, id |-> j] \in queue

\* No job is forgotten and none is run twice: a PENDING job is either on the
\* queue or the one the worker runs, never both, and the queue holds nothing
\* but pending jobs (next_job, settle and admit keep queue, jobs and running
\* in step).
EveryPendingJobHasAPlace ==
    /\ \A j \in Id : IsPending(jobs[j]) => (Queued(j) <=> ~Busying(j))
    /\ \A e \in queue : IsPending(jobs[e.id]) /\ jobs[e.id].serial = e.serial

\* "By construction at most one" (admit): two pending jobs are never of the
\* same npc and scope, so a new talk has at most one victim.
OnePendingPerLine ==
    \A i, j \in Id : /\ IsPending(jobs[i]) /\ IsPending(jobs[j])
                     /\ jobs[i].talk.npc = jobs[j].talk.npc
                     /\ jobs[i].talk.scope = jobs[j].talk.scope
                     => i = j

\* The store never holds more than max_jobs, nor the queue more than queue_len,
\* though admit makes room only for itself.
WithinLimits == /\ Cardinality({j \in Id : jobs[j] # None}) <= MaxJobs
                /\ Cardinality(queue) <= QueueLen

\* "The deadline wins over a result that arrives after it" (finish): a job is
\* READY or CANCELED only if that happened before its deadline by the clock of
\* whoever did it, and times out only at or after its deadline.  (A timeout
\* that another run of a reused id wrote is that run's.)
DeadlineWins ==
    \A j \in Id : IsTerminal(jobs[j]) =>
        /\ jobs[j].state.code \in {"READY", "CANCELED"} => jobs[j].finished < Due(jobs[j])
        /\ jobs[j].state = Failed("timeout") /\ jobs[j].by \in {0, jobs[j].serial}
              => jobs[j].finished >= Due(jobs[j])

\* The outcome of a job is that of its own run: no run that was superseded,
\* canceled or timed out writes into a later job.
OutcomesAreTheirOwn ==
    \A j \in Id : jobs[j] # None => jobs[j].by \in {0, jobs[j].serial}

\* So it is for the first use of a job id, whatever happened to other jobs;
\* and the reason "canceled" of a run whose job left PENDING stays unseen.
FirstUseOutcomesAreTheirOwn ==
    \A j \in Id : jobs[j] # None /\ jobs[j].serial = first[j] =>
        /\ jobs[j].by \in {0, jobs[j].serial}
        /\ jobs[j].state # Failed("canceled")

ToShut == UNION {handler[h].kill : h \in Handler}

\* A request whose job left PENDING is aborted: its socket has been shut down
\* or some handler is about to, unless the dup of the socket had failed.  The
\* worker may register the socket at any moment between two handlers' locks.
AbortReachesTheWorker ==
    worker.phase = "posting" /\ worker.cloned /\ ~IsPending(jobs[worker.id])
        => worker.serial \in shut \cup ToShut

\* No abort hits the request of a job that is still PENDING, however late the
\* handler that collected the socket shuts it down.
AbortHitsNoPendingJob ==
    \A j \in Id : IsPending(jobs[j]) => jobs[j].serial \notin shut \cup ToShut

\* No wakeup is lost: the worker sleeps only while there is nothing to run.
SleepsOnlyWhenIdle == worker.phase = "waiting" => queue = {}

View(job) ==
    IF job = None THEN None
    ELSE [run   |-> job.serial,
          line  |-> [npc |-> job.talk.npc, scope |-> job.talk.scope],
          state |-> job.state]

\* The store implements the contract of its clients.
Contract == INSTANCE JobContract WITH
    Line       <- [npc : Npc, scope : Scope],
    InProgress <- Pending,
    Verdict    <- State \ {Pending},
    status     <- [j \in Id |-> View(jobs[j])]

KeepsTheContract == Contract!Spec

RunPending(n) == \E j \in Id : IsPending(jobs[j]) /\ jobs[j].serial = n

\* Every job leaves PENDING, though the upstream may hang for ever and nobody
\* may ever ask for the job again: the worker comes to it, and gives up at
\* the deadline of whatever runs before it.
EveryJobSettles ==
    \A n \in 1 .. MaxAdmissions : RunPending(n) ~> ~RunPending(n)
=============================================================================
