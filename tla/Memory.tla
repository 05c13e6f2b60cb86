-------------------------------- MODULE Memory --------------------------------
(***************************************************************************)
(* The acknowledged memory of protocol v2 (living.rs): attempts at an      *)
(* exchange and the dialogue history, durable in SQLite, in front of the   *)
(* volatile job store, whose worker makes the replies.                     *)
(*                                                                         *)
(* One mutex is held for a whole request, so a request is one action; the  *)
(* store's worker goes on beside it and is seen only through the contract  *)
(* of JobContract, which JobStore implements.  Every request first records *)
(* what the worker has finished (collect_finished).  A SQLite transaction  *)
(* is all or nothing; any statement may fail, which ends the request.      *)
(*                                                                         *)
(* Left out: the validation of requests, the profiles, the prompt, and the *)
(* refusals for a missing profile and a prompt that is too long, which     *)
(* change nothing that an answer without effect (Answer) does not.         *)
(***************************************************************************)
EXTENDS Integers, FiniteSetsExt, SequencesExt

CONSTANTS
    Branch, Session, JobId, \* an attempt's key: camp and branch, conv, job
    Npc,
    Talk,                   \* npc and day; the other fields matter only in the prompt
    RecallRows,             \* messages that a prompt recalls (12)
    WorkerLimit,            \* the last worker number (u32::MAX)
    MaxAttempts,            \* bound of the number of attempts
    DbFails,                \* whether statements may fail
    None

ASSUME TalkAssumption  == Talk \subseteq [npc : Npc, day : Nat]
ASSUME LimitAssumption == WorkerLimit \in Nat \ {0} /\ MaxAttempts \in Nat
ASSUME RecallAssumption == RecallRows \in Nat /\ RecallRows % 2 = 0
ASSUME DbAssumption    == DbFails \in BOOLEAN

Key    == [branch : Branch, session : Session, job : JobId]
Worker == 1 .. WorkerLimit   \* 1 stands for RID_MAX + 1

Conversation == [branch : Branch, session : Session]
ConversationOf(k) == [branch |-> k.branch, session |-> k.session]

VARIABLES
    attempts, \* table attempts: [Key -> row or None]
    npcOf,    \* table conversations: the npc of a conversation, None before it
    messages, \* table messages, in the order of its ids
    running,  \* Memory.running: the worker of an attempt, None where it has none
    next,     \* Memory.next_worker
    store     \* the job store: what it knows of a worker's job

durable  == <<attempts, npcOf, messages>>
volatile == <<running, next, store>>
vars     == <<attempts, npcOf, messages, running, next, store>>

States == {"pending", "ready", "committed", "canceled", "failed"}
\* reply is the attempt that the worker made it for; None is a reason.
Attempt == [talk : Talk, state : States, reply : Key \cup {None}]
Row     == [attempt : Key, role : {"player", "npc"}, day : Nat]
\* The store's job: the attempt it runs for stands for its text.
Job     == [for : Key, state : {"pending", "ready", "canceled", "failed"}]

\* What a client of the store can see of a job.
Seen    == [run : Worker, line : Conversation, state : States]

ASSUME NoneAssumption ==
    None \notin Key \cup Npc \cup Worker \cup Attempt \cup Job \cup Seen

Init == /\ attempts = [k \in Key |-> None]
        /\ npcOf = [c \in Conversation |-> None]
        /\ messages = <<>>
        /\ running = [k \in Key |-> None]
        /\ next = 1
        /\ store = [w \in Worker |-> None]

-----------------------------------------------------------------------------
(* The job store beside the memory                                          *)

Ended(job) == job # None /\ job.state # "pending"

\* The worker finishes, fails or times out.
StoreSettles(w) ==
    /\ store[w] # None /\ store[w].state = "pending"
    /\ \E verdict \in {"ready", "failed"} :
          store' = [store EXCEPT ![w].state = verdict]
    /\ UNCHANGED <<durable, running, next>>

\* A terminal job expires, or is evicted for another one.
StoreDrops(w) ==
    /\ Ended(store[w])
    /\ store' = [store EXCEPT ![w] = None]
    /\ UNCHANGED <<durable, running, next>>

\* store.cancel: a pending job is canceled, any other is left alone.
StoreCanceled(w) ==
    IF w # None /\ store[w] # None /\ ~Ended(store[w])
    THEN [store EXCEPT ![w].state = "canceled"] ELSE store

-----------------------------------------------------------------------------
(* collect_finished                                                         *)

\* Mutant of Finished: a job that the store does not know is still waited for.
Finished_OnlyKnown == {k \in Key : running[k] # None /\ Ended(store[running[k]])}

Finished == {k \in Key : running[k] # None
                /\ (store[running[k]] = None \/ Ended(store[running[k]]))}

\* A job that the store does not know any more has failed.
Recorded(k) == IF store[running[k]] = None THEN "failed" ELSE store[running[k]].state
ReplyOf(k) == IF Recorded(k) = "ready" THEN store[running[k]].for ELSE None

\* The rows, after the results of the attempts in done were recorded.
Collected(done) ==
    [k \in Key |-> IF k \in done /\ attempts[k].state = "pending"
                   THEN [attempts[k] EXCEPT !.state = Recorded(k), !.reply = ReplyOf(k)]
                   ELSE attempts[k]]

Drained(done) == [k \in Key |-> IF k \in done THEN None ELSE running[k]]

-----------------------------------------------------------------------------
(* Requests                                                                 *)

\* A request that has no effect of its own: result, a talk that is known or is
\* refused, a cancel or ack that comes too late; or one whose statement fails
\* after the results were recorded.
Answer ==
    /\ attempts' = Collected(Finished)
    /\ running' = Drained(Finished)
    /\ UNCHANGED <<npcOf, messages, next, store>>

\* A statement of collect_finished itself fails: some results are recorded.
CollectFails ==
    /\ DbFails
    /\ \E done \in SUBSET Finished :
          /\ done # Finished
          /\ attempts' = Collected(done)
          /\ running' = Drained(done)
    /\ UNCHANGED <<npcOf, messages, next, store>>

\* Mutant of Cancel: the worker is not told, and its entry stays.
Cancel_RowOnly(k) ==
    /\ attempts[k] # None
    /\ Collected(Finished)[k].state \in {"pending", "ready"}
    /\ attempts' = [Collected(Finished) EXCEPT ![k].state = "canceled", ![k].reply = None]
    /\ running' = Drained(Finished)
    /\ UNCHANGED <<npcOf, messages, next, store>>

\* cancel: the row first, so that any late result is ignored; then the worker.
Cancel(k) ==
    /\ attempts[k] # None
    /\ Collected(Finished)[k].state \in {"pending", "ready"}
    /\ attempts' = [Collected(Finished) EXCEPT ![k].state = "canceled", ![k].reply = None]
    /\ running' = [Drained(Finished) EXCEPT ![k] = None]
    /\ store' = StoreCanceled(Drained(Finished)[k])
    /\ UNCHANGED <<npcOf, messages, next>>

\* Mutant of Exchange: the npc's message is written first.
Exchange_NpcFirst(k) ==
    LET row(role) == [attempt |-> k, role |-> role, day |-> attempts[k].talk.day]
    IN  <<row("npc"), row("player")>>

\* The two messages of an attempt.
Exchange(k) == LET row(role) == [attempt |-> k, role |-> role, day |-> attempts[k].talk.day]
               IN  <<row("player"), row("npc")>>

\* Mutant of Ack: whatever ended is committed.
Ack_AnyState(k) ==
    /\ attempts[k] # None
    /\ Collected(Finished)[k].state # "pending"
    /\ attempts' = [Collected(Finished) EXCEPT ![k].state = "committed"]
    /\ messages' = messages \o Exchange(k)
    /\ running' = Drained(Finished)
    /\ UNCHANGED <<npcOf, next, store>>

\* ack: one transaction turns a ready attempt into dialogue history.
Ack(k) ==
    /\ attempts[k] # None
    /\ Collected(Finished)[k].state = "ready"
    /\ attempts' = [Collected(Finished) EXCEPT ![k].state = "committed"]
    /\ messages' = messages \o Exchange(k)
    /\ running' = Drained(Finished)
    /\ UNCHANGED <<npcOf, next, store>>

\* Mutant of AckFails: there is no transaction around the two messages.
AckFails_HalfWritten(k) ==
    /\ DbFails /\ attempts[k] # None
    /\ Collected(Finished)[k].state = "ready"
    /\ attempts' = Collected(Finished)
    /\ messages' = Append(messages, Exchange(k)[1])
    /\ running' = Drained(Finished)
    /\ UNCHANGED <<npcOf, next, store>>

\* A statement of that transaction fails, and all of it is rolled back.
AckFails(k) ==
    /\ DbFails /\ attempts[k] # None
    /\ Collected(Finished)[k].state = "ready"
    /\ attempts' = Collected(Finished)
    /\ running' = Drained(Finished)
    /\ UNCHANGED <<npcOf, messages, next, store>>

Latest(branch) == {messages[i].day : i \in {j \in DOMAIN messages :
                                              messages[j].attempt.branch = branch}}

\* Mutant of MayAdmit: a provisional reply does not keep the conversation busy.
MayAdmit_ReadyIsOver(k, talk) ==
    /\ \A day \in Latest(k.branch) : talk.day >= day
    /\ npcOf[ConversationOf(k)] \in {None, talk.npc}
    /\ \A other \in Key : ConversationOf(other) = ConversationOf(k) /\ attempts[other] # None
          => Collected(Finished)[other].state # "pending"

\* A new talk: not older than the branch's history, with the conversation's
\* npc, and with no other exchange of the conversation open.
MayAdmit(k, talk) ==
    /\ \A day \in Latest(k.branch) : talk.day >= day
    /\ npcOf[ConversationOf(k)] \in {None, talk.npc}
    /\ \A other \in Key : ConversationOf(other) = ConversationOf(k) /\ attempts[other] # None
          => Collected(Finished)[other].state \notin {"pending", "ready"}

\* The row of a new attempt, and of its conversation, in one transaction.
Insert(k, talk, state) ==
    /\ attempts[k] = None /\ MayAdmit(k, talk)
    /\ Cardinality({a \in Key : attempts[a] # None}) < MaxAttempts
    /\ attempts' = [Collected(Finished) EXCEPT
                      ![k] = [talk |-> talk, state |-> state, reply |-> None]]
    /\ npcOf' = [npcOf EXCEPT ![ConversationOf(k)] = IF @ = None THEN talk.npc ELSE @]
    /\ UNCHANGED messages

\* Mutant of NextWorker: it stays.
NextWorker_Same == UNCHANGED next

NextWorker == next' = next + 1

\* The store answers PENDING: it takes the job, or it knows one of that number
\* that is pending.  (Which the numbers are there to rule out.)
Admit(k, talk) ==
    /\ next < WorkerLimit
    /\ Insert(k, talk, "pending")
    /\ ~Ended(store[next])
    /\ store' = [store EXCEPT ![next] = IF @ = None THEN [for |-> k, state |-> "pending"]
                                                     ELSE @]
    /\ running' = [Drained(Finished) EXCEPT ![k] = next]
    /\ NextWorker

\* The store answers anything else, BUSY in fact: the attempt is there, and has
\* failed.
AdmitRefused(k, talk) ==
    /\ next < WorkerLimit
    /\ Insert(k, talk, "failed")
    /\ running' = Drained(Finished)
    /\ NextWorker
    /\ UNCHANGED store

\* The same (or no number is left), but the statement that would record the
\* refusal fails: the attempt stays pending, and no worker will ever end it.
AdmitRefusedUnrecorded(k, talk) ==
    /\ DbFails
    /\ Insert(k, talk, "pending")
    /\ running' = Drained(Finished)
    /\ IF next < WorkerLimit THEN NextWorker ELSE UNCHANGED next
    /\ UNCHANGED store

\* No worker number is left.
WorkerCapacity(k, talk) ==
    /\ next = WorkerLimit
    /\ Insert(k, talk, "failed")
    /\ running' = Drained(Finished)
    /\ UNCHANGED <<next, store>>

\* The ids of the messages of a branch, in conversations with an npc.
Theirs(branch, npc) ==
    {i \in DOMAIN messages : /\ messages[i].attempt.branch = branch
                             /\ npcOf[ConversationOf(messages[i].attempt)] = npc}

\* memories: of those a prompt recalls the last ones, in the order of their ids.
\* (Its early "remember ..." lines are a part of what the same selection gives
\* without the limit.)
Recalled(branch, npc) ==
    {i \in Theirs(branch, npc) :
        Cardinality({j \in Theirs(branch, npc) : j > i}) < RecallRows}

-----------------------------------------------------------------------------
\* Mutant of Restart: a reply that was not acknowledged is given up.
Restart_FailsReady ==
    /\ attempts' = [k \in Key |->
          IF attempts[k] # None /\ attempts[k].state \in {"pending", "ready"}
          THEN [attempts[k] EXCEPT !.state = "failed"] ELSE attempts[k]]
    /\ running' = [k \in Key |-> None]
    /\ next' = 1
    /\ store' = [w \in Worker |-> None]
    /\ UNCHANGED <<npcOf, messages>>

\* The server stops or crashes, and opens the database again.
Restart ==
    /\ attempts' = [k \in Key |->
          IF attempts[k] # None /\ attempts[k].state = "pending"
          THEN [attempts[k] EXCEPT !.state = "failed"] ELSE attempts[k]]
    /\ running' = [k \in Key |-> None]
    /\ next' = 1
    /\ store' = [w \in Worker |-> None]
    /\ UNCHANGED <<npcOf, messages>>

TalkRequest(k, talk) == \/ Admit(k, talk) \/ AdmitRefused(k, talk)
                        \/ AdmitRefusedUnrecorded(k, talk) \/ WorkerCapacity(k, talk)

Next == \/ Answer \/ CollectFails
        \/ \E k \in Key : Cancel(k) \/ Ack(k) \/ AckFails(k)
        \/ \E k \in Key, talk \in Talk : TalkRequest(k, talk)
        \/ \E w \in Worker : StoreSettles(w) \/ StoreDrops(w)
        \/ Restart

Spec == Init /\ [][Next]_vars

\* The store settles its jobs (JobStore's EveryJobSettles), and requests keep
\* coming: any request records what is finished.
FairSpec == Spec /\ WF_vars(Answer) /\ \A w \in Worker : WF_vars(StoreSettles(w))

-----------------------------------------------------------------------------
(* Properties                                                               *)

TypeOK == /\ attempts \in [Key -> Attempt \cup {None}]
          /\ npcOf \in [Conversation -> Npc \cup {None}]
          /\ messages \in Seq(Row)
          /\ running \in [Key -> Worker \cup {None}]
          /\ next \in Worker
          /\ store \in [Worker -> Job \cup {None}]

StateOf(k) == IF attempts[k] = None THEN "none" ELSE attempts[k].state

\* "Only an explicit client ACK turns an attempt into dialogue history", and
\* the whole exchange at once: the history consists of the two messages of each
\* committed attempt, side by side, and of nothing else, whatever crashes.
HistoryIsTheCommitted ==
    /\ \A k \in Key : StateOf(k) = "committed" =>
          \E i \in DOMAIN messages : i + 1 \in DOMAIN messages
              /\ <<messages[i], messages[i + 1]>> = Exchange(k)
    /\ Len(messages) = 2 * Cardinality({k \in Key : StateOf(k) = "committed"})

\* A reply is recorded for the attempt it was made for, though worker numbers
\* start again after every restart and results come late.
ReplyIsOfItsAttempt ==
    \A k \in Key : StateOf(k) \in {"ready", "committed"} => attempts[k].reply = k

\* A conversation has one exchange open at a time.
OneOpenExchange ==
    \A j, k \in Key : /\ ConversationOf(j) = ConversationOf(k)
                      /\ StateOf(j) \in {"pending", "ready"}
                      /\ StateOf(k) \in {"pending", "ready"}
                      => j = k

\* "Last six completed exchanges", of this npc: the limit in rows cuts no
\* exchange in two, what is recalled of one is its two sides in their order, and
\* nobody remembers what was said to another npc, though a message knows its npc
\* only by its conversation.
RecallIsWholeExchanges ==
    \A branch \in Branch, npc \in Npc :
        LET rows == Recalled(branch, npc)
        IN  \A i \in rows :
                /\ attempts[messages[i].attempt].talk.npc = npc
                /\ \E first \in {i - 1, i} :
                      /\ first \in rows /\ first + 1 \in rows
                      /\ messages[first].role = "player" /\ messages[first + 1].role = "npc"
                      /\ messages[first].attempt = messages[first + 1].attempt

\* What is over stays over, across restarts and storage failures: a committed
\* exchange is never taken back, a canceled or failed one never revived, and
\* a reply that was shown never changes under its ack.
AttemptsAreFinal ==
    [][\A k \in Key :
          /\ StateOf(k) \in {"committed", "canceled", "failed"} => attempts'[k] = attempts[k]
          /\ StateOf(k) = "ready" =>
                \/ attempts'[k] = attempts[k]
                \/ attempts'[k] = [attempts[k] EXCEPT !.state = "committed"]
                \/ attempts'[k].state = "canceled"]_vars

\* The store beside the memory behaves as JobContract allows, which JobStore
\* implements, with a conversation as the line: in particular the memory never
\* gives it a second job while another one of the conversation is pending,
\* which the store would supersede.
Contract == INSTANCE JobContract WITH
    Id         <- Worker,
    Line       <- Conversation,
    InProgress <- "pending",
    Verdict    <- {"ready", "failed", "canceled"},
    status     <- [w \in Worker |->
        IF store[w] = None THEN None
        ELSE [run |-> w, line |-> ConversationOf(store[w].for), state |-> store[w].state]]
StoreKeepsItsContract == Contract!Spec

\* Every exchange ends, as long as requests come: no attempt that got a worker
\* stays pending, also not one whose result the store has dropped, nor one that
\* a restart interrupted.
EveryAttemptEnds ==
    \A k \in Key : running[k] # None ~> StateOf(k) \notin {"none", "pending"}
=============================================================================
