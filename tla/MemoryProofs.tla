----------------------------- MODULE MemoryProofs -----------------------------
(***************************************************************************)
(* Proofs about Memory, for every value of its constants.                  *)
(***************************************************************************)
EXTENDS Memory, SequenceTheorems, FiniteSetTheorems, TLAPS

-----------------------------------------------------------------------------
(* Type correctness                                                         *)

\* Only attempts that exist have a worker.
WorkersHaveAttempts == \A k \in Key : running[k] # None => attempts[k] # None

TypeInv == TypeOK /\ WorkersHaveAttempts

\* What is recorded of a finished attempt is a final state, with a reply or none.
LEMMA RecordedState ==
    ASSUME TypeInv, NEW k \in Finished
    PROVE  /\ attempts[k] \in Attempt /\ running[k] \in Worker
           /\ Recorded(k) \in {"ready", "canceled", "failed"}
           /\ ReplyOf(k) \in Key \cup {None}
  <1>1. /\ k \in Key /\ running[k] \in Worker /\ attempts[k] \in Attempt
        /\ store[running[k]] = None \/ Ended(store[running[k]])
    BY NoneAssumption DEF Finished, TypeInv, TypeOK, WorkersHaveAttempts
  <1>2. store[running[k]] \in Job \cup {None}
    BY <1>1 DEF TypeInv, TypeOK
  <1>3. CASE store[running[k]] = None
    BY <1>1, <1>3 DEF Recorded, ReplyOf
  <1>4. CASE store[running[k]] # None
    BY <1>1, <1>2, <1>4 DEF Recorded, ReplyOf, Ended, Job
  <1> QED BY <1>1, <1>3, <1>4

\* What recording results does to a row.
Settled(k) == [attempts[k] EXCEPT !.state = Recorded(k), !.reply = ReplyOf(k)]

\* A row that is settled is a row, of the same talk.
LEMMA SettledType ==
    ASSUME TypeInv, NEW k \in Finished
    PROVE  /\ Settled(k) \in Attempt
           /\ Settled(k).talk = attempts[k].talk
           /\ Settled(k).state = Recorded(k)
           /\ Settled(k).reply = ReplyOf(k)
  <1>1. /\ attempts[k] \in Attempt
        /\ Recorded(k) \in {"ready", "canceled", "failed"}
        /\ ReplyOf(k) \in Key \cup {None}
    BY RecordedState
  <1> QED BY <1>1 DEF Settled, Attempt, States

\* Recording the results in done settles pending rows, and no others.
LEMMA CollectedRows ==
    ASSUME TypeInv, NEW done \in SUBSET Finished
    PROVE  /\ Collected(done) \in [Key -> Attempt \cup {None}]
           /\ \A k \in Key :
                 \/ Collected(done)[k] = attempts[k]
                    /\ (k \in done => attempts[k].state # "pending")
                 \/ /\ k \in done /\ attempts[k] \in Attempt
                    /\ attempts[k].state = "pending"
                    /\ Collected(done)[k] = Settled(k)
  <1>1. ASSUME NEW k \in Key
        PROVE  /\ Collected(done)[k] \in Attempt \cup {None}
               /\ \/ Collected(done)[k] = attempts[k]
                     /\ (k \in done => attempts[k].state # "pending")
                  \/ /\ k \in done /\ attempts[k] \in Attempt
                     /\ attempts[k].state = "pending"
                     /\ Collected(done)[k] = Settled(k)
    <2>1. CASE k \in done /\ attempts[k].state = "pending"
      <3>1. Collected(done)[k] = Settled(k)
        BY <2>1 DEF Collected, Settled
      <3>2. attempts[k] \in Attempt /\ Settled(k) \in Attempt
        BY <2>1, RecordedState, SettledType
      <3> QED BY <2>1, <3>1, <3>2
    <2>2. CASE ~(k \in done /\ attempts[k].state = "pending")
      <3>1. Collected(done)[k] = attempts[k]
        BY <2>2 DEF Collected
      <3> QED BY <2>2, <3>1 DEF TypeInv, TypeOK
    <2> QED BY <2>1, <2>2
  <1>2. Collected(done) = [k \in Key |-> Collected(done)[k]]
    BY DEF Collected
  <1> QED BY <1>1, <1>2

\* Recording results makes and removes no rows.
LEMMA CollectedExists ==
    ASSUME TypeInv, NEW done \in SUBSET Finished, NEW k \in Key
    PROVE  Collected(done)[k] = None <=> attempts[k] = None
  BY CollectedRows, SettledType, NoneAssumption

\* The entries of recorded attempts go; the others stay.
LEMMA DrainedType ==
    ASSUME TypeInv, NEW done \in SUBSET Finished
    PROVE  /\ Drained(done) \in [Key -> Worker \cup {None}]
           /\ \A k \in Key : Drained(done)[k] # None
                 => Drained(done)[k] = running[k] /\ k \notin done
  BY DEF Drained, TypeInv, TypeOK

\* Canceling a worker changes at most its job, to canceled.
LEMMA StoreCanceledType ==
    ASSUME TypeInv, NEW w \in Worker \cup {None}
    PROVE  /\ StoreCanceled(w) \in [Worker -> Job \cup {None}]
           /\ \A v \in Worker :
                 \/ StoreCanceled(w)[v] = store[v]
                 \/ /\ v = w /\ store[v] \in Job
                    /\ StoreCanceled(w)[v] = [store[v] EXCEPT !.state = "canceled"]
  <1>1. CASE w # None /\ store[w] # None /\ ~Ended(store[w])
    <2>1. w \in Worker /\ store[w] \in Job
      BY <1>1 DEF TypeInv, TypeOK
    <2>2. [store[w] EXCEPT !.state = "canceled"] \in Job
      BY <2>1 DEF Job
    <2>3. StoreCanceled(w) = [store EXCEPT ![w].state = "canceled"]
      BY <1>1 DEF StoreCanceled
    <2>4. StoreCanceled(w) = [store EXCEPT ![w] = [store[w] EXCEPT !.state = "canceled"]]
      BY <2>3
    <2> QED BY <2>1, <2>2, <2>4 DEF TypeInv, TypeOK
  <1>2. CASE ~(w # None /\ store[w] # None /\ ~Ended(store[w]))
    BY <1>2 DEF StoreCanceled, TypeInv, TypeOK
  <1> QED BY <1>1, <1>2

\* An exchange is two messages.
LEMMA ExchangeType ==
    ASSUME TypeInv, NEW k \in Key, attempts[k] # None
    PROVE  /\ Exchange(k) \in Seq(Row)
           /\ Len(Exchange(k)) = 2
  <1>1. attempts[k].talk.day \in Nat
    BY TalkAssumption DEF TypeInv, TypeOK, Attempt
  <1> QED BY <1>1 DEF Exchange, Row

\* The types hold at the start.
LEMMA InitTypeInv == Init => TypeInv
  BY LimitAssumption DEF Init, TypeInv, TypeOK, WorkersHaveAttempts, Worker

\* A request's rows: the results are recorded, then the row of k is set.
LEMMA RowSetType ==
    ASSUME TypeInv, NEW done \in SUBSET Finished, NEW k \in Key, NEW row \in Attempt,
           attempts' = [Collected(done) EXCEPT ![k] = row]
    PROVE  /\ attempts' \in [Key -> Attempt \cup {None}]
           /\ attempts'[k] = row
           /\ \A j \in Key : j # k => attempts'[j] = Collected(done)[j]
           /\ \A j \in Key : attempts[j] # None => attempts'[j] # None
  BY CollectedRows, CollectedExists, NoneAssumption

\* The same for a row of which only fields are set.
LEMMA FieldsAreSet ==
    ASSUME TypeInv, NEW done \in SUBSET Finished, NEW k \in Key, attempts[k] # None
    PROVE  /\ Collected(done)[k] \in Attempt
           /\ [Collected(done)[k] EXCEPT !.state = "canceled", !.reply = None] \in Attempt
           /\ [Collected(done)[k] EXCEPT !.state = "committed"] \in Attempt
           /\ [Collected(done) EXCEPT ![k].state = "canceled", ![k].reply = None]
              = [Collected(done) EXCEPT
                   ![k] = [Collected(done)[k] EXCEPT !.state = "canceled", !.reply = None]]
           /\ [Collected(done) EXCEPT ![k].state = "committed"]
              = [Collected(done) EXCEPT
                   ![k] = [Collected(done)[k] EXCEPT !.state = "committed"]]
  <1>1. /\ Collected(done)[k] \in Attempt
        /\ Collected(done) \in [Key -> Attempt \cup {None}]
    BY CollectedRows, CollectedExists
  <1>2. /\ [Collected(done)[k] EXCEPT !.state = "canceled", !.reply = None] \in Attempt
        /\ [Collected(done)[k] EXCEPT !.state = "committed"] \in Attempt
    BY <1>1 DEF Attempt, States
  <1> QED BY <1>1, <1>2

\* The memory's own entry of a worker only goes, except for the one of a talk.
LEMMA WorkersStay ==
    ASSUME TypeInv, NEW done \in SUBSET Finished, running' = Drained(done),
           \A j \in Key : attempts[j] # None => attempts'[j] # None
    PROVE  running' \in [Key -> Worker \cup {None}] /\ WorkersHaveAttempts'
  <1>1. \A j \in Key : running'[j] # None => running[j] # None
    BY DrainedType
  <1> QED BY <1>1, DrainedType DEF WorkersHaveAttempts, TypeInv

\* A new attempt: its row, its conversation's npc, and recorded results.
LEMMA InsertType ==
    ASSUME TypeInv, NEW k \in Key, NEW talk \in Talk, NEW state \in {"pending", "failed"},
           Insert(k, talk, state)
    PROVE  /\ attempts' \in [Key -> Attempt \cup {None}]
           /\ npcOf' \in [Conversation -> Npc \cup {None}]
           /\ messages' = messages
           /\ attempts[k] = None
           /\ attempts'[k] = [talk |-> talk, state |-> state, reply |-> None]
           /\ attempts'[k] # None
           /\ \A j \in Key : j # k => attempts'[j] = Collected(Finished)[j]
           /\ \A j \in Key : attempts[j] # None => attempts'[j] # None
  <1> DEFINE row == [talk |-> talk, state |-> state, reply |-> None]
  <1>1. row \in Attempt
    BY DEF Attempt, States
  <1>2. attempts' = [Collected(Finished) EXCEPT ![k] = row]
    BY DEF Insert
  <1>3. talk.npc \in Npc
    BY TalkAssumption
  <1>4. ConversationOf(k) \in Conversation
    BY DEF ConversationOf, Conversation, Key
  <1>5. npcOf' \in [Conversation -> Npc \cup {None}]
    BY <1>3, <1>4 DEF Insert, TypeInv, TypeOK
  <1>6. /\ attempts' \in [Key -> Attempt \cup {None}]
        /\ attempts'[k] = row
        /\ \A j \in Key : j # k => attempts'[j] = Collected(Finished)[j]
        /\ \A j \in Key : attempts[j] # None => attempts'[j] # None
    <2> HIDE DEF row
    <2> QED BY <1>1, <1>2, RowSetType
  <1>7. attempts[k] = None /\ messages' = messages
    BY DEF Insert
  <1>8. row # None
    BY <1>1, NoneAssumption
  <1> QED BY <1>5, <1>6, <1>7, <1>8

\* Every step keeps the types.
LEMMA TypeInvStep == TypeInv /\ [Next]_vars => TypeInv'
  <1> SUFFICES ASSUME TypeInv, [Next]_vars PROVE TypeInv'
    OBVIOUS
  <1>1. CASE Answer
    <2>1. attempts' \in [Key -> Attempt \cup {None}]
          /\ \A j \in Key : attempts[j] # None => attempts'[j] # None
      BY <1>1, CollectedRows, CollectedExists DEF Answer
    <2> QED BY <1>1, <2>1, WorkersStay DEF Answer, TypeInv, TypeOK
  <1>2. CASE CollectFails
    <2>1. PICK done \in SUBSET Finished : attempts' = Collected(done) /\ running' = Drained(done)
      BY <1>2 DEF CollectFails
    <2>2. attempts' \in [Key -> Attempt \cup {None}]
          /\ \A j \in Key : attempts[j] # None => attempts'[j] # None
      BY <2>1, CollectedRows, CollectedExists
    <2> QED BY <1>2, <2>1, <2>2, WorkersStay DEF CollectFails, TypeInv, TypeOK
  <1>3. ASSUME NEW k \in Key, Cancel(k) PROVE TypeInv'
    <2>1. /\ attempts' \in [Key -> Attempt \cup {None}]
          /\ \A j \in Key : attempts[j] # None => attempts'[j] # None
      <3> DEFINE row == [Collected(Finished)[k] EXCEPT !.state = "canceled", !.reply = None]
      <3>1. row \in Attempt /\ attempts' = [Collected(Finished) EXCEPT ![k] = row]
        BY <1>3, FieldsAreSet DEF Cancel
      <3> HIDE DEF row
      <3> QED BY <3>1, RowSetType
    <2>2. running' \in [Key -> Worker \cup {None}] /\ WorkersHaveAttempts'
      BY <1>3, <2>1, DrainedType DEF Cancel, WorkersHaveAttempts, TypeInv
    <2>3. store' \in [Worker -> Job \cup {None}]
      BY <1>3, DrainedType, StoreCanceledType DEF Cancel
    <2> QED BY <1>3, <2>1, <2>2, <2>3 DEF Cancel, TypeInv, TypeOK
  <1>4. ASSUME NEW k \in Key, Ack(k) PROVE TypeInv'
    <2>1. /\ attempts' \in [Key -> Attempt \cup {None}]
          /\ \A j \in Key : attempts[j] # None => attempts'[j] # None
      <3> DEFINE row == [Collected(Finished)[k] EXCEPT !.state = "committed"]
      <3>1. row \in Attempt /\ attempts' = [Collected(Finished) EXCEPT ![k] = row]
        BY <1>4, FieldsAreSet DEF Ack
      <3> HIDE DEF row
      <3> QED BY <3>1, RowSetType
    <2>2. messages' \in Seq(Row)
      BY <1>4, ExchangeType, ConcatProperties DEF Ack, TypeInv, TypeOK
    <2> QED BY <1>4, <2>1, <2>2, WorkersStay DEF Ack, TypeInv, TypeOK
  <1>5. ASSUME NEW k \in Key, AckFails(k) PROVE TypeInv'
    <2>1. attempts' \in [Key -> Attempt \cup {None}]
          /\ \A j \in Key : attempts[j] # None => attempts'[j] # None
      BY <1>5, CollectedRows, CollectedExists DEF AckFails
    <2> QED BY <1>5, <2>1, WorkersStay DEF AckFails, TypeInv, TypeOK
  <1>6. ASSUME NEW k \in Key, NEW talk \in Talk, Admit(k, talk) PROVE TypeInv'
    <2>1. /\ attempts' \in [Key -> Attempt \cup {None}]
          /\ npcOf' \in [Conversation -> Npc \cup {None}] /\ messages' = messages
          /\ attempts'[k] # None
          /\ \A j \in Key : attempts[j] # None => attempts'[j] # None
      <3>1. Insert(k, talk, "pending")
        BY <1>6 DEF Admit
      <3> QED BY <3>1, InsertType
    <2>2. next \in Worker /\ next' \in Worker
      BY <1>6, LimitAssumption DEF Admit, NextWorker, Worker, TypeInv, TypeOK
    <2>3. running' \in [Key -> Worker \cup {None}] /\ WorkersHaveAttempts'
      BY <1>6, <2>1, <2>2, DrainedType DEF Admit, WorkersHaveAttempts, TypeInv
    <2>4. [for |-> k, state |-> "pending"] \in Job
      BY DEF Job
    <2>5. store' \in [Worker -> Job \cup {None}]
      BY <1>6, <2>2, <2>4 DEF Admit, TypeInv, TypeOK
    <2> QED BY <2>1, <2>2, <2>3, <2>5 DEF TypeInv, TypeOK
  <1>7. ASSUME NEW k \in Key, NEW talk \in Talk, NEW state \in {"pending", "failed"},
               Insert(k, talk, state), running' = Drained(Finished),
               next' \in Worker, store' = store
        PROVE  TypeInv'
    BY <1>7, InsertType, WorkersStay DEF TypeInv, TypeOK
  <1>8. ASSUME NEW k \in Key, NEW talk \in Talk, AdmitRefused(k, talk) PROVE TypeInv'
    <2>1. next' \in Worker
      BY <1>8, LimitAssumption DEF AdmitRefused, NextWorker, Worker, TypeInv, TypeOK
    <2> QED BY <1>7, <1>8, <2>1 DEF AdmitRefused
  <1>9. ASSUME NEW k \in Key, NEW talk \in Talk, AdmitRefusedUnrecorded(k, talk)
        PROVE  TypeInv'
    <2>1. next' \in Worker
      BY <1>9, LimitAssumption
      DEF AdmitRefusedUnrecorded, NextWorker, Worker, TypeInv, TypeOK
    <2> QED BY <1>7, <1>9, <2>1 DEF AdmitRefusedUnrecorded
  <1>10. ASSUME NEW k \in Key, NEW talk \in Talk, WorkerCapacity(k, talk) PROVE TypeInv'
    BY <1>7, <1>10 DEF WorkerCapacity, TypeInv, TypeOK
  <1>11. ASSUME NEW w \in Worker, StoreSettles(w) PROVE TypeInv'
    <2>1. store[w] \in Job
      BY <1>11 DEF StoreSettles, TypeInv, TypeOK
    <2>2. PICK verdict \in {"ready", "failed"} : store' = [store EXCEPT ![w].state = verdict]
      BY <1>11 DEF StoreSettles
    <2>3. [store[w] EXCEPT !.state = verdict] \in Job
      BY <2>1 DEF Job
    <2>4. store' \in [Worker -> Job \cup {None}]
      BY <2>2, <2>3 DEF TypeInv, TypeOK
    <2> QED BY <1>11, <2>4 DEF StoreSettles, durable, TypeInv, TypeOK, WorkersHaveAttempts
  <1>12. ASSUME NEW w \in Worker, StoreDrops(w) PROVE TypeInv'
    BY <1>12 DEF StoreDrops, durable, TypeInv, TypeOK, WorkersHaveAttempts
  <1>13. CASE Restart
    <2>1. ASSUME NEW k \in Key, attempts[k] # None
          PROVE  [attempts[k] EXCEPT !.state = "failed"] \in Attempt
      BY <2>1 DEF TypeInv, TypeOK, Attempt, States
    <2>2. attempts' \in [Key -> Attempt \cup {None}]
      BY <1>13, <2>1 DEF Restart, TypeInv, TypeOK
    <2> QED BY <1>13, <2>2, LimitAssumption
            DEF Restart, TypeInv, TypeOK, WorkersHaveAttempts, Worker
  <1>14. CASE UNCHANGED vars
    BY <1>14 DEF vars, TypeInv, TypeOK, WorkersHaveAttempts
  <1> QED BY <1>1, <1>2, <1>3, <1>4, <1>5, <1>6, <1>8, <1>9, <1>10, <1>11, <1>12, <1>13, <1>14
          DEF Next, TalkRequest

\* Every component has its type in every reachable state: in particular an
\* attempt that has a worker has a row, which collect_finished relies on.
THEOREM TypeCorrect == Spec => []TypeOK
  <1>1. TypeInv => TypeOK
    BY DEF TypeInv
  <1> QED BY <1>1, InitTypeInv, TypeInvStep, PTL DEF Spec

-----------------------------------------------------------------------------
(* What a step may do with one attempt                                      *)

Begins(k) == /\ attempts[k] = None
             /\ \E talk \in Talk, state \in {"pending", "failed"} :
                   /\ MayAdmit(k, talk)
                   /\ attempts'[k] = [talk |-> talk, state |-> state, reply |-> None]

Settles(k) == /\ attempts[k] \in Attempt /\ attempts[k].state = "pending"
              /\ k \in Finished
              /\ attempts'[k] = Settled(k)

Cancels(k) == /\ attempts[k] \in Attempt /\ attempts[k].state \in {"pending", "ready"}
              /\ attempts'[k] \in Attempt
              /\ attempts'[k].talk = attempts[k].talk
              /\ attempts'[k].state = "canceled"

GivesUp(k) == /\ attempts[k] \in Attempt /\ attempts[k].state = "pending"
              /\ attempts'[k] = [attempts[k] EXCEPT !.state = "failed"]

\* An ack finds the reply recorded, or records it.
Commits(k) ==
    /\ attempts[k] \in Attempt
    /\ \/ /\ attempts[k].state = "ready"
          /\ attempts'[k] = [attempts[k] EXCEPT !.state = "committed"]
       \/ /\ attempts[k].state = "pending" /\ k \in Finished /\ Recorded(k) = "ready"
          /\ attempts'[k] = [Settled(k) EXCEPT !.state = "committed"]

Moves(k) == \/ attempts'[k] = attempts[k]
            \/ Settles(k) \/ Cancels(k) \/ GivesUp(k)

\* Recording results settles pending attempts.
LEMMA CollectedMoves ==
    ASSUME TypeInv, NEW done \in SUBSET Finished, NEW k \in Key,
           attempts'[k] = Collected(done)[k]
    PROVE  attempts'[k] = attempts[k] \/ Settles(k)
  BY CollectedRows DEF Settles

\* A request that only records results settles attempts.
LEMMA AnswerMoves ==
    ASSUME TypeInv, NEW done \in SUBSET Finished, attempts' = Collected(done)
    PROVE  \A k \in Key : Moves(k)
  BY CollectedMoves DEF Moves

\* A cancel cancels its attempt, and settles others.
LEMMA CancelMoves ==
    ASSUME TypeInv, NEW k \in Key, Cancel(k)
    PROVE  /\ Cancels(k)
           /\ \A j \in Key : Moves(j)
  <1> DEFINE row == [Collected(Finished)[k] EXCEPT !.state = "canceled", !.reply = None]
  <1>1. /\ row \in Attempt /\ attempts' = [Collected(Finished) EXCEPT ![k] = row]
        /\ Collected(Finished)[k] \in Attempt
        /\ Collected(Finished)[k].state \in {"pending", "ready"}
    BY FieldsAreSet DEF Cancel
  <1>2. row.state = "canceled" /\ row.talk = Collected(Finished)[k].talk
    BY <1>1 DEF Attempt
  <1>3. /\ attempts'[k] = row
        /\ \A j \in Key : j # k => attempts'[j] = Collected(Finished)[j]
    <2> HIDE DEF row
    <2> QED BY <1>1, RowSetType
  <1>4. /\ attempts[k] \in Attempt /\ attempts[k].state \in {"pending", "ready"}
        /\ Collected(Finished)[k].talk = attempts[k].talk
    <2>1. attempts[k] \in Attempt
      BY CollectedExists DEF Cancel, TypeInv, TypeOK
    <2>2. CASE Collected(Finished)[k] = attempts[k]
      BY <1>1, <2>1, <2>2
    <2>3. CASE attempts[k].state = "pending" /\ k \in Finished
               /\ Collected(Finished)[k] = Settled(k)
      BY <2>1, <2>3, SettledType
    <2> QED BY <2>2, <2>3, CollectedRows
  <1>5. Cancels(k)
    <2> HIDE DEF row
    <2> QED BY <1>1, <1>2, <1>3, <1>4 DEF Cancels
  <1>6. ASSUME NEW j \in Key, j # k PROVE Moves(j)
    BY <1>3, <1>6, CollectedMoves DEF Moves
  <1> QED BY <1>5, <1>6 DEF Moves

\* An ack commits its attempt with its exchange, and settles others.
LEMMA AckMoves ==
    ASSUME TypeInv, NEW k \in Key, Ack(k)
    PROVE  /\ Commits(k) /\ messages' = messages \o Exchange(k)
           /\ \A j \in Key : j # k => Moves(j)
  <1> DEFINE row == [Collected(Finished)[k] EXCEPT !.state = "committed"]
  <1>1. /\ row \in Attempt /\ attempts' = [Collected(Finished) EXCEPT ![k] = row]
        /\ Collected(Finished)[k] \in Attempt
        /\ Collected(Finished)[k].state = "ready"
    BY FieldsAreSet DEF Ack
  <1>3. /\ attempts'[k] = row
        /\ \A j \in Key : j # k => attempts'[j] = Collected(Finished)[j]
    <2> HIDE DEF row
    <2> QED BY <1>1, RowSetType
  <1>4. Commits(k)
    <2>1. attempts[k] \in Attempt
      BY CollectedExists DEF Ack, TypeInv, TypeOK
    <2>2. CASE Collected(Finished)[k] = attempts[k]
      BY <1>1, <1>3, <2>1, <2>2 DEF Commits
    <2>3. CASE attempts[k].state = "pending" /\ k \in Finished
               /\ Collected(Finished)[k] = Settled(k)
      <3>1. Recorded(k) = "ready"
        BY <1>1, <2>3, SettledType
      <3> QED BY <1>3, <2>1, <2>3, <3>1 DEF Commits
    <2> QED BY <2>2, <2>3, CollectedRows
  <1>6. ASSUME NEW j \in Key, j # k PROVE Moves(j)
    BY <1>3, <1>6, CollectedMoves DEF Moves
  <1> QED BY <1>4, <1>6 DEF Ack

\* A new talk begins its attempt, after all results are recorded.
LEMMA InsertMoves ==
    ASSUME TypeInv, NEW k \in Key, NEW talk \in Talk, NEW state \in {"pending", "failed"},
           Insert(k, talk, state)
    PROVE  /\ Begins(k) /\ messages' = messages
           /\ \A j \in Key : j # k => attempts'[j] = Collected(Finished)[j]
  <1>1. /\ attempts[k] = None /\ messages' = messages
        /\ attempts'[k] = [talk |-> talk, state |-> state, reply |-> None]
        /\ \A j \in Key : j # k => attempts'[j] = Collected(Finished)[j]
    BY InsertType
  <1>2. MayAdmit(k, talk)
    BY DEF Insert
  <1> QED BY <1>1, <1>2 DEF Begins

\* A step begins one attempt once all results are recorded, or commits one and
\* writes its exchange, or does neither; every other attempt stays, is settled,
\* canceled or given up.
OneBegins  == \E k \in Key :
                 /\ Begins(k) /\ messages' = messages
                 /\ \A j \in Key : j # k => attempts'[j] = Collected(Finished)[j]
OneCommits == \E k \in Key : /\ Commits(k) /\ messages' = messages \o Exchange(k)
                             /\ \A j \in Key : j # k => Moves(j)
NoneBegins == /\ messages' = messages
              /\ \A j \in Key : Moves(j)

\* Every step is one of the three.
LEMMA StepMoves == TypeInv /\ [Next]_vars => NoneBegins \/ OneBegins \/ OneCommits
  <1> SUFFICES ASSUME TypeInv, [Next]_vars PROVE NoneBegins \/ OneBegins \/ OneCommits
    OBVIOUS
  <1>1. CASE Answer
    BY <1>1, AnswerMoves DEF Answer, NoneBegins
  <1>2. CASE CollectFails
    BY <1>2, AnswerMoves DEF CollectFails, NoneBegins
  <1>3. ASSUME NEW k \in Key, Cancel(k) PROVE NoneBegins
    BY <1>3, CancelMoves DEF Cancel, NoneBegins
  <1>4. ASSUME NEW k \in Key, Ack(k) PROVE OneCommits
    BY <1>4, AckMoves DEF OneCommits
  <1>5. ASSUME NEW k \in Key, AckFails(k) PROVE NoneBegins
    BY <1>5, AnswerMoves DEF AckFails, NoneBegins
  <1>6. ASSUME NEW k \in Key, NEW talk \in Talk, TalkRequest(k, talk) PROVE OneBegins
    <2>1. \E state \in {"pending", "failed"} : Insert(k, talk, state)
      BY <1>6 DEF TalkRequest, Admit, AdmitRefused, AdmitRefusedUnrecorded, WorkerCapacity
    <2> QED BY <2>1, InsertMoves DEF OneBegins
  <1>7. ASSUME NEW w \in Worker, StoreSettles(w) \/ StoreDrops(w) PROVE NoneBegins
    BY <1>7 DEF StoreSettles, StoreDrops, durable, NoneBegins, Moves
  <1>8. CASE Restart
    <2>1. ASSUME NEW k \in Key PROVE Moves(k)
      BY <1>8 DEF Restart, Moves, GivesUp, TypeInv, TypeOK
    <2> QED BY <1>8, <2>1 DEF Restart, NoneBegins
  <1>9. CASE UNCHANGED vars
    BY <1>9 DEF vars, NoneBegins, Moves
  <1> QED BY <1>1, <1>2, <1>3, <1>4, <1>5, <1>6, <1>7, <1>8, <1>9 DEF Next

-----------------------------------------------------------------------------
(* What is over stays over                                                  *)

\* The state of a row, before and after it was settled.
LEMMA SettlesState ==
    ASSUME TypeInv, NEW k \in Key, Settles(k)
    PROVE  /\ attempts[k] # None /\ attempts'[k] # None
           /\ StateOf(k) = "pending"
           /\ StateOf(k)' = Recorded(k) /\ StateOf(k)' \in {"ready", "canceled", "failed"}
           /\ attempts'[k].talk = attempts[k].talk
           /\ attempts'[k].reply = ReplyOf(k)
  <1>1. /\ attempts'[k] \in Attempt /\ attempts'[k].state = Recorded(k)
        /\ attempts'[k].talk = attempts[k].talk
        /\ attempts'[k].reply = ReplyOf(k)
        /\ Recorded(k) \in {"ready", "canceled", "failed"}
    BY SettledType, RecordedState DEF Settles
  <1> QED BY <1>1, NoneAssumption DEF Settles, StateOf

\* The states of a row before and after it was canceled.
LEMMA CancelsState ==
    ASSUME NEW k \in Key, Cancels(k)
    PROVE  /\ attempts[k] # None /\ attempts'[k] # None
           /\ StateOf(k) \in {"pending", "ready"} /\ StateOf(k)' = "canceled"
           /\ attempts'[k].talk = attempts[k].talk
  BY NoneAssumption DEF Cancels, StateOf

\* The states of a row before and after a restart gave it up.
LEMMA GivesUpState ==
    ASSUME NEW k \in Key, GivesUp(k)
    PROVE  /\ attempts[k] # None /\ attempts'[k] # None
           /\ StateOf(k) = "pending" /\ StateOf(k)' = "failed"
           /\ attempts'[k].talk = attempts[k].talk
  <1>1. /\ attempts'[k] \in Attempt /\ attempts'[k].state = "failed"
        /\ attempts'[k].talk = attempts[k].talk
    BY DEF GivesUp, Attempt, States
  <1> QED BY <1>1, NoneAssumption DEF GivesUp, StateOf

\* The states of a row before and after it was committed.
LEMMA CommitsState ==
    ASSUME TypeInv, NEW k \in Key, Commits(k)
    PROVE  /\ attempts[k] # None /\ attempts'[k] # None
           /\ StateOf(k)' = "committed"
           /\ attempts'[k].talk = attempts[k].talk
           /\ \/ StateOf(k) = "ready" /\ attempts'[k].reply = attempts[k].reply
                 /\ attempts'[k] = [attempts[k] EXCEPT !.state = "committed"]
              \/ StateOf(k) = "pending" /\ k \in Finished /\ Recorded(k) = "ready"
                 /\ attempts'[k].reply = ReplyOf(k)
  <1>1. CASE /\ attempts[k].state = "ready"
             /\ attempts'[k] = [attempts[k] EXCEPT !.state = "committed"]
    <2>1. /\ attempts'[k] \in Attempt /\ attempts'[k].state = "committed"
          /\ attempts'[k].talk = attempts[k].talk /\ attempts'[k].reply = attempts[k].reply
      BY <1>1 DEF Commits, Attempt, States
    <2> QED BY <1>1, <2>1, NoneAssumption DEF Commits, StateOf
  <1>2. CASE /\ attempts[k].state = "pending" /\ k \in Finished /\ Recorded(k) = "ready"
             /\ attempts'[k] = [Settled(k) EXCEPT !.state = "committed"]
    <2>1. /\ Settled(k) \in Attempt /\ Settled(k).talk = attempts[k].talk
          /\ Settled(k).reply = ReplyOf(k)
      BY <1>2, SettledType
    <2>2. /\ attempts'[k] \in Attempt /\ attempts'[k].state = "committed"
          /\ attempts'[k].talk = attempts[k].talk /\ attempts'[k].reply = ReplyOf(k)
      BY <1>2, <2>1 DEF Attempt, States
    <2> QED BY <1>2, <2>2, NoneAssumption DEF Commits, StateOf
  <1> QED BY <1>1, <1>2 DEF Commits

\* The states of a row before and after it began.
LEMMA BeginsState ==
    ASSUME NEW k \in Key, Begins(k)
    PROVE  /\ attempts[k] = None /\ attempts'[k] # None
           /\ StateOf(k) = "none" /\ StateOf(k)' \in {"pending", "failed"}
           /\ \E talk \in Talk : MayAdmit(k, talk)
  <1>1. PICK talk \in Talk, state \in {"pending", "failed"} :
            attempts'[k] = [talk |-> talk, state |-> state, reply |-> None]
            /\ MayAdmit(k, talk)
    BY DEF Begins
  <1>2. attempts'[k] \in Attempt /\ attempts'[k].state = state
    BY <1>1 DEF Attempt, States
  <1> QED BY <1>1, <1>2, NoneAssumption DEF Begins, StateOf

\* What any step does with an attempt.
LEMMA AnyMove ==
    ASSUME TypeInv, [Next]_vars, NEW k \in Key
    PROVE  Moves(k) \/ Begins(k) \/ Commits(k)
  BY StepMoves, CollectedMoves DEF NoneBegins, OneBegins, OneCommits, Moves

\* A committed exchange is never taken back, a canceled or failed one never
\* revived, and a reply that is ready is only committed as it is, or canceled.
THEOREM WhatIsOverStaysOver == Spec => AttemptsAreFinal
  <1> DEFINE Final == \A k \in Key :
          /\ StateOf(k) \in {"committed", "canceled", "failed"} => attempts'[k] = attempts[k]
          /\ StateOf(k) = "ready" =>
                \/ attempts'[k] = attempts[k]
                \/ attempts'[k] = [attempts[k] EXCEPT !.state = "committed"]
                \/ attempts'[k].state = "canceled"
  <1>1. ASSUME TypeInv, [Next]_vars PROVE Final
    <2> SUFFICES ASSUME NEW k \in Key
                 PROVE  /\ StateOf(k) \in {"committed", "canceled", "failed"}
                              => attempts'[k] = attempts[k]
                        /\ StateOf(k) = "ready" =>
                              \/ attempts'[k] = attempts[k]
                              \/ attempts'[k] = [attempts[k] EXCEPT !.state = "committed"]
                              \/ attempts'[k].state = "canceled"
      OBVIOUS
    <2>1. CASE Settles(k)
      BY <1>1, <2>1, SettlesState
    <2>2. CASE Cancels(k)
      BY <2>2, CancelsState DEF Cancels
    <2>3. CASE GivesUp(k)
      BY <2>3, GivesUpState
    <2>4. CASE Commits(k)
      BY <1>1, <2>4, CommitsState
    <2>5. CASE Begins(k)
      BY <2>5, BeginsState
    <2> QED BY <1>1, <2>1, <2>2, <2>3, <2>4, <2>5, AnyMove DEF Moves
  <1>2. TypeInv /\ [Next]_vars => [Final]_vars
    BY <1>1
  <1> QED BY <1>2, InitTypeInv, TypeInvStep, PTL DEF Spec, AttemptsAreFinal

-----------------------------------------------------------------------------
(* What a client may rely on                                                *)

\* An exchange that can be shown can still be shown, and it is committed now if
\* it was before.
Kept(k) == /\ StateOf(k) \in {"ready", "committed"} => StateOf(k)' \in {"ready", "committed"}
           /\ StateOf(k)' = "committed" <=> StateOf(k) = "committed"

\* Only a cancel or an ack of it does anything else to an exchange.
LEMMA KeptByOthers ==
    ASSUME TypeInv, NEW k \in Key,
           \/ Answer \/ CollectFails \/ Restart
           \/ \E j \in Key : j # k /\ (Cancel(j) \/ Ack(j))
           \/ \E j \in Key, talk \in Talk : TalkRequest(j, talk)
           \/ \E w \in Worker : StoreSettles(w) \/ StoreDrops(w)
    PROVE  Kept(k)
  <1>1. ASSUME attempts'[k] = attempts[k] \/ Settles(k) \/ GivesUp(k) \/ Begins(k)
        PROVE  Kept(k)
    <2>1. CASE attempts'[k] = attempts[k]
      BY <2>1 DEF Kept, StateOf
    <2>2. CASE Settles(k) \/ GivesUp(k) \/ Begins(k)
      BY <2>2, SettlesState, GivesUpState, BeginsState DEF Kept
    <2> QED BY <1>1, <2>1, <2>2
  <1>2. CASE Answer
    BY <1>1, <1>2, CollectedMoves DEF Answer
  <1>3. CASE CollectFails
    BY <1>1, <1>3, CollectedMoves DEF CollectFails
  <1>4. CASE Restart
    BY <1>1, <1>4 DEF Restart, GivesUp, TypeInv, TypeOK
  <1>5. ASSUME NEW j \in Key, j # k, Cancel(j) \/ Ack(j) PROVE Kept(k)
    <2>1. attempts'[k] = Collected(Finished)[k]
      <3>1. CASE Cancel(j)
        BY <1>5, <3>1, CollectedRows DEF Cancel
      <3>2. CASE Ack(j)
        BY <1>5, <3>2, CollectedRows DEF Ack
      <3> QED BY <1>5, <3>1, <3>2
    <2> QED BY <1>1, <2>1, CollectedMoves
  <1>6. ASSUME NEW j \in Key, NEW talk \in Talk, TalkRequest(j, talk) PROVE Kept(k)
    <2>1. \E state \in {"pending", "failed"} : Insert(j, talk, state)
      BY <1>6 DEF TalkRequest, Admit, AdmitRefused, AdmitRefusedUnrecorded, WorkerCapacity
    <2>2. Begins(j) /\ (j # k => attempts'[k] = Collected(Finished)[k])
      BY <2>1, InsertMoves
    <2> QED BY <1>1, <2>2, CollectedMoves
  <1>7. CASE \E w \in Worker : StoreSettles(w) \/ StoreDrops(w)
    BY <1>1, <1>7 DEF StoreSettles, StoreDrops, durable
  <1> QED BY <1>2, <1>3, <1>4, <1>5, <1>6, <1>7

\* A cancel or an ack that has an effect.
LEMMA CanceledOrCommitted ==
    ASSUME TypeInv, NEW k \in Key
    PROVE  /\ Cancel(k) => StateOf(k)' = "canceled"
           /\ Ack(k) => StateOf(k)' = "committed"
  BY CancelMoves, CancelsState, AckMoves, CommitsState

\* An answer tells the state that it has recorded.
LEMMA AnswerTells ==
    ASSUME TypeInv, NEW k \in Key, Answer
    PROVE  StateOf(k)' = IF attempts[k] = None THEN "none" ELSE Collected(Finished)[k].state
  BY CollectedExists DEF Answer, StateOf

-----------------------------------------------------------------------------
(* One exchange of a conversation at a time                                 *)

Opened(k) == StateOf(k) \in {"pending", "ready"}

\* An attempt that is open now was open before, unless it begins.
LEMMA OpenWasOpen ==
    ASSUME TypeInv, [Next]_vars, NEW k \in Key, Opened(k)'
    PROVE  Opened(k) \/ Begins(k)
  <1>1. CASE attempts'[k] = attempts[k]
    BY <1>1 DEF Opened, StateOf
  <1>2. CASE Settles(k)
    BY <1>2, SettlesState DEF Opened
  <1>3. CASE Cancels(k) \/ GivesUp(k)
    BY <1>3, CancelsState, GivesUpState DEF Opened
  <1>4. CASE Commits(k)
    BY <1>4, CommitsState DEF Opened
  <1> QED BY <1>1, <1>2, <1>3, <1>4, AnyMove DEF Moves

\* At the end of the request that begins an attempt, nothing else of its
\* conversation is open.
LEMMA BeginsAlone ==
    ASSUME TypeInv, NEW k \in Key, Begins(k),
           \A j \in Key : j # k => attempts'[j] = Collected(Finished)[j]
    PROVE  \A j \in Key : j # k /\ ConversationOf(j) = ConversationOf(k) => ~Opened(j)'
  <1> SUFFICES ASSUME NEW j \in Key, j # k, ConversationOf(j) = ConversationOf(k)
               PROVE  ~Opened(j)'
    OBVIOUS
  <1>1. PICK talk \in Talk : MayAdmit(k, talk)
    BY DEF Begins
  <1>2. CASE attempts[j] = None
    <2>1. attempts'[j] = None
      BY <1>2, CollectedExists
    <2> QED BY <2>1 DEF Opened, StateOf
  <1>3. CASE attempts[j] # None
    <2>1. Collected(Finished)[j].state \notin {"pending", "ready"}
      BY <1>1, <1>3 DEF MayAdmit
    <2> QED BY <2>1 DEF Opened, StateOf
  <1> QED BY <1>2, <1>3

\* A step that begins no attempt opens none.
LEMMA OneOpenStep ==
    TypeInv /\ OneOpenExchange /\ [Next]_vars => OneOpenExchange'
  <1> SUFFICES ASSUME TypeInv, OneOpenExchange, [Next]_vars,
                      NEW i \in Key, NEW j \in Key, ConversationOf(i) = ConversationOf(j),
                      Opened(i)', Opened(j)'
               PROVE  i = j
    BY DEF OneOpenExchange, Opened, ConversationOf
  <1>1. CASE Opened(i) /\ Opened(j)
    BY <1>1 DEF OneOpenExchange, Opened
  <1>2. ASSUME NEW k \in Key, Begins(k), k \in {i, j} PROVE i = j
    <2>1. PICK b \in Key : /\ Begins(b)
                           /\ \A l \in Key : l # b => attempts'[l] = Collected(Finished)[l]
      <3>1. ~Moves(k) /\ ~Commits(k)
        BY <1>2, BeginsState, SettlesState, CancelsState, GivesUpState, CommitsState
        DEF Moves
      <3> QED BY <1>2, <3>1, StepMoves DEF NoneBegins, OneBegins, OneCommits
    <2>2. b = k
      BY <1>2, <2>1, BeginsState, CollectedExists
    <2> QED BY <1>2, <2>1, <2>2, BeginsAlone
  <1> QED BY <1>1, <1>2, OpenWasOpen

\* A conversation has at most one exchange that is pending or waits for its ack.
THEOREM OneExchangeAtATime == Spec => []OneOpenExchange
  <1>1. Init => OneOpenExchange
    BY DEF Init, OneOpenExchange, StateOf
  <1> QED BY <1>1, InitTypeInv, TypeInvStep, OneOpenStep, PTL DEF Spec

-----------------------------------------------------------------------------
(* The history is what was committed                                        *)

Committed == {k \in Key : StateOf(k) = "committed"}

HistoryInv == IsFiniteSet(Committed) /\ HistoryIsTheCommitted

\* A committed attempt stays as it is, and so does its exchange.
LEMMA CommittedStays ==
    ASSUME TypeInv, [Next]_vars, NEW k \in Committed
    PROVE  attempts'[k] = attempts[k] /\ k \in Committed' /\ Exchange(k)' = Exchange(k)
  <1>1. k \in Key /\ StateOf(k) = "committed"
    BY DEF Committed
  <1>2. attempts'[k] = attempts[k]
    BY <1>1, AnyMove, SettlesState, CancelsState, GivesUpState, CommitsState, BeginsState
    DEF Moves
  <1> QED BY <1>1, <1>2 DEF Committed, StateOf, Exchange

\* Only Commits commits.
LEMMA MovesCommitNothing ==
    ASSUME TypeInv, NEW k \in Key, Moves(k) \/ Begins(k), k \notin Committed
    PROVE  k \notin Committed'
  <1>1. CASE attempts'[k] = attempts[k]
    BY <1>1 DEF Committed, StateOf
  <1>2. CASE Settles(k) \/ Cancels(k) \/ GivesUp(k) \/ Begins(k)
    BY <1>2, SettlesState, CancelsState, GivesUpState, BeginsState DEF Committed
  <1> QED BY <1>1, <1>2 DEF Moves

\* Without a commit the history stays what was committed.
LEMMA HistoryUnchanged ==
    ASSUME TypeInv, HistoryInv, [Next]_vars, messages' = messages,
           \A k \in Key : Moves(k) \/ Begins(k)
    PROVE  HistoryInv'
  <1>1. Committed' = Committed
    <2>1. \A k \in Key : k \in Committed => k \in Committed'
      BY CommittedStays
    <2>2. \A k \in Key : k \notin Committed => k \notin Committed'
      BY MovesCommitNothing
    <2> QED BY <2>1, <2>2 DEF Committed
  <1>2. \A k \in Committed : Exchange(k)' = Exchange(k)
    BY CommittedStays
  <1>3. HistoryIsTheCommitted'
    <2>1. ASSUME NEW k \in Key, StateOf(k)' = "committed"
          PROVE  \E i \in DOMAIN messages' : i + 1 \in DOMAIN messages'
                    /\ <<messages'[i], messages'[i + 1]>> = Exchange(k)'
      <3>1. k \in Committed
        BY <1>1, <2>1 DEF Committed
      <3> QED BY <1>2, <3>1 DEF HistoryInv, HistoryIsTheCommitted, Committed
    <2>2. Len(messages') = 2 * Cardinality(Committed')
      BY <1>1 DEF HistoryInv, HistoryIsTheCommitted, Committed
    <2> QED BY <2>1, <2>2 DEF HistoryIsTheCommitted, Committed
  <1> QED BY <1>1, <1>3 DEF HistoryInv

\* What is written goes behind what was there.
LEMMA ExchangeAppended ==
    ASSUME TypeInv, NEW k \in Key, attempts[k] # None, messages' = messages \o Exchange(k)
    PROVE  /\ Len(messages') = Len(messages) + 2
           /\ \A i \in 1 .. Len(messages) : messages'[i] = messages[i]
           /\ messages'[Len(messages) + 1] = Exchange(k)[1]
           /\ messages'[Len(messages) + 2] = Exchange(k)[2]
           /\ messages' \in Seq(Row) /\ Len(messages) \in Nat
  <1> DEFINE exchange == Exchange(k)
  <1>1. /\ messages \in Seq(Row) /\ messages' = messages \o exchange
        /\ exchange \in Seq(Row) /\ Len(exchange) = 2 /\ Len(messages) \in Nat
    BY ExchangeType DEF TypeInv, TypeOK
  <1> HIDE DEF exchange
  <1>2. /\ messages' \in Seq(Row)
        /\ Len(messages') = Len(messages) + Len(exchange)
        /\ \A i \in 1 .. Len(messages) + Len(exchange) : messages'[i] =
              IF i <= Len(messages) THEN messages[i] ELSE exchange[i - Len(messages)]
    BY <1>1, ConcatProperties
  <1>3. /\ messages'[Len(messages) + 1] = exchange[1]
        /\ messages'[Len(messages) + 2] = exchange[2]
    BY <1>1, <1>2
  <1>4. \A i \in 1 .. Len(messages) : messages'[i] = messages[i]
    BY <1>1, <1>2
  <1> QED BY <1>1, <1>2, <1>3, <1>4 DEF exchange

\* A commit adds its own exchange, and takes none away.
LEMMA HistoryGrows ==
    ASSUME TypeInv, HistoryInv, [Next]_vars, OneCommits
    PROVE  HistoryInv'
  <1>1. PICK k \in Key : /\ Commits(k) /\ messages' = messages \o Exchange(k)
                         /\ \A j \in Key : j # k => Moves(j)
    BY DEF OneCommits
  <1>2. /\ attempts[k] # None /\ k \notin Committed /\ k \in Committed'
        /\ attempts'[k].talk = attempts[k].talk
    BY <1>1, CommitsState DEF Committed
  <1>3. Committed' = Committed \cup {k}
    <2>1. \A j \in Key : j \in Committed => j \in Committed'
      BY CommittedStays
    <2>2. \A j \in Key : j # k /\ j \notin Committed => j \notin Committed'
      BY <1>1, MovesCommitNothing
    <2> QED BY <1>2, <2>1, <2>2 DEF Committed
  <1>4. IsFiniteSet(Committed') /\ Cardinality(Committed') = Cardinality(Committed) + 1
        /\ Cardinality(Committed) \in Nat
    BY <1>2, <1>3, FS_AddElement, FS_CardinalityType DEF HistoryInv
  <1>5. /\ messages \in Seq(Row) /\ Exchange(k) \in Seq(Row) /\ Len(Exchange(k)) = 2
    BY <1>2, ExchangeType DEF TypeInv, TypeOK
  <1>6. /\ Len(messages') = Len(messages) + 2
        /\ \A i \in 1 .. Len(messages) : messages'[i] = messages[i]
        /\ messages'[Len(messages) + 1] = Exchange(k)[1]
        /\ messages'[Len(messages) + 2] = Exchange(k)[2]
        /\ messages' \in Seq(Row) /\ Len(messages) \in Nat
    BY <1>1, <1>2, ExchangeAppended
  <1>7. \A j \in Committed : Exchange(j)' = Exchange(j)
    BY CommittedStays
  <1>8. Exchange(k)' = Exchange(k) /\ Exchange(k) = <<Exchange(k)[1], Exchange(k)[2]>>
    BY <1>2 DEF Exchange
  <1>9. ASSUME NEW j \in Key, StateOf(j)' = "committed"
        PROVE  \E i \in DOMAIN messages' : i + 1 \in DOMAIN messages'
                    /\ <<messages'[i], messages'[i + 1]>> = Exchange(j)'
    <2>1. CASE j = k
      <3>1. Len(messages) + 1 \in DOMAIN messages' /\ Len(messages) + 1 + 1 \in DOMAIN messages'
        BY <1>6
      <3>2. <<messages'[Len(messages) + 1], messages'[Len(messages) + 1 + 1]>> = Exchange(j)'
        BY <1>6, <1>8, <2>1
      <3> QED BY <3>1, <3>2
    <2>2. CASE j # k
      <3>1. j \in Committed
        BY <1>3, <1>9, <2>2 DEF Committed
      <3>2. PICK i \in DOMAIN messages : i + 1 \in DOMAIN messages
                    /\ <<messages[i], messages[i + 1]>> = Exchange(j)
        BY <3>1 DEF HistoryInv, HistoryIsTheCommitted, Committed
      <3>3. /\ i \in 1 .. Len(messages) /\ i + 1 \in 1 .. Len(messages)
            /\ DOMAIN messages' = 1 .. Len(messages')
        BY <1>5, <1>6, <3>2
      <3>4. i \in DOMAIN messages' /\ i + 1 \in DOMAIN messages'
        BY <1>6, <3>3
      <3>5. messages'[i] = messages[i] /\ messages'[i + 1] = messages[i + 1]
        BY <1>6, <3>3
      <3> QED BY <1>7, <3>1, <3>2, <3>4, <3>5
    <2> QED BY <2>1, <2>2
  <1>10. Len(messages') = 2 * Cardinality(Committed')
    BY <1>4, <1>6 DEF HistoryInv, HistoryIsTheCommitted, Committed
  <1> QED BY <1>4, <1>9, <1>10 DEF HistoryInv, HistoryIsTheCommitted, Committed

\* Every step keeps the history to what was committed.
LEMMA HistoryStep == TypeInv /\ HistoryInv /\ [Next]_vars => HistoryInv'
  <1> SUFFICES ASSUME TypeInv, HistoryInv, [Next]_vars PROVE HistoryInv'
    OBVIOUS
  <1>1. CASE NoneBegins
    BY <1>1, HistoryUnchanged DEF NoneBegins
  <1>2. CASE OneBegins
    <2>1. messages' = messages /\ \A k \in Key : Moves(k) \/ Begins(k)
      BY <1>2, CollectedMoves DEF OneBegins, Moves
    <2> QED BY <2>1, HistoryUnchanged
  <1>3. CASE OneCommits
    BY <1>3, HistoryGrows
  <1> QED BY <1>1, <1>2, <1>3, StepMoves

\* "Only an explicit client ACK turns an attempt into dialogue history", and
\* both messages of it side by side, whatever crashes and whichever statement
\* fails.
THEOREM OnlyAcksAreRemembered == Spec => []HistoryIsTheCommitted
  <1>1. Init => HistoryInv
    <2> SUFFICES ASSUME Init PROVE HistoryInv
      OBVIOUS
    <2>1. Committed = {} /\ Len(messages) = 0 /\ \A k \in Key : StateOf(k) = "none"
      BY DEF Init, Committed, StateOf
    <2> QED BY <2>1, FS_EmptySet DEF HistoryInv, HistoryIsTheCommitted, Committed
  <1>2. HistoryInv => HistoryIsTheCommitted
    BY DEF HistoryInv
  <1> QED BY <1>1, <1>2, InitTypeInv, TypeInvStep, HistoryStep, PTL DEF Spec

-----------------------------------------------------------------------------
(* Replies and workers                                                      *)

\* Worker numbers are not used again: a number that is in use was given, and
\* what the store knows under the number of an attempt runs for that attempt.
NumbersAreFresh ==
    /\ \A k \in Key : running[k] # None => running[k] < next
    /\ \A w \in Worker : store[w] # None => w < next
    /\ \A k \in Key : running[k] # None /\ store[running[k]] # None
          => store[running[k]].for = k

\* A job that the store still works on is the one its attempt waits for.
JobsAreAwaited ==
    \A w \in Worker : store[w] # None /\ store[w].state = "pending"
        => /\ StateOf(store[w].for) = "pending"
           /\ running[store[w].for] = w

WorkerInv == NumbersAreFresh /\ JobsAreAwaited

\* The attempt of a job that is pending is touched by no results.
LEMMA AwaitedIsUnfinished ==
    ASSUME TypeInv, WorkerInv, NEW w \in Worker, store[w] # None, store[w].state = "pending",
           NEW done \in SUBSET Finished
    PROVE  /\ store[w].for \in Key /\ attempts[store[w].for] # None
           /\ Drained(done)[store[w].for] = w
           /\ Collected(done)[store[w].for] = attempts[store[w].for]
           /\ attempts[store[w].for].state = "pending"
  <1> DEFINE f == store[w].for
  <1>1. f \in Key /\ StateOf(f) = "pending" /\ running[f] = w
    BY DEF TypeInv, TypeOK, Job, WorkerInv, JobsAreAwaited
  <1>2. f \notin done
    BY <1>1 DEF Finished, Ended
  <1>3. Drained(done)[f] = w
    BY <1>1, <1>2 DEF Drained
  <1>4. Collected(done)[f] = attempts[f]
    BY <1>1, <1>2, CollectedRows
  <1>5. attempts[f] # None /\ attempts[f].state = "pending"
    BY <1>1 DEF StateOf
  <1> QED BY <1>1, <1>3, <1>4, <1>5

\* A request that starts and stops no job.
LEMMA WorkersUntouched ==
    ASSUME TypeInv, WorkerInv, NEW done \in SUBSET Finished,
           running' = Drained(done), store' = store, next \in Nat, next' \in Nat, next <= next',
           \A k \in Key : Collected(done)[k] = attempts[k] /\ StateOf(k) = "pending"
                => attempts'[k] = attempts[k]
    PROVE  WorkerInv'
  <1>1. \A k \in Key : running'[k] # None => running'[k] = running[k] /\ running[k] \in Worker
    BY DrainedType DEF TypeInv, TypeOK
  <1>2. NumbersAreFresh'
    <2>1. \A k \in Key : running'[k] # None => running'[k] < next'
      BY <1>1 DEF WorkerInv, NumbersAreFresh, Worker
    <2>2. \A w \in Worker : store'[w] # None => w < next'
      BY DEF WorkerInv, NumbersAreFresh, Worker
    <2>3. \A k \in Key : running'[k] # None /\ store'[running'[k]] # None
              => store'[running'[k]].for = k
      BY <1>1 DEF WorkerInv, NumbersAreFresh
    <2> QED BY <2>1, <2>2, <2>3 DEF NumbersAreFresh
  <1>3. JobsAreAwaited'
    <2> SUFFICES ASSUME NEW w \in Worker, store[w] # None, store[w].state = "pending"
                 PROVE  StateOf(store[w].for)' = "pending" /\ running'[store[w].for] = w
      BY DEF JobsAreAwaited, StateOf
    <2>1. /\ store[w].for \in Key /\ attempts[store[w].for] # None
          /\ running'[store[w].for] = w
          /\ Collected(done)[store[w].for] = attempts[store[w].for]
          /\ attempts[store[w].for].state = "pending"
      BY AwaitedIsUnfinished
    <2> QED BY <2>1 DEF StateOf
  <1> QED BY <1>2, <1>3 DEF WorkerInv

\* A canceled attempt's job is canceled too.
LEMMA CancelWorkers ==
    ASSUME TypeInv, WorkerInv, NEW k \in Key, Cancel(k)
    PROVE  WorkerInv'
  <1> DEFINE w == Drained(Finished)[k]
  <1>1. /\ Finished \in SUBSET Finished /\ w \in Worker \cup {None}
        /\ next' = next
        /\ running' = [Drained(Finished) EXCEPT ![k] = None]
        /\ store' = StoreCanceled(w)
    BY DrainedType DEF Cancel
  <1>2. /\ \A v \in Worker : \/ store'[v] = store[v]
                             \/ /\ v = w /\ store[v] \in Job
                                /\ store'[v] = [store[v] EXCEPT !.state = "canceled"]
    BY <1>1, StoreCanceledType
  <1>3. \A v \in Worker : /\ store'[v] # None => store[v] # None /\ store'[v].for = store[v].for
                          /\ store'[v] # None /\ store'[v].state = "pending"
                                => store'[v] = store[v]
    <2> SUFFICES ASSUME NEW v \in Worker
                 PROVE  /\ store'[v] # None => store[v] # None /\ store'[v].for = store[v].for
                        /\ store'[v] # None /\ store'[v].state = "pending"
                              => store'[v] = store[v]
      OBVIOUS
    <2>1. CASE store'[v] = store[v]
      BY <2>1
    <2>2. CASE store[v] \in Job /\ store'[v] = [store[v] EXCEPT !.state = "canceled"]
      <3>1. store'[v].for = store[v].for /\ store'[v].state = "canceled"
        BY <2>2 DEF Job
      <3> QED BY <2>2, <3>1, NoneAssumption
    <2> QED BY <1>2, <2>1, <2>2
  <1>4. \A j \in Key : running'[j] # None => running'[j] = running[j] /\ running[j] \in Worker
    BY <1>1, DrainedType DEF TypeInv, TypeOK
  <1>5. NumbersAreFresh'
    <2>1. \A j \in Key : running'[j] # None => running'[j] < next'
      BY <1>1, <1>4 DEF WorkerInv, NumbersAreFresh
    <2>2. \A v \in Worker : store'[v] # None => v < next'
      BY <1>1, <1>3 DEF WorkerInv, NumbersAreFresh
    <2>3. \A j \in Key : running'[j] # None /\ store'[running'[j]] # None
              => store'[running'[j]].for = j
      BY <1>3, <1>4 DEF WorkerInv, NumbersAreFresh
    <2> QED BY <2>1, <2>2, <2>3 DEF NumbersAreFresh
  <1>6. JobsAreAwaited'
    <2> SUFFICES ASSUME NEW v \in Worker, store'[v] # None, store'[v].state = "pending"
                 PROVE  /\ attempts'[store'[v].for] # None
                        /\ attempts'[store'[v].for].state = "pending"
                        /\ running'[store'[v].for] = v
      BY DEF JobsAreAwaited, StateOf
    <2> DEFINE f == store[v].for
    <2>1. store'[v] = store[v] /\ store[v] # None /\ store[v].state = "pending"
      BY <1>3
    <2>2. /\ f \in Key /\ attempts[f] # None
          /\ Drained(Finished)[f] = v
          /\ Collected(Finished)[f] = attempts[f] /\ attempts[f].state = "pending"
      BY <1>1, <2>1, AwaitedIsUnfinished
    <2>3. f # k
      <3> SUFFICES ASSUME f = k PROVE FALSE
        OBVIOUS
      <3>1. w = v /\ store[w] # None /\ ~Ended(store[w]) /\ w # None /\ store[w] \in Job
        BY <2>1, <2>2, NoneAssumption DEF Ended, TypeInv, TypeOK
      <3>2. store' = [store EXCEPT ![w].state = "canceled"]
        BY <1>1, <3>1 DEF StoreCanceled
      <3>3. store'[v] = [store[v] EXCEPT !.state = "canceled"]
        BY <3>1, <3>2 DEF TypeInv, TypeOK
      <3>4. store'[v].state = "canceled"
        BY <3>1, <3>3 DEF Job
      <3> QED BY <3>4
    <2>4. attempts'[f] = Collected(Finished)[f]
      <3> DEFINE row == [Collected(Finished)[k] EXCEPT !.state = "canceled", !.reply = None]
      <3>1. row \in Attempt /\ attempts' = [Collected(Finished) EXCEPT ![k] = row]
        BY FieldsAreSet DEF Cancel
      <3> HIDE DEF row
      <3> QED BY <2>2, <2>3, <3>1, RowSetType
    <2>5. running'[f] = v
      BY <1>1, <2>2, <2>3, DrainedType
    <2> QED BY <2>1, <2>2, <2>4, <2>5 DEF StateOf
  <1> QED BY <1>5, <1>6 DEF WorkerInv

\* A new job runs under a number that nothing else has.
LEMMA AdmitWorkers ==
    ASSUME TypeInv, WorkerInv, NEW k \in Key, NEW talk \in Talk, Admit(k, talk)
    PROVE  /\ WorkerInv'
           /\ store[next] = None
           /\ store' = [store EXCEPT ![next] = [for |-> k, state |-> "pending"]]
  <1> DEFINE job == [for |-> k, state |-> "pending"]
  <1>1. /\ Finished \in SUBSET Finished
        /\ next \in Worker /\ next' = next + 1 /\ next \in Nat
        /\ running' = [Drained(Finished) EXCEPT ![k] = next]
    BY LimitAssumption DEF Admit, NextWorker, TypeInv, TypeOK, Worker
  <1>2. store[next] = None
    BY <1>1 DEF WorkerInv, NumbersAreFresh
  <1>3. store' = [store EXCEPT ![next] = job]
    BY <1>2 DEF Admit
  <1>4. /\ attempts[k] = None
        /\ attempts'[k] = [talk |-> talk, state |-> "pending", reply |-> None]
        /\ attempts'[k] # None
        /\ \A j \in Key : j # k => attempts'[j] = Collected(Finished)[j]
    BY InsertType DEF Admit
  <1>5. /\ store'[next] = job
        /\ \A w \in Worker : w # next => store'[w] = store[w]
    BY <1>1, <1>3 DEF TypeInv, TypeOK
  <1>6. /\ running'[k] = next
        /\ \A j \in Key : j # k => running'[j] = Drained(Finished)[j]
        /\ \A j \in Key : j # k /\ running'[j] # None
              => running'[j] = running[j] /\ running[j] \in Worker /\ running[j] < next
    BY <1>1, DrainedType DEF TypeInv, TypeOK, WorkerInv, NumbersAreFresh
  <1> HIDE DEF job
  <1>7. job.for = k /\ job.state = "pending" /\ job # None
    <2>1. job \in Job
      BY DEF job, Job
    <2> QED BY <2>1, NoneAssumption DEF job
  <1>8. NumbersAreFresh'
    <2>1. \A j \in Key : running'[j] # None => running'[j] < next'
      BY <1>1, <1>6 DEF Worker
    <2>2. \A w \in Worker : store'[w] # None => w < next'
      BY <1>1, <1>5 DEF WorkerInv, NumbersAreFresh, Worker
    <2>3. \A j \in Key : running'[j] # None /\ store'[running'[j]] # None
              => store'[running'[j]].for = j
      <3> SUFFICES ASSUME NEW j \in Key, running'[j] # None, store'[running'[j]] # None
                   PROVE  store'[running'[j]].for = j
        OBVIOUS
      <3>1. CASE j = k
        BY <1>5, <1>6, <1>7, <3>1
      <3>2. CASE j # k
        <4>1. running'[j] = running[j] /\ running[j] \in Worker /\ running[j] # next
          BY <1>1, <1>6, <3>2 DEF Worker
        <4> QED BY <1>5, <4>1 DEF WorkerInv, NumbersAreFresh
      <3> QED BY <3>1, <3>2
    <2> QED BY <2>1, <2>2, <2>3 DEF NumbersAreFresh
  <1>9. JobsAreAwaited'
    <2> SUFFICES ASSUME NEW w \in Worker, store'[w] # None, store'[w].state = "pending"
                 PROVE  /\ attempts'[store'[w].for] # None
                        /\ attempts'[store'[w].for].state = "pending"
                        /\ running'[store'[w].for] = w
      BY DEF JobsAreAwaited, StateOf
    <2>1. CASE w = next
      <3>1. attempts'[k].state = "pending"
        BY <1>4
      <3> QED BY <1>4, <1>5, <1>6, <1>7, <2>1, <3>1 DEF StateOf
    <2>2. CASE w # next
      <3> DEFINE f == store[w].for
      <3>1. store'[w] = store[w]
        BY <1>5, <2>2
      <3>2. /\ f \in Key /\ attempts[f] # None
            /\ Drained(Finished)[f] = w
            /\ Collected(Finished)[f] = attempts[f] /\ attempts[f].state = "pending"
        BY <1>1, <3>1, AwaitedIsUnfinished
      <3>3. f # k
        BY <1>4, <3>2
      <3> QED BY <1>4, <1>6, <3>1, <3>2, <3>3 DEF StateOf
    <2> QED BY <2>1, <2>2
  <1> QED BY <1>2, <1>3, <1>8, <1>9 DEF WorkerInv, job

\* Every step keeps the numbers fresh and the jobs awaited.
LEMMA WorkerStep == TypeInv /\ WorkerInv /\ [Next]_vars => WorkerInv'
  <1> SUFFICES ASSUME TypeInv, WorkerInv, [Next]_vars PROVE WorkerInv'
    OBVIOUS
  <1>0. next \in Nat /\ Finished \in SUBSET Finished
    BY DEF TypeInv, TypeOK, Worker
  <1>1. CASE Answer
    BY <1>0, <1>1, WorkersUntouched DEF Answer
  <1>2. CASE CollectFails
    <2>1. PICK done \in SUBSET Finished : attempts' = Collected(done) /\ running' = Drained(done)
      BY <1>2 DEF CollectFails
    <2>2. store' = store /\ next' = next
      BY <1>2 DEF CollectFails
    <2> QED BY <1>0, <2>1, <2>2, WorkersUntouched
  <1>3. ASSUME NEW k \in Key, Cancel(k) PROVE WorkerInv'
    BY <1>3, CancelWorkers
  <1>4. ASSUME NEW k \in Key, Ack(k) PROVE WorkerInv'
    <2> DEFINE row == [Collected(Finished)[k] EXCEPT !.state = "committed"]
    <2>1. row \in Attempt /\ attempts' = [Collected(Finished) EXCEPT ![k] = row]
      BY <1>4, FieldsAreSet DEF Ack
    <2>2. \A j \in Key : j # k => attempts'[j] = Collected(Finished)[j]
      <3> HIDE DEF row
      <3> QED BY <1>0, <2>1, RowSetType
    <2>3. ASSUME Collected(Finished)[k] = attempts[k], StateOf(k) = "pending" PROVE FALSE
      BY <1>4, <2>3 DEF Ack, StateOf
    <2>4. \A j \in Key : Collected(Finished)[j] = attempts[j] /\ StateOf(j) = "pending"
              => attempts'[j] = attempts[j]
      BY <2>2, <2>3
    <2> QED BY <1>0, <1>4, <2>4, WorkersUntouched DEF Ack
  <1>5. ASSUME NEW k \in Key, AckFails(k) PROVE WorkerInv'
    BY <1>0, <1>5, WorkersUntouched DEF AckFails
  <1>6. ASSUME NEW k \in Key, NEW talk \in Talk, NEW state \in {"pending", "failed"},
               Insert(k, talk, state), running' = Drained(Finished), store' = store,
               next' \in Nat, next <= next'
        PROVE  WorkerInv'
    <2>1. /\ attempts[k] = None
          /\ \A j \in Key : j # k => attempts'[j] = Collected(Finished)[j]
      BY <1>6, InsertType
    <2>2. \A j \in Key : Collected(Finished)[j] = attempts[j] /\ StateOf(j) = "pending"
              => attempts'[j] = attempts[j]
      BY <2>1 DEF StateOf
    <2> QED BY <1>0, <1>6, <2>2, WorkersUntouched
  <1>7. ASSUME NEW k \in Key, NEW talk \in Talk, TalkRequest(k, talk) PROVE WorkerInv'
    <2>1. CASE Admit(k, talk)
      BY <2>1, AdmitWorkers
    <2>2. CASE AdmitRefused(k, talk)
      BY <1>0, <1>6, <2>2 DEF AdmitRefused, NextWorker
    <2>3. CASE AdmitRefusedUnrecorded(k, talk)
      <3>1. next' \in Nat /\ next <= next'
        BY <1>0, <2>3 DEF AdmitRefusedUnrecorded, NextWorker
      <3> QED BY <1>6, <2>3, <3>1 DEF AdmitRefusedUnrecorded
    <2>4. CASE WorkerCapacity(k, talk)
      BY <1>0, <1>6, <2>4 DEF WorkerCapacity
    <2> QED BY <1>7, <2>1, <2>2, <2>3, <2>4 DEF TalkRequest
  <1>8. ASSUME NEW w \in Worker, StoreSettles(w) PROVE WorkerInv'
    <2>1. PICK verdict \in {"ready", "failed"} : store' = [store EXCEPT ![w].state = verdict]
      BY <1>8 DEF StoreSettles
    <2>2. store[w] \in Job /\ store' = [store EXCEPT ![w] = [store[w] EXCEPT !.state = verdict]]
      BY <1>8, <2>1 DEF StoreSettles, TypeInv, TypeOK
    <2>3. /\ [store[w] EXCEPT !.state = verdict].for = store[w].for
          /\ [store[w] EXCEPT !.state = verdict].state = verdict
      BY <2>2 DEF Job
    <2>4. /\ store'[w].for = store[w].for /\ store'[w].state # "pending" /\ store[w] # None
          /\ \A v \in Worker : v # w => store'[v] = store[v]
      BY <1>8, <2>2, <2>3 DEF StoreSettles, TypeInv, TypeOK
    <2>5. UNCHANGED <<attempts, running, next>>
      BY <1>8 DEF StoreSettles, durable
    <2>6. NumbersAreFresh'
      BY <2>4, <2>5 DEF NumbersAreFresh, WorkerInv, TypeInv, TypeOK
    <2>7. JobsAreAwaited'
      BY <2>4, <2>5 DEF JobsAreAwaited, WorkerInv, StateOf
    <2> QED BY <2>6, <2>7 DEF WorkerInv
  <1>9. ASSUME NEW w \in Worker, StoreDrops(w) PROVE WorkerInv'
    <2>1. /\ store'[w] = None
          /\ \A v \in Worker : v # w => store'[v] = store[v]
          /\ UNCHANGED <<attempts, running, next>>
      BY <1>9 DEF StoreDrops, durable, TypeInv, TypeOK
    <2>2. NumbersAreFresh'
      BY <2>1 DEF NumbersAreFresh, WorkerInv, TypeInv, TypeOK
    <2>3. JobsAreAwaited'
      BY <2>1 DEF JobsAreAwaited, WorkerInv, StateOf
    <2> QED BY <2>2, <2>3 DEF WorkerInv
  <1>10. CASE Restart
    BY <1>10 DEF Restart, WorkerInv, NumbersAreFresh, JobsAreAwaited
  <1>11. CASE UNCHANGED vars
    BY <1>11 DEF vars, WorkerInv, NumbersAreFresh, JobsAreAwaited, StateOf
  <1> QED BY <1>1, <1>2, <1>3, <1>4, <1>5, <1>7, <1>8, <1>9, <1>10, <1>11 DEF Next

\* The reply that is recorded of an attempt was made for it.
LEMMA RecordedReply ==
    ASSUME TypeInv, WorkerInv, NEW k \in Finished, Recorded(k) = "ready"
    PROVE  ReplyOf(k) = k
  <1>1. k \in Key /\ running[k] # None
    BY DEF Finished
  <1>2. store[running[k]] # None
    BY DEF Recorded
  <1> QED BY <1>1, <1>2 DEF ReplyOf, WorkerInv, NumbersAreFresh

\* Every step keeps replies with their attempts.
LEMMA ReplyStep ==
    TypeInv /\ WorkerInv /\ ReplyIsOfItsAttempt /\ [Next]_vars => ReplyIsOfItsAttempt'
  <1> SUFFICES ASSUME TypeInv, WorkerInv, ReplyIsOfItsAttempt, [Next]_vars,
                      NEW k \in Key, StateOf(k)' \in {"ready", "committed"}
               PROVE  attempts'[k].reply = k
    BY DEF ReplyIsOfItsAttempt
  <1>1. CASE attempts'[k] = attempts[k]
    BY <1>1 DEF ReplyIsOfItsAttempt, StateOf
  <1>2. CASE Settles(k)
    <2>1. k \in Finished /\ Recorded(k) = "ready" /\ attempts'[k].reply = ReplyOf(k)
      BY <1>2, SettlesState DEF Settles
    <2> QED BY <2>1, RecordedReply
  <1>3. CASE Cancels(k) \/ GivesUp(k) \/ Begins(k)
    BY <1>3, CancelsState, GivesUpState, BeginsState
  <1>4. CASE Commits(k)
    <2>1. CASE StateOf(k) = "ready" /\ attempts'[k].reply = attempts[k].reply
      BY <2>1 DEF ReplyIsOfItsAttempt
    <2>2. CASE k \in Finished /\ Recorded(k) = "ready" /\ attempts'[k].reply = ReplyOf(k)
      BY <2>2, RecordedReply
    <2> QED BY <1>4, <2>1, <2>2, CommitsState
  <1> QED BY <1>1, <1>2, <1>3, <1>4, AnyMove DEF Moves

\* At the start there are no workers and no jobs.
LEMMA InitWorkerInv == Init => WorkerInv
  BY DEF Init, WorkerInv, NumbersAreFresh, JobsAreAwaited

\* A reply is recorded for the attempt it was made for, though worker numbers
\* start again after every restart and a result may be read long after it came.
THEOREM RepliesAreTheirOwn == Spec => []ReplyIsOfItsAttempt
  <1>1. Init => ReplyIsOfItsAttempt
    BY DEF Init, ReplyIsOfItsAttempt, StateOf
  <1> QED BY <1>1, InitTypeInv, InitWorkerInv, TypeInvStep, WorkerStep, ReplyStep, PTL
          DEF Spec

-----------------------------------------------------------------------------
(* The store beside the memory keeps JobContract                            *)

SeenOf(w) == IF store[w] = None THEN None
             ELSE [run |-> w, line |-> ConversationOf(store[w].for), state |-> store[w].state]

\* What is seen of a job that the store knows.
LEMMA SeenIs ==
    ASSUME TypeInv, NEW w \in Worker
    PROVE  /\ store[w] = None => SeenOf(w) = None
           /\ store[w] # None => /\ SeenOf(w) # None
                                 /\ SeenOf(w).run = w
                                 /\ SeenOf(w).line = ConversationOf(store[w].for)
                                 /\ SeenOf(w).line \in Conversation
                                 /\ SeenOf(w).state = store[w].state
  <1>1. CASE store[w] # None
    <2>1. store[w].for \in Key /\ store[w].state \in States
      BY <1>1 DEF TypeInv, TypeOK, Job, States
    <2>2. ConversationOf(store[w].for) \in Conversation
      BY <2>1 DEF ConversationOf, Conversation, Key
    <2>3. SeenOf(w) \in Seen
      BY <1>1, <2>1, <2>2 DEF SeenOf, Seen
    <2>4. SeenOf(w) # None
      BY <2>3, NoneAssumption
    <2> QED BY <1>1, <2>2, <2>4 DEF SeenOf
  <1> QED BY <1>1 DEF SeenOf

\* A job that is gone was dropped, in the contract's terms.
LEMMA SeenWasDropped ==
    ASSUME TypeInv, NEW w \in Worker, store'[w] = None
    PROVE  SeenOf(w)' = SeenOf(w) \/ Contract!Drops(SeenOf(w), SeenOf(w)')
  BY SeenIs DEF SeenOf, Contract!Drops

\* A job that ended was settled, in the contract's terms.
LEMMA SeenWasSettled ==
    ASSUME TypeInv, NEW w \in Worker, NEW verdict \in {"ready", "failed", "canceled"},
           store[w] # None, store[w].state = "pending",
           store'[w] = [store[w] EXCEPT !.state = verdict]
    PROVE  /\ Contract!Settles(SeenOf(w), SeenOf(w)')
           /\ store'[w] # None /\ store'[w].state = verdict
  <1>1. store[w] \in Job
    BY DEF TypeInv, TypeOK
  <1>2. store'[w] \in Job /\ store'[w].for = store[w].for /\ store'[w].state = verdict
    BY <1>1 DEF Job
  <1>3. store'[w] # None
    BY <1>2, NoneAssumption
  <1>4. SeenOf(w) = [run |-> w, line |-> ConversationOf(store[w].for), state |-> "pending"]
    BY DEF SeenOf
  <1>5. SeenOf(w)' = [run |-> w, line |-> ConversationOf(store[w].for), state |-> verdict]
    BY <1>2, <1>3 DEF SeenOf, ConversationOf
  <1>6. SeenOf(w) # None
    BY SeenIs
  <1> QED BY <1>2, <1>3, <1>4, <1>5, <1>6 DEF Contract!Settles, Contract!Pending

\* A step changes what is seen of one job, or drops jobs.
Unseen(w) == store'[w] = store[w] \/ store'[w] = None
Ends(w) == /\ store[w] # None /\ store[w].state = "pending"
           /\ \E verdict \in {"ready", "failed", "canceled"} :
                 store'[w] = [store[w] EXCEPT !.state = verdict]
\* The job of k is admitted.
Enters(w, k) == /\ store[w] = None
                /\ store'[w] = [for |-> k, state |-> "pending"]

\* Every step is of one of these kinds.
LEMMA StoreStep ==
    ASSUME TypeInv, WorkerInv, [Next]_vars
    PROVE  \/ \A w \in Worker : Unseen(w) \/ Ends(w)
           \/ \E k \in Key, n \in Worker :
                 /\ Enters(n, k) /\ \A w \in Worker : w # n => store'[w] = store[w]
  <1> DEFINE Goal == \/ \A w \in Worker : Unseen(w) \/ Ends(w)
                     \/ \E k \in Key, n \in Worker :
                           Enters(n, k) /\ \A w \in Worker : w # n => store'[w] = store[w]
  <1>1. ASSUME store' = store PROVE Goal
    BY <1>1 DEF Unseen
  <1>2. ASSUME NEW k \in Key, Cancel(k) PROVE Goal
    <2> DEFINE w == Drained(Finished)[k]
    <2>1. w \in Worker \cup {None} /\ store' = StoreCanceled(w)
      BY <1>2, DrainedType DEF Cancel
    <2>2. CASE w # None /\ store[w] # None /\ ~Ended(store[w])
      <3>1. store' = [store EXCEPT ![w].state = "canceled"]
        BY <2>1, <2>2 DEF StoreCanceled
      <3>2. /\ store'[w] = [store[w] EXCEPT !.state = "canceled"]
            /\ \A v \in Worker : v # w => store'[v] = store[v]
            /\ store[w].state = "pending"
        BY <2>1, <2>2, <3>1 DEF TypeInv, TypeOK, Ended
      <3> QED BY <2>2, <3>2 DEF Unseen, Ends
    <2>3. CASE ~(w # None /\ store[w] # None /\ ~Ended(store[w]))
      BY <1>1, <2>1, <2>3 DEF StoreCanceled
    <2> QED BY <2>2, <2>3
  <1>3. ASSUME NEW k \in Key, NEW talk \in Talk, Admit(k, talk) PROVE Goal
    <2>1. /\ store[next] = None /\ next \in Worker
          /\ store' = [store EXCEPT ![next] = [for |-> k, state |-> "pending"]]
      BY <1>3, AdmitWorkers DEF TypeInv, TypeOK
    <2>2. Enters(next, k) /\ \A w \in Worker : w # next => store'[w] = store[w]
      BY <2>1 DEF Enters, TypeInv, TypeOK
    <2> QED BY <2>1, <2>2
  <1>4. ASSUME NEW k \in Key, NEW talk \in Talk, TalkRequest(k, talk) PROVE Goal
    BY <1>1, <1>3, <1>4
    DEF TalkRequest, AdmitRefused, AdmitRefusedUnrecorded, WorkerCapacity
  <1>5. ASSUME NEW w \in Worker, StoreSettles(w) PROVE Goal
    <2>1. PICK verdict \in {"ready", "failed"} : store' = [store EXCEPT ![w].state = verdict]
      BY <1>5 DEF StoreSettles
    <2>2. /\ store'[w] = [store[w] EXCEPT !.state = verdict]
          /\ \A v \in Worker : v # w => store'[v] = store[v]
          /\ store[w] # None /\ store[w].state = "pending"
      BY <1>5, <2>1 DEF StoreSettles, TypeInv, TypeOK
    <2> QED BY <2>2 DEF Unseen, Ends
  <1>6. ASSUME NEW w \in Worker, StoreDrops(w) PROVE Goal
    BY <1>6 DEF StoreDrops, Unseen, TypeInv, TypeOK
  <1>7. ASSUME Restart PROVE Goal
    BY <1>7 DEF Restart, Unseen
  <1>8. ASSUME NEW k \in Key, Ack(k) \/ AckFails(k) PROVE Goal
    BY <1>1, <1>8 DEF Ack, AckFails
  <1>9. ASSUME Answer \/ CollectFails \/ UNCHANGED vars PROVE Goal
    BY <1>1, <1>9 DEF Answer, CollectFails, vars
  <1> HIDE DEF Goal
  <1>10. Goal
    BY <1>2, <1>4, <1>5, <1>6, <1>7, <1>8, <1>9 DEF Next
  <1> QED BY <1>10 DEF Goal

JobsApart == \A v, w \in Worker :
    v # w /\ Contract!Pending(SeenOf(v)) /\ Contract!Pending(SeenOf(w))
        => SeenOf(v).line # SeenOf(w).line

\* Two jobs that the store works on belong to two conversations.
LEMMA PendingApart == TypeInv /\ WorkerInv /\ OneOpenExchange => JobsApart
  <1> SUFFICES ASSUME TypeInv, WorkerInv, OneOpenExchange,
                      NEW v \in Worker, NEW w \in Worker, v # w,
                      Contract!Pending(SeenOf(v)), Contract!Pending(SeenOf(w))
               PROVE  SeenOf(v).line # SeenOf(w).line
    BY DEF JobsApart
  <1>1. /\ store[v] # None /\ store[v].state = "pending"
        /\ SeenOf(v).line = ConversationOf(store[v].for)
        /\ store[w] # None /\ store[w].state = "pending"
        /\ SeenOf(w).line = ConversationOf(store[w].for)
    BY SeenIs DEF Contract!Pending
  <1>2. /\ store[v].for \in Key /\ store[w].for \in Key
        /\ StateOf(store[v].for) = "pending" /\ running[store[v].for] = v
        /\ StateOf(store[w].for) = "pending" /\ running[store[w].for] = w
    BY <1>1 DEF WorkerInv, JobsAreAwaited, TypeInv, TypeOK, Job
  <1>3. store[v].for # store[w].for
    BY <1>2
  <1> QED BY <1>1, <1>2, <1>3 DEF OneOpenExchange

\* What is seen of one job, after a step.
LEMMA SeenSteps ==
    ASSUME TypeInv, TypeInv', NEW w \in Worker
    PROVE  /\ Unseen(w) => SeenOf(w)' = SeenOf(w) \/ Contract!Drops(SeenOf(w), SeenOf(w)')
           /\ Unseen(w) \/ Ends(w) => ~Contract!Starts(SeenOf(w), SeenOf(w)')
           /\ Ends(w) => Contract!Settles(SeenOf(w), SeenOf(w)')
           /\ \A k \in Key : Enters(w, k) => Contract!Starts(SeenOf(w), SeenOf(w)')
  <1>1. ASSUME Unseen(w)
        PROVE  /\ SeenOf(w)' = SeenOf(w) \/ Contract!Drops(SeenOf(w), SeenOf(w)')
               /\ ~Contract!Starts(SeenOf(w), SeenOf(w)')
    <2>1. CASE store'[w] = store[w]
      <3>1. SeenOf(w)' = SeenOf(w)
        BY <2>1 DEF SeenOf, ConversationOf
      <3> QED BY <3>1 DEF Contract!Starts
    <2>2. CASE store'[w] = None
      <3>1. SeenOf(w)' = None
        BY <2>2 DEF SeenOf
      <3> QED BY <2>2, <3>1, SeenWasDropped DEF Contract!Starts, Contract!Pending
    <2> QED BY <1>1, <2>1, <2>2 DEF Unseen
  <1>2. ASSUME Ends(w)
        PROVE  /\ Contract!Settles(SeenOf(w), SeenOf(w)')
               /\ ~Contract!Starts(SeenOf(w), SeenOf(w)')
    <2>1. /\ store[w] # None /\ store[w].state = "pending"
          /\ Contract!Settles(SeenOf(w), SeenOf(w)')
      BY <1>2, SeenWasSettled DEF Ends
    <2> QED BY <2>1 DEF Contract!Settles, Contract!Starts
  <1>3. ASSUME NEW k \in Key, Enters(w, k)
        PROVE  Contract!Starts(SeenOf(w), SeenOf(w)')
    <2>1. SeenOf(w) = None
      BY <1>3 DEF Enters, SeenOf
    <2>2. store'[w] # None /\ store'[w].state = "pending"
      <3>1. [for |-> k, state |-> "pending"] \in Job
        BY DEF Job
      <3> QED BY <1>3, <3>1, NoneAssumption DEF Enters
    <2>3. /\ SeenOf(w)' # None /\ SeenOf(w)'.run = w /\ SeenOf(w)'.state = "pending"
          /\ SeenOf(w)'.line \in Conversation
      <3> DEFINE t == SeenOf(w)'
      <3>1. k \in Key /\ ConversationOf(k) \in Conversation
        BY DEF ConversationOf, Conversation, Key
      <3>2. SeenOf(w)' = [run |-> w, line |-> ConversationOf(k), state |-> "pending"]
        BY <1>3, <2>2 DEF SeenOf, ConversationOf, Enters
      <3>3. SeenOf(w)' \in Seen
        BY <3>1, <3>2 DEF Seen, States
      <3>4. SeenOf(w)' # None
        BY <3>3, NoneAssumption
      <3> QED BY <3>1, <3>2, <3>4
    <2>4. w \in Nat \ {0}
      BY DEF Worker
    <2> QED BY <2>1, <2>3, <2>4 DEF Contract!Starts, Contract!Pending
  <1> QED BY <1>1, <1>2, <1>3

\* Every step is a step of the contract.
LEMMA ContractStep ==
    ASSUME TypeInv, TypeInv', WorkerInv, JobsApart', [Next]_vars
    PROVE  Contract!Next
  <1>1. \A w \in Worker : Contract!Step(w)
    <2> SUFFICES ASSUME NEW w \in Worker
                 PROVE  \/ SeenOf(w)' = SeenOf(w)
                        \/ Contract!Settles(SeenOf(w), SeenOf(w)')
                        \/ Contract!Drops(SeenOf(w), SeenOf(w)')
                        \/ Contract!Starts(SeenOf(w), SeenOf(w)')
      BY DEF Contract!Step, SeenOf
    <2>1. Unseen(w) \/ Ends(w) \/ \E k \in Key : Enters(w, k)
      BY StoreStep DEF Unseen
    <2> QED BY <2>1, SeenSteps
  \* one talk is one submission
  <1>2. ASSUME NEW v \in Worker, NEW w \in Worker,
               Contract!Starts(SeenOf(v), SeenOf(v)'), Contract!Starts(SeenOf(w), SeenOf(w)')
        PROVE  v = w
    <2>1. ~(Unseen(v) \/ Ends(v)) /\ ~(Unseen(w) \/ Ends(w))
      BY <1>2, SeenSteps
    <2> QED BY <2>1, StoreStep DEF Unseen
  \* no conversation has two jobs that are pending
  <1>3. ASSUME NEW v \in Worker, NEW w \in Worker, v # w,
               Contract!Pending(SeenOf(v)'), Contract!Pending(SeenOf(w)')
        PROVE  SeenOf(v)'.line # SeenOf(w)'.line
    BY <1>3 DEF JobsApart
  <1> QED BY <1>1, <1>2, <1>3 DEF Contract!Next, SeenOf

\* The store, as the memory uses it, behaves as JobContract allows: no number
\* runs twice, no verdict is overwritten, and no conversation has two jobs.
THEOREM ContractIsKept == Spec => StoreKeepsItsContract
  <1>1. Init => Contract!Init
    BY DEF Init, Contract!Init
  <1>2. TypeInv /\ TypeInv' /\ WorkerInv /\ JobsApart' /\ [Next]_vars
          => Contract!Next
    BY ContractStep
  <1>3. Init => OneOpenExchange
    BY DEF Init, OneOpenExchange, StateOf
  <1> QED BY <1>1, <1>2, <1>3, InitTypeInv, InitWorkerInv, TypeInvStep, WorkerStep,
             OneOpenStep, PendingApart, PTL
          DEF Spec, StoreKeepsItsContract, Contract!Spec

-----------------------------------------------------------------------------
(* What a prompt recalls                                                    *)

\* Attempts keep their talk, and only a new talk makes one.
LEMMA TalkStays ==
    ASSUME TypeInv, NEW k \in Key, Moves(k) \/ Commits(k)
    PROVE  /\ attempts'[k] # None => attempts[k] # None
           /\ attempts[k] # None => attempts'[k] # None /\ attempts'[k].talk = attempts[k].talk
  BY SettlesState, CancelsState, GivesUpState, CommitsState DEF Moves

\* The npc of an attempt is the one of its conversation.
NpcInv == \A k \in Key :
    attempts[k] # None => npcOf[ConversationOf(k)] = attempts[k].talk.npc

\* A new talk is with its conversation's npc, or makes it so.
LEMMA InsertNpc ==
    ASSUME TypeInv, NpcInv, NEW j \in Key, NEW talk \in Talk,
           NEW state \in {"pending", "failed"}, Insert(j, talk, state)
    PROVE  NpcInv'
  <1> DEFINE here == ConversationOf(j)
  <1>1. /\ here \in Conversation
        /\ npcOf[here] \in {None, talk.npc}
        /\ npcOf' = [npcOf EXCEPT ![here] = IF @ = None THEN talk.npc ELSE @]
    BY DEF Insert, MayAdmit, Key, Conversation, ConversationOf
  <1>2. /\ npcOf'[here] = talk.npc
        /\ \A c \in Conversation : c # here => npcOf'[c] = npcOf[c]
    BY <1>1 DEF TypeInv, TypeOK
  <1> SUFFICES ASSUME NEW k \in Key, attempts'[k] # None
               PROVE  npcOf'[ConversationOf(k)] = attempts'[k].talk.npc
    BY DEF NpcInv, ConversationOf
  <1>3. CASE k = j
    <2>1. attempts'[j] = [talk |-> talk, state |-> state, reply |-> None]
      BY InsertType
    <2> QED BY <1>2, <1>3, <2>1
  <1>4. CASE k # j
    <2>1. attempts'[k] = Collected(Finished)[k]
      BY <1>4, InsertType
    <2>2. attempts[k] # None /\ attempts'[k].talk = attempts[k].talk
      BY <2>1, CollectedMoves, TalkStays DEF Moves
    <2>3. npcOf[ConversationOf(k)] = attempts[k].talk.npc
      BY <2>2 DEF NpcInv
    <2>4. attempts[k].talk.npc # None
      BY <2>2, TalkAssumption, NoneAssumption DEF TypeInv, TypeOK, Attempt
    <2>5. ConversationOf(k) \in Conversation
      BY DEF Key, Conversation, ConversationOf
    <2> QED BY <1>1, <1>2, <2>2, <2>3, <2>4, <2>5
  <1> QED BY <1>3, <1>4

\* Every step keeps that.
LEMMA NpcStep == TypeInv /\ NpcInv /\ [Next]_vars => NpcInv'
  <1> SUFFICES ASSUME TypeInv, NpcInv, [Next]_vars PROVE NpcInv'
    OBVIOUS
  <1>1. ASSUME NEW j \in Key, NEW talk \in Talk, TalkRequest(j, talk) PROVE NpcInv'
    <2>1. \E state \in {"pending", "failed"} : Insert(j, talk, state)
      BY <1>1 DEF TalkRequest, Admit, AdmitRefused, AdmitRefusedUnrecorded, WorkerCapacity
    <2> QED BY <2>1, InsertNpc
  <1>2. ASSUME npcOf' = npcOf, \A k \in Key : Moves(k) \/ Commits(k) PROVE NpcInv'
    BY <1>2, TalkStays DEF NpcInv, ConversationOf
  <1>3. CASE Answer
    BY <1>2, <1>3, AnswerMoves DEF Answer
  <1>4. CASE CollectFails
    BY <1>2, <1>4, AnswerMoves DEF CollectFails
  <1>5. ASSUME NEW k \in Key, Cancel(k) \/ Ack(k) \/ AckFails(k) PROVE NpcInv'
    <2>1. npcOf' = npcOf
      BY <1>5 DEF Cancel, Ack, AckFails
    <2>2. \A j \in Key : Moves(j) \/ Commits(j)
      BY <1>5, CancelMoves, AckMoves, AnswerMoves DEF AckFails
    <2> QED BY <1>2, <2>1, <2>2
  <1>6. CASE \E w \in Worker : StoreSettles(w) \/ StoreDrops(w)
    BY <1>2, <1>6 DEF StoreSettles, StoreDrops, durable, Moves
  <1>7. CASE Restart
    BY <1>2, <1>7 DEF Restart, Moves, GivesUp, TypeInv, TypeOK
  <1>8. CASE UNCHANGED vars
    BY <1>2, <1>8 DEF vars, Moves
  <1> QED BY <1>1, <1>3, <1>4, <1>5, <1>6, <1>7, <1>8 DEF Next

\* The history is written in pairs: the player's message at an odd id, the
\* npc's to the same attempt at the next.
PairInv ==
    /\ Len(messages) % 2 = 0
    /\ \A i \in 1 .. Len(messages) :
          /\ attempts[messages[i].attempt] # None
          /\ i % 2 = 1 => /\ messages[i].role = "player" /\ messages[i + 1].role = "npc"
                          /\ messages[i + 1].attempt = messages[i].attempt

\* A message is of an attempt.
LEMMA MessageKey == ASSUME TypeInv, NEW i \in 1 .. Len(messages) PROVE messages[i].attempt \in Key
  <1>1. messages[i] \in Row
    BY ElementOfSeq DEF TypeInv, TypeOK
  <1> QED BY <1>1 DEF Row

\* What is there stays.
LEMMA PairsStay ==
    ASSUME TypeInv, PairInv, \A k \in Key : attempts[k] # None => attempts'[k] # None,
           messages' = messages
    PROVE  PairInv'
  BY MessageKey DEF PairInv

\* What is added is a pair.
LEMMA PairsGrow ==
    ASSUME TypeInv, PairInv, \A k \in Key : attempts[k] # None => attempts'[k] # None,
           NEW k \in Key, attempts[k] # None, messages' = messages \o Exchange(k)
    PROVE  PairInv'
  <1> DEFINE n == Len(messages)
  <1>1. /\ Len(messages') = n + 2 /\ n \in Nat
        /\ \A i \in 1 .. n : messages'[i] = messages[i]
        /\ messages'[n + 1] = Exchange(k)[1] /\ messages'[n + 2] = Exchange(k)[2]
    BY ExchangeAppended
  <1>2. /\ Exchange(k)[1].role = "player" /\ Exchange(k)[2].role = "npc"
        /\ Exchange(k)[1].attempt = k /\ Exchange(k)[2].attempt = k
    BY DEF Exchange
  <1>3. \A i \in 1 .. n : messages[i].attempt \in Key
    BY MessageKey
  <1>4. n % 2 = 0
    BY DEF PairInv
  <1> HIDE DEF n
  <1>5. Len(messages') % 2 = 0
    BY <1>1, <1>4
  <1>6. ASSUME NEW i \in 1 .. n + 2 PROVE attempts'[messages'[i].attempt] # None
    <2>1. CASE i <= n
      <3>1. messages'[i] = messages[i] /\ i \in 1 .. n
        BY <1>1, <2>1
      <3> QED BY <1>3, <3>1 DEF PairInv, n
    <2>2. CASE i = n + 1 \/ i = n + 2
      BY <1>1, <1>2, <2>2
    <2> QED BY <1>1, <2>1, <2>2
  <1>7. ASSUME NEW i \in 1 .. n + 2, i % 2 = 1
        PROVE  /\ messages'[i].role = "player" /\ messages'[i + 1].role = "npc"
               /\ messages'[i + 1].attempt = messages'[i].attempt
    <2>1. i < n \/ i = n + 1
      <3>1. (n + 2) % 2 = 0 /\ i # n + 2 /\ i # n
        BY <1>1, <1>4, <1>7
      <3> QED BY <1>1, <3>1
    <2>2. CASE i < n
      <3>1. n \in Nat
        BY <1>1
      <3>2. i \in 1 .. n /\ i + 1 \in 1 .. n
        BY <3>1, <2>2
      <3>3. \A j \in 1 .. n : messages'[j] = messages[j]
        BY <1>1
      <3>4. /\ i \in 1 .. n /\ i + 1 \in 1 .. n
            /\ messages'[i] = messages[i] /\ messages'[i + 1] = messages[i + 1]
        BY <3>2, <3>3
      <3> QED BY <1>7, <3>4 DEF PairInv, n
    <2>3. CASE i = n + 1
      <3>1. i + 1 = n + 2
        BY <1>1, <2>3
      <3> QED BY <1>1, <1>2, <2>3, <3>1
    <2> QED BY <2>1, <2>2, <2>3
  <1> QED BY <1>1, <1>5, <1>6, <1>7 DEF PairInv

\* Every step keeps the history in pairs.
LEMMA PairStep == TypeInv /\ PairInv /\ [Next]_vars => PairInv'
  <1> SUFFICES ASSUME TypeInv, PairInv, [Next]_vars PROVE PairInv'
    OBVIOUS
  <1>1. \A k \in Key : attempts[k] # None => attempts'[k] # None
    BY AnyMove, TalkStays, BeginsState
  <1>2. CASE NoneBegins
    BY <1>1, <1>2, PairsStay DEF NoneBegins
  <1>3. CASE OneBegins
    BY <1>1, <1>3, PairsStay DEF OneBegins
  <1>4. CASE OneCommits
    <2>1. PICK k \in Key : Commits(k) /\ messages' = messages \o Exchange(k)
      BY <1>4 DEF OneCommits
    <2> QED BY <1>1, <2>1, CommitsState, PairsGrow
  <1> QED BY <1>2, <1>3, <1>4, StepMoves

\* A set of ids with both messages of every pair is even.
LEMMA EvenCount ==
    ASSUME NEW n \in Nat, NEW T \in SUBSET (1 .. n),
           \A i \in T : /\ i % 2 = 1 => i + 1 \in T
                        /\ i % 2 = 0 => i - 1 \in T
    PROVE  IsFiniteSet(T) /\ Cardinality(T) \in Nat /\ Cardinality(T) % 2 = 0
  <1> DEFINE odd  == {i \in T : i % 2 = 1}
             even == {i \in T : i % 2 = 0}
             f    == [i \in odd |-> i + 1]
  <1>1. IsFiniteSet(T) /\ IsFiniteSet(odd) /\ IsFiniteSet(even)
    <2>1. IsFiniteSet(1 .. n)
      BY FS_Interval
    <2> QED BY <2>1, FS_Subset
  <1>2. T = odd \cup even /\ odd \cap even = {}
    <2>1. \A i \in T : (i \in odd \/ i \in even) /\ ~(i \in odd /\ i \in even)
      OBVIOUS
    <2>2. odd \subseteq T /\ even \subseteq T
      OBVIOUS
    <2> HIDE DEF odd, even
    <2> QED BY <2>1, <2>2
  <1>3. f \in Bijection(odd, even)
    <2>1. \A i \in odd : i + 1 \in even
      OBVIOUS
    <2>2. \A j \in even : j - 1 \in odd /\ f[j - 1] = j
      OBVIOUS
    <2>3. \A i, j \in odd : f[i] = f[j] => i = j
      OBVIOUS
    <2>4. f \in [odd -> even] /\ \A j \in even : \E i \in odd : f[i] = j
      BY <2>1, <2>2
    <2> QED BY <2>3, <2>4 DEF Bijection, Injection, Surjection, IsInjective
  <1> HIDE DEF odd, even, f
  <1>4. Cardinality(even) = Cardinality(odd)
    BY <1>1, <1>3, FS_Bijection DEF ExistsBijection
  <1>5. Cardinality(T) = Cardinality(odd) + Cardinality(even)
    <2>1. Cardinality(odd \cap even) = 0 /\ Cardinality(odd) \in Nat /\ Cardinality(even) \in Nat
      BY <1>1, <1>2, FS_EmptySet, FS_CardinalityType
    <2>2. Cardinality(odd \cup even)
             = Cardinality(odd) + Cardinality(even) - Cardinality(odd \cap even)
      BY <1>1, FS_Union
    <2> QED BY <1>2, <2>1, <2>2
  <1>6. Cardinality(odd) \in Nat
    BY <1>1, FS_CardinalityType
  <1> QED BY <1>1, <1>4, <1>5, <1>6

\* The selection is of whole pairs: the limit, an even number, cuts none in two,
\* and every message is from a talk with the npc.
LEMMA WholeExchanges == TypeInv /\ NpcInv /\ PairInv => RecallIsWholeExchanges
  <1> SUFFICES ASSUME TypeInv, NpcInv, PairInv, NEW branch \in Branch, NEW npc \in Npc,
                      NEW i \in Recalled(branch, npc)
               PROVE  /\ attempts[messages[i].attempt].talk.npc = npc
                      /\ \E first \in {i - 1, i} :
                            /\ first \in Recalled(branch, npc)
                            /\ first + 1 \in Recalled(branch, npc)
                            /\ messages[first].role = "player"
                            /\ messages[first + 1].role = "npc"
                            /\ messages[first].attempt = messages[first + 1].attempt
    BY DEF RecallIsWholeExchanges
  <1> DEFINE theirs == Theirs(branch, npc)
             n      == Len(messages)
             Behind(j) == {l \in theirs : l > j}
  <1>1. n \in Nat /\ theirs \subseteq 1 .. n /\ n % 2 = 0
    <2>1. n \in Nat
      BY DEF TypeInv, TypeOK
    <2>2. n % 2 = 0
      BY DEF PairInv
    <2>3. theirs \subseteq 1 .. n
      BY DEF TypeInv, TypeOK, Theirs
    <2> QED BY <2>1, <2>2, <2>3
  <1>2. ASSUME NEW j \in 1 .. n, j % 2 = 1
        PROVE  /\ j + 1 \in 1 .. n
               /\ messages[j].role = "player" /\ messages[j + 1].role = "npc"
               /\ messages[j + 1].attempt = messages[j].attempt
               /\ j \in theirs <=> j + 1 \in theirs
    <2>1. j + 1 \in 1 .. n
      BY <1>1, <1>2
    <2> QED BY <1>2, <2>1 DEF PairInv, Theirs, TypeInv, TypeOK
  <1>3. ASSUME NEW j \in 1 .. n, j % 2 = 0
        PROVE  j - 1 \in 1 .. n /\ (j - 1) % 2 = 1 /\ (j - 1) + 1 = j
    BY <1>1, <1>3
  <1>4. /\ i \in theirs /\ i \in 1 .. n
        /\ Cardinality(Behind(i)) < RecallRows
        /\ \A j \in theirs : Cardinality(Behind(j)) < RecallRows => j \in Recalled(branch, npc)
    BY <1>1 DEF Recalled
  <1>5. attempts[messages[i].attempt].talk.npc = npc
    BY <1>4, MessageKey DEF Theirs, NpcInv, PairInv
  <1> HIDE DEF theirs, n
  <1>6. ASSUME NEW j \in 1 .. n
        PROVE  IsFiniteSet(Behind(j)) /\ Cardinality(Behind(j)) \in Nat
    <2>1. 1 \in Int /\ n \in Int
      BY <1>1
    <2>0. IsFiniteSet(1 .. n)
      BY <2>1, FS_Interval
    <2>2. Behind(j) \subseteq 1 .. n
      BY <1>1
    <2> HIDE DEF Behind
    <2> QED BY <2>0, <2>2, FS_Subset, FS_CardinalityType
  <1>7. CASE i % 2 = 1
    <2>1. i + 1 \in 1 .. n /\ i + 1 \in theirs
      BY <1>2, <1>4, <1>7
    <2>2. Behind(i + 1) \subseteq Behind(i)
      <3>1. \A l \in theirs : l > i + 1 => l > i
        BY <1>1, <1>4
      <3> QED BY <3>1
    <2> HIDE DEF Behind
    <2>3. Cardinality(Behind(i + 1)) <= Cardinality(Behind(i))
      BY <1>4, <1>6, <2>2, FS_Subset
    <2>4. Cardinality(Behind(i + 1)) < RecallRows
      BY <1>4, <1>6, <2>1, <2>3, RecallAssumption
    <2>5. i + 1 \in Recalled(branch, npc)
      BY <1>4, <2>1, <2>4
    <2> QED BY <1>2, <1>4, <1>5, <1>7, <2>5
  <1>8. CASE i % 2 = 0
    <2> DEFINE first == i - 1
    <2>1. first \in 1 .. n /\ first % 2 = 1 /\ first + 1 = i /\ first \in theirs
      BY <1>2, <1>3, <1>4, <1>8
    <2>2. Behind(first) = Behind(i) \cup {i} /\ i \notin Behind(i)
      <3>1. \A l \in theirs : (l > first <=> l > i \/ l = i) /\ ~(i > i)
        BY <1>1, <1>4
      <3> HIDE DEF first
      <3> QED BY <1>4, <3>1
    <2>3. Cardinality(Behind(first)) = Cardinality(Behind(i)) + 1
      <3> HIDE DEF Behind
      <3> QED BY <1>4, <1>6, <2>2, FS_AddElement
    <2>4. Cardinality(Behind(i)) % 2 = 0
      <3>1. ASSUME NEW j \in Behind(i)
            PROVE  /\ j % 2 = 1 => j + 1 \in Behind(i)
                   /\ j % 2 = 0 => j - 1 \in Behind(i)
        <4>1. j \in 1 .. n /\ j \in theirs /\ j > i /\ i \in Nat
          BY <1>1, <1>4, <3>1
        <4>2. CASE j % 2 = 1
          BY <1>2, <4>1, <4>2
        <4>3. CASE j % 2 = 0
          <5>1. j - 1 \in theirs
            BY <1>2, <1>3, <4>1, <4>3
          <5>2. j - 1 # i
            BY <1>8, <4>1, <4>3
          <5> QED BY <4>1, <4>3, <5>1, <5>2
        <4> QED BY <4>1, <4>2, <4>3
      <3>2. Behind(i) \subseteq 1 .. n
        BY <1>1
      <3> HIDE DEF Behind
      <3> QED BY <1>1, <3>1, <3>2, EvenCount
    <2>5. Cardinality(Behind(i)) + 1 < RecallRows
      BY <1>4, <1>6, <2>4, RecallAssumption
    <2>6. first \in Recalled(branch, npc)
      BY <1>4, <2>1, <2>3, <2>5
    <2>7. first \in {i - 1, i}
      OBVIOUS
    <2> HIDE DEF first
    <2> QED BY <1>2, <1>4, <1>5, <2>1, <2>6, <2>7
  <1> QED BY <1>1, <1>4, <1>7, <1>8

\* "Last six completed exchanges" is what a prompt gets, of its own npc: no half
\* exchange, nothing between its two sides, and nothing said to another npc.
THEOREM RecallsWholeExchanges == Spec => []RecallIsWholeExchanges
  <1>1. Init => NpcInv /\ PairInv
    BY DEF Init, NpcInv, PairInv
  <1> QED BY <1>1, InitTypeInv, TypeInvStep, NpcStep, PairStep, WholeExchanges, PTL DEF Spec

===============================================================================
