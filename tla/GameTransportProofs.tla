-------------------------- MODULE GameTransportProofs --------------------------
(***************************************************************************)
(* Proofs about GameTransport, for every value of its constants: any       *)
(* faults, any number of windows, of abandoned requests and of requests in *)
(* flight, with and without savegames, unless a theorem says otherwise.    *)
(***************************************************************************)
EXTENDS GameTransport, FiniteSetTheorems, TLAPS

-----------------------------------------------------------------------------
(* Fresh numbers                                                            *)

\* Some of the first n + 1 numbers is not among n numbers.
LEMMA FreshIsNew ==
    ASSUME NEW used, IsFiniteSet(used)
    PROVE  Fresh(used) \in Nat \ {0} /\ Fresh(used) \notin used
  <1> DEFINE n == Cardinality(used)
  <1>1. n \in Nat
    BY FS_CardinalityType
  <1>2. \E i \in 1 .. n + 1 : i \notin used
    <2> SUFFICES ASSUME \A i \in 1 .. n + 1 : i \in used PROVE FALSE
      OBVIOUS
    <2>1. 1 .. n + 1 \in SUBSET used
      OBVIOUS
    <2>2. Cardinality(1 .. n + 1) <= Cardinality(used)
      BY <2>1, FS_Subset
    <2>3. Cardinality(1 .. n + 1) = n + 1
      <3>1. n + 1 \in Int /\ 1 <= n + 1 /\ 1 \in Int
        BY <1>1
      <3>2. Cardinality(1 .. n + 1) = IF 1 > n + 1 THEN 0 ELSE (n + 1) - 1 + 1
        BY <3>1, FS_Interval
      <3> QED BY <1>1, <3>1, <3>2
    <2> QED BY <1>1, <2>2, <2>3
  <1>3. Fresh(used) \in 1 .. n + 1 /\ Fresh(used) \notin used
    BY <1>2 DEF Fresh
  <1> QED BY <1>1, <1>3

Flight == [rid : Rid, op : Ops, job : Rid, mixed : BOOLEAN]

\* A conversation has a job as soon as it is begun.
BegunHasJob == conv.state # "IDLE" => conv.job # 0

TypeInv == TypeOK /\ IsFiniteSet(inflight) /\ BegunHasJob

\* The numbers in use are finitely many.
LEMMA InUseIsFinite ==
    ASSUME TypeInv
    PROVE  IsFiniteSet(RidsInUse) /\ IsFiniteSet(JobsInUse)
  <1> DEFINE rids == {r.rid : r \in inflight}
             jobs == {r.job : r \in inflight}
             kept == {t.job : t \in {q \in {tx, saved.tx} : q.rid # 0}}
  <1>1. IsFiniteSet(inflight)
    BY DEF TypeInv
  <1>2. IsFiniteSet(rids)
    <2>1. [r \in inflight |-> r.rid] \in Surjection(inflight, rids)
      BY DEF Surjection
    <2> QED BY <1>1, <2>1, FS_Surjection
  <1>3. IsFiniteSet(jobs)
    <2>1. [r \in inflight |-> r.job] \in Surjection(inflight, jobs)
      BY DEF Surjection
    <2> QED BY <1>1, <2>1, FS_Surjection
  <1>4. IsFiniteSet({tx.rid, saved.tx.rid})
    <2>1. IsFiniteSet({tx.rid}) /\ {tx.rid, saved.tx.rid} = {tx.rid} \cup {saved.tx.rid}
      BY FS_Singleton
    <2> QED BY <2>1, FS_AddElement
  <1>5. IsFiniteSet({conv.job, owed.cancel, owed.ack, log})
    <2>1. IsFiniteSet({conv.job})
      BY FS_Singleton
    <2>2. IsFiniteSet({conv.job} \cup {owed.cancel})
      BY <2>1, FS_AddElement
    <2>3. IsFiniteSet({conv.job} \cup {owed.cancel} \cup {owed.ack})
      BY <2>2, FS_AddElement
    <2>4. IsFiniteSet({conv.job} \cup {owed.cancel} \cup {owed.ack} \cup {log})
      BY <2>3, FS_AddElement
    <2>5. {conv.job, owed.cancel, owed.ack, log}
             = {conv.job} \cup {owed.cancel} \cup {owed.ack} \cup {log}
      OBVIOUS
    <2> QED BY <2>4, <2>5
  <1>6. IsFiniteSet(kept)
    <2>1. IsFiniteSet({tx.job}) /\ {tx.job, saved.tx.job} = {tx.job} \cup {saved.tx.job}
      BY FS_Singleton
    <2>2. IsFiniteSet({tx.job, saved.tx.job})
      BY <2>1, FS_AddElement
    <2>3. kept \in SUBSET {tx.job, saved.tx.job}
      OBVIOUS
    <2> QED BY <2>2, <2>3, FS_Subset
  <1>7. IsFiniteSet(RidsInUse)
    BY <1>2, <1>4, FS_Union DEF RidsInUse
  <1>8. IsFiniteSet(JobsInUse)
    <2>1. IsFiniteSet(jobs \cup {conv.job, owed.cancel, owed.ack, log})
      BY <1>3, <1>5, FS_Union
    <2>2. IsFiniteSet(jobs \cup {conv.job, owed.cancel, owed.ack, log} \cup kept)
      BY <1>6, <2>1, FS_Union
    <2> QED BY <2>2 DEF JobsInUse
  <1> QED BY <1>7, <1>8

-----------------------------------------------------------------------------
(* The wire: the outstanding request and the requests in flight             *)

\* What is sent: a request with a number that nothing in flight has.
LEMMA TransmitType ==
    ASSUME TypeInv, NEW op \in Ops, NEW job \in Rid, Transmit(op, job)
    PROVE  /\ tx' \in TxType /\ inflight' \subseteq Flight /\ IsFiniteSet(inflight')
           /\ tx'.rid \in Rid /\ tx'.rid \notin RidsInUse
           /\ tx'.op = op /\ tx'.job = job /\ tx'.inst = win.inst
  <1>1. PICK rid \in {Fresh(RidsInUse)} :
           /\ tx' = [rid |-> rid, op |-> op, job |-> job, since |-> 0, inst |-> win.inst]
           /\ inflight' = Launched([rid |-> rid, op |-> op, job |-> job, mixed |-> FALSE])
    BY DEF Transmit
  <1>2. rid \in Rid /\ rid \notin RidsInUse
    BY <1>1, FreshIsNew, InUseIsFinite DEF Rid
  <1>3. tx' \in TxType
    BY <1>1, <1>2 DEF TxType, Rid, TypeInv, TypeOK, WinType
  <1> DEFINE r == [rid |-> rid, op |-> op, job |-> job, mixed |-> FALSE]
             all == inflight \cup {r}
             mixed == {[q EXCEPT !.mixed = TRUE] : q \in all}
  <1>4. r \in Flight
    BY <1>2 DEF Flight
  <1>5. all \subseteq Flight /\ IsFiniteSet(all)
    BY <1>4, FS_AddElement DEF TypeInv, TypeOK, Flight
  <1>6. mixed \subseteq Flight
    BY <1>5 DEF Flight
  <1>7. IsFiniteSet(mixed)
    <2>1. [q \in all |-> [q EXCEPT !.mixed = TRUE]] \in Surjection(all, mixed)
      BY DEF Surjection
    <2> QED BY <1>5, <2>1, FS_Surjection
  <1>8. IsFiniteSet({r})
    BY FS_Singleton
  <1>9. inflight' \in {{r}, mixed}
    BY <1>1 DEF Launched
  <1> QED BY <1>1, <1>2, <1>3, <1>4, <1>6, <1>7, <1>8, <1>9

\* What is in flight after sending: what was, and the new request.
LEMMA TransmitFlight ==
    ASSUME TypeInv, NEW op \in Ops, NEW job \in Rid, Transmit(op, job)
    PROVE  /\ \A q \in inflight' :
                 \/ q.rid = tx'.rid /\ q.job = tx'.job
                 \/ \E p \in inflight : q.rid = p.rid /\ q.job = p.job
           /\ \E q \in inflight' : q.rid = tx'.rid
           /\ Cardinality(inflight') <= Cardinality(inflight) + 1
  <1>1. PICK rid \in {Fresh(RidsInUse)} :
           /\ tx' = [rid |-> rid, op |-> op, job |-> job, since |-> 0, inst |-> win.inst]
           /\ inflight' = Launched([rid |-> rid, op |-> op, job |-> job, mixed |-> FALSE])
    BY DEF Transmit
  <1> DEFINE r == [rid |-> rid, op |-> op, job |-> job, mixed |-> FALSE]
  <1>2. rid \in Rid
    BY <1>1, FreshIsNew, InUseIsFinite DEF Rid
  <1>3. r \in Flight /\ r.rid = tx'.rid /\ r.job = tx'.job
    BY <1>1, <1>2 DEF Flight
  <1> HIDE DEF r
  <1>4. CASE inflight = {}
    <2>1. inflight' = {r}
      BY <1>1, <1>4 DEF Launched, r
    <2>2. Cardinality(inflight') = 1 /\ Cardinality(inflight) = 0
      BY <1>4, <2>1, FS_Singleton, FS_EmptySet
    <2> QED BY <1>3, <2>1, <2>2
  <1>5. CASE inflight # {}
    <2>1. inflight' = {[q EXCEPT !.mixed = TRUE] : q \in inflight \cup {r}}
      BY <1>1, <1>5 DEF Launched, r
    <2>2. \A p \in inflight \cup {r} : /\ [p EXCEPT !.mixed = TRUE].rid = p.rid
                                       /\ [p EXCEPT !.mixed = TRUE].job = p.job
      BY <1>3 DEF TypeInv, TypeOK, Flight
    <2>3. \A q \in inflight' : \E p \in inflight \cup {r} : q.rid = p.rid /\ q.job = p.job
      BY <2>1, <2>2
    <2>4. [r EXCEPT !.mixed = TRUE] \in inflight'
      BY <2>1
    <2>5. Cardinality(inflight') <= Cardinality(inflight) + 1
      <3> DEFINE all == inflight \cup {r}
      <3>0. IsFiniteSet(inflight) /\ Cardinality(inflight) \in Nat
        BY FS_CardinalityType DEF TypeInv
      <3>1. IsFiniteSet(all) /\ Cardinality(all) <= Cardinality(inflight) + 1
        BY <3>0, FS_AddElement
      <3>2. [q \in all |-> [q EXCEPT !.mixed = TRUE]] \in Surjection(all, inflight')
        BY <2>1 DEF Surjection
      <3>3. IsFiniteSet(inflight') /\ Cardinality(inflight') <= Cardinality(all)
        BY <3>1, <3>2, FS_Surjection
      <3>4. /\ Cardinality(all) \in Nat /\ Cardinality(inflight') \in Nat
            /\ Cardinality(inflight) \in Nat
        BY <3>1, <3>3, FS_CardinalityType DEF TypeInv
      <3> QED BY <3>1, <3>3, <3>4
    <2> QED BY <1>3, <2>2, <2>3, <2>4, <2>5
  <1> QED BY <1>4, <1>5

\* A transport that is let go of is idle.
LEMMA IdleType ==
    ASSUME NEW t \in TxType
    PROVE  Idle(t) \in TxType /\ Idle(t).rid = 0
  BY DEF Idle, NoRequest, TxType, Ops

\* Each field of a frame.
LEMMA FrameType ==
    ASSUME TypeInv, NEW r \in inflight, NEW f \in Frames(r)
    PROVE  f.wf \in BOOLEAN /\ f.rid \in Nat /\ f.job \in Nat
  <1>1. r.rid \in Nat /\ r.job \in Nat
    BY DEF TypeInv, TypeOK, Rid
  <1>2. Fresh(RidsInUse) \in Nat
    BY FreshIsNew, InUseIsFinite
  <1>3. CASE f \in Answers(r.rid, r.job)
    BY <1>1, <1>3 DEF Answers
  <1>4. CASE f = NoAnswer
    BY <1>4 DEF NoAnswer
  <1>5. CASE f \in Answers(Fresh(RidsInUse), r.job)
    BY <1>1, <1>2, <1>5 DEF Answers
  <1>6. ASSUME NEW q \in inflight, f \in Answers(q.rid, q.job)
        PROVE  f.rid \in Nat /\ f.job \in Nat /\ f.wf \in BOOLEAN
    BY <1>6 DEF Answers, TypeInv, TypeOK, Rid
  <1>7. \/ f \in Answers(r.rid, r.job) \/ f = NoAnswer
        \/ f \in Answers(Fresh(RidsInUse), r.job)
        \/ \E q \in inflight : f \in Answers(q.rid, q.job)
    BY DEF Frames
  <1> QED BY <1>3, <1>4, <1>5, <1>6, <1>7

-----------------------------------------------------------------------------
(* Type correctness                                                         *)

\* The types hold at the start.
LEMMA InitTypeInv == Init => TypeInv
  BY FS_EmptySet DEF Init, TypeInv, TypeOK, BegunHasJob, NoRequest, NoTalk, NoneOwed, NoWindow,
     TxType, ConvType, OwedType, WinType, Ops

\* A begun conversation has a number that can be sent.
LEMMA BegunJob ==
    ASSUME TypeInv, conv.state # "IDLE"
    PROVE  conv.job \in Rid
  BY DEF TypeInv, TypeOK, BegunHasJob, ConvType, Rid

\* A conversation of which fields are set.
LEMMA ConvIs ==
    ASSUME TypeInv, NEW state \in {"IDLE", "SUBMITTING", "PENDING"} \cup Terminal,
           NEW job \in Nat, NEW waited \in Nat, NEW new \in BOOLEAN, NEW text \in Nat
    PROVE  [conv EXCEPT !.state = state, !.job = job, !.waited = waited, !.new = new,
                        !.text = text] \in ConvType
  BY DEF TypeInv, TypeOK, ConvType

\* Say begins a conversation under a new number.
LEMMA SayJobType ==
    ASSUME TypeInv, NEW job \in Rid, SayJob(job)
    PROVE  TypeInv'
  <1>1. conv' \in ConvType /\ conv'.job # 0
    BY DEF SayJob, TypeInv, TypeOK, ConvType, Rid
  <1>2. tx' \in TxType /\ inflight' \subseteq Flight /\ IsFiniteSet(inflight')
    BY TransmitType DEF SayJob, TxSend, Ops
  <1> QED BY <1>1, <1>2 DEF SayJob, TypeInv, TypeOK, BegunHasJob, Flight

\* What the run trigger sends is a request, and what it leaves alone is typed.
LEMMA SendsType ==
    ASSUME TypeInv, NEW ack \in Nat, NEW since \in Int, NEW waited \in Nat,
           Sends(ack, since, waited)
    PROVE  /\ tx' \in TxType /\ inflight' \subseteq Flight /\ IsFiniteSet(inflight')
           /\ owed' \in OwedType
  <1>1. CASE SendsCancel /\ Transmit("CANCEL", owed.cancel)
             /\ owed' = [cancel |-> 0, ack |-> ack]
    <2>1. owed.cancel \in Rid
      BY <1>1 DEF SendsCancel, TypeInv, TypeOK, OwedType, Rid
    <2> QED BY <1>1, <2>1, TransmitType DEF Ops, OwedType
  <1>2. CASE SendsAck(ack, since) /\ Transmit("ACK", ack) /\ owed' = [owed EXCEPT !.ack = ack]
    <2>1. ack \in Rid
      BY <1>2 DEF SendsAck, Rid
    <2>2. owed' \in OwedType
      BY <1>2 DEF OwedType, TypeInv, TypeOK
    <2> QED BY <1>2, <2>1, <2>2, TransmitType DEF Ops
  <1>3. CASE SendsPoll(ack, since, waited) /\ Transmit("RESULT", conv.job)
             /\ owed' = [owed EXCEPT !.ack = ack]
    <2>1. conv.job \in Rid
      BY <1>3, BegunJob DEF SendsPoll
    <2>2. owed' \in OwedType
      BY <1>3 DEF OwedType, TypeInv, TypeOK
    <2> QED BY <1>3, <2>1, <2>2, TransmitType DEF Ops
  <1>4. CASE tx' = [tx EXCEPT !.since = since] /\ owed' = [owed EXCEPT !.ack = ack]
             /\ UNCHANGED inflight
    BY <1>4 DEF TypeInv, TypeOK, TxType, OwedType, Flight
  <1> QED BY <1>1, <1>2, <1>3, <1>4 DEF Sends

\* What the run trigger computes of the conversation.
Waits(passed) == IF Waiting THEN Least(conv.waited + passed, GiveUpMs) ELSE 0

\* The trigger changes of a conversation only that it gives up.
LEMMA RunConv ==
    ASSUME TypeInv, NEW passed \in {0, 1}, Run(passed)
    PROVE  /\ Waits(passed) \in Nat
           /\ conv' \in ConvType
           /\ conv'.job = conv.job
           /\ conv'.state = IF GivesUp(Waits(passed)) THEN "FAILED" ELSE conv.state
           /\ conv'.text = IF GivesUp(Waits(passed)) THEN 0 ELSE conv.text
           /\ conv'.new = GivesUp(Waits(passed))
           /\ Sends(OwedAck, Least(tx.since + passed, PollMs), Waits(passed))
  <1>1. Waits(passed) \in Nat
    BY TimesAssumption DEF Waits, Least, TypeInv, TypeOK, ConvType
  <1>2. /\ conv' = [conv EXCEPT !.waited = Waits(passed),
                       !.state = IF GivesUp(Waits(passed)) THEN "FAILED" ELSE @,
                       !.text  = IF GivesUp(Waits(passed)) THEN 0 ELSE @,
                       !.new   = GivesUp(Waits(passed))]
        /\ Sends(OwedAck, Least(tx.since + passed, PollMs), Waits(passed))
    BY DEF Run, Waits
  <1>3. GivesUp(Waits(passed)) \in BOOLEAN
    BY DEF GivesUp, Waiting
  <1> DEFINE gives == GivesUp(Waits(passed))
             state == IF gives THEN "FAILED" ELSE conv.state
             text  == IF gives THEN 0 ELSE conv.text
             waits == Waits(passed)
  <1>4. conv' = [conv EXCEPT !.waited = waits, !.state = state, !.text = text, !.new = gives]
    BY <1>2
  <1>5. state \in {"IDLE", "SUBMITTING", "PENDING"} \cup Terminal /\ text \in Nat
    BY DEF TypeInv, TypeOK, ConvType, Terminal
  <1>6. waits \in Nat /\ gives \in BOOLEAN
    BY <1>1, <1>3
  <1> HIDE DEF state, text, gives, waits
  <1>7. /\ conv' \in ConvType
        /\ conv'.job = conv.job /\ conv'.state = state /\ conv'.text = text
        /\ conv'.new = gives
    BY <1>4, <1>5, <1>6 DEF TypeInv, TypeOK, ConvType
  <1> QED BY <1>1, <1>2, <1>7 DEF state, text, gives

\* Every step of the trigger keeps the types.
LEMMA RunType ==
    ASSUME TypeInv, NEW passed \in {0, 1}, Run(passed)
    PROVE  TypeInv'
  <1>1. conv' \in ConvType /\ BegunHasJob'
    BY RunConv DEF BegunHasJob, GivesUp, Waiting, TypeInv
  <1>2. OwedAck \in Nat
    BY DEF OwedAck, TypeInv, TypeOK, ConvType, OwedType
  <1>3. Least(tx.since + passed, PollMs) \in Int
    BY TimesAssumption DEF Least, TypeInv, TypeOK, TxType
  <1>4. /\ tx' \in TxType /\ inflight' \subseteq Flight /\ IsFiniteSet(inflight')
        /\ owed' \in OwedType
    BY <1>2, <1>3, RunConv, SendsType
  <1>5. win' \in WinType
    BY TimesAssumption DEF Run, Least, TypeInv, TypeOK, WinType
  <1>6. log' \in Nat
    BY DEF Run, TypeInv, TypeOK, ConvType
  <1> QED BY <1>1, <1>4, <1>5, <1>6 DEF Run, TypeInv, TypeOK, Flight

\* A conversation that ends, with a reply or for a reason.
Ending(state, text) == [conv EXCEPT !.state = state, !.new = TRUE, !.text = text]

\* What stays and what changes of it.
LEMMA EndingIs ==
    ASSUME TypeInv, NEW state \in Terminal, NEW text \in Nat
    PROVE  /\ Ending(state, text) \in ConvType
           /\ Ending(state, text).job = conv.job
           /\ Ending(state, text).state = state
           /\ Ending(state, text).text = text
  BY DEF Ending, TypeInv, TypeOK, ConvType, Terminal

\* What an answer makes of the conversation that takes it.
LEMMA TakenIs ==
    ASSUME TypeInv, NEW f, f.job \in Nat
    PROVE  /\ Taken(f) \in ConvType
           /\ Taken(f).job = conv.job
           /\ Taken(f).state \in {"PENDING"} \cup Terminal
           /\ Taken(f).state = "READY" => Taken(f).text = f.job
  <1>1. conv \in ConvType
    BY DEF TypeInv, TypeOK
  <1>2. CASE f.code = "READY"
    <2>1. Taken(f) = Ending("READY", f.job)
      BY <1>2 DEF Taken, Ending
    <2>2. "READY" \in Terminal
      BY DEF Terminal
    <2>3. /\ Taken(f) \in ConvType /\ Taken(f).job = conv.job
          /\ Taken(f).state = "READY" /\ Taken(f).text = f.job
      BY <2>1, <2>2, EndingIs
    <2> QED BY <2>2, <2>3
  <1>3. CASE f.code = "PENDING"
    <2>1. Taken(f) = [conv EXCEPT !.state = "PENDING"]
      BY <1>3 DEF Taken
    <2> QED BY <1>1, <2>1 DEF ConvType, Terminal
  <1>4. CASE f.code = "CANCELED"
    <2>1. Taken(f) = Ending("CANCELED", 0)
      BY <1>4 DEF Taken, Ending
    <2>2. "CANCELED" \in Terminal
      BY DEF Terminal
    <2>3. /\ Taken(f) \in ConvType /\ Taken(f).job = conv.job
          /\ Taken(f).state = "CANCELED" /\ Taken(f).text = 0
      BY <2>1, <2>2, EndingIs
    <2> QED BY <2>2, <2>3
  <1>5. CASE f.code \notin {"READY", "PENDING", "CANCELED"}
    <2>1. Taken(f) = Ending("FAILED", 0)
      BY <1>5 DEF Taken, Ending
    <2>2. "FAILED" \in Terminal
      BY DEF Terminal
    <2>3. /\ Taken(f) \in ConvType /\ Taken(f).job = conv.job
          /\ Taken(f).state = "FAILED" /\ Taken(f).text = 0
      BY <2>1, <2>2, EndingIs
    <2> QED BY <2>2, <2>3
  <1> QED BY <1>2, <1>3, <1>4, <1>5

\* What a callback may do: nothing but count a stray answer, or let go of the
\* transport; and the conversation that waits for it may take it.
LEMMA ReceiveIs ==
    ASSUME TypeInv, NEW r \in inflight, NEW f \in Frames(r), Receive(r, f)
    PROVE  /\ \/ tx.rid = 0 /\ tx' = tx /\ abandoned' = abandoned
              \/ abandoned > 0 /\ tx' = tx /\ abandoned' = abandoned - 1
              \/ tx.rid # 0 /\ tx' = Idle(tx) /\ abandoned' = abandoned
           /\ \/ conv' = conv /\ (tx' # tx => ~ForConversation)
              \/ ForConversation /\ Ours(f) /\ conv' = Taken(f) /\ tx' = Idle(tx)
              \/ ForConversation /\ conv' = Ending("FAILED", 0) /\ tx' = Idle(tx)
           /\ owed' = owed \/ owed' = [owed EXCEPT !.ack = 0]
           /\ inflight' = inflight \ {r}
           /\ UNCHANGED <<win, log, saved>>
  <1>1. CASE DropIdle(f)
    BY <1>1 DEF DropIdle, Receive
  <1>2. CASE DropStray(f)
    BY <1>2 DEF DropStray, Stray, Receive
  <1>3. CASE Complete(f)
    BY <1>3 DEF Complete, Ours, Receive
  <1>4. CASE Fail(f)
    BY <1>4 DEF Fail, Ending, Receive
  <1> QED BY <1>1, <1>2, <1>3, <1>4 DEF Receive

\* A callback keeps the types.
LEMMA ReceiveType ==
    ASSUME TypeInv, NEW r \in inflight, NEW f \in Frames(r), Receive(r, f)
    PROVE  TypeInv'
  <1>1. conv' \in ConvType /\ conv'.job = conv.job
        /\ (conv'.state # "IDLE" => conv.state # "IDLE")
    <2>1. f.job \in Nat
      BY FrameType
    <2>2. CASE conv' = conv
      BY <2>2 DEF TypeInv, TypeOK
    <2>3. ForConversation => conv.state # "IDLE"
      BY DEF ForConversation, Waiting
    <2>4. Taken(f) \in ConvType /\ Taken(f).job = conv.job
      BY <2>1, TakenIs
    <2>5. Ending("FAILED", 0) \in ConvType /\ Ending("FAILED", 0).job = conv.job
      BY EndingIs DEF Terminal
    <2>6. \/ conv' = conv
          \/ ForConversation /\ conv' = Taken(f)
          \/ ForConversation /\ conv' = Ending("FAILED", 0)
      BY ReceiveIs
    <2> QED BY <2>2, <2>3, <2>4, <2>5, <2>6
  <1>2. tx' \in TxType
    BY ReceiveIs, IdleType DEF TypeInv, TypeOK
  <1>3. abandoned' \in Nat
    BY ReceiveIs DEF TypeInv, TypeOK
  <1>4. owed' \in OwedType
    BY ReceiveIs DEF TypeInv, TypeOK, OwedType
  <1>5. inflight' \subseteq Flight /\ IsFiniteSet(inflight')
    BY ReceiveIs, FS_RemoveElement DEF TypeInv, TypeOK, Flight
  <1>6. BegunHasJob'
    BY <1>1 DEF TypeInv, BegunHasJob
  <1> QED BY <1>1, <1>2, <1>3, <1>4, <1>5, <1>6, ReceiveIs DEF TypeInv, TypeOK, Flight

\* What a savegame brings back has its types.
LEMMA RestoreType ==
    ASSUME TypeInv, Restore(saved)
    PROVE  /\ tx' = saved.tx /\ abandoned' = saved.abandoned /\ conv' = NoTalk
           /\ win' \in WinType /\ ~win'.open /\ win'.inst = saved.inst /\ owed' = NoneOwed
           /\ tx' \in TxType /\ abandoned' \in Nat /\ conv' \in ConvType
           /\ owed' \in OwedType /\ BegunHasJob'
  BY DEF Restore, NoTalk, NoneOwed, NoWindow, TypeInv, TypeOK, TxType, ConvType, OwedType,
     WinType, BegunHasJob

\* Closing the window sends a cancel for a conversation that has no reply.
LEMMA CloseType ==
    ASSUME TypeInv, CloseWindow
    PROVE  TypeInv' /\ win' = [win EXCEPT !.open = FALSE]
  <1>1. win' \in WinType /\ log' \in Nat /\ win' = [win EXCEPT !.open = FALSE]
    BY DEF CloseWindow, TypeInv, TypeOK, WinType
  <1>2. CASE conv.job # 0 /\ conv.state # "READY"
    <2>1. conv' = [conv EXCEPT !.state = "CANCELED"] /\ TxSend("CANCEL", conv.job)
      BY <1>2 DEF CloseWindow
    <2>2. conv' \in ConvType /\ BegunHasJob'
      BY <1>2, <2>1 DEF TypeInv, TypeOK, ConvType, Terminal, BegunHasJob
    <2>3. conv.job \in Rid
      BY <1>2 DEF TypeInv, TypeOK, ConvType, Rid
    <2>4. tx' \in TxType /\ inflight' \subseteq Flight /\ IsFiniteSet(inflight')
      BY <2>1, <2>3, TransmitType DEF TxSend, Ops, TypeInv, TypeOK, Flight
    <2> QED BY <1>1, <2>2, <2>4 DEF CloseWindow, TypeInv, TypeOK, Flight
  <1>3. CASE ~(conv.job # 0 /\ conv.state # "READY")
    <2>1. UNCHANGED <<conv, tx, inflight>>
      BY <1>3 DEF CloseWindow
    <2> QED BY <1>1, <2>1 DEF CloseWindow, TypeInv, TypeOK, BegunHasJob
  <1> QED BY <1>2, <1>3

\* Every step keeps the types.
LEMMA TypeInvStep == TypeInv /\ [Next]_vars => TypeInv'
  <1> SUFFICES ASSUME TypeInv, [Next]_vars PROVE TypeInv'
    OBVIOUS
  <1>1. CASE OpenWindow
    <2>1. PICK companion \in Companions :
             win' = [open |-> TRUE, inst |-> win.inst + 1, age |-> 0,
                     companion |-> companion, chosen |-> ~companion]
      BY <1>1 DEF OpenWindow
    <2>2. win' \in WinType
      BY <2>1, PlayerAssumption DEF TypeInv, TypeOK, WinType
    <2>3. PICK ahead \in 0 .. MaxStale : tx' = [tx EXCEPT !.since = -ahead]
      BY <1>1 DEF OpenWindow
    <2>4. tx' \in TxType
      BY <2>3, TimesAssumption DEF TypeInv, TypeOK, TxType
    <2>5. conv' \in ConvType /\ owed' \in OwedType /\ BegunHasJob'
      BY <1>1 DEF OpenWindow, NoTalk, NoneOwed, ConvType, OwedType, BegunHasJob
    <2> QED BY <1>1, <2>2, <2>4, <2>5 DEF OpenWindow, TypeInv, TypeOK
  <1>2. CASE ChooseMemory
    BY <1>2 DEF ChooseMemory, TypeInv, TypeOK, WinType, BegunHasJob
  <1>3. CASE Say
    <2>1. Fresh(JobsInUse) \in Rid
      BY FreshIsNew, InUseIsFinite DEF Rid
    <2> QED BY <1>3, <2>1, SayJobType DEF Say
  <1>4. CASE CancelTalk
    <2>1. conv' \in ConvType /\ BegunHasJob'
      BY <1>4, BegunJob
      DEF CancelTalk, Waiting, TypeInv, TypeOK, ConvType, Terminal, BegunHasJob, Rid
    <2>2. owed' \in OwedType
      BY <1>4 DEF CancelTalk, TypeInv, TypeOK, ConvType, OwedType
    <2> QED BY <1>4, <2>1, <2>2 DEF CancelTalk, TypeInv, TypeOK
  <1>5. CASE Reset
    <2>1. tx' \in TxType
      BY <1>5, IdleType DEF Reset, TypeInv, TypeOK
    <2> QED BY <1>5, <2>1 DEF Reset, TypeInv, TypeOK, BegunHasJob
  <1>6. CASE CloseWindow
    BY <1>6, CloseType
  <1>7. CASE \E passed \in {0, 1} : Run(passed)
    BY <1>7, RunType
  <1>8. CASE \E r \in inflight : Callback(r)
    BY <1>8, ReceiveType DEF Callback
  <1>9. CASE SaveGame
    <2>1. saved' \in [tx : TxType, inst : Nat, abandoned : Nat]
      <3>1. (IF tx.rid = 0 THEN NoRequest ELSE [tx EXCEPT !.since = 0]) \in TxType
        BY DEF NoRequest, TypeInv, TypeOK, TxType, Ops
      <3> QED BY <1>9, <3>1 DEF SaveGame, Globals, TypeInv, TypeOK, WinType
    <2> QED BY <1>9, <2>1 DEF SaveGame, TypeInv, TypeOK, BegunHasJob
  <1>10. CASE LoadGame
    BY <1>10, RestoreType DEF LoadGame, TypeInv, TypeOK
  <1>11. CASE RestartGame
    BY <1>11, RestoreType, FS_EmptySet DEF RestartGame, TypeInv, TypeOK
  <1>12. CASE UNCHANGED vars
    BY <1>12 DEF vars, TypeInv, TypeOK, BegunHasJob
  <1> QED BY <1>1, <1>2, <1>3, <1>4, <1>5, <1>6, <1>7, <1>8, <1>9, <1>10, <1>11, <1>12 DEF Next

\* Every component has its type in every reachable state: in particular what is
\* sent always has a job and an id.
THEOREM TypeCorrect == Spec => []TypeOK
  <1>1. TypeInv => TypeOK
    BY DEF TypeInv
  <1> QED BY <1>1, InitTypeInv, TypeInvStep, PTL DEF Spec

-----------------------------------------------------------------------------
(* The reply in the window is the one to its own talk                       *)

\* Requests that have a number in common are for the same job, in flight,
\* outstanding, or saved with the game.
OneJobPerRid ==
    /\ \A r, q \in inflight : r.rid = q.rid => r.job = q.job
    /\ \A r \in inflight : /\ r.rid = tx.rid => r.job = tx.job
                           /\ r.rid = saved.tx.rid => r.job = saved.tx.job
    /\ tx.rid # 0 /\ tx.rid = saved.tx.rid => tx.job = saved.tx.job

\* What happens to the wire: nothing, a new request, one less in flight while
\* the transport stays or is let go of, or the game is saved or loaded.
SameRequest(t, u) == t.rid = u.rid /\ (t.rid # 0 => t.job = u.job)

WireStays == /\ SameRequest(tx', tx) \/ tx'.rid = 0 \/ SameRequest(tx', saved.tx)
             /\ inflight' \subseteq inflight
             /\ \/ SameRequest(saved'.tx, saved.tx)
                \/ SameRequest(saved'.tx, tx) /\ SameRequest(tx', tx)
WireSends == /\ \E op \in Ops, job \in Rid : Transmit(op, job)
             /\ saved' = saved

\* What is sent keeps numbers apart.
LEMMA SendsApart ==
    ASSUME TypeInv, OneJobPerRid, WireSends
    PROVE  OneJobPerRid'
  <1>1. PICK op \in Ops, job \in Rid : Transmit(op, job)
    BY DEF WireSends
  <1>2. /\ tx'.rid \notin RidsInUse
        /\ \A q \in inflight' :
              \/ q.rid = tx'.rid /\ q.job = tx'.job
              \/ \E p \in inflight : q.rid = p.rid /\ q.job = p.job
    BY <1>1, TransmitType, TransmitFlight
  <1>3. tx'.rid # saved.tx.rid /\ \A p \in inflight : p.rid # tx'.rid
    BY <1>2 DEF RidsInUse
  <1>4. \A r, q \in inflight' : r.rid = q.rid => r.job = q.job
    BY <1>2, <1>3 DEF OneJobPerRid
  <1>5. \A r \in inflight' : /\ r.rid = tx'.rid => r.job = tx'.job
                             /\ r.rid = saved.tx.rid => r.job = saved.tx.job
    BY <1>2, <1>3 DEF OneJobPerRid
  <1> QED BY <1>3, <1>4, <1>5 DEF OneJobPerRid, WireSends

\* So does everything else.
LEMMA StaysApart ==
    ASSUME TypeInv, OneJobPerRid, WireStays
    PROVE  OneJobPerRid'
  <1>1. \A r \in inflight' : r \in inflight /\ r.rid # 0
    BY DEF WireStays, TypeInv, TypeOK, Rid
  <1>2. \A r \in inflight' : /\ r.rid = tx'.rid => r.job = tx'.job
                             /\ r.rid = saved'.tx.rid => r.job = saved'.tx.job
    BY <1>1 DEF OneJobPerRid, WireStays, SameRequest
  <1>3. tx'.rid # 0 /\ tx'.rid = saved'.tx.rid => tx'.job = saved'.tx.job
    BY DEF OneJobPerRid, WireStays, SameRequest
  <1> QED BY <1>1, <1>2, <1>3 DEF OneJobPerRid

\* Every step is one of the two for the wire.
LEMMA WireStep ==
    ASSUME TypeInv, [Next]_vars
    PROVE  WireStays \/ WireSends
  <1>1. CASE OpenWindow
    <2>1. PICK ahead \in 0 .. MaxStale : tx' = [tx EXCEPT !.since = -ahead]
      BY <1>1 DEF OpenWindow
    <2>2. tx'.rid = tx.rid /\ tx'.job = tx.job
      BY <2>1 DEF TypeInv, TypeOK, TxType
    <2> QED BY <1>1, <2>2 DEF OpenWindow, WireStays, SameRequest
  <1>2. CASE Say
    <2>1. Fresh(JobsInUse) \in Rid /\ SayJob(Fresh(JobsInUse))
      BY <1>2, FreshIsNew, InUseIsFinite DEF Rid, Say
    <2> QED BY <2>1 DEF SayJob, TxSend, WireSends, WireStays, SameRequest, Ops
  <1>3. CASE CloseWindow
    <2>1. CASE conv.job # 0 /\ conv.state # "READY"
      <3>1. conv.job \in Rid /\ TxSend("CANCEL", conv.job) /\ saved' = saved
        BY <1>3, <2>1 DEF CloseWindow, TypeInv, TypeOK, ConvType, Rid
      <3> QED BY <3>1 DEF TxSend, WireSends, WireStays, SameRequest, Ops
    <2>2. CASE ~(conv.job # 0 /\ conv.state # "READY")
      BY <1>3, <2>2 DEF CloseWindow, WireStays, SameRequest
    <2> QED BY <2>1, <2>2
  <1>4. ASSUME NEW passed \in {0, 1}, Run(passed) PROVE WireStays \/ WireSends
    <2>1. Sends(OwedAck, Least(tx.since + passed, PollMs), Waits(passed)) /\ saved' = saved
      BY <1>4, RunConv DEF Run
    <2>2. CASE SendsCancel /\ Transmit("CANCEL", owed.cancel)
      <3>1. owed.cancel \in Rid
        BY <2>2 DEF SendsCancel, TypeInv, TypeOK, OwedType, Rid
      <3> QED BY <2>1, <2>2, <3>1 DEF WireSends, Ops
    <2>3. CASE OwedAck # 0 /\ Transmit("ACK", OwedAck)
      <3>1. OwedAck \in Rid
        BY <2>3 DEF OwedAck, TypeInv, TypeOK, ConvType, OwedType, Rid
      <3> QED BY <2>1, <2>3, <3>1 DEF WireSends, Ops
    <2>4. CASE conv.state = "PENDING" /\ Transmit("RESULT", conv.job)
      <3>1. conv.job \in Rid
        BY <2>4, BegunJob
      <3> QED BY <2>1, <2>4, <3>1 DEF WireSends, Ops
    <2>5. CASE tx' = [tx EXCEPT !.since = Least(tx.since + passed, PollMs)]
               /\ UNCHANGED inflight
      <3>1. tx'.rid = tx.rid /\ tx'.job = tx.job
        BY <2>5 DEF TypeInv, TypeOK, TxType
      <3> QED BY <2>1, <2>5, <3>1 DEF WireStays, SameRequest
    <2> QED BY <2>1, <2>2, <2>3, <2>4, <2>5 DEF Sends, SendsAck, SendsPoll
  <1>5. ASSUME NEW r \in inflight, Callback(r) PROVE WireStays
    <2>1. PICK f \in Frames(r) : Receive(r, f)
      BY <1>5 DEF Callback
    <2>2. /\ tx' = tx \/ tx' = Idle(tx)
          /\ inflight' \subseteq inflight /\ saved' = saved
      BY <2>1, ReceiveIs
    <2>3. Idle(tx).rid = 0
      BY IdleType DEF TypeInv, TypeOK
    <2> QED BY <2>2, <2>3 DEF WireStays, SameRequest
  <1>6. CASE Reset
    <2>1. Idle(tx).rid = 0
      BY IdleType DEF TypeInv, TypeOK
    <2> QED BY <1>6, <2>1 DEF Reset, WireStays, SameRequest
  <1>7. CASE SaveGame
    <2>1. SameRequest(saved'.tx, tx)
      BY <1>7 DEF SaveGame, Globals, SameRequest, NoRequest, TypeInv, TypeOK, TxType
    <2> QED BY <1>7, <2>1 DEF SaveGame, WireStays, SameRequest
  <1>8. CASE LoadGame \/ RestartGame
    <2>1. tx' = saved.tx /\ saved' = saved /\ inflight' \subseteq inflight
      BY <1>8, RestoreType DEF LoadGame, RestartGame
    <2> QED BY <2>1 DEF WireStays, SameRequest
  <1>9. CASE ChooseMemory \/ CancelTalk \/ UNCHANGED vars
    BY <1>9 DEF ChooseMemory, CancelTalk, vars, WireStays, SameRequest
  <1> QED BY <1>1, <1>2, <1>3, <1>4, <1>5, <1>6, <1>7, <1>8, <1>9 DEF Next

OwnInv == OneJobPerRid /\ ReplyIsOwn

\* A frame that completes the outstanding request is about its job.
LEMMA OursIsOwn ==
    ASSUME TypeInv, OneJobPerRid, NEW r \in inflight, NEW f \in Frames(r), Ours(f)
    PROVE  f.job = tx.job
  <1>1. f.wf /\ f.rid = tx.rid /\ tx.rid # 0
    BY DEF Ours
  <1>2. CASE f \in Answers(r.rid, r.job)
    BY <1>1, <1>2 DEF Answers, OneJobPerRid
  <1>3. CASE f = NoAnswer
    BY <1>1, <1>3 DEF NoAnswer
  <1>4. CASE f \in Answers(Fresh(RidsInUse), r.job)
    <2>1. f.rid \notin RidsInUse
      BY <1>4, FreshIsNew, InUseIsFinite DEF Answers
    <2> QED BY <1>1, <2>1 DEF RidsInUse
  <1>5. ASSUME NEW q \in inflight, f \in Answers(q.rid, q.job) PROVE f.job = tx.job
    BY <1>1, <1>5 DEF Answers, OneJobPerRid
  <1> QED BY <1>2, <1>3, <1>4, <1>5 DEF Frames

\* Every step keeps a reply with its talk.
LEMMA ReplyStep == TypeInv /\ OwnInv /\ [Next]_vars => ReplyIsOwn'
  <1> SUFFICES ASSUME TypeInv, OwnInv, [Next]_vars PROVE ReplyIsOwn'
    OBVIOUS
  <1>1. ASSUME conv' = conv PROVE ReplyIsOwn'
    BY <1>1 DEF OwnInv, ReplyIsOwn
  <1>2. CASE OpenWindow \/ LoadGame \/ RestartGame
    BY <1>2 DEF OpenWindow, LoadGame, RestartGame, Restore, NoTalk, ReplyIsOwn
  <1>3. CASE Say
    BY <1>3 DEF Say, SayJob, ReplyIsOwn, TypeInv, TypeOK, ConvType
  <1>4. CASE CancelTalk
    BY <1>4 DEF CancelTalk, ReplyIsOwn, TypeInv, TypeOK, ConvType
  <1>5. CASE CloseWindow
    <2>1. conv' = conv \/ conv' = [conv EXCEPT !.state = "CANCELED"]
      BY <1>5 DEF CloseWindow
    <2> QED BY <1>1, <2>1 DEF ReplyIsOwn, TypeInv, TypeOK, ConvType
  <1>6. ASSUME NEW passed \in {0, 1}, Run(passed) PROVE ReplyIsOwn'
    BY <1>6, RunConv DEF OwnInv, ReplyIsOwn
  <1>7. ASSUME NEW r \in inflight, NEW f \in Frames(r), Receive(r, f) PROVE ReplyIsOwn'
    <2>1. CASE ForConversation /\ Ours(f) /\ conv' = Taken(f)
      <3>1. f.job = tx.job /\ tx.job = conv.job
        BY <1>7, <2>1, OursIsOwn DEF OwnInv, ForConversation
      <3>2. /\ Taken(f).job = conv.job
            /\ Taken(f).state = "READY" => Taken(f).text = f.job
        BY <1>7, FrameType, TakenIs
      <3> QED BY <2>1, <3>1, <3>2 DEF ReplyIsOwn
    <2>2. CASE conv' = Ending("FAILED", 0)
      BY <2>2, EndingIs DEF Terminal, ReplyIsOwn
    <2> QED BY <1>1, <1>7, <2>1, <2>2, ReceiveIs
  <1>8. CASE ChooseMemory \/ Reset \/ SaveGame \/ UNCHANGED vars
    BY <1>1, <1>8 DEF ChooseMemory, Reset, SaveGame, vars
  <1> QED BY <1>2, <1>3, <1>4, <1>5, <1>6, <1>7, <1>8 DEF Next, Callback

\* A reply that is displayed was made for the talk it is displayed for, whatever
\* strays in from abandoned requests, comes out of a mixed buffer, or was in
\* flight when a game was loaded.
THEOREM ReplyIsToItsTalk == Spec => []ReplyIsOwn
  <1>1. Init => OwnInv
    BY DEF Init, OwnInv, OneJobPerRid, ReplyIsOwn, NoTalk, NoRequest
  <1>2. TypeInv /\ OwnInv /\ [Next]_vars => OwnInv'
    BY WireStep, SendsApart, StaysApart, ReplyStep DEF OwnInv
  <1>3. OwnInv => ReplyIsOwn
    BY DEF OwnInv
  <1> QED BY <1>1, <1>2, <1>3, InitTypeInv, TypeInvStep, PTL DEF Spec

-----------------------------------------------------------------------------
(* What ended stays                                                         *)

Ends == conv.state \in Terminal /\ conv'.job = conv.job
        => \/ conv'.state = conv.state
           \/ conv'.state = "CANCELED" /\ win.open /\ ~win'.open

\* A conversation that has ended is not one that waits.
LEMMA EndsStep == TypeInv /\ [Next]_vars => Ends
  <1> SUFFICES ASSUME TypeInv, [Next]_vars, conv.state \in Terminal, conv'.job = conv.job
               PROVE  \/ conv'.state = conv.state
                      \/ conv'.state = "CANCELED" /\ win.open /\ ~win'.open
    BY DEF Ends
  <1>1. ~Waiting /\ conv.job # 0
    BY DEF Waiting, Terminal, TypeInv, BegunHasJob
  <1>2. CASE OpenWindow \/ LoadGame \/ RestartGame
    BY <1>1, <1>2 DEF OpenWindow, LoadGame, RestartGame, Restore, NoTalk
  <1>3. CASE Say
    <2>1. PICK job \in {Fresh(JobsInUse)} : SayJob(job)
      BY <1>3 DEF Say
    <2>2. conv'.job = job
      BY <2>1 DEF SayJob, TypeInv, TypeOK, ConvType
    <2>3. job \notin JobsInUse
      BY <2>1, FreshIsNew, InUseIsFinite
    <2> QED BY <2>2, <2>3 DEF JobsInUse
  <1>4. CASE CloseWindow
    <2>1. win.open /\ ~win'.open
      BY <1>4 DEF CloseWindow, TypeInv, TypeOK, WinType
    <2>2. conv' = conv \/ conv' = [conv EXCEPT !.state = "CANCELED"]
      BY <1>4 DEF CloseWindow
    <2> QED BY <2>1, <2>2 DEF TypeInv, TypeOK, ConvType
  <1>5. ASSUME NEW passed \in {0, 1}, Run(passed) PROVE conv'.state = conv.state
    BY <1>1, <1>5, RunConv DEF GivesUp
  <1>6. ASSUME NEW r \in inflight, NEW f \in Frames(r), Receive(r, f)
        PROVE  conv'.state = conv.state
    BY <1>1, <1>6, ReceiveIs DEF ForConversation
  <1>7. CASE ChooseMemory \/ CancelTalk \/ Reset \/ SaveGame \/ UNCHANGED vars
    BY <1>1, <1>7 DEF ChooseMemory, CancelTalk, Reset, SaveGame, vars
  <1> QED BY <1>2, <1>3, <1>4, <1>5, <1>6, <1>7 DEF Next, Callback

\* No late or stray answer revives a conversation that has ended.
THEOREM EndedStaysEnded == Spec => TerminalIsFinal
  <1>1. TypeInv /\ [Next]_vars => [Ends]_vars
    BY EndsStep
  <1> QED BY <1>1, InitTypeInv, TypeInvStep, PTL DEF Spec, TerminalIsFinal, Ends

-----------------------------------------------------------------------------
(* Nobody waits for nothing                                                 *)

\* While a conversation waits, no ack is owed that the trigger would send first.
NothingElseOwed == win.open /\ Waiting => owed.ack = 0

WaitInv == NobodyWaitsForNothing /\ NothingElseOwed

\* The trigger sends a talk that waits nothing but its polls.
LEMMA SendsKeepsWaiting ==
    ASSUME TypeInv, WaitInv, win.open, NEW passed \in {0, 1}, Run(passed)
    PROVE  WaitInv'
  <1>1. /\ conv'.job = conv.job
        /\ conv'.state = conv.state \/ conv'.state = "FAILED"
        /\ Sends(OwedAck, Least(tx.since + passed, PollMs), Waits(passed))
    BY RunConv
  <1>2. win'.open /\ win'.inst = win.inst
    BY DEF Run, TypeInv, TypeOK, WinType
  <1> SUFFICES ASSUME conv'.state \in {"SUBMITTING", "PENDING"}
               PROVE  WaitInv'
    BY DEF WaitInv, NobodyWaitsForNothing, NothingElseOwed, Waiting
  <1>3. conv'.state = conv.state /\ Waiting
    BY <1>1 DEF Waiting
  <1>4. OwedAck = 0
    BY <1>3 DEF OwedAck, WaitInv, NothingElseOwed, Waiting
  <1>5. CASE SendsCancel /\ Transmit("CANCEL", owed.cancel) /\ owed' = [cancel |-> 0, ack |-> OwedAck]
    <2>1. owed.cancel \in Rid /\ tx.rid = 0
      BY <1>5 DEF SendsCancel, TypeInv, TypeOK, OwedType, Rid
    <2>2. tx'.op = "CANCEL" /\ tx'.inst = win.inst
      BY <1>5, <2>1, TransmitType DEF Ops
    <2>3. conv.state = "PENDING"
      BY <1>2, <1>3, <2>1 DEF WaitInv, NobodyWaitsForNothing, Waiting
    <2>4. owed'.ack = 0
      BY <1>4, <1>5
    <2> QED BY <1>2, <1>3, <2>2, <2>3, <2>4 DEF WaitInv, NobodyWaitsForNothing, NothingElseOwed
  <1>6. CASE conv.state = "PENDING" /\ Transmit("RESULT", conv.job)
             /\ owed' = [owed EXCEPT !.ack = OwedAck]
    <2>1. tx'.op = "RESULT" /\ tx'.inst = win.inst
      BY <1>6, BegunJob, TransmitType DEF Ops
    <2>2. owed'.ack = 0
      BY <1>4, <1>6 DEF TypeInv, TypeOK, OwedType
    <2> QED BY <1>2, <1>3, <1>6, <2>1, <2>2 DEF WaitInv, NobodyWaitsForNothing, NothingElseOwed
  <1>7. CASE tx' = [tx EXCEPT !.since = Least(tx.since + passed, PollMs)]
             /\ owed' = [owed EXCEPT !.ack = OwedAck]
    <2>1. tx'.rid = tx.rid /\ tx'.op = tx.op /\ tx'.job = tx.job /\ tx'.inst = tx.inst
      BY <1>7 DEF TypeInv, TypeOK, TxType
    <2>2. owed'.ack = 0
      BY <1>4, <1>7 DEF TypeInv, TypeOK, OwedType
    <2> QED BY <1>1, <1>2, <1>3, <2>1, <2>2 DEF WaitInv, NobodyWaitsForNothing, NothingElseOwed
  <1>8. ~SendsAck(OwedAck, Least(tx.since + passed, PollMs))
    BY <1>4 DEF SendsAck
  <1> QED BY <1>1, <1>5, <1>6, <1>7, <1>8 DEF Sends, SendsPoll

\* An answer to the request a conversation waits for is taken, or fails it.
LEMMA ReceiveKeepsWaiting ==
    ASSUME TypeInv, WaitInv, NEW r \in inflight, NEW f \in Frames(r), Receive(r, f)
    PROVE  WaitInv'
  <1>1. win' = win /\ (tx' = tx \/ tx' = Idle(tx)) /\ Idle(tx).rid = 0
    BY ReceiveIs, IdleType DEF TypeInv, TypeOK
  <1>2. owed.ack = 0 => owed'.ack = 0
    BY ReceiveIs DEF TypeInv, TypeOK, OwedType
  <1>3. CASE conv' = conv /\ tx' = tx
    BY <1>1, <1>2, <1>3 DEF WaitInv, NobodyWaitsForNothing, NothingElseOwed, Waiting
  <1>4. CASE conv' = conv /\ tx' = Idle(tx) /\ ~ForConversation
    <2>1. ~(win.open /\ conv.state = "SUBMITTING")
      BY <1>4 DEF ForConversation, WaitInv, NobodyWaitsForNothing, Waiting
    <2> QED BY <1>1, <1>2, <1>4, <2>1
            DEF WaitInv, NobodyWaitsForNothing, NothingElseOwed, Waiting
  <1>5. CASE conv'.state \in {"PENDING"} \cup Terminal /\ tx' = Idle(tx) /\ ForConversation
    <2>1. win.open /\ Waiting
      BY <1>5 DEF ForConversation
    <2> QED BY <1>1, <1>2, <1>5, <2>1
            DEF WaitInv, NobodyWaitsForNothing, NothingElseOwed, Waiting, Terminal
  <1>6. f.job \in Nat
    BY FrameType
  <1>7. Taken(f).state \in {"PENDING"} \cup Terminal
    BY <1>6, TakenIs
  <1>8. Ending("FAILED", 0).state \in Terminal
    BY EndingIs DEF Terminal
  <1> QED BY <1>3, <1>4, <1>5, <1>7, <1>8, ReceiveIs

\* Every step keeps a waiting conversation awaited.
LEMMA WaitStep == TypeInv /\ WaitInv /\ [Next]_vars => WaitInv'
  <1> SUFFICES ASSUME TypeInv, WaitInv, [Next]_vars PROVE WaitInv'
    OBVIOUS
  <1>1. CASE OpenWindow \/ LoadGame \/ RestartGame
    <2>1. conv'.state = "IDLE"
      BY <1>1 DEF OpenWindow, LoadGame, RestartGame, Restore, NoTalk
    <2> QED BY <2>1 DEF WaitInv, NobodyWaitsForNothing, NothingElseOwed, Waiting
  <1>2. CASE Say
    <2>1. Fresh(JobsInUse) \in Rid /\ SayJob(Fresh(JobsInUse))
      BY <1>2, FreshIsNew, InUseIsFinite DEF Rid, Say
    <2> DEFINE job == Fresh(JobsInUse)
    <2>2. /\ Transmit("TALK", job) /\ win' = win /\ owed' = owed /\ owed.ack = 0
          /\ conv'.state = "SUBMITTING" /\ conv'.job = job
      BY <2>1 DEF SayJob, TxSend, TypeInv, TypeOK, ConvType
    <2> HIDE DEF job
    <2>3. /\ tx'.rid \in Rid /\ tx'.op = "TALK" /\ tx'.job = job /\ tx'.inst = win.inst
      BY <2>1, <2>2, TransmitType DEF Ops, job
    <2> QED BY <2>2, <2>3 DEF WaitInv, NobodyWaitsForNothing, NothingElseOwed, Rid
  <1>3. CASE CancelTalk
    <2>1. conv'.state = "CANCELED"
      BY <1>3 DEF CancelTalk, TypeInv, TypeOK, ConvType
    <2> QED BY <2>1 DEF WaitInv, NobodyWaitsForNothing, NothingElseOwed, Waiting
  <1>4. CASE CloseWindow
    <2>1. ~win'.open
      BY <1>4, CloseType DEF TypeInv, TypeOK, WinType
    <2> QED BY <2>1 DEF WaitInv, NobodyWaitsForNothing, NothingElseOwed
  <1>5. CASE Reset
    <2>1. Idle(tx).rid = 0
      BY IdleType DEF TypeInv, TypeOK
    <2> QED BY <1>5, <2>1
            DEF Reset, WaitInv, NobodyWaitsForNothing, NothingElseOwed, Waiting
  <1>6. ASSUME NEW passed \in {0, 1}, Run(passed) PROVE WaitInv'
    BY <1>6, SendsKeepsWaiting DEF Run
  <1>7. ASSUME NEW r \in inflight, NEW f \in Frames(r), Receive(r, f) PROVE WaitInv'
    BY <1>7, ReceiveKeepsWaiting
  <1>8. CASE ChooseMemory
    <2>1. win'.open = win.open /\ win'.inst = win.inst
      BY <1>8 DEF ChooseMemory, TypeInv, TypeOK, WinType
    <2> QED BY <1>8, <2>1
            DEF ChooseMemory, WaitInv, NobodyWaitsForNothing, NothingElseOwed, Waiting
  <1>9. CASE SaveGame \/ UNCHANGED vars
    BY <1>9 DEF SaveGame, vars, WaitInv, NobodyWaitsForNothing, NothingElseOwed, Waiting
  <1> QED BY <1>1, <1>2, <1>3, <1>4, <1>5, <1>6, <1>7, <1>8, <1>9 DEF Next, Callback

\* As the mod sees it, a conversation of the open window always has a next step:
\* the transport holds its talk until that is answered, and then only its own
\* polls and cancels, so that the next poll gets its turn.  It says nothing of
\* what the engine has in flight, which AwaitedIsComing is about.
THEOREM SomethingIsAwaited == Spec => []NobodyWaitsForNothing
  <1>1. Init => WaitInv
    BY DEF Init, NoTalk, NoWindow, WaitInv, NobodyWaitsForNothing, NothingElseOwed
  <1>2. WaitInv => NobodyWaitsForNothing
    BY DEF WaitInv
  <1> QED BY <1>1, <1>2, InitTypeInv, TypeInvStep, WaitStep, PTL DEF Spec

-----------------------------------------------------------------------------
(* What is in flight is accounted for                                       *)

\* An idle transport sends one request.
LEMMA TransmitAccounted ==
    ASSUME TypeInv, InFlightIsAccountedFor, tx.rid = 0, NEW op \in Ops, NEW job \in Rid,
           Transmit(op, job), abandoned' = abandoned
    PROVE  InFlightIsAccountedFor'
  <1>1. tx'.rid # 0 /\ Cardinality(inflight') <= Cardinality(inflight) + 1
    BY TransmitType, TransmitFlight DEF Rid
  <1>2. Cardinality(inflight) \in Nat /\ Cardinality(inflight') \in Nat /\ abandoned \in Nat
    BY TransmitType, FS_CardinalityType DEF TypeInv, TypeOK
  <1> QED BY <1>1, <1>2 DEF InFlightIsAccountedFor

\* A transport that stays as busy as it was has as much to account for.
LEMMA SameAccounted ==
    ASSUME InFlightIsAccountedFor, tx'.rid = tx.rid, inflight' = inflight, abandoned' = abandoned
    PROVE  InFlightIsAccountedFor'
  BY DEF InFlightIsAccountedFor

\* Every step keeps the account.
LEMMA AccountedStep ==
    ASSUME ~Saves
    PROVE  TypeInv /\ InFlightIsAccountedFor /\ [Next]_vars => InFlightIsAccountedFor'
  <1> SUFFICES ASSUME TypeInv, InFlightIsAccountedFor, [Next]_vars PROVE InFlightIsAccountedFor'
    OBVIOUS
  <1>0. Cardinality(inflight) \in Nat /\ abandoned \in Nat
    BY FS_CardinalityType DEF TypeInv, TypeOK
  <1>1. CASE OpenWindow
    <2>1. PICK ahead \in 0 .. MaxStale : tx' = [tx EXCEPT !.since = -ahead]
      BY <1>1 DEF OpenWindow
    <2>2. tx'.rid = tx.rid
      BY <2>1 DEF TypeInv, TypeOK, TxType
    <2> QED BY <1>1, <2>2, SameAccounted DEF OpenWindow
  <1>2. CASE Say
    <2>1. Fresh(JobsInUse) \in Rid /\ SayJob(Fresh(JobsInUse))
      BY <1>2, FreshIsNew, InUseIsFinite DEF Rid, Say
    <2> QED BY <2>1, TransmitAccounted DEF SayJob, TxSend, Ops
  <1>3. CASE CloseWindow
    <2>1. CASE conv.job # 0 /\ conv.state # "READY"
      <3>1. conv.job \in Rid /\ TxSend("CANCEL", conv.job) /\ abandoned' = abandoned
        BY <1>3, <2>1 DEF CloseWindow, TypeInv, TypeOK, ConvType, Rid
      <3> QED BY <3>1, TransmitAccounted, SameAccounted DEF TxSend, Ops
    <2>2. CASE ~(conv.job # 0 /\ conv.state # "READY")
      BY <1>3, <2>2, SameAccounted DEF CloseWindow
    <2> QED BY <2>1, <2>2
  <1>4. ASSUME NEW passed \in {0, 1}, Run(passed) PROVE InFlightIsAccountedFor'
    <2>1. /\ Sends(OwedAck, Least(tx.since + passed, PollMs), Waits(passed))
          /\ abandoned' = abandoned
      BY <1>4, RunConv DEF Run
    <2>2. CASE SendsCancel /\ Transmit("CANCEL", owed.cancel)
      <3>1. owed.cancel \in Rid /\ tx.rid = 0
        BY <2>2 DEF SendsCancel, TypeInv, TypeOK, OwedType, Rid
      <3> QED BY <2>1, <2>2, <3>1, TransmitAccounted DEF Ops
    <2>3. CASE tx.rid = 0 /\ OwedAck # 0 /\ Transmit("ACK", OwedAck)
      <3>1. OwedAck \in Rid
        BY <2>3 DEF OwedAck, TypeInv, TypeOK, ConvType, OwedType, Rid
      <3> QED BY <2>1, <2>3, <3>1, TransmitAccounted DEF Ops
    <2>4. CASE tx.rid = 0 /\ conv.state = "PENDING" /\ Transmit("RESULT", conv.job)
      BY <2>1, <2>4, BegunJob, TransmitAccounted DEF Ops
    <2>5. CASE tx' = [tx EXCEPT !.since = Least(tx.since + passed, PollMs)]
               /\ UNCHANGED inflight
      <3>1. tx'.rid = tx.rid
        BY <2>5 DEF TypeInv, TypeOK, TxType
      <3> QED BY <2>1, <2>5, <3>1, SameAccounted
    <2> QED BY <2>1, <2>2, <2>3, <2>4, <2>5 DEF Sends, SendsAck, SendsPoll
  <1>5. ASSUME NEW r \in inflight, NEW f \in Frames(r), Receive(r, f)
        PROVE  InFlightIsAccountedFor'
    <2>1. /\ \/ tx.rid = 0 /\ tx' = tx /\ abandoned' = abandoned
             \/ abandoned > 0 /\ tx' = tx /\ abandoned' = abandoned - 1
             \/ tx.rid # 0 /\ tx' = Idle(tx) /\ abandoned' = abandoned
          /\ inflight' = inflight \ {r}
      BY <1>5, ReceiveIs
    <2>2. Cardinality(inflight') = Cardinality(inflight) - 1
      BY <1>5, <2>1, FS_RemoveElement DEF TypeInv
    <2>3. Idle(tx).rid = 0
      BY IdleType DEF TypeInv, TypeOK
    <2> QED BY <1>0, <2>1, <2>2, <2>3 DEF InFlightIsAccountedFor
  <1>6. CASE Reset
    <2>1. /\ tx.rid # 0 /\ tx' = Idle(tx) /\ abandoned' = abandoned + 1 /\ inflight' = inflight
      BY <1>6 DEF Reset
    <2>2. Idle(tx).rid = 0
      BY IdleType DEF TypeInv, TypeOK
    <2> QED BY <1>0, <2>1, <2>2 DEF InFlightIsAccountedFor
  <1>7. CASE SaveGame \/ LoadGame \/ RestartGame
    BY <1>7 DEF SaveGame, LoadGame, RestartGame
  <1>8. CASE ChooseMemory \/ CancelTalk \/ UNCHANGED vars
    BY <1>8, SameAccounted DEF ChooseMemory, CancelTalk, vars
  <1> QED BY <1>1, <1>2, <1>3, <1>4, <1>5, <1>6, <1>7, <1>8 DEF Next, Callback

\* "At most one request in flight": as long as no game is loaded, what the
\* engine has in flight is the outstanding request and what Reset abandoned, so
\* without a Reset it is the outstanding one alone.
THEOREM NothingElseIsInFlight == Spec => []InFlightIsAccountedFor
  <1>1. CASE Saves
    <2>1. InFlightIsAccountedFor
      BY <1>1 DEF InFlightIsAccountedFor
    <2> QED BY <2>1, PTL
  <1>2. CASE ~Saves
    <2>1. Init => InFlightIsAccountedFor
      BY FS_EmptySet DEF Init, NoRequest, InFlightIsAccountedFor
    <2> QED BY <1>2, <2>1, InitTypeInv, TypeInvStep, AccountedStep, PTL DEF Spec
  <1> QED BY <1>1, <1>2

-----------------------------------------------------------------------------
(* A transport that nothing will complete can be reset                      *)

NothingAbandoned == abandoned = 0 /\ saved.abandoned = 0

\* Only Reset abandons requests.
LEMMA AbandonedStep ==
    ASSUME MaxAbandoned = 0
    PROVE  TypeInv /\ NothingAbandoned /\ [Next]_vars => NothingAbandoned' /\ ~Reset
  <1> SUFFICES ASSUME TypeInv, NothingAbandoned, [Next]_vars
               PROVE  NothingAbandoned' /\ ~Reset
    OBVIOUS
  <1>1. ~Reset
    BY DEF Reset, NothingAbandoned
  <1>2. ASSUME NEW r \in inflight, NEW f \in Frames(r), Receive(r, f) PROVE NothingAbandoned'
    BY <1>2, ReceiveIs DEF NothingAbandoned
  <1>3. CASE SaveGame
    BY <1>1, <1>3 DEF SaveGame, Globals, NothingAbandoned
  <1>4. CASE LoadGame \/ RestartGame
    BY <1>1, <1>4, RestoreType DEF LoadGame, RestartGame, NothingAbandoned
  <1>5. CASE \/ OpenWindow \/ ChooseMemory \/ Say \/ CancelTalk \/ CloseWindow
             \/ \E passed \in {0, 1} : Run(passed)
             \/ UNCHANGED vars
    BY <1>1, <1>5 DEF OpenWindow, ChooseMemory, Say, SayJob, CancelTalk, CloseWindow, Run, vars,
                NothingAbandoned
  <1> QED BY <1>1, <1>2, <1>3, <1>4, <1>5 DEF Next, Callback

\* A request that was sent from the window that is open is in flight.
SentIsComing == /\ tx.rid # 0 => tx.inst <= win.inst
                /\ saved.tx.rid # 0 => saved.tx.inst <= saved.inst
                /\ win.open /\ tx.rid # 0 /\ tx.inst = win.inst
                      => \E r \in inflight : r.rid = tx.rid

\* What is sent is in flight.
LEMMA TransmitComes ==
    ASSUME TypeInv, SentIsComing, NEW op \in Ops, NEW job \in Rid, Transmit(op, job),
           win'.inst = win.inst, saved' = saved
    PROVE  SentIsComing'
  <1>1. tx'.inst = win.inst /\ win.inst \in Nat
    BY TransmitType DEF TypeInv, TypeOK, WinType
  <1>2. \E q \in inflight' : q.rid = tx'.rid
    BY TransmitFlight
  <1> QED BY <1>1, <1>2 DEF SentIsComing

\* What is let go of is not waited for.
LEMMA SameComes ==
    ASSUME TypeInv, SentIsComing, tx'.rid = tx.rid, tx'.inst = tx.inst, inflight' = inflight,
           saved' = saved, win'.inst = win.inst, win'.open => win.open
    PROVE  SentIsComing'
  BY DEF SentIsComing

\* Every step keeps what this window sent in flight.
LEMMA ComingStep ==
    ASSUME MaxAbandoned = 0
    PROVE  TypeInv /\ NothingAbandoned /\ SentIsComing /\ [Next]_vars => SentIsComing'
  <1> SUFFICES ASSUME TypeInv, NothingAbandoned, SentIsComing, [Next]_vars
               PROVE  SentIsComing'
    OBVIOUS
  <1>0. win.inst \in Nat /\ tx.inst \in Nat
    BY DEF TypeInv, TypeOK, WinType, TxType
  <1>1. CASE OpenWindow
    <2>1. PICK ahead \in 0 .. MaxStale : tx' = [tx EXCEPT !.since = -ahead]
      BY <1>1 DEF OpenWindow
    <2>2. tx'.rid = tx.rid /\ tx'.inst = tx.inst
      BY <2>1 DEF TypeInv, TypeOK, TxType
    <2>3. win'.inst = win.inst + 1 /\ saved' = saved
      BY <1>1 DEF OpenWindow
    <2>4. tx.rid # 0 => tx.inst <= win.inst
      BY DEF SentIsComing
    <2>5. (saved.tx.rid # 0 => saved.tx.inst <= saved.inst)'
      BY <2>3 DEF SentIsComing
    <2>6. tx'.rid # 0 => tx'.inst <= win'.inst /\ tx'.inst # win'.inst
      BY <1>0, <2>2, <2>3, <2>4
    <2> QED BY <2>5, <2>6 DEF SentIsComing
  <1>2. CASE Say
    <2>1. Fresh(JobsInUse) \in Rid /\ SayJob(Fresh(JobsInUse))
      BY <1>2, FreshIsNew, InUseIsFinite DEF Rid, Say
    <2>2. /\ Transmit("TALK", Fresh(JobsInUse)) /\ win' = win /\ saved' = saved
      BY <2>1 DEF SayJob, TxSend
    <2> QED BY <2>1, <2>2, TransmitComes DEF Ops
  <1>3. CASE CloseWindow
    <2>1. /\ win'.inst = win.inst /\ ~win'.open /\ saved' = saved
      BY <1>3, CloseType DEF CloseWindow, TypeInv, TypeOK, WinType
    <2>2. CASE conv.job # 0 /\ conv.state # "READY"
      <3>1. conv.job \in Rid /\ TxSend("CANCEL", conv.job)
        BY <1>3, <2>2 DEF CloseWindow, TypeInv, TypeOK, ConvType, Rid
      <3> QED BY <2>1, <3>1, TransmitComes, SameComes DEF TxSend, Ops
    <2>3. CASE ~(conv.job # 0 /\ conv.state # "READY")
      BY <1>3, <2>1, <2>3, SameComes DEF CloseWindow
    <2> QED BY <2>2, <2>3
  <1>4. ASSUME NEW passed \in {0, 1}, Run(passed) PROVE SentIsComing'
    <2>1. /\ Sends(OwedAck, Least(tx.since + passed, PollMs), Waits(passed))
          /\ win'.inst = win.inst /\ win'.open = win.open /\ saved' = saved
      BY <1>4, RunConv DEF Run, TypeInv, TypeOK, WinType
    <2>2. CASE SendsCancel /\ Transmit("CANCEL", owed.cancel)
      <3>1. owed.cancel \in Rid
        BY <2>2 DEF SendsCancel, TypeInv, TypeOK, OwedType, Rid
      <3> QED BY <2>1, <2>2, <3>1, TransmitComes DEF Ops
    <2>3. CASE OwedAck # 0 /\ Transmit("ACK", OwedAck)
      <3>1. OwedAck \in Rid
        BY <2>3 DEF OwedAck, TypeInv, TypeOK, ConvType, OwedType, Rid
      <3> QED BY <2>1, <2>3, <3>1, TransmitComes DEF Ops
    <2>4. CASE conv.state = "PENDING" /\ Transmit("RESULT", conv.job)
      BY <2>1, <2>4, BegunJob, TransmitComes DEF Ops
    <2>5. CASE tx' = [tx EXCEPT !.since = Least(tx.since + passed, PollMs)]
               /\ UNCHANGED inflight
      <3>1. tx'.rid = tx.rid /\ tx'.inst = tx.inst
        BY <2>5 DEF TypeInv, TypeOK, TxType
      <3> QED BY <2>1, <2>5, <3>1, SameComes
    <2> QED BY <2>1, <2>2, <2>3, <2>4, <2>5 DEF Sends, SendsAck, SendsPoll
  <1>5. ASSUME NEW r \in inflight, NEW f \in Frames(r), Receive(r, f) PROVE SentIsComing'
    <2>1. tx'.rid = 0
      BY <1>5, ReceiveIs, IdleType DEF NothingAbandoned, TypeInv, TypeOK
    <2>2. saved' = saved
      BY <1>5, ReceiveIs
    <2> QED BY <2>1, <2>2 DEF SentIsComing
  <1>6. CASE SaveGame
    <2>1. /\ saved'.inst = win.inst
          /\ saved'.tx.rid # 0 => tx.rid # 0 /\ saved'.tx.inst = tx.inst
      BY <1>6 DEF SaveGame, Globals, NoRequest, TypeInv, TypeOK, TxType
    <2> QED BY <1>6, <2>1 DEF SaveGame, SentIsComing
  <1>7. CASE LoadGame \/ RestartGame
    <2>1. /\ tx' = saved.tx /\ saved' = saved /\ ~win'.open /\ win'.inst = saved.inst
      BY <1>7, RestoreType DEF LoadGame, RestartGame
    <2> QED BY <2>1 DEF SentIsComing
  <1>8. ~Reset
    BY AbandonedStep
  <1>9. CASE ChooseMemory
    <2>1. win'.inst = win.inst /\ win'.open = win.open
      BY <1>9 DEF ChooseMemory, TypeInv, TypeOK, WinType
    <2> QED BY <1>9, <2>1, SameComes DEF ChooseMemory
  <1>10. CASE CancelTalk \/ UNCHANGED vars
    BY <1>10, SameComes DEF CancelTalk, vars
  <1> QED BY <1>1, <1>2, <1>3, <1>4, <1>5, <1>6, <1>7, <1>8, <1>9, <1>10 DEF Next, Callback

\* A transport that is busy with nothing in flight, as a loaded game leaves it,
\* is one that the window offers Reset for.  Before the first Reset: after one,
\* a stray answer can use up the callback of a request of this very window.
THEOREM StuckIsOlder == MaxAbandoned = 0 => (Spec => []StuckCanBeReset)
  <1> SUFFICES ASSUME MaxAbandoned = 0 PROVE Spec => []StuckCanBeReset
    OBVIOUS
  <1>1. Init => NothingAbandoned /\ SentIsComing
    BY DEF Init, NoRequest, NoWindow, NothingAbandoned, SentIsComing
  <1>2. TypeInv /\ NothingAbandoned /\ SentIsComing /\ [Next]_vars
            => NothingAbandoned' /\ SentIsComing'
    BY AbandonedStep, ComingStep
  <1>3. SentIsComing => StuckCanBeReset
    BY DEF SentIsComing, StuckCanBeReset
  <1> QED BY <1>1, <1>2, <1>3, InitTypeInv, TypeInvStep, PTL DEF Spec

\* What a conversation of the open window waits for is in flight.
AwaitedIsInFlight == win.open /\ Waiting /\ tx.rid # 0 => \E r \in inflight : r.rid = tx.rid

\* As long as nothing was reset, a conversation that waits while the transport is
\* busy has its request in flight, with savegames and lost answers, too: the
\* transport is not only busy, its callback is still to come if the engine makes
\* it.  After a Reset it need not be (OwnCallbackCompletes).
THEOREM AwaitedIsComing == MaxAbandoned = 0 => (Spec => []AwaitedIsInFlight)
  <1> SUFFICES ASSUME MaxAbandoned = 0 PROVE Spec => []AwaitedIsInFlight
    OBVIOUS
  <1>1. Init => NothingAbandoned /\ SentIsComing
    BY DEF Init, NoRequest, NoWindow, NothingAbandoned, SentIsComing
  <1>2. TypeInv /\ NothingAbandoned /\ SentIsComing /\ [Next]_vars
            => NothingAbandoned' /\ SentIsComing'
    BY AbandonedStep, ComingStep
  <1>3. NobodyWaitsForNothing /\ SentIsComing => AwaitedIsInFlight
    BY DEF SentIsComing, NobodyWaitsForNothing, AwaitedIsInFlight, Waiting
  <1> QED BY <1>1, <1>2, <1>3, InitTypeInv, TypeInvStep, SomethingIsAwaited, PTL DEF Spec

-----------------------------------------------------------------------------
(* What the window owes                                                     *)

\* The conversation waits for the reply to its talk, or shows it.
Current == conv.state \in {"SUBMITTING", "PENDING", "READY"}

\* The numbers of windows grow.
SentBefore == /\ tx.rid # 0 => tx.inst <= win.inst
              /\ saved.tx.rid # 0 => saved.tx.inst <= saved.inst

\* An ack is owed, or outstanding, only for the reply that is shown; a cancel
\* never for a talk that is waited for or whose reply is shown.
Owes ==
    win.open =>
        /\ owed.ack # 0 => conv.state = "READY" /\ owed.ack = conv.job
        /\ Current => owed.cancel # conv.job
        /\ tx.rid # 0 /\ tx.inst = win.inst =>
              /\ tx.op = "CANCEL" /\ Current => tx.job # conv.job
              /\ tx.op = "ACK" => owed.ack = tx.job /\ tx.job # 0

OwesInv == SentBefore /\ Owes

\* What is owed for a talk is not owed for the next one.
LEMMA OwesSay ==
    ASSUME TypeInv, OwesInv, NEW job \in Rid \ JobsInUse, SayJob(job)
    PROVE  OwesInv'
  <1>1. /\ Transmit("TALK", job) /\ win' = win /\ owed' = owed /\ owed.ack = 0 /\ saved' = saved
        /\ conv'.job = job
    BY DEF SayJob, TxSend, TypeInv, TypeOK, ConvType
  <1>2. tx'.op = "TALK" /\ tx'.inst = win.inst /\ win.inst \in Nat
    BY <1>1, TransmitType DEF Ops, TypeInv, TypeOK, WinType
  <1>3. owed.cancel # job
    BY DEF JobsInUse
  <1> QED BY <1>1, <1>2, <1>3 DEF OwesInv, SentBefore, Owes

\* The trigger sends what is owed, and comes to owe an ack for what it shows.
LEMMA OwesRun ==
    ASSUME TypeInv, OwesInv, NEW passed \in {0, 1}, Run(passed)
    PROVE  OwesInv'
  <1> DEFINE ack   == OwedAck
             since == Least(tx.since + passed, PollMs)
  <1>1. /\ conv'.job = conv.job /\ Sends(ack, since, Waits(passed))
        /\ conv'.state = conv.state \/ (Waiting /\ conv'.state = "FAILED")
    BY RunConv DEF GivesUp
  <1>2. /\ win.open /\ win'.open /\ win'.inst = win.inst /\ saved' = saved /\ win.inst \in Nat
    BY DEF Run, TypeInv, TypeOK, WinType
  <1>3. ack # 0 => conv.state = "READY" /\ ack = conv.job /\ conv'.state = "READY"
    BY <1>1, <1>2 DEF OwedAck, OwesInv, Owes, Waiting
  <1>4. ack = owed.ack \/ owed.ack = 0
    BY <1>2, <1>3 DEF OwedAck, OwesInv, Owes
  <1>5. Current' => Current
    BY <1>1 DEF Current
  <1>6. ack \in Nat /\ owed \in OwedType /\ tx \in TxType
    BY DEF OwedAck, TypeInv, TypeOK, ConvType, OwedType
  <1> HIDE DEF ack, since
  <1>7. CASE SendsCancel /\ Transmit("CANCEL", owed.cancel) /\ owed' = [cancel |-> 0, ack |-> ack]
    <2>1. owed.cancel \in Rid
      BY <1>7 DEF SendsCancel, TypeInv, TypeOK, OwedType, Rid
    <2>2. tx'.op = "CANCEL" /\ tx'.job = owed.cancel /\ tx'.inst = win.inst
      BY <1>7, <2>1, TransmitType DEF Ops
    <2>3. Current => conv.job # 0 /\ owed.cancel # conv.job
      BY <1>2 DEF Current, OwesInv, Owes, TypeInv, BegunHasJob
    <2> QED BY <1>1, <1>2, <1>3, <1>5, <1>7, <2>2, <2>3 DEF OwesInv, SentBefore, Owes
  <1>8. CASE SendsAck(ack, since) /\ Transmit("ACK", ack) /\ owed' = [owed EXCEPT !.ack = ack]
    <2>1. ack \in Rid
      BY <1>6, <1>8 DEF SendsAck, Rid
    <2>2. tx'.op = "ACK" /\ tx'.job = ack /\ ack # 0 /\ tx'.inst = win.inst
      BY <1>8, <2>1, TransmitType DEF Ops, Rid
    <2>3. owed'.ack = ack /\ owed'.cancel = owed.cancel
      BY <1>6, <1>8 DEF OwedType
    <2> QED BY <1>1, <1>2, <1>3, <1>5, <2>2, <2>3 DEF OwesInv, SentBefore, Owes
  <1>9. CASE SendsPoll(ack, since, Waits(passed)) /\ Transmit("RESULT", conv.job)
             /\ owed' = [owed EXCEPT !.ack = ack]
    <2>1. tx'.op = "RESULT" /\ tx'.inst = win.inst
      BY <1>9, BegunJob, TransmitType DEF Ops, SendsPoll
    <2>2. owed'.ack = ack /\ owed'.cancel = owed.cancel
      BY <1>6, <1>9 DEF OwedType
    <2> QED BY <1>1, <1>2, <1>3, <1>5, <2>1, <2>2 DEF OwesInv, SentBefore, Owes
  <1>10. CASE tx' = [tx EXCEPT !.since = since] /\ owed' = [owed EXCEPT !.ack = ack]
              /\ UNCHANGED inflight
    <2>1. tx'.rid = tx.rid /\ tx'.op = tx.op /\ tx'.job = tx.job /\ tx'.inst = tx.inst
      BY <1>6, <1>10 DEF TxType
    <2>2. owed'.ack = ack /\ owed'.cancel = owed.cancel
      BY <1>6, <1>10 DEF OwedType
    <2>3. tx.rid # 0 /\ tx.inst = win.inst /\ tx.op = "ACK" => ack = tx.job /\ tx.job # 0
      BY <1>2, <1>4 DEF OwesInv, Owes
    <2> QED BY <1>1, <1>2, <1>3, <1>5, <2>1, <2>2, <2>3 DEF OwesInv, SentBefore, Owes
  <1> QED BY <1>1, <1>7, <1>8, <1>9, <1>10 DEF Sends

\* A callback settles what was owed, and takes a reply only for a talk that is
\* waited for.
LEMMA OwesReceive ==
    ASSUME TypeInv, OwesInv, NEW r \in inflight, NEW f \in Frames(r), Receive(r, f)
    PROVE  OwesInv'
  <1>1. /\ win' = win /\ saved' = saved /\ Idle(tx).rid = 0
        /\ (tx' = tx \/ tx' = Idle(tx))
    BY ReceiveIs, IdleType DEF TypeInv, TypeOK
  <1>2. owed'.cancel = owed.cancel /\ (owed'.ack = owed.ack \/ owed'.ack = 0)
    BY ReceiveIs DEF TypeInv, TypeOK, OwedType
  <1>3. CASE tx' = tx
    <2>1. conv' = conv /\ owed' = owed
      <3>1. tx.rid = 0 \/ tx' # Idle(tx)
        BY <1>1, <1>3
      <3>2. ~Complete(f) /\ ~Fail(f)
        BY <3>1 DEF Complete, Ours, Fail
      <3> QED BY <3>2 DEF Receive, DropIdle, DropStray
    <2> QED BY <1>1, <1>3, <2>1 DEF OwesInv, SentBefore, Owes, Current
  <1>4. CASE tx' = Idle(tx)
    <2>1. CASE conv' = conv
      BY <1>1, <1>2, <1>4, <2>1 DEF OwesInv, SentBefore, Owes, Current
    <2>2. CASE ForConversation /\ conv'.job = conv.job
      <3>1. win.open /\ Waiting
        BY <2>2 DEF ForConversation
      <3>2. owed.ack = 0 /\ owed.cancel # conv.job
        BY <3>1 DEF Waiting, OwesInv, Owes, Current
      <3> QED BY <1>1, <1>2, <1>4, <2>2, <3>2 DEF OwesInv, SentBefore, Owes
    <2>3. f.job \in Nat
      BY FrameType
    <2>4. Taken(f).job = conv.job /\ Ending("FAILED", 0).job = conv.job
      BY <2>3, TakenIs, EndingIs DEF Terminal
    <2> QED BY <2>1, <2>2, <2>4, ReceiveIs
  <1> QED BY <1>1, <1>3, <1>4

\* Every step keeps that.
LEMMA OwesStep == TypeInv /\ OwesInv /\ [Next]_vars => OwesInv'
  <1> SUFFICES ASSUME TypeInv, OwesInv, [Next]_vars PROVE OwesInv'
    OBVIOUS
  <1>0. win.inst \in Nat /\ tx.inst \in Nat
    BY DEF TypeInv, TypeOK, WinType, TxType
  <1>1. CASE OpenWindow
    <2>1. PICK ahead \in 0 .. MaxStale : tx' = [tx EXCEPT !.since = -ahead]
      BY <1>1 DEF OpenWindow
    <2>2. tx'.rid = tx.rid /\ tx'.inst = tx.inst
      BY <2>1 DEF TypeInv, TypeOK, TxType
    <2>3. /\ win'.inst = win.inst + 1 /\ saved' = saved
          /\ conv'.state = "IDLE" /\ owed'.ack = 0
      BY <1>1 DEF OpenWindow, NoTalk, NoneOwed
    <2> QED BY <1>0, <2>2, <2>3 DEF OwesInv, SentBefore, Owes, Current
  <1>2. CASE Say
    BY <1>2, OwesSay, FreshIsNew, InUseIsFinite DEF Rid, Say
  <1>3. CASE CloseWindow
    <2>1. /\ win'.inst = win.inst /\ ~win'.open /\ saved' = saved
      BY <1>3, CloseType DEF CloseWindow, TypeInv, TypeOK, WinType
    <2>2. tx' = tx \/ tx'.inst = win.inst
      <3>1. CASE conv.job # 0 /\ conv.state # "READY"
        <4>1. conv.job \in Rid /\ TxSend("CANCEL", conv.job)
          BY <1>3, <3>1 DEF CloseWindow, TypeInv, TypeOK, ConvType, Rid
        <4> QED BY <4>1, TransmitType DEF TxSend, Ops
      <3> QED BY <1>3, <3>1 DEF CloseWindow
    <2> QED BY <1>0, <2>1, <2>2 DEF OwesInv, SentBefore, Owes
  <1>4. CASE CancelTalk
    <2>1. /\ conv'.state = "CANCELED" /\ owed'.ack = owed.ack /\ owed.ack = 0
      BY <1>4 DEF CancelTalk, Waiting, OwesInv, Owes, TypeInv, TypeOK, ConvType, OwedType
    <2>2. win.open /\ UNCHANGED <<tx, win, saved>>
      BY <1>4 DEF CancelTalk
    <2> QED BY <2>1, <2>2 DEF OwesInv, SentBefore, Owes, Current
  <1>5. CASE Reset
    <2>1. Idle(tx).rid = 0
      BY IdleType DEF TypeInv, TypeOK
    <2> QED BY <1>5, <2>1 DEF Reset, OwesInv, SentBefore, Owes, Current
  <1>6. ASSUME NEW passed \in {0, 1}, Run(passed) PROVE OwesInv'
    BY <1>6, OwesRun
  <1>7. ASSUME NEW r \in inflight, NEW f \in Frames(r), Receive(r, f) PROVE OwesInv'
    BY <1>7, OwesReceive
  <1>8. CASE SaveGame
    <2>1. /\ saved'.inst = win.inst
          /\ saved'.tx.rid # 0 => tx.rid # 0 /\ saved'.tx.inst = tx.inst
      BY <1>8 DEF SaveGame, Globals, NoRequest, TypeInv, TypeOK, TxType
    <2> QED BY <1>8, <2>1 DEF SaveGame, OwesInv, SentBefore, Owes, Current
  <1>9. CASE LoadGame \/ RestartGame
    <2>1. /\ tx' = saved.tx /\ saved' = saved /\ ~win'.open /\ win'.inst = saved.inst
      BY <1>9, RestoreType DEF LoadGame, RestartGame
    <2> QED BY <2>1 DEF OwesInv, SentBefore, Owes
  <1>10. CASE ChooseMemory
    <2>1. win'.inst = win.inst /\ win'.open = win.open
      BY <1>10 DEF ChooseMemory, TypeInv, TypeOK, WinType
    <2> QED BY <1>10, <2>1 DEF ChooseMemory, OwesInv, SentBefore, Owes, Current
  <1>11. CASE UNCHANGED vars
    BY <1>11 DEF vars, OwesInv, SentBefore, Owes, Current
  <1> QED BY <1>1, <1>2, <1>3, <1>4, <1>5, <1>6, <1>7, <1>8, <1>9, <1>10, <1>11
          DEF Next, Callback

\* A window never owes, nor has outstanding, an ack for anything but the reply
\* that it shows, nor a cancel for a talk that it waits for or whose reply it
\* shows (Say waits for an owed ack; a cancel is owed for an ended talk).
THEOREM OwesForItsReply == Spec => []Owes
  <1>1. Init => OwesInv
    BY DEF Init, NoRequest, NoWindow, OwesInv, SentBefore, Owes
  <1>2. OwesInv => Owes
    BY DEF OwesInv
  <1> QED BY <1>1, <1>2, InitTypeInv, TypeInvStep, OwesStep, PTL DEF Spec

===============================================================================
