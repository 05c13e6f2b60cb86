---------------------------- MODULE GameTransport ----------------------------
(***************************************************************************)
(* The game's side of the protocol: the window "cai_talk" of the mod       *)
(* (module_presentations.py), the scripts it sends with and the callback   *)
(* that receives every answer (module_scripts.py), around an external      *)
(* engine that makes one callback per request, when and if it completes.   *)
(*                                                                         *)
(* The engine runs callbacks, clicks and the window's run trigger one at a *)
(* time, in any order, so each is one action.  All mod state is in global  *)
(* variables ($cai_...), which a savegame keeps and a load brings back;    *)
(* the requests in flight belong to the engine and are not in it.          *)
(*                                                                         *)
(* The code subtracts time stamps; here the differences are the state,     *)
(* each saturated at the largest value a comparison tells apart.  The code *)
(* draws ids at random out of 900000000; here a new id is one that is not  *)
(* in use, which leaves a collision of two draws out.                      *)
(* Left out: overlays and wording, the draft (Say is a click with text in  *)
(* the box), the campaign, branch and session ids.                         *)
(***************************************************************************)
EXTENDS Integers, FiniteSets

CONSTANTS
    PollMs,       \* CAI_POLL_MS, in ticks of the clock
    GiveUpMs,     \* CAI_GIVE_UP_MS
    ResetMs,      \* CAI_RESET_MS
    Faults,       \* what may go wrong: "no_answer", "wrong_rid"
    Companions,   \* which windows are opened: TRUE for v2 with a companion, FALSE for v1
    Saves,        \* whether the player saves and loads the game
    MaxStale,     \* bound of how far a stamp may be ahead of a new window's clock
    MaxOpens,     \* bound of the times the window is opened
    MaxAbandoned, \* bound of the requests that Reset has abandoned
    MaxInFlight   \* bound of the requests in flight when one is left behind

ASSUME TimesAssumption == /\ PollMs \in Nat \ {0} /\ GiveUpMs \in Nat \ {0}
                          /\ ResetMs \in Nat /\ MaxStale \in Nat
ASSUME FaultsAssumption == Faults \subseteq {"no_answer", "wrong_rid"}
ASSUME PlayerAssumption == Saves \in BOOLEAN /\ Companions \subseteq BOOLEAN
ASSUME GameBoundsAssumption == /\ MaxOpens \in Nat /\ MaxAbandoned \in Nat
                               /\ MaxInFlight \in Nat

VARIABLES
    tx,        \* the outstanding request; rid 0: the transport is idle
    conv,      \* the conversation of this window
    owed,      \* jobs that a cancel or an ack is still to be sent for, 0: none
    win,       \* the window itself
    abandoned, \* $cai_tx_abandoned
    log,       \* the job whose reply is the newest in the window, 0: none is
    inflight,  \* the engine: requests that have not completed
    saved      \* the savegame: the mod's globals

globals == <<tx, conv, owed, win, abandoned>>
vars == <<tx, conv, owed, win, abandoned, log, inflight, saved>>

Ops      == {"TALK", "RESULT", "CANCEL", "ACK"}
Codes    == {"READY", "PENDING", "CANCELED", "OTHER"}
Waiting  == conv.state \in {"SUBMITTING", "PENDING"}
Terminal == {"READY", "FAILED", "CANCELED"}

\* new is $cai_reply_new; text is the job whose reply s67 holds, 0 for a reason;
\* waited is the time since $cai_conv_start_ms, read only while waiting.
NoTalk == [state |-> "IDLE", job |-> 0, waited |-> 0, new |-> FALSE, text |-> 0]

\* since is the time since $cai_tx_sent_ms by the clock of the open window; age
\* is that clock; companion is $cai_npc > 0, chosen $cai_memory_confirmed.
NoRequest == [rid |-> 0, op |-> "TALK", job |-> 0, since |-> 0, inst |-> 0]
NoWindow  == [open |-> FALSE, inst |-> 0, age |-> 0, companion |-> FALSE,
              chosen |-> FALSE]
NoneOwed  == [cancel |-> 0, ack |-> 0]

\* $cai_tx_rid := 0.  Of an idle transport only the stamp is read.
Idle(t) == [NoRequest EXCEPT !.since = t.since, !.inst = t.inst]

\* A game is saved with the window closed.  Of what it saves only these globals
\* can be told apart later: opening the window sets all the others anew, and of
\* an idle transport nothing is read.
Globals == [tx |-> IF tx.rid = 0 THEN NoRequest ELSE [tx EXCEPT !.since = 0],
            inst |-> win.inst, abandoned |-> abandoned]

Restore(g) == /\ tx' = g.tx /\ abandoned' = g.abandoned
              /\ conv' = NoTalk /\ owed' = NoneOwed
              /\ win' = [NoWindow EXCEPT !.inst = g.inst]

Init == /\ tx = NoRequest /\ conv = NoTalk /\ owed = NoneOwed
        /\ win = NoWindow /\ abandoned = 0
        /\ log = 0
        /\ inflight = {}
        /\ saved = [tx |-> NoRequest, inst |-> 0, abandoned |-> 0]

-----------------------------------------------------------------------------
(* Sending (script_cai_tx_send)                                             *)

Least(a, b) == IF a < b THEN a ELSE b

\* script_cai_new_id: a number that is not in use.
Fresh(used) == CHOOSE n \in 1 .. Cardinality(used) + 1 : n \notin used

RidsInUse == {r.rid : r \in inflight} \cup {tx.rid, saved.tx.rid}
JobsInUse == {r.job : r \in inflight} \cup {conv.job, owed.cancel, owed.ack, log}
                \cup {t.job : t \in {q \in {tx, saved.tx} : q.rid # 0}}

\* The engine collects all bodies in one unlocked buffer: requests that are in
\* flight together may corrupt each other.
Launched(r) == IF inflight = {} THEN {r}
               ELSE {[q EXCEPT !.mixed = TRUE] : q \in inflight \cup {r}}

\* send_message_to_url, with the globals that remember the request.
Transmit(op, job) ==
    \E rid \in {Fresh(RidsInUse)} :
        /\ tx' = [rid |-> rid, op |-> op, job |-> job, since |-> 0, inst |-> win.inst]
        /\ inflight' = Launched([rid |-> rid, op |-> op, job |-> job, mixed |-> FALSE])

\* Mutant of TxSend: the guard is missing.
TxSend_WhileBusy(op, job) == Transmit(op, job)

\* Sends nothing while a request is outstanding.
TxSend(op, job) == \/ tx.rid = 0 /\ Transmit(op, job)
                   \/ tx.rid # 0 /\ UNCHANGED <<tx, inflight>>

-----------------------------------------------------------------------------
(* The window                                                               *)

\* ti_on_presentation_load: the conversation starts afresh, the transport does
\* not; the new clock starts at 0, the stamp of an old request stays ahead of it.
OpenWindow ==
    /\ ~win.open /\ win.inst < MaxOpens
    /\ \E companion \in Companions :
          win' = [open |-> TRUE, inst |-> win.inst + 1, age |-> 0,
                  companion |-> companion, chosen |-> ~companion]
    /\ conv' = NoTalk
    /\ owed' = NoneOwed
    /\ \E ahead \in 0 .. MaxStale : tx' = [tx EXCEPT !.since = -ahead]
    /\ UNCHANGED <<abandoned, log, inflight, saved>>

\* Continue this history, or a new branch.
ChooseMemory ==
    /\ win.open /\ ~win.chosen
    /\ win' = [win EXCEPT !.chosen = TRUE]
    /\ UNCHANGED <<tx, conv, owed, abandoned, log, inflight, saved>>

\* Mutant of SayJob: it does not wait for the transport.
SayJob_WhileBusy(job) ==
    /\ win.open /\ ~Waiting /\ win.chosen /\ owed.ack = 0
    /\ conv' = [conv EXCEPT !.state = "SUBMITTING", !.job = job, !.waited = 0]
    /\ TxSend("TALK", job)
    /\ UNCHANGED <<owed, win, abandoned, log, saved>>

\* The button Say, with the id drawn for the talk.  It does not wait for the run
\* trigger to have displayed the reply that the callback has just left.
SayJob(job) ==
    /\ win.open /\ tx.rid = 0 /\ ~Waiting /\ win.chosen /\ owed.ack = 0
    /\ conv' = [conv EXCEPT !.state = "SUBMITTING", !.job = job, !.waited = 0]
    /\ TxSend("TALK", job)
    /\ UNCHANGED <<owed, win, abandoned, log, saved>>

Say == \E job \in {Fresh(JobsInUse)} : SayJob(job)

\* The button Cancel: a logical cancel, the transport is left alone.
CancelTalk ==
    /\ win.open /\ Waiting
    /\ conv' = [conv EXCEPT !.state = "CANCELED", !.new = TRUE, !.text = 0]
    /\ owed' = [owed EXCEPT !.cancel = conv.job]
    /\ UNCHANGED <<tx, win, abandoned, log, inflight, saved>>

\* The button Reset, for a request older than this window: its callback may
\* still come, and is counted as a stray one.
Reset ==
    /\ win.open /\ tx.rid # 0 /\ tx.inst # win.inst /\ win.age >= ResetMs
    /\ abandoned < MaxAbandoned /\ Cardinality(inflight) < MaxInFlight
    /\ tx' = Idle(tx)
    /\ abandoned' = abandoned + 1
    /\ UNCHANGED <<conv, owed, win, log, inflight, saved>>

\* cai_close, by the button or by the escape key.
CloseWindow ==
    /\ win.open
    /\ win' = [win EXCEPT !.open = FALSE]
    /\ \/ /\ conv.job # 0 /\ conv.state # "READY"
          /\ conv' = [conv EXCEPT !.state = "CANCELED"]
          /\ TxSend("CANCEL", conv.job)
       \/ /\ conv.job = 0 \/ conv.state = "READY"
          /\ UNCHANGED <<conv, tx, inflight>>
    /\ log' = 0
    /\ UNCHANGED <<owed, abandoned, saved>>

\* Mutant of OwedAck: a reason is acknowledged like a reply.
OwedAck_Anything == IF conv.new /\ win.companion THEN conv.job ELSE owed.ack

\* The ack that is owed once the run trigger has displayed what is new.
OwedAck == IF conv.new /\ win.companion /\ conv.state = "READY"
           THEN conv.job ELSE owed.ack

\* Mutant of GivesUp: it never does.
GivesUp_Never(waited) == FALSE

\* The give-up of a conversation that is still waiting.
GivesUp(waited) == Waiting /\ waited >= GiveUpMs

\* Mutant of SendsAck: it is sent only between polls.
SendsAck_WhilePolling(ack, since) ==
    tx.rid = 0 /\ owed.cancel = 0 /\ ack # 0 /\ since >= PollMs /\ conv.state = "PENDING"

\* What the run trigger sends when the transport is idle: the owed cancel,
\* else the owed ack, else the next poll.
SendsCancel == tx.rid = 0 /\ owed.cancel # 0
SendsAck(ack, since) ==
    tx.rid = 0 /\ owed.cancel = 0 /\ ack # 0 /\ since >= PollMs

SendsPoll(ack, since, waited) ==
    /\ tx.rid = 0 /\ owed.cancel = 0 /\ since >= PollMs
    /\ conv.state = "PENDING" /\ ~GivesUp(waited) /\ ~SendsAck(ack, since)

Sends(ack, since, waited) ==
    \/ /\ SendsCancel
       /\ Transmit("CANCEL", owed.cancel)
       /\ owed' = [cancel |-> 0, ack |-> ack]
    \/ /\ SendsAck(ack, since)
       /\ Transmit("ACK", ack)
       /\ owed' = [owed EXCEPT !.ack = ack]
    \/ /\ SendsPoll(ack, since, waited)
       /\ Transmit("RESULT", conv.job)
       /\ owed' = [owed EXCEPT !.ack = ack]
    \/ /\ ~(SendsCancel \/ SendsAck(ack, since) \/ SendsPoll(ack, since, waited))
       /\ tx' = [tx EXCEPT !.since = since]
       /\ owed' = [owed EXCEPT !.ack = ack]
       /\ UNCHANGED inflight

\* ti_on_presentation_run, passed ticks after the last one: it displays what is
\* new, gives up, and sends.
Run(passed) ==
    /\ win.open
    /\ win' = [win EXCEPT !.age = Least(@ + passed, ResetMs)]
    /\ log' = IF ~conv.new THEN log ELSE IF conv.state = "READY" THEN conv.text ELSE 0
    /\ \E waited \in {IF Waiting THEN Least(conv.waited + passed, GiveUpMs) ELSE 0} :
          /\ conv' = [conv EXCEPT !.waited = waited,
                                  !.state = IF GivesUp(waited) THEN "FAILED" ELSE @,
                                  !.text  = IF GivesUp(waited) THEN 0 ELSE @,
                                  !.new   = GivesUp(waited)]
          /\ Sends(OwedAck, Least(tx.since + passed, PollMs), waited)
    /\ UNCHANGED <<abandoned, saved>>

-----------------------------------------------------------------------------
(* The callback (script_game_receive_url_response)                          *)

\* Mutant of ForConversation: a canceled conversation takes an answer.
ForConversation_Always ==
    /\ tx.op \in {"TALK", "RESULT"} /\ win.open
    /\ tx.inst = win.inst /\ tx.job = conv.job

\* The outstanding request is for the conversation, which waits for it.
ForConversation ==
    /\ tx.op \in {"TALK", "RESULT"} /\ win.open
    /\ tx.inst = win.inst /\ tx.job = conv.job /\ Waiting

\* Case (a): nothing is outstanding.
DropIdle(f) == tx.rid = 0 /\ UNCHANGED <<tx, conv, owed, abandoned>>

\* Mutant of Stray: every answer with another rid is dropped.
Stray_Always(f) == tx.rid # 0 /\ f.wf /\ f.rid # tx.rid

\* Case (c): an answer with another rid, and an abandoned request it may be to.
Stray(f) == tx.rid # 0 /\ f.wf /\ f.rid # tx.rid /\ abandoned > 0

DropStray(f) ==
    /\ Stray(f)
    /\ abandoned' = abandoned - 1
    /\ UNCHANGED <<tx, conv, owed>>

\* Mutant of Ours: the rid is not compared.
Ours_AnyRid(f) == tx.rid # 0 /\ f.wf /\ ~Stray(f)

\* Case (b): a well-formed answer to the outstanding request.
Ours(f) == tx.rid # 0 /\ f.wf /\ f.rid = tx.rid

\* Mutant of Acknowledged: every answer to an ack counts.
Acknowledged_ByAnyCode(f) == win.open /\ tx.inst = win.inst /\ tx.op = "ACK"

Acknowledged(f) == /\ tx.op = "ACK" /\ f.code = "READY"
                   /\ win.open /\ tx.inst = win.inst

\* The conversation takes the answer: a reply, "pending", or a reason.
Taken(f) ==
    CASE f.code = "READY"    -> [conv EXCEPT !.state = "READY", !.new = TRUE, !.text = f.job]
      [] f.code = "PENDING"  -> [conv EXCEPT !.state = "PENDING"]
      [] f.code = "CANCELED" -> [conv EXCEPT !.state = "CANCELED", !.new = TRUE, !.text = 0]
      [] OTHER               -> [conv EXCEPT !.state = "FAILED", !.new = TRUE, !.text = 0]

Complete(f) ==
    /\ Ours(f)
    /\ tx' = Idle(tx)
    /\ owed' = IF Acknowledged(f) THEN [owed EXCEPT !.ack = 0] ELSE owed
    /\ conv' = IF ForConversation THEN Taken(f) ELSE conv
    /\ UNCHANGED abandoned

\* Case (d): no answer, a malformed one, or our own with a wrong rid.
Fail(f) ==
    /\ tx.rid # 0 /\ ~Stray(f) /\ ~Ours(f)
    /\ tx' = Idle(tx)
    /\ conv' = IF ForConversation
               THEN [conv EXCEPT !.state = "FAILED", !.new = TRUE, !.text = 0]
               ELSE conv
    /\ UNCHANGED <<owed, abandoned>>

\* What request r may come back as: the server's answer about r's job, or a
\* fault.  A mixed body is another one's whole, or not well-formed.
Answers(rid, job) == [wf : {TRUE}, rid : {rid}, job : {job}, code : Codes]
NoAnswer == [wf |-> FALSE, rid |-> 0, job |-> 0, code |-> "OTHER"]

Frames(r) ==
    Answers(r.rid, r.job)
      \cup (IF "no_answer" \in Faults \/ r.mixed THEN {NoAnswer} ELSE {})
      \cup (IF "wrong_rid" \in Faults THEN Answers(Fresh(RidsInUse), r.job) ELSE {})
      \cup (IF r.mixed THEN UNION {Answers(q.rid, q.job) : q \in inflight} ELSE {})

\* The engine makes one callback per request, whether the window is open or not.
Receive(r, f) ==
    /\ DropIdle(f) \/ DropStray(f) \/ Complete(f) \/ Fail(f)
    /\ inflight' = inflight \ {r}
    /\ UNCHANGED <<win, log, saved>>

Callback(r) == \E f \in Frames(r) : Receive(r, f)

-----------------------------------------------------------------------------
(* Savegames                                                                *)

SaveGame ==
    /\ Saves /\ ~win.open
    /\ saved' = Globals
    /\ UNCHANGED <<tx, conv, owed, win, abandoned, log, inflight>>

\* Loading in the same process: its requests stay in flight.
LoadGame ==
    /\ Saves /\ ~win.open /\ Cardinality(inflight) < MaxInFlight
    /\ Restore(saved)
    /\ UNCHANGED <<log, inflight, saved>>

\* The process ends, or crashes, and a new one loads the game.
RestartGame ==
    /\ Saves
    /\ Restore(saved)
    /\ inflight' = {} /\ log' = 0
    /\ UNCHANGED saved

-----------------------------------------------------------------------------
Next == \/ OpenWindow \/ ChooseMemory \/ Say \/ CancelTalk \/ Reset \/ CloseWindow
        \/ \E passed \in {0, 1} : Run(passed)
        \/ \E r \in inflight : Callback(r)
        \/ SaveGame \/ LoadGame \/ RestartGame

Spec == Init /\ [][Next]_vars

\* While the window is open the engine runs its trigger every frame, and its
\* clock goes on.  Nothing is assumed of the player.
RunsFair == WF_vars(Run(1))

\* Nor of the server, which may hang: no Callback need ever come.
FairSpec == Spec /\ RunsFair

-----------------------------------------------------------------------------
(* Properties                                                               *)

Rid == Nat \ {0}
TxType   == [rid : Nat, op : Ops, job : Nat, since : Int, inst : Nat]
ConvType == [state : {"IDLE", "SUBMITTING", "PENDING"} \cup Terminal, job : Nat,
             waited : Nat, new : BOOLEAN, text : Nat]
OwedType == [cancel : Nat, ack : Nat]
WinType  == [open : BOOLEAN, inst : Nat, age : Nat, companion : BOOLEAN, chosen : BOOLEAN]

TypeOK == /\ tx \in TxType /\ conv \in ConvType /\ owed \in OwedType
          /\ win \in WinType /\ abandoned \in Nat /\ log \in Nat
          /\ inflight \subseteq [rid : Rid, op : Ops, job : Rid, mixed : BOOLEAN]
          /\ saved \in [tx : TxType, inst : Nat, abandoned : Nat]

\* "At most one request in flight" (docs/http-ipc.md): until a savegame is
\* loaded, whatever is in flight besides the outstanding request is one that
\* Reset abandoned and counts.
InFlightIsAccountedFor ==
    ~Saves => Cardinality(inflight) <= abandoned + (IF tx.rid = 0 THEN 0 ELSE 1)

\* The reply displayed in a conversation is the one to its own talk, whatever
\* strays in from abandoned requests or comes out of a mixed buffer.
ReplyIsOwn == conv.state = "READY" => conv.text = conv.job

\* A waiting conversation is never left without a next step, as the mod sees it:
\* $cai_tx_* holds its talk until that is answered, and then nothing but its own
\* polls and cancels, after which the run trigger may send.  (That the engine
\* still has the request is more than the mod can know: OwnCallbackCompletes.)
NobodyWaitsForNothing ==
    win.open =>
        /\ conv.state = "SUBMITTING" =>
              tx.rid # 0 /\ tx.op = "TALK" /\ tx.job = conv.job /\ tx.inst = win.inst
        /\ conv.state = "PENDING" /\ tx.rid # 0 =>
              tx.op \in {"RESULT", "CANCEL"} /\ tx.inst = win.inst

\* A transport that is busy with nothing in flight (a savegame brought it back)
\* is one that this window offers Reset for.
StuckCanBeReset ==
    win.open /\ tx.rid # 0 /\ inflight = {} => tx.inst # win.inst

\* What ended a conversation stays: no late answer revives a canceled one.
TerminalIsFinal ==
    [][conv.state \in Terminal /\ conv'.job = conv.job
          => \/ conv'.state = conv.state
             \/ conv'.state = "CANCELED" /\ win.open /\ ~win'.open]_vars

\* The rule for strays is there lest it leave "the transport busy with no request
\* left to complete it": the callback of the outstanding request, where nothing
\* else is in flight, completes the transport.
OwnCallbackCompletes ==
    [][\A r \in inflight :
          inflight = {r} /\ r.rid = tx.rid /\ Callback(r) => tx'.rid = 0]_vars

\* No conversation waits for ever, though the server may hang: the window gives
\* up by itself.
ConversationEnds == (win.open /\ Waiting) ~> ~(win.open /\ Waiting)
=============================================================================
