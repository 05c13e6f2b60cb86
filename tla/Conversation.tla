---------------------------- MODULE Conversation ----------------------------
(***************************************************************************)
(* End to end: the game's window and transport (GameTransport) and the     *)
(* server's memory (Memory) with the requests between them, for one        *)
(* companion.  A request is served at most once, at any time before its    *)
(* callback; the connection may break before or after that, statements may *)
(* fail, and the server may restart, which breaks every connection.        *)
(*                                                                         *)
(* GameTransport lets an answer have any code; here it is the code that    *)
(* the memory gives.  Each window is a conversation of its own, because a  *)
(* session id is drawn whenever it is opened.                              *)
(***************************************************************************)
EXTENDS Integers, FiniteSetsExt

CONSTANTS
    PollMs, GiveUpMs, ResetMs, \* as in GameTransport
    DbFails,                   \* as in Memory
    Campaign, Companion, None, \* the branch, the npc, no value
    MaxOpens,                  \* bound of the windows
    MaxTalks                   \* bound of the talks that reach the server

ASSUME TalksAssumption == MaxOpens \in Nat \ {0} /\ MaxTalks \in Nat \ {0}

VARIABLES
    tx, conv, owed, win, abandoned, log, inflight, saved,  \* the game
    attempts, npcOf, messages, running, next, store,       \* the server
    net,   \* the requests in flight, as the server sees them
    shown  \* auxiliary: the exchanges whose reply the window has displayed

gameVars   == <<tx, conv, owed, win, abandoned, log, inflight, saved>>
serverVars == <<attempts, npcOf, messages, running, next, store>>
vars       == <<gameVars, serverVars, net, shown>>

Spoken == [npc |-> Companion, day |-> 1]

\* Without Reset and savegames there is one request in flight.
Game == INSTANCE GameTransport WITH
    Faults <- {"no_answer"}, Companions <- {TRUE}, Saves <- FALSE,
    MaxStale <- 0, MaxAbandoned <- 0, MaxInFlight <- 1

\* A worker's number for every attempt of every window.
Mem == INSTANCE Memory WITH
    Branch <- {Campaign}, Session <- 1 .. MaxOpens, JobId <- 1 .. MaxTalks,
    Npc <- {Companion}, Talk <- {Spoken}, RecallRows <- 2,
    WorkerLimit <- MaxTalks + 1, MaxAttempts <- MaxTalks

\* The assumptions of the parts about what they have in common here.
ASSUME ClockAssumption  == PollMs \in Nat \ {0} /\ GiveUpMs \in Nat \ {0} /\ ResetMs \in Nat
ASSUME ServerAssumption == Mem!DbAssumption /\ Mem!NoneAssumption

KeyOf(session, job) == [branch |-> Campaign, session |-> session, job |-> job]
KeyIn(q) == KeyOf(q.session, q.job)

\* code: what the server has answered; "none": nothing yet; "dead": the process
\* that had the connection is gone.
Request == [rid : Nat \ {0}, op : Game!Ops, job : 1 .. MaxTalks, session : 1 .. MaxOpens,
            code : Game!Codes \cup {"none", "dead"}]

Init == Game!Init /\ Mem!Init /\ net = {} /\ shown = {}

-----------------------------------------------------------------------------
(* The game                                                                 *)

\* What the window sends goes out with the session id of this window.
Send == net' = net \cup {[rid |-> r.rid, op |-> r.op, job |-> r.job,
                          session |-> win.inst, code |-> "none"] : r \in inflight' \ inflight}

\* The id of a talk is not one that the server or the game still knows.
NewJob == Game!Fresh(Game!JobsInUse
                       \cup {k.job : k \in {a \in Mem!Key : attempts[a] # None}})
Say == NewJob <= MaxTalks /\ Game!SayJob(NewJob)

Click == /\ \/ Game!OpenWindow \/ Game!ChooseMemory \/ Say \/ Game!CancelTalk
            \/ Game!CloseWindow
         /\ Send
         /\ UNCHANGED <<serverVars, shown>>

\* The run trigger displays a reply that is new.
Frame(passed) ==
    /\ Game!Run(passed)
    /\ Send
    /\ shown' = IF conv.new /\ conv.state = "READY"
                THEN shown \cup {KeyOf(win.inst, conv.text)} ELSE shown
    /\ UNCHANGED serverVars

-----------------------------------------------------------------------------
(* The server                                                               *)

\* The answer about an attempt: of a talk that was refused there is no row.
CodeOf(row) ==
    IF row = None THEN "OTHER"
    ELSE CASE row.state \in {"ready", "committed"} -> "READY"
           [] row.state = "pending"                -> "PENDING"
           [] row.state = "canceled"               -> "CANCELED"
           [] OTHER                                -> "OTHER"

Replied(q, code) == net' = (net \ {q}) \cup {[q EXCEPT !.code = code]}

StateNow(k) == IF attempts[k] = None THEN "none" ELSE Mem!Collected(Mem!Finished)[k].state
MayTalk(k) == attempts[k] = None /\ Mem!MayAdmit(k, Spoken)

\* What a request does to the memory.
Effect(q) ==
    LET k == KeyIn(q) IN
    \/ q.op = "TALK"   /\ (Mem!Admit(k, Spoken) \/ Mem!AdmitRefused(k, Spoken))
    \/ q.op = "TALK"   /\ ~MayTalk(k) /\ Mem!Answer
    \/ q.op = "RESULT" /\ Mem!Answer
    \/ q.op = "CANCEL" /\ Mem!Cancel(k)
    \/ q.op = "CANCEL" /\ StateNow(k) \notin {"pending", "ready"} /\ Mem!Answer
    \/ q.op = "ACK"    /\ Mem!Ack(k)
    \/ q.op = "ACK"    /\ StateNow(k) # "ready" /\ Mem!Answer

Serve(q) ==
    /\ q.code = "none"
    /\ Effect(q)
    /\ Replied(q, CodeOf(attempts'[KeyIn(q)]))
    /\ UNCHANGED <<gameVars, shown>>

\* "memory_unavailable": a statement fails.
ServeFails(q) ==
    /\ q.code = "none" /\ DbFails
    /\ \/ Mem!Answer \/ Mem!CollectFails
       \/ q.op = "TALK" /\ Mem!AdmitRefusedUnrecorded(KeyIn(q), Spoken)
    /\ Replied(q, "OTHER")
    /\ UNCHANGED <<gameVars, shown>>

Work == /\ \E w \in Mem!Worker : Mem!StoreSettles(w) \/ Mem!StoreDrops(w)
        /\ UNCHANGED <<gameVars, net, shown>>

Restart == /\ Mem!Restart
           /\ net' = {[q EXCEPT !.code = "dead"] : q \in net}
           /\ UNCHANGED <<gameVars, shown>>

-----------------------------------------------------------------------------
(* The callback                                                             *)

Completes(q, frame) ==
    /\ \E r \in inflight : r.rid = q.rid /\ Game!Receive(r, frame)
    /\ net' = net \ {q}
    /\ UNCHANGED <<serverVars, shown>>

Deliver(q) ==
    /\ q.code \in Game!Codes
    /\ Completes(q, [wf |-> TRUE, rid |-> q.rid, job |-> q.job, code |-> q.code])

\* The connection breaks before the request is served, or before its answer is
\* read.
Lose(q) == Completes(q, Game!NoAnswer)

Next == \/ Click
        \/ \E passed \in {0, 1} : Frame(passed)
        \/ \E q \in net : Serve(q) \/ ServeFails(q) \/ Deliver(q) \/ Lose(q)
        \/ Work \/ Restart

Spec == Init /\ [][Next]_vars

\* The open window's trigger runs, and no request hangs for ever.  Of acks that
\* are sent again and again one is served, of those that are answered again and
\* again one answer arrives.
FairSpec == /\ Spec
            /\ WF_vars(Frame(1))
            /\ WF_vars(\E q \in net : Deliver(q) \/ Lose(q))
            /\ SF_vars(\E q \in net : q.op = "ACK" /\ Serve(q))
            /\ SF_vars(\E q \in net : q.op = "ACK" /\ q.code = "READY" /\ Deliver(q))

-----------------------------------------------------------------------------
(* Properties                                                               *)

Here(k) == win.open /\ k.session = win.inst
Known(k) == Mem!StateOf(k) \in {"ready", "committed"}

\* As long as a window shows a reply, the server has it, provisional or
\* committed: no restart, expiry in the store, superseding or late cancel takes
\* it away.
ShownIsKept ==
    win.open /\ conv.state = "READY" => Known(KeyOf(win.inst, conv.text))

\* "Only an explicit client ACK turns an attempt into dialogue history", and the
\* window acknowledges what it has displayed: the history holds only what the
\* player has seen, though replies are made that never reach the window.
OnlyTheShownIsRemembered ==
    \A k \in Mem!Key : Mem!StateOf(k) = "committed" => k \in shown

\* The window forgets an ack only when the exchange is durable.
ConfirmedIsRemembered ==
    [][\A k \in Mem!Key :
          Here(k) /\ owed.ack = k.job /\ owed'.ack # k.job /\ win'.inst = win.inst
             => Mem!StateOf(k) = "committed"]_vars

\* What was shown is remembered, if the window stays open and the server can be
\* reached now and then.
ShownIsRemembered ==
    \A job \in 1 .. MaxTalks :
        (win.open /\ KeyOf(win.inst, job) \in shown)
            ~> (~win.open \/ (/\ Mem!StateOf(KeyOf(win.inst, job)) = "committed"
                              /\ owed.ack # job))
=============================================================================
