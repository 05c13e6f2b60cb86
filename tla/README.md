# Calradia AI: TLA+ models, checks and proofs

Calradia AI lets the player of Mount & Blade: Warband talk to characters whose
replies a language model makes. A mod in the game sends HTTP GET requests to a
small Rust server on the same machine; the server keeps jobs, asks an upstream
model server for replies, and remembers acknowledged conversations in SQLite.
The repository also builds the mod with a Python port of the game's Module
System compiler.

This directory holds TLA+ modules of the parts whose correctness depends on
order, time, failure or on what becomes of data on its way, TLC configurations
that check them on small instances, and TLAPS proofs of theorems about them:
the job store, the game's window and transport, the server's memory, the last
two together end to end, what crosses the wire, the build driver, and the
compiler's registers.

## 1. The system

### 1.1 Components

| Component | Source | State it keeps | Operations | Interacts through |
|---|---|---|---|---|
| Job store and worker | `calradia-server/src/jobs.rs` | `Inner`: map of jobs, queue, the running job with a clone of its upstream socket; all behind one mutex and one condition variable | `talk`, `result`, `cancel` (connection threads); `next_job`, `attach`, `finish` (worker thread) | called by the shell and by the memory; socket shutdown reaches the worker's read |
| Upstream client | `upstream.rs` | none (one socket per request) | resolve, connect, post under the job's deadline, parse; the canned backend | called by the worker; calls `attach` back |
| Persistent memory (v2) | `living.rs` | SQLite tables campaigns, conversations, attempts, messages; in memory: attempt to worker map, next worker number; one mutex | `respond` for talk, result, cancel, ack; `open` with recovery | calls the job store; its prompt recalls the history |
| Server shell | `main.rs` | counters, options | a thread per connection; fault modes (hang, close, empty, malformed, wrong rid) | calls protocol, store, memory |
| Request framing | `http.rs`, `protocol.rs` | none | parse a request, validate parameters, frame an answer | |
| Sanitizer | `sanitize.rs` | none | reduce text to what the game can show | |
| Characters, v1 prompt | `npc.rs`, `prompt.rs` | constants | | |
| Game window, transport, callback | `mods/calradia_ai/overlay/*.py` | global variables `$cai_...`, which savegames keep | presentation `cai_talk` (load, run trigger every frame, clicks), `cai_tx_send`, `cai_close`, `game_receive_url_response` | the engine: one unordered, unlocked HTTP facility with no timeout and no request id |
| Build driver | `src/modsys/build.py` | files | run passes to a fixpoint of ID files, check, publish with a marker | runs the compiler |
| module_data generator | `src/modsys/module_data.py` | files | text to constants | |
| Module System compiler | `game/module_system/process_*.py` | registers of global variables and quick strings | passes over the mod's scripts | |

Tests, tools, golden files and the vendored Native module are data for this
project: statements of intent, not behaviour.

### 1.2 What is hard

* **Store.** The clock is read before the lock and sockets are shut down after
  it, so handlers act on stale times and their aborts come late. The worker
  works without the lock and knows its run by job id only. One admission
  supersedes, expires and evicts; a busy answer may do none of it.
* **Game.** Replies come in completion order, with no id of the engine's own,
  or never. The player cancels, closes, resets, saves and loads at any
  moment. The state that decides whose reply it is survives in savegames; the
  requests themselves do not.
* **Memory.** A durable row and a volatile job describe one attempt: the
  process may stop between them, the store may forget a job, a statement may
  fail between two that belong together, an ack may be repeated.
* **Wire.** A request's bytes come in any pieces; any layer may cut it, and what
  is left of a number is a number; a response may be framed in three ways, follow interim responses and
  end at any byte; the engine takes a field of digits for an integer.
* **Build.** A crash while publishing; passes that do not converge; two changes
  of the IDs within one pass that a comparison of its ends would not see; edits
  during a build.
* **Compiler.** Twenty processes share registers through files. Any of them may
  extend a register the others have already numbered by; ids of texts are cut
  short; savegames hold globals by their index.

`PROJECT.json` lists the hazards one by one, each at its line.

### 1.3 What makes each component correct

* Store: no job lost or run twice; one pending job per npc and scope; limits;
  deadlines win over results; outcomes belong to their jobs; aborts hit the
  right request; the worker sleeps only when idle; every job settles.
* Game: what is in flight is the outstanding request or an abandoned one; a
  reply is displayed in its own conversation; a conversation ends once and for
  all, and ends even if the server hangs; a stuck transport can always be reset.
* Memory: the history is the acknowledged exchanges, whole and once; what is
  over stays over across crashes; a reply belongs to its attempt; one open
  exchange per conversation; every attempt ends.
* Game and memory together: what the player has seen is kept and in the end
  remembered; what he has not seen is never remembered.
* Wire: only what was put into the URL is admitted; a message is read as it was framed; the
  engine takes an answer apart as the server put it together; a reply that was
  found good stays good on its way.
* Build: the published result is a fixpoint that every stage agrees on; output
  is complete, or not marked; a synchronised tree builds in one pass.
* Compiler: a global has one index in all stages, and keeps it in the next
  build; a reference to a text leads to that text.

## 2. Modules

| Module | Models | |
|---|---|---|
| `JobStore` | `jobs.rs` and the worker's part of `upstream.rs` | detailed |
| `JobContract` | what a client of the store may see of a job id | abstract; implemented by `JobStore` (`KeepsTheContract`), relied on by `Memory` (`StoreKeepsItsContract`) |
| `MCJobStore` | handler symmetry for TLC | |
| `JobStoreSafety`, `JobStoreOutcomes` | theorems about `JobStore`: types, books and limits; outcomes, aborts and the contract | proved |
| `GameTransport` | the mod's window, transport and callback around an external engine | detailed |
| `GameTransportProofs` | theorems about it | proved |
| `Memory` | `living.rs` above a store that is known by its contract | detailed |
| `MCMemory` | the talks of the small instance | |
| `MemoryProofs` | theorems about it | proved |
| `Conversation` | the window, the memory and the requests between them | composition of `GameTransport` and `Memory` |
| `ConversationProofs` | theorems about it, from those about its parts | proved |
| `BuildDriver` | `build.py` over unknown stages | detailed |
| `MCBuildDriver` | small stages, trees and edits | |
| `BuildDriverProofs` | theorems about it | proved |
| `Compiler` | `process_*.py`: registers of global variables and quick strings | detailed |
| `MCCompiler` | small modules made of blocks | |
| `CompilerProofs` | theorems about it | proved |
| `RequestReader` | how `http.rs` reads a request and takes its query apart | part of `Wire` |
| `ResponseReader` | how `upstream.rs` reads a response | part of `Wire` |
| `Sanitizer` | `sanitize.rs` | operators used by `Wire` |
| `Wire` | one exchange from the request to the frame: `protocol.rs`, `living.rs`, `jobs.rs` as far as they touch the text | composition |
| `MCWire` | requests, responses and texts of the instance | |
| `WireProofs` | theorems about `Wire` and `Sanitizer` | proved |

### 2.1 JobStore

State: `clock` is `Instant::now()`; `jobs`, `queue`, `running` are the fields
of `Inner`; `worker` and `handler` are the program counters and locals of the
threads; `shut` is the set of runs whose socket has been shut down. `admitted`
and `first` are ghosts: a serial number per admission, which stands for the
position in the queue and tells apart two uses of one job id. The code has no
such number, and no guard of the model that stands for a comparison in the
code reads it except where the queue's order is meant.

Each locked section of the code is one action, with everything it calls:

| Code | Action |
|---|---|
| a request arrives, `Instant::now()` | `Arrive` |
| `talk_with_prompt` (sweep, then answer of a known id, busy, or admission with settle/evict/insert/notify) | `TalkKnown`, `TalkBusy`, `TalkAdmitted` |
| `result`, `cancel` | `Result`, `Cancel` |
| shutdown of the sockets collected under the lock | `ShutDown` |
| `next_job` | `NextJob`, `NothingToRun`, `SpuriousWakeup` |
| connect, `attach`, post | `ConnectFails`, `ConnectTimesOut`, `Attach`, `Respond`, `PostTimesOut`, `PostAborted`, `CannedReply` |
| `finish` | `Finish` |

A helper such as `Settle` or `Sweep` maps a record `[jobs, queue, running,
kill]`, the locked `Inner` with the sockets to shut down, to a new one, as the
code's methods mutate `self` and return the sockets.

Abstracted: texts of prompts and replies (the serial of the run stands for a
reply), the fingerprint's fields other than npc and scope (`Words`), three
upstream errors into one.

### 2.2 GameTransport

State: `tx`, `conv`, `owed`, `win`, `abandoned` are the mod's globals grouped
by what they are about; `log` is the reply displayed last; `inflight` is the
engine's set of requests; `saved` is a savegame. Actions: `OpenWindow`,
`ChooseMemory`, `Say`, `CancelTalk`, `Reset`, `CloseWindow` (clicks and load),
`Run` (the run trigger of one frame, with the time that passed), `Callback`
(the whole of `game_receive_url_response`: drop on an idle transport, drop of
a stray frame, completion, failure), `SaveGame`, `LoadGame`, `RestartGame`.

The engine is outside the repository. As `docs/http-ipc.md` and the code's
guards describe it, it makes at most one callback per request in any order,
and two bodies in flight together may be mixed (`mixed`). Time stamps are
modelled as differences saturated just above the largest constant they are
compared with. Ids are drawn at random from 900 million in the code; the model
draws one that is not in use, so a collision is outside the model.

### 2.3 Memory

State: `attempts`, `npcOf`, `messages` are the tables (`campaigns` holds no
information of its own); `running`, `next` are the fields of the struct
`Memory`; `store` is the job store as far as the memory can see it. The mutex
is held for a whole request, so a request is one action: `collect_finished`
followed by what the request does. `Finished`, `Recorded`, `Collected` and
`Drained` are `collect_finished`; `Cancel`, `Ack`, `Admit` and its refusals
are the branches of `respond_inner`; `Recalled` is the set of ids of the
messages that a prompt gets (`ORDER BY id DESC LIMIT`, put back in order); `Answer` is every request that changes
nothing further, or whose next statement fails. `CollectFails`, `AckFails` and
`AdmitRefusedUnrecorded` are statements that fail (`DbFails`); a transaction
is all or nothing. A crash between two statements of a request leaves the
durable state some action leaves, followed by `Restart`, because the only
changes outside a transaction are single updates, made last. `Restart` is
`Living::open`: it turns pending rows into failed ones and starts with an
empty store, as the store lives in the same process.

The store beside it acts by itself (`StoreSettles`, `StoreDrops`). That this,
with the memory's own calls, stays within `JobContract` is checked
(`StoreKeepsItsContract`), and `JobStore` implements the same contract
(`KeepsTheContract`); both are proved, and the two modules meet there. It also shows why `Admit`
needs no superseding: the memory never submits a second job on a conversation
that has one pending.

### 2.4 Conversation

The composition of `GameTransport` and `Memory` (two INSTANCEs on shared
variables), for one companion. `net` is `inflight` as the server sees it: a
request carries the session id of its window (the model: the number of the
window, since one is drawn whenever the window opens) and is served at most
once, at any time before its callback (`Serve`, `ServeFails`). Where
`GameTransport` lets an answer have any code, here `Deliver` brings the code
that the memory gave (`CodeOf`, `living.rs` reply). `Lose` is a connection
that breaks before the request was served or before its answer was read.
`Restart` breaks every connection. `shown` records the exchanges whose reply
the window has displayed; nothing reads it but the properties.

### 2.5 BuildDriver

State: the base tree, the overlay, the output directory with its temporary
files and its marker, and `job`, the local variables of one call of `build`.
A tree maps file names to contents, which are compared and never looked into.
What a stage does to its work tree and to the export directory is given by the
constant operators `StageOk`, `StageTree` and `StageExports`; `Lines` reads a
bat. So the theorems are about any stages that obey the assumptions of
section 4. A stage is one step; publishing a file is two, as `_atomic_write`
writes a temporary file that then takes the file's place; `Interrupt` is the
death of the process, or an `OSError`, at any step; `UserEdits` changes the
trees, also while a build runs, and between any two of the files that a build
copies from them (`CopyBase`, `CopyOverlay`: in any order, of which the code takes
the directory's). An ID file is written back by `_atomic_write`, too
(`WriteSyncTmp`, `Sync`): a kill between the two leaves its temporary file in the
user's tree (`litter`). The next build copies such a file along, but as no stage
reads one, the work tree of the model has none. Reading one file and taking the
snapshots of the IDs are single steps. `saw`, `synced`, `settled` and `edited` are
auxiliary. Left out: the guards on paths, git provenance, options, messages.

### 2.6 Compiler

State: the module's code, the `variables.txt` of the source directory (`seed`),
the three register files of the export directory (`disk`) and the running
process (`stage`): its copy of the registers and its place in the code, as part,
unit (a script, a dialog line), block and operand. One action per operand:
`Scan` is `compile_global_vars_in_statement`, `UseGlobal` `get_variable`,
`UseLocal`, `UseText` (`insert_quick_string_with_auto_id`), `UseId`; `Raise` is
an exception, which ends the unit where the stage catches it and otherwise the
process, which then saves nothing. `Initialize`, `Load`, `Save` move the
registers through the files, `Warn` is the last script of the bat. `Rebuild` is
the user's: edit the module, copy `variables.txt` into the source directory or
not, build again. Indices count from 1; a loop that searches and stops at the
first hit is `Earliest`, and `KeyIndex` takes the last one. Left out: what the tables of objects make of a known
id, dialog tokens, number formats, tag uses, which nothing reads.
`reserved_variables` is empty in this module system.

### 2.7 Wire, with RequestReader, ResponseReader and Sanitizer

One exchange, from the bytes of a request to the frame the engine takes apart.
`RequestReader` is `read_request`: a byte is an end-of-line character, the n-th
byte of the body, or the first byte of a line, which says what is in the line; an
action is one read, of any size up to the buffer's, or the end of the head or of
the body. The bytes may end anywhere. The query of the request line is kept
beside them as a sequence of characters, since its bytes come with the line;
`ParseQuery` splits it and then decodes its parts. `Query` is a template of
`cai_tx_send` with its values in the engine's encoding (`Encode`): a value is what
the engine substitutes for `{s66}` or `{reg60}`, after it has expanded what the
player typed, and holds no character with bytes from 80 on (`NotAscii`), which the
engine encodes wrongly (section 6). `V1Checks` and `V2Checks` are the refusals of `parse_v1` and
`living::parse` in their order, on the parameters that were read; `meant` and
`said` are what the client put into the URL, for the properties only. One number stands for
all that are in their range, with a beginning that is in it, too.
`ResponseReader` reads a response as a sequence of bytes, each of which is plain,
the n-th byte of the payload, or the end of a line with what the line says; an
action is one read of a line or of a block, and the bytes may end anywhere, by
the end of the connection or by silence up to the deadline. `Sends` builds the
bytes from what the upstream meant, with interim responses, contradicting
headers, chunks and flaws. `Sanitizer` is the eight steps of `sanitize.rs` on
characters that each stand for all that the code treats alike; the tags of
`<think>` blocks are two characters each, since a tag may come to be when what is
between its halves is dropped, or when a half loses an accent (`<thi'`). Loops over a text are recursive functions from the number of steps
taken, or of characters looked at, to what the loop has by then: so they can be
reasoned about. `Made` is the check `finish` makes of a reply, `Collect` the
sanitized copy that `collect_finished` stores, `Frame` the frame, and `Fields`
the engine's splitting of a body, which is external. Who asks when belongs to
the other modules; here is what becomes of the text.

## 3. Runs

| Run | Question | Instance | Time |
|---|---|---|---|
| `store_limits` | Do the books of the store balance under admission, superseding, eviction, busy? Does no abort hit the request of another, pending job? | 3 ids, 2 npcs, store of 2, queue of 1 | 20 s |
| `store_races` | Do outcomes, aborts and wakeups reach the right job with stale clocks and late shutdowns? Is the contract kept? | 2 ids, 2 threads, clock to 2 | 2 min |
| `store_settles` | Does every job leave PENDING with an upstream that may hang? | 2 ids, 1 thread, either backend | 2 min |
| `store_reuse` (violation) | Does a reused id get its own outcome? (section 6) | store of 1 | s |
| `game_window` | Are replies their own, ended conversations over, waiting ones held by the transport or free to send, requests accounted for, with late, lost, mixed and wrong answers? Does every conversation end? | 3 windows, 1 Reset | 1.5 min |
| `game_reload` | Savegames: can a transport that nothing will complete always be reset? | 2 windows, 1 savegame, no Reset | 1 min |
| `game_stray` (violation) | Does the callback of the mod's own request, the only one in flight, always complete the transport? (section 6) | 1 Reset, wrong rids | s |
| `memory` | Is the history the acknowledged exchanges, under failures and restarts? Is the store used within its contract? Does every attempt end? | 2 conversations with 2 jobs each, 2 npcs, 2 days, 3 attempts | 2 min |
| `end_to_end` | Is what the player saw kept and remembered, and nothing else? Does the window forget an ack only when the exchange is durable? | 2 windows, 2 talks, broken connections, failing statements, restarts | 1 min |
| `build` | Is what is published a fixpoint of the final tree, whole, and truly marked? Does a synchronised tree build in one pass? Does every build end? | 4 files, 5 stages, 4 passes, 2 edits, 1 interruption | 2 min |
| `compile` | Have globals one index in all stages, and the same after a rebuild? Do texts find their own? | modules of 3 scripts and dialog lines out of 9 blocks, with 3 sets of items and triggers, 2 seeds, one rebuild | 1 min |
| `wire` | Is only what was put into the URL admitted, messages read as framed, an answer readable, a good reply still good when shown? | queries cut at every character or damaged in one place, requests and responses in every form, cut at any byte, texts of up to 8 characters | 1 min |

### 3.1 Bounds, and why they are enough

* Two job ids give a running and a queued job; three with a store of two give
  the evictions, also the one where the victim is the superseded job. Two
  admissions of one id are its reuse. A deadline and a time to live of one
  tick, and a clock that reaches two, make every comparison of the code come
  out both ways; the stale clock of a second thread can lag by both ticks.
  `MaxTime` and `MaxAdmissions` bound the model, not the code.
* The store's queue and limits matter only at the limit, which one job reaches.
* One abandoned request is enough to confuse a second; `MaxInFlight` and
  `MaxOpens` bound how many are left behind and how many windows a run of the
  game has. Three windows let a request of the first be abandoned in the second
  and come back in the third. `MaxStale` bounds how far a stamp of an earlier
  window may be ahead of the new clock. The polls, give-up and reset times keep
  the order of the source's constants, except where a run needs them equal to
  stay small.
* A savegame keeps one state; a second one could only be another state the
  game was in. In `game_reload` Reset is left out (`MaxAbandoned = 0`), so its
  waiting time is 0 there.
* Two jobs in one conversation show busy, repetition and order; two
  conversations show isolation; `RecallRows = 2` makes the limit cut (12 in the
  code: six exchanges).
* `SYMMETRY` is used once (`HandlerSymmetry` in `store_races`, safety only;
  threads are interchangeable, and no property names one).
* The server has one backend for its life; `store_settles` lets each job have
  either, which covers both. The other runs of the store have the upstream.
* In `end_to_end` one request is in flight, as neither Reset nor savegames are
  there; the second window shows what is left of the first, the second talk
  what the first one's ack stands in the way of.
* The stages of `build` are those the driver's own tests use: one that binds
  IDs at import, one that writes them, one that fails while an ID file is stale,
  one that repairs it later in the pass, one that appends to an earlier stage's
  export. One source never settles. Four passes are one more than the longest
  chain of repairs needs.
* The blocks of `compile` cover each role and kind of operand, an operand that
  raises, texts that share an id or a stored form, and a global that only
  unscanned code assigns.
* The limits of `wire` stand in the order of the source's constants
  (`MIN_WORD_CUT < MAX_TEXT - 3`); heads, bodies and responses exceed each by
  one. A read of three bytes ends inside every blank line of four and can cover
  one of two, with bytes of the body. Only one request comes in every form, as what
  its bytes are does not depend on its parameters. Three characters
  out of one of each kind meet every pair of steps; longer texts of letters, spaces
  and ellipses meet the cap; six halves of tags meet nested `<think>` blocks; and
  four of halves, accented halves and characters that are dropped meet each way
  in which a tag comes to be.

The runs of `JobStore`, `Memory` and `BuildDriver` check deadlock: a client may
always ask again, a user always build. The others say `CHECK_DEADLOCK FALSE`
because their systems may stop: once its windows were opened and closed
(`MaxOpens`), the player is free to do nothing more; a module that was rebuilt
once is done; an exchange ends with its answer.

### 3.2 Fairness

* `JobStore!FairSpec`: threads that can go on do. The mutex is held only for
  short sections that call nothing blocking. The worker's own steps, and its
  timeouts (connect with a timeout, reads under a deadline) are fair, and the
  clock goes on. No fairness for `Respond`: the upstream may never answer. No
  fairness for the arrival of requests. Name resolution has no timeout in the
  code; the property is about an upstream given as an address, the default.
* `GameTransport!FairSpec`: the engine runs the open window's trigger every
  frame. Nothing is assumed of the player, and nothing of the server.
* `Memory!FairSpec`: the store settles its jobs (`EveryJobSettles`), and
  requests keep coming, because results are collected by requests only.
* `Conversation!FairSpec`: the trigger runs, a request is answered or its
  connection breaks, and of the acks that are sent again and again one is served
  and the answer of one arrives. Without the last two nothing could be
  remembered: a server that is never reached does not remember.
* `BuildDriver!FairSpec`: a build that can go on does. Stages terminate; the
  driver gives them no timeout.

## 4. Proofs

| Theorem | Module | Says |
|---|---|---|
| `TypeCorrect` | `JobStoreSafety` | `Spec => []TypeOK` |
| `NoJobIsLost` | `JobStoreSafety` | `Spec => []EveryPendingJobHasAPlace` |
| `LinesAreExclusive` | `JobStoreSafety` | `Spec => []OnePendingPerLine` |
| `LimitsAreKept` | `JobStoreSafety` | `Spec => []WithinLimits` |
| `SleepIsIdle` | `JobStoreSafety` | `Spec => []SleepsOnlyWhenIdle` |
| `TheDeadlineWins` | `JobStoreOutcomes` | `Spec => []DeadlineWins` |
| `FirstUseIsItsOwn` | `JobStoreOutcomes` | `Spec => []FirstUseOutcomesAreTheirOwn` |
| `AbortsReachTheWorker` | `JobStoreOutcomes` | `Spec => []AbortReachesTheWorker` |
| `AbortsHitNoPendingJob` | `JobStoreOutcomes` | `Spec => []AbortHitsNoPendingJob` |
| `StoreKeepsTheContract` | `JobStoreOutcomes` | `Spec => KeepsTheContract`: `JobStore` implements `JobContract` |
| `TypeCorrect` | `GameTransportProofs` | `Spec => []TypeOK` |
| `ReplyIsToItsTalk` | `GameTransportProofs` | `Spec => []ReplyIsOwn` |
| `EndedStaysEnded` | `GameTransportProofs` | `Spec => TerminalIsFinal` |
| `SomethingIsAwaited` | `GameTransportProofs` | `Spec => []NobodyWaitsForNothing`, which is about what the mod knows |
| `AwaitedIsComing` | `GameTransportProofs` | `MaxAbandoned = 0 => (Spec => []AwaitedIsInFlight)`: without Reset, the engine has the request that a conversation waits for |
| `NothingElseIsInFlight` | `GameTransportProofs` | `Spec => []InFlightIsAccountedFor` |
| `StuckIsOlder` | `GameTransportProofs` | `MaxAbandoned = 0 => (Spec => []StuckCanBeReset)` |
| `OwesForItsReply` | `GameTransportProofs` | `Spec => []Owes`: no ack but for the reply that is shown, no cancel for a talk that is waited for or whose reply is shown |
| `TypeCorrect` | `MemoryProofs` | `Spec => []TypeOK` |
| `WhatIsOverStaysOver` | `MemoryProofs` | `Spec => AttemptsAreFinal` |
| `OneExchangeAtATime` | `MemoryProofs` | `Spec => []OneOpenExchange` |
| `OnlyAcksAreRemembered` | `MemoryProofs` | `Spec => []HistoryIsTheCommitted` |
| `RepliesAreTheirOwn` | `MemoryProofs` | `Spec => []ReplyIsOfItsAttempt` |
| `ContractIsKept` | `MemoryProofs` | `Spec => StoreKeepsItsContract`: the memory's store implements `JobContract` |
| `RecallsWholeExchanges` | `MemoryProofs` | `Spec => []RecallIsWholeExchanges` |
| `ShownStays` | `ConversationProofs` | `Spec => []ShownIsKept` |
| `OnlyTheSeenIsHistory` | `ConversationProofs` | `Spec => []OnlyTheShownIsRemembered` |
| `NothingConfirmedIsLost` | `ConversationProofs` | `Spec => ConfirmedIsRemembered` |
| `TypeCorrect` | `BuildDriverProofs` | `Spec => []TypeOK` |
| `AcceptedPassesAgree` | `BuildDriverProofs` | `Spec => []EveryStageSawTheFinalTree` |
| `PublishedWhatWasAccepted` | `BuildDriverProofs` | `Spec => []PublishedAsAccepted` |
| `MarkerIsTrue` | `BuildDriverProofs` | `Spec => []MarkerNamesOwnFiles` |
| `OnlyAcceptedIsPublished` | `BuildDriverProofs` | `Spec => OutputIsWhole` |
| `BaseIsTheUsers` | `BuildDriverProofs` | `Spec => BaseIsOnlySynced`: only a `--sync-ids` without overlay writes to the base tree, ID files and temporary files named after them |
| `LitterIsAKills` | `BuildDriverProofs` | `Spec => []LitterIsOfAKill`: such a temporary file in a tree is of the file being written, or was left by a kill |
| `OnlyAFixpointIsPublished` | `BuildDriverProofs` | `Spec => []AcceptedIsAFixpoint` |
| `SyncedIsSettled` | `BuildDriverProofs` | `Spec => []SyncedBuildsInOnePass` |
| `OneIndexForAll` | `CompilerProofs` | `Spec => []GlobalsHaveOneIndex` |
| `SavegamesKeepIndices` | `CompilerProofs` | `Spec => []IndicesAreKept` |
| `TextsFindTheirOwn` | `CompilerProofs` | `Spec => []TextsAreTheirOwn` |
| `MessagesAreRead` | `WireProofs` | `Spec => []MessagesAreReadAsFramed` |
| `RequestsAreRead` | `WireProofs` | `Spec => []RequestsAreReadAsSent`, its half about requests |
| `OnlyTheMeantIsAdmitted` | `WireProofs` | `Spec => []AdmittedIsWhatWasMeant`, when every request is one of the mod, whole or cut, with ASCII values (`OfTheMod`) |
| `SanitizedIsPlain` | `WireProofs` | what `SanitizeText` makes of any text is no longer than `MaxText` and holds nothing the engine would interpret |
| `SanitizeIsIdempotent` | `WireProofs` | a second `SanitizeText` changes nothing, unless a `<think>` came to be in the first |
| `EveryAnswerIsReadable` | `WireProofs` | `Spec => []AnswersAreReadable` |
| `ShownIsAsItWasMade` | `WireProofs` | `Spec => []ShownIsWhatWasMade`: shown as found good, or, if a `<think>` came to be in v2, as the second look leaves it |

They hold for every value of the constants that satisfies the named ASSUMEs of
the modules: any ids, npcs, threads, limits and backends; any number of windows,
savegames, requests in flight; any keys, days and worker numbers; any trees,
stages and modules. Worth knowing among the assumptions:

* `None` is not a value it stands beside (in the tables, the store, or what a
  client can tell of a job); ids of `JobStore` are a finite set of numbers (a map
  has finitely many entries).
* `Memory`: the limit of what is recalled is even. It is 12 in the code; with an
  odd limit the oldest exchange would be recalled by half.
* `Conversation` repeats, of its parts' assumptions, those about the constants it
  shares with them; the others are proved of the values it gives.
* `GameTransport` draws a fresh id for each request and talk. It is a definition
  of the model and not an ASSUME, but every theorem of `GameTransportProofs`
  about requests rests on it.
* `BuildDriver`: the bat names each script once (`ListAssumption`), a script
  of the list writes no file of the tree but its own ID file
  (`WriterAssumption`), and none removes a file of the tree
  (`RemoveAssumption`). `build_module.bat` and the `process_*.py` are like that;
  for stages that are not, comparing the IDs at the ends of a pass would not be
  enough.
* `Compiler`: the assumptions are about types only.
* `Wire`: the contents of a response are texts of any length over the characters
  of `Sanitizer` (`RawAssumption`); a reason, such as `too_long`, is one token
  that is no digit, no bar and no space (`TokenAssumption`, `ReasonAssumption`);
  `MAX_TEXT` leaves room for a reason and for the three dots (`CapAssumption`).
  A client sends lines, of which the first alone may be empty, and a body, and an
  upstream sends heads and pieces of a body, in the forms of `IsDelivery` and
  `IsResponse` (`DeliveryAssumption`, `ResponseAssumption`): of any length, cut at
  any byte, sound or not, in reads of any size (`RequestLimits`). A line that says
  the size of a chunk is at least two bytes long and fits its limit
  (`LimitAssumption`; 1024 in the code). `MAX_MSG` is a number (`MessageAssumption`).
  `OnlyTheMeantIsAdmitted` has a hypothesis of its own: each request is one of the
  mod. Its keys come in any order in which the last, and no other, is `end`, with
  `1`; every other value is any sequence of characters but those of `NotAscii`; of its query any number
  of characters come. TLC evaluates for the requests of the instance that they
  are like that (`TalksAreOfTheMod`).

### 4.1 The arguments

`JobStore`. `TypeOK` is not inductive by itself: the worker's phases carry data
of the job it took, and `Finish` and `Attach` apply helpers to it. `TypeInv` adds
what the phases say of the fields. Each helper (`Leave`, `Settle`, `Remove`,
`Sweep`, `Insert`, `Admit`) has a lemma that it maps a typed `Inner` to a typed
`Inner`, and each action cites the lemmas of the helpers it calls. The invariant
behind the other two, `SoundInv`, says of the locked `Inner`: the queue is
exactly the pending jobs other than the one the worker has (`Placed`), no two
pending jobs share a line (`OnePerLine`), and no serial is above the last one
given out (`Numbered`), which the first part needs: a new job cannot be mistaken
for the worker's run of an earlier use of its id. Again each helper preserves it,
and `Admit` is shown to leave no pending job on the new job's line before
`Insert` adds it. `SmallInv` adds the counts: when the store is full an admission
finds a job that ended before all others and removes it, or is refused, and what
it supersedes leaves the queue before the new job is put there. The same invariant
says that a worker that waits has an empty queue: whoever fills it notifies.

What becomes of a job needs one step at a time: `StepMoves` says that a locked
section lets each job stay, go, begin or end, the last with a verdict that
respects its deadline by the clock reading of the section. `RunInv` says of the
run that the worker has that it keeps the deadline of its own job, ends as timed
out only after it, and as canceled only when its job has left PENDING; `Own` says
of each stored job that its verdict was in time and, if it is the first of its
id, a handler's or its own run's. The refinement of `JobContract`
follows from `StepMoves`: the view of each id moves as the contract says, and
what a step begins, ends and drops together is one `Step` of it. For the aborts,
`SocketInv` relates the sockets that are to be shut down, by a handler that
still has them, to the run that the worker is in (`Hangs`, `Doomed`), and keeps
the runs apart by their serials: the run whose socket is listed has lost its job,
and an id that is used again has another serial.

`GameTransport`. `OneJobPerRid` says that requests with the same number are for
the same job, whether in flight, outstanding or in the savegame; a reply that the
callback takes for its own is then one for its own job, which is `ReplyIsOwn`.
`NobodyWaitsForNothing` needs in addition that no ack is owed while a
conversation waits, for the trigger would send that first. It speaks of the
transport's variables; that the engine has the request, too, needs `SentIsComing`
(below) and that nothing was abandoned (`AwaitedIsComing`). The bound on what is
in flight is inductive by itself with the count of abandoned requests.
`Owes` is inductive with the types: `Say` waits for an owed ack, and a talk that
is canceled is over before its cancel is owed. `StuckIsOlder` needs `SentIsComing`: a request sent from the open window is in
flight, so a transport that is busy with nothing in flight was loaded.

`Memory`. `StepMoves` reduces every step to one of three: attempts move on and
none begins, one begins, or one commits together with its messages; each
property is proved from these. `WorkerInv` says that numbers that are in use were
given, that a job runs for the attempt that has its number, and that a job still
pending is awaited; from it follow `ReplyIsOfItsAttempt` and, with
`OneOpenExchange`, that the pending jobs of the store are on different lines
(`JobsApart`), which is why no step of the memory's store supersedes and every
one is a step of `JobContract`. For what is recalled, `PairInv` says that the
messages at ids 2n - 1 and 2n are the two sides of one exchange, in this order,
and `NpcInv` that an attempt's npc is its conversation's: so an npc's messages of
a branch come in pairs, the messages after a player's are an odd number of them
and those after an npc's an even one, and an even limit cuts between pairs.

`Conversation`. What is proved of the two parts is used, not proved again: the
proof modules are instantiated with the values that `Conversation` gives to
their constants (`GP`, `MP`), each of its steps is shown to be a step of either
part or a stutter, and their invariants hold. `ConvInv` adds what links the two:
the engine, the server and the transport mean the same single request (`Linked`);
a READY on its way tells of a row that is ready or committed, and the READY of an
ack of one that is committed (`WireInv`; by `AnswerTells` it is so when it is
told, and by `KeptByOthers` it stays so, as only a request about an attempt
itself takes it further); an ack on its way, or owed, is for a reply that was
shown (`OwedIsShown`); and a reply that is shown has a row that is ready or
committed (`ReplyStands`), because only a cancel could end that row, and the
window sends none for a talk whose reply it shows (`Owes`). The invariant was
checked by TLC before it was proved.

`BuildDriver`. `PassInv` says that an ID file has, in each tree the pass has shown
to a stage, either the bytes it had before the pass or those it has now, and that
it still has the former unless its writer has run. The writer runs once, so bytes
equal at the ends were never different in between. For the fixpoint the trees that
a pass shows to its stages are taken as a function of the stage's number
(`Trace`), which the pass fills in one step at a time; another pass from the
accepted tree has its own, and if the two differed they would differ first at
some stage, which had then been given the same tree, so they do not. So a pass
is determined by the tree it starts from. `InputInv` says what a build shares
with its input: all but the ID files, and after `--sync-ids` those, too; so the
pass over a synchronised input changes nothing (`InputsAreStable`), and the next
build is that pass (`SettledPass`). That a least number exists is all the
induction this needs. `PublishInv` says that a file
leaves the list of what is to be published when the output has it, `LitterInv`
that a file being written back is still on the list.

`Compiler`. `Register` follows the register from the seed to the file, to the
running stage and back: each begins with the one before it. Once the scan has gone
past a place the register has the global assigned there, so later stages find it
and append only entries that no look-up finds; and each mention already written
stays sound for the register as it grows. `TextsLead` says the same of the quick
strings as long as no text is empty: then no line is passed over when the next
stage loads the file.

`Wire`. The provers cannot use an induction theorem, but they know that `Nat` has
induction through one consequence that can be stated without an operator: of the
numbers up to n for which something fails, one is the least (`LeastOf`). So each
loop is a recursive function of the number of its steps, a set holds the numbers
at which it has what it should have, and what is not in the set would have a
least element, whose predecessor is in it (`UpTo`, `Iterates`). With that it is
proved what each step of `SanitizeText` does to a text: characters that are
translated become plain ones, runs of spaces become one, the ends are trimmed, a
text that is too long is cut at a word or at the limit and ends in three dots,
and a text that is tidy already (plain, with single spaces, within the limit,
without a block) passes through all of them unchanged. For the frame, `Split` of
a text that is put together from parts without bars, with bars in between, are
these parts (`FourParts`), of which rid, code and rid are integers and the text is
not, so the registers hold what the frame was made of (`FrameComesApart`). That a text is no
integer needs a letter in it: `SanitizeText` finds a text good only if it has
one. `WireInv` is then about the steps of the exchange: a result is ready only
with a text found good, that text is the one the upstream sent or, once kept, its
sanitized copy, and a failure has a reason that is a token. The frame of a v2
result is then made from the second look, which is the first one unless a
`<think>` came to be in it (`SanitizeIsIdempotent`).

The two readers have invariants of one form. What a reader holds and what is still
to come are neighbouring slices of the bytes that were sent, so a reader is known
by the place it has come to. `RequestInv` says that as long as no head was found,
none ends in what was read, so that the first one found is the one that was sent;
and that once it was, what is held begins with it. The rest is about `HeadEnds`:
the first blank line of `SentBytes` is the one after the last header line, or,
before a line end of the other style, one byte later (`HeadIsTight`,
`HeadFound`); and `LinesOf` takes the lines apart as they were put together
(`LinesOfHead`). `ResponseInv` says that the reader of a response is always
between two lines or blocks, at a place that its `at` names: which head, which
line of it, which chunk; that what it knows of the framing is what the lines
before that place say; and that what it holds is the payload up to there. A step
takes the line or the block that `Laid` says is there, or else the bytes end
before it does, or it is over a limit: then the reader fails, and the response
was not whole or not sound. The budget of the head has to be known, too, in an
invariant that says a sound response never runs out of it.

For the query, `PercentDecode` undoes what `Encode` does to any text
(`DecodedAsEncoded`): at the place where the code of a character begins, what was
decoded so far is what was encoded so far, and no digit is pending. A text that is
encoded holds no `&`, so the query comes apart into the parts it was joined from
(`SplitOfJoin`), each of which begins with its key and an `=` (`PartOf`). A cut
leaves some of the first parts as they are, not the last one, and less than the
whole of one part (`SplitOfCut`). Neither is a parameter `end` with the value `1`:
the keys of whole parts are other ones, and a beginning of `end=1` has no value
(`CutPart`). So a query either says all that was put into it or has lost its end
(`QueryIsRead`), and the latter is refused before anything else is looked at but
the size of the request and, in v1, its operation.

### 4.2 Only model-checked

Every liveness property (`EveryJobSettles`, `ConversationEnds`, `EveryAttemptEnds`,
`ShownIsRemembered`, `EveryBuildEnds`): liveness under fairness and `ENABLED` are
out of the reach of the installed backends. `AdmittedIsWhatWasMeant` for requests of
other clients: `OnlyTheMeantIsAdmitted` is about those of the mod, and a request that
was damaged at will may mean anything, so the run `wire` tries what one damage does
to a request (`DamagesOf`). `StuckCanBeReset` with abandoned requests is neither
proved nor true (section 6, `game_stray`). All other properties of the passing runs
are theorems. Only proved, not checked, are the type invariants, `OutputIsWhole`,
`BaseIsOnlySynced`, `LitterIsOfAKill`, `AwaitedIsInFlight`, `Owes` and the lemmas
about texts.

## 5. Mutants

Each property is paired with a mutant of a definition that a plausible slip in
the code would give (a missing guard, a lost notification, a sweep left out,
an update without its condition). They stand in the modules beside the
definition they change, named `<definition>_<slip>`; the run must find its
property violated when the definition is replaced by the mutant.

The type invariants of the state machines are proved and therefore not among the
runs' properties; in `ResponseReader`, `Wire` and `Conversation` the properties
would not evaluate on a state of another shape.

## 6. What the models show of the documents

* `store_reuse`: `docs/protocol-v1.md` says results that arrive after a job
  left PENDING are discarded. `finish` compares job ids only; if the id was
  removed and admitted again while the worker ran its first job, the first
  result is recorded as the second job's. The properties `store_races` checks
  say what does hold: `FirstUseOutcomesAreTheirOwn`.
* `game_stray`: the counter of abandoned requests comes down only when a stray
  frame meets a busy transport. If it meets an idle one, the count stays
  positive, and a later garbled answer to the mod's own request is dropped as
  a stray. The run's property speaks only of an own request that is the only one
  in flight, so nothing is left to complete the transport: the state that the
  comment at `module_scripts.py:9322` says the rule was changed for. It stays busy, until the window is opened again and
  offers Reset.

Facts the models make visible for which no run is kept. Of the game and the
memory:

* An owed cancel is forgotten when the window is closed while the transport is
  busy, since only the open window sends it and every load clears it, and a new
  talk may go out before it; `docs/protocol-v1.md` says it is sent the next
  time the transport is idle. A v1 server ends the job anyway, by its deadline or
  by superseding; a v2 server answers a talk that overtakes the cancel as busy.
* "At most one request in flight" (`docs/http-ipc.md`) does not survive loading
  a savegame: the variable that guards it is then older than the request. Until
  one is loaded `InFlightIsAccountedFor` holds. What the single request
  protects, replies in their own conversations, is proved with savegames as
  well (`ReplyIsToItsTalk`).
* A v2 reply that was made but not displayed (its answer lost, the window gave
  up, or a click on Say overwrote it) leaves its attempt ready, and the
  conversation answers busy until the window is opened anew and draws another
  session.
* The player can click Say in the frame after the callback and lose the reply
  that arrived, although the comment at `module_presentations.py:13628` says
  clicks on faded buttons are ignored: the buttons fade in the next frame only.
* Closing the window before the ack goes out leaves a shown exchange
  unremembered; `ShownIsRemembered` has the open window as its condition.
* An attempt whose refusal cannot be recorded stays pending without a worker
  until a cancel or a restart (`AdmitRefusedUnrecorded`); `EveryAttemptEnds` is
  about attempts that got a worker.
* The days of a branch's history may go back when two of its conversations are
  acknowledged in the other order.

Of the wire:

* `protocol.rs:65` says `sanitize_text` runs exactly once on every text. In v2 it
  runs when the result is collected (`living.rs:412`) and again in the frame, and
  it is not idempotent: blocks are taken out before anything else, so a tag may
  come to be in the first look. What is left of `<thi<think>x</think>nk>...` is a
  block; and so it is when the character between the halves is dropped, or when a
  letter of the tag had an accent. The second look takes out what that tag opens.
  The player is then shown less than was found good; or, if no letter is left, the
  ready attempt is answered as failed (`empty_reply`), and its conversation stays
  busy until it is canceled. `ShownIsWhatWasMade` says which of the two is shown.
* The engine encodes bytes from 80 on wrongly (`docs/http-ipc.md:35-36`) and
  expands a `{s0}` or a `^` that the player typed before it encodes
  (`docs/http-ipc.md:71-79`). So what is admitted is what the engine put into the
  URL, not always what the player typed; the server can tell neither, and
  `AdmittedIsWhatWasMeant` is about the former, for ASCII values.
* The limit on a request's head is looked at between two reads only: up to one
  read's buffer (4096 bytes) beyond `MAX_HEAD` is accepted when the blank line
  comes with it (`http.rs:122`). A head of lines that end in LF with a CRLF as
  its blank line is never seen to end, and is refused when the client closes or
  falls silent. Of several `Content-Length` headers the first counts.
* The constant at `main.rs:55` is how long a client may take to send its request;
  the socket's timeout counts for each read anew.

Of the build and the compiler:

* A first publish that was interrupted leaves files without a marker, which the
  next build refuses as foreign until `--force` (`build.py:251`).
* Two builds at a time into one directory would share the names of temporary
  files; nothing in the code keeps them apart, and the model has one at a time.
* A global that only unscanned code assigns (items, for example) gets a new entry,
  spelled with its `$`, for each mention, and each is warned of as never used;
  `GlobalsHaveOneIndex` is about globals that scanned code or the seed has.
* An empty quick string is left out when the file is next loaded, and the texts
  after it move; `TextsAreTheirOwn` is about texts that are not empty.
* When all prefixes of a text are taken as ids, the compiler ends with an
  `AttributeError` (a list has no `has_key`); where the stage does not catch it,
  the process ends and saves nothing of its registers.

## 7. Not modelled, and why

* Of a request: what its first line and path are made of (absolute targets, the
  route), the names of headers, the cap on `pname`. `op` stands for the route.
* `parse_endpoint`, options, logging, previews, overlays, wording.
* The registry of characters and the v1 prompt: constants and one format string.
* The module_data generator, and of the compiler everything but its registers:
  sequential, deterministic, and compared with golden output by the tests.
* The vendored Native module, golden files, generated copies: data. They are
  almost all of the repository's lines.
* Panics under the lock, allocation failures, poisoned mutexes.
* Resolution of host names (no timeout in the code).
* What the engine makes of what the player typed before it encodes it, and of
  bytes from 80 on.
* Corruption of the database and a second server on it: `open` refuses both
  before it changes anything.

## 8. Plan

Done, in this order: `JobStore` (everything else rests on it), its contract
and proofs; `GameTransport` and `Memory` on the contract, with their proofs;
`Conversation`, the two together; `BuildDriver` and `Compiler` with their proofs;
`RequestReader`, `ResponseReader`, `Sanitizer` and `Wire`.

Left: that `RequestReader` and `ResponseReader` never hold more than their limits,
as theorems.
