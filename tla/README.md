# Amber, modelled and checked

TLA+ models of the stateful core of Amber (`app/`): the voice socket and its turns, the
conversation they share, the approval and client-tool channels, the chain of tool brokers with
its telemetry, the registry of sessions with rate limits and settings, the push outbox with its
reminders, the shared table of model keywords, and the long-term memory with its migrations,
its background writers and its maintenance passes. TLC checks each model on small instances;
TLAPS proves the central promises for every value of the constants.

All of Amber runs on one asyncio event loop, so the grain of every model is the same: **a
coroutine's `pc` names the await it is suspended at, and an action runs the code from that
await to the next one.** What lies between two awaits is atomic; whatever may happen at an
await (a cancellation, another connection's frame, a crash, a failed write) is an action of
its own that can come first. A call of the store runs in a worker thread and is awaited, and
is one transaction under the store's lock: it is one action, and its caller works from then on
with rows that others may change.

## 1. Inventory

| Part | State it keeps | Operations | Interacts with | What is hard about it |
|---|---|---|---|---|
| voice socket handler (`main.py`, `voice_socket`) | `current_turn`, `session.turns`, the socket | handshake, receive loop, barge-in, interrupt, admission, `finally` | starts and cancels turns; binds and unbinds the two channels and the push sink | cancelling a task that is suspended anywhere, two handlers of one session |
| turn pipeline (`pipeline.py`) | pieces streamed, pieces in the splitter, the sentence being sent | `run_turn`, `_think_and_speak`, `_speak_stream` | writes frames, adds to the conversation, asks through the channels | `finally` blocks that themselves await, order on the wire |
| conversation (`session.py`) | the messages | `add_user`, `add_assistant`, `_trim` | every turn of the session | trimming between a question and its reply |
| session registry, rate limiter (`session.py`, `ratelimit.py`) | sessions by id and age; time stamps | `resume_or_create`, `touch`, expiry, eviction; `allow` | handshake, admission | TTL, capacity and window at the boundary; sessions dropped while in use |
| knobs, voice settings (`knobs.py`, `voice.py`) | a session's voice and model keyword | `set_voice`, `set_brain`, the frames that do the same | handler, a turn's tools | a setting that changes while a reply is being spoken |
| approvals (`confirm.py`) | the bound sender and its token, the open questions; the `confirmed` flag of the broker below | `bind`, `unbind`, `request`, `resolve`, `call_tool` | a turn waits, the receive loop answers | answer, timeout, interrupt and reconnect race |
| client tools (`client_tools.py`) | the bound sender, the pending futures | `bind`, `unbind`, `call`, `resolve` | as above | as above, and no token |
| tool brokers (`brain.py`, `activity.py`, `tools/registry.py`) | what a run is bound to; cards on the client | dispatch by kind of tool, activity frames, counting | every tool call | three layers that may each refuse, fail, raise or be cancelled; who counts |
| peers (`peers.py`) | static and pulled layer | `refresh_once`, `known_peers`, names | a run pins the list | the list changes under a run; a peer's name may look like the device's |
| signals (`signals.py`) | a bounded queue, the batch being written | `emit`, `drain_once`, `drain_loop` | every turn and call | queue full, a batch that fails, the last flush beside a write |
| push outbox and deliverer (`push.py`, `store.py`) | rows; the sink of each session | `bind`, `unbind`, `flush`, `_fan_out`, `deliver_loop`, `acknowledge`, expiry | connections, scheduler, `submit_push` | two flushes at once, a send that suspends, crashes between send and mark |
| reminder scheduler (`reminders.py`) | `due`, `fired_at`, `done` | `fire_due` | files rows | crash between filing and marking |
| model catalogue and sync (`models.py`, `model_sync.py`) | rows, cache, the remote table | re-point, reset, resolve, `sync_once`, `schedule`, `sync_loop` | edits from clients, other apps | passes that work from copies, lost responses |
| memory store (`memory/store.py`) | facts with text, tier, status, source, uses and correction | `add_fact`, `supersede_fact`, `forget_fact`, `update_fact`, `touch_facts`, `promote_facts`, `decay_facts`, `lineage`; `_migrate` | everybody below | rows that callers have read some awaits ago; a crash inside a migration |
| memory writer, recall, tools, panel (`memory/*`, `tools/memory_tools.py`, `memory_control.py`) | the ids a turn recalled, what extraction was told is known | `build_memory_view`, `remember`, the memory tools, `handle_action` | turns in the background | check-then-act over a model call |
| maintenance pass (`maintenance.py`) | a batch of rows as they were read | decay, promote, `_consolidate` | the service's loop and the command line at once | the same, for minutes, in two processes |
| sentence splitter | a text buffer | `feed`, `flush` | pipeline | boundaries at the end of a chunk |
| background loops, shutdown (`lifespan`) | tasks | start, cancel, await | every loop | a swallowed cancellation |
| deploy (`deploy/update.sh`) | checkout, service | pull, build, health check, roll back | systemd | a failure half way |
| STT, TTS, LLM, MCP peers, HTTP tools | – | one call | pipeline, brain | outside the program: an await that returns or raises |

The parts meet in five places: the handler *cancels* a turn and waits for it; the channels
and the sink are *bound to a session* and not to a connection, so an old handler and a new
one share them; turns *share the conversation* and the settings of their session; the loops
(`deliver_loop`, `sync_loop`, reminders, maintenance, `drain_loop`) work on rows that
connections change meanwhile; and everything about one person's memory is *one table*, written
from turns, tools, the panel and passes. What makes each part correct is stated in section 3.
`PROJECT.json` lists every part with its status and every hazard at the line where it bites.

## 2. Modules

| Module | Models | Its state, in the code |
|---|---|---|
| `VoiceSocket` | handlers, receive loops and turns of one session | `sock` and `rx`: where each `voice_socket` coroutine is; `current`: `current_turn`; `turn`: the task (`pc`, `doomed` = cancelled and not resumed, `spared` = a `wait_for` has lost the cancellation, `fault` = the exception being unwound, pieces `said`, `held` by the splitter, `voiced`); `last`: the last frame a turn put on the wire; `turns`; `history` |
| `Conversation` | the history as an object of its own: what any number of turns may do to it | `history`, and which turns have asked and still owe a reply |
| `ToolChannels` | `Confirmations` and `ClientTools` with the handlers that bind them and the turns that wait | `askVia`, `toolVia`: the bound connection; `ask`, `call`: one future per request with its wire id (`label`); `approved`, `ran`: what the human said, what was run |
| `Telemetry` | the queue of `signals.py` and its writer | `queue`, `batch`, `table`, `writer`; `orphan`: rows of a worker thread whose task was cancelled; `recorded`: a history variable |
| `ToolCalls` | a run's tool calls through `ActivityBroker`, `ConfirmBroker` and the five brokers below; extends `Telemetry`, which its calls feed | `turn`: the call in flight with its origin; `bound`: what `with_context` bound; `discovered`: the pulled layer of peers; `wire`, `cards`: the client; `log`: how calls ended |
| `Sessions` | `SessionManager`, `RateLimiter` and a session's settings, on one clock | `registry`, `session` (the objects, which connections keep although the registry drops them), `conn` with what its client was told, whether its loop waits in `start_turn`, and the setting its turn has pinned; `admitted`: a history variable |
| `PushOutbox` | rows, sinks, flushes, reminders, acknowledgements | `row` and `reminder` survive a crash; `sink`, `flush`, `fire`, `ack`, `conn`, `busy` do not; `inbox`, `accepted` record what reached clients |
| `ModelSync` | rows, cache, remote table, two passes | `row`, `cache`, `remote`, `pass`; `mine`, `known`, `cleared` are history variables |
| `FactStore` | the facts table and each operation on it; the *abstract specification* of the memory | `facts`: a row's id is its position, since ids are never reused and rows never deleted |
| `Schema` | `_migrate`, statement by statement, with crashes | `has` (what of each migration is in the file), `stamped`, `store` |
| `FactMemory` | every caller of the store over a database that is migrated first; extends `FactStore` and `Schema` | `turn`: what `run_turn` remembers of the rows; `pass`: the batch of each pass, and what it has retired |
| `*_proofs` | the theorems of section 5 | |
| `MC*` | the instances TLC runs | |

Two specifications are abstract, and have an implementation:

- `Conversation`, of `VoiceSocket`: `TalksInTurn == Talk!Spec`, with `Talk == INSTANCE
  Conversation WITH ...` mapping a turn to "asked" once its words are in the history and to
  "pending" until its reply is recorded. Checked by `Voice`, and proved (`TurnsTalkInTurn`).
- `FactStore`, of `FactMemory`: whatever the callers do, the table goes through its steps
  (`Rows`). Proved (`MemoryImplementsStore`); so what is proved of `FactStore` alone holds for
  every caller there will ever be.

Every definition with a counterpart in the code carries the code's name or a comment that
does, and `PROJECT.json` `map` gives its lines. Definitions called `X_Y` are *mutants* of `X`:
the plausible bug `Y`, used only to see that a property can fail; no specification uses them.

### How data is abstracted

- A reply is a number of *pieces*; the splitter turns any run of pieces it holds into one
  sentence. Audio, text and statistics do not exist.
- A frame is its kind, its turn and, for audio, its last piece. A frame is written at the
  start of the `send` it is awaited in; it reaches the client only while the socket stands.
- A tool's name is its head (before `__`) and its tail; one tool stands for each kind and for
  each gate, and one that the model made up. The device has a `show`, which becomes
  `client_show`, and may declare tools with a leading underscore (`Underscored`), whose names
  (`client__run`) look like those of a peer called `client`. In `ToolCalls` an approval has an
  outcome, since the race for it is `ToolChannels`' subject.
- A fact's text is one of a few values, equal up to case as in `add_fact`; its uses are counted
  up to the last threshold that matters; its age, its score in a recall and what the models
  answer are any choice. A row's own id stands for its age among its peers.
- Voice and model keyword of a session are handled alike, so `Sessions` has one setting.
- In `VoiceSocket` the rate limiter may refuse at any time, and a refused utterance changes
  nothing; `Sessions` has the limiter itself, and the clock.
- Other timers (the confirm timeout, the expiry of a row, the sync interval, a reminder falling
  due) are actions that may come at any time: no property depends on a duration.
- The wake-up event of `deliver_loop` is an always possible wake: a superset of the code's
  behaviours for safety, and the loop's own interval for liveness.
- A cancellation marks a task (`doomed`); it is delivered when the task is next resumed, at
  whichever await it is suspended, including those inside a `finally`. A `wait_for` may lose it
  (`SwallowsCancel`): in `ToolChannels` when the answer is there as the interrupt comes, in
  `VoiceSocket`, where the stream of a turn stands for its tool calls, at any time in it
  (`Spare`).

## 3. Runs

| Run | Instance | What it asks |
|---|---|---|
| `Voice` | 2 connections one after the other, 3 utterances, cap 2, history of 1 turn, replies of 1 piece, Python 3.11's `wait_for`, fair | turns of a connection never overlap (`OneTurnPerSocket`), die with their handler (`NoTurnOutlivesItsHandler`) and end (`TurnsEnd`); audio follows its own `audio_chunk` (`AudioFollowsItsSentence`), an interrupted turn sends nothing but `thinking(false)` unless a `wait_for` has lost its cancellation (`InterruptedTurnFallsSilent`), `turn_complete` means all was voiced (`CompleteMeansVoiced`), "thinking" is always switched off (`ThinkingIsSwitchedOff`); what was streamed is recorded (`LatestTurnIsRecorded`), and the history is used as `Conversation` specifies (`TalksInTurn`) |
| `History` | 6 turns, cap of 4 entries, one in flight | `RepliesFollowTheirQuestion`, `HistoryReplayable`: within the cap and starting with the user, through every trim |
| `Channels` | 2 connections, 2 questions, 1 call, Python 3.11's `wait_for`, fair | a gated tool runs only on a yes to that very question (`RunsOnlyWhatWasApproved`), the newest connection keeps the approvals (`ApprovalsFollowTheNewest`), every question settles and `cancel_current` returns although nobody has to answer (`QuestionsSettle`, `CancelReturns`) |
| `Calls` | 1 turn of 2 calls, peers `client` and `amber` listed, a device tool declared as `_run`, 1 pull, a queue of 2, batches of 1, 1 batch lost, fair turns | a call is counted exactly once, by whoever should (`CountedOnce`); cards are closed and name the right server for every name that is one server's alone, those of a peer called `client` included (`CardsAreTrue`); calls carry their run, and the `confirmed` flag only when a person said yes to them (`CallsCarryTheirRun`); nothing is written twice although a shutdown leaves a write running beside the last flush (`NothingIsWrittenTwice`); a turn ends although the writer is stuck (`TurnsFinish`) |
| `Sessions` | 2 connections, 2 settings, 3 sessions, TTL 1, capacity 2, one turn per 2 ticks, cap 2, 3 instants, symmetric in the connections | the rate holds over reconnects (`RateHolds`), only the expired and the longest idle go (`OnlyTheIdleGo`), clients know the setting they have (`ClientsKnowTheirSetting`), a reply has one voice (`OneVoicePerReply`) |
| `PushReconnect` | 3 connections of which 2 are made: a client, one with a session of its own, the first one back; 2 rows, a batch of 2, 1 turn, 1 crash or failed write | `DeliveredMeansAccepted`, `OldestFirst`, `NewestKeepsItsSink` with the loop's flush and a connection's running at once; a push lands in a turn only on a sink that waited while the loop sent the row to another session (`MidTurnOnlyBehindAnother`) |
| `PushReminders` | 1 connection, 2 rows, batches of 1, 1 reminder, 1 note, 1 crash or failed write, fair | `FiredMeansFiled`, `OnlyItsOwnPushFinishesAReminder`, `PushesSettle`, `DueRemindersAreFiled` |
| `ModelShared` | 2 keywords, 2 models and a malformed entry, 3 edits, 1 lost request or restart, fair | `QueuedEditsWin`, `RowsConverge`, `CacheCatchesUp` |
| `Facts` | 2 texts, 3 rows, promotion at 2 uses, a lineage of at most 2, no FTS5, 1 crash, 1 turn with 1 extracted fact, 2 things people say, 2 passes of 1 change | corrections point forward, so no lineage is circular (`CorrectionsPointForward`), and a lineage is a run of them without a gap, and the whole story unless the limit cut it off (`LineageFollowsTheCorrections`); no row ever falls to a lower tier (`NeverDemoted`); a database that opens is migrated (`OpenMeansMigrated`); a pass retires only what it was shown, and no more than it may (`PassIsBounded`) |
| `ToolsDetached`, `ModelReset`, `FactRevived` | as small as shows it | expected violations, section 6 |

### Why these bounds are enough

- *Turns.* A barge-in needs an interrupted turn and its successor; a third utterance meets
  the cap, and a history that has been trimmed. One piece is a sentence, and a flush at the end
  of the stream when it was no sentence yet; how many there are is left to the proofs.
- *History.* A cap of four entries filled by six turns is trimmed at each parity, with and
  without a reply (a turn that was cut off before its first token records none).
- *Channels.* A second question lets an answer to the first arrive late, over either
  connection. That no call gets another's result is proved for any number.
- *Calls.* The second call meets what the first has left behind: a card, a flag, a queue that
  is full. One peer has the device's prefix and one is Amber herself, and of the names
  `client__run` and `client__build` the device has one and the peer may have both, so every kind
  of name occurs; one pull makes each peer come or go under the run.
- *Sessions.* The third session pushes one of two out; the third instant is past the TTL and
  past the window, and the second on the edge of both.
- *Outbox.* Order needs two rows; a flush racing another, a reconnect, and a turn that begins
  behind somebody else's send each need two connections, of one session or of two: any two of
  the three are made (`MaxConns`). The one crash or failed write can fall at every await. Once every bound is used up nothing
  new can happen, which is why the cfgs do not check for deadlock; nor can a service that is
  waiting for people be told from one that stands still. `ModelSync` never stops: its timer
  goes off for ever, and deadlock is checked.
- *Model keywords.* A keyword's life of set, push, set again or reset takes three edits; the
  second keyword makes a pass fail *between* two of its rows.
- *Facts.* Three rows are a fact and two corrections of it, one after the other or of the same
  row, or a merge with somebody else's row; a lineage of two cuts such a story off at either
  end. Two passes are the loop's and the command line's at once; the one crash falls at every
  statement of every migration.

### Fairness

Only the program is fair, never its clients. In `VoiceSocket`, weak fairness of every turn's
steps (the event loop resumes what is ready, and a call that a turn awaits returns or raises:
each service client has a timeout) and of the handler's internal steps; nobody has to speak,
interrupt or hang up. In `ToolChannels` the same, with the confirm and call timeouts as steps
of the turn; nobody has to answer. In `ToolCalls` weak fairness of the turns' steps only: the
writer of the telemetry may stand still for ever, which is the point of `TurnsFinish`. In
`PushOutbox` weak fairness of both loops, of the awaits of a flush, of turns ending, and of
`Connect`: somebody must be there to deliver to, so the last connection is assumed to come and
to stay (in the fair run all that are announced may be made, `MaxConns = NumConns`). In `ModelSync` weak fairness of the timer and of a pass's steps; faults are bounded, so
that in the end the store answers. `Sessions` and `FactMemory` promise nothing that must
happen: a session may stand idle, and a fact may wait.

## 4. Assumptions about things outside

- asyncio: what `cancel` and `wait_for` do. `SwallowsCancel = TRUE` is Python up to 3.11, the
  version of the Dockerfile: a wait whose result is already there may return it although its
  task was cancelled (in `ToolChannels` and in `VoiceSocket`; the proofs hold for either
  version). A cancelled `to_thread` leaves its thread running.
- Starlette: a send on a socket whose client is gone may raise or seem to succeed; a lost
  socket is reported to `receive`. The server closes its sockets before the lifespan ends.
- SQLite: a statement is atomic, and what it wrote survives a crash; the driver commits each
  DDL statement on its own, and a transaction of other statements at its `commit`.
- The sync store answers PUT, DELETE and GET, or the request or its response is lost.
- In `Voice`, `Overlap = FALSE`: a client resumes after its old handler has finished. Of the
  proofs of section 5 only `LatestIsRecorded` and `RepliesStandBehindTheirQuestion` assume it,
  and `ToolChannels`, `PushOutbox` and `Sessions` let the handlers overlap.

## 5. Theorems

Each holds for every value of the constants that satisfies the module's named assumption
(`BoundsAssumption`, `ConversationAssumption`, `ChannelAssumption`, `TelemetryAssumption`,
`CallsAssumption`, `SessionsAssumption`, `OutboxAssumption`, `SyncAssumption`,
`StoreAssumption`, `SchemaAssumption`, `MemoryAssumption`: numbers are numbers, a
lineage shows at least one row, and the default setting is a setting; TLC evaluates them in every run).

| Theorem | Module | Argument |
|---|---|---|
| `TypeCorrect` | `VoiceSocket_proofs` | one typing lemma per helper (`AddUserTyped`, `TrimTyped`, ...) and `StepIsTyped` over the seventeen steps of a turn. `said`, `held` and `voiced` stay in range only because the splitter holds no more than was captured, so `Held` is part of the invariant |
| `OneTurnAtATime`, `TurnsDieWithTheirHandler` | same | `OneTurnPerSocket` is not inductive: nothing in it says that a loop *knows* the turn it must wait for. `Owned` does (a live turn is the `current` turn of a handler that is not over); then `start_turn` and the `finally`, which go on only when `current` is idle, own nothing alive (`IdleOwnsNothing`) |
| `CompleteIsVoiced`, `ThinkingGoesOff` | same | `Sound` says of each await what a turn has said, holds and has voiced (while it can be heard, `voiced + held = said` as long as it speaks), and `Wire` how far the turn of a socket's last frame has got. `StepGoes` shows once, for all seventeen steps, that a turn goes on soundly, what it shows (`Shown`) and what it records (`Recorded`); the invariant `Told` follows from that |
| `AudioIsAnnounced`, `CancelledTurnIsSilent` | same | every new frame comes from a step of the turn it names (`FramesComeFromTurns`); between announcement and audio the socket shows the announcement (`Announced`), since by `Owned` nobody else writes there. A turn whose loop is in `cancel_current` was told to stop (`WaitsForTheCancelled`), so unless it was spared all its frames come from its clean-up |
| `LatestIsRecorded` | same | assumes `~Overlap`. Then handlers follow each other and only the latest turn can live (`InTurn`), so that nothing is added behind its question but its own reply; a trim keeps the end of a history that ends with a question or a reply to one (`TrimKeepsEnd`) |
| `TurnsTalkInTurn` | same | the refinement: trimming ignores the lengths of replies (`TrimWords`), each step of a turn asks, replies, drops or stutters (`StepTalks`), and one that asks finds room, because those in flight belong to as many other connections (`RoomToAsk`, by the pigeon hole principle) |
| `RepliesStandBehindTheirQuestion`, `HistoryStaysReplayable` | same | what `Conversation` proves, carried over by the refinement (`Talks`, the theorems of `Conversation_proofs` instantiated). The first assumes `~Overlap`; the second no more overlapping connections than twice `HistoryTurns` |
| `LoopsWaitForTheCancelled`, `TurnsRunDown`, `CancelledTurnsEndSoon` | same | why turns end. `RunsDown`: each change of a turn lowers `Left`, a bound on the awaits still ahead of it; a fault or a cancellation only ever shortens the way. `CancelledEndsSoon`: a cancelled turn has at most `ToGo` resumptions left, unless a `wait_for` in its stream loses the cancellation (`Lost`); then it goes on as a spared one, which nobody cancels again and whose way `Left` bounds like any other's. `WaitsForTheCancelled`: `cancel_current` waits for a cancelled or spared turn, or one that is sending its error. The first two are action properties of `NextDown`, which needs that a turn belongs to its loop (`Begun`) and that a loop cancels only what nobody has cancelled |
| `TypeCorrect` | `Conversation_proofs` | trimming a sequence of entries yields one |
| `RepliesAreInPairs` | same | assumes `InFlight = 1`. `RepliesFollowTheirQuestion` survives a trim (`TrimInPairs`), and a reply lands behind its question because a pending turn's question ends the history (`QuestionIsLast`), which a trim that drops from the front cannot undo |
| `HistoryIsReplayable` | same | assumes no more turns in flight than the cap has entries: one more, and the property fails (section 6). Not inductive, since a late reply could be pushed to the front by others; `Heard` counts: the entries behind some question and the turns still to come are together at most `InFlight`, so that question is never among the first to be trimmed |
| `TypeCorrect` | `ToolChannels_proofs` | with it, that a turn which waits, waits for an existing request |
| `ApprovalIsNeeded` | same | ids are never given twice (`AskInv`), so an answer settles the question it was meant for, and a future is "yes" only for a question in `approved`; every step but asking and answering is `Quiet` about all that |
| `ApprovalsAreNotDetached` | same | a handler unbinds only what still carries its token |
| `ResultsAreNotCrossed` | same | the same argument for calls: labels are never reused, so a late or repeated result finds its own call or none |
| `NobodyWaitsInVain` | same | `WaitsAreListed`: an entry of `_pending` is awaited by exactly the turn it names, and a turn that waits has its entry or its answer. It is inductive with the typing; each way of leaving a wait takes the entry along (`AskOver`, `CallOver`), each way of answering leaves the wait (`AsksStay`, `CallsStay`) |
| `CallsTyped`, `CallsAreCountedOnce`, `CardsTellTheTruth`, `CallsAreMadeInTheirRun` | `ToolCalls_proofs` | `Placed` says of each place in the chain what is bound, shown and counted there; `Tallied` relates `recorded` to `log`: calls behind the one in flight are counted as they ended, calls ahead of it not at all. That origin and server agree needs the order of the tests in `classify_tool_name`, and that the heads and tails of names are apart (`HeadsAreApart`, `NamesTellWhoCounts`); `CardsTellTheTruth` leaves out the names that the device and a peer share, for which it would be false (section 6) |
| `RowsAreWrittenOnce` | same | a row occurs at most once in queue, batch, the write a shutdown left behind, and table taken together: `Times` counts, and a row only moves from one of them to the next |
| `SessionsTyped`, `SessionsAreRateLimited` | `Sessions_proofs` | what the limiter has purged is the end of what was admitted, and everything in front of it is a window old (`Remembers`); with that, a turn that is let in is a window behind the one `RateTurns` before it, whatever the clock did |
| `TheBusyStay` | same | what a registry of at most its capacity drops when one comes is the expired, and then one: the least in (last use, age), which there is because a well-founded order has minima |
| `ClientsAreInformed`, `RepliesKeepTheirVoice` | same | every write of the setting answers its own client and marks the others (`Told`); a turn has said nothing but its pinned setting (`SaidAsPinned`) |
| `MemoryImplementsStore` | `FactMemory_proofs` | each of the callers' actions is one step of `FactStore`, or none of the table |
| `MemoryTyped` | same | typing lemmas for the eight operations; the ids that turns and passes keep stay ids because the table only grows |
| `CorrectionsAreAcyclic`, `TiersNeverFall` | same | per operation of the store: a correction points at the row that is being inserted, and the table only grows; each operation keeps or raises the tier. By the refinement both hold of all callers |
| `LineagesAreTrue` | same | the two loops of `lineage` are recursive functions of the number of rounds left, so an ordinary induction on numbers (over a set, not an operator) shows of `Backward` that it goes back without a gap, or all the way, and of `Forward` that it shows a `Stretch`. Corrections point forward, so rows on the way grow: that bounds a stretch by the number of rows, and is why the `seen` sets of the code are never needed. The theorem is about tables of any length and any limit: a line that is shorter than the limit, or of a table that is not longer than it, is the whole story, and any other one is still gapless and in order |
| `DatabasesOpenMigrated` | same | `Stamped`: every version that is stamped is complete or optional, and once v2 is stamped the old row is durable; `MigratingInv` ties the stamp to come to the migration under way |
| `PassesAreBounded` | same | `Counted`: a pass has retired at most as many rows as it has counted changes, all of its batch |
| `TypeCorrect`, `QueuedEditsStay` | `ModelSync_proofs` | a pass works from copies, so the invariant says what its copies may still do: what it is about to push or settle is what the row had when it was read or the row is newer (`Pushing`, `Settling`), and what it applies is valid (`Valid`) |
| `TypeCorrect`, `SettledMeansAccepted`, `FiredRemindersAreFiled`, `RemindersAreFinishedByTheirOwn`, `NewestIsBound` | `PushOutbox_proofs` | `IInv` adds to the properties what makes them inductive: rows are filed in order (`RowsInOrder`), a flush holds filed rows and knows what it has sent (`Sending`), the scheduler's reminder is in the outbox once it was announced (`Firing`), the connections of a session open in order |
| `BacklogArrivesInOrder` | same | the batch of a flush leaves out nothing older than what is in it (`BatchIsBacklog`), and stays so while others settle rows |
| `PushesWaitForTheTurn` | same | `FanOuts`: the targets of a row are sinks of different sessions, and a connection's flush has no one but its own. A first target is sent to at the instant it was found idle (`Take`), so what lands in a turn is one of those left, behind a send to another session |

### Only model-checked

Liveness, for it needs ENABLED and fairness: `TurnsEnd`, `QuestionsSettle`, `CancelReturns`,
`TurnsFinish`, `PushesSettle`, `DueRemindersAreFiled`, `RowsConverge`, `CacheCatchesUp`. Every
safety property that a passing run checks is also a theorem. Of `TurnsEnd`, `QuestionsSettle`
and `CancelReturns` the part that is safety is proved as well: a turn has a finite way to go
(`TurnsRunDown`), a cancelled one a short way unless a `wait_for` loses the
cancellation (`CancelledTurnsEndSoon`), a loop waits only for turns that were cancelled
(`LoopsWaitForTheCancelled`), and a wait is for something that can still be settled
(`NobodyWaitsInVain`). What is left to TLC is that a step of whoever has to move is enabled and
taken.

TLC has also confirmed the inductive invariants on the instances of section 3 before they were
proved. The three expected violations are runs only. No module declares a recursive operator.

## 6. Divergences found

Checked, each by a run that TLC must find violated:

- `ToolsDetached` – the `finally` of a replaced handler calls `client_tools.unbind()`, which
  has no token, and takes the tools from the connection that resumed the session
  (`main.py:379`).
- `ModelReset` – a keyword the store has accepted, re-pointed and reset before the next push,
  goes without a tombstone, and the next pull restores it (`store.py:1623`, which looks only at
  the `synced` flag that a re-point clears). The counterexample sets `m1`, pushes and settles
  it, sets it once more, resets it with no pass under way (the row is deleted), and pulls `m1`
  back. Resets that land while a pass holds an older copy of the row are left out of `cleared`,
  since they are lost for another reason (below); with a tombstone for every keyword the store
  has accepted (`k \in known`) in place of the synced flag in `Cleared`, TLC finds no violation.
- `FactRevived` – a fact that is forgotten while an extraction or a pass holds its id is
  superseded by an active row (`store.py:819`), although forgetting says "It won't come back on
  its own" (`memory_tools.py:203`).

Met while modelling, and not given a run:

*Sockets, turns and channels.* An interrupt that reaches the loop together with an approval is
lost in `wait_for`, and the gated tool runs (`confirm.py:161` against 141); the turn then speaks
its reply to the end and completes while `cancel_current` waits for it (`VoiceSocket.Spare`,
which `InterruptedTurnFallsSilent` exempts). The same in `lifespan`, where a swallowed
cancellation leaves shutdown waiting (`push.py:253`). With two sessions `_fan_out` chooses the
idle sinks once and then sends to one after another, so a push can land mid-turn
(`push.py:225` against line 28); `MidTurnOnlyBehindAnother` says that this is the only case. Two
connections of one session can take it past its cap of turns, since `start_turn` counts after
an await (`main.py:441`, `Sessions.StartTurn`): with a rate that allows it, TLC finds
`turns <= TurnCap` violated. The loop answers control frames between an `audio_chunk` and its bytes, which
`README.md:125` calls immediate. An interrupted reply is recorded as streamed, not as heard
(`pipeline.py:325` against its comment at 231). A turn that is cancelled in its own
`thinking(True)` never reaches the `try` that switches it off (`pipeline.py:130`). `unbind`
cancels the calls of a turn that nobody is tearing down (`client_tools.py:87`), and
`ClientTools.call` raises if its send does (`client_tools.py:181`). With more turns in flight
than the history has entries, a late reply becomes its first message (`session.py:57`).

*Sessions.* The registry drops sessions whose connections are open: the TTL and the capacity
look only at the last turn (`session.py:178`), so a client that stays connected and silent comes
back to an empty conversation, although the docstring speaks of a window "after the socket
drops". "Reconnect to continue" at the turn limit does not help, since a resumed session keeps
its turns. A knob's echo goes to its own connection only. `set_brain` refuses an unknown
keyword where the frame takes the default.

*Tool calls.* `activity.py` says a cancelled call closes its frame; the code re-raises without
one. Knob tools are classified "own" but do not go through the registry's dispatch, so nobody
counts them; nor are calls counted that the confirm broker refuses and that were Amber's own,
or that raise through the activity broker. A made-up `client__x` counts as the device's.
A device that declares `_x` beside a peer called `client` that has an `x` makes two tools of one
name (`client_tools.py:51`): the device serves the call, and the card and the counts say the
peer, although `peers.py:151-155` calls the names "unambiguous in both directions". The
telemetry drops the newest row where its docstring says the oldest (`signals.py:92`), and the
last flush writes one batch only. `peers.schedule` is never called.

*Outbox and model keywords.* A row is settled by a send to a half-open socket (`push.py:227`); a
crash between filing a reminder and marking it files it twice (`reminders.py:107`), and a pass
works from reminders it has read (`reminders.py:94`). An edit that lands while a sync pass holds
an older copy of its row is overwritten (`model_sync.py:150`; `QueuedEditsWin` leaves such edits
out), and a pass that fails half way does not invalidate the cache (`model_sync.py:170`).

*Memory.* Two writers may both find a fact new (`writer.py:354`). Superseding a row twice leaves
two active replacements; the row points at the second, so that the first has no past. Of a story
of more than its limit of twelve `lineage` shows a part, which may leave out the row it was
asked about, having gone back twelve and forward only eleven. Neither is "the whole story
regardless of which link it asked about" (`store.py:1215-1216`);
`LineageFollowsTheCorrections` is what remains of that. Two passes at once can forget both of two twins, each keeping the other
(`maintenance.py` counts on every step being idempotent). A merge rewords a row that is no longer
active, and a row can be made the twin of another by rewording, restoring or superseding it; a
merge's rule that protects what the user stated looks at a row's first source, which a later
explicit mention does not change. A correction may replace a durable fact by a short one; a
restored fact can decay again at the next pass. A crash between the first statement of
migration 2 or 8 and its stamp leaves a database that no start can open, as the column is
there (`OpenMeansMigrated` is about those that open).

*Deploy.* `update.sh` dies after the pull if installing fails, and does not install at the next
attempt, since the checkout is up to date.

## 7. Not modelled

- *Sentence splitter, prompts, protocol frames, configuration, speech services, HTTP tools,
  MCP server and status, smoke client*: pure functions, constructors, read-only views, or one
  await that returns or raises. Nothing in them interleaves, and unit tests reach them.
- *Review and eval panels, tasks, the log of exchanges, the reflection of a maintenance pass*:
  one read or one write of rows nothing else works with. (`log_exchange` takes two commits, so
  that two exchanges' messages may alternate; nobody counts on their order.)
- *`client_tools.register`*: a catalogue that is replaced in one step and read at the start of a
  run.
- *Self-update*: shell around git, pip and systemd. Its failures are met by the script, not the
  service.
- *The other background loops' shutdown*: they hold nothing in memory, so that being cancelled
  is for them what a crash is in `PushOutbox`, `ModelSync` and `FactMemory`.

What could be added: the composition of `VoiceSocket` with `PushOutbox`, where `busy` is a turn
that lives; abstract specifications of reliable notification and of an approval gate; and the
splitter, as a fold over chunks against splitting the whole text.
