# The life of a turn in Nexus Desktop, in TLA+

Nexus Desktop is an Electron application around a coding agent. A user's prompt
becomes a *turn*: it may wait in a queue, it is admitted by the Agent Host, it is
opened as a durable row, run by a Node sidecar whose tools ask for permission,
streamed to several clients, and written to a transcript. Several processes take part,
and every step between them is an asynchronous call that can be reordered, fail, or be
cut by a crash. These modules specify that path and check it with TLC; part of it is
proved with TLAPS. All `docs/...` paths and code paths are relative to the repository.

## 1. The system

```
 desktop window / remote clients
      | IPC, RACP requests                 ^ snapshots, events (per-stream sequence)
      v                                    |
 Agent Host  (packages/agent-host) --- EventHub, ApprovalBroker, TurnQueue
      | RuntimePort (agent-host-bridge.ts) ^ ingest(event)
      v                                    |
 Electron Main  (apps/desktop/electron/main/index.ts)
      | agent.prompt / agent.abort (stdio) | agent.event notifications
      v                                    |
 Node sidecar (packages/agent-runtime: sidecar.ts, runtime.ts)

 Electron Main --- JSON-RPC over stdio ---> host-core (crates/host-core)
   outbox, checkpointer                      sessions, turns, transcripts, turn_queue,
                                             plans, permissions; tools behind tool_budget.rs
```

### Components

| component | state it keeps | operations | what makes it correct |
|---|---|---|---|
| **Turn queue** `agent-host/src/turn-queue.ts`, `host-core/src/turn_queue.rs` | an array per session, the held set, a table in SQLite | push, remove, shift, moveToHead, reorder, restore, resume | the array mirrors the table; a record goes to one taker; the bound; a restored queue waits |
| **Agent Host scheduling** `agent-host/src/agent-host.ts`, `agent-host-bridge.ts` | turn records, active turn, run-to-turn aliases, idempotency keys, draining set | startTurn, interrupt, cancel, consumeForSteering, prioritizeTurn, attach, drain, ingest | one turn runs at a time; a prompt runs once; a canceled turn stays so; nothing sleeps for ever |
| **Event streams** `agent-host/src/event-log.ts` | epoch, sequence, replay window, subscriptions and their counters | publish, subscribe, ack, unsubscribe | no event is skipped silently; slow readers are bounded; readers catch up |
| **Snapshot and attach** `agent-host.ts` | the items in flight | attach, snapshot, item events | page, items in flight and cursor agree |
| **Durable turns in Main** `electron/main/index.ts`, `host-core/src/sessions.rs` | activeTurns, turnFinalizations, the turns table | agentPrompt, agentAbort, finishTurn, agent events, sidecar exit | a running row gets closed, by its own outcome; a session becomes free again |
| **Permission requests** `host-core/src/permissions.rs`, `state.rs`, `rpc/mod.rs` | pending requests, channels, tombstones, session grants | tools.execute, tools.abort, permissions.resolve, expiry, shutdown | an answer is obeyed; an aborted command never starts; nothing is left behind |
| **Approval broker** `agent-host/src/approvals.ts` | open requests, remembered results | request, respond, cancelForSession, syncPendingTools | one decision per request, and the one the host took |
| **Persistence outbox** `main/persistence-outbox.ts` | entries in memory and in a file | enqueue, flush, dropSession | every row that was saved reaches the transcript |
| **In-flight checkpointer** `main/inflight-checkpoint.ts`, `host-core/src/sessions.rs` | the newest part of each session's reply; a checkpoint file | observe, flush, settle; checkpoint, promote | a part never hides the final row; a checkpoint goes only when its reply has landed |
| **Plan contracts** `host-core/src/plans.rs`, `db.rs`, `electron/main/index.ts`, `plan-execution.ts` | proposals and executions in one row; what Main dispatches, owns and has yet to record | submit, approve, reject, dispatch, claim, record, Stop, boot | an approved plan runs at most once; outcomes stand; an execution ends |
| **Tool budget** `host-core/src/tool_budget.rs` | four kinds of semaphore, the queued counter | acquire (try, queue, wait, timeout), drop | no permit or queue place leaks; no deadlock; limits hold |
| Host process supervisor `main/host-process.ts`, `agent-sidecar.ts` | pending calls, restart state | call, exit, restart | every call settles once |
| Path mutex `agent-runtime/src/path-lock.ts` | a chain of promises per path | acquire, release | writers of one path exclude each other, in order |
| Scheduled runs `host-core/src/scheduled.rs` | due times, claims | claim, finish | a due run is claimed once |

The components in bold are modelled. Runtime, subagents, the Codex adapter, transcript files, plugins,
MCP, providers, review and renderer are listed in `PROJECT.json` with the reason they are left out.

### What is hard

* Every queue operation has an `await` in the middle, and state read before it
  is used after it: an array, an index, "the session is busy".
* A run is named by the durable turn id, a queue record by another id; the map
  between them is filled when `runtime.prompt()` returns, and events of the run
  can be read before that.
* `finishTurn` takes a session and not a turn. Errors, aborts, `agent_end`, failed
  prompts and the exit of the sidecar all call it, and calls join.
* The Agent Host, Main and host-core each decide on their own whether a session
  is busy, from state that changes at different moments.
* host-core or the sidecar may be lost between a request and its answer, and a call
  that timed out may still be executed.
* A slow client, an evicted window and a restarted host must all end in an
  explicit resynchronisation, and a snapshot is put together over an `await`.
* A permission may be answered from three places while it expires, is aborted, or its turn ends.
* The final text of a reply and a part of it go to the transcript by two ways, either of which
  may be delayed over a restart.
* Tool calls hold some permits while they wait for others.

`PROJECT.json` lists forty such hazards at their lines.

## 2. Modules

| module | models | run with |
|---|---|---|
| `TurnQueue` | one session's queue: the table, the arrays with their identity, each call as Begin, Store and Return | `QueueOverlap` |
| `QueueOverlap` | EXTENDS `TurnQueue` with a history variable that tells the behaviours without overlap apart | `MCTurnQueue` |
| `AgentHost` | EXTENDS `TurnQueue`: admission, drain, steering, cancel, ingestion; Main and the sidecar as the runtime port shows them | `MCAgentHost` |
| `HostOrder` | EXTENDS `AgentHost` with a history variable: was an event taken for one of another prompt's turn; the order of turns | `MCHostOrder` |
| `MainTurns` | the inside of that port: agentPrompt, agentAbort, finishTurn, the event stream, the exit of the sidecar, the turns table | `MCMainTurns` |
| `RuntimePort` | abstract: the run that Main shows the Agent Host of a session, and how far it is | refined by `MainTurns`, used by `AgentHost` |
| `GaplessFeed` | abstract: what an event stream promises its clients | refined by `EventHub` |
| `EventHub` | one event stream, its window and its subscribers | `Snapshot` |
| `Snapshot` | EXTENDS `EventHub`: the items of a session, attach and snapshot, the view of a client | `MCSnapshot` |
| `ToolBudget` | admission of tool calls | `MCToolBudget` |
| `ToolGate` | a tool call in host-core before it runs: permission request, timer, abort, tombstone, grants, shutdown | `Approvals` |
| `Approvals` | EXTENDS `ToolGate`: the desktop card, remote clients, the broker and the bridge | `MCApprovals` |
| `Persistence` | outbox, checkpointer, and what host-core does with rows and checkpoints | `MCPersistence` |
| `Contracts` | a session's plan contracts, from the proposal to the recorded outcome | `MCContracts` |
| `AgentHost_proofs` | theorems about `TurnQueue`, `QueueOverlap`, `AgentHost` and `HostOrder` | TLAPS |
| `Snapshot_proofs` | theorems about `EventHub` and `Snapshot` | TLAPS |
| `MainTurns_proofs`, `ToolBudget_proofs`, `Approvals_proofs`, `Persistence_proofs`, `Contracts_proofs` | theorems about the module they extend (`Approvals` with `ToolGate`) | TLAPS |
| `QueueLemmas` | lemmas about sequences as queues, for `AgentHost_proofs`, `ToolBudget_proofs` and `Persistence_proofs` | TLAPS |

Definitions named `...Keeps`, `...Anyway`, `...Unmapped` and so on, with a comment that
starts with *Mutant*, are deliberate bugs of the definition after them. They are no part of
any specification; `PROJECT.json` pairs each with the property that detects it.

### TurnQueue, QueueOverlap

`rows` is the table in position order. A JavaScript array is an object: a call that
read `bySession.get(id)` before its await still holds that very array after it. So
arrays live in `heap`, `cur` is the one in the map (or none, after `bySession.delete`),
and a call in flight (`op[c]`) remembers the array and the indices it read.
`PushBegin`, `RemoveBegin`, `PrioritizeBegin` and `ReorderBegin` are the synchronous parts
before the await; `Store...` is what host-core executes; `...Return` is the continuation.
`CallRejects` drops the continuation when host-core refuses or is lost, before or after
it executed the request. `Splice`, `Cell` and `Swap` have the JavaScript meaning past the
end of an array: a stale index leaves a `Hole` (undefined), on which `findIndex` throws and
which `shift` takes for an empty queue. `accepted`, `taken` and `claims` are history: pushes
reported as queued, records spliced out of memory, and how often a record was handed out.

`disturbed` becomes true when two calls are in flight together, when one fails, or when a push
repeats the key of a queued prompt (host-core answers with the row that is there, and the
mirror gets a record that is not). What the mirror promises of the table it keeps only
until then.

### AgentHost

A turn that was queued has its record's id; a direct turn has the id of its run, so
`Id` holds both, and `alias` is runtimeAliases. `drain` runs synchronously up to its first
await when something calls it: `wake` is that call, and while it is set no other action
is enabled. `port[c]` is a `runtime.prompt()` in flight, for the drain loop (`Drainer`) or for
a client that started a turn directly. `main.phase` is Main's side: "open" while a turn is
active, "closing" while `finishTurn` awaits `endTurn`; both count as busy. `used` counts how
often a prompt was given to the runtime and `late` remembers that a push came back to a
session that had become idle.

### MainTurns

`row` is the turns table, `activeRun` and `fin` are `activeTurns` and `turnFinalizations`,
`prompt[p]` is the progress of one agentPrompt handler, `rt` the run the sidecar streams and
`wire` the notifications Main has not read. `codex` is the engine of the process, chosen at
the start: only with it are events of another turn than the active one dropped. `joined`
remembers that a turn was opened while another was being finalized. The exit of the sidecar
(`SidecarExit`) and the close of the turn by its handler (`ExitCloses`) are two steps, because the handler awaits
host-core and the checkpointer in between (`exiting`).

The same handlers appear in `AgentHost` as `MainAccepts`, `MainRefuses`, `MainCloses` and
`FinishDone`. `RuntimePort` is what the two have in common: a session shows a run that is open,
then closing, then none. `MainTurns` implements it (`ImplementsPort`, with `PortPhase` as the mapping), and the Main of `AgentHost`
takes only its steps (`UsesPort`). The one thing that `AgentHost` leaves out is `Overtakes`: a prompt whose INSERT falls
between the end of a row and the end of its `finishTurn` takes the place of the run that is closing. The Agent Host
asks `isSessionBusy` before it prompts, so this takes a prompt that was under way, or went past the host, when the run
closed; `AgentHost` has Main refuse that one.

### EventHub, GaplessFeed, Snapshot

`oldest` stands for the window: it moves forward by count and, at any publish, by age.
A client applies what its connection carries in order and resumes from the last
event it applied. A connection may drop with what it carries. A resynchronised subscription starts at the
end of the stream; the view of the client then is outdated until it takes a snapshot.
Ephemeral events have no sequence and change nothing here; subscribing without a cursor is left out.

`GaplessFeed` has only an epoch, a length and a cursor per client, which moves by one or by a
snapshot. `EventHub` implements it with `epoch`, `sequence`, `at` and `atEpoch` (`ImplementsFeed`): window,
connections, counters and closes are all invisible to a client that follows its cursor.

`Snapshot` gives the events a meaning. An item starts, ends or dies with its turn; each of these
publishes. `activeItems` is the Agent Host's list, `rows` what has reached host-core, and `Stored`
the write that follows the event at some time. `attach` is split where the code awaits: `AttachAsks`, `PageRead` (the history is read),
and `SnapshotTaken` (the active items and the cursor are read with what is there by then). `live` and `done`
are what the client shows; `Applies` is a message it reads. `gap` remembers the items the client's
snapshot missed.

### ToolBudget

A call tries to take the permits of `Plan(c)` in order, backs off by returning them one by
one, joins the queue if its counter allows it, and waits for the permits in the same order,
holding what it has. A released permit goes to the first waiter, as tokio's fair semaphore does. The
timeout drops the future: its waiting place first, then its permits one by one.
`WaitExpires` requires that a permit is still missing, because a timeout polls its
future before its timer.

### ToolGate, Approvals

`call[c]` is the local state of one `tools.execute`: each action is what its task does while it holds the
lock of `AppState` once (`Register`, `Evaluate`, `Look`, then `Answered`, `TimedOut` or `Interrupted`, `Settle`,
`Admit`, `EndTool`, `Clear`). The tables are variables of their own: `request` (with "stale" for one past its
expiry), `registered`, `sent` (the oneshot channel), `watch` (the cancellation of a shell call), `tombstones`, `grants`.
`Abort`, `ClearGrants`, `Shutdown`, `Resolve` and `Sweep` act on them at any moment.

`Approvals` adds who answers. `answer[r]` is one client's answer: sent to the host, on its way back, over.
The desktop card and remote clients end in the same handler; a remote answer goes through the broker, whose `card` and `result`
are `pending` and `results`, and marks its request as `resolving` so that the card's settlement does not
announce it twice. `TurnEnd` cancels the broker's requests of a session, and `SyncAsk` and
`SyncAdd` are the two sides of the await in `syncPendingTools`. `slipped` remembers the ways in which a
settled request is open again or never closed.

### Persistence

`entries` is the outbox, `file` its last write, `chain` the writes still to come, with who asked for them;
`flush` is the loop, before and after the shift that follows its await. `pending` and
`saving` are the checkpointer's next snapshot and the one on its way. host-core has `lines` (the
transcript of each session, of which readers show the last line of an id), `index`, `ckpt` and `turn`. `AppendRow` is
`append_message` with its check of the index; `Promote` is the recovery of what is left of a checkpoint, at boot and at the end of a
turn; it removes the checkpoint before it appends, so `lost` counts the promotions that failed in between. A start of host-core drains the
outbox and then recovers, as `startHost` does. `starter` is who does it: the boot of Main, the loop of `superviseRestart`, or nobody.
`Supervise` is the answer to an exit: it starts the loop, but an exit that comes while the loop waits for `startHost` is left to
that loop, which goes on as if the start had succeeded; and the loop may give up (`GiveUp`). `Push` replaces the entry of a row that
is sent again (`Twice`). `late` are appends whose caller has given up.

### Contracts

host-core's side is `status`, `exec`, `mode` and `running`; Main's side is `disp` (where `dispatchApprovedPlan` of an
execution is), `retry` (its timer), `owner`, `claimed`, `started`, and `pend`, `recording` and `finished` for the outcome;
`closing` and `after` are the finalization of a turn and what is recorded once it is done. A lost call is one that commits and whose
answer does not come (`ClaimLost`, `BeginLost`, `ApproveLost`, `RecordLost`). A run that ends
says so on `wire`, and Main reads it later (`HearEnd`): then it closes the turn that is active by that time, and records the execution the end is of;
one of the two engines drops the end of another turn than the active one. `Boot` is the maintenance of `db.rs`, which interrupts what was open.

## 3. What is checked

Every run has `CHECK_DEADLOCK FALSE`: prompts, runs, sequences and calls are finite, and a system
that has used them up rightly stops. Progress is stated as liveness instead.

| run | instance | shows |
|---|---|---|
| `queue` | 2 callers, 3 prompts, two of them one request sent twice, lost and rejected calls, 1 restart | `ClaimedOnce`: a record is handed to one taker. `ClaimedLeftStore`: and no restart can restore it. `SoundUndisturbed`: without overlap the mirror is the table and keeps every accepted prompt |
| `main_turns` | both engines, 2 prompts at a time, 2 turns, 1 abort, 1 sidecar exit whose handler awaits before it closes, 1 lost call | `MainInv`: a running row has an owner. `ClosesOwnTurn`. `ImplementsPort`: the refinement of `RuntimePort`. Under fairness `EveryTurnCloses` and `MainFrees` |
| `host_claims` | 1 client with every call, 3 prompts, early events, runs that end once or with an error and then `agent_end`, plan approvals, lost store calls, refused prompts, 1 sidecar exit or restart | `NoLossNoRepeat`: an accepted prompt is in the queue, in hand, answered, or was given to the runtime, once, whether it is run or steered with; it is lost in two ways only. `NeverResurrected`: a canceled turn never runs or finishes |
| `host_order` | 1 client that starts and steers, 4 prompts, prompts past the Agent Host, refused prompts, plan approvals, 1 restart, events after the continuation | `OneRunning`, `SomethingWakes`, `RestoredWaits`, and under fairness `QueueMoves` |
| `host_crash` | 1 client, 1 sidecar exit | violation of `ActiveHasRun`, finding 1 |
| `feed` | 1 client, 1 item, 4 events, window 3, bound 2, 2 epochs | `NoSilentLoss`, `LiveIsCurrent`, `ImplementsFeed`; `InFlightAsOfCursor` and `SnapInv` of the client's view; `CatchesUp` under fairness |
| `missing` | the same with 3 events | violation of `NothingMissing`, finding 3 |
| `budget` | 4 calls, 2 sessions, 2 classes, one permit of each kind, queue of 2, timeouts | `BudgetInv` (no permit is lost or made), `MutationWaitsAside`, `QueueBounded`, and `EveryCallSettles`: waiting with permits in hand never ends in a cycle |
| `approvals` | 1 shell call, 2 remote clients and the card, each with another answer | `FirstDecisionWins`, `AcceptedIsObeyed`, `AbortedNeverRuns`, `ClosedUnlessSlipped`, `ApprovalInv` (nothing is left in the tables), `EveryCallEnds` |
| `persistence` | 2 rows, one of them a reply, 2 sessions, one deletable, outbox of 2, 2 exits or starts that fail, 1 failed promotion, timeouts, a row sent twice | `NothingDropped`, `SavedStays`, `PersistenceInv` (a part never follows the final row), `OutboxDrains` |
| `supersede` | the same | violation of `FinalSupersedes`, finding 2 |
| `contracts` | 2 contracts, 2 prompts, 1 exit, 1 lost answer, 1 Stop, two of these three | `RunsOnce`, `SettledStays`, `ContractInv` (one contract at a time), `ExecutionEnds` |

Invariants named `...Inv` join the module's type invariant to a property of its own.

### Bounds, and why they are enough

* *Prompts and turns.* Losing, duplicating or swapping a record takes two records and a third one
  to be hit by a stale index. A finalization that closes another turn takes two turns.
  Two pushes that meet at a queue one short of its bound, one of them refused by host-core, take
  three prompts and `MaxQueued = 2`.
  An event goes *astray* when the drain loop has shifted a prompt, another one is queued behind it and the run of a third
  one begins, and the two wait because of the run of a fourth: four prompts in `host_order`. They are alike, so
  they are issued in one order (`InOrder`).
* *Callers.* A queue race needs one call that reads before and one that writes between. In the runs of the
  Agent Host these are the client and the drain loop.
* *Restarts, exits, aborts, lost calls*: one each. What they leave behind is a state from which the
  run continues, so a second one meets nothing new except through the first. `persistence` has two exits, because
  one leaves a checkpoint and the next one meets what the first start did with it, or the loop that still runs. `contracts` takes any two of an
  exit, a lost answer and a Stop (`MaxTroubles`): one that opens a window and one that falls into it. Two epochs
  are enough for a cursor of the wrong epoch whose number is a valid one of the new.
* *Events and clients.* Four events with a bound of two make both a live subscriber and a replay overflow, and leave an event to come after the
  close; eviction by age may happen at every publish, so every position of the window occurs. Clients share nothing but the
  stream, which they do not write, so one is enough; the theorems hold for any number. One
  item can be in flight, completed or dead at each of the three moments of an attach.
* *Permits.* One of each kind and four calls make every wait happen and leave two calls in the queue of two
  while a third is refused. With several permits of a kind fewer waits happen, not other ones.
* *One tool call* in `approvals`: calls share the session grants only, and the session's grant can come and go by itself (`Grant`, `ClearGrants`).
  Three clients with three different answers let a second and a third one lose.
* *Rows.* A reply and another session's row make the loop hold one while the other is dropped, replaced or
  deleted. `MAX_ENTRIES` is never exceeded with two rows and an outbox of two, so
  that the outbox refuses a row is not reached.
* *Runs that end twice.* One run of `host_claims` may end with an error and then `agent_end` (`Tails`), which is what `NeverResurrected` is hardest for; the
  runs of `host_order` end once.
* *Timeouts, replacements, failed promotions.* Only the reply's append times out and only the reply is sent twice (`Timeouts`, `Twice`): its row is the
  one with a checkpoint to lose. One promotion fails (`MaxLost`): the next finds the state of a session without a checkpoint.
* *Contracts.* Two, so that the second proposal meets what the first one left behind.
* Symmetry is over prompts, only in safety runs where no key or model value
  tells them apart.

The bounds are the constants `Max...`, `EarlyCalls`, `StoreFaults`, `Calls`, `Tails`,
`EarlyEvents`, `PromptFaults`, `Twice`, `Deletable` and `Timeouts`. `Calls` names what the clients of an instance call.

### Fairness

`MainLiveSpec`, `HostLiveSpec`: weak fairness of continuations, of host-core's and the sidecar's
answers, of reading the event stream and of the end of a run. The event loop serves what is
ready, host-core and the sidecar answer what they receive (when they are lost, that is an action of its
own and needs no fairness), and a run ends because the provider stream ends or times out.
Nothing is assumed of clients, of crashes or of lost calls.
`BudgetLiveSpec`: weak fairness of each call's own steps (threads run, and every tool has
a deadline), none of the timeout. `ApprovalLiveSpec`: each call's task runs, and the permission timer with it, since a task that
awaits it is woken; nobody need answer. `PersistenceLiveSpec`: the outbox goes on writing and
sending, and who is to start host-core does; `HostStart` is enabled only while the boot of Main or the loop of `superviseRestart` is about
to, so that nothing is assumed of a host that nobody starts. `ContractLiveSpec`: calls are answered, timers fire, exited processes are restarted and turns end; nothing is assumed of the user.
`SnapLiveSpec`: an attach that was asked is answered; reading and subscribing again are strongly
fair, because a connection may drop again and again but does not drop for ever before an event is read.

### Conditions in the properties

Some properties carry a condition that says exactly where the code stops short of a stronger claim:

* `SoundUndisturbed` except *disturbed*: two first pushes of a session each take `bySession.get(id) ?? []`
  before they await the store, make an array each, and the second `bySession.set` forgets the first
  record, whose row stays (`turn-queue.ts:68`). A push that repeats the key of a queued prompt puts a record
  without a row into the mirror, which may then hold more than the bound.
* `SomethingWakes` and `QueueMoves` except a push that returned *late*: `startTurn`
  decides that the session is busy before it awaits `queue.push`, and does not look again
  (`agent-host.ts:461`). A turn that ended meanwhile has drained an empty queue, and the prompt sleeps
  until the next event. `docs/spec/03-runtime/01-ipc-protocol.md:1286` wants no prompt left asleep. A session that awaits
  the approval of a plan (*planning*) does not drain on purpose.
* `OneRunning`, `SomethingWakes` and `QueueMoves` except *astray*: the loop takes its record off the queue and then awaits; a run that
  Main opens meanwhile for a prompt past the Agent Host is unknown to it, and `resolveTurnId` (`agent-host.ts:980`) takes it for
  the head of the queue, because the loop is draining. But that head is the record behind the loop's own: a queued prompt is
  reported as running. If the stray run ends with an error, it stays active and the session sleeps.
* These three are checked with `EarlyEvents = FALSE`: an `agent_start` read before the continuation of the
  prompt that caused it is given a turn of its own, because drain has already shifted the
  record that `resolveTurnId` looks for at the head; the continuation then makes the queued turn
  running too (`agent-host.ts:983`).
* `EveryTurnCloses` and `MainFrees` except *joined*: the error of a turn that was opened during the
  finalization of the one before joins that finalization and closes nothing (`index.ts:5745`).
* `MainInv` has its row owned while no host-core answer was lost: a lost answer of `beginTurn` leaves a row
  that only the recovery at the next start closes.
* `ClosesOwnTurn` needs the engine whose stale events are dropped (`index.ts:5254`). With the other one,
  an event of an earlier run closes the current turn. It speaks of events only: a prompt that
  fails after its turn was aborted closes whatever turn is active then (`index.ts:9251`).
* `NoLossNoRepeat` but for the two ways in which an accepted prompt is lost: the answer of the store to its remove is lost (`RemoveLost`), so that drain or
  the steer drops what it has taken off the mirror; and Main restarts between that remove and the prompt that reaches the
  runtime (`LostInStart`, `agent-host.ts:704`). No document says that a restart keeps a prompt that is being started.
* `NeverResurrected` but for the prompt of a canceled turn that is rejected: the turn is then failed (`agent-host.ts:735`). And a run that reports an error and
  then `agent_end` turns its failed turn into a completed one (`agent-host.ts:217-223`). Both are against
  "Terminal turns are immutable" (`docs/spec/03-runtime/19-remote-agent-control-protocol.md:270`), which is therefore no property here:
  what holds is that a canceled turn never runs and never finishes.
* Send-now is in `host_claims` only: its stale index (`turn-queue.ts:105`) may move another entry, or an
  undefined one, to the head, and a queue with an undefined head no longer drains.
* A request repeated while its first attempt is in flight is not recognised by its key
  (`agent-host.ts:422`) and may run twice under two ids; `NoLossNoRepeat` counts ids.
* `queue` starts its calls after `restore` has landed. With `EarlyCalls = TRUE` a prompt
  that was pushed and taken meanwhile comes back.
* `SnapInv` except the *gap* of finding 3.
* `ClosedUnlessSlipped` except *slipped*: the desktop card wins while a remote answer is on its way, or a list older
  than the answer, or a late announcement, opens a settled request again in the broker (`approvals.ts:121`). The
  host refuses a second answer all the same, so no call is affected.
* `NothingDropped` except *crossed*: the loop shifts the head after its await (`persistence-outbox.ts:108`), and if the
  session of the row it sent was dropped meanwhile, it removes the next row unsent.
* `OutboxDrains` except *paused*: a flush that ended on an error while host-core stayed up is tried again with the next
  row or the next start, not by itself; and except *Stranded*: host-core exits again while the loop of `superviseRestart` waits for
  `startHost` to drain or to recover. `superviseRestart` then returns the loop that runs (`index.ts:6335`), `startHost` swallows the failed calls
  (`index.ts:5224`) and the loop ends as if it had started the host (`index.ts:6381`). Nobody starts it again before the user does, and the rows wait. An
  entry that is replaced while it is sent is shifted with its newer version unsent; the two have the same row, and host-core would take the second for
  a duplicate.
* `SavedStays` except a promotion that fails: the checkpoint is removed (`sessions.rs:1756`) before its line is appended, so an exit or an append that fails
  in between leaves the reply nowhere.
* `PersistenceInv` except *torn* rows: the transcript line is written before the index row, and after an exit in between
  the boot promotes the part after the final line (`sessions.rs:1648`).
* `SettledStays` except *overtaken*, `ExecutionEnds` except *overtaken*, *joined*, *unheard* and lost answers: a dispatch that is past its claim goes on
  although the execution was recorded as interrupted meanwhile; the end of a turn joins the
  finalization of another; and a claim whose answer was lost leaves a running execution that
  nobody carries until host-core starts again. A Stop that was meant for the turn before may close the turn of an execution; with the engine whose stale
  events are dropped the end of that execution is then dropped too, and nothing records it (*unheard*, `index.ts:5254`).
* `ToolBudget` has no limit of shells per session, because the code has none, although
  `docs/spec/03-runtime/06-host-rpc-protocol.md:38` speaks of two.

### Findings

1. **A session blocked by a sidecar crash** (`host_crash`). The exit handler closes the durable
   turn and does not tell the Agent Host, which keeps the turn running and the session occupied.
2. **A reply stays a fragment** (`supersede`). A checkpoint is written while the reply streams; the reply
   ends, and its final row waits in the outbox; host-core exits before the turn is closed. Its next boot aborts the
   turn and promotes the checkpoint, which indexes the id, before Main has drained the outbox; the flush then sends
   the final row, which `append_message` takes for a duplicate (`sessions.rs:1609`).
3. **An item that no snapshot shows** (`missing`). `snapshot` awaits the page of completed items and reads the
   items in flight and the cursor after that (`agent-host.ts:644`). An item that completes in between is in
   neither, and its `item.completed` lies before the cursor.

## 4. What is proved

Every safety property of the passing runs is a theorem. The proofs are for every value of the constants under
the assumptions of the modules, which TLC evaluates in each run: `QueueAssumption` (a positive bound, and
no prompt named like one of the markers), `HostAssumption` (the drain loop is a caller, runs end with `agent_end` and
errors, and a run has an id of its own), `HubAssumption` (the window and the bound are positive), `MainAssumption` (`NoRun` is no run),
`BudgetAssumption` (finitely many calls, positive limits), `GateAssumption` and
`ApprovalAssumption` (finitely many calls, the modes decide one of three verdicts, clients answer decisions),
`PersistenceAssumption` and `ContractAssumption` (finitely many rows and contracts, an outbox with a positive bound).

`AgentHost_proofs`, the queue. `QueueTypes` and `ClaimedRecordsAreGone` hold for any number of concurrent calls and
restarts, with lost answers and with calls before the restore. `ClaimedLeftStore` is not inductive:
the row is deleted when host-core executes the remove, the prompt is claimed when the continuation runs,
and any other request may be executed in between or after. The invariant `QueueInv` adds
that the table has no record twice (`NoTwice`: one DELETE would leave the second), that a record whose removal
has been answered is not in the table (`Deleted`), and that a record whose push is on its way to host-core is
nowhere else (`PushedAfresh`), because that push is the only request that puts a row into the table. The last one
needs that everything ever mirrored, listed or claimed was pushed before (`Issued`); `Placed` keeps the stale indices
away from position 0. The steps are grouped by what they may do: `BeginKeeps`, `StoreKeeps` and `ReturnKeeps` are proved
once, and each action is shown to be an instance of one of them.

`EachClaimedOnce` adds where each record is. Under `QueueInv` a record could be in two
arrays, or twice in one, and two removes would hand it out twice. `OnceInv` says that it is with one call that pushes or
removes it (`Carried`), or in one place of one array, or claimed (`Mirrored`; holes may repeat), and that until the
restore every array is empty and what was listed is unclaimed (`Restoring`). A stale index is harmless to it: whatever
record it hits leaves the array before it is handed out. The theorem assumes `~EarlyCalls`: a call before the
restore does put a record in two places.

`MirrorHolds` is `SoundUndisturbed`, with the same assumption. Between calls the mirror is the table; during one
the two differ by exactly what that call has done to one of them. `Sound` says which (`PushSound`, `RemoveSound`, `MoveSound`:
the table has the row, or the array still has it, or the table is already moved as the array is going to be), that no other call is in
flight (`Alone`), and what holds while the queue is being restored. `Arrays` adds that an array nobody has written is empty, so that the first
push of a session starts from nothing. `QueueOverlap` sets `disturbed` in the step after which `Sound` may fail, and the lemmas show that no other step breaks it.

`AgentHost_proofs`, the host. `HostStepsQueue`: a step of the host is a step of the queue, or leaves it alone, or issues an id that never
enters it (a direct turn). So `QueueInv` and `OnceInv` hold of the host, and what follows builds on them.
`HostIsTyped` is the type invariant for all values of the constants, which needs that a remembered array, index or prompt is one.
`RestoredPromptsWait` needs only the array that the restore makes: while it is in the map or in the hands of a call, the queue is held or
a client has come (`WaitInv`).
`PromptsRunOnce`: a prompt reaches the runtime from a record that was handed out, which happens once, or from a call that issued its
id and queued nothing. `UseInv` joins the two (`Spent`), and `Outside` says of the second kind that no call, array or row will ever name it.
`AcceptedIsKept` is `NoLossNoRepeat`. A prompt that was reported as queued and not removed is in the table, in what a restore
has read of it, and in the array in the map once it is restored (`KeepInv`); so a step takes it out of the queue only into the hands of a remove (`Stays`).
From there it is followed: the remove of drain hands it to the loop, the remove of a steer to the runtime, that of a cancel to its answer, and what
the loop has in hand it gives up only when the runtime has it or its turn has failed (`HandInv`, `HandMoves`). Each other way out is one of the two that the
property names. Its two hypotheses are the two ways the
code loses a prompt that is still queued: two first pushes that overlap leave an array out of the map (`turn-queue.ts:68`), so it is for one client at a time, whose
calls still overlap with the drain loop, lost answers, restarts and exits (`OnePush`); and the record of a repeated key has no row, so
the keys are the prompts' own (`OwnKeys`). The run has the same instance.
`CanceledStaysCanceled` is `NeverResurrected`, under the same hypotheses. A turn is made running by an event that names it, by the push that queues it or by the
prompt that starts it. `DownInv` says that a queued or canceled turn has none of the three: its id is used, no push carries it and no run goes by its name
(`alias`), and a canceled one has left every array, so that the head of the queue, which an event may be taken for, is never it. `StatusMoves` lists what each
step may do to a turn's state; the step that accepts the prompt of a canceled turn is the one that must look at it again (`agent-host.ts:720`).

`AgentHost_proofs`, the order of turns: `TurnsRunOneByOne` and `QueueIsWoken`, for any number of prompts and clients,
where the run has four and one. They keep to the calls and faults of `host_order` (`OrderBounds`: no call before the restore, no event
before its continuation, no exit of the sidecar, runs that end once, nobody cancels or interrupts), outside which `Conditions in the
properties` says how the code breaks them; the first allows a send-now and lost answers as well. Neither is inductive, because a
turn has two names, its record's and its run's, and an event is taken for one or the other by what the loop is doing when it is
read. `OrderInv` follows the one run that Main holds the session for: what is streamed and on the wire is its beginning and its end
(`Streams`); a prompt in hand has left the queue and is one caller's (`Apart`, over `Spent`); the one that Main has accepted is that run, and
no event names it yet (`Admitted`), while a refused one was never given to the runtime (`Refused`); the loop has its record or its prompt,
never both (`Loop`); a run goes by one of its two names (`Names`); and after its start was read it is not taken for the head of the queue, nor
ended by another's end (`Goes`, `Begun`). That what is running is
what Main holds the session for (`Right`) is kept as long as no event goes astray, and two running turns would be two such runs.
`QueueIsWoken` leaves out a remove that the store lost and send-now, which can leave a hole at the head that the loop takes for an empty queue
(`WakeBounds`, `NoHoles`). It needs `Awake`: a released queue with the loop off is kept from running by a plan, by
the session or by a late push; each of the steps that free the session kicks the queue, and a kick that shifts nothing has found one of the three.

`Snapshot_proofs`, the stream. `HubInvariant` establishes `HubInv`: `HubTypeOK`; for every client, what its
connection carries continues its cursor without a gap and a CLIENT_TOO_SLOW comes last and
carries the cursor reached there (`Gapless`); and an open subscription is of the current epoch, has
delivered the whole stream, all of it applied or on its way, with an exact counter
(`Subscribed`). None of the properties is inductive without it: `NoSilentLoss`
speaks of the cursor when a message is applied, and only `Gapless` knows what that message is; `Gapless` is kept
by `Publish` only because a live subscription is current, and by `SubscribeReplay` only because a cursor
that needs no resynchronisation has its next event in the window (lemma
`MissedFromCursor`). From it follow `FeedHasNoSilentLoss` and `LiveSubscriptionIsCurrent`.
`HubImplementsFeed` is the refinement of `GaplessFeed`: every step of the stream is a step of the feed or
none. Reading an event of the current epoch must be shown to be reading one that exists, which
`HubInv` does not say of what a closed connection still carries; `FeedInv` adds it (`Within`).

`Snapshot_proofs`, the views. `SnapUsesHub`: every behaviour of `SnapSpec`, projected on the stream, is one of `HubSpec`, so
what is proved of the stream holds in the composition. `InFlightIsAsOfCursor`: for any number of clients and
items, the items a client shows in flight are exactly those that were in flight at its cursor,
although page, items and cursor of its snapshot are of different moments. `ViewInv` strengthens the property by `FeedInv` and `ItemsInv`:
the Agent Host's list is the items that are streaming, each item's events are numbered within the stream, and its
beginning does not come after its end. `ShownUnlessGap` is `SnapInv`: what was completed by a client's cursor is shown as completed but for
the gap its snapshot left. A snapshot makes it true by the definition of the gap; that no message read after it makes it
false needs `ViewInv`, since the item that a message completes is the one event between the old cursor and the new (`ShownInv`).

`MainTurns_proofs`. `RowsOwned` is `MainInv` and `OwnOutcome` is `ClosesOwnTurn`, for any number of turns and of prompts at a time. A row is
begun before its prompt makes it the active turn, and that prompt may find another turn there by then. `TurnInv` says that a
prompt that has not opened its turn is the only one to know it (`Unopened`, `TurnsApart`), that the INSERT leaves one running row (`OneRow`), and that
what is active or being closed has one (`Opened`): so the turn that a finalization closes is the owner of the running row.
`MainImplementsPort` is the refinement of `RuntimePort`, for lost calls too. That no prompt takes an open run's place is not checked by Main but
follows from the table: the active turn's row runs until its own finalization has closed it (`ActiveRuns`), so the INSERT of another one fails.
`HostUsesPort` in `AgentHost_proofs` shows the other side. `UsesPort` is no property of a run; TLC has checked it with the constants of
`host_claims` and `host_crash`.

`ToolBudget_proofs`. `QueueIsBounded`: the atomic counter is raised, compared and lowered in separate
steps, yet it is always the number of calls that are waiting, refused or expired, so a place
never leaks and at most `MaxQueued` calls wait. The invariant needs the phases and
the counter only; the cardinalities come from the library's facts about adding and removing an element.
`PermitsAreConserved` and `MutationsWaitAside` need what each call holds: `PermitInv` says that a call in `waiting` is
at most once in the queue of the one semaphore it lacks next, and nowhere else (`OneWait`), and that what it holds
while it acquires is a beginning of its plan (`Acquires`). So a released permit goes to a call that does not have it, a
timeout leaves no waiter behind, and a mutation, whose session's permit is the first of its plan, waits for it
with empty hands. `QueueLemmas` has what an append, a removal, a cut and a swap do to the elements of a queue.

`Approvals_proofs`. `AbortIsFinal`, `AnswersAreObeyed` and `EndedCallsLeaveNothing` hold for any number of calls and
clients, where the run has one call. The properties speak of the end of a call; the invariant `GateInv` follows an answer or an
abort on its way there. An abort that came early is a tombstone, then a set channel, then a denial (`Stopped`); an accepted
answer is what the request's channel carries, then the decision (`Asked`, `Obeyed`); what the table still names
waits or is about to be denied (`Kept`). For all but the call that acts, a step ages or denies a request and nothing
else (`Aside`), so each step is looked at for one call (`AsideKeeps`, `CallOnlyKeeps`).
`WonIsClosed` adds that what was announced and is on no card any more has its result, and that the desktop answers only what was
announced to it (`ClosedInv`): so the reply of an answer that won settles a request the broker knows.
`OneDecisionWins` adds the replies: who was told "ok" decided what the host accepted (`WonInv`), and the host accepts for
a request once (`AcceptedStays`), because an accepted request is never open again.

`Persistence_proofs`. The theorems hold for any number of sessions, replies and exits, where the run has two, one and two.
`FinalRowStays` is `PersistenceInv`: a final row is not followed by a part of its reply, because both appends ask the index, and the index knows
every line but a torn one (`Indexed`). `WrittenIsKept` is `NothingDropped`: the loop sends the head and shifts what is the head
after its await, which is the row it sent unless a session was dropped meanwhile (`OutboxInv`), and what the file held is in the newest
file as well as in memory, or in the transcript (`KeptInv`): the exit of Main may come at any write. `CheckpointsStay` is `SavedStays`; of the promotions it needs that
one which does not fail leaves a line for every checkpoint it takes. The proof showed that the run had been too
small for its first form: `save_inflight_message` deletes the checkpoint of the session when the reply that it is asked to *write* is indexed,
so the checkpoint of another reply of the session goes with it. With two replies in a session that is deleted and created again TLC finds that; the
property now names both replies.

`Contracts_proofs`. `PlansRunOnce`, `DecisionsStand` and `OnePlanAtATime`, for any number of contracts. `RunOf` counts: an execution that is not past
its claim has not run, a dispatch past its claim is the only one and has not run yet, and what is, or is going to be, recorded as completed has, an end that Main has not read yet included (`Said`).
Every step but the one that runs an execution moves each execution forward in the same order (`Forward`) and opens a contract only
where there is none (`Turns`), so those two are all that is shown of each action.

Only model-checked: all liveness, which the prover does not reach, and the three findings.

## 5. What is not modelled

One session at a time, except where sessions share something (the tool budget, the outbox, the grants).
Message contents, prompts, attachments and revisions are data that no property depends on. The runtime's
provider loop is reduced to the events it ends with. In the modelled components:

* `AgentHost`: input requests, revisions, `reorderTurn` (only in `TurnQueue`), a run that overtakes one that is closing.
* `Approvals`: approvals of plans and goals, which take the same way to another handler; the age of a tombstone.
* `Snapshot`: the bound of the page; queued turns, approvals and input requests in a snapshot.
* `Persistence`: the interval between two checkpoints, which may be any; a `settle` that forgets the write in flight of
  a newer message.
* `Contracts`: goals, the version and the text of a proposal; what the handler of a sidecar exit awaits before it closes the turn, which `MainTurns` has. A drain that finds a busy session tries again at the
  next drain.

The implementation has some 150,000 lines, of which these modules stand for about two thousand: the part in which several
processes share state. Most of the rest is user interface, translations, generated protocol types, plugin and provider plumbing and file formats: code
with one actor and no protocol, for which a model would say what the code says. Components marked
`not_modelled` in `PROJECT.json` are either planned below or of that kind.

## 6. Plan

1. `HostProcess`: pending calls, timeouts against late answers, exit and restart. `PathLock`, composed with `ToolBudget`: a writer holds
   its path while it waits for permits.
2. Scheduled runs over `MainTurns`; plan approvals in `Approvals`, with `Contracts`.
3. `AgentHost` over the whole `RuntimePort`, with `Overtakes`: whether a local prompt that overtakes disturbs the order of turns.
