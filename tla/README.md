# A TLA+ model of air780e-hub

air780e-hub receives and sends SMS through Air780E LTE modules. An **agent** (Python, asyncio, one per
machine with modules) talks to the hardware; a **hub** (FastAPI, SQLite) keeps the history, shows it and
notifies people. One WebSocket connects an agent to the hub. This directory models what the two processes
promise each other over that socket, and what each does on its own while the other one, the link or the
hardware fails.

Paths below are relative to `agent/src/air780e_agent/` (agent) and `server/src/hub_server/` (hub).

## 1. Inventory

| Component | State it keeps | Operations | Talks to |
|---|---|---|---|
| Event log (`store.py`, `link.py`, `app.py`) | SQLite `events` with `seq` and `acked`, `stream_id`; in memory `_sent_through`, `_wake`, `_connected` | append, trim, send, handle `ack`/`resend_from`, reconnect | gateway, by `event` frames |
| Gateway ingest (`gateway.py`, `db.py`) | `ingested(stream, seq)`, business tables | registration, `apply_event`, `ack` | event log |
| Durable commands, hub (`gateway.py`, `db.py`) | `command_operations` | submit, dispatch, expire, cancel, apply result, disconnect, recover, restore | agent, by `send_sms` frames and `cmd_result` events |
| Durable commands, agent (`commands.py`, `app.py`, `store.py`) | per-module queues, `commands` journal | submit/reject, execute, record, discard, recover | hardware; event log |
| Offline alerts (`alerts.py`) | `_pending` timers, `_alerted`, `incidents`, `devices.online` | note up/down, fire after grace, recover | gateway, database worker, notifier |
| Keep-alive scheduler (`scheduler.py`, `schedule.py`) | `tasks.next_run_at/last_run_at`, `_running` | tick, run, retry, run by hand | hardware; event log |
| Task synchronization (`gateway.py`, `app.py`, `store.py`) | `agents.tasks_*`, connection's `tasks_sync_id`, agent's `tasks` | edit, push, retry, apply, receipt | event log |
| Database worker (`db.py`) | one thread, FIFO jobs | `run`, cancellation of a caller | everything in the hub |
| Connection registry (`gateway.py`) | `connections`, generation | hello, conflict, unregister | |
| Notification outbox (`notify.py`, `db.py`) | `notify_outbox`, `notify_deliveries` with leases | enqueue, claim, settle, purge | external channels |
| SMS delivery reports (`db.py`) | `sms_delivery_segments` | match a status report to a part | |
| Module worker (`worker.py`, `modem.py`, `at/client.py`, `discovery.py`) | port, AT session, recovery ladder | open, poll, recover, fetch SMS | hardware |
| Reassembly (`pdu/concat.py`) | partial multipart messages | add part, expire | |
| Backup, restore (`restore.py`, `db.py`) | maintenance flags, snapshot | backup, switch, reset | all hub components |
| HTTP API, auth, metrics, CLI, codec, frontend | rows, sessions | CRUD and presentation | |

What is hard here: both processes can die between any two commits; the socket may lose everything after the
last byte that was read while each side finds out at a different time; the agent's store and the hub's
database can be replaced by an older or an empty one; coroutines keep a snapshot over an `await`; cancelled
callers leave jobs on the database thread. `PROJECT.json` lists these hazards by line.

What makes each part correct:

* events: nothing is lost, nothing is applied twice, order holds, every event arrives;
* commands: at most one execution, on the SIM it was meant for as far as the agent can tell, and a status that
  never claims more than is known; every operation is closed and a recorded result gets through;
* alerts: one page per outage, one all-clear per page, the incident row agrees with the device;
* scheduler: no two runs at once, a manual run is not repeated, a due task runs, plans match the schedule;
* task sync: "applied" is true, final, and reached;
* outbox: a push is repeated only where nobody can know whether it was received, its status is true, it is
  settled within its budget of attempts;
* inbox: a message of the module is reported, or it is known what lost it; never twice after one reading;
* AT client: a command gets its own answer, URCs go to their handlers, every call ends;
* recovery: the limit per window and the cooldown hold over restarts, every incident is closed by somebody;
* data policy and discovery: forbidden data ends up off; a worker that asks for a module talks to that one, which is
  found;
* registry and restore: a served session is shown as connected, one session per agent, nothing acknowledged is
  lost by a restore, the services come back;
* schema: an opened database has the current shape, no committed step loses rows, there is a way back;
* delivery reports: no report of a known segment is lost, "delivered" is true and final.

## 2. Modules

| Module | Models |
|---|---|
| `EventMirror` | abstract: an agent owes the hub a set of numbered events; the hub's mirror grows by one owed event at a time, in order |
| `EventStream` | the implementation of it: store, sender, receiver, gateway, ingest |
| `EventStream_proofs`, `Operations_proofs`, `Scheduler_proofs`, `NotifyOutbox_proofs`, `Recovery_proofs` | theorems about these modules (section 5) |
| `Tasks_proofs` | theorems about `TaskSync` and the composition `Tasks_MC`, which it extends |
| `Agent_proofs` | theorems about `Inbox`, `Discovery`, `ATClient`, `DataPolicy` and their composition `Agent_MC`, which it extends |
| `Hub_proofs` | theorems about `Registry` with `Restore`, `Delivery`, `OfflineAlert`, `Schema` and their composition `Hub_MC`, which it extends |
| `Operations`, `Operations_MC` | durable SMS commands from submission to the hub's final status |
| `OfflineAlert` | the offline alerter with the gateway session and the database worker around it |
| `Scheduler` | one keep-alive task on the agent |
| `TaskSync` | the task list's way from hub to agent and the receipt's way back; its constants, with what is assumed of them, are in `TaskSyncConstants` |
| `Tasks_MC` | `Scheduler` and `TaskSync` in one specification, of which one part moves |
| `NotifyOutbox`, `NotifyOutbox_MC` | notification intents, deliveries, leases, attempts |
| `Inbox` | stored SMS: listing, fetching, deleting, reassembling, reporting |
| `ATClient` | the AT command channel with prompts, unsolicited lines, late answers |
| `Recovery` | a module worker's connection, status sample and recovery ladder |
| `DataPolicy` | reading and enforcing the packet-data policy |
| `Discovery` | finding modules on serial ports: claims, surveys, adoption |
| `Registry` | agent sessions, the database writer and requests as the gateway sees them |
| `Restore` | `Registry` with the online restore on top (EXTENDS it) |
| `Schema` | opening and migrating the hub's database file |
| `Delivery` | SMS status reports against the segments of sent messages |
| `HubParts`, `AgentParts` | `Restore` with `Delivery`, `OfflineAlert` and `Schema` instantiated; `Inbox` with `ATClient`, `Discovery` and `DataPolicy` instantiated |
| `Hub_MC`, `Agent_MC` | these parts in one specification each, of which one part moves; `Agent_MC` also instantiates `EventStream` |

Actions carry the name of the function they model; an action is what happens between two `await`s (or
between two transactions). `PROJECT.json`'s `map` gives the lines.

**EventStream.** An event is its sequence number; `status` says which ones are status samples, the only ones
`trim_events` may drop. The sender's loop is cut at its two awaits: `sender_turn`/`sender_timeout` query the
next batch, `sender_next` finishes one send and writes the next frame. `handle_ack` and `handle_resend` run
between them, as the receiver task does. A link dies on each side separately (`link_lost`, `unregister`); what
was on the wire dies with the side that reads it. `apply_event` is the hub's transaction, `send_ack` the
step after it. `rebuild_store` is a new store file with a new `stream_id`. No code in the repository sends
`resend_from`; the agent handles it, so `ResendInUse` turns a peer that does on and off.

**Operations.** `status`, `opConn`, `opStream`, `expected` are columns of `command_operations`; `journal` is
the agent's `commands` table; `queues`/`running` is the `CommandDispatcher`; `results` the events on their
way (delivered in order and once, which is what `EventStream` shows). The dispatcher checks the connection
and claims the row in one step: both happen without an await before the job is queued, and a disconnect
clears `ready` before it queues its own job on the same FIFO thread. `log` records every call of the
hardware with the SIM that was in the module and what the worker thought it was: `sim` is the card, `reading` is
`worker.state.iccid`, taken when a port is opened (`_connect`), `Blank` when that failed or before it happened, and
`hubSim` the device row the hub stamps an operation with, which follows the status events and keeps its value over a
blank one. `identity_changed` compares as `app.py:333` does: two known values that differ. The IMEI is compared in the
same expression and has the same shape; the model has one of the two. Left out: non-durable commands
(`Gateway.call`), `run_task` and `sync_tasks` (their control queue is in `TaskSync`), the database worker's admission
limit. A discard that hits two waiting frames of one operation emits one
event instead of two equal ones.

**OfflineAlert.** `jobs` and `done` are the database thread's queue and the answers waiting for their
coroutine; `timer` follows one timer coroutine from `_pending`; `fresh` are tasks created and not yet
started, because a task cancelled before its first step never runs. A cancelled timer whose job is on the
thread leaves an orphan whose answer nobody reads. The push itself is the element appended to `pages`.
Manual resolution of an incident is left out.

**Scheduler.** Time is a counter. A schedule is its version. One that is an interval counts `Interval` from the last
run; one that is a cron expression (`Cron`) names moments of the calendar, here the multiples of `Interval`, and the next
one is the first later than now (`Nominal`); one in `Broken` does not parse. `next_run` adds the jitter and cuts it off at the
floor. `early` is a history of the schedules of which a run left a plan due at once. A coroutine keeps the row it was started with
(`ver`, `last`). The hardware answers, raises (a retry follows) or the task turns out not to be runnable.

**TaskSync.** A task list is its revision (a hash of the contents), so changing it back and forth meets an
old revision again; a sync id is a fresh number. A send that times out may still reach the agent. Receipts
are ordinary events and travel in order.

**NotifyOutbox.** `intent` and `row` are the rows of `notify_outbox` and `notify_deliveries`; a delivery is an
(event, channel, rule) triple, as the table's unique key has it. `attempt` follows the coroutine of a claimed
delivery over its awaits: the global permit, the channel's permit, the channel row, the payload, the send. A
lease carries the number of the process that took it; `lapsed` is the clock passing its end. `received` counts
what the provider got and `doubtful` marks deliveries whose send was cut off, after which nobody can know.
Providers are a nondeterministic answer (accepted, refused for good, refused for now, lost). The rule's pattern
match is abstracted to "matches"; a rule is on, off or deleted.

**Inbox.** A part of a message sits in a slot of the module, in the reassembler (`partials`), in the hand of the
index loop (`fetch`) or of the drain (`drain`), or is reported. `reread` and `lost` are histories of which
parts were read after the agent had them already and which were deleted unseen. The event log behind `_on_sms` is `EventStream`'s concern:
a report is final once `record_message` has committed it.

**ATClient.** The module is a script of lines per command; lines of a URC may fall anywhere between them. A
`Shared` command's answer looks like a URC, a `Prompted` one waits for `> `. A split URC has its payload on the
line after it. `order` is the order in which calls were written, against which a late answer is measured.

**Recovery.** `mem` is the worker's recovery state, `disk` the copy in the local store, `incident` the hub's
row. Two coroutines sample the status: the poll loop and a refresh command; `pc` is where each waits.
`live` says whose port is still the open one. Time passes between any two steps, so an action may outlast the cooldown
and, with a cooldown of zero, the next one may begin in the same tick; recorded attempts carry a number for that
reason. `begun` is when a sampler decided on its action, which is also the time from which a reset counts the next
delay; `overlap` remembers that an action was started while the other sampler was at one. A refresh is a command of
the operator and counts as one.

**DataPolicy.** `truth` is what the module does (attached, contexts active) and `state` what the worker read of
it. The sample and the two commands are coroutines that interleave at each AT command; the host may activate a
context by itself.

**Discovery.** A module answers with its IMEI and ICCID, or (rarely, bounded by `MaxUnread`) leaves one out. The
registry's lock is held over a whole scan; ports are replugged while it goes on. `Configured` is the sequence of
the configuration's devices; workers are numbered in that order, the adopted ones after them. `scan.todo` is the
set of ports the scan has left, of which the first by name is probed next. `Sole` is `sole_device`: with one configured
device a worker without an identity claims the first port that answers instead of refusing (`discovery.py:182`).
Such workers are the ones adopted by their card alone, since `_adopt` keeps the IMEI only (`app.py:192`). Left out is a sole
configured device that names neither IMEI nor card: it claims the first port that answers by intent, and
autodetection is off while it is configured (`app.py:161`).

**Registry, Restore.** A session is at one of its awaits; `writer` is the FIFO of the database thread; `owed`
collects what the hub acknowledged or answered, and `db.rows` what it has. `gw` is the generation of the
gateway: sessions and requests of an older generation are retired. `Restore` adds the steps of `_switch` in
order; each database step may fail, and `restart` is a kill at any moment. The shape of the file is `Schema`'s
concern, what the reset does to operations is `Operations`'.

**Schema.** A file is its `user_version`, the set of versions whose columns each table has, and the tables that
hold rows. `Found` is every file a start may meet: none, one of each version, one from before versions with
some of the baseline's columns, one from the future. `_run_statement` is one statement inside the step's
transaction, `fault` a kill or a refused write between any two of them. Tables no migration touches are left out. The columns of
`SCHEMA` are derived from the steps that add them (`Full`): that the two lists in `db.py` agree is taken from the source,
and a step that fails because they do not is no behaviour of the model.

**Delivery.** Two messages may use the same references. `best` is a history: the best state reported for a
segment. A report carries a service-centre time, from which its distance to each candidate is taken.

**Composition.** The parts in `Agent_MC`, `Hub_MC` and `Tasks_MC` share no state in their models. The variable `part` is
chosen in the initial state and never changes; only that part moves. Such a run is the disjoint union of its
parts' behaviours, not their product, so it asks of each exactly what a run of its own would ask (`Parted` in the three proof modules proves that each part behaves as by itself). `HubTypeOK` and `FileSound` are conditioned on the
part, since the others are in their initial state. What does
interact is composed: sessions, requests and restore in `Restore`; alerter, gateway and database thread in
`OfflineAlert`; hub, link and agent in `EventStream`, `Operations` and `TaskSync`; module, worker, store and
incident in `Recovery`.

## 3. Runs

A run's property may conjoin several named parts of one theme; the parts are defined, each with its comment,
in the module they are about.

| Run | Checks | Bounds |
|---|---|---|
| `events_safety` | `TypeOK NoLoss ExactlyOnce InOrder AckCovered`, refinement `ImplementsMirror` | 3 events per store, 2 stores, batches of 2, trimming to 1, 2 frames each way, rewinds on |
| `operations` | `TypeOK`; `RanAsMeant` (`AtMostOnce`, `RightSim`); `CommandsTrue` (`OneRunning`, `SucceededRan` and, unless a backup was put back, `CancelledNeverRan`, `SubmissionOrder`); `ConfirmedIsFinal`; `CommandsEnd` (`Closes`, `Converges`) | 1 operation with 2 SIMs and 2 openings of the port, 1 operation with 2 stores and 1 restore, or 2 operations without these (`Apart`); 1 module, agent queue of 1 |
| `ops_cancelled` | violation of `CancelledNeverRan` | 2 operations, 1 restore |
| `tasks` | `TasksTypeOK`; of the scheduler `NoOverlap`, `ManualNotRepeated`, `PlanSound` (`PlanMatches`, `AtOnceByJitter`), `DueRuns`; of the synchronization `AppliedIsTrue AppliedIsFinal Synced` | clock 3, interval 2, jitter 1, an interval, a cron and a broken schedule, 1 retry, 2 syncs, 1 manual run, 1 crash; 2 revisions, 2 edits, 2 connections, 2 frames, 1 failed transaction, 1 lost store |
| `scheduler_at_once` | violation of `NotAtOnce` | clock 4, moments 2 apart, jitter 1, 1 sync |
| `outbox` | `TypeOK`, `PushedOnce` (`LeaseHeld`, `NoNeedlessRepeat`, `OnePushPerChannel`), `StatusIsTrue`, `Settled` | one event out of a message and a notice, 2 rules on 1 channel, 1 retry, claims of 2, 2 permits and 1 per channel, 2 faults, edits and retries by hand |
| `outbox_starved` | violation of `NotStarved` | 2 events, 2 channels, 2 permits and 1 per channel |
| `recovery` | `TypeOK`, `LadderBounded` (`WindowLimit`, `Spaced`, `OneAction`, `RadioComesBack`), `IncidentHasOwner`, `Recovers` (`Concluded`, `IncidentCleared`) | 2 actions in a window of 3, delay, cooldown and threshold 1, clock 4, 1 fault, 2 commands or refreshes |
| `flight_mode` | violation of `FlightModeKept` | as `recovery` |
| `agent` | `AgentTypeOK`; `ATSafe` (`OwnAnswer`, `BoundedLag`, `HandlersGetUrcs`); `InboxSafe` (`Accounted`, `ReportedOnce`, `LostOnlyByRace`); `DiscoverySafe` (`RightModule`, `NamedIfRead`, `SpokenForIfRead`); `AgentLiveness` (`CallsEnd`, `Reports`, `Enforced`, `FoundInTheEnd`, and of the events `Delivered`, `Acknowledged`) | 2 commands, 1 split URC, 1 timeout; 2 parts in 2 slots, 1 fault; 1 policy change, 2 network changes, 1 fault; 3 ports, 2 modules, 1 configured device, 4 plugs, 1 unread identity; 2 events, 1 frame each way |
| `hub` | `HubTypeOK`; `AlertsTrue` (`Alternates`, `OnePage`, `IncidentMatches`); `SessionsTrue` (`LiveIsConnected`, `OneSession`, `PendingHasOwner`, `PromisesKept`, `OpenIsServing`); `FileSound` (`OpenIsCurrent`, `VersionIsTrue`, `RowsKept`, `WayBack`); `ReportsTrue` (`ReportsKept`, `DeliveredIsTrue`); `NoStepBack` (`NoStaleWrite`, `DeliveredIsFinal`); `HubLiveness` (`Paged`, `Recovered`, `MaintenanceEnds`, `Opens`) | 7 reports, 1 restart; 1 agent, 2 sockets, 1 request, 1 event, 1 restore, 1 kill; every version, 1 fault; 2 messages of 2 segments, 4 reports |
| `restore_connected` | violation of `ConnectedIsLive` | 1 agent, 2 sockets, 1 request, 1 restore |

Why the bounds are enough. Three events and batches of two make the sender query twice, be interrupted
inside a batch and acknowledge cumulatively; a second store reuses the numbers of the first. Two operations
are needed for order and for a queue at its limit; replay, rollback and an exchanged card concern one operation at a
time, so `Apart` keeps the three cases apart: two openings read the card before and after it is exchanged, or fail to.
Their product is left to the proofs, which have no such bound.
An interval of 2 with a jitter of 1 and moments of the calendar 2 apart are the smallest in which a run comes before
its moment; a plan that is due at once makes another at the same time, and `MaxEarly` bounds how often. Two commands of
the operator are a refresh that acts beside the loop and a command that falls between.
Seven reports hold a drop, a page, a recovery and a second drop with settings changed in between. Two edits
change the list and change it back, which is the case the sync id exists for. Two rules on one channel
must yield one push, and the two faults lapse its lease and have it claimed again. Two sockets are the conflict the
registry resolves. Every opening that a fault interrupts is opened again, so one fault leaves every partial
file behind. Two messages of two segments are needed for a reused reference and an incomplete aggregate. Two
parts in two slots join, expire alone, and are read by both readers. Each property has a mutant in
`PROJECT.json`, a plausible slip in the code, that the same bounds refute.

Deadlock checking is off where the environment (reports, the clock, connections, faults) is bounded and runs
out: everywhere but events and operations, where reconnecting is always possible.

**Fairness.** asyncio runs every ready task and the database thread takes every job, so steps of coroutines
are weakly fair. `Calm` in `EventStream` and `Operations` says that links and processes eventually stop
failing; in `TaskSync`, that one connection stays up; without that no delivery can be promised. `TaskSync`
adds strong fairness on a successful write: one that is tried every few seconds does not time out for ever.
In `Discovery` a configured worker's scan is strongly fair: it competes for the registry's lock, which asyncio
hands out in the order of asking, while its candidates come and go. Clocks that a promise waits for (a lease's
end, a retry's time, the deadline of a partial message, the next sample) are weakly fair. Two things get no
fairness on purpose: the sender's five-second timeout (so `Delivered` shows that no wake-up is missed), and
every failure.

## 4. What the checks found

Five runs end in a counterexample to something the repository says of itself:

* `ops_cancelled` (`docs/optimization-backend.md:199`): a restore marks the backup's queued operations
  cancelled, including those executed after the backup was made.
* `outbox_starved` (`notify.py:87-88`): a delivery takes one of the eight global permits and then waits for its
  channel's permit, so eight deliveries of one hanging channel leave none for the others until it times out.
* `flight_mode` (`modem.py:1031`): the radio is checked before `AT+CFUN=0` and not before `AT+CFUN=1`; a radio
  the operator switches off in the second between them is switched on.
* `scheduler_at_once` (`schedule.py:182-184`, `tests/test_schedule.py:150`): `_reschedule` counts a cron expression from the
  end of the run. A run that the jitter moved ahead of its moment finds the same moment again, at most the jitter away;
  if the next jitter reaches back that far, the floor puts the plan at the end of the run, and `tick_once` starts what is due
  *at* now. A daily cron with the default jitter of 1800 s is enough. `AtOnceByJitter`, which
  holds, says that nothing but a jitter does this.
* `restore_connected` (`gateway.py:543-545`): the sessions of a retired gateway leave their rows for the restore
  to clean; when the drain times out (`restore.py:212`) or the first database step fails, no step does, and the agents stay "connected" without a session, without
  an offline alert, until they reconnect or the hub restarts.

Found on the way and kept as observations, most of them named in the property they weaken:

* `link.py:234` ("the sender picks it up"): a `resend_from` handled while a batch is being written is overwritten
  by the next `_sent_through = event.seq`. Nothing is lost: the next connection starts from the first
  unacknowledged event. No peer sends `resend_from` today.
* `alerts.py:23-25` ("never a duplicate page"): a restart arms no timer, but the `hello` after it does, for a
  module that is still down (`OnePage` allows one page per restart).
* `store.py:350`: a schedule changed while a run is in progress is dropped, then overwritten with a plan made
  from the old expression (`PlanMatches`). An interval with a jitter as long is due at once like a cron expression. A
  schedule that does not parse is reported again on every tick.
* `app.py:333`: a command runs with another SIM than it was made for when the card was exchanged while the port stayed
  open, for `worker.state.iccid` is the reading of the last opening (`worker.py:373`), when that reading is blank, or when
  the hub had none; the hub then accepts the result (`RightSim` names the three cases). The IMEI is compared likewise.
* `client.py` ("Fail fast rather than wait for timeouts"): the loss of the port fails the future of the call,
  but a call that waits for its prompt waits for the prompt's timeout. A call that ends while a split URC's
  payload is still to come leaves the payload to the next command.
* `modem.py:1222`: a delete that fails in `drain_inbox` drops the messages collected before it, which are
  deleted already. The drain and the index loop may both read a slot: the message is reported twice. A slot
  refilled between its listing and its deletion is lost. A second part with the key and number of one that waits
  replaces it in the reassembler, unreported (`concat.py`, `push`). A failed read strands a message until the next drain.
* `discovery.py` (`survey`: reported "only when every ``reserved`` block would reject it"): a module whose ICCID was
  not read is adopted although a device configured by ICCID waits for it (`SpokenForIfRead`); and a module known
  by its ICCID alone is adopted again on every survey, since `_adopt` keeps the IMEI only (`app.py:192`). Such a worker asks for
  nothing: with several configured devices it never gets a port, with exactly one it claims the first port that answers,
  which may be the configured device's (`RightModule` speaks of workers that ask for something, `NamedIfRead` of when all
  do). `_autodetect_once` looks for nameless devices in the configuration only. The worker does not compare identities
  after it opened the port.
* Recovery: a kill or a lost port between the two halves of a radio cycle leaves the radio off, and recovery
  takes that for the operator's choice, as does a sample in between. `recovery_cooldown` may be shorter than an action
  (`worker.py:175` only excludes negative values; the default of 300 s is longer): a refresh then starts the next action beside
  the one of the loop, and a module reset that falls into a radio cycle leaves the radio off without any fault
  (`RadioComesBack` excludes `overlap`). A refresh at the health threshold starts
  a `serial_reconnect` that nobody performs, one whose port has died a `module_reset` (`Concluded` exempts both); a clock set back empties the window; a manual operator selection
  suspends recovery only once it has settled.
* `worker.py:1275`: a refresh may sweep the inbox beside the sweep of the loop. `Inbox` has one sweep and the index loop, which
  already read the same slots; a second sweep adds another reader of the kind `reread` records.
* Data policy: a reading that is stale after its await can let a ping through with the policy off, until the
  next sample.
* Outbox: a crash between the deliveries of an intent and the intent's own row, followed by a change of the
  rules, sends a second push (`OnePushPerChannel` is per rule set).
* Restore: a failure in the snapshot phase reports "在线数据库未修改" although queued operations were
  cancelled and agents marked disconnected. A kill between `replace_prepared` and `reset_restored_runtime`
  starts the hub on the restored database with its old sessions, leases and token.
* Delivery reports: an early report that finds only an older message with its reference is credited to that
  one; of two equally distant messages the newer gets it.

Weaker guarantees worth knowing, stated in the properties: a hub put back to an older database does not get
results again that were acknowledged before (`Converges`); a restart forgets timers and pages (`Alternates`,
`Paged`, `Recovered`); the plan of a run overtaken by an edit is stale once (`PlanMatches`); after a timeout the
answers are shifted by as many commands as timed out, no more (`BoundedLag`).

## 5. Proofs

Proved for every value of the constants, the bounds included:

| Module | Theorem | States |
|---|---|---|
| `EventStream_proofs` | `TypeCorrect` | `Spec => []TypeOK` |
| | `NothingLost`, `AppliedOnce`, `AppliedInOrder`, `AcksAreCovered` | the four safety invariants of `events_safety` |
| | `Refinement` | `Spec => ImplementsMirror`: the event path implements `EventMirror` |
| `Operations_proofs` | `TypeCorrect` | `Spec => []TypeOK` |
| | `CommandsRunAsMeant` | `Spec => []RanAsMeant`: at most one hardware call per operation, with its SIM as far as the readings show |
| | `CommandsAreTrue` | `Spec => []CommandsTrue`: what the hub shows is true, in the order of submission |
| | `ConfirmedOutcomesAreFinal` | `Spec => ConfirmedIsFinal`, an action property |
| `Scheduler_proofs` | `TypeCorrect` | `Spec => []TypeOK` |
| | `RunsDoNotOverlap`, `ManualRunsOnce` | `Spec => []NoOverlap`, `Spec => []ManualNotRepeated` |
| | `PlansAreSound` | `Spec => []PlanSound`, for every interval and jitter |
| `Tasks_proofs` | `SyncTypeCorrect`, `AppliedRevisionIsHeld` | `TaskSync`'s `Spec => []TypeOK`, `Spec => []AppliedIsTrue` |
| | `ConfirmationIsFinal` | `TaskSync`'s `Spec => AppliedIsFinal`, an action property |
| | `TasksTypesKept`, `TasksAreSafe` | `TasksSpec => []TasksTypeOK`, and the four safety invariants of `TasksSpec` |
| `NotifyOutbox_proofs` | `TypeCorrect` | `Spec => []TypeOK` |
| | `OutboxPushesOnce` | `Spec => []PushedOnce`: one owner per lease, no needless repeat, one push per channel |
| | `OutboxStatusIsTrue` | `Spec => []StatusIsTrue` |
| `Recovery_proofs` | `TypeCorrect`, `IncidentIsOwned` | `Spec => []TypeOK`, `Spec => []IncidentHasOwner` |
| | `LadderIsBounded` | `Spec => []LadderBounded`: the limit per window, the distance of the actions, the radio comes back |
| `Agent_proofs` | `TypeCorrect` | `Inbox`'s `Spec => []TypeOK` |
| | `InboxIsSafe` | `Spec => []InboxSafe`: nothing gets out of sight, one report per reading, losses only by the races named |
| | `FindTypeCorrect`, `DiscoveryIsSafe` | `Discovery`'s `Spec => []TypeOK`, `Spec => []DiscoverySafe`: workers talk to their modules, one worker for an adopted module |
| | `ATTypeCorrect`, `ATIsSafe` | `ATClient`'s `Spec => []TypeOK`, `Spec => []ATSafe`: own answers, a bounded lag, URCs to their handlers |
| | `DataTypeCorrect` | `DataPolicy`'s `Spec => []TypeOK` |
| | `AgentTypesKept`, `AgentIsSafe` | `AgentSpec => []AgentTypeOK`, and the three safety properties of `AgentSpec` |
| `Hub_proofs` | `RegistryTypeCorrect` | `Restore`'s `Spec => []TypeOK` |
| | `SessionsAreTrue` | `Spec => []SessionsTrue`: registry and restore keep what they promise |
| | `RetiredSessionsAreSilent` | `Spec => NoStaleWrite`, an action property |
| | `DeliveryTypeCorrect`, `ReportsAreTrue` | `Delivery`'s `Spec => []TypeOK`, `Spec => []ReportsTrue` |
| | `DeliveredStays` | `Delivery`'s `Spec => DeliveredIsFinal`, an action property |
| | `AlertTypeCorrect`, `AlertsAreTrue` | `OfflineAlert`'s `Spec => []TypeOK`, `Spec => []AlertsTrue`: pages and all-clears alternate, one page per outage, the incident agrees |
| | `FileTypeCorrect`, `FileIsSound` | `Schema`'s `Spec => []TypeOK`, and always `OpenIsCurrent`, `VersionIsTrue`, `RowsKept`, `WayBack` |
| | `HubTypesKept`, `HubFileIsSound`, `HubIsSafe` | `HubSpec => []HubTypeOK`, `HubSpec => []FileSound`, and the three other safety properties of `HubSpec` |
| | `HubNeverStepsBack` | `HubSpec => NoStepBack`, an action property |

Assumed of the constants, as the named ASSUMEs of the modules: bounds and sizes are naturals and, where it
matters, not zero; the operations are finitely many and each has a module of this agent (`OperationsAssumption`);
there is an empty list among the revisions (`TaskSyncAssumption`); the null plan is not a plan
(`SchedulerAssumption`); rules are numbered from 1 and belong to a channel (`OutboxAssumption`); "no socket" is not a
socket (`RegistryAssumption`); slots are numbered from 1 and an empty slot is not a message (`InboxAssumption`); commands that prompt or share a prefix
with a URC are commands, and names for "no command" and "no URC" are free (`ATAssumption`); ports are numbered from 1, no
module is 0, and a configured device names the IMEI or the card of a module (`DiscoveryAssumption`); a start is interrupted
finitely often (`FileAssumption`).
`RecoveryAssumption` has a window and a threshold of one at least, and any cooldown. `Configured` may have one device or
several. Nothing else is assumed.

### The event stream

*Types.* `TypeOK` is inductive as it stands; lemmas about `Least` (a member of a non-empty set of numbers, and
the smallest) and `Oldest` (a subset that skips nothing) carry the sender's steps.

*Safety.* `NoLoss` is not inductive: whether an ack may delete a row depends on what was on the wire when the
hub read the event it names. `IInv` adds what is needed. `Ends` says what dies with which side of a
connection and `Issued` that every number anywhere was handed out by the store. The other parts all say that
whatever precedes a point and can still reach the hub is safe: before something committed it is committed
(`IngestPrefix`); before a frame it is committed or travels ahead (`UpGap`); before the sender's marker or the
rest of its batch it is committed, on the wire or in the batch (`SenderGap`); before an ack about to be sent or
any frame on its way down it is committed (`AckGap`, `DownGap`). `AckGap` follows from `UpGap` when the hub takes a
frame, `DownGap` from `AckGap` when it sends the ack, and `NoLoss` from `DownGap` when the agent deletes. There is one
lemma per action (`EmitStep`, `QueryStep`, `ApplyStep`, ...); the two that write a frame to the hub share
`WriteStep`, the two that write one to the agent `DownStep`. `Inductive` puts them together, `Invariance` is
`Spec => []IInv`, and the four theorems follow from it.

*Refinement.* The mirror's debts are the issued numbers that are neither status samples nor committed. An
event committed by the agent is a new debt (`MapsCommit`); `apply_event` pays the oldest one, which is `UpGap`
once more, or pays for a replaced store (`MapsDeliver`); a new store cancels
them; everything else is a stutter.

### Commands

`AtMostOnce` holds because the journal refuses a second start, but a replaced store has an empty journal and a
hub put back to an older copy may send again what it has sent before. `IInv` says why that is harmless. `Bound`: a
live connection belongs to the agent's present store, and an operation bound to the connection was made for
that store. `FramesBear`: so every frame on the wire or in a queue was made for the present store. `Journalled`:
what ran under the present store is in its journal. A frame the agent may start is therefore of this store, its
journal has no row for it, so it never ran: `StartedStep`, the one lemma that extends the log. The rest keeps
the three parts true. `RebuildStep` makes a stream no operation was made for; `RegisterStep` needs a connection id
that no row carries, which exists by counting (`FreshId`: one id more than there are operations);
`FromBackupStep` may bring an old `connection_id` back but drops the connection. Steps of the hub's table alone
share `TableStep`, steps of the agent alone `AgentStep`. `RightSim` is an invariant because `expected` is never
rewritten once an operation exists and the log keeps the reading the start was decided on.

*What the hub shows.* Two more invariants rest on `IInv`. `Truth` holds always: an event repeats what the journal says
of its operation (`Recalled`), the journal says "succeeded" only of what the hardware carried out (`Completed`) and
"cancelled" or "failed" only of what it never saw (`Untouched`), and a backup is true as far as it goes (`SavedTrue`).
`SucceededRan` is part of it; `ConfirmedIsFinal` follows since every statement of the hub names the statuses it closes.
`Plain` holds until a backup is put back, and the run `ops_cancelled` shows why not longer. It says that the
operations of a module stand in one line: those that ran, the frames in the agent's queue, the frames on the wire, the
one being sent, and those queued at the hub; each was created before the ones behind it (`RanFirst`, `QueueThenDown`,
`SendingNext`, `QueuedLast`). `Fresh` adds that a queued operation is nowhere in the line yet and that a frame of a
cancelled one will be refused. A step either lets somebody leave the line (`LineKept`) or moves the next one on.

*Types.* `TypeOK` bounds connection ids, streams and SIMs as the model does. `Ranges` adds this to `IInv`'s types, for the
live table and for a backup.

### The scheduler

*Types.* Plans in the table and in a running coroutine were counted from a time of the clock: `Ranges`.

*Safety.* `NoOverlap` is not inductive, since a second coroutine could start if `_running` did not hold the key while one
exists: `OneKey`. `ManualNotRepeated` needs that plan numbers only grow and that a manual run's number is behind
every plan in the table and every timer run on its way: `PlansAhead`. `NoRowNoPlan` is there for a row that is
deleted and comes back. `PlanSound` follows from `PlanMatches` and the arithmetic of `next_run`: a moment of a schedule is later than what it is
counted from (`NominalLater`), by the whole interval if it is one, so only the jitter can bring the plan back.

### Task lists

A row shown as applied could be a lie in three ways, and `SyncIInv` excludes each. The receipt could be for
another list under the same sync id: `Meant`. A push for an older list could still be under way: `Current`, for
the open connection, and `InTurn`, frames arrive in the order their ids were drawn. Or the agent could apply an
older frame after the answer: `Confirmed`, once the row's id has been answered no older frame is left.
`ConfirmationIsFinal` needs the types only: no step changes an applied row but one that draws a new id.

### The outbox

An outcome could be written twice, or a push repeated, if a delivery had two coroutines at work. `AtWork` excludes it: the
row of a coroutine is pending, under the lease of this process and with the count of attempts the coroutine took, or
it was deleted together with its rule or channel, which nothing takes back (`Dead`). `Known` follows a push the provider
received and nobody doubts: its coroutine has not written it yet, or the row says "ok", or the row was deleted and no
coroutine is left. So a second push needs a doubtful first one (`NoNeedlessRepeat`) and "ok" is never a lie
(`StatusIsTrue`). `RowSound` bounds the attempts; `Unedited` says that before the first edit every row is one its intent
owes, from which `OnePushPerChannel` follows by the choice of the smallest rule (`MinOfNats`).

### Recovery

The memory and the store must never disagree on the attempts of the window, or a restart would act once too often.
Steps of the worker either keep the record (`MemKept`: no attempt of the window is forgotten) or enter an action before
it is taken (`Started`: the window had room and the cooldown was over). `Times` ties the record to the history: the actions
keep their distance, and those of the window are recorded, so the count of the record is the count of the
history (`WindowLimit`). `Control` places each of the two samplers: one that acts began at the time of an action of the
history, so two that act together are as far apart as two actions are (`OneAction` from `Spaced`), whatever the cooldown is.
`Alone` is the meaning of `overlap`, and `PortsUp` that without faults nobody keeps a port that was given up; together they
leave a radio cycle its port until it has sent `AT+CFUN=1` (`RadioComesBack`).

### The inbox

Two coroutines read and empty the same slots, and neither holds a lock between its commands. `ReportedOnce` needs `Once`: a
part that was read once is in the hand of the index loop, in its whole message, in the sweep's list, among what the sweep
collected or in the reassembler, in one of these only, and is not reported yet. It then follows from what `push` and
`flush_expired` do with a part (`PushFacts`, `FlushFacts`: a part pushed is in the whole message, waits or was replaced, and
never two of these). `LostOnlyByRace` needs `Undisturbed`: while nothing failed and nothing was read twice, each coroutine finds
in the slot it is about to empty the very part it has read there, because the other one would have had to read it too, which
`reread` records. `Accounted` then only has to follow a part from one place to the next. `Assembled` (a partial message is
finite and not complete) makes the comparison of `push` with the total meaningful for every total. `IInv` was checked by TLC
with parts that share a number and with one that does not decode.

### Registry and restore

Between the check a coroutine makes and the write it was made for, everybody else may have moved. `WriterOK` says who
waits for which entry of the writer's queue, that nobody waits for two, and that the step of a restore is its last
entry. `SessionOK`: a session the gateway has not retired holds its agent's id from its hello to the end of its clean-up,
is in the database once it is registered, and has applied what it is about to acknowledge. `CallOK`: a call waits only
for such a session. `Promised` keeps what was acknowledged or answered in the database, and in the snapshot as long as
a rollback may need it; it rests on `Control`, by which a switch past its drain has no request left. `Marked` numbers the
restored databases: a session's entry in the queue is of a later gateway, which is `NoStaleWrite`.

### Delivery reports

`ReportsKept` has to say what a row without a match stands for, since a send takes such rows over as its own. `Awaiting`: as
long as nothing went astray such a row holds the strongest report of the message that is being sent, and a reference without
one has had no report. There is only one such message (`OneByOne`, `OneUnderway`), because a module sends one message at a
time. `MatchOwn` is the heart of the matching: with messages under the same references three ticks apart, the row nearest to
the time of the service centre is the right one. That distance is the hypothesis `Apart` of the theorems, which also
numbers messages and segments from 1; at two ticks the report of one message can be as near to the next. The code does not
enforce it, a module reaches the same reference after 256 segments. `Attached` gives a message all its rows or none, from
which `DeliveredIsTrue` follows; `DeliveredStays` needs only that `_terminal_delivery_state` never leaves "delivered"
(`Stronger`) and holds with stray reports too.

### The offline alerts

A timer that is cancelled while its job is on the database thread leaves the job behind, and a recovery asks for its job
while a page may be under way. `Asked` puts the answers that wait for their coroutine and the jobs of the thread into one
line, in the order in which they resume their coroutines. `OneAwaited`: the timer waits for one job of it at most, and is
where that job says. `NoRecoveryBehind`: behind this job stands no recovery, and after a page none stands anywhere; so what
`record_offline` opens is still open when the page goes out (`PagedIsOpen`), and pages and all-clears alternate
(`PagesAlternate`, with `OneAllClear`: one recovery at most has an all-clear to announce). `TasksInOrder` covers the tasks that were
created and have not run. `RecoveryComes` is `IncidentMatches`: an open incident of a module that is up has its recovery on
the way, in one of the three places.

### Port discovery

The probe, the claim and the opening are separate steps, and the ports change in between. `Agreed` ties the registry's claims
to the workers' ports, `Scanning` keeps the ports a scan has left free, because only the holder of the lock claims. An
identity is a module's own (`OwnIdentity`), so a match names the module of the device and the claim is right until the port
is replugged (`RightClaim`); a worker without an identity is excepted. `ReadInFull` follows a survey: with full answers what it has found has an IMEI, differs from
whatever a worker is for, and is found once, which is what adoption needs.

### The AT client

The answer to a command that timed out may arrive during the next one, and nothing in the protocol tells them apart.
`InTurn`: the module works on the last commands written, in order, and the final lines on the wire are of earlier ones, in
order. `Fresh` counts: the oldest command whose final line may still come is at most as many commands back as timed out,
from which `BoundedLag` follows when the line is read (`Given`). The one exception is `Stuck`, a module that waits for a body that
nobody will write any more: it answers nothing. Without a timeout more is true (`Clean`): the response lines on the wire are the
pending call's, up to its final line, and the module works on nothing else; that is `OwnAnswer`. `Whole` says that a
URC with a payload is followed by it.

### The database file

`InStep` says what an open transaction holds: the statements of the step up to some point have run (`Ran`), each added
its column, and a table that was copied is dropped by the very next statement. That every migration is made so is
`WellMade`, shown for each of the nineteen steps (`MigrationsMade`); `ColumnFacts` relates the columns of `SCHEMA` to the
steps that add them. With all statements run the file has the columns of its new version, which is `VersionIsTrue` after the
commit, and `OpenIsCurrent` at the last one. `Revocable`: a file that held rows is copied before anything of it is changed, and
the copy of the version it was found with is made again only while those tables are as they were. A fault rolls the transaction back, and none of this speaks of
how many there were.

### The parts together

A behaviour of `HubSpec` is one of each of its parts, and the same holds for `AgentSpec` and `TasksSpec` (`Parted`): a step of the
composition is a step of one part and leaves the variables of the others. What is proved of the parts is therefore proved
of the specifications the runs `hub`, `agent` and `tasks` check.

### Left to TLC

Liveness (`CommandsEnd`, `DueRuns`, `Synced`, `Settled`, `Recovers`, `AgentLiveness`, `HubLiveness`), because the prover does
not reason about fairness and ENABLED. That is all: each invariant and each action property that a passing run checks, and the
refinement of `EventMirror`, is stated by a theorem. The counterexamples of the five violation runs are TLC's.

## 6. Not modelled

* The frontend, metrics, command line and configuration keep no protocol state the parts above depend on.
* The HTTP API is validation and row CRUD; the requests that change the outbox, submit operations or run during a
  restore are actions of those modules. Authentication is a password hash and a session table.
* PDU and GSM 7-bit coding is byte-level and has test vectors.
* Voice calls (`call_keepalive`, ring reports), USSD and raw AT are single coroutines over the AT client.
* SIM balance, SIM deadline and voltage incidents are recomputed from rows on each write.
* The providers' wire formats, and pushes that bypass the outbox (`notify_text`, test pushes).
* The admission limit of the database worker.

## 7. Plan

1. `EventStream` with its abstract specification, safety, liveness and proofs. *(done; see section 5)*
2. `Operations`, `OfflineAlert`, `Scheduler`, `TaskSync`. *(done)*
3. `NotifyOutbox`, `Inbox`, `Delivery`, `ATClient`, `Recovery`, `DataPolicy`, `Discovery`, `Registry`, `Restore`,
   `Schema`. *(done)*
4. Proofs: `Operations`, `Scheduler`, `TaskSync`, `NotifyOutbox`, `Recovery`, `Registry` with `Restore`, `Inbox`, `Delivery`,
   `OfflineAlert`, `Discovery`, `ATClient`, `Schema`, types of `DataPolicy`, and the compositions. *(done)*
5. An abstract specification of the outbox (every delivery ends as sent or given up) and its refinement.
