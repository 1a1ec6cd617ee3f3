# A TLA+ model of the spec-to-evidence control loop

This directory holds a TLA+ specification of the parts of the repository that
decide, over time and under failure, what an autonomous development loop may do:
the bridge from the Plane board to the agents, the audit trail, the board's state
machine, the event bus, the durable workflow engine, the evidence store, the
coverage model with the gates a pull request passes, and the traceability of main.
Every action is translated from the Python source; `PROJECT.json` gives the lines
of each definition.

## 1. Inventory

### 1.1 The system

```
 Plane board --webhook--> webhook_handler --append--> .agent_queue.jsonl
     ^                                                      |
     |                                              +-------+--------+
     |                                              v                v
     +---- the_loop / plane_client <--- agent <-- dispatcher    agent_consumer
                 |                                  |
                 v                                  v
        loop_gate + run_state.json      .dispatch_audit.jsonl, coverage_baseline.json
                 |
                 v
          evidence_gate, store          wiring_ingest, provers
                                               |
                                               v
          pull request <------------- feature_list.json
                 |
                 v
   orphan_detector, ci_evidence_check, baseline_gate, coverage_gate --> main
```

| component | state | operations | hard behaviour |
|---|---|---|---|
| `webhook_handler.py` | `_seen` and `_dispatched` in memory and on disk, the queue file | `do_POST`, `_route`, `enqueue`, reload at start | a thread per request; acknowledges before it routes; redeliveries; a capped table; crash between two files |
| `dispatcher.py`, `baseline_writer.py` | cursor (`seen`, `attempts`), audit file, baseline file | `drain`, `audit`, `watch` | at-least-once with dedup; a cursor saved only at the end of a drain; truncating writes; poison jobs |
| `audit_log.py`, `audit_verify.py` | entries in memory, their JSONL mirror | `append`, `verify_chain` | a chain per process, one file for all processes |
| `event_bus.py` | log, queue, handlers, step ledger, delivery ledger | `emit`, `on`, `unsubscribe`, `run_step`, `deliver`, `snapshot`, `restore` | handlers and step functions run outside the lock; exceptions; crash and restore |
| `plane_client.py`, `the_loop.py` | the board (remote), comments | `transition`, `advance`, `prove`, `gated_prove`, `handoff`, `block`, `fail` | check and move are different HTTP requests; retries of requests that may have been applied |
| `loop_gate.py`, `run_state_driver.py` | `run_state.json` | `gated_advance`, `tick` | unlocked read-modify-write, escalation after a bounded streak |
| `durable_orchestrator.py` | history, cursor, activity results | `execute`, `run_activity`, `checkpoint`, `resume` | retries, deterministic replay, crash between effect and record |
| `agent_consumer.py` | committed offset | `drain`, `watch` | at-least-once over a growing file with a partial last line; state re-read from the board |
| `store.py`, `db/migrations` | requirement, coverage, evidence and run-state rows | `upsert_requirement`, `upsert_coverage_item`, `store_evidence`, `save_run_state`, reads | several commits per call; status checked before it is written; a call that fails half-way |
| `coverage.py`, `evidence_collector.py`, `evidence_gate.py`, `coverage_gate.py`, `baseline_gate.py`, `ci_evidence_check.py`, `opa_input.py` | none | decisions over one document | five readings of one model that must agree on what is in scope and what is proof |
| `wiring_checker.py`, `wiring_dedup.py`, `wiring_ingest.py`, `feature_list_init.py`, `prove_trivial_slice.py` | `feature_list.json` | analyse, mint, dedup, ingest, mark failed, prove | unlocked read-modify-write by several processes; code that changes between two analyses |
| `orphan_detector.py`, `req_id_scan.py`, the traceability workflow | main and the open pull requests (git) | check of a diff against its base | a diff-only check of branches that are not up to date; git failures |
| `kill_switch.py`, `state_integrity.py` | flag file, checksum | flag lookup, verify and seal | decided within one call |
| `plane_mcp_server.py`, batch tools, checkers, telemetry, drivers | none of their own | see `PROJECT.json` | mostly straight-line code |

Interactions: the receiver and the two consumers share the queue file (append,
read from the start, read from an offset). The dispatcher calls the audit log and
starts an agent, which calls `the_loop` commands against the board; these raise
new webhook events. `gated_prove` calls the evidence gate and counts its rejects
in `run_state.json`, which the Stop hook reads. Agents and the wiring analysis
rewrite `feature_list.json`; a pull request carries it, with the code, past the
traceability gate, the CI evidence check, the baseline gate and the merge gate.
The store mirrors the same requirements, coverage and evidence in a database.

### 1.2 What makes each part correct

* Receiver: one job per delivery; nothing acknowledged is lost; nothing is
  suppressed that was not queued.
* Consumer, and the bridge as a whole: one agent per delivery, a job is passed over
  only if the board has moved on, and every complete line is settled in the end, unless
  a job for an item that the board has lost stands in front of it.
* Dispatcher: bounded duplicates and retries; cursor and baseline never ahead of
  the audit file, of which a torn line may swallow one decision; each job settles; the
  audit file verifies.
* Event bus: one outcome per step id; at-least-once, effectively-once;
  append-only log; a persisted step never runs again.
* Board: no illegal edge, no orphaned comment, evidence behind a proven Done,
  bounded self-healing.
* Orchestrator: a crash and a restart do not change a decision that was
  checkpointed, nor run its side effect again; an activity is attempted at most as
  often as its policy says, once more over for each crash that loses its outcome; a
  workflow completes once and always comes to an end.
* Store: no write meets a missing parent; what is reported proven has its row of
  proof; only an unproven item is proven; storing evidence does not change what a
  requirement is.
* Coverage model: no obligation is lost or duplicated by a later analysis, a proven
  one stays proven; what merges is in scope and proven by captured output; the
  gates do not contradict each other.
* Traceability: a check of changed files only keeps the whole of main traced, in
  both directions, though pull requests overlap.

`PROJECT.json` lists every hazard with its line and the properties that watch it.

## 2. Modules

| module | models | composes |
|---|---|---|
| `WebhookReceiver` | `webhook_handler.py`, with Plane as environment | |
| `AuditLog` | `audit_log.py`, `audit_verify.py` as operators | |
| `Dispatcher` | `dispatcher.py`, `baseline_writer.py` | `AuditLog` |
| `EventBus` | `event_bus.py` | |
| `PlaneBoard` | `plane_client.py`, `the_loop.py`, `loop_gate.py`, `run_state_driver.py` | |
| `DurableWorkflow` | `durable_orchestrator.py` with its host, store and workflow body | |
| `WorkflowRun` | what a durable workflow promises, abstractly | implemented by `DurableWorkflow` |
| `EvidenceStore` | `store.py`, several processes on one database | |
| `AgentConsumer` | `agent_consumer.py` | |
| `Pipeline` | the way from a board move to an agent | `WebhookReceiver`, `AgentConsumer` |
| `MergeGates` | the decisions of seven gate files, as operators | |
| `WiringAnalysis` | `wiring_checker.py`, `wiring_dedup.py`, as operators | |
| `CoverageLedger` | `feature_list.json` under its writers, then a pull request at the gates | `MergeGates`, `WiringAnalysis` |
| `Traceability` | `orphan_detector.py` as a gate over main and pull requests | |
| `DispatcherProofs`, `EventBusProofs`, `PlaneBoardProofs`, `DurableWorkflowProofs`, `EvidenceStoreProofs`, `TraceabilityProofs`, `CoverageLedgerProofs` | theorems | each extends its module |
| `PipelineProofs` | theorems about the receiver and the pipeline | `Pipeline` |
| `MC*` | constants for TLC | |

Conventions: variables carry the names of the fields or files they stand for; a
comment marks history variables, which no guard of an action reads. `\* bound:`
marks the constants that only keep the state space finite. An operator whose
comment says *Mutant of X* is a deliberately wrong variant of `X` that a property
must catch; the specifications do not use it.

### 2.1 WebhookReceiver

A handler thread goes through `post` (the first locked section), `parse` (parse and
acknowledge), `route` (the second locked section), `enqueue`, and `error` (the
`route_error` line of the `except` clause). The cuts are where the lock is taken
or released and where another thread, a consumer or a restarted process can see
a difference. `_seen` is a sequence of delivery numbers in insertion order and
`_save_seen` trims it; both tables exist in memory and on disk, because a save may
fail after the memory was changed. Plane produces events (a created item, a state
change, an edit, an update without activity, a comment, another event, a body that
is not JSON) and delivers any of them again at any time. `CrashRestart` reloads the
tables; a write in progress may leave a line without its newline, which the next
append completes into one unreadable line.

### 2.2 Dispatcher and AuditLog

`drain()` is cut at `invoker(job)`, each `audit()`, `save_state` and the baseline write.
The state file, the audit file and the baseline are variables; `seen`, `attempts`
and `dispatched_ids` are `drain()`'s locals and vanish when it returns, raises or
dies. `invoker(job)` either returns or raises, with the agent started in both
cases. `write_text` truncates before it writes, so a fault or a death there
leaves a file that reads as empty. `audit()` appends to the log in memory, then to
the mirror; a failed mirror is made up for with a plain line; if that fails too it
raises, which for an unknown role and in the `except` clause leaves `drain()`. A write
that fails, or a death in `audit()` (`Auditing`), may leave a part of a row without its
newline (`Torn`). The next line is then glued to it, be it a later row or the fallback
line for the same one, and neither can be read (`Mirrored`); `lost` has the decisions that
went this way. The baseline is written after the cursor: a fault or a death
between the two leaves settled jobs whose issues the baseline never names, and the
next drain's ids replace the file anyway, so the code keeps no property that would
rule this out. An
entry's hash is the pair (process, seq): entries never collide because each row
carries its creation time. `verify_chain` compares each link with the line before it
in `seq` order, equal ones in file order (`Before`), as `audit_verify` does after a
stable sort; it rejects a plain line, which has no `seq`.

### 2.3 EventBus

A thread is `idle`, in a step function (`fn`), or in `deliver` at `pop`, `dispatch`,
`handler` or `mark`. Step functions and handlers end by returning or raising. A
snapshot may be taken at any time; a crash restores the last one with no handlers.
`excused` collects, per handler, what the code gives up: handlers not registered
when the event was popped, the remainder after a raising handler, and deliveries in
progress when the snapshot that is restored was taken. `KeyOf` is the dedup key, a
parameter, because two handlers may share a qualified name.

### 2.4 PlaneBoard

An agent runs one command at a time through `tick`/`save` (the local gate), `gate`
(`_gate`), `post` (comment or evidence), `read` and `patch` (`transition`). `stale[a]`
records that another agent moved the item since `a` last read it. A failed POST or
PATCH may have been applied, is repeated by `_api`, or raises. The start is any
board, and what the agents hold is a constant: the proofs cover agents that hold
no, one or all role secrets. `states` is what the project's board lists: it may lack one
of the twelve names or have others, and an item may be `Unresolved`, in a state it does not
list. `legal_edge(None, to)` holds for HANDOFF, Blocked and Failed, so `_gate` lets such
an item pass and its comment is posted before `transition()` raises (`MayPatch`).

### 2.5 DurableWorkflow and WorkflowRun

The engine is code without a main program: it is modelled with a host that calls
`execute`, stores what `checkpoint` returns at any moment (also while an activity
runs), dies, and resumes from the stored blob, perhaps with a new version of the
body or after the storage lost the end of the events. The host is `idle`, in the
`body` between two commands, in an activity's `fn`, in the retry loop after an
exception (`caught`), `down`, or `refused` because `resume` raised. The cuts are
the calls out of the engine and the points where a checkpoint can be taken or the
process can die; everything between two of them is one action. A body is a
function from the outcomes of its commands to its next command, its return or its
exception: the engine's contract asks bodies to be deterministic. It is given only
what JSON keeps of a payload (`Bytes`), so a body that tells a tuple from a list is
outside the model. A payload has three faces: the value, the value read back from
JSON (`Loaded`) and its canonical bytes (`Canonical`). SHA-256 is taken to be free of
collisions, so `history_hash` is the canonical history itself. Timers fire when they
are asked for, as in the code. A body that catches `NonDeterminismError` and goes on,
and side-channel effects of a body, are not modelled.

`WorkflowRun` has no process, cursor, cache or attempt: one run of decisions that
only grows, by what the deployed body asks for, until the body returns. The
refinement maps it to the hash of the stored blob, the durable record that a
damaged copy is compared with.

### 2.6 EvidenceStore

Every write of the store opens a transaction that its `commit()` ends, so a call is a
series of one-statement transactions and the model has an action per commit:
`UpsertCoverageItem` (the proven gate and the requirement), `UpsertCoverageRow`,
`EvidenceParent` and `EvidenceRow` (`_store_evidence_row`, shared by both callers),
`StoreEvidence` (the checks only, nothing is written yet) and `FlipToProven`. Between
two of them another process commits. `CutShort` ends a call at any of them and keeps
what it committed. A row of a table is a record or `None`. `raced`, in a call, marks
that another writer committed the coverage row since the call read it; `stated` and
`torn` are history.

### 2.7 AgentConsumer and Pipeline

`AgentConsumer` owns the offset file. `StartDrain` reads text and offset once; each
line is skipped, found stale on a fresh read of the board, dispatched or left
(`Unreachable`, any number of times), and `Commit` moves the offset: after the
dispatch command, in a step of its own (`Settle`), because a crash between the two
starts the command again. A line without its newline is not there yet. `Vanish` takes
an item off the board for good (a 404 or a 403): `_dispatch` takes that exception for
a transient one too, so its job stays at the head of the queue. The queue and the
board are those of `WebhookReceiver`: `Pipeline` puts the two modules together, each
stuttering on the other's variables.

### 2.8 MergeGates, WiringAnalysis and CoverageLedger

`MergeGates` has one operator per decision: the condition under which a gate accepts a
document. An exception is a denial, as the gates fail closed; where a function returns
something else than a verdict it returns `Raises`. An element of the items that is not
an object (`Junk`) is passed over by `deny_merge` and raises in `in_scope_items` and
`build_opa_input`. `python_gate` is the step of coverage-gate.yml, which does not call
`deny_merge` when there is no model. `in_scope` has a third value, `truthy`, for what
is neither `True` nor `False`: the merge gate asks for `is True`, the evidence gate
and Conftest for truth. `WiringAnalysis` has what `wiring_checker` computes from
definitions and names; parsing Python is abstracted to them. What a gate reads of the
items is a set, since no verdict depends on their order; the candidates are lists, in
source order or sorted (`Ordered`), since ids are minted by position.

`CoverageLedger` is the file under its writers. A rewrite is `Begin` (the file is read
and the new items decided) and `Finish`; `ingest` and `mark-failed` replace the file
atomically, `write_text` truncates it first (`Truncate`). Nobody locks, so a rewrite
may replace a file it has not read: `stale` records it. The code under analysis is
changed by `EditCode`. `OpenPR` takes the file as it is, or with one item changed,
repeated, turned into something else, or proven by evidence nobody collected, together
with a baseline and a dispatch ledger of any kind; the properties compare the gates on
it.

### 2.9 Traceability

`main` is a tree of files and requirements. A pull request branches off it with a
changed file, a changed requirement, both, or the model removed, is checked against a
merge with the main of that time (`Check`), may take main in (`Update`), and is merged
(`Merge`) by a three-way merge into the main of a later time without another check.
The gate is the diff-aware `detect_orphans` with its fail-closed paths and three git
failures. `excused` collects what the gate knowingly lets through. `gated_advance` is
the same check as an agent runs it locally, through `depth_feed`.

What counts as a change of an item is `_proj`: its links, evidence records and artifact
mark do not, so a pull request that only takes these away is not in the delta
(`link_removed`). The gate scans `Files \ Excluded`: tests, package markers and
migrations are left out. The local check builds its units from the changed files
themselves (`_build_impl_units`), those included, without the ones that are not UTF-8, and
accepts the branch if it raises.

## 3. Runs

| run | shows | distinct states |
|---|---|---|
| `receiver` | one job per delivery, every acknowledged event accounted for | 333 K |
| `dispatcher` | bounded duplicates and retries, the audit file ahead of the cursor, but for what a torn line swallowed, and verifiable; every job settles | 124 K |
| `event_bus` | one outcome per step, at-least-once, effectively-once; every event is delivered in the end | 230 K |
| `board` | gate order, comments and their moves, evidence behind Done, bounded self-healing | 1.4 M |
| `workflow` | replay gives the recorded outcomes, nothing recorded runs again, retries are bounded; it implements `WorkflowRun` and ends | 271 K |
| `store` | foreign keys, a row of proof for what is proven, proofs of unproven items only | 354 K |
| `ledger` | obligations are kept, what merges is sound, gates agree | 138 K |
| `trace` | main stays traced forward and backward, but for links the gate does not compare; the local check agrees with the gate on the files that both read | 378 K |
| `pipeline` | from a board move to an agent: one per delivery, no current job passed over, the queue drains or is wedged by a lost item | 273 K |
| `workflow_replay`, `store_routing`, `ledger_ids` | a statement of the documentation that the code does not keep | counterexamples |

Bounds, and why they are enough:

* `receiver`: 2 threads (the least that race in a lock), 1 item, 3 states (two
  with the same role, one that is not dispatched on creation), 2 events and 4
  posts, so each event may come twice; `SeenCap = 1`, so the second delivery evicts
  the first; 1 crash and 1 I/O error.
* `dispatcher`: a good job, one with an unknown role and a comment line, up to 2
  lines queued (a line may be there twice), `MAX_ATTEMPTS = 2` (one retry, then
  quarantine), 1 crash and 1 I/O error: every pair of failures of the code's error
  paths with each other. `SeenCap` is above the number of keys, so the run does
  not evict; the theorems cover every `SeenCap`.
* `event_bus`: 2 threads, 2 handlers, 1 event, 1 step id, 2 pieces of work (emits and
  step executions together): the re-emitted event and the step executed twice are
  the cases with a race; 1 crash.
* `board`: 2 agents, one with the verifier and the human secret and one with none,
  1 item starting anywhere, 3 commands (a race of two, on top of an earlier one),
  `BLOCK_STREAK_HANDOFF = 2`, 1 failed request, write or death. The item starts in any
  state or in one that cannot be resolved, on the board of the documentation or on one
  that has no HANDOFF and a state of its own. The theorems cover any set of boards.
* `workflow`: 2 activities and a timer; three bodies, one that branches on an outcome
  and lets a failure propagate, one that falls back to another activity, one that
  asks for the commands in another order, so that an upgrade may agree with the
  history, differ in a name or differ in a type; up to 3 commands, `max_attempts = 2`
  (one retry, then HANDOFF), 2 crashes (the second during the recovery from the
  first), 1 upgrade, 1 damaged blob. A result may be one that JSON changes (a tuple).
  The theorems cover every body, policy and bound.
* `store`: 2 writers on 1 item, since the calls of two items touch no common row
  but the foreign keys; 1 session, 1 complete and 1 incomplete evidence record, two
  routings, 3 evidence rows (two for a race and one to look back at), 1 call cut
  short. The writers are symmetric; no liveness is checked. `store_routing` allows no
  fault: the loss of the routing needs none. The theorems cover any number of items,
  writers, sessions, rows and faults.
* `ledger`: 2 processes, 2 revisions of the code (a helper alone; a decorated handler
  that reaches it, defined above it), a Semgrep finding, ids up to `MaxId = 3` instead
  of 999 so that the roll-back of an id that does not fit is reached, 2 edits (there
  and back), 3 rewrites (a race of two on top of a third), 5 kinds of forged evidence,
  absent, in-checkout and real baselines, a full, a partial and no dispatch ledger.
  `ledger_ids` needs 1 edit and 2 rewrites.
* `trace`: a file under the check, one under `tools/` and one under `tests/`, 2 requirements, 1
  WIRE id and 1 unknown id, 5 kinds of file (one not UTF-8) and 4 of requirement (one
  backed by a link only), 2 pull requests that overlap (the least for a main that
  moved), each git failure at each check. The pull requests are symmetric; no liveness is
  checked. The theorems cover any number of each.
* `pipeline`: the receiver with 2 threads, 2 items (one may be lost with the other's job
  behind it), 2 states, 2 events, 2 posts and 1 crash, the consumer with 1 death;
  outages are not bounded; `SeenCap = 1`.

`workflow` disables the deadlock check because a refused blob stops the host for
good (`ended = "refused"`). `receiver`, `board`, `pipeline`, `store`, `ledger` and
`trace` disable it because nothing more happens when the events, commands, evidence
rows, rewrites or pull requests of the bound are used up, or the one pull request of
`ledger` is open. `dispatcher` and `event_bus` keep it.

Fairness. `Dispatcher!FairSpec` is `WF(Step)`: `watch()` loops for ever, catches what
`drain()` raises, and a supervisor restarts the process; crashes and I/O errors are
bounded, so they end. `EventBus!FairSpec` asks that a thread inside `deliver` goes
on, that step functions and handlers end, and that the host calls `deliver` again
while events are queued, which is what a re-drive means in its docstring. It does
not ask that anybody emits, registers or takes snapshots. `DurableWorkflow!FairSpec`
asks that the process runs, that calls of `fn` end, and that the host resumes a
dead workflow and executes it until one execution has ended; it asks for no
checkpoint, so a workflow may begin again after each crash, and for no outcome of
`fn`, so an activity may fail every time. `Pipeline!PipelineSpec` asks that the
consumer goes on with a drain (`watch()` polls for ever, and a dispatch command ends),
that a request the server has accepted is handled, and, as strong fairness, that an item
the board has not lost is read in the end if it is asked for again and again; not
that Plane redelivers, that outages are few or short, that the board keeps an item,
or that a webhook arrives. Without the strong fairness the board may be down for ever; with
it, and with items that vanish, `QueueDrains` says that what stops the queue is a job
for a vanished item at its head (`Wedged`), and nothing else. The other modules state no
liveness: nothing in the code makes an agent, a writer or a developer try again.

Findings: where the code does not keep what its documentation says, with a run each.

1. `workflow_replay`: a workflow in which an activity handed off cannot be replayed:
   the recorded WORKFLOW_HANDOFF is compared with the command's own event type.
2. `store_routing`: storing evidence upserts the parent requirement with every other
   field at its default (`store.py:716`), so a wiring requirement becomes a functional
   one and loses its priority, EARS pattern and provenance.
3. `ledger_ids`: wiring ids are minted by position and items with a qualname are
   compared by it alone (`wiring_ingest.py:97`), so a function added above an ingested
   one yields a second item with the same id.

Divergences that the properties make room for, without a run of their own:

* The (issue, state) mark is never cleared (`webhook_handler.py:177`), so an item that
  comes back to a state gets no job, where the comment at line 50 says a role acts
  when an issue enters the state.
* A second dispatcher process starts a new chain in the same audit file
  (`dispatcher.py:96`), which `audit_verify.py:370` then rejects; `audit_log.py:215-216`
  says that an existing file is extended. `AuditVerifies` is about one process at a time.
* A raising handler loses its event (`event_bus.py:372`, against 354-356);
  `EventuallyDelivered` and `AtLeastOnce` excuse it.
* A late PATCH takes an item out of a terminal state (`plane_client.py:221`, against
  line 74); `GateOrder` excuses it.
* A comment or Evidence_Record is left behind when the board cannot resolve the item's
  state (`legal_edge(None, ...)` holds for HANDOFF, Blocked and Failed, then
  `plane_client.py:215` raises) or lacks the target (`plane_client.py:202`), where
  `the_loop.py:93-94` says that a rejected actor never orphans one. `NoOrphanedComment`
  excepts both (`Resolves`).
* Every exception of `get_issue` counts as transient (`agent_consumer.py:52-56`), also
  the 404 of a deleted item (`plane_client.py:157`), so one job can stop the queue for
  good, where the docstring (8-10, 48-49) speaks of a transient failure. `QueueDrains`
  excepts it as `Wedged`.
* A row of the audit file that a death or a failed write cut short takes the next one with it
  (`audit_log.py:390-391`, `dispatcher.py:113-116`): the fallback that is to save the decision
  is glued to the fragment. `SettledIsAudited` counts such decisions against the
  failures.
* For a model with an element that is not an object `deny_merge` passes over it
  (`coverage_gate.py:209-211`) and may allow the merge, while `is_complete` and
  `build_opa_input` raise. `GatesAgree` says that this is the only contradiction.
* `advance <id> Done verifier` reaches Done without evidence (`the_loop.py:87`, against
  18-19); `ProvenHasEvidence` speaks of `prove` and `gated_prove`.
* `resume` refuses an untouched checkpoint when a result holds a dict with integer keys
  that sort differently as strings (`durable_orchestrator.py:400`, against 396-397).
* A pull request that takes the last reference to a requirement out of a file leaves
  a backward orphan the diff-only gate does not see, where `evidence_gate.py:412` says
  that an unchanged model brings no new one. `BackwardTraced` excuses it as
  `reference_dropped`.
* A pull request that takes the only link, evidence record or artifact mark off an
  item is not in the delta of the gate (`orphan_detector.py:423-424`) and leaves a backward
  orphan. `BackwardTraced` excuses it as `link_removed`.
* The local check reads changed tests, package markers and migrations, which the gate
  leaves out (`evidence_gate.py:326-340`, `orphan_detector.py:566-600`), so it refuses branches
  that the gate accepts; it does not read a file that is not UTF-8. `LocalAgrees` names
  both kinds of file.
* A failed baseline write of the dispatcher is not made up for by a later drain; a
  replay that asks for fewer commands than were recorded is accepted and completes
  the workflow (`WorkflowRun!Commit` allows it); the retry loop also catches
  `KeyboardInterrupt`.

Properties that hold only with an exception name it: `EnqueuedOnce` and
`OneAgentPerDelivery` except evicted ids, the latter also one more run per death of
the consumer; `AckNotLost` a process that died (the code promises nothing for it);
`EffectivelyOnce` an event two threads delivered at a time; `SettledIsAudited` one
unreadable decision per crash or I/O error; `NoOrphanedComment` an item or a target
that the board cannot resolve; `QueueDrains` a lost item at the head; `GatesAgree` an
element that is not an object; `LocalAgrees` a file only one of the checks reads;
`GateOrder` a PATCH overtaken by another agent's move; `SelfHealBounded` two
overlapping ticks; `AttemptsBounded` one more budget for each crash; `ProvenHasRow` an
upsert cut short between its commits; `ProvenFromUnproven` a writer that was
overtaken; `LedgerKept` a rewrite of a file that had changed; the properties of
`Traceability` the reasons in `excused`.

## 4. Theorems

All are proved for every value of the constants, under the named assumptions on
constants of the module (that the bounds are naturals, that `None` is not a value).

`DispatcherProofs`. The induction needs what the files and the locals of a drain say
about each other:

* `OksInv`: a run that returned is recorded in the saved cursor, or in the cursor of
  the drain in progress, or is waiting to be recorded, or is paid for by a crash or
  an I/O error. It gives `DuplicatesNeedFailure`.
* `RunsInv`: the invocations of an unsettled key are its failure counter plus
  `MAX_ATTEMPTS` for every crash or error so far, in the file and in the drain; a
  settled key has at most one more round. It gives `RetriesBounded`.
* `AuditInv`: the keys of the drain's and of the saved cursor are all `Recorded`, in a row
  of the audit file or in `lost`, and so is an allow for the ids collected for the
  baseline. It rests on what an append does to the lines that are there
  (`MirroredLine`, `TornLine`): no row that could be read is ever damaged. It gives
  `BaselineIsAudited`, which no run checks, and half of `SettledIsAudited`.
* `LostBounded`: no more decisions are lost than there were failures, and one fewer while
  the file ends in a torn line, which has cost its failure before it swallows a decision.
  The second part makes it inductive. It gives the other half.
* `ChainInv`: as long as nothing failed, the file is the log in memory, row by row, each
  at the place its `seq` names. `ChainVerifies` shows that the verifier, which walks the
  lines by `seq`, accepts such a file. It gives `AuditVerifies`.

`EventBusProofs`, for any number of threads, handlers, events and steps:

* `StepInv`: the live step ledger knows every step the persisted snapshot knows. It
  gives `OneOutcome` and `PersistedStepsNotRerun`.
* `MarksInv`: a delivery mark, live or persisted, is for a handler that returned. It is
  needed for `ServeInv`: every logged event is queued, owed by a thread that delivers
  it, served or given up; in the live state, and in the snapshot, which owes nothing.
  They hold when handlers have keys of their own, and give `AtLeastOnce`.
* `OverlapInv`, `CallInv`, `OnceInv`: two threads that deliver one event are known, a
  handler about to be called has not been served, one that returned is marked or its
  thread is about to mark it. They give `EffectivelyOnce`.

`PipelineProofs`, for any number of threads, items, deliveries, crashes and faults:

* `EventInv`, `RouteInv` (inside `TypeInv`): an event carries the state of its issue, and
  only one that has passed `_route` is enqueued. `LineInv`: a line of the queue that
  names a delivery is for an event that was sent, and a job line repeats its fields.
* `JobInv`: a delivery that is being handled, or has its job, is remembered in memory
  and in the file unless it was evicted, and one thread handles it or one job stands
  for it. Neither half is inductive alone: the restart reads the file, the thread reads
  memory. It gives `EnqueuedOnce`.
* `AckInv`: the transition recorded for an issue, in memory or on disk, has a job that is
  queued, on its way, or died with its process; it is what makes the suppression of a
  later event of that transition harmless. It gives `AckNotLost`.
* `PipelineIsReceiver`: each step of the composed system is a step of the receiver or
  leaves it alone, so every theorem about the receiver holds in it.
* `BoardInv`, `DrainInv`, `RunsInv`: the board of an issue is at its last event, or at a
  later one than the job's; the consumer works on the line behind its offset; and a
  line has one run for each death after one, and one more once it is settled or about
  to be. With `JobInv` (one line per delivery) they give `OneAgentPerDelivery`, and
  with `LineInv` `CurrentJobRuns`.

`PlaneBoardProofs`. `GatesInOrder` strengthens `GateOrder` with: an agent that is
about to PATCH and whose item has not moved since sees a board from which its edge is
legal. `ProofsLeaveEvidence` needs that an agent past `post` with target Done in
`prove` or `gated_prove` has its evidence on the item, and that evidence is never
removed. `CommentsFollowed` needs `GateHolds`: as long as nobody else has moved the
item, what `_gate` checked before the comment still holds when `transition()` checks
it again; `Resolved`: no PATCH is sent for an item that `transition()` could not
resolve, so it stays where it is; and `CommentsOwed`: each comment is settled,
excused, owed by an agent at `post`, `read` or `patch`, or one whose move the board
cannot make. `RejectsEscalate` needs `OneTick`: while no two ticks have overlapped,
one agent at most is between load and save, it loaded what the file holds, and the
file counts at least the self-heals since the last accept.

`DurableWorkflowProofs`. The invariant `IInv` joins five parts, for every body that satisfies
`BodyConstants`:

* `Shape` (inside `TypeInv`): a history that is not empty begins with the start event,
  and during an execution the cursor is one ahead of the outcomes the body was given,
  so the n-th outcome and the n+1-st event speak of the same command; a dead process
  remembers nothing.
* `Told`: the outcomes given so far are those of the events behind the cursor.
* `SealInv`: the live history extends the durable one, byte for byte, after any
  number of crashes; a damaged copy is still compared with the hash that was taken.
  With `Told` it gives `DecisionsReplayed` and `RecordedNotRerun`.
* `DoneInv`: a completion is last, in the live history and in the blob, and no
  execution consumes it, so a completed history never is at its live frontier and
  nothing is appended. It gives `CompletedIsLast`, and its part of `RecordedNotRerun`.
* `BudgetInv`: the calls made for a command are paid for by the attempt in progress, by
  its recorded outcome, or by the crash that lost it. It gives `AttemptsBounded`.

`RefinesRun` shows that the module implements `WorkflowRun`, under the mapping in which
the run is `Decisions(Durable)`: the commands of the checkpoint that was taken last, with
their outcomes. It needs `MadeInv`, about the run the live history would become if it were
checkpointed now: the deployed body has made the decisions it was given in this
execution (`MadeGiven`), and, if there are decisions, or a completion, that are not durable
yet, the whole run is of its making (`MadePast`). So a run that an
earlier version began becomes longer only when the deployed version has made all of it.
`RunOf` says where the n-th decision lies in a history, `AgreeAsks` that two runs with the
same beginning lead the body to the same next step; a step is then a stutter, `Upgrade`,
or a checkpoint of a longer history, which is `Commit` (`CheckpointCommits`). The proof
assumes `NoBlob`: the absence of a blob is told from a blob.

`EvidenceStoreProofs`, for any number of items, processes and rows, and a `None` that is
neither a row, a call nor a status:

* `ParentsExist` and `CallsFit` (inside `TypeInv`): a call past its first commit has made
  sure of the parent it will refer to, and a parent is never taken away; a call about to
  write a proof carries a complete record. They give `TypeOK`, foreign keys included.
* `RowInv`: a proven item has its row, or a writer that owes it, or was torn; who
  proves an item has written the row before it flips the status. It gives
  `ProvenHasRow`, with the lemma that an item with rows has a last one (by well-founded
  induction over positions).
* `OriginInv`: what `store_evidence` has checked still holds, unless the call was
  overtaken. It gives `ProvenFromUnproven`.

`TraceabilityProofs`, for any files, requirements and overlapping pull requests, under
`FirstTreeTraced` (main is traced when the gate is introduced):

* `ForwardInv`: the files a passed pull request changes are traced by themselves, so
  they stay so whatever main becomes.
* `DanglingInv`: they refer to requirements of the tree a merge would give now, unless
  that merge removes one.
* `BackwardInv`: a requirement a pull request adds or changes is `Supported`: by its own
  artifact, by a file the pull request changes, or by a file of main as it is now,
  which no other merge can have taken away without being excused.
* `MergeTakes` and `MergeConsistent` are the facts about three-way merges they rest on.
* `LocalGateAgrees` needs no induction: it follows from what `detect_orphans` computes
  on the files that each of the two reads. `DiffVerdict` says when it refuses,
  `GateVerdict` and `LocalVerdict` on what the two call it, `FilesCompared` which
  files they share, `NamersSuffice` that a file only one of them reads matters for a
  requirement only if it names one, and `UnreadableIsStricter` what an old model that
  cannot be read changes.

`CoverageLedgerProofs`, for any revisions of the code (as lists of definitions), candidates,
writers, payloads, baselines and ledgers:

* `OrderedEnumerates`: a finite set sorted by distinct ranks is a list in which each
  member occurs once; `EmittedShape`, `MergedShape` and `SelectedAreNew` follow: the analysis
  gives a list of unproven obligations, and what ingest selects has names that
  neither the file nor the selection has twice.
* `TypeInv`: file, reads and rewrites in progress are lists of items that are proven
  exactly with collected evidence; a pull request carries scopes and sessions the
  gates know. It gives `TypeOK`.
* `KeptInv`: names in the file and in each rewrite are distinct; a rewrite in progress
  extends what it has read (`Extends`: same places, same names, proofs kept); and until a
  rewrite replaced a file it had not read, the file, or the one rewrite that has
  truncated it, holds every name there ever was, proven if it ever was (`Holds`). `Extends`
  carries `Holds` over a rewrite (`StillHolds`). It gives `LedgerKept`.
* `AcceptedIsSound` and `NoContradiction` rest on facts about the operators of `MergeGates`
  (`GatesAreSound`, `GatesDoAgree`), for every document the pull request may carry.

Each strengthening was also checked with TLC, as an invariant of the component's run.

Every invariant, action property and refinement of a passing run is the statement of a
theorem. Only model-checked are the liveness properties, which need fairness and
`ENABLED`: `JobsSettle`, `EventuallyDelivered`, `WorkflowEnds` and `QueueDrains`.

## 5. Plan

Done: `WebhookReceiver`, `AuditLog`, `Dispatcher`, `EventBus`, `PlaneBoard`,
`DurableWorkflow`, `WorkflowRun`, `EvidenceStore`, `AgentConsumer`, `Pipeline`,
`MergeGates`, `WiringAnalysis`, `CoverageLedger`, `Traceability`, and the theorems above.
Left, in order of importance:

1. An abstract at-least-once queue that `Pipeline` implements, with its proof.
2. `BoardBatch`: `apply_delta` and `apply_upsert_plan`, whose runs are repeated after a
   failure half-way and must not create an item twice.
3. The tools of `plane_mcp_server.py` as further actors of `PlaneBoard`.
4. The kill switch as seen by a running loop: a flag read once and used later.

## 6. Not modelled

Configuration and HTTP framing, signatures, wording of comments and logs, parsing of
Python and of texts for ids, JSON Schema wording, the MCP server's tools, batch
scripts, the straight-line drivers, the kill switch and the checksum of the state file
(decided within one call), static report writers, telemetry, the predictive router
(a score over floats), the web site, the self-host scripts and the workflow files.
`PROJECT.json` gives the reason for each. Tampering with files and secrets is out of
scope: the model is about what the program does, not about what is done to it.
