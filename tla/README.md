# Verification of the AI Cyber Security Suite

This directory holds a TLA+ model of the parts of the platform that run
concurrently or survive failures, the TLC configurations that check it on small
instances, and TLAPS proofs of its main theorems for instances of every size.
Paths below are relative to the repository's root (`src/` in `PROJECT.json`).

- `PROJECT.json` lists components, runs, mutants (one plausible bug per property,
  which the run must catch), the map from definitions to source lines, findings,
  hazards and theorems.
- A run: `tlc -workers 2 -config monitoring_system.cfg MCMonitoringSystem.tla`.
- A proof: `tlapm MonitoringProofs.tla`.

## 1. The system and its parts

The platform is a FastAPI backend deployed as several identical *pods* over one
PostgreSQL database and one optional Redis, a React frontend and a browser
extension. Each pod starts the background services in `backend/main.py:60-95`.

| Part | State it keeps | Operations | Talks to | What must be true of it |
|---|---|---|---|---|
| Leader election (`scheduler_service.py`, `monitoring_engine.py`) | row `scheduler_state` (epoch, leader, lease), the advisory lock of a connection, `_is_leader`, `_current_epoch` | `attempt_election`, `renew_lease`, `release_leadership`, the engine's cycle | PostgreSQL | an epoch has one leader; a live lease is respected; a leader is found again after a failure |
| Execution leases and workers (`scheduler_service.py`, `monitoring_worker.py`) | rows `monitoring_targets` (activity, failures, schedule, token / epoch / expiry), tasks of the pools | `claim_targets`, `validate_lease`, `write_back_result`, `execute_target`, `trigger_check_now` | election, alerts, incidents, notifications | a superseded worker writes nothing; failure counts are not lost; suspension happens; orphans are reclaimed |
| Monitoring target service (`monitoring_service.py`) | the same rows, the user's row as quota lock | register, update, delete, pause, resume, reactivate | workers (through the rows) | the quota holds; operators and workers do not undo each other silently |
| Alerts (`alert_service.py`, `correlation_engine.py`) | rows `alerts`, `soc_event_stream`, `notification_outbox` | `process_event`, acknowledge, resolve, dismiss, reopen | workers, broadcaster, containment | one live alert per fingerprint and window; severity never falls; one stream row per change |
| Incidents (`incident_service.py`) | rows `incidents`, `alerts.incident_id` | create, get-or-create, update, attach, detach | alerts, containment | one open incident per domain; only legal transitions |
| Event engine (`event_engine.py`) | none in practice (no subscriber is registered) | create, emit, (de)serialise | workers | - |
| Event stream (`event_broadcaster.py`, `routers/streams.py`, frontend `useSSEStream.ts`) | bounded queues per listener, Redis channels, tickets, the client's cursor and last 200 ids | publish, listen, replay, overflow, reconnect | alerts, Redis, browsers | what a queue gives up is signalled, what comes in order is shown; no more streams than allowed; a lost stream is replaced |
| Containment (`containment_service.py`) | actions, playbook runs, blacklist, policy version, Redis lease | execute action / playbook, evaluate, revert, update policy | targets, incidents, stream | each action applied once; revert undoes only what it owns; at most five playbooks per tenant |
| Notifications (`notification_service.py`, `notification_dispatcher.py`) | outbox jobs, preferences with circuit breaker | enqueue, claim, deliver, retry, fail, trip / reset | webhooks | at most three attempts; a delivered job stays delivered; the breaker trips once |
| Retention (`retention_worker.py`) | Redis lock, old rows | prune in batches | stream, outbox | never prunes what a client may still replay |
| Model lifecycle (`model_lifecycle.py`, `routers/mlops.py`) | lock file, registry, loaded models | lock, promote, roll back, reload | learning, scan | one operation at a time; predictor and explainer agree with the registry |
| Active learning (`learning.py`) | state of zero-day samples | verify, build dataset, record outcome, trigger retraining | model lifecycle | a sample ends retrained or rejected and is not stranded |
| Browser extension (`extension/`) | in-flight URLs, cache with TTL, current scan, badges | tab events, scan, explain, rescan | scan API | the badge and the popup belong to the page in front |
| Scan pipeline, threat intelligence, probe, authentication, read-only API, feature extraction, frontend pages | request-scoped | - | - | sequential code, see "Not modelled" |

The hard behaviours are: pods racing for leadership while locks, leases and
acknowledgements get lost; executions that outlive their lease; operator requests
that decide on a row a worker is about to change; read-then-insert without a
constraint (alerts); bounded queues that overflow; retries that race with late
answers (outbox); a lock file read before it is written. `PROJECT.json` lists each
one, at its line, with the properties that cover it or the reason why none does.

## 2. Modules

    FencedLeadership            abstract: epochs are granted once, to one pod
        ^ refined by
    LeaderElection              the row, the advisory lock, the engine's election
        |        \
        |         LeaderElectionProofs
        |
    TargetLease                 rows, claims, workers (actions, no Next of its own)
      | \
      |   MonitoringTargets     + the owner's requests and the quota
      |        \
      |         MonitoringProofs        of TargetLease and of both systems
      |        /
      MonitoringSystem          LeaderElection + TargetLease on the same pods and clock

    JobLifeCycle                abstract: taken, accepted or tried again, settled once
        ^ refined by
    NotificationOutbox          webhook jobs, dispatchers, breaker, preferences
        \
         NotificationOutboxProofs

    AlertLifeCycle              abstract: create, recur, triage
        ^ refined by
    Alerts                      transactions of events and of triage on the rows
        \
         AlertsProofs

    IncidentLifeCycle           abstract: the legal transitions, the closing time
        ^ refined by
    Incidents                   requests and pipelines on incidents and alerts
        \
         IncidentsProofs

    EventStream                 rows, queues, Redis relay, generator, browser tab
        \
         EventStreamProofs

    Containment                 evaluation, playbook lease, actions, revert
        \
         ContainmentProofs

    ModelLifecycle              lock file, registry, reload, samples
        \
         ModelLifecycleProofs

`Deployment` declares what `LeaderElection` and `TargetLease` have in common (pods
and NULL), `ElectionParameters` the other constants of `LeaderElection` with their
assumptions; `MonitoringSystem` extends both. `MC*.tla` give values to constants for
TLC.

### LeaderElection

One step is one statement that commits or that another pod can observe; the
PostgreSQL dialect is modelled (the default of `docker-compose.yml`).

| Variable | Code |
|---|---|
| `epoch`, `leader`, `left` | `scheduler_state.current_epoch`, `.leader_pod_id`, `.lease_expires_at - NOW()` |
| `hold[p][c]` | times the session of connection `c` of pod `p` holds the advisory lock (it is re-entrant) |
| `pc[p]` | where the pod is in `_cycle_step` |
| `via[p]` | connection of the open election transaction |
| `isLeader`, `myEpoch` | `MonitoringEngine._is_leader`, `._current_epoch` |

`TryAdvisoryLock`, `AcquireEpoch`, `YieldToLease`, `EpochUpdateError` and
`ReleaseAndFollow` are `attempt_election`; `RenewLease`, `RenewalRefused` and
`RenewalError` are `renew_lease` under `_cycle_step`'s `try`; `EndCycle` is the
claim and the sleep. Two details of the code decide the model:

- A SQLAlchemy `Session` gives its connection back at `commit()`. The unlock that
  follows a commit may run on any connection of the pool, so `ReleaseAndFollow`
  chooses one, and a follower can be left holding the lock. The other pods are
  then shut out of elections until that pod wins or ends; `LeadershipSettles`
  shows that one of the two happens.
- A transaction reads one `NOW()`, so `Tick` waits while a pod is between the lock
  and the epoch update.

`LoseConnection`, `EpochUpdateError` and `RenewalError` each have two outcomes:
the statement did not commit, or it did and the answer was lost.

### TargetLease

`token`, `tokenEpoch`, `lease` are the three execution columns, `run[k]` is the
asynchronous task that executes the claim with token `k`. `HoldsLease` is the
triple predicate of `validate_lease` and `write_back_result`. A worker goes
through `StartProbe`, `ProbeReturns`, `RaiseAlert`, `WriteBack`, `Suspend`,
`WriteAudit`: three separate transactions after the probe, as in
`_execute_target_inner`. `Timeout` cancels at an await (probe, inference,
incident), `ExecutionError` and `CrashHost` end the task anywhere. `ClaimLost` is
a claim whose commit failed, or succeeded without a dispatch. The fields `stale`
and `reset` of a run are history: nothing reads them but the properties.

A row locked by another transaction is skipped by `SKIP LOCKED`, so a batch is any
set of claimable rows up to the batch size.

### MonitoringTargets

A request is two steps: it reads the row (`ReadTarget`, with the operation's
refusals) and later commits the columns the ORM finds changed *against what it
read* (`CommitRequest`). A resume of a target that was active when read therefore
does not write `is_active`. `BeginRegister` takes the lock of the user's row and
counts; `CommitRegister` inserts. `AbandonRequest` rolls back. `reopened` and
`unsuspended` are history variables for the two ways in which a target at the
failure threshold may be active: a request switched it back on, or the worker
died between its two commits.

### MonitoringSystem

Extends `TargetLease` and instantiates `LeaderElection`; a crash takes the engine,
its locks and its workers, `Tick` ages both kinds of lease. `ClaimBatch(p)` is
`EndCycle(p)` together with a claim under `myEpoch[p]`; check-now is `ReadEpoch`
followed by `CheckNowClaims`. Stopping the engine cancels the workers it
dispatched but not those of the API's pool (`monitoring_engine.py:59`,
`monitoring_worker.py:535`).

### NotificationOutbox

The outbox of one user, the dispatchers of several pods and the requests that
change the user's preferences. One step is one transaction, or the HTTP request
between two of them.

| Variable | Code |
|---|---|
| `status`, `attempts` | `notification_outbox.status`, `.attempt_count` |
| `due`, `stale` | `next_attempt_at <= now`, `locked_at < now - 60 s` |
| `task[p][j]`, `seen[p][j]` | how far pod `p` is in `_dispatch_job`, and the `attempt_count` that came with its claim |
| `enabled`, `broken`, `failures` | `notification_preferences.webhook_enabled`, `.circuit_broken`, `.consecutive_failures` |
| `noticed` | an audit event `WEBHOOK_CIRCUIT_BROKEN` exists that is no older than `circuit_broken_at` |
| `request[r]` | the columns an open `update_preferences` is going to write |

`Claim` is `_claim_jobs_sync`, `CheckPreferences`, `Post` and `Unsent` are
`_dispatch_job` up to its classification, `Success`, `TerminalFailure` and
`RetryOrFail` the three write-backs. Details of the code that decide the model:

- `tick` works through its batch job by job, and the lease of every job in it
  started at the claim. A batch of ten can outlast the 60 seconds (resolving a name
  has no time-out, and the read time-out starts again with every chunk), so
  `Lapse` may hit a job its pod still holds, `MaxLapses` times.
- No write-back looks at `locked_by` or at the status it replaces. `locked_by` is
  therefore left out, and a late `Record` overwrites whatever the row has become.
- The write-backs after an answer run inside the `try` of the request: an exception
  there, before or after the commit, is handled as a transport error
  (`RecordFails`, to stage `retry`); one of the other write-backs ends the job's turn.
- A crash is not counted as an attempt: `attempt_count` changes only in
  `_record_job_retry_or_fail`.
- `update_preferences` writes the columns that differ from what it read before it
  awaited the validation of the URL (`ReadPreferences`, `CommitPreferences`).

`sent`, `doubtful`, `trips`, `notices` and `raced` are history variables.

`JobLifeCycle` says what all this comes to for a job: it is taken, the receiver
accepts it or it is tried again up to `MaxAttempts` times, and it ends delivered or
failed, once; it is delivered only after the receiver accepted it, and what was
accepted is neither retried nor failed unless its dispatcher dies (`Forget`). The
mapping (`JobState`, `JobTries`) is the status of the row, ACCEPTED while a
dispatcher has heard a 2xx and not written it down. A job whose lease runs out in a
dispatcher's hands, or whose write-back fails, goes `astray` and is promised nothing:
that is the abstraction's account of what the code does not fence.

### Alerts

The alerts of one rule, indicator and user, the workers that raise events for them
and the analysts who change their status. One step is one statement of a
transaction that others can observe or block on.

| Variable | Code |
|---|---|
| `status`, `severity`, `count`, `lastSeen` | the columns of `alerts` (`severity` as its rank) |
| `shown`, `cursor` | the entry of `soc_event_stream` with the greatest `cursor_id` for an alert, and the sequence behind it |
| `rowLock`, `advisory` | row locks, and the advisory lock of tenant and domain |
| `event[w]`, `triage[u]` | how far a transaction is, what it has locked and what it has flushed |

`BeginEvent` is the advisory lock in `_run_soc_pipeline`; `FindCandidates`,
`LockCandidate`, `AddToAlert` or `NewAlert` and `CommitEvent` are `process_event`;
`CreateFails` is its `except` branch. `CheckTriage`, `RefuseTriage`, `FlushTriage`
and `CommitTriage` are `_do_acknowledge`, `_do_resolve`, `_do_dismiss` and
`_do_reopen`, which differ in the target status. What decides the model:

- PostgreSQL at READ COMMITTED: the candidate query sees a snapshot, then locks row
  by row and evaluates its conditions again on the row it got. A row that no longer
  matches is not returned but stays locked.
- The session that processes an event has loaded alerts before, in
  `correlate_event`; nothing keeps those objects, so the rows are loaded anew.
- An insert that raises rolls back, and the advisory lock goes with the
  transaction. The retry runs the same query with the same `now` but beside other
  events of the same domain. It may raise after its commit as well: then the event
  has been counted, and the retry counts it again.
- Flushing draws the cursor; the entry becomes visible at the commit.
- Which of several matching alerts an event adds to is left open.

`commits` and `outside` are history variables. `outside` has the alerts whose last
change was not made under the advisory lock: reopened from a terminal status, or
touched by a retry. `OneLiveAlert` says nothing of them, and nothing in the code
keeps them from being live beside another one.

### Incidents

The incidents of one tenant. A client's request and a worker's pipeline are
transactions; waiting for a lock and the reads that follow it are one step, a
commit and the audit entry (a second commit in the code) as well.

| Variable | Code |
|---|---|
| `status`, `closed`, `severity` | `incidents.status`, `.closed_at IS NOT NULL`, `.severity` as its rank |
| `threat` | the incidents whose title is the one `get_or_create_threat_incident` looks for |
| `owner`, `alertSeverity` | `alerts.incident_id`, `alerts.severity` |
| `rowLock[i]`, `advisory` | the transaction that holds the row; the worker with `pg_advisory_xact_lock` of user and domain |
| `request[c]`, `pipe[w]` | the row a request has read under its lock and what it will write; how far a pipeline is through its candidates |

`CreateIncident`, `LockForUpdate` and `Update`, `LockForAttach` and `Attach`,
`LockForDetach` and `Detach`, `Refuse` and `Fail` are the requests; `Look`,
`LockThreat`, `Choose`, `JoinThreat` or `ReportThreat`, and `PipeFails` the
pipeline. What decides the model:

- The pipeline's `SELECT ... FOR UPDATE` finds its rows in a snapshot, then locks
  one after the other and evaluates the conditions again on what it got.
- `attach_alerts` and `detach_alert` lock the incident, and read the alerts without
  a lock. Two requests may both find an alert unattached; the later commit moves it,
  which the docstring (`incident_service.py:700`) excludes for a request that does
  not ask for it. The model contains this, and no property denies it.
- An update may change the title or reopen a closed incident of the threat while
  another is open. `pristine` (history) has the incidents no request has touched in
  that way; `OnePerThreat` is about those.

### EventStream

The stream of one tenant from the database to one browser tab. An event is named
by its cursor.

| Variable | Code |
|---|---|
| `row`, `origin`, `critical` | `soc_event_stream`, the pod whose transaction drew the cursor, whether `_is_critical_event` protects the event |
| `unpublished`, `outgoing[p]`, `relay[p]` | committed and not yet handed to `publish_event_nowait`; `_outgoing_queue`; the Redis subscription |
| `stream[c]` | a listener: pod, phase, its bounded queue, what the generator has left to replay, what the queue gave up |
| `counted`, `fallback[p]` | `soc:connections:user:<id>`, `_user_connection_counts` |
| `tab`, `via`, `lastId`, `seen` | the hook's flags, the connection it reads, `lastEventIdRef`, `seenEventIdsRef` |

`Draw`, `Commit`, `Rollback`, `Publish` are a transaction and what follows it;
`Relay`, `RelayError`, `Subscribe`, `SubscribeError` the Redis side; `Register`,
`RegisterUncounted`, `Refused`, `Unanswered`, `Unregister`, `CounterExpires`,
`Heartbeat`, `Stop`, `Exit`, `Crash`, `Restart` the broadcaster; `GeneratorStep` and
`GeneratorError` the response;
`Break`, `Backoff` the hook; `Prune` the retention worker. What decides the model:

- Cursors are drawn at the flush and published after the commit, so a client may
  see event 2 before event 1. Its cursor then skips 1 at the next replay. This is a
  consequence of the design and stays in `excused`, with the overtaken events named.
- What Redis does not bring to the tab's pod (the publication raised, the pod was not
  subscribed, the publisher died first) is replayed only while the cursor is before
  it. The next event of the tenant that the pod does dispatch moves the cursor past
  it, and it is lost to the tab. `sprint5_phase5e_arch_spec_v1_1.md:397` says that a
  reconnect "immediately recovers the missed events"; the code recovers those that
  nothing has followed. These events are in `excused` too, as are the rows a replay
  leaves out at its limit of 100: the hook does not ask for the next page, and live
  frames carry its cursor over them.
- The frame that reports an overflow carries the cursor *before* the event that did
  not get in (`event_broadcaster.py:412`), but what it displaces is the newest item
  of the queue, which is older. The client that reconnects with that cursor never
  sees the displaced event: the run `overflow_replay` shows it. `LossIsSignalled`
  says only that the frame itself survives.
- `register_listener` renews the counter's 120 seconds (INCR, EXPIRE, lines 625-626)
  before it looks at the limit, so a refused attempt keeps the key alive. `stop()`
  clears the Redis client before the generators end, so their `unregister_listener`
  does not give the count back, nor does a pod that dies. Such counts go away only
  when no attempt reaches a pod for two minutes (`CounterExpires`: possible when the
  tab is stuck or its device sleeps, never certain); a tab that retries within 30
  seconds keeps them. If they alone reach the limit (`LeftBehind`), the tab is refused
  as long as it tries.
- A stream that ends without an error leaves the hook with its active flag set
  (`useSSEStream.ts:287`); nothing reconnects. This is the state `stuck`, and
  `ComesBack` names it: a tab comes back unless it gets there.
- A stream that has been admitted and whose generator never starts keeps its slot.
  The replay does not apply the filters of channel and severity that live frames
  go through. Filters and tickets are not modelled.
- The retention loop never reaches `run_once` at this commit (its lock asks the
  cache for an attribute that does not exist); `Prune` stands for a direct call.

### Containment

All alerts of one indicator on one target; a *key* is an alert with one of the two
destructive actions, and its idempotency key.

| Variable | Code |
|---|---|
| `enabled`, `trusted` | the tenant's policy, an allowlist entry that covers the indicator |
| `run`, `action`, `entry` | `soc_playbook_runs.status`, `soc_containment_actions.status`, `soc_dynamic_blacklist.is_active` |
| `active`, `named` | `monitoring_targets.is_active`, the action its last error names |
| `policyLock` | the task that holds the policy row `FOR UPDATE` |
| `task[t]` | kind, key, stage, kind of lease and what its transaction is about to write |
| `redis`, `leaked` | whether there is a Redis client; tokens whose task is gone |

`Evaluate`, `CountTokens` and `AddToken` or `LeaseFromDatabase`, `InsertRun`,
`Contain`, `Bind`, `Finish` are a playbook; `Manual` with `FinishManual` and
`Revert` with `FinishRevert` the analyst's requests; `Fail`, `RedisError`,
`TokenExpires`, `UpdatePolicy`, `ToggleTarget` what happens to them. What decides the model:

- Nothing is read under a lock but the policy row in the fallback. An insert of a
  key that another transaction has inserted waits for it to end.
- Binding an incident commits the playbook half-way: the action is in force, the
  run RUNNING and the policy row unlocked. A crash there leaves the run RUNNING for
  ever, and in the fallback it uses up capacity for ever (`orphaned`).
- The Redis lease counts (`zcard`) and then adds, so the limit can be passed there.
  A playbook that is refused its lease drops the containment without a retry.
- Two blacklist actions at once create two active entries for an indicator; from
  then on the look-up that expects one raises, and further actions are FAILED.
  Reverting the first removes an entry that the second only extended. A revert of a
  quarantine re-activates the target if its last error still names the action, even
  if the owner has resumed and suspended it since. All of this is in the model; no
  document says which side should win.
- `evaluate_alert_containment`'s docstring says that it checks the allowlist (line
  919); the check is in the action. The identifier of a quarantine is a UUID, to
  which an allowlist of domains never applies. Nothing enforces the expiry of an
  entry.

### ModelLifecycle

| Variable | Code |
|---|---|
| `file` | the lock file: who created it, and what it says (nothing yet, a pid, the pid of a dead process, older than 900 s) |
| `registry` | `registry.json`: production, previous, history, demoted models, recorded checksums |
| `pred[p]`, `expl[p]` | the model each worker process has loaded for prediction and for explanation |
| `sample` | `scan_results.retrain_status`, `.retrain_attempt_count`, `.is_retrained` |
| `booting` | processes in `lifespan` that have loaded the predictor and not yet the explainer |
| `task[t]` | kind, process, stage, the rows it selected, the registry it read and the one it will write |

`AutoCheck`, `Count`, `Request`, `Select`, `Evaluate`, `Abort`, `Reset`, `Mark`,
`MarkError` are `learning.py` and the requests; `AskStatus` is `get_mlops_status`,
which calls `is_locked` as well; `RemoveAged`, `Enter`, `Create`, `Exists`,
`FindOrphan`, `TakeOver`, `WritePid`, `Wait`, `TimesOut`, `Leave` the lock; `Backup`,
`Train`, `Rollback`, `WriteRegistry`, `Predictor`, `Explainer`, `ExplainerError`,
`Restore` the operation under it; `Boot` and `Ready` a start. What decides the model:

- `os.open` and the write of the pid are two steps, and so are looking at a file and
  unlinking it: in `acquire_file_lock` (95-97, `FindOrphan`, `TakeOver`) and in
  `is_locked` (71-73, stages `dismissing` and `clearing`, `RemoveAged`). A process
  that reads a file empty, or finds it dead or aged and is slow to unlink it, removes
  the file of a successor that lives. These are the ways in which two tasks get
  inside (`raced`); `model_lifecycle.py:36` promises a mutex. `is_locked` does not
  await, so while it is about to unlink nothing else moves in its process
  (`Occupied`).
- A process loads predictor and explainer when it starts (`main.py:71-72`); each reads
  the registry, and neither takes the lock. A promotion or rollback that another
  process writes in between leaves the new process with one model of each generation,
  with no load failed and the lock intact. Nothing reloads it later (`skewed`).
- `write_registry_atomically` writes one fixed `.tmp` name (191-194). The lock keeps
  two writers apart; once it is broken they may tear the file. The model writes the
  registry whole.
- `PredictionService.reload_model` reports a failed load only in the log, so the
  branch that restores the registry after it (328-338) is never taken. A failed load
  of the predictor, or a second failure of the explainer while it is restored,
  leaves the two services apart (`skewed`), as does an explainer failure in a
  process that was behind the registry.
- Samples are marked PROMOTED before the reload: if the promotion is then taken
  back, they stay PROMOTED (`forfeited`). They stay EVALUATED (`stranded`) if the
  lock is refused or times out, the outcome is not recorded or the process ends.
- Two retrainings may select the same VERIFIED samples. Processes other than the one
  that promotes never reload (`docker/Dockerfile:28` starts two).

## 3. Runs

| Run | Instance | Shows |
|---|---|---|
| `bootstrap` (violation) | 2 pods, no fault, the seeded row | no pod is ever elected: `lease_expires_at` and `leader_pod_id` are NULL and the guard is never true |
| `targets` | 2 targets of a new user with a quota of 1, 2 executions, threshold 2, all verdicts, 3 requests, 2 at a time | stale workers never commit; failure counts are not lost; suspension holds; registrations respect the quota |
| `monitoring_system` | 2 pods, 2 connections, lease 2, 1 target, 2 executions, 1 trouble (crash, stop, lost connection or answer, lost dispatch, check-now) | one leader per epoch; only the named pod believes in the current epoch; refinement of `FencedLeadership`; leadership settles; executions of one epoch have one dispatcher; a due target does not stay leased to nobody |
| `epoch_fencing` (violation) | 2 pods, 1 connection, 3 troubles, no fairness | a check-now commits its result in a superseded epoch |
| `outbox` | 2 pods, 2 jobs, 2 attempts, threshold 2, 1 trouble (lapse, fault or request) | refinement of `JobLifeCycle`: jobs whose lease held are tried at most `MaxAttempts` times and settle once; a bounded number of posts; a tripped breaker keeps its count; one warning per trip; every job is delivered or given up |
| `outbox_final` (violation) | 2 pods, 1 job, 1 lapse, no fault | a delivered job goes back to PENDING or FAILED |
| `alerts` | 2 workers, 1 analyst, 2 alerts, 2 severities, 3 events, 2 triage requests | one live alert; no event lost from a count; the stream ends with the row; refinement of `AlertLifeCycle` |
| `event_stream` | 2 pods, 2 listeners of one tab, 2 events, queue of 1, replay of 1, 1 remembered id, 1 stream allowed, 1 timer, 1 fault | types; what a queue gives up is signalled; what is dispatched in order or replayed is shown before the cursor passes it; the cap holds while Redis counts; the tab gets a stream again unless counts left behind fill the limit |
| `overflow_replay` (violation) | 1 pod, 1 listener, 3 critical events, queue of 2, no fault | after an overflow the tab resumes behind the event the queue gave up |
| `incidents` | 3 incidents, 1 alert, 2 severities, 2 clients (1 admin), 2 workers, 3 operations | pipelines do not insert a second incident of a threat, nor join one that was closed under them; refinement of `IncidentLifeCycle`; no deadlock between row and advisory locks |
| `containment` | 2 alerts with 2 actions each, 2 tasks, 1 playbook at a time, 3 starts, 1 trouble | types; what is in force can be reverted; an action is performed once; the fallback keeps the limit; capacity comes back |
| `model_lifecycle` | 2 processes, 2 tasks, 2 samples, threshold 2, 3 models, 3 starts, 1 fault | the lock is broken only after the file of a living process was unlinked late; the production model is fit; samples, registry and loaded models agree unless a named fault, or a start beside a promotion, separates them |

**Bounds.** In `monitoring_system` one pod leads and one challenges; two connections
are enough for an unlock to reach the wrong one, and one fault for a leader to lose
its lock or its row while it goes on believing. The safety of the election is proved
for every number of pods, connections and faults; that leadership settles is checked
for two pods and one fault. A lease of two ticks has a state of each kind:
fresh, running, at its limit, expired. Two execution tokens let an old and a new
execution of one target overlap; a third adds a second stale worker that behaves
like the first. `MaxFailures = 2` instead of 5 keeps a first failure that does not
suspend and a second one that does. Two targets under a quota of one let two
registrations race for the last place while the first is paused, suspended or
deleted. `MaxFaults`, `MaxLosses`, `MaxOps`, `MaxAsks`, `MaxLapses` bound what the
environment does, never what the code does; `MaxTroubles` bounds their sum, and
with one of them a run asks what each single fault does to everything else (the
proofs of safety cover every number). `FailureCap` stops counting where the code has
suspended the target (`ProbeReturns` lets a check fail only while the count is below
it, so a target re-activated at the threshold only succeeds from then on). Tokens
are reused once no row and no worker refers to them, which stands for the freshness
of a UUID. Symmetry over pods, tokens, requests and targets is used only in runs
without liveness. `targets` runs without deadlock check: once the requests are spent
and every target is inactive and its lease gone, nothing is left to do. The outbox
stops when every job is settled, and stutters there.

In the outbox two attempts instead of three keep a first failure that is retried
and a last one; a threshold of two lets one job's failure bring the breaker to its
limit and the other's, or a late write-back, cross it. One lapse or one fault is
what it takes for two pods to hold one job, and to write it back in either order;
properties that only hold without them set the jobs concerned aside (`doubtful`),
and the proofs cover every number of both.

In `alerts` two workers race, one of them past the advisory lock when its insert
has failed, while an analyst triages; three events let a retry meet a second event
and a third one meet the result; with a window of zero one tick takes an alert out
of it. `alerts` has no deadlock check: it stops when events and requests are spent.
Workers and alerts are interchangeable and no liveness is checked.

In `event_stream` a queue of one item overflows at the second event, a replay of one
row is cut at the second, and two pods let events come in the wrong order; two
listeners are an old one that has not ended and the new one of the same tab, and a
cap of one makes the first refuse the second. One remembered id makes
the tab forget the first event when it shows the second. In `overflow_replay` the
queue holds one event the tab still gets and one that is displaced. In `incidents` the
third incident lets a
request retitle a second one while a pipeline opens a third; one client is an
administrator because only he may move or reopen. In `containment` two alerts on one
target and one indicator let two actions share an entry and a target; with one
playbook at a time the second task meets the limit; three starts are two playbooks
and a revert, or a playbook twice with a manual action. In `model_lifecycle` three
tasks let a third one enter beside two that raced for the file; one of the three may be a status
request that removes an aged file; three models allow a
promotion, a rollback and another promotion, and the run begins with the baseline
or with the registry that two promotions and a rollback left behind, so that a
second generation is in reach. These four run without deadlock check: they stop
when their operations are spent.

**Fairness** (`SSpec`, as `ESpec` for the election). The engine's loop runs for ever and a container
that ends is restarted (weak fairness of the pod's steps). The pool hands out
connections in FIFO order, so a pod that keeps electing uses each of them again
and again, and so do the database clock's ticks in spite of transactions that come
and go (strong fairness). Workers that started go on (weak). In `NSpec` each
dispatcher goes on with its batch and polls again (weak fairness: a request to a
receiver ends or fails), retries become due and the leases of jobs nobody holds
run out. In `VSpec` a stopped process exits and is restarted, the generator goes on,
a listener whose generator has ended is removed, and the hook tries again after its
back-off; a request is admitted or refused (all weak). The expiry of the counter's
key is not fair: the tab's own attempts put it off. In `IncSpec` a request and a pipeline are
served although others come and go (strong: PostgreSQL's lock queues are first come,
first served, but here a lock that becomes free may be taken by any waiter). In
`ConSpec` the same for each task, and Redis tokens expire. `ModelLifecycle` claims no
liveness: a lock file of a live process may be held as long as its training runs.
Faults, time-outs, errors and requests are never fair. Without a bound on faults the
liveness properties would not hold, and the code does not promise them.

**Findings.** *Bootstrap*: on PostgreSQL the row seeded by
`migrations/versions/d1e2f3a4b5c6_...py:44` has a NULL lease; the update at
`scheduler_service.py:432-435` then never matches, and the tests, which run the
SQLite branch, do not see it. All other runs start from a row whose lease lies in
the past. *Epoch fencing*: write-back compares the row's `execution_epoch` with
the worker's, both set by the same claim, so the epoch adds nothing to the token,
and a claim made with an outdated epoch passes. What protects the row is the token
(proved, see below); the architecture document promises more. *Delivered is not
final*: pod 1 claims a job, its lease runs out, pod 2 claims and delivers it, then
pod 1 hears a time-out and sets the row to PENDING (or FAILED): the job is posted
again, and the user's breaker counts a failure. `JobLifeCycle` shows that the
lapse, or a failed write-back, is what it takes. *Overflow*: a queue of two holds
critical events 1 and 2 when 3 arrives; it gives up 2, the frame says 2, the tab shows
1, resumes after 2 and gets 3. Event 2 is in `soc_event_stream` and is never asked
for, against `event_broadcaster.py:403` and the phase 5E specification (411-414, 712).
To resume where the displaced event is replayed, the frame would have to carry the
cursor before the displaced item, or the client to keep its own.

## 4. Proofs

All proofs hold for every number of pods, connections, targets, tokens and
requests and every lease length, under the named assumptions on the constants.

**Election** (`LeaderElectionProofs`). `OneLeaderPerEpoch` is not inductive: a
state in which a pod believes in an epoch the database never granted satisfies it
and can be followed by a grant of that very epoch. `EInd` adds what the row
guarantees: beliefs are at most the row's epoch, whoever believes in the current
epoch is the pod the row names, only leaders are about to claim, an elected pod
has a positive epoch. Neither the advisory lock nor the leases occur in it:
uniqueness rests on the atomic increment alone, the lock only keeps pods from
interrupting each other. `ElectionRefinesFencedLeadership` maps `GrantEpoch`
(heard or not) to `Grant`, a demotion to `StepDown`, everything else to a stutter.

**Executions** (`MonitoringProofs`). `TInd` says that a
token is on at most one row, that the run of a token on a row is not stale and is
for that row (`TokensAreCurrent`), and that a run still holding its row has seen
the row's failure count, or its user has reset it (`CountsAreCurrent`). It is
proved per action of `TargetLease`, so that each system built from those actions
can use it. The owner's requests come on top: an unregistered target is
neither active nor claimed (`RowsExist`), so an insert cannot disturb a run.
`StaleWorkerTheorem` and `FailureCountTheorem` follow because a worker that commits
finds its token on the row (`CommitsHoldTheLease`). Clocks play no part: the token
alone keeps stale workers out. The argument is about a single step of one execution
(`ExecutionStep`), so the owner's system and the composed one share it
(`CommitsAreFresh`, `CommitsAreCounted`).

**Suspension and quota** (also `MonitoringProofs`). `SuspensionHolds` follows from
what a worker between its two commits still carries: a count reaches the threshold
only by the write-back of a worker that goes on to suspend, whose target nobody can
make inactive and active again unnoticed (`reopened`, `unsuspended`). For
`RegistrationRespectsQuota` the strengthening is that an open registration holds the
lock of the user's row and has room for what it will insert; every other step can
only shrink the set of counted targets, and re-activations are set aside.

**The composed system** (also `MonitoringProofs`). `SInd` is `TInd`, `EInd` and
`RunsGranted`: an engine's run carries an epoch between 1 and the row's, and only the
pod that hosts it can still believe in that epoch. Every step of `MonitoringSystem`
is, for the election, a step of `LeaderElection` or a stutter (`SystemElection`), so
`LeaderElectionProofs` is instantiated and `EInd` comes with it; a new grant is a new
epoch, which no run carries, and a run starts at a pod that believes in its epoch.
`DispatcherTheorem` (`OneDispatcherPerEpoch`) follows for any number of pods,
connections and targets. What holds of the parts alone holds of the composition:
`SystemRefinesElection` (the whole system, seen at the row, the connections and the
beliefs, behaves as `LeaderElection`), `SystemLeaderUniqueness`, `SystemRowAuthority` and
`SystemRefinesFencedLeadership` (what the election promises alone holds inside it), and
`SystemFencingTheorem` (a stale worker does not commit although engines claim,
requests check at once and hosts die around it).

**Outbox** (`NotificationOutboxProofs`). `NInd` says that a job outside `doubtful` is
in the hands of one pod at most, that its row then is PROCESSING with a running
lease and the `attempt_count` the pod has seen, and that posts exceed the counted
attempts by at most one plus the faults. `SettledTheorem` and `PostsTheorem` follow;
without `HolderIsCurrent` a second claim of a settled job could not be excluded.
`BreakerInd` needs one fact more than its properties: a broken breaker has been
noticed, which makes the look-up of the audit event equivalent to "has just
tripped".

`JobLifeCycleTheorem` is the refinement, for every number of pods, jobs, lapses and
faults. Each action gets a lemma of its own (`EnqueueLife` to `TimeLife`): it changes
what `JobLifeCycle` sees of no job, or of one in a legal way. The rows a write-back
does not own are nobody's business because `NInd` gives a job outside doubt to one
pod; and since a pod that dies would otherwise forget several accepted jobs in one
step, the proof needs `OneUnderWay` as well: a batch is worked off in turn, so at
most one job of a pod is past `claimed`. A write-back that goes through moves the
job from the state `HeldState` knows it in (PROCESSING, or ACCEPTED in stage
`delivered`) to the outcome of that stage.

**Alerts** (`AlertsProofs`). `AInd` has one conjunct per transaction. `EventOK`:
the rows an event holds still match, what it has flushed is what the row needs
(one occurrence more, no lower severity, a cursor beyond the last one shown), and
it owns the advisory lock until it retries. `TriageOK`: the same for a request.
`Apart`: active alerts inside the discipline are more than a window apart.
`DedupOK`: the event that owns the advisory lock has, after its query, every such
alert among its candidates or behind the window. `DedupTheorem` needs the last two,
`CountTheorem` and `StreamTheorem` only the row locks: deduplication rests on the
advisory lock, everything else on FOR UPDATE. `LifeCycleTheorem` maps an event's
commit to `Create` or `Recur` and a request's to `Triage`.

**Incidents** (`IncidentsProofs`). `OnePerThreat` needs to know what a pipeline
knows: the worker with the advisory lock has every pristine incident among the rows
it found or already refused, so it inserts only if there is none. `LandsOnActive`
follows from the row lock it holds from the re-evaluation to the commit. The same
row locks make `IncidentLifeCycleTheorem`: the row a request checked its transition
against is the row it writes.

**Containment** (`ContainmentProofs`). `ConInd` has the types and one conjunct per
fact a transaction relies on: what has been performed is recorded in the action's
status (`History`), an entry in force belongs to an executed action (`InForce`), an
uncommitted insert means the key has no row yet and no other inserter (`Fresh`,
`Alone`), and a revert holds an executed action (`Reverting`). `CapInd` adds, for
the fallback, that whoever is past the lease either holds the policy row or has a
RUNNING row that the next holder counts. The assumption is that there are finitely
many keys (`FinitelyManyKeys`).

**Model lifecycle** (`ModelLifecycleProofs`). `CoreInd` says that the registry on
disk and every copy of it that a task will write back are fit (`RegistriesOK`): a
model is written only with its checksum and never out of the demoted ones, so it
makes no difference to `ChampionIsFit` who writes last. `LockInd`: under the
asyncio lock there is one task per process, and unless the lock has been raced, the
task inside made the file that is there. A task about to unlink keeps its process
still (`Quiet`), so what it removes can only be a successor of another process, and
that sets `raced` if the creator lives. For `InStep` a starting process predicts with
the registry's model unless the registry was written since (`StartOK` in
`ServingInd`). `SampleInd`, `ServingInd` and `ModelInd`
follow a sample and a loaded model through the stages of a task; `ModelInd` uses the
lock (without it a stale registry is written back, which `raced` admits).

**Event stream** (`EventStreamProofs`). `InOrderIsShown` speaks of the tab's cursor, and
the cursor moves with whatever comes next, so `VInd` has to say what may come.
Each item of a queue *stands* for an event: its own, or for an overflow the one it
was tripped for. `ReaderOK` says of the listener the tab reads from: items stand for
events its pod has dispatched, in cursor order unless excused; the rows of a replay
come in order, and no awaited event (critical, unsettled or committed, not excused,
not yet shown) is left out below them; once the replay is known, every awaited event
the pod has dispatched is in the replay or in the queue. `HookOK` adds that nothing
awaited is behind the cursor. The work is in `EnqueueIs`: an eviction, an overflow
over the newest item and an overflow over an earlier overflow keep this order, and
an overflow frame, once in a queue, is replaced only by another one, which is
`LossIsSignalled`. `RowTaken` and `ItemTaken` are the two ways the cursor moves;
`LeaveStep` covers every way to lose the stream. `CapHolds` needs only that the
count in Redis is at least the number of listeners (`CountsOK`): pods that die
leave it too high, never too low. The assumption besides the limits is that `None`
is not a listener (`NoneIsNoStream`). `ShownOnce`
holds as long as no more events have been shown than the hook remembers ids
(`ShownOnceTheorem`: everything shown is then among the remembered, and an event
that is remembered is not shown, `ShowsRemembers`). Beyond that it is false: an event
that comes late by more than 200 is shown again, and no run checks it.

**Only model-checked.** Liveness (`LeadershipSettles`, `OrphansAreReclaimed`,
`JobsSettle`, `ComesBack`, `RequestsEnd`, `CapacityReturns`) is out of the prover's
reach, as is everything that needs ENABLED. Every safety invariant and
action property of a passing run is proved. The type invariants `ETypeOK`, `MTypeOK`,
`NTypeOK`, `ATypeOK`, `IncTypeOK` and `LTypeOK` are proved and not run again.

## 5. Not modelled

- *SQLite.* The branch for tests runs in one process: it takes no lock and is
  always leader.
- *Configuration and drivers.* `monitoring_engine.py:63` falls back to a session
  factory over the asynchronous engine, and the SQL text puts the bind parameter
  `:sec` inside a quoted literal; the model assumes a working synchronous session
  and the interval the code means. The dispatcher likewise uses the rows it claimed
  after its session is closed, which its default factory (`Session(...)`, expiring
  on commit) does not allow and the tests' factory does; the model has the latter.
- *The in-app inbox* (mark read, delete, the unread cap): single statements on the
  user's own rows.
- *The correlation score* (only logged), *the Redis deduplication helpers* (never
  called), and that a new alert starts a containment task: `Containment` begins with
  that task. System alerts, without a user, write stream entries for a tenant that
  does not exist; on PostgreSQL that is an error of each such event, in the model an
  `EventFails`.
- *Stream tickets* (one GETDEL), *the administrators' stream* (the same queues with
  a limit of its own), *filters of channel and severity*.
- *The cooldown between retrainings, two candidates named in the same second* (their
  artifacts share a file name), *a registry file torn* by two writers of one `.tmp`.
- *The other three prunings of the retention worker*: they delete settled rows by age.
- *Probe, SSRF validation, inference, heuristics, threat intelligence, feature
  extraction, training*: functions of their input; in the models a verdict.
- *The scan pipeline*: request-scoped. What it leaves to a background task is in
  `ModelLifecycle` (`Verify`, `AutoCheck`).
- *The pool's semaphores*: a queued task waits for an unspecified time, which
  covers every schedule; their fairness between users is not examined.
- *The browser extension*: one event loop with a set of in-flight URLs and one
  shared current scan.
- *Authentication, read-only endpoints, frontend pages*: no shared state that
  another component acts on.

## 6. What is left

1. `WorkerPool`: the two semaphores, one user's targets against another's.
2. `ExtensionScan`: tabs, in-flight URLs, cache, badge.
3. A specification of the playbook's effects (performed once, reversible while in
   force) that `Containment` implements, and of the registry (a fit model in
   production) for `ModelLifecycle`.
