# Formal model of agents_Inc

agents_Inc hands prompts to LLM workers under governance: an envelope is
validated, authorized, reserved for, dispatched to a provider's command line and
recorded. Beside the Python package `workerbees` the repository holds
delegation skills, of which `codex-bridge` runs detached jobs that may continue
a provider session. This directory models the parts whose correctness depends on
concurrency, failures and order, checks them with TLC and proves the most
important safety properties with TLAPS. Paths are relative to the repository
root (`src/` in `PROJECT.json`).

## 1. Inventory

| component | state it keeps | operations | correct when |
|---|---|---|---|
| dispatch gateway `workerbees/gateway.py` (with `envelope.py`, `registry.py`, `policy.py`) | locals of one `dispatch` call | the 16 numbered steps of `dispatch` | no worker is called unrecorded, twice for a message, or beside another one; what is recorded of a call is what happened to it |
| control store `workerbees/control.py` | `control.sqlite`: `run_lease`, `reservations`, `run_budgets`, `replay_keys`, `cancellations`, `decisions`, `approvals` | one SQLite transaction per method | budgets, lease and replay keys hold whatever processes share the file |
| audit ledger `workerbees/ledger.py` | JSONL lines, mirrored to the 3NF store | `record_dispatch`, `record_return`, `record_output`, `load`, `lint`, `rollup` | a node's story is complete and merges to its last state |
| normalized store `workerbees/store.py`, `schema.py` | the 3NF tables | inserts, `append_event`, `ensure_route` | agrees with what it mirrors; event numbers have no gap and no double |
| pipeline `workerbees/pipeline.py`, `reviewer.py`, `verifier.py` | the locals of one brief | worker, verify, review, correct | corrections are bounded, nothing rejected is accepted |
| artifacts `workerbees/artifacts.py` | content-addressed files | `capture`, quarantine, purge | a stored hash names the bytes it was computed from |
| mandates and jobs `skills/codex-bridge/scripts/agent_runner.py` | `mandates/<run>.json`, `job-*/job.json`, `job-*/result.json` | `submit`, `mandate close`, `verify`, the detached worker | a role has one job in flight, resumes its own session, and a waiter gets an answer |
| Codex bridge `bridge.py` | the server's `thread_id` under `codex_lock` | prompt, session, reset | an isolated request never touches the shared thread |
| backend routing `skills/codex-bridge/scripts/route.sh` | health files, cooldowns | choose, report | a cooling backend is not chosen |
| model routing `router.py`, `lineup_router.py`, `derivation_store.py`, `doctor.py` | static catalogs, a one-hour probe cache | pure selection, probes | the chosen route is allowed and cheapest |
| speckit pipeline, reports, migrations | files | reading and printing | no protocol |

How they interact: the pipeline and other callers call `Gateway.dispatch`, each
in its own process or thread; all of them share one workspace, hence one
`control.sqlite`. Every control method commits its main transaction and then
mirrors it into the 3NF store. The gateway appends to the ledger before and after
the worker. The job runner is independent of the gateway: an operator's command
writes a job and starts a worker process, and both sides meet only in files that
are replaced atomically but never locked. The worker reaches the Codex bridge
through `ask.sh`.

The pipeline calls the gateway once per model call, and in off mode writes the
ledger itself; every recording function of the ledger appends a line and then opens
the 3NF store, and the migration reads the file back into it.

Hard behaviours: dispatches of several processes interleave between any two
transactions; any control access may raise and the code answers differently per
step (block, go on, swallow, let it out); a process may die holding the lease;
load-change-save of a mandate loses updates; a worker may finish before its
parent; a request of the bridge that must leave the shared conversation alone runs
between two that use it; file and database are written one after the other with
every error swallowed; a correction may end in the middle of a brief whose draft is
already reviewed. `PROJECT.json` lists each hazard at its line.

## 2. Modules

| module | what it is |
|---|---|
| `Control` | the tables of `control.sqlite` as variables and one operator per transaction |
| `Gateway` | `Gateway.dispatch`: one action per access to shared state. Extends `Control`; its properties are at the end |
| `WorkSlot` | what an enforcing gateway promises, without budgets, replay keys or failures |
| `MCGateway` | requests and symmetry for TLC |
| `GatewayProofs` | type correctness, proved |
| `GatewaySafety` | four safety theorems, proved |
| `GatewayPromises` | five more safety theorems and the implementation of `WorkSlot`, proved |
| `Mandate` | mandates, jobs, the operators' commands and the workers |
| `MCMandate` | commands for TLC |
| `MandateProofs` | types, and two properties that hold whatever updates are lost, proved |
| `MandateSafety` | three properties of a mandate up to the first lost update, or but for the saves that lose one, proved |
| `Bridge` | the handlers of `bridge.py` around `codex_lock` |
| `MCBridge` | what clients post, for TLC |
| `BridgeProofs` | types, the five safety invariants and the usage log, proved |
| `Ledger` | the ledger file, its mirror, the loaders, rollup and the migration |
| `MCLedger` | jobs, nodes and their parents for TLC |
| `LedgerProofs` | types, the five safety invariants and the end of a node, proved |
| `Brief` | one brief of the worker, verify, review pipeline |
| `MCBrief` | providers for TLC |
| `BriefProofs` | types and the four safety invariants, proved |

A definition that no action of a module's `Next` uses (`RetryAny`, `MergeNulls` and
the like) is what a plausible bug would make of the definition next to it. The
mutants in `PROJECT.json` put it in the place of that definition, to show that the
property named with it would notice.

### Control and Gateway

A *node* is one call of `dispatch`; the code draws `node_id` and `decision_id`
with `uuid4`, so both are unique to it and the node stands for both. `pc[n]`
names the access the call makes next. Two local computations between accesses are
one action, since nobody else can observe what is between them. Where a branch is
decided by a pure check (sender, schema, policy rules, route), the model gives
the envelope a *kind* naming the outcome of the check; the budget rule of the
policy is evaluated on what the call read (`seen`), because that is where a stale
read matters. The kind `unregistered` is that of a gateway built without a registry,
which the constructor refuses in enforce mode only: it reads neither usage nor budget,
records NO_REGISTRY and, in shadow, goes on (`NoRegistry`). A deadline may pass at any moment, so `DeadlineOpen` and
`DeadlinePassed` are both possible for a dated envelope. The kind `untimed` has a
`max_seconds` of null, for which computing the timeout raises and the call takes
the INVALID_DEADLINE path; an unparsable deadline is already refused by
`envelope.validate`.

Faults are chosen by the constant `Faults`: `control` (a `sqlite3.Error` in any
access: the action that handles it is next to the one that succeeds), `store`
(the mirror fails; for `release`, `release_lease`, `commit_usage` and
`record_run_budget` a `RuntimeError` of the schema check leaves the method after
its main commit, for the others it is swallowed), `ledger` (an append is lost),
`interrupt` (an exception no handler catches: a KeyboardInterrupt, or `canonical_hash`
of a payload that cannot be serialised, which raises before the message is claimed) and
`kill`. `used` answers zero when
the database fails, `is_cancelled` answers yes: both are modelled as written.

`lease`, `reservations`, `runBudget`, `replay`, `cancelled`, `decisions` are the
tables of that name. `mirror` is the decision row of the 3NF store, which keeps
the first code written, while `decisions` keeps the last. `launched`, `output` and
`faulted` record what happened to a call, for the properties.

### WorkSlot

At most one worker in the slot, no item served twice, and a worker that dies in
the slot loses it for good. `Gateway` implements it with the refinement mapping
`SlotView` (the node between its reservation and its last statement) and `Served`.

### Mandate

One mandate file is modelled: different mandates share nothing. An operator
process runs `submit`, `mandate close` or `verify`; a worker process runs one job.
Loading a mandate, deciding on the copy, and saving it are separate actions, and
`copy` is what the process holds in between. Nothing in the code locks the file and the
workers are detached, so windows overlap as they like, in every run and theorem. Two
history variables, which no process reads, say what came of it: `stale` holds the
processes whose copy is older than the last save, and `lost` is true once one of them
saved. `DuplicateOnRecord` and `OutcomeOnRecord` speak of the states before that, and
`ClosedForGood` excuses the saves that lose an update and no others; what the lost
updates themselves do is `mandate_reopen`. `Deaths`
lets any process die between two steps. A thread is named by the job that was the first to
return it: whatever JSON object a backend prints may name one, that of a resumed session
its own, any other a new one (`ThreadsRead`). That the text of a job which does not
resume repeats the thread of another role is left out. Prompts, times, agents, tiers and messages are left out; the
classification of a failure as transient is a free choice, since any failure text
may come back.

### Bridge

`ThreadingHTTPServer` gives every request a thread; `pc[r]` is where it is. What a
client posts is one of `Posts`; `validate_prompt_request` is `Contradictory`. From
`queued` a prompt enters under `codex_lock` (`holder`), honours a reset, builds the
command and starts codex in one action, since nothing of this is visible outside
the lock before codex runs. `codex` and `retry` are the two calls of
`subprocess.run`. A process may end well, hit its limit, fail, or make the handler
raise (the timeout, a broken event stream); its thread or its usage may be missing
from its output; it may have started a thread and failed all the same. `reply` is
decided under the lock and written there (`write`), and `usage.jsonl` is appended
after it. `seen` remembers the shared thread as the request found it, for the
properties; the code looks at `server.thread_id` again. Answers written outside the
lock (400, 500, 504) change nothing and are fused with leaving it. A client that
hung up is noticed at the write, which is where the code notices it. `Restart`
kills all handlers; that a codex process outlives them is not modelled, and neither
is `GET /session`, which only reads: `SharedIsShared` is about every moment it may
read at.

### Ledger

A *job* is one caller of `record_dispatch`, `record_return` and `record_output`;
two jobs may record the same node, as `ledger_bridge.py` does with a phase that runs
again. `file` is `ledger.jsonl`. A line may be torn by a write that failed half way;
the next one is then glued to it, and the loader skips both. `Merge` is what the
loader does with a further record of a node, `Take` one turn of its loop over the
lines and `FromFile` the loop, for one node.
Of the database, `rows`, `links`, `events` and `outputs` are tables, and `schema` says
whether `executescript`, which commits statement by statement, is done. A record
goes: line, then (`mirror`) the transaction of the dispatch; later line, then
(`read`, `insert`) the two statements of `append_event`, then the output. Errors end
the part they are in and are swallowed, as in the code: a failed append of a dispatch
skips the rows, a failed mirror skips nothing after it. `MaxFaults` bounds failed and
torn writes, locked databases, stale clocks, deaths and lost imports together.
`links` keeps the parent of a row of `legacy_parent` and not its edge type, so the
properties do not compare the edge types of the two stores. The order of a job's records
(`Due`) is the one in which the callers make them; nothing in `ledger.py` enforces it.
`StoreFails` is a store that cannot be opened or written; an `executescript` that fails
half way without killing the process, and a file that is no database, are left out.
`shaken` collects the nodes one of whose records met such a fault or overlapped
another record of the node, for the properties that speak of all others.
`Mark` and `Import` are the two transactions of `migrate_to_3nf.py`. It knows what it
imported by the hash of the ledger file and of `control.sqlite` together, here
the length of the one and the content of the other; it runs with the writers stopped,
as its documentation asks.

### Brief

`brief` is sequential, and what is hard is how long a run of answers can get it
into an illegal state. An answer is modelled by what the code tells apart: paused,
failed, not JSON, JSON of a shape that raises, or JSON with its checks (`passed` for
the verifier, `bad` and `uncited` for `check_draft`; `bools`, `covers`, `agrees` and
`omissions` for the verdicts). Drafts, claims and reports are named by the call
they come from, so that mixing two of them shows. `PickModel` is `pick_model`, with a
model for the task at every provider. Every call is a `Work` or a `Review`, with the
writes of the ledger about it in `Recorded`: its dispatch, its return and the hash of its
output, each of which may fail (`Fallible`). `missing` collects the kinds that did. In off
mode the brief makes these writes and its receipt tells of the first two; under
governance the gateway makes them and ignores their answers, and the brief binds
every draft once more (`_bind_output`). A governed call is refused
(`WorkRefused`, `NoReview`) or answered, and how the gateway decides is the
business of `Gateway`. All the ways it refuses, paused runs and handled denials
included, are `blocked`.

## 3. Runs

| run | expects | what it asks | states |
|---|---|---|---|
| `gw_control` | pass | with a failing control database and dying processes: `AllowOnRecord`, `OneCallPerMessage`, `OneCallAtATime`, types | 2.7 million |
| `gw_store` | pass | with a failing mirror, a failing ledger and interrupts, all kinds of envelopes, a gateway without a registry and conflicting hashes: `DenialOnRecord`, `ArtifactOfClaim` | 2.7 million |
| `gw_fair` | pass | no faults, two runs, enforced and shadow calls: `DeclaredBudgetHeld`, `CountedIffCalled`, `SlotHasHolder`, `CallsEnd`, `SlotFreed`, `CancelStops`, `ImplementsWorkSlot` | 49 thousand |
| `gw_budget` | violation | `DurableBudgetHeld` | |
| `gw_finally` | violation | `ReleasedInFinally` | |
| `mandate_guards` | pass | two roles, one of which changes its model and its backend, every way through engage, closes, retries, deaths, lost updates: `DuplicateOnRecord`, `OutcomeOnRecord`, `ResumesOwnThread`, `ClosedForGood`, types | 7.8 million |
| `mandate_race` | pass | a job that may retry, a second one, one without a mandate, verify and close, lost updates: `TerminalStays`, `JobsEnd` | 1.2 million |
| `bridge` | pass | three requests of every kind, hung-up clients, a restart: `OneCodexAtATime`, `SharedIsShared`, `ThreadHeldStill`, `AnswerNamesItsThread`, `RetriedOnlyWhenLost`, `AnswersAreCounted`, `RequestsEnd`, types | 389 thousand |
| `ledger` | pass | three jobs on two nodes, one fault anywhere, migrations: `EventsNumbered`, `MirrorTellsNoMore`, `StoresAgree`, `MigrationHeals`, `RollupChargesOnce`, `EndedStaysEnded`, types | 390 thousand |
| `brief` | pass | two corrections, any answers, any providers: `VerifiedIsEarned`, `ResultIsOneDraft`, `CallsFormAChain`, `LossIsAdmitted`, types | 1.8 million |
| `mandate_duplicate` | violation | `OneInFlight` | |
| `mandate_reopen` | violation | `NeverReopens` | |

Each property is stated in words above its definition. What the violations show:

* `gw_budget`: docs/DECISIONS.md says that later envelopes cannot raise the run
  limit. The durable limit is compared only by the policy, before the
  reservation; the atomic check in `reserve_bounded` compares with the limit of the
  envelope at hand. With two calls of one run in flight the limit is overrun.
  `DeclaredBudgetHeld` shows what does hold: when the enforced calls of a run
  declare the same budget, no interleaving exceeds it.
* `gw_finally`: CONTEXT.md says that the gateway releases in `finally`. It releases
  in its last statement, so an exception nobody catches leaves the lease behind.
  `SlotHasHolder` and `SlotFreed` hold without such exceptions.
* `mandate_duplicate`: the worker settles the engagement after every attempt,
  including the one it retries, so the role looks free while its job works on.
  `DuplicateOnRecord` is the part of invariant I2 that holds.
* `mandate_reopen`: a settle that loaded the mandate before a forced close saves it
  open. `ClosedForGood` says that only a save that loses an update does such a thing.

What the passing runs of the last three modules show, beside that the properties hold:

* `bridge`: the shared thread survives everything isolated requests do, and the
  second look at it after a failed resume sees what the first one saw, since a reset
  waits for the lock. The usage of a failed attempt, and of an answer whose client
  hung up before the write, is on no record; `AnswersAreCounted` is about answers that
  were written.
* `ledger`: `append_event` reads and inserts in two statements, yet no interleaving
  leaves a gap or a double. The two stores may differ, and `StoresAgree` says of which
  nodes only: those whose records failed, overlapped, or carried a stale time.
  One fault is enough for every kind of disagreement; a later import repairs status and
  calls of every node (`MigrationHeals`). A link it does not make if it meets the child
  before the parent or the schema refuses the edge type, and one that is there it never
  changes: the link is the file's if the first readable line of the node is a dispatch
  and its jobs name one parent.
* `brief`: no sequence of answers gets a draft called verified that was not, and the
  draft, its report and the ledger's parents stay those of one attempt.

Further divergences met on the way are documented here only. Most are about one line rather
than about behaviours, or about a plan or a checklist; the definition named with the others is
the code's own way, which every run follows:

* A denied, blocked or killed call has already claimed its message, so its retry is
  answered `duplicate` although nothing ran (`OneCallPerMessage` is the benefit of
  that order). OPERATING-GOVERNANCE.md says a shadow verdict never stops execution,
  while a busy workspace slot does stop a shadow call.
* specs/010-persistent-exec-session/contracts/cli-and-bridge.md (rules 1 and 6 of the
  request-local thread id) wants the thread of a process in a local variable at both
  sites. The retry assigns `server.thread_id` while it parses (`bridge.py:365`),
  before the exit status: a retry that fails or raises leaves its thread as the shared
  one (`Adopted`). The rule that matters, that isolated requests do not, holds.
* docs/superpowers/plans/2026-09-05-phase-3-trust.md:20 returns a draft with bad
  citations; `pipeline.py:148` turns it into needs-review, and so sends it to a
  review, when a sentence is uncited besides (`Processed`). The review cannot make
  it verified.
* `reviewer.py:98` says that malformed verdicts are invalid; a verdict that is no
  object raises on `v.get` and leaves `brief` (`ReviewRaises`), and so does a worker's
  JSON with claims of another shape (`WorkRaises`).
* `migrate_to_3nf.py:134` stores the issue of a failed import with `record_no` -1, which the
  CHECK of the table refuses: the error leaves the migration, and the issue that
  docs/governance/SCHEMA-3NF.md:442 promises is never stored (`ImportLost` stores nothing).
* `migrate_to_3nf.py:125` keeps the first link of a child: if an import saw only the return
  of a node, whose dispatch was written late, the link stays without the parent that the
  file names by then. `MigrationHeals` says of which nodes the link is that of the file.
* CHK015 of specs/010-persistent-exec-session/checklists/implementation-readiness.md:60 says
  that a backend other than codex never sets a thread. The worker reads one from whatever its
  backend prints (`agent_runner.py:661`), and `settle_mandate` looks at the continuity of the
  role's last engagement (`agent_runner.py:410`): a job of another backend that settles after
  codex was engaged on the role by `--force` sets the thread. `ResumesOwnThread` is what
  holds: it is still a thread that a job of that role returned.
* `migrate_to_3nf.py:326` commits the mark of the import before the import, also for
  `--dry-run` (`Mark`). The real import that follows a dry run, or a crash between the two,
  finds it already done, while docs/governance/SCHEMA-3NF.md:442 says "Dry-run reports
  only". `MigrationHeals` speaks of imports that were committed.
* FR-008 of specs/002-dispatch-graph-ledger/spec.md:79 wants a ledger failure recorded in the
  receipt. `_bind_output` drops the answer of `record_output` (`pipeline.py:31`), and under
  governance the gateway drops all three answers. `LossIsAdmitted` is the part that holds: the
  records of the calls in off mode.
* specs/010-persistent-exec-session/data-model.md:75, I4, wants the thread of a role without
  resume to stay null; a role that goes from codex to another backend keeps the thread it
  had (`Engaged`), unused until codex is back.
* `store.py:191` says that the loser of a race for an event number must retry;
  `ledger.py:295` swallows the error and `record_return` answers true
  (`InsertEvent`).
* SC-003 of specs/006-bindle-sibling-integration/spec.md wants the second capture of the
  same bytes verified by size and digest; `artifacts.capture` compares sizes.

Not divergences, but worth knowing: a death inside `executescript` leaves a schema
that every later `Store` refuses; a torn line costs the record after it too; a phase
recorded again is back to dispatched in the file but not in the database; a child
whose parent was lost is missing from the rollup; a receipt of a draft with uncited
sentences says `human_decision_needed` false once the review passed, with the status
needs-review.

### Bounds

* Two nodes. Every interaction in the gateway is between two calls over one row of
  one table: the lease, a run's reservations, a message's key. The theorems below
  are for any number of nodes.
* One run in `gw_control` and `gw_store`, where the interesting case is two calls of
  one run; two runs in `gw_fair` and `gw_finally`, where a lease of another run
  matters. Two messages and two hashes give the duplicate, the conflict and the
  unrelated call.
* A budget of one call (two in `gw_budget`): the limit is met and exceeded with two
  calls. A worker takes one second, enough to tell zero from used.
* Two jobs: a role resumes across jobs, and a duplicate needs two. Two roles in
  `mandate_guards`, so that a thread of the wrong role would show; one in the other runs. One
  operator, whose window may overlap those of the workers: two windows are enough to lose an
  update. The theorems are for any number of operators. One retry, of the 0 to 3 the command
  line allows; none in `mandate_reopen`. `mandate_guards` uses the symmetry of jobs; it
  has no liveness property, and `mandate_race`, which has one, uses none.
* Three requests at the bridge: one that leaves a shared thread, one that uses it, and
  one that comes between; the body that names a thread names that of the first
  request. One restart, so that a thread on disk is there which the server forgot.
* Three jobs and two nodes in the ledger: a parent, and a child recorded by two jobs at
  once or one after the other, with different outcomes and edge types. One fault,
  because the errors are swallowed one by one. Two contents of `control.sqlite`, so
  that the same file is imported twice.
* Two corrections and three providers for the brief: a correction after a correction,
  a reviewer of another vendor or none, and an optional provider that the worker's
  selection must not find a command for.
* `gw_control` and `gw_store` use the symmetry of nodes; they have no liveness
  property.

Deadlock is checked in every run: `AllEnded` lets the gateway stutter when all
calls have ended, so do `AllServed`, `AllDone` and `Ended` for the bridge, the jobs of
the ledger and the brief, and `Mandate` can always run another refused command.

### Fairness

`Gateway!Fairness` is weak fairness of each dispatch: a call that was made runs on,
as a thread of the operating system does; its only wait is the worker call, which
`adapters/base.py` bounds with a timeout. Nobody is obliged to call, cancel or
fail. `Mandate!Fairness` is weak fairness of each worker: its one long wait is the
provider command, bounded in the wrapper scripts. Operators may stop for ever, and
a worker that dies is excused in `JobsEnd`. `Bridge!Fairness` is weak fairness of
each handler: codex is bounded by the timeout of `subprocess.run`. `threading.Lock`
promises no order, but a handler enters once and there are finitely many, so that
`RequestsEnd` needs no more: when all others are done the lock stays free. `Ledger` and
`Brief` state no liveness: their steps run one after the other, and what they wait for
is bounded elsewhere.

## 4. Proofs

| theorem | states | module |
|---|---|---|
| `TypeCorrect` | `Spec => []TypeOK` | `GatewayProofs` |
| `AllowIsOnRecord` | `Spec => []AllowOnRecord` | `GatewaySafety` |
| `DenialIsOnRecord` | `Spec => []DenialOnRecord` | `GatewaySafety` |
| `MessageCalledOnce` | `Spec => []OneCallPerMessage` | `GatewaySafety` |
| `WorkersExclude` | `Spec => []OneCallAtATime` | `GatewaySafety` |
| `ArtifactIsOfItsClaim` | `Spec => []ArtifactOfClaim` | `GatewayPromises` |
| `ChargedIffCalled` | `Spec => []CountedIffCalled`, if no access to the control tables fails | `GatewayPromises` |
| `SlotIsHeld` | `Spec => []SlotHasHolder`, if only ledger appends fail | `GatewayPromises` |
| `CancelledNeverRuns` | `Spec => CancelStops`, if no request is in off mode | `GatewayPromises` |
| `BudgetIsHeld` | `Spec => []DeclaredBudgetHeld` | `GatewayPromises` |
| `BoundImplementsWorkSlot` | `Spec => ImplementsWorkSlot`, if every request is enforced, or is a shadow one and no access to the control tables fails | `GatewayPromises` |
| `TypeCorrect` | `Spec => []TypeOK` | `MandateProofs` |
| `TerminalStaysHolds` | `Spec => TerminalStays` | `MandateProofs` |
| `ResumesOwnThreadHolds` | `Spec => []ResumesOwnThread` | `MandateProofs` |
| `OutcomeIsOnRecord` | `Spec => []OutcomeOnRecord` | `MandateSafety` |
| `DuplicateIsOnRecord` | `Spec => []DuplicateOnRecord` | `MandateSafety` |
| `ClosedStaysClosed` | `Spec => ClosedForGood` | `MandateSafety` |
| `TypeCorrect` | `Spec => []TypeOK` | `BridgeProofs` |
| `CodexExcludes` | `Spec => []OneCodexAtATime` | `BridgeProofs` |
| `SharedStaysShared` | `Spec => []SharedIsShared` | `BridgeProofs` |
| `ThreadIsHeldStill` | `Spec => []ThreadHeldStill` | `BridgeProofs` |
| `AnswersNameTheirThread` | `Spec => []AnswerNamesItsThread` | `BridgeProofs` |
| `RetriesOnlyTheLost` | `Spec => []RetriedOnlyWhenLost` | `BridgeProofs` |
| `UsageIsCounted` | `Spec => AnswersAreCounted` | `BridgeProofs` |
| `LedgerTypes` | `Spec => []TypeOK` | `LedgerProofs` |
| `EventsAreNumbered` | `Spec => []EventsNumbered` | `LedgerProofs` |
| `EndedNodesStay` | `Spec => EndedStaysEnded` | `LedgerProofs` |
| `DatabaseTellsNoMore` | `Spec => []MirrorTellsNoMore` | `LedgerProofs` |
| `RollupCharges` | `Spec => []RollupChargesOnce` | `LedgerProofs` |
| `MigrationHealsAll` | `Spec => []MigrationHeals` | `LedgerProofs` |
| `TwoStoresAgree` | `Spec => []StoresAgree`, if the jobs of a node name one parent | `LedgerProofs` |
| `TypeCorrect` | `Spec => []TypeOK` | `BriefProofs` |
| `VerifiedEarned` | `Spec => []VerifiedIsEarned` | `BriefProofs` |
| `OneDraftReturned` | `Spec => []ResultIsOneDraft` | `BriefProofs` |
| `CallsChain` | `Spec => []CallsFormAChain` | `BriefProofs` |
| `LossAdmitted` | `Spec => []LossIsAdmitted` | `BriefProofs` |

They hold for every set of nodes, requests, jobs and providers and every
value of the bounds, for all faults, deaths and overlaps unless the table says
otherwise. The conditions in the table are hypotheses of the theorems on the
constants `Faults`, `Requests` and `ParentOf`; they are discussed below. The other
assumptions are the named ones of the modules:
`ControlAssumption` (limits and seconds are naturals, `None` is no value),
`GatewayAssumption` (requests are requests, and an enforced one has a registry; `None` is neither a request nor a code),
`MandateAssumption` (commands are submits, retries a natural, jobs are not operators;
`None` is no name, command or record), `BridgeAssumption` (bodies are posts),
`LedgerAssumption` (each job has a node, a parent, an edge type and a status; `None`
is no node, job, number, record or edge type, and "absent" no node) and
`BriefAssumption` (the two lists of providers are disjoint sequences). TLC evaluates
each of them in the runs.

### Gateway

Types need `Started`: a call past `idle` has a request, so
`Mode(n)` and `Run(n)` mean something. `TypeInv` is both, and `Moves(n)` is the
common shape of the steps from which it is preserved. Over it stand three
inductive invariants:

* `PathInv` says, for each call, what its `pc` implies: off mode skips the governed
  steps; a launched call is past the launch; an enforced call at the route or later
  has its allowing row; at `annul` the verdict is one of the two deadline codes; a
  denial that was returned is the row. `OthersStay` says that a step of one call
  changes nothing of this for another, so each action is looked at for its own call
  only. `AllowOnRecord` and `DenialOnRecord` follow.
* `ClaimInv` adds that a call past the claim has the row of its message and that two
  such calls have different messages, for the calls that cannot pass over a failed
  claim (`Claimant`: the enforced ones, and the shadow ones as long as the control
  tables do not fail); it rests on the claim being one transaction. `OneCallPerMessage` alone is not inductive, since it says nothing
  of a call that has claimed and not yet launched.
* `LeaseInv` adds that a governed call between its reservation and its end holds the
  lease of its run and is the only one, unless a shadow call met a failed access
  to the control tables and went on without (`Bypassed`): `release_lease` deletes by run, so that call may
  give another one's lease away. `OneCallAtATime` follows.

`GatewayPromises` proves first what one step of a dispatch does, action by action, and
uses this account instead of the actions afterwards: where `pc` goes (`Follows`), what
becomes of the lease and the reservations (`SlotStep`), of the replay rows
(`ReplayStep`) and of the runner (`RunnerStep`); `DispatchCourse` says that every step
of a dispatch is one of these, and `ArriveKeeps`, `AbortKeeps` and `IdleStepKeeps`
what the remaining steps leave alone.

* `ArtifactOfClaim` rests on `CalledInv`: a call past its launch was launched, so what
  it publishes is the output of its own worker. That the row still has its hash is the
  WHERE of the upsert.
* `ChargeInv` follows the reservation of a governed call from its insert to its commit
  or rollback. With failing control tables the property is false, since a failed
  rollback leaves a call charged that never ran; so the theorem leaves the fault
  class `control` out, and keeps `store`, `interrupt`, `kill` and `ledger`.
* `HolderInv`: who is in the lease is between its reservation and its last statement.
  An interrupted or killed call is not, which is what `gw_finally` shows; nor is one
  whose release failed. The theorem is for runs without them.
* `CancelStops` follows from `Stopped`: once the run is cancelled a call before its last
  look can only move on to its refusal. A call in off mode never looks.
* `BudgetInv` is stated for a run and a budget on which its enforced calls agree. A
  reservation is inserted only if one more call fits, and every other step inserts
  none: `OneMoreCall` and `NoMoreCalls` count the live reservations as the cardinality
  of a set, which spares the induction over a sum.
* For the refinement, `HolderOwns` says that a call that holds the lease is the node
  `SlotView` shows, and `DispatchImplements` maps each step of a dispatch to a step or
  a stutter of `WorkSlot`; that no message is served twice is `ClaimInv`. Enforced
  calls implement it whatever fails. A shadow call goes on when the claim or the
  reservation raises, and may then give away a lease or repeat a message, so the
  hypothesis `Bound` leaves the fault class `control` out where shadow calls are made
  (mirror and ledger failures, interrupts and deaths stay in). A call in off mode
  takes no lease at all, and `WorkSlot` says nothing of it.

### Mandate

`TypeInv` is the types with what makes them inductive. `OrderAt(o)`: a submit in
progress has a job that nobody works on, without a record before `spawn` and queued in
it, and once it has decided, its copy holds the engagement it will read back
(`HasEngaged`). `JobAt(j)`: a worker has a record, in the status of its step, and a job
of a role has a mandate. `Apart`: no two submits have the same job. `OperatorStep`,
`RecordStep` and `WorkerStep` say once what a step of one process leaves alone.

`JobCourse` sums up what a step may do to a job: nothing, create it, or give it a
status, and a terminal one only a verdict. `TerminalStays` is a case of it.
`ResumesOwnThread` needs more than itself: `ThreadInv` says of the file, of every copy
of it, of every result and of every resuming job that the thread it names was returned
by a job of the same role (`OwnThread`), whatever its backend. Once true of a thread this
stays true (`OwnThreadStays`), so that a lost update, which brings an old copy back,
cannot break it: that is why the theorem needs no lock.

The three theorems of `MandateSafety` assume no lock either. `SafetyInv` has two halves.
`WindowInv` holds whatever was lost before: an operator whose copy is not stale decides on
the mandate as it is, and what it is about to save extends an open mandate (`WindowAt`);
a worker that is not stale settles the mandate as it is (`AttemptAt`). So only a stale
save can undo a close, which is `ClosedForGood`. `RecordInv` holds until an update is
lost: a job of a role is listed under it from its record on (`CreateAt`, `EngagedAt`), as
returned once it was settled so, and each job whose first attempt was not settled holds
its role, unless a duplicate is on record (`Covers`). `Covers` must be carried from the
decision to the save, since jobs go on in between: a job is new only by a save
(`UnsettledCourse`), one that was over when a close cleared it stays over, and the first of
several open windows to save makes the others stale.

### Bridge

`Inv` is the types, `SharedIsShared`, and for each request what its step implies
(`At`): outside the lock it has no process, and nothing of it is written or counted
before it is done (`OutsideAt`); in `codex` it holds the lock and the shared thread
is the one it saw (`CodexAt`); in `retry` it is a plain prompt whose first process
resumed that thread, and the server has none (`RetryAt`); in `write` its answer fits
the processes it ran, once or twice (`WriteAt`). Mutual exclusion is that all of
these but the first say `holder = r`. `OthersStay` says that a step of one request keeps
`At` of the others, since only the holder changes what they look at, `OwnStep` that
it is enough to look at the request that moves; there is a lemma per action.
`SharedIsShared` is not inductive by itself: that a plain prompt stores its own thread,
or one that was shared before, needs to know which thread its process resumed.

### Ledger

`Numbered(n, k)`: the events of `n` carry the numbers 0 to k - 1, each once.
`NumInv` says that every node is numbered up to some k, that one without a row has
no event, and that a job about to insert holds a number between 0 and k: it was the
next one when it was read, and k only grows. Hence it is either free and the next
one, or taken and refused by UNIQUE. `NextIsFree` computes `NextSeq`.
`EndedNodesStay` adds that an event which is inserted becomes the newest
(`NewestIsLast`) and is an outcome, and that a dispatch writes its event only for a
node without a row.

The other theorems speak of what the loader's loop and rollup's walk come to, which
is an induction over the lines and over the depth. The library states induction for
an operator, which the provers cannot instantiate; `Induction` states it for a set of
naturals instead, from the well-foundedness of `<` (`LeastOfNats`). With it
`SameCourse` and `Iterates` say that a recursion over 0..N has one solution, so
`FromFile` is what its equations say (`StoryLoop`), and a line more is one turn more
(`StoryGrows`). From there on a step is looked at through `FileStays` and `FileGrows`
alone: the file is as it was, or `Take` was applied once.

* `DatabaseTellsNoMore`: `Told(n)`, the outcomes on the lines of `n`, only grows. What
  a job is about to insert is told already, because the line was written before
  (`ToldJobs`), and so is what an import inserts, because the loop only merges lines
  (`ToldLoaded`).
* `RollupCharges`: `SubtreeClosed` says that after as many turns as nodes are loaded
  the walk is at a fixed point: a turn that adds something adds to a cardinality that
  `Loaded` bounds. `ParentInv` says that a job past its first step has its node loaded or
  in doubt, hence so is every parent that a line names.
* `MigrationHealsAll`: `HealInv`. While the file is as long as at the last import, no job
  is at `mirror`, `read` or `insert`, so nothing can undo what `ImportNode` says of each
  node: its newest event is the merged state of the file. Where the links come from is
  `SourceInv`: a node whose first readable line is a dispatch loads with the parent of one of
  its jobs (`FileParent`), and a link in the database names the parent of one of its jobs
  unless an import made it of a return alone (`DbParent`).
* `TwoStoresAgree`: `Calm(n)` says of a node that is not in doubt how far the two
  stores are apart at each step of its records. At most one job is between its line and
  its rows (`Alone`); at `mirror` the dispatch is in the file and its link may be absent
  (`Dispatching`, `Linked`), from `read` on the outcome is in the file, and the database
  has it once nobody is there (`Returning`, `Counted`). `CalmSame` disposes of the steps
  about other nodes; each step about `n` has a lemma. The hypothesis `OneParent` is
  what the callers do: `skills/speckit-pipeline/SKILL.md` passes the root node of the run
  with every call. Without it the property is false: the file takes the
  parent of the later line, and `legacy_parent` keeps its first row.

### Brief

`Inv` is the types, the properties, that the receipt admits what was lost (`Lost`) at
every step and not only at the end, and what each `pc` implies: in `start` nothing was called
(`Starting`); in `work` there are two calls for each correction and the last one found
issues (`Working`); in `review` there is one more, and it is the draft, the report and
the node at hand (`AtHand`), whose answer `Processed` accepts (`Reviewing`). `CallsFormAChain` is about the whole history and is kept because a
call is only ever appended (`ChainGrows`). That the reviewer is another vendor is
`ReviewerIsAnother`, from `PickIsEligible`: the selection takes the least index of a
set of eligible providers, which exists (`LeastExists`).

### Model-checked only

All liveness (`CallsEnd`, `SlotFreed`, `JobsEnd`, `RequestsEnd`), which needs ENABLED,
beyond the prover. Every safety invariant and action property that a passing run checks
is a theorem.
Where a theorem has a hypothesis, the property is false or not claimed without it, as
the notes above say; no run checks it there.

## 5. Not modelled, and the plan

Left out for good: formatting, command lines, reports, dashboards, installation and
tests. Not modelled, or not wholly:

* approvals (`control.py:356` and around): the gateway sees them as one outcome of the
  policy. The `reserve` and `acquire_lease` methods that the gateway does not call.
* the artifact store: one or two file replacements per operation, whose
  promise relates bytes to a digest. The callers ignore a capture that fails.
* of the ledger, the modes that write one store only, `lint`, and the exports to and
  from JSON and Mermaid, which read a loaded ledger; of the store, route revisions,
  providers and models, edge artifacts, frontier gates, and the tables of the control
  plane with their migration. The loader of the database leaves out the reason of
  a gate, which no property here is about.
* backend routing (`route.sh`), `lineup_router.py` and `derivation_store.py`, and the
  probes of `doctor.py`: selections over catalogs and health files. `Brief` takes
  their result as any set of providers.
* the phase registry of speckit, which is configuration.

What would come next, most important first: approvals (decided once, before they
expire, for the artifact they were asked for) composed with `Gateway`; the artifact
store with crashes between the file replacements; the cooldowns of `route.sh`; the
selection of `lineup_router.py` against a reference definition.
