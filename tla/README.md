# FazerOps in TLA+

FazerOps answers an alert with a ranked brief of recent changes, proposes one reversible
action, and executes it when a named person approves a card in Slack. This directory models the
parts of it where order, failure and time decide whether it is correct. Every definition is read
from the code under `src/src/fazerops`; `PROJECT.json` names the lines each one stands for.

## The system

One automation process (`actions/server.py`) runs an event loop (FastAPI) and the thread pool of
Slack's Socket Mode. A growth job (`actions/growth/job.py`) is a second process over the same
state directory.

| component | code | state it keeps | operations |
|---|---|---|---|
| approval gateway | `actions/approval.py` | open cards, outcomes, claimed keys | register, register_one_shot, decide, pending, outcome, open_cards |
| actor credential | `security/credentials.py` | single-use credential, its lifetime | mint, the gate at the executor |
| action catalog | `actions/catalog.py` | declared tiers, promotion rules | load, promote |
| executors, inverse, dry run, preconditions | `actions/executors`, `inverse.py`, `dry_run.py`, `preconditions.py` | none of their own; the target's value | build, dry_run, execute |
| ledger chain | `ledger/chain.py` | one JSONL file, its lock, its tail | append, read, sign_unsigned, repair |
| ledger store | `ledger/store.py` | records in memory, indexes | load, extend, record_alert, query |
| alert intake | `ingest/dedupe.py`, `/alerts` of `server.py`, `Automation.respond` | firings known, claims in progress | claim, finish, abandon, prune; register and post |
| incident messages | `_follow_coverage`, `decision_closer` of `server.py`, `slack/handlers.py` | where each message is; the newest brief | post, edit, close |
| coverage watch | `coverage.py`, `Automation.follow_coverage` | the current brief, late counts, close time | poll, revise, close |
| collectors | `collectors/` | truncation mark | fetch, coverage gap |
| investigation graph | `agents/graph.py`, `pipeline.py` | results, errors, plan, narrative | nodes with timeouts |
| agents and their validators | `agents/correlator.py`, `proposer.py`, `writer_author.py` | none | calls to a model, validation |
| token budget | `agents/budget.py` | run and day totals, a shared file | record, caps |
| correlation | `correlation/` | weights | score, rank stability |
| one-shot book | `actions/growth/one_shot.py` | one entry per key, a lock per key | offer, build, get |
| catalog growth | `signals.py`, `miner.py`, `lifecycle.py`, `job.py` | signal store, demonstrations, verdicts | observe, mine, graduate, demote, run_cycle |
| generated changes | `generate.py`, `pr.py`, `authoring.py` | bundles, branches | attest, commit, push |
| sandbox | `actions/growth/sandbox.py` | a cluster | contain |
| writers | `actions/writers/` | registry and its scoped override | register, look up |
| roster, decision log | `roster.py`, `decision_log.py` | a list; an append-only log | resolve, record |
| Slack surface | `slack/` | none | parse, ack, deliver |
| session store | `record/` | stages of a session | save, latest |
| parsing, radius, rendering, configuration, demo | `ingest/alerts.py`, `ledger/normalize.py`, `radius.py`, `keys.py`, `render/`, `config.py`, `models.py`, `main.py`, `demo.py` | none | pure functions |

How they interact: `/alerts` claims its firing, awaits the graph, records candidates and the
firing in the ledger, registers a card at the gateway, and posts. A click runs `decide()` on a
pool thread, which mints a credential, executes, records, and tells observers (growth signals,
the record, the closing of messages). A task on the event loop follows the brief's coverage gaps
and edits the posted messages.

What is hard about it, and the properties that make each part correct:

* *Two threads decide one card.* A mutation lands at most once, the record is true and final,
  every caller gets the recorded answer, every call ends.
* *A crash at any point of an append.* The chain verifies at every moment, no acknowledged
  record is lost, an edit from outside never verifies, one firing has one line.
* *Deliveries overlap an investigation, which may fail at any step.* One investigation at a time,
  one posting per TTL, no retry suppressed for good, no card replaced while it is read.
* *A model, a source or a sandbox may answer anything, or never.* Every alert gets a brief, a brief
  says when it is incomplete, a proposal rests on what was collected, a key has one outcome.
* *Changes are reported late.* A gap that is said to be closed hides nothing.
* *Three editors of one message, two writers of one record.* A decided card is not offered again,
  the brief tells the decision and the current ranking, the record ends with the decision.
* *What is undone was recorded by somebody else's log.* A diff's `before` is what was there, and the
  undo gives back what the action replaced.
* *A server, a job that dies and late sources write one corpus.* Mining is idempotent, honest signals
  are vouched for, verdicts stand.
* *A cycle crashes between commit, check and push, and people work on its branches.* What is pushed was
  checked, contained and resolves; a good commit gets its pull request.
* *An asynchronous log is the only witness of a sandbox run.* A verdict of containment is true.

## The modules

| module | models | kind |
|---|---|---|
| `ApprovalGateway` | gateway, credential, tier and promotion, executor as the gateway sees it | detailed |
| `DecideOnce` | what the gateway promises of a key: decided once, mutated at most once before | abstract |
| `ChainedLog` | the chained file, its writers and their stores | detailed |
| `AlertIntake` | deduper, `/alerts`, `respond` | detailed |
| `Investigation` | the agent graph, its nodes' clocks, the validators, the one-shot book, the token meter | detailed |
| `Ranking` | the features, the scores, the order, `rank_stability`, the blast radius | functions, over a ranking and its revisions |
| `CoverageWatch` | fetch, watch, `follow_coverage`, and the sources' lag | detailed |
| `IncidentMessages` | brief, card and record of one incident, and their editors | detailed |
| `ConfigMapRevert` | audit log, rebuilt prior state, card, execution and undo of a ConfigMap revert | detailed |
| `GapSignals` | signals, demonstrations, mining, corroboration and verdicts | detailed |
| `GrowthCycle` | the growth job's cycle, its repository and its forge | detailed |
| `Containment` | sandbox runs of a generated writer and their verdict | detailed |
| `ApprovalGatewayProofs`, `ChainedLogProofs`, `InvestigationProofs`, `IncidentMessagesProofs`, `ConfigMapRevertProofs`, `GapSignalsProofs` | theorems about the module each is named for | proofs |
| `AutomationProofs` | theorems about `AlertIntake`, `CoverageWatch` and `Ranking`: the automation process's loop and the ranking its briefs carry | proofs |
| `GrowthProofs` | theorems about `Containment` and `GrowthCycle`, the verdict and the cycle that uses it | proofs |
| `MC...` | constants and symmetry for TLC, one for each detailed module | instances |

The modules meet at the calls that pass from one component to the next. `AlertIntake` has an
investigation as one step that ends; `Investigation` details it. `AlertIntake` registers a card in one
step; `ApprovalGateway` details the card's life. `IncidentMessages` has the watch as `Update`, which
`CoverageWatch` details. `Investigation` and `GrowthCycle` have a sandbox's verdict as a choice, which
`Containment` makes; `GrowthCycle` has signals that cite events, which `GapSignals` records. The
ledger is a set everywhere but in `ChainedLog`, where it is a file.

`CoverageWatch`, `Ranking` and `GrowthCycle` name their specification after themselves (`WatchSpec`,
`RankingSpec`, `CycleSpec`), so that one module of proofs can extend each together with its neighbours.
The neighbours share no
variable, and a theorem about one uses the assumption of that one alone.

Sentences that begin with *Mutant* mark a definition that states a plausible bug; it is not used
by the model, only to show that a property would notice it. A variable whose comment calls it history
is there for the properties: it enables no step and prevents none.

### ApprovalGateway

`pending`, `outcomes` and `deciding` are `_pending`, `_outcomes` and `_deciding`. Each decider is
a pool thread; a step of `decide()` is an action of its own wherever another thread can run
between two steps: reading the outcome and claiming happen under the condition's lock (`Replay`,
`Claim`, `Wait`), everything from `Lookup` to `Notify` outside it, and `Release` is the `finally`.
Registration runs on the event loop, in the two steps of `_open` (`CheckUndecided`, `OpenCard`),
which hold no lock. An executor fails before the gate, after it, or lands and then returns or
raises. `Restart` empties the tables; `posted` (the cards in Slack), `landed` and `minted` are not
the process's and survive. A digest stands for one dry run, so one digest has one tier here.

`DecideOnce` has a decision and the set of keys whose mutation ran. `ImplementsDecideOnce` maps
`outcomes` to the decision and the `landed` of this life to what ran; `Restart` maps to `Forget`.

### ChainedLog

A line is a fragment, then whole, then terminated, in three steps, with a crash possible between
any two. A process is started with the key or without it (`key`). A MAC is the (key, record) pairs it
was computed over, back to the genesis, which nothing else can produce. `store` is a
`LedgerStore`'s memory; it remembers a record before its append, as the code does. `Edit` is one
edit from outside. `honest` is the history the file would have without it. `FiringsOf` says which
process records which firings: `record_alert` promises once per process, and the server alone calls it.

### AlertIntake

A handler is interrupted only at its `await`, so a request is two steps: `Claim`, and one of
`InvestigationFails`, `PostAll` and `PostFails`. `entries` is the deduper's table;
`shown` and `answered` are history. `Register` is the part of the gateway that intake sees. The
timeouts of the graph's nodes bound an investigation (`Longest`), and `Tick` respects them;
`Longest <= Ttl` holds by a factor of hundreds in the code (minutes against a day).

### CoverageWatch

A poll begins (`BeginPoll`, where it is settled whether it is the last), each source answers with
what has been delivered to it at that moment (`Answer`), and `EndPoll` is `_revise` together with
what `follow_coverage` does with the update. A source delivers a change at any moment up to
its lag, which is the promise `delivery_lag` states of it. A timer may wake `Early`. A score is a
constant per change: the ranking matters here only in who is first.

### IncidentMessages

An edit is rendered in one step and lands in another, since the calls to Slack are blocking
network calls that other threads overlap. The event loop has a program counter (`loop`), each
click has one, and the closing thread has a queue of edits. Everything outside the messages is
what the editors read: the newest brief, whether there is an outcome, which messages are known.
The coverage watch is present as `Update`, which `CoverageWatch` details.

The session store is here too: `session` is what each writer (the `/alerts` handler's pool thread and
the decision's hook) has still to save, `stored` the items in the order of their sort keys, `Save` one
`put_item`, and `held` whether `automation.briefs` still has the brief a session is built from.

### Investigation

`at` is the node a run is in. The orchestrator takes turns with three tools (`ResolveBlastRadius`,
`ComputeWindow`, `DispatchCollectors`), and its plan is what it dispatched, or `FallbackPlan`. The
collectors answer in full, in part or not at all, and retire as a batch; the correlator's claims are
dropped one by one or rejected together; the proposer's answer stands (`Stands`), or the gap is
recorded and a one-shot offered. The model is the live one, and may answer anything its schema admits.
The book of one-shots is `OneShotBook`: `holder` is the lock of a key, `book` its outcome, and building
takes two steps (`Author`, `Judge`) in which the proposer's clock may cancel it. Each node's clock
is an action (`NodeTimesOut`), enabled while the node runs. `over` holds the runs the token meter stops.

### Ranking

The four features, the weighted sum, the order and the statement of `rank_stability`, as operators.
Scores are integers: the code's divisor is the same for every candidate, and a weight that the draw
needs is a fraction, compared by cross-multiplication. `TemporalProximity` is `Scale` halved once per
half-life, rounded down. The sorted list is the function that gives place n to the candidate
that n - 1 others come before (`Scored`). The reference (`StabilityIsExact`) computes no
draw: it searches a grid of weights for one that lets a challenger draw level. `FoldIn` is a
late change, after which everything is ranked again.

### ConfigMapRevert

`audit` is every entry the API server ever wrote; `kept` says how many of them the rotated backup and
the current file begin after. A write and its entry are one step (`Finish`); it was received earlier,
and its timestamp is of then. `Collect` rebuilds each `before` from the previous entry of
the object on disk (`Anchor`, `Prior`), which leaves out what the control plane wrote. `Propose`
ranges over every set of parameters the schema has, and `Opens` is `validate_proposal` with the
inverse of the request it becomes; `Execute` and `Undo` are requests of their own. `catalog` says which
form of the action was merged. Requests that arrive or finish after the execution are left out, as a
person who writes between an execution and its undo is not who the undo is for.

### GapSignals

The server declines, records the firing, and decides; it may restart and brief the incident again. A card
cites any of the changes its brief may rank (`cited`), and `Decide` records one signal about each of them
that the ledger has, or about fewer where the observer dies on the way. The job loads both files
(`StartMining`), takes the anchors oldest first, writes the demonstration and then the signal (`Demonstrate`, `RecordRemediation`), and may die between the two (`JobDies`).
`Deliver` and `Correct` are the collectors' late changes and actors resolved anew. `Contested`,
`Confirmed` and `Vouched` are `graduation_status` and `corroborate` as functions of the state.

A verdict may be taken again: an incident that is executed once more after a restart, on a change that
no execution of it was about, has a new signal with a quiet period to come, and a confirmed incident is
awaited again. `VerdictsStand` says that this and a contest are all a confirmation gives way to. A second
execution on the *same* change records nothing, which has its own entry under the disagreements below.

### GrowthCycle

`stage` follows `run_cycle`: signals, collect, and for each gap replay, contain, emit, sync (once), branch,
commit, check, list, push, create. `seen` and `noted` are the ledger and the signals the cycle loaded,
`ledger` the file and `known` the server's memory, which may hold what the file refused. A branch is
absent, empty (made, not committed) or carries a commit with its evidence. `Abort` is an exception
that leaves the cycle or the death of its process: neither leaves anything but files. People amend,
delete, merge (with or without history), close, deploy and rotate the key. What a cycle reports of each
gap (the list of `CycleOutcome`) is read by nobody and left out.

`Replays` is `replay_corpus` with its `corroborate`: the gap is recounted from the signals that the ledger
and the alert history (`fired`) bear out, and every demonstration of the corpus must agree with the
candidate. `Collect` mines the corpus: an event of `Remediations` is a person's change that undid another
(`Undoes`), and one of `Agreeing` did so as the candidate would. `Correct` is a record written again with its actor
resolved to automation, after which its signal no longer describes it (`stale`) and its demonstration no longer
holds. So a gap whose branch is committed may be blocked in a later cycle, before its branch is looked at.
The second commit of a gap, over a base that has the first squashed, repeats an entry, which the check
refuses. For a widening it leaves the catalog as it is: there is nothing to commit and `git commit` fails
(`CommitFails`), or only the evidence differs (`EvidenceOnly`), and the check does not look at such a commit.

### Containment

A run opens its cursor, fills a namespace, relays the writer's requests, asks for a barrier, reads the
audit log until the barrier shows or time is up, tears down and judges. The log lags (`unlogged`), is
written half a line at a time (`half`) and rotates; the reader has one open file (`handle`) and looks for
a rotation after an empty read (`CheckRotated`), as `_new_entries` does. `Judge` is `judge` in its order.

## What the runs show

| run | bounds | shows |
|---|---|---|
| `gateway` | 1 manager-only AWS action, 2 dry runs, 2 threads, 2 clicks, deadlines of one tick, 2 lives | exclusion, at-most-once, a true and agreed record, observers, justified credentials, the refinement of `DecideOnce` |
| `gateway_live` | 1 one-shot, 2 threads, 3 clicks | every call of `decide()` ends |
| `log` | 2 processes with or without the key, 1 firing and a batch of 2, 4 records, 2 crashes, 1 edit, `sign_unsigned` | the writers never break the file, what was acknowledged stays, one line per firing, edits are detected |
| `intake` | 2 firings, 2 requests, 2 dry runs, room for 2 firings, TTL 2 of 5 ticks, 1 restart | one investigation, one posting per TTL, cards on screen, every firing is posted |
| `investigation` | 2 runs, 1 source, a gap and a change the catalog closes, an id nothing has, 3 turns, an alert whose service the manifest lacks | undegraded briefs are complete, proposals are grounded, gaps are kept, one outcome per key, every alert gets its brief |
| `ranking` | 3 services, 7 kinds of event, up to 3 events, 3 weightings, 3 histories, scores in eighths | the statement about the weights is exact |
| `watch` | 2 sources with lags 2 and 4, 3 changes, margin 2, tolerance 1; answers may raise and edits fail | a gap said to be closed hides nothing, every gap closes |
| `messages` | 2 clicks, 2 updates, catalog and one-shot card | current and closed messages, the decision in the brief and on record |
| `revert` | 2 ConfigMaps of 2 keys, 2 values, 3 requests in a window of 2, 1 rotation, shipped and widened catalog | diffs are true, the undo is exact, what is closed can be proposed |
| `signals` | 1 incident that may cite either of 2 changes of one moment or both, a later change that undoes them, 2 of the three corrected, windows 3 and 2, clock to 4, 1 restart | honest signals are vouched for, mining is idempotent, verdicts stand |
| `cycle` | 1 gap that needs a generated writer or widens an entry, 3 changes (2 of before: a change and its undoing, which led to an incident too; the third undoes it otherwise), 2 writers, 2 keys | what is pushed was checked, contained and resolves; a commit gets its pull request |
| `containment` | corpora of up to 2 anchors of 5 shapes, 2 keys and a decoy, 4 bodies, 2 calls, 2 rotations | verdicts are true, namespaces are gone |

The bounds are chosen by the case that needs the most of each. Two threads make every race on
`decide()`, and the third click of `gateway_live` comes while both of the others have been
decided or refused. Two dry runs are a card and its replacement; one tick is enough for every
deadline to fall before, on or after a step. Two processes contend for the file's lock, and each
is started with the key or without it at every start, so a file is signed by one, refused to the
other, and signed by the operator in between; two crashes tear a line and then the repair of it.
`ChainVerifies`, `AcknowledgedIsDurable` and `OneLinePerFiring` are about the file
its writers make, so they speak of the states before the edit from outside, `EditsAreDetected` of
all. Two requests are a delivery and a repetition of it, or of the other firing; five ticks are
two TTLs and the tick that divides them. Three turns are the fewest with which the orchestrator can
dispatch, and any fewer of them make the fallback; two runs are one that builds a one-shot and one
that waits for its lock; an alert whose service the manifest lacks gives the fallback plan no radius.
A first brief and three late changes of two sources give a ranking that moves twice. Two updates are
needed for a note that comes back to what it was. Three requests on two objects are a change, what it
was built on and one that overtakes it; with two keys a change is of one key or several; one rotation
hides the oldest entry or the anchor. Three changes are a cause, another that a second decision may cite
instead, and one that undoes them, delivered late and taken for a person's until its actor is resolved to
automation; the clock reaches past the quiet period. One gap meets every step of the cycle; its rung is
chosen at the start (`Rungs`), as the third needs a sandbox and a widening has the commits the third cannot
have. The two writers are the one that was contained and the one that is authored afresh in the next cycle.
Two signals are needed for a gap (`Threshold`), so one that goes stale is missed, and the third change adds
a demonstration that disagrees.
Two anchors are a run after a run, and two rotations pass a file the reader never opened.

Counters that only bound the exploration (`MaxCalls`, `MaxNow`, `MaxRecords`, `MaxTime`,
`MaxRequests`, ...) are guards, so behaviours end there. Deadlock is checked in `gateway`, where
registrations go on when the clicks have run out, in `cycle`, which always has a next cycle, and in
`investigation`, where the only state that may stay is that every run is done (`Finished`); it is off
where the bounded clock or the bounded work ends every behaviour.

Fairness:

* `gateway_live` assumes a thread inside `decide()` is scheduled and nothing about
  executors (a wait for one that never returns is not excluded, and is the property's exception).
* `intake` assumes that a sender repeats a firing it has no answer to, that an investigation
  ends (its nodes have timeouts; `EveryAlertGetsItsBrief` shows it) and, as strong fairness, that
  Slack does not refuse for ever.
* `investigation` assumes that each node's clock runs and that the graph starts the next batch. It
  assumes no answer of a model, a source or a sandbox: a run ends though all of them hang.
* `watch` assumes that the clock runs, sources keep to their lag, timers fire and calls return; a
  step that raises ends the watch, so `EveryGapCloses` has that exception.
* `cycle` assumes that the schedule goes on and crashes come to an end, except the exceptions that are
  certain (evidence that does not resolve, nothing to commit), and, as strong fairness, that no gap meets
  an author, a sandbox or a forge that fails at every one of its tries: the cycle repeats on a timer.

### Disagreements between the code and its documentation

`PROJECT.json` quotes the sentence each of these contradicts. None has a run that is meant to fail; most
are the named condition of a property that passes, and dropping the condition shows the behaviour.

* *Gateway.* A decision between the two steps of `_open` leaves an open card of a decided action
  (`approval.py:629`). Outcomes live in memory, so a one-shot regenerated after a restart executes
  again (`approval.py:325`); at-most-once is therefore said of one life.
* *Log.* A last line that lacks only its newline is read and remembered, then cut (`chain.py:163`).
  An append goes by the tail alone (`chain.py:211`), so it also continues a file that `read()` calls
  broken, and a second edit may then leave one that verifies: `EditsAreDetected` is checked with one
  edit and proved for at most one (`MaxEdits`).
* *Intake.* Releasing a claim that was evicted and taken over releases the other delivery's
  (`dedupe.py:76`): `OneInvestigation` fails in `intake` with `MaxEntries = 1`.
* *Collectors.* What normalisation raises is not a result, it leaves `gather_changes`
  (`base.py:108`); the follow-up of a brief then ends with its gap open (`raised` in `EveryGapCloses`).
* *Messages.* A card re-rendered before the decision lands after it and reopens (`server.py:113`, the
  condition `raced`). The investigated stage may be stored after the decision's (`server.py:380`, the
  condition `early`).
* *Cycle.* One gap whose evidence does not resolve ends every cycle before any gap is reported
  (`job.py:204`, the action `EvidenceUnresolved`). A crash between making a branch and committing leaves an
  empty branch that every later cycle pushes and no pull request is made for (`pr.py:261`):
  `CommitGetsItsPullRequest` speaks of branches that carry a commit.
* *Mining and verdicts.* One incident may get two demonstrations (`signals.py:440`). The server's
  verdicts do not see what only the job collected (`lifecycle.py:135`): the model's ledger is
  the job's. An incident executed again on a change it was executed on before keeps the first execution's
  time (`signals.py:532`), so the second has no quiet period of its own.
* *Revert.* A merged writer-backed action closes changes that no proposal can cite
  (`inverse.py:200`): `ClosedChangesCanBeProposed` fails in `revert` with `Catalogs = {"writer"}`, and
  is proved for the other forms. A
  diff's `before` is wrong where the control plane wrote or requests overtook each other
  (`k8s_audit.py:164`, the condition `orderly`), and an undo restores what was
  collected, not what was replaced (`executors/configmap.py:36`, the condition `Drifted`).
* *One-shots.* A build that is cancelled or raises leaves no outcome, and the next offer builds again
  (`one_shot.py:208`): `OneOutcomePerKey` speaks of keys that have one.
* *Token meter.* A run over its cap goes on to the next node's call (`graph.py:174`).
* *Sandbox.* Lines written between an empty read and the check for a rotation are never read
  (`sandbox.py:545`, the condition `lost`). A key the writer adds passes as contained
  (`sandbox.py:340`): `Restored` compares what the writer was given.

Other behaviours of the models that a reader should know of:

* An append with another key than the file's is not refused (`_signing_mode` looks at whether the
  tail has a MAC, not at whose it is) and leaves a file no key verifies. `log` has one key.
* A re-delivery that proposes nothing leaves the card of a refused posting open and unseen.
* A refused edit ends the watch with its gap open: `follow_coverage` does not guard `on_update`.
* The closing edit of a brief, rendered when the hook ran, can replace a newer ranking: the brief is
  said to be current while nobody has decided, and no property asks a decided brief for its newest coverage.
* A commit that adds nothing but evidence is pushed without that evidence being verified
  (`pr.py:385`): `PushedEvidenceResolves` excludes it.
* A committed branch waits for as long as its gap is blocked: a demonstration that disagrees, or signals
  that are no longer borne out, stop the cycle before it looks at the branch (the last exception of
  `CommitGetsItsPullRequest`).
* A pull request a person closes is opened again by the next cycle, as long as the gap is open.

## What is proved

Each theorem holds for every value of its module's constants that the module's assumption admits
(`ConstantsAssumption`, `WatchAssumption`, `RankingAssumption`, `CycleAssumption`); hypotheses beyond it are named here. Three
more assumptions say only that a placeholder is none of the values it stands in for: `LinesAssumption`
(`ChainedLog`), `SessionAssumption` (`IncidentMessages`), `ReportAssumption` (`Containment`).

`ApprovalGatewayProofs` proves, for all keys, threads, calls, clock values and restarts:

* `TypeCorrect`, and `InductiveInvariant` for `IInv == TypeOK /\ Control /\ Past`;
* `Exclusion`, `AtMostOnce`, `RecordIsTrue`, `CredentialsAreJustified`, `AnswersAreTheRecord`
  and the action property `OutcomeNeverChanges`;
* `ObserverIsTold`: a decided key that nobody holds has been announced, and nothing is announced but what
  is on record. A call's number is its own (`CallsAreNumbered`), so one call's news is never another's;
* `Refinement`: every step of the gateway is a step of `DecideOnce` or a stutter.

At-most-once is not inductive: that nothing landed twice follows from what the threads hold
*now*. `Control` says that a claimed key has exactly one thread holding it and is undecided until
that thread records, that a thread's result is its own call's until it records and the recorded
outcome afterwards, and that a thread about to mint has passed the checks on the card it holds.
`Past` ties history to that: what landed or was minted is of this life or an earlier one, a
mutation of this life is recorded, or about to be by its own call, and a credential of this
life is in use or its key is decided. The step proof goes action by action; `Mint`, `Mutate`,
`Record` and `Restart` each have a lemma, every other action leaves `landed` and `minted` alone and
is covered by two frame lemmas.

`AutomationProofs` proves, of the intake, `OneAtATime`, `NothingBehindTheCard` and `AnswersLapse` under
`Room`: there are finitely many firings and no more than the deduper has entries for. A claim is then known as long
as its request is open, and an answer until its entry lapses, because pruning drops nothing fresh;
so a request is opened only for a firing that has neither. Without `Room` the first is false (above).

It proves, of the watch, `CaughtUpIsComplete`: for every set of sources and changes, every
lag, poll interval and early timer, a gap closed as caught up hides no change. The argument: a
poll is final only within `Tolerance` of the last settle point plus `Margin`, so, as
`Tolerance < Margin`, after every settle point (`FinalIsSettled`); a settled source has been
delivered everything (`SettledIsDelivered`); so an answer of the last poll without an error is
all there is (`GoodAnswerIsAll`), and the close unites it with what the brief held. The
assumption `Tolerance < Margin` is what the code's two constants (1 s and 5 s) must keep.

It proves, of the ranking, `StabilityIsTrue`: for every manifest, ledger, history, priors and weight
vector, what `rank_stability` says of the weights is exact.

* The order: of two candidates one comes before the other (`StrictOrder`), and whoever comes before
  another has fewer ahead (`FewerAhead`), so each place has exactly one candidate (`PlacesAreTaken`) and
  the first has the highest score (`Sorted`): every lead of rank 1 is at least 0.
* Where rank 1 is not dominant, some feature separates it from a challenger the wrong way, so the loop
  finds a draw, which is the code's `assert best is not None` (`NearestIsADraw`); `Nearer` orders the
  draws as fractions, by cross-multiplication (`Cross`), so one of them is nearest.
* A challenger that a feature separates from rank 1 needs that weight moved by lead over difference,
  and the named one gets exactly that (`DrawIsLevel`); a move smaller than the nearest draw
  leaves rank 1 ahead of everybody it separates (`NoSmallerMove`). The two lemmas are about any fraction
  and any weights, so the grid in `StabilityIsExact` bounds only what TLC searches.

`InvestigationProofs` proves `CompleteBriefs`, `ProposalsFollow`, `GapsAreKept` and `OutcomesStand`, for
any answers of model and sources. The invariant follows a run through its nodes: every source is
awaited, failed or answered, and an answer that is whole is all the source reports in the scope
(`Scoped`); what is cited stays among what was collected (`Follows`); a gap is on record before
anything else is offered for it (`OnRecord`); whoever builds a writer holds the lock of a key that has
no outcome (`Locked`).

`IncidentMessagesProofs` proves `StaysClosed`, `BriefIsTold`, `WhatIsRead` and `RecordIsKept`, for any clicks
and updates. The invariant follows the edits: the event loop has at most one under way, and what it says of
the decision can only be out of date if the decision was made meanwhile, which `raced` remembers
(`Races`); every edit of the closing thread says that it was made (`Closing`), so the brief's line is on
screen or on its way (`Reaches`). The record's invariant (`Filed`) says of each stage that it is still to
come, in its writer's hands or stored, in one of them only, and that the decision's is stored after the
investigated one unless the decision came first (`early`).

`ConfigMapRevertProofs` proves `TypeCorrect`, `DiffsAreTrue`, `UndoIsExact` and `ClosedIsReachable`, for any
log, writers and rotations, the last for catalogs without the writer-backed form, with which it is false
(above). An entry records what its write left, so an object's last entry is what it holds (`Latest`)
and the one before an entry is what it replaced (`Replaced`); events, card and inverse are entries
of a log that is only appended to. That a non-empty set of positions has a largest, which `Max` and the
rebuilt `before` rest on, comes from the well-foundedness of the naturals.

`GapSignalsProofs` proves `HonestEvidence`, `VerdictsAreFinal` and `MiningEndsDone`: a signal is about
a change its incident's brief may rank, at a time its firing allows, or has such an anchor beside it (`Grounded`);
the store never replaces one, and the ledger only grows. So an execution's quiet period, once over, stays
over, and what can be awaited again is an execution that the store had not: one just decided, on a change
that no execution was about. That a cycle which ends has
left nothing to mine follows the anchors behind the one at hand: each has its demonstration and its
signal, and nothing takes either away. What the job pairs an anchor with is the latest change before it,
and two of one moment are ordered by their ids (`Place`), so there is always exactly one latest.

`ChainedLogProofs` proves, for any writers, keys, batches and crashes:

* `TypeCorrect`, and `LockIsHeld`: at most one process is past the lock, and what is torn in the file is
  the line it is writing, or was left by one that crashed (`Locked`, `InHand`);
* `WritersKeepTheChain`, where there is one evidence key: the writers' file is unsigned throughout, or
  every line links to the one before it (`SoundFile`), and what a writer is about to link to is the
  file's end (`SoundTails`). With two keys it is false (above);
* `AcknowledgedStays`: what was acknowledged is among the lines that end in a newline, which no repair cuts;
* `FiringsHaveOneLine`, where a firing is recorded by one process and is in no collector's batch
  (`FiringsApart`, which holds as only the server calls `record_alert`): a firing in the file is in its
  process's memory, which is what `record_alert` asks;
* `OneEditIsDetected`, for at most one edit: a MAC determines the records before it, so a file that
  verifies after the edit holds the records the writers' own would.

`GrowthProofs` proves, of the sandbox, `VerdictsAreRight`, `BoxesAreGone` and `BoxTypes`, for any corpora,
maps, patches, requests and rotations. The argument about a verdict follows the places of the audit
log, line j of file i. Requests stand in the log in their order: the last change of the declared
resource shows what it holds (`Holding`), a mutation elsewhere is logged or about to be (`Escapes`),
nothing follows the barrier (`BarrierLast`), and what was observed is what the places seen so far say, unless
lines were lost between two files (`Watching`). So once the barrier is seen, all the run did was seen.

It proves, of the cycle, `CycleTypes`, `WriterWasContained`, `EvidenceResolves` and `WasChecked`. The
invariant follows the evidence: it is signed only over what the ledger holds and a run that was contained
(`Honest`), a person can amend a commit but not its evidence, and what is on the remote, in the base or
fetched was let through by the check (`Sound`). `EvidenceResolves` leaves out a commit of evidence alone, as
its property does.

Only model-checked: liveness (`EveryCallEnds`, `EveryFiringIsPosted`, `EveryGapCloses`,
`EveryAlertGetsItsBrief`, `CommitGetsItsPullRequest`), which is outside the prover's reach, as is
`ENABLED`.

## What is not modelled, and why

* Parsing and normalisation of alerts, timestamps and actors, prompts and their framing, rendering,
  configuration and the demo are pure functions of data or text. The ingest API is a stateless wrapper
  of the pipeline.
* The Helm and RDS executors are one call to an external tool each, with one recorded value as
  inverse. Calls to models, AWS, Kubernetes and the sandbox's cluster are external: where their result
  matters they appear as a nondeterministic outcome (an answer, a failure, a lost answer).
* The text of generated entries and writers, and the syntax-tree allowlist: `GrowthCycle` has whether a
  module is acceptable.
* The graph's own backstop timeout, for work that never yields to the event loop.
* The upload of a record's markdown; a second card of one incident in `IncidentMessages`.
* Requests that the sandbox's API server serves after their connection was dropped: `Containment` has
  entries in the order of the requests.
* A decline whose signal cannot be appended is logged and lost (`proposer.py:503-515`); `Investigation`
  assumes the append succeeds.
* `Ranking` has integers for floats: ties within a rounding error are not told apart.
* The death of the process in the middle of a sandbox run: `Containment` ends every run, by its verdict or by
  a failure, and its namespace is deleted in either case. What a killed run leaves in the cluster is not modelled.
* People work on the job's repository between cycles, never during one.
* Threads switching inside one dictionary operation are below the models' steps. Slack's delivery of
  a click is a `Click` at any moment, as often as the bound allows. An `OSError` out of a ledger append
  is not told apart from an edit that raises in `CoverageWatch`.
