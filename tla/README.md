# ETF-AGENTS: what the account and the daily run promise

TLA+ models of the parts of ETF-AGENTS that keep state across days: the account
ledger on disk, the money in it, the way one decision goes from the data it is
made on to the session that settles it, the orders that are computed and reviewed
for it, the report that tells of it, the market data it was made on, and the trial
of a change of the strategy. `src/` below is the root of the
repository; `PROJECT.json` maps every definition to its lines.

## 1. The system and its parts

Once or twice a trading day a *daily run* collects market data, brings a
*virtual account* up to date, lets language-model agents argue about the
portfolio, computes orders in plain Python, seals the *decision* and exports a
*D-Plan*, a file that a human uploads before 08:55. The next run settles that
decision in the virtual account at the official closing prices. The same
decision must be in three places that no transaction ties together: the
decision store, the account chain and the D-Plan main file.

| component (code) | state it keeps | operations | what makes it correct |
| --- | --- | --- | --- |
| repository (`virtual_account/service.py`, `VirtualAccountRepository`) | `runs/<id>/`, `latest.json`, `rolled_back/`, `.write.lock` | `save`, `rollback_latest`, `staging_copy`, `publish_staged_chain`, `verify` | one writer; `latest` always verifies; one unbroken line of states back to genesis; publication all or nothing |
| account service (same file, `VirtualAccountService`) | none between calls: loads a state, saves the next | `initialize`, `prepare_day`, `rebase`, `apply_decision` | every saved state can be loaded again |
| ledger (`ledger/account.py`, `ledger/execution.py`) | settled and unsettled cash, receivables, lots | `settle`, `apply_fills`, `apply_actions`, `snapshot`; `run`, `void_batch` | simulator and ledger count the same money; none is made or lost |
| daily settlement (`virtual_account/daily.py`) | decision store, archive of superseded, archive of voided | `settle`, `void_closed_session_decision`, `supersede_unstarted_decision`, `supersede_decision_runs`, `restore_superseded_decision` | a decision is settled once; what was settled stays; an unstarted one is replaced or put back as a whole |
| daily run (`scripts/run_daily_pipeline.py`) | run lock, Snapshot, account snapshot, the run's summary | data stage, deadline checks, export, `roll_back_superseded` | no decision after its deadline; the D-Plan that lies there agrees with the ledger |
| competition (`competition/`) | D-Plan main file, versions, profile | export with account binding, rebase to the organiser's DataPack, fallback candidate | exported only for the account state the decision was made on |
| automation (`automation/`) | a run directory of briefs and agent outputs | agent tasks in threads, retries, staged outputs, revision loop | outputs published together; retry fits before the deadline; revision ends |
| decision (`decision/`) | nothing between calls; a proposal per revision, sealed at the end | `AllocationOrderEngine.run`, `ScenarioEngine`, `CompetitionGuardV2`, `revision_effects`, `finalize` | orders keep the limits the reviews left, can be paid at the open and are refused for known reasons only; reviews only tighten |
| delivery (`decision_delivery/`) | stored deliveries, copies to read, `latest.json`, `latest.md` | `build_delivery`, `save_failure`, `save_delivery`, `publish` | latest tells of the last result of the newest run, can be read, and never goes back |
| strategy reflection (`strategy_reflection/`) | live policy and lessons, history, switch | `run_auto`, `apply_reflection`, `apply_pending`, `settle_open_trial`, `rollback` | one change on trial at a time; what is live is on record; every trial ends |
| core (`core/`) | immutable run directories | `save`, `verify`, hashing, time | a sealed directory never changes |
| data (`data/`) | versions of prices and documents, the table of instruments and its validations, Snapshots | `store_prices`, `_store_record`, `upsert_instruments`, `replace_competition_universe`, `SnapshotBuilder.build` | nothing is written over; what is read at a cutoff stays the same; a usable Snapshot is whole |
| perception, fundamentals, research, reporting | records of their own | collect, parse, validate | evidence was visible at its cutoff |
| evaluation, calibration, benchmark, dashboard | records of their own | replay, observe, compare, show | read only for everything above |

How they interact: the daily run calls everything else in one process and holds
`artifacts/daily/.lock`; agents run in threads of it. `cli/virtual_account.py`
writes to the same account *without* that lock, so the repository's own
`.write.lock` is the only thing between it and a daily run. The strategy
reflection takes the run lock only for its last write. Collectors of market data
are run by the daily run, by schedules and by hand, share one SQLite file, and
meet nowhere but there. The outside world acts on
its own: the clock, the arrival of closing prices, a cancelled session, kills.

The hard parts, each with its line in the `hazards` of `PROJECT.json`: state
read before the lock and used under it; a publication of several renames that
is undone when one fails; a run that is hours of steps while its deadline
passes; a decision set aside for one that then is not made; two looks at the
clock that disagree; runs that reuse an old Snapshot; exact receivables beside
rounded cash; purchases paid out of sales of the same session; answers that are
stored in another order than they were fetched; orders that are cut to one limit
after another, each cut changing what the earlier ones were measured by.

## 2. Modules

| module | of | models |
| --- | --- | --- |
| `AccountChain` | abstract | the promise: one line of states that opens, extends, takes back its last |
| `VirtualAccountRepository` | implements `AccountChain` | the account directory, step by step |
| `VirtualAccountRepositoryProofs` | proofs | section 5 |
| `AccountLedger` | ledger, simulator, service | the money |
| `AccountLedgerProofs` | proofs | section 5 |
| `DecisionLifecycle` | daily run, daily settlement, binding, export; keeps to `AccountChain` | one decision from Snapshot to settlement |
| `DecisionLifecycleProofs` | proofs, in layers | section 5 |
| `AgentStage` | one stage of agent tasks (`automation/pipeline_base.py`) | threads, retries, staged outputs, resuming |
| `AgentStageProofs` | proofs | section 5 |
| `StrategyTrial` | `strategy_reflection/` and its commands | a change that is sealed, applied, judged, kept or taken back |
| `StrategyTrialProofs` | proofs | section 5 |
| `DecisionDelivery` | `decision_delivery/`, `core/artifact_store.py`, begin and end of a daily run | what becomes of a run's result |
| `DecisionDeliveryProofs` | proofs | section 5 |
| `MarketData` | `data/`: store, collectors, validation of the list, Snapshot | point in time: what is stored, and what is read at a cutoff |
| `MarketDataProofs` | proofs | section 5 |
| `Allocation` | `decision/allocation.py`, `sizing.py`, scenarios of `risk.py` | from the agents' intents to orders of whole lots |
| `DecisionReview` | guard and reviews of `risk.py`, `automation/risk_stages.py` | a proposal that is checked, revised and decided on |
| `DecisionReviewProofs` | proofs, of the engine and the reviews | section 5 |
| `MCRepository`, `MCLedger`, `MCLifecycle`, `MCStage`, `MCTrial`, `MCDelivery`, `MCMarket`, `MCReview` | instances | the constants for TLC |

The repository is modelled alone and shown to implement `AccountChain`; the
lifecycle takes the chain as its account and is shown to use it only in the way
`AccountChain` allows, so the two meet at the abstract specification instead of
multiplying their states. `AccountLedger` says what is inside one state.

### VirtualAccountRepository

A variable for each thing on disk (`runs`, `latest`, `rolledBack`, `output`,
`lockFile`) and, per writer, the program counter and the locals of the call it
is in. One action per file-system step: a rename of a directory and an atomic
replacement of a file are one step each, everything between two of them can be
interleaved with the other writer, fail (`Fault`, `PublishFault`, `UndoFault`,
`UndoRunFault`), be interrupted (`Interrupt`: the `finally` of the lock runs,
`except Exception` does not) or die (`Crash`: the lock file stays until
`RemoveStaleLock`, the operator's step in `docs/runtime-artifacts.md`).

A state is content-addressed and names its parent by hash, so it is modelled by
its history, a sequence of entries; equality of histories is equality of
`state_id`. The entry keeps the parent's *run id* as well: the code follows that
one when it walks the chain, but checks only the hash when it saves. That both
lead to the same place is a property here (`ChainWalkable`) and not assumed.

Left out: the contents of the files in a run directory and their manifest (a
rename makes all of them visible at once; damage from outside is not modelled),
and the check that refuses to open an account over a directory without
`latest.json`.

### AccountLedger

An operation is one action: it loads the saved state, works on a ledger record
whose `error` keeps the first exception, and saves or raises. The working copy
holds exact money, the saved state whole coins, as `Decimal` and `money_string`
do; a coin has `Coin` parts so that rounding shows. Folds over sequences stand
for the loops of `apply_fills`, `_consume_unsettled_settlements` and
`ExecutionSimulator.run`; the sorted list of orders is two loops over the sorted
symbols, the sales and then the purchases. `AffordableLots` is the limit the code's loop stops
at: the most lots whose cost with commission still fits.

Left out: the average cost of a position, which decides nothing. Assumed
(`LedgerAssumption`): a lot costs whole coins, as a thousand shares at a price in
hundredths do, and so do the least commission and the cash an account opens with;
the sale of one lot brings more than its fees; what the organiser reports is whole
and worth something.

### DecisionLifecycle

The program counter follows the daily run through `_main`: begin, settle / void
/ supersede, prepare, write the account snapshot, reconcile or rebase, seal,
deadline, supersede older, export, end, and the four steps of putting back. The
clock ticks and the world acts between any two. A run without a data stage
(`--skip-data`, `--resume`) starts at the deadline check with the files that are
there. Every stage may fail; `Crash` forgets the run and frees the run lock,
as the operating system does with `flock`.

Left out: an `OSError` of a single move inside `refuse_late_decision` or
`supersede_decision_runs`; the fallback D-Plan, which never replaces the main
file of a decision; the content of decisions and plans; `--skip-datapack`.
The decision chain is only its outcome: a sealed decision, or a failure.

### AgentStage

The research stage: bull and bear researchers answer for each batch of symbols,
one task each, in a pool of threads. A task goes through queued, call, agent,
(sleep,) save to done or failed; the waiting thread wakes at the first failure
or the last success, sets abort, cancels what is queued, joins the pool and
closes the stage. Between any two of these steps another thread may go on, and
the process may die. A raw output is the version of the inputs it is valid for,
or unusable, so that "still passes the validator" is an equality and a file torn
by a full disk is one more unusable output.

An executor that cannot forbid reading is kept honest by `staging`: outputs stay
in `memory` until all tasks are done and are then written in the order of their
names. `Begin` models a run that resumes, with either kind of executor, whatever
the directory holds.

Left out: the briefs, what later stages leave in the directory (it only makes
the refusal stricter), the check for leaked secrets (one more refusal), a run
that is told not to resume, and what an enforcing executor forbids, which is a
matter of its permissions. Assumed for the clock: what a thread does by itself
takes no time; agents and the wait before a retry do.

### StrategyTrial

Each command of `cli/strategy_reflection.py` is a process with a program counter
and what it remembers: `auto` reflects and may apply, `apply-pending` settles the
open trial and applies what waits, `apply` and the two rollbacks are a human's.
One step is one write (of the history, of a live file, of the switch), or a
decision on what was read; between two of them another command may go on or the
process may be killed. The lock of the daily run is taken where the code takes
it, for the last write only, and never waited for.

The history file is kept as what its readers compute from it: the stack of
changes not undone (an undo takes the top, whatever id it names, as `open_trial`
and `rollback` do), every application in order (cool-down, "applied before",
"applied today"), the final results, the extensions and the reverts in a row. A
version of a live file is the change it came from; an edit by hand is a version
nobody sealed.

What the code computes from market data is an unknown outcome: whether there is a
proposal, whether the replay shows a gain, how a trial did. So a trial with
enough days may be kept, extended once or reverted, and one whose days cannot be
compared may stay pending until it times out.

Left out: the weekly report and the verdicts on theses, `needs_human` entries
(nobody reads them), `enabled` (off: no command does anything), the sample gate,
and more than one knob in a proposal. Bounds: a command ends on the day it began,
and nobody edits a live file in the middle of a write.

### DecisionDelivery

One attempt at a time, under the lock of the daily run, but in any order of the
runs: a new run, a run resumed under its own name and time of start, a redelivery
of an older one, a diagnosis of a day without calendar. An attempt seals its
decision or fails, builds a report or a diagnosis, and goes through
`save_delivery` write by write: store, copy to read, dated copy, `latest.json`,
`latest.md`. Any write may fail, and the attempt may be killed before any.

A delivery is addressed by its content. A report is a function of the decision it
tells of, a diagnosis of its run and message, so equal records are equal delivery
ids and storing one that is there is no change, as in `ImmutableRunStore.save`.
`told` and `good` remember, for the properties only, which runs delivered and
which of their reports was not found blocked since.

Left out: the index of the old format without `delivery_id`, damage to stored
files from outside, a run that was rolled back (the code does not resume it; the
model may, which only adds behaviours), and what makes a report fail to rebuild.

### MarketData

A collection is a process that downloads and later stores; between the two others
store, the list of instruments is edited, the list is validated
(`scripts/probe_data_sources.py`, in three steps that may end with a kill), or a
Snapshot is built, statement by statement, for its queries run outside a
transaction. Storing is one transaction (`MarketDataDatabase.connect`), so it is
one action with all it changes, and refused as a whole when one row is.

Time is the number of stamps taken. That is all the code compares: a stamp with
another one, with a cutoff, and with the times a day closes and is final, which
are given as the last stamp before them. What a source answers is arbitrary; of a
day that is not final yet, Yahoo answers `Interim`. Rows of one answer carry one
stamp and, for a day, one content.

`heard`, `inOrder`, `quiet` and `moved` remember, for the properties only, what
was answered, whether it was stored in order, whether something with a stamp
before the cutoff was still on its way when a Snapshot was begun, and whether the
instruments changed while it was built.

Left out: the throttle of requests and its retries, the months of a collection of
history after the first one (each is a transaction of its own and stands for a
collection here), rows that are dropped for reasons of their own (days without
trade), the rebasing of series after a change of Yahoo's basis and the check of
official gaps in the history (`_basis_factor`), migrations, and the content of
documents, of which one stands for all.

### Allocation and DecisionReview

`Allocation` is the engine as operators: what exits and trims free, what a
defensive day sells beside, which stock is swapped out, who gets a slot, how the
slots share the budget, and the fits to the cash, the weight of each stock, the
weight of each sector and the turnover, in the order of `AllocationOrderEngine`.
`WithKept` and `Propose` are its two outer loops: exits are kept back until
there are stocks enough, little enough cash and turnover, and candidates are
dropped until the portfolio is far enough from every benchmark; each time all is
computed again. Loops over stocks are folds by ascending key (`InOrder`), loops that
cut until nothing is left to cut go from a value to the next (`Repeat`), and both
outer loops are recursive functions of what is kept back or dropped so far. `DecisionReview` is the loop around it: an action runs the engine
on the limits the reviews left, the guard refuses or lets pass, the risk agent,
whose answer is arbitrary among the valid ones, approves, rejects, does not answer
or revises by two actions, applied one after the other as `revision_effects` does.

What is assumed of the constants has a name. `AllocationAssumption`: the universe is
finite, prices are positive, ATRs and rankings all different. `PolicyAssumption`: the
numbers of the policy are natural, rates that are shares are at most 100 %, there are
no more stocks demanded than allowed, the headroom of a stock that is bought is no
larger than that of one that is not, and a lot sold pays for its fees and
tax. `ReviewAssumption`: what a day holds are numbers of lots and money, and what has
no known status is not known to be tradable.

The gates of `config/decision_policy.json` are taken as they are set; behaviour
kept only to replay older decisions is left out, and so is the cash floor for high
convictions, which is off. Money is whole, targets are in hundredths of it and
rounded down, rates are whole percents, ATRs and rankings are all different. The
fill rate of the policy is 1, so the stressed scenario fills every lot; the
rounding of part fills is modelled, and not reached.

Left out: the analysts, the debate and what turns them into intents, the records
an engine writes to explain itself, rebuilding a proposal to validate it, errors
of missing prices and of odd lots, and the cut of a portfolio to its fifteen
largest stocks for the active share (the instance has fewer).

Of the guard's checks of the statuses, a stock whose status is "unknown" (coverage
that is incomplete or missing, or statuses that conflict, trading_status.py:367-416)
is modelled: the engine gives it no new order, like any stock that is not allowed
(`blocked`), and the guard refuses the decision whatever was fitted
(`StatusesKnown`, risk.py:324-335). What cannot fail in the pipeline is left out:
`UNIVERSE`, since what is held is in the universe (input_validator.py:471) and what
is bought is chosen from it; `TRADABILITY_AVAILABLE` and a status that is missing
altogether, since the pipeline always reads a status package (daily_pipeline.py:94)
and the assessment has an entry for each stock that was asked for
(trading_status.py:355); `SECTOR_CLASSIFICATION`, since a policy that does not
cover the universe is not built (policy_builder.py:43); and the tradability of each
scenario, which repeats `TRADABLE` for what is bought.

## 3. Runs

| run | question | instance | result |
| --- | --- | --- | --- |
| `repository` | do two writers with every failure keep the account whole | 4 run ids, a pipeline that saves and publishes, a second writer that saves and rolls back | holds, about 540,000 states |
| `ledger` | is any money made, lost or counted twice | 2 symbols, 2 days, orders of up to 2 lots | holds |
| `ledger_dividend` | and with a dividend of half a coin | the same | **violated**: finding 1 |
| `lifecycle` | what survives kills, and what holds between runs that end by themselves | 3 runs, 2 sessions, kills, cancellation, with and without rebase and data stage | holds, about 3,260,000 states |
| `lifecycle_skip` | does the main file agree with the ledger after `--skip-data` | without rebase | **violated**: finding 2 |
| `agent_stage` | are the sides kept apart across runs that fail, die and resume, do retries fit the deadline, does a stage end | 1 bull batch and 1 bear batch, 2 threads, 2 answers, 2 runs, 1 retry, a deadline of 3 | holds, about 224,000 states |
| `trial` | is one change on trial, on record, and over in the end | 2 commands, 2 changes of knobs or lessons, 1 kill, edit or overlap | holds, about 360,000 states |
| `delivery` | what does latest tell of, whatever order runs deliver in | 2 runs, 3 attempts, 2 faults, 2 messages | holds, about 3,290,000 states |
| `delivery_resumed` | is the report of a resumed run published | 1 run, 2 attempts, 1 fault | **violated**: finding 3 |
| `market` | is what a Snapshot read there for ever, and is a usable one whole | 2 symbols, 2 days, 3 stamps, up to 3 collections, 2 editions of the list, 1 Snapshot | holds, about 1,595,000 states |
| `review` | do orders and reviews keep what they promise | 640 days of 4 accounts, 5 stocks, 2 benchmarks, up to 2 revisions | holds, about 21,000 states |
| `review_blocked` | does a stock that cannot be traded get an order | the same | **violated**: finding 4 |

### What the properties say

*Repository.* `OneWriter`: the lock excludes. `ChainWalkable`: latest names a run
that is there, and from it parent run ids lead to genesis through the very states
that were hashed. `LiveRunsStay`:
no step rewrites a sealed run or removes one latest reaches.
`PublishAllOrNothing`: two runs, the output and latest go together unless the
undo itself failed. `ImplementsChain`: refinement of `AccountChain`.

*Ledger.* `StateLoads`: the receivables add up to the unsettled cash of every
saved state. `NeverRaises`: the ledger can book whatever the simulator filled.
`RemainingAgrees`: both have the same buying power left, though each counted it
for itself. `WholeOrNothing`: a voided batch leaves no fill, one that is not
voided cuts no order for lack of money. `FeesAreTheOnlyCost`: a session changes the worth of the
account by fees and taxes and nothing else.

*Lifecycle.* `SettledStays`: a decision the ledger has settled is in the store,
and neither in the archive nor among the voided. `OneClosePerSession`: no session is settled twice.
`OneDecision`: no account snapshot has two decisions, at which every later run
would refuse. `NoHindsight`: nothing in the store was finished after its
deadline. `PlanStandsWithData`: the D-Plan main file of a session is the plan of
the decision the ledger will settle for it, as long as every run had a data
stage; `PlanStands` is the same without this condition. `ImplementsChain`: the
account only moves along the abstract line.

*Agent stage.* `Isolation`: while a researcher runs that could read everything,
no output of the other side is on the disk. `AllOrNothing`: a staged stage that
failed in a task left the directory as it was. `DoneIsKept`: what a finished
stage hands on is on the disk and valid for its inputs. `RawsKept`: a raw output
is never written over. `RetryFits`: a retry no longer than the call it repeats
ends before the deadline. `StageEnds`: a stage that was begun ends.

*Trial.* `OneTrial`: never two changes on trial, also when commands overlap.
`LiveIsRecorded`: what is live can be judged and taken back, wherever a command
was killed. `SettledMeansOver`: who goes on to apply finds no trial open.
`OffMeansOff`: with the automatic mode off nothing is applied but what a human
asked for. `TrialEnds`: a trial that is old enough ends, though it cannot be
judged, its judge was killed or its file was edited.

*Delivery.* `Backed`: what latest tells of can be read. `ShowsResult`: latest
tells of the newest run that delivered, and of its report rather than of a later
diagnosis. `Repaired`: after a publication both files agree, also when an earlier
one was killed between them. `NeverBack`: neither file goes back to an older run.
`ResumedIsDelivered`: the report of a resumed run is not refused.

*Market.* `ReadsTheSame`: reading again at the cutoff of a Snapshot, whatever was
stored since, gives the prices and the document it holds. `UsableIsWhole`: a
usable Snapshot has a price of one day of every member of the universe that was
validated last. `NewestWins`: the newest version is the newest answer, though an
older one may come late or a newer one repeat an older content.
`CollectKeepsUniverse`: collecting with the list in force does not make the
universe differ from the one that was validated.

*Decision.* `WithinReviews`: what the reviews left of the limits is kept, though
the guard knows only the policy and orders are cut further after they were fitted.
`GapIsPayable`: at the open, all that is bought can cost the reserve more and the
floor still stays, so the account does not void the batch. `RefusedOnlyWhenStuck`:
the guard refuses what the engine fitted only where nothing is left to keep back,
for the active share, for a blocked stock that is sold, or for a stock of the universe
whose status is not known. `SwapHasSlot`: a stock is swapped out
only for one that gets its slot. `OnlyTighter`: revisions loosen nothing, and what
a review took out is not bought again. `BlockedNeverTraded`: a stock that cannot
be traded gets no order.

The type invariants of the repository, the lifecycle, the agent stage, the trial and
the delivery are proved (section 5) and in no run; of the market data and the ledger the
proofs use the parts they need (`TablesFit`, `Books`). The other modules state none: what their values may be is said where
they are declared.

Each has a mutant in the modules (operators whose comment begins with
`Mutant:`), a small change of the code's logic under which TLC finds the
property violated in the same run.

### Bounds, and why they are enough

*Repository*: genesis and three more run ids let one writer publish a pair while
the other saves or rolls back, then reuse what was rolled back; every check of
the code compares at most a run, its parent and its grandparent. The run ids a
and b of one writer are interchangeable, and all properties of that run are
safety properties, so `SwapAB` is a sound symmetry. The theorems of section 5
need no bound.

*Ledger*: two symbols are the least with a sale before a purchase in one batch;
two days with payment lags of 0 to 2 let receivables fall due before, on and
after a session; two prices, a volume cap, an untradable quote, a split that
leaves an odd lot and commission below and at its minimum reach every branch.

*Lifecycle*: a superseding involves a decision, the run that replaces it and the
run that settles; three runs are the least for which all three differ. The
deadline of session s passes at 3s - 1 and its market closes at 3s, so the clock
covers a whole session and what follows its close. One session may be cancelled. The rebase is off in `lifecycle_skip` only to keep the
counterexample to the point.

*Agent stage*: one batch on either side is the least for which there are two sides
and for which a part of the outputs can be there; on two threads both run, or one
sleeps before a retry while the other fails. Two runs: one leaves a directory, the
other finds it. A deadline of 3 lets the first call take so long that a retry
fits, and just fits not.

*Trial*: two changes are the least of which one can be on trial when the other is
about to be; they may be of one kind or of two, and one is of a risky knob. All
waiting times are one day, so a trial is too young, ripe and overdue within the
bound; with a longer clock the same steps come later. `MaxFaults` counts kills,
edits and overlaps together: one is enough for each property to meet its hazard,
and the theorems need no bound.

*Delivery*: two runs and three attempts let an older run be resumed or delivered
again after a newer one has published, and a run deliver twice; two messages
tell a repeated diagnosis from another one. The instance with four attempts and
one fault (6.9 million states) shows the same; the theorems need no bound.

*Market*: two symbols are the least of which one can be missing from an answer or
from a later edition of the list. Day 1 is final from the first stamp on, day 2
closes after the first and is final after the second, so every stamp may fall
before, between or after. Three stamps and three collections are the least for an
answer that is stored late behind one that repeated an older content. `Mixes` says
which collectors run together: those of prices among themselves, those of
documents, and each with the other once, since they meet only in the table of
instruments. Jobs and contents are interchangeable, and the properties are safety
properties, so `Alike` is a sound symmetry.

*Review*: the four accounts have all slots taken, one free, all taken with hardly
any cash, and half of them free; with the four situations (a calm day, a day with
a stock that cannot be traded, one in its cooling period and one whose thesis
broke, a defensive day, a day with a stock whose status is not known) and two tables
of convictions, everything the engine does happens: of the 480 days of the first
three situations exits are kept back on 87, on 13 of them more than one,
a candidate is dropped on 55, a defensive day sells on 35, two stocks are bought on
31, a fit changes orders on 234, and one day swaps a stock out. The code allows three
revisions; two let a review meet the limits an earlier one left. A limit a review
may name is one that binds, the least allowed one, or the limit in force.

Deadlock is not checked where a review has ended, and where the days, runs, attempts or the clock run out, which
ends the behaviour in the model and not in the program. In the repository's run a
state without a successor is possible too: all run ids are used up.

### Fairness

Failures are not fair, and calls are not: nothing has to begin. `StageEnds` assumes that threads go on, that the
waiting thread does, and that an agent answers or fails, for every executor runs
its agent under a time limit; that a call fails is never assumed. `TrialEnds`
assumes that a command that was begun goes on, that `apply-pending` is begun
again and again (the schedule starts it every Saturday), and that its revert is
not for ever kept off by the lock or by the hours before a decision, strong
fairness since both come and go. That a trial is ever judged better or worse is
not assumed, nor that a file is intact. The
repository, the lifecycle, the delivery and the market have no liveness property:
whether a next run is started is up to schedules and people, and the repository's
operations run straight through without a wait (the lock is tried once).

### Why some properties speak of histories without a kill

`OneDecision`, `NoHindsight` and `PlanStandsWithData` are about what a run leaves
when it ends. A killed run leaves its work where it was: what it set aside is
only in its memory, and a late decision or two on one account snapshot stay.
Neither the code nor the documents claim a recovery from that (they describe a
*failed* redo), so these hazards carry a note and the properties say `~killed`, a
variable that is set by the first kill. `SettledStays`, `OneClosePerSession` and
`ImplementsChain` hold with kills: whatever is left, the account is not corrupted
by it. `PlanStandsWithData` and `NoHindsight` excuse runs that ended with
`rollback_error`, which ask for a human (`byHand`).

`LiveIsRecorded`, `SettledMeansOver` and `OffMeansOff` say `overlaps = 0` for a
similar reason: `settle_open_trial` picks its trial and `apply_pending` reads the
switch without a lock, so that two commands at once, or a human between two steps
of one, make each act on what it read. Kills and edits between commands are in.

## 4. Findings

1. **A dividend can make an account unusable.** `apply_actions` adds the exact
   product to the receivables, `snapshot` rounds the cash, and the next load
   insists that both agree (service.py:703). Needs a dividend that times the
   shares is not a whole number of the smallest money unit, given to
   `cli/virtual_account.py prepare-day`.
2. **`--skip-data` replaces a decision without a way back.** The pending
   decision is remembered only with a data stage (run_daily_pipeline.py:1048),
   but every run supersedes an older decision on its account snapshot. If its
   own D-Plan is then blocked, the main file is the old plan, the ledger settles
   the new decision, and nothing is put back, unlike what
   `virtual_account/README.md:47` and `docs/operations.md:97` say.
3. **The report of a resumed run is refused.** A run whose decision was rejected
   may be resumed "once the rules are mended" (run_daily_pipeline.py:481). Once
   the rejected decision was moved away, the run seals another one under the same
   id, but its delivery has the started_at of the first report, another id, and
   both are ready: `publish` raises (repository.py:157), the run ends as failed,
   and no D-Plan is exported for a decision that is sealed and approved.
4. **A blocked stock that outgrew its limit spoils the decision.** All steps of the
   engine leave out what cannot be traded except the fit to the weight of each stock
   (allocation.py:1172): it makes a sale of what was no order, and the guard
   (risk.py:361) rejects the whole decision for it, whatever was decided that day.
   `decision/README.md:95` says such a stock gets no order, and the code that
   holding one must not reject a decision (risk.py:340-341). Already a weight
   between 99.5% and 100% of the limit, which the guard would let be kept, is enough.

## 5. Proofs

### VirtualAccountRepository

`VirtualAccountRepositoryProofs` proves, for any number of writers, run ids and
contents:

- `TypeCorrect`, `MutualExclusion`: from the assumptions on the constants alone;
- with `Stamped` (two run ids never carry the same content, two writers never
  choose the same id; both follow from the time stamp in a run id and are not
  enforced by the repository): `LatestAlwaysVerified`, `ChainAlwaysWalkable`,
  `LiveRunsAlwaysStay` and `RepositoryImplementsChain`, the refinement of
  `AccountChain`;
- with `Stamped` and `SinglePublisher` (publications are made by the daily run,
  which holds the lock of the daily run): `PublicationsAreWhole`.

Neither assumption is idle. The checks of `publish_staged_chain` are inside its
`try`, so a publication that is refused runs the undo of one that failed; if latest
has moved on to a run of the id it wanted to publish, latest is reset
(service.py:202-205) although nothing of its own was published. Two writers would
have to choose one run id. And with two publishers the account output, which is
read before the lock is taken, may be put back to what another publication had
written and then took back itself: TLC finds a publication that is undone and
leaves the output naming a run that is not there, in 35 states.

The argument. The wanted facts are not inductive: that latest exists after a
rollback depends on what the writer remembers of the disk since it took the
lock. `IInv` adds, and needs, each of these:

- `AtWork`, a writer at work has a run: `TypeOK` is not inductive without it;
- `OneWriter`: nobody else moves what the lock holder has checked;
- `RunsSealed`: every sealed state carries a content of its run id, and every
  entry of a history names the run of the entry before it. This ties the two
  parent links together: equal hashes then mean equal run ids, which is how
  `ChainWalkable` survives a save that only compares hashes;
- `JobSound`: the same for states that are computed but not yet saved, and that
  they are of the writer's own run ids;
- `Fresh`: the runs of a publication that has moved none are not there. Staging
  looked before the lock; it stays true because no other writer uses these ids;
- `Holding`: what the holder knows at each label, e.g. that after the first
  rename latest is still the base, and that the moved runs are exactly the
  staged histories, so undoing them in any order of faults cannot touch the
  chain.

Each action is one step of the proof under its own lemma; the temporal theorems
combine `InitInvariant`, `StepInvariant` and `StepRuns`.

`PublishAllOrNothing` needs a second invariant on top, `PublishInv`, for the output
is no part of what is sealed: from the moment the old output is read until the undo
is past it, the output is the old one or, after the third step, the new one. With
what `Holding` and `Fresh` say of the runs this tells, at each step of an undo, what
is still to be taken back (`MovedBeyondLatest`: what was moved lies beyond latest,
so resetting latest does nothing and `restored` is true whenever a run was moved).

### AccountLedger

`AccountLedgerProofs` proves every property of the run `ledger` for any number of
symbols, days and lots, any prices, quotes, volume caps, fees, splits, payment lags
and reports, with and without the reuse of proceeds and void batches: `AlwaysLoads`,
`AlwaysBooks`, `BothAgree`, `AllOrNone` and `CostsAreFees`. The hypotheses are
`LedgerAssumption` and `WholeDividends`: a lot pays its dividend in whole coins.
Without the latter the first theorem is false, which is finding 1.

The operations are folds, and no library theorem about folds can be used here.
`CountingUp` replaces the induction: a set that holds 0 and with each number the next
holds all of them, for the least one it misses would have none before it. From it
`FoldExists` gets the sequence of values a fold goes through, and `FoldLoops` says that
a set that every round stays in is one the result is in; the step is a function handed
over as a value. With these each loop of the code is reasoned about as one does with a
loop, by what it keeps after k rounds.

The invariant `IInv` adds to the four invariants

- `Books`: cash and receivables are whole coins (`Money`), so that rounding the cash
  when a state is published changes nothing. `StateLoads` is not inductive without it;
- `Solvent`: the account has cash, receivables or a position. A save of an account that
  is worth nothing raises, so `NeverRaises` needs it; that fees cannot use up
  the last of it is what the assumption on the sale of one lot is for.

The heart is an agreement of two loops, order by order. The simulator goes through the
orders and counts an available amount; the ledger goes through the fills and moves
settled cash, receivables and positions. `Executed` says of the simulator's loop that
its fills form a chain (`Covered`): a running amount that starts at the buying power,
moves by each fill's effect, pays for each purchase and ends at what is available; and
that no fill sells more than was held, each symbol at most once (`Bookable`).
`FillsBooked` then follows the ledger along that same chain: its buying power
is the chain's amount after every fill, so it is never overdrawn, and the receivables a
purchase uses up are there, since they add up to the unsettled cash. Along the
way its worth falls by the fees of the fill (`ValueChange` for the position), which
gives `CostsAreFees`.

### DecisionLifecycle

`DecisionLifecycleProofs` proves every property of the run `lifecycle`, for any number
of daily runs and sessions and any length of the clock, with kills at every step, with and without data stage
and rebase, from `LifecycleAssumption` alone. The invariants come in layers; each
uses ones before it.

- `Ledger`: a decision is in one of its three places (`Places`); an account run
  prepared one state (`Line`), and one that is still to come prepared none
  (`PreparedKnown`); a close follows the very state its decision was made on, for
  its session (`Linked`). So a decision can only be set aside while its state is
  the last one, and what is settled is not: `SettledDecisionsStay`. The same gives
  `LifecycleIsChain`: what putting back takes off is the newest state, never genesis.
- `Memory`: what the run remembers of the decision it found waiting. Hours pass
  between remembering and putting back, in which the run prepares states, may
  rebase, seals a decision of its own and sets older ones aside; still the decision
  was made on the account run it says, is where the run put it, and is the only
  one in the store that was made there.
- `Order`: the sessions of the closes come before that of any decision that was
  made on a later state. A run that skips the data stage decides on a state that may
  be long past, so this cannot be read off the chain; it holds since a session is
  only taken while its deadline is to come, and one that is settled is over.
  `SessionsCloseOnce` follows.
- `Promises`: no account snapshot has two decisions and none in the store is late,
  but for the decision that the run under way has just sealed and is about to judge
  (`DecisionsAreOne`, `NoDecisionIsLate`).
- `Plans`: the plan of a session not called off is of a decision that stands, being
  settled or waiting at the end of the line, or that was set aside (`Aside`). Then
  the run will decide for that very session, because no session before it can
  still be decided for (`FirstSession`), also from the Snapshot it began with
  (`CutoffPassed`); so it writes the plan anew or puts the decision back.
  `PlanStandsAlways` is what is left of it between runs.

### AgentStage

`AgentStageProofs` proves every safety and action property of the run
`agent_stage`, for any number of tasks on either side, threads, attempts, retries,
runs in one directory and versions of the inputs, with kills and torn files:
`SidesAreIsolated`, `FailedStageLeavesNothing`, `DoneStageIsKept`, `RetriesFit` and
`RawsStay`. `StageInv` is the conjunction of

- `Remembered` and `WaitOver`: outputs are in memory only while a stage holds them
  back, and the waiting thread leaves its wait only for a failure or when all is
  done, which stays so;
- `Staged`: under staging either no task found an output in the directory, and
  all that is made is in memory, or every task found one and no agent is called.
  This is what the refusal to resume a half-done stage is for;
- `Numbered`: the outputs of a task have the numbers from 1 on without a gap,
  wherever they are. The code takes the count of files for the last number that was
  used; with a gap the next output would be written over an older one;
- `Answered`, `AllOrNothing`, and `InTime`: a retry that was allowed starts at the
  moment its wait ends, so the time that was left for it still is.

### StrategyTrial

`StrategyTrialProofs` proves, for any number of commands, changes, days and
faults, with overlaps and kills: `TrialTypes`, `TrialIsOne` (never two changes on
trial) and `LockExcludes`. `OneTrial` is not inductive: that nothing is on trial
is looked at when the lock is taken and used when the application is logged.
`LogClear` bridges the two, and holds because only who holds the lock adds to
what is on trial (`LockHeld`); an undo or a result only takes away, which is a
lemma for each of the two. `TypeOK` needs to know that what waits, was applied or
is in hand was sealed (`KnownFiles`, `KnownJobs`), for its kind is read from
there.

For commands that do not overlap it proves also `LiveChangesAreRecorded`,
`SettledTrialsAreOver` and `OffAppliesNothing`. None of them is inductive. `SoloInv`
says of the history that what an application replaced was applied below it and is
not undone (`Chained`), so that going back to it leaves something that is on record;
that what is live is on the stack (`Recorded`); and that only the newest application
of a kind can be on trial (`NewestOnly`), so that the undo, which takes the top
whatever id it names, takes the change that was judged. Of the command under way it
says what it knows at each step: after the history is written and before the live
file is, the application is on top (`Written`); the trial it judges is the one that
is open and the top of its stack, and where it applies none is (`Judged`); the switch
is as it remembers it (`Switched`), also after its own revert has turned it off. A
kill ends the command at any step and keeps all of it.

### DecisionDelivery

`DecisionDeliveryProofs` proves, for any number of runs, attempts and faults:
`DeliveryTypes`, `LatestIsBacked`, `LatestShowsResult`, `LatestIsRepaired` and
`LatestNeverBack`. The invariant adds what an attempt knows at each step: which
kind of delivery it carries, that it is stored and laid out before it is
published, that a run that has delivered has started, and that `latest.md` is
never newer than `latest.json`; `NeverBack` for `latest.md` rests on the last.

### MarketData

`MarketDataProofs` proves the four properties of the run `market` for any finite
set of symbols and days, any editions of the list, any answers of the sources and
any number of collectors, snapshots and stamps: `SnapshotReadsTheSame`,
`UsableSnapshotsAreWhole`, `NewestAlwaysWins` and `CollectingKeepsUniverse`. The
assumptions are those of `MarketAssumption`; what is closed and final when may be
any table.

The argument rests on stamps. `StepEnters`: what a step adds to the store bears
a stamp of the future, or that of a response which was on its way. A cutoff that is
quiet (`Past`) is earlier than both, so nothing added changes what is visible at it,
and the choice of the best row among the visible ones with it. The rest of the
invariants says

- for `UsableIsWhole`, that the snapshot under way has the universe in force or
  knows that it was moved, that its check is the newest one at its cutoff
  (`BuildWhole`), and that validations name editions of the list (`ChecksFit`).
  There are then as many rows as members only if there is a row of each: a
  counting argument over finite sets (`RowsWhole`), for which the best row of a
  symbol has to exist (`BestIsRow`, from the well-foundedness of the naturals);
- for `NewestWins`, that no two responses bear the same stamp (`StampsDiffer`),
  and that a response says one thing of a price (`OneEach`). Without the first a
  document of the same stamp but another content would be lost.

### DecisionReview

`DecisionReviewProofs` proves of the engine and the reviews, for any universe,
prices, policy, benchmarks, days and number of revisions: `GapStaysPayable`,
`ReviewsAreKept`, `ReviewsTighten` and, if no day starts with more stocks than there
may be (`HoldingsFit`), `SwapsHaveSlots` and `PositionsStayFew`. The other hypotheses are the three
assumptions named in section 2.

*Loops.* The engine is loops inside loops, and the functions that model them are
defined by CHOOSE: nothing can be said of one before it is known to exist. `LoopExists`
shows it for a loop with a measure that falls, `SetFoldExists` for a fold over a
finite set; `LoopKeeps`, `Repeats` and `SetFoldGoes` then say that the result is in
every set that each turn stays in. The measure of the fits is the number of lots that
would be held (`Left`), that of the outer loops the stocks that are not yet kept
back or dropped.

*Money.* `ImpactOfBuy`, `ImpactOfSale`, `FewerCostsLess`: with slippage rounded half
up, fees rounded up and a minimum commission, fewer lots bought never cost more, and
more lots sold never bring less. Sums over stocks are folds too (`SumChanged`,
`SumLess`, `SumAdds`).

*What survives a cut.* The orders are fitted to the cash first and cut three times
after it. `Sound` orders pay for themselves with the reserve and buy no more than
is wanted: `CutIsSound`, a cut of any order leaves them so, be it a smaller purchase or
one lot more sold. `Light` orders put no stock above its limit in any scenario:
`CutIsLight`, a smaller purchase leaves them so. This is the harder one, for less
bought means another NAV in each scenario and with it other limits for all stocks.
It holds because what is not bought stays as cash at its full price, while the
scenario may value it less, so the NAV does not fall (`NavGrows`); and because the
headroom of a stock that is bought is the smaller one, so that its limit does not
fall when it is no longer bought (`LimitGrows`).

*The computation.* `LowTargets`: before funding, no stock is to have more lots
than it has; so what is bought was given a slot (`TargetsAre`), and slots are given
to candidates alone (`EligibleAre`), which a stock that a review took out never is.
`ComputeIs` puts it together as `Fitted`; `WithKeptIs` and `ProposeIs` carry it through
both outer loops and add that no exit is left to keep back.

*Slots.* The swaps are counted before the stocks are out, the slots afterwards, by
another method. `VictimsAre`: no more are swapped out than the limit of swaps
leaves, and no more than highs wait. `HighsGetSlots` follows the slots as they are
given: at each turn enough new stocks have one, or every high so far has. Both
depend on no order of the ranks. Without `HoldingsFit` it is false: above the limit of
stocks the place of what was swapped out is no slot, and the code sells it for nothing.
`PositionsStayFew` is why days meet it: `SlotsFit` counts what is left and what gets a
slot, and a fitted order never leaves more lots of a stock than its target (`FitIs`).
So a proposal ends with no more stocks than there may be, and the next day starts so
once its orders are filled; a sale that is not filled is what the hypothesis excludes.

`ReviewInv` says that a proposal under review is `Fitted` to the limits and the
excluded stocks in force; a revision sets the proposal aside together with them.

### Only model-checked

`StageEnds` and `TrialEnds`, since liveness under fairness is out of the prover's
reach. `RefusedOnlyWhenStuck`, for it does not hold of all numbers: that the guard finds
the cash and the power not negative after prices fell and slippage doubled needs a
reserve that is larger than the slippage, rounding included; that there are not too
many stocks needs `HoldingsFit`; that no sector is above
its limit needs that a sector can be lowered by what is bought in it. The numbers of
the policy give these and the run checks it for them; conditions on the constants
that say just this would say little less than the property.

## 6. What is not modelled, and why

Of a decision, the analysts' scores, the debate and the intents that come of it,
the validators of inputs and the rebuilding of what was sealed are pure functions
of large records: what one calls correct there is what the code computes, and a
second writing in TLA+ would state nothing. Only the outcome of the decision chain
is in `DecisionLifecycle`. The fallback D-Plan writes a candidate beside the main
file and never replaces the plan of a decision. Of a trial, the brief, the replays
and the statistics are an unknown outcome.

Of the data, parsing is left out, and so is the throttle of requests: it delays
requests and refuses them, and what is not answered is not stored. Perception and
fundamentals collect and compute; reports and views (reporting, dashboard,
benchmark), observers (calibration, evaluation) and the stand-alone studies
(research) share no changing state with the account. Agents are unknown functions.
Command lines matter only as further writers of the account, the history of the
strategy and the market data.

Hazards that no property covers, beyond those noted in `PROJECT.json`: a crash in
the first save leaves a directory without `latest.json`, which
`ensure_initialized` refuses for ever (service.py:413; the guard of `Initialize`
leaves this check out); nothing looks at the clock after a decision was accepted,
so that export may end after the deadline (competition/service.py:260; no doc
binds it); the switch of the automatic mode may be missed by a kill
(strategy_reflection/service.py:692); interim prices may be stored as final, since
Yahoo's history is stamped when it is stored and not when it was downloaded
(yfinance_history.py:377, unlike `docs/data_sources_inventory.md:48`; `MarketData`
has the late stamp and claims nothing about it); a run that is resumed after a newer
one supersedes the newer decision (virtual_account/daily.py:154).

Of the orders: a stock that was swapped in may be cut away for cash or turnover, so
that one was sold for nothing; two raises of the cash buffer in one review, the
larger first, make the chain fail (risk.py:786, modelled, and no doc says it
should not); the fit to the sectors stops when nothing is bought in the worst one
(allocation.py:1258), which is enough only while two sectors cannot both be above
a limit of more than half; sales alone may exceed a turnover a review tightened, for
the guard checks the policy's; the active share is mended in the first scenario
only and checked in all three.

## 7. Plan

In order of importance.

1. `AccountChain`, `VirtualAccountRepository`, proofs. *Done.*
2. `AccountLedger`. *Done.*
3. `DecisionLifecycle`. *Done.*
4. `AgentStage`. *Done.*
5. `StrategyTrial`, proofs. *Done.*
6. `DecisionDelivery`, proofs. *Done.*
7. `MarketData`, proofs. *Done.*
8. `Allocation`, `DecisionReview`. *Done.*
9. Proofs about `DecisionLifecycle`, `AgentStage`, the commands of `StrategyTrial`
   that do not overlap, publications, the money of `AccountLedger`, and the engine
   and reviews of `DecisionReview`. *Done.*
10. The throttle of requests (`data/historical.py`), which threads share.
11. The order of the stages of a chain (`automation/daily_pipeline.py`).
12. The fallback D-Plan (`competition/fallback.py`) as a further step of the
    lifecycle.
13. An abstract specification of what a participant sees (one plan per session,
    settled or voided once) refined by the lifecycle.
