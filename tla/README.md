# Formal model of the trading bot

TLA+ modules for the parts of this repository whose correctness depends on
order, concurrency and failure: orders and their protection, the scheduled
cycle, the phone's actions, the files they share and the lock around them, the
advice that waits for an approval, the bar cache with its healer and watchdog,
discovery, the backtester, and the way from a sentence to an order. TLC checks
the modules on small instances; TLAPS proves the safety properties that matter
most for every value of the constants. Paths below are relative to the
repository root.

## 1. Inventory

The bot is a set of processes that meet in `state/*.json` and at the broker:

- **cron** starts `scripts/run_paper.py` (one `Orchestrator.run_cycle`, in
  execute, propose or shadow mode), `scripts/run_self_heal.py` every five
  minutes, `scripts/run_discovery.py` and `scripts/healthcheck.py`;
- **the listener**, `scripts/run_telegram.py`, is one long-lived single-threaded
  process; its `/buy`, approve, `/close`, `/flatten`, `/halt`, `/reset` go through
  `TradeService`, and its `/run` is a propose cycle of its own;
- **the operator** runs `run_paper --reset` and the repair scripts;
- **Alpaca** holds the truth: positions and orders change at any time.

| Component | State it keeps | Operations | Hard part | Correct when |
|---|---|---|---|---|
| OrderManager (`src/execution/order_manager.py`) | `ManagedPosition` | open, settle, recheck, attach, raise, refresh, close | calls that fail before or after they reached the broker; partial fills; retries across runs | an OPEN record has a real stop of the right size; never two stops; a stop never retreats |
| Reconciler (`execution/reconciler.py`) | none | reconcile | two separate reads of a moving broker | everything unexplained or exposed is a mismatch |
| Orchestrator (`core/orchestrator.py`) | `positions`, halt state | run_cycle, reset | what is saved and what is lost on each way out; per-symbol isolation; work outside the lock | exposure is never silent; modes keep their promises |
| TradeService (`core/trade_service.py`) | none of its own | phone actions | shares the files with the cycle | refuses when halted or tracked; drops a record only when the broker confirmed |
| StateStore, HaltStore (`core/state_store.py`) | `positions.json`, `halt.json` | load, save, set, clear | read-modify-write by several processes | no live record is lost, no halt is downgraded |
| bot_lock (`common/proclock.py`) | `state/.bot.lock` | acquire, time out | what is done before and after it | one holder, released on every way out |
| Self-healer (`core/self_heal.py`) | `self_heal.json` | attempt_resume | verifies unlocked, clears locked | clears only the transient halt it verified, within cap and cooldown |
| Risk gate (`risk/*.py`) | rate and error counters | evaluate, register | exposure that grows within a cycle; per-process counters | caps hold over every path to an order |
| Ratchet stops (`risk/ratchet_stop.py`) | extreme, stop | update, state | step arithmetic in floats | monotone, locks at least what it promises |
| Proposals (`core/proposals.py`, `common/record_store.py`) | `proposals.json` | add, purge, mark, approve | three unlocked writers, repeated and redelivered taps | a proposal becomes at most one order; a decision is lost only to an overlapping write |
| Rotation, weight advisor (`core/rotation.py`, `discovery/weight_advisor.py`) | proposals and applied state | propose, approve, deny, quarantine | a crash between two files; stale proposals | some strategy stays active; weights keep their total |
| Discovery (`discovery/`) | ledger | gather, score, propose | hanging and failing sources; overlapping passes | a pass ends; an idea is earned; no symbol is proposed twice |
| Market data (`data/`) | bar cache | ingest, drop the incomplete bar, batch | bars of unfinished sessions and later corrections; several fillers | the next fetch still reaches what is outdated |
| Watchdog (`core/watchdog.py`) | `watchdog.json` | assess, alert | absence of evidence; alerts that fail; deduplication | a missed cycle and a lasting halt are told |
| Symbol resolver (`core/symbols.py`) | asset cache and catalog | load, resolve | an outage when the file is old | a buy is offered of a listed symbol |
| Listener's front end (`scripts/run_telegram.py`, `agents/`) | buttons shown, catalog, breakers | voice, model turns, local patterns, dispatch | patterns that compete; a model that keeps asking | every message is done with |
| Strategies (`strategy/`) | none | regime, setup, gate, exit | setup and exit look at different bars | no entry its own exit would undo |
| Research (`research/backtester.py`, `walkforward.py`) | a run's positions and orders | fill, manage, enter, fold | bars with holes and early ends; edges of folds | folds do not leak; slots are kept |
| Repair scripts (`scripts/reattach_missing_stops.py`, `manual_order.py`) | none | reattach, order | run beside the bot, unlocked | protection is restored, nothing is doubled |
| Statistics, universe builders, secrets, logging, MCP servers, `congress_copy` | files of results | | I/O and numerics | see section 8 |

Interactions: calls from Orchestrator and TradeService to OrderManager,
Reconciler and the broker; shared files between processes; the lock; the
broker's own steps between any two calls. There are no callbacks between
processes.

## 2. Hazards

What a test of this code hardly reaches, with lines and the properties that
watch each, is in `PROJECT.json` under `hazards`. In short: state loaded or
checked before the lock and used under it; saves and halts after the lock was
released; ways out of a cycle that save and ways that do not; calls whose answer
is lost; retries of protection, and of an entry that is routed anew; fills after
protection was sized; a symbol's error isolated after its entry was bought; a flatten that half
succeeds; the two
reads of reconcile; caps over the entries of one cycle and over several paths,
and risk counted at a stop or a price that is not the one that rests; files
written without a lock by three processes; taps delivered twice; two files that
are saved one after the other; bars stored too early; alerts that fail; sources
that hang; patterns tried in order. Where no property covers a hazard, its note
says why.

## 3. Modules

| Module | What it is |
|---|---|
| `OrderLifecycle` | one symbol: records, broker, cycle, phone, crashes (lock holders one at a time) |
| `BotLock` | processes around `bot_lock`: cycles, listener, self-healer, unlocked steps |
| `Mutex` | what a lock promises; `BotLock` implements it |
| `RiskGate` | many symbols: sizing and caps over a cycle's entries, proposals, `/buy`, approvals |
| `Approvals` | `proposals.json` and its three writers, the update queue, from a tap to an order |
| `Advice` | rotation and weight proposals: made, applied, marked, replayed, quarantined |
| `DataGate` | the bar cache, the halt on stale data, the self-healer with its cap and counter |
| `Supervision` | `DataGate` with the watchdog beside it |
| `Scoring` | operators: what each source votes, and the score of the votes |
| `Discovery` | passes over sources on threads, ranking, proposals (uses `Scoring`) |
| `Signals` | operators: regime, setups, sentiment gate and exits over the comparisons on a bar |
| `Backtest` | the backtester's event loop, its ratchets and folds (uses `Signals`) |
| `Breakers` | operators: the rate limits and their lazy roll |
| `Phrases` | operators: the local patterns, from words to a command |
| `Phone` | a message's way to a command, the resolver, the buttons (uses `Breakers`, `Phrases`) |
| `MC*` | instances for TLC of the module they extend |
| `*_proofs` | inductive invariants and theorems, for `OrderLifecycle`, `BotLock`, `RiskGate`, `Advice` (and `Discovery`, in the same module), `Supervision`, `Backtest`, `Approvals`, `Phone` |

`OrderLifecycle` and `BotLock` are split along the lock. `OrderLifecycle` looks inside it:
one holder at a time, every broker call in detail. `BotLock` looks around it:
many processes, with the broker reduced to the life of an entry. Names of state
are shared (`pending`, `settle`, `Mismatch`, ...), so that one reads as the
detail of a step of the other. `RiskGate` computes the verdict that is a
nondeterministic refusal in both, `Approvals` and `Phone` what leads to a phone
action, `DataGate` why the healer of `BotLock` acts.

### OrderLifecycle

| Variable | Code |
|---|---|
| `entry[t]` | the broker's entry order with client_order_id `<symbol>-<strategy>-<tag>-entry`: `t` is a day and a strategy for a cycle's entry (`Days \X Strategies`), an element of `PhoneTags` for the phone's |
| `order[o]` | the broker's protective orders; `tag` stands for the `...-protect` id they descend from |
| `held` | the broker's share count |
| `pos`, `saved` | `positions[symbol]` in the running process, and in `positions.json` |
| `phase`, `mode` | the point `run_cycle` or a phone action has reached, and who runs |
| `snap` | what `Reconciler.reconcile` got from `list_positions` |
| `halted` | `halt.json` exists |
| `day` | `date.today()` |

A cycle is: `StartCycle`, `Settle` (`_settle_pending`) with `AttachProtection` or
`AttachRaises`, `Recheck`, `ListPositions` then `ReconcileOk`/`ReconcileHalts`,
`KillSwitch`, `RaiseStop`/`ShadowRatchet`/`NothingToRaise`,
`RefreshStop`/`NothingToRefresh`, `SignalExit`/`NoExit`, `Enter` (with a second
`Settle`)/`NoEntryNow`/`StaleDataHalts`, `Save`; any of them may end in `Raise`
(the exception handler: save and halt), in `HaltUnsaved` (`_halt` and `return`,
which saves nothing) or in `Crash`. `Isolated` is `register_error`: the cycle
goes on, or this error was one too many. A call that may fail has the outcomes:
done; refused or not reached; reached, with the answer lost.

Abstractions: one symbol; levels are ordinal and "greater" means more
protective, so one order covers long and short and rounding to cents is left
out; an OCO is one protective order; a CLOSED record and no record are the same
(`NoPos`), as every reader treats them; signals, data and the risk verdict are
nondeterministic; an entry quantity is `Qty`. So is the strategy an entry is routed to:
`regime_filter.py:32-58` classifies the newest bar at every cycle, and two cycles of a
day, on different bars, may route a symbol differently. The phone's ids hold a strategy
too (`manual` is one of its own); there one tag is one id. `PENDING_EXIT` is declared by the
code and never assigned.

### BotLock

| Variable | Code |
|---|---|
| `lock` | the holder of `state/.bot.lock` |
| `file`, `mem[p]` | the symbol's record, by its entry, in `positions.json` and in process `p` |
| `base[p]` | history: the record as `p` loaded it |
| `halt` | the class in `halt.json` |
| `st[e]` | the life of an entry at the broker |
| `pc[p]` | the point process `p` has reached; `Unlocked` ones are outside the `with` block |
| `heal`, `unchanged` | the self-healer; whether `halt.json` is the one it read (its comparison of reason, class and time stamp) |

The reconciler's verdict is split in what must and what may be found (`MustMismatch`,
`MayMismatch`): what changes between its two reads may look like a mismatch, and a
record that still reads pending passes, in a cycle that does not settle it, while any
order, or once shares are held any stop, of the symbol is there (`PendingPasses`).

`Construct` and `ReadHalt` come before `Acquire`, as in `Orchestrator.__init__`;
`Fault` releases the lock and only then come `FaultSave` and `FaultHalt`, as in
the handler of `run_cycle`; the phone loads under the lock; `run_paper --reset`
needs none. `Enter` may be called whenever the memory has no record, so an
entry into a symbol someone else has just bought is possible, as in the code.

### RiskGate

| Variable | Code |
|---|---|
| `rec[s]` | `positions[s]`: ordered and filled quantity, `ratchet.entry`, `ratchet.stop`, `current_stop`; `via` is history: whether it was opened at the price the gate saw |
| `prop[s]` | the pending proposal for `s`: `approved_qty`, the intent's entry price, the budget its confidence leaves |
| `phase`, `mode` | how far a scheduled cycle is: `manage` up to the signal exits, `enter` in the loop over symbols |
| `seen`, `known` | `open_positions` and the keys of `correlation_closes`, built before the loop and extended by hand in it |
| `todo` | symbols the loop has not visited |

`Approves` is `evaluate`: a listing, a price, a budget and a buying power in, the
greatest quantity that `Fits` every cap out; the code takes the floors of each
cap in turn, which is the same number. Its callers differ in what they hand it:
`Enter` and `Propose` the listing of the loop and the correlated cluster,
`Discover`, `Buy` and `Approve` the records of the file and no cluster. `Approve`
is gated with the proposal's price and opens at `now`.

Abstractions: prices are whole numbers, stops are a percentage of the entry, and
sides are long (the gate uses distances); `/buy` uses the percentage of the
strategies; equity is constant, so the percentages are amounts; buying power is
chosen at each evaluation, which includes its being stale; a veto that does not
depend on exposure (no setup, stale data, sentiment, kill switch, rate limits,
fat finger) and an entry whose record is lost are `Skip`; one proposal per symbol;
a cycle that ends without a save is as if it had not run, and is left out.

### Approvals

| Variable | Code |
|---|---|
| `file` | `state/proposals.json`: the status of each proposal, `absent` when it is not in it |
| `copy[w]`, `pc[w]`, `batch[w]` | what writer `w` loaded (`load_raw`), how far it is, what it still adds |
| `made`, `late` | the proposals made; those whose `expiry_ts` has passed |
| `sent`, `confirmed`, `offset`, `page` | Telegram's update queue, what `getUpdates` confirmed, the listener's offset and the answer it works off |
| `orders` | entry orders at the broker by client_order_id |
| `tracked`, `today` | symbols in `positions.json`; the date of a manual buy's id |

Each change of the file is a load and a save of the whole file in two steps,
and nothing excludes other writers in between: `Emit` starts what is left of
`run_discovery` once it has the account, or of `run_paper --propose` once its cycle did not
halt (`Cycles`; `run_paper.py:78-80` returns before the purge when it did): they purge and
add; `OnApprove`,
`OnDeny` and `OnCommand` are the listener's handlers; `Place`, `NotPlaced` and
`Record` are what is left of `execute_approved` and of `/buy`; `Expires` is the
clock. A crash of the listener leaves `confirmed` behind `offset`, so the page it
was working off comes again. Ids are never reused (uuid).

### Advice

`state`, `rotation`, `weights`, `reweight` are the four files, `ledger` the summary
of each source the advisor reads, `marking` the proposal that was applied and is
not yet marked. `Suggested` is the arithmetic of `weight_advisor` in thousandths:
the mass of the judged sources, shared by signal, clamped to 30 %, scaled back and
rounded. The summary of a source may change at any time between suggestions. A signal is in
tenths, where `weight_advisor.py:73` keeps four decimals: products of those are beyond
TLC's integers, and the theorems about weights hold for any signals.

### DataGate and Supervision

| Variable | Code |
|---|---|
| `part`, `trading`, `gap` | the session or the evening of a day, whether it is a trading day, days since the last one |
| `age` | days since the newest stored bar, not told apart beyond `Old` |
| `outdated` | the stored bars that differ from the provider's, as days before the newest stored one |
| `halt`, `unchanged` | `halt.json`; whether it is the one the healer read |
| `heal`, `count`, `resumed` | the healer's progress, its counter file (or `Torn`), the resumes that really happened |
| `cycled` | a `cycle_complete` at or after `evaluate_at` today |
| `saved`, `quiet` | `watchdog.json`: the last fingerprint and when it was alerted |
| `haltTold`, `watch` | history: what reached the phone |

Ages stand for dates, so behaviours run over any number of days in finitely
many states. A session ends at 16:00 here, where `drop_incomplete_bar` and the
watchdog have times of their own (16:00 and 16:30 with a grace); dates in UTC and
in local time are one date. `Discover` is any reader of the cache that ingests
(a discovery pass, a scan), halted or not; only `Cycle` halts on age. A bar becomes
outdated at the close of its session, when it was stored before, or overnight, when the
provider corrects it within `Overlap` days of its date (`Correctable`, the premise in the
comment at `ingest.py:75-77`). `Fetch` replaces what lies in the window that starts
`Overlap` days before the newest stored bar, `FetchAll` everything, and what is left is
counted from the new newest bar (`Farther`). That a split or a dividend rescales bars
older than the window, which an incremental fetch leaves on the old scale, is not
modelled: it is the data's business, and no control depends on it.

### Signals and Backtest

`Signals` is written over the outcome of the comparisons the strategies make on
a bar (`View`), not over indicator values. `Backtest` chooses in `Init` on which days
each symbol has a bar, and the bars themselves as they are needed, with any view
that is consistent with them; `positions` and `pending` are the dictionaries of the
loop, `at` the symbol and the half of the loop's body it has reached, `window` the
`entries_start` and the truncation a fold passes. Levels are in hundredths. Cash
never refuses an entry.

### Scoring and Discovery

Votes are in hundredths, scores in tenths, rounded as the code rounds. `phase`,
`excluded`, `todo` are a pass's local variables, `thread[w][s]` the daemon thread of a
source, `pending` and `held` the proposals and records a pass reads when it begins.
The price floor, the levels and the risk gate let any subset of the scored ideas
through. Abandoned threads run on without an effect.

### Breakers, Phrases and Phone

| Variable | Code |
|---|---|
| `stage`, `text`, `steps`, `command` | where the listener is with a message, the turns its model has taken, what it was understood as |
| `cache`, `catalog` | `state/assets_cache.json` and the resolver's copy, kept for the life of the process |
| `shown` | the buttons on the phone, which can be tapped again and again |
| `held`, `halted` | `positions.json`, `halt.json` |
| `breakers`, `counted` | the listener's `CircuitBreakers`, and when each order was counted |

A sentence is a sequence of words; each alternative of a pattern is one word of
it. The model's answer is any command it may name or none. `/buy`'s stop percentage
is left out, as is the question asked when a quantity is missing.

## 4. Runs

| Run | Instance | States | Shows |
|---|---|---|---|
| `lifecycle_safety` | 1 day, 2 strategies, 1 phone tag, 3 order ids, 2 shares, 2 levels, both modes | 2,037,617 | `OpenHasItsStop`, `OneStopPerEntry`, `RestsAtLeastCurrent`, `OnlyReroutedDoubles`, `RestingStopNeverLowered` hold |
| `lifecycle_live` | 2 days, 1 strategy, 2 order ids, 2 shares, both modes | 80,160 | `NakedIsNoticed`, `ExposureIsNoticed`, `OnlyReroutedDoubles` hold |
| `lifecycle_protection` | 1 day, execute | about 100 | `FailedProtectionHalts` is violated: finding 1 |
| `lock_live` | cron and the listener run cycles, 2 entries | 256,364 | `MutualExclusion` (the refinement of `Mutex`), `OnlyStaleLosesRecords`, `LostIsNoticed` hold |
| `lock_cron` | only cron runs cycles, 2 entries | 13,255 | `HealerClearsWhatItVerified`, `BreakerHaltsStick` hold |
| `risk_caps` | 3 symbols, 2 of them correlated, at most 2 positions, 2 prices, 2 confidences | 1,040,370 | `WithinMaxOpen`, `TradeRiskBounded`, `EntriesWithinCaps`, `ClusterWithinCap` hold |
| `approvals` | 2 proposals for one symbol, by a discovery pass and by the listener, 2 updates, pages of 2, 2 dates | 460,358 | `IInv`, `OneOrderPerProposal`, `OnlyOverlapLosesDecisions`, `PendingEnds` hold |
| `advice` | 3 strategies, 3 sources, 2 proposals of each kind, 1 crash | 222,556 | `IInv`, `AppliedOncePerCrash`, `WeightKept`, `ShiftBounded` hold |
| `supervision` | bars may be 2 days old, weekends of 2 days, an overlap of 1 day, 1 resume a day, 1 crash | 209,802 | `ResumesWithinCap`, `CorrectionsInReach`, `StaleHaltHeals`, `MissedIsTold`, `HaltIsTold` hold |
| `backtest` | 2 symbols, 5 days, 2 folds or the whole window, 3 prices, 1 position, one symbol not shorted | 462,025 | `FoldIsolated`, `SlotsBounded`, `StopFollowsBest`, `NotSpent` hold |
| `discovery` | 2 passes, 2 symbols, 3 sets of sources, best 1 | 113,652 | `DuplicatesOnlyByOverlap`, `IdeasEarned`, `PassEnds` hold |
| `phone` | 1 listed symbol, 8 sentences, 2 orders, 1 per window and per day | 150,528 | `Inv`, `BuysAreListed`, `MessagesEnd` hold |

Why the bounds are enough. Two shares give a partial fill that grows later; two
levels give a raise, a refresh at the same level and a refused retreat; an entry
needs one order id for its stop and one more for each replace, so three ids are
a stop, a raise and a refresh, or two entries of which one is raised; two
strategies are the least that give two entries of cycles on one day, a phone tag is
a third, and two days are the least on which an id of the day stops protecting. The
safety run has the strategies and the phone within a day, the liveness run the days;
the theorems have all of them together. When the ids are used up a replace can only fail,
which the code handles too: the guard `new \in Fresh` is the bound, and the
theorems have none. One entry is the record that is lost, the second the one
that is bought on top of it. In `RiskGate` three symbols with room for two
positions make the count bind, two correlated ones and a third make the cluster
differ from the whole, and the limits are such that each of them is the binding
one for some price and budget. The violation runs take the smallest instance.

Two proposals of one symbol are the least that compete for an order, two
updates the least that repeat a tap or answer a tap twice, and one made by
each of two processes the least that overlap in the file; a page of two is what
a crash in the middle redelivers. `Approvals_cycle.cfg` puts a cycle that proposes beside
the pass, with pages of one update and no `/pending`; it holds too (1,304,112 states), and
is too long for a run. In `advice` two proposals of a kind are one
that goes stale by the other; the constraint `OneKindAtATime` lets a behaviour
exercise rotation or weights, which share nothing but the listener, so no
behaviour is missed but their product. In `supervision` an age of 2 and weekends
of 2 days give a bar that is too old on an ordinary day and one that is not
after a weekend; a cap of 1 and one crash are the least that exceed it; a weekend is
longer than the overlap, so that a window counted from today would not reach the last
bar. `DataGate_reach.cfg` has the shipped values without the watchdog (4 days, weekends
of 4 with their holidays, an overlap of 7: 537,150 states). In
`backtest` five days over two folds have a day on each side of the edge, and
prices of 8, 10 and 12 reach the trigger (20 %) of the configured ratchets and
the stops (10 %, 2 %, 2 ATR); the ratchets are those of `config/risk_limits.yaml`.
In `discovery` the sets of sources cover all six with the shipped weights and
floor, two passes overlap, and one proposal out of two symbols makes ranking
matter. In `phone` the eight sentences are those in which two patterns compete;
the router's model has one turn in the code (`max_steps`), two here, so that a
turn is really counted; a day takes one order and so does a window that spans
midnight, which therefore never holds two times: other limits are left to the theorem.

Deadlock is checked in every run but `backtest`, where a run ends.

A bot that halts stays halted until `Reset`; `Reset` is always possible, so
halting is not a dead end of the state graph.

## 5. Fairness

`OrderLifecycle!Fairness`: `SF(StartCycle)`, cron starts cycles again and again
(strong, because phone actions and halts come between); `WF(Cycle)`, a started
process takes its next step. Nothing is assumed of the broker or of the phone:
shares may be exposed again at once, and the phone may halt and reset for ever.
The properties themselves assume, as premises:

- `CrashesEnd`: from some point on no step is a crash (a process that dies in every
  cycle reports nothing; that is the watchdog's business). A `Save` that writes
  what is already there looks like a crash, so the premise lets steps of the
  cycle pass.
- for `ExposureIsNoticed`, that execute cycles keep coming, since only they settle
  and recheck, and `SoleEntry`: the reconciler asks only that some stop of the
  symbol rests, so one left over from an earlier entry is taken for protection.
  `NakedIsNoticed`, for shares with no stop at all, needs neither.

`BotLock!Fairness`: cron constructs cycles (`WF`), they get the lock if it is
free again and again (`SF`: the listener's actions are short and cron's waiting
time is 60 s), every process takes its next step, the healer finishes its clear,
and DAY market orders fill or die. None of the listener's own decisions is fair.
`LostIsNoticed` assumes `CyclesGoThrough`: crashes end (again up to steps that look
like one), and cron's cycles no longer give up waiting for the lock.

`Approvals!Fairness`: time passes (`Expires`), cron starts its discovery passes, and they,
proposing cycles once they propose, and the listener take their steps. A cycle is not
fair: it does not come to its purge while the bot is halted, and a halt may last. Nor is
what the user sends. `PendingEnds` assumes `CrashesEnd`: a purge that always dies purges
nothing. The discovery pass, which no halt stops, suffices; no tap and no cycle is
needed. Without scheduled passes (`scripts/run_discovery.py` reaches the broker, so an
outage stops it too) what is pending would stay in the file until somebody looks, when it
is refused as expired.

`Supervision!SFairness`: days pass; a scheduled tick of the healer and its clear
happen when they are possible again and again (`SF`: a cooldown, a busy lock or a
full cap may come between); the rest of the healer's tick runs on; hours pass
(`Lapse`); a probe that finds the listener alive and has something to say says it,
or fails to. `StaleHaltHeals` assumes in addition that some discovery pass gets
through to the feed again and again, since a halted cycle no longer ingests and the
healer only looks, and that the counter is not torn. `HaltIsTold` assumes that not
every alert fails for ever.

`Discovery!Fairness`: the deadline comes, and a pass ranks and adds; no source is
fair, so `PassEnds` holds for sources that hang. `Phone`: the listener handles what it
has taken up (`Handles`); nothing is assumed of the model's answers but that the calls
come back: `run_telegram.py:469` runs ffmpeg without a timeout, and one that hangs holds
the listener.

`Advice` and `Backtest` have safety properties only.

## 6. Proofs

`OrderLifecycle_proofs` proves, for all values of the constants under
`ConstantsAssumption` (positive numbers of days, shares and levels; null values
outside their sets; the modes are those of the code), for any set of strategies and
any routing:

- `Invariance`, `Spec => []IInv`, and from it `TypeCorrect`, `OpenIsProtected`,
  `NoDoubleStop`, `BelievedIsCovered`; and the step properties `StopOnlyAdvances`
  and `ProposeIsPassive`.

`OpenHasItsStop`, `OneStopPerEntry` and `RestsAtLeastCurrent` are not inductive.
What has to be added: an order still working under a record's stop id rests
exactly at the record's level, while a pending record is at level 1, the least
(`RecordsWellFormed`), so that replacing it by a higher level never undercuts a
record; a stop's coid is used once (`SubmitExit`'s guard, so that a second
attach can only fail); a record reached with memory and file different is
covered in both (`Records`); a phase tells what the record is in it
(`PhasesWellFormed`). The proof goes in two halves. The first says what each
broker operation does to the orders ("sound" lemmas: nothing, an attach, a
replace, some gone); the second takes each action of `Next` and shows that the
records it writes agree with the orders it leaves. `StopOnlyAdvances` reuses the
first half: between any two states a tag's orders shrink, are attached for the
first time, or are replaced at no lower level. `OpenHasItsStop` is about the fill the
stop was sized for; what fills after it is the business of `ExposureIsNoticed`.

- `FlatAtEntry` and, from it, `OnlyReroutes` (`OnlyReroutedDoubles`). The ids allow one
  entry a day and strategy, so what is to be shown is that a day without a second
  strategy and without the phone (`SoleRoute`, which speaks of all that was submitted so
  far) has one entry's shares at most. What has to be added is `EntersFlat`, which
  relates what is held to the day and to the phase: an entry that can still fill is
  today's, later days have none, what is held is no more than what today's entry
  filled, and before there is one it is no more than what the reconciler saw (`snap`),
  so that a cycle that reaches its entries without a record finds nothing held. A
  retry of the same strategy is refused by its id; a restart on the next day is caught
  by the reconcile before the entries, because DAY orders have ended by then.

`BotLock_proofs` proves, under `ProcsAssumption` (the null values and the healer
are outside the sets, the listener does not execute), for any number of
processes and entries:

- `Invariance` of `IInv` (types; `lock = p` exactly while `p` is between `Acquire` and
  its release; a process writes what it loaded unless that entry is over; every
  record has an order), `TypeCorrect`, and `OnlyStaleLoses`: a live record leaves
  `positions.json` only in the write of a process that loaded the file without it.
  The invariant is needed for the clause on `base`: memory may lose what it
  loaded only when that entry is over, and an entry that is over never comes back.
- `ImplementsMutex`: with `M == INSTANCE Mutex WITH inside <- Inside`, where `Inside` is
  the processes at a point of the `with` block, every behaviour of `BotLock` is one of
  `Mutex`. Only who is at which point is mapped, not the variable `lock`, so the
  theorem is about exclusion and not about the file; that `lock` names whoever is
  inside is the part of `IInv` it rests on.
- `HaltsTakeTurns` and, from it, `HealerClearsVerified` and `BreakersStick`, each
  assuming `SingleCycler`, that a single process runs cycles (with two, TLC finds
  the halts overwritten). `HaltsInTurn` is the strengthening: a cycle under way has
  read that there was no halt, so only one by hand can be there when it sets its
  own; and while the healer clears, no cycle stands where it would halt.

`RiskGate_proofs` proves, under `CapsAssumption` (finitely many symbols, positive
whole prices whose stop lies strictly between zero and the price, limits that
are numbers, a budget no greater than the full one):

- `Invariance` of `IInv`, and from it `MaxOpenHolds`, `TradeRiskHolds`, `EntriesHold`
  (`EntriesWithinCaps`) and `ClusterHolds`. `LoopAgrees` is the strengthening: while
  the loop runs, what the gate is told is what is recorded, which is what the
  code's `open_positions.append` and `correlation_closes[symbol] = ...` keep up.
  `TradeRiskBounded` needs that a stop only advances and that a product grows with
  its factors. A `/buy` is trimmed after the gate; that the smaller quantity fits
  too needs that exposure, a fold over a set of records, is a number
  (`ExposureTyped`, see the end of this section).

`Advice_proofs` proves, under `AdviceAssumption` and `NoneAssumption`, `SomeStaysActive`
(`IInv`): some strategy stays active for any number of strategies and proposals.
The invariant needs `MarkedWasMade` besides types: the mark after an approval
writes to a proposal, which must exist for `rotation` to keep its type. The
argument is that both places that apply a change, `Propose` and `Approve`, check
it against the state as it is then, and that a quarantine goes back to
`OnByDefault`, which is not empty.

Of both kinds of advice:

- `AppliedOnce` (`AppliedOncePerCrash`), from `CrashesPay`: what is pending and not
  being marked was applied only by as many approvals as crashed before their mark;
- `WeightsStay`, `ShiftsStay` (`WeightKept`, `ShiftBounded`) and `NoSourceSilenced`, from
  `WInv`: types, the total and the two bounds of every proposal that was made, stale
  ones included, since any of them may be approved. The lemmas follow the
  arithmetic of a suggestion: the reallocation of the judged sources' mass, the
  clamp, the scaling back, and the rounding of each source, at most half a
  thousandth. `Configured` is a positive weight for each source: a source that
  is configured at 0 would take another branch (`weight_advisor.py:118-121`), and
  the shipped settings have none.

The same module, which extends both, proves of `Discovery` (`PassSpec`), for any sets of
passes, symbols and sources:

- `OverlapOnly` (`DuplicatesOnlyByOverlap`). The strengthening is `Alone`: while no two
  passes have overlapped, at most one is under way, and what it still has to add is
  neither held nor pending when it comes to add it.
- `IdeasAreEarned` (`IdeasEarned`): a score is monotone in the votes, a nudge alone stays
  below the floor, and the best by score are taken. `SaneWeights` is assumed: the
  weights are not negative, and the share of a nudge rounds to less than the
  floor. The schema does not check it; the comment at `config/settings.yaml:256-258`
  promises it and the shipped weights do it.

`Supervision_proofs` proves for every age limit, overlap, gap, cap and number of crashes:

- `CapHolds`, from `CountInv`: what the file counts, the resume not yet counted and
  the crashes add up to the resumes of the day, or the counter is torn, and then
  no healer gets past its cap any more;
- `ReachHolds` (`CorrectionsInReach`), which is inductive: what becomes outdated is today's
  bar at its close, or at most `Overlap` days old, and a fetch's window is counted from
  the newest stored bar, so that days without a fetch move both (`FetchReplaces`). A
  window counted from today is the run's mutant, and does not reach back over a weekend;
- `MissedHolds`, from `ToldInv`: what was alerted the evening before has lapsed by
  the close, so an issue that is equal to it is alerted again.

`Backtest_proofs` proves, for any number of symbols, days and folds, any prices and
any parameters of the two ratchets:

- `SlotsHold` and `NotSpentHolds`, from `BInv`: at most `MaxOpen` positions and orders
  together, a symbol's order becoming its position, and every order a signal of
  `Entries`;
- `FoldInvariance` of `IInv`, and from it `FoldsDoNotLeak` and `StopsFollow`. `OrdersInFold`
  and `PositionsInFold` say where in the window an order and a position can be, by
  the half of the loop's body that is running; an order is only placed where a
  bar of its symbol follows (`LastBar`). `RatchetsFed` says that the level a ratchet
  remembers is the best close there was, and that its stop is at least every
  level this offers.

`Approvals_proofs` proves, under `ConstantsAssumption`, for any proposals, writers,
updates and crashes: `Invariance` of `IInv`, and from it `AtMostOneOrder`
(`OneOrderPerProposal`: an id identifies an order), `ApprovalMeansOrder`, and
`DecisionsLostOnlyByOverlap` (`OnlyOverlapLosesDecisions`). The strengthening is about
the writers' copies as much as about the file, since any of them may be written:
no copy says "approved" of a proposal without an order (`ApprovalsBacked`), and what
is still to be added is in no copy (`AddedOnce`).

`Phone_proofs` proves, under `PhrasesAssumption`, `BreakersAssumption` and
`PhoneAssumption`, for any texts, table of companies, limits, window and length of a day:

- `RatesCountExactly` (`Inv`). The strengthening is `Remembers`, which relates the lazy
  counters to the list of all orders: what is left in `times` is a final part of
  that list, everything before it has left the window, and `count` is the number
  of orders of the day `day`, which is no later than today, with no order after
  it. A look (`Checked`) makes both exact, whenever it comes.
- `OnlyListedBuys` (`BuysAreListed`), from: a resolver without assets found no file.
  A list the broker answers with is not empty (`Listed`), since `_fetch` does not
  save an empty one.

Sums, minima and the loop of a sliding window are recursive definitions or
`CHOOSE`s. The library's induction theorems take an operator, which the provers
cannot instantiate. What is needed of them is proved instead by a least
counterexample: the subsets of a finite set are well-founded under strict
inclusion, and the natural numbers under `<` (`WFMin`). That gives that the fold the
community modules define computes a number, whatever order it picks the
elements in, that it adds, and that a set of numbers has a least one.

Every invariant and every action property that a run checks is proved. Only
model-checked are the liveness properties (`NakedIsNoticed`, `ExposureIsNoticed`,
`LostIsNoticed`, `PendingEnds`, `StaleHaltHeals`, `HaltIsTold`, `PassEnds`, `MessagesEnd`): the
prover has neither fairness nor ENABLED. `IInv` of `OrderLifecycle`, of `RiskGate`, of
`BotLock` and of `Backtest`, `WInv`, `HaltsInTurn`, `EntersFlat` and
`ProposePlacesNothing` are proved and in no run of the project.

## 7. Findings

Where a document or a comment and the code differ, a property says what the
document says. The first is a run of the project. For the others the definitions,
and for those marked with it the `.cfg`, are kept: TLC finds each of them violated.

1. `FailedProtectionHalts` (run `lifecycle_protection`): a protective order that
   fails right after an entry is isolated as a bad symbol; the cycle does not halt
   and drops the record. The next cycle's reconcile does halt (`NakedIsNoticed`).
2. `UnclosedKeepsItsStop` (`OrderLifecycle_flatten.cfg`): the kill switch cancels the
   stops of positions it could not close.
3. `RecordsSurvive` (`BotLock_clobber.cfg`): `positions.json` is loaded before the lock
   is taken, so a phone action during the wait is overwritten.
   `OnlyStaleLosesRecords` is what holds, and `LostIsNoticed` what repairs it.
4. `NoEntryWhileHalted` (`BotLock_haltrace.cfg`): the halt is read before the lock is
   taken, not under it.
5. `ManualHaltsStick` (`BotLock_manual.cfg`): the exception handler replaces whatever
   halt there is, and `disconnect` is one the self-healer may clear.
   `BreakerHaltsStick` is what holds of reconcile and kill-switch halts while a
   single process runs cycles.
6. `PendingGetsNoPass` (`OrderLifecycle_pending.cfg`): a pending record whose stop
   covers part of the fill passes reconcile in propose cycles for ever; an open one
   would be a mismatch.
7. `RiskEnforcedAtEntry` (`RiskGate_approval.cfg`): an approval is gated at the
   proposal's price and stop and opened with a stop derived from the current price,
   so the open risk may exceed its cap. `EntriesWithinCaps` is what holds otherwise.
8. `RestartSkipsBacklog` (`Approvals`; `run_telegram.py:848`): a restart skips what the
   first answer holds, at most a page of the backlog, and acts on what is behind it.
   `OneOrderPerProposal` holds all the same.
9. `EveningBarsAreFinished` (`DataGate`; `ingest.py:80-92` and `219-223`): a bar stored
   during its session makes the cache fresh for the rest of the day, and the evening
   takes it for finished. `CorrectionsInReach` is what holds.
10. `NotRepeated` (`Supervision`; `healthcheck.py:8-9`): an old heartbeat's age is part
    of the fingerprint, so such an alert is repeated at every probe.
11. `ClosesWhatItNames`, `ClearingResets` (`Phone`; `run_telegram.py:301-325`): in the
    local patterns "close my AAPL position" closes MY, and "clear halt" halts.
12. `ShiftBounded` is what is left of a cap of 30 % per approval
    (`weight_advisor.py:33-34`, `92-94`): it is taken before the weights are scaled
    back, so a source may move to between 7/13 and 13/7 of its weight.

13. `RetryNeverDoubles` (`OrderLifecycle_double.cfg`; `docs/SAFEGUARDS.md:63`): the
    client_order_id holds the strategy (`order_manager.py:76-78`). An
    entry whose answer was lost is bought again when the next cycle of the day routes
    the symbol to another strategy, before the first one fills and the reconciler sees
    it. `OnlyReroutedDoubles` is what holds, and `LostIsNoticed` what halts on the shares no
    record accounts for.

Met while reading, and stated by no property: with all six sources switched on
the floor that `sources/congress.py:67-69` promises for a fresh disclosure is not
reached, since the score is divided by the weight of every source; a catalog that
came up empty stays so for the life of the listener, which `symbols.py:7-8` calls
fail-soft (`BuysAreListed` excludes it by `cache' = "none"`); a close understood from
a free text is executed without the confirmation that `agents/nl.py:10-11` speaks of
(`run_telegram.py:271-276`).

What the proofs found, in the models and of the code:

- `OnlyOverlapLosesDecisions` had to be weakened. With two processes that emit
  proposals, a stale copy may bring a purged proposal back as pending or expired
  while a tap on it is being handled, and that tap then overwrites a decision it never
  saw (31 steps in an instance with three proposals). Its third clause says so.
- `IdeasEarned` has an exception: `pipeline.py:129` sorts by the score rounded to a tenth,
  and the sort is stable, so an idea may be left out for one that it beats by less.
- `StopFollowsBest` is about a percentage ratchet that has a trigger and a lock: without
  either, `ratchet_stop.py:61` never moves it.
- The alternatives of `Resolved` (`Phrases`) overlapped, so TLA+ left open which of them
  a query takes; the code tries the table of companies first, and so does the
  definition now.

## 8. Not modelled

- Indicators, data providers' wire formats, normalisation, text parsing of headlines
  and disclosures: numerics and I/O without shared state. They are the inputs of
  `Signals`, `Backtest`, `Scoring` and `DataGate`, chosen nondeterministically.
- Statistics and readiness (`research/evaluation.py`, `significance.py`, `readiness.py`,
  `scoreboard.py`, `attribution.py`): floating-point functions of finished trades, with
  no order of events and no bound that integers would show.
- The repair and manual scripts: run by hand, outside the lock. As one more actor of
  `OrderLifecycle` the repair would make `OpenHasItsStop` false (a hazard says how),
  and that is a property of the operator's procedure rather than of the program.
- Universe builders: offline screens that write static lists.
- Network transports, MCP servers, secrets and logging: I/O. `congress_copy` is a
  separate demonstration. Of the configuration only what the schema guarantees is
  used, as assumptions on constants (`Breakers`, `Backtest`, `Discovery`).
- Within modelled components: the live-trading guard of `run_cycle` (a CONFIG halt
  before the lock, from configuration only); take-profit legs; the per-process error
  counter (`register_error`) as a number; the heartbeat file's age; read-only views,
  briefs and reviews; the backtester's cash, slippage and statistics; momentum and
  52-week-high strategies, which nothing routes to.

## 9. Plan

Done: the modules of section 3. What is left, in order of weight:

1. An OCO variant of a protective order in `OrderLifecycle`, whose stop leg the
   reconciler does or does not see.
2. `Protection`, the abstract promise (exposed, protected, halted) that
   `OrderLifecycle` refines, and a module that joins it with `BotLock`.
3. The error counter of the circuit breakers, over the symbols of a cycle.

## 10. Running

    tlc -config OrderLifecycle_safety.cfg MCOrderLifecycle.tla
    tlc -config Supervision.cfg Supervision.tla
    tlapm OrderLifecycle_proofs.tla

A definition introduced as "Mutant of X" is a plausible bug in the code of X,
used to show that a run's property notices it; `PROJECT.json` pairs them.
