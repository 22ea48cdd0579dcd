# Verification of GPT_EA

GPT_EA is an expert advisor for MetaTrader 5: a program attached to a chart that
scans a list of symbols, asks a language model and a set of deterministic gates
for a verdict, shows the candidate to a human, sends the approved order, and
manages the position until it closes. The compiled program is the single file
`GPT_EA.mq5`; `mqh/` is an archive of the parts inlined into it. Line numbers
below are lines of `GPT_EA.mq5` unless a file is named. Beside it stand a CI
workflow and about fifty Python tools that turn a commit into a release: they
collect evidence, validate it, decide GO or HOLD and build what the customer
gets.

This directory holds TLA+ models of the parts of both in which state, failure
and interleaving make the code hard to test, the TLC runs that check them, and
TLAPS proofs about each of them. `PROJECT.json` maps every definition to the
lines it stands for and lists the runs, the hazards, the findings and the
theorems.

## 1. The system

MetaTrader calls one handler at a time: `OnInit`, `OnTick`, `OnTimer` (every
second), `OnChartEvent` (clicks), `OnTradeTransaction` and `OnDeinit`. Handlers
are not preempted, but they block (web requests, order calls, file writes,
sleeps between retries), and while one does, the price, the clock, the broker,
the operator on another device and the terminal's own life go on. Events that
arrive meanwhile wait in a queue that holds at most one timer event.

The release tools know no handlers: each is a process that reads files, perhaps
runs other tools, writes a file and ends. What they share is a directory of
records, the checked-out HEAD, and an operator who runs them in an order the
documents give, and who may start again, resume in the middle, or edit a record
between two of them.

There are five stores of state of the trading program:

| store | survives the program | survives the terminal's death |
|---|---|---|
| globals of the program (`g_pending`, `g_displayPending`, ...) | no | no |
| terminal global variables (`GVWrite`) | yes | as of the last `GlobalVariablesFlush` |
| the checkpoint file, its backup, the intent ledger | yes | rows already written |
| the terminal's copy of positions, orders and history | refreshed | refreshed, lags behind the broker |
| the broker | yes | yes |

### Components

| component (lines) | state | operations | what makes it correct | model |
|---|---|---|---|---|
| Execution intent (13796-14358, 15976-16049) | per symbol: intent state, nonce, time; ledger file | prepare, mark SENT, order call, bind, reconcile | one live order per symbol; no retry on an ambiguous answer; settled means true; ambiguity ends | `ExecutionIntent`, proved |
| Position management and stop-failure policy (3801-3830, 4593-5500, 16407-16704) | per position: partial flags, stage, failure clocks, pause | timer pass: restore stop, TP1, break-even, ladder, TP2; restart inference | stops never loosen; reductions taken once; flags mean what they say; missing stop ends | `PositionProtection`, proved |
| Restart recovery (2470-2580, 3801-4015, 4200-4300) | variables, checkpoint, backup | flush, truncating rewrite, seal, copy; recover, fall back, restore | decisions are final; a snapshot always exists; the pause survives | `RecoveryCheckpoint`, proved |
| Human approval (15150-15290, 16262-16400, 16705-16930, 18400-18900, 18921-19440) | list of prompts, panel bindings, symbol lifecycle, cooldown, pause | scan, click, timeout, fresh validation, place, reconcile waits | one order per prompt; nothing refused is sent; what is shown is what is approved; prompts and waits end | `ApprovalWorkflow`, proved |
| Trade transactions, deal accounting (2585-2712, 14501-14556, 19356) | per position: REALIZED, FINAL; loss streak, statistics | deal callbacks | the account is the broker's when every callback came in time | `TradeLearning`, proved |
| Risk session, kill switch, cooldown (2058-2140) | day key and baseline, peak, streak | refresh, test | a breach blocks entries until the day ends | baseline and pause in `RecoveryCheckpoint`, the streak in `TradeLearning`; the limits planned |
| Broker reconciliation (14359-14500) | last seen volume and stops, expectation window, block flag | 30 s pass | an external change is noticed, an own one is not blamed | the marks on a trade in `TradeLearning`; stops, targets and the entry block planned |
| Champion/challenger (13056-13460) | shadow trades, statistics, promotion, probation | timer, scan hook | promotion only on evidence, rollback and its cooldown respected | planned |
| Strategy history, execution learning, quarantine (8350-8740, 11992-13055) | per trade: marks, samples; learning generation | timer: attach, finalise, clear | a sample counts once, after its end, and never when the trade was found touched; every trade is finalised | `TradeLearning`, proved; health modes planned |
| Causal attribution (14560-14725) | a mark per trade, a file | timer: classify, write | one row per trade and life of the terminal | `TradeLearning` (when and how often), classification left out |
| Lot sizing and portfolio risk (918-933, 2180-2273, 11474-11990) | none (reads account and positions) | pure gates | caps hold, nothing is counted as zero by failure | planned |
| Scan scheduler (569-585, 9491-9565) | last slot key | timer | each slot scanned once | planned |
| API transport, model resolution, clock trust (6738-7145, 10598-11085) | failure count, backoff, active model, degraded mode | request, probe | no request during backoff; entries closed while degraded | planned |
| Release, legal, license and privacy gates (4340-4592, 5505-6735, 7149-7730) | stored acknowledgements and fingerprints | tests before an entry | conjunction; positions stay managed while it refuses | planned |
| Strategy intelligence, news, web intelligence, theses (Parts 01-05, 08, 15-27) | caches | numeric and text heuristics | outside what can be enumerated | their verdict is a free choice |
| Soak evidence, journals, dashboard drawing | counters, files, pixels | report | a release gate compares an exported summary; no handler decides on a trade by them | left out |
| Executed CI evidence (`static-quality.yml` and the six tools its jobs run) | attempts, artifacts, attestations, the operator's download directory | two jobs step by step; re-runs; unpack, validate, rebuild | what is accepted was executed, passed and attested in one attempt; every attempt concludes | `CiEvidence`, proved |
| Release evidence records (runner recovery, MT5 matrix, resilience, broker coverage, soak; `validate_release_evidence.py`) | records with digests, files they hash, HEAD | draft, complete, finalize, validate; sections; import | validated evidence is what was accepted, of the tested binary, of this candidate | `ReleaseRecords`, proved |
| Release decision and delivery (review, R10 chain, status, dashboard, preset, packages) | records, files, outputs, what a running tool has read | 59 steps of 14 tools | nothing is issued that nobody reviewed; what was left alone is as a GO says; the chain delivers | `ReleaseDecision`, proved |
| Static source checkers (`check_*.py`), branding, local compile | none | token searches | exit code | their verdict is a free choice |

### How they interact

    ScanSymbol --queues--> g_pending --APPROVE--> ApprovePending --> ApprovedPlaceTrade
        |                     |   \--DENY, timeout--> DeletePending          |
        |                     +--persisted by--> P_ACTIVE, checkpoint        v
     gates <--cooldown, pause, kill switch, hazards          intent: PREPARED, SENT, order
        ^                                                                    |
        +--stop-failure pause, partial hazard-- ManagePositionsAdvanced <----+ position

    push --> static job --> evidence job --> bundle --> operator's directory
                                                              |
     records --finalize--> sealed records --sections--> release evidence
                                                              |
     compile, privacy, review --R10 chain--> status, dashboard, preset, packages

The pause is written by the operator, by the stop-failure policy and by the
restore. A cooldown is written by a refusal and by an exit. The checkpoint is
saved by clicks, by every timer and by `OnInit` and `OnDeinit`. The intent
reconciliation runs in `OnInit`, in `OnDeinit` and every 30 s from the timer.
A deal is heard of twice: by `OnTradeTransaction`, which settles the account of the
program (its loss streak feeds the kill switch), and by the finalizers of the timer,
which read the broker's history and feed the stores that later gate entries.

### What is hard

`PROJECT.json` lists each hazard at its line. In groups: answers of the broker
that are lost, late or contradicted by the terminal's own lists; crashes between
two writes that belong together; recovery from a source that is staler than
another one; clicks that waited while what they referred to changed; bindings
and flags set in one handler and trusted in another; things that must end
although nobody acts (ambiguity, prompts, waits, missing stops); callbacks that
are lost, doubled or reordered. In the release: files read twice by one tool, or
by two tools of one chain, with a change in between; hashes passed as arguments;
parts of a chain done again without the rest; artifacts of two CI attempts in one
directory; a verdict that must not invalidate what it rests on.

Hazards the models do not reach are in section 6.

## 2. Modules

### ExecutionIntent (+ SingleFlight, ExecutionIntentProofs)

The path from the last gate to a bound position. Each durable write and the
order call is a step (`PrepareIntent`, `PersistPrepared`, `MarkSent`,
`PersistSent`, `CallBroker`, then `CallBinds`, `CallFails` or `CallUnbound`),
because the terminal may die between any two (`TerminalCrash` returns the
variables to their flushed copy, `EACrash` keeps them). `Reconcile` is
`ReconcileIntentForSymbol` for every symbol: position, live order, history and
expiry in the code's order of precedence, from the terminal's copy `seen` of the
broker's truth `broker`. `HistoryMayMiss` lets `HistorySelect` fail; `ChaosAllowed`
adds the fault injections around the call; `CommentKept = FALSE` is a broker that
drops the order comment, so that evidence is matched by time and geometry only.
An order may be filled wholly or in part, by one deal or by several, and a position
may be reduced later. The three matches compare the intent's volume with three different
things: the position as it is now (`FitsPosition`), one entry deal (`FitsDeal`) and the
order as it was sent (`FitsOrder`, ORDER_VOLUME_INITIAL, 14232). A position filled in part
or by several deals whose comment is gone therefore fails the first two and passes the
last: the pass finds "history" and settles the intent as CLOSED while the position is open
(`Legible` names the positions it can tell; section 5). What prevents a second
exposure then is only the count of positions before an entry, hence
`PositionsAssumption`: comments are kept, or `InpMaxPositionsPerSymbol` is at most 1, its
default, which no preset changes. The side of a deal is always the intent's own, and the
rest of an order filled in part counts as cancelled.

What is assumed of the environment is stated as `LatencyAssumption`: an order's
outcome is visible within the ambiguity window, and a broker that drops comments
answers the blocking call within the 15 s slack of the match. A fill later than
the window defeats the program, which has no other protection. `Cooled` assumes
that the cooldown after an exit (`InpCooldownM15Candles > 0`, the default) separates a fill from
the next intent by more than that slack; the cooldown is written by the exit deal's
callback, so a lost callback is outside the model. An order that ended without a fill
is followed by a scan of the symbol and another human decision, which take longer than
the slack, too.

`SingleFlight` is the promise: per symbol one live order, and no nonce is
submitted twice. `SubmitsOnce` is the refinement, with `live` and `spent` read
off the broker.

Left out: the branch that fails an intent because the lifecycle refuses SENT
(it admits it from every state that gets there), a nonce whose hash is 0, and
the retcode classes (an accepted, a refused and a lost answer remain).

### PositionProtection (+ PositionProtectionProofs)

One BUY position (a SELL is the mirror image) under `ManagePositionsAdvanced`.
A pass is a sequence of steps, one per server call and one per group of writes
after it: restore a missing stop or escalate to an emergency close, TP1 partial,
its flag, break-even, its stamp and audit, the ladder of locks, TP2, its flag,
the partial-protection stall. `Restored` is what `OnInit` infers from the stop
and from the history. Stored times are kept as "unset", "recent" or "old", the
only distinction their tests make. `TP1ReduceFails` and `TP2ReduceFails` include the
answer that reports failure of a reduction the server executed, and `Start` the history
query that misses the exit deals; `faults` counts both, so that the properties can say
what a repetition of a scale-out must be due to. `Failed` is the counter and clock of
`RegisterStopUpdateFailure`; `EntriesAllowed` is the pair of gates that read the
pause and the hazard.

Left out: `InpPartialAtTP1Percent = 0`, other than default switches, torn
position rows in the checkpoint.

### RecoveryCheckpoint (+ RecoveryCheckpointProofs)

The flush, the truncating rewrite row by row, the END seal and the backup copy,
each a step with a crash possible after it; and `OnInit` in the order of the
code: recover from the variables, `Fallback` to the backup when the primary is
not valid, `Restore` from the rows. A prompt is its generation, so "an older
prompt came back" is a comparison. History variables record what was decided
(`decided`), what a completed checkpoint had settled (`settled`), kept (`kept`)
and refused (`refused`, `cooled`). A row is written whole or not at all. The
POSITION rows are `PositionProtection!Restored`'s subject.

### ApprovalWorkflow (+ ApprovalWorkflowProofs)

The list of prompts, the two variables that bind clicks to it (`display`, set by
`RenderApprovalPrompt` and by the panel, in a tick by either or by both in a row) and the buttons the operator sees
(`shown`), clicks (one that waited is handled like one of the moment), the timer, the symbol lifecycle,
cooldown, pause and the order. A scan, a timer, a tick, a click and a chart
event are handlers of one or more steps; while one is between two steps, clicks
arrive, deadlines pass and the program may die. `ScanDeferred`, `ScanRejects`
and `ScanQueues` are the ends `ScanSymbol` can come to, chosen freely, as is the
verdict of the fresh validation. A save is one step here, because what happens
inside it is `RecoveryCheckpoint`'s subject: the two meet in `disk`, which is
what `RecoveryCheckpoint` shows a restart to recover.

Left out: the mode without approval, re-initialisation that keeps the globals,
the strategy class of a candidate, the text panel, a batch of scans as one
handler (its symbols are scanned one by one, in any order).

### TradeLearning (+ TradeLearningProofs)

What the program makes of a trade that ended. The broker opens positions
(`Open`: the order call with `BindTradeIntentToPosition`, or an ambiguous answer
without it) and closes them whole or in part, by the program, by a stop or by hand
(`Exit`). `OnTradeTransaction` takes deals from a queue: `HandleReliability` marks a
deal made by hand, `HandleRiskAnalytics` adds to REALIZED and settles the trade once
its position is gone (`HandleExitDeal`). A timer event is `StrategyTimer` (strategy
metadata, strategy history, context), `AdaptiveTimer` (learning generation, execution
learning), `ReliabilityTimer` (storage check, volume reconciliation) and one
`AttributeCause` per trade due, in that order; deals arrive between any two of them,
and `HistoryFails` ends one early. `Start` is `OnInit`, which runs the same
finalizers. All this is kept in terminal variables: `gv` as the program sees them,
`disk` as last flushed, to which `Crash` returns them; the file of causes (`causes`)
keeps its rows. `clean` and `noticed` are history variables: every deal of the trade
was heard of once and before the next one; the trade was marked while open.

A row (`NewRow`) holds a trade's marks and, as sequences, what each store took
of it: taking a trade twice, or half of it, is then visible in the sequence.
`FinalizeStrategyHistory` and `FinalizeContextHistory` take one trade per call,
because summing up a position replaces the list of deals they are walking.

Left out: the averages and buckets the samples go into, journals, the class of a
cause, positions of other symbols sharing one plan, a position closed by an opposite
one.

### CiEvidence (+ CiEvidenceProofs)

`static-quality.yml` as a workflow: `RunChecks`, `CheckShape`, the raw upload and
the gate of the static job; `DownloadRaw` to `ValidateBundle`, the upload and the
gate of the evidence job (`WorkflowStep`). Each step of the evidence job may fail
and the next one runs or not as its `if:` says. `StepLost` and `StaticJobLost` are
timeouts and lost runners, `Push` cancels the attempt in progress, `RerunAll` and
`RerunFailed` make new attempts of which the latter executes no checks,
`NoRunner` is a job no machine took. `executed` records which attempts really
ran every check and passed; `attested` which digests GitHub holds an attestation
for. `Unpack`, `Damage`, `RebuildBundle` and `ValidateBundleLocally` are the
operator's, whose directory may receive the files of several attempts on top of
each other; `FillCiRecord` is the `ci_static` section of the release evidence,
which `ValidCiRecord` accepts or not.

`MixedRebuild = FALSE` is an assumption about the operator, not about the code:
nobody builds a new bundle manifest over the files of two attempts. What each
checker looks for is its exit code.

### ReleaseRecords (+ ReleaseRecordsProofs)

Twenty-seven steps in the order of docs/RELEASE_EVIDENCE_VALIDATION.md, from the
compile to evidence that validates. A record is a TLA+ record whose `digest` is
the hash of all the rest (`Digest`); a file is a version of a content, and `Sha` is
injective. Candidate identities, digests and hashes that tie records together
are kept one by one; the dozens of booleans, texts and counts a validator looks
at are one boolean for each kind of refusal a property tells apart. `Draft...`,
`Build...`, `Complete` and `Finalize` write records; `Valid...` are the
validators, which the aggregate `ValidRelease` calls again for every section.
`Disturb` is a change of a file, a record, the deployment or HEAD, a recovery record built
for another run, or a jump of the operator; `Recheck` runs a validator out of
order. `sealed` records what was accepted by a finalizer, `ran` what binary each
session ran.

### ReleaseDecision (+ ReleaseDecisionProofs)

From complete evidence to what leaves the house, 59 steps. A tool that reads a thing
twice, or runs another tool, is several steps, and `mem` is what the running tool has
read. The R10 validator looks at records (`CheckR10`) before it starts R7 and the base
validator (`CheckBase`); the R10 review validator compares two digests
(`CheckReviewR10`) before it starts the review validator, which reads both files again
(`CheckReview`); a review without a digest of its own is not held against it
(`Unspoiled`). The status tool reads evidence and static text and then runs all four.
The dashboard asks HEAD for the page, for the fingerprint and for the verdict
(`DrawPage`, `PrintPage`, `RequirePass`), the drift check twice more (`ReadForDrift`,
`CheckDrift`): with HEAD moved to and fro a page that says NO-GO passes both. The exporter
reads the evidence, runs the validators, loads sign-off and acknowledgement, asks HEAD,
hashes the SET, reads it again, writes, and hashes the records for the manifest. The
packager runs all this, reads the evidence once more, hashes, scans, copies, indexes and
scans again; the evidence pack scans, then copies; the rollback package lists, hashes and
reads again into the ZIP.

What one step merges: reads of different things, and the next reading of a record or
section by the validator that is run on it at once (the compile record by
`validate_compile_evidence`, the API section by R7). The second reading compares again,
and what is refused there is refused. `ScanPasses` is the scanner with its blind spot (a large
file may hold a secret); unreadable files and skipped directories count as large.

`ReleaseBasis` is what the review digest covers and what it leaves out. `reviewed` collects
what reviewers signed GO for. `touched` are the things disturbed since the running tool
began: a tool that reads the world at a dozen moments cannot promise that all of it
holds together, but `IssuedForTheWorld` says that each claim of a GO stands if
what it is about was left alone, and a change to one thing spoils no claim about
another. The evidence records of `ReleaseRecords` are one field here, `sections`:
the two modules meet in `validate_release_evidence`, which is modelled in full there and
by its verdict here.

Assumed: each pack and package is written to a fresh directory, as both tools insist; the reference
of the license, the proxy endpoint and the margin mode are passed as they
are; nobody but the reviewer signs a review. The loop that copies the artifacts of the evidence
pack is two rounds. The trial records, the entitlement, the compile log and the migration note are
not disturbed in the run (nothing delivered depends on the first two; the log is the
EX5's companion); the proofs allow it.

## 3. Checks

| run | bounds | shows |
|---|---|---|
| `intent_safety` | 1 symbol, 2 intents, 8 ticks, window 3, comment dropped, partial fills and reductions, chaos, one position per symbol; 937 k states | exposure, durability, settlement and ledger invariants; the refinement of `SingleFlight`; every ambiguity ends |
| `intent_history_miss` | 12 ticks, history may fail | finding: FAILED though a deal exists |
| `protect_restart` | 7 prices, every stop and trigger of the ladder at a price of its own, 4 lots, one disturbance: a restart, a crash, a stop removed by hand, or a lost answer; the history may miss the deals; 849 k states | TP1 and TP2 repeated only for a fault, honest stages, no loosened stop; without a restart also TP1DONE only when protected, the hazard blocks; a missing stop ends, break-even is reached |
| `protect_lost_hazard` | 1 restart | finding: TP1DONE without the stop |
| `checkpoint_safety` | 2 symbols (symmetric), 2 prompts of each, 2 faults, variables lost once; 12 M states | decisions are final, resurrections are cooled, a snapshot exists, pause and prompts survive one fault |
| `checkpoint_baseline` | 1 symbol, no fault, variables lost once | finding: the day's baseline is overwritten |
| `approval_safety` | 2 symbols, 2 setups, 1 crash; 380 k states | one order per prompt and none for a refused one, one prompt per symbol; prompts and stale waits end |
| `approval_click` | 2 symbols, 2 setups, no crash | finding: a click approves what is not shown |
| `learning_truth` | 2 trades, 2 exit deals, 2 waiting deals, 1 fault, 1 crash or stop; 805 k states | each store takes a trade once and whole, the account is the broker's when heard in time, touched trades stay out; every trade is finalized |
| `ci_evidence` | 2 commits, 2 attempts in all, 2 touches of the directory; 90 k states | accepted evidence was executed, passed and attested; a validated bundle is whole; green leaves a bundle; attempts end |
| `release_records` | 2 commits, 2 desks, 2 generic symbols, 1 change, 1 jump; 414 k states | validated release evidence is what was accepted, of the tested binary; the chain ends in evidence that validates |
| `release_decision` | 2 commits, 2 countries, 2 disturbances of 11 things; 975 k states | what is issued was reviewed, and fits the world as far as it was left alone; what ships is what was certified; the packaged dashboard is true; the operator who goes on delivers |

Why the bounds are enough. Two intents are what a double exposure takes, and the
clock leaves room for both to run through their window; a third adds nothing,
since an intent remembers only its predecessor's order. Eight ticks leave the
window of the second intent open to its end (`Horizon`). In the protection run the stops
are 1 (initial), 2 (break-even), 3 and 4 (the locks), the triggers 3, 4, 5 and 6, the targets 3, 5
and 7: no two stages share a stop, so that a stage without its own shows, and
four lots make both partial closes differ from a full one. Two faults are needed to lose both files, and the properties that hold only
after one fault say so. Two setups are one prompt and its replacement, or the
prompts of two symbols of which one is the chart's. Two trades and two exits are a partial exit and
a full one, or two trades of which a pass reaches one; each fault alone meets every
step of a timer event and the crash. Two attempts are one and its
re-run, or two commits of which one cancels the other; two touches put the files
of both into one directory, or one in and damage it. In the release modules
one change at every possible moment covers each window between two reads; the second
disturbance of `release_decision` is a second change or a jump, so that an
interrupted chain is also resumed half way (in `release_records` the two are
bounded apart, one of each). What a single field of a record may turn into is
enumerated (`Amended`, `ChangeRecord`), one value for each refusal.

`SYMMETRY` is used in `checkpoint_safety` only, which checks invariants and
treats the symbols alike. Time, restarts, prompts, setups and disturbances are
bounded in guards (`MaxTime`, `MaxNonce`, `MaxPrompts`, `MaxFaults`, `MaxExits`, `MaxQueue`, `MaxSetups`, `MaxCrashes`, `MaxAttempts`, `MaxTouches`,
`MaxChanges`, `MaxJumps`, `MaxDisturbances`). Deadlock is checked in every run but
`ci_evidence`, where all attempts may be spent and nothing is left to
happen.

Some invariants are conjunctions of named parts, each with its own comment:
`PartialsTakenOnce`, `UnprotectedIsKnown`, `SnapshotSurvivesFault`,
`OnlyApprovedIsSent`, `BundlesAreWhole` and `RestsOnAccepted`. The type invariants
of `ExecutionIntent` and `RecoveryCheckpoint`, `JoinIsSound`, `StatusAlwaysValidates` and the
inductive invariants are proved (section 4) and not repeated in the runs.

Every property of a passing run has a faulty variant of one mapped definition in
the module (an operator with a comment "Mutant" or "Faulty variant") under which
the same run finds it violated.

### Fairness

- `ExecutionIntent!Fairness`: a handler runs to its end, a stopped program is
  started again, time passes, the broker answers and the lists catch up (weak). The
  reconciliation is strongly fair while connected: the timer fires every second,
  so a connection that comes back again and again meets one.
- `PositionProtection!Fairness`: passes go on and times grow old (weak). A
  server asked again and again to close the position, or to accept a break-even
  stop it has no ground to refuse, does so at last (strong); restoring a stop
  may be refused for ever, which is what the emergency close is for.
- `ApprovalWorkflow!Fairness`: handlers end, the program is restarted, deadlines
  pass (weak). The timer is strongly fair: it is disabled whenever another
  handler runs, and a queue served in order does not let it be overtaken for
  ever.
- `TradeLearning!FairSpec`: the timer event goes on (weak on `Timer`), because
  `EventSetTimer` keeps firing and every handler ends; a stopped program is started
  again with the inputs it had (weak). No callback is promised.
- `CiEvidence!FairSpec`: the workflow goes on (weak): jobs have time limits and
  the steps of a job are run by GitHub. Nothing is assumed of the operator.
- `ReleaseRecords!FairSpec`, `ReleaseDecision!FairSpec`: the operator goes on
  working through the chain (weak on `Work`). No tool waits for anything, so this
  is all there is to assume; disturbances are bounded, and an operator who
  stops half way has no release.

## 4. Proofs

TLAPS proves these for every value of the constants that meets the named
assumptions.

**ExecutionIntentProofs** (from `SizesAssumption`, `LatencyAssumption` and
`PositionsAssumption`).
`AtMostOneExposure` is not inductive: that a new intent may be prepared depends
on what the last one says about an order the program cannot see. The inductive
invariant `IndInv` ties four things together. `HandlerInv`: the step the handler
is at against the variables it has written, and against the clock. `NonceInv`:
nonces are fresh and belong to one symbol. `ViewInv`: how far the terminal's
lists lag, which the latency bounds turn into "once the window is over and the
terminal is connected, what is not seen is not there". `StampInv`: an intent's
time lies close to its own order and after the fills of all others, the ground
of the match without a comment. `TrackInv`: a live order is named by both the
current and the flushed intent in a state that blocks, or it is `Forgotten`: a
position without legible evidence, which a connected terminal lists and which
therefore counts. `AloneInv`: while an order is submitted no other one of its symbol is
alive. The step lemmas are one
per action; `ReconcileInd` rests on `HitsAreOwn` (evidence found is the intent's
own) and `ExpiredIsSeen` (an expired intent's order is visible). From it follow
`TypeCorrect`, `OneExposure`, `DurableIntent`, `SoundJoins`, with `LedgerInv`
`LedgerFirst`, with `TruthInv` and a history that answers (`HistoryMayMiss =
FALSE`, without which it is the finding below) `TrueSettlement`, and step by
step `ImplementsSingleFlight`. `DurableIntent` and `TrueSettlement` except the positions
that are not `Legible`, because there the code does otherwise; `OneExposure` and the
refinement except nothing.

**PositionProtectionProofs** (from `LevelsAssumption` and `SizesAssumption`, for any
levels, volumes and percentages that meet them). That a stage is backed by the stop is
not inductive: a crash brings back the stage of the last flush, and a stamp follows a
modification by a step. `Laddered` asks it of the variables, of their flushed copy and
of the stage about to be stamped; what makes it last is `PositionMoves`: whatever
step is taken, a stop only rises, or a hand removed it. `Counted` adds the reductions
to what is left of the entry, `Earned` is the meaning of the two flags before the
first restart, and `Scaled` says that an executed reduction beyond those the faults
account for is flagged, about to be flagged, or will be read from the history, whether or
not answers and histories get lost. `KeepStep` serves the
many actions that write no flag. Theorems: `TypeCorrect`, `StageHonest`,
`StopsNeverLoosen`, `UnprotectedKnown`, `PartialsOnce`.

**RecoveryCheckpointProofs** (from `BoundsAssumption`). `SettledStaysSettled`
speaks of the screen, but a restart fills the screen from four places.
`SourcesInv` extends it to all of them, `OrderInv` orders settled, decided and
issued prompts, and `ProgressInv` says how far the save under way has cleared
the latest decisions from each place, so that the moment it completes they may
be called settled. `CoolInv` is the argument of `ResurrectedIsCooled`: refused
implies cooled or expired, in the variables and in their flushed copy, because
`DeletePending` writes the cooldown before it clears the prompt. For
`SnapshotSurvivesFault` a third invariant, `SurvivalInv`, accounts for the two files
step by step: `WrittenInv`, how far the rewrite is and that its rows are the prompts in
memory; `FilesInv`, which of the two files holds at each step what the last completed
checkpoint promised (the backup while the primary is rewritten, the sealed primary
while the backup is copied, and after the fault the one `OnInit` is going to restore);
`MemoryInv`, that neither the program nor the variables contradict it, so that the next
rewrite promises no less. Theorems: `TypeCorrect`, `SettledIsFinal`,
`RefusedStaysBlocked`, `SnapshotIsEnough`.

**CiEvidenceProofs** (from `BoundsAssumption`, for any commits and checks). That an
accepted section was executed depends on files that pass through two jobs, an
artifact store and a directory where they land on each other. `Made` says what the
files of one attempt may claim, each claim against the file it is about: a PASS text
was written by a job whose checks passed, a PASS record was built from such a text
and from the metadata of the same attempt, a verification was made of an attested
digest, a manifest lists the files beside it. `Staged` says which files are not yet
there when an earlier one is written, and above all that a job starts from the raw
artifact of its own attempt, so that a re-run that carried the static job over finds
nothing. `JobInv` asks `Made` of the job, of the raw and of the final artifacts.
Of the directory only less holds: `EvidenceInv` for the one file, `ManifestInv` for a
manifest, whose digests then force the other files (`ShaInjective`). Theorems:
`AcceptedExecuted`, and `WholeBundles` when no manifest is rebuilt over mixed files.

**ReleaseDecisionProofs** (from no assumption on the constants: any commits,
countries, disturbed things and number of disturbances). A tool claims at its end what it
read at a dozen moments. `IndInv` says what it may still claim at each step. `Validated`:
after each validator of the chain (`PastR10`, `PastBase`, `PastDigests`, `PastReview`)
what it looked at stands as it was told, claim by claim, unless the thing was touched
since the tool began (`R10Told`, `BaseTold`, `DigestsTold`, `ReviewTold`), and what the
review validators saw was signed, touched or not (`DigestsSeen`, `BasisSeen`). `Held`,
`Exporting` and `Packaging` say the same of what a tool keeps in memory, from the loaded
sign-off to the page and the half-filled package. `Honest`: a review on file may be
spoiled, but the basis and the two digests in it are those its reviewer answered for.
`Shown`: what was written so far. The family of lemmas `Kept` carries a claim over
a step that does not touch its thing; one lemma serves each group of actions. Theorems:
`IssuedWasReviewed`, `EveryStatusValidates`, `IssuedIsCertified`, `ShippedIsNamed`,
`DashboardInPackageIsTrue`.

**ReleaseRecordsProofs** (from `CommitsAssumption`, for any commits, desks, generic
symbols, changes and jumps). That a validated release rests on what was accepted
follows from its digests, so the invariant says what a digest may be. `RecordInv`: a
digest in a record (also in one edited by hand afterwards, whose digest then is that of
another text) is the digest of a record that a finalizer accepted, or of a broker
catalogue, whose tool writes the digest before it looks, that no check accepts
(`Signature`). `SealedInv`: an accepted record holds the hashes of the files of its
acceptance. A record that carries its *own* digest is then the accepted one
(`DigestIdentifies`), and equal hashes are equal files. For the binary, `Tested` says
that a record names the EX5 its session ran or one that is `Gone`: the numbers of
contents only grow, so a compiled EX5 that was replaced never comes back, and no file on
disk has its hash. `CandidateInv` says the same of the operator's notes, from which the
records have it. Theorems: `RestsOnTheAccepted`, `TheBinaryWasTested`.

**TradeLearningProofs** (from `TradesAssumption` and `GainsAssumption`). What the stores hold
of a trade depends on marks that a crash may undo together with the samples they
cover. `GoodRow` says of one row what must hold whatever the row's age: each mark
covers its store, a store holds nothing or the whole result, nothing before the
end, nothing of a trade that was noticed. `Sound` asks it of `gv` and of `disk`
alike, so that a crash, which puts one for the other, needs no argument of its own
(a trade noticed since the last flush is forgotten, and `noticed` says so). `MarkedInv`
ties `noticed` to the mark the finalizers read; `CauseInv` counts a row of the file
that no mark remembers against a crash. The lemmas `Row...` say what each update does to a good
row, `Remade` and `OneTrade` lift them to the variables, and there is one step lemma
per action. `AccountingIsTrue` compares a result and a streak, each built up callback by
callback, with the whole history of deals. `AInv` says instead what each step leaves:
`CleanInv`, that REALIZED of a trade heard of in time is its result but for the one deal
that may wait, and FINAL is set when an ended trade waits for nothing; `FifoInv` and
`LastInv`, that while a callback waits, so does one of each trade that ended later;
`EndInv`, that nothing is counted before the end, in the variables or in their flushed
copy; `StreakInv`, that the streak is the run of losses among the trades counted so far,
again in both, which a crash may then exchange. The trade settled next ended after all
that are counted, so it extends the run or starts a new one; when every ended trade is
counted, the run is `LosingRun`. Theorems: `TypeCorrect`, `LearnedOnce`,
`TouchedStaysOut`, `AccountIsTrue`.

**ApprovalWorkflowProofs** (from `WorkflowAssumption`). That an order stands for one
decision depends on where a prompt may still be waiting when its order goes out: in
`g_pending`, in the variables a restart reads, or in the hands of `ApprovePending`.
`Core` says of each place what it may hold: `Prompts` and `Durable`, that nothing
sent or refused waits in memory or on disk and that each symbol and setup is there
once; `Worked`, that the approved entry has left memory, and the disk as soon as the
save that precedes the validation is complete; `Withdrawn`, that a refusal whose save
is under way is not on the list; `Counted`. `OneEach` is the part about lists, and
`RemovalKeeps`, `QueuedKeeps`, `BookIs` and `RecoveredIs` say what removing, queueing,
saving and recovering do to it. Quiet steps, removals and ends of an approval have a
lemma each, the others one per action. Theorems: `TypeCorrect`, `SentOnlyIfApproved`,
`OnePrompt`.

TLC checked the inductive invariants on small instances before they were proved; for
the three newest these were the 12 million states of `checkpoint_safety`
(`SurvivalInv`), 9 million states of `TradeLearning` with three exits and 3 million
with three trades (`AInv`), and 3 million states of `ReleaseRecords` with two changes
(`RecordInv`, `CandidateInv`, `SealedInv`).

Every invariant and every action property of the passing runs is the statement of a
theorem, and so is the refinement. Only model-checked are the liveness properties, which
need fairness and ENABLED and are out of this prover's reach: `AmbiguityResolves`,
`MissingStopEnds`, `BreakEvenReached`, `PromptEnds`, `StaleWaitEnds`,
`EveryTradeFinalized`, `AttemptEnds`, `ReleaseValidates` and `CandidateDelivered`.

## 5. Findings

Disagreements between what the repository says and what the code does, each shown by a run:

1. `FailedMeansNoDeal`: a `HistorySelect` that fails is taken as an empty history (14272, 14349).
2. `DoneIsEarned`: a restart between TP1 and break-even records TP1DONE (3818).
3. `DayBaselineRecovered`: `RiskRecoveryInit` fills the day's baseline before the restore can (19261).
4. `ApprovedWhatIsShown`: after a timer event the click handlers point at the
   first prompt of any symbol while the panel shows disabled buttons (16265).

Seen while modelling, without a run of their own:

- A position filled in part or by several deals whose comment the broker dropped is
  settled as CLOSED while it is open, because only the order's initial volume still fits
  (14232): the intent no longer blocks, and with `InpMaxPositionsPerSymbol` above 1 nothing
  else would. `LiveOrderIsDurable` and `SettlementIsTrue` except it by `Legible`, and fail
  without that.
- A reduction that executed but was reported failed is repeated
  (docs/COMPILE_TEST_CHECKLIST.md:168); `PartialsTakenOnce` counts such answers.
- Nothing but a flag written after the reduction tells a restart that TP2 was taken
  (16595), so a crash in between takes it again (README.md:568 of the repository);
  `PartialsTakenOnce` therefore allows one repetition of TP2 per restart.
- A callback delivered twice is recognised by its first half only
  (`HandleReliabilityTradeTransaction` returns from itself): `OnTradeTransaction` (19356)
  goes on and the deal is added to REALIZED again (2694; comment at 14549,
  docs/CHAOS_FAULT_INJECTION_TEST_MATRIX.md:26). A lost callback is not made up for.
- When two exit deals wait for their callbacks, the first one finds the position closed
  and settles the outcome without the second (2697-2708).
- `FinalizeStrategyContextHistory` does not look at the quarantine (8710-8735;
  docs/R6_RESILIENCE_HARDENING_TEST_MATRIX.md:53), and `FinalizeStrategyHistory` ignores the contract fingerprint on which
  execution learning excludes a trade (12207-12213); that fingerprint holds the tick value, which
  moves with the market.
- A trade of unknown RISK counts as a loss of nothing (8397, 2703), also one whose ambiguous
  order was found but whose entry callback still waits.
- A position closed by hand while a timer event is between two steps is learned if its
  callback comes later (`noticed` is then false); a close by hand alone carries no magic number and is never
  counted.
- The row of a cause is flushed before its mark (14717-14720): a crash writes it twice; a file
  that cannot be opened loses the row, the mark is set all the same (14672;
  docs/R6_RESILIENCE_HARDENING_TEST_MATRIX.md:65 asks for one per closed position).
- With inputs of a new generation the strategy history learns before `DataIntegrityInit`
  clears what was learned, so that trade is lost; the MAE_MFE_ aggregates are not
  cleared (12292).
- A denial flushed but not yet in the files is undone by the restore
  (docs/RECOVERY_INVARIANTS.md:132); `ResurrectedIsCooled` bounds the damage.
- With no valid backup the restore reads a primary without END
  (docs/RECOVERY_INVARIANTS.md:123, docs/FAIL_CLOSED_RECOVERY_DRILL.md:26), and
  two crashes in a row can leave no sealed file at all.
- The block after an unexpected volume increase ends with the next reconciliation,
  which compares with the volume just stored (14442).
- A re-initialisation that keeps the globals appends the recovered prompts to the
  ones still in `g_pending` (2535).
- After a trade the lifecycle of a symbol stays SENT until a cooldown or a
  rejection invalidates it (13519); the candidate's class is kept per symbol, not per
  prompt (19123); a click that waited applies to the setup that replaced the one it was for.
- The exporter writes the SET before the manifest, which can still fail
  (export_mt5_release_inputs.py:434), and never compares the evidence it read
  first with what the validators read. Evidence swapped in between for another candidate's
  gives a preset whose lines nobody reviewed; `GoWasReviewed` speaks of what the
  validators read, `IssuedForTheWorld` of evidence left alone.
- A page that says NO-GO passes `--require-pass` and the drift check when HEAD moves between the
  five times it is asked for (generate_release_truth_dashboard.py:200, 206, 309,
  check_release_truth_drift.py:84, 85); `PackagedDashboardIsTrue` says PASS for a
  HEAD that stands still.
- `review_digest` is compared only if the review has one
  (validate_final_release_review.py:190); what is signed is then held by the basis digest alone.
- The customer package copies what it hashed and scanned earlier
  (build_customer_release_package.py:60, 75, 81); only secrets are looked for again (107), and the
  refused directory stays.
- The compile record's `ex5_sha256` is compared with the file on disk, not with
  `build.ex5_sha256` of the evidence; both must match the same file.
- Rows on HOLD do not keep the dashboard from an overall PASS
  (generate_release_truth_dashboard.py:164): security and retention are rows only.
- The checklists of the five-day soak record are looked for, not hashed
  (validate_five_day_soak_record.py:55); an asset class the broker does not have
  may be marked live (validate_broker_coverage_evidence.py:189).

## 6. Not modelled, and the plan

Done: the four parts of the trading program in which a mistake costs most
(double exposure, unprotected position, lost decision, wrong approval), what it makes of
a trade that ended, the release from the push to the delivery, and the proofs of all
their safety properties.

Hazards of the code that no model reaches yet:

- the plan of a trade (risk, kind, stop) is kept per symbol and may be replaced before
  its entry deal is reported (2679);
- an unexpected growth of a position blocks entries for one pass only (14442);
- `OrderCalcProfit` fails and the risk of a position counts as zero (2191);
- a scheduled slot is one minute wide (569): a blocking handler skips it, a
  restart repeats it;
- a fill after the ambiguity window (14347), excluded by `LatencyAssumption`;
- a price that falls back below TP1 after the scale-out (16497), excluded by the
  last disjunct of `BreakEvenReached`;
- a re-initialisation that keeps the globals (2535).

Next, each with the abstract statement it is to be held against:

1. `BrokerReconciliation`: the 30 s pass over positions with external changes of stops
   and targets, foreign positions, and the entry block, composed with the
   modifications `PositionProtection` announces (EA_EXPECT_*).
2. `RiskAccounting`: the limits of the kill switch and the day session, on the streak
   and the results `TradeLearning` keeps.
3. `ChampionChallenger` and `StrategyHealth`: promotion, probation, rollback and
   modes, on the samples `TradeLearning` delivers.
4. `ApiTransport`, `ScanSchedule`, `ReleaseGates`: backoff, degraded mode,
   slots, and what remains allowed while new entries are refused.
5. `RiskSizing`: volume normalisation, lot size, portfolio and correlated caps
   as functions, checked against reference definitions over bounded inputs.
6. `ApprovalWorkflow` with re-initialisation and the strategy class.

Left out for good: the strategy heuristics and the texts of news and language
model (numbers and words outside what can be enumerated; their verdicts are free
choices), drawing, journals and reports nobody reads back, and the static
checkers, which are token searches with an exit code.
