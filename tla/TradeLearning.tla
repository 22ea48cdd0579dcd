---------------------------- MODULE TradeLearning ----------------------------
(***************************************************************************)
(* What the program makes of a trade that ended.  It hears of a deal       *)
(* through OnTradeTransaction and keeps an account of its own (REALIZED,   *)
(* the statistics of the setup, the loss streak of the kill switch); the   *)
(* timer reads the broker's history and feeds three stores that later      *)
(* gate entries (strategy history, its context, execution learning) and    *)
(* the file of causes.  A trade touched from outside is quarantined.       *)
(*                                                                         *)
(* Account and stores are terminal variables, which survive a crash of the *)
(* terminal as they were when last flushed; the file of causes is flushed  *)
(* row by row.  Each trade has its own symbol.  Of a result only its       *)
(* amount counts, of RISK only whether it is known.  The magic number is   *)
(* that of an order of the program or of a stop at the broker; a deal      *)
(* closed by hand carries none.                                            *)
(***************************************************************************)
EXTENDS Integers, Sequences, FiniteSets

CONSTANTS
    TradeCount,     \* positions of the program, numbered in order of opening
    Gains,          \* what an exit deal may bring
    MaxExits,       \* BOUND: exit deals of all positions together
    MaxQueue,       \* BOUND: deals waiting for their callback
    MaxFaults,      \* BOUND: deals by hand, ambiguous orders, lost and doubled
                    \* callbacks, failed reads, changed inputs and contracts
    MaxCrashes      \* BOUND: crashes and stops

ASSUME TradesAssumption == TradeCount \in Nat
ASSUME GainsAssumption  == Gains \subseteq Int
ASSUME BoundsAssumption ==
    MaxExits \in Nat /\ MaxQueue \in Nat /\ MaxFaults \in Nat /\ MaxCrashes \in Nat

Trades == 1 .. TradeCount

Volume == 2         \* of a new position; a partial exit leaves half of it

VARIABLES
    pos,        \* "none", "open" or "closed": the broker's positions
    vol,        \* their volume
    result,     \* what the exit deals of a position brought so far
    history,    \* the exit deals, in order: whose, and with magic number?
    planned,    \* the plan names a strategy and is recent: it can be attached
    queue,      \* deals OnTradeTransaction has not been called for
    gv,         \* the terminal variables: one row per trade, and CONSEC_LOSS
    disk,       \* gv when last flushed
    causes,     \* rows of the file of causes, per trade
    config,     \* the sensitive inputs the program runs with
    pc,         \* the step of OnTimer, "idle" between events, "down"
    todo,       \* the trades FinalizeCausalAttributionHistory has collected
    clean,      \* (history variable) every deal was heard of once and in time
    noticed,    \* (history variable) the trade was found touched while open
    faults, crashes

broker  == << pos, vol, result, history, planned >>
ghosts  == << clean, noticed >>
counts  == << faults, crashes >>
vars == << broker, queue, gv, disk, causes, config, pc, todo, ghosts,
           counts >>

Configs == 1 .. 2       \* 0 in a row: no configuration was bound

NewRow ==
    [strategy |-> FALSE, risk |-> FALSE, meta |-> FALSE, bound |-> FALSE,
     cfg |-> 0, reconVol |-> 0, partial |-> FALSE,
     manual |-> FALSE, anomaly |-> FALSE, quarantine |-> FALSE,
     realized |-> 0, final |-> FALSE, stratFinal |-> 0, contextFinal |-> 0,
     adaptFinal |-> 0, causeFinal |-> 0,
     counted |-> << >>, strat |-> << >>, context |-> << >>, adapt |-> << >>]

Init ==
    /\ pos = [t \in Trades |-> "none"] /\ vol = [t \in Trades |-> 0]
    /\ result = [t \in Trades |-> 0] /\ history = << >>
    /\ planned = [t \in Trades |-> FALSE]
    /\ queue = << >>
    /\ gv = [trade |-> [t \in Trades |-> NewRow], losses |-> 0,
             generation |-> 1]
    /\ disk = gv
    /\ causes = [t \in Trades |-> 0]
    /\ config = 1 /\ pc = "idle" /\ todo = {}
    /\ clean = [t \in Trades |-> TRUE] /\ noticed = [t \in Trades |-> FALSE]
    /\ faults = 0 /\ crashes = 0

PositionIdentifierOpen(t) == pos[t] = "open"
Row(t) == gv.trade[t]
Queued(t) == \E i \in DOMAIN queue : queue[i].t = t
ExitDeals(t) == { i \in DOMAIN history : history[i].t = t }
OwnExits(t)  == { i \in ExitDeals(t) : history[i].own }

Fault == faults < MaxFaults /\ faults' = faults + 1

-----------------------------------------------------------------------------
(* The broker.  An order is placed by a handler (ApprovedPlaceTrade), which *)
(* also binds the position and saves a checkpoint, unless the answer was    *)
(* ambiguous: then the position is found by the reconciliation, and RISK by *)
(* the callback of the entry deal, which otherwise has nothing to add.      *)

BoundRow(plan) ==
    [NewRow EXCEPT !.strategy = plan, !.risk = TRUE, !.meta = TRUE,
                   !.bound = TRUE, !.cfg = config, !.reconVol = Volume]

Open(t, plan, answered) ==
    /\ pc = "idle" /\ pos[t] = "none"
    /\ \A u \in Trades : u < t => pos[u] # "none"
    /\ Len(queue) < MaxQueue
    /\ pos' = [pos EXCEPT ![t] = "open"] /\ vol' = [vol EXCEPT ![t] = Volume]
    /\ planned' = [planned EXCEPT ![t] = plan]
    /\ gv' = IF answered THEN [gv EXCEPT !.trade[t] = BoundRow(plan)] ELSE gv
    /\ disk' = gv'
    /\ IF plan /\ answered THEN UNCHANGED faults ELSE Fault
    /\ queue' = IF answered THEN queue
                ELSE Append(queue, [t |-> t, entry |-> TRUE, own |-> TRUE,
                                    gain |-> 0])
    /\ UNCHANGED << result, history, causes, config, pc, todo, ghosts,
                    crashes >>

(* An exit deal: by the program or a stop at the broker (own), or by hand.  *)
(* Half of the volume leaves by hand or by the program's TP1 order, whose   *)
(* handler sets TP1PARTIAL; a stop takes all that is left.                  *)
Exit(t, own, gain, left) ==
    /\ pos[t] = "open" /\ left < vol[t] /\ Len(history) < MaxExits
    /\ Len(queue) < MaxQueue
    /\ own /\ left > 0 => pc = "idle" /\ ~Row(t).partial
    /\ vol' = [vol EXCEPT ![t] = left]
    /\ pos' = [pos EXCEPT ![t] = IF left = 0 THEN "closed" ELSE "open"]
    /\ result' = [result EXCEPT ![t] = @ + gain]
    /\ history' = Append(history, [t |-> t, own |-> own])
    /\ queue' = IF pc = "down" THEN queue
                ELSE Append(queue, [t |-> t, entry |-> FALSE, own |-> own,
                                    gain |-> gain])
    /\ gv' = IF own /\ left > 0 THEN [gv EXCEPT !.trade[t].partial = TRUE]
             ELSE gv
    /\ clean' = [clean EXCEPT ![t] = @ /\ own /\ pc # "down" /\ ~Queued(t)]
    /\ IF own THEN UNCHANGED faults ELSE Fault
    /\ UNCHANGED << planned, disk, causes, config, pc, todo, noticed,
                    crashes >>

-----------------------------------------------------------------------------
(* OnTradeTransaction.  Its first half marks a deal made by hand on a trade *)
(* it knows; its second keeps the account.                                  *)

ByHand(row) == [row EXCEPT !.manual = TRUE, !.quarantine = TRUE]

Marked(g, t) == [g EXCEPT !.trade[t] = ByHand(@)]

Touched(d) == ~d.own /\ (Row(d.t).strategy \/ Row(d.t).bound)

HandleReliability(g, d) == IF Touched(d) THEN Marked(g, d.t) ELSE g

HandleEntryDeal(g, d) == [g EXCEPT !.trade[d.t].risk = TRUE]

(* UpdateSetupStats: a result of nothing counts as a loss.                  *)
UpdateSetupStats(g, t, r) ==
    [g EXCEPT !.trade[t].counted = Append(@, r),
              !.losses = IF r > 0 THEN 0 ELSE @ + 1]

(* Faulty variant: settled with its first exit deal, also by a partial one. *)
HandleExitDealAtOnce(g, d) ==
    LET t == d.t
        realized == g.trade[t].realized + d.gain
        added == [g EXCEPT !.trade[t].realized = realized]
    IN IF g.trade[t].final THEN added
       ELSE [UpdateSetupStats(added, t,
                IF g.trade[t].risk THEN realized ELSE 0)
                EXCEPT !.trade[t].final = TRUE]

HandleExitDeal(g, d) ==
    LET t == d.t
        realized == g.trade[t].realized + d.gain
        added == [g EXCEPT !.trade[t].realized = realized]
    IN IF PositionIdentifierOpen(t) \/ g.trade[t].final THEN added
       ELSE [UpdateSetupStats(added, t,
                IF g.trade[t].risk THEN realized ELSE 0)
                EXCEPT !.trade[t].final = TRUE]

HandleRiskAnalytics(g, d) ==
    IF ~d.own THEN g
    ELSE IF d.entry THEN HandleEntryDeal(g, d) ELSE HandleExitDeal(g, d)

(* A callback delivered again at once is recognised by its signature, but   *)
(* only in the first half: the second runs again.                           *)
OnTradeTransaction(again) ==
    /\ pc = "idle" /\ queue # << >>
    /\ LET d == Head(queue)
           once == HandleRiskAnalytics(HandleReliability(gv, d), d)
       IN /\ gv' = IF again THEN HandleRiskAnalytics(once, d) ELSE once
          /\ clean' = [clean EXCEPT ![d.t] = @ /\ ~again]
          /\ noticed' = [noticed EXCEPT ![d.t] =
                            @ \/ (Touched(d) /\ PositionIdentifierOpen(d.t))]
    /\ queue' = Tail(queue)
    /\ IF again THEN Fault ELSE UNCHANGED faults
    /\ UNCHANGED << broker, disk, causes, config, pc, todo, crashes >>

LoseCallback ==
    /\ queue # << >> /\ Fault
    /\ clean' = [clean EXCEPT ![Head(queue).t] = FALSE]
    /\ queue' = Tail(queue)
    /\ UNCHANGED << broker, gv, disk, causes, config, pc, todo, noticed,
                    crashes >>

-----------------------------------------------------------------------------
(* The timer: one step per finalizer, in the order of OnTimer.              *)

FirstOwnExit(t) ==
    CHOOSE i \in OwnExits(t) : \A j \in OwnExits(t) : i <= j

Before(t, u) == FirstOwnExit(t) < FirstOwnExit(u)

(* AttachStrategyMetadataToOpenPositions *)
Attached(g) ==
    [g EXCEPT !.trade = [t \in Trades |->
        IF PositionIdentifierOpen(t) /\ planned[t]
        THEN [@[t] EXCEPT !.strategy = TRUE] ELSE @[t]]]

(* Faulty variant: the position is not asked whether it is still open.      *)
EndedInPart(t) == OwnExits(t) # {}

Ended(t) == OwnExits(t) # {} /\ ~PositionIdentifierOpen(t)

StrategyQuarantined(row) ==
    \/ row.quarantine \/ row.manual \/ row.anomaly
    \/ row.cfg > 0 /\ row.cfg # config

(* FinalizeStrategyHistory walks the deals in their order.  To add up a     *)
(* position it selects that position's history, which replaces the list it  *)
(* is walking: the first trade it learns is the last it looks at.           *)
FinalizeStrategyHistory(g) ==
    LET due == { t \in Trades : /\ Ended(t) /\ g.trade[t].strategy
                                /\ g.trade[t].stratFinal = 0 }
        excluded == { t \in due : StrategyQuarantined(g.trade[t]) }
        learned == { t \in due \ excluded :
                        \A u \in due \ excluded : t = u \/ Before(t, u) }
        reached(t) == \A u \in learned : t = u \/ Before(t, u)
        Learn(row, t) ==
            [row EXCEPT !.stratFinal = 1,
                        !.strat = Append(@, IF row.risk THEN result[t] ELSE 0)]
    IN [g EXCEPT !.trade = [t \in Trades |->
            IF t \in learned THEN Learn(@[t], t)
            ELSE IF t \in excluded /\ reached(t)
                 THEN [@[t] EXCEPT !.stratFinal = 2]
            ELSE @[t]]]

(* FinalizeStrategyContextHistory: one trade per call too, and no look at   *)
(* the quarantine.                                                          *)
FinalizeContextHistory(g) ==
    LET due == { t \in Trades :
                    /\ Ended(t) /\ g.trade[t].strategy /\ g.trade[t].risk
                    /\ g.trade[t].contextFinal = 0 }
        Learn(row, t) ==
            [row EXCEPT !.contextFinal = 1, !.context = Append(@, result[t])]
    IN [g EXCEPT !.trade = [t \in Trades |->
           IF t \in due /\ \A u \in due : t = u \/ Before(t, u)
           THEN Learn(@[t], t) ELSE @[t]]]

Step(at, next) == pc = at /\ pc' = next

(* StrategyIntelligenceTimerFull.  What OnTimer does before it adds nothing *)
(* here, so a timer event starts with it; "strategy" is OnInit at this step.*)
StartsTimer == pc \in {"idle", "strategy"} /\ pc' = "adaptive"

StrategyTimer ==
    /\ StartsTimer
    /\ gv' = FinalizeContextHistory(FinalizeStrategyHistory(Attached(gv)))
    /\ UNCHANGED << broker, queue, disk, causes, config, todo, ghosts,
                    counts >>

(* Faulty variant: the mark left earlier is not read, only its usual causes.*)
QuarantineByCause(row, moved) ==
    \/ row.manual
    \/ row.cfg > 0 /\ (row.cfg # config \/ moved)

(* moved: the contract of the symbol is not the one bound to the trade; its *)
(* fingerprint holds the tick value, which moves with the market.           *)
LearningSampleShouldQuarantine(row, moved) ==
    \/ row.quarantine \/ row.manual \/ row.anomaly
    \/ row.cfg > 0 /\ (row.cfg # config \/ moved)

(* Faulty variant: an excluded trade is passed over and asked again.        *)
FinalizeLearnedOnly(row, t, moved) ==
    IF LearningSampleShouldQuarantine(row, moved)
    THEN [row EXCEPT !.quarantine = TRUE]
    ELSE [row EXCEPT !.adaptFinal = 1, !.adapt = Append(@, result[t])]

(* FinalizeAdaptiveLearningHistoryR5 collects the trades first.             *)
FinalizeAdaptiveLearning(row, t, moved) ==
    IF LearningSampleShouldQuarantine(row, moved)
    THEN [row EXCEPT !.quarantine = TRUE, !.adaptFinal = 2]
    ELSE [row EXCEPT !.adaptFinal = 1, !.adapt = Append(@, result[t])]

(* DataIntegrityInit: inputs of another generation clear what was learned,  *)
(* after the strategy history has run.  On a timer it finds nothing to do.  *)
EnsureLearningGeneration(g) ==
    IF g.generation = config THEN g
    ELSE [g EXCEPT !.generation = config,
                   !.trade = [t \in Trades |->
                       [@[t] EXCEPT !.strat = << >>, !.context = << >>,
                                    !.adapt = << >>]]]

AdaptiveTimer(moved) ==
    /\ Step("adaptive", "reliability")
    /\ LET g == EnsureLearningGeneration(gv)
           due == { t \in Trades :
                       /\ Ended(t) /\ Row(t).strategy /\ Row(t).risk
                       /\ Row(t).meta /\ Row(t).adaptFinal = 0 }
       IN /\ moved \subseteq due
          /\ gv' = [g EXCEPT !.trade = [t \in Trades |->
                       IF t \in due
                       THEN FinalizeAdaptiveLearning(@[t], t, t \in moved)
                       ELSE @[t]]]
    /\ disk' = gv'
    /\ IF moved = {} THEN UNCHANGED faults ELSE Fault
    /\ UNCHANGED << broker, queue, causes, config, todo, ghosts, crashes >>

(* FinalizeCausalAttributionHistory: any deal's magic number will do.       *)
CausesDue ==
    { t \in Trades :
        /\ ExitDeals(t) # {} /\ ~PositionIdentifierOpen(t)
        /\ Row(t).strategy /\ Row(t).risk /\ Row(t).causeFinal = 0 }

(* ExecutionReliabilityTimer: the storage check, which may fail and then    *)
(* marks every open position, and the reconciliation, which looks for a     *)
(* volume that shrank without a recorded partial and joins a position that  *)
(* was left without its binding to its intent.                              *)
Unexplained(t) ==
    /\ Row(t).reconVol > vol[t]
    /\ ~Row(t).partial /\ ~Row(t).manual

Anomalous(row) == [row EXCEPT !.anomaly = TRUE, !.quarantine = TRUE]

Reconciled(row, t) ==
    LET seen == [row EXCEPT !.reconVol = vol[t], !.bound = TRUE]
    IN IF Unexplained(t) THEN Anomalous(seen) ELSE seen

(* The finalizer of the causes collects what is due, and ends with a flush. *)
CollectCauses ==
    /\ pc = "reliability" /\ todo' = CausesDue
    /\ IF CausesDue = {} THEN pc' = "idle" /\ disk' = gv'
       ELSE pc' = "causal" /\ UNCHANGED disk

ReliabilityTimer(storageFails) ==
    /\ IF storageFails THEN Fault ELSE UNCHANGED faults
    /\ gv' = [gv EXCEPT !.trade = [t \in Trades |->
                 IF ~PositionIdentifierOpen(t) THEN @[t]
                 ELSE Reconciled(IF storageFails THEN Anomalous(@[t])
                                 ELSE @[t], t)]]
    /\ noticed' = [t \in Trades |->
                      \/ noticed[t]
                      \/ PositionIdentifierOpen(t)
                         /\ (Unexplained(t) \/ storageFails)]
    /\ CollectCauses
    /\ UNCHANGED << broker, queue, causes, config, clean, crashes >>

(* Storage and reconciliation have intervals of their own.                  *)
ReliabilityNotDue ==
    /\ UNCHANGED << broker, queue, gv, causes, config, ghosts, counts >>
    /\ CollectCauses

(* The row is flushed to its file before the mark; a file that cannot be    *)
(* opened is passed over, and the mark is set all the same.                 *)
AttributeCause(t, fileOpens) ==
    /\ pc = "causal" /\ t \in todo
    /\ todo' = todo \ {t}
    /\ causes' = IF fileOpens THEN [causes EXCEPT ![t] = @ + 1] ELSE causes
    /\ IF fileOpens THEN UNCHANGED faults ELSE Fault
    /\ gv' = [gv EXCEPT !.trade[t].causeFinal = 1]
    /\ UNCHANGED << broker, queue, disk, config, pc, ghosts, crashes >>

CausesEnd ==
    /\ Step("causal", "idle") /\ todo = {}
    /\ disk' = gv
    /\ UNCHANGED << broker, queue, gv, causes, config, todo, ghosts,
                    counts >>

(* HistorySelect fails: the finalizer returns.                              *)
HistoryFails ==
    /\ Fault
    /\ \/ StartsTimer /\ gv' = Attached(gv)
       \/ Step("adaptive", "reliability") /\ gv' = EnsureLearningGeneration(gv)
       \/ Step("reliability", "idle") /\ UNCHANGED gv
    /\ UNCHANGED << broker, queue, disk, causes, config, todo, ghosts,
                    crashes >>

(* A checkpoint, of OnTimer before the finalizers or of another handler,    *)
(* flushes the terminal variables.                                          *)
Checkpoint ==
    /\ pc = "idle" /\ disk # gv
    /\ disk' = gv
    /\ UNCHANGED << broker, queue, gv, causes, config, pc, todo, ghosts,
                    counts >>

-----------------------------------------------------------------------------
(* Crash and restart. *)

Down ==
    /\ crashes < MaxCrashes /\ crashes' = crashes + 1
    /\ pc' = "down" /\ queue' = << >> /\ todo' = {}
    /\ UNCHANGED << broker, disk, causes, config, faults >>

(* OnDeinit saves a checkpoint. *)
Stop ==
    /\ pc = "idle" /\ Down
    /\ clean' = [t \in Trades |-> clean[t] /\ ~Queued(t)]
    /\ UNCHANGED << gv, noticed >>

Crash ==
    /\ pc # "down" /\ Down
    /\ gv' = disk
    /\ clean' = [t \in Trades |->
                    clean[t] /\ ~Queued(t) /\ disk.trade[t] = Row(t)]
    /\ noticed' = [t \in Trades |-> noticed[t] /\ disk.trade[t].quarantine]

(* OnInit: RecoverOpenPositionState and the checkpoint give an open position *)
(* its RISK back when they can; then the finalizers run as on a timer.       *)
Start(c, riskKnown) ==
    /\ pc = "down" /\ pc' = "strategy"
    /\ IF c = config /\ riskKnown THEN UNCHANGED faults ELSE Fault
    /\ config' = c
    /\ gv' = [gv EXCEPT !.trade = [t \in Trades |->
                 IF PositionIdentifierOpen(t) /\ riskKnown
                 THEN [@[t] EXCEPT !.risk = TRUE] ELSE @[t]]]
    /\ disk' = gv'
    /\ UNCHANGED << broker, queue, causes, todo, ghosts, crashes >>

Timer ==
    \/ StrategyTimer \/ AdaptiveTimer({})
    \/ ReliabilityTimer(FALSE) \/ ReliabilityNotDue
    \/ (\E t \in Trades : AttributeCause(t, TRUE)) \/ CausesEnd

Next ==
    \/ \E t \in Trades, plan \in BOOLEAN, answered \in BOOLEAN :
           Open(t, plan, answered)
    \/ \E t \in Trades, own \in BOOLEAN, gain \in Gains, left \in 0 .. 1 :
           Exit(t, own, gain, left)
    \/ \E again \in BOOLEAN : OnTradeTransaction(again)
    \/ LoseCallback
    \/ Timer
    \/ \E moved \in SUBSET Trades \ {{}} : AdaptiveTimer(moved)
    \/ ReliabilityTimer(TRUE)
    \/ \E t \in Trades : AttributeCause(t, FALSE)
    \/ HistoryFails \/ Checkpoint \/ Stop \/ Crash
    \/ \E c \in Configs, riskKnown \in BOOLEAN : Start(c, riskKnown)

Spec == Init /\ [][Next]_vars

(* The timer keeps firing (EventSetTimer) and each handler ends; a program  *)
(* that went down is started again with the inputs it had.                  *)
FairSpec ==
    /\ Spec
    /\ WF_vars(Timer)
    /\ WF_vars(Start(config, TRUE))

-----------------------------------------------------------------------------
(* Properties. *)

(* A trade enters each learning store at most once (8377, 8722, 12995) and *)
(* only when it has ended, with all its exit deals; the strategy history   *)
(* takes a trade of unknown RISK as one that brought nothing (8397).  Its  *)
(* cause is written once per life of the terminal at most (14702).         *)
LearnedTruly ==
    \A t \in Trades :
        /\ Row(t).strat \in { << >>, << result[t] >>, << 0 >> }
        /\ Row(t).strat = << 0 >> /\ Row(t).meta => result[t] = 0
        /\ Row(t).context \in { << >>, << result[t] >> }
        /\ Row(t).adapt \in { << >>, << result[t] >> }
        /\ Len(Row(t).counted) <= 1
        /\ causes[t] <= 1 + crashes

(* A trade all of whose deals were heard of once, each before the next, is *)
(* counted with the result the broker's history gives it (2694-2708), and  *)
(* if that is so of all ended trades, CONSEC_LOSS, on which the kill       *)
(* switch decides, is the length of the last run of losing trades (2623).  *)
Settled(t) == pos[t] = "closed" /\ clean[t] /\ ~Queued(t)
LastExit(t) == CHOOSE i \in ExitDeals(t) : \A j \in ExitDeals(t) : j <= i
Closed == { t \in Trades : pos[t] = "closed" }
LosingRun ==
    { t \in Closed : /\ result[t] <= 0
                     /\ \A u \in Closed : result[u] > 0 => LastExit(u) < LastExit(t) }
AccountingIsTrue ==
    /\ \A t \in Trades : Settled(t) => Row(t).counted = << result[t] >>
    /\ (\A t \in Closed : Settled(t)) => gv.losses = Cardinality(LosingRun)

(* A trade that was found touched while it was open (by the callback of a  *)
(* deal made by hand, by a volume that shrank unexplained, by a failed     *)
(* storage check) enters neither strategy history nor execution learning   *)
(* (8381, 12190), also over a restart, provided the mark was durable.      *)
TouchedIsNotLearned ==
    \A t \in Trades :
        noticed[t] => Row(t).strat = << >> /\ Row(t).adapt = << >>

(* Every ended trade the program knows enough of is finalized by each of   *)
(* the four (8406, 8733, 13035, 14718), although two of them take one      *)
(* trade per call.                                                         *)
Finalized(t) ==
    /\ Row(t).stratFinal > 0
    /\ Row(t).risk => /\ Row(t).contextFinal > 0 /\ Row(t).causeFinal > 0
                      /\ Row(t).meta => Row(t).adaptFinal > 0
EveryTradeFinalized ==
    []<>(\A t \in Trades : Ended(t) /\ Row(t).strategy => Finalized(t))
==============================================================================
