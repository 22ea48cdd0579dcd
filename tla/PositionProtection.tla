------------------------- MODULE PositionProtection -------------------------
(***************************************************************************)
(* Management of one open position (Parts 12, 13, 14 and 18 of GPT_EA.mq5): *)
(* the TP1 and TP2 scale-outs, the ladder of protective stops, the policy   *)
(* for stop updates that fail, the restoration or emergency close of a      *)
(* position without a stop, the partial-protection hazard, and what a       *)
(* restart rebuilds from the broker's state and history.                    *)
(*                                                                          *)
(* A pass of the timer over the position is a sequence of steps, one for    *)
(* each trade-server call and one for the writes that follow it: the price, *)
(* the broker's stop, the operator and a crash of the terminal interleave   *)
(* between them. Prices and stops are those of a BUY, in steps of the model *)
(* scale; a SELL is its mirror image in the code.                           *)
(***************************************************************************)
EXTENDS Integers

CONSTANTS
  Entry,           \* POSITION_PRICE_OPEN
  InitialSL,       \* the structural stop, below the entry
  MinPrice, MaxPrice,
  TP1, TP2, TP3,   \* targets; the broker closes the position at TP3
  BETrigger, ProfitLockTrigger, StrongLockTrigger, TrailStart,
  ProfitLock, StrongLock,    \* the stops these triggers move to
  FreezeDistance,            \* BrokerModifyDistance
  Lots,                      \* volume of the entry, in volume steps
  TP1Percent, TP2Percent,    \* InpPartialAtTP1Percent, InpPartialAtTP2Percent
  PauseAfter,                \* InpStopFailurePauseAfter
  MaxFaults,                 \* BOUND: restarts, crashes, stops deleted by hand and
                             \* reductions executed yet reported failed
  HistoryMayMiss,            \* HistorySelectByPosition may not answer
  OperatorRemovesStop        \* the stop may be deleted by hand

ASSUME LevelsAssumption ==     \* AdvancedManagementConfigSafe
  /\ {Entry, InitialSL, MinPrice, MaxPrice, TP1, TP2, TP3, BETrigger,
      ProfitLockTrigger, StrongLockTrigger, TrailStart, ProfitLock,
      StrongLock} \subseteq Nat
  /\ MinPrice <= InitialSL /\ 0 < InitialSL /\ InitialSL < Entry
  /\ Entry < TP1 /\ TP1 < TP2 /\ TP2 < TP3 /\ TP3 <= MaxPrice
  /\ Entry < BETrigger /\ BETrigger <= ProfitLockTrigger
  /\ Entry <= ProfitLock /\ ProfitLock < ProfitLockTrigger
  /\ ProfitLockTrigger <= StrongLockTrigger
  /\ ProfitLock <= StrongLock /\ StrongLock < StrongLockTrigger
  /\ StrongLockTrigger <= TrailStart

ASSUME SizesAssumption ==
  /\ FreezeDistance \in Nat /\ Lots \in Nat \ {0}
  /\ TP1Percent \in 1..100 /\ TP2Percent \in 1..100
  /\ PauseAfter \in Nat \ {0} /\ MaxFaults \in Nat
  /\ HistoryMayMiss \in BOOLEAN /\ OperatorRemovesStop \in BOOLEAN

Prices == MinPrice..MaxPrice
NoStop == 0                       \* POSITION_SL = 0
Stops  == NoStop..MaxPrice

\* A stored time, as old as the code tells it apart: STOP_FAIL_FIRST against
\* the emergency delay, TP1_TIME against InpPartialProtectionMaxSeconds,
\* STOP_FAIL_NEXT_RETRY (or the time of the last failure) against the clock.
Ages == {"unset", "recent", "old"}

VARIABLES
  pos,     \* the position at the broker: open, volume, stop, and (history)
           \* whether its stop was ever deleted by hand
  px,      \* the price it would close at
  taken,   \* TP1 and TP2 reductions executed: its exit deals
  gv,      \* its terminal global variables, and the pause
  disk,    \* the same as of the last GlobalVariablesFlush
  up,      \* the EA is attached and initialised
  pc, lc,  \* where the pass is, and its local variables
  restarts,
  faults   \* (history) TP1 and TP2 reductions executed whose answer was lost,
           \* and restarts that missed an exit deal in history

vars == <<pos, px, taken, gv, disk, up, pc, lc, restarts, faults>>

State == [partial1: BOOLEAN, done1: BOOLEAN, partial2: BOOLEAN,
          tp1Time: Ages, started: BOOLEAN, logged: BOOLEAN,
          stage: 0..4, count: 0..PauseAfter, first: Ages, retry: Ages,
          critical: BOOLEAN, operator: BOOLEAN, paused: BOOLEAN]

Fresh == [partial1 |-> FALSE, done1 |-> FALSE, partial2 |-> FALSE,
          tp1Time |-> "unset", started |-> FALSE, logged |-> FALSE,
          stage |-> 0, count |-> 0, first |-> "unset", retry |-> "unset",
          critical |-> FALSE, operator |-> FALSE, paused |-> FALSE]

Locals == [done: BOOLEAN, r: Prices, stage: 0..4, step: 1..5]
NoLocals == [done |-> FALSE, r |-> MinPrice, stage |-> 0, step |-> 1]

Init ==
  /\ pos = [open |-> TRUE, vol |-> Lots, sl |-> InitialSL, byHand |-> FALSE]
  /\ px \in {p \in Prices : InitialSL < p /\ p < TP1}
  /\ taken = <<0, 0>>
  /\ gv = Fresh /\ disk = Fresh
  /\ up = TRUE /\ pc = "idle" /\ lc = NoLocals
  /\ restarts = 0
  /\ faults = [tp1 |-> 0, tp2 |-> 0, missed |-> 0]

------------------------------------------------------------------------------
(* Stop-failure state.                                                      *)

RetryDue(g) == g.retry # "recent"     \* StopUpdateRetryDue

\* RecordStopObservationEvent for an event that is not a recovery: the class
\* of the last server answer decides whether an operator is required, and the
\* next retry is scheduled. An operator state pauses new entries.
Observed(g, operator) ==
  [g EXCEPT !.operator = operator, !.retry = "recent", !.paused = @ \/ operator]

\* Faulty variant: every failure restarts the emergency clock.
FailedAnew(g, critical, operator) ==
  LET n == IF g.count < PauseAfter THEN g.count + 1 ELSE PauseAfter
      f == [g EXCEPT !.count = n, !.critical = critical, !.first = "recent"]
  IN  [Observed(f, operator) EXCEPT !.paused = @ \/ critical \/ n = PauseAfter]

\* RegisterStopUpdateFailure.
Failed(g, critical, operator) ==
  LET n == IF g.count < PauseAfter THEN g.count + 1 ELSE PauseAfter
      f == [g EXCEPT !.count = n, !.critical = critical,
                     !.first = IF @ = "unset" THEN "recent" ELSE @]
  IN  [Observed(f, operator) EXCEPT !.paused = @ \/ critical \/ n = PauseAfter]

\* ClearStopFailureState: nothing to clear unless a failure was counted.
Cleared(g) ==
  IF g.count = 0 THEN g
  ELSE [g EXCEPT !.count = 0, !.first = "unset", !.retry = "unset",
                 !.critical = FALSE, !.operator = FALSE]

\* The end of RecordPartialProtectionObservation for COMPLETED and RECOVERED.
Settled(g) ==
  IF g.count = 0 /\ ~g.critical
  THEN [g EXCEPT !.retry = "unset", !.operator = FALSE]
  ELSE Observed(g, FALSE)

\* Faulty variant: the start is observed on every pass.
StartedAgain(g) == Observed([g EXCEPT !.started = TRUE], FALSE)

EnsureStarted(g) ==
  IF g.started THEN g ELSE Observed([g EXCEPT !.started = TRUE], FALSE)

Completed(g) ==
  IF g.started THEN [Settled(g) EXCEPT !.started = FALSE] ELSE g

\* ObservePartialProtectionState.
PartialHazard(g) == g.partial1 /\ ~g.done1 /\ g.tp1Time = "old"
ObservePartial(g) ==
  IF PartialHazard(g)
  THEN [(IF g.logged THEN g ELSE Observed([g EXCEPT !.logged = TRUE], FALSE))
          EXCEPT !.paused = TRUE]
  ELSE IF g.done1 /\ g.logged THEN [Settled(g) EXCEPT !.logged = FALSE]
  ELSE g

\* StopObservabilityAllowsNewEntries and the manual pause.
EntriesAllowed ==
  /\ up /\ ~gv.paused
  /\ pos.open =>
       /\ pos.sl # NoStop
       /\ ~gv.critical /\ ~gv.operator /\ gv.count < PauseAfter
       /\ ~PartialHazard(gv)

------------------------------------------------------------------------------
(* Stops and volumes.                                                       *)

Protected == pos.sl >= Entry                   \* PositionProtectedAtOrBeyondBE
BrokerSafe(c) == c + FreezeDistance < px

\* Faulty variant: only the first stop of a position is compared.
ImprovesAtAll(c) == c > InitialSL

StopImproves(c) == c > pos.sl                  \* also when there is none

\* ApplyAdvancedStop sends the modification only then.
Sendable(c) == StopImproves(c) /\ BrokerSafe(c)

Lock(s)    == CASE s = 1 -> Entry [] s = 2 -> ProfitLock [] s = 3 -> StrongLock
Trigger(s) == CASE s = 1 -> BETrigger         [] s = 2 -> ProfitLockTrigger
                [] s = 3 -> StrongLockTrigger [] s = 4 -> TrailStart

\* The stop of step s; the trail follows volatility and structure below the
\* price the pass saw, but never below the strong lock.
Candidates(s, r) ==
  IF s < 4 THEN {Lock(s)}
  ELSE {c \in Stops : StrongLock <= c /\ (c < r \/ c = StrongLock)}

ActualStage(sl) ==
  IF sl = NoStop THEN -1
  ELSE IF sl >= StrongLock THEN 3
  ELSE IF sl >= ProfitLock THEN 2
  ELSE IF sl >= Entry THEN 1 ELSE 0

ExpectedStage(r) ==
  IF r >= StrongLockTrigger THEN 3
  ELSE IF r >= ProfitLockTrigger THEN 2
  ELSE IF r >= BETrigger THEN 1 ELSE 0

\* TrailingImprovementStillExpected, for what the market data may say.
TrailExpected(r) == r >= TrailStart /\ \E c \in Candidates(4, px) : Sendable(c)

\* AuditStopUpdateAttempt: the states it may leave, by market data and by the
\* class of the server's last answer.
Audited(g, r) ==
  IF ~RetryDue(g) THEN {g}
  ELSE IF ActualStage(pos.sl) < ExpectedStage(r)
  THEN {Failed(g, pos.sl = NoStop, op) : op \in BOOLEAN}
  ELSE {Cleared(g)} \cup
       {Failed(g, FALSE, op) : op \in {b \in BOOLEAN : TrailExpected(r)}}

\* ReducePosition: a volume that rounds down to nothing closes the position.
Reduced(v, percent) ==
  LET part == (v * percent) \div 100
  IN  IF part = 0 THEN 0 ELSE v - part

Closed == [pos EXCEPT !.open = FALSE, !.vol = 0, !.sl = NoStop]
WithVolume(v) == IF v = 0 THEN Closed ELSE [pos EXCEPT !.vol = v]

\* Restarts, stops deleted and answers lost are followed while the position is
\* open, up to a bound.
Disturbable ==
  /\ pos.open
  /\ restarts + faults.tp1 + faults.tp2 + (IF pos.byHand THEN 1 ELSE 0) < MaxFaults

------------------------------------------------------------------------------
(* A pass of ManagePositionsAdvanced.                                       *)

Step(at) == up /\ pc = at /\ pos.open
Goto(to) == pc' = to
Leave    == pc' = "idle" /\ lc' = NoLocals
Write(g) == gv' = g /\ UNCHANGED disk
Save(g)  == gv' = g /\ disk' = g        \* SafeUniversalCheckpointNow flushes

BeginPass ==
  /\ Step("idle")
  /\ Goto(IF pos.sl = NoStop THEN "restore" ELSE "tp1")
  /\ lc' = NoLocals
  /\ UNCHANGED <<pos, px, taken, gv, disk, up, restarts, faults>>

\* RestoreMissingProtectiveStop, from INITSL or the entry order in history.
Restore ==
  /\ Step("restore") /\ pos.sl = NoStop
  /\ BrokerSafe(InitialSL)
  /\ pos' = [pos EXCEPT !.sl = InitialSL]
  /\ Save(Cleared(gv))
  /\ Goto("tp1")
  /\ UNCHANGED <<px, taken, up, lc, restarts, faults>>

\* The restoration did not succeed: HandleUnprotectedStopFailure.
RestoreFails ==
  /\ Step("restore")
  /\ \E op \in BOOLEAN :
       IF RetryDue(gv) THEN Save(Failed(gv, TRUE, op)) ELSE UNCHANGED <<gv, disk>>
  /\ Goto(IF gv'.first = "old" THEN "emergency" ELSE "idle")
  /\ UNCHANGED <<pos, px, taken, up, lc, restarts, faults>>

EmergencyClose ==
  /\ Step("emergency")
  /\ pos' = Closed
  /\ Save(Observed(gv, FALSE))
  /\ Goto("idle")
  /\ UNCHANGED <<px, taken, up, lc, restarts, faults>>

EmergencyCloseFails ==
  /\ Step("emergency")
  /\ Write(Observed(gv, FALSE))
  /\ Goto("idle")
  /\ UNCHANGED <<pos, px, taken, up, lc, restarts, faults>>

\* HandleTP1State. The price has not reached TP1: the flag decides.
TP1NotReached ==
  /\ Step("tp1") /\ px < TP1
  /\ lc' = [lc EXCEPT !.done = gv.done1]
  /\ Goto("after")
  /\ UNCHANGED <<pos, px, taken, gv, disk, up, restarts, faults>>

TP1Taken ==
  /\ Step("tp1") /\ px >= TP1 /\ gv.partial1
  /\ Goto("be")
  /\ UNCHANGED <<pos, px, taken, gv, disk, up, lc, restarts, faults>>

TP1Reduce ==
  /\ Step("tp1") /\ px >= TP1 /\ ~gv.partial1
  /\ pos' = WithVolume(Reduced(pos.vol, TP1Percent))
  /\ taken' = [taken EXCEPT ![1] = @ + 1]
  /\ Goto(IF pos'.open THEN "flag1" ELSE "idle")
  /\ UNCHANGED <<px, gv, disk, up, lc, restarts, faults>>

\* The server refuses, or its answer is lost although it executed the deal.
TP1ReduceFails ==
  /\ Step("tp1") /\ px >= TP1 /\ ~gv.partial1
  /\ \/ UNCHANGED <<pos, taken, faults>>
     \/ /\ Disturbable
        /\ pos' = WithVolume(Reduced(pos.vol, TP1Percent))
        /\ taken' = [taken EXCEPT ![1] = @ + 1]
        /\ faults' = [faults EXCEPT !.tp1 = @ + 1]
  /\ lc' = [lc EXCEPT !.done = FALSE]
  /\ Goto(IF pos'.open THEN "after" ELSE "idle")
  /\ UNCHANGED <<px, gv, disk, up, restarts>>

FlagTP1 ==
  /\ Step("flag1")
  /\ LET g == [gv EXCEPT !.partial1 = TRUE, !.tp1Time = "recent"]
     IN  Save(IF Protected THEN g ELSE EnsureStarted(g))
  /\ Goto("be")
  /\ UNCHANGED <<pos, px, taken, up, lc, restarts, faults>>

\* TP1DONE and the end of the partial-protection observation.
Finish(g) ==
  Completed([g EXCEPT !.done1 = TRUE,
                      !.tp1Time = IF @ = "unset" THEN "recent" ELSE @])

BEAlready ==
  /\ Step("be") /\ Protected
  /\ Save(Finish(Cleared(gv)))
  /\ lc' = [lc EXCEPT !.done = TRUE]
  /\ Goto("after")
  /\ UNCHANGED <<pos, px, taken, up, restarts, faults>>

BEDeferred ==
  /\ Step("be") /\ ~Protected
  /\ ~RetryDue(EnsureStarted(gv))
  /\ Write(EnsureStarted(gv))
  /\ lc' = [lc EXCEPT !.done = FALSE]
  /\ Goto("after")
  /\ UNCHANGED <<pos, px, taken, up, restarts, faults>>

BEDue == Step("be") /\ ~Protected /\ RetryDue(EnsureStarted(gv))

\* EnsureBreakEvenProtection: the broker accepts the stop,
BEAccepted ==
  /\ BEDue
  /\ px >= BETrigger /\ Sendable(Lock(1))
  /\ pos' = [pos EXCEPT !.sl = Lock(1)]
  /\ lc' = [lc EXCEPT !.r = px]
  /\ Goto("bestamp")
  /\ UNCHANGED <<px, taken, gv, disk, up, restarts, faults>>

\* refuses it, or is not asked.
BERefused ==
  /\ BEDue
  /\ lc' = [lc EXCEPT !.r = px]
  /\ Goto("beaudit")
  /\ UNCHANGED <<pos, px, taken, gv, disk, up, restarts, faults>>

StampBE ==
  /\ Step("bestamp")
  /\ Save([gv EXCEPT !.stage = 1])
  /\ Goto("beaudit")
  /\ UNCHANGED <<pos, px, taken, up, lc, restarts, faults>>

\* Faulty variant: an attempt counts as protection.
AuditBEUnread ==
  /\ Step("beaudit")
  /\ \E g \in Audited(gv, lc.r) : Save(Finish(g))
  /\ lc' = [lc EXCEPT !.done = TRUE]
  /\ Goto("after")
  /\ UNCHANGED <<pos, px, taken, up, restarts, faults>>

AuditBE ==
  /\ Step("beaudit")
  /\ \E g \in Audited(gv, lc.r) :
       IF Protected THEN Save(Finish(g))
       ELSE IF g = gv THEN UNCHANGED <<gv, disk>> ELSE Save(g)
  /\ lc' = [NoLocals EXCEPT !.done = Protected]
  /\ Goto("after")
  /\ UNCHANGED <<pos, px, taken, up, restarts, faults>>

\* After TP1 the position is closed when its expiry has run out, else advanced.
TimeInvalidation ==
  /\ Step("after") /\ ~lc.done
  /\ \/ pos' = Closed
     \/ UNCHANGED pos                       \* not expired, or refused
  /\ Leave
  /\ UNCHANGED <<px, taken, gv, disk, up, restarts, faults>>

BeginAdvance ==
  /\ Step("after") /\ lc.done
  /\ lc' = [lc EXCEPT !.r = px, !.stage = gv.stage, !.step = 1]
  /\ Goto(IF RetryDue(gv) THEN "advance" ELSE "tp2")
  /\ UNCHANGED <<pos, px, taken, gv, disk, up, restarts, faults>>

\* AdvanceProfitProtection: steps 1 to 3 are skipped at or above their stage,
\* the trailing step never is.
Due(s)  == lc.r >= Trigger(s) /\ (s = 4 \/ lc.stage < s)
StepDue == Due(lc.step)

AdvanceAccepted ==
  /\ Step("advance") /\ lc.step < 5 /\ StepDue
  /\ \E c \in Candidates(lc.step, lc.r) :
       Sendable(c) /\ pos' = [pos EXCEPT !.sl = c]
  /\ Goto("stamp")
  /\ UNCHANGED <<px, taken, gv, disk, up, lc, restarts, faults>>

\* Faulty variant: the stage is stamped although the server refused.
AdvanceAnyway ==
  /\ Step("advance") /\ lc.step < 5
  /\ IF StepDue THEN Goto("stamp") /\ UNCHANGED lc
     ELSE lc' = [lc EXCEPT !.step = @ + 1] /\ UNCHANGED pc
  /\ UNCHANGED <<pos, px, taken, gv, disk, up, restarts, faults>>

\* Faulty variant: one step too many.
AdvancePast ==
  /\ Step("advance") /\ lc.step <= 5
  /\ lc' = [lc EXCEPT !.step = @ + 1]
  /\ UNCHANGED <<pos, px, taken, gv, disk, up, pc, restarts, faults>>

\* Not due, not an improvement, not broker-safe, or refused: on to the next
\* step that is due.
AdvanceSkips ==
  /\ Step("advance") /\ lc.step < 5
  /\ \E s \in {n \in lc.step + 1 .. 4 : Due(n)} \cup {5} :
       /\ \A n \in lc.step + 1 .. s - 1 : ~Due(n)
       /\ lc' = [lc EXCEPT !.step = s]
  /\ UNCHANGED <<pos, px, taken, gv, disk, up, pc, restarts, faults>>

StampStage ==
  /\ Step("stamp")
  /\ Save([gv EXCEPT !.stage = lc.step])
  /\ lc' = [lc EXCEPT !.stage = IF lc.step < 4 THEN lc.step ELSE @, !.step = @ + 1]
  /\ Goto("advance")
  /\ UNCHANGED <<pos, px, taken, up, restarts, faults>>

AuditAdvance ==
  /\ Step("advance") /\ lc.step = 5
  /\ \E g \in Audited(gv, lc.r) :
       IF g = gv THEN UNCHANGED <<gv, disk>> ELSE Save(g)
  /\ lc' = [NoLocals EXCEPT !.r = lc.r]
  /\ Goto("tp2")
  /\ UNCHANGED <<pos, px, taken, up, restarts, faults>>

\* HandleTP2Partial, at the price AdvanceProfitProtection started from.
TP2Due == lc.r >= TP2 /\ ~gv.partial2

TP2NotDue ==
  /\ Step("tp2") /\ ~TP2Due
  /\ Goto("stall") /\ lc' = NoLocals
  /\ UNCHANGED <<pos, px, taken, gv, disk, up, restarts, faults>>

TP2Reduce ==
  /\ Step("tp2") /\ TP2Due
  /\ pos' = WithVolume(Reduced(pos.vol, TP2Percent))
  /\ taken' = [taken EXCEPT ![2] = @ + 1]
  /\ Goto(IF pos'.open THEN "flag2" ELSE "idle") /\ lc' = NoLocals
  /\ UNCHANGED <<px, gv, disk, up, restarts, faults>>

TP2ReduceFails ==
  /\ Step("tp2") /\ TP2Due
  /\ \/ UNCHANGED <<pos, taken, faults>>
     \/ /\ Disturbable
        /\ pos' = WithVolume(Reduced(pos.vol, TP2Percent))
        /\ taken' = [taken EXCEPT ![2] = @ + 1]
        /\ faults' = [faults EXCEPT !.tp2 = @ + 1]
  /\ Goto(IF pos'.open THEN "stall" ELSE "idle") /\ lc' = NoLocals
  /\ UNCHANGED <<px, gv, disk, up, restarts>>

FlagTP2 ==
  /\ Step("flag2")
  /\ Save([gv EXCEPT !.partial2 = TRUE])
  /\ Goto("stall")
  /\ UNCHANGED <<pos, px, taken, up, lc, restarts, faults>>

\* The remainder is closed when it stalls before the next barrier.
Stall ==
  /\ Step("stall")
  /\ \/ pos' = Closed
     \/ UNCHANGED pos
  /\ Leave
  /\ UNCHANGED <<px, taken, gv, disk, up, restarts, faults>>

\* The position is gone: PositionSelectByTicket fails at the next step.
PassEnds ==
  /\ up /\ pc # "idle" /\ ~pos.open
  /\ Leave
  /\ UNCHANGED <<pos, px, taken, gv, disk, up, restarts, faults>>

------------------------------------------------------------------------------
(* The other handlers, restarts and the environment.                        *)

\* StopFailureObservabilityTimer; the pause it may set is flushed.
ObserveTimer ==
  /\ Step("idle")
  /\ ObservePartial(gv) # gv
  /\ IF PartialHazard(gv) THEN Save(ObservePartial(gv)) ELSE Write(ObservePartial(gv))
  /\ UNCHANGED <<pos, px, taken, up, pc, lc, restarts, faults>>

\* SafeUniversalRecoveryTimer.
CheckpointTimer ==
  /\ up /\ pc = "idle" /\ disk # gv
  /\ Save(gv)
  /\ UNCHANGED <<pos, px, taken, up, pc, lc, restarts, faults>>

\* The PAUSE button; it checkpoints.
TogglePause ==
  /\ up /\ pc = "idle"
  /\ Save([gv EXCEPT !.paused = ~@])
  /\ UNCHANGED <<pos, px, taken, up, pc, lc, restarts, faults>>

HadExit == taken # <<0, 0>>            \* PositionHistoryHadExit

\* Faulty variant: the exit deals are not looked at.
RestoredBlind(g, hadExit) ==
  LET d == g.done1 \/ Protected
  IN  [g EXCEPT !.done1 = d, !.partial1 = @ \/ d,
                !.stage = IF ActualStage(pos.sl) > @ THEN ActualStage(pos.sl) ELSE @]

\* ReconcileOpenPositionRecovery, then RebuildAdvancedProtectionState.
Restored(g, hadExit) ==
  LET d == g.done1 \/ Protected \/ hadExit
  IN  [g EXCEPT !.done1 = d, !.partial1 = @ \/ d,
                !.stage = IF ActualStage(pos.sl) > @ THEN ActualStage(pos.sl) ELSE @]

\* OnInit, up to StopFailureObservabilityInit.
Start ==
  /\ ~up /\ up' = TRUE
  /\ \E hadExit \in {HadExit} \cup {b \in BOOLEAN : HistoryMayMiss /\ ~b} :
       LET g == IF pos.open THEN Restored(gv, hadExit) ELSE gv
           o == IF pos.open THEN ObservePartial(g) ELSE g
       IN  /\ Save(o)
           /\ faults' = [faults EXCEPT !.missed = IF hadExit = HadExit THEN @ ELSE @ + 1]
  /\ UNCHANGED <<pos, px, taken, pc, lc, restarts>>

\* OnDeinit saves the variables.
Stop ==
  /\ up /\ pc = "idle"
  /\ Disturbable /\ restarts' = restarts + 1
  /\ up' = FALSE /\ Save(gv)
  /\ UNCHANGED <<pos, px, taken, pc, lc, faults>>

\* The terminal dies anywhere: variables since the last flush are lost.
TerminalCrash ==
  /\ Disturbable /\ restarts' = restarts + 1
  /\ gv' = disk
  /\ up' = FALSE /\ pc' = "idle" /\ lc' = NoLocals
  /\ UNCHANGED <<pos, px, taken, disk, faults>>

\* The price moves, a step at a time or through a gap; the broker executes the
\* stop and the target.
PriceMoves ==
  /\ pos.open
  /\ \E p \in Prices \ {px} : px' = p
  /\ pos' = IF (pos.sl # NoStop /\ px' <= pos.sl) \/ px' >= TP3 THEN Closed ELSE pos
  /\ UNCHANGED <<taken, gv, disk, up, pc, lc, restarts, faults>>

RemoveStop ==
  /\ OperatorRemovesStop /\ Disturbable
  /\ pos.sl # NoStop
  /\ pos' = [pos EXCEPT !.sl = NoStop, !.byHand = TRUE]
  /\ UNCHANGED <<px, taken, gv, disk, up, pc, lc, restarts, faults>>

\* Time passes for the stored times, the flushed copies included.
Older(t) == IF t = "recent" THEN "old" ELSE t
Elapse ==
  \/ gv.retry = "recent"
     /\ gv' = [gv EXCEPT !.retry = "old"] /\ disk' = [disk EXCEPT !.retry = Older(@)]
  \/ gv.first = "recent"
     /\ gv' = [gv EXCEPT !.first = "old"] /\ disk' = [disk EXCEPT !.first = Older(@)]
  \/ gv.tp1Time = "recent"
     /\ gv' = [gv EXCEPT !.tp1Time = "old"] /\ disk' = [disk EXCEPT !.tp1Time = Older(@)]
TimePasses ==
  /\ pos.open /\ Elapse
  /\ UNCHANGED <<pos, px, taken, up, pc, lc, restarts, faults>>

------------------------------------------------------------------------------
Pass ==
  \/ BeginPass
  \/ Restore \/ RestoreFails \/ EmergencyClose \/ EmergencyCloseFails
  \/ TP1NotReached \/ TP1Taken \/ TP1Reduce \/ TP1ReduceFails \/ FlagTP1
  \/ BEAlready \/ BEDeferred \/ BEAccepted \/ BERefused \/ StampBE \/ AuditBE
  \/ TimeInvalidation \/ BeginAdvance \/ AdvanceAccepted \/ AdvanceSkips
  \/ StampStage \/ AuditAdvance
  \/ TP2NotDue \/ TP2Reduce \/ TP2ReduceFails \/ FlagTP2 \/ Stall \/ PassEnds

Next ==
  \/ Pass
  \/ ObserveTimer \/ CheckpointTimer \/ TogglePause
  \/ Start \/ Stop \/ TerminalCrash
  \/ PriceMoves \/ RemoveStop \/ TimePasses

Spec == Init /\ [][Next]_vars

\* The timer runs one pass after another, stored times get older, and a server
\* that is asked again and again to close the position or to accept a stop it
\* has no ground to refuse does so at last.
Fairness ==
  /\ WF_vars(Pass) /\ WF_vars(Start)
  /\ WF_vars(gv.retry = "recent" /\ TimePasses /\ gv'.retry = "old")
  /\ WF_vars(gv.first = "recent" /\ TimePasses /\ gv'.first = "old")
  /\ SF_vars(EmergencyClose) /\ SF_vars(BEAccepted)

FairSpec == Spec /\ Fairness

------------------------------------------------------------------------------
(* Properties.                                                              *)

Steps == {"idle", "restore", "emergency", "tp1", "flag1", "be", "bestamp",
          "beaudit", "after", "advance", "stamp", "tp2", "flag2", "stall"}

\* Every variable has its type.
TypeOK ==
  /\ pos \in [open: BOOLEAN, vol: 0..Lots, sl: Stops, byHand: BOOLEAN]
  /\ px \in Prices
  /\ taken \in [1..2 -> 0..Lots]
  /\ gv \in State /\ disk \in State
  /\ up \in BOOLEAN /\ pc \in Steps /\ lc \in Locals
  /\ restarts \in 0..MaxFaults
  /\ faults \in [tp1: Nat, tp2: Nat, missed: Nat]

\* Whatever stage the variables claim after failures, lost stamps and restarts,
\* no step of the EA moves an existing stop back; only a hand removes it.
StopNeverLoosens ==
  [][pos.open /\ pos'.open => pos'.sl >= pos.sl \/ RemoveStop]_vars

\* README.md: "TP1/TP2 partials are idempotent by POSITION_IDENTIFIER". What the
\* code makes of it: the TP1 scale-out is repeated at most once for each answer
\* of the server that was lost and each restart that missed the exit deals in
\* history, whenever the terminal dies between the deal and its flag,
TP1TakenOnce == taken[1] <= 1 + faults.tp1 + faults.missed

\* and the TP2 scale-out, whose flag no history rebuilds, once for each answer
\* lost and each restart.
TP2TakenOnce == taken[2] <= 1 + faults.tp2 + restarts

\* Neither scale-out is repeated without one of these faults, however often
\* reductions are refused and retried.
PartialsTakenOnce == TP1TakenOnce /\ TP2TakenOnce

\* A recorded stage is backed by the stop the broker really holds, so a restart
\* or a refused modification never makes the EA skip a step of the ladder.  (A
\* stop deleted by hand is restored at its initial price only.)
StageIsHonest ==
  pos.open /\ ~pos.byHand /\ gv.stage > 0 => pos.sl >= Lock(IF gv.stage < 3 THEN gv.stage ELSE 3)

\* docs/COMPILE_TEST_CHECKLIST.md: "TP1DONE=0 while required protection remains
\* incomplete": the flag is recorded only once the break-even stop is in place.
DoneIsEarned == pos.open /\ gv.done1 => Protected

\* It is as long as the EA is not restarted, whatever modifications fail.
DoneMeansProtected == restarts = 0 /\ ~pos.byHand => DoneIsEarned

\* A position scaled out at TP1 whose break-even stop is overdue blocks new
\* entries until the stop is in place, whatever the operator's pause says.
\* (A restart drops the hazard together with TP1DONE, and a stop deleted after
\* TP1DONE does not bring it back.)
PartialHazardBlocks ==
  restarts = 0 /\ pos.open /\ ~pos.byHand /\ taken[1] > 0 /\ ~Protected
    /\ gv.tp1Time = "old" => ~EntriesAllowed

\* Together: an EA that was not restarted never takes a scaled-out position that
\* is not protected for a protected one, neither in the flag it records nor in
\* the gate of new entries, whatever modifications the server refuses.
UnprotectedIsKnown == DoneMeansProtected /\ PartialHazardBlocks

\* A position without a stop gets one or is closed, though the server may
\* refuse to restore the stop for ever.
MissingStopEnds == pos.open /\ pos.sl = NoStop ~> ~pos.open \/ pos.sl # NoStop

\* After the TP1 scale-out the break-even stop is reached, unless the price
\* falls back below TP1 or the position ends.
BreakEvenReached ==
  pos.open /\ gv.partial1 /\ ~Protected ~> ~pos.open \/ Protected \/ px < TP1
=============================================================================
