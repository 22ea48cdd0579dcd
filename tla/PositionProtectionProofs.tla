----------------------- MODULE PositionProtectionProofs -----------------------
(***************************************************************************)
(* Proofs about PositionProtection, for any prices, levels, volumes and     *)
(* numbers of restarts that meet LevelsAssumption and SizesAssumption.      *)
(***************************************************************************)
EXTENDS PositionProtection, TLAPS

------------------------------------------------------------------------------
(* What the operators on the variables preserve.                            *)

\* The fields that record what was done to the position.
Kept(g, h) ==
  /\ h.partial1 = g.partial1 /\ h.done1 = g.done1 /\ h.partial2 = g.partial2
  /\ h.stage = g.stage /\ h.tp1Time = g.tp1Time

LEMMA FieldTypes ==
    ASSUME NEW g \in State
    PROVE  /\ g.partial1 \in BOOLEAN /\ g.done1 \in BOOLEAN /\ g.partial2 \in BOOLEAN
           /\ g.tp1Time \in Ages /\ g.started \in BOOLEAN /\ g.logged \in BOOLEAN
           /\ g.stage \in 0..4 /\ g.count \in 0..PauseAfter
           /\ g.first \in Ages /\ g.retry \in Ages
           /\ g.critical \in BOOLEAN /\ g.operator \in BOOLEAN /\ g.paused \in BOOLEAN
  BY DEF State

LEMMA ObservedIs ==
    ASSUME NEW g \in State, NEW op \in BOOLEAN
    PROVE  Observed(g, op) \in State /\ Kept(g, Observed(g, op))
  <1> DEFINE p == g.paused \/ op
             h == [g EXCEPT !.operator = op, !.retry = "recent", !.paused = p]
  <1>1. "recent" \in Ages /\ p \in BOOLEAN
    BY DEF Ages
  <1>2. Observed(g, op) = h
    BY DEF Observed
  <1> HIDE DEF p
  <1>3. h \in State
    BY <1>1, Zenon DEF State
  <1>4. Kept(g, h)
    BY DEF State, Kept
  <1> QED
    BY <1>2, <1>3, <1>4

LEMMA KeptChains ==
    ASSUME NEW f, NEW g, NEW h, Kept(f, g), Kept(g, h)
    PROVE  Kept(f, h)
  BY DEF Kept

LEMMA FailedIs ==
    ASSUME NEW g \in State, NEW critical \in BOOLEAN, NEW op \in BOOLEAN
    PROVE  Failed(g, critical, op) \in State /\ Kept(g, Failed(g, critical, op))
  <1> DEFINE n == IF g.count < PauseAfter THEN g.count + 1 ELSE PauseAfter
             t == IF g.first = "unset" THEN "recent" ELSE g.first
             f == [g EXCEPT !.count = n, !.critical = critical, !.first = t]
             o == Observed(f, op)
             p == o.paused \/ critical \/ n = PauseAfter
             h == [o EXCEPT !.paused = p]
  <1>1. n \in 0..PauseAfter /\ t \in Ages
    BY FieldTypes, SizesAssumption DEF Ages
  <1>2. Failed(g, critical, op) = h
    BY DEF Failed
  <1> HIDE DEF n, t
  <1>3. f \in State /\ Kept(g, f)
    <2>1. f \in State
      BY <1>1, Zenon DEF State
    <2>2. Kept(g, f)
      BY DEF State, Kept
    <2> QED
      BY <2>1, <2>2
  <1> HIDE DEF f
  <1>4. o \in State /\ Kept(f, o)
    BY <1>3, ObservedIs
  <1> HIDE DEF o
  <1>5. p \in BOOLEAN
    BY <1>4, FieldTypes
  <1> HIDE DEF p
  <1>6. h \in State
    BY <1>4, <1>5, Zenon DEF State
  <1>7. Kept(o, h)
    BY <1>4 DEF State, Kept
  <1> HIDE DEF h
  <1> QED
    BY <1>2, <1>3, <1>4, <1>6, <1>7, KeptChains

LEMMA ClearedIs ==
    ASSUME NEW g \in State
    PROVE  Cleared(g) \in State /\ Kept(g, Cleared(g))
  <1> DEFINE h == [g EXCEPT !.count = 0, !.first = "unset", !.retry = "unset",
                            !.critical = FALSE, !.operator = FALSE]
  <1>1. 0 \in 0..PauseAfter /\ "unset" \in Ages
    BY SizesAssumption DEF Ages
  <1>2. h \in State
    BY <1>1, Zenon DEF State
  <1>3. Kept(g, h)
    BY DEF State, Kept
  <1>4. Cleared(g) \in {g, h}
    BY DEF Cleared
  <1> HIDE DEF h
  <1> QED
    BY <1>2, <1>3, <1>4 DEF Kept

LEMMA SettledIs ==
    ASSUME NEW g \in State
    PROVE  Settled(g) \in State /\ Kept(g, Settled(g))
  <1> DEFINE h == [g EXCEPT !.retry = "unset", !.operator = FALSE]
  <1>1. h \in State
    <2>1. "unset" \in Ages
      BY DEF Ages
    <2> QED
      BY <2>1, Zenon DEF State
  <1>2. Kept(g, h)
    BY DEF State, Kept
  <1>3. Observed(g, FALSE) \in State /\ Kept(g, Observed(g, FALSE))
    BY ObservedIs
  <1>4. Settled(g) = IF g.count = 0 /\ ~g.critical THEN h ELSE Observed(g, FALSE)
    BY DEF Settled
  <1> HIDE DEF h
  <1> QED
    BY <1>1, <1>2, <1>3, <1>4

LEMMA StartedIs ==
    ASSUME NEW g \in State
    PROVE  EnsureStarted(g) \in State /\ Kept(g, EnsureStarted(g))
  <1> DEFINE h == [g EXCEPT !.started = TRUE]
  <1>1. h \in State
    BY Zenon DEF State
  <1>2. Kept(g, h)
    BY DEF State, Kept
  <1>3. EnsureStarted(g) = IF g.started THEN g ELSE Observed(h, FALSE)
    BY DEF EnsureStarted
  <1> HIDE DEF h
  <1>4. Observed(h, FALSE) \in State /\ Kept(h, Observed(h, FALSE))
    BY <1>1, ObservedIs
  <1> QED
    BY <1>2, <1>3, <1>4, KeptChains DEF Kept

LEMMA CompletedIs ==
    ASSUME NEW g \in State
    PROVE  Completed(g) \in State /\ Kept(g, Completed(g))
  <1> DEFINE s == Settled(g)
             h == [s EXCEPT !.started = FALSE]
  <1>1. s \in State /\ Kept(g, s)
    BY SettledIs
  <1>2. Completed(g) = IF g.started THEN h ELSE g
    BY DEF Completed
  <1> HIDE DEF s
  <1>3. h \in State
    BY <1>1, Zenon DEF State
  <1>4. Kept(s, h)
    BY <1>1 DEF State, Kept
  <1> HIDE DEF h
  <1> QED
    BY <1>1, <1>2, <1>3, <1>4, KeptChains DEF Kept

LEMMA ObservePartialIs ==
    ASSUME NEW g \in State
    PROVE  ObservePartial(g) \in State /\ Kept(g, ObservePartial(g))
  <1> DEFINE l == [g EXCEPT !.logged = TRUE]
             o == Observed(l, FALSE)
             a == IF g.logged THEN g ELSE o
             h == [a EXCEPT !.paused = TRUE]
             s == Settled(g)
             k == [s EXCEPT !.logged = FALSE]
  <1>1. l \in State /\ Kept(g, l)
    <2>1. l \in State
      BY Zenon DEF State
    <2>2. Kept(g, l)
      BY DEF State, Kept
    <2> QED
      BY <2>1, <2>2
  <1>2. s \in State /\ Kept(g, s)
    BY SettledIs
  <1>3. ObservePartial(g) = IF PartialHazard(g) THEN h
                            ELSE IF g.done1 /\ g.logged THEN k ELSE g
    BY DEF ObservePartial
  <1> HIDE DEF l, s
  <1>4. o \in State /\ Kept(l, o)
    BY <1>1, ObservedIs
  <1> HIDE DEF o
  <1>5. a \in State /\ Kept(g, a)
    BY <1>1, <1>4, KeptChains DEF Kept
  <1> HIDE DEF a
  <1>6. h \in State /\ k \in State
    BY <1>2, <1>5, Zenon DEF State
  <1>7. Kept(a, h) /\ Kept(s, k)
    BY <1>2, <1>5 DEF State, Kept
  <1> HIDE DEF h, k
  <1>8. Kept(g, h) /\ Kept(g, k)
    BY <1>2, <1>5, <1>7, KeptChains
  <1> QED
    BY <1>3, <1>6, <1>8 DEF Kept

LEMMA AuditedIs ==
    ASSUME NEW g \in State, NEW r, NEW h \in Audited(g, r)
    PROVE  h \in State /\ Kept(g, h)
  <1>1. \/ h \in {g, Cleared(g)}
        \/ \E c, op \in BOOLEAN : h = Failed(g, c, op)
    BY DEF Audited
  <1> QED
    BY <1>1, FailedIs, ClearedIs DEF Kept

LEMMA FinishIs ==
    ASSUME NEW g \in State
    PROVE  /\ Finish(g) \in State /\ Finish(g).done1
           /\ Finish(g).partial1 = g.partial1 /\ Finish(g).partial2 = g.partial2
           /\ Finish(g).stage = g.stage
  <1> DEFINE t == IF g.tp1Time = "unset" THEN "recent" ELSE g.tp1Time
             h == [g EXCEPT !.done1 = TRUE, !.tp1Time = t]
  <1>1. t \in Ages
    BY FieldTypes DEF Ages
  <1>2. Finish(g) = Completed(h)
    BY DEF Finish
  <1> HIDE DEF t
  <1>3. h \in State
    BY <1>1, Zenon DEF State
  <1>4. /\ h.done1 /\ h.partial1 = g.partial1 /\ h.partial2 = g.partial2
        /\ h.stage = g.stage
    BY DEF State
  <1> HIDE DEF h
  <1> QED
    BY <1>2, <1>3, <1>4, CompletedIs DEF Kept

\* TP1 recorded, the stage recorded, TP2 recorded.
LEMMA RecordedIs ==
    ASSUME NEW g \in State
    PROVE  /\ LET h == [g EXCEPT !.partial1 = TRUE, !.tp1Time = "recent"]
              IN  /\ h \in State /\ h.partial1 /\ h.done1 = g.done1
                  /\ h.partial2 = g.partial2 /\ h.stage = g.stage
           /\ \A n \in 0..4 :
                 LET h == [g EXCEPT !.stage = n]
                 IN  /\ h \in State /\ h.stage = n /\ h.partial1 = g.partial1
                     /\ h.done1 = g.done1 /\ h.partial2 = g.partial2
                     /\ h.tp1Time = g.tp1Time
           /\ LET h == [g EXCEPT !.partial2 = TRUE]
              IN  /\ h \in State /\ h.partial2 /\ h.done1 = g.done1
                  /\ h.partial1 = g.partial1 /\ h.stage = g.stage
                  /\ h.tp1Time = g.tp1Time
           /\ LET h == [g EXCEPT !.paused = ~@] IN h \in State /\ Kept(g, h)
  <1> DEFINE a == [g EXCEPT !.partial1 = TRUE, !.tp1Time = "recent"]
             b(n) == [g EXCEPT !.stage = n]
             c == [g EXCEPT !.partial2 = TRUE]
             q == ~g.paused
             d == [g EXCEPT !.paused = q]
  <1>1. "recent" \in Ages /\ q \in BOOLEAN
    BY DEF Ages
  <1> HIDE DEF q
  <1>2. a \in State /\ c \in State /\ d \in State
    BY <1>1, Zenon DEF State
  <1>3. ASSUME NEW n \in 0..4
        PROVE  b(n) \in State
    BY Zenon DEF State
  <1>4. /\ a.partial1 /\ a.done1 = g.done1 /\ a.partial2 = g.partial2
        /\ a.stage = g.stage
    BY DEF State
  <1>5. /\ c.partial2 /\ c.done1 = g.done1 /\ c.partial1 = g.partial1
        /\ c.stage = g.stage /\ c.tp1Time = g.tp1Time
    BY DEF State
  <1>6. ASSUME NEW n \in 0..4
        PROVE  /\ b(n).stage = n /\ b(n).partial1 = g.partial1 /\ b(n).done1 = g.done1
               /\ b(n).partial2 = g.partial2 /\ b(n).tp1Time = g.tp1Time
    BY DEF State
  <1>7. Kept(g, d)
    BY DEF State, Kept
  <1>8. [g EXCEPT !.paused = ~@] = d
    BY DEF q
  <1> QED
    BY <1>2, <1>3, <1>4, <1>5, <1>6, <1>7, <1>8

LEMMA RestoredIs ==
    ASSUME TypeOK, NEW g \in State, NEW b \in BOOLEAN
    PROVE  LET h == Restored(g, b)
           IN  /\ h \in State
               /\ h.done1 = (g.done1 \/ Protected \/ b)
               /\ h.partial1 = (g.partial1 \/ h.done1)
               /\ h.partial2 = g.partial2 /\ h.tp1Time = g.tp1Time
               /\ h.stage \in {g.stage, ActualStage(pos.sl)}
  <1> DEFINE d == g.done1 \/ Protected \/ b
             p == g.partial1 \/ d
             n == IF ActualStage(pos.sl) > g.stage THEN ActualStage(pos.sl) ELSE g.stage
             h == [g EXCEPT !.done1 = d, !.partial1 = p, !.stage = n]
  <1>1. d \in BOOLEAN /\ p \in BOOLEAN
    OBVIOUS
  <1>2. n \in 0..4 /\ n \in {g.stage, ActualStage(pos.sl)}
    BY FieldTypes DEF ActualStage
  <1>3. Restored(g, b) = h
    BY DEF Restored
  <1> HIDE DEF n, d
  <1>4. p = (g.partial1 \/ d)
    OBVIOUS
  <1> HIDE DEF p
  <1>5. h \in State
    BY <1>1, <1>2, Zenon DEF State
  <1>6. /\ h.done1 = d /\ h.partial1 = p /\ h.stage = n
        /\ h.partial2 = g.partial2 /\ h.tp1Time = g.tp1Time
    BY DEF State
  <1> HIDE DEF h
  <1> QED
    BY <1>2, <1>3, <1>4, <1>5, <1>6 DEF d

------------------------------------------------------------------------------
(* The position, and the local variables of a pass.                         *)

Position == [open: BOOLEAN, vol: 0..Lots, sl: Stops, byHand: BOOLEAN]

LEMMA PositionIs ==
    ASSUME TypeOK
    PROVE  /\ pos \in Position /\ pos.open \in BOOLEAN /\ pos.vol \in 0..Lots
           /\ pos.sl \in Stops /\ pos.byHand \in BOOLEAN
  BY DEF TypeOK, Position

LEMMA StopsAre ==
    /\ InitialSL \in Stops /\ InitialSL > 0 /\ NoStop = 0 /\ NoStop \in Stops
    /\ Lock(1) = Entry /\ Lock(2) = ProfitLock /\ Lock(3) = StrongLock
    /\ Entry \in Nat /\ ProfitLock \in Nat /\ StrongLock \in Nat
    /\ InitialSL < Entry /\ Entry <= ProfitLock /\ ProfitLock <= StrongLock
    /\ Stops \subseteq Int /\ Prices \subseteq Int
    /\ \A c \in Nat, p \in Prices : c < p => c \in Stops
  <1>1. /\ Lock(1) = Entry /\ Lock(2) = ProfitLock /\ Lock(3) = StrongLock
    BY DEF Lock
  <1>2. /\ Entry \in Nat /\ ProfitLock \in Nat /\ StrongLock \in Nat
        /\ InitialSL \in Nat /\ MaxPrice \in Nat /\ MinPrice \in Nat
        /\ TP1 \in Nat /\ TP2 \in Nat /\ TP3 \in Nat
    BY LevelsAssumption, Zenon
  <1>3. /\ InitialSL <= MaxPrice /\ InitialSL > 0
        /\ InitialSL < Entry /\ Entry <= ProfitLock /\ ProfitLock <= StrongLock
    BY <1>2, LevelsAssumption
  <1> QED
    BY <1>1, <1>2, <1>3 DEF Stops, NoStop, Prices

LEMMA ClosedIs ==
    ASSUME TypeOK
    PROVE  /\ Closed \in Position /\ ~Closed.open /\ Closed.vol = 0
           /\ Closed.byHand = pos.byHand
  <1>1. 0 \in 0..Lots /\ NoStop \in Stops
    BY SizesAssumption, StopsAre
  <1>2. Closed \in Position
    BY <1>1, PositionIs, Zenon DEF Position, Closed
  <1> QED
    BY <1>2, PositionIs DEF Position, Closed

LEMMA MovedIs ==
    ASSUME TypeOK, NEW c \in Stops
    PROVE  LET p == [pos EXCEPT !.sl = c]
           IN  /\ p \in Position /\ p.sl = c /\ p.open = pos.open
               /\ p.vol = pos.vol /\ p.byHand = pos.byHand
  <1>1. [pos EXCEPT !.sl = c] \in Position
    BY PositionIs, Zenon DEF Position
  <1> QED
    BY <1>1, PositionIs DEF Position

\* A reduction takes at least one volume step.
LEMMA ReducedIs ==
    ASSUME TypeOK, pos.vol > 0, NEW percent \in 1..100
    PROVE  LET p == WithVolume(Reduced(pos.vol, percent))
           IN  /\ p \in Position /\ p.vol \in 0..(pos.vol - 1)
               /\ p.open => pos.open /\ p.vol > 0
               /\ (p.open => p.sl = pos.sl) /\ p.byHand = pos.byHand
  <1> DEFINE v == pos.vol
             part == (v * percent) \div 100
             n == Reduced(v, percent)
  <1>1. v \in 1..Lots /\ Lots \in Nat
    BY PositionIs, SizesAssumption
  <1>2. v * percent \in Int /\ 0 <= v * percent /\ v * percent <= v * 100
    BY <1>1
  <1>3. part \in 0..v
    BY <1>1, <1>2
  <1>4. n \in 0..(v - 1)
    BY <1>1, <1>3 DEF Reduced
  <1> HIDE DEF n
  <1>5. CASE n = 0
    BY <1>1, <1>5, ClosedIs DEF WithVolume, n
  <1>6. CASE n # 0
    <2> DEFINE p == [pos EXCEPT !.vol = n]
    <2>1. n \in 0..Lots
      BY <1>1, <1>4
    <2>2. p \in Position
      BY <2>1, PositionIs, Zenon DEF Position
    <2>3. /\ p.vol = n /\ p.open = pos.open
          /\ p.sl = pos.sl /\ p.byHand = pos.byHand
      BY PositionIs DEF Position
    <2>4. WithVolume(n) = p
      BY <1>6 DEF WithVolume
    <2> HIDE DEF p
    <2> QED
      BY <1>4, <1>6, <2>2, <2>3, <2>4 DEF n
  <1> QED
    BY <1>5, <1>6

Faults == [tp1: Nat, tp2: Nat, missed: Nat]

LEMMA FaultsIs ==
    ASSUME TypeOK
    PROVE  /\ faults \in Faults
           /\ faults.tp1 \in Nat /\ faults.tp2 \in Nat /\ faults.missed \in Nat
           /\ LET f == [faults EXCEPT !.tp1 = @ + 1]
              IN  /\ f \in Faults /\ f.tp1 = faults.tp1 + 1
                  /\ f.tp2 = faults.tp2 /\ f.missed = faults.missed
           /\ LET f == [faults EXCEPT !.tp2 = @ + 1]
              IN  /\ f \in Faults /\ f.tp2 = faults.tp2 + 1
                  /\ f.tp1 = faults.tp1 /\ f.missed = faults.missed
           /\ LET f == [faults EXCEPT !.missed = @ + 1]
              IN  /\ f \in Faults /\ f.missed = faults.missed + 1
                  /\ f.tp1 = faults.tp1 /\ f.tp2 = faults.tp2
  BY DEF TypeOK, Faults

LEMMA LocalsIs ==
    ASSUME TypeOK
    PROVE  /\ NoLocals \in Locals
           /\ \A b \in BOOLEAN : [lc EXCEPT !.done = b] \in Locals
           /\ \A b \in BOOLEAN : [NoLocals EXCEPT !.done = b] \in Locals
           /\ \A r \in Prices : [lc EXCEPT !.r = r] \in Locals
           /\ \A r \in Prices : [NoLocals EXCEPT !.r = r] \in Locals
           /\ \A r \in Prices, n \in 0..4 :
                 [lc EXCEPT !.r = r, !.stage = n, !.step = 1] \in Locals
           /\ \A k \in 1..5 : [lc EXCEPT !.step = k] \in Locals
           /\ \A n \in 0..4, k \in 1..5 : [lc EXCEPT !.stage = n, !.step = k] \in Locals
           /\ lc.step \in 1..5 /\ lc.stage \in 0..4 /\ lc.r \in Prices
  <1>1. lc \in Locals
    BY DEF TypeOK
  <1>2. 1 \in 1..5 /\ 0 \in 0..4 /\ MinPrice \in Prices
    BY LevelsAssumption DEF Prices
  <1>3. NoLocals \in Locals
    BY <1>2, Zenon DEF NoLocals, Locals
  <1>4. \A b \in BOOLEAN : [lc EXCEPT !.done = b] \in Locals
    BY <1>1, Zenon DEF Locals
  <1>4a. \A b \in BOOLEAN : [NoLocals EXCEPT !.done = b] \in Locals
    BY <1>3, Zenon DEF Locals
  <1>5. \A r \in Prices : [lc EXCEPT !.r = r] \in Locals
    BY <1>1, Zenon DEF Locals
  <1>5a. \A r \in Prices : [NoLocals EXCEPT !.r = r] \in Locals
    BY <1>3, Zenon DEF Locals
  <1>6. \A r \in Prices, n \in 0..4 : [lc EXCEPT !.r = r, !.stage = n, !.step = 1] \in Locals
    BY <1>1, <1>2, Zenon DEF Locals
  <1>7. \A k \in 1..5 : [lc EXCEPT !.step = k] \in Locals
    BY <1>1, Zenon DEF Locals
  <1>8. \A n \in 0..4, k \in 1..5 : [lc EXCEPT !.stage = n, !.step = k] \in Locals
    BY <1>1, Zenon DEF Locals
  <1>9. lc.step \in 1..5 /\ lc.stage \in 0..4 /\ lc.r \in Prices
    BY <1>1 DEF Locals
  <1> QED
    BY <1>3, <1>4, <1>4a, <1>5, <1>5a, <1>6, <1>7, <1>8, <1>9

------------------------------------------------------------------------------
(* Types.                                                                   *)

\* Each reduction takes volume away, so there are at most Lots of them.
Counted ==
  /\ taken[1] + taken[2] + pos.vol <= Lots
  /\ pos.open => pos.vol > 0

AtStep == pc = "stamp" => lc.step < 5

LEMMA AtStepStep == TypeOK /\ AtStep /\ [Next]_vars => AtStep'
  <1> SUFFICES ASSUME TypeOK, AtStep, [Next]_vars, pc' = "stamp"
               PROVE  lc'.step < 5
    BY DEF AtStep
  <1>1. CASE AdvanceAccepted
    BY <1>1 DEF AdvanceAccepted
  <1>2. CASE UNCHANGED <<pc, lc>>
    BY <1>2 DEF AtStep
  <1>3. CASE pc' # "stamp"
    BY <1>3
  <1>4. CASE AdvanceSkips
    BY <1>4 DEF AdvanceSkips, Step
  <1> QED
    BY <1>1, <1>2, <1>3, <1>4
       DEF Next, Pass, BeginPass, Restore, RestoreFails, EmergencyClose,
           EmergencyCloseFails, TP1NotReached, TP1Taken, TP1Reduce, TP1ReduceFails,
           FlagTP1, BEAlready, BEDeferred, BEDue, BEAccepted, BERefused, StampBE, AuditBE,
           TimeInvalidation, BeginAdvance, StampStage, AuditAdvance, TP2NotDue,
           TP2Reduce, TP2ReduceFails, FlagTP2, Stall, PassEnds, ObserveTimer,
           CheckpointTimer, TogglePause, Start, Stop, TerminalCrash, PriceMoves,
           RemoveStop, TimePasses, vars, Goto, Leave

LEMMA TypeStart == Init => TypeOK /\ Counted /\ AtStep
  <1> SUFFICES ASSUME Init
               PROVE  TypeOK /\ Counted /\ AtStep
    OBVIOUS
  <1>1. Fresh \in State
    <2>1. "unset" \in Ages /\ 0 \in 0..PauseAfter /\ 0 \in 0..4
      BY SizesAssumption DEF Ages
    <2> QED
      BY <2>1, Zenon DEF Fresh, State
  <1>2. pos \in Position
    <2>1. Lots \in 0..Lots /\ InitialSL \in Stops
      BY StopsAre, SizesAssumption
    <2> QED
      BY <2>1, Zenon DEF Init, Position
  <1>3. NoLocals \in Locals
    <2>1. 1 \in 1..5 /\ 0 \in 0..4 /\ MinPrice \in Prices
      BY LevelsAssumption DEF Prices
    <2> QED
      BY <2>1, Zenon DEF NoLocals, Locals
  <1>4. taken \in [1..2 -> 0..Lots] /\ taken[1] = 0 /\ taken[2] = 0
    BY SizesAssumption DEF Init
  <1>5. pos.open /\ pos.vol = Lots
    BY DEF Init
  <1>6. restarts \in 0..MaxFaults /\ Lots > 0 /\ Lots \in Nat
    BY SizesAssumption DEF Init
  <1>7. Counted /\ AtStep
    BY <1>4, <1>5, <1>6 DEF Counted, AtStep, Init
  <1> QED
    BY <1>1, <1>2, <1>3, <1>4, <1>6, <1>7 DEF Init, TypeOK, Steps, Position

\* A server's answer, the write that follows it, and the step after.
LEMMA WriteTypes ==
    ASSUME TypeOK
    PROVE  /\ gv \in State /\ disk \in State
           /\ \A b \in BOOLEAN : Observed(gv, b) \in State
           /\ \A c, b \in BOOLEAN : Failed(gv, c, b) \in State
           /\ Cleared(gv) \in State /\ Finish(Cleared(gv)) \in State
           /\ EnsureStarted(gv) \in State /\ ObservePartial(gv) \in State
           /\ \A r, g : g \in Audited(gv, r) => g \in State /\ Finish(g) \in State
  <1>1. gv \in State /\ disk \in State
    BY DEF TypeOK
  <1> QED
    BY <1>1, ObservedIs, FailedIs, ClearedIs, FinishIs, StartedIs, ObservePartialIs,
       AuditedIs

LEMMA PassTypes == TypeOK /\ Counted /\ AtStep /\ Pass => TypeOK'
  <1> SUFFICES ASSUME TypeOK, Counted, AtStep, Pass
               PROVE  TypeOK'
    OBVIOUS
  <1> USE DEF Goto, Leave, Step
  <1>0. /\ pos \in Position /\ px \in Prices /\ taken \in [1..2 -> 0..Lots]
        /\ gv \in State /\ disk \in State /\ up \in BOOLEAN /\ pc \in Steps
        /\ lc \in Locals /\ restarts \in 0..MaxFaults /\ Protected \in BOOLEAN
        /\ faults \in Faults
    BY DEF TypeOK, Position, Protected, Faults
  <1>a. lc.step \in 1..5 /\ lc.stage \in 0..4
    BY LocalsIs, Zenon
  <1>1. CASE BeginPass \/ TP1NotReached \/ TP1Taken \/ TP2NotDue \/ PassEnds
    <2>1. lc' \in Locals
      BY <1>0, <1>1, LocalsIs, FieldTypes
         DEF BeginPass, TP1NotReached, TP1Taken, TP2NotDue, PassEnds, Leave
    <2>2. pc' \in Steps
      BY <1>1 DEF BeginPass, TP1NotReached, TP1Taken, TP2NotDue, PassEnds, Leave, Steps
    <2> QED
      BY <1>0, <1>1, <2>1, <2>2
         DEF BeginPass, TP1NotReached, TP1Taken, TP2NotDue, PassEnds, TypeOK
  <1>2. CASE Restore
    <2>1. pos' \in Position
      BY <1>2, MovedIs, StopsAre DEF Restore
    <2>2. gv' \in State /\ disk' \in State
      BY <1>2, WriteTypes DEF Restore, Save
    <2> QED
      BY <1>0, <1>2, <2>1, <2>2 DEF Restore, TypeOK, Position, Steps
  <1>3. CASE RestoreFails \/ EmergencyCloseFails
    <2>1. gv' \in State /\ disk' \in State
      BY <1>0, <1>3, WriteTypes DEF RestoreFails, EmergencyCloseFails, Save, Write
    <2> QED
      BY <1>0, <1>3, <2>1 DEF RestoreFails, EmergencyCloseFails, TypeOK, Steps
  <1>4. CASE EmergencyClose \/ TimeInvalidation \/ Stall
    <2>1. pos' \in Position
      BY <1>0, <1>4, ClosedIs DEF EmergencyClose, TimeInvalidation, Stall
    <2>2. gv' \in State /\ disk' \in State
      BY <1>0, <1>4, WriteTypes DEF EmergencyClose, TimeInvalidation, Stall, Save
    <2>3. lc' \in Locals
      BY <1>0, <1>4, LocalsIs DEF EmergencyClose, TimeInvalidation, Stall, Leave
    <2> QED
      BY <1>0, <1>4, <2>1, <2>2, <2>3
         DEF EmergencyClose, TimeInvalidation, Stall, Leave, TypeOK, Position, Steps
  <1>5. CASE TP1Reduce \/ TP1ReduceFails \/ TP2Reduce \/ TP2ReduceFails
    <2>0. /\ taken[1] \in Nat /\ taken[2] \in Nat /\ pos.vol \in Nat /\ Lots \in Nat
          /\ taken[1] + 1 \in 0..Lots \/ ~pos.open
          /\ taken[2] + 1 \in 0..Lots \/ ~pos.open
      BY <1>0, PositionIs, SizesAssumption DEF Counted
    <2>1. pos.open /\ pos.vol > 0
      BY <1>5 DEF TP1Reduce, TP1ReduceFails, TP2Reduce, TP2ReduceFails, Counted
    <2>2. /\ WithVolume(Reduced(pos.vol, TP1Percent)) \in Position
          /\ WithVolume(Reduced(pos.vol, TP2Percent)) \in Position
      BY <2>1, ReducedIs, SizesAssumption
    <2>3. pos' \in Position
      BY <1>0, <1>5, <2>2 DEF TP1Reduce, TP1ReduceFails, TP2Reduce, TP2ReduceFails
    <2>4. taken' \in [1..2 -> 0..Lots]
      <3>1. \A i \in 1..2 : [taken EXCEPT ![i] = taken[i] + 1] \in [1..2 -> 0..Lots]
        BY <1>0, <2>0, <2>1
      <3> QED
        BY <1>0, <1>5, <3>1 DEF TP1Reduce, TP1ReduceFails, TP2Reduce, TP2ReduceFails
    <2>5. lc' \in Locals
      BY <1>0, <1>5, LocalsIs DEF TP1Reduce, TP1ReduceFails, TP2Reduce, TP2ReduceFails
    <2>6. faults' \in Faults
      BY <1>0, <1>5, FaultsIs DEF TP1Reduce, TP1ReduceFails, TP2Reduce, TP2ReduceFails
    <2> QED
      BY <1>0, <1>5, <2>3, <2>4, <2>5, <2>6
         DEF TP1Reduce, TP1ReduceFails, TP2Reduce, TP2ReduceFails, TypeOK, Position, Steps,
             Faults
  <1>6. CASE FlagTP1
    <2> DEFINE g == [gv EXCEPT !.partial1 = TRUE, !.tp1Time = "recent"]
    <2>1. g \in State
      BY <1>0, RecordedIs
    <2>2. gv' = (IF Protected THEN g ELSE EnsureStarted(g)) /\ disk' = gv'
      BY <1>6 DEF FlagTP1, Save
    <2> HIDE DEF g
    <2>3. gv' \in State /\ disk' \in State
      BY <2>1, <2>2, StartedIs
    <2> QED
      BY <1>0, <1>6, <2>3 DEF FlagTP1, TypeOK, Steps
  <1>7. CASE BEAlready \/ BEDeferred
    <2>1. gv' \in State /\ disk' \in State
      BY <1>0, <1>7, WriteTypes DEF BEAlready, BEDeferred, Save, Write
    <2>2. lc' \in Locals
      BY <1>7, LocalsIs DEF BEAlready, BEDeferred
    <2> QED
      BY <1>0, <1>7, <2>1, <2>2 DEF BEAlready, BEDeferred, TypeOK, Steps
  <1>8. CASE BEAccepted \/ BERefused
    <2>1. pos' \in Position
      <3>1. CASE BEAccepted
        <4>1. Lock(1) \in Nat /\ Lock(1) < px
          BY <1>0, <3>1, StopsAre, SizesAssumption DEF BEAccepted, Sendable, BrokerSafe
        <4>2. Lock(1) \in Stops
          BY <1>0, <4>1, StopsAre
        <4> QED
          BY <3>1, <4>2, MovedIs DEF BEAccepted
      <3>2. CASE BERefused
        BY <1>0, <3>2 DEF BERefused
      <3> QED
        BY <1>8, <3>1, <3>2
    <2>2. lc' \in Locals
      BY <1>0, <1>8, LocalsIs DEF BEAccepted, BERefused
    <2> QED
      BY <1>0, <1>8, <2>1, <2>2 DEF BEAccepted, BERefused, TypeOK, Position, Steps
  <1>9. CASE StampBE \/ FlagTP2
    <2>1. [gv EXCEPT !.stage = 1] \in State /\ [gv EXCEPT !.partial2 = TRUE] \in State
      <3>1. 1 \in 0..4
        OBVIOUS
      <3> QED
        BY <1>0, <3>1, RecordedIs, Zenon
    <2>2. gv' \in State /\ disk' \in State
      BY <1>9, <2>1 DEF StampBE, FlagTP2, Save
    <2> QED
      BY <1>0, <1>9, <2>2 DEF StampBE, FlagTP2, TypeOK, Steps
  <1>10. CASE AuditBE
    <2>1. gv' \in State /\ disk' \in State
      BY <1>0, <1>10, WriteTypes DEF AuditBE, Save
    <2>2. lc' \in Locals
      BY <1>0, <1>10, LocalsIs DEF AuditBE
    <2> QED
      BY <1>0, <1>10, <2>1, <2>2 DEF AuditBE, TypeOK, Steps
  <1>11. CASE BeginAdvance
    <2>1. lc' \in Locals
      BY <1>0, <1>11, LocalsIs, FieldTypes DEF BeginAdvance
    <2> QED
      BY <1>0, <1>11, <2>1 DEF BeginAdvance, TypeOK, Steps
  <1>12. CASE AdvanceAccepted
    <2>1. PICK c \in Candidates(lc.step, lc.r) : Sendable(c) /\ pos' = [pos EXCEPT !.sl = c]
      BY <1>12 DEF AdvanceAccepted
    <2>2. c \in Stops
      <3>1. CASE lc.step < 4
        <4>1. lc.step \in {1, 2, 3}
          BY <3>1, <1>a
        <4>2. c \in Nat
          BY <2>1, <3>1, <4>1, StopsAre DEF Candidates
        <4>3. c < px
          BY <1>0, <2>1, <4>2, StopsAre, SizesAssumption DEF Sendable, BrokerSafe
        <4> QED
          BY <1>0, <4>2, <4>3, StopsAre
      <3>2. CASE ~(lc.step < 4)
        BY <2>1, <3>2 DEF Candidates
      <3> QED
        BY <3>1, <3>2
    <2>3. pos' \in Position
      BY <2>1, <2>2, MovedIs
    <2> QED
      BY <1>0, <1>12, <2>3 DEF AdvanceAccepted, TypeOK, Position, Steps
  <1>13. CASE AdvanceSkips
    <2>1. PICK k \in {n \in lc.step + 1 .. 4 : Due(n)} \cup {5} :
             lc' = [lc EXCEPT !.step = k]
      BY <1>13 DEF AdvanceSkips
    <2>2. k \in 1..5
      BY <1>a, <2>1
    <2>3. lc' \in Locals
      BY <2>1, <2>2, LocalsIs
    <2> QED
      BY <1>0, <1>13, <2>3 DEF AdvanceSkips, TypeOK
  <1>14. CASE StampStage
    <2> DEFINE n == IF lc.step < 4 THEN lc.step ELSE lc.stage
    <2>1. lc.step \in 1..4 /\ lc.step + 1 \in 1..5 /\ lc.step \in 0..4
      BY <1>14, <1>a DEF StampStage, AtStep
    <2>2. n \in 0..4
      BY <2>1, <1>a
    <2>3. lc' = [lc EXCEPT !.stage = n, !.step = lc.step + 1]
      BY <1>14 DEF StampStage
    <2> HIDE DEF n
    <2>4. lc' \in Locals
      BY <2>1, <2>2, <2>3, LocalsIs
    <2>5. [gv EXCEPT !.stage = lc.step] \in State
      BY <1>0, <2>1, RecordedIs
    <2>6. gv' \in State /\ disk' \in State
      BY <1>14, <2>5 DEF StampStage, Save
    <2> QED
      BY <1>0, <1>14, <2>4, <2>6 DEF StampStage, TypeOK, Steps
  <1>15. CASE AuditAdvance
    <2>1. gv' \in State /\ disk' \in State
      BY <1>0, <1>15, WriteTypes DEF AuditAdvance, Save
    <2>2. lc' \in Locals
      BY <1>15, LocalsIs DEF AuditAdvance
    <2> QED
      BY <1>0, <1>15, <2>1, <2>2 DEF AuditAdvance, TypeOK, Steps
  <1> QED
    BY <1>1, <1>2, <1>3, <1>4, <1>5, <1>6, <1>7, <1>8, <1>9, <1>10, <1>11,
       <1>12, <1>13, <1>14, <1>15 DEF Pass

Others ==
  \/ ObserveTimer \/ CheckpointTimer \/ TogglePause \/ Start \/ Stop \/ TerminalCrash
  \/ PriceMoves \/ RemoveStop \/ TimePasses

\* Stored times get older; nothing else changes.
LEMMA OlderIs ==
    ASSUME TypeOK, Elapse
    PROVE  /\ gv' \in State /\ disk' \in State
           /\ gv'.partial1 = gv.partial1 /\ gv'.done1 = gv.done1
           /\ gv'.partial2 = gv.partial2 /\ gv'.stage = gv.stage
           /\ gv'.tp1Time # "unset" => gv.tp1Time # "unset"
           /\ disk'.partial1 = disk.partial1 /\ disk'.stage = disk.stage
  <1>1. /\ gv \in State /\ disk \in State /\ "old" \in Ages
        /\ \A t \in Ages : Older(t) \in Ages
    BY DEF TypeOK, Ages, Older
  <1>3. ASSUME NEW g \in State, NEW u \in Ages
        PROVE  /\ [g EXCEPT !.retry = u] \in State /\ [g EXCEPT !.first = u] \in State
               /\ [g EXCEPT !.tp1Time = u] \in State
    BY Zenon DEF State
  <1>4. CASE /\ gv.retry = "recent" /\ gv' = [gv EXCEPT !.retry = "old"]
             /\ disk' = [disk EXCEPT !.retry = Older(@)]
    <2>1. disk' = [disk EXCEPT !.retry = Older(disk.retry)] /\ Older(disk.retry) \in Ages
      BY <1>1, <1>4, FieldTypes
    <2>2. gv' \in State /\ disk' \in State
      BY <1>1, <1>3, <1>4, <2>1
    <2> QED
      BY <1>1, <1>4, <2>1, <2>2 DEF State
  <1>5. CASE /\ gv.first = "recent" /\ gv' = [gv EXCEPT !.first = "old"]
             /\ disk' = [disk EXCEPT !.first = Older(@)]
    <2>1. disk' = [disk EXCEPT !.first = Older(disk.first)] /\ Older(disk.first) \in Ages
      BY <1>1, <1>5, FieldTypes
    <2>2. gv' \in State /\ disk' \in State
      BY <1>1, <1>3, <1>5, <2>1
    <2> QED
      BY <1>1, <1>5, <2>1, <2>2 DEF State
  <1>6. CASE /\ gv.tp1Time = "recent" /\ gv' = [gv EXCEPT !.tp1Time = "old"]
             /\ disk' = [disk EXCEPT !.tp1Time = Older(@)]
    <2>1. disk' = [disk EXCEPT !.tp1Time = Older(disk.tp1Time)]
          /\ Older(disk.tp1Time) \in Ages
      BY <1>1, <1>6, FieldTypes
    <2>2. gv' \in State /\ disk' \in State
      BY <1>1, <1>3, <1>6, <2>1
    <2> QED
      BY <1>1, <1>6, <2>1, <2>2 DEF State
  <1> QED
    BY <1>4, <1>5, <1>6 DEF Elapse

\* What OnInit writes.
LEMMA StartIs ==
    ASSUME TypeOK, Start
    PROVE  \E b \in BOOLEAN :
               /\ \/ b = HadExit /\ faults' = faults
                  \/ faults' = [faults EXCEPT !.missed = @ + 1]
               /\ gv' \in State /\ disk' = gv'
               /\ ~pos.open => gv' = gv
               /\ pos.open => /\ gv'.done1 = (gv.done1 \/ Protected \/ b)
                              /\ gv'.partial1 = (gv.partial1 \/ gv'.done1)
                              /\ gv'.partial2 = gv.partial2 /\ gv'.tp1Time = gv.tp1Time
                              /\ gv'.stage \in {gv.stage, ActualStage(pos.sl)}
  <1>1. PICK b \in {HadExit} \cup {c \in BOOLEAN : HistoryMayMiss /\ ~c} :
           LET g == IF pos.open THEN Restored(gv, b) ELSE gv
               o == IF pos.open THEN ObservePartial(g) ELSE g
           IN  /\ gv' = o /\ disk' = o
               /\ faults' = [faults EXCEPT !.missed = IF b = HadExit THEN @ ELSE @ + 1]
    BY DEF Start, Save
  <1>2. /\ b \in BOOLEAN
        /\ \/ b = HadExit /\ faults' = faults
           \/ faults' = [faults EXCEPT !.missed = @ + 1]
    <2>1. b \in BOOLEAN
      BY <1>1 DEF HadExit
    <2>2. [faults EXCEPT !.missed = @] = faults
      BY DEF TypeOK
    <2> QED
      BY <1>1, <2>1, <2>2
  <1>3. gv \in State
    BY DEF TypeOK
  <1>4. CASE ~pos.open
    BY <1>1, <1>2, <1>3, <1>4
  <1>5. CASE pos.open
    <2> DEFINE g == Restored(gv, b)
    <2>1. gv' = ObservePartial(g) /\ disk' = gv'
      BY <1>1, <1>5
    <2>2. /\ g \in State
          /\ g.done1 = (gv.done1 \/ Protected \/ b)
          /\ g.partial1 = (gv.partial1 \/ g.done1)
          /\ g.partial2 = gv.partial2 /\ g.tp1Time = gv.tp1Time
          /\ g.stage \in {gv.stage, ActualStage(pos.sl)}
      BY <1>2, <1>3, RestoredIs
    <2> HIDE DEF g
    <2>3. gv' \in State /\ Kept(g, gv')
      BY <2>1, <2>2, ObservePartialIs
    <2> QED
      BY <1>2, <1>5, <2>1, <2>2, <2>3 DEF Kept
  <1> QED
    BY <1>4, <1>5

\* The position after the broker or the operator touched it.
LEMMA WorldIs ==
    ASSUME TypeOK
    PROVE  /\ PriceMoves => pos' \in {pos, Closed} /\ px' \in Prices
           /\ RemoveStop => /\ pos' \in Position /\ pos'.open = pos.open /\ pos'.vol = pos.vol
                            /\ pos'.byHand
  <1>1. PriceMoves => pos' \in {pos, Closed} /\ px' \in Prices
    BY DEF PriceMoves
  <1>2. ASSUME RemoveStop
        PROVE  /\ pos' \in Position /\ pos'.open = pos.open /\ pos'.vol = pos.vol
               /\ pos'.byHand
    <2>1. pos' = [pos EXCEPT !.sl = NoStop, !.byHand = TRUE] /\ NoStop \in Stops
      BY <1>2, StopsAre DEF RemoveStop
    <2>2. pos' \in Position
      BY <2>1, PositionIs, Zenon DEF Position
    <2> QED
      BY <2>1, <2>2, PositionIs DEF Position
  <1> QED
    BY <1>1, <1>2

LEMMA OtherTypes == TypeOK /\ Others => TypeOK'
  <1> SUFFICES ASSUME TypeOK, Others
               PROVE  TypeOK'
    OBVIOUS
  <1>0. /\ pos \in Position /\ px \in Prices /\ taken \in [1..2 -> 0..Lots]
        /\ gv \in State /\ disk \in State /\ up \in BOOLEAN /\ pc \in Steps
        /\ lc \in Locals /\ restarts \in 0..MaxFaults /\ faults \in Faults
    BY DEF TypeOK, Position, Faults
  <1>1. CASE ObserveTimer \/ CheckpointTimer
    <2>1. gv' \in State /\ disk' \in State
      BY <1>0, <1>1, WriteTypes DEF ObserveTimer, CheckpointTimer, Save, Write
    <2> QED
      BY <1>0, <1>1, <2>1 DEF ObserveTimer, CheckpointTimer, TypeOK
  <1>2. CASE TogglePause
    <2>1. [gv EXCEPT !.paused = ~@] \in State
      BY <1>0, RecordedIs, Zenon
    <2>2. gv' \in State /\ disk' \in State
      BY <1>2, <2>1 DEF TogglePause, Save
    <2> QED
      BY <1>0, <1>2, <2>2 DEF TogglePause, TypeOK
  <1>3. CASE Start
    <2>1. gv' \in State /\ disk' \in State /\ faults' \in Faults
      BY <1>0, <1>3, StartIs, FaultsIs
    <2> QED
      BY <1>0, <1>3, <2>1 DEF Start, TypeOK, Faults
  <1>4. CASE Stop \/ TerminalCrash
    <2>1. restarts' \in 0..MaxFaults
      BY <1>0, <1>4, SizesAssumption, FaultsIs DEF Stop, TerminalCrash, Disturbable
    <2>2. lc' \in Locals
      BY <1>0, <1>4, LocalsIs DEF Stop, TerminalCrash
    <2> QED
      BY <1>0, <1>4, <2>1, <2>2 DEF Stop, TerminalCrash, Save, TypeOK, Steps
  <1>5. CASE PriceMoves
    <2>1. pos' \in Position /\ px' \in Prices
      BY <1>0, <1>5, WorldIs, ClosedIs
    <2> QED
      BY <1>0, <1>5, <2>1 DEF PriceMoves, TypeOK, Position
  <1>6. CASE RemoveStop
    <2>1. pos' \in Position
      BY <1>6, WorldIs
    <2> QED
      BY <1>0, <1>6, <2>1 DEF RemoveStop, TypeOK, Position
  <1>7. CASE TimePasses
    <2>1. gv' \in State /\ disk' \in State
      BY <1>7, OlderIs DEF TimePasses
    <2> QED
      BY <1>0, <1>7, <2>1 DEF TimePasses, TypeOK
  <1> QED
    BY <1>1, <1>2, <1>3, <1>4, <1>5, <1>6, <1>7 DEF Others

LEMMA TypeStep == TypeOK /\ Counted /\ AtStep /\ [Next]_vars => TypeOK'
  <1>1. TypeOK /\ UNCHANGED vars => TypeOK'
    BY DEF TypeOK, vars
  <1> QED
    BY <1>1, PassTypes, OtherTypes DEF Next, Others

------------------------------------------------------------------------------
(* What a step does to the stop, the volume and the records.                *)

Reducing == TP1Reduce \/ TP1ReduceFails \/ TP2Reduce \/ TP2ReduceFails

\* Every step but the operator's hand keeps or raises the stop; a position that
\* is gone does not come back; volume only leaves by a reduction or the end.
LEMMA PositionMoves ==
    ASSUME TypeOK, Counted, AtStep, [Next]_vars
    PROVE  /\ pos'.open => pos.open
           /\ \/ RemoveStop /\ pos'.byHand
              \/ (pos'.open => pos'.sl >= pos.sl) /\ pos'.byHand = pos.byHand
           /\ taken' = taken \/ Reducing
           /\ \/ Reducing
              \/ pos'.vol = pos.vol /\ pos'.open = pos.open
              \/ pos'.vol = 0 /\ ~pos'.open
  <1> USE DEF Step
  <1>0. /\ pos.sl \in Int /\ Closed.byHand = pos.byHand
        /\ ~Closed.open /\ Closed.vol = 0
    BY ClosedIs, PositionIs, StopsAre
  <1>1. CASE Restore
    <2>1. /\ pos'.sl = InitialSL /\ pos'.open = pos.open /\ pos'.vol = pos.vol
          /\ pos'.byHand = pos.byHand /\ pos.sl = 0 /\ InitialSL > 0 /\ InitialSL \in Int
      BY <1>1, MovedIs, StopsAre DEF Restore
    <2>2. taken' = taken
      BY <1>1 DEF Restore
    <2>3. pos'.sl >= pos.sl
      BY <2>1
    <2> QED
      BY <2>1, <2>2, <2>3
  <1>2. CASE BEAccepted \/ AdvanceAccepted
    <2>1. PICK c : Sendable(c) /\ pos' = [pos EXCEPT !.sl = c]
      BY <1>2 DEF BEAccepted, BEDue, AdvanceAccepted
    <2>2. /\ pos'.sl = c /\ pos'.open = pos.open /\ pos'.vol = pos.vol
          /\ pos'.byHand = pos.byHand /\ c > pos.sl
      BY <2>1, PositionIs DEF Position, Sendable, StopImproves
    <2>3. c > pos.sl => c >= pos.sl
      <3>1. c \in Int
        BY <2>2, TypeStep, StopsAre DEF TypeOK
      <3> QED
        BY <1>0, <3>1
    <2> QED
      BY <1>2, <2>2, <2>3 DEF BEAccepted, AdvanceAccepted
  <1>3. CASE Reducing
    <2>1. pos.open /\ pos.vol > 0
      BY <1>3 DEF Reducing, TP1Reduce, TP1ReduceFails, TP2Reduce, TP2ReduceFails, Counted
    <2>2. /\ TP1Percent \in 1..100 /\ TP2Percent \in 1..100
      BY SizesAssumption
    <2>3. \/ pos' = pos
          \/ pos' = WithVolume(Reduced(pos.vol, TP1Percent))
          \/ pos' = WithVolume(Reduced(pos.vol, TP2Percent))
      BY <1>3 DEF Reducing, TP1Reduce, TP1ReduceFails, TP2Reduce, TP2ReduceFails
    <2>4. (pos'.open => pos'.sl = pos.sl) /\ pos'.byHand = pos.byHand
      BY <2>1, <2>2, <2>3, ReducedIs
    <2> QED
      BY <1>0, <1>3, <2>1, <2>4
  <1>4. CASE RemoveStop
    BY <1>4, WorldIs DEF RemoveStop
  <1>5. CASE EmergencyClose \/ TimeInvalidation \/ Stall \/ PriceMoves
    <2>1. pos' \in {pos, Closed} /\ taken' = taken
      BY <1>5, WorldIs DEF EmergencyClose, TimeInvalidation, Stall, PriceMoves
    <2> QED
      BY <1>0, <2>1
  <1>6. CASE UNCHANGED <<pos, taken>>
    BY <1>0, <1>6
  <1> QED
    BY <1>1, <1>2, <1>3, <1>4, <1>5, <1>6
       DEF Next, Pass, BeginPass, RestoreFails,
           EmergencyCloseFails, TP1NotReached, TP1Taken, Reducing,
           FlagTP1, BEAlready, BEDeferred, BEDue, BERefused, StampBE, AuditBE,
           BeginAdvance, AdvanceSkips, StampStage, AuditAdvance, TP2NotDue,
           FlagTP2, PassEnds, ObserveTimer,
           CheckpointTimer, TogglePause, Start, Stop, TerminalCrash, TimePasses, vars

\* A reduction that is executed is flagged next, or its answer was lost.
Costs(i) ==
  \/ faults' = IF i = 1 THEN [faults EXCEPT !.tp1 = @ + 1]
                        ELSE [faults EXCEPT !.tp2 = @ + 1]
  \/ faults' = faults /\ (~pos'.open \/ pc' = IF i = 1 THEN "flag1" ELSE "flag2")

\* What a reduction does, reported or not.
LEMMA ReducingIs ==
    ASSUME TypeOK, Counted, Reducing
    PROVE  /\ pos.open /\ up /\ gv' = gv /\ disk' = disk /\ restarts' = restarts
           /\ \/ taken' = taken /\ pos' = pos /\ faults' = faults
              \/ /\ pos'.vol \in 0..(pos.vol - 1) /\ (pos'.open => pos'.vol > 0)
                 /\ \/ taken'[1] = taken[1] + 1 /\ taken'[2] = taken[2] /\ ~gv.partial1
                       /\ pc = "tp1" /\ Costs(1)
                    \/ taken'[2] = taken[2] + 1 /\ taken'[1] = taken[1] /\ ~gv.partial2
                       /\ pc = "tp2" /\ Costs(2)
  <1> USE DEF Step, Goto, Leave
  <1>1. pos.open /\ up /\ pos.vol > 0 /\ gv' = gv /\ disk' = disk /\ restarts' = restarts
    BY DEF Reducing, TP1Reduce, TP1ReduceFails, TP2Reduce, TP2ReduceFails, Counted
  <1>2. \A p \in {TP1Percent, TP2Percent} :
           LET q == WithVolume(Reduced(pos.vol, p))
           IN  q.vol \in 0..(pos.vol - 1) /\ (q.open => q.vol > 0)
    BY <1>1, ReducedIs, SizesAssumption
  <1>3. /\ \A t : t = [taken EXCEPT ![1] = @ + 1] => t[1] = taken[1] + 1 /\ t[2] = taken[2]
        /\ \A t : t = [taken EXCEPT ![2] = @ + 1] => t[2] = taken[2] + 1 /\ t[1] = taken[1]
    BY DEF TypeOK
  <1>4. CASE TP1Reduce \/ TP1ReduceFails
    <2>1. \/ taken' = taken /\ pos' = pos /\ faults' = faults
          \/ /\ pos' = WithVolume(Reduced(pos.vol, TP1Percent))
             /\ taken' = [taken EXCEPT ![1] = @ + 1]
             /\ Costs(1)
      BY <1>4 DEF TP1Reduce, TP1ReduceFails, Costs
    <2>2. ~gv.partial1 /\ pc = "tp1"
      BY <1>4 DEF TP1Reduce, TP1ReduceFails
    <2> QED
      BY <1>1, <1>2, <1>3, <2>1, <2>2
  <1>5. CASE TP2Reduce \/ TP2ReduceFails
    <2>1. \/ taken' = taken /\ pos' = pos /\ faults' = faults
          \/ /\ pos' = WithVolume(Reduced(pos.vol, TP2Percent))
             /\ taken' = [taken EXCEPT ![2] = @ + 1]
             /\ Costs(2)
      BY <1>5 DEF TP2Reduce, TP2ReduceFails, Costs
    <2>2. ~gv.partial2 /\ pc = "tp2"
      BY <1>5 DEF TP2Reduce, TP2ReduceFails, TP2Due
    <2> QED
      BY <1>1, <1>2, <1>3, <2>1, <2>2
  <1> QED
    BY <1>4, <1>5 DEF Reducing

LEMMA CountedStep == TypeOK /\ Counted /\ AtStep /\ [Next]_vars => Counted'
  <1> SUFFICES ASSUME TypeOK, Counted, AtStep, [Next]_vars
               PROVE  Counted'
    OBVIOUS
  <1>0. /\ taken[1] \in Nat /\ taken[2] \in Nat /\ pos.vol \in Nat /\ Lots \in Nat
    BY PositionIs, SizesAssumption DEF TypeOK
  <1>1. CASE Reducing
    <2>1. CASE taken' = taken /\ pos' = pos
      BY <2>1 DEF Counted
    <2>2. CASE /\ pos'.vol \in 0..(pos.vol - 1) /\ (pos'.open => pos'.vol > 0)
               /\ \/ taken'[1] = taken[1] + 1 /\ taken'[2] = taken[2]
                  \/ taken'[2] = taken[2] + 1 /\ taken'[1] = taken[1]
      BY <1>0, <2>2 DEF Counted
    <2> QED
      BY <1>1, <2>1, <2>2, ReducingIs
  <1>2. CASE ~Reducing
    <2>1. /\ taken' = taken
          /\ \/ pos'.vol = pos.vol /\ pos'.open = pos.open
             \/ pos'.vol = 0 /\ ~pos'.open
      BY <1>2, PositionMoves
    <2> QED
      BY <1>0, <2>1 DEF Counted
  <1> QED
    BY <1>1, <1>2

\* Steps after which the variables record the same of the position.
Keepers ==
  \/ BeginPass \/ Restore \/ RestoreFails \/ EmergencyClose \/ EmergencyCloseFails
  \/ TP1NotReached \/ TP1Taken \/ Reducing \/ BEDeferred \/ BEAccepted \/ BERefused
  \/ TimeInvalidation \/ BeginAdvance \/ AdvanceAccepted \/ AdvanceSkips
  \/ AuditAdvance \/ TP2NotDue \/ Stall \/ PassEnds \/ ObserveTimer
  \/ CheckpointTimer \/ TogglePause \/ Stop \/ PriceMoves \/ RemoveStop
  \/ UNCHANGED vars

LEMMA KeepStep ==
    ASSUME TypeOK, Keepers
    PROVE  /\ Kept(gv, gv') /\ disk' \in {disk, gv'}
           /\ pc' = pc \/ pc \notin {"flag1", "flag2"} \/ ~pos'.open
  <1> USE DEF Step, Goto, Leave
  <1>1. gv \in State
    BY DEF TypeOK
  <1>2. Kept(gv, gv') /\ disk' \in {disk, gv'}
    <2>1. CASE UNCHANGED <<gv, disk>>
      BY <2>1 DEF Kept
    <2>2. CASE Restore \/ RestoreFails \/ EmergencyClose \/ EmergencyCloseFails
               \/ BEDeferred \/ ObserveTimer
      <3>1. \/ gv' \in {gv, Cleared(gv), EnsureStarted(gv), ObservePartial(gv)}
            \/ \E op \in BOOLEAN : gv' = Observed(gv, op)
            \/ \E op \in BOOLEAN : gv' = Failed(gv, TRUE, op)
        BY <2>2 DEF Restore, RestoreFails, EmergencyClose, EmergencyCloseFails,
                    BEDeferred, ObserveTimer, Save, Write
      <3>2. disk' \in {disk, gv'}
        BY <2>2 DEF Restore, RestoreFails, EmergencyClose, EmergencyCloseFails,
                    BEDeferred, ObserveTimer, Save, Write
      <3> QED
        <4>1. Kept(gv, gv) /\ Kept(gv, Cleared(gv)) /\ Kept(gv, EnsureStarted(gv))
              /\ Kept(gv, ObservePartial(gv))
          BY <1>1, ClearedIs, StartedIs, ObservePartialIs DEF Kept
        <4>2. \A op \in BOOLEAN : Kept(gv, Observed(gv, op)) /\ Kept(gv, Failed(gv, TRUE, op))
          BY <1>1, ObservedIs, FailedIs
        <4> QED
          BY <3>1, <3>2, <4>1, <4>2
    <2>3. CASE AuditAdvance
      <3>1. \/ gv' = gv /\ disk' = disk
            \/ gv' \in Audited(gv, lc.r) /\ disk' = gv'
        BY <2>3 DEF AuditAdvance, Save
      <3> QED
        BY <1>1, <3>1, AuditedIs DEF Kept
    <2>4. CASE CheckpointTimer \/ Stop
      BY <2>4 DEF CheckpointTimer, Stop, Save, Kept
    <2>5. CASE TogglePause
      <3>1. gv' = [gv EXCEPT !.paused = ~@] /\ disk' = gv'
        BY <2>5 DEF TogglePause, Save
      <3> QED
        BY <1>1, <3>1 DEF State, Kept
    <2> QED
      BY <2>1, <2>2, <2>3, <2>4, <2>5
         DEF Keepers, BeginPass, TP1NotReached, TP1Taken, Reducing, TP1Reduce,
             TP1ReduceFails, TP2Reduce, TP2ReduceFails, BEAccepted, BERefused,
             TimeInvalidation, BeginAdvance, AdvanceAccepted, AdvanceSkips, TP2NotDue,
             Stall, PassEnds, PriceMoves, RemoveStop, vars
  <1>3. pc' = pc \/ pc \notin {"flag1", "flag2"} \/ ~pos'.open
    BY DEF Keepers, BeginPass, Restore, RestoreFails, EmergencyClose,
           EmergencyCloseFails, TP1NotReached, TP1Taken, Reducing, TP1Reduce,
           TP1ReduceFails, TP2Reduce, TP2ReduceFails, BEDeferred, BEDue, BEAccepted,
           BERefused, TimeInvalidation, BeginAdvance, AdvanceAccepted, AdvanceSkips,
           AuditAdvance, TP2NotDue, Stall, PassEnds, ObserveTimer,
           CheckpointTimer, TogglePause, Stop, PriceMoves, RemoveStop, vars
  <1> QED
    BY <1>2, <1>3

------------------------------------------------------------------------------
(* The ladder: a recorded stage is backed by the stop, in the variables and *)
(* in their flushed copy, and a stage about to be stamped already is.       *)

Backs(sl, n) == n > 0 => sl >= Lock(IF n < 3 THEN n ELSE 3)

Laddered ==
  pos.open /\ ~pos.byHand =>
    /\ pos.sl >= InitialSL
    /\ Backs(pos.sl, gv.stage) /\ Backs(pos.sl, disk.stage)
    /\ pc = "bestamp" => Backs(pos.sl, 1)
    /\ pc = "stamp" => Backs(pos.sl, lc.step)

LEMMA HigherBacks ==
    ASSUME NEW a \in Int, NEW b \in Int, b >= a, NEW n \in 0..5, Backs(a, n)
    PROVE  Backs(b, n)
  <1>1. n > 0 => Lock(IF n < 3 THEN n ELSE 3) \in Int
    <2>1. n > 0 => (IF n < 3 THEN n ELSE 3) \in {1, 2, 3}
      OBVIOUS
    <2> QED
      BY <2>1, StopsAre
  <1> QED
    BY <1>1 DEF Backs

LEMMA ActualIsBacked ==
    ASSUME NEW sl \in Int
    PROVE  Backs(sl, ActualStage(sl))
  BY StopsAre DEF ActualStage, Backs

LEMMA LadderedStep == TypeOK /\ Counted /\ AtStep /\ Laddered /\ [Next]_vars => Laddered'
  <1> SUFFICES ASSUME TypeOK, Counted, AtStep, Laddered, [Next]_vars,
                      pos'.open, ~pos'.byHand
               PROVE  /\ pos'.sl >= InitialSL
                      /\ Backs(pos'.sl, gv'.stage) /\ Backs(pos'.sl, disk'.stage)
                      /\ pc' = "bestamp" => Backs(pos'.sl, 1)
                      /\ pc' = "stamp" => Backs(pos'.sl, lc'.step)
    BY DEF Laddered
  <1> USE DEF Step, Goto, Leave
  <1>0. /\ pos.open /\ ~pos.byHand /\ pos.sl \in Int /\ pos'.sl \in Int
        /\ pos'.sl >= pos.sl /\ InitialSL \in Int
    <2>1. pos.open /\ ~pos.byHand /\ pos'.sl >= pos.sl
      BY PositionMoves
    <2>2. TypeOK'
      BY TypeStep
    <2>3. pos.sl \in Int /\ pos'.sl \in Int /\ InitialSL \in Int
      BY <2>2, StopsAre DEF TypeOK
    <2> QED
      BY <2>1, <2>3
  <1>1. /\ gv \in State /\ disk \in State /\ gv.stage \in 0..5 /\ disk.stage \in 0..5
        /\ lc.step \in 0..5
    <2>1. gv \in State /\ disk \in State
      BY DEF TypeOK
    <2>2. lc.step \in 1..5
      BY LocalsIs, Zenon
    <2> QED
      BY <2>1, <2>2, FieldTypes
  <1>2. /\ pos'.sl >= InitialSL
        /\ Backs(pos'.sl, gv.stage) /\ Backs(pos'.sl, disk.stage)
        /\ pc = "bestamp" => Backs(pos'.sl, 1)
        /\ pc = "stamp" => Backs(pos'.sl, lc.step)
    BY <1>0, <1>1, HigherBacks DEF Laddered
  <1>3. /\ Backs(pos'.sl, gv'.stage) /\ Backs(pos'.sl, disk'.stage)
    <2>1. CASE Keepers
      BY <1>2, <2>1, KeepStep DEF Kept
    <2>2. CASE StampBE \/ StampStage
      <3>1. PICK n \in 0..4 : /\ gv' = [gv EXCEPT !.stage = n] /\ disk' = gv'
                              /\ Backs(pos'.sl, n)
        <4>1. CASE StampBE
          <5>1. gv' = [gv EXCEPT !.stage = 1] /\ disk' = gv' /\ pc = "bestamp"
            BY <4>1 DEF StampBE, Save
          <5> QED
            BY <1>2, <5>1
        <4>2. CASE StampStage
          <5>1. /\ gv' = [gv EXCEPT !.stage = lc.step] /\ disk' = gv' /\ pc = "stamp"
            BY <4>2 DEF StampStage, Save
          <5> QED
            BY <1>1, <1>2, <5>1 DEF AtStep
        <4> QED
          BY <2>2, <4>1, <4>2
      <3>2. gv'.stage = n
        BY <1>1, <3>1 DEF State
      <3> QED
        BY <3>1, <3>2
    <2>3. CASE FlagTP1 \/ FlagTP2
      <3> DEFINE g == [gv EXCEPT !.partial1 = TRUE, !.tp1Time = "recent"]
                 h == [gv EXCEPT !.partial2 = TRUE]
      <3>1. g \in State /\ g.stage = gv.stage /\ h.stage = gv.stage
        BY <1>1, RecordedIs
      <3>2. gv' \in {g, EnsureStarted(g), h} /\ disk' = gv'
        BY <2>3 DEF FlagTP1, FlagTP2, Save
      <3> HIDE DEF g, h
      <3>3. EnsureStarted(g).stage = g.stage
        BY <3>1, StartedIs DEF Kept
      <3> QED
        BY <1>2, <3>1, <3>2, <3>3
    <2>4. CASE BEAlready \/ AuditBE
      <3>1. PICK g \in {Cleared(gv)} \cup Audited(gv, lc.r) :
               \/ gv' \in {g, Finish(g)} /\ disk' = gv'
               \/ gv' = gv /\ disk' = disk
        BY <2>4 DEF BEAlready, AuditBE, Save
      <3>2. g \in State /\ g.stage = gv.stage
        BY <1>1, <3>1, ClearedIs, AuditedIs DEF Kept
      <3>3. Finish(g).stage = g.stage
        BY <3>2, FinishIs
      <3> QED
        BY <1>2, <3>1, <3>2, <3>3
    <2>5. CASE Start
      <3>1. gv'.stage \in {gv.stage, ActualStage(pos.sl)} /\ disk' = gv' /\ pos' = pos
        BY <1>0, <2>5, StartIs DEF Start
      <3> QED
        BY <1>0, <1>2, <3>1, ActualIsBacked
    <2>6. CASE TerminalCrash
      BY <1>2, <2>6 DEF TerminalCrash
    <2>7. CASE TimePasses
      BY <1>2, <2>7, OlderIs DEF TimePasses
    <2> QED
      BY <2>1, <2>2, <2>3, <2>4, <2>5, <2>6, <2>7 DEF Next, Pass, Keepers, Reducing
  <1>4. pc' = "bestamp" => Backs(pos'.sl, 1)
    <2>1. CASE BEAccepted
      <3>1. pos'.sl = Lock(1)
        BY <2>1, PositionIs DEF BEAccepted, Position
      <3> QED
        BY <1>0, <3>1 DEF Backs
    <2>2. CASE pc' = pc
      BY <1>2, <2>2
    <2>3. CASE pc' # "bestamp"
      BY <2>3
    <2> QED
      BY <2>1, <2>2, <2>3
         DEF Next, Pass, BeginPass, Restore, RestoreFails, EmergencyClose,
             EmergencyCloseFails, TP1NotReached, TP1Taken, TP1Reduce, TP1ReduceFails,
             FlagTP1, BEAlready, BEDeferred, BEDue, BERefused, StampBE, AuditBE,
             TimeInvalidation, BeginAdvance, AdvanceAccepted, AdvanceSkips, StampStage,
             AuditAdvance, TP2NotDue, TP2Reduce, TP2ReduceFails, FlagTP2, Stall,
             PassEnds, ObserveTimer, CheckpointTimer, TogglePause, Start, Stop,
             TerminalCrash, PriceMoves, RemoveStop, TimePasses, vars
  <1>5. pc' = "stamp" => Backs(pos'.sl, lc'.step)
    <2>1. CASE AdvanceAccepted
      <3>1. PICK c \in Candidates(lc.step, lc.r) : pos' = [pos EXCEPT !.sl = c]
        BY <2>1 DEF AdvanceAccepted
      <3>2. pos'.sl = c /\ lc' = lc /\ lc.step < 5 /\ lc.step \in 1..5
        <4>1. lc.step \in 1..5
          BY LocalsIs, Zenon
        <4> QED
          BY <2>1, <3>1, <4>1, PositionIs DEF AdvanceAccepted, Position
      <3>3. CASE lc.step < 4
        <4>1. c = Lock(lc.step) /\ lc.step \in {1, 2, 3}
          BY <3>1, <3>2, <3>3 DEF Candidates
        <4> QED
          BY <1>0, <3>2, <4>1 DEF Backs
      <3>4. CASE lc.step = 4
        BY <3>1, <3>2, <3>4, StopsAre DEF Candidates, Backs
      <3> QED
        BY <3>2, <3>3, <3>4
    <2>2. CASE pc' = pc /\ lc' = lc
      BY <1>2, <2>2
    <2>3. CASE pc' # "stamp"
      BY <2>3
    <2>4. CASE AdvanceSkips
      BY <2>4 DEF AdvanceSkips
    <2> QED
      BY <2>1, <2>2, <2>3, <2>4
         DEF Next, Pass, BeginPass, Restore, RestoreFails, EmergencyClose,
             EmergencyCloseFails, TP1NotReached, TP1Taken, TP1Reduce, TP1ReduceFails,
             FlagTP1, BEAlready, BEDeferred, BEDue, BEAccepted, BERefused, StampBE,
             AuditBE, TimeInvalidation, BeginAdvance, StampStage,
             AuditAdvance, TP2NotDue, TP2Reduce, TP2ReduceFails, FlagTP2, Stall,
             PassEnds, ObserveTimer, CheckpointTimer, TogglePause, Start, Stop,
             TerminalCrash, PriceMoves, RemoveStop, TimePasses, vars
  <1> QED
    BY <1>2, <1>3, <1>4, <1>5

------------------------------------------------------------------------------
(* TP1DONE and the hazard of a scaled-out position: without a restart, the  *)
(* flag is there only behind a protected stop, and the time of the scale-   *)
(* out only with the flag that goes with it.                                *)

Earned ==
  restarts = 0 =>
    /\ up
    /\ pos.open /\ ~pos.byHand =>
         /\ gv.done1 => Protected
         /\ gv.tp1Time # "unset" => gv.partial1 \/ Protected

LEMMA EarnedStep == TypeOK /\ Counted /\ AtStep /\ Earned /\ [Next]_vars => Earned'
  <1> SUFFICES ASSUME TypeOK, Counted, AtStep, Earned, [Next]_vars, restarts' = 0
               PROVE  /\ up'
                      /\ pos'.open /\ ~pos'.byHand =>
                           /\ gv'.done1 => Protected'
                           /\ gv'.tp1Time # "unset" => gv'.partial1 \/ Protected'
    BY DEF Earned
  <1> USE DEF Step, Goto, Leave
  <1>1. gv \in State /\ disk \in State /\ restarts \in Nat
    BY SizesAssumption DEF TypeOK
  <1>2. restarts = 0 /\ up /\ ~Stop /\ ~TerminalCrash /\ ~Start
    <2>1. ~Stop /\ ~TerminalCrash
      BY <1>1 DEF Stop, TerminalCrash
    <2>2. restarts' = restarts
      BY <2>1 DEF Next, Pass, BeginPass, Restore, RestoreFails, EmergencyClose,
             EmergencyCloseFails, TP1NotReached, TP1Taken, TP1Reduce, TP1ReduceFails,
             FlagTP1, BEAlready, BEDeferred, BEDue, BEAccepted, BERefused, StampBE,
             AuditBE, TimeInvalidation, BeginAdvance, AdvanceAccepted, AdvanceSkips,
             StampStage, AuditAdvance, TP2NotDue, TP2Reduce, TP2ReduceFails, FlagTP2,
             Stall, PassEnds, ObserveTimer, CheckpointTimer, TogglePause, Start,
             PriceMoves, RemoveStop, TimePasses, vars
    <2>3. ~Start
      BY <2>2 DEF Earned, Start
    <2> QED
      BY <2>1, <2>2, <2>3 DEF Earned
  <1>3. up'
    BY <1>2 DEF Next, Pass, BeginPass, Restore, RestoreFails, EmergencyClose,
             EmergencyCloseFails, TP1NotReached, TP1Taken, TP1Reduce, TP1ReduceFails,
             FlagTP1, BEAlready, BEDeferred, BEDue, BEAccepted, BERefused, StampBE,
             AuditBE, TimeInvalidation, BeginAdvance, AdvanceAccepted, AdvanceSkips,
             StampStage, AuditAdvance, TP2NotDue, TP2Reduce, TP2ReduceFails, FlagTP2,
             Stall, PassEnds, ObserveTimer, CheckpointTimer, TogglePause, Start,
             PriceMoves, RemoveStop, TimePasses, vars
  <1> SUFFICES ASSUME pos'.open, ~pos'.byHand
               PROVE  /\ gv'.done1 => Protected'
                      /\ gv'.tp1Time # "unset" => gv'.partial1 \/ Protected'
    BY <1>3
  <1>4. /\ gv.done1 => Protected
        /\ gv.tp1Time # "unset" => gv.partial1 \/ Protected
        /\ Protected => Protected'
    <2>1. pos.open /\ ~pos.byHand /\ pos'.sl >= pos.sl
      BY PositionMoves
    <2>2. TypeOK'
      BY TypeStep
    <2>3. pos.sl \in Int /\ Entry \in Int
      <3>1. pos.sl \in Stops
        BY PositionIs
      <3>2. Stops \subseteq Int /\ Entry \in Int
        BY StopsAre, SMT
      <3> QED
        BY <3>1, <3>2
    <2>4. pos'.sl \in Int
      <3>1. pos' \in [open: BOOLEAN, vol: 0..Lots, sl: Stops, byHand: BOOLEAN]
        BY <2>2 DEF TypeOK
      <3>2. pos'.sl \in Stops
        BY <3>1
      <3> QED
        BY <3>2, StopsAre
    <2> QED
      BY <1>2, <2>1, <2>3, <2>4 DEF Earned, Protected
  <1>5. CASE Keepers
    BY <1>4, <1>5, KeepStep DEF Kept
  <1>6. CASE StampBE \/ StampStage
    <2>1. PICK n : gv' = [gv EXCEPT !.stage = n]
      BY <1>6 DEF StampBE, StampStage, Save
    <2>2. /\ gv'.done1 = gv.done1 /\ gv'.tp1Time = gv.tp1Time /\ gv'.partial1 = gv.partial1
      BY <1>1, <2>1 DEF State
    <2> QED
      BY <1>4, <2>2
  <1>7. CASE FlagTP1
    <2> DEFINE g == [gv EXCEPT !.partial1 = TRUE, !.tp1Time = "recent"]
    <2>1. g \in State /\ g.partial1 /\ g.done1 = gv.done1
      BY <1>1, RecordedIs
    <2>2. gv' \in {g, EnsureStarted(g)}
      BY <1>7 DEF FlagTP1, Save
    <2> HIDE DEF g
    <2>3. EnsureStarted(g).partial1 /\ EnsureStarted(g).done1 = gv.done1
      BY <2>1, StartedIs DEF Kept
    <2> QED
      BY <1>4, <2>1, <2>2, <2>3
  <1>8. CASE BEAlready
    <2>1. Protected
      BY <1>8 DEF BEAlready
    <2> QED
      BY <1>4, <2>1
  <1>9. CASE AuditBE
    <2>1. CASE Protected
      BY <1>4, <2>1
    <2>2. CASE ~Protected
      <3>1. gv' = gv \/ gv' \in Audited(gv, lc.r)
        BY <1>9, <2>2 DEF AuditBE, Save
      <3>2. Kept(gv, gv')
        BY <1>1, <3>1, AuditedIs DEF Kept
      <3> QED
        BY <1>4, <3>2 DEF Kept
    <2> QED
      BY <2>1, <2>2
  <1>10. CASE FlagTP2
    <2>1. gv' = [gv EXCEPT !.partial2 = TRUE]
      BY <1>10 DEF FlagTP2, Save
    <2>2. /\ gv'.done1 = gv.done1 /\ gv'.tp1Time = gv.tp1Time /\ gv'.partial1 = gv.partial1
      BY <1>1, <2>1 DEF State
    <2> QED
      BY <1>4, <2>2
  <1>11. CASE TimePasses
    BY <1>4, <1>11, OlderIs DEF TimePasses
  <1> QED
    BY <1>2, <1>5, <1>6, <1>7, <1>8, <1>9, <1>10, <1>11 DEF Next, Pass, Keepers, Reducing

------------------------------------------------------------------------------
(* Each scale-out is taken once: every reduction leaves a trace, in the     *)
(* flag, in the step that is about to set it or in the deals a restart      *)
(* looks at, unless its answer was lost or a restart missed the trace.      *)

Scaled ==
  /\ taken[1] <= 1 + faults.tp1 + faults.missed
  /\ pos.open /\ up /\ taken[1] > faults.tp1 + faults.missed
       => gv.partial1 \/ pc = "flag1"
  /\ taken[2] <= 1 + faults.tp2 + restarts
  /\ pos.open /\ taken[2] > faults.tp2 + restarts => gv.partial2 \/ pc = "flag2"

LEMMA ScaledStep == TypeOK /\ Counted /\ AtStep /\ Scaled /\ [Next]_vars => Scaled'
  <1> SUFFICES ASSUME TypeOK, Counted, AtStep, Scaled, [Next]_vars
               PROVE  Scaled'
    OBVIOUS
  <1> USE DEF Step, Goto, Leave
  <1>0. /\ gv \in State /\ disk \in State /\ restarts \in Nat
        /\ taken[1] \in Nat /\ taken[2] \in Nat
        /\ faults.tp1 \in Nat /\ faults.tp2 \in Nat /\ faults.missed \in Nat
    BY SizesAssumption, FaultsIs DEF TypeOK
  <1>1. CASE Reducing
    <2>1. pos.open /\ up /\ gv' = gv /\ restarts' = restarts
      BY <1>1, ReducingIs
    <2>2. CASE taken' = taken /\ pos' = pos /\ faults' = faults
      <3>1. pc # "flag1" /\ pc # "flag2" /\ up' = up
        BY <1>1 DEF Reducing, TP1Reduce, TP1ReduceFails, TP2Reduce, TP2ReduceFails
      <3> QED
        BY <2>1, <2>2, <3>1 DEF Scaled
    <2>3. CASE /\ taken'[1] = taken[1] + 1 /\ taken'[2] = taken[2] /\ ~gv.partial1
               /\ pc = "tp1" /\ Costs(1)
      <3>1. taken[1] <= faults.tp1 + faults.missed
        BY <1>0, <2>1, <2>3 DEF Scaled
      <3>2. /\ faults'.tp2 = faults.tp2 /\ faults'.missed = faults.missed
            /\ \/ faults'.tp1 = faults.tp1 + 1
               \/ faults'.tp1 = faults.tp1 /\ (~pos'.open \/ pc' = "flag1")
        BY <2>3, FaultsIs DEF Costs
      <3> QED
        BY <1>0, <2>1, <2>3, <3>1, <3>2 DEF Scaled
    <2>4. CASE /\ taken'[2] = taken[2] + 1 /\ taken'[1] = taken[1] /\ ~gv.partial2
               /\ pc = "tp2" /\ Costs(2)
      <3>1. taken[2] <= faults.tp2 + restarts
        BY <1>0, <2>1, <2>4 DEF Scaled
      <3>2. /\ faults'.tp1 = faults.tp1 /\ faults'.missed = faults.missed
            /\ \/ faults'.tp2 = faults.tp2 + 1
               \/ faults'.tp2 = faults.tp2 /\ (~pos'.open \/ pc' = "flag2")
        <4>1. \/ faults' = [faults EXCEPT !.tp2 = @ + 1]
              \/ faults' = faults /\ (~pos'.open \/ pc' = "flag2")
          BY <2>4 DEF Costs
        <4> QED
          BY <4>1, FaultsIs
      <3> QED
        BY <1>0, <2>1, <2>4, <3>1, <3>2 DEF Scaled
    <2> QED
      BY <1>1, <2>2, <2>3, <2>4, ReducingIs
  <1> SUFFICES ASSUME ~Reducing
               PROVE  Scaled'
    BY <1>1
  <1>2. taken' = taken /\ (pos'.open => pos.open)
    BY PositionMoves
  <1>3. /\ faults' = faults \/ Start
        /\ \/ restarts' = restarts
           \/ restarts' = restarts + 1 /\ (Stop \/ TerminalCrash)
    BY DEF Next, Pass, BeginPass, Restore, RestoreFails, EmergencyClose,
           EmergencyCloseFails, TP1NotReached, TP1Taken, Reducing,
           FlagTP1, BEAlready, BEDeferred, BEDue, BEAccepted, BERefused, StampBE,
           AuditBE, TimeInvalidation, BeginAdvance, AdvanceAccepted, AdvanceSkips,
           StampStage, AuditAdvance, TP2NotDue, FlagTP2,
           Stall, PassEnds, ObserveTimer, CheckpointTimer, TogglePause, Start,
           Stop, TerminalCrash, PriceMoves, RemoveStop, TimePasses, vars
  <1> USE <1>0
  <1>4. CASE Keepers
    <2>1. /\ gv'.partial1 = gv.partial1 /\ gv'.partial2 = gv.partial2
          /\ pc' = pc \/ pc \notin {"flag1", "flag2"} \/ ~pos'.open
      BY <1>4, KeepStep DEF Kept
    <2>2. up' => up
      BY <1>4 DEF Keepers, BeginPass, Restore, RestoreFails, EmergencyClose,
             EmergencyCloseFails, TP1NotReached, TP1Taken, BEDeferred, BEDue, BEAccepted,
             BERefused, TimeInvalidation, BeginAdvance, AdvanceAccepted, AdvanceSkips,
             AuditAdvance, TP2NotDue, Stall, PassEnds, ObserveTimer, CheckpointTimer,
             TogglePause, Stop, PriceMoves, RemoveStop, vars
    <2>3. /\ faults' = faults
          /\ restarts' = restarts \/ (restarts' = restarts + 1 /\ pos' = pos)
      BY <1>3, <2>2 DEF Stop, TerminalCrash, Start
    <2> QED
      BY <1>2, <2>1, <2>2, <2>3 DEF Scaled
  <1>5. CASE FlagTP1
    <2> DEFINE g == [gv EXCEPT !.partial1 = TRUE, !.tp1Time = "recent"]
    <2>1. g \in State /\ g.partial1 /\ g.partial2 = gv.partial2
      BY <1>0, RecordedIs
    <2>2. gv' \in {g, EnsureStarted(g)} /\ pc = "flag1"
      BY <1>5 DEF FlagTP1, Save
    <2> HIDE DEF g
    <2>3. EnsureStarted(g).partial1 /\ EnsureStarted(g).partial2 = gv.partial2
      BY <2>1, StartedIs DEF Kept
    <2>4. faults' = faults /\ restarts' = restarts
      BY <1>5 DEF FlagTP1
    <2> QED
      BY <1>2, <2>1, <2>2, <2>3, <2>4 DEF Scaled
  <1>6. CASE FlagTP2
    <2>1. gv' = [gv EXCEPT !.partial2 = TRUE] /\ pc = "flag2" /\ up
      BY <1>6 DEF FlagTP2, Save
    <2>2. gv'.partial1 = gv.partial1 /\ gv'.partial2
      BY <1>0, <2>1 DEF State
    <2>3. faults' = faults /\ restarts' = restarts
      BY <1>6 DEF FlagTP2
    <2> QED
      BY <1>2, <2>1, <2>2, <2>3 DEF Scaled
  <1>7. CASE BEAlready \/ AuditBE \/ StampBE \/ StampStage
    <2>1. gv'.partial1 = gv.partial1 /\ gv'.partial2 = gv.partial2
      <3>1. CASE BEAlready \/ AuditBE
        <4>1. PICK g \in {gv, Cleared(gv)} \cup Audited(gv, lc.r) : gv' \in {g, Finish(g)}
          BY <3>1 DEF BEAlready, AuditBE, Save
        <4>2. g \in State /\ g.partial1 = gv.partial1 /\ g.partial2 = gv.partial2
          BY <1>0, <4>1, ClearedIs, AuditedIs DEF Kept
        <4>3. Finish(g).partial1 = g.partial1 /\ Finish(g).partial2 = g.partial2
          BY <4>2, FinishIs
        <4> QED
          BY <4>1, <4>2, <4>3
      <3>2. CASE StampBE \/ StampStage
        <4>1. PICK n : gv' = [gv EXCEPT !.stage = n]
          BY <3>2 DEF StampBE, StampStage, Save
        <4> QED
          BY <1>0, <4>1 DEF State
      <3> QED
        BY <1>7, <3>1, <3>2
    <2>2. pc # "flag1" /\ pc # "flag2" /\ up
      BY <1>7 DEF BEAlready, AuditBE, StampBE, StampStage
    <2>3. faults' = faults /\ restarts' = restarts
      BY <1>7 DEF BEAlready, AuditBE, StampBE, StampStage
    <2> QED
      BY <1>2, <2>1, <2>2, <2>3 DEF Scaled
  <1>8. CASE Start
    <2>1. pos' = pos /\ pc' = pc /\ restarts' = restarts
      BY <1>8 DEF Start
    <2>2. PICK b \in BOOLEAN :
             /\ \/ b = HadExit /\ faults' = faults
                \/ faults' = [faults EXCEPT !.missed = @ + 1]
             /\ pos.open => /\ gv'.partial1 = (gv.partial1 \/ gv'.done1)
                            /\ gv'.done1 = (gv.done1 \/ Protected \/ b)
                            /\ gv'.partial2 = gv.partial2
      BY <1>8, StartIs
    <2>3. CASE b = HadExit /\ faults' = faults
      <3>1. pos.open /\ taken[1] > 0 => gv'.partial1
        <4>1. taken[1] > 0 => HadExit
          BY DEF HadExit
        <4> QED
          BY <2>2, <2>3, <4>1
      <3> QED
        BY <1>2, <2>1, <2>2, <2>3, <3>1 DEF Scaled
    <2>4. CASE faults' = [faults EXCEPT !.missed = @ + 1]
      <3>1. /\ faults'.tp1 = faults.tp1 /\ faults'.tp2 = faults.tp2
            /\ faults'.missed = faults.missed + 1
        BY <2>4, FaultsIs
      <3> QED
        BY <1>2, <2>1, <2>2, <3>1 DEF Scaled
    <2> QED
      BY <2>2, <2>3, <2>4
  <1>9. CASE TerminalCrash
    <2>1. ~up' /\ restarts' = restarts + 1 /\ faults' = faults
      BY <1>9 DEF TerminalCrash
    <2> QED
      BY <1>2, <2>1 DEF Scaled
  <1>10. CASE TimePasses
    <2>1. gv'.partial1 = gv.partial1 /\ gv'.partial2 = gv.partial2 /\ pc' = pc /\ up' = up
      BY <1>10, OlderIs DEF TimePasses
    <2>2. faults' = faults /\ restarts' = restarts
      BY <1>10 DEF TimePasses
    <2> QED
      BY <1>2, <2>1, <2>2 DEF Scaled
  <1> QED
    BY <1>4, <1>5, <1>6, <1>7, <1>8, <1>9, <1>10 DEF Next, Pass, Keepers, Reducing

------------------------------------------------------------------------------
(* The theorems.                                                            *)

IInv == TypeOK /\ Counted /\ AtStep /\ Laddered /\ Earned

LEMMA IInvStart == Init => IInv
  <1> SUFFICES ASSUME Init
               PROVE  IInv
    OBVIOUS
  <1>1. TypeOK /\ Counted /\ AtStep
    BY TypeStart
  <1>2. /\ pos.sl = InitialSL /\ gv.stage = 0 /\ disk.stage = 0 /\ pc = "idle" /\ up
        /\ ~gv.done1 /\ gv.tp1Time = "unset"
    BY DEF Init, Fresh
  <1>3. Laddered
    BY <1>2, StopsAre DEF Laddered, Backs
  <1>4. Earned
    BY <1>2 DEF Earned
  <1> QED
    BY <1>1, <1>3, <1>4 DEF IInv

LEMMA IInvStep == IInv /\ [Next]_vars => IInv'
  BY TypeStep, CountedStep, AtStepStep, LadderedStep, EarnedStep DEF IInv

\* In every state an EA with any number of restarts may reach, the reductions
\* and the rest add up to the entry, the stages in the variables and in their
\* flushed copy are backed by the stop at the broker, and the flags of an EA
\* that was never restarted are earned.
THEOREM Invariance == Spec => []IInv
  <1>1. Init => IInv
    BY IInvStart
  <1>2. IInv /\ [Next]_vars => IInv'
    BY IInvStep
  <1> QED
    BY <1>1, <1>2, PTL DEF Spec

\* Every variable keeps its type; above all no reduction, rounding of a volume,
\* lost answer or restart takes more than the position holds.
THEOREM TypeCorrect == Spec => []TypeOK
  <1>1. IInv => TypeOK
    BY DEF IInv
  <1> QED
    BY <1>1, Invariance, PTL

\* A recorded stage of the ladder is backed by the stop the broker holds, for
\* any order of refusals, crashes between a modification and its stamp, and
\* restarts.
THEOREM StageHonest == Spec => []StageIsHonest
  <1>1. IInv => StageIsHonest
    BY DEF IInv, Laddered, Backs, StageIsHonest
  <1> QED
    BY <1>1, Invariance, PTL

\* No step of the EA, of the broker or of a restart moves an existing stop back.
THEOREM StopsNeverLoosen == Spec => StopNeverLoosens
  <1>1. IInv /\ [Next]_vars
          => [pos.open /\ pos'.open => pos'.sl >= pos.sl \/ RemoveStop]_vars
    BY PositionMoves DEF IInv
  <1> QED
    BY <1>1, Invariance, PTL DEF StopNeverLoosens, Spec

\* An EA that was not restarted never takes a scaled-out position that is not
\* protected for a protected one.
THEOREM UnprotectedKnown == Spec => []UnprotectedIsKnown
  <1>1. IInv => DoneMeansProtected
    BY DEF IInv, Earned, DoneMeansProtected, DoneIsEarned
  <1>2. IInv => PartialHazardBlocks
    <2> SUFFICES ASSUME IInv, restarts = 0, pos.open, ~pos.byHand, ~Protected,
                        gv.tp1Time = "old"
                 PROVE  PartialHazard(gv)
      BY DEF PartialHazardBlocks, EntriesAllowed
    <2> QED
      BY DEF IInv, Earned, PartialHazard
  <1> QED
    BY <1>1, <1>2, Invariance, PTL DEF UnprotectedIsKnown

\* For any volumes and percentages, any number of restarts and any answers of
\* the server: TP1 is scaled out once, and once more only for an answer that was
\* lost or a restart that missed the deal; TP2 once, and once more only for an
\* answer that was lost or a restart.
THEOREM PartialsOnce == Spec => []PartialsTakenOnce
  <1>1. Init => Scaled
    <2> SUFFICES ASSUME Init
                 PROVE  Scaled
      OBVIOUS
    <2>1. /\ taken[1] = 0 /\ taken[2] = 0 /\ restarts = 0
          /\ faults.tp1 = 0 /\ faults.tp2 = 0 /\ faults.missed = 0
      BY DEF Init
    <2> QED
      BY <2>1 DEF Scaled
  <1>2. IInv /\ Scaled /\ [Next]_vars => Scaled'
    BY ScaledStep DEF IInv
  <1>3. Scaled => PartialsTakenOnce
    BY DEF Scaled, PartialsTakenOnce, TP1TakenOnce, TP2TakenOnce
  <1> QED
    BY <1>1, <1>2, <1>3, Invariance, PTL DEF Spec

==============================================================================
