------------------------- MODULE TradeLearningProofs -------------------------
(***************************************************************************)
(* Proofs about TradeLearning, for any number of trades, gains and bounds: *)
(* no store learns a trade twice or before it has ended, a trade that was  *)
(* found touched while it was open stays out, and the program's account of *)
(* its trades is that of the broker's history.  The first two rest on one  *)
(* invariant of a row, which the variables and what was flushed of them    *)
(* satisfy alike, so that a crash, which puts one for the other, keeps it. *)
(* The third adds what the row of a trade shows whose deals were all heard *)
(* of, the order in which the callbacks come, and that the streak is the   *)
(* run of losses among the trades counted so far.                          *)
(***************************************************************************)
EXTENDS TradeLearning, FiniteSetTheorems, SequenceTheorems, TLAPS

Rows ==
    [strategy : BOOLEAN, risk : BOOLEAN, meta : BOOLEAN, bound : BOOLEAN,
     cfg : 0 .. 2, reconVol : Nat, partial : BOOLEAN,
     manual : BOOLEAN, anomaly : BOOLEAN, quarantine : BOOLEAN,
     realized : Int, final : BOOLEAN, stratFinal : 0 .. 2,
     contextFinal : 0 .. 1, adaptFinal : 0 .. 2, causeFinal : 0 .. 1,
     counted : Seq(Int), strat : Seq(Int), context : Seq(Int),
     adapt : Seq(Int)]

Stores == [trade : [Trades -> Rows], losses : Nat, generation : Configs]

Deals == [t : Trades, entry : BOOLEAN, own : BOOLEAN, gain : Int]

TypeInv ==
    /\ pos \in [Trades -> {"none", "open", "closed"}]
    /\ vol \in [Trades -> 0 .. Volume]
    /\ result \in [Trades -> Int]
    /\ history \in Seq([t : Trades, own : BOOLEAN])
    /\ planned \in [Trades -> BOOLEAN]
    /\ queue \in Seq(Deals)
    /\ causes \in [Trades -> Nat]
    /\ config \in Configs
    /\ todo \subseteq Trades
    /\ noticed \in [Trades -> BOOLEAN]
    /\ crashes \in Nat

(* What a store holds of a trade: nothing, or one result.                   *)
Nothing == << >>
Just(x) == << x >>

(* What holds of the row of a trade whose position is at p, whose exits     *)
(* brought r and which was noticed or not (n): each mark covers its store,  *)
(* a store holds nothing or the whole result, and nothing before the end.   *)
Once(row, r) ==
    /\ row.strat \in { Nothing, Just(r), Just(0) }
    /\ row.strat = Just(0) /\ row.meta => r = 0
    /\ row.context \in { Nothing, Just(r) }
    /\ row.adapt \in { Nothing, Just(r) }
    /\ row.counted = Nothing \/ \E x \in Int : row.counted = Just(x)

Covered(row) ==
    /\ row.stratFinal = 0 => row.strat = Nothing
    /\ row.contextFinal = 0 => row.context = Nothing
    /\ row.adaptFinal = 0 => row.adapt = Nothing
    /\ ~row.final => row.counted = Nothing
    /\ row.meta => row.risk

Unlearned(row) == row.strat = Nothing /\ row.adapt = Nothing

GoodRow(row, p, r, n) ==
    /\ row \in Rows
    /\ Once(row, r)
    /\ Covered(row)
    /\ p # "closed" => Unlearned(row) /\ row.context = Nothing
    /\ n => Unlearned(row)
    /\ p = "none" => row.causeFinal = 0 /\ ~n

Sound(g, p, r, n) ==
    /\ g \in Stores
    /\ \A t \in Trades : GoodRow(g.trade[t], p[t], r[t], n[t])

(* A trade that was noticed carries the mark; exits belong to positions     *)
(* that were opened; a row of the file of causes that no mark remembers     *)
(* stands for a crash.                                                      *)
MarkedInv  == \A t \in Trades : noticed[t] => gv.trade[t].quarantine
HistoryInv == \A i \in DOMAIN history : pos[history[i].t] # "none"
CauseInv ==
    /\ \A t \in Trades : causes[t] <= crashes + gv.trade[t].causeFinal
    /\ \A t \in todo : pos[t] = "closed" /\ gv.trade[t].causeFinal = 0

IInv ==
    /\ TypeInv
    /\ Sound(gv, pos, result, noticed)
    /\ Sound(disk, pos, result, noticed)
    /\ MarkedInv /\ HistoryInv /\ CauseInv

(* What an update of a row or of the variables keeps.                       *)
Follows(row, new) ==
    /\ row.quarantine => new.quarantine
    /\ new.causeFinal = row.causeFinal

Updated(g, h) ==
    /\ Sound(h, pos, result, noticed)
    /\ \A t \in Trades : Follows(g.trade[t], h.trade[t])

(* The updates of a row, named.                                             *)
WithStrategy(row)  == [row EXCEPT !.strategy = TRUE]
WithRisk(row)      == [row EXCEPT !.risk = TRUE]
WithPartial(row)   == [row EXCEPT !.partial = TRUE]
Seen(row, v)       == [row EXCEPT !.reconVol = v, !.bound = TRUE]
Realizing(row, x)  == [row EXCEPT !.realized = x]
Counted(row, y)    == [row EXCEPT !.counted = Append(@, y)]
Ending(row)        == [row EXCEPT !.final = TRUE]
Counting(row, x, y) == Ending(Counted(Realizing(row, x), y))
IntoStrategy(row, r) ==
    [row EXCEPT !.stratFinal = 1, !.strat = Append(@, IF row.risk THEN r ELSE 0)]
PastStrategy(row)    == [row EXCEPT !.stratFinal = 2]
IntoContext(row, r)  == [row EXCEPT !.contextFinal = 1, !.context = Append(@, r)]
IntoLearning(row, r) == [row EXCEPT !.adaptFinal = 1, !.adapt = Append(@, r)]
PastLearning(row)    == [row EXCEPT !.quarantine = TRUE, !.adaptFinal = 2]
Emptied(row)  == [row EXCEPT !.strat = << >>, !.context = << >>, !.adapt = << >>]
Caused(row)   == [row EXCEPT !.causeFinal = 1]

Keeps(row, new, p, r, n) == GoodRow(new, p, r, n) /\ Follows(row, new)

-----------------------------------------------------------------------------
(* Rows. *)

LEMMA Results ==
    /\ Nothing \in Seq(Int)
    /\ \A x \in Int : /\ Just(x) \in Seq(Int) /\ Just(x) # Nothing
                      /\ Append(Nothing, x) = Just(x)
    /\ \A x, y \in Int : Just(x) = Just(y) => x = y
  BY DEF Nothing, Just

LEMMA Marks == 1 \in 0 .. 1 /\ 1 \in 0 .. 2 /\ 2 \in 0 .. 2
  OBVIOUS

(* Marking a row, or learning what it is about, leaves the stores alone.    *)
LEMMA RowMarks ==
    ASSUME NEW row, NEW p, NEW r \in Int, NEW n \in BOOLEAN,
           GoodRow(row, p, r, n), NEW v \in Nat
    PROVE  /\ Keeps(row, ByHand(row), p, r, n)
           /\ Keeps(row, Anomalous(row), p, r, n)
           /\ Keeps(row, WithStrategy(row), p, r, n)
           /\ Keeps(row, WithRisk(row), p, r, n)
           /\ Keeps(row, WithPartial(row), p, r, n)
           /\ Keeps(row, Seen(row, v), p, r, n)
  <1>1. Keeps(row, ByHand(row), p, r, n)
    BY DEF Keeps, GoodRow, Rows, Once, Covered, Unlearned, Follows, ByHand
  <1>2. Keeps(row, Anomalous(row), p, r, n)
    BY DEF Keeps, GoodRow, Rows, Once, Covered, Unlearned, Follows, Anomalous
  <1>3. Keeps(row, WithStrategy(row), p, r, n)
    BY DEF Keeps, GoodRow, Rows, Once, Covered, Unlearned, Follows, WithStrategy
  <1>4. Keeps(row, WithRisk(row), p, r, n)
    BY DEF Keeps, GoodRow, Rows, Once, Covered, Unlearned, Follows, WithRisk
  <1>5. Keeps(row, WithPartial(row), p, r, n)
    BY DEF Keeps, GoodRow, Rows, Once, Covered, Unlearned, Follows, WithPartial
  <1>6. Keeps(row, Seen(row, v), p, r, n)
    BY DEF Keeps, GoodRow, Rows, Once, Covered, Unlearned, Follows, Seen
  <1> QED
    BY <1>1, <1>2, <1>3, <1>4, <1>5, <1>6

(* The account of a trade is settled once, under its mark.                  *)
LEMMA RowSettles ==
    ASSUME NEW row, NEW p, NEW r \in Int, NEW n \in BOOLEAN,
           GoodRow(row, p, r, n), NEW x \in Int, NEW y \in Int
    PROVE  /\ Keeps(row, Realizing(row, x), p, r, n)
           /\ ~row.final => Keeps(row, Counting(row, x, y), p, r, n)
  <1>1. Keeps(row, Realizing(row, x), p, r, n)
    BY DEF Keeps, GoodRow, Rows, Once, Covered, Unlearned, Follows, Realizing
  <1>2. ASSUME ~row.final
        PROVE  Keeps(row, Counting(row, x, y), p, r, n)
    <2>1. row.counted = Nothing
      BY <1>2 DEF GoodRow, Covered
    <2>2. Append(row.counted, y) = Just(y) /\ Just(y) \in Seq(Int)
      BY <2>1, Results
    <2> QED
      BY <2>2 DEF Keeps, GoodRow, Rows, Once, Covered, Unlearned, Follows,
                  Counting, Counted, Ending, Realizing
  <1> QED
    BY <1>1, <1>2

(* GoodRow and Follows look at these fields only.                           *)
LEMMA SameFields ==
    ASSUME NEW row, NEW p, NEW r \in Int, NEW n \in BOOLEAN,
           GoodRow(row, p, r, n), NEW new \in Rows,
           new.meta = row.meta, new.risk = row.risk,
           new.final = row.final, new.counted = row.counted,
           new.causeFinal = row.causeFinal,
           row.quarantine => new.quarantine,
           \/ new.strat = row.strat /\ new.stratFinal = row.stratFinal
           \/ /\ new.strat = Just(IF row.risk THEN r ELSE 0)
              /\ p = "closed" /\ ~n /\ new.stratFinal = 1,
           \/ new.context = row.context /\ new.contextFinal = row.contextFinal
           \/ new.context = Just(r) /\ p = "closed" /\ new.contextFinal = 1,
           \/ new.adapt = row.adapt /\ new.adaptFinal = row.adaptFinal
           \/ new.adapt = Just(r) /\ p = "closed" /\ ~n /\ new.adaptFinal = 1
    PROVE  Keeps(row, new, p, r, n)
  <1>1. row.risk \in BOOLEAN /\ row.meta \in BOOLEAN
    BY DEF GoodRow, Rows
  <1>2. row.meta => row.risk
    BY DEF GoodRow, Covered
  <1>3. Once(new, r)
    <2>1. CASE new.strat = row.strat
      BY <2>1 DEF GoodRow, Once
    <2>2. CASE new.strat = Just(IF row.risk THEN r ELSE 0)
      <3>1. CASE row.risk
        <4>1. new.strat = Just(r)
          BY <2>2, <3>1
        <4>2. new.strat = Just(0) => r = 0
          <5>1. Just(r) = Just(0) => r = 0
            BY Results
          <5> QED
            BY <4>1, <5>1
        <4> QED
          BY <4>1, <4>2 DEF GoodRow, Once
      <3>2. CASE ~row.risk
        <4>1. new.strat = Just(0) /\ ~new.meta
          BY <2>2, <3>2, <1>1, <1>2
        <4> QED
          BY <4>1 DEF GoodRow, Once
      <3> QED
        BY <3>1, <3>2
    <2> QED
      BY <2>1, <2>2
  <1>4. Covered(new)
    BY <1>1 DEF GoodRow, Covered
  <1>5. /\ p # "closed" => Unlearned(new) /\ new.context = Nothing
        /\ n => Unlearned(new)
    BY DEF GoodRow, Unlearned
  <1>6. p = "none" => new.causeFinal = 0 /\ ~n
    BY DEF GoodRow
  <1> QED
    BY <1>3, <1>4, <1>5, <1>6 DEF Keeps, GoodRow, Follows

(* A finalizer that learns an ended trade under a mark that is not set yet. *)
LEMMA RowLearns ==
    ASSUME NEW row, NEW r \in Int, NEW n \in BOOLEAN,
           GoodRow(row, "closed", r, n)
    PROVE  /\ row.stratFinal = 0 /\ ~n =>
                  Keeps(row, IntoStrategy(row, r), "closed", r, n)
           /\ row.contextFinal = 0 =>
                  Keeps(row, IntoContext(row, r), "closed", r, n)
           /\ row.adaptFinal = 0 /\ ~n =>
                  Keeps(row, IntoLearning(row, r), "closed", r, n)
  <1>0. row \in Rows /\ Covered(row)
    BY DEF GoodRow
  <1>1. ASSUME row.stratFinal = 0, ~n
        PROVE  Keeps(row, IntoStrategy(row, r), "closed", r, n)
    <2> DEFINE v == IF row.risk THEN r ELSE 0
               s == Just(v)
               new == [row EXCEPT !.stratFinal = 1, !.strat = s]
    <2>1. row.strat = Nothing
      BY <1>0, <1>1 DEF Covered
    <2>2. Append(row.strat, v) = s /\ s \in Seq(Int)
      <3>1. v \in Int
        OBVIOUS
      <3> HIDE DEF v
      <3> QED
        BY <2>1, <3>1, Results
    <2>3. new \in Rows /\ new.strat = s /\ new.stratFinal = 1
      <3> HIDE DEF s
      <3> QED
        BY <2>2, <1>0, Marks, Zenon DEF Rows
    <2>4. /\ new.meta = row.meta /\ new.risk = row.risk
          /\ new.final = row.final /\ new.counted = row.counted
          /\ new.causeFinal = row.causeFinal /\ new.quarantine = row.quarantine
          /\ new.context = row.context /\ new.contextFinal = row.contextFinal
          /\ new.adapt = row.adapt /\ new.adaptFinal = row.adaptFinal
      OBVIOUS
    <2>5. Keeps(row, new, "closed", r, n)
      <3> HIDE DEF new
      <3> QED
        BY <2>3, <2>4, <1>1, SameFields
    <2> QED
      BY <2>2, <2>5 DEF IntoStrategy
  <1>2. ASSUME row.contextFinal = 0
        PROVE  Keeps(row, IntoContext(row, r), "closed", r, n)
    <2> DEFINE new == [row EXCEPT !.contextFinal = 1, !.context = Just(r)]
    <2>1. row.context = Nothing
      BY <1>0, <1>2 DEF Covered
    <2>2. Append(row.context, r) = Just(r) /\ Just(r) \in Seq(Int)
      BY <2>1, Results
    <2>3. new \in Rows /\ new.context = Just(r) /\ new.contextFinal = 1
      BY <2>2, <1>0, Marks, Zenon DEF Rows
    <2>4. /\ new.meta = row.meta /\ new.risk = row.risk
          /\ new.final = row.final /\ new.counted = row.counted
          /\ new.causeFinal = row.causeFinal /\ new.quarantine = row.quarantine
          /\ new.strat = row.strat /\ new.stratFinal = row.stratFinal
          /\ new.adapt = row.adapt /\ new.adaptFinal = row.adaptFinal
      OBVIOUS
    <2>5. Keeps(row, new, "closed", r, n)
      <3> HIDE DEF new
      <3> QED
        BY <2>3, <2>4, SameFields
    <2> QED
      BY <2>2, <2>5 DEF IntoContext
  <1>3. ASSUME row.adaptFinal = 0, ~n
        PROVE  Keeps(row, IntoLearning(row, r), "closed", r, n)
    <2> DEFINE new == [row EXCEPT !.adaptFinal = 1, !.adapt = Just(r)]
    <2>1. row.adapt = Nothing
      BY <1>0, <1>3 DEF Covered
    <2>2. Append(row.adapt, r) = Just(r) /\ Just(r) \in Seq(Int)
      BY <2>1, Results
    <2>3. new \in Rows /\ new.adapt = Just(r) /\ new.adaptFinal = 1
      BY <2>2, <1>0, Marks, Zenon DEF Rows
    <2>4. /\ new.meta = row.meta /\ new.risk = row.risk
          /\ new.final = row.final /\ new.counted = row.counted
          /\ new.causeFinal = row.causeFinal /\ new.quarantine = row.quarantine
          /\ new.strat = row.strat /\ new.stratFinal = row.stratFinal
          /\ new.context = row.context /\ new.contextFinal = row.contextFinal
      OBVIOUS
    <2>5. Keeps(row, new, "closed", r, n)
      <3> HIDE DEF new
      <3> QED
        BY <2>3, <2>4, <1>3, SameFields
    <2> QED
      BY <2>2, <2>5 DEF IntoLearning
  <1> QED
    BY <1>1, <1>2, <1>3

(* One that passes a trade over, the generation that empties the stores,    *)
(* and the mark of a cause, which is the only one to change causeFinal.     *)
LEMMA RowPasses ==
    ASSUME NEW row, NEW p, NEW r \in Int, NEW n \in BOOLEAN,
           GoodRow(row, p, r, n)
    PROVE  /\ row.stratFinal = 0 => Keeps(row, PastStrategy(row), p, r, n)
           /\ row.adaptFinal = 0 => Keeps(row, PastLearning(row), p, r, n)
           /\ Keeps(row, Emptied(row), p, r, n)
           /\ p # "none" => /\ GoodRow(Caused(row), p, r, n)
                            /\ Caused(row).quarantine = row.quarantine
                            /\ Caused(row).causeFinal = 1
  <1>1. row.stratFinal = 0 => Keeps(row, PastStrategy(row), p, r, n)
    BY DEF Keeps, GoodRow, Rows, Once, Covered, Unlearned, Follows, PastStrategy
  <1>2. row.adaptFinal = 0 => Keeps(row, PastLearning(row), p, r, n)
    <2> DEFINE new == [row EXCEPT !.quarantine = TRUE, !.adaptFinal = 2]
    <2>1. row \in Rows
      BY DEF GoodRow
    <2>2. new \in Rows
      BY <2>1, Marks, Zenon DEF Rows
    <2>3. /\ new.quarantine = TRUE /\ new.adaptFinal = 2
          /\ new.meta = row.meta /\ new.risk = row.risk
          /\ new.final = row.final /\ new.counted = row.counted
          /\ new.causeFinal = row.causeFinal
          /\ new.strat = row.strat /\ new.stratFinal = row.stratFinal
          /\ new.context = row.context /\ new.contextFinal = row.contextFinal
          /\ new.adapt = row.adapt
      BY <2>1 DEF Rows
    <2> HIDE DEF new
    <2>4. row.adaptFinal = 0 => Keeps(row, new, p, r, n)
      BY <2>2, <2>3 DEF Keeps, GoodRow, Once, Covered, Unlearned, Follows
    <2> QED
      BY <2>4 DEF new, PastLearning
  <1>3. Keeps(row, Emptied(row), p, r, n)
    <2> DEFINE new == [row EXCEPT !.strat = Nothing, !.context = Nothing,
                                  !.adapt = Nothing]
    <2>1. Nothing \in Seq(Int) /\ Nothing # Just(0)
      BY Results
    <2>2. row \in Rows
      BY DEF GoodRow
    <2>3. /\ new \in Rows
          /\ new.strat = Nothing /\ new.context = Nothing /\ new.adapt = Nothing
      BY <2>1, <2>2 DEF Rows
    <2>4. /\ new.meta = row.meta /\ new.risk = row.risk
          /\ new.final = row.final /\ new.counted = row.counted
          /\ new.causeFinal = row.causeFinal /\ new.quarantine = row.quarantine
      OBVIOUS
    <2> HIDE DEF new
    <2>5. Once(new, r) /\ Covered(new)
      BY <2>1, <2>3, <2>4 DEF GoodRow, Once, Covered
    <2>6. Keeps(row, new, p, r, n)
      BY <2>3, <2>4, <2>5 DEF Keeps, GoodRow, Unlearned, Follows
    <2> QED
      BY <2>6 DEF new, Nothing, Emptied
  <1>4. p # "none" => /\ GoodRow(Caused(row), p, r, n)
                      /\ Caused(row).quarantine = row.quarantine
                      /\ Caused(row).causeFinal = 1
    BY DEF GoodRow, Rows, Once, Covered, Unlearned, Caused
  <1> QED
    BY <1>1, <1>2, <1>3, <1>4

(* The row of a position that was opened, before anything was learned.      *)
LEMMA RowOpens ==
    ASSUME NEW r \in Int, NEW plan \in BOOLEAN, config \in Configs
    PROVE  GoodRow(BoundRow(plan), "open", r, FALSE) /\ BoundRow(plan).causeFinal = 0
  <1> DEFINE new == BoundRow(plan)
  <1>1. /\ new.strat = Nothing /\ new.context = Nothing /\ new.adapt = Nothing
        /\ new.counted = Nothing /\ new.risk /\ new.causeFinal = 0
    BY DEF BoundRow, NewRow, Nothing
  <1>2. new \in Rows
    <2>1. Nothing \in Seq(Int)
      BY Results
    <2>2. << >> \in Seq(Int)
      BY <2>1 DEF Nothing
    <2> QED
      <3>1. /\ config \in 0 .. 2 /\ 2 \in Nat /\ 0 \in Int
            /\ 0 \in 0 .. 2 /\ 0 \in 0 .. 1
        BY DEF Configs
      <3>2. NewRow \in Rows
        BY <2>2, <3>1 DEF NewRow, Rows
      <3> QED
        BY <3>1, <3>2, Zenon DEF BoundRow, Rows, Volume
  <1> HIDE DEF new
  <1>3. Once(new, r) /\ Covered(new)
    BY <1>1, Results DEF Once, Covered
  <1> QED
    BY <1>1, <1>2, <1>3 DEF GoodRow, Unlearned, new

(* What a row keeps when its position moves on, but has not ended yet.      *)
LEMMA RowMoves ==
    ASSUME NEW row, NEW p, NEW r \in Int, NEW n \in BOOLEAN,
           GoodRow(row, p, r, n), p # "closed", NEW q, NEW r2 \in Int,
           q # "none"
    PROVE  GoodRow(row, q, r2, n)
  <1>1. row.strat = Nothing /\ row.context = Nothing /\ row.adapt = Nothing
    BY DEF GoodRow, Unlearned
  <1>2. Once(row, r2)
    BY <1>1, Results DEF GoodRow, Once
  <1> QED
    BY <1>1, <1>2 DEF GoodRow, Unlearned

-----------------------------------------------------------------------------
(* Variables. *)

MarkedIn(g) == \A t \in Trades : noticed[t] => g.trade[t].quarantine

Kept == TypeInv /\ HistoryInv

LEMMA NewTrades ==
    ASSUME TypeInv, NEW g, Sound(g, pos, result, noticed), NEW f,
           f = [t \in Trades |-> f[t]],
           \A t \in Trades :
               Keeps(g.trade[t], f[t], pos[t], result[t], noticed[t]),
           NEW l \in Nat, NEW c \in Configs, NEW h,
           h = [trade |-> f, losses |-> l, generation |-> c]
    PROVE  Updated(g, h)
  <1>1. f \in [Trades -> Rows]
    BY DEF GoodRow, Keeps
  <1> QED
    BY <1>1 DEF Updated, Sound, Stores, Keeps

LEMMA StoreFields ==
    ASSUME NEW g, g \in Stores, NEW f
    PROVE  /\ [g EXCEPT !.trade = f] =
                  [trade |-> f, losses |-> g.losses, generation |-> g.generation]
           /\ g.losses \in Nat /\ g.generation \in Configs
           /\ g.trade \in [Trades -> Rows]
  BY DEF Stores

LEMMA Remade ==
    ASSUME TypeInv, NEW g, Sound(g, pos, result, noticed), NEW f,
           f = [t \in Trades |-> f[t]],
           \A t \in Trades :
               Keeps(g.trade[t], f[t], pos[t], result[t], noticed[t])
    PROVE  Updated(g, [g EXCEPT !.trade = f])
  <1>1. /\ [g EXCEPT !.trade = f] =
               [trade |-> f, losses |-> g.losses, generation |-> g.generation]
        /\ g.losses \in Nat /\ g.generation \in Configs
    BY StoreFields DEF Sound
  <1> QED
    BY <1>1, NewTrades

LEMMA EndedIsClosed ==
    ASSUME Kept, NEW t \in Trades, ExitDeals(t) # {}, ~PositionIdentifierOpen(t)
    PROVE  pos[t] = "closed"
  BY DEF Kept, TypeInv, HistoryInv, ExitDeals, PositionIdentifierOpen

LEMMA RowOf ==
    ASSUME TypeInv, NEW g, Sound(g, pos, result, noticed), NEW t \in Trades
    PROVE  /\ GoodRow(g.trade[t], pos[t], result[t], noticed[t])
           /\ result[t] \in Int /\ noticed[t] \in BOOLEAN
           /\ Keeps(g.trade[t], g.trade[t], pos[t], result[t], noticed[t])
  BY DEF Sound, TypeInv, Keeps, Follows

LEMMA Attaches ==
    ASSUME TypeInv, NEW g, Sound(g, pos, result, noticed)
    PROVE  Updated(g, Attached(g))
  <1> DEFINE f == [t \in Trades |->
                    IF PositionIdentifierOpen(t) /\ planned[t]
                    THEN [g.trade[t] EXCEPT !.strategy = TRUE] ELSE g.trade[t]]
  <1>1. Attached(g) = [g EXCEPT !.trade = f]
    BY DEF Attached
  <1>2. ASSUME NEW t \in Trades
        PROVE  Keeps(g.trade[t], f[t], pos[t], result[t], noticed[t])
    <2>1. f[t] = WithStrategy(g.trade[t]) \/ f[t] = g.trade[t]
      BY DEF WithStrategy
    <2> HIDE DEF f
    <2>2. Keeps(g.trade[t], WithStrategy(g.trade[t]), pos[t], result[t], noticed[t])
      BY RowOf, RowMarks, 0 \in Nat
    <2> QED
      BY <2>1, <2>2, RowOf
  <1> HIDE DEF f
  <1>3. f = [t \in Trades |-> f[t]]
    BY DEF f
  <1> QED
    BY <1>1, <1>2, <1>3, Remade

LEMMA IntoHistory ==
    ASSUME Kept, NEW g, Sound(g, pos, result, noticed), MarkedIn(g)
    PROVE  Updated(g, FinalizeStrategyHistory(g))
  <1> DEFINE due == { t \in Trades : /\ Ended(t) /\ g.trade[t].strategy
                                     /\ g.trade[t].stratFinal = 0 }
             excluded == { t \in due : StrategyQuarantined(g.trade[t]) }
             learned == { t \in due \ excluded :
                             \A u \in due \ excluded : t = u \/ Before(t, u) }
             reached(t) == \A u \in learned : t = u \/ Before(t, u)
             f == [t \in Trades |->
                     IF t \in learned THEN IntoStrategy(g.trade[t], result[t])
                     ELSE IF t \in excluded /\ reached(t)
                          THEN PastStrategy(g.trade[t])
                     ELSE g.trade[t]]
  <1>1. FinalizeStrategyHistory(g) = [g EXCEPT !.trade = f]
    BY DEF FinalizeStrategyHistory, IntoStrategy, PastStrategy
  <1>2. ASSUME NEW t \in Trades
        PROVE  Keeps(g.trade[t], f[t], pos[t], result[t], noticed[t])
    <2>1. CASE t \in learned
      <3>1. pos[t] = "closed" /\ g.trade[t].stratFinal = 0 /\ ~noticed[t]
        BY <2>1, EndedIsClosed DEF Ended, OwnExits, MarkedIn, StrategyQuarantined
      <3>2. f[t] = IntoStrategy(g.trade[t], result[t])
        BY <2>1
      <3> QED
        BY <3>1, <3>2, RowOf, RowLearns DEF Kept
    <2>2. CASE t \in excluded /\ reached(t) /\ t \notin learned
      <3>1. f[t] = PastStrategy(g.trade[t]) /\ g.trade[t].stratFinal = 0
        BY <2>2
      <3> QED
        BY <3>1, RowOf, RowPasses DEF Kept
    <2>3. CASE ~(t \in excluded /\ reached(t)) /\ t \notin learned
      <3>1. f[t] = g.trade[t]
        BY <2>3
      <3> QED
        BY <3>1, RowOf DEF Kept
    <2> QED
      BY <2>1, <2>2, <2>3
  <1> HIDE DEF f
  <1>3. f = [t \in Trades |-> f[t]]
    BY DEF f
  <1> QED
    BY <1>1, <1>2, <1>3, Remade DEF Kept

LEMMA IntoContexts ==
    ASSUME Kept, NEW g, Sound(g, pos, result, noticed)
    PROVE  Updated(g, FinalizeContextHistory(g))
  <1> DEFINE due == { t \in Trades :
                        /\ Ended(t) /\ g.trade[t].strategy /\ g.trade[t].risk
                        /\ g.trade[t].contextFinal = 0 }
             f == [t \in Trades |->
                     IF t \in due /\ \A u \in due : t = u \/ Before(t, u)
                     THEN IntoContext(g.trade[t], result[t]) ELSE g.trade[t]]
  <1>1. FinalizeContextHistory(g) = [g EXCEPT !.trade = f]
    BY DEF FinalizeContextHistory, IntoContext
  <1>2. ASSUME NEW t \in Trades
        PROVE  Keeps(g.trade[t], f[t], pos[t], result[t], noticed[t])
    <2>1. CASE t \in due
      <3>1. pos[t] = "closed" /\ g.trade[t].contextFinal = 0
        BY <2>1, EndedIsClosed DEF Ended, OwnExits
      <3>2. f[t] = IntoContext(g.trade[t], result[t]) \/ f[t] = g.trade[t]
        OBVIOUS
      <3> HIDE DEF f, due
      <3>3. Keeps(g.trade[t], IntoContext(g.trade[t], result[t]),
                  pos[t], result[t], noticed[t])
        BY <3>1, RowOf, RowLearns DEF Kept
      <3> QED
        BY <3>2, <3>3, RowOf DEF Kept
    <2>2. CASE t \notin due
      <3>1. f[t] = g.trade[t]
        BY <2>2
      <3> QED
        BY <3>1, RowOf DEF Kept
    <2> QED
      BY <2>1, <2>2
  <1> HIDE DEF f
  <1>3. f = [t \in Trades |-> f[t]]
    BY DEF f
  <1> QED
    BY <1>1, <1>2, <1>3, Remade DEF Kept

LEMMA Transitive ==
    ASSUME NEW g, NEW h, NEW k, Updated(g, h), Updated(h, k)
    PROVE  Updated(g, k)
  BY DEF Updated, Follows

LEMMA StaysMarked ==
    ASSUME NEW g, NEW h, MarkedIn(g), Updated(g, h)
    PROVE  MarkedIn(h)
  BY DEF Updated, Follows, MarkedIn

LEMMA NewGeneration ==
    ASSUME TypeInv, NEW g, Sound(g, pos, result, noticed)
    PROVE  Updated(g, EnsureLearningGeneration(g))
  <1>1. CASE g.generation = config
    BY <1>1, RowOf DEF EnsureLearningGeneration, Updated, Keeps
  <1>2. CASE g.generation # config
    <2> DEFINE f == [t \in Trades |-> Emptied(g.trade[t])]
    <2>1. EnsureLearningGeneration(g) =
              [trade |-> f, losses |-> g.losses, generation |-> config]
      BY <1>2, RowOf DEF EnsureLearningGeneration, Emptied, Sound, Stores
    <2>2. ASSUME NEW t \in Trades
          PROVE  Keeps(g.trade[t], f[t], pos[t], result[t], noticed[t])
      <3>1. Keeps(g.trade[t], Emptied(g.trade[t]), pos[t], result[t], noticed[t])
        BY RowOf, RowPasses
      <3> QED
        BY <3>1
    <2> HIDE DEF f
    <2>3. f = [t \in Trades |-> f[t]]
      BY DEF f
    <2>4. g.losses \in Nat /\ config \in Configs
      BY StoreFields DEF Sound, TypeInv
    <2> QED
      BY <2>1, <2>2, <2>3, <2>4, NewTrades
  <1> QED
    BY <1>1, <1>2

LEMMA IntoAdaptive ==
    ASSUME Kept, NEW g, Sound(g, pos, result, noticed), MarkedIn(g),
           NEW due, NEW moved,
           \A t \in due : t \in Trades => Ended(t) /\ g.trade[t].adaptFinal = 0
    PROVE  Updated(g, [g EXCEPT !.trade = [t \in Trades |->
                          IF t \in due
                          THEN FinalizeAdaptiveLearning(@[t], t, t \in moved)
                          ELSE @[t]]])
  <1> DEFINE f == [t \in Trades |->
                     IF t \in due
                     THEN FinalizeAdaptiveLearning(g.trade[t], t, t \in moved)
                     ELSE g.trade[t]]
  <1>1. ASSUME NEW t \in Trades
        PROVE  Keeps(g.trade[t], f[t], pos[t], result[t], noticed[t])
    <2> DEFINE row == g.trade[t]
    <2>1. CASE t \in due /\ LearningSampleShouldQuarantine(row, t \in moved)
      <3>1. f[t] = PastLearning(row) /\ row.adaptFinal = 0
        BY <2>1 DEF FinalizeAdaptiveLearning, PastLearning
      <3> QED
        BY <3>1, RowOf, RowPasses DEF Kept
    <2>2. CASE t \in due /\ ~LearningSampleShouldQuarantine(row, t \in moved)
      <3>1. f[t] = IntoLearning(row, result[t]) /\ row.adaptFinal = 0
        BY <2>2 DEF FinalizeAdaptiveLearning, IntoLearning
      <3>2. pos[t] = "closed" /\ ~noticed[t]
        BY <2>2, EndedIsClosed
           DEF Ended, OwnExits, MarkedIn, LearningSampleShouldQuarantine
      <3> QED
        BY <3>1, <3>2, RowOf, RowLearns DEF Kept
    <2>3. CASE t \notin due
      <3>1. f[t] = row
        BY <2>3
      <3> QED
        BY <3>1, RowOf DEF Kept
    <2> QED
      BY <2>1, <2>2, <2>3
  <1> HIDE DEF f
  <1>2. f = [t \in Trades |-> f[t]]
    BY DEF f
  <1>3. Updated(g, [g EXCEPT !.trade = f])
    BY <1>1, <1>2, Remade DEF Kept
  <1> QED
    BY <1>3 DEF f

(* One trade, and the loss streak.                                          *)
LEMMA OneTrade ==
    ASSUME TypeInv, NEW g, Sound(g, pos, result, noticed), NEW t \in Trades,
           NEW new, Keeps(g.trade[t], new, pos[t], result[t], noticed[t]),
           NEW l \in Nat
    PROVE  Updated(g, [g EXCEPT !.trade = [g.trade EXCEPT ![t] = new], !.losses = l])
  <1> DEFINE f == [g.trade EXCEPT ![t] = new]
  <1>1. g.trade \in [Trades -> Rows] /\ g.generation \in Configs
    BY StoreFields DEF Sound
  <1>2. [g EXCEPT !.trade = f, !.losses = l] =
            [trade |-> f, losses |-> l, generation |-> g.generation]
    <2> DEFINE h == [trade |-> f, losses |-> g.losses, generation |-> g.generation]
    <2>1. [g EXCEPT !.trade = f] = h
      BY StoreFields DEF Sound
    <2>2. [h EXCEPT !.losses = l] =
              [trade |-> f, losses |-> l, generation |-> g.generation]
      <3> HIDE DEF f
      <3> QED
        OBVIOUS
    <2> QED
      BY <2>1, <2>2, Zenon
  <1>3. f = [u \in Trades |-> f[u]] /\ f[t] = new
        /\ \A u \in Trades \ {t} : f[u] = g.trade[u]
    BY <1>1
  <1> HIDE DEF f
  <1>4. \A u \in Trades : Keeps(g.trade[u], f[u], pos[u], result[u], noticed[u])
    BY <1>3, RowOf
  <1> QED
    BY <1>1, <1>2, <1>3, <1>4, NewTrades DEF f

With(g, t, new, l) ==
    [g EXCEPT !.trade = [g.trade EXCEPT ![t] = new], !.losses = l]

LEMMA SameStore ==
    ASSUME NEW g \in Stores, NEW t \in Trades, NEW new
    PROVE  /\ g.losses \in Nat /\ g.trade \in [Trades -> Rows]
           /\ With(g, t, new, g.losses) =
                  [g EXCEPT !.trade = [g.trade EXCEPT ![t] = new]]
  <1> DEFINE f == [g.trade EXCEPT ![t] = new]
             h == [trade |-> f, losses |-> g.losses, generation |-> g.generation]
  <1>1. g.losses \in Nat /\ g.trade \in [Trades -> Rows]
    BY DEF Stores
  <1>2. [g EXCEPT !.trade = f] = h
    BY StoreFields
  <1>3. [h EXCEPT !.losses = g.losses] = h
    <2> HIDE DEF f
    <2> QED
      OBVIOUS
  <1> QED
    BY <1>1, <1>2, <1>3, Zenon DEF With

LEMMA FirstHalf ==
    ASSUME TypeInv, NEW g, Sound(g, pos, result, noticed), NEW d \in Deals
    PROVE  /\ Updated(g, HandleReliability(g, d))
           /\ Touched(d) => HandleReliability(g, d).trade[d.t].quarantine
  <1>1. d.t \in Trades /\ g \in Stores
    BY DEF Deals, Sound
  <1>2. CASE Touched(d)
    <2>1. Marked(g, d.t) = With(g, d.t, ByHand(g.trade[d.t]), g.losses)
      BY <1>1, SameStore DEF Marked
    <2>2. Updated(g, With(g, d.t, ByHand(g.trade[d.t]), g.losses))
      <3>1. Keeps(g.trade[d.t], ByHand(g.trade[d.t]),
                  pos[d.t], result[d.t], noticed[d.t])
        BY <1>1, RowOf, RowMarks, 0 \in Nat
      <3> QED
        BY <1>1, <3>1, SameStore, OneTrade DEF With
    <2>3. Marked(g, d.t).trade[d.t].quarantine
      BY <1>1 DEF Marked, ByHand, Stores, Rows
    <2> QED
      BY <1>2, <2>1, <2>2, <2>3 DEF HandleReliability
  <1>3. CASE ~Touched(d)
    BY <1>3, RowOf DEF HandleReliability, Updated, Keeps
  <1> QED
    BY <1>2, <1>3

LEMMA WithIs ==
    ASSUME NEW g, g \in Stores, NEW t \in Trades, NEW new, NEW l
    PROVE  With(g, t, new, l) =
               [trade |-> [g.trade EXCEPT ![t] = new], losses |-> l,
                generation |-> g.generation]
  <1> DEFINE f == [g.trade EXCEPT ![t] = new]
             h == [trade |-> f, losses |-> g.losses, generation |-> g.generation]
  <1>1. [g EXCEPT !.trade = f] = h
    BY StoreFields
  <1>2. [h EXCEPT !.losses = l] =
            [trade |-> f, losses |-> l, generation |-> g.generation]
    <2> HIDE DEF f
    <2> QED
      OBVIOUS
  <1> QED
    BY <1>1, <1>2, Zenon DEF With

LEMMA WithTwice ==
    ASSUME NEW g \in Stores, NEW t \in Trades, NEW a \in Rows, NEW b,
           NEW l \in Nat, NEW m
    PROVE  /\ With(g, t, a, l).trade[t] = a /\ With(g, t, a, l).losses = l
           /\ With(g, t, a, l) \in Stores
           /\ With(With(g, t, a, l), t, b, m) = With(g, t, b, m)
  <1> DEFINE f == [g.trade EXCEPT ![t] = a]
             h == [trade |-> f, losses |-> l, generation |-> g.generation]
  <1>1. With(g, t, a, l) = h
    BY WithIs
  <1>2. f \in [Trades -> Rows] /\ f[t] = a /\ [f EXCEPT ![t] = b] = [g.trade EXCEPT ![t] = b]
    BY DEF Stores
  <1>3. h.trade = f /\ h.losses = l /\ h.generation = g.generation
    OBVIOUS
  <1>4. h \in Stores
    <2>1. g.generation \in Configs
      BY StoreFields
    <2> HIDE DEF f
    <2> QED
      BY <2>1, <1>2 DEF Stores
  <1> HIDE DEF h, f
  <1>5. With(h, t, b, m) = [trade |-> [f EXCEPT ![t] = b], losses |-> m,
                            generation |-> g.generation]
    BY <1>3, <1>4, WithIs
  <1>6. With(g, t, b, m) = [trade |-> [g.trade EXCEPT ![t] = b], losses |-> m,
                            generation |-> g.generation]
    BY WithIs
  <1>7. With(h, t, b, m) = With(g, t, b, m)
    BY <1>2, <1>5, <1>6, Zenon
  <1> QED
    BY <1>1, <1>2, <1>3, <1>4, <1>7

(* The second half, case by case, as an update of one row.                  *)
LEMMA SecondHalfIs ==
    ASSUME NEW g \in Stores, NEW d \in Deals
    PROVE  LET row == g.trade[d.t]
               x == row.realized + d.gain
               y == IF row.risk THEN x ELSE 0
               l == IF y > 0 THEN 0 ELSE g.losses + 1
               h == HandleRiskAnalytics(g, d)
           IN /\ l \in Nat
              /\ \/ ~d.own /\ h = g
                 \/ d.own /\ d.entry /\ h = With(g, d.t, WithRisk(row), g.losses)
                 \/ /\ d.own /\ ~d.entry /\ (row.final \/ PositionIdentifierOpen(d.t))
                    /\ h = With(g, d.t, Realizing(row, x), g.losses)
                 \/ /\ d.own /\ ~d.entry /\ ~row.final /\ ~PositionIdentifierOpen(d.t)
                    /\ h = With(g, d.t, Counting(row, x, y), l)
  <1> DEFINE t == d.t
             row == g.trade[t]
             x == row.realized + d.gain
             y == IF row.risk THEN x ELSE 0
             a == Realizing(row, x)
             b == Counted(a, y)
             l == IF y > 0 THEN 0 ELSE g.losses + 1
             added == With(g, t, a, g.losses)
             counted == With(added, t, b, l)
  <1>1. /\ t \in Trades /\ row \in Rows /\ d.gain \in Int /\ g.losses \in Nat
        /\ row.realized \in Int
    BY SameStore DEF Deals, Stores, Rows
  <1>2. x \in Int /\ y \in Int
    BY <1>1
  <1>3. l \in Nat
    <2> HIDE DEF y
    <2> QED
      BY <1>1, <1>2
  <1>4. HandleEntryDeal(g, d) = With(g, t, WithRisk(row), g.losses)
    BY <1>1, SameStore DEF HandleEntryDeal, WithRisk
  <1>5. [g EXCEPT !.trade[t].realized = x] = added
    <2> DEFINE z == x
    <2> HIDE DEF z
    <2>1. [g EXCEPT !.trade[t].realized = z] = With(g, t, Realizing(row, z), g.losses)
      BY <1>1, SameStore DEF Realizing
    <2> QED
      BY <2>1 DEF z
  <1>6. ASSUME ~row.final, ~PositionIdentifierOpen(t)
        PROVE  HandleExitDeal(g, d) = With(g, t, Counting(row, x, y), l)
    <2>1. a \in Rows
      <3> HIDE DEF x
      <3> QED
        BY <1>1, <1>2, Zenon DEF Realizing, Rows
    <2>2. b \in Rows
      <3> HIDE DEF a, y
      <3>1. Append(a.counted, y) \in Seq(Int)
        BY <2>1, <1>2 DEF Rows
      <3> QED
        BY <2>1, <3>1, Zenon DEF Counted, Rows
    <2>3. /\ added \in Stores /\ added.trade[t] = a /\ added.losses = g.losses
          /\ counted \in Stores /\ counted.trade[t] = b /\ counted.losses = l
      <3> HIDE DEF a, b, l, row, t
      <3>1. added \in Stores /\ added.trade[t] = a /\ added.losses = g.losses
        BY <1>1, <2>1, WithTwice
      <3> HIDE DEF added
      <3>2. counted \in Stores /\ counted.trade[t] = b /\ counted.losses = l
        BY <1>1, <1>3, <2>2, <3>1, WithTwice
      <3> QED
        BY <3>1, <3>2
    <2>4. UpdateSetupStats(added, t, y) = counted
      <3> HIDE DEF added, y, l, a
      <3>1. (IF y > 0 THEN 0 ELSE added.losses + 1) = l
        BY <2>3 DEF l
      <3>2. UpdateSetupStats(added, t, y) =
                With(added, t, Counted(added.trade[t], y),
                     IF y > 0 THEN 0 ELSE added.losses + 1)
        BY Zenon DEF UpdateSetupStats, With, Counted
      <3> QED
        BY <3>1, <3>2, <2>3, Zenon
    <2>5. HandleExitDeal(g, d) = [UpdateSetupStats(added, t, y) EXCEPT !.trade[t].final = TRUE]
      <3> HIDE DEF added
      <3> QED
        BY <1>5, <1>6 DEF HandleExitDeal
    <2>6. HandleExitDeal(g, d) = With(counted, t, Ending(b), l)
      <3> HIDE DEF counted, b, l
      <3>1. HandleExitDeal(g, d) =
                [counted EXCEPT !.trade = [counted.trade EXCEPT
                                             ![t] = Ending(counted.trade[t])]]
        BY <2>4, <2>5, Zenon DEF Ending
      <3>2. With(counted, t, Ending(b), counted.losses) =
                [counted EXCEPT !.trade = [counted.trade EXCEPT ![t] = Ending(b)]]
        <4>1. counted \in Stores /\ t \in Trades
          BY <1>1, <2>3
        <4> HIDE DEF t
        <4> QED
          BY <4>1, SameStore
      <3> QED
        BY <2>3, <3>1, <3>2, Zenon
    <2>7. With(counted, t, Ending(b), l) = With(g, t, Ending(b), l)
      <3> HIDE DEF a, b, l
      <3>1. With(counted, t, Ending(b), l) = With(added, t, Ending(b), l)
        BY <1>1, <1>3, <2>2, <2>3, WithTwice
      <3>2. With(added, t, Ending(b), l) = With(g, t, Ending(b), l)
        BY <1>1, <2>1, WithTwice
      <3> QED
        BY <3>1, <3>2
    <2>8. Ending(b) = Counting(row, x, y)
      BY DEF Counting
    <2> HIDE DEF x, y, a, b, l, added, counted, row
    <2> QED
      BY <1>3, <2>6, <2>7, <2>8
  <1>7. ASSUME row.final \/ PositionIdentifierOpen(t)
        PROVE  HandleExitDeal(g, d) = added
    <2>1. HandleExitDeal(g, d) = [g EXCEPT !.trade[t].realized = x]
      BY <1>7, Zenon DEF HandleExitDeal
    <2> QED
      BY <1>5, <2>1
  <1> DEFINE h == HandleRiskAnalytics(g, d)
  <1> HIDE DEF x, y, a, b, l, added, counted, row, t
  <1>8. /\ ~d.own => h = g
        /\ d.own /\ d.entry => h = HandleEntryDeal(g, d)
        /\ d.own /\ ~d.entry => h = HandleExitDeal(g, d)
    BY DEF HandleRiskAnalytics
  <1>9. \/ ~d.own /\ h = g
        \/ d.own /\ d.entry /\ h = With(g, t, WithRisk(row), g.losses)
        \/ /\ d.own /\ ~d.entry /\ (row.final \/ PositionIdentifierOpen(t)) /\ h = added
        \/ /\ d.own /\ ~d.entry /\ ~row.final /\ ~PositionIdentifierOpen(t)
           /\ h = With(g, t, Counting(row, x, y), l)
    <2> HIDE DEF h
    <2> QED
      BY <1>4, <1>6, <1>7, <1>8, Zenon
  <1> QED
    BY <1>3, <1>9, Zenon DEF x, y, l, row, t, added, a

LEMMA SecondHalf ==
    ASSUME TypeInv, NEW g, Sound(g, pos, result, noticed), NEW d \in Deals
    PROVE  Updated(g, HandleRiskAnalytics(g, d))
  <1> DEFINE t == d.t
             row == g.trade[t]
             x == row.realized + d.gain
             y == IF row.risk THEN x ELSE 0
             h == HandleRiskAnalytics(g, d)
  <1>1. t \in Trades /\ g \in Stores /\ d.gain \in Int /\ 0 \in Nat
    BY DEF Deals, Sound
  <1>2. row \in Rows /\ g.losses \in Nat
    BY <1>1 DEF Stores
  <1>3. x \in Int /\ y \in Int
    BY <1>1, <1>2 DEF Rows
  <1>4. \/ h = g
        \/ h = With(g, t, WithRisk(row), g.losses)
        \/ h = With(g, t, Realizing(row, x), g.losses)
        \/ /\ ~row.final
           /\ \E l \in Nat : h = With(g, t, Counting(row, x, y), l)
    <2> DEFINE l == IF y > 0 THEN 0 ELSE g.losses + 1
    <2>1. /\ l \in Nat
          /\ \/ h = g
             \/ h = With(g, t, WithRisk(row), g.losses)
             \/ h = With(g, t, Realizing(row, x), g.losses)
             \/ ~row.final /\ h = With(g, t, Counting(row, x, y), l)
      BY <1>1, SecondHalfIs, Zenon
    <2> HIDE DEF l
    <2> QED
      BY <2>1
  <1> HIDE DEF h, x, y, row, t
  <1>5. /\ GoodRow(row, pos[t], result[t], noticed[t])
        /\ result[t] \in Int /\ noticed[t] \in BOOLEAN
    BY <1>1, RowOf DEF row
  <1>6. ASSUME NEW new, Keeps(row, new, pos[t], result[t], noticed[t]), NEW l \in Nat
        PROVE  Updated(g, With(g, t, new, l))
    BY <1>1, <1>6, OneTrade DEF With, row
  <1>7. Keeps(row, WithRisk(row), pos[t], result[t], noticed[t])
    BY <1>1, <1>5, RowMarks
  <1>8. /\ Keeps(row, Realizing(row, x), pos[t], result[t], noticed[t])
        /\ ~row.final => Keeps(row, Counting(row, x, y), pos[t], result[t], noticed[t])
    BY <1>3, <1>5, RowSettles
  <1>9. Updated(g, g)
    BY RowOf DEF Updated, Keeps
  <1> QED
    BY <1>2, <1>4, <1>6, <1>7, <1>8, <1>9 DEF h

LEMMA Restored ==
    ASSUME TypeInv, NEW g, Sound(g, pos, result, noticed), NEW riskKnown
    PROVE  Updated(g, [g EXCEPT !.trade = [t \in Trades |->
                          IF PositionIdentifierOpen(t) /\ riskKnown
                          THEN [@[t] EXCEPT !.risk = TRUE] ELSE @[t]]])
  <1> DEFINE f == [t \in Trades |->
                    IF PositionIdentifierOpen(t) /\ riskKnown
                    THEN [g.trade[t] EXCEPT !.risk = TRUE] ELSE g.trade[t]]
  <1>1. ASSUME NEW t \in Trades
        PROVE  Keeps(g.trade[t], f[t], pos[t], result[t], noticed[t])
    <2>1. f[t] = WithRisk(g.trade[t]) \/ f[t] = g.trade[t]
      BY DEF WithRisk
    <2> HIDE DEF f
    <2>2. Keeps(g.trade[t], WithRisk(g.trade[t]), pos[t], result[t], noticed[t])
      BY RowOf, RowMarks, 0 \in Nat
    <2> QED
      BY <2>1, <2>2, RowOf
  <1> HIDE DEF f
  <1>2. f = [t \in Trades |-> f[t]]
    BY DEF f
  <1>3. Updated(g, [g EXCEPT !.trade = f])
    BY <1>1, <1>2, Remade
  <1> QED
    BY <1>3 DEF f

LEMMA Reconciles ==
    ASSUME TypeInv, NEW g, Sound(g, pos, result, noticed), NEW storageFails \in BOOLEAN
    PROVE  LET h == [g EXCEPT !.trade = [t \in Trades |->
                        IF ~PositionIdentifierOpen(t) THEN @[t]
                        ELSE Reconciled(IF storageFails THEN Anomalous(@[t])
                                        ELSE @[t], t)]]
           IN /\ Updated(g, h)
              /\ \A t \in Trades :
                     PositionIdentifierOpen(t) /\ (Unexplained(t) \/ storageFails)
                         => h.trade[t].quarantine
  <1> DEFINE a(t) == IF storageFails THEN Anomalous(g.trade[t]) ELSE g.trade[t]
             f == [t \in Trades |-> IF ~PositionIdentifierOpen(t) THEN g.trade[t]
                                    ELSE Reconciled(a(t), t)]
  <1>1. ASSUME NEW t \in Trades
        PROVE  /\ Keeps(g.trade[t], f[t], pos[t], result[t], noticed[t])
               /\ PositionIdentifierOpen(t) /\ (Unexplained(t) \/ storageFails)
                      => f[t].quarantine
    <2> DEFINE row == g.trade[t]
               seen == Seen(a(t), vol[t])
    <2>1. vol[t] \in Nat /\ row \in Rows
      <3>1. vol[t] \in Nat
        BY DEF TypeInv, Volume
      <3>2. row \in Rows
        BY RowOf DEF GoodRow
      <3> QED
        BY <3>1, <3>2
    <2>2. Keeps(row, a(t), pos[t], result[t], noticed[t])
      BY <2>1, RowOf, RowMarks
    <2>3. GoodRow(a(t), pos[t], result[t], noticed[t])
      BY <2>2 DEF Keeps
    <2>4. storageFails => a(t).quarantine
      BY <2>1 DEF Anomalous, Rows
    <2> HIDE DEF a
    <2>5. /\ Keeps(a(t), seen, pos[t], result[t], noticed[t])
          /\ GoodRow(seen, pos[t], result[t], noticed[t])
      <3>1. Keeps(a(t), seen, pos[t], result[t], noticed[t])
        BY <2>1, <2>3, RowOf, RowMarks
      <3> QED
        BY <3>1 DEF Keeps
    <2> HIDE DEF seen
    <2>6. /\ Keeps(seen, Anomalous(seen), pos[t], result[t], noticed[t])
          /\ Anomalous(seen).quarantine
      <3>1. seen \in Rows
        BY <2>5 DEF GoodRow
      <3>2. Anomalous(seen).quarantine
        BY <3>1 DEF Anomalous, Rows
      <3> QED
        BY <2>1, <2>5, <3>2, RowOf, RowMarks
    <2>7. f[t] = IF ~PositionIdentifierOpen(t) THEN row
                 ELSE IF Unexplained(t) THEN Anomalous(seen) ELSE seen
      BY DEF Reconciled, seen, Seen
    <2> HIDE DEF f, row
    <2> QED
      BY <2>2, <2>4, <2>5, <2>6, <2>7, RowOf DEF Keeps, Follows, row
  <1> HIDE DEF f
  <1>2. f = [t \in Trades |-> f[t]]
    BY DEF f
  <1>3. Updated(g, [g EXCEPT !.trade = f])
    BY <1>1, <1>2, Remade
  <1>4. [g EXCEPT !.trade = f].trade = f
    BY StoreFields DEF Sound
  <1> QED
    BY <1>1, <1>3, <1>4 DEF f, a

-----------------------------------------------------------------------------
(* The invariant. *)

LEMMA TypeStart == Init => TypeInv
  BY TradesAssumption DEF Init, TypeInv, Volume, Configs

LEMMA TypeStep == TypeInv /\ [Next]_vars => TypeInv'
  <1> SUFFICES ASSUME TypeInv, [Next]_vars
               PROVE  TypeInv'
    OBVIOUS
  <1> USE DEF TypeInv
  <1>1. ASSUME NEW t \in Trades, NEW plan \in BOOLEAN, NEW answered \in BOOLEAN,
               Open(t, plan, answered)
        PROVE  TypeInv'
    <2>1. [t |-> t, entry |-> TRUE, own |-> TRUE, gain |-> 0] \in Deals
      BY DEF Deals
    <2> QED
      BY <1>1, <2>1 DEF Open, Volume, Fault, ghosts
  <1>2. ASSUME NEW t \in Trades, NEW own \in BOOLEAN, NEW gain \in Gains,
               NEW left \in 0 .. 1, Exit(t, own, gain, left)
        PROVE  TypeInv'
    <2>1. gain \in Int
      BY GainsAssumption
    <2>2. /\ [t |-> t, entry |-> FALSE, own |-> own, gain |-> gain] \in Deals
          /\ [t |-> t, own |-> own] \in [t : Trades, own : BOOLEAN]
      BY <2>1 DEF Deals
    <2>3. left \in 0 .. Volume
      BY DEF Volume
    <2> QED
      BY <1>2, <2>1, <2>2, <2>3 DEF Exit
  <1>3. ASSUME NEW again \in BOOLEAN, OnTradeTransaction(again)
        PROVE  TypeInv'
    <2>1. queue' \in Seq(Deals)
      BY <1>3 DEF OnTradeTransaction
    <2>2. noticed' \in [Trades -> BOOLEAN]
      <3> DEFINE t == Head(queue).t
                 b == noticed[t] \/ (Touched(Head(queue)) /\ PositionIdentifierOpen(t))
      <3>1. noticed' = [noticed EXCEPT ![t] = b]
        BY <1>3 DEF OnTradeTransaction
      <3>2. b \in BOOLEAN
        OBVIOUS
      <3> HIDE DEF b, t
      <3> QED
        BY <3>1, <3>2
    <2> QED
      BY <1>3, <2>1, <2>2 DEF OnTradeTransaction, broker
  <1>4. CASE LoseCallback
    BY <1>4 DEF LoseCallback, broker
  <1>5. CASE Timer
    <2>1. ASSUME NEW moved, AdaptiveTimer(moved)
          PROVE  TypeInv'
      BY <2>1 DEF AdaptiveTimer, broker, ghosts
    <2>2. ASSUME ReliabilityTimer(FALSE) \/ ReliabilityNotDue
          PROVE  TypeInv'
      BY <2>2 DEF ReliabilityTimer, ReliabilityNotDue, broker, ghosts, counts,
                  CollectCauses, CausesDue
    <2>3. ASSUME NEW t \in Trades, AttributeCause(t, TRUE)
          PROVE  TypeInv'
      BY <2>3 DEF AttributeCause, broker, ghosts
    <2>4. ASSUME StrategyTimer \/ CausesEnd
          PROVE  TypeInv'
      BY <2>4 DEF StrategyTimer, CausesEnd, broker, ghosts, counts
    <2> QED
      BY <1>5, <2>1, <2>2, <2>3, <2>4 DEF Timer
  <1>6. CASE \E moved \in SUBSET Trades \ {{}} : AdaptiveTimer(moved)
    BY <1>6 DEF AdaptiveTimer, broker, ghosts
  <1>7. CASE ReliabilityTimer(TRUE)
    BY <1>7 DEF ReliabilityTimer, broker, CollectCauses, CausesDue
  <1>8. CASE \E t \in Trades : AttributeCause(t, FALSE)
    BY <1>8 DEF AttributeCause, broker, ghosts
  <1>9. CASE HistoryFails \/ Checkpoint
    BY <1>9 DEF HistoryFails, Checkpoint, broker, ghosts, counts
  <1>10. CASE Stop
    BY <1>10 DEF Stop, Down, broker
  <1>11. CASE Crash
    BY <1>11 DEF Crash, Down, broker
  <1>12. ASSUME NEW c \in Configs, NEW riskKnown \in BOOLEAN, Start(c, riskKnown)
         PROVE  TypeInv'
    BY <1>12 DEF Start, broker, ghosts
  <1>13. CASE UNCHANGED vars
    BY <1>13 DEF vars, broker, ghosts, counts
  <1> QED
    BY <1>1, <1>2, <1>3, <1>4, <1>5, <1>6, <1>7, <1>8, <1>9, <1>10, <1>11,
       <1>12, <1>13 DEF Next

(* A step that updates the variables and leaves the broker alone.           *)
LEMMA LaterStep ==
    ASSUME IInv, TypeInv', UNCHANGED << pos, result, history, causes >>,
           crashes' >= crashes, Updated(gv, gv'), disk' = disk \/ disk' = gv',
           \A t \in Trades : noticed'[t] =>
               noticed[t] \/ (pos[t] = "open" /\ gv'.trade[t].quarantine),
           \A t \in todo' : t \in todo \/ t \in CausesDue
    PROVE  IInv'
  <1>1. ASSUME NEW g, Sound(g, pos, result, noticed)
        PROVE  Sound(g, pos', result', noticed')
    <2>1. ASSUME NEW t \in Trades
          PROVE  GoodRow(g.trade[t], pos'[t], result'[t], noticed'[t])
      <3>1. GoodRow(g.trade[t], pos[t], result[t], noticed[t])
        BY <1>1 DEF Sound
      <3>2. CASE noticed'[t]
        BY <3>1, <3>2 DEF GoodRow
      <3>3. CASE ~noticed'[t]
        BY <3>1, <3>3 DEF GoodRow
      <3> QED
        BY <3>2, <3>3
    <2> QED
      BY <1>1, <2>1 DEF Sound
  <1>2. Sound(gv', pos', result', noticed') /\ Sound(disk', pos', result', noticed')
    BY <1>1 DEF IInv, Updated
  <1>3. MarkedInv'
    BY DEF MarkedInv, IInv, Updated, Follows
  <1>4. HistoryInv'
    BY DEF HistoryInv, IInv
  <1>5. CauseInv'
    <2>1. ASSUME NEW t \in Trades
          PROVE  causes'[t] <= crashes' + gv'.trade[t].causeFinal
      <3>1. causes[t] <= crashes + gv.trade[t].causeFinal
        BY DEF IInv, CauseInv
      <3>2. gv'.trade[t].causeFinal = gv.trade[t].causeFinal
        BY DEF Updated, Follows
      <3>3. /\ causes[t] \in Int /\ crashes \in Int /\ crashes' \in Int
            /\ gv.trade[t].causeFinal \in Int
        <4>1. gv.trade[t] \in Rows
          BY RowOf DEF IInv, GoodRow
        <4>2. gv.trade[t].causeFinal \in Int
          BY <4>1 DEF Rows
        <4> QED
          BY <4>2 DEF IInv, TypeInv
      <3> QED
        BY <3>1, <3>2, <3>3
    <2>2. ASSUME NEW t \in todo'
          PROVE  pos'[t] = "closed" /\ gv'.trade[t].causeFinal = 0
      <3>1. t \in Trades
        BY DEF TypeInv
      <3>2. pos[t] = "closed" /\ gv.trade[t].causeFinal = 0
        <4>1. CASE t \in todo
          BY <4>1 DEF IInv, CauseInv
        <4>2. CASE t \in CausesDue
          BY <4>2, EndedIsClosed DEF CausesDue, Row, IInv, Kept
        <4> QED
          BY <4>1, <4>2
      <3> QED
        BY <3>1, <3>2 DEF Updated, Follows
    <2> QED
      BY <2>1, <2>2 DEF CauseInv
  <1> QED
    BY <1>2, <1>3, <1>4, <1>5 DEF IInv

LEMMA Unchanged ==
    ASSUME IInv
    PROVE  Updated(gv, gv)
  BY RowOf DEF IInv, Updated, Keeps

LEMMA StrategyStep ==
    ASSUME IInv, TypeInv', StrategyTimer
    PROVE  IInv'
  <1> DEFINE a == Attached(gv)
             b == FinalizeStrategyHistory(a)
  <1>1. Updated(gv, a)
    BY Attaches DEF IInv
  <1>2. Sound(a, pos, result, noticed) /\ MarkedIn(a)
    BY <1>1, StaysMarked DEF IInv, Updated, MarkedInv, MarkedIn
  <1>3. Updated(a, b) /\ Sound(b, pos, result, noticed)
    BY <1>2, IntoHistory DEF IInv, Kept, Updated
  <1>4. Updated(b, FinalizeContextHistory(b))
    BY <1>3, IntoContexts DEF IInv, Kept
  <1>5. gv' = FinalizeContextHistory(b)
    BY DEF StrategyTimer
  <1> HIDE DEF a, b
  <1>6. Updated(gv, gv')
    BY <1>1, <1>3, <1>4, <1>5, Transitive
  <1> QED
    BY <1>6, LaterStep DEF StrategyTimer, broker, ghosts, counts, IInv, TypeInv

LEMMA AdaptiveStep ==
    ASSUME IInv, TypeInv', NEW moved, AdaptiveTimer(moved)
    PROVE  IInv'
  <1> DEFINE g == EnsureLearningGeneration(gv)
             due == { t \in Trades :
                        /\ Ended(t) /\ Row(t).strategy /\ Row(t).risk
                        /\ Row(t).meta /\ Row(t).adaptFinal = 0 }
  <1>1. Updated(gv, g)
    BY NewGeneration DEF IInv
  <1>2. Sound(g, pos, result, noticed) /\ MarkedIn(g)
    BY <1>1, StaysMarked DEF IInv, Updated, MarkedInv, MarkedIn
  <1>3. ASSUME NEW t \in Trades
        PROVE  g.trade[t].adaptFinal = gv.trade[t].adaptFinal
    <2>1. CASE gv.generation = config
      BY <2>1 DEF EnsureLearningGeneration
    <2>2. CASE gv.generation # config
      <3>1. gv.trade[t] \in Rows /\ gv \in Stores
        BY RowOf DEF GoodRow, IInv, Sound
      <3>2. g.trade[t] = Emptied(gv.trade[t])
        BY <2>2, <3>1 DEF EnsureLearningGeneration, Emptied, Stores
      <3>3. Emptied(gv.trade[t]).adaptFinal = gv.trade[t].adaptFinal
        BY <3>1 DEF Emptied, Rows
      <3> QED
        BY <3>2, <3>3
    <2> QED
      BY <2>1, <2>2
  <1>4. Updated(g, gv')
    <2>1. gv' = [g EXCEPT !.trade = [t \in Trades |->
                    IF t \in due
                    THEN FinalizeAdaptiveLearning(@[t], t, t \in moved) ELSE @[t]]]
      BY DEF AdaptiveTimer
    <2>2. \A t \in due : t \in Trades => Ended(t) /\ g.trade[t].adaptFinal = 0
      BY <1>3 DEF Row
    <2> HIDE DEF due, g
    <2> QED
      BY <1>2, <2>1, <2>2, IntoAdaptive DEF IInv, Kept
  <1>5. Updated(gv, gv')
    BY <1>1, <1>4, Transitive
  <1> QED
    BY <1>5, LaterStep DEF AdaptiveTimer, broker, ghosts, IInv, TypeInv

LEMMA ReliabilityStep ==
    ASSUME IInv, TypeInv', NEW storageFails \in BOOLEAN,
           ReliabilityTimer(storageFails)
    PROVE  IInv'
  <1>1. /\ Updated(gv, gv')
        /\ \A t \in Trades :
               PositionIdentifierOpen(t) /\ (Unexplained(t) \/ storageFails)
                   => gv'.trade[t].quarantine
    BY Reconciles DEF ReliabilityTimer, IInv
  <1>2. \A t \in Trades : noticed'[t] =>
            noticed[t] \/ (pos[t] = "open" /\ gv'.trade[t].quarantine)
    BY <1>1 DEF ReliabilityTimer, PositionIdentifierOpen
  <1>3. /\ UNCHANGED << pos, result, history, causes >> /\ crashes' = crashes
        /\ todo' = CausesDue /\ (disk' = disk \/ disk' = gv')
    BY DEF ReliabilityTimer, CollectCauses, broker
  <1> QED
    BY <1>1, <1>2, <1>3, LaterStep DEF IInv, TypeInv

LEMMA CallbackStep ==
    ASSUME IInv, TypeInv', NEW again \in BOOLEAN, OnTradeTransaction(again)
    PROVE  IInv'
  <1> DEFINE d == Head(queue)
             a == HandleReliability(gv, d)
             b == HandleRiskAnalytics(a, d)
             c == HandleRiskAnalytics(b, d)
  <1>1. d \in Deals /\ d.t \in Trades
    <2>1. queue \in Seq(Deals) /\ queue # << >>
      BY DEF OnTradeTransaction, IInv, TypeInv
    <2>2. d \in Deals
      BY <2>1
    <2> QED
      BY <2>2 DEF Deals
  <1>2. gv' = IF again THEN c ELSE b
    BY DEF OnTradeTransaction
  <1>3. noticed' = [noticed EXCEPT ![d.t] =
                       @ \/ (Touched(d) /\ PositionIdentifierOpen(d.t))]
    BY DEF OnTradeTransaction
  <1>4. /\ UNCHANGED << pos, result, history, causes, disk, todo >>
        /\ crashes' = crashes
    BY DEF OnTradeTransaction, broker
  <1> HIDE DEF d
  <1>5. Updated(gv, a) /\ (Touched(d) => a.trade[d.t].quarantine)
    BY <1>1, FirstHalf DEF IInv
  <1> HIDE DEF a
  <1>6. Updated(a, b)
    BY <1>1, <1>5, SecondHalf DEF IInv, Updated
  <1> HIDE DEF b
  <1>7. Updated(b, c)
    BY <1>1, <1>6, SecondHalf DEF IInv, Updated
  <1> HIDE DEF c
  <1>8. Updated(a, gv') /\ Updated(gv, gv')
    BY <1>2, <1>5, <1>6, <1>7, Transitive
  <1>9. ASSUME NEW t \in Trades, noticed'[t], ~noticed[t]
        PROVE  pos[t] = "open" /\ gv'.trade[t].quarantine
    <2>1. t = d.t /\ Touched(d) /\ PositionIdentifierOpen(t)
      BY <1>1, <1>3, <1>9 DEF IInv, TypeInv
    <2> QED
      BY <2>1, <1>5, <1>8 DEF Updated, Follows, PositionIdentifierOpen
  <1> QED
    BY <1>4, <1>8, <1>9, LaterStep DEF IInv, TypeInv

LEMMA StartStep ==
    ASSUME IInv, TypeInv', NEW c \in Configs, NEW riskKnown \in BOOLEAN,
           Start(c, riskKnown)
    PROVE  IInv'
  <1>1. Updated(gv, gv')
    BY Restored DEF Start, IInv
  <1> QED
    BY <1>1, LaterStep DEF Start, broker, ghosts, IInv, TypeInv

LEMMA HistoryFailsStep ==
    ASSUME IInv, TypeInv', HistoryFails
    PROVE  IInv'
  <1>1. Updated(gv, Attached(gv)) /\ Updated(gv, EnsureLearningGeneration(gv))
    BY Attaches, NewGeneration DEF IInv
  <1>2. Updated(gv, gv')
    BY <1>1, Unchanged DEF HistoryFails
  <1> QED
    BY <1>2, LaterStep DEF HistoryFails, broker, ghosts, IInv, TypeInv

(* Steps that leave the variables as they are.                              *)
LEMMA QuietStep ==
    ASSUME IInv, TypeInv',
           \/ ReliabilityNotDue \/ CausesEnd \/ Checkpoint \/ LoseCallback
           \/ Stop \/ UNCHANGED vars
    PROVE  IInv'
  <1>1. gv' = gv /\ UNCHANGED << pos, result, history, causes, noticed >>
    BY DEF ReliabilityNotDue, CausesEnd, Checkpoint, LoseCallback, Stop, Down,
           vars, broker, ghosts
  <1>2. crashes \in Nat /\ (crashes' = crashes \/ crashes' = crashes + 1)
    BY DEF ReliabilityNotDue, CausesEnd, Checkpoint, LoseCallback, Stop, Down,
           vars, counts, IInv, TypeInv
  <1>3. disk' = disk \/ disk' = gv'
    BY DEF ReliabilityNotDue, CausesEnd, Checkpoint, LoseCallback, Stop, Down,
           vars, CollectCauses
  <1>4. todo' = todo \/ todo' = CausesDue \/ todo' = {}
    BY DEF ReliabilityNotDue, CausesEnd, Checkpoint, LoseCallback, Stop, Down,
           vars, CollectCauses
  <1>5. Updated(gv, gv')
    BY <1>1, Unchanged
  <1> QED
    BY <1>1, <1>2, <1>3, <1>4, <1>5, LaterStep

LEMMA OpenStep ==
    ASSUME IInv, TypeInv', NEW t \in Trades, NEW plan \in BOOLEAN,
           NEW answered \in BOOLEAN, Open(t, plan, answered)
    PROVE  IInv'
  <1> DEFINE f == [gv.trade EXCEPT ![t] = BoundRow(plan)]
  <1>1. /\ pos[t] = "none" /\ pos' = [pos EXCEPT ![t] = "open"]
        /\ gv' = (IF answered THEN [gv EXCEPT !.trade = f] ELSE gv)
        /\ disk' = gv' /\ crashes' = crashes
        /\ UNCHANGED << result, history, causes, todo, noticed >>
    BY DEF Open, ghosts
  <1>2. gv \in Stores /\ gv.trade \in [Trades -> Rows]
    BY StoreFields DEF IInv, Sound
  <1>3. ~noticed[t] /\ gv.trade[t].causeFinal = 0
    BY <1>1, RowOf DEF IInv, GoodRow
  <1>4. /\ GoodRow(BoundRow(plan), "open", result[t], noticed[t])
        /\ BoundRow(plan).causeFinal = 0
    <2>1. noticed[t] = FALSE /\ result[t] \in Int /\ config \in Configs
      BY <1>3, RowOf DEF IInv, TypeInv
    <2> QED
      BY <2>1, RowOpens
  <1>5. /\ [gv EXCEPT !.trade = f] \in Stores
        /\ [gv EXCEPT !.trade = f].trade = f
        /\ f[t] = BoundRow(plan) /\ \A u \in Trades \ {t} : f[u] = gv.trade[u]
    <2>1. f \in [Trades -> Rows]
      BY <1>2, <1>4 DEF GoodRow
    <2>2. f[t] = BoundRow(plan) /\ \A u \in Trades \ {t} : f[u] = gv.trade[u]
      BY <1>2
    <2> HIDE DEF f
    <2> QED
      BY <1>2, <2>1, <2>2, StoreFields DEF Stores
  <1> HIDE DEF f
  <1>6. ASSUME NEW u \in Trades
        PROVE  /\ GoodRow(gv'.trade[u], pos'[u], result'[u], noticed'[u])
               /\ gv'.trade[u].causeFinal = gv.trade[u].causeFinal
               /\ noticed'[u] => gv'.trade[u].quarantine
    <2>1. GoodRow(gv.trade[u], pos[u], result[u], noticed[u])
          /\ result[u] \in Int /\ noticed[u] \in BOOLEAN
      BY RowOf DEF IInv
    <2>2. CASE u # t
      BY <1>1, <1>5, <2>1, <2>2 DEF IInv, TypeInv, MarkedInv
    <2>3. CASE u = t
      <3>1. pos'[u] = "open"
        BY <1>1, <2>3 DEF IInv, TypeInv
      <3>2. CASE answered
        BY <1>1, <1>3, <1>4, <1>5, <2>3, <3>1, <3>2
      <3>3. CASE ~answered
        <4>1. GoodRow(gv.trade[u], "open", result[u], noticed[u])
          BY <1>1, <2>1, <2>3, RowMoves
        <4> QED
          BY <1>1, <1>3, <2>3, <3>1, <3>3, <4>1
      <3> QED
        BY <3>2, <3>3
    <2> QED
      BY <2>2, <2>3
  <1>7. gv' \in Stores
    BY <1>1, <1>2, <1>5
  <1>8. Sound(gv', pos', result', noticed') /\ Sound(disk', pos', result', noticed')
    BY <1>1, <1>6, <1>7 DEF Sound
  <1>9. MarkedInv' /\ HistoryInv'
    BY <1>1, <1>6 DEF MarkedInv, HistoryInv, IInv, TypeInv
  <1>10. CauseInv'
    BY <1>1, <1>6 DEF CauseInv, IInv, TypeInv
  <1> QED
    BY <1>8, <1>9, <1>10 DEF IInv

LEMMA ExitStep ==
    ASSUME IInv, TypeInv', NEW t \in Trades, NEW own \in BOOLEAN,
           NEW gain \in Gains, NEW left \in 0 .. 1, Exit(t, own, gain, left)
    PROVE  IInv'
  <1> DEFINE new == WithPartial(gv.trade[t])
             f == [gv.trade EXCEPT ![t] = new]
             h == [gv EXCEPT !.trade = f]
  <1>1. /\ pos[t] = "open" /\ gain \in Int
        /\ pos' = [pos EXCEPT ![t] = IF left = 0 THEN "closed" ELSE "open"]
        /\ result' = [result EXCEPT ![t] = @ + gain]
        /\ history' = Append(history, [t |-> t, own |-> own])
        /\ gv' = h \/ gv' = gv
        /\ disk' = disk /\ crashes' = crashes
        /\ UNCHANGED << causes, todo, noticed >>
    BY GainsAssumption DEF Exit, WithPartial
  <1>2. gv \in Stores /\ gv.trade \in [Trades -> Rows]
    BY StoreFields DEF IInv, Sound
  <1>3. Updated(gv, h)
    <2>1. Keeps(gv.trade[t], new, pos[t], result[t], noticed[t])
      BY RowOf, RowMarks, 0 \in Nat DEF IInv
    <2>2. h = [gv EXCEPT !.trade = f, !.losses = gv.losses] /\ gv.losses \in Nat
      <3>1. With(gv, t, new, gv.losses) = h
        BY <1>2, SameStore
      <3> QED
        BY <1>2, <3>1, SameStore DEF With
    <2> HIDE DEF new
    <2>3. Updated(gv, [gv EXCEPT !.trade = f, !.losses = gv.losses])
      BY <2>1, <2>2, OneTrade DEF IInv
    <2> HIDE DEF h
    <2> QED
      BY <2>2, <2>3
  <1>4. Updated(gv, gv')
    BY <1>1, <1>3, Unchanged
  <1>5. ASSUME NEW g, Sound(g, pos, result, noticed)
        PROVE  Sound(g, pos', result', noticed')
    <2>1. ASSUME NEW u \in Trades
          PROVE  GoodRow(g.trade[u], pos'[u], result'[u], noticed'[u])
      <3>1. GoodRow(g.trade[u], pos[u], result[u], noticed[u])
            /\ noticed[u] \in BOOLEAN
        BY <1>5, RowOf DEF IInv
      <3>2. CASE u # t
        BY <1>1, <3>1, <3>2 DEF IInv, TypeInv
      <3>3. CASE u = t
        <4>1. /\ pos'[u] # "none" /\ result'[u] \in Int /\ result[u] \in Int
              /\ pos[u] = "open"
          BY <1>1, <3>3 DEF IInv, TypeInv
        <4> QED
          BY <1>1, <3>1, <4>1, RowMoves
      <3> QED
        BY <3>2, <3>3
    <2> QED
      BY <1>5, <2>1 DEF Sound
  <1>6. Sound(gv', pos', result', noticed') /\ Sound(disk', pos', result', noticed')
    BY <1>1, <1>4, <1>5 DEF IInv, Updated
  <1>7. MarkedInv'
    BY <1>1, <1>4 DEF MarkedInv, IInv, Updated, Follows
  <1>8. HistoryInv'
    <2>1. ASSUME NEW i \in DOMAIN history'
          PROVE  pos'[history'[i].t] # "none"
      <3>1. history \in Seq([t : Trades, own : BOOLEAN])
        BY DEF IInv, TypeInv
      <3>2. CASE i \in DOMAIN history
        <4>1. history'[i] = history[i] /\ history[i] \in [t : Trades, own : BOOLEAN]
          <5> DEFINE e == [t |-> t, own |-> own]
          <5>1. history' = Append(history, e)
            BY <1>1
          <5>2. e \in [t : Trades, own : BOOLEAN]
            OBVIOUS
          <5> DEFINE E == [t : Trades, own : BOOLEAN]
          <5> HIDE DEF e, E
          <5>3. history \in Seq(E) /\ e \in E
            BY <3>1, <5>2 DEF E
          <5>4. history'[i] = history[i] /\ history[i] \in E
            BY <3>2, <5>1, <5>3
          <5> QED
            BY <5>4 DEF E
        <4>2. pos[history[i].t] # "none"
          BY <3>2 DEF IInv, HistoryInv
        <4> QED
          BY <1>1, <4>1, <4>2 DEF IInv, TypeInv
      <3>3. CASE i \notin DOMAIN history
        <4>1. history'[i].t = t
          BY <1>1, <3>1, <3>3
        <4> QED
          BY <1>1, <4>1 DEF IInv, TypeInv
      <3> QED
        BY <3>2, <3>3
    <2> QED
      BY <2>1 DEF HistoryInv
  <1>9. CauseInv'
    BY <1>1, <1>4 DEF CauseInv, IInv, TypeInv, Updated, Follows
  <1> QED
    BY <1>6, <1>7, <1>8, <1>9 DEF IInv

LEMMA CauseStep ==
    ASSUME IInv, TypeInv', NEW t \in Trades, NEW fileOpens \in BOOLEAN,
           AttributeCause(t, fileOpens)
    PROVE  IInv'
  <1> DEFINE new == Caused(gv.trade[t])
             f == [gv.trade EXCEPT ![t] = new]
  <1>1. /\ t \in todo /\ todo' = todo \ {t}
        /\ causes' = (IF fileOpens THEN [causes EXCEPT ![t] = @ + 1] ELSE causes)
        /\ gv' = [gv EXCEPT !.trade = f]
        /\ disk' = disk /\ crashes' = crashes
        /\ UNCHANGED << pos, result, history, noticed >>
    BY DEF AttributeCause, Caused, broker, ghosts
  <1>2. gv \in Stores /\ gv.trade \in [Trades -> Rows]
    BY StoreFields DEF IInv, Sound
  <1>3. pos[t] = "closed" /\ gv.trade[t].causeFinal = 0
    BY <1>1 DEF IInv, CauseInv
  <1>4. /\ GoodRow(new, pos[t], result[t], noticed[t])
        /\ new.quarantine = gv.trade[t].quarantine /\ new.causeFinal = 1
    BY <1>3, RowOf, RowPasses DEF IInv
  <1> HIDE DEF new
  <1>5. /\ gv' \in Stores /\ gv'.trade = f
        /\ f[t] = new /\ \A u \in Trades \ {t} : f[u] = gv.trade[u]
    <2>1. f \in [Trades -> Rows]
      BY <1>2, <1>4 DEF GoodRow
    <2>2. f[t] = new /\ \A u \in Trades \ {t} : f[u] = gv.trade[u]
      BY <1>2
    <2> HIDE DEF f
    <2> QED
      BY <1>1, <1>2, <2>1, <2>2, StoreFields DEF Stores
  <1> HIDE DEF f
  <1>6. Sound(gv', pos', result', noticed') /\ Sound(disk', pos', result', noticed')
    BY <1>1, <1>4, <1>5 DEF IInv, Sound
  <1>7. MarkedInv' /\ HistoryInv'
    BY <1>1, <1>4, <1>5 DEF IInv, MarkedInv, HistoryInv
  <1>8. CauseInv'
    <2>1. ASSUME NEW u \in Trades
          PROVE  causes'[u] <= crashes' + gv'.trade[u].causeFinal
      <3>1. causes[u] <= crashes + gv.trade[u].causeFinal
        BY DEF IInv, CauseInv
      <3>2. CASE u = t
        BY <1>1, <1>3, <1>4, <1>5, <3>1, <3>2 DEF IInv, TypeInv
      <3>3. CASE u # t
        BY <1>1, <1>5, <3>1, <3>3 DEF IInv, TypeInv
      <3> QED
        BY <3>2, <3>3
    <2> QED
      BY <1>1, <1>5, <2>1 DEF CauseInv, IInv, TypeInv
  <1> QED
    BY <1>6, <1>7, <1>8 DEF IInv

LEMMA CrashStep ==
    ASSUME IInv, TypeInv', Crash
    PROVE  IInv'
  <1>1. /\ gv' = disk /\ disk' = disk /\ todo' = {} /\ crashes' = crashes + 1
        /\ UNCHANGED << pos, result, history, causes >>
        /\ noticed' = [t \in Trades |-> noticed[t] /\ disk.trade[t].quarantine]
    BY DEF Crash, Down, broker
  <1>2. Sound(disk, pos', result', noticed')
    <2>1. ASSUME NEW t \in Trades
          PROVE  GoodRow(disk.trade[t], pos[t], result[t], noticed'[t])
      <3>1. GoodRow(disk.trade[t], pos[t], result[t], noticed[t])
        BY DEF IInv, Sound
      <3>2. noticed'[t] => noticed[t]
        BY <1>1
      <3> QED
        BY <3>1, <3>2 DEF GoodRow
    <2> QED
      BY <1>1, <2>1 DEF Sound, IInv
  <1>3. MarkedInv' /\ HistoryInv'
    BY <1>1 DEF MarkedInv, HistoryInv, IInv
  <1>4. CauseInv'
    <2>1. ASSUME NEW t \in Trades
          PROVE  causes[t] <= (crashes + 1) + disk.trade[t].causeFinal
      <3>1. gv.trade[t] \in Rows /\ disk.trade[t] \in Rows
        BY DEF IInv, Sound, GoodRow
      <3>2. gv.trade[t].causeFinal \in 0 .. 1 /\ disk.trade[t].causeFinal \in 0 .. 1
        BY <3>1 DEF Rows
      <3>3. causes[t] <= crashes + gv.trade[t].causeFinal
        BY DEF IInv, CauseInv
      <3>4. causes[t] \in Nat /\ crashes \in Nat
        BY DEF IInv, TypeInv
      <3> QED
        BY <3>2, <3>3, <3>4
    <2> QED
      BY <1>1, <2>1 DEF CauseInv
  <1> QED
    BY <1>1, <1>2, <1>3, <1>4 DEF IInv

LEMMA Start0 ==
    Init => IInv
  <1> SUFFICES ASSUME Init
               PROVE  IInv
    OBVIOUS
  <1>1. TypeInv
    BY TypeStart
  <1>2. NewRow \in Rows
    <2>1. << >> \in Seq(Int)
      BY Results DEF Nothing
    <2> QED
      BY <2>1 DEF NewRow, Rows
  <1>3. \A r \in Int : GoodRow(NewRow, "none", r, FALSE)
    <2>1. /\ NewRow.strat = Nothing /\ NewRow.context = Nothing
          /\ NewRow.adapt = Nothing /\ NewRow.counted = Nothing
          /\ ~NewRow.meta /\ NewRow.causeFinal = 0
      BY DEF NewRow, Nothing
    <2> QED
      BY <1>2, <2>1, Results DEF GoodRow, Once, Covered, Unlearned
  <1>4. gv.trade = [t \in Trades |-> NewRow] /\ gv \in Stores
    <2> DEFINE f == [t \in Trades |-> NewRow]
    <2>1. f \in [Trades -> Rows]
      BY <1>2
    <2> HIDE DEF f
    <2>2. gv = [trade |-> f, losses |-> 0, generation |-> 1]
      BY DEF Init, f
    <2>3. gv \in Stores /\ gv.trade = f
      BY <2>1, <2>2 DEF Stores, Configs
    <2>4. f = [t \in Trades |-> NewRow]
      BY DEF f
    <2> QED
      BY <2>3, <2>4
  <1>5. Sound(gv, pos, result, noticed)
    <2>1. ASSUME NEW t \in Trades
          PROVE  GoodRow(gv.trade[t], pos[t], result[t], noticed[t])
      <3>1. /\ pos[t] = "none" /\ result[t] = 0 /\ noticed[t] = FALSE
            /\ gv.trade[t] = NewRow
        BY <1>4 DEF Init
      <3>2. 0 \in Int
        OBVIOUS
      <3>3. GoodRow(NewRow, "none", 0, FALSE)
        BY <1>3, <3>2, Zenon
      <3> QED
        BY <3>1, <3>3
    <2> QED
      BY <1>4, <2>1 DEF Sound
  <1>6. disk = gv /\ MarkedInv /\ HistoryInv
    BY DEF Init, MarkedInv, HistoryInv
  <1>7. CauseInv
    BY <1>4 DEF Init, CauseInv, NewRow
  <1> QED
    BY <1>1, <1>5, <1>6, <1>7 DEF IInv

LEMMA Inductive == IInv /\ [Next]_vars => IInv'
  <1> SUFFICES ASSUME IInv, [Next]_vars
               PROVE  IInv'
    OBVIOUS
  <1>1. TypeInv'
    BY TypeStep DEF IInv
  <1>2. ASSUME Timer
        PROVE  IInv'
    BY <1>1, <1>2, StrategyStep, AdaptiveStep, ReliabilityStep, CauseStep,
       QuietStep DEF Timer
  <1>3. ASSUME NEW t \in Trades, NEW plan \in BOOLEAN, NEW answered \in BOOLEAN,
               Open(t, plan, answered)
        PROVE  IInv'
    BY <1>1, <1>3, OpenStep
  <1>4. ASSUME NEW t \in Trades, NEW own \in BOOLEAN, NEW gain \in Gains,
               NEW left \in 0 .. 1, Exit(t, own, gain, left)
        PROVE  IInv'
    BY <1>1, <1>4, ExitStep
  <1>5. ASSUME NEW again \in BOOLEAN, OnTradeTransaction(again)
        PROVE  IInv'
    BY <1>1, <1>5, CallbackStep
  <1>6. ASSUME NEW moved, AdaptiveTimer(moved)
        PROVE  IInv'
    BY <1>1, <1>6, AdaptiveStep
  <1>7. CASE ReliabilityTimer(TRUE)
    BY <1>1, <1>7, ReliabilityStep
  <1>8. ASSUME NEW t \in Trades, AttributeCause(t, FALSE)
        PROVE  IInv'
    BY <1>1, <1>8, CauseStep
  <1>9. CASE HistoryFails
    BY <1>1, <1>9, HistoryFailsStep
  <1>10. CASE Crash
    BY <1>1, <1>10, CrashStep
  <1>11. ASSUME NEW c \in Configs, NEW riskKnown \in BOOLEAN, Start(c, riskKnown)
         PROVE  IInv'
    BY <1>1, <1>11, StartStep
  <1>12. CASE Checkpoint \/ LoseCallback \/ Stop \/ UNCHANGED vars
    BY <1>1, <1>12, QuietStep
  <1> QED
    BY <1>2, <1>3, <1>4, <1>5, <1>6, <1>7, <1>8, <1>9, <1>10, <1>11, <1>12
       DEF Next

(* What a row that the invariant calls good says of its trade.              *)
LEMMA Implied == IInv => TypeInv /\ LearnedTruly /\ TouchedIsNotLearned
  <1> SUFFICES ASSUME IInv
               PROVE  TypeInv /\ LearnedTruly /\ TouchedIsNotLearned
    OBVIOUS
  <1>1. ASSUME NEW t \in Trades
        PROVE  /\ GoodRow(Row(t), pos[t], result[t], noticed[t])
               /\ Row(t).causeFinal \in 0 .. 1
               /\ causes[t] <= crashes + Row(t).causeFinal
               /\ causes[t] \in Nat /\ crashes \in Nat
    <2>1. Row(t) \in Rows /\ GoodRow(Row(t), pos[t], result[t], noticed[t])
      BY RowOf DEF IInv, GoodRow, Row
    <2> QED
      BY <2>1 DEF Rows, IInv, CauseInv, TypeInv, Row
  <1>2. ASSUME NEW t \in Trades
        PROVE  causes[t] <= 1 + crashes
    <2> DEFINE c == Row(t).causeFinal
    <2>1. c \in 0 .. 1 /\ causes[t] <= crashes + c
      BY <1>1
    <2> HIDE DEF c
    <2> QED
      BY <1>1, <2>1
  <1>3. ASSUME NEW t \in Trades
        PROVE  Len(Row(t).counted) <= 1
    <2>1. Row(t).counted = Nothing \/ \E x \in Int : Row(t).counted = Just(x)
      BY <1>1 DEF GoodRow, Once
    <2>2. Len(Nothing) = 0 /\ \A x \in Int : Len(Just(x)) = 1
      BY DEF Nothing, Just
    <2> DEFINE n == Len(Row(t).counted)
    <2>3. n = 0 \/ n = 1
      BY <2>1, <2>2, Zenon
    <2> HIDE DEF n
    <2>4. n <= 1
      BY <2>3
    <2> QED
      BY <2>4, Zenon DEF n
  <1>4. LearnedTruly
    BY <1>1, <1>2, <1>3 DEF LearnedTruly, GoodRow, Once, Nothing, Just
  <1>5. TouchedIsNotLearned
    BY <1>1 DEF TouchedIsNotLearned, GoodRow, Unlearned, Nothing
  <1> QED
    BY <1>4, <1>5 DEF IInv

(* The variables have their types and the invariant holds, throughout.      *)
THEOREM TypeCorrect == Spec => []TypeInv
  BY TypeStart, TypeStep, PTL DEF Spec

THEOREM Invariance == Spec => []IInv
  BY Start0, Inductive, PTL DEF Spec

(* No store learns a trade twice or before it has ended, and a cause is     *)
(* written at most once per life of the terminal (8377, 8722, 12995,        *)
(* 14702), whatever is lost, doubled, late or undone by a crash.            *)
THEOREM LearnedOnce == Spec => []LearnedTruly
  BY Invariance, Implied, PTL

(* A trade found touched while it was open is kept out of the strategy      *)
(* history and of execution learning (8381, 12190).                         *)
THEOREM TouchedStaysOut == Spec => []TouchedIsNotLearned
  BY Invariance, Implied, PTL

-----------------------------------------------------------------------------
(* The account: what the program counted, against the broker's history.     *)

(* The trades counted in the variables g, and of counted trades S, with     *)
(* results r and last exit deals last, the losing ones that ended after     *)
(* every winner.                                                            *)
Finals(g) == { t \in Trades : g.trade[t].final }
RunIn(S, r, last) ==
    { t \in S : /\ r[t] <= 0
                /\ \A u \in S : r[u] > 0 => last[u] < last[t] }
LastOf == [t \in Trades |-> LastExit(t)]

(* What the row of a trade whose deals were all heard in time shows, when   *)
(* its position is at p, its exits brought r and the deals q wait: all but  *)
(* the deal that waits is in REALIZED, and the last deal settles it.        *)
Waits(q, t) == \E i \in DOMAIN q : q[i].t = t
Account(row, p, r, q, t) ==
    /\ \A i, j \in DOMAIN q : q[i].t = t /\ q[j].t = t => i = j
    /\ \A i \in DOMAIN q : q[i].t = t =>
          /\ q[i].own /\ row.realized + q[i].gain = r
          /\ q[i].entry => p = "open" /\ q[i].gain = 0
    /\ ~Waits(q, t) => row.realized = r
    /\ p # "none" /\ (\A i \in DOMAIN q : q[i].t = t => ~q[i].entry) => row.risk
    /\ row.final <=> p = "closed" /\ ~Waits(q, t)
    /\ row.final => row.counted = Just(r)

CleanInv ==
    /\ clean \in [Trades -> BOOLEAN]
    /\ \A t \in Trades : clean[t] => Account(gv.trade[t], pos[t], result[t], queue, t)

(* A deal that waits belongs to an opened position, one that was not opened *)
(* brought nothing, and only an ended trade is settled.                     *)
FinalIn(g, p) == \A t \in Trades : g.trade[t].final => p[t] = "closed"
EndInv ==
    /\ \A i \in DOMAIN queue : pos[queue[i].t] # "none"
    /\ \A t \in Trades : pos[t] = "none" => result[t] = 0
    /\ FinalIn(gv, pos) /\ FinalIn(disk, pos)

(* An ended trade has a last exit deal.  The callbacks come in the order of *)
(* the deals: while one waits, so does one of each trade that ended later.  *)
Latest(D, i) == i \in D /\ \A j \in D : j <= i
LastInv ==
    \A t \in Trades : pos[t] = "closed" => \E i \in DOMAIN history : Latest(ExitDeals(t), i)
Heard(t) == pos[t] = "closed" /\ clean[t]
FifoInv ==
    \A t, u \in Trades :
        Heard(t) /\ Heard(u) /\ LastOf[t] < LastOf[u]
            => \A i \in DOMAIN queue : queue[i].t = t =>
                  \E j \in DOMAIN queue : i < j /\ queue[j].t = u

(* While no ended trade has a deal that was missed, the streak is the run   *)
(* of losses among the trades counted, in the variables and in what was     *)
(* flushed of them.                                                         *)
StreakIn(g, r, last) == g.losses = Cardinality(RunIn(Finals(g), r, last))
AllHeard  == \A t \in Trades : pos[t] = "closed" => clean[t]
StreakInv ==
    AllHeard => StreakIn(gv, result, LastOf) /\ StreakIn(disk, result, LastOf)

AInv == CleanInv /\ EndInv /\ LastInv /\ FifoInv /\ StreakInv

(* An update that settles nothing.                                          *)
SameAccount(row, new) ==
    /\ new.realized = row.realized /\ new.final = row.final
    /\ new.counted = row.counted
    /\ row.risk => new.risk

SameAccounts(g, h) ==
    /\ h.losses = g.losses
    /\ \A t \in Trades : SameAccount(g.trade[t], h.trade[t])

LEMMA RowAccounts ==
    ASSUME NEW row \in Rows, NEW r, NEW v
    PROVE  /\ SameAccount(row, row)
           /\ SameAccount(row, ByHand(row)) /\ SameAccount(row, Anomalous(row))
           /\ SameAccount(row, WithStrategy(row)) /\ SameAccount(row, WithRisk(row))
           /\ SameAccount(row, WithPartial(row)) /\ SameAccount(row, Seen(row, v))
           /\ SameAccount(row, IntoStrategy(row, r)) /\ SameAccount(row, PastStrategy(row))
           /\ SameAccount(row, IntoContext(row, r)) /\ SameAccount(row, IntoLearning(row, r))
           /\ SameAccount(row, PastLearning(row)) /\ SameAccount(row, Emptied(row))
           /\ SameAccount(row, Caused(row))
  <1> USE DEF SameAccount
  <1>1. /\ SameAccount(row, row)
        /\ SameAccount(row, ByHand(row)) /\ SameAccount(row, Anomalous(row))
        /\ SameAccount(row, WithStrategy(row)) /\ SameAccount(row, WithRisk(row))
        /\ SameAccount(row, WithPartial(row)) /\ SameAccount(row, Seen(row, v))
    BY DEF Rows, ByHand, Anomalous, WithStrategy, WithRisk, WithPartial, Seen
  <1>2. /\ SameAccount(row, IntoStrategy(row, r)) /\ SameAccount(row, PastStrategy(row))
        /\ SameAccount(row, IntoContext(row, r)) /\ SameAccount(row, IntoLearning(row, r))
    BY DEF Rows, IntoStrategy, PastStrategy, IntoContext, IntoLearning
  <1>3. /\ SameAccount(row, PastLearning(row)) /\ SameAccount(row, Emptied(row))
        /\ SameAccount(row, Caused(row))
    BY DEF Rows, PastLearning, Emptied, Caused
  <1> QED
    BY <1>1, <1>2, <1>3

LEMMA SameTransitive ==
    ASSUME NEW g, NEW h, NEW k, SameAccounts(g, h), SameAccounts(h, k)
    PROVE  SameAccounts(g, k)
  BY DEF SameAccounts, SameAccount

LEMMA RemadeAccounts ==
    ASSUME NEW g \in Stores, NEW f, f = [t \in Trades |-> f[t]],
           \A t \in Trades : SameAccount(g.trade[t], f[t])
    PROVE  SameAccounts(g, [g EXCEPT !.trade = f])
  <1>1. [g EXCEPT !.trade = f] =
            [trade |-> f, losses |-> g.losses, generation |-> g.generation]
    BY StoreFields
  <1> QED
    BY <1>1 DEF SameAccounts

LEMMA AttachedSame ==
    ASSUME NEW g \in Stores
    PROVE  SameAccounts(g, Attached(g))
  <1> DEFINE f == [t \in Trades |->
                    IF PositionIdentifierOpen(t) /\ planned[t]
                    THEN WithStrategy(g.trade[t]) ELSE g.trade[t]]
  <1>1. Attached(g) = [g EXCEPT !.trade = f]
    BY DEF Attached, WithStrategy
  <1>2. \A t \in Trades : SameAccount(g.trade[t], f[t])
    BY RowAccounts, StoreFields
  <1>3. f = [t \in Trades |-> f[t]]
    OBVIOUS
  <1> HIDE DEF f
  <1> QED
    BY <1>1, <1>2, <1>3, RemadeAccounts

LEMMA HistorySame ==
    ASSUME NEW g \in Stores
    PROVE  SameAccounts(g, FinalizeStrategyHistory(g))
  <1> DEFINE due == { t \in Trades : /\ Ended(t) /\ g.trade[t].strategy
                                     /\ g.trade[t].stratFinal = 0 }
             excluded == { t \in due : StrategyQuarantined(g.trade[t]) }
             learned == { t \in due \ excluded :
                             \A u \in due \ excluded : t = u \/ Before(t, u) }
             reached(t) == \A u \in learned : t = u \/ Before(t, u)
             f == [t \in Trades |->
                     IF t \in learned THEN IntoStrategy(g.trade[t], result[t])
                     ELSE IF t \in excluded /\ reached(t)
                          THEN PastStrategy(g.trade[t])
                     ELSE g.trade[t]]
  <1>1. FinalizeStrategyHistory(g) = [g EXCEPT !.trade = f]
    BY DEF FinalizeStrategyHistory, IntoStrategy, PastStrategy
  <1>2. ASSUME NEW t \in Trades
        PROVE  SameAccount(g.trade[t], f[t])
    <2>1. \/ f[t] = IntoStrategy(g.trade[t], result[t])
          \/ f[t] = PastStrategy(g.trade[t]) \/ f[t] = g.trade[t]
      <3> HIDE DEF learned, excluded, reached
      <3> QED
        OBVIOUS
    <2> DEFINE row == g.trade[t]
    <2>2. row \in Rows
      BY StoreFields
    <2> HIDE DEF f, row
    <2>3. SameAccount(row, row) /\ SameAccount(row, PastStrategy(row))
          /\ SameAccount(row, IntoStrategy(row, result[t]))
      BY <2>2, RowAccounts
    <2> QED
      BY <2>1, <2>3 DEF row
  <1>3. f = [t \in Trades |-> f[t]]
    OBVIOUS
  <1> HIDE DEF f
  <1> QED
    BY <1>1, <1>2, <1>3, RemadeAccounts

LEMMA ContextSame ==
    ASSUME NEW g \in Stores
    PROVE  SameAccounts(g, FinalizeContextHistory(g))
  <1> DEFINE due == { t \in Trades :
                        /\ Ended(t) /\ g.trade[t].strategy /\ g.trade[t].risk
                        /\ g.trade[t].contextFinal = 0 }
             f == [t \in Trades |->
                     IF t \in due /\ \A u \in due : t = u \/ Before(t, u)
                     THEN IntoContext(g.trade[t], result[t]) ELSE g.trade[t]]
  <1>1. FinalizeContextHistory(g) = [g EXCEPT !.trade = f]
    BY DEF FinalizeContextHistory, IntoContext
  <1>2. ASSUME NEW t \in Trades
        PROVE  SameAccount(g.trade[t], f[t])
    <2>1. f[t] = IntoContext(g.trade[t], result[t]) \/ f[t] = g.trade[t]
      <3> HIDE DEF due
      <3> QED
        OBVIOUS
    <2> DEFINE row == g.trade[t]
    <2>2. row \in Rows
      BY StoreFields
    <2> HIDE DEF f, row
    <2>3. SameAccount(row, row) /\ SameAccount(row, IntoContext(row, result[t]))
      BY <2>2, RowAccounts
    <2> QED
      BY <2>1, <2>3 DEF row
  <1>3. f = [t \in Trades |-> f[t]]
    OBVIOUS
  <1> HIDE DEF f
  <1> QED
    BY <1>1, <1>2, <1>3, RemadeAccounts

LEMMA GenerationSame ==
    ASSUME NEW g \in Stores
    PROVE  SameAccounts(g, EnsureLearningGeneration(g))
  <1>1. CASE g.generation = config
    BY <1>1, RowAccounts, StoreFields DEF EnsureLearningGeneration, SameAccounts
  <1>2. CASE g.generation # config
    <2> DEFINE f == [t \in Trades |-> Emptied(g.trade[t])]
    <2>1. EnsureLearningGeneration(g) =
              [trade |-> f, losses |-> g.losses, generation |-> config]
      BY <1>2 DEF EnsureLearningGeneration, Emptied, Stores
    <2>2. \A t \in Trades : SameAccount(g.trade[t], f[t])
      BY RowAccounts, StoreFields
    <2> HIDE DEF f
    <2> QED
      BY <2>1, <2>2 DEF SameAccounts
  <1> QED
    BY <1>1, <1>2

LEMMA AdaptiveSame ==
    ASSUME NEW g \in Stores, NEW due, NEW moved
    PROVE  SameAccounts(g, [g EXCEPT !.trade = [t \in Trades |->
                              IF t \in due
                              THEN FinalizeAdaptiveLearning(@[t], t, t \in moved)
                              ELSE @[t]]])
  <1> DEFINE f == [t \in Trades |->
                     IF t \in due
                     THEN FinalizeAdaptiveLearning(g.trade[t], t, t \in moved)
                     ELSE g.trade[t]]
  <1>1. ASSUME NEW t \in Trades
        PROVE  SameAccount(g.trade[t], f[t])
    <2>1. \/ f[t] = PastLearning(g.trade[t]) \/ f[t] = g.trade[t]
          \/ f[t] = IntoLearning(g.trade[t], result[t])
      BY DEF FinalizeAdaptiveLearning, PastLearning, IntoLearning
    <2> DEFINE row == g.trade[t]
    <2>2. row \in Rows
      BY StoreFields
    <2> HIDE DEF f, row
    <2>3. SameAccount(row, row) /\ SameAccount(row, PastLearning(row))
          /\ SameAccount(row, IntoLearning(row, result[t]))
      BY <2>2, RowAccounts
    <2> QED
      BY <2>1, <2>3 DEF row
  <1>2. f = [t \in Trades |-> f[t]]
    OBVIOUS
  <1>3. SameAccounts(g, [g EXCEPT !.trade = f])
    <2> HIDE DEF f
    <2> QED
      BY <1>1, <1>2, RemadeAccounts
  <1> QED
    BY <1>3

LEMMA RestoredSame ==
    ASSUME NEW g \in Stores, NEW riskKnown
    PROVE  SameAccounts(g, [g EXCEPT !.trade = [t \in Trades |->
                              IF PositionIdentifierOpen(t) /\ riskKnown
                              THEN [@[t] EXCEPT !.risk = TRUE] ELSE @[t]]])
  <1> DEFINE f == [t \in Trades |->
                    IF PositionIdentifierOpen(t) /\ riskKnown
                    THEN [g.trade[t] EXCEPT !.risk = TRUE] ELSE g.trade[t]]
  <1>1. \A t \in Trades : SameAccount(g.trade[t], f[t])
    BY RowAccounts, StoreFields DEF WithRisk
  <1>2. f = [t \in Trades |-> f[t]]
    OBVIOUS
  <1>3. SameAccounts(g, [g EXCEPT !.trade = f])
    <2> HIDE DEF f
    <2> QED
      BY <1>1, <1>2, RemadeAccounts
  <1> QED
    BY <1>3

LEMMA ReconciledSame ==
    ASSUME TypeInv, NEW g, Sound(g, pos, result, noticed), NEW storageFails \in BOOLEAN
    PROVE  SameAccounts(g, [g EXCEPT !.trade = [t \in Trades |->
                              IF ~PositionIdentifierOpen(t) THEN @[t]
                              ELSE Reconciled(IF storageFails THEN Anomalous(@[t])
                                              ELSE @[t], t)]])
  <1> DEFINE a(t) == IF storageFails THEN Anomalous(g.trade[t]) ELSE g.trade[t]
             f == [t \in Trades |-> IF ~PositionIdentifierOpen(t) THEN g.trade[t]
                                    ELSE Reconciled(a(t), t)]
  <1>1. ASSUME NEW t \in Trades
        PROVE  SameAccount(g.trade[t], f[t])
    <2> DEFINE row == g.trade[t]
               seen == Seen(a(t), vol[t])
    <2>1. row \in Rows /\ vol[t] \in Nat
      <3>1. row \in Rows
        BY RowOf DEF GoodRow
      <3>2. vol[t] \in Nat
        BY DEF TypeInv, Volume
      <3> QED
        BY <3>1, <3>2
    <2>2. a(t) \in Rows /\ SameAccount(row, a(t))
      <3>1. Anomalous(row) \in Rows
        BY <2>1 DEF Anomalous, Rows
      <3> QED
        BY <2>1, <3>1, RowAccounts
    <2> HIDE DEF a
    <2>3. seen \in Rows /\ SameAccount(a(t), seen)
      <3>1. Seen(a(t), vol[t]) \in Rows
        BY <2>1, <2>2 DEF Seen, Rows
      <3> QED
        BY <2>2, <3>1, RowAccounts
    <2> HIDE DEF seen
    <2>4. SameAccount(seen, Anomalous(seen))
      BY <2>3, RowAccounts
    <2>5. f[t] \in {row, seen, Anomalous(seen)}
      BY DEF Reconciled, seen, Seen
    <2> HIDE DEF f, row
    <2> QED
      BY <2>1, <2>2, <2>3, <2>4, <2>5, RowAccounts DEF SameAccount, row
  <1>2. f = [t \in Trades |-> f[t]]
    OBVIOUS
  <1>3. SameAccounts(g, [g EXCEPT !.trade = f])
    <2>1. g \in Stores
      BY DEF Sound
    <2> HIDE DEF f
    <2> QED
      BY <1>1, <1>2, <2>1, RemadeAccounts
  <1> QED
    BY <1>3 DEF f, a

(* A mark on one row.                                                       *)
LEMMA MarkedSame ==
    ASSUME NEW g \in Stores, NEW t \in Trades, NEW new, SameAccount(g.trade[t], new)
    PROVE  SameAccounts(g, [g EXCEPT !.trade = [g.trade EXCEPT ![t] = new]])
  <1> DEFINE f == [g.trade EXCEPT ![t] = new]
  <1>1. f = [u \in Trades |-> f[u]] /\ \A u \in Trades : f[u] = IF u = t THEN new ELSE g.trade[u]
    BY StoreFields
  <1>2. \A u \in Trades : SameAccount(g.trade[u], g.trade[u])
    BY RowAccounts, StoreFields
  <1> HIDE DEF f
  <1>3. \A u \in Trades : SameAccount(g.trade[u], f[u])
    BY <1>1, <1>2
  <1>4. SameAccounts(g, [g EXCEPT !.trade = f])
    BY <1>1, <1>3, RemadeAccounts
  <1> QED
    BY <1>4 DEF f

(* The row of another store, or of another queue, with the same account.    *)
LEMMA AccountKept ==
    ASSUME NEW row, NEW new, NEW p, NEW r, NEW q, NEW t,
           SameAccount(row, new), Account(row, p, r, q, t)
    PROVE  Account(new, p, r, q, t)
  BY DEF SameAccount, Account

(* A queue without its first deal, and with a new last one.                 *)
LEMMA QueueTail ==
    ASSUME NEW q \in Seq(Deals), q # << >>
    PROVE  /\ Head(q) = q[1] /\ Head(q) \in Deals /\ 1 \in DOMAIN q
           /\ \A i \in DOMAIN Tail(q) : /\ i \in Nat /\ i > 0 /\ i + 1 \in DOMAIN q
                                        /\ Tail(q)[i] = q[i + 1]
           /\ \A i \in DOMAIN q : i \in Nat /\ (i > 1 =>
                  i - 1 \in DOMAIN Tail(q) /\ Tail(q)[i - 1] = q[i])
           /\ \A i \in DOMAIN q : i >= 1
  <1>1. Len(q) \in Nat /\ Len(q) > 0 /\ DOMAIN q = 1 .. Len(q)
    OBVIOUS
  <1>2. Head(q) = q[1] /\ q[1] \in Deals
    BY <1>1
  <1> DEFINE k == Tail(q)
  <1>3. k \in Seq(Deals) /\ Len(k) = Len(q) - 1 /\ \A i \in 1 .. Len(k) : k[i] = q[i + 1]
    BY HeadTailProperties
  <1>4. DOMAIN k = 1 .. Len(q) - 1
    BY <1>3
  <1> HIDE DEF k
  <1> QED
    BY <1>1, <1>2, <1>3, <1>4 DEF k

LEMMA QueueEnd ==
    ASSUME NEW S, NEW q \in Seq(S), NEW d \in S
    PROVE  LET k == Append(q, d)
               n == Len(q) + 1
           IN /\ n \in DOMAIN k /\ k[n] = d /\ n \in Nat
              /\ \A i \in DOMAIN q : i \in DOMAIN k /\ k[i] = q[i] /\ i < n /\ i \in Nat
              /\ \A i \in DOMAIN k : i \in DOMAIN q \/ i = n
  <1>1. Len(q) \in Nat /\ DOMAIN q = 1 .. Len(q)
    OBVIOUS
  <1> DEFINE k == Append(q, d)
             n == Len(q) + 1
  <1>2. k \in Seq(S) /\ Len(k) = n /\ k[n] = d /\ \A i \in 1 .. Len(q) : k[i] = q[i]
    BY AppendProperties
  <1>3. DOMAIN k = 1 .. n
    BY <1>1, <1>2
  <1> HIDE DEF k
  <1> QED
    BY <1>1, <1>2, <1>3 DEF k

(* What a trade shows in the queue once the first deal is another's.        *)
LEMMA AccountNext ==
    ASSUME NEW q \in Seq(Deals), q # << >>, NEW t, Head(q).t # t,
           NEW row, NEW p, NEW r, Account(row, p, r, q, t)
    PROVE  Account(row, p, r, Tail(q), t)
  <1> DEFINE k == Tail(q)
  <1>1. /\ Head(q) = q[1]
        /\ \A i \in DOMAIN k : /\ i \in Nat /\ i > 0 /\ i + 1 \in DOMAIN q
                               /\ k[i] = q[i + 1]
        /\ \A i \in DOMAIN q : i \in Nat /\ (i > 1 =>
                  i - 1 \in DOMAIN k /\ k[i - 1] = q[i])
        /\ \A i \in DOMAIN q : i >= 1
    BY QueueTail
  <1> HIDE DEF k
  <1>2. \A i \in DOMAIN q : q[i].t = t => i > 1 /\ i - 1 \in DOMAIN k /\ k[i - 1] = q[i]
    BY <1>1
  <1>3. Waits(k, t) <=> Waits(q, t)
    BY <1>1, <1>2 DEF Waits
  <1>4. (\A i \in DOMAIN k : k[i].t = t => ~k[i].entry)
            => \A i \in DOMAIN q : q[i].t = t => ~q[i].entry
    BY <1>2
  <1>5. \A i, j \in DOMAIN k : k[i].t = t /\ k[j].t = t => i = j
    <2> SUFFICES ASSUME NEW i \in DOMAIN k, NEW j \in DOMAIN k, k[i].t = t, k[j].t = t
                 PROVE  i = j
      OBVIOUS
    <2>1. i + 1 = j + 1
      BY <1>1 DEF Account
    <2> QED
      BY <1>1, <2>1
  <1>6. \A i \in DOMAIN k : k[i].t = t =>
            /\ k[i].own /\ row.realized + k[i].gain = r
            /\ k[i].entry => p = "open" /\ k[i].gain = 0
    BY <1>1 DEF Account
  <1>7. Account(row, p, r, k, t)
    BY <1>3, <1>4, <1>5, <1>6 DEF Account
  <1> QED
    BY <1>7 DEF k

(* Finals, the last exits and the run, when nothing they look at changed.   *)
LEMMA SameFinals ==
    ASSUME NEW g, NEW h, \A t \in Trades : h.trade[t].final = g.trade[t].final
    PROVE  Finals(h) = Finals(g)
  BY DEF Finals

LEMMA SameRun ==
    ASSUME NEW S, NEW r, NEW last, NEW r2, NEW last2,
           \A t \in S : r2[t] = r[t] /\ last2[t] = last[t]
    PROVE  RunIn(S, r2, last2) = RunIn(S, r, last)
  BY DEF RunIn

LEMMA SameLast ==
    ASSUME UNCHANGED history
    PROVE  LastOf' = LastOf
  BY DEF LastOf, LastExit, ExitDeals

Greatest(D) == CHOOSE l \in D : \A j \in D : j <= l

LEMMA GreatestIs ==
    ASSUME NEW D, D \subseteq Nat, NEW i \in Nat, Latest(D, i)
    PROVE  Greatest(D) = i
  <1> DEFINE P(l) == l \in D /\ \A j \in D : j <= l
  <1>1. P(i)
    BY DEF Latest
  <1>2. P(Greatest(D))
    BY <1>1 DEF Greatest
  <1>3. Greatest(D) \in Nat /\ Greatest(D) <= i /\ i <= Greatest(D)
    BY <1>1, <1>2
  <1> QED
    BY <1>3

LEMMA LastIs ==
    ASSUME NEW t \in Trades, NEW i \in DOMAIN history, Latest(ExitDeals(t), i), TypeInv
    PROVE  LastOf[t] = i /\ i \in Nat
  <1>1. i \in Nat /\ ExitDeals(t) \subseteq Nat
    BY DEF TypeInv, ExitDeals
  <1>2. LastOf[t] = Greatest(ExitDeals(t))
    BY DEF LastOf, LastExit, Greatest
  <1> QED
    BY <1>1, <1>2, GreatestIs

(* A deal of another trade does not concern a trade; its own exit deal      *)
(* waits until it is heard of.                                              *)
LEMMA AccountElse ==
    ASSUME NEW q \in Seq(Deals), NEW e \in Deals, NEW u, e.t # u,
           NEW row, NEW p, NEW r, Account(row, p, r, q, u)
    PROVE  Account(row, p, r, Append(q, e), u)
  <1> DEFINE k == Append(q, e)
  <1>1. /\ \A i \in DOMAIN q : i \in DOMAIN k /\ k[i] = q[i]
        /\ \A i \in DOMAIN k : k[i].t = u => i \in DOMAIN q /\ k[i] = q[i]
    BY QueueEnd
  <1> HIDE DEF k
  <1>2. Account(row, p, r, k, u)
    BY <1>1 DEF Account, Waits
  <1> QED
    BY <1>2 DEF k

LEMMA AccountDeal ==
    ASSUME NEW q \in Seq(Deals), NEW e \in Deals, NEW t, e.t = t, e.own, ~e.entry,
           ~Waits(q, t), NEW row, NEW r, Account(row, "open", r, q, t), NEW p, p # "none"
    PROVE  Account(row, p, r + e.gain, Append(q, e), t)
  <1> DEFINE k == Append(q, e)
             n == Len(q) + 1
  <1>1. /\ n \in DOMAIN k /\ k[n] = e
        /\ \A i \in DOMAIN k : k[i].t = t => i = n
    BY QueueEnd DEF Waits
  <1> HIDE DEF k, n
  <1>2. row.realized = r /\ row.risk /\ ~row.final
    BY DEF Account, Waits
  <1>3. Account(row, p, r + e.gain, k, t)
    BY <1>1, <1>2 DEF Account, Waits
  <1> QED
    BY <1>3 DEF k

(* A queue that lost its first deal, or all of them.                        *)
Shrinks(q, k) == k = q \/ (q # << >> /\ k = Tail(q)) \/ k = << >>

LEMMA ShrunkQueue ==
    ASSUME NEW q \in Seq(Deals), NEW k, Shrinks(q, k)
    PROVE  /\ \A i \in DOMAIN k : \E j \in DOMAIN q : k[i] = q[j]
           /\ \A t : (~Waits(q, t) => ~Waits(k, t))
  <1>1. CASE q # << >> /\ k = Tail(q)
    BY <1>1, QueueTail DEF Waits
  <1>2. CASE k = << >>
    <2>1. DOMAIN k = {}
      BY <1>2
    <2> QED
      BY <2>1 DEF Waits
  <1> QED
    BY <1>1, <1>2 DEF Shrinks

LEMMA AccountShrunk ==
    ASSUME NEW q \in Seq(Deals), NEW k, Shrinks(q, k), NEW t,
           k # q => q # << >> /\ ((k = Tail(q) /\ Head(q).t # t) \/ ~Waits(q, t)),
           NEW row, NEW p, NEW r, Account(row, p, r, q, t)
    PROVE  Account(row, p, r, k, t)
  <1>1. CASE k = q
    BY <1>1
  <1>2. CASE q # << >> /\ k = Tail(q) /\ Head(q).t # t
    BY <1>2, AccountNext
  <1>3. CASE ~Waits(q, t)
    <2>1. ~Waits(k, t)
      BY <1>3, ShrunkQueue
    <2> QED
      BY <1>3, <2>1 DEF Account, Waits
  <1> QED
    BY <1>1, <1>2, <1>3 DEF Shrinks

LEMMA FifoKept ==
    ASSUME TypeInv, FifoInv, UNCHANGED << pos, history >>,
           \A t \in Trades : clean'[t] => clean[t], Shrinks(queue, queue')
    PROVE  FifoInv'
  <1>1. LastOf' = LastOf
    BY SameLast
  <1> SUFFICES ASSUME NEW t \in Trades, NEW u \in Trades, Heard(t)', Heard(u)',
                      LastOf[t] < LastOf[u], NEW i \in DOMAIN queue', queue'[i].t = t
               PROVE  \E j \in DOMAIN queue' : i < j /\ queue'[j].t = u
    BY <1>1 DEF FifoInv
  <1>2. Heard(t) /\ Heard(u)
    BY DEF Heard
  <1>3. queue \in Seq(Deals)
    BY DEF TypeInv
  <1>4. CASE queue' = queue
    BY <1>2, <1>4 DEF FifoInv
  <1>5. CASE queue # << >> /\ queue' = Tail(queue)
    <2> DEFINE k == Tail(queue)
    <2>1. /\ i \in DOMAIN k /\ k[i].t = t
          /\ \A l \in DOMAIN k : l \in Nat /\ l > 0 /\ l + 1 \in DOMAIN queue /\ k[l] = queue[l + 1]
          /\ \A l \in DOMAIN queue : l \in Nat /\ (l > 1 =>
                  l - 1 \in DOMAIN k /\ k[l - 1] = queue[l])
      BY <1>3, <1>5, QueueTail
    <2> HIDE DEF k
    <2>2. PICK j \in DOMAIN queue : i + 1 < j /\ queue[j].t = u
      BY <1>2, <2>1 DEF FifoInv
    <2>3. j - 1 \in DOMAIN k /\ i < j - 1 /\ k[j - 1].t = u
      BY <2>1, <2>2
    <2> QED
      BY <1>5, <2>3 DEF k
  <1>6. CASE queue' = << >>
    <2>1. DOMAIN queue' = {}
      BY <1>6
    <2> QED
      BY <2>1
  <1> QED
    BY <1>4, <1>5, <1>6 DEF Shrinks

LEMMA LastKept ==
    ASSUME LastInv, UNCHANGED << pos, history >>
    PROVE  LastInv'
  BY DEF LastInv, Latest, ExitDeals

LEMMA EndKept ==
    ASSUME TypeInv, EndInv, UNCHANGED << pos, result >>, Shrinks(queue, queue'),
           FinalIn(gv', pos), FinalIn(disk', pos)
    PROVE  EndInv'
  <1>1. \A i \in DOMAIN queue' : \E j \in DOMAIN queue : queue'[i] = queue[j]
    BY ShrunkQueue DEF TypeInv
  <1>2. \A i \in DOMAIN queue' : pos[queue'[i].t] # "none"
    BY <1>1 DEF EndInv
  <1> QED
    BY <1>2 DEF EndInv

LEMMA SameInBoth ==
    ASSUME NEW g, NEW h, SameAccounts(g, h), NEW r, NEW last, NEW p
    PROVE  /\ StreakIn(g, r, last) => StreakIn(h, r, last)
           /\ FinalIn(g, p) => FinalIn(h, p)
  <1>1. Finals(h) = Finals(g) /\ h.losses = g.losses
    BY SameFinals DEF SameAccounts, SameAccount
  <1>2. FinalIn(g, p) => FinalIn(h, p)
    BY DEF FinalIn, SameAccounts, SameAccount
  <1> QED
    BY <1>1, <1>2 DEF StreakIn

(* Steps that settle nothing; deals are only missed.                        *)
LEMMA AccountStep ==
    ASSUME IInv, AInv, UNCHANGED << pos, result, history >>,
           SameAccounts(gv, gv'), disk' \in { disk, gv, gv' },
           Shrinks(queue, queue'), clean' \in [Trades -> BOOLEAN],
           \A t \in Trades : clean'[t] =>
               /\ clean[t]
               /\ queue' # queue => /\ queue # << >>
                                    /\ \/ queue' = Tail(queue) /\ Head(queue).t # t
                                       \/ ~Waits(queue, t)
    PROVE  AInv'
  <1> USE DEF AInv
  <1>1. TypeInv /\ queue \in Seq(Deals)
    BY DEF IInv, TypeInv
  <1>2. ASSUME NEW t \in Trades, clean'[t]
        PROVE  Account(gv'.trade[t], pos'[t], result'[t], queue', t)
    <2>1. Account(gv.trade[t], pos[t], result[t], queue, t)
      BY <1>2 DEF CleanInv
    <2>2. Account(gv.trade[t], pos[t], result[t], queue', t)
      BY <1>1, <1>2, <2>1, AccountShrunk
    <2>3. SameAccount(gv.trade[t], gv'.trade[t])
      BY DEF SameAccounts
    <2> QED
      BY <2>2, <2>3, AccountKept
  <1>3. CleanInv'
    BY <1>2 DEF CleanInv
  <1>4. FinalIn(gv', pos) /\ FinalIn(disk', pos)
    BY SameInBoth DEF EndInv
  <1>5. EndInv'
    BY <1>1, <1>4, EndKept
  <1>6. LastInv' /\ FifoInv'
    BY <1>1, LastKept, FifoKept
  <1>7. StreakInv'
    <2> SUFFICES ASSUME AllHeard'
                 PROVE  StreakIn(gv', result', LastOf') /\ StreakIn(disk', result', LastOf')
      BY DEF StreakInv
    <2>1. AllHeard
      BY DEF AllHeard
    <2>2. StreakIn(gv, result, LastOf) /\ StreakIn(disk, result, LastOf)
      BY <2>1 DEF StreakInv
    <2>3. StreakIn(gv', result, LastOf) /\ StreakIn(disk', result, LastOf)
      BY <2>2, SameInBoth
    <2> QED
      BY <2>3, SameLast
  <1> QED
    BY <1>3, <1>5, <1>6, <1>7

LEMMA SameItself ==
    ASSUME NEW g \in Stores
    PROVE  SameAccounts(g, g)
  BY RowAccounts, StoreFields DEF SameAccounts

(* The timer, the checkpoint and a restart settle nothing.                  *)
LEMMA StrategySame ==
    ASSUME IInv
    PROVE  SameAccounts(gv, FinalizeContextHistory(FinalizeStrategyHistory(Attached(gv))))
  <1> DEFINE a == Attached(gv)
             b == FinalizeStrategyHistory(a)
  <1>1. Sound(a, pos, result, noticed) /\ MarkedIn(a)
    BY Attaches, StaysMarked DEF IInv, Updated, MarkedInv, MarkedIn
  <1>2. a \in Stores /\ SameAccounts(gv, a)
    BY <1>1, AttachedSame DEF IInv, Sound
  <1>3. b \in Stores
    BY <1>1, IntoHistory DEF IInv, Kept, Updated, Sound
  <1>4. SameAccounts(a, b)
    BY <1>2, HistorySame
  <1> HIDE DEF a, b
  <1>5. SameAccounts(b, FinalizeContextHistory(b))
    BY <1>3, ContextSame
  <1>6. SameAccounts(gv, FinalizeContextHistory(b))
    BY <1>2, <1>4, <1>5, SameTransitive
  <1> QED
    BY <1>6 DEF a, b

LEMMA AdaptiveTimerSame ==
    ASSUME IInv, NEW moved, AdaptiveTimer(moved)
    PROVE  SameAccounts(gv, gv')
  <1> DEFINE g == EnsureLearningGeneration(gv)
             due == { t \in Trades :
                        /\ Ended(t) /\ Row(t).strategy /\ Row(t).risk
                        /\ Row(t).meta /\ Row(t).adaptFinal = 0 }
  <1>1. g \in Stores /\ SameAccounts(gv, g)
    BY NewGeneration, GenerationSame DEF IInv, Updated, Sound
  <1>2. gv' = [g EXCEPT !.trade = [t \in Trades |->
                  IF t \in due
                  THEN FinalizeAdaptiveLearning(@[t], t, t \in moved) ELSE @[t]]]
    BY DEF AdaptiveTimer
  <1> HIDE DEF g, due
  <1>3. SameAccounts(g, gv')
    BY <1>1, <1>2, AdaptiveSame
  <1> QED
    BY <1>1, <1>3, SameTransitive

LEMMA QuietAccount ==
    ASSUME IInv, AInv,
           \/ StrategyTimer \/ (\E moved : AdaptiveTimer(moved))
           \/ (\E storageFails \in BOOLEAN : ReliabilityTimer(storageFails))
           \/ ReliabilityNotDue
           \/ (\E t \in Trades, fileOpens \in BOOLEAN : AttributeCause(t, fileOpens))
           \/ CausesEnd \/ HistoryFails \/ Checkpoint
           \/ (\E c \in Configs, riskKnown \in BOOLEAN : Start(c, riskKnown))
           \/ UNCHANGED vars
    PROVE  AInv'
  <1>1. gv \in Stores /\ SameAccounts(gv, gv)
    BY SameItself DEF IInv, Sound
  <1>2. /\ UNCHANGED << pos, result, history, queue, clean >>
        /\ disk' \in { disk, gv, gv' }
    BY DEF StrategyTimer, AdaptiveTimer, ReliabilityTimer, ReliabilityNotDue, AttributeCause,
           CausesEnd, HistoryFails, Checkpoint, Start, CollectCauses, vars, broker, ghosts
  <1>3. SameAccounts(gv, gv')
    <2>1. CASE StrategyTimer
      BY <2>1, StrategySame DEF StrategyTimer
    <2>2. CASE \E moved : AdaptiveTimer(moved)
      BY <2>2, AdaptiveTimerSame
    <2>3. CASE \E storageFails \in BOOLEAN : ReliabilityTimer(storageFails)
      BY <2>3, ReconciledSame DEF ReliabilityTimer, IInv
    <2>4. ASSUME NEW t \in Trades, NEW fileOpens \in BOOLEAN, AttributeCause(t, fileOpens)
          PROVE  SameAccounts(gv, gv')
      <3>1. gv' = [gv EXCEPT !.trade = [gv.trade EXCEPT ![t] = Caused(gv.trade[t])]]
        BY <2>4 DEF AttributeCause, Caused
      <3>2. SameAccount(gv.trade[t], Caused(gv.trade[t]))
        BY <1>1, RowAccounts, StoreFields
      <3> QED
        BY <1>1, <3>1, <3>2, MarkedSame
    <2>5. CASE HistoryFails
      BY <1>1, <2>5, AttachedSame, GenerationSame DEF HistoryFails
    <2>6. CASE \E c \in Configs, riskKnown \in BOOLEAN : Start(c, riskKnown)
      BY <1>1, <2>6, RestoredSame DEF Start
    <2>7. CASE ReliabilityNotDue \/ CausesEnd \/ Checkpoint \/ UNCHANGED vars
      BY <1>1, <2>7 DEF ReliabilityNotDue, CausesEnd, Checkpoint, vars
    <2> QED
      BY <2>1, <2>2, <2>3, <2>4, <2>5, <2>6, <2>7
  <1>4. clean' \in [Trades -> BOOLEAN] /\ Shrinks(queue, queue')
    BY <1>2 DEF AInv, CleanInv, Shrinks
  <1> QED
    BY <1>2, <1>3, <1>4, AccountStep

LEMMA MissedAccount ==
    ASSUME IInv, AInv, LoseCallback \/ Stop
    PROVE  AInv'
  <1>1. gv \in Stores /\ SameAccounts(gv, gv) /\ queue \in Seq(Deals)
        /\ clean \in [Trades -> BOOLEAN]
    BY SameItself DEF IInv, Sound, TypeInv, AInv, CleanInv
  <1>2. CASE LoseCallback
    <2>1. /\ UNCHANGED << pos, result, history, gv, disk >> /\ queue # << >>
          /\ queue' = Tail(queue) /\ clean' = [clean EXCEPT ![Head(queue).t] = FALSE]
      BY <1>2 DEF LoseCallback, broker
    <2>2. /\ clean' \in [Trades -> BOOLEAN] /\ Shrinks(queue, queue')
          /\ \A t \in Trades : clean'[t] => clean[t] /\ Head(queue).t # t
      BY <1>1, <2>1 DEF Shrinks
    <2> QED
      BY <1>1, <2>1, <2>2, AccountStep
  <1>3. CASE Stop
    <2>1. /\ UNCHANGED << pos, result, history, gv, disk >> /\ queue' = << >>
          /\ clean' = [t \in Trades |-> clean[t] /\ ~Waits(queue, t)]
      BY <1>3 DEF Stop, Down, broker, Queued, Waits
    <2>2. /\ clean' \in [Trades -> BOOLEAN] /\ Shrinks(queue, queue')
          /\ \A t \in Trades : clean'[t] => clean[t] /\ ~Waits(queue, t)
          /\ queue' # queue => queue # << >>
      BY <1>1, <2>1 DEF Shrinks
    <2> QED
      BY <1>1, <2>1, <2>2, AccountStep
  <1> QED
    BY <1>2, <1>3

(* After a crash the variables are what was flushed of them; a trade whose  *)
(* row was not flushed has missed something.                                *)
LEMMA CrashAccount ==
    ASSUME IInv, AInv, Crash
    PROVE  AInv'
  <1> USE DEF AInv
  <1>1. /\ UNCHANGED << pos, result, history, disk >> /\ queue' = << >> /\ gv' = disk
        /\ clean' = [t \in Trades |->
                        clean[t] /\ ~Waits(queue, t) /\ disk.trade[t] = gv.trade[t]]
    BY DEF Crash, Down, broker, Queued, Waits, Row
  <1>2. TypeInv /\ queue \in Seq(Deals) /\ clean \in [Trades -> BOOLEAN]
        /\ Shrinks(queue, queue')
    BY <1>1 DEF IInv, TypeInv, CleanInv, Shrinks
  <1>3. \A t \in Trades : clean'[t] =>
            clean[t] /\ ~Waits(queue, t) /\ disk.trade[t] = gv.trade[t]
    BY <1>1
  <1>4. ASSUME NEW t \in Trades, clean'[t]
        PROVE  Account(gv'.trade[t], pos'[t], result'[t], queue', t)
    <2>1. Account(gv.trade[t], pos[t], result[t], queue, t)
      BY <1>3, <1>4 DEF CleanInv
    <2>2. ~Waits(queue, t) /\ ~Waits(queue', t)
      BY <1>2, <1>3, <1>4, ShrunkQueue
    <2>3. Account(gv.trade[t], pos[t], result[t], queue', t)
      BY <1>1, <2>1, <2>2 DEF Account, Waits
    <2> QED
      BY <1>1, <1>3, <1>4, <2>3
  <1>5. CleanInv'
    BY <1>1, <1>4 DEF CleanInv
  <1>6. EndInv'
    BY <1>1, <1>2, EndKept DEF EndInv
  <1>7. LastInv' /\ FifoInv'
    BY <1>1, <1>2, <1>3, LastKept, FifoKept
  <1>8. StreakInv'
    <2>1. AllHeard' => AllHeard
      BY <1>1, <1>3 DEF AllHeard
    <2> QED
      BY <1>1, <2>1, SameLast DEF StreakInv
  <1> QED
    BY <1>5, <1>6, <1>7, <1>8

(* The run of losses with one more trade, which ended after all of them.    *)
LEMMA RunGrows ==
    ASSUME NEW S, S \subseteq Trades, NEW t \in Trades \ S, NEW r \in [Trades -> Int], NEW last,
           last[t] \in Nat, \A u \in S : last[u] \in Nat /\ last[u] < last[t]
    PROVE  Cardinality(RunIn(S \cup {t}, r, last)) =
               IF r[t] > 0 THEN 0 ELSE Cardinality(RunIn(S, r, last)) + 1
  <1>1. IsFiniteSet(S)
    <2>1. 1 \in Int /\ TradeCount \in Int
      BY TradesAssumption
    <2>2. IsFiniteSet(Trades)
      BY <2>1, FS_Interval DEF Trades
    <2> QED
      BY <2>2, FS_Subset
  <1>2. CASE r[t] > 0
    <2>1. RunIn(S \cup {t}, r, last) = {}
      BY <1>2 DEF RunIn
    <2> QED
      BY <1>2, <2>1, FS_EmptySet
  <1>3. CASE ~(r[t] > 0)
    <2> DEFINE R == RunIn(S, r, last)
    <2>1. R \subseteq S
      BY DEF RunIn
    <2>2. IsFiniteSet(R) /\ t \notin R
      BY <1>1, <2>1, FS_Subset
    <2>3. RunIn(S \cup {t}, r, last) = R \cup {t}
      BY <1>3 DEF RunIn
    <2> HIDE DEF R
    <2>4. Cardinality(R \cup {t}) = Cardinality(R) + 1
      BY <2>2, FS_AddElement
    <2> QED
      BY <1>3, <2>3, <2>4 DEF R
  <1> QED
    BY <1>2, <1>3

LEMMA WithFields ==
    ASSUME NEW g \in Stores, NEW t \in Trades, NEW new, NEW l
    PROVE  /\ With(g, t, new, l).trade[t] = new /\ With(g, t, new, l).losses = l
           /\ \A u \in Trades \ {t} : With(g, t, new, l).trade[u] = g.trade[u]
  <1> DEFINE f == [g.trade EXCEPT ![t] = new]
  <1>1. f[t] = new /\ \A u \in Trades \ {t} : f[u] = g.trade[u]
    BY StoreFields
  <1>2. With(g, t, new, l) = [trade |-> f, losses |-> l, generation |-> g.generation]
    BY WithIs
  <1> HIDE DEF f
  <1> QED
    BY <1>1, <1>2

(* The second half touches the row of the deal; only the end of a position  *)
(* settles it.                                                              *)
LEMMA SecondHalfDoes ==
    ASSUME NEW g \in Stores, NEW d \in Deals
    PROVE  LET t == d.t
               row == g.trade[t]
               x == row.realized + d.gain
               y == IF row.risk THEN x ELSE 0
               h == HandleRiskAnalytics(g, d)
           IN /\ \A u \in Trades \ {t} : h.trade[u] = g.trade[u]
              /\ PositionIdentifierOpen(t) =>
                     h.losses = g.losses /\ h.trade[t].final = row.final
              /\ d.own /\ d.entry => h.trade[t] = WithRisk(row) /\ h.losses = g.losses
              /\ d.own /\ ~d.entry /\ PositionIdentifierOpen(t) =>
                     h.trade[t] = Realizing(row, x)
              /\ d.own /\ ~d.entry /\ ~PositionIdentifierOpen(t) /\ ~row.final =>
                     /\ h.trade[t] = Counting(row, x, y)
                     /\ h.losses = IF y > 0 THEN 0 ELSE g.losses + 1
  <1> DEFINE t == d.t
             row == g.trade[t]
             x == row.realized + d.gain
             y == IF row.risk THEN x ELSE 0
             l == IF y > 0 THEN 0 ELSE g.losses + 1
             h == HandleRiskAnalytics(g, d)
  <1>1. t \in Trades /\ row \in Rows
    BY StoreFields DEF Deals
  <1>2. \/ ~d.own /\ h = g
        \/ d.own /\ d.entry /\ h = With(g, t, WithRisk(row), g.losses)
        \/ /\ d.own /\ ~d.entry /\ (row.final \/ PositionIdentifierOpen(t))
           /\ h = With(g, t, Realizing(row, x), g.losses)
        \/ /\ d.own /\ ~d.entry /\ ~row.final /\ ~PositionIdentifierOpen(t)
           /\ h = With(g, t, Counting(row, x, y), l)
    BY SecondHalfIs, Zenon
  <1> DEFINE z == x
  <1>3. WithRisk(row).final = row.final /\ Realizing(row, z).final = row.final
    <2> HIDE DEF z, row
    <2> QED
      BY <1>1 DEF WithRisk, Realizing, Rows
  <1> HIDE DEF h, x, y, l, row, t
  <1>4. \A new, m : /\ With(g, t, new, m).trade[t] = new /\ With(g, t, new, m).losses = m
                    /\ \A u \in Trades \ {t} : With(g, t, new, m).trade[u] = g.trade[u]
    BY <1>1, WithFields
  <1>5. /\ \A u \in Trades \ {t} : h.trade[u] = g.trade[u]
        /\ PositionIdentifierOpen(t) => h.losses = g.losses /\ h.trade[t].final = row.final
    BY <1>2, <1>3, <1>4 DEF row
  <1>6. /\ d.own /\ d.entry => h.trade[t] = WithRisk(row) /\ h.losses = g.losses
        /\ d.own /\ ~d.entry /\ PositionIdentifierOpen(t) => h.trade[t] = Realizing(row, x)
        /\ d.own /\ ~d.entry /\ ~PositionIdentifierOpen(t) /\ ~row.final =>
               h.trade[t] = Counting(row, x, y) /\ h.losses = l
    BY <1>2, <1>4
  <1> QED
    BY <1>5, <1>6, Zenon DEF h, x, y, l, row, t

(* A callback: the deal of a trade that missed nothing brings its row up to *)
(* date, and the last one extends the run.                                  *)
LEMMA CallbackAccount ==
    ASSUME IInv, AInv, NEW again \in BOOLEAN, OnTradeTransaction(again)
    PROVE  AInv'
  <1> USE DEF AInv
  <1> DEFINE d == Head(queue)
             t == d.t
             a == HandleReliability(gv, d)
             b == HandleRiskAnalytics(a, d)
             c == HandleRiskAnalytics(b, d)
             row == gv.trade[t]
             x == row.realized + d.gain
  <1>1. /\ TypeInv /\ queue \in Seq(Deals) /\ queue # << >> /\ queue' = Tail(queue)
        /\ UNCHANGED << pos, result, history, disk >>
        /\ gv' = (IF again THEN c ELSE b)
        /\ clean' = [clean EXCEPT ![t] = @ /\ ~again]
        /\ clean \in [Trades -> BOOLEAN]
    BY DEF OnTradeTransaction, broker, IInv, TypeInv, CleanInv
  <1>2. d \in Deals /\ t \in Trades /\ 1 \in DOMAIN queue /\ queue[1] = d
        /\ d.gain \in Int /\ d.own \in BOOLEAN /\ d.entry \in BOOLEAN
    <2>1. d \in Deals /\ 1 \in DOMAIN queue /\ queue[1] = d
      BY <1>1, QueueTail
    <2> QED
      BY <2>1 DEF Deals
  <1>3. Shrinks(queue, queue') /\ clean' \in [Trades -> BOOLEAN]
        /\ (\A u \in Trades : clean'[u] => clean[u]) /\ (clean'[t] => ~again)
    <2> HIDE DEF t
    <2>1. clean' = [clean EXCEPT ![t] = clean[t] /\ ~again]
      BY <1>1
    <2>2. /\ clean' \in [Trades -> BOOLEAN] /\ (\A u \in Trades : clean'[u] => clean[u])
          /\ (clean'[t] => ~again)
      BY <1>1, <1>2, <2>1
    <2> QED
      BY <1>1, <2>2 DEF Shrinks
  <1>4. /\ row \in Rows /\ row.realized \in Int /\ row.risk \in BOOLEAN
        /\ row.final \in BOOLEAN /\ (~row.final => row.counted = Nothing)
        /\ result[t] \in Int /\ gv \in Stores
    <2>1. GoodRow(row, pos[t], result[t], noticed[t]) /\ result[t] \in Int
      BY <1>2, RowOf DEF IInv
    <2>2. row \in Rows /\ (~row.final => row.counted = Nothing)
      BY <2>1 DEF GoodRow, Covered
    <2> QED
      BY <2>1, <2>2 DEF Rows, IInv, Sound
  <1>5. pos[t] \in {"open", "closed"} /\ (PositionIdentifierOpen(t) <=> pos[t] = "open")
    BY <1>1, <1>2 DEF EndInv, TypeInv, PositionIdentifierOpen
  <1> HIDE DEF d, t
  <1>6. a \in Stores /\ SameAccounts(gv, a) /\ (d.own => a = gv)
    <2>1. Updated(gv, a)
      BY <1>2, FirstHalf DEF IInv
    <2>2. SameAccounts(gv, a)
      <3>1. CASE ~Touched(d)
        BY <1>4, <3>1, SameItself DEF HandleReliability
      <3>2. CASE Touched(d)
        <4>1. a = [gv EXCEPT !.trade = [gv.trade EXCEPT ![t] = ByHand(row)]]
          BY <3>2 DEF HandleReliability, Marked, t
        <4>2. SameAccount(row, ByHand(row))
          BY <1>4, RowAccounts
        <4> QED
          BY <1>2, <1>4, <4>1, <4>2, MarkedSame
      <3> QED
        BY <3>1, <3>2
    <2> QED
      BY <2>1, <2>2 DEF Updated, Sound, HandleReliability, Touched
  <1> HIDE DEF a
  <1>7. b \in Stores
    <2>1. Sound(a, pos, result, noticed)
      BY <1>2, FirstHalf DEF IInv, Updated, a
    <2> QED
      BY <1>2, <2>1, SecondHalf DEF IInv, Updated, Sound
  <1>8. /\ \A u \in Trades \ {t} : SameAccount(gv.trade[u], gv'.trade[u])
        /\ PositionIdentifierOpen(t) =>
               gv'.losses = gv.losses /\ gv'.trade[t].final = row.final
    <2>1. /\ \A u \in Trades \ {t} : b.trade[u] = a.trade[u]
          /\ PositionIdentifierOpen(t) =>
                 b.losses = a.losses /\ b.trade[t].final = a.trade[t].final
      BY <1>2, <1>6, SecondHalfDoes DEF t
    <2> HIDE DEF b
    <2>2. /\ \A u \in Trades \ {t} : c.trade[u] = b.trade[u]
          /\ PositionIdentifierOpen(t) =>
                 c.losses = b.losses /\ c.trade[t].final = b.trade[t].final
      BY <1>2, <1>7, SecondHalfDoes DEF t
    <2> HIDE DEF c
    <2> QED
      BY <1>1, <1>2, <1>6, <2>1, <2>2 DEF SameAccounts, SameAccount
  <1>9. FinalIn(gv', pos) /\ FinalIn(disk', pos)
    BY <1>1, <1>5, <1>8 DEF EndInv, FinalIn, SameAccount
  <1>10. ASSUME clean'[t]
         PROVE  /\ Account(gv'.trade[t], pos[t], result[t], queue', t)
                /\ pos[t] = "closed" =>
                       /\ ~row.final /\ gv'.trade[t].final
                       /\ gv'.losses = IF result[t] > 0 THEN 0 ELSE gv.losses + 1
    <2>1. Account(row, pos[t], result[t], queue, t) /\ ~again /\ gv' = b
      BY <1>1, <1>2, <1>3, <1>10 DEF CleanInv
    <2>2. d.t = t
      BY DEF t
    <2>3. /\ d.own /\ x = result[t] /\ Waits(queue, t) /\ ~row.final /\ a = gv
          /\ d.entry => pos[t] = "open" /\ d.gain = 0
          /\ \A i \in DOMAIN queue : queue[i].t = t => i = 1
      <3>1. d.own /\ row.realized + d.gain = result[t] /\ Waits(queue, t)
            /\ (d.entry => pos[t] = "open" /\ d.gain = 0)
            /\ \A i \in DOMAIN queue : queue[i].t = t => i = 1
        BY <1>2, <2>1, <2>2 DEF Account, Waits
      <3> QED
        BY <1>4, <1>6, <2>1, <3>1 DEF Account
    <2>4. ~Waits(queue', t)
      <3>1. \A i \in DOMAIN Tail(queue) : /\ i \in Nat /\ i > 0 /\ i + 1 \in DOMAIN queue
                                          /\ Tail(queue)[i] = queue[i + 1]
        BY <1>1, QueueTail
      <3>2. \A i \in DOMAIN Tail(queue) : Tail(queue)[i].t # t
        <4> SUFFICES ASSUME NEW i \in DOMAIN Tail(queue), Tail(queue)[i].t = t
                     PROVE  FALSE
          OBVIOUS
        <4>1. i \in Nat /\ i > 0 /\ i + 1 = 1
          BY <2>3, <3>1
        <4> QED
          BY <4>1
      <3> QED
        BY <1>1, <3>2 DEF Waits
    <2>5. CASE d.entry
      <3>1. gv'.trade[t] = WithRisk(row) /\ pos[t] = "open" /\ row.realized = result[t]
        BY <1>2, <1>4, <2>1, <2>2, <2>3, <2>5, SecondHalfDoes
      <3>2. /\ WithRisk(row).risk /\ ~WithRisk(row).final
            /\ WithRisk(row).realized = row.realized
        BY <1>4, <2>3 DEF WithRisk, Rows
      <3>3. Account(WithRisk(row), pos[t], result[t], queue', t)
        BY <2>4, <3>1, <3>2 DEF Account, Waits
      <3> QED
        BY <3>1, <3>3
    <2>6. CASE ~d.entry
      <3>1. row.risk
        <4>1. \A i \in DOMAIN queue : queue[i].t = t => ~queue[i].entry
          BY <1>2, <2>3, <2>6
        <4> QED
          BY <1>5, <2>1, <4>1 DEF Account
      <3>2. CASE pos[t] = "open"
        <4> DEFINE new == Realizing(row, x)
        <4>1. gv'.trade[t] = new
          BY <1>2, <1>4, <1>5, <2>1, <2>2, <2>3, <2>6, <3>2, SecondHalfDoes
        <4>2. new.risk /\ ~new.final /\ new.realized = result[t]
          BY <1>4, <2>3, <3>1 DEF Realizing, Rows
        <4> HIDE DEF new
        <4>3. Account(new, pos[t], result[t], queue', t)
          BY <2>4, <3>2, <4>2 DEF Account, Waits
        <4> QED
          BY <3>2, <4>1, <4>3
      <3>3. CASE pos[t] = "closed"
        <4> DEFINE new == Counting(row, x, x)
        <4>1. gv'.trade[t] = new /\ gv'.losses = IF x > 0 THEN 0 ELSE gv.losses + 1
          <5>1. LET y == IF row.risk THEN x ELSE 0
                IN  /\ gv'.trade[t] = Counting(row, x, y)
                    /\ gv'.losses = IF y > 0 THEN 0 ELSE gv.losses + 1
            BY <1>2, <1>4, <1>5, <2>1, <2>2, <2>3, <2>6, <3>3, SecondHalfDoes
          <5> HIDE DEF x
          <5> QED
            BY <3>1, <5>1
        <4>2. new.risk /\ new.final /\ new.realized = result[t] /\ new.counted = Just(result[t])
          <5>1. /\ row \in Rows /\ row.counted = Nothing /\ x = result[t]
                /\ Append(Nothing, x) = Just(x)
            BY <1>4, <2>3, Results
          <5> HIDE DEF x, row
          <5>2. /\ Realizing(row, x).counted = Nothing /\ Realizing(row, x).risk
                /\ Realizing(row, x).realized = x /\ Realizing(row, x) \in Rows
            BY <1>4, <3>1, <5>1 DEF Realizing, Rows
          <5> DEFINE s == Realizing(row, x)
          <5> HIDE DEF s
          <5>3. /\ Counted(s, x).counted = Just(x) /\ Counted(s, x).risk
                /\ Counted(s, x).realized = x /\ Counted(s, x) \in Rows
            <6>1. Just(x) \in Seq(Int) /\ s \in Rows /\ s.counted = Nothing /\ s.risk
                  /\ s.realized = x
              BY <1>4, <5>1, <5>2, Results DEF s
            <6>2. Counted(s, x) = [s EXCEPT !.counted = Just(x)]
              BY <5>1, <6>1 DEF Counted
            <6> QED
              BY <6>1, <6>2 DEF Rows
          <5> DEFINE e == Counted(s, x)
          <5> HIDE DEF e
          <5>4. /\ Ending(e).counted = e.counted /\ Ending(e).risk /\ Ending(e).final
                /\ Ending(e).realized = e.realized
            BY <5>3 DEF Ending, Rows, e
          <5> QED
            BY <5>1, <5>3, <5>4 DEF Counting, e, s
        <4> HIDE DEF new
        <4>3. Account(new, pos[t], result[t], queue', t)
          BY <2>4, <3>3, <4>2 DEF Account, Waits
        <4> QED
          BY <2>3, <4>1, <4>2, <4>3
      <3> QED
        BY <1>5, <3>2, <3>3
    <2> QED
      BY <2>5, <2>6
  <1>11. ASSUME NEW u \in Trades, clean'[u]
         PROVE  Account(gv'.trade[u], pos'[u], result'[u], queue', u)
    <2>1. CASE u = t
      BY <1>1, <1>10, <1>11, <2>1
    <2>2. CASE u # t
      <3>1. Account(gv.trade[u], pos[u], result[u], queue', u)
        <4>1. Head(queue).t # u /\ clean[u]
          BY <1>3, <1>11, <2>2 DEF t, d
        <4>2. Account(gv.trade[u], pos[u], result[u], queue, u)
          BY <4>1 DEF CleanInv
        <4> QED
          BY <1>1, <4>1, <4>2, AccountNext
      <3> QED
        BY <1>1, <1>8, <2>2, <3>1, AccountKept
    <2> QED
      BY <2>1, <2>2
  <1>12. CleanInv'
    BY <1>3, <1>11 DEF CleanInv
  <1>13. EndInv' /\ LastInv' /\ FifoInv'
    BY <1>1, <1>3, <1>9, EndKept, LastKept, FifoKept
  <1>14. StreakInv'
    <2> SUFFICES ASSUME AllHeard'
                 PROVE  StreakIn(gv', result', LastOf') /\ StreakIn(disk', result', LastOf')
      BY DEF StreakInv
    <2>1. AllHeard /\ LastOf' = LastOf
      BY <1>1, <1>3, SameLast DEF AllHeard
    <2>2. StreakIn(gv, result, LastOf) /\ StreakIn(disk, result, LastOf)
      BY <2>1 DEF StreakInv
    <2>3. StreakIn(gv', result, LastOf)
      <3>1. CASE pos[t] = "open"
        <4>1. Finals(gv') = Finals(gv) /\ gv'.losses = gv.losses
          BY <1>5, <1>8, <3>1, SameFinals DEF SameAccount
        <4> QED
          BY <2>2, <4>1 DEF StreakIn
      <3>2. CASE pos[t] = "closed"
        <4> DEFINE S == Finals(gv)
        <4>1. /\ ~row.final /\ gv'.trade[t].final /\ clean[t]
              /\ gv'.losses = IF result[t] > 0 THEN 0 ELSE gv.losses + 1
          BY <1>1, <1>2, <1>3, <1>10, <3>2 DEF AllHeard
        <4>2. Finals(gv') = S \cup {t} /\ t \notin S /\ S \subseteq Trades
          BY <1>2, <1>8, <4>1 DEF Finals, SameAccount
        <4>3. ASSUME NEW u \in S
              PROVE  LastOf[u] \in Nat /\ LastOf[t] \in Nat /\ LastOf[u] < LastOf[t]
          <5>1. u \in Trades /\ u # t /\ pos[u] = "closed" /\ clean[u] /\ ~Waits(queue, u)
            <6>1. u \in Trades /\ u # t /\ gv.trade[u].final
              BY <4>2 DEF Finals
            <6>2. pos[u] = "closed" /\ clean[u]
              BY <2>1, <6>1 DEF EndInv, FinalIn, AllHeard
            <6> QED
              BY <6>1, <6>2 DEF CleanInv, Account
          <5>2. PICK i \in DOMAIN history : Latest(ExitDeals(t), i)
            BY <1>2, <3>2 DEF LastInv
          <5>3. PICK j \in DOMAIN history : Latest(ExitDeals(u), j)
            BY <5>1 DEF LastInv
          <5>4. i \in Nat /\ j \in Nat /\ LastOf[t] = i /\ LastOf[u] = j
            BY <1>1, <1>2, <5>1, <5>2, <5>3, LastIs
          <5>5. i # j
            BY <5>1, <5>2, <5>3 DEF Latest, ExitDeals
          <5>6. ~(LastOf[t] < LastOf[u])
            <6> SUFFICES ASSUME LastOf[t] < LastOf[u]
                         PROVE  FALSE
              OBVIOUS
            <6>1. Heard(t) /\ Heard(u)
              BY <3>2, <4>1, <5>1 DEF Heard
            <6>2. \E k \in DOMAIN queue : queue[k].t = u
              BY <1>2, <5>1, <6>1 DEF FifoInv, t
            <6> QED
              BY <5>1, <6>2 DEF Waits
          <5> QED
            BY <5>4, <5>5, <5>6
        <4>4. Cardinality(RunIn(S \cup {t}, result, LastOf)) =
                  IF result[t] > 0 THEN 0 ELSE Cardinality(RunIn(S, result, LastOf)) + 1
          <5>1. LastOf[t] \in Nat
            <6>1. PICK i \in DOMAIN history : Latest(ExitDeals(t), i)
              BY <1>2, <3>2 DEF LastInv
            <6> QED
              BY <1>1, <1>2, <6>1, LastIs
          <5>2. result \in [Trades -> Int]
            BY <1>1 DEF TypeInv
          <5> HIDE DEF S
          <5> QED
            BY <1>2, <4>2, <4>3, <5>1, <5>2, RunGrows
        <4> QED
          BY <2>2, <4>1, <4>2, <4>4 DEF StreakIn
      <3> QED
        BY <1>5, <3>1, <3>2
    <2> QED
      BY <1>1, <2>1, <2>2, <2>3
  <1> QED
    BY <1>12, <1>13, <1>14

(* A new position: its row is empty or just bound.                          *)
LEMMA OpenAccount ==
    ASSUME IInv, AInv, NEW t \in Trades, NEW plan \in BOOLEAN, NEW answered \in BOOLEAN,
           Open(t, plan, answered)
    PROVE  AInv'
  <1> USE DEF AInv
  <1> DEFINE new == BoundRow(plan)
             e == [t |-> t, entry |-> TRUE, own |-> TRUE, gain |-> 0]
             n == Len(queue) + 1
             f == [gv.trade EXCEPT ![t] = new]
  <1>1. /\ TypeInv /\ queue \in Seq(Deals) /\ pos[t] = "none"
        /\ pos' = [pos EXCEPT ![t] = "open"]
        /\ gv' = (IF answered THEN [gv EXCEPT !.trade = f] ELSE gv)
        /\ disk' = gv' /\ queue' = (IF answered THEN queue ELSE Append(queue, e))
        /\ UNCHANGED << result, history, clean >>
        /\ gv \in Stores /\ result[t] = 0
    BY DEF Open, ghosts, IInv, TypeInv, Sound, EndInv
  <1>2. /\ pos'[t] = "open" /\ \A u \in Trades \ {t} : pos'[u] = pos[u]
        /\ \A u \in Trades : pos'[u] = "closed" <=> pos[u] = "closed"
    BY <1>1 DEF TypeInv
  <1>3. ~Waits(queue, t)
    BY <1>1 DEF EndInv, Waits
  <1>4. new.realized = 0 /\ new.risk /\ ~new.final
    BY DEF BoundRow, NewRow
  <1>5. e \in Deals /\ e.t = t /\ e.entry /\ e.own /\ e.gain = 0
    BY DEF Deals
  <1>6. /\ answered => /\ gv'.trade[t] = new
                       /\ \A u \in Trades \ {t} : gv'.trade[u] = gv.trade[u]
        /\ ~answered => gv' = gv
        /\ gv'.losses = gv.losses
    <2>1. f[t] = new /\ \A u \in Trades \ {t} : f[u] = gv.trade[u]
      BY <1>1, StoreFields
    <2>2. [gv EXCEPT !.trade = f].trade = f /\ [gv EXCEPT !.trade = f].losses = gv.losses
      <3> HIDE DEF f
      <3> QED
        BY <1>1, StoreFields
    <2> HIDE DEF f
    <2> QED
      BY <1>1, <2>1, <2>2
  <1>7. ~gv.trade[t].final /\ ~gv'.trade[t].final
    BY <1>1, <1>4, <1>6 DEF EndInv, FinalIn
  <1> HIDE DEF new, e, f
  <1>8. /\ n \in Nat
        /\ ~answered => /\ n \in DOMAIN queue' /\ queue'[n] = e
                        /\ \A i \in DOMAIN queue : i \in DOMAIN queue' /\ queue'[i] = queue[i]
                        /\ \A i \in DOMAIN queue' : i \in DOMAIN queue \/ i = n
    BY <1>1, <1>5, QueueEnd
  <1> HIDE DEF n
  <1>9. ASSUME NEW u \in Trades, clean[u]
        PROVE  Account(gv'.trade[u], pos'[u], result[u], queue', u)
    <2>1. Account(gv.trade[u], pos[u], result[u], queue, u)
      BY <1>9 DEF CleanInv
    <2>2. CASE answered
      <3>1. CASE u = t
        <4>1. Account(new, "open", 0, queue, t)
          BY <1>3, <1>4 DEF Account, Waits
        <4> QED
          BY <1>1, <1>2, <1>6, <2>2, <3>1, <4>1
      <3>2. CASE u # t
        BY <1>1, <1>2, <1>6, <2>1, <2>2, <3>2
      <3> QED
        BY <3>1, <3>2
    <2>3. CASE ~answered
      <3> DEFINE row == gv.trade[u]
      <3>1. CASE u = t
        <4>1. row.realized = 0 /\ ~row.final
          BY <1>1, <1>3, <1>7, <2>1, <3>1 DEF Account
        <4>2. \A i \in DOMAIN queue' : queue'[i].t = t => i = n
          BY <1>3, <1>8, <2>3 DEF Waits
        <4>3. n \in DOMAIN queue' /\ queue'[n].t = t /\ queue'[n].entry
              /\ queue'[n].own /\ queue'[n].gain = 0
          BY <1>5, <1>8, <2>3
        <4> HIDE DEF row
        <4>4. Account(row, "open", 0, queue', t)
          BY <4>1, <4>2, <4>3 DEF Account, Waits
        <4> QED
          BY <1>1, <1>2, <1>6, <2>3, <3>1, <4>4 DEF row
      <3>2. CASE u # t
        <4>1. Account(row, pos[u], result[u], queue', u)
          BY <1>1, <1>5, <2>1, <2>3, <3>2, AccountElse
        <4> QED
          BY <1>2, <1>6, <2>3, <3>2, <4>1
      <3> QED
        BY <3>1, <3>2
    <2> QED
      BY <2>2, <2>3
  <1>10. CleanInv'
    BY <1>1, <1>9 DEF CleanInv
  <1>11. EndInv'
    <2>1. ASSUME NEW i \in DOMAIN queue
          PROVE  queue[i].t \in Trades
      <3>1. queue[i] \in Deals
        BY <1>1
      <3> QED
        BY <3>1 DEF Deals
    <2>2. ASSUME NEW i \in DOMAIN queue'
          PROVE  pos'[queue'[i].t] # "none"
      <3>1. CASE i \in DOMAIN queue /\ queue'[i] = queue[i]
        BY <1>2, <2>1, <3>1 DEF EndInv
      <3>2. CASE queue'[i] = e
        BY <1>2, <1>5, <3>2
      <3> QED
        BY <1>1, <1>8, <3>1, <3>2
    <2>3. \A u \in Trades : pos'[u] = "none" => result'[u] = 0
      BY <1>1, <1>2 DEF EndInv
    <2>4. FinalIn(gv', pos') /\ FinalIn(disk', pos')
      BY <1>1, <1>2, <1>6, <1>7 DEF EndInv, FinalIn
    <2> QED
      BY <2>2, <2>3, <2>4 DEF EndInv
  <1>12. LastInv'
    BY <1>1, <1>2 DEF LastInv, Latest, ExitDeals
  <1>13. FifoInv'
    <2> SUFFICES ASSUME NEW v \in Trades, NEW u \in Trades, Heard(v)', Heard(u)',
                        LastOf[v] < LastOf[u], NEW i \in DOMAIN queue', queue'[i].t = v
                 PROVE  \E j \in DOMAIN queue' : i < j /\ queue'[j].t = u
      BY <1>1, SameLast DEF FifoInv
    <2>1. Heard(v) /\ Heard(u) /\ v # t
      BY <1>1, <1>2 DEF Heard
    <2>2. i \in DOMAIN queue /\ queue[i].t = v
      BY <1>1, <1>5, <1>8, <2>1
    <2>3. PICK j \in DOMAIN queue : i < j /\ queue[j].t = u
      BY <2>1, <2>2 DEF FifoInv
    <2> QED
      BY <1>1, <1>8, <2>3
  <1>14. StreakInv'
    <2>1. AllHeard' <=> AllHeard
      BY <1>1, <1>2 DEF AllHeard
    <2>2. Finals(gv') = Finals(gv)
      BY <1>6, <1>7 DEF Finals
    <2>3. StreakIn(gv, result, LastOf) => StreakIn(gv', result, LastOf)
      BY <1>6, <2>2 DEF StreakIn
    <2> QED
      BY <1>1, <2>1, <2>3, SameLast DEF StreakInv
  <1> QED
    BY <1>10, <1>11, <1>12, <1>13, <1>14

(* An exit deal: it waits for its callback, and is the last of its trade.   *)
LEMMA ExitAccount ==
    ASSUME IInv, AInv, NEW t \in Trades, NEW own \in BOOLEAN, NEW gain \in Gains,
           NEW left \in 0 .. 1, Exit(t, own, gain, left)
    PROVE  AInv'
  <1> USE DEF AInv
  <1> DEFINE e == [t |-> t, entry |-> FALSE, own |-> own, gain |-> gain]
             s == [t |-> t, own |-> own]
             n == Len(history) + 1
             E == [t : Trades, own : BOOLEAN]
             p == IF left = 0 THEN "closed" ELSE "open"
  <1>1. /\ TypeInv /\ queue \in Seq(Deals) /\ history \in Seq(E) /\ pos[t] = "open"
        /\ pos' = [pos EXCEPT ![t] = p]
        /\ result' = [result EXCEPT ![t] = @ + gain]
        /\ history' = Append(history, s) /\ disk' = disk
        /\ queue' = (IF pc = "down" THEN queue ELSE Append(queue, e))
        /\ clean' = [clean EXCEPT ![t] = @ /\ own /\ pc # "down" /\ ~Waits(queue, t)]
        /\ gv \in Stores /\ clean \in [Trades -> BOOLEAN]
    BY DEF Exit, IInv, TypeInv, Sound, CleanInv, Queued, Waits
  <1>2. /\ pos'[t] = p /\ p # "none" /\ result'[t] = result[t] + gain
        /\ \A u \in Trades \ {t} : pos'[u] = pos[u] /\ result'[u] = result[u]
    BY <1>1 DEF TypeInv
  <1>3. /\ clean' \in [Trades -> BOOLEAN]
        /\ \A u \in Trades : clean'[u] => clean[u]
        /\ clean'[t] => own /\ pc # "down" /\ ~Waits(queue, t)
    <2> DEFINE w == clean[t] /\ own /\ pc # "down" /\ ~Waits(queue, t)
    <2>1. clean' = [clean EXCEPT ![t] = w] /\ w \in BOOLEAN
      BY <1>1
    <2>2. w => clean[t] /\ own /\ pc # "down" /\ ~Waits(queue, t)
      OBVIOUS
    <2> HIDE DEF w
    <2> QED
      BY <1>1, <2>1, <2>2
  <1>4. e \in Deals /\ e.t = t /\ ~e.entry /\ e.own = own /\ e.gain = gain
        /\ s \in E /\ s.t = t
    BY GainsAssumption DEF Deals
  <1>5. SameAccounts(gv, gv')
    <2>1. gv' = gv \/ gv' = [gv EXCEPT !.trade = [gv.trade EXCEPT ![t] = WithPartial(gv.trade[t])]]
      BY DEF Exit, WithPartial
    <2>2. SameAccount(gv.trade[t], WithPartial(gv.trade[t]))
      BY <1>1, RowAccounts, StoreFields
    <2>3. SameAccounts(gv, [gv EXCEPT !.trade = [gv.trade EXCEPT ![t] = WithPartial(gv.trade[t])]])
      BY <1>1, <2>2, MarkedSame
    <2> QED
      BY <1>1, <2>1, <2>3, SameItself
  <1> HIDE DEF e, s, p, E
  <1>6. /\ n \in DOMAIN history' /\ history'[n] = s /\ n \in Nat
        /\ \A i \in DOMAIN history : /\ i \in DOMAIN history' /\ history'[i] = history[i]
                                     /\ i < n /\ i \in Nat
        /\ \A i \in DOMAIN history' : i \in DOMAIN history \/ i = n
    BY <1>1, <1>4, QueueEnd
  <1> HIDE DEF n
  <1>7. ASSUME NEW u \in Trades, clean'[u]
        PROVE  Account(gv'.trade[u], pos'[u], result'[u], queue', u)
    <2>1. Account(gv.trade[u], pos[u], result[u], queue, u)
      BY <1>3, <1>7 DEF CleanInv
    <2>2. Account(gv.trade[u], pos'[u], result'[u], queue', u)
      <3>1. CASE u = t
        <4>1. /\ e.own /\ pc # "down" /\ ~Waits(queue, t)
              /\ Account(gv.trade[t], "open", result[t], queue, t)
          BY <1>1, <1>3, <1>4, <1>7, <2>1, <3>1
        <4>2. queue' = Append(queue, e)
          BY <1>1, <4>1
        <4>3. Account(gv.trade[t], p, result[t] + e.gain, Append(queue, e), t)
          BY <1>1, <1>2, <1>4, <4>1, AccountDeal
        <4> QED
          BY <1>2, <1>4, <3>1, <4>2, <4>3
      <3>2. CASE u # t
        BY <1>1, <1>2, <1>4, <2>1, <3>2, AccountElse
      <3> QED
        BY <3>1, <3>2
    <2>3. SameAccount(gv.trade[u], gv'.trade[u])
      BY <1>5 DEF SameAccounts
    <2> QED
      BY <2>2, <2>3, AccountKept
  <1>8. CleanInv'
    BY <1>3, <1>7 DEF CleanInv
  <1>9. EndInv'
    <2>1. ASSUME NEW i \in DOMAIN queue'
          PROVE  pos'[queue'[i].t] # "none"
      <3>1. CASE queue'[i] = e
        BY <1>2, <1>4, <3>1
      <3>2. CASE i \in DOMAIN queue /\ queue'[i] = queue[i]
        <4>1. queue[i] \in Deals /\ pos[queue[i].t] # "none"
          BY <1>1, <3>2 DEF EndInv
        <4>2. queue[i].t \in Trades
          BY <4>1 DEF Deals
        <4> QED
          BY <1>2, <3>2, <4>1, <4>2
      <3>3. queue' = Append(queue, e) =>
                queue'[i] = e \/ (i \in DOMAIN queue /\ queue'[i] = queue[i])
        BY <1>1, <1>4, QueueEnd
      <3> QED
        BY <1>1, <3>1, <3>2, <3>3
    <2>2. \A u \in Trades : pos'[u] = "none" => result'[u] = 0
      BY <1>2 DEF EndInv
    <2>3. FinalIn(gv', pos) /\ FinalIn(disk', pos)
      BY <1>1, <1>5, SameInBoth DEF EndInv
    <2>4. FinalIn(gv', pos') /\ FinalIn(disk', pos')
      BY <1>1, <1>2, <2>3 DEF FinalIn
    <2> QED
      BY <2>1, <2>2, <2>4 DEF EndInv
  <1>10. /\ \A u \in Trades \ {t} : ExitDeals(u)' = ExitDeals(u)
         /\ Latest(ExitDeals(t)', n)
    <2>1. ASSUME NEW u \in Trades \ {t}
          PROVE  ExitDeals(u)' = ExitDeals(u)
      BY <1>4, <1>6 DEF ExitDeals
    <2>2. Latest(ExitDeals(t)', n)
      BY <1>4, <1>6 DEF ExitDeals, Latest
    <2> QED
      BY <2>1, <2>2
  <1>11. /\ \A u \in Trades \ {t} : LastOf'[u] = LastOf[u]
         /\ LastOf'[t] = n
    <2>1. /\ \A u \in Trades : LastOf[u] = Greatest(ExitDeals(u))
          /\ \A u \in Trades : LastOf'[u] = Greatest(ExitDeals(u)')
      BY DEF LastOf, LastExit, Greatest
    <2>2. ExitDeals(t)' \subseteq Nat
      BY <1>6 DEF ExitDeals
    <2> QED
      BY <1>6, <1>10, <2>1, <2>2, GreatestIs
  <1>12. LastInv'
    <2> SUFFICES ASSUME NEW u \in Trades, pos'[u] = "closed"
                 PROVE  \E i \in DOMAIN history' : Latest(ExitDeals(u)', i)
      BY DEF LastInv
    <2>1. CASE u = t
      BY <1>6, <1>10, <2>1
    <2>2. CASE u # t
      <3>1. PICK i \in DOMAIN history : Latest(ExitDeals(u), i)
        BY <1>2, <2>2 DEF LastInv
      <3> QED
        BY <1>6, <1>10, <2>2, <3>1
    <2> QED
      BY <2>1, <2>2
  <1>13. \A u \in Trades \ {t} : pos[u] = "closed" => LastOf[u] \in Nat /\ LastOf[u] < n
    <2> SUFFICES ASSUME NEW u \in Trades \ {t}, pos[u] = "closed"
                 PROVE  LastOf[u] \in Nat /\ LastOf[u] < n
      OBVIOUS
    <2>1. PICK i \in DOMAIN history : Latest(ExitDeals(u), i)
      BY DEF LastInv
    <2> QED
      BY <1>1, <1>6, <2>1, LastIs
  <1>14. FifoInv'
    <2> SUFFICES ASSUME NEW v \in Trades, NEW u \in Trades, Heard(v)', Heard(u)',
                        LastOf'[v] < LastOf'[u], NEW i \in DOMAIN queue', queue'[i].t = v
                 PROVE  \E j \in DOMAIN queue' : i < j /\ queue'[j].t = u
      BY DEF FifoInv
    <2>1. v # t
      <3> SUFFICES ASSUME v = t
                   PROVE  FALSE
        OBVIOUS
      <3>1. u # t /\ LastOf[u] \in Nat /\ LastOf[u] < n /\ n < LastOf[u]
        <4>1. u # t
          BY <1>6, <1>11
        <4> QED
          BY <1>2, <1>11, <1>13, <4>1 DEF Heard
      <3> QED
        BY <1>6, <3>1
    <2>2. Heard(v) /\ LastOf'[v] = LastOf[v]
      BY <1>2, <1>3, <1>11, <2>1 DEF Heard
    <2>3. CASE u = t
      <3> DEFINE m == Len(queue) + 1
      <3>1. queue' = Append(queue, e)
        BY <1>1, <1>3, <2>3 DEF Heard
      <3>2. m \in DOMAIN queue' /\ queue'[m] = e /\ (i < m \/ i = m)
        BY <1>1, <1>4, <3>1, QueueEnd
      <3> HIDE DEF m
      <3>3. i # m
        BY <1>4, <2>1, <3>2
      <3> QED
        BY <1>4, <2>3, <3>2, <3>3
    <2>4. CASE u # t
      <3>1. Heard(u) /\ LastOf[v] < LastOf[u]
        BY <1>2, <1>3, <1>11, <2>2, <2>4 DEF Heard
      <3>2. queue' = Append(queue, e) =>
                /\ i \in DOMAIN queue \/ queue'[i] = e
                /\ \A j \in DOMAIN queue : j \in DOMAIN queue' /\ queue'[j] = queue[j]
        BY <1>1, <1>4, QueueEnd
      <3>3. i \in DOMAIN queue /\ queue[i].t = v
        BY <1>1, <1>4, <2>1, <3>2
      <3>4. PICK j \in DOMAIN queue : i < j /\ queue[j].t = u
        BY <2>2, <3>1, <3>3 DEF FifoInv
      <3> QED
        BY <1>1, <3>2, <3>4
    <2> QED
      BY <2>3, <2>4
  <1>15. StreakInv'
    <2> SUFFICES ASSUME AllHeard'
                 PROVE  StreakIn(gv', result', LastOf') /\ StreakIn(disk', result', LastOf')
      BY DEF StreakInv
    <2>1. AllHeard
      BY <1>1, <1>2, <1>3 DEF AllHeard
    <2>2. StreakIn(gv', result, LastOf) /\ StreakIn(disk', result, LastOf)
      BY <1>1, <1>5, <2>1, SameInBoth DEF StreakInv
    <2>3. FinalIn(gv', pos) /\ FinalIn(disk', pos)
      BY <1>1, <1>5, SameInBoth DEF EndInv
    <2>4. ASSUME NEW g, FinalIn(g, pos), StreakIn(g, result, LastOf)
          PROVE  StreakIn(g, result', LastOf')
      <3>1. \A u \in Finals(g) : result'[u] = result[u] /\ LastOf'[u] = LastOf[u]
        BY <1>1, <1>2, <1>11, <2>4 DEF FinalIn, Finals
      <3>2. RunIn(Finals(g), result', LastOf') = RunIn(Finals(g), result, LastOf)
        BY <3>1, SameRun
      <3> QED
        BY <2>4, <3>2 DEF StreakIn
    <2> QED
      BY <2>2, <2>3, <2>4
  <1> QED
    BY <1>8, <1>9, <1>12, <1>14, <1>15

LEMMA AccountStart ==
    ASSUME Init
    PROVE  AInv
  <1>1. /\ pos = [t \in Trades |-> "none"] /\ result = [t \in Trades |-> 0]
        /\ clean = [t \in Trades |-> TRUE] /\ queue = << >> /\ disk = gv
    BY DEF Init
  <1>2. gv.losses = 0 /\ \A t \in Trades : gv.trade[t] = NewRow
    BY DEF Init
  <1>3. NewRow.realized = 0 /\ ~NewRow.final
    BY DEF NewRow
  <1>4. DOMAIN queue = {} /\ Finals(gv) = {}
    BY <1>1, <1>2, <1>3 DEF Finals
  <1>5. CleanInv
    BY <1>1, <1>2, <1>3, <1>4 DEF CleanInv, Account, Waits
  <1>6. EndInv /\ LastInv /\ FifoInv
    BY <1>1, <1>2, <1>3, <1>4 DEF EndInv, LastInv, FifoInv, FinalIn, Heard
  <1>7. StreakInv
    <2>1. RunIn({}, result, LastOf) = {}
      BY DEF RunIn
    <2> QED
      BY <1>1, <1>2, <1>4, <2>1, FS_EmptySet DEF StreakInv, StreakIn
  <1> QED
    BY <1>5, <1>6, <1>7 DEF AInv

LEMMA AccountInductive == IInv /\ AInv /\ [Next]_vars => AInv'
  <1> SUFFICES ASSUME IInv, AInv, [Next]_vars
               PROVE  AInv'
    OBVIOUS
  <1>1. CASE Timer
    BY <1>1, QuietAccount DEF Timer
  <1>2. ASSUME NEW t \in Trades, NEW plan \in BOOLEAN, NEW answered \in BOOLEAN,
               Open(t, plan, answered)
        PROVE  AInv'
    BY <1>2, OpenAccount
  <1>3. ASSUME NEW t \in Trades, NEW own \in BOOLEAN, NEW gain \in Gains,
               NEW left \in 0 .. 1, Exit(t, own, gain, left)
        PROVE  AInv'
    BY <1>3, ExitAccount
  <1>4. ASSUME NEW again \in BOOLEAN, OnTradeTransaction(again)
        PROVE  AInv'
    BY <1>4, CallbackAccount
  <1>5. CASE LoseCallback \/ Stop
    BY <1>5, MissedAccount
  <1>6. CASE Crash
    BY <1>6, CrashAccount
  <1>7. CASE \/ (\E moved \in SUBSET Trades \ {{}} : AdaptiveTimer(moved))
             \/ ReliabilityTimer(TRUE) \/ (\E t \in Trades : AttributeCause(t, FALSE))
             \/ HistoryFails \/ Checkpoint
             \/ (\E c \in Configs, riskKnown \in BOOLEAN : Start(c, riskKnown))
             \/ UNCHANGED vars
    BY <1>7, QuietAccount
  <1> QED
    BY <1>1, <1>2, <1>3, <1>4, <1>5, <1>6, <1>7 DEF Next

(* When every ended trade is settled, the trades counted are those that     *)
(* ended, and their run is the losing run.                                  *)
LEMMA AccountImplied ==
    ASSUME IInv, AInv
    PROVE  AccountingIsTrue
  <1>1. ASSUME NEW t \in Trades, Settled(t)
        PROVE  gv.trade[t].final /\ gv.trade[t].counted = Just(result[t])
    <2>1. Account(gv.trade[t], pos[t], result[t], queue, t)
          /\ pos[t] = "closed" /\ ~Waits(queue, t)
      BY <1>1 DEF Settled, AInv, CleanInv, Queued, Waits
    <2> QED
      BY <2>1 DEF Account
  <1>2. ASSUME \A t \in Closed : Settled(t)
        PROVE  gv.losses = Cardinality(LosingRun)
    <2>1. AllHeard
      BY <1>2 DEF AllHeard, Closed, Settled
    <2>2. Finals(gv) = Closed
      BY <1>1, <1>2 DEF Finals, Closed, AInv, EndInv, FinalIn
    <2>3. LosingRun = RunIn(Closed, result, LastOf)
      <3>1. Closed \subseteq Trades /\ \A t \in Trades : LastOf[t] = LastExit(t)
        BY DEF Closed, LastOf
      <3> QED
        BY <3>1 DEF LosingRun, RunIn
    <2> QED
      BY <2>1, <2>2, <2>3 DEF AInv, StreakInv, StreakIn
  <1> QED
    BY <1>1, <1>2 DEF AccountingIsTrue, Row, Just

(* A trade whose deals were all heard of in time is counted with the result *)
(* the broker's history gives it, and when that is so of all ended trades   *)
(* the loss streak is the length of the last run of losing trades           *)
(* (2694-2708, 2623), also over crashes, lost and repeated callbacks of     *)
(* other trades and whatever the timer does between two deals.              *)
THEOREM AccountIsTrue == Spec => []AccountingIsTrue
  <1>1. Init => IInv /\ AInv
    BY Start0, AccountStart
  <1>2. IInv /\ AInv /\ [Next]_vars => IInv' /\ AInv'
    BY Inductive, AccountInductive
  <1>3. IInv /\ AInv => AccountingIsTrue
    BY AccountImplied
  <1> QED
    BY <1>1, <1>2, <1>3, PTL DEF Spec

==============================================================================
