-------------------------- MODULE ExecutionIntent --------------------------
(***************************************************************************)
(* The exactly-once execution path of GPT_EA (Part 42 of GPT_EA.mq5 and the *)
(* tail of ApprovedPlaceTrade): the per-symbol trade intent kept in         *)
(* terminal global variables, its ledger rows, the market order handed to   *)
(* the broker, and the reconciliation pass that settles an intent whose     *)
(* broker answer was lost.                                                  *)
(*                                                                          *)
(* The EA is one event loop, so at most one entry is being submitted at a   *)
(* time; what interleaves with it is the clock, the broker, the terminal's  *)
(* copy of the broker's state, the connection, and crashes.                 *)
(***************************************************************************)
EXTENDS Integers, FiniteSets

CONSTANTS
  Symbols,         \* instruments the EA trades
  NoSymbol,        \* no instrument
  MaxNonce,        \* BOUND: intents created in a behaviour
  MaxTime,         \* BOUND: last clock tick
  Window,          \* ambiguity window, InpIntentAmbiguityResolveSeconds
  GeoWindow,       \* how long after INTENT_TIME a fill still fits, >= Window
  Slack,           \* the 15 s a fill may precede INTENT_TIME
  HandlerDelay,    \* longest wait between the SENT stamp and the order call
  CallDelay,       \* longest blocking time of CTrade.Buy/Sell
  BrokerLatency,   \* longest time from the order call to its visible outcome
  MaxPositions,    \* InpMaxPositionsPerSymbol
  CommentKept,     \* the broker preserves the order comment (the nonce)
  HistoryMayMiss,  \* HistorySelect may fail or no longer cover the deal
  ChaosAllowed     \* InpChaos* fault injection (refused on REAL accounts)

ASSUME SizesAssumption ==
  /\ NoSymbol \notin Symbols
  /\ MaxNonce \in Nat /\ MaxTime \in Nat \ {0} /\ MaxPositions \in Nat
  /\ Window \in Nat /\ GeoWindow \in Nat /\ Slack \in Nat
  /\ HandlerDelay \in Nat /\ CallDelay \in Nat /\ BrokerLatency \in Nat
  /\ CommentKept \in BOOLEAN /\ HistoryMayMiss \in BOOLEAN
  /\ ChaosAllowed \in BOOLEAN

\* What the code takes for granted of the broker: an order's outcome is visible
\* before the ambiguity window closes, and a broker that drops comments answers
\* the blocking call within the slack of the time match.
ASSUME LatencyAssumption ==
  /\ HandlerDelay + BrokerLatency < Window
  /\ GeoWindow >= Window
  /\ CommentKept \/ CallDelay <= Slack

\* With the comment gone, a partly filled position may be settled as CLOSED while
\* it is open; InpMaxPositionsPerSymbol = 1, the default, is then what keeps the
\* symbol from a second one.
ASSUME PositionsAssumption == CommentKept \/ MaxPositions <= 1

Nonces == 1..MaxNonce
Times  == 0..MaxTime

IntentStates == {"NONE", "PREPARED", "SENT", "FILLED", "FAILED", "CLOSED", "UNCERTAIN"}
Unresolved   == {"PREPARED", "SENT", "UNCERTAIN"}
Intent       == [st: IntentStates, n: 0..MaxNonce, tm: Times]
NoIntent     == [st |-> "NONE", n |-> 0, tm |-> 0]

\* An order at the broker: "open" is a position of the intent's volume, "part" one
\* of another volume (filled in part, or reduced since), "closed" leaves the
\* deals of the position, "cancelled" a history order without a deal, "refused"
\* no record.
OrderStates == {"none", "inflight", "open", "part", "closed", "cancelled", "refused"}
Listed      == {"open", "part"}
Live        == {"inflight"} \cup Listed

Writing == {"preparing", "prepared", "marking", "sent"}

VARIABLES
  gv,         \* terminal global variables: the current intent per symbol
  disk,       \* the same as of the last GlobalVariablesFlush
  ledger,     \* ledger rows <<state, nonce>>, forced to disk by FileFlush
  joined,     \* journal rows joining an intent's nonce to an order's position
  broker,     \* order state per nonce at the broker
  seen,       \* order state per nonce in the terminal's lists and history
  meta,       \* of each order: symbol, call time, fill time, and whether a single
              \* entry deal carries the intent's volume
  pc, cur,    \* where the submission is, and its symbol and nonce
  up,         \* the EA is attached and initialised
  connected,  \* TERMINAL_CONNECTED
  seq,        \* nonces handed out
  now         \* TimeTradeServer

vars == <<gv, disk, ledger, joined, broker, seen, meta, pc, cur, up, connected, seq, now>>

NoMeta   == [sym |-> NoSymbol, at |-> 0, fill |-> 0, deal |-> FALSE]
Meta     == [sym: Symbols \cup {NoSymbol}, at: Times, fill: Times, deal: BOOLEAN]
Idle     == [sym |-> NoSymbol, n |-> 0]

OrdersOf(s)    == {n \in Nonces : meta[n].sym = s}
PositionsOf(s) == {n \in OrdersOf(s) : seen[n] \in Listed}
------------------------------------------------------------------------------
Init ==
  /\ gv = [s \in Symbols |-> NoIntent]
  /\ disk = gv
  /\ ledger = {} /\ joined = {}
  /\ broker = [n \in Nonces |-> "none"]
  /\ seen = broker
  /\ meta = [n \in Nonces |-> NoMeta]
  /\ pc = "idle" /\ cur = Idle
  /\ up = TRUE /\ connected = TRUE
  /\ seq = 0 /\ now = 1

------------------------------------------------------------------------------
(* Submitting an approved trade.                                            *)

\* Faulty variant: an UNCERTAIN intent does not block.
BlocksUnlessUncertain(s) ==
  \/ gv[s].st \in {"PREPARED", "SENT"}
  \/ gv[s].st = "FILLED" /\ PositionsOf(s) # {}

\* The exactly-once gate refuses a new intent for the symbol.
IntentStateBlocks(s) ==
  \/ gv[s].st \in Unresolved
  \/ gv[s].st = "FILLED" /\ PositionsOf(s) # {}

\* CooldownActive holds a symbol back for InpCooldownM15Candles after an exit,
\* far longer than the 15 s by which a fill may precede its intent; an order that
\* was cancelled is followed by another scan of the symbol and another prompt.
Cooled(s) == \A n \in OrdersOf(s) : meta[n].fill + Slack < now

\* BOUND: an intent is prepared early enough to be settled before MaxTime.
Horizon == now + 2 * HandlerDelay + CallDelay + Window <= MaxTime

\* Every deterministic gate has passed; the gates on strategy, news, spread,
\* risk and storage only decide whether the step is taken at all.
PrepareIntent(s) ==
  /\ up /\ pc = "idle"
  /\ Cardinality(PositionsOf(s)) < MaxPositions
  /\ Cooled(s)
  /\ connected
  /\ ~IntentStateBlocks(s)
  /\ seq < MaxNonce
  /\ gv' = [gv EXCEPT ![s] = [st |-> "PREPARED", n |-> seq + 1, tm |-> now]]
  /\ seq' = seq + 1
  /\ pc' = "preparing" /\ cur' = [sym |-> s, n |-> seq + 1]
  /\ Horizon
  /\ UNCHANGED <<disk, ledger, joined, broker, seen, meta, up, connected, now>>

\* Faulty variant: the variables are not flushed.
PersistUnflushed(st, row, next) ==
  /\ gv' = [gv EXCEPT ![cur.sym].st = st]
  /\ disk' = disk
  /\ ledger' = ledger \cup row
  /\ pc' = next
  /\ cur' = IF next = "idle" THEN Idle ELSE cur

\* Write the intent st to the global variables, append its ledger row and
\* flush both; the caller goes on at pc next.
Persist(st, row, next) ==
  /\ gv' = [gv EXCEPT ![cur.sym].st = st]
  /\ disk' = gv'
  /\ ledger' = ledger \cup row
  /\ pc' = next
  /\ cur' = IF next = "idle" THEN Idle ELSE cur

Row(st) == {<<st, cur.n>>}

\* PREPARED reaches the disk, or storage fails and the intent is withdrawn.
PersistPrepared ==
  /\ up /\ pc = "preparing"
  /\ \/ Persist("PREPARED", Row("PREPARED"), "prepared")
     \/ Persist("NONE", {}, "idle")
  /\ UNCHANGED <<joined, broker, seen, meta, up, connected, seq, now>>

MarkSent ==
  /\ up /\ pc = "prepared"
  /\ gv' = [gv EXCEPT ![cur.sym].st = "SENT", ![cur.sym].tm = now]
  /\ pc' = "marking"
  /\ UNCHANGED <<disk, ledger, joined, cur, broker, seen, meta, up, connected, seq, now>>

\* Faulty variant: a lost SENT row does not stop the order call.
PersistSentUnchecked ==
  /\ up /\ pc = "marking"
  /\ Persist("SENT", Row("SENT"), "sent") \/ Persist("SENT", {}, "sent")
  /\ UNCHANGED <<joined, broker, seen, meta, up, connected, seq, now>>

\* SENT reaches the disk, or storage fails and the order call is prohibited.
PersistSent ==
  /\ up /\ pc = "marking"
  /\ \/ Persist("SENT", Row("SENT"), "sent")
     \/ Persist("UNCERTAIN", {}, "idle")
  /\ UNCHANGED <<joined, broker, seen, meta, up, connected, seq, now>>

\* MarkTradeIntentUncertain: the row may be lost, the state may not.
SetUncertain ==
  /\ gv' = [gv EXCEPT ![cur.sym].st = "UNCERTAIN", ![cur.sym].tm = now]
  /\ disk' = gv'
  /\ \/ ledger' = ledger \cup Row("UNCERTAIN")
     \/ ledger' = ledger

\* Fault injection between the durable SENT and the network call.
ChaosBeforeSend ==
  /\ ChaosAllowed /\ up /\ pc = "sent"
  /\ SetUncertain
  /\ pc' = "idle" /\ cur' = Idle
  /\ UNCHANGED <<joined, broker, seen, meta, up, connected, seq, now>>

\* CTrade.Buy/Sell hands the order to the terminal.
CallBroker ==
  /\ up /\ pc = "sent"
  /\ broker' = [broker EXCEPT ![cur.n] = "inflight"]
  /\ meta' = [meta EXCEPT ![cur.n] = [NoMeta EXCEPT !.sym = cur.sym, !.at = now, !.fill = now]]
  /\ pc' = "calling"
  /\ UNCHANGED <<gv, disk, ledger, joined, cur, seen, up, connected, seq, now>>

\* The call returns failure: the order may still be alive at the broker.
CallFails ==
  /\ up /\ pc = "calling"
  /\ SetUncertain
  /\ pc' = "idle" /\ cur' = Idle
  /\ UNCHANGED <<joined, broker, seen, meta, up, connected, seq, now>>

\* The position the handler binds: the one carrying the nonce, else the newest
\* one of the symbol.
BindTarget(s, n) ==
  IF CommentKept /\ n \in PositionsOf(s) THEN {n}
  ELSE {p \in PositionsOf(s) : \A q \in PositionsOf(s) : meta[q].fill <= meta[p].fill}

\* The call succeeded and a position is visible: BindTradeIntentToPosition.
CallBinds ==
  /\ up /\ pc = "calling"
  /\ broker[cur.n] # "refused"
  /\ \E p \in BindTarget(cur.sym, cur.n) : joined' = joined \cup {<<cur.n, p>>}
  /\ gv' = [gv EXCEPT ![cur.sym].st = "FILLED", ![cur.sym].tm = now]
  /\ disk' = gv'
  /\ \/ ledger' = ledger \cup Row("FILLED")
     \/ ledger' = ledger
  /\ pc' = "idle" /\ cur' = Idle
  /\ UNCHANGED <<broker, seen, meta, up, connected, seq, now>>

\* The call succeeded and no position is visible yet, or fault injection
\* skips the binding.
CallUnbound ==
  /\ up /\ pc = "calling"
  /\ broker[cur.n] # "refused"
  /\ BindTarget(cur.sym, cur.n) = {} \/ ChaosAllowed
  /\ SetUncertain
  /\ pc' = "idle" /\ cur' = Idle
  /\ UNCHANGED <<joined, broker, seen, meta, up, connected, seq, now>>

------------------------------------------------------------------------------
(* Reconciliation.                                                          *)

NonceMatches(s, n) == CommentKept /\ n = gv[s].n
\* Faulty variant: fills from before the intent fit as well.
TimeFitsLoosely(s, t) == t <= gv[s].tm + GeoWindow

TimeFits(s, t)     == gv[s].tm <= t + Slack /\ t <= gv[s].tm + GeoWindow

\* IntentGeometryMatches...: the side is always the intent's own, the volume is
\* that of the position as it is now, of one entry deal, or of the order as it
\* was sent.
FitsPosition(s, n) == seen[n] = "open" /\ TimeFits(s, meta[n].fill)
FitsDeal(s, n)     == meta[n].deal /\ TimeFits(s, meta[n].fill)
FitsOrder(s, n)    == TimeFits(s, meta[n].at)

\* PositionOrHistoryMatchesIntent, in the order it searches.
PositionHits(s) ==
  LET byNonce == {n \in PositionsOf(s) : NonceMatches(s, n)}
  IN  IF byNonce # {} THEN byNonce
      ELSE {n \in PositionsOf(s) : FitsPosition(s, n)}
LiveOrderHits(s) == {n \in OrdersOf(s) : seen[n] = "inflight" /\ NonceMatches(s, n)}
DealHits(s) ==
  {n \in OrdersOf(s) : /\ seen[n] \in Listed \cup {"closed"}
                       /\ NonceMatches(s, n) \/ FitsDeal(s, n)}
OrderHits(s) ==
  {n \in OrdersOf(s) : /\ seen[n] \in Listed \cup {"closed", "cancelled"}
                       /\ NonceMatches(s, n) \/ FitsOrder(s, n)}

Tracked(s) == gv[s].st \in Unresolved \cup {"FILLED"}
\* Faulty variants: the window counts while disconnected; PREPARED never ends.
ExpiredOffline(s) == gv[s].st \in Unresolved /\ gv[s].tm > 0 /\ now - gv[s].tm >= Window
ExpiredOnceSent(s) ==
  /\ gv[s].st \in Unresolved \ {"PREPARED"}
  /\ gv[s].tm > 0 /\ now - gv[s].tm >= Window
  /\ connected

Expired(s) == /\ gv[s].st \in Unresolved
              /\ gv[s].tm > 0 /\ now - gv[s].tm >= Window
              /\ connected

\* The open positions the evidence leads to; hist says whether the history query
\* answers.
OpenHits(s, hist) ==
  IF PositionHits(s) # {} THEN PositionHits(s)
  ELSE IF hist /\ LiveOrderHits(s) = {} THEN DealHits(s) \cap PositionsOf(s) ELSE {}

Found(s, hist) ==
  \/ PositionHits(s) # {}
  \/ LiveOrderHits(s) # {}
  \/ hist /\ DealHits(s) \cup OrderHits(s) # {}

\* Faulty variant: any evidence from the history means that the trade is over.
VerdictHistoryIsOver(s, hist) ==
  IF ~Tracked(s) THEN gv[s].st
  ELSE IF Found(s, hist)
       THEN IF PositionHits(s) # {} THEN "FILLED"
            ELSE IF LiveOrderHits(s) # {} THEN gv[s].st ELSE "CLOSED"
       ELSE IF Expired(s) THEN "FAILED" ELSE gv[s].st

\* ReconcileIntentForSymbol.
Verdict(s, hist) ==
  IF ~Tracked(s) THEN gv[s].st
  ELSE IF Found(s, hist)
       THEN IF OpenHits(s, hist) # {} THEN "FILLED"
            ELSE IF LiveOrderHits(s) # {} THEN gv[s].st ELSE "CLOSED"
       ELSE IF Expired(s) THEN "FAILED" ELSE gv[s].st

Answers == IF HistoryMayMiss THEN BOOLEAN ELSE {TRUE}

\* ReconcileBrokerAgainstEA over all symbols. Every settled intent is flushed.
Reconcile ==
  \E hist \in Answers :
    /\ gv' = [s \in Symbols |-> [gv[s] EXCEPT !.st = Verdict(s, hist)]]
    /\ joined' = joined \cup
         UNION {{<<gv[s].n, p>> : p \in OpenHits(s, hist)} : s \in {t \in Symbols : Tracked(t)}}
    /\ disk' = IF \E s \in Symbols : Tracked(s) /\ (Found(s, hist) \/ Expired(s))
               THEN gv' ELSE disk

ReconcileTimer ==
  /\ up /\ pc = "idle"
  /\ Reconcile
  /\ UNCHANGED <<ledger, pc, cur, broker, seen, meta, up, connected, seq, now>>

\* OnInit: ExecutionReliabilityInit reconciles before any other event.
Start ==
  /\ ~up
  /\ up' = TRUE
  /\ Reconcile
  /\ UNCHANGED <<ledger, pc, cur, broker, seen, meta, connected, seq, now>>

\* OnDeinit: a last pass, then a clean terminal exit saves the variables.
Stop ==
  /\ up /\ pc = "idle"
  /\ up' = FALSE
  /\ Reconcile
  /\ UNCHANGED <<ledger, pc, cur, broker, seen, meta, connected, seq, now>>

\* The EA dies anywhere; the terminal and its variables live on.
EACrash ==
  /\ up /\ up' = FALSE
  /\ pc' = "idle" /\ cur' = Idle
  /\ UNCHANGED <<gv, disk, ledger, joined, broker, seen, meta, connected, seq, now>>

\* The terminal dies: unflushed variables and its copy of the broker are lost.
TerminalCrash ==
  /\ gv' = disk
  /\ up' = FALSE
  /\ pc' = "idle" /\ cur' = Idle
  /\ connected' = FALSE
  /\ seen' = [n \in Nonces |-> "none"]
  /\ UNCHANGED <<disk, ledger, joined, broker, meta, seq, now>>

------------------------------------------------------------------------------
(* The broker, the connection and the clock.                                *)

\* The order is filled, wholly or in part, by one deal or by several, or it ends
\* without a position.
BrokerSettles(n, st, deal) ==
  /\ broker[n] = "inflight"
  /\ deal => st = "open"
  /\ broker' = [broker EXCEPT ![n] = st]
  /\ meta' = [meta EXCEPT ![n].fill = now, ![n].deal = deal]
  /\ UNCHANGED <<gv, disk, ledger, joined, seen, pc, cur, up, connected, seq, now>>

Outcomes == {"open", "part", "cancelled", "refused"}

\* A target's partial close or the operator reduces the position.
BrokerReduces(n) ==
  /\ broker[n] = "open"
  /\ broker' = [broker EXCEPT ![n] = "part"]
  /\ UNCHANGED <<gv, disk, ledger, joined, seen, meta, pc, cur, up, connected, seq, now>>

\* A stop, a target or the operator closes the position.
BrokerCloses(n) ==
  /\ broker[n] \in Listed
  /\ broker' = [broker EXCEPT ![n] = "closed"]
  /\ UNCHANGED <<gv, disk, ledger, joined, seen, meta, pc, cur, up, connected, seq, now>>

\* The terminal's lists catch up with one order.
Observe(n) ==
  /\ connected /\ seen[n] # broker[n]
  /\ seen' = [seen EXCEPT ![n] = broker[n]]
  /\ UNCHANGED <<gv, disk, ledger, joined, broker, meta, pc, cur, up, connected, seq, now>>

Disconnect ==
  /\ connected /\ connected' = FALSE
  /\ UNCHANGED <<gv, disk, ledger, joined, broker, seen, meta, pc, cur, up, seq, now>>

\* Reconnecting synchronises the lists and the history.
Reconnect ==
  /\ ~connected /\ connected' = TRUE
  /\ seen' = broker
  /\ UNCHANGED <<gv, disk, ledger, joined, broker, meta, pc, cur, up, seq, now>>

\* Time cannot pass the moment by which a step is due.
InTime ==
  /\ pc \in Writing => now < gv[cur.sym].tm + HandlerDelay
  /\ pc = "calling" => now < meta[cur.n].at + CallDelay
  /\ \A n \in Nonces :
       \/ now < meta[n].at + BrokerLatency
       \/ broker[n] # "inflight" /\ (connected => seen[n] = broker[n])
       \/ seen[n] \in Listed

Tick ==
  /\ now < MaxTime
  /\ InTime
  /\ now' = now + 1
  /\ UNCHANGED <<gv, disk, ledger, joined, broker, seen, meta, pc, cur, up, connected, seq>>

------------------------------------------------------------------------------
Submission == \/ \E s \in Symbols : PrepareIntent(s)
              \/ PersistPrepared \/ MarkSent \/ PersistSent
              \/ ChaosBeforeSend \/ CallBroker
              \/ CallFails \/ CallBinds \/ CallUnbound

Environment == \/ \E n \in Nonces, st \in Outcomes, deal \in BOOLEAN : BrokerSettles(n, st, deal)
               \/ \E n \in Nonces : BrokerReduces(n) \/ BrokerCloses(n) \/ Observe(n)
               \/ Disconnect \/ Reconnect \/ Tick

Next == \/ Submission \/ ReconcileTimer
        \/ Start \/ Stop \/ EACrash \/ TerminalCrash
        \/ Environment

Spec == Init /\ [][Next]_vars

\* The EA's timer fires every second, so a terminal that is connected again and
\* again runs a pass while connected, whatever restarts lie between; the broker
\* answers and the terminal's lists catch up.
Fairness ==
  /\ WF_vars(Submission) /\ WF_vars(Start) /\ WF_vars(Tick) /\ WF_vars(Reconnect)
  /\ SF_vars(connected /\ (ReconcileTimer \/ Start))
  /\ \A n \in Nonces :
       /\ WF_vars(\E st \in Outcomes, deal \in BOOLEAN : BrokerSettles(n, st, deal))
       /\ WF_vars(Observe(n))

FairSpec == Spec /\ Fairness

------------------------------------------------------------------------------
(* Properties.                                                              *)

\* Every variable has its type.
TypeOK ==
  /\ gv \in [Symbols -> Intent] /\ disk \in [Symbols -> Intent]
  /\ ledger \subseteq IntentStates \X Nonces
  /\ joined \subseteq (0..MaxNonce) \X Nonces
  /\ broker \in [Nonces -> OrderStates] /\ seen \in [Nonces -> OrderStates]
  /\ meta \in [Nonces -> Meta]
  /\ pc \in Writing \cup {"idle", "calling"}
  /\ cur \in [sym: Symbols \cup {NoSymbol}, n: 0..MaxNonce]
  /\ up \in BOOLEAN /\ connected \in BOOLEAN
  /\ seq \in 0..MaxNonce /\ now \in Times

\* At most one order per symbol is in flight or open at the broker, whatever
\* answers were lost and wherever the EA or the terminal died.
AtMostOneExposure ==
  \A m, n \in Nonces :
    broker[m] \in Live /\ broker[n] \in Live /\ meta[m].sym = meta[n].sym => m = n

\* The evidence by which a pass can tell that an open position is the intent's:
\* the nonce in its comment, its volume, or an entry deal of the whole volume in a
\* history that answers.
Legible(n) ==
  \/ CommentKept \/ broker[n] # "part"
  \/ meta[n].deal /\ ~HistoryMayMiss

\* The flushed variables alone name every live order's intent, in a state that
\* blocks another submission once the terminal is back, as long as the order's
\* evidence is legible: a position filled in part or by several deals, and then
\* reduced, whose comment the broker dropped is known by its order alone.
LiveOrderIsDurable ==
  \A n \in Nonces :
    broker[n] \in Live /\ Legible(n) =>
      LET d == disk[meta[n].sym]
      IN  d.n = n /\ d.st \in {"SENT", "UNCERTAIN", "FILLED"}

\* A settled intent tells the truth: FAILED means that the broker never took
\* the order, CLOSED that it left a history, and nothing else unless the evidence
\* of its open position is not legible.
SettlementIsTrue ==
  \A s \in Symbols :
    LET n == gv[s].n
    IN  /\ gv[s].st = "FAILED" => n \in Nonces /\ broker[n] \in {"none", "refused"}
        /\ gv[s].st = "CLOSED" =>
             n \in Nonces /\ (broker[n] \in {"closed", "cancelled"} \/ ~Legible(n))

\* A position is joined to the intent it was opened for, also when the broker
\* drops the comment and the join rests on time and geometry.
JoinIsSound == \A j \in joined : j[1] = j[2]

\* A query of the history that did not answer is not "synchronized history and
\* no matching broker position/order/deal": an intent resolved as FAILED has no
\* deal at the broker.
FailedMeansNoDeal ==
  \A s \in Symbols : gv[s].st = "FAILED" => broker[gv[s].n] # "closed"

\* PREPARED and SENT are on disk before the broker sees the order.
LedgerPrecedesOrder ==
  \A n \in Nonces : broker[n] # "none" => {<<"PREPARED", n>>, <<"SENT", n>>} \subseteq ledger

\* The path implements its promise: live orders and spent nonces, read off the
\* broker, behave as SingleFlight says.
Flight == INSTANCE SingleFlight WITH
  live  <- [s \in Symbols |-> {n \in Nonces : broker[n] \in Live /\ meta[n].sym = s}],
  spent <- {n \in Nonces : broker[n] # "none"}
SubmitsOnce == Flight!Spec

\* An ambiguous intent does not block its symbol for ever.
AmbiguityResolves ==
  \A s \in Symbols : gv[s].st \in Unresolved ~> gv[s].st \notin Unresolved
------------------------------------------------------------------------------
(* The inductive invariant.                                                 *)

Copies(s) == {gv[s], disk[s]}

\* The handler's program counter against the variables it has written.
HandlerInv ==
  /\ pc = "idle" <=> cur = Idle
  /\ pc # "idle" =>
       /\ up
       /\ cur.sym \in Symbols /\ cur.n \in 1..seq
       /\ gv[cur.sym].n = cur.n
       /\ gv[cur.sym].st = IF pc \in {"preparing", "prepared"} THEN "PREPARED" ELSE "SENT"
       /\ pc \in {"sent", "calling"} => disk[cur.sym] = gv[cur.sym]
       /\ pc \in Writing => broker[cur.n] = "none" /\ now <= gv[cur.sym].tm + HandlerDelay
       /\ pc = "calling" => broker[cur.n] # "none" /\ now <= meta[cur.n].at + CallDelay

\* While an order is submitted, no other one of its symbol is alive or listed.
AloneInv ==
  pc # "idle" =>
    \A n \in OrdersOf(cur.sym) \ {cur.n} : broker[n] \notin Live /\ seen[n] \notin Listed

\* Nonces are fresh and belong to one symbol each.
NonceInv ==
  /\ \A n \in Nonces : broker[n] = "none" <=> meta[n].sym = NoSymbol
  /\ \A n \in Nonces : n > seq => broker[n] = "none"
  /\ \A s \in Symbols : gv[s].n <= seq /\ disk[s].n <= seq
  /\ \A s, t \in Symbols : \A g \in Copies(s), h \in Copies(t) : g.n = h.n /\ g.n # 0 => s = t
  /\ \A s \in Symbols : \A g \in Copies(s) : g.st \notin {"NONE"} => g.n # 0

\* The terminal's copy of an order lags behind the broker, but not for long.
ViewInv ==
  \A n \in Nonces :
    /\ seen[n] = "open" => broker[n] \in {"open", "part", "closed"}
    /\ seen[n] = "part" => broker[n] \in {"part", "closed"}
    /\ seen[n] = "inflight" => broker[n] # "none"
    /\ seen[n] \in {"closed", "cancelled"} => broker[n] = seen[n]
    /\ broker[n] # "none" =>
         /\ meta[n].at <= meta[n].fill /\ meta[n].fill <= now
         /\ meta[n].fill <= meta[n].at + BrokerLatency
         /\ \/ now <= meta[n].at + BrokerLatency
            \/ broker[n] # "inflight" /\ (connected => seen[n] = broker[n])
            \/ seen[n] \in Listed

\* An intent's stamp lies close to its order's call, and after every fill of
\* the symbol's other orders.
Stamp(s, g) ==
  /\ g.tm <= now
  /\ \A n \in Nonces :
       /\ n = g.n /\ broker[n] # "none" =>
            /\ meta[n].sym = s
            /\ g.tm <= meta[n].at + CallDelay
            /\ meta[n].at <= g.tm + HandlerDelay
       /\ n # g.n /\ meta[n].sym = s => meta[n].fill + Slack < g.tm
StampInv == \A s \in Symbols : \A g \in Copies(s) : Stamp(s, g)

\* A live order is named, in a blocking state, by both copies of its symbol's
\* intent, or it is a position without legible evidence that a connected terminal
\* lists. A broker that keeps comments has the current copy name what is listed.
Names(g, n)  == g.n = n /\ g.st \in {"SENT", "UNCERTAIN", "FILLED"}
Forgotten(n) == broker[n] = "part" /\ ~Legible(n) /\ (connected => seen[n] \in Listed)
TrackInv ==
  \A n \in Nonces :
    /\ broker[n] \in Live =>
         \A g \in Copies(meta[n].sym) :
           /\ Names(g, n) \/ Forgotten(n)
           /\ g.n = n /\ g.st = "FILLED" =>
                broker[n] \in Listed /\ (connected => seen[n] \in Listed)
    /\ CommentKept /\ seen[n] \in Listed => Names(gv[meta[n].sym], n)

IndInv == /\ TypeOK /\ HandlerInv /\ NonceInv /\ ViewInv /\ StampInv /\ TrackInv
          /\ AloneInv /\ AtMostOneExposure

\* What the ledger needs besides: the rows are there before the handler goes on.
LedgerInv ==
  /\ pc \in {"prepared", "marking", "sent"} => <<"PREPARED", cur.n>> \in ledger
  /\ pc = "sent" => <<"SENT", cur.n>> \in ledger
  /\ LedgerPrecedesOrder

\* Both copies of a settled intent tell the truth.
TruthInv ==
  \A s \in Symbols : \A g \in Copies(s) :
    /\ g.st = "FAILED" => g.n \in Nonces /\ broker[g.n] \in {"none", "refused"}
    /\ g.st = "CLOSED" =>
         g.n \in Nonces /\ (broker[g.n] \in {"closed", "cancelled"} \/ ~Legible(g.n))
=============================================================================
