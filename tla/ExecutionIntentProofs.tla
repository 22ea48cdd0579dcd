----------------------- MODULE ExecutionIntentProofs -----------------------
(* Proofs about ExecutionIntent, for every value of its constants. *)
EXTENDS ExecutionIntent, FiniteSetTheorems, TLAPS

(* The initial state satisfies every part of the inductive invariant. *)
LEMMA InitInd == Init => IndInv /\ LedgerInv /\ TruthInv /\ JoinIsSound
<1> SUFFICES ASSUME Init PROVE IndInv /\ LedgerInv /\ TruthInv /\ JoinIsSound
  OBVIOUS
<1> USE SizesAssumption DEF Init
<1>1. TypeOK
  BY DEF TypeOK, Intent, IntentStates, NoIntent, OrderStates, Writing, Meta, NoMeta, Idle, Times, Nonces
<1>2. HandlerInv
  BY DEF HandlerInv, Writing
<1>3. NonceInv
  BY DEF NonceInv, Copies, NoIntent, Nonces, NoMeta
<1>4. ViewInv
  BY DEF ViewInv
<1>5. StampInv
  BY DEF StampInv, Stamp, Copies, NoIntent, NoMeta
<1>6. TrackInv /\ AloneInv /\ AtMostOneExposure
  BY DEF TrackInv, AloneInv, AtMostOneExposure, Live, Listed
<1>7. LedgerInv /\ TruthInv /\ JoinIsSound
  BY DEF LedgerInv, LedgerPrecedesOrder, TruthInv, Copies, NoIntent, JoinIsSound
<1>. QED
  BY <1>1, <1>2, <1>3, <1>4, <1>5, <1>6, <1>7 DEF IndInv

(* The EA dies: only the handler's place is forgotten. *)
LEMMA EACrashInd == IndInv /\ EACrash => IndInv'
<1> SUFFICES ASSUME IndInv, EACrash PROVE IndInv'
  OBVIOUS
<1> USE DEF IndInv, EACrash
<1>1. TypeOK'
  <2>1. Idle \in [sym: Symbols \cup {NoSymbol}, n: 0..MaxNonce]
    BY SizesAssumption DEF Idle
  <2>. QED
    BY <2>1 DEF TypeOK
<1>2. HandlerInv'
  BY DEF HandlerInv, Writing
<1>3. NonceInv' /\ ViewInv' /\ StampInv' /\ TrackInv'
  BY DEF NonceInv, ViewInv, StampInv, Stamp, TrackInv, Copies, Names, Forgotten, Legible
<1>4. AloneInv' /\ AtMostOneExposure'
  BY DEF AloneInv, AtMostOneExposure
<1>. QED
  BY <1>1, <1>2, <1>3, <1>4

(* The terminal dies: the intents fall back to the flushed copy. *)
LEMMA TerminalCrashInd == IndInv /\ TerminalCrash => IndInv'
<1> SUFFICES ASSUME IndInv, TerminalCrash PROVE IndInv'
  OBVIOUS
<1> USE DEF IndInv, TerminalCrash
<1>1. TypeOK'
  <2>1. Idle \in [sym: Symbols \cup {NoSymbol}, n: 0..MaxNonce]
    BY SizesAssumption DEF Idle
  <2>. QED
    BY <2>1 DEF TypeOK, OrderStates
<1>2. HandlerInv'
  BY DEF HandlerInv, Writing
<1>3. NonceInv'
  BY DEF NonceInv, Copies
<1>4. ViewInv'
  BY DEF ViewInv, Listed
<1>5. StampInv'
  BY DEF StampInv, Stamp, Copies
<1>6. TrackInv'
  BY DEF TrackInv, Copies, Names, Forgotten, Legible, Listed
<1>7. AloneInv' /\ AtMostOneExposure'
  BY DEF AloneInv, AtMostOneExposure
<1>. QED
  BY <1>1, <1>2, <1>3, <1>4, <1>5, <1>6, <1>7

(* The idle handler has a place of its type. *)
LEMMA IdleType == Idle \in [sym: Symbols \cup {NoSymbol}, n: 0..MaxNonce]
BY SizesAssumption DEF Idle

(* A live order, or a position the terminal lists, belongs to one symbol, whose
   current intent names it; a live order's flushed intent names it too.      *)
LEMMA LiveHasSymbol ==
  ASSUME IndInv, NEW n \in Nonces, broker[n] # "none"
  PROVE  meta[n].sym \in Symbols
BY DEF IndInv, NonceInv, TypeOK, Meta

LEMMA HaveSymbols ==
  ASSUME IndInv
  PROVE  \A n \in Nonces :
           broker[n] \in Live \/ seen[n] \in Listed => meta[n].sym \in Symbols
BY LiveHasSymbol DEF IndInv, ViewInv, Live, Listed

(* While the order is being written, no order of its symbol is alive or listed. *)
LEMMA NothingLive ==
  ASSUME IndInv, pc \in Writing, NEW n \in Nonces, meta[n].sym = cur.sym
  PROVE  broker[n] \notin Live /\ seen[n] \notin Listed
<1>1. broker[cur.n] = "none" /\ cur.sym \in Symbols /\ pc # "idle"
  BY DEF IndInv, HandlerInv, Writing
<1>2. n # cur.n
  BY <1>1, SizesAssumption DEF IndInv, NonceInv
<1>. QED
  BY <1>1, <1>2 DEF IndInv, AloneInv, OrdersOf

(* The clock passes only while every step is in time. *)
LEMMA TickInd == IndInv /\ Tick => IndInv'
<1> SUFFICES ASSUME IndInv, Tick PROVE IndInv'
  OBVIOUS
<1> USE SizesAssumption DEF IndInv, Tick
<1>1. TypeOK'
  BY DEF TypeOK, Times
<1>2. HandlerInv'
  <2>1. now \in Int /\ now' = now + 1
    BY DEF TypeOK, Times
  <2>2. pc # "idle" => gv[cur.sym].tm \in Int /\ meta[cur.n].at \in Int /\ cur.n \in Nonces
    BY DEF HandlerInv, TypeOK, Intent, Meta, Times, Nonces
  <2>3. /\ pc \in Writing => pc # "idle" /\ now' <= gv[cur.sym].tm + HandlerDelay
        /\ pc = "calling" => now' <= meta[cur.n].at + CallDelay
    BY <2>1, <2>2 DEF InTime, Writing
  <2>. QED
    BY <2>3 DEF HandlerInv
<1>3. NonceInv'
  BY DEF NonceInv, Copies
<1>4. ViewInv'
  BY DEF ViewInv, InTime, TypeOK, Meta, Times
<1>5. StampInv'
  BY DEF StampInv, Stamp, Copies, TypeOK, Intent, Meta, Times
<1>6. TrackInv'
  BY DEF TrackInv, Copies, Names, Forgotten, Legible
<1>7. AloneInv' /\ AtMostOneExposure'
  BY DEF AloneInv, AtMostOneExposure, OrdersOf
<1>. QED
  BY <1>1, <1>2, <1>3, <1>4, <1>5, <1>6, <1>7

(* The connection goes, comes back, and the terminal's lists catch up. *)
LEMMA DisconnectInd == IndInv /\ Disconnect => IndInv'
<1> SUFFICES ASSUME IndInv, Disconnect PROVE IndInv'
  OBVIOUS
<1> USE DEF IndInv, Disconnect
<1>1. TypeOK' /\ HandlerInv'
  BY DEF TypeOK, HandlerInv
<1>2. NonceInv' /\ StampInv'
  BY DEF NonceInv, StampInv, Stamp, Copies
<1>3. ViewInv'
  BY DEF ViewInv
<1>4. TrackInv'
  BY DEF TrackInv, Copies, Names, Forgotten, Legible
<1>5. AloneInv' /\ AtMostOneExposure'
  BY DEF AloneInv, AtMostOneExposure, OrdersOf
<1>. QED
  BY <1>1, <1>2, <1>3, <1>4, <1>5

LEMMA ReconnectInd == IndInv /\ Reconnect => IndInv'
<1> SUFFICES ASSUME IndInv, Reconnect PROVE IndInv'
  OBVIOUS
<1> USE DEF IndInv, Reconnect
<1>1. TypeOK' /\ HandlerInv'
  BY DEF TypeOK, HandlerInv
<1>2. NonceInv' /\ StampInv'
  BY DEF NonceInv, StampInv, Stamp, Copies
<1>3. ViewInv'
  BY DEF ViewInv, Listed
<1>4. TrackInv'
  BY DEF TrackInv, Copies, Names, Forgotten, Legible, Live, Listed
<1>5. AloneInv' /\ AtMostOneExposure'
  BY DEF AloneInv, AtMostOneExposure, OrdersOf, Live
<1>. QED
  BY <1>1, <1>2, <1>3, <1>4, <1>5

LEMMA ObserveInd == ASSUME NEW n \in Nonces PROVE IndInv /\ Observe(n) => IndInv'
<1> SUFFICES ASSUME IndInv, Observe(n) PROVE IndInv'
  OBVIOUS
<1> USE DEF IndInv, Observe
<1>1. TypeOK' /\ HandlerInv'
  BY DEF TypeOK, HandlerInv
<1>2. NonceInv' /\ StampInv'
  BY DEF NonceInv, StampInv, Stamp, Copies
<1>3. ViewInv'
  BY DEF ViewInv, TypeOK, Listed
<1>4. TrackInv'
  BY DEF TrackInv, Copies, Names, Forgotten, Legible, Live, Listed, TypeOK
<1>5. AloneInv' /\ AtMostOneExposure'
  BY DEF AloneInv, AtMostOneExposure, OrdersOf, Live, TypeOK
<1>. QED
  BY <1>1, <1>2, <1>3, <1>4, <1>5

(* A submission under way has a symbol and a fresh nonce that only its symbol's
   intents carry.                                                            *)
LEMMA HandlerFacts ==
  ASSUME IndInv, pc # "idle"
  PROVE  /\ up /\ cur # Idle
         /\ cur.sym \in Symbols /\ cur.n \in Nonces /\ cur.n \in 1..seq
         /\ gv[cur.sym].n = cur.n /\ gv[cur.sym] \in Intent
         /\ \A s \in Symbols : \A g \in Copies(s) : g.n = cur.n => s = cur.sym
<1>1. up /\ cur # Idle /\ cur.sym \in Symbols /\ cur.n \in 1..seq /\ gv[cur.sym].n = cur.n
  BY DEF IndInv, HandlerInv
<1>2. cur.n \in Nonces /\ gv[cur.sym] \in Intent
  BY <1>1, SizesAssumption DEF IndInv, TypeOK, Nonces
<1>3. \A s \in Symbols : \A g \in Copies(s) : g.n = cur.n => s = cur.sym
  BY <1>1 DEF IndInv, NonceInv, Copies
<1>. QED
  BY <1>1, <1>2, <1>3

(* The broker answers an order in flight. *)
LEMMA SettleInd ==
  ASSUME NEW n \in Nonces, NEW st \in Outcomes, NEW deal \in BOOLEAN
  PROVE  IndInv /\ BrokerSettles(n, st, deal) => IndInv'
<1> SUFFICES ASSUME IndInv, BrokerSettles(n, st, deal) PROVE IndInv'
  OBVIOUS
<1> USE DEF IndInv, BrokerSettles
<1>0. broker[n] \in Live /\ meta[n].sym \in Symbols
  BY LiveHasSymbol DEF Live
<1>a. /\ broker' \in [Nonces -> OrderStates] /\ meta' \in [Nonces -> Meta]
      /\ broker'[n] = st /\ broker[n] = "inflight"
      /\ meta'[n].sym = meta[n].sym /\ meta'[n].at = meta[n].at /\ meta'[n].fill = now
      /\ \A m \in Nonces \ {n} : broker'[m] = broker[m] /\ meta'[m] = meta[m]
  BY DEF TypeOK, Meta, OrderStates, Outcomes
<1>1. TypeOK'
  BY <1>a DEF TypeOK
<1>2. HandlerInv'
  BY <1>a, HandlerFacts DEF HandlerInv, Outcomes, Writing
<1>3. NonceInv'
  BY <1>a DEF NonceInv, Copies, Outcomes
<1>4. ViewInv'
  <2>1. now \in Int /\ meta[n].at \in Int /\ meta[n].fill \in Int
    BY DEF TypeOK, Meta, Times
  <2>2. seen[n] \in {"none", "inflight", "refused"}
    BY <1>a DEF ViewInv, TypeOK, OrderStates
  <2>3. /\ meta[n].at <= meta[n].fill /\ meta[n].fill <= now
        /\ now <= meta[n].at + BrokerLatency
    BY <1>a, <2>2 DEF ViewInv, Listed
  <2>. QED
    BY <1>a, <2>1, <2>2, <2>3, SizesAssumption DEF ViewInv, Outcomes, Listed
<1>5. StampInv'
  BY <1>0, <1>a DEF StampInv, Stamp, TrackInv, Copies, Names, Forgotten
<1>6. TrackInv'
  <2>1. seen[n] \notin Listed /\ \A g \in Copies(meta[n].sym) : Names(g, n) /\ g.st # "FILLED"
    BY <1>0, <1>a DEF TrackInv, ViewInv, Forgotten, Names, Listed
  <2>2. \A m \in Nonces \ {n} : Forgotten(m)' = Forgotten(m)
    BY <1>a DEF Forgotten, Legible
  <2>. QED
    BY <1>0, <1>a, <2>1, <2>2 DEF TrackInv, Copies, Names
<1>7. AloneInv' /\ AtMostOneExposure'
  BY <1>0, <1>a DEF AloneInv, AtMostOneExposure, OrdersOf, Live
<1>. QED
  BY <1>1, <1>2, <1>3, <1>4, <1>5, <1>6, <1>7

(* A position is reduced or closed. *)
LEMMA PositionChangesInd ==
  ASSUME NEW n \in Nonces PROVE IndInv /\ (BrokerReduces(n) \/ BrokerCloses(n)) => IndInv'
<1> SUFFICES ASSUME IndInv, BrokerReduces(n) \/ BrokerCloses(n) PROVE IndInv'
  OBVIOUS
<1> USE DEF IndInv
<1>a. PICK st \in {"part", "closed"} :
        /\ broker[n] \in Listed /\ broker' = [broker EXCEPT ![n] = st]
        /\ st = "part" => broker[n] = "open"
  BY DEF BrokerReduces, BrokerCloses, Listed
<1>b. UNCHANGED <<gv, disk, ledger, joined, seen, meta, pc, cur, up, connected, seq, now>>
  BY DEF BrokerReduces, BrokerCloses
<1>c. broker'[n] = st /\ \A m \in Nonces \ {n} : broker'[m] = broker[m]
  BY <1>a DEF TypeOK
<1>1. TypeOK' /\ HandlerInv'
  BY <1>a, <1>b, <1>c DEF TypeOK, HandlerInv, OrderStates, Listed
<1>2. NonceInv' /\ StampInv'
  BY <1>a, <1>b, <1>c DEF NonceInv, StampInv, Stamp, Copies, Listed
<1>3. ViewInv'
  BY <1>a, <1>b, <1>c DEF ViewInv, Listed
<1>4. TrackInv'
  <2>1. \A m \in Nonces \ {n} : Forgotten(m)' = Forgotten(m)
    BY <1>b, <1>c DEF Forgotten, Legible
  <2>2. st = "part" => \A g \in Copies(meta[n].sym) : Names(g, n)
    BY <1>a DEF TrackInv, Live, Forgotten
  <2>. QED
    BY <1>a, <1>b, <1>c, <2>1, <2>2 DEF TrackInv, Copies, Names, Live, Listed
<1>5. AloneInv' /\ AtMostOneExposure'
  BY <1>a, <1>b, <1>c DEF AloneInv, AtMostOneExposure, OrdersOf, Live, Listed
<1>. QED
  BY <1>1, <1>2, <1>3, <1>4, <1>5

(* Writing the state, or the state and the stamp, of the intent under way changes
   no other symbol's intent and keeps its nonce.                             *)
LEMMA Written ==
  ASSUME IndInv, pc # "idle", NEW st \in IntentStates,
         gv' = [gv EXCEPT ![cur.sym].st = st]
  PROVE  /\ gv' \in [Symbols -> Intent]
         /\ gv'[cur.sym].st = st /\ gv'[cur.sym].n = cur.n
         /\ gv'[cur.sym].tm = gv[cur.sym].tm
         /\ \A t \in Symbols \ {cur.sym} : gv'[t] = gv[t]
<1>1. gv \in [Symbols -> Intent] /\ cur.sym \in Symbols /\ gv[cur.sym].n = cur.n
  BY HandlerFacts DEF IndInv, TypeOK
<1>. QED
  BY <1>1 DEF Intent

LEMMA Stamped ==
  ASSUME IndInv, pc # "idle", NEW st \in IntentStates,
         gv' = [gv EXCEPT ![cur.sym].st = st, ![cur.sym].tm = now]
  PROVE  /\ gv' \in [Symbols -> Intent]
         /\ gv'[cur.sym].st = st /\ gv'[cur.sym].n = cur.n
         /\ gv'[cur.sym].tm = now
         /\ \A t \in Symbols \ {cur.sym} : gv'[t] = gv[t]
<1>1. /\ gv \in [Symbols -> Intent] /\ cur.sym \in Symbols /\ gv[cur.sym].n = cur.n
      /\ now \in Times
  BY HandlerFacts DEF IndInv, TypeOK
<1>. QED
  BY <1>1 DEF Intent

(* A new intent is prepared only where nothing is live or listed. *)
LEMMA PrepareInd == ASSUME NEW s \in Symbols PROVE IndInv /\ PrepareIntent(s) => IndInv'
<1> SUFFICES ASSUME IndInv, PrepareIntent(s) PROVE IndInv'
  OBVIOUS
<1> USE DEF IndInv, PrepareIntent
<1>0. /\ seq \in Nat /\ seq + 1 \in Nonces /\ now \in Times /\ now \in Int
      /\ [st |-> "PREPARED", n |-> seq + 1, tm |-> now] \in Intent
      /\ s # NoSymbol
  BY SizesAssumption DEF TypeOK, Nonces, Intent, IntentStates, Times
<1>a. ASSUME NEW n \in Nonces, meta[n].sym = s
      PROVE  broker[n] \notin Live /\ seen[n] \notin Listed
  <2>1. /\ gv[s].st \notin {"SENT", "UNCERTAIN"} /\ connected
        /\ gv[s].st = "FILLED" => PositionsOf(s) = {}
    BY DEF IntentStateBlocks, Unresolved
  <2>2. CASE MaxPositions <= 1
    <3>1. PositionsOf(s) = {}
      <4>1. IsFiniteSet(PositionsOf(s)) /\ Cardinality(PositionsOf(s)) = 0
        <5>1. IsFiniteSet(Nonces) /\ PositionsOf(s) \subseteq Nonces
          BY FS_Interval, SizesAssumption DEF Nonces, PositionsOf, OrdersOf
        <5>2. IsFiniteSet(PositionsOf(s))
          BY <5>1, FS_Subset
        <5>3. Cardinality(PositionsOf(s)) \in Nat /\ Cardinality(PositionsOf(s)) < 1
          BY <2>2, <5>2, FS_CardinalityType, SizesAssumption
        <5>. QED
          BY <5>2, <5>3
      <4>. QED
        BY <4>1, FS_EmptySet
    <3>2. seen[n] \notin Listed
      BY <1>a, <3>1 DEF PositionsOf, OrdersOf
    <3>3. broker[n] \notin Live
      BY <1>a, <2>1, <3>2 DEF TrackInv, Copies, Names, Forgotten
    <3>. QED
      BY <3>2, <3>3
  <2>3. CASE CommentKept
    <3>1. seen[n] \notin Listed
      BY <1>a, <2>1, <2>3 DEF TrackInv, Names, PositionsOf, OrdersOf
    <3>2. broker[n] \notin Live
      BY <1>a, <2>1, <3>1 DEF TrackInv, Copies, Names, Forgotten
    <3>. QED
      BY <3>1, <3>2
  <2>. QED
    BY <2>2, <2>3, PositionsAssumption
<1>1. TypeOK'
  BY <1>0, SizesAssumption DEF TypeOK, Writing, Nonces
<1>2. HandlerInv'
  BY <1>0, SizesAssumption DEF HandlerInv, NonceInv, TypeOK, Idle, Writing, Nonces
<1>3. NonceInv'
  BY <1>0 DEF NonceInv, Copies, TypeOK, Intent, Nonces
<1>4. ViewInv'
  BY DEF ViewInv
<1>5. StampInv'
  <2>1. gv'[s].n = seq + 1 /\ gv'[s].tm = now /\ \A t \in Symbols \ {s} : gv'[t] = gv[t]
    BY <1>0 DEF TypeOK
  <2>2. broker[seq + 1] = "none" /\ meta[seq + 1].sym = NoSymbol
    BY <1>0 DEF NonceInv
  <2>3. \A n \in Nonces : meta[n].sym = s => meta[n].fill + Slack < now
    BY DEF Cooled, OrdersOf
  <2>. SUFFICES ASSUME NEW t \in Symbols, NEW g \in Copies(t)' PROVE Stamp(t, g)'
    BY DEF StampInv
  <2>4. CASE t = s /\ g = gv'[s]
    BY <1>0, <2>1, <2>2, <2>3, <2>4 DEF Stamp
  <2>5. CASE g \in Copies(t)
    BY <2>5 DEF StampInv, Stamp
  <2>. QED
    BY <2>1, <2>4, <2>5 DEF Copies
<1>6. TrackInv'
  BY <1>0, <1>a DEF TrackInv, Copies, Names, Forgotten, Legible, TypeOK, Intent, Live, NonceInv
<1>7. AloneInv' /\ AtMostOneExposure'
  BY <1>a DEF AloneInv, AtMostOneExposure, OrdersOf
<1>. QED
  BY <1>1, <1>2, <1>3, <1>4, <1>5, <1>6, <1>7

LEMMA PersistPreparedInd == IndInv /\ PersistPrepared => IndInv'
<1> SUFFICES ASSUME IndInv, PersistPrepared PROVE IndInv'
  OBVIOUS
<1>0. /\ gv[cur.sym].st = "PREPARED" /\ pc = "preparing" /\ up
      /\ \A n \in Nonces : meta[n].sym = cur.sym => broker[n] \notin Live /\ seen[n] \notin Listed
  BY HandlerFacts, NothingLive DEF PersistPrepared, HandlerInv, IndInv, Writing
<1>a. PICK st \in {"PREPARED", "NONE"} :
         /\ gv' = [gv EXCEPT ![cur.sym].st = st]
         /\ disk' = gv'
         /\ ledger' \in SUBSET (ledger \cup {<<"PREPARED", cur.n>>})
         /\ \/ st = "PREPARED" /\ pc' = "prepared" /\ cur' = cur
            \/ st = "NONE" /\ pc' = "idle" /\ cur' = Idle
  BY DEF PersistPrepared, Persist, Row
<1>b. /\ gv' \in [Symbols -> Intent]
      /\ gv'[cur.sym].st = st /\ gv'[cur.sym].n = cur.n
      /\ gv'[cur.sym].tm = gv[cur.sym].tm
      /\ \A t \in Symbols \ {cur.sym} : gv'[t] = gv[t]
  BY <1>0, <1>a, Written DEF IntentStates
<1>c. UNCHANGED <<joined, broker, seen, meta, up, connected, seq, now>>
  BY DEF PersistPrepared
<1> USE <1>a, <1>b, <1>c DEF IndInv
<1>1. TypeOK'
  BY IdleType, HandlerFacts, <1>0 DEF TypeOK, IntentStates, Writing
<1>2. HandlerInv'
  BY HandlerFacts, <1>0 DEF HandlerInv, Writing
<1>3. NonceInv'
  BY HandlerFacts, <1>0, SizesAssumption DEF NonceInv, Copies, Nonces
<1>4. ViewInv'
  BY DEF ViewInv
<1>5. StampInv'
  <2>1. \A s \in Symbols : gv'[s].n = gv[s].n /\ gv'[s].tm = gv[s].tm
    BY HandlerFacts, <1>0
  <2>. SUFFICES ASSUME NEW s \in Symbols, NEW g \in Copies(s)' PROVE Stamp(s, g)'
    BY DEF StampInv
  <2>2. Stamp(s, gv[s])
    BY DEF StampInv, Copies
  <2>3. g.n = gv[s].n /\ g.tm = gv[s].tm
    BY <2>1 DEF Copies
  <2>. QED
    BY <2>2, <2>3 DEF Stamp
<1>6. TrackInv'
  BY HandlerFacts, <1>0 DEF TrackInv, Copies, Names, Forgotten, Legible
<1>7. AloneInv' /\ AtMostOneExposure'
  BY <1>0 DEF AloneInv, AtMostOneExposure, OrdersOf
<1>. QED
  BY <1>1, <1>2, <1>3, <1>4, <1>5, <1>6, <1>7

LEMMA MarkSentInd == IndInv /\ MarkSent => IndInv'
<1> SUFFICES ASSUME IndInv, MarkSent PROVE IndInv'
  OBVIOUS
<1> USE DEF IndInv, MarkSent
<1>0. /\ gv[cur.sym].st = "PREPARED" /\ pc = "prepared"
      /\ now \in Int /\ gv[cur.sym].tm \in Int /\ gv[cur.sym].tm <= now
      /\ \A n \in Nonces : meta[n].sym = cur.sym => broker[n] \notin Live /\ seen[n] \notin Listed
  BY HandlerFacts, NothingLive DEF HandlerInv, StampInv, Stamp, Copies, TypeOK, Intent, Times, Writing
<1>b. /\ gv' \in [Symbols -> Intent]
      /\ gv'[cur.sym].st = "SENT" /\ gv'[cur.sym].n = cur.n
      /\ gv'[cur.sym].tm = now
      /\ \A t \in Symbols \ {cur.sym} : gv'[t] = gv[t]
  BY <1>0, Stamped DEF IntentStates
<1>1. TypeOK'
  BY HandlerFacts, <1>0, <1>b DEF TypeOK, Writing
<1>2. HandlerInv'
  BY HandlerFacts, <1>0, <1>b, SizesAssumption DEF HandlerInv, Writing
<1>3. NonceInv'
  BY HandlerFacts, <1>0, <1>b, SizesAssumption DEF NonceInv, Copies, Nonces
<1>4. ViewInv'
  BY DEF ViewInv
<1>5. StampInv'
  BY HandlerFacts, <1>0, SizesAssumption
     DEF StampInv, Stamp, HandlerInv, Copies, TypeOK, Intent, Writing, Meta, Times
<1>6. TrackInv'
  BY HandlerFacts, HaveSymbols, <1>0, <1>b DEF TrackInv, Copies, Names, Forgotten, Legible
<1>7. AloneInv' /\ AtMostOneExposure'
  BY <1>0 DEF AloneInv, AtMostOneExposure, OrdersOf
<1>. QED
  BY <1>1, <1>2, <1>3, <1>4, <1>5, <1>6, <1>7

LEMMA PersistSentInd == IndInv /\ PersistSent => IndInv'
<1> SUFFICES ASSUME IndInv, PersistSent PROVE IndInv'
  OBVIOUS
<1>0. /\ gv[cur.sym].st = "SENT" /\ pc = "marking" /\ up
      /\ broker[cur.n] = "none" /\ now <= gv[cur.sym].tm + HandlerDelay
  BY DEF PersistSent, HandlerInv, IndInv, Writing
<1>a. PICK st \in {"SENT", "UNCERTAIN"} :
         /\ gv' = [gv EXCEPT ![cur.sym].st = st]
         /\ disk' = gv'
         /\ ledger' \in SUBSET (ledger \cup {<<"SENT", cur.n>>})
         /\ \/ st = "SENT" /\ pc' = "sent" /\ cur' = cur
            \/ st = "UNCERTAIN" /\ pc' = "idle" /\ cur' = Idle
  BY DEF PersistSent, Persist, Row
<1>b. /\ gv' \in [Symbols -> Intent]
      /\ gv'[cur.sym].st = st /\ gv'[cur.sym].n = cur.n
      /\ gv'[cur.sym].tm = gv[cur.sym].tm
      /\ \A t \in Symbols \ {cur.sym} : gv'[t] = gv[t]
  BY <1>0, <1>a, Written DEF IntentStates
<1>c. UNCHANGED <<joined, broker, seen, meta, up, connected, seq, now>>
  BY DEF PersistSent
<1> USE <1>a, <1>b, <1>c DEF IndInv
<1>1. TypeOK'
  BY IdleType, HandlerFacts, <1>0 DEF TypeOK, IntentStates, Writing
<1>2. HandlerInv'
  BY HandlerFacts, <1>0 DEF HandlerInv, Writing
<1>3. NonceInv'
  BY HandlerFacts, <1>0, SizesAssumption DEF NonceInv, Copies, Nonces
<1>4. ViewInv'
  BY DEF ViewInv
<1>5. StampInv'
  <2>1. \A s \in Symbols : gv'[s].n = gv[s].n /\ gv'[s].tm = gv[s].tm
    BY HandlerFacts, <1>0
  <2>. SUFFICES ASSUME NEW s \in Symbols, NEW g \in Copies(s)' PROVE Stamp(s, g)'
    BY DEF StampInv
  <2>2. Stamp(s, gv[s])
    BY DEF StampInv, Copies
  <2>3. g.n = gv[s].n /\ g.tm = gv[s].tm
    BY <2>1 DEF Copies
  <2>. QED
    BY <2>2, <2>3 DEF Stamp
<1>6. TrackInv'
  <2>1. \A n \in Nonces : meta[n].sym = cur.sym => broker[n] \notin Live /\ seen[n] \notin Listed
    BY <1>0, NothingLive DEF Writing
  <2>. QED
    BY HandlerFacts, <1>0, <2>1 DEF TrackInv, Copies, Names, Forgotten, Legible
<1>7. AloneInv' /\ AtMostOneExposure'
  BY <1>0 DEF AloneInv, AtMostOneExposure, OrdersOf
<1>. QED
  BY <1>1, <1>2, <1>3, <1>4, <1>5, <1>6, <1>7

(* The steps that leave the intent UNCERTAIN: before the call when chaos strikes,
   or after it when it failed or showed no position. The fresh stamp is no later
   than the call's longest wait after the call.                              *)
LEMMA UncertainInd ==
  ASSUME IndInv, pc \in {"sent", "calling"}, SetUncertain,
         pc' = "idle", cur' = Idle,
         UNCHANGED <<joined, broker, seen, meta, up, connected, seq, now>>
  PROVE  IndInv'
<1> USE DEF IndInv
<1>0. /\ pc # "idle" /\ now \in Int
      /\ pc = "sent" => broker[cur.n] = "none"
      /\ pc = "calling" => now <= meta[cur.n].at + CallDelay
      /\ disk[cur.sym] = gv[cur.sym]
  BY DEF HandlerInv, Writing, TypeOK, Times
<1>a. disk' = gv' /\ ledger' \subseteq ledger \cup {<<"UNCERTAIN", cur.n>>}
  BY DEF SetUncertain, Row
<1>b. /\ gv' \in [Symbols -> Intent]
      /\ gv'[cur.sym].st = "UNCERTAIN" /\ gv'[cur.sym].n = cur.n
      /\ gv'[cur.sym].tm = now
      /\ \A t \in Symbols \ {cur.sym} : gv'[t] = gv[t]
  BY <1>0, Stamped DEF IntentStates, SetUncertain
<1>1. TypeOK'
  BY IdleType, HandlerFacts, <1>0, <1>a, <1>b DEF TypeOK, IntentStates
<1>2. HandlerInv'
  BY <1>0 DEF HandlerInv, Writing
<1>3. NonceInv'
  BY HandlerFacts, <1>0, <1>a, <1>b, SizesAssumption DEF NonceInv, Copies, Nonces
<1>4. ViewInv'
  BY DEF ViewInv
<1>5. StampInv'
  <2>. SUFFICES ASSUME NEW s \in Symbols, NEW g \in Copies(s)' PROVE Stamp(s, g)'
    BY DEF StampInv
  <2>1. Stamp(s, gv[s]) /\ g = gv'[s]
    BY <1>a DEF StampInv, Copies
  <2>2. CASE s # cur.sym
    BY <1>b, <2>1, <2>2 DEF Stamp
  <2>3. CASE s = cur.sym
    BY <1>0, <1>b, <2>1, <2>3, HandlerFacts, SizesAssumption
       DEF Stamp, ViewInv, TypeOK, Intent, Meta, Times
  <2>. QED
    BY <2>2, <2>3
<1>6. TrackInv'
  <2>1. \A n \in Nonces : meta[n].sym = cur.sym /\ (broker[n] \in Live \/ seen[n] \in Listed) => n = cur.n
    BY <1>0 DEF AloneInv, OrdersOf
  <2>. QED
    BY HandlerFacts, HaveSymbols, <1>0, <1>a, <1>b, <2>1 DEF TrackInv, Copies, Names, Forgotten, Legible
<1>7. AloneInv' /\ AtMostOneExposure'
  BY DEF AloneInv, AtMostOneExposure
<1>. QED
  BY <1>1, <1>2, <1>3, <1>4, <1>5, <1>6, <1>7

LEMMA UncertainStepsInd == IndInv /\ (ChaosBeforeSend \/ CallFails \/ CallUnbound) => IndInv'
BY UncertainInd DEF ChaosBeforeSend, CallFails, CallUnbound

(* The order reaches the broker under the one nonce both copies carry. *)
LEMMA CallBrokerInd == IndInv /\ CallBroker => IndInv'
<1> SUFFICES ASSUME IndInv, CallBroker PROVE IndInv'
  OBVIOUS
<1> USE DEF IndInv, CallBroker
<1>0. /\ pc = "sent" /\ now \in Times /\ now \in Int
      /\ gv[cur.sym].st = "SENT" /\ disk[cur.sym] = gv[cur.sym]
      /\ broker[cur.n] = "none" /\ now <= gv[cur.sym].tm + HandlerDelay
      /\ cur.sym # NoSymbol
  BY HandlerFacts, SizesAssumption DEF HandlerInv, Writing, TypeOK, Times
<1>a. /\ broker' \in [Nonces -> OrderStates] /\ meta' \in [Nonces -> Meta]
      /\ broker'[cur.n] = "inflight"
      /\ meta'[cur.n].sym = cur.sym /\ meta'[cur.n].at = now /\ meta'[cur.n].fill = now
      /\ \A n \in Nonces \ {cur.n} : broker'[n] = broker[n] /\ meta'[n] = meta[n]
  BY HandlerFacts, <1>0 DEF TypeOK, OrderStates, Meta, NoMeta
<1>1. TypeOK'
  BY <1>a DEF TypeOK
<1>2. HandlerInv'
  <2>1. now <= meta'[cur.n].at + CallDelay
    BY <1>0, <1>a, SizesAssumption
  <2>2. pc # "idle"
    BY <1>0
  <2>. QED
    BY HandlerFacts, <1>0, <1>a, <2>1, <2>2 DEF HandlerInv, Writing
<1>3. NonceInv'
  <2>1. \A n \in Nonces : broker'[n] = "none" <=> meta'[n].sym = NoSymbol
    BY <1>0, <1>a DEF NonceInv
  <2>2. \A n \in Nonces : n > seq => broker'[n] = "none"
    BY HandlerFacts, <1>0, <1>a, SizesAssumption DEF NonceInv, TypeOK
  <2>. QED
    BY <2>1, <2>2 DEF NonceInv, Copies
<1>4. ViewInv'
  BY HandlerFacts, <1>0, <1>a, SizesAssumption DEF ViewInv
<1>e. \A n \in Nonces : meta[n].sym = cur.sym => broker[n] \notin Live /\ seen[n] \notin Listed
  BY <1>0, NothingLive DEF Writing
<1>5. StampInv'
  <2>. SUFFICES ASSUME NEW s \in Symbols, NEW g \in Copies(s) PROVE Stamp(s, g)'
    BY DEF StampInv, Copies
  <2>1. Stamp(s, g)
    BY DEF StampInv
  <2>2. g.n = cur.n <=> s = cur.sym
    BY HandlerFacts, <1>0 DEF Copies
  <2>3. s = cur.sym => g.tm = gv[cur.sym].tm /\ g.tm \in Int
    BY <1>0 DEF Copies, TypeOK, Intent, Times
  <2>. QED
    BY <1>0, <1>a, <2>1, <2>2, <2>3, HandlerFacts, SizesAssumption DEF Stamp
<1>6. TrackInv'
  <2>1. seen[cur.n] \notin Listed
    BY HandlerFacts, <1>0 DEF ViewInv, Listed
  <2>2. \A g \in Copies(cur.sym) : g.n = cur.n /\ g.st = "SENT"
    BY HandlerFacts, <1>0 DEF Copies
  <2>3. \A n \in Nonces \ {cur.n} : Forgotten(n)' = Forgotten(n)
    BY <1>a DEF Forgotten, Legible
  <2>. QED
    BY HandlerFacts, <1>0, <1>a, <2>1, <2>2, <2>3 DEF TrackInv, Copies, Names
<1>7. AloneInv'
  BY <1>a, <1>e DEF AloneInv, OrdersOf
<1>8. AtMostOneExposure'
  BY HandlerFacts, <1>a, <1>e DEF AtMostOneExposure
<1>. QED
  BY <1>1, <1>2, <1>3, <1>4, <1>5, <1>6, <1>7, <1>8

(* The bound position is the one the intent's own order opened. *)
LEMMA BindSound == ASSUME IndInv, pc = "calling" PROVE BindTarget(cur.sym, cur.n) \subseteq {cur.n}
BY DEF BindTarget, PositionsOf, OrdersOf, IndInv, AloneInv

LEMMA CallBindsInd == IndInv /\ CallBinds => IndInv'
<1> SUFFICES ASSUME IndInv, CallBinds PROVE IndInv'
  OBVIOUS
<1> USE DEF IndInv
<1>0. /\ pc = "calling" /\ now \in Int
      /\ now <= meta[cur.n].at + CallDelay
      /\ cur.n \in PositionsOf(cur.sym)
      /\ joined' \subseteq joined \cup {<<cur.n, cur.n>>}
      /\ UNCHANGED <<broker, seen, meta, up, connected, seq, now>>
      /\ pc' = "idle" /\ cur' = Idle
  <2>1. pc = "calling"
    BY DEF CallBinds
  <2>2. PICK p \in BindTarget(cur.sym, cur.n) : joined' = joined \cup {<<cur.n, p>>}
    BY DEF CallBinds
  <2>3. p = cur.n
    BY <2>1, <2>2, BindSound
  <2>4. p \in PositionsOf(cur.sym)
    BY <2>2 DEF BindTarget
  <2>. QED
    BY <2>1, <2>2, <2>3, <2>4 DEF CallBinds, HandlerInv, TypeOK, Times
<1>a. disk' = gv' /\ ledger' \subseteq ledger \cup {<<"FILLED", cur.n>>}
  BY DEF CallBinds, Row
<1>b. /\ gv' \in [Symbols -> Intent]
      /\ gv'[cur.sym].st = "FILLED" /\ gv'[cur.sym].n = cur.n
      /\ gv'[cur.sym].tm = now
      /\ \A t \in Symbols \ {cur.sym} : gv'[t] = gv[t]
  BY <1>0, Stamped DEF IntentStates, CallBinds
<1>1. TypeOK'
  BY IdleType, HandlerFacts, SizesAssumption, <1>0, <1>a, <1>b DEF TypeOK, IntentStates, Nonces
<1>2. HandlerInv'
  BY <1>0 DEF HandlerInv, Writing
<1>3. NonceInv'
  BY HandlerFacts, <1>0, <1>a, <1>b, SizesAssumption DEF NonceInv, Copies, Nonces
<1>4. ViewInv'
  BY <1>0 DEF ViewInv
<1>5. StampInv'
  <2>. SUFFICES ASSUME NEW s \in Symbols, NEW g \in Copies(s)' PROVE Stamp(s, g)'
    BY DEF StampInv
  <2>1. Stamp(s, gv[s]) /\ g = gv'[s]
    BY <1>a DEF StampInv, Copies
  <2>2. CASE s # cur.sym
    BY <1>0, <1>b, <2>1, <2>2 DEF Stamp
  <2>3. CASE s = cur.sym
    BY <1>0, <1>b, <2>1, <2>3, HandlerFacts, SizesAssumption
       DEF Stamp, HandlerInv, ViewInv, TypeOK, Intent, Meta, Times
  <2>. QED
    BY <2>2, <2>3
<1>6. TrackInv'
  <2>1. \A n \in Nonces : meta[n].sym = cur.sym /\ (broker[n] \in Live \/ seen[n] \in Listed) => n = cur.n
    BY <1>0 DEF AloneInv, OrdersOf
  <2>2. seen[cur.n] \in Listed /\ broker[cur.n] \in Listed \cup {"closed"}
    BY <1>0, HandlerFacts DEF PositionsOf, OrdersOf, ViewInv, Listed
  <2>3. broker[cur.n] \in Live => broker[cur.n] \in Listed
    BY <2>2 DEF Live, Listed
  <2>. QED
    BY HandlerFacts, HaveSymbols, <1>0, <1>a, <1>b, <2>1, <2>2, <2>3
       DEF TrackInv, Copies, Names, Forgotten, Legible
<1>7. AloneInv' /\ AtMostOneExposure'
  BY <1>0 DEF AloneInv, AtMostOneExposure
<1>. QED
  BY <1>1, <1>2, <1>3, <1>4, <1>5, <1>6, <1>7

(* What reconciliation finds for a symbol is the order of its current intent:
   by its nonce, or because every other fill is too old to fit the stamp.    *)
LEMMA HitsAreOwn ==
  ASSUME IndInv, NEW s \in Symbols
  PROVE  PositionHits(s) \cup DealHits(s) \cup OrderHits(s) \subseteq {gv[s].n}
<1>1. ASSUME NEW n \in OrdersOf(s), broker[n] # "none",
             NonceMatches(s, n) \/ TimeFits(s, meta[n].fill) \/ TimeFits(s, meta[n].at)
      PROVE  n = gv[s].n
  <2>1. n \in Nonces /\ meta[n].sym = s
    BY DEF OrdersOf
  <2>2. /\ meta[n].at \in Int /\ meta[n].fill \in Int /\ gv[s].tm \in Int
        /\ meta[n].at <= meta[n].fill
    BY <1>1, <2>1 DEF IndInv, TypeOK, Meta, Intent, Times, ViewInv
  <2>3. CASE NonceMatches(s, n)
    BY <2>3 DEF NonceMatches
  <2>4. CASE TimeFits(s, meta[n].fill) \/ TimeFits(s, meta[n].at)
    <3>1. gv[s].tm <= meta[n].fill + Slack
      BY <2>2, <2>4, SizesAssumption DEF TimeFits
    <3>2. n # gv[s].n => meta[n].fill + Slack < gv[s].tm
      BY <2>1 DEF IndInv, StampInv, Stamp, Copies
    <3>. QED
      BY <2>2, <3>1, <3>2, SizesAssumption
  <2>. QED
    BY <1>1, <2>3, <2>4
<1>2. \A n \in OrdersOf(s) : seen[n] \in Listed \cup {"closed", "cancelled"} => broker[n] # "none"
  BY DEF OrdersOf, IndInv, ViewInv, Listed
<1>3. ASSUME NEW n \in PositionHits(s) PROVE n = gv[s].n
  BY <1>1, <1>2 DEF PositionHits, PositionsOf, FitsPosition
<1>4. ASSUME NEW n \in DealHits(s) \cup OrderHits(s) PROVE n = gv[s].n
  BY <1>1, <1>2 DEF DealHits, OrderHits, FitsDeal, FitsOrder
<1>. QED
  BY <1>3, <1>4

(* The time of an order's fill and of its call both fit its intent's stamp
   unless the nonce identifies the order.                                    *)
LEMMA OwnFits ==
  ASSUME IndInv, NEW s \in Symbols, gv[s].n \in Nonces, broker[gv[s].n] # "none"
  PROVE  /\ meta[gv[s].n].sym = s
         /\ \/ NonceMatches(s, gv[s].n)
            \/ TimeFits(s, meta[gv[s].n].fill) /\ TimeFits(s, meta[gv[s].n].at)
<1> DEFINE n == gv[s].n
<1>1. /\ meta[n].sym = s /\ gv[s].tm <= meta[n].at + CallDelay
      /\ meta[n].at <= gv[s].tm + HandlerDelay
  BY DEF IndInv, StampInv, Stamp, Copies
<1>2. meta[n].at <= meta[n].fill /\ meta[n].fill <= meta[n].at + BrokerLatency
  BY DEF IndInv, ViewInv
<1>3. meta[n].at \in Int /\ meta[n].fill \in Int /\ gv[s].tm \in Int
  BY DEF IndInv, TypeOK, Meta, Intent, Times
<1>. QED
  BY <1>1, <1>2, <1>3, SizesAssumption, LatencyAssumption DEF NonceMatches, TimeFits

(* A position listed with the intent's volume, or with its nonce, is always found;
   what has a history order is found by a query that answers.                *)
LEMMA ListedIsFound ==
  ASSUME IndInv, NEW s \in Symbols, gv[s].n \in Nonces
  PROVE  /\ (seen[gv[s].n] = "open" \/ (CommentKept /\ seen[gv[s].n] \in Listed)) => gv[s].n \in PositionHits(s)
         /\ seen[gv[s].n] \in Listed /\ meta[gv[s].n].deal => gv[s].n \in DealHits(s) \cap PositionsOf(s)
         /\ seen[gv[s].n] \in Listed \cup {"closed", "cancelled"} => gv[s].n \in OrderHits(s)
<1> DEFINE n == gv[s].n
<1>1. seen[n] \in Listed \cup {"closed", "cancelled"} => broker[n] # "none"
  BY DEF IndInv, ViewInv, Listed
<1>2. (seen[n] = "open" \/ (CommentKept /\ seen[n] \in Listed)) => n \in PositionHits(s)
  BY <1>1, OwnFits DEF PositionHits, PositionsOf, OrdersOf, FitsPosition, NonceMatches, Listed
<1>3. seen[n] \in Listed /\ meta[n].deal => n \in DealHits(s) \cap PositionsOf(s)
  BY <1>1, OwnFits DEF DealHits, PositionsOf, OrdersOf, FitsDeal
<1>4. seen[n] \in Listed \cup {"closed", "cancelled"} => n \in OrderHits(s)
  BY <1>1, OwnFits DEF OrderHits, OrdersOf, FitsOrder
<1>. QED
  BY <1>2, <1>3, <1>4

(* Once the window has passed on a live connection, the terminal shows what
   became of the order.                                                      *)
LEMMA ExpiredIsSeen ==
  ASSUME IndInv, NEW s \in Symbols, gv[s].n \in Nonces, Expired(s), broker[gv[s].n] # "none"
  PROVE  /\ seen[gv[s].n] \in Listed \cup {"closed", "cancelled", "refused"}
         /\ seen[gv[s].n] \in Listed \/ seen[gv[s].n] = broker[gv[s].n]
<1> DEFINE n == gv[s].n
<1>1. meta[n].at <= gv[s].tm + HandlerDelay
  BY DEF IndInv, StampInv, Stamp, Copies
<1>2. meta[n].at \in Int /\ gv[s].tm \in Int /\ now \in Int
  BY DEF IndInv, TypeOK, Meta, Intent, Times
<1>3. ~(now <= meta[n].at + BrokerLatency)
  BY <1>1, <1>2, SizesAssumption, LatencyAssumption DEF Expired
<1>4. (broker[n] # "inflight" /\ seen[n] = broker[n]) \/ seen[n] \in Listed
  BY <1>3 DEF IndInv, ViewInv, Expired
<1>. QED
  BY <1>4 DEF IndInv, TypeOK, OrderStates, Listed

(* A pass leaves a live order's intent as it is, settles it as FILLED when the
   terminal lists its position, or forgets a position without legible evidence. *)
LEMMA VerdictOnLive ==
  ASSUME IndInv, NEW s \in Symbols, NEW hist \in Answers,
         gv[s].n \in Nonces, broker[gv[s].n] \in Live, meta[gv[s].n].sym = s
  PROVE  LET v == Verdict(s, hist)
         IN  \/ v = gv[s].st
             \/ v = "FILLED" /\ broker[gv[s].n] \in Listed /\ seen[gv[s].n] \in Listed
             \/ Forgotten(gv[s].n)
<1> DEFINE n == gv[s].n
<1>1. broker[n] \notin {"none", "closed", "cancelled", "refused"}
  BY DEF Live, Listed
<1>2. seen[n] \notin {"closed", "cancelled"}
  BY <1>1 DEF IndInv, ViewInv
<1>3. OpenHits(s, hist) \cup DealHits(s) \cup OrderHits(s) # {} => seen[n] \in Listed /\ broker[n] \in Listed
  <2>1. OpenHits(s, hist) \cup DealHits(s) \cup OrderHits(s) # {} => seen[n] \in Listed
    BY <1>2, HitsAreOwn DEF OpenHits, PositionHits, PositionsOf, DealHits, OrderHits
  <2>2. seen[n] \in Listed => broker[n] \in Listed
    BY <1>1 DEF IndInv, ViewInv, Listed
  <2>. QED
    BY <2>1, <2>2
<1>4. seen[n] \in Listed => broker[n] \in Listed
  BY <1>1 DEF IndInv, ViewInv, Listed
<1>5. CASE seen[n] \in Listed /\ OpenHits(s, hist) = {}
  <2>1. ~CommentKept /\ seen[n] = "part"
    BY <1>5, ListedIsFound DEF OpenHits, Listed
  <2>2. broker[n] = "part"
    BY <1>4, <2>1 DEF IndInv, ViewInv, Listed
  <2>3. LiveOrderHits(s) = {}
    BY <2>1 DEF LiveOrderHits, NonceMatches
  <2>4. hist => ~meta[n].deal
    BY <1>5, <2>3, ListedIsFound DEF OpenHits
  <2>5. ~hist => HistoryMayMiss
    BY DEF Answers
  <2>6. ~Legible(n)
    BY <2>1, <2>2, <2>4, <2>5, SizesAssumption DEF Legible
  <2>. QED
    BY <1>5, <2>2, <2>6 DEF Forgotten
<1>6. CASE OpenHits(s, hist) # {}
  <2>1. Found(s, hist)
    BY <1>6 DEF OpenHits, Found
  <2>. QED
    BY <1>3, <1>6, <2>1 DEF Verdict
<1>7. CASE seen[n] \notin Listed
  <2>1. DealHits(s) = {} /\ OrderHits(s) = {} /\ OpenHits(s, hist) = {} /\ ~Expired(s)
    <3>1. ~Expired(s)
      BY <1>1, <1>2, <1>7, ExpiredIsSeen
    <3>. QED
      BY <1>3, <1>7, <3>1
  <2>. QED
    BY <2>1 DEF Verdict, Found, OpenHits
<1>. QED
  BY <1>5, <1>6, <1>7

(* A pass writes only states, and only of tracked intents. *)
LEMMA ReconcileInd ==
  ASSUME IndInv, Reconcile, pc = "idle", pc' = "idle", cur' = cur,
         up' \in BOOLEAN, UNCHANGED <<ledger, broker, seen, meta, connected, seq, now>>
  PROVE  IndInv'
<1> USE DEF IndInv
<1>1. PICK hist \in Answers :
         /\ gv' = [s \in Symbols |-> [gv[s] EXCEPT !.st = Verdict(s, hist)]]
         /\ joined' = joined \cup
              UNION {{<<gv[s].n, p>> : p \in OpenHits(s, hist)} : s \in {t \in Symbols : Tracked(t)}}
         /\ disk' = gv' \/ disk' = disk
  BY DEF Reconcile
<1>2. \A s \in Symbols : /\ Verdict(s, hist) \in IntentStates
                         /\ ~Tracked(s) => Verdict(s, hist) = gv[s].st
  BY DEF Verdict, TypeOK, Intent, IntentStates
<1>3. ASSUME NEW s \in Symbols
      PROVE  /\ gv'[s] \in Intent /\ gv'[s].n = gv[s].n /\ gv'[s].tm = gv[s].tm
             /\ gv'[s].st = Verdict(s, hist)
             /\ gv'[s].st # "NONE" => gv[s].st # "NONE"
  BY <1>1, <1>2 DEF TypeOK, Intent, Tracked, Unresolved
<1>4. gv' \in [Symbols -> Intent]
  BY <1>1, <1>3
<1>5. joined' \subseteq (0..MaxNonce) \X Nonces
  <2>1. \A s \in Symbols : gv[s].n \in 0..MaxNonce /\ OpenHits(s, hist) \subseteq Nonces
    BY DEF TypeOK, Intent, OpenHits, PositionHits, PositionsOf, OrdersOf
  <2>. QED
    BY <1>1, <2>1 DEF TypeOK
<1>6. TypeOK'
  BY <1>1, <1>4, <1>5 DEF TypeOK
<1>7. HandlerInv'
  BY DEF HandlerInv
<1>8. NonceInv'
  BY <1>1, <1>3 DEF NonceInv, Copies
<1>9. ViewInv'
  BY DEF ViewInv
<1>10. StampInv'
  BY <1>1, <1>3 DEF StampInv, Stamp, Copies
<1>11. TrackInv'
  <2>0. \A n \in Nonces : Forgotten(n)' = Forgotten(n)
    BY DEF Forgotten, Legible
  <2>1. ASSUME NEW n \in Nonces, broker[n] \in Live, NEW g \in Copies(meta[n].sym)'
        PROVE  /\ Names(g, n) \/ Forgotten(n)
               /\ g.n = n /\ g.st = "FILLED" => broker[n] \in Listed /\ (connected => seen[n] \in Listed)
    <3> DEFINE s == meta[n].sym
    <3>1. s \in Symbols /\ (Names(gv[s], n) \/ Forgotten(n))
      BY <2>1, HaveSymbols DEF TrackInv, Copies
    <3>2. CASE g = disk[s]
      BY <2>1, <3>2 DEF TrackInv, Copies
    <3>3. CASE g = gv'[s]
      <4>1. g.n = n => \/ g.st = gv[s].st
                       \/ g.st = "FILLED" /\ broker[n] \in Listed /\ seen[n] \in Listed
                       \/ Forgotten(n)
        BY <1>3, <2>1, <3>1, <3>3, VerdictOnLive
      <4>2. gv[s].n = n /\ gv[s].st = "FILLED" => broker[n] \in Listed /\ (connected => seen[n] \in Listed)
        BY <2>1 DEF TrackInv, Copies
      <4>3. Forgotten(n) => broker[n] \in Listed /\ (connected => seen[n] \in Listed)
        BY DEF Forgotten, Listed
      <4>. QED
        BY <1>3, <3>1, <3>3, <4>1, <4>2, <4>3 DEF Names
    <3>. QED
      BY <1>1, <2>1, <3>2, <3>3 DEF Copies
  <2>2. ASSUME NEW n \in Nonces, CommentKept, seen[n] \in Listed PROVE Names(gv'[meta[n].sym], n)
    <3> DEFINE s == meta[n].sym
    <3>1. s \in Symbols /\ Names(gv[s], n)
      BY <2>2, HaveSymbols DEF TrackInv
    <3>2. n \in PositionHits(s)
      BY <2>2, <3>1, ListedIsFound DEF Names
    <3>3. Verdict(s, hist) = "FILLED"
      BY <3>1, <3>2 DEF Verdict, Found, OpenHits, Tracked, Names, Unresolved
    <3>. QED
      BY <1>3, <3>1, <3>3 DEF Names
  <2>. QED
    BY <2>0, <2>1, <2>2 DEF TrackInv
<1>12. AloneInv' /\ AtMostOneExposure'
  BY DEF AloneInv, AtMostOneExposure
<1>. QED
  BY <1>6, <1>7, <1>8, <1>9, <1>10, <1>11, <1>12

LEMMA PassesInd == IndInv /\ (ReconcileTimer \/ Start \/ Stop) => IndInv'
<1>1. IndInv /\ ~up => pc = "idle"
  BY DEF IndInv, HandlerInv
<1>. QED
  BY <1>1, ReconcileInd DEF ReconcileTimer, Start, Stop

(* The invariant is inductive. *)
LEMMA NextInd == IndInv /\ [Next]_vars => IndInv'
<1> SUFFICES ASSUME IndInv, [Next]_vars PROVE IndInv'
  OBVIOUS
<1>1. CASE Submission
  BY <1>1, PrepareInd, PersistPreparedInd, MarkSentInd, PersistSentInd, UncertainStepsInd,
     CallBrokerInd, CallBindsInd DEF Submission
<1>2. CASE ReconcileTimer \/ Start \/ Stop
  BY <1>2, PassesInd
<1>3. CASE EACrash \/ TerminalCrash
  BY <1>3, EACrashInd, TerminalCrashInd
<1>4. CASE Environment
  BY <1>4, SettleInd, PositionChangesInd, ObserveInd, DisconnectInd, ReconnectInd, TickInd
     DEF Environment
<1>5. CASE UNCHANGED vars
  BY <1>5 DEF vars, IndInv, TypeOK, HandlerInv, NonceInv, ViewInv, StampInv, Stamp, TrackInv,
     Copies, Names, Forgotten, Legible, AloneInv, AtMostOneExposure, OrdersOf, Idle
<1>. QED
  BY <1>1, <1>2, <1>3, <1>4, <1>5 DEF Next

(* The invariant holds for ever: the strengthening every theorem below rests on. *)
THEOREM Invariance == Spec => []IndInv
BY InitInd, NextInd, PTL DEF Spec

(* Every variable has its type, for every size of the system. *)
THEOREM TypeCorrect == Spec => []TypeOK
<1>1. IndInv => TypeOK
  BY DEF IndInv
<1>. QED
  BY <1>1, Invariance, PTL

(* At most one order per symbol is alive at the broker (PrepareAtomicTradeIntent
   behind IntentStateBlocksNewSubmission and CountPositions): a live order is named
   by the one current intent of its symbol, or it is a listed position that counts. *)
THEOREM OneExposure == Spec => []AtMostOneExposure
<1>1. IndInv => AtMostOneExposure
  BY DEF IndInv
<1>. QED
  BY <1>1, Invariance, PTL

(* The flushed variables alone name every live order that reconciliation can
   recognise (GlobalVariablesFlush in MarkTradeIntentSent and after it), so a
   terminal crash loses no intent.                                           *)
THEOREM DurableIntent == Spec => []LiveOrderIsDurable
<1>1. IndInv => LiveOrderIsDurable
  BY LiveHasSymbol DEF IndInv, TrackInv, Copies, Names, Forgotten, LiveOrderIsDurable, Live
<1>. QED
  BY <1>1, Invariance, PTL

(* The order a call or a pass joins to an intent is the intent's own, also when
   PositionOrHistoryMatchesIntent falls back to time and geometry.           *)
THEOREM SoundJoins == Spec => []JoinIsSound
<1>1. Init => JoinIsSound
  BY DEF Init, JoinIsSound
<1>2. IndInv /\ JoinIsSound /\ Reconcile => JoinIsSound'
  BY HitsAreOwn DEF Reconcile, JoinIsSound, OpenHits
<1>3. IndInv /\ JoinIsSound /\ CallBinds => JoinIsSound'
  BY BindSound DEF CallBinds, JoinIsSound
<1>4. JoinIsSound /\ UNCHANGED joined => JoinIsSound'
  BY DEF JoinIsSound
<1>5. IndInv /\ JoinIsSound /\ [Next]_vars => JoinIsSound'
  BY <1>2, <1>3, <1>4
     DEF Next, vars, Submission, Environment, PrepareIntent, PersistPrepared, MarkSent,
         PersistSent, ChaosBeforeSend, CallBroker, CallFails, CallUnbound, ReconcileTimer,
         Start, Stop, EACrash, TerminalCrash, BrokerSettles, BrokerReduces, BrokerCloses, Observe,
         Disconnect, Reconnect, Tick
<1>. QED
  BY <1>1, <1>5, Invariance, PTL DEF Spec

(* PREPARED and SENT are forced to the ledger file before the broker sees the
   order (WriteIntentLedgerRow before the call, its failure prohibits it).   *)
THEOREM LedgerFirst == Spec => []LedgerPrecedesOrder
<1>1. IndInv /\ LedgerInv /\ [Next]_vars => LedgerInv'
  <2> SUFFICES ASSUME IndInv, LedgerInv, [Next]_vars PROVE LedgerInv'
    OBVIOUS
  <2> USE DEF LedgerInv, LedgerPrecedesOrder
  <2>1. CASE PersistPrepared \/ PersistSent
    BY <2>1 DEF PersistPrepared, PersistSent, Persist, Row
  <2>2. CASE CallBroker
    BY <2>2, HandlerFacts DEF CallBroker, IndInv, TypeOK
  <2>3. CASE CallBinds \/ CallFails \/ CallUnbound \/ ChaosBeforeSend
    BY <2>3 DEF CallBinds, CallFails, CallUnbound, ChaosBeforeSend, SetUncertain, Row
  <2>4. ASSUME NEW n \in Nonces, NEW st \in Outcomes, NEW deal \in BOOLEAN, BrokerSettles(n, st, deal)
        PROVE  LedgerInv'
    BY <2>4 DEF BrokerSettles, IndInv, TypeOK
  <2>5. ASSUME NEW n \in Nonces, BrokerReduces(n) \/ BrokerCloses(n) PROVE LedgerInv'
    BY <2>5 DEF BrokerReduces, BrokerCloses, Listed, IndInv, TypeOK
  <2>6. ASSUME UNCHANGED <<ledger, broker>>,
               \/ UNCHANGED <<pc, cur>>
               \/ pc' = "idle"
               \/ pc' = "preparing"
               \/ pc = "prepared" /\ pc' = "marking" /\ cur' = cur
        PROVE  LedgerInv'
    BY <2>6
  <2>. QED
    BY <2>1, <2>2, <2>3, <2>4, <2>5, <2>6
       DEF Next, vars, Submission, Environment, PrepareIntent, MarkSent, ReconcileTimer, Start,
           Stop, EACrash, TerminalCrash, Observe, Disconnect, Reconnect, Tick
<1>2. LedgerInv => LedgerPrecedesOrder
  BY DEF LedgerInv
<1>. QED
  BY <1>1, <1>2, InitInd, Invariance, PTL DEF Spec

(* A settled state and what it says of the order. *)
Claim(st, n) ==
  /\ st = "FAILED" => n \in Nonces /\ broker[n] \in {"none", "refused"}
  /\ st = "CLOSED" => n \in Nonces /\ (broker[n] \in {"closed", "cancelled"} \/ ~Legible(n))

(* What an intent may claim of its order when it calls it FAILED or CLOSED. *)
LEMMA TruthAsClaim ==
  TruthInv <=> \A s \in Symbols : \A g \in Copies(s) : Claim(g.st, g.n)
BY DEF TruthInv, Claim

(* With a history query that answers, a pass settles an intent only as what
   became of its order.                                                      *)
LEMMA VerdictIsTrue ==
  ASSUME IndInv, TruthInv, NEW s \in Symbols
  PROVE  Claim(Verdict(s, TRUE), gv[s].n)
<1> DEFINE n == gv[s].n
<1>0. CASE Verdict(s, TRUE) = gv[s].st
  BY <1>0, TruthAsClaim DEF Copies
<1>1. CASE Verdict(s, TRUE) = "FILLED"
  BY <1>1 DEF Claim
<1>2. CASE Tracked(s) /\ Found(s, TRUE) /\ OpenHits(s, TRUE) = {} /\ LiveOrderHits(s) = {}
  <2>1. PICK m \in DealHits(s) \cup OrderHits(s) : TRUE
    BY <1>2 DEF Found, OpenHits
  <2>2. n \in Nonces /\ seen[n] \in Listed \cup {"closed", "cancelled"}
    <3>1. m = n
      BY <2>1, HitsAreOwn
    <3>. QED
      BY <2>1, <3>1 DEF DealHits, OrderHits, OrdersOf
  <2>0. Verdict(s, TRUE) = "CLOSED"
    BY <1>2 DEF Verdict
  <2>3. CASE seen[n] \in {"closed", "cancelled"}
    BY <2>0, <2>2, <2>3 DEF IndInv, ViewInv, Claim
  <2>4. CASE seen[n] \in Listed
    <3>1. ~CommentKept /\ seen[n] = "part" /\ ~meta[n].deal
      BY <1>2, <2>2, <2>4, ListedIsFound DEF OpenHits, Listed
    <3>2. broker[n] \in {"part", "closed"}
      BY <2>2, <3>1 DEF IndInv, ViewInv
    <3>. QED
      BY <1>2, <2>2, <3>1, <3>2 DEF Claim, Legible, Verdict
  <2>. QED
    BY <2>2, <2>3, <2>4
<1>3. CASE Tracked(s) /\ ~Found(s, TRUE) /\ Expired(s)
  <2>1. n \in Nonces
    BY <1>3, SizesAssumption DEF IndInv, NonceInv, TypeOK, Intent, Copies, Nonces, Expired, Unresolved
  <2>2. seen[n] \notin Listed \cup {"closed", "cancelled"}
    BY <1>3, <2>1, ListedIsFound DEF Found
  <2>3. broker[n] \in {"none", "refused"}
    BY <1>3, <2>1, <2>2, ExpiredIsSeen
  <2>. QED
    BY <1>3, <2>1, <2>3 DEF Claim, Verdict
<1>. QED
  BY <1>0, <1>1, <1>2, <1>3 DEF Verdict

(* A settled intent tells the truth about its order (ReconcileIntentForSymbol),
   as long as HistorySelect answers: FAILED only if the broker never took the
   order, CLOSED only if it left a history, and is not an open position that only
   its order's initial volume still points to.                               *)
THEOREM TrueSettlement == (HistoryMayMiss = FALSE) /\ Spec => []SettlementIsTrue
<1>1. ASSUME HistoryMayMiss = FALSE, IndInv, TruthInv, [Next]_vars PROVE TruthInv'
  <2> USE TruthAsClaim
  <2>0. ASSUME UNCHANGED <<broker, meta>>, disk' = gv' \/ disk' = disk,
               \A s \in Symbols : Claim(gv'[s].st, gv'[s].n)
        PROVE  TruthInv'
    BY <1>1, <2>0 DEF TruthInv, Claim, Copies, Legible
  <2>1. CASE Reconcile /\ UNCHANGED <<broker, meta>>
    <3>1. /\ gv' = [s \in Symbols |-> [gv[s] EXCEPT !.st = Verdict(s, TRUE)]]
          /\ disk' = gv' \/ disk' = disk
      BY <1>1, <2>1 DEF Reconcile, Answers
    <3>2. \A s \in Symbols : gv'[s].n = gv[s].n /\ gv'[s].st = Verdict(s, TRUE)
      BY <1>1, <3>1 DEF IndInv, TypeOK, Intent
    <3>. QED
      BY <1>1, <2>1, <3>1, <3>2, <2>0, VerdictIsTrue
  <2>2. ASSUME UNCHANGED <<broker, meta>>, disk' = gv' \/ disk' = disk,
               gv'[cur.sym].st \notin {"FAILED", "CLOSED"},
               \A t \in Symbols \ {cur.sym} : gv'[t] = gv[t]
        PROVE  TruthInv'
    <3>1. \A s \in Symbols : Claim(gv'[s].st, gv'[s].n)
      BY <1>1, <2>2 DEF Copies, Claim
    <3>. QED
      BY <2>2, <3>1, <2>0
  <2>3. CASE PersistPrepared \/ PersistSent
    <3>1. PICK st \in {"PREPARED", "NONE", "SENT", "UNCERTAIN"} : gv' = [gv EXCEPT ![cur.sym].st = st]
      BY <2>3 DEF PersistPrepared, PersistSent, Persist
    <3>2. pc # "idle" /\ UNCHANGED <<broker, meta>> /\ disk' = gv'
      BY <2>3 DEF PersistPrepared, PersistSent, Persist
    <3>3. gv'[cur.sym].st = st /\ \A t \in Symbols \ {cur.sym} : gv'[t] = gv[t]
      BY <1>1, <3>1, <3>2, Written DEF IntentStates
    <3>. QED
      BY <2>2, <3>2, <3>3
  <2>4. CASE MarkSent \/ ChaosBeforeSend \/ CallFails \/ CallBinds \/ CallUnbound
    <3>1. PICK st \in {"SENT", "UNCERTAIN", "FILLED"} :
            gv' = [gv EXCEPT ![cur.sym].st = st, ![cur.sym].tm = now]
      BY <2>4 DEF MarkSent, ChaosBeforeSend, CallFails, CallBinds, CallUnbound, SetUncertain
    <3>2. pc # "idle" /\ UNCHANGED <<broker, meta>> /\ (disk' = gv' \/ disk' = disk)
      BY <2>4 DEF MarkSent, ChaosBeforeSend, CallFails, CallBinds, CallUnbound, SetUncertain
    <3>3. gv'[cur.sym].st = st /\ \A t \in Symbols \ {cur.sym} : gv'[t] = gv[t]
      BY <1>1, <3>1, <3>2, Stamped DEF IntentStates
    <3>. QED
      BY <2>2, <3>2, <3>3
  <2>5. CASE CallBroker
    <3>1. \A s \in Symbols : \A g \in Copies(s) : g.n = cur.n => g.st = "SENT"
      BY <1>1, <2>5, HandlerFacts DEF CallBroker, IndInv, HandlerInv, Copies
    <3>2. \A n \in Nonces \ {cur.n} : broker'[n] = broker[n] /\ meta'[n] = meta[n]
      BY <1>1, <2>5 DEF CallBroker, IndInv, TypeOK
    <3>. QED
      BY <1>1, <2>5, <3>1, <3>2 DEF CallBroker, TruthInv, Copies, Legible
  <2>6. ASSUME NEW s \in Symbols, PrepareIntent(s) PROVE TruthInv'
    <3>1. gv'[s].st = "PREPARED" /\ \A t \in Symbols \ {s} : gv'[t] = gv[t]
      BY <1>1, <2>6 DEF PrepareIntent, IndInv, TypeOK
    <3>. QED
      BY <1>1, <2>6, <3>1 DEF PrepareIntent, TruthInv, Copies, Legible
  <2>7. ASSUME NEW n \in Nonces, broker[n] \in Live, UNCHANGED <<gv, disk>>,
               NEW st, broker' = [broker EXCEPT ![n] = st], st = "closed" \/ broker[n] # "part",
               \A m \in Nonces \ {n} : meta'[m] = meta[m]
        PROVE  TruthInv'
    <3>1. broker'[n] = st /\ \A m \in Nonces \ {n} : broker'[m] = broker[m]
      BY <1>1, <2>7 DEF IndInv, TypeOK
    <3>2. \A s \in Symbols : \A g \in Copies(s) : g.n = n =>
            g.st # "FAILED" /\ (g.st = "CLOSED" => broker[n] = "part")
      BY <1>1, <2>7 DEF TruthInv, Legible, Live, Listed
    <3>. QED
      BY <1>1, <2>7, <3>1, <3>2 DEF TruthInv, Copies, Legible
  <2>8. CASE UNCHANGED <<gv, disk, broker, meta>>
    BY <1>1, <2>8 DEF TruthInv, Copies, Legible
  <2>9. CASE TerminalCrash
    BY <1>1, <2>9 DEF TerminalCrash, TruthInv, Copies, Legible
  <2>10. ASSUME NEW n \in Nonces, NEW st \in Outcomes, NEW deal \in BOOLEAN, BrokerSettles(n, st, deal)
         PROVE  TruthInv'
    BY <1>1, <2>10, <2>7 DEF BrokerSettles, Live, IndInv, TypeOK
  <2>11. ASSUME NEW n \in Nonces, BrokerReduces(n) \/ BrokerCloses(n) PROVE TruthInv'
    <3>1. PICK st \in {"part", "closed"} : /\ broker[n] \in Live /\ broker' = [broker EXCEPT ![n] = st]
                                           /\ st = "closed" \/ broker[n] # "part"
                                           /\ UNCHANGED <<gv, disk, meta>>
      BY <2>11 DEF BrokerReduces, BrokerCloses, Live, Listed
    <3>. QED
      BY <3>1, <2>7
  <2>. QED
    BY <1>1, <2>1, <2>3, <2>4, <2>5, <2>6, <2>8, <2>9, <2>10, <2>11
       DEF Next, vars, Submission, Environment, ReconcileTimer, Start, Stop, EACrash,
           Observe, Disconnect, Reconnect, Tick
<1>2. TruthInv => SettlementIsTrue
  BY DEF TruthInv, SettlementIsTrue, Copies
<1>3. SUFFICES ASSUME HistoryMayMiss = FALSE PROVE Spec => []SettlementIsTrue
  OBVIOUS
<1>4. IndInv /\ TruthInv /\ [Next]_vars => TruthInv'
  BY <1>1, <1>3
<1>. QED
  BY <1>2, <1>4, InitInd, Invariance, PTL DEF Spec

(* The submission path implements SingleFlight: read off the broker, a step
   submits a fresh nonce where nothing is alive, ends what is alive, or changes
   nothing. *)
LEMMA FlightInit == Init => Flight!Init
BY DEF Init, Flight!Init, Live, Listed

LEMMA FlightStep == IndInv /\ [Next]_vars =>
  [Flight!Next]_<<[s \in Symbols |-> {n \in Nonces : broker[n] \in Live /\ meta[n].sym = s}],
                  {n \in Nonces : broker[n] # "none"}>>
<1> DEFINE live  == [s \in Symbols |-> {n \in Nonces : broker[n] \in Live /\ meta[n].sym = s}]
           spent == {n \in Nonces : broker[n] # "none"}
<1> SUFFICES ASSUME IndInv, [Next]_vars PROVE [Flight!Next]_<<live, spent>>
  OBVIOUS
<1>1. CASE UNCHANGED <<broker, meta>>
  BY <1>1
<1>2. CASE CallBroker
  <2>1. /\ cur.sym \in Symbols /\ cur.n \in Nonces /\ broker[cur.n] = "none"
        /\ \A n \in Nonces : meta[n].sym = cur.sym => broker[n] \notin Live
    BY <1>2, HandlerFacts, NothingLive DEF CallBroker, IndInv, HandlerInv, Writing
  <2>2. /\ broker' = [broker EXCEPT ![cur.n] = "inflight"]
        /\ meta'[cur.n].sym = cur.sym
        /\ \A n \in Nonces \ {cur.n} : meta'[n] = meta[n]
    BY <1>2, <2>1 DEF CallBroker, IndInv, TypeOK
  <2>3. broker'[cur.n] = "inflight" /\ \A n \in Nonces \ {cur.n} : broker'[n] = broker[n]
    BY <2>1, <2>2 DEF IndInv, TypeOK
  <2>4. live[cur.sym] = {} /\ cur.n \notin spent
    BY <2>1
  <2>5. live' = [live EXCEPT ![cur.sym] = {cur.n}]
    <3>1. \A s \in Symbols : live'[s] = [live EXCEPT ![cur.sym] = {cur.n}][s]
      BY <2>1, <2>2, <2>3 DEF Live, Listed
    <3>. QED
      BY <3>1
  <2>6. spent' = spent \cup {cur.n}
    BY <2>1, <2>3
  <2>. QED
    BY <2>1, <2>4, <2>5, <2>6 DEF Flight!Next, Flight!Submit
<1>3. ASSUME NEW n \in Nonces, NEW st \in OrderStates \ {"none"},
             broker[n] \in Live, broker' = [broker EXCEPT ![n] = st],
             \A m \in Nonces : meta'[m].sym = meta[m].sym
      PROVE  [Flight!Next]_<<live, spent>>
  <2>1. broker'[n] = st /\ \A m \in Nonces \ {n} : broker'[m] = broker[m]
    BY <1>3 DEF IndInv, TypeOK
  <2>2. spent' = spent
    BY <1>3, <2>1 DEF Live, Listed
  <2>3. CASE st \in Live
    <3>1. \A s \in Symbols : live'[s] = live[s]
      BY <1>3, <2>1, <2>3
    <3>. QED
      BY <2>2, <3>1
  <2>4. CASE st \notin Live
    <3>1. meta[n].sym \in Symbols
      BY <1>3, HaveSymbols
    <3>2. \A m \in Nonces : broker[m] \in Live /\ meta[m].sym = meta[n].sym => m = n
      BY <1>3 DEF IndInv, AtMostOneExposure
    <3>3. live[meta[n].sym] # {}
      BY <1>3, <3>1
    <3>4. \A s \in Symbols : live'[s] = [live EXCEPT ![meta[n].sym] = {}][s]
      BY <1>3, <2>1, <2>4, <3>1, <3>2
    <3>5. live' = [live EXCEPT ![meta[n].sym] = {}]
      BY <3>4
    <3>. QED
      BY <2>2, <3>1, <3>3, <3>5 DEF Flight!Next, Flight!Finish
  <2>. QED
    BY <2>3, <2>4
<1>4. ASSUME NEW n \in Nonces, NEW st \in Outcomes, NEW deal \in BOOLEAN, BrokerSettles(n, st, deal)
      PROVE  [Flight!Next]_<<live, spent>>
  <2>1. \A m \in Nonces : meta'[m].sym = meta[m].sym
    BY <1>4 DEF BrokerSettles, IndInv, TypeOK, Meta
  <2>. QED
    BY <1>3, <1>4, <2>1 DEF BrokerSettles, OrderStates, Outcomes, Live
<1>5. ASSUME NEW n \in Nonces, BrokerReduces(n) \/ BrokerCloses(n) PROVE [Flight!Next]_<<live, spent>>
  BY <1>3, <1>5 DEF BrokerReduces, BrokerCloses, OrderStates, Live, Listed
<1>. QED
  BY <1>1, <1>2, <1>4, <1>5
     DEF Next, vars, Submission, Environment, PrepareIntent, PersistPrepared, MarkSent,
         PersistSent, ChaosBeforeSend, CallFails, CallBinds, CallUnbound, ReconcileTimer,
         Start, Stop, EACrash, TerminalCrash, Observe, Disconnect, Reconnect, Tick

(* ExecutionIntent implements SingleFlight: no nonce is submitted twice and a
   symbol never has two orders alive, whatever is lost, retried or restarted. *)
THEOREM ImplementsSingleFlight == Spec => SubmitsOnce
BY FlightInit, FlightStep, Invariance, PTL DEF Spec, SubmitsOnce, Flight!Spec
=============================================================================
