----------------------- MODULE ApprovalWorkflowProofs -----------------------
(***************************************************************************)
(* Proofs about ApprovalWorkflow, for any number of symbols, setups and    *)
(* crashes: an order stands for one decision that was not withdrawn, and a *)
(* symbol has one prompt at most.                                          *)
(***************************************************************************)
EXTENDS ApprovalWorkflow, FiniteSetTheorems, SequenceTheorems, WellFoundedInduction,
        TLAPS

-----------------------------------------------------------------------------
(* The list of prompts. *)

LEMMA HasMinimum ==
    ASSUME NEW S, S \subseteq Nat, S # {}
    PROVE  Min(S) \in S /\ \A x \in S : Min(S) <= x
  <1>1. \E x \in S : \A y \in S : ~(<<y, x>> \in OpToRel(<, Nat))
    BY NatLessThanWellFounded, WFMin
  <1>2. \A x, y \in Nat : y < x => <<y, x>> \in OpToRel(<, Nat)
    BY DEF OpToRel
  <1>3. PICK x \in S : \A y \in S : ~(<<y, x>> \in OpToRel(<, Nat))
    BY <1>1
  <1>4. ASSUME NEW y \in S
        PROVE  x <= y
    <2>1. x \in Nat /\ y \in Nat
      OBVIOUS
    <2>2. ~(y < x)
      BY <1>2, <1>3, <2>1
    <2> QED
      BY <2>1, <2>2
  <1> QED
    BY <1>4 DEF Min

LEMMA ActiveForIs ==
    ASSUME NEW p \in Seq(Entry), NEW s
    PROVE  /\ ActiveFor(p, s) \in 0 .. Len(p)
           /\ ActiveFor(p, s) # 0 => p[ActiveFor(p, s)].sym = s
           /\ ActiveFor(p, s) = 0 => \A i \in DOMAIN p : p[i].sym # s
  <1> DEFINE hits == {i \in DOMAIN p : p[i].sym = s}
  <1>1. ActiveFor(p, s) = IF hits = {} THEN 0 ELSE Min(hits)
    BY DEF ActiveFor, Index
  <1>2. hits \subseteq Nat
    OBVIOUS
  <1>3. hits # {} => Min(hits) \in hits
    BY <1>2, HasMinimum
  <1> QED
    BY <1>1, <1>3

LEMMA LateIs ==
    ASSUME NEW p \in Seq(Entry), Index(p, Late) # 0
    PROVE  Index(p, Late) \in DOMAIN p
  <1> DEFINE hits == {i \in DOMAIN p : Late(p[i])}
  <1>1. Index(p, Late) = IF hits = {} THEN 0 ELSE Min(hits)
    BY DEF Index
  <1>2. hits \subseteq Nat
    OBVIOUS
  <1>3. hits # {} => Min(hits) \in hits
    BY <1>2, HasMinimum
  <1> QED
    BY <1>1, <1>3

LEMMA Removal ==
    ASSUME NEW p \in Seq(Entry), NEW i \in DOMAIN p
    PROVE  /\ RemoveAt(p, i) \in Seq(Entry)
           /\ Len(RemoveAt(p, i)) = Len(p) - 1
           /\ \A k \in DOMAIN RemoveAt(p, i) :
                  RemoveAt(p, i)[k] = p[IF k < i THEN k ELSE k + 1]
  <1> DEFINE a == SubSeq(p, 1, i - 1)
             b == SubSeq(p, i + 1, Len(p))
  <1>1. /\ a \in Seq(Entry) /\ Len(a) = i - 1
        /\ \A k \in 1 .. (i - 1) : a[k] = p[k]
    OBVIOUS
  <1>2. /\ b \in Seq(Entry) /\ Len(b) = Len(p) - i
        /\ \A k \in 1 .. (Len(p) - i) : b[k] = p[k + i]
    OBVIOUS
  <1>3. RemoveAt(p, i) = a \o b
    BY DEF RemoveAt
  <1> HIDE DEF a, b
  <1>4. a \o b \in Seq(Entry) /\ Len(a \o b) = Len(p) - 1
    BY <1>1, <1>2
  <1>5. ASSUME NEW k \in 1 .. (Len(p) - 1)
        PROVE  (a \o b)[k] = p[IF k < i THEN k ELSE k + 1]
    <2>1. CASE k < i
      <3>1. (a \o b)[k] = a[k]
        BY <1>1, <1>2, <2>1
      <3> QED
        BY <1>1, <2>1, <3>1
    <2>2. CASE ~(k < i)
      <3>1. (a \o b)[k] = b[k - (i - 1)]
        BY <1>1, <1>2, <2>2
      <3>2. k - (i - 1) \in 1 .. (Len(p) - i) /\ k - (i - 1) + i = k + 1
        BY <2>2
      <3> QED
        BY <1>2, <2>2, <3>1, <3>2
    <2> QED
      BY <2>1, <2>2
  <1>6. DOMAIN (a \o b) = 1 .. (Len(p) - 1)
    BY <1>4
  <1> HIDE DEF a, b
  <1> QED
    BY <1>3, <1>4, <1>5, <1>6

-----------------------------------------------------------------------------
(* Types. *)

LEMMA MovedType ==
    ASSUME NEW v \in Variables, NEW s \in Symbols, NEW to \in Life, NEW kind \in Kinds
    PROVE  /\ Moved(v, s, to) \in Variables /\ Moved(v, s, to).cool = v.cool
           /\ Waits(v, s, to, kind) \in Variables
           /\ Candidate(v, s) \in Variables
           /\ [Moved(v, s, to) EXCEPT !.kind[s] = kind] \in Variables
  <1>1. ASSUME NEW l \in Life
        PROVE  Moved(v, s, l) \in Variables /\ Moved(v, s, l).cool = v.cool
    <2> DEFINE f == [v.life EXCEPT ![s] = l]
    <2>1. f \in [Symbols -> Life]
      BY DEF Variables
    <2> HIDE DEF f
    <2>2. [v EXCEPT !.life = f] \in Variables /\ [v EXCEPT !.life = f].cool = v.cool
      BY <2>1 DEF Variables
    <2> QED
      BY <2>2 DEF Moved, f
  <1>2. ASSUME NEW w \in Variables
        PROVE  [w EXCEPT !.kind[s] = kind] \in Variables
    <2> DEFINE f == [w.kind EXCEPT ![s] = kind]
    <2>1. f \in [Symbols -> Kinds]
      BY DEF Variables
    <2> HIDE DEF f
    <2>2. [w EXCEPT !.kind = f] \in Variables
      BY <2>1 DEF Variables
    <2> QED
      BY <2>2 DEF f
  <1>3. "CANDIDATE" \in Life
    BY DEF Life
  <1> QED
    BY <1>1, <1>2, <1>3 DEF Waits, Candidate

LEMMA VerdictTypes ==
    ASSUME NEW v \in Variables, NEW s \in Symbols
    PROVE  /\ \A verdict \in {"ready", "wait", "none"} : Judged(v, s, verdict) \in Variables
           /\ Cooled(v, s) \in Variables
  <1>1. {"CANDIDATE", "WAIT", "INVALIDATED"} \subseteq Life
        /\ {"human", "market", "unspecified"} \subseteq Kinds
    BY DEF Life, Kinds
  <1>2. Candidate(v, s) \in Variables
    BY <1>1, MovedType
  <1>3. ASSUME NEW verdict \in {"ready", "wait", "none"}
        PROVE  Judged(v, s, verdict) \in Variables
    BY <1>1, <1>2, MovedType DEF Judged
  <1>4. Cooled(v, s) \in Variables
    <2> DEFINE c == [v EXCEPT !.cool = @ \cup {s}]
    <2>1. c \in Variables
      BY DEF Variables
    <2> HIDE DEF c
    <2>2. [Moved(c, s, "INVALIDATED") EXCEPT !.kind[s] = "unspecified"] \in Variables
      BY <1>1, <2>1, MovedType
    <2> QED
      BY <2>1, <2>2 DEF Cooled, c
  <1> QED
    BY <1>3, <1>4

LEMMA ReconciledType ==
    ASSUME NEW v \in Variables, NEW p
    PROVE  Reconciled(v, p) \in Variables
  <1> DEFINE f == [s \in Symbols |->
                     IF s \in Stale(v, p) THEN "INVALIDATED" ELSE v.life[s]]
             k == [s \in Symbols |->
                     IF s \in Stale(v, p) THEN "unspecified" ELSE v.kind[s]]
  <1>1. f \in [Symbols -> Life] /\ k \in [Symbols -> Kinds]
    BY DEF Variables, Life, Kinds
  <1>2. Reconciled(v, p) = [v EXCEPT !.life = f, !.kind = k]
    BY DEF Reconciled
  <1> HIDE DEF f, k
  <1>3. [v EXCEPT !.life = f, !.kind = k] \in Variables
    BY <1>1, Zenon DEF Variables
  <1> QED
    BY <1>2, <1>3

LEMMA BookType ==
    ASSUME NEW p \in Seq(Entry)
    PROVE  Book(p) \in [Symbols -> Setup0]
  <1>1. ASSUME NEW s \in Symbols, ActiveFor(p, s) # 0
        PROVE  p[ActiveFor(p, s)].id \in Setup0
    <2>1. ActiveFor(p, s) \in DOMAIN p
      BY <1>1, ActiveForIs
    <2>2. p[ActiveFor(p, s)] \in Entry
      BY <2>1
    <2> QED
      BY <2>2, WorkflowAssumption DEF Entry, Setups, Setup0
  <1>2. 0 \in Setup0
    BY WorkflowAssumption DEF Setup0
  <1> QED
    BY <1>1, <1>2 DEF Book

LEMMA PaintedType ==
    ASSUME NEW p \in Seq(Entry), NEW none
    PROVE  Bound(p, none) \in 0 .. Len(p) /\ Painted(p, none) \in Setup0
  <1>1. 0 \in Setup0
    BY WorkflowAssumption DEF Setup0
  <1>2. Bound(p, none) \in 0 .. Len(p)
    BY ActiveForIs DEF Bound
  <1>3. CASE Bound(p, none) # 0
    <2>1. p[Bound(p, none)] \in Entry
      BY <1>2, <1>3
    <2> QED
      BY <1>2, <1>3, <2>1, WorkflowAssumption DEF Painted, Entry, Setups, Setup0
  <1>4. CASE Bound(p, none) = 0
    BY <1>1, <1>2, <1>4 DEF Painted
  <1> QED
    BY <1>3, <1>4

LEMMA RedrawType ==
    ASSUME NEW p \in Seq(Entry), NEW none, Redraw(p, none)
    PROVE  display' \in 0 .. Len(p) /\ shown' \in Setup0
  BY PaintedType DEF Redraw

LEMMA RenderType ==
    ASSUME NEW p \in Seq(Entry), RenderPrompt(p)
    PROVE  display' \in 0 .. Len(p) /\ shown' = shown
  BY DEF RenderPrompt, FirstActive

LEMMA TypeStart == Init => TypeOK
  <1> SUFFICES ASSUME Init
               PROVE  TypeOK
    OBVIOUS
  <1>1. Fresh \in Variables
    BY DEF Fresh, Variables, Life, Kinds
  <1>2. 0 \in Setup0 /\ NoBook \in [Symbols -> Setup0]
    BY WorkflowAssumption DEF Setup0, NoBook
  <1>3. /\ disk \in [book : [Symbols -> Setup0], paused : BOOLEAN, gv : Variables]
        /\ gv \in Variables
    BY <1>1, <1>2 DEF Init
  <1>4. pending \in Seq(Entry) /\ display \in 0 .. Len(pending)
    BY DEF Init
  <1>5. /\ orders \in [Setups -> Nat] /\ made \in Setup0 /\ expired \in 0 .. made
        /\ crashes \in 0 .. MaxCrashes /\ shown \in Setup0
    BY <1>2, WorkflowAssumption DEF Init
  <1> QED
    BY <1>3, <1>4, <1>5 DEF Init, TypeOK

(* Removing the entry at i, and what a denial or a timeout adds to it.      *)
LEMMA DeleteType ==
    ASSUME TypeOK, NEW i \in DOMAIN pending, NEW cools \in BOOLEAN, Delete(i, cools)
    PROVE  /\ pending' \in Seq(Entry) /\ gv' \in Variables
           /\ closing' \subseteq Setups /\ saving' \in BOOLEAN
  <1>1. pending[i] \in Entry /\ pending[i].sym \in Symbols /\ pending[i].id \in Setups
    <2>1. pending[i] \in Entry
      BY DEF TypeOK
    <2> QED
      BY <2>1 DEF Entry
  <1>2. pending' \in Seq(Entry)
    BY Removal DEF Delete, TypeOK
  <1>3. gv' \in Variables
    BY <1>1, VerdictTypes DEF Delete, TypeOK
  <1> QED
    BY <1>1, <1>2, <1>3 DEF Delete, TypeOK

(* What OnInit recovers, in any order: the prompts saved and not expired.   *)
LEMMA RecoveredIs ==
    ASSUME TypeOK, Start
    PROVE  /\ pending' \in Seq(Entry)
           /\ \A i, j \in DOMAIN pending' : pending'[i].sym = pending'[j].sym => i = j
           /\ \A i \in DOMAIN pending' : /\ pending'[i].sym \in Symbols
                                         /\ pending'[i].id = disk.book[pending'[i].sym]
  <1> DEFINE alive == {s \in Symbols : disk.book[s] > expired}
             n == Cardinality(alive)
  <1>1. PICK at \in [1 .. n -> alive] :
            /\ \A i, j \in 1 .. n : i < j => at[i] < at[j]
            /\ pending' = [i \in 1 .. n |-> [sym |-> at[i], id |-> disk.book[at[i]]]]
    BY DEF Start
  <1>2. n \in Nat
    <2>1. IsFiniteSet(Symbols)
      BY FS_Interval, WorkflowAssumption DEF Symbols
    <2> QED
      BY <2>1, FS_Subset, FS_CardinalityType
  <1>3. \A s \in alive : s \in Symbols /\ disk.book[s] \in Setups
    BY WorkflowAssumption DEF TypeOK, Setup0, Setups
  <1> HIDE DEF n, alive
  <1>4. DOMAIN pending' = 1 .. n /\ \A i \in 1 .. n : at[i] \in alive
    BY <1>1
  <1>5. ASSUME NEW i \in 1 .. n
        PROVE  /\ pending'[i] \in Entry /\ pending'[i].sym = at[i]
               /\ pending'[i].id = disk.book[at[i]]
    BY <1>1, <1>3, <1>4 DEF Entry
  <1>6. pending' \in Seq(Entry)
    <2>1. pending' \in [1 .. n -> Entry]
      BY <1>1, <1>5
    <2>2. pending' \in UNION {[1 .. m -> Entry] : m \in Nat}
      BY <1>2, <2>1
    <2> QED
      BY <2>2, SeqDef, Zenon
  <1>7. \A i, j \in 1 .. n : at[i] = at[j] => i = j
    <2>1. \A i \in 1 .. n : at[i] \in Int
      BY <1>3, <1>4 DEF Symbols
    <2> QED
      BY <1>1, <1>2, <2>1
  <1> QED
    BY <1>3, <1>4, <1>5, <1>6, <1>7

AtWork == pc \in {"validate", "send", "sent"}

Busy == AtWork => cur \in Entry

LEMMA BusyStep == TypeOK /\ Busy /\ [Next]_vars => Busy'
  <1> SUFFICES ASSUME TypeOK, Busy, [Next]_vars, AtWork'
               PROVE  cur' \in Entry
    BY DEF Busy
  <1>1. ASSUME NEW click, ClickApproves(click)
        PROVE  cur' \in Entry
    BY <1>1 DEF ClickApproves, TypeOK
  <1>2. CASE Saved \/ Send \/ Expire \/ UNCHANGED vars
    BY <1>2 DEF Saved, Send, Expire, vars, Busy, AtWork
  <1>3. CASE Place
    BY <1>3 DEF Place, Finish, Busy, AtWork
  <1>4. ASSUME NEW s \in Symbols, Scan(s)
        PROVE  cur' \in Entry
    BY <1>4 DEF Scan, ScanDeferred, ScanRejects, ScanQueues, Idle, AtWork
  <1>5. ASSUME NEW s \in Symbols, CooldownEnds(s) \/ PositionEnds(s)
        PROVE  cur' \in Entry
    BY <1>5 DEF CooldownEnds, PositionEnds, Busy, AtWork
  <1>6. ASSUME NEW click, ClickIgnored \/ ClickRefuses(click)
        PROVE  cur' \in Entry
    BY <1>6 DEF ClickIgnored, ClickRefuses, Idle, AtWork
  <1>7. CASE Timer \/ Tick \/ TogglePause \/ TimeOut \/ TimerEnds
    BY <1>7 DEF Timer, Tick, TogglePause, TimeOut, TimerEnds, Idle, AtWork
  <1>8. CASE ValidationFails \/ SendEnds \/ ClearOne \/ Start \/ Crash
    BY <1>8 DEF ValidationFails, SendEnds, ClearOne, Start, Crash, Finish, AtWork
  <1> QED
    BY <1>1, <1>2, <1>3, <1>4, <1>5, <1>6, <1>7, <1>8
       DEF Next, HandleClick, Running

LEMMA TypeStep == TypeOK /\ Busy /\ [Next]_vars => TypeOK'
  <1> SUFFICES ASSUME TypeOK, Busy, [Next]_vars
               PROVE  TypeOK'
    OBVIOUS
  <1>0. /\ pending \in Seq(Entry) /\ gv \in Variables /\ cur \in Entry \cup {NoEntry}
        /\ 0 \in Setup0 /\ made \in Nat /\ expired \in Nat /\ expired <= made
    BY WorkflowAssumption DEF TypeOK, Setup0
  <1>1. ASSUME NEW s \in Symbols, ScanDeferred(s)
        PROVE  TypeOK'
    <2>1. display' \in 0 .. Len(pending') /\ shown' \in Setup0
      BY <1>0, <1>1, RedrawType DEF ScanDeferred
    <2> QED
      BY <1>1, <2>1 DEF ScanDeferred, TypeOK, history
  <1>2. ASSUME NEW s \in Symbols, NEW verdict \in {"wait", "none"},
               ScanRejects(s, verdict)
        PROVE  TypeOK'
    <2>1. pending' \in Seq(Entry) /\ saving' \in BOOLEAN
      <3>1. CASE HasPending(s)
        <4>1. ActiveFor(pending, s) \in DOMAIN pending
          BY <1>0, <3>1, ActiveForIs DEF HasPending
        <4> QED
          BY <1>0, <1>2, <3>1, <4>1, Removal DEF ScanRejects
      <3>2. CASE ~HasPending(s)
        BY <1>0, <1>2, <3>2 DEF ScanRejects, TypeOK
      <3> QED
        BY <3>1, <3>2
    <2>2. gv' \in Variables
      BY <1>0, <1>2, VerdictTypes DEF ScanRejects
    <2>3. display' \in 0 .. Len(pending') /\ shown' \in Setup0
      BY <1>2, <2>1, RedrawType DEF ScanRejects
    <2>4. noTrade' \in BOOLEAN
      BY <1>2 DEF ScanRejects, TypeOK
    <2> QED
      BY <1>2, <2>1, <2>2, <2>3, <2>4 DEF ScanRejects, TypeOK, history
  <1>3. ASSUME NEW s \in Symbols, NEW suppressed \in BOOLEAN, ScanQueues(s, suppressed)
        PROVE  TypeOK'
    <2>1. pending' \in Seq(Entry) /\ saving' \in BOOLEAN /\ made' \in Setup0
          /\ expired <= made'
      <3>1. CASE suppressed
        BY <1>0, <1>3, <3>1 DEF ScanQueues, TypeOK
      <3>2. CASE ~suppressed
        <4> DEFINE e == [sym |-> s, id |-> made']
        <4>1. made' = made + 1 /\ made' \in Setups /\ e \in Entry
          BY <1>0, <1>3, <3>2, WorkflowAssumption DEF ScanQueues, Setups, Entry
        <4> HIDE DEF e
        <4>2. Append(pending, e) \in Seq(Entry)
          BY <1>0, <4>1
        <4>3. HasPending(s) => ActiveFor(pending, s) \in 1 .. Len(pending)
          BY <1>0, ActiveForIs DEF HasPending
        <4>4. HasPending(s) => [pending EXCEPT ![ActiveFor(pending, s)] = e] \in Seq(Entry)
          BY <1>0, <4>1, <4>3
        <4>5. pending' \in Seq(Entry) /\ saving' = TRUE
          BY <1>3, <3>2, <4>2, <4>4 DEF ScanQueues, e
        <4> QED
          BY <1>0, <4>1, <4>5 DEF Setups, Setup0
      <3> QED
        BY <3>1, <3>2
    <2>2. gv' \in Variables
      BY <1>0, <1>3, VerdictTypes DEF ScanQueues
    <2>3. display' \in 0 .. Len(pending') /\ shown' \in Setup0
      BY <1>3, <2>1, RedrawType DEF ScanQueues
    <2>4. noTrade' \in BOOLEAN
      BY <1>3 DEF ScanQueues, TypeOK
    <2>5. expired' \in 0 .. made'
      BY <1>0, <1>3, <2>1 DEF ScanQueues, Setup0
    <2> QED
      BY <1>3, <2>1, <2>2, <2>3, <2>4, <2>5 DEF ScanQueues, TypeOK, history
  <1>4. ASSUME Timer \/ Tick \/ ClickIgnored
        PROVE  TypeOK'
    <2>1. CASE Timer \/ ClickIgnored
      BY <1>0, <2>1, RedrawType DEF Timer, ClickIgnored, TypeOK, history
    <2>2. CASE Tick
      <3>1. display' \in 0 .. Len(pending) /\ shown' \in Setup0
        BY <1>0, <2>2, RedrawType, RenderType, PaintedType DEF Tick, FirstActive, TypeOK
      <3> QED
        BY <1>0, <2>2, <3>1 DEF Tick, TypeOK, history
    <2> QED
      BY <1>4, <2>1, <2>2
  <1>5. CASE TimeOut
    <2>1. Index(pending, Late) \in DOMAIN pending
      BY <1>0, <1>5, LateIs DEF TimeOut
    <2>2. /\ pending' \in Seq(Entry) /\ gv' \in Variables
          /\ closing' \subseteq Setups /\ saving' \in BOOLEAN
      BY <1>5, <2>1, DeleteType DEF TimeOut
    <2>3. display' \in 0 .. Len(pending') /\ shown' \in Setup0
      BY <1>5, <2>2, RenderType DEF TimeOut, TypeOK
    <2> QED
      BY <1>5, <2>2, <2>3 DEF TimeOut, TypeOK
  <1>6. CASE TimerEnds
    <2>1. display' \in 0 .. Len(pending') /\ shown' \in Setup0
      BY <1>0, <1>6, RenderType DEF TimerEnds, TypeOK
    <2>2. gv' \in Variables
      BY <1>0, <1>6, ReconciledType DEF TimerEnds
    <2> QED
      BY <1>6, <2>1, <2>2 DEF TimerEnds, TypeOK, history
  <1>7. ASSUME NEW click, ClickRefuses(click)
        PROVE  TypeOK'
    <2>1. display \in DOMAIN pending
      BY <1>0, <1>7 DEF ClickRefuses, TypeOK
    <2>2. /\ pending' \in Seq(Entry) /\ gv' \in Variables
          /\ closing' \subseteq Setups /\ saving' \in BOOLEAN
      BY <1>7, <2>1, DeleteType DEF ClickRefuses
    <2>3. display' \in 0 .. Len(pending') /\ shown' \in Setup0
      BY <1>7, <2>2, RedrawType DEF ClickRefuses
    <2> QED
      BY <1>7, <2>2, <2>3 DEF ClickRefuses, TypeOK
  <1>8. ASSUME NEW click, ClickApproves(click)
        PROVE  TypeOK'
    <2>1. display \in DOMAIN pending
      BY <1>0, <1>8 DEF ClickApproves, TypeOK
    <2>2. pending' \in Seq(Entry) /\ cur' \in Entry
      BY <1>0, <1>8, <2>1, Removal DEF ClickApproves
    <2>3. display' \in 0 .. Len(pending') /\ shown' \in Setup0
      BY <1>8, <2>2, RenderType DEF ClickApproves, TypeOK
    <2> QED
      BY <1>8, <2>2, <2>3 DEF ClickApproves, TypeOK
  <1>9. CASE ValidationFails
    <2>1. display' \in 0 .. Len(pending') /\ shown' \in Setup0
      BY <1>0, <1>9, RedrawType DEF ValidationFails, Finish
    <2>2. gv' \in Variables
      <3>1. cur.sym \in Symbols /\ "INVALIDATED" \in Life /\ "human" \in Kinds
        BY <1>9 DEF ValidationFails, Busy, AtWork, Entry, Life, Kinds
      <3> QED
        BY <1>0, <1>9, <3>1, MovedType DEF ValidationFails
    <2> QED
      BY <1>9, <2>1, <2>2 DEF ValidationFails, Finish, TypeOK, history
  <1>10. CASE Place
    <2> DEFINE a == Candidate(gv, cur.sym)
               v == Moved(a, cur.sym, "APPROVED")
               w == Moved(v, cur.sym, "SENT")
    <2>1. /\ cur.sym \in Symbols /\ {"APPROVED", "SENT"} \subseteq Life
          /\ "human" \in Kinds
      BY <1>10 DEF Place, Busy, AtWork, Entry, Life, Kinds
    <2>2. v \in Variables /\ w \in Variables
      <3>1. a \in Variables
        BY <1>0, <2>1, MovedType
      <3> HIDE DEF a
      <3>2. v \in Variables
        BY <2>1, <3>1, MovedType
      <3> HIDE DEF v
      <3> QED
        BY <2>1, <3>2, MovedType
    <2>3. disk' = [disk EXCEPT !.gv = v] /\ gv' = w
      BY <1>10 DEF Place
    <2> HIDE DEF v, w
    <2>4. disk' \in [book : [Symbols -> Setup0], paused : BOOLEAN, gv : Variables]
      BY <2>2, <2>3 DEF TypeOK
    <2>5. display' \in 0 .. Len(pending') /\ shown' \in Setup0
      BY <1>0, <1>10, RedrawType DEF Place, Finish, TypeOK, panel
    <2>6. pc' \in {"send", "idle"} /\ cur' \in {cur, NoEntry}
      BY <1>10 DEF Place, Finish
    <2> QED
      BY <1>10, <2>2, <2>3, <2>4, <2>5, <2>6 DEF Place, TypeOK, history
  <1>11. CASE Send
    <2>1. cur \in Entry
      BY <1>11 DEF Send, Busy, AtWork
    <2>2. cur.sym \in Symbols /\ cur.id \in Setups
      BY <2>1 DEF Entry
    <2>3. orders' \in [Setups -> Nat]
      <3>1. orders \in [Setups -> Nat] /\ orders[cur.id] + 1 \in Nat
        BY <2>2 DEF TypeOK
      <3>2. orders' = [orders EXCEPT ![cur.id] = orders[cur.id] + 1]
        BY <1>11 DEF Send
      <3> QED
        BY <3>1, <3>2
    <2>4. open' \subseteq Symbols
      BY <1>11, <2>2 DEF Send, TypeOK
    <2> QED
      BY <1>11, <2>3, <2>4 DEF Send, TypeOK, panel
  <1>12. CASE SendEnds
    <2>1. display' \in 0 .. Len(pending') /\ shown' \in Setup0
      BY <1>0, <1>12, RedrawType DEF SendEnds, Finish
    <2> QED
      BY <1>12, <2>1 DEF SendEnds, Finish, TypeOK, history
  <1>13. CASE TogglePause
    <2>1. display' \in 0 .. Len(pending') /\ shown' \in Setup0
      BY <1>0, <1>13, RedrawType DEF TogglePause
    <2> QED
      BY <1>13, <2>1 DEF TogglePause, TypeOK, history
  <1>14. CASE ClearOne
    <2>1. CASE pending = <<>>
      BY <1>14, <2>1 DEF ClearOne, TypeOK
    <2>2. CASE pending # <<>>
      <3>1. 1 \in DOMAIN pending
        BY <1>0, <2>2
      <3>2. /\ pending' \in Seq(Entry) /\ gv' \in Variables
            /\ closing' \subseteq Setups /\ saving' \in BOOLEAN
        BY <1>14, <2>2, <3>1, DeleteType DEF ClearOne
      <3>3. display' \in 0 .. Len(pending') /\ shown' \in Setup0
        BY <1>14, <2>2, <3>2, RenderType DEF ClearOne, TypeOK
      <3> QED
        BY <1>14, <2>2, <3>2, <3>3 DEF ClearOne, TypeOK
    <2> QED
      BY <2>1, <2>2
  <1>15. CASE Saved
    <2>1. disk' \in [book : [Symbols -> Setup0], paused : BOOLEAN, gv : Variables]
      BY <1>0, <1>15, BookType DEF Saved, Snapshot, TypeOK
    <2> QED
      BY <1>15, <2>1 DEF Saved, TypeOK, panel
  <1>16. CASE Crash
    <2>1. disk' \in [book : [Symbols -> Setup0], paused : BOOLEAN, gv : Variables]
      BY <1>0, <1>16, BookType DEF Crash, Snapshot, TypeOK
    <2>2. gv' \in Variables /\ paused' \in BOOLEAN
      BY <1>16, <2>1 DEF Crash
    <2>3. pending' \in Seq(Entry) /\ display' \in 0 .. Len(pending') /\ shown' \in Setup0
      BY <1>0, <1>16 DEF Crash
    <2>4. crashes' \in 0 .. MaxCrashes
      BY <1>16, WorkflowAssumption DEF Crash, TypeOK
    <2> QED
      BY <1>16, <2>1, <2>2, <2>3, <2>4 DEF Crash, TypeOK
  <1>17. CASE Start
    <2>1. pending' \in Seq(Entry)
      BY <1>17, RecoveredIs
    <2>2. gv' \in Variables
      <3> DEFINE late == {s \in Symbols : disk.book[s] \in 1 .. expired}
                 v == [gv EXCEPT !.cool = @ \cup late]
      <3>1. late \subseteq Symbols
        OBVIOUS
      <3> HIDE DEF late
      <3>2. v \in Variables
        BY <1>0, <3>1 DEF Variables
      <3> HIDE DEF v
      <3>3. gv' = Reconciled(v, pending')
        BY <1>17 DEF Start, v, late
      <3> QED
        BY <3>2, <3>3, ReconciledType
    <2>3. display' \in 0 .. Len(pending')
      <3>1. Len(pending') \in Nat /\ (pending' # <<>> => Len(pending') >= 1)
        BY <2>1
      <3>2. display' = IF pending' = <<>> THEN 0 ELSE 1
        BY <1>17 DEF Start, FirstActive
      <3> QED
        BY <3>1, <3>2
    <2>4. shown' \in Setup0
      <3> DEFINE b == Bound(pending', noTrade')
      <3>1. b \in 0 .. Len(pending')
        BY <2>1, ActiveForIs DEF Bound
      <3>2. shown' = IF b = 0 THEN 0 ELSE pending'[b].id
        BY <1>17 DEF Start
      <3>3. b # 0 => pending'[b] \in Entry
        BY <2>1, <3>1
      <3> HIDE DEF b
      <3> QED
        BY <1>0, <3>2, <3>3, WorkflowAssumption DEF Entry, Setups, Setup0
    <2> QED
      BY <1>17, <2>1, <2>2, <2>3, <2>4 DEF Start, TypeOK, history
  <1>18. CASE Expire
    BY <1>0, <1>18 DEF Expire, TypeOK, panel, history
  <1>19. ASSUME NEW s \in Symbols, CooldownEnds(s)
         PROVE  TypeOK'
    <2>1. /\ [gv EXCEPT !.cool = @ \ {s}] \in Variables
          /\ [disk.gv EXCEPT !.cool = @ \ {s}] \in Variables
      BY <1>0 DEF TypeOK, Variables
    <2>2. gv' \in Variables
      BY <1>19, <2>1 DEF CooldownEnds
    <2>3. disk' = [disk EXCEPT !.gv = [disk.gv EXCEPT !.cool = @ \ {s}]]
      BY <1>19 DEF CooldownEnds
    <2>4. disk' \in [book : [Symbols -> Setup0], paused : BOOLEAN, gv : Variables]
      BY <2>1, <2>3 DEF TypeOK
    <2> QED
      BY <1>19, <2>2, <2>4 DEF CooldownEnds, TypeOK, panel, history
  <1>20. ASSUME NEW s \in Symbols, PositionEnds(s)
         PROVE  TypeOK'
    BY <1>20 DEF PositionEnds, TypeOK, panel, history
  <1>21. CASE UNCHANGED vars
    BY <1>21 DEF vars, TypeOK, panel, history
  <1> QED
    BY <1>1, <1>2, <1>3, <1>4, <1>5, <1>6, <1>7, <1>8, <1>9, <1>10, <1>11,
       <1>12, <1>13, <1>14, <1>15, <1>16, <1>17, <1>18, <1>19, <1>20, <1>21
       DEF Next, Scan, HandleClick, Running

-----------------------------------------------------------------------------
(* The lists of prompts that occur: one prompt for each symbol and setup.   *)

OneEach(p) ==
    \A i, j \in DOMAIN p : p[i].sym = p[j].sym \/ p[i].id = p[j].id => i = j

Ids(p) == {p[i].id : i \in DOMAIN p}

LEMMA RemovalKeeps ==
    ASSUME NEW p \in Seq(Entry), NEW i \in DOMAIN p, OneEach(p)
    PROVE  /\ OneEach(RemoveAt(p, i))
           /\ Ids(RemoveAt(p, i)) \subseteq Ids(p) \ {p[i].id}
  <1> DEFINE q == RemoveAt(p, i)
             up(k) == IF k < i THEN k ELSE k + 1
  <1>1. /\ q \in Seq(Entry) /\ Len(q) = Len(p) - 1
        /\ \A k \in DOMAIN q : q[k] = p[up(k)]
    BY Removal
  <1> HIDE DEF q
  <1>2. \A k \in DOMAIN q : up(k) \in DOMAIN p /\ up(k) # i
    BY <1>1
  <1>3. \A k, l \in DOMAIN q : up(k) = up(l) => k = l
    BY <1>1
  <1> HIDE DEF up
  <1>4. OneEach(q)
    BY <1>1, <1>2, <1>3 DEF OneEach
  <1>5. ASSUME NEW k \in DOMAIN q
        PROVE  q[k].id \in Ids(p) \ {p[i].id}
    BY <1>1, <1>2, <1>5 DEF OneEach, Ids
  <1>6. Ids(q) \subseteq Ids(p) \ {p[i].id}
    BY <1>5 DEF Ids
  <1> QED
    BY <1>4, <1>6 DEF q

(* QueueForApproval: the symbol's prompt is replaced, or the new one added. *)
Queued(p, e) ==
    IF ActiveFor(p, e.sym) # 0 THEN [p EXCEPT ![ActiveFor(p, e.sym)] = e] ELSE Append(p, e)

LEMMA QueuedKeeps ==
    ASSUME NEW p \in Seq(Entry), OneEach(p), NEW e \in Entry, e.id \notin Ids(p)
    PROVE  /\ OneEach(Queued(p, e))
           /\ Ids(Queued(p, e)) \subseteq Ids(p) \cup {e.id}
  <1> DEFINE a == ActiveFor(p, e.sym)
             q == Queued(p, e)
  <1>0. q = IF a # 0 THEN [p EXCEPT ![a] = e] ELSE Append(p, e)
    BY DEF Queued
  <1> HIDE DEF q
  <1>1. CASE a # 0
    <2>1. a \in DOMAIN p /\ p[a].sym = e.sym
      BY <1>1, ActiveForIs
    <2>2. q = [p EXCEPT ![a] = e]
      BY <1>0, <1>1
    <2> HIDE DEF a
    <2>3. DOMAIN q = DOMAIN p /\ \A k \in DOMAIN p : q[k] = IF k = a THEN e ELSE p[k]
      BY <2>2, <2>1
    <2>4. OneEach(q)
      BY <2>1, <2>3 DEF OneEach, Ids
    <2> QED
      BY <2>3, <2>4 DEF Ids, q
  <1>2. CASE a = 0
    <2>1. \A k \in DOMAIN p : p[k].sym # e.sym
      BY <1>2, ActiveForIs
    <2>2. q = Append(p, e)
      BY <1>0, <1>2
    <2>3. /\ DOMAIN q = 1 .. (Len(p) + 1) /\ DOMAIN p = 1 .. Len(p) /\ Len(p) \in Nat
          /\ \A k \in DOMAIN p : q[k] = p[k]
          /\ q[Len(p) + 1] = e
      BY <2>2
    <2>4. DOMAIN q = DOMAIN p \cup {Len(p) + 1}
      BY <2>3
    <2>5. OneEach(q)
      BY <2>1, <2>3, <2>4 DEF OneEach, Ids
    <2> QED
      BY <2>3, <2>4, <2>5 DEF Ids, q
  <1> QED
    BY <1>1, <1>2 DEF q

LEMMA BookIs ==
    ASSUME NEW p \in Seq(Entry), OneEach(p), NEW s \in Symbols, Book(p)[s] # 0
    PROVE  /\ Book(p)[s] \in Ids(p)
           /\ \A t \in Symbols : Book(p)[s] = Book(p)[t] => s = t
  <1>1. ASSUME NEW t \in Symbols, Book(p)[t] # 0
        PROVE  \E i \in DOMAIN p : Book(p)[t] = p[i].id /\ p[i].sym = t
    <2>1. ActiveFor(p, t) # 0 /\ Book(p)[t] = p[ActiveFor(p, t)].id
      BY <1>1 DEF Book
    <2>2. ActiveFor(p, t) \in DOMAIN p /\ p[ActiveFor(p, t)].sym = t
      BY <2>1, ActiveForIs
    <2> QED
      BY <2>1, <2>2
  <1>2. Book(p)[s] \in Ids(p)
    BY <1>1 DEF Ids
  <1>3. ASSUME NEW t \in Symbols, Book(p)[s] = Book(p)[t]
        PROVE  s = t
    BY <1>1, <1>3 DEF OneEach
  <1> QED
    BY <1>2, <1>3

-----------------------------------------------------------------------------
(* The inductive invariant.  What waits, in memory or on disk, was neither  *)
(* sent nor refused; the entry being worked on has left both, and the save  *)
(* that took it out of the disk comes before the order.                     *)

Untouched(x) == x <= made /\ orders[x] = 0 /\ x \notin refused

Prompts ==
    /\ OneEach(pending)
    /\ \A x \in Ids(pending) : Untouched(x) /\ x \notin closing /\ x # cur.id

Durable ==
    \A s \in Symbols : disk.book[s] # 0 =>
        /\ Untouched(disk.book[s])
        /\ AtWork /\ ~saving => disk.book[s] # cur.id
        /\ \A t \in Symbols : disk.book[s] = disk.book[t] => s = t

Worked ==
    /\ AtWork => /\ Untouched(cur.id) \/ pc = "sent"
                 /\ cur.id <= made /\ cur.id \notin closing \cup refused
                 /\ pc # "validate" => ~saving
    /\ ~AtWork => cur = NoEntry

Withdrawn ==
    /\ closing # {} => saving
    /\ \A x \in closing \cup refused : x <= made /\ orders[x] = 0

Counted == \A x \in Setups : orders[x] <= 1 /\ (x > made => orders[x] = 0)

Stopped == pc = "down" => pending = <<>> /\ closing = {}

Core == Prompts /\ Durable /\ Worked /\ Withdrawn /\ Counted /\ Stopped

IInv == TypeOK /\ Busy /\ Core

LEMMA CoreStart == Init => Core
  <1> SUFFICES ASSUME Init
               PROVE  Core
    OBVIOUS
  <1>1. /\ pending = <<>> /\ cur = NoEntry /\ made = 0 /\ orders = [i \in Setups |-> 0]
        /\ closing = {} /\ refused = {} /\ pc = "down" /\ disk.book = NoBook
    BY DEF Init
  <1>2. Prompts
    BY <1>1 DEF Prompts, OneEach, Ids
  <1>3. Durable
    BY <1>1 DEF Durable, NoBook
  <1>4. Worked
    BY <1>1 DEF Worked, AtWork
  <1>5. Withdrawn /\ Counted /\ Stopped
    BY <1>1 DEF Withdrawn, Counted, Stopped
  <1> QED
    BY <1>2, <1>3, <1>4, <1>5 DEF Core

(* Steps that leave the prompts, what is durable and the history alone and  *)
(* whose handler is not an approval, before or after; or that are part of   *)
(* none.                                                                    *)
History == <<pending, disk.book, cur, made, closing, refused, orders>>

LEMMA QuietStep ==
    ASSUME Core, UNCHANGED History,
           \/ UNCHANGED <<pc, saving>>
           \/ ~AtWork /\ ~AtWork' /\ pc' # "down" /\ saving' \in {saving, TRUE}
    PROVE  Core'
  <1>0. /\ pending' = pending /\ disk'.book = disk.book /\ cur' = cur /\ made' = made
        /\ closing' = closing /\ refused' = refused /\ orders' = orders
    BY DEF History
  <1>1. Prompts'
    <2>1. OneEach(pending') /\ Ids(pending') = Ids(pending)
      BY <1>0 DEF Core, Prompts
    <2> QED
      BY <1>0, <2>1 DEF Core, Prompts, Untouched
  <1>2. Durable'
    <2>1. CASE UNCHANGED <<pc, saving>>
      BY <1>0, <2>1 DEF Core, Durable, Untouched, AtWork
    <2>2. CASE ~AtWork'
      BY <1>0, <2>2 DEF Core, Durable, Untouched
    <2> QED
      BY <2>1, <2>2
  <1>3. Worked'
    <2>1. CASE UNCHANGED <<pc, saving>>
      BY <1>0, <2>1 DEF Core, Worked, Untouched, AtWork
    <2>2. CASE ~AtWork /\ ~AtWork'
      BY <1>0, <2>2 DEF Core, Worked
    <2> QED
      BY <2>1, <2>2
  <1>4. Withdrawn' /\ Counted' /\ Stopped'
    BY DEF Core, Withdrawn, Counted, Stopped, History
  <1> QED
    BY <1>1, <1>2, <1>3, <1>4 DEF Core

(* An approval that ends, with a save to come or without one.               *)
LEMMA FinishStep ==
    ASSUME TypeOK, Busy, Core, AtWork, ~saving, pc' = "idle", cur' = NoEntry,
           UNCHANGED <<pending, disk.book, made, closing, refused, orders>>
    PROVE  Core'
  <1>1. Prompts'
    <2>1. \A x \in Ids(pending) : x \in Setups /\ x # 0
      <3>1. \A i \in DOMAIN pending : pending[i] \in Entry
        BY DEF TypeOK
      <3>2. \A i \in DOMAIN pending : pending[i].id \in Setups
        BY <3>1 DEF Entry
      <3> QED
        BY <3>2 DEF Ids, Setups
    <2>2. OneEach(pending') /\ Ids(pending') = Ids(pending)
      BY DEF Core, Prompts
    <2> QED
      BY <2>1, <2>2 DEF Core, Prompts, Untouched, NoEntry
  <1>2. Durable'
    BY DEF Core, Durable, Untouched, AtWork
  <1>3. Worked'
    BY DEF Worked, AtWork
  <1>4. Withdrawn' /\ Counted' /\ Stopped'
    BY DEF Core, Withdrawn, Counted, Stopped
  <1> QED
    BY <1>1, <1>2, <1>3, <1>4 DEF Core

(* An entry dropped while no approval is under way; withdrawn if refused.   *)
LEMMA DropStep ==
    ASSUME TypeOK, Core, ~AtWork, ~AtWork', pc' # "down", pc # "down",
           NEW i \in DOMAIN pending, pending' = RemoveAt(pending, i), saving' = TRUE,
           closing' \in {closing, closing \cup {pending[i].id}},
           UNCHANGED <<disk.book, cur, made, refused, orders>>
    PROVE  Core'
  <1>1. /\ OneEach(pending') /\ Ids(pending') \subseteq Ids(pending) \ {pending[i].id}
        /\ pending[i].id \in Ids(pending)
    <2>1. OneEach(pending) /\ pending \in Seq(Entry)
      BY DEF TypeOK, Core, Prompts
    <2>2. pending[i].id \in Ids(pending)
      BY DEF Ids
    <2> QED
      BY <2>1, <2>2, RemovalKeeps
  <1>2. Prompts'
    BY <1>1 DEF Core, Prompts, Untouched
  <1>3. Durable'
    BY DEF Core, Durable, Untouched, AtWork
  <1>4. Worked'
    BY DEF Core, Worked, Untouched, AtWork
  <1>5. Withdrawn'
    BY <1>1 DEF Core, Withdrawn, Prompts, Untouched
  <1>6. Counted' /\ Stopped'
    BY DEF Core, Counted, Stopped
  <1> QED
    BY <1>2, <1>3, <1>4, <1>5, <1>6 DEF Core

LEMMA QueueStep ==
    ASSUME TypeOK, Core, NEW s \in Symbols, NEW suppressed \in BOOLEAN,
           ScanQueues(s, suppressed)
    PROVE  Core'
  <1>0. /\ pc = "idle" /\ pc' = pc /\ saving' \in {saving, TRUE} /\ ~AtWork /\ ~AtWork'
        /\ disk'.book = disk.book /\ cur' = cur /\ closing' = closing
        /\ refused' = refused /\ orders' = orders
    BY DEF ScanQueues, Idle, AtWork, history
  <1>1. CASE suppressed
    <2>1. UNCHANGED History
      BY <1>0, <1>1 DEF ScanQueues, History
    <2> QED
      BY <1>0, <2>1, QuietStep
  <1>2. CASE ~suppressed
    <2> DEFINE e == [sym |-> s, id |-> made']
    <2>0. made \in Nat /\ made' = made + 1 /\ made' \in Setups /\ saving' = TRUE
      BY <1>2, WorkflowAssumption DEF ScanQueues, TypeOK, Setup0, Setups
    <2>1. e \in Entry /\ e.sym = s /\ e.id = made'
      BY <2>0 DEF Entry
    <2>2. pending' = Queued(pending, e)
      BY <1>2 DEF ScanQueues, HasPending, Queued
    <2> HIDE DEF e
    <2>3. /\ pending \in Seq(Entry) /\ OneEach(pending)
          /\ \A x \in Ids(pending) : Untouched(x) /\ x \notin closing /\ x # cur.id
      BY DEF TypeOK, Core, Prompts
    <2>4. e.id \notin Ids(pending)
      BY <2>0, <2>1, <2>3 DEF Untouched
    <2>5. OneEach(pending') /\ Ids(pending') \subseteq Ids(pending) \cup {made'}
      <3>1. OneEach(pending') /\ Ids(pending') \subseteq Ids(pending) \cup {e.id}
        BY <2>1, <2>2, <2>3, <2>4, QueuedKeeps
      <3> QED
        BY <2>1, <3>1
    <2>6. \A x \in Ids(pending) : x \in Int
      <3>1. \A i \in DOMAIN pending : pending[i] \in Entry
        BY <2>3
      <3>2. \A i \in DOMAIN pending : pending[i].id \in Setups
        BY <3>1 DEF Entry
      <3> QED
        BY <3>2 DEF Ids, Setups
    <2>7. Prompts'
      <3>1. ASSUME NEW x \in Ids(pending)
            PROVE  /\ x <= made' /\ orders'[x] = 0 /\ x \notin refused'
                   /\ x \notin closing' /\ x # cur'.id
        BY <1>0, <2>0, <2>3, <2>6 DEF Untouched
      <3>2. /\ made' <= made' /\ orders'[made'] = 0 /\ made' \notin refused'
            /\ made' \notin closing' /\ made' # cur'.id
        <4>1. cur = NoEntry
          BY <1>0 DEF Core, Worked
        <4>2. orders[made'] = 0
          BY <2>0 DEF Core, Counted
        <4>3. made' \notin closing \cup refused
          BY <2>0 DEF Core, Withdrawn
        <4> QED
          BY <1>0, <2>0, <4>1, <4>2, <4>3 DEF NoEntry
      <3> QED
        BY <2>5, <3>1, <3>2 DEF Prompts, Untouched
    <2>8. Durable'
      <3>1. disk.book \in [Symbols -> Setup0]
        BY DEF TypeOK
      <3>2. \A t \in Symbols : disk.book[t] \in Int
        BY <3>1 DEF Setup0
      <3> QED
        BY <1>0, <2>0, <3>2 DEF Core, Durable, Untouched
    <2>9. Worked'
      BY <1>0 DEF Core, Worked
    <2>10. Withdrawn'
      <3>1. \A x \in closing \cup refused : x \in Int
        BY DEF TypeOK, Setups
      <3> QED
        BY <1>0, <2>0, <3>1 DEF Core, Withdrawn
    <2>11. Counted' /\ Stopped'
      <3>1. \A x \in Setups : x \in Int
        BY DEF Setups
      <3> QED
        BY <1>0, <2>0, <3>1 DEF Core, Counted, Stopped
    <2> QED
      BY <2>7, <2>8, <2>9, <2>10, <2>11 DEF Core
  <1> QED
    BY <1>1, <1>2

LEMMA ApproveStep ==
    ASSUME TypeOK, Core, NEW click, ClickApproves(click)
    PROVE  Core'
  <1>0. /\ pc = "idle" /\ pc' = "validate" /\ saving' = TRUE /\ ~AtWork
        /\ disk'.book = disk.book /\ closing' = closing /\ made' = made
        /\ refused' = refused /\ orders' = orders
        /\ cur' = pending[display] /\ pending' = RemoveAt(pending, display)
    BY DEF ClickApproves, Idle, AtWork
  <1>1. /\ pending \in Seq(Entry) /\ OneEach(pending) /\ display \in DOMAIN pending
        /\ \A x \in Ids(pending) : Untouched(x) /\ x \notin closing
    BY DEF ClickApproves, TypeOK, Core, Prompts
  <1>2. OneEach(pending') /\ Ids(pending') \subseteq Ids(pending) \ {cur'.id}
    BY <1>0, <1>1, RemovalKeeps
  <1>3. cur'.id \in Ids(pending)
    BY <1>0, <1>1 DEF Ids
  <1>4. Prompts'
    BY <1>0, <1>1, <1>2 DEF Prompts, Untouched
  <1>5. Durable'
    BY <1>0 DEF Core, Durable, Untouched
  <1>6. Worked'
    BY <1>0, <1>1, <1>3 DEF Worked, Untouched, AtWork
  <1>7. Withdrawn' /\ Counted' /\ Stopped'
    BY <1>0 DEF Core, Withdrawn, Counted, Stopped
  <1> QED
    BY <1>4, <1>5, <1>6, <1>7 DEF Core

(* The disk after a save, or after a crash that kept it.                    *)
LEMMA SnapshotIs ==
    ASSUME TypeOK, Core
    PROVE  \A s \in Symbols : Snapshot.book[s] # 0 =>
               /\ Snapshot.book[s] \in Ids(pending)
               /\ \A t \in Symbols : Snapshot.book[s] = Snapshot.book[t] => s = t
  <1>1. Snapshot.book = Book(pending)
    BY DEF Snapshot
  <1>2. pending \in Seq(Entry) /\ OneEach(pending)
    BY DEF TypeOK, Core, Prompts
  <1> QED
    BY <1>1, <1>2, BookIs

LEMMA SavedStep ==
    ASSUME TypeOK, Core, Saved
    PROVE  Core'
  <1>0. /\ saving /\ ~saving' /\ disk' = Snapshot
        /\ closing' = {} /\ refused' = refused \cup closing
        /\ pc' = pc /\ pending' = pending /\ cur' = cur /\ made' = made /\ orders' = orders
    BY DEF Saved
  <1>1. Prompts'
    <2>1. OneEach(pending') /\ Ids(pending') = Ids(pending)
      BY <1>0 DEF Core, Prompts
    <2> QED
      BY <1>0, <2>1 DEF Core, Prompts, Untouched
  <1>2. Durable'
    <2>1. \A x \in Ids(pending) : Untouched(x)' /\ x # cur'.id
      BY <1>0 DEF Core, Prompts, Untouched
    <2> QED
      BY <1>0, <2>1, SnapshotIs DEF Durable
  <1>3. Worked'
    BY <1>0 DEF Core, Worked, Untouched, AtWork
  <1>4. Withdrawn' /\ Counted' /\ Stopped'
    BY <1>0 DEF Core, Withdrawn, Counted, Stopped
  <1> QED
    BY <1>1, <1>2, <1>3, <1>4 DEF Core

LEMMA CrashStep ==
    ASSUME TypeOK, Core, Crash
    PROVE  Core'
  <1>0. /\ pc' = "down" /\ ~saving' /\ disk' \in {disk, Snapshot} /\ ~AtWork'
        /\ closing' = {} /\ refused' = refused
        /\ pending' = <<>> /\ cur' = NoEntry /\ made' = made /\ orders' = orders
    BY DEF Crash, AtWork
  <1>1. Prompts'
    BY <1>0 DEF Prompts, OneEach, Ids
  <1>2. Durable'
    <2>1. CASE disk' = disk
      BY <1>0, <2>1 DEF Core, Durable, Untouched
    <2>2. CASE disk' = Snapshot
      <3>1. \A x \in Ids(pending) : Untouched(x)'
        BY <1>0 DEF Core, Prompts, Untouched
      <3> QED
        BY <1>0, <2>2, <3>1, SnapshotIs DEF Durable
    <2> QED
      BY <1>0, <2>1, <2>2
  <1>3. Worked'
    BY <1>0 DEF Worked
  <1>4. Withdrawn' /\ Counted' /\ Stopped'
    BY <1>0 DEF Core, Withdrawn, Counted, Stopped
  <1> QED
    BY <1>1, <1>2, <1>3, <1>4 DEF Core

LEMMA RestartStep ==
    ASSUME TypeOK, Core, Start
    PROVE  Core'
  <1>0. /\ pc = "down" /\ pc' = "idle" /\ ~AtWork /\ ~AtWork' /\ saving' = TRUE
        /\ disk' = disk /\ closing' = closing /\ refused' = refused
        /\ cur' = cur /\ made' = made /\ orders' = orders
    BY DEF Start, AtWork, history
  <1>1. closing = {} /\ cur = NoEntry
    BY <1>0 DEF Core, Stopped, Worked
  <1>2. /\ \A i, j \in DOMAIN pending' : pending'[i].sym = pending'[j].sym => i = j
        /\ \A i \in DOMAIN pending' : /\ pending'[i] \in Entry
                                      /\ pending'[i].id = disk.book[pending'[i].sym]
    <2>1. pending' \in Seq(Entry)
      BY RecoveredIs
    <2> QED
      BY <2>1, RecoveredIs
  <1>3. \A i \in DOMAIN pending' : /\ pending'[i].sym \in Symbols
                                   /\ pending'[i].id \in Setups /\ pending'[i].id # 0
    BY <1>2 DEF Entry, Setups
  <1>4. \A i \in DOMAIN pending' :
           /\ Untouched(pending'[i].id)
           /\ \A j \in DOMAIN pending' : pending'[i].id = pending'[j].id => i = j
    BY <1>2, <1>3 DEF Core, Durable
  <1>5. Prompts'
    <2>1. OneEach(pending')
      BY <1>2, <1>4 DEF OneEach
    <2>2. \A x \in Ids(pending') : Untouched(x) /\ x # 0
      BY <1>3, <1>4 DEF Ids
    <2>3. closing' = {} /\ cur'.id = 0
      BY <1>0, <1>1 DEF NoEntry
    <2> QED
      BY <1>0, <2>1, <2>2, <2>3 DEF Prompts, Untouched
  <1>6. Durable'
    BY <1>0 DEF Core, Durable, Untouched
  <1>7. Worked'
    BY <1>0, <1>1 DEF Worked
  <1>8. Withdrawn' /\ Counted' /\ Stopped'
    BY <1>0 DEF Core, Withdrawn, Counted, Stopped
  <1> QED
    BY <1>5, <1>6, <1>7, <1>8 DEF Core

LEMMA SendStep ==
    ASSUME TypeOK, Busy, Core, Send
    PROVE  Core'
  <1>0. /\ pc = "send" /\ pc' = "sent" /\ saving' = saving /\ ~saving /\ AtWork
        /\ disk' = disk /\ closing' = closing /\ refused' = refused
        /\ pending' = pending /\ cur' = cur /\ made' = made
        /\ orders' = [orders EXCEPT ![cur.id] = @ + 1]
    BY DEF Send, AtWork, Core, Worked
  <1>1. cur \in Entry /\ Untouched(cur.id) /\ cur.id \notin closing
    BY <1>0 DEF Busy, Core, Worked
  <1>2. cur.id \in Setups
    BY <1>1 DEF Entry
  <1>3. /\ orders' \in [Setups -> Nat] /\ orders'[cur.id] = 1
        /\ \A x : x # cur.id => orders'[x] = orders[x]
    BY <1>0, <1>1, <1>2 DEF TypeOK, Untouched
  <1>4. Prompts'
    <2>1. OneEach(pending') /\ Ids(pending') = Ids(pending)
      BY <1>0 DEF Core, Prompts
    <2> QED
      BY <1>0, <1>3, <2>1 DEF Core, Prompts, Untouched
  <1>5. Durable'
    BY <1>0, <1>3 DEF Core, Durable, Untouched
  <1>6. Worked'
    BY <1>0 DEF Core, Worked, Untouched, AtWork
  <1>7. Withdrawn'
    BY <1>0, <1>1, <1>3 DEF Core, Withdrawn, Untouched
  <1>8. Counted' /\ Stopped'
    BY <1>0, <1>1, <1>2, <1>3 DEF Core, Counted, Stopped, Untouched, Setups, TypeOK, Setup0
  <1> QED
    BY <1>4, <1>5, <1>6, <1>7, <1>8 DEF Core

LEMMA CoreStep == TypeOK /\ Busy /\ Core /\ [Next]_vars => Core'
  <1> SUFFICES ASSUME TypeOK, Busy, Core, [Next]_vars
               PROVE  Core'
    OBVIOUS
  <1>1. ASSUME NEW s \in Symbols, ScanDeferred(s)
        PROVE  Core'
    <2>1. UNCHANGED History /\ UNCHANGED <<pc, saving>>
      BY <1>1 DEF ScanDeferred, History, history
    <2> QED
      BY <2>1, QuietStep
  <1>2. ASSUME NEW s \in Symbols, NEW verdict \in {"wait", "none"},
               ScanRejects(s, verdict)
        PROVE  Core'
    <2>1. CASE HasPending(s)
      <3>1. ActiveFor(pending, s) \in DOMAIN pending
        BY <2>1, ActiveForIs DEF HasPending, TypeOK
      <3>2. /\ ~AtWork /\ ~AtWork' /\ pc' # "down" /\ pc # "down"
            /\ pending' = RemoveAt(pending, ActiveFor(pending, s)) /\ saving' = TRUE
            /\ closing' = closing
            /\ UNCHANGED <<disk.book, cur, made, refused, orders>>
        BY <1>2, <2>1 DEF ScanRejects, Idle, AtWork, history
      <3> QED
        BY <3>1, <3>2, DropStep
    <2>2. CASE ~HasPending(s)
      <3>1. UNCHANGED History /\ UNCHANGED <<pc, saving>>
        BY <1>2, <2>2 DEF ScanRejects, History, history
      <3> QED
        BY <3>1, QuietStep
    <2> QED
      BY <2>1, <2>2
  <1>3. ASSUME NEW s \in Symbols, NEW suppressed \in BOOLEAN, ScanQueues(s, suppressed)
        PROVE  Core'
    BY <1>3, QueueStep
  <1>4. CASE Timer \/ Tick \/ ClickIgnored \/ TimerEnds \/ TogglePause
    <2>1. /\ UNCHANGED History
          /\ ~AtWork /\ ~AtWork' /\ pc' # "down" /\ saving' \in {saving, TRUE}
      BY <1>4 DEF Timer, Tick, ClickIgnored, TimerEnds, TogglePause, Idle, AtWork,
                  History, history
    <2> QED
      BY <2>1, QuietStep
  <1>5. CASE TimeOut
    <2>1. Index(pending, Late) \in DOMAIN pending
      BY <1>5, LateIs DEF TimeOut, TypeOK
    <2> DEFINE i == Index(pending, Late)
    <2>2. /\ ~AtWork /\ ~AtWork' /\ pc' # "down" /\ pc # "down"
          /\ pending' = RemoveAt(pending, i) /\ saving' = TRUE
          /\ closing' = closing \cup {pending[i].id}
          /\ UNCHANGED <<disk.book, cur, made, refused, orders>>
      BY <1>5 DEF TimeOut, Delete, AtWork
    <2> HIDE DEF i
    <2> QED
      BY <2>1, <2>2, DropStep DEF i
  <1>6. ASSUME NEW click, ClickRefuses(click)
        PROVE  Core'
    <2>1. display \in DOMAIN pending
      BY <1>6 DEF ClickRefuses, TypeOK
    <2>2. /\ ~AtWork /\ ~AtWork' /\ pc' # "down" /\ pc # "down"
          /\ pending' = RemoveAt(pending, display) /\ saving' = TRUE
          /\ closing' = closing \cup {pending[display].id}
          /\ UNCHANGED <<disk.book, cur, made, refused, orders>>
      BY <1>6 DEF ClickRefuses, Delete, Idle, AtWork
    <2> QED
      BY <2>1, <2>2, DropStep
  <1>7. ASSUME NEW click, ClickApproves(click)
        PROVE  Core'
    BY <1>7, ApproveStep
  <1>8. CASE ValidationFails \/ SendEnds
    <2>1. /\ AtWork /\ ~saving /\ pc' = "idle" /\ cur' = NoEntry
          /\ UNCHANGED <<pending, disk.book, made, closing, refused, orders>>
      BY <1>8 DEF ValidationFails, SendEnds, Finish, AtWork, Core, Worked, history
    <2> QED
      BY <2>1, FinishStep
  <1>9. CASE Place
    <2>0. /\ pc = "validate" /\ AtWork /\ ~saving /\ disk'.book = disk.book
          /\ UNCHANGED <<saving, pending, made, closing, refused, orders>>
      BY <1>9 DEF Place, AtWork, history, TypeOK
    <2>1. CASE pc' = "idle" /\ cur' = NoEntry
      BY <2>0, <2>1, FinishStep
    <2>2. CASE pc' = "send" /\ cur' = cur
      <3>1. Prompts'
        <4>1. OneEach(pending') /\ Ids(pending') = Ids(pending)
          BY <2>0 DEF Core, Prompts
        <4> QED
          BY <2>0, <2>2, <4>1 DEF Core, Prompts, Untouched
      <3>2. Durable'
        BY <2>0, <2>2 DEF Core, Durable, Untouched, AtWork
      <3>3. Worked'
        BY <2>0, <2>2 DEF Core, Worked, Untouched, AtWork
      <3>4. Withdrawn' /\ Counted' /\ Stopped'
        BY <2>0, <2>2 DEF Core, Withdrawn, Counted, Stopped
      <3> QED
        BY <3>1, <3>2, <3>3, <3>4 DEF Core
    <2> QED
      BY <1>9, <2>1, <2>2 DEF Place, Finish
  <1>10. CASE Send
    BY <1>10, SendStep
  <1>11. CASE ClearOne
    <2>1. CASE pending = <<>>
      <3>1. /\ UNCHANGED History
            /\ ~AtWork /\ ~AtWork' /\ pc' # "down" /\ saving' \in {saving, TRUE}
        BY <1>11, <2>1 DEF ClearOne, AtWork, History
      <3> QED
        BY <3>1, QuietStep
    <2>2. CASE pending # <<>>
      <3>1. 1 \in DOMAIN pending
        BY <2>2 DEF TypeOK
      <3>2. /\ ~AtWork /\ ~AtWork' /\ pc' # "down" /\ pc # "down"
            /\ pending' = RemoveAt(pending, 1) /\ saving' = TRUE /\ closing' = closing
            /\ UNCHANGED <<disk.book, cur, made, refused, orders>>
        BY <1>11, <2>2 DEF ClearOne, Delete, AtWork
      <3> QED
        BY <3>1, <3>2, DropStep
    <2> QED
      BY <2>1, <2>2
  <1>12. CASE Saved
    BY <1>12, SavedStep
  <1>13. CASE Crash
    BY <1>13, CrashStep
  <1>14. CASE Start
    BY <1>14, RestartStep
  <1>15. CASE Expire \/ (\E s \in Symbols : CooldownEnds(s) \/ PositionEnds(s))
              \/ UNCHANGED vars
    <2>1. UNCHANGED History /\ UNCHANGED <<pc, saving>>
      BY <1>15 DEF Expire, CooldownEnds, PositionEnds, vars, History, history, TypeOK
    <2> QED
      BY <2>1, QuietStep
  <1> QED
    BY <1>1, <1>2, <1>3, <1>4, <1>5, <1>6, <1>7, <1>8, <1>9, <1>10, <1>11,
       <1>12, <1>13, <1>14, <1>15
       DEF Next, Scan, HandleClick, Running

-----------------------------------------------------------------------------
(* Theorems. *)

(* The inductive invariant holds in every reachable state.                  *)
THEOREM Invariance == Spec => []IInv
  <1>1. Init => IInv
    <2>1. Init => Busy
      BY DEF Init, Busy, AtWork
    <2> QED
      BY <2>1, TypeStart, CoreStart DEF IInv
  <1>2. IInv /\ [Next]_vars => IInv'
    BY TypeStep, BusyStep, CoreStep DEF IInv
  <1> QED
    BY <1>1, <1>2, PTL DEF Spec

(* Type correctness: the queue, the panel, what is saved and the history    *)
(* keep their types through every scan, click, timeout, crash and recovery. *)
THEOREM TypeCorrect == Spec => []TypeOK
  <1>1. IInv => TypeOK
    BY DEF IInv
  <1> QED
    BY <1>1, Invariance, PTL

(* An order stands for one human decision that was not withdrawn: no second *)
(* order of a prompt, after a crash between the approval and the answer     *)
(* either, and none of a prompt whose denial or timeout was saved.          *)
THEOREM SentOnlyIfApproved == Spec => []OnlyApprovedIsSent
  <1>1. IInv => OnlyApprovedIsSent
    BY DEF IInv, Core, Counted, Withdrawn, OnlyApprovedIsSent, OneOrderPerPrompt,
           RefusedNeverSent
  <1> QED
    BY <1>1, Invariance, PTL

(* A symbol has one prompt at most: QueueForApproval replaces it, a         *)
(* recovery takes one from each symbol's variables, and an ending takes out *)
(* the entry it ends and no other.                                          *)
THEOREM OnePrompt == Spec => []OnePromptPerSymbol
  <1>1. IInv => OnePromptPerSymbol
    BY DEF IInv, Core, Prompts, OneEach, OnePromptPerSymbol
  <1> QED
    BY <1>1, Invariance, PTL

=============================================================================
