-------------------------- MODULE ApprovalWorkflow --------------------------
(***************************************************************************)
(* The human in the loop: a scan queues a prompt, the operator approves or *)
(* denies it with a click on the panel, a timer lets it expire, and an     *)
(* approved prompt is validated afresh and sent.  One event loop runs one  *)
(* handler at a time; while it is blocked (web requests, file writes, the  *)
(* order call) deadlines pass, clicks wait in its queue and the terminal   *)
(* may die.                                                                *)
(*                                                                         *)
(* g_pending is the sequence of its active entries: an inactive entry is   *)
(* never reused, and g_displayPending is recomputed whenever one ends.  A  *)
(* setup is a number, in the order of creation.  What a checkpoint makes   *)
(* durable, and what a crash inside one leaves, is RecoveryCheckpoint's    *)
(* subject: here a save is one step, and a crash before it loses all or    *)
(* nothing of what it would have saved.                                    *)
(***************************************************************************)
EXTENDS Integers, SequencesExt, FiniteSetsExt

CONSTANTS
    SymbolCount,    \* the symbols 1 .. SymbolCount, in the order of g_symbols
    Chart,          \* the symbol of the chart the program runs on
    MaxSetups,      \* BOUND: setups queued
    MaxCrashes      \* BOUND: crashes

ASSUME WorkflowAssumption ==
    /\ SymbolCount \in Nat \ {0} /\ Chart \in 1 .. SymbolCount
    /\ MaxSetups \in Nat \ {0} /\ MaxCrashes \in Nat

Symbols == 1 .. SymbolCount
Setups  == 1 .. MaxSetups
Setup0  == 0 .. MaxSetups

VARIABLES
    pc,        \* the step the running handler is at; "idle" between events
    saving,    \* a handler is inside SafeUniversalCheckpointNow
    pending,   \* g_pending: active entries, in order
    display,   \* g_displayPending: index in pending, 0 for none
    shown,     \* the setup whose APPROVE and DENY buttons the panel shows, or 0
    noTrade,   \* g_visualNoTrade
    paused,    \* PAUSED
    gv,        \* per symbol: lifecycle, wait kind, cooldown
    disk,      \* what a restart recovers: prompts, pause and gv
    open,      \* symbols with an open position
    cur,       \* the entry ApprovePending works on
    made,      \* setups queued so far
    expired,   \* setups up to this one are past their deadline
    orders,    \* history: orders sent for each setup
    closing,   \* history: setups refused whose save is not complete
    refused,   \* history: setups whose refusal was saved
    crashes

panel   == <<display, shown>>
history == <<orders, closing, refused>>
vars == <<pc, saving, pending, panel, noTrade, paused, gv, disk, open,
          cur, made, expired, history, crashes>>

Entry   == [sym : Symbols, id : Setups]
NoEntry == [sym |-> 0, id |-> 0]
Life    == {"NONE", "CANDIDATE", "WAIT", "APPROVED", "SENT", "INVALIDATED"}
Kinds   == {"unspecified", "human", "market"}
Fresh   == [life |-> [s \in Symbols |-> "NONE"],
            kind |-> [s \in Symbols |-> "unspecified"], cool |-> {}]
NoBook  == [s \in Symbols |-> 0]

Init ==
    /\ pc = "down" /\ saving = FALSE /\ pending = <<>>
    /\ display = 0 /\ shown = 0 /\ noTrade = FALSE
    /\ paused = FALSE /\ gv = Fresh
    /\ disk = [book |-> NoBook, paused |-> FALSE, gv |-> Fresh]
    /\ open = {} /\ cur = NoEntry /\ made = 0 /\ expired = 0
    /\ orders = [i \in Setups |-> 0] /\ closing = {} /\ refused = {}
    /\ crashes = 0

-----------------------------------------------------------------------------
(* The list of prompts, the panel, and what is saved. *)

\* Index of the first entry that satisfies Test, 0 if there is none.
Index(p, Test(_)) ==
    LET hits == {i \in DOMAIN p : Test(p[i])}
    IN  IF hits = {} THEN 0 ELSE Min(hits)

FirstActive(p) == IF p = <<>> THEN 0 ELSE 1
ActiveFor(p, s) == Index(p, LAMBDA e : e.sym = s)
HasPending(s) == ActiveFor(pending, s) # 0

\* HUDDrawFooter: the buttons are bound to the prompt of the chart's symbol,
\* unless its last scan said NO TRADE and no position of it is open.
Bound(p, none) ==
    IF Chart \in open \/ ~none THEN ActiveFor(p, Chart) ELSE 0

\* The prompt whose buttons the panel draws.
Painted(p, none) == IF Bound(p, none) = 0 THEN 0 ELSE p[Bound(p, none)].id

\* A redraw of the panel binds the click handlers to what it draws.
Redraw(p, none) == display' = Bound(p, none) /\ shown' = Painted(p, none)

\* Mutant: the bound index is not recomputed.
RenderPromptStale(p) == UNCHANGED <<display, shown>>

\* RenderApprovalPrompt binds them to the first prompt of any symbol and, with
\* the premium panel, draws nothing.
RenderPrompt(p) == display' = FirstActive(p) /\ UNCHANGED shown

\* PersistPendingApprovals: the first active prompt of each symbol.
Book(p) == [s \in Symbols |-> IF ActiveFor(p, s) = 0 THEN 0
                              ELSE p[ActiveFor(p, s)].id]

Snapshot == [book |-> Book(pending), paused |-> paused, gv |-> gv]

-----------------------------------------------------------------------------
(* Lifecycle of a symbol. *)

LifecycleTransitionAllowed(from, to) ==
    \/ from = to
    \/ <<from, to>> \in
         {<<"NONE", "CANDIDATE">>, <<"WAIT", "APPROVED">>,
          <<"WAIT", "INVALIDATED">>, <<"APPROVED", "SENT">>,
          <<"APPROVED", "INVALIDATED">>, <<"SENT", "INVALIDATED">>,
          <<"INVALIDATED", "CANDIDATE">>}
    \/ from = "CANDIDATE" /\ to \in {"WAIT", "APPROVED", "INVALIDATED"}

\* SetSymbolLifecycle: a transition that is not allowed leaves the state.
Moved(v, s, to) ==
    IF LifecycleTransitionAllowed(v.life[s], to)
    THEN [v EXCEPT !.life[s] = to] ELSE v

\* The caller sets the wait kind only when the transition was allowed.
Waits(v, s, to, kind) ==
    IF LifecycleTransitionAllowed(v.life[s], to)
    THEN [Moved(v, s, to) EXCEPT !.kind[s] = kind] ELSE v

\* A symbol that has no candidate yet, or a dead one, gets one.
Candidate(v, s) ==
    IF v.life[s] \in {"NONE", "INVALIDATED"} THEN Moved(v, s, "CANDIDATE") ELSE v

\* RefreshAdaptiveLifecycleFromDecision; it leaves symbols with a position.
Judged(v, s, verdict) ==
    IF s \in open THEN v
    ELSE CASE verdict = "ready" -> Waits(Candidate(v, s), s, "WAIT", "human")
           [] verdict = "wait"  -> Waits(Candidate(v, s), s, "WAIT", "market")
           [] verdict = "none"  ->
                Waits(Candidate(v, s), s, "INVALIDATED", "unspecified")

\* MarkSignalCooldownR5
Cooled(v, s) ==
    LET c == [v EXCEPT !.cool = @ \cup {s}]
    IN  IF s \in open THEN c
        ELSE [Moved(c, s, "INVALIDATED") EXCEPT !.kind[s] = "unspecified"]

\* ReconcileStaleApprovalWaitStates: a wait for a human without a prompt.
Stale(v, p) == {s \in Symbols : /\ s \notin open /\ ActiveFor(p, s) = 0
                                /\ v.life[s] = "WAIT" /\ v.kind[s] = "human"}
Reconciled(v, p) ==
    [v EXCEPT !.life = [s \in Symbols |->
                            IF s \in Stale(v, p) THEN "INVALIDATED" ELSE @[s]],
              !.kind = [s \in Symbols |->
                            IF s \in Stale(v, p) THEN "unspecified" ELSE @[s]]]

-----------------------------------------------------------------------------
(* Ending a prompt. *)

Idle == pc = "idle" /\ ~saving

\* DeletePending of the entry at i; a denial or a timeout cools the symbol.
Delete(i, cools) ==
    /\ pending' = RemoveAt(pending, i)
    /\ gv' = IF cools THEN Cooled(gv, pending[i].sym) ELSE gv
    /\ closing' = IF cools THEN closing \cup {pending[i].id} ELSE closing
    /\ saving' = TRUE

\* SafeUniversalCheckpointNow returns: prompts, pause and variables are durable.
Saved ==
    /\ saving /\ saving' = FALSE
    /\ disk' = Snapshot
    /\ refused' = refused \cup closing /\ closing' = {}
    /\ UNCHANGED <<pc, pending, panel, noTrade, paused, gv, open, cur,
                   made, expired, orders, crashes>>

-----------------------------------------------------------------------------
(* Scans. *)

\* ScanSymbol, early returns: data not ready, or a setup of unsafe geometry.
\* The prompt of the symbol, if any, stays.
ScanDeferred(s) ==
    /\ Idle
    /\ noTrade' = (noTrade \/ s = Chart)
    /\ Redraw(pending, noTrade')
    /\ UNCHANGED <<pc, saving, pending, paused, gv, disk, open, cur, made,
                   expired, history, crashes>>

\* ScanSymbol, verdict not ready: the prompt of the symbol is deleted.
ScanRejects(s, verdict) ==
    /\ Idle
    /\ noTrade' = IF s = Chart THEN verdict = "none" ELSE noTrade
    /\ IF HasPending(s)
       THEN /\ pending' = RemoveAt(pending, ActiveFor(pending, s))
            /\ saving' = TRUE
       ELSE UNCHANGED <<pending, saving>>
    /\ gv' = Judged(gv, s, verdict)
    /\ Redraw(pending', noTrade')
    /\ UNCHANGED <<pc, paused, disk, open, cur, made, expired, history,
                   crashes>>

\* Mutant: a setup is queued behind the prompt it should replace.
ScanQueuesAppends(s, suppressed) ==
    /\ Idle /\ ~paused /\ s \notin gv.cool
    /\ noTrade' = IF s = Chart THEN FALSE ELSE noTrade
    /\ gv' = Judged(gv, s, "ready")
    /\ ~suppressed /\ made < MaxSetups /\ made' = made + 1
    /\ pending' = Append(pending, [sym |-> s, id |-> made'])
    /\ saving' = TRUE
    /\ Redraw(pending', noTrade')
    /\ UNCHANGED <<pc, paused, disk, open, cur, expired, history, crashes>>

\* ScanSymbol, approvalReady: the risk gate excludes a pause and a cooldown.
\* QueueForApproval replaces the symbol's prompt, unless the release or the
\* stop gate, asked once more, suppresses it.
ScanQueues(s, suppressed) ==
    /\ Idle /\ ~paused /\ s \notin gv.cool
    /\ noTrade' = IF s = Chart THEN FALSE ELSE noTrade
    /\ gv' = Judged(gv, s, "ready")
    /\ IF suppressed
       THEN UNCHANGED <<pending, made, saving>>
       ELSE /\ made < MaxSetups /\ made' = made + 1
            /\ LET e == [sym |-> s, id |-> made']
               IN  pending' = IF HasPending(s)
                              THEN [pending EXCEPT ![ActiveFor(pending, s)] = e]
                              ELSE Append(pending, e)
            /\ saving' = TRUE
    /\ Redraw(pending', noTrade')
    /\ UNCHANGED <<pc, paused, disk, open, cur, expired, history, crashes>>

-----------------------------------------------------------------------------
(* OnTimer. *)

\* The panel is redrawn before the timeouts are processed.
Timer ==
    /\ Idle /\ pc' = "timeouts"
    /\ Redraw(pending, noTrade)
    /\ UNCHANGED <<saving, pending, noTrade, paused, gv, disk, open, cur,
                   made, expired, history, crashes>>

\* Mutant: off by one.
LateAfter(e) == e.id < expired

Late(e) == e.id <= expired

\* ProcessApprovalTimeouts
TimeOut ==
    /\ pc = "timeouts" /\ ~saving /\ Index(pending, Late) # 0
    /\ Delete(Index(pending, Late), TRUE)
    /\ RenderPrompt(pending')
    /\ UNCHANGED <<pc, noTrade, paused, disk, open, cur, made, expired,
                   orders, refused, crashes>>

\* Mutant: wait states are reconciled at the start of the program only.
TimerEndsUnreconciled ==
    /\ pc = "timeouts" /\ ~saving /\ Index(pending, Late) = 0
    /\ pc' = "idle"
    /\ RenderPrompt(pending)
    /\ UNCHANGED <<saving, pending, noTrade, paused, gv, disk, open, cur,
                   made, expired, history, crashes>>

\* ProcessApprovalTimeouts ends; DemoSoakEvidenceTimer reconciles.
TimerEnds ==
    /\ pc = "timeouts" /\ ~saving /\ Index(pending, Late) = 0
    /\ pc' = "idle"
    /\ RenderPrompt(pending)
    /\ gv' = Reconciled(gv, pending)
    /\ UNCHANGED <<saving, pending, noTrade, paused, disk, open, cur,
                   made, expired, history, crashes>>

\* OnTick: RefreshElegantChartDashboard, at most every InpDashboardRefreshMs,
\* then AnimateApprovalHero, at most every InpApprovalAnimationMs, which ends in
\* RenderApprovalPrompt: each is due or not.
Tick ==
    /\ Idle
    /\ \/ Redraw(pending, noTrade)
       \/ RenderPrompt(pending)
       \/ /\ shown' = Painted(pending, noTrade)
          /\ display' = FirstActive(pending)
    /\ UNCHANGED <<pc, saving, pending, noTrade, paused, gv, disk, open,
                   cur, made, expired, history, crashes>>

-----------------------------------------------------------------------------
(* Clicks: queued while a handler runs, handled later.  The event carries the *)
(* name of the button alone, so a click that has waited and one of this very *)
(* moment are handled alike: how long it waited is not kept.                 *)

\* HandleHUDClick without a bound prompt: the panel is redrawn.
ClickIgnored ==
    /\ Idle /\ display = 0
    /\ Redraw(pending, noTrade)
    /\ UNCHANGED <<pc, saving, pending, noTrade, paused, gv, disk, open, cur,
                   made, expired, history, crashes>>

\* DENY, or an APPROVE that arrives after the deadline.
ClickRefuses(click) ==
    /\ Idle /\ display # 0
    /\ click = "deny" \/ Late(pending[display])
    /\ Delete(display, TRUE)
    /\ Redraw(pending', noTrade)
    /\ UNCHANGED <<pc, noTrade, paused, disk, open, cur, made, expired, orders,
                   refused, crashes>>

\* Mutant: the entry is taken out and not saved before the order is sent.
ClickApprovesUnsaved(click) ==
    /\ Idle /\ click = "approve" /\ display # 0
    /\ ~Late(pending[display])
    /\ cur' = pending[display]
    /\ pending' = RemoveAt(pending, display)
    /\ pc' = "validate"
    /\ RenderPrompt(pending')
    /\ UNCHANGED <<saving, noTrade, paused, gv, disk, open, made, expired, history,
                   crashes>>

\* ApprovePending: the entry is taken out and the removal saved before the
\* fresh validation starts.
ClickApproves(click) ==
    /\ Idle /\ click = "approve" /\ display # 0
    /\ ~Late(pending[display])
    /\ cur' = pending[display]
    /\ pending' = RemoveAt(pending, display)
    /\ saving' = TRUE /\ pc' = "validate"
    /\ RenderPrompt(pending')
    /\ UNCHANGED <<noTrade, paused, gv, disk, open, made, expired, orders,
                   closing, refused, crashes>>

Finish == pc' = "idle" /\ cur' = NoEntry /\ Redraw(pending, noTrade)

\* FreshApprovalValidation or a gate of ApprovedPlaceTrade refuses; some of
\* them invalidate the symbol's lifecycle, others leave it as it is.
ValidationFails ==
    /\ pc = "validate" /\ ~saving /\ Finish
    /\ gv' \in {gv, Moved(gv, cur.sym, "INVALIDATED")}
    /\ UNCHANGED <<saving, pending, noTrade, paused, disk, open, made,
                   expired, history, crashes>>

\* ApprovedPlaceTrade up to the durable SENT intent.  What APPROVED does not
\* follow from is ignored, what SENT does not follow from ends the attempt.
Place ==
    /\ pc = "validate" /\ ~saving
    /\ ~paused /\ cur.sym \notin gv.cool /\ cur.sym \notin open
    /\ LET v == Moved(Candidate(gv, cur.sym), cur.sym, "APPROVED")
       IN  /\ disk' = [disk EXCEPT !.gv = v]
           /\ gv' = Moved(v, cur.sym, "SENT")
           /\ IF gv'.life[cur.sym] = "SENT"
              THEN pc' = "send" /\ UNCHANGED <<cur, panel>> ELSE Finish
    /\ UNCHANGED <<saving, pending, noTrade, paused, open, made, expired,
                   history, crashes>>

\* trade.Buy / trade.Sell: the server executes the order or refuses it.
Send ==
    /\ pc = "send" /\ pc' = "sent"
    /\ orders' = [orders EXCEPT ![cur.id] = @ + 1]
    /\ open' \in {open, open \cup {cur.sym}}
    /\ UNCHANGED <<saving, pending, panel, noTrade, paused, gv, disk, cur,
                   made, expired, closing, refused, crashes>>

\* The handler stores the outcome, saves and redraws the panel.
SendEnds ==
    /\ pc = "sent" /\ Finish
    /\ saving' = TRUE
    /\ UNCHANGED <<pending, noTrade, paused, gv, disk, open, made, expired,
                   history, crashes>>

-----------------------------------------------------------------------------
(* The pause button. *)

\* ToggleTradingPause, checkpoint, redraw; a pause then clears the prompts.
TogglePause ==
    /\ Idle
    /\ paused' = ~paused
    /\ pc' = IF paused' THEN "clear" ELSE "idle"
    /\ saving' = TRUE
    /\ Redraw(pending, noTrade)
    /\ UNCHANGED <<pending, noTrade, gv, disk, open, cur, made, expired,
                   history, crashes>>

ClearOne ==
    /\ pc = "clear" /\ ~saving
    /\ IF pending = <<>>
       THEN pc' = "idle" /\ UNCHANGED <<pending, gv, closing, saving, display, shown>>
       ELSE Delete(1, FALSE) /\ RenderPrompt(pending') /\ UNCHANGED pc
    /\ UNCHANGED <<noTrade, paused, disk, open, cur, made, expired, orders,
                   refused, crashes>>

-----------------------------------------------------------------------------
(* Stops, restarts and the world. *)

\* A crash inside a save loses all or nothing of it; the terminal goes down
\* with its unflushed variables, or the program alone and they survive.
Crash ==
    /\ pc # "down" /\ crashes < MaxCrashes
    /\ crashes' = crashes + 1
    /\ pc' = "down" /\ saving' = FALSE /\ pending' = <<>> /\ cur' = NoEntry
    /\ display' = 0 /\ shown' = 0 /\ noTrade' = FALSE
    /\ disk' \in {disk, Snapshot} /\ closing' = {}
    /\ gv' = disk'.gv /\ paused' = disk'.paused
    /\ UNCHANGED <<open, made, expired, orders, refused>>

\* OnInit: RecoverPendingApprovals in the order of g_symbols, expired prompts
\* cool their symbol; DemoSoakEvidenceInit reconciles; the panel is drawn.
Start ==
    /\ pc = "down" /\ pc' = "idle"
    /\ LET alive == {s \in Symbols : disk.book[s] > expired}
           late  == {s \in Symbols : disk.book[s] \in 1 .. expired}
           places == 1 .. Cardinality(alive)
       IN  /\ \E at \in [places -> alive] :
                  /\ \A i, j \in places : i < j => at[i] < at[j]
                  /\ pending' = [i \in places |->
                                    [sym |-> at[i], id |-> disk.book[at[i]]]]
           /\ gv' = Reconciled([gv EXCEPT !.cool = @ \cup late], pending')
    /\ display' = FirstActive(pending')
    /\ shown' = LET b == Bound(pending', noTrade)
                IN  IF b = 0 THEN 0 ELSE pending'[b].id
    /\ saving' = TRUE
    /\ UNCHANGED <<noTrade, paused, disk, open, cur, made, expired,
                   history, crashes>>

Expire ==
    /\ expired < made /\ expired' = expired + 1
    /\ UNCHANGED <<pc, saving, pending, panel, noTrade, paused, gv, disk,
                   open, cur, made, history, crashes>>

\* CooldownActive: four M15 candles outlast the prompts the symbol had before.
CooldownEnds(s) ==
    /\ s \in gv.cool
    /\ {Book(pending)[s], disk.book[s]} \subseteq 0 .. expired
    /\ gv' = [gv EXCEPT !.cool = @ \ {s}]
    /\ disk' = [disk EXCEPT !.gv.cool = @ \ {s}]
    /\ UNCHANGED <<pc, saving, pending, panel, noTrade, paused, open, cur,
                   made, expired, history, crashes>>

\* Stop, target or a management decision closes the position.
PositionEnds(s) ==
    /\ s \in open /\ open' = open \ {s}
    /\ UNCHANGED <<pc, saving, pending, panel, noTrade, paused, gv, disk,
                   cur, made, expired, history, crashes>>

-----------------------------------------------------------------------------

Scan(s) ==
    \/ ScanDeferred(s)
    \/ \E verdict \in {"wait", "none"} : ScanRejects(s, verdict)
    \/ \E suppressed \in BOOLEAN : ScanQueues(s, suppressed)

HandleClick(click) == ClickIgnored \/ ClickRefuses(click) \/ ClickApproves(click)

\* The steps that end a handler once it runs.
Running ==
    Saved \/ TimeOut \/ TimerEnds \/ ValidationFails \/ Place \/ Send \/ SendEnds
    \/ ClearOne

Next ==
    \/ \E s \in Symbols : Scan(s) \/ CooldownEnds(s) \/ PositionEnds(s)
    \/ \E click \in {"approve", "deny"} : HandleClick(click)
    \/ Timer \/ Tick \/ TogglePause \/ Running
    \/ Start \/ Crash \/ Expire

Spec == Init /\ [][Next]_vars

\* Handlers run to their end, a stopped program is started again and time
\* passes.  The event queue is served in order and holds at most one timer
\* event, so a timer event is not overtaken for ever by scans and clicks.
Fairness == WF_vars(Running) /\ WF_vars(Start) /\ WF_vars(Expire) /\ SF_vars(Timer)

FairSpec == Spec /\ Fairness

-----------------------------------------------------------------------------
(* Properties. *)

Variables ==
    [life : [Symbols -> Life], kind : [Symbols -> Kinds], cool : SUBSET Symbols]

TypeOK ==
    /\ pc \in {"down", "idle", "timeouts", "validate", "send", "sent", "clear"}
    /\ saving \in BOOLEAN /\ pending \in Seq(Entry)
    /\ display \in 0 .. Len(pending) /\ shown \in Setup0
    /\ noTrade \in BOOLEAN /\ paused \in BOOLEAN
    /\ gv \in Variables
    /\ disk \in [book : [Symbols -> Setup0], paused : BOOLEAN, gv : Variables]
    /\ open \subseteq Symbols /\ cur \in Entry \cup {NoEntry}
    /\ made \in Setup0 /\ expired \in 0 .. made
    /\ orders \in [Setups -> Nat] /\ closing \subseteq Setups
    /\ refused \subseteq Setups
    /\ crashes \in 0 .. MaxCrashes

\* One prompt gives one order at most: not two for a double click, and not a
\* second one after a crash between the approval and the answer.
OneOrderPerPrompt == \A i \in Setups : orders[i] <= 1

\* A prompt whose denial or timeout was saved is never sent, whatever clicks
\* were waiting in the queue and wherever the program stops afterwards.
RefusedNeverSent == \A i \in refused : orders[i] = 0

\* Together: an order stands for one human decision that was not withdrawn.
OnlyApprovedIsSent == OneOrderPerPrompt /\ RefusedNeverSent

\* A symbol has one prompt at most, through replacement, recovery and clicks
\* that end another symbol's prompt.
OnePromptPerSymbol ==
    \A i, j \in DOMAIN pending : pending[i].sym = pending[j].sym => i = j

\* No prompt waits for ever, be the operator away or the program restarted.
PromptEnds ==
    \A i \in Setups :
        (\E k \in DOMAIN pending : pending[k].id = i) ~>
            ~ (\E k \in DOMAIN pending : pending[k].id = i)

\* A symbol does not stay in WAIT_CONFIRMATION for a human when there is no
\* prompt he could answer: suppressed, refused by the fresh validation, lost.
StaleWaitEnds ==
    \A s \in Symbols :
        (gv.life[s] = "WAIT" /\ gv.kind[s] = "human" /\ ~HasPending(s)) ~>
            (gv.life[s] # "WAIT" \/ gv.kind[s] # "human" \/ HasPending(s)
             \/ s \in open)

\* docs/CHART_DASHBOARD_OBSERVABILITY.md: APPROVE and DENY "bind only to that
\* symbol's pending index", and are "disabled and fail-closed" without one.
\* What an APPROVE click takes is the setup whose buttons the panel shows.
ApprovedWhatIsShown ==
    [][cur = NoEntry /\ cur' # NoEntry => cur'.id = shown]_vars

=============================================================================
