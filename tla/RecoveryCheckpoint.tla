------------------------- MODULE RecoveryCheckpoint -------------------------
(***************************************************************************)
(* What survives of the approval prompts, the pause and the day's equity   *)
(* baseline when the program stops: terminal global variables, which are   *)
(* durable once flushed, a checkpoint file written row by row and sealed   *)
(* by an END row, and its backup copy.  OnInit recovers from all three.    *)
(*                                                                         *)
(* A prompt of a symbol is its generation, 1 for the first; 0 is none.     *)
(* The POSITION rows are modelled by PositionProtection!Restored.          *)
(***************************************************************************)
EXTENDS Naturals

CONSTANTS
    Symbols,             \* the configured symbols
    MaxPrompts,          \* BOUND: prompts issued per symbol
    MaxFaults,           \* BOUND: crashes and failed backup copies, together
    VariablesMayBeLost   \* may the terminal's variable store be deleted once?

ASSUME BoundsAssumption ==
    /\ MaxPrompts \in Nat \ {0} /\ MaxFaults \in Nat
    /\ VariablesMayBeLost \in BOOLEAN

VARIABLES
    pc,        \* the next step of OnInit, of a checkpoint, or "idle"/"down"
    cont,      \* what follows the checkpoint under way
    pending,   \* g_pending: the active prompt of each symbol
    gv,        \* the terminal's global variables
    disk,      \* what GlobalVariablesFlush last saved of them
    main,      \* the checkpoint file
    bak,       \* its .bak copy
    issued,    \* prompts issued so far
    expired,   \* prompts whose deadline has passed
    decided,   \* history: the latest prompt whose decision is in force
    settled,   \* history: what was decided at the last completed checkpoint
    kept,      \* history: the undecided prompt in the last completed checkpoint
    refused,   \* history: the latest prompt denied or timed out
    cooled,    \* history: the same at the last flush
    paused,    \* history: a completed checkpoint holds a pause not lifted since
    faults, lost

files == <<main, bak>>
store == <<gv, disk>>
work  == <<decided, refused>>
marks == <<settled, kept, cooled, paused>>
world == <<issued, expired, faults, lost>>
vars  == <<pc, cont, pending, store, files, work, marks, world>>

Prompts  == 0 .. MaxPrompts
Book     == [Symbols -> Prompts]
Nobody   == [s \in Symbols |-> 0]
Pauses   == {"absent", "no", "yes"}
Baseline == {"absent", "start", "late"}
Store    == [p : Book, cool : SUBSET Symbols, paused : Pauses, base : Baseline]
NoStore  == [p |-> Nobody, cool |-> {}, paused |-> "absent", base |-> "absent"]
NoRisk   == [paused |-> "absent", base |-> "absent"]
File     == [head : BOOLEAN, risk : [paused : Pauses, base : Baseline],
             row : Book, end : BOOLEAN]

\* A missing file, or one just truncated: neither has a META row.
Blank == [head |-> FALSE, risk |-> NoRisk, row |-> Nobody, end |-> FALSE]

Steps == {"down", "recover", "fallback", "copyback", "restore", "idle",
          "flush", "open", "write", "seal", "copy", "copying"}

Init ==
    /\ pc = "down" /\ cont = "idle" /\ pending = Nobody
    /\ gv = NoStore /\ disk = NoStore /\ main = Blank /\ bak = Blank
    /\ issued = Nobody /\ expired = Nobody
    /\ decided = Nobody /\ settled = Nobody /\ kept = Nobody
    /\ refused = Nobody /\ cooled = Nobody /\ paused = FALSE
    /\ faults = 0 /\ lost = FALSE

-----------------------------------------------------------------------------
(* Helpers. *)

\* PersistPendingApprovals: one P_ACTIVE group per configured symbol.
Persisted(v, p) == [v EXCEPT !.p = p]

\* MarkSignalCooldown
Cooled(v, ss) == [v EXCEPT !.cool = @ \cup ss]

\* RecoveryCheckpointHeaderValid: META of this account, and an END row.
Valid(f) == f.head /\ f.end

\* RefreshRiskSession: a missing day key takes the equity of now as the day's.
Refreshed(v) ==
    [v EXCEPT !.base = IF @ # "absent" THEN @
                       ELSE IF files # <<Blank, Blank>> THEN "late"
                       ELSE "start"]

\* RISK row: g_manualPaused and g_dayStartEquity, read from the variables.
RiskRow == [paused |-> IF gv.paused = "yes" THEN "yes" ELSE "no",
            base   |-> gv.base]

\* The first row not yet written is due: META, RISK, then the active prompts.
Unwritten == {s \in Symbols : pending[s] # 0 /\ main.row[s] = 0}

\* A prompt that recovery made pending again has no decision in force.
InForce(p) == [s \in Symbols |-> IF p[s] # 0 /\ p[s] <= decided[s]
                                 THEN p[s] - 1 ELSE decided[s]]

\* Every state change ends in SafeUniversalCheckpointNow.
Checkpoint(next) == pc' = "flush" /\ cont' = next

-----------------------------------------------------------------------------
(* The state changes that write a checkpoint, between two events. *)

\* QueueForApproval: a new prompt replaces the active one of its symbol.
Prompt(s) ==
    /\ pc = "idle" /\ issued[s] < MaxPrompts
    /\ s \notin gv.cool /\ gv.paused # "yes"
    /\ issued'  = [issued EXCEPT ![s] = @ + 1]
    /\ pending' = [pending EXCEPT ![s] = issued[s] + 1]
    /\ gv' = Persisted(gv, pending')
    /\ decided' = [decided EXCEPT ![s] = issued[s]]
    /\ kept' = [kept EXCEPT ![s] = 0]
    /\ Checkpoint("idle")
    /\ UNCHANGED <<disk, files, expired, refused, settled, cooled, paused,
                   faults, lost>>

\* Mutant: the denial is not persisted.
RefuseUnpersisted(s) ==
    /\ pc = "idle" /\ pending[s] # 0
    /\ pending' = [pending EXCEPT ![s] = 0]
    /\ gv' = Cooled(gv, {s})
    /\ decided' = [decided EXCEPT ![s] = issued[s]]
    /\ refused' = [refused EXCEPT ![s] = issued[s]]
    /\ kept' = [kept EXCEPT ![s] = 0]
    /\ Checkpoint("idle")
    /\ UNCHANGED <<disk, files, issued, expired, settled, cooled, paused,
                   faults, lost>>

\* Mutant: the denial does not cool the symbol.
RefuseUncooled(s) ==
    /\ pc = "idle" /\ pending[s] # 0
    /\ pending' = [pending EXCEPT ![s] = 0]
    /\ gv' = Persisted(gv, pending')
    /\ decided' = [decided EXCEPT ![s] = issued[s]]
    /\ refused' = [refused EXCEPT ![s] = issued[s]]
    /\ kept' = [kept EXCEPT ![s] = 0]
    /\ Checkpoint("idle")
    /\ UNCHANGED <<disk, files, issued, expired, settled, cooled, paused,
                   faults, lost>>

\* DeletePending: the prompt is denied or has timed out, and cools its symbol.
Refuse(s) ==
    /\ pc = "idle" /\ pending[s] # 0
    /\ pending' = [pending EXCEPT ![s] = 0]
    /\ gv' = Persisted(Cooled(gv, {s}), pending')
    /\ decided' = [decided EXCEPT ![s] = issued[s]]
    /\ refused' = [refused EXCEPT ![s] = issued[s]]
    /\ kept' = [kept EXCEPT ![s] = 0]
    /\ Checkpoint("idle")
    /\ UNCHANGED <<disk, files, issued, expired, settled, cooled, paused,
                   faults, lost>>

\* ApprovePending takes the prompt out before it validates and sends; a scan
\* or the pause that invalidates one takes it out the same way.  No cooldown.
Consume(s) ==
    /\ pc = "idle" /\ pending[s] # 0
    /\ pending' = [pending EXCEPT ![s] = 0]
    /\ gv' = Persisted(gv, pending')
    /\ decided' = [decided EXCEPT ![s] = issued[s]]
    /\ kept' = [kept EXCEPT ![s] = 0]
    /\ Checkpoint("idle")
    /\ UNCHANGED <<disk, files, issued, expired, refused, settled, cooled,
                   paused, faults, lost>>

\* ToggleTradingPause, then the checkpoint of the button's handler.
TogglePause ==
    /\ pc = "idle"
    /\ gv' = [gv EXCEPT !.paused = IF @ = "yes" THEN "no" ELSE "yes"]
    /\ paused' = FALSE
    /\ Checkpoint("idle")
    /\ UNCHANGED <<pending, disk, files, work, settled, kept, cooled,
                   world>>

\* OnTimer: RiskRecoveryTimer persists the prompts, the checkpoint may be due.
Timer(due) ==
    /\ pc = "idle"
    /\ gv' = Persisted(gv, pending)
    /\ IF due THEN Checkpoint("idle") ELSE UNCHANGED <<pc, cont>>
    /\ UNCHANGED <<pending, disk, files, work, marks, world>>

\* OnDeinit: a last checkpoint, sealed and copied by
\* BackupRecoveryCheckpointIfValid, then PersistPendingApprovals.
Stop ==
    /\ pc = "idle" /\ Checkpoint("stop")
    /\ UNCHANGED <<pending, store, files, work, marks, world>>

-----------------------------------------------------------------------------
(* A checkpoint: flush, rewrite the file row by row, seal it, copy it. *)

Flush ==
    /\ pc = "flush" /\ pc' = "open"
    /\ disk' = gv
    /\ cooled' = refused
    /\ UNCHANGED <<cont, pending, gv, files, work, settled, kept, paused, world>>

\* FileOpen with FILE_WRITE truncates the only sealed primary.
OpenMain ==
    /\ pc = "open" /\ pc' = "write"
    /\ main' = Blank
    /\ UNCHANGED <<cont, pending, store, bak, work, marks, world>>

WriteRow ==
    /\ pc = "write"
    /\ \/ ~main.head /\ main' = [main EXCEPT !.head = TRUE]
       \/ /\ main.head /\ main.risk = NoRisk
          /\ main' = [main EXCEPT !.risk = RiskRow]
       \/ /\ main.head /\ main.risk # NoRisk
          /\ \E s \in Unwritten : main' = [main EXCEPT !.row[s] = pending[s]]
    /\ UNCHANGED <<pc, cont, pending, store, bak, work, marks, world>>

\* UniversalRecoveryInit closes an unsealed file; OnInit then writes it again
\* through SafeUniversalCheckpointNow, as every other caller does.
CloseMain ==
    /\ pc = "write" /\ main.head /\ main.risk # NoRisk /\ Unwritten = {}
    /\ IF cont = "init" THEN Checkpoint("idle")
                        ELSE pc' = "seal" /\ UNCHANGED cont
    /\ UNCHANGED <<pending, store, files, work, marks, world>>

\* AppendRecoveryEndMarker
Seal ==
    /\ pc = "seal" /\ pc' = "copy"
    /\ main' = [main EXCEPT !.end = TRUE]
    /\ UNCHANGED <<cont, pending, store, bak, work, marks, world>>

\* FileCopy with FILE_REWRITE: what a crash leaves of the copy has no END row.
BeginCopy ==
    /\ pc = "copy" /\ Valid(main) /\ pc' = "copying"
    /\ bak' = Blank
    /\ UNCHANGED <<cont, pending, store, main, work, marks, world>>

\* Where the program goes on when a checkpoint is over.
Resume ==
    \/ cont = "idle" /\ pc' = "idle" /\ UNCHANGED <<pending, gv, disk>>
    \/ /\ cont = "stop" /\ pc' = "down" /\ pending' = Nobody
       /\ gv' = Persisted(gv, pending) /\ disk' \in {disk, gv'}

FinishCopy ==
    /\ pc = "copying" /\ Resume
    /\ bak' = main
    /\ settled' = decided
    /\ kept' = [s \in Symbols |-> IF pending[s] # 0 THEN pending[s] ELSE kept[s]]
    /\ paused' = (paused \/ gv.paused = "yes")
    /\ UNCHANGED <<cont, main, work, cooled, world>>

\* BackupRecoveryCheckpointIfValid prints the error and goes on.
CopyFails ==
    /\ pc = "copy" /\ faults < MaxFaults /\ Resume
    /\ faults' = faults + 1
    /\ UNCHANGED <<cont, files, work, marks, issued, expired, lost>>

-----------------------------------------------------------------------------
(* OnInit. *)

Start ==
    /\ pc = "down" /\ pc' = "recover"
    /\ UNCHANGED <<cont, pending, store, files, work, marks, world>>

\* RiskRecoveryInit: the day baseline, then the prompts the variables hold.
\* An expired one is cleared and cools its symbol.
Recover ==
    /\ pc = "recover" /\ pc' = "fallback"
    /\ pending' = [s \in Symbols |->
           IF gv.p[s] > expired[s] THEN gv.p[s] ELSE 0]
    /\ LET late == {s \in Symbols : gv.p[s] # 0 /\ gv.p[s] <= expired[s]}
       IN  gv' = Persisted(Cooled(Refreshed(gv), late), pending')
    /\ decided' = InForce(pending')
    /\ UNCHANGED <<cont, disk, files, refused, marks, world>>

\* PrepareRecoveryCheckpointFallback: an incomplete primary is overwritten
\* with a completed backup.
Fallback ==
    /\ pc = "fallback"
    /\ IF ~Valid(main) /\ Valid(bak)
       THEN pc' = "copyback" /\ main' = Blank
       ELSE pc' = "restore" /\ UNCHANGED main
    /\ UNCHANGED <<cont, pending, store, bak, work, marks, world>>

CopyBack ==
    /\ pc = "copyback" /\ pc' = "restore"
    /\ main' = bak
    /\ UNCHANGED <<cont, pending, store, bak, work, marks, world>>

\* Mutant: the pause of the RISK row is not restored.
RestoreForgetsPause ==
    /\ pc = "restore" /\ pc' = "flush" /\ cont' = "init"
    /\ IF main.head
       THEN LET late == {s \in Symbols :
                           main.row[s] # 0 /\ main.row[s] <= expired[s]}
                fill(old, new) == IF old = "absent" THEN new ELSE old
            IN  /\ gv' = [Cooled(gv, late) EXCEPT
                            !.base   = fill(@, main.risk.base)]
                /\ pending' = [s \in Symbols |->
                       IF pending[s] = 0 /\ main.row[s] > expired[s]
                       THEN main.row[s] ELSE pending[s]]
                /\ disk' = gv'
       ELSE UNCHANGED <<store, pending>>
    /\ decided' = InForce(pending')
    /\ UNCHANGED <<files, refused, marks, world>>

\* RestoreUniversalRecoveryCheckpoint: only the META row is checked.  A RISK
\* row fills the variables that are missing, a PENDING row becomes a prompt
\* unless it has expired or its symbol already has one.
Restore ==
    /\ pc = "restore" /\ pc' = "flush" /\ cont' = "init"
    /\ IF main.head
       THEN LET late == {s \in Symbols :
                           main.row[s] # 0 /\ main.row[s] <= expired[s]}
                fill(old, new) == IF old = "absent" THEN new ELSE old
            IN  /\ gv' = [Cooled(gv, late) EXCEPT
                            !.paused = fill(@, main.risk.paused),
                            !.base   = fill(@, main.risk.base)]
                /\ pending' = [s \in Symbols |->
                       IF pending[s] = 0 /\ main.row[s] > expired[s]
                       THEN main.row[s] ELSE pending[s]]
                /\ disk' = gv'
       ELSE UNCHANGED <<store, pending>>
    /\ decided' = InForce(pending')
    /\ UNCHANGED <<files, refused, marks, world>>

-----------------------------------------------------------------------------
(* The world: time, crashes, and a variable store that is deleted. *)

Expire(s) ==
    /\ expired[s] < issued[s]
    /\ expired' = [expired EXCEPT ![s] = @ + 1]
    /\ UNCHANGED <<pc, cont, pending, store, files, work, marks, issued,
                   faults, lost>>

\* The cooldown (four M15 candles) outlasts every prompt of its symbol.
CooldownEnds(s) ==
    /\ s \in gv.cool /\ expired[s] = issued[s]
    /\ gv' = [gv EXCEPT !.cool = @ \ {s}]
    /\ disk' = [disk EXCEPT !.cool = @ \ {s}]
    /\ UNCHANGED <<pc, cont, pending, files, work, marks, world>>

\* Anywhere, OnInit included.  A terminal that goes down loses what was not
\* flushed; a program killed inside a living terminal loses no variable.
Crash ==
    /\ pc # "down" /\ faults < MaxFaults
    /\ \/ gv' = disk /\ refused' = cooled
       \/ UNCHANGED <<gv, refused>>
    /\ pc' = "down" /\ cont' = "idle" /\ pending' = Nobody
    /\ faults' = faults + 1
    /\ UNCHANGED <<disk, files, decided, marks, issued, expired, lost>>

LoseVariables ==
    /\ VariablesMayBeLost /\ ~lost /\ pc = "down"
    /\ gv' = NoStore /\ disk' = NoStore /\ lost' = TRUE
    /\ UNCHANGED <<pc, cont, pending, files, work, marks, issued,
                   expired, faults>>

Save == Flush \/ OpenMain \/ WriteRow \/ CloseMain \/ Seal \/ BeginCopy
        \/ FinishCopy \/ CopyFails

OnInit == Start \/ Recover \/ Fallback \/ CopyBack \/ Restore

Next ==
    \/ \E s \in Symbols : \/ Prompt(s) \/ Refuse(s) \/ Consume(s)
                          \/ Expire(s) \/ CooldownEnds(s)
    \/ \E due \in BOOLEAN : Timer(due)
    \/ TogglePause \/ Stop \/ Save \/ OnInit \/ Crash \/ LoseVariables

Spec == Init /\ [][Next]_vars

-----------------------------------------------------------------------------
(* Properties. *)

TypeOK ==
    /\ pc \in Steps /\ cont \in {"idle", "init", "stop"}
    /\ pending \in Book /\ gv \in Store /\ disk \in Store
    /\ main \in File /\ bak \in File
    /\ issued \in Book /\ expired \in Book
    /\ decided \in Book /\ settled \in Book /\ kept \in Book
    /\ refused \in Book /\ cooled \in Book /\ paused \in BOOLEAN
    /\ faults \in 0 .. MaxFaults /\ lost \in BOOLEAN

\* A decision (approval, denial, timeout, replacement) whose checkpoint
\* completed is final: no crash of any later checkpoint, recovery or fallback
\* brings its prompt, or an older one of the symbol, back to the screen.
SettledStaysSettled == \A s \in Symbols : pending[s] \notin 1 .. settled[s]

\* Unless the variables are deleted, a refused prompt that a stale file brings
\* back (its refusal was flushed but the files were not rewritten yet) finds
\* its symbol cooling down, so the risk gate of ApprovePending refuses it, or
\* it has expired.
ResurrectedIsCooled ==
    \A s \in Symbols :
        ~lost /\ pc = "idle" /\ pending[s] \in 1 .. cooled[s] =>
            s \in gv.cool \/ pending[s] <= expired[s]

\* However one crash falls (in the truncating rewrite, in the copy, in OnInit)
\* the stopped program leaves a completed snapshot once it has made one.
RecoverableSnapshot ==
    faults <= 1 /\ pc = "down" /\ (settled # Nobody \/ kept # Nobody \/ paused) =>
        Valid(main) \/ Valid(bak)

\* Even when the terminal's variables are deleted and one more fault happens,
\* a pause that a completed checkpoint holds is in force whenever the program
\* serves events again, until the operator lifts it.
PauseSurvives == faults <= 1 /\ paused /\ pc = "idle" => gv.paused = "yes"

\* The same for a prompt: undecided and in a completed checkpoint, it is
\* pending again after the restart unless its deadline has passed.
PromptSurvives ==
    faults <= 1 /\ pc = "idle" =>
        \A s \in Symbols : kept[s] > expired[s] => pending[s] = kept[s]

\* What one fault leaves of a completed checkpoint is enough: some sealed
\* snapshot, and with it the pause and the undecided prompts.
SnapshotSurvivesFault == RecoverableSnapshot /\ PauseSurvives /\ PromptSurvives

\* docs/RECOVERY_INVARIANTS.md, section I: the completed primary is durable
\* supplemental state.  The day-start equity in it survives lost variables.
DayBaselineRecovered ==
    pc = "idle" => gv.base = "start"

=============================================================================
