---------------------- MODULE RecoveryCheckpointProofs ----------------------
(* Proofs about RecoveryCheckpoint, for every number of symbols, prompts and *)
(* faults: the type invariant, that a settled decision stays settled, that a *)
(* refused prompt stays blocked, and what one fault leaves of a snapshot.    *)
EXTENDS RecoveryCheckpoint, TLAPS

(* Book b shows no prompt whose decision d records. *)
Clear(b, d) == \A s \in Symbols : b[s] \notin 1 .. d[s]

(* The decisions of the last completed checkpoint are in force, and a decision
   is about a prompt that was issued.                                        *)
OrderInv == \A s \in Symbols : settled[s] <= decided[s] /\ decided[s] <= issued[s]

(* No place a restart recovers from shows a settled prompt. *)
SourcesInv ==
    /\ Clear(pending, settled) /\ Clear(gv.p, settled) /\ Clear(disk.p, settled)
    /\ Clear(main.row, settled) /\ Clear(bak.row, settled)

(* A checkpoint under way clears the decisions in force from one place after
   the other: the variables first, then their flushed copy, then the file.   *)
ProgressInv ==
    /\ pc \notin {"down", "recover"} =>
          Clear(pending, decided) /\ Clear(gv.p, decided)
    /\ pc \in {"open", "write", "seal", "copy", "copying"} =>
          Clear(disk.p, decided)
    /\ pc \in {"write", "seal", "copy", "copying"} => Clear(main.row, decided)

(* Of a refused prompt either the deadline has passed or the symbol cools down,
   in the variables and in what the last flush saved of them.                *)
CoolInv ==
    \A s \in Symbols :
        /\ cooled[s] <= refused[s] /\ refused[s] <= issued[s]
        /\ ~lost => /\ refused[s] <= expired[s] \/ s \in gv.cool
                    /\ cooled[s] <= expired[s] \/ s \in disk.cool

IndInv == TypeOK /\ OrderInv /\ SourcesInv /\ ProgressInv

-----------------------------------------------------------------------------

(* The constant records have their types. *)
LEMMA ConstantTypes ==
    /\ 0 \in Prompts /\ Nobody \in Book /\ NoStore \in Store /\ Blank \in File
BY BoundsAssumption
   DEF Prompts, Nobody, Book, NoStore, Store, Pauses, Baseline, Blank, File, NoRisk

(* A book gives every symbol a natural number. *)
LEMMA BookType ==
    ASSUME NEW b \in Book, NEW s \in Symbols
    PROVE  b[s] \in Nat /\ b[s] \in Prompts
<1>1. b[s] \in 0 .. MaxPrompts
  BY DEF Book, Prompts
<1>. QED
  BY <1>1, BoundsAssumption DEF Prompts

(* A book that shows less than another is clear of what that one is clear of. *)
LEMMA ClearNobody == ASSUME NEW d PROVE Clear(Nobody, d)
BY DEF Clear, Nobody

(* The decisions in force are those of a book, no later than before, and the
   book is clear of them.                                                    *)
LEMMA InForceClears ==
    ASSUME TypeOK, NEW p \in Book
    PROVE  /\ InForce(p) \in Book
           /\ \A s \in Symbols : InForce(p)[s] <= decided[s]
           /\ Clear(p, InForce(p))
<1>1. ASSUME NEW s \in Symbols
      PROVE  /\ InForce(p)[s] \in Prompts
             /\ InForce(p)[s] <= decided[s]
             /\ p[s] \notin 1 .. InForce(p)[s]
  <2>1. p[s] \in Prompts /\ decided[s] \in Prompts /\ Prompts \subseteq Nat
    BY BoundsAssumption DEF TypeOK, Book, Prompts
  <2>2. InForce(p)[s] = IF p[s] # 0 /\ p[s] <= decided[s] THEN p[s] - 1 ELSE decided[s]
    BY DEF InForce
  <2>. QED
    BY <2>1, <2>2, BoundsAssumption DEF Prompts
<1>2. InForce(p) \in Book
  <2>1. \A s \in Symbols : (IF p[s] # 0 /\ p[s] <= decided[s]
                            THEN p[s] - 1 ELSE decided[s]) \in Prompts
    BY <1>1 DEF InForce
  <2>. QED
    BY <2>1 DEF InForce, Book
<1>. QED
  BY <1>1, <1>2 DEF Clear

(* What was settled stays clear when fewer decisions are in force: whatever is
   clear of the later decisions is clear of the earlier ones.                *)
LEMMA ClearLess ==
    ASSUME NEW b \in Book, NEW d \in Book, NEW e \in Book, Clear(b, d),
           \A s \in Symbols : e[s] <= d[s]
    PROVE  Clear(b, e)
<1>. SUFFICES ASSUME NEW s \in Symbols PROVE b[s] \notin 1 .. e[s]
  BY DEF Clear
<1>1. b[s] \in Nat /\ d[s] \in Nat /\ e[s] \in Nat
  BY BookType
<1>2. b[s] \notin 1 .. d[s] /\ e[s] <= d[s]
  BY DEF Clear
<1>. QED
  BY <1>1, <1>2

(* Updates of the variables keep their type and touch one field. *)
LEMMA StoreUpdates ==
    ASSUME NEW v \in Store
    PROVE  /\ \A b \in Book : Persisted(v, b) \in Store /\ Persisted(v, b).p = b
           /\ \A ss \in SUBSET Symbols : /\ Cooled(v, ss) \in Store
                                         /\ Cooled(v, ss).p = v.p
           /\ Refreshed(v) \in Store /\ Refreshed(v).p = v.p
<1>1. ASSUME NEW b \in Book
      PROVE  Persisted(v, b) \in Store /\ Persisted(v, b).p = b
  BY DEF Persisted, Store
<1>2. ASSUME NEW ss \in SUBSET Symbols
      PROVE  Cooled(v, ss) \in Store /\ Cooled(v, ss).p = v.p
  BY DEF Cooled, Store
<1>3. Refreshed(v) \in Store /\ Refreshed(v).p = v.p
  BY DEF Refreshed, Store, Baseline
<1>. QED
  BY <1>1, <1>2, <1>3

(* Setting one symbol's entry of a book. *)
LEMMA BookUpdate ==
    ASSUME NEW b \in Book, NEW s \in Symbols, NEW v \in Prompts
    PROVE  /\ [b EXCEPT ![s] = v] \in Book
           /\ \A r \in Symbols : [b EXCEPT ![s] = v][r] = IF r = s THEN v ELSE b[r]
BY DEF Book

LEMMA InitInd == Init => IndInv
<1> SUFFICES ASSUME Init PROVE IndInv
  OBVIOUS
<1>1. TypeOK
  <2>. USE ConstantTypes, BoundsAssumption DEF Init
  <2>1. faults \in 0 .. MaxFaults
    OBVIOUS
  <2>. QED
    BY <2>1 DEF TypeOK, Steps
<1>2. OrderInv
  <2>1. \A s \in Symbols : Nobody[s] = 0
    BY DEF Nobody
  <2>2. settled = Nobody /\ decided = Nobody /\ issued = Nobody
    BY DEF Init
  <2>. 0 <= 0
    OBVIOUS
  <2>3. \A s \in Symbols : Nobody[s] <= Nobody[s]
    BY <2>1
  <2>. QED
    BY <2>2, <2>3 DEF OrderInv
<1>3. SourcesInv
  BY ClearNobody DEF Init, SourcesInv, NoStore, Blank
<1>4. ProgressInv
  BY DEF Init, ProgressInv
<1>. QED
  BY <1>1, <1>2, <1>3, <1>4 DEF IndInv

(* A new prompt is later than every decision. *)
LEMMA PromptInd ==
    ASSUME IndInv, NEW s \in Symbols, Prompt(s)
    PROVE  IndInv'
<1>. USE DEF IndInv
<1>1. /\ issued[s] \in Nat /\ issued[s] + 1 \in Prompts /\ 0 \in Prompts
      /\ issued[s] \in Prompts
  BY BookType, BoundsAssumption DEF Prompt, TypeOK, Prompts
<1>2. /\ issued' \in Book /\ pending' \in Book /\ decided' \in Book /\ kept' \in Book
      /\ gv' \in Store /\ gv'.p = pending'
  <2>1. issued' \in Book /\ pending' \in Book /\ decided' \in Book /\ kept' \in Book
    BY <1>1, BookUpdate DEF Prompt, TypeOK
  <2>. QED
    BY <2>1, StoreUpdates DEF Prompt, TypeOK
<1>3. TypeOK'
  BY <1>2 DEF TypeOK, Prompt, Checkpoint, Steps, files
<1>4. \A r \in Symbols :
        /\ decided'[r] = IF r = s THEN issued[s] ELSE decided[r]
        /\ issued'[r] = IF r = s THEN issued[s] + 1 ELSE issued[r]
        /\ pending'[r] = IF r = s THEN issued[s] + 1 ELSE pending[r]
        /\ settled[r] \in Nat /\ decided[r] \in Nat /\ issued[r] \in Nat
  BY <1>1, BookUpdate, BookType DEF Prompt, TypeOK
<1>5. OrderInv'
  BY <1>4 DEF OrderInv, Prompt
<1>6. Clear(pending', settled) /\ Clear(pending', decided')
  BY <1>4 DEF Clear, OrderInv, SourcesInv, ProgressInv, Prompt
<1>7. SourcesInv'
  BY <1>2, <1>6 DEF SourcesInv, Prompt, files
<1>8. ProgressInv'
  BY <1>2, <1>6 DEF ProgressInv, Prompt, Checkpoint
<1>. QED
  BY <1>3, <1>5, <1>7, <1>8

(* A refused prompt leaves the screen, the variables, and cools its symbol. *)
LEMMA RefuseInd ==
    ASSUME IndInv, NEW s \in Symbols, Refuse(s)
    PROVE  IndInv'
<1>. USE DEF IndInv
<1>1. 0 \in Prompts /\ issued[s] \in Nat /\ issued[s] \in Prompts
  BY BookType, ConstantTypes DEF TypeOK
<1>2. /\ pending' \in Book /\ decided' \in Book /\ refused' \in Book /\ kept' \in Book
      /\ gv' \in Store /\ gv'.p = pending'
  <2>1. pending' \in Book /\ decided' \in Book /\ refused' \in Book /\ kept' \in Book
    BY <1>1, BookUpdate DEF Refuse, TypeOK
  <2>2. Cooled(gv, {s}) \in Store
    BY StoreUpdates DEF TypeOK
  <2>. QED
    BY <2>1, <2>2, StoreUpdates DEF Refuse, TypeOK
<1>3. TypeOK'
  BY <1>2 DEF TypeOK, Refuse, Checkpoint, Steps, files
<1>4. \A r \in Symbols :
        /\ decided'[r] = IF r = s THEN issued[s] ELSE decided[r]
        /\ pending'[r] = IF r = s THEN 0 ELSE pending[r]
        /\ settled[r] \in Nat /\ decided[r] \in Nat /\ issued[r] \in Nat
  BY <1>1, BookUpdate, BookType DEF Refuse, TypeOK
<1>5. OrderInv'
  BY <1>4 DEF OrderInv, Refuse
<1>6. Clear(pending', settled) /\ Clear(pending', decided')
  BY <1>4 DEF Clear, OrderInv, SourcesInv, ProgressInv, Refuse
<1>7. SourcesInv'
  BY <1>2, <1>6 DEF SourcesInv, Refuse, files
<1>8. ProgressInv'
  BY <1>2, <1>6 DEF ProgressInv, Refuse, Checkpoint
<1>. QED
  BY <1>3, <1>5, <1>7, <1>8

(* So does one that is approved, or that a scan or a pause invalidates. *)
LEMMA ConsumeInd ==
    ASSUME IndInv, NEW s \in Symbols, Consume(s)
    PROVE  IndInv'
<1>. USE DEF IndInv
<1>1. 0 \in Prompts /\ issued[s] \in Nat /\ issued[s] \in Prompts
  BY BookType, ConstantTypes DEF TypeOK
<1>2. /\ pending' \in Book /\ decided' \in Book /\ refused' \in Book /\ kept' \in Book
      /\ gv' \in Store /\ gv'.p = pending'
  <2>1. pending' \in Book /\ decided' \in Book /\ refused' \in Book /\ kept' \in Book
    BY <1>1, BookUpdate DEF Consume, TypeOK
  <2>. QED
    BY <2>1, StoreUpdates DEF Consume, TypeOK
<1>3. TypeOK'
  BY <1>2 DEF TypeOK, Consume, Checkpoint, Steps, files
<1>4. \A r \in Symbols :
        /\ decided'[r] = IF r = s THEN issued[s] ELSE decided[r]
        /\ pending'[r] = IF r = s THEN 0 ELSE pending[r]
        /\ settled[r] \in Nat /\ decided[r] \in Nat /\ issued[r] \in Nat
  BY <1>1, BookUpdate, BookType DEF Consume, TypeOK
<1>5. OrderInv'
  BY <1>4 DEF OrderInv, Consume
<1>6. Clear(pending', settled) /\ Clear(pending', decided')
  BY <1>4 DEF Clear, OrderInv, SourcesInv, ProgressInv, Consume
<1>7. SourcesInv'
  BY <1>2, <1>6 DEF SourcesInv, Consume, files
<1>8. ProgressInv'
  BY <1>2, <1>6 DEF ProgressInv, Consume, Checkpoint
<1>. QED
  BY <1>3, <1>5, <1>7, <1>8

(* The pause, the timer and the start of a shutdown decide nothing. *)
LEMMA TogglePauseInd == IndInv /\ TogglePause => IndInv'
<1> SUFFICES ASSUME IndInv, TogglePause PROVE IndInv'
  OBVIOUS
<1>. USE DEF IndInv, TogglePause, Checkpoint, files, work, world
<1>1. gv' \in Store /\ gv'.p = gv.p
  BY DEF TypeOK, Store, Pauses
<1>2. TypeOK'
  BY <1>1 DEF TypeOK, Steps
<1>3. OrderInv' /\ SourcesInv' /\ ProgressInv'
  BY <1>1 DEF OrderInv, SourcesInv, ProgressInv
<1>. QED
  BY <1>2, <1>3

LEMMA TimerInd ==
    ASSUME IndInv, NEW due \in BOOLEAN, Timer(due)
    PROVE  IndInv'
<1>. USE DEF IndInv, Timer, Checkpoint, files, work, marks, world
<1>1. gv' \in Store /\ gv'.p = pending
  BY StoreUpdates DEF TypeOK
<1>2. /\ pc' \in {"idle", "flush"} /\ cont' \in {"idle", "init", "stop"}
      /\ UNCHANGED <<pending, disk, main, bak, decided, refused, settled, kept, cooled,
                     paused, issued, expired, faults, lost>>
  BY DEF TypeOK
<1>3. TypeOK'
  BY <1>1, <1>2 DEF TypeOK, Steps
<1>4. OrderInv' /\ SourcesInv'
  BY <1>1, <1>2 DEF OrderInv, SourcesInv
<1>5. ProgressInv'
  BY <1>1, <1>2 DEF ProgressInv
<1>. QED
  BY <1>3, <1>4, <1>5

LEMMA StopInd == IndInv /\ Stop => IndInv'
<1> SUFFICES ASSUME IndInv, Stop PROVE IndInv'
  OBVIOUS
<1>. USE DEF IndInv, Stop, Checkpoint, store, files, work, marks, world
<1>1. TypeOK'
  BY DEF TypeOK, Steps
<1>2. OrderInv' /\ SourcesInv' /\ ProgressInv'
  BY DEF OrderInv, SourcesInv, ProgressInv
<1>. QED
  BY <1>1, <1>2

(* The flush copies variables that are clear of the decisions in force. *)
LEMMA FlushInd == IndInv /\ Flush => IndInv'
<1> SUFFICES ASSUME IndInv, Flush PROVE IndInv'
  OBVIOUS
<1>. USE DEF IndInv, Flush, files, work, world
<1>1. TypeOK'
  BY DEF TypeOK, Steps
<1>2. OrderInv' /\ SourcesInv' /\ ProgressInv'
  BY DEF OrderInv, SourcesInv, ProgressInv
<1>. QED
  BY <1>1, <1>2

(* A truncated file shows no prompt at all. *)
LEMMA BlankClears ==
    /\ Blank \in File
    /\ \A d : Clear(Blank.row, d)
<1>1. Blank.row = Nobody
  BY DEF Blank
<1>. QED
  BY <1>1, ClearNobody, ConstantTypes

LEMMA OpenMainInd == IndInv /\ OpenMain => IndInv'
<1> SUFFICES ASSUME IndInv, OpenMain PROVE IndInv'
  OBVIOUS
<1>. USE BlankClears DEF IndInv, OpenMain, store, work, marks, world
<1>1. TypeOK'
  BY DEF TypeOK, Steps
<1>2. OrderInv' /\ SourcesInv' /\ ProgressInv'
  BY DEF OrderInv, SourcesInv, ProgressInv
<1>. QED
  BY <1>1, <1>2

(* The rows show what is pending, and that is clear of every decision. *)
LEMMA WriteRowInd == IndInv /\ WriteRow => IndInv'
<1> SUFFICES ASSUME IndInv, WriteRow PROVE IndInv'
  OBVIOUS
<1>. USE DEF IndInv
<1>1. /\ pc = "write" /\ main \in File /\ main.row \in Book /\ pending \in Book
      /\ gv.base \in Baseline
      /\ Clear(pending, settled) /\ Clear(pending, decided)
      /\ Clear(main.row, settled) /\ Clear(main.row, decided)
  BY DEF WriteRow, TypeOK, File, Store, SourcesInv, ProgressInv
<1>2. main' \in File /\ Clear(main'.row, settled) /\ Clear(main'.row, decided)
  <2>1. CASE ~main.head /\ main' = [main EXCEPT !.head = TRUE]
    BY <1>1, <2>1 DEF File
  <2>2. CASE main' = [main EXCEPT !.risk = RiskRow]
    <3>1. RiskRow \in [paused : Pauses, base : Baseline]
      BY <1>1 DEF RiskRow, Pauses
    <3>. QED
      BY <1>1, <2>2, <3>1 DEF File
  <2>3. ASSUME NEW s \in Symbols, main' = [main EXCEPT !.row[s] = pending[s]]
        PROVE  main' \in File /\ Clear(main'.row, settled) /\ Clear(main'.row, decided)
    <3>1. pending[s] \in Prompts
      BY <1>1, BookType
    <3>2. main'.row = [main.row EXCEPT ![s] = pending[s]]
      BY <1>1, <2>3 DEF File
    <3>3. /\ main'.row \in Book
          /\ \A r \in Symbols : main'.row[r] = IF r = s THEN pending[s] ELSE main.row[r]
      BY <1>1, <3>1, <3>2, BookUpdate
    <3>4. main' \in File
      BY <1>1, <2>3, <3>2, <3>3 DEF File
    <3>. QED
      BY <1>1, <3>3, <3>4 DEF Clear
  <2>. QED
    BY <2>1, <2>2, <2>3 DEF WriteRow, Unwritten
<1>3. UNCHANGED <<pc, cont, pending, gv, disk, bak, decided, refused, settled, kept,
                  cooled, paused, issued, expired, faults, lost>>
  BY DEF WriteRow, store, work, marks, world
<1>4. TypeOK'
  BY <1>2, <1>3 DEF TypeOK
<1>5. OrderInv' /\ SourcesInv' /\ ProgressInv'
  BY <1>2, <1>3 DEF OrderInv, SourcesInv, ProgressInv
<1>. QED
  BY <1>4, <1>5

LEMMA CloseMainInd == IndInv /\ CloseMain => IndInv'
<1> SUFFICES ASSUME IndInv, CloseMain PROVE IndInv'
  OBVIOUS
<1>. USE DEF IndInv
<1>1. pc = "write" /\ pc' \in {"flush", "seal"} /\ cont' \in {"idle", cont}
  BY DEF CloseMain, Checkpoint
<1>2. UNCHANGED <<pending, gv, disk, main, bak, decided, refused, settled, kept,
                  cooled, paused, issued, expired, faults, lost>>
  BY DEF CloseMain, store, files, work, marks, world
<1>3. TypeOK'
  BY <1>1, <1>2 DEF TypeOK, Steps
<1>4. OrderInv' /\ SourcesInv' /\ ProgressInv'
  BY <1>1, <1>2 DEF OrderInv, SourcesInv, ProgressInv
<1>. QED
  BY <1>3, <1>4

LEMMA SealInd == IndInv /\ Seal => IndInv'
<1> SUFFICES ASSUME IndInv, Seal PROVE IndInv'
  OBVIOUS
<1>. USE DEF IndInv, Seal, store, work, marks, world
<1>1. main' \in File /\ main'.row = main.row
  BY DEF TypeOK, File
<1>2. TypeOK'
  BY <1>1 DEF TypeOK, Steps
<1>3. OrderInv' /\ SourcesInv' /\ ProgressInv'
  BY <1>1 DEF OrderInv, SourcesInv, ProgressInv
<1>. QED
  BY <1>2, <1>3

LEMMA BeginCopyInd == IndInv /\ BeginCopy => IndInv'
<1> SUFFICES ASSUME IndInv, BeginCopy PROVE IndInv'
  OBVIOUS
<1>. USE BlankClears DEF IndInv, BeginCopy, store, work, marks, world
<1>1. TypeOK'
  BY DEF TypeOK, Steps
<1>2. OrderInv' /\ SourcesInv' /\ ProgressInv'
  BY DEF OrderInv, SourcesInv, ProgressInv
<1>. QED
  BY <1>1, <1>2

(* Whether the program goes on or stops, nothing it leaves shows a decided
   prompt: the variables, their flushed copy and the file are all clear.     *)
LEMMA ResumeClears ==
    ASSUME IndInv, pc \in {"copy", "copying"}, Resume
    PROVE  /\ pc' \in {"idle", "down"} /\ pending' \in Book
           /\ gv' \in Store /\ disk' \in Store
           /\ Clear(pending', decided) /\ Clear(pending', settled)
           /\ Clear(gv'.p, decided) /\ Clear(gv'.p, settled)
           /\ Clear(disk'.p, decided) /\ Clear(disk'.p, settled)
<1>1. /\ pending \in Book /\ gv \in Store /\ disk \in Store
      /\ Clear(pending, decided) /\ Clear(pending, settled)
      /\ Clear(gv.p, decided) /\ Clear(gv.p, settled)
      /\ Clear(disk.p, decided) /\ Clear(disk.p, settled)
  BY DEF IndInv, TypeOK, SourcesInv, ProgressInv
<1>2. Persisted(gv, pending) \in Store /\ Persisted(gv, pending).p = pending
  BY <1>1, StoreUpdates
<1>3. CASE cont = "idle"
  BY <1>1, <1>3 DEF Resume
<1>4. CASE cont = "stop"
  BY <1>1, <1>2, <1>4, ClearNobody, ConstantTypes DEF Resume
<1>. QED
  BY <1>3, <1>4 DEF Resume

LEMMA FinishCopyInd == IndInv /\ FinishCopy => IndInv'
<1> SUFFICES ASSUME IndInv, FinishCopy PROVE IndInv'
  OBVIOUS
<1>. USE DEF IndInv
<1>1. /\ pc' \in {"idle", "down"} /\ pending' \in Book
      /\ gv' \in Store /\ disk' \in Store
      /\ Clear(pending', decided) /\ Clear(gv'.p, decided) /\ Clear(disk'.p, decided)
  BY ResumeClears DEF FinishCopy
<1>2. bak' = main /\ main' = main /\ settled' = decided /\ decided' = decided
  BY DEF FinishCopy, work
<1>3. Clear(main.row, decided)
  BY DEF FinishCopy, ProgressInv
<1>4. UNCHANGED <<cont, refused, cooled, issued, expired, faults, lost>>
  BY DEF FinishCopy, work, world
<1>5. kept' \in Book /\ paused' \in BOOLEAN
  <2>1. \A s \in Symbols : pending[s] \in Prompts /\ kept[s] \in Prompts
    BY BookType DEF TypeOK
  <2>2. kept' \in Book
    BY <2>1 DEF FinishCopy, Book
  <2>. QED
    BY <2>2 DEF FinishCopy, TypeOK
<1>6. TypeOK'
  BY <1>1, <1>2, <1>4, <1>5 DEF TypeOK, Steps
<1>7. OrderInv'
  <2>1. \A s \in Symbols : decided[s] \in Nat
    BY BookType DEF TypeOK
  <2>. QED
    BY <1>2, <1>4, <2>1 DEF OrderInv
<1>8. SourcesInv' /\ ProgressInv'
  BY <1>1, <1>2, <1>3 DEF SourcesInv, ProgressInv
<1>. QED
  BY <1>6, <1>7, <1>8

LEMMA CopyFailsInd == IndInv /\ CopyFails => IndInv'
<1> SUFFICES ASSUME IndInv, CopyFails PROVE IndInv'
  OBVIOUS
<1>. USE DEF IndInv
<1>1. /\ pc' \in {"idle", "down"} /\ pending' \in Book
      /\ gv' \in Store /\ disk' \in Store
      /\ Clear(pending', decided) /\ Clear(pending', settled)
      /\ Clear(gv'.p, decided) /\ Clear(gv'.p, settled) /\ Clear(disk'.p, settled)
  BY ResumeClears DEF CopyFails
<1>2. UNCHANGED <<cont, main, bak, decided, refused, settled, kept, cooled, paused,
                  issued, expired, lost>>
  BY DEF CopyFails, files, work, marks
<1>3. faults' \in 0 .. MaxFaults
  BY BoundsAssumption DEF CopyFails, TypeOK
<1>4. TypeOK'
  BY <1>1, <1>2, <1>3 DEF TypeOK, Steps
<1>5. OrderInv' /\ SourcesInv' /\ ProgressInv'
  BY <1>1, <1>2 DEF OrderInv, SourcesInv, ProgressInv
<1>. QED
  BY <1>4, <1>5

LEMMA StartInd == IndInv /\ Start => IndInv'
<1> SUFFICES ASSUME IndInv, Start PROVE IndInv'
  OBVIOUS
<1>. USE DEF IndInv, Start, store, files, work, marks, world
<1>1. TypeOK'
  BY DEF TypeOK, Steps
<1>2. OrderInv' /\ SourcesInv' /\ ProgressInv'
  BY DEF OrderInv, SourcesInv, ProgressInv
<1>. QED
  BY <1>1, <1>2

(* The variables show no settled prompt, so the decisions in force after
   recovery include all settled ones.                                        *)
LEMMA InForceOrder ==
    ASSUME IndInv, NEW p \in Book, Clear(p, settled)
    PROVE  \A s \in Symbols : /\ settled[s] <= InForce(p)[s]
                              /\ InForce(p)[s] <= decided[s]
                              /\ InForce(p)[s] <= issued[s]
<1>. SUFFICES ASSUME NEW s \in Symbols
              PROVE  /\ settled[s] <= InForce(p)[s]
                     /\ InForce(p)[s] <= decided[s]
                     /\ InForce(p)[s] <= issued[s]
  OBVIOUS
<1>1. /\ p[s] \in Nat /\ decided[s] \in Nat /\ settled[s] \in Nat /\ issued[s] \in Nat
      /\ settled[s] <= decided[s] /\ decided[s] <= issued[s]
  BY BookType DEF IndInv, TypeOK, OrderInv
<1>2. p[s] \notin 1 .. settled[s]
  BY DEF Clear
<1>3. InForce(p)[s] = IF p[s] # 0 /\ p[s] <= decided[s] THEN p[s] - 1 ELSE decided[s]
  BY DEF InForce
<1>. QED
  BY <1>1, <1>2, <1>3

LEMMA RecoverInd == IndInv /\ Recover => IndInv'
<1> SUFFICES ASSUME IndInv, Recover PROVE IndInv'
  OBVIOUS
<1>. USE DEF IndInv
<1>1. \A s \in Symbols : gv.p[s] \in Prompts /\ 0 \in Prompts
  BY BookType, ConstantTypes DEF TypeOK, Store
<1>2. pending' \in Book /\ Clear(pending', settled)
  <2>1. \A s \in Symbols : pending'[s] \in {0, gv.p[s]}
    BY DEF Recover
  <2>2. pending' \in Book
    BY <1>1 DEF Recover, Book
  <2>. QED
    BY <2>1, <2>2 DEF Clear, SourcesInv
<1>3. gv' \in Store /\ gv'.p = pending'
  <2>. DEFINE late == {s \in Symbols : gv.p[s] # 0 /\ gv.p[s] <= expired[s]}
  <2>1. Refreshed(gv) \in Store
    BY StoreUpdates DEF TypeOK
  <2>2. Cooled(Refreshed(gv), late) \in Store
    BY <2>1, StoreUpdates
  <2>3. gv' = Persisted(Cooled(Refreshed(gv), late), pending')
    BY DEF Recover
  <2>. HIDE DEF late
  <2>. QED
    BY <1>2, <2>2, <2>3, StoreUpdates
<1>4. /\ decided' \in Book /\ Clear(pending', decided')
      /\ \A s \in Symbols : settled[s] <= decided'[s] /\ decided'[s] <= issued[s]
  <2>1. decided' = InForce(pending')
    BY DEF Recover
  <2>. QED
    BY <1>2, <2>1, InForceClears, InForceOrder
<1>5. UNCHANGED <<cont, disk, main, bak, refused, settled, kept, cooled, paused,
                  issued, expired, faults, lost>> /\ pc' = "fallback"
  BY DEF Recover, files, marks, world
<1>6. TypeOK'
  BY <1>2, <1>3, <1>4, <1>5 DEF TypeOK, Steps
<1>7. OrderInv' /\ SourcesInv' /\ ProgressInv'
  BY <1>2, <1>3, <1>4, <1>5 DEF OrderInv, SourcesInv, ProgressInv
<1>. QED
  BY <1>6, <1>7

LEMMA FallbackInd == IndInv /\ Fallback => IndInv'
<1> SUFFICES ASSUME IndInv, Fallback PROVE IndInv'
  OBVIOUS
<1>. USE DEF IndInv
<1>1. /\ pc = "fallback" /\ pc' \in {"copyback", "restore"} /\ main' \in {main, Blank}
      /\ UNCHANGED <<cont, pending, gv, disk, bak, decided, refused, settled, kept,
                     cooled, paused, issued, expired, faults, lost>>
  BY DEF Fallback, store, work, marks, world
<1>2. main' \in File /\ Clear(main'.row, settled)
  BY <1>1, BlankClears DEF TypeOK, SourcesInv
<1>3. TypeOK'
  BY <1>1, <1>2 DEF TypeOK, Steps
<1>4. OrderInv' /\ SourcesInv' /\ ProgressInv'
  BY <1>1, <1>2 DEF OrderInv, SourcesInv, ProgressInv
<1>. QED
  BY <1>3, <1>4

LEMMA CopyBackInd == IndInv /\ CopyBack => IndInv'
<1> SUFFICES ASSUME IndInv, CopyBack PROVE IndInv'
  OBVIOUS
<1>. USE DEF IndInv, CopyBack, store, work, marks, world
<1>1. TypeOK'
  BY DEF TypeOK, Steps
<1>2. OrderInv' /\ SourcesInv' /\ ProgressInv'
  BY DEF OrderInv, SourcesInv, ProgressInv
<1>. QED
  BY <1>1, <1>2

(* A PENDING row fills the place of a prompt the variables do not hold.  The
   row may be of a decided prompt, never of a settled one.                   *)
LEMMA RestoreInd == IndInv /\ Restore => IndInv'
<1> SUFFICES ASSUME IndInv, Restore PROVE IndInv'
  OBVIOUS
<1>. USE DEF IndInv
<1>1. /\ main.row \in Book /\ main.risk \in [paused : Pauses, base : Baseline]
      /\ pending \in Book /\ gv \in Store /\ pc = "restore"
  BY DEF Restore, TypeOK, File
<1>2. pending' \in Book /\ Clear(pending', settled)
  <2>1. CASE main.head
    <3>1. \A s \in Symbols : main.row[s] \in Prompts /\ pending[s] \in Prompts
      BY <1>1, BookType
    <3>2. pending' = [s \in Symbols |->
                        IF pending[s] = 0 /\ main.row[s] > expired[s]
                        THEN main.row[s] ELSE pending[s]]
      BY <2>1 DEF Restore
    <3>3. \A s \in Symbols : pending'[s] \in {main.row[s], pending[s]}
      BY <3>2
    <3>4. pending' \in Book
      BY <3>1, <3>2 DEF Book
    <3>. QED
      BY <3>3, <3>4 DEF Clear, SourcesInv
  <2>2. CASE ~main.head
    BY <1>1, <2>2 DEF Restore, SourcesInv
  <2>. QED
    BY <2>1, <2>2
<1>3. gv' \in Store /\ gv'.p = gv.p /\ disk' \in Store /\ Clear(disk'.p, settled)
  <2>1. CASE main.head
    <3>. DEFINE late == {s \in Symbols :
                           main.row[s] # 0 /\ main.row[s] <= expired[s]}
                fill(old, new) == IF old = "absent" THEN new ELSE old
    <3>1. Cooled(gv, late) \in Store /\ Cooled(gv, late).p = gv.p
      BY <1>1, StoreUpdates
    <3>2. gv' = [Cooled(gv, late) EXCEPT !.paused = fill(@, main.risk.paused),
                                         !.base   = fill(@, main.risk.base)]
      BY <2>1 DEF Restore
    <3>3. main.risk.paused \in Pauses /\ main.risk.base \in Baseline
      BY <1>1
    <3>4. disk' = gv'
      BY <2>1 DEF Restore
    <3>. HIDE DEF late
    <3>5. gv' \in Store /\ gv'.p = gv.p
      BY <3>1, <3>2, <3>3 DEF Store
    <3>. QED
      BY <3>4, <3>5 DEF SourcesInv
  <2>2. CASE ~main.head
    BY <1>1, <2>2 DEF Restore, store, TypeOK, SourcesInv
  <2>. QED
    BY <2>1, <2>2
<1>4. /\ decided' \in Book /\ Clear(pending', decided')
      /\ \A s \in Symbols : /\ settled[s] <= decided'[s] /\ decided'[s] <= issued[s]
                            /\ decided'[s] <= decided[s]
  <2>1. decided' = InForce(pending')
    BY DEF Restore
  <2>. QED
    BY <1>2, <2>1, InForceClears, InForceOrder
<1>5. Clear(gv'.p, decided')
  <2>1. Clear(gv.p, decided) /\ gv.p \in Book /\ decided \in Book
    BY <1>1 DEF ProgressInv, TypeOK, Store
  <2>. QED
    BY <1>3, <1>4, <2>1, ClearLess
<1>6. /\ UNCHANGED <<main, bak, refused, settled, kept, cooled, paused,
                     issued, expired, faults, lost>>
      /\ pc' = "flush" /\ cont' = "init"
  BY DEF Restore, files, marks, world
<1>7. TypeOK'
  BY <1>2, <1>3, <1>4, <1>6 DEF TypeOK, Steps
<1>8. OrderInv' /\ SourcesInv' /\ ProgressInv'
  BY <1>2, <1>3, <1>4, <1>5, <1>6 DEF OrderInv, SourcesInv, ProgressInv
<1>. QED
  BY <1>7, <1>8

(* Time, and cooldowns that end, touch no prompt. *)
LEMMA ExpireInd ==
    ASSUME IndInv, NEW s \in Symbols, Expire(s)
    PROVE  IndInv'
<1>. USE DEF IndInv
<1>1. expired' \in Book
  <2>1. expired[s] \in Prompts /\ issued[s] \in Prompts /\ expired[s] < issued[s]
    BY BookType DEF Expire, TypeOK
  <2>2. expired[s] + 1 \in Prompts
    BY <2>1, BoundsAssumption DEF Prompts
  <2>. QED
    BY <2>2, BookUpdate DEF Expire, TypeOK
<1>2. UNCHANGED <<pc, cont, pending, gv, disk, main, bak, decided, refused, settled,
                  kept, cooled, paused, issued, faults, lost>>
  BY DEF Expire, store, files, work, marks
<1>3. TypeOK'
  BY <1>1, <1>2 DEF TypeOK
<1>4. OrderInv' /\ SourcesInv' /\ ProgressInv'
  BY <1>2 DEF OrderInv, SourcesInv, ProgressInv
<1>. QED
  BY <1>3, <1>4

LEMMA CooldownEndsInd ==
    ASSUME IndInv, NEW s \in Symbols, CooldownEnds(s)
    PROVE  IndInv'
<1>. USE DEF IndInv
<1>1. gv' \in Store /\ gv'.p = gv.p /\ disk' \in Store /\ disk'.p = disk.p
  BY DEF CooldownEnds, TypeOK, Store
<1>2. UNCHANGED <<pc, cont, pending, main, bak, decided, refused, settled,
                  kept, cooled, paused, issued, expired, faults, lost>>
  BY DEF CooldownEnds, files, work, marks, world
<1>3. TypeOK'
  BY <1>1, <1>2 DEF TypeOK
<1>4. OrderInv' /\ SourcesInv' /\ ProgressInv'
  BY <1>1, <1>2 DEF OrderInv, SourcesInv, ProgressInv
<1>. QED
  BY <1>3, <1>4

(* A crash leaves the variables or their flushed copy; neither shows a settled
   prompt.                                                                   *)
LEMMA CrashInd == IndInv /\ Crash => IndInv'
<1> SUFFICES ASSUME IndInv, Crash PROVE IndInv'
  OBVIOUS
<1>. USE DEF IndInv
<1>1. /\ gv' \in {gv, disk} /\ refused' \in {refused, cooled}
      /\ pc' = "down" /\ cont' = "idle" /\ pending' = Nobody
  BY DEF Crash
<1>2. UNCHANGED <<disk, main, bak, decided, settled, kept, cooled, paused,
                  issued, expired, lost>>
  BY DEF Crash, files, marks
<1>3. faults' \in 0 .. MaxFaults
  BY BoundsAssumption DEF Crash, TypeOK
<1>4. TypeOK'
  BY <1>1, <1>2, <1>3, ConstantTypes DEF TypeOK, Steps
<1>5. OrderInv' /\ SourcesInv' /\ ProgressInv'
  BY <1>1, <1>2, ClearNobody DEF OrderInv, SourcesInv, ProgressInv
<1>. QED
  BY <1>4, <1>5

LEMMA LoseVariablesInd == IndInv /\ LoseVariables => IndInv'
<1> SUFFICES ASSUME IndInv, LoseVariables PROVE IndInv'
  OBVIOUS
<1>. USE DEF IndInv, LoseVariables, files, work, marks
<1>1. NoStore \in Store /\ NoStore.p = Nobody
  BY ConstantTypes DEF NoStore
<1>2. TypeOK'
  BY <1>1 DEF TypeOK
<1>3. OrderInv' /\ SourcesInv' /\ ProgressInv'
  BY <1>1, ClearNobody DEF OrderInv, SourcesInv, ProgressInv
<1>. QED
  BY <1>2, <1>3

-----------------------------------------------------------------------------

(* The invariant is inductive: OnInit, every handler, every step of a
   checkpoint and every crash preserve it.                                   *)
THEOREM Invariance == Spec => []IndInv
<1>1. IndInv /\ [Next]_vars => IndInv'
  <2> SUFFICES ASSUME IndInv, [Next]_vars PROVE IndInv'
    OBVIOUS
  <2>1. CASE \E s \in Symbols : Prompt(s) \/ Refuse(s) \/ Consume(s)
                               \/ Expire(s) \/ CooldownEnds(s)
    BY <2>1, PromptInd, RefuseInd, ConsumeInd, ExpireInd, CooldownEndsInd
  <2>2. CASE \E due \in BOOLEAN : Timer(due)
    BY <2>2, TimerInd
  <2>3. CASE TogglePause \/ Stop
    BY <2>3, TogglePauseInd, StopInd
  <2>4. CASE Save
    BY <2>4, FlushInd, OpenMainInd, WriteRowInd, CloseMainInd, SealInd,
       BeginCopyInd, FinishCopyInd, CopyFailsInd DEF Save
  <2>5. CASE OnInit
    BY <2>5, StartInd, RecoverInd, FallbackInd, CopyBackInd, RestoreInd DEF OnInit
  <2>6. CASE Crash \/ LoseVariables
    BY <2>6, CrashInd, LoseVariablesInd
  <2>7. CASE UNCHANGED vars
    BY <2>7 DEF vars, store, files, work, marks, world, IndInv, TypeOK, OrderInv,
                SourcesInv, ProgressInv
  <2>. QED
    BY <2>1, <2>2, <2>3, <2>4, <2>5, <2>6, <2>7 DEF Next
<1>. QED
  BY <1>1, InitInd, PTL DEF Spec

(* Every variable keeps its type. *)
THEOREM TypeCorrect == Spec => []TypeOK
<1>1. IndInv => TypeOK
  BY DEF IndInv
<1>. QED
  BY <1>1, Invariance, PTL

(* A prompt whose approval, denial, timeout or replacement is in a completed
   checkpoint is never on the screen again, however many crashes, failed
   copies and recoveries follow, and even when the variables are deleted.    *)
THEOREM SettledIsFinal == Spec => []SettledStaysSettled
<1>1. IndInv => SettledStaysSettled
  BY DEF IndInv, SourcesInv, Clear, SettledStaysSettled
<1>. QED
  BY <1>1, Invariance, PTL

-----------------------------------------------------------------------------

(* A step that ends no cooldown, refuses nothing and writes to the disk, if
   anything, variables no less cool.                                         *)
LEMMA CoolKept ==
    ASSUME TypeOK, TypeOK', CoolInv,
           gv.cool \subseteq gv'.cool,
           disk.cool \subseteq disk'.cool \/ gv.cool \subseteq disk'.cool,
           UNCHANGED <<refused, cooled, lost>>,
           \A s \in Symbols : expired[s] <= expired'[s] /\ issued[s] <= issued'[s]
    PROVE  CoolInv'
<1>. SUFFICES ASSUME NEW s \in Symbols
              PROVE  /\ cooled[s] <= refused[s] /\ refused[s] <= issued'[s]
                     /\ ~lost => /\ refused[s] <= expired'[s] \/ s \in gv'.cool
                                 /\ cooled[s] <= expired'[s] \/ s \in disk'.cool
  BY DEF CoolInv
<1>1. /\ cooled[s] \in Nat /\ refused[s] \in Nat /\ expired[s] \in Nat
      /\ expired'[s] \in Nat /\ issued[s] \in Nat /\ issued'[s] \in Nat
  BY BookType DEF TypeOK
<1>2. /\ cooled[s] <= refused[s] /\ refused[s] <= issued[s]
      /\ ~lost => /\ refused[s] <= expired[s] \/ s \in gv.cool
                  /\ cooled[s] <= expired[s] \/ s \in disk.cool
  BY DEF CoolInv
<1>3. expired[s] <= expired'[s] /\ issued[s] <= issued'[s]
  OBVIOUS
<1>. QED
  BY <1>1, <1>2, <1>3

(* Time does not run backwards in a step that leaves the clock alone. *)
LEMMA SameClock ==
    ASSUME TypeOK, UNCHANGED <<issued, expired>>
    PROVE  \A s \in Symbols : expired[s] <= expired'[s] /\ issued[s] <= issued'[s]
<1>1. \A s \in Symbols : expired[s] \in Nat /\ issued[s] \in Nat
  BY BookType DEF TypeOK
<1>. QED
  BY <1>1

(* A checkpoint copies cooldowns, and never ends one. *)
LEMMA SaveCool ==
    ASSUME TypeOK, TypeOK', CoolInv, Save
    PROVE  CoolInv'
<1>1. CASE Flush
  <2>1. \A s \in Symbols : refused[s] \in Nat
    BY BookType DEF TypeOK
  <2>2. \A s \in Symbols : refused[s] <= refused[s]
    BY <2>1
  <2>. QED
    BY <1>1, <2>2 DEF Flush, CoolInv, work, world
<1>2. CASE OpenMain \/ WriteRow \/ CloseMain \/ Seal \/ BeginCopy
  BY <1>2, SameClock, CoolKept
     DEF OpenMain, WriteRow, CloseMain, Seal, BeginCopy, store, work, marks, world
<1>3. CASE FinishCopy \/ CopyFails
  <2>1. gv'.cool = gv.cool /\ disk' \in {disk, gv'}
    BY <1>3 DEF FinishCopy, CopyFails, Resume, Persisted, TypeOK, Store
  <2>2. UNCHANGED <<refused, cooled, lost, issued, expired>>
    BY <1>3 DEF FinishCopy, CopyFails, work, marks, world
  <2>. QED
    BY <2>1, <2>2, SameClock, CoolKept
<1>. QED
  BY <1>1, <1>2, <1>3 DEF Save

(* Recovery only adds cooldowns. *)
LEMMA OnInitCool ==
    ASSUME TypeOK, TypeOK', CoolInv, OnInit
    PROVE  CoolInv'
<1>1. CASE Start \/ Fallback \/ CopyBack
  BY <1>1, SameClock, CoolKept DEF Start, Fallback, CopyBack, store, work, marks, world
<1>2. CASE Recover
  <2>1. gv.cool \subseteq gv'.cool
    BY <1>2 DEF Recover, Persisted, Cooled, Refreshed, TypeOK, Store
  <2>. QED
    BY <1>2, <2>1, SameClock, CoolKept DEF Recover, marks, world
<1>3. CASE Restore
  <2>1. gv.cool \subseteq gv'.cool /\ disk' \in {disk, gv'}
    <3>1. CASE main.head
      <4>. DEFINE late == {s \in Symbols :
                             main.row[s] # 0 /\ main.row[s] <= expired[s]}
                  fill(old, new) == IF old = "absent" THEN new ELSE old
      <4>1. Cooled(gv, late) \in Store /\ gv.cool \subseteq Cooled(gv, late).cool
        BY StoreUpdates DEF Cooled, TypeOK, Store
      <4>2. gv' = [Cooled(gv, late) EXCEPT !.paused = fill(@, main.risk.paused),
                                           !.base   = fill(@, main.risk.base)]
        BY <1>3, <3>1 DEF Restore
      <4>3. disk' = gv'
        BY <1>3, <3>1 DEF Restore
      <4>. HIDE DEF late
      <4>. QED
        BY <4>1, <4>2, <4>3 DEF Store
    <3>2. CASE ~main.head
      BY <1>3, <3>2 DEF Restore, store
    <3>. QED
      BY <3>1, <3>2
  <2>. QED
    BY <1>3, <2>1, SameClock, CoolKept DEF Restore, marks, world
<1>. QED
  BY <1>1, <1>2, <1>3 DEF OnInit

(* The handlers: a refusal cools its symbol in the step that records it. *)
LEMMA HandlerCool ==
    ASSUME TypeOK, TypeOK', CoolInv, NEW s \in Symbols,
           Prompt(s) \/ Refuse(s) \/ Consume(s)
    PROVE  CoolInv'
<1>1. CASE Prompt(s)
  <2>1. \A r \in Symbols : expired[r] <= expired'[r] /\ issued[r] <= issued'[r]
    <3>. SUFFICES ASSUME NEW r \in Symbols
                  PROVE  expired[r] <= expired'[r] /\ issued[r] <= issued'[r]
      OBVIOUS
    <3>1. expired[r] \in Nat /\ issued[r] \in Nat /\ issued[s] \in Nat
      BY BookType DEF TypeOK
    <3>2. /\ expired'[r] = expired[r]
          /\ issued'[r] = IF r = s THEN issued[s] + 1 ELSE issued[r]
      BY <1>1 DEF Prompt, TypeOK, Book
    <3>. QED
      BY <3>1, <3>2
  <2>2. gv'.cool = gv.cool
    BY <1>1 DEF Prompt, Persisted, TypeOK, Store
  <2>. QED
    BY <1>1, <2>1, <2>2, CoolKept DEF Prompt
<1>2. CASE Refuse(s)
  <2>1. gv'.cool = gv.cool \cup {s}
    BY <1>2 DEF Refuse, Persisted, Cooled, TypeOK, Store
  <2>2. \A r \in Symbols :
          /\ refused'[r] = IF r = s THEN issued[s] ELSE refused[r]
          /\ issued[r] \in Nat /\ cooled[r] \in Nat /\ refused[r] \in Nat
    BY <1>2, BookType DEF Refuse, TypeOK, Book
  <2>3. UNCHANGED <<disk, cooled, lost, issued, expired>>
    BY <1>2 DEF Refuse
  <2>. QED
    BY <2>1, <2>2, <2>3 DEF CoolInv
<1>3. CASE Consume(s)
  <2>1. gv'.cool = gv.cool
    BY <1>3 DEF Consume, Persisted, TypeOK, Store
  <2>. QED
    BY <1>3, <2>1, SameClock, CoolKept DEF Consume
<1>. QED
  BY <1>1, <1>2, <1>3

LEMMA ButtonCool ==
    ASSUME TypeOK, TypeOK', CoolInv,
           TogglePause \/ Stop \/ \E due \in BOOLEAN : Timer(due)
    PROVE  CoolInv'
<1>1. gv'.cool = gv.cool
  BY DEF TogglePause, Timer, Stop, store, Persisted, TypeOK, Store
<1>2. UNCHANGED <<disk, refused, cooled, lost, issued, expired>>
  BY DEF TogglePause, Timer, Stop, store, work, marks, world
<1>. QED
  BY <1>1, <1>2, SameClock, CoolKept

(* A cooldown ends when every prompt of its symbol has expired; a crash takes
   the flushed cooldowns together with the refusals they belong to.          *)
LEMMA WorldCool ==
    ASSUME TypeOK, TypeOK', CoolInv,
           \/ \E s \in Symbols : Expire(s) \/ CooldownEnds(s)
           \/ Crash \/ LoseVariables
    PROVE  CoolInv'
<1>1. ASSUME NEW s \in Symbols, Expire(s) PROVE CoolInv'
  <2>1. \A r \in Symbols : expired[r] <= expired'[r] /\ issued[r] <= issued'[r]
    <3>. SUFFICES ASSUME NEW r \in Symbols
                  PROVE  expired[r] <= expired'[r] /\ issued[r] <= issued'[r]
      OBVIOUS
    <3>1. expired[r] \in Nat /\ issued[r] \in Nat /\ expired[s] \in Nat
      BY BookType DEF TypeOK
    <3>2. /\ issued'[r] = issued[r]
          /\ expired'[r] = IF r = s THEN expired[s] + 1 ELSE expired[r]
      BY <1>1 DEF Expire, TypeOK, Book
    <3>. QED
      BY <3>1, <3>2
  <2>. QED
    BY <1>1, <2>1, CoolKept DEF Expire, store, work, marks
<1>2. ASSUME NEW s \in Symbols, CooldownEnds(s) PROVE CoolInv'
  <2>1. gv'.cool = gv.cool \ {s} /\ disk'.cool = disk.cool \ {s}
    BY <1>2 DEF CooldownEnds, TypeOK, Store
  <2>2. UNCHANGED <<refused, cooled, lost, issued, expired>> /\ expired[s] = issued[s]
    BY <1>2 DEF CooldownEnds, work, marks, world
  <2>3. cooled[s] \in Nat /\ refused[s] \in Nat /\ issued[s] \in Nat
    BY BookType DEF TypeOK
  <2>. QED
    BY <2>1, <2>2, <2>3 DEF CoolInv
<1>3. CASE Crash
  <2>1. \A r \in Symbols : cooled[r] \in Nat /\ refused[r] \in Nat /\ issued[r] \in Nat
    BY BookType DEF TypeOK
  <2>2. UNCHANGED <<disk, cooled, lost, issued, expired>>
    BY <1>3 DEF Crash, marks
  <2>3. (gv' = disk /\ refused' = cooled) \/ UNCHANGED <<gv, refused>>
    BY <1>3 DEF Crash
  <2>. QED
    BY <2>1, <2>2, <2>3 DEF CoolInv
<1>4. CASE LoseVariables
  BY <1>4 DEF LoseVariables, CoolInv, work, marks
<1>. QED
  BY <1>1, <1>2, <1>3, <1>4

(* A refused prompt that a stale file brings back finds its symbol cooling
   down, or its own deadline passed, unless the variables were deleted.      *)
THEOREM RefusedStaysBlocked == Spec => []ResurrectedIsCooled
<1>1. Init => CoolInv
  <2>. 0 <= 0
    OBVIOUS
  <2>1. \A s \in Symbols : Nobody[s] = 0
    BY DEF Nobody
  <2>2. \A s \in Symbols : Nobody[s] <= Nobody[s]
    BY <2>1
  <2>. QED
    BY <2>2 DEF Init, CoolInv
<1>2. TypeOK /\ TypeOK' /\ CoolInv /\ [Next]_vars => CoolInv'
  <2>. SUFFICES ASSUME TypeOK, TypeOK', CoolInv, [Next]_vars PROVE CoolInv'
    OBVIOUS
  <2>1. CASE UNCHANGED vars
    BY <2>1 DEF vars, store, work, marks, world, CoolInv
  <2>2. CASE \E s \in Symbols : Prompt(s) \/ Refuse(s) \/ Consume(s)
    BY <2>2, HandlerCool
  <2>3. CASE TogglePause \/ Stop \/ \E due \in BOOLEAN : Timer(due)
    BY <2>3, ButtonCool
  <2>4. CASE Save \/ OnInit
    BY <2>4, SaveCool, OnInitCool
  <2>5. CASE \/ \E s \in Symbols : Expire(s) \/ CooldownEnds(s)
             \/ Crash \/ LoseVariables
    BY <2>5, WorldCool
  <2>. QED
    BY <2>1, <2>2, <2>3, <2>4, <2>5 DEF Next
<1>3. TypeOK /\ CoolInv => ResurrectedIsCooled
  <2>. SUFFICES ASSUME TypeOK, CoolInv, NEW s \in Symbols,
                       ~lost, pending[s] \in 1 .. cooled[s]
                PROVE  s \in gv.cool \/ pending[s] <= expired[s]
    BY DEF ResurrectedIsCooled
  <2>1. /\ pending[s] \in Nat /\ cooled[s] \in Nat /\ refused[s] \in Nat
        /\ expired[s] \in Nat
    BY BookType DEF TypeOK
  <2>. QED
    BY <2>1 DEF CoolInv
<1>. QED
  BY <1>1, <1>2, <1>3, TypeCorrect, PTL DEF Spec

-----------------------------------------------------------------------------
(* What one fault leaves of a completed checkpoint. *)

(* A completed checkpoint holds something a restart must find again. *)
Promised == settled # Nobody \/ kept # Nobody \/ paused

(* File f is sealed and holds the pause and the undecided prompts of the last
   completed checkpoint, if that promised anything.                          *)
Holds(f) ==
    Promised => /\ Valid(f)
                /\ paused => f.risk.paused = "yes"
                /\ \A s \in Symbols : kept[s] > expired[s] => f.row[s] = kept[s]

(* Book b shows no other prompt in the place of a kept one. *)
Agrees(b) == \A s \in Symbols : kept[s] > expired[s] => b[s] \in {0, kept[s]}

Recovering == {"down", "recover", "fallback", "copyback", "restore"}

(* The variables and the file under way are taken from the prompts in memory;
   the file has its END row only when it has all the others.                 *)
WrittenInv ==
    /\ pc \notin {"down", "recover"} => \A s \in Symbols : gv.p[s] \in {0, pending[s]}
    /\ pc \in {"down", "recover"} => pending = Nobody
    /\ pc \in {"open", "write", "seal", "copy", "copying"} =>
          /\ disk.paused = gv.paused
          /\ \A s \in Symbols : disk.p[s] \in {0, pending[s]}
    /\ pc = "write" => /\ ~main.end /\ main.risk \in {NoRisk, RiskRow}
                       /\ \A s \in Symbols : main.row[s] \in {0, pending[s]}
    /\ pc \in {"seal", "copy", "copying"} =>
          /\ main.head /\ main.risk = RiskRow /\ main.row = pending
          /\ main.end <=> pc # "seal"

(* The running program has the pause in force and the kept prompts pending;
   what the variables and their flushed copy show contradicts neither.       *)
MemoryInv ==
    faults <= 1 =>
        /\ Agrees(gv.p) /\ Agrees(disk.p) /\ Agrees(pending)
        /\ paused => gv.paused = disk.paused /\ gv.paused # "no"
        /\ pc \notin Recovering =>
              /\ paused => gv.paused = "yes"
              /\ \A s \in Symbols : kept[s] > expired[s] => pending[s] = kept[s]

(* Before the fault the backup holds what was promised while the primary is
   rewritten, and the sealed primary while the backup is copied.  After it the
   file that OnInit is going to restore does.                                *)
FilesInv ==
    /\ faults = 0 => (pc # "copying" => Holds(bak)) /\ (Valid(main) => Holds(main))
    /\ faults <= 1 =>
          /\ pc \in {"down", "recover", "fallback"} =>
                IF Valid(main) THEN Holds(main) ELSE Holds(bak)
          /\ pc = "copyback" => Holds(bak)
          /\ pc = "restore" => Holds(main)

SurvivalInv == WrittenInv /\ MemoryInv /\ FilesInv

(* Lifting a pause, deciding a prompt or letting one expire promises less. *)
LEMMA PromisedLess ==
    ASSUME TypeOK, TypeOK', settled' = settled, paused' => paused,
           \A s \in Symbols : kept'[s] \in {0, kept[s]} /\ expired[s] <= expired'[s]
    PROVE  /\ Promised' => Promised
           /\ \A s \in Symbols : kept'[s] > expired'[s] =>
                                    kept'[s] = kept[s] /\ kept[s] > expired[s]
<1>1. \A s \in Symbols : /\ kept[s] \in Nat /\ kept'[s] \in Nat
                         /\ expired[s] \in Nat /\ expired'[s] \in Nat
  BY BookType DEF TypeOK
<1>2. kept = Nobody => kept' = Nobody
  <2>. SUFFICES ASSUME kept = Nobody PROVE kept' = Nobody
    OBVIOUS
  <2>1. \A s \in Symbols : kept'[s] = 0
    BY DEF Nobody
  <2>2. kept' \in [Symbols -> Prompts]
    BY DEF TypeOK, Book
  <2>. QED
    BY <2>1, <2>2 DEF Nobody
<1>3. Promised' => Promised
  <2>1. Nobody' = Nobody
    BY DEF Nobody
  <2>. QED
    BY <1>2, <2>1 DEF Promised
<1>. QED
  BY <1>1, <1>3

(* A kept prompt is promised. *)
LEMMA KeptPromised ==
    ASSUME TypeOK, NEW s \in Symbols, kept[s] > expired[s]
    PROVE  Promised /\ kept[s] # 0
<1>1. kept[s] \in Nat /\ expired[s] \in Nat
  BY BookType DEF TypeOK
<1>2. kept[s] # 0
  BY <1>1
<1>3. kept # Nobody
  BY <1>2 DEF Nobody
<1>. QED
  BY <1>2, <1>3 DEF Promised

(* A clock that stands still, or marks that do. *)
LEMMA SameMarks ==
    ASSUME TypeOK, UNCHANGED <<settled, kept, paused, expired>>
    PROVE  /\ Promised' = Promised
           /\ \A s \in Symbols : (kept'[s] > expired'[s]) = (kept[s] > expired[s])
<1>1. Nobody' = Nobody
  BY DEF Nobody
<1>. QED
  BY <1>1 DEF Promised

LEMMA SurvivalInit == Init => SurvivalInv
<1>. SUFFICES ASSUME Init PROVE SurvivalInv
  OBVIOUS
<1>1. ~Promised
  BY DEF Init, Promised
<1>2. \A f : Holds(f)
  BY <1>1 DEF Holds
<1>3. WrittenInv
  BY DEF Init, WrittenInv
<1>4. \A s \in Symbols : Nobody[s] = 0
  BY DEF Nobody
<1>5. MemoryInv
  BY <1>4 DEF Init, MemoryInv, Agrees, Recovering, NoStore
<1>6. FilesInv
  BY <1>2 DEF Init, FilesInv
<1>. QED
  BY <1>3, <1>5, <1>6 DEF SurvivalInv

(* Time passes, a cooldown ends, or nothing happens. *)
LEMMA QuietSurvives ==
    ASSUME TypeOK, TypeOK', SurvivalInv,
           UNCHANGED <<pc, pending, main, bak, settled, kept, paused, faults>>,
           gv'.p = gv.p, gv'.paused = gv.paused, gv'.base = gv.base,
           disk'.p = disk.p, disk'.paused = disk.paused,
           \A s \in Symbols : expired[s] <= expired'[s]
    PROVE  SurvivalInv'
<1>1. \A s \in Symbols : kept'[s] \in {0, kept[s]} /\ expired[s] <= expired'[s]
  OBVIOUS
<1>2. /\ Promised' => Promised
      /\ \A s \in Symbols : kept'[s] > expired'[s] =>
                               kept'[s] = kept[s] /\ kept[s] > expired[s]
  BY <1>1, PromisedLess
<1>3. (Holds(main) => Holds(main)') /\ (Holds(bak) => Holds(bak)')
  BY <1>2 DEF Holds, Valid
<1>4. RiskRow' = RiskRow
  BY DEF RiskRow
<1>5. WrittenInv'
  BY <1>4 DEF SurvivalInv, WrittenInv, Nobody, NoRisk
<1>6. MemoryInv'
  BY <1>2 DEF SurvivalInv, MemoryInv, Agrees, Recovering
<1>7. FilesInv'
  BY <1>3 DEF SurvivalInv, FilesInv, Valid
<1>. QED
  BY <1>5, <1>6, <1>7 DEF SurvivalInv

(* An event handler touches neither file, and forgets a prompt only with the
   promise to keep it.                                                       *)
LEMMA EventSurvives ==
    ASSUME TypeOK, TypeOK', SurvivalInv, pc = "idle", pc' \in {"idle", "flush"},
           UNCHANGED <<disk, main, bak, settled, expired, faults>>,
           paused' => paused /\ gv'.paused = gv.paused,
           \A s \in Symbols : /\ gv'.p[s] \in {0, pending'[s]}
                              /\ \/ kept'[s] = 0
                                 \/ kept'[s] = kept[s] /\ pending'[s] = pending[s]
    PROVE  SurvivalInv'
<1>1. \A s \in Symbols : expired[s] \in Nat /\ expired'[s] = expired[s]
  BY BookType DEF TypeOK
<1>2. \A s \in Symbols : kept'[s] \in {0, kept[s]} /\ expired[s] <= expired'[s]
  BY <1>1
<1>3. /\ Promised' => Promised
      /\ \A s \in Symbols : kept'[s] > expired'[s] =>
                               kept'[s] = kept[s] /\ kept[s] > expired[s]
  BY <1>2, PromisedLess
<1>4. \A s \in Symbols : kept'[s] > expired'[s] =>
        /\ kept'[s] # 0 /\ kept'[s] = kept[s] /\ kept[s] > expired[s]
        /\ pending'[s] = pending[s]
  <2>1. \A s \in Symbols : ~(0 > expired'[s])
    BY <1>1
  <2>. QED
    BY <1>3, <2>1
<1>5. (Holds(main) => Holds(main)') /\ (Holds(bak) => Holds(bak)')
  BY <1>3 DEF Holds, Valid
<1>6. WrittenInv'
  BY DEF WrittenInv
<1>7. MemoryInv'
  BY <1>4 DEF SurvivalInv, MemoryInv, Agrees, Recovering
<1>8. FilesInv'
  BY <1>5 DEF SurvivalInv, FilesInv, Valid
<1>. QED
  BY <1>6, <1>7, <1>8 DEF SurvivalInv

(* The handlers of prompts, of the pause button and of the timer. *)
LEMMA HandlersSurvive ==
    ASSUME TypeOK, TypeOK', SurvivalInv,
           \/ \E s \in Symbols : Prompt(s) \/ Refuse(s) \/ Consume(s)
           \/ TogglePause \/ Stop \/ \E due \in BOOLEAN : Timer(due)
    PROVE  SurvivalInv'
<1>1. pc = "idle" /\ pc' \in {"idle", "flush"}
  BY DEF Prompt, Refuse, Consume, TogglePause, Stop, Timer, Checkpoint
<1>2. \A s \in Symbols : gv.p[s] \in {0, pending[s]}
  BY <1>1 DEF SurvivalInv, WrittenInv
<1>3. UNCHANGED <<disk, main, bak, settled, expired, faults>>
  BY DEF Prompt, Refuse, Consume, TogglePause, Stop, Timer, files, marks, store, world
<1>4. /\ paused' => paused /\ gv'.paused = gv.paused
      /\ \A s \in Symbols : /\ gv'.p[s] \in {0, pending'[s]}
                            /\ \/ kept'[s] = 0
                               \/ kept'[s] = kept[s] /\ pending'[s] = pending[s]
  <2>1. ASSUME NEW r \in Symbols, Prompt(r) \/ Refuse(r) \/ Consume(r)
        PROVE  /\ paused' = paused /\ gv'.paused = gv.paused /\ gv'.p = pending'
               /\ \A s \in Symbols : \/ kept'[s] = 0
                                     \/ kept'[s] = kept[s] /\ pending'[s] = pending[s]
    <3>1. paused' = paused /\ gv'.paused = gv.paused /\ gv'.p = pending'
      BY <2>1 DEF Prompt, Refuse, Consume, Persisted, Cooled, TypeOK, Store
    <3>2. /\ kept' = [kept EXCEPT ![r] = 0]
          /\ \A s \in Symbols \ {r} : pending'[s] = pending[s]
      BY <2>1 DEF Prompt, Refuse, Consume, TypeOK, Book
    <3>3. \A s \in Symbols : kept'[s] = IF s = r THEN 0 ELSE kept[s]
      BY <3>2 DEF TypeOK, Book
    <3>. QED
      BY <3>1, <3>2, <3>3
  <2>2. CASE TogglePause
    <3>1. gv'.p = gv.p /\ ~paused' /\ kept' = kept /\ pending' = pending
      BY <2>2 DEF TogglePause, TypeOK, Store
    <3>. QED
      BY <1>2, <3>1
  <2>3. CASE Stop
    BY <1>2, <2>3 DEF Stop, store, marks
  <2>4. ASSUME NEW due \in BOOLEAN, Timer(due)
        PROVE  /\ gv'.p = pending /\ gv'.paused = gv.paused
               /\ UNCHANGED <<paused, kept, pending>>
    BY <2>4 DEF Timer, Persisted, TypeOK, Store, marks
  <2>. QED
    BY <2>1, <2>2, <2>3, <2>4
<1>. QED
  BY <1>1, <1>3, <1>4, EventSurvives

(* A step of a checkpoint up to the copy leaves the promises, the prompts and
   the variables alone, and so what the program in memory shows.             *)
LEMMA MemorySurvives ==
    ASSUME TypeOK, MemoryInv, pc \notin Recovering, pc' \notin Recovering,
           UNCHANGED <<pending, gv, settled, kept, paused, expired, faults>>,
           disk' \in {disk, gv}
    PROVE  MemoryInv'
<1>1. \A s \in Symbols : (kept'[s] > expired'[s]) = (kept[s] > expired[s])
  BY SameMarks
<1>. QED
  BY <1>1 DEF MemoryInv, Agrees, Recovering

LEMMA FlushSurvives == TypeOK /\ SurvivalInv /\ Flush => SurvivalInv'
<1>. SUFFICES ASSUME TypeOK, SurvivalInv, Flush PROVE SurvivalInv'
  OBVIOUS
<1>1. /\ UNCHANGED <<pending, gv, main, bak, settled, kept, paused, expired, faults>>
      /\ disk' = gv /\ pc = "flush" /\ pc' = "open"
  BY DEF Flush, files, world
<1>2. Promised' = Promised
  BY <1>1, SameMarks
<1>3. WrittenInv'
  BY <1>1 DEF SurvivalInv, WrittenInv
<1>4. MemoryInv'
  BY <1>1, MemorySurvives DEF SurvivalInv, Recovering
<1>5. FilesInv'
  BY <1>1, <1>2 DEF SurvivalInv, FilesInv, Holds, Valid
<1>. QED
  BY <1>3, <1>4, <1>5 DEF SurvivalInv

(* The truncated primary holds nothing; before the fault the backup does. *)
LEMMA OpenMainSurvives == TypeOK /\ SurvivalInv /\ OpenMain => SurvivalInv'
<1>. SUFFICES ASSUME TypeOK, SurvivalInv, OpenMain PROVE SurvivalInv'
  OBVIOUS
<1>1. /\ UNCHANGED <<pending, gv, disk, bak, settled, kept, paused, expired, faults>>
      /\ main' = Blank /\ pc = "open" /\ pc' = "write"
  BY DEF OpenMain, store, marks, world
<1>2. Promised' = Promised
  BY <1>1, SameMarks
<1>3. ~Valid(main')
  BY <1>1 DEF Valid, Blank
<1>4. WrittenInv'
  <2>1. /\ main'.end = FALSE /\ main'.risk = NoRisk
        /\ \A s \in Symbols : main'.row[s] = 0
    BY <1>1 DEF Blank, Nobody
  <2>. QED
    BY <1>1, <2>1 DEF SurvivalInv, WrittenInv, NoRisk
<1>5. MemoryInv'
  BY <1>1, MemorySurvives DEF SurvivalInv, Recovering
<1>6. FilesInv'
  BY <1>1, <1>2, <1>3 DEF SurvivalInv, FilesInv, Holds, Valid
<1>. QED
  BY <1>4, <1>5, <1>6 DEF SurvivalInv

LEMMA WriteRowSurvives == TypeOK /\ SurvivalInv /\ WriteRow => SurvivalInv'
<1>. SUFFICES ASSUME TypeOK, SurvivalInv, WriteRow PROVE SurvivalInv'
  OBVIOUS
<1>1. /\ UNCHANGED <<pending, gv, disk, bak, settled, kept, paused, expired, faults, pc>>
      /\ pc = "write"
  BY DEF WriteRow, store, marks, world
<1>2. Promised' = Promised
  BY <1>1, SameMarks
<1>3. /\ ~main'.end /\ main'.risk \in {NoRisk, RiskRow}
      /\ \A s \in Symbols : main'.row[s] \in {0, pending[s]}
  <2>1. /\ ~main.end /\ main.risk \in {NoRisk, RiskRow} /\ main \in File
        /\ \A s \in Symbols : main.row[s] \in {0, pending[s]}
    BY <1>1 DEF SurvivalInv, WrittenInv, TypeOK
  <2>2. CASE main' = [main EXCEPT !.head = TRUE]
    BY <2>1, <2>2 DEF File
  <2>3. CASE main' = [main EXCEPT !.risk = RiskRow]
    BY <2>1, <2>3 DEF File
  <2>4. ASSUME NEW r \in Symbols, main' = [main EXCEPT !.row[r] = pending[r]]
        PROVE  /\ ~main'.end /\ main'.risk \in {NoRisk, RiskRow}
               /\ \A s \in Symbols : main'.row[s] \in {0, pending[s]}
    <3>1. main'.end = main.end /\ main'.risk = main.risk
      BY <2>1, <2>4 DEF File
    <3>2. main'.row = [main.row EXCEPT ![r] = pending[r]]
      BY <2>1, <2>4 DEF File
    <3>3. \A s \in Symbols : main'.row[s] = IF s = r THEN pending[r] ELSE main.row[s]
      BY <2>1, <3>2 DEF File, Book
    <3>. QED
      BY <2>1, <3>1, <3>3
  <2>. QED
    BY <2>2, <2>3, <2>4 DEF WriteRow, Unwritten
<1>4. WrittenInv'
  <2>1. RiskRow' = RiskRow /\ NoRisk' = NoRisk
    BY <1>1 DEF RiskRow, NoRisk
  <2>. QED
    BY <1>1, <1>3, <2>1 DEF SurvivalInv, WrittenInv
<1>5. MemoryInv'
  BY <1>1, MemorySurvives DEF SurvivalInv, Recovering
<1>6. FilesInv'
  BY <1>1, <1>2, <1>3 DEF SurvivalInv, FilesInv, Holds, Valid
<1>. QED
  BY <1>4, <1>5, <1>6 DEF SurvivalInv

(* With nothing left to write, the rows are the prompts pending. *)
LEMMA CloseMainSurvives == TypeOK /\ SurvivalInv /\ CloseMain => SurvivalInv'
<1>. SUFFICES ASSUME TypeOK, SurvivalInv, CloseMain PROVE SurvivalInv'
  OBVIOUS
<1>1. /\ UNCHANGED <<pending, gv, disk, main, bak, settled, kept, paused, expired, faults>>
      /\ pc = "write" /\ pc' \in {"flush", "seal"}
  BY DEF CloseMain, Checkpoint, store, files, marks, world
<1>2. Promised' = Promised
  BY <1>1, SameMarks
<1>3. /\ ~main.end /\ main.head /\ main.risk = RiskRow /\ main.row = pending
  <2>1. /\ ~main.end /\ main.risk \in {NoRisk, RiskRow}
        /\ \A s \in Symbols : main.row[s] \in {0, pending[s]}
    BY <1>1 DEF SurvivalInv, WrittenInv
  <2>2. main.head /\ main.risk # NoRisk /\ Unwritten = {}
    BY DEF CloseMain
  <2>3. \A s \in Symbols : main.row[s] = pending[s]
    BY <2>1, <2>2 DEF Unwritten
  <2>4. main.row = pending
    BY <2>3 DEF TypeOK, File, Book
  <2>. QED
    BY <2>1, <2>2, <2>4
<1>4. WrittenInv'
  <2>1. RiskRow' = RiskRow
    BY <1>1 DEF RiskRow
  <2>. QED
    BY <1>1, <1>3, <2>1 DEF SurvivalInv, WrittenInv
<1>5. MemoryInv'
  BY <1>1, MemorySurvives DEF SurvivalInv, Recovering
<1>6. FilesInv'
  BY <1>1, <1>2 DEF SurvivalInv, FilesInv, Holds, Valid
<1>. QED
  BY <1>4, <1>5, <1>6 DEF SurvivalInv

(* A file written to its end from a memory that keeps the promises holds them. *)
LEMMA WrittenHolds ==
    ASSUME TypeOK, MemoryInv, faults <= 1, pc \in {"seal", "copy", "copying"},
           NEW f, Valid(f), f.risk = RiskRow, f.row = pending
    PROVE  Holds(f)
<1>1. (paused => gv.paused = "yes")
      /\ \A s \in Symbols : kept[s] > expired[s] => pending[s] = kept[s]
  BY DEF MemoryInv, Recovering
<1>2. paused => f.risk.paused = "yes"
  BY <1>1 DEF RiskRow
<1>. QED
  BY <1>1, <1>2 DEF Holds

LEMMA SealSurvives == TypeOK /\ SurvivalInv /\ Seal => SurvivalInv'
<1>. SUFFICES ASSUME TypeOK, SurvivalInv, Seal PROVE SurvivalInv'
  OBVIOUS
<1>1. /\ UNCHANGED <<pending, gv, disk, bak, settled, kept, paused, expired, faults>>
      /\ pc = "seal" /\ pc' = "copy"
  BY DEF Seal, store, marks, world
<1>2. Promised' = Promised
  BY <1>1, SameMarks
<1>3. Valid(main') /\ main'.risk = RiskRow /\ main'.row = pending
  BY <1>1 DEF Seal, Valid, SurvivalInv, WrittenInv, TypeOK, File
<1>4. WrittenInv'
  <2>1. RiskRow' = RiskRow
    BY <1>1 DEF RiskRow
  <2>. QED
    BY <1>1, <1>3, <2>1 DEF SurvivalInv, WrittenInv, Valid
<1>5. MemoryInv'
  BY <1>1, MemorySurvives DEF SurvivalInv, Recovering
<1>6. FilesInv'
  <2>1. faults <= 1 => Holds(main')
    BY <1>1, <1>3, WrittenHolds DEF SurvivalInv
  <2>2. faults = 0 => faults <= 1
    OBVIOUS
  <2>. QED
    BY <1>1, <1>2, <2>1, <2>2 DEF SurvivalInv, FilesInv, Holds, Valid
<1>. QED
  BY <1>4, <1>5, <1>6 DEF SurvivalInv

LEMMA BeginCopySurvives == TypeOK /\ SurvivalInv /\ BeginCopy => SurvivalInv'
<1>. SUFFICES ASSUME TypeOK, SurvivalInv, BeginCopy PROVE SurvivalInv'
  OBVIOUS
<1>1. /\ UNCHANGED <<pending, gv, disk, main, settled, kept, paused, expired, faults>>
      /\ pc = "copy" /\ pc' = "copying"
  BY DEF BeginCopy, store, marks, world
<1>2. Promised' = Promised
  BY <1>1, SameMarks
<1>3. WrittenInv'
  <2>1. RiskRow' = RiskRow
    BY <1>1 DEF RiskRow
  <2>. QED
    BY <1>1, <2>1 DEF SurvivalInv, WrittenInv
<1>4. MemoryInv'
  BY <1>1, MemorySurvives DEF SurvivalInv, Recovering
<1>5. FilesInv'
  BY <1>1, <1>2 DEF SurvivalInv, FilesInv, Holds, Valid
<1>. QED
  BY <1>3, <1>4, <1>5 DEF SurvivalInv

(* Going on or stopping, the program leaves the variables with the pause of the
   memory the file was written from, and with no prompt but its prompts.      *)
LEMMA ResumeShows ==
    ASSUME TypeOK, SurvivalInv, pc \in {"copy", "copying"}, Resume
    PROVE  /\ \/ pc' = "idle" /\ pending' = pending
              \/ pc' = "down" /\ pending' = Nobody
           /\ gv'.paused = gv.paused /\ disk'.paused = gv.paused
           /\ \A s \in Symbols : /\ gv'.p[s] \in {0, pending[s]}
                                 /\ disk'.p[s] \in {0, pending[s]}
<1>1. /\ disk.paused = gv.paused
      /\ \A s \in Symbols : gv.p[s] \in {0, pending[s]} /\ disk.p[s] \in {0, pending[s]}
  BY DEF SurvivalInv, WrittenInv
<1>2. Persisted(gv, pending).p = pending /\ Persisted(gv, pending).paused = gv.paused
  BY DEF Persisted, TypeOK, Store
<1>. QED
  BY <1>1, <1>2 DEF Resume

(* A checkpoint that completes promises what is in force and pending now, and
   both files hold it.                                                        *)
LEMMA FinishCopySurvives == TypeOK /\ TypeOK' /\ SurvivalInv /\ FinishCopy => SurvivalInv'
<1>. SUFFICES ASSUME TypeOK, TypeOK', SurvivalInv, FinishCopy PROVE SurvivalInv'
  OBVIOUS
<1>1. /\ UNCHANGED <<main, expired, faults>> /\ bak' = main /\ pc = "copying"
      /\ paused' = (paused \/ gv.paused = "yes")
      /\ \A s \in Symbols : kept'[s] = IF pending[s] # 0 THEN pending[s] ELSE kept[s]
  BY DEF FinishCopy, world
<1>2. /\ \/ pc' = "idle" /\ pending' = pending
         \/ pc' = "down" /\ pending' = Nobody
      /\ gv'.paused = gv.paused /\ disk'.paused = gv.paused
      /\ \A s \in Symbols : gv'.p[s] \in {0, pending[s]} /\ disk'.p[s] \in {0, pending[s]}
  BY <1>1, ResumeShows DEF FinishCopy
<1>3. faults <= 1 => /\ paused' => gv.paused = "yes"
                     /\ \A s \in Symbols : kept'[s] > expired[s] => pending[s] = kept'[s]
  <2>. SUFFICES ASSUME faults <= 1
                PROVE  /\ paused' => gv.paused = "yes"
                       /\ \A s \in Symbols : kept'[s] > expired[s] => pending[s] = kept'[s]
    OBVIOUS
  <2>1. /\ paused => gv.paused = "yes"
        /\ \A s \in Symbols : kept[s] > expired[s] => pending[s] = kept[s]
    BY <1>1 DEF SurvivalInv, MemoryInv, Recovering
  <2>. QED
    BY <1>1, <2>1
<1>4. faults <= 1 => Holds(main)' /\ Holds(bak)'
  <2>1. Valid(main) /\ main.risk = RiskRow /\ main.row = pending
    BY <1>1 DEF SurvivalInv, WrittenInv, Valid
  <2>2. gv.paused = "yes" => main.risk.paused = "yes"
    BY <2>1 DEF RiskRow
  <2>. QED
    BY <1>1, <1>3, <2>1, <2>2 DEF Holds, Valid
<1>5. WrittenInv'
  BY <1>2 DEF WrittenInv, Nobody
<1>6. MemoryInv'
  <2>. SUFFICES ASSUME faults <= 1
                PROVE  /\ Agrees(gv.p)' /\ Agrees(disk.p)' /\ Agrees(pending)'
                       /\ paused' => gv'.paused = disk'.paused /\ gv'.paused # "no"
                       /\ pc' \notin Recovering =>
                            /\ paused' => gv'.paused = "yes"
                            /\ \A s \in Symbols : kept'[s] > expired'[s] =>
                                                     pending'[s] = kept'[s]
    BY <1>1 DEF MemoryInv, Recovering
  <2>1. Agrees(gv.p)' /\ Agrees(disk.p)' /\ Agrees(pending)'
    BY <1>1, <1>2, <1>3 DEF Agrees, Nobody
  <2>. QED
    BY <1>1, <1>2, <1>3, <2>1 DEF Recovering
<1>7. FilesInv'
  <2>1. faults = 0 => faults <= 1
    OBVIOUS
  <2>. QED
    BY <1>1, <1>2, <1>4, <2>1 DEF FilesInv
<1>. QED
  BY <1>5, <1>6, <1>7 DEF SurvivalInv

(* The failed copy is the one fault: the sealed primary holds the promises. *)
LEMMA CopyFailsSurvives == TypeOK /\ TypeOK' /\ SurvivalInv /\ CopyFails => SurvivalInv'
<1>. SUFFICES ASSUME TypeOK, TypeOK', SurvivalInv, CopyFails PROVE SurvivalInv'
  OBVIOUS
<1>1. /\ UNCHANGED <<main, bak, settled, kept, paused, expired>>
      /\ pc = "copy" /\ faults \in Nat /\ faults' = faults + 1
  BY BoundsAssumption DEF CopyFails, files, marks, TypeOK
<1>2. /\ \/ pc' = "idle" /\ pending' = pending
         \/ pc' = "down" /\ pending' = Nobody
      /\ gv'.paused = gv.paused /\ disk'.paused = gv.paused
      /\ \A s \in Symbols : gv'.p[s] \in {0, pending[s]} /\ disk'.p[s] \in {0, pending[s]}
  BY <1>1, ResumeShows DEF CopyFails
<1>3. /\ Promised' = Promised
      /\ \A s \in Symbols : (kept'[s] > expired'[s]) = (kept[s] > expired[s])
  BY <1>1, SameMarks
<1>4. faults' # 0 /\ (faults' <= 1 => faults <= 1)
  BY <1>1
<1>5. Valid(main) /\ main.risk = RiskRow /\ main.row = pending
  BY <1>1 DEF SurvivalInv, WrittenInv, Valid
<1>6. faults <= 1 => Holds(main)
  BY <1>1, <1>5, WrittenHolds DEF SurvivalInv
<1>7. WrittenInv'
  BY <1>2 DEF WrittenInv, Nobody
<1>8. MemoryInv'
  <2>. SUFFICES ASSUME faults <= 1 PROVE MemoryInv'
    BY <1>4 DEF MemoryInv
  <2>1. /\ paused => gv.paused = "yes"
        /\ \A s \in Symbols : kept[s] > expired[s] => pending[s] = kept[s]
    BY <1>1 DEF SurvivalInv, MemoryInv, Recovering
  <2>2. Agrees(gv.p)' /\ Agrees(disk.p)' /\ Agrees(pending)'
    BY <1>1, <1>2, <1>3, <2>1 DEF Agrees, Nobody
  <2>. QED
    BY <1>1, <1>2, <1>3, <2>1, <2>2 DEF MemoryInv, Recovering
<1>9. FilesInv'
  BY <1>1, <1>2, <1>3, <1>4, <1>5, <1>6 DEF FilesInv, Holds, Valid
<1>. QED
  BY <1>7, <1>8, <1>9 DEF SurvivalInv

(* OnInit before the files are read: the prompts the variables still show. *)
LEMMA RecoverSurvives == TypeOK /\ TypeOK' /\ SurvivalInv /\ Recover => SurvivalInv'
<1>. SUFFICES ASSUME TypeOK, TypeOK', SurvivalInv, Recover PROVE SurvivalInv'
  OBVIOUS
<1>1. /\ UNCHANGED <<disk, main, bak, settled, kept, paused, expired, faults>>
      /\ pc = "recover" /\ pc' = "fallback"
      /\ \A s \in Symbols : pending'[s] \in {0, gv.p[s]}
  BY DEF Recover, files, marks, world
<1>2. gv'.p = pending' /\ gv'.paused = gv.paused
  BY DEF Recover, Persisted, Cooled, Refreshed, TypeOK, Store
<1>3. /\ Promised' = Promised
      /\ \A s \in Symbols : (kept'[s] > expired'[s]) = (kept[s] > expired[s])
  BY <1>1, SameMarks
<1>4. WrittenInv'
  BY <1>1, <1>2 DEF WrittenInv
<1>5. MemoryInv'
  BY <1>1, <1>2, <1>3 DEF SurvivalInv, MemoryInv, Agrees, Recovering
<1>6. FilesInv'
  BY <1>1, <1>3 DEF SurvivalInv, FilesInv, Holds, Valid
<1>. QED
  BY <1>4, <1>5, <1>6 DEF SurvivalInv

(* The file OnInit restores is the one that holds the promises. *)
LEMMA ChooseSurvives ==
    TypeOK /\ TypeOK' /\ SurvivalInv /\ (Start \/ Fallback \/ CopyBack) => SurvivalInv'
<1>. SUFFICES ASSUME TypeOK, TypeOK', SurvivalInv, Start \/ Fallback \/ CopyBack
              PROVE  SurvivalInv'
  OBVIOUS
<1>1. /\ UNCHANGED <<pending, gv, disk, bak, settled, kept, paused, expired, faults>>
      /\ pc \in Recovering /\ pc' \in Recovering
      /\ pc' = "recover" => pc = "down"
      /\ pc' # "recover" => pc \notin {"down", "recover"} /\ pc' \notin {"down", "recover"}
  BY DEF Start, Fallback, CopyBack, Recovering, store, files, marks, world
<1>2. /\ Promised' = Promised
      /\ \A s \in Symbols : (kept'[s] > expired'[s]) = (kept[s] > expired[s])
  BY <1>1, SameMarks
<1>3. WrittenInv'
  BY <1>1 DEF SurvivalInv, WrittenInv, Recovering, Nobody
<1>4. MemoryInv'
  BY <1>1, <1>2 DEF SurvivalInv, MemoryInv, Agrees, Recovering
<1>5. FilesInv'
  <2>1. CASE Start
    BY <1>1, <1>2, <2>1 DEF Start, files, SurvivalInv, FilesInv, Holds, Valid
  <2>2. CASE Fallback
    <3>1. CASE ~Valid(main) /\ Valid(bak)
      <4>1. ~Valid(Blank)
        BY DEF Valid, Blank
      <4>. QED
        BY <1>1, <1>2, <2>2, <3>1, <4>1
           DEF Fallback, SurvivalInv, FilesInv, Holds, Valid
    <3>2. CASE ~(~Valid(main) /\ Valid(bak))
      BY <1>1, <1>2, <2>2, <3>2 DEF Fallback, SurvivalInv, FilesInv, Holds, Valid
    <3>. QED
      BY <3>1, <3>2
  <2>3. CASE CopyBack
    BY <1>1, <1>2, <2>3 DEF CopyBack, SurvivalInv, FilesInv, Holds, Valid
  <2>. QED
    BY <2>1, <2>2, <2>3
<1>. QED
  BY <1>3, <1>4, <1>5 DEF SurvivalInv

(* The RISK row fills a missing pause, a PENDING row a missing prompt. *)
LEMMA RestoreSurvives == TypeOK /\ TypeOK' /\ SurvivalInv /\ Restore => SurvivalInv'
<1>. SUFFICES ASSUME TypeOK, TypeOK', SurvivalInv, Restore PROVE SurvivalInv'
  OBVIOUS
<1>1. /\ UNCHANGED <<main, bak, settled, kept, paused, expired, faults>>
      /\ pc = "restore" /\ pc' = "flush"
  BY DEF Restore, files, marks, world
<1>2. /\ Promised' = Promised
      /\ \A s \in Symbols : (kept'[s] > expired'[s]) = (kept[s] > expired[s])
  BY <1>1, SameMarks
<1>3. /\ gv'.p = gv.p /\ (disk' = gv' \/ (disk' = disk /\ gv' = gv))
      /\ main.head => gv'.paused = IF gv.paused = "absent" THEN main.risk.paused
                                                           ELSE gv.paused
  <2>1. CASE main.head
    <3>. DEFINE late == {s \in Symbols :
                           main.row[s] # 0 /\ main.row[s] <= expired[s]}
                fill(old, new) == IF old = "absent" THEN new ELSE old
    <3>1. Cooled(gv, late) \in Store /\ Cooled(gv, late).p = gv.p
          /\ Cooled(gv, late).paused = gv.paused
      BY StoreUpdates DEF TypeOK, Cooled, Store
    <3>2. gv' = [Cooled(gv, late) EXCEPT !.paused = fill(@, main.risk.paused),
                                         !.base   = fill(@, main.risk.base)]
      BY <2>1 DEF Restore
    <3>3. disk' = gv'
      BY <2>1 DEF Restore
    <3>. HIDE DEF late
    <3>. QED
      BY <3>1, <3>2, <3>3 DEF Store
  <2>2. CASE ~main.head
    BY <2>2 DEF Restore, store
  <2>. QED
    BY <2>1, <2>2
<1>4. \A s \in Symbols : IF main.head /\ pending[s] = 0 /\ main.row[s] > expired[s]
                         THEN pending'[s] = main.row[s] ELSE pending'[s] = pending[s]
  BY DEF Restore
<1>5. \A s \in Symbols : gv.p[s] \in {0, pending[s]}
  BY <1>1 DEF SurvivalInv, WrittenInv
<1>6. WrittenInv'
  BY <1>1, <1>3, <1>4, <1>5 DEF WrittenInv
<1>7. MemoryInv'
  <2>. SUFFICES ASSUME faults <= 1 PROVE MemoryInv'
    BY <1>1 DEF MemoryInv
  <2>1. /\ Agrees(gv.p) /\ Agrees(disk.p) /\ Agrees(pending) /\ Holds(main)
        /\ paused => gv.paused = disk.paused /\ gv.paused # "no"
    BY <1>1 DEF SurvivalInv, MemoryInv, FilesInv
  <2>2. Agrees(gv.p)' /\ Agrees(disk.p)'
    BY <1>1, <1>2, <1>3, <2>1 DEF Agrees
  <2>3. ASSUME paused
        PROVE  gv'.paused = "yes" /\ disk'.paused = "yes"
    <3>1. main.head /\ main.risk.paused = "yes"
      BY <2>1, <2>3 DEF Holds, Promised, Valid
    <3>2. gv.paused \in {"absent", "yes"}
      BY <2>1, <2>3 DEF TypeOK, Store, Pauses
    <3>. QED
      BY <1>3, <2>1, <2>3, <3>1, <3>2
  <2>4. ASSUME NEW s \in Symbols, kept[s] > expired[s]
        PROVE  pending'[s] = kept[s]
    <3>1. Promised /\ kept[s] # 0
      BY <2>4, KeptPromised
    <3>2. main.head /\ main.row[s] = kept[s]
      BY <2>1, <2>4, <3>1 DEF Holds, Valid
    <3>3. pending[s] \in {0, kept[s]}
      BY <2>1, <2>4 DEF Agrees
    <3>. QED
      BY <1>4, <2>4, <3>1, <3>2, <3>3
  <2>5. Agrees(pending)'
    BY <1>1, <1>2, <2>4 DEF Agrees
  <2>. QED
    BY <1>1, <1>2, <2>2, <2>3, <2>4, <2>5 DEF MemoryInv
<1>8. FilesInv'
  BY <1>1, <1>2 DEF SurvivalInv, FilesInv, Holds, Valid
<1>. QED
  BY <1>6, <1>7, <1>8 DEF SurvivalInv

(* The first crash leaves the promises in the file OnInit chooses. *)
LEMMA CrashSurvives == TypeOK /\ TypeOK' /\ SurvivalInv /\ Crash => SurvivalInv'
<1>. SUFFICES ASSUME TypeOK, TypeOK', SurvivalInv, Crash PROVE SurvivalInv'
  OBVIOUS
<1>1. /\ UNCHANGED <<disk, main, bak, settled, kept, paused, expired>>
      /\ gv' \in {gv, disk} /\ pending' = Nobody /\ pc' = "down"
      /\ faults \in Nat /\ faults' = faults + 1
  BY BoundsAssumption DEF Crash, files, marks, TypeOK
<1>2. /\ Promised' = Promised
      /\ \A s \in Symbols : (kept'[s] > expired'[s]) = (kept[s] > expired[s])
  BY <1>1, SameMarks
<1>3. faults' # 0 /\ (faults' <= 1 => faults = 0 /\ faults <= 1)
  BY <1>1
<1>4. WrittenInv'
  BY <1>1 DEF WrittenInv, Nobody
<1>5. MemoryInv'
  BY <1>1, <1>2, <1>3 DEF SurvivalInv, MemoryInv, Agrees, Recovering, Nobody
<1>6. FilesInv'
  <2>1. pc = "copying" => Valid(main)
    BY DEF SurvivalInv, WrittenInv, Valid
  <2>2. faults = 0 => IF Valid(main) THEN Holds(main) ELSE Holds(bak)
    BY <2>1 DEF SurvivalInv, FilesInv
  <2>. QED
    BY <1>1, <1>2, <1>3, <2>2 DEF FilesInv, Holds, Valid
<1>. QED
  BY <1>4, <1>5, <1>6 DEF SurvivalInv

(* Deleted variables show nothing, and contradict nothing. *)
LEMMA LoseVariablesSurvives ==
    TypeOK /\ TypeOK' /\ SurvivalInv /\ LoseVariables => SurvivalInv'
<1>. SUFFICES ASSUME TypeOK, TypeOK', SurvivalInv, LoseVariables PROVE SurvivalInv'
  OBVIOUS
<1>1. /\ UNCHANGED <<pending, main, bak, settled, kept, paused, expired, faults, pc>>
      /\ gv' = NoStore /\ disk' = NoStore /\ pc = "down"
  BY DEF LoseVariables, files, marks
<1>2. /\ Promised' = Promised
      /\ \A s \in Symbols : (kept'[s] > expired'[s]) = (kept[s] > expired[s])
  BY <1>1, SameMarks
<1>3. WrittenInv'
  BY <1>1 DEF SurvivalInv, WrittenInv, Nobody
<1>4. MemoryInv'
  BY <1>1, <1>2 DEF SurvivalInv, MemoryInv, Agrees, Recovering, NoStore, Nobody
<1>5. FilesInv'
  BY <1>1, <1>2 DEF SurvivalInv, FilesInv, Holds, Valid
<1>. QED
  BY <1>3, <1>4, <1>5 DEF SurvivalInv

(* However one fault falls, in the truncating rewrite, the copy, OnInit or
   between two events, and even if the variables are deleted on top of it: a
   stopped program leaves a sealed snapshot, and one that serves events again
   has the pause in force and the undecided prompts pending.                  *)
THEOREM SnapshotIsEnough == Spec => []SnapshotSurvivesFault
<1>1. Init => SurvivalInv
  BY SurvivalInit
<1>2. TypeOK /\ TypeOK' /\ SurvivalInv /\ [Next]_vars => SurvivalInv'
  <2>. SUFFICES ASSUME TypeOK, TypeOK', SurvivalInv, [Next]_vars PROVE SurvivalInv'
    OBVIOUS
  <2>1. CASE \/ \E s \in Symbols : Prompt(s) \/ Refuse(s) \/ Consume(s)
             \/ TogglePause \/ Stop \/ \E due \in BOOLEAN : Timer(due)
    BY <2>1, HandlersSurvive
  <2>2. ASSUME NEW s \in Symbols, Expire(s) PROVE SurvivalInv'
    <3>1. \A r \in Symbols : expired[r] <= expired'[r]
      <4>. SUFFICES ASSUME NEW r \in Symbols PROVE expired[r] <= expired'[r]
        OBVIOUS
      <4>1. expired[r] \in Nat /\ expired[s] \in Nat
        BY BookType DEF TypeOK
      <4>2. expired'[r] = IF r = s THEN expired[s] + 1 ELSE expired[r]
        BY <2>2 DEF Expire, TypeOK, Book
      <4>. QED
        BY <4>1, <4>2
    <3>. QED
      BY <2>2, <3>1, QuietSurvives DEF Expire, store, files, marks
  <2>3. ASSUME NEW s \in Symbols, CooldownEnds(s) PROVE SurvivalInv'
    <3>1. /\ gv'.p = gv.p /\ gv'.paused = gv.paused /\ gv'.base = gv.base
          /\ disk'.p = disk.p /\ disk'.paused = disk.paused
      BY <2>3 DEF CooldownEnds, TypeOK, Store
    <3>2. \A r \in Symbols : expired[r] <= expired'[r]
      BY <2>3, SameClock DEF CooldownEnds, world
    <3>. QED
      BY <2>3, <3>1, <3>2, QuietSurvives DEF CooldownEnds, files, marks, world
  <2>4. CASE Save
    BY <2>4, FlushSurvives, OpenMainSurvives, WriteRowSurvives, CloseMainSurvives,
       SealSurvives, BeginCopySurvives, FinishCopySurvives, CopyFailsSurvives DEF Save
  <2>5. CASE OnInit
    BY <2>5, ChooseSurvives, RecoverSurvives, RestoreSurvives DEF OnInit
  <2>6. CASE Crash \/ LoseVariables
    BY <2>6, CrashSurvives, LoseVariablesSurvives
  <2>7. CASE UNCHANGED vars
    <3>1. \A r \in Symbols : expired[r] <= expired'[r]
      BY <2>7, SameClock DEF vars, world
    <3>. QED
      BY <2>7, <3>1, QuietSurvives DEF vars, store, files, marks, world
  <2>. QED
    BY <2>1, <2>2, <2>3, <2>4, <2>5, <2>6, <2>7 DEF Next
<1>3. SurvivalInv => SnapshotSurvivesFault
  <2>. SUFFICES ASSUME SurvivalInv PROVE SnapshotSurvivesFault
    OBVIOUS
  <2>1. RecoverableSnapshot
    BY DEF SurvivalInv, FilesInv, Holds, Promised, RecoverableSnapshot
  <2>2. PauseSurvives /\ PromptSurvives
    BY DEF SurvivalInv, MemoryInv, Recovering, PauseSurvives, PromptSurvives
  <2>. QED
    BY <2>1, <2>2 DEF SnapshotSurvivesFault
<1>. QED
  BY <1>1, <1>2, <1>3, TypeCorrect, PTL DEF Spec

=============================================================================
