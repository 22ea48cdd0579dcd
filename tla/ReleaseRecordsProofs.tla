------------------------- MODULE ReleaseRecordsProofs -------------------------
(***************************************************************************)
(* Proofs about ReleaseRecords, for any commits, desks and generic symbols *)
(* and any number of changes and jumps.  A record that carries its own     *)
(* digest is one that --finalize accepted, or a catalogue that no check    *)
(* accepts; what it says of a binary is what was run, or a binary that     *)
(* never comes back.                                                       *)
(***************************************************************************)
EXTENDS ReleaseRecords, TLAPS

Contents == [of : Commits \cup { Nothing }, n : Nat, ok : BOOLEAN]

TypeInv ==
    /\ head \in Commits
    /\ att \in [Attachments -> Contents]
    /\ DOMAIN rec = Records
    /\ cand = [sha |-> cand.sha, ex5 |-> cand.ex5, set |-> cand.set, desk |-> cand.desk]
    /\ cand.sha \in Commits
    /\ DOMAIN ran = { "mt5", "bc", "soak" }
    /\ changes \in Nat

(* The fields of a record that the argument looks at.                       *)
Sessions == { "mt5", "bc", "soak" }
Needed(kind) ==
    { "sha", "accept", "digest" }
    \cup (IF kind \in Sessions THEN { "ex5" } ELSE {})
    \cup (IF kind \in { "ra", "mt5", "rh" } THEN { "hashes" } ELSE {})
Shaped(kind, r) == r = [x \in DOMAIN r |-> r[x]] /\ Needed(kind) \subseteq DOMAIN r

(* A digest is that of an accepted record, or of a catalogue (its tool      *)
(* writes the digest before the verdict) that is not valid.                 *)
Signature(kind, b, S) ==
    /\ Shaped(kind, b) /\ b.digest = Digest(b)
    /\ \/ \E s \in S : s.kind = kind /\ s.record = b
       \/ kind = "bc" /\ ~ValidBroker(b, {}, {})
Accounted(kind, r, S) ==
    r.digest = Unsigned \/ \E b : Signature(kind, b, S) /\ r.digest = Digest(b)

(* The EX5 a record names is the one that was run, or a compiled one that   *)
(* was replaced before: the number of a content only grows.                 *)
Gone(w, ex5, n) == w.ok /\ w.n \in Nat /\ w.n < 2 * n /\ w # ex5
Tested(r, ex5, now, n) ==
    r.ex5 \in { ex5, Unsigned } \/ \E w : r.ex5 = Sha(w) /\ Gone(w, now, n)

RecordOf(kind, r, S, x, now, n) ==
    r # NoFile => /\ Shaped(kind, r) /\ Accounted(kind, r, S)
                  /\ kind \in Sessions => Tested(r, x[kind], now, n)

RecordInv ==
    \A kind \in Sealed : RecordOf(kind, rec[kind], sealed, ran, att["ex5"], changes)
Compiled(w, n) == w.ok /\ w.n \in Nat /\ w.n <= 2 * n
CandidateInv ==
    \/ cand.ex5 = Unsigned
    \/ \E w : /\ cand.ex5 = Sha(w) /\ Compiled(w, changes)
             /\ (w = att["ex5"] \/ Gone(w, att["ex5"], changes))

(* What was accepted carries the hashes of the files of the acceptance.     *)
SealedInv ==
    \A s \in sealed : \A f \in Bound(s.kind) : s.record.hashes[f] = Sha(s.files[f])

IInv == TypeInv /\ RecordInv /\ CandidateInv /\ SealedInv

-----------------------------------------------------------------------------
(* Records and digests. *)

LEMMA ShaIsInjective ==
    ASSUME NEW a, NEW b
    PROVE  (Sha(a) = Sha(b) => a = b) /\ Sha(a) # Unsigned
  BY DEF Sha, Unsigned

LEMMA SignedIs ==
    ASSUME NEW kind, NEW r, Shaped(kind, r)
    PROVE  /\ Shaped(kind, Signed(r)) /\ Signed(r).digest = Digest(r)
           /\ Digest(Signed(r)) = Digest(r)
           /\ "hashes" \in DOMAIN r => Signed(r).hashes = r.hashes
           /\ "ex5" \in DOMAIN r => Signed(r).ex5 = r.ex5
  BY DEF Shaped, Needed, Signed, Digest, Basis, Sha

LEMMA DigestIdentifies ==
    ASSUME NEW kind, NEW r, Shaped(kind, r), NEW b, Shaped(kind, b),
           Digest(r) = Digest(b), r.digest = b.digest
    PROVE  r = b
  <1>1. Basis(r) = Basis(b)
    BY ShaIsInjective DEF Digest
  <1>2. "digest" \in DOMAIN r /\ "digest" \in DOMAIN b
    BY DEF Shaped, Needed
  <1>3. DOMAIN r = DOMAIN b /\ \A x \in DOMAIN r : r[x] = b[x]
    BY <1>1, <1>2 DEF Basis, Shaped
  <1> QED
    BY <1>3 DEF Shaped

(* A record that carries its own digest.                                    *)
LEMMA SignedIsAccepted ==
    ASSUME NEW kind, NEW r, NEW S, Shaped(kind, r), Accounted(kind, r, S),
           r.digest = Digest(r)
    PROVE  \/ \E s \in S : s.kind = kind /\ s.record = r
           \/ kind = "bc" /\ ~ValidBroker(r, {}, {})
  <1>1. PICK b : Signature(kind, b, S) /\ r.digest = Digest(b)
    BY ShaIsInjective DEF Accounted, Digest
  <1>2. r = b
    BY <1>1, DigestIdentifies DEF Signature
  <1> QED
    BY <1>1, <1>2 DEF Signature

LEMMA MoreSealed ==
    ASSUME NEW kind, NEW r, NEW S, NEW T, S \subseteq T, Accounted(kind, r, S)
    PROVE  Accounted(kind, r, T)
  BY DEF Accounted, Signature

LEMMA EditedRecord ==
    ASSUME NEW kind \in Sealed, NEW r, NEW S, NEW x, NEW now, NEW n, r # NoFile,
           RecordOf(kind, r, S, x, now, n), NEW new, Shaped(kind, new),
           new.digest = r.digest, kind \in Sessions => new.ex5 = r.ex5
    PROVE  RecordOf(kind, new, S, x, now, n)
  BY DEF RecordOf, Accounted, Tested

-----------------------------------------------------------------------------
(* Steps. *)

LEMMA SaveIs ==
    ASSUME TypeInv, NEW kind \in Records, NEW r, Save(kind, r)
    PROVE  /\ DOMAIN rec' = Records /\ rec'[kind] = r
           /\ \A k \in Records \ {kind} : rec'[k] = rec[k]
  BY DEF TypeInv, Save

LEMMA WriteIs ==
    ASSUME TypeInv, NEW files, NEW commit \in Commits, Write(files, commit)
    PROVE  /\ att' \in [Attachments -> Contents]
           /\ \A f \in Attachments :
                  att'[f] = IF f \in files THEN Written(commit) ELSE att[f]
           /\ Written(commit).n = 2 * changes /\ Written(commit).ok
  <1>1. Written(commit) \in Contents
    BY DEF TypeInv, Written, Contents
  <1>2. Written(commit).n = 2 * changes /\ Written(commit).ok
    BY DEF Written
  <1> HIDE DEF Written
  <1> QED
    BY <1>1, <1>2 DEF TypeInv, Write

LEMMA RanIs ==
    ASSUME TypeInv, NEW session \in Sessions, Ran(session)
    PROVE  /\ DOMAIN ran' = Sessions /\ ran'[session] = Sha(att["ex5"])
           /\ \A k \in Sessions \ {session} : ran'[k] = ran[k]
  BY DEF TypeInv, Ran, Sessions

LEMMA RecordKept ==
    ASSUME NEW kind \in Sealed, NEW r, NEW S, NEW x, NEW now, NEW n,
           RecordOf(kind, r, S, x, now, n), NEW T, S \subseteq T,
           NEW y, kind \in Sessions => y[kind] = x[kind],
           NEW later, NEW m, \A w : Gone(w, now, n) => Gone(w, later, m)
    PROVE  RecordOf(kind, r, T, y, later, m)
  BY MoreSealed DEF RecordOf, Tested

LEMMA RecordsStep ==
    ASSUME RecordInv, NEW kind \in Records,
           \A k \in Records \ {kind} : rec'[k] = rec[k],
           \/ rec'[kind] = rec[kind] /\ (kind \in Sessions => ran'[kind] = ran[kind])
           \/ kind \in Sealed =>
                  RecordOf(kind, rec'[kind], sealed', ran', att'["ex5"], changes'),
           \A k \in Sessions \ {kind} : ran'[k] = ran[k], sealed \subseteq sealed',
           \A w : Gone(w, att["ex5"], changes) => Gone(w, att'["ex5"], changes')
    PROVE  RecordInv'
  <1> SUFFICES ASSUME NEW k \in Sealed
               PROVE  RecordOf(k, rec'[k], sealed', ran', att'["ex5"], changes')
    BY DEF RecordInv
  <1>1. k \in Records /\ RecordOf(k, rec[k], sealed, ran, att["ex5"], changes)
    BY DEF Sealed, Records, RecordInv
  <1>2. CASE rec'[k] = rec[k] /\ (k \in Sessions => ran'[k] = ran[k])
    BY <1>1, <1>2, RecordKept
  <1> QED
    BY <1>1, <1>2

LEMMA GoneStays ==
    ASSUME NEW w, NEW now, NEW n \in Nat, Gone(w, now, n), NEW m \in Nat, n <= m
    PROVE  Gone(w, now, m)
  BY DEF Gone

(* A step that leaves the EX5 and the notes alone, and saves one record.    *)
LEMMA StillStep ==
    ASSUME IInv, head' \in Commits, att' \in [Attachments -> Contents],
           att'["ex5"] = att["ex5"], cand' = cand, DOMAIN rec' = Records,
           DOMAIN ran' = Sessions, changes' \in { changes, changes + 1 },
           NEW kind \in Records, \A k \in Records \ {kind} : rec'[k] = rec[k],
           \/ rec'[kind] = rec[kind] /\ (kind \in Sessions => ran'[kind] = ran[kind])
           \/ kind \in Sealed =>
                  RecordOf(kind, rec'[kind], sealed', ran', att["ex5"], changes),
           \A k \in Sessions \ {kind} : ran'[k] = ran[k], sealed \subseteq sealed',
           SealedInv'
    PROVE  IInv'
  <1>1. TypeInv'
    BY DEF IInv, TypeInv, Sessions
  <1>2. changes \in Nat /\ changes' \in Nat /\ changes <= changes'
    BY DEF IInv, TypeInv
  <1>3. \A w : Gone(w, att["ex5"], changes) => Gone(w, att'["ex5"], changes')
    BY <1>2, GoneStays
  <1>4. kind \in Sealed /\ RecordOf(kind, rec'[kind], sealed', ran', att["ex5"], changes)
            => RecordOf(kind, rec'[kind], sealed', ran', att'["ex5"], changes')
    BY <1>3, RecordKept
  <1>5. RecordInv'
    BY <1>3, <1>4, RecordsStep DEF IInv
  <1>4a. \A w : Compiled(w, changes) => Compiled(w, changes')
    BY <1>2 DEF Compiled
  <1>6. CandidateInv'
    BY <1>3, <1>4a DEF IInv, CandidateInv
  <1> QED
    BY <1>1, <1>5, <1>6 DEF IInv

(* A new record carries no digest; a session is run on the EX5 that is      *)
(* there, and names that of the notes.                                      *)
LEMMA NewRecord ==
    ASSUME NEW kind \in Sealed, NEW r, Shaped(kind, r), r.digest = Unsigned, NEW S, NEW x,
           CandidateInv, kind \in Sessions => r.ex5 = cand.ex5 /\ x[kind] = Sha(att["ex5"])
    PROVE  RecordOf(kind, r, S, x, att["ex5"], changes)
  <1>1. CASE kind \in Sessions
    <2>1. r.ex5 = cand.ex5 /\ x[kind] = Sha(att["ex5"])
      BY <1>1
    <2>2. \/ cand.ex5 \in { Unsigned, Sha(att["ex5"]) }
          \/ \E w : cand.ex5 = Sha(w) /\ Gone(w, att["ex5"], changes)
      BY DEF CandidateInv
    <2>3. Tested(r, x[kind], att["ex5"], changes)
      BY <2>1, <2>2 DEF Tested
    <2> QED
      BY <2>3 DEF RecordOf, Accounted
  <1>2. CASE kind \notin Sessions
    BY <1>2 DEF RecordOf, Accounted
  <1> QED
    BY <1>1, <1>2

LEMMA SameSealed ==
    ASSUME IInv, sealed' = sealed
    PROVE  SealedInv' /\ sealed \subseteq sealed'
  BY DEF IInv, SealedInv

LEMMA Start ==
    ASSUME Init
    PROVE  IInv
  <1>1. head \in Commits
    BY CommitsAssumption DEF Init
  <1>2. TypeInv
    BY <1>1 DEF Init, TypeInv, Contents, Absent, Nothing
  <1>3. RecordInv
    BY DEF Init, RecordInv, RecordOf, Sealed, Records
  <1>4. CandidateInv
    BY DEF Init, CandidateInv
  <1>5. SealedInv
    BY DEF Init, SealedInv
  <1> QED
    BY <1>2, <1>3, <1>4, <1>5 DEF IInv

(* A step that saves no record.                                             *)
LEMMA NoRecordStep ==
    ASSUME IInv, head' \in Commits, att' \in [Attachments -> Contents],
           att'["ex5"] = att["ex5"], UNCHANGED << cand, rec, ran, sealed >>,
           changes' \in { changes, changes + 1 }
    PROVE  IInv'
  <1>1. DOMAIN rec' = Records /\ DOMAIN ran' = Sessions /\ "rr" \in Records
    BY DEF IInv, TypeInv, Sessions, Records
  <1> QED
    BY <1>1, SameSealed, StillStep

(* A step that saves one record and leaves the rest of the world alone.     *)
LEMMA OneRecordStep ==
    ASSUME IInv, att' \in [Attachments -> Contents], att'["ex5"] = att["ex5"],
           UNCHANGED << head, cand, ran, sealed >>,
           changes' \in { changes, changes + 1 }, NEW kind \in Records, NEW r,
           Save(kind, r),
           kind \in Sealed => RecordOf(kind, r, sealed, ran, att["ex5"], changes)
    PROVE  IInv'
  <1>1. head' \in Commits /\ DOMAIN ran' = Sessions
    BY DEF IInv, TypeInv, Sessions
  <1>2. /\ DOMAIN rec' = Records /\ rec'[kind] = r
        /\ \A k \in Records \ {kind} : rec'[k] = rec[k]
    BY SaveIs DEF IInv
  <1> QED
    BY <1>1, <1>2, SameSealed, StillStep

LEMMA OtherFiles ==
    ASSUME IInv, NEW files, "ex5" \notin files, NEW commit \in Commits,
           Write(files, commit)
    PROVE  att' \in [Attachments -> Contents] /\ att'["ex5"] = att["ex5"]
  <1>1. "ex5" \in Attachments
    BY DEF Attachments
  <1> QED
    BY <1>1, WriteIs DEF IInv

LEMMA SameFiles ==
    ASSUME IInv, UNCHANGED att
    PROVE  att' \in [Attachments -> Contents] /\ att'["ex5"] = att["ex5"]
  BY DEF IInv, TypeInv

LEMMA SameCommits ==
    ASSUME IInv
    PROVE  head \in Commits /\ cand.sha \in Commits /\ changes \in Nat
  BY DEF IInv, TypeInv

LEMMA CompileStep ==
    ASSUME IInv, Compile
    PROVE  IInv'
  <1> DEFINE new == Written(head)
  <1>1. /\ att' \in [Attachments -> Contents] /\ att'["ex5"] = new
        /\ new.n = 2 * changes /\ new.ok
    BY WriteIs, "ex5" \in Attachments DEF IInv, Compile, TypeInv, Attachments
  <1>2. /\ UNCHANGED << head, rec, ran, sealed, changes >>
        /\ cand'.sha = head /\ cand'.ex5 = Sha(new)
        /\ cand' = [sha |-> cand'.sha, ex5 |-> cand'.ex5, set |-> cand'.set,
                    desk |-> cand'.desk]
    BY DEF IInv, TypeInv, Compile
  <1>3. changes \in Nat
    BY SameCommits
  <1> HIDE DEF new
  <1>4. TypeInv'
    BY <1>1, <1>2 DEF IInv, TypeInv
  <1>5. \A w : Gone(w, att["ex5"], changes) => Gone(w, att'["ex5"], changes')
    BY <1>1, <1>2, <1>3 DEF Gone
  <1>6. RecordInv'
    BY <1>2, <1>5, RecordsStep, "rr" \in Records DEF IInv, Records
  <1>7. CandidateInv'
    BY <1>1, <1>2, <1>3 DEF CandidateInv, Compiled
  <1>8. SealedInv'
    BY <1>2, SameSealed
  <1> QED
    BY <1>4, <1>6, <1>7, <1>8 DEF IInv

LEMMA DownloadStep ==
    ASSUME IInv, Download
    PROVE  IInv'
  <1>1. att' \in [Attachments -> Contents] /\ att'["ex5"] = att["ex5"]
    BY OtherFiles, SameCommits DEF Download
  <1> QED
    BY <1>1, NoRecordStep, SameCommits DEF Download

LEMMA FillMatrixStep ==
    ASSUME IInv, FillMatrix
    PROVE  IInv'
  <1>1. att' \in [Attachments -> Contents] /\ att'["ex5"] = att["ex5"]
    BY OtherFiles, SameCommits DEF FillMatrix
  <1> QED
    BY <1>1, NoRecordStep, SameCommits DEF FillMatrix, world, bounds

LEMMA PrepareSectionsStep ==
    ASSUME IInv, PrepareSections
    PROVE  IInv'
  <1>1. att' \in [Attachments -> Contents] /\ att'["ex5"] = att["ex5"]
    BY OtherFiles, SameCommits DEF PrepareSections
  <1> QED
    BY <1>1, NoRecordStep, SameCommits DEF PrepareSections, world, bounds

LEMMA BuildRecoveryStep ==
    ASSUME IInv, NEW run, BuildRecovery(run)
    PROVE  IInv'
  <1> DEFINE r == RecoveryDraft(run)
  <1>1. /\ UNCHANGED << head, att, cand, ran, sealed >>
        /\ changes' \in { changes, changes + 1 }
        /\ Save("rr", r) \/ UNCHANGED rec
    BY DEF BuildRecovery, world
  <1>2. Shaped("rr", r) /\ r.digest = Unsigned
    BY DEF Shaped, Needed, Sessions, RecoveryDraft
  <1>3. "rr" \in Sealed /\ "rr" \in Records /\ "rr" \notin Sessions
    BY DEF Sealed, Records, Sessions
  <1> HIDE DEF r
  <1>4. RecordOf("rr", r, sealed, ran, att["ex5"], changes)
    BY <1>2, <1>3, NewRecord DEF IInv
  <1> QED
    BY <1>1, <1>3, <1>4, SameFiles, SameCommits, OneRecordStep, NoRecordStep

LEMMA BuildAcceptanceStep ==
    ASSUME IInv, BuildAcceptance
    PROVE  IInv'
  <1> DEFINE r == AcceptanceDraft
  <1>1. /\ UNCHANGED << head, att, cand, ran, sealed, changes >>
        /\ Save("ra", r) \/ UNCHANGED rec
    BY DEF BuildAcceptance, world, bounds
  <1>2. Shaped("ra", r) /\ r.digest = Unsigned
    BY DEF Shaped, Needed, Sessions, AcceptanceDraft
  <1>3. "ra" \in Sealed /\ "ra" \in Records /\ "ra" \notin Sessions
    BY DEF Sealed, Records, Sessions
  <1> HIDE DEF r
  <1>4. RecordOf("ra", r, sealed, ran, att["ex5"], changes)
    BY <1>2, <1>3, NewRecord DEF IInv
  <1> QED
    BY <1>1, <1>3, <1>4, SameFiles, SameCommits, OneRecordStep, NoRecordStep

LEMMA DraftResilienceStep ==
    ASSUME IInv, DraftResilience
    PROVE  IInv'
  <1>1. PICK r : /\ Shaped("rh", r) /\ r.digest = Unsigned
                 /\ Save("rh", r)
    BY DEF DraftResilience, Shaped, Needed, Sessions
  <1>2. /\ att' \in [Attachments -> Contents] /\ att'["ex5"] = att["ex5"]
        /\ UNCHANGED << head, cand, ran, sealed, changes >>
    BY OtherFiles, SameCommits DEF DraftResilience, world, bounds
  <1>3. "rh" \in Sealed /\ "rh" \in Records /\ "rh" \notin Sessions
    BY DEF Sealed, Records, Sessions
  <1>4. RecordOf("rh", r, sealed, ran, att["ex5"], changes)
    BY <1>1, <1>3, NewRecord DEF IInv
  <1> QED
    BY <1>1, <1>2, <1>3, <1>4, OneRecordStep

(* A session is run on the EX5 that is there, and its record is saved; or   *)
(* nothing is done but to start over.                                       *)
LEMMA SessionStep ==
    ASSUME IInv, NEW kind \in Sessions, UNCHANGED << head, cand, sealed >>,
           changes' \in { changes, changes + 1 },
           att' \in [Attachments -> Contents], att'["ex5"] = att["ex5"],
           NEW r, Shaped(kind, r), r.digest = Unsigned, r.ex5 = cand.ex5,
           Ran(kind), Save(kind, r)
    PROVE  IInv'
  <1>1. kind \in Records /\ kind \in Sealed
    BY DEF Sessions, Records, Sealed
  <1>2. /\ DOMAIN rec' = Records /\ rec'[kind] = r
        /\ \A k \in Records \ {kind} : rec'[k] = rec[k]
    BY <1>1, SaveIs DEF IInv
  <1>3. /\ DOMAIN ran' = Sessions /\ ran'[kind] = Sha(att["ex5"])
        /\ \A k \in Sessions \ {kind} : ran'[k] = ran[k]
    BY RanIs DEF IInv
  <1>4. RecordOf(kind, r, sealed', ran', att["ex5"], changes)
    BY <1>1, <1>3, NewRecord DEF IInv
  <1> QED
    BY <1>1, <1>2, <1>3, <1>4, SameSealed, SameCommits, StillStep

LEMMA BuildMt5Step ==
    ASSUME IInv, BuildMt5
    PROVE  IInv'
  <1> DEFINE r == Mt5Draft
  <1>1. /\ UNCHANGED << head, cand, sealed, changes >>
        /\ \/ /\ Ran("mt5") /\ Write(Mt5Files \ {"compile-log"}, cand.sha)
              /\ Save("mt5", r)
           \/ UNCHANGED << ran, att, rec >>
    BY DEF BuildMt5, bounds
  <1>2. Shaped("mt5", r) /\ r.digest = Unsigned /\ r.ex5 = cand.ex5
    BY DEF Shaped, Needed, Sessions, Mt5Draft
  <1>3. "mt5" \in Sessions /\ "ex5" \notin Mt5Files
    BY DEF Sessions, Mt5Files
  <1> HIDE DEF r
  <1>4. CASE Ran("mt5") /\ Write(Mt5Files \ {"compile-log"}, cand.sha) /\ Save("mt5", r)
    <2>1. att' \in [Attachments -> Contents] /\ att'["ex5"] = att["ex5"]
      BY <1>3, <1>4, OtherFiles, SameCommits
    <2> QED
      BY <1>1, <1>2, <1>3, <1>4, <2>1, SessionStep
  <1>5. CASE UNCHANGED << ran, att, rec >>
    BY <1>1, <1>5, SameFiles, SameCommits, NoRecordStep
  <1> QED
    BY <1>1, <1>4, <1>5

LEMMA DraftBrokerStep ==
    ASSUME IInv, NEW desk, DraftBroker(desk)
    PROVE  IInv'
  <1>1. /\ UNCHANGED << head, att, cand, sealed >>
        /\ changes' \in { changes, changes + 1 }
        /\ \/ /\ Ran("bc")
              /\ \E listed \in 0 .. Generics, live \in BOOLEAN :
                     Save("bc", BrokerDraft(desk, listed, live))
           \/ UNCHANGED << ran, rec >>
    BY DEF DraftBroker
  <1>2. "bc" \in Sessions
    BY DEF Sessions
  <1>3. ASSUME NEW listed, NEW live, Ran("bc"), Save("bc", BrokerDraft(desk, listed, live))
        PROVE  IInv'
    <2> DEFINE r == BrokerDraft(desk, listed, live)
    <2>1. Shaped("bc", r) /\ r.digest = Unsigned /\ r.ex5 = cand.ex5
      BY DEF Shaped, Needed, Sessions, BrokerDraft
    <2>2. Ran("bc") /\ Save("bc", r)
      BY <1>3
    <2> HIDE DEF r
    <2> QED
      BY <1>1, <1>2, <2>1, <2>2, SameFiles, SessionStep
  <1>4. CASE UNCHANGED << ran, rec >>
    BY <1>1, <1>4, SameFiles, SameCommits, NoRecordStep
  <1> QED
    BY <1>1, <1>3, <1>4

LEMMA DraftSoakStep ==
    ASSUME IInv, DraftSoak
    PROVE  IInv'
  <1> DEFINE files == {"checklists", "operator-record", "soak-report", "snapshot"}
  <1>1. /\ UNCHANGED << head, cand, sealed >>
        /\ changes' \in { changes, changes + 1 }
        /\ \/ /\ Ran("soak") /\ Write(files, cand.sha)
              /\ \E days, justified : Save("soak", SoakDraft(days, justified))
           \/ UNCHANGED << ran, att, rec >>
    BY DEF DraftSoak
  <1>2. "soak" \in Sessions /\ "ex5" \notin files
    BY DEF Sessions
  <1>3. ASSUME NEW days, NEW justified, Ran("soak"), Write(files, cand.sha),
               Save("soak", SoakDraft(days, justified))
        PROVE  IInv'
    <2> DEFINE r == SoakDraft(days, justified)
    <2>1. Shaped("soak", r) /\ r.digest = Unsigned /\ r.ex5 = cand.ex5
      BY DEF Shaped, Needed, Sessions, SoakDraft
    <2>2. Ran("soak") /\ Save("soak", r)
      BY <1>3
    <2>3. att' \in [Attachments -> Contents] /\ att'["ex5"] = att["ex5"]
      BY <1>2, <1>3, OtherFiles, SameCommits
    <2> HIDE DEF r
    <2> QED
      BY <1>1, <1>2, <2>1, <2>2, <2>3, SessionStep
  <1>4. CASE UNCHANGED << ran, att, rec >>
    BY <1>1, <1>4, SameFiles, SameCommits, NoRecordStep
  <1> QED
    BY <1>1, <1>3, <1>4

(* A record is edited, its digest and its EX5 left as they are.             *)
LEMMA EditStep ==
    ASSUME IInv, UNCHANGED << head, att, cand, ran, sealed >>,
           changes' \in { changes, changes + 1 }, NEW kind \in Sealed, Exists(kind),
           NEW new, Save(kind, new), Shaped(kind, rec[kind]) => Shaped(kind, new),
           new.digest = rec[kind].digest,
           kind \in Sessions => new.ex5 = rec[kind].ex5
    PROVE  IInv'
  <1>1. kind \in Records /\ RecordOf(kind, rec[kind], sealed, ran, att["ex5"], changes)
    BY DEF IInv, RecordInv, Sealed, Records
  <1>2. rec[kind] # NoFile /\ Shaped(kind, rec[kind])
    BY <1>1 DEF Exists, RecordOf
  <1>3. RecordOf(kind, new, sealed, ran, att["ex5"], changes)
    BY <1>1, <1>2, EditedRecord
  <1> QED
    BY <1>1, <1>3, SameFiles, OneRecordStep

LEMMA CompletedIs ==
    ASSUME NEW kind \in {"rr", "ra", "mt5"}, Shaped(kind, rec[kind])
    PROVE  /\ Shaped(kind, Completed(kind))
           /\ Completed(kind).digest = rec[kind].digest
           /\ kind \in Sessions => Completed(kind).ex5 = rec[kind].ex5
  <1>1. CASE kind = "rr"
    BY <1>1 DEF Completed, Shaped, Needed, Sessions
  <1>2. CASE kind = "ra"
    BY <1>2 DEF Completed, Shaped, Needed, Sessions
  <1>3. CASE kind = "mt5"
    BY <1>3 DEF Completed, Shaped, Needed, Sessions
  <1> QED
    BY <1>1, <1>2, <1>3

LEMMA CompleteStep ==
    ASSUME IInv, NEW kind \in {"rr", "ra", "mt5"}, Complete(kind)
    PROVE  IInv'
  <1>1. /\ UNCHANGED << head, att, cand, ran, sealed, changes >>
        /\ \/ Exists(kind) /\ Save(kind, Completed(kind))
           \/ UNCHANGED rec
    BY DEF Complete, world, bounds
  <1>2. CASE Exists(kind) /\ Save(kind, Completed(kind))
    <2>1. kind \in Sealed
      BY DEF Sealed
    <2>2. Shaped(kind, rec[kind])
      BY <1>2, <2>1 DEF IInv, RecordInv, RecordOf, Exists
    <2> QED
      BY <1>1, <1>2, <2>1, <2>2, CompletedIs, EditStep
  <1>3. CASE UNCHANGED rec
    BY <1>1, <1>3, SameFiles, SameCommits, NoRecordStep
  <1> QED
    BY <1>1, <1>2, <1>3

(* What a validator accepts carries the hashes of the files that are there. *)
LEMMA HashesOfAccepted ==
    ASSUME NEW kind \in Sealed, NEW required, Valid(kind, rec[kind], required),
           NEW f \in Bound(kind)
    PROVE  kind \in { "ra", "mt5", "rh" } /\ rec[kind].hashes[f] = Sha(att[f])
  <1>1. CASE kind = "ra"
    <2>1. f = "ra-matrix" /\ ValidAcceptance(rec[kind], required, {}, {})
      BY <1>1 DEF Bound, Valid
    <2> QED
      BY <1>1, <2>1 DEF ValidAcceptance
  <1>2. CASE kind = "mt5"
    <2>1. f \in Mt5Files /\ ValidMt5(rec[kind], required, {}, {}, {})
      BY <1>2 DEF Bound, Valid
    <2> QED
      BY <1>2, <2>1 DEF ValidMt5, HashedFile
  <1>3. CASE kind = "rh"
    <2>1. f = "rh-matrix" /\ ValidResilience(rec[kind], required, {}, {})
      BY <1>3 DEF Bound, Valid
    <2> QED
      BY <1>3, <2>1 DEF ValidResilience, HashedFile
  <1>4. CASE kind \notin { "ra", "mt5", "rh" }
    BY <1>4 DEF Bound
  <1> QED
    BY <1>1, <1>2, <1>3, <1>4

LEMMA FinalizeStep ==
    ASSUME IInv, NEW kind \in Sealed, Finalize(kind)
    PROVE  IInv'
  <1> DEFINE r == rec[kind]
             new == [kind |-> kind, record |-> Signed(r),
                     files |-> [f \in Bound(kind) |-> att[f]]]
  <1>1. /\ UNCHANGED << head, att, cand, ran, changes >>
        /\ \/ UNCHANGED << rec, sealed >>
           \/ Exists(kind) /\ Save(kind, Signed(r))
              /\ \/ Accepts(kind) /\ sealed' = sealed \cup { new }
                 \/ kind = "bc" /\ ~Accepts(kind) /\ UNCHANGED sealed
    BY DEF Finalize, bounds
  <1>2. CASE UNCHANGED << rec, sealed >>
    BY <1>1, <1>2, SameFiles, SameCommits, NoRecordStep
  <1>3. CASE /\ Exists(kind) /\ Save(kind, Signed(r))
             /\ \/ Accepts(kind) /\ sealed' = sealed \cup { new }
                \/ kind = "bc" /\ ~Accepts(kind) /\ UNCHANGED sealed
    <2>1. kind \in Records /\ RecordOf(kind, r, sealed, ran, att["ex5"], changes)
      BY DEF IInv, RecordInv, Sealed, Records
    <2>2. Shaped(kind, r) /\ kind \in Sessions => Tested(r, ran[kind], att["ex5"], changes)
      BY <1>3, <2>1 DEF RecordOf, Exists
    <2>3. Shaped(kind, r)
      BY <1>3, <2>1 DEF RecordOf, Exists
    <2>4. /\ DOMAIN rec' = Records /\ rec'[kind] = Signed(r)
          /\ \A k \in Records \ {kind} : rec'[k] = rec[k]
      BY <1>3, <2>1, SaveIs DEF IInv
    <2>5. /\ Shaped(kind, Signed(r)) /\ Signed(r).digest = Digest(Signed(r))
          /\ "hashes" \in DOMAIN r => Signed(r).hashes = r.hashes
          /\ "ex5" \in DOMAIN r => Signed(r).ex5 = r.ex5
      BY <2>3, SignedIs
    <2>6. Signature(kind, Signed(r), sealed')
      <3>1. CASE Accepts(kind) /\ sealed' = sealed \cup { new }
        <4>1. new \in sealed' /\ new.kind = kind /\ new.record = Signed(r)
          BY <3>1
        <4> QED
          BY <2>5, <4>1 DEF Signature
      <3>2. CASE kind = "bc" /\ ~Accepts(kind)
        <4>1. ~ValidBroker(Signed(r), {}, {})
          BY <3>2 DEF Accepts, Valid
        <4> QED
          BY <2>5, <3>2, <4>1 DEF Signature
      <3> QED
        BY <1>3, <3>1, <3>2
    <2>7. kind \in Sessions => Tested(Signed(r), ran'[kind], att["ex5"], changes)
      <3> SUFFICES ASSUME kind \in Sessions
                   PROVE  Tested(Signed(r), ran'[kind], att["ex5"], changes)
        OBVIOUS
      <3>1. "ex5" \in DOMAIN r
        BY <2>3 DEF Shaped, Needed
      <3>2. Signed(r).ex5 = r.ex5 /\ ran' = ran
        BY <1>1, <2>5, <3>1
      <3> QED
        BY <2>2, <2>3, <3>2 DEF Tested
    <2>8. RecordOf(kind, rec'[kind], sealed', ran', att["ex5"], changes)
      BY <2>4, <2>5, <2>6, <2>7 DEF RecordOf, Accounted
    <2>9. SealedInv' /\ sealed \subseteq sealed'
      <3>1. CASE Accepts(kind) /\ sealed' = sealed \cup { new }
        <4>1. SUFFICES ASSUME NEW f \in Bound(kind)
                       PROVE  Signed(r).hashes[f] = Sha(att[f])
          <5>1. \A s \in sealed : \A f \in Bound(s.kind) : s.record.hashes[f] = Sha(s.files[f])
            BY DEF IInv, SealedInv
          <5>2. \A f \in Bound(new.kind) : new.record.hashes[f] = Sha(new.files[f])
            BY <4>1
          <5> HIDE DEF new
          <5> QED
            BY <3>1, <5>1, <5>2 DEF SealedInv
        <4>2. kind # "bc"
          BY <4>1 DEF Bound
        <4>3. Valid(kind, rec[kind], FALSE)
          BY <3>1, <4>2 DEF Accepts
        <4>4. kind \in { "ra", "mt5", "rh" } /\ r.hashes[f] = Sha(att[f])
          BY <4>1, <4>3, HashesOfAccepted
        <4>5. "hashes" \in DOMAIN r
          BY <2>3, <4>4 DEF Shaped, Needed
        <4> QED
          BY <2>5, <4>4, <4>5
      <3>2. CASE UNCHANGED sealed
        BY <3>2, SameSealed
      <3> QED
        BY <1>3, <3>1, <3>2
    <2>10. head' \in Commits /\ DOMAIN ran' = Sessions /\ cand' = cand
      BY <1>1 DEF IInv, TypeInv, Sessions
    <2> QED
      BY <1>1, <2>1, <2>4, <2>8, <2>9, <2>10, SameFiles, StillStep
  <1> QED
    BY <1>1, <1>2, <1>3

(* Tools that only read and report, and files of a kind no --finalize signs. *)
LEMMA ReportSteps ==
    ASSUME IInv,
           \/ \E kind : Recheck(kind)
           \/ CheckMinimumProof \/ ValidateRelease
           \/ \E step, report : CheckSection(step, report)
           \/ \E commit \in Commits : MoveHead(commit)
           \/ \E step : Jump(step)
    PROVE  IInv'
  <1>1. /\ UNCHANGED << att, cand, rec, ran, sealed >>
        /\ changes' \in { changes, changes + 1 }
        /\ head' \in Commits
    BY SameCommits DEF Recheck, CheckMinimumProof, ValidateRelease, CheckSection, MoveHead,
       Jump, Change, world, bounds
  <1> QED
    BY <1>1, SameFiles, NoRecordStep

LEMMA UnsealedSteps ==
    ASSUME IInv,
           \/ BuildMinimumProof \/ FillRelease \/ ImportSoak
           \/ \E desk : ChangeDeployment(desk)
    PROVE  IInv'
  <1>1. /\ UNCHANGED << head, att, cand, ran, sealed >>
        /\ changes' \in { changes, changes + 1 }
        /\ \/ UNCHANGED rec
           \/ \E kind \in { "mp", "release" } : \E r : Save(kind, r)
    BY DEF BuildMinimumProof, FillRelease, ImportSoak, ChangeDeployment, Change, world, bounds
  <1>2. CASE UNCHANGED rec
    BY <1>1, <1>2, SameFiles, SameCommits, NoRecordStep
  <1>3. ASSUME NEW kind \in { "mp", "release" }, NEW r, Save(kind, r)
        PROVE  IInv'
    <2>1. kind \in Records /\ kind \notin Sealed
      BY DEF Records, Sealed
    <2> QED
      BY <1>1, <1>3, <2>1, SameFiles, OneRecordStep
  <1> QED
    BY <1>1, <1>2, <1>3

LEMMA ChangeRecordStep ==
    ASSUME IInv, NEW kind \in Records, ChangeRecord(kind)
    PROVE  IInv'
  <1>1. /\ UNCHANGED << head, att, cand, ran, sealed >>
        /\ changes' \in { changes, changes + 1 }
        /\ Exists(kind)
        /\ \/ Save(kind, NoFile)
           \/ kind \in Sealed /\ Save(kind, [rec[kind] EXCEPT !.accept = ~ @])
           \/ Save(kind, [rec[kind] EXCEPT !.sha = head])
    BY DEF ChangeRecord, Change, world
  <1>2. CASE Save(kind, NoFile)
    <2>1. RecordOf(kind, NoFile, sealed, ran, att["ex5"], changes)
      BY DEF RecordOf
    <2> QED
      BY <1>1, <1>2, <2>1, SameFiles, OneRecordStep
  <1>3. CASE kind \notin Sealed
    <2>1. \E r : Save(kind, r)
      BY <1>1
    <2> QED
      BY <1>1, <1>3, <2>1, SameFiles, OneRecordStep
  <1>4. ASSUME kind \in Sealed, NEW new, Save(kind, new),
               \/ new = [rec[kind] EXCEPT !.accept = ~ @]
               \/ new = [rec[kind] EXCEPT !.sha = head]
        PROVE  IInv'
    <2>1. Shaped(kind, rec[kind])
      BY <1>1, <1>4 DEF IInv, RecordInv, RecordOf, Exists
    <2>2. /\ Shaped(kind, new) /\ new.digest = rec[kind].digest
          /\ kind \in Sessions => new.ex5 = rec[kind].ex5
      BY <1>4, <2>1 DEF Shaped, Needed
    <2> QED
      BY <1>1, <1>4, <2>2, EditStep
  <1> QED
    BY <1>1, <1>2, <1>3, <1>4

(* A compiled EX5 that is rewritten never comes back.                       *)
LEMMA ChangeFileStep ==
    ASSUME IInv, NEW file \in Attachments, ChangeFile(file)
    PROVE  IInv'
  <1>0. /\ changes \in Nat /\ changes' = changes + 1
        /\ UNCHANGED << rec, head, cand, ran, sealed >>
    BY SameCommits DEF ChangeFile, Change, world
  <1>1. \/ \E ok \in BOOLEAN :
              att' = [att EXCEPT ![file] = [att[file] EXCEPT !.n = 2 * changes + 1, !.ok = ok]]
        \/ att' = [att EXCEPT ![file] = Absent]
    BY DEF ChangeFile
  <1>2. PICK content : /\ att' = [att EXCEPT ![file] = content]
                       /\ content \in Contents
                       /\ content.n = 2 * changes + 1 \/ ~content.ok
    <2>1. ASSUME NEW ok \in BOOLEAN
          PROVE  LET c == [att[file] EXCEPT !.n = 2 * changes + 1, !.ok = ok]
                 IN c \in Contents /\ c.n = 2 * changes + 1
      <3>1. PICK c \in Contents : c = att[file]
        BY DEF IInv, TypeInv
      <3> DEFINE n == 2 * changes + 1
      <3>2. n \in Nat
        BY SameCommits
      <3> HIDE DEF n
      <3>3. [c EXCEPT !.n = n] \in Contents /\ [c EXCEPT !.n = n].n = n
        BY <3>2 DEF Contents
      <3>4. \A b \in Contents : LET e == [b EXCEPT !.ok = ok]
                               IN e \in Contents /\ e.n = b.n
        BY DEF Contents
      <3>5. [c EXCEPT !.n = n, !.ok = ok] = [[c EXCEPT !.n = n] EXCEPT !.ok = ok]
        OBVIOUS
      <3> QED
        BY <3>1, <3>3, <3>4, <3>5 DEF n
    <2>2. Absent \in Contents /\ ~Absent.ok
      BY DEF Absent, Contents, Nothing
    <2> QED
      BY <1>1, <2>1, <2>2
  <1>3. att' \in [Attachments -> Contents] /\ att'["ex5"] \in { att["ex5"], content }
    <2>1. att \in [Attachments -> Contents] /\ "ex5" \in Attachments
      BY DEF IInv, TypeInv, Attachments
    <2> QED
      BY <1>2, <2>1
  <1>4. changes \in Nat /\ changes' \in Nat /\ head' \in Commits /\ DOMAIN ran' = Sessions
    BY <1>0, SameCommits DEF IInv, TypeInv, Sessions
  <1>5. TypeInv'
    BY <1>0, <1>3, <1>4 DEF IInv, TypeInv
  <1>6. \A w : Compiled(w, changes) => /\ w.n < 2 * changes'
                                       /\ w # content
    <2> SUFFICES ASSUME NEW w, Compiled(w, changes)
                 PROVE  w.n < 2 * changes' /\ w # content
      OBVIOUS
    <2>1. w.n \in Nat /\ w.n <= 2 * changes /\ w.ok
      BY DEF Compiled
    <2>2. w.n < 2 * changes' /\ w.n # 2 * changes + 1
      BY <1>0, <1>4, <2>1
    <2>3. w # content
      BY <1>2, <2>1, <2>2
    <2> QED
      BY <2>2, <2>3
  <1>7. \A w : Gone(w, att["ex5"], changes) => Gone(w, att'["ex5"], changes')
    <2> SUFFICES ASSUME NEW w, Gone(w, att["ex5"], changes)
                 PROVE  Gone(w, att'["ex5"], changes')
      OBVIOUS
    <2>1. Compiled(w, changes) /\ w # att["ex5"]
      BY <1>4 DEF Gone, Compiled
    <2> QED
      BY <1>3, <1>6, <2>1 DEF Gone, Compiled
  <1>8. RecordInv'
    BY <1>0, <1>7, RecordsStep, "rr" \in Records DEF IInv, Records
  <1>9. CandidateInv'
    <2>1. CASE cand.ex5 = Unsigned
      BY <1>0, <2>1 DEF CandidateInv
    <2>2. ASSUME NEW w, cand.ex5 = Sha(w), Compiled(w, changes)
          PROVE  CandidateInv'
      <3>1. Compiled(w, changes') /\ w.n < 2 * changes' /\ w # content
        <4>1. w.n < 2 * changes' /\ w # content
          BY <1>6, <2>2
        <4>2. Compiled(w, changes')
          BY <1>4, <2>2, <4>1 DEF Compiled
        <4> QED
          BY <4>1, <4>2
      <3>2. w = att'["ex5"] \/ Gone(w, att'["ex5"], changes')
        BY <1>3, <3>1 DEF Gone, Compiled
      <3> QED
        BY <1>0, <2>2, <3>1, <3>2 DEF CandidateInv
    <2> QED
      BY <2>1, <2>2 DEF IInv, CandidateInv
  <1>10. SealedInv'
    BY <1>0, SameSealed
  <1> QED
    BY <1>5, <1>8, <1>9, <1>10 DEF IInv

LEMMA WorkStep ==
    ASSUME IInv, Work
    PROVE  IInv'
  <1>1. CASE Compile
    BY <1>1, CompileStep
  <1>2. CASE Download
    BY <1>2, DownloadStep
  <1>3. CASE BuildRecovery(cand.sha)
    BY <1>3, BuildRecoveryStep
  <1>4. CASE FillMatrix
    BY <1>4, FillMatrixStep
  <1>5. CASE BuildAcceptance
    BY <1>5, BuildAcceptanceStep
  <1>6. CASE BuildMt5
    BY <1>6, BuildMt5Step
  <1>7. CASE \E desk \in Desks : DraftBroker(desk)
    BY <1>7, DraftBrokerStep
  <1>8. CASE \E kind \in {"rr", "ra", "mt5"} : Complete(kind)
    BY <1>8, CompleteStep
  <1>9. CASE \E kind \in Sealed : Finalize(kind)
    BY <1>9, FinalizeStep
  <1>10. CASE DraftResilience
    BY <1>10, DraftResilienceStep
  <1>11. CASE DraftSoak
    BY <1>11, DraftSoakStep
  <1>12. CASE PrepareSections
    BY <1>12, PrepareSectionsStep
  <1>13. CASE BuildMinimumProof \/ FillRelease \/ ImportSoak
    BY <1>13, UnsealedSteps
  <1>14. CASE CheckMinimumProof \/ ValidateRelease
              \/ \E step, report : CheckSection(step, report)
    BY <1>14, ReportSteps
  <1> QED
    BY <1>1, <1>2, <1>3, <1>4, <1>5, <1>6, <1>7, <1>8, <1>9, <1>10, <1>11, <1>12, <1>13,
       <1>14 DEF Work

LEMMA DisturbStep ==
    ASSUME IInv, Disturb
    PROVE  IInv'
  <1>1. CASE \E file \in Attachments : ChangeFile(file)
    BY <1>1, ChangeFileStep
  <1>2. CASE \E kind \in Records : ChangeRecord(kind)
    BY <1>2, ChangeRecordStep
  <1>3. CASE \E desk \in Desks : ChangeDeployment(desk)
    BY <1>3, UnsealedSteps
  <1>4. CASE \E run \in Runs : BuildRecovery(run)
    BY <1>4, BuildRecoveryStep
  <1>5. CASE \/ \E kind : Recheck(kind)
             \/ \E commit \in Commits : MoveHead(commit)
             \/ \E step : Jump(step)
    BY <1>5, ReportSteps
  <1> QED
    BY <1>1, <1>2, <1>3, <1>4, <1>5 DEF Disturb

(* Of every state: what is on disk, in the records and in the notes is      *)
(* well-formed, every record that carries a digest is accounted for, and an *)
(* accepted record carries the hashes of the files of its acceptance.       *)
THEOREM Invariance == Spec => []IInv
  <1>1. Init => IInv
    BY Start
  <1>2. IInv /\ [Next]_vars => IInv'
    <2> SUFFICES ASSUME IInv, [Next]_vars
                 PROVE  IInv'
      OBVIOUS
    <2>1. CASE Next
      BY <2>1, WorkStep, DisturbStep DEF Next
    <2>2. CASE UNCHANGED vars
      <3>1. UNCHANGED << head, att, rec, cand, ran, sealed, changes >>
        BY <2>2 DEF vars
      <3> QED
        BY <3>1, SameFiles, SameCommits, NoRecordStep
    <2> QED
      BY <2>1, <2>2
  <1> QED
    BY <1>1, <1>2, PTL DEF Spec

-----------------------------------------------------------------------------
(* What a release that validates rests on. *)

LEMMA AcceptedAs ==
    ASSUME IInv, NEW kind \in Sealed, Exists(kind), rec[kind].digest = Digest(rec[kind]),
           kind = "bc" => ValidBroker(rec[kind], {}, {}),
           \A f \in Bound(kind) : rec[kind].hashes[f] = Sha(att[f])
    PROVE  \E s \in sealed : /\ s.kind = kind /\ s.record = rec[kind]
                             /\ \A f \in Bound(kind) : s.files[f] = att[f]
  <1>1. Shaped(kind, rec[kind]) /\ Accounted(kind, rec[kind], sealed)
    BY DEF IInv, RecordInv, RecordOf, Exists
  <1>2. PICK s \in sealed : s.kind = kind /\ s.record = rec[kind]
    BY <1>1, SignedIsAccepted
  <1>3. \A f \in Bound(kind) : Sha(s.files[f]) = Sha(att[f])
    BY <1>2 DEF IInv, SealedInv
  <1>4. \A f \in Bound(kind) : s.files[f] = att[f]
    BY <1>3, ShaIsInjective
  <1> QED
    BY <1>2, <1>4

(* Every record that a validated release names carries its own digest, and  *)
(* the hashes of the files that are there.                                  *)
LEMMA RecordsOfRelease ==
    ASSUME ValidRelease, NEW kind \in Sealed
    PROVE  /\ Exists(kind) /\ rec[kind].digest = Digest(rec[kind])
           /\ kind = "bc" => ValidBroker(rec[kind], {}, {})
           /\ \A f \in Bound(kind) : rec[kind].hashes[f] = Sha(att[f])
  <1>1. CASE kind = "rr"
    BY <1>1 DEF ValidRelease, RecoverySection, ValidRecovery, DigestHolds, Bound
  <1>2. CASE kind = "ra"
    <2>1. Bound(kind) = { "ra-matrix" }
      BY <1>2 DEF Bound
    <2> QED
      BY <1>2, <2>1 DEF ValidRelease, AcceptanceSection, ValidAcceptance, DigestHolds
  <1>3. CASE kind = "mt5"
    <2>1. Bound(kind) = Mt5Files
      BY <1>3 DEF Bound
    <2> QED
      BY <1>3, <2>1 DEF ValidRelease, Mt5Section, ValidMt5, DigestHolds, HashedFile
  <1>4. CASE kind = "rh"
    <2>1. Bound(kind) = { "rh-matrix" }
      BY <1>4 DEF Bound
    <2> QED
      BY <1>4, <2>1 DEF ValidRelease, ResilienceSection, ValidResilience, DigestHolds,
         HashedFile
  <1>5. CASE kind = "bc"
    <2>1. Exists("bc") /\ \E sha, desk : ValidBroker(rec["bc"], sha, desk)
      BY DEF ValidRelease, BrokerSection
    <2>2. rec["bc"].digest = Digest(rec["bc"]) /\ ValidBroker(rec["bc"], {}, {})
      BY <2>1 DEF ValidBroker, DigestHolds, Expect
    <2> QED
      BY <1>5, <2>1, <2>2 DEF Bound
  <1>6. CASE kind = "soak"
    BY <1>6 DEF ValidRelease, SoakMatchesBuild, ValidSoak, ValidSoakRecord, DigestHolds,
       Bound
  <1> QED
    BY <1>1, <1>2, <1>3, <1>4, <1>5, <1>6 DEF Sealed

LEMMA SummaryIsOfAccepted ==
    ASSUME IInv
    PROVE  ProofOfAcceptedRun
  <1> SUFFICES ASSUME Exists("mp"), ValidMinimumProof(rec["mp"])
               PROVE  \E s \in sealed :
                          /\ s.kind = "mt5" /\ Digest(s.record) = rec["mp"].source
                          /\ s.record.sha = rec["mp"].sha
                          /\ \A f \in Mt5Files : s.files[f] = att[f]
    BY DEF ProofOfAcceptedRun
  <1> DEFINE m == rec["mt5"]
  <1>1. /\ Exists("mt5") /\ ValidMt5(m, TRUE, {rec["mp"].sha}, {}, {})
        /\ Digest(m) = rec["mp"].source
    BY DEF ValidMinimumProof
  <1>2. /\ m.sha = rec["mp"].sha /\ m.digest = Digest(m)
        /\ \A f \in Mt5Files : m.hashes[f] = Sha(att[f])
    BY <1>1 DEF ValidMt5, Expect, DigestHolds, HashedFile
  <1>3. "mt5" \in Sealed /\ Bound("mt5") = Mt5Files
    BY DEF Sealed, Bound
  <1>4. PICK s \in sealed : /\ s.kind = "mt5" /\ s.record = rec["mt5"]
                            /\ \A f \in Mt5Files : s.files[f] = att[f]
    BY <1>1, <1>2, <1>3, AcceptedAs
  <1> QED
    BY <1>1, <1>2, <1>4

(* Release evidence that validates, and a minimum-proof summary that does,  *)
(* rest on records that --finalize accepted as they are now, over bound     *)
(* files as they are now, in every run of any length.                       *)
THEOREM RestsOnTheAccepted == Spec => []RestsOnAccepted
  <1>1. IInv => SealedAsAccepted
    BY RecordsOfRelease, AcceptedAs DEF SealedAsAccepted
  <1>2. IInv => RestsOnAccepted
    BY <1>1, SummaryIsOfAccepted DEF RestsOnAccepted
  <1> QED
    BY <1>2, Invariance, PTL

(* The EX5 of a release that validates is the one that MT5 validation,      *)
(* broker coverage and the soak were run on.                                *)
THEOREM TheBinaryWasTested == Spec => []TestedBinaryShips
  <1>1. IInv => TestedBinaryShips
    <2> SUFFICES ASSUME IInv, ValidRelease, NEW session \in DOMAIN ran
                 PROVE  ran[session] = Sha(att["ex5"])
      BY DEF TestedBinaryShips
    <2>1. session \in Sessions /\ session \in Sealed
      BY DEF IInv, TypeInv, Sessions, Sealed
    <2>2. rec["release"].ex5 = Sha(att["ex5"])
      BY DEF ValidRelease, BuildIsOnDisk
    <2>3. rec[session].ex5 = rec["release"].ex5
      <3>1. rec["mt5"].ex5 = rec["release"].ex5
        BY DEF ValidRelease, Mt5Section, ValidMt5, Expect
      <3>2. rec["bc"].ex5 = rec["release"].ex5
        BY DEF ValidRelease, BrokerSection
      <3>3. rec["soak"].ex5 = rec["release"].ex5
        BY DEF ValidRelease, SoakMatchesBuild
      <3> QED
        BY <2>1, <3>1, <3>2, <3>3 DEF Sessions
    <2>4. Tested(rec[session], ran[session], att["ex5"], changes)
      BY <2>1, RecordsOfRelease DEF IInv, RecordInv, RecordOf, Exists
    <2> QED
      BY <2>2, <2>3, <2>4, ShaIsInjective DEF Tested, Gone
  <1> QED
    BY <1>1, Invariance, PTL
===============================================================================
