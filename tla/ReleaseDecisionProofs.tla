------------------------- MODULE ReleaseDecisionProofs -------------------------
(* Proofs about ReleaseDecision, for every set of commits and countries, every *)
(* choice of the things that may be disturbed and every number of            *)
(* disturbances: what is issued was reviewed, a GO is issued for the world    *)
(* as far as it was left alone, a package ships what its evidence names, its  *)
(* dashboard is true, and every status validates.                           *)
EXTENDS ReleaseDecision, TLAPS

Fields == { "evidence", "static", "passed", "seen", "page", "drift", "privacy", "risk",
            "names", "hashes" }
Shaped(m) == DOMAIN m = Fields /\ DOMAIN m.seen = { "basis", "compile", "privacy" }

(* The records have their fields, and the step is one of the 59 or the end.  *)
Shape ==
    /\ DOMAIN file = Files /\ DOMAIN rec = Papers /\ DOMAIN out = Outputs
    /\ Shaped(mem)
    /\ at \in 1 .. 60

(* A review on file may have been spoiled since, but what it says of the      *)
(* basis and of the two records is what its reviewer answered for.           *)
HonestReview(r) ==
    /\ { "basis", "compile", "privacy" } \subseteq DOMAIN r
    /\ \E a \in reviewed : r.basis = Sha(a.basis) /\ r.compile = a.compile
                           /\ r.privacy = a.privacy
Honest ==
    /\ \A a \in reviewed : a = [basis |-> a.basis, compile |-> a.compile,
                                privacy |-> a.privacy]
    /\ rec["review"] # NoFile => HonestReview(rec["review"])

(* What each of the four validators tells of the world, as far as evidence    *)
(* and review were left alone; and what it tells of the evidence it saw.     *)
R10Told ==
    Untouched({ "evidence" }) =>
      /\ Exists("evidence")
      /\ CompileClaim(rec["evidence"]) /\ PrivacyClaim(rec["evidence"])
BaseTold    == Untouched({ "evidence" }) => BaseClaim(rec["evidence"])
DigestsTold == Untouched({ "evidence", "review" }) =>
                  ValidReviewR10(rec["evidence"], rec["review"])
ReviewTold  == Untouched({ "evidence" }) => ReviewClaim(rec["evidence"])
DigestsSeen == \E a \in reviewed : a.compile = mem.seen.compile /\ a.privacy = mem.seen.privacy
BasisSeen   == \E a \in reviewed : a.basis = mem.seen.basis

(* The steps of status builder, exporter and packager behind each validator.  *)
(* The status builder goes on without it, and knows only what has passed.    *)
PastR10     == (at \in 17 .. 20 /\ mem.passed) \/ at \in 29 .. 37 \/ at \in 39 .. 50
PastBase    == (at \in 18 .. 20 /\ mem.passed) \/ at \in 30 .. 37 \/ at \in 40 .. 50
PastDigests == (at \in 19 .. 20 /\ mem.passed) \/ at \in 31 .. 37 \/ at \in 41 .. 50
PastReview  == (at = 20 /\ mem.passed) \/ at \in 32 .. 37 \/ at \in 42 .. 50
Validated ==
    /\ PastR10 => R10Told
    /\ PastBase => BaseTold
    /\ PastDigests => DigestsTold /\ DigestsSeen
    /\ PastReview => ReviewTold /\ BasisSeen

(* The evidence a tool holds is the evidence on file, if that was left alone.  *)
Held ==
    at \in 16 .. 20 \cup 28 .. 36 \cup 43 .. 49 =>
      (Untouched({ "evidence" }) => mem.evidence = rec["evidence"])

(* What the exporter knows beyond the validators.                            *)
AcceptedTold == Untouched({ "risk" }) => rec["risk"].accepted
LoadedTold ==
    /\ Untouched({ "risk" }) => mem.risk = rec["risk"]
    /\ Untouched({ "privacy" }) => mem.privacy = rec["privacy"]
SetTold ==
    Untouched({ "set" }) /\ mem.evidence.set # NoSet => Sha(file["set"]) = mem.evidence.set
PresetTold(p) ==
    /\ DOMAIN p = { "lines", "manifest", "seen" }
    /\ Reviewed(p.seen)
    /\ Untouched({ "evidence" }) => p.lines.InpReleaseSourceCommitSha = rec["evidence"].sha
    /\ Permitted(p.lines)
Exporting ==
    /\ at \in 33 .. 36 => AcceptedTold
    /\ at \in 34 .. 36 => LoadedTold
    /\ at \in 35 .. 36 => mem.risk.jurisdiction = mem.privacy.jurisdiction
    /\ at = 36 => SetTold
    /\ at = 37 => PresetTold(out["preset"])

(* A page drawn from sound evidence says NO-GO when HEAD is elsewhere, and     *)
(* else PASS, whatever HEAD does between the page and the verdict.           *)
Sound(e) == e.final.decision = "GO" /\ e.operator /\ e.gates /\ e.sections # "failed"
Drawn(page, e) ==
    /\ DOMAIN page = { "evidence", "overall", "fingerprint" }
    /\ page.evidence = Sha(e)
    /\ Sound(e) =>
         /\ page.overall # "HOLD"
         /\ Untouched({ "head" }) /\ head = e.sha => page.overall = "PASS"
Judged(page) ==
    /\ page.overall # "HOLD"
    /\ Untouched({ "head" }) => page.overall = "PASS"
PageTold(page) == Untouched({ "evidence" }) => page.evidence = Sha(rec["evidence"])

(* What the packager knows beyond the validators.                            *)
NamedTold(e, files) ==
    /\ Untouched({ "handout" }) => Sha(files["handout"]) = e.ex5
    /\ Untouched({ "set" }) /\ WithSet => Sha(files["set"]) = e.set
PackageTold(p) ==
    /\ DOMAIN p = { "files", "page", "drift", "evidence", "seen", "index", "announced" }
    /\ Reviewed(p.seen)
    /\ Untouched({ "evidence" }) => p.evidence = rec["evidence"]
    /\ NamedTold(p.evidence, p.files)
    /\ Judged(p.page) /\ PageTold(p.page) /\ p.page.evidence = p.drift
Packaging ==
    /\ at \in 43 .. 44 => Drawn(mem.page, mem.evidence)
    /\ at \in 45 .. 49 => Judged(mem.page)
    /\ at \in 43 .. 49 => PageTold(mem.page)
    /\ at \in 47 .. 49 => mem.page.evidence = mem.drift
    /\ at \in 48 .. 49 => NamedTold(mem.evidence, file)
    /\ at = 50 => PackageTold(out["package"])

GoodStatus(s) ==
    /\ ValidStatus(s.result)
    /\ s.result.overall = "GO" => Reviewed(s.seen)
Shown ==
    /\ out["status"] # NoFile => GoodStatus(out["status"])
    /\ out["preset"] # NoFile => Reviewed(out["preset"].seen)
    /\ Announced => Reviewed(out["package"].seen)

IndInv == Shape /\ Honest /\ Validated /\ Held /\ Exporting /\ Packaging /\ Shown
Knowing == 16 .. 20 \cup 28 .. 37 \cup 39 .. 50     \* steps IndInv says more of
-----------------------------------------------------------------------------
(* The place of each step.                                                  *)
LEMMA Places ==
    ASSUME at \in 1 .. 60
    PROVE  /\ at <= Len(Steps) <=> at <= 59
           /\ \A step : At(step) => at \in 1 .. 59
BY DEF At, Steps

LEMMA StatusPlaces ==
    ASSUME at \in 1 .. 60
    PROVE  /\ At("review-check") => at = 12
           /\ At("review-base") => at = 13
           /\ At("status-read") => at = 15
           /\ At("status-r10") => at = 16
           /\ At("status-base") => at = 17
           /\ At("status-review") => at = 18
           /\ At("status-review-base") => at = 19
           /\ At("status-write") => at = 20
BY DEF At, Steps

LEMMA ExportPlaces ==
    ASSUME at \in 1 .. 60
    PROVE  /\ At("export-read") => at = 27
           /\ At("export-r10") => at = 28
           /\ At("export-base") => at = 29
           /\ At("export-review") => at = 30
           /\ At("export-review-base") => at = 31
           /\ At("export-consent") => at = 32
           /\ At("export-load") => at = 33
           /\ At("export-head") => at = 34
           /\ At("export-hash") => at = 35
           /\ At("export-write") => at = 36
           /\ At("export-manifest") => at = 37
BY DEF At, Steps

LEMMA PackagePlaces ==
    ASSUME at \in 1 .. 60
    PROVE  /\ At("package-r10") => at = 38
           /\ At("package-base") => at = 39
           /\ At("package-review") => at = 40
           /\ At("package-review-base") => at = 41
           /\ At("package-page") => at = 42
           /\ At("package-print") => at = 43
           /\ At("package-pass") => at = 44
           /\ At("package-drift-read") => at = 45
           /\ At("package-drift") => at = 46
           /\ At("package-check") => at = 47
           /\ At("package-scan") => at = 48
           /\ At("package-copy") => at = 49
           /\ At("package-index") => at = 50
BY DEF At, Steps

(* The steps that lead to none of which IndInv says more.                    *)
Plain ==
    { "compile", "compile-check", "privacy", "privacy-check", "trials", "trials-check",
      "consent", "consent-check", "static", "fill", "review", "review-check",
      "review-base", "go", "status-write", "status-check", "dashboard-page",
      "dashboard-print", "dashboard-pass", "drift-read", "drift-check",
      "export-manifest", "package-index", "pack-scan", "pack-first", "pack-rescan",
      "pack-rest", "pack-index", "rollback-read", "rollback-hash", "rollback-zip",
      "rollback-check" }
LEMMA PlainPlaces ==
    ASSUME at \in 1 .. 60, NEW step \in Plain, At(step)
    PROVE  at + 1 \in 1 .. 60 /\ at + 1 \notin Knowing
BY DEF At, Steps, Knowing, Plain

(* Whoever resumes does so at such a step.                                  *)
LEMMA BeginningPlaces ==
    ASSUME NEW i \in 1 .. Len(Steps), Steps[i] \in Beginnings
    PROVE  i \in 1 .. 60 /\ i \notin Knowing
BY DEF Steps, Beginnings, Knowing

(* A blank memory has all fields.                                           *)
LEMMA BlankFields == Shaped(Blank)
BY DEF Blank, Shaped, Fields, Unseen

(* What it means to be left alone.                                          *)
LEMMA LeftAlone ==
    /\ \A t : Untouched({t}) <=> t \notin touched
    /\ \A t : Untouched({t})' <=> t \notin touched'
    /\ \A s, t : Untouched({ s, t }) <=> s \notin touched /\ t \notin touched
    /\ \A s, t : Untouched({ s, t })' <=> s \notin touched' /\ t \notin touched'
BY DEF Untouched
-----------------------------------------------------------------------------
(* Whatever has changed was disturbed since the tool began, and what a        *)
(* reviewer has signed stays signed.                                       *)
Kept ==
    /\ touched \subseteq touched' /\ reviewed \subseteq reviewed'
    /\ "head" \notin touched' => head' = head
    /\ \A f \in Files : f \notin touched' => file'[f] = file[f]
    /\ \A kind \in Papers : kind \notin touched' => rec'[kind] = rec[kind]

World == << head, file, rec, reviewed, touched >>
LEMMA SettledKept ==
    ASSUME UNCHANGED World
    PROVE  Kept
BY DEF World, Kept

(* Then no claim about evidence left alone is lost.                          *)
EvidenceKept == Kept /\ "evidence" \notin touched'

LEMMA SameEvidence ==
    ASSUME EvidenceKept
    PROVE  "evidence" \notin touched /\ rec'["evidence"] = rec["evidence"]
BY DEF EvidenceKept, Kept, Papers

LEMMA CompileKept ==
    ASSUME EvidenceKept, CompileClaim(rec["evidence"])
    PROVE  CompileClaim(rec["evidence"])'
<1>. "log" \in Files /\ "ex5" \in Files /\ "compile" \in Papers
  BY DEF Files, Papers
<1>1. CASE "compile" \in touched'
  BY <1>1, LeftAlone DEF CompileClaim
<1>2. CASE "compile" \notin touched'
  <2>1. "compile" \notin touched /\ rec'["compile"] = rec["compile"]
    BY <1>2 DEF EvidenceKept, Kept
  <2>2. "log" \notin touched' => "log" \notin touched /\ file'["log"] = file["log"]
    BY DEF EvidenceKept, Kept
  <2>3. "ex5" \notin touched' => "ex5" \notin touched /\ file'["ex5"] = file["ex5"]
    BY DEF EvidenceKept, Kept
  <2>. QED
    BY <2>1, <2>2, <2>3, SameEvidence, LeftAlone DEF CompileClaim, Exists
<1>. QED
  BY <1>1, <1>2

LEMMA PrivacyKept ==
    ASSUME EvidenceKept, PrivacyClaim(rec["evidence"])
    PROVE  PrivacyClaim(rec["evidence"])'
<1>1. CASE "privacy" \in touched'
  BY <1>1, LeftAlone DEF PrivacyClaim
<1>2. CASE "privacy" \notin touched'
  <2>1. "privacy" \notin touched /\ rec'["privacy"] = rec["privacy"]
    BY <1>2 DEF EvidenceKept, Kept, Papers
  <2>. QED
    BY <2>1, SameEvidence, LeftAlone DEF PrivacyClaim, Exists
<1>. QED
  BY <1>1, <1>2

LEMMA BaseKept ==
    ASSUME EvidenceKept, BaseClaim(rec["evidence"])
    PROVE  BaseClaim(rec["evidence"])'
<1>. "ex5" \in Files /\ "set" \in Files
  BY DEF Files
<1>1. "head" \notin touched' => "head" \notin touched /\ head' = head
  BY DEF EvidenceKept, Kept
<1>2. "ex5" \notin touched' => "ex5" \notin touched /\ file'["ex5"] = file["ex5"]
  BY DEF EvidenceKept, Kept
<1>3. "set" \notin touched' => "set" \notin touched /\ file'["set"] = file["set"]
  BY DEF EvidenceKept, Kept
<1>. QED
  BY <1>1, <1>2, <1>3, SameEvidence, LeftAlone DEF BaseClaim

LEMMA ReviewKept ==
    ASSUME EvidenceKept, ReviewClaim(rec["evidence"])
    PROVE  ReviewClaim(rec["evidence"])'
<1>1. CASE "review" \in touched'
  BY <1>1, LeftAlone DEF ReviewClaim
<1>2. CASE "review" \notin touched'
  <2>1. "review" \notin touched /\ rec'["review"] = rec["review"]
    BY <1>2 DEF EvidenceKept, Kept, Papers
  <2>2. Answered(rec["evidence"]) \in reviewed => Answered(rec["evidence"]) \in reviewed'
    BY DEF EvidenceKept, Kept
  <2>3. Answered(rec["evidence"])' = Answered(rec["evidence"])
    BY SameEvidence DEF Answered, ReleaseBasis
  <2>. QED
    BY <2>1, <2>2, <2>3, LeftAlone DEF ReviewClaim, Exists
<1>. QED
  BY <1>1, <1>2

(* What the validators told goes on being so.                                *)
LEMMA ToldKept ==
    ASSUME Kept
    PROVE  /\ R10Told => R10Told'
           /\ BaseTold => BaseTold'
           /\ DigestsTold => DigestsTold'
           /\ ReviewTold => ReviewTold'
<1>1. CASE "evidence" \in touched'
  BY <1>1, LeftAlone DEF R10Told, BaseTold, DigestsTold, ReviewTold
<1>2. CASE "evidence" \notin touched'
  <2>1. EvidenceKept
    BY <1>2 DEF EvidenceKept
  <2>2. Untouched({ "evidence" })
    BY <2>1, SameEvidence, LeftAlone
  <2>3. R10Told => R10Told'
    BY <2>1, <2>2, CompileKept, PrivacyKept, SameEvidence DEF R10Told, Exists
  <2>4. (BaseTold => BaseTold') /\ (ReviewTold => ReviewTold')
    BY <2>1, <2>2, BaseKept, ReviewKept DEF BaseTold, ReviewTold
  <2>5. DigestsTold => DigestsTold'
    <3>1. "review" \notin touched' => "review" \notin touched /\ rec'["review"] = rec["review"]
      BY DEF Kept, Papers
    <3>. QED
      BY <2>1, <3>1, SameEvidence, LeftAlone DEF DigestsTold, ValidReviewR10
  <2>. QED
    BY <2>3, <2>4, <2>5
<1>. QED
  BY <1>1, <1>2

(* So does what the other tools know.                                        *)
LEMMA EvidenceHeldKept ==
    ASSUME Kept, NEW e, Untouched({ "evidence" }) => e = rec["evidence"]
    PROVE  Untouched({ "evidence" })' => e = rec'["evidence"]
BY SameEvidence, LeftAlone DEF EvidenceKept

LEMMA PermittedKept ==
    ASSUME Kept, NEW lines, Permitted(lines)
    PROVE  Permitted(lines)'
<1>1. "risk" \notin touched' => "risk" \notin touched /\ rec'["risk"] = rec["risk"]
  BY DEF Kept, Papers
<1>2. "privacy" \notin touched' => "privacy" \notin touched /\ rec'["privacy"] = rec["privacy"]
  BY DEF Kept, Papers
<1>3. "set" \notin touched' => "set" \notin touched
  BY DEF Kept
<1>. QED
  BY <1>1, <1>2, <1>3, LeftAlone DEF Permitted

LEMMA JudgedKept ==
    ASSUME Kept, NEW page
    PROVE  /\ Judged(page) => Judged(page)'
           /\ PageTold(page) => PageTold(page)'
<1>1. "head" \notin touched' => "head" \notin touched
  BY DEF Kept
<1>. QED
  BY <1>1, SameEvidence, LeftAlone DEF Judged, PageTold, EvidenceKept

LEMMA ReviewedKept ==
    ASSUME reviewed \subseteq reviewed', NEW seen, Reviewed(seen)
    PROVE  Reviewed(seen)'
BY DEF Reviewed

LEMMA NamedKept ==
    ASSUME Kept, NamedTold(mem.evidence, file), mem' = mem
    PROVE  NamedTold(mem.evidence, file)'
<1>1. "handout" \notin touched' =>
         "handout" \notin touched /\ file'["handout"] = file["handout"]
  BY DEF Kept, Files
<1>2. "set" \notin touched' => "set" \notin touched /\ file'["set"] = file["set"]
  BY DEF Kept, Files
<1>. QED
  BY <1>1, <1>2, LeftAlone DEF NamedTold

LEMMA OutputsKept ==
    ASSUME Kept, out' = out
    PROVE  /\ PresetTold(out["preset"]) => PresetTold(out["preset"])'
           /\ PackageTold(out["package"]) => PackageTold(out["package"])'
<1>. reviewed \subseteq reviewed'
  BY DEF Kept
<1>1. ASSUME PresetTold(out["preset"])
      PROVE  PresetTold(out["preset"])'
  <2>. DEFINE p == out["preset"]
  <2>1. Permitted(p.lines)' /\ Reviewed(p.seen)'
    <3>1. \A lines : Permitted(lines) => Permitted(lines)'
      BY PermittedKept
    <3>2. \A seen : Reviewed(seen) => Reviewed(seen)'
      BY ReviewedKept
    <3>. QED
      BY <1>1, <3>1, <3>2 DEF PresetTold, Permitted, Reviewed
  <2>2. Untouched({ "evidence" })' =>
           Untouched({ "evidence" }) /\ rec'["evidence"] = rec["evidence"]
    BY SameEvidence, LeftAlone DEF EvidenceKept
  <2>. QED
    BY <1>1, <2>1, <2>2 DEF PresetTold
<1>2. ASSUME PackageTold(out["package"])
      PROVE  PackageTold(out["package"])'
  <2>. DEFINE p == out["package"]
  <2>1. Reviewed(p.seen)'
    BY <1>2 DEF PackageTold, Reviewed
  <2>2. Judged(p.page)' /\ PageTold(p.page)'
    <3>1. "head" \notin touched' => "head" \notin touched
      BY DEF Kept
    <3>. QED
      BY <1>2, <3>1, SameEvidence, LeftAlone
         DEF PackageTold, Judged, PageTold, EvidenceKept
  <2>3. NamedTold(p.evidence, p.files)'
    BY <1>2, LeftAlone DEF PackageTold, NamedTold, Kept
  <2>4. Untouched({ "evidence" })' =>
           Untouched({ "evidence" }) /\ rec'["evidence"] = rec["evidence"]
    BY SameEvidence, LeftAlone DEF EvidenceKept
  <2>. QED
    BY <1>2, <2>1, <2>2, <2>3, <2>4 DEF PackageTold
<1>. QED
  BY <1>1, <1>2
-----------------------------------------------------------------------------
(* What is true of the review stays true while nobody touches it.            *)
LEMMA HonestKept ==
    ASSUME Honest, reviewed' = reviewed, rec'["review"] = rec["review"]
    PROVE  Honest'
BY DEF Honest, HonestReview

Same(o) == out'[o] = out[o]
LEMMA ShownKept ==
    ASSUME Shown, reviewed \subseteq reviewed', Same("status"), Same("preset"), Same("package")
    PROVE  Shown'
BY DEF Shown, Same, GoodStatus, Announced, Reviewed

(* A step that shows nothing new and leads to none IndInv says more of.       *)
LEMMA Frame ==
    ASSUME IndInv, Shape', Honest', reviewed \subseteq reviewed',
           Same("status"), Same("preset"), Same("package"), at' \notin Knowing
    PROVE  IndInv'
<1>1. Validated' /\ Held' /\ Exporting' /\ Packaging'
  BY DEF Validated, PastR10, PastBase, PastDigests, PastReview, Held, Exporting, Packaging,
         Knowing
<1>2. Shown'
  BY ShownKept DEF IndInv
<1>. QED
  BY <1>1, <1>2 DEF IndInv

(* A step of a tool that only reads.                                        *)
LEMMA ReadFrame ==
    ASSUME IndInv, UNCHANGED World, UNCHANGED out, Shaped(mem'), at' \in 1 .. 60,
           Validated', Held', Exporting', Packaging'
    PROVE  IndInv'
<1>1. Honest' /\ Shown'
  BY HonestKept, ShownKept DEF IndInv, World, Same
<1>. QED
  BY <1>1 DEF IndInv, Shape, World, Shaped

(* Giving up is always safe.                                                *)
LEMMA RefuseFrame ==
    ASSUME IndInv, DOMAIN file' = Files, rec' = rec, reviewed' = reviewed, DOMAIN out' = Outputs,
           Same("status"), Same("preset"), Same("package"), Refuse
    PROVE  IndInv'
<1>1. Shape'
  BY BlankFields DEF Refuse, Shape, IndInv, Shaped
<1>2. Honest' /\ at' \notin Knowing
  BY HonestKept DEF IndInv, Refuse, Knowing
<1>. QED
  BY <1>1, <1>2, Frame

(* A step that disturbs the world, or nothing at all.                        *)
LEMMA KeptFrame ==
    ASSUME IndInv, Kept, UNCHANGED << out, mem, at >>, Shape', Honest'
    PROVE  IndInv'
<1>1. reviewed \subseteq reviewed'
  BY DEF Kept
<1>2. Validated'
  BY <1>1, ToldKept DEF IndInv, Validated, PastR10, PastBase, PastDigests, PastReview,
                        DigestsSeen, BasisSeen
<1>3. Held'
  BY SameEvidence, LeftAlone DEF IndInv, Held, EvidenceKept
<1>4. Exporting'
  <2>1. "risk" \notin touched' => "risk" \notin touched /\ rec'["risk"] = rec["risk"]
    BY DEF Kept, Papers
  <2>2. "privacy" \notin touched' =>
           "privacy" \notin touched /\ rec'["privacy"] = rec["privacy"]
    BY DEF Kept, Papers
  <2>3. "set" \notin touched' => "set" \notin touched /\ file'["set"] = file["set"]
    BY DEF Kept, Files
  <2>4. /\ AcceptedTold => AcceptedTold'
        /\ LoadedTold => LoadedTold'
        /\ SetTold => SetTold'
    BY <2>1, <2>2, <2>3, LeftAlone DEF AcceptedTold, LoadedTold, SetTold
  <2>. QED
    BY <2>4, OutputsKept DEF IndInv, Exporting
<1>5. Packaging'
  <2>1. "head" \notin touched' => "head" \notin touched /\ head' = head
    BY DEF Kept
  <2>2. Drawn(mem.page, mem.evidence) => Drawn(mem.page, mem.evidence)'
    BY <2>1, LeftAlone DEF Drawn, Sound
  <2>3. /\ Judged(mem.page) => Judged(mem.page)'
        /\ PageTold(mem.page) => PageTold(mem.page)'
    BY <2>1, SameEvidence, LeftAlone DEF Judged, PageTold, EvidenceKept
  <2>. QED
    BY <2>2, <2>3, NamedKept, OutputsKept DEF IndInv, Packaging
<1>6. Shown'
  BY <1>1, ShownKept DEF IndInv, Same
<1>. QED
  BY <1>2, <1>3, <1>4, <1>5, <1>6 DEF IndInv

(* A blank memory, or any of the right shape, at a step nothing is said of.    *)
LEMMA PlainFrame ==
    ASSUME IndInv, NEW step \in Plain, At(step),
           DOMAIN file' = Files, DOMAIN rec' = Papers, DOMAIN out' = Outputs, Honest',
           reviewed \subseteq reviewed',
           Same("status"), Same("preset"), Same("package"),
           Shaped(mem'), at' \in { at + 1, 1 }
    PROVE  IndInv'
<1>1. at' \in 1 .. 60 /\ at' \notin Knowing
  BY PlainPlaces DEF IndInv, Shape, Knowing
<1>2. Shape'
  BY <1>1 DEF Shape, Shaped
<1>. QED
  BY <1>1, <1>2, Frame
-----------------------------------------------------------------------------
(* The preparation of the candidate, up to the review.                      *)
LEMMA PreparationStep ==
    ASSUME IndInv,
           Compile \/ SignPrivacy \/ RunTrials \/ Consent \/ StaticSuite \/ FillEvidence
             \/ CopyReview
    PROVE  IndInv'
<1>1. /\ DOMAIN file' = Files /\ DOMAIN rec' = Papers /\ rec'["review"] = rec["review"]
      /\ out' = out /\ reviewed' = reviewed /\ mem' \in { mem, Blank }
      /\ at' \in { at + 1, 1 }
  <2>1. DOMAIN rec = Papers /\ DOMAIN file = Files
    BY DEF IndInv, Shape
  <2>. /\ "review" \in Papers /\ "compile" \in Papers /\ "privacy" \in Papers
       /\ "static" \in Papers /\ "evidence" \in Papers /\ "risk" \in Papers
       /\ "entitlement" \in Papers
    BY DEF Papers
  <2>2. CASE Compile
    BY <2>1, <2>2 DEF Compile, Save, Advance
  <2>3. CASE SignPrivacy
    BY <2>1, <2>3 DEF SignPrivacy, Save, Advance
  <2>4. CASE RunTrials
    BY <2>1, <2>4 DEF RunTrials, Save, Advance, Papers, Trials
  <2>5. CASE Consent
    BY <2>1, <2>5 DEF Consent, Advance
  <2>6. CASE StaticSuite
    BY <2>1, <2>6 DEF StaticSuite, Save, Advance
  <2>7. CASE FillEvidence
    BY <2>1, <2>7 DEF FillEvidence, Save, Advance, Refuse
  <2>8. CASE CopyReview
    BY <2>1, <2>8 DEF CopyReview, Save, Advance, Refuse
  <2>. QED
    BY <2>2, <2>3, <2>4, <2>5, <2>6, <2>7, <2>8
<1>2. Honest' /\ Shaped(mem')
  BY <1>1, HonestKept, BlankFields DEF IndInv, Shape
<1>3. \E step \in Plain : At(step)
  BY DEF Compile, SignPrivacy, RunTrials, Consent, StaticSuite, FillEvidence, CopyReview,
         Plain
<1>. QED
  BY <1>1, <1>2, <1>3, PlainFrame DEF Same, IndInv, Shape

(* The checks the operator runs between the tools.                          *)
LEMMA CheckStep ==
    ASSUME IndInv, NEW step \in { "compile-check", "privacy-check", "trials-check",
                                  "consent-check" },
           CheckPapers(step)
    PROVE  IndInv'
<1>1. /\ At(step) /\ step \in Plain
      /\ file' = file /\ rec' = rec /\ out' = out /\ reviewed' = reviewed
      /\ mem' \in { mem, Blank } /\ at' \in { at + 1, 1 }
  BY DEF CheckPapers, Verdict, Advance, Refuse, Plain
<1>2. Honest' /\ Shaped(mem')
  BY <1>1, HonestKept, BlankFields DEF IndInv, Shape
<1>. QED
  BY <1>1, <1>2, PlainFrame DEF Same, IndInv, Shape

(* The reviewer signs only what is added to the signed answers.              *)
LEMMA ReviewStep ==
    ASSUME IndInv, Review
    PROVE  IndInv'
<1>1. /\ At("review") /\ "review" \in Plain
      /\ file' = file /\ out' = out /\ mem' \in { mem, Blank } /\ at' \in { at + 1, 1 }
      /\ DOMAIN rec' = Papers /\ reviewed \subseteq reviewed'
  BY DEF Review, Advance, Refuse, Save, IndInv, Shape, Plain
<1>2. Honest'
  <2>1. CASE Exists("evidence")
    <3>. DEFINE e == rec["evidence"]
                paper == [sha |-> e.sha, ex5 |-> e.ex5, set |-> e.set,
                          basis |-> Sha(ReleaseBasis(e)), compile |-> e.compile.digest,
                          privacy |-> e.privacy.digest, decision |-> "GO",
                          digest |-> Unsigned]
    <3>1. rec'["review"] = Signed(paper) /\ reviewed' = reviewed \cup { Answered(e) }
      BY <2>1 DEF Review, Save, IndInv, Shape, Papers
    <3>2. /\ { "basis", "compile", "privacy" } \subseteq DOMAIN Signed(paper)
          /\ Signed(paper).basis = Sha(Answered(e).basis)
          /\ Signed(paper).compile = Answered(e).compile
          /\ Signed(paper).privacy = Answered(e).privacy
      BY DEF Signed, Answered
    <3>3. Answered(e) = [basis |-> Answered(e).basis, compile |-> Answered(e).compile,
                         privacy |-> Answered(e).privacy]
      BY DEF Answered
    <3>. HIDE DEF paper
    <3>4. HonestReview(rec["review"])'
      BY <3>1, <3>2 DEF HonestReview
    <3>. QED
      BY <3>1, <3>3, <3>4 DEF Honest, IndInv
  <2>2. CASE ~Exists("evidence")
    BY <2>2, HonestKept DEF Review, IndInv
  <2>. QED
    BY <2>1, <2>2
<1>3. Shaped(mem')
  BY <1>1, BlankFields DEF IndInv, Shape
<1>. QED
  BY <1>1, <1>2, <1>3, PlainFrame DEF Same, IndInv, Shape
-----------------------------------------------------------------------------
(* What each validator found is what is told.                                *)
LEMMA R10Tells ==
    ASSUME R10Holds, UNCHANGED << head, file, rec >>
    PROVE  R10Told'
BY DEF R10Holds, R10Told, ValidR10, ValidCompile, ValidPrivacy, CompileClaim, PrivacyClaim,
       Exists, Matches, Digest, Sha

LEMMA BaseTells ==
    ASSUME BaseHolds, UNCHANGED << head, file, rec >>
    PROVE  BaseTold'
BY DEF BaseHolds, BaseTold, ValidR7, ValidBase, BaseClaim, SetMatches, Matches

LEMMA DigestsTell ==
    ASSUME ReviewR10Holds, UNCHANGED rec
    PROVE  DigestsTold'
BY DEF ReviewR10Holds, DigestsTold, ValidReviewR10

(* The digests a passing review names are those of one a reviewer signed, ...   *)
LEMMA DigestsReviewed ==
    ASSUME Honest, ReviewR10Holds
    PROVE  \E a \in reviewed : /\ a.compile = rec["evidence"].compile.digest
                               /\ a.privacy = rec["evidence"].privacy.digest
BY DEF Honest, HonestReview, ReviewR10Holds, ValidReviewR10, Exists

(* ... so is its basis, and with the digests, if evidence and review were left *)
(* alone, this is what the reviewer answered for.                            *)
LEMMA BasisReviewed ==
    ASSUME Honest, ReviewHolds
    PROVE  /\ \E a \in reviewed : a.basis = ReleaseBasis(rec["evidence"])
           /\ ValidReviewR10(rec["evidence"], rec["review"]) =>
                 Answered(rec["evidence"]) \in reviewed
<1>1. PICK a \in reviewed :
        /\ rec["review"].basis = Sha(a.basis)
        /\ rec["review"].compile = a.compile /\ rec["review"].privacy = a.privacy
        /\ a = [basis |-> a.basis, compile |-> a.compile, privacy |-> a.privacy]
  BY DEF Honest, HonestReview, ReviewHolds, Exists
<1>2. a.basis = ReleaseBasis(rec["evidence"])
  BY <1>1 DEF ReviewHolds, ValidReview, Sha
<1>3. ValidReviewR10(rec["evidence"], rec["review"]) => a = Answered(rec["evidence"])
  BY <1>1, <1>2 DEF ValidReviewR10, Answered
<1>. QED
  BY <1>2, <1>3

LEMMA ReviewTells ==
    ASSUME Honest, DigestsTold, ReviewHolds, UNCHANGED << rec, reviewed, touched >>
    PROVE  ReviewTold'
<1>1. Untouched({ "evidence" })' /\ Untouched({ "review" })' =>
         Answered(rec["evidence"]) \in reviewed
  BY BasisReviewed, LeftAlone DEF DigestsTold
<1>2. Answered(rec["evidence"])' = Answered(rec["evidence"])
  BY DEF Answered, ReleaseBasis
<1>. QED
  BY <1>1, <1>2 DEF ReviewTold, ReviewClaim, ReviewHolds, ValidReview, Exists
-----------------------------------------------------------------------------
(* The steps of the validators, where the next one is validated.             *)
LEMMA JudgeFrame ==
    ASSUME IndInv, UNCHANGED World, UNCHANGED out, Shaped(mem'),
           mem'.evidence = mem.evidence,
           at \in 16 .. 19 \cup 28 .. 31 \cup 38 .. 41, at' = at + 1, Validated'
    PROVE  IndInv'
<1>1. Held'
  <2>1. at \in 16 .. 19 \cup 28 .. 31
          => (Untouched({ "evidence" })' => mem'.evidence = rec'["evidence"])
    BY DEF Held, IndInv, World, Untouched
  <2>. QED
    BY <2>1 DEF Held
<1>2. Exporting' /\ Packaging'
  BY DEF Exporting, Packaging
<1>. QED
  BY <1>1, <1>2, ReadFrame

(* What was known before such a step is known after it.                      *)
LEMMA StillValidated ==
    ASSUME IndInv, UNCHANGED World, mem'.passed => mem.passed, mem'.seen = mem.seen
    PROVE  /\ PastR10 => R10Told'
           /\ PastBase => BaseTold'
           /\ PastDigests => DigestsTold' /\ DigestsSeen'
           /\ PastReview => ReviewTold' /\ BasisSeen'
BY SettledKept, ToldKept DEF IndInv, Validated, DigestsSeen, BasisSeen, World

(* A validator of the status builder: its verdict joins those before it.      *)
LEMMA Joined ==
    ASSUME Shaped(mem), NEW held, NEW found, Shaped(found),
           found.evidence = mem.evidence, found.passed = mem.passed,
           mem' = [found EXCEPT !.passed = @ /\ held]
    PROVE  /\ Shaped(mem') /\ mem'.evidence = mem.evidence /\ mem'.seen = found.seen
           /\ mem'.passed => mem.passed /\ held
BY DEF Shaped, Fields

LEMMA CheckR10Step ==
    ASSUME IndInv, NEW step \in { "status-r10", "export-r10" }, CheckR10(step)
    PROVE  IndInv'
<1>1. /\ UNCHANGED World /\ UNCHANGED << head, file, rec, out, reviewed, touched >>
      /\ at \in 1 .. 60 /\ Shaped(mem)
  BY DEF CheckR10, World, IndInv, Shape
<1>2. CASE Refuse
  BY <1>1, <1>2, RefuseFrame DEF Same, IndInv, Shape
<1>3. CASE step = "status-r10"
  <2>1. at = 16 /\ at' = at + 1 /\ mem' = [mem EXCEPT !.passed = @ /\ R10Holds]
    BY <1>1, <1>3, StatusPlaces DEF CheckR10, Judge, StatusSteps, Remember, Advance
  <2>2. /\ Shaped(mem') /\ mem'.evidence = mem.evidence
        /\ mem'.passed => R10Holds
    BY <1>1, <2>1, Joined
  <2>3. Validated'
    BY <1>1, <2>1, <2>2, R10Tells DEF Validated, PastR10, PastBase, PastDigests, PastReview
  <2>. QED
    BY <1>1, <2>1, <2>2, <2>3, JudgeFrame
<1>4. CASE step = "export-r10" /\ ~Refuse
  <2>1. at = 28 /\ at' = at + 1 /\ mem' = mem /\ R10Holds
    BY <1>1, <1>4, ExportPlaces DEF CheckR10, Judge, StatusSteps, Remember, Advance
  <2>2. Validated'
    BY <1>1, <2>1, R10Tells DEF Validated, PastR10, PastBase, PastDigests, PastReview
  <2>. QED
    BY <1>1, <2>1, <2>2, JudgeFrame
<1>. QED
  BY <1>2, <1>3, <1>4

LEMMA CheckBaseStep ==
    ASSUME IndInv, NEW step \in { "status-base", "export-base", "package-base" },
           CheckBase(step)
    PROVE  IndInv'
<1>1. /\ UNCHANGED World /\ UNCHANGED << head, file, rec, out, reviewed, touched >>
      /\ at \in 1 .. 60 /\ Shaped(mem)
  BY DEF CheckBase, World, IndInv, Shape
<1>2. CASE Refuse
  BY <1>1, <1>2, RefuseFrame DEF Same, IndInv, Shape
<1>3. CASE step = "status-base"
  <2>1. at = 17 /\ at' = at + 1 /\ mem' = [mem EXCEPT !.passed = @ /\ BaseHolds]
    BY <1>1, <1>3, StatusPlaces DEF CheckBase, Judge, StatusSteps, Remember, Advance
  <2>2. /\ Shaped(mem') /\ mem'.evidence = mem.evidence /\ mem'.seen = mem.seen
        /\ mem'.passed => mem.passed /\ BaseHolds
    BY <1>1, <2>1, Joined
  <2>3. mem.passed => R10Told'
    BY <1>1, <2>1, <2>2, StillValidated DEF PastR10
  <2>4. Validated'
    BY <1>1, <2>1, <2>2, <2>3, BaseTells
       DEF Validated, PastR10, PastBase, PastDigests, PastReview
  <2>. QED
    BY <1>1, <2>1, <2>2, <2>4, JudgeFrame
<1>4. CASE step # "status-base" /\ ~Refuse
  <2>1. (at = 29 \/ at = 39) /\ at' = at + 1 /\ mem' = mem /\ BaseHolds
    BY <1>1, <1>4, ExportPlaces, PackagePlaces
       DEF CheckBase, Judge, StatusSteps, Remember, Advance
  <2>2. R10Told'
    BY <1>1, <2>1, StillValidated DEF PastR10
  <2>3. Validated'
    BY <1>1, <2>1, <2>2, BaseTells
       DEF Validated, PastR10, PastBase, PastDigests, PastReview
  <2>. QED
    BY <1>1, <2>1, <2>3, JudgeFrame
<1>. QED
  BY <1>2, <1>3, <1>4

LEMMA CheckReviewR10Step ==
    ASSUME IndInv,
           NEW step \in { "review-check", "status-review", "export-review", "package-review" },
           CheckReviewR10(step)
    PROVE  IndInv'
<1>. DEFINE noted == [mem EXCEPT !.seen.compile = rec["evidence"].compile.digest,
                                 !.seen.privacy = rec["evidence"].privacy.digest]
            found == IF ReviewR10Holds THEN noted ELSE mem
<1>1. /\ UNCHANGED World /\ UNCHANGED << head, file, rec, out, reviewed, touched >>
      /\ at \in 1 .. 60 /\ Shaped(mem) /\ At(step) /\ Judge(step, ReviewR10Holds, found)
  BY DEF CheckReviewR10, World, IndInv, Shape
<1>2. /\ Shaped(found) /\ found.evidence = mem.evidence /\ found.passed = mem.passed
      /\ ReviewR10Holds =>
            /\ found.seen.compile = rec["evidence"].compile.digest
            /\ found.seen.privacy = rec["evidence"].privacy.digest
  BY <1>1 DEF Shaped, Fields
<1>. HIDE DEF found
<1>3. CASE Refuse
  BY <1>1, <1>3, RefuseFrame DEF Same, IndInv, Shape
<1>4. ASSUME ReviewR10Holds, mem'.seen = found.seen
      PROVE  DigestsTold' /\ DigestsSeen'
  BY <1>1, <1>2, <1>4, DigestsTell, DigestsReviewed DEF DigestsSeen, IndInv
<1>5. CASE step = "review-check" /\ ~Refuse
  <2>1. at' = at + 1 /\ mem' = found /\ step \in Plain
    BY <1>1, <1>5 DEF Judge, StatusSteps, Remember, Advance, Plain
  <2>. QED
    BY <1>1, <1>2, <2>1, PlainFrame, HonestKept DEF Same, IndInv, Shape
<1>6. CASE step = "status-review"
  <2>1. at = 18 /\ at' = at + 1 /\ mem' = [found EXCEPT !.passed = @ /\ ReviewR10Holds]
    BY <1>1, <1>6, StatusPlaces DEF Judge, StatusSteps, Remember, Advance
  <2>2. /\ Shaped(mem') /\ mem'.evidence = mem.evidence /\ mem'.seen = found.seen
        /\ mem'.passed => mem.passed /\ ReviewR10Holds
    BY <1>1, <1>2, <2>1, Joined
  <2>3. mem.passed => R10Told' /\ BaseTold'
    BY <1>1, <2>1, SettledKept, ToldKept DEF PastR10, PastBase, IndInv, Validated
  <2>4. Validated'
    BY <1>4, <2>1, <2>2, <2>3 DEF Validated, PastR10, PastBase, PastDigests, PastReview
  <2>. QED
    BY <1>1, <2>1, <2>2, <2>4, JudgeFrame
<1>7. CASE step \in { "export-review", "package-review" } /\ ~Refuse
  <2>1. (at = 30 \/ at = 40) /\ at' = at + 1 /\ mem' = found /\ ReviewR10Holds
    BY <1>1, <1>7, ExportPlaces, PackagePlaces DEF Judge, StatusSteps, Remember, Advance
  <2>2. R10Told' /\ BaseTold'
    BY <1>1, <2>1, SettledKept, ToldKept DEF PastR10, PastBase, IndInv, Validated
  <2>3. Validated'
    BY <1>4, <2>1, <2>2 DEF Validated, PastR10, PastBase, PastDigests, PastReview
  <2>. QED
    BY <1>1, <1>2, <2>1, <2>3, JudgeFrame
<1>. QED
  BY <1>3, <1>5, <1>6, <1>7

LEMMA CheckReviewStep ==
    ASSUME IndInv,
           NEW step \in { "review-base", "status-review-base", "export-review-base",
                          "package-review-base" },
           CheckReview(step)
    PROVE  IndInv'
<1>. DEFINE found == IF ReviewHolds
                     THEN [mem EXCEPT !.seen.basis = ReleaseBasis(rec["evidence"])]
                     ELSE mem
<1>1. /\ UNCHANGED World /\ UNCHANGED << head, file, rec, out, reviewed, touched >>
      /\ at \in 1 .. 60 /\ Shaped(mem) /\ At(step) /\ Judge(step, ReviewHolds, found)
  BY DEF CheckReview, World, IndInv, Shape
<1>2. /\ Shaped(found) /\ found.evidence = mem.evidence /\ found.passed = mem.passed
      /\ found.seen.compile = mem.seen.compile /\ found.seen.privacy = mem.seen.privacy
      /\ ReviewHolds => found.seen.basis = ReleaseBasis(rec["evidence"])
  BY <1>1 DEF Shaped, Fields
<1>. HIDE DEF found
<1>3. CASE Refuse
  BY <1>1, <1>3, RefuseFrame DEF Same, IndInv, Shape
<1>4. ASSUME PastDigests, ReviewHolds, mem'.seen = found.seen
      PROVE  ReviewTold' /\ BasisSeen' /\ DigestsSeen'
  <2>1. DigestsTold /\ DigestsSeen
    BY <1>4 DEF IndInv, Validated
  <2>2. ReviewTold'
    BY <1>1, <1>4, <2>1, ReviewTells DEF IndInv
  <2>3. BasisSeen' /\ DigestsSeen'
    BY <1>1, <1>2, <1>4, <2>1, BasisReviewed DEF BasisSeen, DigestsSeen, IndInv
  <2>. QED
    BY <2>2, <2>3
<1>5. CASE step = "review-base" /\ ~Refuse
  <2>1. at' = at + 1 /\ mem' = found /\ step \in Plain
    BY <1>1, <1>5 DEF Judge, StatusSteps, Remember, Advance, Plain
  <2>. QED
    BY <1>1, <1>2, <2>1, PlainFrame, HonestKept DEF Same, IndInv, Shape
<1>6. CASE step = "status-review-base"
  <2>1. at = 19 /\ at' = at + 1 /\ mem' = [found EXCEPT !.passed = @ /\ ReviewHolds]
    BY <1>1, <1>6, StatusPlaces DEF Judge, StatusSteps, Remember, Advance
  <2>2. /\ Shaped(mem') /\ mem'.evidence = mem.evidence /\ mem'.seen = found.seen
        /\ mem'.passed => mem.passed /\ ReviewHolds
    BY <1>1, <1>2, <2>1, Joined
  <2>3. mem.passed => R10Told' /\ BaseTold' /\ DigestsTold' /\ PastDigests
    BY <1>1, <2>1, SettledKept, ToldKept
       DEF PastR10, PastBase, PastDigests, IndInv, Validated
  <2>4. Validated'
    BY <1>4, <2>1, <2>2, <2>3 DEF Validated, PastR10, PastBase, PastDigests, PastReview
  <2>. QED
    BY <1>1, <2>1, <2>2, <2>4, JudgeFrame
<1>7. CASE step \in { "export-review-base", "package-review-base" } /\ ~Refuse
  <2>1. (at = 31 \/ at = 41) /\ at' = at + 1 /\ mem' = found /\ ReviewHolds
    BY <1>1, <1>7, ExportPlaces, PackagePlaces DEF Judge, StatusSteps, Remember, Advance
  <2>2. R10Told' /\ BaseTold' /\ DigestsTold' /\ PastDigests
    BY <1>1, <2>1, SettledKept, ToldKept
       DEF PastR10, PastBase, PastDigests, IndInv, Validated
  <2>3. Validated'
    BY <1>4, <2>1, <2>2 DEF Validated, PastR10, PastBase, PastDigests, PastReview
  <2>. QED
    BY <1>1, <1>2, <2>1, <2>3, JudgeFrame
<1>. QED
  BY <1>3, <1>5, <1>6, <1>7
-----------------------------------------------------------------------------
(* The status builder and the exporter begin with a fresh memory and the      *)
(* evidence on file.                                                       *)
LEMMA FirstReadStep ==
    ASSUME IndInv, StatusRead \/ ExportRead
    PROVE  IndInv'
<1>1. /\ UNCHANGED << head, file, rec, out, reviewed >> /\ touched' = {}
      /\ at \in 1 .. 60
  BY DEF StatusRead, ExportRead, Start, IndInv, Shape
<1>2. CASE Refuse
  BY <1>1, <1>2, RefuseFrame DEF Same, IndInv, Shape
<1>3. CASE ~Refuse
  <2>1. (at' = 16 \/ at' = 28) /\ Shaped(mem') /\ mem'.evidence = rec["evidence"]
    <3>1. CASE StatusRead
      <4>1. /\ at' = 16
            /\ mem' = [Blank EXCEPT !.evidence = rec["evidence"], !.static = rec["static"],
                                    !.passed = ReadyForValidators(rec["evidence"])]
        BY <1>1, <1>3, <3>1, StatusPlaces DEF StatusRead, Remember, Advance
      <4>. QED
        BY <4>1 DEF Shaped, Fields, Blank, Unseen
    <3>2. CASE ExportRead
      <4>1. at' = 28 /\ mem' = [Blank EXCEPT !.evidence = rec["evidence"]]
        BY <1>1, <1>3, <3>2, ExportPlaces DEF ExportRead, Remember, Advance
      <4>. QED
        BY <4>1 DEF Shaped, Fields, Blank, Unseen
    <3>. QED
      BY <3>1, <3>2
  <2>2. Validated' /\ Held' /\ Exporting' /\ Packaging'
    BY <1>1, <2>1 DEF Validated, PastR10, PastBase, PastDigests, PastReview, Held,
                      Exporting, Packaging
  <2>3. Honest' /\ Shown'
    BY <1>1, HonestKept, ShownKept DEF IndInv, Same
  <2>. QED
    BY <1>1, <2>1, <2>2, <2>3 DEF IndInv, Shape, Shaped
<1>. QED
  BY <1>2, <1>3

(* A status built from anything is one its validator accepts, and it is GO    *)
(* only on the word of all validators.                                      *)
LEMMA StatusValid ==
    ASSUME NEW e, NEW s, NEW passed
    PROVE  /\ ValidStatus(StatusOf(e, s, passed))
           /\ StatusOf(e, s, passed).overall = "GO" => passed
BY DEF ValidStatus, StatusOf, CodeReadiness, ReadyForValidators, Decision

LEMMA StatusWriteStep ==
    ASSUME IndInv, StatusWrite
    PROVE  IndInv'
<1>. DEFINE s == [result |-> StatusOf(mem.evidence, mem.static, mem.passed),
                  seen |-> mem.seen]
<1>1. /\ At("status-write") /\ at = 20 /\ UNCHANGED << head, file, rec, reviewed, touched >>
      /\ mem' = Blank /\ at' = at + 1 /\ out' = [out EXCEPT !["status"] = s]
  BY StatusPlaces DEF StatusWrite, Put, Finish, Advance, IndInv, Shape
<1>2. GoodStatus(s)
  <2>1. s.result.overall = "GO" => mem.passed
    BY StatusValid
  <2>2. mem.passed => Reviewed(mem.seen)
    BY <1>1 DEF IndInv, Validated, PastDigests, PastReview, DigestsSeen, BasisSeen, Reviewed
  <2>. QED
    BY <2>1, <2>2, StatusValid DEF GoodStatus
<1>3. /\ out'["status"] = s /\ out'["preset"] = out["preset"]
      /\ out'["package"] = out["package"] /\ DOMAIN out' = Outputs
  BY <1>1 DEF IndInv, Shape, Outputs
<1>. HIDE DEF s
<1>4. Shown'
  BY <1>1, <1>2, <1>3 DEF Shown, GoodStatus, Announced, Reviewed, IndInv
<1>5. Shape' /\ Honest'
  BY <1>1, <1>3, BlankFields, HonestKept DEF Shape, Shaped, IndInv
<1>6. Validated' /\ Held' /\ Exporting' /\ Packaging'
  BY <1>1 DEF Validated, PastR10, PastBase, PastDigests, PastReview, Held, Exporting,
              Packaging
<1>. QED
  BY <1>4, <1>5, <1>6 DEF IndInv
-----------------------------------------------------------------------------
(* A step at which nothing is said of the next, in the tools without claims.  *)
LEMMA AsideFrame ==
    ASSUME IndInv, NEW step \in Plain, At(step), UNCHANGED << file, rec, reviewed >>,
           \/ out' = out
           \/ \E o \in { "dashboard", "pack", "rollback" } : \E value : Put(o, value),
           Shaped(mem'), at' \in { at + 1, 1 }
    PROVE  IndInv'
<1>1. ASSUME NEW o \in { "dashboard", "pack", "rollback" }, NEW value, Put(o, value)
      PROVE  DOMAIN out' = Outputs /\ Same("status") /\ Same("preset") /\ Same("package")
  BY <1>1 DEF Put, Same, IndInv, Shape, Outputs
<1>2. DOMAIN out' = Outputs /\ Same("status") /\ Same("preset") /\ Same("package")
  BY <1>1 DEF Same, IndInv, Shape
<1>3. Honest'
  BY HonestKept DEF IndInv
<1>. QED
  BY <1>2, <1>3, PlainFrame DEF IndInv, Shape

(* The status validator, the dashboard the operator makes and its drift check, *)
(* the evidence pack and the rollback package.                              *)
LEMMA DashboardStep ==
    ASSUME IndInv,
           StatusCheck \/ DrawPage("dashboard-page") \/ PrintPage("dashboard-print")
             \/ RequirePass("dashboard-pass") \/ ReadForDrift("drift-read")
             \/ CheckDrift("drift-check")
    PROVE  IndInv'
<1>1. Shaped(mem)
  BY DEF IndInv, Shape
<1>2. /\ UNCHANGED << file, rec, reviewed >>
      /\ out' = out \/ \E value : Put("dashboard", value)
      /\ \E step \in Plain : At(step)
  BY DEF StatusCheck, DrawPage, PrintPage, RequirePass, ReadForDrift, CheckDrift, Plain
<1>3. at' \in { at + 1, 1 }
  BY DEF StatusCheck, DrawPage, PrintPage, RequirePass, ReadForDrift, CheckDrift,
         Verdict, Remember, Advance, Refuse
<1>4. Shaped(mem')
  <2>1. CASE mem' = Blank \/ mem' = mem
    BY <1>1, <2>1, BlankFields
  <2>2. CASE mem' # Blank /\ mem' # mem
    BY <1>1, <2>2 DEF StatusCheck, DrawPage, PrintPage, RequirePass, ReadForDrift,
         CheckDrift, Verdict, Remember, Refuse, Shaped, Fields
  <2>. QED
    BY <2>1, <2>2
<1>. QED
  BY <1>2, <1>3, <1>4, AsideFrame

LEMMA ArchiveStep ==
    ASSUME IndInv, Archive
    PROVE  IndInv'
<1>1. Shaped(mem)
  BY DEF IndInv, Shape
<1>2. /\ UNCHANGED << file, rec, reviewed >>
      /\ out' = out \/ \E o \in { "pack", "rollback" } : \E value : Put(o, value)
      /\ \E step \in Plain : At(step)
  BY DEF Archive, PackScan, PackCopy, PackIndex, RollbackRead, RollbackHash, RollbackZip,
         RollbackCheck, Plain
<1>3. at' \in { at + 1, 1 }
  BY DEF Archive, PackScan, PackCopy, PackIndex, RollbackRead, RollbackHash, RollbackZip,
         RollbackCheck, Verdict, Remember, Finish, Advance, Refuse
<1>4. Shaped(mem')
  <2>1. CASE mem' = Blank \/ mem' = mem
    BY <1>1, <2>1, BlankFields
  <2>2. CASE mem' # Blank /\ mem' # mem
    <3>1. \/ \E names, passed : mem' = [mem EXCEPT !.names = names, !.passed = passed]
          \/ \E names : mem' = [Blank EXCEPT !.names = names]
          \/ \E hashes : mem' = [mem EXCEPT !.hashes = hashes]
      BY <2>2 DEF Archive, PackScan, PackCopy, PackIndex, RollbackRead, RollbackHash,
         RollbackZip, RollbackCheck, Verdict, Remember, Finish, Refuse
    <3>. QED
      BY <1>1, <3>1 DEF Shaped, Fields, Blank, Unseen
  <2>. QED
    BY <2>1, <2>2
<1>. QED
  BY <1>2, <1>3, <1>4, AsideFrame
-----------------------------------------------------------------------------
(* Between two steps of exporter or packager behind the validators.           *)
LEMMA BehindFrame ==
    ASSUME IndInv, UNCHANGED World, mem'.seen = mem.seen,
           at \in 32 .. 36 \cup 42 .. 49, at' = at + 1
    PROVE  Validated'
BY SettledKept, ToldKept
   DEF IndInv, Validated, PastR10, PastBase, PastDigests, PastReview, DigestsSeen,
       BasisSeen, World

(* The exporter up to the preset: each step adds one claim.                  *)
LEMMA ExportStep ==
    ASSUME IndInv, ExportConsent \/ ExportLoad \/ ExportHead \/ ExportHash
    PROVE  IndInv'
<1>1. /\ UNCHANGED World /\ UNCHANGED << head, file, rec, out, reviewed, touched >>
      /\ at \in 1 .. 60 /\ Shaped(mem)
  BY DEF ExportConsent, ExportLoad, ExportHead, ExportHash, World, IndInv, Shape
<1>2. CASE Refuse
  BY <1>1, <1>2, RefuseFrame DEF Same, IndInv, Shape
<1>3. ASSUME at \in 32 .. 35, at' = at + 1, Shaped(mem'),
             mem'.seen = mem.seen, mem'.evidence = mem.evidence, Exporting'
      PROVE  IndInv'
  <2>1. Validated'
    BY <1>1, <1>3, BehindFrame
  <2>2. Held' /\ Packaging'
    BY <1>1, <1>3 DEF Held, Packaging, IndInv, Untouched
  <2>. QED
    BY <1>1, <1>3, <2>1, <2>2, ReadFrame
<1>4. CASE ExportConsent /\ ~Refuse
  <2>1. at = 32 /\ at' = at + 1 /\ mem' = mem /\ rec["risk"].accepted
    BY <1>1, <1>4, ExportPlaces DEF ExportConsent, Verdict, Advance, ValidRisk
  <2>2. Exporting'
    BY <1>1, <2>1 DEF Exporting, AcceptedTold
  <2>. QED
    BY <1>1, <1>3, <2>1, <2>2
<1>5. CASE ExportLoad /\ ~Refuse
  <2>1. /\ at = 33 /\ at' = at + 1
        /\ mem' = [mem EXCEPT !.privacy = rec["privacy"], !.risk = rec["risk"]]
    BY <1>1, <1>5, ExportPlaces DEF ExportLoad, Remember, Advance
  <2>2. /\ Shaped(mem') /\ mem'.seen = mem.seen /\ mem'.evidence = mem.evidence
        /\ mem'.privacy = rec["privacy"] /\ mem'.risk = rec["risk"]
    BY <1>1, <2>1 DEF Shaped, Fields
  <2>3. Exporting'
    BY <1>1, <2>1, <2>2 DEF Exporting, AcceptedTold, LoadedTold, IndInv, Untouched
  <2>. QED
    BY <1>1, <1>3, <2>1, <2>2, <2>3
<1>6. CASE ExportHead /\ ~Refuse
  <2>1. /\ at = 34 /\ at' = at + 1 /\ mem' = mem
        /\ mem.risk.jurisdiction = mem.privacy.jurisdiction
    BY <1>1, <1>6, ExportPlaces DEF ExportHead, Verdict, Advance, Fit
  <2>2. Exporting'
    BY <1>1, <2>1 DEF Exporting, AcceptedTold, LoadedTold, IndInv, Untouched
  <2>. QED
    BY <1>1, <1>3, <2>1, <2>2
<1>7. CASE ExportHash /\ ~Refuse
  <2>1. at = 35 /\ at' = at + 1 /\ mem' = mem /\ SetMatches(mem.evidence.set)
    BY <1>1, <1>7, ExportPlaces DEF ExportHash, Verdict, Advance
  <2>2. Exporting'
    BY <1>1, <2>1 DEF Exporting, AcceptedTold, LoadedTold, SetTold, SetMatches, Matches,
                      IndInv, Untouched
  <2>. QED
    BY <1>1, <1>3, <2>1, <2>2
<1>. QED
  BY <1>2, <1>4, <1>5, <1>6, <1>7

(* The lines come from evidence and records that were compared, the trading   *)
(* parameters from the SET as it is read now.                                *)
LEMMA ExportWriteStep ==
    ASSUME IndInv, ExportWrite
    PROVE  IndInv'
<1>. DEFINE e == mem.evidence
            p == mem.privacy
            r == mem.risk
            lines == Overlay(BaseLines(e), Inputs(e, p, r))
            preset == [lines |-> lines, manifest |-> {}, seen |-> mem.seen]
<1>1. /\ at = 36 /\ UNCHANGED World /\ UNCHANGED << head, file, rec, reviewed, touched >>
      /\ Shaped(mem)
  BY ExportPlaces DEF ExportWrite, World, IndInv, Shape
<1>2. CASE out' = out /\ Refuse
  BY <1>1, <1>2, RefuseFrame DEF Same, IndInv, Shape
<1>3. CASE out' = [out EXCEPT !["preset"] = preset] /\ at' = at + 1 /\ mem' = mem
  <2>1. /\ out'["preset"] = preset /\ out'["status"] = out["status"]
        /\ out'["package"] = out["package"] /\ DOMAIN out' = Outputs
    BY <1>3 DEF IndInv, Shape, Outputs
  <2>2. Reviewed(mem.seen)
    BY <1>1 DEF IndInv, Validated, PastDigests, PastReview, DigestsSeen, BasisSeen, Reviewed
  <2>3. lines.InpReleaseSourceCommitSha = e.sha /\ lines.InpReleaseSetSha256 = e.set
    BY DEF Overlay, Inputs
  <2>4. e.set # NoSet => lines.trading = file["set"]
    BY DEF Overlay, Inputs, BaseLines
  <2>5. Permitted(lines)
    <3>1. AcceptedTold /\ LoadedTold /\ r.jurisdiction = p.jurisdiction /\ SetTold
      BY <1>1 DEF IndInv, Exporting
    <3>. HIDE DEF lines
    <3>2. Untouched({ "privacy", "risk" }) =>
            rec["risk"].jurisdiction = rec["privacy"].jurisdiction
      BY <3>1, LeftAlone DEF LoadedTold
    <3>. QED
      BY <2>3, <2>4, <3>1, <3>2 DEF Permitted, AcceptedTold, SetTold
  <2>6. Untouched({ "evidence" }) => e = rec["evidence"]
    BY <1>1 DEF IndInv, Held
  <2>. HIDE DEF lines
  <2>7. PresetTold(preset)
    BY <2>2, <2>3, <2>5, <2>6 DEF PresetTold
  <2>. HIDE DEF preset
  <2>8. PresetTold(out["preset"])'
    BY <1>1, <2>1, <2>7 DEF PresetTold, Permitted, Untouched, Reviewed
  <2>9. Validated'
    BY <1>1, <1>3, BehindFrame
  <2>10. Held' /\ Exporting' /\ Packaging'
    BY <1>1, <1>3, <2>8 DEF Held, Exporting, Packaging
  <2>11. Shown'
    BY <1>1, <2>1, <2>7 DEF Shown, GoodStatus, Announced, Reviewed, PresetTold, IndInv
  <2>12. Shape' /\ Honest'
    BY <1>1, <1>3, <2>1, HonestKept DEF Shape, Shaped, IndInv
  <2>. QED
    BY <2>9, <2>10, <2>11, <2>12 DEF IndInv
<1>. QED
  BY <1>2, <1>3 DEF ExportWrite, Put, Advance

(* The manifest adds to the preset, and changes no line of it.               *)
LEMMA ExportManifestStep ==
    ASSUME IndInv, ExportManifest
    PROVE  IndInv'
<1>1. /\ at = 37 /\ At("export-manifest") /\ UNCHANGED << head, file, rec, reviewed, touched >>
  BY ExportPlaces DEF ExportManifest, IndInv, Shape
<1>2. CASE out' = out /\ Refuse
  BY <1>1, <1>2, RefuseFrame DEF Same, IndInv, Shape
<1>3. ASSUME NEW listed, Put("preset", [out["preset"] EXCEPT !.manifest = listed]),
             Finish(TRUE)
      PROVE  IndInv'
  <2>1. PresetTold(out["preset"])
    BY <1>1 DEF IndInv, Exporting
  <2>2. /\ out'["preset"].seen = out["preset"].seen /\ out'["status"] = out["status"]
        /\ out'["package"] = out["package"] /\ DOMAIN out' = Outputs
    BY <1>3, <2>1 DEF Put, IndInv, Shape, Outputs, PresetTold
  <2>3. Shown'
    BY <1>1, <2>1, <2>2 DEF Shown, GoodStatus, Announced, Reviewed, PresetTold, IndInv
  <2>4. at' = 38 /\ mem' = Blank
    BY <1>1, <1>3 DEF Finish, Advance
  <2>5. Validated' /\ Held' /\ Exporting' /\ Packaging'
    BY <2>4 DEF Validated, PastR10, PastBase, PastDigests, PastReview, Held, Exporting,
                Packaging
  <2>6. Shape' /\ Honest'
    BY <1>1, <2>2, <2>4, BlankFields, HonestKept DEF Shape, Shaped, IndInv
  <2>. QED
    BY <2>3, <2>5, <2>6 DEF IndInv
<1>. QED
  BY <1>2, <1>3 DEF ExportManifest
-----------------------------------------------------------------------------
(* Where HEAD is the candidate, sound evidence and a PASS are the same.       *)
LEMMA OverallSound ==
    ASSUME NEW e
    PROVE  /\ Overall(e) = "PASS" => Sound(e) /\ head = e.sha
           /\ Sound(e) => Overall(e) # "HOLD"
           /\ Sound(e) /\ head = e.sha => Overall(e) = "PASS"
<1>1. DOMAIN Rows(e) = { "source", "sections", "compile", "privacy", "security", "final" }
  BY DEF Rows
<1>2. /\ Rows(e)["source"] = "NO-GO" <=> head # e.sha
      /\ Rows(e)["sections"] = "NO-GO" <=> e.sections = "failed"
      /\ Rows(e)["compile"] # "NO-GO" /\ Rows(e)["privacy"] # "NO-GO"
      /\ Rows(e)["security"] # "NO-GO"
      /\ Rows(e)["final"] = "NO-GO" <=> e.final.decision = "NO-GO"
  BY DEF Rows, Pass
<1>3. (\E row \in DOMAIN Rows(e) : Rows(e)[row] = "NO-GO")
        <=> head # e.sha \/ e.sections = "failed" \/ e.final.decision = "NO-GO"
  BY <1>1, <1>2
<1>. QED
  BY <1>3 DEF Overall, Pass, Sound

(* The packager starts with the R10 validator.                               *)
LEMMA PackageR10Step ==
    ASSUME IndInv, PackageR10
    PROVE  IndInv'
<1>1. /\ UNCHANGED << head, file, rec, out, reviewed >> /\ at = 38 /\ Shaped(mem)
  BY PackagePlaces DEF PackageR10, IndInv, Shape
<1>2. CASE Refuse
  BY <1>1, <1>2, RefuseFrame DEF Same, IndInv, Shape
<1>3. CASE ~Refuse
  <2>1. at' = 39 /\ mem' = mem /\ R10Holds
    BY <1>1, <1>3 DEF PackageR10, Verdict, Advance
  <2>2. R10Told'
    BY <1>1, <2>1, R10Tells
  <2>3. Validated' /\ Held' /\ Exporting' /\ Packaging'
    BY <2>1, <2>2 DEF Validated, PastR10, PastBase, PastDigests, PastReview, Held,
                      Exporting, Packaging
  <2>4. Honest' /\ Shown'
    BY <1>1, HonestKept, ShownKept DEF IndInv, Same
  <2>. QED
    BY <1>1, <2>1, <2>3, <2>4 DEF IndInv, Shape, Shaped
<1>. QED
  BY <1>2, <1>3

(* The packager between the validators and the copy.                         *)
LEMMA PackageFrame ==
    ASSUME IndInv, UNCHANGED World, UNCHANGED out, Shaped(mem'), mem'.seen = mem.seen,
           at \in 42 .. 48, at' = at + 1, Packaging',
           mem'.evidence \in { mem.evidence, rec["evidence"] },
           at = 42 => mem'.evidence = rec["evidence"]
    PROVE  IndInv'
<1>1. Validated'
  BY BehindFrame
<1>2. Held'
  BY DEF Held, IndInv, World, Untouched
<1>3. Exporting'
  BY DEF Exporting
<1>. QED
  BY <1>1, <1>2, <1>3, ReadFrame

(* What a step that only reads leaves true of page and files.                *)
LEMMA PictureKept ==
    ASSUME UNCHANGED World, mem'.page = mem.page
    PROVE  /\ Judged(mem.page) => Judged(mem.page)'
           /\ PageTold(mem.page) => PageTold(mem.page)'
           /\ mem'.evidence = mem.evidence =>
                /\ Drawn(mem.page, mem.evidence) => Drawn(mem.page, mem.evidence)'
                /\ NamedTold(mem.evidence, file) => NamedTold(mem.evidence, file)'
BY DEF Judged, PageTold, Drawn, Sound, NamedTold, World, Untouched

(* The dashboard of the package: the page, its fingerprint, the verdict, ...  *)
LEMMA PackageDashboardStep ==
    ASSUME IndInv,
           DrawPage("package-page") \/ PrintPage("package-print")
             \/ RequirePass("package-pass")
    PROVE  IndInv'
<1>1. /\ UNCHANGED World /\ UNCHANGED << head, file, rec, out, reviewed, touched >>
      /\ at \in 1 .. 60 /\ Shaped(mem)
  BY DEF DrawPage, PrintPage, RequirePass, World, IndInv, Shape
<1>2. CASE Refuse
  BY <1>1, <1>2, RefuseFrame DEF Same, IndInv, Shape
<1>3. CASE DrawPage("package-page") /\ ~Refuse
  <2>1. /\ at = 42 /\ at' = at + 1
        /\ mem' = [mem EXCEPT !.evidence = rec["evidence"], !.page = PageOf(rec["evidence"])]
    BY <1>1, <1>3, PackagePlaces DEF DrawPage, Remember, Advance
  <2>2. /\ Shaped(mem') /\ mem'.seen = mem.seen /\ mem'.evidence = rec["evidence"]
        /\ mem'.page = PageOf(rec["evidence"])
    BY <1>1, <2>1 DEF Shaped, Fields
  <2>3. /\ DOMAIN mem'.page = { "evidence", "overall", "fingerprint" }
        /\ mem'.page.evidence = Sha(rec["evidence"])
        /\ mem'.page.overall = Overall(rec["evidence"])
    BY <2>2 DEF PageOf
  <2>4. Drawn(mem.page, mem.evidence)' /\ PageTold(mem.page)'
    <3>1. /\ Sound(rec["evidence"]) => mem'.page.overall # "HOLD"
          /\ Sound(rec["evidence"]) /\ head = rec["evidence"].sha
                => mem'.page.overall = "PASS"
      BY <2>3, OverallSound
    <3>. QED
      BY <1>1, <2>2, <2>3, <3>1 DEF Drawn, PageTold, Sound
  <2>5. Packaging'
    BY <2>1, <2>4 DEF Packaging
  <2>. QED
    BY <1>1, <2>1, <2>2, <2>5, PackageFrame
<1>4. CASE PrintPage("package-print")
  <2>1. /\ at = 43 /\ at' = at + 1
        /\ mem' = [mem EXCEPT
                     !.page = [mem.page EXCEPT !.fingerprint = Fingerprint(mem.evidence)]]
    BY <1>1, <1>4, PackagePlaces DEF PrintPage, Remember, Advance
  <2>2. /\ Shaped(mem') /\ mem'.seen = mem.seen /\ mem'.evidence = mem.evidence
        /\ mem'.page = [mem.page EXCEPT !.fingerprint = Fingerprint(mem.evidence)]
    BY <1>1, <2>1 DEF Shaped, Fields
  <2>3. Drawn(mem.page, mem.evidence) /\ PageTold(mem.page)
    BY <2>1 DEF IndInv, Packaging
  <2>4. /\ DOMAIN mem'.page = DOMAIN mem.page /\ mem'.page.evidence = mem.page.evidence
        /\ mem'.page.overall = mem.page.overall
    BY <2>2, <2>3 DEF Drawn
  <2>5. Drawn(mem.page, mem.evidence)' /\ PageTold(mem.page)'
    BY <1>1, <2>2, <2>3, <2>4 DEF Drawn, PageTold, Sound, Untouched
  <2>6. Packaging'
    BY <2>1, <2>5 DEF Packaging
  <2>. QED
    BY <1>1, <2>1, <2>2, <2>6, PackageFrame
<1>5. CASE RequirePass("package-pass") /\ ~Refuse
  <2>1. at = 44 /\ at' = at + 1 /\ mem' = mem /\ Overall(mem.evidence) = "PASS"
    BY <1>1, <1>5, PackagePlaces DEF RequirePass, Verdict, Advance
  <2>2. Sound(mem.evidence) /\ head = mem.evidence.sha
    BY <2>1, OverallSound
  <2>3. Judged(mem.page) /\ PageTold(mem.page)
    BY <2>1, <2>2 DEF IndInv, Packaging, Drawn, Judged
  <2>4. Packaging'
    BY <1>1, <2>1, <2>3, PictureKept DEF Packaging
  <2>. QED
    BY <1>1, <2>1, <2>4, PackageFrame
<1>. QED
  BY <1>2, <1>3, <1>4, <1>5

(* ... and the drift check, which reads the evidence again.                  *)
LEMMA PackageDriftStep ==
    ASSUME IndInv, ReadForDrift("package-drift-read") \/ CheckDrift("package-drift")
    PROVE  IndInv'
<1>1. /\ UNCHANGED World /\ UNCHANGED << head, file, rec, out, reviewed, touched >>
      /\ at \in 1 .. 60 /\ Shaped(mem)
  BY DEF ReadForDrift, CheckDrift, World, IndInv, Shape
<1>2. CASE Refuse
  BY <1>1, <1>2, RefuseFrame DEF Same, IndInv, Shape
<1>3. CASE ReadForDrift("package-drift-read") /\ ~Refuse
  <2>1. /\ at = 45 /\ at' = at + 1
        /\ mem' = [mem EXCEPT !.evidence = rec["evidence"], !.page = mem.page,
                              !.drift = Fingerprint(rec["evidence"])]
    BY <1>1, <1>3, PackagePlaces DEF ReadForDrift, Remember, Advance
  <2>2. /\ Shaped(mem') /\ mem'.seen = mem.seen /\ mem'.evidence = rec["evidence"]
        /\ mem'.page = mem.page
    BY <1>1, <2>1 DEF Shaped, Fields
  <2>3. Packaging'
    BY <1>1, <2>1, <2>2, PictureKept DEF Packaging, IndInv
  <2>. QED
    BY <1>1, <2>1, <2>2, <2>3, PackageFrame
<1>4. CASE CheckDrift("package-drift") /\ ~Refuse
  <2>1. /\ at = 46 /\ at' = at + 1 /\ mem' = [mem EXCEPT !.drift = Sha(mem.evidence)]
        /\ NoDrift(mem.page, mem.evidence, mem.drift)
    BY <1>1, <1>4, PackagePlaces DEF CheckDrift, Advance
  <2>2. /\ Shaped(mem') /\ mem'.seen = mem.seen /\ mem'.evidence = mem.evidence
        /\ mem'.page = mem.page /\ mem'.drift = Sha(mem.evidence)
    BY <1>1, <2>1 DEF Shaped, Fields
  <2>3. mem.page.evidence = Sha(mem.evidence)
    BY <2>1 DEF NoDrift
  <2>4. Packaging'
    BY <1>1, <2>1, <2>2, <2>3, PictureKept DEF Packaging, IndInv
  <2>. QED
    BY <1>1, <2>1, <2>2, <2>4, PackageFrame
<1>. QED
  BY <1>2, <1>3, <1>4

(* The check of the files adds the evidence of the manifest; the scan nothing. *)
LEMMA PackageCheckStep ==
    ASSUME IndInv, PackageCheck \/ PackageScan
    PROVE  IndInv'
<1>1. /\ UNCHANGED World /\ UNCHANGED << head, file, rec, out, reviewed, touched >>
      /\ at \in 1 .. 60 /\ Shaped(mem)
  BY DEF PackageCheck, PackageScan, World, IndInv, Shape
<1>2. CASE Refuse
  BY <1>1, <1>2, RefuseFrame DEF Same, IndInv, Shape
<1>3. CASE PackageCheck /\ ~Refuse
  <2>1. /\ at = 47 /\ at' = at + 1 /\ mem' = [mem EXCEPT !.evidence = rec["evidence"]]
        /\ ShipsNamedFiles(rec["evidence"])
    BY <1>1, <1>3, PackagePlaces DEF PackageCheck, Remember, Advance
  <2>2. /\ Shaped(mem') /\ mem'.seen = mem.seen /\ mem'.evidence = rec["evidence"]
        /\ mem'.page = mem.page /\ mem'.drift = mem.drift
    BY <1>1, <2>1 DEF Shaped, Fields
  <2>3. NamedTold(mem.evidence, file)'
    BY <1>1, <2>1, <2>2 DEF NamedTold, ShipsNamedFiles, Matches
  <2>4. Packaging'
    BY <1>1, <2>1, <2>2, <2>3, PictureKept DEF Packaging, IndInv
  <2>. QED
    BY <1>1, <2>1, <2>2, <2>4, PackageFrame
<1>4. CASE PackageScan /\ ~Refuse
  <2>1. at = 48 /\ at' = at + 1 /\ mem' = mem
    BY <1>1, <1>4, PackagePlaces DEF PackageScan, Verdict, Advance
  <2>2. Packaging'
    BY <1>1, <2>1, PictureKept DEF Packaging, IndInv
  <2>. QED
    BY <1>1, <2>1, <2>2, PackageFrame
<1>. QED
  BY <1>2, <1>3, <1>4

(* The directory gets what the packager knows, and the files as they are now.  *)
LEMMA PackageCopyStep ==
    ASSUME IndInv, PackageCopy
    PROVE  IndInv'
<1>. DEFINE files == [f \in { g \in Enclosed : There(g) } |-> file[f]]
            package == [files |-> files, page |-> mem.page, drift |-> mem.drift,
                        evidence |-> mem.evidence, seen |-> mem.seen, index |-> {},
                        announced |-> FALSE]
<1>1. /\ at = 49 /\ UNCHANGED World /\ UNCHANGED << head, file, rec, reviewed, touched >>
      /\ Shaped(mem) /\ out' = [out EXCEPT !["package"] = package]
  BY PackagePlaces DEF PackageCopy, Put, World, IndInv, Shape
<1>2. /\ out'["package"] = package /\ out'["status"] = out["status"]
      /\ out'["preset"] = out["preset"] /\ DOMAIN out' = Outputs
  BY <1>1 DEF IndInv, Shape, Outputs
<1>3. Shown'
  <2>1. package.announced = FALSE
    OBVIOUS
  <2>. HIDE DEF package
  <2>. QED
    BY <1>1, <1>2, <2>1 DEF Shown, GoodStatus, Announced, Reviewed, IndInv
<1>4. Honest'
  BY <1>1, HonestKept DEF IndInv
<1>5. CASE Refuse
  <2>1. Shape' /\ at' = 1
    BY <1>1, <1>2, <1>5, BlankFields DEF Refuse, Shape, Shaped, IndInv
  <2>2. Validated' /\ Held' /\ Exporting' /\ Packaging'
    BY <2>1 DEF Validated, PastR10, PastBase, PastDigests, PastReview, Held, Exporting,
                Packaging
  <2>. QED
    BY <1>3, <1>4, <2>1, <2>2 DEF IndInv
<1>6. CASE at' = at + 1 /\ mem' = mem /\ \A f \in Enclosed : There(f)
  <2>1. /\ Judged(mem.page) /\ PageTold(mem.page) /\ mem.page.evidence = mem.drift
        /\ NamedTold(mem.evidence, file)
        /\ Untouched({ "evidence" }) => mem.evidence = rec["evidence"]
    BY <1>1 DEF IndInv, Packaging, Held
  <2>2. Reviewed(mem.seen)
    BY <1>1 DEF IndInv, Validated, PastDigests, PastReview, DigestsSeen, BasisSeen, Reviewed
  <2>3. /\ files["handout"] = file["handout"]
        /\ WithSet => files["set"] = file["set"]
    BY <1>6 DEF Enclosed
  <2>. HIDE DEF files
  <2>4. NamedTold(mem.evidence, files)
    BY <2>1, <2>3 DEF NamedTold
  <2>5. PackageTold(package)
    BY <2>1, <2>2, <2>4 DEF PackageTold
  <2>. HIDE DEF package
  <2>6. PackageTold(out["package"])'
    BY <1>1, <1>2, <2>5 DEF PackageTold, NamedTold, Judged, PageTold, Untouched, Reviewed
  <2>7. Validated'
    BY <1>1, <1>6, BehindFrame
  <2>8. Held' /\ Exporting' /\ Packaging'
    BY <1>1, <1>6, <2>6 DEF Held, Exporting, Packaging
  <2>9. Shape'
    BY <1>1, <1>2, <1>6 DEF Shape, Shaped, IndInv
  <2>. QED
    BY <1>3, <1>4, <2>7, <2>8, <2>9 DEF IndInv
<1>. QED
  BY <1>5, <1>6 DEF PackageCopy, Verdict, Advance

(* The index and the announcement change nothing else of the package.         *)
LEMMA PackageIndexStep ==
    ASSUME IndInv, PackageIndex
    PROVE  IndInv'
<1>. DEFINE old == out["package"]
            clean == ScanPasses({ old.files[f] : f \in DOMAIN old.files })
            package == [old EXCEPT !.index = DOMAIN old.files, !.announced = clean]
<1>1. /\ at = 50 /\ UNCHANGED << head, file, rec, reviewed, touched >>
      /\ Put("package", package) /\ Finish(clean)
  BY PackagePlaces DEF PackageIndex, IndInv, Shape
<1>2. Reviewed(old.seen) /\ package.seen = old.seen
  BY <1>1 DEF IndInv, Packaging, PackageTold
<1>. HIDE DEF package, clean
<1>3. /\ out'["package"] = package /\ out'["status"] = out["status"]
      /\ out'["preset"] = out["preset"] /\ DOMAIN out' = Outputs
  BY <1>1 DEF Put, IndInv, Shape, Outputs
<1>4. Shown'
  BY <1>1, <1>2, <1>3 DEF Shown, GoodStatus, Announced, Reviewed, IndInv
<1>5. (at' = 51 \/ at' = 1) /\ mem' = Blank
  BY <1>1 DEF Finish, Advance, Refuse
<1>6. Validated' /\ Held' /\ Exporting' /\ Packaging'
  BY <1>5 DEF Validated, PastR10, PastBase, PastDigests, PastReview, Held, Exporting,
              Packaging
<1>7. Shape' /\ Honest'
  BY <1>1, <1>3, <1>5, BlankFields, HonestKept DEF Shape, Shaped, IndInv
<1>. QED
  BY <1>4, <1>6, <1>7 DEF IndInv
-----------------------------------------------------------------------------
(* Disturbances change what they touch, and never what a review says.         *)
LEMMA ChangeStep ==
    ASSUME IndInv,
           \/ \E commit \in Commits : MoveHead(commit)
           \/ \E f \in Files : ChangeFile(f)
           \/ \E kind \in Papers : ChangePaper(kind)
    PROVE  IndInv'
<1>1. UNCHANGED << out, mem, at, reviewed >> /\ DOMAIN file = Files /\ DOMAIN rec = Papers
  BY DEF MoveHead, ChangeFile, ChangePaper, IndInv, Shape
<1>2. ASSUME NEW commit \in Commits, MoveHead(commit)
      PROVE  Kept /\ DOMAIN file' = Files /\ rec' = rec
  BY <1>1, <1>2 DEF MoveHead, Change, Kept
<1>3. ASSUME NEW f \in Files, ChangeFile(f)
      PROVE  Kept /\ DOMAIN file' = Files /\ rec' = rec
  <2>1. PICK content : file' = [file EXCEPT ![f] = content]
    BY <1>3 DEF ChangeFile
  <2>2. \A g \in Files : g # f => file'[g] = file[g]
    BY <1>1, <2>1
  <2>3. DOMAIN file' = Files
    BY <1>1, <2>1
  <2>. QED
    BY <1>1, <1>3, <2>2, <2>3 DEF ChangeFile, Change, Kept
<1>4. ASSUME NEW kind \in Papers, ChangePaper(kind)
      PROVE  /\ Kept /\ file' = file /\ DOMAIN rec' = Papers
             /\ kind # "review" => rec'["review"] = rec["review"]
  <2>1. PICK record : rec' = [rec EXCEPT ![kind] = record]
    BY <1>4 DEF ChangePaper, Save
  <2>2. \A other \in Papers : other # kind => rec'[other] = rec[other]
    BY <1>1, <2>1
  <2>3. DOMAIN rec' = Papers /\ "review" \in Papers
    BY <1>1, <2>1 DEF Papers
  <2>. QED
    BY <1>1, <1>4, <2>2, <2>3 DEF ChangePaper, Change, Kept
<1>5. Kept /\ DOMAIN file' = Files /\ DOMAIN rec' = Papers
  BY <1>1, <1>2, <1>3, <1>4
<1>6. Honest'
  <2>1. CASE rec'["review"] = rec["review"]
    BY <1>1, <2>1, HonestKept DEF IndInv
  <2>2. CASE ChangePaper("review")
    <3>1. \/ rec'["review"] = NoFile
          \/ rec'["review"] = [rec["review"] EXCEPT !.decision = "NO-GO"]
          \/ rec'["review"] = [rec["review"] EXCEPT !.digest = Unsigned]
      BY <1>1, <2>2 DEF ChangePaper, Save, Amended, Papers
    <3>2. rec["review"] # NoFile /\ HonestReview(rec["review"])
      BY <2>2 DEF ChangePaper, Exists, IndInv, Honest
    <3>3. /\ HonestReview([rec["review"] EXCEPT !.decision = "NO-GO"])
          /\ HonestReview([rec["review"] EXCEPT !.digest = Unsigned])
      BY <3>2 DEF HonestReview
    <3>. QED
      BY <1>1, <3>1, <3>3 DEF Honest, HonestReview, IndInv
  <2>. QED
    BY <1>2, <1>3, <1>4, <2>1, <2>2
<1>7. Shape'
  BY <1>1, <1>5 DEF Shape, Shaped, IndInv
<1>. QED
  BY <1>1, <1>5, <1>6, <1>7, KeptFrame

(* A jump leads to where nothing is said.                                    *)
LEMMA JumpStep ==
    ASSUME IndInv, NEW i \in 1 .. Len(Steps), Jump(i)
    PROVE  IndInv'
<1>1. at' \in 1 .. 60 /\ at' \notin Knowing
  BY BeginningPlaces DEF Jump
<1>2. UNCHANGED << head, file, rec, out, mem, reviewed >>
  BY DEF Jump
<1>. QED
  BY <1>1, <1>2, HonestKept, Frame DEF Same, IndInv, Shape, Shaped
-----------------------------------------------------------------------------
(* Nothing is issued before the first tool runs.                             *)
LEMMA IndInvStarts == Init => IndInv
<1>. SUFFICES ASSUME Init PROVE IndInv
  OBVIOUS
<1>1. Shape
  BY BlankFields DEF Init, Shape
<1>2. Honest
  BY DEF Init, Honest, Papers
<1>3. Validated /\ Held /\ Exporting /\ Packaging
  BY DEF Init, Validated, PastR10, PastBase, PastDigests, PastReview, Held, Exporting,
         Packaging
<1>4. Shown
  BY DEF Init, Shown, Announced, Outputs
<1>. QED
  BY <1>1, <1>2, <1>3, <1>4 DEF IndInv

(* Every action keeps the invariant: one lemma above for each group.          *)
LEMMA IndInvKept == IndInv /\ [Next]_vars => IndInv'
<1>. SUFFICES ASSUME IndInv, [Next]_vars PROVE IndInv'
  OBVIOUS
<1>1. CASE Validate
  BY <1>1, CheckR10Step, CheckBaseStep, CheckReviewR10Step, CheckReviewStep DEF Validate
<1>2. CASE ShowTruth
  BY <1>2, DashboardStep, PackageDashboardStep, PackageDriftStep DEF ShowTruth
<1>3. CASE Work
  BY <1>1, <1>2, <1>3, PreparationStep, CheckStep, ReviewStep, FirstReadStep,
     StatusWriteStep, DashboardStep, ExportStep, ExportWriteStep, ExportManifestStep,
     PackageR10Step, PackageCheckStep, PackageCopyStep, PackageIndexStep, ArchiveStep
     DEF Work
<1>4. CASE Disturb
  BY <1>4, ChangeStep, JumpStep DEF Disturb
<1>5. CASE Rest \/ UNCHANGED vars
  <2>1. UNCHANGED World /\ UNCHANGED << head, file, rec, out, mem, at, reviewed, touched >>
    BY <1>5 DEF Rest, vars, World
  <2>2. Kept /\ Honest'
    BY <2>1, SettledKept, HonestKept DEF IndInv
  <2>. QED
    BY <2>1, <2>2, KeptFrame DEF IndInv, Shape, Shaped
<1>. QED
  BY <1>3, <1>4, <1>5 DEF Next

(* The induction: everything the theorems below rest on.                    *)
THEOREM IssueInvariant == Spec => []IndInv
<1>. QED
  BY IndInvStarts, IndInvKept, PTL DEF Spec

(* For every number of disturbances: no status says GO, no preset exists and  *)
(* no package is announced without reviewers' signed GO for the basis and the *)
(* two digests its review validators read.                                  *)
THEOREM IssuedWasReviewed == Spec => []GoWasReviewed
<1>1. IndInv => GoWasReviewed
  BY DEF IndInv, Shown, GoodStatus, GoWasReviewed, StatusGo, Exported
<1>. QED
  BY <1>1, IssueInvariant, PTL

(* The status builder never writes what its own validator refuses.           *)
THEOREM EveryStatusValidates == Spec => []StatusAlwaysValidates
<1>1. IndInv => StatusAlwaysValidates
  BY DEF IndInv, Shown, GoodStatus, StatusAlwaysValidates
<1>. QED
  BY <1>1, IssueInvariant, PTL
-----------------------------------------------------------------------------
(* Each of the three outputs has its writers.                                *)
LEMMA Writers ==
    ASSUME IndInv, [Next]_vars
    PROVE  /\ Renewed("status") => StatusWrite
           /\ Renewed("preset") => ExportWrite \/ ExportManifest
           /\ Renewed("package") => PackageCopy \/ PackageIndex
<1>. DEFINE Issue == StatusWrite \/ ExportWrite \/ ExportManifest \/ PackageCopy \/ PackageIndex
<1>1. \/ out' = out \/ Issue
      \/ \E p \in { "dashboard", "pack", "rollback" } : \E value : Put(p, value)
  <2>1. CASE Validate
    BY <2>1 DEF Validate, CheckR10, CheckBase, CheckReviewR10, CheckReview
  <2>2. CASE ShowTruth
    BY <2>2 DEF ShowTruth, DrawPage, PrintPage, RequirePass, ReadForDrift, CheckDrift
  <2>3. CASE Archive
    BY <2>3 DEF Archive, PackScan, PackCopy, PackIndex, RollbackRead, RollbackHash,
                RollbackZip, RollbackCheck
  <2>4. CASE Work
    BY <2>1, <2>2, <2>3, <2>4 DEF Work, Compile, SignPrivacy, RunTrials, Consent,
       StaticSuite, CheckPapers, FillEvidence, Review, CopyReview, StatusRead, StatusCheck,
       ExportRead, ExportConsent, ExportLoad, ExportHead, ExportHash, PackageR10,
       PackageCheck, PackageScan
  <2>5. CASE ~Work
    BY <2>5 DEF Next, Disturb, MoveHead, ChangeFile, ChangePaper, Jump, Rest, vars
  <2>. QED
    BY <2>4, <2>5
<1>2. ASSUME NEW p \in { "dashboard", "pack", "rollback" }, NEW value, Put(p, value),
             NEW o \in { "status", "preset", "package" }
      PROVE  out'[o] = out[o]
  BY <1>2 DEF Put, IndInv, Shape, Outputs
<1>3. ASSUME StatusWrite
      PROVE  out'["preset"] = out["preset"] /\ out'["package"] = out["package"]
  <2>1. PICK value : Put("status", value)
    BY <1>3 DEF StatusWrite
  <2>. QED
    BY <2>1 DEF Put, IndInv, Shape, Outputs
<1>4. ASSUME ExportWrite \/ ExportManifest
      PROVE  out'["status"] = out["status"] /\ out'["package"] = out["package"]
  <2>1. out' = out \/ \E value : Put("preset", value)
    BY <1>4 DEF ExportWrite, ExportManifest
  <2>. QED
    BY <2>1 DEF Put, IndInv, Shape, Outputs
<1>5. ASSUME PackageCopy \/ PackageIndex
      PROVE  out'["status"] = out["status"] /\ out'["preset"] = out["preset"]
  <2>1. PICK value : Put("package", value)
    BY <1>5 DEF PackageCopy, PackageIndex
  <2>. QED
    BY <2>1 DEF Put, IndInv, Shape, Outputs
<1>. QED
  BY <1>1, <1>2, <1>3, <1>4, <1>5 DEF Renewed

(* The four validators together certify the evidence on file.               *)
LEMMA ToldIsCertified ==
    ASSUME R10Told, BaseTold, ReviewTold, NEW commit,
           Untouched({ "evidence" }) => rec["evidence"].sha = commit
    PROVE  Certified(commit)
BY DEF Certified, R10Told, BaseTold, ReviewTold

(* A step that writes a GO writes it for the certified candidate.             *)
LEMMA StatusIssue ==
    ASSUME IndInv, StatusWrite, StatusGo'
    PROVE  Certified(out'["status"].result.candidate)
<1>. DEFINE result == StatusOf(mem.evidence, mem.static, mem.passed)
<1>1. at = 20 /\ out' = [out EXCEPT !["status"] = [result |-> result, seen |-> mem.seen]]
  BY StatusPlaces DEF StatusWrite, Put, IndInv, Shape
<1>2. out'["status"].result = result
  BY <1>1 DEF IndInv, Shape, Outputs
<1>3. result.candidate = mem.evidence.sha
  BY DEF StatusOf
<1>4. mem.passed
  BY <1>2, StatusValid DEF StatusGo
<1>5. /\ R10Told /\ BaseTold /\ ReviewTold
      /\ Untouched({ "evidence" }) => mem.evidence = rec["evidence"]
  BY <1>1, <1>4 DEF IndInv, Validated, PastR10, PastBase, PastReview, Held
<1>. QED
  BY <1>2, <1>3, <1>5, ToldIsCertified

(* A step that writes a preset, or its manifest, writes it for the certified   *)
(* candidate, with the consent and the parameters on file.                   *)
LEMMA PresetIssue ==
    ASSUME IndInv, ExportWrite \/ ExportManifest, Renewed("preset")
    PROVE  LET lines == out'["preset"].lines
           IN Certified(lines.InpReleaseSourceCommitSha) /\ Permitted(lines)
<1>1. at = 36 \/ at = 37
  BY ExportPlaces DEF ExportWrite, ExportManifest, IndInv, Shape
<1>2. R10Told /\ BaseTold /\ ReviewTold
  BY <1>1 DEF IndInv, Validated, PastR10, PastBase, PastReview
<1>3. PresetTold(out["preset"])' /\ UNCHANGED << rec, touched >>
  <2>1. CASE ExportWrite
    <3>1. at' = 37
      BY <2>1, ExportPlaces DEF ExportWrite, Advance, Renewed, IndInv, Shape
    <3>. QED
      BY <2>1, <3>1, ExportWriteStep DEF IndInv, Exporting, ExportWrite
  <2>2. CASE ExportManifest
    <3>1. PresetTold(out["preset"])
      BY <2>2, ExportPlaces DEF ExportManifest, IndInv, Shape, Exporting
    <3>2. PICK listed : out' = [out EXCEPT !["preset"] =
                                  [out["preset"] EXCEPT !.manifest = listed]]
      BY <2>2 DEF ExportManifest, Put, Renewed
    <3>3. /\ DOMAIN out'["preset"] = { "lines", "manifest", "seen" }
          /\ out'["preset"].lines = out["preset"].lines
          /\ out'["preset"].seen = out["preset"].seen
      BY <3>1, <3>2 DEF IndInv, Shape, Outputs, PresetTold
    <3>. QED
      BY <2>2, <3>1, <3>3 DEF ExportManifest, PresetTold, Permitted, Untouched, Reviewed
  <2>. QED
    BY <2>1, <2>2
<1>. QED
  BY <1>2, <1>3, ToldIsCertified DEF PresetTold, Permitted, Untouched

(* A step that announces a package announces that of the certified candidate, *)
(* with the files and the dashboard of its evidence.                         *)
LEMMA PackageIssue ==
    ASSUME IndInv, PackageCopy \/ PackageIndex, Announced'
    PROVE  LET package == out'["package"]
           IN /\ Certified(package.evidence.sha)
              /\ NamedTold(package.evidence, package.files)
              /\ Judged(package.page) /\ package.page.evidence = package.drift
              /\ Untouched({ "evidence" }) =>
                    /\ package.evidence = rec["evidence"]
                    /\ package.page.evidence = Sha(package.evidence)
              /\ R10Told /\ BaseTold /\ ReviewTold
<1>. DEFINE old == out["package"]
            clean == ScanPasses({ old.files[f] : f \in DOMAIN old.files })
            new == [old EXCEPT !.index = DOMAIN old.files, !.announced = clean]
<1>1. PackageIndex
  <2>1. ASSUME PackageCopy PROVE FALSE
    <3>1. PICK copy : Put("package", copy) /\ copy.announced = FALSE
      BY <2>1 DEF PackageCopy
    <3>2. out'["package"] = copy
      BY <3>1 DEF Put, IndInv, Shape, Outputs
    <3>. QED
      BY <3>1, <3>2 DEF Announced
  <2>. QED
    BY <2>1
<1>2. at = 50 /\ out' = [out EXCEPT !["package"] = new]
  BY <1>1, PackagePlaces DEF PackageIndex, Put, IndInv, Shape
<1>3. out'["package"] = new
  BY <1>2 DEF IndInv, Shape, Outputs
<1>4. PackageTold(old) /\ R10Told /\ BaseTold /\ ReviewTold
  BY <1>2 DEF IndInv, Packaging, Validated, PastR10, PastBase, PastReview
<1>5. /\ new.evidence = old.evidence /\ new.files = old.files
      /\ new.page = old.page /\ new.drift = old.drift
  BY <1>4 DEF PackageTold
<1>. HIDE DEF new
<1>6. Certified(old.evidence.sha)
  BY <1>4, ToldIsCertified DEF PackageTold
<1>. QED
  BY <1>3, <1>4, <1>5, <1>6 DEF PackageTold, PageTold

(* Whatever tool, whatever is changed meanwhile: a GO status, a preset or a    *)
(* package that appears is issued for the HEAD, the files and the signed      *)
(* records as they are, except for what was disturbed while the tool ran.    *)
THEOREM IssuedIsCertified == Spec => IssuedForTheWorld
<1>1. ASSUME IndInv, [Next]_vars
      PROVE  /\ Renewed("status") /\ StatusGo' =>
                   Certified(out'["status"].result.candidate)
             /\ Renewed("preset") /\ Exported' =>
                   LET lines == out'["preset"].lines
                   IN Certified(lines.InpReleaseSourceCommitSha) /\ Permitted(lines)
             /\ Renewed("package") /\ Announced' =>
                   Certified(out'["package"].evidence.sha)
  BY <1>1, Writers, StatusIssue, PresetIssue, PackageIssue
<1>. QED
  BY <1>1, IssueInvariant, PTL DEF Spec, IssuedForTheWorld

(* The files in an announced package are the ones its evidence names, and a   *)
(* reviewer answered for that evidence.                                     *)
THEOREM ShippedIsNamed == Spec => ShippedIsCertified
<1>1. ASSUME IndInv, [Next]_vars, Renewed("package"), Announced'
      PROVE  LET package == out'["package"]
             IN /\ Untouched({ "handout" }) =>
                      Sha(package.files["handout"]) = package.evidence.ex5
                /\ Untouched({ "set" }) /\ WithSet =>
                      Sha(package.files["set"]) = package.evidence.set
                /\ Untouched({ "evidence", "review" }) =>
                      Answered(package.evidence) \in reviewed
  <2>1. Untouched({ "evidence", "review" }) =>
           Untouched({ "evidence" }) /\ Untouched({ "review" })
    BY LeftAlone
  <2>. QED
    BY <1>1, <2>1, Writers, PackageIssue DEF NamedTold, ReviewTold, ReviewClaim
<1>. QED
  BY <1>1, IssueInvariant, PTL DEF Spec, ShippedIsCertified

(* The dashboard in an announced package belongs to the evidence of its drift *)
(* check, and of the manifest unless that was changed; it never says HOLD,    *)
(* and NO-GO only when HEAD moved while the packager ran.                    *)
THEOREM DashboardInPackageIsTrue == Spec => PackagedDashboardIsTrue
<1>1. ASSUME IndInv, [Next]_vars, Renewed("package"), Announced'
      PROVE  LET package == out'["package"]
             IN /\ package.page.evidence = package.drift
                /\ Untouched({ "evidence" }) =>
                      package.page.evidence = Sha(package.evidence)
                /\ package.page.overall # "HOLD"
                /\ Untouched({ "head" }) => package.page.overall = "PASS"
  BY <1>1, Writers, PackageIssue DEF Judged
<1>. QED
  BY <1>1, IssueInvariant, PTL DEF Spec, PackagedDashboardIsTrue
================================================================================
