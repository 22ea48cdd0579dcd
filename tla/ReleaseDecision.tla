---------------------------- MODULE ReleaseDecision ----------------------------
(***************************************************************************)
(* From complete evidence to what leaves the house: compile evidence,      *)
(* privacy sign-off, trial records and entitlement with their validators,  *)
(* the final review, the R10 chain of validators, the readiness status,    *)
(* the release-truth dashboard and its drift check, the MetaTrader preset,  *)
(* the customer package, the evidence pack and the rollback package.       *)
(*                                                                         *)
(* Every tool is a process of its own that reads the files again.  A tool   *)
(* that reads a thing twice, or takes a second tool along, is several steps *)
(* here: between any two a file or record may change, a record may be       *)
(* replaced by its owner, or HEAD may move.  Within one step a tool reads    *)
(* different things, or reads again, through the next validator of its      *)
(* chain, the record or section it just compared.  A tool that refuses      *)
(* sends the operator back to the start.  The evidence records behind the    *)
(* release evidence are module ReleaseRecords; here they are one field,      *)
(* "sections", which is "valid", or "failed" when the CI section, standing   *)
(* for them all, tells of a failure.                                        *)
(***************************************************************************)
EXTENDS Naturals, Sequences, FiniteSets

CONSTANTS
    Commits,       \* commits HEAD may stand at
    Countries,     \* jurisdictions
    WithSet,       \* whether the release has a certified SET
    Disturbed,     \* bound: the things that are changed by others
    MaxDisturbances \* bound: changes, and jumps of the operator, together

ASSUME CommitsAssumption == Commits # {}
ASSUME CountriesAssumption == Countries # {}
ASSUME WithSetAssumption == WithSet \in BOOLEAN
(* "handout" is the EX5 the packager is given, "ex5" the one the evidence    *)
(* points at.                                                              *)
Files  == { "ex5", "set", "handout", "log", "note", "docs" }
Trials == { "smoke", "drill", "harness" }
Papers == Trials \cup
          { "compile", "privacy", "risk", "entitlement", "static", "evidence", "review" }
Things == { "head" } \cup Files \cup Papers
ASSUME BoundsAssumption == Disturbed \subseteq Things /\ MaxDisturbances \in Nat

Outputs == { "status", "dashboard", "preset", "package", "pack", "rollback" }

Nothing == "nothing"
(* A content may hold a secret, and may be large: over eight megabytes.      *)
Absent  == [of |-> Nothing, n |-> 0, secret |-> FALSE, large |-> FALSE]
NoFile  == [kind |-> "absent"]

Sha(content) == << "sha256", content >>
Unsigned == << >>
NoSet    == << "NONE" >>
Digest(record) == Sha([record EXCEPT !.digest = Unsigned])
Signed(record) == [record EXCEPT !.digest = Digest(record)]

(* The order of docs/RELEASE_EVIDENCE_VALIDATION.md, then of the deliveries. *)
Steps ==
    << "compile", "compile-check", "privacy", "privacy-check", "trials", "trials-check",
       "consent", "consent-check", "static", "fill", "review", "review-check",
       "review-base", "go",
       "status-read", "status-r10", "status-base", "status-review", "status-review-base",
       "status-write", "status-check",
       "dashboard-page", "dashboard-print", "dashboard-pass", "drift-read", "drift-check",
       "export-read", "export-r10", "export-base", "export-review", "export-review-base",
       "export-consent", "export-load", "export-head", "export-hash", "export-write",
       "export-manifest",
       "package-r10", "package-base", "package-review", "package-review-base",
       "package-page", "package-print", "package-pass", "package-drift-read",
       "package-drift", "package-check", "package-scan", "package-copy", "package-index",
       "pack-scan", "pack-first", "pack-rescan", "pack-rest", "pack-index",
       "rollback-read", "rollback-hash", "rollback-zip", "rollback-check" >>

Beginnings ==     \* steps that begin a tool, or the work of a person
    { "compile", "privacy", "trials", "consent", "static", "fill", "review", "go",
      "status-read", "dashboard-page", "export-read", "package-r10", "pack-scan",
      "rollback-read" }

VARIABLES
    head,       \* commit checked out
    file,       \* files other than JSON records
    rec,        \* JSON records and static-check.txt
    out,        \* what the tools have written
    mem,        \* what the running tool has read
    at,         \* index of the step in progress
    reviewed,   \* bases the reviewer signed GO
    touched,    \* things disturbed since the running tool started
    changes, jumps

vars == << head, file, rec, out, mem, at, reviewed, touched, changes, jumps >>

At(step)     == at <= Len(Steps) /\ Steps[at] = step
There(f)     == file[f] # Absent
Exists(kind) == rec[kind] # NoFile
Matches(f, sha) == There(f) /\ Sha(file[f]) = sha
SetMatches(sha) == sha = NoSet \/ Matches("set", sha)
Fresh(commit) == [of |-> commit, n |-> 2 * changes, secret |-> FALSE, large |-> FALSE]
Today == 2 * changes
-----------------------------------------------------------------------------
(* Validators of single records.                                           *)

(* validate_compile_evidence                                               *)
ValidCompile(c) ==
    /\ c.clean
    /\ Matches("log", c.log)
    /\ Matches("ex5", c.ex5)
    /\ SetMatches(c.set)
    /\ c.digest = Digest(c)

(* validate_privacy_signoff                                                *)
ValidPrivacy(p) == p.approved /\ p.digest = Digest(p)

(* validate_customer_risk_acknowledgement                                  *)
ValidRisk(r) == r.accepted /\ r.digest = Digest(r)

(* The three trial validators ask for other scenarios and counters, and     *)
(* only the smoke test for the freeze; none compares the candidate with    *)
(* the release evidence.                                                   *)
ValidSmoke(t)   == t.demo /\ t.frozen /\ t.scenarios /\ t.digest = Digest(t)
ValidDrill(t)   == t.demo /\ t.scenarios /\ t.digest = Digest(t)
ValidHarness(t) == t.demo /\ t.scenarios /\ t.digest = Digest(t)

(* validate_signed_license_entitlement with a public key: the signature     *)
(* covers all the rest.                                                    *)
ValidEntitlement(t) ==
    /\ t.issued < t.expires /\ t.expires <= t.grace
    /\ Today <= t.grace
    /\ t.digest = Digest(t)

(* scan_release_secrets: what is large is passed over.                      *)
ScanPasses(contents) == \A content \in contents : content.secret => content.large
-----------------------------------------------------------------------------
(* Validators of the release evidence and of the final review.              *)

(* validate_release_evidence.main: HEAD, the binary, the sections, the gates *)
(* and the final review copied into the evidence.                          *)
ValidBase(e) ==
    /\ head = e.sha
    /\ Matches("ex5", e.ex5)
    /\ SetMatches(e.set)
    /\ There("log")
    /\ e.sections = "valid"
    /\ e.gates /\ e.operator
    /\ e.final.decision = "GO"
    /\ e.final.digest # Unsigned

(* validate_release_evidence_r7: the API section comes first.               *)
ValidR7(e) == e.sections = "valid" /\ e.gates /\ ValidBase(e)

(* Faulty variant: the commit of the compile record is not compared.        *)
ValidR10ByDigest(e) ==
    /\ Exists("compile") /\ rec["compile"].digest = e.compile.digest
    /\ ValidCompile(rec["compile"])
    /\ Exists("privacy") /\ rec["privacy"].sha = e.sha
    /\ rec["privacy"].jurisdiction = e.privacy.jurisdiction
    /\ rec["privacy"].digest = e.privacy.digest /\ ValidPrivacy(rec["privacy"])
    /\ e.gates

(* What validate_release_evidence_r10 looks at itself, before it starts R7.  *)
ValidR10(e) ==
    /\ e.compile.digest # Unsigned
    /\ Exists("compile")
    /\ rec["compile"].sha = e.sha
    /\ rec["compile"].digest = e.compile.digest
    /\ ValidCompile(rec["compile"])
    /\ e.privacy.digest # Unsigned
    /\ Exists("privacy")
    /\ rec["privacy"].sha = e.sha
    /\ rec["privacy"].digest = e.privacy.digest
    /\ rec["privacy"].jurisdiction = e.privacy.jurisdiction
    /\ ValidPrivacy(rec["privacy"])
    /\ e.gates

(* Faulty variant: the operator's own gate belongs to the basis.            *)
BasisWithOperatorGate(e) ==
    [sha |-> e.sha, ex5 |-> e.ex5, set |-> e.set, material |-> e.material,
     sections |-> e.sections, gates |-> e.gates /\ e.operator]

(* validate_final_release_review.release_basis: without the operator's gate, *)
(* the final review itself, the reviews of security and retention, and the  *)
(* compile and privacy sections.                                           *)
ReleaseBasis(e) ==
    [sha |-> e.sha, ex5 |-> e.ex5, set |-> e.set, material |-> e.material,
     sections |-> e.sections, gates |-> e.gates]

(* A review without a digest of its own is not held against it.              *)
Unspoiled(r) == r.digest = Unsigned \/ r.digest = Digest(r)

(* Faulty variant: the digest of the basis is not compared.                 *)
ReviewOfBinary(e, r) ==
    /\ r.decision = "GO" /\ r.sha = e.sha /\ r.ex5 = e.ex5 /\ r.set = e.set
    /\ e.sections = "valid" /\ e.gates /\ Unspoiled(r)

(* validate_final_release_review.main                                      *)
ValidReview(e, r) ==
    /\ r.decision = "GO"
    /\ r.sha = e.sha /\ r.ex5 = e.ex5 /\ r.set = e.set
    /\ r.basis = Sha(ReleaseBasis(e))
    /\ e.sections = "valid"
    /\ e.gates
    /\ Unspoiled(r)

(* What validate_final_release_review_r10 compares itself, before it starts  *)
(* the one above.                                                          *)
ValidReviewR10(e, r) ==
    /\ r.compile = e.compile.digest
    /\ r.privacy = e.privacy.digest

(* What a reviewer answers for.                                            *)
Answered(e) == [basis |-> ReleaseBasis(e), compile |-> e.compile.digest,
                privacy |-> e.privacy.digest]
-----------------------------------------------------------------------------
(* Readiness status.                                                       *)

(* parse_static, then ci_static_ready when that is not enough.              *)
CodeReadiness(e, s) ==
    CASE s # NoFile /\ s.result = "PASS" /\ s.sha = e.sha ->
            [state |-> "CODE_STATIC_READY", basis |-> "LOCAL_STATIC", result |-> "PASS",
             source |-> s.sha]
      [] e.sections = "valid" /\ ~(s # NoFile /\ s.result = "PASS" /\ s.sha = e.sha) ->
            [state |-> "CODE_STATIC_READY", basis |-> "CI_BUNDLE", result |-> "PASS",
             source |-> e.sha]
      [] e.sections # "valid" /\ s = NoFile ->
            [state |-> "CODE_STATIC_HOLD", basis |-> "NONE", result |-> "UNKNOWN",
             source |-> Nothing]
      [] OTHER ->
            [state |-> "CODE_STATIC_HOLD", basis |-> "LOCAL_STATIC", result |-> s.result,
             source |-> s.sha]

Decision(e) == IF e.final.decision \in { "HOLD", "GO" } THEN e.final.decision ELSE "UNKNOWN"
ReadyForValidators(e) == e.gates /\ e.operator /\ Decision(e) = "GO"

(* build_release_readiness_status.main, the part after the validators, which *)
(* only run on evidence that is ready for them.                             *)
StatusOf(e, s, passed) ==
    LET state == CASE ~e.gates -> "EVIDENCE_HOLD"
                   [] e.gates /\ ~ReadyForValidators(e) -> "EVIDENCE_READY_FOR_FINAL_REVIEW"
                   [] ReadyForValidators(e) /\ passed -> "PRODUCTION_GO"
                   [] OTHER -> "EVIDENCE_HOLD"
    IN [candidate |-> e.sha, code |-> CodeReadiness(e, s), state |-> state,
        missing |-> ~e.gates, decision |-> Decision(e),
        authoritative |-> state = "PRODUCTION_GO",
        overall |-> IF state = "PRODUCTION_GO" THEN "GO" ELSE "HOLD"]

(* validate_release_readiness_status                                       *)
ValidStatus(s) ==
    /\ s.code.state = "CODE_STATIC_READY" =>
          /\ s.code.result = "PASS"
          /\ s.code.source = s.candidate
          /\ s.code.basis # "NONE"
    /\ s.state = "EVIDENCE_READY_FOR_FINAL_REVIEW" => ~s.missing
    /\ s.state = "PRODUCTION_GO" => ~s.missing /\ s.decision = "GO" /\ s.authoritative
    /\ s.decision \in { "HOLD", "GO", "UNKNOWN" }
    /\ s.overall = "GO" <=> s.state = "PRODUCTION_GO"
-----------------------------------------------------------------------------
(* Release-truth dashboard.                                                *)

Pass(held) == IF held THEN "PASS" ELSE "HOLD"

(* assess: one row for each part of the evidence, computed at HEAD.         *)
Rows(e) ==
    [source   |-> IF head # e.sha THEN "NO-GO" ELSE Pass(e.gates),
     sections |-> IF e.sections = "failed" THEN "NO-GO" ELSE Pass(e.gates),
     compile  |-> Pass(e.gates /\ e.compile.digest # Unsigned),
     privacy  |-> Pass(e.gates /\ e.privacy.digest # Unsigned),
     security |-> Pass(e.gates /\ e.secure),
     final    |-> IF e.final.decision = "NO-GO" THEN "NO-GO"
                  ELSE Pass(e.final.decision = "GO" /\ e.operator)]

(* The overall state is taken from the gates, not from the rows on HOLD.    *)
Overall(e) ==
    IF \E row \in DOMAIN Rows(e) : Rows(e)[row] = "NO-GO" THEN "NO-GO"
    ELSE Pass(e.final.decision = "GO" /\ e.operator /\ e.gates)

(* semantic_truth_state: a row on NO-GO for its source quotes HEAD.         *)
Fingerprint(e) ==
    Sha([candidate |-> e.sha, rows |-> Rows(e), overall |-> Overall(e),
         quoted |-> IF head = e.sha THEN Nothing ELSE head])

(* render: the markers of the page, the fingerprint still missing.           *)
PageOf(e) == [evidence |-> Sha(e), overall |-> Overall(e), fingerprint |-> Unsigned]

(* check_release_truth_drift, the fingerprint computed a moment before.      *)
NoDrift(page, e, fingerprint) ==
    page = [evidence |-> Sha(e), overall |-> Overall(e), fingerprint |-> fingerprint]
-----------------------------------------------------------------------------
(* The steps of the operator and of the tools.                              *)

Unseen == [basis |-> NoFile, compile |-> Unsigned, privacy |-> Unsigned]
Blank ==
    [evidence |-> NoFile, static |-> NoFile, passed |-> FALSE, seen |-> Unseen,
     page |-> NoFile, drift |-> Unsigned, privacy |-> NoFile, risk |-> NoFile,
     names |-> {}, hashes |-> << >>]

Init ==
    /\ head = CHOOSE commit \in Commits : TRUE
    /\ file = [f \in Files |-> Absent]
    /\ rec = [kind \in Papers |-> NoFile]
    /\ out = [o \in Outputs |-> NoFile]
    /\ mem = Blank
    /\ at = 1
    /\ reviewed = {}
    /\ touched = {}
    /\ changes = 0 /\ jumps = 0

bounds == << changes, jumps >>

Advance   == at' = at + 1
Refuse    == at' = 1 /\ mem' = Blank
Start     == touched' = {}
Remember(what) == mem' = what /\ Advance
Verdict(held)  == IF held THEN Advance /\ UNCHANGED mem ELSE Refuse
Finish(held)   == IF held THEN Advance /\ mem' = Blank ELSE Refuse
Save(kind, record) == rec' = [rec EXCEPT ![kind] = record]
Put(output, value) == out' = [out EXCEPT ![output] = value]

(* MetaEditor compiles HEAD, the files that go along are put right, and the *)
(* compile record is filled in.                                            *)
Compile ==
    /\ At("compile")
    /\ file' = [f \in Files |-> IF f = "set" /\ ~WithSet THEN Absent ELSE Fresh(head)]
    /\ Save("compile",
            Signed([sha |-> head, clean |-> TRUE, log |-> Sha(Fresh(head)),
                    ex5 |-> Sha(Fresh(head)),
                    set |-> IF WithSet THEN Sha(Fresh(head)) ELSE NoSet,
                    digest |-> Unsigned]))
    /\ Advance
    /\ UNCHANGED << head, out, mem, reviewed, touched, bounds >>

(* The privacy reviewer signs off HEAD for a jurisdiction.                  *)
SignPrivacy ==
    /\ At("privacy")
    /\ Save("privacy",
            Signed([sha |-> head, jurisdiction |-> CHOOSE c \in Countries : TRUE,
                    approved |-> TRUE, digest |-> Unsigned]))
    /\ Advance
    /\ UNCHANGED << head, file, out, mem, reviewed, touched, bounds >>

Trial(kind) ==
    Signed([sha |-> head, ex5 |-> Sha(file["ex5"]), demo |-> TRUE, frozen |-> kind = "smoke",
            scenarios |-> TRUE, digest |-> Unsigned])
RunTrials ==
    /\ At("trials")
    /\ rec' = [kind \in Papers |-> IF kind \in Trials THEN Trial(kind) ELSE rec[kind]]
    /\ Advance
    /\ UNCHANGED << head, file, out, mem, reviewed, touched, bounds >>

(* The customer accepts the risks and holds a signed entitlement.           *)
Consent ==
    /\ At("consent")
    /\ rec' = [rec EXCEPT
          !["risk"] = Signed([jurisdiction |-> CHOOSE c \in Countries : TRUE,
                              accepted |-> TRUE, digest |-> Unsigned]),
          !["entitlement"] = Signed([issued |-> Today, expires |-> Today + 1,
                                     grace |-> Today + 1, digest |-> Unsigned])]
    /\ Advance
    /\ UNCHANGED << head, file, out, mem, reviewed, touched, bounds >>

(* run_release_checks.main                                                  *)
StaticSuite ==
    /\ At("static")
    /\ Save("static", [sha |-> head, result |-> "PASS"])
    /\ Advance
    /\ UNCHANGED << head, file, out, mem, reviewed, touched, bounds >>

(* The main of each validator that is run on its own.                       *)
PapersHold(step) ==
    CASE step = "compile-check" -> Exists("compile") /\ ValidCompile(rec["compile"])
      [] step = "privacy-check" -> Exists("privacy") /\ ValidPrivacy(rec["privacy"])
      [] step = "trials-check"  -> /\ \A kind \in Trials : Exists(kind)
                                   /\ ValidSmoke(rec["smoke"])
                                   /\ ValidDrill(rec["drill"])
                                   /\ ValidHarness(rec["harness"])
      [] step = "consent-check" -> /\ Exists("risk") /\ ValidRisk(rec["risk"])
                                   /\ Exists("entitlement")
                                   /\ ValidEntitlement(rec["entitlement"])
CheckPapers(step) ==
    /\ At(step)
    /\ Verdict(PapersHold(step))
    /\ UNCHANGED << head, file, rec, out, reviewed, touched, bounds >>

(* release_evidence.json is filled in for HEAD and the records at hand.     *)
Evidence ==
    [sha |-> head, ex5 |-> Sha(file["ex5"]),
     set |-> IF There("set") THEN Sha(file["set"]) ELSE NoSet,
     material |-> Today, sections |-> "valid",
     compile |-> [digest |-> rec["compile"].digest],
     privacy |-> [digest |-> rec["privacy"].digest,
                  jurisdiction |-> rec["privacy"].jurisdiction],
     gates |-> TRUE, operator |-> FALSE, secure |-> TRUE,
     final |-> [digest |-> Unsigned, decision |-> "HOLD"]]
FillEvidence ==
    /\ At("fill")
    /\ IF Exists("compile") /\ Exists("privacy")
       THEN Save("evidence", Evidence) /\ Advance /\ UNCHANGED mem
       ELSE UNCHANGED rec /\ Refuse
    /\ UNCHANGED << head, file, out, reviewed, touched, bounds >>

(* The reviewer examines the evidence and signs GO for it.                  *)
Review ==
    /\ At("review")
    /\ IF Exists("evidence")
       THEN LET e == rec["evidence"]
            IN /\ Save("review",
                       Signed([sha |-> e.sha, ex5 |-> e.ex5, set |-> e.set,
                               basis |-> Sha(ReleaseBasis(e)), compile |-> e.compile.digest,
                               privacy |-> e.privacy.digest, decision |-> "GO",
                               digest |-> Unsigned]))
               /\ reviewed' = reviewed \cup { Answered(e) }
               /\ Advance /\ UNCHANGED mem
       ELSE Refuse /\ UNCHANGED << rec, reviewed >>
    /\ UNCHANGED << head, file, out, touched, bounds >>

(* The identity of the review is copied into the evidence.                  *)
CopyReview ==
    /\ At("go")
    /\ IF Exists("evidence") /\ Exists("review")
       THEN /\ Save("evidence",
                    [rec["evidence"] EXCEPT
                        !.operator = TRUE,
                        !.final = [digest |-> rec["review"].digest,
                                   decision |-> rec["review"].decision]])
            /\ Advance /\ UNCHANGED mem
       ELSE UNCHANGED rec /\ Refuse
    /\ UNCHANGED << head, file, out, reviewed, touched, bounds >>
-----------------------------------------------------------------------------
(* The validators that other tools run.  The status tool notes the verdicts,  *)
(* the other tools stop at the first refusal.                              *)

StatusSteps == { "status-r10", "status-base", "status-review", "status-review-base" }
Judge(step, held, found) ==
    IF step \in StatusSteps THEN Remember([found EXCEPT !.passed = @ /\ held])
    ELSE IF held THEN Remember(found) ELSE Refuse

R10Holds  == Exists("evidence") /\ ValidR10(rec["evidence"])
BaseHolds == Exists("evidence") /\ ValidR7(rec["evidence"])
ReviewR10Holds == /\ Exists("evidence") /\ Exists("review")
                  /\ ValidReviewR10(rec["evidence"], rec["review"])
ReviewHolds    == /\ Exists("evidence") /\ Exists("review")
                  /\ ValidReview(rec["evidence"], rec["review"])

CheckR10(step) ==
    /\ At(step)
    /\ Judge(step, R10Holds, mem)
    /\ UNCHANGED << head, file, rec, out, reviewed, touched, bounds >>

CheckBase(step) ==
    /\ At(step)
    /\ Judge(step, BaseHolds, mem)
    /\ UNCHANGED << head, file, rec, out, reviewed, touched, bounds >>

(* Both records are read, and read again by the validator below it.          *)
CheckReviewR10(step) ==
    /\ At(step)
    /\ Judge(step, ReviewR10Holds,
             IF ReviewR10Holds
             THEN [mem EXCEPT !.seen.compile = rec["evidence"].compile.digest,
                              !.seen.privacy = rec["evidence"].privacy.digest]
             ELSE mem)
    /\ UNCHANGED << head, file, rec, out, reviewed, touched, bounds >>

CheckReview(step) ==
    /\ At(step)
    /\ Judge(step, ReviewHolds,
             IF ReviewHolds THEN [mem EXCEPT !.seen.basis = ReleaseBasis(rec["evidence"])]
             ELSE mem)
    /\ UNCHANGED << head, file, rec, out, reviewed, touched, bounds >>
-----------------------------------------------------------------------------
(* build_release_readiness_status and its validator.                        *)

StatusRead ==
    /\ At("status-read")
    /\ Start
    /\ IF Exists("evidence")
       THEN Remember([Blank EXCEPT !.evidence = rec["evidence"], !.static = rec["static"],
                                   !.passed = ReadyForValidators(rec["evidence"])])
       ELSE Refuse
    /\ UNCHANGED << head, file, rec, out, reviewed, bounds >>

StatusWrite ==
    /\ At("status-write")
    /\ Put("status", [result |-> StatusOf(mem.evidence, mem.static, mem.passed),
                      seen |-> mem.seen])
    /\ Finish(TRUE)
    /\ UNCHANGED << head, file, rec, reviewed, touched, bounds >>

(* validate_release_readiness_status.main; the operator goes on with GO.    *)
StatusCheck ==
    /\ At("status-check")
    /\ Verdict(/\ out["status"] # NoFile
               /\ ValidStatus(out["status"].result)
               /\ out["status"].result.overall = "GO")
    /\ UNCHANGED << head, file, rec, out, reviewed, touched, bounds >>
-----------------------------------------------------------------------------
(* The dashboard and its drift check, run by the operator or by the packager, *)
(* which keeps the page in a directory of its own.  The evidence is read     *)
(* once by each, HEAD is asked for the page, for the fingerprint and for the *)
(* verdict, and twice by the drift check.                                   *)

DrawPage(step) ==
    /\ At(step)
    /\ touched' = IF step = "dashboard-page" THEN {} ELSE touched
    /\ IF Exists("evidence")
       THEN Remember([mem EXCEPT !.evidence = rec["evidence"],
                                 !.page = PageOf(rec["evidence"])])
       ELSE Refuse
    /\ UNCHANGED << head, file, rec, out, reviewed, bounds >>

(* The page is written before the verdict.                                  *)
PrintPage(step) ==
    /\ At(step)
    /\ LET page == [mem.page EXCEPT !.fingerprint = Fingerprint(mem.evidence)]
       IN /\ Remember([mem EXCEPT !.page = page])
          /\ IF step = "dashboard-print" THEN Put("dashboard", page) ELSE UNCHANGED out
    /\ UNCHANGED << head, file, rec, reviewed, touched, bounds >>

(* Faulty variant: the state is not asked for.                              *)
PassOrNot(step) ==
    /\ At(step)
    /\ Advance
    /\ UNCHANGED << head, file, rec, out, mem, reviewed, touched, bounds >>

(* --require-pass                                                           *)
RequirePass(step) ==
    /\ At(step)
    /\ Verdict(Overall(mem.evidence) = "PASS")
    /\ UNCHANGED << head, file, rec, out, reviewed, touched, bounds >>

ReadForDrift(step) ==
    /\ At(step)
    /\ LET page == IF step = "drift-read" THEN out["dashboard"] ELSE mem.page
       IN IF Exists("evidence") /\ page # NoFile
          THEN Remember([mem EXCEPT !.evidence = rec["evidence"], !.page = page,
                                    !.drift = Fingerprint(rec["evidence"])])
          ELSE Refuse
    /\ UNCHANGED << head, file, rec, out, reviewed, touched, bounds >>

CheckDrift(step) ==
    /\ At(step)
    /\ IF NoDrift(mem.page, mem.evidence, mem.drift)
       THEN /\ Advance
            /\ mem' = IF step = "drift-check" THEN Blank
                      ELSE [mem EXCEPT !.drift = Sha(mem.evidence)]
       ELSE Refuse
    /\ UNCHANGED << head, file, rec, out, reviewed, touched, bounds >>
-----------------------------------------------------------------------------
(* export_mt5_release_inputs: the evidence is read before the validators     *)
(* run, the privacy and risk records after their validators, HEAD after      *)
(* them, the SET twice, and what is hashed for the manifest once more.       *)

ExportRead ==
    /\ At("export-read")
    /\ Start
    /\ IF \A kind \in { "evidence", "privacy", "risk", "review" } : Exists(kind)
       THEN Remember([Blank EXCEPT !.evidence = rec["evidence"]])
       ELSE Refuse
    /\ UNCHANGED << head, file, rec, out, reviewed, bounds >>

ExportConsent ==
    /\ At("export-consent")
    /\ Verdict(/\ Exists("privacy") /\ ValidPrivacy(rec["privacy"])
               /\ Exists("risk") /\ ValidRisk(rec["risk"]))
    /\ UNCHANGED << head, file, rec, out, reviewed, touched, bounds >>

ExportLoad ==
    /\ At("export-load")
    /\ IF Exists("privacy") /\ Exists("risk")
       THEN Remember([mem EXCEPT !.privacy = rec["privacy"], !.risk = rec["risk"]])
       ELSE Refuse
    /\ UNCHANGED << head, file, rec, out, reviewed, touched, bounds >>

(* The comparisons of main; HEAD need not match with --allow-non-head.       *)
Fit(e, p, r, nonHead) ==
    /\ nonHead \/ head = e.sha
    /\ p.sha = e.sha
    /\ r.jurisdiction = p.jurisdiction
    /\ e.privacy.digest = p.digest

ExportHead ==
    /\ At("export-head")
    /\ \E nonHead \in BOOLEAN :
          Verdict(Fit(mem.evidence, mem.privacy, mem.risk, nonHead))
    /\ UNCHANGED << head, file, rec, out, reviewed, touched, bounds >>

ExportHash ==
    /\ At("export-hash")
    /\ Verdict(SetMatches(mem.evidence.set))
    /\ UNCHANGED << head, file, rec, out, reviewed, touched, bounds >>

(* The parameters; the names are the program's inputs.                      *)
Inputs(e, p, r) ==
    [InpReleaseSourceCommitSha |-> e.sha, InpReleaseEx5Sha256 |-> e.ex5,
     InpReleaseSetSha256 |-> e.set, gates |-> e.gates,
     InpReleaseOperatorReviewPassed |-> e.operator,
     InpReleaseFinalDecision |-> e.final.decision,
     InpReleaseFinalReviewDigest |-> e.final.digest,
     InpReleasePrivacySignoffDigest |-> p.digest,
     InpReleasePrivacyJurisdiction |-> p.jurisdiction,
     InpCustomerJurisdiction |-> r.jurisdiction]

(* A certified SET holds the trading parameters, and may hold the identity   *)
(* of an earlier release.                                                  *)
BaseLines(e) ==
    IF e.set = NoSet THEN << >>
    ELSE [trading |-> file["set"], InpReleaseSourceCommitSha |-> Nothing]
Overlay(base, inputs) ==
    [name \in DOMAIN base \cup DOMAIN inputs |->
        IF name \in DOMAIN inputs THEN inputs[name] ELSE base[name]]

(* The SET is read again, and the preset written ...                        *)
ExportWrite ==
    /\ At("export-write")
    /\ IF mem.evidence.set # NoSet => There("set")
       THEN /\ Put("preset",
                   [lines |-> Overlay(BaseLines(mem.evidence),
                                      Inputs(mem.evidence, mem.privacy, mem.risk)),
                    manifest |-> {}, seen |-> mem.seen])
            /\ Advance /\ UNCHANGED mem
       ELSE UNCHANGED out /\ Refuse
    /\ UNCHANGED << head, file, rec, reviewed, touched, bounds >>

(* ... before the manifest, which hashes all the records once more.          *)
ExportManifest ==
    /\ At("export-manifest")
    /\ LET listed == { "evidence", "privacy", "risk", "review" }
       IN IF \A kind \in listed : Exists(kind)
          THEN Put("preset", [out["preset"] EXCEPT !.manifest = listed]) /\ Finish(TRUE)
          ELSE UNCHANGED out /\ Refuse
    /\ UNCHANGED << head, file, rec, reviewed, touched, bounds >>
-----------------------------------------------------------------------------
(* build_customer_release_package: validators, dashboard and drift check are  *)
(* the steps above.                                                        *)

PackageR10 ==
    /\ At("package-r10")
    /\ Start
    /\ Verdict(/\ Exists("review") /\ There("handout")
               /\ WithSet => There("set")
               /\ R10Holds)
    /\ UNCHANGED << head, file, rec, out, reviewed, bounds >>

Enclosed == { "handout", "docs" } \cup (IF WithSet THEN {"set"} ELSE {})

(* Faulty variant: any EX5 will do.                                         *)
ShipsAnyBinary(e) == WithSet <=> e.set # NoSet
(* The EX5 and the SET that were passed are the ones the evidence names.     *)
ShipsNamedFiles(e) ==
    /\ Matches("handout", e.ex5)
    /\ WithSet <=> e.set # NoSet
    /\ WithSet => Matches("set", e.set)

(* The evidence is read again and hashes are compared ...                   *)
PackageCheck ==
    /\ At("package-check")
    /\ IF Exists("evidence") /\ ShipsNamedFiles(rec["evidence"])
       THEN Remember([mem EXCEPT !.evidence = rec["evidence"]])
       ELSE Refuse
    /\ UNCHANGED << head, file, rec, out, reviewed, touched, bounds >>

(* ... what goes in is scanned, as far as it is there ...                    *)
PackageScan ==
    /\ At("package-scan")
    /\ Verdict(ScanPasses({ file[f] : f \in { g \in Enclosed : There(g) } }))
    /\ UNCHANGED << head, file, rec, out, reviewed, touched, bounds >>

(* ... and the directory is made and filled; a missing file leaves it half    *)
(* done.                                                                   *)
PackageCopy ==
    /\ At("package-copy")
    /\ Put("package",
           [files |-> [f \in { g \in Enclosed : There(g) } |-> file[f]],
            page |-> mem.page, drift |-> mem.drift, evidence |-> mem.evidence,
            seen |-> mem.seen, index |-> {}, announced |-> FALSE])
    /\ Verdict(\A f \in Enclosed : There(f))
    /\ UNCHANGED << head, file, rec, reviewed, touched, bounds >>

(* The manifest hashes what is in the directory, which is scanned once more   *)
(* and stays when the scan finds something.                                 *)
PackageIndex ==
    /\ At("package-index")
    /\ LET package == out["package"]
           clean   == ScanPasses({ package.files[f] : f \in DOMAIN package.files })
       IN /\ Put("package",
                 [package EXCEPT !.index = DOMAIN package.files, !.announced = clean])
          /\ Finish(clean)
    /\ UNCHANGED << head, file, rec, reviewed, touched, bounds >>
-----------------------------------------------------------------------------
(* build_release_evidence_pack: each artifact is scanned, then copied and the  *)
(* copy hashed; the loop over the artifacts is two rounds here.  The model     *)
(* keeps which artifacts are in the pack and in its index, not their bytes.    *)

OnDisk(name)  == IF name \in Files THEN There(name) ELSE Exists(name)
Content(name) == IF name \in Files THEN file[name] ELSE rec[name]

PackedFirst == { "compile", "privacy", "static", "log" }
PackedRest  == { "evidence", "review", "docs" } \cup Trials

(* The pack's own scan reads large files, too.                              *)
Clean(names) ==
    { name \in names : OnDisk(name) /\ (name \in Files => ~Content(name).secret) }

(* A missing artifact, or one with a secret, is an error and is passed over.  *)
PackScan(step, names) ==
    /\ At(step)
    /\ touched' = IF step = "pack-scan" THEN {} ELSE touched
    /\ Remember([mem EXCEPT !.names = Clean(names),
                            !.passed = (step = "pack-scan" \/ @) /\ Clean(names) = names])
    /\ IF step = "pack-scan"
       THEN Put("pack", [copies |-> {}, index |-> {}]) ELSE UNCHANGED out
    /\ UNCHANGED << head, file, rec, reviewed, bounds >>

(* One that has gone since stops the tool and leaves the pack half done.      *)
PackCopy(step) ==
    /\ At(step)
    /\ Put("pack", [out["pack"] EXCEPT
                      !.copies = @ \cup { name \in mem.names : OnDisk(name) }])
    /\ Verdict(\A name \in mem.names : OnDisk(name))
    /\ UNCHANGED << head, file, rec, reviewed, touched, bounds >>

(* With errors the whole pack is removed, else it gets its index.            *)
PackIndex ==
    /\ At("pack-index")
    /\ IF mem.passed
       THEN Put("pack", [out["pack"] EXCEPT !.index = @ \cup out["pack"].copies])
       ELSE Put("pack", NoFile)
    /\ Finish(mem.passed)
    /\ UNCHANGED << head, file, rec, reviewed, touched, bounds >>
-----------------------------------------------------------------------------
(* build_release_rollback_package and validate_release_rollback_package.     *)

(* collect_paths: the evidence, the note, the review and every file the      *)
(* evidence has a path for.                                                *)
RolledBack(e) ==
    { "evidence", "note", "review", "ex5", "log", "compile", "privacy" }
      \cup (IF e.set = NoSet THEN {} ELSE {"set"})

(* The paths are taken from the evidence ...                                *)
RollbackRead ==
    /\ At("rollback-read")
    /\ Start
    /\ IF Exists("evidence") /\ \A name \in RolledBack(rec["evidence"]) : OnDisk(name)
       THEN Remember([Blank EXCEPT !.names = RolledBack(rec["evidence"])])
       ELSE Refuse
    /\ UNCHANGED << head, file, rec, out, reviewed, bounds >>

(* ... then all files are hashed, the evidence among them, ...               *)
RollbackHash ==
    /\ At("rollback-hash")
    /\ IF \A name \in mem.names : OnDisk(name)
       THEN Remember([mem EXCEPT !.hashes = [name \in mem.names |-> Sha(Content(name))]])
       ELSE Refuse
    /\ UNCHANGED << head, file, rec, out, reviewed, touched, bounds >>

(* ... and read again into the ZIP, whose last entry is the manifest.  Of a    *)
(* zipped file the model keeps whether it still has the hash in the manifest.  *)
RollbackZip ==
    /\ At("rollback-zip")
    /\ LET zipped == { name \in mem.names : OnDisk(name) }
       IN /\ Put("rollback",
                 [manifest |-> IF zipped = mem.names THEN mem.names ELSE {},
                  intact |-> { name \in zipped : Sha(Content(name)) = mem.hashes[name] }])
          /\ Finish(zipped = mem.names)
    /\ UNCHANGED << head, file, rec, reviewed, touched, bounds >>

ValidRollback(zip) ==
    Cardinality(zip.manifest) >= 3 /\ zip.manifest \subseteq zip.intact

RollbackCheck ==
    /\ At("rollback-check")
    /\ Verdict(out["rollback"] # NoFile /\ ValidRollback(out["rollback"]))
    /\ UNCHANGED << head, file, rec, out, reviewed, touched, bounds >>
-----------------------------------------------------------------------------
Validate ==
    \/ \E step \in { "status-r10", "export-r10" } : CheckR10(step)
    \/ \E step \in { "status-base", "export-base", "package-base" } : CheckBase(step)
    \/ \E step \in { "review-check", "status-review", "export-review", "package-review" } :
          CheckReviewR10(step)
    \/ \E step \in { "review-base", "status-review-base", "export-review-base",
                     "package-review-base" } : CheckReview(step)

ShowTruth ==
    \/ \E step \in { "dashboard-page", "package-page" } : DrawPage(step)
    \/ \E step \in { "dashboard-print", "package-print" } : PrintPage(step)
    \/ \E step \in { "dashboard-pass", "package-pass" } : RequirePass(step)
    \/ \E step \in { "drift-read", "package-drift-read" } : ReadForDrift(step)
    \/ \E step \in { "drift-check", "package-drift" } : CheckDrift(step)

Archive ==
    \/ PackScan("pack-scan", PackedFirst) \/ PackScan("pack-rescan", PackedRest)
    \/ \E step \in { "pack-first", "pack-rest" } : PackCopy(step)
    \/ PackIndex
    \/ RollbackRead \/ RollbackHash \/ RollbackZip \/ RollbackCheck

Work ==
    \/ Compile \/ SignPrivacy \/ RunTrials \/ Consent \/ StaticSuite
    \/ \E step \in { "compile-check", "privacy-check", "trials-check", "consent-check" } :
          CheckPapers(step)
    \/ FillEvidence \/ Review \/ CopyReview
    \/ Validate \/ ShowTruth
    \/ StatusRead \/ StatusWrite \/ StatusCheck
    \/ ExportRead \/ ExportConsent \/ ExportLoad \/ ExportHead \/ ExportHash
    \/ ExportWrite \/ ExportManifest
    \/ PackageR10 \/ PackageCheck \/ PackageScan \/ PackageCopy \/ PackageIndex
    \/ Archive
-----------------------------------------------------------------------------
(* What happens around the tools.                                          *)

Change(thing) ==
    /\ thing \in Disturbed
    /\ changes + jumps < MaxDisturbances /\ changes' = changes + 1
    /\ touched' = touched \cup {thing}

MoveHead(commit) ==
    /\ Change("head")
    /\ commit # head
    /\ head' = commit
    /\ UNCHANGED << file, rec, out, mem, at, reviewed, jumps >>

(* A file is rewritten or removed, or a secret gets into a document, which    *)
(* may grow large.                                                         *)
ChangeFile(f) ==
    /\ Change(f)
    /\ There(f)
    /\ \E content \in { Absent, [file[f] EXCEPT !.n = Today + 1, !.secret = f = "docs"],
                        [file[f] EXCEPT !.n = Today + 1, !.secret = f = "docs",
                                        !.large = f = "docs"] } :
          file' = [file EXCEPT ![f] = content]
    /\ UNCHANGED << head, rec, out, mem, at, reviewed, jumps >>

(* What the owner of a record, or a hand on the file, may turn it into.      *)
Amended(kind) ==
    LET r == rec[kind]
    IN CASE kind = "compile" -> { [r EXCEPT !.clean = FALSE] }
         [] kind = "privacy" -> { [r EXCEPT !.approved = FALSE] }
                                \cup { [r EXCEPT !.jurisdiction = c] : c \in Countries }
         [] kind = "risk"    -> { [r EXCEPT !.accepted = FALSE] }
                                \cup { [r EXCEPT !.jurisdiction = c] : c \in Countries }
         [] kind = "entitlement" -> { [r EXCEPT !.expires = r.issued] }
         [] kind = "smoke"   -> { [r EXCEPT !.frozen = FALSE] }
         [] kind = "drill"   -> { [r EXCEPT !.demo = FALSE] }
         [] kind = "harness" -> { [r EXCEPT !.scenarios = FALSE] }
         [] kind = "static"  -> { [r EXCEPT !.result = "FAILED"], [r EXCEPT !.sha = Nothing] }
                                \cup { [r EXCEPT !.sha = c] : c \in Commits }
         [] kind = "review"  -> { [r EXCEPT !.decision = "NO-GO"],
                                  [r EXCEPT !.digest = Unsigned] }
         [] kind = "evidence" ->
              { [r EXCEPT !.gates = FALSE], [r EXCEPT !.operator = FALSE],
                [r EXCEPT !.secure = FALSE], [r EXCEPT !.sections = "failed"],
                [r EXCEPT !.material = Today + 1], [r EXCEPT !.final.decision = "NO-GO"] }

(* A record is removed, edited by hand under its old digest, or replaced    *)
(* with a signed one.  Nobody signs a review but the reviewer.              *)
ChangePaper(kind) ==
    /\ Change(kind)
    /\ Exists(kind)
    /\ \/ Save(kind, NoFile)
       \/ \E record \in Amended(kind) \ {rec[kind]} :
             \/ Save(kind, record)
             \/ kind \in { "compile", "privacy", "risk" } /\ Save(kind, Signed(record))
    /\ UNCHANGED << head, file, out, mem, at, reviewed, jumps >>

(* Instead of starting over, or when done, the operator resumes at the       *)
(* beginning of any tool.                                                  *)
Jump(i) ==
    /\ at \in { 1, Len(Steps) + 1 }
    /\ changes + jumps < MaxDisturbances /\ jumps' = jumps + 1
    /\ Steps[i] \in Beginnings
    /\ at' = i
    /\ UNCHANGED << head, file, rec, out, mem, reviewed, touched, changes >>

Rest == at > Len(Steps) /\ UNCHANGED vars

Disturb ==
    \/ \E commit \in Commits : MoveHead(commit)
    \/ \E f \in Files : ChangeFile(f)
    \/ \E kind \in Papers : ChangePaper(kind)
    \/ \E i \in 1 .. Len(Steps) : Jump(i)

Next == Work \/ Disturb \/ Rest
Spec == Init /\ [][Next]_vars
(* The operator goes on until everything is delivered.                      *)
FairSpec == Spec /\ WF_vars(Work)
-----------------------------------------------------------------------------
StatusGo  == out["status"] # NoFile /\ out["status"].result.overall = "GO"
Exported  == out["preset"] # NoFile
Announced == out["package"] # NoFile /\ out["package"].announced
Renewed(output) == out'[output] # out[output]
Untouched(things) == touched \cap things = {}

(* A reviewer signed GO for the basis, and one for the two digests: the two   *)
(* halves of the review's validator read evidence and review on their own.   *)
Reviewed(seen) ==
    /\ \E a \in reviewed : a.basis = seen.basis
    /\ \E a \in reviewed : a.compile = seen.compile /\ a.privacy = seen.privacy

(* Whatever is changed in the evidence after the review, between the tools   *)
(* or between two reads of one tool, a GO status, a preset and a customer    *)
(* package only exist when the evidence their review validators read had     *)
(* exactly the basis, compile and privacy digests a reviewer signed GO for.  *)
GoWasReviewed ==
    /\ StatusGo  => Reviewed(out["status"].seen)
    /\ Exported  => Reviewed(out["preset"].seen)
    /\ Announced => Reviewed(out["package"].seen)

(* What a GO claims of the world, claim by claim: each holds when the tool is *)
(* done as long as the things it is about were left alone since it began.    *)
CompileClaim(e) ==
    Untouched({ "compile" }) =>
      LET c == rec["compile"]
      IN /\ Exists("compile")
         /\ c.sha = e.sha /\ c.clean /\ c.digest = Digest(c) /\ c.digest = e.compile.digest
         /\ Untouched({ "log" }) => c.log = Sha(file["log"])
         /\ Untouched({ "ex5" }) => c.ex5 = Sha(file["ex5"])
PrivacyClaim(e) ==
    Untouched({ "privacy" }) =>
      LET p == rec["privacy"]
      IN /\ Exists("privacy")
         /\ p.sha = e.sha /\ p.approved /\ p.digest = Digest(p)
         /\ p.jurisdiction = e.privacy.jurisdiction
BaseClaim(e) ==
    /\ e.gates /\ e.operator /\ e.sections = "valid"
    /\ Untouched({ "head" }) => head = e.sha
    /\ Untouched({ "ex5" }) => e.ex5 = Sha(file["ex5"])
    /\ Untouched({ "set" }) /\ e.set # NoSet => e.set = Sha(file["set"])
ReviewClaim(e) ==
    Untouched({ "review" }) =>
      Exists("review") /\ rec["review"].decision = "GO" /\ Answered(e) \in reviewed
Certified(commit) ==
    Untouched({ "evidence" }) =>
      LET e == rec["evidence"]
      IN /\ Exists("evidence") /\ e.sha = commit
         /\ CompileClaim(e) /\ PrivacyClaim(e) /\ BaseClaim(e) /\ ReviewClaim(e)

(* The customer accepted the risks in the jurisdiction of the sign-off, and   *)
(* the trading parameters are those of the certified SET.                   *)
Permitted(lines) ==
    /\ Untouched({ "risk" }) => rec["risk"].accepted
    /\ Untouched({ "privacy", "risk" }) =>
          rec["risk"].jurisdiction = rec["privacy"].jurisdiction
    /\ Untouched({ "set" }) /\ lines.InpReleaseSetSha256 # NoSet =>
          Sha(lines.trading) = lines.InpReleaseSetSha256

(* A GO status, a preset or an announced package is issued for HEAD, for the  *)
(* binary, SET and compile log on disk, with a clean compile record and an    *)
(* approved sign-off of that very commit, and evidence its reviewer answered  *)
(* for.  A tool reads these at different moments: a thing that changes while  *)
(* it runs can spoil no claim but the ones about that thing.                 *)
IssuedForTheWorld ==
    [][/\ Renewed("status") /\ StatusGo' => Certified(out'["status"].result.candidate)
       /\ Renewed("preset") /\ Exported' =>
             LET lines == out'["preset"].lines
             IN Certified(lines.InpReleaseSourceCommitSha) /\ Permitted(lines)
       /\ Renewed("package") /\ Announced' => Certified(out'["package"].evidence.sha)]_vars

(* An announced package ships the EX5 and SET the evidence in its manifest     *)
(* names, whatever path the packager was given, unless they changed under    *)
(* its hands, and a reviewer answered for that evidence.                    *)
ShippedIsCertified ==
    [][Renewed("package") /\ Announced' =>
         LET package == out'["package"]
         IN /\ Untouched({ "handout" }) =>
                  Sha(package.files["handout"]) = package.evidence.ex5
            /\ Untouched({ "set" }) /\ WithSet =>
                  Sha(package.files["set"]) = package.evidence.set
            /\ Untouched({ "evidence", "review" }) =>
                  Answered(package.evidence) \in reviewed]_vars

(* The dashboard in an announced package was made of the very evidence its     *)
(* drift check read, and of the evidence of the manifest unless that was      *)
(* changed in between.  It never says HOLD.  HEAD is asked five times: the    *)
(* page may say NO-GO when HEAD moved meanwhile, else it says PASS.          *)
PackagedDashboardIsTrue ==
    [][Renewed("package") /\ Announced' =>
         LET package == out'["package"]
         IN /\ package.page.evidence = package.drift
            /\ Untouched({ "evidence" }) => package.page.evidence = Sha(package.evidence)
            /\ package.page.overall # "HOLD"
            /\ Untouched({ "head" }) => package.page.overall = "PASS"]_vars

(* build and validate agree: every status the builder writes, GO or HOLD,     *)
(* from whatever static text and evidence, is one its validator accepts.      *)
StatusAlwaysValidates == out["status"] # NoFile => ValidStatus(out["status"].result)

(* The tools do not stand in each other's way: recording the GO in the        *)
(* evidence does not invalidate the review it came from, and once nothing is  *)
(* disturbed any more an operator who keeps going delivers everything.        *)
CandidateDelivered == <>[](at > Len(Steps))
====
