------------------------------ MODULE CiEvidence ------------------------------
(***************************************************************************)
(* The executed-CI evidence of a release candidate: the two jobs of        *)
(* .github/workflows/static-quality.yml, the five tools they run           *)
(* (run_release_checks, fetch_ci_job_metadata, build_ci_evidence,          *)
(* validate_ci_evidence, build_ci_bundle_manifest, validate_ci_bundle) and *)
(* the ci_static section that validate_release_evidence later checks       *)
(* against the files an operator has downloaded.                           *)
(*                                                                         *)
(* A file's content is a record; Sha of a content is injective, so two     *)
(* digests are equal exactly when the contents are.  Commits name the      *)
(* workflow runs too: a push of a commit is one run, re-run as attempts.   *)
(***************************************************************************)
EXTENDS Naturals, FiniteSets

CONSTANTS
    Commits,        \* commits pushed to the branch, one workflow run each
    Checks,         \* the checkers of run_release_checks.CHECKS
    MaxAttempts,    \* bound: attempts of all workflow runs together
    MaxTouches,     \* bound: what the operator does to the downloaded files
    MixedRebuild    \* may the operator rebuild a manifest over mixed files?

ASSUME CommitsAssumption == Commits # {}
ASSUME ChecksAssumption == IsFiniteSet(Checks) /\ Checks # {}
ASSUME BoundsAssumption == MaxAttempts \in Nat \ {0} /\ MaxTouches \in Nat
ASSUME MixedRebuildAssumption == MixedRebuild \in BOOLEAN

Attempts == [run : Commits, attempt : 1 .. MaxAttempts]

RequiredFiles ==
    { "static-check.txt", "static-check-ci.txt", "ci-job-metadata.json",
      "ci-evidence.json", "ci-evidence-validation.txt",
      "ci-evidence-manifest.txt", "ci-attestation-verify.txt" }
RawFiles == { "static-check.txt", "static-check-ci.txt" }
BundleFiles ==
    RequiredFiles \cup { "ci-bundle-manifest.json", "ci-bundle-validation.txt" }

Sha(content) == << "sha256", content >>
Absent  == [kind |-> "absent"]
Empty   == [kind |-> "empty"]       \* left by touch
Damaged == [kind |-> "damaged"]     \* a truncated download: parses as nothing
NoFiles == [f \in BundleFiles |-> Absent]
Exists(files, f) == files[f] # Absent

RequiredSteps == 7
StepsOfARun   == 8    \* steps the static job has completed when all went well

VARIABLES
    started,    \* attempts of each workflow run so far
    now,        \* the attempt in progress (or the last one)
    phase,      \* the next step of the workflow, "idle" between attempts
    job,        \* the static job of this attempt, as GitHub knows it
    raw,        \* the raw artifact each attempt uploaded
    work,       \* files in the working directory of the job in progress
    gate,       \* how each attempt's workflow concluded
    artifacts,  \* the final artifact each attempt uploaded
    attested,   \* digests GitHub holds an attestation for
    executed,   \* attempts in which every check ran on the commit and passed
    dir,        \* the directory the operator downloads bundles into
    ci,         \* the ci_static section of the release evidence
    touches

vars == << started, now, phase, job, raw, work, gate, artifacts, attested,
           executed, dir, ci, touches >>
github   == << started, now, job, raw, gate, artifacts, attested, executed >>
operator == << dir, ci, touches >>

NoAttempt == [run |-> CHOOSE c \in Commits : TRUE, attempt |-> 0]
NoJob == [outcome |-> "none", shape |-> "none", result |-> "running",
          runner |-> 0, steps |-> 0]
NoRecord == [kind |-> "none"]

StaticPhases == { "checks", "shape", "rawUpload" }
ChainPhases == { "download", "metadata", "evidence", "validate", "attest",
                 "verify", "bundle", "bundleValidate" }

-----------------------------------------------------------------------------
(* The tools. *)

(* run_release_checks: the aggregate text names the commit and ends in      *)
(* RESULT=PASS when no checker is missing or exits nonzero.                 *)
SuiteText(name, at, failing) ==
    [kind |-> name, at |-> at,
     result |-> IF failing = {} THEN "PASS" ELSE "FAILED"]

(* fetch_ci_job_metadata: what the jobs API says of the exact attempt.      *)
Metadata(at, status, conclusion) ==
    [kind |-> "ci-job-metadata", run_id |-> at.run, run_attempt |-> at.attempt,
     head_sha |-> at.run, runner_id |-> job.runner,
     steps_executed |-> job.steps, status |-> status, conclusion |-> conclusion]

CapturePasses(meta) ==
    /\ meta.status = "completed"
    /\ meta.conclusion = "success"
    /\ meta.runner_id > 0
    /\ meta.steps_executed >= RequiredSteps

(* build_ci_evidence.main, in the checkout of commit head.                  *)
EvidenceResult(files, head, outcome) ==
    LET meta == files["ci-job-metadata.json"]
        text == files["static-check.txt"]
    IN IF /\ outcome = "success"
          /\ Exists(files, "static-check-ci.txt")
          /\ text.kind = "static-check" /\ text.result = "PASS"
          /\ meta.kind = "ci-job-metadata"
          /\ meta.head_sha = head
          /\ meta.runner_id > 0
          /\ meta.conclusion = "success"
          /\ meta.steps_executed >= RequiredSteps
       THEN "PASS" ELSE "FAIL"

Evidence(files, head, outcome) ==
    LET meta == files["ci-job-metadata.json"]
    IN [kind |-> "ci-evidence", run_id |-> meta.run_id,
        run_attempt |-> meta.run_attempt, runner_id |-> meta.runner_id,
        steps_executed |-> meta.steps_executed,
        static_job_conclusion |-> meta.conclusion,
        head_sha |-> head, source_manifest |-> Sha(head),
        static_outcome |-> outcome,
        result |-> EvidenceResult(files, head, outcome),
        static_check_sha256 |-> Sha(files["static-check.txt"]),
        ci_log_sha256 |-> Sha(files["static-check-ci.txt"]),
        job_metadata_sha256 |-> Sha(meta)]

(* validate_ci_evidence.validate_job_metadata *)
ValidJobMetadata(meta, expected) ==
    /\ meta.kind = "ci-job-metadata"
    /\ meta.runner_id > 0
    /\ meta.run_attempt > 0
    /\ meta.steps_executed >= RequiredSteps
    /\ meta.status = "completed"
    /\ meta.conclusion = "success"
    /\ meta.head_sha = expected

(* The pairs that validate_ci_value, the bundle builder and the bundle      *)
(* validator compare.                                                       *)
SameIdentity(a, b) ==
    /\ a.run_id = b.run_id
    /\ a.run_attempt = b.run_attempt
    /\ a.runner_id = b.runner_id
    /\ a.steps_executed = b.steps_executed

(* The part of validate_ci_value that reads the record alone.  A record the *)
(* builder wrote carries its own digest; a damaged one has none.            *)
ValidCiFields(e, expected) ==
    /\ e.kind = "ci-evidence"
    /\ e.run_attempt > 0
    /\ e.runner_id > 0
    /\ e.steps_executed >= RequiredSteps
    /\ e.static_job_conclusion = "success"
    /\ e.head_sha = expected
    /\ e.static_outcome = "success"
    /\ e.result = "PASS"

MetadataMatches(e, meta, expected) ==
    /\ ValidJobMetadata(meta, expected)
    /\ Sha(meta) = e.job_metadata_sha256
    /\ SameIdentity(e, meta)
    /\ meta.head_sha = e.head_sha
    /\ meta.conclusion = e.static_job_conclusion

RawOutputMatches(e, files) ==
    LET text == files["static-check.txt"]
    IN /\ Sha(text) = e.static_check_sha256
       /\ text.kind = "static-check" /\ text.result = "PASS"
       /\ Sha(files["static-check-ci.txt"]) = e.ci_log_sha256

ValidCiEvidence(files, expected) ==
    LET e == files["ci-evidence.json"]
    IN /\ ValidCiFields(e, expected)
       /\ RawOutputMatches(e, files)
       /\ MetadataMatches(e, files["ci-job-metadata.json"], expected)

(* --check-current-manifest: the evidence was built in this very checkout.  *)
CurrentCheckout(e, head) == e.source_manifest = Sha(head) /\ e.head_sha = head

(* build_ci_bundle_manifest.main: its refusals, then the manifest.          *)
Bundleable(files) ==
    LET e == files["ci-evidence.json"]
        meta == files["ci-job-metadata.json"]
    IN /\ \A f \in RequiredFiles : Exists(files, f)
       /\ e.kind = "ci-evidence" /\ meta.kind = "ci-job-metadata"
       /\ files["ci-attestation-verify.txt"].kind = "attestation-pass"
       /\ SameIdentity(e, meta)
       /\ e.head_sha = meta.head_sha

BundleManifest(files, name) ==
    LET e == files["ci-evidence.json"]
    IN [kind |-> "ci-bundle-manifest", candidate_sha |-> e.head_sha,
        artifact_name |-> name,
        run_id |-> e.run_id, run_attempt |-> e.run_attempt,
        runner_id |-> e.runner_id, steps_executed |-> e.steps_executed,
        files |-> [f \in RequiredFiles |-> Sha(files[f])]]

(* Faulty variant: the listed files must exist, and their hashes are not     *)
(* compared.                                                                *)
FilesPresent(m, files) ==
    \A f \in RequiredFiles : f \in DOMAIN m.files /\ Exists(files, f)

(* validate_ci_bundle.validate_bundle *)
FilesMatch(m, files) ==
    \A f \in RequiredFiles : Exists(files, f) /\ Sha(files[f]) = m.files[f]

ValidBundle(files, expected) ==
    LET m == files["ci-bundle-manifest.json"]
    IN /\ m.kind = "ci-bundle-manifest"
       /\ m.candidate_sha = expected
       /\ m.run_attempt > 0 /\ m.runner_id > 0
       /\ m.steps_executed >= RequiredSteps
       /\ FilesMatch(m, files)
       /\ ValidCiEvidence(files, m.candidate_sha)
       /\ SameIdentity(m, files["ci-evidence.json"])
       /\ m.candidate_sha = files["ci-evidence.json"].head_sha
       /\ files["ci-attestation-verify.txt"].kind = "attestation-pass"

(* validate_release_evidence.validate_ci_release_record, on the files of    *)
(* the operator's directory and the ci_static section r.                    *)
ValidCiRecord(r, files, expected) ==
    LET e == files["ci-evidence.json"]
        m == files["ci-bundle-manifest.json"]
    IN /\ r.kind = "ci_static"
       /\ r.runner_id > 0 /\ r.steps_executed >= RequiredSteps
       /\ r.head_sha = expected
       /\ r.conclusion = "success"
       /\ ValidCiFields(e, expected)
       /\ MetadataMatches(e, files["ci-job-metadata.json"], expected)
       /\ Sha(e) = r.evidence_digest
       /\ SameIdentity(r, e)
       /\ r.conclusion = e.static_job_conclusion
       /\ files["ci-attestation-verify.txt"].kind = "attestation-pass"
       /\ ValidBundle(files, expected)
       /\ Sha(m) = r.bundle_digest
       /\ SameIdentity(r, m)
       /\ r.artifact_name = m.artifact_name
       /\ files["ci-bundle-validation.txt"].kind = "bundle-validation"
       /\ files["ci-bundle-validation.txt"].pass

-----------------------------------------------------------------------------
Init ==
    /\ started = [c \in Commits |-> 0]
    /\ now = NoAttempt
    /\ phase = "idle"
    /\ job = NoJob
    /\ raw = [a \in Attempts |-> NoFiles]
    /\ work = NoFiles
    /\ gate = [a \in Attempts |-> "none"]
    /\ artifacts = [a \in Attempts |-> NoFiles]
    /\ attested = {}
    /\ executed = {}
    /\ dir = NoFiles
    /\ ci = NoRecord
    /\ touches = 0

(* Starting an attempt. *)

Conclude(a, conclusion) == gate' = [gate EXCEPT ![a] = conclusion]

AttemptsSoFar == { a \in Attempts : a.attempt <= started[a.run] }

Begin(c, first) ==
    /\ Cardinality(AttemptsSoFar) < MaxAttempts
    /\ started' = [started EXCEPT ![c] = @ + 1]
    /\ now' = [run |-> c, attempt |-> started[c] + 1]
    /\ phase' = first
    /\ work' = NoFiles

(* A push starts the first attempt of its run and, through the concurrency  *)
(* group with cancel-in-progress, ends the one in progress.                 *)
Push(c) ==
    /\ started[c] = 0
    /\ Begin(c, "checks")
    /\ job' = NoJob
    /\ IF phase = "idle" THEN UNCHANGED gate ELSE Conclude(now, "failure")
    /\ UNCHANGED << raw, artifacts, attested, executed, operator >>

(* Re-run all jobs of a concluded run. *)
RerunAll(c) ==
    /\ phase = "idle" /\ started[c] > 0
    /\ Begin(c, "checks")
    /\ job' = NoJob
    /\ UNCHANGED << raw, gate, artifacts, attested, executed, operator >>

(* Re-run failed jobs after only the evidence job failed: the static job is *)
(* carried over with its outputs, and does not execute in the new attempt.  *)
RerunFailed(c) ==
    /\ phase = "idle" /\ now.run = c /\ started[c] > 0
    /\ job.result = "success" /\ gate[now] = "failure"
    /\ Begin(c, "download")
    /\ UNCHANGED << job, raw, gate, artifacts, attested, executed, operator >>

(* The static-release-gate job. *)

(* No runner is allocated: the job fails with runner_id 0 and no steps.     *)
NoRunner ==
    /\ phase = "checks"
    /\ job' = [NoJob EXCEPT !.result = "failure"]
    /\ phase' = "download"
    /\ UNCHANGED << started, now, raw, work, gate, artifacts, attested,
                    executed, operator >>

(* run_release_checks under pipefail, its console copied by tee.            *)
RunChecks(failing) ==
    /\ phase = "checks"
    /\ job' = [job EXCEPT !.runner = 1,
                  !.outcome = IF failing = {} THEN "success" ELSE "failure"]
    /\ work' = [work EXCEPT
          !["static-check.txt"] = SuiteText("static-check", now, failing),
          !["static-check-ci.txt"] = SuiteText("static-check-ci", now, failing)]
    /\ executed' = IF failing = {} THEN executed \cup {now} ELSE executed
    /\ phase' = "shape"
    /\ UNCHANGED << started, now, raw, gate, artifacts, attested, operator >>

(* The suite dies before it writes its result: only the console copy is     *)
(* there.                                                                   *)
ChecksDie ==
    /\ phase = "checks"
    /\ job' = [job EXCEPT !.runner = 1, !.outcome = "failure"]
    /\ work' = [work EXCEPT
          !["static-check-ci.txt"] = SuiteText("static-check-ci", now, Checks)]
    /\ phase' = "shape"
    /\ UNCHANGED << started, now, raw, gate, artifacts, attested, executed,
                    operator >>

(* "Validate raw static output shape", then the touch of the manifest step. *)
CheckShape ==
    /\ phase = "shape"
    /\ job' = [job EXCEPT !.shape = IF \A f \in RawFiles : Exists(work, f)
                                    THEN "success" ELSE "failure"]
    /\ work' = [f \in BundleFiles |->
          IF f \in RawFiles /\ ~Exists(work, f) THEN Empty ELSE work[f]]
    /\ phase' = "rawUpload"
    /\ UNCHANGED << started, now, raw, gate, artifacts, attested, executed,
                    operator >>

(* Faulty variant: the name carries the commit alone.                       *)
RawNameOfRun(a) == [a EXCEPT !.attempt = 1]

(* The raw artifact carries the commit and the attempt in its name.         *)
RawName(a) == a

(* "Upload raw static evidence" and "Enforce raw static gate": they end the *)
(* job, whose result counts the upload and both outcomes.                   *)
UploadRaw(ok) ==
    /\ phase = "rawUpload"
    /\ raw' = IF ok THEN [raw EXCEPT ![RawName(now)] = work] ELSE raw
    /\ job' = [job EXCEPT !.steps = StepsOfARun,
          !.result = IF ok /\ job.outcome = "success" /\ job.shape = "success"
                     THEN "success" ELSE "failure"]
    /\ work' = NoFiles
    /\ phase' = "download"
    /\ UNCHANGED << started, now, gate, artifacts, attested, executed, operator >>

(* The ci-evidence-bundle job: each step runs only if the one before it     *)
(* succeeded; the upload of the final artifact always runs.                 *)

Advance(ok, next) == phase' = IF ok THEN next ELSE "lost"

(* Faulty variant: the job waits for the artifact.                          *)
WaitForRaw ==
    /\ phase = "download"
    /\ \A f \in RawFiles : Exists(raw[RawName(now)], f)
    /\ work' = raw[RawName(now)]
    /\ phase' = "metadata"
    /\ UNCHANGED << github, operator >>

DownloadRaw ==
    /\ phase = "download"
    /\ LET got == raw[RawName(now)]
       IN /\ work' = got
          /\ Advance(\A f \in RawFiles : Exists(got, f), "metadata")
    /\ UNCHANGED << github, operator >>

(* fetch_ci_job_metadata.main: the API may still show the job in progress,  *)
(* and does not list a job that the attempt only carried over, or does.     *)
CaptureMetadata(status, listed) ==
    /\ phase = "metadata"
    /\ listed \/ now \notin executed
    /\ LET meta == Metadata(now, status,
                        IF status = "completed" THEN job.result ELSE "")
       IN /\ work' = IF listed
                     THEN [work EXCEPT !["ci-job-metadata.json"] = meta]
                     ELSE work
          /\ Advance(listed /\ CapturePasses(meta), "evidence")
    /\ UNCHANGED << github, operator >>

(* build_ci_evidence writes its record also when the result is FAIL; the    *)
(* hash list of the step is written only after exit code 0.                 *)
BuildEvidence ==
    /\ phase = "evidence"
    /\ LET e == Evidence(work, now.run, job.outcome)
           ok == e.result = "PASS"
       IN /\ work' = [work EXCEPT
                !["ci-evidence.json"] = e,
                !["ci-evidence-manifest.txt"] =
                     IF ok THEN [kind |-> "hash-list", of |-> Sha(e)] ELSE @]
          /\ Advance(ok, "validate")
    /\ UNCHANGED << github, operator >>

(* validate_ci_evidence.main with --expected-sha --check-current-manifest   *)
ValidateEvidence ==
    /\ phase = "validate"
    /\ LET e == work["ci-evidence.json"]
           ok == ValidCiEvidence(work, now.run) /\ CurrentCheckout(e, now.run)
       IN /\ work' = [work EXCEPT !["ci-evidence-validation.txt"] =
                [kind |-> "evidence-validation", pass |-> ok, of |-> Sha(e)]]
          /\ Advance(ok, "attest")
    /\ UNCHANGED << github, operator >>

(* actions/attest: the attestation may not be retrievable yet when the next *)
(* step asks for it.                                                        *)
Attest(visible) ==
    /\ phase = "attest"
    /\ attested' = IF visible THEN attested \cup {Sha(work["ci-evidence.json"])}
                   ELSE attested
    /\ phase' = "verify"
    /\ UNCHANGED << started, now, job, raw, work, gate, artifacts, executed,
                    operator >>

(* gh attestation verify: the PASS marker is written only when it returns 0 *)
AttestationKnown(digest) == digest \in attested

VerifyAttestation ==
    /\ phase = "verify"
    /\ LET digest == Sha(work["ci-evidence.json"])
       IN /\ work' = IF AttestationKnown(digest)
                     THEN [work EXCEPT !["ci-attestation-verify.txt"] =
                             [kind |-> "attestation-pass", of |-> digest]]
                     ELSE work
          /\ Advance(AttestationKnown(digest), "bundle")
    /\ UNCHANGED << github, operator >>

BuildBundle ==
    /\ phase = "bundle"
    /\ work' = IF Bundleable(work)
               THEN [work EXCEPT !["ci-bundle-manifest.json"] =
                        BundleManifest(work, now)]
               ELSE work
    /\ Advance(Bundleable(work), "bundleValidate")
    /\ UNCHANGED << github, operator >>

WithVerdict(files, expected) ==
    [files EXCEPT !["ci-bundle-validation.txt"] =
        [kind |-> "bundle-validation", pass |-> ValidBundle(files, expected)]]

ValidateBundle ==
    /\ phase = "bundleValidate"
    /\ work' = WithVerdict(work, now.run)
    /\ Advance(ValidBundle(work, now.run), "upload")
    /\ UNCHANGED << github, operator >>

(* A step of the evidence job is lost to the infrastructure: an API error,  *)
(* a timeout, a cancellation.  What it should have written is not there.    *)
StepLost ==
    /\ phase \in ChainPhases
    /\ phase' = "lost"
    /\ UNCHANGED << github, work, operator >>

(* A static step likewise; GitHub reports the job cancelled.                *)
StaticJobLost ==
    /\ phase \in StaticPhases
    /\ job' = [job EXCEPT !.result = "cancelled"]
    /\ work' = NoFiles
    /\ phase' = "download"
    /\ UNCHANGED << started, now, raw, gate, artifacts, attested, executed,
                    operator >>

(* The condition of "Enforce executed CI evidence gate".                    *)
GateHolds == phase = "upload" /\ job.result = "success"

UploadBundle(ok) ==
    /\ phase \in { "upload", "lost" }
    /\ artifacts' = IF ok THEN [artifacts EXCEPT ![now] = work] ELSE artifacts
    /\ Conclude(now, IF ok /\ GateHolds THEN "success" ELSE "failure")
    /\ phase' = "idle"
    /\ work' = NoFiles
    /\ UNCHANGED << started, now, job, raw, attested, executed, operator >>

-----------------------------------------------------------------------------
(* The operator's directory and the ci_static section. *)

Touch == touches < MaxTouches /\ touches' = touches + 1

(* An artifact is unpacked over what the directory holds already.           *)
Unpack(a) ==
    /\ Touch
    /\ artifacts[a] # NoFiles
    /\ dir' = [f \in BundleFiles |->
                  IF Exists(artifacts[a], f) THEN artifacts[a][f] ELSE dir[f]]
    /\ UNCHANGED << github, phase, work, ci >>

Damage(f) ==
    /\ Touch
    /\ Exists(dir, f)
    /\ dir' = [dir EXCEPT ![f] = Damaged]
    /\ UNCHANGED << github, phase, work, ci >>

(* build_ci_bundle_manifest and validate_ci_bundle run on the directory: the *)
(* first over one artifact's files, or over whatever is there.              *)
OneArtifact(files) ==
    \E a \in Attempts : \A f \in RequiredFiles : files[f] = artifacts[a][f]

RebuildBundle ==
    /\ MixedRebuild \/ OneArtifact(dir)
    /\ Touch
    /\ Bundleable(dir)
    /\ LET m == BundleManifest(dir, [run |-> dir["ci-evidence.json"].run_id,
                         attempt |-> dir["ci-evidence.json"].run_attempt])
       IN dir' = [dir EXCEPT !["ci-bundle-manifest.json"] = m]
    /\ UNCHANGED << github, phase, work, ci >>

ValidateBundleLocally(expected) ==
    /\ Exists(dir, "ci-bundle-manifest.json")
    /\ dir["ci-bundle-manifest.json"] # Damaged
    /\ dir' = WithVerdict(dir, expected)
    /\ dir' # dir
    /\ UNCHANGED << github, phase, work, ci, touches >>

(* The operator copies identities and digests into the ci_static section.   *)
FillCiRecord ==
    LET e == dir["ci-evidence.json"]
        m == dir["ci-bundle-manifest.json"]
    IN /\ e.kind = "ci-evidence" /\ m.kind = "ci-bundle-manifest"
       /\ ci' = [kind |-> "ci_static", run_id |-> e.run_id,
                 run_attempt |-> e.run_attempt, runner_id |-> e.runner_id,
                 steps_executed |-> e.steps_executed, head_sha |-> e.head_sha,
                 conclusion |-> e.static_job_conclusion,
                 evidence_digest |-> Sha(e), bundle_digest |-> Sha(m),
                 artifact_name |-> m.artifact_name]
       /\ UNCHANGED << github, phase, work, dir, touches >>

-----------------------------------------------------------------------------
WorkflowStep ==
    \/ NoRunner
    \/ \E failing \in SUBSET Checks : RunChecks(failing)
    \/ ChecksDie
    \/ CheckShape
    \/ \E ok \in BOOLEAN : UploadRaw(ok)
    \/ DownloadRaw
    \/ \E status \in { "completed", "in_progress" }, listed \in BOOLEAN :
          CaptureMetadata(status, listed)
    \/ BuildEvidence
    \/ ValidateEvidence
    \/ \E visible \in BOOLEAN : Attest(visible)
    \/ VerifyAttestation
    \/ BuildBundle
    \/ ValidateBundle
    \/ \E ok \in BOOLEAN : UploadBundle(ok)

Next ==
    \/ \E c \in Commits : Push(c) \/ RerunAll(c) \/ RerunFailed(c)
    \/ WorkflowStep
    \/ StepLost
    \/ StaticJobLost
    \/ \E a \in Attempts : Unpack(a)
    \/ \E f \in BundleFiles : Damage(f)
    \/ RebuildBundle
    \/ \E c \in Commits : ValidateBundleLocally(c)
    \/ FillCiRecord

Spec == Init /\ [][Next]_vars

(* The runner takes the next step of a job it has started.                  *)
FairSpec == Spec /\ WF_vars(WorkflowStep)

-----------------------------------------------------------------------------
(* Properties. *)

AttemptOf(x) == [run |-> x.run_id, attempt |-> x.run_attempt]

(* "A created workflow run is not CI evidence": a ci_static section that    *)
(* validates for a commit, over whatever the operator's directory has come  *)
(* to hold, belongs to an attempt in which every check really ran on that   *)
(* commit and passed - not to a re-run that only carried the job over.      *)
AcceptedWasExecuted ==
    \A c \in Commits :
        ValidCiRecord(ci, dir, c) =>
            /\ ci.run_id = c
            /\ AttemptOf(ci) \in executed

(* A directory that validates as a bundle holds one attempt's files, whole: *)
(* its validation text says PASS and, like the attestation text, is about   *)
(* the evidence beside it, however the files got there.                     *)
ValidatedBundleIsWhole ==
    \A c \in Commits :
        ValidBundle(dir, c) =>
            LET e == dir["ci-evidence.json"]
            IN /\ dir["ci-evidence-validation.txt"] =
                    [kind |-> "evidence-validation", pass |-> TRUE, of |-> Sha(e)]
               /\ dir["ci-attestation-verify.txt"].of = Sha(e)
               /\ dir["ci-evidence-manifest.txt"].of = Sha(e)
               /\ dir["static-check.txt"].at = AttemptOf(e)

(* A green workflow has left a final artifact that validates on its own for *)
(* the commit, from an attempt whose checks all ran and passed.             *)
GreenLeavesBundle ==
    \A a \in Attempts :
        gate[a] = "success" =>
            /\ ValidBundle(artifacts[a], a.run)
            /\ artifacts[a]["ci-bundle-validation.txt"].kind = "bundle-validation"
            /\ artifacts[a]["ci-bundle-validation.txt"].pass
            /\ a \in executed

(* The evidence that validates is evidence GitHub holds an attestation for. *)
AcceptedIsAttested ==
    \A c \in Commits :
        ValidCiRecord(ci, dir, c) => ci.evidence_digest \in attested

(* Together: what a reader may rely on is whole and attested, a directory   *)
(* that validates and the artifact behind a green workflow alike.           *)
BundlesAreWhole ==
    ValidatedBundleIsWhole /\ GreenLeavesBundle /\ AcceptedIsAttested

(* An attempt concludes, green or not, whatever failed on the way.          *)
AttemptEnds == (phase # "idle") ~> (phase = "idle")

=============================================================================
