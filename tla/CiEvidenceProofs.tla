--------------------------- MODULE CiEvidenceProofs ---------------------------
(***************************************************************************)
(* Proofs about CiEvidence, for any commits and checks and any number of   *)
(* attempts and of touches of the operator's directory.                    *)
(***************************************************************************)
EXTENDS CiEvidence, FiniteSetTheorems, TLAPS

-----------------------------------------------------------------------------
(* The inductive invariant. *)

Files(w) == w = [f \in BundleFiles |-> w[f]]

Typed ==
    /\ started \in [Commits -> 0 .. MaxAttempts]
    /\ IsFiniteSet(AttemptsSoFar)
    /\ DOMAIN raw = Attempts /\ \A a \in Attempts : Files(raw[a])
    /\ DOMAIN artifacts = Attempts /\ \A a \in Attempts : Files(artifacts[a])
    /\ DOMAIN gate = Attempts
    /\ Files(work) /\ Files(dir)
    /\ phase # "idle" => now \in Attempts

(* What the files w that the jobs of attempt a made may claim, when ran are *)
(* the attempts whose checks passed and known the attested digests.         *)
Ran(w, a, ran) ==
    LET text == w["static-check.txt"]
    IN text.kind = "static-check" =>
          text.at = a /\ (text.result = "PASS" => a \in ran)

Captured(w, a) ==
    LET meta == w["ci-job-metadata.json"]
    IN meta.kind = "ci-job-metadata" => AttemptOf(meta) = a /\ meta.head_sha = a.run

Built(w, a, ran) ==
    LET e == w["ci-evidence.json"]
    IN e.kind = "ci-evidence" =>
          /\ AttemptOf(e) = a /\ e.head_sha = a.run
          /\ e.result = "PASS" => a \in ran

Checked(w) ==
    LET e == w["ci-evidence.json"]
    IN /\ e.kind = "ci-evidence"
       /\ w["static-check.txt"].kind = "static-check"
       /\ w["ci-evidence-manifest.txt"].of = Sha(e)
       /\ w["ci-evidence-validation.txt"] =
             [kind |-> "evidence-validation", pass |-> TRUE, of |-> Sha(e)]

Vouched(w, known) ==
    LET e == w["ci-evidence.json"]
        v == w["ci-attestation-verify.txt"]
    IN v.kind = "attestation-pass" =>
          Checked(w) /\ v.of = Sha(e) /\ Sha(e) \in known

Listed(w) == [f \in RequiredFiles |-> Sha(w[f])]
Bundled(w) ==
    LET m == w["ci-bundle-manifest.json"]
    IN m.kind = "ci-bundle-manifest" =>
          /\ w["ci-attestation-verify.txt"].kind = "attestation-pass"
          /\ m.files = Listed(w)

Made(w, a, ran, known) ==
    /\ Ran(w, a, ran) /\ Captured(w, a) /\ Built(w, a, ran)
    /\ Vouched(w, known) /\ Bundled(w)

RawOnly(w) == \A f \in BundleFiles \ RawFiles : w[f] = Absent

(* What the job has at the steps before which the next files are written.   *)
Staged ==
    /\ phase \in StaticPhases \cup {"metadata"} => RawOnly(work)
    /\ phase = "evidence" => work["ci-job-metadata.json"].kind = "ci-job-metadata"
    /\ phase \in {"evidence", "validate", "attest", "verify"}
          => work["ci-attestation-verify.txt"] = Absent
    /\ phase \in {"evidence", "validate", "attest", "verify", "bundle"}
          => work["ci-bundle-manifest.json"] = Absent
    /\ phase = "validate"
          => /\ work["ci-evidence.json"].kind = "ci-evidence"
             /\ work["ci-evidence-manifest.txt"].of = Sha(work["ci-evidence.json"])
    /\ phase \in {"attest", "verify"} => Checked(work)
    /\ phase = "upload"
          => /\ ValidBundle(work, now.run)
             /\ work["ci-bundle-validation.txt"].kind = "bundle-validation"
             /\ work["ci-bundle-validation.txt"].pass

JobInv ==
    /\ \A a \in Attempts : Made(raw[a], a, executed, attested) /\ RawOnly(raw[a])
    /\ \A a \in Attempts : Made(artifacts[a], a, executed, attested)
    /\ phase # "idle" => Made(work, now, executed, attested) /\ Staged

(* The operator's directory mixes the files of attempts, but one file stays *)
(* what its attempt wrote, and a manifest lists the files of one.           *)
EvidenceInv ==
    LET e == dir["ci-evidence.json"]
    IN e.kind = "ci-evidence" /\ e.result = "PASS" =>
          e.run_id = e.head_sha /\ AttemptOf(e) \in executed

\* Some attempt's files, vouched for, are what a manifest lists.
ListsOneAttempt(m, ran, known) ==
    \E w : \E a \in Attempts :
       /\ m.files = Listed(w)
       /\ Made(w, a, ran, known)
       /\ w["ci-attestation-verify.txt"].kind = "attestation-pass"

ManifestInv ==
    LET m == dir["ci-bundle-manifest.json"]
    IN m.kind = "ci-bundle-manifest" /\ ~MixedRebuild =>
          ListsOneAttempt(m, executed, attested)

IInv == Typed /\ JobInv /\ EvidenceInv /\ ManifestInv /\ GreenLeavesBundle

-----------------------------------------------------------------------------
(* Files. *)

LEMMA Names ==
    /\ RawFiles \subseteq RequiredFiles /\ RequiredFiles \subseteq BundleFiles
    /\ "ci-bundle-manifest.json" \in BundleFiles \ RequiredFiles
    /\ "ci-bundle-validation.txt" \in BundleFiles \ RequiredFiles
    /\ RawFiles = { "static-check.txt", "static-check-ci.txt" }
    /\ {"ci-job-metadata.json", "ci-evidence.json", "ci-evidence-validation.txt",
         "ci-evidence-manifest.txt", "ci-attestation-verify.txt"}
          = RequiredFiles \ RawFiles
  BY DEF RawFiles, RequiredFiles, BundleFiles

LEMMA Wrote ==
    ASSUME NEW w, Files(w), NEW x \in BundleFiles, NEW v
    PROVE  /\ Files([w EXCEPT ![x] = v]) /\ [w EXCEPT ![x] = v][x] = v
           /\ \A f \in BundleFiles : f # x => [w EXCEPT ![x] = v][f] = w[f]
  BY DEF Files

LEMMA Rewritten ==
    ASSUME NEW w, Files(w), NEW x, x = w \/ \E f, v : x = [w EXCEPT ![f] = v]
    PROVE  Files(x)
  <1>1. CASE \E f, v : x = [w EXCEPT ![f] = v]
    <2>1. PICK f, v : x = [w EXCEPT ![f] = v]
      BY <1>1
    <2> QED
      BY <2>1 DEF Files
  <1> QED
    BY <1>1

LEMMA ShaInjective ==
    ASSUME NEW a, NEW b, Sha(a) = Sha(b)
    PROVE  a = b
  BY DEF Sha

LEMMA NoneMade ==
    ASSUME NEW a, NEW ran, NEW known
    PROVE  /\ Files(NoFiles) /\ RawOnly(NoFiles) /\ Made(NoFiles, a, ran, known)
           /\ \A f \in BundleFiles : NoFiles[f] = Absent
  <1>1. \A f \in BundleFiles : NoFiles[f] = Absent
    BY DEF NoFiles
  <1>2. Files(NoFiles)
    BY DEF Files, NoFiles
  <1>3. Absent.kind = "absent"
    BY DEF Absent
  <1>4. Made(NoFiles, a, ran, known)
    BY <1>1, <1>3, Names DEF Made, Ran, Captured, Built, Vouched, Bundled
  <1> QED
    BY <1>1, <1>2, <1>4 DEF RawOnly

\* The claims of files only refer to what has been executed and attested, and
\* to the files of the bundle other than its validation text.
LEMMA MadeLasts ==
    ASSUME NEW a, NEW ran, NEW known, NEW ran2, NEW known2, NEW w, NEW v,
           ran \subseteq ran2, known \subseteq known2,
           \A f \in BundleFiles \ {"ci-bundle-validation.txt"} : v[f] = w[f],
           Made(w, a, ran, known)
    PROVE  Made(v, a, ran2, known2)
  <1>1. /\ v["static-check.txt"] = w["static-check.txt"]
        /\ v["ci-job-metadata.json"] = w["ci-job-metadata.json"]
        /\ v["ci-evidence.json"] = w["ci-evidence.json"]
        /\ v["ci-evidence-manifest.txt"] = w["ci-evidence-manifest.txt"]
        /\ v["ci-evidence-validation.txt"] = w["ci-evidence-validation.txt"]
        /\ v["ci-attestation-verify.txt"] = w["ci-attestation-verify.txt"]
        /\ v["ci-bundle-manifest.json"] = w["ci-bundle-manifest.json"]
    BY Names
  <1>2. Listed(v) = Listed(w)
    BY Names DEF Listed
  <1>3. Ran(v, a, ran2) /\ Captured(v, a) /\ Built(v, a, ran2)
    BY <1>1 DEF Made, Ran, Captured, Built
  <1>4. Vouched(v, known2)
    BY <1>1 DEF Made, Vouched, Checked
  <1>5. Bundled(v)
    BY <1>1, <1>2 DEF Made, Bundled
  <1> QED
    BY <1>3, <1>4, <1>5 DEF Made

-----------------------------------------------------------------------------
(* Types. *)

LEMMA Room ==
    ASSUME Typed, NEW c \in Commits, Cardinality(AttemptsSoFar) < MaxAttempts
    PROVE  started[c] \in Nat /\ started[c] + 1 \in 1 .. MaxAttempts
  <1>1. MaxAttempts \in Nat \ {0} /\ started[c] \in 0 .. MaxAttempts
    BY BoundsAssumption DEF Typed
  <1>2. started[c] # MaxAttempts
    <2> SUFFICES ASSUME started[c] = MaxAttempts
                 PROVE  FALSE
      OBVIOUS
    <2> DEFINE f == [i \in 1 .. MaxAttempts |-> [run |-> c, attempt |-> i]]
    <2>1. \A i \in 1 .. MaxAttempts : f[i] \in AttemptsSoFar
      BY <1>1 DEF AttemptsSoFar, Attempts
    <2>2. f \in [1 .. MaxAttempts -> AttemptsSoFar]
      BY <2>1
    <2>3. \A i, j \in 1 .. MaxAttempts : f[i] = f[j] => i = j
      <3> TAKE i, j \in 1 .. MaxAttempts
      <3>1. f[i].attempt = i /\ f[j].attempt = j
        OBVIOUS
      <3> QED
        BY <3>1
    <2>4. f \in Injection(1 .. MaxAttempts, AttemptsSoFar)
      BY <2>2, <2>3 DEF Injection, IsInjective
    <2>5. Cardinality(1 .. MaxAttempts) <= Cardinality(AttemptsSoFar)
      BY <2>4, FS_Injection DEF Typed
    <2>6. Cardinality(1 .. MaxAttempts) = MaxAttempts
      BY <1>1, FS_Interval
    <2>7. Cardinality(AttemptsSoFar) \in Nat
      BY FS_CardinalityType DEF Typed
    <2> QED
      BY <1>1, <2>5, <2>6, <2>7
  <1> QED
    BY <1>1, <1>2

LEMMA Begun ==
    ASSUME Typed, NEW c \in Commits, NEW first, Begin(c, first)
    PROVE  /\ now' \in Attempts /\ now'.run = c
           /\ started' \in [Commits -> 0 .. MaxAttempts]
           /\ IsFiniteSet(AttemptsSoFar')
           /\ work' = NoFiles /\ phase' = first
  <1>1. started[c] \in Nat /\ started[c] + 1 \in 1 .. MaxAttempts
    BY Room DEF Begin
  <1>2. started' = [started EXCEPT ![c] = started[c] + 1]
    BY DEF Begin
  <1>3. now' = [run |-> c, attempt |-> started[c] + 1]
    BY DEF Begin
  <1>4. now' \in Attempts /\ now'.run = c /\ now'.attempt = started[c] + 1
    BY <1>1, <1>3 DEF Attempts
  <1>5. started' \in [Commits -> 0 .. MaxAttempts]
    BY <1>1, <1>2 DEF Typed
  <1>6. AttemptsSoFar' \subseteq AttemptsSoFar \cup {now'}
    <2> SUFFICES ASSUME NEW a \in Attempts, a.attempt <= started'[a.run], a # now'
                 PROVE  a.attempt <= started[a.run]
      BY DEF AttemptsSoFar
    <2>1. a.run \in Commits /\ a.attempt \in Nat
          /\ a = [run |-> a.run, attempt |-> a.attempt]
      BY DEF Attempts
    <2>2. CASE a.run = c
      <3>1. a.attempt # started[c] + 1
        BY <1>3, <2>1, <2>2
      <3>2. started'[c] = started[c] + 1
        BY <1>2 DEF Typed
      <3> QED
        BY <1>1, <2>1, <2>2, <3>1, <3>2
    <2>3. CASE a.run # c
      BY <1>2, <2>1, <2>3 DEF Typed
    <2> QED
      BY <2>2, <2>3
  <1>7. IsFiniteSet(AttemptsSoFar \cup {now'})
    BY FS_AddElement DEF Typed
  <1>8. IsFiniteSet(AttemptsSoFar')
    BY <1>6, <1>7, FS_Subset
  <1> QED
    BY <1>4, <1>5, <1>8 DEF Begin

LEMMA TypedStart == Init => Typed
  <1> SUFFICES ASSUME Init
               PROVE  Typed
    OBVIOUS
  <1>1. MaxAttempts \in Nat
    BY BoundsAssumption
  <1>2. AttemptsSoFar = {}
    BY <1>1 DEF Init, AttemptsSoFar, Attempts
  <1> QED
    BY <1>1, <1>2, FS_EmptySet, NoneMade DEF Init, Typed

\* A file set stays one, whatever is written, spoiled or unpacked.
LEMMA FileSetsLast == Typed /\ [Next]_vars => Files(work') /\ Files(dir')
  <1> SUFFICES ASSUME Typed, [Next]_vars
               PROVE  Files(work') /\ Files(dir')
    OBVIOUS
  <1>0. /\ Files(work) /\ Files(dir)
        /\ \A a \in Attempts : Files(raw[a])
    BY DEF Typed
  <1>1. CASE \E c \in Commits : Push(c) \/ RerunAll(c) \/ RerunFailed(c)
    <2>1. work' = NoFiles /\ dir' = dir
      BY <1>1 DEF Push, RerunAll, RerunFailed, Begin, operator
    <2> QED
      BY <1>0, <2>1, NoneMade
  <1>2. CASE WorkflowStep
    <2>1. dir' = dir
      BY <1>2 DEF WorkflowStep, NoRunner, RunChecks, ChecksDie, CheckShape, UploadRaw,
             DownloadRaw, CaptureMetadata, BuildEvidence, ValidateEvidence, Attest,
             VerifyAttestation, BuildBundle, ValidateBundle, UploadBundle, operator
    <2> SUFFICES Files(work')
      BY <1>0, <2>1
    <2>2. CASE NoRunner \/ \E visible \in BOOLEAN : Attest(visible)
      BY <1>0, <2>2 DEF NoRunner, Attest
    <2>3. CASE \E failing \in SUBSET Checks : RunChecks(failing)
      BY <1>0, <2>3 DEF RunChecks, Files
    <2>4. CASE ChecksDie
      BY <1>0, <2>4, Rewritten DEF ChecksDie
    <2>5. CASE CheckShape
      BY <2>5 DEF CheckShape, Files
    <2>6. CASE \E ok \in BOOLEAN : UploadRaw(ok) \/ UploadBundle(ok)
      BY <2>6, NoneMade DEF UploadRaw, UploadBundle
    <2>7. CASE DownloadRaw
      <3>1. phase # "idle" /\ work' = raw[now]
        BY <2>7 DEF DownloadRaw, RawName
      <3> QED
        BY <3>1 DEF Typed
    <2>8. CASE \E status \in { "completed", "in_progress" }, listed \in BOOLEAN :
                  CaptureMetadata(status, listed)
      <3>1. work' = work \/ \E v : work' = [work EXCEPT !["ci-job-metadata.json"] = v]
        BY <2>8 DEF CaptureMetadata
      <3> QED
        BY <1>0, <3>1, Rewritten
    <2>9. CASE BuildEvidence
      BY <1>0, <2>9 DEF BuildEvidence, Files
    <2>10. CASE ValidateEvidence
      BY <1>0, <2>10, Rewritten DEF ValidateEvidence
    <2>11. CASE VerifyAttestation \/ BuildBundle \/ ValidateBundle
      <3>1. \/ work' = work
            \/ \E v : work' = [work EXCEPT !["ci-attestation-verify.txt"] = v]
            \/ \E v : work' = [work EXCEPT !["ci-bundle-manifest.json"] = v]
            \/ \E v : work' = [work EXCEPT !["ci-bundle-validation.txt"] = v]
        BY <2>11 DEF VerifyAttestation, BuildBundle, ValidateBundle, WithVerdict
      <3> QED
        BY <1>0, <3>1, Rewritten
    <2> QED
      BY <1>2, <2>2, <2>3, <2>4, <2>5, <2>6, <2>7, <2>8, <2>9, <2>10, <2>11
         DEF WorkflowStep
  <1>3. CASE StepLost \/ StaticJobLost \/ UNCHANGED vars
    BY <1>0, <1>3, NoneMade DEF StepLost, StaticJobLost, operator, vars
  <1>4. CASE \E a \in Attempts : Unpack(a)
    <2>1. work' = work
      BY <1>4 DEF Unpack, github
    <2>2. Files(dir')
      BY <1>4 DEF Unpack, Files
    <2> QED
      BY <1>0, <2>1, <2>2
  <1>5. CASE \/ \E f \in BundleFiles : Damage(f)
             \/ RebuildBundle \/ FillCiRecord
             \/ \E c \in Commits : ValidateBundleLocally(c)
    <2>1. work' = work
      BY <1>5 DEF Damage, RebuildBundle, FillCiRecord, ValidateBundleLocally, github
    <2>2. dir' = dir \/ \E f, v : dir' = [dir EXCEPT ![f] = v]
      BY <1>5 DEF Damage, RebuildBundle, FillCiRecord, ValidateBundleLocally, WithVerdict
    <2> QED
      BY <1>0, <2>1, <2>2, Rewritten
  <1> QED
    BY <1>1, <1>2, <1>3, <1>4, <1>5 DEF Next

Starts == \E c \in Commits : Push(c) \/ RerunAll(c) \/ RerunFailed(c)

\* What is on record grows; what is uploaded is what was worked on.
LEMMA Uploads ==
    ASSUME Typed, [Next]_vars
    PROVE  /\ executed \subseteq executed' /\ attested \subseteq attested'
           /\ raw' = raw \/ (/\ phase = "rawUpload" /\ now' = now
                             /\ raw' = [raw EXCEPT ![now] = work])
           /\ \/ artifacts' = artifacts
              \/ /\ phase \in {"upload", "lost"} /\ now' = now /\ phase' = "idle"
                 /\ artifacts' = [artifacts EXCEPT ![now] = work]
           /\ \/ gate' = gate \/ gate' = [gate EXCEPT ![now] = "failure"]
              \/ /\ phase = "upload" /\ artifacts' = [artifacts EXCEPT ![now] = work]
                 /\ gate' = [gate EXCEPT ![now] = "success"]
           /\ Starts \/ (started' = started /\ now' = now)
           /\ phase = "idle" /\ ~Starts => phase' = "idle"
  <1>1. CASE Starts
    <2>1. /\ raw' = raw /\ artifacts' = artifacts
          /\ executed' = executed /\ attested' = attested
      BY <1>1 DEF Starts, Push, RerunAll, RerunFailed
    <2>2. gate' = gate \/ gate' = [gate EXCEPT ![now] = "failure"]
      BY <1>1 DEF Starts, Push, RerunAll, RerunFailed, Conclude
    <2> QED
      BY <1>1, <2>1, <2>2
  <1>2. CASE WorkflowStep
    BY <1>2 DEF WorkflowStep, NoRunner, RunChecks, ChecksDie, CheckShape, UploadRaw,
             DownloadRaw, CaptureMetadata, BuildEvidence, ValidateEvidence, Attest,
             VerifyAttestation, BuildBundle, ValidateBundle, UploadBundle, operator,
             github, Conclude, RawName, GateHolds
  <1>3. CASE StepLost \/ StaticJobLost \/ UNCHANGED vars
    BY <1>3 DEF StepLost, StaticJobLost, operator, vars, github, ChainPhases, StaticPhases
  <1>4. CASE \/ \E a \in Attempts : Unpack(a)
             \/ \E f \in BundleFiles : Damage(f)
             \/ RebuildBundle \/ FillCiRecord
             \/ \E c \in Commits : ValidateBundleLocally(c)
    BY <1>4 DEF Unpack, Damage, RebuildBundle, FillCiRecord, ValidateBundleLocally, github
  <1> QED
    BY <1>1, <1>2, <1>3, <1>4 DEF Next, Starts

LEMMA TypedStep == Typed /\ [Next]_vars => Typed'
  <1> SUFFICES ASSUME Typed, [Next]_vars
               PROVE  Typed'
    OBVIOUS
  <1>1. Files(work') /\ Files(dir')
    BY FileSetsLast
  <1>2. DOMAIN raw' = Attempts /\ \A a \in Attempts : Files(raw'[a])
    BY Uploads DEF Typed
  <1>3. DOMAIN artifacts' = Attempts /\ \A a \in Attempts : Files(artifacts'[a])
    BY Uploads DEF Typed
  <1>4. DOMAIN gate' = Attempts
    BY Uploads DEF Typed
  <1>5. /\ started' \in [Commits -> 0 .. MaxAttempts] /\ IsFiniteSet(AttemptsSoFar')
        /\ phase' # "idle" => now' \in Attempts
    <2>1. CASE Starts
      BY <2>1, Begun DEF Starts, Push, RerunAll, RerunFailed
    <2>2. CASE ~Starts
      <3>1. started' = started /\ now' = now /\ (phase = "idle" => phase' = "idle")
        BY <2>2, Uploads
      <3>2. AttemptsSoFar' = AttemptsSoFar
        BY <3>1 DEF AttemptsSoFar
      <3> QED
        BY <3>1, <3>2 DEF Typed
    <2> QED
      BY <2>1, <2>2
  <1> QED
    BY <1>1, <1>2, <1>3, <1>4, <1>5 DEF Typed

-----------------------------------------------------------------------------
(* The files of the job in progress. *)

Good == Made(work, now, executed, attested) /\ Staged

LEMMA StaticGood ==
    ASSUME Typed, JobInv,
           \/ NoRunner \/ \E failing \in SUBSET Checks : RunChecks(failing)
           \/ ChecksDie \/ CheckShape \/ \E ok \in BOOLEAN : UploadRaw(ok)
           \/ StaticJobLost
    PROVE  Good'
  <1>1. /\ now' = now /\ phase # "idle" /\ attested' = attested
        /\ executed \subseteq executed'
    BY DEF NoRunner, RunChecks, ChecksDie, CheckShape, UploadRaw, StaticJobLost, operator,
           StaticPhases
  <1>2. Good /\ Files(work)
    BY <1>1 DEF JobInv, Good, Typed
  <1>3. Absent.kind = "absent" /\ Empty.kind = "empty"
    BY DEF Absent, Empty
  <1>4. ASSUME RawOnly(work'), Ran(work', now', executed')
        PROVE  Made(work', now', executed', attested')
    <2>1. /\ work'["ci-job-metadata.json"] = Absent
          /\ work'["ci-evidence.json"] = Absent
          /\ work'["ci-attestation-verify.txt"] = Absent
          /\ work'["ci-bundle-manifest.json"] = Absent
      BY <1>4, Names DEF RawOnly
    <2> QED
      BY <1>3, <1>4, <2>1 DEF Made, Captured, Built, Vouched, Bundled
  <1>5. CASE NoRunner
    <2>1. work' = work /\ phase' = "download" /\ executed' = executed
      BY <1>5 DEF NoRunner
    <2> QED
      BY <1>1, <1>2, <2>1 DEF Good, Staged, StaticPhases
  <1>6. CASE \E failing \in SUBSET Checks : RunChecks(failing)
    <2>1. PICK failing : RunChecks(failing)
      BY <1>6
    <2>2. phase = "checks" /\ phase' = "shape" /\ RawOnly(work)
      BY <1>2, <2>1 DEF RunChecks, Good, Staged, StaticPhases
    <2>3. /\ work'["static-check.txt"] = SuiteText("static-check", now, failing)
          /\ \A f \in BundleFiles \ RawFiles : work'[f] = work[f]
      BY <1>2, <2>1, Names DEF RunChecks, Files
    <2>4. RawOnly(work')
      BY <2>2, <2>3 DEF RawOnly
    <2>5. Ran(work', now', executed')
      <3>1. CASE failing = {}
        <4>1. now \in executed'
          BY <2>1, <3>1 DEF RunChecks
        <4> QED
          BY <1>1, <2>3, <4>1 DEF Ran, SuiteText
      <3>2. CASE failing # {}
        BY <1>1, <2>3, <3>2 DEF Ran, SuiteText
      <3> QED
        BY <3>1, <3>2
    <2> QED
      BY <1>4, <2>2, <2>4, <2>5 DEF Good, Staged, StaticPhases
  <1>7. CASE ChecksDie
    <2>1. /\ phase = "checks" /\ phase' = "shape" /\ RawOnly(work)
          /\ executed' = executed
      BY <1>2, <1>7 DEF ChecksDie, Good, Staged, StaticPhases
    <2>2. \A f \in BundleFiles \ {"static-check-ci.txt"} : work'[f] = work[f]
      BY <1>2, <1>7, Names DEF ChecksDie, Files
    <2>3. RawOnly(work') /\ work'["static-check.txt"] = work["static-check.txt"]
      BY <2>1, <2>2, Names DEF RawOnly
    <2>4. Ran(work', now', executed')
      BY <1>1, <1>2, <2>1, <2>3 DEF Ran, Good, Made
    <2> QED
      BY <1>4, <2>1, <2>3, <2>4 DEF Good, Staged, StaticPhases
  <1>8. CASE CheckShape
    <2>1. /\ phase = "shape" /\ phase' = "rawUpload" /\ RawOnly(work)
          /\ executed' = executed
      BY <1>2, <1>8 DEF CheckShape, Good, Staged, StaticPhases
    <2>2. /\ \A f \in BundleFiles \ RawFiles : work'[f] = work[f]
          /\ work'["static-check.txt"] \in {Empty, work["static-check.txt"]}
      BY <1>8, Names DEF CheckShape
    <2>3. RawOnly(work')
      BY <2>1, <2>2 DEF RawOnly
    <2>4. Ran(work', now', executed')
      BY <1>1, <1>2, <1>3, <2>1, <2>2 DEF Ran, Good, Made
    <2> QED
      BY <1>4, <2>1, <2>3, <2>4 DEF Good, Staged, StaticPhases
  <1>9. CASE StaticJobLost \/ \E ok \in BOOLEAN : UploadRaw(ok)
    <2>1. work' = NoFiles /\ phase' = "download"
      BY <1>9 DEF UploadRaw, StaticJobLost
    <2> QED
      BY <2>1, NoneMade DEF Good, Staged, StaticPhases
  <1> QED
    BY <1>5, <1>6, <1>7, <1>8, <1>9

LEMMA CaptureGood ==
    ASSUME Typed, JobInv,
           \/ DownloadRaw
           \/ \E status \in { "completed", "in_progress" }, listed \in BOOLEAN :
                 CaptureMetadata(status, listed)
    PROVE  Good'
  <1>1. /\ now' = now /\ phase # "idle" /\ attested' = attested
        /\ executed' = executed
    BY DEF DownloadRaw, CaptureMetadata, github
  <1>2. Good /\ Files(work) /\ now \in Attempts
    BY <1>1 DEF JobInv, Good, Typed
  <1>3. CASE DownloadRaw
    <2>1. work' = raw[now] /\ phase' \in {"metadata", "lost"}
      BY <1>3 DEF DownloadRaw, RawName, Advance
    <2> QED
      BY <1>1, <1>2, <2>1 DEF JobInv, Good, Staged
  <1>4. ASSUME NEW status \in { "completed", "in_progress" }, NEW listed \in BOOLEAN,
               CaptureMetadata(status, listed)
        PROVE  Good'
    <2>1. phase = "metadata" /\ RawOnly(work)
      BY <1>2, <1>4 DEF CaptureMetadata, Good, Staged
    <2>2. CASE work' = work /\ phase' = "lost"
      BY <1>1, <1>2, <2>2 DEF Good, Staged, StaticPhases
    <2>3. CASE \E conclusion :
                  /\ work' = [work EXCEPT !["ci-job-metadata.json"] =
                                 Metadata(now, status, conclusion)]
                  /\ phase' \in {"evidence", "lost"}
      <3>1. PICK conclusion :
                  /\ work' = [work EXCEPT !["ci-job-metadata.json"] =
                                 Metadata(now, status, conclusion)]
                  /\ phase' \in {"evidence", "lost"}
        BY <2>3
      <3> DEFINE meta == Metadata(now, status, conclusion)
      <3>2. /\ work'["ci-job-metadata.json"] = meta
            /\ \A f \in BundleFiles \ {"ci-job-metadata.json"} : work'[f] = work[f]
        BY <1>2, <3>1, Names, Wrote
      <3>3. /\ meta.kind = "ci-job-metadata" /\ meta.run_id = now.run
            /\ meta.run_attempt = now.attempt /\ meta.head_sha = now.run
        BY DEF Metadata
      <3> HIDE DEF meta
      <3>4. AttemptOf(meta) = now
        BY <1>2, <3>3 DEF AttemptOf, Attempts
      <3>5. /\ work'["ci-evidence.json"] = Absent
            /\ work'["ci-attestation-verify.txt"] = Absent
            /\ work'["ci-bundle-manifest.json"] = Absent
            /\ work'["static-check.txt"] = work["static-check.txt"]
        BY <2>1, <3>2, Names DEF RawOnly
      <3>6. Absent.kind = "absent"
        BY DEF Absent
      <3>7. Made(work', now', executed', attested')
        BY <1>1, <1>2, <3>2, <3>3, <3>4, <3>5, <3>6
           DEF Good, Made, Ran, Captured, Built, Vouched, Bundled
      <3> QED
        BY <3>1, <3>2, <3>3, <3>5, <3>7 DEF Good, Staged, StaticPhases
    <2> QED
      BY <1>4, <2>2, <2>3 DEF CaptureMetadata, Advance
  <1> QED
    BY <1>3, <1>4

LEMMA EvidenceGood ==
    ASSUME Typed, JobInv, BuildEvidence
    PROVE  Good'
  <1>1. /\ now' = now /\ phase = "evidence" /\ attested' = attested
        /\ executed' = executed
    BY DEF BuildEvidence, github
  <1>2. Good /\ Files(work) /\ now \in Attempts
    BY <1>1 DEF JobInv, Good, Typed
  <1> DEFINE e == Evidence(work, now.run, job.outcome)
             meta == work["ci-job-metadata.json"]
             ok == e.result = "PASS"
             l == IF ok THEN [kind |-> "hash-list", of |-> Sha(e)]
                  ELSE work["ci-evidence-manifest.txt"]
  <1>3. /\ work' = [work EXCEPT !["ci-evidence.json"] = e,
                               !["ci-evidence-manifest.txt"] = l]
        /\ phase' = IF ok THEN "validate" ELSE "lost"
    BY DEF BuildEvidence, Advance
  <1>4. /\ e.kind = "ci-evidence" /\ e.run_id = meta.run_id
        /\ e.run_attempt = meta.run_attempt /\ e.head_sha = now.run
        /\ e.result = EvidenceResult(work, now.run, job.outcome)
    BY DEF Evidence
  <1>5. ok => /\ work["static-check.txt"].kind = "static-check"
              /\ work["static-check.txt"].result = "PASS"
    BY <1>4 DEF EvidenceResult
  <1>6. ok => l.of = Sha(e)
    OBVIOUS
  <1> HIDE DEF e, l
  <1>7. /\ work'["ci-evidence.json"] = e
        /\ work'["ci-evidence-manifest.txt"] = l
        /\ \A f \in BundleFiles \ {"ci-evidence.json", "ci-evidence-manifest.txt"} :
             work'[f] = work[f]
    BY <1>2, <1>3, Names DEF Files
  <1>8. /\ meta.kind = "ci-job-metadata" /\ AttemptOf(meta) = now
    BY <1>1, <1>2 DEF Good, Staged, Made, Captured
  <1>9. AttemptOf(e) = now
    BY <1>4, <1>8 DEF AttemptOf
  <1>10. ok => now \in executed
    BY <1>2, <1>5 DEF Good, Made, Ran
  <1>11. /\ work'["static-check.txt"] = work["static-check.txt"]
         /\ work'["ci-job-metadata.json"] = meta
         /\ work'["ci-attestation-verify.txt"] = Absent
         /\ work'["ci-bundle-manifest.json"] = Absent
    BY <1>1, <1>2, <1>7, Names DEF Good, Staged
  <1>12. Absent.kind = "absent"
    BY DEF Absent
  <1>13. Made(work', now', executed', attested')
    BY <1>1, <1>2, <1>4, <1>7, <1>9, <1>10, <1>11, <1>12
       DEF Good, Made, Ran, Captured, Built, Vouched, Bundled
  <1> QED
    BY <1>3, <1>4, <1>6, <1>7, <1>11, <1>13 DEF Good, Staged, StaticPhases

LEMMA ValidatedGood ==
    ASSUME Typed, JobInv, ValidateEvidence
    PROVE  Good'
  <1>1. /\ now' = now /\ phase = "validate" /\ attested' = attested
        /\ executed' = executed
    BY DEF ValidateEvidence, github
  <1>2. Good /\ Files(work)
    BY <1>1 DEF JobInv, Good, Typed
  <1> DEFINE e == work["ci-evidence.json"]
             ok == ValidCiEvidence(work, now.run) /\ CurrentCheckout(e, now.run)
             t == [kind |-> "evidence-validation", pass |-> ok, of |-> Sha(e)]
  <1>3. /\ work' = [work EXCEPT !["ci-evidence-validation.txt"] = t]
        /\ phase' = IF ok THEN "attest" ELSE "lost"
    BY DEF ValidateEvidence, Advance
  <1>4. ok => t = [kind |-> "evidence-validation", pass |-> TRUE, of |-> Sha(e)]
    OBVIOUS
  <1>5. ok => work["static-check.txt"].kind = "static-check"
    BY DEF ValidCiEvidence, RawOutputMatches
  <1> HIDE DEF ok, t
  <1>6. /\ work'["ci-evidence-validation.txt"] = t
        /\ \A f \in BundleFiles \ {"ci-evidence-validation.txt"} : work'[f] = work[f]
    BY <1>2, <1>3, Names, Wrote
  <1>7. /\ work'["static-check.txt"] = work["static-check.txt"]
        /\ work'["ci-job-metadata.json"] = work["ci-job-metadata.json"]
        /\ work'["ci-evidence.json"] = e
        /\ work'["ci-evidence-manifest.txt"] = work["ci-evidence-manifest.txt"]
        /\ work'["ci-attestation-verify.txt"] = Absent
        /\ work'["ci-bundle-manifest.json"] = Absent
    BY <1>1, <1>2, <1>6, Names DEF Good, Staged
  <1>8. Absent.kind = "absent"
    BY DEF Absent
  <1>9. Made(work', now', executed', attested')
    BY <1>1, <1>2, <1>7, <1>8 DEF Good, Made, Ran, Captured, Built, Vouched, Bundled
  <1>10. ok => Checked(work')
    BY <1>1, <1>2, <1>4, <1>5, <1>6, <1>7 DEF Good, Staged, Checked
  <1> QED
    BY <1>3, <1>7, <1>9, <1>10 DEF Good, Staged, StaticPhases

LEMMA AttestGood ==
    ASSUME Typed, JobInv, VerifyAttestation \/ \E visible \in BOOLEAN : Attest(visible)
    PROVE  Good'
  <1>1. /\ now' = now /\ phase \in {"attest", "verify"} /\ attested \subseteq attested'
        /\ executed' = executed
    BY DEF VerifyAttestation, Attest, github
  <1>2. Good /\ Files(work)
    BY <1>1 DEF JobInv, Good, Typed
  <1>3. /\ Checked(work) /\ work["ci-attestation-verify.txt"] = Absent
        /\ work["ci-bundle-manifest.json"] = Absent
    BY <1>1, <1>2 DEF Good, Staged
  <1>4. ASSUME work' = work
        PROVE  Made(work', now', executed', attested')
    BY <1>1, <1>2, <1>4, MadeLasts DEF Good
  <1>5. CASE work' = work /\ phase' \in {"verify", "lost"}
    BY <1>3, <1>4, <1>5 DEF Good, Staged, StaticPhases
  <1>6. CASE VerifyAttestation /\ AttestationKnown(Sha(work["ci-evidence.json"]))
    <2> DEFINE e == work["ci-evidence.json"]
               v == [kind |-> "attestation-pass", of |-> Sha(e)]
    <2>1. /\ work' = [work EXCEPT !["ci-attestation-verify.txt"] = v]
          /\ phase' = "bundle" /\ Sha(e) \in attested /\ attested' = attested
      BY <1>6 DEF VerifyAttestation, AttestationKnown, Advance, github
    <2>2. v.of = Sha(e)
      OBVIOUS
    <2> HIDE DEF v
    <2>3. /\ work'["ci-attestation-verify.txt"] = v
          /\ \A f \in BundleFiles \ {"ci-attestation-verify.txt"} : work'[f] = work[f]
      BY <1>2, <2>1, Names, Wrote
    <2>4. /\ work'["static-check.txt"] = work["static-check.txt"]
          /\ work'["ci-job-metadata.json"] = work["ci-job-metadata.json"]
          /\ work'["ci-evidence.json"] = e
          /\ work'["ci-evidence-manifest.txt"] = work["ci-evidence-manifest.txt"]
          /\ work'["ci-evidence-validation.txt"] = work["ci-evidence-validation.txt"]
          /\ work'["ci-bundle-manifest.json"] = Absent
      BY <1>3, <2>3, Names
    <2>5. Checked(work')
      BY <1>3, <2>4 DEF Checked
    <2>6. Absent.kind = "absent"
      BY DEF Absent
    <2>7. Made(work', now', executed', attested')
      BY <1>1, <1>2, <2>1, <2>2, <2>3, <2>4, <2>5, <2>6
         DEF Good, Made, Ran, Captured, Built, Vouched, Bundled
    <2> QED
      BY <2>1, <2>4, <2>7 DEF Good, Staged, StaticPhases
  <1> QED
    BY <1>5, <1>6 DEF VerifyAttestation, Attest, Advance

LEMMA BundleGood ==
    ASSUME Typed, JobInv, BuildBundle \/ ValidateBundle
    PROVE  Good'
  <1>1. /\ now' = now /\ phase # "idle" /\ attested' = attested
        /\ executed' = executed
    BY DEF BuildBundle, ValidateBundle, github
  <1>2. Good /\ Files(work)
    BY <1>1 DEF JobInv, Good, Typed
  <1>3. CASE BuildBundle
    <2>1. CASE ~Bundleable(work)
      <3>1. work' = work /\ phase' = "lost"
        BY <1>3, <2>1 DEF BuildBundle, Advance
      <3> QED
        BY <1>1, <1>2, <3>1 DEF Good, Staged, StaticPhases
    <2>2. CASE Bundleable(work)
      <3> DEFINE m == BundleManifest(work, now)
      <3>1. work' = [work EXCEPT !["ci-bundle-manifest.json"] = m]
            /\ phase' = "bundleValidate"
        BY <1>3, <2>2 DEF BuildBundle, Advance
      <3>2. m.files = Listed(work)
        BY DEF BundleManifest, Listed
      <3>3. work["ci-attestation-verify.txt"].kind = "attestation-pass"
        BY <2>2 DEF Bundleable
      <3> HIDE DEF m
      <3>4. /\ work'["ci-bundle-manifest.json"] = m
            /\ \A f \in BundleFiles \ {"ci-bundle-manifest.json"} : work'[f] = work[f]
        BY <1>2, <3>1, Names, Wrote
      <3>5. Listed(work') = Listed(work)
        BY <3>4, Names DEF Listed
      <3>6. /\ work'["static-check.txt"] = work["static-check.txt"]
            /\ work'["ci-job-metadata.json"] = work["ci-job-metadata.json"]
            /\ work'["ci-evidence.json"] = work["ci-evidence.json"]
            /\ work'["ci-evidence-manifest.txt"] = work["ci-evidence-manifest.txt"]
            /\ work'["ci-evidence-validation.txt"] = work["ci-evidence-validation.txt"]
            /\ work'["ci-attestation-verify.txt"] = work["ci-attestation-verify.txt"]
        BY <3>4, Names
      <3>7. /\ Ran(work', now', executed') /\ Captured(work', now')
            /\ Built(work', now', executed')
        BY <1>1, <1>2, <3>6 DEF Good, Made, Ran, Captured, Built
      <3>8. Vouched(work', attested')
        BY <1>1, <1>2, <3>6 DEF Good, Made, Vouched, Checked
      <3>9. Bundled(work')
        BY <3>2, <3>3, <3>4, <3>5, <3>6 DEF Bundled
      <3> QED
        BY <3>1, <3>7, <3>8, <3>9 DEF Good, Made, Staged, StaticPhases
    <2> QED
      BY <2>1, <2>2
  <1>4. CASE ValidateBundle
    <2> DEFINE ok == ValidBundle(work, now.run)
               t == [kind |-> "bundle-validation", pass |-> ok]
    <2>1. /\ work' = [work EXCEPT !["ci-bundle-validation.txt"] = t]
          /\ phase' = IF ok THEN "upload" ELSE "lost"
      BY <1>4 DEF ValidateBundle, WithVerdict, Advance
    <2>2. t.kind = "bundle-validation" /\ (ok => t.pass)
      OBVIOUS
    <2> HIDE DEF t
    <2>3. /\ work'["ci-bundle-validation.txt"] = t
          /\ \A f \in BundleFiles \ {"ci-bundle-validation.txt"} : work'[f] = work[f]
      BY <1>2, <2>1, Names, Wrote
    <2>4. Made(work', now', executed', attested')
      BY <1>1, <1>2, <2>3, MadeLasts DEF Good
    <2>5. ValidBundle(work', now.run) <=> ValidBundle(work, now.run)
      <3>1. /\ work'["static-check.txt"] = work["static-check.txt"]
            /\ work'["static-check-ci.txt"] = work["static-check-ci.txt"]
            /\ work'["ci-job-metadata.json"] = work["ci-job-metadata.json"]
            /\ work'["ci-evidence.json"] = work["ci-evidence.json"]
            /\ work'["ci-attestation-verify.txt"] = work["ci-attestation-verify.txt"]
            /\ work'["ci-bundle-manifest.json"] = work["ci-bundle-manifest.json"]
        BY <2>3, Names
      <3>2. FilesMatch(work["ci-bundle-manifest.json"], work')
              <=> FilesMatch(work["ci-bundle-manifest.json"], work)
        BY <2>3, Names DEF FilesMatch, Exists
      <3>3. \A x : ValidCiEvidence(work', x) <=> ValidCiEvidence(work, x)
        BY <3>1 DEF ValidCiEvidence, RawOutputMatches
      <3> QED
        BY <3>1, <3>2, <3>3 DEF ValidBundle
    <2> QED
      BY <1>1, <2>1, <2>2, <2>3, <2>4, <2>5 DEF Good, Staged, StaticPhases
  <1> QED
    BY <1>3, <1>4

Handling ==
    \/ \E a \in Attempts : Unpack(a)
    \/ \E f \in BundleFiles : Damage(f)
    \/ RebuildBundle \/ FillCiRecord
    \/ \E c \in Commits : ValidateBundleLocally(c)

LEMMA WorkStep ==
    ASSUME Typed, JobInv, [Next]_vars, phase' # "idle"
    PROVE  Good'
  <1>1. CASE Starts
    <2>1. work' = NoFiles /\ phase' \in {"checks", "download"}
      BY <1>1, Begun DEF Starts, Push, RerunAll, RerunFailed
    <2> QED
      BY <2>1, NoneMade DEF Good, Staged, StaticPhases
  <1>2. CASE WorkflowStep
    <2>1. ~\E ok \in BOOLEAN : UploadBundle(ok)
      BY DEF UploadBundle
    <2> QED
      BY <1>2, <2>1, StaticGood, CaptureGood, EvidenceGood, ValidatedGood, AttestGood,
         BundleGood DEF WorkflowStep
  <1>3. CASE StaticJobLost
    BY <1>3, StaticGood
  <1>4. CASE StepLost
    <2>1. /\ now' = now /\ work' = work /\ phase # "idle" /\ phase' = "lost"
          /\ executed' = executed /\ attested' = attested
      BY <1>4 DEF StepLost, github, ChainPhases
    <2> QED
      BY <2>1 DEF JobInv, Good, Staged, StaticPhases
  <1>5. CASE Handling \/ UNCHANGED vars
    <2>1. /\ now' = now /\ work' = work /\ phase' = phase
          /\ executed' = executed /\ attested' = attested
      BY <1>5 DEF Handling, Unpack, Damage, RebuildBundle, FillCiRecord,
             ValidateBundleLocally, github, vars
    <2>2. Made(work', now', executed', attested')
      BY <2>1 DEF JobInv
    <2>3. Staged'
      BY <2>1 DEF JobInv, Staged
    <2> QED
      BY <2>2, <2>3 DEF Good
  <1> QED
    BY <1>1, <1>2, <1>3, <1>4, <1>5 DEF Next, Starts, Handling

LEMMA JobStep == Typed /\ JobInv /\ [Next]_vars => JobInv'
  <1> SUFFICES ASSUME Typed, JobInv, [Next]_vars
               PROVE  JobInv'
    OBVIOUS
  <1>1. executed \subseteq executed' /\ attested \subseteq attested'
    BY Uploads
  <1>2. ASSUME NEW a \in Attempts
        PROVE  Made(raw'[a], a, executed', attested') /\ RawOnly(raw'[a])
    <2>1. CASE raw'[a] = raw[a]
      BY <1>1, <2>1, MadeLasts DEF JobInv
    <2>2. CASE raw'[a] = work /\ a = now /\ phase = "rawUpload"
      <3>1. Made(work, a, executed, attested) /\ RawOnly(work)
        BY <2>2 DEF JobInv, Staged, StaticPhases
      <3> QED
        BY <1>1, <2>2, <3>1, MadeLasts
    <2> QED
      BY <2>1, <2>2, Uploads DEF Typed
  <1>3. ASSUME NEW a \in Attempts
        PROVE  Made(artifacts'[a], a, executed', attested')
    <2>1. CASE artifacts'[a] = artifacts[a]
      BY <1>1, <2>1, MadeLasts DEF JobInv
    <2>2. CASE artifacts'[a] = work /\ a = now /\ phase \in {"upload", "lost"}
      BY <1>1, <2>2, MadeLasts DEF JobInv
    <2> QED
      BY <2>1, <2>2, Uploads DEF Typed
  <1>4. phase' # "idle" => Made(work', now', executed', attested') /\ Staged'
    BY WorkStep DEF Good
  <1> QED
    BY <1>2, <1>3, <1>4 DEF JobInv

-----------------------------------------------------------------------------
(* The operator's directory and the concluded workflows. *)

LEMMA EvidenceStep == Typed /\ JobInv /\ EvidenceInv /\ [Next]_vars => EvidenceInv'
  <1> SUFFICES ASSUME Typed, JobInv, EvidenceInv, [Next]_vars
               PROVE  EvidenceInv'
    OBVIOUS
  <1>1. executed \subseteq executed'
    BY Uploads
  <1>2. CASE dir'["ci-evidence.json"] = dir["ci-evidence.json"]
    BY <1>1, <1>2 DEF EvidenceInv, AttemptOf
  <1>3. CASE \E a \in Attempts : dir'["ci-evidence.json"] = artifacts[a]["ci-evidence.json"]
    <2>1. PICK a \in Attempts : dir'["ci-evidence.json"] = artifacts[a]["ci-evidence.json"]
      BY <1>3
    <2>2. Built(artifacts[a], a, executed)
      BY DEF JobInv, Made
    <2> DEFINE e == artifacts[a]["ci-evidence.json"]
    <2>3. e.kind = "ci-evidence" =>
            /\ AttemptOf(e) = a /\ e.head_sha = a.run
            /\ e.result = "PASS" => a \in executed
      BY <2>2 DEF Built
    <2> HIDE DEF e
    <2>4. AttemptOf(e) = a => e.run_id = a.run
      BY DEF AttemptOf
    <2>5. dir'["ci-evidence.json"] = e
      BY <2>1 DEF e
    <2> QED
      BY <1>1, <2>3, <2>4, <2>5 DEF EvidenceInv
  <1>4. CASE dir'["ci-evidence.json"] = Damaged
    BY <1>4 DEF EvidenceInv, Damaged
  <1>5. CASE \E a \in Attempts : Unpack(a)
    <2>1. \E a \in Attempts : dir'["ci-evidence.json"]
              \in {artifacts[a]["ci-evidence.json"], dir["ci-evidence.json"]}
      BY <1>5, Names DEF Unpack
    <2> QED
      BY <1>2, <1>3, <2>1
  <1>6. CASE \E f \in BundleFiles : Damage(f)
    <2>1. PICK f \in BundleFiles : dir' = [dir EXCEPT ![f] = Damaged]
      BY <1>6 DEF Damage
    <2>2. Files(dir) /\ "ci-evidence.json" \in BundleFiles
      BY Names DEF Typed
    <2>3. dir'["ci-evidence.json"] \in {Damaged, dir["ci-evidence.json"]}
      BY <2>1, <2>2, Wrote
    <2> QED
      BY <1>2, <1>4, <2>3
  <1>7. CASE RebuildBundle \/ \E c \in Commits : ValidateBundleLocally(c)
    <2>1. \E v : \/ dir' = [dir EXCEPT !["ci-bundle-manifest.json"] = v]
                 \/ dir' = [dir EXCEPT !["ci-bundle-validation.txt"] = v]
      BY <1>7 DEF RebuildBundle, ValidateBundleLocally, WithVerdict
    <2>2. Files(dir) /\ "ci-evidence.json" \in BundleFiles
      BY Names DEF Typed
    <2> QED
      BY <1>2, <2>1, <2>2, Wrote, Names
  <1>8. CASE dir' = dir
    BY <1>2, <1>8
  <1>9. CASE Starts \/ WorkflowStep \/ StepLost \/ StaticJobLost \/ FillCiRecord
             \/ UNCHANGED vars
    <2>1. dir' = dir
      BY <1>9 DEF Starts, Push, RerunAll, RerunFailed, StepLost, StaticJobLost, FillCiRecord,
             WorkflowStep, NoRunner, RunChecks, ChecksDie, CheckShape, UploadRaw,
             DownloadRaw, CaptureMetadata, BuildEvidence, ValidateEvidence, Attest,
             VerifyAttestation, BuildBundle, ValidateBundle, UploadBundle, operator, vars
    <2> QED
      BY <1>8, <2>1
  <1> QED
    BY <1>5, <1>6, <1>7, <1>9 DEF Next, Starts

LEMMA ManifestStep == Typed /\ JobInv /\ ManifestInv /\ [Next]_vars => ManifestInv'
  <1> DEFINE m == dir["ci-bundle-manifest.json"]
  <1> SUFFICES ASSUME Typed, JobInv, ManifestInv, [Next]_vars, ~MixedRebuild,
                      m'.kind = "ci-bundle-manifest"
               PROVE  ListsOneAttempt(m', executed', attested')
    BY DEF ManifestInv, ListsOneAttempt
  <1>1. executed \subseteq executed' /\ attested \subseteq attested'
    BY Uploads
  <1>2. ASSUME NEW x, ListsOneAttempt(x, executed, attested)
        PROVE  ListsOneAttempt(x, executed', attested')
    <2>1. PICK w : \E a \in Attempts :
             /\ x.files = Listed(w)
             /\ Made(w, a, executed, attested)
             /\ w["ci-attestation-verify.txt"].kind = "attestation-pass"
      BY <1>2 DEF ListsOneAttempt
    <2>2. \A a : Made(w, a, executed, attested) => Made(w, a, executed', attested')
      BY <1>1, MadeLasts
    <2> QED
      BY <2>1, <2>2 DEF ListsOneAttempt
  <1>3. CASE m' = m
    <2>1. ListsOneAttempt(m, executed, attested)
      BY <1>3 DEF ManifestInv, ListsOneAttempt
    <2> QED
      BY <1>2, <1>3, <2>1
  <1>4. ASSUME NEW a \in Attempts, m' = artifacts[a]["ci-bundle-manifest.json"]
        PROVE  ListsOneAttempt(m', executed', attested')
    <2>1. Made(artifacts[a], a, executed, attested)
      BY DEF JobInv
    <2>2. /\ artifacts[a]["ci-attestation-verify.txt"].kind = "attestation-pass"
          /\ m'.files = Listed(artifacts[a])
      BY <1>4, <2>1 DEF Made, Bundled
    <2>3. ListsOneAttempt(m', executed, attested)
      BY <2>1, <2>2 DEF ListsOneAttempt
    <2> QED
      BY <1>2, <2>3
  <1>5. CASE \E a \in Attempts : Unpack(a)
    <2>1. \E a \in Attempts : m' \in {artifacts[a]["ci-bundle-manifest.json"], m}
      BY <1>5, Names DEF Unpack
    <2> QED
      BY <1>3, <1>4, <2>1
  <1>6. CASE \E f \in BundleFiles : Damage(f)
    <2>1. PICK f \in BundleFiles : dir' = [dir EXCEPT ![f] = Damaged]
      BY <1>6 DEF Damage
    <2>2. Files(dir) /\ "ci-bundle-manifest.json" \in BundleFiles
      BY Names DEF Typed
    <2>3. m' \in {Damaged, m}
      BY <2>1, <2>2, Wrote
    <2>4. Damaged.kind # "ci-bundle-manifest"
      BY DEF Damaged
    <2> QED
      BY <1>3, <2>3, <2>4
  <1>7. CASE RebuildBundle
    <2>1. PICK a \in Attempts : \A f \in RequiredFiles : dir[f] = artifacts[a][f]
      BY <1>7 DEF RebuildBundle, OneArtifact
    <2> DEFINE b == BundleManifest(dir, [run |-> dir["ci-evidence.json"].run_id,
                                         attempt |-> dir["ci-evidence.json"].run_attempt])
    <2>2. dir' = [dir EXCEPT !["ci-bundle-manifest.json"] = b] /\ Bundleable(dir)
      BY <1>7 DEF RebuildBundle
    <2>3. b.files = Listed(dir)
      BY DEF BundleManifest, Listed
    <2> HIDE DEF b
    <2>4. m' = b
      BY <2>2, Names, Wrote DEF Typed
    <2>5. Listed(dir) = Listed(artifacts[a])
      BY <2>1 DEF Listed
    <2>6. artifacts[a]["ci-attestation-verify.txt"].kind = "attestation-pass"
      BY <2>1, <2>2, Names DEF Bundleable
    <2>7. Made(artifacts[a], a, executed, attested)
      BY DEF JobInv
    <2>8. ListsOneAttempt(m', executed, attested)
      BY <2>3, <2>4, <2>5, <2>6, <2>7 DEF ListsOneAttempt
    <2> QED
      BY <1>2, <2>8
  <1>8. CASE \E c \in Commits : ValidateBundleLocally(c)
    <2>1. \E v : dir' = [dir EXCEPT !["ci-bundle-validation.txt"] = v]
      BY <1>8 DEF ValidateBundleLocally, WithVerdict
    <2>2. m' = m
      BY <2>1, Names, Wrote DEF Typed
    <2> QED
      BY <1>3, <2>2
  <1>9. CASE Starts \/ WorkflowStep \/ StepLost \/ StaticJobLost \/ FillCiRecord
             \/ UNCHANGED vars
    <2>1. dir' = dir
      BY <1>9 DEF Starts, Push, RerunAll, RerunFailed, StepLost, StaticJobLost, FillCiRecord,
             WorkflowStep, NoRunner, RunChecks, ChecksDie, CheckShape, UploadRaw,
             DownloadRaw, CaptureMetadata, BuildEvidence, ValidateEvidence, Attest,
             VerifyAttestation, BuildBundle, ValidateBundle, UploadBundle, operator, vars
    <2> QED
      BY <1>3, <2>1
  <1> QED
    BY <1>5, <1>6, <1>7, <1>8, <1>9 DEF Next, Starts

LEMMA GreenStep == Typed /\ JobInv /\ GreenLeavesBundle /\ [Next]_vars => GreenLeavesBundle'
  <1> SUFFICES ASSUME Typed, JobInv, GreenLeavesBundle, [Next]_vars,
                      NEW a \in Attempts, gate'[a] = "success"
               PROVE  /\ ValidBundle(artifacts'[a], a.run)
                      /\ artifacts'[a]["ci-bundle-validation.txt"].kind = "bundle-validation"
                      /\ artifacts'[a]["ci-bundle-validation.txt"].pass
                      /\ a \in executed'
    BY DEF GreenLeavesBundle
  <1>1. executed \subseteq executed'
    BY Uploads
  <1>2. CASE gate[a] = "success" /\ artifacts'[a] = artifacts[a]
    BY <1>1, <1>2 DEF GreenLeavesBundle
  <1>3. CASE \E ok \in BOOLEAN : UploadBundle(ok)
    <2>1. PICK ok \in BOOLEAN : UploadBundle(ok)
      BY <1>3
    <2>2. CASE a # now
      <3>1. gate[a] = "success" /\ artifacts'[a] = artifacts[a]
        BY <2>1, <2>2 DEF UploadBundle, Conclude, Typed
      <3> QED
        BY <1>2, <3>1
    <2>3. CASE a = now
      <3>1. ok /\ phase = "upload" /\ executed' = executed
        BY <2>1, <2>3 DEF UploadBundle, Conclude, GateHolds, Typed
      <3>2. artifacts'[a] = work
        BY <2>1, <2>3, <3>1 DEF UploadBundle, Typed
      <3>3. /\ ValidBundle(work, a.run)
            /\ work["ci-bundle-validation.txt"].kind = "bundle-validation"
            /\ work["ci-bundle-validation.txt"].pass
        BY <2>3, <3>1 DEF JobInv, Staged
      <3>4. /\ work["ci-evidence.json"].kind = "ci-evidence"
            /\ work["ci-evidence.json"].result = "PASS"
        BY <3>3 DEF ValidBundle, ValidCiEvidence, ValidCiFields
      <3>5. a \in executed
        BY <2>3, <3>1, <3>4 DEF JobInv, Made, Built
      <3> QED
        BY <3>1, <3>2, <3>3, <3>5
    <2> QED
      BY <2>2, <2>3
  <1>4. CASE ~\E ok \in BOOLEAN : UploadBundle(ok)
    <2>1. artifacts' = artifacts
      BY <1>4 DEF Next, WorkflowStep, NoRunner, RunChecks, ChecksDie, CheckShape, UploadRaw,
             DownloadRaw, CaptureMetadata, BuildEvidence, ValidateEvidence, Attest,
             VerifyAttestation, BuildBundle, ValidateBundle, operator, github, vars,
             Push, RerunAll, RerunFailed, StepLost, StaticJobLost, FillCiRecord,
             Unpack, Damage, RebuildBundle, ValidateBundleLocally
    <2>2. gate' = gate \/ gate' = [gate EXCEPT ![now] = "failure"]
      BY <1>4 DEF Next, WorkflowStep, NoRunner, RunChecks, ChecksDie, CheckShape, UploadRaw,
             DownloadRaw, CaptureMetadata, BuildEvidence, ValidateEvidence, Attest,
             VerifyAttestation, BuildBundle, ValidateBundle, operator, github, vars,
             Push, RerunAll, RerunFailed, StepLost, StaticJobLost, FillCiRecord,
             Unpack, Damage, RebuildBundle, ValidateBundleLocally, Conclude
    <2>3. gate[a] = "success"
      BY <2>2 DEF Typed
    <2> QED
      BY <1>2, <2>1, <2>3
  <1> QED
    BY <1>3, <1>4

-----------------------------------------------------------------------------
(* The theorems. *)

LEMMA IInvStart == Init => IInv
  <1> SUFFICES ASSUME Init
               PROVE  IInv
    OBVIOUS
  <1>1. Typed
    BY TypedStart
  <1>2. JobInv
    BY NoneMade DEF Init, JobInv
  <1>3. Absent.kind = "absent"
    BY DEF Absent
  <1>4. EvidenceInv /\ ManifestInv
    BY <1>3, NoneMade, Names DEF Init, EvidenceInv, ManifestInv
  <1>5. GreenLeavesBundle
    BY DEF Init, GreenLeavesBundle
  <1> QED
    BY <1>1, <1>2, <1>4, <1>5 DEF IInv

\* What the jobs make, what was uploaded and what the operator's directory
\* holds only claims what has been executed and attested, through lost runners
\* and steps, re-runs, cancelling pushes and artifacts unpacked over another.
THEOREM Invariance == Spec => []IInv
  <1>1. Init => IInv
    BY IInvStart
  <1>2. IInv /\ [Next]_vars => IInv'
    BY TypedStep, JobStep, EvidenceStep, ManifestStep, GreenStep DEF IInv
  <1> QED
    BY <1>1, <1>2, PTL DEF Spec

\* A ci_static section that validates belongs to an attempt in which every
\* check really ran on that commit and passed, whether or not the operator
\* rebuilds manifests over mixed files.
THEOREM AcceptedExecuted == Spec => []AcceptedWasExecuted
  <1>1. IInv => AcceptedWasExecuted
    <2> SUFFICES ASSUME IInv, NEW c \in Commits, ValidCiRecord(ci, dir, c)
                 PROVE  ci.run_id = c /\ AttemptOf(ci) \in executed
      BY DEF AcceptedWasExecuted
    <2> DEFINE e == dir["ci-evidence.json"]
    <2>1. /\ e.kind = "ci-evidence" /\ e.result = "PASS" /\ e.head_sha = c
          /\ ci.run_id = e.run_id /\ ci.run_attempt = e.run_attempt
      BY DEF ValidCiRecord, ValidCiFields, SameIdentity
    <2>2. e.run_id = e.head_sha /\ AttemptOf(e) \in executed
      BY <2>1 DEF IInv, EvidenceInv
    <2> QED
      BY <2>1, <2>2 DEF AttemptOf
  <1> QED
    BY <1>1, Invariance, PTL

\* A directory that validates as a bundle holds one attempt's files, whole and
\* attested, and a green workflow left an artifact that validates, as long as
\* the operator rebuilds no manifest over the files of several attempts.
THEOREM WholeBundles ==
    ASSUME ~MixedRebuild
    PROVE  Spec => []BundlesAreWhole
  <1>1. ASSUME IInv, NEW c \in Commits, ValidBundle(dir, c)
        PROVE  LET e == dir["ci-evidence.json"]
               IN /\ dir["ci-evidence-validation.txt"] =
                       [kind |-> "evidence-validation", pass |-> TRUE, of |-> Sha(e)]
                  /\ dir["ci-attestation-verify.txt"].of = Sha(e)
                  /\ dir["ci-evidence-manifest.txt"].of = Sha(e)
                  /\ dir["static-check.txt"].at = AttemptOf(e)
                  /\ Sha(e) \in attested
    <2> DEFINE m == dir["ci-bundle-manifest.json"]
    <2>1. m.kind = "ci-bundle-manifest" /\ FilesMatch(m, dir)
      BY <1>1 DEF ValidBundle
    <2>2. PICK w : /\ m.files = Listed(w)
                   /\ \E a \in Attempts : Made(w, a, executed, attested)
                   /\ w["ci-attestation-verify.txt"].kind = "attestation-pass"
      BY <1>1, <2>1 DEF IInv, ManifestInv, ListsOneAttempt
    <2>3. \A f \in RequiredFiles : dir[f] = w[f]
      <3> SUFFICES ASSUME NEW f \in RequiredFiles
                   PROVE  dir[f] = w[f]
        OBVIOUS
      <3>1. Sha(dir[f]) = m.files[f] /\ m.files[f] = Sha(w[f])
        BY <2>1, <2>2 DEF FilesMatch, Listed
      <3> QED
        BY <3>1, ShaInjective
    <2>4. /\ dir["static-check.txt"] = w["static-check.txt"]
          /\ dir["ci-evidence.json"] = w["ci-evidence.json"]
          /\ dir["ci-evidence-manifest.txt"] = w["ci-evidence-manifest.txt"]
          /\ dir["ci-evidence-validation.txt"] = w["ci-evidence-validation.txt"]
          /\ dir["ci-attestation-verify.txt"] = w["ci-attestation-verify.txt"]
      BY <2>3, Names
    <2>5. /\ Checked(w) /\ Sha(w["ci-evidence.json"]) \in attested
          /\ w["ci-attestation-verify.txt"].of = Sha(w["ci-evidence.json"])
      BY <2>2 DEF Made, Vouched
    <2>6. w["static-check.txt"].at = AttemptOf(w["ci-evidence.json"])
      BY <2>2, <2>5 DEF Made, Ran, Built, Checked
    <2> QED
      BY <2>4, <2>5, <2>6 DEF Checked
  <1>2. IInv => ValidatedBundleIsWhole
    BY <1>1 DEF ValidatedBundleIsWhole
  <1>3. IInv => AcceptedIsAttested
    <2> SUFFICES ASSUME IInv, NEW c \in Commits, ValidCiRecord(ci, dir, c)
                 PROVE  ci.evidence_digest \in attested
      BY DEF AcceptedIsAttested
    <2>1. ValidBundle(dir, c) /\ ci.evidence_digest = Sha(dir["ci-evidence.json"])
      BY DEF ValidCiRecord
    <2> QED
      BY <1>1, <2>1
  <1>4. IInv => BundlesAreWhole
    BY <1>2, <1>3 DEF BundlesAreWhole, IInv
  <1> QED
    BY <1>4, Invariance, PTL

=============================================================================
