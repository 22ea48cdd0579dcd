---------------------------- MODULE ReleaseRecords ----------------------------
(***************************************************************************)
(* The evidence records of a release candidate and the chain of tools that *)
(* builds, finalizes and validates them: runner recovery and its           *)
(* acceptance, MT5 validation and its minimum-proof summary, resilience,   *)
(* broker coverage, the five-day soak record and the soak snapshot import, *)
(* and validate_release_evidence, which re-reads all of them.              *)
(*                                                                         *)
(* One operator works through the chain in the order of                    *)
(* docs/RELEASE_EVIDENCE_VALIDATION.md.  Between any two steps a file may  *)
(* be changed or deleted, HEAD may move and a record may be edited by hand. *)
(* A tool that refuses sends the operator back to the start, from where,   *)
(* or from the end, the operator may also resume at any other step.        *)
(*                                                                         *)
(* Sha is injective on contents.  Nobody writes a record's digest by hand: *)
(* digests come from the tools.  All required booleans, texts and counts   *)
(* of one part of a record that no property tells apart are one boolean.   *)
(***************************************************************************)
EXTENDS Naturals, Sequences, FiniteSets

CONSTANTS
    Commits,      \* commits HEAD may stand at
    Generics,     \* symbols of class OTHER in the broker's catalogue
    Desks,        \* terminal builds with broker, server, currency and margin mode
    MaxChanges,   \* bound: changes made to files, records and HEAD
    MaxJumps      \* bound: times the operator leaves the order of the chain

ASSUME CommitsAssumption == Commits # {}
ASSUME DesksAssumption == Desks # {}
ASSUME GenericsAssumption == Generics \in Nat
ASSUME BoundsAssumption == MaxChanges \in Nat /\ MaxJumps \in Nat

Attachments ==
    { "ex5", "set", "compile-log", "bundle", "ra-matrix", "mt5-logs",
      "mt5-matrix", "runtime-report", "rh-matrix", "checklists",
      "operator-record", "soak-report", "snapshot", "api-report",
      "rollback-package" }
Mt5Files == { "compile-log", "mt5-logs", "mt5-matrix", "runtime-report" }
Marked ==     \* those a validator also reads
    { "bundle", "ra-matrix", "mt5-matrix", "runtime-report", "rh-matrix",
      "checklists", "operator-record", "soak-report", "rollback-package" }
Records  == { "rr", "ra", "mt5", "mp", "rh", "bc", "soak", "release" }
Sealed   == { "rr", "ra", "mt5", "rh", "bc", "soak" }
Classes  == { "FX", "OTHER" }     \* every class but OTHER is treated as FX is
Reports  == Sealed \cup { "soak-evidence", "rollback", "api", "release" }

(* The files whose hashes a record of each kind carries.                   *)
Bound(kind) ==
    CASE kind = "ra"  -> { "ra-matrix" }
      [] kind = "mt5" -> Mt5Files
      [] kind = "rh"  -> { "rh-matrix" }
      [] OTHER        -> {}

(* What a file holds: the commit it names, which writing of it this is, and *)
(* whether it holds what the validators look for (rows PASS, markers, ...). *)
Nothing == "nothing"
Absent  == [of |-> Nothing, n |-> 0, ok |-> FALSE]
NoFile  == [kind |-> "absent"]

Sha(content) == << "sha256", content >>
Unsigned == << >>
NoSet    == << "NONE" >>
Basis(record)  == [record EXCEPT !.digest = Unsigned]
Digest(record) == Sha(Basis(record))
Signed(record) == [record EXCEPT !.digest = Digest(record)]
DigestHolds(record, required) == required => record.digest = Digest(record)

(* An optional argument of a tool is a set of at most one value.           *)
Expect(actual, given) == given = {} \/ actual \in given

(* The order of the chain.                                                 *)
Steps ==
    << "compile", "ci", "rr", "rr-sign", "rr-final", "ra-matrix", "ra", "ra-sign",
       "ra-final", "mt5", "mt5-sign", "mt5-final", "mp", "rh", "rh-final", "bc",
       "bc-final", "soak", "soak-final", "sections", "fill", "import", "mp-check", "soak-check",
       "rollback-check", "api-check", "validate" >>

VARIABLES
    head,      \* commit checked out
    att,       \* files the records point at
    rec,       \* the JSON records
    txt,       \* verdict in each validator's text output
    cand,      \* candidate identity in the operator's notes
    ran,       \* the EX5 that MT5 session, catalogue run and soak really used
    sealed,    \* records that passed --finalize, with the files bound then
    at,        \* index of the step in progress
    changes, jumps

vars == << head, att, rec, txt, cand, ran, sealed, at, changes, jumps >>

At(step)  == Steps[at] = step
Advance   == at' = at + 1
StartOver == at' = 1
Exists(kind) == rec[kind] # NoFile
There(file)  == att[file] # Absent

Written(commit) == [of |-> commit, n |-> 2 * changes, ok |-> TRUE]
-----------------------------------------------------------------------------
(* Runner recovery.                                                        *)

Incident == "incident"     \* the run that never got a runner
Runs == Commits \cup { Incident }
RequiredSteps == 7

(* GitHub: jobs of one name in one attempt of a run.                       *)
Jobs(run) ==
    LET lost == [run |-> run, id |-> 1, runner |-> 0, steps |-> 0,
                 conclusion |-> "failure"]
    IN IF run = Incident THEN { lost }
       ELSE { lost, [run |-> run, id |-> 2, runner |-> 1, steps |-> RequiredSteps + 1,
                     conclusion |-> "success"] }
JobFor(run) == CHOOSE job \in Jobs(run) : \A other \in Jobs(run) : other.id <= job.id

Allocated(job, steps) ==
    /\ job.conclusion = "success"
    /\ job.runner > 0
    /\ job.id > 0
    /\ job.steps >= steps

(* validate_runner_recovery *)
ValidRecovery(r, required, sha, bundle) ==
    /\ r.incident
    /\ Allocated(r.probe, 1)
    /\ Allocated(r.static, RequiredSteps)
    /\ Expect(r.sha, sha)
    /\ Expect(r.bundle, bundle)
    /\ r.remediation
    /\ r.accept
    /\ DigestHolds(r, required)

(* build_runner_recovery_evidence: the run is an argument, and so is the    *)
(* commit the record names; nothing compares the two here.                  *)
RecoveryDraft(run) ==
    [kind |-> "rr", id |-> run, incident |-> TRUE, probe |-> JobFor(cand.sha),
     static |-> JobFor(run), sha |-> cand.sha, bundle |-> Sha(att["bundle"]),
     remediation |-> FALSE, accept |-> FALSE, digest |-> Unsigned]

(* Faulty variant: no hash of the matrix.                                  *)
AcceptanceByRows(a, required, sha, bundle) ==
    /\ Expect(a.sha, sha) /\ Expect(a.bundle, bundle)
    /\ There("ra-matrix") /\ att["ra-matrix"].ok
    /\ Exists("rr") /\ ValidRecovery(rec["rr"], TRUE, {a.sha}, {a.bundle})
    /\ rec["rr"].id = a.recovery /\ Digest(rec["rr"]) = a.recoveryDigest
    /\ a.machine /\ a.checked /\ a.accept /\ DigestHolds(a, required)

(* validate_acceptance: the matrix by hash and by rows, the recovery record *)
(* read again under the candidate and the bundle the acceptance names.      *)
ValidAcceptance(a, required, sha, bundle) ==
    /\ Expect(a.sha, sha)
    /\ Expect(a.bundle, bundle)
    /\ There("ra-matrix")
    /\ a.hashes["ra-matrix"] = Sha(att["ra-matrix"])
    /\ att["ra-matrix"].ok
    /\ Exists("rr")
    /\ ValidRecovery(rec["rr"], TRUE, {a.sha}, {a.bundle})
    /\ rec["rr"].id = a.recovery
    /\ Digest(rec["rr"]) = a.recoveryDigest
    /\ a.machine /\ a.checked
    /\ a.accept
    /\ DigestHolds(a, required)

AcceptanceDraft ==
    LET r == rec["rr"]
    IN [kind |-> "ra", id |-> cand.sha, recovery |-> r.id,
        recoveryDigest |-> Digest(r), sha |-> cand.sha,
        bundle |-> Sha(att["bundle"]),
        hashes |-> [f \in {"ra-matrix"} |-> Sha(att[f])],
        machine |-> /\ r.incident
                    /\ Allocated(r.probe, 0)
                    /\ Allocated(r.static, RequiredSteps)
                    /\ r.sha = cand.sha
                    /\ r.bundle = Sha(att["bundle"]),
        checked |-> FALSE, accept |-> FALSE, digest |-> Unsigned]
-----------------------------------------------------------------------------
(* MT5 validation, its minimum-proof summary, and resilience.              *)

HashedFile(record, f) == There(f) /\ record.hashes[f] = Sha(att[f])

(* validate_mt5 *)
ValidMt5(m, required, sha, ex5, set) ==
    /\ Expect(m.sha, sha)
    /\ Expect(m.ex5, ex5)
    /\ Expect(m.set, set)
    /\ m.flags
    /\ m.live
    /\ m.symbols # {}
    /\ \A f \in Mt5Files : HashedFile(m, f)
    /\ att["mt5-matrix"].ok
    /\ att["runtime-report"].ok
    /\ m.accept
    /\ DigestHolds(m, required)

Mt5Draft ==
    [kind |-> "mt5", id |-> cand.sha, sha |-> cand.sha, ex5 |-> cand.ex5,
     set |-> cand.set, desk |-> cand.desk,
     hashes |-> [f \in Mt5Files |-> Sha(IF f = "compile-log" THEN att[f]
                                        ELSE Written(cand.sha))],
     flags |-> FALSE, live |-> FALSE, symbols |-> {}, accept |-> FALSE,
     digest |-> Unsigned]

(* Faulty variant: the stored digest is hashed along.                      *)
ProofWithSeal(m) ==
    [kind |-> "mp", sha |-> m.sha, source |-> Sha(m), overall |-> TRUE]
(* build_mt5_minimum_proof_summary and its validator.                      *)
MinimumProof(m) ==
    [kind |-> "mp", sha |-> m.sha, source |-> Digest(m), overall |-> TRUE]
ValidMinimumProof(s) ==
    /\ s.overall
    /\ Exists("mt5")
    /\ ValidMt5(rec["mt5"], TRUE, {s.sha}, {}, {})
    /\ Digest(rec["mt5"]) = s.source

(* validate_resilience *)
ValidResilience(r, required, sha, config) ==
    /\ Expect(r.sha, sha)
    /\ r.config > 0
    /\ Expect(r.config, config)
    /\ HashedFile(r, "rh-matrix")
    /\ att["rh-matrix"].ok
    /\ r.checks
    /\ r.accept
    /\ DigestHolds(r, required)
-----------------------------------------------------------------------------
(* Broker coverage.                                                        *)

ClassRowHolds(cls, row, count) ==
    /\ row.required <=> count > 0
    /\ row.required =>
          /\ row.passed
          /\ row.examples > 0
          /\ cls # "OTHER" => row.macro /\ row.live
          /\ cls = "OTHER" /\ row.live => row.macro /\ row.examples = count
    /\ row.live => row.passed /\ row.macro

(* validate_broker_coverage_evidence.validate_record: always with digest.  *)
ValidBroker(b, sha, desk) ==
    /\ Expect(b.sha, sha)
    /\ Expect(b.desk, desk)
    /\ b.discovered > 0 /\ b.discovered <= b.total
    /\ b.rechecked = b.discovered
    /\ b.rechecked = b.counts["FX"] + b.counts["OTHER"]
    /\ b.controls
    /\ \A cls \in Classes : ClassRowHolds(cls, b.rows[cls], b.counts[cls])
    /\ b.accept
    /\ DigestHolds(b, TRUE)

(* The record the operator fills in for a broker with one FX symbol and the *)
(* generic ones, of which `listed` are named as tested.                    *)
BrokerDraft(desk, listed, live) ==
    [kind |-> "bc", sha |-> cand.sha, ex5 |-> cand.ex5, set |-> cand.set,
     desk |-> desk, total |-> 2 + Generics, discovered |-> 1 + Generics,
     rechecked |-> 1 + Generics,
     counts |-> [cls \in Classes |-> IF cls = "OTHER" THEN Generics ELSE 1],
     rows |-> [cls \in Classes |->
                 IF cls = "OTHER"
                 THEN [required |-> Generics > 0, passed |-> live \/ Generics > 0,
                       macro |-> live, examples |-> listed, live |-> live]
                 ELSE [required |-> TRUE, passed |-> TRUE, macro |-> TRUE,
                       examples |-> 1, live |-> TRUE]],
     controls |-> TRUE, accept |-> TRUE, digest |-> Unsigned]
-----------------------------------------------------------------------------
(* The five-day soak record and the demo_soak section.                     *)

(* Dates are day numbers, a Monday being a multiple of seven.              *)
NextWeekday(day) == IF (day + 1) % 7 < 5 THEN day + 1 ELSE day + 7 - (day % 7)

DaysHold(r) ==
    /\ Len(r.days) = 5
    /\ \A i \in 1 .. 4 : r.days[i] < r.days[i + 1]
    /\ \A i \in 1 .. 4 :
          r.days[i + 1] = NextWeekday(r.days[i]) \/ i + 1 \in r.justified

(* validate_five_day_soak_record.validate_record: checklists, operator      *)
(* record and report are read for what they say, and not hashed.           *)
ValidSoakRecord(r, required) ==
    /\ DaysHold(r)
    /\ There("checklists") /\ att["checklists"].ok
    /\ att["checklists"].of = r.sha
    /\ r.observed /\ r.zero /\ r.lifecycle
    /\ There("operator-record") /\ att["operator-record"].ok
    /\ att["operator-record"].of = r.sha
    /\ There("soak-report") /\ att["soak-report"].ok
    /\ r.accept
    /\ DigestHolds(r, required)

SoakDraft(days, justified) ==
    [kind |-> "soak", id |-> Written(cand.sha).n, evidence |-> Written(cand.sha).n,
     sha |-> cand.sha, ex5 |-> cand.ex5, set |-> cand.set, days |-> days,
     justified |-> justified, observed |-> TRUE, zero |-> TRUE,
     lifecycle |-> TRUE, accept |-> TRUE, digest |-> Unsigned]

(* validate_soak: the section against the record it points at.             *)
ValidSoak(s) ==
    /\ There("soak-report")
    /\ Exists("soak")
    /\ ValidSoakRecord(rec["soak"], TRUE)
    /\ rec["soak"].id = s.record
    /\ rec["soak"].evidence = s.evidence
    /\ Digest(rec["soak"]) = s.recordDigest
    /\ DigestHolds(s, TRUE)

NoSoak == [evidence |-> 0, record |-> 0, recordDigest |-> Unsigned, digest |-> Unsigned]
SoakSection ==
    Signed([evidence |-> att["snapshot"].n, record |-> rec["soak"].id,
            recordDigest |-> Digest(rec["soak"]), digest |-> Unsigned])

(* import_soak_snapshot, up to the write.                                  *)
Importable ==
    /\ There("snapshot") /\ Exists("soak") /\ Exists("release")
    /\ There("soak-report")
    /\ ValidSoakRecord(rec["soak"], TRUE)
    /\ rec["soak"].evidence = att["snapshot"].n
    /\ rec["soak"].sha = rec["release"].sha
    /\ rec["soak"].ex5 = rec["release"].ex5
    /\ rec["soak"].set = rec["release"].set
    /\ ValidSoak(SoakSection)
-----------------------------------------------------------------------------
(* validate_release_evidence, section by section.                          *)

(* Faulty variant: the EX5 is there, its hash is not compared.             *)
BuildIsNamed(r) ==
    /\ head = r.sha
    /\ There("ex5") /\ There("compile-log")
    /\ r.set = NoSet \/ (There("set") /\ Sha(att["set"]) = r.set)

BuildIsOnDisk(r) ==
    /\ head = r.sha
    /\ There("ex5") /\ Sha(att["ex5"]) = r.ex5
    /\ r.set = NoSet \/ (There("set") /\ Sha(att["set"]) = r.set)
    /\ There("compile-log")

(* The bundle on disk as CiEvidence models it, reduced to its identity.     *)
CiSection(r) ==
    /\ There("bundle") /\ att["bundle"].ok
    /\ att["bundle"].of = r.sha
    /\ r.ci.bundle = Sha(att["bundle"])
    /\ r.ci.job = JobFor(att["bundle"].of)

RecoverySection(r) ==
    /\ Exists("rr") /\ txt["rr"] = "PASS"
    /\ ValidRecovery(rec["rr"], TRUE, {r.sha}, {r.ci.bundle})
    /\ Digest(rec["rr"]) = r.rr.digest
    /\ rec["rr"].id = r.rr.id
    /\ rec["rr"].static = r.ci.job

AcceptanceSection(r) ==
    /\ Exists("ra") /\ txt["ra"] = "PASS"
    /\ ValidAcceptance(rec["ra"], TRUE, {r.sha}, {r.ci.bundle})
    /\ Digest(rec["ra"]) = r.ra.digest
    /\ rec["ra"].id = r.ra.id
    /\ rec["ra"].recovery = r.rr.id
    /\ rec["ra"].recoveryDigest = r.rr.digest

Mt5Section(r) ==
    /\ Exists("mt5") /\ txt["mt5"] = "PASS"
    /\ ValidMt5(rec["mt5"], TRUE, {r.sha}, {r.ex5}, {r.set})
    /\ Digest(rec["mt5"]) = r.mt5.digest
    /\ rec["mt5"].id = r.mt5.id
    /\ rec["mt5"].desk = r.desk
    /\ rec["mt5"].symbols \subseteq r.symbols
    /\ rec["mt5"].live = r.api

ResilienceSection(r) ==
    /\ Exists("rh") /\ txt["rh"] = "PASS"
    /\ ValidResilience(rec["rh"], TRUE, {r.sha}, {r.rh.config})
    /\ Digest(rec["rh"]) = r.rh.digest
    /\ rec["rh"].id = r.rh.id

BrokerSection(r) ==
    /\ Exists("bc") /\ txt["bc"] = "PASS"
    /\ ValidBroker(rec["bc"], {r.sha}, {r.desk})
    /\ Digest(rec["bc"]) = r.bc.digest
    /\ rec["bc"].sha = r.sha /\ rec["bc"].ex5 = r.ex5 /\ rec["bc"].set = r.set
    /\ \A cls \in Classes : r.bc.live[cls] = rec["bc"].rows[cls].live

ApiTransport(r) == r.api /\ There("api-report") /\ r.gates

(* validate_rollback_readiness *)
RollbackReadiness(r) ==
    /\ r.rollback.validated
    /\ \/ /\ r.rollback.mode = "VALIDATED_PACKAGE"
          /\ There("rollback-package")
          /\ Sha(att["rollback-package"]) = r.rollback.package
          /\ att["rollback-package"].ok     \* the PASS text beside it
       \/ /\ r.rollback.mode = "FIRST_CERTIFIED_RELEASE"
          /\ r.rollback.package = Unsigned

SoakMatchesBuild(r) ==
    /\ ValidSoak(r.soak)
    /\ rec["soak"].sha = r.sha
    /\ rec["soak"].ex5 = r.ex5
    /\ rec["soak"].set = r.set

ValidRelease ==
    LET r == rec["release"]
    IN /\ Exists("release")
       /\ BuildIsOnDisk(r)
       /\ CiSection(r)
       /\ RecoverySection(r)
       /\ AcceptanceSection(r)
       /\ r.symbols # {}
       /\ BrokerSection(r)
       /\ Mt5Section(r)
       /\ ResilienceSection(r)
       /\ RollbackReadiness(r)
       /\ ApiTransport(r)
       /\ SoakMatchesBuild(r)
       /\ r.gates
       /\ r.final
-----------------------------------------------------------------------------
(* The chain.  Each action is one run of a tool, or what the operator       *)
(* supplies between two runs.                                              *)

Init ==
    /\ head = CHOOSE commit \in Commits : TRUE
    /\ att = [f \in Attachments |->     \* a first release loses these two files
                IF f \in { "set", "rollback-package" }
                THEN [of |-> Nothing, n |-> 0, ok |-> TRUE] ELSE Absent]
    /\ rec = [k \in Records |-> NoFile]
    /\ txt = [k \in Reports |-> "none"]
    /\ cand \in [sha : {head}, ex5 : {Unsigned}, set : {NoSet}, desk : {CHOOSE desk \in Desks : TRUE}]
    /\ ran = [s \in { "mt5", "bc", "soak" } |-> Unsigned]
    /\ sealed = {}
    /\ at = 1
    /\ changes = 0 /\ jumps = 0

bounds == << changes, jumps >>
world  == << head, cand, ran, sealed >>

Write(files, commit) ==
    att' = [f \in Attachments |-> IF f \in files THEN Written(commit) ELSE att[f]]
Ran(session) == ran' = [ran EXCEPT ![session] = Sha(att["ex5"])]
Save(kind, record) == rec' = [rec EXCEPT ![kind] = record]

(* MetaEditor compiles HEAD; the operator notes the candidate's identity.   *)
Compile ==
    /\ At("compile")
    /\ Write({"ex5", "compile-log"}, head)
    /\ cand' = [cand EXCEPT
                   !.sha = head, !.ex5 = Sha(Written(head)),
                   !.set = IF There("set") THEN Sha(att["set"]) ELSE NoSet]
    /\ Advance
    /\ UNCHANGED << head, rec, txt, ran, sealed, changes, jumps >>

(* The CI bundle of the candidate is downloaded.                           *)
Download ==
    /\ At("ci")
    /\ Write({"bundle"}, cand.sha)
    /\ Advance
    /\ UNCHANGED << head, rec, txt, cand, ran, sealed, changes, jumps >>

(* build_runner_recovery_evidence.main; naming another run is a mistake.    *)
BuildRecovery(run) ==
    /\ At("rr")
    /\ IF There("bundle")
       THEN /\ Save("rr", RecoveryDraft(run))
            /\ Advance
       ELSE UNCHANGED rec /\ StartOver
    /\ \/ run = cand.sha /\ UNCHANGED changes
       \/ run # cand.sha /\ changes < MaxChanges /\ changes' = changes + 1
    /\ UNCHANGED << att, txt, world, jumps >>

(* The acceptance matrix is filled in from the archived evidence.           *)
FillMatrix ==
    /\ At("ra-matrix")
    /\ Write({"ra-matrix"}, cand.sha)
    /\ Advance
    /\ UNCHANGED << rec, txt, world, bounds >>

(* build_runner_recovery_acceptance.main                                    *)
BuildAcceptance ==
    /\ At("ra")
    /\ IF /\ Exists("rr") /\ There("ra-matrix")
          /\ ValidRecovery(rec["rr"], TRUE, {cand.sha}, {Sha(att["bundle"])})
       THEN Save("ra", AcceptanceDraft) /\ Advance
       ELSE UNCHANGED rec /\ StartOver
    /\ UNCHANGED << att, txt, world, bounds >>

(* A test session on the binary that is there, then                         *)
(* build_mt5_validation_evidence.main over its files; the identity of the   *)
(* candidate is an argument.                                               *)
BuildMt5 ==
    /\ At("mt5")
    /\ IF There("ex5") /\ There("compile-log")
       THEN /\ Ran("mt5")
            /\ Write(Mt5Files \ {"compile-log"}, cand.sha)
            /\ Save("mt5", Mt5Draft)
            /\ Advance
       ELSE UNCHANGED << ran, att, rec >> /\ StartOver
    /\ UNCHANGED << head, txt, cand, sealed, bounds >>

(* The operator completes a built draft and signs it ACCEPT.               *)
Completed(kind) ==
    CASE kind = "rr"  -> [rec[kind] EXCEPT !.remediation = TRUE, !.accept = TRUE]
      [] kind = "ra"  -> [rec[kind] EXCEPT !.checked = TRUE, !.accept = TRUE]
      [] kind = "mt5" -> [rec[kind] EXCEPT !.flags = TRUE, !.live = TRUE,
                                           !.symbols = {"traded"}, !.accept = TRUE]
Complete(kind) ==
    /\ At(kind \o "-sign")
    /\ IF Exists(kind) THEN Save(kind, Completed(kind)) /\ Advance
                       ELSE UNCHANGED rec /\ StartOver
    /\ UNCHANGED << att, txt, world, bounds >>

(* Validity of a record as its own validator sees it, which the documented  *)
(* commands run without the expected identity.                             *)
Valid(kind, r, required) ==
    CASE kind = "rr"   -> ValidRecovery(r, required, {}, {})
      [] kind = "ra"   -> ValidAcceptance(r, required, {}, {})
      [] kind = "mt5"  -> ValidMt5(r, required, {}, {}, {})
      [] kind = "rh"   -> ValidResilience(r, required, {}, {})
      [] kind = "bc"   -> ValidBroker(r, {}, {})
      [] kind = "soak" -> ValidSoakRecord(r, required)

(* main of the validators, with --finalize: the digest is written when all  *)
(* else holds, except that broker coverage writes it first.                *)
Accepts(kind) ==
    IF kind = "bc" THEN Valid(kind, Signed(rec[kind]), TRUE)
                   ELSE Valid(kind, rec[kind], FALSE)
Finalize(kind) ==
    /\ At(kind \o "-final")
    /\ IF ~ Exists(kind)
       THEN StartOver /\ UNCHANGED << rec, txt, sealed >>
       ELSE /\ IF Accepts(kind) \/ kind = "bc"
               THEN Save(kind, Signed(rec[kind])) ELSE UNCHANGED rec
            /\ IF Accepts(kind)
               THEN /\ sealed' = sealed \cup
                         { [kind |-> kind, record |-> Signed(rec[kind]),
                            files |-> [f \in Bound(kind) |-> att[f]]] }
                    /\ txt' = [txt EXCEPT ![kind] = "PASS"]
                    /\ Advance
               ELSE /\ txt' = [txt EXCEPT ![kind] = "FAILED"]
                    /\ UNCHANGED sealed
                    /\ StartOver
    /\ UNCHANGED << head, att, cand, ran, bounds >>

(* The plain run of the same validators, which only rewrites the text.      *)
Recheck(kind) ==
    /\ Exists(kind)
    /\ changes < MaxChanges /\ changes' = changes + 1
    /\ txt' = [txt EXCEPT ![kind] = IF Valid(kind, rec[kind], TRUE)
                                    THEN "PASS" ELSE "FAILED"]
    /\ UNCHANGED << att, rec, world, at, jumps >>

(* build_mt5_minimum_proof_summary.main                                     *)
BuildMinimumProof ==
    /\ At("mp")
    /\ IF Exists("mt5") /\ ValidMt5(rec["mt5"], TRUE, {}, {}, {})
       THEN Save("mp", MinimumProof(rec["mt5"])) /\ Advance
       ELSE UNCHANGED rec /\ StartOver
    /\ UNCHANGED << att, txt, world, bounds >>

(* Records filled in from their templates.                                 *)
DraftResilience ==
    /\ At("rh")
    /\ Write({"rh-matrix"}, cand.sha)
    /\ Save("rh", [kind |-> "rh", id |-> cand.sha, sha |-> cand.sha,
                   config |-> changes + 1,
                   hashes |-> [f \in {"rh-matrix"} |-> Sha(Written(cand.sha))],
                   checks |-> TRUE, accept |-> TRUE, digest |-> Unsigned])
    /\ Advance
    /\ UNCHANGED << txt, world, bounds >>

DraftBroker(desk) ==
    /\ At("bc")
    /\ IF There("ex5")
       THEN /\ Ran("bc")
            /\ \E listed \in 0 .. Generics, live \in BOOLEAN :
                 LET careful == /\ desk = cand.desk
                                /\ live => listed = Generics
                                /\ Generics > 0 => listed > 0
                 IN /\ Save("bc", BrokerDraft(desk, listed, live))
                    /\ \/ careful /\ UNCHANGED changes
                       \/ ~careful /\ changes < MaxChanges /\ changes' = changes + 1
            /\ Advance
       ELSE UNCHANGED << ran, rec, changes >> /\ StartOver
    /\ UNCHANGED << head, att, txt, cand, sealed, jumps >>

(* Five days on a demo account, starting on a Thursday; a skipped weekday   *)
(* without a justification is a mistake.                                   *)
DraftSoak ==
    /\ At("soak")
    /\ IF There("ex5")
       THEN /\ Ran("soak")
            /\ Write({"checklists", "operator-record", "soak-report", "snapshot"}, cand.sha)
            /\ \/ /\ Save("soak", SoakDraft(<< 3, 4, 7, 8, 9 >>, {}))
                  /\ UNCHANGED changes
               \/ /\ Save("soak", SoakDraft(<< 3, 4, 8, 9, 10 >>, {}))
                  /\ changes < MaxChanges /\ changes' = changes + 1
            /\ Advance
       ELSE UNCHANGED << ran, att, rec, changes >> /\ StartOver
    /\ UNCHANGED << head, txt, cand, sealed, jumps >>

(* The API matrix is tested and, from the second release on, a rollback     *)
(* package built; then release_evidence.json is filled in from the records. *)
PrepareSections ==
    /\ At("sections")
    /\ Write({"api-report"} \cup { f \in {"rollback-package"} : There(f) }, cand.sha)
    /\ Advance
    /\ UNCHANGED << rec, txt, world, bounds >>

ReleaseDraft(desk) ==
    LET id(kind) == [id |-> rec[kind].id, digest |-> rec[kind].digest]
    IN [kind |-> "release", sha |-> cand.sha, ex5 |-> cand.ex5, set |-> cand.set,
        desk |-> desk, symbols |-> {"traded"},
        ci |-> [bundle |-> Sha(att["bundle"]), job |-> JobFor(cand.sha)],
        rr |-> id("rr"), ra |-> id("ra"), mt5 |-> id("mt5"),
        rh |-> [id |-> rec["rh"].id, digest |-> rec["rh"].digest,
                config |-> rec["rh"].config],
        bc |-> [digest |-> rec["bc"].digest,
                live |-> [cls \in Classes |-> rec["bc"].rows[cls].live]],
        rollback |-> IF There("rollback-package")
                     THEN [mode |-> "VALIDATED_PACKAGE", validated |-> TRUE,
                           package |-> Sha(att["rollback-package"])]
                     ELSE [mode |-> "FIRST_CERTIFIED_RELEASE", validated |-> TRUE,
                           package |-> Unsigned],
        api |-> TRUE, soak |-> NoSoak, gates |-> TRUE, final |-> TRUE]

FillRelease ==
    /\ At("fill")
    /\ IF There("bundle") /\ \A kind \in Sealed : Exists(kind)
       THEN Save("release", ReleaseDraft(rec["mt5"].desk)) /\ Advance
       ELSE UNCHANGED rec /\ StartOver
    /\ UNCHANGED << att, txt, world, bounds >>

(* import_soak_snapshot.main: one section of the release evidence is        *)
(* replaced, or nothing is modified.                                       *)
ImportSoak ==
    /\ At("import")
    /\ IF Importable
       THEN /\ Save("release", [rec["release"] EXCEPT !.soak = SoakSection])
            /\ Advance
       ELSE UNCHANGED rec /\ StartOver
    /\ UNCHANGED << att, txt, world, bounds >>

(* validate_mt5_minimum_proof_summary.main prints its verdict.              *)
CheckMinimumProof ==
    /\ At("mp-check")
    /\ IF Exists("mp") /\ ValidMinimumProof(rec["mp"]) THEN Advance ELSE StartOver
    /\ UNCHANGED << att, rec, txt, world, bounds >>

(* main of validate_soak_evidence, validate_rollback_readiness and          *)
(* validate_api_transport_evidence: each writes its own text, unless the    *)
(* release evidence is missing.                                            *)
SectionHolds(report) ==
    LET r == rec["release"]
    IN CASE report = "soak-evidence" -> ValidSoak(r.soak)
         [] report = "rollback"      -> RollbackReadiness(r)
         [] report = "api"           -> ApiTransport(r)
CheckSection(step, report) ==
    /\ At(step)
    /\ IF Exists("release")
       THEN txt' = [txt EXCEPT ![report] = IF SectionHolds(report)
                                           THEN "PASS" ELSE "FAILED"]
       ELSE UNCHANGED txt
    /\ IF Exists("release") /\ SectionHolds(report) THEN Advance ELSE StartOver
    /\ UNCHANGED << att, rec, world, bounds >>

(* validate_release_evidence.main; it is run again whenever somebody asks.  *)
ValidateRelease ==
    /\ At("validate")
    /\ IF Exists("release")
       THEN txt' = [txt EXCEPT !["release"] = IF ValidRelease THEN "PASS" ELSE "FAILED"]
       ELSE UNCHANGED txt
    /\ IF ValidRelease THEN UNCHANGED at ELSE StartOver
    /\ UNCHANGED << att, rec, world, bounds >>

Work ==
    \/ Compile \/ Download
    \/ BuildRecovery(cand.sha) \/ FillMatrix \/ BuildAcceptance
    \/ BuildMt5 \/ \E desk \in Desks : DraftBroker(desk)
    \/ \E kind \in {"rr", "ra", "mt5"} : Complete(kind)
    \/ \E kind \in Sealed : Finalize(kind)
    \/ BuildMinimumProof \/ DraftResilience \/ DraftSoak
    \/ PrepareSections \/ FillRelease \/ ImportSoak \/ CheckMinimumProof
    \/ CheckSection("soak-check", "soak-evidence")
    \/ CheckSection("rollback-check", "rollback")
    \/ CheckSection("api-check", "api")
    \/ ValidateRelease
-----------------------------------------------------------------------------
(* What happens around the chain.                                          *)

Change == changes < MaxChanges /\ changes' = changes + 1

(* A file is rewritten, spoiled or removed.                                *)
ChangeFile(file) ==
    /\ Change
    /\ There(file)
    /\ \E content \in { [att[file] EXCEPT !.n = 2 * changes + 1, !.ok = ok]
                          : ok \in (IF file \in Marked THEN BOOLEAN ELSE {TRUE}) }
                      \cup { Absent } :
          att' = [att EXCEPT ![file] = content]
    /\ UNCHANGED << rec, txt, world, at, jumps >>

(* A record is edited by hand: its acceptance withdrawn, or another commit  *)
(* written into it; or it is removed.                                      *)
ChangeRecord(kind) ==
    /\ Change
    /\ Exists(kind)
    /\ \/ Save(kind, NoFile)
       \/ kind \in Sealed /\ Save(kind, [rec[kind] EXCEPT !.accept = ~ @])
       \/ rec[kind].sha # head /\ Save(kind, [rec[kind] EXCEPT !.sha = head])
    /\ UNCHANGED << att, txt, world, at, jumps >>

(* The deployment section is moved to another desk.                        *)
ChangeDeployment(desk) ==
    /\ Change
    /\ Exists("release") /\ rec["release"].desk # desk
    /\ Save("release", [rec["release"] EXCEPT !.desk = desk])
    /\ UNCHANGED << att, txt, world, at, jumps >>

MoveHead(commit) ==
    /\ Change
    /\ commit # head
    /\ head' = commit
    /\ UNCHANGED << att, rec, txt, cand, ran, sealed, at, jumps >>

(* Instead of starting over, or when done, the operator resumes the chain   *)
(* somewhere in the middle: only a part is done again.                     *)
Jump(step) ==
    /\ at \in {1, Len(Steps)}
    /\ jumps < MaxJumps /\ jumps' = jumps + 1
    /\ step # at
    /\ at' = step
    /\ UNCHANGED << att, rec, txt, world, changes >>

Disturb ==
    \/ \E file \in Attachments : ChangeFile(file)
    \/ \E kind \in Records : ChangeRecord(kind)
    \/ \E kind \in Sealed : Recheck(kind)
    \/ \E desk \in Desks : ChangeDeployment(desk)
    \/ \E commit \in Commits : MoveHead(commit)
    \/ \E run \in Runs : run # cand.sha /\ BuildRecovery(run)
    \/ \E step \in 1 .. Len(Steps) : Jump(step)

Next == Work \/ Disturb
Spec == Init /\ [][Next]_vars
(* The operator keeps working while the release does not validate.         *)
FairSpec == Spec /\ WF_vars(Work)
-----------------------------------------------------------------------------
(* Release evidence that validates rests on records exactly as they were    *)
(* accepted by --finalize, and on the same bound files as then: whatever    *)
(* was rewritten, spoiled, re-signed or done again only in part afterwards  *)
(* (docs/RUNNER_RECOVERY_EVIDENCE.md: a matrix edit after finalization      *)
(* invalidates the acceptance).                                            *)
SealedAsAccepted ==
    ValidRelease =>
        \A kind \in Sealed : \E s \in sealed :
            /\ s.kind = kind
            /\ s.record = rec[kind]
            /\ \A f \in Bound(kind) : s.files[f] = att[f]

(* The EX5 on disk is the one that the MT5 session, the catalogue run and   *)
(* the five days really ran, although each tool takes its hash as an        *)
(* argument from the operator's notes.                                     *)
TestedBinaryShips ==
    ValidRelease => \A session \in DOMAIN ran : ran[session] = Sha(att["ex5"])

(* A minimum-proof summary that validates speaks of MT5 evidence that was   *)
(* accepted, over the files that are there now.                            *)
ProofOfAcceptedRun ==
    Exists("mp") /\ ValidMinimumProof(rec["mp"]) =>
        \E s \in sealed :
            /\ s.kind = "mt5"
            /\ Digest(s.record) = rec["mp"].source
            /\ s.record.sha = rec["mp"].sha
            /\ \A f \in Mt5Files : s.files[f] = att[f]

(* Together: a summary or a release never rests on anything but the records *)
(* that were accepted, over the files of the acceptance.                    *)
RestsOnAccepted == SealedAsAccepted /\ ProofOfAcceptedRun

(* Whatever was disturbed, working through the chain again ends in release  *)
(* evidence that validates: each builder's output is what its validator     *)
(* and the aggregate validator accept.                                     *)
ReleaseValidates == <>[]ValidRelease
=============================================================================
