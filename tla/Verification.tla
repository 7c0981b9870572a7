---------------------------- MODULE Verification ----------------------------
(***************************************************************************)
(* The statuses the verifier may find for a claim (consensus/verifier.go): *)
(* one for every check the request requires and one for the semantic       *)
(* verifier.  A check that cannot be made is inconclusive, but a command   *)
(* that cannot be started, or that the deadline kills, has failed like one *)
(* that ran and said no.                                                   *)
(*                                                                         *)
(* A path is a sequence of names; what the workspace and the commands show *)
(* a check is chosen freely.                                               *)
(***************************************************************************)
EXTENDS Naturals, Sequences
LOCAL INSTANCE SequencesExt

CONSTANTS
  Paths,       \* the paths a claim declares, a diff lists or a request allows
  Readings     \* the values a benchmark prints

ASSUME VerificationAssumption ==
  /\ Paths \subseteq Seq(STRING)
  /\ Readings \subseteq Nat

VerificationStatus == {"passed", "failed", "inconclusive"}

CheckKinds ==
  {"workspace_snapshot", "allowed_paths", "git_diff_paths", "benchmark_threshold",
   "command", "unsupported"}

\* A required check: the paths and the base revision of its own, and the limit of
\* a benchmark.
VerificationCheck ==
  [kind : CheckKinds, paths : SUBSET Paths, base : BOOLEAN,
   threshold : Nat, mode : {"min", "max"}]

\* What a request brings: the root of its workspace and what pins it, the paths it
\* allows, its checks, a semantic verifier, and a directory for artifacts.
VerificationSetup ==
  [root : BOOLEAN, pins : SUBSET {"hash", "revision"}, allowed : SUBSET Paths,
   checks : SUBSET VerificationCheck, semantic : BOOLEAN, artifacts : BOOLEAN]

\* matchesAllowedPath: the path itself or one below it, except that nothing is
\* below the root <<>>, which is how "." reads.
MatchesAllowed(path, allowed) ==
  \E a \in allowed : path = a \/ (a # <<>> /\ IsPrefix(a, path))

InScope(paths, allowed) ==
  IF \A p \in paths : MatchesAllowed(p, allowed) THEN "passed" ELSE "failed"

\* The workspace as its pin describes it, another one, or one that cannot be read.
WorkspaceSnapshot(setup, seen) ==
  CASE ~setup.root \/ setup.pins = {} \/ seen = "unreadable" -> "inconclusive"
    [] setup.root /\ setup.pins # {} /\ seen = "same"        -> "passed"
    [] setup.root /\ setup.pins # {} /\ seen = "other"       -> "failed"

\* The paths the claim says it touched.
AllowedPaths(setup, touched) ==
  IF setup.allowed = {} \/ touched = {} THEN "inconclusive" ELSE InScope(touched, setup.allowed)

\* The paths git lists against the base revision, none also when git fails.
GitDiffPaths(setup, check, changed) ==
  LET allowed == IF check.paths # {} THEN check.paths ELSE setup.allowed
  IN CASE ~setup.root \/ ~(check.base \/ "revision" \in setup.pins) \/ changed = {} -> "inconclusive"
       [] OTHER -> IF allowed = {} THEN "passed" ELSE InScope(changed, allowed)

Command(exit) == IF exit = "zero" THEN "passed" ELSE "failed"

\* The output is read back from the artifact, so without one there is no value.
BenchmarkThreshold(setup, check, exit, reading) ==
  LET beyond == \/ check.mode = "min" /\ reading[1] < check.threshold
                \/ check.mode = "max" /\ reading[1] > check.threshold
  IN CASE Command(exit) # "passed"           -> Command(exit)
       [] Command(exit) = "passed" /\ (~setup.artifacts \/ reading = <<>>) -> "inconclusive"
       [] OTHER                              -> IF beyond THEN "failed" ELSE "passed"

\* runCheck, for everything its check may see.
CheckOutcomes(setup, check) ==
  CASE check.kind = "workspace_snapshot" ->
         {WorkspaceSnapshot(setup, seen) : seen \in {"same", "other", "unreadable"}}
    [] check.kind = "allowed_paths" ->
         {AllowedPaths(setup, touched) : touched \in SUBSET Paths}
    [] check.kind = "git_diff_paths" ->
         {GitDiffPaths(setup, check, changed) : changed \in SUBSET Paths}
    [] check.kind = "command" ->
         {Command(exit) : exit \in {"zero", "nonzero", "not started", "killed"}}
    [] check.kind = "benchmark_threshold" ->
         {BenchmarkThreshold(setup, check, exit, reading) :
            exit \in {"zero", "nonzero", "not started", "killed"},
            reading \in {<<>>} \cup {<<v>> : v \in Readings}}
    [] check.kind = "unsupported" -> {"inconclusive"}

\* The verdict of a valid answer, which holds one finding, about the claim.
SemanticStatus(verdict) ==
  CASE verdict = "supported" -> "passed"
    [] verdict = "refuted"   -> "failed"
    [] OTHER                 -> "inconclusive"

\* validateSemanticFindings: the confidence, in percent, and whether the rationale
\* names a gap must fit the verdict.
ValidFinding(finding) ==
  /\ finding.confidence \in 1 .. 100
  /\ CASE finding.verdict \in {"supported", "refuted"} -> finding.confidence >= 60
       [] finding.verdict = "insufficient_evidence"    -> finding.confidence <= 60 /\ finding.gap
       [] finding.verdict = "undetermined" -> finding.confidence \in 35 .. 65 /\ finding.gap

SemanticFinding ==
  [verdict : {"supported", "refuted", "insufficient_evidence", "undetermined"},
   confidence : {0, 35, 60, 65, 100}, gap : BOOLEAN]

\* runSemanticVerification: whatever is not a valid answer is inconclusive.
SemanticOutcomes ==
  {IF ValidFinding(f) THEN SemanticStatus(f.verdict) ELSE "inconclusive" : f \in SemanticFinding}

\* Run: the sets of statuses a verification of one claim may come to.
FindingSets(setup) ==
  LET ofChecks == {{f[k] : k \in setup.checks} :
                     f \in {g \in [setup.checks -> VerificationStatus] :
                              \A k \in setup.checks : g[k] \in CheckOutcomes(setup, k)}}
  IN IF setup.semantic THEN {s \cup {o} : s \in ofChecks, o \in SemanticOutcomes} ELSE ofChecks
=============================================================================
