---------------------------- MODULE MCClaimGraph ----------------------------
(* Finite instances of ClaimGraph: a request with one claim that is looked at  *)
(* closely, one with two claims, and one with a claim an agent decides.        *)
EXTENDS ClaimGraph

\* Nothing of the closing sequence matters to the graph; without an observe source
\* reopens only tells requests apart, and so does a gate that blocks the action.
Close1 == [mode |-> "adjudication", gate |-> "none", sources |-> 0, reopens |-> FALSE]
Together == [Close1 EXCEPT !.reopens = TRUE]
ByAgent == [Close1 EXCEPT !.gate = "blocks"]

MCRequests == {Close1, Together, ByAgent}

MCClaimBound == [r \in Requests |-> IF r = Together THEN 2 ELSE 1]
MCVerifications == [r \in Requests |-> IF r = Close1 THEN 2 ELSE 1]
MCEvidence == [r \in Requests |-> r # Together]
MCAgent == [r \in Requests |-> r = ByAgent]

\* A directory, a file in it and another file; a value at and one above the limit.
MCPaths == {<<"a">>, <<"a", "b">>, <<"c">>}
MCReadings == {1, 2}

Check(kind) ==
  [kind |-> kind, paths |-> {}, base |-> FALSE, threshold |-> 1, mode |-> "max"]

NoChecks ==
  [root |-> TRUE, pins |-> {"hash", "revision"}, allowed |-> {<<"a">>}, checks |-> {},
   semantic |-> TRUE, artifacts |-> TRUE]

\* Two checks and the semantic verifier may find anything together; the agent's
\* request has the other checks.
MCSetup ==
  [r \in Requests |->
     CASE r = Close1 ->
            [NoChecks EXCEPT !.checks = {Check("workspace_snapshot"), Check("git_diff_paths")}]
       [] r = Together -> NoChecks
       [] r = ByAgent ->
            [NoChecks EXCEPT !.semantic = FALSE,
               !.checks = {Check("allowed_paths"), Check("command"),
                           Check("benchmark_threshold"), Check("unsupported")}]]

\* Two claims meet a crash, one claim a crash and a failure, an agent a failure.
FewFaults ==
  /\ request = Together => failures = 0
  /\ request = ByAgent => crashes = 0

\* Conflicts collect more evidence, everything else is revised.
MixedPolicy ==
  [r \in Requests |-> [cause \in FallbackCauses |->
     IF cause = "unresolved_conflict" THEN "ingest" ELSE "revise"]]
=============================================================================
