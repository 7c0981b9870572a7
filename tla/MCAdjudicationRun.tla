-------------------------- MODULE MCAdjudicationRun --------------------------
(* Finite instances of AdjudicationRun.                                    *)
EXTENDS AdjudicationRun

\* Two requests whose policies differ; the gates are the subject of
\* MCSessionLifecycle.
MCRequests ==
  [mode : {"adjudication"}, gate : {"none", "allows"}, sources : {0}, reopens : {TRUE}]

\* A policy that only ever collects more evidence.
IngestPolicy == [cause \in FallbackCauses |-> "ingest"]

\* NormalizeStartRequest's defaults.
DefaultPolicy ==
  [cause \in FallbackCauses |->
     IF cause \in {"insufficient_evidence", "unresolved_conflict"}
       THEN "ingest" ELSE "revise"]

Policies ==
  [r \in Requests |-> IF r.gate = "none" THEN IngestPolicy ELSE DefaultPolicy]

TwoVerifications == [r \in Requests |-> 2]
OneVerification == [r \in Requests |-> 1]
=============================================================================
