-------------------------- MODULE DesktopHost_proofs --------------------------
(* Proofs for the desktop host: for the runs its manager admits, stops and     *)
(* deletes (RunManager), and for the delegate of a run (HostDelegate).  The two *)
(* share no state; each has an invariant of its own.                           *)
EXTENDS RunManager, HostDelegate, FiniteSetTheorems, TLAPS

-----------------------------------------------------------------------------
(* Type correctness.                                                       *)

LEMMA InitTyped == Init => HostTypeOK
<1> SUFFICES ASSUME Init PROVE HostTypeOK
  OBVIOUS
<1>1. NewRun \in RunType
  BY DEF NewRun, RunType, Statuses, StopReasons, NoRun
<1>2. NoJob \in JobType
  BY DEF NoJob, JobType, JobSteps
<1>3. NewPrep \in PrepType
  BY DEF NewPrep, PrepType, NoRun
<1> QED BY <1>1, <1>2, <1>3 DEF Init, HostTypeOK

\* One field of a stored run is replaced.
LEMMA StatusTyped ==
  ASSUME NEW f \in [Runs -> RunType], NEW r \in Runs, NEW s \in Statuses
  PROVE  [f EXCEPT ![r].status = s] \in [Runs -> RunType]
<1>1. [f[r] EXCEPT !.status = s] \in RunType
  BY DEF RunType
<1> QED BY <1>1

LEMMA StopTyped ==
  ASSUME NEW f \in [Runs -> RunType], NEW r \in Runs, NEW s \in StopReasons
  PROVE  [f EXCEPT ![r].stop = s] \in [Runs -> RunType]
<1>1. [f[r] EXCEPT !.stop = s] \in RunType
  BY DEF RunType
<1> QED BY <1>1

LEMMA AttemptTyped ==
  ASSUME NEW f \in [Runs -> RunType], NEW r \in Runs
  PROVE  [f EXCEPT ![r].attempt = @ + 1] \in [Runs -> RunType]
<1>1. [f[r] EXCEPT !.attempt = @ + 1] \in RunType
  BY DEF RunType
<1> QED BY <1>1

LEMMA DeletedTyped ==
  ASSUME NEW f \in [Runs -> RunType], NEW r \in Runs, NEW d \in BOOLEAN
  PROVE  [f EXCEPT ![r].deleted = d] \in [Runs -> RunType]
<1>1. [f[r] EXCEPT !.deleted = d] \in RunType
  BY DEF RunType
<1> QED BY <1>1

\* One field of a goroutine is replaced.
LEMMA JobTyped ==
  ASSUME HostTypeOK, NEW r \in Runs, NEW s \in JobSteps, NEW c \in BOOLEAN
  PROVE  /\ [job EXCEPT ![r].step = s] \in [Runs -> JobType]
         /\ [job EXCEPT ![r].cancelled = c] \in [Runs -> JobType]
         /\ [job EXCEPT ![r] = NoJob] \in [Runs -> JobType]
         /\ [job EXCEPT ![r] = [step |-> s, cancelled |-> c]] \in [Runs -> JobType]
<1>1. job \in [Runs -> JobType]
  BY DEF HostTypeOK
<1>2. [job[r] EXCEPT !.step = s] \in JobType
  BY <1>1 DEF JobType
<1>3. [job[r] EXCEPT !.cancelled = c] \in JobType
  BY <1>1 DEF JobType
<1>4. NoJob \in JobType /\ [step |-> s, cancelled |-> c] \in JobType
  BY DEF NoJob, JobType, JobSteps
<1> QED BY <1>1, <1>2, <1>3, <1>4

\* The names of statuses, reasons and steps.
LEMMA Names ==
  /\ {"running", "completed", "failed", "stopped", "interrupted"} \subseteq Statuses
  /\ {"", "user", "shutdown", "changed"} \subseteq StopReasons
  /\ {"none", "propose", "proposing", "engine", "finalize", "decided"} \subseteq JobSteps
  /\ \A stop : EndStatus(stop) \in Statuses
BY DEF Statuses, StopReasons, JobSteps, EndStatus

LEMMA CallsTyped ==
  ASSUME HostTypeOK, NEW r \in Runs, NEW n \in Nat
  PROVE  reserved \cup {<<r, n>>} \subseteq Runs \X Nat
BY DEF HostTypeOK

LEMMA CountTyped ==
  ASSUME NEW calls, IsFiniteSet(calls), NEW r
  PROVE  RunCalls(calls, r) \in Nat
<1>1. IsFiniteSet({c \in calls : c[1] = r})
  BY FS_Subset
<1> QED BY <1>1, FS_CardinalityType DEF RunCalls

LEMMA ChainTyped ==
  ASSUME NEW calls, IsFiniteSet(calls), NEW roots, NEW root
  PROVE  ChainCalls(calls, roots, root) \in Nat
<1>1. IsFiniteSet({c \in calls : roots[c[1]].root = root})
  BY FS_Subset
<1> QED BY <1>1, FS_CardinalityType DEF ChainCalls

LEMMA CreateTyped ==
  ASSUME HostTypeOK, NEW r \in Runs, NEW root \in Runs \cup {NoRun},
         NEW calls \in SUBSET (Runs \X Nat), Create(r, root, calls),
         preps' \in [Preparations -> PrepType]
  PROVE  HostTypeOK'
<1>1. [NewRun EXCEPT !.status = "running", !.root = root, !.attempt = 1] \in RunType
  BY DEF NewRun, RunType, Statuses, StopReasons, NoRun
<1>2. runs' \in [Runs -> RunType]
  BY <1>1 DEF HostTypeOK, Create
<1>3. FirstStep[session[r]] \in JobSteps /\ (r \in expired) \in BOOLEAN
  BY DEF HostTypeOK, FirstStep, JobSteps
<1>4. job' \in [Runs -> JobType]
  BY <1>3, JobTyped DEF Create, Launch
<1> QED BY <1>2, <1>4 DEF HostTypeOK, Create

LEMMA UserTyped ==
  ASSUME HostTypeOK, NEW r \in Runs, User(r)
  PROVE  HostTypeOK'
<1>0. runs \in [Runs -> RunType]
  BY DEF HostTypeOK
<1>1. CASE Start(r)
  BY <1>1, CreateTyped DEF Start, HostTypeOK
<1>2. ASSUME NEW p \in Preparations, StartPrepared(r, p)
      PROVE  HostTypeOK'
  <2>1. FirstCall(r) \in SUBSET (Runs \X Nat)
    BY DEF FirstCall
  <2>2. [preps[p] EXCEPT !.usedBy = r] \in PrepType
    BY DEF HostTypeOK, PrepType
  <2>3. preps' \in [Preparations -> PrepType]
    BY <1>2, <2>2 DEF StartPrepared, HostTypeOK
  <2> QED BY <1>2, <2>1, <2>3, CreateTyped DEF StartPrepared
<1>3. ASSUME NEW q \in Runs, Branch(r, q)
      PROVE  HostTypeOK'
  <2>1. runs[q].root \in Runs \cup {NoRun}
    BY <1>0 DEF RunType
  <2>2. Create(r, runs[q].root, {}) /\ preps' \in [Preparations -> PrepType]
    BY <1>3 DEF Branch, HostTypeOK
  <2>3. {} \in SUBSET (Runs \X Nat)
    OBVIOUS
  <2> QED BY <2>1, <2>2, <2>3, CreateTyped
<1>4. CASE Resume(r)
  <2>1. FirstStep[session[r]] \in JobSteps /\ (r \in expired) \in BOOLEAN
    BY DEF HostTypeOK, FirstStep, JobSteps
  <2>2. job' \in [Runs -> JobType]
    BY <1>4, <2>1, JobTyped DEF Resume, Launch
  <2>3. [runs[r] EXCEPT !.status = "running", !.stop = "", !.attempt = @ + 1] \in RunType
    <3> DEFINE running == [runs[r] EXCEPT !.status = "running", !.stop = ""]
    <3>1. running \in RunType
      BY <1>0 DEF RunType, Statuses, StopReasons
    <3> HIDE DEF running
    <3>2. [running EXCEPT !.attempt = @ + 1] \in RunType
      BY <3>1 DEF RunType
    <3> QED BY <3>2 DEF running
  <2>4. runs' = [runs EXCEPT ![r] = [runs[r] EXCEPT !.status = "running", !.stop = "",
                                                    !.attempt = @ + 1]]
    BY <1>0, <1>4 DEF Resume
  <2>5. runs' \in [Runs -> RunType]
    BY <1>0, <2>3, <2>4
  <2>6. /\ UNCHANGED <<host, todo, expired, reserved, session, preps, analysis>>
        /\ interventions' = interventions + 1
    BY <1>4 DEF Resume, Intervene, prepVars
  <2> QED BY <2>2, <2>5, <2>6 DEF HostTypeOK
<1>5. CASE Stop(r)
  <2>1. runs' \in [Runs -> RunType] /\ job' \in [Runs -> JobType]
    BY <1>0, <1>5, StopTyped, JobTyped, Names DEF Stop
  <2> QED BY <1>5, <2>1 DEF Stop, Intervene, HostTypeOK, prepVars
<1>6. CASE Delete(r)
  <2>1. runs' \in [Runs -> RunType]
    BY <1>0, <1>6, DeletedTyped DEF Delete
  <2> QED BY <1>6, <2>1 DEF Delete, Intervene, HostTypeOK, prepVars
<1>7. CASE Restore(r)
  <2>1. runs' \in [Runs -> RunType]
    BY <1>0, <1>7, DeletedTyped DEF Restore
  <2> QED BY <1>7, <2>1 DEF Restore, Intervene, HostTypeOK, prepVars
<1> QED BY <1>1, <1>2, <1>3, <1>4, <1>5, <1>6, <1>7 DEF User

\* A failing goroutine.
LEMMA FailsTyped ==
  ASSUME HostTypeOK, NEW r \in Runs, Fails(r)
  PROVE  runs' \in [Runs -> RunType] /\ job' \in [Runs -> JobType]
BY StatusTyped, JobTyped, Names DEF Fails, HostTypeOK

LEMMA ExecutesTyped ==
  ASSUME HostTypeOK, IsFiniteSet(reserved), NEW r \in Runs, Executes(r)
  PROVE  HostTypeOK'
<1>0. runs \in [Runs -> RunType] /\ RunCalls(reserved, r) + 1 \in Nat
  BY CountTyped DEF HostTypeOK
<1>1. CASE Reserve(r)
  BY <1>0, <1>1, CallsTyped DEF Reserve, HostTypeOK, prepVars
<1>2. CASE CallProposer(r)
  <2>1. job' \in [Runs -> JobType]
    BY <1>2, JobTyped, Names DEF CallProposer, Moves
  <2> QED BY <1>0, <1>2, <2>1, CallsTyped DEF CallProposer, HostTypeOK, prepVars
<1>3. CASE StoreProposal(r)
  <2>1. job' \in [Runs -> JobType]
    BY <1>3, JobTyped, Names DEF StoreProposal, Moves
  <2> QED BY <1>3, <2>1 DEF StoreProposal, HostTypeOK, prepVars
<1>4. CASE FinishSession(r)
  BY <1>4 DEF FinishSession, HostTypeOK, prepVars
<1>5. CASE EngineReturns(r)
  <2>1. job' \in [Runs -> JobType]
    BY <1>5, JobTyped, Names DEF EngineReturns, Moves
  <2> QED BY <1>5, <2>1 DEF EngineReturns, HostTypeOK, prepVars
<1>6. CASE Decide(r)
  <2>1. CASE ConfigChanged(r)
    BY <1>6, <2>1, FailsTyped DEF Decide, HostTypeOK, prepVars
  <2>2. CASE ~ConfigChanged(r)
    <3>1. /\ runs' = [runs EXCEPT ![r].status = "completed"]
          /\ job' = [job EXCEPT ![r].step = "decided"]
      BY <1>6, <2>2 DEF Decide, Moves
    <3>2. runs' \in [Runs -> RunType]
      BY <1>0, <3>1, StatusTyped, Names
    <3>3. job' \in [Runs -> JobType]
      BY <3>1, JobTyped, Names
    <3> QED BY <1>6, <3>2, <3>3 DEF Decide, HostTypeOK, prepVars
  <2> QED BY <2>1, <2>2
<1>7. CASE EndJob(r)
  <2>1. runs' \in [Runs -> RunType] /\ job' \in [Runs -> JobType]
    BY <1>0, <1>7, StatusTyped, JobTyped, Names DEF EndJob
  <2> QED BY <1>7, <2>1 DEF EndJob, HostTypeOK, prepVars
<1>8. CASE ExecuteFails(r)
  BY <1>8, FailsTyped DEF ExecuteFails, HostTypeOK, prepVars
<1>9. CASE ChangeDetected(r)
  <2>1. runs' \in [Runs -> RunType] /\ job' \in [Runs -> JobType]
    BY <1>0, <1>9, StatusTyped, StopTyped, JobTyped, Names DEF ChangeDetected
  <2> QED BY <1>9, <2>1 DEF ChangeDetected, Intervene, HostTypeOK, prepVars
<1>10. CASE DeadlineStrikes(r)
  <2>1. Active(r) \in BOOLEAN
    BY DEF Active
  <2>2. job' = [job EXCEPT ![r].cancelled = Active(r)]
    BY <1>10 DEF DeadlineStrikes
  <2>3. \A c \in BOOLEAN : [job EXCEPT ![r].cancelled = c] \in [Runs -> JobType]
    BY JobTyped, Names
  <2>4. job' \in [Runs -> JobType]
    BY <2>1, <2>2, <2>3
  <2> QED BY <1>10, <2>4 DEF DeadlineStrikes, HostTypeOK, prepVars
<1> QED BY <1>1, <1>2, <1>3, <1>4, <1>5, <1>6, <1>7, <1>8, <1>9, <1>10 DEF Executes, JobEnds

LEMMA PreparesTyped ==
  ASSUME HostTypeOK, NEW p \in Preparations, Prepares(p)
  PROVE  HostTypeOK'
<1>0. \A status \in {"running", "completed", "failed", "cancelled"} :
        [preps[p] EXCEPT !.status = status] \in PrepType
  BY DEF HostTypeOK, PrepType
<1>1. CASE Analyze(p)
  BY <1>0, <1>1 DEF Analyze, HostTypeOK, runVars
<1>2. CASE AnalysisInterrupted(p)
  BY <1>2 DEF AnalysisInterrupted, Intervene, HostTypeOK, runVars
<1>3. CASE CancelPreparation(p)
  BY <1>0, <1>3 DEF CancelPreparation, Cancelled, Intervene, HostTypeOK, runVars
<1>4. CASE AnalysisEnds(p)
  BY <1>0, <1>4 DEF AnalysisEnds, HostTypeOK, runVars
<1> QED BY <1>1, <1>2, <1>3, <1>4 DEF Prepares

LEMMA ProcessTyped ==
  ASSUME HostTypeOK, Process
  PROVE  HostTypeOK'
<1>0. /\ \A r \in Runs : runs[r] \in RunType /\ job[r] \in JobType
      /\ \A r \in Runs : [runs[r] EXCEPT !.stop = "shutdown"] \in RunType
      /\ \A r \in Runs, c \in BOOLEAN : [job[r] EXCEPT !.cancelled = c] \in JobType
      /\ \A r \in Runs : Active(r) \in BOOLEAN
  <2>1. \A r \in Runs : runs[r] \in RunType /\ job[r] \in JobType
    BY DEF HostTypeOK
  <2>2. \A r \in Runs : [runs[r] EXCEPT !.stop = "shutdown"] \in RunType
    BY <2>1 DEF RunType, StopReasons
  <2>3. \A r \in Runs, c \in BOOLEAN : [job[r] EXCEPT !.cancelled = c] \in JobType
    BY <2>1 DEF JobType
  <2>4. \A r \in Runs : Active(r) \in BOOLEAN
    BY DEF Active
  <2> QED BY <2>1, <2>2, <2>3, <2>4
<1>1. CASE Close
  <2>1. runs' \in [Runs -> RunType] /\ job' \in [Runs -> JobType]
    BY <1>0, <1>1 DEF Close
  <2>2. analysis' \in [Preparations -> {"none", "running", "cancelled", "expired"}]
    BY <1>1 DEF Close, HostTypeOK, Cancelled
  <2> QED BY <1>1, <2>1, <2>2 DEF Close, Intervene, HostTypeOK
<1>2. CASE Exit
  BY <1>2 DEF Exit, HostTypeOK, runVars, prepVars
<1>3. CASE Crash
  <2>1. NoJob \in JobType
    BY DEF NoJob, JobType, JobSteps
  <2> QED BY <1>3, <2>1 DEF Crash, Intervene, HostTypeOK
<1>4. CASE Restart
  <2>1. \A p \in Preparations : preps[p] \in PrepType
                               /\ [preps[p] EXCEPT !.status = "interrupted"] \in PrepType
    BY DEF HostTypeOK, PrepType
  <2> QED BY <1>4, <2>1 DEF Restart, HostTypeOK, runVars
<1>5. CASE Serve
  BY <1>5 DEF Serve, HostTypeOK, runVars, prepVars
<1>6. ASSUME NEW r \in Runs, Reconcile(r)
      PROVE  HostTypeOK'
  <2>1. Reconciled(r) \in RunType
    <3>1. runs[r] \in RunType
      BY DEF HostTypeOK
    <3>2. /\ [runs[r] EXCEPT !.status = "completed"] \in RunType
          /\ [runs[r] EXCEPT !.status = "interrupted", !.stop = "shutdown"] \in RunType
      BY <3>1 DEF RunType, Statuses, StopReasons
    <3> QED BY <3>1, <3>2 DEF Reconciled
  <2> QED BY <1>6, <2>1 DEF Reconcile, HostTypeOK, prepVars
<1> QED BY <1>1, <1>2, <1>3, <1>4, <1>5, <1>6 DEF Process

LEMMA StutterTyped ==
  ASSUME HostTypeOK, UNCHANGED vars
  PROVE  HostTypeOK'
BY DEF HostTypeOK, vars, runVars, prepVars

-----------------------------------------------------------------------------
(* The budget: calls belong to runs that exist, and a step either reserves    *)
(* one call that fits, or creates a run with a call that fits, or leaves calls *)
(* and chains alone.                                                          *)

CallsOwned == IsFiniteSet(reserved) /\ \A c \in reserved : Exists(c[1])

BudgetInv == HostTypeOK /\ CallsOwned /\ BudgetNeverExceeded

ChainsKept ==
  /\ reserved' = reserved
  /\ \A r \in Runs : runs'[r].root = runs[r].root
  /\ \A r \in Runs : Exists(r) => Exists(r)'

CallReserved(r) ==
  /\ WithinBudget(r) /\ Exists(r)
  /\ reserved' = reserved \cup {<<r, RunCalls(reserved, r) + 1>>}
  /\ UNCHANGED runs

RunCreated(r, root, calls) ==
  /\ ~Exists(r)
  /\ runs' = [runs EXCEPT ![r] = [NewRun EXCEPT !.status = "running", !.root = root,
                                                !.attempt = 1]]
  /\ reserved' = reserved \cup calls
  /\ ChainCalls(reserved', runs', root) < ChainLimit

LEMMA KeptPreservesBudget ==
  ASSUME BudgetInv, ChainsKept
  PROVE  CallsOwned' /\ BudgetNeverExceeded'
<1>1. \A c \in reserved : c[1] \in Runs
  BY DEF BudgetInv, HostTypeOK
<1>2. CallsOwned'
  BY <1>1 DEF BudgetInv, CallsOwned, ChainsKept, Exists
<1>0. \A c \in reserved : runs'[c[1]].root = runs[c[1]].root
  BY <1>1 DEF ChainsKept
<1>3. \A root \in Runs : {c \in reserved' : runs'[c[1]].root = root}
                        = {c \in reserved : runs[c[1]].root = root}
  BY <1>0 DEF ChainsKept
<1>4. \A r \in Runs : RunCalls(reserved', r) = RunCalls(reserved, r)
  BY DEF ChainsKept
<1> QED BY <1>2, <1>3, <1>4 DEF BudgetInv, BudgetNeverExceeded

\* One more element adds at most one to a selection.
LEMMA OneMore ==
  ASSUME NEW S, IsFiniteSet(S), NEW e, NEW T, T \subseteq S \cup {e}
  PROVE  Cardinality(T) <= Cardinality(S) + 1
<1>1. IsFiniteSet(S \cup {e}) /\ Cardinality(S \cup {e}) <= Cardinality(S) + 1
  <2>1. Cardinality(S) \in Nat
    BY FS_CardinalityType
  <2>2. /\ IsFiniteSet(S \cup {e})
        /\ Cardinality(S \cup {e}) = IF e \in S THEN Cardinality(S) ELSE Cardinality(S) + 1
    BY FS_AddElement
  <2> QED BY <2>1, <2>2
<1>2. IsFiniteSet(T) /\ Cardinality(T) <= Cardinality(S \cup {e})
  BY <1>1, FS_Subset
<1> QED BY <1>1, <1>2, FS_CardinalityType

LEMMA ReservedPreservesBudget ==
  ASSUME BudgetInv, NEW r \in Runs, CallReserved(r)
  PROVE  CallsOwned' /\ BudgetNeverExceeded'
<1> DEFINE slot == <<r, RunCalls(reserved, r) + 1>>
           OfRun(q) == {c \in reserved : c[1] = q}
           OfChain(root) == {c \in reserved : runs[c[1]].root = root}
<1>1. IsFiniteSet(reserved) /\ reserved' = reserved \cup {slot} /\ slot[1] = r
  BY DEF BudgetInv, CallsOwned, CallReserved
<1>2. CallsOwned'
  BY <1>1, FS_AddElement DEF BudgetInv, CallsOwned, CallReserved, Exists
<1>3. \A q : IsFiniteSet(OfRun(q)) /\ IsFiniteSet(OfChain(q))
  BY <1>1, FS_Subset
<1>4. \A q \in Runs : RunCalls(reserved', q) <= RunLimit
  <2> TAKE q \in Runs
  <2>1. CASE q = r
    <3>1. {c \in reserved' : c[1] = r} \subseteq OfRun(r) \cup {slot}
      BY <1>1
    <3>2. RunCalls(reserved', r) <= RunCalls(reserved, r) + 1
      BY <1>3, <3>1, OneMore DEF RunCalls
    <3>3. RunCalls(reserved, r) + 1 <= RunLimit
      BY DEF CallReserved, WithinBudget
    <3>4. RunCalls(reserved, r) \in Nat /\ RunCalls(reserved', r) \in Nat /\ RunLimit \in Nat
      BY <1>1, <1>2, CountTyped, HostAssumption DEF CallsOwned
    <3> QED BY <2>1, <3>2, <3>3, <3>4
  <2>2. CASE q # r
    <3>1. {c \in reserved' : c[1] = q} = OfRun(q)
      BY <1>1, <2>2
    <3> QED BY <3>1 DEF BudgetInv, BudgetNeverExceeded, RunCalls
  <2> QED BY <2>1, <2>2
<1>5. \A root \in Runs : Cardinality({c \in reserved' : runs'[c[1]].root = root}) <= ChainLimit
  <2> TAKE root \in Runs
  <2>0. runs' = runs
    BY DEF CallReserved
  <2>1. CASE root = runs[r].root
    <3>1. {c \in reserved' : runs[c[1]].root = root} \subseteq OfChain(root) \cup {slot}
      BY <1>1
    <3>2. Cardinality({c \in reserved' : runs[c[1]].root = root}) <= Cardinality(OfChain(root)) + 1
      BY <1>3, <3>1, OneMore
    <3>3. Cardinality(OfChain(root)) + 1 <= ChainLimit
      BY <2>1 DEF CallReserved, WithinBudget, ChainCalls
    <3>4. Cardinality(OfChain(root)) \in Nat /\ ChainLimit \in Nat
          /\ Cardinality({c \in reserved' : runs[c[1]].root = root}) \in Nat
      BY <1>2, <1>3, FS_Subset, FS_CardinalityType, HostAssumption DEF CallsOwned
    <3> QED BY <2>0, <3>2, <3>3, <3>4
  <2>2. CASE root # runs[r].root
    <3>1. {c \in reserved' : runs[c[1]].root = root} = OfChain(root)
      BY <1>1, <2>2
    <3> QED BY <2>0, <3>1 DEF BudgetInv, BudgetNeverExceeded
  <2> QED BY <2>1, <2>2
<1> QED BY <1>2, <1>4, <1>5 DEF BudgetNeverExceeded

LEMMA CreationPreservesBudget ==
  ASSUME BudgetInv, NEW r \in Runs, NEW root \in Runs \cup {NoRun},
         NEW calls, calls \in {{}, FirstCall(r)}, RunCreated(r, root, calls)
  PROVE  CallsOwned' /\ BudgetNeverExceeded'
<1> DEFINE OfChain(q) == {c \in reserved : runs[c[1]].root = q}
<1>1. /\ runs \in [Runs -> RunType] /\ IsFiniteSet(reserved)
      /\ \A c \in reserved : c[1] \in Runs /\ c[1] # r
  BY DEF BudgetInv, HostTypeOK, CallsOwned, RunCreated
<1>2. IsFiniteSet(calls) /\ Cardinality(calls) <= 1 /\ \A c \in calls : c[1] = r
  <2>1. CASE calls = {}
    BY <2>1, FS_EmptySet
  <2>2. CASE calls = FirstCall(r)
    <3>1. IsFiniteSet({<<r, 1>>}) /\ Cardinality({<<r, 1>>}) = 1
      BY FS_Singleton
    <3> QED BY <2>2, <3>1 DEF FirstCall
  <2> QED BY <2>1, <2>2
<1>3. /\ reserved' = reserved \cup calls
      /\ runs'[r].root = root /\ runs'[r].status = "running"
      /\ \A q \in Runs \ {r} : runs'[q] = runs[q]
  BY <1>1 DEF RunCreated, NewRun
<1>4. CallsOwned'
  <2>1. IsFiniteSet(reserved')
    BY <1>1, <1>2, <1>3, FS_Union
  <2>2. \A c \in reserved' : Exists(c[1])'
    BY <1>1, <1>2, <1>3 DEF BudgetInv, CallsOwned, Exists
  <2> QED BY <2>1, <2>2 DEF CallsOwned
<1>5. \A q \in Runs : RunCalls(reserved', q) <= RunLimit
  <2> TAKE q \in Runs
  <2>1. CASE q = r
    <3>1. {c \in reserved' : c[1] = r} = calls
      BY <1>1, <1>2, <1>3
    <3>2. Cardinality(calls) \in Nat
      BY <1>2, FS_CardinalityType
    <3>3. Cardinality(calls) <= RunLimit
      BY <1>2, <3>2, HostAssumption
    <3> QED BY <2>1, <3>1, <3>3 DEF RunCalls
  <2>2. CASE q # r
    <3>1. {c \in reserved' : c[1] = q} = {c \in reserved : c[1] = q}
      BY <1>2, <1>3, <2>2
    <3> QED BY <3>1 DEF BudgetInv, BudgetNeverExceeded, RunCalls
  <2> QED BY <2>1, <2>2
<1>6. \A q \in Runs : Cardinality({c \in reserved' : runs'[c[1]].root = q}) <= ChainLimit
  <2> TAKE q \in Runs
  <2>1. CASE q = root
    <3>1. ChainCalls(reserved', runs', root) \in Nat /\ ChainLimit \in Nat
      BY <1>4, ChainTyped, HostAssumption DEF CallsOwned
    <3> QED BY <2>1, <3>1 DEF RunCreated, ChainCalls
  <2>2. CASE q # root
    <3>1. \A c \in reserved : runs'[c[1]] = runs[c[1]]
      BY <1>1, <1>3
    <3>2. {c \in reserved' : runs'[c[1]].root = q} = OfChain(q)
      BY <1>2, <1>3, <2>2, <3>1
    <3> QED BY <3>2 DEF BudgetInv, BudgetNeverExceeded
  <2> QED BY <2>1, <2>2
<1> QED BY <1>4, <1>5, <1>6 DEF BudgetNeverExceeded

\* Every step is of one of the three kinds.
LEMMA BudgetSteps ==
  ASSUME HostTypeOK, [Next]_vars
  PROVE  \/ ChainsKept
         \/ \E r \in Runs : CallReserved(r)
         \/ \E r \in Runs, root \in Runs \cup {NoRun} :
              \E calls \in {{}, FirstCall(r)} : RunCreated(r, root, calls)
<1>0. runs \in [Runs -> RunType]
  BY DEF HostTypeOK
<1>1. ASSUME NEW r \in Runs, User(r)
      PROVE  \/ ChainsKept
             \/ \E root \in Runs \cup {NoRun} :
                  \E calls \in {{}, FirstCall(r)} : RunCreated(r, root, calls)
  <2>1. CASE Start(r)
    <3>1. RunCreated(r, r, {})
      BY <2>1 DEF Start, Create, NextRun, RunCreated
    <3> QED BY <3>1
  <2>2. ASSUME NEW p \in Preparations, StartPrepared(r, p)
        PROVE  RunCreated(r, r, FirstCall(r))
    BY <2>2 DEF StartPrepared, Create, NextRun, RunCreated
  <2>3. ASSUME NEW q \in Runs, Branch(r, q)
        PROVE  RunCreated(r, runs[q].root, {}) /\ runs[q].root \in Runs \cup {NoRun}
    BY <1>0, <2>3 DEF Branch, Create, NextRun, RunCreated, RunType
  <2>4. CASE Resume(r)
    <3>0. runs' = [runs EXCEPT ![r] = [runs[r] EXCEPT !.status = "running", !.stop = "",
                                                      !.attempt = @ + 1]]
      BY <1>0, <2>4 DEF Resume
    <3>1. runs'[r].root = runs[r].root /\ runs'[r].status = "running"
      BY <1>0, <3>0 DEF RunType
    <3>2. \A q \in Runs \ {r} : runs'[q] = runs[q]
      BY <1>0, <2>4 DEF Resume
    <3>3. UNCHANGED reserved
      BY <2>4 DEF Resume
    <3> QED BY <3>1, <3>2, <3>3 DEF ChainsKept, Exists
  <2>5. CASE Stop(r)
    BY <1>0, <2>5 DEF Stop, ChainsKept, Exists
  <2>6. CASE Delete(r) \/ Restore(r)
    <3>0. PICK d \in BOOLEAN : runs' = [runs EXCEPT ![r] = [runs[r] EXCEPT !.deleted = d]]
      BY <2>6 DEF Delete, Restore
    <3>1. runs'[r].root = runs[r].root /\ runs'[r].status = runs[r].status
      BY <1>0, <3>0 DEF RunType
    <3>2. \A q \in Runs \ {r} : runs'[q] = runs[q]
      BY <1>0, <3>0
    <3>3. UNCHANGED reserved
      BY <2>6 DEF Delete, Restore
    <3> QED BY <3>1, <3>2, <3>3 DEF ChainsKept, Exists
  <2> QED BY <1>1, <2>1, <2>2, <2>3, <2>4, <2>5, <2>6 DEF User
<1>2. ASSUME NEW r \in Runs, Executes(r)
      PROVE  ChainsKept \/ CallReserved(r)
  <2>1. CASE Reserve(r)
    BY <2>1 DEF Reserve, CallReserved, Exists
  <2>2. CASE CallProposer(r)
    BY <2>2 DEF CallProposer, CallReserved, Exists
  <2>3. CASE StoreProposal(r) \/ FinishSession(r) \/ EngineReturns(r) \/ DeadlineStrikes(r)
    BY <2>3 DEF StoreProposal, FinishSession, EngineReturns, DeadlineStrikes, ChainsKept, Exists
  <2>4. ASSUME Fails(r), UNCHANGED reserved
        PROVE  ChainsKept
    BY <1>0, <2>4 DEF Fails, EndStatus, ChainsKept, Exists
  <2>5. CASE Decide(r)
    <3>1. CASE ConfigChanged(r)
      BY <2>4, <2>5, <3>1 DEF Decide
    <3>2. CASE ~ConfigChanged(r)
      <4>1. runs' = [runs EXCEPT ![r].status = "completed"] /\ UNCHANGED reserved
        BY <2>5, <3>2 DEF Decide
      <4> QED BY <1>0, <4>1 DEF ChainsKept, Exists
    <3> QED BY <3>1, <3>2
  <2>6. CASE EndJob(r)
    <3>1. EndStatus(runs[r].stop) # "none"
      BY DEF EndStatus
    <3>2. CASE runs' = runs
      BY <2>6, <3>2 DEF EndJob, ChainsKept, Exists
    <3>3. CASE runs' = [runs EXCEPT ![r].status = EndStatus(runs[r].stop)]
      <4>1. runs'[r].root = runs[r].root /\ runs'[r].status # "none"
        BY <1>0, <3>1, <3>3 DEF RunType
      <4>2. \A q \in Runs \ {r} : runs'[q] = runs[q]
        BY <1>0, <3>3
      <4>3. UNCHANGED reserved
        BY <2>6 DEF EndJob
      <4> QED BY <4>1, <4>2, <4>3 DEF ChainsKept, Exists
    <3> QED BY <2>6, <3>2, <3>3 DEF EndJob
  <2>7. CASE ExecuteFails(r)
    BY <2>4, <2>7 DEF ExecuteFails
  <2>8. CASE ChangeDetected(r)
    BY <1>0, <2>8 DEF ChangeDetected, ChainsKept, Exists
  <2> QED BY <1>2, <2>1, <2>2, <2>3, <2>5, <2>6, <2>7, <2>8 DEF Executes, JobEnds
<1>3. ASSUME NEW p \in Preparations, Prepares(p)
      PROVE  ChainsKept
  BY <1>3 DEF Prepares, Analyze, AnalysisInterrupted, CancelPreparation, AnalysisEnds, runVars,
       ChainsKept, Exists
<1>4. ASSUME Process
      PROVE  ChainsKept
  <2>1. CASE Close
    BY <1>0, <2>1 DEF Close, ChainsKept, Exists
  <2>2. CASE Exit \/ Crash \/ Restart \/ Serve
    BY <2>2 DEF Exit, Crash, Restart, Serve, runVars, ChainsKept, Exists
  <2>3. ASSUME NEW r \in Runs, Reconcile(r)
        PROVE  ChainsKept
    <3>1. Reconciled(r).root = runs[r].root /\ (Exists(r) => Reconciled(r).status # "none")
      BY <1>0 DEF Reconciled, Exists, RunType
    <3> QED BY <1>0, <2>3, <3>1 DEF Reconcile, ChainsKept, Exists
  <2> QED BY <1>4, <2>1, <2>2, <2>3 DEF Process
<1>5. CASE UNCHANGED vars
  BY <1>5 DEF vars, runVars, ChainsKept, Exists
<1> QED BY <1>1, <1>2, <1>3, <1>4, <1>5 DEF Next

LEMMA BudgetInitially == Init => BudgetInv
<1> SUFFICES ASSUME Init PROVE BudgetInv
  OBVIOUS
<1>1. HostTypeOK
  BY InitTyped
<1>2. reserved = {} /\ IsFiniteSet(reserved) /\ Cardinality({}) = 0
  BY FS_EmptySet DEF Init
<1>3. CallsOwned
  BY <1>2 DEF CallsOwned
<1>4. /\ \A r \in Runs : {c \in reserved : c[1] = r} = {}
      /\ \A root \in Runs : {c \in reserved : runs[c[1]].root = root} = {}
  BY <1>2
<1>5. BudgetNeverExceeded
  BY <1>2, <1>4, HostAssumption DEF BudgetNeverExceeded, RunCalls
<1> QED BY <1>1, <1>3, <1>5 DEF BudgetInv

LEMMA BudgetInductive == BudgetInv /\ [Next]_vars => BudgetInv'
<1> SUFFICES ASSUME BudgetInv, [Next]_vars PROVE BudgetInv'
  OBVIOUS
<1>1. HostTypeOK'
  BY UserTyped, ExecutesTyped, PreparesTyped, ProcessTyped, StutterTyped
    DEF BudgetInv, CallsOwned, Next
<1>2. CallsOwned' /\ BudgetNeverExceeded'
  BY BudgetSteps, KeptPreservesBudget, ReservedPreservesBudget, CreationPreservesBudget
    DEF BudgetInv
<1> QED BY <1>1, <1>2 DEF BudgetInv

\* Every state of the host is well typed.
THEOREM HostTypeCorrect == Spec => []HostTypeOK
<1>1. BudgetInv => HostTypeOK
  BY DEF BudgetInv
<1> QED BY BudgetInitially, BudgetInductive, <1>1, PTL DEF Spec

\* No run and no chain has more calls reserved than it may have, whatever
\* discussions share the chain and whatever happens to them (chain_budget.go:103).
THEOREM BudgetIsKept == Spec => []BudgetNeverExceeded
<1>1. BudgetInv => BudgetNeverExceeded
  BY DEF BudgetInv
<1> QED BY BudgetInitially, BudgetInductive, <1>1, PTL DEF Spec

-----------------------------------------------------------------------------
(* A changed configuration.                                                *)

\* A run whose configuration changed has failed.
FailureRecorded == \A r \in Runs : ConfigChanged(r) => runs[r].status = "failed"

FailureInv == BudgetInv /\ FailureRecorded

\* What a step may make of run q.
FailureKept(q) ==
  /\ runs'[q].stop = "changed" => runs'[q].status = "failed"
  /\ ConfigChanged(q) => \/ runs'[q].stop = "changed" /\ runs'[q].status = "failed"
                         \/ runs'[q].attempt # runs[q].attempt

\* A step that changes one run keeps the failures of the others.
LEMMA OthersKept ==
  ASSUME FailureInv, NEW r \in Runs, FailureKept(r),
         \A q \in Runs \ {r} : runs'[q] = runs[q]
  PROVE  \A q \in Runs : FailureKept(q)
BY DEF FailureInv, FailureRecorded, FailureKept, ConfigChanged

LEMMA AllKept ==
  ASSUME FailureInv, UNCHANGED runs
  PROVE  \A q \in Runs : FailureKept(q)
BY DEF FailureInv, FailureRecorded, FailureKept, ConfigChanged

LEMMA FailureSteps ==
  ASSUME FailureInv, [Next]_vars
  PROVE  \A q \in Runs : FailureKept(q)
<1>0. runs \in [Runs -> RunType] /\ FailureRecorded
  BY DEF FailureInv, BudgetInv, HostTypeOK
<1>1. ASSUME NEW r \in Runs, User(r)
      PROVE  \A q \in Runs : FailureKept(q)
  <2>1. ASSUME NEW root, NEW calls, Create(r, root, calls)
        PROVE  \A q \in Runs : FailureKept(q)
    <3>1. /\ runs'[r].stop = "" /\ runs[r].status = "none"
          /\ \A q \in Runs \ {r} : runs'[q] = runs[q]
      BY <1>0, <2>1 DEF Create, NextRun, Exists, NewRun
    <3>2. FailureKept(r)
      BY <1>0, <3>1 DEF FailureKept, FailureRecorded
    <3> QED BY <3>1, <3>2, OthersKept
  <2>2. CASE Resume(r)
    <3>1. runs' = [runs EXCEPT ![r] = [runs[r] EXCEPT !.status = "running", !.stop = "",
                                                      !.attempt = @ + 1]]
      BY <1>0, <2>2 DEF Resume
    <3>2. runs'[r].stop = "" /\ runs'[r].attempt = runs[r].attempt + 1
      BY <1>0, <3>1 DEF RunType
    <3>3. runs[r].attempt \in Nat
      BY <1>0 DEF RunType
    <3>4. FailureKept(r)
      <4>1. runs'[r].attempt # runs[r].attempt
        <5>1. \A n \in Nat : n + 1 # n
          OBVIOUS
        <5> QED BY <3>2, <3>3, <5>1
      <4>2. runs'[r].stop # "changed"
        BY <3>2
      <4> QED BY <4>1, <4>2 DEF FailureKept
    <3> QED BY <1>0, <3>1, <3>4, OthersKept
  <2>3. CASE Stop(r)
    <3>1. runs' = [runs EXCEPT ![r].stop = "user"] /\ ~ConfigChanged(r)
      BY <2>3 DEF Stop
    <3>2. runs'[r].stop = "user"
      BY <1>0, <3>1 DEF RunType
    <3>3. FailureKept(r)
      BY <3>1, <3>2 DEF FailureKept
    <3> QED BY <1>0, <3>1, <3>3, OthersKept
  <2>4. CASE Delete(r) \/ Restore(r)
    <3>1. PICK d \in BOOLEAN : runs' = [runs EXCEPT ![r] = [runs[r] EXCEPT !.deleted = d]]
      BY <2>4 DEF Delete, Restore
    <3>2. runs'[r].stop = runs[r].stop /\ runs'[r].status = runs[r].status
      BY <1>0, <3>1 DEF RunType
    <3>3. FailureKept(r)
      BY <1>0, <3>2 DEF FailureKept, FailureRecorded, ConfigChanged
    <3> QED BY <1>0, <3>1, <3>3, OthersKept
  <2> QED BY <1>1, <2>1, <2>2, <2>3, <2>4 DEF User, Start, StartPrepared, Branch
<1>2. ASSUME NEW r \in Runs, Executes(r)
      PROVE  \A q \in Runs : FailureKept(q)
  <2>1. ASSUME NEW status, runs' = [runs EXCEPT ![r].status = status],
               ConfigChanged(r) => status = "failed"
        PROVE  \A q \in Runs : FailureKept(q)
    <3>1. runs'[r].stop = runs[r].stop /\ runs'[r].status = status
      BY <1>0, <2>1 DEF RunType
    <3>2. FailureKept(r)
      BY <2>1, <3>1 DEF FailureKept, ConfigChanged
    <3> QED BY <1>0, <2>1, <3>2, OthersKept
  <2>2. EndStatus("changed") = "failed"
    BY DEF EndStatus
  <2>3. CASE Fails(r)
    BY <2>1, <2>2, <2>3 DEF Fails, ConfigChanged
  <2>4. CASE Decide(r) /\ ~ConfigChanged(r)
    BY <2>1, <2>4 DEF Decide
  <2>5. CASE EndJob(r)
    BY <2>1, <2>2, <2>5, AllKept DEF EndJob, ConfigChanged
  <2>6. CASE ChangeDetected(r)
    <3>1. runs' = [runs EXCEPT ![r] = [runs[r] EXCEPT !.stop = "changed", !.status = "failed"]]
      BY <1>0, <2>6 DEF ChangeDetected
    <3>2. runs'[r].status = "failed" /\ ~ConfigChanged(r)
      BY <1>0, <2>6, <3>1 DEF RunType, ChangeDetected
    <3>3. FailureKept(r)
      BY <3>2 DEF FailureKept
    <3> QED BY <1>0, <3>1, <3>3, OthersKept
  <2>7. CASE Reserve(r) \/ CallProposer(r) \/ StoreProposal(r) \/ FinishSession(r)
              \/ EngineReturns(r) \/ DeadlineStrikes(r)
    BY <2>7, AllKept DEF Reserve, CallProposer, StoreProposal, FinishSession, EngineReturns,
         DeadlineStrikes
  <2> QED BY <1>2, <2>3, <2>4, <2>5, <2>6, <2>7 DEF Executes, JobEnds, ExecuteFails, Decide
<1>3. ASSUME NEW p \in Preparations, Prepares(p)
      PROVE  UNCHANGED runs
  BY <1>3 DEF Prepares, Analyze, AnalysisInterrupted, CancelPreparation, AnalysisEnds, runVars
<1>4. ASSUME Process
      PROVE  \A q \in Runs : FailureKept(q)
  <2>1. CASE Close
    <3> TAKE q \in Runs
    <3>1. CASE ConfigChanged(q)
      <4>1. runs'[q] = runs[q]
        BY <2>1, <3>1 DEF Close
      <4> QED BY <1>0, <3>1, <4>1 DEF FailureKept, FailureRecorded, ConfigChanged
    <3>2. CASE ~ConfigChanged(q)
      <4>1. runs'[q] = runs[q] \/ runs'[q] = [runs[q] EXCEPT !.stop = "shutdown"]
        BY <2>1 DEF Close
      <4>2. runs'[q].stop # "changed"
        BY <1>0, <3>2, <4>1 DEF RunType, ConfigChanged
      <4> QED BY <3>2, <4>2 DEF FailureKept
    <3> QED BY <3>1, <3>2
  <2>2. CASE Exit \/ Crash \/ Restart \/ Serve
    BY <2>2, AllKept DEF Exit, Crash, Restart, Serve, runVars
  <2>3. ASSUME NEW r \in Runs, Reconcile(r)
        PROVE  \A q \in Runs : FailureKept(q)
    <3>1. runs' = [runs EXCEPT ![r] = Reconciled(r)]
      BY <2>3 DEF Reconcile
    <3>2. ConfigChanged(r) => Reconciled(r) = runs[r]
      BY DEF Reconciled
    <3>3. Reconciled(r).stop = "changed" => ConfigChanged(r)
      BY <1>0 DEF Reconciled, RunType, ConfigChanged
    <3>4. FailureKept(r)
      BY <1>0, <3>1, <3>2, <3>3 DEF FailureKept, FailureRecorded, ConfigChanged
    <3> QED BY <1>0, <3>1, <3>4, OthersKept
  <2> QED BY <1>4, <2>1, <2>2, <2>3 DEF Process
<1>5. CASE UNCHANGED vars
  BY <1>5, AllKept DEF vars, runVars
<1> QED BY <1>1, <1>2, <1>3, <1>4, <1>5, AllKept DEF Next

\* A failure of the configuration stands until the user resumes the run, over
\* stops, shutdowns, decisions and restarts (implementation.md:85).
THEOREM FailureStands == Spec => ConfigFailureStands
<1>1. Init => FailureInv
  <2> SUFFICES ASSUME Init PROVE FailureRecorded
    BY BudgetInitially DEF FailureInv
  <2> QED BY DEF Init, NewRun, FailureRecorded, ConfigChanged
<1>2. FailureInv /\ [Next]_vars => FailureInv'
  <2> SUFFICES ASSUME FailureInv, [Next]_vars PROVE FailureRecorded'
    BY BudgetInductive DEF FailureInv
  <2> QED BY FailureSteps DEF FailureRecorded, FailureKept, ConfigChanged
<1>3. FailureInv /\ [Next]_vars =>
        [\A r \in Runs :
           ConfigChanged(r) => \/ runs'[r].stop = "changed" /\ runs'[r].status = "failed"
                               \/ runs'[r].attempt # runs[r].attempt]_vars
  BY FailureSteps DEF FailureKept
<1> QED BY <1>1, <1>2, <1>3, PTL DEF Spec, ConfigFailureStands

-----------------------------------------------------------------------------
(* Completed runs.                                                         *)

Over(q) == runs[q].status = "completed" /\ ~Active(q)

\* What a step may make of a run that is over.
OverKept(q) ==
  Over(q) =>
    /\ runs'[q].status = "completed" /\ runs'[q].attempt = runs[q].attempt
    /\ RunCalls(reserved', q) = RunCalls(reserved, q)

\* A step of a run that is not over keeps all that are.
LEMMA OversKept ==
  ASSUME NEW r \in Runs, ~Over(r), \A q \in Runs \ {r} : runs'[q] = runs[q],
         \A c : c[1] # r => (c \in reserved' <=> c \in reserved)
  PROVE  \A q \in Runs : OverKept(q)
<1> TAKE q \in Runs
<1>1. CASE q = r
  BY <1>1 DEF OverKept
<1>2. CASE q # r
  <2>1. {c \in reserved' : c[1] = q} = {c \in reserved : c[1] = q}
    BY <1>2
  <2>2. runs'[q] = runs[q]
    BY <1>2
  <2> QED BY <2>1, <2>2 DEF OverKept, Over, RunCalls
<1> QED BY <1>1, <1>2

LEMMA OversUntouched ==
  ASSUME UNCHANGED <<runs, reserved>>
  PROVE  \A q \in Runs : OverKept(q)
BY DEF OverKept, Over, RunCalls

LEMMA OverSteps ==
  ASSUME HostTypeOK, [Next]_vars
  PROVE  \A q \in Runs : OverKept(q)
<1>0. runs \in [Runs -> RunType]
  BY DEF HostTypeOK
<1>1. ASSUME NEW r \in Runs, User(r)
      PROVE  \A q \in Runs : OverKept(q)
  <2>1. ASSUME NEW root, NEW calls, \A c \in calls : c[1] = r, Create(r, root, calls)
        PROVE  \A q \in Runs : OverKept(q)
    <3>1. /\ ~Over(r) /\ \A c : c[1] # r => (c \in reserved' <=> c \in reserved)
          /\ \A q \in Runs \ {r} : runs'[q] = runs[q]
      BY <1>0, <2>1 DEF Create, NextRun, Exists, Over
    <3> QED BY <2>1, <3>1, OversKept
  <2>2. ASSUME ~Over(r), UNCHANGED reserved, NEW run, runs' = [runs EXCEPT ![r] = run]
        PROVE  \A q \in Runs : OverKept(q)
    <3>1. \A q \in Runs \ {r} : runs'[q] = runs[q]
      BY <1>0, <2>2
    <3> QED BY <2>2, <3>1, OversKept
  <2>3. CASE Resume(r)
    BY <2>2, <2>3 DEF Resume, Over
  <2>4. CASE Stop(r)
    BY <2>2, <2>4 DEF Stop, Over
  <2>5. CASE Delete(r) \/ Restore(r)
    <3>1. PICK d \in BOOLEAN : /\ runs' = [runs EXCEPT ![r] = [runs[r] EXCEPT !.deleted = d]]
                               /\ UNCHANGED reserved
      BY <2>5 DEF Delete, Restore
    <3>2. runs'[r].status = runs[r].status /\ runs'[r].attempt = runs[r].attempt
      BY <1>0, <3>1 DEF RunType
    <3>3. OverKept(r)
      BY <3>1, <3>2 DEF OverKept, Over, RunCalls
    <3>4. \A q \in Runs \ {r} : OverKept(q)
      BY <1>0, <3>1 DEF OverKept, Over, RunCalls
    <3> QED BY <3>3, <3>4
  <2>6. \A c \in FirstCall(r) : c[1] = r
    BY DEF FirstCall
  <2> QED BY <1>1, <2>1, <2>3, <2>4, <2>5, <2>6 DEF User, Start, StartPrepared, Branch
<1>2. ASSUME NEW r \in Runs, Executes(r)
      PROVE  \A q \in Runs : OverKept(q)
  <2>1. CASE Active(r)
    <3>1. \A q \in Runs \ {r} : runs'[q] = runs[q]
      BY <1>0, <1>2 DEF Executes, JobEnds, Reserve, CallProposer, StoreProposal, FinishSession,
           EngineReturns, Decide, EndJob, ExecuteFails, ChangeDetected, DeadlineStrikes, Fails
    <3>2. \A c : c[1] # r => (c \in reserved' <=> c \in reserved)
      <4>1. CASE Reserve(r) \/ CallProposer(r)
        <5>1. reserved' = reserved \cup {<<r, RunCalls(reserved, r) + 1>>}
          BY <4>1 DEF Reserve, CallProposer
        <5>2. \A n : <<r, n>>[1] = r
          OBVIOUS
        <5> QED BY <5>1, <5>2
      <4>2. CASE UNCHANGED reserved
        BY <4>2
      <4> QED BY <1>2, <4>1, <4>2 DEF Executes, JobEnds, StoreProposal, FinishSession,
                 EngineReturns, Decide, EndJob, ExecuteFails, ChangeDetected, DeadlineStrikes
    <3> QED BY <2>1, <3>1, <3>2, OversKept DEF Over
  <2>2. CASE ~Active(r)
    <3>1. UNCHANGED <<runs, reserved>>
      BY <1>2, <2>2 DEF Executes, JobEnds, Active, Reserve, CallProposer, StoreProposal,
           FinishSession, EngineReturns, Decide, EndJob, ExecuteFails, ChangeDetected,
           DeadlineStrikes, Moves
    <3> QED BY <3>1, OversUntouched
  <2> QED BY <2>1, <2>2
<1>3. ASSUME NEW p \in Preparations, Prepares(p)
      PROVE  UNCHANGED <<runs, reserved>>
  BY <1>3 DEF Prepares, Analyze, AnalysisInterrupted, CancelPreparation, AnalysisEnds, runVars
<1>4. ASSUME Process
      PROVE  \A q \in Runs : OverKept(q)
  <2>1. CASE Close
    <3> TAKE q \in Runs
    <3>1. Over(q) => runs'[q] = runs[q]
      BY <2>1 DEF Close, Over
    <3> QED BY <2>1, <3>1 DEF Close, OverKept, Over, RunCalls
  <2>2. CASE Exit \/ Crash \/ Restart \/ Serve
    BY <2>2, OversUntouched DEF Exit, Crash, Restart, Serve, runVars
  <2>3. ASSUME NEW r \in Runs, Reconcile(r)
        PROVE  \A q \in Runs : OverKept(q)
    <3>1. runs' = [runs EXCEPT ![r] = Reconciled(r)] /\ UNCHANGED reserved
      BY <2>3 DEF Reconcile
    <3>2. runs[r].status = "completed" =>
            Reconciled(r).status = "completed" /\ Reconciled(r).attempt = runs[r].attempt
      BY <1>0 DEF Reconciled, RunType
    <3>3. OverKept(r)
      BY <1>0, <3>1, <3>2 DEF OverKept, Over, RunCalls
    <3>4. \A q \in Runs \ {r} : OverKept(q)
      BY <1>0, <3>1 DEF OverKept, Over, RunCalls
    <3> QED BY <3>3, <3>4
  <2> QED BY <1>4, <2>1, <2>2, <2>3 DEF Process
<1>5. CASE UNCHANGED vars
  BY <1>5, OversUntouched DEF vars, runVars
<1> QED BY <1>1, <1>2, <1>3, <1>4, <1>5, OversUntouched DEF Next

\* A run that was completed and whose goroutine has ended is never executed again
\* and uses no further call.
THEOREM CompletionStands == Spec => CompletedStands
<1>1. BudgetInv /\ [Next]_vars =>
        [\A r \in Runs :
           runs[r].status = "completed" /\ ~Active(r) =>
             /\ runs'[r].status = "completed" /\ runs'[r].attempt = runs[r].attempt
             /\ RunCalls(reserved', r) = RunCalls(reserved, r)]_vars
  BY OverSteps DEF BudgetInv, OverKept, Over
<1> QED BY BudgetInitially, BudgetInductive, <1>1, PTL DEF Spec, CompletedStands

-----------------------------------------------------------------------------
(* Preparations.                                                           *)

\* Only a process that is up or closing analyses, and what is analysed is not
\* settled but by a cancellation; what is adopted is completed.
AnalysesLocated ==
  /\ host \in {"down", "starting"} => \A p \in Preparations : analysis[p] = "none"
  /\ \A p \in Preparations :
       /\ analysis[p] = "running" => preps[p].status = "running"
       /\ analysis[p] # "none" => preps[p].status \in {"running", "cancelled"}
       /\ preps[p].usedBy # NoRun => preps[p].status = "completed"

PrepInv == BudgetInv /\ AnalysesLocated

PrepKept(p) ==
  /\ preps[p].usedBy # NoRun => preps'[p] = preps[p]
  /\ preps[p].status = "cancelled" => preps'[p].status \in {"cancelled", "failed"}
  /\ preps[p].status \notin {"none", "running"} /\ analysis[p] = "none" =>
       preps'[p].status = preps[p].status

LEMMA PrepSteps ==
  ASSUME PrepInv, [Next]_vars
  PROVE  AnalysesLocated' /\ \A p \in Preparations : PrepKept(p)
<1>0. /\ preps \in [Preparations -> PrepType] /\ AnalysesLocated
      /\ analysis \in [Preparations -> {"none", "running", "cancelled", "expired"}]
  BY DEF PrepInv, BudgetInv, HostTypeOK
<1>1. ASSUME UNCHANGED <<preps, analysis>>, host' \in {host, "up", "closing"}
      PROVE  AnalysesLocated' /\ \A p \in Preparations : PrepKept(p)
  BY <1>0, <1>1 DEF AnalysesLocated, PrepKept
<1>2. ASSUME NEW r \in Runs, User(r)
      PROVE  AnalysesLocated' /\ \A p \in Preparations : PrepKept(p)
  <2>1. ASSUME NEW p \in Preparations, StartPrepared(r, p)
        PROVE  AnalysesLocated' /\ \A q \in Preparations : PrepKept(q)
    <3>1. /\ preps[p].status = "completed" /\ preps[p].usedBy = NoRun
          /\ preps' = [preps EXCEPT ![p].usedBy = r] /\ UNCHANGED <<host, analysis>>
      BY <2>1 DEF StartPrepared, Adoptable, Create
    <3>2. preps'[p].status = "completed" /\ \A q \in Preparations \ {p} : preps'[q] = preps[q]
      BY <1>0, <3>1 DEF PrepType
    <3> QED BY <1>0, <3>1, <3>2 DEF AnalysesLocated, PrepKept
  <2>2. CASE Start(r) \/ \E q \in Runs : Branch(r, q)
    BY <1>1, <2>2 DEF Start, Branch, Create
  <2>3. CASE Resume(r) \/ Stop(r) \/ Delete(r) \/ Restore(r)
    BY <1>1, <2>3 DEF Resume, Stop, Delete, Restore, prepVars
  <2> QED BY <1>2, <2>1, <2>2, <2>3 DEF User
<1>3. ASSUME NEW r \in Runs, Executes(r)
      PROVE  AnalysesLocated' /\ \A p \in Preparations : PrepKept(p)
  BY <1>1, <1>3 DEF Executes, JobEnds, Reserve, CallProposer, StoreProposal, FinishSession,
       EngineReturns, Decide, EndJob, ExecuteFails, ChangeDetected, DeadlineStrikes, prepVars
<1>4. ASSUME NEW p \in Preparations, Prepares(p)
      PROVE  AnalysesLocated' /\ \A q \in Preparations : PrepKept(q)
  <2>1. ASSUME NEW status, NEW context, host \in {"up", "closing"} \/ analysis[p] # "none",
               UNCHANGED host, preps' = [preps EXCEPT ![p].status = status],
               analysis' = [analysis EXCEPT ![p] = context],
               preps[p].usedBy = NoRun,
               context = "running" => status = "running",
               context # "none" => status \in {"running", "cancelled"},
               preps[p].status = "cancelled" => status \in {"cancelled", "failed"},
               preps[p].status \in {"none", "running"} \/ analysis[p] # "none"
        PROVE  AnalysesLocated' /\ \A q \in Preparations : PrepKept(q)
    <3>1. /\ preps'[p].status = status /\ preps'[p].usedBy = NoRun /\ analysis'[p] = context
          /\ \A q \in Preparations \ {p} : preps'[q] = preps[q] /\ analysis'[q] = analysis[q]
      BY <1>0, <2>1 DEF PrepType
    <3>2. \A q \in Preparations : PrepKept(q)
      BY <1>0, <2>1, <3>1 DEF PrepKept
    <3>3. AnalysesLocated'
      BY <1>0, <2>1, <3>1 DEF AnalysesLocated
    <3> QED BY <3>2, <3>3
  <2>2. preps[p].usedBy # NoRun => preps[p].status = "completed" /\ analysis[p] = "none"
    BY <1>0 DEF AnalysesLocated
  <2>3. CASE Analyze(p)
    BY <2>1, <2>2, <2>3 DEF Analyze
  <2>4. CASE AnalysisInterrupted(p)
    <3>1. PICK why \in {"cancelled", "expired"} : analysis' = [analysis EXCEPT ![p] = why]
      BY <2>4 DEF AnalysisInterrupted
    <3>2. analysis[p] = "running" /\ UNCHANGED <<host, preps>>
      BY <2>4 DEF AnalysisInterrupted
    <3>3. \A q \in Preparations : PrepKept(q)
      BY <1>0, <3>2 DEF PrepKept
    <3>4. AnalysesLocated'
      BY <1>0, <3>1, <3>2 DEF AnalysesLocated
    <3> QED BY <3>3, <3>4
  <2>5. CASE CancelPreparation(p)
    BY <1>0, <2>1, <2>2, <2>5 DEF CancelPreparation, Cancelled
  <2>6. CASE AnalysisEnds(p)
    BY <1>0, <2>1, <2>2, <2>6 DEF AnalysisEnds, AnalysesLocated
  <2> QED BY <1>4, <2>3, <2>4, <2>5, <2>6 DEF Prepares
<1>5. ASSUME Process
      PROVE  AnalysesLocated' /\ \A p \in Preparations : PrepKept(p)
  <2>1. CASE Close
    <3>1. UNCHANGED preps /\ host' = "closing"
      BY <2>1 DEF Close
    <3>2. \A p \in Preparations : analysis'[p] = Cancelled(analysis[p])
      BY <2>1 DEF Close
    <3> QED BY <1>0, <3>1, <3>2 DEF AnalysesLocated, PrepKept, Cancelled
  <2>2. CASE Exit
    BY <1>0, <2>2 DEF Exit, prepVars, AnalysesLocated, PrepKept
  <2>3. CASE Crash
    BY <1>0, <2>3 DEF Crash, AnalysesLocated, PrepKept
  <2>4. CASE Restart
    <3>1. \A p \in Preparations : analysis[p] = "none" /\ analysis'[p] = "none"
      BY <1>0, <2>4 DEF Restart, AnalysesLocated
    <3>2. \A p \in Preparations :
            IF preps[p].status = "running"
              THEN preps'[p].status = "interrupted" /\ preps'[p].usedBy = preps[p].usedBy
              ELSE preps'[p] = preps[p]
      BY <1>0, <2>4 DEF Restart, PrepType
    <3> QED BY <1>0, <3>1, <3>2 DEF AnalysesLocated, PrepKept
  <2>5. CASE Serve
    BY <1>1, <2>5 DEF Serve, prepVars
  <2>6. CASE \E r \in Runs : Reconcile(r)
    BY <1>1, <2>6 DEF Reconcile, prepVars
  <2> QED BY <1>5, <2>1, <2>2, <2>3, <2>4, <2>5, <2>6 DEF Process
<1>6. CASE UNCHANGED vars
  BY <1>1, <1>6 DEF vars, prepVars
<1> QED BY <1>2, <1>3, <1>4, <1>5, <1>6 DEF Next

\* A preparation is adopted by one run and stays settled, whatever answers come late
\* and however often the process starts.
THEOREM SettledPreparationsStand == Spec => PreparationsStand
<1>1. Init => PrepInv
  <2> SUFFICES ASSUME Init PROVE AnalysesLocated
    BY BudgetInitially DEF PrepInv
  <2> QED BY DEF Init, NewPrep, AnalysesLocated
<1>2. PrepInv /\ [Next]_vars => PrepInv'
  BY BudgetInductive, PrepSteps DEF PrepInv
<1>3. PrepInv /\ [Next]_vars =>
        [\A p \in Preparations :
           /\ preps[p].usedBy # NoRun => preps'[p] = preps[p]
           /\ preps[p].status = "cancelled" => preps'[p].status \in {"cancelled", "failed"}
           /\ preps[p].status \notin {"none", "running"} /\ analysis[p] = "none" =>
                preps'[p].status = preps[p].status]_vars
  BY PrepSteps DEF PrepKept
<1> QED BY <1>1, <1>2, <1>3, PTL DEF Spec, PreparationsStand

-----------------------------------------------------------------------------
(* The delegate (HostDelegate).  Nothing happens after Close because then the  *)
(* goroutine of every invocation has ended and no task is accepted any more;   *)
(* a result is supported only with votes that are on record, because a vote    *)
(* is the answer of the attempt the engine is at, and a goroutine that has     *)
(* ended well has stored on its way all there is to store.                     *)


\* Where an invocation is and what it has stored, and what of it the engine knows.
DelegateTypeOK ==
  /\ call \in [Calls -> CallType]
  /\ ended \subseteq Calls
  /\ inv \in [Calls -> [step : Steps, artifact : {"none", "input", "completed", "failed"}]]
  /\ fatal \in BOOLEAN /\ stopped \in BOOLEAN /\ blocking \in BOOLEAN
  /\ closing \in {"no", "waits", "closed"}
  /\ vote \in [Reviewers -> {"due", "waiting", "accept", "reject", "absent"}]
  /\ attempt \in [Reviewers -> Nat]
  /\ \A v \in Reviewers : attempt[v] \in 1 .. MaxAttempts[v]
  /\ messages \subseteq Calls /\ ballots \subseteq Calls
  /\ decision \in {"none", "supported", "not_supported"}
  /\ faults \in Nat

\* What has been stored on the way to each step.
Stored(i) ==
  /\ inv[i].step \in {"message", "ballot", "complete", "ok"} => inv[i].artifact = "completed"
  /\ inv[i].step \in {"ballot", "complete", "ok"} => i \in messages
  /\ inv[i].step \in {"complete", "ok"} => i \in ballots

\* Attempts come one after the other, and a vote is the answer of the current one.
Asked(v) ==
  /\ \A n \in attempt[v] + 1 .. MaxAttempts[v] : inv[<<v, n>>].step = "none"
  /\ vote[v] = "due" => inv[Current(v)].step = "none"
  /\ vote[v] \in {"accept", "reject"} => inv[Current(v)].step = "ok"

\* A process lives only while its call is under way.
Confined(i) == call[i].process = "alive" => inv[i].step = "call" /\ ~call[i].returned

DelegateInv ==
  /\ DelegateTypeOK
  /\ \A i \in Calls : Stored(i) /\ Confined(i)
  /\ \A v \in Reviewers : Asked(v)
  /\ decision = "supported" => \A v \in Reviewers : vote[v] \in {"accept", "reject"}
  /\ closing # "no" => fatal
  /\ closing = "closed" => \A i \in Dispatched : InvocationOver(i)

LEMMA AttemptsAreCalls ==
  \A v \in Reviewers : \A n \in 1 .. MaxAttempts[v] : <<v, n>> \in Calls
BY DelegateAssumption

LEMMA DelegateStarts == DelegateInit => DelegateInv
<1> SUFFICES ASSUME DelegateInit PROVE DelegateInv
  OBVIOUS
<1>1. \A v \in Reviewers : 1 \in 1 .. MaxAttempts[v] /\ MaxAttempts[v] \in Nat
  BY DelegateAssumption
<1>2. NoCall \in CallType /\ NoCall.process = "none"
  BY DEF NoCall, CallType, Frames
<1>3. DelegateTypeOK
  BY <1>1, <1>2 DEF DelegateInit, DelegateTypeOK, Steps
<1>4. \A v \in Reviewers : Asked(v)
  BY <1>1, AttemptsAreCalls DEF DelegateInit, Asked, Current
<1>5. \A i \in Calls : Stored(i) /\ Confined(i)
  BY <1>2 DEF DelegateInit, Stored, Confined
<1> QED BY <1>3, <1>4, <1>5 DEF DelegateInv, DelegateInit

\* A step of the goroutine of one invocation that moves it forward.  What is known
\* of the others and of the votes stays, for no vote waits on an invocation that
\* is not over.
LEMMA InvocationKeeps ==
  ASSUME DelegateInv, NEW i \in Calls, NEW step \in Steps, NEW artifact,
         inv[i].step \notin {"none", "failed", "ok"}, step # "none",
         artifact \in {"none", "input", "completed", "failed"},
         inv' = [inv EXCEPT ![i] = [step |-> step, artifact |-> artifact]],
         inv[i].step = "call" => call[i].process # "alive",
         UNCHANGED <<call, closing, voteVars>>,
         ended' \subseteq Calls, fatal' \in BOOLEAN, fatal => fatal', blocking' \in BOOLEAN,
         messages' \subseteq Calls, messages \subseteq messages',
         ballots' \subseteq Calls, ballots \subseteq ballots', faults' \in Nat,
         step \in {"message", "ballot", "complete", "ok"} => artifact = "completed",
         step \in {"ballot", "complete", "ok"} => i \in messages',
         step \in {"complete", "ok"} => i \in ballots'
  PROVE  DelegateInv'
<1>1. DelegateTypeOK'
  BY DEF DelegateInv, DelegateTypeOK, voteVars
<1>2. ASSUME NEW j \in Calls PROVE (Stored(j) /\ Confined(j))'
  BY <1>2 DEF DelegateInv, DelegateTypeOK, Stored, Confined
<1>3. ASSUME NEW v \in Reviewers PROVE Asked(v)'
  <2>1. attempt[v] \in 1 .. MaxAttempts[v] /\ MaxAttempts[v] \in Nat
    BY DelegateAssumption DEF DelegateInv, DelegateTypeOK
  <2>2. \A n \in 1 .. MaxAttempts[v] : <<v, n>> # i => inv'[<<v, n>>] = inv[<<v, n>>]
    BY AttemptsAreCalls DEF DelegateInv, DelegateTypeOK
  <2>3. \A n \in attempt[v] + 1 .. MaxAttempts[v] : inv[<<v, n>>].step = "none"
    BY DEF DelegateInv, Asked
  <2>4. \A n \in attempt[v] + 1 .. MaxAttempts[v] : inv'[<<v, n>>].step = "none"
    BY <2>1, <2>2, <2>3
  <2>5. Current(v) # i \/ vote[v] \notin {"due", "accept", "reject"}
    BY DEF DelegateInv, Asked
  <2>6. Current(v)' = Current(v) /\ vote' = vote /\ attempt' = attempt
    BY DEF Current, voteVars
  <2>7. Current(v) # i => inv'[Current(v)] = inv[Current(v)]
    BY <2>1, <2>2 DEF Current
  <2> QED BY <2>4, <2>5, <2>6, <2>7 DEF DelegateInv, Asked
<1>4. closing = "closed" => InvocationOver(i)
  BY DEF DelegateInv, Dispatched
<1>5. closing # "closed"
  BY <1>4 DEF InvocationOver
<1> QED BY <1>1, <1>2, <1>3, <1>5 DEF DelegateInv, voteVars, DelegateTypeOK

\* A call that handles a frame, and one that returns, is a call of the type.
LEMMA HandlingTypes ==
  ASSUME NEW r \in CallType, NEW handled \in 0 .. Frames, NEW outcome \in {"none", "ok", "error"}
  PROVE  LET c == [r EXCEPT !.handled = handled, !.outcome = outcome]
         IN  c \in CallType /\ c.process = r.process /\ c.returned = r.returned
BY DEF CallType

LEMMA WritingTypes ==
  ASSUME NEW r \in CallType, NEW writes \in BOOLEAN
  PROVE  LET c == [r EXCEPT !.writes = writes]
         IN  c \in CallType /\ c.process = r.process /\ c.returned = r.returned
BY DEF CallType

LEMMA ReturnTypes ==
  ASSUME NEW r \in CallType
  PROVE  LET c == [r EXCEPT !.sent = 0, !.handled = 0, !.returned = TRUE]
         IN  c \in CallType /\ c.process = r.process
<1>1. [r EXCEPT !.sent = 0] \in CallType /\ [r EXCEPT !.sent = 0].process = r.process
  BY DEF CallType, Frames
<1>2. \A q \in CallType : [q EXCEPT !.handled = 0] \in CallType
                          /\ [q EXCEPT !.handled = 0].process = q.process
  BY DEF CallType, Frames
<1>3. \A q \in CallType : [q EXCEPT !.returned = TRUE] \in CallType
                          /\ [q EXCEPT !.returned = TRUE].process = q.process
  BY DEF CallType
<1> QED BY <1>1, <1>2, <1>3

\* A step of one call at its place in the invocation.
LEMMA CallingKeeps ==
  ASSUME DelegateInv, NEW i \in Calls, Calling(i)
  PROVE  DelegateInv'
<1>1. /\ call[i] \in CallType /\ inv[i].step = "call"
      /\ UNCHANGED <<inv, fatal, closing, stopped, vote, attempt, decision, messages,
                     ballots, blocking, faults>>
  BY DEF DelegateInv, DelegateTypeOK, Calling, At, hostVars, delegateVars, voteVars, storedVars
<1>3. call \in [Calls -> CallType]
  BY DEF DelegateInv, DelegateTypeOK
<1>2. /\ call' = [call EXCEPT ![i] = call'[i]] /\ call'[i] \in CallType
      /\ ended' = ended
      /\ (call'[i].process = "alive" => ~call'[i].returned)
  <2>1. CallStep(i)
    BY DEF Calling
  <2>2. call[i].process = "alive" => ~call[i].returned
    BY DEF DelegateInv, Confined
  <2>12. ASSUME NEW c \in CallType, Sets(i, c), c.process = "alive" => ~c.returned
         PROVE  /\ call' = [call EXCEPT ![i] = call'[i]] /\ call'[i] \in CallType
                /\ ended' = ended
                /\ (call'[i].process = "alive" => ~call'[i].returned)
    <3>1. call'[i] = c
      BY <1>3, <2>12 DEF Sets
    <3> QED BY <2>12, <3>1 DEF Sets
  <2> USE <1>1, <1>3, <2>2 DEF CallType, Sets, Frames
  <2>3. CASE Spawn(i)
    BY <2>3 DEF Spawn
  <2>4. CASE SpawnFails(i)
    BY <2>4 DEF SpawnFails
  <2>5. CASE ProcessExits(i)
    <3>1. PICK held \in BOOLEAN : Sets(i, [call[i] EXCEPT !.process = "gone", !.held = held])
      BY <2>5 DEF ProcessExits
    <3> DEFINE c == [call[i] EXCEPT !.process = "gone", !.held = held]
    <3>2. c \in CallType /\ c.process = "gone"
      OBVIOUS
    <3> HIDE DEF c, Sets, CallType
    <3> QED BY <2>12, <3>1, <3>2 DEF c
  <2>6. CASE ServerSends(i)
    BY <2>6 DEF ServerSends, Alive, Running
  <2>7. CASE ClientHandles(i)
    <3> DEFINE handled == call[i].handled + 1
               outcome == IF call[i].handled + 1 = Frames THEN "ok" ELSE "none"
    <3>1. PICK writes \in BOOLEAN :
            Sets(i, [call[i] EXCEPT !.handled = @ + 1, !.outcome = outcome, !.writes = writes])
      BY <2>7 DEF ClientHandles
    <3> DEFINE b == [call[i] EXCEPT !.handled = handled, !.outcome = outcome]
               c == [b EXCEPT !.writes = writes]
    <3>2. handled \in 0 .. Frames /\ outcome \in {"none", "ok", "error"}
      BY <2>7 DEF ClientHandles
    <3> HIDE DEF handled, outcome, CallType
    <3>5. b \in CallType /\ b.process = call[i].process /\ b.returned = call[i].returned
      BY <3>2, HandlingTypes
    <3>4. Sets(i, c)
      BY <3>1 DEF handled
    <3> HIDE DEF b
    <3>3. c \in CallType /\ c.process = call[i].process /\ c.returned = call[i].returned
      BY <3>5, WritingTypes
    <3> HIDE DEF c, Sets
    <3> QED BY <2>12, <3>3, <3>4
  <2>8. CASE ClientFails(i)
    <3>1. PICK writes \in BOOLEAN :
            Sets(i, [call[i] EXCEPT !.outcome = "error", !.writes = writes])
      BY <2>8 DEF ClientFails
    <3> DEFINE c == [call[i] EXCEPT !.outcome = "error", !.writes = writes]
    <3>2. c \in CallType /\ c.process = call[i].process /\ c.returned = call[i].returned
      OBVIOUS
    <3> HIDE DEF c, Sets, CallType
    <3> QED BY <2>12, <3>1, <3>2 DEF c
  <2>13. CASE WriteEnds(i)
    <3>1. PICK outcome \in {"none", "ok", "error"} :
            Sets(i, [call[i] EXCEPT !.writes = FALSE, !.outcome = outcome])
      <4>1. call[i].outcome \in {"none", "ok", "error"}
        OBVIOUS
      <4> HIDE DEF Sets, CallType
      <4> QED BY <2>13, <4>1 DEF WriteEnds
    <3> DEFINE c == [call[i] EXCEPT !.writes = FALSE, !.outcome = outcome]
    <3>2. c \in CallType /\ c.process = call[i].process /\ c.returned = call[i].returned
      OBVIOUS
    <3> HIDE DEF c, Sets, CallType
    <3> QED BY <2>12, <3>1, <3>2 DEF c
  <2>14. CASE ClientDeclines(i) \/ HelperEnds(i)
    <3>1. CASE ClientDeclines(i)
      <4> DEFINE c == [call[i] EXCEPT !.writes = TRUE]
      <4>1. c \in CallType /\ c.process = call[i].process /\ c.returned = call[i].returned
        OBVIOUS
      <4>2. Sets(i, c)
        BY <3>1 DEF ClientDeclines
      <4> HIDE DEF c, Sets, CallType
      <4> QED BY <2>12, <4>1, <4>2
    <3>2. CASE HelperEnds(i)
      <4> DEFINE c == [call[i] EXCEPT !.held = FALSE]
      <4>1. c \in CallType /\ c.process = call[i].process /\ c.returned = call[i].returned
        OBVIOUS
      <4>2. Sets(i, c)
        BY <3>2 DEF HelperEnds
      <4> HIDE DEF c, Sets, CallType
      <4> QED BY <2>12, <4>1, <4>2
    <3> QED BY <2>14, <3>1, <3>2
  <2>9. CASE CodexReturns(i)
    <3> DEFINE c == [call[i] EXCEPT !.sent = 0, !.handled = 0, !.returned = TRUE]
    <3>1. c \in CallType /\ c.process = "gone"
      BY <2>9, ReturnTypes DEF CodexReturns
    <3>2. Sets(i, c)
      BY <2>9 DEF CodexReturns
    <3> HIDE DEF c, Sets, CallType
    <3> QED BY <2>12, <3>1, <3>2
  <2>10. CASE ProgressFails(i)
    BY <2>10 DEF ProgressFails, Alive
  <2>11. CASE RunReturns(i)
    <3>1. PICK outcome \in {"ok", "error"} :
             Sets(i, [call[i] EXCEPT !.outcome = outcome, !.returned = TRUE])
      BY <2>11 DEF RunReturns
    <3> DEFINE c == [call[i] EXCEPT !.outcome = outcome, !.returned = TRUE]
    <3>2. c \in CallType /\ c.process = "gone"
      BY <2>11 DEF RunReturns
    <3> HIDE DEF c, Sets, CallType
    <3> QED BY <2>12, <3>1, <3>2 DEF c
  <2> QED
    BY <2>1, <2>3, <2>4, <2>5, <2>6, <2>7, <2>8, <2>9, <2>10, <2>11, <2>13,
       <2>14 DEF CallStep
<1>6. DelegateTypeOK'
  BY <1>1, <1>2, <1>3 DEF DelegateInv, DelegateTypeOK
<1>4. ASSUME NEW j \in Calls PROVE (Stored(j) /\ Confined(j))'
  <2>1. call'[j] = IF j = i THEN call'[i] ELSE call[j]
    BY <1>2, <1>3
  <2>2. Stored(j) /\ Confined(j)
    BY DEF DelegateInv
  <2> QED BY <1>1, <1>2, <2>1, <2>2 DEF Stored, Confined
<1>5. \A v \in Reviewers : Asked(v)'
  BY <1>1 DEF DelegateInv, Asked, Current
<1> QED BY <1>1, <1>6, <1>4, <1>5 DEF DelegateInv, Dispatched, InvocationOver

\* Contexts end, the delegate refuses further tasks, the run is stopped: nothing
\* an invocation has stored and no vote changes.
LEMMA StoppingKeeps ==
  ASSUME DelegateInv, UNCHANGED <<call, inv, vote, attempt, decision, storedVars>>,
         ended' \subseteq Calls, fatal' \in BOOLEAN, fatal => fatal', stopped' \in BOOLEAN,
         faults' \in Nat, closing' \in {"no", "waits", "closed"},
         closing' # "no" => fatal',
         closing' = "closed" => \A i \in Dispatched : InvocationOver(i)
  PROVE  DelegateInv'
<1>1. DelegateTypeOK'
  BY DEF DelegateInv, DelegateTypeOK, storedVars
<1>2. \A i \in Calls : (Stored(i) /\ Confined(i))'
  BY DEF DelegateInv, Stored, Confined, storedVars
<1>3. \A v \in Reviewers : Asked(v)'
  BY DEF DelegateInv, Asked, Current
<1> QED BY <1>1, <1>2, <1>3 DEF DelegateInv, Dispatched, InvocationOver

LEMMA WorksKeeps ==
  ASSUME DelegateInv, NEW i \in Calls, Works(i)
  PROVE  DelegateInv'
<1> USE DEF voteVars, storedVars, At, InvocationMoves
<1>1. /\ inv[i].step \in Steps /\ inv[i].artifact \in {"none", "input", "completed", "failed"}
      /\ inv[i] = [step |-> inv[i].step, artifact |-> inv[i].artifact]
      /\ ended \subseteq Calls /\ Dispatched \subseteq Calls /\ ended \cup Dispatched \subseteq Calls
      /\ faults \in Nat /\ fatal \in BOOLEAN /\ blocking \in BOOLEAN
      /\ messages \subseteq Calls /\ ballots \subseteq Calls
  BY DEF DelegateInv, DelegateTypeOK, Dispatched
<1>2. \A step : [inv EXCEPT ![i].step = step]
                = [inv EXCEPT ![i] = [step |-> step, artifact |-> inv[i].artifact]]
  <2>1. inv[i] = [step |-> inv[i].step, artifact |-> inv[i].artifact]
    BY <1>1
  <2>2. \A step : [inv[i] EXCEPT !.step = step] = [step |-> step, artifact |-> inv[i].artifact]
    BY <2>1
  <2> QED BY <2>2
<1>3. inv[i].step # "call" => call[i].process # "alive"
  BY DEF DelegateInv, Confined
<1>4. Stored(i)
  BY DEF DelegateInv
<1>5. ASSUME NEW from, from \notin {"none", "failed", "ok", "call"}, FailsForAll(i, from)
      PROVE  DelegateInv'
  <2>1. inv' = [inv EXCEPT ![i] = [step |-> "failing", artifact |-> inv[i].artifact]]
    BY <1>2, <1>5 DEF FailsForAll
  <2>2. /\ inv[i].step = from /\ fatal' = TRUE /\ ended' \subseteq Calls /\ faults' \in Nat
        /\ UNCHANGED <<call, closing, voteVars, storedVars>>
    BY <1>1, <1>5 DEF FailsForAll, Fault
  <2> QED BY <1>1, <1>3, <1>5, <2>1, <2>2, InvocationKeeps DEF Steps
<1>6. CASE WriteInput(i)
  <2>1. CASE ~FailsForAll(i, "input")
    BY <1>1, <1>3, <1>6, <2>1, InvocationKeeps DEF WriteInput, Steps
  <2> QED BY <1>5, <2>1
<1>7. CASE Probe(i)
  BY <1>1, <1>2, <1>3, <1>7, InvocationKeeps DEF Probe, InvocationFails, Fault, Steps
<1>8. CASE Announce(i)
  <2>1. ASSUME NEW step \in {"call", "failing"}, InvocationMoves(i, "announce", step),
               ended' \subseteq Calls, fatal' \in BOOLEAN, fatal => fatal',
               UNCHANGED <<call, closing, voteVars, storedVars, faults>>
        PROVE  DelegateInv'
    <3>1. inv' = [inv EXCEPT ![i] = [step |-> step, artifact |-> inv[i].artifact]]
      BY <1>2, <2>1
    <3>2. inv[i].step = "announce"
      BY <2>1
    <3>3. step \in Steps /\ step # "none" /\ step \notin {"message", "ballot", "complete", "ok"}
      BY <2>1 DEF Steps
    <3>4. inv[i].step \notin {"none", "failed", "ok"} /\ inv[i].step # "call"
      BY <3>2
    <3> HIDE DEF At, InvocationMoves
    <3> QED BY <1>1, <2>1, <3>1, <3>3, <3>4, InvocationKeeps
  <2>2. CASE ~FailsForAll(i, "announce")
    BY <1>1, <1>8, <2>1, <2>2 DEF Announce
  <2> QED BY <1>5, <1>8, <2>2 DEF Announce
<1>9. CASE Calling(i)
  BY <1>9, CallingKeeps
<1>10. CASE ProgressLost(i)
  BY <1>1, <1>10, StoppingKeeps DEF ProgressLost, Fault, DelegateInv, DelegateTypeOK
<1>11. CASE Returned(i)
  <2>1. inv[i].step = "call" /\ call[i].returned
    BY <1>11 DEF Returned
  <2>2. call[i].process # "alive"
    BY <2>1 DEF DelegateInv, Confined
  <2>3. PICK step \in {"output", "failing"} :
          /\ inv' = [inv EXCEPT ![i].step = step]
          /\ UNCHANGED <<call, ended, fatal, closing, voteVars, storedVars, faults>>
    BY <1>11 DEF Returned, InvocationFails
  <2>4. inv' = [inv EXCEPT ![i] = [step |-> step, artifact |-> inv[i].artifact]]
    BY <1>2, <2>3
  <2>5. step \in Steps /\ step \notin {"none", "message", "ballot", "complete", "ok"}
    BY <2>3 DEF Steps
  <2> QED BY <1>1, <2>1, <2>2, <2>3, <2>4, <2>5, InvocationKeeps
<1>12. CASE WriteOutput(i)
  BY <1>1, <1>2, <1>3, <1>12, InvocationKeeps DEF WriteOutput, InvocationFails, Fault, Steps
<1>13. CASE Publish(i)
  <2>1. CASE ~FailsForAll(i, "message")
    <3>1. PICK step \in {"ballot", "failing"} :
            /\ InvocationMoves(i, "message", step)
            /\ messages' \in {messages, messages \cup {i}} /\ blocking' \in {blocking, TRUE}
            /\ step = "ballot" => i \in messages'
            /\ ended' \in {ended, ended \cup Dispatched} /\ (fatal' = fatal \/ fatal' = TRUE)
            /\ faults' \in {faults, faults + 1}
            /\ UNCHANGED <<call, closing, voteVars, ballots>>
      <4> HIDE DEF InvocationMoves
      <4> QED BY <1>13, <2>1 DEF Publish, MessageStored, Fault
    <3>2. inv' = [inv EXCEPT ![i] = [step |-> step, artifact |-> inv[i].artifact]]
      BY <1>2, <3>1
    <3>4. inv[i].step = "message" /\ inv[i].artifact = "completed"
      BY <1>4, <3>1 DEF Stored
    <3>5. step \in Steps /\ step # "none" /\ step \notin {"message", "complete", "ok"}
      BY <3>1 DEF Steps
    <3>6. messages' \subseteq Calls /\ messages \subseteq messages' /\ blocking' \in BOOLEAN
      BY <1>1, <3>1
    <3>7. ended' \subseteq Calls /\ faults' \in Nat
      BY <1>1, <3>1
    <3>8. fatal' \in BOOLEAN /\ (fatal => fatal')
      <4>1. CASE fatal' = fatal
        BY <1>1, <4>1
      <4>2. CASE fatal' = TRUE
        BY <4>2
      <4> QED BY <3>1, <4>1, <4>2
    <3> HIDE DEF At, InvocationMoves
    <3> QED BY <1>1, <3>1, <3>2, <3>4, <3>5, <3>6, <3>7, <3>8, InvocationKeeps
  <2> QED BY <1>5, <2>1
<1>14. CASE CastBallot(i)
  <2>1. CASE ~FailsForAll(i, "ballot")
    BY <1>1, <1>2, <1>3, <1>4, <1>14, <2>1, InvocationKeeps DEF CastBallot, Steps, Stored
  <2> QED BY <1>5, <2>1
<1>15. CASE Complete(i)
  <2>1. CASE ~FailsForAll(i, "complete")
    BY <1>1, <1>2, <1>3, <1>4, <1>15, <2>1, InvocationKeeps DEF Complete, Steps, Stored
  <2> QED BY <1>5, <2>1
<1>16. CASE Finish(i)
  <2>1. PICK artifact \in {"failed", inv[i].artifact} :
          /\ inv[i].step = "failing"
          /\ inv' = [inv EXCEPT ![i] = [step |-> "failed", artifact |-> artifact]]
          /\ UNCHANGED <<call, ended, fatal, closing, voteVars, storedVars, faults>>
    BY <1>16 DEF Finish
  <2>2. artifact \in {"none", "input", "completed", "failed"} /\ "failed" \in Steps
    BY <1>1 DEF Steps
  <2> QED BY <1>1, <2>1, <2>2, InvocationKeeps
<1>17. CASE TaskDeadline(i)
  BY <1>1, <1>17, StoppingKeeps DEF TaskDeadline, delegateVars, Fault, DelegateInv, DelegateTypeOK
<1> QED
  BY <1>6, <1>7, <1>8, <1>9, <1>10, <1>11, <1>12, <1>13, <1>14, <1>15, <1>16, <1>17
  DEF Works

\* Another attempt, or none: the engine turns from an attempt that did not give a
\* vote to one that has not been dispatched.
LEMMA GivingUpKeeps ==
  ASSUME DelegateInv, NEW v \in Reviewers, vote[v] \notin {"accept", "reject"}, GivenUp(v)
  PROVE  /\ vote' \in [Reviewers -> {"due", "waiting", "accept", "reject", "absent"}]
         /\ attempt' \in [Reviewers -> Nat]
         /\ \A w \in Reviewers :
              /\ attempt'[w] \in 1 .. MaxAttempts[w]
              /\ \A n \in attempt'[w] + 1 .. MaxAttempts[w] : inv[<<w, n>>].step = "none"
              /\ vote'[w] = "due" => inv[<<w, attempt'[w]>>].step = "none"
              /\ vote'[w] \in {"accept", "reject"} => inv[<<w, attempt'[w]>>].step = "ok"
              /\ vote[w] \in {"accept", "reject"} => vote'[w] = vote[w]
<1>1. /\ vote \in [Reviewers -> {"due", "waiting", "accept", "reject", "absent"}]
      /\ attempt \in [Reviewers -> Nat]
      /\ \A w \in Reviewers : attempt[w] \in 1 .. MaxAttempts[w] /\ MaxAttempts[w] \in Nat
  BY DelegateAssumption DEF DelegateInv, DelegateTypeOK
<1>2. \A w \in Reviewers :
        /\ \A n \in attempt[w] + 1 .. MaxAttempts[w] : inv[<<w, n>>].step = "none"
        /\ vote[w] = "due" => inv[<<w, attempt[w]>>].step = "none"
        /\ vote[w] \in {"accept", "reject"} => inv[<<w, attempt[w]>>].step = "ok"
  BY DEF DelegateInv, Asked, Current
<1>3. CASE /\ attempt[v] < MaxAttempts[v]
           /\ vote' = [vote EXCEPT ![v] = "due"]
           /\ attempt' = [attempt EXCEPT ![v] = @ + 1]
  <2>1. attempt[v] + 1 \in attempt[v] + 1 .. MaxAttempts[v]
        /\ attempt[v] + 1 \in 1 .. MaxAttempts[v]
    BY <1>1, <1>3
  <2>2. inv[<<v, attempt[v] + 1>>].step = "none"
    BY <1>2, <2>1
  <2>3. \A n \in attempt[v] + 1 + 1 .. MaxAttempts[v] : n \in attempt[v] + 1 .. MaxAttempts[v]
    BY <1>1
  <2> QED BY <1>1, <1>2, <1>3, <2>1, <2>2, <2>3
<1>4. CASE vote' = [vote EXCEPT ![v] = "absent"] /\ UNCHANGED attempt
  BY <1>1, <1>2, <1>4
<1> QED BY <1>3, <1>4 DEF GivenUp

\* The engine's own steps leave what is stored alone, so only its view of the
\* votes is to be looked at.
LEMMA VotingKeeps ==
  ASSUME DelegateInv, UNCHANGED <<call, inv, fatal, closing, stopped, decision, storedVars>>,
         ended' \subseteq Calls, faults' \in Nat,
         vote' \in [Reviewers -> {"due", "waiting", "accept", "reject", "absent"}],
         attempt' \in [Reviewers -> Nat],
         \A w \in Reviewers :
           /\ attempt'[w] \in 1 .. MaxAttempts[w]
           /\ \A n \in attempt'[w] + 1 .. MaxAttempts[w] : inv[<<w, n>>].step = "none"
           /\ vote'[w] = "due" => inv[<<w, attempt'[w]>>].step = "none"
           /\ vote'[w] \in {"accept", "reject"} => inv[<<w, attempt'[w]>>].step = "ok"
           /\ vote[w] \in {"accept", "reject"} => vote'[w] = vote[w]
  PROVE  DelegateInv'
<1>1. DelegateTypeOK'
  BY DEF DelegateInv, DelegateTypeOK, storedVars
<1>2. \A i \in Calls : (Stored(i) /\ Confined(i))'
  BY DEF DelegateInv, Stored, Confined, storedVars
<1>3. \A v \in Reviewers : Asked(v)'
  BY DEF Asked, Current
<1> QED BY <1>1, <1>2, <1>3 DEF DelegateInv, Dispatched, InvocationOver

LEMMA DispatchKeeps ==
  ASSUME DelegateInv, NEW v \in Reviewers, Dispatch(v)
  PROVE  DelegateInv'
<1>1. CASE fatal
  BY <1>1, GivingUpKeeps, VotingKeeps
  DEF Dispatch, storedVars, DelegateInv, DelegateTypeOK
<1>2. CASE ~fatal
  <2>1. /\ Current(v) \in Calls /\ inv[Current(v)].step = "none"
        /\ attempt[v] \in 1 .. MaxAttempts[v]
    BY <1>2, AttemptsAreCalls DEF Dispatch, DelegateInv, DelegateTypeOK, Asked, Current
  <2>2. /\ inv' = [inv EXCEPT ![Current(v)].step = "input"]
        /\ vote' = [vote EXCEPT ![v] = "waiting"]
        /\ UNCHANGED <<call, ended, fatal, closing, stopped, attempt, decision, messages,
                       ballots, blocking, faults>>
        /\ vote[v] = "due"
    BY <1>2 DEF Dispatch, storedVars
  <2>3. DelegateTypeOK'
    BY <2>1, <2>2 DEF DelegateInv, DelegateTypeOK, Steps
  <2>4. ASSUME NEW i \in Calls PROVE (Stored(i) /\ Confined(i))'
    BY <2>1, <2>2 DEF DelegateInv, DelegateTypeOK, Stored, Confined
  <2>5. ASSUME NEW w \in Reviewers PROVE Asked(w)'
    <3>1. attempt[w] \in 1 .. MaxAttempts[w] /\ MaxAttempts[w] \in Nat /\ attempt[v] \in Nat
      BY DelegateAssumption DEF DelegateInv, DelegateTypeOK
    <3>2. \A n \in 1 .. MaxAttempts[w] : <<w, n>> # Current(v) => inv'[<<w, n>>] = inv[<<w, n>>]
      BY <2>1, <2>2, AttemptsAreCalls DEF DelegateInv, DelegateTypeOK
    <3>3. \A n \in attempt[w] + 1 .. MaxAttempts[w] :
             n \in 1 .. MaxAttempts[w] /\ <<w, n>> # Current(v)
      BY <3>1 DEF Current
    <3>4. \A n \in attempt[w] + 1 .. MaxAttempts[w] : inv'[<<w, n>>].step = "none"
      BY <3>2, <3>3 DEF DelegateInv, Asked
    <3>5. Current(w)' = Current(w) /\ vote'[w] = IF w = v THEN "waiting" ELSE vote[w]
      BY <2>2 DEF Current, DelegateInv, DelegateTypeOK
    <3>6. w # v => inv'[Current(w)] = inv[Current(w)]
      BY <3>1, <3>2 DEF Current
    <3>7. /\ vote'[w] = "due" => inv'[Current(w)].step = "none"
          /\ vote'[w] \in {"accept", "reject"} => inv'[Current(w)].step = "ok"
      BY <3>5, <3>6 DEF DelegateInv, Asked
    <3>8. attempt' = attempt
      BY <2>2
    <3> QED BY <3>4, <3>5, <3>7, <3>8 DEF Asked
  <2>6. closing # "closed"
    BY <1>2 DEF DelegateInv
  <2>7. vote[v] \notin {"accept", "reject"} /\ vote \in [Reviewers -> {"due", "waiting", "accept", "reject", "absent"}]
    BY <2>2 DEF DelegateInv, DelegateTypeOK
  <2> QED BY <2>2, <2>3, <2>4, <2>5, <2>6, <2>7 DEF DelegateInv
<1> QED BY <1>1, <1>2

LEMMA AnsweredKeeps ==
  ASSUME DelegateInv, NEW v \in Reviewers, Answered(v)
  PROVE  DelegateInv'
<1>1. /\ UNCHANGED <<call, ended, inv, fatal, closing, stopped, decision, storedVars, faults>>
      /\ vote[v] = "waiting" /\ ended \subseteq Calls /\ faults \in Nat
  BY DEF Answered, delegateVars, DelegateInv, DelegateTypeOK
<1>2. CASE GivenUp(v)
  BY <1>1, <1>2, GivingUpKeeps, VotingKeeps
<1>3. CASE /\ At(Current(v), "ok")
           /\ \E choice \in {"accept", "reject"} : vote' = [vote EXCEPT ![v] = choice]
           /\ UNCHANGED attempt
  <2>1. /\ vote \in [Reviewers -> {"due", "waiting", "accept", "reject", "absent"}]
        /\ attempt \in [Reviewers -> Nat]
        /\ \A w \in Reviewers :
             /\ attempt[w] \in 1 .. MaxAttempts[w]
             /\ \A n \in attempt[w] + 1 .. MaxAttempts[w] : inv[<<w, n>>].step = "none"
             /\ vote[w] = "due" => inv[<<w, attempt[w]>>].step = "none"
             /\ vote[w] \in {"accept", "reject"} => inv[<<w, attempt[w]>>].step = "ok"
    BY DEF DelegateInv, DelegateTypeOK, Asked, Current
  <2>2. inv[<<v, attempt[v]>>].step = "ok"
    BY <1>3 DEF At, Current
  <2>3. PICK choice \in {"accept", "reject"} : vote' = [vote EXCEPT ![v] = choice]
    BY <1>3
  <2> QED BY <1>1, <1>3, <2>1, <2>2, <2>3, VotingKeeps
<1> QED BY <1>2, <1>3 DEF Answered

LEMMA TimeoutKeeps ==
  ASSUME DelegateInv, NEW v \in Reviewers, AwaitTimeout(v)
  PROVE  DelegateInv'
<1>1. Current(v) \in Calls
  BY AttemptsAreCalls DEF DelegateInv, DelegateTypeOK, Current
<1>2. /\ UNCHANGED <<call, inv, fatal, closing, stopped, decision, storedVars>>
      /\ vote[v] = "waiting" /\ ended' \subseteq Calls /\ faults' \in Nat /\ GivenUp(v)
  BY <1>1 DEF AwaitTimeout, Fault, delegateVars, DelegateInv, DelegateTypeOK
<1> QED BY <1>2, GivingUpKeeps, VotingKeeps

LEMMA DecidingKeeps ==
  ASSUME DelegateInv, HostDecides
  PROVE  DelegateInv'
<1>1. UNCHANGED <<call, ended, inv, fatal, closing, stopped, vote, attempt, messages, ballots,
                  blocking, faults>>
  BY DEF HostDecides, delegateVars, storedVars
<1>2. decision' \in {"supported", "not_supported"}
  BY DEF HostDecides, Decision
<1>3. decision' = "supported" => \A v \in Reviewers : vote[v] \in {"accept", "reject"}
  BY DEF HostDecides, Decision, Consented, Cast
<1>4. DelegateTypeOK'
  BY <1>1, <1>2 DEF DelegateInv, DelegateTypeOK
<1>5. \A i \in Calls : (Stored(i) /\ Confined(i))'
  BY <1>1 DEF DelegateInv, Stored, Confined
<1>6. \A v \in Reviewers : Asked(v)'
  BY <1>1 DEF DelegateInv, Asked, Current
<1> QED BY <1>1, <1>3, <1>4, <1>5, <1>6 DEF DelegateInv, Dispatched, InvocationOver

LEMMA DelegateKeeps == DelegateInv /\ [DelegateNext]_allDelegateVars => DelegateInv'
<1> SUFFICES ASSUME DelegateInv, [DelegateNext]_allDelegateVars PROVE DelegateInv'
  OBVIOUS
<1>1. CASE \E i \in Calls : Works(i)
  BY <1>1, WorksKeeps
<1>2. CASE \E v \in Reviewers : Engine(v)
  BY <1>2, DispatchKeeps, AnsweredKeeps, TimeoutKeeps DEF Engine
<1>3. Dispatched \subseteq Calls /\ ended \subseteq Calls /\ faults \in Nat /\ fatal \in BOOLEAN
      /\ stopped \in BOOLEAN /\ closing \in {"no", "waits", "closed"}
      /\ (closing # "no" => fatal)
      /\ (closing = "closed" => \A i \in Dispatched : InvocationOver(i))
  BY DEF Dispatched, DelegateInv, DelegateTypeOK
<1>4. CASE StopRun
  BY <1>3, <1>4, StoppingKeeps DEF StopRun, Fault, delegateVars
<1>5. CASE HostDecides
  BY <1>5, DecidingKeeps
<1>6. CASE CloseDelegate
  BY <1>3, <1>6, StoppingKeeps DEF CloseDelegate, voteVars
<1>7. CASE Closed
  BY <1>3, <1>7, StoppingKeeps DEF Closed, voteVars
<1>8. CASE UNCHANGED allDelegateVars
  BY <1>3, <1>8, StoppingKeeps DEF allDelegateVars, hostVars, delegateVars, voteVars
<1> QED BY <1>1, <1>2, <1>4, <1>5, <1>6, <1>7, <1>8 DEF DelegateNext

LEMMA DelegateInvariant == DelegateSpec => []DelegateInv
BY DelegateStarts, DelegateKeeps, PTL DEF DelegateSpec

\* Every step keeps the delegate's state in its type (delegate.go:23), for any
\* number of reviewers and attempts.
THEOREM DelegateTypeCorrect == DelegateSpec => []DelegateTypeOK
<1>1. DelegateInv => DelegateTypeOK
  BY DEF DelegateInv
<1> QED BY <1>1, DelegateInvariant, PTL

\* A result is supported only with the recorded vote of every reviewer, whatever
\* attempts were given up and whatever they still store (delegate.go and main.go's
\* decision).
THEOREM SupportNeedsVotes == DelegateSpec => []SupportedIsEarned
<1>1. DelegateInv => SupportedIsEarned
  <2> SUFFICES ASSUME DelegateInv, decision = "supported", NEW v \in Reviewers
               PROVE  /\ vote[v] \in {"accept", "reject"}
                      /\ Current(v) \in messages \cap ballots
                      /\ inv[Current(v)].artifact = "completed"
    BY DEF SupportedIsEarned
  <2>1. Current(v) \in Calls
    BY AttemptsAreCalls DEF DelegateInv, DelegateTypeOK, Current
  <2>2. vote[v] \in {"accept", "reject"} /\ inv[Current(v)].step = "ok"
    BY DEF DelegateInv, Asked
  <2> QED BY <2>1, <2>2 DEF DelegateInv, Stored
<1> QED BY <1>1, DelegateInvariant, PTL

\* No leader of a CLI's process group is alive any more.
NoneOutlivesClose == closing = "closed" => \A i \in Calls : ~Alive(i)

\* When Close has returned, no process of any invocation runs, of one the engine
\* gave up just as little (delegate.go:161, and the deferred end of a call).
THEOREM ClosedMeansDead == DelegateSpec => []NoneOutlivesClose
<1>1. DelegateInv => NoneOutlivesClose
  BY DEF DelegateInv, NoneOutlivesClose, Alive, Confined, Dispatched, InvocationOver
<1> QED BY <1>1, DelegateInvariant, PTL

\* Once Close has returned no step starts a process, writes an artifact or
\* publishes, for any number of reviewers, attempts and faults.
THEOREM ClosedStaysQuiet == DelegateSpec => ClosedIsQuiet
<1>1. DelegateInv /\ [DelegateNext]_allDelegateVars
        => (closing = "closed" => UNCHANGED <<inv, call, messages, ballots, blocking>>)
  <2> SUFFICES ASSUME DelegateInv, closing = "closed", DelegateNext
               PROVE  UNCHANGED <<inv, call, messages, ballots, blocking>>
    BY DEF allDelegateVars, hostVars, delegateVars, storedVars
  <2>1. fatal /\ \A i \in Calls : inv[i].step \in {"none", "failed", "ok"}
    BY DEF DelegateInv, Dispatched, InvocationOver
  <2>2. ASSUME NEW i \in Calls, Works(i) PROVE FALSE
    BY <2>1, <2>2 DEF Works, WriteInput, Probe, Announce, Calling, ProgressLost, Returned,
         WriteOutput, Publish, CastBallot, Complete, Finish, TaskDeadline, At, FailsForAll,
         InvocationMoves, InvocationFails, InvocationOver, Dispatched
  <2>3. ASSUME NEW v \in Reviewers, Engine(v)
        PROVE  UNCHANGED <<inv, call, messages, ballots, blocking>>
    BY <2>1, <2>3 DEF Engine, Dispatch, Answered, AwaitTimeout, delegateVars, storedVars
  <2> QED BY <2>2, <2>3 DEF DelegateNext, StopRun, HostDecides, CloseDelegate, Closed,
               delegateVars, storedVars
<1> QED BY <1>1, DelegateInvariant, PTL DEF DelegateSpec, ClosedIsQuiet
=============================================================================
