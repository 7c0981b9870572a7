------------------------------ MODULE RunCommand ------------------------------
(* The run command over the life of a directory: files are edited, runs are    *)
(* started from a task, resumed, replayed, or started from the follow-up case  *)
(* an earlier run has left, each with the configuration as it is at the time.  *)
(* What the engine does is one step; SessionLifecycle is about it.             *)
EXTENDS RunConfig

CONSTANTS
  Main,         \* the file the command is given
  Contents,     \* what the files may hold
  Askable,      \* profiles that may be asked for
  Inputs,       \* what an input file may set
  Flags,        \* what flags may set
  NewAgents,    \* agents that may be added, alone or with their provider
  Assignable,   \* sets of roles they may be given
  MaxEdits,     \* bound on edits
  MaxSessions   \* bound on sessions

ASSUME ContentsAssumption ==
  \A contents \in Contents :
    IsFiniteSet(DOMAIN contents) /\ \A name \in DOMAIN contents : IsFile(contents[name])

VARIABLES
  files,     \* what the configuration files hold
  sessions,  \* the sessions in their order: request, whether finished, where stored
  running,   \* the commands: session, its request and configuration as resolved
  cases,     \* requests of follow-up cases
  edits

commandVars == <<files, sessions, running, cases, edits>>

CommandInit ==
  /\ files \in Contents
  /\ sessions = <<>> /\ running = {} /\ cases = {} /\ edits = 0

\* The directory of a run may name the request last, first or not at all; the
\* sessions are kept beside it.
StoredAt(config, id) ==
  LET directory == ValueOf(config.layer.directory, "template", "out/{requestId}")
  IN IF directory = "out/{requestId}/run" THEN <<"out", id>> ELSE <<"out">>

\* To look a session up no request is known yet, and none has the name 0.
LookedUpAt(config) == StoredAt(config, 0)

\* The files are edited by hand.
Edit ==
  /\ edits < MaxEdits /\ edits' = edits + 1
  /\ files' \in Contents \ {files}
  /\ UNCHANGED <<sessions, running, cases>>

\* A command writes the file it is given: all it has loaded, with the files that are
\* included and the profile of the files merged in, and what it adds.
Writes(config) ==
  /\ edits < MaxEdits /\ edits' = edits + 1
  /\ config # Refused
  /\ files' = Overlay(files, [name \in {Main} |-> [include |-> <<>>, config |-> config]])
  /\ UNCHANGED <<sessions, running, cases>>

AddAgent(a, fields, given) ==
  LET config == Load(files, Main, Nothing)
  IN config # Refused /\ Writes(ApplyAddAgent(config, a, fields, given))

AddProvider(p, models, agents) ==
  LET config == Load(files, Main, Nothing)
  IN config # Refused /\ Writes(ApplyAddProvider(config, p, models, agents))

\* A template over a file, if there is none or it may be replaced.
InitConfig(mode, force) ==
  (force \/ Main \notin DOMAIN files) /\ Writes(BuildTemplateConfig(mode))

\* The same in three files; it stops at the first that exists and may not be
\* replaced, and leaves those written before.
SetUp(mode, force) ==
  LET config == BuildTemplateConfig(mode)
      part == [config.layer EXCEPT !.providers = Nothing, !.agents = Nothing]
      written ==
        <<[name |-> Main,
           file |-> [include |-> <<"conf/providers", "conf/profiles">>,
                     config |-> [EmptyConfig EXCEPT !.profile = [active |-> "default"]]]],
          [name |-> "conf/providers",
           file |-> [include |-> <<>>,
                     config |-> [EmptyConfig EXCEPT
                                   !.layer = [EmptyLayer EXCEPT
                                                !.providers = config.layer.providers,
                                                !.agents = config.layer.agents]]]],
          [name |-> "conf/profiles",
           file |-> [include |-> <<>>,
                     config |-> [EmptyConfig EXCEPT
                                   !.profiles = [p \in {"default"} |-> part]]]]>>
      May(i) == \A j \in 1..i : force \/ written[j].name \notin DOMAIN files
      done == {i \in 1..3 : May(i)}
  IN /\ edits < MaxEdits /\ edits' = edits + 1
     /\ files' = Overlay(files, [n \in {written[i].name : i \in done} |->
                                   written[CHOOSE i \in done : written[i].name = n].file])
     /\ UNCHANGED <<sessions, running, cases>>

\* A new session, stored with the request its run has been given.
Starts(config, request) ==
  LET id == Len(sessions) + 1
  IN /\ id <= MaxSessions
     /\ sessions' = Append(sessions, [request |-> request, finished |-> FALSE,
                                      at |-> StoredAt(config, id)])
     /\ running' = running \cup {[session |-> id, request |-> request, config |-> config]}
     /\ UNCHANGED <<files, cases, edits>>

\* A task, with or without an input file.
Run(asked, input, flags) ==
  LET config == Load(files, Main, asked)
      request == IF config = Refused THEN Refused
                 ELSE Resolve(config, Plan(config, input, flags))
  IN request # Refused /\ Starts(config, request)

\* The commands named for a mode: the participants of the configuration are given as
\* flags would be, before those of the input file.
Shortcut(mode, asked, input, flags) ==
  LET config == Load(files, Main, asked)
      given == [flags EXCEPT
                  !.own = [mode |-> mode] @@ @,
                  !.roles = IF mode = "adjudication" \/ Sets(@, <<mode, "workers">>) THEN @
                            ELSE (<<mode, "workers">> :> InferParticipants(config.layer, mode)) @@ @]
      request == IF config = Refused THEN Refused
                 ELSE Resolve(config, Plan(config, input, given))
  IN request # Refused /\ Starts(config, request)

\* The request of a session, if the command finds the session.
Stored(config, s) ==
  IF config = Refused \/ sessions[s].at # LookedUpAt(config) THEN Refused
  ELSE sessions[s].request

\* The session goes on, whether or not another command still works on it; of a
\* finished one only the result is shown.
Continues(s, config, request) ==
  /\ request # Refused /\ ~sessions[s].finished
  /\ running' = running \cup {[session |-> s, request |-> request, config |-> config]}
  /\ UNCHANGED <<files, sessions, cases, edits>>

ResumeSession(asked, s) ==
  LET config == Load(files, Main, asked)
  IN /\ Stored(config, s) # Refused
     /\ Continues(s, config, Resolve(config, Stored(config, s)))

\* The same request under a new name, as a child of the session.
Replay(asked, s) ==
  LET config == Load(files, Main, asked)
      stored == Stored(config, s)
      request == IF stored = Refused THEN Refused
                 ELSE Resolve(config, [stored EXCEPT !.parent = s])
  IN request # Refused /\ Starts(config, request)

\* The case of an earlier run; it does not act.
FollowUp(asked, case) ==
  LET config == Load(files, Main, asked)
      request == Resolve(config, case)
  IN request # Refused /\ Starts(config, request)

\* What the run observes contradicts its result: the case asks in addition whether the
\* observation overturns it, whosever criteria the run had.
Contradicted(c) ==
  /\ cases' = cases \cup {[c.request EXCEPT !.parent = c.session, !.acts = FALSE,
                                            !.criteria = IF @ = "none" THEN "explicit" ELSE @]}
  /\ UNCHANGED <<files, sessions, running, edits>>

\* The command ends, with the session finished or not, or is killed.
Ends(c) ==
  /\ running' = running \ {c}
  /\ \E finished \in BOOLEAN :
       sessions' = [sessions EXCEPT ![c.session].finished = finished]
  /\ UNCHANGED <<files, cases, edits>>

CommandNext ==
  \/ Edit
  \/ \E a \in NewAgents, given \in Assignable :
       \/ AddAgent(a.id, a.fields, given)
       \/ AddProvider(a.fields.provider, [m \in {"default"} |-> Nothing], {a.id})
  \/ \E mode \in Modes, force \in BOOLEAN : InitConfig(mode, force) \/ SetUp(mode, force)
  \/ \E asked \in Askable :
       \/ \E input \in Inputs, flags \in Flags : Run(asked, input, flags)
       \/ \E input \in Inputs, mode \in Modes : Shortcut(mode, asked, input, EmptyLayer)
       \/ \E s \in DOMAIN sessions : ResumeSession(asked, s) \/ Replay(asked, s)
       \/ \E case \in cases : FollowUp(asked, case)
  \/ \E c \in running : Contradicted(c) \/ Ends(c)

CommandSpec == CommandInit /\ [][CommandNext]_commandVars

-----------------------------------------------------------------------------
(* Properties.                                                               *)

\* Every layer that sets the mode or criteria sets both, for each other.
Together(own) ==
  {"mode", "criteria"} \cap DOMAIN own # {} =>
    {"mode", "criteria"} \subseteq DOMAIN own /\ own.criteria = own.mode
TogetherIn(config) ==
  Together(config.layer.own) /\ \A p \in DOMAIN config.profiles : Together(config.profiles[p].own)
WrittenTogether ==
  \A contents \in Contents : \A name \in DOMAIN contents : TogetherIn(contents[name].config)

\* No run works with success criteria written for another mode, whatever profile
\* was chosen, whatever the input and the flags say and however the run came
\* about, where every layer that sets criteria or the mode sets both
\* (resolveSuccessCriteria, applySelectedProfile, mergeDefaults).
CriteriaFitTheMode ==
  WrittenTogether =>
    \A s \in DOMAIN sessions :
      sessions[s].request.criteria \in {"explicit", "none", sessions[s].request.mode}

\* Every agent that a running command may give a task to, but the synthesizer, is
\* one whose provider and model the configuration it has loaded knows and has not
\* switched off, also when the request is older than the configuration
\* (validateAssignedAgents, validateAgentProfiles).
AgentsAreUsable ==
  \A c \in running : \A r \in DOMAIN c.request.roles \ {"synthesizer"} :
    \A a \in c.request.roles[r] : Usable(c.config.layer, a)
=============================================================================
