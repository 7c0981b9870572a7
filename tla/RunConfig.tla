------------------------------ MODULE RunConfig ------------------------------
(* How configuration files, a profile, an input file and flags become the      *)
(* request of a run.  What a layer leaves open it does not mention: settings   *)
(* are functions on the fields a layer sets, so a later layer goes on top of   *)
(* an earlier one with @@.                                                     *)
EXTENDS Naturals, FiniteSets, SequencesExt

\* A layer:
\*   own        fields of defaults: mode, criteria; of inputs and flags also acts
\*   policies   for each mode the fields of its policy
\*   providers  for a provider [own, models]: its fields, and those of its models
\*   agents     for an agent its fields: provider, model
\*   roles      for <<mode, role>> the agents it is given to
\*   directory  the field of that name
\* A configuration: [profile, profiles, layer], where profiles are layers.

Nothing == <<>>
Modes == {"adjudication", "free_debate", "delphi"}

\* Who works in a mode, and who only helps (arbiter, verifier, deduper,
\* facilitator, reporter, actor).
RolesOf(mode) ==
  {"workers", "helper"} \cup (CASE mode = "adjudication" -> {"challengers"}
                                [] mode = "free_debate" -> {"synthesizer"}
                                [] OTHER -> {})

EmptyLayer ==
  [own |-> Nothing, policies |-> [m \in Modes |-> Nothing], providers |-> Nothing,
   agents |-> Nothing, roles |-> Nothing, directory |-> Nothing]
EmptyConfig == [profile |-> Nothing, profiles |-> Nothing, layer |-> EmptyLayer]

IsLayer(layer) == DOMAIN layer = DOMAIN EmptyLayer
IsConfig(config) ==
  /\ DOMAIN config = DOMAIN EmptyConfig /\ IsLayer(config.layer)
  /\ \A p \in DOMAIN config.profiles : IsLayer(config.profiles[p])

Unset(fields) == DOMAIN fields = {}
Sets(fields, name) == name \in DOMAIN fields
ValueOf(fields, name, default) == IF Sets(fields, name) THEN fields[name] ELSE default

-----------------------------------------------------------------------------
(* Merging: scalars and lists are replaced as a whole, maps key by key.      *)

Overlay(base, over) ==
  [k \in DOMAIN base \cup DOMAIN over |-> IF k \in DOMAIN over THEN over[k] ELSE base[k]]

MergeEach(Merge(_, _), base, over) ==
  [k \in DOMAIN base \cup DOMAIN over |->
     CASE k \notin DOMAIN over -> base[k]
       [] k \notin DOMAIN base -> over[k]
       [] OTHER -> Merge(base[k], over[k])]

MergeProvider(base, over) ==
  [own |-> Overlay(base.own, over.own),
   models |-> MergeEach(Overlay, base.models, over.models)]

MergePolicies(base, over) == [m \in Modes |-> Overlay(base[m], over[m])]

MergeLayers(base, over) ==
  [own |-> Overlay(base.own, over.own),
   policies |-> MergePolicies(base.policies, over.policies),
   providers |-> MergeEach(MergeProvider, base.providers, over.providers),
   agents |-> MergeEach(Overlay, base.agents, over.agents),
   roles |-> Overlay(base.roles, over.roles),
   directory |-> Overlay(base.directory, over.directory)]

MergeConfig(base, over) ==
  [profile |-> Overlay(base.profile, over.profile),
   profiles |-> MergeEach(MergeLayers, base.profiles, over.profiles),
   layer |-> MergeLayers(base.layer, over.layer)]

-----------------------------------------------------------------------------
(* Loading.  A file is [include, config]; nothing comes of an error.         *)

IsFile(file) ==
  /\ Len(file.include) \in Nat /\ DOMAIN file.include = 1 .. Len(file.include)
  /\ IsConfig(file.config)

Refused == [refused |-> TRUE]

\* What is included, in its order.
MergeAll(parts) ==
  LET merged[n \in 0 .. Len(parts)] ==
        IF n = 0 THEN EmptyConfig ELSE MergeConfig(merged[n - 1], parts[n])
  IN merged[Len(parts)]

\* The includes, as they have been loaded, then the file itself.
WithIncludes(file, loaded) ==
  LET parts == [i \in DOMAIN file.include |->
                  IF file.include[i] \in DOMAIN loaded THEN loaded[file.include[i]] ELSE Refused]
  IN IF \E i \in DOMAIN parts : parts[i] = Refused THEN Refused
     ELSE MergeConfig(MergeAll(parts), file.config)

\* No file may include itself, not through others either: a chain of includes that
\* is longer than there are files is one that has come back to a file.
LoadFile(files, f) ==
  LET Loaded[depth \in 0 .. Cardinality(DOMAIN files)] ==
        [name \in DOMAIN files |->
           IF depth = 0 THEN Refused ELSE WithIncludes(files[name], Loaded[depth - 1])]
  IN IF f \in DOMAIN files THEN Loaded[Cardinality(DOMAIN files)][f] ELSE Refused

\* The profile asked for, or the one the files name.
SelectProfile(config, asked) ==
  LET chosen == Overlay(config.profile, asked)
  IN CASE Unset(chosen) -> config
       [] ~Unset(chosen) /\ ~Sets(config.profiles, chosen.active) -> Refused
       [] OTHER -> [config EXCEPT
                      !.profile = chosen,
                      !.layer = MergeLayers(@, config.profiles[chosen.active])]

Enabled(fields) == ValueOf(fields, "enabled", TRUE)

\* An agent without a model gets the only one its provider has.
Normalize(config) ==
  LET providers == config.layer.providers
      WithModel(agent) ==
        IF ~Sets(agent, "model") /\ Sets(agent, "provider")
           /\ Sets(providers, agent.provider)
           /\ Cardinality(DOMAIN providers[agent.provider].models) = 1
          THEN agent @@ [model |-> CHOOSE m \in DOMAIN providers[agent.provider].models : TRUE]
          ELSE agent
  IN [config EXCEPT !.layer.agents = [a \in DOMAIN @ |-> WithModel(@[a])]]

ValidProviders(layer) ==
  /\ ~Unset(layer.providers)
  /\ \A p \in DOMAIN layer.providers : ~Unset(layer.providers[p].models)

\* The provider and the model of an agent are known and not switched off.
Usable(layer, a) ==
  /\ Sets(layer.agents, a)
  /\ LET agent == layer.agents[a]
     IN /\ Sets(agent, "provider") /\ Sets(layer.providers, agent.provider)
        /\ Enabled(layer.providers[agent.provider].own)
        /\ Sets(agent, "model") /\ Sets(layer.providers[agent.provider].models, agent.model)
        /\ Enabled(layer.providers[agent.provider].models[agent.model])

ValidAgents(layer) ==
  ~Unset(layer.agents) /\ \A a \in DOMAIN layer.agents : Usable(layer, a)

\* Every mode's roles are given to known agents, and the mode that is the default
\* has someone to work in it.
ValidRoles(layer) ==
  /\ \A r \in DOMAIN layer.roles : layer.roles[r] \subseteq DOMAIN layer.agents
  /\ LET mode == ValueOf(layer.own, "mode", "adjudication")
     IN /\ Sets(layer.roles, <<mode, "workers">>)
        /\ mode = "adjudication" => Sets(layer.roles, <<mode, "challengers">>)

DefaultPolicies ==
  [adjudication |-> [fallbackRounds |-> 1, unresolved |-> "revise"],
   free_debate |-> [minRounds |-> 2, maxRounds |-> 3],
   delphi |-> [minRounds |-> 2, maxRounds |-> 3, stabilityRounds |-> 2]]

\* Of the rounds only those of Delphi are compared, and not the minimum.
ValidDefaults(layer) ==
  LET delphi == layer.policies.delphi
      stable == ValueOf(delphi, "stabilityRounds", DefaultPolicies.delphi.stabilityRounds)
  IN stable >= 2 /\ (Sets(delphi, "maxRounds") => delphi.maxRounds >= stable)

Valid(config) ==
  /\ ValidProviders(config.layer) /\ ValidAgents(config.layer)
  /\ ValidRoles(config.layer) /\ ValidDefaults(config.layer)

Load(files, f, asked) ==
  LET Selected(config) == IF config = Refused THEN Refused ELSE SelectProfile(config, asked)
      Normalized(config) == IF config = Refused THEN Refused ELSE Normalize(config)
      Accepted(config) == IF config = Refused \/ ~Valid(config) THEN Refused ELSE config
  IN Accepted(Normalized(Selected(LoadFile(files, f))))

-----------------------------------------------------------------------------
(* Commands that write configurations.                                       *)

Checked(config) == IF Valid(Normalize(config)) THEN Normalize(config) ELSE Refused

\* A new agent, in addition to those that have the roles it is given; of helpers
\* there is one in a mode.
ApplyAddAgent(config, a, fields, given) ==
  LET layer == config.layer
      With(r) == IF r[2] = "helper" THEN {a} ELSE ValueOf(layer.roles, r, {}) \cup {a}
  IN IF Sets(layer.agents, a) \/ ~Sets(layer.providers, fields.provider) THEN Refused
     ELSE Checked([config EXCEPT !.layer.agents = (a :> fields) @@ @,
                                 !.layer.roles = [r \in given |-> With(r)] @@ @])

\* A new provider, with an agent or without.
ApplyAddProvider(config, p, models, agents) ==
  LET added == [config EXCEPT
                  !.layer.providers = (p :> [own |-> Nothing, models |-> models]) @@ @]
  IN IF Sets(config.layer.providers, p) \/ Unset(models) THEN Refused
     ELSE IF agents = {} THEN Checked(added)
     ELSE ApplyAddAgent(added, CHOOSE a \in agents : TRUE, [provider |-> p], {})

\* A provider with one model and the agents for one mode.  Participants are listed
\* for no mode in particular and so take part in both modes that have them.
TemplateLayer(mode) ==
  LET ids == IF mode = "adjudication" THEN {"proposer", "challenger"} ELSE {"p1", "p2", "p3"}
      agent == [provider |-> "template", model |-> "default"]
  IN [own |-> [mode |-> mode, criteria |-> mode],
      policies |-> [EmptyLayer.policies EXCEPT ![mode] = DefaultPolicies[mode]],
      providers |-> "template" :> [own |-> Nothing, models |-> "default" :> Nothing],
      agents |-> [a \in ids |-> agent],
      roles |->
        IF mode = "adjudication"
          THEN <<mode, "workers">> :> {"proposer"} @@ <<mode, "challengers">> :> {"challenger"}
          ELSE <<"free_debate", "workers">> :> ids @@ <<"delphi", "workers">> :> ids,
      directory |-> Nothing]

BuildTemplateConfig(mode) == Normalize([EmptyConfig EXCEPT !.layer = TemplateLayer(mode)])

-----------------------------------------------------------------------------
(* Planning.  Input files and flags are layers too, of which flags set less. *)

RolesFor(layer, mode) ==
  [r \in {x \in RolesOf(mode) : Sets(layer.roles, <<mode, x>>)} |-> layer.roles[<<mode, r>>]]

HasCriteriaFor(layer, mode) ==
  Sets(layer.own, "criteria") /\ Sets(layer.own, "mode") /\ layer.own.mode = mode

\* Mutant: the defaults' criteria are taken whatever the mode of the run is.
CriteriaOfDefaults(config, mode, input, flags) ==
  CASE Sets(flags.own, "criteria") \/ Sets(input.own, "criteria") -> "explicit"
    [] OTHER -> ValueOf(config.layer.own, "criteria", "none")

\* Criteria asked for are kept.  Inherited ones are those of the defaults if they
\* go with the mode of the run, or else of a profile of that mode, or built in.
\* They are named here for the mode they were written for.
Criteria(config, mode, input, flags) ==
  LET own == config.layer.own
      fitting == {p \in DOMAIN config.profiles : HasCriteriaFor(config.profiles[p], mode)}
      asked == Sets(flags.own, "criteria") \/ Sets(input.own, "criteria")
      others == IF fitting = {} THEN mode
                ELSE config.profiles[CHOOSE p \in fitting : TRUE].own.criteria
  IN CASE asked -> "explicit"
       [] ~asked /\ ~Sets(own, "criteria") -> "none"
       [] ~asked /\ Sets(own, "criteria") ->
            IF ~Sets(own, "mode") \/ own.mode = mode THEN own.criteria ELSE others

\* A policy for fallbacks is taken from one layer as a whole, every other field
\* from the first layer that has it; the flags for rounds go to every mode.
Policy(config, mode, input, flags) ==
  LET layers == <<flags.policies[mode], input.policies[mode], config.layer.policies[mode]>>
      first == SelectSeq(layers, LAMBDA l : ~Unset(l))
  IN IF mode = "adjudication"
       THEN IF first = <<>> THEN Nothing ELSE Head(first)
       ELSE layers[1] @@ layers[2] @@ layers[3]

Plan(config, input, flags) ==
  LET mode == (flags.own @@ input.own @@ config.layer.own @@ [mode |-> "adjudication"]).mode
  IN [mode |-> mode,
      roles |-> RolesFor(flags, mode) @@ RolesFor(input, mode) @@ RolesFor(config.layer, mode),
      criteria |-> Criteria(config, mode, input, flags),
      policy |-> Policy(config, mode, input, flags),
      acts |-> (flags.own @@ input.own @@ [acts |-> FALSE]).acts,
      parent |-> 0]

\* What a request leaves open.
NormalizeRequest(request) ==
  [request EXCEPT !.policy = @ @@ DefaultPolicies[request.mode]]

ValidRequest(request) ==
  LET workers == ValueOf(request.roles, "workers", {})
      policy == request.policy
  IN CASE request.mode = "adjudication" ->
            workers # {} /\ Sets(request.roles, "challengers")
       [] request.mode = "free_debate" ->
            Cardinality(workers) >= 2 /\ policy.maxRounds >= policy.minRounds
       [] OTHER ->
            /\ Cardinality(workers) >= 2 /\ policy.maxRounds >= policy.minRounds
            /\ policy.stabilityRounds >= 2 /\ policy.maxRounds >= policy.stabilityRounds

\* Mutant: the roles are looked at when the configuration is loaded, not here.
AssignedNotChecked(config, request) == TRUE

\* The agents a request gives the roles of its mode to; the synthesizer's is not
\* looked at.
AssignedAreKnown(config, request) ==
  \A r \in DOMAIN request.roles \ {"synthesizer"} :
    request.roles[r] \subseteq DOMAIN config.layer.agents

\* Who takes part in a debate or a Delphi session that is asked for by the name of
\* its mode: those of the mode, or else all who work in adjudication.
InferParticipants(layer, mode) ==
  IF Sets(layer.roles, <<mode, "workers">>) THEN layer.roles[<<mode, "workers">>]
  ELSE UNION {layer.roles[r] : r \in DOMAIN layer.roles
                                     \cap {<<"adjudication", x>> : x \in {"workers", "challengers"}}}

\* A request that comes from elsewhere is taken as it is.
Resolve(config, request) ==
  LET normal == NormalizeRequest(request)
  IN IF config = Refused \/ ~ValidRequest(normal) \/ ~AssignedAreKnown(config, normal)
       THEN Refused ELSE normal
=============================================================================
