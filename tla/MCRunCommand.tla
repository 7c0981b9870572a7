---------------------------- MODULE MCRunCommand ----------------------------
(* A main file that includes a base file, in three versions: the first sets up *)
(* adjudication, the second takes an agent away and gives its provider two     *)
(* models and runs directories of their own, the third includes itself.       *)
EXTENDS RunCommand

MCMain == "main"

Provider(models) ==
  "api" :> [own |-> Nothing, models |-> models]

\* One model only, and one of two switched off.
OneModel == "m1" :> Nothing
TwoModels == "m1" :> Nothing @@ "m2" :> [enabled |-> FALSE]

Agents(ids, fields) == [a \in ids |-> fields]

AllRoles(ids) ==
  <<"adjudication", "workers">> :> ids @@ <<"adjudication", "challengers">> :> ids
  @@ <<"free_debate", "workers">> :> ids @@ <<"delphi", "workers">> :> ids

Base(ids, models, fields) ==
  [EmptyLayer EXCEPT
     !.own = [mode |-> "adjudication", criteria |-> "adjudication"],
     !.providers = Provider(models), !.agents = Agents(ids, fields),
     !.roles = AllRoles(ids)]

\* A profile for Delphi with criteria of its own and few rounds.
DelphiProfile ==
  [EmptyLayer EXCEPT
     !.own = [mode |-> "delphi", criteria |-> "delphi"],
     !.policies = [@ EXCEPT !["delphi"] = [minRounds |-> 3, maxRounds |-> 3]]]

File(include, layer) ==
  [include |-> include, config |-> [EmptyConfig EXCEPT !.layer = layer]]

Main1 ==
  [include |-> <<"base">>,
   config |-> [EmptyConfig EXCEPT !.profiles = "delphi" :> DelphiProfile]]
Main2 ==
  [Main1 EXCEPT !.config.layer.directory = [template |-> "out/{requestId}/run"]]

MCContents ==
  {"main" :> Main1 @@ "base" :> File(<<>>, Base({"a", "b", "c"}, OneModel, [provider |-> "api"])),
   "main" :> Main2 @@ "base" :> File(<<>>, Base({"a", "b"}, TwoModels,
                                                [provider |-> "api", model |-> "m1"])),
   "main" :> Main2 @@ "base" :> File(<<"main">>, EmptyLayer)}

MCAskable == {Nothing, [active |-> "delphi"]}

\* Nothing; other workers; criteria of one's own with an action; too many rounds.
MCInputs ==
  {EmptyLayer,
   [EmptyLayer EXCEPT !.own = [mode |-> "free_debate"],
                      !.roles = <<"free_debate", "workers">> :> {"a", "c"}],
   [EmptyLayer EXCEPT !.own = [criteria |-> "explicit", acts |-> TRUE]]}
MCFlags ==
  {EmptyLayer,
   [EmptyLayer EXCEPT !.own = [mode |-> "delphi"],
                      !.policies = [@ EXCEPT !["delphi"] = [maxRounds |-> 2]]]}

\* An agent for the provider there is, and one for a new one.
MCNewAgents ==
  {[id |-> "d", fields |-> [provider |-> "api"]], [id |-> "e", fields |-> [provider |-> "other"]]}
MCAssignable == {{}, {<<"free_debate", "workers">>, <<"delphi", "workers">>}}

\* One command at a time, at most one case to follow up, and a second session only
\* as a child of the first.
Few ==
  /\ Cardinality(running) <= 1 /\ Cardinality(cases) <= 1
  /\ Len(sessions) = 2 => sessions[2].request.parent = 1
=============================================================================
