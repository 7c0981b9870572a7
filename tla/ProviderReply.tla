---------------------------- MODULE ProviderReply ----------------------------
(***************************************************************************)
(* What the runtime makes of what a provider sends back (runtime/api,      *)
(* runtime/cli, runtime/sdk and runtime/mock): a text or an error; and     *)
(* whether such a text can be read as the output of a task                 *)
(* (runtime/json_parse.go, normalize.go and task_decode.go).               *)
(*                                                                         *)
(* Of a text only the JSON object in it matters.  An action task, which    *)
(* any text answers, is not among the tasks of a round.                    *)
(***************************************************************************)
EXTENDS Naturals, Sequences
LOCAL INSTANCE SequencesExt

CONSTANTS
  Texts,       \* the texts a provider sends
  MaxParts     \* bound: parts of an answer and events of a command's output

\* How the object is wrapped: alone; followed by more objects; in other text, in a
\* code fence or with stray commas or quotes; or there is none.  And what is in it:
\* an output, one with numbers written as strings, or something the task refuses.
Text == [form : {"object", "objects", "recoverable", "prose", "blank", "error"},
         value : {"valid", "numbers", "invalid"}]

Blank == [form |-> "blank", value |-> "invalid"]
Error == [form |-> "error", value |-> "invalid"]
Prose == [form |-> "prose", value |-> "invalid"]
Output == [form |-> "object", value |-> "valid"]

ASSUME ReplyAssumption ==
  /\ Texts \subseteq Text \ {Error} /\ {Blank, Prose, Output} \subseteq Texts
  /\ MaxParts \in Nat \ {0}

-----------------------------------------------------------------------------
(* Reading a text.                                                         *)

\* StrictJSONObjectBytes lets a second object follow, for it is decoded into an
\* empty struct without an error; ParseJSONObject does as well.
OneObject(text) == text.form \in {"object", "objects"}

\* ParseJSONObject recovers from wrong syntax.
SomeObject(text) == OneObject(text) \/ text.form = "recoverable"

\* StrictDecodeTaskOutput.
Strict(text) == OneObject(text) /\ text.value = "valid"

\* NormalizeTaskOutput turns strings into numbers before it decodes.
Normalised(text) == SomeObject(text) /\ text.value \in {"valid", "numbers"}

Readable(text) == Strict(text) \/ Normalised(text)

-----------------------------------------------------------------------------
(* Answers over HTTP.                                                      *)

\* What of a request its runner may refuse: a path of its own, a level of
\* reasoning or a field for the schema it does not know, more tokens than fit.
Options ==
  [ownPath : BOOLEAN, level : {"none", "known", "unknown"}, thinking : BOOLEAN,
   schemaField : {"none", "known", "unknown"}, tooMany : BOOLEAN]

Accepts(protocol, o) ==
  CASE protocol = "openai-responses" -> ~o.ownPath
    [] protocol = "gemini" ->
         /\ ~o.ownPath /\ ~o.tooMany
         /\ o.schemaField # "unknown"
         /\ o.level = "unknown" => o.thinking
    [] OTHER -> TRUE

Part == [text : Texts, spoken : BOOLEAN]

\* Candidates of which only the first is read, in parts that are spoken or, as a
\* thought or the use of a tool is, not; and a text beside them.
Body ==
  [candidates : {<<>>} \cup {<<c>> : c \in UNION {[1 .. n -> Part] : n \in 0 .. MaxParts}},
   beside : Texts]

\* Several texts that follow one another make up any text.
Joined(texts) ==
  CASE texts = <<>>   -> {Blank}
    [] Len(texts) = 1 -> {texts[1]}
    [] OTHER          -> Texts \ {Blank}

OrError(text) == IF text = Blank THEN Error ELSE text

Spoken(parts) == SelectSeq(parts, LAMBDA p : p.spoken /\ p.text # Blank)

SpokenText(parts) == Joined([i \in DOMAIN Spoken(parts) |-> Spoken(parts)[i].text])

\* runOpenAI: the content of the first choice, which is one text.
OpenAIText(body) ==
  {IF body.candidates = <<>> \/ body.candidates[1] = <<>> THEN Error
   ELSE OrError(body.candidates[1][1].text)}

\* runAnthropic, runGemini: the spoken parts of the first candidate.
PartsText(body) ==
  IF body.candidates = <<>> THEN {Error}
  ELSE {OrError(t) : t \in SpokenText(body.candidates[1])}

\* runOpenAIResponses: a text beside the parts stands in for them.
ResponsesText(body) ==
  {IF t = Error THEN OrError(body.beside) ELSE t : t \in PartsText(body)}

APIs == {"openai", "openai-responses", "anthropic", "gemini"}

Answer(protocol, body) ==
  CASE protocol = "openai"           -> OpenAIText(body)
    [] protocol = "openai-responses" -> ResponsesText(body)
    [] OTHER                         -> PartsText(body)

\* Runner.RunTask; no connection, another status than 2xx or a body that does not
\* decode are errors as well.
APIReplies(protocol) ==
  {Error} \cup UNION {IF sent THEN Answer(protocol, body) ELSE {Error} :
                        sent \in {Accepts(protocol, o) : o \in Options}, body \in Body}

-----------------------------------------------------------------------------
(* The output of a command.                                                *)

\* A line of it.  "other" means nothing to the reader.
Event(type) == [type |-> type, text |-> Blank, structured |-> Blank, good |-> FALSE]
Says(type) == {[Event(type) EXCEPT !.text = t] : t \in Texts}
Results == {[type |-> "result", text |-> t, structured |-> s, good |-> g] :
              t \in Texts, s \in {Blank, Output}, g \in BOOLEAN}
Marks(types) == {Event(type) : type \in types}

Outputs(events) == UNION {[1 .. n -> events] : n \in 0 .. MaxParts}

Has(raw, type) == \E i \in DOMAIN raw : raw[i].type = type
Of(raw, type) == SelectSeq(raw, LAMBDA e : e.type = type)

\* Structured output comes before the text of a result.
ResultText(e) ==
  IF ~e.good THEN Error ELSE IF e.structured # Blank THEN e.structured ELSE OrError(e.text)

\* normalizeCodexExecOutput: the last message of a completed turn, the only one.
\* What --output-last-message wrote replaces it.
CodexText(raw, captured) ==
  LET said == Of(raw, "message")
      wrong == \/ Has(raw, "unreadable") \/ Has(raw, "error")
               \/ \E i, j \in DOMAIN raw : i < j /\ raw[i].type = "completed" /\ raw[j].type = "started"
               \/ ~Has(raw, "completed") \/ said = <<>>
               \/ said # <<>> /\ Last(said).text = Blank
  IN IF wrong THEN Error ELSE IF captured # Blank THEN captured ELSE Last(said).text

\* normalizeClaudeCLIOutput: the last result, if all of them succeeded.
ClaudeText(raw) ==
  LET results == Of(raw, "result")
  IN IF \/ Has(raw, "unreadable") \/ results = <<>>
        \/ \E i \in DOMAIN results : ResultText(results[i]) = Error
       THEN Error ELSE ResultText(Last(results))

NothingFollowsResult(raw) ==
  \A i \in DOMAIN raw : raw[i].type = "result" => i = Len(raw)

\* normalizeAntigravityCLIOutput: one result of one turn, with structured output if
\* it echoes a schema.
AntigravityText(raw, schema) ==
  LET results == Of(raw, "result")
  IN IF \/ Has(raw, "unreadable") \/ Len(Of(raw, "user")) > 1
        \/ ~NothingFollowsResult(raw) \/ results = <<>>
        \/ schema /\ results # <<>> /\ results[1].structured = Blank
       THEN Error ELSE ResultText(results[1])

\* normalizeGrokCLIOutput: the text of the end event comes before the streamed text;
\* what a stream returns must fit the schema, or it is an error.
GrokText(raw, streamed, schema) ==
  LET ends == Of(raw, "result")
      end == IF ends[1].text = Blank THEN [ends[1] EXCEPT !.text = streamed] ELSE ends[1]
      Fits(text) == text.form = "object" /\ text.value # "numbers"
  IN IF \/ Has(raw, "unreadable") \/ Has(raw, "error")
        \/ ~NothingFollowsResult(raw) \/ ends = <<>>
        \/ schema /\ ends # <<>> /\ ~Fits(ResultText(end))
       THEN Error ELSE ResultText(end)

\* reducePiJSONLOutput.
PiText(raw, streamed) ==
  IF Has(raw, "unreadable") \/ Has(raw, "error") THEN Error ELSE OrError(streamed)

\* The deltas of a stream.
Streamed(raw) ==
  LET said == SelectSeq(raw, LAMBDA e : e.type = "delta" /\ e.text # Blank)
  IN Joined([i \in DOMAIN said |-> said[i].text])

CLIs == {"codex", "claude", "antigravity", "grok", "pi"}

\* RunTaskDetailed.  A command that fails, arguments that the transport manages, a
\* prompt that is too long or a temporary file that cannot be written are errors.
CLIReplies(cli) ==
  {Error} \cup
    CASE cli = "codex" ->
           {CodexText(raw, captured) :
              raw \in Outputs(Marks({"unreadable", "error", "started", "completed"}) \cup Says("message")),
              captured \in Texts}
      [] cli = "claude" ->
           {ClaudeText(raw) : raw \in Outputs(Marks({"unreadable", "other"}) \cup Results)}
      [] cli = "antigravity" ->
           {AntigravityText(raw, schema) :
              raw \in Outputs(Marks({"unreadable", "user"}) \cup Results), schema \in BOOLEAN}
      [] cli = "grok" ->
           UNION {{GrokText(raw, streamed, schema) : streamed \in Streamed(raw), schema \in BOOLEAN} :
                    raw \in Outputs(Marks({"unreadable", "error"}) \cup Says("delta") \cup Results)}
      [] cli = "pi" ->
           UNION {{PiText(raw, streamed) : streamed \in Streamed(raw)} :
                    raw \in Outputs(Marks({"unreadable", "error"}) \cup Says("delta"))}

\* Another command and an adapter return what they print, which may be nothing.
PrintedReplies == {Error} \cup Texts

\* What the configuration makes the mock do: nothing before it is cancelled, an
\* error, words, or the output of the task.
MockReplies == {Error, Prose, Output}

Providers == APIs \cup CLIs \cup {"generic", "sdk", "mock"}

\* getRunnerLocked: what a call of a provider may come to, if it ends.
RepliesOf(provider) ==
  CASE provider \in APIs -> APIReplies(provider)
    [] provider \in CLIs -> CLIReplies(provider)
    [] provider \in {"generic", "sdk"} -> PrintedReplies
    [] provider = "mock" -> MockReplies

\* No task is bound to a provider here.
Replies == UNION {RepliesOf(provider) : provider \in Providers}
=============================================================================
