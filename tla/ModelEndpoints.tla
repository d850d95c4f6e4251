---------------------------- MODULE ModelEndpoints ----------------------------
(***************************************************************************)
(* How a request to a language model is put together (libs/chain:          *)
(* models.py, params.py, endpoints.py, gemini/async_genai.py): a model is  *)
(* chosen by name with parameters, an endpoint is defined for it, other    *)
(* endpoints are made of that one, and executing it makes the request the  *)
(* client of the model's family sends.  Parameters are functions from the  *)
(* names that are given to their values.                                   *)
(***************************************************************************)
EXTENDS Integers, Sequences

CONSTANTS
    Given,      \* the parameters a caller may name with the model
    Fallbacks   \* the fallback models an endpoint may race with: sequences

VARIABLES
    stage,      \* whether the endpoint is defined, and executed
    endpoint,   \* the endpoint
    asked,      \* what its settings were last set to by the caller
    request     \* the request of the execution, and those of its fallbacks

vars == <<stage, endpoint, asked, request>>

None  == -9         \* a number that is not given
Unset == "unset"    \* a name that is not given

Get(params, key, default) == IF key \in DOMAIN params THEN params[key] ELSE default
Only(params, keys) == [k \in keys \cap DOMAIN params |-> params[k]]
One(key, value)    == [k \in {key} |-> value]

\* What f has, and what g has besides.
Over(f, g) == [k \in DOMAIN f \cup DOMAIN g |-> IF k \in DOMAIN f THEN f[k] ELSE g[k]]

(***************************************************************************)
(* Models                                                                  *)
(***************************************************************************)
Model(family, reasoning, converter, defaults) ==
    [family |-> family, reasoning |-> reasoning, converter |-> converter,
     defaults |-> defaults]

Plain(family) == Model(family, FALSE, family, [temperature |-> 1])
Effort(e)     == Model("openai", e # "none", "effort", [reasoning_effort |-> e])
Budget(of)    == Model("google", TRUE, of, [thinking_budget |-> -1])
Level(l)      == Model("google", TRUE, "level", [thinking_level |-> l])

PlainNames  == {"gpt4", "gpt4o", "gpt41", "gpt41-mini", "gpt4turbo", "gemini2flash"}
EffortNames == {"gpt51-reasoning", "gpt52-reasoning", "gpt51-no-reasoning",
                "gpt52-no-reasoning", "gpt5mini-medium", "gpt5mini-high", "gpt5mini-minimal"}
BudgetNames == {"gemini25flash", "gemini25pro"}
LevelNames  == {"gemini3pro", "gemini3flash-high", "gemini3flash-medium"}
Names       == PlainNames \cup EffortNames \cup BudgetNames \cup LevelNames

FromName ==
    [n \in Names |->
        CASE n \in PlainNames -> Plain(IF n = "gemini2flash" THEN "google" ELSE "openai")
          [] n \in EffortNames ->
                 Effort(CASE n \in {"gpt51-no-reasoning", "gpt52-no-reasoning"} -> "none"
                          [] n = "gpt5mini-high"    -> "high"
                          [] n = "gpt5mini-minimal" -> "minimal"
                          [] OTHER                  -> "medium")
          [] n \in BudgetNames -> Budget(IF n = "gemini25pro" THEN "pro" ELSE "flash")
          [] n \in LevelNames ->
                 Level(IF n = "gemini3flash-medium" THEN "medium" ELSE "high")]

\* The fallbacks are models.
Named == \A f \in Fallbacks : \A i \in DOMAIN f : f[i] \in Names

Params(name, given) == Over(given, FromName[name].defaults)

\* Gemini 2.5 Pro cannot be told not to think.
Accepts(name, given) == ~(name = "gemini25pro" /\ Get(given, "thinking_budget", -1) = 0)

(***************************************************************************)
(* What each API is sent for the parameters                                *)
(***************************************************************************)
ConvertOpenAI(params) ==
    [temperature |-> Get(params, "temperature", None), top_p |-> Get(params, "top_p", None),
     max_tokens |-> Get(params, "max_tokens", None), max_retries |-> 0]

ConvertGoogle(params) ==
    [temperature |-> Get(params, "temperature", None), top_p |-> Get(params, "top_p", None),
     max_output_tokens |-> Get(params, "max_tokens", None)]

\* mutant: the temperature is sent whatever the effort
ConvertEffort_AnyEffort(params) ==
    Over([max_retries |-> 0, temperature |-> Get(params, "temperature", 1)],
         Only(params, {"reasoning_effort", "max_tokens"}))
ConvertEffort(params) ==
    Over(IF Get(params, "reasoning_effort", Unset) = "none"
         THEN [max_retries |-> 0, temperature |-> Get(params, "temperature", 1)]
         ELSE [max_retries |-> 0],
         Only(params, {"reasoning_effort", "max_tokens"}))

OutputTokens(params) ==
    IF "max_tokens" \in DOMAIN params
    THEN One("max_output_tokens", params["max_tokens"]) ELSE << >>

ConvertBudget(params) ==
    Over(Only(params, {"thinking_budget", "temperature", "top_p"}), OutputTokens(params))

ConvertLevel(params) ==
    Over([temperature |-> 1],
         Over(Only(params, {"thinking_level", "top_p"}), OutputTokens(params)))

ToApiParams(model) ==
    CASE model.converter = "openai"           -> ConvertOpenAI(model.params)
      [] model.converter = "google"           -> ConvertGoogle(model.params)
      [] model.converter = "effort"           -> ConvertEffort(model.params)
      [] model.converter \in {"flash", "pro"} -> ConvertBudget(model.params)
      [] model.converter = "level"            -> ConvertLevel(model.params)

(***************************************************************************)
(* Endpoints                                                               *)
(***************************************************************************)
\* The seconds of each timeout: to connect, to read and to write.
Seconds ==
    [micro  |-> <<2, 2, 2>>,    tiny  |-> <<3, 5, 3>>,       short |-> <<15, 10, 5>>,
     medium |-> <<15, 30, 15>>, extra |-> <<30, 60, 30>>, reasoning |-> <<30, 300, 30>>]
TotalSeconds(timeout) == Seconds[timeout][1] + Seconds[timeout][2] + Seconds[timeout][3]
Read(timeout) == Seconds[timeout][2]

TimeoutFor(reasoning, given) ==
    IF reasoning /\ (given = Unset \/ Read(given) < Read("reasoning")) THEN "reasoning"
    ELSE IF given = Unset THEN "short" ELSE given

ModelOf(name, given) ==
    [family |-> FromName[name].family, reasoning |-> FromName[name].reasoning,
     converter |-> FromName[name].converter, params |-> Params(name, given)]

Racing(fallbacks) == [on |-> TRUE, fallbacks |-> fallbacks]
NotRacing         == [on |-> FALSE, fallbacks |-> << >>]

Init == stage = "new" /\ endpoint = << >> /\ asked = << >> /\ request = << >>

DefineLLMEndpoint(name, given, timeout, racing) ==
    /\ stage = "new" /\ stage' = "defined"
    /\ Accepts(name, given)
    /\ endpoint' = [model |-> ModelOf(name, given), racing |-> racing, attempts |-> 5,
                    timeout |-> TimeoutFor(FromName[name].reasoning, timeout), keys |-> "none"]
    /\ asked' = [racing |-> racing]
    /\ UNCHANGED request

\* Every method makes an endpoint that differs in its own setting.
Set(setting, value) ==
    /\ stage = "defined"
    /\ endpoint' = [endpoint EXCEPT ![setting] = value]
    /\ asked' = Over(One(setting, value), asked)
    /\ UNCHANGED <<stage, request>>

Timeout(t)             == Set("timeout", t)
WithModel(name, given) == Accepts(name, given) /\ Set("model", ModelOf(name, given))
RetrySettings(n)       == Set("attempts", n)
WithAPIKeyMapper(k)    == Set("keys", k)
RacingRetrySettings(f) == Set("racing", Racing(f))

(***************************************************************************)
(* Requests                                                                *)
(***************************************************************************)
AzureParams(params) ==
    IF Get(params, "temperature", None) \notin {None, 1}
    THEN [params EXCEPT !["temperature"] = None] ELSE params

\* Azure stands in for OpenAI when the environment names it.
CreateChatModel(model, timeout, azure, structured) ==
    IF model.family = "openai"
    THEN [api |-> IF azure THEN "azure" ELSE "openai",
          params |-> IF azure THEN AzureParams(ToApiParams(model)) ELSE ToApiParams(model),
          json |-> structured, seconds |-> Read(timeout)]
    ELSE [api |-> "google", params |-> ToApiParams(model), json |-> structured,
          seconds |-> TotalSeconds(timeout)]

Execute(azure, structured) ==
    /\ stage = "defined" /\ stage' = "executed"
    /\ request' =
           [main      |-> CreateChatModel(endpoint.model, endpoint.timeout, azure, structured),
            fallbacks |-> [i \in DOMAIN endpoint.racing.fallbacks |->
                CreateChatModel(ModelOf(endpoint.racing.fallbacks[i], << >>),
                                endpoint.timeout, azure, structured)],
            races     |-> endpoint.racing.on,
            soft      |-> TotalSeconds(endpoint.timeout),
            attempts  |-> endpoint.attempts]
    /\ UNCHANGED <<endpoint, asked>>

SomeRacing == {NotRacing} \cup {Racing(f) : f \in Fallbacks}

Next ==
    \/ \E name \in Names, given \in Given, timeout \in {Unset} \cup DOMAIN Seconds,
          racing \in SomeRacing : DefineLLMEndpoint(name, given, timeout, racing)
    \/ \E t \in {"tiny", "medium"} : Timeout(t)
    \/ \E name \in {"gpt4o", "gpt5mini-minimal", "gemini3pro"}, given \in Given :
           WithModel(name, given)
    \/ RetrySettings(3) \/ WithAPIKeyMapper("by family")
    \/ \E f \in Fallbacks : RacingRetrySettings(f)
    \/ \E azure, structured \in BOOLEAN : Execute(azure, structured)

Spec == Init /\ [][Next]_vars

(***************************************************************************)
(* What a request promises                                                 *)
(***************************************************************************)
Requests == {request.main} \cup {request.fallbacks[i] : i \in DOMAIN request.fallbacks}

\* A request carries nothing its API refuses (params.py): OpenAI takes no
\* temperature while it reasons and Azure none but its own, Gemini 3 always has
\* 1, thinking is told by a budget or by a level, never by both; and OpenAI's
\* client does not retry on its own within the attempts of the endpoint.
Fits(r) ==
    LET temperature == Get(r.params, "temperature", None) IN
    /\ r.api # "google" =>
           /\ Get(r.params, "reasoning_effort", "none") # "none" => temperature = None
           /\ r.api = "azure" => temperature \in {None, 1}
           /\ r.params["max_retries"] = 0
    /\ "thinking_level" \in DOMAIN r.params =>
           temperature = 1 /\ "thinking_budget" \notin DOMAIN r.params

\* An endpoint keeps what its caller asked for, in whatever order the methods
\* that make endpoints are called; a model that reasons has the time to, unless
\* the caller then sets another timeout or another model.
Keeps ==
    /\ \A s \in DOMAIN asked : endpoint[s] = asked[s]
    /\ endpoint.model.reasoning /\ DOMAIN asked \cap {"timeout", "model"} = {} =>
           Read(endpoint.timeout) >= Read("reasoning")

EndpointsSound ==
    /\ stage # "new" => Keeps
    /\ stage = "executed" => \A r \in Requests : Fits(r)
===============================================================================
