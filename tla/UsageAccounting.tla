--------------------------- MODULE UsageAccounting ----------------------------
(***************************************************************************)
(* From what a provider reports to what a call is charged: how an adapter  *)
(* normalizes the usage of a response, what the token meters and the cost  *)
(* meters make of it, when a call is charged what was estimated before it  *)
(* instead, and what is noted of the limits of the model's profile.        *)
(*                                                                         *)
(* Providers report five amounts under names of their own: some as parts   *)
(* of a total, some beside it.  The amounts are the fields of a report.    *)
(***************************************************************************)
EXTENDS Integers, Sequences, SequencesExt, FiniteSetsExt

CONSTANTS
  Providers,  \* of "responses", "chat", "anthropic", "bedrock", "codex", "direct"
  Amounts,    \* what may be reported: numbers, and -1 for what is no count
  Estimates,  \* what the estimator may say of the input
  Reserved,   \* reserved_output
  Requested,  \* max_tokens of the request
  Prices,     \* of each category
  Enforce,    \* enforce_profile_limits
  Profile     \* the model's limits: of its context and of its output

Fields == {"input", "read", "write", "output", "reason"}
Categories == {"input_tokens", "cache_read_tokens", "cache_write_tokens", "output_tokens", "reasoning_tokens"}

VARIABLES
  at,        \* "idle", "refused", "dispatched", "answered", "settled"
  estimates, \* what the estimating meters said
  provider,
  usage,     \* result["usage"], or NoUsage
  reported,  \* result["provider_usage"], or NoUsage
  charges,   \* what is charged by each meter
  limits     \* what the gauge notes of the profile's limits when it settles
vars == <<at, estimates, provider, usage, reported, charges, limits>>

NoUsage == <<>>  \* none, or an empty one
Estimating == {"tokens", "gauge", "usd"}
Meters == Estimating \cup {"list"}  \* CostMeter, which estimates nothing

Init ==
  /\ at = "idle" /\ provider = "none" /\ usage = NoUsage /\ reported = NoUsage
  /\ estimates = [m \in Meters |-> 0] /\ charges = [m \in Meters |-> 0]
  /\ limits = "none"

-----------------------------------------------------------------------------
(* External: under which name a provider reports what.                     *)
KeyOf(p, f) ==
  CASE p = "responses" ->
         [input |-> "input_tokens", read |-> "details.cached_tokens",
          write |-> "details.cache_write_tokens", output |-> "output_tokens",
          reason |-> "details.reasoning_tokens"][f]
    [] p = "chat" ->
         [input |-> "prompt_tokens", read |-> "details.cached_tokens",
          write |-> "details.cache_write_tokens", output |-> "completion_tokens",
          reason |-> "details.reasoning_tokens"][f]
    [] p = "anthropic" ->
         [input |-> "input_tokens", read |-> "cache_read_input_tokens",
          write |-> "cache_creation_input_tokens", output |-> "output_tokens",
          reason |-> "none"][f]
    [] p = "bedrock" ->
         [input |-> "inputTokens", read |-> "cacheReadInputTokens",
          write |-> "cacheWriteInputTokens", output |-> "outputTokens",
          reason |-> "none"][f]
    [] p = "codex" ->
         [input |-> "input_tokens", read |-> "cached_input_tokens",
          write |-> "cache_write_input_tokens", output |-> "output_tokens",
          reason |-> "reasoning_output_tokens"][f]
    [] p = "direct" ->
         [input |-> "input_tokens", read |-> "cached_input_tokens",
          write |-> "cache_write_tokens", output |-> "output_tokens",
          reason |-> "reasoning_tokens"][f]

Report(p, amounts) ==
  LET told == {f \in DOMAIN amounts : KeyOf(p, f) # "none"}
      names == {KeyOf(p, f) : f \in told}
  IN [k \in names |-> amounts[CHOOSE f \in told : KeyOf(p, f) = k]]

(* _int_usage, int_field: the first of the names that has a count, or 0.   *)
Valid(u, key) == key \in DOMAIN u /\ u[key] >= 0
HasInt(u, keys) == \E i \in DOMAIN keys : Valid(u, keys[i])
IntUsage(u, keys) == IF HasInt(u, keys) THEN u[SelectSeq(keys, LAMBDA k : Valid(u, k))[1]] ELSE 0

-----------------------------------------------------------------------------
(* openai_usage, anthropic_usage, bedrock_usage, and _EventParser.finish.  *)
OpenAIUsage(u) ==
  [input_tokens |-> IntUsage(u, <<"input_tokens", "prompt_tokens">>),
   output_tokens |-> IntUsage(u, <<"output_tokens", "completion_tokens">>)]
AnthropicUsage(u) ==
  [input_tokens |-> IntUsage(u, <<"input_tokens">>)
     + IntUsage(u, <<"cache_creation_input_tokens">>) + IntUsage(u, <<"cache_read_input_tokens">>),
   output_tokens |-> IntUsage(u, <<"output_tokens">>)]
BedrockUsage(u) ==
  [input_tokens |-> IntUsage(u, <<"inputTokens">>)
     + IntUsage(u, <<"cacheReadInputTokens">>) + IntUsage(u, <<"cacheWriteInputTokens">>),
   output_tokens |-> IntUsage(u, <<"outputTokens">>)]
CodexUsage(u) ==
  [input_tokens |-> IntUsage(u, <<"input_tokens">>),
   output_tokens |-> IntUsage(u, <<"output_tokens">>)]

(* set_normalized_usage: nothing unless every required field has a count   *)
(* and the optional ones that are there are counts.                        *)
Required(p) ==
  IF p = "bedrock" THEN {<<"inputTokens">>, <<"outputTokens">>}
  ELSE IF p \in {"responses", "chat"}
    THEN {<<"input_tokens", "prompt_tokens">>, <<"output_tokens", "completion_tokens">>}
  ELSE {<<"input_tokens">>, <<"output_tokens">>}
Optional(p) ==
  CASE p = "anthropic" -> {"cache_creation_input_tokens", "cache_read_input_tokens"}
    [] p = "bedrock" -> {"cacheReadInputTokens", "cacheWriteInputTokens"}
    [] p = "codex" -> {"cached_input_tokens", "cache_write_input_tokens", "reasoning_output_tokens"}
    [] OTHER -> {}
Acceptable(p, u) ==
  /\ \A keys \in Required(p) : HasInt(u, keys)
  /\ \A k \in Optional(p) \cap DOMAIN u : Valid(u, k)

Normalized(p, u) ==
  IF ~Acceptable(p, u) THEN NoUsage
  ELSE CASE p \in {"responses", "chat"} -> OpenAIUsage(u)
         [] p = "anthropic" -> AnthropicUsage(u)
         [] p = "bedrock" -> BedrockUsage(u)
         [] p = "codex" -> CodexUsage(u)

-----------------------------------------------------------------------------
(* _has_compatible_usage, and TokenMeter.charge.                           *)
Compatible == usage # NoUsage /\ Valid(usage, "input_tokens") /\ Valid(usage, "output_tokens")
TokenCharge == IF Compatible THEN usage["input_tokens"] + usage["output_tokens"] ELSE 0

(* _exclusive_turn_payload, for which the caches are apart or within.      *)
SeparateKeys == {"cache_read_tokens", "cache_read_input_tokens", "cacheReadInputTokens",
                 "cache_write_tokens", "cache_creation_input_tokens",
                 "cache_write_input_tokens", "cacheWriteInputTokens"}
UsesSeparateCacheFields(u) == DOMAIN u \cap SeparateKeys # {}

Separate(u) ==
  [input_tokens |-> IntUsage(u, <<"input_tokens", "inputTokens", "prompt_tokens">>),
   cache_read_tokens |-> IntUsage(u, <<"cache_read_tokens", "cache_read_input_tokens", "cacheReadInputTokens">>),
   cache_write_tokens |-> IntUsage(u, <<"cache_write_tokens", "cache_creation_input_tokens",
                                        "cache_write_input_tokens", "cacheWriteInputTokens">>),
   output_tokens |-> IntUsage(u, <<"output_tokens", "outputTokens", "completion_tokens">>),
   reasoning_tokens |-> IntUsage(u, <<"reasoning_tokens">>)]

(* What raw does not count is taken from the normalized usage.             *)
TotalOf(raw, keys) == IF HasInt(raw, keys) THEN IntUsage(raw, keys) ELSE IntUsage(usage, keys)
Least(a, b) == IF a <= b THEN a ELSE b

(* value or other: 0 counts as nothing.                                    *)
Detail(raw, inner, outer) ==
  LET d == IntUsage(raw, inner) IN IF d # 0 THEN d ELSE IntUsage(raw, outer)
Written(total, read, write) == Least(total - read, write)

Inclusive(raw) ==
  LET input == TotalOf(raw, <<"input_tokens", "prompt_tokens">>)
      output == TotalOf(raw, <<"output_tokens", "completion_tokens">>)
      read == Least(input, Detail(raw, <<"details.cached_tokens">>, <<"cached_input_tokens">>))
      write == Written(input, read, Detail(raw, <<"details.cache_write_tokens">>, <<"cache_write_tokens">>))
      reason == Least(output, Detail(raw, <<"details.reasoning_tokens">>, <<"reasoning_tokens">>))
  IN [input_tokens |-> input - read - write, cache_read_tokens |-> read,
      cache_write_tokens |-> write, output_tokens |-> output - reason,
      reasoning_tokens |-> reason]

(* _canonical_turn_payload: what a step function itself reported.          *)
Canonical(u) ==
  [input_tokens |-> IntUsage(u, <<"input_tokens", "prompt_tokens">>),
   cache_read_tokens |-> IntUsage(u, <<"cache_read_tokens", "cached_input_tokens", "cache_read_input_tokens">>),
   cache_write_tokens |-> IntUsage(u, <<"cache_write_tokens", "cache_creation_input_tokens", "cache_write_input_tokens">>),
   output_tokens |-> IntUsage(u, <<"output_tokens", "completion_tokens">>),
   reasoning_tokens |-> IntUsage(u, <<"reasoning_tokens">>)]

Exclusive(raw) == IF UsesSeparateCacheFields(raw) THEN Separate(raw) ELSE Inclusive(raw)

Turn == IF reported = NoUsage THEN Canonical(usage) ELSE Exclusive(reported)
ContextTotal(turn) == turn["input_tokens"] + turn["cache_read_tokens"]
  + turn["cache_write_tokens"] + turn["output_tokens"] + turn["reasoning_tokens"]
Priced(turn) == FoldSet(LAMBDA c, a : a + turn[c] * Prices[c], 0, Categories)

GaugeCharge == IF usage = NoUsage THEN 0 ELSE ContextTotal(Turn)
(* CostMeter: its list has one price for input and one for output, and an  *)
(* amount that is missing is none.                                         *)
ListCharge ==
  LET told(k) == IF k \in DOMAIN usage THEN usage[k] ELSE 0
      valid == told("input_tokens") >= 0 /\ told("output_tokens") >= 0
  IN IF usage = NoUsage \/ ~valid THEN 0
     ELSE told("input_tokens") * Prices["input_tokens"] + told("output_tokens") * Prices["output_tokens"]

CostCharge(found) == IF usage = NoUsage \/ ~found THEN 0 ELSE Priced(Turn)

-----------------------------------------------------------------------------
(* External, check_request_limits: the output counts as what is asked for  *)
(* or reserved, whichever is more.                                         *)
Larger(a, b) == IF a >= b THEN a ELSE b
ContextOutput == Larger(Reserved, Requested)
WithinProfile(input, output) ==
  /\ input <= Profile.context - Profile.output /\ output <= Profile.output
  /\ input + Larger(Reserved, output) <= Profile.context

(* precheck_estimate of the meters, by the same estimator.                 *)
HighestInput == Max({Prices[c] : c \in {"input_tokens", "cache_read_tokens", "cache_write_tokens"}})
TokenEstimate(e) == e + Reserved
GaugeEstimate(e) == e + (IF Enforce THEN ContextOutput ELSE Reserved)
CostEstimate(e) == e * HighestInput + ContextOutput * Prices["output_tokens"]

Precheck ==
  /\ at = "idle"
  /\ \E e \in Estimates :
       /\ Enforce => WithinProfile(e, Requested)
       /\ estimates' = [tokens |-> TokenEstimate(e), gauge |-> GaugeEstimate(e), usd |-> CostEstimate(e),
                        list |-> 0]
  /\ at' = "dispatched"
  /\ UNCHANGED <<provider, usage, reported, charges, limits>>

(* No estimate of the input, no model, no profile, no price in USD, or     *)
(* more than the profile allows.                                           *)
Refuse ==
  /\ at = "idle" /\ at' = "refused"
  /\ UNCHANGED <<estimates, provider, usage, reported, charges, limits>>

Reports == UNION {[s -> Amounts] : s \in SUBSET Fields}
Answer ==
  /\ at = "dispatched" /\ at' = "answered"
  /\ \E p \in Providers, amounts \in Reports :
       LET u == Report(p, amounts) IN
         /\ provider' = p
         /\ IF p = "direct" THEN usage' = u /\ reported' = NoUsage
            ELSE usage' = Normalized(p, u) /\ reported' = u
  /\ UNCHANGED <<estimates, charges, limits>>

(* A response without usage at all.                                        *)
AnswerWithout ==
  /\ at = "dispatched" /\ \E p \in Providers : provider' = p
  /\ usage' = NoUsage /\ reported' = NoUsage
  /\ at' = "answered" /\ UNCHANGED <<estimates, charges, limits>>

(* _charges: the estimate stands if there is no usage to go by, or the     *)
(* meter could not price it (precheck_fallback_reason).                    *)
Fallback(m, found) == ~Compatible \/ (m = "usd" /\ ~found)

Charge(m, found) ==
  LET amount == CASE m = "tokens" -> TokenCharge
                  [] m = "gauge" -> GaugeCharge
                  [] m = "usd" -> CostCharge(found)
                  [] m = "list" -> ListCharge
  IN IF amount = 0 /\ Fallback(m, found) THEN estimates[m] ELSE amount

(* _settlement_limits: what was used is held against the profile, and      *)
(* only noted: the call is over.                                           *)
InputOf(turn) == turn["input_tokens"] + turn["cache_read_tokens"] + turn["cache_write_tokens"]
OutputOf(turn) == turn["output_tokens"] + turn["reasoning_tokens"]
SettlementLimits(profiled) ==
  IF ~Enforce \/ usage = NoUsage THEN "none"
  ELSE IF ~profiled THEN "unavailable"
  ELSE IF WithinProfile(InputOf(Turn), OutputOf(Turn)) THEN "within" ELSE "beyond"

(* Price and profile may not be found any more when the call is settled.   *)
Settle ==
  /\ at = "answered" /\ at' = "settled"
  /\ \E found, profiled \in BOOLEAN :
       /\ charges' = [m \in Meters |-> Charge(m, found)]
       /\ limits' = SettlementLimits(profiled)
  /\ UNCHANGED <<estimates, provider, usage, reported>>

Next == Precheck \/ Refuse \/ Answer \/ AnswerWithout \/ Settle

Spec == Init /\ [][Next]_vars

-----------------------------------------------------------------------------
(* The reference: the parts of what a provider reports, each token once.   *)
(* A part cannot be more than the whole that it is a part of.              *)
Of(f) == LET k == KeyOf(provider, f) IN IF k \in DOMAIN reported /\ reported[k] > 0 THEN reported[k] ELSE 0
PartsOfInput == provider \in {"responses", "chat", "codex"}
Truth ==
  LET read == IF PartsOfInput THEN Least(Of("input"), Of("read")) ELSE Of("read")
      write == IF PartsOfInput THEN Least(Of("input") - read, Of("write")) ELSE Of("write")
      reason == Least(Of("output"), Of("reason"))
  IN [input_tokens |-> IF PartsOfInput THEN Of("input") - read - write ELSE Of("input"),
      cache_read_tokens |-> read, cache_write_tokens |-> write,
      output_tokens |-> Of("output") - reason, reasoning_tokens |-> reason]

Adapted == at \in {"answered", "settled"} /\ provider # "direct"

(* An adapter's usage and Tokenmaster's categories count the same tokens,  *)
(* each once and under what it is, wherever a provider puts its caches     *)
(* ("It avoids double counting an inclusive aggregate", api-reference.md); *)
(* but Codex: its write count is inside a total that is taken for without. *)
EachTokenOnce ==
  (Adapted /\ usage # NoUsage /\ provider # "codex") =>
    Turn = Truth /\ ContextTotal(Turn) = TokenCharge

ListPrice(turn) ==
  InputOf(turn) * Prices["input_tokens"] + OutputOf(turn) * Prices["output_tokens"]

(* A settled call is charged what its valid usage says or, without one or  *)
(* without a price, what was estimated before it: no call is charged for   *)
(* part of what it used, and the meters agree which of the two it is.      *)
TrueOrEstimated ==
  (at = "settled" /\ provider \notin {"direct", "codex"}) =>
    LET counted == reported # NoUsage /\ Acceptable(provider, reported) IN
      /\ \A m \in {"tokens", "gauge"} :
           charges[m] = (IF counted THEN ContextTotal(Truth) ELSE estimates[m])
      /\ charges["list"] = (IF counted THEN ListPrice(Truth) ELSE 0)
      /\ charges["usd"] \in (IF counted THEN {Priced(Truth), estimates["usd"]} ELSE {estimates["usd"]})

(* What the gauge notes of the limits is so of what the provider reports,  *)
(* caches and reasoning included ("If settled usage crosses a profile      *)
(* limit, Pollard records diagnostics on the completed node", README.md).  *)
InputReported == IF PartsOfInput THEN Of("input") ELSE Of("input") + Of("read") + Of("write")
LimitsTrue ==
  (limits \in {"within", "beyond"} /\ provider \notin {"direct", "codex"}) =>
    ((limits = "within") <=> WithinProfile(InputReported, Of("output")))

(* A call that uses no more input than estimated, and no more output than  *)
(* it asked for or was reserved, costs no more than was held for it,       *)
(* whatever of its input was written to a cache or read from one           *)
(* ("tokenmaster's conservative request quote", TokenmasterCostMeter).     *)
EstimatesCover ==
  ( /\ at = "settled" /\ Adapted /\ usage # NoUsage /\ provider # "codex" /\ Enforce
    /\ InputReported <= estimates["gauge"] - ContextOutput /\ Of("output") <= ContextOutput ) =>
    \A m \in {"gauge", "usd"} : charges[m] <= estimates[m]

(* With prices of which none is 0 an answered call that used something is  *)
(* never free, but for a meter that estimates nothing.                     *)
NeverFree ==
  (at = "settled" /\ reported # NoUsage /\ Of("input") > 0) =>
    \A m \in Estimating : charges[m] > 0
=============================================================================
