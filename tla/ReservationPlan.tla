-------------------------- MODULE ReservationPlan ---------------------------
(***************************************************************************)
(* How much one request reserves, and at what price: the pricing table as  *)
(* it is loaded, the model patterns, the request's metadata, the input     *)
(* estimate, the token plan, the budget plan, and the cost of the usage    *)
(* the upstream reports (packages accounting and modelmatch,               *)
(* protocol/openai/request.go and body.go, ServeHTTP's preflight).         *)
(*                                                                         *)
(* A model name is a sequence of letters.  A pattern is a sequence of      *)
(* tokens [kind, letters]; a class holds the letters it stands for.        *)
(* Absent counts and amounts are Absent.                                   *)
(***************************************************************************)
EXTENDS Integers, Sequences, FiniteSets, SequencesExt

CONSTANTS
    PricingTables,      \* the rule sequences a configuration may hold
    KeyPolicies,        \* [denied, allowed, estimate, tokens, budget]
    ModelRequests,      \* the requests that may arrive
    TokenCounts,        \* the counts an upstream may report
    FallbackInput, FallbackOutput,      \* configured fallbacks
    MessageFrameTokens, ToolFrameTokens,
    MaxTokenCount,      \* math.MaxInt64
    MaxMoney,           \* MaxMoneyMicros
    RateScale           \* MicrosPerUSD: a rate is per RateScale tokens

ASSUME PlanAssumption ==
    /\ {FallbackInput, FallbackOutput} \subseteq 1..MaxTokenCount
    /\ FallbackInput + FallbackOutput <= MaxTokenCount
    /\ {MaxMoney, RateScale, MaxTokenCount} \subseteq Nat \ {0}
    /\ {MessageFrameTokens, ToolFrameTokens} \subseteq Nat
    /\ TokenCounts \subseteq 0..MaxTokenCount
    /\ \A rules \in PricingTables : DOMAIN rules = 1..Len(rules) /\ Len(rules) \in Nat
    /\ \A incoming \in ModelRequests :
          /\ \A name \in DOMAIN incoming.limits : incoming.limits[name] \in Int
          /\ IsFiniteSet(DOMAIN incoming.items)
          /\ \A i \in DOMAIN incoming.items :
                LET item == incoming.items[i] IN
                /\ item.field \in {"messages", "input", "instructions", "tools"}
                /\ IsFiniteSet(DOMAIN item.parts)
                /\ \A j \in DOMAIN item.parts : item.parts[j] \in Nat \cup {-1}

VARIABLES
    planStep,   \* where the request is
    table,      \* the compiled rules, in declaration order
    keyPolicy,
    request,
    metadata,   \* {} or the set holding the parsed metadata
    tokenPlan,  \* [input, output], Absent where there is no plan
    budgetPlan, \* the amount reserved, or Absent
    pricing,    \* {} or the set holding the selected rule
    cost,       \* what the reported usage costs, or Absent
    reported    \* the usage the upstream reported

planVars == <<planStep, table, keyPolicy, request, metadata, tokenPlan, budgetPlan, pricing,
              cost, reported>>

Absent == -1

-----------------------------------------------------------------------------
(* modelmatch *)

Token(kind, letters) == [kind |-> kind, letters |-> letters]

Compilable(source) == source # <<>> /\ \A i \in DOMAIN source : source[i].kind # "invalid"

\* Adjacent stars become one.
Compile(source) ==
    FoldLeft(LAMBDA tokens, token :
                 IF token.kind = "star" /\ tokens # <<>> /\ Last(tokens).kind = "star"
                 THEN tokens ELSE Append(tokens, token),
             <<>>, source)

IsExact(pattern) == \A i \in DOMAIN pattern : pattern[i].kind = "literal"

\* No wildcard crosses a slash.
TokenMatchesLetter(token, letter) ==
    CASE token.kind = "literal" -> letter \in token.letters
      [] token.kind = "question" -> letter # "/"
      [] token.kind = "class" -> letter # "/" /\ letter \in token.letters
      [] token.kind = "negated" -> letter # "/" /\ letter \notin token.letters

\* One row of the table: the ends of the prefixes that match one token more.
Advance(ends, token, name) ==
    IF token.kind = "star"
    THEN {j \in 0..Len(name) : \E i \in ends : i <= j /\ \A k \in (i + 1)..j : name[k] # "/"}
    ELSE {i + 1 : i \in {i \in ends : i < Len(name) /\ TokenMatchesLetter(token, name[i + 1])}}

PatternMatches(pattern, name) ==
    Len(name) \in FoldLeft(LAMBDA ends, token : Advance(ends, token, name), {0}, pattern)

-----------------------------------------------------------------------------
(* The pricing table *)

Selector(rules, i) == Compile(rules[i].model)

RateValid(rate) == rate \in 0..MaxMoney
RuleValid(rule) == Compilable(rule.model) /\ RateValid(rule.inputRate) /\ RateValid(rule.outputRate)
SelectorsDiffer(rules) ==
    \A i, j \in DOMAIN rules : i # j => Selector(rules, i) # Selector(rules, j)

\* UnmarshalYAML and Validate: every rule parses and no selector is repeated.
TableValid(rules) == (\A i \in DOMAIN rules : RuleValid(rules[i])) /\ SelectorsDiffer(rules)

CompiledTable(rules) ==
    [i \in DOMAIN rules |-> [pattern |-> Selector(rules, i), inputRate |-> rules[i].inputRate,
                             outputRate |-> rules[i].outputRate]]

ExactRules(name) == {i \in DOMAIN table : IsExact(table[i].pattern) /\ PatternMatches(table[i].pattern, name)}
GlobRules(name) == {i \in DOMAIN table : ~IsExact(table[i].pattern) /\ PatternMatches(table[i].pattern, name)}

First(positions) == CHOOSE i \in positions : \A j \in positions : i <= j
Latest(positions) == CHOOSE i \in positions : \A j \in positions : j <= i

\* Mutant of Resolve: the first declared rule that matches, of either kind.
ResolveInOrder(name) ==
    LET matching == ExactRules(name) \cup GlobRules(name)
    IN  IF name = <<>> \/ matching = {} THEN {} ELSE {table[First(matching)]}

\* An exact rule (the index keeps the last one inserted), else the first
\* declared glob.
Resolve(name) ==
    IF name = <<>> THEN {}
    ELSE IF ExactRules(name) # {} THEN {table[Latest(ExactRules(name))]}
    ELSE IF GlobRules(name) # {} THEN {table[First(GlobRules(name))]}
    ELSE {}

-----------------------------------------------------------------------------
(* What is read from the request *)

EligibleTokenRequest == request.path \in {"chat", "responses"} /\ request.json

Restricts(policy) ==
    policy.denied # {} \/ policy.allowed # {} \/ policy.tokens \/ policy.budget

ShouldInspect == EligibleTokenRequest /\ (request.sized \/ Restricts(keyPolicy))

\* The whole body fits the inspection limit and its known fields decode.
Inspected == ShouldInspect /\ request.fits
ParseRequestMetadata ==
    IF Inspected /\ request.valid THEN {[model |-> request.model, limits |-> request.limits]} ELSE {}

AllowsModel(policy, name) ==
    /\ ~\E p \in policy.denied : PatternMatches(Compile(p), name)
    /\ policy.allowed # {} => \E p \in policy.allowed : PatternMatches(Compile(p), name)

\* One token per byte of text; Absent for a part that is not text.
EstimateContent(parts) ==
    IF \E i \in DOMAIN parts : parts[i] = Absent THEN Absent ELSE SumFunction(parts)

Framed(frame, estimate) == IF estimate = Absent THEN Absent ELSE frame + estimate

EstimateMessage(item) == Framed(MessageFrameTokens, EstimateContent(item.parts))

EstimateInputItem(item) ==
    IF item.kind = "message" THEN EstimateMessage(item)
    ELSE IF item.kind = "text" THEN EstimateContent(item.parts) ELSE Absent

EstimateTool(item) ==
    IF item.kind = "function" THEN Framed(ToolFrameTokens, EstimateContent(item.parts)) ELSE Absent

EstimateItem(item) ==
    CASE item.field = "messages" -> EstimateMessage(item)
      [] item.field = "input" -> EstimateInputItem(item)
      [] item.field = "instructions" -> EstimateContent(item.parts)
      [] item.field = "tools" -> EstimateTool(item)

\* EstimateInputTokens: anything unsupported or malformed leaves it unknown.
EstimateInputTokens(items) ==
    LET estimates == [i \in DOMAIN items |-> EstimateItem(items[i])]
    IN  IF \E i \in DOMAIN items : estimates[i] = Absent THEN Absent
        ELSE IF SumFunction(estimates) > MaxTokenCount THEN Absent ELSE SumFunction(estimates)

-----------------------------------------------------------------------------
(* The token plan *)

\* The limits that apply to the output, most specific first.
OutputLimits(responses) ==
    IF responses THEN <<"max_output_tokens", "max_completion_tokens", "max_tokens">>
    ELSE <<"max_completion_tokens", "max_tokens">>

NoPlan == [input |-> Absent, output |-> Absent]

\* PlanReservation: NoPlan when a limit is negative or the sum is unusable.
PlanReservation(estimate, limits, responses) ==
    LET names == OutputLimits(responses)
        given == {i \in DOMAIN names : names[i] \in DOMAIN limits}
        usable == {i \in given : limits[names[i]] # 0}
        input == IF keyPolicy.estimate /\ estimate # Absent THEN estimate ELSE FallbackInput
        output == IF usable = {} THEN FallbackOutput ELSE limits[names[First(usable)]]
    IN  IF \/ \E i \in given : limits[names[i]] < 0
           \/ input + output > MaxTokenCount \/ input + output <= 0
        THEN NoPlan ELSE [input |-> input, output |-> output]

\* ServeHTTP's tokenPlan: an unusable request reserves the fallbacks.
MakeTokenPlan ==
    LET responses == request.path = "responses"
        known == metadata # {} /\ EligibleTokenRequest /\ keyPolicy.estimate
        limits == IF metadata = {} THEN <<>> ELSE (CHOOSE m \in metadata : TRUE).limits
        plan == PlanReservation(IF known THEN EstimateInputTokens(request.items) ELSE Absent,
                                limits, responses)
    IN  IF request.path = "models" THEN NoPlan
        ELSE IF plan = NoPlan THEN PlanReservation(Absent, <<>>, responses) ELSE plan

-----------------------------------------------------------------------------
(* Money *)

\* The exact price, rounded up once; Absent when it does not fit.
TokenCost(input, output, rule) ==
    LET numerator == input * rule.inputRate + output * rule.outputRate
    IN  IF numerator > MaxMoney * RateScale THEN Absent
        ELSE (numerator + RateScale - 1) \div RateScale

\* Mutant of CalculateReservationCost: the reservation is rounded down.
ReservationCostDown(plan, rule) ==
    (plan.input * rule.inputRate + plan.output * rule.outputRate) \div RateScale

CalculateReservationCost(plan, rule) == TokenCost(plan.input, plan.output, rule)

\* Total, cached and reasoning counts do not enter.
CalculateActualCost(usage) ==
    IF pricing = {} \/ Absent \in {usage.input, usage.output} THEN Absent
    ELSE TokenCost(usage.input, usage.output, CHOOSE rule \in pricing : TRUE)

\* PlanBudgetReservation: a price that is not known, or a zero price under a
\* positive rate, refuses the request.
BudgetAmount(plan, rules) ==
    IF rules = {} THEN Absent
    ELSE LET rule == CHOOSE rule \in rules : TRUE
             amount == CalculateReservationCost(plan, rule)
         IN  IF amount = 0 /\ (rule.inputRate # 0 \/ rule.outputRate # 0) THEN Absent ELSE amount

-----------------------------------------------------------------------------
(* The steps of one request *)

Unread == [path |-> "none", json |-> FALSE, sized |-> FALSE, fits |-> FALSE, valid |-> FALSE,
           model |-> <<>>, printable |-> TRUE, limits |-> <<>>, items |-> <<>>]

PlanInit ==
    /\ planStep = "load" /\ table = <<>>
    /\ keyPolicy = [denied |-> {}, allowed |-> {}, estimate |-> FALSE, tokens |-> FALSE,
                    budget |-> FALSE]
    /\ request = Unread /\ metadata = {} /\ tokenPlan = NoPlan /\ budgetPlan = Absent
    /\ pricing = {} /\ cost = Absent /\ reported = NoPlan

LoadPricing(rules) ==
    /\ planStep = "load"
    /\ \/ TableValid(rules) /\ planStep' = "arrive" /\ table' = CompiledTable(rules)
       \/ ~TableValid(rules) /\ planStep' = "not started" /\ UNCHANGED table
    /\ UNCHANGED <<keyPolicy, request, metadata, tokenPlan, budgetPlan, pricing, cost, reported>>

Arrive(policy, incoming) ==
    /\ planStep = "arrive"
    /\ keyPolicy' = policy /\ request' = incoming
    /\ planStep' = "inspect"
    /\ UNCHANGED <<table, metadata, tokenPlan, budgetPlan, pricing, cost, reported>>

\* The body is read, and the model checked when one was found: its text is
\* valid and bounded, and the policy allows it.
Inspect ==
    /\ planStep = "inspect"
    /\ metadata' = ParseRequestMetadata
    /\ planStep' = IF \E m \in ParseRequestMetadata :
                          /\ m.model # <<>>
                          /\ ~request.printable \/ ~AllowsModel(keyPolicy, m.model)
                   THEN "refused" ELSE "plan"
    /\ UNCHANGED <<table, keyPolicy, request, tokenPlan, budgetPlan, pricing, cost, reported>>

RulesOfModel == UNION {Resolve(m.model) : m \in metadata}

\* A budgeted key may only send requests that can be priced beforehand.
MakePlans ==
    LET budgeted == keyPolicy.budget /\ request.path # "models"
        amount == BudgetAmount(MakeTokenPlan, RulesOfModel)
    IN  /\ planStep = "plan"
        /\ IF budgeted /\ (metadata = {} \/ amount = Absent)
           THEN planStep' = "refused" /\ UNCHANGED <<tokenPlan, budgetPlan, pricing>>
           ELSE /\ planStep' = "admitted"
                /\ tokenPlan' = IF keyPolicy.tokens \/ budgeted THEN MakeTokenPlan ELSE NoPlan
                /\ budgetPlan' = IF budgeted THEN amount ELSE Absent
                /\ pricing' = RulesOfModel
        /\ UNCHANGED <<table, keyPolicy, request, metadata, cost, reported>>

\* The upstream answers; the counts it leaves out are Absent.
Report(input, output) ==
    /\ planStep = "admitted"
    /\ planStep' = "answered"
    /\ reported' = [input |-> input, output |-> output]
    /\ cost' = CalculateActualCost(reported')
    /\ UNCHANGED <<table, keyPolicy, request, metadata, tokenPlan, budgetPlan, pricing>>

PlanNext ==
    \/ \E rules \in PricingTables : LoadPricing(rules)
    \/ \E policy \in KeyPolicies, incoming \in ModelRequests : Arrive(policy, incoming)
    \/ Inspect \/ MakePlans
    \/ \E input, output \in TokenCounts \cup {Absent} : Report(input, output)

PlanSpec == PlanInit /\ [][PlanNext]_planVars

-----------------------------------------------------------------------------
(* What a plan must be *)

\* A matcher by backtracking: the rest of the pattern against the rest of the
\* name; a star takes nothing or one more letter that is not a slash.
Glob(pattern, name) ==
    LET rest[p \in 1..(Len(pattern) + 1), n \in 1..(Len(name) + 1)] ==
            IF p > Len(pattern) THEN n > Len(name)
            ELSE IF pattern[p].kind = "star"
                 THEN rest[p + 1, n] \/ (n <= Len(name) /\ name[n] # "/" /\ rest[p, n + 1])
                 ELSE /\ n <= Len(name)
                      /\ TokenMatchesLetter(pattern[p], name[n])
                      /\ rest[p + 1, n + 1]
    IN  rest[1, 1]

\* A rule applies to a model unless a better one does: one that names the model
\* exactly, or one of the same kind declared earlier.
BestRules(name) ==
    {table[i] : i \in {i \in DOMAIN table :
        /\ Glob(table[i].pattern, name)
        /\ \A j \in DOMAIN table \ {i} :
               Glob(table[j].pattern, name) =>
                   IF IsExact(table[i].pattern) = IsExact(table[j].pattern) THEN i < j
                   ELSE IsExact(table[i].pattern)}}

\* A model that was read is not denied and, if there is a list, is on it.
ModelPermitted ==
    \A m \in metadata :
        m.model # <<>> =>
            /\ \A p \in keyPolicy.denied : ~Glob(p, m.model)
            /\ keyPolicy.allowed = {} \/ \E p \in keyPolicy.allowed : Glob(p, m.model)

\* A key with windows or a budget reserves a positive number of tokens, and the
\* configured fallbacks when the request could not be read.
TokensReserved ==
    (keyPolicy.tokens \/ keyPolicy.budget) /\ request.path # "models" =>
        /\ tokenPlan.input >= 0 /\ tokenPlan.output > 0
        /\ tokenPlan.input + tokenPlan.output \in 1..MaxTokenCount
        /\ metadata = {} => tokenPlan = [input |-> FallbackInput, output |-> FallbackOutput]

\* A budgeted request holds enough for every usage within its token plan, and
\* such a usage can be priced.
MoneyReserved ==
    keyPolicy.budget /\ request.path # "models" =>
        /\ budgetPlan \in 0..MaxMoney
        /\ budgetPlan = 0 => \A rule \in pricing : rule.inputRate = 0 /\ rule.outputRate = 0
        /\ /\ planStep = "answered" /\ Absent \notin {reported.input, reported.output}
           /\ reported.input <= tokenPlan.input /\ reported.output <= tokenPlan.output
           => cost # Absent /\ cost <= budgetPlan

\* Its price is that of the one rule that applies.
PriceApplies ==
    keyPolicy.budget /\ request.path # "models" =>
        pricing = UNION {BestRules(m.model) : m \in metadata} /\ pricing # {}

Planned == planStep \in {"admitted", "answered"}

\* Every admitted request holds the tokens its plan needs, and money for any
\* usage within that plan (tokenPlan, PlanReservation, PlanBudgetReservation,
\* CalculateActualCost).
ReservationCovers == Planned => TokensReserved /\ MoneyReserved

\* An admitted request whose model could be read names one its key permits, and
\* a budgeted one is priced by the rule that applies to that model
\* (Pattern.Matches, AllowsModel, PricingResolver.Resolve).
ModelAndPrice == Planned => ModelPermitted /\ PriceApplies
=============================================================================
