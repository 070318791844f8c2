----------------------------- MODULE PolicyLoad -----------------------------
(***************************************************************************)
(* The validation of a policy document (js/src/policy/load.ts), and the    *)
(* policy that the engine makes of a document that passed: globs become    *)
(* the set of tool names they match, argument constraints the set of       *)
(* arguments they accept.  Numbers are integers, warn thresholds are in    *)
(* percent, and purposes are trimmed.                                      *)
(***************************************************************************)
EXTENDS Constraints, PolicyEngine

CONSTANTS
    ToolNames,      \* the names a tool may have, as sequences of characters
    Arguments       \* the arguments a call may have, as objects

PolicyKeys == {"version", "name", "default", "budget", "plan", "rules"}
PlanKeys == {"purpose", "approvedBy", "warnAt"}
RuleKeys == {"id", "description", "tools", "effect", "when", "limit"}
LimitKeys == {"max", "perSeconds"}
ListKeys == {"startsWith", "excludes", "urlHosts"}
ConstraintKeys ==
    StringKeys \cup NumberKeys \cup LengthKeys \cup {"optional", "oneOf", "noneOf", "type"}

DefaultWarnAt == {80, 95}

-----------------------------------------------------------------------------
IsString(v) == Tag(v) = "string"
IsText(v) == IsString(v) /\ v.string # <<>>
IsArray(v) == Tag(v) = "array"
IsList(v) == IsArray(v) /\ v.array # <<>>
IsEffect(v) == v \in {Word(effect) : effect \in Effects}

\* Every element of an array; a sparse index reads as undefined.
All(v, Ok(_)) == \A i \in DOMAIN v.array : Ok(v.array[i])

\* Mutant: fields nobody knows are passed over.
AnyFields(v, keys) == IsType(v, "object")

\* requireObject() and rejectUnknownKeys().
OnlyFields(v, keys) == IsType(v, "object") /\ DOMAIN Own(v) \subseteq keys

Optionally(v, key, Ok(_)) == Member(v, key) = Undefined \/ Ok(Member(v, key))

-----------------------------------------------------------------------------
\* quantifierAt(): * and + and the repetitions whose upper bound is above one.
Quantifiers == {"*", "+", "{2}", "{1,}"}

QuantifierAt(pattern, i) == i \in DOMAIN pattern /\ pattern[i] \in Quantifiers

\* Mutant: it is the outermost group that is marked.
MarkOutermost(groups) == IF groups = <<>> THEN groups ELSE [groups EXCEPT ![1] = TRUE]

\* The innermost open group has a quantifier in it.
Mark(groups) == IF groups = <<>> THEN groups ELSE [groups EXCEPT ![Len(groups)] = TRUE]

\* What the scan knows after one more token: the groups that are open, each with
\* whether it has a quantifier, and whether a nested one was found.
Scan(state, pattern, i) ==
    LET token == pattern[i]
        groups == state.groups
        quantified == QuantifierAt(pattern, i + 1)
    IN  IF state.escaped THEN [state EXCEPT !.escaped = FALSE]
        ELSE IF token = "\\" THEN [state EXCEPT !.escaped = TRUE]
        ELSE IF state.inClass THEN [state EXCEPT !.inClass = token # "]"]
        ELSE IF token = "[" THEN [state EXCEPT !.inClass = TRUE]
        ELSE IF token = "(" THEN [state EXCEPT !.groups = Append(groups, FALSE)]
        ELSE IF token = ")" /\ groups # <<>>
        THEN [state EXCEPT !.nested = @ \/ (quantified /\ Last(groups)),
                           !.groups = IF quantified THEN Mark(Front(groups)) ELSE Front(groups)]
        ELSE IF QuantifierAt(pattern, i) THEN [state EXCEPT !.groups = Mark(groups)]
        ELSE state

NestedQuantifier(pattern) ==
    LET before == [groups |-> <<>>, inClass |-> FALSE, escaped |-> FALSE, nested |-> FALSE]
        after[i \in 0 .. Len(pattern)] ==
            IF i = 0 THEN before ELSE Scan(after[i - 1], pattern, i)
    IN  after[Len(pattern)].nested

-----------------------------------------------------------------------------
\* validateConstraint(); a regular expression is one if it has a language.
ValidConstraint(c) ==
    /\ OnlyFields(c, ConstraintKeys)
    /\ Optionally(c, "matches", LAMBDA v : /\ IsString(v)
                                           /\ v.string \in DOMAIN Language
                                           /\ ~NestedQuantifier(v.string))
    /\ \A key \in ListKeys : Optionally(c, key, LAMBDA v : IsArray(v) /\ All(v, IsString))
    /\ \A key \in {"oneOf", "noneOf"} : Optionally(c, key, IsArray)
    /\ \A key \in NumberKeys \cup LengthKeys : Optionally(c, key, LAMBDA v : TypeOf(v) = "number")
    /\ Optionally(c, "optional", LAMBDA v : Tag(v) = "boolean")
    /\ Optionally(c, "type", LAMBDA v : \E type \in Types : v = Word(type))

ValidLimit(limit) ==
    /\ OnlyFields(limit, LimitKeys)
    /\ Tag(Member(limit, "max")) = "number" /\ Member(limit, "max").number >= 0
    /\ Optionally(limit, "perSeconds",
                  LAMBDA v : TypeOf(v) = "number" /\ (v = NaN \/ v.number > 0))

\* validateRule()
ValidRule(rule) ==
    /\ OnlyFields(rule, RuleKeys)
    /\ IsText(Member(rule, "id"))
    /\ Optionally(rule, "description", IsString)
    /\ IsList(Member(rule, "tools")) /\ All(Member(rule, "tools"), IsText)
    /\ IsEffect(Member(rule, "effect"))
    /\ Optionally(rule, "when", LAMBDA when :
           IsType(when, "object") /\ \A path \in DOMAIN Own(when) : ValidConstraint(Own(when)[path]))
    /\ Optionally(rule, "limit", ValidLimit)

\* Mutant: a ceiling of zero passes.
ValidBudgetOrZero(budget) ==
    /\ OnlyFields(budget, Dimensions)
    /\ \A dim \in Dimensions :
           Optionally(budget, dim, LAMBDA v : Tag(v) = "number" /\ v.number >= 0)

ValidBudget(budget) ==
    /\ OnlyFields(budget, Dimensions)
    /\ \A dim \in Dimensions :
           Optionally(budget, dim, LAMBDA v : Tag(v) = "number" /\ v.number > 0)

ValidPlan(plan) ==
    /\ OnlyFields(plan, PlanKeys)
    /\ IsText(Member(plan, "purpose"))
    /\ Optionally(plan, "approvedBy", IsString)
    /\ Optionally(plan, "warnAt", LAMBDA v :
           IsList(v) /\ All(v, LAMBDA t : Tag(t) = "number" /\ t.number > 0 /\ t.number <= 100))

\* validatePolicy(): a plan needs a budget, and no two rules have one id.
ValidatePolicy(root) ==
    /\ OnlyFields(root, PolicyKeys)
    /\ Member(root, "version") = Word("1")
    /\ Optionally(root, "name", IsString)
    /\ Optionally(root, "default", IsEffect)
    /\ Optionally(root, "budget", ValidBudget)
    /\ Optionally(root, "plan", LAMBDA plan : ValidPlan(plan) /\ Member(root, "budget") # Undefined)
    /\ LET rules == Member(root, "rules")
       IN  /\ IsArray(rules) /\ All(rules, ValidRule)
           /\ \A i, j \in DOMAIN rules.array :
                  Member(rules.array[i], "id") = Member(rules.array[j], "id") => i = j

-----------------------------------------------------------------------------
\* The window of a limit.  No call is in a window that is not a number of
\* seconds, as none is in one of zero seconds.
Window(perSeconds) ==
    CASE perSeconds = Undefined -> None
      [] perSeconds = NaN       -> 0
      [] OTHER                  -> perSeconds.number

LoadedRule(rule) ==
    LET patterns == [i \in DOMAIN Member(rule, "tools").array |-> Member(rule, "tools").array[i].string]
        limit == Member(rule, "limit")
    IN  [id     |-> Member(rule, "id").string,
         tools  |-> {name \in ToolNames : MatchesAnyGlob(patterns, name)},
         when   |-> {args \in Arguments : CheckArgs(Own(Member(rule, "when")), args) = {}},
         effect |-> Member(rule, "effect").string[1],
         limit  |-> IF limit = Undefined THEN None
                    ELSE [max |-> Member(limit, "max").number,
                          perSeconds |-> Window(Member(limit, "perSeconds"))]]

\* The thresholds of a plan, in no order: only the loader's sort is lost.
Thresholds(plan) ==
    CASE plan = Undefined -> {}
      [] plan # Undefined /\ Member(plan, "warnAt") = Undefined -> DefaultWarnAt
      [] OTHER -> {t.number : t \in Range(Member(plan, "warnAt").array)}

Loaded(root) ==
    LET budget == Own(Member(root, "budget"))
        rules == Member(root, "rules").array
    IN  [default |-> IF Member(root, "default") = Undefined THEN "deny"
                     ELSE Member(root, "default").string[1],
         budget  |-> [dim \in {d \in DOMAIN budget : budget[d] # Undefined} |-> budget[dim].number],
         warnAt  |-> Thresholds(Member(root, "plan")),
         rules   |-> [i \in DOMAIN rules |-> LoadedRule(rules[i])]]

=============================================================================
