---------------------------- MODULE PolicyEngine ----------------------------
(***************************************************************************)
(* The decision function of js/src/policy/engine.ts, as pure operators.    *)
(*                                                                         *)
(* A policy is a record:                                                   *)
(*   default - the effect when no rule matches                             *)
(*   budget  - a function from the dimensions that have a ceiling to that  *)
(*             ceiling; an absent dimension is unlimited                   *)
(*   warnAt  - the warn thresholds of the plan, in percent; {} is "no      *)
(*             plan" (a plan always has at least one threshold)            *)
(*   rules   - a sequence of rules in file order                           *)
(* A rule is a record [id, tools, when, effect, limit].  The globs of a    *)
(* rule are the set of tool names they match, its argument constraints the *)
(* set of argument values they accept (every argument when there is no     *)
(* "when"), and limit is None or [max, perSeconds].  One unit of time is   *)
(* one second.                                                             *)
(***************************************************************************)
EXTENDS Ledger, Sequences, FiniteSets

Effects == {"allow", "deny", "ask"}

Dimensions == {"calls", "tokens", "usd", "bytes", "seconds"}

Verdict(effect, rule, why) == [effect |-> effect, rule |-> rule, why |-> why]

-----------------------------------------------------------------------------
(* Consumption of one dimension at time `at`.  Nothing has elapsed before  *)
(* the first metered event; the loader accepts positive ceilings only, so  *)
(* an elapsed time of 0 never reaches one.                                 *)

Elapsed(usage, at) == IF usage.startedAt = None THEN 0 ELSE at - usage.startedAt

Consumed(usage, dim, at) ==
    CASE dim = "calls"   -> usage.calls
      [] dim = "tokens"  -> usage.tokens
      [] dim = "usd"     -> usage.usd
      [] dim = "bytes"   -> usage.bytes
      [] dim = "seconds" -> Elapsed(usage, at)

\* The ceilings that `usage` is at or over when the call was made.
CheckBudget(call, policy, usage) ==
    {dim \in DOMAIN policy.budget :
        Consumed(usage, dim, call.at) >= policy.budget[dim]}

-----------------------------------------------------------------------------
\* Mutant: refused calls use up the quota.
CountRefused(history, ruleId, now, perSeconds) ==
    Cardinality({i \in DOMAIN history :
        history[i].rule = ruleId /\ (perSeconds = None \/ history[i].at > now - perSeconds)})

\* Mutant: the window includes the call at its far edge.
CountEdge(history, ruleId, now, perSeconds) ==
    Cardinality({i \in DOMAIN history :
        /\ history[i].effect # "deny"
        /\ history[i].rule = ruleId
        /\ perSeconds = None \/ history[i].at >= now - perSeconds})

\* Calls already attributed to a rule, within its sliding window if it has one.
\* The history is the audit log without its refusals.
CountRecent(history, ruleId, now, perSeconds) ==
    Cardinality({i \in DOMAIN history :
        /\ history[i].effect # "deny"
        /\ history[i].rule = ruleId
        /\ perSeconds = None \/ history[i].at > now - perSeconds})

\* Mutant: the limit is passed before it denies.
LimitPassed(rule, call, history) ==
    /\ rule.limit # None
    /\ CountRecent(history, rule.id, call.at, rule.limit.perSeconds) > rule.limit.max

LimitSpent(rule, call, history) ==
    /\ rule.limit # None
    /\ CountRecent(history, rule.id, call.at, rule.limit.perSeconds) >= rule.limit.max

-----------------------------------------------------------------------------
Targets(rule, call) == call.tool \in rule.tools

Matched(policy, call) ==
    {i \in DOMAIN policy.rules :
        Targets(policy.rules[i], call) /\ call.arg \in policy.rules[i].when}

\* Rules that wanted this tool and rejected its arguments.
NearMisses(policy, call) ==
    {i \in DOMAIN policy.rules :
        /\ Targets(policy.rules[i], call)
        /\ call.arg \notin policy.rules[i].when
        /\ policy.rules[i].effect # "deny"}

\* Mutant: of the strictest rules that match, the last one is named.
LastOf(S) == CHOOSE i \in S : \A j \in S : i >= j

FirstOf(S) == CHOOSE i \in S : \A j \in S : i <= j

\* Mutant: the first rule that matches decides.
EvaluateFirstMatch(call, policy, usage, history) ==
    LET matched == Matched(policy, call)
        rule == policy.rules[FirstOf(matched)]
    IN  IF CheckBudget(call, policy, usage) # {} THEN Verdict("deny", None, "budget")
        ELSE IF matched = {} THEN Verdict(policy.default, None, "default")
        ELSE IF LimitSpent(rule, call, history) THEN Verdict("deny", rule.id, "limit")
        ELSE Verdict(rule.effect, rule.id, "rule")

Evaluate(call, policy, usage, history) ==
    LET matched == Matched(policy, call)
        spent == {i \in matched : LimitSpent(policy.rules[i], call, history)}
        with(effect) == {i \in matched : policy.rules[i].effect = effect}
        by(S, effect, why) == Verdict(effect, policy.rules[FirstOf(S)].id, why)
    IN  IF CheckBudget(call, policy, usage) # {} THEN Verdict("deny", None, "budget")
        ELSE IF spent # {}         THEN by(spent, "deny", "limit")
        ELSE IF with("deny") # {}  THEN by(with("deny"), "deny", "rule")
        ELSE IF with("ask") # {}   THEN by(with("ask"), "ask", "rule")
        ELSE IF with("allow") # {} THEN by(with("allow"), "allow", "rule")
        ELSE Verdict(policy.default, None,
                     IF NearMisses(policy, call) # {} THEN "arguments" ELSE "default")

=============================================================================
