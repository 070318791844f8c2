------------------------- MODULE PolicyEngineProofs -------------------------
(***************************************************************************)
(* What js/src/policy/engine.ts decides, for every policy, ledger and log. *)
(***************************************************************************)
EXTENDS ToolListing, WellFoundedInduction, TLAPS

Verdicts(rules) ==
    [effect : Effects, rule : {rules[i].id : i \in DOMAIN rules} \cup {None},
     why : {"budget", "limit", "rule", "default", "arguments"}]

\* FirstOf picks the least position of a set of positions.
LEMMA FirstIsLeast ==
    ASSUME NEW S \in SUBSET Nat, S # {}
    PROVE  FirstOf(S) \in S /\ \A j \in S : FirstOf(S) <= j
<1> DEFINE Less == OpToRel(<, Nat)
<1>1. \A i, j \in Nat : j < i => <<j, i>> \in Less
    BY Zenon DEF OpToRel
<1>2. IsWellFoundedOn(Less, Nat)
    BY NatLessThanWellFounded
<1> HIDE DEF Less
<1>3. PICK i \in S : \A j \in S : ~(<<j, i>> \in Less)
    BY <1>2, WFMin
<1>4. ASSUME NEW j \in S
      PROVE  i <= j
  <2>1. i \in Nat /\ j \in Nat
      OBVIOUS
  <2>2. ~(j < i)
      BY <1>1, <1>3, <2>1, Zenon
  <2>3. QED
      BY <2>1, <2>2
<1>5. QED
    BY <1>4 DEF FirstOf

\* Every verdict is an effect, attributed to a rule of the policy or to none.
LEMMA EvaluateType ==
    ASSUME NEW toolCall, NEW policy, NEW u, NEW history,
           DOMAIN policy.rules \subseteq Nat, policy.default \in Effects
    PROVE  Evaluate(toolCall, policy, u, history) \in Verdicts(policy.rules)
<1> DEFINE matched == Matched(policy, toolCall)
           spent == {i \in matched : LimitSpent(policy.rules[i], toolCall, history)}
           with(effect) == {i \in matched : policy.rules[i].effect = effect}
<1>1. ASSUME NEW S \in SUBSET matched, S # {}
      PROVE  policy.rules[FirstOf(S)].id \in {policy.rules[i].id : i \in DOMAIN policy.rules}
    BY <1>1, FirstIsLeast DEF Matched
<1>2. spent \subseteq matched /\ \A effect : with(effect) \subseteq matched
    OBVIOUS
<1> HIDE DEF matched, spent, with
<1>3. QED
    BY <1>1, <1>2 DEF Evaluate, Verdict, Verdicts, Effects, matched, spent, with

\* checkBudget comes first: a call that is not refused leaves every dimension
\* that has a ceiling below it.
THEOREM PermittedIsAffordable ==
    ASSUME NEW toolCall, NEW policy, NEW u, NEW history,
           Evaluate(toolCall, policy, u, history).effect # "deny"
    PROVE  \A dim \in DOMAIN policy.budget :
               ~(Consumed(u, dim, toolCall.at) >= policy.budget[dim])
<1>1. CheckBudget(toolCall, policy, u) = {}
    BY DEF Evaluate, Verdict
<1>2. QED
    BY <1>1 DEF CheckBudget

\* Refusals have precedence: a call that is not refused matches no rule that
\* denies it and no rule whose limit is spent, and one that is allowed matches
\* no rule that wants an approval.
THEOREM PermittedByEveryRule ==
    ASSUME NEW toolCall, NEW policy, NEW u, NEW history,
           Evaluate(toolCall, policy, u, history).effect # "deny"
    PROVE  \A i \in Matched(policy, toolCall) :
               /\ policy.rules[i].effect # "deny"
               /\ ~LimitSpent(policy.rules[i], toolCall, history)
               /\ Evaluate(toolCall, policy, u, history).effect = "allow"
                      => policy.rules[i].effect # "ask"
BY DEF Evaluate, Verdict

\* tools/list hides only what can never be permitted: a call of a tool that is
\* not visible is refused, whatever its arguments, the ledger and the log.
THEOREM HiddenIsAlwaysRefused ==
    ASSUME NEW names, NEW toolCall, NEW policy, NEW u, NEW history,
           toolCall.tool \in names \ VisibleTools(policy, names)
    PROVE  Evaluate(toolCall, policy, u, history).effect = "deny"
<1>1. policy.default = "deny"
    BY DEF VisibleTools
<1>2. Matched(policy, toolCall) = {}
    BY <1>1 DEF VisibleTools, Matched, Targets
<1>3. QED
    BY <1>1, <1>2 DEF Evaluate, Verdict

RuleSet(rules) == {rules[i] : i \in DOMAIN rules}

\* Two policies with the same rules have the same rules that match a call.
LEMMA SameRulesMatch ==
    ASSUME NEW toolCall, NEW p, NEW q,
           RuleSet(p.rules) = RuleSet(q.rules)
    PROVE  \A i \in Matched(p, toolCall) : \E j \in Matched(q, toolCall) :
               q.rules[j] = p.rules[i]
<1>1. TAKE i \in Matched(p, toolCall)
<1>2. PICK j \in DOMAIN q.rules : q.rules[j] = p.rules[i]
    BY DEF Matched, RuleSet
<1>3. j \in Matched(q, toolCall)
    BY <1>2 DEF Matched
<1>4. QED
    BY <1>2, <1>3

\* The effect of a verdict depends on which rules a policy has, not on their
\* order or on how often each is repeated.
THEOREM EffectIgnoresOrder ==
    ASSUME NEW toolCall, NEW policy, NEW other, NEW u, NEW history,
           policy.budget = other.budget, policy.default = other.default,
           RuleSet(policy.rules) = RuleSet(other.rules)
    PROVE  Evaluate(toolCall, policy, u, history).effect
               = Evaluate(toolCall, other, u, history).effect
<1> DEFINE some(p, effect) ==
               \E i \in Matched(p, toolCall) : p.rules[i].effect = effect
           limited(p) ==
               \E i \in Matched(p, toolCall) : LimitSpent(p.rules[i], toolCall, history)
           EffectOf(p) ==
               IF CheckBudget(toolCall, p, u) # {} THEN "deny"
               ELSE IF limited(p)       THEN "deny"
               ELSE IF some(p, "deny")  THEN "deny"
               ELSE IF some(p, "ask")   THEN "ask"
               ELSE IF some(p, "allow") THEN "allow"
               ELSE p.default
<1>1. \A p : Evaluate(toolCall, p, u, history).effect = EffectOf(p)
    BY DEF Evaluate, Verdict
<1>2. CheckBudget(toolCall, policy, u) = CheckBudget(toolCall, other, u)
    BY DEF CheckBudget
<1>3. /\ \A i \in Matched(policy, toolCall) : \E j \in Matched(other, toolCall) :
             other.rules[j] = policy.rules[i]
      /\ \A i \in Matched(other, toolCall) : \E j \in Matched(policy, toolCall) :
             policy.rules[j] = other.rules[i]
    BY SameRulesMatch
<1>4. limited(policy) <=> limited(other)
    BY <1>3, Zenon
<1>5. \A effect : some(policy, effect) <=> some(other, effect)
    BY <1>3, Zenon
<1> HIDE DEF limited, some
<1>6. EffectOf(policy) = EffectOf(other)
    BY <1>2, <1>4, <1>5, Zenon
<1>7. QED
    BY <1>1, <1>6, Zenon

=============================================================================
