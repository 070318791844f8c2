-------------------------- MODULE PolicyUseProofs ---------------------------
(***************************************************************************)
(* Theorems about the decision function in use, for every set of policies  *)
(* that loadPolicy() returns, every tool and argument, and a run of any    *)
(* length.                                                                 *)
(***************************************************************************)
EXTENDS PolicyUse, PolicyEngineProofs, FiniteSetTheorems

Ledgers == [calls : Nat, tokens : Nat, usd : Nat, bytes : Nat, startedAt : Nat \cup {None}]

Attributions == {policy.rules[i].id : i \in DOMAIN policy.rules} \cup {None}

UseEntries == [at : Nat, tool : Tools, arg : Args, effect : Effects, rule : Attributions]

\* What the log and the ledger of a run are: no entry is of a later time.
UseInv ==
    /\ policy \in Policies
    /\ usage \in Ledgers
    /\ now \in Nat
    /\ history \in Seq(UseEntries)
    /\ \A i \in DOMAIN history : history[i].at <= now

LEMMA UseInit == Init => UseInv
BY DEF Init, UseInv, Unused, Ledgers

\* Counting a call or tokens leaves a ledger.
LEMMA CountedIsALedger ==
    ASSUME NEW u \in Ledgers, NEW at \in Nat
    PROVE  CountCall(u, at) \in Ledgers /\ AddTokens(u, 1, 0, at) \in Ledgers
<1>1. Started(u, at) \in Ledgers
    BY DEF Ledgers, Started
<1>2. ASSUME NEW v \in Ledgers
      PROVE  [v EXCEPT !.calls = @ + 1] \in Ledgers
    BY DEF Ledgers
<1>3. ASSUME NEW v \in Ledgers
      PROVE  [v EXCEPT !.tokens = @ + 1, !.usd = @ + 0] \in Ledgers
  <2>1. [v EXCEPT !.tokens = @ + 1] \in Ledgers
      BY DEF Ledgers
  <2>2. \A w \in Ledgers : [w EXCEPT !.usd = @ + 0] \in Ledgers
      BY DEF Ledgers
  <2>3. [v EXCEPT !.tokens = @ + 1, !.usd = @ + 0]
            = [[v EXCEPT !.tokens = @ + 1] EXCEPT !.usd = @ + 0]
      BY DEF Ledgers
  <2>4. QED
      BY <2>1, <2>2, <2>3
<1>4. QED
    BY <1>1, <1>2, <1>3 DEF CountCall, AddTokens

\* No entry is of a later time.
LEMMA EntryTimes ==
    ASSUME UseInv, NEW i \in DOMAIN history
    PROVE  history[i].at \in Nat /\ history[i].at <= now /\ now \in Nat
<1>1. history[i] \in UseEntries
    BY DEF UseInv
<1>2. history[i].at \in Nat
    BY <1>1 DEF UseEntries
<1>3. QED
    BY <1>2 DEF UseInv

\* The positions of a policy's rules are numbers, its default is an effect.
LEMMA LoadedPositions ==
    ASSUME NEW p \in Policies
    PROVE  DOMAIN p.rules \subseteq Nat /\ p.default \in Effects
<1>1. PICK S : p.rules \in Seq(S)
    BY PoliciesAreLoaded
<1>2. DOMAIN p.rules = 1 .. Len(p.rules) /\ Len(p.rules) \in Nat
    BY <1>1
<1>3. DOMAIN p.rules \subseteq Nat
    BY <1>2
<1>4. p.default \in Effects
    BY PoliciesAreLoaded
<1>5. QED
    BY <1>3, <1>4

\* An entry carries the current time and a rule of the policy or none.
LEMMA SubmitKeeps ==
    ASSUME UseInv, NEW c \in Requests, Submit(c)
    PROVE  UseInv'
<1>1. policy \in Policies /\ usage \in Ledgers /\ now \in Nat
    BY DEF UseInv
<1>2. PICK effect \in {"allow", "deny"} :
          LET v == Evaluate(c, policy, usage, history)
          IN  /\ v.effect \in {effect, "ask"}
              /\ history' = Append(history, Attributed(c, effect, v.rule))
              /\ usage' = IF effect = "allow" THEN CountCall(usage, now) ELSE usage
    BY DEF Submit
<1> DEFINE entry ==
        Attributed(c, effect, Evaluate(c, policy, usage, history).rule)
<1>3. UNCHANGED <<policy, now>>
    BY DEF Submit
<1>4. usage' \in Ledgers
    BY <1>1, <1>2, CountedIsALedger
<1>5. DOMAIN policy.rules \subseteq Nat /\ policy.default \in Effects
    BY <1>1, LoadedPositions
<1>6. Evaluate(c, policy, usage, history) \in Verdicts(policy.rules)
    BY <1>5, EvaluateType
<1>7. Evaluate(c, policy, usage, history).rule \in Attributions
    BY <1>6 DEF Verdicts, Attributions
<1>8. entry \in UseEntries /\ entry.at = now
  <2>1. c.tool \in Tools /\ c.arg \in Args /\ c.at = now
      BY DEF Requests, Call
  <2>2. QED
      BY <1>1, <1>7, <2>1 DEF Effects, Attributed, UseEntries
<1>9. history' = Append(history, entry)
    BY <1>2
<1> HIDE DEF entry
<1>10. history' \in Seq(UseEntries)
    BY <1>8, <1>9 DEF UseInv
<1>11. \A i \in DOMAIN history' : history'[i].at <= now
  <2>1. TAKE i \in DOMAIN history'
  <2>2. CASE i \in DOMAIN history
      BY <1>9, <2>2 DEF UseInv
  <2>3. CASE i \notin DOMAIN history
    <3>1. history'[i] = entry
        BY <1>8, <1>9, <2>1, <2>3 DEF UseInv
    <3>2. QED
        BY <1>1, <1>8, <3>1
  <2>4. QED
      BY <2>2, <2>3
<1>12. QED
    BY <1>1, <1>3, <1>4, <1>10, <1>11 DEF UseInv, Attributions, UseEntries

LEMMA UseStep == UseInv /\ [Next]_vars => UseInv'
<1> SUFFICES ASSUME UseInv, [Next]_vars
             PROVE  UseInv'
    OBVIOUS
<1>1. ASSUME NEW c \in Requests, Submit(c)
      PROVE  UseInv'
    BY <1>1, SubmitKeeps
<1>2. CASE Consume
  <2>1. usage' \in Ledgers
      BY <1>2, CountedIsALedger DEF Consume, UseInv
  <2>2. QED
      BY <1>2, <2>1 DEF Consume, UseInv, Attributions, UseEntries
<1>3. CASE Wait
  <2>1. now' \in Nat /\ \A i \in DOMAIN history : history[i].at <= now'
    <3>1. now \in Nat /\ now' = now + 1
        BY <1>3 DEF Wait, UseInv
    <3>2. ASSUME NEW i \in DOMAIN history
          PROVE  history[i].at \in Nat /\ history[i].at <= now
        BY EntryTimes
    <3>3. QED
        BY <3>1, <3>2
  <2>2. QED
      BY <1>3, <2>1 DEF Wait, UseInv, Attributions, UseEntries
<1>4. CASE UNCHANGED vars
    BY <1>4 DEF vars, UseInv, Attributions, UseEntries
<1>5. QED
    BY <1>1, <1>2, <1>3, <1>4 DEF Next

LEMMA UseAlways == Spec => []UseInv
BY UseInit, UseStep, PTL DEF Spec

-----------------------------------------------------------------------------
\* The order in which a policy lists its rules changes no effect: a reordering
\* keeps the set of rules, and the effect depends on nothing else.
THEOREM OrderNeverMatters == Spec => []OrderIrrelevant
<1>1. ASSUME NEW p \in Reorderings
      PROVE  RuleSet([i \in DOMAIN policy.rules |-> policy.rules[p[i]]])
                 = RuleSet(policy.rules)
  <2>1. \A i \in DOMAIN policy.rules : p[i] \in DOMAIN policy.rules
      BY DEF Reorderings
  <2>2. \A i \in DOMAIN policy.rules : \E j \in DOMAIN policy.rules : p[j] = i
      BY DEF Reorderings
  <2>3. QED
      BY <2>1, <2>2 DEF RuleSet
<1>2. OrderIrrelevant
  <2>1. ASSUME NEW c \in Requests, NEW p \in Reorderings
        PROVE  EffectOf(c, [i \in DOMAIN policy.rules |-> policy.rules[p[i]]])
                   = EffectOf(c, policy.rules)
    <3> DEFINE with(rules) ==
            [default |-> policy.default, budget |-> policy.budget, rules |-> rules]
               reordered == [i \in DOMAIN policy.rules |-> policy.rules[p[i]]]
    <3>1. RuleSet(with(reordered).rules) = RuleSet(with(policy.rules).rules)
        BY <1>1
    <3>2. /\ with(reordered).budget = with(policy.rules).budget
          /\ with(reordered).default = with(policy.rules).default
        OBVIOUS
    <3> HIDE DEF with, reordered
    <3>3. Evaluate(c, with(reordered), usage, history).effect
              = Evaluate(c, with(policy.rules), usage, history).effect
        BY <3>1, <3>2, EffectIgnoresOrder
    <3>4. QED
        BY <3>3 DEF EffectOf, with, reordered
  <2>2. QED
      BY <2>1 DEF OrderIrrelevant
<1>3. QED
    BY <1>2, PTL

\* A ledger that reaches a ceiling whenever another does permits no call that
\* the other refuses.
LEMMA BudgetOnlyRefuses ==
    ASSUME NEW c, NEW p, NEW u, NEW v, NEW h,
           CheckBudget(c, p, u) # {} => CheckBudget(c, p, v) # {},
           Evaluate(c, p, u, h).effect = "deny"
    PROVE  Evaluate(c, p, v, h).effect = "deny"
<1>1. CASE CheckBudget(c, p, v) # {}
    BY <1>1 DEF Evaluate, Verdict
<1>2. CASE CheckBudget(c, p, v) = {}
  <2>1. CheckBudget(c, p, u) = {}
      BY <1>2
  <2>2. Evaluate(c, p, u, h) = Evaluate(c, p, v, h)
      BY <1>2, <2>1 DEF Evaluate
  <2>3. QED
      BY <2>2
<1>3. QED
    BY <1>1, <1>2

\* More consumption, of any amount, never turns a refusal into anything else.
THEOREM ConsumptionOnlyRefuses == Spec => []ConsumptionNeverOpens
<1>1. ASSUME UseInv, NEW c \in Requests, NEW tokens \in Nat, NEW calls \in Nat
      PROVE  LET more == [usage EXCEPT !.tokens = @ + tokens, !.calls = @ + calls]
             IN  CheckBudget(c, policy, usage) # {} => CheckBudget(c, policy, more) # {}
  <2> DEFINE more == [usage EXCEPT !.tokens = @ + tokens, !.calls = @ + calls]
  <2>1. SUFFICES ASSUME NEW dim \in CheckBudget(c, policy, usage)
                 PROVE  dim \in CheckBudget(c, policy, more)
      OBVIOUS
  <2>2. policy \in Policies /\ usage \in Ledgers /\ dim \in DOMAIN policy.budget
      BY <1>1, <2>1 DEF UseInv, CheckBudget
  <2>3. policy.budget[dim] \in Nat /\ dim \in Dimensions
      BY <2>2, PoliciesAreLoaded
  <2>4. /\ more.calls = usage.calls + calls /\ more.tokens = usage.tokens + tokens
        /\ more.usd = usage.usd /\ more.bytes = usage.bytes
        /\ more.startedAt = usage.startedAt
        /\ usage.calls \in Nat /\ usage.tokens \in Nat
      BY <2>2 DEF Ledgers
  <2> HIDE DEF more
  <2>5. \/ Consumed(more, dim, c.at) = Consumed(usage, dim, c.at)
        \/ /\ Consumed(usage, dim, c.at) \in Nat
           /\ \E k \in Nat : Consumed(more, dim, c.at) = Consumed(usage, dim, c.at) + k
      BY <2>3, <2>4 DEF Dimensions, Consumed, Elapsed
  <2>6. Consumed(usage, dim, c.at) >= policy.budget[dim]
      BY <2>1 DEF CheckBudget
  <2>7. Consumed(more, dim, c.at) >= policy.budget[dim]
      BY <2>3, <2>5, <2>6
  <2>8. QED
      BY <2>2, <2>7 DEF CheckBudget
<1>2. UseInv => ConsumptionNeverOpens
  <2> SUFFICES ASSUME UseInv, NEW c \in Requests, NEW tokens \in 0 .. 1, NEW calls \in 0 .. 1,
                      Evaluate(c, policy, usage, history).effect = "deny"
               PROVE  LET more == [usage EXCEPT !.tokens = @ + tokens, !.calls = @ + calls]
                      IN  Evaluate(c, policy, more, history).effect = "deny"
      BY DEF ConsumptionNeverOpens
  <2> DEFINE more == [usage EXCEPT !.tokens = @ + tokens, !.calls = @ + calls]
  <2>1. tokens \in Nat /\ calls \in Nat
      OBVIOUS
  <2>2. CheckBudget(c, policy, usage) # {} => CheckBudget(c, policy, more) # {}
      BY <1>1, <2>1
  <2> HIDE DEF more
  <2>3. Evaluate(c, policy, more, history).effect = "deny"
      BY <2>2, BudgetOnlyRefuses
  <2>4. QED
      BY <2>3 DEF more
<1>3. QED
    BY <1>2, UseAlways, PTL

\* A refusal uses up no quota: whatever the log, the refusals in it change no
\* verdict.
THEOREM RefusalsAreAlwaysFree == Spec => []RefusalsAreFree
<1>1. ASSUME NEW id, NEW at, NEW perSeconds
      PROVE  CountRecent(history, id, at, perSeconds) = CountRecent(Allowed, id, at, perSeconds)
  <2> DEFINE counted(h) ==
          {i \in DOMAIN h : /\ h[i].effect # "deny"
                            /\ h[i].rule = id
                            /\ perSeconds = None \/ h[i].at > at - perSeconds}
  <2>1. DOMAIN Allowed = {k \in DOMAIN history : history[k].effect # "deny"}
      BY DEF Allowed
  <2>2. \A i \in DOMAIN Allowed : Allowed[i] = history[i]
      BY DEF Allowed
  <2>3. counted(history) = counted(Allowed)
      BY <2>1, <2>2
  <2> HIDE DEF counted
  <2>4. Cardinality(counted(history)) = Cardinality(counted(Allowed))
      BY <2>3
  <2>5. QED
      BY <2>4, Zenon DEF CountRecent, counted
<1>2. ASSUME NEW rule, NEW c
      PROVE  LimitSpent(rule, c, history) <=> LimitSpent(rule, c, Allowed)
    BY <1>1 DEF LimitSpent
<1>3. ASSUME NEW c
      PROVE  Evaluate(c, policy, usage, history) = Evaluate(c, policy, usage, Allowed)
  <2> DEFINE spent(h) == {i \in Matched(policy, c) : LimitSpent(policy.rules[i], c, h)}
  <2>1. spent(history) = spent(Allowed)
      BY <1>2
  <2> HIDE DEF spent
  <2>2. QED
      BY <2>1 DEF Evaluate, spent
<1>4. RefusalsAreFree
    BY <1>3, Zenon DEF RefusalsAreFree
<1>5. QED
    BY <1>4, PTL

\* A tool that tools/list hides is refused in every state.
THEOREM HiddenStaysRefused == Spec => []HiddenIsRefused
<1>1. HiddenIsRefused
  <2>1. ASSUME NEW tool \in Tools \ VisibleTools(policy, Tools), NEW arg \in Args
        PROVE  Evaluate(Call(tool, arg, now), policy, usage, history).effect = "deny"
    <3>1. Call(tool, arg, now).tool = tool
        BY DEF Call
    <3>2. QED
        BY <3>1, HiddenIsAlwaysRefused
  <2>2. QED
      BY <2>1, Zenon DEF HiddenIsRefused
<1>2. QED
    BY <1>1, PTL

\* The quota of a sliding window comes back: no entry is of a later time, so
\* none is left in the window perSeconds from now.
THEOREM CapacityAlwaysReturns == Spec => []CapacityReturns
<1>1. ASSUME UseInv, NEW i \in DOMAIN policy.rules, NEW tool, NEW arg,
             policy.rules[i].limit # None, policy.rules[i].limit.max > 0,
             policy.rules[i].limit.perSeconds # None
      PROVE  ~LimitSpent(policy.rules[i],
                         Call(tool, arg, now + policy.rules[i].limit.perSeconds), history)
  <2> DEFINE limit == policy.rules[i].limit
  <2>1. limit.max \in Nat /\ limit.perSeconds \in Nat
      BY <1>1, PoliciesAreLoaded DEF UseInv
  <2>2. limit.max > 0 /\ limit.perSeconds # None
      BY <1>1
  <2> HIDE DEF limit
  <2>3. PICK at : at = now + limit.perSeconds
      OBVIOUS
  <2> DEFINE counted ==
          {k \in DOMAIN history : /\ history[k].effect # "deny"
                                  /\ history[k].rule = policy.rules[i].id
                                  /\ \/ limit.perSeconds = None
                                     \/ history[k].at > at - limit.perSeconds}
  <2>4. ASSUME NEW k \in DOMAIN history
        PROVE  ~(history[k].at > at - limit.perSeconds)
    <3>1. history[k].at \in Nat /\ history[k].at <= now /\ now \in Nat
        BY <1>1, EntryTimes
    <3>2. QED
        BY <2>1, <2>3, <3>1
  <2>5. counted = {}
      BY <2>2, <2>4
  <2>6. Cardinality(counted) = 0
      BY <2>5, FS_EmptySet
  <2>7. CountRecent(history, policy.rules[i].id, at, limit.perSeconds) = Cardinality(counted)
      BY Zenon DEF CountRecent
  <2> HIDE DEF counted
  <2>8. ~(CountRecent(history, policy.rules[i].id, at, limit.perSeconds) >= limit.max)
      BY <2>1, <2>2, <2>6, <2>7
  <2>9. QED
      BY <2>3, <2>8 DEF LimitSpent, Call, limit
<1>2. UseInv => CapacityReturns
    BY <1>1 DEF CapacityReturns
<1>3. QED
    BY <1>2, UseAlways, PTL

-----------------------------------------------------------------------------
(*                     What a limit bounds, along a run                    *)

\* A call that is not refused is attributed to the rule that decides it.
LEMMA DeciderIsNamed ==
    ASSUME UseInv, NEW c, NEW i \in DOMAIN policy.rules, Decides(i, c),
           Evaluate(c, policy, usage, history).effect # "deny"
    PROVE  Evaluate(c, policy, usage, history).rule = policy.rules[i].id
<1> DEFINE matched == Matched(policy, c)
           with(effect) == {j \in matched : policy.rules[j].effect = effect}
           v == Evaluate(c, policy, usage, history)
<1>1. /\ matched \subseteq DOMAIN policy.rules /\ DOMAIN policy.rules \subseteq Nat
      /\ \A j \in DOMAIN policy.rules : policy.rules[j].effect \in Effects
    BY LoadedPositions, PoliciesAreLoaded DEF UseInv, Matched
<1>2. \A j \in matched : policy.rules[j].effect \in {"allow", "ask"}
    BY <1>1, PermittedByEveryRule DEF Effects
<1>3. i \in matched
    BY DEF Decides
<1>4. v.rule = policy.rules[FirstOf(IF with("ask") # {} THEN with("ask") ELSE with("allow"))].id
  <2>1. with("deny") = {} /\ (with("ask") = {} => with("allow") # {})
      BY <1>2, <1>3
  <2>2. CheckBudget(c, policy, usage) = {}
        /\ {j \in matched : LimitSpent(policy.rules[j], c, history)} = {}
    <3> HIDE DEF matched
    <3>1. QED
        BY DEF Evaluate, Verdict, matched
  <2> HIDE DEF matched
  <2>3. QED
      BY <2>1, <2>2 DEF Evaluate, Verdict, matched
<1> HIDE DEF v
<1>5. ASSUME NEW j \in matched
      PROVE  \/ policy.rules[j].effect = "allow" /\ policy.rules[i].effect = "ask"
             \/ policy.rules[j].effect = policy.rules[i].effect /\ i <= j
  <2>1. \/ [allow |-> 0, ask |-> 1, deny |-> 2][policy.rules[j].effect]
               < [allow |-> 0, ask |-> 1, deny |-> 2][policy.rules[i].effect]
        \/ /\ [allow |-> 0, ask |-> 1, deny |-> 2][policy.rules[j].effect]
                   = [allow |-> 0, ask |-> 1, deny |-> 2][policy.rules[i].effect]
           /\ i <= j
      BY <1>5 DEF Decides
  <2>2. /\ policy.rules[j].effect \in {"allow", "ask"}
        /\ policy.rules[i].effect \in {"allow", "ask"}
      BY <1>2, <1>3, <1>5
  <2>3. QED
      BY <2>1, <2>2
<1>6. CASE with("ask") # {}
  <2>1. with("ask") \in SUBSET Nat
      BY <1>1
  <2>2. FirstOf(with("ask")) \in with("ask") /\ \A j \in with("ask") : FirstOf(with("ask")) <= j
      BY <1>6, <2>1, FirstIsLeast
  <2>3. FirstOf(with("ask")) \in matched /\ policy.rules[FirstOf(with("ask"))].effect = "ask"
      BY <2>2
  <2>4. policy.rules[i].effect = "ask" /\ i <= FirstOf(with("ask"))
      BY <1>5, <2>3
  <2>5. FirstOf(with("ask")) <= i
      BY <1>3, <2>2, <2>4
  <2>6. FirstOf(with("ask")) = i
      BY <1>1, <1>3, <2>3, <2>4, <2>5
  <2>7. QED
      BY <1>4, <1>6, <2>6 DEF v
<1>7. CASE with("ask") = {}
  <2>1. with("allow") \in SUBSET Nat /\ i \in with("allow")
      BY <1>1, <1>2, <1>3, <1>7
  <2>2. /\ FirstOf(with("allow")) \in with("allow")
        /\ \A j \in with("allow") : FirstOf(with("allow")) <= j
      BY <2>1, FirstIsLeast
  <2>3. FirstOf(with("allow")) \in matched /\ policy.rules[FirstOf(with("allow"))].effect = "allow"
      BY <2>2
  <2>4. policy.rules[i].effect = "allow" /\ FirstOf(with("allow")) <= i
      BY <2>1, <2>2
  <2>5. i <= FirstOf(with("allow"))
      BY <1>5, <2>3, <2>4
  <2>6. FirstOf(with("allow")) = i
      BY <1>1, <1>3, <2>3, <2>4, <2>5
  <2>7. QED
      BY <1>4, <1>7, <2>6 DEF v
<1>8. QED
    BY <1>6, <1>7

\* The permitted calls attributed to rule i among the first n of the log, over
\* the window that ends at `at`.
Within(n, i, at) ==
    {m \in 1 .. n : /\ history[m].effect = "allow"
                    /\ history[m].rule = policy.rules[i].id
                    /\ \/ policy.rules[i].limit.perSeconds = None
                       \/ history[m].at > at - policy.rules[i].limit.perSeconds}

\* Every permitted call is attributed to the rule that decides it, and no window
\* that ends with an entry holds more of a rule's calls than its limit.
LimitInv ==
    /\ \A n \in DOMAIN history : \A i \in DOMAIN policy.rules :
           history[n].effect = "allow" /\ Decides(i, history[n])
           => history[n].rule = policy.rules[i].id
    /\ \A n \in DOMAIN history : \A i \in DOMAIN policy.rules :
           policy.rules[i].limit # None
           => Cardinality(Within(n, i, history[n].at)) <= policy.rules[i].limit.max

LEMMA WithinFinite ==
    ASSUME NEW n \in Nat, NEW i, NEW at, NEW S, S \subseteq Within(n, i, at)
    PROVE  /\ IsFiniteSet(S) /\ Cardinality(S) \in Nat
           /\ Cardinality(S) <= Cardinality(Within(n, i, at))
           /\ Cardinality(Within(n, i, at)) \in Nat
<1>1. Within(n, i, at) \subseteq 1 .. n
    BY DEF Within
<1>2. IsFiniteSet(1 .. n)
    BY FS_Interval
<1>3. IsFiniteSet(Within(n, i, at))
    BY <1>1, <1>2, FS_Subset
<1>4. QED
    BY <1>3, FS_Subset, FS_CardinalityType

\* A log whose windows hold a rule's limit leads to LimitBoundsItsRule.
LEMMA LimitInvBounds ==
    ASSUME UseInv, LimitInv
    PROVE  LimitBoundsItsRule
<1> SUFFICES ASSUME NEW i \in DOMAIN policy.rules, NEW n \in DOMAIN history,
                    policy.rules[i].limit # None
             PROVE  Cardinality({m \in 1 .. n :
                        /\ history[m].effect = "allow"
                        /\ Decides(i, history[m])
                        /\ \/ policy.rules[i].limit.perSeconds = None
                           \/ history[m].at > history[n].at - policy.rules[i].limit.perSeconds})
                        <= policy.rules[i].limit.max
    BY DEF LimitBoundsItsRule
<1> DEFINE within == {m \in 1 .. n :
                        /\ history[m].effect = "allow"
                        /\ Decides(i, history[m])
                        /\ \/ policy.rules[i].limit.perSeconds = None
                           \/ history[m].at > history[n].at - policy.rules[i].limit.perSeconds}
<1>1. n \in Nat /\ 1 .. n \subseteq DOMAIN history
    BY DEF UseInv
<1>2. within \subseteq Within(n, i, history[n].at)
    BY <1>1 DEF LimitInv, Within
<1>3. /\ Cardinality(Within(n, i, history[n].at)) <= policy.rules[i].limit.max
      /\ policy.rules[i].limit.max \in Nat
    BY PoliciesAreLoaded DEF LimitInv, UseInv
<1> HIDE DEF within
<1>4. /\ Cardinality(within) \in Nat /\ Cardinality(Within(n, i, history[n].at)) \in Nat
      /\ Cardinality(within) <= Cardinality(Within(n, i, history[n].at))
    BY <1>1, <1>2, WithinFinite
<1>5. Cardinality(within) <= policy.rules[i].limit.max
    BY <1>3, <1>4
<1>6. QED
    BY <1>5 DEF within

\* A permission attributed to a rule is one that its limit leaves room for.
LEMMA NamedHasRoom ==
    ASSUME UseInv, NEW c, c.at = now, NEW i \in DOMAIN policy.rules,
           policy.rules[i].limit # None,
           Evaluate(c, policy, usage, history).effect # "deny",
           Evaluate(c, policy, usage, history).rule = policy.rules[i].id
    PROVE  Cardinality(Within(Len(history), i, now)) < policy.rules[i].limit.max
<1> DEFINE matched == Matched(policy, c)
           with(effect) == {j \in matched : policy.rules[j].effect = effect}
           v == Evaluate(c, policy, usage, history)
           counted == {m \in DOMAIN history :
                          /\ history[m].effect # "deny"
                          /\ history[m].rule = policy.rules[i].id
                          /\ \/ policy.rules[i].limit.perSeconds = None
                             \/ history[m].at > now - policy.rules[i].limit.perSeconds}
<1>1. /\ matched \subseteq DOMAIN policy.rules /\ DOMAIN policy.rules \subseteq Nat
      /\ \A j \in DOMAIN policy.rules : policy.rules[j].id # None
      /\ \A j, k \in DOMAIN policy.rules : policy.rules[j].id = policy.rules[k].id => j = k
    BY LoadedPositions, PoliciesAreLoaded DEF UseInv, Matched
<1>2. v.rule = None \/ \E j \in matched : v.rule = policy.rules[j].id
  <2>1. \A effect : with(effect) \subseteq matched /\ with(effect) \in SUBSET Nat
      BY <1>1
  <2>2. \A effect : with(effect) # {} => FirstOf(with(effect)) \in matched
      BY <2>1, FirstIsLeast
  <2>3. \/ \E effect : with(effect) # {} /\ v.rule = policy.rules[FirstOf(with(effect))].id
        \/ v.rule = None
    <3> HIDE DEF matched
    <3>1. QED
        BY DEF Evaluate, Verdict, matched
  <2> HIDE DEF with
  <2>4. QED
      BY <2>2, <2>3
<1>3. i \in matched
    BY <1>1, <1>2
<1>4. ~LimitSpent(policy.rules[i], c, history)
    BY <1>3, PermittedByEveryRule
<1>5. ~(Cardinality(counted) >= policy.rules[i].limit.max)
    BY <1>4 DEF LimitSpent, CountRecent
<1>6. counted \subseteq 1 .. Len(history) /\ Len(history) \in Nat
    BY DEF UseInv
<1>7. Within(Len(history), i, now) \subseteq counted
    BY DEF Within, UseInv
<1>8. policy.rules[i].limit.max \in Nat
    BY PoliciesAreLoaded DEF UseInv
<1> HIDE DEF counted
<1>9. IsFiniteSet(counted)
  <2>1. IsFiniteSet(1 .. Len(history))
      BY <1>6, FS_Interval
  <2>2. QED
      BY <1>6, <2>1, FS_Subset
<1>10. /\ Cardinality(Within(Len(history), i, now)) \in Nat /\ Cardinality(counted) \in Nat
       /\ Cardinality(Within(Len(history), i, now)) <= Cardinality(counted)
    BY <1>7, <1>9, FS_Subset, FS_CardinalityType
<1>11. QED
    BY <1>5, <1>8, <1>10

\* Time only narrows a window: what is in it was in the one of any earlier entry.
LEMMA WindowsNarrow ==
    ASSUME UseInv, NEW n \in DOMAIN history, NEW i \in DOMAIN policy.rules,
           policy.rules[i].limit # None
    PROVE  Within(n, i, now) \subseteq Within(n, i, history[n].at)
<1>1. history[n].at \in Nat /\ history[n].at <= now /\ now \in Nat
    BY EntryTimes
<1>2. policy.rules[i].limit.perSeconds \in Nat \cup {None}
    BY PoliciesAreLoaded DEF UseInv
<1>3. ASSUME NEW m \in 1 .. n, policy.rules[i].limit.perSeconds # None,
             history[m].at > now - policy.rules[i].limit.perSeconds
      PROVE  history[m].at > history[n].at - policy.rules[i].limit.perSeconds
  <2>1. m \in DOMAIN history
      BY DEF UseInv
  <2>2. history[m].at \in Nat
      BY <2>1, EntryTimes
  <2>3. policy.rules[i].limit.perSeconds \in Nat
      BY <1>2, <1>3
  <2>4. QED
      BY <1>1, <1>3, <2>2, <2>3
<1>4. QED
    BY <1>3 DEF Within

\* A call that is submitted is attributed to the rule that decides it, within
\* that rule's limit.
LEMMA SubmitBounds ==
    ASSUME UseInv, UseInv', LimitInv, NEW c \in Requests, Submit(c)
    PROVE  LimitInv'
<1>1. PICK effect \in {"allow", "deny"} :
          LET v == Evaluate(c, policy, usage, history)
          IN  /\ v.effect \in {effect, "ask"}
              /\ history' = Append(history, Attributed(c, effect, v.rule))
    BY DEF Submit
<1> DEFINE v == Evaluate(c, policy, usage, history)
           entry == Attributed(c, effect, v.rule)
<1>2. /\ entry.at = now /\ entry.effect = effect /\ entry.rule = v.rule
      /\ entry.tool = c.tool /\ entry.arg = c.arg /\ c.at = now
      /\ UNCHANGED <<policy, now>>
    BY DEF Attributed, Requests, Call, Submit
<1>3. effect = "allow" => v.effect # "deny"
    BY <1>1
<1> HIDE DEF v, entry
<1>4. /\ Len(history) \in Nat /\ DOMAIN history = 1 .. Len(history)
      /\ DOMAIN history' = 1 .. Len(history) + 1
      /\ \A n \in DOMAIN history : history'[n] = history[n]
      /\ history'[Len(history) + 1] = entry
    BY <1>1 DEF UseInv, entry, v
<1>5. \A i \in DOMAIN policy.rules : \A call : Decides(i, call)' <=> Decides(i, call)
    BY <1>2 DEF Decides, Matched, Targets
<1>6. \A i \in DOMAIN policy.rules : Decides(i, entry) => Decides(i, c)
    BY <1>2 DEF Decides, Matched, Targets
<1>7. ASSUME NEW n \in DOMAIN history', NEW i \in DOMAIN policy'.rules,
             history'[n].effect = "allow", Decides(i, history[n])'
      PROVE  history'[n].rule = policy'.rules[i].id
  <2>1. i \in DOMAIN policy.rules
      BY <1>2, <1>7
  <2>2. CASE n \in DOMAIN history
    <3>1. history'[n] = history[n] /\ Decides(i, history'[n])
        BY <1>2, <1>4, <1>7, <2>1, <2>2 DEF Decides, Matched, Targets
    <3>2. QED
        BY <1>2, <1>7, <2>1, <2>2, <3>1 DEF LimitInv
  <2>3. CASE n \notin DOMAIN history
    <3>1. n = Len(history) + 1 /\ history'[n] = entry
        BY <1>4, <1>7, <2>3
    <3>2. Decides(i, entry)
        BY <1>2, <1>7, <2>1, <3>1 DEF Decides, Matched, Targets
    <3>3. v.effect # "deny" /\ Decides(i, c)
        BY <1>2, <1>3, <1>6, <1>7, <2>1, <3>1, <3>2
    <3>4. v.rule = policy.rules[i].id
        BY <2>1, <3>3, DeciderIsNamed DEF v
    <3>5. QED
        BY <1>2, <3>1, <3>4
  <2>4. QED
      BY <2>2, <2>3
<1>8. ASSUME NEW n \in 0 .. Len(history), NEW i, NEW at
      PROVE  Within(n, i, at)' = Within(n, i, at)
    BY <1>2, <1>4, <1>8 DEF Within
<1>9. ASSUME NEW n \in DOMAIN history', NEW i \in DOMAIN policy'.rules,
             policy'.rules[i].limit # None
      PROVE  Cardinality(Within(n, i, history[n].at)') <= policy'.rules[i].limit.max
  <2>1. /\ i \in DOMAIN policy.rules /\ policy.rules[i].limit # None
        /\ policy'.rules[i].limit.max = policy.rules[i].limit.max
      BY <1>2, <1>9
  <2>2. policy.rules[i].limit.max \in Nat
      BY <2>1, PoliciesAreLoaded DEF UseInv
  <2>3. CASE n \in DOMAIN history
    <3>1. Within(n, i, history[n].at)' = Within(n, i, history[n].at)
        BY <1>2, <1>4, <2>3 DEF Within
    <3>2. QED
        BY <2>1, <2>3, <3>1 DEF LimitInv
  <2>4. CASE n \notin DOMAIN history
    <3> DEFINE earlier == Within(Len(history), i, now)
               bounded == Within(n, i, history[n].at)'
    <3>1. n = Len(history) + 1 /\ history'[n] = entry
        BY <1>4, <1>9, <2>4
    <3>2. bounded \subseteq earlier \cup {n}
        BY <1>2, <1>4, <3>1 DEF Within
    <3>3. n \in bounded => entry.effect = "allow" /\ entry.rule = policy.rules[i].id
        BY <1>2, <3>1 DEF Within
    <3>4. /\ IsFiniteSet(earlier) /\ Cardinality(earlier) \in Nat
        BY <1>4, WithinFinite
    <3>5. n \notin earlier
        BY <1>4, <3>1 DEF Within
    <3>6. Cardinality(earlier) <= policy.rules[i].limit.max
      <4>1. CASE Len(history) = 0
        <5>1. earlier = {}
            BY <4>1 DEF Within
        <5>2. QED
            BY <2>2, <5>1, FS_EmptySet
      <4>2. CASE Len(history) # 0
        <5>1. Len(history) \in DOMAIN history
            BY <1>4, <4>2
        <5>2. earlier \subseteq Within(Len(history), i, history[Len(history)].at)
            BY <2>1, <5>1, WindowsNarrow
        <5>3. Cardinality(Within(Len(history), i, history[Len(history)].at))
                  <= policy.rules[i].limit.max
            BY <2>1, <5>1 DEF LimitInv
        <5> HIDE DEF earlier
        <5>4. QED
            BY <1>4, <2>2, <3>4, <5>2, <5>3, WithinFinite
      <4>3. QED
          BY <4>1, <4>2
    <3>7. n \in bounded => Cardinality(earlier) < policy.rules[i].limit.max
        BY <1>2, <1>3, <2>1, <3>3, NamedHasRoom DEF v
    <3> HIDE DEF earlier, bounded
    <3>8. CASE n \in bounded
      <4>1. /\ IsFiniteSet(earlier \cup {n})
            /\ Cardinality(earlier \cup {n}) = Cardinality(earlier) + 1
          BY <3>4, <3>5, FS_AddElement
      <4>2. Cardinality(bounded) <= Cardinality(earlier \cup {n}) /\ Cardinality(bounded) \in Nat
          BY <3>2, <4>1, FS_Subset, FS_CardinalityType
      <4>3. Cardinality(bounded) <= policy.rules[i].limit.max
          BY <2>2, <3>4, <3>7, <3>8, <4>1, <4>2
      <4>4. QED
          BY <2>1, <4>3 DEF bounded
    <3>9. CASE n \notin bounded
      <4>1. bounded \subseteq earlier
          BY <3>2, <3>9
      <4>2. Cardinality(bounded) <= Cardinality(earlier) /\ Cardinality(bounded) \in Nat
          BY <3>4, <4>1, FS_Subset, FS_CardinalityType
      <4>3. Cardinality(bounded) <= policy.rules[i].limit.max
          BY <2>2, <3>4, <3>6, <4>2
      <4>4. QED
          BY <2>1, <4>3 DEF bounded
    <3>10. QED
        BY <3>8, <3>9
  <2>5. QED
      BY <2>3, <2>4
<1>10. QED
    BY <1>7, <1>9 DEF LimitInv

\* A rule's limit bounds the calls it decides, whatever other rules they match:
\* each is attributed to it, and each that is permitted finds room in its window.
THEOREM LimitsBoundTheirRules == Spec => []LimitBoundsItsRule
<1>1. Init => LimitInv
    BY DEF Init, LimitInv
<1>2. UseInv /\ UseInv' /\ LimitInv /\ [Next]_vars => LimitInv'
  <2> SUFFICES ASSUME UseInv, UseInv', LimitInv, [Next]_vars
               PROVE  LimitInv'
      OBVIOUS
  <2>1. ASSUME NEW c \in Requests, Submit(c)
        PROVE  LimitInv'
      BY <2>1, SubmitBounds
  <2>2. CASE UNCHANGED <<policy, history>>
      BY <2>2 DEF LimitInv, Within, Decides, Matched, Targets
  <2>3. QED
      BY <2>1, <2>2 DEF Next, Consume, Wait, vars
<1>3. UseInv /\ LimitInv => LimitBoundsItsRule
    BY LimitInvBounds
<1>4. QED
    BY <1>1, <1>2, <1>3, UseAlways, PTL DEF Spec

=============================================================================
