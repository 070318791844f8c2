----------------------------- MODULE PolicyUse ------------------------------
(***************************************************************************)
(* The decision function in sequential use: each step submits a call and   *)
(* records its verdict, meters tokens, or lets time pass.  The log and the *)
(* ledger are those that such use builds, of a run without a plan whose    *)
(* results have no size; plans, bytes and concurrent calls are Toolwrit's. *)
(***************************************************************************)
EXTENDS ToolListing

CONSTANTS
    Policies,   \* the policies loadPolicy() returns, without a plan
    Tools,      \* the tools an agent may call
    Args,       \* the arguments of a call
    MaxEntries, \* bound: the calls of a run
    MaxTokens,  \* bound: the tokens metered
    MaxTime     \* bound: the time a run takes

\* What loadPolicy() has checked of a policy.
ASSUME PoliciesAreLoaded ==
    /\ None \notin Int
    /\ \A p \in Policies :
           /\ p.default \in Effects
           /\ DOMAIN p.budget \subseteq Dimensions
           /\ \A dim \in DOMAIN p.budget : p.budget[dim] \in Nat \ {0}
           /\ p.rules \in Seq({p.rules[i] : i \in DOMAIN p.rules})
           /\ \A i \in DOMAIN p.rules : p.rules[i].effect \in Effects /\ p.rules[i].id # None
           /\ \A i, j \in DOMAIN p.rules : p.rules[i].id = p.rules[j].id => i = j
           /\ \A i \in DOMAIN p.rules : p.rules[i].limit # None =>
                  /\ p.rules[i].limit.max \in Nat
                  /\ p.rules[i].limit.perSeconds \in Nat \cup {None}

VARIABLES policy, usage, history, now

vars == <<policy, usage, history, now>>

Call(tool, arg, at) == [tool |-> tool, arg |-> arg, at |-> at]

Requests == {Call(tool, arg, now) : tool \in Tools, arg \in Args}

Init == policy \in Policies /\ usage = Unused /\ history = <<>> /\ now = 0

Attributed(c, effect, rule) ==
    [at |-> c.at, tool |-> c.tool, arg |-> c.arg, effect |-> effect, rule |-> rule]

\* A call, and its entry; an "ask" is answered with or without approval.
Submit(c) ==
    /\ Len(history) < MaxEntries
    /\ \E effect \in {"allow", "deny"} :
          LET v == Evaluate(c, policy, usage, history)
          IN  /\ v.effect \in {effect, "ask"}
              /\ history' = Append(history, Attributed(c, effect, v.rule))
              /\ usage' = IF effect = "allow" THEN CountCall(usage, now) ELSE usage
    /\ UNCHANGED <<policy, now>>

Consume ==
    /\ usage.tokens < MaxTokens
    /\ usage' = AddTokens(usage, 1, 0, now)
    /\ UNCHANGED <<policy, history, now>>

Wait == now < MaxTime /\ now' = now + 1 /\ UNCHANGED <<policy, usage, history>>

Next == (\E c \in Requests : Submit(c)) \/ Consume \/ Wait

Spec == Init /\ [][Next]_vars

-----------------------------------------------------------------------------
EffectOf(c, rules) ==
    Evaluate(c, [default |-> policy.default, budget |-> policy.budget, rules |-> rules],
             usage, history).effect

Reorderings ==
    LET positions == DOMAIN policy.rules
    IN  {p \in [positions -> positions] : \A i \in positions : \E j \in positions : p[j] = i}

\* The verdict's effect does not depend on the order the rules are written in:
\* deny beats ask beats allow, and a spent limit denies wherever its rule is.
OrderIrrelevant ==
    \A c \in Requests : \A p \in Reorderings :
        EffectOf(c, [i \in DOMAIN policy.rules |-> policy.rules[p[i]]]) = EffectOf(c, policy.rules)

\* More consumption never turns a refusal into anything else.
ConsumptionNeverOpens ==
    \A c \in Requests : \A tokens \in 0 .. 1, calls \in 0 .. 1 :
        LET more == [usage EXCEPT !.tokens = @ + tokens, !.calls = @ + calls]
        IN  Evaluate(c, policy, usage, history).effect = "deny"
            => Evaluate(c, policy, more, history).effect = "deny"

Allowed == [i \in {k \in DOMAIN history : history[k].effect # "deny"} |-> history[i]]

\* A refused call does not use up a quota: leaving the refusals out of the
\* history changes no verdict.
RefusalsAreFree ==
    \A c \in Requests : Evaluate(c, policy, usage, history) = Evaluate(c, policy, usage, Allowed)

\* A tool that tools/list hides can never be permitted, whatever its arguments.
HiddenIsRefused ==
    \A tool \in Tools \ VisibleTools(policy, Tools) : \A arg \in Args :
        Evaluate(Call(tool, arg, now), policy, usage, history).effect = "deny"

\* Once the calls of a window are perSeconds old its capacity is back.
CapacityReturns ==
    \A i \in DOMAIN policy.rules : \A tool \in Tools, arg \in Args :
        LET limit == policy.rules[i].limit
        IN  limit # None /\ limit.max > 0 /\ limit.perSeconds # None =>
                ~LimitSpent(policy.rules[i], Call(tool, arg, now + limit.perSeconds), history)

\* The calls that rule i is the one to decide: it accepts them, and so does no
\* stricter rule, and none as strict that is written before it.
Decides(i, c) ==
    LET strictness == [allow |-> 0, ask |-> 1, deny |-> 2]
        strict(j) == strictness[policy.rules[j].effect]
        matched == Matched(policy, c)
    IN  /\ i \in matched
        /\ \A j \in matched : strict(j) < strict(i) \/ (strict(j) = strict(i) /\ i <= j)

\* A limit bounds the calls that its rule decides, at any call of a run and over
\* the window that ends with it, whichever rules the calls between them matched.
LimitBoundsItsRule ==
    \A i \in DOMAIN policy.rules : \A n \in DOMAIN history :
        LET limit == policy.rules[i].limit
            within == {m \in 1 .. n :
                          /\ history[m].effect = "allow"
                          /\ Decides(i, history[m])
                          /\ limit.perSeconds = None
                                 \/ history[m].at > history[n].at - limit.perSeconds}
        IN  limit # None => Cardinality(within) <= limit.max

=============================================================================
