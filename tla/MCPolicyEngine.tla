--------------------------- MODULE MCPolicyEngine ---------------------------
(***************************************************************************)
(* A small instance of PolicyUse for TLC: its policies are drawn from a    *)
(* small pool of rules in every order.                                     *)
(***************************************************************************)
EXTENDS PolicyUse, TLC

CONSTANT MaxRules

Names == {"read", "write"}
Values == {"x", "y"}

Rule(id, when, effect, limit) ==
    [id |-> id, tools |-> {"read"}, when |-> when, effect |-> effect, limit |-> limit]

Pool == {Rule("windowed", Values, "allow", [max |-> 1, perSeconds |-> 2]),
         Rule("open", {"x"}, "allow", None),
         Rule("asks", {"y"}, "ask", [max |-> 1, perSeconds |-> None]),
         Rule("denies", {"y"}, "deny", None)}

RuleLists ==
    UNION {{rules \in [1 .. n -> Pool] : \A i, j \in 1 .. n : rules[i] = rules[j] => i = j}
              : n \in 0 .. MaxRules}

Budgets == {<<>>, "calls" :> 2 @@ "tokens" :> 2}

SmallPolicies ==
    [default : {"deny", "allow"}, budget : Budgets, warnAt : {{}}, rules : RuleLists]

=============================================================================
