----------------------------- MODULE MCToolwrit -----------------------------
(***************************************************************************)
(* Small instances of Toolwrit for TLC: the policies and requests the      *)
(* configurations give to its constants.                                   *)
(***************************************************************************)
EXTENDS RunReceipt, TLC

CONSTANTS c1, c2, c3, x

Anything == {x}
ToolNames == {"read", "write", "drop"}

Rule(id, tools, effect, limit) ==
    [id |-> id, tools |-> tools, when |-> Anything, effect |-> effect, limit |-> limit]

Limit(max, perSeconds) == [max |-> max, perSeconds |-> perSeconds]

Read == [tool |-> "read", arg |-> x]
Write == [tool |-> "write", arg |-> x]
Drop == [tool |-> "drop", arg |-> x]

\* Reads are allowed, writes need an approval, nothing else is in the policy.
ReadOrAsk == <<Rule("reads", {"read"}, "allow", None), Rule("writes", {"write"}, "ask", None)>>

Plain(budget, warnAt, rules) ==
    [default |-> "deny", budget |-> budget, warnAt |-> warnAt, rules |-> rules]

\* A budget of two calls and of one token, whose warnings are due together, and
\* a limit of one on the calls that are asked for.
ApprovalPolicy ==
    Plain("calls" :> 2 @@ "tokens" :> 1, {50, 100},
          <<Rule("reads", {"read"}, "allow", None), Rule("writes", {"write"}, "ask", Limit(1, None))>>)

\* Ceilings that one result, or one figure, may pass; one read in any second, one
\* approved write in the run.
WindowedBytesPolicy ==
    Plain("bytes" :> 3 @@ "calls" :> 3 @@ "tokens" :> 1, {60},
          <<Rule("reads", {"read"}, "allow", Limit(1, 1)),
            Rule("writes", {"write"}, "ask", Limit(1, None))>>)

TokenPolicy == Plain("tokens" :> 1, {}, ReadOrAsk)

AllRequests == {Read, Write, Drop}
ReadsAndWrites == {Read, Write}

SomeFigures == {-1, 1}
UnitFigures == {1}
Sizes == {0, 2, 5}
NoBytes == {0}
NoNesting == {}
OneInsideTwo == {<<c2, c1>>}

=============================================================================
