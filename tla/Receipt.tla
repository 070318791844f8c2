------------------------------ MODULE Receipt -------------------------------
(***************************************************************************)
(* Run receipts (js/src/audit/receipt.ts), as pure operators over the      *)
(* entries of a chain.  A payload is a record                              *)
(*   run, at, tool, arg, effect, usage - the fields of the entry           *)
(*   violations - the rules its violations blame                           *)
(* where arg is what the arguments were after redaction: a plan entry has  *)
(* [budget, warnAt], a warning entry [dimension, threshold, used, limit],  *)
(* and a redacted member of either is Redacted.                            *)
(***************************************************************************)
EXTENDS Chain, FiniteSets, SequencesExt

CONSTANTS
    None,       \* null
    Redacted    \* what redaction leaves of an argument

PlanTool == "toolwrit:plan"
WarningTool == "toolwrit:warning"

Nothing == [calls |-> 0, tokens |-> 0, usd |-> 0, bytes |-> 0]

\* The approved envelope, as the first plan entry of the chain has it.
ReadPlan(payloads) ==
    LET plans == SelectSeq(payloads, LAMBDA p : p.tool = PlanTool)
        known(value, absent) == IF value = Redacted THEN absent ELSE value
    IN  IF plans = <<>> THEN None
        ELSE [budget |-> known(plans[1].arg.budget, None), warnAt |-> known(plans[1].arg.warnAt, {})]

\* The warnings, each at the position of its entry.  One whose arguments were
\* redacted is not one.
ReadWarnings(payloads) ==
    LET readable(p) == /\ p.tool = WarningTool
                       /\ \A field \in DOMAIN p.arg : p.arg[field] # Redacted
    IN  [i \in {k \in DOMAIN payloads : readable(payloads[k])} |-> payloads[i].arg]

\* The entries of calls an agent made.
AgentCalls(payloads) ==
    {i \in DOMAIN payloads : payloads[i].tool \notin {PlanTool, WarningTool}}

\* Usage over budget, for each dimension that has a positive limit; time has none.
Fractions(usage, budget) ==
    [dim \in {d \in DOMAIN budget : d \in DOMAIN usage /\ budget[d] > 0} |->
        [used |-> usage[dim], limit |-> budget[dim]]]

\* What a receipt says of the calls: each entry's consumption lags the call it
\* permits, so the permissions are the call total.
Tally(payloads) ==
    LET decided(effect) == {i \in AgentCalls(payloads) : payloads[i].effect = effect}
        denials == decided("deny")
        lastUsage == IF payloads = <<>> THEN Nothing ELSE Last(payloads).usage
        usage == [lastUsage EXCEPT !.calls = Cardinality(decided("allow"))]
        plan == ReadPlan(payloads)
    IN  [plan        |-> plan,
         usage       |-> usage,
         consumed    |-> IF plan = None THEN None
                         ELSE IF plan.budget = None THEN None
                         ELSE Fractions(usage, plan.budget),
         allowed     |-> Cardinality(decided("allow")),
         denied      |-> Cardinality(denials),
         asked       |-> Cardinality(decided("ask")),
         warnings    |-> ReadWarnings(payloads),
         deniedTools |-> [tool \in {payloads[i].tool : i \in denials} |->
                             Cardinality({i \in denials : payloads[i].tool = tool})],
         exceeded    |-> \E i \in denials : "budget" \in payloads[i].violations]

\* summarize(): the head is what the last entry claims, verified or not.
Summarize(entries) ==
    LET payloads == [i \in DOMAIN entries |-> entries[i].payload]
        empty == entries = <<>>
    IN  [run        |-> IF empty THEN "" ELSE Last(entries).payload.run,
         from       |-> IF empty THEN None ELSE Head(entries).payload.at,
         to         |-> IF empty THEN None ELSE Last(entries).payload.at,
         entryCount |-> Len(entries),
         head       |-> IF empty THEN Genesis ELSE Last(entries).hash,
         chainOk    |-> VerifyChain(entries).ok,
         calls      |-> Tally(payloads)]

\* Mutant: the head is not compared.
VerifyAgainstRun(entries, receipt) ==
    LET run == Summarize(entries).run
    IN  IF ~VerifyChain(entries).ok THEN VerifyChain(entries).failure
        ELSE IF receipt.run # "" /\ run # receipt.run THEN "wrong-run"
        ELSE "none"

\* verifyAgainstReceipt(): the chain verifies and is the one the receipt is for.
VerifyAgainstReceipt(entries, receipt) ==
    LET run == Summarize(entries).run
    IN  IF ~VerifyChain(entries).ok THEN VerifyChain(entries).failure
        ELSE IF receipt.run # "" /\ run # receipt.run THEN "wrong-run"
        ELSE IF VerifyChain(entries).head # receipt.head THEN "wrong-head"
        ELSE "none"

=============================================================================
