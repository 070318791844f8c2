----------------------------- MODULE RunReceipt -----------------------------
(***************************************************************************)
(* The receipt of the log that one Toolwrit instance keeps, summarize() of *)
(* js/src/audit/receipt.ts, at any moment of the run.                      *)
(***************************************************************************)
EXTENDS Toolwrit

Receipts == INSTANCE Receipt WITH Genesis <- None, Malformed <- None, Redacted <- None

\* Null is not the name of a dimension.
ASSUME NoneIsNoDimension == None \notin Dimensions

\* The arguments that the entries of Toolwrit itself stand for.  What a warning
\* says was used is left out.
Said(e) ==
    CASE e.tool = PlanTool -> [budget |-> Policy.budget, warnAt |-> Policy.warnAt]
      [] e.tool = WarningTool ->
            [dimension |-> e.arg[1], threshold |-> e.arg[2], limit |-> Policy.budget[e.arg[1]]]
      [] OTHER -> e.arg

\* The rules that the violations of a refusal blame.
Blamed(e) ==
    CASE e.why = "budget"    -> {"budget"}
      [] e.why = "arguments" -> {Policy.rules[i].id : i \in NearMisses(Policy, e)}
      [] OTHER               -> {IF e.rule = None THEN "policy" ELSE e.rule}

Payload(e) ==
    [run |-> "run", at |-> e.at, tool |-> e.tool, arg |-> Said(e), effect |-> e.effect,
     violations |-> IF e.effect = "allow" THEN {} ELSE Blamed(e), usage |-> e.usage]

RunTally == Receipts!Tally([i \in DOMAIN entries |-> Payload(entries[i])])

-----------------------------------------------------------------------------
CallsWith(effect) == {i \in DOMAIN entries : IsCall(i) /\ entries[i].effect = effect}

\* The calls that were refused because a ceiling had been reached.
OverBudget == {i \in CallsWith("deny") : entries[i].why = "budget"}

Exhausted == \E dim \in Limited : Consumed(usage, dim, clock) >= Policy.budget[dim]

\* The receipt tells what the run did: every call that was counted, and every
\* permission whose append failed; no more consumption than the ledger has;
\* that the budget was exceeded when a call was refused for it, and only while
\* it still is exhausted; and the thresholds that were reported, each once.
ReceiptTellsTheRun ==
    LET receipt == RunTally
        reported(i) == <<receipt.warnings[i].dimension, receipt.warnings[i].threshold>>
    IN  /\ receipt.allowed = usage.calls + Cardinality(CallsWith("allow") \cap lost)
        /\ \A dim \in {"tokens", "usd", "bytes"} : receipt.usage[dim] <= usage[dim]
        /\ receipt.asked = 0
        /\ OverBudget # {} => receipt.exceeded
        /\ receipt.exceeded => Exhausted
        /\ {reported(i) : i \in DOMAIN receipt.warnings} = warned
        /\ \A i, j \in DOMAIN receipt.warnings : reported(i) = reported(j) => i = j

=============================================================================
