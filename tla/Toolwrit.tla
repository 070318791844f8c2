------------------------------ MODULE Toolwrit ------------------------------
(***************************************************************************)
(* One Toolwrit instance (js/src/toolwrit.ts): concurrent guard() calls    *)
(* that are decided one at a time against the policy, recorded in the      *)
(* audit log, counted in the ledger and, when permitted, executed.         *)
(*                                                                         *)
(* JavaScript runs one step at a time between awaits, so each action below *)
(* is the code between two awaits of guard(), or one synchronous meter()   *)
(* or spend().  Those two may run while an approval is pending or a tool   *)
(* is executing.                                                           *)
(*                                                                         *)
(* An element of Calls is one invocation of guard().                       *)
(***************************************************************************)
EXTENDS PolicyEngine

CONSTANTS
    Calls,          \* the guard() invocations of the run
    Policy,         \* options.policy
    Tools, Args,    \* tool names, and the argument values told apart
    Requests,       \* the [tool, arg] pairs an agent may ask for
    Results,        \* the sizes a tool result may have, in bytes
    Figures,        \* the figures meter() and spend() may be handed
    HasOnAsk,       \* whether options.onAsk is set
    OnWarnThrows,   \* whether options.onWarn may throw
    Nested,         \* <<outer, inner>>: the tool of outer calls guard() as inner
    MaxClock,       \* bound: the clock stops here
    MaxMetered,     \* bound: no metering once tokens + usd reach this
    MaxFaults       \* bound: how many times audit.record() may throw

PlanTool == "toolwrit:plan"
WarningTool == "toolwrit:warning"
Reserved == {PlanTool, WarningTool}

ASSUME ToolwritAssumption ==
    /\ Policy.default \in Effects
    /\ DOMAIN Policy.budget \subseteq Dimensions
    /\ \A dim \in DOMAIN Policy.budget : Policy.budget[dim] \in Nat \ {0}
    /\ Policy.warnAt \subseteq 1 .. 100
    /\ Policy.rules \in Seq({Policy.rules[i] : i \in DOMAIN Policy.rules})
    /\ Requests \subseteq [tool : Tools, arg : Args]
    /\ Tools \cap Reserved = {}
    /\ Results \subseteq Nat /\ Results # {}
    /\ Figures \subseteq Int
    /\ {HasOnAsk, OnWarnThrows} \subseteq BOOLEAN
    /\ {MaxClock, MaxMetered, MaxFaults} \subseteq Nat
    /\ None \notin Int

\* What loadPolicy() has checked of the rules: each has an id, of its own, and
\* a limit is a number of calls.
ASSUME RulesAsLoaded ==
    /\ \A r, q \in DOMAIN Policy.rules : Policy.rules[r].id = Policy.rules[q].id => r = q
    /\ \A r \in DOMAIN Policy.rules :
           /\ Policy.rules[r].id # None
           /\ Policy.rules[r].limit # None => Policy.rules[r].limit.max \in Nat

VARIABLES
    clock,      \* options.now(), in seconds
    pc,         \* where each guard() is
    call,       \* the ToolCall each guard() made, stamped when it was entered
    queue,      \* the sections chained onto `critical`, oldest first
    verdict,    \* the verdict whose approval is pending
    entryOf,    \* the position of the entry a guard() recorded, or 0
    usage,      \* the ledger
    entries,    \* the audit log
    warned,     \* the <<dimension, threshold>> pairs already reported
    lost,       \* positions of the entries whose append to the file failed
    faults      \* how many times audit.record() has thrown

vars == <<clock, pc, call, queue, verdict, entryOf, usage, entries, warned, lost, faults>>

-----------------------------------------------------------------------------
\* The consumption an audit entry carries.
UsageForAudit(u) == [calls |-> u.calls, tokens |-> u.tokens, usd |-> u.usd, bytes |-> u.bytes]

Entry(toolCall, v, u) ==
    [at |-> toolCall.at, tool |-> toolCall.tool, arg |-> toolCall.arg,
     effect |-> v.effect, rule |-> v.rule, why |-> v.why, usage |-> UsageForAudit(u)]

ToCall(tool, arg) == [tool |-> tool, arg |-> arg, at |-> clock]

\* Mutants: the tool never, or always, runs inside the critical section.
NeverHeld == FALSE
AlwaysHeld == TRUE

\* A declared bytes ceiling keeps the tool inside the critical section.
Held == "bytes" \in DOMAIN Policy.budget

InSection(c) == queue # <<>> /\ Head(queue) = c

Release == queue' = Tail(queue)

-----------------------------------------------------------------------------
(* reportProgress(): every threshold that is crossed and was not reported  *)
(* is recorded, dimension by dimension and in ascending order.             *)

DimensionRank(dim) ==
    CASE dim = "calls" -> 1 [] dim = "tokens" -> 2 [] dim = "usd" -> 3
      [] dim = "bytes" -> 4 [] dim = "seconds" -> 5

Precedes(k, l) ==
    \/ DimensionRank(k[1]) < DimensionRank(l[1])
    \/ k[1] = l[1] /\ k[2] < l[2]

WarningKeys == (DOMAIN Policy.budget) \X Policy.warnAt

Crossed(u, k) == 100 * Consumed(u, k[1], clock) >= k[2] * Policy.budget[k[1]]

Due(u) == {k \in WarningKeys : Crossed(u, k)} \ warned

InOrder(S) ==
    {s \in [1 .. Cardinality(S) -> S] :
        \A i, j \in 1 .. Cardinality(S) : i < j => Precedes(s[i], s[j])}

Warning(k, u) ==
    Entry(ToCall(WarningTool, k), Verdict("allow", "plan", "plan"), u)

RecordWarnings(ws, u) ==
    /\ entries' = entries \o [i \in DOMAIN ws |-> Warning(ws[i], u)]
    /\ warned' = warned \cup {ws[i] : i \in DOMAIN ws}

ReportProgress(u) ==
    \E ws \in InOrder(Due(u)) :
        RecordWarnings(ws, u) /\ UNCHANGED <<lost, faults>>

\* onWarn throws, or the append of the entry does: that warning is recorded
\* and marked as reported, the ones after it are not.
ReportProgressThrows(u) ==
    \E ws \in InOrder(Due(u)) : \E n \in DOMAIN ws :
        /\ RecordWarnings([i \in 1 .. n |-> ws[i]], u)
        /\ \/ OnWarnThrows /\ UNCHANGED <<lost, faults>>
           \/ /\ faults < MaxFaults
              /\ faults' = faults + 1
              /\ lost' = lost \cup {Len(entries) + n}

-----------------------------------------------------------------------------
\* The constructor: the approved envelope is the first entry of the chain.
PlanEntry ==
    Entry([tool |-> PlanTool, arg |-> None, at |-> 0], Verdict("allow", "plan", "plan"), Unused)

Init ==
    /\ clock = 0
    /\ pc = [c \in Calls |-> "idle"]
    /\ call = [c \in Calls |-> None]
    /\ queue = <<>>
    /\ verdict = [c \in Calls |-> None]
    /\ entryOf = [c \in Calls |-> 0]
    /\ usage = Unused
    /\ entries = IF Policy.warnAt = {} THEN <<>> ELSE <<PlanEntry>>
    /\ warned = {}
    /\ lost = {}
    /\ faults = 0

Settled == {"returned", "denied", "failed"}

\* Mutant: the newest waiting call goes first.
GuardNewestFirst(c) ==
    /\ pc[c] = "idle"
    /\ \E request \in Requests :
           call' = [call EXCEPT ![c] = ToCall(request.tool, request.arg)]
    /\ pc' = [pc EXCEPT ![c] = "queued"]
    /\ queue' = IF queue = <<>> THEN <<c>> ELSE <<Head(queue), c>> \o Tail(queue)
    /\ UNCHANGED <<clock, verdict, entryOf, usage, entries, warned, lost, faults>>

\* guard(): the call is stamped now, then waits for its turn.
Guard(c) ==
    /\ pc[c] = "idle"
    /\ \A o \in Calls : <<o, c>> \in Nested => pc[o] = "running"
    /\ \E request \in Requests :
           call' = [call EXCEPT ![c] = ToCall(request.tool, request.arg)]
    /\ pc' = [pc EXCEPT ![c] = "queued"]
    /\ queue' = Append(queue, c)
    /\ UNCHANGED <<clock, verdict, entryOf, usage, entries, warned, lost, faults>>

\* Mutant: the call runs and is counted whatever the verdict.
RecordAnyway(c, v) ==
    /\ entries' = Append(entries, Entry(call[c], v, usage))
    /\ entryOf' = [entryOf EXCEPT ![c] = Len(entries) + 1]
    /\ usage' = CountCall(usage, call[c].at)
    /\ pc' = [pc EXCEPT ![c] = "running"]
    /\ IF Held THEN UNCHANGED queue ELSE Release
    /\ UNCHANGED <<lost, faults>>

\* Mutant: the call is counted before it is recorded.
RecordCountedFirst(c, v) ==
    /\ usage' = IF v.effect = "allow" THEN CountCall(usage, call[c].at) ELSE usage
    /\ entries' = Append(entries, Entry(call[c], v, usage'))
    /\ entryOf' = [entryOf EXCEPT ![c] = Len(entries) + 1]
    /\ pc' = [pc EXCEPT ![c] = IF v.effect = "allow" THEN "running" ELSE "denied"]
    /\ IF Held /\ v.effect = "allow" THEN UNCHANGED queue ELSE Release
    /\ UNCHANGED <<lost, faults>>

\* audit.record() and what follows it in decide(): count the call if it is
\* permitted, leave the section unless the tool runs inside it.  A recorded
\* allow is executed; `execute` is entered with no other await in between that
\* this instance's state depends on.
Record(c, v) ==
    /\ entries' = Append(entries, Entry(call[c], v, usage))
    /\ entryOf' = [entryOf EXCEPT ![c] = Len(entries) + 1]
    /\ UNCHANGED <<lost, faults>>
    /\ \/ /\ v.effect = "allow"
          /\ usage' = CountCall(usage, call[c].at)
          /\ pc' = [pc EXCEPT ![c] = "running"]
          /\ IF Held THEN UNCHANGED queue ELSE Release
       \/ /\ v.effect # "allow"
          /\ pc' = [pc EXCEPT ![c] = "denied"]
          /\ Release
          /\ UNCHANGED usage

\* Mutant: the failure of record() does not stop the call.
RecordThrowsRuns(c, v) ==
    /\ faults < MaxFaults
    /\ faults' = faults + 1
    /\ pc' = [pc EXCEPT ![c] = "running"]
    /\ Release
    /\ UNCHANGED <<usage, entryOf, entries, lost>>

\* Mutant: the call is counted before record() throws.
RecordThrowsCounted(c, v) ==
    /\ faults < MaxFaults
    /\ faults' = faults + 1
    /\ pc' = [pc EXCEPT ![c] = "failed"]
    /\ usage' = CountCall(usage, call[c].at)
    /\ Release
    /\ UNCHANGED <<entryOf, entries, lost>>

\* audit.record() throws, before the entry is pushed (the arguments cannot be
\* cloned) or after it (the append to the file failed).  guard() rejects, and
\* nothing is counted or executed.
RecordThrows(c, v) ==
    /\ faults < MaxFaults
    /\ faults' = faults + 1
    /\ \/ UNCHANGED <<entries, lost>>
       \/ /\ entries' = Append(entries, Entry(call[c], v, usage))
          /\ lost' = lost \cup {Len(entries) + 1}
    /\ pc' = [pc EXCEPT ![c] = "failed"]
    /\ Release
    /\ UNCHANGED <<usage, entryOf>>

\* Mutant: decisions are not serialized.
DecideUnserialized(c) ==
    /\ pc[c] = "queued"
    /\ LET v == Evaluate(call[c], Policy, usage, entries)
       IN  \/ /\ v.effect = "ask"
              /\ verdict' = [verdict EXCEPT ![c] = v]
              /\ pc' = [pc EXCEPT ![c] = "asking"]
              /\ UNCHANGED <<queue, entryOf, usage, entries, lost, faults>>
           \/ /\ v.effect # "ask"
              /\ Record(c, v) \/ RecordThrows(c, v)
              /\ UNCHANGED verdict
    /\ UNCHANGED <<clock, call, warned>>

\* Mutant: an "ask" verdict is recorded without asking.
DecideUnasked(c) ==
    /\ pc[c] = "queued"
    /\ InSection(c)
    /\ Record(c, Evaluate(call[c], Policy, usage, entries))
    /\ UNCHANGED <<clock, call, warned, verdict>>

\* decide(), up to its first await.
Decide(c) ==
    /\ pc[c] = "queued"
    /\ InSection(c)
    /\ LET v == Evaluate(call[c], Policy, usage, entries)
       IN  \/ /\ v.effect = "ask"
              /\ verdict' = [verdict EXCEPT ![c] = v]
              /\ pc' = [pc EXCEPT ![c] = "asking"]
              /\ UNCHANGED <<queue, entryOf, usage, entries, lost, faults>>
           \/ /\ v.effect # "ask"
              /\ Record(c, v) \/ RecordThrows(c, v)
              /\ UNCHANGED verdict
    /\ UNCHANGED <<clock, call, warned>>

\* resolveAsk() settles: without a handler the answer is a refusal.
ResolveAsk(c) ==
    /\ pc[c] = "asking"
    /\ \E effect \in IF HasOnAsk THEN {"allow", "deny"} ELSE {"deny"} :
           LET v == Verdict(effect, verdict[c].rule, "ask")
           IN  Record(c, v) \/ RecordThrows(c, v)
    /\ verdict' = [verdict EXCEPT ![c] = None]
    /\ UNCHANGED <<clock, call, warned>>

\* Mutant: a section that throws is not released.
OnAskThrowsUnreleased(c) ==
    /\ pc[c] = "asking"
    /\ HasOnAsk
    /\ pc' = [pc EXCEPT ![c] = "failed"]
    /\ verdict' = [verdict EXCEPT ![c] = None]
    /\ UNCHANGED <<clock, call, queue, entryOf, usage, entries, warned, lost, faults>>

\* The approval handler throws: the section is left and nothing is recorded.
OnAskThrows(c) ==
    /\ pc[c] = "asking"
    /\ HasOnAsk
    /\ pc' = [pc EXCEPT ![c] = "failed"]
    /\ verdict' = [verdict EXCEPT ![c] = None]
    /\ Release
    /\ UNCHANGED <<clock, call, entryOf, usage, entries, warned, lost, faults>>

ToolSettles(c) ==
    /\ pc[c] = "running"
    /\ \A i \in Calls : <<c, i>> \in Nested => pc[i] \in Settled
    /\ IF Held THEN Release ELSE UNCHANGED queue
    /\ UNCHANGED <<clock, call, verdict, entryOf>>

\* Mutant: returned bytes are counted and not reported.
ReturnUnreported(c) ==
    /\ ToolSettles(c)
    /\ \E bytes \in Results : usage' = AddBytes(usage, bytes, call[c].at)
    /\ pc' = [pc EXCEPT ![c] = "returned"]
    /\ UNCHANGED <<entries, warned, lost, faults>>

\* execute() returns: its bytes are counted at the call's own timestamp.
Return(c) ==
    /\ ToolSettles(c)
    /\ \E bytes \in Results :
           LET u == AddBytes(usage, bytes, call[c].at)
           IN  /\ usage' = u
               /\ \/ ReportProgress(u) /\ pc' = [pc EXCEPT ![c] = "returned"]
                  \/ ReportProgressThrows(u) /\ pc' = [pc EXCEPT ![c] = "failed"]

\* Mutant: a tool that throws keeps the section.
ToolThrowsHolding(c) ==
    /\ pc[c] = "running"
    /\ \A i \in Calls : <<c, i>> \in Nested => pc[i] \in Settled
    /\ pc' = [pc EXCEPT ![c] = "failed"]
    /\ UNCHANGED <<clock, call, queue, verdict, entryOf, usage, entries, warned, lost, faults>>

\* execute() throws: no bytes are counted and no threshold is looked at.
ToolThrows(c) ==
    /\ ToolSettles(c)
    /\ pc' = [pc EXCEPT ![c] = "failed"]
    /\ UNCHANGED <<usage, entries, warned, lost, faults>>

-----------------------------------------------------------------------------
\* meter() and spend(): synchronous, at any moment between two awaits.  A
\* figure the ledger refuses throws before anything has changed.
Metered(u) ==
    /\ usage.tokens + usage.usd < MaxMetered
    /\ usage' = u
    /\ ReportProgress(u) \/ ReportProgressThrows(u)
    /\ UNCHANGED <<clock, pc, call, queue, verdict, entryOf>>

Meter(tokens, usd) ==
    /\ RequireConsumption(tokens)
    /\ RequireConsumption(usd)
    /\ Metered(AddTokens(usage, tokens, usd, clock))

Spend(usd) ==
    /\ RequireConsumption(usd)
    /\ Metered(AddSpend(usage, usd, clock))

Tick ==
    /\ clock < MaxClock
    /\ clock' = clock + 1
    /\ UNCHANGED <<pc, call, queue, verdict, entryOf, usage, entries, warned, lost, faults>>

-----------------------------------------------------------------------------
Next ==
    \/ \E c \in Calls :
           \/ Guard(c)
           \/ Decide(c)
           \/ ResolveAsk(c)
           \/ OnAskThrows(c)
           \/ Return(c)
           \/ ToolThrows(c)
    \/ \E tokens, usd \in Figures : Meter(tokens, usd)
    \/ \E usd \in Figures : Spend(usd)
    \/ Tick

Spec == Init /\ [][Next]_vars

\* The event loop runs every settled promise's continuation, and the tool of a
\* nested call does make it.  Approval handlers and tools are assumed to
\* settle: the code has no timeout of its own.
Fairness ==
    \A c \in Calls :
        /\ WF_vars(Decide(c))
        /\ WF_vars(ResolveAsk(c) \/ OnAskThrows(c))
        /\ WF_vars(Return(c) \/ ToolThrows(c))
        /\ WF_vars((\E o \in Calls : <<o, c>> \in Nested) /\ Guard(c))

FairSpec == Spec /\ Fairness

-----------------------------------------------------------------------------
(*                              Properties                                 *)

Permitted(c) == entryOf[c] # 0 /\ entries[entryOf[c]].effect = "allow"

\* The entries of agent calls: the plan and the warnings are not calls.
IsCall(i) == entries[i].tool \notin Reserved

Limited == DOMAIN Policy.budget

ToolCalls == [tool : Tools, arg : Args, at : Nat]

RuleNames == {Policy.rules[i].id : i \in DOMAIN Policy.rules} \cup {"plan", None}

Whys == {"budget", "limit", "rule", "default", "arguments", "ask", "plan"}

Pending == [effect : {"ask"}, rule : RuleNames, why : Whys]

AuditEntries ==
    [at : Nat, tool : Tools \cup Reserved, arg : Args \cup WarningKeys \cup {None},
     effect : {"allow", "deny"}, rule : RuleNames, why : Whys,
     usage : [calls : Nat, tokens : Nat, usd : Nat, bytes : Nat]]

\* Every variable has its type.
TypeOK ==
    /\ clock \in Nat
    /\ pc \in [Calls -> {"idle", "queued", "asking", "running"} \cup Settled]
    /\ call \in [Calls -> ToolCalls \cup {None}]
    /\ \A c \in Calls : pc[c] # "idle" => call[c] \in ToolCalls
    /\ queue \in Seq(Calls)
    /\ verdict \in [Calls -> Pending \cup {None}]
    /\ \A c \in Calls : pc[c] = "asking" => verdict[c] \in Pending
    /\ entryOf \in [Calls -> Nat]
    /\ usage \in [calls : Nat, tokens : Nat, usd : Nat, bytes : Nat, startedAt : Nat \cup {None}]
    /\ entries \in Seq(AuditEntries)
    /\ warned \subseteq WarningKeys
    /\ lost \subseteq DOMAIN entries
    /\ faults \in Nat

\* A call that has, or waits for, a place in the critical section.
InLine(c) == pc[c] \in {"queued", "asking"} \/ (Held /\ pc[c] = "running")

\* serialize(): a call that awaits its approval, or runs its tool under a bytes
\* ceiling, is the one section in progress; and exactly the calls that are in
\* or wait for a section are in the queue, once each.
SectionExclusive ==
    /\ \A c \in Calls :
           pc[c] = "asking" \/ (Held /\ pc[c] = "running") => InSection(c)
    /\ \A i, j \in DOMAIN queue : queue[i] = queue[j] => i = j
    /\ \A c \in Calls : (\E i \in DOMAIN queue : queue[i] = c) <=> InLine(c)

\* guard() writes the decision before it runs the tool: a tool that runs, or
\* has run, has an entry of its own that allows this very call.
RecordedBeforeRun ==
    \A c \in Calls : pc[c] \in {"running", "returned"} =>
        /\ entryOf[c] \in DOMAIN entries
        /\ LET e == entries[entryOf[c]]
           IN  e.effect = "allow" /\ e.tool = call[c].tool
               /\ e.arg = call[c].arg /\ e.at = call[c].at
        /\ \A d \in Calls : entryOf[d] = entryOf[c] => d = c

\* However many guards run at once and however long their approvals take, no
\* more calls are permitted than the budget has.
CallsCeiling == "calls" \in Limited => usage.calls <= Policy.budget["calls"]

\* A bytes ceiling bounds a run at the limit plus one call.
BytesCeiling ==
    "bytes" \in Limited =>
        \E bytes \in Results : usage.bytes < Policy.budget["bytes"] + bytes

\* The calls of a log that a rule's limit bounds for a call made at `at`: those
\* that were permitted in the rule's name and, when the limit has a window, are
\* younger than the window is long.
CallsWithin(log, rule, at) ==
    {j \in DOMAIN log :
        /\ log[j].tool \notin Reserved
        /\ log[j].effect = "allow"
        /\ log[j].rule = rule.id
        /\ rule.limit.perSeconds = None \/ log[j].at > at - rule.limit.perSeconds}

CallsBefore(i, rule) == CallsWithin(SubSeq(entries, 1, i - 1), rule, entries[i].at)

\* However many guards wait and however long their approvals take, a call that
\* is permitted in the name of a rule with a limit is one of at most `max` that
\* were, over the window that ends when it was made.
RateLimitHolds ==
    \A i \in DOMAIN entries : \A r \in DOMAIN Policy.rules :
        LET rule == Policy.rules[r]
        IN  IsCall(i) /\ entries[i].effect = "allow" /\ entries[i].rule = rule.id
                /\ rule.limit # None
            => Cardinality(CallsBefore(i, rule)) < rule.limit.max

\* A limit refuses only on account of calls that were permitted: its window
\* holds `max` of them, and no refusal, plan or warning stands in for one.
LimitsCountCalls ==
    \A i \in DOMAIN entries : \A r \in DOMAIN Policy.rules :
        LET rule == Policy.rules[r]
        IN  IsCall(i) /\ entries[i].why = "limit" /\ entries[i].rule = rule.id
            => Cardinality(CallsBefore(i, rule)) >= rule.limit.max

\* An entry replays when the policy, the entries before it and the consumption
\* it carries lead to the verdict it holds.
Replay(i) ==
    LET e == entries[i]
        seen == [calls |-> e.usage.calls, tokens |-> e.usage.tokens, usd |-> e.usage.usd,
                 bytes |-> e.usage.bytes, startedAt |-> None]
    IN  Evaluate([tool |-> e.tool, arg |-> e.arg, at |-> e.at], Policy, seen,
                 SubSeq(entries, 1, i - 1))

\* A verdict that needed no approval can be replayed from its entry.
UnaskedReplayable ==
    \A i \in DOMAIN entries : IsCall(i) /\ entries[i].why # "ask" =>
        LET e == entries[i] IN Replay(i) = Verdict(e.effect, e.rule, e.why)

\* Calls are decided in the order they were made, approvals included.
DecidedInOrder ==
    \A i, j \in DOMAIN entries :
        i < j /\ IsCall(i) /\ IsCall(j) => entries[i].at <= entries[j].at

Unreported(dims) == {k \in WarningKeys : k[1] \in dims /\ Crossed(usage, k)} \ warned

\* A crossed threshold has been reported, unless recording failed.  Only calls
\* may be unreported, while a permitted call has not returned.
CrossedIsReported ==
    faults = 0 /\ ~OnWarnThrows =>
        /\ Unreported({"tokens", "usd", "bytes"}) = {}
        /\ Unreported({"calls"}) # {} =>
               \E c \in Calls : Permitted(c) /\ pc[c] \in {"running", "failed"}

\* A step that lets a call run, in a state where the dimensions of `dims` that
\* have a ceiling are below it.
RunsBelow(dims) ==
    \A c \in Calls : pc[c] # "running" /\ pc'[c] = "running" =>
        \A dim \in dims \cap Limited : Consumed(usage, dim, clock) < Policy.budget[dim]

\* No call is let through at an exhausted calls or bytes budget: whatever
\* changes these is inside the section, so an approval cannot outlive them.
CallsAndBytesEnforced == [][RunsBelow({"calls", "bytes"})]_vars

\* An exhausted budget denies everything.
ExhaustedDenies == [][RunsBelow({"calls", "tokens", "usd", "bytes"})]_vars

\* An exhausted budget stays exhausted for the rest of the run.
ExhaustedStays ==
    [][\A dim \in Limited :
          Consumed(usage, dim, clock) >= Policy.budget[dim] =>
          Consumed(usage', dim, clock') >= Policy.budget[dim]]_vars

\* Every guard() settles, given approval handlers and tools that do.
EveryGuardSettles == \A c \in Calls : pc[c] # "idle" ~> pc[c] \in Settled

\* A tool that runs inside the critical section waits for a guard() of its own,
\* which waits for the section.
SelfWait == Held /\ \E p \in Nested : pc[p[1]] = "running" /\ pc[p[2]] = "queued"

\* Under a bytes ceiling a tool that guards waits for itself; nothing else ever
\* keeps a guard() from settling.
OnlySelfWaitStalls == \A c \in Calls : pc[c] # "idle" ~> (pc[c] \in Settled \/ SelfWait)

-----------------------------------------------------------------------------
(* What guard() promises, see Writ.                                        *)

Fate(place) ==
    CASE place = "idle"                   -> "new"
      [] place \in {"queued", "asking"}   -> "waiting"
      [] place = "running"                -> "executing"
      [] place = "returned"               -> "completed"
      [] place = "denied"                 -> "refused"
      [] place = "failed"                 -> "aborted"

Promise == INSTANCE Writ WITH
    Ceiling <- {Policy.budget[dim] : dim \in Limited \cap {"calls"}},
    fate    <- [c \in Calls |-> Fate(pc[c])],
    record  <- [c \in Calls |-> IF entryOf[c] = 0 THEN "none" ELSE entries[entryOf[c]].effect],
    permits <- usage.calls

\* Every behaviour of the instance is one of the abstract enforcement point.
ImplementsWrit == Promise!Spec

=============================================================================
