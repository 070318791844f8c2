# toolwrit in TLA+

Toolwrit holds an AI agent to a written policy: every tool call passes
`guard()`, which decides it against the policy and the run's budget, writes the
decision into a hash-chained audit log and only then lets the tool run.  This
directory models that machinery, checks it with TLC and proves its central
properties with TLAPS.

All paths below are relative to the repository root.  The models follow the
TypeScript implementation (`js/src`), of which the Python port
(`python/src/toolwrit`) is a translation.

## The system

| Part | Source | State | Operations | Model |
|---|---|---|---|---|
| Ledger | `js/src/budget/ledger.ts` | calls, tokens, usd, bytes, start of the run | `countCall`, `addTokens`, `addUsage`, `addBytes`, `addSpend` | `Ledger` |
| Policy engine | `js/src/policy/engine.ts` | none | `evaluate`, `checkBudget`, `countRecent` | `PolicyEngine` |
| Toolwrit instance | `js/src/toolwrit.ts` | decision queue `critical`, reported thresholds, the ledger, the audit log | `guard`, `check`, `meter`, `spend`, `history` | `Toolwrit` |
| Audit log | `js/src/audit/chain.ts` | entries in memory, last hash, the file | `record`, `head`, `history` | `AuditChain`, `Chain` |
| Verification | `js/src/audit/verify.ts` | none | `verifyChain`, `verifyFile` | `Chain` |
| MCP proxy | `js/src/adapters/mcp-proxy.ts` | pending responses, handlers in flight, the child process, the transport | lines from either side, `start`, `stop`, the child's exit, `visibleTools` | `McpProxy`, `ToolListing` |
| Globs | `js/src/policy/match.ts` | none (a memo of compiled globs) | `matchesGlob`, `resolvePath` | `Match` |
| Argument constraints | `js/src/policy/constraints.ts` | none | `checkConstraint` key by key | `Constraints`, `Equality` |
| Policy loader | `js/src/policy/load.ts` | none | validation of a document, the scan for nested quantifiers | `PolicyLoad` |
| Canonical form | `js/src/audit/chain.ts` | none | `canonicalize`, `redactArgs`, and the JSON that is written | `Canonical` |
| Receipts and anchors | `js/src/audit/receipt.ts`, `js/src/cli.ts` | anchor file, anchor commands under way | `summarize`, `verifyAgainstReceipt`, `toolwrit anchor`, `toolwrit verify --against` | `Receipt`, `Anchors` |
| Timestamps | `js/src/audit/timestamp.ts` | none | `requestTimestamp`, `verifyTimestamp` | `Timestamp`, `Anchors`; not the encodings |
| File stamps | `js/src/audit/stamp.ts` | none | a timestamp for a file's digest | not modelled |
| Drift | `js/src/audit/drift.ts` | none | comparison of a run with the runs before it | `Drift` |
| SDK adapters | `js/src/adapters/sdk.ts` | none | `wrapTool`, `guardToolUse`, `guardOpenAIToolCall` | `SdkAdapters` |
| Command line | `js/src/cli.ts` | none but the anchor file | commands that call one component and print | `anchor`, `verify` in `Anchors` |
| Python port | `python/src/toolwrit` | as above, an asyncio lock instead of the promise queue | as above | not modelled |
| Site, examples, CI | `site`, `js/examples`, `.github` | none | | not modelled |

How they interact.  A host program, or the MCP proxy, calls `guard()`; any
number of calls may be in flight.  `serialize()` chains a *section* per call
onto the promise `critical`, so decisions are made one after the other; a
section evaluates the policy against a snapshot of the ledger and the log,
awaits the approval handler if the verdict is "ask", records the entry, counts
the call and leaves.  The tool runs after the section, unless the policy has a
bytes ceiling, in which case it runs inside it.  `meter()` and `spend()` are
synchronous and touch the ledger and the log at any moment between two awaits.
The log is written to a file as it grows; the file outlives the process and is
verified by somebody else, who may hold it against a receipt that was anchored,
under a timestamp of a third party, while the log was still growing.  The SDK
adapters and the MCP proxy stand between a model's calls and `guard()`.

What is hard about it.  Between the evaluation of a call and its entry an
approval may take minutes, in which other callbacks meter consumption; calls are
stamped when they are made and decided when their turn comes; sections, tools,
callbacks and file appends throw; limits are counted from the log, which also
holds entries that are not calls; windows and ceilings have edges.  Anchor
commands overlap with each other and with the run, and their answers come late,
again, altered or never.  What was hashed has to be what a reader of the file
hashes again, for every JavaScript value.  A policy is a document that people
write, and each of its fields could switch a check off by a slip.
`PROJECT.json` lists these hazards by line, with the properties aimed at each.

What makes each part correct.  *Engine:* refusals beat approvals beat
permissions whatever the order of the rules; a refusal costs nothing; capacity
returns when a window has passed; a limit bounds the calls its rule decides.  *Instance:* one section at a time; evidence
before effect; ceilings hold under any concurrency; ledger and log agree;
crossed thresholds are reported, once; a decision can be replayed from its
entry; every guard settles.  *Log:* what verifies is one process's log from its
start; every edit is noticed.  *Anchors:* no log passes but the one that was
recorded, up to an entry that was anchored; what has been anchored stays
verifiable; a timestamp vouches for the moment of its request.  *Adapters:* no
handler runs without a permission, and the loop hears what happened.  *Loader:*
a document that loads is one the engine can enforce as its author wrote it.
*Proxy:* no tools/call
gets around `guard()`; every request gets its own answer, once; shutdown answers
what is owed and ends the transport.

## Modules

| Module | What it is |
|---|---|
| `Ledger` | the ledger as a record, its methods as operators from one ledger to the next |
| `PolicyEngine` | the decision function `Evaluate(call, policy, usage, history)` and its parts; extends `Ledger` |
| `Toolwrit` | the state machine of one instance; extends `PolicyEngine`; its properties |
| `RunReceipt` | the receipt of an instance's log at any moment of its run, and what it must say; extends `Toolwrit`, instantiates `Receipt` |
| `PolicyUse` | the decision function in sequential use, over any set of policies; extends `ToolListing` |
| `Writ` | the abstract enforcement point that an instance implements |
| `Chain` | the hash chain as operators: sealing an entry, verifying entries or lines |
| `AuditChain` | the log and its file over several processes; extends `Chain` |
| `Receipt` | `summarize` and `verifyAgainstReceipt` over a chain; extends `Chain` |
| `Timestamp` | the check of a timestamp token, over symbolic signatures |
| `Anchors` | anchoring and verifying a log while it grows; extends `AuditChain`, `Receipt`, `Timestamp` |
| `McpProxy` | the stdio proxy, composed with `Writ` as its `guard()` |
| `ToolListing` | which tools the proxy lets a client see; extends `PolicyEngine` |
| `SdkAdapters` | the adapters for agent loops, composed with `Writ` |
| `JsValue` | JavaScript values as tagged records |
| `Match`, `Constraints`, `PolicyLoad` | globs and paths, argument constraints, the loader; `PolicyLoad` makes the `PolicyEngine`'s policies of documents |
| `Canonical` | redaction, canonical form and JSON of a call's arguments |
| `Equality` | `deepEqual()`, the value that instances give to the constant `DeepEqual` of `Constraints` |
| `Drift` | profiles of runs and findings |
| `FunctionProperties` | what globs, regular expressions, the loader and drift promise of any input; extends `PolicyLoad` and `Drift` |
| `MCToolwrit`, `MCPolicyEngine`, `MCAnchors`, `MCMcpProxy`, `MCFunctions` | instances of `RunReceipt`, `PolicyUse`, `Anchors`, `McpProxy` and `FunctionProperties` for TLC; the last builds inputs of the pure functions step by step |
| `PolicyEngineProofs`, `PolicyUseProofs`, `ToolwritProofs`, `ToolwritLogProofs`, `AuditProofs`, `McpProxyProofs`, `SdkAdaptersProofs`, `FunctionProofs` | theorems |

### Toolwrit

JavaScript runs to the next `await` without interruption, so an action is the
code between two awaits:

| Action | Code |
|---|---|
| `Guard(c)` | `guard()`: stamps the call (`call`), appends its section to `queue` |
| `Decide(c)` | the head of the queue evaluates; it asks, or records its verdict |
| `ResolveAsk(c)`, `OnAskThrows(c)` | `resolveAsk()` settles: the answer is recorded, or the section fails without an entry |
| `Return(c)`, `ToolThrows(c)` | `execute()` settles: bytes counted and thresholds reported, or nothing |
| `Meter`, `Spend` | the synchronous methods, at any time |
| `Tick` | `options.now()` moves |

`Record` is `audit.record()` with what follows it in the section; `RecordThrows`
is its failure, before or after the entry is in memory (`lost` remembers the
second case).  `ReportProgress` records every threshold that is due;
`ReportProgressThrows` stops after the entry at which `onWarn`, or the append,
throws.  `queue` stands for the chain of promises behind `critical`: its head is
the section in progress.

Abstractions.  A rule's globs are the set of tool names they match, and its
constraints the set of argument values they accept.  Time is in whole seconds;
the code's milliseconds matter only in comparisons, which keep their strictness.
A percentage `used / limit >= threshold / 100` is compared as a product of
integers.  Money and tokens are integers; a negative figure stands for every
figure that `requireConsumption` refuses.  The log in this model is the one in
memory, that `countRecent` reads; its hashes and its file are `AuditChain`'s.
`check()` changes nothing and is `Evaluate`.  Reasons and violations are reduced
to `why`.

Two properties are about limits, and neither uses the engine's own count.
`CallsWithin(log, rule, at)` is what the documentation says that a limit bounds:
the calls permitted in the rule's name that are younger than its window.
`RateLimitHolds` says that no permission finds more of them than `max` admits,
`LimitsCountCalls` that no refusal for a limit finds fewer.

`SelfWait` is a tool that runs inside its section and has called `guard()`: the
new section waits for the queue, whose head waits for the tool.  That is what
`toolwrit.ts:169` does under a bytes ceiling, and no doc promises otherwise;
`OnlySelfWaitStalls` says that it is the only way a guard never settles.

Two assumptions of `ToolwritAssumption` are the loader's validation (ceilings
are positive, thresholds are in 1..100) and one is about the host: no tool is
called `toolwrit:plan` or `toolwrit:warning`.  `RulesAsLoaded` is validation
too: no two rules have one id, a rule's id is not null and a limit's `max` is a
natural number (`load.ts:140`, `154`, `191`).  That loading ensures all of this is
the theorem `LoadedPoliciesAreAsAssumed`.

### PolicyUse

`Submit(c)` is one call of `guard()` from its evaluation to its entry, an
approval granted or refused included, with no other call in between; `Consume`
is `meter()`, `Wait` is the clock.  A run has no plan and its results have no
size: what the properties ask of a verdict is asked for every policy, log and
ledger that such a run reaches.  An entry keeps the call it is about, so that
`LimitBoundsItsRule` can say which rule decides a call (`Decides`: the first of
the strictest that match) and that at most `max` of those calls are permitted in
a window, whichever names the entries blame.  `PoliciesAreLoaded` is what the loader has
checked of a policy.

### RunReceipt

`Payload` is an entry of the instance as `record()` writes it, with the rules
that its violations blame; `RunTally` is `summarize()` of them.
`ReceiptTellsTheRun` compares the counts of a receipt with the ledger, which
the instance keeps apart from the log, `exceeded` with the budget and the
warnings with `warned`.  A receipt's warnings are a function of the positions
of their entries, which are in the order that the code lists them in; what a
warning says was `used` is left out.  `NoneIsNoDimension` says that null is not
the name of a dimension.  A receipt knows a refusal for the budget by the id
`budget` that it blames, and the loader keeps nobody from giving it to a rule
(`load.ts:154`): a refusal of that rule would be `exceeded` too, so no run has one
and the theorem takes its absence as a hypothesis.

### AuditChain

`logs` has one log per process, `last` the hash of the newest entry of the one
in use, `lines` the file.  `Record` seals an entry, makes it the head and then
appends it; the append succeeds, or throws after none of the line, a part of it
or all of it but its newline (`open`).  `Restart` is a new process that makes a
new `AuditLog` for the same file.  Hashes are injective terms, so the model says
nothing about SHA-256 collisions; `canonicalize` is in `Canonical`.

### Anchors

| Action | Code |
|---|---|
| `AgentRecords` | `AuditLog.record()` of the run that is anchored, as in `AuditChain` |
| `Refused(k)` | `cmdAnchor()` meets a log that does not parse or verify |
| `TakeReceipt(k)`, `AppendReceipt(k)` | `cmdAnchor()` without `--tsa`: the log is read, the line is appended; the agent and other commands act in between |
| `StartAnchor(k)` | with `--tsa`, up to the await of `requestTimestamp()` |
| `StampArrives(k)` | its answer: the token of this request, one of an earlier request, or one whose time was changed; verified, then appended |
| `StampFails(k)`, `StampTimesOut(k)` | it rejects, or the timer of `AbortSignal.timeout` fires |
| `Tick` | the clock of this machine; a due timer fires first |

`AppendAnchor` is `appendFileSync` with its partial failures, as in
`AuditChain`.  `CmdVerify` is `toolwrit verify --against` as a function of the
log it is handed, the anchor file and the options; the properties quantify it
over `Files`, which holds every chain of the run that verifies, recorded or
not, and torn ones.  A certificate names its issuer and the key that signed it,
a signature names its key and what it covers, a digest is what it is of.

`LandedVerifies` says of a line that has landed what `verify` will say of the
log as it was, with the timestamp required and the largest lag the request
allowed.  The log as it *is* fails against its newest anchor once it has grown,
until it is anchored again.  Of two overlapping commands the one that read the log
first may append last, and the last line is the one that counts, although
`cli.ts:576` calls the newest receipt the strongest: no property excludes this, and
the log passes against either.  Two limits are visible besides.  The receipt of an empty log carries no run, so a log that was emptied passes against it.
And a torn line makes the whole anchor file unreadable, for every run in it.

### SdkAdapters

| Action | Code |
|---|---|
| `Arrives(c)` | a call through `wrapTool()`, `guardToolUse()` or `guardOpenAIToolCall()`, well-formed or not |
| `HandlerCalls(c, d)` | a handler calls `guard()` itself |
| `Permit`, `Refuse`, `GuardFails` | `guard()` enters `execute`, throws `ToolwritDenied`, throws something else |
| `Returns`, `ToolFails`, `UnknownTool`, `HandlerEscapes` | how `execute` ends, and what the adapter makes of it |

As for the proxy, `guard()` is `Writ`.  An adapter cannot tell the refusal of a
call that a handler made from one of its own: the loop is then told that the
outer call was refused, although it was permitted and its handler has run.
`AnswersAreTrue` therefore asks only that the refusal is behind a refused call, the
model's own or one that its handler made.

### The pure functions

`Match`, `Constraints`, `PolicyLoad`, `Canonical` and `Drift` translate the
functions, their early returns and the order of their checks over small values.
Names, patterns and paths are sequences of characters or segments; what a
regular expression matches, and the host of a URL, are tables, since their
engines are Node's.  Percentages and medians are scaled to integers.  `Loaded`
turns a document that loads into the sets that `PolicyEngine` works with, so
`LoadedIsAsAssumed` joins the loader to the engine: what `ToolwritAssumption`,
`RulesAsLoaded` and `PoliciesAreLoaded` take for granted (`AsAssumed`) is what
loading ensures, and a run starts below every ceiling.  `PositiveWindowsLimit` and
`OtherKindsAreRefused` ask the same of limits and of arguments of another kind.  `TyposAreRefused` misspells each field of a document that loads
in turn, in every rule, limit and constraint of it.  `Typo` is a word that names
no field (`TypoIsNoField`).

`NestingIsRefused` has two sides: what must be refused (a quantified group with a
quantifier directly in it) and what must not (any expression in which no
quantified group has a quantifier at any depth).  Of the shapes in between, whose
quantifier is in a group in the group, it says nothing: the scan lets them through
and the documentation says it does not.

`LoadedKeepsAPromise` puts that claim with three more that the documentation and the
loader's comments make of every document that loads: its limits refuse when they
are reached (`EveryLimitLimits`), its plan has a dimension to measure
(`PlanIsMeasured`), a text under a numeric bound is no violation
(`BoundsLeaveTextsAlone`), and no group under a quantifier has one in it
(`NestingIsGone`).  The property says that a document keeps one of the four; TLC
finds one that keeps none, so each is refuted.

`Runs` and `TwiceMedian` sort through `Nth`, the value at a position of the sorted
order, and `MatchesGlob` backtracks through a function of a pair of positions:
both are functions rather than recursive operators so that they can be proved
about.  `deepEqual` recurses over values of any shape; it is in a module of its
own, and `Constraints` takes it as a constant.

Edges of the code that the model shares and no property excludes: a `NaN`
argument passes `min` and `max`; a deny rule whose constraint fails on the
argument's type does not match, and `noneOf` passes values of other types;
sparse arrays and boxed primitives hash differently from the JSON that is
written of them; `"01"` reaches an array element in a policy and not in a
redaction path, and redacting the `length` of an array throws.

### McpProxy

The proxy is composed with `Writ`, not with `Toolwrit`: `Guard!Permit` is the
abstract permission, and `Implements` shows that an instance gives no other.
`Permit` is that step together with `forwardToChild()`, which `guard()` calls in
it.  `Held` says that the policy has a bytes ceiling, so that a call waits for the
one that is executing.

| Action | Code |
|---|---|
| `Spawned`, `SpawnFails` | the `spawn` and `error` events of `start()` |
| `ClientCall`, `ClientQuery` | `handleFromClient()` for a tools/call and for any other request |
| `Permit`, `Refuse`, `Return`, `Reply` | `handleToolsCall()` around `guard()` |
| `ChildLine` | `handleFromChild()` |
| `Exit` | the `exit` event, after a crash, an end of input or `stop()` |
| `EndOutput` | `endOutputWhenQuiet()` |
| `ChildAnswers`, `ChildAsks` | the downstream server (external) |

Node runs the continuations of settled promises before the next I/O event:
`Quiet` is a guard of every event that is one.  The lines of one chunk are handled
one after the other without a continuation in between, which `InChunk` allows to
`ChildLine`: only what earlier lines of the chunk have woken may be left to run.  A decision may be an event of its
own, since it may wait for an approval.  Lines that the server wrote before its
exit may be read after the `exit` event, as Node documents; the client may then
see a result after the failure, which `AnsweredOnce` spells out.  Not in the
model: framing and malformed lines, messages without an id or a method (they
only pass through), errors of the streams, the exit status, and a client input
other than `process.stdin`: one that is given in its place goes on being read after
the transport has ended.

## Runs

| Run | Shows |
|---|---|
| `approvals` | three guards, one of them called from inside another's tool, a budget of two calls and one token with two thresholds, an approval under a limit of one, metering at any time, warnings that throw and one failing `record()`: exclusion, evidence before effect, ceilings, a receipt of the log that agrees with the run at every moment (`ReceiptTellsTheRun`: its permissions, its consumption, an exceeded budget, each threshold once), exhaustion for good, replay of unasked verdicts, every guard settled, refinement of `Writ` |
| `held` | four guards, one of them called from inside another's tool, results of 0, 2 and 5 bytes under a ceiling of 3, tools inside the section, one read in any second over two seconds, one approved write, metering at any time: the bytes ceiling is passed by at most one result, thresholds are reported, a limit holds at every permission and refuses none that has a place left, calls are decided in order, and only the tool's wait for its own section keeps a guard from settling |
| `policy_engine` | all policies of up to three rules from a pool of four, both defaults, with and without a budget: the order of rules does not matter, capacity returns, a limit bounds the calls its rule decides |
| `audit_chain` | two processes, three entries each, every way an append may fail: what verifies is one process's log, and edits are detected |
| `anchors` | a run of two entries and two overlapping anchor commands, four kinds of signer, a TSA clock behind by the tolerance, a request that times out after one of two ticks: no log passes but one that was anchored, what has landed verifies, every command ends |
| `mcp_proxy` | two calls, a call without an id, another request, a request of the server, exit at any moment: nothing gets around `guard()`, answers are own and single, what was forwarded is answered |
| `sdk_adapters` | two calls through any of the three adapters and two that handlers make: no handler runs unpermitted, and the loop is told what happened |
| `functions` | globs against a reference definition, regular expressions of up to seven pieces between those that have to be refused and those that must not be, documents three edits away from a valid one, arguments nested three deep, logs of six entries |

Three calls are the smallest number with one in its section, one waiting and
one already running; the fourth of `held` is one more to wait behind the tool that
waits for itself.  No property relates more than two calls and a ledger.
Budgets of two leave room for one permission on each side of an approval, and a
window of one second over two has a call inside and a call on the edge.  Two entries and two commands are enough for an anchor before, between
and after the entries and for two receipts that land in either order; one token
of an earlier request is enough to be replayed.  Patterns of five and names of
four characters hold every meeting of two stars with a separator, and seven
pieces hold a group in a group with a quantifier on each.  Six entries are three
runs of history, the least that drift compares with, and two more in the newest.
`MaxClock`, `MaxTime`, `MaxMetered`, `MaxFaults`, `MaxEntries`, `MaxRuns` and
`MaxLines` bound counters that the code does not bound.  Runs switch deadlock
checking off where every call can finish and nothing is left to do.

Runs that TLC refutes.  Each states what a doc or a comment of the repository
says and the code does not do; `PROJECT.json` quotes the line.

| Run | What happens |
|---|---|
| `exhausted_approved` | an approved call runs at a budget that was used up while it was being approved |
| `audit_chain_shared` | two runs in one file do not verify |
| `mcp_stranded` | a call permitted after the server has exited is forwarded to nobody, and the transport never ends |
| `loaded_claims` | a document loads with `perSeconds: .nan`, a plan beside `budget: {}`, a constraint of `min` alone and the pattern `((a+))+`, and so breaks all four claims |

More limits of the code show in the statements of passing properties rather
than in runs of their own.  Consumption that is metered during an approval is in
the entry and was not in the decision, so `UnaskedReplayable` is about verdicts
that needed no approval.  Entries leave out when the run started
(`UsageForAudit`), so a refusal by a wall-clock ceiling does not replay either,
and a call that waited past that ceiling runs, because it is measured at the
moment it was made.  A limit counts the calls attributed
to its rule, not those that match it, which is what `LimitBoundsItsRule` says of
it.  Thresholds are not looked at when a tool throws (`ToolThrows`), which is
why `CrossedIsReported` lets a failed call leave one unreported.  A request of
the server under the id of a call in progress is taken for its response, and
`OwnReply` is about responses.  A receipt's `asked` is always zero, because an
entry records the verdict after its approval.  The ids `plan` and `budget` are the
log's and the engine's own and not reserved: `LimitsCountCalls` and
`ReceiptTellsTheRun` are checked of policies without rules of these ids, and are false of
policies with them.

## Fairness

`Toolwrit`'s `FairSpec` is that of the runs `approvals`, which checks
`EveryGuardSettles`, and `held`, which checks `OnlySelfWaitStalls`.  `Decide` is weakly fair because
the runtime runs the continuation of a settled promise.  That approvals and
tools settle is an assumption about the host: the code has no timeout of its
own, and a handler that never answers stops every later call.  The nested
`Guard` is fair because the tool that makes it is running code.  Nothing is
assumed of `Guard` otherwise, of metering or of the clock.

`McpProxy`'s `FairSpec` is fair to lines, continuations and decisions, for the same
reasons, and assumes that the server answers what it received or exits.  The
client need not send anything.

`Anchors`' `AnchorsFairSpec` is fair to the clock, to the timer of the request,
which Node runs, and to the append of a receipt that has been taken, which is the
next statement; nothing makes the TSA answer or anybody start a
command, and `AnchorSettles` holds all the same.

## Proofs

Every theorem is about every value of the constants: any policy, any number of
calls, entries, processes, commands and messages.

### The decision function (`PolicyEngineProofs`, `PolicyUseProofs`)

* `PermittedIsAffordable`, `PermittedByEveryRule`, `EffectIgnoresOrder`,
  `HiddenIsAlwaysRefused`: about `Evaluate`, for every policy, ledger and log.
* `OrderNeverMatters`: a reordering keeps the set of rules, on which alone the
  effect depends.  `HiddenStaysRefused` is `HiddenIsAlwaysRefused` in use.
* `ConsumptionOnlyRefuses`: every dimension is monotone in the ledger, and
  `BudgetOnlyRefuses` says that the ledger enters a verdict through
  `CheckBudget` alone.  The proof covers any amount, the property two.
* `RefusalsAreAlwaysFree`: the entries that `countRecent` counts are the same
  with and without the refusals.
* `LimitsBoundTheirRules`: a call that is not refused is attributed to the rule that
  decides it (`DeciderIsNamed`), so counting names counts decisions; a permission
  found room in its rule's limit (`NamedHasRoom`), and time only narrows a window
  (`WindowsNarrow`).
* `CapacityAlwaysReturns` needs the invariant `UseInv`: no entry is of a later
  time than the clock, so a window that begins now is empty.

### The instance (`ToolwritProofs`, `ToolwritLogProofs`)

Under `ToolwritAssumption` and `RulesAsLoaded`:

* `TypeCorrect`: `Spec => []TypeOK`.
* `OneSectionAtATime`: `Spec => []SectionExclusive`.  With `TypeOK` this is
  inductive: the queue is a sequence without repetition of exactly the calls in
  line, and the one that asks, or holds the section while its tool runs, is the
  head.
* `CallsWithinCeiling`, `BytesWithinCeiling`, `NothingRunsExhausted`.  A ceiling
  is not inductive alone: a verdict is given before the approval and counted
  after it.  `BudgetInv` adds `SectionFunded`: a call that asks, or runs inside
  the section, was found below the calls and bytes ceilings, and still is.  It
  holds because only the head of the queue changes these dimensions
  (`SectionExclusive`).  Tokens and dollars have no such invariant, which is
  what run `exhausted_approved` shows.
* `ExhaustionIsFinal`: no step lowers a figure or moves the start of the run
  (`LedgerGrows`), so no dimension's consumption ever falls.
* `EvidenceBeforeEffect`: the entry of a call never changes once written and no
  two calls share one (`EvidenceInv`).
* `DecisionsInOrder`: `OrderInv` says that a call waits behind those made before
  it, and that none which is still to be decided was made before one that has
  been.  The order of the log follows, because a call that asks stays the head.
* `LogReplays`: an entry is written from the ledger and the log that its verdict
  was computed of, and both only grow at their ends.  `Timeless` is a hypothesis
  of it: an entry leaves out when the run began, so no verdict about elapsed
  time can be had from it.
* `RateLimited`: a limit is checked before an approval and used up after it.
  `AskedWithinLimit` says that it still holds while the approval is pending:
  only warnings are recorded meanwhile, and they are no calls.  What the engine
  counts includes every call that the limit bounds (`CallsAreCounted`).
* `LimitsAreNotShort`: and it counts nothing else for a rule that is not called
  `plan` (`CountedAreCalls`), since refusals do not count and the log's own entries
  are in that name (`OwnEntriesNamed`).
* `CrossingsReported`: every step either reports what is due or leaves a
  permitted call that has not returned (`Outstanding`) to account for it; only a
  permission makes the calls dimension grow, and a permission is never taken
  back (`PermittedStays`).
* `ReceiptsTellTheRun`: `ReceiptInv` counts.  The permissions in the log are the
  calls in the ledger and those whose append failed (`CountInv`), no entry is
  ahead of the ledger (`LagInv`), and a refusal for the budget means an
  exhausted one from then on (`RefusedInv`), because a later clock and a larger
  ledger cannot be below a ceiling.  The warnings in the log are the thresholds
  in `warned`, each once (`WarnInv`): what is due has not been reported, and a
  list in strict order names nothing twice (`OrderedIsDistinct`).  Without the
  hypothesis `NoneNamedBudget`, that no rule's id is `budget`, the theorem is
  false: see the end of *Runs*.
* `Implements`: on that evidence every step is a step of `Writ` or leaves it
  unchanged.

### The log and its anchors (`AuditProofs`)

* `MemoryAlwaysVerifies` and `VerifiedIsAlwaysOneLog`.  The invariant `ChainInv`
  says that every log is sound and that every complete line of the file is an
  entry of some log; injective hashes then tie a verified line to the whole
  prefix before it.
* `UntroubledAlwaysVerifies`: while one process appends without a failure the
  lines are its log (`UntroubledInv`).
* `TamperingIsDetected`: `verifyChain` accepts a chain of which a prefix was
  changed only if every later link was made anew; one kept hash gives it away.
* `AcceptedWasAnchored`: what `verify --against` passes is the agent's log up to
  an entry that a landed anchor counts.  The invariant `AnchorsInv` adds to
  `ChainInv` that a receipt, while a command holds it and after it has landed,
  counts entries of the log and quotes the hash of the last of them (`Counts`);
  it stays true as the log grows (`CountsKept`).  A sound chain that ends in the
  hash of entry n is the first n entries (`SameHeadSameChain`).
  `FilesAssumption` says what verified logs are: sequences of entries of this
  run, other receipts being of others.
* `LandedAlwaysVerifies`: `TimesInv` says when things happened.  A command's
  receipt is no newer than its request, whatever was signed under its nonce was
  signed between the request and its timeout, and a line that landed holds the
  receipt its command made under a token that verified (`Stamped`).  A replayed
  or redated answer fails the check of nonce or signature.

### The adapters (`McpProxyProofs`, `SdkAdaptersProofs`)

* `NoBypass`: a tools/call that the server has received is past a decision that
  allowed it (`ForwardedInv`).
* `RepliesAreOwn`, `RepliesAreSingle`: `OwedInv` says that a request in `pending`
  has had no answer, and that one whose answer is still to be read, and which is
  not in `pending`, was failed by the exit.  With `LinesInv` (each line answers a
  request that was delivered, and is written once) the second answer can only be
  the result behind that failure.  The hypothesis `IdsApart` is needed: a request
  of the server under the id of a call in progress is taken for its response.
* `RepliesComeFirst`: once the transport has ended no handler is in progress,
  and none starts (`EndInv`).  It needs no hypothesis about ids.
* `HandlersArePermitted`: for any number of calls, a handler that has run had a
  permission on record, and arguments that parsed.
* `LoopIsToldTheTruth`: an answer is given when its call is over, about a call
  that is over, and neither changes from then on (`AnswerInv`).

### The pure functions (`FunctionProofs`)

For documents, names, expressions and logs of any size; what `deepEqual` answers, what a
regular expression matches and the host of a URL may be anything.

* `LoadedPoliciesAreAsAssumed`: a document that `validatePolicy` passes becomes a
  policy of which all holds that the modules of the instance and of the engine
  assume.  The theorems about those hold of whatever loads.
* `LoadedPoliciesFit`: besides, nothing is spent when a run starts, because ceilings
  are positive.
* `ReachedLimitsRefuse`: a limit that is reached is spent (`ReachedLimitIsSpent`), and
  no rule can then permit the call (`PermittedByEveryRule`), if the window is absent
  or positive.  The third case that loads, `NaN`, is in what `loaded_claims` shows.
* `OtherKindsAreAlwaysRefused`: an argument that violates no key is of the kind each
  key is about (`AcceptedIsOfRightKind`).
* `MisspeltDocumentsAreRefused`: the misspelt word is a field that no list of
  admitted fields has (`MisspeltIsNotAdmitted`), wherever in the document it is.
* `GlobsMatchWhatTheySay`: `match` is the unique function that satisfies its
  equation.  Whether what is left can be cut into pieces (`CutFrom`) satisfies it
  too (`CutStep`), so the two agree at the start (`MatchIsCut`, by induction on
  how much is left).  That the tokens of a pattern are a sequence is an induction
  of the same kind (`TokensExist`, `TokensType`).
* `OutliersAreReported`: a set of numbers has one at each position of its order
  (`NthType`).  At least two of three or more figures are not below the one after
  the middle, and the median is not above it (`MedianIsReached`); a figure that
  stands out from more stands out from less (`ExceedsLess`).

* `NestingIsAlwaysRefused`: the scan finds the tokens of each piece where the
  pieces before end (`ExpandPieces`), and they leave it between two pieces again
  (`PieceScan`).  After each piece it then knows what there is to know: as many
  groups as are open, each with whether a quantifier is its own, and whether one
  followed a group that has one (`Right`, kept by every piece: `RightAfterOpening`,
  `RightAfterClosing`, `RightAfterQuantifier`, `RightAfterOther`).  The property's
  words come to the same: the group that closes was opened by the last piece
  after which it was less deep (`OpenerExists`).  This characterises the scan
  exactly; the property's two sides follow from it.

Induction is by a set of numbers that has zero and the successor of each of its
members (`NatsInSet`), since the library's theorems take an operator.

### What the theorems take for granted

`IdsApart`, `Timeless`, `NoneNamedBudget` and `NoneNamedPlan` exclude behaviours of the code that
are described above.  `OutliersAreReported` asks for a `minHistory` of at least
three, the default: with one earlier run, or two, there is no majority, and
the median is or follows the bad one.  `NestingIsAlwaysRefused` is about
expressions of the six pieces that close no group that they have not opened: any
other makes `new RegExp` throw, and the document is refused for that.
`MalformedIsNoEntry`, `NoneIsNoBody`,
`NoneIsNoRecord`, `NoneIsNoText` and `NoneIsNoDimension` only say that the model's
marks (a torn line, null) are not an entry, a message, a line, a token, a text or a
dimension; TLC's instances satisfy them by using model values.  `ValueSet(V)` says
what a JavaScript value is: each value of `V` is of one of the kinds of `JsValue`,
and its members are in `V` again.

### Only model-checked

* Liveness: `EveryGuardSettles`, `OnlySelfWaitStalls`, `AnchorSettles`, `ForwardedIsAnswered`.  The
  prover has no rule for `ENABLED`, which fairness is made of.
* `RecordedArgumentsSurvive` and `RedactionIsLocal`: redaction, the canonical form and what is read back
  are recursive operators over values of any depth, which the provers cannot
  expand.
* What the runs refute.

### Proved and not run

`ConsumptionNeverOpens`, `RefusalsAreFree` and `HiddenIsRefused` of `PolicyUse`, and
`MemoryVerifies` and `UntroubledFileVerifies` of `AuditChain`: the proofs cover them,
and the runs keep to what takes several steps to break.

## Not modelled

* DER, CMS and X.509 parsing and the choice of algorithms in `timestamp.ts`:
  byte-level decoding without state.  `Timestamp` has every comparison made
  with what was decoded.
* `stamp.ts`: hashes a file and calls `requestTimestamp` or `verifyTimestamp`.
* Parsing of arguments and printing in `cli.ts`, YAML, texts of reasons and errors.
* The engines of regular expressions and URLs, and SHA-256: tables, and an
  injective function.
* The Python port.  It translates the modelled code section by section, with
  the same tests and a suite that compares the two (`python/tests/interop`); its
  `_js.py` reproduces JavaScript's number formatting.  A second model of the same
  protocol would check the same properties again.
* Errors of the proxy's streams, and framing.  A write to a server that has died
  before its exit event came is a hazard that no property covers.

## What is left

`PyToolwrit`: the port's `asyncio.Lock` and its synchronous guard, shown to
implement `Writ`.
