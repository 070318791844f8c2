--------------------------- MODULE ToolwritProofs ---------------------------
(***************************************************************************)
(* Theorems about one Toolwrit instance, for every policy, every set of    *)
(* calls and every bound.                                                  *)
(***************************************************************************)
EXTENDS Toolwrit, PolicyEngineProofs, FiniteSetTheorems, SequenceTheorems

Ledgers ==
    [calls : Nat, tokens : Nat, usd : Nat, bytes : Nat, startedAt : Nat \cup {None}]

\* The verdicts that are recorded: an "ask" has been answered.
Final == [effect : {"allow", "deny"}, rule : RuleNames, why : Whys]

-----------------------------------------------------------------------------
(*                     The ledger and the audit entries                    *)

\* What the mutating methods of the ledger return.
LEMMA LedgerType ==
    ASSUME NEW u \in Ledgers, NEW at \in Nat, NEW n \in Nat
    PROVE  /\ CountCall(u, at) \in Ledgers
           /\ AddBytes(u, n, at) \in Ledgers
           /\ AddSpend(u, n, at) \in Ledgers
           /\ CountCall(u, at).calls = u.calls + 1 /\ CountCall(u, at).bytes = u.bytes
           /\ AddBytes(u, n, at).calls = u.calls /\ AddBytes(u, n, at).bytes = u.bytes + n
           /\ AddSpend(u, n, at).calls = u.calls /\ AddSpend(u, n, at).bytes = u.bytes
<1> DEFINE s == Started(u, at)
<1>1. s \in Ledgers /\ s.calls = u.calls /\ s.bytes = u.bytes
    BY DEF Ledgers, Started
<1>2. /\ CountCall(u, at) = [s EXCEPT !.calls = s.calls + 1]
      /\ AddBytes(u, n, at) = [s EXCEPT !.bytes = s.bytes + n]
      /\ AddSpend(u, n, at) = [s EXCEPT !.usd = s.usd + n]
    BY DEF CountCall, AddBytes, AddSpend
<1> HIDE DEF s
<1>3. [s EXCEPT !.calls = s.calls + 1] \in Ledgers
    BY <1>1 DEF Ledgers
<1>4. [s EXCEPT !.bytes = s.bytes + n] \in Ledgers
    BY <1>1 DEF Ledgers
<1>5. [s EXCEPT !.usd = s.usd + n] \in Ledgers
    BY <1>1 DEF Ledgers
<1>6. QED
    BY <1>1, <1>2, <1>3, <1>4, <1>5 DEF Ledgers

\* addTokens() changes neither the calls nor the bytes.
LEMMA AddTokensType ==
    ASSUME NEW u \in Ledgers, NEW at \in Nat, NEW n \in Nat, NEW m \in Nat
    PROVE  /\ AddTokens(u, n, m, at) \in Ledgers
           /\ AddTokens(u, n, m, at).calls = u.calls /\ AddTokens(u, n, m, at).bytes = u.bytes
<1> DEFINE s == Started(u, at)
           t == [s EXCEPT !.tokens = s.tokens + n]
<1>1. s \in Ledgers /\ s.calls = u.calls /\ s.bytes = u.bytes
    BY DEF Ledgers, Started
<1> HIDE DEF s
<1>2. t \in Ledgers /\ t.calls = u.calls /\ t.bytes = u.bytes /\ t.usd = s.usd
    BY <1>1 DEF Ledgers
<1>3. AddTokens(u, n, m, at) = [t EXCEPT !.usd = t.usd + m]
    BY <1>1 DEF AddTokens, Ledgers, s
<1> HIDE DEF t
<1>4. [t EXCEPT !.usd = t.usd + m] \in Ledgers
    BY <1>2 DEF Ledgers
<1>5. QED
    BY <1>2, <1>3, <1>4 DEF Ledgers

\* What record() is given makes an audit entry.
LEMMA EntryType ==
    ASSUME NEW c \in Calls, call[c] \in ToolCalls, NEW v \in Final, NEW u \in Ledgers
    PROVE  Entry(call[c], v, u) \in AuditEntries
BY DEF Entry, UsageForAudit, ToolCalls, Final, Ledgers, AuditEntries

\* A warning is an audit entry.
LEMMA WarningType ==
    ASSUME clock \in Nat, NEW k \in WarningKeys, NEW u \in Ledgers
    PROVE  Warning(k, u) \in AuditEntries
BY DEF Warning, Entry, ToCall, Verdict, UsageForAudit, Reserved, RuleNames, Whys, Ledgers,
       AuditEntries

\* There are finitely many thresholds to report.
LEMMA WarningKeysFinite == IsFiniteSet(WarningKeys)
<1>1. IsFiniteSet(Dimensions)
  <2>1. IsFiniteSet({"calls"}) /\ IsFiniteSet({"tokens"}) /\ IsFiniteSet({"usd"})
            /\ IsFiniteSet({"bytes"}) /\ IsFiniteSet({"seconds"})
      BY FS_Singleton
  <2>2. /\ IsFiniteSet({"calls"} \cup {"tokens"})
        /\ IsFiniteSet({"usd"} \cup {"bytes"})
      BY <2>1, FS_Union
  <2>3. IsFiniteSet(({"calls"} \cup {"tokens"}) \cup ({"usd"} \cup {"bytes"}))
      BY <2>2, FS_Union
  <2>4. Dimensions = (({"calls"} \cup {"tokens"}) \cup ({"usd"} \cup {"bytes"}))
                         \cup {"seconds"}
      BY DEF Dimensions
  <2>5. QED
      BY <2>1, <2>3, <2>4, FS_Union
<1>2. IsFiniteSet(1 .. 100)
  <2>1. 1 \in Int /\ 100 \in Int
      OBVIOUS
  <2>2. QED
      BY <2>1, FS_Interval, Zenon
<1>3. IsFiniteSet(DOMAIN Policy.budget) /\ IsFiniteSet(Policy.warnAt)
    BY <1>1, <1>2, FS_Subset, ToolwritAssumption
<1>4. QED
    BY <1>3, FS_Product DEF WarningKeys

\* The log only grows.
Extends(longer, shorter) ==
    /\ Len(shorter) <= Len(longer)
    /\ \A i \in 1 .. Len(shorter) : longer[i] = shorter[i]

\* Whatever was added to the log is a warning.
OnlyWarned(longer, shorter) ==
    \A i \in DOMAIN longer \ DOMAIN shorter :
        longer[i].tool = WarningTool /\ longer[i].rule = "plan"

\* reportProgress() appends warnings to the log, whether it throws or not.
LEMMA ReportAppends ==
    ASSUME TypeOK, NEW u \in Ledgers, ReportProgress(u) \/ ReportProgressThrows(u)
    PROVE  /\ entries' \in Seq(AuditEntries)
           /\ Extends(entries', entries) /\ OnlyWarned(entries', entries)
           /\ warned' \subseteq WarningKeys
           /\ lost' \subseteq DOMAIN entries'
           /\ faults' \in Nat
<1>1. Due(u) \subseteq WarningKeys /\ IsFiniteSet(Due(u))
    BY WarningKeysFinite, FS_Subset DEF Due
<1>2. Cardinality(Due(u)) \in Nat
    BY <1>1, FS_CardinalityType
<1>3. ASSUME NEW n \in Nat, NEW ws \in [1 .. n -> WarningKeys], RecordWarnings(ws, u)
      PROVE  /\ entries' \in Seq(AuditEntries)
             /\ Extends(entries', entries) /\ OnlyWarned(entries', entries)
             /\ Len(entries') = Len(entries) + n
             /\ warned' \subseteq WarningKeys
  <2> DEFINE new == [i \in DOMAIN ws |-> Warning(ws[i], u)]
  <2>1. new \in Seq(AuditEntries) /\ Len(new) = n
      BY <1>3, WarningType DEF TypeOK
  <2>0. \A i \in 1 .. n : new[i].tool = WarningTool /\ new[i].rule = "plan"
      BY <1>3 DEF Warning, Entry, ToCall, Verdict
  <2> HIDE DEF new
  <2>2. entries \in Seq(AuditEntries) /\ entries' = entries \o new
      BY <1>3 DEF TypeOK, RecordWarnings, new
  <2>3. warned' \subseteq WarningKeys
      BY <1>3 DEF TypeOK, RecordWarnings
  <2>4. /\ entries' \in Seq(AuditEntries)
        /\ Len(entries') = Len(entries) + n
        /\ \A i \in 1 .. Len(entries) + n :
               entries'[i] = IF i <= Len(entries) THEN entries[i] ELSE new[i - Len(entries)]
      BY <2>1, <2>2, ConcatProperties
  <2>5. Len(entries) \in Nat
      BY <2>2
  <2>6. Extends(entries', entries)
      BY <2>4, <2>5 DEF Extends
  <2>7. ASSUME NEW i \in DOMAIN entries' \ DOMAIN entries
        PROVE  entries'[i] = new[i - Len(entries)] /\ i - Len(entries) \in 1 .. n
    <3>1. DOMAIN entries = 1 .. Len(entries) /\ DOMAIN entries' = 1 .. Len(entries) + n
        BY <2>2, <2>4
    <3>2. QED
        BY <2>4, <2>5, <3>1
  <2>8. OnlyWarned(entries', entries)
      BY <2>0, <2>7 DEF OnlyWarned
  <2>9. QED
      BY <2>3, <2>4, <2>6, <2>8
<1>4. CASE ReportProgress(u)
  <2>1. PICK ws \in InOrder(Due(u)) : RecordWarnings(ws, u) /\ UNCHANGED <<lost, faults>>
      BY <1>4 DEF ReportProgress
  <2>2. ws \in [1 .. Cardinality(Due(u)) -> WarningKeys]
      BY <1>1 DEF InOrder
  <2>3. /\ entries' \in Seq(AuditEntries)
        /\ Extends(entries', entries) /\ OnlyWarned(entries', entries)
        /\ warned' \subseteq WarningKeys
      BY <1>2, <1>3, <2>1, <2>2
  <2>4. lost' \subseteq DOMAIN entries'
      BY <2>1, <2>3 DEF TypeOK, Extends
  <2>5. QED
      BY <2>1, <2>3, <2>4 DEF TypeOK
<1>5. CASE ReportProgressThrows(u)
  <2>0. PICK ws \in InOrder(Due(u)) : \E n \in DOMAIN ws :
            /\ RecordWarnings([i \in 1 .. n |-> ws[i]], u)
            /\ \/ UNCHANGED <<lost, faults>>
               \/ faults' = faults + 1 /\ lost' = lost \cup {Len(entries) + n}
      BY <1>5 DEF ReportProgressThrows
  <2>1. PICK n \in DOMAIN ws :
            /\ RecordWarnings([i \in 1 .. n |-> ws[i]], u)
            /\ \/ UNCHANGED <<lost, faults>>
               \/ faults' = faults + 1 /\ lost' = lost \cup {Len(entries) + n}
      BY <2>0
  <2>2. /\ n \in 1 .. Cardinality(Due(u))
        /\ [i \in 1 .. n |-> ws[i]] \in [1 .. n -> WarningKeys]
      BY <1>1, <1>2 DEF InOrder
  <2>3. /\ entries' \in Seq(AuditEntries)
        /\ Extends(entries', entries) /\ OnlyWarned(entries', entries)
        /\ Len(entries') = Len(entries) + n
        /\ warned' \subseteq WarningKeys
      BY <1>2, <1>3, <2>1, <2>2
  <2>4. n \in Nat /\ n >= 1 /\ Len(entries) \in Nat
      BY <1>2, <2>2 DEF TypeOK
  <2>5. DOMAIN entries \subseteq DOMAIN entries' /\ Len(entries) + n \in DOMAIN entries'
      BY <2>3, <2>4 DEF TypeOK
  <2>6. lost' \subseteq DOMAIN entries' /\ faults' \in Nat
      BY <2>1, <2>5 DEF TypeOK
  <2>7. QED
      BY <2>3, <2>6
<1>6. QED
    BY <1>4, <1>5

-----------------------------------------------------------------------------
(*                             Decisions                                   *)

\* The engine's verdicts name an effect and a rule of this policy, or none.
LEMMA EvaluateTyped ==
    ASSUME NEW toolCall, NEW u, NEW history
    PROVE  Evaluate(toolCall, Policy, u, history)
               \in [effect : Effects, rule : RuleNames, why : Whys]
<1>1. DOMAIN Policy.rules \subseteq Nat
    BY ToolwritAssumption
<1>2. Evaluate(toolCall, Policy, u, history) \in Verdicts(Policy.rules)
    BY <1>1, EvaluateType, ToolwritAssumption
<1>3. QED
    BY <1>2 DEF Verdicts, RuleNames, Whys

\* A decision step asks for an approval, or it records a final verdict, or
\* recording that verdict throws.
LEMMA DecisionCases ==
    ASSUME TypeOK, NEW c \in Calls, Decide(c) \/ ResolveAsk(c)
    PROVE  /\ pc[c] \in {"queued", "asking"}
           /\ UNCHANGED <<clock, call, warned>>
           /\ verdict' \in [Calls -> Pending \cup {None}]
           /\ \A d \in Calls \ {c} : verdict'[d] = verdict[d]
           /\ \/ /\ pc[c] = "queued"
                 /\ pc' = [pc EXCEPT ![c] = "asking"]
                 /\ verdict'[c] \in Pending
                 /\ UNCHANGED <<queue, entryOf, usage, entries, lost, faults>>
              \/ \E v \in Final : Record(c, v) \/ RecordThrows(c, v)
<1>1. CASE Decide(c)
  <2> DEFINE v == Evaluate(call[c], Policy, usage, entries)
  <2>1. v \in [effect : Effects, rule : RuleNames, why : Whys]
      BY EvaluateTyped
  <2>2. /\ pc[c] = "queued"
        /\ UNCHANGED <<clock, call, warned>>
        /\ \/ /\ v.effect = "ask"
              /\ verdict' = [verdict EXCEPT ![c] = v]
              /\ pc' = [pc EXCEPT ![c] = "asking"]
              /\ UNCHANGED <<queue, entryOf, usage, entries, lost, faults>>
           \/ /\ v.effect # "ask"
              /\ Record(c, v) \/ RecordThrows(c, v)
              /\ UNCHANGED verdict
      BY <1>1 DEF Decide
  <2> HIDE DEF v
  <2>3. v.effect = "ask" => v \in Pending
      BY <2>1 DEF Pending
  <2>4. v.effect # "ask" => v \in Final
      BY <2>1 DEF Final, Effects
  <2>5. QED
      BY <2>2, <2>3, <2>4 DEF TypeOK
<1>2. CASE ResolveAsk(c)
  <2>1. PICK effect \in {"allow", "deny"} :
            LET v == Verdict(effect, verdict[c].rule, "ask")
            IN  Record(c, v) \/ RecordThrows(c, v)
      BY <1>2 DEF ResolveAsk
  <2>2. /\ pc[c] = "asking"
        /\ verdict' = [verdict EXCEPT ![c] = None]
        /\ UNCHANGED <<clock, call, warned>>
      BY <1>2 DEF ResolveAsk
  <2>3. Verdict(effect, verdict[c].rule, "ask") \in Final
      BY <2>2 DEF TypeOK, Pending, Final, Verdict, Whys
  <2>4. QED
      BY <2>1, <2>2, <2>3 DEF TypeOK
<1>3. QED
    BY <1>1, <1>2

\* record() appends one entry.
LEMMA RecordAppends ==
    ASSUME TypeOK, NEW c \in Calls, pc[c] # "idle", NEW v \in Final,
           entries' = Append(entries, Entry(call[c], v, usage))
    PROVE  /\ entries' \in Seq(AuditEntries)
           /\ Len(entries') = Len(entries) + 1
           /\ entries'[Len(entries) + 1] = Entry(call[c], v, usage)
           /\ Extends(entries', entries)
           /\ DOMAIN entries' = DOMAIN entries \cup {Len(entries) + 1}
<1>1. Entry(call[c], v, usage) \in AuditEntries
    BY EntryType DEF TypeOK, Ledgers
<1>2. QED
    BY <1>1 DEF TypeOK, Extends

\* The typing of what a Record step changes.
LEMMA RecordType ==
    ASSUME TypeOK, NEW c \in Calls, pc[c] # "idle", NEW v \in Final, Record(c, v)
    PROVE  /\ usage' \in Ledgers
           /\ entryOf' = [entryOf EXCEPT ![c] = Len(entries) + 1]
           /\ entries' = Append(entries, Entry(call[c], v, usage))
           /\ UNCHANGED <<lost, faults>>
           /\ \/ /\ v.effect = "allow"
                 /\ usage'.calls = usage.calls + 1 /\ usage'.bytes = usage.bytes
                 /\ pc' = [pc EXCEPT ![c] = "running"]
                 /\ queue' = IF Held THEN queue ELSE Tail(queue)
              \/ /\ v.effect = "deny"
                 /\ UNCHANGED usage
                 /\ pc' = [pc EXCEPT ![c] = "denied"]
                 /\ Release
<1>1. usage \in Ledgers /\ call[c].at \in Nat
    BY DEF TypeOK, ToolCalls, Ledgers
<1>2. v.effect \in {"allow", "deny"}
    BY DEF Final
<1>3. /\ CountCall(usage, call[c].at) \in Ledgers
      /\ CountCall(usage, call[c].at).calls = usage.calls + 1
      /\ CountCall(usage, call[c].at).bytes = usage.bytes
    BY <1>1, LedgerType
<1>4. QED
    BY <1>1, <1>2, <1>3 DEF Record, Release

-----------------------------------------------------------------------------
(*                        The critical section                             *)

\* A call at the head of the queue that leaves it.
LEMMA LeavesSection ==
    ASSUME TypeOK, SectionExclusive, NEW c \in Calls, InSection(c), InLine(c), Release,
           NEW s \in Settled \cup {"running"}, s = "running" => ~Held,
           pc' = [pc EXCEPT ![c] = s]
    PROVE  queue' \in Seq(Calls) /\ SectionExclusive'
<1>1. /\ queue \in Seq(Calls) /\ queue # <<>> /\ queue[1] = c
      /\ queue' \in Seq(Calls)
      /\ Len(queue') = Len(queue) - 1
      /\ \A i \in 1 .. Len(queue') : queue'[i] = queue[i + 1]
    BY HeadTailProperties DEF TypeOK, InSection, Release
<1>2. Len(queue) \in Nat /\ DOMAIN queue = 1 .. Len(queue) /\ DOMAIN queue' = 1 .. Len(queue')
    BY <1>1, LenProperties
<1>3. \A i, j \in DOMAIN queue' : queue'[i] = queue'[j] => i = j
  <2>1. TAKE i, j \in DOMAIN queue'
  <2>2. i + 1 \in DOMAIN queue /\ j + 1 \in DOMAIN queue
      BY <1>1, <1>2
  <2>3. QED
      BY <1>1, <1>2, <2>2 DEF SectionExclusive
<1>4. \A d \in Calls : (\E i \in DOMAIN queue' : queue'[i] = d)
                           <=> d # c /\ \E i \in DOMAIN queue : queue[i] = d
  <2>1. TAKE d \in Calls
  <2>2. ASSUME NEW i \in DOMAIN queue', queue'[i] = d
        PROVE  d # c /\ \E k \in DOMAIN queue : queue[k] = d
    <3>1. i + 1 \in DOMAIN queue /\ queue[i + 1] = d /\ 1 \in DOMAIN queue /\ i + 1 # 1
        BY <1>1, <1>2, <2>2
    <3>2. QED
        BY <1>1, <3>1 DEF SectionExclusive
  <2>3. ASSUME d # c, NEW i \in DOMAIN queue, queue[i] = d
        PROVE  \E k \in DOMAIN queue' : queue'[k] = d
    <3>1. i # 1
        BY <1>1, <2>3
    <3>2. i - 1 \in DOMAIN queue' /\ queue'[i - 1] = d
        BY <1>1, <1>2, <2>3, <3>1
    <3>3. QED
        BY <3>2
  <2>4. QED
      BY <2>2, <2>3
<1>5. \A d \in Calls : InLine(d)' <=> d # c /\ InLine(d)
    BY DEF TypeOK, InLine, Settled
<1>6. \A d \in Calls : ~(pc'[d] = "asking" \/ (Held /\ pc'[d] = "running"))
  <2>1. \A d \in Calls \ {c} : ~(pc[d] = "asking" \/ (Held /\ pc[d] = "running"))
      BY DEF SectionExclusive, InSection
  <2>2. QED
      BY <2>1 DEF TypeOK, Settled
<1>7. QED
    BY <1>1, <1>3, <1>4, <1>5, <1>6 DEF SectionExclusive

\* A call that stays at the head of the queue.
LEMMA KeepsSection ==
    ASSUME TypeOK, SectionExclusive, NEW c \in Calls, InSection(c), InLine(c), UNCHANGED queue,
           NEW s \in {"asking", "running"}, s = "running" => Held,
           pc' = [pc EXCEPT ![c] = s]
    PROVE  SectionExclusive'
<1>1. \A d \in Calls : InLine(d)' <=> InLine(d)
    BY DEF TypeOK, InLine
<1>2. \A d \in Calls : pc'[d] = "asking" \/ (Held /\ pc'[d] = "running") => InSection(d)'
    BY DEF TypeOK, SectionExclusive, InSection
<1>3. QED
    BY <1>1, <1>2 DEF SectionExclusive

\* Only the call at the head of the queue decides.
LEMMA DecidesInSection ==
    ASSUME SectionExclusive, NEW c \in Calls, Decide(c) \/ ResolveAsk(c) \/ OnAskThrows(c)
    PROVE  InSection(c) /\ InLine(c)
BY DEF SectionExclusive, Decide, ResolveAsk, OnAskThrows, InLine

\* Every step preserves the critical section.
LEMMA SectionStep ==
    ASSUME TypeOK, SectionExclusive, [Next]_vars
    PROVE  queue' \in Seq(Calls) /\ SectionExclusive'
<1>1. ASSUME NEW c \in Calls, Guard(c)
      PROVE  queue' \in Seq(Calls) /\ SectionExclusive'
  <2>1. /\ pc[c] = "idle" /\ pc' = [pc EXCEPT ![c] = "queued"]
        /\ queue' = Append(queue, c)
        /\ queue \in Seq(Calls)
      BY <1>1 DEF Guard, TypeOK
  <2>2. \A i \in DOMAIN queue : queue[i] # c
      BY <2>1 DEF SectionExclusive, InLine
  <2>3. /\ queue' \in Seq(Calls) /\ queue' # <<>>
        /\ DOMAIN queue' = DOMAIN queue \cup {Len(queue) + 1} /\ queue'[Len(queue) + 1] = c
        /\ Len(queue) + 1 \notin DOMAIN queue
        /\ \A i \in DOMAIN queue : queue'[i] = queue[i]
        /\ queue # <<>> => Head(queue') = Head(queue)
      BY <2>1
  <2>4. \A d \in Calls : InLine(d)' <=> d = c \/ InLine(d)
      BY <2>1 DEF TypeOK, InLine
  <2>5. \A d \in Calls : (\E i \in DOMAIN queue' : queue'[i] = d)
                             <=> d = c \/ \E i \in DOMAIN queue : queue[i] = d
      BY <2>3
  <2>6. \A d \in Calls : pc'[d] = "asking" \/ (Held /\ pc'[d] = "running") => InSection(d)'
      BY <2>1, <2>3 DEF TypeOK, SectionExclusive, InSection
  <2>7. \A i, j \in DOMAIN queue' : queue'[i] = queue'[j] => i = j
      BY <2>2, <2>3 DEF SectionExclusive
  <2>8. QED
      BY <2>3, <2>4, <2>5, <2>6, <2>7 DEF SectionExclusive
<1>2. ASSUME NEW c \in Calls, Decide(c) \/ ResolveAsk(c)
      PROVE  queue' \in Seq(Calls) /\ SectionExclusive'
  <2>1. InSection(c) /\ InLine(c)
      BY <1>2, DecidesInSection
  <2>2. CASE pc' = [pc EXCEPT ![c] = "asking"] /\ UNCHANGED queue
      BY <2>1, <2>2, KeepsSection DEF TypeOK
  <2>3. ASSUME NEW v \in Final, RecordThrows(c, v)
        PROVE  queue' \in Seq(Calls) /\ SectionExclusive'
    <3>1. Release /\ pc' = [pc EXCEPT ![c] = "failed"]
        BY <2>3 DEF RecordThrows
    <3>2. QED
        BY <2>1, <3>1, LeavesSection DEF Settled
  <2>4. ASSUME NEW v \in Final, Record(c, v)
        PROVE  queue' \in Seq(Calls) /\ SectionExclusive'
    <3>1. CASE pc' = [pc EXCEPT ![c] = "denied"] /\ Release
        BY <2>1, <3>1, LeavesSection DEF Settled
    <3>2. CASE ~Held /\ pc' = [pc EXCEPT ![c] = "running"] /\ Release
        BY <2>1, <3>2, LeavesSection
    <3>3. CASE Held /\ pc' = [pc EXCEPT ![c] = "running"] /\ UNCHANGED queue
        BY <2>1, <3>3, KeepsSection DEF TypeOK
    <3>4. QED
        BY <2>4, <3>1, <3>2, <3>3 DEF Record
  <2>5. QED
      BY <1>2, <2>2, <2>3, <2>4, DecisionCases
<1>3. ASSUME NEW c \in Calls, OnAskThrows(c)
      PROVE  queue' \in Seq(Calls) /\ SectionExclusive'
  <2>1. InSection(c) /\ InLine(c) /\ Release /\ pc' = [pc EXCEPT ![c] = "failed"]
      BY <1>3, DecidesInSection DEF OnAskThrows
  <2>2. QED
      BY <2>1, LeavesSection DEF Settled
<1>4. ASSUME NEW c \in Calls, Return(c) \/ ToolThrows(c)
      PROVE  queue' \in Seq(Calls) /\ SectionExclusive'
  <2>1. PICK s \in Settled : pc' = [pc EXCEPT ![c] = s]
      BY <1>4 DEF Return, ToolThrows, Settled
  <2>2. pc[c] = "running" /\ IF Held THEN Release ELSE UNCHANGED queue
      BY <1>4 DEF Return, ToolThrows, ToolSettles
  <2>3. CASE Held
    <3>1. InSection(c) /\ InLine(c)
        BY <2>2, <2>3 DEF SectionExclusive, InLine
    <3>2. QED
        BY <2>1, <2>2, <2>3, <3>1, LeavesSection DEF Settled
  <2>4. CASE ~Held
    <3>1. \A d \in Calls : (InLine(d)' <=> InLine(d)) /\ (pc'[d] = "asking" => pc[d] = "asking")
        BY <2>1, <2>2, <2>4 DEF TypeOK, InLine, Settled
    <3>2. QED
        BY <2>2, <2>4, <3>1 DEF TypeOK, SectionExclusive, InSection
  <2>5. QED
      BY <2>3, <2>4
<1>5. CASE UNCHANGED <<pc, queue>>
    BY <1>5 DEF TypeOK, SectionExclusive, InSection, InLine
<1>6. QED
    BY <1>1, <1>2, <1>3, <1>4, <1>5 DEF Next, vars, Meter, Spend, Metered, Tick

-----------------------------------------------------------------------------
(*                           Type correctness                              *)

\* The steps that count consumption and then report it.
Consumes ==
    \/ \E c \in Calls : Return(c)
    \/ \E tokens, usd \in Figures : Meter(tokens, usd)
    \/ \E usd \in Figures : Spend(usd)

\* Counting consumption and reporting it leaves every variable typed.
LEMMA ConsumptionType ==
    ASSUME TypeOK, Consumes
    PROVE  /\ usage' \in Ledgers
           /\ entries' \in Seq(AuditEntries)
           /\ Extends(entries', entries) /\ OnlyWarned(entries', entries)
           /\ ReportProgress(usage') \/ ReportProgressThrows(usage')
           /\ warned' \subseteq WarningKeys /\ lost' \subseteq DOMAIN entries' /\ faults' \in Nat
           /\ UNCHANGED <<clock, call, verdict, entryOf>>
<1>1. usage \in Ledgers /\ clock \in Nat
    BY DEF TypeOK, Ledgers
<1>2. ASSUME NEW c \in Calls, Return(c)
      PROVE  \E u \in Ledgers : usage' = u /\ (ReportProgress(u) \/ ReportProgressThrows(u))
  <2>1. PICK bytes \in Results :
            LET u == AddBytes(usage, bytes, call[c].at)
            IN  usage' = u /\ (ReportProgress(u) \/ ReportProgressThrows(u))
      BY <1>2 DEF Return
  <2>2. call[c].at \in Nat /\ bytes \in Nat
      BY <1>2, ToolwritAssumption DEF Return, ToolSettles, TypeOK, ToolCalls
  <2>3. AddBytes(usage, bytes, call[c].at) \in Ledgers
      BY <1>1, <2>2, LedgerType
  <2>4. QED
      BY <2>1, <2>3
<1>3. ASSUME NEW tokens \in Figures, NEW usd \in Figures, Meter(tokens, usd)
      PROVE  \E u \in Ledgers : usage' = u /\ (ReportProgress(u) \/ ReportProgressThrows(u))
  <2>1. tokens \in Nat /\ usd \in Nat
      BY <1>3, ToolwritAssumption DEF Meter, RequireConsumption
  <2>2. AddTokens(usage, tokens, usd, clock) \in Ledgers
      BY <1>1, <2>1, AddTokensType
  <2>3. QED
      BY <1>3, <2>2 DEF Meter, Metered
<1>4. ASSUME NEW usd \in Figures, Spend(usd)
      PROVE  \E u \in Ledgers : usage' = u /\ (ReportProgress(u) \/ ReportProgressThrows(u))
  <2>1. usd \in Nat
      BY <1>4, ToolwritAssumption DEF Spend, RequireConsumption
  <2>2. AddSpend(usage, usd, clock) \in Ledgers
      BY <1>1, <2>1, LedgerType
  <2>3. QED
      BY <1>4, <2>2 DEF Spend, Metered
<1>5. PICK u \in Ledgers : usage' = u /\ (ReportProgress(u) \/ ReportProgressThrows(u))
    BY <1>2, <1>3, <1>4 DEF Consumes
<1>6. UNCHANGED <<clock, call, verdict, entryOf>>
    BY DEF Consumes, Return, ToolSettles, Meter, Spend, Metered
<1>7. QED
    BY <1>5, <1>6, ReportAppends

\* The constructor leaves a typed state with an empty section.
LEMMA TypeInit == Init => TypeOK /\ SectionExclusive
<1> SUFFICES ASSUME Init
             PROVE  TypeOK /\ SectionExclusive
    OBVIOUS
<1>1. Unused \in Ledgers
    BY DEF Unused, Ledgers
<1>2. entries \in Seq(AuditEntries)
  <2>1. PlanEntry \in AuditEntries
      BY DEF PlanEntry, Entry, Verdict, UsageForAudit, Unused, AuditEntries, Reserved, RuleNames,
             Whys
  <2>2. QED
      BY <2>1 DEF Init
<1>3. TypeOK
    BY <1>1, <1>2 DEF Init, TypeOK, Ledgers
<1>4. SectionExclusive
    BY DEF Init, SectionExclusive, InSection, InLine
<1>5. QED
    BY <1>3, <1>4

\* Every step preserves the types.
LEMMA TypeStep ==
    ASSUME TypeOK, SectionExclusive, [Next]_vars
    PROVE  TypeOK'
<1>0. queue' \in Seq(Calls)
    BY SectionStep
<1> USE DEF Ledgers
<1>1. ASSUME NEW c \in Calls, Guard(c)
      PROVE  TypeOK'
  <2>1. PICK request \in Requests :
            call' = [call EXCEPT ![c] = ToCall(request.tool, request.arg)]
      BY <1>1 DEF Guard
  <2>2. ToCall(request.tool, request.arg) \in ToolCalls
      BY ToolwritAssumption DEF TypeOK, ToCall, ToolCalls
  <2>3. /\ pc' = [pc EXCEPT ![c] = "queued"]
        /\ UNCHANGED <<clock, verdict, entryOf, usage, entries, warned, lost, faults>>
      BY <1>1 DEF Guard
  <2>4. QED
      BY <1>0, <2>1, <2>2, <2>3 DEF TypeOK
<1>2. ASSUME NEW c \in Calls, Decide(c) \/ ResolveAsk(c)
      PROVE  TypeOK'
  <2>1. /\ pc[c] \in {"queued", "asking"}
        /\ UNCHANGED <<clock, call, warned>>
        /\ verdict' \in [Calls -> Pending \cup {None}]
        /\ \A d \in Calls \ {c} : verdict'[d] = verdict[d]
      BY <1>2, DecisionCases
  <2>2. CASE /\ pc' = [pc EXCEPT ![c] = "asking"]
             /\ verdict'[c] \in Pending
             /\ UNCHANGED <<queue, entryOf, usage, entries, lost, faults>>
      BY <1>0, <2>1, <2>2 DEF TypeOK
  <2>3. ASSUME NEW v \in Final, RecordThrows(c, v)
        PROVE  TypeOK'
    <3>1. /\ faults' = faults + 1
          /\ pc' = [pc EXCEPT ![c] = "failed"]
          /\ UNCHANGED <<usage, entryOf>>
        BY <2>3 DEF RecordThrows
    <3>2. entries' \in Seq(AuditEntries) /\ lost' \subseteq DOMAIN entries'
      <4>1. CASE UNCHANGED <<entries, lost>>
          BY <4>1 DEF TypeOK
      <4>2. CASE /\ entries' = Append(entries, Entry(call[c], v, usage))
                 /\ lost' = lost \cup {Len(entries) + 1}
          BY <2>1, <4>2, RecordAppends DEF TypeOK
      <4>3. QED
          BY <2>3, <4>1, <4>2 DEF RecordThrows
    <3>3. QED
        BY <1>0, <2>1, <3>1, <3>2 DEF TypeOK, Settled
  <2>4. ASSUME NEW v \in Final, Record(c, v)
        PROVE  TypeOK'
    <3>1. /\ usage' \in Ledgers
          /\ entryOf' = [entryOf EXCEPT ![c] = Len(entries) + 1]
          /\ entries' = Append(entries, Entry(call[c], v, usage))
          /\ UNCHANGED <<lost, faults>>
          /\ \/ pc' = [pc EXCEPT ![c] = "running"]
             \/ pc' = [pc EXCEPT ![c] = "denied"]
        BY <2>1, <2>4, RecordType
    <3>2. /\ entries' \in Seq(AuditEntries)
          /\ DOMAIN entries \subseteq DOMAIN entries'
        BY <2>1, <3>1, RecordAppends
    <3>3. Len(entries) + 1 \in Nat
        BY DEF TypeOK
    <3>4. QED
        BY <1>0, <2>1, <3>1, <3>2, <3>3 DEF TypeOK, Settled
  <2>5. QED
      BY <1>2, <2>2, <2>3, <2>4, DecisionCases
<1>3. ASSUME NEW c \in Calls, OnAskThrows(c)
      PROVE  TypeOK'
    BY <1>0, <1>3 DEF OnAskThrows, TypeOK, Settled
<1>4. CASE Consumes
  <2>1. /\ usage' \in Ledgers /\ entries' \in Seq(AuditEntries)
        /\ warned' \subseteq WarningKeys /\ lost' \subseteq DOMAIN entries' /\ faults' \in Nat
        /\ UNCHANGED <<clock, call, verdict, entryOf>>
      BY <1>4, ConsumptionType
  <2>2. \/ UNCHANGED pc
        \/ \E c \in Calls : \E s \in Settled :
               pc[c] = "running" /\ pc' = [pc EXCEPT ![c] = s]
      BY <1>4 DEF Consumes, Return, ToolSettles, Meter, Spend, Metered, Settled
  <2>3. CASE UNCHANGED pc
      BY <1>0, <2>1, <2>3 DEF TypeOK
  <2>4. ASSUME NEW c \in Calls, NEW s \in Settled, pc' = [pc EXCEPT ![c] = s],
               pc[c] = "running"
        PROVE  TypeOK'
    <3>1. pc' \in [Calls -> {"idle", "queued", "asking", "running"} \cup Settled]
        BY <2>4 DEF TypeOK
    <3>2. \A d \in Calls : /\ pc'[d] # "idle" => pc[d] # "idle"
                           /\ pc'[d] = "asking" => pc[d] = "asking"
        BY <2>4 DEF TypeOK, Settled
    <3>3. QED
        BY <1>0, <2>1, <3>1, <3>2 DEF TypeOK
  <2>5. QED
      BY <2>2, <2>3, <2>4
<1>5. ASSUME NEW c \in Calls, ToolThrows(c)
      PROVE  TypeOK'
    BY <1>0, <1>5 DEF ToolThrows, ToolSettles, TypeOK, Settled
<1>6. CASE Tick
    BY <1>6 DEF Tick, TypeOK
<1>7. CASE UNCHANGED vars
    BY <1>7 DEF vars, TypeOK
<1>8. QED
    BY <1>1, <1>2, <1>3, <1>4, <1>5, <1>6, <1>7 DEF Next, Consumes

\* The two are proved together: Tail needs a queue that is not empty.
LEMMA Typed == Spec => [](TypeOK /\ SectionExclusive)
<1>1. TypeOK /\ SectionExclusive /\ [Next]_vars => (TypeOK /\ SectionExclusive)'
    BY SectionStep, TypeStep
<1>2. QED
    BY TypeInit, <1>1, PTL DEF Spec

\* Every variable has its type.
THEOREM TypeCorrect == Spec => []TypeOK
BY Typed, PTL

\* serialize() keeps its promise: one section at a time, and each guard() in
\* line at most once, whatever throws.
THEOREM OneSectionAtATime == Spec => []SectionExclusive
BY Typed, PTL

-----------------------------------------------------------------------------
(*                               Budgets                                   *)

\* The budgets that only change inside the critical section.
Below ==
    /\ "calls" \in Limited => usage.calls < Policy.budget["calls"]
    /\ "bytes" \in Limited => usage.bytes < Policy.budget["bytes"]

\* What makes the ceilings inductive: as long as a call awaits its approval, or
\* runs its tool inside the section, the budget it was decided on is still
\* there.
SectionFunded ==
    \A c \in Calls :
        /\ pc[c] = "asking" => Below
        /\ Held /\ pc[c] = "running" => usage.bytes < Policy.budget["bytes"]

BudgetInv == SectionFunded /\ CallsCeiling /\ BytesCeiling

\* Every ceiling is a positive number.
LEMMA Limits ==
    ASSUME NEW dim \in Limited
    PROVE  Policy.budget[dim] \in Nat /\ Policy.budget[dim] > 0
BY ToolwritAssumption DEF Limited

\* A verdict that is no refusal leaves calls and bytes below their ceilings.
LEMMA BelowIsAffordable ==
    ASSUME TypeOK, NEW at,
           \A dim \in Limited : ~(Consumed(usage, dim, at) >= Policy.budget[dim])
    PROVE  Below
<1>1. usage.calls \in Nat /\ usage.bytes \in Nat
    BY DEF TypeOK
<1>2. Consumed(usage, "calls", at) = usage.calls /\ Consumed(usage, "bytes", at) = usage.bytes
    BY DEF Consumed
<1>3. QED
    BY <1>1, <1>2, Limits DEF Below

\* A call is asked for, or permitted, below the calls and bytes ceilings.
LEMMA PermitsBelow ==
    ASSUME TypeOK, SectionFunded, NEW c \in Calls, Decide(c) \/ ResolveAsk(c),
           pc'[c] \in {"asking", "running"}
    PROVE  Below
<1>1. CASE Decide(c)
  <2> DEFINE v == Evaluate(call[c], Policy, usage, entries)
  <2>1. \/ v.effect = "ask"
        \/ Record(c, v) \/ RecordThrows(c, v)
      BY <1>1 DEF Decide
  <2>2. v.effect # "deny"
      BY <2>1 DEF Record, RecordThrows, TypeOK
  <2>3. QED
      BY <2>2, PermittedIsAffordable, BelowIsAffordable DEF Limited
<1>2. CASE ResolveAsk(c)
    BY <1>2 DEF ResolveAsk, SectionFunded
<1>3. QED
    BY <1>1, <1>2

\* A decision step moves one call.
LEMMA DecisionMoves ==
    ASSUME TypeOK, NEW c \in Calls, Decide(c) \/ ResolveAsk(c)
    PROVE  \A d \in Calls \ {c} : pc'[d] = pc[d]
<1>1. PICK s \in {"asking", "running", "denied", "failed"} : pc' = [pc EXCEPT ![c] = s]
  <2>1. CASE pc' = [pc EXCEPT ![c] = "asking"]
      BY <2>1
  <2>2. CASE \E v \in Final : Record(c, v) \/ RecordThrows(c, v)
      BY <2>2 DEF Record, RecordThrows
  <2>3. QED
      BY <2>1, <2>2, DecisionCases
<1>2. QED
    BY <1>1 DEF TypeOK

\* A new ledger is within every budget.
LEMMA BudgetInit == Init => BudgetInv
<1> SUFFICES ASSUME Init
             PROVE  BudgetInv
    OBVIOUS
<1>1. PICK bytes \in Results : bytes \in Nat
    BY ToolwritAssumption
<1>2. QED
    BY <1>1, Limits DEF Init, Unused, BudgetInv, SectionFunded, CallsCeiling, BytesCeiling

\* Every step preserves the budgets.
LEMMA BudgetStep ==
    ASSUME TypeOK, SectionExclusive, BudgetInv, [Next]_vars
    PROVE  BudgetInv'
<1> USE DEF BudgetInv
<1>0. usage \in Ledgers /\ usage.calls \in Nat /\ usage.bytes \in Nat
    BY DEF TypeOK, Ledgers
<1>1. ASSUME usage'.calls = usage.calls, usage'.bytes = usage.bytes,
             \A c \in Calls : pc'[c] \in {"asking", "running"} => pc'[c] = pc[c]
      PROVE  BudgetInv'
    BY <1>1 DEF SectionFunded, Below, CallsCeiling, BytesCeiling
<1>2. ASSUME NEW c \in Calls, Decide(c) \/ ResolveAsk(c)
      PROVE  BudgetInv'
  <2>1. \A d \in Calls \ {c} : pc'[d] = pc[d] /\ pc[d] # "asking" /\ ~(Held /\ pc[d] = "running")
    <3>1. \A d \in Calls \ {c} : pc'[d] = pc[d]
        BY <1>2, DecisionMoves
    <3>2. InSection(c)
        BY <1>2, DecidesInSection
    <3>3. QED
        BY <3>1, <3>2 DEF SectionExclusive, InSection
  <2>2. pc[c] # "idle"
      BY <1>2, DecisionCases
  <2>3. CASE pc' = [pc EXCEPT ![c] = "asking"] /\ UNCHANGED usage
    <3>1. Below
        BY <1>2, <2>3, PermitsBelow DEF TypeOK
    <3>2. QED
        BY <2>1, <2>3, <3>1 DEF SectionFunded, Below, CallsCeiling, BytesCeiling, TypeOK
  <2>4. ASSUME NEW v \in Final, RecordThrows(c, v)
        PROVE  BudgetInv'
      BY <1>1, <2>4 DEF RecordThrows, TypeOK
  <2>5. ASSUME NEW v \in Final, Record(c, v)
        PROVE  BudgetInv'
    <3>1. CASE UNCHANGED usage /\ pc' = [pc EXCEPT ![c] = "denied"]
        BY <1>1, <3>1 DEF TypeOK
    <3>2. CASE /\ usage'.calls = usage.calls + 1 /\ usage'.bytes = usage.bytes
               /\ pc' = [pc EXCEPT ![c] = "running"]
      <4>1. Below /\ pc'[c] = "running"
          BY <1>2, <3>2, PermitsBelow DEF TypeOK
      <4>2. SectionFunded'
          BY <2>1, <3>2, <4>1 DEF SectionFunded, Below, Held, Limited
      <4>3. CallsCeiling' /\ BytesCeiling'
          BY <1>0, <3>2, <4>1, Limits DEF Below, CallsCeiling, BytesCeiling
      <4>4. QED
          BY <4>2, <4>3
    <3>3. QED
        BY <2>2, <2>5, <3>1, <3>2, RecordType
  <2>6. QED
      BY <1>2, <2>3, <2>4, <2>5, DecisionCases
<1>3. ASSUME NEW c \in Calls, Return(c)
      PROVE  BudgetInv'
  <2>1. PICK bytes \in Results :
            /\ usage' = AddBytes(usage, bytes, call[c].at)
            /\ \/ pc' = [pc EXCEPT ![c] = "returned"]
               \/ pc' = [pc EXCEPT ![c] = "failed"]
      BY <1>3 DEF Return
  <2>2. pc[c] = "running" /\ bytes \in Nat
      BY <1>3, ToolwritAssumption DEF Return, ToolSettles
  <2>3. usage'.calls = usage.calls /\ usage'.bytes = usage.bytes + bytes
    <3>1. call[c].at \in Nat
        BY <2>2 DEF TypeOK, ToolCalls
    <3>2. QED
        BY <1>0, <2>1, <2>2, <3>1, LedgerType
  <2>4. CASE Held
    <3>1. \A d \in Calls : pc'[d] \notin {"asking", "running"}
        BY <2>1, <2>2, <2>4 DEF TypeOK, SectionExclusive, InSection
    <3>2. usage.bytes < Policy.budget["bytes"]
        BY <2>2, <2>4 DEF SectionFunded
    <3>3. usage'.bytes < Policy.budget["bytes"] + bytes
        BY <1>0, <2>2, <2>3, <2>4, <3>2, Limits DEF Held, Limited
    <3>4. QED
        BY <2>3, <3>1, <3>3 DEF SectionFunded, CallsCeiling, BytesCeiling
  <2>5. CASE ~Held
    <3>1. "bytes" \notin Limited
        BY <2>5 DEF Held, Limited
    <3>2. \A d \in Calls : pc'[d] = "asking" => pc[d] = "asking"
        BY <2>1 DEF TypeOK
    <3>3. QED
        BY <2>3, <2>5, <3>1, <3>2 DEF SectionFunded, Below, CallsCeiling, BytesCeiling
  <2>6. QED
      BY <2>4, <2>5
<1>4. ASSUME NEW c \in Calls, Guard(c) \/ OnAskThrows(c) \/ ToolThrows(c)
      PROVE  BudgetInv'
    BY <1>1, <1>4 DEF Guard, OnAskThrows, ToolThrows, ToolSettles, TypeOK
<1>5. ASSUME NEW tokens \in Figures, NEW usd \in Figures, Meter(tokens, usd)
      PROVE  BudgetInv'
  <2>1. tokens \in Nat /\ usd \in Nat
      BY <1>5, ToolwritAssumption DEF Meter, RequireConsumption
  <2>2. usage' = AddTokens(usage, tokens, usd, clock) /\ UNCHANGED pc
      BY <1>5 DEF Meter, Metered
  <2>3. usage'.calls = usage.calls /\ usage'.bytes = usage.bytes
    <3>1. clock \in Nat
        BY DEF TypeOK
    <3>2. /\ AddTokens(usage, tokens, usd, clock).calls = usage.calls
          /\ AddTokens(usage, tokens, usd, clock).bytes = usage.bytes
        BY <1>0, <2>1, <3>1, AddTokensType, Zenon
    <3>3. QED
        BY <2>2, <3>2
  <2>4. QED
      BY <1>1, <2>2, <2>3
<1>6. ASSUME NEW usd \in Figures, Spend(usd)
      PROVE  BudgetInv'
  <2>1. usd \in Nat
      BY <1>6, ToolwritAssumption DEF Spend, RequireConsumption
  <2>2. usage' = AddSpend(usage, usd, clock) /\ UNCHANGED pc
      BY <1>6 DEF Spend, Metered
  <2>3. usage'.calls = usage.calls /\ usage'.bytes = usage.bytes
    <3>1. clock \in Nat
        BY DEF TypeOK
    <3>2. QED
        BY <1>0, <2>1, <2>2, <3>1, LedgerType
  <2>4. QED
      BY <1>1, <2>2, <2>3
<1>7. CASE UNCHANGED <<usage, pc>>
    BY <1>1, <1>7
<1>8. QED
    BY <1>2, <1>3, <1>4, <1>5, <1>6, <1>7 DEF Next, Tick, vars

\* The budgets hold in every reachable state.
LEMMA Budgeted == Spec => [](TypeOK /\ SectionExclusive /\ BudgetInv)
<1>1. Init => TypeOK /\ SectionExclusive /\ BudgetInv
    BY TypeInit, BudgetInit
<1>2. TypeOK /\ SectionExclusive /\ BudgetInv /\ [Next]_vars
          => (TypeOK /\ SectionExclusive /\ BudgetInv)'
    BY SectionStep, TypeStep, BudgetStep
<1>3. QED
    BY <1>1, <1>2, PTL DEF Spec

\* However many guards run at once and however long approvals take, no more
\* calls are permitted than the budget has.
THEOREM CallsWithinCeiling == Spec => []CallsCeiling
<1>1. BudgetInv => CallsCeiling
    BY DEF BudgetInv
<1>2. QED
    BY Budgeted, <1>1, PTL

\* A bytes ceiling bounds a run at the limit plus one call.
THEOREM BytesWithinCeiling == Spec => []BytesCeiling
<1>1. BudgetInv => BytesCeiling
    BY DEF BudgetInv
<1>2. QED
    BY Budgeted, <1>1, PTL

\* No call is let through at an exhausted calls or bytes budget, even when its
\* approval was asked for before.
THEOREM NothingRunsExhausted == Spec => CallsAndBytesEnforced
<1>1. TypeOK /\ SectionExclusive /\ BudgetInv /\ [Next]_vars
          => [RunsBelow({"calls", "bytes"})]_vars
  <2> SUFFICES ASSUME TypeOK, SectionExclusive, BudgetInv, Next
               PROVE  RunsBelow({"calls", "bytes"})
      BY DEF vars
  <2> SUFFICES ASSUME NEW c \in Calls, pc[c] # "running", pc'[c] = "running",
                      NEW dim \in {"calls", "bytes"} \cap Limited
               PROVE  Consumed(usage, dim, clock) < Policy.budget[dim]
      BY DEF RunsBelow
  <2>1. ASSUME NEW d \in Calls, Decide(d) \/ ResolveAsk(d)
        PROVE  d = c
      BY <2>1, DecisionMoves
  <2>2. Decide(c) \/ ResolveAsk(c)
      BY <2>1 DEF Next, Guard, OnAskThrows, Return, ToolThrows, Meter, Spend, Metered, Tick, TypeOK
  <2>3. Below
      BY <2>2, PermitsBelow DEF BudgetInv
  <2>4. QED
      BY <2>3 DEF Below, Consumed
<1>2. QED
    BY Budgeted, <1>1, PTL DEF CallsAndBytesEnforced, Spec

-----------------------------------------------------------------------------
(*                         Nothing is given back                           *)

\* A later ledger has no less of anything, and the same start.
NoLess(later, u) ==
    /\ later.calls >= u.calls /\ later.tokens >= u.tokens
    /\ later.usd >= u.usd /\ later.bytes >= u.bytes
    /\ u.startedAt # None => later.startedAt = u.startedAt

\* No method of the ledger gives consumption back.
LEMMA LedgerGrows ==
    ASSUME NEW u \in Ledgers, NEW at \in Nat, NEW n \in Nat, NEW m \in Nat
    PROVE  /\ NoLess(CountCall(u, at), u)
           /\ NoLess(AddTokens(u, n, m, at), u)
           /\ NoLess(AddBytes(u, n, at), u)
           /\ NoLess(AddSpend(u, n, at), u)
<1> DEFINE s == Started(u, at)
           t == [s EXCEPT !.tokens = s.tokens + n]
<1>1. s \in Ledgers /\ NoLess(s, u)
    BY DEF Ledgers, Started, NoLess
<1>2. /\ CountCall(u, at) = [s EXCEPT !.calls = s.calls + 1]
      /\ AddBytes(u, n, at) = [s EXCEPT !.bytes = s.bytes + n]
      /\ AddSpend(u, n, at) = [s EXCEPT !.usd = s.usd + n]
    BY DEF CountCall, AddBytes, AddSpend
<1> HIDE DEF s
<1>3. AddTokens(u, n, m, at) = [t EXCEPT !.usd = s.usd + m]
    BY <1>1 DEF AddTokens, Ledgers, s
<1>4. \A v \in Ledgers : NoLess(v, s) => NoLess(v, u)
    BY <1>1 DEF NoLess, Ledgers
<1>5. t \in Ledgers /\ NoLess(t, s) /\ t.usd = s.usd
    BY <1>1 DEF Ledgers, NoLess
<1> HIDE DEF t
<1>6. [t EXCEPT !.usd = s.usd + m] \in Ledgers /\ NoLess([t EXCEPT !.usd = s.usd + m], s)
    BY <1>1, <1>5 DEF Ledgers, NoLess
<1>7. [s EXCEPT !.calls = s.calls + 1] \in Ledgers /\ NoLess([s EXCEPT !.calls = s.calls + 1], s)
    BY <1>1 DEF Ledgers, NoLess
<1>8. [s EXCEPT !.bytes = s.bytes + n] \in Ledgers /\ NoLess([s EXCEPT !.bytes = s.bytes + n], s)
    BY <1>1 DEF Ledgers, NoLess
<1>9. [s EXCEPT !.usd = s.usd + n] \in Ledgers /\ NoLess([s EXCEPT !.usd = s.usd + n], s)
    BY <1>1 DEF Ledgers, NoLess
<1>10. QED
    BY <1>2, <1>3, <1>4, <1>6, <1>7, <1>8, <1>9

\* Reporting consumption counts no call.
LEMMA ConsumptionGrows ==
    ASSUME TypeOK, Consumes
    PROVE  NoLess(usage', usage) /\ usage'.calls = usage.calls
<1>1. usage \in Ledgers /\ clock \in Nat
    BY DEF TypeOK, Ledgers
<1>2. ASSUME NEW c \in Calls, Return(c)
      PROVE  NoLess(usage', usage) /\ usage'.calls = usage.calls
  <2>1. PICK bytes \in Results : usage' = AddBytes(usage, bytes, call[c].at)
      BY <1>2 DEF Return
  <2>2. call[c].at \in Nat /\ bytes \in Nat
      BY <1>2, ToolwritAssumption DEF Return, ToolSettles, TypeOK, ToolCalls
  <2>3. QED
      BY <1>1, <2>1, <2>2, LedgerType, LedgerGrows
<1>3. ASSUME NEW tokens \in Figures, NEW usd \in Figures, Meter(tokens, usd)
      PROVE  NoLess(usage', usage) /\ usage'.calls = usage.calls
  <2>1. tokens \in Nat /\ usd \in Nat
      BY <1>3, ToolwritAssumption DEF Meter, RequireConsumption
  <2>2. usage' = AddTokens(usage, tokens, usd, clock)
      BY <1>3 DEF Meter, Metered
  <2>3. QED
      BY <1>1, <2>1, <2>2, AddTokensType, LedgerGrows
<1>4. ASSUME NEW usd \in Figures, Spend(usd)
      PROVE  NoLess(usage', usage) /\ usage'.calls = usage.calls
  <2>1. usd \in Nat
      BY <1>4, ToolwritAssumption DEF Spend, RequireConsumption
  <2>2. usage' = AddSpend(usage, usd, clock)
      BY <1>4 DEF Spend, Metered
  <2>3. QED
      BY <1>1, <2>1, <2>2, LedgerType, LedgerGrows
<1>5. QED
    BY <1>2, <1>3, <1>4 DEF Consumes

\* Nor does any step, and time does not run backwards.
LEMMA UsageGrows ==
    ASSUME TypeOK, SectionExclusive, [Next]_vars
    PROVE  /\ usage \in Ledgers /\ usage' \in Ledgers /\ NoLess(usage', usage)
           /\ clock \in Nat /\ clock' \in Nat /\ clock' >= clock
<1>1. /\ usage \in Ledgers /\ usage' \in Ledgers
      /\ clock \in Nat /\ clock' \in Nat
    BY TypeStep DEF TypeOK, Ledgers
<1>2. clock' = clock \/ clock' = clock + 1
  <2>1. \A c \in Calls : Decide(c) \/ ResolveAsk(c) => clock' = clock
      BY DecisionCases
  <2>2. QED
      BY <2>1 DEF Next, vars, Guard, OnAskThrows, Return, ToolThrows, ToolSettles, Meter, Spend,
                  Metered, Tick
<1>3. UNCHANGED usage => NoLess(usage', usage)
    BY <1>1 DEF NoLess, Ledgers
<1>4. ASSUME NEW c \in Calls, Decide(c) \/ ResolveAsk(c)
      PROVE  NoLess(usage', usage)
  <2>1. UNCHANGED usage \/ usage' = CountCall(usage, call[c].at)
      BY <1>4, DecisionCases DEF Record, RecordThrows
  <2>2. call[c].at \in Nat
      BY <1>4, DecisionCases DEF TypeOK, ToolCalls
  <2>3. NoLess(CountCall(usage, call[c].at), usage)
      BY <1>1, <2>2, LedgerGrows
  <2>4. QED
      BY <1>3, <2>1, <2>3
<1>5. Consumes => NoLess(usage', usage)
    BY ConsumptionGrows
<1>6. NoLess(usage', usage)
    BY <1>3, <1>4, <1>5 DEF Next, vars, Consumes, Guard, OnAskThrows, ToolThrows, Tick
<1>7. QED
    BY <1>1, <1>2, <1>6

\* A ceiling that was reached stays reached: nothing has elapsed of a run that
\* has not started, and no ceiling is 0.
LEMMA ReachedStays ==
    ASSUME NEW u \in Ledgers, NEW later \in Ledgers, NoLess(later, u),
           NEW at \in Nat, NEW then \in Nat, at <= then,
           NEW dim \in Limited, Consumed(u, dim, at) >= Policy.budget[dim]
    PROVE  Consumed(later, dim, then) >= Policy.budget[dim]
<1>1. dim \in Dimensions /\ Policy.budget[dim] \in Nat /\ Policy.budget[dim] > 0
    BY Limits, ToolwritAssumption DEF Limited
<1>2. CASE dim = "seconds"
  <2>1. Elapsed(u, at) >= Policy.budget[dim]
      BY <1>2 DEF Consumed
  <2>2. u.startedAt # None /\ Elapsed(u, at) = at - u.startedAt
      BY <1>1, <2>1 DEF Elapsed
  <2>3. later.startedAt = u.startedAt /\ u.startedAt \in Nat
      BY <2>2 DEF NoLess, Ledgers
  <2>4. Elapsed(later, then) = then - u.startedAt
      BY <2>2, <2>3 DEF Elapsed
  <2>5. Elapsed(later, then) >= Policy.budget[dim]
      BY <1>1, <2>1, <2>2, <2>3, <2>4
  <2>6. QED
      BY <1>2, <2>5 DEF Consumed
<1>3. CASE dim # "seconds"
    BY <1>1, <1>3 DEF Consumed, NoLess, Ledgers, Dimensions
<1>4. QED
    BY <1>2, <1>3

\* An exhausted budget stays exhausted for the rest of the run.
THEOREM ExhaustionIsFinal == Spec => ExhaustedStays
<1>1. ASSUME TypeOK, SectionExclusive, [Next]_vars, NEW dim \in Limited,
             Consumed(usage, dim, clock) >= Policy.budget[dim]
      PROVE  Consumed(usage', dim, clock') >= Policy.budget[dim]
    BY <1>1, UsageGrows, ReachedStays
<1>2. TypeOK /\ SectionExclusive /\ [Next]_vars
          => [\A dim \in Limited :
                 Consumed(usage, dim, clock) >= Policy.budget[dim] =>
                 Consumed(usage', dim, clock') >= Policy.budget[dim]]_vars
    BY <1>1
<1>3. QED
    BY Typed, <1>2, PTL DEF ExhaustedStays, Spec

=============================================================================
