------------------------- MODULE ToolwritLogProofs -------------------------
(***************************************************************************)
(* What the audit log of a Toolwrit instance says, for every policy, every *)
(* set of calls and every bound: no tool runs without an entry that allows *)
(* it and no entry is taken back; entries are in the order of the calls,   *)
(* replay, keep each rule's limit and report every threshold; a receipt of *)
(* the log tells what the run did; and, on that evidence, the instance     *)
(* implements the abstract enforcement point Writ.                         *)
(***************************************************************************)
EXTENDS ToolwritProofs, RunReceipt

\* The position of an entry is one the log has.
EntriesKnown == \A c \in Calls : entryOf[c] <= Len(entries)

EvidenceInv == EntriesKnown /\ RecordedBeforeRun

HasRun(c) == pc[c] \in {"running", "returned"}

\* Steps that record no decision leave the evidence as it is.
LEMMA EvidenceKept ==
    ASSUME TypeOK, EvidenceInv, entries' \in Seq(AuditEntries), Extends(entries', entries),
           UNCHANGED entryOf,
           \A c \in Calls : HasRun(c)' => HasRun(c) /\ call'[c] = call[c]
    PROVE  EvidenceInv'
<1>1. /\ Len(entries) \in Nat /\ Len(entries') \in Nat /\ Len(entries) <= Len(entries')
      /\ DOMAIN entries = 1 .. Len(entries) /\ DOMAIN entries' = 1 .. Len(entries')
      /\ \A i \in DOMAIN entries : i \in DOMAIN entries' /\ entries'[i] = entries[i]
    BY DEF TypeOK, Extends
<1>2. EntriesKnown'
    BY <1>1 DEF EvidenceInv, EntriesKnown, TypeOK
<1>3. ASSUME NEW c \in Calls, HasRun(c)'
      PROVE  /\ entryOf'[c] \in DOMAIN entries'
             /\ LET e == entries'[entryOf'[c]]
                IN  e.effect = "allow" /\ e.tool = call'[c].tool
                    /\ e.arg = call'[c].arg /\ e.at = call'[c].at
             /\ \A d \in Calls : entryOf'[d] = entryOf'[c] => d = c
    BY <1>1, <1>3 DEF EvidenceInv, RecordedBeforeRun, HasRun
<1>4. RecordedBeforeRun'
    BY <1>3 DEF RecordedBeforeRun, HasRun
<1>5. QED
    BY <1>2, <1>4 DEF EvidenceInv

\* A recorded permission is evidence for its own call and for no other.
LEMMA EvidenceRecorded ==
    ASSUME TypeOK, EvidenceInv, NEW c \in Calls, pc[c] # "idle", UNCHANGED call,
           NEW v \in Final, Record(c, v)
    PROVE  EvidenceInv'
<1>1. /\ entryOf' = [entryOf EXCEPT ![c] = Len(entries) + 1]
      /\ entries' = Append(entries, Entry(call[c], v, usage))
      /\ \/ v.effect = "allow" /\ pc' = [pc EXCEPT ![c] = "running"]
         \/ v.effect = "deny" /\ pc' = [pc EXCEPT ![c] = "denied"]
    BY RecordType
<1>2. /\ Len(entries') = Len(entries) + 1
      /\ entries'[Len(entries) + 1] = Entry(call[c], v, usage)
      /\ Extends(entries', entries)
      /\ DOMAIN entries' = DOMAIN entries \cup {Len(entries) + 1}
    BY <1>1, RecordAppends
<1>3. /\ Len(entries) \in Nat /\ DOMAIN entries = 1 .. Len(entries)
      /\ \A i \in DOMAIN entries : entries'[i] = entries[i]
    BY <1>2 DEF TypeOK, Extends
<1>4. \A d \in Calls : entryOf[d] \in Nat /\ entryOf[d] <= Len(entries)
    BY DEF TypeOK, EvidenceInv, EntriesKnown
<1>5. entryOf'[c] = Len(entries) + 1 /\ \A d \in Calls \ {c} : entryOf'[d] = entryOf[d]
    BY <1>1 DEF TypeOK
<1>6. EntriesKnown'
    BY <1>2, <1>3, <1>4, <1>5 DEF EntriesKnown
<1>7. ASSUME NEW d \in Calls, HasRun(d)'
      PROVE  /\ entryOf'[d] \in DOMAIN entries'
             /\ LET e == entries'[entryOf'[d]]
                IN  e.effect = "allow" /\ e.tool = call'[d].tool
                    /\ e.arg = call'[d].arg /\ e.at = call'[d].at
             /\ \A o \in Calls : entryOf'[o] = entryOf'[d] => o = d
  <2>1. CASE d = c
    <3>1. v.effect = "allow"
        BY <1>1, <1>7, <2>1 DEF HasRun, TypeOK
    <3>2. QED
        BY <1>2, <1>3, <1>4, <1>5, <2>1, <3>1 DEF Entry
  <2>2. CASE d # c
    <3>1. HasRun(d)
        BY <1>1, <1>7, <2>2 DEF HasRun, TypeOK
    <3>2. /\ entryOf[d] \in DOMAIN entries
          /\ LET e == entries[entryOf[d]]
             IN  e.effect = "allow" /\ e.tool = call[d].tool
                 /\ e.arg = call[d].arg /\ e.at = call[d].at
          /\ \A o \in Calls : entryOf[o] = entryOf[d] => o = d
        BY <3>1 DEF EvidenceInv, RecordedBeforeRun, HasRun
    <3>3. entryOf'[d] = entryOf[d] /\ entries'[entryOf[d]] = entries[entryOf[d]]
        BY <1>3, <1>5, <2>2, <3>2
    <3>4. \A o \in Calls : entryOf'[o] = entryOf'[d] => o = d
        BY <1>3, <1>5, <3>2, <3>3
    <3>5. QED
        BY <1>2, <3>2, <3>3, <3>4
  <2>3. QED
      BY <2>1, <2>2
<1>8. RecordedBeforeRun'
    BY <1>7 DEF RecordedBeforeRun, HasRun
<1>9. QED
    BY <1>6, <1>8 DEF EvidenceInv

\* The log only grows, and only a recorded decision gives a call an entry.
LEMMA LogGrows ==
    ASSUME TypeOK, SectionExclusive, [Next]_vars
    PROVE  /\ entries' \in Seq(AuditEntries) /\ Extends(entries', entries)
           /\ \/ OnlyWarned(entries', entries)
              \/ \E c \in Calls : \E v \in Final :
                     /\ Decide(c) \/ ResolveAsk(c)
                     /\ entries' = Append(entries, Entry(call[c], v, usage))
<1> DEFINE Decided == \E c \in Calls : \E v \in Final :
                          /\ Decide(c) \/ ResolveAsk(c)
                          /\ entries' = Append(entries, Entry(call[c], v, usage))
<1>1. entries' \in Seq(AuditEntries)
    BY TypeStep DEF TypeOK
<1>2. ASSUME UNCHANGED entries
      PROVE  Extends(entries', entries) /\ OnlyWarned(entries', entries)
    BY <1>2 DEF TypeOK, Extends, OnlyWarned
<1>3. ASSUME NEW c \in Calls, Decide(c) \/ ResolveAsk(c)
      PROVE  Extends(entries', entries) /\ (OnlyWarned(entries', entries) \/ Decided)
  <2>1. pc[c] # "idle"
      BY <1>3, DecisionCases
  <2>2. \/ UNCHANGED entries
        \/ \E v \in Final : entries' = Append(entries, Entry(call[c], v, usage))
      BY <1>3, DecisionCases DEF Record, RecordThrows
  <2>3. ASSUME NEW v \in Final, entries' = Append(entries, Entry(call[c], v, usage))
        PROVE  Extends(entries', entries) /\ Decided
      BY <1>3, <2>1, <2>3, RecordAppends
  <2> HIDE DEF Decided
  <2>4. QED
      BY <1>2, <2>2, <2>3
<1>4. CASE Consumes
    BY <1>1, <1>4, ConsumptionType
<1> HIDE DEF Decided
<1>5. Extends(entries', entries) /\ (OnlyWarned(entries', entries) \/ Decided)
    BY <1>2, <1>3, <1>4 DEF Next, vars, Consumes, Guard, OnAskThrows, ToolThrows, Tick, ToolSettles
<1>6. QED
    BY <1>1, <1>5 DEF Decided

\* Every step preserves the evidence.
LEMMA EvidenceStep ==
    ASSUME TypeOK, SectionExclusive, EvidenceInv, [Next]_vars
    PROVE  EvidenceInv'
<1>1. entries' \in Seq(AuditEntries) /\ Extends(entries', entries)
    BY LogGrows
<1>2. ASSUME UNCHANGED entryOf,
             \A c \in Calls : HasRun(c)' => HasRun(c) /\ call'[c] = call[c]
      PROVE  EvidenceInv'
    BY <1>1, <1>2, EvidenceKept
<1>3. ASSUME NEW c \in Calls, Decide(c) \/ ResolveAsk(c)
      PROVE  EvidenceInv'
  <2>1. pc[c] # "idle" /\ UNCHANGED call
      BY <1>3, DecisionCases
  <2>2. CASE pc' = [pc EXCEPT ![c] = "asking"] /\ UNCHANGED entryOf
      BY <1>2, <2>1, <2>2 DEF HasRun, TypeOK
  <2>3. ASSUME NEW v \in Final, RecordThrows(c, v)
        PROVE  EvidenceInv'
      BY <1>2, <2>1, <2>3 DEF HasRun, TypeOK, RecordThrows
  <2>4. ASSUME NEW v \in Final, Record(c, v)
        PROVE  EvidenceInv'
      BY <2>1, <2>4, EvidenceRecorded
  <2>5. QED
      BY <1>3, <2>2, <2>3, <2>4, DecisionCases
<1>4. ASSUME NEW c \in Calls, Guard(c)
      PROVE  EvidenceInv'
    BY <1>2, <1>4 DEF Guard, HasRun, TypeOK
<1>5. ASSUME NEW c \in Calls, OnAskThrows(c) \/ ToolThrows(c)
      PROVE  EvidenceInv'
    BY <1>2, <1>5 DEF OnAskThrows, ToolThrows, ToolSettles, HasRun, TypeOK
<1>6. ASSUME NEW c \in Calls, Return(c)
      PROVE  EvidenceInv'
  <2>1. pc[c] = "running" /\ UNCHANGED <<call, entryOf>>
      BY <1>6 DEF Return, ToolSettles
  <2>2. pc' = [pc EXCEPT ![c] = "returned"] \/ pc' = [pc EXCEPT ![c] = "failed"]
      BY <1>6 DEF Return
  <2>3. QED
      BY <1>2, <2>1, <2>2 DEF HasRun, TypeOK
<1>7. CASE UNCHANGED <<pc, call, entryOf>>
    BY <1>2, <1>7 DEF HasRun
<1>8. QED
    BY <1>3, <1>4, <1>5, <1>6, <1>7 DEF Next, vars, Meter, Spend, Metered, Tick

\* Without calls there is nothing to evidence.
LEMMA EvidenceInit == Init => EvidenceInv
<1> SUFFICES ASSUME Init
             PROVE  EvidenceInv
    OBVIOUS
<1>1. Len(entries) \in Nat
    BY TypeInit DEF TypeOK
<1>2. QED
    BY <1>1 DEF Init, EvidenceInv, EntriesKnown, RecordedBeforeRun

Inv == TypeOK /\ SectionExclusive /\ BudgetInv /\ EvidenceInv

\* The whole inductive invariant holds in every reachable state.
LEMMA Invariant == Spec => []Inv
<1>1. Init => Inv
    BY TypeInit, BudgetInit, EvidenceInit DEF Inv
<1>2. Inv /\ [Next]_vars => Inv'
    BY SectionStep, TypeStep, BudgetStep, EvidenceStep DEF Inv
<1>3. QED
    BY <1>1, <1>2, PTL DEF Spec

\* A tool that runs, or has run, has an entry of its own that allows it.
THEOREM EvidenceBeforeEffect == Spec => []RecordedBeforeRun
<1>1. Inv => RecordedBeforeRun
    BY DEF Inv, EvidenceInv
<1>2. QED
    BY Invariant, <1>1, PTL

-----------------------------------------------------------------------------
(*                          The order of the log                           *)

\* A call entry of the longer log is an old one, or the one just recorded.
LEMMA CallEntries ==
    ASSUME TypeOK, SectionExclusive, [Next]_vars,
           NEW i \in DOMAIN entries', IsCall(i)'
    PROVE  \/ i \in DOMAIN entries /\ entries'[i] = entries[i] /\ IsCall(i)
           \/ \E c \in Calls : \E v \in Final :
                  /\ Decide(c) \/ ResolveAsk(c)
                  /\ i = Len(entries) + 1
                  /\ entries' = Append(entries, Entry(call[c], v, usage))
                  /\ entries'[i] = Entry(call[c], v, usage)
<1>1. CASE i \in DOMAIN entries
  <2>1. entries'[i] = entries[i]
    <3>1. i \in 1 .. Len(entries)
        BY <1>1 DEF TypeOK
    <3>2. QED
        BY <3>1, LogGrows DEF Extends
  <2>2. QED
      BY <1>1, <2>1 DEF IsCall
<1>2. CASE i \notin DOMAIN entries /\ OnlyWarned(entries', entries)
    BY <1>2 DEF OnlyWarned, IsCall, Reserved
<1>3. ASSUME i \notin DOMAIN entries, NEW c \in Calls, NEW v \in Final,
             Decide(c) \/ ResolveAsk(c),
             entries' = Append(entries, Entry(call[c], v, usage))
      PROVE  i = Len(entries) + 1 /\ entries'[i] = Entry(call[c], v, usage)
  <2>1. pc[c] # "idle"
      BY <1>3, DecisionCases
  <2>2. QED
      BY <1>3, <2>1, RecordAppends
<1>4. QED
    BY <1>1, <1>2, <1>3, LogGrows

\* A call waits for its turn behind the calls made before it, and no call is
\* made before one that has been decided.
OrderInv ==
    /\ \A c \in Calls : pc[c] # "idle" => call[c].at <= clock
    /\ \A i, j \in DOMAIN queue : i < j => call[queue[i]].at <= call[queue[j]].at
    /\ \A i \in DOMAIN entries : IsCall(i) =>
           /\ entries[i].at <= clock
           /\ \A c \in Calls : pc[c] \in {"queued", "asking"} => entries[i].at <= call[c].at

\* An empty log is in order.
LEMMA OrderInit == Init => OrderInv /\ DecidedInOrder
<1> SUFFICES ASSUME Init
             PROVE  OrderInv /\ DecidedInOrder
    OBVIOUS
<1>1. \A i \in DOMAIN entries : ~IsCall(i)
    BY DEF Init, IsCall, PlanEntry, Entry, Reserved
<1>2. QED
    BY <1>1 DEF Init, OrderInv, DecidedInOrder

\* A queue whose calls keep their stamps stays in order when its head leaves.
LEMMA QueueShrinks ==
    ASSUME TypeOK, SectionExclusive, OrderInv, UNCHANGED call,
           queue' = queue \/ (queue # <<>> /\ queue' = Tail(queue))
    PROVE  \A i, j \in DOMAIN queue' : i < j => call'[queue'[i]].at <= call'[queue'[j]].at
<1>1. CASE queue' = queue
    BY <1>1 DEF OrderInv
<1>2. CASE queue # <<>> /\ queue' = Tail(queue)
  <2>1. \A i \in DOMAIN queue' : i \in Nat /\ i + 1 \in DOMAIN queue /\ queue'[i] = queue[i + 1]
      BY <1>2 DEF TypeOK
  <2>2. TAKE i, j \in DOMAIN queue'
  <2>3. /\ i \in Nat /\ j \in Nat /\ i + 1 \in DOMAIN queue /\ j + 1 \in DOMAIN queue
        /\ queue'[i] = queue[i + 1] /\ queue'[j] = queue[j + 1]
        /\ i < j => i + 1 < j + 1
      BY <2>1
  <2>4. QED
      BY <2>3 DEF OrderInv
<1>3. QED
    BY <1>1, <1>2

\* The call whose turn it is was made no later than any that waits.
LEMMA HeadIsOldest ==
    ASSUME TypeOK, SectionExclusive, OrderInv, NEW c \in Calls, InSection(c), InLine(c),
           NEW d \in Calls, InLine(d), call[c].at \in Nat
    PROVE  call[c].at <= call[d].at
<1>1. PICK i \in DOMAIN queue : queue[i] = d
    BY DEF SectionExclusive
<1>2. 1 \in DOMAIN queue /\ queue[1] = c /\ i \in Nat /\ 1 <= i
    BY <1>1 DEF TypeOK, InSection
<1>3. CASE i = 1
    BY <1>1, <1>2, <1>3
<1>4. CASE 1 < i
    BY <1>1, <1>2, <1>4 DEF OrderInv
<1>5. QED
    BY <1>2, <1>3, <1>4

\* Every step keeps the order.
LEMMA OrderStep ==
    ASSUME TypeOK, SectionExclusive, OrderInv, DecidedInOrder, [Next]_vars
    PROVE  OrderInv' /\ DecidedInOrder'
<1>0. /\ clock \in Nat
      /\ \A c \in Calls : pc[c] # "idle" => call[c].at \in Nat
      /\ \A i \in DOMAIN entries : i \in Nat /\ entries[i].at \in Nat
  <2>1. \A i \in DOMAIN entries : i \in Nat /\ entries[i] \in AuditEntries
      BY DEF TypeOK
  <2>2. clock \in Nat /\ \A c \in Calls : pc[c] # "idle" => call[c] \in ToolCalls
      BY DEF TypeOK
  <2>3. QED
      BY <2>1, <2>2 DEF ToolCalls, AuditEntries
<1>1. ASSUME UNCHANGED call, clock <= clock', clock' \in Nat,
             queue' = queue \/ (queue # <<>> /\ queue' = Tail(queue)),
             \A c \in Calls : /\ pc'[c] # "idle" => pc[c] # "idle"
                              /\ pc'[c] \in {"queued", "asking"} => pc[c] \in {"queued", "asking"},
             \A i \in DOMAIN entries' : IsCall(i)' =>
                 i \in DOMAIN entries /\ entries'[i] = entries[i] /\ IsCall(i)
      PROVE  OrderInv' /\ DecidedInOrder'
  <2>1. \A i, j \in DOMAIN queue' : i < j => call'[queue'[i]].at <= call'[queue'[j]].at
      BY <1>1, QueueShrinks
  <2>2. \A c \in Calls : pc'[c] # "idle" => call'[c].at <= clock'
      BY <1>0, <1>1 DEF OrderInv
  <2>3. \A i \in DOMAIN entries' : IsCall(i)' =>
            /\ entries'[i].at <= clock'
            /\ \A c \in Calls : pc'[c] \in {"queued", "asking"} => entries'[i].at <= call'[c].at
      BY <1>0, <1>1 DEF OrderInv
  <2>4. OrderInv'
      BY <2>1, <2>2, <2>3 DEF OrderInv
  <2>5. DecidedInOrder'
      BY <1>1 DEF DecidedInOrder
  <2>6. QED
      BY <2>4, <2>5
<1>2. ASSUME UNCHANGED entries
      PROVE  \A i \in DOMAIN entries' : IsCall(i)' =>
                 i \in DOMAIN entries /\ entries'[i] = entries[i] /\ IsCall(i)
    BY <1>2 DEF IsCall
<1>3. ASSUME NEW c \in Calls, Guard(c)
      PROVE  OrderInv' /\ DecidedInOrder'
  <2>1. PICK request \in Requests :
            call' = [call EXCEPT ![c] = ToCall(request.tool, request.arg)]
      BY <1>3 DEF Guard
  <2>2. /\ pc[c] = "idle" /\ pc' = [pc EXCEPT ![c] = "queued"]
        /\ queue' = Append(queue, c)
        /\ UNCHANGED <<clock, entries>>
      BY <1>3 DEF Guard
  <2>3. /\ call'[c].at = clock
        /\ \A d \in Calls \ {c} : call'[d] = call[d] /\ pc'[d] = pc[d]
      BY <2>1, <2>2 DEF TypeOK, ToCall
  <2>4. \A d \in Calls : pc'[d] # "idle" => call'[d].at <= clock'
      BY <1>0, <2>2, <2>3 DEF OrderInv
  <2>5. \A i \in DOMAIN queue : queue[i] # c /\ queue[i] \in Calls /\ pc[queue[i]] # "idle"
    <3>1. \A i \in DOMAIN queue : queue[i] \in Calls
        BY DEF TypeOK
    <3>2. QED
        BY <2>2, <3>1 DEF SectionExclusive, InLine
  <2>6. /\ DOMAIN queue' = DOMAIN queue \cup {Len(queue) + 1} /\ queue'[Len(queue) + 1] = c
        /\ DOMAIN queue = 1 .. Len(queue) /\ Len(queue) \in Nat
        /\ \A i \in DOMAIN queue : queue'[i] = queue[i]
      BY <2>2 DEF TypeOK
  <2>7. ASSUME NEW i \in DOMAIN queue', NEW j \in DOMAIN queue', i < j
        PROVE  call'[queue'[i]].at <= call'[queue'[j]].at
    <3>1. i \in DOMAIN queue
        BY <2>6, <2>7
    <3>2. queue'[i] = queue[i] /\ call'[queue[i]] = call[queue[i]]
        BY <2>3, <2>5, <2>6, <3>1
    <3>3. CASE j \in DOMAIN queue
      <4>1. queue'[j] = queue[j] /\ call'[queue[j]] = call[queue[j]]
          BY <2>3, <2>5, <2>6, <3>3
      <4>2. QED
          BY <2>7, <3>1, <3>2, <3>3, <4>1 DEF OrderInv
    <3>4. CASE queue'[j] = c
      <4>1. call[queue[i]].at <= clock
          BY <2>5, <3>1 DEF OrderInv
      <4>2. QED
          BY <2>3, <3>2, <3>4, <4>1
    <3>5. QED
        BY <2>6, <2>7, <3>3, <3>4
  <2>8. \A i \in DOMAIN entries' : IsCall(i)' =>
            /\ entries'[i].at <= clock'
            /\ \A d \in Calls : pc'[d] \in {"queued", "asking"} => entries'[i].at <= call'[d].at
      BY <2>2, <2>3 DEF OrderInv, IsCall
  <2>9. OrderInv'
      BY <2>4, <2>7, <2>8 DEF OrderInv
  <2>10. DecidedInOrder'
      BY <2>2 DEF DecidedInOrder, IsCall
  <2>11. QED
      BY <2>9, <2>10
<1>4. ASSUME NEW c \in Calls, Decide(c) \/ ResolveAsk(c)
      PROVE  OrderInv' /\ DecidedInOrder'
  <2>1. /\ pc[c] \in {"queued", "asking"} /\ InSection(c) /\ InLine(c) /\ queue # <<>>
        /\ UNCHANGED <<clock, call>>
      BY <1>4, DecisionCases, DecidesInSection DEF InSection
  <2>2. /\ queue' = queue \/ queue' = Tail(queue)
        /\ \A d \in Calls \ {c} : pc'[d] = pc[d]
      BY <1>4, DecisionCases, DecisionMoves DEF Record, RecordThrows, Release
  <2>3. \A i, j \in DOMAIN queue' : i < j => call'[queue'[i]].at <= call'[queue'[j]].at
      BY <2>1, <2>2, QueueShrinks
  <2>4. \A d \in Calls : pc'[d] # "idle" => call'[d].at <= clock'
      BY <2>1, <2>2 DEF OrderInv
  <2>5. \A d \in Calls : pc'[d] \in {"queued", "asking"} =>
            pc[d] \in {"queued", "asking"} /\ call[c].at <= call[d].at
    <3>1. ASSUME NEW d \in Calls, pc'[d] \in {"queued", "asking"}
          PROVE  pc[d] \in {"queued", "asking"}
        BY <2>1, <2>2, <3>1
    <3>2. QED
        BY <1>0, <2>1, <3>1, HeadIsOldest DEF InLine
  <2>6. ASSUME NEW i \in DOMAIN entries', IsCall(i)'
        PROVE  \/ i \in DOMAIN entries /\ entries'[i] = entries[i] /\ IsCall(i)
               \/ i = Len(entries) + 1 /\ entries'[i].at = call[c].at
    <3>1. ASSUME NEW d \in Calls, Decide(d) \/ ResolveAsk(d)
          PROVE  d = c
        BY <2>1, <3>1, DecidesInSection DEF InSection
    <3>2. \/ i \in DOMAIN entries /\ entries'[i] = entries[i] /\ IsCall(i)
          \/ \E v \in Final : i = Len(entries) + 1 /\ entries'[i] = Entry(call[c], v, usage)
        BY <2>6, <3>1, CallEntries
    <3>3. \A v \in Final : Entry(call[c], v, usage).at = call[c].at
        BY DEF Entry
    <3>4. QED
        BY <3>2, <3>3
  <2>7. \A i \in DOMAIN entries : IsCall(i) => entries[i].at <= call[c].at
      BY <2>1 DEF OrderInv
  <2>8. \A i \in DOMAIN entries' : IsCall(i)' =>
            /\ entries'[i].at <= call[c].at
            /\ entries'[i].at <= clock'
            /\ \A d \in Calls : pc'[d] \in {"queued", "asking"} => entries'[i].at <= call'[d].at
      BY <1>0, <2>1, <2>5, <2>6, <2>7 DEF OrderInv
  <2>9. OrderInv'
      BY <2>3, <2>4, <2>8 DEF OrderInv
  <2>10. ASSUME NEW i \in DOMAIN entries', NEW j \in DOMAIN entries', i < j, IsCall(i)', IsCall(j)'
         PROVE  entries'[i].at <= entries'[j].at
    <3>1. CASE j \in DOMAIN entries /\ entries'[j] = entries[j] /\ IsCall(j)
      <4>1. i \in DOMAIN entries /\ entries'[i] = entries[i] /\ IsCall(i)
          BY <2>6, <2>10, <3>1 DEF TypeOK
      <4>2. QED
          BY <2>10, <3>1, <4>1 DEF DecidedInOrder
    <3>2. CASE entries'[j].at = call[c].at
        BY <2>8, <2>10, <3>2
    <3>3. QED
        BY <2>6, <2>10, <3>1, <3>2
  <2>11. DecidedInOrder'
      BY <2>10 DEF DecidedInOrder
  <2>12. QED
      BY <2>9, <2>11
<1>5. CASE Consumes
  <2>1. UNCHANGED <<clock, call>> /\ OnlyWarned(entries', entries) /\ Extends(entries', entries)
      BY <1>5, ConsumptionType
  <2>2. \A i \in DOMAIN entries' : IsCall(i)' =>
            i \in DOMAIN entries /\ entries'[i] = entries[i] /\ IsCall(i)
      BY <2>1 DEF TypeOK, OnlyWarned, Extends, IsCall, Reserved
  <2>3. /\ \A c \in Calls : /\ pc'[c] # "idle" => pc[c] # "idle"
                            /\ pc'[c] \in {"queued", "asking"} => pc[c] \in {"queued", "asking"}
        /\ queue' = queue \/ (queue # <<>> /\ queue' = Tail(queue))
    <3>1. ASSUME NEW c \in Calls, Return(c)
          PROVE  /\ \A d \in Calls :
                        /\ pc'[d] # "idle" => pc[d] # "idle"
                        /\ pc'[d] \in {"queued", "asking"} => pc[d] \in {"queued", "asking"}
                 /\ queue' = queue \/ (queue # <<>> /\ queue' = Tail(queue))
      <4>1. pc[c] = "running" /\ Held => InSection(c)
          BY DEF SectionExclusive
      <4>2. /\ pc[c] = "running"
            /\ pc' = [pc EXCEPT ![c] = "returned"] \/ pc' = [pc EXCEPT ![c] = "failed"]
            /\ queue' = queue \/ (queue # <<>> /\ queue' = Tail(queue))
          BY <3>1, <4>1 DEF Return, ToolSettles, Release, InSection
      <4>3. QED
          BY <4>2 DEF TypeOK
    <3>2. CASE UNCHANGED <<pc, queue>>
        BY <3>2
    <3>3. (\E c \in Calls : Return(c)) \/ UNCHANGED <<pc, queue>>
        BY <1>5 DEF Consumes, Meter, Spend, Metered
    <3>4. QED
        BY <3>1, <3>2, <3>3
  <2>4. QED
      BY <1>0, <1>1, <2>1, <2>2, <2>3
<1>6. ASSUME NEW c \in Calls, OnAskThrows(c) \/ ToolThrows(c)
      PROVE  OrderInv' /\ DecidedInOrder'
  <2>1. /\ UNCHANGED <<clock, call, entries>> /\ pc' = [pc EXCEPT ![c] = "failed"]
        /\ pc[c] \in {"asking", "running"}
      BY <1>6 DEF OnAskThrows, ToolThrows, ToolSettles
  <2>2. queue' = queue \/ (queue # <<>> /\ queue' = Tail(queue))
    <3>1. pc[c] = "asking" \/ (Held /\ pc[c] = "running") => InSection(c)
        BY DEF SectionExclusive
    <3>2. QED
        BY <1>6, <3>1 DEF OnAskThrows, ToolThrows, ToolSettles, Release, InSection
  <2>3. \A d \in Calls : /\ pc'[d] # "idle" => pc[d] # "idle"
                         /\ pc'[d] \in {"queued", "asking"} => pc[d] \in {"queued", "asking"}
      BY <2>1 DEF TypeOK
  <2>4. QED
      BY <1>0, <1>1, <1>2, <2>1, <2>2, <2>3
<1>7. CASE Tick \/ UNCHANGED vars
  <2>1. clock <= clock' /\ clock' \in Nat /\ UNCHANGED <<pc, call, queue, entries>>
      BY <1>0, <1>7 DEF Tick, vars
  <2>2. QED
      BY <1>1, <1>2, <2>1
<1>8. QED
    BY <1>3, <1>4, <1>5, <1>6, <1>7 DEF Next, Consumes

\* Calls are decided in the order they were made: a call that awaits its
\* approval holds back every later one.
THEOREM DecisionsInOrder == Spec => []DecidedInOrder
<1>1. Init => TypeOK /\ SectionExclusive /\ OrderInv /\ DecidedInOrder
    BY TypeInit, OrderInit
<1>2. TypeOK /\ SectionExclusive /\ OrderInv /\ DecidedInOrder /\ [Next]_vars
          => (TypeOK /\ SectionExclusive /\ OrderInv /\ DecidedInOrder)'
    BY SectionStep, TypeStep, OrderStep
<1>3. QED
    BY <1>1, <1>2, PTL DEF Spec

-----------------------------------------------------------------------------
(*                       Replaying what is recorded                        *)

\* An entry does not say when the run's first consumption was, so that a
\* verdict that depends on the elapsed time cannot be had from it.
Timeless == "seconds" \notin Limited

\* Without a time budget the verdict depends on what an entry carries.
LEMMA EntryDecides ==
    ASSUME Timeless, NEW toolCall, NEW u \in Ledgers, NEW seen \in Ledgers, NEW history,
           UsageForAudit(seen) = UsageForAudit(u)
    PROVE  Evaluate(toolCall, Policy, seen, history) = Evaluate(toolCall, Policy, u, history)
<1>1. ASSUME NEW dim \in Limited
      PROVE  Consumed(seen, dim, toolCall.at) = Consumed(u, dim, toolCall.at)
  <2>1. dim \in {"calls", "tokens", "usd", "bytes"}
      BY ToolwritAssumption DEF Timeless, Limited, Dimensions
  <2>2. seen.calls = u.calls /\ seen.tokens = u.tokens /\ seen.usd = u.usd /\ seen.bytes = u.bytes
      BY DEF UsageForAudit
  <2>3. QED
      BY <2>1, <2>2 DEF Consumed
<1>2. CheckBudget(toolCall, Policy, seen) = CheckBudget(toolCall, Policy, u)
    BY <1>1 DEF CheckBudget, Limited
<1>3. QED
    BY <1>2 DEF Evaluate

\* Only the entries before it, and the entry itself, matter to a replay.
LEMMA ReplayKept ==
    ASSUME TypeOK, entries' \in Seq(AuditEntries), Extends(entries', entries),
           NEW i \in DOMAIN entries
    PROVE  Replay(i)' = Replay(i)
<1>1. /\ i \in 1 .. Len(entries) /\ Len(entries) \in Nat
      /\ entries \in Seq(AuditEntries)
    BY DEF TypeOK
<1>2. entries'[i] = entries[i]
    BY <1>1 DEF Extends
<1>3. SubSeq(entries', 1, i - 1) = SubSeq(entries, 1, i - 1)
  <2>1. \A j \in 1 .. i - 1 : entries'[j] = entries[j]
      BY <1>1 DEF Extends
  <2>2. /\ SubSeq(entries', 1, i - 1) = [j \in 1 .. i - 1 |-> entries'[j]]
        /\ SubSeq(entries, 1, i - 1) = [j \in 1 .. i - 1 |-> entries[j]]
      BY <1>1 DEF Extends
  <2>3. QED
      BY <2>1, <2>2
<1>4. QED
    BY <1>2, <1>3 DEF Replay

\* A verdict that the engine reached, and that has been recorded, is replayed.
LEMMA RecordedReplays ==
    ASSUME Timeless, TypeOK, NEW c \in Calls, pc[c] # "idle", NEW v \in Final,
           v = Evaluate(call[c], Policy, usage, entries),
           entries' = Append(entries, Entry(call[c], v, usage)),
           NEW i, i = Len(entries) + 1
    PROVE  LET e == entries'[i] IN Replay(i)' = Verdict(e.effect, e.rule, e.why)
<1> DEFINE e == entries'[i]
           seen == [calls |-> e.usage.calls, tokens |-> e.usage.tokens, usd |-> e.usage.usd,
                    bytes |-> e.usage.bytes, startedAt |-> None]
<1>1. usage \in Ledgers /\ call[c] \in ToolCalls /\ entries \in Seq(AuditEntries)
    BY DEF TypeOK, Ledgers
<1>2. e = Entry(call[c], v, usage)
    BY RecordAppends
<1>3. [tool |-> e.tool, arg |-> e.arg, at |-> e.at] = call[c]
    BY <1>1, <1>2 DEF Entry, ToolCalls
<1>4. seen \in Ledgers /\ UsageForAudit(seen) = UsageForAudit(usage)
    BY <1>1, <1>2 DEF Entry, UsageForAudit, Ledgers
<1>5. SubSeq(entries', 1, i - 1) = entries
  <2>1. /\ Len(entries) \in Nat /\ i - 1 = Len(entries)
        /\ \A j \in 1 .. i - 1 : entries'[j] = entries[j]
        /\ Len(entries') = Len(entries) + 1 /\ entries' \in Seq(AuditEntries)
      BY <1>1, RecordAppends DEF Extends
  <2>2. SubSeq(entries', 1, i - 1) = [j \in 1 .. i - 1 |-> entries'[j]]
      BY <2>1
  <2>3. entries = [j \in 1 .. i - 1 |-> entries[j]]
      BY <1>1, <2>1
  <2>4. QED
      BY <2>1, <2>2, <2>3
<1>6. v = Verdict(e.effect, e.rule, e.why)
    BY <1>2 DEF Final, Entry, Verdict
<1>7. Replay(i)' = Evaluate([tool |-> e.tool, arg |-> e.arg, at |-> e.at], Policy, seen,
                            SubSeq(entries', 1, i - 1))
    BY DEF Replay
<1> HIDE DEF e, seen
<1>8. Replay(i)' = Evaluate(call[c], Policy, seen, entries)
    BY <1>3, <1>5, <1>7
<1>9. Replay(i)' = v
    BY <1>1, <1>4, <1>8, EntryDecides
<1>10. QED
    BY <1>6, <1>9 DEF e

\* Every step keeps the log replayable.
LEMMA ReplayStep ==
    ASSUME Timeless, TypeOK, SectionExclusive, UnaskedReplayable, [Next]_vars
    PROVE  UnaskedReplayable'
<1> SUFFICES ASSUME NEW i \in DOMAIN entries', IsCall(i)', entries'[i].why # "ask"
             PROVE  LET e == entries'[i] IN Replay(i)' = Verdict(e.effect, e.rule, e.why)
    BY DEF UnaskedReplayable
<1>1. CASE i \in DOMAIN entries /\ entries'[i] = entries[i] /\ IsCall(i)
  <2>1. Replay(i)' = Replay(i)
      BY <1>1, LogGrows, ReplayKept
  <2>2. QED
      BY <1>1, <2>1 DEF UnaskedReplayable
<1>2. ASSUME NEW c \in Calls, NEW w \in Final, Decide(c) \/ ResolveAsk(c), i = Len(entries) + 1,
             entries' = Append(entries, Entry(call[c], w, usage)),
             entries'[i] = Entry(call[c], w, usage)
      PROVE  LET e == entries'[i] IN Replay(i)' = Verdict(e.effect, e.rule, e.why)
  <2>1. ASSUME NEW v, Record(c, v) \/ RecordThrows(c, v)
        PROVE  entries'[i] = Entry(call[c], v, usage) /\ entries' = Append(entries, Entry(call[c], v, usage))
    <3>1. entries' # entries
      <4>1. pc[c] # "idle"
          BY <1>2, DecisionCases
      <4>2. Len(entries') = Len(entries) + 1 /\ Len(entries) \in Nat
          BY <1>2, <4>1, RecordAppends DEF TypeOK
      <4>3. QED
          BY <4>2
    <3>2. entries' = Append(entries, Entry(call[c], v, usage))
        BY <2>1, <3>1 DEF Record, RecordThrows
    <3>3. Append(entries, Entry(call[c], v, usage))[Len(entries) + 1] = Entry(call[c], v, usage)
        BY DEF TypeOK
    <3>4. QED
        BY <1>2, <3>2, <3>3
  <2>2. CASE Decide(c)
    <3> DEFINE v == Evaluate(call[c], Policy, usage, entries)
    <3>1. v \in [effect : Effects, rule : RuleNames, why : Whys]
        BY EvaluateTyped
    <3>2. pc[c] = "queued" /\ (\/ v.effect = "ask" /\ UNCHANGED entries
                               \/ v.effect # "ask" /\ (Record(c, v) \/ RecordThrows(c, v)))
        BY <2>2 DEF Decide
    <3> HIDE DEF v
    <3>3. entries' # entries
      <4>1. Len(entries') = Len(entries) + 1 /\ Len(entries) \in Nat
          BY <1>2, <3>2, RecordAppends DEF TypeOK
      <4>2. QED
          BY <4>1
    <3>4. v \in Final
        BY <3>1, <3>2, <3>3 DEF Final, Effects
    <3>5. Record(c, v) \/ RecordThrows(c, v)
        BY <3>2, <3>3
    <3>6. entries' = Append(entries, Entry(call[c], v, usage))
        BY <2>1, <3>5, Zenon
    <3>7. QED
        BY <1>2, <3>2, <3>4, <3>6, RecordedReplays DEF v
  <2>3. CASE ResolveAsk(c)
    <3>1. PICK effect : LET v == Verdict(effect, verdict[c].rule, "ask")
                        IN  Record(c, v) \/ RecordThrows(c, v)
        BY <2>3 DEF ResolveAsk
    <3> DEFINE answer == Verdict(effect, verdict[c].rule, "ask")
    <3>2. answer.why = "ask" /\ (Record(c, answer) \/ RecordThrows(c, answer))
        BY <3>1 DEF Verdict
    <3> HIDE DEF answer
    <3>3. entries'[i] = Entry(call[c], answer, usage)
        BY <2>1, <3>2, Zenon
    <3>4. entries'[i].why = "ask"
        BY <3>2, <3>3 DEF Entry
    <3>5. QED
        BY <3>4
  <2>4. QED
      BY <1>2, <2>2, <2>3
<1>3. QED
    BY <1>1, <1>2, CallEntries

\* Whoever holds the policy and the log can check every verdict that needed no
\* approval: what each entry carries, and the entries before it, lead to it.
THEOREM LogReplays ==
    ASSUME Timeless
    PROVE  Spec => []UnaskedReplayable
<1>1. Init => UnaskedReplayable
    BY DEF Init, UnaskedReplayable, IsCall, PlanEntry, Entry, Reserved
<1>2. TypeOK /\ SectionExclusive /\ UnaskedReplayable /\ [Next]_vars => UnaskedReplayable'
    BY ReplayStep
<1>3. QED
    BY Typed, <1>1, <1>2, PTL DEF Spec

-----------------------------------------------------------------------------
(*                              Rate limits                                *)

\* The calls that a limit bounds are among those that the engine counts.
LEMMA CallsAreCounted ==
    ASSUME NEW log \in Seq(AuditEntries), NEW rule, NEW at, rule.limit.max \in Nat,
           ~(CountRecent(log, rule.id, at, rule.limit.perSeconds) >= rule.limit.max)
    PROVE  Cardinality(CallsWithin(log, rule, at)) < rule.limit.max
<1> DEFINE counted == {i \in DOMAIN log :
                          /\ log[i].effect # "deny"
                          /\ log[i].rule = rule.id
                          /\ rule.limit.perSeconds = None
                                 \/ log[i].at > at - rule.limit.perSeconds}
           bounded == CallsWithin(log, rule, at)
<1>1. counted \subseteq 1 .. Len(log) /\ Len(log) \in Nat
    OBVIOUS
<1>2. bounded \subseteq counted
    BY DEF CallsWithin
<1>3. CountRecent(log, rule.id, at, rule.limit.perSeconds) = Cardinality(counted)
    BY DEF CountRecent
<1> HIDE DEF counted, bounded
<1>4. IsFiniteSet(1 .. Len(log))
    BY <1>1, FS_Interval
<1>5. IsFiniteSet(counted)
    BY <1>1, <1>4, FS_Subset
<1>6. /\ Cardinality(bounded) \in Nat /\ Cardinality(counted) \in Nat
      /\ Cardinality(bounded) <= Cardinality(counted)
  <2>1. IsFiniteSet(bounded) /\ Cardinality(bounded) <= Cardinality(counted)
      BY <1>2, <1>5, FS_Subset
  <2>2. QED
      BY <1>5, <2>1, FS_CardinalityType
<1>7. Cardinality(bounded) < rule.limit.max
    BY <1>3, <1>6
<1>8. QED
    BY <1>7 DEF bounded

\* Entries of the log itself do not count.
LEMMA CallsKept ==
    ASSUME NEW longer \in Seq(AuditEntries), NEW shorter \in Seq(AuditEntries),
           Extends(longer, shorter), NEW rule, NEW at,
           \A i \in DOMAIN longer \ DOMAIN shorter : longer[i].tool \in Reserved
    PROVE  CallsWithin(longer, rule, at) = CallsWithin(shorter, rule, at)
<1>1. \A i \in DOMAIN shorter : i \in DOMAIN longer /\ longer[i] = shorter[i]
    BY DEF Extends
<1>2. QED
    BY <1>1 DEF CallsWithin

\* The limits of a rule that a verdict names hold for the call and the log.
WithinLimit(ruleId, at, history) ==
    \A r \in DOMAIN Policy.rules :
        LET rule == Policy.rules[r]
        IN  rule.id = ruleId /\ rule.limit # None
            => Cardinality(CallsWithin(history, rule, at)) < rule.limit.max

\* A verdict that is no refusal names a rule whose limit is not spent.
LEMMA NamesWithinLimit ==
    ASSUME TypeOK, NEW c \in Calls, pc[c] # "idle",
           NEW v, v = Evaluate(call[c], Policy, usage, entries), v.effect # "deny"
    PROVE  WithinLimit(v.rule, call[c].at, entries)
<1> DEFINE matched == Matched(Policy, call[c])
           with(effect) == {i \in matched : Policy.rules[i].effect = effect}
<1>1. \A i \in matched : ~LimitSpent(Policy.rules[i], call[c], entries)
    BY PermittedByEveryRule
<1>2. v.rule = None \/ \E i \in matched : v.rule = Policy.rules[i].id
  <2>1. matched \subseteq Nat /\ \A effect : with(effect) \subseteq matched
      BY ToolwritAssumption DEF Matched
  <2>2. \A effect : with(effect) # {} => FirstOf(with(effect)) \in matched
      BY <2>1, FirstIsLeast
  <2>3. \/ \E effect : with(effect) # {} /\ v.rule = Policy.rules[FirstOf(with(effect))].id
        \/ v.rule = None
    <3> HIDE DEF matched
    <3>1. QED
        BY DEF Evaluate, Verdict, matched
  <2> HIDE DEF with
  <2>4. QED
      BY <2>2, <2>3
<1>3. ASSUME NEW r \in DOMAIN Policy.rules, Policy.rules[r].id = v.rule,
             Policy.rules[r].limit # None
      PROVE  Cardinality(CallsWithin(entries, Policy.rules[r], call[c].at))
                 < Policy.rules[r].limit.max
  <2>1. PICK i \in matched : v.rule = Policy.rules[i].id
      BY <1>2, <1>3, RulesAsLoaded
  <2>2. i = r
      BY <1>3, <2>1, RulesAsLoaded DEF Matched
  <2>3. ~(CountRecent(entries, v.rule, call[c].at, Policy.rules[r].limit.perSeconds)
              >= Policy.rules[r].limit.max)
      BY <1>1, <1>3, <2>1, <2>2 DEF LimitSpent
  <2>4. Policy.rules[r].limit.max \in Nat
      BY <1>3, RulesAsLoaded
  <2>5. QED
      BY <1>3, <2>3, <2>4, CallsAreCounted DEF TypeOK
<1>4. QED
    BY <1>3 DEF WithinLimit

\* A call that awaits its approval keeps its place in the limit it was asked
\* under: nothing is decided meanwhile.
AskedWithinLimit ==
    \A c \in Calls : pc[c] = "asking" => WithinLimit(verdict[c].rule, call[c].at, entries)

\* Warnings do not use up a limit.
LEMMA WarningsAreFree ==
    ASSUME TypeOK, entries' \in Seq(AuditEntries), Extends(entries', entries),
           OnlyWarned(entries', entries), NEW ruleId, NEW at, WithinLimit(ruleId, at, entries)
    PROVE  WithinLimit(ruleId, at, entries')
<1> SUFFICES ASSUME NEW r \in DOMAIN Policy.rules, Policy.rules[r].id = ruleId,
                    Policy.rules[r].limit # None
             PROVE  Cardinality(CallsWithin(entries', Policy.rules[r], at))
                        < Policy.rules[r].limit.max
    BY DEF WithinLimit
<1>1. \A i \in DOMAIN entries' \ DOMAIN entries : entries'[i].tool \in Reserved
    BY DEF OnlyWarned, Reserved
<1>2. CallsWithin(entries', Policy.rules[r], at) = CallsWithin(entries, Policy.rules[r], at)
    BY <1>1, CallsKept DEF TypeOK
<1>3. QED
    BY <1>2 DEF WithinLimit

\* The entries before one stay when the log grows.
LEMMA BeforeKept ==
    ASSUME TypeOK, entries' \in Seq(AuditEntries), Extends(entries', entries),
           NEW i \in Nat, 1 <= i, i <= Len(entries) + 1
    PROVE  SubSeq(entries', 1, i - 1) = SubSeq(entries, 1, i - 1)
<1>1. Len(entries) \in Nat /\ entries \in Seq(AuditEntries) /\ Len(entries) <= Len(entries')
    BY DEF TypeOK, Extends
<1>2. \A j \in 1 .. i - 1 : entries'[j] = entries[j]
    BY <1>1 DEF Extends
<1>3. /\ SubSeq(entries', 1, i - 1) = [j \in 1 .. i - 1 |-> entries'[j]]
      /\ SubSeq(entries, 1, i - 1) = [j \in 1 .. i - 1 |-> entries[j]]
    BY <1>1
<1>4. QED
    BY <1>2, <1>3

\* An entry of the log keeps the count it was decided on.
LEMMA LimitKept ==
    ASSUME TypeOK, RateLimitHolds, entries' \in Seq(AuditEntries), Extends(entries', entries),
           NEW i \in DOMAIN entries, NEW r \in DOMAIN Policy.rules,
           IsCall(i), entries[i].effect = "allow", entries[i].rule = Policy.rules[r].id,
           Policy.rules[r].limit # None
    PROVE  Cardinality(CallsWithin(SubSeq(entries', 1, i - 1), Policy.rules[r], entries[i].at))
               < Policy.rules[r].limit.max
<1>1. SubSeq(entries', 1, i - 1) = SubSeq(entries, 1, i - 1)
  <2>1. i \in Nat /\ 1 <= i /\ i <= Len(entries) + 1
      BY DEF TypeOK
  <2>2. QED
      BY <2>1, BeforeKept
<1>2. QED
    BY <1>1 DEF RateLimitHolds, CallsBefore

\* A permission is recorded within the limit of the rule it is attributed to.
LEMMA PermitsWithinLimit ==
    ASSUME TypeOK, AskedWithinLimit, NEW c \in Calls, Decide(c) \/ ResolveAsk(c),
           NEW w \in Final, w.effect = "allow",
           entries' = Append(entries, Entry(call[c], w, usage))
    PROVE  WithinLimit(w.rule, call[c].at, entries)
<1>1. pc[c] # "idle" /\ entries' # entries /\ w.rule = entries'[Len(entries) + 1].rule
          /\ entries'[Len(entries) + 1].effect = "allow"
  <2>1. pc[c] # "idle"
      BY DecisionCases
  <2>2. /\ Len(entries') = Len(entries) + 1 /\ Len(entries) \in Nat
        /\ entries'[Len(entries) + 1] = Entry(call[c], w, usage)
      BY <2>1, RecordAppends DEF TypeOK
  <2>3. QED
      BY <2>1, <2>2 DEF Entry
<1>2. ASSUME NEW v, Record(c, v) \/ RecordThrows(c, v)
      PROVE  v.rule = w.rule /\ v.effect = "allow"
  <2>1. entries' = Append(entries, Entry(call[c], v, usage))
      BY <1>1, <1>2 DEF Record, RecordThrows
  <2>2. Append(entries, Entry(call[c], v, usage))[Len(entries) + 1] = Entry(call[c], v, usage)
      BY DEF TypeOK
  <2>3. QED
      BY <1>1, <2>1, <2>2 DEF Entry
<1>3. CASE Decide(c)
  <2> DEFINE v == Evaluate(call[c], Policy, usage, entries)
  <2>1. \/ v.effect = "ask" /\ UNCHANGED entries
        \/ Record(c, v) \/ RecordThrows(c, v)
      BY <1>3 DEF Decide
  <2> HIDE DEF v
  <2>2. v.rule = w.rule /\ v.effect = "allow"
      BY <1>1, <1>2, <2>1
  <2>3. QED
      BY <1>1, <2>2, NamesWithinLimit DEF v
<1>4. CASE ResolveAsk(c)
  <2>1. PICK effect : LET v == Verdict(effect, verdict[c].rule, "ask")
                      IN  Record(c, v) \/ RecordThrows(c, v)
      BY <1>4 DEF ResolveAsk
  <2> DEFINE v == Verdict(effect, verdict[c].rule, "ask")
  <2>2. v.rule = verdict[c].rule /\ (Record(c, v) \/ RecordThrows(c, v))
      BY <2>1 DEF Verdict
  <2> HIDE DEF v
  <2>3. w.rule = verdict[c].rule
      BY <1>2, <2>2
  <2>4. QED
      BY <1>4, <2>3 DEF AskedWithinLimit, ResolveAsk
<1>5. QED
    BY <1>3, <1>4

\* Every step keeps the limits.
LEMMA LimitStep ==
    ASSUME TypeOK, SectionExclusive, AskedWithinLimit, RateLimitHolds, [Next]_vars
    PROVE  AskedWithinLimit' /\ RateLimitHolds'
<1>0. entries \in Seq(AuditEntries) /\ entries' \in Seq(AuditEntries) /\ Extends(entries', entries)
    BY LogGrows DEF TypeOK
<1>1. AskedWithinLimit'
  <2> SUFFICES ASSUME NEW c \in Calls, pc'[c] = "asking"
               PROVE  WithinLimit(verdict'[c].rule, call'[c].at, entries')
      BY DEF AskedWithinLimit, WithinLimit
  <2>1. ASSUME pc[c] = "asking", verdict'[c] = verdict[c], call'[c] = call[c],
               OnlyWarned(entries', entries)
        PROVE  WithinLimit(verdict'[c].rule, call'[c].at, entries')
      BY <1>0, <2>1, WarningsAreFree DEF AskedWithinLimit
  <2>2. ASSUME NEW d \in Calls, Decide(d) \/ ResolveAsk(d)
        PROVE  WithinLimit(verdict'[c].rule, call'[c].at, entries')
    <3>1. d = c
        BY <2>2, DecisionMoves, DecidesInSection DEF SectionExclusive, InSection
    <3>2. CASE Decide(c)
      <4> DEFINE v == Evaluate(call[c], Policy, usage, entries)
      <4>1. /\ pc[c] = "queued" /\ UNCHANGED call
            /\ \/ /\ v.effect = "ask"
                  /\ verdict' = [verdict EXCEPT ![c] = v]
                  /\ UNCHANGED entries
               \/ Record(c, v) \/ RecordThrows(c, v)
          BY <3>2 DEF Decide
      <4> HIDE DEF v
      <4>2. v.effect = "ask" /\ verdict'[c] = v /\ UNCHANGED entries
          BY <4>1 DEF Record, RecordThrows, TypeOK
      <4>3. WithinLimit(v.rule, call[c].at, entries)
          BY <4>1, <4>2, NamesWithinLimit DEF v
      <4>4. QED
          BY <4>1, <4>2, <4>3
    <3>3. CASE ResolveAsk(c)
        BY <3>3 DEF ResolveAsk, Record, RecordThrows, TypeOK
    <3>4. QED
        BY <2>2, <3>1, <3>2, <3>3
  <2>3. ASSUME NEW d \in Calls, Guard(d)
        PROVE  pc[c] = "asking" /\ verdict'[c] = verdict[c] /\ call'[c] = call[c] /\ UNCHANGED entries
      BY <2>3 DEF Guard, TypeOK
  <2>4. ASSUME NEW d \in Calls, OnAskThrows(d)
        PROVE  pc[c] = "asking" /\ verdict'[c] = verdict[c] /\ call'[c] = call[c] /\ UNCHANGED entries
      BY <2>4 DEF OnAskThrows, TypeOK
  <2>5. ASSUME NEW d \in Calls, ToolThrows(d)
        PROVE  pc[c] = "asking" /\ verdict'[c] = verdict[c] /\ call'[c] = call[c] /\ UNCHANGED entries
      BY <2>5 DEF ToolThrows, ToolSettles, TypeOK
  <2>6. CASE Consumes
    <3>1. OnlyWarned(entries', entries) /\ UNCHANGED <<call, verdict>>
        BY <2>6, ConsumptionType
    <3>2. pc[c] = "asking"
        BY <2>6 DEF Consumes, Return, Meter, Spend, Metered, TypeOK
    <3>3. QED
        BY <2>1, <3>1, <3>2
  <2>7. UNCHANGED entries => OnlyWarned(entries', entries)
      BY DEF OnlyWarned
  <2>8. CASE Tick \/ UNCHANGED vars
      BY <2>1, <2>7, <2>8 DEF Tick, vars
  <2>9. QED
      BY <2>1, <2>2, <2>3, <2>4, <2>5, <2>6, <2>7, <2>8 DEF Next, Consumes
<1>2. RateLimitHolds'
  <2> SUFFICES ASSUME NEW i \in DOMAIN entries', NEW r \in DOMAIN Policy.rules,
                      IsCall(i)', entries'[i].effect = "allow",
                      entries'[i].rule = Policy.rules[r].id,
                      Policy.rules[r].limit # None
               PROVE  Cardinality(CallsWithin(SubSeq(entries', 1, i - 1), Policy.rules[r],
                                              entries'[i].at)) < Policy.rules[r].limit.max
      BY DEF RateLimitHolds, CallsBefore
  <2>1. CASE i \in DOMAIN entries /\ entries'[i] = entries[i] /\ IsCall(i)
      BY <1>0, <2>1, LimitKept
  <2>2. ASSUME NEW c \in Calls, NEW w \in Final, Decide(c) \/ ResolveAsk(c),
               i = Len(entries) + 1,
               entries' = Append(entries, Entry(call[c], w, usage)),
               entries'[i] = Entry(call[c], w, usage)
        PROVE  Cardinality(CallsWithin(SubSeq(entries', 1, i - 1), Policy.rules[r],
                                       entries'[i].at)) < Policy.rules[r].limit.max
    <3>1. w.effect = "allow" /\ w.rule = Policy.rules[r].id /\ entries'[i].at = call[c].at
        BY <2>2 DEF Entry
    <3>2. WithinLimit(w.rule, call[c].at, entries)
        BY <2>2, <3>1, PermitsWithinLimit
    <3>3. SubSeq(entries', 1, i - 1) = entries
      <4>1. /\ Len(entries) \in Nat /\ i - 1 = Len(entries)
            /\ \A j \in 1 .. i - 1 : entries'[j] = entries[j]
          BY <1>0, <2>2 DEF Extends
      <4>2. i - 1 <= Len(entries')
          BY <1>0, <4>1 DEF Extends
      <4>3. SubSeq(entries', 1, i - 1) = [j \in 1 .. i - 1 |-> entries'[j]]
          BY <1>0, <4>1, <4>2
      <4>4. entries = [j \in 1 .. i - 1 |-> entries[j]]
          BY <1>0, <4>1
      <4>5. QED
          BY <4>1, <4>3, <4>4
    <3>4. QED
        BY <3>1, <3>2, <3>3 DEF WithinLimit
  <2>3. QED
      BY <2>1, <2>2, CallEntries
<1>3. QED
    BY <1>1, <1>2

\* A rule's limit holds at every permission attributed to it, however many
\* guards wait and however long their approvals take.
THEOREM RateLimited == Spec => []RateLimitHolds
<1>1. Init => AskedWithinLimit /\ RateLimitHolds
    BY DEF Init, AskedWithinLimit, RateLimitHolds, IsCall, PlanEntry, Entry, Reserved
<1>2. TypeOK /\ SectionExclusive /\ AskedWithinLimit /\ RateLimitHolds /\ [Next]_vars
          => AskedWithinLimit' /\ RateLimitHolds'
    BY LimitStep
<1>3. QED
    BY Typed, <1>1, <1>2, PTL DEF Spec

\* No rule has the name that the log gives its own entries.
NoneNamedPlan == \A r \in DOMAIN Policy.rules : Policy.rules[r].id # "plan"

\* The plan and the warnings are in that name.
OwnEntriesNamed == \A i \in DOMAIN entries : ~IsCall(i) => entries[i].rule = "plan"

\* For a rule of another name the engine counts just the calls its limit bounds.
LEMMA CountedAreCalls ==
    ASSUME TypeOK, OwnEntriesNamed, NEW rule, rule.id # "plan", NEW at
    PROVE  CountRecent(entries, rule.id, at, rule.limit.perSeconds)
               = Cardinality(CallsWithin(entries, rule, at))
<1>1. \A i \in DOMAIN entries : entries[i].effect \in {"allow", "deny"}
  <2>1. \A i \in DOMAIN entries : entries[i] \in AuditEntries
      BY DEF TypeOK
  <2>2. QED
      BY <2>1 DEF AuditEntries
<1>2. \A i \in DOMAIN entries : entries[i].rule = rule.id => entries[i].tool \notin Reserved
    BY DEF OwnEntriesNamed, IsCall
<1>3. {i \in DOMAIN entries :
          /\ entries[i].effect # "deny"
          /\ entries[i].rule = rule.id
          /\ rule.limit.perSeconds = None \/ entries[i].at > at - rule.limit.perSeconds}
      = CallsWithin(entries, rule, at)
    BY <1>1, <1>2 DEF CallsWithin
<1>4. QED
    BY <1>3 DEF CountRecent

\* A verdict for a limit names a rule whose limit is used up.
LEMMA NamesSpentLimit ==
    ASSUME TypeOK, OwnEntriesNamed, NoneNamedPlan, NEW c \in Calls,
           NEW v, v = Evaluate(call[c], Policy, usage, entries), v.why = "limit",
           NEW r \in DOMAIN Policy.rules, v.rule = Policy.rules[r].id
    PROVE  Cardinality(CallsWithin(entries, Policy.rules[r], call[c].at))
               >= Policy.rules[r].limit.max
<1> DEFINE matched == Matched(Policy, call[c])
           spent == {i \in matched : LimitSpent(Policy.rules[i], call[c], entries)}
<1>1. spent # {} /\ v.rule = Policy.rules[FirstOf(spent)].id
  <2> HIDE DEF matched
  <2>1. QED
      BY DEF Evaluate, Verdict, matched
<1>2. spent \in SUBSET Nat /\ spent \subseteq DOMAIN Policy.rules
    BY ToolwritAssumption DEF Matched
<1>3. FirstOf(spent) \in spent
    BY <1>1, <1>2, FirstIsLeast
<1>4. FirstOf(spent) = r
    BY <1>1, <1>2, <1>3, RulesAsLoaded
<1>5. LimitSpent(Policy.rules[r], call[c], entries)
    BY <1>3, <1>4
<1>6. QED
    BY <1>5, CountedAreCalls DEF LimitSpent, NoneNamedPlan

\* A refusal for a limit is recorded as it was decided.
LEMMA LimitIsDecided ==
    ASSUME TypeOK, NEW c \in Calls, Decide(c) \/ ResolveAsk(c),
           NEW w \in Final, w.why = "limit",
           entries' = Append(entries, Entry(call[c], w, usage))
    PROVE  LET v == Evaluate(call[c], Policy, usage, entries)
           IN  v.why = "limit" /\ v.rule = w.rule
<1>1. entries' # entries /\ w.rule = entries'[Len(entries) + 1].rule
          /\ entries'[Len(entries) + 1].why = "limit"
  <2>1. pc[c] # "idle"
      BY DecisionCases
  <2>2. /\ Len(entries') = Len(entries) + 1 /\ Len(entries) \in Nat
        /\ entries'[Len(entries) + 1] = Entry(call[c], w, usage)
      BY <2>1, RecordAppends DEF TypeOK
  <2>3. QED
      BY <2>1, <2>2 DEF Entry
<1>2. ASSUME NEW v, Record(c, v) \/ RecordThrows(c, v)
      PROVE  v.rule = w.rule /\ v.why = "limit"
  <2>1. entries' = Append(entries, Entry(call[c], v, usage))
      BY <1>1, <1>2 DEF Record, RecordThrows
  <2>2. Append(entries, Entry(call[c], v, usage))[Len(entries) + 1] = Entry(call[c], v, usage)
      BY DEF TypeOK
  <2>3. QED
      BY <1>1, <2>1, <2>2 DEF Entry
<1>3. CASE Decide(c)
  <2> DEFINE v == Evaluate(call[c], Policy, usage, entries)
  <2>1. \/ UNCHANGED entries
        \/ Record(c, v) \/ RecordThrows(c, v)
      BY <1>3 DEF Decide
  <2> HIDE DEF v
  <2>2. v.rule = w.rule /\ v.why = "limit"
      BY <1>1, <1>2, <2>1
  <2>3. QED
      BY <2>2 DEF v
<1>4. CASE ResolveAsk(c)
  <2>1. PICK effect : LET v == Verdict(effect, verdict[c].rule, "ask")
                      IN  Record(c, v) \/ RecordThrows(c, v)
      BY <1>4 DEF ResolveAsk
  <2> DEFINE v == Verdict(effect, verdict[c].rule, "ask")
  <2>2. v.why = "ask" /\ (Record(c, v) \/ RecordThrows(c, v))
      BY <2>1 DEF Verdict
  <2> HIDE DEF v
  <2>3. QED
      BY <1>2, <2>2
<1>5. QED
    BY <1>3, <1>4

\* Every step keeps what refusals for a limit rest on.
LEMMA CountingStep ==
    ASSUME TypeOK, SectionExclusive, NoneNamedPlan, OwnEntriesNamed, LimitsCountCalls, [Next]_vars
    PROVE  OwnEntriesNamed' /\ LimitsCountCalls'
<1>0. /\ entries \in Seq(AuditEntries) /\ entries' \in Seq(AuditEntries)
      /\ Extends(entries', entries) /\ Len(entries) \in Nat
    BY LogGrows DEF TypeOK
<1>1. OwnEntriesNamed'
  <2> SUFFICES ASSUME NEW i \in DOMAIN entries', ~IsCall(i)'
               PROVE  entries'[i].rule = "plan"
      BY DEF OwnEntriesNamed
  <2>1. CASE i \in DOMAIN entries
    <3>1. entries'[i] = entries[i]
        BY <1>0, <2>1 DEF Extends
    <3>2. QED
        BY <2>1, <3>1 DEF OwnEntriesNamed, IsCall
  <2>2. CASE i \notin DOMAIN entries /\ OnlyWarned(entries', entries)
      BY <2>2 DEF OnlyWarned
  <2>3. ASSUME i \notin DOMAIN entries, NEW c \in Calls, NEW w \in Final, Decide(c) \/ ResolveAsk(c),
               entries' = Append(entries, Entry(call[c], w, usage))
        PROVE  FALSE
    <3>1. pc[c] # "idle"
        BY <2>3, DecisionCases
    <3>2. i = Len(entries) + 1 /\ entries'[i].tool = call[c].tool
        BY <1>0, <2>3 DEF Entry
    <3>3. call[c].tool \notin Reserved
        BY <3>1, ToolwritAssumption DEF TypeOK, ToolCalls
    <3>4. QED
        BY <3>2, <3>3 DEF IsCall
  <2>4. QED
      BY <2>1, <2>2, <2>3, LogGrows
<1>2. LimitsCountCalls'
  <2> SUFFICES ASSUME NEW i \in DOMAIN entries', NEW r \in DOMAIN Policy.rules, IsCall(i)',
                      entries'[i].why = "limit", entries'[i].rule = Policy.rules[r].id
               PROVE  Cardinality(CallsWithin(SubSeq(entries', 1, i - 1), Policy.rules[r],
                                              entries'[i].at)) >= Policy.rules[r].limit.max
      BY DEF LimitsCountCalls, CallsBefore
  <2>1. CASE i \in DOMAIN entries /\ entries'[i] = entries[i] /\ IsCall(i)
    <3>1. SubSeq(entries', 1, i - 1) = SubSeq(entries, 1, i - 1)
        BY <1>0, <2>1, BeforeKept
    <3>2. QED
        BY <2>1, <3>1 DEF LimitsCountCalls, CallsBefore
  <2>2. ASSUME NEW c \in Calls, NEW w \in Final, Decide(c) \/ ResolveAsk(c),
               i = Len(entries) + 1,
               entries' = Append(entries, Entry(call[c], w, usage)),
               entries'[i] = Entry(call[c], w, usage)
        PROVE  Cardinality(CallsWithin(SubSeq(entries', 1, i - 1), Policy.rules[r],
                                       entries'[i].at)) >= Policy.rules[r].limit.max
    <3>1. w.why = "limit" /\ w.rule = Policy.rules[r].id /\ entries'[i].at = call[c].at
        BY <2>2 DEF Entry
    <3>2. SubSeq(entries', 1, i - 1) = entries
      <4>1. SubSeq(entries', 1, i - 1) = SubSeq(entries, 1, i - 1)
          BY <1>0, <2>2, BeforeKept
      <4>2. SubSeq(entries, 1, i - 1) = entries
          BY <1>0, <2>2
      <4>3. QED
          BY <4>1, <4>2
    <3> DEFINE v == Evaluate(call[c], Policy, usage, entries)
    <3>3. v.why = "limit" /\ v.rule = w.rule
        BY <2>2, <3>1, LimitIsDecided
    <3> HIDE DEF v
    <3>4. Cardinality(CallsWithin(entries, Policy.rules[r], call[c].at)) >= Policy.rules[r].limit.max
        BY <3>1, <3>3, NamesSpentLimit DEF v
    <3>5. QED
        BY <3>1, <3>2, <3>4
  <2>3. QED
      BY <2>1, <2>2, CallEntries
<1>3. QED
    BY <1>1, <1>2

\* A limit refuses only when as many calls as it admits were permitted in its
\* rule's name and are in its window, unless the rule is called plan.
THEOREM LimitsAreNotShort ==
    ASSUME NoneNamedPlan
    PROVE  Spec => []LimitsCountCalls
<1>1. Init => OwnEntriesNamed /\ LimitsCountCalls
    BY DEF Init, OwnEntriesNamed, LimitsCountCalls, IsCall, PlanEntry, Entry, Verdict, Reserved
<1>2. TypeOK /\ SectionExclusive /\ OwnEntriesNamed /\ LimitsCountCalls /\ [Next]_vars
          => OwnEntriesNamed' /\ LimitsCountCalls'
    BY CountingStep
<1>3. QED
    BY Typed, <1>1, <1>2, PTL DEF Spec

-----------------------------------------------------------------------------
(*                        Reporting the envelope                           *)

\* A threshold is a percentage of a ceiling.
LEMMA KeysOfPolicy ==
    /\ \A dim \in DOMAIN Policy.budget : dim \in Dimensions /\ Policy.budget[dim] \in Nat
    /\ \A at \in Policy.warnAt : at \in Nat
<1>1. /\ DOMAIN Policy.budget \subseteq Dimensions
      /\ \A dim \in DOMAIN Policy.budget : Policy.budget[dim] \in Nat \ {0}
      /\ Policy.warnAt \subseteq 1 .. 100
    BY ToolwritAssumption
<1>2. 1 .. 100 \subseteq Nat
    OBVIOUS
<1>3. QED
    BY <1>1, <1>2

\* Thresholds that are reported in order are reported once.
LEMMA OrderedIsDistinct ==
    ASSUME NEW S \in SUBSET WarningKeys, NEW ws \in InOrder(S)
    PROVE  \A i, j \in 1 .. Cardinality(S) : ws[i] = ws[j] => i = j
<1>1. Cardinality(S) \in Nat
    BY WarningKeysFinite, FS_Subset, FS_CardinalityType
<1>2. ws \in [1 .. Cardinality(S) -> S]
    BY DEF InOrder
<1>3. ASSUME NEW k \in WarningKeys
      PROVE  ~Precedes(k, k)
  <2>1. PICK dim \in DOMAIN Policy.budget, at \in Policy.warnAt : k = <<dim, at>>
      BY DEF WarningKeys
  <2>2. dim \in Dimensions /\ at \in Nat
      BY KeysOfPolicy
  <2>3. DimensionRank(dim) \in Nat
      BY <2>2 DEF Dimensions, DimensionRank
  <2>4. k[1] = dim /\ k[2] = at
      BY <2>1
  <2>5. QED
      BY <2>2, <2>3, <2>4 DEF Precedes
<1>4. \A i, j \in 1 .. Cardinality(S) : i < j => Precedes(ws[i], ws[j])
    BY DEF InOrder
<1>5. ASSUME NEW i \in 1 .. Cardinality(S), NEW j \in 1 .. Cardinality(S), ws[i] = ws[j]
      PROVE  ~(i < j) /\ ~(j < i)
  <2>1. ws[i] \in WarningKeys
      BY <1>2
  <2>2. QED
      BY <1>3, <1>4, <1>5, <2>1
<1>6. QED
    BY <1>1, <1>5

\* reportProgress() that does not throw reports all that is due: a list in
\* strict order names each threshold once, so one as long as the set names all.
LEMMA ReportsAll ==
    ASSUME TypeOK, NEW u, ReportProgress(u)
    PROVE  warned' = warned \cup Due(u) /\ UNCHANGED <<lost, faults>>
<1> DEFINE n == Cardinality(Due(u))
<1>1. IsFiniteSet(Due(u)) /\ Due(u) \subseteq WarningKeys
    BY WarningKeysFinite, FS_Subset DEF Due
<1>2. n \in Nat
    BY <1>1, FS_CardinalityType
<1>3. PICK ws \in InOrder(Due(u)) : RecordWarnings(ws, u) /\ UNCHANGED <<lost, faults>>
    BY DEF ReportProgress
<1>4. ws \in [1 .. n -> Due(u)]
    BY DEF InOrder
<1>5. \A i, j \in 1 .. n : ws[i] = ws[j] => i = j
    BY <1>1, OrderedIsDistinct
<1> HIDE DEF n
<1>6. ws \in Injection(1 .. n, Due(u))
    BY <1>4, <1>5, Zenon DEF Injection, IsInjective
<1>7. Cardinality(1 .. n) = n
  <2>1. 1 \in Int /\ n \in Int
      BY <1>2
  <2>2. Cardinality(1 .. n) = IF 1 > n THEN 0 ELSE n - 1 + 1
      BY <2>1, FS_Interval, Zenon
  <2>3. QED
      BY <1>2, <2>2
<1>8. ws \in Surjection(1 .. n, Due(u))
    BY <1>1, <1>6, <1>7, FS_Injection DEF n
<1>9. {ws[i] : i \in DOMAIN ws} = Due(u)
    BY <1>4, <1>8 DEF Surjection
<1>10. QED
    BY <1>3, <1>9 DEF RecordWarnings

\* After a report that did not throw, nothing that is crossed is unreported.
LEMMA NothingUnreported ==
    ASSUME TypeOK, UNCHANGED clock, ReportProgress(usage'), NEW dims
    PROVE  Unreported(dims)' = {}
<1>1. warned' = warned \cup Due(usage')
    BY ReportsAll
<1>2. \A k : Crossed(usage, k)' <=> Crossed(usage', k)
    BY DEF Crossed, Consumed, Elapsed
<1>3. QED
    BY <1>1, <1>2 DEF Unreported, Due

\* Counting a call consumes nothing else.
LEMMA CountsOnlyCalls ==
    ASSUME NEW u \in Ledgers, NEW at \in Nat
    PROVE  LET counted == CountCall(u, at)
           IN  counted.tokens = u.tokens /\ counted.usd = u.usd /\ counted.bytes = u.bytes
<1> DEFINE s == Started(u, at)
<1>1. s \in Ledgers /\ s.tokens = u.tokens /\ s.usd = u.usd /\ s.bytes = u.bytes
    BY DEF Ledgers, Started
<1>2. CountCall(u, at) = [s EXCEPT !.calls = s.calls + 1]
    BY DEF CountCall
<1> HIDE DEF s
<1>3. QED
    BY <1>1, <1>2 DEF Ledgers

\* What is unreported depends on the consumption of these dimensions alone.
LEMMA UnreportedKept ==
    ASSUME NEW dims \in SUBSET {"calls", "tokens", "usd", "bytes"}, UNCHANGED warned,
           \A dim \in dims : usage'[dim] = usage[dim]
    PROVE  Unreported(dims)' = Unreported(dims)
<1>1. ASSUME NEW dim \in dims
      PROVE  Consumed(usage, dim, clock)' = Consumed(usage, dim, clock)
  <2>1. dim \in {"calls", "tokens", "usd", "bytes"} /\ usage'[dim] = usage[dim]
      OBVIOUS
  <2>2. QED
      BY <2>1 DEF Consumed
<1>2. \A k : k[1] \in dims => (Crossed(usage, k)' <=> Crossed(usage, k))
    BY <1>1 DEF Crossed
<1>3. QED
    BY <1>2 DEF Unreported, WarningKeys

Reliable == faults = 0 /\ ~OnWarnThrows

Metering == {"tokens", "usd", "bytes"}

\* A permitted call that is running, or has failed since.
Outstanding(c) == Permitted(c) /\ pc[c] \in {"running", "failed"}

\* A permission is not taken back.
LEMMA PermittedStays ==
    ASSUME TypeOK, SectionExclusive, EntriesKnown, [Next]_vars, NEW c \in Calls, Permitted(c),
           entryOf'[c] = entryOf[c]
    PROVE  Permitted(c)'
<1>1. entryOf[c] \in 1 .. Len(entries)
    BY DEF TypeOK, EntriesKnown, Permitted
<1>2. entries'[entryOf[c]] = entries[entryOf[c]]
    BY <1>1, LogGrows DEF Extends
<1>3. QED
    BY <1>2 DEF Permitted

\* Every step keeps what is crossed reported.
LEMMA ReportStep ==
    ASSUME TypeOK, SectionExclusive, EntriesKnown, CrossedIsReported, [Next]_vars
    PROVE  CrossedIsReported'
<1> SUFFICES ASSUME Reliable'
             PROVE  /\ Unreported(Metering)' = {}
                    /\ Unreported({"calls"})' # {} => \E c \in Calls : Outstanding(c)'
    BY DEF CrossedIsReported, Reliable, Metering, Outstanding
<1>0. usage \in Ledgers /\ faults \in Nat /\ ~OnWarnThrows /\ faults' = 0
    BY DEF TypeOK, Ledgers, Reliable
<1>1. ASSUME faults = 0
      PROVE  /\ Unreported(Metering) = {}
             /\ Unreported({"calls"}) # {} => \E c \in Calls : Outstanding(c)
    BY <1>0, <1>1 DEF CrossedIsReported, Metering, Outstanding
<1>2. ASSUME UNCHANGED <<usage, warned, faults>>,
             \A c \in Calls : Outstanding(c) => Outstanding(c)'
      PROVE  /\ Unreported(Metering)' = {}
             /\ Unreported({"calls"})' # {} => \E c \in Calls : Outstanding(c)'
  <2>1. Unreported(Metering)' = Unreported(Metering)
      BY <1>2, UnreportedKept DEF Metering
  <2>2. Unreported({"calls"})' = Unreported({"calls"})
      BY <1>2, UnreportedKept
  <2>3. QED
      BY <1>0, <1>1, <1>2, <2>1, <2>2
<1>3. ASSUME NEW c \in Calls, UNCHANGED entryOf,
             \/ pc' = [pc EXCEPT ![c] = "failed"]
             \/ pc[c] = "idle" /\ pc' = [pc EXCEPT ![c] = "queued"]
      PROVE  \A d \in Calls : Outstanding(d) => Outstanding(d)'
    BY <1>3, PermittedStays DEF Outstanding, TypeOK
<1>4. ASSUME NEW c \in Calls, Guard(c) \/ OnAskThrows(c) \/ ToolThrows(c)
      PROVE  /\ Unreported(Metering)' = {}
             /\ Unreported({"calls"})' # {} => \E d \in Calls : Outstanding(d)'
  <2>1. /\ UNCHANGED <<usage, warned, faults, entryOf>>
        /\ \/ pc' = [pc EXCEPT ![c] = "failed"]
           \/ pc[c] = "idle" /\ pc' = [pc EXCEPT ![c] = "queued"]
      BY <1>4 DEF Guard, OnAskThrows, ToolThrows, ToolSettles
  <2>2. CASE pc' = [pc EXCEPT ![c] = "failed"]
    <3>1. \A d \in Calls : Outstanding(d) => Outstanding(d)'
        BY <2>1, <2>2, <1>3
    <3>2. QED
        BY <1>2, <2>1, <3>1
  <2>3. CASE pc[c] = "idle" /\ pc' = [pc EXCEPT ![c] = "queued"]
    <3>1. \A d \in Calls : Outstanding(d) => Outstanding(d)'
        BY <2>1, <2>3, <1>3
    <3>2. QED
        BY <1>2, <2>1, <3>1
  <2>4. QED
      BY <2>1, <2>2, <2>3
<1>5. ASSUME NEW c \in Calls, Decide(c) \/ ResolveAsk(c)
      PROVE  /\ Unreported(Metering)' = {}
             /\ Unreported({"calls"})' # {} => \E d \in Calls : Outstanding(d)'
  <2>1. /\ pc[c] \in {"queued", "asking"} /\ UNCHANGED warned
        /\ \A d \in Calls \ {c} : pc'[d] = pc[d]
      BY <1>5, DecisionCases, DecisionMoves
  <2>2. \A d \in Calls : Outstanding(d) => d # c
      BY <2>1 DEF Outstanding
  <2>3. CASE UNCHANGED <<usage, entryOf, faults>>
    <3>1. \A d \in Calls : Outstanding(d) => Outstanding(d)'
        BY <2>1, <2>2, <2>3, PermittedStays DEF Outstanding
    <3>2. QED
        BY <1>2, <2>1, <2>3, <3>1
  <2>4. ASSUME NEW v \in Final, RecordThrows(c, v)
        PROVE  FALSE
      BY <1>0, <2>4 DEF RecordThrows
  <2>5. ASSUME NEW v \in Final, Record(c, v)
        PROVE  /\ Unreported(Metering)' = {}
               /\ Unreported({"calls"})' # {} => \E d \in Calls : Outstanding(d)'
    <3>1. /\ entryOf' = [entryOf EXCEPT ![c] = Len(entries) + 1]
          /\ entries' = Append(entries, Entry(call[c], v, usage))
          /\ UNCHANGED faults
        BY <2>5 DEF Record
    <3>2. CASE v.effect # "allow"
      <4>1. UNCHANGED usage
          BY <2>5, <3>2 DEF Record
      <4>2. \A d \in Calls \ {c} : entryOf'[d] = entryOf[d]
          BY <3>1 DEF TypeOK
      <4>3. \A d \in Calls : Outstanding(d) => Outstanding(d)'
          BY <2>1, <2>2, <4>2, PermittedStays DEF Outstanding
      <4>4. QED
          BY <1>2, <2>1, <3>1, <4>1, <4>3
    <3>3. CASE v.effect = "allow"
      <4>1. usage' = CountCall(usage, call[c].at) /\ pc' = [pc EXCEPT ![c] = "running"]
          BY <2>5, <3>3 DEF Record
      <4>2. call[c].at \in Nat /\ pc[c] # "idle"
          BY <2>1 DEF TypeOK, ToolCalls
      <4>3. usage'.tokens = usage.tokens /\ usage'.usd = usage.usd /\ usage'.bytes = usage.bytes
          BY <1>0, <4>1, <4>2, CountsOnlyCalls
      <4>4. Unreported(Metering)' = Unreported(Metering)
          BY <2>1, <4>3, UnreportedKept DEF Metering
      <4>5. Outstanding(c)'
        <5>1. entries'[Len(entries) + 1] = Entry(call[c], v, usage)
            BY <3>1, <4>2, RecordAppends
        <5>2. entryOf'[c] = Len(entries) + 1 /\ entryOf'[c] # 0 /\ pc'[c] = "running"
            BY <3>1, <4>1 DEF TypeOK
        <5>3. QED
            BY <3>3, <5>1, <5>2 DEF Outstanding, Permitted, Entry
      <4>6. QED
          BY <1>0, <1>1, <3>1, <4>4, <4>5
    <3>4. QED
        BY <3>2, <3>3
  <2>6. QED
      BY <1>5, <2>3, <2>4, <2>5, DecisionCases
<1>6. CASE Consumes
  <2>1. ReportProgress(usage') \/ ReportProgressThrows(usage')
      BY <1>6, ConsumptionType
  <2>2. ~ReportProgressThrows(usage')
    <3>1. ReportProgressThrows(usage') => OnWarnThrows \/ faults' = faults + 1
        BY Zenon DEF ReportProgressThrows
    <3>2. faults' # faults + 1
        BY <1>0
    <3>3. QED
        BY <1>0, <3>1, <3>2
  <2>3. UNCHANGED clock
      BY <1>6, ConsumptionType
  <2>4. ReportProgress(usage')
      BY <2>1, <2>2
  <2>5. Unreported(Metering)' = {}
      BY <2>3, <2>4, NothingUnreported, Zenon
  <2>6. Unreported({"calls"})' = {}
      BY <2>3, <2>4, NothingUnreported, Zenon
  <2>7. QED
      BY <2>5, <2>6
<1>7. CASE Tick \/ UNCHANGED vars
  <2>1. UNCHANGED <<usage, warned, faults, entryOf, pc, entries>>
      BY <1>7 DEF Tick, vars
  <2>2. QED
      BY <1>2, <2>1 DEF Outstanding, Permitted
<1>8. QED
    BY <1>4, <1>5, <1>6, <1>7 DEF Next, Consumes

\* A threshold of the approved envelope that is crossed is reported at once, or
\* when the call that crossed it returns: unless recording failed, only a call
\* that is still running, or has failed, can leave one unreported.
THEOREM CrossingsReported == Spec => []CrossedIsReported
<1>1. Init => CrossedIsReported
  <2> SUFFICES ASSUME Init
               PROVE  \A dims \in SUBSET {"calls", "tokens", "usd", "bytes"} : Unreported(dims) = {}
      BY DEF CrossedIsReported
  <2>1. ASSUME NEW dim \in {"calls", "tokens", "usd", "bytes"}
        PROVE  Consumed(usage, dim, clock) = 0
      BY DEF Init, Unused, Consumed
  <2>2. ASSUME NEW k \in WarningKeys, k[1] \in {"calls", "tokens", "usd", "bytes"}
        PROVE  ~Crossed(usage, k)
    <3>1. k[1] \in Limited /\ k[2] \in 1 .. 100
        BY ToolwritAssumption DEF WarningKeys, Limited
    <3>2. Policy.budget[k[1]] \in Nat /\ Policy.budget[k[1]] > 0
        BY <3>1, Limits
    <3>3. k[2] * Policy.budget[k[1]] > 0
        BY <3>1, <3>2
    <3>4. Consumed(usage, k[1], clock) = 0
        BY <2>1, <2>2
    <3>5. ~(100 * Consumed(usage, k[1], clock) >= k[2] * Policy.budget[k[1]])
        BY <3>1, <3>2, <3>3, <3>4
    <3>6. QED
        BY <3>5 DEF Crossed
  <2>3. QED
      BY <2>2 DEF Unreported
<1>2. Inv /\ CrossedIsReported /\ [Next]_vars => CrossedIsReported'
    BY ReportStep DEF Inv, EvidenceInv
<1>3. QED
    BY Invariant, <1>1, <1>2, PTL DEF Spec

-----------------------------------------------------------------------------
(*                     What a receipt says of the run                      *)

\* No rule has the id that a refusal for the budget blames.
NoneNamedBudget == \A r \in DOMAIN Policy.rules : Policy.rules[r].id # "budget"

\* Both count the same way.
LEMMA CountsAlike == \A S : Receipts!Cardinality(S) = Cardinality(S)
BY Zenon DEF Receipts!Cardinality, Cardinality

\* What the receipt says, without the payloads.
LEMMA TallySays ==
    ASSUME TypeOK
    PROVE  /\ RunTally.allowed = Cardinality(CallsWith("allow"))
           /\ RunTally.asked = Cardinality(CallsWith("ask"))
           /\ RunTally.exceeded <=> \E i \in CallsWith("deny") : "budget" \in Blamed(entries[i])
           /\ \A dim \in Metering :
                  RunTally.usage[dim] = IF entries = <<>> THEN 0
                                        ELSE entries[Len(entries)].usage[dim]
<1> DEFINE payloads == [i \in DOMAIN entries |-> Payload(entries[i])]
           tally == Receipts!Tally(payloads)
           last == IF payloads = <<>> THEN Receipts!Nothing
                   ELSE payloads[Len(payloads)].usage
<1>1. /\ DOMAIN payloads = DOMAIN entries
      /\ \A i \in DOMAIN entries :
             /\ payloads[i].tool = entries[i].tool /\ payloads[i].effect = entries[i].effect
             /\ payloads[i].usage = entries[i].usage
             /\ entries[i].effect = "deny" => payloads[i].violations = Blamed(entries[i])
    BY DEF Payload
<1>2. \A effect : {i \in Receipts!AgentCalls(payloads) : payloads[i].effect = effect}
                      = CallsWith(effect)
    BY <1>1 DEF Receipts!AgentCalls, Receipts!PlanTool, Receipts!WarningTool, CallsWith, IsCall,
                Reserved, PlanTool, WarningTool
<1>3. RunTally = tally
    BY DEF RunTally
<1>4. Len(payloads) = Len(entries) /\ (payloads = <<>> <=> entries = <<>>)
  <2>1. payloads \in Seq({Payload(entries[i]) : i \in DOMAIN entries})
            /\ entries \in Seq(AuditEntries)
      BY DEF TypeOK
  <2>2. DOMAIN payloads = 1 .. Len(payloads) /\ DOMAIN entries = 1 .. Len(entries)
            /\ Len(payloads) \in Nat /\ Len(entries) \in Nat
      BY <2>1
  <2>3. Len(payloads) = Len(entries)
      BY <1>1, <2>2
  <2>4. QED
      BY <2>1, <2>3
<1>5. /\ tally.allowed = Cardinality({i \in Receipts!AgentCalls(payloads) : payloads[i].effect = "allow"})
      /\ tally.asked = Cardinality({i \in Receipts!AgentCalls(payloads) : payloads[i].effect = "ask"})
      /\ tally.exceeded <=> \E i \in Receipts!AgentCalls(payloads) :
             payloads[i].effect = "deny" /\ "budget" \in payloads[i].violations
  <2> HIDE DEF payloads
  <2>1. /\ tally.allowed = Receipts!Cardinality({i \in Receipts!AgentCalls(payloads) : payloads[i].effect = "allow"})
        /\ tally.asked = Receipts!Cardinality({i \in Receipts!AgentCalls(payloads) : payloads[i].effect = "ask"})
      BY Zenon DEF Receipts!Tally
  <2>2. tally.exceeded = \E i \in {j \in Receipts!AgentCalls(payloads) : payloads[j].effect = "deny"} :
                             "budget" \in payloads[i].violations
      BY Zenon DEF Receipts!Tally
  <2> HIDE DEF tally
  <2>3. QED
      BY <2>1, <2>2, CountsAlike
<1>6. \A dim \in Metering : tally.usage[dim] = last[dim]
  <2> DEFINE calls == Receipts!Cardinality({i \in Receipts!AgentCalls(payloads) : payloads[i].effect = "allow"})
  <2>1. last \in [calls : Nat, tokens : Nat, usd : Nat, bytes : Nat]
    <3>1. payloads # <<>> => payloads[Len(payloads)] = Payload(entries[Len(entries)])
                              /\ entries[Len(entries)] \in AuditEntries
        BY <1>4 DEF TypeOK
    <3>2. QED
        BY <3>1 DEF Receipts!Nothing, Payload, AuditEntries
  <2>2. tally.usage = [last EXCEPT !.calls = calls]
    <3> HIDE DEF payloads
    <3>1. Receipts!Last(payloads) = payloads[Len(payloads)]
        BY DEF Receipts!Last
    <3>2. QED
        BY <3>1, Zenon DEF Receipts!Tally
  <2> HIDE DEF last, calls, tally
  <2>3. QED
      BY <2>1, <2>2 DEF Metering
<1> HIDE DEF payloads
<1> HIDE DEF tally
<1>7. \A dim \in Metering : last[dim] = IF entries = <<>> THEN 0
                                        ELSE entries[Len(entries)].usage[dim]
  <2>1. entries # <<>> => Len(entries) \in DOMAIN entries
      BY DEF TypeOK
  <2>2. QED
      BY <1>1, <1>4, <2>1 DEF Receipts!Nothing, Metering
<1>8. RunTally.exceeded <=> \E i \in CallsWith("deny") : "budget" \in Blamed(entries[i])
  <2>1. \A i \in CallsWith("deny") : payloads[i].violations = Blamed(entries[i])
      BY <1>1 DEF CallsWith
  <2>2. QED
      BY <1>2, <1>3, <1>5, <2>1
<1>9. QED
    BY <1>2, <1>3, <1>5, <1>6, <1>7, <1>8

\* Only a call refused for the budget blames it.
LEMMA BudgetIsBlamed ==
    ASSUME TypeOK, NoneNamedBudget, NEW i \in CallsWith("deny")
    PROVE  "budget" \in Blamed(entries[i]) <=> entries[i].why = "budget"
<1>1. entries[i] \in AuditEntries
    BY DEF TypeOK, CallsWith
<1>2. entries[i].rule \in RuleNames
    BY <1>1 DEF AuditEntries
<1>3. entries[i].rule = None \/ entries[i].rule # "budget"
    BY <1>2 DEF RuleNames, NoneNamedBudget
<1>4. "budget" \notin {Policy.rules[r].id : r \in NearMisses(Policy, entries[i])}
    BY DEF NearMisses, NoneNamedBudget
<1>5. QED
    BY <1>3, <1>4 DEF Blamed

-----------------------------------------------------------------------------
\* The permissions of the log are the calls that were counted, and those whose
\* append failed.
CountInv ==
    Cardinality(CallsWith("allow")) = usage.calls + Cardinality(CallsWith("allow") \cap lost)

\* An entry does not say more than the ledger does.
LagInv == \A i \in DOMAIN entries : \A dim \in Metering : entries[i].usage[dim] <= usage[dim]

RefusedInv == OverBudget # {} => Exhausted

\* The warnings of the log are the thresholds reported, each once.
Reported == {i \in DOMAIN entries : entries[i].tool = WarningTool}

WarnInv ==
    /\ {entries[i].arg : i \in Reported} = warned
    /\ \A i, j \in Reported : entries[i].arg = entries[j].arg => i = j

ReceiptInv == CountInv /\ LagInv /\ RefusedInv /\ WarnInv

\* What the receipt says of them.
LEMMA TallyWarns ==
    ASSUME TypeOK, WarnInv
    PROVE  /\ DOMAIN RunTally.warnings = Reported
           /\ \A i \in Reported :
                  /\ RunTally.warnings[i].dimension = entries[i].arg[1]
                  /\ RunTally.warnings[i].threshold = entries[i].arg[2]
<1> DEFINE payloads == [i \in DOMAIN entries |-> Payload(entries[i])]
           readable(q) == /\ q.tool = Receipts!WarningTool
                          /\ \A field \in DOMAIN q.arg : q.arg[field] # None
<1>1. RunTally.warnings = [i \in {k \in DOMAIN payloads : readable(payloads[k])} |-> payloads[i].arg]
  <2>1. RunTally = Receipts!Tally(payloads)
      BY DEF RunTally
  <2> HIDE DEF payloads
  <2>2. Receipts!Tally(payloads).warnings = Receipts!ReadWarnings(payloads)
      BY Zenon DEF Receipts!Tally
  <2>3. QED
      BY <2>1, <2>2 DEF Receipts!ReadWarnings
<1>2. /\ DOMAIN payloads = DOMAIN entries
      /\ \A i \in DOMAIN entries : payloads[i].tool = entries[i].tool
      /\ \A i \in DOMAIN entries : payloads[i].arg = Said(entries[i])
    BY DEF Payload
<1>3. ASSUME NEW i \in Reported
      PROVE  /\ Said(entries[i]) = [dimension |-> entries[i].arg[1],
                                     threshold |-> entries[i].arg[2],
                                     limit |-> Policy.budget[entries[i].arg[1]]]
             /\ \A field \in DOMAIN Said(entries[i]) : Said(entries[i])[field] # None
  <2>1. Said(entries[i]) = [dimension |-> entries[i].arg[1], threshold |-> entries[i].arg[2],
                            limit |-> Policy.budget[entries[i].arg[1]]]
      BY DEF Said, Reported, PlanTool, WarningTool
  <2>2. entries[i].arg \in WarningKeys
      BY DEF WarnInv, TypeOK
  <2>3. PICK dim \in DOMAIN Policy.budget, at \in Policy.warnAt : entries[i].arg = <<dim, at>>
      BY <2>2 DEF WarningKeys
  <2>4. dim \in Dimensions /\ at \in Int /\ Policy.budget[dim] \in Int
      BY KeysOfPolicy
  <2>5. dim # None /\ at # None /\ Policy.budget[dim] # None
      BY <2>4, ToolwritAssumption, NoneIsNoDimension
  <2>6. Said(entries[i]) = [dimension |-> dim, threshold |-> at, limit |-> Policy.budget[dim]]
      BY <2>1, <2>3
  <2>7. QED
      BY <2>1, <2>5, <2>6
<1>4. {k \in DOMAIN payloads : readable(payloads[k])} = Reported
  <2>1. \A k \in DOMAIN payloads : payloads[k].tool = Receipts!WarningTool <=> k \in Reported
      BY <1>2 DEF Reported, WarningTool, Receipts!WarningTool
  <2>2. \A k \in Reported : k \in DOMAIN payloads /\ payloads[k].arg = Said(entries[k])
      BY <1>2 DEF Reported
  <2> HIDE DEF payloads
  <2>3. \A k \in Reported : readable(payloads[k])
      BY <1>3, <2>1, <2>2
  <2>4. QED
      BY <2>1, <2>2, <2>3
<1> HIDE DEF payloads, readable
<1>5. RunTally.warnings = [i \in Reported |-> payloads[i].arg]
    BY <1>1, <1>4
<1>6. \A i \in Reported : payloads[i].arg = Said(entries[i])
    BY <1>2 DEF Reported
<1>7. DOMAIN RunTally.warnings = Reported
    BY <1>5
<1>8. \A i \in Reported : RunTally.warnings[i] = Said(entries[i])
    BY <1>5, <1>6
<1>9. ASSUME NEW i \in Reported
      PROVE  /\ Said(entries[i]).dimension = entries[i].arg[1]
             /\ Said(entries[i]).threshold = entries[i].arg[2]
  <2>1. PICK said : said = [dimension |-> entries[i].arg[1], threshold |-> entries[i].arg[2],
                            limit |-> Policy.budget[entries[i].arg[1]]]
      OBVIOUS
  <2>2. Said(entries[i]) = said
      BY <1>3, <2>1, Zenon
  <2>3. said.dimension = entries[i].arg[1] /\ said.threshold = entries[i].arg[2]
      BY <2>1
  <2>4. QED
      BY <2>2, <2>3, Zenon
<1>10. QED
    BY <1>7, <1>8, <1>9

\* The entries of a log are finitely many.
LEMMA CallsFinite ==
    ASSUME TypeOK, NEW effect
    PROVE  /\ IsFiniteSet(CallsWith(effect)) /\ IsFiniteSet(CallsWith(effect) \cap lost)
           /\ Cardinality(CallsWith(effect)) \in Nat
           /\ Cardinality(CallsWith(effect) \cap lost) \in Nat
<1>1. 1 \in Int /\ Len(entries) \in Int /\ DOMAIN entries = 1 .. Len(entries)
    BY DEF TypeOK
<1>2. IsFiniteSet(DOMAIN entries)
    BY <1>1, FS_Interval, Zenon
<1>3. /\ CallsWith(effect) \subseteq DOMAIN entries
      /\ CallsWith(effect) \cap lost \subseteq DOMAIN entries
    BY DEF CallsWith
<1>4. IsFiniteSet(CallsWith(effect)) /\ IsFiniteSet(CallsWith(effect) \cap lost)
    BY <1>2, <1>3, FS_Subset
<1>5. QED
    BY <1>4, FS_CardinalityType

\* reportProgress(), whether it throws or not, appends warnings of thresholds
\* that were not reported, each once; a failed append loses the last of them.
LEMMA ReportShape ==
    ASSUME TypeOK, NEW u \in Ledgers, ReportProgress(u) \/ ReportProgressThrows(u)
    PROVE  \E n \in Nat : \E ws \in [1 .. n -> WarningKeys] :
               /\ entries' = entries \o [i \in DOMAIN ws |-> Warning(ws[i], u)]
               /\ warned' = warned \cup {ws[i] : i \in DOMAIN ws}
               /\ lost' = lost \/ (n > 0 /\ lost' = lost \cup {Len(entries) + n})
               /\ \A i \in 1 .. n : ws[i] \notin warned
               /\ \A i, j \in 1 .. n : ws[i] = ws[j] => i = j
<1>1. Due(u) \subseteq WarningKeys /\ IsFiniteSet(Due(u)) /\ Due(u) \cap warned = {}
    BY WarningKeysFinite, FS_Subset DEF Due
<1>2. PICK m \in Nat : m = Cardinality(Due(u))
    BY <1>1, FS_CardinalityType
<1>3. ASSUME NEW ws \in InOrder(Due(u))
      PROVE  /\ ws \in [1 .. m -> WarningKeys]
             /\ \A i \in 1 .. m : ws[i] \notin warned
             /\ \A i, j \in 1 .. m : ws[i] = ws[j] => i = j
  <2>1. ws \in [1 .. m -> Due(u)]
      BY <1>2 DEF InOrder
  <2>2. \A i, j \in 1 .. m : ws[i] = ws[j] => i = j
      BY <1>1, <1>2, OrderedIsDistinct
  <2>3. QED
      BY <1>1, <2>1, <2>2
<1>4. CASE ReportProgress(u)
  <2>1. PICK ws \in InOrder(Due(u)) : RecordWarnings(ws, u) /\ UNCHANGED <<lost, faults>>
      BY <1>4 DEF ReportProgress
  <2>2. /\ ws \in [1 .. m -> WarningKeys]
        /\ \A i \in 1 .. m : ws[i] \notin warned
        /\ \A i, j \in 1 .. m : ws[i] = ws[j] => i = j
      BY <1>3
  <2>3. /\ entries' = entries \o [i \in DOMAIN ws |-> Warning(ws[i], u)]
        /\ warned' = warned \cup {ws[i] : i \in DOMAIN ws}
        /\ lost' = lost
      BY <2>1 DEF RecordWarnings
  <2>4. QED
      BY <1>2, <2>2, <2>3
<1>5. CASE ReportProgressThrows(u)
  <2>1. PICK ws \in InOrder(Due(u)) : \E n \in DOMAIN ws :
            /\ RecordWarnings([i \in 1 .. n |-> ws[i]], u)
            /\ \/ UNCHANGED <<lost, faults>>
               \/ lost' = lost \cup {Len(entries) + n}
      BY <1>5 DEF ReportProgressThrows
  <2>2. PICK n \in DOMAIN ws :
            /\ RecordWarnings([i \in 1 .. n |-> ws[i]], u)
            /\ \/ UNCHANGED <<lost, faults>>
               \/ lost' = lost \cup {Len(entries) + n}
      BY <2>1
  <2> DEFINE some == [i \in 1 .. n |-> ws[i]]
  <2>3. n \in Nat /\ n > 0 /\ 1 .. n \subseteq 1 .. m
      BY <1>2, <1>3
  <2>4. /\ some \in [1 .. n -> WarningKeys]
        /\ \A i \in 1 .. n : some[i] \notin warned
        /\ \A i, j \in 1 .. n : some[i] = some[j] => i = j
      BY <1>3, <2>3
  <2>5. /\ entries' = entries \o [i \in DOMAIN some |-> Warning(some[i], u)]
        /\ warned' = warned \cup {some[i] : i \in DOMAIN some}
      BY <2>2 DEF RecordWarnings
  <2> HIDE DEF some
  <2>6. QED
      BY <2>2, <2>3, <2>4, <2>5
<1>6. QED
    BY <1>4, <1>5

\* The warnings that reportProgress() appends carry the consumption reported,
\* and a failed append loses one of them.
LEMMA ReportLoses ==
    ASSUME TypeOK, NEW u \in Ledgers, ReportProgress(u) \/ ReportProgressThrows(u)
    PROVE  /\ \A i \in DOMAIN entries' \ DOMAIN entries : entries'[i].usage = UsageForAudit(u)
           /\ lost' = lost \/ \E k \in Nat : k \notin DOMAIN entries /\ lost' = lost \cup {k}
<1>0. PICK n \in Nat : \E ws \in [1 .. n -> WarningKeys] :
          /\ entries' = entries \o [i \in DOMAIN ws |-> Warning(ws[i], u)]
          /\ lost' = lost \/ (n > 0 /\ lost' = lost \cup {Len(entries) + n})
    BY ReportShape
<1>1. PICK ws \in [1 .. n -> WarningKeys] :
          /\ entries' = entries \o [i \in DOMAIN ws |-> Warning(ws[i], u)]
          /\ lost' = lost \/ (n > 0 /\ lost' = lost \cup {Len(entries) + n})
    BY <1>0
<1> DEFINE new == [i \in DOMAIN ws |-> Warning(ws[i], u)]
<1>2. new \in Seq(AuditEntries) /\ Len(new) = n /\ Len(entries) \in Nat
          /\ entries \in Seq(AuditEntries)
    BY WarningType DEF TypeOK
<1>3. \A i \in 1 .. n : new[i].usage = UsageForAudit(u)
    BY DEF Warning, Entry
<1> HIDE DEF new
<1>4. ASSUME NEW i \in DOMAIN entries' \ DOMAIN entries
      PROVE  entries'[i].usage = UsageForAudit(u)
  <2>1. /\ DOMAIN entries' = 1 .. Len(entries) + n /\ DOMAIN entries = 1 .. Len(entries)
        /\ \A j \in 1 .. Len(entries) + n :
               entries'[j] = IF j <= Len(entries) THEN entries[j] ELSE new[j - Len(entries)]
      BY <1>1, <1>2, ConcatProperties DEF new
  <2>2. i \in 1 .. Len(entries) + n /\ i > Len(entries)
      BY <1>2, <2>1
  <2>3. entries'[i] = new[i - Len(entries)] /\ i - Len(entries) \in 1 .. n
      BY <1>2, <2>1, <2>2
  <2>4. QED
      BY <1>3, <2>3
<1>5. \A k \in Nat : k > 0 => Len(entries) + k \in Nat /\ Len(entries) + k \notin DOMAIN entries
    BY <1>2
<1>6. QED
    BY <1>1, <1>4, <1>5

\* The entries of the log stay where and as they are.
LEMMA EntriesStay ==
    ASSUME TypeOK, SectionExclusive, [Next]_vars
    PROVE  /\ entries \in Seq(AuditEntries) /\ DOMAIN entries \subseteq DOMAIN entries'
           /\ \A i \in DOMAIN entries : entries'[i] = entries[i]
<1>1. /\ entries \in Seq(AuditEntries) /\ entries' \in Seq(AuditEntries)
      /\ Extends(entries', entries)
    BY LogGrows DEF TypeOK
<1>2. /\ DOMAIN entries = 1 .. Len(entries) /\ DOMAIN entries' = 1 .. Len(entries')
      /\ Len(entries) \in Nat /\ Len(entries') \in Nat
    BY <1>1
<1>3. QED
    BY <1>1, <1>2 DEF Extends

\* Which calls the log has with an effect, after a step.
LEMMA CallsAfter ==
    ASSUME TypeOK, SectionExclusive, [Next]_vars, NEW effect
    PROVE  \/ /\ OnlyWarned(entries', entries)
              /\ CallsWith(effect)' = CallsWith(effect)
           \/ \E c \in Calls : \E v \in Final :
                  /\ Decide(c) \/ ResolveAsk(c)
                  /\ entries' = Append(entries, Entry(call[c], v, usage))
                  /\ CallsWith(effect)' = CallsWith(effect)
                         \cup (IF v.effect = effect THEN {Len(entries) + 1} ELSE {})
<1>1. /\ entries \in Seq(AuditEntries) /\ DOMAIN entries \subseteq DOMAIN entries'
      /\ \A i \in DOMAIN entries : entries'[i] = entries[i]
    BY EntriesStay
<1>2. \A i \in DOMAIN entries : i \in CallsWith(effect)' <=> i \in CallsWith(effect)
    BY <1>1 DEF CallsWith, IsCall
<1>3. CASE OnlyWarned(entries', entries)
  <2>1. \A i \in DOMAIN entries' \ DOMAIN entries : ~IsCall(i)'
      BY <1>3 DEF OnlyWarned, IsCall, Reserved
  <2>2. CallsWith(effect)' = CallsWith(effect)
      BY <1>1, <1>2, <2>1 DEF CallsWith
  <2>3. QED
      BY <1>3, <2>2
<1>4. ASSUME NEW c \in Calls, NEW v \in Final, Decide(c) \/ ResolveAsk(c),
             entries' = Append(entries, Entry(call[c], v, usage))
      PROVE  CallsWith(effect)' = CallsWith(effect)
                 \cup (IF v.effect = effect THEN {Len(entries) + 1} ELSE {})
  <2>1. pc[c] # "idle"
      BY <1>4, DecisionCases
  <2>2. PICK here : here = Len(entries) + 1
      OBVIOUS
  <2>3. /\ DOMAIN entries' = DOMAIN entries \cup {here}
        /\ entries'[here] = Entry(call[c], v, usage)
        /\ here \notin DOMAIN entries
      BY <1>1, <1>4, <2>1, <2>2, RecordAppends
  <2>4. here \in CallsWith(effect)' <=> v.effect = effect
    <3>1. call[c].tool \in Tools
        BY <2>1 DEF TypeOK, ToolCalls
    <3>2. entries'[here].tool \notin Reserved /\ entries'[here].effect = v.effect
        BY <2>3, <3>1, ToolwritAssumption DEF Entry
    <3>3. QED
        BY <2>3, <3>2 DEF CallsWith, IsCall
  <2>5. CallsWith(effect)' \subseteq DOMAIN entries' /\ CallsWith(effect) \subseteq DOMAIN entries
      BY DEF CallsWith
  <2>6. QED
      BY <1>2, <2>2, <2>3, <2>4, <2>5
<1>5. QED
    BY <1>3, <1>4, LogGrows

\* One more in a finite set.
LEMMA OneMore ==
    ASSUME NEW S, IsFiniteSet(S), NEW x, x \notin S
    PROVE  Cardinality(S \cup {x}) = Cardinality(S) + 1
BY FS_AddElement

\* Every step keeps the count.
LEMMA CountStep ==
    ASSUME TypeOK, SectionExclusive, CountInv, [Next]_vars
    PROVE  CountInv'
<1> DEFINE A == CallsWith("allow")
           L == CallsWith("allow") \cap lost
           here == Len(entries) + 1
<1>1. /\ IsFiniteSet(A) /\ IsFiniteSet(L)
      /\ Cardinality(A) \in Nat /\ Cardinality(L) \in Nat /\ usage.calls \in Nat
    BY CallsFinite DEF TypeOK
<1>2. here \notin A /\ here \notin lost /\ here \notin L
    BY DEF TypeOK, CallsWith
<1>3. ASSUME CallsWith("allow")' = A, CallsWith("allow")' \cap lost' = L,
             usage'.calls = usage.calls
      PROVE  CountInv'
    BY <1>3 DEF CountInv
<1>4. CASE Consumes
  <2>1. usage'.calls = usage.calls
      BY <1>4, ConsumptionGrows
  <2>2. CallsWith("allow")' = A
    <3>1. OnlyWarned(entries', entries)
        BY <1>4, ConsumptionType
    <3>2. ASSUME NEW c \in Calls, Decide(c) \/ ResolveAsk(c)
          PROVE  FALSE
      <4>0. pc[c] \in {"queued", "asking"} /\ \A d \in Calls \ {c} : pc'[d] = pc[d]
          BY <3>2, DecisionCases, DecisionMoves
      <4>1. pc'[c] # pc[c]
        <5>1. ASSUME NEW v \in Final, Record(c, v) \/ RecordThrows(c, v)
              PROVE  pc'[c] # pc[c]
            BY <4>0, <5>1 DEF Record, RecordThrows, TypeOK
        <5>2. QED
            BY <3>2, <5>1, DecisionCases DEF TypeOK
      <4>2. \/ UNCHANGED pc
            \/ \E d \in Calls : pc[d] = "running" /\ pc' = [pc EXCEPT ![d] = "returned"]
            \/ \E d \in Calls : pc[d] = "running" /\ pc' = [pc EXCEPT ![d] = "failed"]
          BY <1>4 DEF Consumes, Return, ToolSettles, Meter, Spend, Metered
      <4>3. QED
          BY <4>0, <4>1, <4>2 DEF TypeOK
    <3>3. QED
        BY <3>2, CallsAfter
  <2>3. lost' = lost \/ \E k \in Nat : k \notin DOMAIN entries /\ lost' = lost \cup {k}
    <3>1. usage' \in Ledgers /\ (ReportProgress(usage') \/ ReportProgressThrows(usage'))
        BY <1>4, ConsumptionType
    <3>2. PICK u \in Ledgers : u = usage'
        BY <3>1
    <3>3. ReportProgress(u) \/ ReportProgressThrows(u)
        BY <3>1, <3>2
    <3>4. QED
        BY <3>3, ReportLoses
  <2>4. CallsWith("allow")' \cap lost' = L
      BY <2>2, <2>3 DEF CallsWith
  <2>5. QED
      BY <1>3, <2>1, <2>2, <2>4
<1>5. ASSUME NEW c \in Calls, Decide(c) \/ ResolveAsk(c)
      PROVE  CountInv'
  <2>0. pc[c] # "idle"
      BY <1>5, DecisionCases
  <2>1. ASSUME NEW v \in Final, entries' = Append(entries, Entry(call[c], v, usage))
        PROVE  CallsWith("allow")' = A \cup (IF v.effect = "allow" THEN {here} ELSE {})
    <3>1. entries'[here] = Entry(call[c], v, usage) /\ here \in DOMAIN entries'
              /\ here \notin DOMAIN entries /\ call[c].tool \notin Reserved
        BY <2>0, <2>1, RecordAppends, ToolwritAssumption DEF TypeOK, ToolCalls
    <3>2. ~OnlyWarned(entries', entries)
        BY <3>1 DEF OnlyWarned, Entry, Reserved
    <3>3. PICK d \in Calls, w \in Final :
              /\ entries' = Append(entries, Entry(call[d], w, usage))
              /\ CallsWith("allow")' = A \cup (IF w.effect = "allow" THEN {here} ELSE {})
        BY <3>2, CallsAfter
    <3>4. entries'[here] = Entry(call[d], w, usage)
        BY <3>3 DEF TypeOK
    <3>5. v.effect = w.effect
        BY <3>1, <3>4 DEF Entry
    <3>6. QED
        BY <3>3, <3>5
  <2>2. CASE UNCHANGED <<entries, lost, usage>>
      BY <1>3, <2>2 DEF CallsWith, IsCall
  <2>3. ASSUME NEW v \in Final, RecordThrows(c, v)
        PROVE  CountInv'
    <3>1. CASE UNCHANGED <<entries, lost, usage>>
        BY <2>2, <3>1
    <3>2. ASSUME entries' = Append(entries, Entry(call[c], v, usage)),
                 lost' = lost \cup {here}, UNCHANGED usage
          PROVE  CountInv'
      <4>1. CallsWith("allow")' = A \cup (IF v.effect = "allow" THEN {here} ELSE {})
          BY <2>1, <3>2
      <4>2. CASE v.effect # "allow"
        <5>1. CallsWith("allow")' = A /\ CallsWith("allow")' \cap lost' = L
            BY <1>2, <3>2, <4>1, <4>2
        <5>2. QED
            BY <1>3, <3>2, <5>1
      <4>3. CASE v.effect = "allow"
        <5>1. CallsWith("allow")' = A \cup {here} /\ CallsWith("allow")' \cap lost' = L \cup {here}
            BY <1>2, <3>2, <4>1, <4>3
        <5>2. /\ Cardinality(A \cup {here}) = Cardinality(A) + 1
              /\ Cardinality(L \cup {here}) = Cardinality(L) + 1
            BY <1>1, <1>2, OneMore
        <5> HIDE DEF A, L, here
        <5>3. Cardinality(A) = usage.calls + Cardinality(L)
            BY DEF CountInv, A, L
        <5>4. /\ Cardinality(CallsWith("allow")') = Cardinality(A) + 1
              /\ Cardinality(CallsWith("allow")' \cap lost') = Cardinality(L) + 1
            BY <5>1, <5>2, Zenon
        <5>5. usage'.calls = usage.calls
            BY <3>2
        <5>6. Cardinality(CallsWith("allow")')
                  = usage'.calls + Cardinality(CallsWith("allow")' \cap lost')
            BY <1>1, <5>3, <5>4, <5>5
        <5>7. QED
            BY <5>6, Zenon DEF CountInv
      <4>4. QED
          BY <4>2, <4>3
    <3>3. QED
        BY <2>3, <3>1, <3>2 DEF RecordThrows
  <2>4. ASSUME NEW v \in Final, Record(c, v)
        PROVE  CountInv'
    <3>1. entries' = Append(entries, Entry(call[c], v, usage)) /\ lost' = lost
        BY <2>4 DEF Record
    <3>2. CallsWith("allow")' = A \cup (IF v.effect = "allow" THEN {here} ELSE {})
        BY <2>1, <3>1
    <3>3. CASE v.effect = "deny" /\ UNCHANGED usage
        BY <1>3, <3>1, <3>2, <3>3
    <3>4. CASE v.effect = "allow" /\ usage'.calls = usage.calls + 1
      <4>1. CallsWith("allow")' = A \cup {here} /\ CallsWith("allow")' \cap lost' = L
          BY <1>2, <3>1, <3>2, <3>4
      <4>2. Cardinality(A \cup {here}) = Cardinality(A) + 1
          BY <1>1, <1>2, OneMore
      <4> HIDE DEF A, L, here
      <4>3. Cardinality(A) = usage.calls + Cardinality(L)
          BY DEF CountInv, A, L
      <4>4. /\ Cardinality(CallsWith("allow")') = Cardinality(A) + 1
            /\ Cardinality(CallsWith("allow")' \cap lost') = Cardinality(L)
          BY <4>1, <4>2, Zenon
      <4>5. Cardinality(CallsWith("allow")')
                = usage'.calls + Cardinality(CallsWith("allow")' \cap lost')
          BY <1>1, <3>4, <4>3, <4>4
      <4>6. QED
          BY <4>5, Zenon DEF CountInv
    <3>5. QED
        BY <2>0, <2>4, <3>3, <3>4, RecordType
  <2>5. QED
      BY <1>5, <2>2, <2>3, <2>4, DecisionCases
<1>6. CASE UNCHANGED <<entries, lost, usage>>
    BY <1>3, <1>6 DEF CallsWith, IsCall
<1>7. QED
    BY <1>4, <1>5, <1>6 DEF Next, vars, Consumes, Guard, OnAskThrows, ToolThrows, Tick

\* Every step keeps what entries say behind the ledger.
LEMMA LagStep ==
    ASSUME TypeOK, SectionExclusive, LagInv, [Next]_vars
    PROVE  LagInv'
<1> SUFFICES ASSUME NEW i \in DOMAIN entries', NEW dim \in Metering
             PROVE  entries'[i].usage[dim] <= usage'[dim]
    BY DEF LagInv
<1>1. usage \in Ledgers /\ usage' \in Ledgers /\ usage[dim] <= usage'[dim]
      /\ usage[dim] \in Nat /\ usage'[dim] \in Nat
    BY UsageGrows DEF NoLess, Ledgers, Metering
<1>2. UsageForAudit(usage)[dim] = usage[dim] /\ UsageForAudit(usage')[dim] = usage'[dim]
    BY DEF UsageForAudit, Metering
<1>3. CASE i \in DOMAIN entries
  <2>1. entries'[i] = entries[i]
      BY <1>3, EntriesStay
  <2>2. entries[i] \in AuditEntries
      BY <1>3 DEF TypeOK
  <2>3. entries[i].usage[dim] \in Nat
      BY <2>2 DEF AuditEntries, Metering
  <2>4. QED
      BY <1>1, <1>3, <2>1, <2>3 DEF LagInv
<1>4. ASSUME NEW c \in Calls, NEW v \in Final, pc[c] # "idle", i \notin DOMAIN entries,
             entries' = Append(entries, Entry(call[c], v, usage))
      PROVE  entries'[i].usage[dim] <= usage'[dim]
  <2>1. entries'[i] = Entry(call[c], v, usage)
      BY <1>4, RecordAppends
  <2>2. QED
      BY <1>1, <1>2, <2>1 DEF Entry
<1>5. CASE Consumes /\ i \notin DOMAIN entries
  <2>1. ReportProgress(usage') \/ ReportProgressThrows(usage')
      BY <1>5, ConsumptionType
  <2>2. PICK u \in Ledgers : u = usage'
      BY <1>1
  <2>3. ReportProgress(u) \/ ReportProgressThrows(u)
      BY <2>1, <2>2
  <2>4. entries'[i].usage = UsageForAudit(u)
      BY <1>5, <2>3, ReportLoses
  <2>5. QED
      BY <1>1, <1>2, <2>2, <2>4
<1>6. CASE UNCHANGED entries
    BY <1>3, <1>6
<1>7. \/ UNCHANGED entries \/ Consumes
      \/ \E c \in Calls : \E v \in Final :
             pc[c] # "idle" /\ entries' = Append(entries, Entry(call[c], v, usage))
  <2>1. ASSUME NEW c \in Calls, Decide(c) \/ ResolveAsk(c)
        PROVE  \/ UNCHANGED entries
               \/ \E v \in Final :
                      pc[c] # "idle" /\ entries' = Append(entries, Entry(call[c], v, usage))
      BY <2>1, DecisionCases DEF Record, RecordThrows
  <2>2. QED
      BY <2>1 DEF Next, vars, Consumes, Guard, OnAskThrows, ToolThrows, Tick
<1>8. QED
    BY <1>3, <1>4, <1>5, <1>6, <1>7

\* A call is refused for the budget when a ceiling has been reached.
LEMMA RefusedIsExhausted ==
    ASSUME TypeOK, OrderInv, NEW c \in Calls, Decide(c) \/ ResolveAsk(c), NEW v \in Final,
           entries' = Append(entries, Entry(call[c], v, usage)), v.why = "budget"
    PROVE  Exhausted
<1>0. pc[c] # "idle"
    BY DecisionCases
<1>1. entries'[Len(entries) + 1].why = "budget" /\ entries' # entries
  <2>1. /\ Len(entries') = Len(entries) + 1 /\ Len(entries) \in Nat
        /\ entries'[Len(entries) + 1] = Entry(call[c], v, usage)
      BY <1>0, RecordAppends DEF TypeOK
  <2>2. QED
      BY <2>1 DEF Entry
<1>2. ASSUME NEW w, Record(c, w) \/ RecordThrows(c, w)
      PROVE  w.why = "budget"
  <2>1. entries' = Append(entries, Entry(call[c], w, usage))
      BY <1>1, <1>2 DEF Record, RecordThrows
  <2>2. Append(entries, Entry(call[c], w, usage))[Len(entries) + 1] = Entry(call[c], w, usage)
      BY DEF TypeOK
  <2>3. QED
      BY <1>1, <2>1, <2>2 DEF Entry
<1>3. CASE Decide(c)
  <2> DEFINE w == Evaluate(call[c], Policy, usage, entries)
  <2>1. UNCHANGED entries \/ Record(c, w) \/ RecordThrows(c, w)
      BY <1>3 DEF Decide
  <2>2. w.why = "budget"
      BY <1>1, <1>2, <2>1, Zenon
  <2>3. CheckBudget(call[c], Policy, usage) # {}
    <3>1. ASSUME CheckBudget(call[c], Policy, usage) = {}
          PROVE  w.why # "budget"
        BY <3>1 DEF Evaluate, Verdict
    <3>2. QED
        BY <2>2, <3>1
  <2>4. PICK dim \in Limited : Consumed(usage, dim, call[c].at) >= Policy.budget[dim]
      BY <2>3 DEF CheckBudget, Limited
  <2>5. call[c].at \in Nat /\ call[c].at <= clock /\ clock \in Nat /\ usage \in Ledgers
      BY <1>0 DEF TypeOK, ToolCalls, OrderInv, Ledgers
  <2>6. NoLess(usage, usage)
      BY <2>5 DEF NoLess, Ledgers
  <2>7. Consumed(usage, dim, clock) >= Policy.budget[dim]
      BY <2>4, <2>5, <2>6, ReachedStays
  <2>8. QED
      BY <2>7 DEF Exhausted
<1>4. CASE ResolveAsk(c)
  <2>1. PICK effect : LET w == Verdict(effect, verdict[c].rule, "ask")
                      IN  Record(c, w) \/ RecordThrows(c, w)
      BY <1>4 DEF ResolveAsk
  <2>2. Verdict(effect, verdict[c].rule, "ask").why = "budget"
      BY <1>2, <2>1, Zenon
  <2>3. QED
      BY <2>2 DEF Verdict
<1>5. QED
    BY <1>3, <1>4

\* Every step keeps the budget exhausted that a call was refused for.
LEMMA RefusedStep ==
    ASSUME TypeOK, SectionExclusive, OrderInv, RefusedInv, [Next]_vars
    PROVE  RefusedInv'
<1> SUFFICES ASSUME NEW i, i \in OverBudget'
             PROVE  Exhausted'
    BY DEF RefusedInv
<1>1. i \in DOMAIN entries' /\ IsCall(i)' /\ entries'[i].effect = "deny"
          /\ entries'[i].why = "budget"
    BY DEF OverBudget, CallsWith
<1>2. Exhausted
  <2>1. CASE i \in DOMAIN entries /\ entries'[i] = entries[i] /\ IsCall(i)
      BY <1>1, <2>1 DEF RefusedInv, OverBudget, CallsWith
  <2>2. ASSUME NEW c \in Calls, NEW v \in Final, Decide(c) \/ ResolveAsk(c),
               entries' = Append(entries, Entry(call[c], v, usage)),
               entries'[i] = Entry(call[c], v, usage)
        PROVE  Exhausted
    <3>1. v.why = "budget"
        BY <1>1, <2>2 DEF Entry
    <3>2. QED
        BY <2>2, <3>1, RefusedIsExhausted
  <2>3. QED
      BY <1>1, <2>1, <2>2, CallEntries
<1>3. PICK dim \in Limited : Consumed(usage, dim, clock) >= Policy.budget[dim]
    BY <1>2 DEF Exhausted
<1>4. Consumed(usage', dim, clock') >= Policy.budget[dim]
    BY <1>3, UsageGrows, ReachedStays
<1>5. QED
    BY <1>4 DEF Exhausted, Limited, Consumed, Elapsed

\* Every step keeps the warnings of the log the thresholds reported.
LEMMA WarnStep ==
    ASSUME TypeOK, SectionExclusive, WarnInv, [Next]_vars
    PROVE  WarnInv'
<1>1. /\ entries \in Seq(AuditEntries) /\ DOMAIN entries \subseteq DOMAIN entries'
      /\ \A i \in DOMAIN entries : entries'[i] = entries[i]
    BY EntriesStay
<1>2. Reported \subseteq DOMAIN entries
    BY DEF Reported
<1>3. ASSUME Reported' = Reported, warned' = warned
      PROVE  WarnInv'
    BY <1>1, <1>2, <1>3 DEF WarnInv
<1>4. CASE UNCHANGED <<entries, warned>>
    BY <1>3, <1>4 DEF Reported
<1>5. ASSUME NEW c \in Calls, NEW v \in Final, pc[c] # "idle", UNCHANGED warned,
             entries' = Append(entries, Entry(call[c], v, usage))
      PROVE  WarnInv'
  <2>1. PICK here : here = Len(entries) + 1
      OBVIOUS
  <2>2. DOMAIN entries' = DOMAIN entries \cup {here} /\ entries'[here] = Entry(call[c], v, usage)
      BY <1>5, <2>1, RecordAppends
  <2>3. call[c].tool \in Tools
      BY <1>5 DEF TypeOK, ToolCalls
  <2>4. entries'[here].tool # WarningTool
      BY <2>2, <2>3, ToolwritAssumption DEF Entry, Reserved
  <2>5. Reported' = Reported
      BY <1>1, <2>2, <2>4 DEF Reported
  <2>6. QED
      BY <1>3, <1>5, <2>5
<1>6. CASE Consumes
  <2>1. usage' \in Ledgers /\ (ReportProgress(usage') \/ ReportProgressThrows(usage'))
      BY <1>6, ConsumptionType
  <2>2. PICK u \in Ledgers : u = usage'
      BY <2>1
  <2>3. ReportProgress(u) \/ ReportProgressThrows(u)
      BY <2>1, <2>2
  <2>4. PICK n \in Nat : \E ws \in [1 .. n -> WarningKeys] :
            /\ entries' = entries \o [i \in DOMAIN ws |-> Warning(ws[i], u)]
            /\ warned' = warned \cup {ws[i] : i \in DOMAIN ws}
            /\ \A i \in 1 .. n : ws[i] \notin warned
            /\ \A i, j \in 1 .. n : ws[i] = ws[j] => i = j
      BY <2>3, ReportShape
  <2>5. PICK ws \in [1 .. n -> WarningKeys] :
            /\ entries' = entries \o [i \in DOMAIN ws |-> Warning(ws[i], u)]
            /\ warned' = warned \cup {ws[i] : i \in DOMAIN ws}
            /\ \A i \in 1 .. n : ws[i] \notin warned
            /\ \A i, j \in 1 .. n : ws[i] = ws[j] => i = j
      BY <2>4
  <2> DEFINE new == [i \in DOMAIN ws |-> Warning(ws[i], u)]
  <2>6. new \in Seq(AuditEntries) /\ Len(new) = n /\ Len(entries) \in Nat
      BY WarningType DEF TypeOK
  <2>7. \A k \in 1 .. n : new[k].tool = WarningTool /\ new[k].arg = ws[k]
      BY DEF Warning, Entry, ToCall
  <2>8. /\ DOMAIN entries' = 1 .. Len(entries) + n /\ DOMAIN entries = 1 .. Len(entries)
        /\ \A j \in 1 .. Len(entries) + n :
               entries'[j] = IF j <= Len(entries) THEN entries[j] ELSE new[j - Len(entries)]
      BY <1>1, <2>5, <2>6, ConcatProperties
  <2> HIDE DEF new
  <2>9. PICK len \in Nat : len = Len(entries)
      BY <2>6
  <2>10. \A k \in 1 .. n : /\ len + k \in DOMAIN entries' /\ len + k \notin DOMAIN entries
                            /\ entries'[len + k] = new[k]
    <3>1. ASSUME NEW k \in 1 .. n
          PROVE  /\ len + k \in 1 .. len + n /\ ~(len + k <= len) /\ len + k - len = k
        BY <2>9
    <3>2. QED
        BY <2>8, <2>9, <3>1
  <2>11. \A i \in DOMAIN entries' \ DOMAIN entries : \E k \in 1 .. n : i = len + k
    <3>1. ASSUME NEW i \in 1 .. len + n, i \notin 1 .. len
          PROVE  i - len \in 1 .. n /\ i = len + (i - len)
        BY <2>9, <3>1
    <3>2. QED
        BY <2>8, <2>9, <3>1
  <2>12. ASSUME NEW i \in Reported'
         PROVE  \/ i \in Reported /\ entries'[i].arg = entries[i].arg
                       /\ entries[i].arg \in warned
                \/ \E k \in 1 .. n : i = len + k /\ entries'[i].arg = ws[k]
    <3>1. i \in DOMAIN entries' /\ entries'[i].tool = WarningTool
        BY DEF Reported
    <3>2. CASE i \in DOMAIN entries
        BY <1>1, <3>1, <3>2 DEF Reported, WarnInv
    <3>3. CASE i \notin DOMAIN entries
        BY <2>7, <2>10, <2>11, <3>1, <3>3
    <3>4. QED
        BY <3>2, <3>3
  <2>13. \A k \in 1 .. n : len + k \in Reported' /\ entries'[len + k].arg = ws[k]
      BY <2>7, <2>10 DEF Reported
  <2>14. \A i \in Reported : i \in Reported' /\ entries'[i].arg = entries[i].arg
      BY <1>1 DEF Reported
  <2>15. {entries'[i].arg : i \in Reported'} = warned'
    <3>1. warned' = {entries[i].arg : i \in Reported} \cup {ws[k] : k \in 1 .. n}
        BY <2>5 DEF WarnInv
    <3>2. QED
        BY <2>12, <2>13, <2>14, <3>1
  <2>16. ASSUME NEW i \in Reported', NEW j \in Reported', entries'[i].arg = entries'[j].arg
         PROVE  i = j
    <3>1. CASE i \in Reported /\ j \in Reported
        BY <2>14, <2>16, <3>1 DEF WarnInv
    <3>2. CASE i \in Reported /\ j \notin Reported
      <4>1. entries'[i].arg \in warned
          BY <2>14, <3>2 DEF WarnInv
      <4>2. PICK k \in 1 .. n : entries'[j].arg = ws[k]
          BY <2>12, <3>2
      <4>3. QED
          BY <2>5, <2>16, <4>1, <4>2
    <3>3. CASE i \notin Reported /\ j \in Reported
      <4>1. entries'[j].arg \in warned
          BY <2>14, <3>3 DEF WarnInv
      <4>2. PICK k \in 1 .. n : entries'[i].arg = ws[k]
          BY <2>12, <3>3
      <4>3. QED
          BY <2>5, <2>16, <4>1, <4>2
    <3>4. CASE i \notin Reported /\ j \notin Reported
      <4>1. PICK k \in 1 .. n : i = len + k /\ entries'[i].arg = ws[k]
          BY <2>12, <3>4
      <4>2. PICK l \in 1 .. n : j = len + l /\ entries'[j].arg = ws[l]
          BY <2>12, <3>4
      <4>3. k = l
          BY <2>5, <2>16, <4>1, <4>2
      <4>4. QED
          BY <4>1, <4>2, <4>3
    <3>5. QED
        BY <3>1, <3>2, <3>3, <3>4
  <2>17. QED
      BY <2>15, <2>16 DEF WarnInv
<1>7. ASSUME NEW c \in Calls, Decide(c) \/ ResolveAsk(c)
      PROVE  WarnInv'
    BY <1>4, <1>5, <1>7, DecisionCases DEF Record, RecordThrows
<1>8. QED
    BY <1>4, <1>6, <1>7 DEF Next, vars, Consumes, Guard, OnAskThrows, ToolThrows, Tick

\* Nothing has been recorded of calls, and nothing consumed.
LEMMA ReceiptInit == Init => ReceiptInv
<1> SUFFICES ASSUME Init
             PROVE  ReceiptInv
    OBVIOUS
<1>1. \A i \in DOMAIN entries : ~IsCall(i) /\ entries[i].usage = UsageForAudit(Unused)
    BY DEF Init, IsCall, PlanEntry, Entry, Reserved
<1>2. CallsWith("allow") = {} /\ CallsWith("allow") \cap lost = {} /\ OverBudget = {}
    BY <1>1 DEF CallsWith, OverBudget
<1>3. CountInv
  <2>1. /\ Cardinality(CallsWith("allow")) = 0
        /\ Cardinality(CallsWith("allow") \cap lost) = 0
      BY <1>2, FS_EmptySet, Zenon
  <2>2. usage.calls = 0
      BY DEF Init, Unused
  <2>3. QED
      BY <2>1, <2>2 DEF CountInv
<1>4. LagInv
    BY <1>1 DEF Init, LagInv, UsageForAudit, Unused, Metering
<1>5. WarnInv
  <2>1. Reported = {}
      BY DEF Init, Reported, PlanEntry, Entry, PlanTool, WarningTool
  <2>2. QED
      BY <2>1 DEF Init, WarnInv
<1>6. QED
    BY <1>2, <1>3, <1>4, <1>5 DEF ReceiptInv, RefusedInv

\* The receipt of a log, at any moment of the run, tells what the run did:
\* each permission, counted or failed; no more consumption than there was; each
\* threshold that was reported, once; and an exceeded budget when, and only
\* while, it is true, unless a rule is named as the budget is.
THEOREM ReceiptsTellTheRun ==
    ASSUME NoneNamedBudget
    PROVE  Spec => []ReceiptTellsTheRun
<1> DEFINE All == TypeOK /\ SectionExclusive /\ OrderInv /\ DecidedInOrder /\ ReceiptInv
<1>1. Init => All
    BY TypeInit, OrderInit, ReceiptInit
<1>2. All /\ [Next]_vars => All'
  <2>1. ASSUME All, [Next]_vars
        PROVE  ReceiptInv'
      BY <2>1, CountStep, LagStep, RefusedStep, WarnStep DEF ReceiptInv
  <2>2. QED
      BY <2>1, TypeStep, SectionStep, OrderStep
<1>3. All => ReceiptTellsTheRun
  <2> SUFFICES ASSUME TypeOK, ReceiptInv
               PROVE  ReceiptTellsTheRun
      OBVIOUS
  <2>1. RunTally.allowed = usage.calls + Cardinality(CallsWith("allow") \cap lost)
      BY TallySays DEF ReceiptInv, CountInv
  <2>2. ASSUME NEW dim \in Metering
        PROVE  RunTally.usage[dim] <= usage[dim]
    <3>1. usage[dim] \in Nat
        BY DEF TypeOK, Metering
    <3>2. entries # <<>> => Len(entries) \in DOMAIN entries
        BY DEF TypeOK
    <3>3. QED
        BY <3>1, <3>2, TallySays DEF ReceiptInv, LagInv
  <2>3. RunTally.asked = 0
    <3>0. \A i \in DOMAIN entries : entries[i] \in AuditEntries
        BY DEF TypeOK
    <3>1. CallsWith("ask") = {}
        BY <3>0 DEF CallsWith, AuditEntries
    <3>2. QED
        BY <3>1, TallySays, FS_EmptySet
  <2>4. RunTally.exceeded <=> OverBudget # {}
      BY TallySays, BudgetIsBlamed DEF OverBudget
  <2> DEFINE reported(i) == <<RunTally.warnings[i].dimension, RunTally.warnings[i].threshold>>
  <2>5. DOMAIN RunTally.warnings = Reported /\ \A i \in Reported : reported(i) = entries[i].arg
    <3>1. ASSUME NEW i \in Reported
          PROVE  <<entries[i].arg[1], entries[i].arg[2]>> = entries[i].arg
      <4>1. entries[i].arg \in WarningKeys
          BY DEF ReceiptInv, WarnInv, TypeOK
      <4>2. QED
          BY <4>1 DEF WarningKeys
    <3>2. QED
        BY <3>1, TallyWarns DEF ReceiptInv
  <2> HIDE DEF reported
  <2>6. /\ {reported(i) : i \in DOMAIN RunTally.warnings} = warned
        /\ \A i, j \in DOMAIN RunTally.warnings : reported(i) = reported(j) => i = j
    <3>1. {reported(i) : i \in Reported} = {entries[i].arg : i \in Reported}
        BY <2>5
    <3>2. QED
        BY <2>5, <3>1 DEF ReceiptInv, WarnInv
  <2>7. /\ OverBudget # {} => RunTally.exceeded
        /\ RunTally.exceeded => Exhausted
      BY <2>4 DEF ReceiptInv, RefusedInv
  <2>8. \A dim \in {"tokens", "usd", "bytes"} : RunTally.usage[dim] <= usage[dim]
      BY <2>2 DEF Metering
  <2>9. QED
      BY <2>1, <2>3, <2>6, <2>7, <2>8 DEF ReceiptTellsTheRun, reported
<1> HIDE DEF All
<1>4. QED
    BY <1>1, <1>2, <1>3, PTL DEF Spec

-----------------------------------------------------------------------------
(*                     The refinement of Writ                              *)

FateBar == [c \in Calls |-> Fate(pc[c])]

RecordOf(c) == IF entryOf[c] = 0 THEN "none" ELSE entries[entryOf[c]].effect

RecordBar == [c \in Calls |-> RecordOf(c)]

\* A call moves to the fate of its new place, the others stay.
LEMMA FateMoves ==
    ASSUME TypeOK, NEW c \in Calls, NEW s, pc' = [pc EXCEPT ![c] = s]
    PROVE  FateBar' = [FateBar EXCEPT ![c] = Fate(s)]
BY Zenon DEF TypeOK, FateBar

\* A step that gives no call an entry keeps every record.
LEMMA RecordsKept ==
    ASSUME TypeOK, EvidenceInv, Extends(entries', entries), UNCHANGED entryOf
    PROVE  RecordBar' = RecordBar
<1>1. ASSUME NEW c \in Calls
      PROVE  RecordOf(c)' = RecordOf(c)
  <2>1. entryOf[c] \in Nat /\ entryOf[c] <= Len(entries)
      BY DEF TypeOK, EvidenceInv, EntriesKnown
  <2>2. CASE entryOf[c] = 0
      BY <2>2 DEF RecordOf
  <2>3. CASE entryOf[c] # 0
    <3>1. entryOf[c] \in 1 .. Len(entries)
        BY <2>1, <2>3 DEF TypeOK
    <3>2. entries'[entryOf[c]] = entries[entryOf[c]]
        BY <3>1 DEF Extends
    <3>3. QED
        BY <2>3, <3>2 DEF RecordOf
  <2>4. QED
      BY <2>2, <2>3
<1>2. QED
    BY <1>1 DEF RecordBar

\* A recorded decision is the record of its call, and of no other.
LEMMA RecordsOne ==
    ASSUME TypeOK, EvidenceInv, NEW c \in Calls, pc[c] # "idle", NEW v \in Final, Record(c, v)
    PROVE  RecordBar' = [RecordBar EXCEPT ![c] = v.effect]
<1>1. /\ entryOf' = [entryOf EXCEPT ![c] = Len(entries) + 1]
      /\ entries' = Append(entries, Entry(call[c], v, usage))
    BY RecordType
<1>2. entries'[Len(entries) + 1] = Entry(call[c], v, usage) /\ Extends(entries', entries)
    BY <1>1, RecordAppends
<1>3. Len(entries) \in Nat
    BY DEF TypeOK
<1>4. RecordOf(c)' = v.effect
  <2>1. entryOf'[c] = Len(entries) + 1 /\ entryOf'[c] # 0
      BY <1>1, <1>3 DEF TypeOK
  <2>2. QED
      BY <1>2, <2>1 DEF RecordOf, Entry
<1>5. ASSUME NEW d \in Calls \ {c}
      PROVE  RecordOf(d)' = RecordOf(d)
  <2>1. entryOf'[d] = entryOf[d] /\ entryOf[d] \in Nat /\ entryOf[d] <= Len(entries)
      BY <1>1 DEF TypeOK, EvidenceInv, EntriesKnown
  <2>2. CASE entryOf[d] = 0
      BY <2>1, <2>2 DEF RecordOf
  <2>3. CASE entryOf[d] # 0
    <3>1. entryOf[d] \in 1 .. Len(entries)
        BY <1>3, <2>1, <2>3
    <3>2. entries'[entryOf[d]] = entries[entryOf[d]]
        BY <1>2, <3>1 DEF Extends
    <3>3. QED
        BY <2>1, <2>3, <3>2 DEF RecordOf
  <2>4. QED
      BY <2>2, <2>3
<1>6. QED
    BY <1>4, <1>5 DEF RecordBar

\* The abstract actions, in terms of the mapped variables.
LEMMA AbstractStep ==
    ASSUME NEW c \in Calls
    PROVE  /\ FateBar[c] = "new" /\ FateBar' = [FateBar EXCEPT ![c] = "waiting"]
                  /\ UNCHANGED <<RecordBar, usage.calls>> => Promise!Next
           /\ FateBar[c] = "waiting" /\ FateBar' = [FateBar EXCEPT ![c] = "executing"]
                  /\ ("calls" \in Limited => usage.calls < Policy.budget["calls"])
                  /\ RecordBar' = [RecordBar EXCEPT ![c] = "allow"]
                  /\ usage'.calls = usage.calls + 1 => Promise!Next
           /\ FateBar[c] = "waiting" /\ FateBar' = [FateBar EXCEPT ![c] = "refused"]
                  /\ RecordBar' = [RecordBar EXCEPT ![c] = "deny"]
                  /\ UNCHANGED usage.calls => Promise!Next
           /\ FateBar[c] \in {"waiting", "executing"}
                  /\ FateBar' = [FateBar EXCEPT ![c] = "aborted"]
                  /\ UNCHANGED <<RecordBar, usage.calls>> => Promise!Next
           /\ FateBar[c] = "executing" /\ FateBar' = [FateBar EXCEPT ![c] = "completed"]
                  /\ UNCHANGED <<RecordBar, usage.calls>> => Promise!Next
BY Zenon DEF FateBar, RecordBar, RecordOf, Promise!Next, Promise!Request, Promise!Permit,
   Promise!Refuse, Promise!Abort, Promise!Complete, Promise!Becomes

\* Every step is a step of the abstract enforcement point, or a stutter.
LEMMA StepImplements ==
    ASSUME Inv, [Next]_vars
    PROVE  Promise!Next \/ UNCHANGED <<FateBar, RecordBar, usage.calls>>
<1> USE DEF Inv
<1>1. \A c \in Calls : FateBar[c] = Fate(pc[c])
    BY DEF FateBar
<1>2. UNCHANGED entryOf => UNCHANGED RecordBar
    BY LogGrows, RecordsKept
<1>3. ASSUME NEW c \in Calls, pc[c] \in {"asking", "queued", "running"},
             pc' = [pc EXCEPT ![c] = "failed"], UNCHANGED <<entryOf, usage>>
      PROVE  Promise!Next
  <2>1. FateBar[c] \in {"waiting", "executing"} /\ FateBar' = [FateBar EXCEPT ![c] = "aborted"]
      BY <1>1, <1>3, FateMoves DEF Fate
  <2>2. QED
      BY <1>2, <1>3, <2>1, AbstractStep
<1>4. ASSUME NEW c \in Calls, Guard(c)
      PROVE  Promise!Next
  <2>1. FateBar[c] = "new" /\ FateBar' = [FateBar EXCEPT ![c] = "waiting"]
      BY <1>1, <1>4, FateMoves DEF Fate, Guard
  <2>2. QED
      BY <1>2, <1>4, <2>1, AbstractStep DEF Guard
<1>5. ASSUME NEW c \in Calls, Decide(c) \/ ResolveAsk(c)
      PROVE  Promise!Next \/ UNCHANGED <<FateBar, RecordBar, usage.calls>>
  <2>1. pc[c] \in {"queued", "asking"} /\ FateBar[c] = "waiting"
      BY <1>1, <1>5, DecisionCases DEF Fate
  <2>2. CASE pc' = [pc EXCEPT ![c] = "asking"] /\ UNCHANGED <<entryOf, usage>>
    <3>1. FateBar' = [FateBar EXCEPT ![c] = "waiting"]
        BY <2>2, FateMoves DEF Fate
    <3>2. UNCHANGED FateBar
        BY <2>1, <3>1 DEF FateBar
    <3>3. QED
        BY <1>2, <2>2, <3>2
  <2>3. ASSUME NEW v \in Final, RecordThrows(c, v)
        PROVE  Promise!Next
      BY <1>3, <2>1, <2>3 DEF RecordThrows
  <2>4. ASSUME NEW v \in Final, Record(c, v)
        PROVE  Promise!Next
    <3>1. RecordBar' = [RecordBar EXCEPT ![c] = v.effect]
        BY <2>1, <2>4, RecordsOne
    <3>2. CASE v.effect = "deny" /\ UNCHANGED usage /\ pc' = [pc EXCEPT ![c] = "denied"]
      <4>1. FateBar' = [FateBar EXCEPT ![c] = "refused"]
          BY <3>2, FateMoves DEF Fate
      <4>2. QED
          BY <2>1, <3>1, <3>2, <4>1, AbstractStep
    <3>3. CASE /\ v.effect = "allow" /\ usage'.calls = usage.calls + 1
               /\ pc' = [pc EXCEPT ![c] = "running"]
      <4>1. FateBar' = [FateBar EXCEPT ![c] = "executing"]
          BY <3>3, FateMoves DEF Fate
      <4>2. Below
          BY <1>5, <3>3, PermitsBelow DEF TypeOK, BudgetInv
      <4>3. QED
          BY <2>1, <3>1, <3>3, <4>1, <4>2, AbstractStep DEF Below
    <3>4. QED
        BY <2>1, <2>4, <3>2, <3>3, RecordType
  <2>5. QED
      BY <1>5, <2>2, <2>3, <2>4, DecisionCases
<1>6. ASSUME NEW c \in Calls, OnAskThrows(c) \/ ToolThrows(c)
      PROVE  Promise!Next
    BY <1>3, <1>6 DEF OnAskThrows, ToolThrows, ToolSettles
<1>7. ASSUME NEW c \in Calls, Return(c)
      PROVE  Promise!Next
  <2>1. pc[c] = "running" /\ FateBar[c] = "executing" /\ UNCHANGED entryOf
      BY <1>1, <1>7 DEF Return, ToolSettles, Fate
  <2>2. usage'.calls = usage.calls
    <3>1. PICK bytes \in Results : usage' = AddBytes(usage, bytes, call[c].at)
        BY <1>7 DEF Return
    <3>2. usage \in Ledgers /\ call[c].at \in Nat /\ bytes \in Nat
        BY <2>1, ToolwritAssumption DEF TypeOK, ToolCalls, Ledgers
    <3>3. QED
        BY <3>1, <3>2, LedgerType
  <2>3. CASE pc' = [pc EXCEPT ![c] = "returned"]
    <3>1. FateBar' = [FateBar EXCEPT ![c] = "completed"]
        BY <2>3, FateMoves DEF Fate
    <3>2. QED
        BY <1>2, <2>1, <2>2, <3>1, AbstractStep
  <2>4. CASE pc' = [pc EXCEPT ![c] = "failed"]
    <3>1. FateBar' = [FateBar EXCEPT ![c] = "aborted"]
        BY <2>4, FateMoves DEF Fate
    <3>2. QED
        BY <1>2, <2>1, <2>2, <3>1, AbstractStep
  <2>5. QED
      BY <1>7, <2>3, <2>4 DEF Return
<1>8. CASE UNCHANGED <<pc, entryOf, usage.calls>>
    BY <1>2, <1>8 DEF FateBar
<1>9. ASSUME NEW tokens \in Figures, NEW usd \in Figures, Meter(tokens, usd) \/ Spend(usd)
      PROVE  UNCHANGED <<pc, entryOf, usage.calls>>
  <2>1. usage \in Ledgers /\ clock \in Nat
      BY DEF TypeOK, Ledgers
  <2>2. CASE Meter(tokens, usd)
    <3>1. tokens \in Nat /\ usd \in Nat
        BY <2>2, ToolwritAssumption DEF Meter, RequireConsumption
    <3>2. AddTokens(usage, tokens, usd, clock).calls = usage.calls
        BY <2>1, <3>1, AddTokensType, Zenon
    <3>3. QED
        BY <2>2, <3>2 DEF Meter, Metered
  <2>3. CASE Spend(usd)
    <3>1. usd \in Nat
        BY <2>3, ToolwritAssumption DEF Spend, RequireConsumption
    <3>2. AddSpend(usage, usd, clock).calls = usage.calls
        BY <2>1, <3>1, LedgerType
    <3>3. QED
        BY <2>3, <3>2 DEF Spend, Metered
  <2>4. QED
      BY <1>9, <2>2, <2>3
<1>10. QED
    BY <1>4, <1>5, <1>6, <1>7, <1>8, <1>9 DEF Next, vars, Tick

\* A new instance is a new abstract enforcement point.
LEMMA InitImplements == Init => Promise!Init
<1> SUFFICES ASSUME Init
             PROVE  Promise!Init
    OBVIOUS
<1>1. \A c \in Calls : Fate(pc[c]) = "new" /\ entryOf[c] = 0
    BY DEF Init, Fate
<1>2. usage.calls = 0
    BY DEF Init, Unused
<1>3. QED
    BY <1>1, <1>2 DEF Promise!Init

\* Every behaviour of the instance is one of the abstract enforcement point.
THEOREM Implements == Spec => ImplementsWrit
<1>1. Inv /\ [Next]_vars => [Promise!Next]_(Promise!abstractVars)
  <2> SUFFICES ASSUME Inv, [Next]_vars
               PROVE  [Promise!Next]_(Promise!abstractVars)
      OBVIOUS
  <2>1. UNCHANGED <<FateBar, RecordBar, usage.calls>> => UNCHANGED Promise!abstractVars
      BY DEF FateBar, RecordBar, RecordOf, Promise!abstractVars
  <2>2. QED
      BY <2>1, StepImplements
<1>2. QED
    BY InitImplements, Invariant, <1>1, PTL DEF ImplementsWrit, Promise!Spec, Spec

=============================================================================
