----------------------------- MODULE AuditProofs -----------------------------
(***************************************************************************)
(* Theorems about the audit log and its anchors, for any number of         *)
(* entries, processes, failed appends, payloads, commands and answers of a *)
(* TSA.  The log is read back as it was recorded; a log that passes        *)
(* `verify --against` is the log that was anchored, to its end; and what   *)
(* has landed goes on verifying while nobody meddles.                      *)
(***************************************************************************)
EXTENDS Anchors, SequenceTheorems, WellFoundedInduction, TLAPS

\* A set of natural numbers that is not empty has a least element.
LEMMA HasLeast ==
    ASSUME NEW S \in SUBSET Nat, S # {}
    PROVE  \E i \in S : \A j \in S : i <= j
<1> DEFINE Less == OpToRel(<, Nat)
<1>1. \A i, j \in Nat : j < i => <<j, i>> \in Less
    BY Zenon DEF OpToRel
<1>2. IsWellFoundedOn(Less, Nat)
    BY NatLessThanWellFounded
<1> HIDE DEF Less
<1>3. PICK i \in S : \A j \in S : ~(<<j, i>> \in Less)
    BY <1>2, WFMin
<1>4. ASSUME NEW j \in S
      PROVE  i <= j
  <2>1. i \in Nat /\ j \in Nat
      OBVIOUS
  <2>2. ~(j < i)
      BY <1>1, <1>3, <2>1, Zenon
  <2>3. QED
      BY <2>1, <2>2
<1>5. QED
    BY <1>4

\* Entry k of a log is sealed with its position and with the hash before it.
Chained(log) ==
    \A k \in DOMAIN log : log[k] = Sealed(k, log[k].payload, PrevHash(log, k))

\* Every line that is not torn is an entry of a log.
FromLogs(line, ls) ==
    \/ line = Malformed
    \/ \E r \in DOMAIN ls : \E k \in DOMAIN ls[r] : line = ls[r][k]

\* The variables are sequences.  What an entry may be has no bound, since it
\* holds the hash of the one before it.
Sequences == \E S : logs \in Seq(Seq(S)) /\ lines \in Seq(S)

ChainInv ==
    /\ Sequences
    /\ Len(logs) >= 1
    /\ open => lines # <<>>
    /\ \A r \in DOMAIN logs : Chained(logs[r])
    /\ last = PrevHash(Log, Len(Log) + 1)
    /\ \A i \in DOMAIN lines : FromLogs(lines[i], logs)

\* A chained log verifies, and the head is the hash of its newest entry.
LEMMA ChainedVerifies ==
    ASSUME NEW log, Chained(log)
    PROVE  Sound(log) /\ VerifyChain(log).ok /\ VerifyChain(log).head = PrevHash(log, Len(log) + 1)
<1>1. ASSUME NEW k \in DOMAIN log
      PROVE  Failure(log, k) = "none"
  <2>1. log[k] = Sealed(k, log[k].payload, PrevHash(log, k))
      BY DEF Chained
  <2>2. log[k].seq = k /\ log[k].prev = PrevHash(log, k)
            /\ log[k].hash = HashEntry(Body(log[k]))
      BY <2>1 DEF Sealed, Body
  <2>3. QED
      BY <2>2 DEF Failure
<1>2. Sound(log)
    BY <1>1 DEF Sound
<1>3. QED
    BY <1>2 DEF VerifyChain

\* A log stays chained when an entry sealed with its head is appended.
LEMMA ChainedGrows ==
    ASSUME NEW S, NEW log \in Seq(S), NEW payload, Chained(log)
    PROVE  LET entry == Sealed(Len(log) + 1, payload, PrevHash(log, Len(log) + 1))
               longer == Append(log, entry)
           IN  Chained(longer) /\ entry.hash = PrevHash(longer, Len(longer) + 1)
<1> DEFINE entry == Sealed(Len(log) + 1, payload, PrevHash(log, Len(log) + 1))
           longer == Append(log, entry)
<1>1. /\ Len(log) \in Nat /\ DOMAIN log = 1 .. Len(log)
      /\ entry.payload = payload
    BY DEF Sealed
<1> HIDE DEF entry
<1>2. /\ Len(longer) = Len(log) + 1
      /\ DOMAIN longer = 1 .. Len(log) + 1
      /\ longer[Len(log) + 1] = entry
      /\ \A i \in 1 .. Len(log) : longer[i] = log[i]
    OBVIOUS
<1> HIDE DEF longer
<1>3. \A i \in 1 .. Len(log) + 1 : PrevHash(longer, i) = PrevHash(log, i)
    BY <1>1, <1>2 DEF PrevHash
<1>4. ASSUME NEW k \in DOMAIN longer
      PROVE  longer[k] = Sealed(k, longer[k].payload, PrevHash(longer, k))
  <2>1. CASE k = Len(log) + 1
      BY <1>1, <1>2, <1>3, <2>1 DEF entry
  <2>2. CASE k \in DOMAIN log
      BY <1>1, <1>2, <1>3, <2>2 DEF Chained
  <2>3. QED
      BY <1>1, <1>2, <2>1, <2>2
<1>5. entry.hash = PrevHash(longer, Len(longer) + 1)
    BY <1>1, <1>2 DEF PrevHash
<1>6. QED
    BY <1>4, <1>5 DEF Chained, longer, entry

\* An empty log on an empty file is chained.
LEMMA ChainInit == Init => ChainInv
<1> SUFFICES ASSUME Init
             PROVE  ChainInv
    OBVIOUS
<1>1. logs = << <<>> >> /\ lines = <<>> /\ last = Genesis /\ open = FALSE
    BY DEF Init
<1>2. logs \in Seq(Seq({})) /\ lines \in Seq({})
    BY <1>1
<1>3. Len(logs) = 1 /\ DOMAIN logs = {1} /\ logs[1] = <<>> /\ Log = <<>>
    BY <1>1 DEF Log
<1>4. \A r \in DOMAIN logs : Chained(logs[r])
    BY <1>3 DEF Chained
<1>5. last = PrevHash(Log, Len(Log) + 1)
    BY <1>1, <1>3 DEF PrevHash
<1>6. QED
    BY <1>1, <1>2, <1>3, <1>4, <1>5 DEF ChainInv, Sequences

\* Logs that have only grown.
Grown(longer, shorter) ==
    /\ DOMAIN shorter \subseteq DOMAIN longer
    /\ \A r \in DOMAIN shorter :
           /\ DOMAIN shorter[r] \subseteq DOMAIN longer[r]
           /\ \A k \in DOMAIN shorter[r] : longer[r][k] = shorter[r][k]

\* A line that comes from a log still does when the logs have grown.
LEMMA FromLogsKept ==
    ASSUME NEW ls, NEW longer, Grown(longer, ls), NEW line, FromLogs(line, ls)
    PROVE  FromLogs(line, longer)
BY DEF Grown, FromLogs

\* record() preserves the chain, whatever becomes of the append.
LEMMA RecordStep ==
    ASSUME ChainInv, NEW payload, Record(payload)
    PROVE  ChainInv'
<1> DEFINE entry == Sealed(Len(Log) + 1, payload, last)
           longer == Append(Log, entry)
<1>1. PICK S : logs \in Seq(Seq(S)) /\ lines \in Seq(S)
    BY DEF ChainInv, Sequences
<1>0. PICK n \in Nat : n = Len(logs) /\ n >= 1
    BY <1>1 DEF ChainInv
<1>2. /\ DOMAIN logs = 1 .. n /\ Log = logs[n] /\ Log \in Seq(S)
      /\ Chained(Log)
    BY <1>1, <1>0 DEF ChainInv, Log
<1>3. /\ logs' = [logs EXCEPT ![n] = longer]
      /\ last' = entry.hash
      /\ AppendSucceeds(entry) \/ AppendThrows(entry)
    BY <1>0 DEF Record, Log
<1>4. Chained(longer) /\ entry.hash = PrevHash(longer, Len(longer) + 1)
    BY <1>2, ChainedGrows DEF ChainInv
<1> DEFINE T == S \cup {entry, Malformed}
<1> HIDE DEF entry, longer
<1>5. S \subseteq T /\ entry \in T /\ Malformed \in T
    OBVIOUS
<1> HIDE DEF T
<1>6. Log \in Seq(T) /\ longer \in Seq(T) /\ lines \in Seq(T)
    BY <1>1, <1>2, <1>5, SeqMonotonic DEF longer
<1>7. logs \in Seq(Seq(T))
  <2>1. Seq(S) \subseteq Seq(T)
      BY <1>5, SeqMonotonic
  <2>2. QED
      BY <1>1, <2>1, SeqMonotonic
<1>8. /\ logs' \in Seq(Seq(T))
      /\ Len(logs') = n
      /\ \A r \in 1 .. n : logs'[r] = IF r = n THEN longer ELSE logs[r]
    BY <1>0, <1>2, <1>3, <1>6, <1>7
<1>9. Log' = longer
    BY <1>0, <1>8 DEF Log
<1>10. /\ Len(longer) = Len(Log) + 1 /\ Len(Log) \in Nat
       /\ longer[Len(Log) + 1] = entry
       /\ \A k \in DOMAIN Log : k \in DOMAIN longer /\ longer[k] = Log[k]
       /\ Len(Log) + 1 \in DOMAIN longer
    BY <1>2 DEF longer
<1>11. Grown(logs', logs)
    BY <1>2, <1>8, <1>10 DEF Grown
<1>12. FromLogs(entry, logs')
  <2>1. n \in DOMAIN logs' /\ logs'[n] = longer
      BY <1>0, <1>8
  <2>2. QED
      BY <1>10, <2>1 DEF FromLogs
<1>13. FromLogs(Malformed, logs')
    BY DEF FromLogs
<1>14. /\ lines' \in Seq(T)
       /\ \A i \in DOMAIN lines' : FromLogs(lines'[i], logs')
       /\ open' => lines' # <<>>
  <2>1. ASSUME NEW content \in {Malformed, entry}, Line(content)
        PROVE  /\ lines' \in Seq(T)
               /\ \A i \in DOMAIN lines' : FromLogs(lines'[i], logs')
               /\ lines' # <<>>
    <3>1. CASE open
      <4>1. lines # <<>> /\ lines' = [lines EXCEPT ![Len(lines)] = Malformed]
          BY <2>1, <3>1 DEF ChainInv, Line
      <4>2. /\ lines' \in Seq(T) /\ lines' # <<>> /\ DOMAIN lines' = DOMAIN lines
            /\ \A i \in DOMAIN lines : lines'[i] = Malformed \/ lines'[i] = lines[i]
          BY <1>5, <1>6, <4>1
      <4>3. QED
          BY <1>11, <1>13, <4>2, FromLogsKept DEF ChainInv
    <3>2. CASE ~open
      <4>1. lines' = Append(lines, content) /\ content \in T
          BY <1>5, <2>1, <3>2 DEF Line
      <4>2. /\ lines' \in Seq(T) /\ Len(lines') = Len(lines) + 1
            /\ lines'[Len(lines) + 1] = content
            /\ \A i \in 1 .. Len(lines) : lines'[i] = lines[i]
          BY <1>6, <4>1
      <4>3. Len(lines) \in Nat /\ DOMAIN lines = 1 .. Len(lines)
                /\ DOMAIN lines' = 1 .. Len(lines')
          BY <1>6, <4>2, LenProperties
      <4>4. lines' # <<>>
          BY <4>2, <4>3
      <4>5. \A i \in DOMAIN lines' : i = Len(lines) + 1 \/ i \in DOMAIN lines
          BY <4>2, <4>3
      <4>6. QED
          BY <1>11, <1>12, <1>13, <2>1, <4>2, <4>3, <4>4, <4>5, FromLogsKept DEF ChainInv
    <3>3. QED
        BY <3>1, <3>2
  <2>2. CASE UNCHANGED <<lines, open>>
      BY <1>6, <1>11, <2>2, FromLogsKept DEF ChainInv
  <2>3. QED
      BY <1>3, <2>1, <2>2 DEF AppendSucceeds, AppendThrows
<1>15. \A r \in DOMAIN logs' : Chained(logs'[r])
  <2>1. DOMAIN logs' = DOMAIN logs
      BY <1>3, Zenon
  <2>2. ASSUME NEW r \in DOMAIN logs', r = n
        PROVE  Chained(logs'[r])
    <3>1. logs'[r] = longer
        BY <1>2, <1>8, <2>1, <2>2
    <3>2. QED
        BY <1>4, <3>1, Zenon
  <2>3. ASSUME NEW r \in DOMAIN logs', r # n
        PROVE  Chained(logs'[r])
    <3>1. logs'[r] = logs[r] /\ r \in DOMAIN logs
        BY <1>2, <1>8, <2>1, <2>3
    <3>2. Chained(logs[r])
        BY <3>1 DEF ChainInv
    <3>3. QED
        BY <3>1, <3>2, Zenon
  <2>4. QED
      BY <2>2, <2>3, Zenon
<1>16. last' = PrevHash(Log, Len(Log) + 1)'
    BY <1>3, <1>4, <1>9
<1>17. QED
    BY <1>0, <1>8, <1>14, <1>15, <1>16 DEF ChainInv, Sequences

\* A restart preserves the chain.
LEMMA RestartStep ==
    ASSUME ChainInv, Restart
    PROVE  ChainInv'
<1>1. PICK S : logs \in Seq(Seq(S)) /\ lines \in Seq(S)
    BY DEF ChainInv, Sequences
<1>2. logs' = Append(logs, <<>>) /\ last' = Genesis /\ UNCHANGED <<lines, open>>
    BY DEF Restart
<1>3. /\ logs' \in Seq(Seq(S)) /\ Len(logs') = Len(logs) + 1 /\ Len(logs) \in Nat
      /\ logs'[Len(logs')] = <<>>
      /\ \A r \in DOMAIN logs : r \in DOMAIN logs' /\ logs'[r] = logs[r]
      /\ \A r \in DOMAIN logs' : r \in DOMAIN logs \/ r = Len(logs')
    BY <1>1, <1>2
<1>4. Grown(logs', logs)
    BY <1>3 DEF Grown
<1>5. \A i \in DOMAIN lines : FromLogs(lines[i], logs')
    BY <1>4, FromLogsKept DEF ChainInv
<1>6. Chained(<<>>)
    BY DEF Chained
<1>7. \A r \in DOMAIN logs' : Chained(logs'[r])
    BY <1>3, <1>6 DEF ChainInv
<1>8. Log' = <<>> /\ last' = PrevHash(Log, Len(Log) + 1)'
    BY <1>2, <1>3 DEF Log, PrevHash
<1>9. QED
    BY <1>1, <1>2, <1>3, <1>5, <1>7, <1>8 DEF ChainInv, Sequences

\* Every reachable state is chained.
LEMMA ChainInvariant == Spec => []ChainInv
<1>1. ChainInv /\ UNCHANGED vars => ChainInv'
    BY DEF ChainInv, Sequences, Log, FromLogs, vars
<1>2. ChainInv /\ [Next]_vars => ChainInv'
    BY <1>1, RecordStep, RestartStep DEF Next
<1>3. QED
    BY ChainInit, <1>2, PTL DEF Spec

\* However appends fail and processes restart, every log in memory verifies and
\* the head it quotes is the hash of its newest entry.
THEOREM MemoryAlwaysVerifies == Spec => []MemoryVerifies
<1>1. ChainInv => MemoryVerifies
  <2> SUFFICES ASSUME ChainInv
               PROVE  MemoryVerifies
      OBVIOUS
  <2>1. Chained(Log)
      BY DEF ChainInv, Sequences, Log
  <2>2. QED
      BY <2>1, ChainedVerifies DEF ChainInv, MemoryVerifies
<1>2. QED
    BY ChainInvariant, <1>1, PTL

-----------------------------------------------------------------------------
\* An entry that fails no check has its position, its link and its own hash.
LEMMA SoundEntry ==
    ASSUME NEW file, Sound(file), NEW i \in DOMAIN file
    PROVE  file[i].seq = i /\ file[i].prev = PrevHash(file, i)
               /\ file[i].hash = HashEntry(Body(file[i]))
BY DEF Sound, Failure

\* An entry of a chained log has its position and the hash before it.
LEMMA ChainedEntry ==
    ASSUME NEW log, Chained(log), NEW k \in DOMAIN log
    PROVE  log[k].seq = k /\ log[k].prev = PrevHash(log, k)
<1>1. log[k] = Sealed(k, log[k].payload, PrevHash(log, k))
    BY DEF Chained
<1>2. \A p, g : Sealed(k, p, g).seq = k /\ Sealed(k, p, g).prev = g
    BY DEF Sealed
<1>3. QED
    BY <1>1, <1>2

\* Two entries of the same hash are the same entry.
LEMMA SameHashSameEntry ==
    ASSUME NEW k, NEW l, NEW p, NEW q, NEW g, NEW h,
           Sealed(k, p, g).hash = Sealed(l, q, h).hash
    PROVE  Sealed(k, p, g) = Sealed(l, q, h)
<1> DEFINE b == [seq |-> k, payload |-> p, prev |-> g]
           c == [seq |-> l, payload |-> q, prev |-> h]
<1>1. <<"sha256", b>> = <<"sha256", c>>
    BY DEF Sealed, HashEntry
<1>2. b = c
    BY <1>1
<1>3. b.seq = k /\ b.payload = p /\ b.prev = g /\ c.seq = l /\ c.payload = q /\ c.prev = h
    OBVIOUS
<1>4. k = l /\ p = q /\ g = h
    BY <1>2, <1>3
<1>5. QED
    BY <1>4

\* A line that verifies is the entry of that position of one log; the lines
\* before it are then the entries before it, the last that differed would break
\* the link of its successor.
LEMMA VerifiedLinesAreOneLog ==
    ASSUME ChainInv, NEW n \in DOMAIN lines, VerifyFile(SubSeq(lines, 1, n)).ok
    PROVE  \E r \in DOMAIN logs : PrefixOf(SubSeq(lines, 1, n), logs[r])
<1> DEFINE file == SubSeq(lines, 1, n)
<1>1. PICK S : logs \in Seq(Seq(S)) /\ lines \in Seq(S)
    BY DEF ChainInv, Sequences
<1>2. n \in Nat /\ n >= 1 /\ n <= Len(lines) /\ Len(lines) \in Nat
    BY <1>1
<1>3. Len(file) = n /\ DOMAIN file = 1 .. n /\ \A i \in 1 .. n : file[i] = lines[i]
  <2>1. \A i \in 1 .. n : lines[i] \in S
      BY <1>1, <1>2
  <2>2. file \in Seq(S) /\ Len(file) = n /\ \A i \in 1 .. n : file[i] = lines[i]
      BY <1>2, <2>1, SubSeqProperties
  <2>3. QED
      BY <2>2, LenProperties
<1>4. Sound(file) /\ \A i \in DOMAIN file : file[i] # Malformed
    BY DEF VerifyFile, VerifyChain
<1> HIDE DEF file
<1>5. ASSUME NEW i \in 1 .. n
      PROVE  \E r \in DOMAIN logs : i \in DOMAIN logs[r] /\ file[i] = logs[r][i]
  <2>1. PICK r \in DOMAIN logs : \E k \in DOMAIN logs[r] : file[i] = logs[r][k]
      BY <1>2, <1>3, <1>4 DEF ChainInv, FromLogs
  <2>2. PICK k \in DOMAIN logs[r] : file[i] = logs[r][k]
      BY <2>1
  <2>3. logs[r][k].seq = k
      BY ChainedEntry DEF ChainInv
  <2>4. file[i].seq = i
      BY <1>3, <1>4, SoundEntry
  <2>5. QED
      BY <2>2, <2>3, <2>4
<1>6. PICK r \in DOMAIN logs : n \in DOMAIN logs[r] /\ file[n] = logs[r][n]
    BY <1>2, <1>5
<1>7. /\ Len(logs[r]) \in Nat /\ DOMAIN logs[r] = 1 .. Len(logs[r]) /\ n <= Len(logs[r])
      /\ Chained(logs[r])
    BY <1>1, <1>6 DEF ChainInv
<1>8. ASSUME NEW i \in 1 .. n, i + 1 \in 1 .. n, file[i + 1] = logs[r][i + 1]
      PROVE  file[i] = logs[r][i]
  <2>1. file[i].hash = logs[r][i].hash
    <3>1. file[i + 1].prev = file[i].hash
        BY <1>3, <1>4, <1>8, SoundEntry DEF PrevHash
    <3>2. logs[r][i + 1].prev = logs[r][i].hash
      <4>1. i + 1 \in DOMAIN logs[r] /\ (i + 1) - 1 = i /\ i + 1 # 1
          BY <1>2, <1>7, <1>8
      <4>2. logs[r][i + 1].prev = PrevHash(logs[r], i + 1)
          BY <1>7, <4>1, ChainedEntry
      <4>3. QED
          BY <4>1, <4>2 DEF PrevHash
    <3>3. QED
        BY <1>8, <3>1, <3>2
  <2>2. PICK o \in DOMAIN logs : i \in DOMAIN logs[o] /\ file[i] = logs[o][i]
      BY <1>5
  <2>3. file[i] = Sealed(i, file[i].payload, PrevHash(logs[o], i))
      BY <2>2 DEF ChainInv, Chained
  <2>4. logs[r][i] = Sealed(i, logs[r][i].payload, PrevHash(logs[r], i))
      BY <1>2, <1>7 DEF Chained
  <2>5. QED
      BY <2>1, <2>3, <2>4, SameHashSameEntry
<1>9. \A i \in 1 .. n : file[i] = logs[r][i]
  <2> SUFFICES ASSUME NEW bad \in 1 .. n, file[bad] # logs[r][bad]
               PROVE  FALSE
      OBVIOUS
  <2> DEFINE B == {d \in 0 .. n - 1 : file[n - d] # logs[r][n - d]}
  <2>1. B \in SUBSET Nat /\ n - bad \in B
      BY <1>2
  <2>2. PICK d \in B : \A e \in B : d <= e
      BY <2>1, HasLeast
  <2>3. d # 0
      BY <1>2, <1>6
  <2>4. n - d \in 1 .. n /\ (n - d) + 1 \in 1 .. n /\ file[(n - d) + 1] = logs[r][(n - d) + 1]
    <3>1. d - 1 \notin B /\ d - 1 \in 0 .. n - 1
        BY <1>2, <2>2, <2>3
    <3>2. n - (d - 1) = (n - d) + 1
        BY <1>2, <2>2
    <3>3. QED
        BY <1>2, <2>2, <2>3, <3>1, <3>2
  <2>5. file[n - d] = logs[r][n - d]
      BY <1>8, <2>4
  <2>6. QED
      BY <2>2, <2>5
<1>10. PrefixOf(file, logs[r])
    BY <1>3, <1>7, <1>9 DEF PrefixOf
<1>11. QED
    BY <1>10 DEF file

\* Lines that verify from the start of the file are what one process recorded,
\* in order and without a gap, however appends fail and processes restart.
THEOREM VerifiedIsAlwaysOneLog == Spec => []VerifiedIsOneLog
<1>1. ChainInv => VerifiedIsOneLog
    BY VerifiedLinesAreOneLog DEF VerifiedIsOneLog
<1>2. QED
    BY ChainInvariant, <1>1, PTL

-----------------------------------------------------------------------------
(*                          A file without trouble                         *)

\* A line that is not JSON is not an entry.
MalformedIsNoEntry == \A seq, payload, prev : Sealed(seq, payload, prev) # Malformed

\* The file of one process whose appends have all succeeded is its log.
UntroubledInv == Len(logs) = 1 /\ ~failed => lines = Log /\ ~open

\* An append either fails, or keeps the file equal to the log.
LEMMA UntroubledStep == ChainInv /\ UntroubledInv /\ [Next]_vars => UntroubledInv'
<1>1. ASSUME ChainInv, UntroubledInv, NEW payload, Record(payload)
      PROVE  UntroubledInv'
  <2> DEFINE entry == Sealed(Len(Log) + 1, payload, last)
  <2>1. /\ logs' = [logs EXCEPT ![Len(logs)] = Append(Log, entry)]
        /\ AppendSucceeds(entry) \/ AppendThrows(entry)
      BY <1>1 DEF Record, Log
  <2> HIDE DEF entry
  <2>2. PICK S : logs \in Seq(Seq(S))
      BY <1>1 DEF ChainInv, Sequences
  <2>3. Len(logs') = Len(logs) /\ Len(logs) \in DOMAIN logs
      BY <1>1, <2>1, <2>2 DEF ChainInv
  <2>4. Log' = Append(Log, entry)
      BY <2>1, <2>2, <2>3 DEF Log
  <2>5. CASE AppendThrows(entry)
      BY <2>5 DEF AppendThrows, UntroubledInv
  <2>6. ASSUME AppendSucceeds(entry), Len(logs') = 1, ~failed'
        PROVE  lines' = Log' /\ ~open'
    <3>1. lines = Log /\ ~open /\ ~open'
        BY <1>1, <2>3, <2>6 DEF AppendSucceeds, UntroubledInv
    <3>2. lines' = Append(Log, entry)
        BY <2>6, <3>1 DEF AppendSucceeds, Line
    <3>3. QED
        BY <2>4, <3>1, <3>2
  <2>7. QED
      BY <2>1, <2>5, <2>6 DEF UntroubledInv
<1>2. ASSUME ChainInv, Restart
      PROVE  UntroubledInv'
  <2>1. Len(logs) \in Nat /\ Len(logs) >= 1 /\ Len(logs') = Len(logs) + 1
      BY <1>2 DEF ChainInv, Sequences, Restart
  <2>2. Len(logs') # 1
      BY <2>1
  <2>3. QED
      BY <2>2, Zenon DEF UntroubledInv
<1>3. UntroubledInv /\ UNCHANGED vars => UntroubledInv'
    BY DEF UntroubledInv, Log, vars
<1>4. QED
    BY <1>1, <1>2, <1>3 DEF Next

\* The file of one process whose appends have all succeeded verifies, up to the
\* head in memory (AuditLog.append() and verifyFile()).
THEOREM UntroubledAlwaysVerifies ==
    ASSUME MalformedIsNoEntry
    PROVE  Spec => []UntroubledFileVerifies
<1>1. Init => UntroubledInv
    BY DEF Init, UntroubledInv, Log
<1>2. ChainInv /\ UntroubledInv => UntroubledFileVerifies
  <2> SUFFICES ASSUME ChainInv, UntroubledInv, Len(logs) = 1, ~failed
               PROVE  VerifyFile(lines).ok /\ VerifyFile(lines).head = last
      BY DEF UntroubledFileVerifies
  <2>1. lines = Log /\ Chained(Log) /\ last = PrevHash(Log, Len(Log) + 1)
      BY DEF UntroubledInv, ChainInv, Sequences, Log
  <2>2. \A i \in DOMAIN Log : Log[i] # Malformed
      BY <2>1 DEF Chained, MalformedIsNoEntry
  <2>3. VerifyFile(lines) = VerifyChain(Log)
      BY <2>1, <2>2 DEF VerifyFile
  <2>4. QED
      BY <2>1, <2>3, ChainedVerifies
<1>3. ChainInv /\ UntroubledInv /\ [Next]_vars => UntroubledInv'
    BY UntroubledStep
<1>4. QED
    BY ChainInvariant, <1>1, <1>2, <1>3, PTL DEF Spec

-----------------------------------------------------------------------------
(*                               Tampering                                 *)

\* What verifies has no entry that fails.
LEMMA VerifiedIsSound ==
    ASSUME NEW file, VerifyChain(file).ok
    PROVE  Sound(file)
BY DEF VerifyChain

\* Entries with the same hash have the same body.
LEMMA SameHashSameBody ==
    ASSUME NEW e, NEW f, HashEntry(Body(e)) = HashEntry(Body(f))
    PROVE  e.payload = f.payload
<1>1. Body(e) = Body(f)
    BY DEF HashEntry
<1>2. Body(e).payload = e.payload /\ Body(f).payload = f.payload
    BY DEF Body
<1>3. QED
    BY <1>1, <1>2

\* An entry of a chained log with another payload has not the hash it carries.
LEMMA EditedEntry ==
    ASSUME NEW log, Chained(log), NEW i \in DOMAIN log, NEW payload, payload # log[i].payload
    PROVE  LET edited == [log[i] EXCEPT !.payload = payload]
           IN  /\ edited.hash # HashEntry(Body(edited))
               /\ Rehashed(edited).hash # log[i].hash
<1> DEFINE edited == [log[i] EXCEPT !.payload = payload]
<1>1. log[i] = Sealed(i, log[i].payload, PrevHash(log, i))
    BY DEF Chained
<1>2. PICK p, g : log[i] = Sealed(i, p, g)
    BY <1>1
<1>3. log[i] = [seq |-> i, payload |-> p, prev |-> g,
                hash |-> HashEntry([seq |-> i, payload |-> p, prev |-> g])]
    BY <1>2 DEF Sealed
<1>4. /\ edited.payload = payload /\ edited.hash = log[i].hash
      /\ Rehashed(edited).hash = HashEntry(Body(edited))
      /\ log[i].hash = HashEntry(Body(log[i]))
    BY <1>3 DEF Rehashed, Body
<1>5. HashEntry(Body(edited)) # HashEntry(Body(log[i]))
    BY <1>4, SameHashSameBody
<1>6. QED
    BY <1>4, <1>5

\* An entry out of its place fails the check of its number.
LEMMA MisplacedFails ==
    ASSUME NEW log, Chained(log), NEW file, NEW i \in DOMAIN file, NEW j \in DOMAIN log,
           i # j, file[i] = log[j]
    PROVE  ~VerifyChain(file).ok
<1>1. file[i].seq = j
    BY ChainedEntry
<1>2. QED
    BY <1>1, SoundEntry, VerifiedIsSound

\* Editing, deleting or reordering an entry of a chained log is detected.
LEMMA ChainedDetects ==
    ASSUME NEW S, NEW log \in Seq(S), Chained(log), NEW i \in DOMAIN log
    PROVE  /\ \A payload \in Payloads \ {log[i].payload} :
                 LET edited == [log[i] EXCEPT !.payload = payload]
                 IN  /\ ~VerifyChain([log EXCEPT ![i] = edited]).ok
                     /\ i < Len(log) => ~VerifyChain([log EXCEPT ![i] = Rehashed(edited)]).ok
           /\ i < Len(log) =>
                 /\ ~VerifyChain(Without(log, i)).ok
                 /\ ~VerifyChain([log EXCEPT ![i] = log[i + 1], ![i + 1] = log[i]]).ok
<1>1. Len(log) \in Nat /\ DOMAIN log = 1 .. Len(log) /\ i \in Nat /\ i >= 1
    OBVIOUS
<1>2. i < Len(log) => i + 1 \in DOMAIN log /\ i # i + 1 /\ (i + 1) - 1 = i /\ i + 1 # 1
    BY <1>1
<1>3. ASSUME NEW payload \in Payloads \ {log[i].payload}
      PROVE  LET edited == [log[i] EXCEPT !.payload = payload]
             IN  /\ ~VerifyChain([log EXCEPT ![i] = edited]).ok
                 /\ i < Len(log) => ~VerifyChain([log EXCEPT ![i] = Rehashed(edited)]).ok
  <2> DEFINE edited == [log[i] EXCEPT !.payload = payload]
             again == Rehashed(edited)
             kept == [log EXCEPT ![i] = edited]
             made == [log EXCEPT ![i] = again]
  <2>1. edited.hash # HashEntry(Body(edited)) /\ again.hash # log[i].hash
      BY EditedEntry
  <2> HIDE DEF edited, again
  <2>2. i \in DOMAIN kept /\ kept[i] = edited
      OBVIOUS
  <2>3. ~VerifyChain(kept).ok
    <3> HIDE DEF kept
    <3>1. QED
        BY <2>1, <2>2, SoundEntry, VerifiedIsSound
  <2>4. ASSUME i < Len(log)
        PROVE  ~VerifyChain(made).ok
    <3>1. i + 1 \in DOMAIN made /\ made[i] = again /\ made[i + 1] = log[i + 1]
        BY <1>2, <2>4
    <3>2. log[i + 1].prev = log[i].hash
        BY <1>2, <2>4, ChainedEntry DEF PrevHash
    <3> HIDE DEF made
    <3>3. PrevHash(made, i + 1) = again.hash
        BY <1>2, <2>4, <3>1 DEF PrevHash
    <3>4. QED
        BY <2>1, <3>1, <3>2, <3>3, SoundEntry, VerifiedIsSound
  <2>5. QED
      BY <2>3, <2>4 DEF edited, again
<1>4. ASSUME i < Len(log)
      PROVE  ~VerifyChain(Without(log, i)).ok
  <2>1. i \in DOMAIN Without(log, i) /\ Without(log, i)[i] = log[i + 1]
      BY <1>1, <1>4 DEF Without
  <2>2. QED
      BY <1>2, <1>4, <2>1, MisplacedFails
<1>5. ASSUME i < Len(log)
      PROVE  ~VerifyChain([log EXCEPT ![i] = log[i + 1], ![i + 1] = log[i]]).ok
  <2> DEFINE swapped == [log EXCEPT ![i] = log[i + 1], ![i + 1] = log[i]]
  <2>1. i \in DOMAIN swapped /\ swapped[i] = log[i + 1]
      BY <1>2, <1>5
  <2> HIDE DEF swapped
  <2>2. ~VerifyChain(swapped).ok
      BY <1>2, <1>5, <2>1, MisplacedFails
  <2>3. QED
      BY <2>2 DEF swapped
<1>6. QED
    BY <1>3, <1>4, <1>5

\* Whoever edits, deletes or reorders an entry of a log is found out by
\* verifyChain(): always when the entry keeps its hash, and as soon as a later
\* entry is kept when it gets a new one or is left out.
THEOREM TamperingIsDetected == Spec => []EditsAreDetected
<1>1. ChainInv => EditsAreDetected
  <2> SUFFICES ASSUME ChainInv
               PROVE  EditsAreDetected
      OBVIOUS
  <2>1. PICK S : Log \in Seq(S)
      BY DEF ChainInv, Sequences, Log
  <2>2. Chained(Log)
      BY DEF ChainInv, Sequences, Log
  <2>3. QED
      BY <2>1, <2>2, ChainedDetects DEF EditsAreDetected
<1>2. QED
    BY ChainInvariant, <1>1, PTL

-----------------------------------------------------------------------------
(*                              The anchors                                *)

\* What a receipt of the agent's log says: how many entries it had, the hash of
\* the last of them, and whose they are.
Counts(receipt, log) ==
    /\ receipt.entryCount \in 0 .. Len(log)
    /\ receipt.head = PrevHash(log, receipt.entryCount + 1)
    /\ receipt.run = IF receipt.entryCount = 0 THEN "" ELSE Run

\* The agent's process is one, and its entries are of its run.
OneRun == Len(logs) = 1 /\ \A i \in DOMAIN Log : Log[i].payload.run = Run

\* A command that has read the log and has not ended.
Underway == {"writing", "stamping"}

\* It holds a receipt of the log as it was.
JobsInv ==
    /\ DOMAIN job = Commands /\ DOMAIN stage = Commands
    /\ \A k \in Commands : stage[k] \in Underway => Counts(job[k].receipt, Log)

\* So does every line that a command has written.
LinesInv ==
    /\ \E S : anchors \in Seq(S)
    /\ torn => anchors # <<>>
    /\ \A i \in DOMAIN anchors : anchors[i] # Malformed =>
           IF anchors[i].by = None THEN anchors[i].receipt.run \notin {"", Run}
           ELSE Counts(anchors[i].receipt, Log)

AnchorsInv == ChainInv /\ OneRun /\ JobsInv /\ LinesInv

-----------------------------------------------------------------------------
\* What a receipt says, without the calls.
LEMMA SummarySays ==
    ASSUME NEW entries
    PROVE  /\ Summarize(entries).entryCount = Len(entries)
           /\ Summarize(entries).head = IF entries = <<>> THEN Genesis ELSE Last(entries).hash
           /\ Summarize(entries).run = IF entries = <<>> THEN "" ELSE Last(entries).payload.run
BY Zenon DEF Summarize

\* The receipt of a file that verifies is one of the agent's log, up to an entry.
LEMMA SummaryCounts ==
    ASSUME ChainInv, OneRun, VerifyFile(lines).ok
    PROVE  Counts(Summarize(lines), Log)
<1>1. PICK S : logs \in Seq(Seq(S)) /\ lines \in Seq(S)
    BY DEF ChainInv, Sequences
<1>2. Log \in Seq(S) /\ Len(Log) \in Nat /\ DOMAIN logs = {1} /\ Log = logs[1]
  <2>1. Len(logs) = 1
      BY DEF OneRun
  <2>2. DOMAIN logs = {1} /\ logs[1] \in Seq(S)
    <3>1. DOMAIN logs = 1 .. 1
        BY <1>1, <2>1, LenProperties
    <3>2. DOMAIN logs = {1} /\ 1 \in 1 .. Len(logs)
        BY <2>1, <3>1
    <3>3. logs[1] \in Seq(S)
        BY <1>1, <3>2, ElementOfSeq
    <3>4. QED
        BY <3>2, <3>3
  <2>3. QED
      BY <2>1, <2>2 DEF Log
<1>3. CASE lines = <<>>
  <2>1. /\ Summarize(lines).entryCount = 0 /\ Summarize(lines).head = Genesis
        /\ Summarize(lines).run = ""
      BY <1>3, SummarySays
  <2>2. 0 \in 0 .. Len(Log) /\ PrevHash(Log, 0 + 1) = Genesis
      BY <1>2 DEF PrevHash
  <2>3. QED
      BY <2>1, <2>2, Zenon DEF Counts
<1>4. CASE lines # <<>>
  <2> DEFINE n == Len(lines)
  <2>1. n \in Nat /\ n >= 1 /\ n \in DOMAIN lines /\ SubSeq(lines, 1, n) = lines
      BY <1>1, <1>4
  <2>2. PrefixOf(lines, Log)
      BY <1>2, <2>1, VerifiedLinesAreOneLog
  <2>3. n \in 0 .. Len(Log) /\ n \in DOMAIN Log /\ lines[n] = Log[n]
      BY <1>2, <2>1, <2>2 DEF PrefixOf
  <2>4. /\ Summarize(lines).entryCount = n /\ Summarize(lines).head = Log[n].hash
        /\ Summarize(lines).run = Log[n].payload.run
      BY <1>4, <2>3, SummarySays DEF Last
  <2>5. PrevHash(Log, n + 1) = Log[n].hash /\ n # 0
      BY <2>1 DEF PrevHash
  <2>6. Log[n].payload.run = Run
      BY <2>3 DEF OneRun
  <2>7. QED
      BY <2>3, <2>4, <2>5, <2>6, Zenon DEF Counts
<1>5. QED
    BY <1>3, <1>4

\* A receipt still counts the entries of a log that has grown.
LEMMA CountsKept ==
    ASSUME NEW S, NEW log \in Seq(S), NEW T, NEW longer \in Seq(T), NEW receipt,
           Len(log) <= Len(longer), \A i \in DOMAIN log : longer[i] = log[i],
           Counts(receipt, log)
    PROVE  Counts(receipt, longer)
<1>1. Len(log) \in Nat /\ Len(longer) \in Nat /\ DOMAIN log = 1 .. Len(log)
    OBVIOUS
<1>2. receipt.entryCount \in 0 .. Len(log)
    BY DEF Counts
<1>3. PrevHash(longer, receipt.entryCount + 1) = PrevHash(log, receipt.entryCount + 1)
    BY <1>1, <1>2 DEF PrevHash
<1>4. receipt.entryCount \in 0 .. Len(longer)
    BY <1>1, <1>2
<1>5. QED
    BY <1>3, <1>4, Zenon DEF Counts

-----------------------------------------------------------------------------
\* Counting back from n, one step less is the entry after.
LEMMA OneLess ==
    ASSUME NEW n \in Nat, NEW d \in 0 .. n - 1, d # 0
    PROVE  /\ d - 1 \in 0 .. n - 1 /\ ~ (d <= d - 1) /\ n - (d - 1) = (n - d) + 1
           /\ n - d \in 1 .. n /\ (n - d) + 1 \in 1 .. n
BY SMTT(30)

\* A sound chain that ends in the hash of entry n of the agent's log is the
\* first n entries of it: the last hash fixes the number and the link of its
\* entry, the link the entry before, and so on to the first.
LEMMA SameHeadSameChain ==
    ASSUME NEW log, IsSequence(log), Sound(log), \A i \in DOMAIN log : IsEntry(log[i]),
           Len(log) >= 1,
           NEW S, NEW own \in Seq(S), Chained(own), NEW n \in DOMAIN own,
           log[Len(log)].hash = own[n].hash
    PROVE  Len(log) = n /\ PrefixOf(log, own)
<1>1. /\ Len(log) \in Nat /\ DOMAIN log = 1 .. Len(log)
      /\ Len(own) \in Nat /\ DOMAIN own = 1 .. Len(own)
    BY DEF IsSequence
<1>2. ASSUME NEW i \in DOMAIN log, NEW k \in DOMAIN own, log[i].hash = own[k].hash
      PROVE  i = k /\ log[i] = own[k]
  <2>1. log[i].seq = i /\ log[i].hash = HashEntry(Body(log[i]))
      BY SoundEntry
  <2>2. log[i] = Sealed(log[i].seq, log[i].payload, log[i].prev)
      BY <2>1 DEF IsEntry, Sealed, Body
  <2>3. own[k] = Sealed(k, own[k].payload, PrevHash(own, k))
      BY DEF Chained
  <2>4. log[i] = own[k]
      BY <1>2, <2>2, <2>3, SameHashSameEntry
  <2>5. QED
      BY <2>1, <2>4, ChainedEntry
<1>3. Len(log) = n /\ log[n] = own[n]
    BY <1>1, <1>2
<1>4. ASSUME NEW i \in 1 .. n, i + 1 \in 1 .. n, log[i + 1] = own[i + 1]
      PROVE  log[i] = own[i]
  <2>1. /\ i + 1 \in DOMAIN log /\ i + 1 \in DOMAIN own /\ (i + 1) - 1 = i /\ i + 1 # 1
        /\ i \in DOMAIN log /\ i \in DOMAIN own
      BY <1>1, <1>3, <1>4
  <2>2. log[i + 1].prev = log[i].hash
      BY <2>1, SoundEntry DEF PrevHash
  <2>3. own[i + 1].prev = own[i].hash
      BY <2>1, ChainedEntry DEF PrevHash
  <2>4. QED
      BY <1>2, <1>4, <2>1, <2>2, <2>3
<1>5. \A i \in 1 .. n : log[i] = own[i]
  <2> SUFFICES ASSUME NEW bad \in 1 .. n, log[bad] # own[bad]
               PROVE  FALSE
      OBVIOUS
  <2> DEFINE B == {d \in 0 .. n - 1 : log[n - d] # own[n - d]}
  <2>0. n \in Nat /\ n >= 1
      BY <1>1
  <2>1. B \in SUBSET Nat /\ n - bad \in B
      BY <2>0
  <2>2. PICK d \in B : \A e \in B : d <= e
      BY <2>1, HasLeast
  <2>3. d \in 0 .. n - 1 /\ log[n - d] # own[n - d] /\ n - 0 = n
      BY <2>0, <2>2
  <2>4. d # 0
      BY <1>3, <2>3
  <2>5. /\ d - 1 \in 0 .. n - 1 /\ ~ (d <= d - 1) /\ n - (d - 1) = (n - d) + 1
        /\ n - d \in 1 .. n /\ (n - d) + 1 \in 1 .. n
      BY <2>0, <2>3, <2>4, OneLess
  <2>6. d - 1 \notin B
      BY <2>2, <2>5
  <2>7. log[n - (d - 1)] = own[n - (d - 1)]
      BY <2>5, <2>6
  <2>8. log[(n - d) + 1] = own[(n - d) + 1]
      BY <2>5, <2>7
  <2>9. log[n - d] = own[n - d]
      BY <1>4, <2>5, <2>8
  <2>10. QED
      BY <2>3, <2>9
<1>6. QED
    BY <1>1, <1>3, <1>5 DEF PrefixOf

-----------------------------------------------------------------------------
\* findReceipt() returns a line of the run, when there is one.
LEMMA FoundReceipt ==
    ASSUME NEW S, NEW file \in Seq(S), NEW run, FindReceipt(file, run) # None
    PROVE  \E i \in DOMAIN file : FindReceipt(file, run) = file[i] /\ file[i].receipt.run = run
<1> DEFINE I == {i \in 1 .. Len(file) : file[i].receipt.run = run}
           at == IF I # {} THEN Max(I) ELSE 0
<1>1. FindReceipt(file, run) = IF at = 0 THEN None ELSE file[at]
    BY DEF FindReceipt, SelectLastInSeq
<1>2. Len(file) \in Nat /\ DOMAIN file = 1 .. Len(file)
    OBVIOUS
<1>3. I # {} /\ at = Max(I)
    BY <1>1
<1>4. \E m \in I : \A i \in I : i <= m
  <2> DEFINE B == {d \in Nat : Len(file) - d \in I}
  <2>1. PICK i \in I : TRUE
      BY <1>3
  <2>2. i \in 1 .. Len(file) /\ Len(file) - i \in B
    <3>1. i \in 1 .. Len(file)
        OBVIOUS
    <3>2. Len(file) - i \in Nat /\ Len(file) - (Len(file) - i) = i
        BY <1>2, <3>1
    <3>3. QED
        BY <3>1, <3>2
  <2>3. PICK d \in B : \A e \in B : d <= e
      BY <2>2, HasLeast
  <2>4. ASSUME NEW j \in I
        PROVE  j <= Len(file) - d
    <3>1. j \in 1 .. Len(file)
        OBVIOUS
    <3>2. Len(file) - j \in Nat /\ Len(file) - (Len(file) - j) = j
        BY <1>2, <3>1
    <3>3. Len(file) - j \in B
        BY <3>2
    <3>4. d <= Len(file) - j /\ d \in Nat
        BY <2>3, <3>3
    <3>5. QED
        BY <1>2, <3>1, <3>4
  <2>5. QED
      BY <2>3, <2>4
<1>5. Max(I) \in I
    BY <1>4, Zenon DEF Max
<1>6. QED
    BY <1>1, <1>2, <1>3, <1>5

\* What `verify --against` passes is a chain that verifies and ends in the head of
\* a receipt of its run.
LEMMA VerifiedLog ==
    ASSUME NEW S, NEW file \in Seq(S), NEW log, NEW options, CmdVerify(log, file, options) = "ok"
    PROVE  /\ \A i \in DOMAIN log : log[i] # Malformed
           /\ \A i \in DOMAIN file : file[i] # Malformed
           /\ Sound(log)
           /\ \E i \in DOMAIN file :
                  /\ file[i].receipt.run = Summarize(log).run
                  /\ file[i].receipt.head = PrevHash(log, Len(log) + 1)
<1> DEFINE run == Summarize(log).run
           found == FindReceipt(file, run)
<1>1. /\ \A i \in DOMAIN log : log[i] # Malformed
      /\ \A i \in DOMAIN file : file[i] # Malformed
      /\ VerifyChain(log).ok
      /\ found # None
      /\ VerifyAgainstReceipt(log, found.receipt) = "none"
    BY Zenon DEF CmdVerify
<1>2. Sound(log)
    BY <1>1 DEF VerifyChain
<1>3. VerifyChain(log).head = PrevHash(log, Len(log) + 1)
    BY <1>2 DEF VerifyChain
<1>4. VerifyChain(log).head = found.receipt.head
  <2>1. VerifyChain(log).head # found.receipt.head =>
            VerifyAgainstReceipt(log, found.receipt) \in {"wrong-run", "wrong-head"}
      BY <1>1 DEF VerifyAgainstReceipt
  <2>2. QED
      BY <1>1, <2>1
<1>5. PICK i \in DOMAIN file : found = file[i] /\ file[i].receipt.run = run
    BY <1>1, FoundReceipt
<1>6. QED
    BY <1>1, <1>2, <1>3, <1>4, <1>5

\* Under the invariant, such a log is the agent's up to an anchored entry.
LEMMA AcceptedFollows == AnchorsInv => AcceptedIsAnchored
<1> SUFFICES ASSUME AnchorsInv, NEW log \in Files, CmdVerify(log, anchors, NoOptions) = "ok"
             PROVE  /\ PrefixOf(log, Log)
                    /\ \E i \in Landed : anchors[i].receipt.entryCount = Len(log)
    BY DEF AcceptedIsAnchored
<1>1. PICK S : logs \in Seq(Seq(S)) /\ lines \in Seq(S)
    BY DEF AnchorsInv, ChainInv, Sequences
<1>2. Log \in Seq(S) /\ Chained(Log)
  <2>0. Len(logs) = 1
      BY DEF AnchorsInv, OneRun
  <2>1. 1 \in 1 .. Len(logs) /\ DOMAIN logs = 1 .. Len(logs)
      BY <1>1, <2>0, LenProperties
  <2>2. logs[1] \in Seq(S)
      BY <1>1, <2>1, ElementOfSeq
  <2>3. QED
      BY <2>0, <2>1, <2>2 DEF AnchorsInv, ChainInv, Log
<1>3. PICK A : anchors \in Seq(A)
    BY DEF AnchorsInv, LinesInv
<1>4. /\ \A i \in DOMAIN log : log[i] # Malformed
      /\ \A i \in DOMAIN anchors : anchors[i] # Malformed
      /\ Sound(log)
    BY <1>3, VerifiedLog
<1>5. PICK i \in DOMAIN anchors :
          /\ anchors[i].receipt.run = Summarize(log).run
          /\ anchors[i].receipt.head = PrevHash(log, Len(log) + 1)
    BY <1>3, VerifiedLog
<1>6. IsSequence(log) /\ \A j \in DOMAIN log : IsEntry(log[j])
    BY <1>4, FilesAssumption
<1>7. Len(log) \in Nat /\ DOMAIN log = 1 .. Len(log)
    BY <1>6 DEF IsSequence
<1>8. Summarize(log).run = IF Len(log) = 0 THEN "" ELSE Run
  <2>1. CASE Len(log) = 0
    <3>1. log = <<>>
        BY <1>6, <2>1 DEF IsSequence
    <3>2. QED
        BY <2>1, <3>1, SummarySays
  <2>2. CASE Len(log) # 0
    <3>1. log # <<>> /\ Len(log) \in DOMAIN log
        BY <1>7, <2>2
    <3>2. log[Len(log)].payload.run = Run
        BY <1>6, <3>1 DEF IsEntry
    <3>3. QED
        BY <2>2, <3>1, <3>2, SummarySays DEF Last
  <2>3. QED
      BY <2>1, <2>2
<1>9. anchors[i] # Malformed /\ anchors[i].by # None /\ Counts(anchors[i].receipt, Log)
  <2>1. anchors[i].receipt.run \in {"", Run}
      BY <1>5, <1>8
  <2>2. QED
      BY <1>4, <2>1 DEF AnchorsInv, LinesInv
<1>10. i \in Landed
    BY <1>9 DEF Landed
<1> DEFINE n == anchors[i].receipt.entryCount
<1>11. n \in 0 .. Len(Log) /\ Len(Log) \in Nat /\ DOMAIN Log = 1 .. Len(Log)
  <2>1. Len(Log) \in Nat /\ DOMAIN Log = 1 .. Len(Log)
      BY <1>2, LenProperties
  <2>2. QED
      BY <1>9, <2>1, Zenon DEF Counts
<1>12. Len(log) = 0 <=> n = 0
  <2>1. Run # ""
      BY FilesAssumption
  <2>2. QED
      BY <1>5, <1>8, <1>9, <2>1, Zenon DEF Counts
<1>13. CASE n = 0
  <2>1. Len(log) = 0
      BY <1>12, <1>13
  <2>2. PrefixOf(log, Log)
      BY <1>7, <1>11, <2>1 DEF PrefixOf
  <2>3. QED
      BY <1>10, <1>13, <2>1, <2>2
<1>14. CASE n # 0
  <2>1. Len(log) >= 1 /\ n \in DOMAIN Log
      BY <1>7, <1>11, <1>12, <1>14
  <2>2. log[Len(log)].hash = Log[n].hash
    <3>1. anchors[i].receipt.head = Log[n].hash
      <4>1. anchors[i].receipt.head = PrevHash(Log, n + 1)
          BY <1>9, Zenon DEF Counts
      <4>2. n + 1 # 1 /\ (n + 1) - 1 = n
          BY <1>11, <1>14
      <4>3. QED
          BY <4>1, <4>2 DEF PrevHash
    <3>2. PrevHash(log, Len(log) + 1) = log[Len(log)].hash
        BY <1>7, <2>1 DEF PrevHash
    <3>3. QED
        BY <1>5, <3>1, <3>2
  <2>3. Len(log) = n /\ PrefixOf(log, Log)
      BY <1>2, <1>4, <1>6, <2>1, <2>2, SameHeadSameChain
  <2>4. QED
      BY <1>10, <2>3
<1>15. QED
    BY <1>13, <1>14

-----------------------------------------------------------------------------
LEMMA AnchorsInitially == AnchorsInit => AnchorsInv
<1> SUFFICES ASSUME AnchorsInit
             PROVE  AnchorsInv
    OBVIOUS
<1>1. ChainInv
    BY ChainInit DEF AnchorsInit
<1>2. OneRun
  <2>1. Len(logs) = 1 /\ Log = <<>>
      BY DEF AnchorsInit, Init, Log
  <2>2. QED
      BY <2>1 DEF OneRun
<1>3. JobsInv
  <2>1. job = [k \in Commands |-> None] /\ stage = [k \in Commands |-> "idle"]
      BY DEF AnchorsInit
  <2>2. DOMAIN job = Commands /\ DOMAIN stage = Commands
      BY <2>1
  <2>3. \A k \in Commands : stage[k] = "idle"
      BY <2>1
  <2>4. QED
      BY <2>2, <2>3 DEF JobsInv, Underway
<1>4. LinesInv
  <2> DEFINE line(i) == AnchorLine(OtherRuns[i], None, None)
             S == {line(i) : i \in DOMAIN OtherRuns}
  <2>1. anchors = [i \in DOMAIN OtherRuns |-> line(i)] /\ torn = FALSE
      BY DEF AnchorsInit
  <2>2. Len(OtherRuns) \in Nat /\ DOMAIN OtherRuns = 1 .. Len(OtherRuns)
      BY FilesAssumption DEF IsSequence
  <2>3. \A i \in DOMAIN OtherRuns : line(i).by = None /\ line(i).receipt.run \notin {"", Run}
      BY FilesAssumption DEF AnchorLine
  <2> HIDE DEF line
  <2>4. anchors \in Seq(S)
      BY <2>1, <2>2
  <2>5. QED
      BY <2>1, <2>3, <2>4 DEF LinesInv
<1>5. QED
    BY <1>1, <1>2, <1>3, <1>4 DEF AnchorsInv

\* The agent's next entry extends the log and changes nothing in it.
LEMMA AgentLog ==
    ASSUME AnchorsInv, NEW kind \in Kinds, Record(Entry(kind))
    PROVE  /\ Len(logs') = 1
           /\ \E S : Log \in Seq(S) /\ Log' \in Seq(S)
           /\ Len(Log) \in Nat /\ Len(Log') = Len(Log) + 1
           /\ DOMAIN Log = 1 .. Len(Log) /\ DOMAIN Log' = 1 .. Len(Log) + 1
           /\ Log'[Len(Log) + 1].payload = Entry(kind)
           /\ \A i \in DOMAIN Log : Log'[i] = Log[i]
<1> DEFINE payload == Entry(kind)
           entry == Sealed(Len(Log) + 1, payload, last)
<1>1. entry.payload = payload
    BY DEF Sealed
<1> HIDE DEF payload
<1>2. PICK S : logs \in Seq(Seq(S)) /\ lines \in Seq(S)
    BY DEF AnchorsInv, ChainInv, Sequences
<1>3. Len(logs) = 1
    BY DEF AnchorsInv, OneRun
<1>4. DOMAIN logs = {1} /\ logs[1] \in Seq(S) /\ Log = logs[1]
  <2>1. DOMAIN logs = 1 .. Len(logs) /\ 1 \in 1 .. Len(logs)
      BY <1>2, <1>3, LenProperties
  <2>2. logs[1] \in Seq(S)
      BY <1>2, <2>1, ElementOfSeq
  <2>3. QED
      BY <1>3, <2>1, <2>2 DEF Log
<1>5. logs' = [logs EXCEPT ![1] = Append(Log, entry)]
    BY <1>3 DEF Record, Log, payload
<1>6. Len(logs') = 1 /\ Log' = Append(Log, entry)
  <2> DEFINE longer == Append(Log, entry)
             T == Seq(S) \cup {longer}
  <2>1. logs \in Seq(T) /\ longer \in T
      BY <1>2, SeqMonotonic
  <2> HIDE DEF longer, T
  <2>2. logs' = [logs EXCEPT ![1] = longer]
      BY <1>5 DEF longer
  <2>3. Len(logs') = 1 /\ logs'[1] = longer
      BY <1>3, <1>4, <2>1, <2>2
  <2>4. QED
      BY <2>3 DEF Log, longer
<1> HIDE DEF entry
<1>7. Log \in Seq(S \cup {entry}) /\ Log' \in Seq(S \cup {entry})
  <2>1. Log \in Seq(S \cup {entry})
      BY <1>4, SeqMonotonic
  <2>2. QED
      BY <1>6, <2>1
<1>8. /\ Len(Log) \in Nat /\ Len(Log') = Len(Log) + 1
      /\ DOMAIN Log = 1 .. Len(Log) /\ DOMAIN Log' = 1 .. Len(Log) + 1
      /\ Log'[Len(Log) + 1] = entry
      /\ \A i \in DOMAIN Log : Log'[i] = Log[i]
    BY <1>6, <1>7
<1>9. QED
    BY <1>1, <1>6, <1>7, <1>8 DEF payload

\* The agent's step preserves the invariant.
LEMMA AgentStep ==
    ASSUME AnchorsInv, AgentRecords
    PROVE  AnchorsInv'
<1>1. PICK kind \in Kinds : Record(Entry(kind))
    BY DEF AgentRecords
<1>2. ChainInv'
    BY <1>1, RecordStep DEF AnchorsInv
<1>3. PICK S : Log \in Seq(S) /\ Log' \in Seq(S)
    BY <1>1, AgentLog
<1>4. /\ Len(logs') = 1 /\ Len(Log) \in Nat /\ Len(Log') = Len(Log) + 1
      /\ DOMAIN Log = 1 .. Len(Log) /\ DOMAIN Log' = 1 .. Len(Log) + 1
      /\ Log'[Len(Log) + 1].payload = Entry(kind)
      /\ \A i \in DOMAIN Log : Log'[i] = Log[i]
    BY <1>1, AgentLog
<1>5. Entry(kind).run = Run
    BY DEF Entry
<1>6. OneRun'
  <2>1. \A i \in DOMAIN Log : Log[i].payload.run = Run
      BY DEF AnchorsInv, OneRun
  <2>2. ASSUME NEW i \in DOMAIN Log'
        PROVE  Log'[i].payload.run = Run
    <3>1. i \in DOMAIN Log \/ i = Len(Log) + 1
        BY <1>4
    <3>2. QED
        BY <1>4, <1>5, <2>1, <3>1
  <2>3. QED
      BY <1>4, <2>2 DEF OneRun
<1>7. \A receipt : Counts(receipt, Log) => Counts(receipt, Log')
  <2>1. Len(Log) <= Len(Log')
      BY <1>4
  <2>2. QED
      BY <1>3, <1>4, <2>1, CountsKept
<1>8. UNCHANGED <<stage, job, anchors, torn>>
    BY DEF AgentRecords, anchorVars
<1>9. JobsInv' /\ LinesInv'
    BY <1>7, <1>8 DEF AnchorsInv, JobsInv, LinesInv
<1>10. QED
    BY <1>2, <1>6, <1>9 DEF AnchorsInv

\* Nothing but the agent changes the log.
LEMMA LogKept ==
    ASSUME ChainInv, OneRun, UNCHANGED vars
    PROVE  ChainInv' /\ OneRun' /\ Log' = Log
BY DEF ChainInv, Sequences, Log, FromLogs, OneRun, vars

\* A line that is appended, or a part of it, is the only one that is new.
LEMMA AppendStep ==
    ASSUME JobsInv, LinesInv, Log' = Log, UNCHANGED job,
           NEW k \in Commands, NEW line, AppendAnchor(k, line),
           line.by = k, Counts(line.receipt, Log)
    PROVE  JobsInv' /\ LinesInv'
<1> DEFINE content(c) ==
               IF torn THEN [anchors EXCEPT ![Len(anchors)] = Malformed] ELSE Append(anchors, c)
           holds(i, lns) == lns[i] # Malformed =>
               IF lns[i].by = None THEN lns[i].receipt.run \notin {"", Run}
               ELSE Counts(lns[i].receipt, Log)
<1>1. PICK S : anchors \in Seq(S)
    BY DEF LinesInv
<1>2. k # None
    BY FilesAssumption
<1>3. ASSUME NEW c \in {line, Malformed}
      PROVE  /\ content(c) \in Seq(S \cup {line, Malformed}) /\ content(c) # <<>>
             /\ \A i \in DOMAIN content(c) : holds(i, content(c))
  <2>1. anchors \in Seq(S \cup {line, Malformed})
      BY <1>1, SeqMonotonic
  <2>2. CASE torn
    <3>1. anchors # <<>> /\ content(c) = [anchors EXCEPT ![Len(anchors)] = Malformed]
        BY <2>2 DEF LinesInv
    <3>2. /\ content(c) \in Seq(S \cup {line, Malformed}) /\ content(c) # <<>>
          /\ DOMAIN content(c) = DOMAIN anchors
          /\ \A i \in DOMAIN anchors : content(c)[i] = Malformed \/ content(c)[i] = anchors[i]
        BY <2>1, <3>1
    <3> HIDE DEF content
    <3>3. QED
        BY <3>2, Zenon DEF LinesInv
  <2>3. CASE ~torn
    <3>1. content(c) = Append(anchors, c)
        BY <2>3
    <3> HIDE DEF content
    <3>2. /\ content(c) \in Seq(S \cup {line, Malformed}) /\ content(c) # <<>>
          /\ \A i \in DOMAIN content(c) :
                 \/ content(c)[i] = c
                 \/ i \in DOMAIN anchors /\ content(c)[i] = anchors[i]
        BY <2>1, <3>1
    <3>3. c # Malformed => c.by # None /\ Counts(c.receipt, Log)
        BY <1>2
    <3>4. QED
        BY <3>2, <3>3, Zenon DEF LinesInv
  <2>4. QED
      BY <2>2, <2>3
<1>4. \/ stage' = [stage EXCEPT ![k] = "anchored"] /\ anchors' = content(line) /\ torn' = FALSE
      \/ /\ stage' = [stage EXCEPT ![k] = "failed"]
         /\ \/ UNCHANGED <<anchors, torn>>
            \/ (anchors' = content(line) \/ anchors' = content(Malformed)) /\ torn' = TRUE
    BY DEF AppendAnchor
<1> HIDE DEF content
<1>5. UNCHANGED <<anchors, torn>> \/ \E c \in {line, Malformed} : anchors' = content(c)
    BY <1>4
<1>6. LinesInv'
  <2>1. CASE UNCHANGED <<anchors, torn>>
      BY <2>1 DEF LinesInv
  <2>2. ASSUME NEW c \in {line, Malformed}, anchors' = content(c)
        PROVE  LinesInv'
      BY <1>3, <2>2 DEF LinesInv
  <2>3. QED
      BY <1>5, <2>1, <2>2
<1>7. JobsInv'
  <2>1. DOMAIN stage = Commands
      BY DEF JobsInv
  <2>2. /\ DOMAIN stage' = Commands
        /\ \A j \in Commands : stage'[j] \in Underway => stage[j] \in Underway
      BY <1>4, <2>1 DEF Underway
  <2>3. QED
      BY <2>2 DEF JobsInv
<1>8. QED
    BY <1>6, <1>7

\* Every step of a command preserves the invariant.
LEMMA CommandStep ==
    ASSUME AnchorsInv, NEW k \in Commands,
           \/ Refused(k) \/ TakeReceipt(k) \/ AppendReceipt(k) \/ StartAnchor(k)
           \/ StampArrives(k) \/ StampFails(k) \/ StampTimesOut(k)
    PROVE  AnchorsInv'
<1>1. UNCHANGED vars
    BY DEF Refused, TakeReceipt, AppendReceipt, StartAnchor, StampArrives, StampFails,
           StampTimesOut
<1>2. ChainInv' /\ OneRun' /\ Log' = Log
    BY <1>1, LogKept DEF AnchorsInv
<1>3. JobsInv /\ LinesInv
    BY DEF AnchorsInv
<1>4. ASSUME UNCHANGED <<job, anchors, torn>>, stage' = [stage EXCEPT ![k] = "refused"]
                 \/ stage' = [stage EXCEPT ![k] = "failed"]
      PROVE  JobsInv' /\ LinesInv'
  <2>1. DOMAIN stage = Commands
      BY <1>3 DEF JobsInv
  <2>2. /\ DOMAIN stage' = Commands
        /\ \A j \in Commands : stage'[j] \in Underway => stage[j] \in Underway
      BY <1>4, <2>1 DEF Underway
  <2>3. QED
      BY <1>2, <1>3, <1>4, <2>2 DEF JobsInv, LinesInv
<1>5. ASSUME Refused(k) \/ StampFails(k) \/ StampTimesOut(k)
      PROVE  JobsInv' /\ LinesInv'
    BY <1>4, <1>5 DEF Refused, StampFails, StampTimesOut, Becomes
<1>6. ASSUME AppendReceipt(k)
      PROVE  JobsInv' /\ LinesInv'
  <2> DEFINE line == AnchorLine(job[k].receipt, k, None)
  <2>1. stage[k] = "writing" /\ AppendAnchor(k, line) /\ UNCHANGED job
      BY <1>6 DEF AppendReceipt
  <2>2. line.by = k /\ line.receipt = job[k].receipt
      BY DEF AnchorLine
  <2>3. Counts(line.receipt, Log)
      BY <1>3, <2>1, <2>2 DEF JobsInv, Underway
  <2> HIDE DEF line
  <2>4. QED
      BY <1>2, <1>3, <2>1, <2>2, <2>3, AppendStep
<1>7. ASSUME TakeReceipt(k) \/ StartAnchor(k)
      PROVE  JobsInv' /\ LinesInv'
  <2>1. PICK s \in Underway, since \in {None, now} :
            /\ VerifyFile(lines).ok /\ UNCHANGED <<anchors, torn>>
            /\ stage' = [stage EXCEPT ![k] = s]
            /\ job' = [job EXCEPT ![k] = [receipt |-> Summarize(lines), since |-> since]]
      BY <1>7 DEF TakeReceipt, StartAnchor, Becomes, Underway
  <2> DEFINE mine == [receipt |-> Summarize(lines), since |-> since]
  <2>2. mine.receipt = Summarize(lines)
      OBVIOUS
  <2>3. Counts(mine.receipt, Log)
      BY <2>1, <2>2, SummaryCounts DEF AnchorsInv
  <2>4. job' = [job EXCEPT ![k] = mine]
      BY <2>1
  <2> HIDE DEF mine
  <2>5. DOMAIN job = Commands /\ DOMAIN stage = Commands
      BY <1>3 DEF JobsInv
  <2>6. /\ DOMAIN job' = Commands /\ job'[k] = mine
        /\ \A j \in Commands \ {k} : job'[j] = job[j]
      BY <2>4, <2>5
  <2>7. /\ DOMAIN stage' = Commands
        /\ \A j \in Commands \ {k} : stage'[j] = stage[j]
      BY <2>1, <2>5
  <2>8. JobsInv'
      BY <1>2, <1>3, <2>3, <2>6, <2>7 DEF JobsInv
  <2>9. LinesInv'
      BY <1>2, <1>3, <2>1 DEF LinesInv
  <2>10. QED
      BY <2>8, <2>9
<1>8. ASSUME StampArrives(k)
      PROVE  JobsInv' /\ LinesInv'
  <2>1. stage[k] = "stamping" /\ UNCHANGED job
      BY <1>8 DEF StampArrives
  <2>2. \/ \E token : AppendAnchor(k, AnchorLine(job[k].receipt, k, token))
        \/ Becomes(k, "stamping", "failed") /\ UNCHANGED <<anchors, torn>>
      BY <1>8 DEF StampArrives
  <2>3. Counts(job[k].receipt, Log)
      BY <1>3, <2>1 DEF JobsInv, Underway
  <2>4. ASSUME NEW token, AppendAnchor(k, AnchorLine(job[k].receipt, k, token))
        PROVE  JobsInv' /\ LinesInv'
    <3> DEFINE line == AnchorLine(job[k].receipt, k, token)
    <3>1. line.by = k /\ line.receipt = job[k].receipt
        BY DEF AnchorLine
    <3>2. AppendAnchor(k, line) /\ Counts(line.receipt, Log)
        BY <2>3, <2>4, <3>1
    <3> HIDE DEF line
    <3>3. QED
        BY <1>2, <1>3, <2>1, <3>1, <3>2, AppendStep
  <2>5. CASE Becomes(k, "stamping", "failed") /\ UNCHANGED <<anchors, torn>>
      BY <1>4, <2>1, <2>5 DEF Becomes
  <2>6. QED
      BY <2>2, <2>4, <2>5
<1>9. JobsInv' /\ LinesInv'
    BY <1>5, <1>6, <1>7, <1>8
<1>10. QED
    BY <1>2, <1>9 DEF AnchorsInv

\* The clock, and steps of nobody, change nothing that the invariant is about.
LEMMA QuietStep ==
    ASSUME AnchorsInv, Tick \/ UNCHANGED allVars
    PROVE  AnchorsInv'
<1>1. UNCHANGED <<vars, stage, job, anchors, torn>>
    BY DEF Tick, allVars, anchorVars
<1>2. ChainInv' /\ OneRun' /\ Log' = Log
    BY <1>1, LogKept DEF AnchorsInv
<1>3. QED
    BY <1>1, <1>2 DEF AnchorsInv, JobsInv, LinesInv

\* `verify --against` passes no log but one that the agent recorded and that an
\* anchor counted to its last entry, whatever was recorded, anchored, lost or
\* torn in the meantime.
THEOREM AcceptedWasAnchored == AnchorsSpec => []AcceptedIsAnchored
<1>1. AnchorsInv /\ [AnchorsNext]_allVars => AnchorsInv'
    BY AgentStep, CommandStep, QuietStep DEF AnchorsNext
<1>2. QED
    BY AnchorsInitially, <1>1, AcceptedFollows, PTL DEF AnchorsSpec

-----------------------------------------------------------------------------
(*                    What has landed goes on verifying                    *)

\* The command has asked for a timestamp of the log as it was: no later than the
\* request, and whose receipt quotes the time of its last entry.
Requested(k) ==
    LET receipt == job[k].receipt
    IN  /\ job[k].since \in 0 .. now
        /\ Counts(receipt, Log)
        /\ IF receipt.entryCount = 0 THEN receipt.to = None
           ELSE /\ receipt.to = Log[receipt.entryCount].payload.at
                /\ receipt.to <= job[k].since

\* What was signed was signed while command k waited for it.
SignedInTime(k, info) ==
    LET time == info.genTime - skew
    IN  /\ info.genTime \in Int /\ job[k].since \in Nat
        /\ time \in job[k].since .. now /\ time <= job[k].since + Timeout

\* Entries carry times that have been.
ClockInv ==
    /\ now \in Nat /\ skew \in Int /\ -Tolerance <= skew
    /\ \A i \in DOMAIN Log : Log[i].payload.at \in 0 .. now

RequestsInv ==
    \A k \in Commands :
        /\ stage[k] = "writing" => job[k].since = None
        /\ stage[k] = "stamping" => Requested(k)

Token(info, attrs, certificates, signature) ==
    [info |-> info, attrs |-> attrs, certificates |-> certificates, signature |-> signature]

\* A nonce is one command's: what was signed under it was signed for its request.
Issued(token) ==
    /\ token = Token(token.info, token.attrs, token.certificates, token.signature)
    /\ token.info.nonce \in Commands /\ stage[token.info.nonce] # "idle"
    /\ SignedInTime(token.info.nonce, token.info)

IssuedInv == \A token \in issued : Issued(token)

\* The line holds the receipt its command made, under a token that verifies.
Stamped(line) ==
    /\ Requested(line.by)
    /\ line = AnchorLine(job[line.by].receipt, line.by, line.timestamp)
    /\ line.timestamp # None
    /\ VerifyTimestamp(line.timestamp, line.receipt.head, roots, Commands)
    /\ SignedInTime(line.by, line.timestamp.info)

LandedLines == {anchors[i] : i \in Landed}

\* It was written by a command, under a token if one was asked for.
Written(line) ==
    /\ line.by \in Commands /\ stage[line.by] # "idle"
    /\ job[line.by].since # None => Stamped(line)

WrittenInv == \A line \in LandedLines : Written(line)

TimesInv == ClockInv /\ RequestsInv /\ IssuedInv /\ WrittenInv

\* None stands for null: it is neither a line of the anchor file nor a token.
NoneIsNoRecord ==
    /\ \A receipt, command, timestamp : AnchorLine(receipt, command, timestamp) # None
    /\ \A info, attrs, certificates, signature :
           Token(info, attrs, certificates, signature) # None

\* A token that is accepted under one nonce is accepted under any of its set.
LEMMA MoreNonces ==
    ASSUME NEW token, NEW head, NEW trusted, NEW few, NEW many, few \subseteq many,
           VerifyTimestamp(token, head, trusted, few)
    PROVE  VerifyTimestamp(token, head, trusted, many)
BY Zenon DEF VerifyTimestamp

\* What a token that verifies was signed over is what it says.
LEMMA SignedIsSaid ==
    ASSUME NEW token, NEW head, NEW trusted, NEW nonces, NEW key, NEW info,
           VerifyTimestamp(token, head, trusted, nonces)
    PROVE  /\ token.info.nonce \in nonces
           /\ token.attrs = Digest(info) => token.info = info
           /\ token.signature = Signature(key, Digest(info)) => token.info = info
<1>1. /\ token.info.nonce \in nonces
      /\ token.attrs = Digest(token.info)
      /\ \E other : token.signature = Signature(other, token.attrs)
    BY Zenon DEF VerifyTimestamp
<1>2. \A a, b : Digest(a) = Digest(b) => a = b
    BY DEF Digest
<1>3. \A a, b, c, d : Signature(a, b) = Signature(c, d) => b = d
  <2>1. \A a, b : Signature(a, b).over = b
      BY DEF Signature
  <2>2. QED
      BY <2>1
<1>4. token.signature = Signature(key, Digest(info)) => Digest(info) = token.attrs
    BY <1>1, <1>3
<1>5. QED
    BY <1>1, <1>2, <1>4

\* A changed time shows: the digest or the signature is of what was signed.
LEMMA RedatedShows ==
    ASSUME NEW info, NEW certificates, NEW key, NEW time, NEW token,
           token \in Redated(Token(info, Digest(info), certificates, Signature(key, Digest(info))),
                             time),
           NEW head, NEW trusted, NEW nonces, VerifyTimestamp(token, head, trusted, nonces)
    PROVE  token = Token(token.info, token.attrs, token.certificates, token.signature)
               /\ token.info = info
<1> DEFINE signed == Token(info, Digest(info), certificates, Signature(key, Digest(info)))
           changed == [info EXCEPT !.genTime = time]
<1>1. \/ token = [signed EXCEPT !.info = changed]
      \/ token = [signed EXCEPT !.info = changed, !.attrs = Digest(changed)]
  <2>1. signed.info = info
      BY DEF Token
  <2>2. QED
      BY <2>1 DEF Redated
<1> HIDE DEF changed
<1>2. CASE token = [signed EXCEPT !.info = changed]
  <2>1. token = Token(changed, Digest(info), certificates, Signature(key, Digest(info)))
      BY <1>2 DEF Token
  <2>2. token.attrs = Digest(info)
      BY <2>1 DEF Token
  <2>3. token.info = info
      BY <2>2, SignedIsSaid
  <2>4. QED
      BY <2>1, <2>3 DEF Token
<1>3. CASE token = [signed EXCEPT !.info = changed, !.attrs = Digest(changed)]
  <2>1. token = Token(changed, Digest(changed), certificates, Signature(key, Digest(info)))
      BY <1>3 DEF Token
  <2>2. token.signature = Signature(key, Digest(info))
      BY <2>1 DEF Token
  <2>3. token.info = info
      BY <2>2, SignedIsSaid
  <2>4. QED
      BY <2>1, <2>3 DEF Token
<1>4. QED
    BY <1>1, <1>2, <1>3

\* What the TSA signs for a request carries its nonce and a time in between.
LEMMA SignedToken ==
    ASSUME ClockInv, NEW k \in Commands, Requested(k), now <= job[k].since + Timeout,
           NEW token \in Tokens(k)
    PROVE  \E info, certificates, key :
               /\ token = Token(info, Digest(info), certificates, Signature(key, Digest(info)))
               /\ info.nonce = k /\ SignedInTime(k, info)
<1>1. job[k].since \in Nat /\ now \in Nat /\ skew \in Int /\ Timeout \in Nat
    BY AnchorsAssumption DEF ClockInv, Requested
<1> DEFINE infoOf(time) == [imprint |-> job[k].receipt.head, genTime |-> time + skew, nonce |-> k]
<1>2. PICK time \in job[k].since .. now :
          token = Token(infoOf(time), Digest(infoOf(time)), signer,
                        Signature(Head(signer).key, Digest(infoOf(time))))
    BY DEF Tokens, Token
<1>3. time \in Int /\ job[k].since <= time /\ time <= now
    BY <1>1
<1>4. infoOf(time).genTime = time + skew /\ infoOf(time).nonce = k
    OBVIOUS
<1> HIDE DEF infoOf
<1>5. SignedInTime(k, infoOf(time))
    BY <1>1, <1>3, <1>4 DEF SignedInTime
<1>6. QED
    BY <1>2, <1>4, <1>5

-----------------------------------------------------------------------------
\* A receipt quotes the time of the last entry it counts.
LEMMA SummaryDated ==
    ASSUME ChainInv, OneRun, VerifyFile(lines).ok
    PROVE  LET receipt == Summarize(lines)
           IN  receipt.to = IF receipt.entryCount = 0 THEN None
                            ELSE Log[receipt.entryCount].payload.at
<1>1. PICK S : logs \in Seq(Seq(S)) /\ lines \in Seq(S)
    BY DEF ChainInv, Sequences
<1>2. /\ Summarize(lines).entryCount = Len(lines)
      /\ Summarize(lines).to = IF lines = <<>> THEN None ELSE Last(lines).payload.at
    BY Zenon DEF Summarize
<1>3. CASE lines = <<>>
    BY <1>2, <1>3
<1>4. CASE lines # <<>>
  <2> DEFINE n == Len(lines)
  <2>1. n \in Nat /\ n >= 1 /\ n \in DOMAIN lines /\ SubSeq(lines, 1, n) = lines
      BY <1>1, <1>4
  <2>2. DOMAIN logs = {1} /\ Log = logs[1]
    <3>1. Len(logs) = 1
        BY DEF OneRun
    <3>2. DOMAIN logs = 1 .. 1
        BY <1>1, <3>1, LenProperties
    <3>3. QED
        BY <3>1, <3>2 DEF Log
  <2>3. PrefixOf(lines, Log)
      BY <2>1, <2>2, VerifiedLinesAreOneLog
  <2>4. lines[n] = Log[n]
      BY <2>1, <2>3 DEF PrefixOf
  <2>5. QED
      BY <1>2, <1>4, <2>1, <2>4 DEF Last
<1>5. QED
    BY <1>3, <1>4

\* The log grows, the clock moves on, the settings stay, and a command that is
\* under way keeps what it holds.
Onward ==
    /\ \E S : Log \in Seq(S) /\ Log' \in Seq(S)
    /\ Len(Log) <= Len(Log') /\ \A i \in DOMAIN Log : Log'[i] = Log[i]
    /\ now' \in Nat /\ now <= now'
    /\ UNCHANGED settings
    /\ \A k \in Commands : stage[k] # "idle" => stage'[k] # "idle" /\ job'[k] = job[k]

\* A request stays one, with what was signed for it.
LEMMA RequestKept ==
    ASSUME ClockInv, Onward, NEW k \in Commands, UNCHANGED job[k]
    PROVE  /\ Requested(k) => Requested(k)'
           /\ \A info : SignedInTime(k, info) => SignedInTime(k, info)'
<1>1. now \in Nat /\ now' \in Nat /\ now <= now' /\ UNCHANGED skew
    BY DEF ClockInv, Onward, settings
<1>2. ASSUME Requested(k)
      PROVE  Requested(k)'
  <2> DEFINE receipt == job[k].receipt
             n == receipt.entryCount
  <2>1. PICK S : Log \in Seq(S) /\ Log' \in Seq(S)
      BY DEF Onward
  <2>2. Counts(receipt, Log) /\ job[k].since \in 0 .. now
      BY <1>2 DEF Requested
  <2>3. Counts(receipt, Log')
      BY <2>1, <2>2, CountsKept DEF Onward
  <2>4. n \in 0 .. Len(Log)
      BY <2>2, Zenon DEF Counts
  <2>5. n # 0 => Log'[n] = Log[n]
      BY <2>1, <2>4 DEF Onward
  <2>6. job[k].since \in 0 .. now'
      BY <1>1, <2>2
  <2>7. IF n = 0 THEN receipt.to = None
        ELSE receipt.to = Log[n].payload.at /\ receipt.to <= job[k].since
      BY <1>2 DEF Requested
  <2>8. job'[k] = job[k]
      OBVIOUS
  <2> HIDE DEF n, receipt
  <2>9. QED
      BY <2>3, <2>5, <2>6, <2>7, <2>8 DEF Requested, n, receipt
<1>3. ASSUME NEW info, SignedInTime(k, info)
      PROVE  SignedInTime(k, info)'
    BY <1>1, <1>3 DEF SignedInTime
<1>4. QED
    BY <1>2, <1>3

\* So does what was issued, and what was written.
LEMMA RecordsStay ==
    ASSUME ClockInv, Onward
    PROVE  /\ \A token : Issued(token) => Issued(token)'
           /\ \A line : Written(line) => Written(line)'
<1>1. ASSUME NEW token, Issued(token)
      PROVE  Issued(token)'
  <2> DEFINE k == token.info.nonce
  <2>1. /\ token = Token(token.info, token.attrs, token.certificates, token.signature)
        /\ k \in Commands /\ stage[k] # "idle" /\ SignedInTime(k, token.info)
      BY <1>1 DEF Issued
  <2>2. stage'[k] # "idle" /\ job'[k] = job[k]
      BY <2>1 DEF Onward
  <2> HIDE DEF k
  <2>3. SignedInTime(k, token.info)'
      BY <2>1, <2>2, RequestKept
  <2>4. QED
      BY <2>1, <2>2, <2>3 DEF Issued, k
<1>2. ASSUME NEW line, Written(line)
      PROVE  Written(line)'
  <2> DEFINE k == line.by
  <2>1. k \in Commands /\ stage[k] # "idle"
      BY <1>2 DEF Written
  <2>2. stage'[k] # "idle" /\ job'[k] = job[k] /\ UNCHANGED roots
      BY <2>1 DEF Onward, settings
  <2>3. ASSUME job[k].since # None
        PROVE  Stamped(line)'
    <3>1. Stamped(line)
        BY <1>2, <2>3 DEF Written
    <3>2. /\ Requested(k) /\ line = AnchorLine(job[k].receipt, k, line.timestamp)
          /\ line.timestamp # None
          /\ VerifyTimestamp(line.timestamp, line.receipt.head, roots, Commands)
          /\ SignedInTime(k, line.timestamp.info)
        BY <3>1 DEF Stamped
    <3> HIDE DEF k
    <3>3. Requested(k)' /\ SignedInTime(k, line.timestamp.info)'
        BY <2>1, <2>2, <3>2, RequestKept
    <3>4. QED
        BY <2>2, <3>2, <3>3 DEF Stamped, k
  <2>4. QED
      BY <2>1, <2>2, <2>3 DEF Written
<1>3. QED
    BY <1>1, <1>2

-----------------------------------------------------------------------------
\* What an append may add to the file is the line, whole.
LEMMA AppendLands ==
    ASSUME LinesInv, NEW k \in Commands, NEW line, AppendAnchor(k, line)
    PROVE  /\ stage' = [stage EXCEPT ![k] = "anchored"] \/ stage' = [stage EXCEPT ![k] = "failed"]
           /\ LandedLines' \subseteq LandedLines \cup {line}
<1> DEFINE content(c) ==
               IF torn THEN [anchors EXCEPT ![Len(anchors)] = Malformed] ELSE Append(anchors, c)
<1>1. PICK S : anchors \in Seq(S)
    BY DEF LinesInv
<1>2. ASSUME NEW c \in {line, Malformed}, NEW i \in DOMAIN content(c)
      PROVE  content(c)[i] \in {line, Malformed} \cup {anchors[j] : j \in DOMAIN anchors}
  <2>1. CASE torn
    <3>1. content(c) = [anchors EXCEPT ![Len(anchors)] = Malformed]
        BY <2>1
    <3>2. DOMAIN content(c) = DOMAIN anchors
        BY <3>1
    <3>3. content(c)[i] = Malformed \/ content(c)[i] = anchors[i]
        BY <1>2, <3>1
    <3>4. QED
        BY <1>2, <3>2, <3>3
  <2>2. CASE ~torn
    <3>1. content(c) = Append(anchors, c)
        BY <2>2
    <3>2. content(c)[i] = c \/ (i \in DOMAIN anchors /\ content(c)[i] = anchors[i])
        BY <1>1, <1>2, <3>1
    <3>3. QED
        BY <3>2
  <2>3. QED
      BY <2>1, <2>2
<1>3. /\ stage' = [stage EXCEPT ![k] = "anchored"] \/ stage' = [stage EXCEPT ![k] = "failed"]
      /\ anchors' = anchors \/ \E c \in {line, Malformed} : anchors' = content(c)
    BY DEF AppendAnchor
<1> HIDE DEF content
<1>4. \A i \in DOMAIN anchors' :
          anchors'[i] \in {line, Malformed} \cup {anchors[j] : j \in DOMAIN anchors}
    BY <1>2, <1>3
<1>5. QED
    BY <1>3, <1>4 DEF LandedLines, Landed

\* The receipt that a command makes is of the log as it is now.
LEMMA RequestMade ==
    ASSUME AnchorsInv, ClockInv, Onward, Log' = Log, UNCHANGED now, VerifyFile(lines).ok,
           NEW k \in Commands, job'[k] = [receipt |-> Summarize(lines), since |-> now]
    PROVE  Requested(k)'
<1> DEFINE receipt == Summarize(lines)
           n == receipt.entryCount
<1>1. job'[k].receipt = receipt /\ job'[k].since = now
    OBVIOUS
<1>2. Counts(receipt, Log) /\ receipt.to = IF n = 0 THEN None ELSE Log[n].payload.at
    BY SummaryCounts, SummaryDated DEF AnchorsInv
<1> HIDE DEF receipt
<1>3. n \in 0 .. Len(Log)
    BY <1>2, Zenon DEF Counts
<1>4. now \in Nat /\ now \in 0 .. now
    BY DEF ClockInv
<1>5. n # 0 => Log[n].payload.at <= now
  <2>1. PICK S : Log \in Seq(S)
      BY DEF Onward
  <2>2. n # 0 => n \in DOMAIN Log
      BY <1>3, <2>1
  <2>3. QED
      BY <1>4, <2>2 DEF ClockInv
<1> HIDE DEF n
<1>6. QED
    BY <1>1, <1>2, <1>4, <1>5 DEF Requested, n

\* The agent's process has one log, a sequence.
LEMMA LogIsSequence == AnchorsInv => \E S : Log \in Seq(S) /\ Chained(Log)
<1> SUFFICES ASSUME AnchorsInv
             PROVE  \E S : Log \in Seq(S) /\ Chained(Log)
    OBVIOUS
<1>1. PICK S : logs \in Seq(Seq(S))
    BY DEF AnchorsInv, ChainInv, Sequences
<1>2. Len(logs) = 1
    BY DEF AnchorsInv, OneRun
<1>3. 1 \in 1 .. Len(logs) /\ DOMAIN logs = 1 .. Len(logs)
    BY <1>1, <1>2, LenProperties
<1>4. logs[1] \in Seq(S)
    BY <1>1, <1>3, ElementOfSeq
<1>5. QED
    BY <1>2, <1>3, <1>4 DEF AnchorsInv, ChainInv, Log

\* A step that leaves the log and the clock, and the commands that are not k.
LEMMA CommandOnward ==
    ASSUME AnchorsInv, ClockInv, UNCHANGED <<vars, now, settings>>, NEW k \in Commands,
           \A j \in Commands \ {k} : stage'[j] = stage[j] /\ job'[j] = job[j],
           stage[k] # "idle" => stage'[k] # "idle" /\ job'[k] = job[k]
    PROVE  Onward /\ Log' = Log
<1>1. Log' = Log
    BY LogKept DEF AnchorsInv
<1>2. PICK S : Log \in Seq(S) /\ Len(Log) \in Nat
    BY LogIsSequence, LenProperties
<1>3. QED
    BY <1>1, <1>2 DEF Onward, ClockInv

\* What a command does, and what its answer may be.
LEMMA CommandMoves ==
    ASSUME AnchorsInv, NEW k \in Commands,
           \/ Refused(k) \/ TakeReceipt(k) \/ AppendReceipt(k) \/ StartAnchor(k)
           \/ StampArrives(k) \/ StampFails(k) \/ StampTimesOut(k)
    PROVE  /\ UNCHANGED <<vars, now, settings>>
           /\ DOMAIN stage = Commands /\ DOMAIN job = Commands
           /\ \E s \in {"refused", "anchored", "failed", "writing", "stamping"} :
                  /\ stage' = [stage EXCEPT ![k] = s]
                  /\ (s = "writing" => TakeReceipt(k)) /\ (s = "stamping" => StartAnchor(k))
           /\ UNCHANGED job \/ TakeReceipt(k) \/ StartAnchor(k)
           /\ UNCHANGED issued \/ StampArrives(k)
           /\ UNCHANGED anchors \/ StampArrives(k) \/ AppendReceipt(k)
<1>1. DOMAIN stage = Commands /\ DOMAIN job = Commands /\ LinesInv
    BY DEF AnchorsInv, JobsInv
<1>2. UNCHANGED <<vars, now, settings>>
    BY DEF Refused, TakeReceipt, AppendReceipt, StartAnchor, StampArrives, StampFails,
           StampTimesOut
<1>3. /\ UNCHANGED job \/ TakeReceipt(k) \/ StartAnchor(k)
      /\ UNCHANGED issued \/ StampArrives(k)
      /\ UNCHANGED anchors \/ StampArrives(k) \/ AppendReceipt(k)
    BY DEF Refused, TakeReceipt, AppendReceipt, StartAnchor, StampArrives, StampFails,
           StampTimesOut
<1>4. ASSUME NEW line, AppendAnchor(k, line)
      PROVE  \E s \in {"anchored", "failed"} : stage' = [stage EXCEPT ![k] = s]
    BY <1>1, <1>4, AppendLands
<1>5. \/ \E line : AppendAnchor(k, line)
      \/ stage' = [stage EXCEPT ![k] = "refused"]
      \/ stage' = [stage EXCEPT ![k] = "failed"]
      \/ stage' = [stage EXCEPT ![k] = "writing"] /\ TakeReceipt(k)
      \/ stage' = [stage EXCEPT ![k] = "stamping"] /\ StartAnchor(k)
  <2>1. AppendReceipt(k) => \E line : AppendAnchor(k, line)
      BY DEF AppendReceipt
  <2>2. StampArrives(k) => (\E line : AppendAnchor(k, line))
                               \/ stage' = [stage EXCEPT ![k] = "failed"]
      BY DEF StampArrives, Becomes
  <2>3. QED
      BY <2>1, <2>2 DEF Refused, TakeReceipt, StartAnchor, StampFails, StampTimesOut, Becomes
<1>6. QED
    BY <1>1, <1>2, <1>3, <1>4, <1>5

\* A token that is accepted for a request was signed for it, in time.
LEMMA AcceptedInTime ==
    ASSUME TimesInv, NoneIsNoRecord, NEW k \in Commands, stage[k] = "stamping",
           now <= job[k].since + Timeout, NEW signed \in Tokens(k),
           NEW token \in issued \cup {signed} \cup Redated(signed, now),
           NEW head, VerifyTimestamp(token, head, roots, {k})
    PROVE  token # None /\ SignedInTime(k, token.info)
<1>1. Requested(k) /\ ClockInv
    BY DEF TimesInv, RequestsInv
<1>2. PICK info, certificates, key :
          /\ signed = Token(info, Digest(info), certificates, Signature(key, Digest(info)))
          /\ info.nonce = k /\ SignedInTime(k, info)
    BY <1>1, SignedToken
<1>3. token.info.nonce = k
    BY SignedIsSaid
<1>4. CASE token \in issued
  <2>1. Issued(token)
      BY <1>4 DEF TimesInv, IssuedInv
  <2>2. /\ token = Token(token.info, token.attrs, token.certificates, token.signature)
        /\ SignedInTime(k, token.info)
      BY <1>3, <2>1 DEF Issued
  <2>3. token # None
      BY <2>2, Zenon DEF NoneIsNoRecord
  <2>4. QED
      BY <2>2, <2>3
<1>5. CASE token = signed
  <2>1. token.info = info
      BY <1>2, <1>5 DEF Token
  <2>2. QED
      BY <1>2, <1>5, <2>1, Zenon DEF NoneIsNoRecord
<1>6. CASE token \in Redated(signed, now)
  <2>1. /\ token = Token(token.info, token.attrs, token.certificates, token.signature)
        /\ token.info = info
      BY <1>2, <1>6, RedatedShows
  <2>2. QED
      BY <1>2, <2>1, Zenon DEF NoneIsNoRecord
<1>7. QED
    BY <1>4, <1>5, <1>6

\* A command's step keeps the times.
LEMMA CommandTimes ==
    ASSUME AnchorsInv, TimesInv, NoneIsNoRecord, NEW k \in Commands,
           \/ Refused(k) \/ TakeReceipt(k) \/ AppendReceipt(k) \/ StartAnchor(k)
           \/ StampArrives(k) \/ StampFails(k) \/ StampTimesOut(k)
    PROVE  TimesInv'
<1>1. ClockInv /\ RequestsInv /\ IssuedInv /\ WrittenInv /\ LinesInv
    BY DEF TimesInv, AnchorsInv
<1>2. PICK s \in {"refused", "anchored", "failed", "writing", "stamping"} :
          /\ stage' = [stage EXCEPT ![k] = s]
          /\ (s = "writing" => TakeReceipt(k)) /\ (s = "stamping" => StartAnchor(k))
    BY CommandMoves
<1>3. /\ UNCHANGED <<vars, now, settings>>
      /\ DOMAIN stage = Commands /\ DOMAIN job = Commands
      /\ UNCHANGED job \/ TakeReceipt(k) \/ StartAnchor(k)
      /\ UNCHANGED issued \/ StampArrives(k)
      /\ UNCHANGED anchors \/ StampArrives(k) \/ AppendReceipt(k)
    BY CommandMoves
<1>4. /\ TakeReceipt(k) \/ StartAnchor(k) => stage[k] = "idle" /\ VerifyFile(lines).ok
      /\ TakeReceipt(k) => job' = [job EXCEPT ![k] = [receipt |-> Summarize(lines), since |-> None]]
      /\ StartAnchor(k) => job' = [job EXCEPT ![k] = [receipt |-> Summarize(lines), since |-> now]]
    BY DEF TakeReceipt, StartAnchor, Becomes
<1>5. /\ stage'[k] = s /\ \A j \in Commands \ {k} : stage'[j] = stage[j] /\ job'[j] = job[j]
      /\ stage[k] # "idle" => UNCHANGED job
    BY <1>2, <1>3, <1>4
<1>6. Onward /\ Log' = Log
    BY <1>1, <1>2, <1>3, <1>5, CommandOnward
<1>7. ClockInv'
    BY <1>1, <1>3, <1>6 DEF ClockInv, settings
<1>8. RequestsInv'
  <2>1. ASSUME NEW j \in Commands \ {k}
        PROVE  /\ stage'[j] = "writing" => job'[j].since = None
               /\ stage'[j] = "stamping" => Requested(j)'
    <3>1. /\ stage'[j] = stage[j] /\ job'[j] = job[j]
          /\ stage[j] = "writing" => job[j].since = None
          /\ stage[j] = "stamping" => Requested(j)
        BY <1>1, <1>5 DEF RequestsInv
    <3>2. QED
        BY <1>1, <1>6, <3>1, RequestKept
  <2>2. stage'[k] = "writing" => job'[k].since = None
      BY <1>2, <1>3, <1>4, <1>5
  <2>3. ASSUME stage'[k] = "stamping"
        PROVE  Requested(k)'
    <3>1. StartAnchor(k)
        BY <1>2, <1>5, <2>3
    <3>2. job'[k] = [receipt |-> Summarize(lines), since |-> now]
        BY <1>3, <1>4, <3>1
    <3>3. QED
        BY <1>1, <1>3, <1>4, <1>6, <3>1, <3>2, RequestMade
  <2>4. QED
      BY <2>1, <2>2, <2>3 DEF RequestsInv
<1>9. /\ \A token \in issued : Issued(token)'
      /\ \A line \in LandedLines : Written(line)'
    BY <1>1, <1>6, RecordsStay DEF IssuedInv, WrittenInv
<1>10. ASSUME NEW signed \in Tokens(k), StampArrives(k)
       PROVE  Issued(signed)'
  <2>1. stage[k] = "stamping" /\ now <= job[k].since + Timeout /\ UNCHANGED job
      BY <1>10 DEF StampArrives
  <2>2. Requested(k)
      BY <1>1, <2>1 DEF RequestsInv
  <2>3. PICK info, certificates, key :
            /\ signed = Token(info, Digest(info), certificates, Signature(key, Digest(info)))
            /\ info.nonce = k /\ SignedInTime(k, info)
      BY <1>1, <2>1, <2>2, SignedToken
  <2>4. signed.info = info /\ signed = Token(signed.info, signed.attrs, signed.certificates,
                                            signed.signature)
      BY <2>3 DEF Token
  <2>5. Issued(signed)
      BY <2>1, <2>3, <2>4 DEF Issued
  <2>6. QED
      BY <1>1, <1>6, <2>5, RecordsStay
<1>11. IssuedInv'
  <2>1. CASE UNCHANGED issued
      BY <1>9, <2>1 DEF IssuedInv
  <2>2. ASSUME StampArrives(k)
        PROVE  IssuedInv'
    <3>1. PICK signed \in Tokens(k) : issued' = issued \cup {signed}
        BY <2>2 DEF StampArrives
    <3>2. QED
        BY <1>9, <1>10, <2>2, <3>1 DEF IssuedInv
  <2>3. QED
      BY <1>3, <2>1, <2>2
<1>12. ASSUME NEW line, LandedLines' \subseteq LandedLines \cup {line}, Written(line)'
       PROVE  WrittenInv'
    BY <1>9, <1>12 DEF WrittenInv
<1>13. ASSUME UNCHANGED anchors
       PROVE  WrittenInv'
  <2>1. LandedLines' = LandedLines
      BY <1>13 DEF LandedLines, Landed
  <2>2. QED
      BY <1>9, <2>1 DEF WrittenInv
<1>14. ASSUME AppendReceipt(k)
       PROVE  WrittenInv'
  <2>1. PICK line : line = AnchorLine(job[k].receipt, k, None)
      OBVIOUS
  <2>2. line.by = k
      BY <2>1 DEF AnchorLine
  <2>3. stage[k] = "writing" /\ AppendAnchor(k, line) /\ UNCHANGED job
      BY <1>14, <2>1 DEF AppendReceipt
  <2>4. job'[k].since = None /\ stage'[k] # "idle"
      BY <1>1, <1>2, <1>5, <2>3 DEF RequestsInv
  <2>5. Written(line)'
      BY <2>2, <2>4 DEF Written
  <2>6. LandedLines' \subseteq LandedLines \cup {line}
      BY <1>1, <2>3, AppendLands
  <2>7. QED
      BY <1>12, <2>5, <2>6
<1>15. ASSUME StampArrives(k)
       PROVE  WrittenInv'
  <2>1. stage[k] = "stamping" /\ now <= job[k].since + Timeout /\ UNCHANGED job
      BY <1>15 DEF StampArrives
  <2>2. PICK signed \in Tokens(k) :
            /\ issued' = issued \cup {signed}
            /\ \E token \in issued' \cup Redated(signed, now) :
                   IF VerifyTimestamp(token, job[k].receipt.head, roots, {k})
                   THEN AppendAnchor(k, AnchorLine(job[k].receipt, k, token))
                   ELSE Becomes(k, "stamping", "failed") /\ UNCHANGED <<anchors, torn>>
      BY <1>15 DEF StampArrives
  <2>3. ASSUME NEW token \in issued \cup {signed} \cup Redated(signed, now),
               VerifyTimestamp(token, job[k].receipt.head, roots, {k}),
               AppendAnchor(k, AnchorLine(job[k].receipt, k, token))
        PROVE  WrittenInv'
    <3> DEFINE line == AnchorLine(job[k].receipt, k, token)
    <3>1. line.by = k /\ line.receipt = job[k].receipt /\ line.timestamp = token
        BY DEF AnchorLine
    <3>2. line = AnchorLine(job[k].receipt, k, line.timestamp)
        BY <3>1
    <3>3. token # None /\ SignedInTime(k, token.info)
        BY <2>1, <2>3, AcceptedInTime
    <3>4. VerifyTimestamp(token, job[k].receipt.head, roots, Commands)
        BY <2>3, MoreNonces
    <3>5. Requested(k)
        BY <1>1, <2>1 DEF RequestsInv
    <3>6. LandedLines' \subseteq LandedLines \cup {line}
        BY <1>1, <2>3, AppendLands
    <3> HIDE DEF line
    <3>7. Stamped(line)
        BY <3>1, <3>2, <3>3, <3>4, <3>5 DEF Stamped
    <3>8. Written(line)
        BY <2>1, <3>1, <3>7 DEF Written
    <3>9. PICK l : l = line
        OBVIOUS
    <3>10. Written(l)'
        BY <1>1, <1>6, <3>8, <3>9, RecordsStay
    <3>11. QED
        BY <1>12, <3>6, <3>9, <3>10
  <2>4. CASE UNCHANGED anchors
      BY <1>13, <2>4
  <2>5. QED
      BY <2>2, <2>3, <2>4
<1>16. QED
    BY <1>3, <1>7, <1>8, <1>11, <1>13, <1>14, <1>15 DEF TimesInv

\* The agent's entry carries the time of now.
LEMMA AgentTimes ==
    ASSUME AnchorsInv, TimesInv, AgentRecords
    PROVE  TimesInv'
<1>1. ClockInv /\ RequestsInv /\ IssuedInv /\ WrittenInv
    BY DEF TimesInv
<1>2. UNCHANGED <<now, settings, stage, job, issued, anchors>>
    BY DEF AgentRecords, anchorVars, settings
<1>3. PICK kind \in Kinds : Record(Entry(kind))
    BY DEF AgentRecords
<1>4. PICK S : Log \in Seq(S) /\ Log' \in Seq(S)
    BY <1>3, AgentLog
<1>5. /\ Len(Log) \in Nat /\ Len(Log') = Len(Log) + 1
      /\ DOMAIN Log = 1 .. Len(Log) /\ DOMAIN Log' = 1 .. Len(Log) + 1
      /\ Log'[Len(Log) + 1].payload = Entry(kind)
      /\ \A i \in DOMAIN Log : Log'[i] = Log[i]
    BY <1>3, AgentLog
<1>6. Entry(kind).at = now /\ now \in Nat /\ now \in 0 .. now
    BY <1>1 DEF Entry, ClockInv
<1>7. ClockInv'
  <2>1. ASSUME NEW i \in DOMAIN Log'
        PROVE  Log'[i].payload.at \in 0 .. now
    <3>1. i \in DOMAIN Log \/ i = Len(Log) + 1
        BY <1>5
    <3>2. QED
        BY <1>1, <1>5, <1>6, <3>1 DEF ClockInv
  <2>2. QED
      BY <1>1, <1>2, <2>1 DEF ClockInv, settings
<1>8. Onward
    BY <1>2, <1>4, <1>5, <1>6 DEF Onward
<1>9. RequestsInv'
  <2>1. ASSUME NEW k \in Commands
        PROVE  /\ stage[k] = "writing" => job[k].since = None
               /\ stage[k] = "stamping" => Requested(k)'
      BY <1>1, <1>2, <1>8, RequestKept DEF RequestsInv
  <2>2. QED
      BY <1>2, <2>1 DEF RequestsInv
<1>10. /\ \A token \in issued : Issued(token)'
       /\ \A line \in LandedLines : Written(line)'
    BY <1>1, <1>8, RecordsStay DEF IssuedInv, WrittenInv
<1>11. IssuedInv' /\ WrittenInv'
  <2>1. LandedLines' = LandedLines
      BY <1>2 DEF LandedLines, Landed
  <2>2. QED
      BY <1>2, <1>10, <2>1 DEF IssuedInv, WrittenInv
<1>12. QED
    BY <1>7, <1>9, <1>11 DEF TimesInv

\* Time passes, or nothing happens.
LEMMA QuietTimes ==
    ASSUME AnchorsInv, TimesInv, Tick \/ UNCHANGED allVars
    PROVE  TimesInv'
<1>1. ClockInv /\ RequestsInv /\ IssuedInv /\ WrittenInv
    BY DEF TimesInv
<1>2. /\ UNCHANGED <<vars, settings, stage, job, issued, anchors>>
      /\ now' = now + 1 \/ now' = now
    BY DEF Tick, allVars, anchorVars, settings
<1>3. Log' = Log
    BY <1>2, LogKept DEF AnchorsInv
<1>4. PICK S : Log \in Seq(S)
    BY LogIsSequence
<1>5. now \in Nat /\ now' \in Nat /\ now <= now'
    BY <1>1, <1>2 DEF ClockInv
<1>6. Onward
    BY <1>2, <1>3, <1>4, <1>5, LenProperties DEF Onward
<1>7. ClockInv'
    BY <1>1, <1>2, <1>3, <1>5 DEF ClockInv, settings
<1>8. RequestsInv'
  <2>1. ASSUME NEW k \in Commands
        PROVE  /\ stage[k] = "writing" => job[k].since = None
               /\ stage[k] = "stamping" => Requested(k)'
      BY <1>1, <1>2, <1>6, RequestKept DEF RequestsInv
  <2>2. QED
      BY <1>2, <2>1 DEF RequestsInv
<1>9. /\ \A token \in issued : Issued(token)'
      /\ \A line \in LandedLines : Written(line)'
    BY <1>1, <1>6, RecordsStay DEF IssuedInv, WrittenInv
<1>10. IssuedInv' /\ WrittenInv'
  <2>1. LandedLines' = LandedLines
      BY <1>2 DEF LandedLines, Landed
  <2>2. QED
      BY <1>2, <1>9, <2>1 DEF IssuedInv, WrittenInv
<1>11. QED
    BY <1>7, <1>8, <1>10 DEF TimesInv

\* Nothing has been asked for, and the lines of the file are of other runs.
LEMMA TimesInitially == AnchorsInit => TimesInv
<1> SUFFICES ASSUME AnchorsInit
             PROVE  TimesInv
    OBVIOUS
<1>1. /\ now = 0 /\ skew \in Skews /\ issued = {}
      /\ stage = [k \in Commands |-> "idle"] /\ job = [k \in Commands |-> None]
      /\ anchors = [i \in DOMAIN OtherRuns |-> AnchorLine(OtherRuns[i], None, None)]
    BY DEF AnchorsInit
<1>2. Log = <<>>
    BY DEF AnchorsInit, Init, Log
<1>3. ClockInv
  <2>1. \A s \in Skews : s \in Int /\ -Tolerance <= s
      BY AnchorsAssumption
  <2>2. QED
      BY <1>1, <1>2, <2>1 DEF ClockInv
<1>4. \A k \in Commands : stage[k] = "idle" /\ job[k] = None
    BY <1>1
<1>5. RequestsInv
    BY <1>4 DEF RequestsInv
<1>6. Landed = {}
  <2>1. \A receipt : AnchorLine(receipt, None, None).by = None
      BY DEF AnchorLine
  <2>2. \A i \in DOMAIN anchors : anchors[i].by = None
      BY <1>1, <2>1
  <2>3. QED
      BY <2>2 DEF Landed
<1>7. QED
    BY <1>1, <1>3, <1>5, <1>6 DEF TimesInv, IssuedInv, WrittenInv, LandedLines

-----------------------------------------------------------------------------
\* The first n entries of a chained log are a chain of their own.
LEMMA PrefixChained ==
    ASSUME NEW S, NEW own \in Seq(S), Chained(own), NEW n \in 0 .. Len(own)
    PROVE  LET log == SubSeq(own, 1, n)
           IN  /\ Len(log) = n /\ DOMAIN log = 1 .. n
               /\ \A i \in 1 .. n : log[i] = own[i]
               /\ Sound(log) /\ VerifyChain(log).ok
               /\ VerifyChain(log).head = PrevHash(own, n + 1)
<1> DEFINE log == SubSeq(own, 1, n)
<1>1. Len(own) \in Nat /\ DOMAIN own = 1 .. Len(own) /\ n \in Nat /\ n <= Len(own)
    OBVIOUS
<1>2. Len(log) = n /\ DOMAIN log = 1 .. n /\ \A i \in 1 .. n : log[i] = own[i]
    BY <1>1
<1> HIDE DEF log
<1>3. \A i \in 1 .. n + 1 : PrevHash(log, i) = PrevHash(own, i)
    BY <1>1, <1>2 DEF PrevHash
<1>4. Chained(log)
  <2>1. ASSUME NEW i \in DOMAIN log
        PROVE  log[i] = Sealed(i, log[i].payload, PrevHash(log, i))
    <3>1. i \in DOMAIN own /\ log[i] = own[i] /\ PrevHash(log, i) = PrevHash(own, i)
        BY <1>1, <1>2, <1>3
    <3>2. own[i] = Sealed(i, own[i].payload, PrevHash(own, i))
        BY <3>1 DEF Chained
    <3>3. QED
        BY <3>1, <3>2
  <2>2. QED
      BY <2>1 DEF Chained
<1>5. Sound(log) /\ VerifyChain(log).ok /\ VerifyChain(log).head = PrevHash(log, Len(log) + 1)
    BY <1>4, ChainedVerifies
<1>6. n + 1 \in 1 .. n + 1
    BY <1>1
<1>7. VerifyChain(log).head = PrevHash(own, n + 1)
    BY <1>2, <1>3, <1>5, <1>6
<1>8. QED
    BY <1>2, <1>5, <1>7 DEF log

\* A file of one line has the receipt of its run.
LEMMA OnlyReceipt ==
    ASSUME NEW line
    PROVE  FindReceipt(<<line>>, line.receipt.run) = line
<1> DEFINE run == line.receipt.run
           file == <<line>>
           I == {i \in 1 .. Len(file) : file[i].receipt.run = run}
           at == IF I # {} THEN Max(I) ELSE 0
<1>1. FindReceipt(file, run) = IF at = 0 THEN None ELSE file[at]
    BY DEF FindReceipt, SelectLastInSeq
<1>2. I = {1}
  <2>1. Len(file) = 1 /\ file[1] = line
      OBVIOUS
  <2>2. QED
      BY <2>1
<1>3. Max({1}) = 1
    BY DEF Max
<1>4. at = 1
    BY <1>2, <1>3
<1> HIDE DEF at
<1>5. QED
    BY <1>1, <1>4

\* What a receipt of the log says is what a receipt of its first entries says.
LEMMA PrefixSummary ==
    ASSUME AnchorsInv, NEW receipt, Counts(receipt, Log),
           receipt.to = IF receipt.entryCount = 0 THEN None
                        ELSE Log[receipt.entryCount].payload.at
    PROVE  LET log == SubSeq(Log, 1, receipt.entryCount)
           IN  /\ Summarize(log).run = receipt.run /\ Summarize(log).to = receipt.to
               /\ VerifyChain(log).ok
               /\ VerifyAgainstReceipt(log, receipt) = "none"
               /\ MalformedIsNoEntry => \A i \in DOMAIN log : log[i] # Malformed
<1> DEFINE n == receipt.entryCount
           log == SubSeq(Log, 1, n)
<1>1. PICK S : Log \in Seq(S) /\ Chained(Log)
    BY LogIsSequence
<1>2. /\ n \in 0 .. Len(Log) /\ receipt.head = PrevHash(Log, n + 1)
      /\ receipt.run = IF n = 0 THEN "" ELSE Run
    BY Zenon DEF Counts
<1>3. /\ Len(log) = n /\ DOMAIN log = 1 .. n
      /\ \A i \in 1 .. n : log[i] = Log[i]
      /\ VerifyChain(log).ok /\ VerifyChain(log).head = PrevHash(Log, n + 1)
    BY <1>1, <1>2, PrefixChained
<1>4. Len(Log) \in Nat /\ DOMAIN Log = 1 .. Len(Log)
    BY <1>1, LenProperties
<1>0. \A i \in DOMAIN Log : Log[i].payload.run = Run
    BY DEF AnchorsInv, OneRun
<1>7. n \in Nat /\ n <= Len(Log) /\ \A j \in 1 .. n : j \in DOMAIN Log
  <2>1. n \in 0 .. Len(Log)
      BY <1>2
  <2> HIDE DEF n
  <2>2. QED
      BY <1>4, <2>1
<1>5. log \in Seq(S)
  <2>1. \A j \in 1 .. n : Log[j] \in S
      BY <1>1, <1>7, ElementOfSeq, <1>4
  <2>2. n \in Int /\ 1 \in Int
      BY <1>7
  <2> HIDE DEF n
  <2>3. QED
      BY <2>1, <2>2, SubSeqProperties
<1>6. /\ Summarize(log).run = IF log = <<>> THEN "" ELSE Last(log).payload.run
      /\ Summarize(log).to = IF log = <<>> THEN None ELSE Last(log).payload.at
    BY Zenon DEF Summarize
<1> HIDE DEF log, n
<1>8. Summarize(log).run = receipt.run /\ Summarize(log).to = receipt.to
  <2>1. CASE n = 0
    <3>1. log = <<>>
        BY <1>3, <1>5, <2>1
    <3>2. QED
        BY <1>2, <1>6, <2>1, <3>1 DEF n
  <2>2. CASE n # 0
    <3>1. log # <<>> /\ Last(log) = Log[n] /\ n \in DOMAIN Log
        BY <1>3, <1>5, <1>7, <2>2 DEF Last
    <3>2. QED
        BY <1>0, <1>2, <1>6, <2>2, <3>1 DEF n
  <2>3. QED
      BY <2>1, <2>2
<1>9. VerifyAgainstReceipt(log, receipt) = "none"
    BY <1>2, <1>3, <1>8, Zenon DEF VerifyAgainstReceipt
<1>10. ASSUME MalformedIsNoEntry, NEW i \in DOMAIN log
       PROVE  log[i] # Malformed
  <2>1. i \in DOMAIN Log /\ log[i] = Log[i]
      BY <1>3, <1>7, <1>10
  <2>2. Log[i] = Sealed(i, Log[i].payload, PrevHash(Log, i))
      BY <1>1, <2>1 DEF Chained
  <2>3. Log[i] # Malformed
      BY <1>10, <2>2, Zenon DEF MalformedIsNoEntry
  <2>4. QED
      BY <2>1, <2>3
<1>11. QED
    BY <1>3, <1>8, <1>9, <1>10 DEF log, n

\* A token that was signed in time is neither early nor later than allowed.
LEMMA NeitherEarlyNorLate ==
    ASSUME ClockInv, NEW line, Stamped(line)
    PROVE  LET asked == job[line.by]
               age == IF line.receipt.to = None THEN None
                      ELSE asked.since - line.receipt.to + Timeout + skew
           IN  CheckTimestamp(line.timestamp, line.receipt.head, line.receipt.to, roots, age)
<1> DEFINE since == job[line.by].since
           to == line.receipt.to
           n == line.receipt.entryCount
           stamped == line.timestamp.info.genTime
           age == IF to = None THEN None ELSE since - to + Timeout + skew
<1>1. VerifyTimestamp(line.timestamp, line.receipt.head, roots, Commands)
    BY DEF Stamped
<1>2. line.receipt = job[line.by].receipt
  <2>1. \A receipt, k, timestamp : AnchorLine(receipt, k, timestamp).receipt = receipt
      BY DEF AnchorLine
  <2>2. QED
      BY <2>1 DEF Stamped
<1>3. ASSUME to # None
      PROVE  to \in Nat /\ to <= since
  <2>1. /\ n \in 0 .. Len(Log)
        /\ n # 0 => to = Log[n].payload.at /\ to <= since
        /\ n = 0 => to = None
      BY <1>2, Zenon DEF Stamped, Requested, Counts
  <2>2. Log[n].payload.at \in Nat
    <3>1. n \in DOMAIN Log
        BY <1>3, <2>1
    <3>2. QED
        BY <3>1 DEF ClockInv
  <2>3. QED
      BY <1>3, <2>1, <2>2
<1>4. /\ since \in Nat /\ stamped \in Int /\ skew \in Int /\ -Tolerance <= skew
      /\ Timeout \in Nat /\ Tolerance \in Nat
      /\ since <= stamped - skew /\ stamped - skew <= since + Timeout
  <2>1. SignedInTime(line.by, line.timestamp.info)
      BY DEF Stamped
  <2>2. stamped - skew \in since .. now /\ since \in Nat /\ now \in Nat
      BY <2>1 DEF SignedInTime, ClockInv
  <2>3. QED
      BY <2>1, <2>2, AnchorsAssumption DEF SignedInTime, ClockInv
<1> HIDE DEF since, to, stamped, n
<1>5. to # None => stamped - to >= -Tolerance /\ stamped - to <= age
  <2>1. SUFFICES ASSUME to # None
                 PROVE  stamped - to >= -Tolerance /\ stamped - to <= since - to + Timeout + skew
      OBVIOUS
  <2>2. to \in Nat /\ to <= since
      BY <1>3, <2>1
  <2>3. QED
      BY <1>4, <2>2
<1> HIDE DEF age
<1>6. CheckTimestamp(line.timestamp, line.receipt.head, to, roots, age)
    BY <1>1, <1>5 DEF CheckTimestamp, stamped
<1>7. QED
    BY <1>6 DEF age, to, since

\* Under the invariants, what has landed verifies.
LEMMA LandedFollows ==
    ASSUME AnchorsInv, TimesInv, NoneIsNoRecord, MalformedIsNoEntry
    PROVE  LandedVerifies
<1> SUFFICES ASSUME NEW i \in Landed, job[anchors[i].by].since # None
             PROVE  LET line == anchors[i]
                        asked == job[line.by]
                        age == IF line.receipt.to = None THEN None
                               ELSE asked.since - line.receipt.to + Timeout + skew
                    IN  /\ CmdVerify(SubSeq(Log, 1, line.receipt.entryCount), <<line>>,
                                     [requireTimestamp |-> TRUE, maxLag |-> age,
                                      trusted |-> roots]) = "ok"
                        /\ line.timestamp.info.genTime - skew \in asked.since .. now
    BY DEF LandedVerifies
<1>1. PICK line : line = anchors[i]
    OBVIOUS
<1>2. Stamped(line) /\ line # Malformed /\ ClockInv
    BY <1>1 DEF TimesInv, WrittenInv, Written, LandedLines, Landed
<1> DEFINE receipt == line.receipt
           log == SubSeq(Log, 1, receipt.entryCount)
           age == IF receipt.to = None THEN None
                  ELSE job[line.by].since - receipt.to + Timeout + skew
           options == [requireTimestamp |-> TRUE, maxLag |-> age, trusted |-> roots]
<1>3. /\ line = AnchorLine(job[line.by].receipt, line.by, line.timestamp)
      /\ line.timestamp # None /\ Requested(line.by)
    BY <1>2 DEF Stamped
<1>4. receipt = job[line.by].receipt /\ line # None
  <2>1. \A r, k, timestamp : AnchorLine(r, k, timestamp).receipt = r
      BY DEF AnchorLine
  <2>2. \A r, k, timestamp : AnchorLine(r, k, timestamp) # None
      BY Zenon DEF NoneIsNoRecord
  <2>3. QED
      BY <1>3, <2>1, <2>2
<1>5. /\ Counts(receipt, Log)
      /\ receipt.to = IF receipt.entryCount = 0 THEN None
                      ELSE Log[receipt.entryCount].payload.at
    BY <1>3, <1>4 DEF Requested
<1>6. CheckTimestamp(line.timestamp, receipt.head, receipt.to, roots, age)
    BY <1>2, NeitherEarlyNorLate
<1> HIDE DEF receipt, age
<1>7. /\ Summarize(log).run = receipt.run /\ Summarize(log).to = receipt.to
      /\ VerifyChain(log).ok
      /\ VerifyAgainstReceipt(log, receipt) = "none"
      /\ \A j \in DOMAIN log : log[j] # Malformed
    BY <1>5, PrefixSummary
<1>8. FindReceipt(<<line>>, receipt.run) = line
    BY OnlyReceipt DEF receipt
<1>9. \A j \in DOMAIN <<line>> : <<line>>[j] # Malformed
    BY <1>2
<1>10. options.requireTimestamp /\ options.maxLag = age /\ options.trusted = roots
    OBVIOUS
<1>11. line.receipt = receipt
    BY DEF receipt
<1> HIDE DEF log, options
<1>12. CmdVerify(log, <<line>>, options) = "ok"
    BY <1>3, <1>4, <1>6, <1>7, <1>8, <1>9, <1>10, <1>11, Zenon DEF CmdVerify
<1>13. line.timestamp.info.genTime - skew \in job[line.by].since .. now
    BY <1>2 DEF Stamped, SignedInTime
<1>14. QED
    BY <1>1, <1>12, <1>13 DEF log, options, age, receipt

\* An anchor that was asked for a timestamp has landed with one or not at all,
\* and from then on the log as it was passes `verify --against` it, timestamp
\* required and as late as the request allowed at most; the time it vouches for
\* is between the request and now.
THEOREM LandedAlwaysVerifies ==
    ASSUME NoneIsNoRecord, MalformedIsNoEntry
    PROVE  AnchorsSpec => []LandedVerifies
<1>1. AnchorsInit => AnchorsInv /\ TimesInv
    BY AnchorsInitially, TimesInitially
<1>2. AnchorsInv /\ TimesInv /\ [AnchorsNext]_allVars => (AnchorsInv /\ TimesInv)'
    BY AgentStep, CommandStep, QuietStep, AgentTimes, CommandTimes, QuietTimes DEF AnchorsNext
<1>3. AnchorsInv /\ TimesInv => LandedVerifies
    BY LandedFollows
<1>4. QED
    BY <1>1, <1>2, <1>3, PTL DEF AnchorsSpec

=============================================================================
