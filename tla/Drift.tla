------------------------------- MODULE Drift --------------------------------
(***************************************************************************)
(* Envelope drift (js/src/audit/drift.ts): one run of a log compared with  *)
(* the runs before it.  Medians are doubled, so that they are integers.    *)
(***************************************************************************)
EXTENDS Integers, Sequences, FiniteSets, SequencesExt

CONSTANTS
    Floor,      \* the smallest rise worth a finding, by metric
    Factor,     \* options.factor
    MinHistory  \* options.minHistory

Bookkeeping == {"toolwrit:plan", "toolwrit:warning"}
Metrics == {"calls", "denied", "bytes", "usd"}

\* The value at position n of `values` in ascending order.
Nth(values, n) ==
    CHOOSE v \in Range(values) :
        /\ Cardinality({i \in DOMAIN values : values[i] < v}) < n
        /\ Cardinality({i \in DOMAIN values : values[i] <= v}) >= n

\* The runs of a log, in the order in which they first appear.
Runs(entries) ==
    LET firsts == {i \in DOMAIN entries : \A j \in 1 .. i - 1 : entries[j].run # entries[i].run}
    IN  [r \in 1 .. Cardinality(firsts) |-> entries[Nth([i \in firsts |-> i], r)].run]

\* The highest figure recorded, 0 when there is none.
Highest(S) == IF S = {} THEN 0 ELSE CHOOSE n \in S : \A m \in S : m <= n

Profile(entries, run) ==
    LET own == {i \in DOMAIN entries : entries[i].run = run /\ entries[i].tool \notin Bookkeeping}
        of(tool) == {i \in own : entries[i].tool = tool}
    IN  [run    |-> run,
         calls  |-> Cardinality(own),
         denied |-> Cardinality({i \in own : entries[i].effect = "deny"}),
         bytes  |-> Highest({entries[i].usage.bytes : i \in own}),
         usd    |-> Highest({entries[i].usage.usd : i \in own}),
         tools  |-> [tool \in {entries[i].tool : i \in own} |-> Cardinality(of(tool))]]

ProfileRuns(entries) == [r \in DOMAIN Runs(entries) |-> Profile(entries, Runs(entries)[r])]

-----------------------------------------------------------------------------
\* Mutant: the mean, rounded as twice the sum over the number.
TwiceMean(values) == (2 * FoldLeft(LAMBDA sum, n : sum + n, 0, values)) \div Len(values)

\* Twice the median.
TwiceMedian(values) ==
    LET mid == Len(values) \div 2
    IN  IF Len(values) % 2 = 1 THEN 2 * Nth(values, mid + 1)
        ELSE Nth(values, mid) + Nth(values, mid + 1)

\* exceeds(), of twice the usual figure.
Exceeds(value, twice, floor) ==
    2 * value - twice >= 2 * floor /\ (twice = 0 \/ 2 * value > twice * Factor)

CallsOf(profile, tool) == IF tool \in DOMAIN profile.tools THEN profile.tools[tool] ELSE 0

\* detectDrift() on the run at `index` of the log's runs.
DetectDrift(entries, index) ==
    LET runs == ProfileRuns(entries)
        history == SubSeq(runs, 1, index - 1)
        profile == runs[index]
        judged == Len(history) >= MinHistory
        usual(figure(_)) == TwiceMedian([r \in DOMAIN history |-> figure(history[r])])
        unusual == {metric \in Metrics :
                       Exceeds(profile[metric], usual(LAMBDA p : p[metric]), Floor[metric])}
        seen == UNION {DOMAIN history[r].tools : r \in DOMAIN history}
        busier == {tool \in DOMAIN profile.tools \cap seen :
                      Exceeds(profile.tools[tool], usual(LAMBDA p : CallsOf(p, tool)), Floor["tool"])}
    IN  [judged   |-> judged,
         findings |-> IF ~judged THEN {}
                      ELSE {<<"metric", metric>> : metric \in unusual}
                           \cup {<<"new-tool", tool>> : tool \in DOMAIN profile.tools \ seen}
                           \cup {<<"tool", tool>> : tool \in busier}]

=============================================================================
