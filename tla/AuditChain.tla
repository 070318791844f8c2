----------------------------- MODULE AuditChain -----------------------------
(***************************************************************************)
(* The audit log (AuditLog in js/src/audit/chain.ts): a hash chain that is *)
(* buffered in memory and appended line by line to a file that outlives    *)
(* the process.                                                            *)
(*                                                                         *)
(* Toolwrit records one entry after the other through record(), and what   *)
(* an entry says (the call, the decision, the consumption) is a payload    *)
(* here.  An append to the file may fail before it writes anything or      *)
(* after a part of the line, and the process may stop at any moment and be *)
(* started again on the same file.                                         *)
(***************************************************************************)
EXTENDS Chain

CONSTANTS
    Payloads,       \* what an entry may say
    MaxEntries,     \* bound: how many entries one process records
    MaxRuns         \* bound: how many processes use the file

ASSUME ChainAssumption == {MaxEntries, MaxRuns} \subseteq Nat \ {0}

VARIABLES
    logs,       \* the entries of each AuditLog made so far; the last one is in use
    last,       \* the hash of its newest entry
    lines,      \* the lines of the file: entries, or Malformed
    open,       \* the last line has no newline yet
    failed      \* an append has failed

vars == <<logs, last, lines, open, failed>>

-----------------------------------------------------------------------------
Log == logs[Len(logs)]

Init ==
    /\ logs = << <<>> >>
    /\ last = Genesis
    /\ lines = <<>>
    /\ open = FALSE
    /\ failed = FALSE

\* appendFileSync: after an unterminated line the entry becomes a part of it.
Line(content) ==
    lines' = IF open THEN [lines EXCEPT ![Len(lines)] = Malformed] ELSE Append(lines, content)

AppendSucceeds(entry) ==
    Line(entry) /\ open' = FALSE /\ UNCHANGED failed

\* It throws, after no byte, a part of the line, or all of it but its newline.
AppendThrows(entry) ==
    /\ failed' = TRUE
    /\ \/ UNCHANGED <<lines, open>>
       \/ /\ \E content \in {Malformed, entry} : Line(content)
          /\ open' = TRUE

\* record(): the entry is in memory, and is the head, before it is appended.
Record(payload) ==
    /\ Len(Log) < MaxEntries
    /\ LET entry == Sealed(Len(Log) + 1, payload, last)
       IN  /\ logs' = [logs EXCEPT ![Len(logs)] = Append(@, entry)]
           /\ last' = entry.hash
           /\ AppendSucceeds(entry) \/ AppendThrows(entry)

\* The process stops, and a new AuditLog is made for the same file.
Restart ==
    /\ Len(logs) < MaxRuns
    /\ logs' = Append(logs, <<>>)
    /\ last' = Genesis
    /\ UNCHANGED <<lines, open, failed>>

Next == (\E payload \in Payloads : Record(payload)) \/ Restart

Spec == Init /\ [][Next]_vars

-----------------------------------------------------------------------------
(*                              Properties                                 *)

\* Every log in memory verifies, and the head it quotes is its last hash.
MemoryVerifies ==
    /\ \A r \in DOMAIN logs : Sound(logs[r])
    /\ VerifyChain(Log).ok
    /\ VerifyChain(Log).head = last

PrefixOf(s, t) == Len(s) <= Len(t) /\ \A i \in DOMAIN s : s[i] = t[i]

\* The file of one process whose appends have all succeeded verifies, up to
\* the head in memory.
UntroubledFileVerifies ==
    Len(logs) = 1 /\ ~failed =>
        VerifyFile(lines).ok /\ VerifyFile(lines).head = last

\* However appends fail and processes restart, lines that verify from the start
\* of the file are what one process recorded, in order and without a gap.
VerifiedIsOneLog ==
    \A n \in DOMAIN lines :
        LET file == SubSeq(lines, 1, n)
        IN  VerifyFile(file).ok => \E r \in DOMAIN logs : PrefixOf(file, logs[r])

Without(s, i) == [j \in 1 .. Len(s) - 1 |-> IF j < i THEN s[j] ELSE s[j + 1]]

Rehashed(entry) == [entry EXCEPT !.hash = HashEntry(Body(entry))]

\* Editing, deleting or reordering an entry of a log is detected: an edit
\* without a new hash always, an edit with a new hash and a deletion whenever
\* a later entry is kept.
EditsAreDetected ==
    \A i \in DOMAIN Log :
        /\ \A payload \in Payloads \ {Log[i].payload} :
              LET edited == [Log[i] EXCEPT !.payload = payload]
              IN  /\ ~VerifyChain([Log EXCEPT ![i] = edited]).ok
                  /\ i < Len(Log) => ~VerifyChain([Log EXCEPT ![i] = Rehashed(edited)]).ok
        /\ i < Len(Log) =>
              /\ ~VerifyChain(Without(Log, i)).ok
              /\ ~VerifyChain([Log EXCEPT ![i] = Log[i + 1], ![i + 1] = Log[i]]).ok

\* Several runs can share one log file: as long as no append fails the file
\* verifies.
SharedFileVerifies == ~failed => VerifyFile(lines).ok

=============================================================================
