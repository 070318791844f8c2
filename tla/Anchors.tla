------------------------------ MODULE Anchors -------------------------------
(***************************************************************************)
(* Anchoring a run (js/src/cli.ts): `toolwrit anchor` appends the receipt  *)
(* of a log to an anchor file, after a Time-Stamp Authority has signed its *)
(* head when --tsa asks for it, and `toolwrit verify --against` holds a    *)
(* log against that file.  The agent goes on recording all the while, and  *)
(* several anchor commands may be under way at once.                       *)
(*                                                                         *)
(* The TSA is outside the program: it signs what it is asked to, by its    *)
(* own clock, and its answers may be lost, late, or replaced on the way.   *)
(***************************************************************************)
EXTENDS AuditChain, Receipt, Timestamp

CONSTANTS
    Run,            \* options.run of the agent's AuditLog
    Kinds,          \* what an entry may say, but for its run and time
    Files,          \* the logs that are handed to `toolwrit verify`
    Commands,       \* the invocations of `toolwrit anchor`
    OtherRuns,      \* receipts of other runs that the anchor file starts with, in order
    Bundled, OwnCA, \* Node's roots, and those that --tsa-ca adds to them
    Signers,        \* what a TSA may sign with: its certificate and the issuers of it
    Skews,          \* how far the TSA's clock may be ahead of this machine's
    Tolerance,      \* the clock skew that `verify` accepts: 300 s
    Timeout,        \* the request is abandoned after this long: 15 s
    MaxTime,        \* bound: the clock stops here
    MaxLines        \* bound: how many lines the anchor file gets

IsSequence(s) == Len(s) \in Nat /\ s = [i \in 1 .. Len(s) |-> s[i]]

\* A line that parses to an entry of the run.
IsEntry(line) ==
    /\ line = [seq |-> line.seq, payload |-> line.payload, prev |-> line.prev, hash |-> line.hash]
    /\ line.payload.run = Run

\* The logs that are verified are of this run, other receipts are of other runs.
ASSUME FilesAssumption ==
    /\ Run # "" /\ None \notin Commands
    /\ \A log \in Files :
           IsSequence(log) /\ \A i \in DOMAIN log : log[i] = Malformed \/ IsEntry(log[i])
    /\ IsSequence(OtherRuns) /\ \A i \in DOMAIN OtherRuns : OtherRuns[i].run \notin {"", Run}

ASSUME AnchorsAssumption ==
    /\ {Tolerance, MaxTime, MaxLines} \subseteq Nat
    /\ Timeout \in Nat \ {0}
    /\ \A skew \in Skews : skew \in Int /\ -Tolerance <= skew

VARIABLES
    now,        \* the clock of this machine
    skew,       \* what the TSA's clock is ahead of it
    signer,     \* the certificates the TSA signs with
    roots,      \* trustedRoots(): what --tsa-ca makes of the trusted roots
    stage,      \* where each command is
    job,        \* what it holds while it awaits the timestamp
    issued,     \* the tokens the TSA has answered with so far
    anchors,    \* the lines of the anchor file: receipts, or Malformed
    torn        \* its last line has no newline yet

anchorVars == <<now, skew, signer, roots, stage, job, issued, anchors, torn>>
settings == <<skew, signer, roots>>
allVars == <<vars, anchorVars>>

-----------------------------------------------------------------------------
(* What `verify --against` answers: "ok", or the check that failed.        *)

\* A line of the anchor file: a receipt and its timestamp.  `by` is not in the
\* file, it is the command that wrote the line.
AnchorLine(receipt, command, timestamp) ==
    [receipt |-> receipt, by |-> command, timestamp |-> timestamp]

\* findReceipt(): the last line of the run wins.
FindReceipt(file, run) ==
    LET at == SelectLastInSeq(file, LAMBDA line : line.receipt.run = run)
    IN  IF at = 0 THEN None ELSE file[at]

\* checkTimestamp(): lateness counts only under --max-lag, earliness always.
CheckTimestamp(stamp, head, to, trusted, maxLag) ==
    /\ VerifyTimestamp(stamp, head, trusted, Commands)
    /\ to # None =>
           LET lag == stamp.info.genTime - to
           IN  lag >= -Tolerance /\ (maxLag # None => lag <= maxLag)

CmdVerify(log, file, options) ==
    LET receipt == FindReceipt(file, Summarize(log).run)
        readable(f) == \A i \in DOMAIN f : f[i] # Malformed
    IN  IF ~readable(log) THEN "unreadable log"
        ELSE IF ~VerifyChain(log).ok THEN "chain check"
        ELSE IF ~readable(file) THEN "unreadable anchors"
        ELSE IF receipt = None THEN "no receipt"
        ELSE IF VerifyAgainstReceipt(log, receipt.receipt) # "none" THEN "anchor check"
        ELSE IF receipt.timestamp = None
        THEN IF options.requireTimestamp THEN "no timestamp" ELSE "ok"
        ELSE IF CheckTimestamp(receipt.timestamp, receipt.receipt.head, Summarize(log).to,
                               options.trusted, options.maxLag)
        THEN "ok" ELSE "timestamp check"

-----------------------------------------------------------------------------
AnchorsInit ==
    /\ Init
    /\ now = 0
    /\ skew \in Skews
    /\ signer \in Signers
    /\ roots \in {Bundled, OwnCA}
    /\ stage = [k \in Commands |-> "idle"]
    /\ job = [k \in Commands |-> None]
    /\ issued = {}
    /\ anchors = [i \in DOMAIN OtherRuns |-> AnchorLine(OtherRuns[i], None, None)]
    /\ torn = FALSE

\* An entry of the run, of now.
Entry(kind) ==
    [run |-> Run, at |-> now, tool |-> kind.tool, arg |-> kind.arg, effect |-> kind.effect,
     violations |-> kind.violations, usage |-> kind.usage]

\* The agent's log grows; entries carry the time of their calls.  Bound: nothing
\* is recorded once an append has failed.
AgentRecords ==
    /\ ~failed
    /\ \E kind \in Kinds : Record(Entry(kind))
    /\ UNCHANGED anchorVars

\* The first append creates the file, also when it fails.
LogExists == lines # <<>> \/ failed

Becomes(k, from, to) == stage[k] = from /\ stage' = [stage EXCEPT ![k] = to]

\* appendFileSync to the anchor file: all of the line, a part of it, or all but
\* its newline.
AppendAnchor(k, line) ==
    LET content(c) ==
            IF torn THEN [anchors EXCEPT ![Len(anchors)] = Malformed] ELSE Append(anchors, c)
    IN  /\ Len(anchors) < MaxLines
        /\ \/ /\ stage' = [stage EXCEPT ![k] = "anchored"]
              /\ anchors' = content(line)
              /\ torn' = FALSE
           \/ /\ stage' = [stage EXCEPT ![k] = "failed"]
              /\ \/ UNCHANGED <<anchors, torn>>
                 \/ /\ anchors' = content(line) \/ anchors' = content(Malformed)
                    /\ torn' = TRUE

\* A log that does not parse, or does not verify, is not anchored.
Refused(k) ==
    /\ LogExists
    /\ ~VerifyFile(lines).ok
    /\ Becomes(k, "idle", "refused")
    /\ UNCHANGED <<vars, now, settings, job, issued, anchors, torn>>

\* cmdAnchor() without --tsa: the receipt is the log's of now.
TakeReceipt(k) ==
    /\ LogExists
    /\ VerifyFile(lines).ok
    /\ Becomes(k, "idle", "writing")
    /\ job' = [job EXCEPT ![k] = [receipt |-> Summarize(lines), since |-> None]]
    /\ UNCHANGED <<vars, now, settings, issued, anchors, torn>>

\* It is appended when it has been written out: a step of its own, because the
\* agent and the other commands are other processes.
AppendReceipt(k) ==
    /\ stage[k] = "writing"
    /\ AppendAnchor(k, AnchorLine(job[k].receipt, k, None))
    /\ UNCHANGED <<vars, now, settings, job, issued>>

\* cmdAnchor() with --tsa, up to its await: the receipt is the log's of now, and
\* a request with its head and a fresh nonce is sent.
StartAnchor(k) ==
    /\ LogExists
    /\ VerifyFile(lines).ok
    /\ now + Timeout <= MaxTime
    /\ Becomes(k, "idle", "stamping")
    /\ job' = [job EXCEPT ![k] = [receipt |-> Summarize(lines), since |-> now]]
    /\ UNCHANGED <<vars, now, settings, issued, anchors, torn>>

\* What the TSA signs for command k, at a moment between request and answer.
Tokens(k) ==
    {LET info == [imprint |-> job[k].receipt.head, genTime |-> time + skew, nonce |-> k]
     IN  [info |-> info, attrs |-> Digest(info), certificates |-> signer,
          signature |-> Signature(Head(signer).key, Digest(info))] :
        time \in job[k].since .. now}

\* A token whose time was changed on the way, and the digest that covers it.
Redated(token, time) ==
    LET info == [token.info EXCEPT !.genTime = time]
    IN  {[token EXCEPT !.info = info], [token EXCEPT !.info = info, !.attrs = Digest(info)]}

\* requestTimestamp() gets an answer: its own token, one that was issued before,
\* or one that was changed.  Only a token that verifies is handed back, with any
\* other the command fails and nothing is written.
StampArrives(k) ==
    /\ stage[k] = "stamping"
    /\ now <= job[k].since + Timeout
    /\ \E signed \in Tokens(k) :
           /\ issued' = issued \cup {signed}
           /\ \E token \in issued' \cup Redated(signed, now) :
                  IF VerifyTimestamp(token, job[k].receipt.head, roots, {k})
                  THEN AppendAnchor(k, AnchorLine(job[k].receipt, k, token))
                  ELSE Becomes(k, "stamping", "failed") /\ UNCHANGED <<anchors, torn>>
    /\ UNCHANGED <<vars, now, settings, job>>

\* It rejects: HTTP says no, or the TSA refuses.
StampFails(k) ==
    /\ Becomes(k, "stamping", "failed")
    /\ now <= job[k].since + Timeout
    /\ UNCHANGED <<vars, now, settings, job, issued, anchors, torn>>

\* Mutant: the request is never abandoned.
StampNeverTimesOut(k) == FALSE /\ UNCHANGED allVars

\* No answer came in time: the request is abandoned.
StampTimesOut(k) ==
    /\ stage[k] = "stamping"
    /\ now >= job[k].since + Timeout
    /\ Becomes(k, "stamping", "failed")
    /\ UNCHANGED <<vars, now, settings, job, issued, anchors, torn>>

Tick ==
    /\ now < MaxTime
    /\ \A k \in Commands : stage[k] = "stamping" => now < job[k].since + Timeout
    /\ now' = now + 1
    /\ UNCHANGED <<vars, settings, stage, job, issued, anchors, torn>>

AnchorsNext ==
    \/ AgentRecords
    \/ \E k \in Commands :
           \/ Refused(k)
           \/ TakeReceipt(k)
           \/ AppendReceipt(k)
           \/ StartAnchor(k)
           \/ StampArrives(k)
           \/ StampFails(k)
           \/ StampTimesOut(k)
    \/ Tick

AnchorsSpec == AnchorsInit /\ [][AnchorsNext]_allVars

\* Time passes, the timer of the request fires, and what has been read is written;
\* nothing makes the TSA answer.
AnchorsFairSpec ==
    /\ AnchorsSpec
    /\ WF_allVars(Tick)
    /\ \A k \in Commands : WF_allVars(StampTimesOut(k)) /\ WF_allVars(AppendReceipt(k))

-----------------------------------------------------------------------------
(*                              Properties                                 *)

Landed == {i \in DOMAIN anchors : anchors[i] # Malformed /\ anchors[i].by # None}

NoOptions == [requireTimestamp |-> FALSE, maxLag |-> None, trusted |-> Bundled]

\* `verify --against` passes no log but one that the agent recorded and that an
\* anchor counted to its last entry: not a longer one, nor a shorter one, nor
\* another chain whose hashes have all been made anew.
AcceptedIsAnchored ==
    \A log \in Files :
        CmdVerify(log, anchors, NoOptions) = "ok" =>
            /\ PrefixOf(log, Log)
            /\ \E i \in Landed : anchors[i].receipt.entryCount = Len(log)

\* An anchor that was asked for a timestamp has landed with one or not at all,
\* and what has landed verifies from then on: the log as it was passes against
\* it, timestamp required and as late as the request allowed at most; and the
\* time it vouches for is between the request and now.
LandedVerifies ==
    \A i \in Landed :
        LET line == anchors[i]
            asked == job[line.by]
            age == IF line.receipt.to = None THEN None
                   ELSE asked.since - line.receipt.to + Timeout + skew
        IN  asked.since # None =>
                /\ CmdVerify(SubSeq(Log, 1, line.receipt.entryCount), <<line>>,
                             [requireTimestamp |-> TRUE, maxLag |-> age, trusted |-> roots]) = "ok"
                /\ line.timestamp.info.genTime - skew \in asked.since .. now

\* Every anchor command ends, whether or not the TSA answers.
AnchorSettles ==
    \A k \in Commands :
        stage[k] \in {"writing", "stamping"} ~> stage[k] \in {"anchored", "failed"}

=============================================================================
