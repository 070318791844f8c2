------------------------------- MODULE Chain --------------------------------
(***************************************************************************)
(* The hash chain of the audit log as pure operators: how an entry is      *)
(* sealed (js/src/audit/chain.ts), and how a sequence of entries, or the   *)
(* lines of a file, are verified (js/src/audit/verify.ts).  What an entry  *)
(* says (the call, the decision, the consumption) is its payload.          *)
(***************************************************************************)
EXTENDS Naturals, Sequences

CONSTANTS
    Genesis,        \* the predecessor hash of a first entry
    Malformed       \* a line that is not JSON

-----------------------------------------------------------------------------
\* sha256 over the canonical form of an entry without its hash: equal hashes
\* mean equal bodies, and no hash is Genesis.
HashEntry(body) == <<"sha256", body>>

Body(entry) == [seq |-> entry.seq, payload |-> entry.payload, prev |-> entry.prev]

Sealed(seq, payload, prev) ==
    LET body == [seq |-> seq, payload |-> payload, prev |-> prev]
    IN  [seq |-> seq, payload |-> payload, prev |-> prev, hash |-> HashEntry(body)]

PrevHash(entries, i) == IF i = 1 THEN Genesis ELSE entries[i - 1].hash

\* Mutants: the link, or the hash, of an entry is not compared.
FailureUnlinked(entries, i) ==
    CASE entries[i].seq # i -> "bad-sequence"
      [] entries[i].seq = i /\ HashEntry(Body(entries[i])) # entries[i].hash -> "bad-hash"
      [] OTHER -> "none"

FailureUnhashed(entries, i) ==
    CASE entries[i].seq # i -> "bad-sequence"
      [] entries[i].seq = i /\ entries[i].prev # PrevHash(entries, i) -> "broken-link"
      [] OTHER -> "none"

\* What is wrong with entry i when every entry before it is right.
Failure(entries, i) ==
    IF entries[i].seq # i THEN "bad-sequence"
    ELSE IF entries[i].prev # PrevHash(entries, i) THEN "broken-link"
    ELSE IF HashEntry(Body(entries[i])) # entries[i].hash THEN "bad-hash"
    ELSE "none"

Sound(entries) == \A i \in DOMAIN entries : Failure(entries, i) = "none"

\* Stops at the first entry that fails; the head is the last hash before it.
VerifyChain(entries) ==
    IF Sound(entries)
    THEN [ok |-> TRUE, head |-> PrevHash(entries, Len(entries) + 1), failure |-> "none"]
    ELSE LET bad == CHOOSE i \in DOMAIN entries :
                        /\ Failure(entries, i) # "none"
                        /\ \A j \in 1 .. i - 1 : Failure(entries, j) = "none"
         IN  [ok |-> FALSE, head |-> PrevHash(entries, bad), failure |-> Failure(entries, bad)]

\* A line that does not parse fails the file before any entry is looked at.
VerifyFile(file) ==
    IF \E i \in DOMAIN file : file[i] = Malformed
    THEN [ok |-> FALSE, head |-> Genesis, failure |-> "malformed"]
    ELSE VerifyChain(file)

=============================================================================
