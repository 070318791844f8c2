----------------------------- MODULE MCAnchors ------------------------------
(***************************************************************************)
(* A small instance of Anchors: one run of two entries, two anchor         *)
(* commands, and a TSA whose answers may be signed by a certificate that   *)
(* chains to a bundled root, to a private one, or that does not qualify.   *)
(***************************************************************************)
EXTENDS Anchors

RunName == "run"

Kind(effect, violations) ==
    [tool |-> "read", arg |-> None, effect |-> effect, violations |-> violations,
     usage |-> Nothing]

MCKinds == {Kind("allow", {})}

\* Every chain of the run that verifies: those the agent may record, and those
\* it may not, with a call that was refused.
RECURSIVE Chains(_)
Chains(n) ==
    IF n = 0 THEN {<<>>}
    ELSE LET payloads == {[run |-> RunName, at |-> at] @@ kind : at \in 0 .. MaxTime, kind \in MCKinds}
         IN  Chains(n - 1) \cup
             {Append(c, Sealed(n, p, PrevHash(c, n))) :
                 c \in {s \in Chains(n - 1) : Len(s) = n - 1}, p \in payloads}

\* The same with one more entry, and with the last line torn.
MCFiles ==
    Chains(MaxEntries) \cup {Append(c, Malformed) : c \in Chains(1)}

OtherChain ==
    <<Sealed(1, [run |-> "other", at |-> 0] @@ Kind("allow", {}), Genesis)>>

MCOtherRuns == <<Summarize(OtherChain)>>

Certificate(name, issuer, signedBy, purpose, to) ==
    [name |-> name, key |-> name, issuer |-> issuer, signedBy |-> signedBy,
     purpose |-> purpose, from |-> -10, to |-> to]

Root == Certificate("root", "root", "root", "ca", 100)
PrivateRoot == Certificate("private", "private", "private", "ca", 100)
Intermediate == Certificate("between", "root", "root", "ca", 100)

MCBundled == <<Root>>
MCOwnCA == <<Root, PrivateRoot>>

MCSigners ==
    {<<Certificate("tsa", "between", "between", "timestamping", 100), Intermediate>>,
     <<Certificate("club", "private", "private", "timestamping", 100)>>,
     <<Certificate("old", "between", "between", "timestamping", -5), Intermediate>>,
     <<Certificate("web", "root", "root", "server", 100)>>}

MCSkews == {-1}

=============================================================================
