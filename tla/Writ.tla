-------------------------------- MODULE Writ --------------------------------
(***************************************************************************)
(* What an enforcement point promises its caller, without a policy, a      *)
(* queue or a log format: a call is executed only after its permission is  *)
(* on record, a recorded decision never changes, a refused call never      *)
(* runs, and no more calls are permitted than the ceiling.                 *)
(***************************************************************************)
EXTENDS Naturals

CONSTANTS
    Calls,      \* the calls an agent makes
    Ceiling     \* {n} when at most n calls may be permitted, {} when unlimited

VARIABLES
    fate,       \* how far each call is
    record,     \* the decision on record for each call, or "none"
    permits     \* how many calls have been permitted

abstractVars == <<fate, record, permits>>

Init ==
    /\ fate = [c \in Calls |-> "new"]
    /\ record = [c \in Calls |-> "none"]
    /\ permits = 0

Becomes(c, from, to) ==
    /\ fate[c] \in from
    /\ fate' = [fate EXCEPT ![c] = to]

Request(c) ==
    /\ Becomes(c, {"new"}, "waiting")
    /\ UNCHANGED <<record, permits>>

Permit(c) ==
    /\ Becomes(c, {"waiting"}, "executing")
    /\ \A n \in Ceiling : permits < n
    /\ record' = [record EXCEPT ![c] = "allow"]
    /\ permits' = permits + 1

Refuse(c) ==
    /\ Becomes(c, {"waiting"}, "refused")
    /\ record' = [record EXCEPT ![c] = "deny"]
    /\ UNCHANGED permits

\* The call fails, before a decision or in its tool.
Abort(c) ==
    /\ Becomes(c, {"waiting", "executing"}, "aborted")
    /\ UNCHANGED <<record, permits>>

Complete(c) ==
    /\ Becomes(c, {"executing"}, "completed")
    /\ UNCHANGED <<record, permits>>

Next ==
    \E c \in Calls :
        Request(c) \/ Permit(c) \/ Refuse(c) \/ Abort(c) \/ Complete(c)

Spec == Init /\ [][Next]_abstractVars

=============================================================================
