------------------------------ MODULE McpProxy ------------------------------
(***************************************************************************)
(* The MCP stdio proxy (js/src/adapters/mcp-proxy.ts) between a client and *)
(* the downstream server it runs as a child process.                       *)
(*                                                                         *)
(* Every tools/call goes through guard(), of which the proxy knows what    *)
(* Writ promises: the proxy is composed with that abstract enforcement     *)
(* point.  Other messages are handed through.                              *)
(*                                                                         *)
(* An event is a chunk of lines from either side, the child's exit, or a   *)
(* decision that guard() reaches; the continuations it makes runnable run  *)
(* before the next one.  Each client message is sent once and is its own   *)
(* id.  The client is on process.stdin, as for the command line: an input  *)
(* that is given in its place goes on being read after the transport has   *)
(* ended.                                                                  *)
(***************************************************************************)
EXTENDS Naturals, Sequences, FiniteSets

CONSTANTS
    Calls,          \* tools/call requests
    Notices,        \* tools/call messages without an id
    Queries,        \* the client's other requests, tools/list among them
    ServerRequests, \* requests the downstream server makes of the client
    IdOf,           \* the id of each server request
    Held,           \* the policy has a bytes ceiling: guard() waits for the tool
    Ceiling,        \* {n} when guard() permits at most n calls, {} when unlimited
    None            \* no response yet

Guarded == Calls \cup Notices

Ids == Calls \cup Queries \cup {IdOf[s] : s \in ServerRequests}

ASSUME ProxyAssumption ==
    /\ Guarded \cap Queries = {}
    /\ Calls \cap Notices = {}
    /\ Held \in BOOLEAN
    /\ Ceiling \subseteq Nat

VARIABLES
    child,      \* the process: starting, up, exited, or failed to start
    ended,      \* the transport to the client has been closed
    fate, record, permits,  \* guard(), see Writ
    done,       \* the tools/call handlers that have finished
    response,   \* what forwardToChild() has resolved with for each call
    pending,    \* the ids of the responses the child owes
    delivered,  \* the client's messages that the child has received
    upstream,   \* the lines the child has written and the proxy not read
    written,    \* what the child has written so far
    sent        \* what the client has been sent, by id

guardVars == <<fate, record, permits>>
vars == <<child, ended, fate, record, permits, done, response, pending,
          delivered, upstream, written, sent>>

Guard == INSTANCE Writ WITH Calls <- Guarded

-----------------------------------------------------------------------------
Finished == {"completed", "refused", "aborted"}

InFlight == {c \in Guarded : fate[c] # "new" /\ c \notin done}

\* A handler, or the guard() it awaits, that can go on.
Runnable(c) ==
    /\ c \in InFlight
    /\ \/ fate[c] \in Finished
       \/ /\ fate[c] = "executing"
          /\ c \in Notices \/ response[c] # None

\* Mutant: the handlers in progress are not waited for.
EndDueAtOnce == child = "exited" /\ ~ended

\* The exit handler, or endOutputWhenQuiet(), finds no handler in progress.
EndDue == child = "exited" /\ ~ended /\ InFlight = {}

\* No continuation is left to run before the next event.
Quiet == ~EndDue /\ \A c \in Guarded : ~Runnable(c)

\* A message to the client after the end of the transport is lost.
ToClient(id, body) ==
    sent' = IF ended THEN sent ELSE [sent EXCEPT ![id] = Append(@, body)]

\* A message to a child that has exited is not written.
ToChild(m) == delivered' = IF child = "up" THEN delivered \cup {m} ELSE delivered

Result(r) == <<"result", r>>

\* The same within a chunk of the server's lines, which are handled with no
\* continuation between them: only what they have woken is left to run.
InChunk ==
    /\ ~EndDue
    /\ \A c \in Guarded : Runnable(c) => fate[c] = "executing" /\ response[c] = Result(c)

-----------------------------------------------------------------------------
Init ==
    /\ child = "starting"
    /\ ended = FALSE
    /\ Guard!Init
    /\ done = {}
    /\ response = [c \in Guarded |-> None]
    /\ pending = {}
    /\ delivered = {}
    /\ upstream = <<>>
    /\ written = {}
    /\ sent = [id \in Ids |-> <<>>]

Spawned ==
    /\ child = "starting"
    /\ child' = "up"
    /\ UNCHANGED <<ended, guardVars, done, response, pending, delivered, upstream, written, sent>>

SpawnFails ==
    /\ child = "starting"
    /\ child' = "failed"
    /\ ended' = TRUE
    /\ UNCHANGED <<guardVars, done, response, pending, delivered, upstream, written, sent>>

\* The client's lines are read until the transport ends.
Reading == child \in {"up", "exited"} /\ ~ended /\ Quiet

\* Mutant: a tools/call without an id is handed through like a notification.
ClientCallUnguarded(c) ==
    /\ Reading
    /\ IF c \in Notices
       THEN Guard!Becomes(c, {"new"}, "completed") /\ ToChild(c) /\ done' = done \cup {c}
       ELSE Guard!Becomes(c, {"new"}, "waiting") /\ UNCHANGED <<delivered, done>>
    /\ UNCHANGED <<child, ended, record, permits, response, pending, upstream, written, sent>>

\* handleFromClient(), a tools/call: it is guarded, with or without an id.
ClientCall(c) ==
    /\ Reading
    /\ Guard!Request(c)
    /\ UNCHANGED <<child, ended, done, response, pending, delivered, upstream, written, sent>>

\* handleFromClient(), any other request.
ClientQuery(q) ==
    /\ Reading
    /\ q \notin pending /\ q \notin delivered /\ sent[q] = <<>>
    /\ pending' = pending \cup {q}
    /\ ToChild(q)
    /\ UNCHANGED <<child, ended, guardVars, done, response, upstream, written, sent>>

-----------------------------------------------------------------------------
\* Under a bytes ceiling a call is decided when no other is executing.
Turn(c) == Held => \A d \in Guarded : fate[d] # "executing"

\* guard() permits the call: forwardToChild() registers it and passes it on.
Permit(c) ==
    /\ Turn(c)
    /\ Guard!Permit(c)
    /\ pending' = IF c \in Calls THEN pending \cup {c} ELSE pending
    /\ ToChild(c)
    /\ UNCHANGED <<child, ended, done, response, upstream, written, sent>>

\* guard() refuses the call, or fails before it has decided.
Refuse(c) ==
    /\ Turn(c)
    /\ fate[c] = "waiting"
    /\ Guard!Refuse(c) \/ Guard!Abort(c)
    /\ UNCHANGED <<child, ended, done, response, pending, delivered, upstream, written, sent>>

\* guard() returns, or fails after the tool has returned.
Return(c) ==
    /\ fate[c] = "executing" /\ Runnable(c)
    /\ Guard!Complete(c) \/ Guard!Abort(c)
    /\ UNCHANGED <<child, ended, done, response, pending, delivered, upstream, written, sent>>

\* The end of handleToolsCall(): without an id there is nobody to answer.
Reply(c) ==
    /\ fate[c] \in Finished /\ Runnable(c)
    /\ done' = done \cup {c}
    /\ IF c \in Notices THEN UNCHANGED sent
       ELSE ToClient(c, CASE fate[c] = "completed" -> response[c]
                          [] fate[c] = "refused"   -> <<"denied", c>>
                          [] fate[c] = "aborted"   -> <<"error", c>>)
    /\ UNCHANGED <<child, ended, guardVars, response, pending, delivered, upstream, written>>

-----------------------------------------------------------------------------
ChildWrites(id, body) ==
    /\ child = "up"
    /\ body \notin written
    /\ written' = written \cup {body}
    /\ upstream' = Append(upstream, [id |-> id, body |-> body])
    /\ UNCHANGED <<child, ended, guardVars, done, response, pending, delivered, sent>>

\* The downstream server answers its requests in any order.
ChildAnswers(r) == r \in delivered /\ ChildWrites(r, Result(r))

ChildAsks(s) == ChildWrites(IdOf[s], <<"request", s>>)

\* What a waiting request does with its response.
Deliver(r, body) ==
    IF r \in Calls
    THEN response' = [response EXCEPT ![r] = body] /\ UNCHANGED sent
    ELSE ToClient(r, body) /\ UNCHANGED response

\* Mutants: a response goes to any request that waits; a request keeps waiting.
ChildLineUnordered ==
    /\ upstream # <<>> /\ InChunk
    /\ upstream' = Tail(upstream)
    /\ IF pending # {}
       THEN \E r \in pending : Deliver(r, Head(upstream).body) /\ pending' = pending \ {r}
       ELSE ToClient(Head(upstream).id, Head(upstream).body) /\ UNCHANGED <<pending, response>>
    /\ UNCHANGED <<child, ended, guardVars, done, delivered, written>>

ChildLineKept ==
    /\ upstream # <<>> /\ InChunk
    /\ upstream' = Tail(upstream)
    /\ IF Head(upstream).id \in pending
       THEN Deliver(Head(upstream).id, Head(upstream).body)
       ELSE ToClient(Head(upstream).id, Head(upstream).body) /\ UNCHANGED response
    /\ UNCHANGED <<child, ended, guardVars, done, pending, delivered, written>>

\* handleFromChild(): a response goes to the request that waits under its id,
\* anything else to the client.
ChildLine ==
    /\ upstream # <<>> /\ InChunk
    /\ upstream' = Tail(upstream)
    /\ LET message == Head(upstream)
       IN  IF message.id \in pending
           THEN Deliver(message.id, message.body) /\ pending' = pending \ {message.id}
           ELSE ToClient(message.id, message.body) /\ UNCHANGED <<pending, response>>
    /\ UNCHANGED <<child, ended, guardVars, done, delivered, written>>

\* Mutant: requests that wait are forgotten.
ExitSilently ==
    /\ child = "up" /\ Quiet
    /\ child' = "exited"
    /\ pending' = {}
    /\ UNCHANGED <<ended, guardVars, done, response, delivered, upstream, written, sent>>

\* The child exits, by itself or by stop(): whatever it owes is answered with
\* an error.  Lines it has written may still be read afterwards.
Exit ==
    /\ child = "up" /\ Quiet
    /\ child' = "exited"
    /\ response' = [c \in Guarded |-> IF c \in pending THEN <<"exited", c>> ELSE response[c]]
    /\ sent' = [id \in Ids |-> IF id \in pending \cap Queries
                               THEN Append(sent[id], <<"exited", id>>) ELSE sent[id]]
    /\ pending' = {}
    /\ UNCHANGED <<ended, guardVars, done, delivered, upstream, written>>

\* endOutputWhenQuiet()
EndOutput ==
    /\ EndDue
    /\ ended' = TRUE
    /\ UNCHANGED <<child, guardVars, done, response, pending, delivered, upstream, written, sent>>

-----------------------------------------------------------------------------
Next ==
    \/ Spawned
    \/ SpawnFails
    \/ \E c \in Guarded :
           ClientCall(c) \/ Permit(c) \/ Refuse(c) \/ Return(c) \/ Reply(c)
    \/ \E q \in Queries : ClientQuery(q)
    \/ \E r \in Calls \cup Queries : ChildAnswers(r)
    \/ \E s \in ServerRequests : ChildAsks(s)
    \/ ChildLine
    \/ Exit
    \/ EndOutput

Spec == Init /\ [][Next]_vars

\* The event loop serves every line and continuation, and guard() decides every
\* call whose turn it is.  A child either answers what it received or exits:
\* the proxy has no timeout of its own.
Fairness ==
    /\ WF_vars(ChildLine)
    /\ WF_vars(EndOutput)
    /\ \A c \in Guarded :
           WF_vars(Permit(c) \/ Refuse(c)) /\ WF_vars(Return(c)) /\ WF_vars(Reply(c))
    /\ \A r \in Calls \cup Queries : WF_vars(ChildAnswers(r) \/ Exit)

FairSpec == Spec /\ Fairness

-----------------------------------------------------------------------------
(*                              Properties                                 *)

\* No tools/call reaches the downstream server unless guard() has put its
\* permission on record, one without an id included.
OnlyPermittedForwarded ==
    \A c \in Guarded \cap delivered : record[c] = "allow"

\* What the client reads under an id is about that request: its own result if
\* it was permitted, the refusal if it was refused, or a failure.
OwnReply ==
    \A r \in Calls \cup Queries : \A i \in DOMAIN sent[r] :
        /\ sent[r][i][2] = r
        /\ r \in Calls =>
               /\ sent[r][i][1] = "result" => record[r] = "allow"
               /\ sent[r][i][1] = "denied" => record[r] = "deny"
               /\ record[r] = "none" => sent[r][i][1] = "error"

\* A request is answered once; only when the child's last lines are read after
\* its exit may the result follow the failure.
AnsweredOnce ==
    \A r \in Calls \cup Queries :
        Len(sent[r]) > 1 =>
            \E failure \in {"exited", "error"} : sent[r] = << <<failure, r>>, Result(r) >>

\* The transport does not end before the handlers in progress have replied.
RepliedBeforeEnd == \A c \in Calls \cap done : sent[c] # <<>>

\* A request the downstream server has received is answered, however out of
\* order its answers are and even if it exits instead.
ForwardedIsAnswered ==
    \A r \in Calls \cup Queries : r \in delivered ~> sent[r] # <<>>

\* Once the downstream server is gone the transport ends.
TransportEnds == child = "exited" ~> ended

=============================================================================
