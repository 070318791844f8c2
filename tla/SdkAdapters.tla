---------------------------- MODULE SdkAdapters -----------------------------
(***************************************************************************)
(* The adapters for agent loops (js/src/adapters/sdk.ts): wrapTool(),      *)
(* guardToolUse() and guardOpenAIToolCall() put one tool call through      *)
(* guard() and turn a refusal into tool output, so that the loop goes on   *)
(* and the model learns what was refused.                                  *)
(*                                                                         *)
(* Of guard() they know what Writ promises.  A handler may call guard()    *)
(* itself, and let the ToolwritDenied of that inner call escape.           *)
(***************************************************************************)
EXTENDS Naturals, FiniteSets

CONSTANTS
    Calls,      \* the calls the model makes, and those that handlers make
    Inner,      \* the ones of Calls that a handler may make of guard() itself
    Ceiling,    \* {n} when guard() permits at most n calls, {} when unlimited
    None

ASSUME AdaptersAssumption == Inner \subseteq Calls /\ Ceiling \subseteq Nat

Outer == Calls \ Inner

\* How a call arrives: through a wrapped handler, as a tool_use block, or as an
\* OpenAI tool call; its arguments may not parse, its tool may have no handler.
Shapes ==
    [adapter : {"wrapTool"}, parses : {TRUE}, known : {TRUE}]
        \cup [adapter : {"guardToolUse"}, parses : {TRUE}, known : BOOLEAN]
        \cup [adapter : {"guardOpenAIToolCall"}, parses : BOOLEAN, known : BOOLEAN]

VARIABLES
    fate, record, permits,  \* guard(), see Writ
    shape,      \* how each call arrived
    within,     \* the outer call whose handler made an inner one
    ran,        \* the calls whose handler has been entered
    answer      \* what the agent loop got for each outer call

guardVars == <<fate, record, permits>>
vars == <<guardVars, shape, within, ran, answer>>

Guard == INSTANCE Writ

-----------------------------------------------------------------------------
\* What the loop gets: [kind, about], a tool message under the call's own id or
\* an exception; `about` is the call whose entry a refusal quotes.
Answer(kind, about) == [kind |-> kind, about |-> about]

Answers(c, a) == answer' = [answer EXCEPT ![c] = a]

\* A refusal that escapes from guard(): a message, which for arguments that do
\* not parse is about the arguments.
Refusal(c, denied) ==
    Answer(IF shape[c].parses THEN "refusal" ELSE "malformed", denied)

Init ==
    /\ Guard!Init
    /\ shape = [c \in Calls |-> None]
    /\ within = [c \in Calls |-> None]
    /\ ran = {}
    /\ answer = [c \in Calls |-> None]

\* The model makes a call; it is guarded however it arrived.
Arrives(c) ==
    /\ c \in Outer
    /\ Guard!Request(c)
    /\ \E s \in Shapes : shape' = [shape EXCEPT ![c] = s]
    /\ UNCHANGED <<within, ran, answer>>

\* A handler calls guard() and waits for it.
HandlerCalls(c, d) ==
    /\ d \in Inner
    /\ c \in ran /\ fate[c] = "executing"
    /\ \A e \in Inner : within[e] = c => fate[e] \in {"refused", "aborted", "completed"}
    /\ Guard!Request(d)
    /\ within' = [within EXCEPT ![d] = c]
    /\ UNCHANGED <<shape, ran, answer>>

\* Mutant: arguments that do not parse are handed to the tool.
PermitUnparsed(c) ==
    /\ Guard!Permit(c)
    /\ ran' = IF c \in Outer /\ shape[c].known THEN ran \cup {c} ELSE ran
    /\ UNCHANGED <<shape, within, answer>>

\* guard() enters `execute`: the handler, if there is one and there are
\* arguments for it.
Permit(c) ==
    /\ Guard!Permit(c)
    /\ ran' = IF c \in Outer /\ shape[c].parses /\ shape[c].known THEN ran \cup {c} ELSE ran
    /\ UNCHANGED <<shape, within, answer>>

\* guard() throws ToolwritDenied.  That of an inner call goes to the handler,
\* which may return without it or let it escape (HandlerEscapes).
Refuse(c) ==
    /\ Guard!Refuse(c)
    /\ IF c \in Outer THEN Answers(c, Refusal(c, c)) ELSE UNCHANGED answer
    /\ UNCHANGED <<shape, within, ran>>

\* guard() throws something else before it has decided.
GuardFails(c) ==
    /\ fate[c] = "waiting"
    /\ Guard!Abort(c)
    /\ IF c \in Outer THEN Answers(c, Answer("thrown", c)) ELSE UNCHANGED answer
    /\ UNCHANGED <<shape, within, ran>>

NoneWithin(c) == \A d \in Inner : within[d] = c => fate[d] \notin {"waiting", "executing"}

\* `execute` returns: the handler's value, which may have no JSON text to make a
\* message of, or the text about the arguments.
Returns(c) ==
    /\ fate[c] = "executing"
    /\ NoneWithin(c)
    /\ \/ c \in Inner /\ UNCHANGED answer
       \/ c \in ran /\ Answers(c, Answer("result", c))
       \/ c \in ran /\ shape[c].adapter # "wrapTool" /\ Answers(c, Answer("thrown", c))
       \/ c \in Outer /\ ~shape[c].parses /\ Answers(c, Answer("malformed", c))
    /\ Guard!Complete(c)
    /\ UNCHANGED <<shape, within, ran>>

\* The tool fails, or guard() fails in accounting for it: that is not hidden.
ToolFails(c) ==
    /\ fate[c] = "executing"
    /\ NoneWithin(c)
    /\ \/ c \in Inner /\ UNCHANGED answer
       \/ c \in ran /\ Answers(c, Answer("thrown", c))
       \/ c \in Outer /\ ~shape[c].parses /\ Answers(c, Answer("thrown", c))
    /\ Guard!Abort(c)
    /\ UNCHANGED <<shape, within, ran>>

\* There is no handler of that name: UnknownTool, from inside guard().
UnknownTool(c) ==
    /\ c \in Outer
    /\ fate[c] = "executing"
    /\ shape[c].parses /\ ~shape[c].known
    /\ Answers(c, Answer("unknown", c))
    /\ Guard!Abort(c)
    /\ UNCHANGED <<shape, within, ran>>

\* Mutant: a refusal inside a tool is thrown into the loop.
HandlerEscapesThrown(c, d) ==
    /\ c \in ran /\ fate[c] = "executing"
    /\ within[d] = c /\ fate[d] = "refused"
    /\ NoneWithin(c)
    /\ Answers(c, Answer("thrown", d))
    /\ Guard!Abort(c)
    /\ UNCHANGED <<shape, within, ran>>

\* The handler lets the refusal of its inner call escape: the adapter cannot
\* tell it from one of its own.
HandlerEscapes(c, d) ==
    /\ c \in ran /\ fate[c] = "executing"
    /\ within[d] = c /\ fate[d] = "refused"
    /\ NoneWithin(c)
    /\ Answers(c, Refusal(c, d))
    /\ Guard!Abort(c)
    /\ UNCHANGED <<shape, within, ran>>

Next ==
    \/ \E c \in Calls :
           \/ Arrives(c)
           \/ Permit(c)
           \/ Refuse(c)
           \/ GuardFails(c)
           \/ Returns(c)
           \/ ToolFails(c)
           \/ UnknownTool(c)
    \/ \E c \in Outer, d \in Inner : HandlerCalls(c, d) \/ HandlerEscapes(c, d)

Spec == Init /\ [][Next]_vars

-----------------------------------------------------------------------------
(*                              Properties                                 *)

\* A handler runs only under a permission that is on record, for a call whose
\* arguments parsed.
HandlerRunsPermitted ==
    \A c \in ran : record[c] = "allow" /\ shape[c].parses /\ shape[c].known

\* The loop is told what happened: a result only from a handler that ran to its
\* end, a refusal only with a refused call behind it, its own or one its handler
\* made; and a refused call never ends the loop with an exception.
AnswersAreTrue ==
    \A c \in Outer : answer[c] # None =>
        LET a == answer[c]
        IN  /\ a.kind = "result" => c \in ran /\ fate[c] = "completed"
            /\ a.kind = "refusal" =>
                   record[a.about] = "deny" /\ (a.about = c \/ within[a.about] = c)
            /\ a.kind = "malformed" => c \notin ran /\ record[c] # "none"
            /\ a.kind = "unknown" => c \notin ran /\ record[c] = "allow"
            /\ a.kind = "thrown" => record[a.about] # "deny"
            /\ record[c] = "deny" => a.kind \in {"refusal", "malformed"}

=============================================================================
