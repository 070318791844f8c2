-------------------------- MODULE SdkAdaptersProofs --------------------------
(***************************************************************************)
(* No adapter runs a handler that guard() has not permitted, for any       *)
(* number of calls, of handlers that make calls, and of refusals.          *)
(***************************************************************************)
EXTENDS SdkAdapters, TLAPS

Fates == {"new", "waiting", "executing", "refused", "aborted", "completed"}

\* A call whose handler was entered is past its decision, which allowed it; a
\* call that has not arrived has no handler running.
HandlerInv ==
    /\ fate \in [Calls -> Fates]
    /\ record \in [Calls -> {"none", "allow", "deny"}]
    /\ shape \in [Calls -> Shapes \cup {None}]
    /\ \A c \in ran : /\ c \in Outer /\ record[c] = "allow" /\ fate[c] \notin {"new", "waiting"}
                      /\ shape[c].parses /\ shape[c].known

LEMMA HandlerInit == Init => HandlerInv
BY DEF Init, HandlerInv, Guard!Init, Fates

\* Only a permission enters a handler, and no decision is taken twice.
LEMMA HandlerStep == HandlerInv /\ [Next]_vars => HandlerInv'
<1> SUFFICES ASSUME HandlerInv, [Next]_vars
             PROVE  HandlerInv'
    OBVIOUS
<1>1. ASSUME NEW c \in Calls, Arrives(c)
      PROVE  HandlerInv'
  <2>1. /\ fate[c] = "new" /\ fate' = [fate EXCEPT ![c] = "waiting"]
        /\ UNCHANGED <<record, ran>>
        /\ \E s \in Shapes : shape' = [shape EXCEPT ![c] = s]
      BY <1>1 DEF Arrives, Guard!Request, Guard!Becomes
  <2>2. c \notin ran
      BY <2>1 DEF HandlerInv, Fates
  <2>3. QED
      BY <2>1, <2>2 DEF HandlerInv, Fates
<1>2. ASSUME NEW c \in Calls, Permit(c)
      PROVE  HandlerInv'
  <2>1. /\ fate[c] = "waiting" /\ fate' = [fate EXCEPT ![c] = "executing"]
        /\ record' = [record EXCEPT ![c] = "allow"]
        /\ UNCHANGED shape
      BY <1>2 DEF Permit, Guard!Permit, Guard!Becomes
  <2>2. \A d \in ran' : d \in ran \/ (d = c /\ c \in Outer /\ shape[c].parses /\ shape[c].known)
      BY <1>2 DEF Permit
  <2>3. QED
      BY <2>1, <2>2 DEF HandlerInv, Fates
<1>3. ASSUME NEW c \in Calls, Refuse(c)
      PROVE  HandlerInv'
  <2>1. /\ fate[c] = "waiting" /\ fate' = [fate EXCEPT ![c] = "refused"]
        /\ record' = [record EXCEPT ![c] = "deny"]
        /\ UNCHANGED <<shape, ran>>
      BY <1>3 DEF Refuse, Guard!Refuse, Guard!Becomes
  <2>2. c \notin ran
      BY <2>1 DEF HandlerInv, Fates
  <2>3. QED
      BY <2>1, <2>2 DEF HandlerInv, Fates
<1>4. ASSUME NEW c \in Calls, NEW to \in {"aborted", "completed"},
             fate' = [fate EXCEPT ![c] = to], UNCHANGED <<record, shape, ran>>
      PROVE  HandlerInv'
    BY <1>4 DEF HandlerInv, Fates
<1>5. ASSUME NEW c \in Calls, GuardFails(c) \/ Returns(c) \/ ToolFails(c) \/ UnknownTool(c)
      PROVE  HandlerInv'
    BY <1>4, <1>5
    DEF GuardFails, Returns, ToolFails, UnknownTool, Guard!Abort, Guard!Complete, Guard!Becomes
<1>6. ASSUME NEW c \in Outer, NEW d \in Inner, HandlerEscapes(c, d)
      PROVE  HandlerInv'
    BY <1>4, <1>6 DEF HandlerEscapes, Guard!Abort, Guard!Becomes, Outer
<1>7. ASSUME NEW c \in Outer, NEW d \in Inner, HandlerCalls(c, d)
      PROVE  HandlerInv'
  <2>1. /\ d \in Calls /\ fate[d] = "new" /\ fate' = [fate EXCEPT ![d] = "waiting"]
        /\ UNCHANGED <<record, shape, ran>>
      BY <1>7, AdaptersAssumption DEF HandlerCalls, Guard!Request, Guard!Becomes
  <2>2. d \notin ran
      BY <2>1 DEF HandlerInv, Fates
  <2>3. QED
      BY <2>1, <2>2 DEF HandlerInv, Fates
<1>8. CASE UNCHANGED vars
    BY <1>8 DEF HandlerInv, vars, guardVars
<1>9. QED
    BY <1>1, <1>2, <1>3, <1>5, <1>6, <1>7, <1>8 DEF Next

\* Whatever the model sends, a handler runs only under a permission on record
\* and with arguments that parsed (wrapTool, guardToolUse, guardOpenAIToolCall).
THEOREM HandlersArePermitted == Spec => []HandlerRunsPermitted
<1>1. HandlerInv => HandlerRunsPermitted
    BY DEF HandlerInv, HandlerRunsPermitted
<1>2. QED
    BY HandlerInit, HandlerStep, <1>1, PTL DEF Spec

-----------------------------------------------------------------------------
(*                       What the agent loop is told                       *)

Over == {"refused", "aborted", "completed"}

\* What the record says of a call, by how far the call is.
RecordInv ==
    \A c \in Calls :
        /\ fate[c] \in {"new", "waiting"} => record[c] = "none"
        /\ fate[c] \in {"executing", "completed"} => record[c] = "allow"
        /\ record[c] = "deny" <=> fate[c] = "refused"

\* What the loop is told of a call, see AnswersAreTrue.
TrueOf(c, a) ==
    /\ a.kind = "result" => c \in ran /\ fate[c] = "completed"
    /\ a.kind = "refusal" =>
           record[a.about] = "deny" /\ (a.about = c \/ within[a.about] = c)
    /\ a.kind = "malformed" => c \notin ran /\ record[c] # "none"
    /\ a.kind = "unknown" => c \notin ran /\ record[c] = "allow"
    /\ a.kind = "thrown" => record[a.about] # "deny"
    /\ record[c] = "deny" => a.kind \in {"refusal", "malformed"}

\* A call is answered when it is over, about a call that is over: itself, or
\* in a refusal an inner call.  Neither changes from then on.
AnswerInv ==
    /\ within \in [Calls -> Calls \cup {None}]
    /\ DOMAIN answer = Calls
    /\ RecordInv
    /\ \A c \in Outer : answer[c] # None =>
           /\ fate[c] \in Over
           /\ answer[c].about \in Calls /\ fate[answer[c].about] \in Over
           /\ TrueOf(c, answer[c])

LEMMA AnswerInit == Init => AnswerInv
BY DEF Init, Guard!Init, AnswerInv, RecordInv, Outer

\* A step moves one call, along one edge of guard()'s promise.
LEMMA OneCallMoves ==
    ASSUME HandlerInv, RecordInv, Next
    PROVE  \E c \in Calls :
               /\ fate[c] \notin Over
               /\ \A d \in Calls \ {c} : fate'[d] = fate[d] /\ record'[d] = record[d]
               /\ RecordInv'
               /\ ran \subseteq ran' /\ ran' \subseteq ran \cup {c}
<1> DEFINE Moves(c) ==
               /\ fate[c] \notin Over
               /\ \A d \in Calls \ {c} : fate'[d] = fate[d] /\ record'[d] = record[d]
               /\ RecordInv'
               /\ ran \subseteq ran' /\ ran' \subseteq ran \cup {c}
<1>1. ASSUME NEW c \in Calls, Guard!Request(c), UNCHANGED ran
      PROVE  Moves(c)
    BY <1>1 DEF Guard!Request, Guard!Becomes, HandlerInv, RecordInv, Over
<1>2. ASSUME NEW c \in Calls, Guard!Permit(c), ran' = ran \/ ran' = ran \cup {c}
      PROVE  Moves(c)
    BY <1>2 DEF Guard!Permit, Guard!Becomes, HandlerInv, RecordInv, Over
<1>3. ASSUME NEW c \in Calls, Guard!Refuse(c), UNCHANGED ran
      PROVE  Moves(c)
    BY <1>3 DEF Guard!Refuse, Guard!Becomes, HandlerInv, RecordInv, Over
<1>4. ASSUME NEW c \in Calls, Guard!Abort(c) \/ Guard!Complete(c), UNCHANGED ran
      PROVE  Moves(c)
    BY <1>4 DEF Guard!Abort, Guard!Complete, Guard!Becomes, HandlerInv, RecordInv, Over
<1> HIDE DEF Moves
<1>5. ASSUME NEW c \in Calls,
             \/ Arrives(c) \/ Permit(c) \/ Refuse(c) \/ GuardFails(c)
             \/ Returns(c) \/ ToolFails(c) \/ UnknownTool(c)
      PROVE  Moves(c)
    BY <1>1, <1>2, <1>3, <1>4, <1>5
    DEF Arrives, Permit, Refuse, GuardFails, Returns, ToolFails, UnknownTool
<1>6. ASSUME NEW c \in Outer, NEW d \in Inner, HandlerCalls(c, d) \/ HandlerEscapes(c, d)
      PROVE  \E e \in Calls : Moves(e)
  <2>1. c \in Calls /\ d \in Calls
      BY AdaptersAssumption DEF Outer
  <2>2. QED
      BY <1>1, <1>4, <1>6, <2>1 DEF HandlerCalls, HandlerEscapes
<1>7. \E c \in Calls : Moves(c)
    BY <1>5, <1>6 DEF Next
<1>8. QED
    BY <1>7 DEF Moves

\* An inner call is made once: what it is within does not change afterwards.
LEMMA WithinKept ==
    ASSUME HandlerInv, AnswerInv, Next
    PROVE  /\ within' \in [Calls -> Calls \cup {None}]
           /\ \A d \in Calls : fate[d] # "new" => within'[d] = within[d]
<1>1. CASE UNCHANGED within
    BY <1>1 DEF AnswerInv
<1>2. ASSUME NEW c \in Outer, NEW d \in Inner, HandlerCalls(c, d)
      PROVE  /\ within' \in [Calls -> Calls \cup {None}]
             /\ \A e \in Calls : fate[e] # "new" => within'[e] = within[e]
    BY <1>2 DEF HandlerCalls, Guard!Request, Guard!Becomes, AnswerInv, Outer
<1>3. QED
    BY <1>1, <1>2 DEF Next, Arrives, Permit, Refuse, GuardFails, Returns, ToolFails,
                      UnknownTool, HandlerEscapes

\* An answer that has been given stays true.
LEMMA AnswerStaysTrue ==
    ASSUME HandlerInv, AnswerInv, Next, NEW c \in Outer, answer[c] # None,
           answer'[c] = answer[c]
    PROVE  /\ fate'[c] \in Over
           /\ answer[c].about \in Calls /\ fate'[answer[c].about] \in Over
           /\ TrueOf(c, answer[c])'
<1>1. c \in Calls
    BY DEF Outer
<1>2. /\ fate[c] \in Over
      /\ answer[c].about \in Calls /\ fate[answer[c].about] \in Over
      /\ TrueOf(c, answer[c])
    BY DEF AnswerInv
<1>3. PICK e \in Calls : /\ fate[e] \notin Over
                         /\ \A d \in Calls \ {e} : fate'[d] = fate[d] /\ record'[d] = record[d]
                         /\ ran \subseteq ran' /\ ran' \subseteq ran \cup {e}
    BY OneCallMoves DEF AnswerInv
<1>4. c # e /\ answer[c].about # e
    BY <1>2, <1>3
<1>5. within'[answer[c].about] = within[answer[c].about]
    BY <1>2, WithinKept DEF Over
<1>6. QED
    BY <1>1, <1>2, <1>3, <1>4, <1>5 DEF TrueOf

\* An answer that is given now is true.
LEMMA NewAnswerIsTrue ==
    ASSUME HandlerInv, AnswerInv, Next, NEW c \in Outer, answer'[c] # answer[c]
    PROVE  /\ fate'[c] \in Over
           /\ answer'[c].about \in Calls /\ fate'[answer'[c].about] \in Over
           /\ TrueOf(c, answer[c])'
<1> USE DEF AnswerInv, Answers, Answer
<1>0. c \in Calls /\ DOMAIN answer = Calls /\ DOMAIN fate = Calls /\ DOMAIN record = Calls
    BY DEF Outer, HandlerInv
<1>1. ASSUME NEW e \in Calls, Refuse(e)
      PROVE  /\ fate'[c] \in Over
             /\ answer'[c].about \in Calls /\ fate'[answer'[c].about] \in Over
             /\ TrueOf(c, answer[c])'
  <2>1. /\ answer' = [answer EXCEPT ![e] = Refusal(e, e)]
        /\ fate[e] = "waiting" /\ fate' = [fate EXCEPT ![e] = "refused"]
        /\ record' = [record EXCEPT ![e] = "deny"] /\ UNCHANGED ran
      BY <1>1 DEF Refuse, Guard!Refuse, Guard!Becomes
  <2>2. e = c /\ c \notin ran
      BY <1>0, <2>1 DEF HandlerInv
  <2>3. /\ answer'[c].about = c /\ answer'[c].kind \in {"refusal", "malformed"}
        /\ fate'[c] = "refused" /\ record'[c] = "deny" /\ c \notin ran'
      BY <1>0, <2>1, <2>2 DEF Refusal
  <2>4. QED
      BY <1>0, <2>3 DEF TrueOf, Over
<1>2. ASSUME NEW e \in Calls, GuardFails(e)
      PROVE  /\ fate'[c] \in Over
             /\ answer'[c].about \in Calls /\ fate'[answer'[c].about] \in Over
             /\ TrueOf(c, answer[c])'
  <2>1. /\ answer' = [answer EXCEPT ![e] = Answer("thrown", e)]
        /\ fate[e] = "waiting" /\ fate' = [fate EXCEPT ![e] = "aborted"]
        /\ UNCHANGED record
      BY <1>2 DEF GuardFails, Guard!Abort, Guard!Becomes
  <2>2. e = c /\ record[c] = "none"
      BY <1>0, <2>1 DEF RecordInv
  <2>3. /\ answer'[c].about = c /\ answer'[c].kind = "thrown"
        /\ fate'[c] = "aborted" /\ record'[c] = "none"
      BY <1>0, <2>1, <2>2
  <2>4. QED
      BY <1>0, <2>3 DEF TrueOf, Over
<1>3. ASSUME NEW e \in Calls, Returns(e) \/ ToolFails(e) \/ UnknownTool(e)
      PROVE  /\ fate'[c] \in Over
             /\ answer'[c].about \in Calls /\ fate'[answer'[c].about] \in Over
             /\ TrueOf(c, answer[c])'
  <2>1. /\ fate[e] = "executing" /\ UNCHANGED <<record, ran>>
        /\ \E kind : answer' = [answer EXCEPT ![e] = Answer(kind, e)]
        /\ \/ fate' = [fate EXCEPT ![e] = "completed"]
           \/ fate' = [fate EXCEPT ![e] = "aborted"]
      BY <1>3 DEF Returns, ToolFails, UnknownTool, Guard!Complete, Guard!Abort, Guard!Becomes,
                  Outer
  <2>2. e = c /\ record[c] = "allow"
      BY <1>0, <2>1 DEF RecordInv
  <2>3. answer'[c].about = c /\ fate'[c] \in {"completed", "aborted"} /\ record'[c] = "allow"
      BY <1>0, <2>1, <2>2
  <2>4. \/ c \in ran /\ fate'[c] = "completed" /\ answer'[c].kind = "result"
        \/ answer'[c].kind = "thrown"
        \/ ~shape[c].parses /\ answer'[c].kind = "malformed"
        \/ ~shape[c].known /\ answer'[c].kind = "unknown"
      BY <1>0, <1>3, <2>2 DEF Returns, ToolFails, UnknownTool, Guard!Complete, Guard!Becomes
  <2>5. c \in ran => shape[c].parses /\ shape[c].known
      BY DEF HandlerInv
  <2>6. QED
      BY <1>0, <2>1, <2>3, <2>4, <2>5 DEF TrueOf, Over
<1>4. ASSUME NEW e \in Outer, NEW d \in Inner, HandlerEscapes(e, d)
      PROVE  /\ fate'[c] \in Over
             /\ answer'[c].about \in Calls /\ fate'[answer'[c].about] \in Over
             /\ TrueOf(c, answer[c])'
  <2>1. /\ answer' = [answer EXCEPT ![e] = Refusal(e, d)]
        /\ fate[e] = "executing" /\ fate' = [fate EXCEPT ![e] = "aborted"]
        /\ e \in ran /\ within[d] = e /\ fate[d] = "refused"
        /\ UNCHANGED <<record, ran, within>>
      BY <1>4 DEF HandlerEscapes, Guard!Abort, Guard!Becomes, guardVars
  <2>2. e = c /\ shape[c].parses /\ d \in Calls
      BY <1>0, <2>1, AdaptersAssumption DEF HandlerInv
  <2>3. record[c] = "allow" /\ record[d] = "deny" /\ d # c
      BY <1>0, <2>1, <2>2 DEF RecordInv
  <2>4. /\ answer'[c].about = d /\ answer'[c].kind = "refusal"
        /\ fate'[c] = "aborted" /\ fate'[d] = "refused"
      BY <1>0, <2>1, <2>2, <2>3 DEF Refusal
  <2>5. QED
      BY <2>1, <2>2, <2>3, <2>4 DEF TrueOf, Over
<1>5. QED
    BY <1>1, <1>2, <1>3, <1>4 DEF Next, Arrives, Permit, HandlerCalls

LEMMA AnswerStep == HandlerInv /\ AnswerInv /\ [Next]_vars => AnswerInv'
<1>1. ASSUME HandlerInv, AnswerInv, Next
      PROVE  AnswerInv'
  <2>1. RecordInv'
      BY <1>1, OneCallMoves DEF AnswerInv
  <2>2. within' \in [Calls -> Calls \cup {None}]
      BY <1>1, WithinKept
  <2>3. DOMAIN answer' = Calls
      BY <1>1 DEF AnswerInv, Next, Arrives, Permit, Refuse, GuardFails, Returns, ToolFails,
                  UnknownTool, HandlerCalls, HandlerEscapes, Answers
  <2>4. ASSUME NEW c \in Outer, answer'[c] # None
        PROVE  /\ fate'[c] \in Over
               /\ answer'[c].about \in Calls /\ fate'[answer'[c].about] \in Over
               /\ TrueOf(c, answer[c])'
      BY <1>1, <2>4, AnswerStaysTrue, NewAnswerIsTrue
  <2>5. QED
      BY <2>1, <2>2, <2>3, <2>4 DEF AnswerInv
<1>2. HandlerInv /\ AnswerInv /\ UNCHANGED vars => AnswerInv'
    BY DEF AnswerInv, RecordInv, TrueOf, vars, guardVars
<1>3. QED
    BY <1>1, <1>2

\* The loop is told what happened (sdk.ts): a result comes from a handler that
\* ran to its end, a refusal has a refused call behind it, its own or one that
\* its handler made, and a refused call never ends the loop with an exception.
THEOREM LoopIsToldTheTruth == Spec => []AnswersAreTrue
<1>1. AnswerInv => AnswersAreTrue
    BY DEF AnswerInv, AnswersAreTrue, TrueOf
<1>2. HandlerInv /\ AnswerInv /\ [Next]_vars => (HandlerInv /\ AnswerInv)'
    BY HandlerStep, AnswerStep
<1>3. QED
    BY HandlerInit, AnswerInit, <1>1, <1>2, PTL DEF Spec

=============================================================================
