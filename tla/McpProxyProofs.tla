--------------------------- MODULE McpProxyProofs ---------------------------
(***************************************************************************)
(* The proxy is no way around guard(), for any number of messages.         *)
(***************************************************************************)
EXTENDS McpProxy, SequenceTheorems, TLAPS

\* A tools/call that has been forwarded is past its decision, which allowed it.
ForwardedInv ==
    /\ fate \in [Guarded -> {"new", "waiting", "executing"} \cup Finished]
    /\ record \in [Guarded -> {"none", "allow", "deny"}]
    /\ \A c \in Guarded \cap delivered :
           record[c] = "allow" /\ fate[c] \notin {"new", "waiting"}

LEMMA ForwardedInit == Init => ForwardedInv
BY DEF Init, ForwardedInv, Guard!Init

\* What guard() does for one call leaves the others alone.
LEMMA BecomesType ==
    ASSUME fate \in [Guarded -> {"new", "waiting", "executing"} \cup Finished],
           NEW c \in Guarded, NEW from,
           NEW to \in {"new", "waiting", "executing"} \cup Finished,
           Guard!Becomes(c, from, to)
    PROVE  /\ fate' \in [Guarded -> {"new", "waiting", "executing"} \cup Finished]
           /\ fate'[c] = to
           /\ \A d \in Guarded \ {c} : fate'[d] = fate[d]
BY DEF Guard!Becomes

\* Only a permission forwards a tools/call.
LEMMA ForwardedStep == ForwardedInv /\ [Next]_vars => ForwardedInv'
<1> SUFFICES ASSUME ForwardedInv, [Next]_vars
             PROVE  ForwardedInv'
    OBVIOUS
<1>1. ASSUME NEW c \in Guarded, ClientCall(c)
      PROVE  ForwardedInv'
    BY <1>1, BecomesType DEF ForwardedInv, ClientCall, Guard!Request, Guard!Becomes, Finished
<1>2. ASSUME NEW c \in Guarded, Permit(c)
      PROVE  ForwardedInv'
  <2>1. /\ fate[c] = "waiting"
        /\ fate' = [fate EXCEPT ![c] = "executing"]
        /\ record' = [record EXCEPT ![c] = "allow"]
        /\ delivered' \subseteq delivered \cup {c}
      BY <1>2 DEF Permit, Guard!Permit, Guard!Becomes, ToChild
  <2>2. \A d \in Guarded \cap delivered : d # c
      BY <2>1 DEF ForwardedInv
  <2>3. QED
      BY <2>1, <2>2 DEF ForwardedInv, Finished
<1>3. ASSUME NEW c \in Guarded, Refuse(c)
      PROVE  ForwardedInv'
  <2>1. c \notin delivered
      BY <1>3 DEF Refuse, ForwardedInv
  <2>2. QED
      BY <1>3, <2>1 DEF ForwardedInv, Refuse, Guard!Refuse, Guard!Abort, Guard!Becomes, Finished
<1>4. ASSUME NEW c \in Guarded, Return(c)
      PROVE  ForwardedInv'
    BY <1>4 DEF ForwardedInv, Return, Guard!Complete, Guard!Abort, Guard!Becomes, Finished
<1>5. ASSUME NEW q \in Queries, ClientQuery(q)
      PROVE  ForwardedInv'
  <2>1. q \notin Guarded
      BY ProxyAssumption
  <2>2. delivered' \subseteq delivered \cup {q} /\ UNCHANGED <<fate, record>>
      BY <1>5 DEF ClientQuery, ToChild, guardVars
  <2>3. QED
      BY <2>1, <2>2 DEF ForwardedInv
<1>6. CASE UNCHANGED <<fate, record, delivered>>
    BY <1>6 DEF ForwardedInv
<1>7. QED
    BY <1>1, <1>2, <1>3, <1>4, <1>5, <1>6
    DEF Next, vars, guardVars, Spawned, SpawnFails, Reply, ChildAnswers, ChildAsks,
        ChildWrites, ChildLine, Exit, EndOutput

\* The proxy enforces every tools/call, with or without an id: none reaches
\* the downstream server unless guard() has recorded its permission.
THEOREM NoBypass == Spec => []OnlyPermittedForwarded
<1>1. ForwardedInv => OnlyPermittedForwarded
    BY DEF ForwardedInv, OnlyPermittedForwarded
<1>2. QED
    BY ForwardedInit, ForwardedStep, <1>1, PTL DEF Spec

-----------------------------------------------------------------------------
(*                        What the client is sent                          *)

\* The downstream server numbers its requests apart from the client's: with a
\* shared id the proxy takes the server's request for the client's response.
IdsApart == \A s \in ServerRequests : IdOf[s] \notin Calls \cup Queries

\* "No response yet" is not a response.
NoneIsNoBody == \A kind, m : None # <<kind, m>>

Asked == Calls \cup Queries

Bodies ==
    {"result", "denied", "error", "exited", "request"} \X (Guarded \cup Queries \cup ServerRequests)

\* A line of the child that has not been read answers r.
Unread(r) == \E i \in DOMAIN upstream : upstream[i].body = Result(r)

ProxyType ==
    /\ sent \in [Ids -> Seq(Bodies)]
    /\ upstream \in Seq([id : Ids, body : Bodies])
    /\ DOMAIN response = Guarded

\* How far a call is, what is on record of it and what it has been answered.
DecidedInv ==
    \A c \in Guarded :
        /\ fate[c] \in {"new", "waiting"} =>
               record[c] = "none" /\ response[c] = None /\ c \notin done
        /\ fate[c] \in {"executing", "completed"} => record[c] = "allow"
        /\ fate[c] = "refused" => record[c] = "deny"
        /\ fate[c] = "completed" /\ c \in Calls => response[c] # None
        /\ response[c] \in {None, Result(c), <<"exited", c>>}
        /\ c \in done => fate[c] \in Finished

\* The lines of the child: answers to what it received, and its own requests,
\* each written once.
LinesInv ==
    /\ \A i \in DOMAIN upstream :
           /\ upstream[i].body \in written
           /\ \/ \E r \in Asked \cap delivered : upstream[i] = [id |-> r, body |-> Result(r)]
              \/ \E s \in ServerRequests :
                     upstream[i] = [id |-> IdOf[s], body |-> <<"request", s>>]
    /\ \A i, j \in DOMAIN upstream : upstream[i].body = upstream[j].body => i = j

\* A request that waits has not been answered.  One that does not wait although
\* its answer is still to be read was failed by the exit of the child.
OwedInv ==
    /\ child = "starting" => delivered = {} /\ \A c \in Guarded : fate[c] = "new"
    /\ pending \subseteq Asked
    /\ \A r \in pending :
           /\ sent[r] = <<>>
           /\ r \in Calls => fate[r] = "executing" /\ response[r] = None
    /\ \A r \in Asked \cap delivered :
           child = "up" /\ Result(r) \notin written => r \in pending
    /\ \A r \in Asked \ pending : Unread(r) =>
           /\ sent[r] = <<>> \/ \E failure \in {"exited", "error"} : sent[r] = << <<failure, r>> >>
           /\ r \in Calls => response[r] = <<"exited", r>>

\* What one message under the id of request r may be, see OwnReply.
Own(r, reply) ==
    /\ reply[2] = r
    /\ r \in Calls =>
           /\ reply[1] = "result" => record[r] = "allow"
           /\ reply[1] = "denied" => record[r] = "deny"
           /\ record[r] = "none" => reply[1] = "error"

\* Every message under the id of request r.
OwnAll(r) == \A i \in DOMAIN sent[r] : Own(r, sent[r][i])

SentInv ==
    /\ \A c \in Calls \ done : sent[c] = <<>>
    /\ \A r \in Asked : OwnAll(r)
    /\ AnsweredOnce

ProxyInv == ForwardedInv /\ ProxyType /\ DecidedInv /\ LinesInv /\ OwedInv /\ SentInv

LEMMA ProxyInit == Init => ProxyInv
<1> SUFFICES ASSUME Init
             PROVE  ProxyInv
    OBVIOUS
<1>1. Guarded \subseteq Ids \cup Guarded /\ Asked \subseteq Ids /\ Calls \subseteq Guarded
    BY DEF Asked, Ids, Guarded
<1>2. sent = [id \in Ids |-> <<>>] /\ upstream = <<>> /\ response = [c \in Guarded |-> None]
    BY DEF Init
<1>3. ProxyType
    BY <1>2 DEF ProxyType
<1>4. DecidedInv /\ LinesInv /\ OwedInv
    BY <1>2 DEF Init, Guard!Init, DecidedInv, LinesInv, OwedInv, Unread, Finished
<1>5. SentInv
    BY <1>1, <1>2 DEF Init, SentInv, OwnAll, AnsweredOnce, Asked
<1>6. QED
    BY <1>3, <1>4, <1>5, ForwardedInit DEF ProxyInv

\* What sending one message to the client does.
LEMMA Sends ==
    ASSUME ProxyType, NEW id \in Ids, NEW body \in Bodies, ToClient(id, body)
    PROVE  /\ sent' \in [Ids -> Seq(Bodies)]
           /\ \A o \in Ids \ {id} : sent'[o] = sent[o]
           /\ sent'[id] = sent[id] \/ sent'[id] = Append(sent[id], body)
           /\ ~ended => sent'[id] = Append(sent[id], body)
<1>1. Append(sent[id], body) \in Seq(Bodies)
    BY DEF ProxyType
<1>2. QED
    BY <1>1 DEF ToClient, ProxyType

\* A message that is about request r keeps what the client has read of r so.
LEMMA OwnGrows ==
    ASSUME NEW r, NEW body, NEW replies \in Seq(Bodies), body \in Bodies, Own(r, body),
           \A i \in DOMAIN replies : Own(r, replies[i])
    PROVE  LET longer == Append(replies, body)
           IN  \A i \in DOMAIN longer : Own(r, longer[i])
<1> DEFINE longer == Append(replies, body)
<1>1. \A i \in DOMAIN longer : longer[i] = body \/ (i \in DOMAIN replies /\ longer[i] = replies[i])
    OBVIOUS
<1> HIDE DEF longer
<1>2. QED
    BY <1>1 DEF longer

\* Reading a line: the others stay, and its body is not among them.
LEMMA LineRead ==
    ASSUME ProxyType, LinesInv, upstream # <<>>, upstream' = Tail(upstream)
    PROVE  /\ upstream' \in Seq([id : Ids, body : Bodies])
           /\ 1 \in DOMAIN upstream /\ Head(upstream) = upstream[1]
           /\ \A i \in DOMAIN upstream' : i + 1 \in DOMAIN upstream /\ i + 1 # 1
                                              /\ upstream'[i] = upstream[i + 1]
           /\ \A i \in DOMAIN upstream' : upstream'[i].body # Head(upstream).body
<1>1. /\ upstream' \in Seq([id : Ids, body : Bodies])
      /\ 1 \in DOMAIN upstream /\ Head(upstream) = upstream[1]
      /\ \A i \in DOMAIN upstream' : i + 1 \in DOMAIN upstream /\ i + 1 # 1
                                         /\ upstream'[i] = upstream[i + 1]
    BY DEF ProxyType
<1>2. QED
    BY <1>1 DEF LinesInv

\* handleFromChild(): an answer goes to its request if that waits and else to
\* the client; a request of the server goes to the client.
LEMMA ChildLineCases ==
    ASSUME IdsApart, ProxyInv, ChildLine
    PROVE  \/ \E r \in Asked \cap delivered :
                  /\ Head(upstream) = [id |-> r, body |-> Result(r)]
                  /\ \/ /\ r \in pending /\ r \in Calls /\ pending' = pending \ {r}
                        /\ response' = [response EXCEPT ![r] = Result(r)]
                        /\ UNCHANGED sent
                     \/ /\ r \in pending /\ r \notin Calls /\ pending' = pending \ {r}
                        /\ UNCHANGED response
                        /\ ToClient(r, Result(r))
                     \/ /\ r \notin pending
                        /\ UNCHANGED <<pending, response>>
                        /\ ToClient(r, Result(r))
           \/ \E s \in ServerRequests :
                  /\ Head(upstream) = [id |-> IdOf[s], body |-> <<"request", s>>]
                  /\ UNCHANGED <<pending, response>>
                  /\ ToClient(IdOf[s], <<"request", s>>)
<1>1. 1 \in DOMAIN upstream /\ Head(upstream) = upstream[1]
    BY LineRead DEF ProxyInv, ChildLine
<1>2. CASE \E r \in Asked \cap delivered : Head(upstream) = [id |-> r, body |-> Result(r)]
  <2>1. PICK r \in Asked \cap delivered : Head(upstream) = [id |-> r, body |-> Result(r)]
      BY <1>2
  <2>2. Head(upstream).id = r /\ Head(upstream).body = Result(r)
      BY <2>1
  <2>3. QED
      BY <2>1, <2>2 DEF ChildLine, Deliver
<1>3. ASSUME NEW s \in ServerRequests,
             Head(upstream) = [id |-> IdOf[s], body |-> <<"request", s>>]
      PROVE  UNCHANGED <<pending, response>> /\ ToClient(IdOf[s], <<"request", s>>)
  <2>1. Head(upstream).id = IdOf[s] /\ Head(upstream).body = <<"request", s>>
      BY <1>3
  <2>2. IdOf[s] \notin pending
      BY DEF IdsApart, ProxyInv, OwedInv, Asked
  <2>3. QED
      BY <2>1, <2>2 DEF ChildLine
<1>4. QED
    BY <1>1, <1>2, <1>3 DEF ProxyInv, LinesInv

\* What a handler replies is about its call.
LEMMA ReplyCases ==
    ASSUME ProxyInv, NEW c \in Calls, Reply(c)
    PROVE  \E body \in Bodies : /\ ToClient(c, body)
                                /\ Own(c, body)
                                /\ response[c] = <<"exited", c>> /\ fate[c] # "refused" =>
                                       body \in {<<"exited", c>>, <<"error", c>>}
<1> DEFINE body == CASE fate[c] = "completed" -> response[c]
                     [] fate[c] = "refused"   -> <<"denied", c>>
                     [] fate[c] = "aborted"   -> <<"error", c>>
<1>1. c \in Guarded /\ c \notin Notices
    BY ProxyAssumption DEF Guarded
<1>2. ToClient(c, body) /\ fate[c] \in Finished
    BY <1>1, Zenon DEF Reply
<1>3. CASE fate[c] = "completed"
  <2>1. body = response[c] /\ response[c] \in {Result(c), <<"exited", c>>} /\ record[c] = "allow"
      BY <1>1, <1>3 DEF ProxyInv, DecidedInv
  <2> HIDE DEF body
  <2>2. body \in Bodies /\ Own(c, body)
      BY <1>1, <2>1 DEF Bodies, Own, Result
  <2>3. QED
      BY <1>2, <2>1, <2>2 DEF Result
<1>4. CASE fate[c] = "refused"
  <2>1. body = <<"denied", c>> /\ record[c] = "deny"
      BY <1>1, <1>4 DEF ProxyInv, DecidedInv
  <2> HIDE DEF body
  <2>2. body \in Bodies /\ Own(c, body)
      BY <1>1, <2>1 DEF Bodies, Own
  <2>3. QED
      BY <1>2, <1>4, <2>2
<1>5. CASE fate[c] = "aborted"
  <2>1. body = <<"error", c>>
      BY <1>5
  <2> HIDE DEF body
  <2>2. body \in Bodies /\ Own(c, body)
      BY <1>1, <2>1 DEF Bodies, Own
  <2>3. QED
      BY <1>2, <2>1, <2>2
<1> HIDE DEF body
<1>6. QED
    BY <1>2, <1>3, <1>4, <1>5 DEF Finished

\* The ids and the messages of the protocol are ids and messages.
LEMMA Wire ==
    /\ Asked \subseteq Ids /\ Calls \subseteq Guarded
    /\ \A s \in ServerRequests : IdOf[s] \in Ids /\ <<"request", s>> \in Bodies
    /\ \A r \in Asked : Result(r) \in Bodies /\ <<"exited", r>> \in Bodies
BY DEF Asked, Ids, Guarded, Bodies, Result

\* Every step keeps the types.
LEMMA ProxyTypeStep ==
    ASSUME IdsApart, ProxyInv, Next
    PROVE  ProxyType'
<1> USE DEF ProxyType, ProxyInv
<1>1. ASSUME NEW c \in Guarded, Reply(c)
      PROVE  ProxyType'
  <2>1. UNCHANGED <<upstream, response>>
      BY <1>1 DEF Reply
  <2>2. CASE c \in Notices
      BY <1>1, <2>1, <2>2 DEF Reply
  <2>3. CASE c \in Calls
    <3>1. PICK body \in Bodies : ToClient(c, body)
        BY <1>1, <2>3, ReplyCases
    <3>2. sent' \in [Ids -> Seq(Bodies)]
        BY <2>3, <3>1, Wire, Sends DEF Asked
    <3>3. QED
        BY <2>1, <3>2
  <2>4. QED
      BY <2>2, <2>3 DEF Guarded
<1>2. ASSUME NEW id \in Ids, NEW body \in Bodies, ChildWrites(id, body)
      PROVE  ProxyType'
    BY <1>2 DEF ChildWrites
<1>3. CASE ChildLine
  <2>1. upstream' \in Seq([id : Ids, body : Bodies])
      BY <1>3, LineRead DEF ChildLine
  <2>2. DOMAIN response' = Guarded
      BY <1>3, ChildLineCases
  <2>3. sent' \in [Ids -> Seq(Bodies)]
    <3>1. \/ UNCHANGED sent
          \/ \E id \in Ids, body \in Bodies : ToClient(id, body)
        BY <1>3, ChildLineCases, Wire
    <3>2. QED
        BY <3>1, Sends
  <2>4. QED
      BY <2>1, <2>2, <2>3
<1>4. CASE Exit
  <2>1. UNCHANGED upstream /\ DOMAIN response' = Guarded
      BY <1>4 DEF Exit
  <2>2. \A id \in pending \cap Queries : Append(sent[id], <<"exited", id>>) \in Seq(Bodies)
    <3>1. TAKE id \in pending \cap Queries
    <3>2. id \in Ids /\ <<"exited", id>> \in Bodies
        BY Wire DEF Asked
    <3>3. sent[id] \in Seq(Bodies)
        BY <3>2
    <3>4. QED
        BY <3>2, <3>3, AppendProperties
  <2>3. sent' \in [Ids -> Seq(Bodies)]
      BY <1>4, <2>2 DEF Exit
  <2>4. QED
      BY <2>1, <2>3
<1>5. ASSUME NEW r \in Asked, ChildAnswers(r)
      PROVE  ProxyType'
    BY <1>2, <1>5, Wire DEF ChildAnswers
<1>6. ASSUME NEW s \in ServerRequests, ChildAsks(s)
      PROVE  ProxyType'
    BY <1>2, <1>6, Wire DEF ChildAsks
<1>7. CASE UNCHANGED <<sent, upstream, response>>
    BY <1>7
<1>8. QED
    BY <1>1, <1>3, <1>4, <1>5, <1>6, <1>7
    DEF Next, Spawned, SpawnFails, ClientCall, Permit, Refuse, Return, ClientQuery, EndOutput, Asked

\* Every step keeps what is on record of a call in step with how far it is.
LEMMA DecidedStep ==
    ASSUME IdsApart, ProxyInv, Next
    PROVE  DecidedInv'
<1> USE DEF ProxyInv, DecidedInv
<1>0. /\ DOMAIN fate = Guarded /\ DOMAIN record = Guarded /\ DOMAIN response = Guarded
      /\ \A c \in Guarded : fate[c] \in {"new", "waiting", "executing"} \cup Finished
    BY DEF ForwardedInv, ProxyType
<1>1. ASSUME NEW c \in Guarded, ClientCall(c) \/ Permit(c) \/ Refuse(c)
      PROVE  DecidedInv'
  <2>1. fate[c] \in {"new", "waiting"} /\ UNCHANGED <<response, done>>
      BY <1>1 DEF ClientCall, Permit, Refuse, Guard!Request, Guard!Permit, Guard!Becomes
  <2>2. \/ fate' = [fate EXCEPT ![c] = "waiting"] /\ UNCHANGED record
        \/ fate' = [fate EXCEPT ![c] = "executing"] /\ record' = [record EXCEPT ![c] = "allow"]
        \/ fate' = [fate EXCEPT ![c] = "refused"] /\ record' = [record EXCEPT ![c] = "deny"]
        \/ fate' = [fate EXCEPT ![c] = "aborted"] /\ UNCHANGED record
      BY <1>1 DEF ClientCall, Permit, Refuse, Guard!Request, Guard!Permit, Guard!Refuse,
                  Guard!Abort, Guard!Becomes
  <2>3. QED
      BY <1>0, <2>1, <2>2 DEF Finished
<1>2. ASSUME NEW c \in Guarded, Return(c)
      PROVE  DecidedInv'
  <2>1. /\ fate[c] = "executing" /\ (c \in Calls => response[c] # None)
        /\ UNCHANGED <<record, response, done>>
        /\ \/ fate' = [fate EXCEPT ![c] = "completed"]
           \/ fate' = [fate EXCEPT ![c] = "aborted"]
      BY <1>2, ProxyAssumption
      DEF Return, Runnable, Guard!Complete, Guard!Abort, Guard!Becomes, Finished
  <2>2. QED
      BY <1>0, <2>1 DEF Finished
<1>3. ASSUME NEW c \in Guarded, Reply(c)
      PROVE  DecidedInv'
    BY <1>3 DEF Reply, guardVars, Finished
<1>4. CASE ChildLine \/ Exit
  <2>1. UNCHANGED <<fate, record, done>>
      BY <1>4 DEF ChildLine, Exit, guardVars
  <2>2. \A c \in Guarded :
            \/ response'[c] = response[c]
            \/ c \in pending /\ c \in Calls /\ response'[c] \in {Result(c), <<"exited", c>>}
    <3>1. CASE ChildLine
        BY <1>0, <3>1, ChildLineCases
    <3>2. CASE Exit
        BY <3>2, ProxyAssumption DEF Exit, OwedInv, Asked
    <3>3. QED
        BY <1>4, <3>1, <3>2
  <2>3. \A c \in pending \cap Calls : fate[c] = "executing"
      BY DEF OwedInv
  <2>4. QED
      BY <2>1, <2>2, <2>3, Zenon
<1>5. CASE UNCHANGED <<fate, record, done, response>>
    BY <1>5
<1>6. QED
    BY <1>1, <1>2, <1>3, <1>4, <1>5
    DEF Next, guardVars, Spawned, SpawnFails, ClientQuery, ChildAnswers, ChildAsks, ChildWrites,
        EndOutput

\* Every step keeps the lines of the child genuine and different.
LEMMA LinesStep ==
    ASSUME ProxyInv, Next
    PROVE  LinesInv'
<1> USE DEF ProxyInv
<1>1. delivered \subseteq delivered' /\ written \subseteq written'
    BY DEF Next, Spawned, SpawnFails, ClientCall, Permit, Refuse, Return, Reply, ClientQuery,
           ChildAnswers, ChildAsks, ChildWrites, ChildLine, Exit, EndOutput, ToChild
<1>2. CASE UNCHANGED upstream
    BY <1>1, <1>2 DEF LinesInv
<1>3. ASSUME NEW id \in Ids, NEW body \in Bodies, ChildWrites(id, body),
             \/ \E r \in Asked \cap delivered : id = r /\ body = Result(r)
             \/ \E s \in ServerRequests : id = IdOf[s] /\ body = <<"request", s>>
      PROVE  LinesInv'
  <2>1. /\ body \notin written /\ written' = written \cup {body}
        /\ upstream' = Append(upstream, [id |-> id, body |-> body])
      BY <1>3 DEF ChildWrites
  <2>2. \A i \in DOMAIN upstream' :
            \/ i \in DOMAIN upstream /\ upstream'[i] = upstream[i]
            \/ i = Len(upstream) + 1 /\ upstream'[i] = [id |-> id, body |-> body]
      BY <2>1 DEF ProxyType
  <2>3. \A i \in DOMAIN upstream : upstream[i].body # body
      BY <2>1 DEF LinesInv
  <2>4. \A i, j \in DOMAIN upstream' : upstream'[i].body = upstream'[j].body => i = j
      BY <2>2, <2>3 DEF LinesInv
  <2>5. \A i \in DOMAIN upstream' :
            /\ upstream'[i].body \in written'
            /\ \/ \E r \in Asked \cap delivered' : upstream'[i] = [id |-> r, body |-> Result(r)]
               \/ \E s \in ServerRequests :
                      upstream'[i] = [id |-> IdOf[s], body |-> <<"request", s>>]
    <3>1. TAKE i \in DOMAIN upstream'
    <3>2. CASE i \in DOMAIN upstream /\ upstream'[i] = upstream[i]
        BY <1>1, <3>2 DEF LinesInv
    <3>3. CASE upstream'[i] = [id |-> id, body |-> body]
        BY <1>1, <1>3, <2>1, <3>3
    <3>4. QED
        BY <2>2, <3>2, <3>3
  <2>6. QED
      BY <2>4, <2>5 DEF LinesInv
<1>4. CASE ChildLine
  <2>1. \A i \in DOMAIN upstream' : i + 1 \in DOMAIN upstream /\ upstream'[i] = upstream[i + 1]
      BY <1>4, LineRead DEF ChildLine
  <2>2. \A i, j \in DOMAIN upstream' : i \in Nat /\ j \in Nat
      BY <1>4 DEF ChildLine, ProxyType
  <2>3. \A i, j \in DOMAIN upstream' : upstream'[i].body = upstream'[j].body => i = j
      BY <2>1, <2>2 DEF LinesInv
  <2>4. QED
      BY <1>1, <2>1, <2>3 DEF LinesInv
<1>5. ASSUME NEW r \in Asked, ChildAnswers(r)
      PROVE  LinesInv'
    BY <1>3, <1>5, Wire DEF ChildAnswers
<1>6. ASSUME NEW s \in ServerRequests, ChildAsks(s)
      PROVE  LinesInv'
    BY <1>3, <1>6, Wire DEF ChildAsks
<1>7. QED
    BY <1>2, <1>4, <1>5, <1>6
    DEF Next, Spawned, SpawnFails, ClientCall, Permit, Refuse, Return, Reply, ClientQuery, Exit,
        EndOutput, Asked

\* Every step keeps the account of what the child owes.
LEMMA OwedStep ==
    ASSUME IdsApart, ProxyInv, Next
    PROVE  OwedInv'
<1> USE DEF ProxyInv
<1>0. /\ DOMAIN fate = Guarded /\ DOMAIN record = Guarded /\ DOMAIN response = Guarded
      /\ \A c \in Guarded : fate[c] \in {"new", "waiting", "executing"} \cup Finished
      /\ Calls \subseteq Guarded /\ Asked \cap Notices = {} /\ Calls \cap Queries = {}
    BY ProxyAssumption DEF ForwardedInv, ProxyType, Guarded, Asked
<1>1. CASE Spawned
    BY <1>1 DEF Spawned, OwedInv, Unread, guardVars
<1>2. CASE SpawnFails
    BY <1>2 DEF SpawnFails, OwedInv, Unread, guardVars
<1>3. ASSUME NEW c \in Guarded, ClientCall(c)
      PROVE  OwedInv'
  <2>1. /\ fate[c] = "new" /\ fate' = [fate EXCEPT ![c] = "waiting"] /\ child # "starting"
        /\ UNCHANGED <<child, response, pending, delivered, upstream, written, sent>>
      BY <1>3 DEF ClientCall, Reading, Guard!Request, Guard!Becomes
  <2>2. \A r \in pending \cap Calls : fate'[r] = fate[r]
      BY <1>0, <2>1 DEF OwedInv
  <2>3. QED
      BY <2>1, <2>2 DEF OwedInv, Unread
<1>4. ASSUME NEW c \in Guarded, Permit(c)
      PROVE  OwedInv'
  <2>1. /\ fate[c] = "waiting" /\ fate' = [fate EXCEPT ![c] = "executing"]
        /\ pending' = IF c \in Calls THEN pending \cup {c} ELSE pending
        /\ ToChild(c)
        /\ UNCHANGED <<child, response, upstream, written, sent>>
      BY <1>4 DEF Permit, Guard!Permit, Guard!Becomes
  <2>2. child # "starting"
      BY <2>1 DEF OwedInv
  <2>3. response[c] = None /\ (c \in Calls => sent[c] = <<>>)
      BY <2>1 DEF DecidedInv, SentInv
  <2>4. \A r \in pending' : /\ sent'[r] = <<>>
                            /\ r \in Calls => fate'[r] = "executing" /\ response'[r] = None
      BY <1>0, <2>1, <2>3 DEF OwedInv
  <2>5. \A r \in Asked \cap delivered' :
            child' = "up" /\ Result(r) \notin written' => r \in pending'
    <3>1. \A r \in Asked \cap delivered' : r \in delivered \/ (r = c /\ c \in Calls)
        BY <1>0, <2>1 DEF ToChild, Guarded, Asked
    <3>2. QED
        BY <2>1, <3>1 DEF OwedInv
  <2>6. pending' \subseteq Asked
      BY <2>1 DEF OwedInv, Asked
  <2>7. QED
      BY <2>1, <2>2, <2>4, <2>5, <2>6 DEF OwedInv, Unread
<1>5. ASSUME NEW c \in Guarded, Refuse(c) \/ Return(c)
      PROVE  OwedInv'
  <2>1. /\ \A d \in Guarded \ {c} : fate'[d] = fate[d]
        /\ fate[c] # "new"
        /\ UNCHANGED <<child, response, pending, delivered, upstream, written, sent>>
      BY <1>0, <1>5 DEF Refuse, Return, Guard!Refuse, Guard!Abort, Guard!Complete, Guard!Becomes
  <2>2. c \notin pending \cap Calls
      BY <1>0, <1>5 DEF Refuse, Return, Runnable, OwedInv, Finished
  <2>3. QED
      BY <1>0, <2>1, <2>2 DEF OwedInv, Unread
<1>6. ASSUME NEW c \in Guarded, Reply(c)
      PROVE  OwedInv'
  <2>1. UNCHANGED <<child, fate, response, pending, delivered, upstream, written>>
      BY <1>6 DEF Reply, guardVars
  <2>2. CASE c \in Notices
    <3>1. UNCHANGED sent
        BY <1>6, <2>2 DEF Reply
    <3>2. QED
        BY <2>1, <3>1 DEF OwedInv, Unread
  <2>3. CASE c \in Calls
    <3>1. PICK body \in Bodies :
              /\ ToClient(c, body)
              /\ response[c] = <<"exited", c>> /\ fate[c] # "refused" =>
                     body \in {<<"exited", c>>, <<"error", c>>}
        BY <1>6, <2>3, ReplyCases
    <3>2. /\ c \notin pending /\ c \notin done
        BY <1>6, <2>3 DEF Reply, Runnable, InFlight, Finished, OwedInv
    <3>3. /\ \A o \in Asked \ {c} : sent'[o] = sent[o]
          /\ sent[c] = <<>>
          /\ sent'[c] = <<>> \/ sent'[c] = Append(<<>>, body)
        BY <2>3, <3>1, <3>2, Wire, Sends DEF SentInv, Asked
    <3>4. ASSUME Unread(c)
          PROVE  \/ sent'[c] = <<>>
                 \/ \E failure \in {"exited", "error"} : sent'[c] = << <<failure, c>> >>
      <4>1. c \in delivered
          BY <3>4 DEF LinesInv, Unread, Result
      <4>2. fate[c] # "refused"
          BY <1>0, <2>3, <4>1 DEF ForwardedInv, DecidedInv
      <4>3. response[c] = <<"exited", c>>
          BY <2>3, <3>2, <3>4 DEF OwedInv, Asked
      <4>4. body \in {<<"exited", c>>, <<"error", c>>}
          BY <3>1, <4>2, <4>3
      <4>5. Append(<<>>, body) = <<body>>
          OBVIOUS
      <4>6. QED
          BY <3>3, <4>4, <4>5
    <3>5. \A r \in pending : sent'[r] = sent[r]
        BY <3>2, <3>3 DEF OwedInv
    <3>6. \A r \in Asked \ pending : Unread(r)' =>
              /\ \/ sent'[r] = <<>>
                 \/ \E failure \in {"exited", "error"} : sent'[r] = << <<failure, r>> >>
              /\ r \in Calls => response'[r] = <<"exited", r>>
      <4>1. TAKE r \in Asked \ pending
      <4>2. Unread(r)' <=> Unread(r)
          BY <2>1 DEF Unread
      <4>3. QED
          BY <2>1, <3>3, <3>4, <4>2 DEF OwedInv
    <3>7. QED
        BY <2>1, <3>5, <3>6 DEF OwedInv
  <2>4. QED
      BY <2>2, <2>3 DEF Guarded
<1>7. ASSUME NEW q \in Queries, ClientQuery(q)
      PROVE  OwedInv'
  <2>1. /\ sent[q] = <<>> /\ q \notin Calls /\ q \in Asked /\ child # "starting"
        /\ pending' = pending \cup {q}
        /\ delivered' \subseteq delivered \cup {q}
        /\ UNCHANGED <<child, fate, response, upstream, written, sent>>
      BY <1>0, <1>7 DEF ClientQuery, Reading, ToChild, guardVars, Asked
  <2>2. QED
      BY <2>1 DEF OwedInv, Unread
<1>8. ASSUME NEW id \in Ids, NEW body \in Bodies, ChildWrites(id, body),
             \A r \in Asked \ pending : body # Result(r)
      PROVE  OwedInv'
  <2>1. /\ child = "up"
        /\ written' = written \cup {body}
        /\ upstream' = Append(upstream, [id |-> id, body |-> body])
        /\ UNCHANGED <<child, fate, response, pending, delivered, sent>>
      BY <1>8 DEF ChildWrites, guardVars
  <2>2. \A i \in DOMAIN upstream' :
            \/ i \in DOMAIN upstream /\ upstream'[i] = upstream[i]
            \/ upstream'[i] = [id |-> id, body |-> body]
      BY <2>1 DEF ProxyType
  <2>3. \A r \in Asked \ pending : Unread(r)' => Unread(r)
      BY <1>8, <2>2 DEF Unread
  <2>4. QED
      BY <2>1, <2>3 DEF OwedInv
<1>9. ASSUME NEW r \in Asked, ChildAnswers(r)
      PROVE  OwedInv'
  <2>1. r \in pending
      BY <1>9 DEF ChildAnswers, ChildWrites, OwedInv
  <2>2. \A o \in Asked \ pending : Result(r) # Result(o)
      BY <2>1 DEF Result
  <2>3. QED
      BY <1>8, <1>9, <2>2, Wire DEF ChildAnswers
<1>10. ASSUME NEW s \in ServerRequests, ChildAsks(s)
       PROVE  OwedInv'
  <2>1. \A o : <<"request", s>> # Result(o)
      BY DEF Result
  <2>2. QED
      BY <1>8, <1>10, <2>1, Wire DEF ChildAsks
<1>11. CASE ChildLine
  <2>1. /\ upstream # <<>> /\ upstream' = Tail(upstream)
        /\ UNCHANGED <<child, fate, delivered, written>>
      BY <1>11 DEF ChildLine, guardVars
  <2>2. /\ \A r : Unread(r)' => Unread(r)
        /\ \A r : Unread(r)' => Head(upstream).body # Result(r)
        /\ 1 \in DOMAIN upstream /\ Head(upstream) = upstream[1]
      BY <2>1, LineRead DEF Unread
  <2>3. ASSUME NEW r \in Asked \cap delivered,
               Head(upstream) = [id |-> r, body |-> Result(r)],
               pending' = pending \ {r},
               \A o \in Asked \ {r} : sent'[o] = sent[o],
               \A o \in Calls \ {r} : response'[o] = response[o]
        PROVE  OwedInv'
    <3>1. ~Unread(r)' /\ Result(r) \in written
        BY <2>2, <2>3 DEF LinesInv
    <3>2. \A o \in pending' : o \in pending \ {r} /\ o \in Asked \ {r}
        BY <2>3 DEF OwedInv
    <3>3. \A o \in Asked \ pending' : Unread(o)' => o \in Asked \ pending /\ o # r /\ Unread(o)
        BY <2>2, <2>3, <3>1
    <3>4. QED
        BY <2>1, <2>3, <3>1, <3>2, <3>3 DEF OwedInv
  <2>4. ASSUME UNCHANGED <<pending, response>>, \A o \in Asked : sent'[o] = sent[o]
        PROVE  OwedInv'
    <3>1. \A r \in pending : r \in Asked
        BY DEF OwedInv
    <3>2. QED
        BY <2>1, <2>2, <2>4, <3>1 DEF OwedInv
  <2>5. ASSUME NEW r \in Asked \cap delivered,
               Head(upstream) = [id |-> r, body |-> Result(r)],
               \/ /\ r \in pending /\ r \in Calls /\ pending' = pending \ {r}
                  /\ response' = [response EXCEPT ![r] = Result(r)]
                  /\ UNCHANGED sent
               \/ /\ r \in pending /\ r \notin Calls /\ pending' = pending \ {r}
                  /\ UNCHANGED response
                  /\ ToClient(r, Result(r))
               \/ /\ r \notin pending
                  /\ UNCHANGED <<pending, response>>
                  /\ ToClient(r, Result(r))
        PROVE  OwedInv'
    <3>1. pending' = pending \ {r}
        BY <2>5
    <3>2. \A o \in Asked \ {r} : sent'[o] = sent[o]
        BY <2>5, Wire, Sends
    <3>3. \A o \in Calls \ {r} : response'[o] = response[o]
        BY <1>0, <2>5
    <3>4. QED
        BY <2>3, <2>5, <3>1, <3>2, <3>3
  <2>6. ASSUME NEW s \in ServerRequests, UNCHANGED <<pending, response>>,
               ToClient(IdOf[s], <<"request", s>>)
        PROVE  OwedInv'
    <3>1. \A o \in Asked : sent'[o] = sent[o]
        BY <2>6, Wire, Sends DEF IdsApart, Asked
    <3>2. QED
        BY <2>4, <2>6, <3>1
  <2>7. QED
      BY <1>11, <2>5, <2>6, ChildLineCases
<1>12. CASE Exit
  <2>1. /\ child' = "exited" /\ pending' = {}
        /\ UNCHANGED <<fate, delivered, upstream, written>>
        /\ \A c \in Calls : response'[c] = IF c \in pending THEN <<"exited", c>> ELSE response[c]
        /\ \A r \in Asked : sent'[r] = IF r \in pending \cap Queries
                                       THEN Append(sent[r], <<"exited", r>>) ELSE sent[r]
      BY <1>0, <1>12, Wire DEF Exit, guardVars
  <2>2. \A r \in Asked : Unread(r)' <=> Unread(r)
      BY <2>1 DEF Unread
  <2>3. ASSUME NEW r \in Asked, Unread(r)
        PROVE  /\ \/ sent'[r] = <<>>
                  \/ \E failure \in {"exited", "error"} : sent'[r] = << <<failure, r>> >>
               /\ r \in Calls => response'[r] = <<"exited", r>>
    <3>1. CASE r \notin pending
        BY <2>1, <2>3, <3>1 DEF OwedInv
    <3>2. CASE r \in pending
      <4>1. sent[r] = <<>> /\ Append(<<>>, <<"exited", r>>) = << <<"exited", r>> >>
          BY <3>2 DEF OwedInv
      <4>2. QED
          BY <2>1, <3>2, <4>1
    <3>3. QED
        BY <3>1, <3>2
  <2>4. QED
      BY <2>1, <2>2, <2>3 DEF OwedInv
<1>13. CASE EndOutput
    BY <1>13 DEF EndOutput, OwedInv, Unread, guardVars
<1>14. QED
    BY <1>1, <1>2, <1>3, <1>4, <1>5, <1>6, <1>7, <1>9, <1>10, <1>11, <1>12, <1>13
    DEF Next, Asked

\* Appending to a sequence of one gives the sequence of two.
LEMMA AppendToOne ==
    ASSUME NEW first, NEW second
    PROVE  Append(<<first>>, second) = <<first, second>>
<1> DEFINE either == {first, second}
           two == Append(<<first>>, second)
<1>1. <<first>> \in Seq(either) /\ <<first, second>> \in Seq(either)
    OBVIOUS
<1>2. two \in Seq(either) /\ Len(two) = 2 /\ two[1] = first /\ two[2] = second
  <2>1. second \in either /\ Len(<<first>>) = 1 /\ <<first>>[1] = first
      OBVIOUS
  <2>2. QED
      BY <1>1, <2>1, AppendProperties
<1> HIDE DEF two
<1>3. two = <<first, second>>
    BY <1>1, <1>2, SeqEqual
<1>4. QED
    BY <1>3 DEF two

\* Every step keeps what the client reads true, and each request answered once.
LEMMA SentStep ==
    ASSUME IdsApart, NoneIsNoBody, ProxyInv, Next
    PROVE  SentInv'
<1> USE DEF ProxyInv
<1>0. /\ DOMAIN fate = Guarded /\ DOMAIN record = Guarded /\ DOMAIN response = Guarded
      /\ \A c \in Guarded : fate[c] \in {"new", "waiting", "executing"} \cup Finished
      /\ Calls \subseteq Guarded /\ Calls \subseteq Asked /\ Asked \subseteq Ids
      /\ Calls \cap Queries = {} /\ Calls \cap Notices = {}
    BY ProxyAssumption, Wire DEF ForwardedInv, ProxyType, Guarded, Asked
<1>1. \A r \in Asked : sent[r] \in Seq(Bodies)
    BY <1>0 DEF ProxyType
\* One message more under the id of r, which is an answer.
<1>2. ASSUME NEW r \in Asked, NEW body \in Bodies, ToClient(r, body),
             UNCHANGED record, done \subseteq done', r \in Calls => r \in done',
             Own(r, body),
             \/ sent[r] = <<>>
             \/ /\ body = Result(r)
                /\ \E failure \in {"exited", "error"} : sent[r] = << <<failure, r>> >>
      PROVE  SentInv'
  <2>1. /\ \A o \in Asked \ {r} : sent'[o] = sent[o]
        /\ sent'[r] = sent[r] \/ sent'[r] = Append(sent[r], body)
      BY <1>0, <1>2, Sends
  <2>2. \A c \in Calls \ done' : sent'[c] = <<>>
      BY <1>0, <1>2, <2>1 DEF SentInv
  <2>3. ASSUME NEW o \in Asked
        PROVE  OwnAll(o)'
    <3>1. OwnAll(o)
        BY DEF SentInv
    <3>2. CASE sent'[o] = sent[o]
        BY <1>2, <3>1, <3>2 DEF OwnAll, Own
    <3>3. CASE o = r /\ sent'[r] = Append(sent[r], body)
      <4>1. \A i \in DOMAIN sent'[r] : Own(r, sent'[r][i])
          BY <1>1, <1>2, <3>1, <3>3, OwnGrows DEF OwnAll
      <4>2. QED
          BY <1>2, <3>3, <4>1 DEF OwnAll, Own
    <3>4. QED
        BY <2>1, <3>2, <3>3
  <2>4. AnsweredOnce'
    <3>1. ASSUME sent'[r] = Append(sent[r], body), Len(sent'[r]) > 1
          PROVE  \E failure \in {"exited", "error"} :
                     sent'[r] = << <<failure, r>>, Result(r) >>
      <4>1. sent[r] # <<>>
          BY <3>1
      <4>2. PICK failure \in {"exited", "error"} : sent[r] = << <<failure, r>> >>
          BY <1>2, <4>1
      <4>3. body = Result(r)
          BY <1>2, <4>1
      <4>4. sent'[r] = << <<failure, r>>, Result(r) >>
          BY <3>1, <4>2, <4>3, AppendToOne
      <4>5. QED
          BY <4>4
    <3>2. QED
        BY <2>1, <3>1 DEF SentInv, AnsweredOnce, Asked
  <2>5. QED
      BY <2>2, <2>3, <2>4 DEF SentInv
\* No message more: what was read stays true.
<1>3. ASSUME UNCHANGED done, \A r \in Asked : sent'[r] = sent[r],
             \A c \in Calls : sent[c] # <<>> => record'[c] = record[c]
      PROVE  SentInv'
  <2>1. ASSUME NEW r \in Asked
        PROVE  OwnAll(r)'
    <3>1. OwnAll(r) /\ sent'[r] = sent[r]
        BY <1>3 DEF SentInv
    <3>2. CASE sent[r] = <<>>
        BY <3>1, <3>2 DEF OwnAll
    <3>3. CASE r \in Calls => record'[r] = record[r]
        BY <3>1, <3>3 DEF OwnAll, Own
    <3>4. QED
        BY <1>3, <3>2, <3>3
  <2>2. AnsweredOnce'
      BY <1>3 DEF SentInv, AnsweredOnce, Asked
  <2>3. QED
      BY <1>0, <1>3, <2>1, <2>2 DEF SentInv
<1>4. ASSUME NEW c \in Guarded, Permit(c) \/ Refuse(c)
      PROVE  SentInv'
  <2>1. /\ fate[c] = "waiting" /\ UNCHANGED <<done, sent>>
        /\ \A d \in Guarded \ {c} : record'[d] = record[d]
      BY <1>0, <1>4 DEF Permit, Refuse, Guard!Permit, Guard!Refuse, Guard!Abort, Guard!Becomes
  <2>2. c \in Calls => sent[c] = <<>>
      BY <2>1 DEF DecidedInv, SentInv
  <2>3. \A d \in Calls : sent[d] # <<>> => record'[d] = record[d]
      BY <1>0, <2>1, <2>2
  <2>4. QED
      BY <1>3, <2>1, <2>3
<1>5. ASSUME NEW c \in Guarded, Reply(c)
      PROVE  SentInv'
  <2>1. done' = done \cup {c} /\ UNCHANGED record /\ c \notin done
      BY <1>5 DEF Reply, guardVars, Runnable, InFlight
  <2>2. CASE c \in Notices
    <3>1. UNCHANGED sent
        BY <1>5, <2>2 DEF Reply
    <3>2. UNCHANGED <<record, sent>> /\ \A d \in Calls \ done' : d \in Calls \ done
        BY <2>1, <3>1
    <3>3. QED
        BY <3>2 DEF SentInv, OwnAll, Own, AnsweredOnce
  <2>3. CASE c \in Calls
    <3>1. PICK body \in Bodies : ToClient(c, body) /\ Own(c, body)
        BY <1>5, <2>3, ReplyCases
    <3>2. sent[c] = <<>>
        BY <2>1, <2>3 DEF SentInv
    <3>3. QED
        BY <1>0, <1>2, <2>1, <2>3, <3>1, <3>2
  <2>4. QED
      BY <2>2, <2>3 DEF Guarded
<1>6. CASE ChildLine
  <2>1. UNCHANGED <<done, record>>
      BY <1>6 DEF ChildLine, guardVars
  <2>2. 1 \in DOMAIN upstream /\ Head(upstream) = upstream[1]
      BY <1>6, LineRead DEF ChildLine
  <2>3. ASSUME NEW r \in Asked \cap delivered,
               Head(upstream) = [id |-> r, body |-> Result(r)],
               \/ /\ r \in pending /\ r \in Calls /\ pending' = pending \ {r}
                  /\ response' = [response EXCEPT ![r] = Result(r)]
                  /\ UNCHANGED sent
               \/ /\ r \in pending /\ r \notin Calls /\ pending' = pending \ {r}
                  /\ UNCHANGED response
                  /\ ToClient(r, Result(r))
               \/ /\ r \notin pending
                  /\ UNCHANGED <<pending, response>>
                  /\ ToClient(r, Result(r))
        PROVE  SentInv'
    <3>1. CASE UNCHANGED sent
        BY <1>3, <2>1, <3>1
    <3>2. r \in Calls => record[r] = "allow" /\ fate[r] \notin {"new", "waiting"}
        BY <1>0 DEF ForwardedInv
    <3>3. Own(r, Result(r)) /\ Result(r) \in Bodies
        BY <3>2, Wire DEF Own, Result
    <3>4. CASE r \in pending /\ r \notin Calls /\ ToClient(r, Result(r))
      <4>1. sent[r] = <<>>
          BY <3>4 DEF OwedInv
      <4>2. QED
          BY <1>2, <2>1, <3>3, <3>4, <4>1
    <3>5. CASE r \notin pending /\ ToClient(r, Result(r))
      <4>1. Unread(r)
          BY <2>2, <2>3 DEF Unread
      <4>2. /\ sent[r] = <<>> \/ \E failure \in {"exited", "error"} : sent[r] = << <<failure, r>> >>
            /\ r \in Calls => response[r] = <<"exited", r>>
          BY <3>5, <4>1 DEF OwedInv
      <4>3. ASSUME r \in Calls, r \notin done
            PROVE  FALSE
        <5>1. response[r] # None
            BY <4>2, <4>3 DEF NoneIsNoBody
        <5>2. Runnable(r)
            BY <1>0, <3>2, <4>3, <5>1 DEF Runnable, InFlight, Finished
        <5>3. response[r] = Result(r)
            BY <1>0, <1>6, <4>3, <5>2 DEF ChildLine, InChunk
        <5>4. QED
            BY <4>2, <4>3, <5>3 DEF Result
      <4>4. QED
          BY <1>2, <2>1, <3>3, <3>5, <4>2, <4>3
    <3>6. QED
        BY <2>3, <3>1, <3>4, <3>5
  <2>4. ASSUME NEW s \in ServerRequests, ToClient(IdOf[s], <<"request", s>>)
        PROVE  SentInv'
    <3>1. \A o \in Asked : sent'[o] = sent[o]
        BY <2>4, Wire, Sends DEF IdsApart, Asked
    <3>2. QED
        BY <1>3, <2>1, <3>1
  <2>5. QED
      BY <1>6, <2>3, <2>4, ChildLineCases
<1>7. CASE Exit
  <2>1. /\ UNCHANGED <<done, record>>
        /\ \A r \in Asked : sent'[r] = IF r \in pending \cap Queries
                                       THEN Append(sent[r], <<"exited", r>>) ELSE sent[r]
      BY <1>0, <1>7 DEF Exit, guardVars
  <2>2. \A r \in Asked : \/ sent'[r] = sent[r]
                         \/ r \in Queries /\ r \notin Calls /\ sent'[r] = << <<"exited", r>> >>
    <3>1. TAKE r \in Asked
    <3>2. CASE r \in pending \cap Queries
      <4>1. sent[r] = <<>> /\ Append(<<>>, <<"exited", r>>) = << <<"exited", r>> >>
          BY <3>2 DEF OwedInv
      <4>2. QED
          BY <1>0, <2>1, <3>2, <4>1
    <3>3. QED
        BY <2>1, <3>2
  <2>3. \A c \in Calls \ done' : sent'[c] = <<>>
      BY <1>0, <2>1, <2>2 DEF SentInv
  <2>4. ASSUME NEW r \in Asked
        PROVE  OwnAll(r)'
    <3>1. OwnAll(r)
        BY DEF SentInv
    <3>2. CASE sent'[r] = sent[r]
        BY <2>1, <3>1, <3>2 DEF OwnAll, Own
    <3>3. CASE r \notin Calls /\ sent'[r] = << <<"exited", r>> >>
        BY <3>3 DEF OwnAll, Own
    <3>4. QED
        BY <2>2, <3>2, <3>3
  <2>5. AnsweredOnce'
    <3>1. \A r \in Asked : Len(sent'[r]) > 1 => sent'[r] = sent[r]
        BY <2>2
    <3>2. QED
        BY <3>1 DEF SentInv, AnsweredOnce, Asked
  <2>6. QED
      BY <2>3, <2>4, <2>5 DEF SentInv
<1>8. CASE UNCHANGED <<sent, done, record>>
    BY <1>3, <1>8
<1>9. QED
    BY <1>4, <1>5, <1>6, <1>7, <1>8
    DEF Next, guardVars, Spawned, SpawnFails, ClientCall, Return, ClientQuery, ChildAnswers,
        ChildAsks, ChildWrites, EndOutput, Guard!Request, Guard!Complete, Guard!Abort

\* The replies are right in every reachable state.
LEMMA Replies ==
    ASSUME IdsApart, NoneIsNoBody
    PROVE  Spec => []ProxyInv
<1>1. ProxyInv /\ Next => ProxyInv'
  <2> SUFFICES ASSUME ProxyInv, Next
               PROVE  ProxyInv'
      OBVIOUS
  <2>1. ForwardedInv'
      BY ForwardedStep DEF ProxyInv
  <2>2. QED
      BY <2>1, ProxyTypeStep, DecidedStep, LinesStep, OwedStep, SentStep DEF ProxyInv
<1>2. ProxyInv /\ UNCHANGED vars => ProxyInv'
    BY DEF ProxyInv, ForwardedInv, ProxyType, DecidedInv, LinesInv, OwedInv, SentInv, Unread, Own,
           OwnAll, AnsweredOnce, vars, guardVars
<1>3. QED
    BY ProxyInit, <1>1, <1>2, PTL DEF Spec

\* What the client reads under an id is about that request, however the lines
\* of the child, its exit and the handlers interleave: its own result if guard()
\* permitted it, the refusal if it refused it, or a failure.
THEOREM RepliesAreOwn ==
    ASSUME IdsApart, NoneIsNoBody
    PROVE  Spec => []OwnReply
<1>1. ProxyInv => OwnReply
    BY DEF ProxyInv, SentInv, OwnReply, OwnAll, Own, Asked
<1>2. QED
    BY Replies, <1>1, PTL

\* No request is answered twice; after the failure that the exit of the child
\* made, and only then, its result may still follow.
THEOREM RepliesAreSingle ==
    ASSUME IdsApart, NoneIsNoBody
    PROVE  Spec => []AnsweredOnce
<1>1. ProxyInv => AnsweredOnce
    BY DEF ProxyInv, SentInv
<1>2. QED
    BY Replies, <1>1, PTL

-----------------------------------------------------------------------------
(*                       The end of the transport                          *)

Said == Bodies \cup {None}

\* A transport that has ended leaves no handler in progress, and none starts.
EndInv ==
    /\ sent \in [Ids -> Seq(Said)]
    /\ upstream \in Seq([id : Ids, body : Bodies])
    /\ response \in [Guarded -> Said]
    /\ child = "starting" => \A c \in Guarded : fate[c] = "new"
    /\ ended => InFlight = {}
    /\ RepliedBeforeEnd

LEMMA EndInit == Init => EndInv
<1> SUFFICES ASSUME Init
             PROVE  EndInv
    OBVIOUS
<1>1. sent = [id \in Ids |-> <<>>] /\ upstream = <<>> /\ response = [c \in Guarded |-> None]
    BY DEF Init
<1>2. sent \in [Ids -> Seq(Said)] /\ response \in [Guarded -> Said]
    BY <1>1 DEF Said
<1>3. QED
    BY <1>1, <1>2 DEF Init, Guard!Init, EndInv, RepliedBeforeEnd

\* A step sends nothing, sends one message or, at the exit, one to each query
\* that waits.
LEMMA StepSends ==
    ASSUME EndInv, ForwardedInv, Next
    PROVE  /\ sent' \in [Ids -> Seq(Said)]
           /\ \A id \in Ids : sent[id] # <<>> => sent'[id] # <<>>
           /\ response' \in [Guarded -> Said]
           /\ upstream' \in Seq([id : Ids, body : Bodies])
<1> DEFINE Goes == /\ sent' \in [Ids -> Seq(Said)]
                   /\ \A id \in Ids : sent[id] # <<>> => sent'[id] # <<>>
           Lines == /\ response' \in [Guarded -> Said]
                    /\ upstream' \in Seq([id : Ids, body : Bodies])
<1> USE DEF EndInv
<1>1. ASSUME NEW id \in Ids, NEW body \in Said, ToClient(id, body)
      PROVE  Goes
  <2>1. Append(sent[id], body) \in Seq(Said) /\ Append(sent[id], body) # <<>>
      BY AppendProperties
  <2>2. QED
      BY <1>1, <2>1 DEF ToClient
<1>2. ASSUME UNCHANGED sent
      PROVE  Goes
  <2>1. sent \in [Ids -> Seq(Said)]
      OBVIOUS
  <2>2. QED
      BY <1>2, <2>1, Zenon
<1>3. ASSUME NEW c \in Guarded, Reply(c)
      PROVE  Goes /\ Lines
  <2>1. UNCHANGED <<response, upstream>>
      BY <1>3 DEF Reply
  <2>2. CASE c \in Notices
    <3>1. UNCHANGED sent
        BY <1>3, <2>2 DEF Reply
    <3>2. QED
        BY <1>2, <2>1, <3>1
  <2>3. CASE c \notin Notices
    <3>1. c \in Ids /\ <<"denied", c>> \in Said /\ <<"error", c>> \in Said /\ response[c] \in Said
        BY <2>3 DEF Guarded, Ids, Said, Bodies
    <3>2. \E body \in Said : ToClient(c, body)
      <4>1. CASE fate[c] = "completed"
          BY <1>3, <2>3, <3>1, <4>1 DEF Reply
      <4>2. CASE fate[c] = "refused"
          BY <1>3, <2>3, <3>1, <4>2 DEF Reply
      <4>3. CASE fate[c] = "aborted"
          BY <1>3, <2>3, <3>1, <4>3 DEF Reply
      <4>4. QED
          BY <1>3, <4>1, <4>2, <4>3 DEF Reply, Finished
    <3>3. QED
        BY <1>1, <2>1, <3>1, <3>2
  <2>4. QED
      BY <2>2, <2>3
<1>4. ASSUME NEW id \in Ids, NEW body \in Bodies, ChildWrites(id, body)
      PROVE  Goes /\ Lines
    BY <1>4 DEF ChildWrites
<1>5. CASE ChildLine
  <2>1. upstream # <<>> /\ upstream' = Tail(upstream)
      BY <1>5 DEF ChildLine
  <2>2. Head(upstream).id \in Ids /\ Head(upstream).body \in Said
            /\ upstream' \in Seq([id : Ids, body : Bodies])
    <3>1. /\ Head(upstream) \in [id : Ids, body : Bodies]
          /\ upstream' \in Seq([id : Ids, body : Bodies])
        BY <2>1, HeadTailProperties
    <3>2. QED
        BY <3>1 DEF Said
  <2>3. \/ /\ UNCHANGED sent
           /\ response' = [response EXCEPT ![Head(upstream).id] = Head(upstream).body]
        \/ /\ UNCHANGED response
           /\ ToClient(Head(upstream).id, Head(upstream).body)
      BY <1>5 DEF ChildLine, Deliver
  <2>4. QED
      BY <1>1, <1>2, <2>2, <2>3
<1>6. CASE Exit
  <2>1. UNCHANGED upstream
      BY <1>6 DEF Exit
  <2>2. response' \in [Guarded -> Said]
    <3>1. \A c \in Guarded : <<"exited", c>> \in Said
        BY DEF Said, Bodies
    <3>2. QED
        BY <1>6, <3>1 DEF Exit
  <2>3. ASSUME NEW id \in Ids, id \in pending \cap Queries
        PROVE  /\ Append(sent[id], <<"exited", id>>) \in Seq(Said)
               /\ Append(sent[id], <<"exited", id>>) # <<>>
    <3>1. sent[id] \in Seq(Said)
        OBVIOUS
    <3> HIDE DEF EndInv
    <3> DEFINE failure == <<"exited", id>>
    <3>2. failure \in Said
        BY <2>3 DEF Said, Bodies
    <3> HIDE DEF failure
    <3>3. Append(sent[id], failure) \in Seq(Said) /\ Append(sent[id], failure) # <<>>
        BY <3>1, <3>2, AppendProperties
    <3>4. QED
        BY <3>3 DEF failure
  <2>4. Goes
      BY <1>6, <2>3 DEF Exit
  <2>5. QED
      BY <2>1, <2>2, <2>4
<1>7. ASSUME NEW r \in Asked, ChildAnswers(r)
      PROVE  Goes /\ Lines
    BY <1>4, <1>7, Wire DEF ChildAnswers
<1>8. ASSUME NEW s \in ServerRequests, ChildAsks(s)
      PROVE  Goes /\ Lines
    BY <1>4, <1>8, Wire DEF ChildAsks
<1>9. ASSUME UNCHANGED <<sent, upstream, response>>
      PROVE  Goes /\ Lines
  <2>1. Lines
      BY <1>9
  <2>2. QED
      BY <1>2, <1>9, <2>1
<1> HIDE DEF Goes, Lines
<1>10. Goes /\ Lines
    BY <1>3, <1>5, <1>6, <1>7, <1>8, <1>9
    DEF Next, Spawned, SpawnFails, ClientCall, Permit, Refuse, Return, ClientQuery, EndOutput, Asked,
        Goes, Lines
<1>11. QED
    BY <1>10 DEF Goes, Lines

\* Only a line of the client, which is not read after the end, makes a handler;
\* and a handler ends with its reply.
LEMMA EndStep ==
    ASSUME EndInv, ForwardedInv, Next
    PROVE  EndInv'
<1>0. /\ DOMAIN fate = Guarded /\ Calls \subseteq Guarded /\ Calls \subseteq Ids
      /\ \A c \in Calls \cap done : sent'[c] # <<>>
    BY StepSends, ProxyAssumption DEF ForwardedInv, Guarded, Ids, EndInv, RepliedBeforeEnd
<1>1. ASSUME NEW c \in Guarded, ClientCall(c)
      PROVE  EndInv'
  <2>1. child # "starting" /\ ~ended /\ UNCHANGED <<child, ended, done>>
      BY <1>1 DEF ClientCall, Reading
  <2>2. QED
      BY <1>0, <2>1, StepSends DEF EndInv, RepliedBeforeEnd
<1>2. ASSUME NEW c \in Guarded, Permit(c) \/ Refuse(c) \/ Return(c)
      PROVE  EndInv'
  <2>1. /\ fate[c] # "new" /\ fate'[c] # "new"
        /\ \A d \in Guarded \ {c} : fate'[d] = fate[d]
        /\ UNCHANGED <<child, ended, done>>
      BY <1>0, <1>2 DEF Permit, Refuse, Return, Guard!Permit, Guard!Refuse, Guard!Abort,
                        Guard!Complete, Guard!Becomes
  <2>2. InFlight' = InFlight
      BY <2>1 DEF InFlight
  <2>3. child # "starting"
      BY <2>1 DEF EndInv
  <2>4. QED
      BY <1>0, <2>1, <2>2, <2>3, StepSends DEF EndInv, RepliedBeforeEnd
<1>3. ASSUME NEW c \in Guarded, Reply(c)
      PROVE  EndInv'
  <2>1. /\ done' = done \cup {c} /\ c \in InFlight
        /\ UNCHANGED <<child, ended, fate>>
      BY <1>3 DEF Reply, Runnable, guardVars
  <2>2. ~ended
      BY <2>1 DEF EndInv
  <2>3. c \in Calls => sent'[c] # <<>>
    <3>1. ASSUME c \in Calls
          PROVE  \E body : sent' = [sent EXCEPT ![c] = Append(@, body)]
        BY <1>3, <2>2, <3>1, ProxyAssumption DEF Reply, ToClient
    <3>2. ASSUME c \in Calls, NEW body, sent' = [sent EXCEPT ![c] = Append(@, body)]
          PROVE  sent'[c] # <<>>
      <4>1. c \in Ids /\ sent[c] \in Seq(Said \cup {body})
        <5>1. sent[c] \in Seq(Said)
            BY <1>0, <3>2 DEF EndInv
        <5>2. QED
            BY <1>0, <3>2, <5>1, SeqMonotonic
      <4>2. Append(sent[c], body) # <<>>
          BY <4>1, AppendProperties
      <4>3. QED
          BY <3>2, <4>1, <4>2 DEF EndInv
    <3>3. QED
        BY <3>1, <3>2
  <2>4. \A d \in Calls \cap done' : sent'[d] # <<>>
      BY <1>0, <2>1, <2>3
  <2>5. QED
      BY <2>1, <2>2, <2>4, StepSends DEF EndInv, RepliedBeforeEnd
<1>4. CASE EndOutput
  <2>1. InFlight = {} /\ UNCHANGED <<child, fate, done>>
      BY <1>4 DEF EndOutput, EndDue, guardVars
  <2>2. InFlight' = {}
      BY <2>1 DEF InFlight
  <2>3. QED
      BY <1>0, <2>1, <2>2, StepSends DEF EndInv, RepliedBeforeEnd
<1>5. CASE SpawnFails
  <2>1. child = "starting" /\ child' = "failed" /\ UNCHANGED <<fate, done>>
      BY <1>5 DEF SpawnFails, guardVars
  <2>2. InFlight' = {}
      BY <2>1 DEF EndInv, InFlight
  <2>3. QED
      BY <1>0, <2>1, <2>2, StepSends DEF EndInv, RepliedBeforeEnd
<1>6. CASE UNCHANGED <<ended, fate, done>> /\ (child' = child \/ child' # "starting")
  <2>1. InFlight' = InFlight
      BY <1>6 DEF InFlight
  <2>2. QED
      BY <1>0, <1>6, <2>1, StepSends DEF EndInv, RepliedBeforeEnd
<1>7. QED
    BY <1>1, <1>2, <1>3, <1>4, <1>5, <1>6
    DEF Next, guardVars, Spawned, ClientQuery, ChildAnswers, ChildAsks, ChildWrites, ChildLine, Exit

\* endOutputWhenQuiet(): the transport does not end before the handlers in
\* progress have replied, whatever ids the two sides use.
THEOREM RepliesComeFirst == Spec => []RepliedBeforeEnd
<1>1. EndInv => RepliedBeforeEnd
    BY DEF EndInv
<1>2. EndInv /\ UNCHANGED vars => EndInv'
    BY DEF EndInv, RepliedBeforeEnd, InFlight, vars, guardVars
<1>3. ForwardedInv /\ EndInv /\ [Next]_vars => (ForwardedInv /\ EndInv)'
    BY <1>2, EndStep, ForwardedStep
<1>4. QED
    BY ForwardedInit, EndInit, <1>1, <1>3, PTL DEF Spec

=============================================================================
