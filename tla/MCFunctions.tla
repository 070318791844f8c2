---------------------------- MODULE MCFunctions -----------------------------
(***************************************************************************)
(* The pure functions of the library over bounded inputs that grow step by *)
(* step: a glob and a name, a regular expression, a policy document that   *)
(* is edited, the argument of a call, the log of several runs.             *)
(***************************************************************************)
EXTENDS FunctionProperties, Equality, Canonical, TLC

CONSTANTS MaxPattern, MaxName, MaxPieces, MaxEdits, MaxDepth, MaxEntries

vars == <<task, subject, size>>

-----------------------------------------------------------------------------
(* Values for the constants.                                               *)

Indices == "0" :> 0 @@ "1" :> 1
Numerals == Indices @@ "01" :> 1 @@ "" :> 0

A == Str(<<"a">>)
NestedPattern == <<"(", "a", "+", ")", "+">>
DeepPattern == <<"(">> \o <<"(", "a", "+", ")">> \o <<")", "+">>
Languages ==
    [pattern \in {<<"a">>, NestedPattern, DeepPattern} |-> {<<"a">>, <<"a", "a">>}]
Hosts == <<"u">> :> <<"api", "org">> @@ <<"v">> :> <<"net">>

Names == {<<"r">>, <<"r", ".", "x">>, <<"w">>}

Texts == {<<>>, <<"a">>, <<"a", "a">>, <<"u">>, <<"v">>}
SomeValues == <<Num(1), Num(3), NaN, Null, Undefined, Bool(TRUE), Obj(<<>>), Arr(<<>>), Arr(<<A>>)>>
Args == {Obj(<<>>)} \cup {Obj([p |-> SomeValues[i]]) : i \in DOMAIN SomeValues}
                    \cup {Obj([p |-> Str(text)]) : text \in Texts}

Floors == [calls |-> 10, denied |-> 3, bytes |-> 1024, usd |-> 1, tool |-> 5]

-----------------------------------------------------------------------------
(* Policy documents: a valid one, and what may be put where in it.         *)

P == <<"p">>
When(c) == Obj(P :> Obj(c))

Rule(id, tool, effect, when) ==
    Obj([id |-> Word(id), tools |-> Arr(<<Word(tool)>>), effect |-> Word(effect),
         when |-> when, limit |-> Obj([max |-> Num(1), perSeconds |-> Num(2)])])

Document ==
    Obj([version |-> Word("1"), default |-> Word("deny"),
         budget  |-> Obj([calls |-> Num(2)]),
         plan    |-> Obj([purpose |-> Word("x"), warnAt |-> Arr(<<Num(50)>>)]),
         rules   |-> Arr(<<Rule("one", "r", "allow", When([matches |-> A])),
                           Rule("two", "w", "ask", Obj(<<>>))>>)])

Gone == [gone |-> TRUE]

First == <<"rules", 1>>
Edits == <<
    <<<<"version">>, <<Word("2"), Num(1), Gone>>>>,
    <<<<"default">>, <<Word("allow"), Word("never"), Gone>>>>,
    <<<<"budget">>, <<Obj(<<>>), Null, Gone>>>>,
    <<<<"budget", "calls">>, <<Num(0), NaN, Word("3"), Gone>>>>,
    <<<<"budget", "seconds">>, <<Num(1), Num(-1)>>>>,
    <<<<"plan">>, <<Gone, Null>>>>,
    <<<<"plan", "purpose">>, <<Str(<<>>), Gone>>>>,
    <<<<"plan", "warnAt">>, <<Gone, Arr(<<>>), Arr(<<Num(100), Num(1)>>), Arr(<<Num(0)>>),
                              Arr(<<Num(101)>>), Arr(<<NaN>>), Num(50)>>>>,
    <<First \o <<"id">>, <<Word("two"), Str(<<>>), Num(1)>>>>,
    <<First \o <<"tools">>, <<Arr(<<>>), Arr(<<Str(<<>>)>>), Arr(<<Word("*")>>),
                              Arr(<<Word("w"), Str(<<"*", "*">>)>>), Word("r")>>>>,
    <<First \o <<"effect">>, <<Word("deny"), Word("ask"), Word("never"), Gone>>>>,
    <<First \o <<"when">>, <<Gone, Obj(<<>>), Null>>>>,
    <<First \o <<"when", P>>,
      <<Obj([min |-> Num(2)]), Obj([max |-> NaN]), Obj([maxLength |-> Num(1)]),
        Obj([startsWith |-> Arr(<<A>>)]), Obj([startsWith |-> A]), Obj([excludes |-> Arr(<<A>>)]),
        Obj([urlHosts |-> Arr(<<Str(<<".", "org">>)>>)]), Obj([oneOf |-> Arr(<<A, Arr(<<A>>)>>)]),
        Obj([noneOf |-> Arr(<<Obj(<<>>)>>)]), Obj([type |-> Word("number"), max |-> Num(2)]),
        Obj([optional |-> Bool(TRUE), minLength |-> Num(1)]), Obj([matches |-> Str(NestedPattern)]),
        Obj([matches |-> Str(<<"(">>)]), Obj([type |-> Word("date")]), Null>>>>,
    <<<<"rules", 2, "when">>, <<When([matches |-> Str(DeepPattern)])>>>>,
    <<First \o <<"limit">>, <<Gone, Num(1)>>>>,
    <<First \o <<"limit", "max">>, <<Num(0), Num(2), Num(-1), NaN, Gone>>>>,
    <<First \o <<"limit", "perSeconds">>, <<Gone, Num(0), NaN>>>>
>>

\* v with `new` at a place, or without what is there.
RECURSIVE Put(_, _, _)
Put(v, place, new) ==
    LET key == Head(place)
    IN  CASE place = <<>> -> new
          [] place # <<>> /\ Tag(v) = "array" -> Arr([v.array EXCEPT ![key] = Put(@, Tail(place), new)])
          [] place # <<>> /\ Tag(v) = "object" ->
                IF Len(place) = 1 /\ new = Gone THEN Obj([k \in DOMAIN Own(v) \ {key} |-> Own(v)[k]])
                ELSE Obj(key :> Put(Member(v, key), Tail(place), new) @@ Own(v))
          [] OTHER -> v

-----------------------------------------------------------------------------
Leaves == <<Num(1), A, Null, Undefined, NaN, Date(A), Hole, Boxed(Num(1))>>

Figure(tool, effect, bytes) == [tool |-> tool, effect |-> effect, bytes |-> bytes]
Figures == {Figure("t", "allow", 0), Figure("t", "allow", 1000), Figure("t", "allow", 9000),
            Figure("u", "deny", 0), Figure("toolwrit:plan", "allow", 0)}

DriftEntry(run, figure) ==
    [run |-> run, tool |-> figure.tool, effect |-> figure.effect,
     usage |-> [bytes |-> figure.bytes, usd |-> 0]]

Init ==
    /\ size = 0
    /\ \/ task = "glob" /\ subject = [pattern |-> <<>>, name |-> <<>>]
       \/ task = "regexp" /\ subject = <<>>
       \/ task = "policy" /\ subject = Document
       \/ task = "argument" /\ \E i \in DOMAIN Leaves : Leaves[i] # Hole /\ subject = Leaves[i]
       \/ task = "drift" /\ subject = <<>>

GrowGlob ==
    /\ task = "glob"
    /\ \/ /\ Len(subject.pattern) < MaxPattern
          /\ \E char \in {"a", "*", "."} : subject' = [subject EXCEPT !.pattern = Append(@, char)]
       \/ /\ Len(subject.name) < MaxName
          /\ \E char \in {"a", ".", "/"} : subject' = [subject EXCEPT !.name = Append(@, char)]
    /\ UNCHANGED <<task, size>>

\* A group is opened before it is closed, and a quantifier follows an atom.
GrowRegExp ==
    /\ task = "regexp" /\ size < MaxPieces
    /\ \E piece \in Pieces :
          /\ piece = ")" => Open(subject, 1, size) > 0
          /\ piece = "+" => subject # <<>> /\ Last(subject) \notin {"(", "+"}
          /\ subject' = Append(subject, piece)
    /\ size' = size + 1 /\ UNCHANGED task

EditPolicy ==
    /\ task = "policy" /\ size < MaxEdits
    /\ \E e \in DOMAIN Edits : \E n \in DOMAIN Edits[e][2] :
          subject' = Put(subject, Edits[e][1], Edits[e][2][n])
    /\ size' = size + 1 /\ UNCHANGED task

Wrap ==
    /\ task = "argument" /\ size < MaxDepth
    /\ \/ subject' = Arr(<<subject>>)
       \/ subject' = Obj([b |-> subject])
       \/ \E i \in DOMAIN Leaves :
             \/ subject' = Arr(<<Leaves[i], subject>>)
             \/ Leaves[i] # Hole /\ subject' = Obj([b |-> subject, c |-> Leaves[i]])
    /\ size' = size + 1 /\ UNCHANGED task

\* The next entry is of the newest run, or starts another.
LogEntry ==
    /\ task = "drift" /\ size < MaxEntries
    /\ \E figure \in Figures : \E more \in {0, 1} :
          LET run == IF subject = <<>> THEN 1 ELSE Last(subject).run + more
          IN  subject' = Append(subject, DriftEntry(run, figure))
    /\ size' = size + 1 /\ UNCHANGED task

Next == GrowGlob \/ GrowRegExp \/ EditPolicy \/ Wrap \/ LogEntry

Spec == Init /\ [][Next]_vars

-----------------------------------------------------------------------------
RECURSIVE Plain(_)
Plain(v) ==
    CASE Tag(v) \in {"hole", "boxed"} -> FALSE
      [] Tag(v) = "array"  -> \A i \in DOMAIN v.array : Plain(v.array[i])
      [] Tag(v) = "object" -> \A key \in DOMAIN Own(v) : Plain(Own(v)[key])
      [] OTHER -> TRUE

Paths == {<<"b">>, <<"a", "b">>, <<"a", "0">>, <<"a", "1", "b">>, <<"a", "b", "c">>}

\* The arguments in an entry hash to the same when they are read back from the
\* file, as long as no array is sparse and no primitive boxed; and what a rule
\* sees at a redacted path is in neither.
RecordedArgumentsSurvive ==
    task = "argument" =>
        \A path \in Paths :
            LET args == Obj([a |-> subject])
                kept == RedactArgs(args, <<path>>)
            IN  /\ Plain(kept) => Canonicalize(Reread(kept)) = Canonicalize(kept)
                /\ ResolvePath(args, path) \in {Missing, Undefined}
                   \/ ResolvePath(Reread(kept), path) = Redaction

\* Redaction leaves every other value alone: what a rule sees where another path
\* leads is the same before and after.
RedactionIsLocal ==
    task = "argument" =>
        LET args == Obj([a |-> subject])
            part(p, q) == \E n \in DOMAIN p \cap DOMAIN q : p[n] # q[n]
        IN  \A path, other \in Paths :
                part(path, other) =>
                    ResolvePath(RedactArgs(args, <<path>>), other) = ResolvePath(args, other)

=============================================================================
