------------------------- MODULE FunctionProperties -------------------------
(***************************************************************************)
(* What the pure functions of the library promise of their inputs: a glob  *)
(* and a name, a regular expression, a policy document, the log of several *)
(* runs.                                                                   *)
(***************************************************************************)
EXTENDS PolicyLoad, Drift

CONSTANT Typo   \* a word that is the name of no field

ASSUME TypoIsNoField ==
    Typo \notin PolicyKeys \cup PlanKeys \cup RuleKeys \cup LimitKeys \cup ConstraintKeys \cup Dimensions

VARIABLES
    task,       \* which function is looked at
    subject,    \* its input
    size        \* the steps it took to build the input

-----------------------------------------------------------------------------
\* A name matches when it can be cut into one piece for each token of the
\* pattern: the token itself, for one star a piece without separators, for two
\* stars any piece.  A glob never widens across a separator by accident.
GlobsKeepSeparators ==
    task = "glob" =>
        LET tokens == Tokens(subject.pattern)
            name == subject.name
            fits(token, piece) ==
                CASE token = "**" -> TRUE
                  [] token = "*"  -> Range(piece) \cap Separators = {}
                  [] OTHER        -> piece = <<token>>
            cuts == {cut \in [0 .. Len(tokens) -> 0 .. Len(name)] :
                        cut[0] = 0 /\ cut[Len(tokens)] = Len(name)}
        IN  MatchesGlob(subject.pattern, name) =
                \E cut \in cuts : \A i \in DOMAIN tokens :
                    cut[i - 1] <= cut[i] /\ fits(tokens[i], SubSeq(name, cut[i - 1] + 1, cut[i]))

-----------------------------------------------------------------------------
\* What a regular expression is built of: a class and an escape hide brackets.
Class == "[...]"
Escape == "\\("
Pieces == {"(", ")", "+", "a", Class, Escape}

TokensOf(piece) ==
    CASE piece = Class  -> <<"[", "\\", "]", "(", "+", "]">>
      [] piece = Escape -> <<"\\", "(">>
      [] OTHER          -> <<piece>>

Expand(pieces) ==
    LET first[k \in 0 .. Len(pieces)] ==
            IF k = 0 THEN <<>> ELSE first[k - 1] \o TokensOf(pieces[k])
    IN  first[Len(pieces)]

\* The groups that are opened and not closed from piece i to piece j.
Open(pieces, i, j) ==
    Cardinality({k \in i .. j : pieces[k] = "("}) - Cardinality({k \in i .. j : pieces[k] = ")"})

\* The group that opens at o closes at c, and a quantifier follows it.
Repeated(pieces, o, c) ==
    /\ o < c /\ pieces[o] = "(" /\ pieces[c] = ")"
    /\ c + 1 \in DOMAIN pieces /\ pieces[c + 1] = "+"
    /\ Open(pieces, o, c) = 0 /\ \A j \in o .. c - 1 : Open(pieces, o, j) > 0

\* Piece k is a quantifier in that group, in a group in it or in none.
Within(pieces, o, c, k) == k \in o + 1 .. c - 1 /\ pieces[k] = "+"

Directly(pieces, o, k) ==
    Open(pieces, o + 1, k) = 0 /\ \A j \in o + 1 .. k : Open(pieces, o + 1, j) >= 0

Refused(pieces) == NestedQuantifier(Expand(pieces))

\* The shapes that have to be refused are, and nothing else is, wherever classes
\* and escapes hide brackets: a quantified group with a quantifier directly in it
\* is refused; what is refused has a quantified group with a quantifier in it, at
\* whatever depth.  Of a quantifier that is deeper in the group it says nothing.
NestingIsRefused ==
    task = "regexp" =>
        /\ (\E o, c \in DOMAIN subject :
               /\ Repeated(subject, o, c)
               /\ \E k \in DOMAIN subject : Within(subject, o, c, k) /\ Directly(subject, o, k))
           => Refused(subject)
        /\ Refused(subject) =>
               \E o, c \in DOMAIN subject :
                   Repeated(subject, o, c) /\ \E k \in DOMAIN subject : Within(subject, o, c, k)

-----------------------------------------------------------------------------
\* A value that has the kind each key of a constraint is about, or is absent
\* where that is optional.
RightKind(c, value) ==
    LET has(keys) == \E key \in keys \cap DOMAIN Own(c) : Own(c)[key] # Undefined
    IN  \/ value \in {Missing, Undefined} /\ Member(c, "optional") = Bool(TRUE)
        \/ /\ value \notin {Missing, Undefined}
           /\ has(StringKeys) => TypeOf(value) = "string"
           /\ has(NumberKeys) => TypeOf(value) = "number"
           /\ has(LengthKeys) => TypeOf(value) = "string" \/ IsType(value, "array")

\* What the other modules assume of a policy.
AsAssumed(policy) ==
    LET rules == policy.rules
    IN  /\ policy.default \in Effects
        /\ DOMAIN policy.budget \subseteq Dimensions
        /\ \A dim \in DOMAIN policy.budget : policy.budget[dim] \in Nat \ {0}
        /\ policy.warnAt \subseteq 1 .. 100
        /\ rules \in Seq({rules[i] : i \in DOMAIN rules})
        /\ \A i, j \in DOMAIN rules : rules[i].id = rules[j].id => i = j
        /\ \A i \in DOMAIN rules :
               /\ rules[i].id # None
               /\ rules[i].limit # None =>
                      rules[i].limit.max \in Nat /\ rules[i].limit.perSeconds \in Nat \cup {None}

\* A document that loads is what the engine and the instance take it for, and a
\* run under it starts below every ceiling.
LoadedIsAsAssumed ==
    task = "policy" /\ ValidatePolicy(subject) =>
        /\ AsAssumed(Loaded(subject))
        /\ CheckBudget([tool |-> <<"r">>, arg |-> Obj(<<>>), at |-> 0], Loaded(subject), Unused) = {}

\* The rules of a document, as it is written.
Written(root) == Member(root, "rules").array

\* A call that rule i of a document matches is refused when as many calls as its
\* limit have been attributed to it just now.
ReachedRefuses(root, i) ==
    LET policy == Loaded(root)
        rule == policy.rules[i]
        used == [n \in 1 .. rule.limit.max |-> [effect |-> "allow", rule |-> rule.id, at |-> 0]]
    IN  rule.limit # None =>
            \A tool \in rule.tools, args \in rule.when :
                Evaluate([tool |-> tool, arg |-> args, at |-> 0], policy, Unused, used).effect = "deny"

\* A limit without a window, or with one that is a positive number of seconds,
\* refuses once it is reached.
PositiveWindowsLimit ==
    task = "policy" /\ ValidatePolicy(subject) =>
        \A i \in DOMAIN Written(subject) :
            LET window == Member(Member(Written(subject)[i], "limit"), "perSeconds")
            IN  window = Undefined \/ (window # NaN /\ window.number > 0) => ReachedRefuses(subject, i)

\* No argument of another kind satisfies a rule: an array does not pass for a
\* path, nor a text for a number.
OtherKindsAreRefused ==
    task = "policy" /\ ValidatePolicy(subject) =>
        \A i \in DOMAIN Written(subject) : \A args \in Loaded(subject).rules[i].when :
            LET when == Own(Member(Written(subject)[i], "when"))
            IN  \A path \in DOMAIN when : RightKind(when[path], ResolvePath(args, path))

-----------------------------------------------------------------------------
(* What the repository says of every document that loads.                  *)

\* "perSeconds must be a positive number" (load.ts:198): a limit that is reached
\* refuses.  NaN is not below or equal to zero, so it loads, and no entry is ever
\* in that window.
EveryLimitLimits(root) == \A i \in DOMAIN Written(root) : ReachedRefuses(root, i)

\* "A plan with nothing to measure against would report nothing [...]. Fail
\* loudly instead." (load.ts:115)  A budget without a ceiling loads with a plan.
PlanIsMeasured(root) == Member(root, "plan") # Undefined => DOMAIN Loaded(root).budget # {}

\* The constraints of rule i of a document: a record of them by path.
Constrained(root, i) == Own(Member(Written(root)[i], "when"))

\* A text under min or max is, "without type: number, no violation at all"
\* (policy-reference.md:302).  It is a violation of the type.
BoundsLeaveTextsAlone(root) ==
    \A i \in DOMAIN Written(root) : \A path \in DOMAIN Constrained(root, i), args \in Arguments :
        LET c == Constrained(root, i)[path]
            value == ResolvePath(args, path)
        IN  DOMAIN Own(c) \subseteq NumberKeys /\ IsString(value) => CheckOne(c, value) = {}

\* "A pattern with a quantifier applied to a group that already contains one is
\* rejected at load" (policy-reference.md:204).  The scan marks the innermost
\* group, and a group that closes without a quantifier takes the mark with it.
NestingIsGone(root) ==
    \A i \in DOMAIN Written(root) : \A path \in DOMAIN Constrained(root, i) :
        LET pattern == Member(Constrained(root, i)[path], "matches")
        IN  pattern # Undefined =>
                ~\E o, c, k \in DOMAIN pattern.string :
                    Repeated(pattern.string, o, c) /\ Within(pattern.string, o, c, k)

\* Each of these is said of every document that loads, so no document that loads
\* is at odds with all of them.
LoadedKeepsAPromise ==
    task = "policy" /\ ValidatePolicy(subject) =>
        \/ EveryLimitLimits(subject)
        \/ PlanIsMeasured(subject)
        \/ BoundsLeaveTextsAlone(subject)
        \/ NestingIsGone(subject)

-----------------------------------------------------------------------------
\* v with one field misspelt.
Misspell(v, key) ==
    Obj([k \in (DOMAIN Own(v) \ {key}) \cup {Typo} |-> Own(v)[IF k = Typo THEN key ELSE k]])

\* v with another value for a field.
With(v, key, new) == Obj([Own(v) EXCEPT ![key] = new])

\* No misspelt field passes for one that was left out, at any depth.
TyposAreRefused ==
    task = "policy" /\ ValidatePolicy(subject) =>
        LET rules == Member(subject, "rules").array
            refused(v, Document(_)) ==
                \A key \in DOMAIN Own(v) : ~ValidatePolicy(Document(Misspell(v, key)))
        IN  /\ refused(subject, LAMBDA v : v)
            /\ \A field \in {"budget", "plan"} :
                   refused(Member(subject, field), LAMBDA v : With(subject, field, v))
            /\ \A i \in DOMAIN rules :
                   LET rule == rules[i]
                       when == Member(rule, "when")
                       document(v) == With(subject, "rules", Arr([rules EXCEPT ![i] = v]))
                   IN  /\ refused(rule, document)
                       /\ refused(Member(rule, "limit"), LAMBDA v : document(With(rule, "limit", v)))
                       /\ \A path \in DOMAIN Own(when) :
                              refused(Own(when)[path],
                                      LAMBDA v : document(With(rule, "when", With(when, path, v))))

-----------------------------------------------------------------------------
\* One bad run among those before does not hide another: a figure that stands
\* out from all the earlier runs but one is reported.
OneBadRunHidesNothing ==
    task = "drift" /\ Len(Runs(subject)) > MinHistory =>
        LET runs == ProfileRuns(subject)
            n == Len(runs)
        IN  \A bad \in 1 .. n - 1 : \A metric \in Metrics :
                (\A r \in (1 .. n - 1) \ {bad} :
                    Exceeds(runs[n][metric], 2 * runs[r][metric], Floor[metric]))
                => <<"metric", metric>> \in DetectDrift(subject, n).findings

=============================================================================
