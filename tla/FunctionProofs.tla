--------------------------- MODULE FunctionProofs ---------------------------
(***************************************************************************)
(* Theorems about the pure functions of the library, for documents, names, *)
(* expressions and logs of any size.                                       *)
(***************************************************************************)
EXTENDS FunctionProperties, PolicyEngineProofs, FiniteSetTheorems, SequenceTheorems

-----------------------------------------------------------------------------
(*                                Induction                                *)

\* A set of naturals with zero and the successor of each of its members has them all.
LEMMA NatsInSet ==
    ASSUME NEW X, 0 \in X, \A k \in Nat : k \in X => k + 1 \in X
    PROVE  \A k \in Nat : k \in X
<1> DEFINE Rest == {k \in Nat : k \notin X}
<1>1. SUFFICES ASSUME Rest # {} PROVE FALSE
    OBVIOUS
<1>2. FirstOf(Rest) \in Rest /\ \A k \in Rest : FirstOf(Rest) <= k
    BY <1>1, FirstIsLeast
<1>3. PICK k \in Rest : \A j \in Rest : k <= j
    BY <1>2
<1>4. k # 0 /\ k - 1 \in Nat /\ k - 1 \notin Rest
    BY <1>3
<1>5. k - 1 \in X /\ (k - 1) + 1 = k
    BY <1>3, <1>4
<1>6. QED
    BY <1>3, <1>4, <1>5

-----------------------------------------------------------------------------
(*                           JavaScript values                             *)

\* A set of values that has the members of each of its values.
ValueSet(V) ==
    \A v \in V :
        \/ v \in {Undefined, Null, NaN, Hole}
        \/ \E b \in BOOLEAN : v = Bool(b)
        \/ \E n \in Int : v = Num(n)
        \/ \E S : \E s \in Seq(S) : v = Str(s)
        \/ \E s \in Seq(V) : v = Arr(s)
        \/ \E K : \E f \in [K -> V] : v = Obj(f)
        \/ \E w : v = Date(w) \/ v = Boxed(w)

\* A value is tagged with the name of its only field.
LEMMA TagOfField ==
    ASSUME NEW v, NEW field, DOMAIN v = {field}
    PROVE  Tag(v) = field
BY DEF Tag

\* The tag of each kind of value.
LEMMA TagsOfValues ==
    /\ Tag(Undefined) = "undefined" /\ Tag(Missing) = "missing" /\ Tag(Null) = "null"
    /\ Tag(NaN) = "nan" /\ Tag(Hole) = "hole"
    /\ \A x : /\ Tag(Bool(x)) = "boolean" /\ Tag(Num(x)) = "number" /\ Tag(Str(x)) = "string"
              /\ Tag(Arr(x)) = "array" /\ Tag(Obj(x)) = "object" /\ Tag(Date(x)) = "date"
              /\ Tag(Boxed(x)) = "boxed"
<1>1. /\ DOMAIN Undefined = {"undefined"} /\ DOMAIN Missing = {"missing"}
      /\ DOMAIN Null = {"null"} /\ DOMAIN NaN = {"nan"} /\ DOMAIN Hole = {"hole"}
    BY DEF Undefined, Missing, Null, NaN, Hole
<1>2. /\ Tag(Undefined) = "undefined" /\ Tag(Missing) = "missing" /\ Tag(Null) = "null"
      /\ Tag(NaN) = "nan" /\ Tag(Hole) = "hole"
    BY <1>1, TagOfField, Zenon
<1>3. ASSUME NEW x PROVE Tag(Bool(x)) = "boolean"
  <2>1. DOMAIN Bool(x) = {"boolean"}
      BY DEF Bool
  <2>2. QED
      BY <2>1, TagOfField, Zenon
<1>4. ASSUME NEW x PROVE Tag(Num(x)) = "number"
  <2>1. DOMAIN Num(x) = {"number"}
      BY DEF Num
  <2>2. QED
      BY <2>1, TagOfField, Zenon
<1>5. ASSUME NEW x PROVE Tag(Str(x)) = "string"
  <2>1. DOMAIN Str(x) = {"string"}
      BY DEF Str
  <2>2. QED
      BY <2>1, TagOfField, Zenon
<1>6. ASSUME NEW x PROVE Tag(Arr(x)) = "array"
  <2>1. DOMAIN Arr(x) = {"array"}
      BY DEF Arr
  <2>2. QED
      BY <2>1, TagOfField, Zenon
<1>7. ASSUME NEW x PROVE Tag(Obj(x)) = "object"
  <2>1. DOMAIN Obj(x) = {"object"}
      BY DEF Obj
  <2>2. QED
      BY <2>1, TagOfField, Zenon
<1>8. ASSUME NEW x PROVE Tag(Date(x)) = "date"
  <2>1. DOMAIN Date(x) = {"date"}
      BY DEF Date
  <2>2. QED
      BY <2>1, TagOfField, Zenon
<1>9. ASSUME NEW x PROVE Tag(Boxed(x)) = "boxed"
  <2>1. DOMAIN Boxed(x) = {"boxed"}
      BY DEF Boxed
  <2>2. QED
      BY <2>1, TagOfField, Zenon
<1>10. QED
    BY <1>2, <1>3, <1>4, <1>5, <1>6, <1>7, <1>8, <1>9

\* What a value is follows from its tag.
LEMMA ValueOfTag ==
    ASSUME NEW V, ValueSet(V), NEW v \in V
    PROVE  /\ Tag(v) = "number" => v.number \in Int /\ v = Num(v.number)
           /\ Tag(v) = "string" => (\E S : v.string \in Seq(S)) /\ v = Str(v.string)
           /\ Tag(v) = "array" => v.array \in Seq(V) /\ v = Arr(v.array)
           /\ Tag(v) = "object" => v.object \in [DOMAIN v.object -> V] /\ v = Obj(v.object)
           /\ Tag(v) = "nan" => v = NaN
<1>1. \A x : /\ Num(x).number = x /\ Str(x).string = x
             /\ Arr(x).array = x /\ Obj(x).object = x
    BY DEF Num, Str, Arr, Obj
<1>2. CASE v \in {Undefined, Null, NaN, Hole}
    BY <1>2, TagsOfValues
<1>3. CASE \E b \in BOOLEAN : v = Bool(b)
    BY <1>3, TagsOfValues
<1>4. CASE \E n \in Int : v = Num(n)
    BY <1>1, <1>4, TagsOfValues
<1>5. CASE \E S : \E s \in Seq(S) : v = Str(s)
    BY <1>1, <1>5, TagsOfValues
<1>6. CASE \E s \in Seq(V) : v = Arr(s)
    BY <1>1, <1>6, TagsOfValues
<1>7. CASE \E K : \E f \in [K -> V] : v = Obj(f)
    BY <1>1, <1>7, TagsOfValues
<1>8. CASE \E w : v = Date(w) \/ v = Boxed(w)
    BY <1>8, TagsOfValues
<1>9. QED
    BY <1>2, <1>3, <1>4, <1>5, <1>6, <1>7, <1>8 DEF ValueSet

\* A member of a value is a value, or there is none.
LEMMA MemberIsValue ==
    ASSUME NEW V, ValueSet(V), NEW v \in V, NEW key
    PROVE  Member(v, key) \in V \cup {Undefined}
<1>1. CASE Tag(v) = "object"
  <2>1. Own(v) \in [DOMAIN v.object -> V] /\ DOMAIN Own(v) = DOMAIN v.object
      BY <1>1, ValueOfTag DEF Own
  <2>2. QED
      BY <2>1 DEF Member
<1>2. CASE Tag(v) # "object"
  <2>1. DOMAIN Own(v) = {}
      BY <1>2 DEF Own
  <2>2. QED
      BY <2>1 DEF Member
<1>3. QED
    BY <1>1, <1>2

-----------------------------------------------------------------------------
(*                          Documents that load                            *)

\* Every text is a sequence, and None is not.
NoneIsNoText == \A S : None \notin Seq(S)

\* The ceilings of a document that loads are positive numbers.
LEMMA LoadedBudget ==
    ASSUME NEW V, ValueSet(V), NEW root \in V, ValidatePolicy(root)
    PROVE  /\ DOMAIN Loaded(root).budget \subseteq Dimensions
           /\ \A dim \in DOMAIN Loaded(root).budget : Loaded(root).budget[dim] \in Nat \ {0}
<1> DEFINE b == Member(root, "budget")
           given == {d \in DOMAIN Own(b) : Own(b)[d] # Undefined}
<1>1. Loaded(root).budget = [dim \in given |-> Own(b)[dim].number]
    BY DEF Loaded
<1>2. ASSUME NEW dim \in given
      PROVE  dim \in Dimensions /\ Own(b)[dim].number \in Nat \ {0}
  <2>1. b # Undefined
    <3>1. DOMAIN Own(Undefined) = {}
        BY TagsOfValues DEF Own
    <3>2. QED
        BY <1>2, <3>1
  <2>2. ValidBudget(b) /\ b \in V
      BY <2>1, MemberIsValue DEF ValidatePolicy, Optionally
  <2>3. dim \in Dimensions
      BY <1>2, <2>2 DEF ValidBudget, OnlyFields
  <2>4. Member(b, dim) = Own(b)[dim] /\ Member(b, dim) # Undefined
      BY <1>2 DEF Member
  <2>5. Member(b, dim) \in V
      BY <2>2, <2>4, MemberIsValue
  <2>6. Tag(Member(b, dim)) = "number" /\ Member(b, dim).number > 0
      BY <2>2, <2>3, <2>4 DEF ValidBudget, Optionally
  <2>7. Member(b, dim).number \in Int
      BY <2>5, <2>6, ValueOfTag
  <2>8. QED
      BY <2>3, <2>4, <2>6, <2>7
<1>3. QED
    BY <1>1, <1>2, Zenon

\* The thresholds of a plan are percentages.
LEMMA LoadedThresholds ==
    ASSUME NEW V, ValueSet(V), NEW root \in V, ValidatePolicy(root)
    PROVE  Loaded(root).warnAt \subseteq 1 .. 100
<1> DEFINE plan == Member(root, "plan")
           w == Member(plan, "warnAt")
<1>1. Loaded(root).warnAt = Thresholds(plan)
    BY DEF Loaded
<1>2. CASE plan = Undefined
    BY <1>1, <1>2 DEF Thresholds
<1>3. CASE plan # Undefined /\ w = Undefined
    BY <1>1, <1>3 DEF Thresholds, DefaultWarnAt
<1>4. CASE plan # Undefined /\ w # Undefined
  <2>1. plan \in V /\ ValidPlan(plan)
      BY <1>4, MemberIsValue DEF ValidatePolicy, Optionally
  <2>2. w \in V /\ IsList(w) /\ All(w, LAMBDA t : Tag(t) = "number" /\ t.number > 0 /\ t.number <= 100)
      BY <1>4, <2>1, MemberIsValue DEF ValidPlan, Optionally
  <2>3. w.array \in Seq(V) /\ w.array # <<>>
      BY <2>2, ValueOfTag DEF IsList, IsArray
  <2>4. ASSUME NEW i \in DOMAIN w.array
        PROVE  w.array[i].number \in 1 .. 100
    <3>1. Tag(w.array[i]) = "number" /\ w.array[i].number > 0 /\ w.array[i].number <= 100
        BY <2>2, <2>4 DEF All
    <3>2. w.array[i].number \in Int
        BY <2>3, <2>4, <3>1, ValueOfTag
    <3>3. QED
        BY <3>1, <3>2
  <2>5. Thresholds(plan) = {t.number : t \in Range(w.array)}
      BY <1>4 DEF Thresholds
  <2>6. Thresholds(plan) = {w.array[i].number : i \in DOMAIN w.array}
      BY <2>5 DEF Range
  <2> HIDE DEF plan, w
  <2>7. Thresholds(plan) \subseteq 1 .. 100
      BY <2>4, <2>6
  <2>8. QED
      BY <1>1, <2>7 DEF plan
<1>5. QED
    BY <1>2, <1>3, <1>4

\* A rule that loads has a text for its id, and its limit a count and a window.
LEMMA LoadedRuleType ==
    ASSUME NEW V, ValueSet(V), NEW rule \in V, ValidRule(rule)
    PROVE  LET limit == Member(rule, "limit")
               loaded == LoadedRule(rule).limit
           IN  /\ \E S : LoadedRule(rule).id \in Seq(S)
               /\ Member(rule, "id") = Str(LoadedRule(rule).id)
               /\ limit = Undefined => loaded = None
               /\ limit # Undefined =>
                      /\ loaded.max \in Nat
                      /\ loaded.perSeconds \in Nat \cup {None}
                      /\ Member(limit, "perSeconds") # NaN =>
                             loaded.perSeconds = None \/ loaded.perSeconds \in Nat \ {0}
<1> DEFINE limit == Member(rule, "limit")
           max == Member(limit, "max")
           per == Member(limit, "perSeconds")
<1>1. LoadedRule(rule).id = Member(rule, "id").string
    BY DEF LoadedRule
<1>2. Member(rule, "id") \in V /\ Tag(Member(rule, "id")) = "string"
    BY MemberIsValue, TagsOfValues DEF ValidRule, IsText, IsString
<1>3. (\E S : LoadedRule(rule).id \in Seq(S)) /\ Member(rule, "id") = Str(LoadedRule(rule).id)
    BY <1>1, <1>2, ValueOfTag
<1>4. limit = Undefined => LoadedRule(rule).limit = None
    BY DEF LoadedRule
<1>5. ASSUME limit # Undefined
      PROVE  /\ LoadedRule(rule).limit.max \in Nat
             /\ LoadedRule(rule).limit.perSeconds \in Nat \cup {None}
             /\ per # NaN => \/ LoadedRule(rule).limit.perSeconds = None
                             \/ LoadedRule(rule).limit.perSeconds \in Nat \ {0}
  <2>1. LoadedRule(rule).limit = [max |-> max.number, perSeconds |-> Window(per)]
      BY <1>5 DEF LoadedRule
  <2>2. limit \in V /\ ValidLimit(limit)
      BY <1>5, MemberIsValue DEF ValidRule, Optionally
  <2>3. max \in V /\ Tag(max) = "number" /\ max.number >= 0
      BY <2>2, MemberIsValue, TagsOfValues DEF ValidLimit
  <2>4. max.number \in Nat
    <3>1. max.number \in Int
        BY <2>3, ValueOfTag
    <3>2. QED
        BY <2>3, <3>1
  <2>5. CASE per = Undefined
    <3>1. Undefined # NaN
        BY TagsOfValues
    <3>2. Window(per) = None
        BY <2>5, <3>1 DEF Window
    <3>3. QED
        BY <2>1, <2>4, <3>2
  <2>6. CASE per = NaN
    <3>1. Undefined # NaN
        BY TagsOfValues
    <3>2. Window(per) = 0
        BY <2>6, <3>1 DEF Window
    <3>3. QED
        BY <2>1, <2>4, <2>6, <3>2
  <2>7. CASE per # Undefined /\ per # NaN
    <3>1. per \in V /\ TypeOf(per) = "number" /\ per.number > 0
        BY <2>2, <2>7, MemberIsValue DEF ValidLimit, Optionally
    <3>2. Tag(per) \in {"number", "nan"}
        BY <3>1 DEF TypeOf
    <3>3. per.number \in Int
        BY <2>7, <3>1, <3>2, ValueOfTag
    <3>4. Window(per) = per.number
        BY <2>7 DEF Window
    <3>5. QED
        BY <2>1, <2>4, <3>1, <3>3, <3>4
  <2>8. QED
      BY <2>5, <2>6, <2>7
<1>6. QED
    BY <1>3, <1>4, <1>5

\* A limit that has been reached is spent for every call in its window.
LEMMA ReachedLimitIsSpent ==
    ASSUME NEW rule, NEW toolCall, rule.limit # None, toolCall.at = 0, rule.limit.max \in Nat,
           rule.limit.perSeconds = None \/ rule.limit.perSeconds \in Nat \ {0}
    PROVE  LimitSpent(rule, toolCall,
               [n \in 1 .. rule.limit.max |-> [effect |-> "allow", rule |-> rule.id, at |-> 0]])
<1> DEFINE history == [n \in 1 .. rule.limit.max |-> [effect |-> "allow", rule |-> rule.id, at |-> 0]]
           counted == {i \in DOMAIN history :
                          /\ history[i].effect # "deny"
                          /\ history[i].rule = rule.id
                          /\ rule.limit.perSeconds = None
                             \/ history[i].at > toolCall.at - rule.limit.perSeconds}
<1>1. rule.limit.perSeconds = None \/ 0 > 0 - rule.limit.perSeconds
    OBVIOUS
<1>2. counted = 1 .. rule.limit.max
    BY <1>1
<1>3. Cardinality(1 .. rule.limit.max) = rule.limit.max
  <2> DEFINE m == rule.limit.max
  <2>1. m \in Nat /\ m \in Int /\ 1 \in Int
      OBVIOUS
  <2> HIDE DEF m
  <2>2. Cardinality(1 .. m) = IF 1 > m THEN 0 ELSE m - 1 + 1
      BY <2>1, FS_Interval
  <2>3. QED
      BY <2>1, <2>2 DEF m
<1>4. CountRecent(history, rule.id, toolCall.at, rule.limit.perSeconds) = Cardinality(counted)
    BY DEF CountRecent
<1> HIDE DEF counted, history
<1>5. CountRecent(history, rule.id, toolCall.at, rule.limit.perSeconds) >= rule.limit.max
    BY <1>2, <1>3, <1>4
<1>6. QED
    BY <1>5 DEF LimitSpent, history

\* An argument that no constraint is violated by is of the kind each is about.
LEMMA AcceptedIsOfRightKind ==
    ASSUME NEW c, NEW value, CheckOne(c, value) = {}
    PROVE  RightKind(c, value)
<1>1. CASE value \in {Missing, Undefined}
    BY <1>1 DEF CheckOne, RightKind
<1>2. CASE value \notin {Missing, Undefined}
  <2>1. \A key \in DOMAIN Own(c) : Own(c)[key] # Undefined => ~WrongType(key, value)
      BY <1>2 DEF CheckOne, Violates
  <2>2. QED
      BY <1>2, <2>1 DEF RightKind, WrongType, HasLength, TypeOf, IsType
<1>3. QED
    BY <1>1, <1>2

\* validatePolicy() establishes what the other modules assume of a policy.
THEOREM LoadedPoliciesAreAsAssumed ==
    ASSUME NEW V, ValueSet(V), NEW root \in V, ValidatePolicy(root), NoneIsNoText
    PROVE  AsAssumed(Loaded(root))
<1> DEFINE policy == Loaded(root)
           raw == Member(root, "rules").array
<1>1. raw \in Seq(V) /\ \A i \in DOMAIN raw : raw[i] \in V /\ ValidRule(raw[i])
  <2>1. Member(root, "rules") \in V /\ Tag(Member(root, "rules")) = "array"
      BY MemberIsValue, TagsOfValues DEF ValidatePolicy, IsArray
  <2>2. raw \in Seq(V)
      BY <2>1, ValueOfTag
  <2>3. \A i \in DOMAIN raw : ValidRule(raw[i])
      BY DEF ValidatePolicy, All
  <2>4. QED
      BY <2>2, <2>3
<1>2. policy.rules = [i \in DOMAIN raw |-> LoadedRule(raw[i])]
    BY DEF Loaded
<1>3. policy.default \in Effects
  <2>1. \A effect : Word(effect).string[1] = effect
      BY DEF Word, Str
  <2>2. CASE Member(root, "default") = Undefined
      BY <2>2 DEF Loaded, Effects
  <2>3. CASE Member(root, "default") # Undefined
    <3>1. PICK effect \in Effects : Member(root, "default") = Word(effect)
        BY <2>3 DEF ValidatePolicy, Optionally, IsEffect
    <3>2. policy.default = Word(effect).string[1]
        BY <2>3, <3>1 DEF Loaded
    <3>3. QED
        BY <2>1, <3>2
  <2>4. QED
      BY <2>2, <2>3
<1>4. DOMAIN raw = 1 .. Len(raw) /\ Len(raw) \in Nat
    BY <1>1
<1> HIDE DEF raw, policy
<1>5. policy.rules \in Seq({policy.rules[i] : i \in DOMAIN policy.rules})
    BY <1>2, <1>4
<1>6. ASSUME NEW i \in DOMAIN raw, NEW j \in DOMAIN raw, policy.rules[i].id = policy.rules[j].id
      PROVE  i = j
  <2>1. Member(raw[i], "id") = Member(raw[j], "id")
      BY <1>1, <1>2, <1>6, LoadedRuleType
  <2>2. QED
      BY <2>1 DEF ValidatePolicy, raw
<1>7. ASSUME NEW i \in DOMAIN raw
      PROVE  /\ policy.rules[i].id # None
             /\ policy.rules[i].limit # None =>
                    /\ policy.rules[i].limit.max \in Nat
                    /\ policy.rules[i].limit.perSeconds \in Nat \cup {None}
    BY <1>1, <1>2, LoadedRuleType DEF NoneIsNoText
<1>8. QED
    BY <1>2, <1>3, <1>5, <1>6, <1>7, LoadedBudget, LoadedThresholds DEF AsAssumed, policy

\* A document that loads is what the other modules take it for, and a run under it
\* starts below every ceiling, whatever is in it.
THEOREM LoadedPoliciesFit ==
    ASSUME NEW V, ValueSet(V), subject \in V, NoneIsNoText
    PROVE  LoadedIsAsAssumed
<1> SUFFICES ASSUME ValidatePolicy(subject)
             PROVE  LoadedIsAsAssumed
    BY DEF LoadedIsAsAssumed
<1> DEFINE policy == Loaded(subject)
<1>1. AsAssumed(policy)
    BY LoadedPoliciesAreAsAssumed
<1>2. CheckBudget([tool |-> <<"r">>, arg |-> Obj(<<>>), at |-> 0], policy, Unused) = {}
  <2>1. ASSUME NEW dim \in DOMAIN policy.budget
        PROVE  Consumed(Unused, dim, 0) = 0
      BY <1>1, <2>1 DEF AsAssumed, Dimensions, Consumed, Unused, Elapsed
  <2>2. QED
      BY <1>1, <2>1 DEF AsAssumed, CheckBudget
<1>3. QED
    BY <1>1, <1>2 DEF LoadedIsAsAssumed

\* The rules of a document that loads, one by one.
LEMMA WrittenRules ==
    ASSUME NEW V, ValueSet(V), NEW root \in V, ValidatePolicy(root)
    PROVE  /\ Written(root) \in Seq(V)
           /\ \A i \in DOMAIN Written(root) : ValidRule(Written(root)[i])
           /\ Loaded(root).rules = [i \in DOMAIN Written(root) |-> LoadedRule(Written(root)[i])]
<1>1. Member(root, "rules") \in V /\ Tag(Member(root, "rules")) = "array"
    BY MemberIsValue, TagsOfValues DEF ValidatePolicy, IsArray
<1>2. Written(root) \in Seq(V)
    BY <1>1, ValueOfTag DEF Written
<1>3. QED
    BY <1>2 DEF ValidatePolicy, All, Written, Loaded

\* A limit without a window, or with a positive one, refuses every call that its
\* rule matches once it is reached, in any document that loads.  Its hypothesis
\* leaves out the window that is not a number, of which
\* EveryLimitLimits is not true.
THEOREM ReachedLimitsRefuse ==
    ASSUME NEW V, ValueSet(V), subject \in V, NoneIsNoText
    PROVE  PositiveWindowsLimit
<1> SUFFICES ASSUME task = "policy", ValidatePolicy(subject), NEW i \in DOMAIN Written(subject),
                    LET window == Member(Member(Written(subject)[i], "limit"), "perSeconds")
                    IN  window = Undefined \/ (window # NaN /\ window.number > 0)
             PROVE  ReachedRefuses(subject, i)
    BY DEF PositiveWindowsLimit
<1> DEFINE policy == Loaded(subject)
           rule == policy.rules[i]
           used == [n \in 1 .. rule.limit.max |-> [effect |-> "allow", rule |-> rule.id, at |-> 0]]
           toolCall(tool, args) == [tool |-> tool, arg |-> args, at |-> 0]
<1>1. /\ Written(subject) \in Seq(V) /\ ValidRule(Written(subject)[i])
      /\ policy.rules = [k \in DOMAIN Written(subject) |-> LoadedRule(Written(subject)[k])]
    BY WrittenRules
<1>2. AsAssumed(policy)
    BY LoadedPoliciesAreAsAssumed
<1>3. Member(Member(Written(subject)[i], "limit"), "perSeconds") # NaN
    BY DEF NaN, Undefined
<1>4. ASSUME rule.limit # None, NEW tool \in rule.tools, NEW args \in rule.when
      PROVE  Evaluate(toolCall(tool, args), policy, Unused, used).effect = "deny"
  <2>1. /\ rule.limit.max \in Nat
        /\ rule.limit.perSeconds = None \/ rule.limit.perSeconds \in Nat \ {0}
      BY <1>1, <1>3, <1>4, LoadedRuleType
  <2>2. LimitSpent(rule, toolCall(tool, args), used)
      BY <1>4, <2>1, ReachedLimitIsSpent
  <2>3. i \in Matched(policy, toolCall(tool, args))
      BY <1>1, <1>4 DEF Matched, Targets
  <2> HIDE DEF policy, used
  <2>4. QED
      BY <2>2, <2>3, PermittedByEveryRule
<1>5. QED
    BY <1>4 DEF ReachedRefuses

\* No argument of another kind than its constraints are about satisfies a rule of
\* a document that loads.
THEOREM OtherKindsAreAlwaysRefused ==
    ASSUME NEW V, ValueSet(V), subject \in V
    PROVE  OtherKindsAreRefused
<1> SUFFICES ASSUME ValidatePolicy(subject), NEW i \in DOMAIN Written(subject),
                    NEW args \in Loaded(subject).rules[i].when,
                    NEW path \in DOMAIN Own(Member(Written(subject)[i], "when"))
             PROVE  RightKind(Own(Member(Written(subject)[i], "when"))[path], ResolvePath(args, path))
    BY DEF OtherKindsAreRefused
<1>1. Loaded(subject).rules[i] = LoadedRule(Written(subject)[i])
    BY WrittenRules
<1>2. CheckArgs(Own(Member(Written(subject)[i], "when")), args) = {}
    BY <1>1 DEF LoadedRule
<1>3. CheckOne(Own(Member(Written(subject)[i], "when"))[path], ResolvePath(args, path)) = {}
    BY <1>2 DEF CheckArgs
<1>4. QED
    BY <1>3, AcceptedIsOfRightKind

-----------------------------------------------------------------------------
(*                     Documents with a misspelt field                     *)

\* What is found in an object, and in one with another value for a field.
LEMMA MemberOfObject ==
    /\ \A f : Own(Obj(f)) = f
    /\ \A v, key : DOMAIN Own(v) # {} => Tag(v) # "undefined"
    /\ \A v, key, new : key \in DOMAIN Own(v) =>
           Own(With(v, key, new))[key] = new /\ Member(With(v, key, new), key) = new
<1>1. \A f : Own(Obj(f)) = f
  <2>1. \A f : Obj(f).object = f
      BY DEF Obj
  <2>2. QED
      BY <2>1, TagsOfValues DEF Own
<1>2. \A v, key : DOMAIN Own(v) # {} => Tag(v) # "undefined"
    BY DEF Own
<1>3. ASSUME NEW v, NEW key, NEW new, key \in DOMAIN Own(v)
      PROVE  Own(With(v, key, new))[key] = new /\ Member(With(v, key, new), key) = new
  <2> DEFINE f == [Own(v) EXCEPT ![key] = new]
  <2>1. key \in DOMAIN f /\ f[key] = new
      BY <1>3
  <2>2. Own(With(v, key, new)) = f
      BY <1>1 DEF With
  <2>3. QED
      BY <2>1, <2>2 DEF Member
<1>4. QED
    BY <1>1, <1>2, <1>3

\* The misspelt word is in the object, so no list of the fields it may have
\* that leaves out the word admits it.
LEMMA MisspeltIsNotAdmitted ==
    ASSUME NEW v, NEW key \in DOMAIN Own(v), NEW keys, Typo \notin keys
    PROVE  ~OnlyFields(Misspell(v, key), keys) /\ Misspell(v, key) # Undefined
<1>1. Typo \in DOMAIN Own(Misspell(v, key))
    BY MemberOfObject DEF Misspell
<1>2. Tag(Misspell(v, key)) = "object"
    BY TagsOfValues DEF Misspell
<1>3. QED
    BY <1>1, <1>2, TagsOfValues DEF OnlyFields

\* A misspelt word in what a field holds is there when the field is validated.
LEMMA MisspeltMemberIsNotAdmitted ==
    ASSUME NEW v, NEW field, NEW key \in DOMAIN Own(Member(v, field)), NEW keys, Typo \notin keys
    PROVE  LET found == Member(With(v, field, Misspell(Member(v, field), key)), field)
           IN  ~OnlyFields(found, keys) /\ found # Undefined
<1> DEFINE new == Misspell(Member(v, field), key)
<1>1. field \in DOMAIN Own(v)
  <2>1. DOMAIN Own(Undefined) = {}
      BY TagsOfValues DEF Own
  <2>2. QED
      BY <2>1 DEF Member
<1>2. Member(With(v, field, new), field) = new
    BY <1>1, MemberOfObject
<1>3. ~OnlyFields(new, keys) /\ new # Undefined
    BY MisspeltIsNotAdmitted
<1>4. QED
    BY <1>2, <1>3

\* No misspelt field of a document that loads is passed over, at any depth.
THEOREM MisspeltDocumentsAreRefused == TyposAreRefused
<1> SUFFICES ASSUME ValidatePolicy(subject)
             PROVE  TyposAreRefused
    BY DEF TyposAreRefused
<1> DEFINE rules == Member(subject, "rules").array
           document(i, v) == With(subject, "rules", Arr([rules EXCEPT ![i] = v]))
<1>1. /\ Typo \notin PolicyKeys /\ Typo \notin PlanKeys /\ Typo \notin RuleKeys
      /\ Typo \notin LimitKeys /\ Typo \notin ConstraintKeys /\ Typo \notin Dimensions
    BY TypoIsNoField
<1>2. "rules" \in DOMAIN Own(subject)
  <2>1. Tag(Member(subject, "rules")) = "array"
      BY DEF ValidatePolicy, IsArray
  <2>2. QED
      BY <2>1, TagsOfValues DEF Member
<1>3. ASSUME NEW i \in DOMAIN rules, NEW v, ValidatePolicy(document(i, v))
      PROVE  ValidRule(v)
  <2> DEFINE new == [rules EXCEPT ![i] = v]
  <2>1. i \in DOMAIN new /\ new[i] = v
      BY <1>3
  <2>2. Arr(new).array = new
      BY DEF Arr
  <2>3. Member(document(i, v), "rules") = Arr(new)
      BY <1>2, MemberOfObject
  <2> HIDE DEF new, document, rules
  <2>4. All(Arr(new), ValidRule)
      BY <1>3, <2>3 DEF ValidatePolicy
  <2>5. QED
      BY <2>1, <2>2, <2>4 DEF All
<1>4. \A key \in DOMAIN Own(subject) : ~ValidatePolicy(Misspell(subject, key))
    BY <1>1, MisspeltIsNotAdmitted DEF ValidatePolicy
<1>5. \A key \in DOMAIN Own(Member(subject, "budget")) :
          ~ValidatePolicy(With(subject, "budget", Misspell(Member(subject, "budget"), key)))
  <2>1. ASSUME NEW x, ValidatePolicy(x), Member(x, "budget") # Undefined
        PROVE  OnlyFields(Member(x, "budget"), Dimensions)
      BY <2>1 DEF ValidatePolicy, Optionally, ValidBudget
  <2>2. QED
      BY <1>1, <2>1, MisspeltMemberIsNotAdmitted
<1>6. \A key \in DOMAIN Own(Member(subject, "plan")) :
          ~ValidatePolicy(With(subject, "plan", Misspell(Member(subject, "plan"), key)))
  <2>1. ASSUME NEW x, ValidatePolicy(x), Member(x, "plan") # Undefined
        PROVE  OnlyFields(Member(x, "plan"), PlanKeys)
      BY <2>1 DEF ValidatePolicy, Optionally, ValidPlan
  <2>2. QED
      BY <1>1, <2>1, MisspeltMemberIsNotAdmitted
<1>7. ASSUME NEW i \in DOMAIN rules, NEW key \in DOMAIN Own(rules[i])
      PROVE  ~ValidatePolicy(document(i, Misspell(rules[i], key)))
  <2>1. ~ValidRule(Misspell(rules[i], key))
      BY <1>1, <1>7, MisspeltIsNotAdmitted DEF ValidRule
  <2>2. QED
      BY <1>3, <2>1
<1>8. ASSUME NEW i \in DOMAIN rules, NEW key \in DOMAIN Own(Member(rules[i], "limit"))
      PROVE  ~ValidatePolicy(document(i, With(rules[i], "limit", Misspell(Member(rules[i], "limit"), key))))
  <2>1. ASSUME NEW x, ValidRule(x), Member(x, "limit") # Undefined
        PROVE  OnlyFields(Member(x, "limit"), LimitKeys)
      BY <2>1 DEF ValidRule, Optionally, ValidLimit
  <2>2. QED
      BY <1>1, <1>3, <1>8, <2>1, MisspeltMemberIsNotAdmitted
<1>9. ASSUME NEW i \in DOMAIN rules, NEW path \in DOMAIN Own(Member(rules[i], "when")),
             NEW key \in DOMAIN Own(Own(Member(rules[i], "when"))[path])
      PROVE  LET when == Member(rules[i], "when")
             IN  ~ValidatePolicy(document(i, With(rules[i], "when",
                      With(when, path, Misspell(Own(when)[path], key)))))
  <2> DEFINE when == Member(rules[i], "when")
             constraint == Misspell(Own(when)[path], key)
             changed == With(when, path, constraint)
  <2>1. ~ValidConstraint(constraint)
      BY <1>1, <1>9, MisspeltIsNotAdmitted DEF ValidConstraint
  <2>2. path \in DOMAIN Own(changed) /\ Own(changed)[path] = constraint
      BY <1>9, MemberOfObject DEF With
  <2>3. "when" \in DOMAIN Own(rules[i])
    <3>1. DOMAIN Own(Undefined) = {}
        BY TagsOfValues DEF Own
    <3>2. QED
        BY <1>9, <3>1 DEF Member
  <2>4. Member(With(rules[i], "when", changed), "when") = changed
      BY <2>3, MemberOfObject
  <2>5. changed # Undefined
      BY TagsOfValues DEF With
  <2> HIDE DEF when, constraint, changed, rules
  <2>6. ~ValidRule(With(rules[i], "when", changed))
      BY <2>1, <2>2, <2>4, <2>5 DEF ValidRule, Optionally
  <2>7. QED
      BY <1>3, <2>6 DEF when, constraint, changed
<1>10. QED
    BY <1>4, <1>5, <1>6, <1>7, <1>8, <1>9 DEF TyposAreRefused

-----------------------------------------------------------------------------
(*                                  Globs                                  *)

\* The tokens of what is left of a pattern, from those further on.
TokensFrom(pattern, g, i) ==
    IF i > Len(pattern) THEN <<>>
    ELSE IF pattern[i] = "*" /\ i < Len(pattern) /\ pattern[i + 1] = "*" THEN <<"**">> \o g[i + 2]
    ELSE <<pattern[i]>> \o g[i + 1]

\* There is such a function.
LEMMA TokensExist ==
    ASSUME NEW S, NEW pattern \in Seq(S)
    PROVE  LET n == Len(pattern)
           IN  \E g : g = [i \in 1 .. n + 2 |-> TokensFrom(pattern, g, i)]
<1> DEFINE n == Len(pattern)
           from(k) == (n + 2) - k .. n + 2
           X == {k \in Nat : k <= n + 1 => \E g : g = [i \in from(k) |-> TokensFrom(pattern, g, i)]}
<1>1. n \in Nat
    OBVIOUS
<1>2. 0 \in X
  <2> DEFINE g == [i \in from(0) |-> <<>>]
  <2>1. from(0) = {n + 2}
      BY <1>1
  <2>2. \A i \in from(0) : TokensFrom(pattern, g, i) = <<>>
      BY <1>1, <2>1 DEF TokensFrom
  <2> HIDE DEF from
  <2>3. g = [i \in from(0) |-> TokensFrom(pattern, g, i)]
      BY <2>2
  <2>4. QED
      BY <2>3, Zenon
<1>3. ASSUME NEW k \in Nat, k \in X, k + 1 <= n + 1
      PROVE  \E g : g = [i \in from(k + 1) |-> TokensFrom(pattern, g, i)]
  <2>1. PICK g : g = [i \in from(k) |-> TokensFrom(pattern, g, i)]
    <3>1. k <= n + 1
        BY <1>1, <1>3
    <3> HIDE DEF from
    <3>2. QED
        BY <1>3, <3>1
  <2> DEFINE m == (n + 1) - k
             h == [i \in from(k + 1) |-> IF i = m THEN TokensFrom(pattern, g, m) ELSE g[i]]
  <2>2. /\ m \in Nat /\ m \in from(k + 1) /\ m + 1 \in from(k)
        /\ m <= n => m + 2 \in from(k)
      BY <1>1, <1>3
  <2>3. \A i \in from(k + 1) : i = m \/ i \in from(k)
      BY <1>1, <1>3
  <2>4. \A i \in from(k) : i > m /\ i \in from(k + 1) /\ i \in Nat /\ i + 1 > m /\ i + 2 > m
                             /\ (i <= n => i + 1 \in from(k) /\ i + 2 \in from(k))
      BY <1>1, <1>3
  <2>5. h[m] = TokensFrom(pattern, g, m)
      BY <2>2
  <2>6. \A i \in from(k) : h[i] = g[i]
    <3>1. \A i \in from(k) : i # m /\ i \in from(k + 1)
        BY <1>1, <1>3
    <3> HIDE DEF m, from
    <3>2. QED
        BY <3>1
  <2> HIDE DEF h, m, from
  <2>7. TokensFrom(pattern, h, m) = TokensFrom(pattern, g, m)
      BY <1>1, <2>2, <2>6 DEF TokensFrom
  <2>8. ASSUME NEW i \in from(k)
        PROVE  TokensFrom(pattern, h, i) = TokensFrom(pattern, g, i)
      BY <1>1, <2>4, <2>6 DEF TokensFrom
  <2>9. \A i \in from(k + 1) : h[i] = TokensFrom(pattern, h, i)
      BY <2>1, <2>3, <2>5, <2>6, <2>7, <2>8
  <2>10. h = [i \in from(k + 1) |-> h[i]]
      BY DEF h
  <2>11. h = [i \in from(k + 1) |-> TokensFrom(pattern, h, i)]
      BY <2>9, <2>10
  <2>12. QED
      BY <2>11
<1>4. n + 1 \in X
  <2>1. \A k \in Nat : k \in X => k + 1 \in X
      BY <1>3
  <2> HIDE DEF X
  <2>2. \A k \in Nat : k \in X
      BY <1>2, <2>1, NatsInSet
  <2>3. QED
      BY <1>1, <2>2
<1>5. from(n + 1) = 1 .. n + 2
    BY <1>1
<1> HIDE DEF from
<1>6. \E g : g = [i \in from(n + 1) |-> TokensFrom(pattern, g, i)]
    BY <1>1, <1>4
<1>7. QED
    BY <1>5, <1>6

\* The tokens of a pattern are a sequence.
LEMMA TokensType ==
    ASSUME NEW S, NEW pattern \in Seq(S)
    PROVE  Tokens(pattern) \in Seq(S \cup {"**"})
<1> DEFINE n == Len(pattern)
           T == Seq(S \cup {"**"})
           from == CHOOSE g : g = [i \in 1 .. n + 2 |-> TokensFrom(pattern, g, i)]
           X == {k \in Nat : \A i \in 1 .. n + 2 : i + k >= n + 2 => from[i] \in T}
<1>1. n \in Nat
    OBVIOUS
<1>2. from = [i \in 1 .. n + 2 |-> TokensFrom(pattern, from, i)]
    BY TokensExist, Zenon
<1>3. Tokens(pattern) = from[1]
    BY DEF Tokens, TokensFrom
<1> HIDE DEF from
<1>4. \A i \in 1 .. n + 2 : from[i] = TokensFrom(pattern, from, i)
    BY <1>2
<1>5. ASSUME NEW i \in 1 .. n + 2, \A j \in 1 .. n + 2 : j > i => from[j] \in T
      PROVE  from[i] \in T
  <2>1. CASE i > n
    <3>1. TokensFrom(pattern, from, i) = <<>>
        BY <2>1 DEF TokensFrom
    <3>2. from[i] = <<>>
        BY <1>4, <3>1, Zenon
    <3>3. <<>> \in T
        OBVIOUS
    <3>4. QED
        BY <3>2, <3>3, Zenon
  <2>2. CASE i <= n
    <3>1. from[i + 1] \in T /\ from[i + 2] \in T
        BY <1>1, <1>5, <2>2
    <3>2. pattern[i] \in S
        BY <2>2
    <3>3. <<"**">> \o from[i + 2] \in T /\ <<pattern[i]>> \o from[i + 1] \in T
        BY <3>1, <3>2
    <3>4. \/ TokensFrom(pattern, from, i) = <<"**">> \o from[i + 2]
          \/ TokensFrom(pattern, from, i) = <<pattern[i]>> \o from[i + 1]
        BY <1>1, <2>2 DEF TokensFrom
    <3>5. TokensFrom(pattern, from, i) \in T
        BY <3>3, <3>4, Zenon
    <3>6. QED
        BY <1>4, <3>5, Zenon
  <2>3. QED
      BY <1>1, <2>1, <2>2
<1>6. 0 \in X
    BY <1>1, <1>5
<1>7. ASSUME NEW k \in Nat, k \in X
      PROVE  k + 1 \in X
  <2>1. ASSUME NEW i \in 1 .. n + 2, i + (k + 1) >= n + 2
        PROVE  from[i] \in T
    <3>1. \A j \in 1 .. n + 2 : j > i => from[j] \in T
        BY <1>1, <1>7, <2>1
    <3>2. QED
        BY <1>5, <3>1
  <2>2. QED
      BY <2>1
<1>8. n + 1 \in X
  <2> HIDE DEF X
  <2>1. QED
      BY <1>1, <1>6, <1>7, NatsInSet
<1>9. QED
    BY <1>1, <1>3, <1>8

\* Whether a token takes the characters of a name from a + 1 to b.
Covers(token, name, a, b) ==
    CASE token = "**" -> TRUE
      [] token = "*"  -> \A q \in a + 1 .. b : name[q] \notin Separators
      [] OTHER        -> b = a + 1 /\ name[b] = token

\* The piece from a + 1 to b is one that the token takes.
LEMMA PieceIsCovered ==
    ASSUME NEW S, NEW name \in Seq(S), NEW token,
           NEW a \in 0 .. Len(name), NEW b \in 0 .. Len(name), a <= b
    PROVE  LET piece == SubSeq(name, a + 1, b)
           IN  (CASE token = "**" -> TRUE
                  [] token = "*"  -> Range(piece) \cap Separators = {}
                  [] OTHER        -> piece = <<token>>) <=> Covers(token, name, a, b)
<1> DEFINE piece == SubSeq(name, a + 1, b)
<1>1. /\ piece \in Seq(S) /\ Len(piece) = b - a
      /\ \A q \in 1 .. b - a : piece[q] = name[a + q]
    BY SubSeqProperties
<1>2. CASE token = "**"
    BY <1>2 DEF Covers
<1>3. CASE token = "*"
  <2>1. DOMAIN piece = 1 .. b - a
      BY <1>1
  <2>2. Range(piece) = {piece[q] : q \in 1 .. b - a}
      BY <2>1 DEF Range
  <2> HIDE DEF piece
  <2>3. ASSUME NEW q \in a + 1 .. b, Range(piece) \cap Separators = {}
        PROVE  name[q] \notin Separators
    <3>1. q - a \in 1 .. b - a /\ a + (q - a) = q
        OBVIOUS
    <3>2. piece[q - a] = name[q]
        BY <1>1, <3>1
    <3>3. QED
        BY <2>2, <2>3, <3>1, <3>2
  <2>4. ASSUME NEW q \in 1 .. b - a, \A r \in a + 1 .. b : name[r] \notin Separators
        PROVE  piece[q] \notin Separators
    <3>1. a + q \in a + 1 .. b
        OBVIOUS
    <3>2. QED
        BY <1>1, <2>4, <3>1
  <2>5. (Range(piece) \cap Separators = {}) <=> \A q \in a + 1 .. b : name[q] \notin Separators
      BY <2>2, <2>3, <2>4
  <2>6. QED
      BY <1>3, <2>5 DEF Covers, piece
<1>4. CASE token # "*" /\ token # "**"
  <2> HIDE DEF piece
  <2>1. ASSUME piece = <<token>>
        PROVE  b = a + 1 /\ name[b] = token
    <3>1. Len(piece) = 1 /\ piece[1] = token
        BY <2>1
    <3>2. b = a + 1
      <4>1. Len(piece) = b - a
          BY <1>1
      <4>2. b - a = 1
          BY <3>1, <4>1, Zenon
      <4>3. a \in Int /\ b \in Int
          OBVIOUS
      <4>4. QED
          BY <4>2, <4>3
    <3>3. QED
        BY <1>1, <3>1, <3>2
  <2>2. ASSUME b = a + 1, name[b] = token
        PROVE  piece = <<token>>
    <3>1. Len(piece) = 1 /\ piece[1] = token
        BY <1>1, <2>2
    <3>2. token \in S /\ <<token>> \in Seq(S) /\ Len(<<token>>) = 1 /\ <<token>>[1] = token
        BY <2>2
    <3>3. \A q \in 1 .. Len(piece) : piece[q] = <<token>>[q]
        BY <3>1, <3>2
    <3>4. piece \in Seq(S) /\ Len(piece) = Len(<<token>>)
        BY <1>1, <3>1, <3>2
    <3>5. QED
        BY <3>2, <3>3, <3>4, SeqEqual
  <2>3. QED
      BY <1>4, <2>1, <2>2 DEF Covers, piece
<1>5. QED
    BY <1>2, <1>3, <1>4

\* A star takes a character.
Takes(token, char) == token = "**" \/ (token = "*" /\ char \notin Separators)

\* A star takes nothing, or one character more.
LEMMA StarsCover ==
    ASSUME NEW token \in {"*", "**"}, NEW name, NEW a \in Nat
    PROVE  /\ Covers(token, name, a, a)
           /\ \A b \in Nat : a < b =>
                  (Covers(token, name, a, b)
                      <=> Takes(token, name[a + 1]) /\ Covers(token, name, a + 1, b))
<1>1. Covers(token, name, a, a)
    BY DEF Covers
<1>2. ASSUME NEW b \in Nat, a < b
      PROVE  Covers(token, name, a, b)
                 <=> Takes(token, name[a + 1]) /\ Covers(token, name, a + 1, b)
  <2>1. \A q \in a + 1 .. b : q = a + 1 \/ q \in (a + 1) + 1 .. b
      BY <1>2
  <2>2. a + 1 \in a + 1 .. b /\ (a + 1) + 1 .. b \subseteq a + 1 .. b
      BY <1>2
  <2>3. QED
      BY <2>1, <2>2 DEF Covers, Takes
<1>3. QED
    BY <1>1, <1>2

\* What is left of a name from character j can be cut into pieces for the
\* tokens that are left from i.
CutFrom(tokens, name, i, j) ==
    \E cut \in [i - 1 .. Len(tokens) -> 0 .. Len(name)] :
        /\ cut[i - 1] = j - 1 /\ cut[Len(tokens)] = Len(name)
        /\ \A p \in i .. Len(tokens) :
               cut[p - 1] <= cut[p] /\ Covers(tokens[p], name, cut[p - 1], cut[p])

\* One step of match, from further matches.
MatchFrom(tokens, name, match, i, j) ==
    IF i > Len(tokens) THEN j > Len(name)
    ELSE IF tokens[i] \in {"*", "**"}
    THEN \/ match[<<i + 1, j>>]
         \/ j <= Len(name) /\ Takes(tokens[i], name[j]) /\ match[<<i, j + 1>>]
    ELSE j <= Len(name) /\ name[j] = tokens[i] /\ match[<<i + 1, j + 1>>]

\* A cut that goes on from the next token.
LEMMA LongerCut ==
    ASSUME NEW T, NEW tokens \in Seq(T), NEW S, NEW name \in Seq(S),
           NEW i \in 1 .. Len(tokens), NEW j \in 1 .. Len(name) + 1,
           NEW k \in 1 .. Len(name) + 1, j <= k,
           Covers(tokens[i], name, j - 1, k - 1), CutFrom(tokens, name, i + 1, k)
    PROVE  CutFrom(tokens, name, i, j)
<1> DEFINE m == Len(tokens)
           l == Len(name)
<1>1. m \in Nat /\ l \in Nat
    OBVIOUS
<1>2. PICK cut \in [i .. m -> 0 .. l] :
          /\ cut[i] = k - 1 /\ cut[m] = l
          /\ \A p \in i + 1 .. m :
                 cut[p - 1] <= cut[p] /\ Covers(tokens[p], name, cut[p - 1], cut[p])
  <2>1. (i + 1) - 1 = i
      OBVIOUS
  <2>2. QED
      BY <2>1 DEF CutFrom
<1> DEFINE longer == [p \in i - 1 .. m |-> IF p = i - 1 THEN j - 1 ELSE cut[p]]
<1>3. longer \in [i - 1 .. m -> 0 .. l]
    BY <1>1
<1>4. longer[i - 1] = j - 1 /\ \A p \in i .. m : longer[p] = cut[p]
    BY <1>1
<1> HIDE DEF longer, m, l
<1>5. i \in i .. m /\ m \in i .. m
    BY <1>1 DEF m
<1>6. longer[m] = l /\ longer[i] = k - 1
    BY <1>2, <1>4, <1>5
<1>7. ASSUME NEW p \in i .. m
      PROVE  longer[p - 1] <= longer[p] /\ Covers(tokens[p], name, longer[p - 1], longer[p])
  <2>1. CASE p = i
      BY <1>4, <1>6, <2>1
  <2>2. CASE p # i
    <3>1. p \in i + 1 .. m /\ p - 1 \in i .. m
        BY <1>1, <2>2
    <3>2. longer[p - 1] = cut[p - 1] /\ longer[p] = cut[p]
        BY <1>4, <3>1
    <3>3. QED
        BY <1>2, <3>1, <3>2
  <2>3. QED
      BY <2>1, <2>2
<1>8. QED
    BY <1>3, <1>4, <1>6, <1>7 DEF CutFrom, m, l

\* The first piece of a cut, and the cut that goes on from the next token.
LEMMA ShorterCut ==
    ASSUME NEW T, NEW tokens \in Seq(T), NEW S, NEW name \in Seq(S),
           NEW i \in 1 .. Len(tokens), NEW j \in 1 .. Len(name) + 1, CutFrom(tokens, name, i, j)
    PROVE  \E k \in 1 .. Len(name) + 1 :
               /\ j <= k /\ Covers(tokens[i], name, j - 1, k - 1)
               /\ CutFrom(tokens, name, i + 1, k)
<1> DEFINE m == Len(tokens)
           l == Len(name)
<1>1. m \in Nat /\ l \in Nat
    OBVIOUS
<1>2. PICK cut \in [i - 1 .. m -> 0 .. l] :
          /\ cut[i - 1] = j - 1 /\ cut[m] = l
          /\ \A p \in i .. m :
                 cut[p - 1] <= cut[p] /\ Covers(tokens[p], name, cut[p - 1], cut[p])
    BY DEF CutFrom
<1> DEFINE shorter == [p \in i .. m |-> cut[p]]
           k == cut[i] + 1
<1>3. i \in i - 1 .. m /\ i \in i .. m /\ m \in i .. m
    BY <1>1
<1>4. cut[i] \in 0 .. l
    BY <1>2, <1>3
<1>5. k \in 1 .. l + 1 /\ j <= k /\ k - 1 = cut[i]
    BY <1>1, <1>2, <1>3, <1>4
<1>6. Covers(tokens[i], name, j - 1, k - 1)
    BY <1>2, <1>3, <1>5
<1>7. shorter \in [i .. m -> 0 .. l] /\ \A p \in i .. m : shorter[p] = cut[p]
    BY <1>1, <1>2
<1> HIDE DEF shorter, k, m, l
<1>8. shorter[i] = k - 1 /\ shorter[m] = l
    BY <1>2, <1>3, <1>5, <1>7
<1>9. ASSUME NEW p \in i + 1 .. m
      PROVE  shorter[p - 1] <= shorter[p] /\ Covers(tokens[p], name, shorter[p - 1], shorter[p])
  <2>1. p \in i .. m /\ p - 1 \in i .. m
      BY <1>1
  <2>2. shorter[p] = cut[p] /\ shorter[p - 1] = cut[p - 1]
      BY <1>7, <2>1
  <2>3. QED
      BY <1>2, <2>1, <2>2
<1>10. CutFrom(tokens, name, i + 1, k)
  <2>1. (i + 1) - 1 = i
      OBVIOUS
  <2>2. QED
      BY <1>7, <1>8, <1>9, <2>1 DEF CutFrom, m, l
<1>11. QED
    BY <1>5, <1>6, <1>10 DEF l

\* Cutting what is left goes the way of a match.
LEMMA CutStep ==
    ASSUME NEW T, NEW tokens \in Seq(T), NEW S, NEW name \in Seq(S),
           NEW i \in 1 .. Len(tokens) + 1, NEW j \in 1 .. Len(name) + 1
    PROVE  CutFrom(tokens, name, i, j) <=>
               IF i > Len(tokens) THEN j > Len(name)
               ELSE IF tokens[i] \in {"*", "**"}
               THEN \/ CutFrom(tokens, name, i + 1, j)
                    \/ /\ j <= Len(name) /\ Takes(tokens[i], name[j])
                       /\ CutFrom(tokens, name, i, j + 1)
               ELSE /\ j <= Len(name) /\ name[j] = tokens[i]
                    /\ CutFrom(tokens, name, i + 1, j + 1)
<1> DEFINE m == Len(tokens)
           l == Len(name)
           Cut(p, q) == CutFrom(tokens, name, p, q)
<1>1. m \in Nat /\ l \in Nat /\ i \in Nat /\ j \in Nat /\ j - 1 \in Nat /\ i >= 1 /\ j >= 1
    OBVIOUS
<1>2. CASE i > m
  <2>1. i = m + 1 /\ i - 1 = m /\ m \in m .. m
      BY <1>1, <1>2
  <2>2. ASSUME Cut(i, j)
        PROVE  j > l
    <3>1. j - 1 = l
        BY <2>1, <2>2 DEF CutFrom
    <3>2. QED
        BY <1>1, <3>1
  <2>3. ASSUME j > l
        PROVE  Cut(i, j)
    <3>1. j - 1 = l
        BY <1>1, <2>3
    <3> DEFINE cut == [p \in m .. m |-> l]
    <3>2. cut \in [i - 1 .. m -> 0 .. l] /\ cut[m] = l /\ cut[i - 1] = j - 1
        BY <1>1, <2>1, <3>1
    <3>3. i .. m = {}
        BY <1>1, <1>2
    <3> HIDE DEF cut
    <3>4. QED
        BY <3>2, <3>3 DEF CutFrom
  <2>4. QED
      BY <1>2, <2>2, <2>3
<1>3. CASE i <= m /\ tokens[i] \in {"*", "**"}
  <2>1. i \in 1 .. m
      BY <1>1, <1>3
  <2>2. ASSUME Cut(i, j)
        PROVE  Cut(i + 1, j) \/ (j <= l /\ Takes(tokens[i], name[j]) /\ Cut(i, j + 1))
    <3>1. PICK k \in 1 .. l + 1 :
              j <= k /\ Covers(tokens[i], name, j - 1, k - 1) /\ Cut(i + 1, k)
        BY <2>1, <2>2, ShorterCut
    <3>2. CASE k = j
        BY <3>1, <3>2
    <3>3. CASE k # j
      <4>1. /\ j - 1 < k - 1 /\ k - 1 \in Nat /\ j <= l /\ (j - 1) + 1 = j
            /\ j + 1 \in 1 .. l + 1 /\ j + 1 <= k /\ (j + 1) - 1 = j
          BY <1>1, <3>1, <3>3
      <4>2. Takes(tokens[i], name[j]) /\ Covers(tokens[i], name, j, k - 1)
        <5>1. \A b \in Nat : j - 1 < b =>
                  (Covers(tokens[i], name, j - 1, b)
                      <=> Takes(tokens[i], name[(j - 1) + 1]) /\ Covers(tokens[i], name, (j - 1) + 1, b))
            BY <1>1, <1>3, StarsCover
        <5>2. QED
            BY <3>1, <4>1, <5>1
      <4>3. Covers(tokens[i], name, (j + 1) - 1, k - 1)
          BY <4>1, <4>2
      <4>4. Cut(i, j + 1)
          BY <2>1, <3>1, <4>1, <4>3, LongerCut
      <4>5. QED
          BY <4>1, <4>2, <4>4
    <3>4. QED
        BY <3>2, <3>3
  <2>3. ASSUME Cut(i + 1, j)
        PROVE  Cut(i, j)
    <3>1. Covers(tokens[i], name, j - 1, j - 1)
        BY <1>1, <1>3, StarsCover
    <3>2. j <= j
        BY <1>1
    <3>3. QED
        BY <2>1, <2>3, <3>1, <3>2, LongerCut
  <2>4. ASSUME j <= l, Takes(tokens[i], name[j]), Cut(i, j + 1)
        PROVE  Cut(i, j)
    <3>1. j + 1 \in 1 .. l + 1 /\ (j + 1) - 1 = j
        BY <1>1, <2>4
    <3>2. PICK k \in 1 .. l + 1 :
              j + 1 <= k /\ Covers(tokens[i], name, (j + 1) - 1, k - 1) /\ Cut(i + 1, k)
        BY <2>1, <2>4, <3>1, ShorterCut
    <3>3. j - 1 < k - 1 /\ k - 1 \in Nat /\ j <= k /\ (j - 1) + 1 = j
        BY <1>1, <3>2
    <3>4. Covers(tokens[i], name, j, k - 1)
        BY <3>1, <3>2
    <3>5. Covers(tokens[i], name, j - 1, k - 1)
        BY <1>1, <1>3, <2>4, <3>3, <3>4, StarsCover
    <3>6. QED
        BY <2>1, <3>2, <3>3, <3>5, LongerCut
  <2>5. QED
      BY <1>1, <1>3, <2>2, <2>3, <2>4
<1>4. CASE i <= m /\ tokens[i] \notin {"*", "**"}
  <2>1. i \in 1 .. m
      BY <1>1, <1>4
  <2>2. \A a, b : Covers(tokens[i], name, a, b) <=> (b = a + 1 /\ name[b] = tokens[i])
      BY <1>4 DEF Covers
  <2>3. ASSUME Cut(i, j)
        PROVE  j <= l /\ name[j] = tokens[i] /\ Cut(i + 1, j + 1)
    <3>1. PICK k \in 1 .. l + 1 :
              j <= k /\ Covers(tokens[i], name, j - 1, k - 1) /\ Cut(i + 1, k)
        BY <2>1, <2>3, ShorterCut
    <3>2. k - 1 = (j - 1) + 1 /\ name[k - 1] = tokens[i]
        BY <2>2, <3>1
    <3>3. k = j + 1 /\ k - 1 = j /\ j <= l
        BY <1>1, <3>1, <3>2
    <3>4. QED
        BY <3>1, <3>2, <3>3
  <2>4. ASSUME j <= l, name[j] = tokens[i], Cut(i + 1, j + 1)
        PROVE  Cut(i, j)
    <3>1. j + 1 \in 1 .. l + 1 /\ (j + 1) - 1 = j /\ j = (j - 1) + 1 /\ j <= j + 1
        BY <1>1, <2>4
    <3>2. Covers(tokens[i], name, j - 1, (j + 1) - 1)
        BY <2>2, <2>4, <3>1
    <3>3. QED
        BY <2>1, <2>4, <3>1, <3>2, LongerCut
  <2>5. QED
      BY <1>1, <1>4, <2>3, <2>4
<1>5. QED
    BY <1>1, <1>2, <1>3, <1>4

\* What match computes is whether what is left can be cut.
LEMMA MatchIsCut ==
    ASSUME NEW T, NEW tokens \in Seq(T), NEW S, NEW name \in Seq(S)
    PROVE  LET match == CHOOSE f : f = [at \in (1 .. Len(tokens) + 1) \X (1 .. Len(name) + 1) |->
                                            MatchFrom(tokens, name, f, at[1], at[2])]
           IN  match[<<1, 1>>] = CutFrom(tokens, name, 1, 1)
<1> DEFINE m == Len(tokens)
           l == Len(name)
           A == 1 .. m + 1
           B == 1 .. l + 1
           match == CHOOSE f : f = [at \in A \X B |-> MatchFrom(tokens, name, f, at[1], at[2])]
           cuts == [at \in A \X B |-> CutFrom(tokens, name, at[1], at[2])]
           X == {d \in Nat : \A i \in A, j \in B : i + j + d >= m + l + 2 => match[<<i, j>>] = cuts[<<i, j>>]}
<1>1. m \in Nat /\ l \in Nat
    OBVIOUS
<1>2. \A i \in A, j \in B : cuts[<<i, j>>] = CutFrom(tokens, name, i, j)
  <2> HIDE DEF A, B
  <2>1. QED
      OBVIOUS
<1>3. \A i \in A, j \in B : cuts[<<i, j>>] \in BOOLEAN
  <2>1. \A i, j : CutFrom(tokens, name, i, j) \in BOOLEAN
      BY DEF CutFrom
  <2> HIDE DEF cuts, A, B
  <2>2. QED
      BY <1>2, <2>1
<1>4. ASSUME NEW i \in A, NEW j \in B
      PROVE  CutFrom(tokens, name, i, j) = MatchFrom(tokens, name, cuts, i, j)
  <2>1. /\ i <= m => i + 1 \in A
        /\ j <= l => j + 1 \in B
        /\ i \in Int /\ j \in Int
      BY <1>1
  <2>2. i \in 1 .. Len(tokens) + 1 /\ j \in 1 .. Len(name) + 1 /\ m = Len(tokens) /\ l = Len(name)
      OBVIOUS
  <2>3. ~(i <= m) => i > m
      BY <1>1, <2>1
  <2> HIDE DEF cuts, A, B, m, l
  <2>4. CASE i > m
    <3>1. CutFrom(tokens, name, i, j) <=> j > l
        BY <2>2, <2>4, CutStep
    <3>2. MatchFrom(tokens, name, cuts, i, j) = (j > l)
        BY <2>2, <2>4 DEF MatchFrom
    <3>3. CutFrom(tokens, name, i, j) \in BOOLEAN
        BY DEF CutFrom
    <3>4. QED
        BY <3>1, <3>2, <3>3
  <2>5. CASE i <= m /\ tokens[i] \in {"*", "**"}
    <3>1. ~(i > m)
        BY <1>1, <2>1, <2>5
    <3>2. CutFrom(tokens, name, i, j) <=>
              \/ CutFrom(tokens, name, i + 1, j)
              \/ j <= l /\ Takes(tokens[i], name[j]) /\ CutFrom(tokens, name, i, j + 1)
      <4>1. CutFrom(tokens, name, i, j) <=>
                IF i > m THEN j > l
                ELSE IF tokens[i] \in {"*", "**"}
                THEN \/ CutFrom(tokens, name, i + 1, j)
                     \/ /\ j <= l /\ Takes(tokens[i], name[j])
                        /\ CutFrom(tokens, name, i, j + 1)
                ELSE /\ j <= l /\ name[j] = tokens[i]
                     /\ CutFrom(tokens, name, i + 1, j + 1)
          BY <2>2, CutStep DEF m, l
      <4>2. QED
          BY <2>5, <3>1, <4>1, Zenon
    <3>3. MatchFrom(tokens, name, cuts, i, j) =
              (\/ cuts[<<i + 1, j>>]
               \/ j <= l /\ Takes(tokens[i], name[j]) /\ cuts[<<i, j + 1>>])
        BY <2>2, <2>5, <3>1 DEF MatchFrom
    <3>4. cuts[<<i + 1, j>>] = CutFrom(tokens, name, i + 1, j)
        BY <1>2, <2>1, <2>5
    <3>5. j <= l => cuts[<<i, j + 1>>] = CutFrom(tokens, name, i, j + 1)
        BY <1>2, <2>1
    <3>6. QED
        BY <3>2, <3>3, <3>4, <3>5 DEF CutFrom
  <2>6. CASE i <= m /\ tokens[i] \notin {"*", "**"}
    <3>1. ~(i > m)
        BY <1>1, <2>1, <2>6
    <3>2. CutFrom(tokens, name, i, j) <=>
              j <= l /\ name[j] = tokens[i] /\ CutFrom(tokens, name, i + 1, j + 1)
        BY <2>2, <2>6, <3>1, CutStep
    <3>3. MatchFrom(tokens, name, cuts, i, j) =
              (j <= l /\ name[j] = tokens[i] /\ cuts[<<i + 1, j + 1>>])
        BY <2>2, <2>6, <3>1 DEF MatchFrom
    <3>4. j <= l => cuts[<<i + 1, j + 1>>] = CutFrom(tokens, name, i + 1, j + 1)
        BY <1>2, <2>1, <2>6
    <3>5. QED
        BY <3>2, <3>3, <3>4 DEF CutFrom
  <2>7. QED
      BY <2>3, <2>4, <2>5, <2>6
<1>5. match = [at \in A \X B |-> MatchFrom(tokens, name, match, at[1], at[2])]
  <2>1. \A at \in A \X B : cuts[at] = MatchFrom(tokens, name, cuts, at[1], at[2])
    <3> SUFFICES ASSUME NEW at \in A \X B
                 PROVE  cuts[at] = MatchFrom(tokens, name, cuts, at[1], at[2])
        OBVIOUS
    <3> HIDE DEF A, B
    <3>1. at[1] \in A /\ at[2] \in B
        OBVIOUS
    <3>2. cuts[at] = CutFrom(tokens, name, at[1], at[2])
        OBVIOUS
    <3>3. QED
        BY <1>4, <3>1, <3>2
  <2> HIDE DEF A, B
  <2>2. cuts = [at \in A \X B |-> cuts[at]]
      OBVIOUS
  <2> HIDE DEF cuts
  <2>3. cuts = [at \in A \X B |-> MatchFrom(tokens, name, cuts, at[1], at[2])]
      BY <2>1, <2>2
  <2>4. QED
      BY <2>3, Zenon
<1> HIDE DEF cuts, match
<1>6. \A i \in A, j \in B : match[<<i, j>>] = MatchFrom(tokens, name, match, i, j)
  <2> HIDE DEF A, B
  <2>1. QED
      BY <1>5
<1>7. ASSUME NEW i \in A, NEW j \in B,
             \A p \in A, q \in B : p + q > i + j => match[<<p, q>>] = cuts[<<p, q>>]
      PROVE  match[<<i, j>>] = cuts[<<i, j>>]
  <2>1. /\ i <= m => i + 1 \in A /\ (i + 1) + j > i + j
        /\ j <= l => j + 1 \in B /\ i + (j + 1) > i + j
        /\ i <= m /\ j <= l => (i + 1) + (j + 1) > i + j
        /\ i \in Int /\ j \in Int
      BY <1>1
  <2> HIDE DEF A, B
  <2>2. /\ i <= m => match[<<i + 1, j>>] = cuts[<<i + 1, j>>]
        /\ j <= l => match[<<i, j + 1>>] = cuts[<<i, j + 1>>]
        /\ i <= m /\ j <= l => match[<<i + 1, j + 1>>] = cuts[<<i + 1, j + 1>>]
      BY <1>7, <2>1
  <2>3. MatchFrom(tokens, name, match, i, j) = MatchFrom(tokens, name, cuts, i, j)
    <3>1. CASE i > m
        BY <3>1 DEF MatchFrom, m
    <3>2. CASE i <= m /\ j <= l
        BY <2>2, <3>2 DEF MatchFrom
    <3>3. CASE i <= m /\ ~(j <= l)
        BY <2>2, <3>3 DEF MatchFrom, l
    <3>4. QED
        BY <1>1, <2>1, <3>1, <3>2, <3>3
  <2>4. QED
      BY <1>2, <1>4, <1>6, <2>3
<1>8. 0 \in X
  <2>1. ASSUME NEW i \in A, NEW j \in B, i + j + 0 >= m + l + 2
        PROVE  match[<<i, j>>] = cuts[<<i, j>>]
    <3>1. \A p \in A, q \in B : ~(p + q > i + j)
        BY <1>1, <2>1
    <3> HIDE DEF A, B
    <3>2. QED
        BY <1>7, <3>1
  <2>2. QED
      BY <2>1
<1>9. ASSUME NEW d \in Nat, d \in X
      PROVE  d + 1 \in X
  <2>1. ASSUME NEW i \in A, NEW j \in B, i + j + (d + 1) >= m + l + 2
        PROVE  match[<<i, j>>] = cuts[<<i, j>>]
    <3>1. \A p \in A, q \in B : p + q > i + j => p + q + d >= m + l + 2
        BY <1>1, <2>1
    <3>2. \A p \in A, q \in B : p + q + d >= m + l + 2 => match[<<p, q>>] = cuts[<<p, q>>]
        BY <1>9
    <3> HIDE DEF A, B
    <3>3. QED
        BY <1>7, <3>1, <3>2
  <2>2. QED
      BY <2>1
<1>10. m + l \in X
  <2> HIDE DEF X, A, B
  <2>1. QED
      BY <1>1, <1>8, <1>9, NatsInSet
<1>11. 1 \in A /\ 1 \in B /\ 1 + 1 + (m + l) >= m + l + 2
    BY <1>1
<1>12. match[<<1, 1>>] = CutFrom(tokens, name, 1, 1)
  <2> HIDE DEF A, B
  <2>1. QED
      BY <1>2, <1>10, <1>11
<1>13. QED
    BY <1>12 DEF match

\* A glob matches a name exactly when the name can be cut into one piece for
\* each of its tokens, of which only two stars in a row take a separator.
THEOREM GlobsMatchWhatTheySay ==
    ASSUME NEW S, task = "glob" => subject.pattern \in Seq(S) /\ subject.name \in Seq(S)
    PROVE  GlobsKeepSeparators
<1> SUFFICES ASSUME task = "glob"
             PROVE  GlobsKeepSeparators
    BY DEF GlobsKeepSeparators
<1> DEFINE tokens == Tokens(subject.pattern)
           name == subject.name
           fits(token, piece) ==
               CASE token = "**" -> TRUE
                 [] token = "*"  -> Range(piece) \cap Separators = {}
                 [] OTHER        -> piece = <<token>>
           cuts == {cut \in [0 .. Len(tokens) -> 0 .. Len(name)] :
                       cut[0] = 0 /\ cut[Len(tokens)] = Len(name)}
           cutUp == \E cut \in cuts : \A i \in DOMAIN tokens :
                       cut[i - 1] <= cut[i] /\ fits(tokens[i], SubSeq(name, cut[i - 1] + 1, cut[i]))
<1>1. name \in Seq(S) /\ tokens \in Seq(S \cup {"**"})
    BY TokensType
<1>2. MatchesGlob(subject.pattern, name) = CutFrom(tokens, name, 1, 1)
  <2> HIDE DEF tokens, name
  <2>1. QED
      BY <1>1, MatchIsCut DEF MatchesGlob, MatchFrom, Takes, tokens
<1> HIDE DEF tokens, name
<1>3. ASSUME NEW cut \in [0 .. Len(tokens) -> 0 .. Len(name)], NEW i \in 1 .. Len(tokens),
             cut[i - 1] <= cut[i]
      PROVE  fits(tokens[i], SubSeq(name, cut[i - 1] + 1, cut[i]))
                 <=> Covers(tokens[i], name, cut[i - 1], cut[i])
  <2>1. Len(tokens) \in Nat
      BY <1>1
  <2>2. i \in 0 .. Len(tokens) /\ i - 1 \in 0 .. Len(tokens)
      BY <2>1
  <2>3. cut[i - 1] \in 0 .. Len(name) /\ cut[i] \in 0 .. Len(name)
      BY <2>2
  <2>4. QED
      BY <1>1, <1>3, <2>3, PieceIsCovered
<1>4. DOMAIN tokens = 1 .. Len(tokens)
    BY <1>1
<1> HIDE DEF fits
<1>5. CutFrom(tokens, name, 1, 1) <=> cutUp
  <2>1. 1 - 1 = 0
      OBVIOUS
  <2>2. QED
      BY <1>3, <1>4, <2>1 DEF CutFrom
<1>6. CutFrom(tokens, name, 1, 1) = cutUp
    BY <1>5 DEF CutFrom
<1>7. QED
    BY <1>2, <1>6 DEF GlobsKeepSeparators, tokens, name, fits

-----------------------------------------------------------------------------
(*                           Regular expressions                           *)

\* How deep the groups are nested after piece k.
Depth(pieces, k) == Open(pieces, 1, k)

\* How often a piece is there from piece i to piece j.
Count(pieces, piece, i, j) == Cardinality({k \in i .. j : pieces[k] = piece})

\* One piece more is counted, or is another one.
LEMMA CountNext ==
    ASSUME NEW i \in Nat, NEW j \in Nat, i <= j + 1, NEW p, NEW piece
    PROVE  /\ Count(p, piece, i, j) \in Nat
           /\ p[j + 1] = piece => Count(p, piece, i, j + 1) = Count(p, piece, i, j) + 1
           /\ p[j + 1] # piece => Count(p, piece, i, j + 1) = Count(p, piece, i, j)
<1> DEFINE found(m) == {k \in i .. m : p[k] = piece}
<1>1. IsFiniteSet(found(j)) /\ Cardinality(found(j)) \in Nat
  <2>1. IsFiniteSet(i .. j) /\ found(j) \in SUBSET (i .. j)
      BY FS_Interval
  <2> HIDE DEF found
  <2>2. QED
      BY <2>1, FS_Subset, FS_CardinalityType
<1>2. j + 1 \notin found(j) /\ \A k : k \in i .. j + 1 <=> k \in i .. j \/ k = j + 1
    OBVIOUS
<1>3. CASE p[j + 1] = piece
  <2>1. found(j + 1) = found(j) \cup {j + 1}
      BY <1>2, <1>3
  <2> HIDE DEF found
  <2>2. Cardinality(found(j + 1)) = Cardinality(found(j)) + 1
      BY <1>1, <1>2, <2>1, FS_AddElement
  <2>3. QED
      BY <1>1, <1>3, <2>2 DEF found, Count
<1>4. CASE p[j + 1] # piece
  <2>1. found(j + 1) = found(j)
      BY <1>2, <1>4
  <2>2. QED
      BY <1>1, <1>4, <2>1 DEF Count
<1>5. QED
    BY <1>3, <1>4

\* One piece more.
LEMMA OpenNext ==
    ASSUME NEW i \in Nat, NEW j \in Nat, i <= j + 1, NEW p
    PROVE  /\ Open(p, i, j) \in Int
           /\ p[j + 1] = "(" => Open(p, i, j + 1) = Open(p, i, j) + 1
           /\ p[j + 1] = ")" => Open(p, i, j + 1) = Open(p, i, j) - 1
           /\ p[j + 1] \notin {"(", ")"} => Open(p, i, j + 1) = Open(p, i, j)
<1>1. \A m : Open(p, i, m) = Count(p, "(", i, m) - Count(p, ")", i, m)
    BY DEF Open, Count
<1>2. \A piece : /\ Count(p, piece, i, j) \in Nat
                 /\ p[j + 1] = piece => Count(p, piece, i, j + 1) = Count(p, piece, i, j) + 1
                 /\ p[j + 1] # piece => Count(p, piece, i, j + 1) = Count(p, piece, i, j)
    BY CountNext
<1>3. "(" # ")"
    OBVIOUS
<1>4. Open(p, i, j) \in Int
    BY <1>1, <1>2
<1>5. ASSUME p[j + 1] = "("
      PROVE  Open(p, i, j + 1) = Open(p, i, j) + 1
    BY <1>1, <1>2, <1>3, <1>5
<1>6. ASSUME p[j + 1] = ")"
      PROVE  Open(p, i, j + 1) = Open(p, i, j) - 1
    BY <1>1, <1>2, <1>3, <1>6
<1>7. ASSUME p[j + 1] \notin {"(", ")"}
      PROVE  Open(p, i, j + 1) = Open(p, i, j)
    BY <1>1, <1>2, <1>3, <1>7
<1>8. QED
    BY <1>4, <1>5, <1>6, <1>7

\* Nothing is open from a piece to one before it.
LEMMA OpenNothing ==
    ASSUME NEW i \in Nat, NEW j \in Int, j < i, NEW p
    PROVE  Open(p, i, j) = 0
<1>1. {k \in i .. j : p[k] = "("} = {} /\ {k \in i .. j : p[k] = ")"} = {}
    OBVIOUS
<1>2. QED
    BY <1>1, FS_EmptySet DEF Open

\* What is open from one piece to another is the difference of the depths.
LEMMA OpenIsDifference ==
    ASSUME NEW i \in Nat \ {0}, NEW j \in Nat, i <= j + 1, NEW p
    PROVE  /\ Open(p, i, j) = Depth(p, j) - Depth(p, i - 1)
           /\ Depth(p, j) \in Int /\ Depth(p, i - 1) \in Int
<1> DEFINE X == {d \in Nat : Open(p, i, (i - 1) + d) = Depth(p, (i - 1) + d) - Depth(p, i - 1)}
<1>1. i - 1 \in Nat /\ \A m \in Nat : Depth(p, m) \in Int
    BY OpenNext DEF Depth
<1>2. 0 \in X
  <2>1. (i - 1) + 0 = i - 1 /\ i - 1 \in Int /\ i - 1 < i
      OBVIOUS
  <2>2. Open(p, i, i - 1) = 0
      BY <2>1, OpenNothing
  <2>3. QED
      BY <1>1, <2>1, <2>2
<1>3. ASSUME NEW d \in Nat, d \in X
      PROVE  d + 1 \in X
  <2> DEFINE m == (i - 1) + d
      <2>1. m \in Nat /\ i <= m + 1 /\ 1 <= m + 1 /\ (i - 1) + (d + 1) = m + 1
      BY <1>1
  <2>2. /\ Open(p, i, m) \in Int /\ Depth(p, m) \in Int /\ Depth(p, i - 1) \in Int
        /\ Open(p, i, m) = Depth(p, m) - Depth(p, i - 1)
      BY <1>1, <1>3, <2>1
  <2>3. /\ p[m + 1] = "(" => Open(p, i, m + 1) = Open(p, i, m) + 1
        /\ p[m + 1] = ")" => Open(p, i, m + 1) = Open(p, i, m) - 1
        /\ p[m + 1] \notin {"(", ")"} => Open(p, i, m + 1) = Open(p, i, m)
      BY <2>1, OpenNext
  <2>4. /\ p[m + 1] = "(" => Depth(p, m + 1) = Depth(p, m) + 1
        /\ p[m + 1] = ")" => Depth(p, m + 1) = Depth(p, m) - 1
        /\ p[m + 1] \notin {"(", ")"} => Depth(p, m + 1) = Depth(p, m)
      BY <2>1, OpenNext DEF Depth
  <2> HIDE DEF m
  <2>5. Open(p, i, m + 1) = Depth(p, m + 1) - Depth(p, i - 1)
      BY <2>2, <2>3, <2>4
  <2>6. QED
      BY <2>1, <2>5
<1>4. (j + 1) - i \in Nat /\ (i - 1) + ((j + 1) - i) = j
    OBVIOUS
<1>5. (j + 1) - i \in X
  <2> HIDE DEF X
  <2>1. QED
      BY <1>2, <1>3, <1>4, NatsInSet
<1>6. QED
    BY <1>1, <1>4, <1>5

\* What the scan knows between two pieces, in a class, and after a backslash.
Outside(groups, nested) ==
    [groups |-> groups, inClass |-> FALSE, escaped |-> FALSE, nested |-> nested]
InClass(groups, nested) ==
    [groups |-> groups, inClass |-> TRUE, escaped |-> FALSE, nested |-> nested]
Escaped(state) == [state EXCEPT !.escaped = TRUE]

\* A group is opened; a group closes before a quantifier.
Opened(groups) == Append(groups, FALSE)
Found(groups, nested) == nested \/ Last(groups)

\* What one token changes, in each of the places it can be in.
LEMMA ScanToken ==
    ASSUME NEW g, NEW n \in BOOLEAN, NEW p, NEW i
    PROVE  /\ Scan(Escaped(Outside(g, n)), p, i) = Outside(g, n)
           /\ Scan(Escaped(InClass(g, n)), p, i) = InClass(g, n)
           /\ p[i] = "\\" => Scan(Outside(g, n), p, i) = Escaped(Outside(g, n))
           /\ p[i] = "\\" => Scan(InClass(g, n), p, i) = Escaped(InClass(g, n))
           /\ p[i] = "]" => Scan(InClass(g, n), p, i) = Outside(g, n)
           /\ p[i] \notin {"]", "\\"} => Scan(InClass(g, n), p, i) = InClass(g, n)
           /\ p[i] = "[" => Scan(Outside(g, n), p, i) = InClass(g, n)
           /\ p[i] = "(" => Scan(Outside(g, n), p, i) = Outside(Opened(g), n)
           /\ p[i] = ")" /\ g # <<>> /\ QuantifierAt(p, i + 1) =>
                  Scan(Outside(g, n), p, i) = Outside(Mark(Front(g)), Found(g, n))
           /\ p[i] = ")" /\ g # <<>> /\ ~QuantifierAt(p, i + 1) =>
                  Scan(Outside(g, n), p, i) = Outside(Front(g), n)
           /\ p[i] = "+" /\ QuantifierAt(p, i) =>
                  Scan(Outside(g, n), p, i) = Outside(Mark(g), n)
           /\ p[i] = "a" /\ ~QuantifierAt(p, i) => Scan(Outside(g, n), p, i) = Outside(g, n)
<1>1. Scan(Escaped(Outside(g, n)), p, i) = Outside(g, n)
    BY DEF Scan, Outside, Escaped
<1>2. Scan(Escaped(InClass(g, n)), p, i) = InClass(g, n)
    BY DEF Scan, InClass, Escaped
<1>3. p[i] = "\\" => Scan(Outside(g, n), p, i) = Escaped(Outside(g, n))
    BY DEF Scan, Outside, Escaped
<1>4. p[i] = "\\" => Scan(InClass(g, n), p, i) = Escaped(InClass(g, n))
    BY DEF Scan, InClass, Escaped
<1>5. p[i] = "]" => Scan(InClass(g, n), p, i) = Outside(g, n)
    BY DEF Scan, InClass, Outside
<1>6. p[i] \notin {"]", "\\"} => Scan(InClass(g, n), p, i) = InClass(g, n)
    BY DEF Scan, InClass
<1>7. p[i] = "[" => Scan(Outside(g, n), p, i) = InClass(g, n)
    BY DEF Scan, InClass, Outside
<1>8. p[i] = "(" => Scan(Outside(g, n), p, i) = Outside(Opened(g), n)
    BY DEF Scan, Outside, Opened
<1>9. p[i] = ")" /\ g # <<>> /\ QuantifierAt(p, i + 1) =>
          Scan(Outside(g, n), p, i) = Outside(Mark(Front(g)), Found(g, n))
    BY DEF Scan, Outside, Found
<1>10. p[i] = ")" /\ g # <<>> /\ ~QuantifierAt(p, i + 1) =>
           Scan(Outside(g, n), p, i) = Outside(Front(g), n)
    BY DEF Scan, Outside
<1>11. p[i] = "+" /\ QuantifierAt(p, i) => Scan(Outside(g, n), p, i) = Outside(Mark(g), n)
    BY DEF Scan, Outside
<1>12. p[i] = "a" /\ ~QuantifierAt(p, i) => Scan(Outside(g, n), p, i) = Outside(g, n)
    BY DEF Scan, Outside
<1>13. QED
    BY <1>1, <1>2, <1>3, <1>4, <1>5, <1>6, <1>7, <1>8, <1>9, <1>10, <1>11, <1>12, Zenon

\* What the tokens are of the expressions that are looked at.
Symbols == {"[", "\\", "]", "(", ")", "+", "a"}

\* There is such a function.
LEMMA ExpandExists ==
    ASSUME NEW p, NEW n \in Nat
    PROVE  \E g : g = [k \in 0 .. n |-> IF k = 0 THEN <<>> ELSE g[k - 1] \o TokensOf(p[k])]
<1> DEFINE X == {m \in Nat : \E g : g = [k \in 0 .. m |-> IF k = 0 THEN <<>> ELSE g[k - 1] \o TokensOf(p[k])]}
<1>1. 0 \in X
  <2> DEFINE g == [k \in 0 .. 0 |-> <<>>]
  <2>1. g = [k \in 0 .. 0 |-> IF k = 0 THEN <<>> ELSE g[k - 1] \o TokensOf(p[k])]
      OBVIOUS
  <2>2. QED
      BY <2>1, Zenon
<1>2. ASSUME NEW m \in Nat, m \in X
      PROVE  m + 1 \in X
  <2>1. PICK g : g = [k \in 0 .. m |-> IF k = 0 THEN <<>> ELSE g[k - 1] \o TokensOf(p[k])]
      BY <1>2
  <2> DEFINE last == g[m] \o TokensOf(p[m + 1])
             h == [k \in 0 .. m + 1 |-> IF k = m + 1 THEN last ELSE g[k]]
  <2>2. \A k \in 0 .. m : g[k] = IF k = 0 THEN <<>> ELSE g[k - 1] \o TokensOf(p[k])
      BY <2>1
  <2> HIDE DEF last
  <2>3. h[m + 1] = last /\ \A k \in 0 .. m : h[k] = g[k]
      OBVIOUS
  <2>4. \A k \in 0 .. m + 1 : k = 0 \/ k - 1 \in 0 .. m
      OBVIOUS
  <2>5. \A k \in 0 .. m + 1 : k = m + 1 \/ k \in 0 .. m
      OBVIOUS
  <2>6. h = [k \in 0 .. m + 1 |-> h[k]]
      OBVIOUS
  <2>7. m + 1 # 0 /\ (m + 1) - 1 = m /\ m \in 0 .. m
      OBVIOUS
  <2> HIDE DEF h
  <2>8. last = h[(m + 1) - 1] \o TokensOf(p[m + 1])
    <3>1. h[m] = g[m]
        BY <2>3, <2>7
    <3>2. QED
        BY <2>7, <3>1 DEF last
  <2>9. ASSUME NEW k \in 0 .. m + 1
        PROVE  h[k] = IF k = 0 THEN <<>> ELSE h[k - 1] \o TokensOf(p[k])
    <3>1. CASE k = m + 1
      <4>1. h[k] = h[k - 1] \o TokensOf(p[k])
          BY <2>3, <2>8, <3>1, Zenon
      <4>2. QED
          BY <2>7, <3>1, <4>1, Zenon
    <3>2. CASE k \in 0 .. m /\ k # 0
      <4>1. h[k] = g[k] /\ h[k - 1] = g[k - 1]
          BY <2>3, <2>4, <3>2, Zenon
      <4>2. QED
          BY <2>2, <3>2, <4>1, Zenon
    <3>3. CASE k = 0 /\ k \in 0 .. m
      BY <2>2, <2>3, <3>3, Zenon
    <3>4. QED
        BY <2>5, <3>1, <3>2, <3>3, Zenon
  <2>10. h = [k \in 0 .. m + 1 |-> IF k = 0 THEN <<>> ELSE h[k - 1] \o TokensOf(p[k])]
    <3> DEFINE e(k) == IF k = 0 THEN <<>> ELSE h[k - 1] \o TokensOf(p[k])
    <3>1. \A k \in 0 .. m + 1 : h[k] = e(k)
        BY <2>9
    <3> HIDE DEF e
    <3>2. h = [k \in 0 .. m + 1 |-> e(k)]
        BY <2>6, <3>1
    <3>3. QED
        BY <3>2 DEF e
  <2>11. m + 1 \in Nat
      OBVIOUS
  <2>12. QED
      BY <2>10, <2>11, Zenon
<1>3. QED
  <2> HIDE DEF X
  <2>1. n \in X
      BY <1>1, <1>2, NatsInSet
  <2>2. QED
      BY <2>1 DEF X

\* A piece has tokens, and only a plus begins with a quantifier.
LEMMA PieceTokens ==
    ASSUME NEW piece \in Pieces
    PROVE  /\ TokensOf(piece) \in Seq(Symbols)
           /\ Len(TokensOf(piece)) \in Nat \ {0}
           /\ TokensOf(piece)[1] \in Quantifiers <=> piece = "+"
<1>1. \/ piece = Class /\ TokensOf(piece) = <<"[", "\\", "]", "(", "+", "]">>
      \/ piece = Escape /\ TokensOf(piece) = <<"\\", "(">>
      \/ piece \in {"(", ")", "+", "a"} /\ TokensOf(piece) = <<piece>>
    BY DEF Pieces, TokensOf, Class, Escape
<1>2. CASE piece = Class /\ TokensOf(piece) = <<"[", "\\", "]", "(", "+", "]">>
  <2> DEFINE tokens == <<"[", "\\", "]", "(", "+", "]">>
  <2>1. tokens \in Seq(Symbols)
      BY DEF Symbols
  <2>2. Len(tokens) = 6 /\ tokens[1] = "["
      OBVIOUS
  <2>3. piece # "+" /\ "[" \notin Quantifiers
      BY <1>2 DEF Class, Quantifiers
  <2> HIDE DEF tokens
  <2>4. TokensOf(piece) = tokens
      BY <1>2 DEF tokens
  <2>5. QED
      BY <2>1, <2>2, <2>3, <2>4
<1>3. CASE piece = Escape /\ TokensOf(piece) = <<"\\", "(">>
  <2> DEFINE tokens == <<"\\", "(">>
  <2>1. tokens \in Seq(Symbols)
      BY DEF Symbols
  <2>2. Len(tokens) = 2 /\ tokens[1] = "\\"
      OBVIOUS
  <2>3. piece # "+" /\ "\\" \notin Quantifiers
      BY <1>3 DEF Escape, Quantifiers
  <2> HIDE DEF tokens
  <2>4. TokensOf(piece) = tokens
      BY <1>3 DEF tokens
  <2>5. QED
      BY <2>1, <2>2, <2>3, <2>4
<1>4. CASE piece \in {"(", ")", "+", "a"} /\ TokensOf(piece) = <<piece>>
  <2> DEFINE tokens == <<piece>>
  <2>1. tokens \in Seq(Symbols)
      BY <1>4 DEF Symbols
  <2>2. Len(tokens) = 1 /\ tokens[1] = piece
      OBVIOUS
  <2>3. piece \in Quantifiers <=> piece = "+"
      BY <1>4 DEF Quantifiers
  <2> HIDE DEF tokens
  <2>4. TokensOf(piece) = tokens
      BY <1>4 DEF tokens
  <2>5. QED
      BY <2>1, <2>2, <2>3, <2>4
<1>5. QED
    BY <1>1, <1>2, <1>3, <1>4

\* Where the tokens of each piece are.
LEMMA ExpandPieces ==
    ASSUME NEW p \in Seq(Pieces)
    PROVE  /\ Expand(p) \in Seq(Symbols)
           /\ \E end : /\ end[0] = 0 /\ end[Len(p)] = Len(Expand(p))
                       /\ \A k \in 0 .. Len(p) : end[k] \in 0 .. Len(Expand(p))
                       /\ \A k \in 1 .. Len(p) :
                              /\ end[k] = end[k - 1] + Len(TokensOf(p[k]))
                              /\ \A q \in 1 .. Len(TokensOf(p[k])) :
                                     Expand(p)[end[k - 1] + q] = TokensOf(p[k])[q]
<1> DEFINE n == Len(p)
           first == CHOOSE g : g = [k \in 0 .. n |-> IF k = 0 THEN <<>> ELSE g[k - 1] \o TokensOf(p[k])]
           end == [k \in 0 .. n |-> Len(first[k])]
<1>1. n \in Nat /\ \A k \in 1 .. n : p[k] \in Pieces /\ k \in 0 .. n /\ k - 1 \in 0 .. n
    OBVIOUS
<1>2. first = [k \in 0 .. n |-> IF k = 0 THEN <<>> ELSE first[k - 1] \o TokensOf(p[k])]
  <2> HIDE DEF n
  <2>1. \E g : g = [k \in 0 .. n |-> IF k = 0 THEN <<>> ELSE g[k - 1] \o TokensOf(p[k])]
      BY <1>1, ExpandExists
  <2>2. QED
      BY <2>1, Zenon
<1>3. Expand(p) = first[n]
    BY DEF Expand
<1> HIDE DEF first, n
<1>4. \A k \in 0 .. n : first[k] = IF k = 0 THEN <<>> ELSE first[k - 1] \o TokensOf(p[k])
    BY <1>2
<1>5. first[0] = <<>>
  <2>1. 0 \in 0 .. n
      BY <1>1
  <2>2. QED
      BY <1>4, <2>1, Zenon
<1>6. \A k \in 1 .. n : first[k] = first[k - 1] \o TokensOf(p[k])
  <2>1. \A k \in 1 .. n : k # 0
      OBVIOUS
  <2>2. QED
      BY <1>1, <1>4, <2>1, Zenon
<1>7. \A k \in 1 .. n : /\ TokensOf(p[k]) \in Seq(Symbols) /\ Len(TokensOf(p[k])) \in Nat \ {0}
    BY <1>1, PieceTokens
<1>8. \A k \in 0 .. n : first[k] \in Seq(Symbols)
  <2> DEFINE X == {k \in Nat : k <= n => first[k] \in Seq(Symbols)}
  <2>1. 0 \in X
    <3>1. <<>> \in Seq(Symbols)
        OBVIOUS
    <3>2. QED
        BY <1>5, <3>1
  <2>2. ASSUME NEW k \in Nat, k \in X
        PROVE  k + 1 \in X
    <3>1. CASE k + 1 <= n
      <4>1. k + 1 \in 1 .. n /\ (k + 1) - 1 = k /\ first[k] \in Seq(Symbols)
          BY <1>1, <2>2, <3>1
      <4>2. first[k + 1] = first[k] \o TokensOf(p[k + 1]) /\ TokensOf(p[k + 1]) \in Seq(Symbols)
          BY <1>6, <1>7, <4>1
      <4>3. first[k] \o TokensOf(p[k + 1]) \in Seq(Symbols)
          BY <4>1, <4>2, ConcatProperties
      <4>4. first[k + 1] \in Seq(Symbols)
          BY <4>2, <4>3, Zenon
      <4>5. QED
          BY <4>4
    <3>2. QED
        BY <3>1
  <2> HIDE DEF X
  <2>3. \A k \in Nat : k \in X
      BY <2>1, <2>2, NatsInSet
  <2>4. QED
      BY <1>1, <2>3 DEF X
\* What follows leaves the tokens of the pieces before as they are.
<1>9. ASSUME NEW k \in 0 .. n
      PROVE  /\ Len(first[k]) <= Len(first[n])
             /\ \A i \in 1 .. Len(first[k]) : first[n][i] = first[k][i]
  <2> DEFINE X == {m \in Nat : k + m <= n =>
                        /\ Len(first[k]) <= Len(first[k + m])
                        /\ \A i \in 1 .. Len(first[k]) : first[k + m][i] = first[k][i]}
  <2>1. 0 \in X
    <3>1. k + 0 = k /\ Len(first[k]) \in Nat
        BY <1>1, <1>8
    <3>2. QED
        BY <3>1
  <2>2. ASSUME NEW m \in Nat, m \in X
        PROVE  m + 1 \in X
    <3>1. CASE k + (m + 1) <= n
      <4> DEFINE j == k + m
      <4>1. j + 1 \in 1 .. n /\ (j + 1) - 1 = j /\ j \in 0 .. n /\ k + (m + 1) = j + 1
          BY <1>1, <3>1
      <4>2. /\ Len(first[k]) <= Len(first[j])
            /\ \A i \in 1 .. Len(first[k]) : first[j][i] = first[k][i]
          BY <1>1, <2>2, <3>1
      <4> HIDE DEF j
      <4>3. /\ first[j + 1] = first[j] \o TokensOf(p[j + 1])
            /\ TokensOf(p[j + 1]) \in Seq(Symbols) /\ first[j] \in Seq(Symbols) /\ first[k] \in Seq(Symbols)
          BY <1>6, <1>7, <1>8, <4>1
      <4>4. /\ Len(first[j]) <= Len(first[j + 1])
            /\ \A i \in 1 .. Len(first[j]) : first[j + 1][i] = first[j][i]
        <5> DEFINE a == first[j]
                   b == TokensOf(p[j + 1])
        <5>1. a \in Seq(Symbols) /\ b \in Seq(Symbols) /\ first[j + 1] = a \o b
            BY <4>3
        <5> HIDE DEF a, b
        <5>2. /\ Len(a \o b) = Len(a) + Len(b)
              /\ \A i \in 1 .. Len(a) + Len(b) : (a \o b)[i] = IF i <= Len(a) THEN a[i] ELSE b[i - Len(a)]
            BY <5>1, ConcatProperties
        <5>3. Len(a) <= Len(a \o b) /\ \A i \in 1 .. Len(a) : (a \o b)[i] = a[i]
            BY <5>1, <5>2
        <5>4. QED
            BY <5>1, <5>3 DEF a
      <4>5. /\ Len(first[k]) <= Len(first[j + 1])
            /\ \A i \in 1 .. Len(first[k]) : first[j + 1][i] = first[k][i]
        <5>1. Len(first[k]) \in Nat /\ Len(first[j]) \in Nat /\ Len(first[j + 1]) \in Nat
          <6>1. j + 1 \in 0 .. n
              BY <1>1, <4>1
          <6>2. \A x \in Seq(Symbols) : Len(x) \in Nat
              OBVIOUS
          <6>3. QED
              BY <1>8, <4>3, <6>1, <6>2, Zenon
        <5>2. \A i \in 1 .. Len(first[k]) : i \in 1 .. Len(first[j])
            BY <4>2, <5>1
        <5>3. Len(first[k]) <= Len(first[j + 1])
            BY <4>2, <4>4, <5>1
        <5>4. QED
            BY <4>2, <4>4, <5>2, <5>3, Zenon
      <4>6. QED
          BY <4>1, <4>5
    <3>2. QED
        BY <3>1
  <2>3. n - k \in Nat /\ k + (n - k) = n /\ n <= n
      BY <1>1
  <2>4. n - k \in X
    <3> HIDE DEF X
    <3>1. QED
        BY <2>1, <2>2, <2>3, NatsInSet
  <2>5. QED
      BY <2>3, <2>4
<1>10. end[0] = 0 /\ end[n] = Len(Expand(p))
    BY <1>1, <1>3, <1>5
<1>11. \A k \in 0 .. n : end[k] \in 0 .. Len(Expand(p))
  <2>1. \A k \in 0 .. n : Len(first[k]) \in Nat
      BY <1>8
  <2>2. QED
      BY <1>1, <1>3, <1>9, <2>1
<1>12. ASSUME NEW k \in 1 .. n
       PROVE  /\ end[k] = end[k - 1] + Len(TokensOf(p[k]))
              /\ \A q \in 1 .. Len(TokensOf(p[k])) : Expand(p)[end[k - 1] + q] = TokensOf(p[k])[q]
  <2> DEFINE a == first[k - 1]
             b == TokensOf(p[k])
  <2>1. /\ k \in 0 .. n /\ k - 1 \in 0 .. n /\ end[k] = Len(first[k]) /\ end[k - 1] = Len(a)
        /\ first[k] = a \o b
      BY <1>1, <1>6
  <2>2. a \in Seq(Symbols) /\ b \in Seq(Symbols) /\ first[k] \in Seq(Symbols)
      BY <1>7, <1>8, <2>1
  <2>3. /\ Len(first[k]) = Len(a) + Len(b)
        /\ \A q \in 1 .. Len(b) : first[k][Len(a) + q] = b[q] /\ Len(a) + q \in 1 .. Len(first[k])
    <3> HIDE DEF a, b
    <3>1. QED
        BY <2>1, <2>2
  <2>4. \A i \in 1 .. Len(first[k]) : Expand(p)[i] = first[k][i]
      BY <1>3, <1>9, <2>1
  <2> HIDE DEF end, a
  <2>5. end[k] = end[k - 1] + Len(b)
      BY <2>1, <2>3, Zenon
  <2>6. \A q \in 1 .. Len(b) : Expand(p)[end[k - 1] + q] = b[q]
      BY <2>1, <2>3, <2>4, Zenon
  <2>7. QED
      BY <2>5, <2>6
<1>13. Expand(p) \in Seq(Symbols)
    BY <1>1, <1>3, <1>8
<1> HIDE DEF end
<1>14. QED
    BY <1>10, <1>11, <1>12, <1>13 DEF n

\* What the scan knows after token i, from what it knew after those before.
ScannedFrom(pattern, g, i) ==
    IF i = 0 THEN Outside(<<>>, FALSE) ELSE Scan(g[i - 1], pattern, i)

\* There is such a function.
LEMMA ScanExists ==
    ASSUME NEW pattern, NEW n \in Nat
    PROVE  \E g : g = [i \in 0 .. n |-> ScannedFrom(pattern, g, i)]
<1> DEFINE X == {m \in Nat : \E g : g = [i \in 0 .. m |-> ScannedFrom(pattern, g, i)]}
<1>1. 0 \in X
  <2> DEFINE g == [i \in 0 .. 0 |-> Outside(<<>>, FALSE)]
  <2>1. g = [i \in 0 .. 0 |-> ScannedFrom(pattern, g, i)]
      BY DEF ScannedFrom
  <2>2. QED
      BY <2>1, Zenon
<1>2. ASSUME NEW m \in Nat, m \in X
      PROVE  m + 1 \in X
  <2>1. PICK g : g = [i \in 0 .. m |-> ScannedFrom(pattern, g, i)]
      BY <1>2
  <2> DEFINE last == Scan(g[m], pattern, m + 1)
             h == [i \in 0 .. m + 1 |-> IF i = m + 1 THEN last ELSE g[i]]
  <2>2. \A i \in 0 .. m : g[i] = ScannedFrom(pattern, g, i)
      BY <2>1
  <2> HIDE DEF last
  <2>3. h[m + 1] = last /\ \A i \in 0 .. m : h[i] = g[i]
      OBVIOUS
  <2>4. \A i \in 0 .. m + 1 : i = 0 \/ i - 1 \in 0 .. m
      OBVIOUS
  <2>5. \A i \in 0 .. m + 1 : i = m + 1 \/ i \in 0 .. m
      OBVIOUS
  <2>6. h = [i \in 0 .. m + 1 |-> h[i]]
      OBVIOUS
  <2>7. m + 1 # 0 /\ (m + 1) - 1 = m /\ m \in 0 .. m /\ m + 1 \in Nat
      OBVIOUS
  <2> HIDE DEF h
  <2>8. last = Scan(h[(m + 1) - 1], pattern, m + 1)
    <3>1. h[m] = g[m]
        BY <2>3, <2>7
    <3>2. QED
        BY <2>7, <3>1 DEF last
  <2>9. ASSUME NEW i \in 0 .. m + 1
        PROVE  h[i] = ScannedFrom(pattern, h, i)
    <3>1. CASE i = m + 1
      <4>1. h[i] = Scan(h[i - 1], pattern, i)
          BY <2>3, <2>8, <3>1, Zenon
      <4>2. QED
          BY <2>7, <3>1, <4>1, Zenon DEF ScannedFrom
    <3>2. CASE i \in 0 .. m /\ i # 0
      <4>1. h[i] = g[i] /\ h[i - 1] = g[i - 1]
          BY <2>3, <2>4, <3>2, Zenon
      <4>2. QED
          BY <2>2, <3>2, <4>1, Zenon DEF ScannedFrom
    <3>3. CASE i = 0 /\ i \in 0 .. m
      BY <2>2, <2>3, <3>3, Zenon DEF ScannedFrom
    <3>4. QED
        BY <2>5, <3>1, <3>2, <3>3, Zenon
  <2>10. h = [i \in 0 .. m + 1 |-> ScannedFrom(pattern, h, i)]
    <3> DEFINE e(i) == ScannedFrom(pattern, h, i)
    <3>1. \A i \in 0 .. m + 1 : h[i] = e(i)
        BY <2>9
    <3> HIDE DEF e
    <3>2. h = [i \in 0 .. m + 1 |-> e(i)]
        BY <2>6, <3>1
    <3>3. QED
        BY <3>2 DEF e
  <2>11. QED
      BY <2>7, <2>10, Zenon
<1>3. QED
  <2> HIDE DEF X
  <2>1. n \in X
      BY <1>1, <1>2, NatsInSet
  <2>2. QED
      BY <2>1 DEF X

\* What the scan knows after each token.
Scans(pattern, after) ==
    /\ after[0] = Outside(<<>>, FALSE)
    /\ \A i \in 1 .. Len(pattern) : after[i] = Scan(after[i - 1], pattern, i)

\* The answer is what is known after the last token.
LEMMA NestedQuantifierScans ==
    ASSUME NEW pattern, Len(pattern) \in Nat
    PROVE  \E after : Scans(pattern, after) /\ NestedQuantifier(pattern) = after[Len(pattern)].nested
<1> DEFINE n == Len(pattern)
           after == CHOOSE g : g = [i \in 0 .. n |-> ScannedFrom(pattern, g, i)]
<1>1. after = [i \in 0 .. n |-> ScannedFrom(pattern, after, i)]
  <2>1. \E g : g = [i \in 0 .. Len(pattern) |-> ScannedFrom(pattern, g, i)]
      BY ScanExists, Zenon
  <2>2. QED
      BY <2>1, Zenon
<1>2. NestedQuantifier(pattern) = after[n].nested
    BY DEF NestedQuantifier, ScannedFrom, Outside
<1> HIDE DEF after
<1>3. \A i \in 0 .. n : after[i] = ScannedFrom(pattern, after, i)
    BY <1>1
<1>4. 0 \in 0 .. n /\ \A i \in 1 .. n : i \in 0 .. n /\ i # 0
    OBVIOUS
<1> HIDE DEF n
<1>5. after[0] = Outside(<<>>, FALSE) /\ \A i \in 1 .. n : after[i] = Scan(after[i - 1], pattern, i)
    BY <1>3, <1>4, Zenon DEF ScannedFrom
<1>6. Scans(pattern, after)
    BY <1>5 DEF Scans, n
<1>7. QED
    BY <1>2, <1>6 DEF n

\* Where the tokens of each piece end.
Ends(p, end) ==
    /\ end[0] = 0 /\ end[Len(p)] = Len(Expand(p))
    /\ \A k \in 0 .. Len(p) : end[k] \in 0 .. Len(Expand(p))
    /\ \A k \in 1 .. Len(p) :
           /\ end[k] = end[k - 1] + Len(TokensOf(p[k]))
           /\ \A q \in 1 .. Len(TokensOf(p[k])) : Expand(p)[end[k - 1] + q] = TokensOf(p[k])[q]

\* Piece k is followed by a quantifier.
Quantified(p, k) == k + 1 <= Len(p) /\ p[k + 1] = "+"

\* A quantifier follows a piece exactly when the next one is a plus.
LEMMA QuantifierFollows ==
    ASSUME NEW p \in Seq(Pieces), NEW end, Ends(p, end), NEW k \in 0 .. Len(p)
    PROVE  QuantifierAt(Expand(p), end[k] + 1) <=> Quantified(p, k)
<1> DEFINE e == Expand(p)
<1>1. /\ end[k] \in 0 .. Len(e) /\ end[Len(p)] = Len(e) /\ Len(p) \in Nat
      /\ e \in Seq(Symbols)
    BY ExpandPieces DEF Ends
<1>2. CASE k + 1 <= Len(p)
  <2>1. k + 1 \in 1 .. Len(p) /\ (k + 1) - 1 = k /\ p[k + 1] \in Pieces
      BY <1>1, <1>2
  <2>2. /\ end[k + 1] = end[k] + Len(TokensOf(p[k + 1])) /\ end[k + 1] \in 0 .. Len(e)
        /\ \A q \in 1 .. Len(TokensOf(p[k + 1])) : e[end[k] + q] = TokensOf(p[k + 1])[q]
    <3>1. k + 1 \in 0 .. Len(p)
        BY <1>1, <2>1
    <3>2. QED
        BY <2>1, <3>1 DEF Ends
  <2>3. /\ Len(TokensOf(p[k + 1])) \in Nat \ {0}
        /\ TokensOf(p[k + 1])[1] \in Quantifiers <=> p[k + 1] = "+"
      BY <2>1, PieceTokens
  <2> HIDE DEF e
  <2>4. e[end[k] + 1] = TokensOf(p[k + 1])[1] /\ end[k] + 1 \in DOMAIN e
      BY <1>1, <2>2, <2>3
  <2>5. QED
      BY <1>2, <2>3, <2>4, Zenon DEF QuantifierAt, Quantified, e
<1>3. CASE ~(k + 1 <= Len(p))
  <2>1. k = Len(p)
      BY <1>1, <1>3
  <2>2. end[k] + 1 \notin DOMAIN e
    <3> HIDE DEF e
    <3>1. QED
        BY <1>1, <2>1
  <2>3. QED
      BY <1>3, <2>2 DEF QuantifierAt, Quantified
<1>4. QED
    BY <1>2, <1>3

\* The tokens of a piece, scanned from the end of the one before.
LEMMA PieceScan ==
    ASSUME NEW p \in Seq(Pieces), NEW end, Ends(p, end), NEW after, Scans(Expand(p), after),
           NEW k \in 1 .. Len(p), NEW g, NEW n \in BOOLEAN, after[end[k - 1]] = Outside(g, n)
    PROVE  /\ p[k] = "(" => after[end[k]] = Outside(Opened(g), n)
           /\ p[k] = ")" /\ g # <<>> /\ Quantified(p, k) =>
                  after[end[k]] = Outside(Mark(Front(g)), Found(g, n))
           /\ p[k] = ")" /\ g # <<>> /\ ~Quantified(p, k) => after[end[k]] = Outside(Front(g), n)
           /\ p[k] = "+" => after[end[k]] = Outside(Mark(g), n)
           /\ p[k] \in {"a", Class, Escape} => after[end[k]] = Outside(g, n)
<1> DEFINE e == Expand(p)
           b == end[k - 1]
<1>1. e \in Seq(Symbols) /\ Len(e) \in Nat /\ Len(p) \in Nat /\ k - 1 \in 0 .. Len(p) /\ k \in 0 .. Len(p)
  <2>1. e \in Seq(Symbols)
      BY ExpandPieces
  <2> HIDE DEF e
  <2>2. QED
      BY <2>1
<1>2. /\ b \in 0 .. Len(e) /\ end[k] \in 0 .. Len(e) /\ end[k] = b + Len(TokensOf(p[k]))
      /\ \A q \in 1 .. Len(TokensOf(p[k])) : e[b + q] = TokensOf(p[k])[q]
    BY <1>1 DEF Ends
<1>3. p[k] \in Pieces /\ Len(TokensOf(p[k])) \in Nat \ {0}
    BY PieceTokens
<1>4. ASSUME NEW q \in 1 .. Len(TokensOf(p[k]))
      PROVE  after[b + q] = Scan(after[b + (q - 1)], e, b + q)
  <2> HIDE DEF e, b
  <2>1. b + q \in 1 .. Len(e) /\ (b + q) - 1 = b + (q - 1)
      BY <1>1, <1>2, <1>3
  <2>2. after[b + q] = Scan(after[(b + q) - 1], e, b + q)
      BY <2>1 DEF Scans, e
  <2>3. QED
      BY <2>1, <2>2
<1>5. b + 0 = b /\ b \in Nat
    BY <1>1, <1>2
<1>6. after[b + 0] = Outside(g, n)
    BY <1>5
<1>7. QuantifierAt(e, end[k] + 1) <=> Quantified(p, k)
    BY <1>1, QuantifierFollows
<1>8. QuantifierAt(e, b + 1) <=> p[k] = "+"
  <2>1. (k - 1) + 1 = k /\ k <= Len(p)
      BY <1>1
  <2>2. QuantifierAt(e, b + 1) <=> Quantified(p, k - 1)
      BY <1>1, QuantifierFollows
  <2>3. QED
      BY <2>1, <2>2 DEF Quantified
<1> HIDE DEF e, b
<1>9. CASE p[k] \in {"(", ")", "+", "a"}
  <2>1. TokensOf(p[k]) = <<p[k]>>
      BY <1>9 DEF TokensOf, Class, Escape
  <2>2. Len(TokensOf(p[k])) = 1 /\ TokensOf(p[k])[1] = p[k] /\ 1 \in 1 .. 1 /\ 1 - 1 = 0
      BY <2>1
  <2>3. /\ e[b + 1] = p[k] /\ end[k] = b + 1
        /\ after[b + 1] = Scan(Outside(g, n), e, b + 1)
      BY <1>2, <1>4, <1>6, <2>2, Zenon
  <2>4. p[k] # Class /\ p[k] # Escape
      BY <1>9 DEF Class, Escape
  <2>5. p[k] = "(" => after[end[k]] = Outside(Opened(g), n)
      BY <2>3, ScanToken
  <2>6. QuantifierAt(e, (b + 1) + 1) <=> Quantified(p, k)
      BY <1>7, <2>3, Zenon
  <2>7. p[k] = ")" /\ g # <<>> /\ Quantified(p, k) =>
            after[end[k]] = Outside(Mark(Front(g)), Found(g, n))
      BY <2>3, <2>6, ScanToken
  <2>8. p[k] = ")" /\ g # <<>> /\ ~Quantified(p, k) => after[end[k]] = Outside(Front(g), n)
      BY <2>3, <2>6, ScanToken
  <2>9. p[k] = "+" => after[end[k]] = Outside(Mark(g), n)
      BY <1>8, <2>3, ScanToken
  <2>10. "a" # "+"
      OBVIOUS
  <2>11. p[k] = "a" => after[end[k]] = Outside(g, n)
      BY <1>8, <2>3, <2>10, ScanToken
  <2>12. QED
      BY <2>4, <2>5, <2>7, <2>8, <2>9, <2>11
<1>10. CASE p[k] = Class
  <2>1. TokensOf(p[k]) = <<"[", "\\", "]", "(", "+", "]">>
      BY <1>10 DEF TokensOf, Class, Escape
  <2>2. /\ Len(TokensOf(p[k])) = 6
        /\ e[b + 1] = "[" /\ e[b + 2] = "\\" /\ e[b + 3] = "]"
        /\ e[b + 4] = "(" /\ e[b + 5] = "+" /\ e[b + 6] = "]"
      BY <1>2, <2>1
  <2>3. /\ after[b + 1] = Scan(after[b + 0], e, b + 1) /\ after[b + 2] = Scan(after[b + 1], e, b + 2)
        /\ after[b + 3] = Scan(after[b + 2], e, b + 3) /\ after[b + 4] = Scan(after[b + 3], e, b + 4)
        /\ after[b + 5] = Scan(after[b + 4], e, b + 5) /\ after[b + 6] = Scan(after[b + 5], e, b + 6)
    <3>1. /\ 1 \in 1 .. 6 /\ 2 \in 1 .. 6 /\ 3 \in 1 .. 6 /\ 4 \in 1 .. 6 /\ 5 \in 1 .. 6 /\ 6 \in 1 .. 6
          /\ 1 - 1 = 0 /\ 2 - 1 = 1 /\ 3 - 1 = 2 /\ 4 - 1 = 3 /\ 5 - 1 = 4 /\ 6 - 1 = 5
        OBVIOUS
    <3>2. \A q \in 1 .. 6 : after[b + q] = Scan(after[b + (q - 1)], e, b + q)
        BY <1>4, <2>2
    <3>3. QED
        BY <3>1, <3>2, Zenon
  <2>4. "(" \notin {"]", "\\"} /\ "+" \notin {"]", "\\"}
      OBVIOUS
  <2>5. after[b + 1] = InClass(g, n)
      BY <1>6, <2>2, <2>3, ScanToken
  <2>6. after[b + 2] = Escaped(InClass(g, n))
      BY <2>2, <2>3, <2>5, ScanToken
  <2>7. after[b + 3] = InClass(g, n)
      BY <2>3, <2>6, ScanToken
  <2>8. after[b + 4] = InClass(g, n)
      BY <2>2, <2>3, <2>4, <2>7, ScanToken
  <2>9. after[b + 5] = InClass(g, n)
      BY <2>2, <2>3, <2>4, <2>8, ScanToken
  <2>10. after[b + 6] = Outside(g, n)
      BY <2>2, <2>3, <2>9, ScanToken
  <2>11. end[k] = b + 6
      BY <1>2, <2>2
  <2>12. p[k] \notin {"(", ")", "+"}
      BY <1>10 DEF Class
  <2>13. QED
      BY <2>10, <2>11, <2>12
<1>11. CASE p[k] = Escape
  <2>1. TokensOf(p[k]) = <<"\\", "(">>
      BY <1>11 DEF TokensOf, Class, Escape
  <2>2. Len(TokensOf(p[k])) = 2 /\ e[b + 1] = "\\"
      BY <1>2, <2>1
  <2>3. after[b + 1] = Scan(after[b + 0], e, b + 1) /\ after[b + 2] = Scan(after[b + 1], e, b + 2)
    <3>1. 1 \in 1 .. 2 /\ 2 \in 1 .. 2 /\ 1 - 1 = 0 /\ 2 - 1 = 1
        OBVIOUS
    <3>2. \A q \in 1 .. 2 : after[b + q] = Scan(after[b + (q - 1)], e, b + q)
        BY <1>4, <2>2
    <3>3. QED
        BY <3>1, <3>2, Zenon
  <2>4. after[b + 1] = Escaped(Outside(g, n))
      BY <1>6, <2>2, <2>3, ScanToken
  <2>5. after[b + 2] = Outside(g, n)
      BY <2>3, <2>4, ScanToken
  <2>6. end[k] = b + 2
      BY <1>2, <2>2
  <2>7. p[k] \notin {"(", ")", "+"}
      BY <1>11 DEF Escape
  <2>8. QED
      BY <2>5, <2>6, <2>7
<1>12. QED
    BY <1>3, <1>9, <1>10, <1>11 DEF Pieces

\* The groups with one more.
LEMMA OpenedGroups ==
    ASSUME NEW g \in Seq(BOOLEAN)
    PROVE  /\ Opened(g) \in Seq(BOOLEAN) /\ Len(Opened(g)) = Len(g) + 1 /\ Len(g) \in Nat
           /\ Opened(g)[Len(g) + 1] = FALSE /\ \A r \in 1 .. Len(g) : Opened(g)[r] = g[r]
<1>1. FALSE \in BOOLEAN
    OBVIOUS
<1>2. QED
    BY <1>1, AppendProperties DEF Opened

\* The last element is replaced.
LEMMA PutLast ==
    ASSUME NEW S, NEW g \in Seq(S), g # <<>>, NEW e \in S
    PROVE  LET h == [g EXCEPT ![Len(g)] = e]
           IN  /\ h \in Seq(S) /\ Len(h) = Len(g) /\ h[Len(g)] = e
               /\ \A r \in 1 .. Len(g) : r # Len(g) => h[r] = g[r]
<1>1. Len(g) \in 1 .. Len(g)
    OBVIOUS
<1>2. QED
    BY <1>1

\* The groups with the innermost one marked.
LEMMA MarkedGroups ==
    ASSUME NEW g \in Seq(BOOLEAN)
    PROVE  /\ Mark(g) \in Seq(BOOLEAN) /\ Len(Mark(g)) = Len(g)
           /\ Len(g) # 0 => Mark(g)[Len(g)] = TRUE
           /\ \A r \in 1 .. Len(g) : r # Len(g) => Mark(g)[r] = g[r]
<1>1. CASE g = <<>>
    BY <1>1 DEF Mark
<1>2. CASE g # <<>>
  <2>1. Mark(g) = [g EXCEPT ![Len(g)] = TRUE]
      BY <1>2 DEF Mark
  <2>2. TRUE \in BOOLEAN
      OBVIOUS
  <2>3. /\ [g EXCEPT ![Len(g)] = TRUE] \in Seq(BOOLEAN) /\ Len([g EXCEPT ![Len(g)] = TRUE]) = Len(g)
        /\ [g EXCEPT ![Len(g)] = TRUE][Len(g)] = TRUE
        /\ \A r \in 1 .. Len(g) : r # Len(g) => [g EXCEPT ![Len(g)] = TRUE][r] = g[r]
      BY <1>2, <2>2, PutLast
  <2>4. QED
      BY <2>1, <2>3, Zenon
<1>3. QED
    BY <1>1, <1>2

\* The groups without the innermost one.
LEMMA ClosedGroups ==
    ASSUME NEW g \in Seq(BOOLEAN), g # <<>>
    PROVE  /\ Front(g) \in Seq(BOOLEAN) /\ Len(Front(g)) = Len(g) - 1 /\ Len(g) \in Nat \ {0}
           /\ Last(g) = g[Len(g)]
           /\ \A r \in 1 .. Len(g) - 1 : Front(g)[r] = g[r]
<1>1. /\ Len(g) \in Nat \ {0} /\ 1 \in Int /\ Len(g) - 1 \in Int
      /\ \A r \in 1 .. Len(g) - 1 : g[r] \in BOOLEAN
    OBVIOUS
<1>2. /\ SubSeq(g, 1, Len(g) - 1) \in Seq(BOOLEAN)
      /\ Len(SubSeq(g, 1, Len(g) - 1)) = Len(g) - 1
      /\ \A r \in 1 .. Len(g) - 1 : SubSeq(g, 1, Len(g) - 1)[r] = g[r]
  <2> DEFINE m == Len(g) - 1
             f == SubSeq(g, 1, m)
  <2>1. /\ f \in Seq(BOOLEAN) /\ Len(f) = IF 1 <= m THEN m - 1 + 1 ELSE 0
        /\ \A r \in 1 .. m - 1 + 1 : f[r] = g[1 + r - 1]
      BY <1>1, SubSeqProperties
  <2>2. m \in Nat /\ m - 1 + 1 = m /\ \A r \in 1 .. m : 1 + r - 1 = r
      BY <1>1
  <2> HIDE DEF f, m
  <2>3. Len(f) = m
      BY <2>1, <2>2
  <2>4. \A r \in 1 .. m : f[r] = g[r]
      BY <2>1, <2>2, Zenon
  <2>5. QED
      BY <2>1, <2>3, <2>4 DEF f, m
<1>3. QED
    BY <1>1, <1>2, Zenon DEF Front, Last

\* No group is closed before it is opened.
Balanced(pieces) == \A k \in DOMAIN pieces : Depth(pieces, k) >= 0

\* One piece changes the depth by one at most.
LEMMA DepthNext ==
    ASSUME NEW p, NEW k \in Nat
    PROVE  /\ Depth(p, 0) = 0 /\ Depth(p, k) \in Int /\ Depth(p, k + 1) \in Int
           /\ p[k + 1] = "(" => Depth(p, k + 1) = Depth(p, k) + 1
           /\ p[k + 1] = ")" => Depth(p, k + 1) = Depth(p, k) - 1
           /\ p[k + 1] \notin {"(", ")"} => Depth(p, k + 1) = Depth(p, k)
<1>1. 1 \in Nat /\ 0 \in Int /\ 0 < 1 /\ k + 1 \in Nat /\ 1 <= k + 1 /\ 1 <= (k + 1) + 1
    OBVIOUS
<1>2. Depth(p, 0) = 0
    BY <1>1, OpenNothing DEF Depth
<1>3. Depth(p, k) \in Int /\ Depth(p, k + 1) \in Int
    BY <1>1, OpenNext DEF Depth
<1>4. /\ p[k + 1] = "(" => Depth(p, k + 1) = Depth(p, k) + 1
      /\ p[k + 1] = ")" => Depth(p, k + 1) = Depth(p, k) - 1
      /\ p[k + 1] \notin {"(", ")"} => Depth(p, k + 1) = Depth(p, k)
    BY <1>1, OpenNext DEF Depth
<1>5. QED
    BY <1>2, <1>3, <1>4

\* The group of depth r that is open after piece k has a quantifier of its own.
Marked(p, k, r) ==
    \E q \in 1 .. k : p[q] = "+" /\ Depth(p, q) = r /\ \A j \in q .. k : Depth(p, j) >= r

\* Piece k closes a group and a quantifier follows.
Closes(p, k) == k \in DOMAIN p /\ p[k] = ")" /\ Quantified(p, k)

\* A quantifier followed a group that has one, up to piece k.
NestedBy(p, k) == \E c \in 1 .. k : Closes(p, c) /\ Marked(p, c - 1, Depth(p, c - 1))

\* A group keeps its quantifier for as long as it is open.
LEMMA MarkedNext ==
    ASSUME NEW p, NEW k \in Nat, NEW r \in Int
    PROVE  /\ r <= Depth(p, k + 1) =>
                  (Marked(p, k + 1, r) <=> Marked(p, k, r) \/ (p[k + 1] = "+" /\ Depth(p, k + 1) = r))
           /\ r > Depth(p, k) => ~Marked(p, k, r)
<1>1. \A j \in 0 .. k + 1 : Depth(p, j) \in Int
    BY DepthNext
<1>2. ASSUME r > Depth(p, k), Marked(p, k, r)
      PROVE  FALSE
  <2>1. PICK q \in 1 .. k : \A j \in q .. k : Depth(p, j) >= r
      BY <1>2 DEF Marked
  <2>2. k \in q .. k /\ k \in 0 .. k + 1
      OBVIOUS
  <2>3. Depth(p, k) >= r /\ Depth(p, k) \in Int
      BY <1>1, <2>1, <2>2
  <2>4. QED
      BY <1>2, <2>3
<1>3. ASSUME r <= Depth(p, k + 1), Marked(p, k, r)
      PROVE  Marked(p, k + 1, r)
  <2>1. PICK q \in 1 .. k : p[q] = "+" /\ Depth(p, q) = r /\ \A j \in q .. k : Depth(p, j) >= r
      BY <1>3 DEF Marked
  <2>2. k + 1 \in 0 .. k + 1 /\ \A j \in q .. k + 1 : j \in q .. k \/ j = k + 1
      OBVIOUS
  <2>3. Depth(p, k + 1) >= r
      BY <1>1, <1>3, <2>2
  <2>4. \A j \in q .. k + 1 : Depth(p, j) >= r
      BY <2>1, <2>2, <2>3, Zenon
  <2>5. q \in 1 .. k + 1
      OBVIOUS
  <2>6. QED
      BY <2>1, <2>4, <2>5, Zenon DEF Marked
<1>4. ASSUME p[k + 1] = "+", Depth(p, k + 1) = r
      PROVE  Marked(p, k + 1, r)
  <2>1. k + 1 \in 1 .. k + 1 /\ \A j \in k + 1 .. k + 1 : j = k + 1
      OBVIOUS
  <2>2. r >= r
      OBVIOUS
  <2>3. \A j \in k + 1 .. k + 1 : Depth(p, j) >= r
      BY <1>4, <2>1, <2>2, Zenon
  <2>4. QED
      BY <1>4, <2>1, <2>3, Zenon DEF Marked
<1>5. ASSUME Marked(p, k + 1, r), ~(p[k + 1] = "+" /\ Depth(p, k + 1) = r)
      PROVE  Marked(p, k, r)
  <2>1. PICK q \in 1 .. k + 1 : p[q] = "+" /\ Depth(p, q) = r /\ \A j \in q .. k + 1 : Depth(p, j) >= r
      BY <1>5 DEF Marked
  <2>2. q # k + 1
      BY <1>5, <2>1
  <2>3. q \in 1 .. k /\ \A j \in q .. k : j \in q .. k + 1
      BY <2>2
  <2>4. QED
      BY <2>1, <2>3, Zenon DEF Marked
<1>6. QED
    BY <1>2, <1>3, <1>4, <1>5

\* One piece more can be the end of another such group.
LEMMA NestedNext ==
    ASSUME NEW p, NEW k \in Nat
    PROVE  NestedBy(p, k + 1) <=> NestedBy(p, k) \/ (Closes(p, k + 1) /\ Marked(p, k, Depth(p, k)))
<1>1. (k + 1) - 1 = k /\ \A c : c \in 1 .. k + 1 <=> c \in 1 .. k \/ c = k + 1
    OBVIOUS
<1>2. QED
    BY <1>1, Zenon DEF NestedBy

\* What the scan knows is what there is to know.
Right(p, k, g, n) ==
    /\ g \in Seq(BOOLEAN) /\ n \in BOOLEAN
    /\ Len(g) = Depth(p, k)
    /\ \A r \in 1 .. Len(g) : g[r] <=> Marked(p, k, r) \/ (r = Len(g) /\ Closes(p, k))
    /\ n <=> NestedBy(p, k)

\* A piece that is no bracket and no quantifier changes nothing.
LEMMA RightAfterOther ==
    ASSUME NEW p, NEW k \in Nat, NEW g, NEW n, Right(p, k, g, n),
           k + 1 \in DOMAIN p, p[k + 1] \notin {"(", ")", "+"}
    PROVE  Right(p, k + 1, g, n)
<1>1. ~Closes(p, k) /\ ~Closes(p, k + 1)
    BY DEF Closes, Quantified
<1>2. Depth(p, k + 1) = Depth(p, k) /\ Depth(p, k) \in Int
    BY DepthNext
<1>3. \A r \in 1 .. Len(g) : Marked(p, k + 1, r) <=> Marked(p, k, r)
  <2>1. \A r \in 1 .. Len(g) : r \in Int /\ r <= Depth(p, k + 1)
      BY <1>2 DEF Right
  <2>2. QED
      BY <2>1, MarkedNext
<1>4. NestedBy(p, k + 1) <=> NestedBy(p, k)
    BY <1>1, NestedNext
<1>5. QED
    BY <1>1, <1>2, <1>3, <1>4, Zenon DEF Right

\* A group that is opened has no quantifier yet.
LEMMA RightAfterOpening ==
    ASSUME NEW p, NEW k \in Nat, NEW g, NEW n, Right(p, k, g, n), k + 1 \in DOMAIN p, p[k + 1] = "("
    PROVE  Right(p, k + 1, Opened(g), n)
<1> DEFINE h == Opened(g)
<1>1. ~Closes(p, k) /\ ~Closes(p, k + 1)
    BY DEF Closes, Quantified
<1>2. Depth(p, k + 1) = Depth(p, k) + 1 /\ Depth(p, k) \in Int /\ Depth(p, k) = Len(g)
    BY DepthNext DEF Right
<1>3. /\ h \in Seq(BOOLEAN) /\ Len(h) = Len(g) + 1 /\ Len(g) \in Nat
      /\ h[Len(g) + 1] = FALSE /\ \A r \in 1 .. Len(g) : h[r] = g[r]
  <2>1. g \in Seq(BOOLEAN)
      BY DEF Right
  <2>2. QED
      BY <2>1, OpenedGroups
<1>4. \A r \in 1 .. Len(g) : Marked(p, k + 1, r) <=> Marked(p, k, r)
  <2>1. \A r \in 1 .. Len(g) : r \in Int /\ r <= Depth(p, k + 1)
      BY <1>2, <1>3
  <2>2. p[k + 1] # "+"
      OBVIOUS
  <2>3. QED
      BY <2>1, <2>2, MarkedNext
<1>5. ~Marked(p, k + 1, Len(g) + 1)
  <2>1. Len(g) + 1 \in Int /\ Len(g) + 1 <= Depth(p, k + 1) /\ Len(g) + 1 > Depth(p, k)
      BY <1>2, <1>3
  <2>2. p[k + 1] # "+"
      OBVIOUS
  <2>3. QED
      BY <2>1, <2>2, MarkedNext
<1>6. NestedBy(p, k + 1) <=> NestedBy(p, k)
    BY <1>1, NestedNext
<1>7. \A r \in 1 .. Len(g) + 1 : r \in 1 .. Len(g) \/ r = Len(g) + 1
    BY <1>3
<1> HIDE DEF h
<1>8. \A r \in 1 .. Len(h) : h[r] <=> Marked(p, k + 1, r) \/ (r = Len(h) /\ Closes(p, k + 1))
  <2>1. ASSUME NEW r \in 1 .. Len(g)
        PROVE  h[r] <=> Marked(p, k + 1, r)
    <3>1. g[r] <=> Marked(p, k, r)
        BY <1>1 DEF Right
    <3>2. QED
        BY <1>3, <1>4, <3>1, Zenon
  <2>2. h[Len(g) + 1] <=> Marked(p, k + 1, Len(g) + 1)
      BY <1>3, <1>5, Zenon
  <2>3. QED
      BY <1>1, <1>3, <1>7, <2>1, <2>2, Zenon
<1>9. Right(p, k + 1, h, n)
    BY <1>2, <1>3, <1>6, <1>8, Zenon DEF Right
<1>10. QED
    BY <1>9 DEF h

\* A quantifier is that of the innermost open group.
LEMMA RightAfterQuantifier ==
    ASSUME NEW p, NEW k \in Nat, NEW g, NEW n, Right(p, k, g, n), k + 1 \in DOMAIN p, p[k + 1] = "+"
    PROVE  Right(p, k + 1, Mark(g), n)
<1> DEFINE h == Mark(g)
<1>1. ~Closes(p, k + 1)
    BY DEF Closes
<1>2. Depth(p, k + 1) = Depth(p, k) /\ Depth(p, k) \in Int /\ Depth(p, k) = Len(g)
    BY DepthNext DEF Right
<1>3. /\ h \in Seq(BOOLEAN) /\ Len(h) = Len(g) /\ Len(g) \in Nat
      /\ Len(g) # 0 => h[Len(g)] = TRUE
      /\ \A r \in 1 .. Len(g) : r # Len(g) => h[r] = g[r]
  <2>1. g \in Seq(BOOLEAN)
      BY DEF Right
  <2>2. Len(g) \in Nat
      BY <2>1
  <2>3. QED
      BY <2>1, <2>2, MarkedGroups
<1>4. \A r \in 1 .. Len(g) : Marked(p, k + 1, r) <=> Marked(p, k, r) \/ r = Len(g)
  <2>1. \A r \in 1 .. Len(g) : r \in Int /\ r <= Depth(p, k + 1)
      BY <1>2, <1>3
  <2>2. \A r \in 1 .. Len(g) : Depth(p, k + 1) = r <=> r = Len(g)
      BY <1>2
  <2>3. QED
      BY <2>1, <2>2, MarkedNext
<1>5. NestedBy(p, k + 1) <=> NestedBy(p, k)
    BY <1>1, NestedNext
<1> HIDE DEF h
<1>6. ASSUME NEW r \in 1 .. Len(h)
      PROVE  h[r] <=> Marked(p, k + 1, r) \/ (r = Len(h) /\ Closes(p, k + 1))
  <2>1. r \in 1 .. Len(g) /\ Len(g) # 0
      BY <1>3
  <2>2. CASE r = Len(g)
    <3>1. Marked(p, k + 1, r)
        BY <1>4, <2>1, <2>2, Zenon
    <3>2. h[r]
        BY <1>3, <2>1, <2>2, Zenon
    <3>3. QED
        BY <3>1, <3>2, Zenon
  <2>3. CASE r # Len(g)
    <3>1. h[r] = g[r]
        BY <1>3, <2>1, <2>3, Zenon
    <3>2. g[r] <=> Marked(p, k, r)
        BY <2>1, <2>3, Zenon DEF Right
    <3>3. Marked(p, k + 1, r) <=> Marked(p, k, r)
        BY <1>4, <2>1, <2>3, Zenon
    <3>4. QED
        BY <1>1, <3>1, <3>2, <3>3, Zenon
  <2>4. QED
      BY <2>2, <2>3
<1>7. Right(p, k + 1, h, n)
    BY <1>2, <1>3, <1>5, <1>6, Zenon DEF Right
<1>8. QED
    BY <1>7 DEF h

\* The group that is closed had a quantifier, or had none.
LEMMA RightAfterClosing ==
    ASSUME NEW p, NEW k \in Nat, NEW g, NEW n, Right(p, k, g, n), k + 1 \in DOMAIN p, p[k + 1] = ")",
           Depth(p, k + 1) >= 0
    PROVE  /\ g # <<>>
           /\ Quantified(p, k + 1) => Right(p, k + 1, Mark(Front(g)), Found(g, n))
           /\ ~Quantified(p, k + 1) => Right(p, k + 1, Front(g), n)
<1> DEFINE f == Front(g)
           h == Mark(f)
<1>1. ~Closes(p, k) /\ (Closes(p, k + 1) <=> Quantified(p, k + 1))
    BY DEF Closes, Quantified
<1>2. Depth(p, k + 1) = Depth(p, k) - 1 /\ Depth(p, k) \in Int /\ Depth(p, k) = Len(g)
    BY DepthNext DEF Right
<1>3. g \in Seq(BOOLEAN) /\ n \in BOOLEAN
    BY DEF Right
<1>4. g # <<>>
    BY <1>2, <1>3
<1>5. /\ f \in Seq(BOOLEAN) /\ Len(f) = Len(g) - 1 /\ Len(g) \in Nat \ {0}
      /\ Last(g) = g[Len(g)]
      /\ \A r \in 1 .. Len(g) - 1 : f[r] = g[r]
    BY <1>3, <1>4, ClosedGroups
<1>6. /\ Len(g) \in 1 .. Len(g) /\ \A r \in 1 .. Len(g) - 1 : r \in 1 .. Len(g) /\ r # Len(g)
      /\ Len(f) = Depth(p, k + 1) /\ Len(f) \in Nat
    BY <1>2, <1>5
<1>7. \A r \in 1 .. Len(f) : Marked(p, k + 1, r) <=> Marked(p, k, r)
  <2>1. \A r \in 1 .. Len(f) : r \in Int /\ r <= Depth(p, k + 1)
      BY <1>6
  <2>2. p[k + 1] # "+"
      OBVIOUS
  <2>3. QED
      BY <2>1, <2>2, MarkedNext
<1>8. \A r \in 1 .. Len(f) : f[r] <=> Marked(p, k + 1, r)
  <2>1. ASSUME NEW r \in 1 .. Len(f)
        PROVE  f[r] <=> Marked(p, k + 1, r)
    <3>1. g[r] <=> Marked(p, k, r)
        BY <1>1, <1>5, <1>6, <2>1, Zenon DEF Right
    <3>2. f[r] = g[r]
        BY <1>5, <2>1
    <3>3. QED
        BY <1>7, <2>1, <3>1, <3>2, Zenon
  <2>2. QED
      BY <2>1
<1>9. Last(g) <=> Marked(p, k, Depth(p, k))
  <2>1. g[Len(g)] <=> Marked(p, k, Len(g))
      BY <1>1, <1>6, Zenon DEF Right
  <2>2. QED
      BY <1>2, <1>5, <2>1, Zenon
<1>10. NestedBy(p, k + 1) <=> NestedBy(p, k) \/ (Quantified(p, k + 1) /\ Last(g))
    BY <1>1, <1>9, NestedNext, Zenon
<1>11. n <=> NestedBy(p, k)
    BY DEF Right
<1> HIDE DEF f
<1>12. ASSUME ~Quantified(p, k + 1)
       PROVE  Right(p, k + 1, f, n)
    BY <1>1, <1>3, <1>5, <1>6, <1>8, <1>10, <1>11, <1>12, Zenon DEF Right
<1>13. ASSUME Quantified(p, k + 1)
       PROVE  Right(p, k + 1, h, Found(g, n))
  <2>1. /\ h \in Seq(BOOLEAN) /\ Len(h) = Len(f)
        /\ Len(f) # 0 => h[Len(f)] = TRUE
        /\ \A r \in 1 .. Len(f) : r # Len(f) => h[r] = f[r]
      BY <1>5, MarkedGroups
  <2>2. Found(g, n) \in BOOLEAN /\ (Found(g, n) <=> NestedBy(p, k + 1))
    <3>1. Found(g, n) \in BOOLEAN
        BY DEF Found
    <3>2. QED
        BY <1>10, <1>11, <1>13, <3>1, Zenon DEF Found
  <2> HIDE DEF h
  <2>3. ASSUME NEW r \in 1 .. Len(h)
        PROVE  h[r] <=> Marked(p, k + 1, r) \/ (r = Len(h) /\ Closes(p, k + 1))
    <3>1. r \in 1 .. Len(f) /\ Len(f) # 0
        BY <1>6, <2>1
    <3>2. CASE r = Len(f)
      <4>1. h[r]
          BY <2>1, <3>1, <3>2, Zenon
      <4>2. r = Len(h) /\ Closes(p, k + 1)
          BY <1>1, <1>13, <2>1, <3>2, Zenon
      <4>3. QED
          BY <4>1, <4>2, Zenon
    <3>3. CASE r # Len(f)
      <4>1. h[r] = f[r] /\ r # Len(h)
          BY <2>1, <3>1, <3>3, Zenon
      <4>2. QED
          BY <1>8, <3>1, <4>1, Zenon
    <3>4. QED
        BY <3>2, <3>3
  <2>4. QED
      BY <1>6, <2>1, <2>2, <2>3, Zenon DEF Right
<1>14. QED
    BY <1>4, <1>12, <1>13 DEF f, h

\* The scan finds what there is to find.
LEMMA ScanIsRight ==
    ASSUME NEW p \in Seq(Pieces), Balanced(p)
    PROVE  /\ NestedQuantifier(Expand(p)) \in BOOLEAN
           /\ NestedQuantifier(Expand(p)) <=> NestedBy(p, Len(p))
<1>1. Len(p) \in Nat /\ DOMAIN p = 1 .. Len(p) /\ \A k \in 1 .. Len(p) : p[k] \in Pieces
    OBVIOUS
<1>2. Len(Expand(p)) \in Nat
  <2>1. Expand(p) \in Seq(Symbols)
      BY ExpandPieces
  <2>2. QED
      BY <2>1
<1>3. PICK end : Ends(p, end)
    BY ExpandPieces DEF Ends
<1>4. PICK after : /\ Scans(Expand(p), after)
                   /\ NestedQuantifier(Expand(p)) = after[Len(Expand(p))].nested
    BY <1>2, NestedQuantifierScans
<1> DEFINE X == {k \in Nat : k <= Len(p) =>
                     \E g, n : Right(p, k, g, n) /\ after[end[k]] = Outside(g, n)}
<1>5. 0 \in X
  <2>1. after[end[0]] = Outside(<<>>, FALSE)
      BY <1>3, <1>4 DEF Ends, Scans
  <2>2. Right(p, 0, <<>>, FALSE)
    <3>1. Depth(p, 0) = 0
        BY DepthNext
    <3>2. ~NestedBy(p, 0)
        BY DEF NestedBy
    <3>3. <<>> \in Seq(BOOLEAN) /\ Len(<<>>) = 0 /\ FALSE \in BOOLEAN /\ 1 .. 0 = {}
        OBVIOUS
    <3>4. QED
        BY <3>1, <3>2, <3>3, Zenon DEF Right
  <2>3. \E g, n : Right(p, 0, g, n) /\ after[end[0]] = Outside(g, n)
      BY <2>1, <2>2, Zenon
  <2>4. QED
      BY <2>3
<1>6. ASSUME NEW k \in Nat, k \in X
      PROVE  k + 1 \in X
  <2>1. SUFFICES ASSUME k + 1 <= Len(p)
                 PROVE  \E g, n : Right(p, k + 1, g, n) /\ after[end[k + 1]] = Outside(g, n)
      OBVIOUS
  <2>2. PICK g, n : Right(p, k, g, n) /\ after[end[k]] = Outside(g, n)
      BY <1>1, <1>6, <2>1
  <2>3. k + 1 \in 1 .. Len(p) /\ k + 1 \in DOMAIN p /\ (k + 1) - 1 = k /\ p[k + 1] \in Pieces
      BY <1>1, <2>1
  <2>4. n \in BOOLEAN /\ after[end[(k + 1) - 1]] = Outside(g, n)
      BY <2>2, <2>3 DEF Right
  <2> HIDE DEF X
  <2>5. /\ p[k + 1] = "(" => after[end[k + 1]] = Outside(Opened(g), n)
        /\ p[k + 1] = ")" /\ g # <<>> /\ Quantified(p, k + 1) =>
               after[end[k + 1]] = Outside(Mark(Front(g)), Found(g, n))
        /\ p[k + 1] = ")" /\ g # <<>> /\ ~Quantified(p, k + 1) => after[end[k + 1]] = Outside(Front(g), n)
        /\ p[k + 1] = "+" => after[end[k + 1]] = Outside(Mark(g), n)
        /\ p[k + 1] \in {"a", Class, Escape} => after[end[k + 1]] = Outside(g, n)
      BY <1>3, <1>4, <2>3, <2>4, PieceScan
  <2>6. CASE p[k + 1] = "("
    <3>1. Right(p, k + 1, Opened(g), n)
        BY <2>2, <2>3, <2>6, RightAfterOpening
    <3>2. QED
        BY <2>5, <2>6, <3>1, Zenon
  <2>7. CASE p[k + 1] = ")"
    <3>1. Depth(p, k + 1) >= 0
        BY <2>3 DEF Balanced
    <3>2. /\ g # <<>>
          /\ Quantified(p, k + 1) => Right(p, k + 1, Mark(Front(g)), Found(g, n))
          /\ ~Quantified(p, k + 1) => Right(p, k + 1, Front(g), n)
        BY <2>2, <2>3, <2>7, <3>1, RightAfterClosing
    <3>3. CASE Quantified(p, k + 1)
        BY <2>5, <2>7, <3>2, <3>3, Zenon
    <3>4. CASE ~Quantified(p, k + 1)
        BY <2>5, <2>7, <3>2, <3>4, Zenon
    <3>5. QED
        BY <3>3, <3>4
  <2>8. CASE p[k + 1] = "+"
    <3>1. Right(p, k + 1, Mark(g), n)
        BY <2>2, <2>3, <2>8, RightAfterQuantifier
    <3>2. QED
        BY <2>5, <2>8, <3>1, Zenon
  <2>9. CASE p[k + 1] \in {"a", Class, Escape}
    <3>1. p[k + 1] \notin {"(", ")", "+"}
        BY <2>9 DEF Class, Escape
    <3>2. Right(p, k + 1, g, n)
        BY <2>2, <2>3, <3>1, RightAfterOther
    <3>3. QED
        BY <2>5, <2>9, <3>2, Zenon
  <2>10. QED
      BY <2>3, <2>6, <2>7, <2>8, <2>9 DEF Pieces
<1>7. PICK g, n : Right(p, Len(p), g, n) /\ after[end[Len(p)]] = Outside(g, n)
  <2>1. \A k \in Nat : k \in X => k + 1 \in X
      BY <1>6
  <2> HIDE DEF X
  <2>2. \A k \in Nat : k \in X
      BY <1>5, <2>1, NatsInSet
  <2>3. Len(p) \in X /\ Len(p) <= Len(p)
      BY <1>1, <2>2
  <2>4. QED
      BY <2>3 DEF X
<1>8. end[Len(p)] = Len(Expand(p))
    BY <1>3 DEF Ends
<1>9. Outside(g, n).nested = n
    BY DEF Outside
<1>10. QED
    BY <1>4, <1>7, <1>8, <1>9, Zenon DEF Right

\* The property's words: a group that has a quantifier of its own and is
\* followed by one.
NestedGroup(p) ==
    \E o, c \in DOMAIN p :
        /\ o < c /\ p[o] = "(" /\ p[c] = ")" /\ c + 1 \in DOMAIN p /\ p[c + 1] = "+"
        /\ Open(p, o, c) = 0 /\ \A j \in o .. c - 1 : Open(p, o, j) > 0
        /\ \E k \in o + 1 .. c - 1 :
               /\ p[k] = "+" /\ Open(p, o + 1, k) = 0
               /\ \A j \in o + 1 .. k : Open(p, o + 1, j) >= 0

\* The group that the property speaks of is one that the scan looks for.
LEMMA GroupIsNested ==
    ASSUME NEW p \in Seq(Pieces), NestedGroup(p)
    PROVE  NestedBy(p, Len(p))
<1>1. Len(p) \in Nat /\ DOMAIN p = 1 .. Len(p)
    OBVIOUS
<1>2. PICK o \in DOMAIN p, c \in DOMAIN p :
          /\ o < c /\ p[o] = "(" /\ p[c] = ")" /\ c + 1 \in DOMAIN p /\ p[c + 1] = "+"
          /\ Open(p, o, c) = 0 /\ \A j \in o .. c - 1 : Open(p, o, j) > 0
          /\ \E k \in o + 1 .. c - 1 : p[k] = "+" /\ Open(p, o + 1, k) = 0
    BY Zenon DEF NestedGroup
<1>3. PICK k \in o + 1 .. c - 1 : p[k] = "+" /\ Open(p, o + 1, k) = 0
    BY <1>2
<1>4. /\ o < c /\ p[o] = "(" /\ p[c] = ")" /\ c + 1 \in DOMAIN p /\ p[c + 1] = "+"
      /\ Open(p, o, c) = 0 /\ \A j \in o .. c - 1 : Open(p, o, j) > 0
      /\ p[k] = "+" /\ Open(p, o + 1, k) = 0
    BY <1>2, <1>3, Zenon
<1>5. /\ o \in Nat \ {0} /\ o + 1 \in Nat \ {0} /\ c \in Nat /\ k \in Nat /\ o < k /\ k < c
      /\ o - 1 \in Nat /\ c - 1 \in Nat /\ (o - 1) + 1 = o /\ (c - 1) + 1 = c /\ (o + 1) - 1 = o
      /\ c + 1 <= Len(p)
    BY <1>1, <1>4
<1> DEFINE D(j) == Depth(p, j)
<1>6. \A j \in Nat : D(j) \in Int
    BY DepthNext
<1>7. \A j \in Nat : j >= o => Open(p, o, j) = D(j) - D(o - 1)
  <2>1. o \in Nat \ {0} /\ \A j \in Nat : j >= o => o <= j + 1
      BY <1>5
  <2>2. \A j \in Nat : j >= o => Open(p, o, j) = Depth(p, j) - Depth(p, o - 1)
      BY ONLY <2>1, OpenIsDifference, Zenon
  <2>3. QED
      BY <2>2, Zenon
<1>8. Open(p, o + 1, k) = D(k) - D(o)
  <2>1. o + 1 \in Nat \ {0} /\ k \in Nat /\ o + 1 <= k + 1 /\ (o + 1) - 1 = o
      BY <1>5
  <2>2. Open(p, o + 1, k) = Depth(p, k) - Depth(p, (o + 1) - 1)
      BY ONLY <2>1, OpenIsDifference, Zenon
  <2>3. QED
      BY <2>1, <2>2, Zenon
<1>9. D(o) = D(o - 1) + 1 /\ D(c) = D(c - 1) - 1
  <2>1. p[(o - 1) + 1] = "(" /\ p[(c - 1) + 1] = ")"
      BY <1>4, <1>5, Zenon
  <2>2. D((o - 1) + 1) = D(o - 1) + 1 /\ D((c - 1) + 1) = D(c - 1) - 1
      BY <1>5, <2>1, DepthNext
  <2>3. QED
      BY <1>5, <2>2, Zenon
<1> DEFINE r == D(c - 1)
<1> HIDE DEF D
<1>10. /\ D(o) \in Int /\ D(o - 1) \in Int /\ D(c) \in Int /\ D(c - 1) \in Int /\ D(k) \in Int
      /\ D(c) - D(o - 1) = 0 /\ D(k) - D(o) = 0
  <2>1. D(o) \in Int /\ D(o - 1) \in Int /\ D(c) \in Int /\ D(c - 1) \in Int /\ D(k) \in Int
      BY <1>5, <1>6
  <2>2. c >= o
      BY <1>5
  <2>3. Open(p, o, c) = D(c) - D(o - 1)
      BY <1>5, <1>7, <2>2, Zenon
  <2>4. QED
      BY <1>4, <1>8, <2>1, <2>3, Zenon
<1>11. D(k) = r
    BY <1>9, <1>10
<1>12. ASSUME NEW j \in k .. c - 1
       PROVE  D(j) >= r
  <2>1. j \in Nat /\ j >= o /\ j \in o .. c - 1
      BY <1>5
  <2>2. Open(p, o, j) > 0 /\ Open(p, o, j) = D(j) - D(o - 1) /\ D(j) \in Int
      BY <1>4, <1>6, <1>7, <2>1, Zenon
  <2>3. QED
      BY <1>9, <1>10, <2>2
<1>13. k \in 1 .. c - 1 /\ c \in 1 .. Len(p)
    BY <1>1, <1>4, <1>5
<1>14. Marked(p, c - 1, Depth(p, c - 1))
    BY <1>4, <1>11, <1>12, <1>13, Zenon DEF Marked, D, r
<1>15. Closes(p, c)
    BY <1>4, <1>5 DEF Closes, Quantified
<1>16. QED
    BY <1>13, <1>14, <1>15, Zenon DEF NestedBy

\* The last piece before q after which it is less deep: the group is opened next.
LEMMA OpenerExists ==
    ASSUME NEW p, NEW q \in Nat, NEW r \in Nat \ {0}, Depth(p, q) = r
    PROVE  \E o \in 1 .. q : /\ p[o] = "(" /\ Depth(p, o) = r /\ Depth(p, o - 1) = r - 1
                             /\ \A j \in o .. q : Depth(p, j) >= r
<1> DEFINE D(j) == Depth(p, j)
           X == {d \in Nat : d <= q /\ D(q - d) < r}
           d == FirstOf(X)
<1>1. \A j \in Nat : /\ D(0) = 0 /\ D(j) \in Int /\ D(j + 1) \in Int
                     /\ p[j + 1] = "(" => D(j + 1) = D(j) + 1
                     /\ p[j + 1] = ")" => D(j + 1) = D(j) - 1
                     /\ p[j + 1] \notin {"(", ")"} => D(j + 1) = D(j)
    BY DepthNext
<1> HIDE DEF D
<1>2. q \in X
  <2>1. q - q = 0 /\ 0 < r /\ q <= q /\ D(0) = 0
      BY <1>1
  <2>2. QED
      BY <2>1
<1>3. d \in X /\ \A x \in X : d <= x
    BY <1>2, FirstIsLeast
<1> HIDE DEF d
<1>4. d \in Nat /\ d <= q /\ D(q - d) < r
    BY <1>3
<1>5. D(q) = r
    BY DEF D
<1>6. d # 0
  <2>1. q - 0 = q
      OBVIOUS
  <2>2. QED
      BY <1>4, <1>5, <2>1
<1> DEFINE i == q - d
<1>7. i \in Nat /\ i + 1 \in 1 .. q /\ (i + 1) - 1 = i
    BY <1>4, <1>6
<1>8. ASSUME NEW j \in i + 1 .. q
      PROVE  D(j) >= r
  <2>1. q - j \in Nat /\ q - j < d /\ q - j <= q /\ q - (q - j) = j /\ j \in Nat
      BY <1>4, <1>7
  <2>2. ~(d <= q - j)
      BY <1>4, <2>1
  <2>3. q - j \notin X
      BY <1>3, <2>2, Zenon
  <2>4. ~(D(j) < r)
      BY <2>1, <2>3
  <2>5. D(j) \in Int
      BY <1>1, <2>1
  <2>6. QED
      BY <2>4, <2>5
<1> HIDE DEF X
<1>9. D(i) < r /\ D(i) \in Int /\ D(i + 1) \in Int
    BY <1>1, <1>4, <1>7
<1> HIDE DEF i
<1>10. D(i + 1) >= r
  <2>1. i + 1 \in i + 1 .. q
      BY <1>7
  <2>2. QED
      BY <1>8, <2>1
<1>11. p[i + 1] = "("
    BY <1>1, <1>7, <1>9, <1>10
<1>12. D(i + 1) = D(i) + 1
    BY <1>1, <1>7, <1>11
<1>13. D(i + 1) = r /\ D(i) = r - 1
    BY <1>9, <1>10, <1>12
<1>14. QED
    BY <1>7, <1>8, <1>11, <1>13, Zenon DEF D

\* And the other way round: the group that closes has been opened.
LEMMA NestedIsGroup ==
    ASSUME NEW p \in Seq(Pieces), Balanced(p), NestedBy(p, Len(p))
    PROVE  NestedGroup(p)
<1>1. Len(p) \in Nat /\ DOMAIN p = 1 .. Len(p)
    OBVIOUS
<1> DEFINE D(j) == Depth(p, j)
<1>2. PICK c \in 1 .. Len(p) : Closes(p, c) /\ Marked(p, c - 1, D(c - 1))
    BY DEF NestedBy
<1> DEFINE r == D(c - 1)
<1>3. PICK q \in 1 .. c - 1 : p[q] = "+" /\ D(q) = r /\ \A j \in q .. c - 1 : D(j) >= r
    BY <1>2 DEF Marked
<1>4. /\ c \in Nat /\ c - 1 \in Nat /\ (c - 1) + 1 = c /\ q \in Nat /\ q < c /\ q \in DOMAIN p /\ c \in DOMAIN p
    BY <1>1
<1>5. p[c] = ")" /\ c + 1 \in DOMAIN p /\ p[c + 1] = "+"
    BY <1>1, <1>2 DEF Closes, Quantified
<1>6. D(c) = r - 1 /\ D(c) >= 0 /\ D(c) \in Int /\ r \in Int
  <2>1. p[(c - 1) + 1] = ")"
      BY <1>4, <1>5, Zenon
  <2>2. D((c - 1) + 1) = D(c - 1) - 1 /\ D(c - 1) \in Int /\ D((c - 1) + 1) \in Int
      BY <1>4, <2>1, DepthNext
  <2>3. D(c) >= 0
      BY <1>4 DEF Balanced
  <2> HIDE DEF D
  <2>4. QED
      BY <1>4, <2>2, <2>3
<1>7. \A j \in Nat : D(j) \in Int
    BY DepthNext
<1> HIDE DEF r, D
<1>8. r \in Nat \ {0}
    BY <1>6
<1>9. PICK o \in 1 .. q : /\ p[o] = "(" /\ D(o) = r /\ D(o - 1) = r - 1
                          /\ \A j \in o .. q : D(j) >= r
    BY <1>3, <1>4, <1>8, OpenerExists DEF D
<1>10. o # q
  <2>1. "(" # "+"
      OBVIOUS
  <2>2. QED
      BY <1>3, <1>9, <2>1, Zenon
<1>11. /\ o \in DOMAIN p /\ o \in Nat \ {0} /\ o + 1 \in Nat \ {0} /\ o < c /\ q \in o + 1 .. c - 1
       /\ o - 1 \in Nat /\ (o + 1) - 1 = o
    BY <1>1, <1>4, <1>10
<1>12. \A j \in Nat : /\ j >= o => Open(p, o, j) = D(j) - D(o - 1)
                      /\ j >= o => Open(p, o + 1, j) = D(j) - D(o)
  <2>1. /\ o \in Nat \ {0} /\ o + 1 \in Nat \ {0} /\ (o + 1) - 1 = o
        /\ \A j \in Nat : j >= o => o <= j + 1 /\ o + 1 <= j + 1
      BY <1>11
  <2>2. \A j \in Nat : j >= o => /\ Open(p, o, j) = Depth(p, j) - Depth(p, o - 1)
                                /\ Open(p, o + 1, j) = Depth(p, j) - Depth(p, (o + 1) - 1)
      BY ONLY <2>1, OpenIsDifference, Zenon
  <2>3. QED
      BY <2>1, <2>2, Zenon DEF D
<1>13. ASSUME NEW j \in o .. c - 1
       PROVE  D(j) >= r /\ j \in Nat /\ j >= o /\ D(j) \in Int
  <2>1. j \in Nat /\ j >= o /\ (j \in o .. q \/ j \in q .. c - 1)
      BY <1>4, <1>11
  <2>2. D(j) >= r
      BY <1>3, <1>9, <2>1, Zenon
  <2>3. QED
      BY <1>7, <2>1, <2>2
<1>14. Open(p, o, c) = 0
  <2>1. c >= o
      BY <1>4, <1>11
  <2>2. Open(p, o, c) = D(c) - D(o - 1)
      BY <1>4, <1>12, <2>1, Zenon
  <2>3. QED
      BY <1>6, <1>9, <2>2
<1>15. ASSUME NEW j \in o .. c - 1
       PROVE  Open(p, o, j) > 0 /\ Open(p, o + 1, j) >= 0
  <2>1. D(j) >= r /\ D(j) \in Int
      BY <1>13
  <2>2. Open(p, o, j) = D(j) - D(o - 1) /\ Open(p, o + 1, j) = D(j) - D(o)
      BY <1>12, <1>13, Zenon
  <2>3. QED
      BY <1>6, <1>9, <2>1, <2>2
<1>16. Open(p, o + 1, q) = 0
  <2>1. q >= o
      BY <1>11
  <2>2. Open(p, o + 1, q) = D(q) - D(o)
      BY <1>4, <1>12, <2>1, Zenon
  <2>3. QED
      BY <1>3, <1>6, <1>9, <2>2
<1>17. \A j \in o + 1 .. q : j \in o .. c - 1
    BY <1>4, <1>11
<1>18. \E k \in o + 1 .. c - 1 : /\ p[k] = "+" /\ Open(p, o + 1, k) = 0
                                 /\ \A j \in o + 1 .. k : Open(p, o + 1, j) >= 0
    BY <1>3, <1>11, <1>15, <1>16, <1>17, Zenon
<1>19. QED
    BY <1>4, <1>5, <1>9, <1>11, <1>14, <1>15, <1>18, Zenon DEF NestedGroup

\* Wherever classes and escapes hide brackets, and however long the expression: a
\* quantified group with a quantifier directly in it is refused, and nothing is
\* that has no quantified group with a quantifier in it, if the expression closes
\* no group that it has not opened.
THEOREM NestingIsAlwaysRefused ==
    ASSUME task = "regexp" => /\ subject \in Seq(Pieces)
                              /\ \A k \in DOMAIN subject : Open(subject, 1, k) >= 0
    PROVE  NestingIsRefused
<1> SUFFICES ASSUME subject \in Seq(Pieces), Balanced(subject)
             PROVE  /\ (\E o, c \in DOMAIN subject :
                           /\ Repeated(subject, o, c)
                           /\ \E k \in DOMAIN subject : Within(subject, o, c, k) /\ Directly(subject, o, k))
                       => Refused(subject)
                    /\ Refused(subject) =>
                           \E o, c \in DOMAIN subject :
                               Repeated(subject, o, c) /\ \E k \in DOMAIN subject : Within(subject, o, c, k)
    BY Zenon DEF NestingIsRefused, Balanced, Depth
<1>1. Refused(subject) <=> NestedGroup(subject)
    BY ScanIsRight, GroupIsNested, NestedIsGroup DEF Refused
<1>2. ASSUME NEW o \in DOMAIN subject, NEW c \in DOMAIN subject, Repeated(subject, o, c),
             NEW k \in DOMAIN subject, Within(subject, o, c, k), Directly(subject, o, k)
      PROVE  Refused(subject)
    BY <1>1, <1>2, Zenon DEF NestedGroup, Repeated, Within, Directly
<1>3. ASSUME Refused(subject)
      PROVE  \E o, c \in DOMAIN subject :
                 Repeated(subject, o, c) /\ \E k \in DOMAIN subject : Within(subject, o, c, k)
  <2>1. NestedGroup(subject)
      BY <1>1, <1>3
  <2>2. PICK o \in DOMAIN subject, c \in DOMAIN subject :
            Repeated(subject, o, c) /\ \E k \in o + 1 .. c - 1 : subject[k] = "+"
      BY <2>1, Zenon DEF NestedGroup, Repeated
  <2>3. o + 1 .. c - 1 \subseteq DOMAIN subject
      OBVIOUS
  <2>4. QED
      BY <2>2, <2>3, Zenon DEF Within
<1>4. QED
    BY <1>2, <1>3, Zenon

-----------------------------------------------------------------------------
(*                              Envelope drift                             *)

\* A finite set of naturals has an upper bound.
LEMMA FiniteIsBounded ==
    ASSUME NEW F \in SUBSET Nat, IsFiniteSet(F)
    PROVE  \E b \in Nat : \A x \in F : x <= b
<1> DEFINE Bounded(G) == \E b \in Nat : \A x \in G : x <= b
           X == {c \in Nat : \A G \in SUBSET Nat :
                    IsFiniteSet(G) /\ Cardinality(G) = c => Bounded(G)}
<1>1. 0 \in X
  <2>1. ASSUME NEW G \in SUBSET Nat, IsFiniteSet(G), Cardinality(G) = 0
        PROVE  Bounded(G)
    <3>1. G = {}
        BY <2>1, FS_EmptySet
    <3>2. QED
        BY <3>1
  <2>2. QED
      BY <2>1
<1>2. ASSUME NEW c \in Nat, c \in X
      PROVE  c + 1 \in X
  <2>1. ASSUME NEW G \in SUBSET Nat, IsFiniteSet(G), Cardinality(G) = c + 1
        PROVE  Bounded(G)
    <3>1. G # {}
        BY <2>1, FS_EmptySet
    <3>2. PICK x \in G : TRUE
        BY <3>1
    <3>3. IsFiniteSet(G \ {x}) /\ Cardinality(G \ {x}) = c
      <4> HIDE DEF X, Bounded
      <4>1. IsFiniteSet(G \ {x}) /\ Cardinality(G \ {x}) = Cardinality(G) - 1
          BY <2>1, <3>2, FS_RemoveElement
      <4>2. (c + 1) - 1 = c
          OBVIOUS
      <4>3. QED
          BY <2>1, <4>1, <4>2, Zenon
    <3>4. PICK b \in Nat : \A y \in G \ {x} : y <= b
        BY <1>2, <3>3
    <3>5. x \in Nat /\ x + b \in Nat
        OBVIOUS
    <3>6. \A y \in G : y <= x + b
        BY <3>4, <3>5
    <3>7. QED
        BY <3>5, <3>6
  <2>2. QED
      BY <2>1
<1>3. Cardinality(F) \in X
  <2> HIDE DEF X
  <2>1. Cardinality(F) \in Nat
      BY FS_CardinalityType
  <2>2. QED
      BY <1>1, <1>2, <2>1, NatsInSet
<1>4. QED
    BY <1>3

\* The highest figure is one.
LEMMA HighestIsNat ==
    ASSUME NEW F \in SUBSET Nat, IsFiniteSet(F)
    PROVE  Highest(F) \in Nat
<1>1. CASE F = {}
    BY <1>1 DEF Highest
<1>2. CASE F # {}
  <2> DEFINE B == {b \in Nat : \A x \in F : x <= b}
  <2>1. B # {}
      BY FiniteIsBounded
  <2>2. PICK b \in B : \A c \in B : b <= c
      BY <2>1, FirstIsLeast
  <2>3. b \in F
    <3>1. SUFFICES ASSUME b \notin F PROVE FALSE
        OBVIOUS
    <3>2. \A x \in F : x \in Nat /\ x <= b /\ x # b
        BY <2>2, <3>1
    <3>3. b # 0
      <4>1. PICK x \in F : TRUE
          BY <1>2
      <4>2. x \in Nat /\ x <= b /\ x # b /\ b \in Nat
          BY <3>2
      <4>3. QED
          BY <4>2
    <3>4. b - 1 \in Nat /\ \A x \in F : x <= b - 1
        BY <3>2, <3>3
    <3>5. b - 1 \in B /\ ~(b <= b - 1)
        BY <3>4
    <3>6. QED
        BY <2>2, <3>5
  <2>4. \E n \in F : \A m \in F : m <= n
      BY <2>2, <2>3
  <2>5. QED
      BY <1>2, <2>4 DEF Highest
<1>3. QED
    BY <1>1, <1>2

\* There is a value at each position.
LEMMA NthType ==
    ASSUME NEW H \in Nat, NEW values \in [1 .. H -> Nat], NEW k \in 1 .. H
    PROVE  LET v == Nth(values, k)
           IN  /\ v \in Nat
               /\ Cardinality({i \in 1 .. H : values[i] < v}) < k
               /\ Cardinality({i \in 1 .. H : values[i] <= v}) >= k
<1> DEFINE lower(v) == {i \in 1 .. H : values[i] < v}
           upTo(v) == {i \in 1 .. H : values[i] <= v}
           S == {v \in Nat : Cardinality(upTo(v)) >= k}
<1>1. \A v : /\ IsFiniteSet(lower(v)) /\ Cardinality(lower(v)) \in Nat
             /\ IsFiniteSet(upTo(v)) /\ Cardinality(upTo(v)) \in Nat
  <2>1. IsFiniteSet(1 .. H)
      BY FS_Interval
  <2>2. \A v : lower(v) \in SUBSET (1 .. H) /\ upTo(v) \in SUBSET (1 .. H)
      OBVIOUS
  <2> HIDE DEF lower, upTo
  <2>3. QED
      BY <2>1, <2>2, FS_Subset, FS_CardinalityType
<1>2. S # {}
  <2> DEFINE F == {values[i] : i \in 1 .. H}
  <2>1. F \in SUBSET Nat /\ IsFiniteSet(F)
    <3>1. values \in Surjection(1 .. H, F)
        BY DEF Surjection
    <3>2. IsFiniteSet(F)
        BY <3>1, FS_Interval, FS_Surjection
    <3>3. QED
        BY <3>2
  <2>2. PICK b \in Nat : \A x \in F : x <= b
      BY <2>1, FiniteIsBounded
  <2>3. upTo(b) = 1 .. H
      BY <2>2
  <2>4. Cardinality(1 .. H) = H
      BY FS_Interval
  <2>5. Cardinality(upTo(b)) >= k
    <3>1. Cardinality(upTo(b)) = H
        BY <2>3, <2>4, Zenon
    <3>2. H >= k
        OBVIOUS
    <3>3. QED
        BY <3>1, <3>2, Zenon
  <2>6. QED
      BY <2>5
<1>3. PICK v \in S : \A w \in S : v <= w
    BY <1>2, FirstIsLeast
<1>4. v \in Nat /\ Cardinality(upTo(v)) >= k
    BY <1>3
<1>5. Cardinality(lower(v)) < k
  <2>1. CASE v = 0
    <3>1. lower(v) = {}
        BY <2>1
    <3>2. Cardinality(lower(v)) = 0
        BY <3>1, FS_EmptySet, Zenon
    <3>3. 0 < k
        OBVIOUS
    <3>4. QED
        BY <3>2, <3>3, Zenon
  <2>2. CASE v # 0
    <3>1. v - 1 \in Nat /\ ~(v <= v - 1)
        BY <1>4, <2>2
    <3>2. lower(v) = upTo(v - 1)
        BY <1>4, <3>1
    <3>3. ~(Cardinality(upTo(v - 1)) >= k)
        BY <1>3, <3>1
    <3> HIDE DEF lower, upTo
    <3>4. Cardinality(lower(v)) \in Nat
        BY <1>1
    <3>5. QED
        BY <3>2, <3>3, <3>4
  <2>3. QED
      BY <2>1, <2>2
<1>6. v \in Range(values)
  <2>1. lower(v) # upTo(v)
    <3> HIDE DEF lower, upTo
    <3>1. QED
        BY <1>1, <1>4, <1>5
  <2>2. PICK i \in 1 .. H : values[i] = v
      BY <1>4, <2>1
  <2>3. QED
      BY <2>2 DEF Range
<1>7. DOMAIN values = 1 .. H /\ \A w \in Range(values) : w \in Nat
    BY DEF Range
<1>8. Nth(values, k) = CHOOSE w \in Range(values) :
                           Cardinality(lower(w)) < k /\ Cardinality(upTo(w)) >= k
    BY <1>7 DEF Nth
<1> HIDE DEF lower, upTo
<1>9. /\ Nth(values, k) \in Range(values)
      /\ Cardinality(lower(Nth(values, k))) < k /\ Cardinality(upTo(Nth(values, k))) >= k
    BY <1>4, <1>5, <1>6, <1>8
<1>10. QED
    BY <1>7, <1>9 DEF lower, upTo

\* Of three figures or more at least two are not below the one after the middle,
\* and the median is not above it.
LEMMA MedianIsReached ==
    ASSUME NEW H \in Nat, H >= 3, NEW values \in [1 .. H -> Nat], NEW bad \in 1 .. H
    PROVE  /\ TwiceMedian(values) \in Nat
           /\ \E r \in (1 .. H) \ {bad} : TwiceMedian(values) <= 2 * values[r]
<1> DEFINE mid == H \div 2
           u == Nth(values, mid)
           w == Nth(values, mid + 1)
           lower(v) == {i \in 1 .. H : values[i] < v}
           upTo(v) == {i \in 1 .. H : values[i] <= v}
<1>1. mid \in 1 .. H /\ mid + 1 \in 1 .. H /\ H - 1 >= mid + 1 /\ mid \in Nat
    OBVIOUS
<1>2. Len(values) = H
    OBVIOUS
<1>3. u \in Nat /\ Cardinality(lower(u)) < mid
    BY <1>1, NthType
<1>4. w \in Nat /\ Cardinality(lower(w)) < mid + 1 /\ Cardinality(upTo(w)) >= mid + 1
    BY <1>1, NthType
<1>5. \A v : IsFiniteSet(lower(v)) /\ Cardinality(lower(v)) \in Nat
  <2>1. IsFiniteSet(1 .. H) /\ \A v : lower(v) \in SUBSET (1 .. H)
      BY FS_Interval
  <2> HIDE DEF lower
  <2>2. QED
      BY <2>1, FS_Subset, FS_CardinalityType
<1>6. u <= w
  <2>1. SUFFICES ASSUME w < u PROVE FALSE
      BY <1>3, <1>4
  <2>2. upTo(w) \in SUBSET lower(u)
      BY <1>3, <1>4, <2>1
  <2> HIDE DEF lower, upTo, mid, u, w
  <2>3. Cardinality(upTo(w)) <= Cardinality(lower(u)) /\ IsFiniteSet(upTo(w))
      BY <1>5, <2>2, FS_Subset
  <2>4. Cardinality(upTo(w)) \in Nat
      BY <2>3, FS_CardinalityType
  <2>5. QED
      BY <1>1, <1>3, <1>4, <1>5, <2>3, <2>4
<1>7. \E r \in (1 .. H) \ {bad} : w <= values[r]
  <2>1. SUFFICES ASSUME \A r \in (1 .. H) \ {bad} : ~(w <= values[r]) PROVE FALSE
      OBVIOUS
  <2>2. (1 .. H) \ {bad} \in SUBSET lower(w)
      BY <1>4, <2>1
  <2>3. Cardinality((1 .. H) \ {bad}) = H - 1
    <3>1. IsFiniteSet(1 .. H) /\ Cardinality(1 .. H) = H
        BY FS_Interval
    <3>2. QED
        BY <3>1, FS_RemoveElement
  <2> HIDE DEF lower, mid, w
  <2>4. Cardinality((1 .. H) \ {bad}) <= Cardinality(lower(w))
      BY <1>5, <2>2, FS_Subset
  <2>5. QED
      BY <1>1, <1>4, <1>5, <2>3, <2>4
<1>8. TwiceMedian(values) = 2 * w \/ TwiceMedian(values) = u + w
    BY <1>2 DEF TwiceMedian
<1> HIDE DEF u, w
<1>9. TwiceMedian(values) \in Nat /\ TwiceMedian(values) <= 2 * w
    BY <1>3, <1>4, <1>6, <1>8
<1>10. QED
    BY <1>4, <1>7, <1>9

\* What stands out from more stands out from less.
LEMMA ExceedsLess ==
    ASSUME NEW value \in Nat, NEW more \in Nat, NEW less \in Nat, less <= more, NEW floor \in Int,
           Factor \in Nat, Exceeds(value, more, floor)
    PROVE  Exceeds(value, less, floor)
<1>1. 2 * value - more >= 2 * floor /\ (more = 0 \/ 2 * value > more * Factor)
    BY DEF Exceeds
<1>2. 2 * value - less >= 2 * floor
    BY <1>1
<1>3. less = 0 \/ 2 * value > less * Factor
  <2>1. (more - less) * Factor >= 0
    <3>1. more - less \in Nat
        OBVIOUS
    <3>2. QED
        BY <3>1
  <2>2. (more - less) * Factor = more * Factor - less * Factor
      OBVIOUS
  <2>3. more * Factor \in Int /\ less * Factor \in Int
      OBVIOUS
  <2>4. QED
      BY <1>1, <2>1, <2>2, <2>3
<1>4. QED
    BY <1>2, <1>3 DEF Exceeds

\* The entries of a log, of which the ledger's figures are naturals.
Figured(entries) ==
    /\ \E S : entries \in Seq(S)
    /\ \A i \in DOMAIN entries : entries[i].usage.bytes \in Nat /\ entries[i].usage.usd \in Nat

\* Every metric of a run is a natural.
LEMMA ProfileType ==
    ASSUME NEW entries, Figured(entries), NEW run, NEW metric \in Metrics
    PROVE  Profile(entries, run)[metric] \in Nat
<1> DEFINE own == {i \in DOMAIN entries : entries[i].run = run /\ entries[i].tool \notin Bookkeeping}
           denied == {i \in own : entries[i].effect = "deny"}
           bytes == {entries[i].usage.bytes : i \in own}
           usd == {entries[i].usage.usd : i \in own}
           p == Profile(entries, run)
<1>1. IsFiniteSet(DOMAIN entries)
  <2>1. PICK S : entries \in Seq(S)
      BY DEF Figured
  <2>2. DOMAIN entries = 1 .. Len(entries) /\ Len(entries) \in Nat
      BY <2>1
  <2>3. QED
      BY <2>2, FS_Interval
<1>2. own \in SUBSET DOMAIN entries /\ denied \in SUBSET DOMAIN entries
    OBVIOUS
<1>3. bytes \in SUBSET Nat /\ usd \in SUBSET Nat
    BY DEF Figured
<1>4. /\ [i \in own |-> entries[i].usage.bytes] \in Surjection(own, bytes)
      /\ [i \in own |-> entries[i].usage.usd] \in Surjection(own, usd)
    BY DEF Surjection
<1>5. p.calls = Cardinality(own) /\ p.denied = Cardinality(denied)
      /\ p.bytes = Highest(bytes) /\ p.usd = Highest(usd)
    BY DEF Profile
<1> HIDE DEF own, denied, bytes, usd, p
<1>6. IsFiniteSet(own) /\ Cardinality(own) \in Nat /\ Cardinality(denied) \in Nat
    BY <1>1, <1>2, FS_Subset, FS_CardinalityType
<1>7. IsFiniteSet(bytes) /\ IsFiniteSet(usd)
    BY <1>4, <1>6, FS_Surjection
<1>8. Highest(bytes) \in Nat /\ Highest(usd) \in Nat
    BY <1>3, <1>7, HighestIsNat
<1>9. p.calls \in Nat /\ p.denied \in Nat /\ p.bytes \in Nat /\ p.usd \in Nat
    BY <1>5, <1>6, <1>8, Zenon
<1>10. QED
    BY <1>9 DEF Metrics, p

\* The runs of a log have a number.
LEMMA RunsType ==
    ASSUME NEW entries, Figured(entries)
    PROVE  \E n \in Nat : DOMAIN Runs(entries) = 1 .. n /\ Len(Runs(entries)) = n
<1> DEFINE firsts == {i \in DOMAIN entries : \A j \in 1 .. i - 1 : entries[j].run # entries[i].run}
           n == Cardinality(firsts)
<1>1. n \in Nat
  <2>1. PICK S : entries \in Seq(S)
      BY DEF Figured
  <2>2. DOMAIN entries = 1 .. Len(entries) /\ Len(entries) \in Nat
      BY <2>1
  <2>3. IsFiniteSet(DOMAIN entries)
      BY <2>2, FS_Interval
  <2>4. firsts \in SUBSET DOMAIN entries
      OBVIOUS
  <2> HIDE DEF firsts
  <2>5. QED
      BY <2>3, <2>4, FS_Subset, FS_CardinalityType
<1>2. Runs(entries) = [r \in 1 .. n |-> entries[Nth([i \in firsts |-> i], r)].run]
    BY DEF Runs
<1> HIDE DEF n, firsts
<1>3. QED
    BY <1>1, <1>2

\* What stands out from all the earlier runs but one is reported: the median of
\* three figures or more is reached by two of them.
THEOREM OutliersAreReported ==
    ASSUME task = "drift" => Figured(subject),
           \A metric \in Metrics : Floor[metric] \in Int,
           Factor \in Nat, MinHistory \in Nat, MinHistory >= 3
    PROVE  OneBadRunHidesNothing
<1> SUFFICES ASSUME task = "drift", Len(Runs(subject)) > MinHistory
             PROVE  OneBadRunHidesNothing
    BY DEF OneBadRunHidesNothing
<1> DEFINE runs == ProfileRuns(subject)
           n == Len(runs)
           history == SubSeq(runs, 1, n - 1)
<1>1. Figured(subject)
    OBVIOUS
<1>2. PICK k \in Nat : DOMAIN Runs(subject) = 1 .. k /\ Len(Runs(subject)) = k
    BY <1>1, RunsType
<1>3. runs = [r \in 1 .. k |-> Profile(subject, Runs(subject)[r])]
    BY <1>2 DEF ProfileRuns
<1>4. n = k /\ DOMAIN runs = 1 .. k
    BY <1>2, <1>3
<1>5. n - 1 \in Nat /\ n - 1 >= 3 /\ n - 1 >= MinHistory /\ n \in Nat /\ n \in 1 .. k
    BY <1>2, <1>4
<1> HIDE DEF n
<1>6. \A r \in 1 .. k : \A metric \in Metrics : runs[r][metric] \in Nat
    BY <1>1, <1>3, ProfileType
<1>7. /\ Len(history) = n - 1 /\ DOMAIN history = 1 .. n - 1
      /\ \A r \in 1 .. n - 1 : history[r] = runs[r]
  <2> DEFINE P == {runs[r] : r \in 1 .. k}
  <2>1. runs \in Seq(P) /\ Len(runs) = k
      BY <1>2, <1>3
  <2> HIDE DEF runs, P
  <2>2. 1 \in 1 .. k + 1 /\ n - 1 \in 0 .. k
      BY <1>4, <1>5
  <2>3. SubSeq(runs, 1, n - 1) \in Seq(P)
        /\ Len(SubSeq(runs, 1, n - 1)) = n - 1
        /\ \A r \in 1 .. n - 1 : SubSeq(runs, 1, n - 1)[r] = runs[r]
      BY <1>5, <2>1, <2>2, SubSeqProperties
  <2>4. QED
      BY <1>5, <2>3
<1> HIDE DEF runs, history
<1>8. ASSUME NEW bad \in 1 .. n - 1, NEW metric \in Metrics,
             \A r \in (1 .. n - 1) \ {bad} :
                 Exceeds(runs[n][metric], 2 * runs[r][metric], Floor[metric])
      PROVE  <<"metric", metric>> \in DetectDrift(subject, n).findings
  <2> DEFINE values == [r \in DOMAIN history |-> history[r][metric]]
             twice == TwiceMedian(values)
  <2>1. \A r \in 1 .. n - 1 : r \in 1 .. k
      BY <1>4, <1>5
  <2>2. values \in [1 .. n - 1 -> Nat] /\ \A r \in 1 .. n - 1 : values[r] = runs[r][metric]
      BY <1>6, <1>7, <2>1
  <2> HIDE DEF values
  <2>3. twice \in Nat /\ \E r \in (1 .. n - 1) \ {bad} : twice <= 2 * values[r]
      BY <1>5, <2>2, MedianIsReached
  <2> HIDE DEF twice
  <2>4. PICK r \in (1 .. n - 1) \ {bad} : twice <= 2 * values[r]
      BY <2>3
  <2>5. values[r] = runs[r][metric] /\ values[r] \in Nat /\ 2 * values[r] \in Nat
      BY <2>2, <2>4
  <2>6. Exceeds(runs[n][metric], 2 * values[r], Floor[metric])
      BY <1>8, <2>4, <2>5
  <2>7. runs[n][metric] \in Nat /\ Floor[metric] \in Int
      BY <1>5, <1>6
  <2>8. Exceeds(runs[n][metric], twice, Floor[metric])
      BY <2>3, <2>4, <2>5, <2>6, <2>7, ExceedsLess
  <2>9. QED
      BY <1>5, <1>7, <2>8 DEF DetectDrift, values, twice, history, runs
<1>9. QED
    BY <1>8 DEF OneBadRunHidesNothing, n, runs

=============================================================================
