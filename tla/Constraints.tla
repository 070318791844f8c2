---------------------------- MODULE Constraints -----------------------------
(***************************************************************************)
(* Argument constraints: js/src/policy/constraints.ts.  A constraint is an *)
(* object from the keys its author set to their settings.  The strings   *)
(* of arguments are sequences of characters; what a regular expression     *)
(* matches and the host of a URL are tables.                               *)
(***************************************************************************)
EXTENDS Match, FiniteSets

CONSTANTS
    Language,   \* the strings each regular expression matches
    HostOf,     \* the labels of the host of each string that is a URL
    DeepEqual(_, _)     \* deepEqual(), which is SameStructure of Equality

StringKeys == {"matches", "startsWith", "excludes", "urlHosts"}
NumberKeys == {"min", "max"}
LengthKeys == {"minLength", "maxLength"}
Types == {"string", "number", "boolean", "object", "array"}

IsType(value, type) ==
    CASE type = "array"  -> Tag(value) = "array"
      [] type = "object" -> TypeOf(value) = "object" /\ Tag(value) \notin {"null", "array"}
      [] OTHER           -> TypeOf(value) = type

HasLength(value) == Tag(value) \in {"string", "array"}

LengthOf(value) == IF Tag(value) = "string" THEN Len(value.string) ELSE Len(value.array)

\* A comparison with NaN is false.
Below(a, b) == Tag(a) = "number" /\ Tag(b) = "number" /\ a.number < b.number

OneOfMembers(setting, value) ==
    \E i \in DOMAIN setting.array : DeepEqual(setting.array[i], value)

\* An entry that starts with a dot stands for a domain and all below it.
HostAllowed(host, allowed) ==
    IF Head(allowed) = "." THEN IsSuffix(Tail(allowed), host) ELSE host = allowed

\* A key for strings, numbers or lengths is violated by any other value.
WrongType(key, value) ==
    \/ key \in StringKeys /\ Tag(value) # "string"
    \/ key \in NumberKeys /\ TypeOf(value) # "number"
    \/ key \in LengthKeys /\ ~HasLength(value)

\* What a value of the right type breaks.
Breaks(key, setting, value) ==
    CASE key = "oneOf"      -> ~OneOfMembers(setting, value)
      [] key = "noneOf"     -> OneOfMembers(setting, value)
      [] key = "matches"    -> value.string \notin Language[setting.string]
      [] key = "startsWith" -> ~\E i \in DOMAIN setting.array : IsPrefix(setting.array[i].string, value.string)
      [] key = "excludes"   ->
            \E i \in DOMAIN setting.array : \E n \in 0 .. Len(value.string) :
                IsPrefix(setting.array[i].string, SubSeq(value.string, n + 1, Len(value.string)))
      [] key = "urlHosts"   ->
            ~\E i \in DOMAIN setting.array :
                 /\ value.string \in DOMAIN HostOf
                 /\ HostAllowed(HostOf[value.string], setting.array[i].string)
      [] key = "min"        -> Below(value, setting)
      [] key = "max"        -> Below(setting, value)
      [] key = "maxLength"  -> Below(setting, Num(LengthOf(value)))
      [] key = "minLength"  -> Below(Num(LengthOf(value)), setting)
      [] OTHER -> FALSE

\* Mutant: a key for another type is passed over.
ViolatesOwnType(key, setting, value) == ~WrongType(key, value) /\ Breaks(key, setting, value)

Violates(key, setting, value) == WrongType(key, value) \/ Breaks(key, setting, value)

\* checkOne(): the keys that the value violates, or why it was not looked at.
CheckOne(c, value) ==
    IF value \in {Missing, Undefined}
    THEN IF Member(c, "optional") = Bool(TRUE) THEN {} ELSE {"required"}
    ELSE IF \E type \in Types : Member(c, "type") = Word(type) /\ ~IsType(value, type) THEN {"type"}
    ELSE {key \in DOMAIN Own(c) : Own(c)[key] # Undefined /\ Violates(key, Own(c)[key], value)}

\* checkArgs(): every constraint of a rule against the argument it names.
CheckArgs(when, args) ==
    UNION {CheckOne(when[path], ResolvePath(args, path)) : path \in DOMAIN when}

=============================================================================
