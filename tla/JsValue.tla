------------------------------ MODULE JsValue -------------------------------
(***************************************************************************)
(* JavaScript values as the library meets them: in a policy document, in   *)
(* the arguments of a call, in the JSON of a log line.  A value is a       *)
(* record of one field, named for what the value is, so that values of     *)
(* different kinds are different.                                          *)
(***************************************************************************)
EXTENDS Integers, Sequences, SequencesExt

Undefined == [undefined |-> TRUE]
Missing == [missing |-> TRUE]       \* MISSING: there is no such property
Null == [null |-> TRUE]
NaN == [nan |-> TRUE]
Hole == [hole |-> TRUE]             \* an index a sparse array does not have

Bool(b) == [boolean |-> b]
Num(n) == [number |-> n]
Str(s) == [string |-> s]            \* the sequence of its characters or tokens
Word(w) == Str(<<w>>)
Arr(s) == [array |-> s]
Obj(f) == [object |-> f]
Date(iso) == [date |-> iso]         \* an object with a toJSON method
Boxed(v) == [boxed |-> v]           \* new Number(1), new String("a")

Tag(v) == CHOOSE tag \in DOMAIN v : TRUE

\* typeof
TypeOf(v) ==
    CASE Tag(v) \in {"null", "array", "object", "date", "boxed"} -> "object"
      [] Tag(v) \in {"number", "nan"} -> "number"
      [] OTHER -> Tag(v)

\* The own enumerable properties of an object, and one of them, undefined when
\* there is no such property.
Own(v) == IF Tag(v) = "object" THEN v.object ELSE <<>>

Member(v, key) == IF key \in DOMAIN Own(v) THEN Own(v)[key] ELSE Undefined

=============================================================================
