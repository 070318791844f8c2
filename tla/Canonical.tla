----------------------------- MODULE Canonical ------------------------------
(***************************************************************************)
(* What becomes of a call's arguments in the audit log                     *)
(* (js/src/audit/chain.ts): the configured paths are redacted, the entry   *)
(* is hashed over its canonical form, and it is written as JSON, which a   *)
(* verifier reads back.  A canonical form stands for its text, with the    *)
(* keys of an object in no order.                                          *)
(***************************************************************************)
EXTENDS Match

CONSTANT IndexOf    \* the property keys that are indices of an array, as numbers

Empty == [text |-> ""]      \* what join() makes of a hole
Redaction == Word("[redacted]")

\* The keys that JSON keeps: undefined members are dropped.
Kept(members) == {key \in DOMAIN members : members[key] # Undefined}

\* Mutant: an object with a toJSON method is read structurally.
NoToJSON(v) == Obj(<<>>)

ToJSON(v) == v.date

\* canonicalize(): a Date calls its toJSON, a boxed number has no members, and
\* map() leaves the holes of an array.
RECURSIVE Canonicalize(_)
Canonicalize(v) ==
    CASE Tag(v) \in {"undefined", "nan", "null"} -> Null
      [] Tag(v) = "date"  -> ToJSON(v)
      [] Tag(v) = "boxed" -> Obj(<<>>)
      [] Tag(v) = "array" ->
            Arr([i \in DOMAIN v.array |-> IF v.array[i] = Hole THEN Empty ELSE Canonicalize(v.array[i])])
      [] Tag(v) = "object" ->
            Obj([key \in Kept(v.object) |-> Canonicalize(v.object[key])])
      [] OTHER -> v

\* JSON.parse(JSON.stringify(v)), of a value that is not undefined itself.
RECURSIVE Reread(_)
Reread(v) ==
    CASE Tag(v) \in {"undefined", "nan", "null", "hole"} -> Null
      [] Tag(v) = "date"   -> v.date
      [] Tag(v) = "boxed"  -> v.boxed
      [] Tag(v) = "array"  -> Arr([i \in DOMAIN v.array |-> Reread(v.array[i])])
      [] Tag(v) = "object" -> Obj([key \in Kept(v.object) |-> Reread(v.object[key])])
      [] OTHER -> v

-----------------------------------------------------------------------------
\* Mutant: what the first segment reaches is redacted as a whole.
RedactTop(v, path) ==
    IF Head(path) \in DOMAIN Own(v) THEN Obj([v.object EXCEPT ![Head(path)] = Redaction]) ELSE v

\* The value at one path, replaced wherever every segment is a property.
RECURSIVE RedactPath(_, _)
RedactPath(v, path) ==
    LET key == Head(path)
        within(member) == IF Len(path) = 1 THEN Redaction ELSE RedactPath(member, Tail(path))
    IN  CASE Tag(v) = "object" /\ key \in DOMAIN Own(v) ->
               Obj([v.object EXCEPT ![key] = within(@)])
          [] Tag(v) = "array" /\ key \in DOMAIN IndexOf ->
               LET i == IndexOf[key] + 1
               IN  IF i \in DOMAIN v.array /\ v.array[i] # Hole
                   THEN Arr([v.array EXCEPT ![i] = within(@)])
                   ELSE v
          [] OTHER -> v

\* redactArgs(): a path that ends in an empty segment is skipped.
RedactArgs(args, paths) ==
    FoldLeft(LAMBDA v, path : IF Last(path) = "" THEN v ELSE RedactPath(v, path), args, paths)

=============================================================================
