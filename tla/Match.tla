------------------------------- MODULE Match --------------------------------
(***************************************************************************)
(* Tool-name globs and argument paths: js/src/policy/match.ts.  A pattern  *)
(* and a name are sequences of characters, a path is the sequence of its   *)
(* segments.                                                               *)
(***************************************************************************)
EXTENDS JsValue

CONSTANT NumberOf   \* Number(segment) for the segments that are numerals

Separators == {".", "/"}

\* globToRegExp(): two stars in a row are one token.
Tokens(pattern) ==
    LET n == Len(pattern)
        from[i \in 1 .. n + 2] ==
            IF i > n THEN <<>>
            ELSE IF pattern[i] = "*" /\ i < n /\ pattern[i + 1] = "*"
            THEN <<"**">> \o from[i + 2]
            ELSE <<pattern[i]>> \o from[i + 1]
    IN  from[1]

\* Mutant: a star passes separators too.
MatchesAnywhere(pattern, name) ==
    LET tokens == Tokens(pattern)
        match[at \in (1 .. Len(tokens) + 1) \X (1 .. Len(name) + 1)] ==
            LET i == at[1]
                j == at[2]
            IN  IF i > Len(tokens) THEN j > Len(name)
                ELSE IF tokens[i] \in {"*", "**"}
                THEN \/ match[<<i + 1, j>>]
                     \/ j <= Len(name) /\ match[<<i, j + 1>>]
                ELSE j <= Len(name) /\ name[j] = tokens[i] /\ match[<<i + 1, j + 1>>]
    IN  match[<<1, 1>>]

\* The whole name matches: a star takes any run of characters that are no
\* separators, two stars any run at all.
MatchesGlob(pattern, name) ==
    LET tokens == Tokens(pattern)
        takes(token, char) == token = "**" \/ (token = "*" /\ char \notin Separators)
        match[at \in (1 .. Len(tokens) + 1) \X (1 .. Len(name) + 1)] ==
            LET i == at[1]
                j == at[2]
            IN  IF i > Len(tokens) THEN j > Len(name)
                ELSE IF tokens[i] \in {"*", "**"}
                THEN \/ match[<<i + 1, j>>]
                     \/ j <= Len(name) /\ takes(tokens[i], name[j]) /\ match[<<i, j + 1>>]
                ELSE j <= Len(name) /\ name[j] = tokens[i] /\ match[<<i + 1, j + 1>>]
    IN  match[<<1, 1>>]

MatchesAnyGlob(patterns, name) == \E i \in DOMAIN patterns : MatchesGlob(patterns[i], name)

\* A member of what a path has reached so far; numerals index into arrays.
Step(cursor, segment) ==
    CASE Tag(cursor) = "array" ->
           IF segment \in DOMAIN NumberOf /\ NumberOf[segment] \in 0 .. Len(cursor.array) - 1
           THEN LET member == cursor.array[NumberOf[segment] + 1]
                IN  IF member = Hole THEN Undefined ELSE member
           ELSE Missing
      [] Tag(cursor) = "object" ->
           IF segment \in DOMAIN cursor.object THEN cursor.object[segment] ELSE Missing
      [] OTHER -> Missing

ResolvePath(args, path) == FoldLeft(Step, args, path)

=============================================================================
