----------------------------- MODULE ScenePaths -----------------------------
(***************************************************************************)
(* The text of a ScenePath, which is how a path leaves the process         *)
(* (apps/kyoso_agent/src/handle.rs): how it is written and how it is read. *)
(* A text is a sequence of characters; a reader gives a set with the one   *)
(* thing it read, or the empty set where the code gives an error.          *)
(***************************************************************************)
EXTENDS Integers, Sequences, SequencesExt, FiniteSetsExt

CONSTANTS SpokenPaths,  \* the paths written
          HeardTexts    \* the texts read, as they come in from outside

VARIABLES
    spoken,  \* the path that was read, or is to be written
    text,
    written, \* history: the path that text was written from
    reading  \* "write" and "read", what is next; "done", "refused"; "idle" where
             \* nobody does either

textVars == <<spoken, text, written, reading>>

-----------------------------------------------------------------------------
write_escaped(s, escape) ==
    FlattenSeq([i \in DOMAIN s |-> IF s[i] \in escape THEN <<"\\", s[i]>> ELSE <<s[i]>>])

Digit == <<"0", "1", "2", "3", "4", "5", "6", "7", "8", "9">>

Decimal(n) ==
    LET d[k \in 0..n] == IF k < 10 THEN <<Digit[k + 1]>> ELSE Append(d[k \div 10], Digit[(k % 10) + 1])
    IN  d[n]

\* Display of a PathPart: a name, with its index unless that is 0, or a key.
PartText(part) ==
    IF part.kind = "Named"
    THEN write_escaped(part.name, {"/", "#", "[", "]", "\\"})
         \o IF part.index = 0 THEN <<>> ELSE <<"#">> \o Decimal(part.index)
    ELSE <<"[">> \o write_escaped(part.key, {"]", "\\"}) \o <<"]">>

\* Display of a ScenePath.
PathText(path) ==
    IF path = <<>> THEN <<"/">>
    ELSE FlattenSeq([i \in DOMAIN path |-> <<"/">> \o PartText(path[i])])

-----------------------------------------------------------------------------
\* The places that a backslash before them escapes, the end of s among them.
Escaped(s) ==
    LET esc[i \in 1..(Len(s) + 1)] == i > 1 /\ s[i - 1] = "\\" /\ ~esc[i - 1]
    IN  {i \in 1..(Len(s) + 1) : esc[i]}

TrailingBackslash(s) == Len(s) + 1 \in Escaped(s)

Unescaped(s, c) == {i \in DOMAIN s : s[i] = c} \ Escaped(s)

unescape(s) ==
    LET kept == SelectSeq([i \in DOMAIN s |-> i], LAMBDA i : i \notin Unescaped(s, "\\"))
    IN  IF TrailingBackslash(s) THEN {} ELSE {[j \in DOMAIN kept |-> s[kept[j]]]}

split_unescaped(s) ==
    LET cuts == SetToSortSeq(Unescaped(s, "/") \cup {0, Len(s) + 1}, <)
    IN  [i \in 1..(Len(cuts) - 1) |-> SubSeq(s, cuts[i] + 1, cuts[i + 1] - 1)]

\* A number of 16 bits, in digits, perhaps after a plus.
ParsedIndex(s) ==
    LET digits == IF s # <<>> /\ s[1] = "+" THEN Tail(s) ELSE s
        value == FoldLeft(LAMBDA n, c : 10 * n + (CHOOSE d \in DOMAIN Digit : Digit[d] = c) - 1, 0, digits)
    IN  IF digits # <<>> /\ ToSet(digits) \subseteq ToSet(Digit) THEN {n \in {value} : n < 2^16}
        ELSE {}

ParsedName(s) ==
    LET hashes == Unescaped(s, "#")
        name == IF hashes = {} THEN s ELSE SubSeq(s, 1, Min(hashes) - 1)
        index == IF hashes = {} THEN {0} ELSE ParsedIndex(SubSeq(s, Min(hashes) + 1, Len(s)))
    IN  {[kind |-> "Named", name |-> n, index |-> i] : n \in unescape(name), i \in index}

ParsedKey(s) ==
    IF Len(s) < 2 \/ Last(s) # "]" THEN {}
    ELSE {[kind |-> "Ordered", key |-> k] : k \in unescape(SubSeq(s, 2, Len(s) - 1))}

\* PathPart::from_str.
ParsedPart(s) == IF s = <<>> THEN {} ELSE IF s[1] = "[" THEN ParsedKey(s) ELSE ParsedName(s)

\* ScenePath::from_str.
ParsedPath(s) ==
    IF s \in {<<>>, <<"/">>} THEN {<<>>}
    ELSE IF s[1] # "/" \/ TrailingBackslash(s) THEN {}
    ELSE LET segments == split_unescaped(Tail(s))
         IN  IF \E i \in DOMAIN segments : ParsedPart(segments[i]) = {} THEN {}
             ELSE {[i \in DOMAIN segments |-> CHOOSE part \in ParsedPart(segments[i]) : TRUE]}

-----------------------------------------------------------------------------
TextIdle == spoken = <<>> /\ text = <<>> /\ written = {} /\ reading = "idle"

\* A path of the scene, or a text from outside.
TextInit ==
    /\ written = {}
    /\ \/ spoken \in SpokenPaths /\ text = <<>> /\ reading = "write"
       \/ text \in HeardTexts /\ spoken = <<>> /\ reading = "read"

WriteText ==
    /\ reading = "write" /\ reading' = "read"
    /\ text' = PathText(spoken) /\ written' = {spoken}
    /\ UNCHANGED spoken

ReadText ==
    /\ reading = "read"
    /\ LET parsed == ParsedPath(text)
       IN  IF parsed = {} THEN reading' = "refused" /\ UNCHANGED spoken
           ELSE /\ spoken' \in parsed
                /\ reading' = IF written = {} THEN "write" ELSE "done"
    /\ UNCHANGED <<text, written>>

TextNext == WriteText \/ ReadText

-----------------------------------------------------------------------------
\* Only a key is written with slashes as they are, and an empty name, which no
\* node has, leaves nothing of its part.
Readable(path) ==
    \A i \in DOMAIN path :
        IF path[i].kind = "Ordered" THEN "/" \notin ToSet(path[i].key)
        ELSE path[i].name # <<>> \/ path[i].index # 0

\* A path that was written is read as the same path, whatever characters its
\* names and keys are made of, and so is a path that came in as text; but not
\* one with a slash in a key, or with an empty name and no index.  (handle.rs,
\* "FromStr is the inverse".)
TextsReadBack ==
    written # {} /\ reading \in {"done", "refused"} =>
        \A path \in written : Readable(path) <=> (reading = "done" /\ spoken = path)
=============================================================================
