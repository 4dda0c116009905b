------------------------------ MODULE OrderKeys ------------------------------
(***************************************************************************)
(* The order keys of siblings (OrderKey, kyoso_graph/src/tree.rs): a key   *)
(* is a string compared byte by byte, and a sibling is placed by a key     *)
(* made from those of its two neighbours.  A byte is its place in the      *)
(* alphabet: 'a' is 1, 'z' is 26; the byte below 'a' is 0, above 'z' 27.   *)
(***************************************************************************)
EXTENDS Integers, Sequences, SequencesExt

CONSTANT MaxSiblings  \* bound: the keys one parent's children are given

VARIABLES
    keys,      \* the keys of one parent's children, in their order
    placing    \* "running", "panicked"; "idle" where nobody places anything

keyVars == <<keys, placing>>

NoKey == <<>>

first == <<14>>  \* "n"

\* The order of strings.
Before(k, l) ==
    \/ IsStrictPrefix(k, l)
    \/ \E i \in DOMAIN k \cap DOMAIN l : k[i] < l[i] /\ \A j \in 1..(i - 1) : k[j] = l[j]

\* u8::midpoint rounds down, on bytes of which 'a' is 97.
Mid(a, b) == (96 + a + 96 + b) \div 2 - 96

\* OrderKey::before: the first byte that is not an 'a' is halved.
Lowers(r) == {i \in DOMAIN r : r[i] > 1}
before(r) == LET i == CHOOSE j \in Lowers(r) : \A h \in Lowers(r) : j <= h
             IN  SubSeq(r, 1, i - 1) \o <<Mid(1, r[i])>>

ByteOr(k, i, other) == IF i \in DOMAIN k THEN k[i] ELSE other

\* Mutant: two bytes with nothing between them are halved.
GapsTouching(l, r) == {i \in 1..Len(l \o r) : ByteOr(r, i, 27) > ByteOr(l, i, 0)}

\* The places where a byte fits between the keys; beyond its end a left key
\* has the byte below 'a', a right one the byte above 'z'.
Gaps(l, r) == {i \in 1..Len(l \o r) : ByteOr(r, i, 27) > ByteOr(l, i, 0) + 1}

\* OrderKey::midpoint: the left key up to the first gap, and a byte in it; with
\* no gap in the length of the longer key, the left key and an 'n'.
midpoint(l, r) ==
    LET longer == IF Len(l) > Len(r) THEN Len(l) ELSE Len(r)
        gaps == Gaps(l, r) \cap 1..longer
        stop == IF gaps = {} THEN longer + 1 ELSE CHOOSE i \in gaps : \A j \in gaps : i <= j
    IN  [i \in 1..(stop - 1) |-> ByteOr(l, i, 0)]
        \o <<IF gaps = {} THEN 14 ELSE Mid(ByteOr(l, stop, 0), ByteOr(r, stop, 27))>>

between(l, r) ==
    IF l = NoKey /\ r = NoKey THEN first
    ELSE IF r = NoKey THEN l \o first
    ELSE IF l = NoKey THEN before(r) ELSE midpoint(l, r)

-----------------------------------------------------------------------------
KeysIdle == keys = <<>> /\ placing = "idle"

KeysInit == keys = <<>> /\ placing = "running"

\* A child is placed at any place among its siblings; in front of a key with
\* nothing below it the code panics.
PlaceAt(i) ==
    LET l == ByteOr(keys, i - 1, NoKey)
        r == ByteOr(keys, i, NoKey)
    IN  /\ placing = "running" /\ Len(keys) < MaxSiblings
        /\ \/ /\ l = NoKey /\ r # NoKey /\ Lowers(r) = {}
              /\ placing' = "panicked" /\ UNCHANGED keys
           \/ /\ l # NoKey \/ r = NoKey \/ Lowers(r) # {}
              /\ keys' = InsertAt(keys, i, between(l, r)) /\ UNCHANGED placing

KeysNext == \E i \in 1..(Len(keys) + 1) : PlaceAt(i)

-----------------------------------------------------------------------------
\* Every key lies strictly between those of its neighbours, whatever was placed
\* where before, and no key is longer than the siblings are many: each is at
\* most one byte longer than the longer of the keys it was made from.  Placing
\* fails only in front of a key that is all 'a's.  (tree.rs:53-56, :82-87.)
KeysSeparate ==
    /\ \A i \in 1..(Len(keys) - 1) : Before(keys[i], keys[i + 1])
    /\ \A i \in DOMAIN keys : Len(keys[i]) <= Len(keys)
    /\ placing = "panicked" => ToSet(keys[1]) = {1}
=============================================================================
