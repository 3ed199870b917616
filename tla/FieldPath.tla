----------------------------- MODULE FieldPath ------------------------------
(***************************************************************************)
(* pkg/fieldpath/fieldpath.go: the segments of a field path and their      *)
(* text.  A text is a sequence of characters.                              *)
(***************************************************************************)
EXTENDS Integers, Sequences, FiniteSetsExt

CONSTANT MaxUint   \* the largest number ParseUint accepts

Quotes == {"'", "\""}

Digit == [c \in {"0", "1", "2", "3"} |-> CASE c = "0" -> 0 [] c = "1" -> 1 [] c = "2" -> 2 [] OTHER -> 3]

\* strings.Trim
Trim(t) == LET kept == {i \in DOMAIN t : t[i] \notin Quotes}
           IN  IF kept = {} THEN <<>> ELSE SubSeq(t, Min(kept), Max(kept))

Number(t) == LET first[n \in 0 .. Len(t)] == IF n = 0 THEN 0 ELSE 10 * first[n - 1] + Digit[t[n]]
             IN  first[Len(t)]

\* A text that ParseUint accepts, within its width.
IsUint(t) == t # <<>> /\ Range(t) \subseteq DOMAIN Digit /\ Number(t) <= MaxUint

Field(t) == [field |-> Trim(t)]

FieldOrIndex(t) == IF IsUint(t) THEN [index |-> Number(t)] ELSE Field(t)

IsField(s) == "field" \in DOMAIN s

wildcard == <<"*">>

\* The decimal text of an index.
Decimal(n) == CHOOSE t \in [{1} -> DOMAIN Digit] \cup [{1, 2} -> DOMAIN Digit] : Number(t) = n /\ (Len(t) = 2 => t[1] # "0")

\* Mutant: a field is never put in brackets.
SegmentTextPlain(s) == IF IsField(s) THEN <<".">> \o s.field ELSE <<"[">> \o Decimal(s.index) \o <<"]">>

SegmentText(s) ==
  IF ~IsField(s) THEN <<"[">> \o Decimal(s.index) \o <<"]">>
  ELSE IF s.field = wildcard \/ "." \in Range(s.field) THEN <<"[">> \o s.field \o <<"]">>
  ELSE <<".">> \o s.field

\* Segments.String, with the leading period trimmed.
String(sg) == LET first[n \in 0 .. Len(sg)] == IF n = 0 THEN <<>> ELSE first[n - 1] \o SegmentText(sg[n])
                  t == first[Len(sg)]
              IN  IF t # <<>> /\ Head(t) = "." THEN Tail(t) ELSE t
=============================================================================
