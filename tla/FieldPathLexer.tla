-------------------------- MODULE FieldPathLexer ----------------------------
(***************************************************************************)
(* pkg/fieldpath/fieldpath.go: Parse receives items from a lexer that runs *)
(* in a goroutine of its own and sends on an unbuffered channel.           *)
(* Positions count from 0 as in the code.                                  *)
(***************************************************************************)
EXTENDS FieldPath

CONSTANT Texts   \* the paths Parse is called with

ASSUME TextsAssumption == Texts \subseteq Seq(STRING)

VARIABLES
  input,     \* the path
  pos,       \* lexer.pos
  start,     \* lexer.start
  state,     \* the state function that runs next; "nil" once the lexer is done
  items,     \* what the state function that runs has still to send
  segments,  \* what Parse has received
  parse      \* Parse: "receiving", "returned" or "failed"

lexVars == <<input, pos, start, state, items, segments, parse>>

-----------------------------------------------------------------------------
(* The lexer                                                               *)

At(i) == input[i + 1]

\* strings.IndexRune and the range loops: the first position in from .. to - 1 that
\* holds one of the characters, or to.
First(cs, from, to) == LET hits == {i \in from .. to - 1 : At(i) \in cs}
                       IN  IF hits = {} THEN to ELSE Min(hits)

Item(typ, val) == [typ |-> typ, val |-> val]

\* emit, from start to p: an empty value is not sent.
emit(typ, p) == IF p > start THEN <<Item(typ, SubSeq(input, start + 1, p))>> ELSE <<>>

Step(next, p, sent) == /\ state' = next /\ pos' = p /\ start' = p /\ items' = sent
                       /\ UNCHANGED <<input, segments, parse>>

errorf == <<Item("error", <<>>)>>

\* Mutant: the lexer goes on after a right bracket it did not expect.
lexFieldGoesOn ==
  LET p == First({"]", "[", "."}, pos, Len(input))
  IN  CASE p = Len(input) -> Step("nil", p, emit("field", p))
        [] p < Len(input) /\ At(p) = "]" -> Step("lexField", p + 1, errorf)
        [] p < Len(input) /\ At(p) = "[" -> Step("lexLeftBracket", p, emit("field", p))
        [] p < Len(input) /\ At(p) = "." -> Step("lexPeriod", p, emit("field", p))

lexField ==
  LET p == First({"]", "[", "."}, pos, Len(input))
  IN  CASE p = Len(input) -> Step("nil", p, emit("field", p))
        [] p < Len(input) /\ At(p) = "]" -> Step("nil", pos, errorf)
        [] p < Len(input) /\ At(p) = "[" -> Step("lexLeftBracket", p, emit("field", p))
        [] p < Len(input) /\ At(p) = "." -> Step("lexPeriod", p, emit("field", p))

\* Mutant: the end of the input is not looked at.
lexPeriodAnywhere ==
  IF pos = 0 THEN Step("nil", pos, errorf)
  ELSE IF pos + 1 < Len(input) /\ At(pos + 1) \in {".", "["}
  THEN Step("nil", pos + 1, emit("period", pos + 1) \o errorf)
  ELSE Step("lexField", pos + 1, emit("period", pos + 1))

lexPeriod ==
  IF pos = 0 \/ pos = Len(input) - 1 THEN Step("nil", pos, errorf)
  ELSE IF At(pos + 1) \in {".", "["} THEN Step("nil", pos + 1, emit("period", pos + 1) \o errorf)
  ELSE Step("lexField", pos + 1, emit("period", pos + 1))

lexLeftBracket ==
  IF First({"]"}, pos, Len(input)) = Len(input) THEN Step("nil", pos, errorf)
  ELSE Step("lexFieldOrIndex", pos + 1, emit("leftBracket", pos + 1))

lexFieldOrIndex ==
  LET rbi == First({"]"}, pos, Len(input))
  IN  IF rbi = pos \/ First({"["}, pos, rbi) < rbi THEN Step("nil", pos, errorf)
      ELSE Step("lexRightBracket", rbi, emit("fieldOrIndex", rbi))

\* Mutant: the bracket is not consumed.
lexRightBracketStays == Step("lexRightBracket", pos, <<>>)

lexRightBracket == Step("lexField", pos + 1, emit("rightBracket", pos + 1))

\* lexer.run calls the state function once everything the last one sent is received.
run == /\ items = <<>>
       /\ \/ state = "lexField" /\ lexField
          \/ state = "lexPeriod" /\ lexPeriod
          \/ state = "lexLeftBracket" /\ lexLeftBracket
          \/ state = "lexFieldOrIndex" /\ lexFieldOrIndex
          \/ state = "lexRightBracket" /\ lexRightBracket

-----------------------------------------------------------------------------
(* Parse                                                                   *)

\* Parse receives an item: names become segments, separators are dropped, and an
\* error is returned at once.
Receive ==
  /\ parse = "receiving" /\ items # <<>>
  /\ LET i == Head(items)
     IN  CASE i.typ = "field" -> segments' = Append(segments, Field(i.val)) /\ UNCHANGED parse
           [] i.typ = "fieldOrIndex" -> segments' = Append(segments, FieldOrIndex(i.val)) /\ UNCHANGED parse
           [] i.typ = "error" -> segments' = <<>> /\ parse' = "failed"
           [] OTHER -> UNCHANGED <<segments, parse>>
  /\ items' = Tail(items)
  /\ UNCHANGED <<input, pos, start, state>>

\* The lexer has closed the channel.
Closed == /\ parse = "receiving" /\ state = "nil" /\ items = <<>>
          /\ parse' = "returned"
          /\ UNCHANGED <<input, pos, start, state, items, segments>>

LexInit == /\ input \in Texts /\ pos = 0 /\ start = 0 /\ state = "lexField" /\ items = <<>>
           /\ segments = <<>> /\ parse = "receiving"

Parse == run \/ Receive \/ Closed

\* Parse is called again, with another path.
ParseAgain(t) == /\ parse # "receiving"
                 /\ input' = t /\ pos' = 0 /\ start' = 0 /\ state' = "lexField" /\ items' = <<>>
                 /\ segments' = <<>> /\ parse' = "receiving"

LexSpec == LexInit /\ [][Parse \/ \E t \in Seq(STRING) : ParseAgain(t)]_lexVars

-----------------------------------------------------------------------------

Plain(c) == c \notin {".", "[", "]"}

Inside(t, i) == LET before(c) == {j \in 1 .. i - 1 : t[j] = c}
                IN  \E l \in before("[") : \A r \in before("]") : r < l

\* The texts the package documents: brackets are closed, not nested and not empty, and
\* a period outside brackets follows a name or a bracket and precedes a name.
ValidAt(t, i) ==
  CASE t[i] = "[" -> ~Inside(t, i) /\ i + 1 \in DOMAIN t /\ t[i + 1] # "]"
                     /\ \E j \in i + 1 .. Len(t) : t[j] = "]"
    [] t[i] = "]" -> Inside(t, i)
    [] t[i] = "." -> Inside(t, i) \/ (1 < i /\ i < Len(t) /\ Plain(t[i + 1]))
    [] OTHER -> TRUE

Valid(t) == \A i \in DOMAIN t : ValidAt(t, i)

\* Parse accepts the documented texts and no other, whatever character comes where.
AcceptsValid == /\ parse = "returned" => Valid(input)
                /\ parse = "failed" => ~Valid(input)

\* The goroutine is not left behind: when Parse returns an error, without draining the
\* channel, the lexer has sent everything it will ever send.
NoLexerLeft == parse # "receiving" => state = "nil" /\ items = <<>>

\* Parse of fieldpath.go accepts exactly the texts of the grammar, and leaves no lexer goroutine
\* blocked on its channel when it returns.
ParseIsExact == AcceptsValid /\ NoLexerLeft

\* Every call of Parse returns: no text makes the lexer run in circles.
ParseReturns == []<>(parse # "receiving")
=============================================================================
