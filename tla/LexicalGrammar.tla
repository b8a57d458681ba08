--------------------------- MODULE LexicalGrammar ---------------------------
(***************************************************************************)
(* The lexical rules of the language as sets of character sequences, to    *)
(* compare Lexer with: what a literal, a name and a comment look like, not *)
(* how they are scanned.                                                   *)
(***************************************************************************)
EXTENDS Integers, Sequences, FiniteSets

CONSTANTS Digit, HexDigit, Letter, Quote, NewLine, Symbols, Keywords

All(s, S) == \A i \in DOMAIN s : s[i] \in S
From(s, i) == SubSeq(s, i, Len(s))
Upto(s, i) == SubSeq(s, 1, i)

Name(s) == s # <<>> /\ s[1] \in Letter /\ All(s, Letter \cup Digit)
Decimal(s) == s # <<>> /\ All(s, Digit)
Hex(s) == Len(s) > 1 /\ s[1] \in Digit /\ All(Upto(s, Len(s) - 1), HexDigit) /\ s[Len(s)] = "H"
Scale(s) ==
  \/ s = <<>>
  \/ /\ s[1] \in {"E", "e"}
     /\ Decimal(From(s, IF Len(s) > 1 /\ s[2] \in {"+", "-"} THEN 3 ELSE 2))
Real(s) ==
  \E p \in DOMAIN s, q \in 1 .. Len(s) + 1 :
    /\ s[p] = "." /\ p < q
    /\ Decimal(Upto(s, p - 1)) /\ All(SubSeq(s, p + 1, q - 1), Digit) /\ Scale(From(s, q))
String(s) ==
  /\ Len(s) > 1 /\ s[1] \in Quote /\ s[Len(s)] = s[1]
  /\ \A i \in 2 .. Len(s) - 1 : s[i] \notin {s[1]} \cup NewLine

IsA(s, kind) ==
  CASE kind = "identifier"      -> Name(s) /\ s \notin Keywords
    [] kind = "keyword"         -> s \in Keywords
    [] kind = "integer_literal" -> Decimal(s) \/ Hex(s)
    [] kind = "real_literal"    -> Real(s)
    [] kind = "string_literal"  -> String(s)
    [] kind = "punctuator"      -> s \in Symbols
Kinds ==
  {"identifier", "keyword", "integer_literal", "real_literal", "string_literal", "punctuator"}

\* The delimiters of comments, taken from the left; "(*)" holds only one.
Opens(s, i) == i < Len(s) /\ s[i] = "(" /\ s[i + 1] = "*"
Closes(s, i) == i < Len(s) /\ s[i] = "*" /\ s[i + 1] = ")"
Delimiters(s) ==
  LET all == {i \in DOMAIN s : Opens(s, i) \/ Closes(s, i)}
  IN  CHOOSE D \in SUBSET all : \A i \in all : i \in D <=> i - 1 \notin D
Depth(s) ==
  Cardinality({i \in Delimiters(s) : Opens(s, i)}) - Cardinality({i \in Delimiters(s) : Closes(s, i)})
Comment(s) ==
  /\ Len(s) > 3 /\ Opens(s, 1) /\ Depth(s) = 0 /\ Len(s) - 1 \in Delimiters(s)
  /\ \A i \in 2 .. Len(s) - 1 : Depth(Upto(s, i)) > 0
=============================================================================
