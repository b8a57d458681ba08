------------------------------- MODULE Lexer -------------------------------
(***************************************************************************)
(* Lexer::next and the functions it calls, over representatives of the     *)
(* classes of characters they tell apart.  A file is a sequence of         *)
(* characters that ends in NUL, as MemoryBuffer guarantees; CurPtr is a    *)
(* position in it.  The scanning loops are steps of their own where they   *)
(* nest (comments), and otherwise one Skip.                                *)
(***************************************************************************)
EXTENDS Integers, Sequences

CONSTANTS
  Texts,    \* the files considered
  Keywords  \* the keywords, sequences of characters

Nul == "NUL"
Digit == {"0", "1"}
HexDigit == Digit \cup {"A", "D", "E"}
Letter == {"A", "D", "E", "H", "O", "e", "d", "_"}
Body == Letter \cup Digit
NewLine == {"\n"}
White == {" "} \cup NewLine
Quote == {"\"", "'"}
Single == {"=", "#", "+", "-", "*", "/", ",", ";", ")", "[", "]"}
\* Characters that begin a token of one or two characters, and the second one.
Double == [c \in {".", ":", "<", ">"} |-> IF c = "." THEN "." ELSE "="]

ASSUME TextsEndInNul ==
  \A t \in Texts : Len(t) \in Nat \ {0} /\ t \in Seq(STRING) /\ t[Len(t)] = Nul

\* What KeywordFilter::addKeywords adds.
ASSUME KeywordsAreNames ==
  \A w \in Keywords : w \in Seq(Body) /\ w # <<>> /\ w[1] \in Letter

VARIABLES
  text,      \* the file
  CurPtr,    \* the next character
  End,       \* the character comment() looks at
  Level,     \* how many comments are open; 0 outside comment()
  token,     \* what next() gave the parser last; it is not cleared between calls
  formed,    \* every token formToken made
  reported   \* the diagnostics, <<diagnostic, position>>

vars == <<text, CurPtr, End, Level, token, formed, reported>>

Uninitialised == 0
Init ==
  /\ text \in Texts
  /\ CurPtr = 1 /\ End = 1 /\ Level = 0
  /\ token = [kind |-> "none", at |-> Uninitialised, length |-> Uninitialised]
  /\ formed = <<>> /\ reported = {}

\* The first position from i on whose character is not in S.
Skip(i, S) ==
  CHOOSE j \in i .. Len(text) : text[j] \notin S /\ \A k \in i .. j - 1 : text[k] \in S

\* CurPtr has left the buffer: whatever lies behind it is read.
Overrun == CurPtr > Len(text)
\* next() has been called and has skipped white space.
Here == Skip(CurPtr, White)
Reading == ~Overrun /\ Level = 0
At(S) == Reading /\ text[Here] \in S

formToken(kind, end) ==
  LET t == [kind |-> kind, at |-> Here, length |-> end - Here]
  IN  /\ token' = t
      /\ formed' = Append(formed, t)
      /\ CurPtr' = end
      /\ UNCHANGED <<text, End, Level>>
Report(diags) == reported' = reported \cup (diags \X {Here})

-----------------------------------------------------------------------------
\* setKind only: the position is that of the token before.
Unformed(kind) ==
  /\ token' = [token EXCEPT !.kind = kind]
  /\ CurPtr' = Here
  /\ UNCHANGED <<text, End, Level, formed, reported>>

EndOfFile == At({Nul}) /\ Unformed("eof")

identifier ==
  LET end == Skip(Here + 1, Body)
      name == SubSeq(text, Here, end - 1)
  IN  /\ At(Letter)
      /\ formToken(IF name \in Keywords THEN "keyword" ELSE "identifier", end)
      /\ UNCHANGED reported

\* number(): the digits, hexadecimal ones included.
DigitsEnd == Skip(Here + 1, HexDigit)
IsHex == \E k \in Here + 1 .. DigitsEnd - 1 : text[k] \notin Digit
HexInDecimal == IF IsHex THEN {"err_hex_digit_in_decimal"} ELSE {}

HexNumber ==
  /\ At(Digit) /\ text[DigitsEnd] = "H"
  /\ formToken("integer_literal", DigitsEnd + 1)
  /\ UNCHANGED reported

\* "1..2": the point belongs to the range.
RangeBound == text[DigitsEnd] = "." /\ text[DigitsEnd + 1] = "."

DecimalNumber ==
  /\ At(Digit) /\ (text[DigitsEnd] \notin {"H", "."} \/ RangeBound)
  /\ formToken("integer_literal", DigitsEnd)
  /\ Report(HexInDecimal)

\* Variant: an exponent without digits is not reported.
scaleFactorLenient(end, diags) ==
  LET digits == IF text[end + 1] \in {"+", "-"} THEN end + 2 ELSE end + 1
  IN  [end |-> Skip(digits, Digit), reports |-> IF text[digits] \in Digit THEN diags ELSE {}]

\* Where the scale factor after "end" is over, and what is wrong with it.
scaleFactor(end, diags) ==
  LET digits == IF text[end + 1] \in {"+", "-"} THEN end + 2 ELSE end + 1
  IN  IF text[digits] \notin Digit
        THEN [end |-> digits, reports |-> {"err_invalid_real_literal"}]
        ELSE [end |-> Skip(digits, Digit), reports |-> diags]

RealNumber ==
  LET fraction == Skip(DigitsEnd + 1, Digit)
      scale ==
        IF text[fraction] \in {"E", "e"} THEN scaleFactor(fraction, {})
        ELSE IF text[fraction] \in {"D", "d"}
          THEN scaleFactor(fraction, {"err_longreal_literal_not_implemented"})
        ELSE [end |-> fraction, reports |-> {}]
  IN  /\ At(Digit) /\ text[DigitsEnd] = "." /\ ~RangeBound
      /\ formToken("real_literal", scale.end)
      /\ Report(HexInDecimal \cup scale.reports)

\* The token includes the character it ends at, whichever that is.
string ==
  LET stops == {Nul, text[Here]} \cup NewLine
      close == CHOOSE j \in Here + 1 .. Len(text) :
        text[j] \in stops /\ \A k \in Here + 1 .. j - 1 : text[k] \notin stops
  IN  /\ At(Quote)
      /\ formToken("string_literal", close + 1)
      /\ Report(IF text[close] \in NewLine THEN {"err_unterminated_char_or_string"} ELSE {})

SingleCharacter ==
  /\ At(Single)
  /\ formToken("punctuator", Here + 1)
  /\ UNCHANGED reported

\* Variant: two characters are taken without looking at the second one.
PunctuatorGreedy ==
  /\ At({"("} \cup DOMAIN Double)
  /\ (text[Here] = "(" => text[Here + 1] # "*")
  /\ formToken("punctuator", Here + (IF text[Here] = "(" THEN 1 ELSE 2))
  /\ UNCHANGED reported

\* "(" without "*", ".", ":", "<" and ">", alone or with the character they join.
Punctuator ==
  /\ At({"("} \cup DOMAIN Double)
  /\ (text[Here] = "(" => text[Here + 1] # "*")
  /\ LET joined == text[Here] # "(" /\ text[Here + 1] = Double[text[Here]]
     IN  formToken("punctuator", Here + (IF joined THEN 2 ELSE 1))
  /\ UNCHANGED reported

Known == {Nul, "("} \cup Body \cup Quote \cup Single \cup DOMAIN Double
UnknownCharacter == Reading /\ text[Here] \notin Known /\ Unformed("unknown")

-----------------------------------------------------------------------------
(* comment(), after which next() begins again. *)

OpenComment ==
  /\ At({"("}) /\ text[Here + 1] = "*"
  /\ CurPtr' = Here /\ End' = Here + 2 /\ Level' = 1
  /\ UNCHANGED <<text, token, formed, reported>>

Pair(a, b) == text[End] = a /\ text[End + 1] = b
\* Variant: the end of the file is not looked for.
InCommentBlind == ~Overrun /\ Level > 0 /\ End <= Len(text)
InComment == ~Overrun /\ Level > 0 /\ text[End] # Nul

NestedComment ==
  /\ InComment /\ Pair("(", "*")
  /\ End' = End + 2 /\ Level' = Level + 1
  /\ UNCHANGED <<text, CurPtr, token, formed, reported>>

CommentCharacter ==
  /\ InComment /\ ~Pair("(", "*") /\ ~Pair("*", ")")
  /\ End' = End + 1
  /\ UNCHANGED <<text, CurPtr, Level, token, formed, reported>>

CloseNested ==
  /\ InComment /\ Pair("*", ")") /\ Level > 1
  /\ End' = End + 2 /\ Level' = Level - 1
  /\ UNCHANGED <<text, CurPtr, token, formed, reported>>

\* The loop is over and comment() returns.  Whether the comment was closed is
\* judged by what comes behind it.
Leave(end) ==
  /\ reported' = reported \cup
       IF text[end] = Nul THEN {<<"err_unterminated_block_comment", CurPtr>>} ELSE {}
  /\ CurPtr' = end /\ Level' = 0 /\ End' = end
  /\ UNCHANGED <<text, token, formed>>

\* Variant: comments do not nest.
CloseAny == InComment /\ Pair("*", ")") /\ Leave(End + 2)

CloseComment == InComment /\ Pair("*", ")") /\ Level = 1 /\ Leave(End + 2)
OpenAtEnd == ~Overrun /\ Level > 0 /\ text[End] = Nul /\ Leave(End)

-----------------------------------------------------------------------------
next ==
  \/ EndOfFile \/ identifier
  \/ HexNumber \/ DecimalNumber \/ RealNumber \/ string
  \/ SingleCharacter \/ Punctuator \/ UnknownCharacter
  \/ OpenComment \/ NestedComment \/ CommentCharacter
  \/ CloseNested \/ CloseComment \/ OpenAtEnd

\* What is read behind the buffer is not modelled.
Lost == Overrun /\ UNCHANGED vars
Spec == Init /\ [][next \/ Lost]_vars

-----------------------------------------------------------------------------
Grammar == INSTANCE LexicalGrammar WITH
  Symbols <- {<<c>> : c \in {"("} \cup Single \cup DOMAIN Double}
               \cup {<<c, Double[c]>> : c \in DOMAIN Double}

Token == [kind : Grammar!Kinds, at : Nat \ {0}, length : Nat \ {0}]
TypeOK ==
  /\ CurPtr \in 1 .. Len(text) + 1 /\ End \in 1 .. Len(text) /\ Level \in Nat
  /\ formed \in Seq(Token)
  /\ token.kind \in {"none", "eof", "unknown"} \cup Grammar!Kinds

Spelling(t) == SubSeq(text, t.at, t.at + t.length - 1)
BeforeRange(p) == SubSeq(text, p, p + 1) = <<".", ".">>
EndsInNul(t) == text[t.at + t.length - 1] = Nul
ReportedAt(p) == \E r \in reported : r[2] = p

\* A token that is handed over without a report is spelled as the language
\* says, and is the longest that begins there, except that a point is left to
\* the range behind a number.  The one token that slips through is a string
\* that is still open where the file, or its line, ends in NUL.
TokensAsSpelled ==
  \A i \in DOMAIN formed :
    LET t == formed[i]
        longer == {e \in t.at + t.length .. Len(text) - 1 :
                     \E k \in Grammar!Kinds : Grammar!IsA(SubSeq(text, t.at, e), k)}
    IN  \/ ReportedAt(t.at)
        \/ t.kind = "string_literal" /\ EndsInNul(t)
        \/ /\ Grammar!IsA(Spelling(t), t.kind)
           /\ longer = {} \/ (t.kind = "integer_literal" /\ BeforeRange(t.at + t.length))
           /\ ~(t.kind = "real_literal" /\ BeforeRange(t.at + t.length - 1))

\* Between two tokens lie white space and whole comments; and a comment is
\* reported only if it is still open where the file ends, or closed by the very
\* last characters.  For the lexer the file ends at the first NUL.
GapsAreBlank ==
  LET begin(i) == IF i = 1 THEN 1 ELSE formed[i - 1].at + formed[i - 1].length
  IN  \A i \in DOMAIN formed : \A p \in begin(i) .. formed[i].at - 1 :
        \/ text[p] \in White
        \/ \E a \in begin(i) .. p, b \in p .. formed[i].at - 1 :
             Grammar!Comment(SubSeq(text, a, b))
CommentReportsTrue ==
  \A r \in reported : r[1] = "err_unterminated_block_comment" =>
    LET end == CHOOSE e \in r[2] .. Len(text) :
                 text[e] = Nul /\ \A j \in r[2] .. e - 1 : text[j] # Nul
        rest == SubSeq(text, r[2], end - 1)
    IN  Grammar!Comment(rest) \/ ~\E e \in DOMAIN rest : Grammar!Comment(Grammar!Upto(rest, e))
CommentsAsNested == GapsAreBlank /\ CommentReportsTrue

\* The lexer reads no character behind the NUL of the file, unless a string is
\* open where the file ends; then nothing has been reported of that string.
WithinText ==
  Overrun =>
    LET t == formed[Len(formed)]
    IN  formed # <<>> /\ t.kind = "string_literal" /\ EndsInNul(t) /\ ~ReportedAt(t.at)
=============================================================================
