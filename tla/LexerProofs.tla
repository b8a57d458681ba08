---------------------------- MODULE LexerProofs ----------------------------
(***************************************************************************)
(* Whatever a file holds and however long it is: the lexer stays within it *)
(* (but behind a string that is open where it ends), its tokens are        *)
(* spelled as the grammar says and as long as they can be, and what it     *)
(* skips is white space and whole comments.                                *)
(*                                                                         *)
(* The grammar speaks of sequences of characters, the lexer of positions:  *)
(* first what each kind of token and a comment are by position, then the   *)
(* steps.                                                                  *)
(***************************************************************************)
EXTENDS Lexer, TLAPS, WellFoundedInduction, SequenceTheorems, FiniteSetTheorems

\* A file as MemoryBuffer gives it.
IsText ==
  /\ Len(text) \in Nat \ {0} /\ text \in Seq(STRING) /\ DOMAIN text = 1 .. Len(text)
  /\ text[Len(text)] = Nul

\* The kinds of the tokens formToken makes.
TokenKinds ==
  {"identifier", "keyword", "integer_literal", "real_literal", "string_literal", "punctuator"}

\* The inductive invariant.  What has been reported lies before CurPtr, so that
\* nothing reported earlier can be mistaken for a report about an open string.
LexInv ==
  /\ IsText
  /\ CurPtr \in 1 .. Len(text) + 1 /\ End \in 1 .. Len(text) /\ Level \in Nat
  /\ Level > 0 => CurPtr < End
  /\ \A r \in reported : r[2] \in Nat /\ r[2] < CurPtr
  /\ formed \in Seq([kind : TokenKinds, at : Nat \ {0}, length : Nat \ {0}])
  /\ WithinText

\* A set of numbers has a least one.
LEMMA Least ==
  ASSUME NEW T \in SUBSET Nat, T # {}
  PROVE  \E m \in T : \A j \in T : ~ j < m
<1>1. PICK m \in T : \A j \in T : ~ <<j, m>> \in OpToRel(<, Nat)
  BY NatLessThanWellFounded, WFMin
<1> QED
  BY <1>1, Zenon DEF OpToRel

\* Scanning over characters other than NUL ends, at the latest at the end.
LEMMA SkipEnds ==
  ASSUME IsText, NEW i \in 1 .. Len(text), NEW S, Nul \notin S
  PROVE  /\ Skip(i, S) \in i .. Len(text) /\ text[Skip(i, S)] \notin S
         /\ \A k \in i .. Skip(i, S) - 1 : text[k] \in S
<1> DEFINE Stops == {j \in i .. Len(text) : text[j] \notin S}
<1>1. Len(text) \in Stops /\ Stops \subseteq Nat
  BY DEF IsText
<1> HIDE DEF Stops
<1>3. PICK m \in Stops : \A j \in Stops : ~ j < m
  BY <1>1, Least
<1>4. m \in i .. Len(text) /\ text[m] \notin S
  BY DEF Stops
<1>5. \A k \in i .. m - 1 : text[k] \in S
  <2> SUFFICES ASSUME NEW k \in i .. m - 1, text[k] \notin S PROVE FALSE
    OBVIOUS
  <2>1. k \in i .. Len(text) /\ k < m
    BY <1>4 DEF IsText
  <2>2. k \in Stops
    BY <2>1 DEF Stops
  <2> QED
    BY <2>1, <2>2, <1>3
<1> QED
  BY <1>4, <1>5 DEF Skip

\* A character that is not NUL is not the last one.
LEMMA NotLast ==
  ASSUME IsText, NEW i \in 1 .. Len(text), text[i] # Nul
  PROVE  i + 1 \in 1 .. Len(text)
BY DEF IsText

\* White space ends within the file: next() begins at a character of it.
LEMMA HereWithin ==
  ASSUME LexInv, Reading
  PROVE  Here \in CurPtr .. Len(text) /\ Here \in 1 .. Len(text) /\ CurPtr \in Nat
<1>1. CurPtr \in 1 .. Len(text)
  BY DEF LexInv, Reading, Overrun, IsText
<1>2. Nul \notin White
  BY DEF Nul, White, NewLine
<1> QED
  BY <1>1, <1>2, SkipEnds DEF Here, LexInv, IsText

-----------------------------------------------------------------------------
\* What formToken does beside setting token.
LEMMA Formed ==
  ASSUME NEW kind, NEW end, formToken(kind, end)
  PROVE  /\ CurPtr' = end /\ UNCHANGED <<text, End, Level>>
         /\ formed' = Append(formed, [kind |-> kind, at |-> Here, length |-> end - Here])
BY DEF formToken

\* What this step reports, it reports of the character next() begins at.
ReportedHere == \A r \in reported' \ reported : r[2] = Here

\* A token that ends before the file does; a report about it lies before the
\* next character.
LEMMA TokenKeeps ==
  ASSUME LexInv, Reading, NEW kind \in TokenKinds, NEW end \in Here + 1 .. Len(text),
         formToken(kind, end), ReportedHere
  PROVE  LexInv'
<1>1. /\ CurPtr' = end /\ UNCHANGED <<text, End, Level>>
      /\ formed' = Append(formed, [kind |-> kind, at |-> Here, length |-> end - Here])
  BY Formed
<1>2. Here \in CurPtr .. Len(text) /\ Here \in 1 .. Len(text) /\ CurPtr \in Nat /\ Len(text) \in Nat
  BY HereWithin DEF LexInv, IsText
<1>3. formed' \in Seq([kind : TokenKinds, at : Nat \ {0}, length : Nat \ {0}])
  <2>1. [kind |-> kind, at |-> Here, length |-> end - Here] \in [kind : TokenKinds, at : Nat \ {0}, length : Nat \ {0}]
    BY <1>2
  <2> QED
    BY <1>1, <2>1 DEF LexInv
<1>4. \A r \in reported' : r[2] \in Nat /\ r[2] < end
  BY <1>2 DEF LexInv, ReportedHere
<1>5. ~Overrun' /\ IsText' /\ Level' = 0
  BY <1>1, <1>2 DEF Overrun, LexInv, IsText, Reading
<1> QED
  BY <1>1, <1>2, <1>3, <1>4, <1>5 DEF LexInv, WithinText

\* next() returns without having formed a token.
LEMMA UnformedKeeps ==
  ASSUME LexInv, Reading, NEW kind, Unformed(kind)
  PROVE  LexInv'
<1>1. CurPtr' = Here /\ UNCHANGED <<text, End, Level, formed, reported>>
  BY DEF Unformed
<1>2. Here \in CurPtr .. Len(text) /\ Here \in 1 .. Len(text) /\ CurPtr \in Nat /\ Len(text) \in Nat
  BY HereWithin DEF LexInv, IsText
<1>3. ~Overrun' /\ IsText' /\ Level' = 0
  BY <1>1, <1>2 DEF Overrun, LexInv, IsText, Reading
<1>4. \A r \in reported' : r[2] \in Nat /\ r[2] < CurPtr'
  BY <1>1, <1>2 DEF LexInv
<1> QED
  BY <1>1, <1>2, <1>3, <1>4 DEF LexInv, WithinText

\* A name or keyword ends within the file, as no letter or digit is NUL.
LEMMA identifierKeeps ==
  ASSUME LexInv, identifier
  PROVE  LexInv'
<1> DEFINE end == Skip(Here + 1, Body)
           kind == IF SubSeq(text, Here, end - 1) \in Keywords THEN "keyword" ELSE "identifier"
<1>1. Reading /\ text[Here] \in Letter /\ formToken(kind, end) /\ UNCHANGED reported
  BY DEF identifier, At
<1>2. Here \in 1 .. Len(text) /\ Len(text) \in Nat /\ IsText
  BY <1>1, HereWithin DEF LexInv, IsText
<1>3. Here + 1 \in 1 .. Len(text)
  BY <1>1, <1>2, NotLast DEF Letter, Nul
<1>4. end \in Here + 1 .. Len(text)
  BY <1>2, <1>3, SkipEnds DEF Body, Letter, Digit, Nul
<1>5. kind \in TokenKinds
  BY DEF TokenKinds
<1> HIDE DEF end, kind
<1> QED
  BY <1>1, <1>4, <1>5, TokenKeeps DEF ReportedHere

\* The digits of a number end within the file.
LEMMA NumberBegins ==
  ASSUME LexInv, At(Digit)
  PROVE  /\ Reading /\ IsText /\ Here \in 1 .. Len(text) /\ Len(text) \in Nat
         /\ DigitsEnd \in Here + 1 .. Len(text)
<1>1. Reading /\ IsText /\ Here \in 1 .. Len(text) /\ Len(text) \in Nat
  BY HereWithin DEF At, LexInv, IsText
<1>2. Here + 1 \in 1 .. Len(text)
  BY <1>1, NotLast DEF At, Digit, Nul
<1>3. Nul \notin HexDigit
  BY DEF HexDigit, Digit, Nul
<1> QED
  BY <1>1, <1>2, <1>3, SkipEnds DEF DigitsEnd

\* A hexadecimal number ends behind its H, which is not the last character.
LEMMA HexNumberKeeps ==
  ASSUME LexInv, HexNumber
  PROVE  LexInv'
<1>1. At(Digit) /\ text[DigitsEnd] = "H" /\ UNCHANGED reported
      /\ formToken("integer_literal", DigitsEnd + 1)
  BY DEF HexNumber
<1>2. /\ Reading /\ IsText /\ Here \in 1 .. Len(text) /\ Len(text) \in Nat
      /\ DigitsEnd \in Here + 1 .. Len(text)
  BY <1>1, NumberBegins
<1>3. DigitsEnd + 1 \in 1 .. Len(text)
  BY <1>1, <1>2, NotLast DEF Nul
<1>4. DigitsEnd + 1 \in Here + 1 .. Len(text)
  BY <1>2, <1>3
<1> QED
  BY <1>1, <1>2, <1>4, TokenKeeps DEF ReportedHere, TokenKinds

\* A decimal number ends with its digits, which end within the file.
LEMMA DecimalNumberKeeps ==
  ASSUME LexInv, DecimalNumber
  PROVE  LexInv'
<1>1. At(Digit) /\ formToken("integer_literal", DigitsEnd) /\ ReportedHere
  BY DEF DecimalNumber, Report, ReportedHere
<1> QED
  BY <1>1, NumberBegins, TokenKeeps DEF TokenKinds

\* A scale factor that begins with a letter ends within the file.
LEMMA ScaleEnds ==
  ASSUME IsText, NEW i \in 1 .. Len(text), text[i] # Nul, NEW diags
  PROVE  scaleFactor(i, diags).end \in i + 1 .. Len(text)
<1> DEFINE digits == IF text[i + 1] \in {"+", "-"} THEN i + 2 ELSE i + 1
<1>1. i + 1 \in 1 .. Len(text) /\ Len(text) \in Nat
  BY NotLast DEF IsText
<1>2. digits \in i + 1 .. Len(text)
  <2>1. CASE text[i + 1] \in {"+", "-"}
    <3>1. i + 2 \in 1 .. Len(text)
      BY <1>1, <2>1, NotLast DEF Nul
    <3> QED
      BY <2>1, <3>1, <1>1
  <2>2. CASE text[i + 1] \notin {"+", "-"}
    BY <2>2, <1>1
  <2> QED
    BY <2>1, <2>2
<1>3. scaleFactor(i, diags).end = IF text[digits] \notin Digit THEN digits ELSE Skip(digits, Digit)
  BY DEF scaleFactor
<1> HIDE DEF digits
<1>4. digits \in 1 .. Len(text) /\ Nul \notin Digit
  BY <1>1, <1>2 DEF Digit, Nul
<1>5. Skip(digits, Digit) \in digits .. Len(text)
  BY <1>4, SkipEnds
<1> QED
  BY <1>1, <1>2, <1>3, <1>5

\* A real number ends within the file: behind its point there is a character,
\* and behind its fraction the scale factor ends as ScaleEnds says.
LEMMA RealNumberKeeps ==
  ASSUME LexInv, RealNumber
  PROVE  LexInv'
<1> DEFINE fraction == Skip(DigitsEnd + 1, Digit)
           scale ==
             IF text[fraction] \in {"E", "e"} THEN scaleFactor(fraction, {})
             ELSE IF text[fraction] \in {"D", "d"}
               THEN scaleFactor(fraction, {"err_longreal_literal_not_implemented"})
             ELSE [end |-> fraction, reports |-> {}]
<1>1. At(Digit) /\ text[DigitsEnd] = "." /\ formToken("real_literal", scale.end)
      /\ ReportedHere
  <2>1. Report(HexInDecimal \cup scale.reports) => ReportedHere
    BY DEF Report, ReportedHere
  <2> QED
    BY <2>1 DEF RealNumber
<1>2. /\ Reading /\ IsText /\ Here \in 1 .. Len(text) /\ Len(text) \in Nat
      /\ DigitsEnd \in Here + 1 .. Len(text)
  BY <1>1, NumberBegins
<1>3. DigitsEnd + 1 \in 1 .. Len(text)
  BY <1>1, <1>2, NotLast DEF Nul
<1>4. fraction \in DigitsEnd + 1 .. Len(text)
  BY <1>2, <1>3, SkipEnds DEF Digit, Nul
<1> HIDE DEF fraction
<1>5. scale.end \in fraction .. Len(text)
  <2>1. CASE text[fraction] \in {"E", "e", "D", "d"}
    <3>1. text[fraction] # Nul /\ fraction \in 1 .. Len(text)
      BY <2>1, <1>2, <1>4 DEF Nul
    <3>2. \A diags : scaleFactor(fraction, diags).end \in fraction + 1 .. Len(text)
      BY <3>1, <1>2, ScaleEnds
    <3> QED
      BY <2>1, <3>2, <1>2, <1>4
  <2>2. CASE text[fraction] \notin {"E", "e", "D", "d"}
    BY <2>2, <1>2, <1>4
  <2> QED
    BY <2>1, <2>2
<1> HIDE DEF scale
<1>6. scale.end \in Here + 1 .. Len(text)
  BY <1>2, <1>4, <1>5
<1> QED
  BY <1>1, <1>2, <1>6, TokenKeeps DEF TokenKinds

\* A punctuator of one or two characters, none of them NUL, is not the last.
LEMMA PunctuatorKeeps ==
  ASSUME LexInv, SingleCharacter \/ Punctuator
  PROVE  LexInv'
<1>1. PICK n \in {1, 2} : /\ formToken("punctuator", Here + n) /\ UNCHANGED reported
                          /\ At({"("} \cup Single \cup DOMAIN Double)
                          /\ n = 2 => text[Here + 1] = Double[text[Here]] /\ text[Here] # "("
                                      /\ text[Here] \in DOMAIN Double
  BY DEF SingleCharacter, Punctuator, At
<1>2. Reading /\ IsText /\ Here \in 1 .. Len(text) /\ Len(text) \in Nat
  BY <1>1, HereWithin DEF At, LexInv, IsText
<1>3. Here + 1 \in 1 .. Len(text)
  BY <1>1, <1>2, NotLast DEF At, Single, Double, Nul
<1>4. n = 2 => text[Here + 1] # Nul
  BY <1>1 DEF Double, Nul
<1>5. Here + n \in Here + 1 .. Len(text)
  <2>1. CASE n = 2
    <3>1. Here + 1 + 1 \in 1 .. Len(text)
      BY <2>1, <1>2, <1>3, <1>4, NotLast
    <3> QED
      BY <2>1, <3>1, <1>2
  <2>2. CASE n = 1
    BY <2>2, <1>2, <1>3
  <2> QED
    BY <2>1, <2>2
<1> QED
  BY <1>1, <1>2, <1>5, TokenKeeps DEF TokenKinds, ReportedHere

\* There is a character a string ends at.
LEMMA StringCloses ==
  ASSUME IsText, NEW a \in 1 .. Len(text), a + 1 \in 1 .. Len(text)
  PROVE  LET stops == {Nul, text[a]} \cup NewLine
             close == CHOOSE j \in a + 1 .. Len(text) :
               text[j] \in stops /\ \A k \in a + 1 .. j - 1 : text[k] \notin stops
         IN  /\ close \in a + 1 .. Len(text) /\ text[close] \in stops
             /\ \A k \in a + 1 .. close - 1 : text[k] \notin stops
<1> DEFINE stops == {Nul, text[a]} \cup NewLine
           Stops == {j \in a + 1 .. Len(text) : text[j] \in stops}
<1>1. Nul \in stops /\ Len(text) \in Nat
  BY DEF IsText
<1> HIDE DEF stops
<1>2. Len(text) \in Stops /\ Stops \in SUBSET Nat
  BY <1>1 DEF IsText
<1>3. PICK m \in Stops : \A j \in Stops : ~ j < m
  BY <1>2, Least
<1>4. m \in a + 1 .. Len(text) /\ text[m] \in stops
  OBVIOUS
<1>5. \A k \in a + 1 .. m - 1 : text[k] \notin stops
  <2> SUFFICES ASSUME NEW k \in a + 1 .. m - 1, text[k] \in stops PROVE FALSE
    OBVIOUS
  <2>1. k \in Stops /\ k < m
    BY <1>1, <1>4
  <2> QED
    BY <2>1, <1>3
<1> QED
  BY <1>4, <1>5 DEF stops

\* A string that ends with the file takes the NUL with it, unreported.
LEMMA stringKeeps ==
  ASSUME LexInv, string
  PROVE  LexInv'
<1> DEFINE stops == {Nul, text[Here]} \cup NewLine
           close == CHOOSE j \in Here + 1 .. Len(text) :
             text[j] \in stops /\ \A k \in Here + 1 .. j - 1 : text[k] \notin stops
           token1 == [kind |-> "string_literal", at |-> Here, length |-> (close + 1) - Here]
<1>1. /\ At(Quote) /\ formToken("string_literal", close + 1)
      /\ Report(IF text[close] \in NewLine THEN {"err_unterminated_char_or_string"} ELSE {})
  BY DEF string
<1>2. Reading /\ IsText /\ Here \in CurPtr .. Len(text) /\ Here \in 1 .. Len(text)
      /\ CurPtr \in Nat /\ Len(text) \in Nat
  BY <1>1, HereWithin DEF At, LexInv, IsText
<1>3. Here + 1 \in 1 .. Len(text)
  BY <1>1, <1>2, NotLast DEF At, Quote, Nul
<1>4. close \in Here + 1 .. Len(text) /\ text[close] \in stops
  BY <1>2, <1>3, StringCloses
<1> HIDE DEF close
<1>5. CASE close # Len(text)
  <2>1. close + 1 \in Here + 1 .. Len(text)
    BY <1>2, <1>4, <1>5
  <2>2. ReportedHere
    BY <1>1 DEF Report, ReportedHere
  <2> QED
    BY <1>1, <1>2, <2>1, <2>2, TokenKeeps DEF TokenKinds
<1>6. CASE close = Len(text)
  <2>1. text[close] = Nul /\ text[close] \notin NewLine
    BY <1>2, <1>6 DEF IsText, NewLine, Nul
  <2>2. /\ CurPtr' = Len(text) + 1 /\ formed' = Append(formed, token1)
        /\ UNCHANGED <<text, End, Level, reported>>
    <3>1. Report({})
      BY <1>1, <2>1
    <3>2. reported' = reported
      BY <3>1 DEF Report
    <3> DEFINE end == close + 1
    <3>3. CurPtr' = end /\ formed' = Append(formed, token1) /\ UNCHANGED <<text, End, Level>>
      <4>1. formToken("string_literal", end)
        BY <1>1
      <4>2. token1 = [kind |-> "string_literal", at |-> Here, length |-> end - Here]
        OBVIOUS
      <4> HIDE DEF end, token1
      <4> QED
        BY <4>1, <4>2 DEF formToken
    <3> QED
      BY <1>6, <3>2, <3>3
  <2>3. token1 \in [kind : TokenKinds, at : Nat \ {0}, length : Nat \ {0}]
    BY <1>2, <1>4 DEF TokenKinds
  <2>4. token1.kind = "string_literal" /\ token1.at = Here /\ token1.at + token1.length - 1 = close
    BY <1>2, <1>4
  <2> HIDE DEF token1
  <2>5. /\ formed' \in Seq([kind : TokenKinds, at : Nat \ {0}, length : Nat \ {0}])
        /\ formed'[Len(formed')] = token1 /\ formed' # <<>>
    <3>1. formed \in Seq([kind : TokenKinds, at : Nat \ {0}, length : Nat \ {0}])
      BY DEF LexInv
    <3> QED
      BY <2>2, <2>3, <3>1
  <2>6. \A q \in reported' : q[2] \in Nat /\ q[2] < CurPtr' /\ q[2] # Here
    BY <1>2, <2>2 DEF LexInv
  <2>7. WithinText'
    BY <2>1, <2>2, <2>4, <2>5, <2>6 DEF WithinText, EndsInNul, ReportedAt
  <2>8. IsText' /\ Level' = 0
    BY <1>2, <2>2 DEF IsText, Reading
  <2> QED
    BY <1>2, <2>2, <2>5, <2>6, <2>7, <2>8 DEF LexInv
<1> QED
  BY <1>5, <1>6

-----------------------------------------------------------------------------
\* A step inside a comment that stays within the file.
LEMMA InsideKeeps ==
  ASSUME LexInv, UNCHANGED <<text, formed>>, CurPtr' \in 1 .. Len(text), End' \in 1 .. Len(text),
         Level' \in Nat, Level' > 0 => CurPtr' < End',
         \A r \in reported' : r[2] \in Nat /\ r[2] < CurPtr'
  PROVE  LexInv'
<1>1. IsText' /\ ~Overrun' /\ Len(text) \in Nat
  BY DEF LexInv, IsText, Overrun
<1> QED
  BY <1>1 DEF LexInv, WithinText

\* Behind the two characters that open a comment the file goes on.
LEMMA OpenCommentKeeps ==
  ASSUME LexInv, OpenComment
  PROVE  LexInv'
<1>1. /\ Reading /\ text[Here] = "(" /\ text[Here + 1] = "*"
      /\ CurPtr' = Here /\ End' = Here + 2 /\ Level' = 1
      /\ UNCHANGED <<text, token, formed, reported>>
  BY DEF OpenComment, At
<1>2. IsText /\ Here \in CurPtr .. Len(text) /\ Here \in 1 .. Len(text) /\ CurPtr \in Nat
      /\ Len(text) \in Nat
  BY <1>1, HereWithin DEF LexInv, IsText
<1>3. Here + 1 \in 1 .. Len(text)
  BY <1>1, <1>2, NotLast DEF Nul
<1>4. Here + 2 \in 1 .. Len(text)
  <2>1. Here + 1 + 1 \in 1 .. Len(text)
    BY <1>1, <1>2, <1>3, NotLast DEF Nul
  <2> QED
    BY <2>1, <1>2
<1>5. \A r \in reported' : r[2] \in Nat /\ r[2] < CurPtr'
  BY <1>1, <1>2 DEF LexInv
<1> QED
  BY <1>1, <1>2, <1>4, <1>5, InsideKeeps

\* Behind a character of a comment, and behind a delimiter, the file goes on.
LEMMA CommentWithin ==
  ASSUME LexInv, Level > 0, ~Overrun
  PROVE  /\ IsText /\ End \in 1 .. Len(text) /\ Len(text) \in Nat /\ CurPtr \in 1 .. Len(text)
         /\ CurPtr < End
         /\ text[End] # Nul => End + 1 \in 1 .. Len(text)
         /\ Pair("(", "*") \/ Pair("*", ")") => End + 2 \in 1 .. Len(text)
<1>1. /\ IsText /\ End \in 1 .. Len(text) /\ Len(text) \in Nat /\ CurPtr \in 1 .. Len(text)
      /\ CurPtr < End
  BY DEF LexInv, IsText, Overrun
<1>2. text[End] # Nul => End + 1 \in 1 .. Len(text)
  BY <1>1, NotLast
<1>3. ASSUME Pair("(", "*") \/ Pair("*", ")") PROVE End + 2 \in 1 .. Len(text)
  <2>1. text[End] # Nul /\ text[End + 1] # Nul
    BY <1>3 DEF Pair, Nul
  <2>2. End + 1 + 1 \in 1 .. Len(text)
    BY <1>1, <1>2, <2>1, NotLast
  <2> QED
    BY <1>1, <2>2
<1> QED
  BY <1>1, <1>2, <1>3

\* A step of comment() that stays in the comment leaves End within the file.
LEMMA InCommentKeeps ==
  ASSUME LexInv, NestedComment \/ CommentCharacter \/ CloseNested
  PROVE  LexInv'
<1>1. Level > 0 /\ ~Overrun /\ text[End] # Nul
  BY DEF NestedComment, CommentCharacter, CloseNested, InComment
<1>2. /\ UNCHANGED <<text, CurPtr, formed, reported>>
      /\ \/ End' = End + 1 /\ UNCHANGED Level
         \/ End' = End + 2 /\ (Pair("(", "*") \/ Pair("*", ")"))
            /\ (Level' = Level + 1 \/ Level' = Level - 1)
  BY DEF NestedComment, CommentCharacter, CloseNested
<1>3. /\ End \in 1 .. Len(text) /\ Len(text) \in Nat /\ CurPtr \in 1 .. Len(text) /\ CurPtr < End
      /\ End + 1 \in 1 .. Len(text)
      /\ Pair("(", "*") \/ Pair("*", ")") => End + 2 \in 1 .. Len(text)
  BY <1>1, CommentWithin
<1>4. End' \in 1 .. Len(text) /\ CurPtr' < End' /\ CurPtr' \in 1 .. Len(text)
  BY <1>2, <1>3
<1>5. Level' \in Nat /\ \A r \in reported' : r[2] \in Nat /\ r[2] < CurPtr'
  BY <1>1, <1>2 DEF LexInv
<1> QED
  BY <1>2, <1>4, <1>5, InsideKeeps

\* comment() returns with CurPtr behind where it began and within the file.
LEMMA LeaveKeeps ==
  ASSUME LexInv, CloseComment \/ OpenAtEnd
  PROVE  LexInv'
<1>1. Level > 0 /\ ~Overrun
  BY DEF CloseComment, OpenAtEnd, InComment
<1>2. PICK end \in {End, End + 2} : Leave(end) /\ (end = End \/ Pair("*", ")"))
  BY DEF CloseComment, OpenAtEnd
<1>3. /\ UNCHANGED <<text, formed>> /\ CurPtr' = end /\ Level' = 0 /\ End' = end
      /\ \A r \in reported' \ reported : r[2] = CurPtr
  BY <1>2 DEF Leave
<1>4. /\ End \in 1 .. Len(text) /\ Len(text) \in Nat /\ CurPtr \in 1 .. Len(text) /\ CurPtr < End
      /\ Pair("*", ")") => End + 2 \in 1 .. Len(text)
  BY <1>1, CommentWithin
<1>5. end \in 1 .. Len(text) /\ CurPtr < end
  BY <1>2, <1>4
<1>6. \A r \in reported' : r[2] \in Nat /\ r[2] < CurPtr'
  BY <1>3, <1>4, <1>5 DEF LexInv
<1> QED
  BY <1>3, <1>5, <1>6, InsideKeeps

-----------------------------------------------------------------------------
\* The characters from a to b are all in S.
RunIn(a, b, S) == \A j \in a .. b : text[j] \in S

\* A part of the file, character by character.
LEMMA PieceFacts ==
  ASSUME IsText, NEW a \in 1 .. Len(text), NEW b \in a - 1 .. Len(text)
  PROVE  /\ SubSeq(text, a, b) \in Seq(STRING)
         /\ Len(SubSeq(text, a, b)) = b - a + 1
         /\ DOMAIN SubSeq(text, a, b) = 1 .. b - a + 1
         /\ \A i \in 1 .. b - a + 1 : SubSeq(text, a, b)[i] = text[a + i - 1]
         /\ \A j \in a .. b : j - a + 1 \in 1 .. b - a + 1 /\ SubSeq(text, a, b)[j - a + 1] = text[j]
<1>1. Len(text) \in Nat /\ a \in Int /\ b \in Int /\ \A i \in a .. b : text[i] \in STRING
  BY DEF IsText
<1>2. /\ SubSeq(text, a, b) \in Seq(STRING)
      /\ Len(SubSeq(text, a, b)) = b - a + 1
      /\ \A i \in 1 .. b - a + 1 : SubSeq(text, a, b)[i] = text[a + i - 1]
  BY <1>1, SubSeqProperties
<1>3. DOMAIN SubSeq(text, a, b) = 1 .. b - a + 1
  BY <1>2
<1>4. ASSUME NEW j \in a .. b
      PROVE  j - a + 1 \in 1 .. b - a + 1 /\ SubSeq(text, a, b)[j - a + 1] = text[j]
  <2>1. j - a + 1 \in 1 .. b - a + 1 /\ a + (j - a + 1) - 1 = j
    BY <1>1
  <2> QED
    BY <2>1, <1>2
<1> QED
  BY <1>2, <1>3, <1>4

\* The sequences of characters of a kind are those whose characters are.
LEMMA AllRun ==
  ASSUME IsText, NEW a \in 1 .. Len(text), NEW b \in a - 1 .. Len(text), NEW S
  PROVE  Grammar!All(SubSeq(text, a, b), S) <=> RunIn(a, b, S)
<1> DEFINE s == SubSeq(text, a, b)
<1>1. Len(text) \in Nat
  BY DEF IsText
<1>2. \A i \in 1 .. b - a + 1 : a + i - 1 \in a .. b
  BY <1>1
<1>3. /\ DOMAIN s = 1 .. b - a + 1
      /\ \A i \in 1 .. b - a + 1 : s[i] = text[a + i - 1]
      /\ \A j \in a .. b : j - a + 1 \in 1 .. b - a + 1 /\ s[j - a + 1] = text[j]
  BY PieceFacts
<1> HIDE DEF s
<1>4. Grammar!All(s, S) => RunIn(a, b, S)
  BY <1>3 DEF Grammar!All, RunIn
<1>5. RunIn(a, b, S) => Grammar!All(s, S)
  BY <1>2, <1>3 DEF Grammar!All, RunIn
<1> QED
  BY <1>4, <1>5 DEF s

\* Parts of a part of the file.
LEMMA PartOfPiece ==
  ASSUME IsText, NEW a \in 1 .. Len(text), NEW b \in a .. Len(text),
         NEW c \in a .. b + 1, NEW d \in c - 1 .. b
  PROVE  SubSeq(SubSeq(text, a, b), c - a + 1, d - a + 1) = SubSeq(text, c, d)
<1>1. Len(text) \in Nat /\ text \in Seq(STRING)
  BY DEF IsText
<1>2. CASE d < c
  <2>1. d - a + 1 < c - a + 1 /\ c \in Int /\ d \in Int /\ d - a + 1 \in Int /\ c - a + 1 \in Int
    BY <1>1, <1>2
  <2> QED
    BY <1>2, <2>1, SubSeqEmpty
<1>3. CASE c <= d
  <2>1. /\ a \in 1 .. Len(text) /\ b \in 1 .. Len(text)
        /\ c - a + 1 \in 1 .. b - a + 1 /\ d - a + 1 \in 1 .. b - a + 1
        /\ a + (c - a + 1) - 1 = c /\ a + (d - a + 1) - 1 = d
    BY <1>1, <1>3
  <2>2. SubSeq(SubSeq(text, a, b), c - a + 1, d - a + 1)
        = SubSeq(text, a + (c - a + 1) - 1, a + (d - a + 1) - 1)
    BY <1>1, <2>1, SubSeqOfSubSeq
  <2> QED
    BY <2>1, <2>2
<1> QED
  BY <1>1, <1>2, <1>3

\* Names and numbers, by position.
HexAt(a, b) == a < b /\ text[a] \in Digit /\ RunIn(a, b - 1, HexDigit) /\ text[b] = "H"

\* A name, by position.
LEMMA NameShape ==
  ASSUME IsText, NEW a \in 1 .. Len(text), NEW b \in a .. Len(text)
  PROVE  Grammar!Name(SubSeq(text, a, b)) <=> text[a] \in Letter /\ RunIn(a, b, Body)
<1>1. Len(text) \in Nat /\ b \in a - 1 .. Len(text) /\ a \in a .. b
  BY DEF IsText
<1>2. Grammar!All(SubSeq(text, a, b), Letter \cup Digit) <=> RunIn(a, b, Body)
  BY <1>1, AllRun DEF Body
<1>3. SubSeq(text, a, b) # <<>> /\ SubSeq(text, a, b)[1] = text[a]
  <2>1. a - a + 1 = 1
    BY <1>1
  <2>2. Len(SubSeq(text, a, b)) = b - a + 1 /\ SubSeq(text, a, b)[a - a + 1] = text[a]
    BY <1>1, PieceFacts
  <2>3. Len(SubSeq(text, a, b)) # 0
    BY <1>1, <2>2
  <2> QED
    BY <2>1, <2>2, <2>3
<1> QED
  BY <1>2, <1>3 DEF Grammar!Name

\* The digits of a decimal number, by position.
LEMMA DecimalShape ==
  ASSUME IsText, NEW a \in 1 .. Len(text), NEW b \in a - 1 .. Len(text)
  PROVE  Grammar!Decimal(SubSeq(text, a, b)) <=> a <= b /\ RunIn(a, b, Digit)
<1>1. Len(text) \in Nat
  BY DEF IsText
<1>2. Grammar!All(SubSeq(text, a, b), Digit) <=> RunIn(a, b, Digit)
  BY AllRun
<1>3. Len(SubSeq(text, a, b)) = b - a + 1 /\ SubSeq(text, a, b) \in Seq(STRING)
  BY PieceFacts
<1>4. SubSeq(text, a, b) # <<>> <=> a <= b
  BY <1>1, <1>3
<1> QED
  BY <1>2, <1>4 DEF Grammar!Decimal

\* A hexadecimal number, by position.
LEMMA HexShape ==
  ASSUME IsText, NEW a \in 1 .. Len(text), NEW b \in a .. Len(text)
  PROVE  Grammar!Hex(SubSeq(text, a, b)) <=> HexAt(a, b)
<1> DEFINE s == SubSeq(text, a, b)
<1>1. /\ Len(text) \in Nat /\ b \in a - 1 .. Len(text) /\ a \in a .. b /\ b \in a .. b
      /\ a - a + 1 = 1 /\ b - 1 - a + 1 = b - a /\ b - a + 1 - 1 = b - a
      /\ b - 1 \in a - 1 .. b /\ b - 1 \in a - 1 .. Len(text) /\ a \in a .. b + 1
  BY DEF IsText
<1>2. Len(s) = b - a + 1 /\ s[1] = text[a] /\ s[b - a + 1] = text[b]
  <2>1. Len(s) = b - a + 1 /\ s[a - a + 1] = text[a] /\ s[b - a + 1] = text[b]
    BY <1>1, PieceFacts
  <2> QED
    BY <1>1, <2>1
<1>3. Grammar!Upto(s, Len(s) - 1) = SubSeq(text, a, b - 1)
  <2>1. SubSeq(s, a - a + 1, b - 1 - a + 1) = SubSeq(text, a, b - 1)
    BY <1>1, PartOfPiece
  <2> QED
    BY <1>1, <1>2, <2>1 DEF Grammar!Upto
<1>4. Grammar!All(SubSeq(text, a, b - 1), HexDigit) <=> RunIn(a, b - 1, HexDigit)
  BY <1>1, AllRun
<1>5. Len(s) > 1 <=> a < b
  BY <1>1, <1>2
<1> HIDE DEF s
<1>6. Grammar!Hex(s) <=> HexAt(a, b)
  BY <1>2, <1>3, <1>4, <1>5 DEF Grammar!Hex, HexAt
<1> QED
  BY <1>6 DEF s

\* Scale factors and real numbers, by position.
ScaleBegin(q, b) == IF q < b /\ text[q + 1] \in {"+", "-"} THEN q + 2 ELSE q + 1
ScaleAt(q, b) ==
  \/ q = b + 1
  \/ q <= b /\ text[q] \in {"E", "e"} /\ ScaleBegin(q, b) <= b /\ RunIn(ScaleBegin(q, b), b, Digit)
RealParts(a, b, p, q) ==
  /\ text[p] = "." /\ a < p /\ p < q
  /\ RunIn(a, p - 1, Digit) /\ RunIn(p + 1, q - 1, Digit) /\ ScaleAt(q, b)
RealAt(a, b) == \E p \in a .. b, q \in a .. b + 1 : RealParts(a, b, p, q)

\* A scale factor, by position.
LEMMA ScaleShape ==
  ASSUME IsText, NEW a \in 1 .. Len(text), NEW b \in a .. Len(text), NEW q \in a .. b + 1
  PROVE  Grammar!Scale(SubSeq(text, q, b)) <=> ScaleAt(q, b)
<1> DEFINE s == SubSeq(text, q, b)
<1>1. Len(text) \in Nat
  BY DEF IsText
<1>2. CASE q = b + 1
  <2>1. b < q /\ q \in Int /\ b \in Int
    BY <1>1, <1>2
  <2>2. SubSeq(text, q, b) = <<>>
    BY <2>1, SubSeqEmpty
  <2> QED
    BY <1>2, <2>2 DEF Grammar!Scale, ScaleAt
<1>3. CASE q <= b
  <2>1. /\ q \in 1 .. Len(text) /\ b \in q .. Len(text) /\ b \in q - 1 .. Len(text) /\ q \in q .. b
        /\ q - q + 1 = 1 /\ q # b + 1
    BY <1>1, <1>3
  <2>2. Len(s) = b - q + 1 /\ s[1] = text[q] /\ s \in Seq(STRING)
    <3>1. Len(s) = b - q + 1 /\ s[q - q + 1] = text[q] /\ s \in Seq(STRING)
      BY <2>1, PieceFacts
    <3> QED
      BY <2>1, <3>1
  <2>3. q < b => s[2] = text[q + 1]
    <3>1. q < b => q + 1 \in q .. b /\ q + 1 - q + 1 = 2
      BY <2>1
    <3>2. q + 1 \in q .. b => s[q + 1 - q + 1] = text[q + 1]
      BY <2>1, PieceFacts
    <3> QED
      BY <3>1, <3>2
  <2> DEFINE n == IF Len(s) > 1 /\ s[2] \in {"+", "-"} THEN 3 ELSE 2
             c == ScaleBegin(q, b)
  <2>4. c \in q + 1 .. b + 1 /\ n = c - q + 1 /\ c \in Int
    <3>1. Len(s) > 1 <=> q < b
      BY <2>1, <2>2
    <3>2. CASE q < b /\ text[q + 1] \in {"+", "-"}
      <4>1. n = 3 /\ c = q + 2
        BY <3>1, <3>2, <2>3 DEF ScaleBegin
      <4> HIDE DEF n, c
      <4> QED
        BY <4>1, <3>2, <2>1
    <3>3. CASE ~(q < b /\ text[q + 1] \in {"+", "-"})
      <4>1. n = 2 /\ c = q + 1
        BY <3>1, <3>3, <2>3 DEF ScaleBegin
      <4> HIDE DEF n, c
      <4> QED
        BY <4>1, <2>1
    <3> QED
      BY <3>2, <3>3
  <2>5. Grammar!From(s, n) = SubSeq(text, c, b)
    <3> HIDE DEF c, n
    <3>1. b - q + 1 = Len(s) /\ c \in q .. b + 1 /\ b \in c - 1 .. b
      BY <2>1, <2>2, <2>4
    <3>2. SubSeq(s, c - q + 1, b - q + 1) = SubSeq(text, c, b)
      BY <2>1, <3>1, PartOfPiece
    <3> QED
      BY <2>4, <3>1, <3>2 DEF Grammar!From
  <2>6. Grammar!Decimal(SubSeq(text, c, b)) <=> c <= b /\ RunIn(c, b, Digit)
    <3> HIDE DEF c
    <3>1. CASE c <= Len(text)
      <4>1. c \in 1 .. Len(text) /\ b \in c - 1 .. Len(text)
        BY <2>1, <2>4, <3>1, <1>1
      <4> QED
        BY <4>1, DecimalShape
    <3>2. CASE ~(c <= Len(text))
      <4>1. b < c /\ b \in Int /\ ~(c <= b)
        BY <2>1, <2>4, <3>2, <1>1
      <4>2. SubSeq(text, c, b) = <<>>
        BY <4>1, <2>4, SubSeqEmpty
      <4> QED
        BY <4>1, <4>2 DEF Grammar!Decimal
    <3> QED
      BY <3>1, <3>2
  <2>7. s # <<>>
    <3>1. Len(s) # 0
      BY <2>1, <2>2
    <3> QED
      BY <3>1
  <2>8. Grammar!Scale(s) <=> s[1] \in {"E", "e"} /\ Grammar!Decimal(Grammar!From(s, n))
    <3> HIDE DEF s
    <3> QED
      BY <2>7 DEF Grammar!Scale
  <2>9. ScaleAt(q, b) <=> text[q] \in {"E", "e"} /\ c <= b /\ RunIn(c, b, Digit)
    BY <2>1, <1>3 DEF ScaleAt
  <2> HIDE DEF s, n, c
  <2>10. Grammar!Scale(s) <=> ScaleAt(q, b)
    BY <2>2, <2>5, <2>6, <2>8, <2>9
  <2> QED
    BY <2>10 DEF s
<1> QED
  BY <1>1, <1>2, <1>3

\* A real number, by position: the digits, the point, the fraction, the scale factor.
LEMMA RealShape ==
  ASSUME IsText, NEW a \in 1 .. Len(text), NEW b \in a .. Len(text)
  PROVE  Grammar!Real(SubSeq(text, a, b)) <=> RealAt(a, b)
<1> DEFINE s == SubSeq(text, a, b)
           Parts(p, q) ==
             /\ s[p] = "." /\ p < q
             /\ Grammar!Decimal(Grammar!Upto(s, p - 1)) /\ Grammar!All(SubSeq(s, p + 1, q - 1), Digit)
             /\ Grammar!Scale(Grammar!From(s, q))
<1>1. Len(text) \in Nat /\ b \in a - 1 .. Len(text)
  BY DEF IsText
<1>2. Len(s) = b - a + 1 /\ DOMAIN s = 1 .. b - a + 1
  BY <1>1, PieceFacts
<1>3. ASSUME NEW p \in a .. b, NEW q \in a .. b + 1
      PROVE  Parts(p - a + 1, q - a + 1) <=> RealParts(a, b, p, q)
  <2>1. s[p - a + 1] = text[p]
    BY <1>1, PieceFacts
  <2>2. p - a + 1 < q - a + 1 <=> p < q
    BY <1>1
  <2>3. Grammar!Upto(s, p - a + 1 - 1) = SubSeq(text, a, p - 1)
    <3>1. p - 1 \in a - 1 .. b /\ a \in a .. b + 1 /\ a - a + 1 = 1 /\ p - 1 - a + 1 = p - a + 1 - 1
      BY <1>1
    <3>2. SubSeq(s, a - a + 1, p - 1 - a + 1) = SubSeq(text, a, p - 1)
      BY <3>1, PartOfPiece
    <3> QED
      BY <3>1, <3>2 DEF Grammar!Upto
  <2>4. Grammar!Decimal(SubSeq(text, a, p - 1)) <=> a < p /\ RunIn(a, p - 1, Digit)
    <3>1. p - 1 \in a - 1 .. Len(text) /\ (a <= p - 1 <=> a < p)
      BY <1>1
    <3> QED
      BY <3>1, DecimalShape
  <2>5. p < q => SubSeq(s, p - a + 1 + 1, q - a + 1 - 1) = SubSeq(text, p + 1, q - 1)
    <3> SUFFICES ASSUME p < q PROVE SubSeq(s, p - a + 1 + 1, q - a + 1 - 1) = SubSeq(text, p + 1, q - 1)
      OBVIOUS
    <3>1. /\ p + 1 \in a .. b + 1 /\ q - 1 \in p + 1 - 1 .. b
          /\ p + 1 - a + 1 = p - a + 1 + 1 /\ q - 1 - a + 1 = q - a + 1 - 1
      BY <1>1
    <3>2. SubSeq(s, p + 1 - a + 1, q - 1 - a + 1) = SubSeq(text, p + 1, q - 1)
      BY <3>1, PartOfPiece
    <3> QED
      BY <3>1, <3>2
  <2>6. p < q => (Grammar!All(SubSeq(text, p + 1, q - 1), Digit) <=> RunIn(p + 1, q - 1, Digit))
    <3> SUFFICES ASSUME p < q
                 PROVE  Grammar!All(SubSeq(text, p + 1, q - 1), Digit) <=> RunIn(p + 1, q - 1, Digit)
      OBVIOUS
    <3>1. CASE p + 1 \in 1 .. Len(text)
      <4>1. q - 1 \in p + 1 - 1 .. Len(text)
        BY <1>1
      <4> QED
        BY <3>1, <4>1, AllRun
    <3>2. CASE p + 1 \notin 1 .. Len(text)
      <4>1. q - 1 < p + 1 /\ p + 1 \in Int /\ q - 1 \in Int
        BY <1>1, <3>2
      <4>2. SubSeq(text, p + 1, q - 1) = <<>>
        BY <4>1, SubSeqEmpty
      <4>3. RunIn(p + 1, q - 1, Digit)
        BY <4>1 DEF RunIn
      <4> QED
        BY <4>2, <4>3 DEF Grammar!All
    <3> QED
      BY <3>1, <3>2
  <2>7. Grammar!From(s, q - a + 1) = SubSeq(text, q, b)
    <3>1. b \in q - 1 .. b
      BY <1>1
    <3>2. SubSeq(s, q - a + 1, b - a + 1) = SubSeq(text, q, b)
      BY <3>1, PartOfPiece
    <3> QED
      BY <1>2, <3>2 DEF Grammar!From
  <2>8. Grammar!Scale(SubSeq(text, q, b)) <=> ScaleAt(q, b)
    BY ScaleShape
  <2> HIDE DEF s
  <2>9. CASE ~(p < q)
    BY <2>2, <2>9 DEF RealParts
  <2>10. CASE p < q
    <3>1. /\ Grammar!Decimal(Grammar!Upto(s, p - a + 1 - 1)) <=> a < p /\ RunIn(a, p - 1, Digit)
          /\ Grammar!All(SubSeq(s, p - a + 1 + 1, q - a + 1 - 1), Digit) <=> RunIn(p + 1, q - 1, Digit)
          /\ Grammar!Scale(Grammar!From(s, q - a + 1)) <=> ScaleAt(q, b)
      BY <2>3, <2>4, <2>5, <2>6, <2>7, <2>8, <2>10
    <3>2. Parts(p - a + 1, q - a + 1)
          <=> /\ text[p] = "." /\ p - a + 1 < q - a + 1
              /\ a < p /\ RunIn(a, p - 1, Digit) /\ RunIn(p + 1, q - 1, Digit) /\ ScaleAt(q, b)
      BY <2>1, <3>1
    <3> HIDE DEF Parts
    <3> QED
      BY <2>2, <2>10, <3>2 DEF RealParts
  <2> QED
    BY <2>9, <2>10
<1> HIDE DEF Parts
<1>4. Grammar!Real(s) <=> \E p \in 1 .. b - a + 1, q \in 1 .. b - a + 1 + 1 : Parts(p, q)
  <2> HIDE DEF s
  <2> QED
    BY <1>2 DEF Grammar!Real, Parts
<1> HIDE DEF s
<1>5. ASSUME NEW p \in 1 .. b - a + 1, NEW q \in 1 .. b - a + 1 + 1, Parts(p, q)
      PROVE  RealAt(a, b)
  <2>1. /\ a + p - 1 \in a .. b /\ a + q - 1 \in a .. b + 1
        /\ a + p - 1 - a + 1 = p /\ a + q - 1 - a + 1 = q
    BY <1>1
  <2>2. Parts(a + p - 1 - a + 1, a + q - 1 - a + 1)
    BY <2>1, <1>5
  <2>3. RealParts(a, b, a + p - 1, a + q - 1)
    BY <2>1, <2>2, <1>3
  <2> QED
    BY <2>1, <2>3 DEF RealAt
<1>6. ASSUME NEW p \in a .. b, NEW q \in a .. b + 1, RealParts(a, b, p, q)
      PROVE  Grammar!Real(s)
  <2>1. p - a + 1 \in 1 .. b - a + 1 /\ q - a + 1 \in 1 .. b - a + 1 + 1
    BY <1>1
  <2> QED
    BY <2>1, <1>3, <1>4, <1>6
<1>7. Grammar!Real(s) <=> RealAt(a, b)
  BY <1>4, <1>5, <1>6 DEF RealAt
<1> QED
  BY <1>7 DEF s

\* Strings, by position.
StringAt(a, b) ==
  a < b /\ text[a] \in Quote /\ text[b] = text[a] /\ \A j \in a + 1 .. b - 1 : text[j] \notin {text[a]} \cup NewLine

\* A string, by position.
LEMMA StringShape ==
  ASSUME IsText, NEW a \in 1 .. Len(text), NEW b \in a .. Len(text)
  PROVE  Grammar!String(SubSeq(text, a, b)) <=> StringAt(a, b)
<1> DEFINE s == SubSeq(text, a, b)
<1>1. Len(text) \in Nat /\ b \in a - 1 .. Len(text) /\ a \in a .. b /\ b \in a .. b /\ a - a + 1 = 1
  BY DEF IsText
<1>2. /\ Len(s) = b - a + 1 /\ s[b - a + 1] = text[b]
      /\ \A i \in 1 .. b - a + 1 : s[i] = text[a + i - 1]
      /\ \A j \in a .. b : s[j - a + 1] = text[j]
  BY <1>1, PieceFacts
<1>3. s[1] = text[a]
  BY <1>1, <1>2
<1> HIDE DEF s
<1>4. (\A i \in 2 .. Len(s) - 1 : s[i] \notin {s[1]} \cup NewLine)
      <=> \A j \in a + 1 .. b - 1 : text[j] \notin {text[a]} \cup NewLine
  <2>1. \A i \in 2 .. b - a + 1 - 1 : a + i - 1 \in a + 1 .. b - 1 /\ i \in 1 .. b - a + 1
    BY <1>1
  <2>2. \A j \in a + 1 .. b - 1 : j - a + 1 \in 2 .. b - a + 1 - 1 /\ j \in a .. b
    BY <1>1
  <2> DEFINE Stops == {text[a]} \cup NewLine
  <2> HIDE DEF Stops
  <2>3. ASSUME \A i \in 2 .. b - a + 1 - 1 : s[i] \notin Stops, NEW j \in a + 1 .. b - 1
        PROVE  text[j] \notin Stops
    BY <2>2, <2>3, <1>2
  <2>4. ASSUME \A j \in a + 1 .. b - 1 : text[j] \notin Stops, NEW i \in 2 .. b - a + 1 - 1
        PROVE  s[i] \notin Stops
    BY <2>1, <2>4, <1>2
  <2>5. (\A i \in 2 .. b - a + 1 - 1 : s[i] \notin Stops)
        <=> \A j \in a + 1 .. b - 1 : text[j] \notin Stops
    BY <2>3, <2>4
  <2> QED
    BY <2>5, <1>2, <1>3 DEF Stops
<1>5. Len(s) > 1 <=> a < b
  BY <1>1, <1>2
<1>6. Grammar!String(s) <=> StringAt(a, b)
  BY <1>2, <1>3, <1>4, <1>5 DEF Grammar!String, StringAt
<1> QED
  BY <1>6 DEF s

\* Symbols, by position.
SymbolAt(a, b) ==
  /\ text[a] \in {"("} \cup Single \cup DOMAIN Double
  /\ a = b \/ (b = a + 1 /\ text[a] \in DOMAIN Double /\ text[b] = Double[text[a]])

Symbols ==
  {<<c>> : c \in {"("} \cup Single \cup DOMAIN Double} \cup {<<c, Double[c]>> : c \in DOMAIN Double}

\* A sequence of two is its two elements.
LEMMA TwoCharacters ==
  ASSUME NEW s \in Seq(STRING), Len(s) = 2
  PROVE  s = <<s[1], s[2]>>
<1>1. s[1] \in STRING /\ s[2] \in STRING
  <2>1. 1 \in 1 .. Len(s) /\ 2 \in 1 .. Len(s)
    OBVIOUS
  <2> QED
    BY <2>1, ElementOfSeq
<1>2. <<s[1], s[2]>> \in Seq(STRING) /\ Len(<<s[1], s[2]>>) = 2
  BY <1>1
<1>3. \A i \in 1 .. Len(s) : i = 1 \/ i = 2
  OBVIOUS
<1>4. \A i \in 1 .. Len(s) : s[i] = <<s[1], s[2]>>[i]
  BY <1>3
<1> QED
  BY <1>2, <1>4, SeqEqual

\* A symbol of one or two characters, by position.
LEMMA SymbolShape ==
  ASSUME IsText, NEW a \in 1 .. Len(text), NEW b \in a .. Len(text)
  PROVE  SubSeq(text, a, b) \in Symbols <=> SymbolAt(a, b)
<1> DEFINE s == SubSeq(text, a, b)
<1>1. Len(text) \in Nat /\ b \in a - 1 .. Len(text) /\ a \in a .. b /\ b \in a .. b /\ a - a + 1 = 1
  BY DEF IsText
<1>2. s \in Seq(STRING) /\ Len(s) = b - a + 1 /\ s[1] = text[a] /\ s[b - a + 1] = text[b]
  <2>1. s \in Seq(STRING) /\ Len(s) = b - a + 1 /\ s[a - a + 1] = text[a] /\ s[b - a + 1] = text[b]
    BY <1>1, PieceFacts
  <2> QED
    BY <1>1, <2>1
<1> HIDE DEF s
<1>3. ASSUME s \in Symbols PROVE SymbolAt(a, b)
  <2>1. CASE \E c \in {"("} \cup Single \cup DOMAIN Double : s = <<c>>
    <3>1. PICK c \in {"("} \cup Single \cup DOMAIN Double : s = <<c>>
      BY <2>1
    <3>2. Len(s) = 1 /\ s[1] = c
      BY <3>1
    <3>3. b - a + 1 = 1
      BY <1>2, <3>2
    <3>4. a = b
      BY <1>1, <3>3
    <3> QED
      BY <1>2, <3>2, <3>4 DEF SymbolAt
  <2>2. CASE \E c \in DOMAIN Double : s = <<c, Double[c]>>
    <3>1. PICK c \in DOMAIN Double : s = <<c, Double[c]>>
      BY <2>2
    <3>2. Len(s) = 2 /\ s[1] = c /\ s[2] = Double[c]
      BY <3>1
    <3>3. b - a + 1 = 2
      BY <1>2, <3>2
    <3>4. b = a + 1
      BY <1>1, <3>3
    <3> QED
      BY <1>2, <3>2, <3>3, <3>4 DEF SymbolAt
  <2> QED
    BY <1>3, <2>1, <2>2 DEF Symbols
<1>4. ASSUME SymbolAt(a, b) PROVE s \in Symbols
  <2>1. CASE a = b
    <3>1. Len(s) = 1
      BY <1>1, <1>2, <2>1
    <3>2. s = <<text[a]>>
      BY <1>2, <3>1
    <3> QED
      BY <1>4, <3>2 DEF SymbolAt, Symbols
  <2>2. CASE b = a + 1 /\ text[a] \in DOMAIN Double /\ text[b] = Double[text[a]]
    <3>1. Len(s) = 2 /\ s[2] = text[b]
      BY <1>1, <1>2, <2>2
    <3>2. s = <<s[1], s[2]>>
      BY <1>2, <3>1, TwoCharacters
    <3>3. s = <<text[a], Double[text[a]]>>
      BY <1>2, <2>2, <3>1, <3>2
    <3> QED
      BY <2>2, <3>3 DEF Symbols
  <2> QED
    BY <1>4, <2>1, <2>2 DEF SymbolAt
<1> QED
  BY <1>3, <1>4 DEF s

\* What kind of token the characters from a to b can be.
LEMMA KindShapes ==
  ASSUME IsText, NEW a \in 1 .. Len(text), NEW b \in a .. Len(text)
  PROVE  LET s == SubSeq(text, a, b) IN
         /\ Grammar!IsA(s, "identifier") <=> text[a] \in Letter /\ RunIn(a, b, Body) /\ s \notin Keywords
         /\ Grammar!IsA(s, "keyword") <=> text[a] \in Letter /\ RunIn(a, b, Body) /\ s \in Keywords
         /\ Grammar!IsA(s, "integer_literal") <=> RunIn(a, b, Digit) \/ HexAt(a, b)
         /\ Grammar!IsA(s, "real_literal") <=> RealAt(a, b)
         /\ Grammar!IsA(s, "string_literal") <=> StringAt(a, b)
         /\ Grammar!IsA(s, "punctuator") <=> SymbolAt(a, b)
<1> DEFINE s == SubSeq(text, a, b)
<1>1. Len(text) \in Nat /\ b \in a - 1 .. Len(text) /\ a <= b
  BY DEF IsText
<1>2. Grammar!Name(s) <=> text[a] \in Letter /\ RunIn(a, b, Body)
  BY NameShape
<1>3. s \in Keywords => text[a] \in Letter /\ RunIn(a, b, Body)
  <2> SUFFICES ASSUME s \in Keywords PROVE text[a] \in Letter /\ RunIn(a, b, Body)
    OBVIOUS
  <2>1. s \in Seq(Body) /\ s[1] \in Letter
    BY KeywordsAreNames
  <2>2. \A i \in DOMAIN s : s[i] \in Body
    BY <2>1
  <2>3. Grammar!All(s, Body)
    BY <2>2 DEF Grammar!All
  <2>4. RunIn(a, b, Body)
    BY <1>1, <2>3, AllRun
  <2>5. s[1] = text[a]
    <3>1. a \in a .. b /\ a - a + 1 = 1
      BY <1>1
    <3>2. s[a - a + 1] = text[a]
      BY <1>1, <3>1, PieceFacts
    <3> QED
      BY <3>1, <3>2
  <2> QED
    BY <2>1, <2>4, <2>5
<1>4. Grammar!Decimal(s) <=> RunIn(a, b, Digit)
  BY <1>1, DecimalShape
<1>5. /\ Grammar!Hex(s) <=> HexAt(a, b)
      /\ Grammar!Real(s) <=> RealAt(a, b)
      /\ Grammar!String(s) <=> StringAt(a, b)
      /\ s \in Symbols <=> SymbolAt(a, b)
  BY HexShape, RealShape, StringShape, SymbolShape
<1> HIDE DEF s
<1>6. /\ Grammar!IsA(s, "identifier") <=> Grammar!Name(s) /\ s \notin Keywords
      /\ Grammar!IsA(s, "keyword") <=> s \in Keywords
      /\ Grammar!IsA(s, "integer_literal") <=> Grammar!Decimal(s) \/ Grammar!Hex(s)
      /\ Grammar!IsA(s, "real_literal") <=> Grammar!Real(s)
      /\ Grammar!IsA(s, "string_literal") <=> Grammar!String(s)
      /\ Grammar!IsA(s, "punctuator") <=> s \in Symbols
  BY DEF Grammar!IsA, Symbols
<1>7. /\ Grammar!IsA(s, "identifier") <=> text[a] \in Letter /\ RunIn(a, b, Body) /\ s \notin Keywords
      /\ Grammar!IsA(s, "keyword") <=> text[a] \in Letter /\ RunIn(a, b, Body) /\ s \in Keywords
      /\ Grammar!IsA(s, "integer_literal") <=> RunIn(a, b, Digit) \/ HexAt(a, b)
      /\ Grammar!IsA(s, "real_literal") <=> RealAt(a, b)
      /\ Grammar!IsA(s, "string_literal") <=> StringAt(a, b)
      /\ Grammar!IsA(s, "punctuator") <=> SymbolAt(a, b)
  BY <1>2, <1>3, <1>4, <1>5, <1>6
<1> QED
  BY <1>7 DEF s

\* The kinds of the grammar are those formToken is called with.
LEMMA KindNames == Grammar!Kinds = TokenKinds
BY DEF Grammar!Kinds, TokenKinds

\* The characters from a to b are a token of some kind.
IsToken(a, b) ==
  \/ text[a] \in Letter /\ RunIn(a, b, Body)
  \/ text[a] \in Digit /\ (RunIn(a, b, Digit) \/ HexAt(a, b) \/ RealAt(a, b))
  \/ StringAt(a, b)
  \/ SymbolAt(a, b)

\* A token of the grammar is one by position.
LEMMA TokenShape ==
  ASSUME IsText, NEW a \in 1 .. Len(text), NEW b \in a .. Len(text),
         NEW k \in Grammar!Kinds, Grammar!IsA(SubSeq(text, a, b), k)
  PROVE  IsToken(a, b)
<1> DEFINE s == SubSeq(text, a, b)
<1>1. /\ Grammar!IsA(s, "identifier") <=> text[a] \in Letter /\ RunIn(a, b, Body) /\ s \notin Keywords
      /\ Grammar!IsA(s, "keyword") <=> text[a] \in Letter /\ RunIn(a, b, Body) /\ s \in Keywords
      /\ Grammar!IsA(s, "integer_literal") <=> RunIn(a, b, Digit) \/ HexAt(a, b)
      /\ Grammar!IsA(s, "real_literal") <=> RealAt(a, b)
      /\ Grammar!IsA(s, "string_literal") <=> StringAt(a, b)
      /\ Grammar!IsA(s, "punctuator") <=> SymbolAt(a, b)
  BY KindShapes
<1>2. Grammar!IsA(s, k)
  OBVIOUS
<1> HIDE DEF s
<1>3. a \in a .. b
  BY DEF IsText
<1>4. RunIn(a, b, Digit) => text[a] \in Digit
  BY <1>3 DEF RunIn
<1>5. RealAt(a, b) => text[a] \in Digit
  <2> SUFFICES ASSUME NEW p \in a .. b, a < p, RunIn(a, p - 1, Digit) PROVE text[a] \in Digit
    BY DEF RealAt, RealParts
  <2>1. a \in a .. p - 1
    BY DEF IsText
  <2> QED
    BY <2>1 DEF RunIn
<1>6. k \in TokenKinds
  BY KindNames
<1> QED
  BY <1>1, <1>2, <1>4, <1>5, <1>6 DEF TokenKinds, IsToken, HexAt

\* TokensAsSpelled for one token.
SpelledIn(file, reports, t) ==
  LET longer == {e \in t.at + t.length .. Len(file) - 1 :
                   \E k \in Grammar!Kinds : Grammar!IsA(SubSeq(file, t.at, e), k)}
      range(p) == SubSeq(file, p, p + 1) = <<".", ".">>
  IN  \/ \E r \in reports : r[2] = t.at
      \/ t.kind = "string_literal" /\ file[t.at + t.length - 1] = Nul
      \/ /\ Grammar!IsA(SubSeq(file, t.at, t.at + t.length - 1), t.kind)
         /\ longer = {} \/ (t.kind = "integer_literal" /\ range(t.at + t.length))
         /\ ~(t.kind = "real_literal" /\ range(t.at + t.length - 1))

\* TokensAsSpelled is said of each token by itself.
LEMMA TokenByToken == TokensAsSpelled <=> \A i \in DOMAIN formed : SpelledIn(text, reported, formed[i])
BY DEF TokensAsSpelled, SpelledIn, ReportedAt, EndsInNul, Spelling, BeforeRange

\* More reports do no harm.
LEMMA SpelledStill ==
  ASSUME NEW file, NEW reports, NEW more, reports \subseteq more, NEW t, SpelledIn(file, reports, t)
  PROVE  SpelledIn(file, more, t)
BY DEF SpelledIn

\* A step that forms no token.
LEMMA NoToken ==
  ASSUME TokensAsSpelled, UNCHANGED <<text, formed>>, reported \subseteq reported'
  PROVE  TokensAsSpelled'
<1>1. \A i \in DOMAIN formed : SpelledIn(text, reported, formed[i])
  BY TokenByToken
<1>2. \A i \in DOMAIN formed : SpelledIn(text, reported', formed[i])
  BY <1>1, SpelledStill
<1>3. TokensAsSpelled' <=> \A i \in DOMAIN formed' : SpelledIn(text', reported', formed'[i])
  BY DEF TokensAsSpelled, SpelledIn, ReportedAt, EndsInNul, Spelling, BeforeRange
<1> QED
  BY <1>2, <1>3

\* A step that forms one.
LEMMA OneToken ==
  ASSUME LexInv, TokensAsSpelled, NEW kind, NEW end, formToken(kind, end), reported \subseteq reported',
         SpelledIn(text, reported', [kind |-> kind, at |-> Here, length |-> end - Here])
  PROVE  TokensAsSpelled'
<1> DEFINE new == [kind |-> kind, at |-> Here, length |-> end - Here]
<1>1. formed' = Append(formed, new) /\ text' = text
  BY Formed
<1>2. \A i \in DOMAIN formed : SpelledIn(text, reported', formed[i])
  <2>1. \A i \in DOMAIN formed : SpelledIn(text, reported, formed[i])
    BY TokenByToken
  <2> QED
    BY <2>1, SpelledStill
<1>3. TokensAsSpelled' <=> \A i \in DOMAIN formed' : SpelledIn(text', reported', formed'[i])
  BY DEF TokensAsSpelled, SpelledIn, ReportedAt, EndsInNul, Spelling, BeforeRange
<1>4. SpelledIn(text, reported', new)
  OBVIOUS
<1> HIDE DEF new
<1>5. DOMAIN formed' = DOMAIN formed \cup {Len(formed) + 1} /\ formed'[Len(formed) + 1] = new
      /\ \A i \in DOMAIN formed : formed'[i] = formed[i]
  BY <1>1 DEF LexInv
<1>6. \A i \in DOMAIN formed' : SpelledIn(text, reported', formed'[i])
  BY <1>2, <1>4, <1>5
<1> QED
  BY <1>1, <1>3, <1>6

\* The token from a up to end, if it is one, nothing longer is, and it leaves
\* the points of a range alone.
LEMMA SpelledWhen ==
  ASSUME IsText, NEW a \in 1 .. Len(text), NEW end \in a + 1 .. Len(text) + 1, NEW kind, NEW reports,
         Grammar!IsA(SubSeq(text, a, end - 1), kind),
         (\A e \in end .. Len(text) - 1 : ~IsToken(a, e)) \/ (kind = "integer_literal" /\ BeforeRange(end)),
         ~(kind = "real_literal" /\ BeforeRange(end - 1))
  PROVE  SpelledIn(text, reports, [kind |-> kind, at |-> a, length |-> end - a])
<1> DEFINE t == [kind |-> kind, at |-> a, length |-> end - a]
<1>1. Len(text) \in Nat /\ end \in Nat /\ a \in Nat
  BY DEF IsText
<1>2. t.at = a /\ t.kind = kind /\ t.at + t.length = end /\ t.at + t.length - 1 = end - 1
  BY <1>1
<1> HIDE DEF t
<1>3. ASSUME NEW e \in end .. Len(text) - 1, ~IsToken(a, e)
      PROVE  ~\E k \in Grammar!Kinds : Grammar!IsA(SubSeq(text, a, e), k)
  <2>1. e \in a .. Len(text)
    BY <1>1
  <2> QED
    BY <1>3, <2>1, TokenShape
<1>4. SpelledIn(text, reports, t)
  <2>1. CASE \A e \in end .. Len(text) - 1 : ~IsToken(a, e)
    <3>1. {e \in t.at + t.length .. Len(text) - 1 :
             \E k \in Grammar!Kinds : Grammar!IsA(SubSeq(text, t.at, e), k)} = {}
      BY <1>2, <1>3, <2>1
    <3> QED
      BY <1>2, <3>1 DEF SpelledIn, BeforeRange
  <2>2. CASE kind = "integer_literal" /\ BeforeRange(end)
    BY <1>2, <2>2 DEF SpelledIn, BeforeRange
  <2> QED
    BY <2>1, <2>2
<1> QED
  BY <1>4 DEF t

\* A token something was reported of.
LEMMA SpelledReported ==
  ASSUME NEW reports, NEW t, NEW r \in reports, r[2] = t.at
  PROVE  SpelledIn(text, reports, t)
BY DEF SpelledIn

-----------------------------------------------------------------------------
\* The first character tells what token there can be.
LEMMA FirstTells ==
  ASSUME NEW a, NEW b, IsToken(a, b)
  PROVE  /\ text[a] \in Letter => RunIn(a, b, Body)
         /\ text[a] \in Digit => RunIn(a, b, Digit) \/ HexAt(a, b) \/ RealAt(a, b)
         /\ text[a] \in Quote => StringAt(a, b)
         /\ text[a] \in {"("} \cup Single \cup DOMAIN Double => SymbolAt(a, b)
<1> DEFINE c == text[a]
<1>1. /\ c \in Letter => c \notin Digit \cup Quote \cup {"("} \cup Single \cup DOMAIN Double
      /\ c \in Digit => c \notin Quote \cup {"("} \cup Single \cup DOMAIN Double
      /\ c \in Quote => c \notin {"("} \cup Single \cup DOMAIN Double
  BY DEF Letter, Digit, Quote, Single, Double
<1> QED
  BY <1>1 DEF IsToken, StringAt, SymbolAt

\* Two points in a row.
LEMMA RangePoints ==
  ASSUME IsText, NEW p \in 1 .. Len(text) - 1
  PROVE  BeforeRange(p) <=> text[p] = "." /\ text[p + 1] = "."
<1> DEFINE s == SubSeq(text, p, p + 1)
<1>1. /\ Len(text) \in Nat /\ p \in 1 .. Len(text) /\ p + 1 \in p - 1 .. Len(text)
      /\ p \in p .. p + 1 /\ p + 1 \in p .. p + 1 /\ p - p + 1 = 1 /\ p + 1 - p + 1 = 2
  BY DEF IsText
<1>2. s \in Seq(STRING) /\ Len(s) = 2 /\ s[1] = text[p] /\ s[2] = text[p + 1]
  <2>1. s \in Seq(STRING) /\ Len(s) = p + 1 - p + 1 /\ s[p - p + 1] = text[p]
        /\ s[p + 1 - p + 1] = text[p + 1]
    BY <1>1, PieceFacts
  <2> QED
    BY <1>1, <2>1
<1> HIDE DEF s
<1>3. ASSUME s[1] = ".", s[2] = "." PROVE s = <<".", ".">>
  <2>1. s = <<s[1], s[2]>>
    BY <1>2, TwoCharacters
  <2> QED
    BY <1>3, <2>1
<1>4. BeforeRange(p) <=> s = <<".", ".">>
  BY DEF BeforeRange, s
<1>5. s = <<".", ".">> => s[1] = "." /\ s[2] = "."
  OBVIOUS
<1> QED
  BY <1>2, <1>3, <1>4, <1>5

\* The digits of a number.
LEMMA DigitsRun ==
  ASSUME LexInv, At(Digit)
  PROVE  /\ text[Here] \in Digit /\ RunIn(Here, DigitsEnd - 1, HexDigit)
         /\ text[DigitsEnd] \notin HexDigit
         /\ ~IsHex => RunIn(Here, DigitsEnd - 1, Digit)
<1>1. /\ Reading /\ IsText /\ Here \in 1 .. Len(text) /\ Len(text) \in Nat
      /\ DigitsEnd \in Here + 1 .. Len(text) /\ text[Here] \in Digit
  BY NumberBegins DEF At
<1>2. Here + 1 \in 1 .. Len(text) /\ Nul \notin HexDigit
  BY <1>1 DEF HexDigit, Digit, Nul
<1>3. text[DigitsEnd] \notin HexDigit /\ \A k \in Here + 1 .. DigitsEnd - 1 : text[k] \in HexDigit
  BY <1>1, <1>2, SkipEnds DEF DigitsEnd
<1>4. \A k \in Here .. DigitsEnd - 1 : k = Here \/ k \in Here + 1 .. DigitsEnd - 1
  BY <1>1
<1>5. RunIn(Here, DigitsEnd - 1, HexDigit)
  BY <1>1, <1>3, <1>4 DEF RunIn, HexDigit
<1>6. ~IsHex => RunIn(Here, DigitsEnd - 1, Digit)
  BY <1>1, <1>4 DEF RunIn, IsHex
<1> QED
  BY <1>1, <1>3, <1>5, <1>6

\* What a number that goes on behind its digits can be.
LEMMA BehindDigits ==
  ASSUME IsText, NEW a \in 1 .. Len(text), NEW d \in a + 1 .. Len(text), text[a] \in Digit,
         RunIn(a, d - 1, HexDigit), text[d] \notin HexDigit, NEW e \in d .. Len(text), IsToken(a, e)
  PROVE  \/ e = d /\ text[d] = "H"
         \/ text[d] = "." /\ \E q \in a .. e + 1 : RealParts(a, e, d, q)
<1>1. Len(text) \in Nat /\ d \in a .. e
  BY DEF IsText
<1>2. CASE RunIn(a, e, Digit)
  BY <1>1, <1>2 DEF RunIn, HexDigit
<1>3. CASE HexAt(a, e)
  <2>1. d = e \/ d \in a .. e - 1
    BY <1>1
  <2> QED
    BY <1>3, <2>1 DEF HexAt, RunIn
<1>4. CASE RealAt(a, e)
  <2>1. PICK p \in a .. e, q \in a .. e + 1 : RealParts(a, e, p, q)
    BY <1>4 DEF RealAt
  <2>2. p \notin a .. d - 1
    <3>1. text[p] \notin HexDigit
      BY <2>1 DEF RealParts, HexDigit, Digit
    <3> QED
      BY <3>1 DEF RunIn
  <2>3. d \notin a .. p - 1
    BY <2>1 DEF RealParts, RunIn, HexDigit
  <2>4. p = d
    BY <1>1, <2>2, <2>3
  <2> QED
    BY <2>1, <2>4 DEF RealParts
<1> QED
  BY <1>2, <1>3, <1>4, FirstTells

\* A name: what is behind it cannot continue it.
LEMMA identifierSpells ==
  ASSUME LexInv, TokensAsSpelled, identifier
  PROVE  TokensAsSpelled'
<1> DEFINE end == Skip(Here + 1, Body)
           name == SubSeq(text, Here, end - 1)
           kind == IF name \in Keywords THEN "keyword" ELSE "identifier"
<1>1. Reading /\ text[Here] \in Letter /\ formToken(kind, end) /\ UNCHANGED reported
  BY DEF identifier, At
<1>2. Here \in 1 .. Len(text) /\ Len(text) \in Nat /\ IsText
  BY <1>1, HereWithin DEF LexInv, IsText
<1>3. Here + 1 \in 1 .. Len(text)
  BY <1>1, <1>2, NotLast DEF Letter, Nul
<1>4. /\ end \in Here + 1 .. Len(text) /\ text[end] \notin Body
      /\ \A k \in Here + 1 .. end - 1 : text[k] \in Body
  <2>1. Nul \notin Body
    BY DEF Body, Letter, Digit, Nul
  <2> QED
    BY <1>2, <1>3, <2>1, SkipEnds
<1> HIDE DEF end
<1>5. RunIn(Here, end - 1, Body)
  <2>1. \A k \in Here .. end - 1 : k = Here \/ k \in Here + 1 .. end - 1
    BY <1>2, <1>4
  <2> QED
    BY <1>1, <1>4, <2>1 DEF RunIn, Body
<1>6. Grammar!IsA(name, kind)
  <2>1. end - 1 \in Here .. Len(text)
    BY <1>2, <1>4
  <2>2. /\ Grammar!IsA(name, "identifier")
             <=> text[Here] \in Letter /\ RunIn(Here, end - 1, Body) /\ name \notin Keywords
        /\ Grammar!IsA(name, "keyword")
             <=> text[Here] \in Letter /\ RunIn(Here, end - 1, Body) /\ name \in Keywords
    BY <1>2, <2>1, KindShapes
  <2> QED
    BY <1>1, <1>5, <2>2
<1>7. ASSUME NEW e \in end .. Len(text) - 1 PROVE ~IsToken(Here, e)
  <2>1. end \in Here .. e
    BY <1>2, <1>4
  <2> QED
    BY <1>1, <1>4, <2>1, FirstTells DEF RunIn
<1>8. kind # "real_literal"
  OBVIOUS
<1> HIDE DEF kind
<1>9. SpelledIn(text, reported', [kind |-> kind, at |-> Here, length |-> end - Here])
  <2>1. end \in Here + 1 .. Len(text) + 1
    BY <1>2, <1>4
  <2> QED
    BY <1>2, <1>6, <1>7, <1>8, <2>1, SpelledWhen
<1> QED
  BY <1>1, <1>9, OneToken

\* A hexadecimal number ends with the only H in it.
LEMMA HexNumberSpells ==
  ASSUME LexInv, TokensAsSpelled, HexNumber
  PROVE  TokensAsSpelled'
<1> DEFINE d == DigitsEnd
<1>1. At(Digit) /\ text[d] = "H" /\ UNCHANGED reported /\ formToken("integer_literal", d + 1)
  BY DEF HexNumber
<1>2. /\ IsText /\ Here \in 1 .. Len(text) /\ Len(text) \in Nat /\ d \in Here + 1 .. Len(text)
      /\ text[Here] \in Digit /\ RunIn(Here, d - 1, HexDigit) /\ text[d] \notin HexDigit
  BY <1>1, NumberBegins, DigitsRun
<1> HIDE DEF d
<1> DEFINE end == d + 1
<1>3. formToken("integer_literal", end) /\ end \in Here + 1 .. Len(text) + 1 /\ end - 1 = d
  BY <1>1, <1>2
<1>4. \A e \in end .. Len(text) - 1 : e \in d .. Len(text) /\ e # d
  BY <1>2
<1> HIDE DEF end
<1>5. Grammar!IsA(SubSeq(text, Here, end - 1), "integer_literal")
  <2>1. d \in Here .. Len(text) /\ Here < d
    BY <1>2
  <2>2. HexAt(Here, d)
    BY <1>1, <1>2, <2>1 DEF HexAt
  <2> QED
    BY <1>2, <1>3, <2>1, <2>2, KindShapes
<1>6. \A e \in end .. Len(text) - 1 : ~IsToken(Here, e)
  BY <1>1, <1>2, <1>4, BehindDigits
<1>7. SpelledIn(text, reported', [kind |-> "integer_literal", at |-> Here, length |-> end - Here])
  BY <1>2, <1>3, <1>5, <1>6, SpelledWhen
<1> QED
  BY <1>1, <1>3, <1>7, OneToken

\* A decimal number goes on only as a real one or as a hexadecimal one, unless its
\* point is one of the two of a range.
LEMMA DecimalNumberSpells ==
  ASSUME LexInv, TokensAsSpelled, DecimalNumber
  PROVE  TokensAsSpelled'
<1> DEFINE d == DigitsEnd
           new == [kind |-> "integer_literal", at |-> Here, length |-> d - Here]
<1>1. /\ At(Digit) /\ (text[d] \notin {"H", "."} \/ RangeBound)
      /\ formToken("integer_literal", d) /\ Report(HexInDecimal)
  BY DEF DecimalNumber
<1>2. At(Digit)
  BY DEF DecimalNumber
<1>3. /\ IsText /\ Here \in 1 .. Len(text) /\ Len(text) \in Nat /\ d \in Here + 1 .. Len(text)
      /\ text[Here] \in Digit /\ RunIn(Here, d - 1, HexDigit) /\ text[d] \notin HexDigit
      /\ ~IsHex => RunIn(Here, d - 1, Digit)
  BY <1>2, NumberBegins, DigitsRun
<1>4. RangeBound => text[d] = "." /\ text[d + 1] = "."
  BY DEF RangeBound
<1>5. reported' = reported \cup (HexInDecimal \X {Here})
  BY <1>1 DEF Report
<1> HIDE DEF d
<1>6. SpelledIn(text, reported', new)
  <2>1. CASE IsHex
    <3>1. <<"err_hex_digit_in_decimal", Here>> \in reported'
      BY <1>5, <2>1 DEF HexInDecimal
    <3> QED
      BY <3>1, SpelledReported
  <2>2. CASE ~IsHex
    <3>1. d - 1 \in Here .. Len(text) /\ d \in Here + 1 .. Len(text) + 1
      BY <1>3
    <3>2. Grammar!IsA(SubSeq(text, Here, d - 1), "integer_literal")
      BY <1>3, <2>2, <3>1, KindShapes
    <3>3. CASE text[d] \notin {"H", "."}
      <4>1. ASSUME NEW e \in d .. Len(text) - 1 PROVE ~IsToken(Here, e)
        <5>1. e \in d .. Len(text)
          BY <1>3
        <5> QED
          BY <1>3, <3>3, <5>1, BehindDigits
      <4> QED
        BY <1>3, <3>1, <3>2, <4>1, SpelledWhen
    <3>4. CASE RangeBound
      <4>1. d + 1 \in 1 .. Len(text)
        BY <1>3, <1>4, <3>4, NotLast DEF Nul
      <4>2. d \in 1 .. Len(text) - 1
        BY <1>3, <4>1
      <4>3. BeforeRange(d)
        BY <1>3, <1>4, <3>4, <4>2, RangePoints
      <4> QED
        BY <1>3, <3>1, <3>2, <4>3, SpelledWhen
    <3> QED
      BY <1>1, <3>3, <3>4 DEF d
  <2> QED
    BY <2>1, <2>2
<1>7. reported \subseteq reported'
  BY <1>5
<1>8. formToken("integer_literal", d)
  BY <1>1 DEF d
<1> QED
  BY <1>6, <1>7, <1>8, OneToken

\* Symbols of one and of two characters.
LEMMA PunctuatorSpells ==
  ASSUME LexInv, TokensAsSpelled, SingleCharacter \/ Punctuator
  PROVE  TokensAsSpelled'
<1> DEFINE joined == text[Here] \in DOMAIN Double /\ text[Here + 1] = Double[text[Here]]
           n == IF joined THEN 2 ELSE 1
           end == Here + n
<1>1. formToken("punctuator", end) /\ UNCHANGED reported
      /\ At({"("} \cup Single \cup DOMAIN Double)
  <2>1. CASE SingleCharacter
    <3>1. text[Here] \in Single
      BY <2>1 DEF SingleCharacter, At
    <3>2. ~joined
      BY <3>1 DEF Single, Double
    <3> QED
      BY <2>1, <3>2 DEF SingleCharacter, At
  <2>2. CASE Punctuator
    <3>1. text[Here] \in {"("} \cup DOMAIN Double
      BY <2>2 DEF Punctuator, At
    <3>2. joined <=> text[Here] # "(" /\ text[Here + 1] = Double[text[Here]]
      BY <3>1 DEF Double
    <3> QED
      BY <2>2, <3>2 DEF Punctuator, At
  <2> QED
    BY <2>1, <2>2
<1>2. Reading /\ IsText /\ Here \in 1 .. Len(text) /\ Len(text) \in Nat
      /\ text[Here] \in {"("} \cup Single \cup DOMAIN Double
  BY <1>1, HereWithin DEF At, LexInv, IsText
<1>3. Here + 1 \in 1 .. Len(text)
  BY <1>1, <1>2, NotLast DEF Single, Double, Nul
<1>4. joined => Here + 2 \in 1 .. Len(text)
  <2>1. joined => text[Here + 1] # Nul
    BY DEF Double, Nul
  <2>2. joined => Here + 1 + 1 \in 1 .. Len(text)
    BY <1>2, <1>3, <2>1, NotLast
  <2> QED
    BY <1>2, <2>2
<1>5. n \in {1, 2} /\ (n = 2 <=> joined)
  OBVIOUS
<1> HIDE DEF joined, n
<1>6. SymbolAt(Here, end - 1)
  <2>1. CASE joined
    <3>1. end - 1 = Here + 1
      BY <1>2, <1>5, <2>1
    <3> QED
      BY <1>2, <2>1, <3>1 DEF SymbolAt, joined
  <2>2. CASE ~joined
    <3>1. end - 1 = Here
      BY <1>2, <1>5, <2>2
    <3> QED
      BY <1>2, <3>1 DEF SymbolAt
  <2> QED
    BY <2>1, <2>2
<1>7. ASSUME NEW e \in end .. Len(text) - 1, IsToken(Here, e) PROVE FALSE
  <2>1. SymbolAt(Here, e)
    BY <1>2, <1>7, FirstTells
  <2>2. e = Here + 1 /\ joined
    <3>1. e # Here
      BY <1>2, <1>5
    <3> QED
      BY <2>1, <3>1 DEF SymbolAt, joined
  <2> QED
    BY <1>2, <1>5, <2>2
<1>8. end \in Here + 1 .. Len(text) + 1 /\ end - 1 \in Here .. Len(text)
  BY <1>2, <1>3, <1>4, <1>5
<1> HIDE DEF end
<1>9. Grammar!IsA(SubSeq(text, Here, end - 1), "punctuator")
  BY <1>2, <1>6, <1>8, KindShapes
<1>10. SpelledIn(text, reported', [kind |-> "punctuator", at |-> Here, length |-> end - Here])
  BY <1>2, <1>7, <1>8, <1>9, SpelledWhen
<1> QED
  BY <1>1, <1>10, OneToken

\* A string is closed by the first quote like the one that opens it.
LEMMA stringSpells ==
  ASSUME LexInv, TokensAsSpelled, string
  PROVE  TokensAsSpelled'
<1> DEFINE stops == {Nul, text[Here]} \cup NewLine
           close == CHOOSE j \in Here + 1 .. Len(text) :
             text[j] \in stops /\ \A k \in Here + 1 .. j - 1 : text[k] \notin stops
           end == close + 1
           new == [kind |-> "string_literal", at |-> Here, length |-> end - Here]
<1>1. /\ At(Quote) /\ formToken("string_literal", end)
      /\ Report(IF text[close] \in NewLine THEN {"err_unterminated_char_or_string"} ELSE {})
  BY DEF string
<1>2. Reading /\ IsText /\ Here \in 1 .. Len(text) /\ Len(text) \in Nat /\ text[Here] \in Quote
  BY <1>1, HereWithin DEF At, LexInv, IsText
<1>3. Here + 1 \in 1 .. Len(text)
  BY <1>1, <1>2, NotLast DEF Quote, Nul
<1>4. /\ close \in Here + 1 .. Len(text) /\ text[close] \in stops
      /\ \A k \in Here + 1 .. close - 1 : text[k] \notin stops
  BY <1>2, <1>3, StringCloses
<1> HIDE DEF close
<1>5. end \in Here + 1 .. Len(text) + 1 /\ end - 1 = close /\ Here + (end - Here) - 1 = close
  BY <1>2, <1>4
<1>6. \A e \in end .. Len(text) - 1 : close \in Here + 1 .. e - 1
  BY <1>2, <1>4
<1> HIDE DEF end
<1>7. SpelledIn(text, reported', new)
  <2>1. CASE text[close] \in NewLine
    <3>1. <<"err_unterminated_char_or_string", Here>> \in reported'
      BY <1>1, <2>1 DEF Report
    <3> QED
      BY <3>1, SpelledReported
  <2>2. CASE text[close] = Nul
    BY <1>5, <2>2 DEF SpelledIn
  <2>3. CASE text[close] = text[Here]
    <3>1. close \in Here .. Len(text) /\ Here < close
      BY <1>2, <1>4
    <3>2. StringAt(Here, close)
      BY <1>2, <1>4, <2>3, <3>1 DEF StringAt
    <3>3. Grammar!IsA(SubSeq(text, Here, end - 1), "string_literal")
      BY <1>2, <1>5, <3>1, <3>2, KindShapes
    <3>4. \A e \in end .. Len(text) - 1 : ~IsToken(Here, e)
      BY <1>2, <1>6, <2>3, FirstTells DEF StringAt
    <3> QED
      BY <1>2, <1>5, <3>3, <3>4, SpelledWhen
  <2> QED
    BY <1>4, <2>1, <2>2, <2>3
<1>8. reported \subseteq reported' /\ formToken("string_literal", end)
  BY <1>1 DEF Report
<1> QED
  BY <1>7, <1>8, OneToken

\* Where a scale factor ends, and that it has digits unless that is reported.
LEMMA ScaleRuns ==
  ASSUME IsText, NEW f \in 1 .. Len(text), text[f] # Nul, NEW diags,
         scaleFactor(f, diags).reports = {}
  PROVE  LET c == IF text[f + 1] \in {"+", "-"} THEN f + 2 ELSE f + 1
             z == scaleFactor(f, diags).end
         IN  /\ c \in f + 1 .. Len(text) /\ z \in c + 1 .. Len(text)
             /\ RunIn(c, z - 1, Digit) /\ text[z] \notin Digit /\ diags = {}
<1> DEFINE c == IF text[f + 1] \in {"+", "-"} THEN f + 2 ELSE f + 1
           z == Skip(c, Digit)
<1>1. f + 1 \in 1 .. Len(text) /\ Len(text) \in Nat
  BY NotLast DEF IsText
<1>2. c \in f + 1 .. Len(text)
  <2>1. CASE text[f + 1] \in {"+", "-"}
    <3>1. f + 1 + 1 \in 1 .. Len(text)
      BY <1>1, <2>1, NotLast DEF Nul
    <3> QED
      BY <2>1, <3>1, <1>1
  <2>2. CASE text[f + 1] \notin {"+", "-"}
    BY <2>2, <1>1
  <2> QED
    BY <2>1, <2>2
<1>3. /\ text[c] \in Digit => scaleFactor(f, diags).end = z /\ scaleFactor(f, diags).reports = diags
      /\ text[c] \notin Digit => scaleFactor(f, diags).reports # {}
  BY DEF scaleFactor
<1> HIDE DEF c
<1>4. text[c] \in Digit
  BY <1>3
<1>5. c \in 1 .. Len(text) /\ Nul \notin Digit
  BY <1>1, <1>2 DEF Digit, Nul
<1>6. z \in c .. Len(text) /\ text[z] \notin Digit /\ \A k \in c .. z - 1 : text[k] \in Digit
  BY <1>5, SkipEnds
<1> HIDE DEF z
<1>7. z \in c + 1 .. Len(text)
  <2>1. z # c
    BY <1>4, <1>6
  <2> QED
    BY <1>1, <1>2, <1>6, <2>1
<1>8. scaleFactor(f, diags).end = z /\ diags = {}
  BY <1>3, <1>4
<1>9. RunIn(c, z - 1, Digit)
  BY <1>6 DEF RunIn
<1> QED
  BY <1>2, <1>6, <1>7, <1>8, <1>9 DEF c

\* A real number without a scale factor goes on neither with digits nor with one.
LEMMA PlainReal ==
  ASSUME IsText, NEW a \in 1 .. Len(text), NEW d \in a + 1 .. Len(text), NEW f \in d + 1 .. Len(text),
         text[a] \in Digit, RunIn(a, d - 1, Digit), text[d] = ".", RunIn(d + 1, f - 1, Digit),
         text[f] \notin Digit, text[f] \notin {"E", "e"}
  PROVE  RealAt(a, f - 1) /\ \A e \in f .. Len(text) - 1 : ~IsToken(a, e)
<1>1. Len(text) \in Nat /\ d \in a .. f - 1 /\ f \in a .. f - 1 + 1 /\ f = f - 1 + 1
  BY DEF IsText
<1>2. RealParts(a, f - 1, d, f)
  BY <1>1 DEF RealParts, ScaleAt
<1>3. RunIn(a, d - 1, HexDigit) /\ text[d] \notin HexDigit
  BY DEF RunIn, HexDigit, Digit
<1>4. ASSUME NEW e \in f .. Len(text) - 1, IsToken(a, e) PROVE FALSE
  <2>1. e \in d .. Len(text) /\ e # d
    BY <1>1
  <2>2. PICK q \in a .. e + 1 : RealParts(a, e, d, q)
    BY <1>3, <1>4, <2>1, BehindDigits
  <2>3. q \in d + 1 .. e + 1 /\ RunIn(d + 1, q - 1, Digit) /\ ScaleAt(q, e)
    BY <1>1, <2>2 DEF RealParts
  <2>4. q <= f
    <3>1. f \notin d + 1 .. q - 1
      BY <2>3 DEF RunIn
    <3> QED
      BY <1>1, <2>3, <3>1
  <2>5. q # e + 1
    BY <1>1, <2>4
  <2>6. text[q] \in {"E", "e"}
    BY <2>3, <2>5 DEF ScaleAt
  <2>7. q \notin d + 1 .. f - 1
    BY <2>6 DEF RunIn, Digit
  <2>8. q = f
    BY <1>1, <2>3, <2>4, <2>7
  <2> QED
    BY <2>6, <2>8
<1> QED
  BY <1>1, <1>2, <1>4 DEF RealAt

\* One with a scale factor goes on with no more digits.
LEMMA ScaledReal ==
  ASSUME IsText, NEW a \in 1 .. Len(text), NEW d \in a + 1 .. Len(text), NEW f \in d + 1 .. Len(text),
         text[a] \in Digit, RunIn(a, d - 1, Digit), text[d] = ".", RunIn(d + 1, f - 1, Digit),
         text[f] \in {"E", "e"},
         NEW c \in f + 1 .. Len(text), c = (IF text[f + 1] \in {"+", "-"} THEN f + 2 ELSE f + 1),
         NEW z \in c + 1 .. Len(text), RunIn(c, z - 1, Digit), text[z] \notin Digit
  PROVE  RealAt(a, z - 1) /\ \A e \in z .. Len(text) - 1 : ~IsToken(a, e)
<1>1. Len(text) \in Nat /\ d \in a .. z - 1 /\ f \in a .. z - 1 + 1 /\ f < z - 1 /\ c <= z - 1
  BY DEF IsText
<1>2. ASSUME NEW e \in z - 1 .. Len(text) PROVE ScaleBegin(f, e) = c
  <2>1. f < e
    BY <1>1
  <2> QED
    BY <2>1 DEF ScaleBegin
<1>3. RealParts(a, z - 1, d, f)
  <2>1. z - 1 \in z - 1 .. Len(text)
    BY <1>1
  <2>2. ScaleBegin(f, z - 1) = c
    BY <1>2, <2>1
  <2>3. ScaleAt(f, z - 1)
    BY <1>1, <2>2 DEF ScaleAt
  <2> QED
    BY <1>1, <2>3 DEF RealParts
<1>4. RunIn(a, d - 1, HexDigit) /\ text[d] \notin HexDigit
  BY DEF RunIn, HexDigit, Digit
<1>5. ASSUME NEW e \in z .. Len(text) - 1, IsToken(a, e) PROVE FALSE
  <2>1. e \in d .. Len(text) /\ e # d /\ e \in z - 1 .. Len(text) /\ f <= e
    BY <1>1
  <2>2. PICK q \in a .. e + 1 : RealParts(a, e, d, q)
    BY <1>4, <1>5, <2>1, BehindDigits
  <2>3. q \in d + 1 .. e + 1 /\ RunIn(d + 1, q - 1, Digit) /\ ScaleAt(q, e)
    BY <1>1, <2>2 DEF RealParts
  <2>4. q <= f
    <3>1. f \notin d + 1 .. q - 1
      BY <2>3 DEF RunIn, Digit
    <3> QED
      BY <1>1, <2>3, <3>1
  <2>5. q # e + 1
    BY <1>1, <2>1, <2>4
  <2>6. text[q] \in {"E", "e"} /\ RunIn(ScaleBegin(q, e), e, Digit)
    BY <2>3, <2>5 DEF ScaleAt
  <2>7. q \notin d + 1 .. f - 1
    BY <2>6 DEF RunIn, Digit
  <2>8. q = f
    BY <1>1, <2>3, <2>4, <2>7
  <2>9. RunIn(c, e, Digit) /\ z \in c .. e
    BY <1>1, <1>2, <2>1, <2>6, <2>8
  <2> QED
    BY <2>9 DEF RunIn
<1> QED
  BY <1>1, <1>3, <1>5 DEF RealAt

\* A real number without a report ends where its scale factor does, or its
\* fraction if it has none, and takes no point of a range.
LEMMA RealNumberSpells ==
  ASSUME LexInv, TokensAsSpelled, RealNumber
  PROVE  TokensAsSpelled'
<1> DEFINE d == DigitsEnd
           f == Skip(d + 1, Digit)
           scale ==
             IF text[f] \in {"E", "e"} THEN scaleFactor(f, {})
             ELSE IF text[f] \in {"D", "d"}
               THEN scaleFactor(f, {"err_longreal_literal_not_implemented"})
             ELSE [end |-> f, reports |-> {}]
           new == [kind |-> "real_literal", at |-> Here, length |-> scale.end - Here]
<1>1. /\ At(Digit) /\ text[d] = "." /\ ~RangeBound
      /\ formToken("real_literal", scale.end) /\ Report(HexInDecimal \cup scale.reports)
  BY DEF RealNumber
<1>2. /\ IsText /\ Here \in 1 .. Len(text) /\ Len(text) \in Nat /\ d \in Here + 1 .. Len(text)
      /\ text[Here] \in Digit /\ RunIn(Here, d - 1, HexDigit) /\ text[d] \notin HexDigit
      /\ ~IsHex => RunIn(Here, d - 1, Digit)
  BY <1>1, NumberBegins, DigitsRun
<1>3. ~RangeBound => ~(text[d] = "." /\ text[d + 1] = ".")
  BY DEF RangeBound
<1> HIDE DEF d
<1>4. d + 1 \in 1 .. Len(text) /\ Nul \notin Digit
  BY <1>1, <1>2, NotLast DEF Nul, Digit
<1>5. f \in d + 1 .. Len(text) /\ text[f] \notin Digit /\ \A k \in d + 1 .. f - 1 : text[k] \in Digit
  BY <1>2, <1>4, SkipEnds
<1> HIDE DEF f
<1>6. RunIn(d + 1, f - 1, Digit) /\ f \in 1 .. Len(text) /\ text[d] = "."
  BY <1>1, <1>2, <1>5 DEF RunIn
<1>7. SpelledIn(text, reported', new)
  <2>1. CASE IsHex \/ scale.reports # {}
    <3>1. PICK diag \in HexInDecimal \cup scale.reports : TRUE
      BY <2>1 DEF HexInDecimal
    <3>2. <<diag, Here>> \in reported'
      BY <1>1, <3>1 DEF Report
    <3> QED
      BY <3>2, SpelledReported
  <2>2. CASE ~IsHex /\ scale.reports = {}
    <3> DEFINE end == scale.end
    <3>1. /\ end \in Here + 1 .. Len(text) /\ RealAt(Here, end - 1)
          /\ \A e \in end .. Len(text) - 1 : ~IsToken(Here, e)
          /\ text[end - 1] = "." => text[end] # "."
      <4>1. CASE text[f] \notin {"E", "e", "D", "d"}
        <5>1. end = f
          BY <4>1
        <5> HIDE DEF end
        <5>2. RealAt(Here, f - 1) /\ \A e \in f .. Len(text) - 1 : ~IsToken(Here, e)
          BY <1>2, <1>5, <1>6, <2>2, <4>1, PlainReal
        <5>3. text[f - 1] = "." => text[f] # "."
          <6>1. text[f - 1] = "." => f - 1 \notin d + 1 .. f - 1
            BY <1>6 DEF RunIn, Digit
          <6>2. text[f - 1] = "." => f = d + 1
            BY <1>2, <1>5, <6>1
          <6> QED
            BY <1>1, <1>3, <1>6, <6>2
        <5>4. f \in Here + 1 .. Len(text)
          BY <1>2, <1>5
        <5> QED
          BY <5>1, <5>2, <5>3, <5>4
      <4>2. CASE text[f] \in {"E", "e"}
        <5> DEFINE c == IF text[f + 1] \in {"+", "-"} THEN f + 2 ELSE f + 1
        <5>1. end = scaleFactor(f, {}).end /\ scaleFactor(f, {}).reports = {} /\ text[f] # Nul
          BY <2>2, <4>2 DEF Nul
        <5> HIDE DEF end
        <5>2. /\ c \in f + 1 .. Len(text) /\ end \in c + 1 .. Len(text)
              /\ RunIn(c, end - 1, Digit) /\ text[end] \notin Digit
          BY <1>2, <1>6, <5>1, ScaleRuns
        <5>3. RealAt(Here, end - 1) /\ \A e \in end .. Len(text) - 1 : ~IsToken(Here, e)
          BY <1>2, <1>5, <1>6, <2>2, <4>2, <5>2, ScaledReal
        <5> HIDE DEF c
        <5>4. text[end - 1] # "."
          <6>1. end - 1 \in c .. end - 1
            BY <1>2, <1>5, <5>2
          <6> QED
            BY <5>2, <6>1 DEF RunIn, Digit
        <5>5. end \in Here + 1 .. Len(text)
          BY <1>2, <1>5, <5>2
        <5> QED
          BY <5>3, <5>4, <5>5
      <4>3. CASE text[f] \in {"D", "d"}
        <5> DEFINE diags == {"err_longreal_literal_not_implemented"}
        <5>1. scaleFactor(f, diags).reports = {} /\ text[f] # Nul
          BY <2>2, <4>3 DEF Nul
        <5> HIDE DEF diags
        <5>2. diags = {}
          BY <1>2, <1>6, <5>1, ScaleRuns
        <5> QED
          BY <5>2 DEF diags
      <4> QED
        BY <4>1, <4>2, <4>3
    <3>2. new = [kind |-> "real_literal", at |-> Here, length |-> end - Here]
      OBVIOUS
    <3> HIDE DEF end, new
    <3>3. /\ end \in Here + 1 .. Len(text) + 1 /\ end - 1 \in Here .. Len(text)
          /\ end - 1 \in 1 .. Len(text) - 1 /\ end - 1 + 1 = end
      BY <1>2, <3>1
    <3>4. Grammar!IsA(SubSeq(text, Here, end - 1), "real_literal")
      BY <1>2, <3>1, <3>3, KindShapes
    <3>5. ~BeforeRange(end - 1)
      BY <1>2, <3>1, <3>3, RangePoints
    <3> QED
      BY <1>2, <3>1, <3>2, <3>3, <3>4, <3>5, SpelledWhen
  <2> QED
    BY <2>1, <2>2
<1>8. reported \subseteq reported'
  BY <1>1 DEF Report
<1> DEFINE end == scale.end
<1>9. formToken("real_literal", end)
      /\ SpelledIn(text, reported', [kind |-> "real_literal", at |-> Here, length |-> end - Here])
  BY <1>1, <1>7
<1> HIDE DEF end
<1> QED
  BY <1>8, <1>9, OneToken

-----------------------------------------------------------------------------
\* What the parser was given last.
TokenNamed ==
  token \in [kind : {"none", "eof", "unknown"} \cup TokenKinds, at : Nat, length : Nat]

\* The parser is given the token that was formed, or a kind without one.
LEMMA TokenNamedKept ==
  ASSUME LexInv, LexInv', TokenNamed, [next \/ Lost]_vars
  PROVE  TokenNamed'
<1>1. ASSUME NEW kind, NEW end, formToken(kind, end) PROVE TokenNamed'
  <2>1. token' = [kind |-> kind, at |-> Here, length |-> end - Here]
        /\ formed' = Append(formed, [kind |-> kind, at |-> Here, length |-> end - Here])
    BY <1>1 DEF formToken
  <2>2. formed' = Append(formed, token')
    BY <2>1
  <2>3. /\ formed' \in Seq([kind : TokenKinds, at : Nat \ {0}, length : Nat \ {0}])
        /\ formed \in Seq([kind : TokenKinds, at : Nat \ {0}, length : Nat \ {0}])
    BY DEF LexInv
  <2>4. Len(formed) + 1 \in 1 .. Len(formed') /\ formed'[Len(formed) + 1] = token'
    BY <2>2, <2>3
  <2>5. token' \in [kind : TokenKinds, at : Nat \ {0}, length : Nat \ {0}]
    BY <2>3, <2>4, ElementOfSeq
  <2> QED
    BY <2>5 DEF TokenNamed
<1>2. ASSUME NEW kind \in {"eof", "unknown"}, Unformed(kind) PROVE TokenNamed'
  BY <1>2 DEF Unformed, TokenNamed
<1>3. CASE UNCHANGED token
  BY <1>3 DEF TokenNamed
<1>4. CASE EndOfFile \/ UnknownCharacter
  BY <1>2, <1>4 DEF EndOfFile, UnknownCharacter
<1>5. CASE identifier \/ HexNumber \/ DecimalNumber \/ RealNumber \/ string \/ SingleCharacter \/ Punctuator
  BY <1>1, <1>5 DEF identifier, HexNumber, DecimalNumber, RealNumber, string, SingleCharacter, Punctuator
<1>6. CASE OpenComment \/ NestedComment \/ CommentCharacter \/ CloseNested \/ CloseComment \/ OpenAtEnd
  BY <1>3, <1>6 DEF OpenComment, NestedComment, CommentCharacter, CloseNested, CloseComment, OpenAtEnd, Leave
<1> QED
  BY <1>3, <1>4, <1>5, <1>6 DEF next, Lost, vars

\* No step makes a token that is misspelled or too short.
LEMMA NextSpells ==
  ASSUME LexInv, TokensAsSpelled, [next \/ Lost]_vars
  PROVE  TokensAsSpelled'
<1>1. CASE EndOfFile \/ UnknownCharacter \/ OpenComment \/ NestedComment \/ CommentCharacter \/ CloseNested
  BY <1>1, NoToken DEF EndOfFile, UnknownCharacter, Unformed, OpenComment, NestedComment,
     CommentCharacter, CloseNested
<1>2. CASE CloseComment \/ OpenAtEnd
  BY <1>2, NoToken DEF CloseComment, OpenAtEnd, Leave
<1>3. CASE UNCHANGED vars
  BY <1>3, NoToken DEF vars
<1> QED
  BY <1>1, <1>2, <1>3, identifierSpells, HexNumberSpells, DecimalNumberSpells, RealNumberSpells,
     stringSpells, PunctuatorSpells DEF next, Lost
-----------------------------------------------------------------------------
\* Comments.  The delimiters of a part of the file: all that open, and those
\* that close, except where their star is the second half of an opening.
OpensAt(j) == text[j] = "(" /\ text[j + 1] = "*"
ClosesAt(j) == text[j] = "*" /\ text[j + 1] = ")"

\* Of the part from a on, whether the delimiter at j counts.
Counts(a, j) == OpensAt(j) \/ (ClosesAt(j) /\ ~(a < j /\ OpensAt(j - 1)))

\* The delimiters from a to b, counted from a.
Openings(a, b) == {i \in 1 .. b - a : OpensAt(a + i - 1)}
Closings(a, b) == {i \in 1 .. b - a : ClosesAt(a + i - 1) /\ Counts(a, a + i - 1)}

\* The delimiters the grammar takes from the left, by position.
LEMMA DelimiterShape ==
  ASSUME IsText, NEW a \in 1 .. Len(text), NEW b \in a .. Len(text)
  PROVE  LET s == SubSeq(text, a, b) IN
         /\ {i \in Grammar!Delimiters(s) : Grammar!Opens(s, i)} = Openings(a, b)
         /\ {i \in Grammar!Delimiters(s) : Grammar!Closes(s, i)} = Closings(a, b)
         /\ Grammar!Delimiters(s) = {i \in 1 .. b - a : Counts(a, a + i - 1)}
<1> DEFINE s == SubSeq(text, a, b)
           all == {i \in DOMAIN s : Grammar!Opens(s, i) \/ Grammar!Closes(s, i)}
           D == {i \in 1 .. b - a : Counts(a, a + i - 1)}
           Fits(E) == \A i \in all : i \in E <=> i - 1 \notin E
<1>1. Len(text) \in Nat /\ b \in a - 1 .. Len(text) /\ b - a \in Nat
  BY DEF IsText
<1>2. Len(s) = b - a + 1 /\ DOMAIN s = 1 .. b - a + 1 /\ \A i \in 1 .. b - a + 1 : s[i] = text[a + i - 1]
  BY <1>1, PieceFacts
<1> HIDE DEF s
<1>3. ASSUME NEW i \in 1 .. b - a
      PROVE  /\ Grammar!Opens(s, i) <=> OpensAt(a + i - 1)
             /\ Grammar!Closes(s, i) <=> ClosesAt(a + i - 1)
  <2>1. /\ i \in 1 .. b - a + 1 /\ i + 1 \in 1 .. b - a + 1 /\ i < Len(s)
        /\ a + (i + 1) - 1 = a + i - 1 + 1
    BY <1>1, <1>2
  <2>2. s[i] = text[a + i - 1] /\ s[i + 1] = text[a + i - 1 + 1]
    BY <1>2, <2>1
  <2> QED
    BY <2>1, <2>2 DEF Grammar!Opens, Grammar!Closes, OpensAt, ClosesAt
<1>4. ASSUME NEW i, Grammar!Opens(s, i) \/ Grammar!Closes(s, i), i \in DOMAIN s
      PROVE  i \in 1 .. b - a
  <2>1. i < Len(s)
    BY <1>4 DEF Grammar!Opens, Grammar!Closes
  <2> QED
    BY <1>1, <1>2, <1>4, <2>1
<1>5. all = {i \in 1 .. b - a : OpensAt(a + i - 1) \/ ClosesAt(a + i - 1)}
  <2>1. \A i \in 1 .. b - a : i \in DOMAIN s
    BY <1>1, <1>2
  <2> QED
    BY <1>3, <1>4, <2>1
<1> HIDE DEF all
<1>6. D \in SUBSET all
  BY <1>5 DEF Counts
<1>7. ASSUME NEW i \in all
      PROVE  /\ i \in 1 .. b - a /\ i - 1 \in Int /\ (i - 1 \in 1 .. b - a <=> i # 1)
             /\ a + (i - 1) - 1 = a + i - 1 - 1 /\ (i # 1 <=> a < a + i - 1)
             /\ a + i - 1 - 1 + 1 = a + i - 1
  BY <1>1, <1>5
<1>8. ASSUME NEW i \in all, OpensAt(a + i - 1) PROVE i - 1 \notin all
  <2>1. text[a + i - 1] = "("
    BY <1>8 DEF OpensAt
  <2>2. i - 1 \in all => text[a + i - 1] \in {"*", ")"}
    BY <1>5, <1>7 DEF OpensAt, ClosesAt
  <2> QED
    BY <2>1, <2>2
<1>9. ASSUME NEW i \in all, ClosesAt(a + i - 1)
      PROVE  i - 1 \in all <=> i # 1 /\ OpensAt(a + i - 1 - 1)
  <2>1. text[a + i - 1] = "*"
    BY <1>9 DEF ClosesAt
  <2>2. ~ClosesAt(a + i - 1 - 1)
    BY <1>7, <2>1 DEF ClosesAt
  <2> QED
    BY <1>5, <1>7, <2>2
<1>10. ASSUME NEW i \in all PROVE ~(OpensAt(a + i - 1) /\ ClosesAt(a + i - 1))
  BY DEF OpensAt, ClosesAt
<1>11. \A i \in all : i \in D <=> OpensAt(a + i - 1) \/ ~(i # 1 /\ OpensAt(a + i - 1 - 1))
  BY <1>5, <1>7 DEF Counts
<1>12. Fits(D)
  <2> SUFFICES ASSUME NEW i \in all PROVE i \in D <=> i - 1 \notin D
    OBVIOUS
  <2>1. CASE OpensAt(a + i - 1)
    BY <1>6, <1>8, <1>11, <2>1
  <2>2. CASE ClosesAt(a + i - 1)
    <3>1. CASE i # 1 /\ OpensAt(a + i - 1 - 1)
      <4>1. i - 1 \in all /\ i - 1 \in D
        BY <1>7, <1>9, <2>2, <3>1 DEF Counts
      <4> QED
        BY <1>10, <1>11, <2>2, <3>1, <4>1
    <3>2. CASE ~(i # 1 /\ OpensAt(a + i - 1 - 1))
      <4>1. i - 1 \notin all
        BY <1>9, <2>2, <3>2
      <4> QED
        BY <1>6, <1>11, <3>2, <4>1
    <3> QED
      BY <3>1, <3>2
  <2> QED
    BY <1>5, <2>1, <2>2
<1>13. ASSUME NEW E \in SUBSET all, Fits(E) PROVE E = D
  <2>1. ASSUME NEW i \in all PROVE i \in E <=> i \in D
    <3>1. i \in E <=> i - 1 \notin E
      BY <1>13
    <3>2. CASE OpensAt(a + i - 1)
      BY <1>8, <1>11, <3>1, <3>2
    <3>3. CASE ClosesAt(a + i - 1)
      <4>1. CASE i # 1 /\ OpensAt(a + i - 1 - 1)
        <5>1. i - 1 \in all
          BY <1>9, <3>3, <4>1
        <5>2. OpensAt(a + (i - 1) - 1)
          BY <1>7, <4>1
        <5>3. i - 1 - 1 \notin all
          BY <1>8, <5>1, <5>2
        <5>4. i - 1 \in E
          BY <1>13, <5>1, <5>3
        <5> QED
          BY <1>10, <1>11, <3>1, <3>3, <4>1, <5>4
      <4>2. CASE ~(i # 1 /\ OpensAt(a + i - 1 - 1))
        <5>1. i - 1 \notin all
          BY <1>9, <3>3, <4>2
        <5> QED
          BY <1>11, <3>1, <4>2, <5>1
      <4> QED
        BY <4>1, <4>2
    <3> QED
      BY <1>5, <3>2, <3>3
  <2> QED
    BY <1>6, <1>13, <2>1
<1>14. Grammar!Delimiters(s) = CHOOSE E \in SUBSET all : Fits(E)
  BY DEF Grammar!Delimiters, all
<1> HIDE DEF Fits, D
<1>15. Grammar!Delimiters(s) = D
  BY <1>6, <1>12, <1>13, <1>14
<1>16. {i \in D : Grammar!Opens(s, i)} = Openings(a, b)
  BY <1>3 DEF D, Openings, Counts
<1>17. {i \in D : Grammar!Closes(s, i)} = Closings(a, b)
  BY <1>3 DEF D, Closings
<1> QED
  BY <1>15, <1>16, <1>17 DEF s, D

\* How deep comments are nested behind the characters from a to b.
DepthAt(a, b) == Grammar!Depth(SubSeq(text, a, b))

\* The depth is what has opened less what has closed, both finite.
LEMMA DepthFacts ==
  ASSUME IsText, NEW a \in 1 .. Len(text), NEW b \in a .. Len(text)
  PROVE  /\ IsFiniteSet(Openings(a, b)) /\ IsFiniteSet(Closings(a, b))
         /\ Cardinality(Openings(a, b)) \in Nat /\ Cardinality(Closings(a, b)) \in Nat
         /\ DepthAt(a, b) = Cardinality(Openings(a, b)) - Cardinality(Closings(a, b))
<1>1. IsFiniteSet(1 .. b - a)
  BY FS_Interval DEF IsText
<1>2. Openings(a, b) \subseteq 1 .. b - a /\ Closings(a, b) \subseteq 1 .. b - a
  BY DEF Openings, Closings
<1>3. IsFiniteSet(Openings(a, b)) /\ IsFiniteSet(Closings(a, b))
  BY <1>1, <1>2, FS_Subset
<1>4. DepthAt(a, b) = Cardinality(Openings(a, b)) - Cardinality(Closings(a, b))
  <2> DEFINE s == SubSeq(text, a, b)
  <2>1. /\ {i \in Grammar!Delimiters(s) : Grammar!Opens(s, i)} = Openings(a, b)
        /\ {i \in Grammar!Delimiters(s) : Grammar!Closes(s, i)} = Closings(a, b)
    BY DelimiterShape
  <2>2. DepthAt(a, b) = Grammar!Depth(s)
    BY DEF DepthAt
  <2> HIDE DEF s
  <2>3. Grammar!Depth(s) = Cardinality({i \in Grammar!Delimiters(s) : Grammar!Opens(s, i)})
                             - Cardinality({i \in Grammar!Delimiters(s) : Grammar!Closes(s, i)})
    BY DEF Grammar!Depth, Grammar!Cardinality, Cardinality
  <2> QED
    BY <2>1, <2>2, <2>3
<1> QED
  BY <1>3, <1>4, FS_CardinalityType

\* One character is no comment.
LEMMA DepthBegins ==
  ASSUME IsText, NEW a \in 1 .. Len(text)
  PROVE  DepthAt(a, a) = 0
<1>1. a \in a .. Len(text) /\ 1 .. a - a = {}
  BY DEF IsText
<1>2. Openings(a, a) = {} /\ Closings(a, a) = {}
  BY <1>1 DEF Openings, Closings
<1> QED
  BY <1>1, <1>2, DepthFacts, FS_EmptySet

\* One more character adds the delimiter it completes, if that counts.
LEMMA DepthGrows ==
  ASSUME IsText, NEW a \in 1 .. Len(text), NEW b \in a .. Len(text), b + 1 \in 1 .. Len(text)
  PROVE  /\ DepthAt(a, b) \in Int
         /\ OpensAt(b) => DepthAt(a, b + 1) = DepthAt(a, b) + 1
         /\ ClosesAt(b) /\ Counts(a, b) => DepthAt(a, b + 1) = DepthAt(a, b) - 1
         /\ ~Counts(a, b) => DepthAt(a, b + 1) = DepthAt(a, b)
<1> DEFINE n == b - a + 1
           c == b + 1
<1>1. /\ Len(text) \in Nat /\ c \in a .. Len(text) /\ c - a = n /\ n \in Nat /\ a + n - 1 = b
      /\ 1 .. n = (1 .. b - a) \cup {n} /\ n \notin 1 .. b - a
  BY DEF IsText
<1> HIDE DEF n, c
<1>2. Openings(a, c) = Openings(a, b) \cup (IF OpensAt(b) THEN {n} ELSE {})
  BY <1>1 DEF Openings
<1>3. Closings(a, c) = Closings(a, b) \cup (IF ClosesAt(b) /\ Counts(a, b) THEN {n} ELSE {})
  BY <1>1 DEF Closings
<1>4. n \notin Openings(a, b) /\ n \notin Closings(a, b)
  BY <1>1 DEF Openings, Closings
<1>5. /\ IsFiniteSet(Openings(a, b)) /\ IsFiniteSet(Closings(a, b))
      /\ Cardinality(Openings(a, b)) \in Nat /\ Cardinality(Closings(a, b)) \in Nat
      /\ DepthAt(a, b) = Cardinality(Openings(a, b)) - Cardinality(Closings(a, b))
      /\ DepthAt(a, c) = Cardinality(Openings(a, c)) - Cardinality(Closings(a, c))
  BY <1>1, DepthFacts
<1>6. /\ OpensAt(b) => Cardinality(Openings(a, c)) = Cardinality(Openings(a, b)) + 1
      /\ ~OpensAt(b) => Cardinality(Openings(a, c)) = Cardinality(Openings(a, b))
  BY <1>2, <1>4, <1>5, FS_AddElement
<1>7. /\ ClosesAt(b) /\ Counts(a, b) => Cardinality(Closings(a, c)) = Cardinality(Closings(a, b)) + 1
      /\ ~(ClosesAt(b) /\ Counts(a, b)) => Cardinality(Closings(a, c)) = Cardinality(Closings(a, b))
  BY <1>3, <1>4, <1>5, FS_AddElement
<1>8. ~(OpensAt(b) /\ ClosesAt(b)) /\ (OpensAt(b) => Counts(a, b))
  BY DEF OpensAt, ClosesAt, Counts
<1> QED
  BY <1>5, <1>6, <1>7, <1>8 DEF c

\* A comment, by the depths behind its characters.
LEMMA CommentShape ==
  ASSUME IsText, NEW a \in 1 .. Len(text), NEW b \in a .. Len(text)
  PROVE  Grammar!Comment(SubSeq(text, a, b)) <=>
           /\ a + 3 <= b /\ OpensAt(a) /\ DepthAt(a, b) = 0 /\ Counts(a, b - 1)
           /\ \A e \in a + 1 .. b - 1 : DepthAt(a, e) > 0
<1> DEFINE s == SubSeq(text, a, b)
<1>1. Len(text) \in Nat /\ b \in a - 1 .. Len(text) /\ b - a \in Nat /\ a - a + 1 = 1
  BY DEF IsText
<1>2. Len(s) = b - a + 1 /\ \A i \in 1 .. b - a + 1 : s[i] = text[a + i - 1]
  BY <1>1, PieceFacts
<1>3. Len(s) > 3 <=> a + 3 <= b
  BY <1>1, <1>2
<1>4. Grammar!Delimiters(s) = {i \in 1 .. b - a : Counts(a, a + i - 1)}
  BY DelimiterShape
<1>5. ASSUME NEW e \in a .. b
      PROVE  Grammar!Upto(s, e - a + 1) = SubSeq(text, a, e)
  <2>1. a \in a .. b + 1 /\ e \in a - 1 .. b
    BY <1>1
  <2>2. SubSeq(s, a - a + 1, e - a + 1) = SubSeq(text, a, e)
    BY <2>1, PartOfPiece
  <2> QED
    BY <1>1, <2>2 DEF Grammar!Upto
<1> HIDE DEF s
<1>6. a + 3 <= b => (Grammar!Opens(s, 1) <=> OpensAt(a))
  <2> SUFFICES ASSUME a + 3 <= b PROVE Grammar!Opens(s, 1) <=> OpensAt(a)
    OBVIOUS
  <2>1. 1 \in 1 .. b - a + 1 /\ 2 \in 1 .. b - a + 1 /\ a + 1 - 1 = a /\ a + 2 - 1 = a + 1 /\ 1 < Len(s)
    BY <1>1, <1>2
  <2>2. s[1] = text[a] /\ s[1 + 1] = text[a + 1]
    BY <1>2, <2>1
  <2> QED
    BY <2>1, <2>2 DEF Grammar!Opens, OpensAt
<1>7. a + 3 <= b => (Len(s) - 1 \in Grammar!Delimiters(s) <=> Counts(a, b - 1))
  <2> SUFFICES ASSUME a + 3 <= b PROVE Len(s) - 1 \in Grammar!Delimiters(s) <=> Counts(a, b - 1)
    OBVIOUS
  <2>1. Len(s) - 1 \in 1 .. b - a /\ a + (Len(s) - 1) - 1 = b - 1
    BY <1>1, <1>2
  <2> QED
    BY <1>4, <2>1
<1>8. (\A i \in 2 .. Len(s) - 1 : Grammar!Depth(Grammar!Upto(s, i)) > 0)
      <=> \A e \in a + 1 .. b - 1 : DepthAt(a, e) > 0
  <2>1. ASSUME NEW i \in 2 .. Len(s) - 1
        PROVE  a + i - 1 \in a + 1 .. b - 1 /\ a + i - 1 \in a .. b /\ (a + i - 1) - a + 1 = i
    BY <1>1, <1>2
  <2>2. ASSUME NEW e \in a + 1 .. b - 1
        PROVE  e - a + 1 \in 2 .. Len(s) - 1 /\ e \in a .. b
    BY <1>1, <1>2
  <2>3. ASSUME NEW e \in a .. b PROVE Grammar!Depth(Grammar!Upto(s, e - a + 1)) = DepthAt(a, e)
    BY <1>5 DEF DepthAt
  <2>4. ASSUME NEW i \in 2 .. Len(s) - 1, \A e \in a + 1 .. b - 1 : DepthAt(a, e) > 0
        PROVE  Grammar!Depth(Grammar!Upto(s, i)) > 0
    <3> DEFINE e == a + i - 1
    <3>1. e \in a + 1 .. b - 1 /\ e \in a .. b /\ e - a + 1 = i
      BY <2>1
    <3> HIDE DEF e
    <3> QED
      BY <2>3, <2>4, <3>1
  <2>5. ASSUME NEW e \in a + 1 .. b - 1, \A i \in 2 .. Len(s) - 1 : Grammar!Depth(Grammar!Upto(s, i)) > 0
        PROVE  DepthAt(a, e) > 0
    BY <2>2, <2>3, <2>5
  <2> QED
    BY <2>4, <2>5
<1>9. Grammar!Depth(s) = DepthAt(a, b)
  BY DEF DepthAt, s
<1>10. Grammar!Comment(s) <=>
         /\ a + 3 <= b /\ OpensAt(a) /\ DepthAt(a, b) = 0 /\ Counts(a, b - 1)
         /\ \A e \in a + 1 .. b - 1 : DepthAt(a, e) > 0
  BY <1>3, <1>6, <1>7, <1>8, <1>9 DEF Grammar!Comment
<1> QED
  BY <1>10 DEF s

\* The comment that begins at a has been read up to end: it is open at that
\* level, its last delimiter has been counted, and the file has not ended in it.
ReadTo(a, end, level) ==
  /\ OpensAt(a) /\ end \in a + 2 .. Len(text)
  /\ DepthAt(a, end - 1) = level /\ ~Counts(a, end - 1)
  /\ \A e \in a + 1 .. end - 1 : DepthAt(a, e) > 0
  /\ \A j \in a .. end - 1 : text[j] # Nul

\* What comment() knows in its loop.
CommentRead == Level > 0 => ReadTo(CurPtr, End, Level)

\* A comment that begins: "(*" has been read.
LEMMA ReadOpening ==
  ASSUME IsText, NEW a \in 1 .. Len(text), OpensAt(a)
  PROVE  ReadTo(a, a + 2, 1)
<1>1. Len(text) \in Nat /\ a \in a .. Len(text) /\ text[a] = "(" /\ text[a + 1] = "*"
  BY DEF IsText, OpensAt
<1>2. a + 1 \in 1 .. Len(text)
  BY <1>1, NotLast DEF Nul
<1>3. a + 1 + 1 \in 1 .. Len(text)
  BY <1>1, <1>2, NotLast DEF Nul
<1>4. DepthAt(a, a + 1) = 1
  BY <1>1, <1>2, DepthBegins, DepthGrows
<1>5. ~Counts(a, a + 1)
  <2>1. a + 1 - 1 = a /\ a < a + 1
    BY <1>1
  <2> QED
    BY <1>1, <2>1 DEF Counts, OpensAt, ClosesAt
<1>6. a + 2 - 1 = a + 1 /\ a + 2 \in a + 2 .. Len(text) /\ a + 1 .. a + 1 = {a + 1} /\ a .. a + 1 = {a, a + 1}
  BY <1>1, <1>3
<1> QED
  BY <1>1, <1>4, <1>5, <1>6 DEF ReadTo, Nul

\* One more character of a comment.
LEMMA ReadCharacter ==
  ASSUME IsText, NEW a \in 1 .. Len(text), NEW end, NEW level \in Nat \ {0}, ReadTo(a, end, level),
         text[end] # Nul, ~OpensAt(end), ~ClosesAt(end)
  PROVE  ReadTo(a, end + 1, level)
<1>1. /\ Len(text) \in Nat /\ end \in 1 .. Len(text) /\ end - 1 \in a .. Len(text) /\ end - 1 + 1 = end
      /\ end - 1 + 1 \in 1 .. Len(text)
  BY DEF IsText, ReadTo
<1>2. end + 1 \in 1 .. Len(text)
  BY <1>1, NotLast
<1>3. DepthAt(a, end) = level
  <2>1. ~Counts(a, end - 1) /\ DepthAt(a, end - 1) = level
    BY DEF ReadTo
  <2>2. DepthAt(a, end - 1 + 1) = DepthAt(a, end - 1)
    BY <1>1, <2>1, DepthGrows
  <2> QED
    BY <1>1, <2>1, <2>2
<1>4. ~Counts(a, end)
  BY DEF Counts
<1>5. /\ end + 1 - 1 = end /\ end + 1 \in a + 2 .. Len(text)
      /\ a + 1 .. end = (a + 1 .. end - 1) \cup {end} /\ a .. end = (a .. end - 1) \cup {end}
  BY <1>1, <1>2 DEF ReadTo
<1> QED
  BY <1>3, <1>4, <1>5 DEF ReadTo

\* A comment inside the comment opens, or one of them closes.
LEMMA ReadDelimiter ==
  ASSUME IsText, NEW a \in 1 .. Len(text), NEW end, NEW level \in Nat \ {0}, ReadTo(a, end, level),
         NEW deeper \in Nat, deeper # 0,
         \/ OpensAt(end) /\ deeper = level + 1
         \/ ClosesAt(end) /\ deeper = level - 1
  PROVE  ReadTo(a, end + 2, deeper)
<1>1. /\ Len(text) \in Nat /\ end \in 1 .. Len(text) /\ end - 1 \in a .. Len(text) /\ end - 1 + 1 = end
      /\ end - 1 + 1 \in 1 .. Len(text) /\ end \in a .. Len(text) /\ a < end
  BY DEF IsText, ReadTo
<1>2. text[end] # Nul /\ text[end + 1] # Nul /\ ~OpensAt(end + 1)
  BY DEF OpensAt, ClosesAt, Nul
<1>3. end + 1 \in 1 .. Len(text)
  BY <1>1, <1>2, NotLast
<1>4. end + 1 + 1 \in 1 .. Len(text)
  BY <1>2, <1>3, NotLast
<1>5. ~Counts(a, end - 1) /\ DepthAt(a, end - 1) = level /\ ~OpensAt(end - 1)
  BY DEF ReadTo, Counts
<1>6. DepthAt(a, end) = level
  <2>1. DepthAt(a, end - 1 + 1) = DepthAt(a, end - 1)
    BY <1>1, <1>5, DepthGrows
  <2> QED
    BY <1>1, <1>5, <2>1
<1>7. DepthAt(a, end + 1) = deeper
  <2>1. /\ OpensAt(end) => DepthAt(a, end + 1) = DepthAt(a, end) + 1
        /\ ClosesAt(end) /\ Counts(a, end) => DepthAt(a, end + 1) = DepthAt(a, end) - 1
    BY <1>1, <1>3, DepthGrows
  <2>2. ClosesAt(end) => Counts(a, end)
    BY <1>5 DEF Counts
  <2> QED
    BY <1>6, <2>1, <2>2
<1>8. ~Counts(a, end + 1)
  <2> DEFINE j == end + 1
  <2>1. a < j /\ j - 1 = end
    BY <1>1
  <2>2. ~OpensAt(j) /\ (ClosesAt(end) => text[j] = ")")
    BY <1>2 DEF ClosesAt
  <2> HIDE DEF j
  <2>3. OpensAt(j - 1) \/ ~ClosesAt(j)
    BY <2>1, <2>2 DEF ClosesAt
  <2>4. ~Counts(a, j)
    BY <2>1, <2>2, <2>3 DEF Counts
  <2> QED
    BY <2>4 DEF j
<1>9. /\ end + 2 - 1 = end + 1 /\ end + 2 \in a + 2 .. Len(text)
      /\ a + 1 .. end + 1 = (a + 1 .. end - 1) \cup {end, end + 1}
      /\ a .. end + 1 = (a .. end - 1) \cup {end, end + 1}
  BY <1>1, <1>4 DEF ReadTo
<1> QED
  BY <1>2, <1>6, <1>7, <1>8, <1>9 DEF ReadTo

\* The comment closes: it is a whole one.
LEMMA ReadWhole ==
  ASSUME IsText, NEW a \in 1 .. Len(text), NEW end, ReadTo(a, end, 1), ClosesAt(end)
  PROVE  /\ end + 1 \in a + 3 .. Len(text) - 1 /\ Grammar!Comment(SubSeq(text, a, end + 1))
         /\ \A j \in a .. end + 1 : text[j] # Nul
<1>1. /\ Len(text) \in Nat /\ end \in 1 .. Len(text) /\ end - 1 \in a .. Len(text) /\ end - 1 + 1 = end
      /\ end - 1 + 1 \in 1 .. Len(text) /\ end \in a .. Len(text) /\ a + 2 <= end
  BY DEF IsText, ReadTo
<1>2. text[end] # Nul /\ text[end + 1] # Nul
  BY DEF ClosesAt, Nul
<1>3. end + 1 \in 1 .. Len(text)
  BY <1>1, <1>2, NotLast
<1>4. end + 1 + 1 \in 1 .. Len(text)
  BY <1>2, <1>3, NotLast
<1>5. ~Counts(a, end - 1) /\ DepthAt(a, end - 1) = 1 /\ ~OpensAt(end - 1)
  BY DEF ReadTo, Counts
<1>6. DepthAt(a, end) = 1
  <2>1. DepthAt(a, end - 1 + 1) = DepthAt(a, end - 1)
    BY <1>1, <1>5, DepthGrows
  <2> QED
    BY <1>1, <1>5, <2>1
<1>7. Counts(a, end)
  BY <1>5 DEF Counts
<1>8. DepthAt(a, end + 1) = 0
  <2>1. DepthAt(a, end + 1) = DepthAt(a, end) - 1
    BY <1>1, <1>3, <1>7, DepthGrows
  <2> QED
    BY <1>6, <2>1
<1>9. /\ end + 1 \in a .. Len(text) /\ a + 3 <= end + 1 /\ end + 1 - 1 = end
      /\ a + 1 .. end = (a + 1 .. end - 1) \cup {end} /\ a .. end + 1 = (a .. end - 1) \cup {end, end + 1}
      /\ end + 1 \in a + 3 .. Len(text) - 1
  BY <1>1, <1>4
<1>10. \A e \in a + 1 .. end : DepthAt(a, e) > 0
  BY <1>6, <1>9 DEF ReadTo
<1>11. OpensAt(a)
  BY DEF ReadTo
<1>12. Grammar!Comment(SubSeq(text, a, end + 1))
  <2> DEFINE b == end + 1
  <2>1. /\ b \in a .. Len(text) /\ a + 3 <= b /\ DepthAt(a, b) = 0 /\ Counts(a, b - 1)
        /\ \A e \in a + 1 .. b - 1 : DepthAt(a, e) > 0
    <3>1. b - 1 = end /\ b = end + 1
      BY <1>1
    <3> HIDE DEF b
    <3> QED
      BY <1>7, <1>8, <1>9, <1>10, <3>1
  <2> HIDE DEF b
  <2>2. Grammar!Comment(SubSeq(text, a, b))
    BY <1>11, <2>1, CommentShape
  <2> QED
    BY <2>2 DEF b
<1> QED
  BY <1>2, <1>9, <1>12 DEF ReadTo

\* The file ends in the comment: nothing read so far is a comment.
LEMMA ReadNone ==
  ASSUME IsText, NEW a \in 1 .. Len(text), NEW end, NEW level, ReadTo(a, end, level),
         NEW e \in a .. end - 1
  PROVE  ~Grammar!Comment(SubSeq(text, a, e))
<1>1. Len(text) \in Nat /\ e \in a .. Len(text)
  BY DEF IsText, ReadTo
<1>2. SUFFICES ASSUME Grammar!Comment(SubSeq(text, a, e)) PROVE FALSE
  OBVIOUS
<1>3. a + 3 <= e /\ DepthAt(a, e) = 0
  BY <1>1, <1>2, CommentShape
<1>4. e \in a + 1 .. end - 1
  BY <1>1, <1>3 DEF ReadTo
<1> QED
  BY <1>3, <1>4 DEF ReadTo

\* A step that forms a token begins at a character of the file, and reports no
\* comment.
FormsToken ==
  /\ Reading /\ text[Here] # Nul /\ \E kind, end : formToken(kind, end)
  /\ \A r \in reported' \ reported : r[1] # "err_unterminated_block_comment"

\* The steps of the lexer, as far as comments are concerned.
LEMMA Steps ==
  ASSUME [next \/ Lost]_vars
  PROVE  \/ FormsToken \/ UNCHANGED vars
         \/ Reading /\ \E kind : Unformed(kind)
         \/ OpenComment \/ NestedComment \/ CommentCharacter
         \/ CloseNested \/ CloseComment \/ OpenAtEnd
<1>1. CASE identifier
  BY <1>1 DEF identifier, At, FormsToken, Letter, Nul
<1>2. CASE HexNumber
  BY <1>2 DEF HexNumber, At, FormsToken, Digit, Nul
<1>3. CASE DecimalNumber
  BY <1>3 DEF DecimalNumber, Report, HexInDecimal, At, FormsToken, Digit, Nul
<1>4. CASE RealNumber
  <2> DEFINE f == Skip(DigitsEnd + 1, Digit)
             scale ==
               IF text[f] \in {"E", "e"} THEN scaleFactor(f, {})
               ELSE IF text[f] \in {"D", "d"}
                 THEN scaleFactor(f, {"err_longreal_literal_not_implemented"})
               ELSE [end |-> f, reports |-> {}]
  <2>1. At(Digit) /\ formToken("real_literal", scale.end) /\ Report(HexInDecimal \cup scale.reports)
    BY <1>4 DEF RealNumber
  <2>2. ASSUME NEW diags PROVE scaleFactor(f, diags).reports \subseteq {"err_invalid_real_literal"} \cup diags
    BY DEF scaleFactor
  <2>3. scale.reports \subseteq {"err_invalid_real_literal", "err_longreal_literal_not_implemented"}
    BY <2>2
  <2> HIDE DEF scale
  <2> QED
    BY <2>1, <2>3 DEF Report, HexInDecimal, At, FormsToken, Digit, Nul
<1>5. CASE string
  BY <1>5 DEF string, Report, At, FormsToken, Quote, Nul
<1>6. CASE SingleCharacter
  BY <1>6 DEF SingleCharacter, At, FormsToken, Single, Nul
<1>7. CASE Punctuator
  BY <1>7 DEF Punctuator, At, FormsToken, Double, Nul
<1>8. CASE EndOfFile \/ UnknownCharacter
  BY <1>8 DEF EndOfFile, UnknownCharacter, At
<1> QED
  BY <1>1, <1>2, <1>3, <1>4, <1>5, <1>6, <1>7, <1>8 DEF next, Lost

\* The comment that is being read stays as CommentRead says.
LEMMA CommentReadKept ==
  ASSUME LexInv, CommentRead, [next \/ Lost]_vars
  PROVE  text' = text /\ CommentRead'
<1>1. /\ IsText /\ Level \in Nat /\ (Level > 0 => CurPtr \in 1 .. Len(text)) /\ Len(text) \in Nat
      /\ Level > 0 => ReadTo(CurPtr, End, Level)
  BY DEF LexInv, IsText, CommentRead
<1>2. ASSUME text' = text, Level' > 0 => ReadTo(CurPtr', End', Level') PROVE text' = text /\ CommentRead'
  <2>1. CommentRead' <=> (Level' > 0 => ReadTo(CurPtr, End, Level)')
    BY DEF CommentRead
  <2>2. ReadTo(CurPtr, End, Level)' <=> ReadTo(CurPtr', End', Level')
    BY <1>2 DEF ReadTo, DepthAt, Counts, OpensAt, ClosesAt
  <2> QED
    BY <1>2, <2>1, <2>2
<1>3. CASE UNCHANGED vars
  BY <1>1, <1>2, <1>3 DEF vars
<1>4. CASE FormsToken \/ (Reading /\ \E kind : Unformed(kind))
  <2>1. ASSUME NEW kind, NEW end, formToken(kind, end) PROVE text' = text /\ Level' = Level
    BY <2>1, Formed
  <2>2. ASSUME NEW kind, Unformed(kind) PROVE text' = text /\ Level' = Level
    BY <2>2 DEF Unformed
  <2>3. text' = text /\ Level' = 0
    BY <1>4, <2>1, <2>2 DEF FormsToken, Reading
  <2> QED
    BY <1>2, <2>3
<1>5. CASE OpenComment
  <2>1. /\ Reading /\ text[Here] = "(" /\ text[Here + 1] = "*" /\ text' = text
        /\ CurPtr' = Here /\ End' = Here + 2 /\ Level' = 1
    BY <1>5 DEF OpenComment, At
  <2>2. ReadTo(Here, Here + 2, 1)
    BY <1>1, <2>1, HereWithin, ReadOpening DEF OpensAt
  <2> QED
    BY <1>2, <2>1, <2>2
<1>6. CASE NestedComment
  <2>1. /\ Level > 0 /\ OpensAt(End) /\ text' = text
        /\ CurPtr' = CurPtr /\ End' = End + 2 /\ Level' = Level + 1
    BY <1>6 DEF NestedComment, InComment, Pair, OpensAt
  <2>2. ReadTo(CurPtr, End + 2, Level + 1)
    BY <1>1, <2>1, ReadDelimiter
  <2> QED
    BY <1>2, <2>1, <2>2
<1>7. CASE CommentCharacter
  <2>1. /\ Level > 0 /\ text[End] # Nul /\ ~OpensAt(End) /\ ~ClosesAt(End) /\ text' = text
        /\ CurPtr' = CurPtr /\ End' = End + 1 /\ Level' = Level
    BY <1>7 DEF CommentCharacter, InComment, Pair, OpensAt, ClosesAt
  <2>2. ReadTo(CurPtr, End + 1, Level)
    BY <1>1, <2>1, ReadCharacter
  <2> QED
    BY <1>2, <2>1, <2>2
<1>8. CASE CloseNested
  <2>1. /\ Level > 1 /\ ClosesAt(End) /\ text' = text
        /\ CurPtr' = CurPtr /\ End' = End + 2 /\ Level' = Level - 1
    BY <1>8 DEF CloseNested, InComment, Pair, ClosesAt
  <2>2. ReadTo(CurPtr, End + 2, Level - 1)
    BY <1>1, <2>1, ReadDelimiter
  <2> QED
    BY <1>2, <2>1, <2>2
<1>9. CASE CloseComment \/ OpenAtEnd
  BY <1>2, <1>9 DEF CloseComment, OpenAtEnd, Leave
<1>10. \/ FormsToken \/ UNCHANGED vars
       \/ Reading /\ \E kind : Unformed(kind)
       \/ OpenComment \/ NestedComment \/ CommentCharacter
       \/ CloseNested \/ CloseComment \/ OpenAtEnd
  BY Steps
<1> QED
  BY <1>3, <1>4, <1>5, <1>6, <1>7, <1>8, <1>9, <1>10

-----------------------------------------------------------------------------
\* CommentReportsTrue of one report.
ReportTrue(r) ==
  r[1] = "err_unterminated_block_comment" =>
    LET end == CHOOSE e \in r[2] .. Len(text) :
                 text[e] = Nul /\ \A j \in r[2] .. e - 1 : text[j] # Nul
        rest == SubSeq(text, r[2], end - 1)
    IN  Grammar!Comment(rest) \/ ~\E e \in DOMAIN rest : Grammar!Comment(Grammar!Upto(rest, e))

\* The file ends, for the lexer, at the first NUL.
LEMMA ReportWhen ==
  ASSUME IsText, NEW a \in 1 .. Len(text), NEW end \in a .. Len(text), text[end] = Nul,
         \A j \in a .. end - 1 : text[j] # Nul, NEW diag,
         \/ Grammar!Comment(SubSeq(text, a, end - 1))
         \/ \A e \in a .. end - 1 : ~Grammar!Comment(SubSeq(text, a, e))
  PROVE  ReportTrue(<<diag, a>>)
<1> DEFINE First(e) == text[e] = Nul /\ \A j \in a .. e - 1 : text[j] # Nul
           rest == SubSeq(text, a, end - 1)
<1>1. Len(text) \in Nat /\ end - 1 \in a - 1 .. Len(text) /\ First(end)
  BY DEF IsText
<1>2. ASSUME NEW e \in a .. Len(text), First(e) PROVE e = end
  <2>1. ~ end < e /\ ~ e < end
    BY <1>1, <1>2
  <2> QED
    BY <1>1, <2>1
<1> HIDE DEF First
<1>3. end = CHOOSE e \in a .. Len(text) : First(e)
  BY <1>1, <1>2
<1>4. Grammar!Comment(rest) \/ ~\E e \in DOMAIN rest : Grammar!Comment(Grammar!Upto(rest, e))
  <2>1. DOMAIN rest = 1 .. end - 1 - a + 1
    BY <1>1, PieceFacts
  <2> SUFFICES ASSUME \A e \in a .. end - 1 : ~Grammar!Comment(SubSeq(text, a, e)),
                      NEW i \in DOMAIN rest, Grammar!Comment(Grammar!Upto(rest, i))
               PROVE  FALSE
    OBVIOUS
  <2> DEFINE e == a + i - 1
  <2>2. e \in a .. end - 1 /\ e - a + 1 = i /\ a - a + 1 = 1 /\ a \in a .. end - 1 + 1 /\ e \in a - 1 .. end - 1
        /\ end - 1 \in a .. Len(text)
    BY <1>1, <2>1
  <2> HIDE DEF e
  <2>3. SubSeq(rest, a - a + 1, e - a + 1) = SubSeq(text, a, e)
    BY <2>2, PartOfPiece
  <2>4. Grammar!Upto(rest, i) = SubSeq(text, a, e)
    BY <2>2, <2>3 DEF Grammar!Upto
  <2> QED
    BY <2>2, <2>4
<1> QED
  BY <1>3, <1>4 DEF ReportTrue, First

\* CommentReportsTrue is said of each report by itself.
LEMMA ReportByReport == CommentReportsTrue <=> \A r \in reported : ReportTrue(r)
BY DEF CommentReportsTrue, ReportTrue

\* Only a comment that is over is reported, and only if it is open where the
\* file ends or closed by its last characters.
LEMMA ReportsKept ==
  ASSUME LexInv, CommentRead, CommentReportsTrue, [next \/ Lost]_vars
  PROVE  CommentReportsTrue'
<1>1. text' = text
  BY CommentReadKept
<1>2. \A r \in reported : ReportTrue(r)
  BY ReportByReport
<1>3. SUFFICES \A r \in reported' : ReportTrue(r)
  <2>1. CommentReportsTrue' <=> \A r \in reported' : ReportTrue(r)
    BY <1>1 DEF CommentReportsTrue, ReportTrue
  <2> QED
    BY <2>1
<1>4. IsText /\ Len(text) \in Nat /\ Level \in Nat /\ (Level > 0 => CurPtr \in 1 .. Len(text))
  BY DEF LexInv, IsText
<1>5. ASSUME Level > 0 PROVE ReadTo(CurPtr, End, Level)
  BY <1>5 DEF CommentRead
<1>6. CASE FormsToken
  <2>1. \A r \in reported' \ reported : ReportTrue(r)
    BY <1>6 DEF FormsToken, ReportTrue
  <2> QED
    BY <1>2, <2>1
<1>7. CASE CloseComment
  <2> DEFINE end == End + 1 + 1
  <2>1. /\ Level = 1 /\ ClosesAt(End)
        /\ reported' = reported \cup
             IF text[End + 2] = Nul THEN {<<"err_unterminated_block_comment", CurPtr>>} ELSE {}
    BY <1>7 DEF CloseComment, InComment, Pair, Leave, ClosesAt
  <2>2. /\ End + 1 \in CurPtr + 3 .. Len(text) - 1 /\ Grammar!Comment(SubSeq(text, CurPtr, End + 1))
        /\ \A j \in CurPtr .. End + 1 : text[j] # Nul
    BY <1>4, <1>5, <2>1, ReadWhole
  <2>3. end \in CurPtr .. Len(text) /\ end = End + 2 /\ end - 1 = End + 1
    BY <1>4, <1>5, <2>1, <2>2 DEF ReadTo
  <2> HIDE DEF end
  <2>4. ASSUME text[end] = Nul PROVE ReportTrue(<<"err_unterminated_block_comment", CurPtr>>)
    <3>1. Grammar!Comment(SubSeq(text, CurPtr, end - 1)) /\ \A j \in CurPtr .. end - 1 : text[j] # Nul
      BY <2>2, <2>3
    <3>2. IsText /\ CurPtr \in 1 .. Len(text) /\ end \in CurPtr .. Len(text)
      BY <1>4, <2>1, <2>3
    <3> QED
      BY <2>4, <3>1, <3>2, ReportWhen
  <2> QED
    BY <1>2, <2>1, <2>3, <2>4
<1>8. CASE OpenAtEnd
  <2>1. /\ Level > 0 /\ text[End] = Nul
        /\ reported' = reported \cup {<<"err_unterminated_block_comment", CurPtr>>}
    BY <1>8 DEF OpenAtEnd, Leave
  <2>2. ReadTo(CurPtr, End, Level) /\ \A e \in CurPtr .. End - 1 : ~Grammar!Comment(SubSeq(text, CurPtr, e))
    BY <1>4, <1>5, <2>1, ReadNone
  <2>3. End \in CurPtr .. Len(text) /\ \A j \in CurPtr .. End - 1 : text[j] # Nul
    BY <1>4, <2>1, <2>2 DEF ReadTo
  <2>4. ReportTrue(<<"err_unterminated_block_comment", CurPtr>>)
    BY <1>4, <2>1, <2>2, <2>3, ReportWhen
  <2> QED
    BY <1>2, <2>1, <2>4
<1>9. CASE UNCHANGED vars
  BY <1>2, <1>9 DEF vars
<1>10. CASE \/ Reading /\ \E kind : Unformed(kind)
            \/ OpenComment \/ NestedComment \/ CommentCharacter \/ CloseNested
  BY <1>2, <1>10 DEF Unformed, OpenComment, NestedComment, CommentCharacter, CloseNested
<1>11. \/ FormsToken \/ UNCHANGED vars
       \/ Reading /\ \E kind : Unformed(kind)
       \/ OpenComment \/ NestedComment \/ CommentCharacter
       \/ CloseNested \/ CloseComment \/ OpenAtEnd
  BY Steps
<1> QED
  BY <1>6, <1>7, <1>8, <1>9, <1>10, <1>11

-----------------------------------------------------------------------------
\* Every character from a position to another is white or in a whole comment
\* between them.
BlankIn(file, from, to) ==
  \A p \in from .. to :
    \/ file[p] \in White
    \/ \E a \in from .. p, b \in p .. to : Grammar!Comment(SubSeq(file, a, b))

\* Where the i-th of some tokens ends.
BehindIn(tokens, i) == IF i = 0 THEN 1 ELSE tokens[i].at + tokens[i].length

\* What lies behind the last token has been skipped rightly; a file that has
\* ended in a comment goes nowhere any more.
BlankSoFar ==
  /\ BehindIn(formed, Len(formed)) \in 1 .. CurPtr
  /\ ~Overrun => BlankIn(text, BehindIn(formed, Len(formed)), CurPtr - 1) \/ text[CurPtr] = Nul

\* GapsAreBlank is said of what lies before each token.
LEMMA GapByGap ==
  ASSUME formed \in Seq([kind : TokenKinds, at : Nat \ {0}, length : Nat \ {0}])
  PROVE  GapsAreBlank <=> \A i \in 1 .. Len(formed) : BlankIn(text, BehindIn(formed, i - 1), formed[i].at - 1)
<1>1. DOMAIN formed = 1 .. Len(formed) /\ Len(formed) \in Nat
  OBVIOUS
<1>2. ASSUME NEW i \in 1 .. Len(formed)
      PROVE  BehindIn(formed, i - 1) = IF i = 1 THEN 1 ELSE formed[i - 1].at + formed[i - 1].length
  BY <1>1 DEF BehindIn
<1> QED
  BY <1>1, <1>2 DEF GapsAreBlank, BlankIn

\* White space extends what is blank.
LEMMA BlankGrows ==
  ASSUME NEW file, NEW from \in Int, NEW here \in Int, NEW to \in Int, here <= to,
         BlankIn(file, from, here - 1), \A p \in here .. to - 1 : file[p] \in White
  PROVE  BlankIn(file, from, to - 1)
<1> SUFFICES ASSUME NEW p \in from .. to - 1, file[p] \notin White
             PROVE  \E a \in from .. p, b \in p .. to - 1 : Grammar!Comment(SubSeq(file, a, b))
  BY DEF BlankIn
<1>1. p \in from .. here - 1
  OBVIOUS
<1>2. PICK a \in from .. p, b \in p .. here - 1 : Grammar!Comment(SubSeq(file, a, b))
  BY <1>1 DEF BlankIn
<1>3. b \in p .. to - 1
  BY <1>1, <1>2
<1> QED
  BY <1>2, <1>3

\* So does a comment.
LEMMA BlankComment ==
  ASSUME NEW file, NEW from \in Int, NEW here \in Int, NEW to \in Int, from <= here, here <= to,
         BlankIn(file, from, here - 1), Grammar!Comment(SubSeq(file, here, to))
  PROVE  BlankIn(file, from, to)
<1> SUFFICES ASSUME NEW p \in from .. to, file[p] \notin White
             PROVE  \E a \in from .. p, b \in p .. to : Grammar!Comment(SubSeq(file, a, b))
  BY DEF BlankIn
<1>1. CASE p < here
  <2>1. p \in from .. here - 1
    BY <1>1
  <2>2. PICK a \in from .. p, b \in p .. here - 1 : Grammar!Comment(SubSeq(file, a, b))
    BY <2>1 DEF BlankIn
  <2>3. b \in p .. to
    BY <2>1, <2>2
  <2> QED
    BY <2>2, <2>3
<1>2. CASE ~ p < here
  <2>1. here \in from .. p /\ to \in p .. to
    BY <1>2
  <2> QED
    BY <2>1
<1> QED
  BY <1>1, <1>2

\* next() has skipped white space up to Here.
LEMMA BlankToHere ==
  ASSUME LexInv, BlankSoFar, Reading
  PROVE  /\ Here \in CurPtr .. Len(text) /\ BehindIn(formed, Len(formed)) \in 1 .. Here
         /\ text[Here] # Nul => BlankIn(text, BehindIn(formed, Len(formed)), Here - 1)
         /\ text[CurPtr] = Nul => Here = CurPtr
<1> DEFINE from == BehindIn(formed, Len(formed))
<1>1. /\ IsText /\ Len(text) \in Nat /\ CurPtr \in 1 .. Len(text) /\ Here \in CurPtr .. Len(text)
      /\ ~Overrun /\ from \in 1 .. CurPtr
  BY HereWithin DEF LexInv, IsText, Reading, Overrun, BlankSoFar
<1>2. \A k \in CurPtr .. Here - 1 : text[k] \in White
  BY <1>1, SkipEnds DEF Here, White, NewLine, Nul
<1>3. text[CurPtr] = Nul => Here = CurPtr
  <2>1. Nul \notin White
    BY DEF White, NewLine, Nul
  <2>2. Here # CurPtr => CurPtr \in CurPtr .. Here - 1
    BY <1>1
  <2> QED
    BY <1>2, <2>1, <2>2
<1>4. BlankIn(text, from, CurPtr - 1) \/ text[CurPtr] = Nul
  BY <1>1 DEF BlankSoFar
<1> HIDE DEF from
<1>5. text[Here] # Nul => BlankIn(text, from, Here - 1)
  BY <1>1, <1>2, <1>3, <1>4, BlankGrows
<1> QED
  BY <1>1, <1>3, <1>5 DEF from

\* A token is formed behind what has been skipped.
LEMMA TokenGaps ==
  ASSUME LexInv, LexInv', BlankSoFar, GapsAreBlank, FormsToken
  PROVE  BlankSoFar' /\ GapsAreBlank'
<1> DEFINE n == Len(formed)
           from == BehindIn(formed, n)
<1>1. PICK kind, end : formToken(kind, end)
  BY DEF FormsToken
<1> DEFINE new == [kind |-> kind, at |-> Here, length |-> end - Here]
<1>2. CurPtr' = end /\ text' = text /\ formed' = Append(formed, new)
  BY <1>1, Formed
<1>3. BlankIn(text, from, Here - 1) /\ Here \in CurPtr .. Len(text) /\ CurPtr \in 1 .. Len(text)
  BY BlankToHere DEF FormsToken, Reading, LexInv, Overrun, IsText
<1>4. /\ formed \in Seq([kind : TokenKinds, at : Nat \ {0}, length : Nat \ {0}]) /\ n \in Nat
      /\ formed' \in Seq([kind : TokenKinds, at : Nat \ {0}, length : Nat \ {0}])
  BY DEF LexInv
<1>5. Len(formed') = n + 1 /\ formed'[n + 1] = new /\ \A i \in 1 .. n : formed'[i] = formed[i]
  BY <1>2, <1>4
<1>6. new.at = Here /\ new.length = end - Here
  OBVIOUS
<1> HIDE DEF n, new
<1>7. Here \in Int /\ end \in Int
  BY <1>2, <1>3 DEF LexInv, IsText
<1>8. BehindIn(formed', n + 1) = end
  <2>1. n + 1 # 0
    BY <1>4
  <2>2. new.at + new.length = end
    BY <1>7, <1>6
  <2> QED
    BY <1>5, <2>1, <2>2 DEF BehindIn
<1>9. \A i \in 0 .. n : BehindIn(formed', i) = BehindIn(formed, i)
  <2> SUFFICES ASSUME NEW i \in 0 .. n PROVE BehindIn(formed', i) = BehindIn(formed, i)
    OBVIOUS
  <2>1. i # 0 => i \in 1 .. n
    BY <1>4
  <2> QED
    BY <1>5, <2>1 DEF BehindIn
<1>10. BlankSoFar'
  <2>1. CurPtr' \in 1 .. CurPtr'
    BY <1>2 DEF LexInv
  <2>2. BlankIn(text, end, end - 1)
    <3>1. end .. end - 1 = {}
      BY <1>7
    <3> QED
      BY <3>1 DEF BlankIn
  <2>3. BlankSoFar' <=> /\ BehindIn(formed', Len(formed')) \in 1 .. CurPtr'
                        /\ ~Overrun' => BlankIn(text', BehindIn(formed', Len(formed')), CurPtr' - 1) \/ text'[CurPtr'] = Nul
    BY DEF BlankSoFar, BehindIn, BlankIn
  <2> QED
    BY <1>2, <1>5, <1>8, <2>1, <2>2, <2>3
<1>11. GapsAreBlank'
  <2>1. \A i \in 1 .. n : BlankIn(text, BehindIn(formed, i - 1), formed[i].at - 1)
    BY <1>4, GapByGap DEF n
  <2>2. ASSUME NEW i \in 1 .. n + 1 PROVE BlankIn(text, BehindIn(formed', i - 1), formed'[i].at - 1)
    <3>1. CASE i = n + 1
      <4>1. i - 1 = n /\ n \in 0 .. n /\ new.at = Here
        BY <1>4, <1>6, <3>1
      <4> QED
        BY <1>3, <1>5, <1>9, <3>1, <4>1
    <3>2. CASE i # n + 1
      <4>1. i \in 1 .. n /\ i - 1 \in 0 .. n
        BY <1>4, <3>2
      <4> QED
        BY <1>5, <1>9, <2>1, <4>1
    <3> QED
      BY <3>1, <3>2
  <2>3. GapsAreBlank' <=> \A i \in 1 .. Len(formed') : BlankIn(text', BehindIn(formed', i - 1), formed'[i].at - 1)
    <3>1. (formed \in Seq([kind : TokenKinds, at : Nat \ {0}, length : Nat \ {0}])
            => (GapsAreBlank <=> \A i \in 1 .. Len(formed) : BlankIn(text, BehindIn(formed, i - 1), formed[i].at - 1)))'
      BY GapByGap, PTL
    <3> QED
      BY <1>4, <3>1 DEF BlankIn, BehindIn
  <2> QED
    BY <1>2, <1>5, <2>2, <2>3
<1> QED
  BY <1>10, <1>11

\* White space and comments are skipped as BlankSoFar says, and the tokens that
\* have been formed lie behind blanks.
LEMMA GapsKept ==
  ASSUME LexInv, LexInv', CommentRead, BlankSoFar, GapsAreBlank, [next \/ Lost]_vars
  PROVE  BlankSoFar' /\ GapsAreBlank'
<1> DEFINE from == BehindIn(formed, Len(formed))
<1>1. /\ IsText /\ Len(text) \in Nat /\ from \in 1 .. CurPtr /\ CurPtr \in 1 .. Len(text) + 1 /\ Level \in Nat
      /\ Level > 0 => CurPtr \in 1 .. Len(text) /\ ReadTo(CurPtr, End, Level)
      /\ ~Overrun => BlankIn(text, from, CurPtr - 1) \/ text[CurPtr] = Nul
  BY DEF LexInv, IsText, BlankSoFar, CommentRead
<1>2. ASSUME text' = text, formed' = formed, from \in 1 .. CurPtr',
             CurPtr' <= Len(text) => BlankIn(text, from, CurPtr' - 1) \/ text[CurPtr'] = Nul
      PROVE  BlankSoFar' /\ GapsAreBlank'
  <2>1. GapsAreBlank'
    BY <1>2 DEF GapsAreBlank
  <2>2. ~Overrun' => CurPtr' <= Len(text)
    BY <1>2 DEF Overrun, LexInv, IsText
  <2>3. BlankSoFar' <=> /\ BehindIn(formed', Len(formed')) \in 1 .. CurPtr'
                        /\ ~Overrun' => BlankIn(text', BehindIn(formed', Len(formed')), CurPtr' - 1) \/ text'[CurPtr'] = Nul
    BY DEF BlankSoFar, BehindIn, BlankIn
  <2> QED
    BY <1>2, <2>1, <2>2, <2>3
<1> HIDE DEF from
<1>3. CASE FormsToken
  BY <1>3, TokenGaps
<1>4. CASE UNCHANGED vars
  BY <1>1, <1>2, <1>4 DEF vars, Overrun
<1>5. CASE (Reading /\ \E kind : Unformed(kind)) \/ OpenComment
  <2>1. Reading /\ text' = text /\ formed' = formed /\ CurPtr' = Here
    BY <1>5 DEF Unformed, OpenComment, At
  <2>2. from \in 1 .. Here /\ (text[Here] # Nul => BlankIn(text, from, Here - 1))
    BY <2>1, BlankToHere DEF from
  <2> QED
    BY <1>2, <2>1, <2>2
<1>6. CASE NestedComment \/ CommentCharacter \/ CloseNested
  <2>1. ~Overrun /\ text' = text /\ formed' = formed /\ CurPtr' = CurPtr
    BY <1>6 DEF NestedComment, CommentCharacter, CloseNested, InComment
  <2> QED
    BY <1>1, <1>2, <2>1
<1>7. CASE CloseComment
  <2> DEFINE to == End + 1
  <2>1. ~Overrun /\ Level = 1 /\ ClosesAt(End) /\ text' = text /\ formed' = formed /\ CurPtr' = End + 2
    BY <1>7 DEF CloseComment, InComment, Pair, Leave, ClosesAt
  <2>2. CurPtr \in 1 .. Len(text) /\ ReadTo(CurPtr, End, 1)
    BY <1>1, <2>1
  <2>3. to \in CurPtr + 3 .. Len(text) - 1 /\ Grammar!Comment(SubSeq(text, CurPtr, to))
    BY <1>1, <2>1, <2>2, ReadWhole
  <2>4. to \in Int /\ CurPtr <= to /\ CurPtr' = to + 1 /\ CurPtr' - 1 = to /\ from \in 1 .. CurPtr'
    BY <1>1, <2>1, <2>2, <2>3 DEF ReadTo
  <2> HIDE DEF to
  <2>5. BlankIn(text, from, CurPtr - 1)
    BY <1>1, <2>1, <2>2 DEF ReadTo, OpensAt, Nul
  <2>6. BlankIn(text, from, to)
    BY <1>1, <2>2, <2>3, <2>4, <2>5, BlankComment
  <2> QED
    BY <1>2, <2>1, <2>4, <2>6
<1>8. CASE OpenAtEnd
  <2>1. Level > 0 /\ text[End] = Nul /\ text' = text /\ formed' = formed /\ CurPtr' = End
    BY <1>8 DEF OpenAtEnd, Leave
  <2>2. from \in 1 .. End
    BY <1>1, <2>1 DEF ReadTo
  <2> QED
    BY <1>2, <2>1, <2>2
<1>9. \/ FormsToken \/ UNCHANGED vars
      \/ Reading /\ \E kind : Unformed(kind)
      \/ OpenComment \/ NestedComment \/ CommentCharacter
      \/ CloseNested \/ CloseComment \/ OpenAtEnd
  BY Steps
<1> QED
  BY <1>3, <1>4, <1>5, <1>6, <1>7, <1>8, <1>9

\* Nothing has been read yet.
LEMMA CommentsBegin ==
  ASSUME Init, LexInv
  PROVE  CommentRead /\ BlankSoFar /\ CommentsAsNested
<1>1. Level = 0 /\ CurPtr = 1 /\ formed = <<>> /\ reported = {} /\ Len(formed) = 0
  BY DEF Init
<1>2. BehindIn(formed, 0) = 1 /\ BlankIn(text, 1, 0)
  BY DEF BehindIn, BlankIn
<1>3. DOMAIN formed = {}
  BY <1>1
<1> QED
  BY <1>1, <1>2, <1>3 DEF CommentRead, BlankSoFar, CommentsAsNested, GapsAreBlank, CommentReportsTrue

-----------------------------------------------------------------------------
\* LexInv is the common ground; TokenNamed, CommentRead and BlankSoFar carry the
\* properties from one step to the next.
LexerInvariant ==
  LexInv /\ TokenNamed /\ TokensAsSpelled /\ CommentRead /\ BlankSoFar /\ CommentsAsNested

\* The lexer begins at the first character of a file, with nothing read.
LEMMA InvariantBegins ==
  ASSUME Init
  PROVE  LexerInvariant
<1>1. LexInv
  <2>1. IsText
    BY TextsEndInNul DEF Init, IsText
  <2>2. CurPtr = 1 /\ End = 1 /\ Level = 0 /\ formed = <<>> /\ reported = {}
    BY DEF Init
  <2>3. Len(text) \in Nat \ {0}
    BY <2>1 DEF IsText
  <2> QED
    BY <2>1, <2>2, <2>3 DEF LexInv, WithinText, Overrun
<1>2. TokenNamed
  BY DEF Init, TokenNamed, Uninitialised
<1>3. TokensAsSpelled
  <2>1. DOMAIN formed = {}
    BY DEF Init
  <2> QED
    BY <2>1 DEF TokensAsSpelled
<1> QED
  BY <1>1, <1>2, <1>3, CommentsBegin DEF LexerInvariant

\* Every step keeps LexInv.
LEMMA LexInvKept ==
  ASSUME LexInv, [next \/ Lost]_vars
  PROVE  LexInv'
<1>1. CASE next
  <2>1. CASE EndOfFile \/ UnknownCharacter
    BY <2>1, UnformedKeeps DEF EndOfFile, UnknownCharacter, At
  <2> QED
    BY <1>1, <2>1, identifierKeeps, HexNumberKeeps, DecimalNumberKeeps, RealNumberKeeps,
       stringKeeps, PunctuatorKeeps, OpenCommentKeeps, InCommentKeeps, LeaveKeeps DEF next
<1>2. CASE UNCHANGED vars
  BY <1>2 DEF vars, LexInv, IsText, WithinText, Overrun, EndsInNul, ReportedAt
<1> QED
  BY <1>1, <1>2 DEF Lost

\* Every step keeps the invariant.
LEMMA InvariantKept ==
  ASSUME LexerInvariant, [next \/ Lost]_vars
  PROVE  LexerInvariant'
<1> USE DEF LexerInvariant
<1>1. LexInv'
  BY LexInvKept
<1>2. TokenNamed' /\ TokensAsSpelled' /\ CommentRead'
  BY <1>1, TokenNamedKept, NextSpells, CommentReadKept
<1>3. BlankSoFar' /\ GapsAreBlank'
  BY <1>1, GapsKept DEF CommentsAsNested
<1>4. CommentReportsTrue'
  BY ReportsKept DEF CommentsAsNested
<1> QED
  BY <1>1, <1>2, <1>3, <1>4 DEF CommentsAsNested

\* LexerInvariant holds of every file.
LEMMA Invariance == Spec => []LexerInvariant
<1>1. Init => LexerInvariant
  BY InvariantBegins
<1>2. LexerInvariant /\ [next \/ Lost]_vars => LexerInvariant'
  BY InvariantKept
<1> QED
  BY <1>1, <1>2, PTL DEF Spec

\* Every scanning loop and every CHOOSE of a position finds one in the file, and
\* the parser is only given tokens of the kinds there are.
THEOREM TypeCorrect == Spec => []TypeOK
<1>1. LexerInvariant => TypeOK
  BY KindNames DEF LexerInvariant, LexInv, TokenNamed, TypeOK, Token
<1> QED
  BY <1>1, Invariance, PTL

\* Whatever the file holds, keywords, quotes and comments in any state, the lexer
\* reads no character behind its NUL, except behind a string that is open there.
THEOREM WithinTextHolds == Spec => []WithinText
<1>1. LexerInvariant => WithinText
  BY DEF LexerInvariant, LexInv
<1> QED
  BY <1>1, Invariance, PTL

\* Of every file, the tokens handed over without a report are those of the
\* grammar, each the longest that begins at its place: next() with its one
\* character of lookahead (two for a range) takes neither too little nor too much.
THEOREM TokensAsSpelledHolds == Spec => []TokensAsSpelled
<1>1. LexerInvariant => TokensAsSpelled
  BY DEF LexerInvariant
<1> QED
  BY <1>1, Invariance, PTL

\* Of every file, between tokens lie only white space and whole comments, nested
\* to whatever depth; and comment() reports a comment as unterminated only if it
\* is, or if it ends with the file.
THEOREM CommentsAsNestedHolds == Spec => []CommentsAsNested
<1>1. LexerInvariant => CommentsAsNested
  BY DEF LexerInvariant
<1> QED
  BY <1>1, Invariance, PTL
=============================================================================
