--------------------------- MODULE StatementLists ---------------------------
(* Procedure bodies as token sequences, enumerated for TLC. *)
EXTENDS Naturals, Sequences
CONSTANTS
  Single,  \* the statements of one token
  Heads    \* pairs <<op, token>>: the tokens that open an IF or WHILE

Mark(op) == [op |-> op, reads |-> "", writes |-> "", passes |-> "", inConst |-> FALSE]
Close(op) == Mark(IF op = "while" THEN "endwhile" ELSE "endif")
Else == Mark("else")

\* Lists[n]: the statement lists of exactly n tokens, each a first statement
\* followed by the rest.  The ELSE part of an "ifelse" is not empty.
Lists[n \in Nat] ==
  LET Plain(k) ==
        {<<h>> \o l \o <<Close(h.op)>> : h \in {g \in Heads : g.op # "ifelse"}, l \in Lists[k - 2]}
      Alternative(k) ==
        UNION {{<<h>> \o l \o <<Else>> \o r \o <<Close(h.op)>> :
                  h \in {g \in Heads : g.op = "ifelse"}, l \in Lists[j], r \in Lists[k - 3 - j]} :
               j \in {i \in 0 .. k : i + 4 <= k}}
      First(k) == IF k = 1 THEN {<<s>> : s \in Single} ELSE Plain(k) \cup Alternative(k)
  IN  IF n = 0 THEN {<<>>}
      ELSE UNION {{s \o l : s \in First(k), l \in Lists[n - k]} : k \in 1 .. n}

UpTo(n) == UNION {Lists[i] : i \in 0 .. n}
=============================================================================
