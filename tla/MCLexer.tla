------------------------------ MODULE MCLexer ------------------------------
(* Short files over the characters of numbers, of strings, of comments and   *)
(* of names and punctuators, and shorter ones over all of them.              *)
EXTENDS Lexer
CONSTANTS Longest, Mixed

Over(S, n) == UNION {[1 .. i -> S] : i \in 0 .. n}
Numbers == Over({"1", "A", "E", "D", "H", ".", "+"}, Longest)
Strings == Over({"\"", "'", "\n", "_"}, Longest)
Comments == Over({"(", "*", ")", "1"}, Longest + 2)
EarlyEnds == Over({"(", "*", ")", Nul}, Longest + 1)
Names == Over({"D", "O", "1", ":", "=", "?"}, Longest)
Everything == Over({"0", "e", ".", "\"", "\n", "(", "*", ")", "O", "<", "-", ";", " ", "?", Nul}, Mixed)

AllTexts == {Append(t, Nul) : t \in Numbers \cup Strings \cup Comments \cup EarlyEnds \cup Names \cup Everything}
SomeKeywords == {<<"D", "O">>}
=============================================================================
