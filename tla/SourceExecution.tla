-------------------------- MODULE SourceExecution --------------------------
(***************************************************************************)
(* What a procedure body promises to do, in terms of the source language:  *)
(* statements run in the order IF and WHILE give them, and each one reads  *)
(* the value its variable was last given.  Conditions are not interpreted: *)
(* either branch may be taken.  A VAR parameter is another name of the     *)
(* variable it was called with, and a procedure that is called may assign  *)
(* the variables of the module and the one it is passed.  Code generation  *)
(* is to implement this.                                                   *)
(***************************************************************************)
EXTENDS Naturals, Sequences, TLC

CONSTANTS
  Decls,      \* the local variables and value parameters
  Params,     \* those that hold an argument at the start
  Globals,    \* the variables of the module
  VarParams,  \* the VAR parameters
  NoDecl,     \* a token that reads, writes or passes nothing
  Data,       \* the values a variable can hold
  Unset       \* the value of a variable that was never assigned

VARIABLES
  prog,    \* the body, a sequence of tokens as in BlockEmission
  at,      \* the token that runs next; Len(prog) + 1 when the body is over
  args,    \* the values of the parameters
  refers,  \* the variable each VAR parameter was called with
  store,   \* the value of each variable
  seen     \* the value the last token read

vars == <<prog, at, args, refers, store, seen>>
Halted == Len(prog) + 1

Opens(i) == prog[i].op \in {"if", "ifelse", "while"}
Closes(i) == prog[i].op \in {"endif", "endwhile"}
\* Tokens i and j open and close one statement: what lies between is balanced.
Depth(i, j) ==
  LET count(P(_)) == Len(SelectSeq([k \in 1 .. j - i + 1 |-> i + k - 1], P))
  IN  count(Opens) - count(Closes)
Close(i) == CHOOSE j \in i .. Len(prog) :
              /\ Closes(j) /\ Depth(i, j) = 0
              /\ \A k \in i .. j - 1 : Depth(i, k) > 0
ElseOf(i) == CHOOSE j \in i .. Close(i) : prog[j].op = "else" /\ Depth(i, j) = 1
OpenOf(j) == CHOOSE i \in 1 .. j : Opens(i) /\ Close(i) = j
Enclosing(i) == CHOOSE o \in 1 .. i : Opens(o) /\ prog[o].op = "ifelse" /\ ElseOf(o) = i

\* Where control may go after token i.
Successors(i) ==
  LET op == prog[i].op IN
  CASE op = "if"       -> {i + 1, Close(i) + 1}
    [] op = "ifelse"   -> {i + 1, ElseOf(i) + 1}
    [] op = "while"    -> {i + 1, Close(i) + 1}
    [] op = "else"     -> {Close(Enclosing(i)) + 1}
    [] op = "endwhile" -> {OpenOf(i)}
    [] op = "return"   -> {Halted}
    [] OTHER           -> {i + 1}

Named == Decls \cup Globals \cup VarParams
\* A VAR parameter itself stands for a variable the caller passed.
Denotes(d) == IF d \in VarParams THEN refers[d] ELSE d

Token == [op : STRING, reads : Named \cup {NoDecl}, writes : Named \cup {NoDecl},
          passes : Named \cup {NoDecl}, inConst : BOOLEAN]

\* Nothing is promised of a local variable that has not been assigned.
Init ==
  /\ prog \in Seq(Token)
  /\ at = 1 /\ seen = Unset
  /\ refers \in [VarParams -> Globals \cup VarParams]
  /\ store \in [Named -> Data \cup {Unset}]
  /\ args \in [Params -> Data]
  /\ \A d \in Params : store[d] = args[d]
  /\ \A d \in Globals \cup VarParams : store[d] \in Data

\* What the call of a token, if it has one, may leave behind.
Called(t) ==
  IF t.passes = NoDecl THEN {store}
  ELSE {f @@ store : f \in [Globals \cup {Denotes(t.passes)} -> Data]}

Run ==
  LET t == prog[at]
      operand == IF t.reads = NoDecl THEN Unset ELSE store[Denotes(t.reads)]
      results == IF t.reads = NoDecl \/ t.passes # NoDecl THEN Data ELSE {operand}
  IN  /\ at # Halted
      /\ at' \in Successors(at)
      /\ seen' = operand
      /\ \E after \in Called(t), v \in results :
           store' = IF t.writes = NoDecl THEN after
                    ELSE [after EXCEPT ![Denotes(t.writes)] = v]
      /\ UNCHANGED <<prog, args, refers>>

Spec == Init /\ [][Run]_vars
=============================================================================
