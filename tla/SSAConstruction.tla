-------------------------- MODULE SSAConstruction --------------------------
(***************************************************************************)
(* How CGProcedure finds the SSA value of a scalar variable while it emits *)
(* blocks: CurrentDef, incomplete phis, addPhiOperands and optimizePhi.    *)
(*                                                                         *)
(* The functions call one another recursively through the graph of blocks, *)
(* so their activations are kept in "calls" and each step of one of them   *)
(* is a step here; the statement handlers of BlockEmission run only when   *)
(* no activation is left.  Freed memory is explicit: a phi that has been   *)
(* erased is remembered, and a step that dereferences one sets "dangling". *)
(*                                                                         *)
(* A token reads at most one variable and writes at most one: x := y reads *)
(* y and writes its value to x, x := 1 writes a new value, and a condition *)
(* or an operand of a call only reads.  It passes at most one variable to  *)
(* a VAR parameter; the call may stand in the expression of a constant the *)
(* token uses, which is emitted anew at each use ("inConst").              *)
(***************************************************************************)
EXTENDS BlockEmission, FiniteSets, SequencesExt

CONSTANTS
  Decls,      \* scalar local variables and value parameters
  Params,     \* those among them that are parameters
  Globals,    \* scalar variables of the module
  VarParams,  \* VAR parameters
  NoDecl      \* a token that reads, writes or passes nothing

ASSUME ParamsAreDecls == Params \subseteq Decls
ASSUME KindsDiffer ==
  /\ NoDecl \notin Decls \cup Globals \cup VarParams
  /\ Decls \cap Globals = {} /\ VarParams \cap (Decls \cup Globals) = {}

Variable == Decls \cup Globals \cup VarParams \cup {NoDecl}
TokenOf == [op : STRING, reads : Variable, writes : Variable, passes : Variable, inConst : BOOLEAN]
ASSUME ProgramsUseVariables == Programs \subseteq Seq(TokenOf)

VARIABLES
  def,      \* def[b]: CurrentDef[b].Defs, from declarations to values
  inc,      \* inc[b]: CurrentDef[b].IncompletePhis, <<phi, declaration>> pairs
  phis,     \* every PHINode created: its block, variable and incoming values
  users,    \* users[p]: the phis among the users of phi p, the use list's head first
  erased,   \* phis passed to eraseFromParent
  code,     \* code[b]: the tokens emitted into b that b can reach, in order
  uses,     \* uses[i]: the operand of the instruction emitted for token i
  calls,    \* the activations of the functions below, the running one first
  ret,      \* what the activation that just ended returned, or <<>>
  dangling  \* an erased phi has been dereferenced

values == <<def, inc, phis, users, erased, code, uses>>
ssaVars == <<values, calls, ret, dangling>>
allVars == <<vars, ssaVars>>

\* Values.
Phi(p) == <<"phi", p>>
Inst(i) == <<"inst", i>>
Load(i) == <<"load", i>>
Arg(d) == <<"arg", d>>
Undef == <<"undef">>
IsPhi(v) == v # <<>> /\ v[1] = "phi"
Dead(v) == IsPhi(v) /\ v[2] \in erased
Live == DOMAIN phis \ erased

Running(fn) == ~dangling /\ calls # <<>> /\ Head(calls).fn = fn
Call == Head(calls)
\* The running activation ends with value v, or goes on as the activations cs.
Return(v) == calls' = Tail(calls) /\ ret' = v
Continue(cs) == calls' = cs \o Tail(calls) /\ ret' = <<>>

ReadCall(b, d) == [fn |-> "readLocalVariable", block |-> b, decl |-> d]
WriteBackCall(b, d) == [fn |-> "writeLocalVariable", block |-> b, decl |-> d]
FillCall(p, d, todo) == [fn |-> "addPhiOperands", phi |-> p, decl |-> d, todo |-> todo]
OptimizeCall(p) == [fn |-> "optimizePhi", phi |-> p]
CandidatesCall(todo, same) == [fn |-> "candidates", todo |-> todo, same |-> same]
SealCall(b, todo) == [fn |-> "sealBlock", block |-> b, todo |-> todo]

\* What collectByRefLocals finds in the body before it is emitted: scalars whose
\* address is an argument.  It does not look into the expressions of constants.
ByRefLocals ==
  {d \in Decls : \E i \in DOMAIN prog : prog[i].passes = d /\ ~prog[i].inConst}
InMemory(d) == d \in Globals \cup VarParams \cup ByRefLocals

SSAInit ==
  /\ Init
  /\ def = <<[d \in Params \ ByRefLocals |-> Arg(d)]>>
  /\ inc = <<{}>>
  /\ phis = <<>> /\ users = <<>> /\ erased = {} /\ code = <<(<<>>)>> /\ uses = <<>>
  /\ calls = <<>> /\ ret = <<>> /\ dangling = FALSE

-----------------------------------------------------------------------------
(* readLocalVariable and readLocalVariableRecursive. *)

Defined(c) == c.decl \in DOMAIN def[c.block]
Mapped(table, k, v) == [j \in DOMAIN table \cup {k} |-> IF j = k THEN v ELSE table[j]]
Define(b, d, v) == def' = [def EXCEPT ![b] = Mapped(@, d, v)]

AddEmptyPhi(b, d) ==
  /\ phis' = Append(phis, [block |-> b, decl |-> d, ops |-> <<>>])
  /\ users' = Append(users, <<>>)

ReadFound ==
  /\ Running("readLocalVariable") /\ Defined(Call)
  /\ Return(def[Call.block][Call.decl])
  /\ UNCHANGED <<vars, values, dangling>>

\* Variant: the phi is not noted among the incomplete ones.
ReadUnsealedForgetting ==
  LET p == Len(phis) + 1 IN
  /\ Running("readLocalVariable") /\ ~Defined(Call) /\ Call.block \notin sealed
  /\ AddEmptyPhi(Call.block, Call.decl)
  /\ Define(Call.block, Call.decl, Phi(p))
  /\ Return(Phi(p))
  /\ UNCHANGED <<vars, inc, erased, code, uses, dangling>>

\* Variant: the phi is not written back as the variable's definition.
ReadUnsealedUnwritten ==
  LET p == Len(phis) + 1 IN
  /\ Running("readLocalVariable") /\ ~Defined(Call) /\ Call.block \notin sealed
  /\ AddEmptyPhi(Call.block, Call.decl)
  /\ inc' = [inc EXCEPT ![Call.block] = @ \cup {<<p, Call.decl>>}]
  /\ Return(Phi(p))
  /\ UNCHANGED <<vars, def, erased, code, uses, dangling>>

ReadUnsealed ==
  LET p == Len(phis) + 1 IN
  /\ Running("readLocalVariable") /\ ~Defined(Call) /\ Call.block \notin sealed
  /\ AddEmptyPhi(Call.block, Call.decl)
  /\ inc' = [inc EXCEPT ![Call.block] = @ \cup {<<p, Call.decl>>}]
  /\ Define(Call.block, Call.decl, Phi(p))
  /\ Return(Phi(p))
  /\ UNCHANGED <<vars, erased, code, uses, dangling>>

ReadSinglePred ==
  /\ Running("readLocalVariable") /\ ~Defined(Call) /\ Call.block \in sealed
  /\ Len(preds[Call.block]) = 1
  /\ Continue(<<ReadCall(preds[Call.block][1], Call.decl),
                WriteBackCall(Call.block, Call.decl)>>)
  /\ UNCHANGED <<vars, values, dangling>>

\* Variant: only blocks with several predecessors are joins.
ReadJoinOfSeveral ==
  LET p == Len(phis) + 1 IN
  /\ Running("readLocalVariable") /\ ~Defined(Call) /\ Call.block \in sealed
  /\ Len(preds[Call.block]) > 1
  /\ AddEmptyPhi(Call.block, Call.decl)
  /\ Define(Call.block, Call.decl, Phi(p))
  /\ Continue(<<FillCall(p, Call.decl, preds[Call.block]),
                WriteBackCall(Call.block, Call.decl)>>)
  /\ UNCHANGED <<vars, inc, erased, code, uses, dangling>>

\* The phi is recorded before its operands are read, to break cycles.
ReadJoin ==
  LET p == Len(phis) + 1 IN
  /\ Running("readLocalVariable") /\ ~Defined(Call) /\ Call.block \in sealed
  /\ Len(preds[Call.block]) # 1
  /\ AddEmptyPhi(Call.block, Call.decl)
  /\ Define(Call.block, Call.decl, Phi(p))
  /\ Continue(<<FillCall(p, Call.decl, preds[Call.block]),
                WriteBackCall(Call.block, Call.decl)>>)
  /\ UNCHANGED <<vars, inc, erased, code, uses, dangling>>

\* The write that ends readLocalVariableRecursive; Val may have been erased.
WriteBack ==
  /\ Running("writeLocalVariable") /\ ret # <<>>
  /\ Define(Call.block, Call.decl, ret)
  /\ dangling' = Dead(ret)
  /\ Return(ret)
  /\ UNCHANGED <<vars, inc, phis, users, erased, code, uses>>

-----------------------------------------------------------------------------
(* addPhiOperands and optimizePhi. *)

FillRead ==
  /\ Running("addPhiOperands") /\ Call.todo # <<>> /\ ret = <<>>
  /\ calls' = <<ReadCall(Head(Call.todo), Call.decl)>> \o calls
  /\ UNCHANGED <<vars, values, ret, dangling>>

\* Phi->addIncoming(...): the new use heads the use list of its value.
FillAdd ==
  LET p == Call.phi IN
  /\ Running("addPhiOperands") /\ ret # <<>>
  /\ dangling' = (p \in erased \/ Dead(ret))
  /\ phis' = [phis EXCEPT ![p].ops = Append(@, [val |-> ret, from |-> Head(Call.todo)])]
  /\ users' = IF IsPhi(ret) THEN [users EXCEPT ![ret[2]] = <<p>> \o @] ELSE users
  /\ Continue(<<FillCall(p, Call.decl, Tail(Call.todo))>>)
  /\ UNCHANGED <<vars, def, inc, erased, code, uses>>

FillDone ==
  /\ Running("addPhiOperands") /\ Call.todo = <<>> /\ ret = <<>>
  /\ Continue(<<OptimizeCall(Call.phi)>>)
  /\ UNCHANGED <<vars, values, dangling>>

Incoming(p) == {phis[p].ops[i].val : i \in DOMAIN phis[p].ops}
Operands(p) == Incoming(p) \ {Phi(p)}
Trivial(p) == Cardinality(Operands(p)) <= 1
Same(p) == IF Operands(p) = {} THEN Undef ELSE CHOOSE v \in Operands(p) : TRUE

\* Phi->replaceAllUsesWith(s), which also updates the TrackingVHs of Defs.
Subst(p, s, v) == IF v = Phi(p) THEN s ELSE v
SubstIn(ops, p, s) == [i \in DOMAIN ops |-> [ops[i] EXCEPT !.val = Subst(p, s, @)]]
\* Variant: Defs keeps plain pointers, which nothing updates.
ReplaceOperandsOnly(p, s) ==
  /\ def' = def
  /\ uses' = [i \in DOMAIN uses |-> Subst(p, s, uses[i])]
  /\ phis' = [q \in DOMAIN phis |-> [phis[q] EXCEPT !.ops = SubstIn(@, p, s)]]
ReplaceAllUses(p, s) ==
  /\ def' = [b \in DOMAIN def |-> [d \in DOMAIN def[b] |-> Subst(p, s, def[b][d])]]
  /\ uses' = [i \in DOMAIN uses |-> Subst(p, s, uses[i])]
  /\ phis' = [q \in DOMAIN phis |-> [phis[q] EXCEPT !.ops = SubstIn(@, p, s)]]

\* Variant: the erased phi stays among the users of its operands.
MoveUsersOnly(p, s) ==
  users' = [q \in DOMAIN users |->
    IF q = p THEN <<>>
    ELSE IF s = Phi(q) THEN Reverse(users[p]) \o users[q] ELSE users[q]]

\* A use list without p, in its order.
Without(us, p) ==
  LET upto[n \in 0 .. Len(us)] ==
        IF n = 0 THEN <<>>
        ELSE IF us[n] = p THEN upto[n - 1] ELSE Append(upto[n - 1], us[n])
  IN  upto[Len(us)]

\* The uses move to the head of the new value's use list one by one, so their
\* order is reversed; eraseFromParent then drops the uses the phi itself makes.
MoveUsers(p, s) ==
  users' = [q \in DOMAIN users |->
    IF q = p THEN <<>>
    ELSE IF s = Phi(q) THEN Reverse(Without(users[p], p)) \o Without(users[q], p)
    ELSE Without(users[q], p)]

OptimizeKeep ==
  /\ Running("optimizePhi") /\ Call.phi \notin erased /\ ~Trivial(Call.phi)
  /\ Return(Phi(Call.phi))
  /\ UNCHANGED <<vars, values, dangling>>

\* Variant: the phis that used the replaced one are not looked at again.
OptimizeReplaceOnce ==
  LET p == Call.phi
      s == Same(p)
  IN  /\ Running("optimizePhi") /\ p \notin erased /\ Trivial(p)
      /\ ReplaceAllUses(p, s)
      /\ MoveUsers(p, s)
      /\ erased' = erased \cup {p}
      /\ Return(s)
      /\ UNCHANGED <<vars, inc, code, dangling>>

OptimizeReplace ==
  LET p == Call.phi
      s == Same(p)
  IN  /\ Running("optimizePhi") /\ p \notin erased /\ Trivial(p)
      /\ ReplaceAllUses(p, s)
      /\ MoveUsers(p, s)
      /\ erased' = erased \cup {p}
      /\ Continue(<<CandidatesCall(Without(users[p], p), s)>>)
      /\ UNCHANGED <<vars, inc, code, dangling>>

\* Phi->incoming_values() of an erased phi.
OptimizeErased ==
  /\ Running("optimizePhi") /\ Call.phi \in erased
  /\ dangling' = TRUE
  /\ UNCHANGED <<vars, values, calls, ret>>

OptimizeCandidate ==
  /\ Running("candidates") /\ Call.todo # <<>>
  /\ Continue(<<OptimizeCall(Head(Call.todo)),
                CandidatesCall(Tail(Call.todo), Call.same)>>)
  /\ UNCHANGED <<vars, values, dangling>>

CandidatesDone ==
  /\ Running("candidates") /\ Call.todo = <<>>
  /\ Return(Call.same)
  /\ UNCHANGED <<vars, values, dangling>>

-----------------------------------------------------------------------------
(* sealBlock. *)

BeginSeal ==
  /\ ~dangling /\ calls = <<>> /\ sealing # <<>>
  /\ calls' = <<SealCall(Head(sealing), inc[Head(sealing)])>>
  /\ ret' = <<>>
  /\ UNCHANGED <<vars, values, dangling>>

\* IncompletePhis is keyed by address: its order is any.
SealPhi ==
  /\ Running("sealBlock")
  /\ \E e \in Call.todo :
       /\ dangling' = (e[1] \in erased)
       /\ Continue(<<FillCall(e[1], e[2], preds[Call.block]),
                     SealCall(Call.block, Call.todo \ {e})>>)
  /\ UNCHANGED <<vars, values>>

\* Variant: IncompletePhis is not cleared.
EndSealKeeping ==
  /\ Running("sealBlock") /\ Call.todo = {}
  /\ SealBlock
  /\ calls' = Tail(calls) /\ ret' = <<>>
  /\ UNCHANGED <<def, inc, phis, users, erased, code, uses, dangling>>

EndSeal ==
  /\ Running("sealBlock") /\ Call.todo = {}
  /\ inc' = [inc EXCEPT ![Call.block] = {}]
  /\ SealBlock
  /\ calls' = Tail(calls) /\ ret' = <<>>
  /\ UNCHANGED <<def, phis, users, erased, code, uses, dangling>>

-----------------------------------------------------------------------------
(* The statements, with the variable each of them reads and writes. *)

\* The token whose expression comes next: a WHILE's condition is evaluated in
\* its own block, not where the statement begins.
Token ==
  IF AtWhileCond THEN Top.at
  ELSE IF pc <= Len(prog) /\ prog[pc].op # "while" THEN pc ELSE 0
Reads == IF Token = 0 THEN NoDecl ELSE prog[Token].reads
Writes == IF Token = 0 THEN NoDecl ELSE prog[Token].writes
Passes == IF Token = 0 THEN NoDecl ELSE prog[Token].passes

\* emitLValue is asked for the address of a scalar that has none; this is fatal.
GivenUp ==
  /\ ~dangling /\ calls = <<>> /\ Idle /\ (Reads # NoDecl => ret # <<>>)
  /\ Passes \in Decls \ ByRefLocals

\* A copy between locals that have SSA values, or a new value for one of them,
\* which may be a literal: neither needs an instruction of its own.
OnlyDefines ==
  Writes # NoDecl /\ Passes = NoDecl /\ ~InMemory(Writes) /\ ~InMemory(Reads)

\* Behind a terminator, neither a copy nor the branch to the block behind an IF
\* is emitted; both leave the terminator where it is.
EmitsCode ==
  Token # 0 /\ ~(prog[Token].op \in {"simple", "else", "endif"} /\ Curr \in closed \cap closed')

\* readVariable of what has an SSA value.
EvalOperand ==
  /\ ~dangling /\ calls = <<>> /\ Idle /\ Reads # NoDecl /\ ~InMemory(Reads) /\ ret = <<>>
  /\ calls' = <<ReadCall(Curr, Reads)>>
  /\ UNCHANGED <<vars, values, ret, dangling>>

\* Variant: what a load of the same variable returned before is used again.
LoadOnce ==
  LET earlier == {i \in DOMAIN uses : prog[i].reads = Reads}
  IN  /\ ~dangling /\ calls = <<>> /\ Idle /\ InMemory(Reads) /\ ret = <<>>
      /\ ret' = IF earlier = {} THEN Load(Token) ELSE uses[CHOOSE i \in earlier : TRUE]
      /\ UNCHANGED <<vars, values, calls, dangling>>

\* readVariable of what lives in memory.
LoadOperand ==
  /\ ~dangling /\ calls = <<>> /\ Idle /\ InMemory(Reads) /\ ret = <<>>
  /\ ret' = Load(Token)
  /\ UNCHANGED <<vars, values, calls, dangling>>

\* Variant: the tables do not grow with the function.
ExtendNone(table, empty) == table

\* A table of blocks after this step has created its blocks.
Extend(table, empty) == table \o [b \in 1 .. last' - last |-> empty]

EmitStatement ==
  LET v == IF Reads = NoDecl \/ Passes # NoDecl THEN Inst(Token) ELSE ret IN
  /\ ~dangling /\ calls = <<>> /\ (Reads # NoDecl => ret # <<>>) /\ ~GivenUp
  /\ \/ EmitSimple /\ ~(OnlyDefines /\ Reads # NoDecl)
     \/ EmitCopy /\ OnlyDefines
     \/ ControlFlow
  /\ def' = Extend(IF Writes = NoDecl \/ InMemory(Writes) THEN def
                    ELSE [def EXCEPT ![Curr] = Mapped(@, Writes, v)], <<>>)
  /\ inc' = Extend(inc, {})
  /\ code' = Extend(IF EmitsCode THEN [code EXCEPT ![Curr] = Append(@, Token)] ELSE code, <<>>)
  /\ uses' = IF Reads = NoDecl THEN uses ELSE Mapped(uses, Token, ret)
  /\ dangling' = (Reads # NoDecl /\ Dead(ret))
  /\ ret' = <<>>
  /\ UNCHANGED <<phis, users, erased, calls>>

EnterBlock ==
  /\ ~dangling /\ calls = <<>>
  /\ SetCurr
  /\ UNCHANGED ssaVars

Construction ==
  \/ ReadFound \/ ReadUnsealed \/ ReadSinglePred \/ ReadJoin \/ WriteBack
  \/ FillRead \/ FillAdd \/ FillDone
  \/ OptimizeKeep \/ OptimizeReplace \/ OptimizeErased
  \/ OptimizeCandidate \/ CandidatesDone
  \/ BeginSeal \/ SealPhi \/ EndSeal
  \/ EvalOperand \/ LoadOperand \/ EmitStatement \/ EnterBlock

Stopped == (Emitted \/ dangling \/ GivenUp) /\ UNCHANGED allVars

SSANext == Construction \/ Stopped
SSASpec == SSAInit /\ [][SSANext]_allVars /\ WF_allVars(Construction)

-----------------------------------------------------------------------------
FilledBy(c) == c.fn = "addPhiOperands"
BeingFilled == {calls[i].phi : i \in {j \in DOMAIN calls : FilledBy(calls[j])}}
Incomplete == {e[1] : e \in UNION {inc[b] : b \in DOMAIN inc}}

SSATypeOK ==
  /\ DOMAIN def = Block /\ DOMAIN inc = Block /\ DOMAIN code = Block
  /\ \A b \in Block : DOMAIN def[b] \subseteq Decls
  /\ \A b \in Block : inc[b] \subseteq (DOMAIN phis) \X Decls
  /\ \A p \in DOMAIN phis : phis[p].block \in Block /\ phis[p].decl \in Decls
  /\ DOMAIN users = DOMAIN phis /\ erased \subseteq DOMAIN phis
  /\ \A b \in Block : code[b] \in Seq(DOMAIN prog)
  /\ dangling \in BOOLEAN

\* No erased phi is dereferenced: not through the raw pointers of
\* IncompletePhis, not as the operand a filling phi is about to take, not as
\* the value readLocalVariableRecursive writes, and not as a candidate.
NoDangling == ~dangling

\* Replacing a phi reaches every reference the function keeps to it: no
\* definition, operand or incoming value denotes an erased phi, which is what
\* the TrackingVHs of Defs are for.
NoStaleReference ==
  ~dangling =>
    /\ \A b \in Block : \A d \in DOMAIN def[b] : ~Dead(def[b][d])
    /\ \A p \in Live : \A v \in Incoming(p) : ~Dead(v)
    /\ \A i \in DOMAIN uses : ~Dead(uses[i])

\* The use lists agree with the operands: a phi is among the users of another
\* once for each operand that denotes it, and an erased one is among nobody's.
\* The candidates of optimizePhi are found through them.
UsersMatchOperands ==
  ~dangling => \A p \in Live, q \in DOMAIN phis :
    Cardinality({i \in DOMAIN users[p] : users[p][i] = q}) =
      IF q \in erased THEN 0
      ELSE Cardinality({i \in DOMAIN phis[q].ops : phis[q].ops[i].val = Phi(p)})

\* Whatever a phi is replaced by while others denote it, several reads deep, all
\* that denotes a value, and every use list, follows.
ReplacedEverywhere == NoStaleReference /\ UsersMatchOperands

\* A phi that is neither waiting for its block to be sealed nor being filled
\* has exactly one incoming value per predecessor of its block.
PhisComplete ==
  ~dangling => \A p \in Live \ (Incomplete \cup BeingFilled) :
    [i \in DOMAIN phis[p].ops |-> phis[p].ops[i].from] = preds[phis[p].block]

\* A phi whose turn in sealBlock has not come is alive and still empty, though
\* phis of the same block have been filled, replaced and erased before it.
Waiting(b) ==
  LET sealsB == {i \in DOMAIN calls : calls[i].fn = "sealBlock" /\ calls[i].block = b}
  IN  IF sealsB = {} THEN inc[b] ELSE UNION {calls[i].todo : i \in sealsB}
IncompleteWaits ==
  ~dangling => \A b \in Block : \A e \in Waiting(b) :
    /\ b \notin sealed
    /\ e[1] \notin erased /\ phis[e[1]].block = b /\ phis[e[1]].ops = <<>>

\* A phi is filled when the block is sealed, not before, and then completely.
FilledWhenSealed == PhisComplete /\ IncompleteWaits

\* sealBlock's loop runs over IncompletePhis while addPhiOperands reads
\* variables; no read adds an entry to the map being iterated.
IterationUndisturbed ==
  [][\A i \in DOMAIN calls :
       calls[i].fn = "sealBlock" /\ calls' # <<>> => inc'[calls[i].block] = inc[calls[i].block]]_allVars

\* No phi that a single value could replace survives.
NoTrivialPhiLeft == Emitted /\ ~dangling => \A p \in Live : ~Trivial(p)

\* The emission ends (or has run into undefined behaviour, or is given up).
ConstructionEnds == <>(Emitted \/ dangling \/ GivenUp)
=============================================================================
