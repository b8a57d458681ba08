---------------------------- MODULE SSAExecution ----------------------------
(***************************************************************************)
(* The function SSAConstruction has built, executed: blocks are entered    *)
(* along edges, phis take the value of the edge, and instructions read the *)
(* operands that were chosen for them.  An assignment x := y leaves no     *)
(* instruction behind if x has an SSA value; for such variables "store"    *)
(* only remembers which value the function takes x to have, so that the    *)
(* execution can be compared with SourceExecution.  For everything else it *)
(* is the memory, which a call can change behind the function's back.      *)
(***************************************************************************)
EXTENDS SSAConstruction

CONSTANTS Data, Unset, Zero

VARIABLES
  args,   \* the values of the parameters
  addr,   \* the variable whose address a VAR parameter holds
  block,  \* the block being executed, 0 before the call
  left,   \* the tokens of block still to execute
  to,     \* the block control is leaving for, or 0
  env,    \* the current value of phis and instructions
  store,  \* memory, and the value each SSA variable was last given
  seen    \* the operand of the last token

run == <<args, addr, block, left, to, env, store, seen>>

Succs(b) == {c \in Block : \E i \in DOMAIN preds[c] : preds[c][i] = b}
\* No successor but the function's end: the block ends in a ret.
Out(b) == IF Succs(b) = {} THEN {0} ELSE Succs(b)

Eval(v) ==
  IF v[1] = "arg" THEN args[v[2]]
  ELSE IF v \in DOMAIN env THEN env[v] ELSE Unset

\* Variant: a promoted parameter's slot is initialised as a variable's is.
FreshSlot(d) == IF d \in ByRefLocals THEN Zero ELSE IF d \in Params THEN args[d] ELSE Unset

\* run() stores the argument, or zero, in the slot of a scalar it promotes.
Slot(d) ==
  IF d \in Params THEN args[d] ELSE IF d \in ByRefLocals THEN Zero ELSE Unset

ExecInit ==
  /\ SSAInit
  /\ args \in [Params -> Data]
  /\ addr \in [VarParams -> Globals \cup VarParams]
  /\ block = 0 /\ left = <<>> /\ to = 0 /\ env = <<>> /\ seen = Unset
  /\ \E outside \in [Globals \cup VarParams -> Data] :
       store = [d \in Decls |-> Slot(d)] @@ outside

Emit == Construction /\ UNCHANGED run

\* The function is called; a token that opens the entry block may be a branch.
Enter(b) ==
  /\ block' = b
  /\ left' = code[b]
  /\ to' \in IF code[b] = <<>> THEN Out(b) ELSE {0}

Invoke ==
  /\ Emitted /\ ~dangling /\ broken = {} /\ block = 0
  /\ Enter(1)
  /\ UNCHANGED <<allVars, args, addr, env, store, seen>>

\* Control passes to block "to": its phis take the values of this edge at once.
PhiValue(p) ==
  LET i == CHOOSE j \in DOMAIN phis[p].ops : phis[p].ops[j].from = block
  IN  IF \E j \in DOMAIN phis[p].ops : phis[p].ops[j].from = block
        THEN Eval(phis[p].ops[i].val) ELSE Unset
Jump ==
  /\ left = <<>> /\ to # 0
  /\ Enter(to)
  /\ env' = [v \in {Phi(p) : p \in {q \in Live : phis[q].block = to}} |-> PhiValue(v[2])] @@ env
  /\ UNCHANGED <<allVars, args, addr, store, seen>>

Place(d) == IF d \in VarParams THEN addr[d] ELSE d

\* Memory when the call of token t is over: the callee has the address it was
\* passed and the module's variables, and no other.
Clobbered(t) ==
  IF prog[t].passes = NoDecl THEN {store}
  ELSE {f @@ store : f \in [Globals \cup {Place(prog[t].passes)} -> Data]}

\* The instructions of token t whose value may be used later.
Defines(t) ==
  {i \in {Inst(t)} : prog[t].writes # NoDecl}
    \cup {i \in {Load(t)} : prog[t].reads # NoDecl /\ uses[t] = i}

Execute ==
  LET t == Head(left)
      reads == prog[t].reads
      operand == IF reads = NoDecl THEN Unset
                 ELSE IF uses[t] = Load(t) THEN store[Place(reads)] ELSE Eval(uses[t])
      computes == reads = NoDecl \/ prog[t].passes # NoDecl
  IN  /\ left # <<>>
      /\ seen' = operand
      /\ \E v \in IF computes THEN Data ELSE {operand}, after \in Clobbered(t) :
           /\ env' = [i \in Defines(t) |-> IF i = Inst(t) THEN v ELSE operand] @@ env
           /\ store' = IF prog[t].writes = NoDecl THEN after
                       ELSE [after EXCEPT ![Place(prog[t].writes)] = v]
      /\ left' = Tail(left)
      /\ to' \in IF Len(left) = 1 THEN Out(block) ELSE {0}
      /\ UNCHANGED <<allVars, args, addr, block>>

\* The call has returned, or there is no function that could be called.
Over ==
  /\ Emitted \/ dangling \/ GivenUp
  /\ block = 0 => dangling \/ GivenUp \/ broken # {}
  /\ left = <<>> /\ to = 0
  /\ UNCHANGED <<allVars, run>>

ExecNext == Emit \/ Invoke \/ Jump \/ Execute \/ Over
ExecSpec == ExecInit /\ [][ExecNext]_<<allVars, run>>

-----------------------------------------------------------------------------
\* The token that runs next, seen from the source: the first one of the block
\* control is leaving for, past a block that holds nothing but a branch.
FirstOf(b) ==
  IF b = 0 THEN Len(prog) + 1
  ELSE IF code[b] # <<>> THEN code[b][1]
  ELSE LET s == CHOOSE c \in Out(b) : TRUE
       IN  IF s = 0 THEN Len(prog) + 1 ELSE code[s][1]
At ==
  IF block = 0 THEN 1
  ELSE IF left # <<>> THEN Head(left) ELSE FirstOf(to)

Source == INSTANCE SourceExecution WITH at <- At, refers <- addr

\* The emitted function does what the body says: control visits the statements
\* in the order the source gives them, and every operand is the value its
\* variable was last assigned on the path that was taken, whatever phis were
\* created, replaced and erased while the blocks were built and sealed.
ImplementsSource == Source!Spec
=============================================================================
