--------------------------- MODULE BlockEmission ---------------------------
(***************************************************************************)
(* The control skeleton of CGProcedure: how the statements of a procedure  *)
(* become basic blocks and edges, which block is current, and when each    *)
(* block is sealed (sealBlock).  The values flowing through the blocks are *)
(* left to SSAConstruction, which extends this module.                     *)
(*                                                                         *)
(* A procedure body is the sequence of tokens a depth-first walk of its    *)
(* statement lists meets: "simple" (an assignment or a call), "return",    *)
(* "if" / "ifelse" ... "else" ... "endif", "while" ... "endwhile".         *)
(* "ifelse" stands for getElseStmts().size() > 0.                          *)
(***************************************************************************)
EXTENDS Naturals, Sequences

CONSTANT Programs \* the procedure bodies considered, sequences of tokens

\* A body is a finite sequence; nothing else is assumed, not even its nesting.
ASSUME ProgramsAreSequences == \A p \in Programs : Len(p) \in Nat

VARIABLES
  prog,     \* the body being emitted
  pc,       \* the next token of prog
  last,     \* number of blocks created; blocks are 1..last, entry is 1
  preds,    \* preds[b]: predecessors(b), the latest branch first
  sealed,   \* blocks whose Sealed bit is set
  closed,   \* blocks whose last instruction is a terminator
  broken,   \* blocks with an instruction after a terminator
  Curr,     \* the block instructions are appended to
  next,     \* block the running handler enters once it has sealed, or 0
  frames,   \* activations of emitStmt(If) and emitStmt(While), innermost last
  sealing,  \* blocks the running handler still has to seal, in order
  done      \* run() has emitted the whole body

skeleton == <<last, preds, sealed, closed, broken, Curr, next, frames, sealing>>
vars == <<prog, pc, skeleton, done>>

Block == 1 .. last
Top == frames[Len(frames)]
FrameBlocks(f) == {f.cond, f.body, f.alt, f.after} \ {0}

\* Between two statements: no seal is outstanding and no block is to be entered.
Idle == sealing = <<>> /\ next = 0 /\ ~done
\* The condition of a WHILE has been reached, and its branch is still to come.
AtWhileCond == frames # <<>> /\ Top.body # 0
CanEmit(op) == Idle /\ ~AtWhileCond /\ pc <= Len(prog) /\ prog[pc].op = op

Init ==
  /\ prog \in Programs
  /\ pc = 1
  /\ last = 1
  /\ preds = [b \in 1 .. 1 |-> <<>>]
  /\ sealed = {} /\ closed = {} /\ broken = {}
  /\ Curr = 1 /\ next = 0
  /\ frames = <<>> /\ sealing = <<>>
  /\ done = FALSE

-----------------------------------------------------------------------------
(* IRBuilder and BasicBlock. *)

\* Variant: the block behind the statement is never created.
BranchedShort(n, targets) ==
  [b \in 1 .. last + n - (IF n = 0 THEN 0 ELSE 1) |->
     LET old == IF b <= last THEN preds[b] ELSE <<>>
     IN  IF b \in targets THEN <<Curr>> \o old ELSE old]

\* preds after n blocks without predecessors are created and Curr branches to
\* every block of targets.  The new edge heads the use list of its target.
Branched(n, targets) ==
  [b \in 1 .. last + n |->
     LET old == IF b <= last THEN preds[b] ELSE <<>>
     IN  IF b \in targets THEN <<Curr>> \o old ELSE old]

\* An instruction that is no terminator is appended to Curr.
AppendPlain ==
  /\ broken' = broken \cup ({Curr} \cap closed)
  /\ closed' = closed \ {Curr}

\* A terminator is appended to Curr.
AppendTerminator ==
  /\ broken' = broken \cup ({Curr} \cap closed)
  /\ closed' = closed \cup {Curr}

\* Variant: the branch is created whatever the last instruction is.
BranchAlways(target) == preds' = Branched(0, {target}) /\ AppendTerminator

\* if (!Curr->getTerminatorOrNull()) Builder.CreateBr(target)
BranchIfOpen(target) ==
  IF Curr \in closed
    THEN UNCHANGED <<preds, closed, broken>>
    ELSE preds' = Branched(0, {target}) /\ AppendTerminator

Consume == pc' = pc + 1 /\ UNCHANGED <<prog, done>>
Push(f) == frames' = Append(frames, f)
SetTop(f) == frames' = [frames EXCEPT ![Len(frames)] = f]
Pop == frames' = SubSeq(frames, 1, Len(frames) - 1)

-----------------------------------------------------------------------------
(* One action per emitStmt overload, or per part of one between two nested *)
(* statement lists.                                                        *)

EmitSimple ==
  /\ CanEmit("simple")
  /\ AppendPlain
  /\ Consume
  /\ UNCHANGED <<last, preds, sealed, Curr, next, frames, sealing>>

\* An assignment of a literal, or of one local to another, to a local that has an
\* SSA value: writeLocalVariable only changes CurrentDef, and no instruction is
\* emitted.  Behind a RETURN, Curr still ends in its ret.
EmitCopy ==
  /\ CanEmit("simple")
  /\ Consume
  /\ UNCHANGED skeleton

EmitReturn ==
  /\ CanEmit("return")
  /\ AppendTerminator
  /\ Consume
  /\ UNCHANGED <<last, preds, sealed, Curr, next, frames, sealing>>

BeginIf(hasElse) ==
  LET ifBB    == last + 1
      elseBB  == IF hasElse THEN last + 2 ELSE 0
      afterBB == IF hasElse THEN last + 3 ELSE last + 2
  IN  /\ CanEmit(IF hasElse THEN "ifelse" ELSE "if")
      /\ preds' = Branched(afterBB - last,
                           {ifBB, IF hasElse THEN elseBB ELSE afterBB})
      /\ last' = afterBB
      /\ AppendTerminator
      /\ sealing' = <<Curr>>
      /\ next' = ifBB
      /\ Push([at |-> pc, cond |-> 0, body |-> 0,
               alt |-> elseBB, after |-> afterBB])
      /\ Consume
      /\ UNCHANGED <<sealed, Curr>>

SwitchToElse ==
  /\ CanEmit("else")
  /\ frames # <<>> /\ Top.alt # 0
  /\ BranchIfOpen(Top.after)
  /\ sealing' = <<Curr>>
  /\ next' = Top.alt
  /\ SetTop([Top EXCEPT !.alt = 0])
  /\ Consume
  /\ UNCHANGED <<last, sealed, Curr>>

\* Variant: the ELSE block is left for the block behind the IF unbranched.
EndIfUnbranched ==
  /\ CanEmit("endif")
  /\ frames # <<>> /\ Top.cond = 0 /\ Top.alt = 0
  /\ sealing' = <<Curr>>
  /\ next' = Top.after
  /\ Pop
  /\ Consume
  /\ UNCHANGED <<last, preds, sealed, closed, broken, Curr>>

EndIf ==
  /\ CanEmit("endif")
  /\ frames # <<>> /\ Top.cond = 0 /\ Top.alt = 0
  /\ BranchIfOpen(Top.after)
  /\ sealing' = <<Curr>>
  /\ next' = Top.after
  /\ Pop
  /\ Consume
  /\ UNCHANGED <<last, sealed, Curr>>

BeginWhile ==
  LET condBB  == last + 1
      bodyBB  == last + 2
      afterBB == last + 3
  IN  /\ CanEmit("while")
      /\ preds' = Branched(3, {condBB})
      /\ last' = afterBB
      /\ AppendTerminator
      /\ sealing' = <<Curr>>
      /\ next' = condBB
      /\ Push([at |-> pc, cond |-> condBB, body |-> bodyBB,
               alt |-> 0, after |-> afterBB])
      /\ Consume
      /\ UNCHANGED <<sealed, Curr>>

\* Variant: the block of the condition is sealed behind its branch, as IF does.
BranchWhileSealing ==
  /\ Idle /\ AtWhileCond
  /\ preds' = Branched(0, {Top.body, Top.after})
  /\ AppendTerminator
  /\ sealing' = <<Curr>>
  /\ next' = Top.body
  /\ SetTop([Top EXCEPT !.body = 0])
  /\ UNCHANGED <<prog, pc, last, sealed, Curr, done>>

\* The condition is emitted in its own block, which stays unsealed: the edge
\* from the end of the body is not known yet.
BranchWhile ==
  /\ Idle /\ AtWhileCond
  /\ preds' = Branched(0, {Top.body, Top.after})
  /\ AppendTerminator
  /\ next' = Top.body
  /\ SetTop([Top EXCEPT !.body = 0])
  /\ UNCHANGED <<prog, pc, last, sealed, Curr, sealing, done>>

\* Variant: only the condition is sealed, not the end of the body.
EndWhileForgetting ==
  /\ CanEmit("endwhile")
  /\ frames # <<>> /\ Top.cond # 0
  /\ preds' = Branched(0, {Top.cond})
  /\ AppendTerminator
  /\ sealing' = <<Top.cond>>
  /\ next' = Top.after
  /\ Pop
  /\ Consume
  /\ UNCHANGED <<last, sealed, Curr>>

\* The back edge is created whatever the last instruction of the body is.
EndWhile ==
  /\ CanEmit("endwhile")
  /\ frames # <<>> /\ Top.cond # 0
  /\ preds' = Branched(0, {Top.cond})
  /\ AppendTerminator
  /\ sealing' = <<Top.cond, Curr>>
  /\ next' = Top.after
  /\ Pop
  /\ Consume
  /\ UNCHANGED <<last, sealed, Curr>>

SealBlock ==
  /\ sealing # <<>>
  /\ sealed' = sealed \cup {Head(sealing)}
  /\ sealing' = Tail(sealing)
  /\ UNCHANGED <<prog, pc, last, preds, closed, broken, Curr, next, frames, done>>

SetCurr ==
  /\ sealing = <<>> /\ next # 0
  /\ Curr' = next
  /\ next' = 0
  /\ UNCHANGED <<prog, pc, last, preds, sealed, closed, broken, frames, sealing, done>>

\* The end of run(): ret void unless the block is already terminated.
Finish ==
  /\ Idle /\ pc = Len(prog) + 1 /\ frames = <<>>
  /\ IF Curr \in closed THEN UNCHANGED <<closed, broken>> ELSE AppendTerminator
  /\ sealing' = <<Curr>>
  /\ done' = TRUE
  /\ UNCHANGED <<prog, pc, last, preds, sealed, Curr, next, frames>>

Emitted == done /\ sealing = <<>>
Terminated == Emitted /\ UNCHANGED vars

ControlFlow ==
  \/ EmitReturn
  \/ BeginIf(TRUE) \/ BeginIf(FALSE) \/ SwitchToElse \/ EndIf
  \/ BeginWhile \/ BranchWhile \/ EndWhile
  \/ Finish
Handler == EmitSimple \/ EmitCopy \/ ControlFlow

Step == Handler \/ SealBlock \/ SetCurr
Next == Step \/ Terminated

Spec == Init /\ [][Next]_vars

-----------------------------------------------------------------------------
Frame == [at : Nat, cond : Block \cup {0}, body : Block \cup {0},
          alt : Block \cup {0}, after : Block]

TypeOK ==
  /\ pc \in Nat \ {0}
  /\ last \in Nat \ {0}
  /\ preds \in [Block -> Seq(Block)]
  /\ sealed \subseteq Block /\ closed \subseteq Block /\ broken \subseteq Block
  /\ Curr \in Block /\ next \in Block \cup {0}
  /\ frames \in Seq(Frame)
  /\ sealing \in Seq(Block)
  /\ done \in BOOLEAN

\* sealBlock is never asked to seal a sealed block: the assertion "Attempt to
\* seal already sealed block" cannot fire, however the statements nest.
SealOnce == sealing # <<>> => Head(sealing) \notin sealed

\* A sealed block never gets another predecessor.  readLocalVariableRecursive
\* relies on it: it builds the phi of a sealed block from the predecessors it
\* sees at that moment and never comes back to it.
SealedPredsFixed == [][\A b \in sealed : preds'[b] = preds[b]]_vars

\* When run() is over every block of the function has been sealed, so no phi
\* is left waiting in IncompletePhis.
AllSealedAtEnd == Emitted => sealed = Block

\* sealBlock is called for every block once: one sealed twice trips its
\* assertion, one forgotten would keep its phis empty.
SealedExactlyOnce == SealOnce /\ AllSealedAtEnd

\* A block the emitter has left ends in a terminator; run() leaves none open.
EveryBlockTerminated ==
  /\ Emitted => closed = Block
  /\ sealed \subseteq closed

\* A terminator ends up in the middle of a block only behind a RETURN that is
\* not the last statement of an IF branch or of the body of the procedure.
StrayReturn(i) ==
  /\ prog[i].op = "return"
  /\ i < Len(prog)
  /\ prog[i + 1].op \notin {"else", "endif"}
BrokenOnlyByReturn ==
  broken # {} => \E i \in 1 .. Len(prog) : i < pc /\ StrayReturn(i)

\* Every block ends in exactly one terminator, whatever the nesting and wherever
\* a RETURN stands, with just this exception.
TerminatedOnce == EveryBlockTerminated /\ BrokenOnlyByReturn

-----------------------------------------------------------------------------
(* The discipline that makes sealing sound.  Blocks fall into four groups: *)
(* sealed for good, held by an open IF or WHILE for later, in hand (Curr,  *)
(* next or in sealing), and none of the held or outstanding ones is sealed *)
(* or doubled.                                                             *)

Held == {b \in Block : \E i \in DOMAIN frames : b \in FrameBlocks(frames[i])}
\* The held block that may also be current: the condition being emitted.
CondInHand == IF AtWhileCond THEN {Top.cond} ELSE {}

\* A frame holds distinct blocks.
FrameShape(f) ==
  /\ f.after # 0 /\ f.alt < f.after /\ f.cond < f.after /\ f.body < f.after
  /\ f.cond # 0 => f.alt = 0
  /\ f.body # 0 => f.cond # 0 /\ f.cond < f.body

\* The blocks of a frame are created after those of the frames around it, and
\* only the innermost frame can be at its condition.
FramesNest ==
  \A i \in DOMAIN frames :
    /\ FrameShape(frames[i])
    /\ frames[i].body # 0 => i = Len(frames)
    /\ \A j \in DOMAIN frames : j < i =>
         \A a \in FrameBlocks(frames[j]), b \in FrameBlocks(frames[i]) : a < b

HeldUnsealed == \A i \in DOMAIN frames : FrameBlocks(frames[i]) \subseteq Block \ sealed

CondFirst == AtWhileCond => Top.cond = IF next # 0 THEN next ELSE Curr

NextFresh == next # 0 => next \notin sealed \cup (Held \ CondInHand)

CurrOpen == Idle => Curr \notin sealed \cup (Held \ CondInHand)

SealingFresh ==
  \/ sealing = <<>>
  \/ /\ sealing = <<Curr>>
     /\ Curr \notin sealed \cup Held /\ Curr # next
  \/ \E c \in Block \ (sealed \cup Held) :
       /\ sealing = <<c, Curr>> /\ c \notin {Curr, next}
       /\ Curr \notin sealed \cup Held /\ Curr # next

\* No block is lost: one that is not sealed is held, in hand or outstanding.
NoneLost ==
  /\ Block \subseteq sealed \cup Held \cup {Curr, next} \cup {sealing[i] : i \in DOMAIN sealing}
  /\ sealing = <<>> /\ next # 0 => Curr \in sealed \cup Held
  /\ sealing # <<>> => next # 0 \/ done
  /\ done => frames = <<>> /\ next = 0
  /\ Emitted => Curr \in sealed

\* Every block is sealed, held by an open statement, or in hand, and no block
\* is in two of these roles at once (the block of a WHILE's condition, emitted
\* while it is held for the back edge, is the one exception the code makes).
SealingDiscipline ==
  FramesNest /\ HeldUnsealed /\ CondFirst /\ NextFresh /\ CurrOpen /\ SealingFresh /\ NoneLost

-----------------------------------------------------------------------------
(* When a block gets its terminator. *)

FrameClosing(f) ==
  /\ {f.body, f.alt, f.after} \cap closed = {}
  /\ f.cond # 0 => (f.cond \in closed <=> f.body = 0)

\* The last statement that left an instruction in Curr was a RETURN; what came
\* behind it are assignments that left none.
BehindReturn ==
  \E r \in 1 .. pc - 1 :
    prog[r].op = "return" /\ \A i \in r + 1 .. pc - 1 : prog[i].op = "simple"

\* A block is terminated before it is sealed and not before it is entered, and
\* the block in hand between two statements is terminated only by a RETURN of
\* the statement list being emitted, with nothing but assignments behind it.
ClosingDiscipline ==
  /\ sealed \subseteq closed /\ next \notin closed
  /\ \A i \in DOMAIN sealing : sealing[i] \in closed
  /\ \A i \in DOMAIN frames : FrameClosing(frames[i])
  /\ Idle /\ Curr \in closed => BehindReturn
=============================================================================
