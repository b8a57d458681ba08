----------------------------- MODULE SSAProofs -----------------------------
(***************************************************************************)
(* The control flow of a procedure and the SSA construction, for every     *)
(* body.                                                                   *)
(*                                                                         *)
(* First the blocks of BlockEmission.  Sealing is sound, which is          *)
(* SealedExactlyOnce and SealedPredsFixed and follows from                 *)
(* SealingDiscipline; and the body becomes terminated blocks, where only a *)
(* RETURN with something behind it puts a terminator into the middle of    *)
(* one, which is TerminatedOnce and follows from ClosingDiscipline with    *)
(* the discipline of sealing.  All of this holds of the construction as    *)
(* well, since a step of it is a step of the skeleton or none.             *)
(*                                                                         *)
(* The tables of the construction keep their types: values, phis, use      *)
(* lists and the activations of the recursive functions always refer to    *)
(* blocks, phis and declarations that exist.  This needs what MoveUsers    *)
(* makes of use lists: Without keeps all but one phi, and how often a phi  *)
(* stands in a list is not changed by filtering out another one or by      *)
(* reversing the list, and adds up where lists are joined.                 *)
(*                                                                         *)
(* Replacing a phi reaches everything that refers to it: until an erased   *)
(* phi is dereferenced, no definition, operand or incoming value denotes   *)
(* one, and the use list of a phi holds each phi as often as that phi has  *)
(* it among its operands.                                                  *)
(*                                                                         *)
(* Phis are filled when their block is sealed.  Sealing a block reads      *)
(* variables in its predecessors and, around a loop, in the block itself,  *)
(* but never adds to the IncompletePhis it is running over; a phi waits    *)
(* there alive and empty until its turn comes, and then gets one operand   *)
(* per predecessor.                                                        *)
(*                                                                         *)
(* None that a single value could replace is left: replacing one finds the *)
(* others that it makes trivial in its use list.                           *)
(***************************************************************************)
EXTENDS SSAConstruction, RecursionLemmas, FiniteSetTheorems, SequenceTheorems

(* The blocks and their sealing, of BlockEmission. *)

\* Predecessors stay blocks when a branch is added.
LEMMA BranchedType ==
  ASSUME TypeOK, NEW n \in Nat, NEW targets \in SUBSET (1 .. last + n)
  PROVE  Branched(n, targets) \in [1 .. last + n -> Seq(1 .. last + n)]
<1> DEFINE T == 1 .. last + n
<1>0. last \in Nat \ {0} /\ Block \subseteq T /\ Curr \in T
  BY DEF TypeOK, Block
<1>1. SUFFICES ASSUME NEW b \in T
               PROVE  LET old == IF b <= last THEN preds[b] ELSE <<>>
                      IN  (IF b \in targets THEN <<Curr>> \o old ELSE old) \in Seq(T)
  BY DEF Branched
<1> DEFINE old == IF b <= last THEN preds[b] ELSE <<>>
<1>2. old \in Seq(T)
  <2>1. CASE b <= last
    <3>1. preds[b] \in Seq(Block) BY <1>0, <2>1 DEF TypeOK, Block
    <3>2. Seq(Block) \subseteq Seq(T) BY <1>0, SeqMonotonic
    <3>3. QED BY <2>1, <3>1, <3>2
  <2>2. CASE ~(b <= last) BY <2>2
  <2>3. QED BY <2>1, <2>2
<1>3. <<Curr>> \o old \in Seq(T) BY <1>0, <1>2
<1>4. QED BY <1>2, <1>3

\* What the three stack operations leave in frames.
LEMMA StackFacts ==
  ASSUME NEW S, frames \in Seq(S)
  PROVE  /\ \A f \in S : Push(f) =>
              /\ frames' \in Seq(S) /\ Len(frames') = Len(frames) + 1
              /\ frames'[Len(frames) + 1] = f
              /\ \A i \in DOMAIN frames : frames'[i] = frames[i]
         /\ \A f \in S : frames # <<>> /\ SetTop(f) =>
              /\ frames' \in Seq(S) /\ Len(frames') = Len(frames)
              /\ frames'[Len(frames)] = f
              /\ \A i \in DOMAIN frames : i # Len(frames) => frames'[i] = frames[i]
         /\ frames # <<>> /\ Pop =>
              /\ frames' \in Seq(S) /\ Len(frames') = Len(frames) - 1
              /\ \A i \in DOMAIN frames' : frames'[i] = frames[i]
         /\ frames # <<>> => Len(frames) \in DOMAIN frames /\ Top \in S
<1>1. \A f \in S : Push(f) =>
              /\ frames' \in Seq(S) /\ Len(frames') = Len(frames) + 1
              /\ frames'[Len(frames) + 1] = f
              /\ \A i \in DOMAIN frames : frames'[i] = frames[i]
  BY DEF Push
<1>2. \A f \in S : frames # <<>> /\ SetTop(f) =>
              /\ frames' \in Seq(S) /\ Len(frames') = Len(frames)
              /\ frames'[Len(frames)] = f
              /\ \A i \in DOMAIN frames : i # Len(frames) => frames'[i] = frames[i]
  BY DEF SetTop
<1>3. frames # <<>> /\ Pop =>
              /\ frames' \in Seq(S) /\ Len(frames') = Len(frames) - 1
              /\ \A i \in DOMAIN frames' : frames'[i] = frames[i]
  <2> SUFFICES ASSUME frames # <<>>, Pop
               PROVE  /\ frames' \in Seq(S) /\ Len(frames') = Len(frames) - 1
                      /\ \A i \in DOMAIN frames' : frames'[i] = frames[i]
    OBVIOUS
  <2> DEFINE n == Len(frames) - 1
             shorter == SubSeq(frames, 1, n)
  <2>1. n \in Nat /\ 1 \in Int /\ n \in Int BY EmptySeq
  <2>2. \A i \in 1 .. n : frames[i] \in S BY <2>1
  <2>3. /\ shorter \in Seq(S) /\ Len(shorter) = IF 1 <= n THEN n - 1 + 1 ELSE 0
        /\ \A i \in 1 .. n - 1 + 1 : shorter[i] = frames[1 + i - 1]
    <3> HIDE DEF n
    <3>1. QED BY <2>1, <2>2, SubSeqProperties
  <2> HIDE DEF shorter
  <2>4. Len(shorter) = n
    <3> HIDE DEF n
    <3>1. CASE 1 <= n BY <2>1, <2>3, <3>1
    <3>2. CASE ~(1 <= n) BY <2>1, <2>3, <3>2
    <3>3. QED BY <3>1, <3>2
  <2>5. \A i \in 1 .. n : 1 + i - 1 = i BY <2>1
  <2>6. \A i \in 1 .. n : shorter[i] = frames[i] BY <2>1, <2>3, <2>5
  <2>7. frames' = shorter BY DEF Pop, shorter
  <2>8. QED BY <2>3, <2>4, <2>6, <2>7
<1>4. frames # <<>> => Len(frames) \in DOMAIN frames /\ Top \in S
  BY DEF Top
<1>5. QED BY <1>1, <1>2, <1>3, <1>4

\* TypeOK of BlockEmission is inductive.
LEMMA TypeInit == Init => TypeOK
<1> SUFFICES ASSUME Init PROVE TypeOK
  OBVIOUS
<1>1. last \in Nat \ {0} /\ Block = 1 .. 1 BY DEF Init, Block
<1>2. preds \in [Block -> Seq(Block)] BY <1>1 DEF Init
<1>3. sealing \in Seq(Block) /\ frames \in Seq(Frame) BY EmptySeq DEF Init
<1>4. done \in BOOLEAN BY DEF Init
<1>5. QED BY <1>1, <1>2, <1>3, <1>4 DEF Init, TypeOK

\* A handler that creates no block.
LEMMA TypeSameBlocks ==
  ASSUME TypeOK, last' = last, pc' \in Nat \ {0}, done' \in BOOLEAN,
         sealed' = sealed, Curr' = Curr, next' \in Block \cup {0},
         frames' \in Seq(Frame), sealing' \in Seq(Block),
         preds' = preds \/ \E t \in SUBSET Block : preds' = Branched(0, t),
         AppendPlain \/ AppendTerminator \/ UNCHANGED <<closed, broken>>
  PROVE  TypeOK'
<1>1. preds' \in [Block -> Seq(Block)]
  <2>1. CASE preds' = preds BY <2>1 DEF TypeOK
  <2>2. ASSUME NEW t \in SUBSET Block, preds' = Branched(0, t)
        PROVE  preds' \in [Block -> Seq(Block)]
    <3>1. last + 0 = last BY DEF TypeOK
    <3>2. QED BY <2>2, <3>1, BranchedType DEF Block
  <2>3. QED BY <2>1, <2>2
<1>2. closed' \subseteq Block /\ broken' \subseteq Block
  BY DEF TypeOK, AppendPlain, AppendTerminator
<1>3. Block' = Block /\ Frame' = Frame BY DEF Block, Frame
<1>4. QED BY <1>1, <1>2, <1>3 DEF TypeOK

\* A handler that creates n blocks, branches to some of them and opens a frame.
LEMMA TypeNewBlocks ==
  ASSUME TypeOK, NEW n \in Nat, NEW t \in SUBSET (1 .. last + n), NEW f \in Frame',
         last' = last + n, preds' = Branched(n, t), AppendTerminator, Consume,
         sealed' = sealed, Curr' = Curr, next' \in 1 .. last + n,
         Push(f), sealing' = <<Curr>>
  PROVE  TypeOK'
<1>1. Block \subseteq Block' /\ Block' = 1 .. last + n /\ last' \in Nat \ {0}
  BY DEF TypeOK, Block
<1>2. preds' \in [Block' -> Seq(Block')] BY <1>1, BranchedType
<1>3. Frame \subseteq Frame' BY <1>1 DEF Frame
<1>4. frames \in Seq(Frame') BY <1>3, SeqMonotonic DEF TypeOK
<1>5. frames' \in Seq(Frame') BY <1>4, StackFacts
<1>6. done' \in BOOLEAN BY DEF TypeOK, Consume
<1>7. closed' \subseteq Block' /\ broken' \subseteq Block' /\ sealed' \subseteq Block'
  BY <1>1 DEF TypeOK, AppendTerminator
<1>8. Curr' \in Block' /\ next' \in Block' \cup {0} /\ sealing' \in Seq(Block')
  BY <1>1 DEF TypeOK
<1>9. pc' \in Nat \ {0} BY DEF TypeOK, Consume
<1>10. QED
  BY <1>1, <1>2, <1>5, <1>6, <1>7, <1>8, <1>9 DEF TypeOK

LEMMA TypeNext == TypeOK /\ [Next]_vars => TypeOK'
<1> SUFFICES ASSUME TypeOK, [Next]_vars PROVE TypeOK'
  OBVIOUS
<1>a. /\ pc \in Nat \ {0} /\ pc + 1 \in Nat \ {0} /\ last \in Nat \ {0}
      /\ frames \in Seq(Frame) /\ sealing \in Seq(Block) /\ Curr \in Block
      /\ next \in Block \cup {0} /\ 0 \in Block \cup {0} /\ <<Curr>> \in Seq(Block)
  BY DEF TypeOK
<1>b. done \in BOOLEAN BY DEF TypeOK
<1>c. ASSUME Consume PROVE pc' \in Nat \ {0} /\ done' \in BOOLEAN
  BY <1>a, <1>b, <1>c DEF Consume
<1>d. ASSUME frames # <<>>
      PROVE  /\ Top \in Frame
             /\ Top.after \in Block /\ Top.alt \in Block \cup {0}
             /\ Top.cond \in Block \cup {0} /\ Top.body \in Block \cup {0}
             /\ [Top EXCEPT !.alt = 0] \in Frame /\ [Top EXCEPT !.body = 0] \in Frame
  <2>1. Top \in Frame BY <1>a, <1>d, StackFacts
  <2>2. QED BY <2>1 DEF Frame
<1>e. ASSUME UNCHANGED last PROVE Seq(Frame') = Seq(Frame)
  BY <1>e DEF Frame, Block
<1>f. ASSUME NEW b \in Block, BranchIfOpen(b)
      PROVE  /\ preds' = preds \/ \E t \in SUBSET Block : preds' = Branched(0, t)
             /\ AppendPlain \/ AppendTerminator \/ UNCHANGED <<closed, broken>>
  <2>1. {b} \in SUBSET Block OBVIOUS
  <2>2. QED BY <1>f, <2>1 DEF BranchIfOpen
<1>1. CASE EmitSimple
  BY <1>a, <1>c, <1>1, TypeSameBlocks DEF EmitSimple
<1>2. CASE EmitReturn
  BY <1>a, <1>c, <1>2, TypeSameBlocks DEF EmitReturn
<1>14. CASE EmitCopy
  BY <1>a, <1>c, <1>14, TypeSameBlocks DEF EmitCopy, skeleton
<1>3. ASSUME NEW hasElse \in BOOLEAN, BeginIf(hasElse) PROVE TypeOK'
  <2> DEFINE n == IF hasElse THEN 3 ELSE 2
             f == [at |-> pc, cond |-> 0, body |-> 0,
                   alt |-> IF hasElse THEN last + 2 ELSE 0, after |-> last + n]
             t == {last + 1, last + 2}
  <2>1. n \in Nat /\ t \in SUBSET (1 .. last + n)
    BY <1>a
  <2>2. /\ last' = last + n /\ preds' = Branched(n, t) /\ Push(f)
        /\ next' \in 1 .. last + n
    <3>1. CASE hasElse BY <1>3, <1>a, <3>1 DEF BeginIf
    <3>2. CASE ~hasElse BY <1>3, <1>a, <3>2 DEF BeginIf
    <3>3. QED BY <3>1, <3>2
  <2>3. f \in Frame' BY <1>a, <2>2 DEF Frame, Block
  <2> HIDE DEF n, f, t
  <2>4. QED BY <1>3, <2>1, <2>2, <2>3, TypeNewBlocks DEF BeginIf
<1>4. CASE SwitchToElse
  <2>1. frames' \in Seq(Frame) BY <1>a, <1>d, <1>4, StackFacts DEF SwitchToElse
  <2>2. QED
    BY <1>a, <1>c, <1>d, <1>f, <1>4, <2>1, TypeSameBlocks DEF SwitchToElse
<1>5. CASE EndIf
  <2>1. frames' \in Seq(Frame) BY <1>a, <1>5, StackFacts DEF EndIf
  <2>2. QED
    BY <1>a, <1>c, <1>d, <1>f, <1>5, <2>1, TypeSameBlocks DEF EndIf
<1>6. CASE BeginWhile
  <2> DEFINE f == [at |-> pc, cond |-> last + 1, body |-> last + 2,
                   alt |-> 0, after |-> last + 3]
             t == {last + 1}
  <2>1. t \in SUBSET (1 .. last + 3) /\ 3 \in Nat
    BY <1>a
  <2>2. /\ last' = last + 3 /\ preds' = Branched(3, t) /\ Push(f)
        /\ next' \in 1 .. last + 3
    BY <1>6, <1>a DEF BeginWhile
  <2>3. f \in Frame' BY <1>a, <2>2 DEF Frame, Block
  <2> HIDE DEF f, t
  <2>4. QED BY <1>6, <2>1, <2>2, <2>3, TypeNewBlocks DEF BeginWhile
<1>7. CASE BranchWhile
  <2>1. frames # <<>> /\ Top.body # 0 BY <1>7 DEF BranchWhile, AtWhileCond
  <2>2. frames' \in Seq(Frame) BY <1>a, <1>d, <1>7, <2>1, StackFacts DEF BranchWhile
  <2>3. {Top.body, Top.after} \in SUBSET Block /\ Top.body \in Block BY <1>d, <2>1
  <2>4. QED
    BY <1>a, <1>b, <1>7, <2>2, <2>3, TypeSameBlocks DEF BranchWhile
<1>8. CASE EndWhile
  <2>1. frames' \in Seq(Frame) BY <1>a, <1>8, StackFacts DEF EndWhile
  <2>2. Top.cond \in Block /\ Top.after \in Block BY <1>d, <1>8 DEF EndWhile
  <2>3. {Top.cond} \in SUBSET Block /\ <<Top.cond, Curr>> \in Seq(Block) BY <1>a, <2>2
  <2>4. QED
    BY <1>a, <1>c, <1>8, <2>1, <2>2, <2>3, TypeSameBlocks DEF EndWhile
<1>9. CASE SealBlock
  <2>1. Head(sealing) \in Block /\ Tail(sealing) \in Seq(Block)
    BY <1>a, <1>9, HeadTailProperties DEF SealBlock
  <2>2. Block' = Block /\ Frame' = Frame BY <1>9 DEF SealBlock, Block, Frame
  <2>3. QED BY <1>9, <2>1, <2>2 DEF SealBlock, TypeOK
<1>10. CASE SetCurr
  <2>1. Block' = Block /\ Frame' = Frame BY <1>10 DEF SetCurr, Block, Frame
  <2>2. QED BY <1>10, <2>1 DEF SetCurr, TypeOK
<1>11. CASE Finish
  <2>1. done' \in BOOLEAN BY <1>11 DEF Finish
  <2>2. QED BY <1>a, <1>11, <2>1, TypeSameBlocks DEF Finish
<1>12. CASE UNCHANGED vars
  <2>1. Block' = Block /\ Frame' = Frame BY <1>12 DEF vars, skeleton, Block, Frame
  <2>2. QED BY <1>12, <2>1 DEF vars, skeleton, TypeOK
<1>13. QED
  BY <1>1, <1>2, <1>3, <1>4, <1>5, <1>6, <1>7, <1>8, <1>9, <1>10, <1>11, <1>12, <1>14
  DEF Next, Step, Handler, ControlFlow, Terminated

\* TypeOK: every block number the emitter holds names a block it has created.
THEOREM TypeCorrect == Spec => []TypeOK
<1>1. QED BY TypeInit, TypeNext, PTL DEF Spec

-----------------------------------------------------------------------------
(* SealingDiscipline, the inductive invariant. *)

IInv == TypeOK /\ SealingDiscipline

\* SealingDiscipline holds at the start, and the steps keep it.
LEMMA DisciplineInit == Init => SealingDiscipline
<1> SUFFICES ASSUME Init PROVE SealingDiscipline
  OBVIOUS
<1>1. frames = <<>> /\ DOMAIN frames = {} /\ Held = {} /\ ~AtWhileCond
  BY DEF Init, Held, AtWhileCond
<1>2. sealing = <<>> /\ next = 0 /\ sealed = {} /\ Curr = 1 /\ Block = {1} /\ ~done
  BY DEF Init, Block
<1>3. FramesNest /\ HeldUnsealed /\ CondFirst
  BY <1>1 DEF FramesNest, HeldUnsealed, CondFirst
<1>4. NextFresh /\ CurrOpen /\ SealingFresh /\ NoneLost
  BY <1>1, <1>2 DEF NextFresh, CurrOpen, SealingFresh, NoneLost, Emitted, CondInHand
<1>5. QED BY <1>3, <1>4 DEF SealingDiscipline

\* A statement without blocks of its own leaves the discipline as it was.
LEMMA DisciplineUnchanged ==
  ASSUME SealingDiscipline,
         UNCHANGED <<last, sealed, Curr, next, frames, sealing, done>>
  PROVE  SealingDiscipline'
BY DEF SealingDiscipline, FramesNest, HeldUnsealed, CondFirst, NextFresh, CurrOpen,
       SealingFresh, NoneLost, Emitted, CondInHand, AtWhileCond, Top, Held, Block, Idle

\* A handler is done with Curr, has pushed a frame of new blocks and goes to next.
LEMMA DisciplinePush ==
  ASSUME IInv, Idle, ~AtWhileCond, NEW f \in Frame', Push(f), FrameShape(f),
         last' \in Nat, last < last', \A b \in FrameBlocks(f) : b > last,
         next' \in last + 1 .. last',
         f.body # 0 => f.cond = next',
         f.body = 0 => next' \notin FrameBlocks(f) /\ f.cond = 0,
         last + 1 .. last' \subseteq FrameBlocks(f) \cup {next'},
         sealing' = <<Curr>>, UNCHANGED <<sealed, Curr, done>>
  PROVE  SealingDiscipline'
<1> USE DEF IInv, SealingDiscipline
<1>0. Block \subseteq Block' /\ Block' = 1 .. last'
  <2>1. last \in Nat BY DEF TypeOK
  <2>2. QED BY <2>1 DEF Block
<1>1. Block \subseteq Block' /\ Frame \subseteq Frame' /\ Block' = 1 .. last'
  BY <1>0 DEF Frame
<1>2. frames \in Seq(Frame) /\ frames \in Seq(Frame')
  BY <1>1, SeqMonotonic DEF TypeOK
<1>2a. /\ frames' \in Seq(Frame') /\ Len(frames') = Len(frames) + 1
       /\ frames'[Len(frames) + 1] = f
       /\ \A i \in DOMAIN frames : frames'[i] = frames[i]
  BY <1>2, StackFacts
<1>3. /\ Len(frames') = Len(frames) + 1
      /\ frames'[Len(frames) + 1] = f
      /\ \A i \in DOMAIN frames : frames'[i] = frames[i]
      /\ DOMAIN frames' = DOMAIN frames \cup {Len(frames) + 1}
      /\ Len(frames) + 1 \notin DOMAIN frames /\ Len(frames) \in Nat
      /\ \A i \in DOMAIN frames : i \in Nat /\ i < Len(frames) + 1
  BY <1>2, <1>2a
<1>4. \A i \in DOMAIN frames : frames[i].body = 0
  BY <1>2 DEF FramesNest, AtWhileCond, Top
<1>5. \A i \in DOMAIN frames : FrameBlocks(frames[i]) \subseteq Block \ sealed
  BY DEF HeldUnsealed
<1>6. sealed \subseteq Block /\ Curr \in Block /\ last \in Nat \ {0} BY DEF TypeOK
<1>7. FrameBlocks(f) \subseteq Block' \ Block
  BY <1>1, <1>6 DEF FrameBlocks, Frame, Block
<1>8. Held' = Held \cup FrameBlocks(f)
  BY <1>1, <1>3, <1>5, <1>7 DEF Held
<1>9. AtWhileCond' = (f.body # 0) /\ frames' # <<>> /\ Top' = f
  BY <1>3 DEF AtWhileCond, Top
<1>10. FramesNest'
  <2> SUFFICES ASSUME NEW i \in DOMAIN frames'
               PROVE  /\ FrameShape(frames'[i])
                      /\ frames'[i].body # 0 => i = Len(frames')
                      /\ \A j \in DOMAIN frames' : j < i =>
                           \A a \in FrameBlocks(frames'[j]), b \in FrameBlocks(frames'[i]) : a < b
    BY DEF FramesNest
  <2>1. CASE i \in DOMAIN frames
    BY <1>3, <1>4, <2>1 DEF FramesNest
  <2>2. CASE i = Len(frames) + 1
    <3>1. ASSUME NEW j \in DOMAIN frames', j < i
          PROVE  \A a \in FrameBlocks(frames'[j]), b \in FrameBlocks(f) : a < b
      <4>1. j \in DOMAIN frames /\ frames'[j] = frames[j] BY <1>3, <2>2, <3>1
      <4>2. \A a \in FrameBlocks(frames[j]) : a \in 1 .. last
        BY <1>5, <4>1 DEF Block
      <4>3. \A b \in FrameBlocks(f) : b \in 1 .. last' /\ last < b BY <1>1, <1>7
      <4>4. QED BY <1>6, <4>1, <4>2, <4>3
    <3>2. QED BY <1>3, <2>2, <3>1
  <2>3. QED BY <1>3, <2>1, <2>2
<1>11. HeldUnsealed'
  BY <1>1, <1>3, <1>5, <1>6, <1>7 DEF HeldUnsealed
<1>13. next' \notin Block /\ next' # 0 /\ next' \in Block'
  BY <1>1, <1>6 DEF Block
<1>12. CondFirst'
  BY <1>9, <1>13 DEF CondFirst
<1>14. NextFresh'
  BY <1>6, <1>8, <1>9, <1>13 DEF NextFresh, CondInHand, Held
<1>15. ~Idle' BY <1>13 DEF Idle
<1>16. Curr \notin sealed \cup Held
  BY DEF CurrOpen, CondInHand
<1>17. SealingFresh'
  BY <1>6, <1>7, <1>8, <1>13, <1>16 DEF SealingFresh
<1>18. Block \subseteq sealed \cup Held \cup {Curr}
  BY <1>6 DEF NoneLost, Idle, Block
<1>19. Block' \subseteq sealed' \cup Held' \cup {Curr', next'}
  BY <1>1, <1>6, <1>8, <1>18 DEF Block
<1>20. NoneLost'
  BY <1>13, <1>19 DEF NoneLost, Idle, Emitted
<1>21. QED
  BY <1>10, <1>11, <1>12, <1>14, <1>15, <1>17, <1>20 DEF CurrOpen

\* What the frames tell apart while the innermost one, Top, is in use.
LEMMA TopFacts ==
  ASSUME IInv, frames # <<>>
  PROVE  /\ Top \in Frame /\ FrameShape(Top)
         /\ FrameBlocks(Top) \subseteq Block \ sealed
         /\ Len(frames) \in Nat \ {0} /\ DOMAIN frames = 1 .. Len(frames)
         /\ \A i \in DOMAIN frames : i # Len(frames) =>
              /\ frames[i].body = 0
              /\ \A a \in FrameBlocks(frames[i]), b \in FrameBlocks(Top) : a < b
         /\ Block \subseteq Nat \ {0}
<1>1. frames \in Seq(Frame) BY DEF IInv, TypeOK
<1>2. Len(frames) \in Nat \ {0} /\ DOMAIN frames = 1 .. Len(frames) /\ Len(frames) \in DOMAIN frames
  BY <1>1, EmptySeq
<1>3. Top \in Frame /\ Top = frames[Len(frames)] BY <1>1, StackFacts DEF Top
<1>4. FramesNest /\ HeldUnsealed BY DEF IInv, SealingDiscipline
<1>5. FrameShape(Top) /\ FrameBlocks(Top) \subseteq Block \ sealed
  BY <1>2, <1>3, <1>4 DEF FramesNest, HeldUnsealed
<1>6. ASSUME NEW i \in DOMAIN frames, i # Len(frames)
      PROVE  /\ frames[i].body = 0
             /\ \A a \in FrameBlocks(frames[i]), b \in FrameBlocks(Top) : a < b
  <2>1. i < Len(frames) BY <1>2, <1>6
  <2>2. QED BY <1>2, <1>3, <1>4, <1>6, <2>1 DEF FramesNest
<1>7. Block \subseteq Nat \ {0} BY DEF IInv, TypeOK, Block
<1>8. QED BY <1>2, <1>3, <1>5, <1>6, <1>7

\* A handler gives up its frame: the block after the statement is entered, and
\* the block of a WHILE's condition is sealed at last.
LEMMA DisciplinePop ==
  ASSUME IInv, Idle, ~AtWhileCond, frames # <<>>, Pop, next' = Top.after,
         UNCHANGED <<last, sealed, Curr, done>>,
         \/ Top.cond = 0 /\ Top.alt = 0 /\ sealing' = <<Curr>>
         \/ Top.cond # 0 /\ sealing' = <<Top.cond, Curr>>
  PROVE  SealingDiscipline'
<1>1. /\ Top \in Frame /\ FrameShape(Top)
      /\ FrameBlocks(Top) \subseteq Block \ sealed
      /\ Len(frames) \in Nat \ {0} /\ DOMAIN frames = 1 .. Len(frames)
      /\ \A i \in DOMAIN frames : i # Len(frames) =>
           /\ frames[i].body = 0
           /\ \A a \in FrameBlocks(frames[i]), b \in FrameBlocks(Top) : a < b
      /\ Block \subseteq Nat \ {0}
  BY TopFacts
<1>2. frames \in Seq(Frame) BY DEF IInv, TypeOK
<1>3. frames' \in Seq(Frame) /\ Len(frames') = Len(frames) - 1
      /\ \A i \in DOMAIN frames' : frames'[i] = frames[i]
  BY <1>2, StackFacts
<1>4. /\ DOMAIN frames' = DOMAIN frames \ {Len(frames)} /\ Len(frames) \in DOMAIN frames
      /\ \A i \in DOMAIN frames' : i \in Nat /\ i # Len(frames)
  <2>1. DOMAIN frames' = 1 .. Len(frames) - 1 BY <1>1, <1>3
  <2>2. QED BY <1>1, <2>1
<1>5. Block' = Block BY DEF Block
<1>6. \A i \in DOMAIN frames : FrameBlocks(frames[i]) \subseteq Block \ sealed
  BY DEF IInv, SealingDiscipline, HeldUnsealed
<1>7. Top = frames[Len(frames)] BY DEF Top
<1>8. Held = Held' \cup FrameBlocks(Top)
  BY <1>3, <1>4, <1>5, <1>6, <1>7 DEF Held
<1>9. Held' \cap FrameBlocks(Top) = {}
  <2>1. ASSUME NEW i \in DOMAIN frames', NEW a \in FrameBlocks(frames'[i]), a \in FrameBlocks(Top)
        PROVE  FALSE
    <3>1. a \in FrameBlocks(frames[i]) /\ i \in DOMAIN frames /\ i # Len(frames)
      BY <1>3, <1>4
    <3>2. a < a BY <1>1, <2>1, <3>1
    <3>3. a \in Nat BY <1>1, <2>1
    <3>4. QED BY <3>2, <3>3
  <2>2. QED BY <2>1 DEF Held
<1>10. Top.body = 0 BY DEF AtWhileCond
<1>11. /\ Top.after \in Block /\ Top.after # 0 /\ Top.cond # Top.after
       /\ Top.after \in FrameBlocks(Top)
       /\ Top.cond # 0 => Top.cond \in Block /\ Top.cond \in FrameBlocks(Top) /\ Top.alt = 0
  BY <1>1 DEF Frame, FrameShape, FrameBlocks
<1>12. FrameBlocks(Top) \subseteq {Top.after, Top.cond}
  BY <1>10, <1>11 DEF FrameBlocks
<1>13. Curr \in Block /\ Curr \notin sealed \cup Held
  BY DEF IInv, SealingDiscipline, CurrOpen, CondInHand, TypeOK
<1>14. ~AtWhileCond'
  <2>1. frames' # <<>> => Len(frames') \in DOMAIN frames' BY <1>3, EmptySeq
  <2>2. \A i \in DOMAIN frames' : frames'[i].body = 0 BY <1>1, <1>3, <1>4
  <2>3. QED BY <2>1, <2>2 DEF AtWhileCond, Top
<1>15. FramesNest'
  <2>1. \A i \in DOMAIN frames' : frames[i].body = 0 BY <1>1, <1>4
  <2>2. FramesNest BY DEF IInv, SealingDiscipline
  <2>3. QED BY <1>3, <1>4, <2>1, <2>2 DEF FramesNest
<1>16. HeldUnsealed' BY <1>3, <1>4, <1>5, <1>6 DEF HeldUnsealed
<1>17. CondFirst' BY <1>14 DEF CondFirst
<1>18. next' \notin sealed' \cup Held' /\ next' # 0
  BY <1>1, <1>9, <1>11
<1>19. NextFresh' BY <1>18 DEF NextFresh
<1>20. CurrOpen' BY <1>18 DEF CurrOpen, Idle
<1>21. Curr' \notin sealed' \cup Held' /\ Curr' # next'
  BY <1>8, <1>11, <1>13
<1>22. SealingFresh'
  <2>1. CASE sealing' = <<Curr>> BY <1>21, <2>1 DEF SealingFresh
  <2>2. CASE Top.cond # 0 /\ sealing' = <<Top.cond, Curr>>
    <3>1. Top.cond \in Block' \ (sealed' \cup Held')
      BY <1>1, <1>5, <1>9, <1>11, <2>2
    <3>2. Top.cond \notin {Curr', next'}
      BY <1>8, <1>11, <1>13, <2>2
    <3>3. QED BY <1>21, <2>2, <3>1, <3>2 DEF SealingFresh
  <2>3. QED BY <2>1, <2>2
<1>23. NoneLost'
  <2>1. Block \subseteq sealed \cup Held \cup {Curr, 0}
    BY DEF IInv, SealingDiscipline, NoneLost, Idle
  <2>2. Block' \subseteq sealed' \cup Held' \cup {Curr', next'} \cup {sealing'[i] : i \in DOMAIN sealing'}
    <3>1. CASE sealing' = <<Curr>>
      BY <1>1, <1>5, <1>8, <1>12, <2>1, <3>1
    <3>2. CASE Top.cond # 0 /\ sealing' = <<Top.cond, Curr>>
      <4>1. Top.cond \in {sealing'[i] : i \in DOMAIN sealing'} BY <3>2
      <4>2. QED BY <1>1, <1>5, <1>8, <1>12, <2>1, <4>1
    <3>3. QED
      <4>1. CASE Top.cond = 0
        BY <1>1, <1>5, <1>8, <1>12, <2>1, <4>1
      <4>2. QED BY <3>2, <4>1
  <2>3. sealing' # <<>> OBVIOUS
  <2>4. ~done' BY DEF Idle
  <2>5. QED BY <1>18, <2>2, <2>3, <2>4 DEF NoneLost, Emitted
<1>24. QED
  BY <1>15, <1>16, <1>17, <1>19, <1>20, <1>22, <1>23 DEF SealingDiscipline

\* A handler takes a block out of its frame to enter it: the ELSE block, or the
\* body of a WHILE whose condition has been emitted.
LEMMA DisciplineSetTop ==
  ASSUME IInv, Idle, frames # <<>>, NEW g \in Frame, SetTop(g), FrameShape(g), g.body = 0,
         FrameBlocks(Top) = FrameBlocks(g) \cup {next'}, next' \notin FrameBlocks(g),
         next' # 0, UNCHANGED <<last, sealed, Curr, done>>,
         \/ ~AtWhileCond /\ sealing' = <<Curr>>
         \/ AtWhileCond /\ Top.cond # next' /\ sealing' = <<>>
  PROVE  SealingDiscipline'
<1>1. /\ Top \in Frame /\ FrameShape(Top)
      /\ FrameBlocks(Top) \subseteq Block \ sealed
      /\ Len(frames) \in Nat \ {0} /\ DOMAIN frames = 1 .. Len(frames)
      /\ \A i \in DOMAIN frames : i # Len(frames) =>
           /\ frames[i].body = 0
           /\ \A a \in FrameBlocks(frames[i]), b \in FrameBlocks(Top) : a < b
      /\ Block \subseteq Nat \ {0}
  BY TopFacts
<1>2. frames \in Seq(Frame) BY DEF IInv, TypeOK
<1>3. /\ frames' \in Seq(Frame) /\ Len(frames') = Len(frames)
      /\ frames'[Len(frames)] = g
      /\ \A i \in DOMAIN frames : i # Len(frames) => frames'[i] = frames[i]
  BY <1>2, StackFacts
<1>4. DOMAIN frames' = DOMAIN frames /\ Len(frames) \in DOMAIN frames
  BY <1>1, <1>3
<1>5. Block' = Block BY DEF Block
<1>6. \A i \in DOMAIN frames : FrameBlocks(frames[i]) \subseteq Block \ sealed
  BY DEF IInv, SealingDiscipline, HeldUnsealed
<1>7. Top = frames[Len(frames)] BY DEF Top
<1>8. Held = Held' \cup {next'}
  <2>1. ASSUME NEW b \in Held PROVE b \in Held' \cup {next'}
    <3>1. PICK i \in DOMAIN frames : b \in FrameBlocks(frames[i]) BY <2>1 DEF Held
    <3>2. CASE i = Len(frames) BY <1>3, <1>4, <1>5, <1>7, <2>1, <3>1, <3>2 DEF Held
    <3>3. CASE i # Len(frames) BY <1>3, <1>4, <1>5, <2>1, <3>1, <3>3 DEF Held
    <3>4. QED BY <3>2, <3>3
  <2>2. ASSUME NEW b \in Held' PROVE b \in Held
    <3>1. PICK i \in DOMAIN frames : b \in FrameBlocks(frames'[i]) BY <1>4, <2>2 DEF Held
    <3>2. CASE i = Len(frames) BY <1>3, <1>4, <1>5, <1>7, <2>2, <3>1, <3>2 DEF Held
    <3>3. CASE i # Len(frames) BY <1>3, <1>4, <1>5, <2>2, <3>1, <3>3 DEF Held
    <3>4. QED BY <3>2, <3>3
  <2>3. next' \in Held
    BY <1>1, <1>4, <1>7 DEF Held
  <2>4. QED BY <2>1, <2>2, <2>3
<1>9. next' \notin Held'
  <2>1. ASSUME NEW i \in DOMAIN frames, i # Len(frames), next' \in FrameBlocks(frames[i])
        PROVE  FALSE
    <3>1. next' < next' BY <1>1, <2>1
    <3>2. next' \in Nat BY <1>1
    <3>3. QED BY <3>1, <3>2
  <2>2. QED BY <1>3, <1>4, <2>1 DEF Held
<1>10. ~AtWhileCond' BY <1>3 DEF AtWhileCond, Top
<1>11. Curr \in Block /\ Curr \notin sealed \cup (Held \ CondInHand)
  BY DEF IInv, SealingDiscipline, CurrOpen, TypeOK
<1>12. FramesNest'
  <2>1. ASSUME NEW i \in DOMAIN frames'
        PROVE  /\ FrameShape(frames'[i]) /\ frames'[i].body = 0
               /\ \A j \in DOMAIN frames' : j < i =>
                    \A a \in FrameBlocks(frames'[j]), b \in FrameBlocks(frames'[i]) : a < b
    <3>1. CASE i = Len(frames) BY <1>1, <1>3, <1>4, <3>1
    <3>2. CASE i # Len(frames)
      <4>1. frames'[i] = frames[i] /\ frames[i].body = 0 /\ i < Len(frames)
        BY <1>1, <1>3, <1>4, <3>2
      <4>2. \A j \in DOMAIN frames' : j < i => j # Len(frames) /\ frames'[j] = frames[j]
        BY <1>1, <1>3, <1>4, <4>1
      <4>3. FramesNest BY DEF IInv, SealingDiscipline
      <4>4. QED BY <1>4, <4>1, <4>2, <4>3 DEF FramesNest
    <3>3. QED BY <3>1, <3>2
  <2>2. QED BY <2>1 DEF FramesNest
<1>13. HeldUnsealed'
  <2>1. ASSUME NEW i \in DOMAIN frames PROVE FrameBlocks(frames'[i]) \subseteq Block \ sealed
    <3>1. CASE i = Len(frames) BY <1>1, <1>3, <3>1
    <3>2. CASE i # Len(frames) BY <1>3, <1>6, <3>2
    <3>3. QED BY <3>1, <3>2
  <2>2. QED BY <1>4, <1>5, <2>1 DEF HeldUnsealed
<1>14. CondFirst' BY <1>10 DEF CondFirst
<1>15. next' \in Block /\ next' \notin sealed' \cup Held' BY <1>1, <1>9
<1>16. NextFresh' BY <1>15 DEF NextFresh
<1>17. CurrOpen' BY DEF CurrOpen, Idle
<1>18. CASE ~AtWhileCond /\ sealing' = <<Curr>>
  <2>1. Curr' \notin sealed' \cup Held' /\ Curr' # next'
    BY <1>8, <1>11, <1>18 DEF CondInHand
  <2>2. SealingFresh' BY <1>18, <2>1 DEF SealingFresh
  <2>3. Block \subseteq sealed \cup Held \cup {Curr, 0}
    BY DEF IInv, SealingDiscipline, NoneLost, Idle
  <2>4. Block' \subseteq sealed' \cup Held' \cup {Curr', next'}
    BY <1>1, <1>5, <1>8, <2>3
  <2>5. ~done' BY DEF Idle
  <2>6. NoneLost' BY <1>18, <2>4, <2>5 DEF NoneLost, Emitted
  <2>7. QED
    BY <1>12, <1>13, <1>14, <1>16, <1>17, <2>2, <2>6 DEF SealingDiscipline
<1>19. CASE AtWhileCond /\ Top.cond # next' /\ sealing' = <<>>
  <2>1. SealingFresh' BY <1>19 DEF SealingFresh
  <2>2. Curr = Top.cond
    BY <1>19 DEF IInv, SealingDiscipline, CondFirst, Idle
  <2>3. Curr \in Held
    <3>1. Top.cond # 0 BY <1>1, <1>19 DEF FrameShape, AtWhileCond
    <3>2. QED BY <1>1, <1>4, <1>7, <2>2, <3>1 DEF Held, FrameBlocks
  <2>4. Curr' \in Held' BY <1>8, <1>19, <2>2, <2>3
  <2>5. Block \subseteq sealed \cup Held \cup {Curr, 0}
    BY DEF IInv, SealingDiscipline, NoneLost, Idle
  <2>6. Block' \subseteq sealed' \cup Held' \cup {Curr', next'}
    BY <1>1, <1>5, <1>8, <2>5
  <2>7. ~done' BY DEF Idle
  <2>8. NoneLost' BY <2>4, <2>6, <2>7 DEF NoneLost, Emitted
  <2>9. QED
    BY <1>12, <1>13, <1>14, <1>16, <1>17, <2>1, <2>8 DEF SealingDiscipline
<1>20. QED BY <1>18, <1>19

\* The steps that seal a block, enter one and end.
LEMMA DisciplineSeal == IInv /\ SealBlock => SealingDiscipline'
<1> SUFFICES ASSUME IInv, SealBlock PROVE SealingDiscipline'
  OBVIOUS
<1>1. UNCHANGED <<last, Curr, next, frames, done>> /\ sealing # <<>> BY DEF SealBlock
<1>2. Block' = Block /\ Held' = Held /\ AtWhileCond' = AtWhileCond /\ Top' = Top /\ CondInHand' = CondInHand
  BY <1>1 DEF Block, Held, AtWhileCond, Top, CondInHand
<1>3. FramesNest' BY <1>1 DEF IInv, SealingDiscipline, FramesNest
<1>4. CondFirst' BY <1>1, <1>2 DEF IInv, SealingDiscipline, CondFirst
<1>5. next # 0 \/ done BY <1>1 DEF IInv, SealingDiscipline, NoneLost
<1>6. CurrOpen'
  <2>1. ~Idle'
    <3>1. CASE next # 0 BY <1>1, <3>1 DEF Idle
    <3>2. CASE done BY <1>1, <3>2 DEF Idle
    <3>3. QED BY <1>5, <3>1, <3>2
  <2>2. QED BY <2>1 DEF CurrOpen
<1>7. \A i \in DOMAIN frames : FrameBlocks(frames[i]) \subseteq Held
  BY DEF IInv, SealingDiscipline, HeldUnsealed, Held
<1>8. SealingFresh /\ NextFresh /\ NoneLost /\ HeldUnsealed BY DEF IInv, SealingDiscipline
<1>9. Curr \in Block /\ sealed \subseteq Block BY DEF IInv, TypeOK
<1>10. CASE sealing = <<Curr>> /\ Curr \notin sealed \cup Held /\ Curr # next
  <2>1. sealed' = sealed \cup {Curr} /\ sealing' = <<>> BY <1>10 DEF SealBlock
  <2>2. HeldUnsealed' BY <1>1, <1>2, <1>7, <1>8, <1>10, <2>1 DEF HeldUnsealed
  <2>3. NextFresh' BY <1>1, <1>2, <1>8, <1>10, <2>1 DEF NextFresh
  <2>4. SealingFresh' BY <2>1 DEF SealingFresh
  <2>5. Block' \subseteq sealed' \cup Held' \cup {Curr', next'}
    BY <1>1, <1>2, <1>8, <1>10, <2>1 DEF NoneLost
  <2>6. NoneLost' BY <1>1, <1>8, <2>1, <2>5 DEF NoneLost
  <2>7. QED BY <1>3, <1>4, <1>6, <2>2, <2>3, <2>4, <2>6 DEF SealingDiscipline
<1>11. ASSUME NEW c \in Block \ (sealed \cup Held),
              sealing = <<c, Curr>>, c \notin {Curr, next},
              Curr \notin sealed \cup Held, Curr # next
       PROVE  SealingDiscipline'
  <2>1. sealed' = sealed \cup {c} /\ sealing' = <<Curr>> BY <1>11 DEF SealBlock
  <2>2. HeldUnsealed' BY <1>1, <1>2, <1>7, <1>8, <1>11, <2>1 DEF HeldUnsealed
  <2>3. NextFresh' BY <1>1, <1>2, <1>8, <1>11, <2>1 DEF NextFresh
  <2>4. SealingFresh' BY <1>1, <1>2, <1>11, <2>1 DEF SealingFresh
  <2>5. {sealing[i] : i \in DOMAIN sealing} = {c, Curr} BY <1>11
  <2>6. Block' \subseteq sealed' \cup Held' \cup {Curr', next'}
    BY <1>1, <1>2, <1>8, <2>1, <2>5 DEF NoneLost
  <2>7. NoneLost' BY <1>1, <1>5, <1>8, <2>1, <2>6 DEF NoneLost, Emitted
  <2>8. QED BY <1>3, <1>4, <1>6, <2>2, <2>3, <2>4, <2>7 DEF SealingDiscipline
<1>12. QED BY <1>1, <1>8, <1>10, <1>11 DEF SealingFresh

LEMMA DisciplineSetCurr == IInv /\ SetCurr => SealingDiscipline'
<1> SUFFICES ASSUME IInv, SetCurr PROVE SealingDiscipline'
  OBVIOUS
<1>1. UNCHANGED <<last, sealed, frames, sealing, done>> /\ sealing = <<>> /\ next # 0
      /\ Curr' = next /\ next' = 0
  BY DEF SetCurr
<1>2. Block' = Block /\ Held' = Held /\ AtWhileCond' = AtWhileCond /\ Top' = Top /\ CondInHand' = CondInHand
  BY <1>1 DEF Block, Held, AtWhileCond, Top, CondInHand
<1>3. FramesNest /\ HeldUnsealed /\ CondFirst /\ NextFresh /\ NoneLost
  BY DEF IInv, SealingDiscipline
<1>4. FramesNest' /\ HeldUnsealed' BY <1>1, <1>2, <1>3 DEF FramesNest, HeldUnsealed
<1>5. CondFirst' BY <1>1, <1>2, <1>3 DEF CondFirst
<1>6. NextFresh' BY <1>1 DEF NextFresh
<1>7. CurrOpen' BY <1>1, <1>2, <1>3 DEF CurrOpen, NextFresh
<1>8. SealingFresh' BY <1>1 DEF SealingFresh
<1>9. ~done BY <1>1, <1>3 DEF NoneLost
<1>10. Block \subseteq sealed \cup Held \cup {next} BY <1>1, <1>3 DEF NoneLost
<1>11. NoneLost' BY <1>1, <1>2, <1>9, <1>10 DEF NoneLost, Emitted
<1>12. QED BY <1>4, <1>5, <1>6, <1>7, <1>8, <1>11 DEF SealingDiscipline

LEMMA DisciplineFinish == IInv /\ Finish => SealingDiscipline'
<1> SUFFICES ASSUME IInv, Finish PROVE SealingDiscipline'
  OBVIOUS
<1>1. UNCHANGED <<last, sealed, frames, Curr, next>> /\ sealing = <<>> /\ next = 0
      /\ sealing' = <<Curr>> /\ done' /\ frames = <<>> /\ ~done
  BY DEF Finish, Idle
<1>2. Block' = Block /\ Held' = Held /\ Held = {} /\ ~AtWhileCond' /\ ~AtWhileCond
  BY <1>1 DEF Block, Held, AtWhileCond
<1>3. FramesNest' /\ HeldUnsealed' /\ CondFirst'
  BY <1>1, <1>2 DEF FramesNest, HeldUnsealed, CondFirst
<1>4. NextFresh' /\ CurrOpen' BY <1>1 DEF NextFresh, CurrOpen, Idle
<1>5. Curr \in Block /\ Curr \notin sealed
  BY <1>1 DEF IInv, TypeOK, SealingDiscipline, CurrOpen, Idle
<1>6. Curr # next BY <1>1, <1>5 DEF IInv, TypeOK, Block
<1>7. SealingFresh' BY <1>1, <1>2, <1>5, <1>6 DEF SealingFresh
<1>8. Block \subseteq sealed \cup Held \cup {Curr, next}
  BY <1>1 DEF IInv, SealingDiscipline, NoneLost
<1>9. NoneLost' BY <1>1, <1>2, <1>8 DEF NoneLost, Emitted
<1>10. QED BY <1>3, <1>4, <1>7, <1>9 DEF SealingDiscipline

\* SealingDiscipline is inductive, with TypeOK.
LEMMA DisciplineNext == IInv /\ TypeOK' /\ [Next]_vars => SealingDiscipline'
<1> SUFFICES ASSUME IInv, TypeOK', [Next]_vars PROVE SealingDiscipline'
  OBVIOUS
<1>a. last \in Nat \ {0} /\ pc \in Nat /\ SealingDiscipline BY DEF IInv, TypeOK
<1>1. CASE EmitSimple \/ EmitCopy \/ EmitReturn
  BY <1>1, <1>a, DisciplineUnchanged DEF EmitSimple, EmitCopy, EmitReturn, Consume, skeleton
<1>2. ASSUME NEW hasElse \in BOOLEAN, BeginIf(hasElse) PROVE SealingDiscipline'
  <2> DEFINE n == IF hasElse THEN 3 ELSE 2
             f == [at |-> pc, cond |-> 0, body |-> 0,
                   alt |-> IF hasElse THEN last + 2 ELSE 0, after |-> last + n]
  <2>1. Idle /\ ~AtWhileCond /\ UNCHANGED <<sealed, Curr, done>> /\ sealing' = <<Curr>>
    BY <1>2 DEF BeginIf, CanEmit, Consume
  <2>2. last' = last + n /\ Push(f) /\ next' = last + 1
    <3>1. CASE hasElse BY <1>2, <1>a, <3>1 DEF BeginIf
    <3>2. CASE ~hasElse BY <1>2, <1>a, <3>2 DEF BeginIf
    <3>3. QED BY <3>1, <3>2
  <2>3. f \in Frame' BY <1>a, <2>2 DEF Frame, Block
  <2>4. FrameShape(f) BY <1>a DEF FrameShape
  <2>5. FrameBlocks(f) = last + 2 .. last + n
    BY <1>a DEF FrameBlocks
  <2>6. f.body = 0 /\ f.cond = 0 OBVIOUS
  <2>7. n \in {2, 3} OBVIOUS
  <2> HIDE DEF n, f
  <2>8. last' \in Nat /\ last < last' /\ next' \in last + 1 .. last'
        /\ (\A b \in FrameBlocks(f) : b > last) /\ next' \notin FrameBlocks(f)
        /\ last + 1 .. last' \subseteq FrameBlocks(f) \cup {next'}
    BY <1>a, <2>2, <2>5, <2>7
  <2>9. QED BY <2>1, <2>2, <2>3, <2>4, <2>6, <2>8, DisciplinePush
<1>3. CASE SwitchToElse
  <2>1. Idle /\ ~AtWhileCond /\ UNCHANGED <<last, sealed, Curr, done>> /\ sealing' = <<Curr>>
        /\ frames # <<>> /\ Top.alt # 0 /\ next' = Top.alt /\ SetTop([Top EXCEPT !.alt = 0])
    BY <1>3 DEF SwitchToElse, CanEmit, Consume
  <2>2. Top \in Frame /\ FrameShape(Top) BY <2>1, TopFacts
  <2>3. Top.body = 0 /\ Top.cond = 0 BY <2>1, <2>2 DEF AtWhileCond, FrameShape
  <2> DEFINE g == [Top EXCEPT !.alt = 0]
  <2>4. g \in Frame /\ g.body = 0 /\ g.alt = 0 /\ g.cond = 0 /\ g.after = Top.after
    BY <2>2, <2>3 DEF Frame
  <2>5. /\ Top.after # 0 /\ Top.alt < Top.after /\ Top.after \in Nat /\ Top.alt \in Nat
    BY <1>a, <2>2 DEF FrameShape, Frame, Block
  <2> HIDE DEF g
  <2>6. FrameShape(g) BY <2>4, <2>5 DEF FrameShape
  <2>7. FrameBlocks(g) = {Top.after} BY <2>4, <2>5 DEF FrameBlocks
  <2>8. FrameBlocks(Top) = {Top.after, Top.alt} BY <2>1, <2>3, <2>5 DEF FrameBlocks
  <2>9. FrameBlocks(Top) = FrameBlocks(g) \cup {next'} /\ next' \notin FrameBlocks(g) /\ next' # 0
    BY <2>1, <2>5, <2>7, <2>8
  <2>10. QED BY <2>1, <2>4, <2>6, <2>9, DisciplineSetTop DEF g
<1>4. CASE EndIf
  BY <1>4, DisciplinePop DEF EndIf, CanEmit, Consume
<1>5. CASE BeginWhile
  <2> DEFINE f == [at |-> pc, cond |-> last + 1, body |-> last + 2,
                   alt |-> 0, after |-> last + 3]
  <2>1. Idle /\ ~AtWhileCond /\ UNCHANGED <<sealed, Curr, done>> /\ sealing' = <<Curr>>
        /\ last' = last + 3 /\ Push(f) /\ next' = last + 1
    BY <1>5 DEF BeginWhile, CanEmit, Consume
  <2>2. f \in Frame' BY <1>a, <2>1 DEF Frame, Block
  <2>3. FrameShape(f) BY <1>a DEF FrameShape
  <2>4. FrameBlocks(f) = {last + 1, last + 2, last + 3} BY <1>a DEF FrameBlocks
  <2>5. f.body # 0 /\ f.cond = last + 1 BY <1>a
  <2> HIDE DEF f
  <2>6. last' \in Nat /\ last < last' /\ next' \in last + 1 .. last'
        /\ (\A b \in FrameBlocks(f) : b > last)
        /\ last + 1 .. last' \subseteq FrameBlocks(f) \cup {next'}
    BY <1>a, <2>1, <2>4
  <2>7. QED BY <2>1, <2>2, <2>3, <2>5, <2>6, DisciplinePush
<1>6. CASE BranchWhile
  <2>1. Idle /\ AtWhileCond /\ UNCHANGED <<last, sealed, Curr, done>> /\ sealing' = <<>>
        /\ frames # <<>> /\ Top.body # 0 /\ next' = Top.body /\ SetTop([Top EXCEPT !.body = 0])
    BY <1>6 DEF BranchWhile, AtWhileCond, Idle
  <2>2. Top \in Frame /\ FrameShape(Top) BY <2>1, TopFacts
  <2>3. Top.alt = 0 /\ Top.cond # 0 BY <2>1, <2>2 DEF FrameShape
  <2> DEFINE g == [Top EXCEPT !.body = 0]
  <2>4. g \in Frame /\ g.body = 0 /\ g.alt = 0 /\ g.cond = Top.cond /\ g.after = Top.after
    BY <2>2, <2>3 DEF Frame
  <2>5. /\ Top.after # 0 /\ Top.body < Top.after /\ Top.cond < Top.body
        /\ Top.after \in Nat /\ Top.body \in Nat /\ Top.cond \in Nat
    BY <1>a, <2>1, <2>2 DEF FrameShape, Frame, Block
  <2> HIDE DEF g
  <2>6. FrameShape(g) BY <2>4, <2>5 DEF FrameShape
  <2>7. FrameBlocks(g) = {Top.after, Top.cond} BY <2>3, <2>4, <2>5 DEF FrameBlocks
  <2>8. FrameBlocks(Top) = {Top.after, Top.body, Top.cond} BY <2>1, <2>3, <2>5 DEF FrameBlocks
  <2>9. FrameBlocks(Top) = FrameBlocks(g) \cup {next'} /\ next' \notin FrameBlocks(g) /\ next' # 0
        /\ Top.cond # next'
    BY <2>1, <2>5, <2>7, <2>8
  <2>10. QED BY <2>1, <2>4, <2>6, <2>9, DisciplineSetTop DEF g
<1>7. CASE EndWhile
  BY <1>7, DisciplinePop DEF EndWhile, CanEmit, Consume
<1>8. CASE SealBlock BY <1>8, DisciplineSeal
<1>9. CASE SetCurr BY <1>9, DisciplineSetCurr
<1>10. CASE Finish BY <1>10, DisciplineFinish
<1>11. CASE UNCHANGED vars
  BY <1>a, <1>11, DisciplineUnchanged DEF vars, skeleton
<1>12. QED
  BY <1>1, <1>2, <1>3, <1>4, <1>5, <1>6, <1>7, <1>8, <1>9, <1>10, <1>11
  DEF Next, Step, Handler, ControlFlow, Terminated

\* SealingDiscipline holds for every set of procedure bodies.
THEOREM Discipline == Spec => [](TypeOK /\ SealingDiscipline)
<1>1. Init => IInv BY TypeInit, DisciplineInit DEF IInv
<1>2. IInv /\ [Next]_vars => IInv' BY TypeNext, DisciplineNext DEF IInv
<1>3. QED BY <1>1, <1>2, PTL DEF Spec, IInv

\* No body makes the assertion of sealBlock fail.
THEOREM SealOnceHolds == Spec => []SealOnce
<1>1. IInv => SealOnce
  <2> SUFFICES ASSUME IInv, sealing # <<>> PROVE Head(sealing) \notin sealed
    BY DEF SealOnce
  <2>1. SealingFresh BY DEF IInv, SealingDiscipline
  <2>2. CASE sealing = <<Curr>> /\ Curr \notin sealed \cup Held BY <2>2
  <2>3. ASSUME NEW c \in Block \ (sealed \cup Held), sealing = <<c, Curr>>
        PROVE  Head(sealing) \notin sealed
    BY <2>3
  <2>4. QED BY <2>1, <2>2, <2>3 DEF SealingFresh
<1>2. QED BY <1>1, Discipline, PTL DEF IInv

\* At the end of a body no block is held, in hand or outstanding.
LEMMA AllSealed == IInv /\ Emitted => sealed = Block
<1> SUFFICES ASSUME IInv, Emitted PROVE sealed = Block
  OBVIOUS
<1>1. sealed \subseteq Block /\ 0 \notin Block BY DEF IInv, TypeOK, Block
<1>2. NoneLost BY DEF IInv, SealingDiscipline
<1>3. frames = <<>> /\ next = 0 /\ sealing = <<>> /\ Curr \in sealed
  BY <1>2 DEF NoneLost, Emitted
<1>4. Held = {} BY <1>3 DEF Held
<1>5. Block \subseteq sealed \cup {0}
  BY <1>2, <1>3, <1>4 DEF NoneLost
<1>6. QED BY <1>1, <1>5

\* Nothing is left unsealed when a procedure has been emitted.
THEOREM AllSealedAtEndHolds == Spec => []AllSealedAtEnd
<1>1. IInv => AllSealedAtEnd BY AllSealed DEF AllSealedAtEnd
<1>2. QED BY <1>1, Discipline, PTL DEF IInv

\* Every block is sealed once, whatever the body.
THEOREM SealedExactlyOnceHolds == Spec => []SealedExactlyOnce
BY SealOnceHolds, AllSealedAtEndHolds, PTL DEF SealedExactlyOnce

\* No handler branches to a sealed block.
LEMMA SealedPredsKept == IInv /\ [Next]_vars => \A b \in sealed : preds'[b] = preds[b]
<1> SUFFICES ASSUME IInv, [Next]_vars, NEW b \in sealed PROVE preds'[b] = preds[b]
  OBVIOUS
<1>a. last \in Nat \ {0} /\ b \in Block /\ b \in 1 .. last BY DEF IInv, TypeOK, Block
<1>b. ASSUME NEW n \in Nat, NEW t, preds' = Branched(n, t), b \notin t
      PROVE  preds'[b] = preds[b]
  BY <1>a, <1>b DEF Branched
<1>c. ASSUME frames # <<>>, NEW c \in FrameBlocks(Top) PROVE b # c
  BY <1>c, TopFacts
<1>d. ASSUME frames # <<>>
      PROVE  Top.after \in FrameBlocks(Top)
             /\ (Top.cond # 0 => Top.cond \in FrameBlocks(Top))
             /\ (Top.body # 0 => Top.body \in FrameBlocks(Top))
  <2>1. FrameShape(Top) BY <1>d, TopFacts
  <2>2. QED BY <2>1 DEF FrameShape, FrameBlocks
<1>e. ASSUME frames # <<>>, BranchIfOpen(Top.after) PROVE preds'[b] = preds[b]
  BY <1>b, <1>c, <1>d, <1>e DEF BranchIfOpen
<1>1. ASSUME NEW hasElse \in BOOLEAN, BeginIf(hasElse) PROVE preds'[b] = preds[b]
  <2>1. CASE hasElse BY <1>1, <1>a, <1>b, <2>1 DEF BeginIf
  <2>2. CASE ~hasElse BY <1>1, <1>a, <1>b, <2>2 DEF BeginIf
  <2>3. QED BY <2>1, <2>2
<1>2. CASE BeginWhile BY <1>2, <1>a, <1>b DEF BeginWhile
<1>3. CASE SwitchToElse BY <1>3, <1>e DEF SwitchToElse
<1>4. CASE EndIf BY <1>4, <1>e DEF EndIf
<1>5. CASE BranchWhile
  BY <1>5, <1>b, <1>c, <1>d DEF BranchWhile, AtWhileCond
<1>6. CASE EndWhile BY <1>6, <1>b, <1>c, <1>d DEF EndWhile
<1>7. CASE UNCHANGED preds BY <1>7
<1>8. QED
  BY <1>1, <1>2, <1>3, <1>4, <1>5, <1>6, <1>7
  DEF Next, Step, Handler, ControlFlow, Terminated, EmitSimple, EmitCopy, EmitReturn, SealBlock, SetCurr,
      Finish, vars, skeleton

\* The predecessors readLocalVariableRecursive sees in a sealed block are final.
THEOREM SealedPredsFixedHolds == Spec => SealedPredsFixed
<1>1. IInv /\ [Next]_vars => [\A b \in sealed : preds'[b] = preds[b]]_vars
  BY SealedPredsKept
<1> QED BY <1>1, Discipline, PTL DEF Spec, SealedPredsFixed, IInv

-----------------------------------------------------------------------------
(* Terminators. *)

\* Between two statements nothing but Curr, and the condition being emitted, is
\* in hand: Curr is held by no other frame.
LEMMA CurrNotHeld ==
  ASSUME IInv, Idle
  PROVE  /\ Curr \in Block /\ Curr # 0 /\ Curr \notin sealed
         /\ AtWhileCond => Curr = Top.cond
         /\ \A i \in DOMAIN frames :
              /\ Curr \notin {frames[i].body, frames[i].alt, frames[i].after}
              /\ Curr = frames[i].cond => AtWhileCond /\ i = Len(frames)
<1>1. Curr \in Block /\ Curr # 0 BY DEF IInv, TypeOK, Block
<1>2. CurrOpen /\ CondFirst /\ FramesNest /\ HeldUnsealed BY DEF IInv, SealingDiscipline
<1>3. next = 0 BY DEF Idle
<1>4. Curr \notin sealed \cup (Held \ CondInHand) BY <1>2 DEF CurrOpen
<1>5. AtWhileCond => Curr = Top.cond BY <1>2, <1>3 DEF CondFirst
<1>6. ASSUME NEW i \in DOMAIN frames
      PROVE  /\ Curr \notin {frames[i].body, frames[i].alt, frames[i].after}
             /\ Curr = frames[i].cond => AtWhileCond /\ i = Len(frames)
  <2>1. FrameBlocks(frames[i]) \subseteq Held
    BY <1>2, <1>6 DEF Held, HeldUnsealed
  <2>2. CASE ~AtWhileCond
    <3>1. Curr \notin FrameBlocks(frames[i])
      BY <1>4, <2>1, <2>2 DEF CondInHand
    <3>2. QED BY <1>1, <3>1 DEF FrameBlocks
  <2>3. CASE AtWhileCond
    <3>1. frames # <<>> /\ Top.body # 0 /\ Curr = Top.cond BY <1>5, <2>3 DEF AtWhileCond
    <3>2. /\ Top \in Frame /\ FrameShape(Top)
          /\ \A j \in DOMAIN frames : j # Len(frames) =>
               \A a \in FrameBlocks(frames[j]), b \in FrameBlocks(Top) : a < b
          /\ Block \subseteq Nat \ {0}
      BY <3>1, TopFacts
    <3>3. Curr \in FrameBlocks(Top) BY <1>1, <3>1 DEF FrameBlocks
    <3>4. CASE i # Len(frames)
      <4>1. Curr \in Nat /\ ~(Curr < Curr) BY <1>1, <3>2
      <4>2. Curr \notin FrameBlocks(frames[i]) BY <3>2, <3>3, <3>4, <4>1
      <4>3. QED BY <1>1, <3>4, <4>2 DEF FrameBlocks
    <3>5. CASE i = Len(frames)
      <4>1. frames[i] = Top BY <3>5 DEF Top
      <4>2. Top.cond < Top.body /\ Top.cond < Top.after /\ Top.alt = 0
        BY <3>1, <3>2 DEF FrameShape
      <4>3. Top.cond \in Nat /\ Top.body \in Nat /\ Top.after \in Nat
        <5>1. Block \cup {0} \subseteq Nat BY <3>2
        <5>2. QED BY <3>2, <5>1 DEF Frame
      <4>4. QED BY <1>1, <2>3, <3>1, <3>5, <4>1, <4>2, <4>3
    <3>6. QED BY <3>4, <3>5
  <2>4. QED BY <2>2, <2>3
<1>7. QED BY <1>1, <1>4, <1>5, <1>6

\* The terminator of no block but Curr is touched.
Elsewhere == \A b : b # Curr => (b \in closed' <=> b \in closed)

\* A frame that does not hold Curr stays as it was.
LEMMA FrameStays ==
  ASSUME IInv, Idle, Elsewhere, NEW i \in DOMAIN frames, FrameClosing(frames[i]),
         AtWhileCond => i # Len(frames)
  PROVE  /\ {frames[i].body, frames[i].alt, frames[i].after} \cap closed' = {}
         /\ frames[i].cond # 0 => (frames[i].cond \in closed' <=> frames[i].body = 0)
<1>1. /\ Curr \notin {frames[i].body, frames[i].alt, frames[i].after}
      /\ Curr # frames[i].cond
  BY CurrNotHeld
<1>2. QED BY <1>1 DEF FrameClosing, Elsewhere

\* What the actions of IRBuilder do to closed and broken.
LEMMA Appended ==
  ASSUME AppendPlain \/ AppendTerminator
  PROVE  /\ Elsewhere
         /\ AppendTerminator => Curr \in closed'
         /\ AppendPlain => Curr \notin closed'
         /\ broken' = broken \cup ({Curr} \cap closed)
BY DEF AppendPlain, AppendTerminator, Elsewhere

\* A branch that is only made if the block has no terminator yet.
LEMMA BranchedIfOpen ==
  ASSUME NEW target, BranchIfOpen(target)
  PROVE  Elsewhere /\ Curr \in closed' /\ broken' = broken
BY DEF BranchIfOpen, AppendTerminator, Elsewhere

-----------------------------------------------------------------------------
TInv == IInv /\ ClosingDiscipline

\* ClosingDiscipline holds at the start.
LEMMA ClosingInit == Init => ClosingDiscipline
<1> SUFFICES ASSUME Init PROVE ClosingDiscipline
  OBVIOUS
<1>1. sealed = {} /\ closed = {} /\ sealing = <<>> /\ frames = <<>> /\ next = 0
  BY DEF Init
<1>2. QED BY <1>1 DEF ClosingDiscipline

\* A statement that makes no blocks.
LEMMA ClosingPlain ==
  ASSUME TInv, Idle, ~AtWhileCond, Elsewhere,
         UNCHANGED <<sealed, Curr, next, frames, sealing>>,
         Curr \in closed' => BehindReturn'
  PROVE  ClosingDiscipline'
<1>1. Curr \notin sealed /\ Curr # 0 BY CurrNotHeld DEF TInv
<1>2. sealing = <<>> /\ next = 0 BY DEF Idle
<1>3. ClosingDiscipline BY DEF TInv
<1>4. sealed' \subseteq closed' /\ next' \notin closed'
  BY <1>1, <1>2, <1>3 DEF ClosingDiscipline, Elsewhere
<1>5. \A i \in DOMAIN sealing' : sealing'[i] \in closed' BY <1>2
<1>6. ASSUME NEW i \in DOMAIN frames' PROVE FrameClosing(frames[i])'
  <2>1. i \in DOMAIN frames /\ FrameClosing(frames[i]) BY <1>3, <1>6 DEF ClosingDiscipline
  <2>2. QED BY <2>1, FrameStays DEF FrameClosing, TInv
<1>7. QED BY <1>4, <1>5, <1>6 DEF ClosingDiscipline

\* A handler that terminates Curr, seals it and goes on to a block it has just
\* made, keeping the others in a new frame.
LEMMA ClosingPush ==
  ASSUME TInv, Idle, ~AtWhileCond, Elsewhere, Curr \in closed', NEW f \in Frame', Push(f),
         last' \in Nat, next' \in Nat, next' > last, \A b \in FrameBlocks(f) : b > last,
         f.cond = 0 \/ f.body # 0,
         sealing' = <<Curr>>, UNCHANGED <<sealed, Curr>>
  PROVE  ClosingDiscipline'
<1>1. frames \in Seq(Frame) /\ last \in Nat \ {0} /\ closed \subseteq 1 .. last /\ Curr \in 1 .. last
  BY DEF TInv, IInv, TypeOK, Block
<1>2. closed' \subseteq 1 .. last BY <1>1 DEF Elsewhere
<1>3. ClosingDiscipline BY DEF TInv
<1>4. sealed' \subseteq closed' /\ next' \notin closed'
  <2>1. sealed \subseteq closed /\ Curr \notin sealed
    BY <1>3, CurrNotHeld DEF ClosingDiscipline, TInv
  <2>2. next' \notin 1 .. last BY <1>1
  <2>3. QED BY <1>2, <2>1, <2>2 DEF Elsewhere
<1>5. \A i \in DOMAIN sealing' : sealing'[i] \in closed' OBVIOUS
<1>6. ASSUME NEW i \in DOMAIN frames' PROVE FrameClosing(frames[i])'
  <2>1. CASE i = Len(frames) + 1
    <3>1. frames'[i] = f BY <1>1, <2>1 DEF Push
    <3>2. 0 \notin closed' BY <1>1, <1>2
    <3>3. ASSUME NEW b \in FrameBlocks(f), b \in closed' PROVE FALSE
      <4>1. b \in 1 .. last /\ b > last BY <1>2, <3>3
      <4>2. QED BY <1>1, <4>1
    <3>4. {f.body, f.alt, f.after} \cap closed' = {} /\ (f.cond # 0 => f.cond \notin closed')
      BY <3>2, <3>3 DEF FrameBlocks
    <3>5. QED BY <3>1, <3>4 DEF FrameClosing
  <2>2. CASE i # Len(frames) + 1
    <3>1. i \in DOMAIN frames /\ frames'[i] = frames[i] BY <1>1, <2>2 DEF Push
    <3>2. FrameClosing(frames[i]) BY <1>3, <3>1 DEF ClosingDiscipline
    <3>3. QED BY <3>1, <3>2, FrameStays DEF FrameClosing, TInv
  <2>3. QED BY <2>1, <2>2
<1>7. ~Idle' BY DEF Idle
<1>8. QED BY <1>4, <1>5, <1>6, <1>7 DEF ClosingDiscipline

\* A handler gives up its frame, and seals Curr and the frame's condition.
LEMMA ClosingPop ==
  ASSUME TInv, Idle, ~AtWhileCond, Elsewhere, Curr \in closed', frames # <<>>, Pop,
         next' = Top.after, UNCHANGED <<sealed, Curr>>,
         \/ sealing' = <<Curr>>
         \/ Top.cond # 0 /\ sealing' = <<Top.cond, Curr>>
  PROVE  ClosingDiscipline'
<1>1. frames \in Seq(Frame) BY DEF TInv, IInv, TypeOK
<1>2. /\ Len(frames) \in DOMAIN frames /\ Top = frames[Len(frames)]
      /\ \A i \in DOMAIN frames' : i \in DOMAIN frames /\ frames'[i] = frames[i]
  <2>1. Len(frames') = Len(frames) - 1 /\ frames' \in Seq(Frame)
        /\ \A i \in DOMAIN frames' : frames'[i] = frames[i]
    BY <1>1, StackFacts
  <2>2. DOMAIN frames' \subseteq DOMAIN frames BY <1>1, <2>1
  <2>3. QED BY <1>1, <2>1, <2>2, StackFacts DEF Top
<1>3. ClosingDiscipline /\ IInv BY DEF TInv
<1>4. FrameClosing(Top) BY <1>2, <1>3 DEF ClosingDiscipline
<1>5. Curr \notin {Top.body, Top.alt, Top.after} /\ Curr # Top.cond
  BY <1>2, <1>3, CurrNotHeld
<1>6. Top.body = 0 BY DEF AtWhileCond
<1>7. next' \notin closed' /\ (Top.cond # 0 => Top.cond \in closed')
  BY <1>4, <1>5, <1>6 DEF FrameClosing, Elsewhere
<1>8. sealed' \subseteq closed'
  BY <1>3, CurrNotHeld DEF ClosingDiscipline, Elsewhere
<1>9. \A i \in DOMAIN sealing' : sealing'[i] \in closed' /\ sealing' # <<>>
  BY <1>7
<1>10. ASSUME NEW i \in DOMAIN frames' PROVE FrameClosing(frames[i])'
  <2>1. i \in DOMAIN frames /\ frames'[i] = frames[i] BY <1>2, <1>10
  <2>2. FrameClosing(frames[i]) BY <1>3, <2>1 DEF ClosingDiscipline
  <2>3. QED BY <1>3, <2>1, <2>2, FrameStays DEF FrameClosing
<1>11. ~Idle' BY DEF Idle
<1>12. QED BY <1>7, <1>8, <1>9, <1>10, <1>11 DEF ClosingDiscipline

\* A handler takes the block it goes on to out of its frame.
LEMMA ClosingSetTop ==
  ASSUME TInv, Idle, Elsewhere, Curr \in closed', frames # <<>>, NEW g \in Frame, SetTop(g),
         next' \in {Top.alt, Top.body}, next' # Curr, g.body = 0, g.alt = 0, g.after = Top.after,
         g.cond = 0 \/ g.cond = Curr, UNCHANGED <<sealed, Curr>>,
         next' # 0, sealing' \in {<<>>, <<Curr>>}
  PROVE  ClosingDiscipline'
<1>1. frames \in Seq(Frame) BY DEF TInv, IInv, TypeOK
<1>2. ClosingDiscipline /\ IInv BY DEF TInv
<1>3. /\ Len(frames) \in DOMAIN frames /\ Top = frames[Len(frames)]
      /\ DOMAIN frames' = DOMAIN frames /\ frames'[Len(frames)] = g
      /\ \A i \in DOMAIN frames : i # Len(frames) => frames'[i] = frames[i]
  BY <1>1, StackFacts DEF Top, SetTop
<1>4. FrameClosing(Top) BY <1>2, <1>3 DEF ClosingDiscipline
<1>5. Curr \notin {Top.body, Top.alt, Top.after} /\ Curr # 0 /\ Curr \notin sealed /\ Curr \in Block
  BY <1>2, <1>3, CurrNotHeld
<1>6. next' \notin closed' BY <1>4, <1>5 DEF FrameClosing, Elsewhere
<1>7. 0 \notin closed'
  <2>1. 0 \notin closed BY <1>2 DEF IInv, TypeOK, Block
  <2>2. QED BY <1>5, <2>1 DEF Elsewhere
<1>8. sealed' \subseteq closed' BY <1>2, <1>5 DEF ClosingDiscipline, Elsewhere
<1>9. \A i \in DOMAIN sealing' : sealing'[i] \in closed' OBVIOUS
<1>10. ASSUME NEW i \in DOMAIN frames' PROVE FrameClosing(frames[i])'
  <2>1. CASE i = Len(frames)
    <3>1. Top.after \notin closed' BY <1>4, <1>5 DEF FrameClosing, Elsewhere
    <3>2. QED BY <1>3, <1>7, <2>1, <3>1 DEF FrameClosing
  <2>2. CASE i # Len(frames)
    <3>1. i \in DOMAIN frames /\ frames'[i] = frames[i] BY <1>3, <1>10, <2>2
    <3>2. FrameClosing(frames[i]) BY <1>2, <3>1 DEF ClosingDiscipline
    <3>3. QED BY <1>2, <2>2, <3>1, <3>2, FrameStays DEF FrameClosing
  <2>3. QED BY <2>1, <2>2
<1>11. ~Idle' BY DEF Idle
<1>12. QED BY <1>6, <1>8, <1>9, <1>10, <1>11 DEF ClosingDiscipline

\* The steps that seal a block, enter one and end.
LEMMA ClosingSeal == TInv /\ SealBlock => ClosingDiscipline'
<1> SUFFICES ASSUME TInv, SealBlock PROVE ClosingDiscipline'
  OBVIOUS
<1>1. UNCHANGED <<closed, Curr, next, frames, done, pc, prog>> /\ sealing # <<>>
      /\ sealed' = sealed \cup {Head(sealing)} /\ sealing' = Tail(sealing)
  BY DEF SealBlock
<1>2. ClosingDiscipline /\ sealing \in Seq(Block) BY DEF TInv, IInv, TypeOK
<1>3. Head(sealing) \in closed /\ \A i \in DOMAIN sealing' : sealing'[i] \in closed
  BY <1>1, <1>2 DEF ClosingDiscipline
<1>4. next # 0 \/ done BY <1>1 DEF TInv, IInv, SealingDiscipline, NoneLost
<1>5. ~Idle'
  <2>1. CASE next # 0 BY <1>1, <2>1 DEF Idle
  <2>2. CASE done BY <1>1, <2>2 DEF Idle
  <2>3. QED BY <1>4, <2>1, <2>2
<1>6. QED BY <1>1, <1>2, <1>3, <1>5 DEF ClosingDiscipline, FrameClosing

LEMMA ClosingSetCurr == TInv /\ SetCurr => ClosingDiscipline'
<1> SUFFICES ASSUME TInv, SetCurr PROVE ClosingDiscipline'
  OBVIOUS
<1>1. UNCHANGED <<closed, sealed, frames, sealing, pc, prog>> /\ Curr' = next /\ next' = 0
  BY DEF SetCurr
<1>2. ClosingDiscipline /\ 0 \notin closed BY DEF TInv, IInv, TypeOK, Block
<1>3. QED BY <1>1, <1>2 DEF ClosingDiscipline, FrameClosing

LEMMA ClosingFinish == TInv /\ Finish => ClosingDiscipline'
<1> SUFFICES ASSUME TInv, Finish PROVE ClosingDiscipline'
  OBVIOUS
<1>1. UNCHANGED <<sealed, frames, next, Curr>> /\ frames = <<>> /\ sealing' = <<Curr>> /\ Idle
  BY DEF Finish
<1>2. Elsewhere /\ Curr \in closed'
  <2>1. CASE Curr \in closed BY <2>1 DEF Finish, Elsewhere
  <2>2. CASE Curr \notin closed BY <2>2, Appended DEF Finish
  <2>3. QED BY <2>1, <2>2
<1>3. ClosingDiscipline /\ Curr # 0 /\ Curr \notin sealed /\ next = 0
  BY <1>1, CurrNotHeld DEF TInv, Idle
<1>4. sealed' \subseteq closed' /\ next' \notin closed'
  BY <1>1, <1>2, <1>3 DEF ClosingDiscipline, Elsewhere
<1>5. ~Idle' /\ \A i \in DOMAIN sealing' : sealing'[i] \in closed' BY <1>1, <1>2 DEF Idle
<1>6. QED BY <1>1, <1>4, <1>5 DEF ClosingDiscipline

\* ClosingDiscipline is inductive, with the discipline of sealing.
LEMMA ClosingNext == TInv /\ [Next]_vars => ClosingDiscipline'
<1> SUFFICES ASSUME TInv, [Next]_vars PROVE ClosingDiscipline'
  OBVIOUS
<1>a. last \in Nat \ {0} /\ pc \in Nat \ {0} /\ ClosingDiscipline /\ IInv
  BY DEF TInv, IInv, TypeOK
<1>1. CASE EmitSimple
  <2>1. Idle /\ ~AtWhileCond /\ AppendPlain /\ UNCHANGED <<sealed, Curr, next, frames, sealing>>
    BY <1>1 DEF EmitSimple, CanEmit
  <2>2. QED BY <2>1, Appended, ClosingPlain
<1>2. CASE EmitReturn
  <2>1. Idle /\ ~AtWhileCond /\ AppendTerminator
        /\ UNCHANGED <<sealed, Curr, next, frames, sealing>>
        /\ prog' = prog /\ pc' = pc + 1 /\ prog[pc].op = "return"
    BY <1>2 DEF EmitReturn, CanEmit, Consume
  <2>2. BehindReturn'
    <3>1. pc \in 1 .. pc' - 1 /\ pc + 1 .. pc' - 1 = {} BY <1>a, <2>1
    <3>2. QED BY <2>1, <3>1 DEF BehindReturn
  <2>3. QED BY <2>1, <2>2, Appended, ClosingPlain
<1>14. CASE EmitCopy
  <2>1. Idle /\ ~AtWhileCond /\ UNCHANGED <<closed, sealed, Curr, next, frames, sealing>>
        /\ prog' = prog /\ pc' = pc + 1 /\ prog[pc].op = "simple"
    BY <1>14 DEF EmitCopy, CanEmit, Consume, skeleton
  <2>2. ASSUME Curr \in closed PROVE BehindReturn'
    <3>1. PICK r \in 1 .. pc - 1 :
            prog[r].op = "return" /\ \A i \in r + 1 .. pc - 1 : prog[i].op = "simple"
      BY <1>a, <2>1, <2>2 DEF ClosingDiscipline, BehindReturn
    <3>2. r \in 1 .. pc' - 1 /\ \A i \in r + 1 .. pc' - 1 : i \in r + 1 .. pc - 1 \/ i = pc
      BY <1>a, <2>1
    <3>3. QED BY <2>1, <3>1, <3>2 DEF BehindReturn
  <2>3. Elsewhere BY <2>1 DEF Elsewhere
  <2>4. QED BY <2>1, <2>2, <2>3, ClosingPlain
<1>3. ASSUME NEW hasElse \in BOOLEAN, BeginIf(hasElse) PROVE ClosingDiscipline'
  <2> DEFINE n == IF hasElse THEN 3 ELSE 2
             f == [at |-> pc, cond |-> 0, body |-> 0,
                   alt |-> IF hasElse THEN last + 2 ELSE 0, after |-> last + n]
  <2>1. Idle /\ ~AtWhileCond /\ UNCHANGED <<sealed, Curr>> /\ sealing' = <<Curr>>
        /\ AppendTerminator
    BY <1>3 DEF BeginIf, CanEmit, Consume
  <2>2. last' = last + n /\ Push(f) /\ next' = last + 1
    <3>1. CASE hasElse BY <1>3, <1>a, <3>1 DEF BeginIf
    <3>2. CASE ~hasElse BY <1>3, <1>a, <3>2 DEF BeginIf
    <3>3. QED BY <3>1, <3>2
  <2>3. f \in Frame' BY <1>a, <2>2 DEF Frame, Block
  <2>4. \A b \in FrameBlocks(f) : b > last BY <1>a DEF FrameBlocks
  <2>5. f.cond = 0 OBVIOUS
  <2>6. last' \in Nat /\ next' \in Nat /\ next' > last BY <1>a, <2>2
  <2> HIDE DEF n, f
  <2>7. QED BY <2>1, <2>2, <2>3, <2>4, <2>5, <2>6, Appended, ClosingPush
<1>4. CASE SwitchToElse
  <2>1. Idle /\ ~AtWhileCond /\ UNCHANGED <<sealed, Curr>> /\ sealing' = <<Curr>>
        /\ frames # <<>> /\ Top.alt # 0 /\ next' = Top.alt /\ SetTop([Top EXCEPT !.alt = 0])
        /\ BranchIfOpen(Top.after)
    BY <1>4 DEF SwitchToElse, CanEmit, Consume
  <2>2. Top \in Frame /\ FrameShape(Top) BY <1>a, <2>1, TopFacts
  <2>3. Top.body = 0 /\ Top.cond = 0 BY <2>1, <2>2 DEF AtWhileCond, FrameShape
  <2> DEFINE g == [Top EXCEPT !.alt = 0]
  <2>4. g \in Frame /\ g.body = 0 /\ g.alt = 0 /\ g.cond = 0 /\ g.after = Top.after
    BY <2>2, <2>3 DEF Frame
  <2>5. next' # Curr
    <3>1. frames \in Seq(Frame) BY <1>a DEF IInv, TypeOK
    <3>2. Len(frames) \in DOMAIN frames /\ Top = frames[Len(frames)]
      BY <2>1, <3>1, StackFacts DEF Top
    <3>3. QED BY <1>a, <2>1, <3>2, CurrNotHeld
  <2> HIDE DEF g
  <2>6. QED BY <2>1, <2>4, <2>5, BranchedIfOpen, ClosingSetTop DEF g
<1>5. CASE EndIf
  BY <1>5, BranchedIfOpen, ClosingPop DEF EndIf, CanEmit, Consume
<1>6. CASE BeginWhile
  <2> DEFINE f == [at |-> pc, cond |-> last + 1, body |-> last + 2,
                   alt |-> 0, after |-> last + 3]
  <2>1. Idle /\ ~AtWhileCond /\ UNCHANGED <<sealed, Curr>> /\ sealing' = <<Curr>>
        /\ last' = last + 3 /\ Push(f) /\ next' = last + 1 /\ AppendTerminator
    BY <1>6 DEF BeginWhile, CanEmit, Consume
  <2>2. f \in Frame' BY <1>a, <2>1 DEF Frame, Block
  <2>3. \A b \in FrameBlocks(f) : b > last BY <1>a DEF FrameBlocks
  <2>4. f.body # 0 BY <1>a
  <2>5. last' \in Nat /\ next' \in Nat /\ next' > last BY <1>a, <2>1
  <2> HIDE DEF f
  <2>6. QED BY <2>1, <2>2, <2>3, <2>4, <2>5, Appended, ClosingPush
<1>7. CASE BranchWhile
  <2>1. Idle /\ AtWhileCond /\ UNCHANGED <<sealed, Curr>> /\ sealing' = <<>>
        /\ frames # <<>> /\ Top.body # 0 /\ next' = Top.body /\ SetTop([Top EXCEPT !.body = 0])
        /\ AppendTerminator
    BY <1>7 DEF BranchWhile, AtWhileCond, Idle
  <2>2. Top \in Frame /\ FrameShape(Top) BY <1>a, <2>1, TopFacts
  <2>3. Top.alt = 0 /\ Top.cond # 0 /\ Top.cond = Curr
    BY <1>a, <2>1, <2>2, CurrNotHeld DEF FrameShape
  <2> DEFINE g == [Top EXCEPT !.body = 0]
  <2>4. g \in Frame /\ g.body = 0 /\ g.alt = 0 /\ g.cond = Curr /\ g.after = Top.after
    BY <2>2, <2>3 DEF Frame
  <2>5. next' # Curr
    <3>1. frames \in Seq(Frame) BY <1>a DEF IInv, TypeOK
    <3>2. Len(frames) \in DOMAIN frames /\ Top = frames[Len(frames)]
      BY <2>1, <3>1, StackFacts DEF Top
    <3>3. QED BY <1>a, <2>1, <3>2, CurrNotHeld
  <2> HIDE DEF g
  <2>6. QED BY <2>1, <2>4, <2>5, Appended, ClosingSetTop DEF g
<1>8. CASE EndWhile
  BY <1>8, Appended, ClosingPop DEF EndWhile, CanEmit, Consume
<1>9. CASE SealBlock BY <1>9, ClosingSeal
<1>10. CASE SetCurr BY <1>10, ClosingSetCurr
<1>11. CASE Finish BY <1>11, ClosingFinish
<1>12. CASE UNCHANGED vars
  <2>1. BehindReturn' <=> BehindReturn BY <1>12 DEF vars, BehindReturn
  <2>2. QED BY <1>a, <1>12, <2>1 DEF vars, skeleton, ClosingDiscipline, FrameClosing, Idle
<1>13. QED
  BY <1>1, <1>2, <1>3, <1>4, <1>5, <1>6, <1>7, <1>8, <1>9, <1>10, <1>11, <1>12, <1>14
  DEF Next, Step, Handler, ControlFlow, Terminated

\* ClosingDiscipline holds for every set of procedure bodies: no block is sealed
\* before its terminator or entered behind one, and what leaves the block in hand
\* terminated is a RETURN, with nothing but assignments emitted since.
THEOREM Closing == Spec => []ClosingDiscipline
<1>1. Init => ClosingDiscipline BY ClosingInit
<1>2. IInv /\ ClosingDiscipline /\ [Next]_vars => ClosingDiscipline' BY ClosingNext DEF TInv
<1>3. Spec => []IInv BY Discipline DEF IInv
<1>4. QED BY <1>1, <1>2, <1>3, PTL DEF Spec

\* The emitter leaves no block without a terminator.
THEOREM EveryBlockTerminatedHolds == Spec => []EveryBlockTerminated
<1>1. ClosingDiscipline /\ AllSealedAtEnd /\ TypeOK => EveryBlockTerminated
  BY DEF ClosingDiscipline, AllSealedAtEnd, EveryBlockTerminated, TypeOK
<1>2. QED BY <1>1, Closing, AllSealedAtEndHolds, TypeCorrect, PTL

-----------------------------------------------------------------------------
(* What puts an instruction behind a terminator. *)

\* An instruction emitted for the token at pc goes behind a terminator only if
\* there is a RETURN before it with an assignment, or this token, behind it.
LEMMA StrayBefore ==
  ASSUME TInv, prog \in Programs, NEW op, CanEmit(op), op \notin {"else", "endif"},
         Curr \in closed
  PROVE  \E i \in 1 .. Len(prog) : i < pc /\ StrayReturn(i)
<1>1. pc \in Nat \ {0} /\ Len(prog) \in Nat
  BY ProgramsAreSequences DEF TInv, IInv, TypeOK
<1>2. Idle /\ pc <= Len(prog) /\ prog[pc].op = op BY DEF CanEmit
<1>3. PICK r \in 1 .. pc - 1 :
        prog[r].op = "return" /\ \A i \in r + 1 .. pc - 1 : prog[i].op = "simple"
  BY <1>2 DEF TInv, ClosingDiscipline, BehindReturn
<1>4. r \in 1 .. Len(prog) /\ r < pc /\ r < Len(prog)
      /\ (r + 1 = pc \/ r + 1 \in r + 1 .. pc - 1)
  BY <1>1, <1>2
<1>5. prog[r + 1].op = op \/ prog[r + 1].op = "simple" BY <1>2, <1>3, <1>4
<1>6. StrayReturn(r) BY <1>3, <1>4, <1>5 DEF StrayReturn
<1>7. QED BY <1>4, <1>6

\* A step that puts something behind a terminator needs a RETURN to have been there.
LEMMA BrokenNext ==
  TInv /\ prog \in Programs /\ BrokenOnlyByReturn /\ [Next]_vars => BrokenOnlyByReturn'
<1> SUFFICES ASSUME TInv, prog \in Programs, BrokenOnlyByReturn, [Next]_vars
             PROVE  BrokenOnlyByReturn'
  OBVIOUS
<1>a. pc \in Nat \ {0} /\ Len(prog) \in Nat BY ProgramsAreSequences DEF TInv, IInv, TypeOK
<1>1. prog' = prog /\ pc' \in {pc, pc + 1}
  BY DEF Next, Step, Handler, ControlFlow, Terminated, EmitSimple, EmitCopy, EmitReturn, BeginIf,
         SwitchToElse, EndIf, BeginWhile, BranchWhile, EndWhile, Finish, SealBlock, SetCurr, Consume, vars
<1>2. \A i \in Nat : i < pc => i < pc' BY <1>a, <1>1
<1>3. ASSUME NEW i \in 1 .. Len(prog), i < pc, StrayReturn(i) PROVE BrokenOnlyByReturn'
  <2>1. i \in 1 .. Len(prog') /\ i < pc' BY <1>a, <1>1, <1>2, <1>3
  <2>2. StrayReturn(i)' BY <1>1, <1>3 DEF StrayReturn
  <2>3. QED BY <2>1, <2>2 DEF BrokenOnlyByReturn
<1>4. CASE broken # {} BY <1>3, <1>4 DEF BrokenOnlyByReturn
<1>5. CASE broken' = broken /\ broken = {} BY <1>5 DEF BrokenOnlyByReturn
<1>6. ASSUME NEW op, CanEmit(op), op \notin {"else", "endif"},
             AppendPlain \/ AppendTerminator, broken = {}
      PROVE  BrokenOnlyByReturn'
  <2>1. CASE Curr \in closed BY <1>3, <1>6, <2>1, StrayBefore
  <2>2. CASE Curr \notin closed
    <3>1. broken' = {} BY <1>6, <2>2, Appended
    <3>2. QED BY <3>1 DEF BrokenOnlyByReturn
  <2>3. QED BY <2>1, <2>2
<1>7. CASE EmitSimple BY <1>4, <1>6, <1>7 DEF EmitSimple
<1>8. CASE EmitReturn BY <1>4, <1>6, <1>8 DEF EmitReturn
<1>9. ASSUME NEW hasElse \in BOOLEAN, BeginIf(hasElse) PROVE BrokenOnlyByReturn'
  <2>1. CASE hasElse BY <1>4, <1>6, <1>9, <2>1 DEF BeginIf
  <2>2. CASE ~hasElse BY <1>4, <1>6, <1>9, <2>2 DEF BeginIf
  <2>3. QED BY <2>1, <2>2
<1>10. CASE BeginWhile BY <1>4, <1>6, <1>10 DEF BeginWhile
<1>11. CASE EndWhile BY <1>4, <1>6, <1>11 DEF EndWhile
<1>12. CASE SwitchToElse BY <1>4, <1>5, <1>12, BranchedIfOpen DEF SwitchToElse
<1>13. CASE EndIf BY <1>4, <1>5, <1>13, BranchedIfOpen DEF EndIf
<1>14. CASE BranchWhile
  <2>1. Idle /\ AtWhileCond /\ AppendTerminator BY <1>14 DEF BranchWhile
  <2>2. frames # <<>> /\ Top.body # 0 BY <2>1 DEF AtWhileCond
  <2>3. IInv /\ ClosingDiscipline BY DEF TInv
  <2>4. Curr = Top.cond /\ Curr # 0 BY <2>1, <2>3, CurrNotHeld
  <2>5. frames \in Seq(Frame) BY <2>3 DEF IInv, TypeOK
  <2>6. Len(frames) \in DOMAIN frames /\ Top = frames[Len(frames)]
    BY <2>2, <2>5, StackFacts DEF Top
  <2>7. FrameClosing(Top) BY <2>3, <2>6 DEF ClosingDiscipline
  <2>8. Curr \notin closed BY <2>2, <2>4, <2>7 DEF FrameClosing
  <2>9. broken' = broken BY <2>1, <2>8, Appended
  <2>10. QED BY <1>4, <1>5, <2>9
<1>15. CASE Finish
  <2>1. broken' = broken BY <1>15, Appended DEF Finish
  <2>2. QED BY <1>4, <1>5, <2>1
<1>16. CASE SealBlock \/ SetCurr BY <1>4, <1>5, <1>16 DEF SealBlock, SetCurr
<1>17. CASE EmitCopy \/ UNCHANGED vars BY <1>4, <1>5, <1>17 DEF EmitCopy, vars, skeleton
<1>18. QED
  BY <1>7, <1>8, <1>9, <1>10, <1>11, <1>12, <1>13, <1>14, <1>15, <1>16, <1>17
  DEF Next, Step, Handler, ControlFlow, Terminated

\* Only a RETURN with a statement behind it, or at the end of a loop's body,
\* makes a block with a terminator in its middle.
THEOREM BrokenOnlyByReturnHolds == Spec => []BrokenOnlyByReturn
<1>1. Init => prog \in Programs /\ BrokenOnlyByReturn BY DEF Init, BrokenOnlyByReturn
<1>2. prog \in Programs /\ [Next]_vars => (prog \in Programs)'
  BY DEF Next, Step, Handler, ControlFlow, Terminated, EmitSimple, EmitCopy, EmitReturn, BeginIf,
         SwitchToElse, EndIf, BeginWhile, BranchWhile, EndWhile, Finish, SealBlock, SetCurr, Consume, vars
<1>3. IInv /\ ClosingDiscipline /\ prog \in Programs /\ BrokenOnlyByReturn /\ [Next]_vars
        => BrokenOnlyByReturn'
  BY BrokenNext DEF TInv
<1>4. Spec => []IInv BY Discipline DEF IInv
<1>5. QED BY <1>1, <1>2, <1>3, <1>4, Closing, PTL DEF Spec

\* Every block ends in one terminator, but for what stands behind a RETURN.
THEOREM TerminatedOnceHolds == Spec => []TerminatedOnce
BY EveryBlockTerminatedHolds, BrokenOnlyByReturnHolds, PTL DEF TerminatedOnce

-----------------------------------------------------------------------------

(* Use lists. *)

\* One step of the filter.
Filtered(s, e, p) == IF e = p THEN s ELSE Append(s, e)

\* The recursion that defines Without has a solution, hence is one.
LEMMA WithoutUnfolds ==
  ASSUME NEW S, NEW us \in Seq(S), NEW p
  PROVE  \E f : /\ f[0] = <<>> /\ Without(us, p) = f[Len(us)]
                /\ \A i \in 1 .. Len(us) : f[i] = Filtered(f[i - 1], us[i], p)
<1> DEFINE Filters(f, k) == /\ DOMAIN f = 0 .. k /\ f = [i \in 0 .. k |-> f[i]] /\ f[0] = <<>>
                           /\ \A i \in 1 .. k : f[i] = Filtered(f[i - 1], us[i], p)
           T == {k \in 0 .. Len(us) : ~ \E f : Filters(f, k)}
<1>0. Len(us) \in Nat /\ Len(us) \in 0 .. Len(us)
  OBVIOUS
<1>1. T = {}
  <2> SUFFICES ASSUME T # {} PROVE FALSE
    OBVIOUS
  <2>1. PICK m \in T : \A j \in T : ~ j < m
    <3>1. T \in SUBSET Nat
      OBVIOUS
    <3> HIDE DEF T
    <3> QED
      BY <3>1, LeastNat
  <2>2. CASE m = 0
    <3> DEFINE g == [i \in 0 .. 0 |-> <<>>]
    <3>1. Filters(g, 0)
      OBVIOUS
    <3> QED
      BY <2>1, <2>2, <3>1
  <2>3. CASE m # 0
    <3>0. m \in Nat /\ m - 1 \in 0 .. Len(us) /\ m - 1 < m
      BY <2>3
    <3>1. m - 1 \notin T
      BY <2>1, <3>0
    <3>2. PICK f : Filters(f, m - 1)
      BY <3>0, <3>1
    <3> DEFINE g == [i \in 0 .. m |-> IF i = m THEN Filtered(f[m - 1], us[m], p) ELSE f[i]]
    <3>3. DOMAIN g = 0 .. m /\ g = [i \in 0 .. m |-> g[i]] /\ g[0] = <<>>
      BY <3>0, <3>2
    <3>4. \A i \in 1 .. m : g[i] = Filtered(g[i - 1], us[i], p)
      <4> SUFFICES ASSUME NEW i \in 1 .. m PROVE g[i] = Filtered(g[i - 1], us[i], p)
        OBVIOUS
      <4>1. i - 1 \in 0 .. m - 1 /\ i - 1 # m /\ i \in 0 .. m /\ i - 1 \in 0 .. m
        BY <3>0
      <4>2. g[i - 1] = f[i - 1]
        BY <4>1
      <4>3. CASE i = m
        BY <4>1, <4>2, <4>3
      <4>4. CASE i # m
        <5>1. i \in 1 .. m - 1
          BY <3>0, <4>4
        <5> QED
          BY <3>2, <4>1, <4>2, <4>4, <5>1
      <4> QED
        BY <4>3, <4>4
    <3>5. Filters(g, m)
      BY <3>3, <3>4
    <3> HIDE DEF Filters
    <3> QED
      BY <2>1, <3>5
  <2> QED
    BY <2>2, <2>3
<1>2. PICK f : Filters(f, Len(us))
  <2> HIDE DEF Filters
  <2> QED
    BY <1>0, <1>1
<1> DEFINE upto == CHOOSE g : g = [n \in 0 .. Len(us) |->
             IF n = 0 THEN <<>>
             ELSE IF us[n] = p THEN g[n - 1] ELSE Append(g[n - 1], us[n])]
<1>3. Without(us, p) = upto[Len(us)]
  BY DEF Without
<1>4. f = [n \in 0 .. Len(us) |->
             IF n = 0 THEN <<>>
             ELSE IF us[n] = p THEN f[n - 1] ELSE Append(f[n - 1], us[n])]
  <2>1. \A n \in 0 .. Len(us) : n # 0 => n \in 1 .. Len(us)
    BY <1>0
  <2>2. \A n \in 0 .. Len(us) :
          f[n] = IF n = 0 THEN <<>>
                 ELSE IF us[n] = p THEN f[n - 1] ELSE Append(f[n - 1], us[n])
    BY <1>2, <2>1 DEF Filtered
  <2>3. f = [n \in 0 .. Len(us) |-> f[n]]
    BY <1>2
  <2> HIDE DEF Filters
  <2> QED
    BY <2>2, <2>3
<1>5. upto = [n \in 0 .. Len(us) |->
             IF n = 0 THEN <<>>
             ELSE IF us[n] = p THEN upto[n - 1] ELSE Append(upto[n - 1], us[n])]
  BY <1>4
<1> HIDE DEF upto
<1>6. upto[0] = <<>> /\ \A i \in 1 .. Len(us) : upto[i] = Filtered(upto[i - 1], us[i], p)
  <2>1. 0 \in 0 .. Len(us) /\ \A n \in 1 .. Len(us) : n \in 0 .. Len(us) /\ n # 0
    BY <1>0
  <2>2. \A n \in 0 .. Len(us) :
          upto[n] = IF n = 0 THEN <<>>
                    ELSE IF us[n] = p THEN upto[n - 1] ELSE Append(upto[n - 1], us[n])
    BY <1>5
  <2>3. upto[0] = <<>>
    BY <2>1, <2>2
  <2> QED
    BY <2>1, <2>2, <2>3 DEF Filtered
<1> QED
  BY <1>3, <1>6

\* Without leaves nothing but members of the list, and p not at all.
LEMMA WithoutMembers ==
  ASSUME NEW S, NEW us \in Seq(S), NEW p
  PROVE  /\ Without(us, p) \in Seq(S)
         /\ \A i \in DOMAIN Without(us, p) :
              Without(us, p)[i] # p /\ \E j \in DOMAIN us : us[j] = Without(us, p)[i]
<1>1. PICK f : /\ f[0] = <<>> /\ Without(us, p) = f[Len(us)]
               /\ \A i \in 1 .. Len(us) : f[i] = Filtered(f[i - 1], us[i], p)
  BY WithoutUnfolds
<1> DEFINE Members(s) == s \in Seq(S) /\ \A i \in DOMAIN s :
             s[i] # p /\ \E j \in DOMAIN us : us[j] = s[i]
           T == {k \in 0 .. Len(us) : ~Members(f[k])}
<1>2. Len(us) \in Nat /\ Len(us) \in 0 .. Len(us)
  OBVIOUS
<1>3. T = {}
  <2> SUFFICES ASSUME T # {} PROVE FALSE
    OBVIOUS
  <2>1. PICK m \in T : \A j \in T : ~ j < m
    <3>1. T \in SUBSET Nat
      OBVIOUS
    <3> HIDE DEF T
    <3> QED
      BY <3>1, LeastNat
  <2>2. m # 0
    <3>1. Members(<<>>)
      OBVIOUS
    <3> QED
      BY <1>1, <2>1, <3>1
  <2>3. m \in 1 .. Len(us) /\ m - 1 \in 0 .. Len(us) /\ m - 1 < m
    BY <1>2, <2>1, <2>2
  <2>4. Members(f[m - 1])
    BY <2>1, <2>3
  <2>5. f[m] = Filtered(f[m - 1], us[m], p)
    BY <1>1, <2>3
  <2>6. CASE us[m] = p
    BY <2>1, <2>4, <2>5, <2>6 DEF Filtered
  <2>7. CASE us[m] # p
    <3> DEFINE s == f[m - 1]
               t == Append(s, us[m])
    <3>1. s \in Seq(S) /\ us[m] \in S /\ m \in DOMAIN us /\ f[m] = t
      BY <2>3, <2>4, <2>5, <2>7 DEF Filtered
    <3>2. /\ t \in Seq(S) /\ DOMAIN t = 1 .. Len(s) + 1 /\ DOMAIN s = 1 .. Len(s) /\ Len(s) \in Nat
          /\ t[Len(s) + 1] = us[m] /\ \A i \in 1 .. Len(s) : t[i] = s[i]
      BY <3>1, AppendProperties
    <3>3. Members(s)
      BY <2>4
    <3> HIDE DEF s, t
    <3>4. \A i \in DOMAIN t : i = Len(s) + 1 \/ i \in DOMAIN s
      BY <3>2
    <3>5. Members(t)
      BY <2>7, <3>1, <3>2, <3>3, <3>4
    <3> QED
      BY <2>1, <3>1, <3>5
  <2> QED
    BY <2>6, <2>7
<1>4. Members(f[Len(us)])
  BY <1>2, <1>3
<1> QED
  BY <1>1, <1>4

-----------------------------------------------------------------------------
(* How often q stands in s. *)

Positions(s, q) == {i \in DOMAIN s : s[i] = q}
Count(s, q) == Cardinality(Positions(s, q))

\* Where a node occurs in a list is a finite set of positions.
LEMMA PositionsFinite ==
  ASSUME NEW S, NEW s \in Seq(S), NEW q
  PROVE  IsFiniteSet(Positions(s, q)) /\ Count(s, q) \in Nat /\ (Count(s, q) = 0 <=> Positions(s, q) = {})
<1>1. IsFiniteSet(1 .. Len(s)) /\ Positions(s, q) \in SUBSET (1 .. Len(s))
  <2>1. Len(s) \in Int /\ 1 \in Int
    OBVIOUS
  <2> QED
    BY <2>1, FS_Interval DEF Positions
<1>2. IsFiniteSet(Positions(s, q))
  BY <1>1, FS_Subset
<1> QED
  BY <1>2, FS_CardinalityType, FS_EmptySet DEF Count

\* One more element at the end.
LEMMA CountAppend ==
  ASSUME NEW S, NEW s \in Seq(S), NEW e \in S, NEW q
  PROVE  Count(Append(s, e), q) = IF e = q THEN Count(s, q) + 1 ELSE Count(s, q)
<1>1. /\ DOMAIN Append(s, e) = 1 .. Len(s) + 1 /\ DOMAIN s = 1 .. Len(s) /\ Len(s) \in Nat
      /\ Append(s, e)[Len(s) + 1] = e /\ \A i \in 1 .. Len(s) : Append(s, e)[i] = s[i]
  BY AppendProperties
<1>2. Len(s) + 1 \notin Positions(s, q)
  BY <1>1 DEF Positions
<1>3. CASE e = q
  <2>1. Positions(Append(s, e), q) = Positions(s, q) \cup {Len(s) + 1}
    BY <1>1, <1>3 DEF Positions
  <2>2. IsFiniteSet(Positions(s, q))
    BY PositionsFinite
  <2>3. Cardinality(Positions(s, q) \cup {Len(s) + 1}) = Cardinality(Positions(s, q)) + 1
    BY <1>2, <2>2, FS_AddElement
  <2> QED
    BY <1>3, <2>1, <2>3 DEF Count
<1>4. CASE e # q
  <2>1. Positions(Append(s, e), q) = Positions(s, q)
    BY <1>1, <1>4 DEF Positions
  <2> QED
    BY <1>4, <2>1 DEF Count
<1> QED
  BY <1>3, <1>4

\* Positions that correspond one to one are equally many.
LEMMA SameCount ==
  ASSUME NEW P, NEW Q, NEW f, IsFiniteSet(P), f \in [P -> Q],
         \A i, j \in P : f[i] = f[j] => i = j, \A k \in Q : \E i \in P : f[i] = k
  PROVE  IsFiniteSet(Q) /\ Cardinality(Q) = Cardinality(P)
<1>1. f \in Injection(P, Q) /\ f \in Surjection(P, Q)
  BY DEF Injection, Surjection, IsInjective
<1> QED
  BY <1>1, FS_Bijection DEF ExistsBijection, Bijection

\* Reversing a list changes no count.
LEMMA CountReverse ==
  ASSUME NEW S, NEW s \in Seq(S), NEW q
  PROVE  Count(Reverse(s), q) = Count(s, q)
<1> DEFINE n == Len(s)
           f == [i \in Positions(s, q) |-> n + 1 - i]
<1>1. n \in Nat /\ DOMAIN s = 1 .. n
  OBVIOUS
<1>2. DOMAIN Reverse(s) = 1 .. n /\ \A i \in 1 .. n : Reverse(s)[i] = s[n + 1 - i]
  BY <1>1 DEF Reverse
<1> HIDE DEF n
<1>3. \A i \in Positions(s, q) : f[i] \in Positions(Reverse(s), q)
  BY <1>1, <1>2 DEF Positions
<1>4. \A k \in Positions(Reverse(s), q) : n + 1 - k \in Positions(s, q) /\ f[n + 1 - k] = k
  BY <1>1, <1>2 DEF Positions
<1>5. \A i, j \in Positions(s, q) : f[i] = f[j] => i = j
  BY <1>1 DEF Positions
<1>6. f \in [Positions(s, q) -> Positions(Reverse(s), q)]
  BY <1>3
<1>7. \A k \in Positions(Reverse(s), q) : \E i \in Positions(s, q) : f[i] = k
  BY <1>4
<1>8. IsFiniteSet(Positions(s, q))
  BY PositionsFinite
<1> HIDE DEF f
<1> QED
  BY <1>5, <1>6, <1>7, <1>8, SameCount DEF Count

\* The counts of a concatenation add up.
LEMMA CountConcat ==
  ASSUME NEW S, NEW s \in Seq(S), NEW t \in Seq(S), NEW q
  PROVE  Count(s \o t, q) = Count(s, q) + Count(t, q)
<1> DEFINE n == Len(s)
           Q == {i \in DOMAIN (s \o t) : i > n /\ (s \o t)[i] = q}
           f == [i \in Positions(t, q) |-> n + i]
<1>1. /\ n \in Nat /\ Len(t) \in Nat /\ DOMAIN s = 1 .. n /\ DOMAIN t = 1 .. Len(t)
      /\ DOMAIN (s \o t) = 1 .. n + Len(t)
      /\ \A i \in 1 .. n : (s \o t)[i] = s[i]
      /\ \A i \in n + 1 .. n + Len(t) : (s \o t)[i] = t[i - n]
  <2>1. Len(s \o t) = n + Len(t) /\ s \o t \in Seq(S)
    BY ConcatProperties
  <2> QED
    BY <2>1
<1> HIDE DEF n
<1>2. Positions(s \o t, q) = Positions(s, q) \cup Q /\ Positions(s, q) \cap Q = {}
  BY <1>1 DEF Positions
<1>3. Cardinality(Q) = Count(t, q) /\ IsFiniteSet(Q)
  <2>1. \A i \in Positions(t, q) : n + i \in n + 1 .. n + Len(t) /\ n + i - n = i
    BY <1>1 DEF Positions
  <2>2. f \in [Positions(t, q) -> Q]
    <3> SUFFICES ASSUME NEW i \in Positions(t, q) PROVE n + i \in Q
      OBVIOUS
    <3>1. n + i \in 1 .. n + Len(t) /\ n + i > n /\ n + i \in n + 1 .. n + Len(t) /\ (n + i) - n = i
      BY <1>1 DEF Positions
    <3>2. (s \o t)[n + i] = q
      BY <1>1, <3>1 DEF Positions
    <3> QED
      BY <1>1, <3>1, <3>2
  <2>3. \A k \in Q : k - n \in Positions(t, q) /\ f[k - n] = k
    <3> SUFFICES ASSUME NEW k \in Q PROVE k - n \in Positions(t, q) /\ n + (k - n) = k
      OBVIOUS
    <3>1. k \in n + 1 .. n + Len(t) /\ k - n \in 1 .. Len(t) /\ n + (k - n) = k
      BY <1>1
    <3> QED
      BY <1>1, <3>1 DEF Positions
  <2>4. \A i, j \in Positions(t, q) : f[i] = f[j] => i = j
    BY <1>1 DEF Positions
  <2> HIDE DEF f, Q
  <2> QED
    BY <2>2, <2>3, <2>4, PositionsFinite, SameCount DEF Count
<1> HIDE DEF Q
<1>4. Cardinality(Positions(s, q) \cap Q) = 0
  BY <1>2, FS_EmptySet
<1>5. Cardinality(Positions(s \o t, q)) = Cardinality(Positions(s, q)) + Cardinality(Q) - 0
  BY <1>2, <1>3, <1>4, PositionsFinite, FS_Union
<1> QED
  BY <1>3, <1>5, PositionsFinite DEF Count

\* Filtering out p changes the count of nothing else.
LEMMA CountWithout ==
  ASSUME NEW S, NEW us \in Seq(S), NEW p, NEW q
  PROVE  Count(Without(us, p), q) = IF q = p THEN 0 ELSE Count(us, q)
<1>1. CASE q = p
  <2>1. Positions(Without(us, p), q) = {}
    BY <1>1, WithoutMembers DEF Positions
  <2> QED
    BY <1>1, <2>1, FS_EmptySet DEF Count
<1>2. CASE q # p
  <2>1. PICK f : /\ f[0] = <<>> /\ Without(us, p) = f[Len(us)]
                 /\ \A i \in 1 .. Len(us) : f[i] = Filtered(f[i - 1], us[i], p)
    BY WithoutUnfolds
  <2> DEFINE Upto(k) == {i \in 1 .. k : us[i] = q}
             Kept(k) == f[k] \in Seq(S) /\ Count(f[k], q) = Cardinality(Upto(k))
             T == {k \in 0 .. Len(us) : ~Kept(k)}
  <2>2. Len(us) \in Nat /\ Len(us) \in 0 .. Len(us)
    OBVIOUS
  <2>3. T = {}
    <3> SUFFICES ASSUME T # {} PROVE FALSE
      OBVIOUS
    <3>1. PICK m \in T : \A j \in T : ~ j < m
      <4>1. T \in SUBSET Nat
        OBVIOUS
      <4> HIDE DEF T
      <4> QED
        BY <4>1, LeastNat
    <3>2. m # 0
      <4>1. Upto(0) = {} /\ Positions(<<>>, q) = {}
        BY DEF Positions
      <4>2. Count(<<>>, q) = Cardinality({}) /\ Cardinality(Upto(0)) = Cardinality({})
        BY <4>1 DEF Count
      <4>3. <<>> \in Seq(S)
        OBVIOUS
      <4> HIDE DEF Upto
      <4>4. Kept(0)
        BY <2>1, <4>2, <4>3
      <4> QED
        BY <3>1, <4>4
    <3>3. m \in 1 .. Len(us) /\ m - 1 \in 0 .. Len(us) /\ m - 1 < m /\ m \in Nat
      BY <2>2, <3>1, <3>2
    <3>4. Kept(m - 1) /\ us[m] \in S
      BY <3>1, <3>3
    <3>5. f[m] = Filtered(f[m - 1], us[m], p)
      BY <2>1, <3>3
    <3>6. IsFiniteSet(Upto(m - 1)) /\ Cardinality(Upto(m - 1)) \in Nat
      <4>1. IsFiniteSet(1 .. m - 1)
        BY <3>3, FS_Interval
      <4> QED
        BY <4>1, FS_Subset, FS_CardinalityType
    <3>7. Upto(m) = IF us[m] = q THEN Upto(m - 1) \cup {m} ELSE Upto(m - 1)
      <4>1. 1 .. m = (1 .. m - 1) \cup {m}
        BY <3>3
      <4> QED
        BY <4>1
    <3>8. Cardinality(Upto(m)) = IF us[m] = q THEN Cardinality(Upto(m - 1)) + 1 ELSE Cardinality(Upto(m - 1))
      <4>1. m \notin Upto(m - 1)
        BY <3>3
      <4> HIDE DEF Upto
      <4> QED
        BY <3>6, <3>7, <4>1, FS_AddElement
    <3> HIDE DEF Upto
    <3>9. Kept(m)
      <4>1. CASE us[m] = p
        BY <1>2, <3>4, <3>5, <3>8, <4>1 DEF Filtered
      <4>2. CASE us[m] # p
        <5>1. f[m] = Append(f[m - 1], us[m]) /\ f[m] \in Seq(S)
          BY <3>4, <3>5, <4>2, AppendProperties DEF Filtered
        <5>2. Count(f[m], q) = IF us[m] = q THEN Count(f[m - 1], q) + 1 ELSE Count(f[m - 1], q)
          BY <3>4, <5>1, CountAppend
        <5> QED
          BY <3>4, <3>8, <5>1, <5>2
      <4> QED
        BY <4>1, <4>2
    <3> QED
      BY <3>1, <3>9
  <2>4. Kept(Len(us))
    BY <2>2, <2>3
  <2>5. Upto(Len(us)) = Positions(us, q)
    BY DEF Positions
  <2> QED
    BY <1>2, <2>1, <2>4, <2>5 DEF Count
<1> QED
  BY <1>1, <1>2

-----------------------------------------------------------------------------
(* Types. *)
Value == {Undef} \cup ({"phi", "inst", "load"} \X Nat) \cup ({"arg"} \X Decls)
Table == UNION {[D -> Value] : D \in SUBSET Decls}
PhiNode == [block : Nat, decl : Decls, ops : Seq([val : Value, from : Nat])]
Activation ==
  [fn : {"readLocalVariable", "writeLocalVariable"}, block : Nat, decl : Decls]
    \cup [fn : {"addPhiOperands"}, phi : Nat, decl : Decls, todo : Seq(Nat)]
    \cup [fn : {"optimizePhi"}, phi : Nat]
    \cup [fn : {"candidates"}, todo : Seq(Nat), same : Value]
    \cup [fn : {"sealBlock"}, block : Nat, todo : SUBSET (Nat \X Decls)]

\* What refers to a phi, block or token refers to one that exists.
Known(v, P) == IsPhi(v) => v[2] \in P
Within(s, S) == \A i \in DOMAIN s : s[i] \in S

BodyOK == prog \in Seq(TokenOf) /\ \A i \in DOMAIN frames : frames[i].at \in DOMAIN prog
DefOK ==
  /\ def \in [Block -> Table]
  /\ \A b \in Block : \A d \in DOMAIN def[b] : Known(def[b][d], DOMAIN phis)
IncOK ==
  /\ inc \in [Block -> SUBSET (Nat \X Decls)]
  /\ \A b \in Block : \A e \in inc[b] : e[1] \in DOMAIN phis
PhisOK ==
  /\ phis \in Seq(PhiNode)
  /\ \A p \in DOMAIN phis :
       /\ phis[p].block \in Block
       /\ \A i \in DOMAIN phis[p].ops : Known(phis[p].ops[i].val, DOMAIN phis)
UsersOK ==
  /\ users \in Seq(Seq(Nat)) /\ Len(users) = Len(phis)
  /\ \A p \in DOMAIN users : Within(users[p], DOMAIN phis)
CodeOK == code \in [Block -> Seq(DOMAIN prog)]
UsesOK == \A i \in DOMAIN uses : uses[i] \in Value /\ Known(uses[i], DOMAIN phis)
RetOK == ret \in Value \cup {<<>>} /\ Known(ret, DOMAIN phis)
CallOK(c, B, P) ==
  /\ c.fn \in {"readLocalVariable", "writeLocalVariable", "sealBlock"} => c.block \in B
  /\ c.fn \in {"addPhiOperands", "optimizePhi"} => c.phi \in P
  /\ c.fn = "addPhiOperands" => Within(c.todo, B)
  /\ c.fn = "candidates" => Within(c.todo, P) /\ Known(c.same, P)
  /\ c.fn = "sealBlock" => \A e \in c.todo : e[1] \in P
\* addPhiOperands waits for a value only while it has a predecessor to do.
CallsOK ==
  /\ calls \in Seq(Activation)
  /\ \A i \in DOMAIN calls :
       /\ CallOK(calls[i], Block, DOMAIN phis)
       /\ FilledBy(calls[i]) /\ (i > 1 \/ ret # <<>>) => calls[i].todo # <<>>
ErasedOK == erased \subseteq DOMAIN phis /\ dangling \in BOOLEAN

Types ==
  BodyOK /\ DefOK /\ IncOK /\ PhisOK /\ UsersOK /\ CodeOK /\ UsesOK /\ RetOK /\ CallsOK /\ ErasedOK
SSAInv == TypeOK /\ SealingDiscipline /\ Types

-----------------------------------------------------------------------------
\* The kinds of values are disjoint, and a phi is known by its number.
LEMMA ValueFacts ==
  /\ \A v \in Value : IsPhi(v) => v = Phi(v[2]) /\ v[2] \in Nat
  /\ ~IsPhi(<<>>) /\ ~IsPhi(Undef) /\ <<>> \notin Value /\ Undef \in Value
  /\ \A i : ~IsPhi(Inst(i)) /\ ~IsPhi(Load(i)) /\ ~IsPhi(Arg(i))
  /\ \A i \in Nat : Inst(i) \in Value /\ Load(i) \in Value /\ Phi(i) \in Value
  /\ \A d \in Decls : Arg(d) \in Value
  /\ \A p : IsPhi(Phi(p)) /\ Phi(p)[2] = p /\ \A q : Phi(p) = Phi(q) => p = q
<1>1. \A v \in Value : IsPhi(v) => v = Phi(v[2]) /\ v[2] \in Nat
  BY DEF Value, IsPhi, Phi, Undef
<1>2. ~IsPhi(<<>>) /\ ~IsPhi(Undef) /\ <<>> \notin Value /\ Undef \in Value
  BY DEF Value, IsPhi, Undef
<1>3. \A i : ~IsPhi(Inst(i)) /\ ~IsPhi(Load(i)) /\ ~IsPhi(Arg(i))
  BY DEF IsPhi, Inst, Load, Arg
<1>4. \A i \in Nat : Inst(i) \in Value /\ Load(i) \in Value /\ Phi(i) \in Value
  BY DEF Value, Inst, Load, Phi
<1>5. \A d \in Decls : Arg(d) \in Value
  BY DEF Value, Arg
<1>6. \A p : IsPhi(Phi(p)) /\ Phi(p)[2] = p /\ \A q : Phi(p) = Phi(q) => p = q
  BY DEF IsPhi, Phi
<1> QED
  BY <1>1, <1>2, <1>3, <1>4, <1>5, <1>6

\* What exists goes on existing.
LEMMA KnownGrows ==
  ASSUME NEW v, Known(v, DOMAIN phis), DOMAIN phis \subseteq DOMAIN phis'
  PROVE  Known(v, DOMAIN phis')
BY DEF Known

\* What a table holds after an entry is written, and that it stays a table.
LEMMA MappedFacts ==
  ASSUME NEW t \in Table, NEW d \in Decls, NEW v \in Value
  PROVE  /\ Mapped(t, d, v) \in Table
         /\ DOMAIN Mapped(t, d, v) = DOMAIN t \cup {d}
         /\ Mapped(t, d, v)[d] = v
         /\ \A e \in DOMAIN t : e # d => Mapped(t, d, v)[e] = t[e]
<1>1. PICK D \in SUBSET Decls : t \in [D -> Value]
  BY DEF Table
<1>2. Mapped(t, d, v) \in [D \cup {d} -> Value] /\ D \cup {d} \in SUBSET Decls
  BY <1>1 DEF Mapped
<1>3. Mapped(t, d, v) \in Table
  BY <1>2 DEF Table
<1> QED
  BY <1>1, <1>3 DEF Mapped

\* The empty table is a table, and so is what is defined at the entry.
LEMMA TableFacts ==
  /\ <<>> \in Table
  /\ \A t \in Table : DOMAIN t \subseteq Decls /\ \A d \in DOMAIN t : t[d] \in Value
<1>1. <<>> \in [{} -> Value]
  OBVIOUS
<1>2. <<>> \in Table
  BY <1>1 DEF Table
<1>3. \A t \in Table : \E D \in SUBSET Decls : t \in [D -> Value]
  BY DEF Table
<1>4. \A t \in Table : DOMAIN t \subseteq Decls /\ \A d \in DOMAIN t : t[d] \in Value
  BY <1>3
<1> QED
  BY <1>2, <1>4

\* A function on 1 .. n is a sequence of length n.
LEMMA FunctionIsSeq ==
  ASSUME NEW S, NEW k \in Nat, NEW f \in [1 .. k -> S]
  PROVE  f \in Seq(S) /\ Len(f) = k
OBVIOUS

OnBlocks(t, S) == t \in [Block -> S]

\* Extend(table, empty) is the table with an empty entry per new block.
LEMMA ExtendFacts ==
  ASSUME NEW S, NEW table, OnBlocks(table, S), NEW empty \in S,
         last \in Nat, last' \in Nat, last <= last'
  PROVE  /\ Extend(table, empty) \in [Block' -> S]
         /\ \A b \in Block : Extend(table, empty)[b] = table[b]
         /\ \A b \in Block' \ Block : Extend(table, empty)[b] = empty
<1> DEFINE n == last'
           k == n - last
           new == [i \in 1 .. k |-> empty]
           all == Extend(table, empty)
<1>0. n \in Nat /\ last <= n
  OBVIOUS
<1>1. last \in Nat /\ n \in Nat /\ k \in Nat /\ k = n - last
  <2> HIDE DEF n
  <2> QED
    BY <1>0
<1>2. Block' = 1 .. n /\ Block = 1 .. last
  BY DEF Block
<1>3. all = table \o new
  BY DEF Extend
<1> HIDE DEF n, k, all
<1>4. new \in [1 .. k -> S] /\ \A i \in 1 .. k : new[i] = empty
  OBVIOUS
<1> HIDE DEF new
<1>5. new \in Seq(S) /\ Len(new) = k /\ table \in Seq(S) /\ Len(table) = last
  BY <1>1, <1>2, <1>4, FunctionIsSeq DEF OnBlocks
<1>6. Len(table) + Len(new) = n
  BY <1>1, <1>5
<1>7. /\ all \in Seq(S) /\ Len(all) = n
      /\ \A b \in 1 .. n : all[b] = IF b <= last THEN table[b] ELSE new[b - last]
  BY <1>3, <1>5, <1>6, ConcatProperties
<1>8. \A b \in last + 1 .. n : b - last \in 1 .. k /\ ~(b <= last) /\ b \in 1 .. n
  BY <1>1
<1>9. all \in [1 .. n -> S]
  BY <1>7, LenProperties
<1>10. \A b \in Block' \ Block : all[b] = empty
  <2>1. Block' \ Block \subseteq last + 1 .. n
    BY <1>1, <1>2
  <2> QED
    BY <1>4, <1>7, <1>8, <2>1
<1>11. \A b \in 1 .. last : all[b] = table[b]
  <2>1. \A b \in 1 .. last : b \in 1 .. n
    BY <1>1 DEF k
  <2> QED
    BY <1>1, <1>7, <2>1
<1> QED
  BY <1>2, <1>9, <1>10, <1>11 DEF all

-----------------------------------------------------------------------------
\* Activations by function.
LEMMA ActivationFacts ==
  ASSUME NEW c \in Activation
  PROVE  /\ c.fn \in {"readLocalVariable", "writeLocalVariable"} => c.block \in Nat /\ c.decl \in Decls
         /\ c.fn = "addPhiOperands" => c.phi \in Nat /\ c.decl \in Decls /\ c.todo \in Seq(Nat)
         /\ c.fn = "optimizePhi" => c.phi \in Nat
         /\ c.fn = "candidates" => c.todo \in Seq(Nat) /\ c.same \in Value
         /\ c.fn = "sealBlock" => c.block \in Nat /\ c.todo \in SUBSET (Nat \X Decls)
BY DEF Activation

\* The activations the steps push are activations.
LEMMA NewActivations ==
  /\ \A b \in Nat, d \in Decls : ReadCall(b, d) \in Activation /\ WriteBackCall(b, d) \in Activation
  /\ \A p \in Nat, d \in Decls, s \in Seq(Nat) : FillCall(p, d, s) \in Activation
  /\ \A p \in Nat : OptimizeCall(p) \in Activation
  /\ \A s \in Seq(Nat), v \in Value : CandidatesCall(s, v) \in Activation
  /\ \A b \in Nat, S \in SUBSET (Nat \X Decls) : SealCall(b, S) \in Activation
BY DEF Activation, ReadCall, WriteBackCall, FillCall, OptimizeCall, CandidatesCall, SealCall

\* The running activation.
LEMMA Running_ ==
  ASSUME CallsOK, calls # <<>>
  PROVE  /\ Call \in Activation /\ CallOK(Call, Block, DOMAIN phis) /\ Call = calls[1] /\ 1 \in DOMAIN calls
         /\ DOMAIN calls = 1 .. Len(calls) /\ Len(calls) \in Nat \ {0} /\ Tail(calls) \in Seq(Activation)
         /\ FilledBy(Call) /\ ret # <<>> => Call.todo # <<>>
BY DEF CallsOK, Call

\* The running activation goes on as the activations cs, none if it returns.
LEMMA Stacked ==
  ASSUME CallsOK, calls # <<>>, NEW cs \in Seq(Activation), NEW all, all = cs \o Tail(calls)
  PROVE  /\ all \in Seq(Activation) /\ Len(all) = Len(cs) + Len(calls) - 1 /\ DOMAIN all = 1 .. Len(all)
         /\ \A i \in DOMAIN all :
              \/ i \in DOMAIN cs /\ all[i] = cs[i]
              \/ i > Len(cs) /\ i - Len(cs) + 1 \in DOMAIN calls /\ i - Len(cs) + 1 > 1
                 /\ all[i] = calls[i - Len(cs) + 1]
<1>1. /\ Tail(calls) \in Seq(Activation) /\ Len(Tail(calls)) = Len(calls) - 1
      /\ \A i \in 1 .. Len(calls) - 1 : Tail(calls)[i] = calls[i + 1]
      /\ Len(calls) \in Nat \ {0} /\ DOMAIN calls = 1 .. Len(calls)
      /\ Len(cs) \in Nat /\ DOMAIN cs = 1 .. Len(cs)
  BY HeadTailProperties DEF CallsOK
<1>2. /\ all \in Seq(Activation) /\ Len(all) = Len(cs) + (Len(calls) - 1)
      /\ \A i \in 1 .. Len(cs) + (Len(calls) - 1) :
           all[i] = IF i <= Len(cs) THEN cs[i] ELSE Tail(calls)[i - Len(cs)]
  BY <1>1, ConcatProperties
<1>3. DOMAIN all = 1 .. Len(all) /\ Len(all) = Len(cs) + Len(calls) - 1
  BY <1>1, <1>2
<1>4. ASSUME NEW i \in DOMAIN all
      PROVE  \/ i \in DOMAIN cs /\ all[i] = cs[i]
             \/ i > Len(cs) /\ i - Len(cs) + 1 \in DOMAIN calls /\ i - Len(cs) + 1 > 1
                /\ all[i] = calls[i - Len(cs) + 1]
  <2>1. CASE i <= Len(cs)
    BY <1>1, <1>2, <1>3, <2>1
  <2>2. CASE ~(i <= Len(cs))
    <3>1. i - Len(cs) \in 1 .. Len(calls) - 1 /\ i > Len(cs) /\ i - Len(cs) + 1 \in 1 .. Len(calls)
      BY <1>1, <1>3, <2>2
    <3>2. all[i] = Tail(calls)[i - Len(cs)]
      BY <1>2, <1>3, <2>2
    <3> QED
      BY <1>1, <3>1, <3>2
  <2> QED
    BY <2>1, <2>2
<1> QED
  BY <1>2, <1>3, <1>4

\* What the steps leave alone keeps its type.
LEMMA PartsKeep ==
  ASSUME Types, UNCHANGED <<prog, last>>, DOMAIN phis \subseteq DOMAIN phis'
  PROVE  /\ frames' = frames => BodyOK'
         /\ def' = def => DefOK'
         /\ inc' = inc => IncOK'
         /\ phis' = phis => PhisOK'
         /\ users' = users /\ Len(phis') = Len(phis) => UsersOK'
         /\ code' = code => CodeOK'
         /\ uses' = uses => UsesOK'
         /\ ret' = ret => RetOK'
         /\ erased' = erased /\ dangling' \in BOOLEAN => ErasedOK'
         /\ \A c : CallOK(c, Block, DOMAIN phis) => CallOK(c, Block', DOMAIN phis')
<1>0. \A v : Known(v, DOMAIN phis) => Known(v, DOMAIN phis')
  BY DEF Known
<1>1. Block' = Block
  BY DEF Block
<1>2. frames' = frames => BodyOK'
  BY DEF BodyOK, Types
<1>3. def' = def => DefOK'
  BY <1>0, <1>1 DEF DefOK, Types
<1>4. inc' = inc => IncOK'
  BY <1>1 DEF IncOK, Types
<1>5. phis' = phis => PhisOK'
  BY <1>0, <1>1 DEF PhisOK, Types
<1>6. users' = users /\ Len(phis') = Len(phis) => UsersOK'
  BY DEF UsersOK, Types, Within
<1>7. (code' = code => CodeOK') /\ (uses' = uses => UsesOK') /\ (ret' = ret => RetOK')
  BY <1>0, <1>1 DEF CodeOK, UsesOK, RetOK, Types
<1>8. erased' = erased /\ dangling' \in BOOLEAN => ErasedOK'
  BY DEF ErasedOK, Types
<1>9. \A c : CallOK(c, Block, DOMAIN phis) => CallOK(c, Block', DOMAIN phis')
  BY <1>0, <1>1 DEF CallOK, Within
<1> QED
  BY <1>2, <1>3, <1>4, <1>5, <1>6, <1>7, <1>8, <1>9

-----------------------------------------------------------------------------
\* The stack after the running activation went on as cs.
LEMMA CallsContinue ==
  ASSUME CallsOK, calls # <<>>, NEW cs \in Seq(Activation), calls' = cs \o Tail(calls),
         \A c : CallOK(c, Block, DOMAIN phis) => CallOK(c, Block', DOMAIN phis'),
         \A i \in DOMAIN cs : CallOK(cs[i], Block', DOMAIN phis'),
         \A i \in DOMAIN cs : FilledBy(cs[i]) => cs[i].todo # <<>> \/ (i = 1 /\ ret' = <<>>)
  PROVE  CallsOK'
<1> DEFINE all == calls'
           r == ret'
<1>1. /\ all \in Seq(Activation) /\ Len(all) = Len(cs) + Len(calls) - 1 /\ DOMAIN all = 1 .. Len(all)
      /\ \A i \in DOMAIN all :
           \/ i \in DOMAIN cs /\ all[i] = cs[i]
           \/ i > Len(cs) /\ i - Len(cs) + 1 \in DOMAIN calls /\ i - Len(cs) + 1 > 1
              /\ all[i] = calls[i - Len(cs) + 1]
  BY Stacked
<1>2. ASSUME NEW i \in DOMAIN all
      PROVE  CallOK(all[i], Block', DOMAIN phis') /\ (FilledBy(all[i]) /\ (i > 1 \/ r # <<>>) => all[i].todo # <<>>)
  <2>1. CASE i \in DOMAIN cs /\ all[i] = cs[i]
    <3>1. CallOK(all[i], Block', DOMAIN phis')
      BY <2>1
    <3>2. FilledBy(all[i]) => all[i].todo # <<>> \/ (i = 1 /\ r = <<>>)
      BY <2>1
    <3> QED
      BY <3>1, <3>2
  <2>2. CASE i - Len(cs) + 1 \in DOMAIN calls /\ i - Len(cs) + 1 > 1 /\ all[i] = calls[i - Len(cs) + 1]
    <3>1. PICK j \in DOMAIN calls : j > 1 /\ all[i] = calls[j]
      BY <2>2
    <3>2. CallOK(all[i], Block', DOMAIN phis')
      BY <3>1 DEF CallsOK
    <3>3. FilledBy(all[i]) => all[i].todo # <<>>
      BY <3>1 DEF CallsOK
    <3> QED
      BY <3>2, <3>3
  <2> QED
    BY <1>1, <2>1, <2>2
<1> QED
  BY <1>1, <1>2 DEF CallsOK, FilledBy

\* The stack after the running activation returned.
LEMMA CallsReturn ==
  ASSUME CallsOK, calls # <<>>, calls' = Tail(calls), \A c : CallOK(c, Block, DOMAIN phis) => CallOK(c, Block', DOMAIN phis')
  PROVE  CallsOK'
<1>1. <<>> \in Seq(Activation) /\ DOMAIN <<>> = {} /\ calls' = <<>> \o Tail(calls)
  <2>1. Tail(calls) \in Seq(Activation)
    BY Running_
  <2> QED
    BY <2>1
<1> QED
  BY <1>1, CallsContinue

\* A phi is created.
LEMMA NewPhi ==
  ASSUME Types, last' = last, NEW b \in Block, NEW d \in Decls, AddEmptyPhi(b, d)
  PROVE  /\ PhisOK' /\ UsersOK' /\ DOMAIN phis \subseteq DOMAIN phis'
         /\ Len(phis) + 1 \in DOMAIN phis' /\ Len(phis) \in Nat
         /\ Known(Phi(Len(phis) + 1), DOMAIN phis') /\ Phi(Len(phis) + 1) \in Value
         /\ phis'[Len(phis) + 1] = [block |-> b, decl |-> d, ops |-> <<>>]
         /\ users'[Len(phis) + 1] = <<>>
         /\ \A p \in DOMAIN phis : phis'[p] = phis[p] /\ users'[p] = users[p]
         /\ DOMAIN phis' = DOMAIN phis \cup {Len(phis) + 1}
<1> DEFINE new == [block |-> b, decl |-> d, ops |-> <<>>]
           n == Len(phis)
           ps == phis'
           us == users'
<1>1. phis \in Seq(PhiNode) /\ users \in Seq(Seq(Nat)) /\ Len(users) = n /\ n \in Nat
  BY DEF Types, PhisOK, UsersOK
<1>2. new \in PhiNode /\ <<>> \in Seq(Nat)
  BY DEF PhiNode, Block
<1>3. ps = Append(phis, new) /\ us = Append(users, <<>>)
  BY DEF AddEmptyPhi
<1> HIDE DEF new, ps, us, n
<1>4. /\ ps \in Seq(PhiNode) /\ Len(ps) = n + 1 /\ DOMAIN ps = 1 .. n + 1
      /\ ps[n + 1] = new /\ \A p \in 1 .. n : ps[p] = phis[p]
  BY <1>1, <1>2, <1>3, AppendProperties DEF n
<1>5. /\ us \in Seq(Seq(Nat)) /\ Len(us) = n + 1 /\ DOMAIN us = 1 .. n + 1
      /\ us[n + 1] = <<>> /\ \A p \in 1 .. n : us[p] = users[p]
  BY <1>1, <1>2, <1>3, AppendProperties DEF n
<1>6. DOMAIN phis = 1 .. n /\ DOMAIN users = 1 .. n /\ 1 .. n + 1 = 1 .. n \cup {n + 1}
  BY <1>1 DEF n
<1>7. DOMAIN phis \subseteq DOMAIN ps /\ n + 1 \in DOMAIN ps
  BY <1>4, <1>6
<1>8. \A v : Known(v, DOMAIN phis) => Known(v, DOMAIN phis')
  BY <1>7, KnownGrows DEF ps
<1>9. Block' = Block
  BY DEF Block
<1>10. \A p \in DOMAIN ps : ps[p].block \in Block /\ \A i \in DOMAIN ps[p].ops : Known(ps[p].ops[i].val, DOMAIN phis')
  <2>1. \A p \in 1 .. n : ps[p].block \in Block /\ \A i \in DOMAIN ps[p].ops : Known(ps[p].ops[i].val, DOMAIN phis')
    BY <1>4, <1>6, <1>8 DEF Types, PhisOK
  <2>2. ps[n + 1].block \in Block /\ \A i \in DOMAIN ps[n + 1].ops : Known(ps[n + 1].ops[i].val, DOMAIN phis')
    BY <1>4 DEF new
  <2> QED
    BY <1>4, <1>6, <2>1, <2>2
<1>11. PhisOK'
  BY <1>4, <1>9, <1>10 DEF PhisOK, ps
<1>12. \A p \in DOMAIN us : Within(us[p], DOMAIN ps)
  <2>1. \A p \in 1 .. n : Within(us[p], DOMAIN ps)
    BY <1>5, <1>6, <1>7 DEF Types, UsersOK, Within
  <2>2. Within(us[n + 1], DOMAIN ps)
    BY <1>5 DEF Within
  <2> QED
    BY <1>5, <1>6, <2>1, <2>2
<1>13. UsersOK'
  BY <1>4, <1>5, <1>12 DEF UsersOK, ps, us, Within
<1>14. Known(Phi(n + 1), DOMAIN phis') /\ Phi(n + 1) \in Value
  BY <1>1, <1>7, ValueFacts DEF Known, ps
<1> QED
  BY <1>1, <1>4, <1>5, <1>6, <1>7, <1>11, <1>13, <1>14 DEF n, new, ps, us

\* A variable gets a definition.
LEMMA DefineFacts ==
  ASSUME Types, last' = last, DOMAIN phis \subseteq DOMAIN phis',
         NEW b \in Block, NEW d \in Decls, NEW v \in Value, Known(v, DOMAIN phis'), Define(b, d, v)
  PROVE  /\ DefOK'
         /\ DOMAIN def'[b] = DOMAIN def[b] \cup {d} /\ def'[b][d] = v
         /\ \A e \in DOMAIN def[b] : e # d => def'[b][e] = def[b][e]
         /\ \A c \in Block : c # b => def'[c] = def[c]
<1>1. def \in [Block -> Table] /\ Block' = Block
  BY DEF Types, DefOK, Block
<1>2. def[b] \in Table
  BY <1>1
<1>3. /\ Mapped(def[b], d, v) \in Table
      /\ DOMAIN Mapped(def[b], d, v) = DOMAIN def[b] \cup {d}
      /\ Mapped(def[b], d, v)[d] = v
      /\ \A e \in DOMAIN def[b] : e # d => Mapped(def[b], d, v)[e] = def[b][e]
  BY <1>2, MappedFacts
<1>4. def' \in [Block -> Table] /\ def'[b] = Mapped(def[b], d, v) /\ \A c \in Block : c # b => def'[c] = def[c]
  BY <1>1, <1>3 DEF Define
<1>5. \A c \in Block : \A e \in DOMAIN def[c] : Known(def[c][e], DOMAIN phis')
  BY KnownGrows DEF Types, DefOK
<1>6. \A c \in Block : \A e \in DOMAIN def'[c] : Known(def'[c][e], DOMAIN phis')
  <2> SUFFICES ASSUME NEW c \in Block, NEW e \in DOMAIN def'[c] PROVE Known(def'[c][e], DOMAIN phis')
    OBVIOUS
  <2>1. CASE c = b /\ e = d
    BY <1>3, <1>4, <2>1
  <2>2. CASE c # b
    BY <1>4, <1>5, <2>2
  <2>3. CASE c = b /\ e # d
    <3>1. e \in DOMAIN def[c] /\ def'[c][e] = def[c][e]
      BY <1>3, <1>4, <2>3
    <3> QED
      BY <1>5, <3>1
  <2> QED
    BY <2>1, <2>2, <2>3
<1> QED
  BY <1>1, <1>3, <1>4, <1>6 DEF DefOK

\* A sequence whose elements lie in a smaller set is a sequence over it.
LEMMA SeqInto ==
  ASSUME NEW R, NEW s \in Seq(R), NEW S, \A i \in DOMAIN s : s[i] \in S
  PROVE  s \in Seq(S)
<1>1. DOMAIN s = 1 .. Len(s) /\ Len(s) \in Nat /\ s \in [1 .. Len(s) -> R]
  BY LenProperties
<1>2. s \in [1 .. Len(s) -> S]
  BY <1>1
<1> QED
  BY <1>1, <1>2, FunctionIsSeq

\* The operands of a phi are replaced.
LEMMA NodeExcept ==
  ASSUME NEW q \in PhiNode, NEW s
  PROVE  [q EXCEPT !.ops = s] = [block |-> q.block, decl |-> q.decl, ops |-> s]
<1>1. q = [block |-> q.block, decl |-> q.decl, ops |-> q.ops]
  BY DEF PhiNode
<1>2. DOMAIN q = {"block", "decl", "ops"}
  BY <1>1
<1> DEFINE r == [q EXCEPT !.ops = s]
<1>3. r.block = q.block /\ r.decl = q.decl /\ r.ops = s /\ DOMAIN r = {"block", "decl", "ops"}
  BY <1>2
<1> QED
  BY <1>1

\* Phi p takes the value v from block b.
Taken(p, v, b) ==
  /\ phis' = [phis EXCEPT ![p].ops = Append(@, [val |-> v, from |-> b])]
  /\ users' = IF IsPhi(v) THEN [users EXCEPT ![v[2]] = <<p>> \o @] ELSE users

\* What FillAdd makes of the phis: one operand more in the phi it fills.
LEMMA TakenFacts ==
  ASSUME Types, last' = last, NEW p \in DOMAIN phis, NEW v \in Value, Known(v, DOMAIN phis),
         NEW b \in Block, Taken(p, v, b)
  PROVE  /\ PhisOK' /\ UsersOK' /\ DOMAIN phis' = DOMAIN phis /\ Len(phis') = Len(phis)
         /\ phis'[p].block = phis[p].block /\ phis'[p].decl = phis[p].decl
         /\ phis'[p].ops = Append(phis[p].ops, [val |-> v, from |-> b])
         /\ \A q \in DOMAIN phis : q # p => phis'[q] = phis[q]
         /\ IsPhi(v) => v[2] \in DOMAIN users /\ users'[v[2]] = <<p>> \o users[v[2]]
         /\ \A q \in DOMAIN users : Phi(q) # v => users'[q] = users[q]
         /\ DOMAIN users' = DOMAIN users
<1> DEFINE ps == phis'
           us == users'
           op == [val |-> v, from |-> b]
           n == Len(phis)
<1>1. /\ phis \in Seq(PhiNode) /\ n \in Nat /\ DOMAIN phis = 1 .. n
      /\ users \in Seq(Seq(Nat)) /\ DOMAIN users = 1 .. n /\ p \in Nat
  BY DEF Types, PhisOK, UsersOK
<1>2. phis[p] \in PhiNode /\ op \in [val : Value, from : Nat]
  BY <1>1 DEF Block
<1> HIDE DEF op
<1>3. phis[p].ops \in Seq([val : Value, from : Nat]) /\ phis[p].block \in Nat /\ phis[p].decl \in Decls
  BY <1>2 DEF PhiNode
<1>4. /\ Append(phis[p].ops, op) \in Seq([val : Value, from : Nat])
      /\ DOMAIN Append(phis[p].ops, op) = 1 .. Len(phis[p].ops) + 1 /\ Len(phis[p].ops) \in Nat
      /\ DOMAIN phis[p].ops = 1 .. Len(phis[p].ops)
      /\ Append(phis[p].ops, op)[Len(phis[p].ops) + 1] = op
      /\ \A i \in 1 .. Len(phis[p].ops) : Append(phis[p].ops, op)[i] = phis[p].ops[i]
  BY <1>2, <1>3, AppendProperties
<1> DEFINE new == [block |-> phis[p].block, decl |-> phis[p].decl, ops |-> Append(phis[p].ops, op)]
<1>5. new \in PhiNode
  BY <1>3, <1>4 DEF PhiNode
<1>6. [phis[p] EXCEPT !.ops = Append(@, op)] = new
  BY <1>2, NodeExcept
<1>7. ps = [phis EXCEPT ![p] = new]
  BY <1>6 DEF Taken, op
<1> HIDE DEF new, ps, us, n
<1>8. ps \in Seq(PhiNode) /\ Len(ps) = n /\ DOMAIN ps = 1 .. n /\ ps[p] = new
      /\ \A q \in 1 .. n : q # p => ps[q] = phis[q]
  BY <1>1, <1>5, <1>7, ExceptSeq DEF n
<1>9. IsPhi(v) => v[2] \in 1 .. n /\ v = Phi(v[2])
  BY <1>1, ValueFacts DEF Known
<1>10. /\ IsPhi(v) => us = [users EXCEPT ![v[2]] = <<p>> \o users[v[2]]]
       /\ ~IsPhi(v) => us = users
  BY DEF Taken, us
<1>11. \A q \in 1 .. n : users[q] \in Seq(Nat) /\ Within(users[q], 1 .. n)
  <2>1. UsersOK
    BY DEF Types
  <2>2. \A q \in 1 .. n : users[q] \in Seq(Nat)
    BY <1>1
  <2>3. \A q \in 1 .. n : Within(users[q], 1 .. n)
    BY <1>1, <2>1 DEF UsersOK
  <2> QED
    BY <2>2, <2>3
<1>12. ASSUME NEW q \in 1 .. n
       PROVE  <<p>> \o users[q] \in Seq(Nat) /\ Within(<<p>> \o users[q], 1 .. n)
  <2>1. users[q] \in Seq(1 .. n)
    <3>1. users[q] \in Seq(Nat) /\ \A i \in DOMAIN users[q] : users[q][i] \in 1 .. n
      BY <1>11 DEF Within
    <3> QED
      BY <3>1, SeqInto
  <2>2. p \in 1 .. n /\ <<p>> \in Seq(1 .. n)
    BY <1>1
  <2>3. <<p>> \o users[q] \in Seq(1 .. n)
    BY <2>1, <2>2, ConcatProperties
  <2>4. 1 .. n \subseteq Nat
    OBVIOUS
  <2>5. <<p>> \o users[q] \in Seq(Nat)
    BY <2>3, <2>4, SeqMonotonic
  <2> DEFINE l == <<p>> \o users[q]
  <2>6. l \in Seq(1 .. n)
    BY <2>3
  <2> HIDE DEF l
  <2>7. DOMAIN l = 1 .. Len(l) /\ l \in [1 .. Len(l) -> 1 .. n]
    BY <2>6, LenProperties
  <2>8. \A i \in DOMAIN l : l[i] \in 1 .. n
    BY <2>7
  <2> QED
    BY <2>5, <2>8 DEF Within, l
<1>13. /\ us \in Seq(Seq(Nat)) /\ Len(us) = n /\ DOMAIN us = 1 .. n
       /\ IsPhi(v) => us[v[2]] = <<p>> \o users[v[2]]
       /\ \A q \in 1 .. n : Phi(q) # v => us[q] = users[q]
       /\ \A q \in 1 .. n : Within(us[q], 1 .. n)
  <2>1. CASE ~IsPhi(v)
    BY <1>1, <1>10, <1>11, <2>1
  <2>2. CASE IsPhi(v)
    <3>1. /\ us \in Seq(Seq(Nat)) /\ Len(us) = Len(users) /\ us[v[2]] = <<p>> \o users[v[2]]
          /\ \A q \in 1 .. n : q # v[2] => us[q] = users[q]
      <4> DEFINE k == v[2]
      <4>1. k \in 1 .. n /\ us = [users EXCEPT ![k] = <<p>> \o users[k]] /\ <<p>> \o users[k] \in Seq(Nat)
        BY <1>9, <1>10, <1>12, <2>2
      <4> HIDE DEF k
      <4>2. /\ us \in Seq(Seq(Nat)) /\ Len(us) = Len(users) /\ us[k] = <<p>> \o users[k]
            /\ \A q \in 1 .. n : q # k => us[q] = users[q]
        BY <1>1, <4>1, ExceptSeq
      <4> QED
        BY <4>2 DEF k
    <3>2. \A q \in 1 .. n : Within(us[q], 1 .. n)
      BY <1>9, <1>11, <1>12, <2>2, <3>1
    <3>3. \A q \in 1 .. n : Phi(q) # v => q # v[2]
      BY <1>9, <2>2
    <3> QED
      BY <1>1, <2>2, <3>1, <3>2, <3>3
  <2> QED
    BY <2>1, <2>2
<1>14. UsersOK'
  BY <1>8, <1>13 DEF UsersOK, us, ps, Within
<1>15. \A q \in DOMAIN ps : ps[q].block \in Block /\ \A i \in DOMAIN ps[q].ops : Known(ps[q].ops[i].val, DOMAIN ps)
  <2>1. \A q \in 1 .. n : phis[q].block \in Block /\ \A i \in DOMAIN phis[q].ops : Known(phis[q].ops[i].val, 1 .. n)
    BY <1>1 DEF Types, PhisOK
  <2>2. \A i \in DOMAIN new.ops : Known(new.ops[i].val, 1 .. n)
    <3> DEFINE l == Append(phis[p].ops, op)
               k == Len(phis[p].ops)
    <3>1. DOMAIN l = 1 .. k + 1 /\ l[k + 1] = op /\ k \in Nat
          /\ \A i \in 1 .. k : i \in DOMAIN phis[p].ops /\ l[i] = phis[p].ops[i]
      BY <1>4
    <3>2. Known(op.val, 1 .. n)
      BY <1>1 DEF op
    <3>3. \A i \in DOMAIN phis[p].ops : Known(phis[p].ops[i].val, 1 .. n)
      BY <1>1, <2>1
    <3>4. new.ops = l
      BY DEF new
    <3> HIDE DEF l, k
    <3>5. \A i \in 1 .. k + 1 : i = k + 1 \/ i \in 1 .. k
      BY <3>1
    <3> QED
      BY <3>1, <3>2, <3>3, <3>4, <3>5
  <2>3. new.block = phis[p].block /\ p \in 1 .. n
    BY <1>1 DEF new
  <2> QED
    BY <1>8, <2>1, <2>2, <2>3
<1>16. PhisOK'
  <2>1. Block' = Block
    BY DEF Block
  <2> QED
    BY <1>8, <1>15, <2>1 DEF PhisOK, ps
<1> QED
  BY <1>1, <1>8, <1>9, <1>13, <1>14, <1>16 DEF ps, us, n, new, op

\* Phi p is replaced by s everywhere.
LEMMA ReplacedFacts ==
  ASSUME Types, last' = last, NEW p \in DOMAIN phis, NEW s \in Value, Known(s, DOMAIN phis),
         ReplaceAllUses(p, s)
  PROVE  /\ DefOK' /\ UsesOK' /\ PhisOK' /\ DOMAIN phis' = DOMAIN phis /\ Len(phis') = Len(phis)
         /\ \A q \in DOMAIN phis :
              /\ phis'[q].block = phis[q].block /\ phis'[q].decl = phis[q].decl
              /\ DOMAIN phis'[q].ops = DOMAIN phis[q].ops
              /\ \A i \in DOMAIN phis[q].ops :
                   /\ phis'[q].ops[i].val = Subst(p, s, phis[q].ops[i].val)
                   /\ phis'[q].ops[i].from = phis[q].ops[i].from
<1> DEFINE ps == phis'
           n == Len(phis)
           Operand == [val : Value, from : Nat]
           op(q, i) == [val |-> Subst(p, s, phis[q].ops[i].val), from |-> phis[q].ops[i].from]
           opsOf(q) == [i \in DOMAIN phis[q].ops |-> op(q, i)]
<1>1. phis \in Seq(PhiNode) /\ n \in Nat /\ DOMAIN phis = 1 .. n /\ Block' = Block
  BY DEF Types, PhisOK, Block
<1>2. \A v \in Value : Subst(p, s, v) \in Value
  BY DEF Subst
<1>3. \A v : Known(v, DOMAIN phis) => Known(Subst(p, s, v), DOMAIN phis)
  BY DEF Subst
<1>4. ASSUME NEW q \in DOMAIN phis
      PROVE  phis[q] \in PhiNode /\ phis[q].ops \in Seq(Operand) /\ DOMAIN phis[q].ops = 1 .. Len(phis[q].ops)
             /\ Len(phis[q].ops) \in Nat /\ phis[q].block \in Nat /\ phis[q].decl \in Decls
             /\ \A i \in DOMAIN phis[q].ops : phis[q].ops[i] \in Operand
  <2>1. phis[q] \in PhiNode
    BY <1>1
  <2>2. phis[q].ops \in Seq(Operand) /\ phis[q].block \in Nat /\ phis[q].decl \in Decls
    BY <2>1 DEF PhiNode
  <2> DEFINE l == phis[q].ops
  <2> HIDE DEF l, Operand
  <2>3. l \in Seq(Operand)
    BY <2>2 DEF l
  <2>4. Len(l) \in Nat /\ DOMAIN l = 1 .. Len(l) /\ l \in [1 .. Len(l) -> Operand]
    BY <2>3, LenProperties
  <2>5. \A i \in DOMAIN l : l[i] \in Operand
    BY <2>4
  <2> QED
    BY <2>1, <2>2, <2>4, <2>5 DEF l
<1>5. \A q \in DOMAIN phis : \A i \in DOMAIN phis[q].ops : op(q, i) \in Operand
  BY <1>2, <1>4
<1>6. \A q \in DOMAIN phis : \A i \in DOMAIN phis[q].ops :
        [phis[q].ops[i] EXCEPT !.val = Subst(p, s, @)] = op(q, i)
  <2> SUFFICES ASSUME NEW q \in DOMAIN phis, NEW i \in DOMAIN phis[q].ops
               PROVE  [phis[q].ops[i] EXCEPT !.val = Subst(p, s, @)] = op(q, i)
    OBVIOUS
  <2> DEFINE o == phis[q].ops[i]
             v == Subst(p, s, o.val)
  <2>1. o \in Operand
    BY <1>4
  <2> HIDE DEF o, v
  <2>2. [o EXCEPT !.val = v] = [val |-> v, from |-> o.from]
    BY <2>1
  <2> QED
    BY <2>2 DEF o, v
<1>7. \A q \in DOMAIN phis : opsOf(q) \in Seq(Operand) /\ DOMAIN opsOf(q) = DOMAIN phis[q].ops
  <2> SUFFICES ASSUME NEW q \in DOMAIN phis PROVE opsOf(q) \in Seq(Operand) /\ DOMAIN opsOf(q) = DOMAIN phis[q].ops
    OBVIOUS
  <2> DEFINE k == Len(phis[q].ops)
             f == opsOf(q)
  <2>1. k \in Nat /\ DOMAIN phis[q].ops = 1 .. k /\ \A i \in 1 .. k : op(q, i) \in Operand
    BY <1>4, <1>5
  <2> HIDE DEF Operand, op, k
  <2>2. f \in [1 .. k -> Operand]
    BY <2>1
  <2> HIDE DEF f
  <2>3. f \in Seq(Operand)
    BY <2>1, <2>2, FunctionIsSeq
  <2> QED
    BY <2>3 DEF f
<1> DEFINE new(q) == [block |-> phis[q].block, decl |-> phis[q].decl, ops |-> opsOf(q)]
<1>8. \A q \in DOMAIN phis : new(q) \in PhiNode
  BY <1>4, <1>7 DEF PhiNode
<1>9. ps = [q \in DOMAIN phis |-> [phis[q] EXCEPT !.ops = opsOf(q)]]
  <2>1. ps = [q \in DOMAIN phis |-> [phis[q] EXCEPT !.ops = SubstIn(@, p, s)]]
    BY DEF ReplaceAllUses
  <2>2. \A q \in DOMAIN phis : SubstIn(phis[q].ops, p, s) = opsOf(q)
    <3> HIDE DEF op
    <3> QED
      BY <1>6 DEF SubstIn
  <2> HIDE DEF opsOf, ps
  <2> QED
    BY <2>1, <2>2
<1>10. ps = [q \in 1 .. n |-> new(q)]
  <2>1. \A q \in DOMAIN phis : [phis[q] EXCEPT !.ops = opsOf(q)] = new(q)
    BY <1>4, NodeExcept
  <2> HIDE DEF new, opsOf
  <2> QED
    BY <1>1, <1>9, <2>1
<1>11. ps \in Seq(PhiNode) /\ Len(ps) = n /\ DOMAIN ps = 1 .. n /\ \A q \in 1 .. n : ps[q] = new(q)
  <2> HIDE DEF new, ps, n
  <2>1. ps \in [1 .. n -> PhiNode]
    BY <1>1, <1>8, <1>10
  <2> QED
    BY <1>1, <1>10, <2>1, FunctionIsSeq
<1>12. \A q \in 1 .. n :
         /\ ps[q].block = phis[q].block /\ ps[q].decl = phis[q].decl
         /\ DOMAIN ps[q].ops = DOMAIN phis[q].ops
         /\ \A i \in DOMAIN phis[q].ops :
              /\ ps[q].ops[i].val = Subst(p, s, phis[q].ops[i].val)
              /\ ps[q].ops[i].from = phis[q].ops[i].from
  <2> HIDE DEF ps
  <2> QED
    BY <1>1, <1>11
<1> HIDE DEF ps, n
<1>13. PhisOK'
  <2>1. \A q \in DOMAIN phis : phis[q].block \in Block /\ \A i \in DOMAIN phis[q].ops : Known(phis[q].ops[i].val, DOMAIN phis)
    BY DEF Types, PhisOK
  <2>2. \A q \in 1 .. n : ps[q].block \in Block /\ \A i \in DOMAIN ps[q].ops : Known(ps[q].ops[i].val, DOMAIN phis)
    BY <1>1, <1>3, <1>12, <2>1
  <2> QED
    BY <1>1, <1>11, <2>2 DEF PhisOK, ps
<1>14. UsesOK'
  <2>1. uses' = [i \in DOMAIN uses |-> Subst(p, s, uses[i])] /\ DOMAIN ps = DOMAIN phis
    BY <1>1, <1>11 DEF ReplaceAllUses
  <2>2. \A i \in DOMAIN uses' : uses'[i] \in Value /\ Known(uses'[i], DOMAIN phis)
    BY <1>2, <1>3, <2>1 DEF Types, UsesOK
  <2> QED
    BY <2>1, <2>2 DEF UsesOK, ps
<1>15. DefOK'
  <2>1. def' = [b \in Block |-> [d \in DOMAIN def[b] |-> Subst(p, s, def[b][d])]] /\ DOMAIN ps = DOMAIN phis
    BY <1>1, <1>11 DEF ReplaceAllUses, Types, DefOK
  <2>2. ASSUME NEW b \in Block
        PROVE  /\ def'[b] = [d \in DOMAIN def[b] |-> Subst(p, s, def[b][d])] /\ def'[b] \in Table
               /\ \A d \in DOMAIN def'[b] : Known(def'[b][d], DOMAIN phis)
    <3>1. def[b] \in Table /\ \A d \in DOMAIN def[b] : Known(def[b][d], DOMAIN phis)
      BY DEF Types, DefOK
    <3>2. DOMAIN def[b] \in SUBSET Decls /\ \A d \in DOMAIN def[b] : def[b][d] \in Value
      BY <3>1, TableFacts
    <3> DEFINE f == def'[b]
    <3>3. f = [d \in DOMAIN def[b] |-> Subst(p, s, def[b][d])]
      BY <2>1
    <3> HIDE DEF f
    <3>4. f \in [DOMAIN def[b] -> Value]
      BY <1>2, <3>2, <3>3
    <3>5. f \in Table
      BY <3>2, <3>4 DEF Table
    <3>6. \A d \in DOMAIN f : Known(f[d], DOMAIN phis)
      BY <1>3, <3>1, <3>3
    <3> QED
      BY <3>3, <3>5, <3>6 DEF f
  <2> QED
    BY <1>1, <2>1, <2>2 DEF DefOK, ps
<1> QED
  BY <1>1, <1>11, <1>12, <1>13, <1>14, <1>15 DEF ps, n

\* Reversing keeps the elements within their set.
LEMMA ReverseInto ==
  ASSUME NEW S, NEW l \in Seq(S)
  PROVE  Reverse(l) \in Seq(S)
<1> DEFINE n == Len(l)
<1>1. n \in Nat /\ l \in [1 .. n -> S] /\ \A i \in 1 .. n : (n - i) + 1 \in 1 .. n
  BY LenProperties
<1>2. Reverse(l) = [i \in 1 .. n |-> l[(n - i) + 1]]
  BY DEF Reverse
<1> HIDE DEF n
<1>3. Reverse(l) \in [1 .. n -> S]
  BY <1>1, <1>2
<1> QED
  BY <1>1, <1>3, FunctionIsSeq

\* Phi p leaves the use lists, and its own is moved to that of its replacement.
LEMMA MovedFacts ==
  ASSUME Types, NEW p \in DOMAIN phis, NEW s \in Value, MoveUsers(p, s),
         DOMAIN phis' = DOMAIN phis, Len(phis') = Len(phis)
  PROVE  /\ UsersOK' /\ DOMAIN users' = DOMAIN users
         /\ Without(users[p], p) \in Seq(DOMAIN phis)
         /\ users'[p] = <<>>
         /\ \A q \in DOMAIN users : q # p =>
              IF s = Phi(q) THEN users'[q] = Reverse(Without(users[p], p)) \o Without(users[q], p)
              ELSE users'[q] = Without(users[q], p)
<1> DEFINE n == Len(phis)
           us == users'
           B == 1 .. n
           moved == Reverse(Without(users[p], p))
           list(q) == IF q = p THEN <<>>
                      ELSE IF s = Phi(q) THEN moved \o Without(users[q], p)
                      ELSE Without(users[q], p)
<1>1. n \in Nat /\ users \in Seq(Seq(Nat)) /\ DOMAIN users = B /\ DOMAIN phis = B /\ B \subseteq Nat
  BY DEF Types, PhisOK, UsersOK
<1>2. us = [q \in B |-> list(q)]
  BY <1>1 DEF MoveUsers
<1> HIDE DEF n, us, moved, B
<1>3. ASSUME NEW q \in B
      PROVE  Without(users[q], p) \in Seq(B)
  <2>1. users[q] \in Seq(Nat)
    BY <1>1
  <2>2. \A i \in DOMAIN users[q] : users[q][i] \in B
    BY <1>1 DEF Types, UsersOK, Within
  <2>3. users[q] \in Seq(B)
    BY <2>1, <2>2, SeqInto
  <2> QED
    BY <2>3, WithoutMembers
<1>4. moved \in Seq(B)
  BY <1>1, <1>3, ReverseInto DEF moved
<1>5. \A q \in B : list(q) \in Seq(B)
  <2>1. \A q \in B : moved \o Without(users[q], p) \in Seq(B)
    BY <1>3, <1>4, ConcatProperties
  <2>2. <<>> \in Seq(B)
    BY EmptySeq
  <2> QED
    BY <1>3, <2>1, <2>2
<1>6. us \in Seq(Seq(B)) /\ Len(us) = n /\ DOMAIN us = B
  <2> HIDE DEF list
  <2>1. us \in [1 .. n -> Seq(B)]
    BY <1>2, <1>5 DEF B
  <2> QED
    BY <1>1, <2>1, FunctionIsSeq DEF B
<1>7. us \in Seq(Seq(Nat))
  <2>1. Seq(B) \subseteq Seq(Nat)
    BY <1>1, SeqMonotonic
  <2> QED
    BY <1>6, <2>1, SeqMonotonic
<1>8. \A q \in B : Within(us[q], B)
  <2> SUFFICES ASSUME NEW q \in B, NEW i \in DOMAIN us[q] PROVE us[q][i] \in B
    BY DEF Within
  <2> DEFINE l == us[q]
  <2>1. l \in Seq(B)
    BY <1>6
  <2> HIDE DEF l
  <2>2. DOMAIN l = 1 .. Len(l) /\ l \in [1 .. Len(l) -> B]
    BY <2>1, LenProperties
  <2>3. \A j \in DOMAIN l : l[j] \in B
    BY <2>2
  <2> QED
    BY <2>3 DEF l
<1>9. UsersOK'
  BY <1>1, <1>6, <1>7, <1>8 DEF UsersOK, us, n, Within
<1>10. us[p] = <<>> /\ p \in B
  BY <1>1, <1>2
<1>11. \A q \in B : us[q] = list(q)
  BY <1>2
<1> QED
  BY <1>1, <1>3, <1>6, <1>9, <1>10, <1>11 DEF us, moved

-----------------------------------------------------------------------------
(* The tokens. *)

\* The token whose expression comes next is one of the body's, or none is.
LEMMA TokenFacts ==
  ASSUME BodyOK, TypeOK
  PROVE  /\ Token \in {0} \cup DOMAIN prog /\ Token \in Nat /\ DOMAIN prog = 1 .. Len(prog)
         /\ Reads \in Variable /\ Writes \in Variable /\ Passes \in Variable
         /\ Token = 0 => Reads = NoDecl /\ Writes = NoDecl
<1>1. DOMAIN prog = 1 .. Len(prog) /\ Len(prog) \in Nat /\ prog \in Seq(TokenOf)
  BY DEF BodyOK
<1>2. Token \in {0} \cup DOMAIN prog
  <2>1. CASE AtWhileCond
    <3>1. Len(frames) \in DOMAIN frames
      BY <2>1, EmptySeq DEF TypeOK, AtWhileCond
    <3> QED
      BY <2>1, <3>1 DEF Token, BodyOK, Top
  <2>2. CASE ~AtWhileCond
    BY <1>1, <2>2 DEF Token, TypeOK
  <2> QED
    BY <2>1, <2>2
<1>3. \A i \in DOMAIN prog : prog[i] \in TokenOf
  BY <1>1
<1>4. \A i \in DOMAIN prog : prog[i].reads \in Variable /\ prog[i].writes \in Variable /\ prog[i].passes \in Variable
  BY <1>3 DEF TokenOf
<1>5. NoDecl \in Variable
  BY DEF Variable
<1> QED
  BY <1>1, <1>2, <1>4, <1>5 DEF Reads, Writes, Passes

\* A variable that has an SSA value is a declaration of the procedure.
LEMMA InRegister ==
  ASSUME NEW d \in Variable, d # NoDecl, ~InMemory(d)
  PROVE  d \in Decls \ ByRefLocals
BY DEF Variable, InMemory

\* A step of the construction is a step of the skeleton or leaves it alone.
LEMMA SkeletonStep == [SSANext]_allVars => [Next]_vars
<1>1. ASSUME EmitStatement PROVE Handler
  <2>1. EmitSimple \/ EmitCopy \/ ControlFlow
    BY <1>1 DEF EmitStatement
  <2> QED
    BY <2>1 DEF Handler
<1>2. Construction => \/ UNCHANGED vars
                      \/ EndSeal \/ EmitStatement \/ EnterBlock
  BY DEF Construction, ReadFound, ReadUnsealed, ReadSinglePred, ReadJoin, WriteBack,
         FillRead, FillAdd, FillDone, OptimizeKeep, OptimizeReplace, OptimizeErased,
         OptimizeCandidate, CandidatesDone, BeginSeal, SealPhi, EvalOperand, LoadOperand
<1>3. EndSeal \/ EnterBlock => SealBlock \/ SetCurr
  BY DEF EndSeal, EnterBlock
<1>4. Construction => [Next]_vars
  BY <1>1, <1>2, <1>3 DEF Next, Step
<1> QED
  BY <1>4 DEF SSANext, Stopped, allVars

\* No step shrinks the body or takes blocks away.
LEMMA BodyKept ==
  ASSUME TypeOK, [Next]_vars
  PROVE  prog' = prog /\ last \in Nat /\ last' \in Nat /\ last <= last' /\ Block \subseteq Block'
<1>1. last \in Nat /\ last' \in Nat /\ last <= last' /\ prog' = prog
  <2>1. last \in Nat
    BY DEF TypeOK
  <2>2. CASE UNCHANGED vars
    BY <2>1, <2>2 DEF vars, skeleton
  <2>3. CASE \E h \in BOOLEAN : BeginIf(h)
    BY <2>1, <2>3 DEF BeginIf, Consume
  <2>4. CASE BeginWhile
    BY <2>1, <2>4 DEF BeginWhile, Consume
  <2>5. CASE EmitSimple \/ EmitCopy \/ EmitReturn \/ SwitchToElse \/ EndIf \/ BranchWhile
             \/ EndWhile \/ Finish \/ SealBlock \/ SetCurr
    BY <2>1, <2>5 DEF skeleton, EmitSimple, EmitCopy, EmitReturn, SwitchToElse, EndIf, BranchWhile, EndWhile, Finish,
                      SealBlock, SetCurr, Consume
  <2> QED
    BY <2>2, <2>3, <2>4, <2>5 DEF Next, Step, Handler, ControlFlow, Terminated
<1> DEFINE m == last'
<1>2. Block' = 1 .. m
  BY DEF Block
<1> HIDE DEF m
<1>3. 1 .. last \subseteq 1 .. m
  BY <1>1 DEF m
<1> QED
  BY <1>1, <1>2, <1>3 DEF Block

\* The open statements stand in the body.
LEMMA BodyNext ==
  ASSUME TypeOK, BodyOK, [Next]_vars
  PROVE  BodyOK'
<1>1. prog' = prog /\ frames \in Seq(Frame) /\ pc \in Nat \ {0} /\ DOMAIN prog = 1 .. Len(prog) /\ Len(prog) \in Nat
      /\ \A i \in DOMAIN frames : frames[i].at \in DOMAIN prog
      /\ DOMAIN frames = 1 .. Len(frames) /\ Len(frames) \in Nat
  BY BodyKept DEF TypeOK, BodyOK
<1> DEFINE fs == frames'
<1> SUFFICES \A i \in DOMAIN fs : fs[i].at \in DOMAIN prog
  BY <1>1 DEF BodyOK
<1>2. CASE fs = frames
  BY <1>1, <1>2
<1>3. ASSUME NEW f, Push(f), f.at = pc, pc <= Len(prog) PROVE \A i \in DOMAIN fs : fs[i].at \in DOMAIN prog
  <2>1. fs = Append(frames, f)
    BY <1>3 DEF Push
  <2> HIDE DEF fs
  <2>2. DOMAIN fs = 1 .. Len(frames) + 1 /\ fs[Len(frames) + 1] = f /\ \A i \in 1 .. Len(frames) : fs[i] = frames[i]
    BY <1>1, <2>1
  <2> QED
    BY <1>1, <1>3, <2>2
<1>4. ASSUME NEW f, SetTop(f), f.at = Top.at, frames # <<>> PROVE \A i \in DOMAIN fs : fs[i].at \in DOMAIN prog
  <2>1. fs = [frames EXCEPT ![Len(frames)] = f] /\ Len(frames) \in DOMAIN frames
    BY <1>1, <1>4 DEF SetTop
  <2> HIDE DEF fs
  <2>2. DOMAIN fs = DOMAIN frames /\ fs[Len(frames)] = f /\ \A i \in DOMAIN frames : i # Len(frames) => fs[i] = frames[i]
    BY <1>1, <2>1
  <2> QED
    BY <1>1, <1>4, <2>1, <2>2 DEF Top
<1>5. ASSUME Pop, frames # <<>> PROVE \A i \in DOMAIN fs : fs[i].at \in DOMAIN prog
  <2>1. /\ frames' \in Seq(Frame) /\ Len(frames') = Len(frames) - 1
        /\ \A i \in DOMAIN frames' : frames'[i] = frames[i]
    BY <1>1, <1>5, StackFacts
  <2> HIDE DEF fs
  <2>2. fs \in Seq(Frame) /\ Len(fs) = Len(frames) - 1 /\ \A i \in DOMAIN fs : fs[i] = frames[i]
    BY <2>1 DEF fs
  <2>3. \A i \in DOMAIN fs : i \in DOMAIN frames
    BY <1>1, <2>2
  <2> QED
    BY <1>1, <2>2, <2>3
<1>6. CASE EmitSimple \/ EmitCopy \/ EmitReturn \/ Finish \/ SealBlock \/ SetCurr \/ UNCHANGED vars
  BY <1>2, <1>6 DEF EmitSimple, EmitCopy, EmitReturn, Finish, SealBlock, SetCurr, vars, skeleton
<1>7. ASSUME NEW h \in BOOLEAN, BeginIf(h) PROVE \A i \in DOMAIN fs : fs[i].at \in DOMAIN prog
  <2> HIDE DEF fs
  <2> QED
    BY <1>3, <1>7 DEF BeginIf, CanEmit
<1>8. CASE BeginWhile
  <2> HIDE DEF fs
  <2> QED
    BY <1>3, <1>8 DEF BeginWhile, CanEmit
<1>9. CASE EndIf \/ EndWhile
  <2> HIDE DEF fs
  <2> QED
    BY <1>5, <1>9 DEF EndIf, EndWhile
<1>10. CASE SwitchToElse \/ BranchWhile
  <2>1. frames # <<>>
    BY <1>10 DEF SwitchToElse, BranchWhile, AtWhileCond
  <2>2. Len(frames) \in DOMAIN frames /\ Top \in Frame
    BY <1>1, <2>1, StackFacts
  <2>3. [Top EXCEPT !.alt = 0].at = Top.at /\ [Top EXCEPT !.body = 0].at = Top.at
    BY <2>2 DEF Frame
  <2>4. SetTop([Top EXCEPT !.alt = 0]) \/ SetTop([Top EXCEPT !.body = 0])
    BY <1>10 DEF SwitchToElse, BranchWhile
  <2> HIDE DEF fs
  <2> QED
    BY <1>4, <2>1, <2>3, <2>4
<1> QED
  BY <1>6, <1>7, <1>8, <1>9, <1>10 DEF Next, Step, Handler, ControlFlow, Terminated

-----------------------------------------------------------------------------
(* The steps of the recursive functions. *)

\* No block, phi or value changes; the running activation goes on as cs.
LEMMA TypesGoOn ==
  ASSUME TypeOK, Types, UNCHANGED <<vars, values>>, dangling' \in BOOLEAN,
         calls # <<>>, NEW cs \in Seq(Activation), Continue(cs),
         \A i \in DOMAIN cs : CallOK(cs[i], Block, DOMAIN phis),
         \A i \in DOMAIN cs : FilledBy(cs[i]) => cs[i].todo # <<>> \/ i = 1
  PROVE  Types'
<1>1. UNCHANGED <<prog, frames, last, def, inc, phis, users, erased, code, uses>> /\ Block' = Block
  BY DEF vars, skeleton, values, Block
<1>2. ret' = <<>> /\ calls' = cs \o Tail(calls)
  BY DEF Continue
<1>3. BodyOK' /\ DefOK' /\ IncOK' /\ PhisOK' /\ UsersOK' /\ CodeOK' /\ UsesOK' /\ ErasedOK'
      /\ \A c : CallOK(c, Block, DOMAIN phis) => CallOK(c, Block', DOMAIN phis')
  BY <1>1, PartsKeep
<1>4. CallsOK'
  <2>1. CallsOK
    BY DEF Types
  <2> QED
    BY <1>1, <1>2, <1>3, <2>1, CallsContinue
<1>5. RetOK'
  BY <1>2, ValueFacts DEF RetOK, Known
<1> QED
  BY <1>3, <1>4, <1>5 DEF Types

\* ... or returns v.
LEMMA TypesReturn ==
  ASSUME TypeOK, Types, UNCHANGED <<vars, values>>, dangling' \in BOOLEAN,
         calls # <<>>, NEW v \in Value, Known(v, DOMAIN phis), Return(v)
  PROVE  Types'
<1>1. UNCHANGED <<prog, frames, last, def, inc, phis, users, erased, code, uses>>
  BY DEF vars, skeleton, values
<1>2. ret' = v /\ calls' = Tail(calls)
  BY DEF Return
<1>3. BodyOK' /\ DefOK' /\ IncOK' /\ PhisOK' /\ UsersOK' /\ CodeOK' /\ UsesOK' /\ ErasedOK'
      /\ \A c : CallOK(c, Block, DOMAIN phis) => CallOK(c, Block', DOMAIN phis')
  BY <1>1, PartsKeep
<1>4. CallsOK'
  <2>1. CallsOK
    BY DEF Types
  <2> QED
    BY <1>2, <1>3, <2>1, CallsReturn
<1>5. RetOK'
  BY <1>1, <1>2 DEF RetOK
<1> QED
  BY <1>3, <1>4, <1>5 DEF Types

\* The fields of the running activation refer to what exists.
LEMMA CallFacts ==
  ASSUME Types, calls # <<>>
  PROVE  /\ Call \in Activation /\ CallOK(Call, Block, DOMAIN phis)
         /\ Call.fn \in {"readLocalVariable", "writeLocalVariable"} =>
              Call.block \in Block /\ Call.block \in Nat /\ Call.decl \in Decls
         /\ Call.fn = "addPhiOperands" =>
              /\ Call.phi \in DOMAIN phis /\ Call.phi \in Nat /\ Call.decl \in Decls
              /\ Call.todo \in Seq(Nat) /\ Call.todo \in Seq(Block) /\ (ret # <<>> => Call.todo # <<>>)
         /\ Call.fn = "optimizePhi" => Call.phi \in DOMAIN phis /\ Call.phi \in Nat
         /\ Call.fn = "candidates" =>
              /\ Call.todo \in Seq(Nat) /\ Call.todo \in Seq(DOMAIN phis)
              /\ Call.same \in Value /\ Known(Call.same, DOMAIN phis)
         /\ Call.fn = "sealBlock" =>
              /\ Call.block \in Block /\ Call.block \in Nat /\ Call.todo \in SUBSET (Nat \X Decls)
              /\ \A e \in Call.todo : e[1] \in DOMAIN phis /\ e[1] \in Nat /\ e[2] \in Decls
<1>1. /\ Call \in Activation /\ CallOK(Call, Block, DOMAIN phis)
      /\ FilledBy(Call) /\ ret # <<>> => Call.todo # <<>>
  BY Running_ DEF Types
<1>2. /\ Call.fn \in {"readLocalVariable", "writeLocalVariable"} => Call.block \in Nat /\ Call.decl \in Decls
      /\ Call.fn = "addPhiOperands" => Call.phi \in Nat /\ Call.decl \in Decls /\ Call.todo \in Seq(Nat)
      /\ Call.fn = "optimizePhi" => Call.phi \in Nat
      /\ Call.fn = "candidates" => Call.todo \in Seq(Nat) /\ Call.same \in Value
      /\ Call.fn = "sealBlock" => Call.block \in Nat /\ Call.todo \in SUBSET (Nat \X Decls)
  BY <1>1, ActivationFacts
<1>3. /\ Call.fn \in {"readLocalVariable", "writeLocalVariable", "sealBlock"} => Call.block \in Block
      /\ Call.fn \in {"addPhiOperands", "optimizePhi"} => Call.phi \in DOMAIN phis
      /\ Call.fn = "addPhiOperands" => Within(Call.todo, Block)
      /\ Call.fn = "candidates" => Within(Call.todo, DOMAIN phis) /\ Known(Call.same, DOMAIN phis)
      /\ Call.fn = "sealBlock" => \A e \in Call.todo : e[1] \in DOMAIN phis
  BY <1>1 DEF CallOK
<1>4. CASE Call.fn = "addPhiOperands"
  <2>1. Call.todo \in Seq(Block)
    BY <1>2, <1>3, <1>4, SeqInto DEF Within
  <2> QED
    BY <1>1, <1>2, <1>3, <1>4, <2>1 DEF FilledBy
<1>5. CASE Call.fn = "candidates"
  <2>1. Call.todo \in Seq(DOMAIN phis)
    BY <1>2, <1>3, <1>5, SeqInto DEF Within
  <2> QED
    BY <1>1, <1>2, <1>3, <1>5, <2>1
<1>6. CASE Call.fn = "sealBlock"
  <2>1. \A e \in Call.todo : e[1] \in Nat /\ e[2] \in Decls
    BY <1>2, <1>6
  <2> QED
    BY <1>1, <1>2, <1>3, <1>6, <2>1
<1> QED
  BY <1>1, <1>2, <1>3, <1>4, <1>5, <1>6

\* The activations the steps push name phis, blocks and values there are.
LEMMA NewCalls ==
  ASSUME NEW B, NEW P
  PROVE  /\ \A b \in B : \A d : CallOK(ReadCall(b, d), B, P) /\ CallOK(WriteBackCall(b, d), B, P)
         /\ \A p \in P : \A d, s : Within(s, B) => CallOK(FillCall(p, d, s), B, P)
         /\ \A p \in P : CallOK(OptimizeCall(p), B, P)
         /\ \A s, v : Within(s, P) /\ Known(v, P) => CallOK(CandidatesCall(s, v), B, P)
         /\ \A b \in B : \A S : (\A e \in S : e[1] \in P) => CallOK(SealCall(b, S), B, P)
         /\ \A b, d : ~FilledBy(ReadCall(b, d)) /\ ~FilledBy(WriteBackCall(b, d))
         /\ \A s, v, p, b : ~FilledBy(CandidatesCall(s, v)) /\ ~FilledBy(OptimizeCall(p)) /\ ~FilledBy(SealCall(b, s))
BY DEF CallOK, ReadCall, WriteBackCall, FillCall, OptimizeCall, CandidatesCall, SealCall, FilledBy

\* Head and tail of a sequence stay within the set of its elements.
LEMMA SeqWithin ==
  ASSUME NEW S, NEW s \in Seq(S)
  PROVE  Within(s, S) /\ (s # <<>> => Head(s) \in S /\ Tail(s) \in Seq(S) /\ Within(Tail(s), S))
<1>1. ASSUME NEW t \in Seq(S) PROVE Within(t, S)
  <2>1. DOMAIN t = 1 .. Len(t) /\ t \in [1 .. Len(t) -> S]
    BY LenProperties
  <2> QED
    BY <2>1 DEF Within
<1>2. s # <<>> => Head(s) \in S /\ Tail(s) \in Seq(S)
  OBVIOUS
<1> QED
  BY <1>1, <1>2

\* The running activation goes on as a, which may be followed by b.
LEMMA TypesGoOnOne ==
  ASSUME TypeOK, Types, UNCHANGED <<vars, values>>, dangling' \in BOOLEAN, calls # <<>>,
         NEW a \in Activation, Continue(<<a>>), CallOK(a, Block, DOMAIN phis)
  PROVE  Types'
<1>1. <<a>> \in Seq(Activation) /\ DOMAIN <<a>> = {1} /\ <<a>>[1] = a
  OBVIOUS
<1> DEFINE cs == <<a>>
<1>2. cs \in Seq(Activation) /\ DOMAIN cs = {1} /\ cs[1] = a /\ Continue(cs)
  BY <1>1
<1> HIDE DEF cs
<1> QED
  BY <1>2, TypesGoOn

\* The running activation goes on as two others; the graph stays as it is.
LEMMA TypesGoOnTwo ==
  ASSUME TypeOK, Types, UNCHANGED <<vars, values>>, dangling' \in BOOLEAN, calls # <<>>,
         NEW a \in Activation, NEW b \in Activation, Continue(<<a, b>>),
         CallOK(a, Block, DOMAIN phis), CallOK(b, Block, DOMAIN phis), ~FilledBy(b)
  PROVE  Types'
<1> DEFINE cs == <<a, b>>
<1>1. cs \in Seq(Activation) /\ DOMAIN cs = {1, 2} /\ cs[1] = a /\ cs[2] = b /\ Continue(cs)
  OBVIOUS
<1> HIDE DEF cs
<1> QED
  BY <1>1, TypesGoOn

\* A read that finds a definition keeps the types.
LEMMA TypesReadFound == TypeOK /\ Types /\ ReadFound => Types'
<1> SUFFICES ASSUME TypeOK, Types, ReadFound PROVE Types'
  OBVIOUS
<1>1. calls # <<>> /\ Call.fn = "readLocalVariable" /\ Defined(Call) /\ dangling' \in BOOLEAN
      /\ UNCHANGED <<vars, values>> /\ Return(def[Call.block][Call.decl])
  BY DEF ReadFound, Running, Call, Types, ErasedOK
<1>2. Call.block \in Block
  BY <1>1, CallFacts
<1>3. def[Call.block] \in Table /\ Known(def[Call.block][Call.decl], DOMAIN phis)
  BY <1>1, <1>2 DEF Types, DefOK, Defined
<1>4. def[Call.block][Call.decl] \in Value
  BY <1>1, <1>3, TableFacts DEF Defined
<1> QED
  BY <1>1, <1>3, <1>4, TypesReturn

\* So does one that goes on in the only predecessor.
LEMMA TypesReadSinglePred == TypeOK /\ Types /\ ReadSinglePred => Types'
<1> SUFFICES ASSUME TypeOK, Types, ReadSinglePred PROVE Types'
  OBVIOUS
<1> DEFINE b == Call.block
           d == Call.decl
           c == preds[b][1]
<1>1. calls # <<>> /\ Call.fn = "readLocalVariable" /\ Len(preds[b]) = 1 /\ dangling' \in BOOLEAN
      /\ UNCHANGED <<vars, values>> /\ Continue(<<ReadCall(c, d), WriteBackCall(b, d)>>)
  BY DEF ReadSinglePred, Running, Call, Types, ErasedOK
<1>2. b \in Block /\ b \in Nat /\ d \in Decls
  BY <1>1, CallFacts
<1>3. preds[b] \in Seq(Block)
  BY <1>2 DEF TypeOK
<1>4. c \in Block /\ c \in Nat
  <2>1. 1 \in 1 .. Len(preds[b])
    BY <1>1
  <2>2. c \in Block
    BY <1>3, <2>1, ElementOfSeq
  <2> QED
    BY <2>2 DEF Block
<1> DEFINE c1 == ReadCall(c, d)
           c2 == WriteBackCall(b, d)
<1> HIDE DEF b, d, c
<1>5. c1 \in Activation /\ CallOK(c1, Block, DOMAIN phis)
  BY <1>2, <1>4, NewActivations, NewCalls
<1>6. c2 \in Activation /\ CallOK(c2, Block, DOMAIN phis) /\ ~FilledBy(c2)
  BY <1>2, NewActivations, NewCalls
<1>7. Continue(<<c1, c2>>)
  BY <1>1
<1> HIDE DEF c1, c2
<1> QED
  BY <1>1, <1>5, <1>6, <1>7, TypesGoOnTwo

\* So does addPhiOperands when it hands the phi to optimizePhi.
LEMMA TypesFillDone == TypeOK /\ Types /\ FillDone => Types'
<1> SUFFICES ASSUME TypeOK, Types, FillDone PROVE Types'
  OBVIOUS
<1>1. calls # <<>> /\ Call.fn = "addPhiOperands" /\ dangling' \in BOOLEAN
      /\ UNCHANGED <<vars, values>> /\ Continue(<<OptimizeCall(Call.phi)>>)
  BY DEF FillDone, Running, Call, Types, ErasedOK
<1>2. Call.phi \in DOMAIN phis /\ Call.phi \in Nat
  BY <1>1, CallFacts
<1> QED
  BY <1>1, <1>2, NewActivations, NewCalls, TypesGoOnOne

\* So does optimizePhi when it keeps the phi.
LEMMA TypesOptimizeKeep == TypeOK /\ Types /\ OptimizeKeep => Types'
<1> SUFFICES ASSUME TypeOK, Types, OptimizeKeep PROVE Types'
  OBVIOUS
<1>1. calls # <<>> /\ Call.fn = "optimizePhi" /\ dangling' \in BOOLEAN
      /\ UNCHANGED <<vars, values>> /\ Return(Phi(Call.phi))
  BY DEF OptimizeKeep, Running, Call, Types, ErasedOK
<1>2. Call.phi \in DOMAIN phis /\ Call.phi \in Nat
  BY <1>1, CallFacts
<1>3. Phi(Call.phi) \in Value /\ Known(Phi(Call.phi), DOMAIN phis)
  BY <1>2, ValueFacts DEF Known
<1> QED
  BY <1>1, <1>3, TypesReturn

\* So does the loop over the candidates when it turns to the next.
LEMMA TypesOptimizeCandidate == TypeOK /\ Types /\ OptimizeCandidate => Types'
<1> SUFFICES ASSUME TypeOK, Types, OptimizeCandidate PROVE Types'
  OBVIOUS
<1> DEFINE s == Call.todo
           v == Call.same
<1>1. calls # <<>> /\ Call.fn = "candidates" /\ s # <<>> /\ dangling' \in BOOLEAN
      /\ UNCHANGED <<vars, values>> /\ Continue(<<OptimizeCall(Head(s)), CandidatesCall(Tail(s), v)>>)
  BY DEF OptimizeCandidate, Running, Call, Types, ErasedOK
<1>2. s \in Seq(DOMAIN phis) /\ s \in Seq(Nat) /\ v \in Value /\ Known(v, DOMAIN phis)
  BY <1>1, CallFacts
<1> HIDE DEF s, v
<1>3. Head(s) \in DOMAIN phis /\ Head(s) \in Nat /\ Tail(s) \in Seq(Nat) /\ Within(Tail(s), DOMAIN phis)
  BY <1>1, <1>2, SeqWithin
<1> DEFINE c1 == OptimizeCall(Head(s))
           c2 == CandidatesCall(Tail(s), v)
<1>4. c1 \in Activation /\ CallOK(c1, Block, DOMAIN phis)
  BY <1>3, NewActivations, NewCalls
<1>5. c2 \in Activation /\ CallOK(c2, Block, DOMAIN phis) /\ ~FilledBy(c2)
  BY <1>2, <1>3, NewActivations, NewCalls
<1>6. Continue(<<c1, c2>>)
  BY <1>1
<1> HIDE DEF c1, c2
<1> QED
  BY <1>1, <1>4, <1>5, <1>6, TypesGoOnTwo

\* So does the end of that loop.
LEMMA TypesCandidatesDone == TypeOK /\ Types /\ CandidatesDone => Types'
<1> SUFFICES ASSUME TypeOK, Types, CandidatesDone PROVE Types'
  OBVIOUS
<1>1. calls # <<>> /\ Call.fn = "candidates" /\ dangling' \in BOOLEAN
      /\ UNCHANGED <<vars, values>> /\ Return(Call.same)
  BY DEF CandidatesDone, Running, Call, Types, ErasedOK
<1>2. Call.same \in Value /\ Known(Call.same, DOMAIN phis)
  BY <1>1, CallFacts
<1> QED
  BY <1>1, <1>2, TypesReturn

\* So does sealBlock when it turns to the next incomplete phi.
LEMMA TypesSealPhi == TypeOK /\ Types /\ SealPhi => Types'
<1> SUFFICES ASSUME TypeOK, Types, SealPhi PROVE Types'
  OBVIOUS
<1>1. calls # <<>> /\ Call.fn = "sealBlock" /\ UNCHANGED <<vars, values>>
  BY DEF SealPhi, Running, Call
<1> DEFINE b == Call.block
           S == Call.todo
<1>2. PICK e \in S : /\ dangling' = (e[1] \in erased)
                     /\ Continue(<<FillCall(e[1], e[2], preds[b]), SealCall(b, S \ {e})>>)
  BY DEF SealPhi
<1>3. /\ b \in Block /\ b \in Nat /\ S \in SUBSET (Nat \X Decls)
      /\ \A f \in S : f[1] \in DOMAIN phis /\ f[1] \in Nat /\ f[2] \in Decls
  BY <1>1, CallFacts
<1>4. preds[b] \in Seq(Block) /\ Block \subseteq Nat
  BY <1>3 DEF TypeOK, Block
<1>5. preds[b] \in Seq(Nat) /\ Within(preds[b], Block)
  BY <1>4, SeqMonotonic, SeqWithin
<1> DEFINE c1 == FillCall(e[1], e[2], preds[b])
           c2 == SealCall(b, S \ {e})
<1> HIDE DEF b, S
<1>6. e[1] \in DOMAIN phis /\ e[1] \in Nat /\ e[2] \in Decls /\ S \ {e} \in SUBSET (Nat \X Decls)
      /\ \A f \in S \ {e} : f[1] \in DOMAIN phis
  BY <1>3
<1>7. c1 \in Activation /\ CallOK(c1, Block, DOMAIN phis)
  BY <1>5, <1>6, NewActivations, NewCalls
<1>8. c2 \in Activation /\ CallOK(c2, Block, DOMAIN phis) /\ ~FilledBy(c2)
  BY <1>3, <1>6, NewActivations, NewCalls
<1>9. dangling' \in BOOLEAN /\ Continue(<<c1, c2>>)
  BY <1>2
<1> HIDE DEF c1, c2
<1> QED
  BY <1>1, <1>7, <1>8, <1>9, TypesGoOnTwo

\* A phi created in an unsealed block and noted there keeps the types.
LEMMA TypesReadUnsealed == TypeOK /\ Types /\ ReadUnsealed => Types'
<1> SUFFICES ASSUME TypeOK, Types, ReadUnsealed PROVE Types'
  OBVIOUS
<1> DEFINE b == Call.block
           d == Call.decl
           p == Len(phis) + 1
<1>1. /\ calls # <<>> /\ Call.fn = "readLocalVariable" /\ ~Defined(Call)
      /\ UNCHANGED <<vars, erased, code, uses, dangling>>
      /\ AddEmptyPhi(b, d) /\ Define(b, d, Phi(p)) /\ Return(Phi(p))
      /\ inc' = [inc EXCEPT ![b] = @ \cup {<<p, d>>}]
  BY DEF ReadUnsealed, Running, Call
<1>2. b \in Block /\ b \in Nat /\ d \in Decls
  BY <1>1, CallFacts
<1>3. UNCHANGED <<prog, last, frames>> /\ Block' = Block /\ dangling' \in BOOLEAN
  BY <1>1 DEF vars, skeleton, Block, Types, ErasedOK
<1> HIDE DEF b, d
<1>4. /\ PhisOK' /\ UsersOK' /\ DOMAIN phis \subseteq DOMAIN phis' /\ p \in DOMAIN phis' /\ p \in Nat
      /\ Known(Phi(p), DOMAIN phis') /\ Phi(p) \in Value
  <2>1. last' = last /\ AddEmptyPhi(b, d)
    BY <1>1, <1>3
  <2>2. /\ PhisOK' /\ UsersOK' /\ DOMAIN phis \subseteq DOMAIN phis'
        /\ Len(phis) + 1 \in DOMAIN phis' /\ Len(phis) \in Nat
        /\ Known(Phi(Len(phis) + 1), DOMAIN phis') /\ Phi(Len(phis) + 1) \in Value
    BY <1>2, <2>1, NewPhi
  <2> QED
    BY <2>2
<1> HIDE DEF p
<1>5. DefOK'
  BY <1>1, <1>2, <1>3, <1>4, DefineFacts
<1>6. BodyOK' /\ CodeOK' /\ UsesOK' /\ ErasedOK'
      /\ \A c : CallOK(c, Block, DOMAIN phis) => CallOK(c, Block', DOMAIN phis')
  BY <1>1, <1>3, <1>4, PartsKeep
<1>7. IncOK'
  <2>1. inc \in [Block -> SUBSET (Nat \X Decls)] /\ \A c \in Block : \A e \in inc[c] : e[1] \in DOMAIN phis
    BY DEF Types, IncOK
  <2>2. <<p, d>> \in Nat \X Decls /\ <<p, d>>[1] = p
    BY <1>2, <1>4
  <2>3. inc' \in [Block -> SUBSET (Nat \X Decls)]
    BY <1>1, <1>2, <2>1, <2>2
  <2>4. ASSUME NEW c \in Block, NEW e \in inc'[c] PROVE e[1] \in DOMAIN phis'
    <3>1. e \in inc[c] \/ e = <<p, d>>
      BY <1>1, <2>1, <2>4
    <3> QED
      BY <1>4, <2>1, <2>2, <3>1
  <2> QED
    BY <1>3, <2>3, <2>4 DEF IncOK
<1>8. RetOK' /\ CallsOK'
  <2>1. CallsOK /\ ret' = Phi(p) /\ calls' = Tail(calls)
    BY <1>1 DEF Types, Return
  <2>2. CallsOK'
    BY <1>1, <1>6, <2>1, CallsReturn
  <2> QED
    BY <1>4, <2>1, <2>2 DEF RetOK
<1> QED
  BY <1>4, <1>5, <1>6, <1>7, <1>8 DEF Types

\* So does a phi created in a sealed block, to be filled at once.
LEMMA TypesReadJoin == TypeOK /\ Types /\ ReadJoin => Types'
<1> SUFFICES ASSUME TypeOK, Types, ReadJoin PROVE Types'
  OBVIOUS
<1> DEFINE b == Call.block
           d == Call.decl
           p == Len(phis) + 1
           c1 == FillCall(p, d, preds[b])
           c2 == WriteBackCall(b, d)
           cs == <<c1, c2>>
<1>1. /\ calls # <<>> /\ Call.fn = "readLocalVariable"
      /\ UNCHANGED <<vars, inc, erased, code, uses, dangling>>
      /\ AddEmptyPhi(b, d) /\ Define(b, d, Phi(p)) /\ Continue(cs)
  BY DEF ReadJoin, Running, Call
<1>2. b \in Block /\ b \in Nat /\ d \in Decls
  BY <1>1, CallFacts
<1>3. UNCHANGED <<prog, last, frames>> /\ Block' = Block /\ dangling' \in BOOLEAN
  BY <1>1 DEF vars, skeleton, Block, Types, ErasedOK
<1>4. preds[b] \in Seq(Block) /\ Block \subseteq Nat
  BY <1>2 DEF TypeOK, Block
<1>5. preds[b] \in Seq(Nat) /\ Within(preds[b], Block)
  BY <1>4, SeqMonotonic, SeqWithin
<1> HIDE DEF b, d, c1, c2, cs
<1>6. /\ PhisOK' /\ UsersOK' /\ DOMAIN phis \subseteq DOMAIN phis' /\ p \in DOMAIN phis' /\ p \in Nat
      /\ Known(Phi(p), DOMAIN phis') /\ Phi(p) \in Value
  <2>1. last' = last /\ AddEmptyPhi(b, d)
    BY <1>1, <1>3
  <2>2. /\ PhisOK' /\ UsersOK' /\ DOMAIN phis \subseteq DOMAIN phis'
        /\ Len(phis) + 1 \in DOMAIN phis' /\ Len(phis) \in Nat
        /\ Known(Phi(Len(phis) + 1), DOMAIN phis') /\ Phi(Len(phis) + 1) \in Value
    BY <1>2, <2>1, NewPhi
  <2> QED
    BY <2>2
<1> HIDE DEF p
<1>7. DefOK'
  BY <1>1, <1>2, <1>3, <1>6, DefineFacts
<1>8. BodyOK' /\ IncOK' /\ CodeOK' /\ UsesOK' /\ ErasedOK'
      /\ \A c : CallOK(c, Block, DOMAIN phis) => CallOK(c, Block', DOMAIN phis')
  BY <1>1, <1>3, <1>6, PartsKeep
<1>9. /\ c1 \in Activation /\ c2 \in Activation /\ ~FilledBy(c2)
      /\ CallOK(c1, Block', DOMAIN phis') /\ CallOK(c2, Block', DOMAIN phis')
  <2>1. c1 \in Activation /\ CallOK(c1, Block', DOMAIN phis')
    BY <1>2, <1>3, <1>5, <1>6, NewActivations, NewCalls DEF c1
  <2>2. c2 \in Activation /\ CallOK(c2, Block', DOMAIN phis') /\ ~FilledBy(c2)
    BY <1>2, <1>3, NewActivations, NewCalls DEF c2
  <2> QED
    BY <2>1, <2>2
<1>10. RetOK' /\ CallsOK'
  <2>1. CallsOK /\ ret' = <<>> /\ calls' = cs \o Tail(calls)
    BY <1>1 DEF Types, Continue
  <2>2. cs \in Seq(Activation) /\ DOMAIN cs = {1, 2} /\ cs[1] = c1 /\ cs[2] = c2
    BY <1>9 DEF cs
  <2>3. /\ \A i \in DOMAIN cs : CallOK(cs[i], Block', DOMAIN phis')
        /\ \A i \in DOMAIN cs : FilledBy(cs[i]) => cs[i].todo # <<>> \/ (i = 1 /\ ret' = <<>>)
    BY <1>9, <2>1, <2>2
  <2>4. CallsOK'
    BY <1>1, <1>8, <2>1, <2>2, <2>3, CallsContinue
  <2> QED
    BY <2>1, <2>4, ValueFacts DEF RetOK, Known
<1> QED
  BY <1>6, <1>7, <1>8, <1>10 DEF Types

\* So does the write that ends a recursive read.
LEMMA TypesWriteBack == TypeOK /\ Types /\ WriteBack => Types'
<1> SUFFICES ASSUME TypeOK, Types, WriteBack PROVE Types'
  OBVIOUS
<1>1. /\ calls # <<>> /\ Call.fn = "writeLocalVariable" /\ ret # <<>>
      /\ UNCHANGED <<vars, inc, phis, users, erased, code, uses>>
      /\ Define(Call.block, Call.decl, ret) /\ Return(ret) /\ dangling' \in BOOLEAN
  BY DEF WriteBack, Running, Call, Dead
<1>2. Call.block \in Block /\ Call.decl \in Decls
  BY <1>1, CallFacts
<1>3. UNCHANGED <<prog, last, frames>> /\ DOMAIN phis \subseteq DOMAIN phis' /\ DOMAIN phis' = DOMAIN phis
      /\ Len(phis') = Len(phis)
  BY <1>1 DEF vars, skeleton
<1>4. ret \in Value /\ Known(ret, DOMAIN phis')
  BY <1>1 DEF Types, RetOK
<1>5. DefOK'
  BY <1>1, <1>2, <1>3, <1>4, DefineFacts
<1>6. BodyOK' /\ IncOK' /\ PhisOK' /\ UsersOK' /\ CodeOK' /\ UsesOK' /\ ErasedOK'
      /\ \A c : CallOK(c, Block, DOMAIN phis) => CallOK(c, Block', DOMAIN phis')
  BY <1>1, <1>3, PartsKeep
<1>7. CallsOK /\ ret' = ret /\ calls' = Tail(calls)
  BY <1>1 DEF Types, Return
<1>8. CallsOK'
  BY <1>1, <1>6, <1>7, CallsReturn
<1>9. RetOK'
  BY <1>4, <1>7 DEF RetOK
<1> QED
  BY <1>5, <1>6, <1>8, <1>9 DEF Types

\* Two activations in front of the others are one sequence.
LEMMA Pair == ASSUME NEW a, NEW b PROVE <<a>> \o <<b>> = <<a, b>>
<1> DEFINE S == {a, b}
           s == <<a>>
           t == <<b>>
           u == <<a, b>>
<1>1. s \in Seq(S) /\ t \in Seq(S) /\ u \in Seq(S) /\ Len(s) = 1 /\ Len(t) = 1 /\ Len(u) = 2
      /\ s[1] = a /\ t[1] = b /\ u[1] = a /\ u[2] = b
  OBVIOUS
<1> HIDE DEF S, s, t, u
<1>2. s \o t \in Seq(S) /\ Len(s \o t) = 2 /\ (s \o t)[1] = a /\ (s \o t)[2] = b
  BY <1>1, ConcatProperties
<1>3. s \o t = u
  BY <1>1, <1>2, SeqEqual
<1> QED
  BY <1>3 DEF s, t, u

\* addPhiOperands reading in the next predecessor keeps the types.
LEMMA TypesFillRead == TypeOK /\ Types /\ FillRead => Types'
<1> SUFFICES ASSUME TypeOK, Types, FillRead PROVE Types'
  OBVIOUS
<1> DEFINE s == Call.todo
           d == Call.decl
           c1 == ReadCall(Head(s), d)
           cs == <<c1, Call>>
<1>1. /\ calls # <<>> /\ Call.fn = "addPhiOperands" /\ s # <<>> /\ ret = <<>> /\ dangling' \in BOOLEAN
      /\ UNCHANGED <<vars, values, ret, dangling>> /\ calls' = <<c1>> \o calls
  BY DEF FillRead, Running, Call, Types, ErasedOK
<1>2. s \in Seq(Block) /\ d \in Decls /\ Call \in Activation /\ CallOK(Call, Block, DOMAIN phis)
  BY <1>1, CallFacts
<1> HIDE DEF s, d
<1>3. Head(s) \in Block /\ Block \subseteq Nat
  <2>1. s # <<>>
    BY <1>1
  <2>2. Head(s) \in Block
    BY <1>2, <2>1, SeqWithin
  <2> QED
    BY <2>2 DEF Block
<1>4. c1 \in Activation /\ CallOK(c1, Block, DOMAIN phis) /\ ~FilledBy(c1)
  BY <1>2, <1>3, NewActivations, NewCalls
<1> HIDE DEF c1
<1>5. calls' = cs \o Tail(calls)
  <2>1. calls = <<Call>> \o Tail(calls) /\ calls \in Seq(Activation) /\ Tail(calls) \in Seq(Activation)
    BY <1>1 DEF Types, CallsOK, Call
  <2> DEFINE rest == Tail(calls)
             c2 == Call
  <2>2. calls' = <<c1>> \o (<<c2>> \o rest) /\ c2 \in Activation /\ rest \in Seq(Activation)
    BY <1>1, <1>2, <2>1
  <2> HIDE DEF rest, c2
  <2>3. <<c1>> \o (<<c2>> \o rest) = <<c1, c2>> \o rest
    <3>1. <<c1>> \in Seq(Activation) /\ <<c2>> \in Seq(Activation)
      BY <1>4, <2>2
    <3>2. <<c1>> \o (<<c2>> \o rest) = (<<c1>> \o <<c2>>) \o rest
      BY <2>2, <3>1, ConcatAssociative
    <3>3. <<c1>> \o <<c2>> = <<c1, c2>>
      BY Pair
    <3> QED
      BY <3>2, <3>3
  <2> QED
    BY <2>2, <2>3 DEF rest, c2
<1>6. cs \in Seq(Activation) /\ DOMAIN cs = {1, 2} /\ cs[1] = c1 /\ cs[2] = Call
  <2> DEFINE c2 == Call
  <2>1. c2 \in Activation /\ cs = <<c1, c2>>
    BY <1>2
  <2> HIDE DEF c2, cs
  <2>2. cs \in Seq(Activation) /\ DOMAIN cs = {1, 2} /\ cs[1] = c1 /\ cs[2] = c2
    BY <1>4, <2>1
  <2> QED
    BY <2>2 DEF c2
<1> HIDE DEF cs
<1>7. UNCHANGED <<prog, last, frames, def, inc, phis, users, erased, code, uses>> /\ Block' = Block
  BY <1>1 DEF vars, skeleton, values, Block
<1>8. BodyOK' /\ DefOK' /\ IncOK' /\ PhisOK' /\ UsersOK' /\ CodeOK' /\ UsesOK' /\ ErasedOK' /\ RetOK'
      /\ \A c : CallOK(c, Block, DOMAIN phis) => CallOK(c, Block', DOMAIN phis')
  BY <1>1, <1>7, PartsKeep
<1>9. /\ \A i \in DOMAIN cs : CallOK(cs[i], Block', DOMAIN phis')
      /\ \A i \in DOMAIN cs : FilledBy(cs[i]) => cs[i].todo # <<>> \/ (i = 1 /\ ret' = <<>>)
  BY <1>1, <1>2, <1>4, <1>6, <1>8 DEF s
<1>10. CallsOK'
  <2>1. CallsOK
    BY DEF Types
  <2> QED
    BY <1>1, <1>5, <1>6, <1>8, <1>9, <2>1, CallsContinue
<1> QED
  BY <1>8, <1>10 DEF Types

\* So does the operand it adds, with its entry in a use list.
LEMMA TypesFillAdd == TypeOK /\ Types /\ FillAdd => Types'
<1> SUFFICES ASSUME TypeOK, Types, FillAdd PROVE Types'
  OBVIOUS
<1> DEFINE p == Call.phi
           s == Call.todo
           d == Call.decl
           b == Head(s)
           c1 == FillCall(p, d, Tail(s))
           cs == <<c1>>
<1>1. /\ calls # <<>> /\ Call.fn = "addPhiOperands" /\ ret # <<>> /\ dangling' \in BOOLEAN
      /\ UNCHANGED <<vars, def, inc, erased, code, uses>>
      /\ Taken(p, ret, b) /\ Continue(cs)
  BY DEF FillAdd, Running, Call, Taken, Dead
<1>2. /\ p \in DOMAIN phis /\ p \in Nat /\ d \in Decls /\ s # <<>>
      /\ s \in Seq(Block) /\ s \in Seq(Nat)
  BY <1>1, CallFacts
<1> HIDE DEF p, s, d
<1>3. b \in Block /\ Tail(s) \in Seq(Nat) /\ Within(Tail(s), Block)
  <2>1. b \in Block /\ Within(Tail(s), Block)
    BY <1>2, SeqWithin
  <2>2. Tail(s) \in Seq(Nat)
    BY <1>2, SeqWithin
  <2> QED
    BY <2>1, <2>2
<1>4. UNCHANGED <<prog, last, frames>> /\ Block' = Block /\ ret \in Value /\ Known(ret, DOMAIN phis)
  BY <1>1 DEF vars, skeleton, Block, Types, RetOK
<1>5. PhisOK' /\ UsersOK' /\ DOMAIN phis' = DOMAIN phis
  BY <1>1, <1>2, <1>3, <1>4, TakenFacts
<1>6. BodyOK' /\ DefOK' /\ IncOK' /\ CodeOK' /\ UsesOK' /\ ErasedOK'
      /\ \A c : CallOK(c, Block, DOMAIN phis) => CallOK(c, Block', DOMAIN phis')
  BY <1>1, <1>4, <1>5, PartsKeep
<1>7. c1 \in Activation /\ CallOK(c1, Block', DOMAIN phis')
  BY <1>2, <1>3, <1>4, <1>5, NewActivations, NewCalls
<1> HIDE DEF c1
<1>8. cs \in Seq(Activation) /\ DOMAIN cs = {1} /\ cs[1] = c1
  BY <1>7
<1> HIDE DEF cs
<1>9. CallsOK /\ ret' = <<>> /\ calls' = cs \o Tail(calls)
  BY <1>1 DEF Types, Continue
<1>10. /\ \A i \in DOMAIN cs : CallOK(cs[i], Block', DOMAIN phis')
       /\ \A i \in DOMAIN cs : FilledBy(cs[i]) => cs[i].todo # <<>> \/ (i = 1 /\ ret' = <<>>)
  BY <1>7, <1>8, <1>9
<1>11. CallsOK'
  BY <1>1, <1>6, <1>8, <1>9, <1>10, CallsContinue
<1>12. RetOK'
  BY <1>9, ValueFacts DEF RetOK, Known
<1> QED
  BY <1>5, <1>6, <1>11, <1>12 DEF Types

\* What optimizePhi replaces a phi by is a value the function has.
LEMMA SameFacts ==
  ASSUME Types, NEW p \in DOMAIN phis
  PROVE  /\ Same(p) \in Value /\ Known(Same(p), DOMAIN phis)
         /\ Same(p) = Undef \/ (Same(p) \in Incoming(p) /\ Same(p) # Phi(p))
         /\ Same(p) # Phi(p)
<1>1. \A v \in Incoming(p) : v \in Value /\ Known(v, DOMAIN phis)
  <2>1. phis[p] \in PhiNode
    BY DEF Types, PhisOK
  <2>2. phis[p].ops \in Seq([val : Value, from : Nat])
    BY <2>1 DEF PhiNode
  <2> DEFINE Operand == [val : Value, from : Nat]
             l == phis[p].ops
  <2>3. l \in Seq(Operand)
    BY <2>2
  <2> HIDE DEF l, Operand
  <2>4. DOMAIN l = 1 .. Len(l) /\ l \in [1 .. Len(l) -> Operand]
    BY <2>3, LenProperties
  <2>5. \A i \in DOMAIN l : l[i].val \in Value
    BY <2>4 DEF Operand
  <2>6. \A i \in DOMAIN l : Known(l[i].val, DOMAIN phis)
    BY DEF Types, PhisOK, l
  <2> QED
    BY <2>5, <2>6 DEF Incoming, l
<1>2. CASE Operands(p) = {}
  BY <1>2, ValueFacts DEF Same, Known
<1>3. CASE Operands(p) # {}
  <2>1. Same(p) \in Operands(p)
    BY <1>3 DEF Same
  <2> QED
    BY <1>1, <2>1 DEF Operands
<1> QED
  BY <1>2, <1>3

\* Replacing and erasing a trivial phi keeps the types.
LEMMA TypesOptimizeReplace == TypeOK /\ Types /\ OptimizeReplace => Types'
<1> SUFFICES ASSUME TypeOK, Types, OptimizeReplace PROVE Types'
  OBVIOUS
<1> DEFINE p == Call.phi
           s == Same(p)
           l == Without(users[p], p)
           c1 == CandidatesCall(l, s)
           cs == <<c1>>
<1>1. /\ calls # <<>> /\ Call.fn = "optimizePhi" /\ UNCHANGED <<vars, inc, code, dangling>>
      /\ ReplaceAllUses(p, s) /\ MoveUsers(p, s) /\ erased' = erased \cup {p} /\ Continue(cs)
  BY DEF OptimizeReplace, Running, Call
<1>2. p \in DOMAIN phis /\ p \in Nat
  BY <1>1, CallFacts
<1> HIDE DEF p
<1>3. s \in Value /\ Known(s, DOMAIN phis)
  BY <1>2, SameFacts
<1> HIDE DEF s
<1>4. UNCHANGED <<prog, last, frames>> /\ Block' = Block /\ dangling' \in BOOLEAN
  BY <1>1 DEF vars, skeleton, Block, Types, ErasedOK
<1>5. DefOK' /\ UsesOK' /\ PhisOK' /\ DOMAIN phis' = DOMAIN phis /\ Len(phis') = Len(phis)
  BY <1>1, <1>2, <1>3, <1>4, ReplacedFacts
<1>6. UsersOK' /\ l \in Seq(DOMAIN phis)
  BY <1>1, <1>2, <1>3, <1>5, MovedFacts
<1> HIDE DEF l
<1>7. BodyOK' /\ IncOK' /\ CodeOK'
      /\ \A c : CallOK(c, Block, DOMAIN phis) => CallOK(c, Block', DOMAIN phis')
  BY <1>1, <1>4, <1>5, PartsKeep
<1>8. ErasedOK'
  BY <1>1, <1>2, <1>4, <1>5 DEF Types, ErasedOK
<1>9. c1 \in Activation /\ CallOK(c1, Block', DOMAIN phis') /\ ~FilledBy(c1)
  <2>1. DOMAIN phis \subseteq Nat
    BY DEF Types, PhisOK
  <2>2. l \in Seq(Nat) /\ Within(l, DOMAIN phis)
    BY <1>6, <2>1, SeqMonotonic, SeqWithin
  <2> QED
    BY <1>3, <1>5, <2>2, NewActivations, NewCalls
<1> HIDE DEF c1
<1>10. cs \in Seq(Activation) /\ DOMAIN cs = {1} /\ cs[1] = c1
  BY <1>9
<1> HIDE DEF cs
<1>11. CallsOK /\ ret' = <<>> /\ calls' = cs \o Tail(calls)
  BY <1>1 DEF Types, Continue
<1>12. /\ \A i \in DOMAIN cs : CallOK(cs[i], Block', DOMAIN phis')
       /\ \A i \in DOMAIN cs : FilledBy(cs[i]) => cs[i].todo # <<>> \/ (i = 1 /\ ret' = <<>>)
  BY <1>9, <1>10, <1>11
<1>13. CallsOK'
  BY <1>1, <1>7, <1>10, <1>11, <1>12, CallsContinue
<1>14. RetOK'
  BY <1>11, ValueFacts DEF RetOK, Known
<1> QED
  BY <1>5, <1>6, <1>7, <1>8, <1>13, <1>14 DEF Types

\* No activation is left, or the first one is pushed.
LEMMA TypesStart ==
  ASSUME TypeOK, Types, UNCHANGED <<vars, values, dangling>>,
         calls' = <<>> \/ \E c \in Activation :
           calls' = <<c>> /\ CallOK(c, Block, DOMAIN phis) /\ ~FilledBy(c),
         ret' \in Value \cup {<<>>}, Known(ret', DOMAIN phis)
  PROVE  Types'
<1>1. UNCHANGED <<prog, frames, last, def, inc, phis, users, erased, code, uses>> /\ dangling' \in BOOLEAN
      /\ Block' = Block
  BY DEF vars, skeleton, values, Types, ErasedOK, Block
<1>2. BodyOK' /\ DefOK' /\ IncOK' /\ PhisOK' /\ UsersOK' /\ CodeOK' /\ UsesOK' /\ ErasedOK'
  BY <1>1, PartsKeep
<1>3. RetOK'
  BY <1>1 DEF RetOK
<1>4. CallsOK'
  <2>1. CASE calls' = <<>>
    BY <2>1 DEF CallsOK
  <2>2. CASE calls' # <<>>
    <3>1. PICK c \in Activation : calls' = <<c>> /\ CallOK(c, Block, DOMAIN phis) /\ ~FilledBy(c)
      BY <2>2
    <3> DEFINE cs == <<c>>
    <3>2. cs \in Seq(Activation) /\ DOMAIN cs = {1} /\ cs[1] = c /\ calls' = cs
      BY <3>1
    <3> HIDE DEF cs
    <3>3. CallOK(c, Block', DOMAIN phis')
      BY <1>1, <3>1
    <3> QED
      BY <3>1, <3>2, <3>3 DEF CallsOK, FilledBy
  <2> QED
    BY <2>1, <2>2
<1> QED
  BY <1>2, <1>3, <1>4 DEF Types

\* The steps that begin an activation or load a variable keep the types.
LEMMA TypesEvaluate == TypeOK /\ Types /\ (EvalOperand \/ LoadOperand \/ BeginSeal) => Types'
<1> SUFFICES ASSUME TypeOK, Types, EvalOperand \/ LoadOperand \/ BeginSeal PROVE Types'
  OBVIOUS
<1>1. CASE EvalOperand
  <2> DEFINE c == ReadCall(Curr, Reads)
  <2>1. /\ UNCHANGED <<vars, values, dangling>> /\ ret' = ret /\ calls' = <<c>>
        /\ Reads # NoDecl /\ ~InMemory(Reads)
    BY <1>1 DEF EvalOperand
  <2>2. Reads \in Decls /\ Curr \in Block /\ Curr \in Nat
    BY <2>1, TokenFacts, InRegister DEF Types, TypeOK, Block
  <2>3. c \in Activation /\ CallOK(c, Block, DOMAIN phis) /\ ~FilledBy(c)
    BY <2>2, NewActivations, NewCalls
  <2>4. ret' \in Value \cup {<<>>} /\ Known(ret', DOMAIN phis)
    BY <2>1 DEF Types, RetOK
  <2> HIDE DEF c
  <2> QED
    BY <2>1, <2>3, <2>4, TypesStart
<1>2. CASE LoadOperand
  <2>1. UNCHANGED <<vars, values, dangling>> /\ calls' = calls /\ calls = <<>> /\ ret' = Load(Token)
    BY <1>2 DEF LoadOperand
  <2>2. Token \in Nat
    BY TokenFacts DEF Types
  <2>3. ret' \in Value /\ Known(ret', DOMAIN phis)
    BY <2>1, <2>2, ValueFacts DEF Known
  <2> QED
    BY <2>1, <2>3, TypesStart
<1>3. CASE BeginSeal
  <2> DEFINE b == Head(sealing)
             S == inc[b]
             c == SealCall(b, S)
  <2>1. UNCHANGED <<vars, values, dangling>> /\ calls' = <<c>> /\ ret' = <<>> /\ sealing # <<>>
    BY <1>3 DEF BeginSeal
  <2>2. b \in Block /\ b \in Nat
    BY <2>1 DEF TypeOK, Block
  <2>3. S \in SUBSET (Nat \X Decls) /\ \A e \in S : e[1] \in DOMAIN phis
    BY <2>2 DEF Types, IncOK
  <2> HIDE DEF b, S
  <2>4. c \in Activation /\ CallOK(c, Block, DOMAIN phis) /\ ~FilledBy(c)
    BY <2>2, <2>3, NewActivations, NewCalls
  <2>5. ret' \in Value \cup {<<>>} /\ Known(ret', DOMAIN phis)
    BY <2>1, ValueFacts DEF Known
  <2> HIDE DEF c
  <2> QED
    BY <2>1, <2>4, <2>5, TypesStart
<1> QED
  BY <1>1, <1>2, <1>3

\* So does the end of sealBlock.
LEMMA TypesEndSeal == TypeOK /\ Types /\ EndSeal => Types'
<1> SUFFICES ASSUME TypeOK, Types, EndSeal PROVE Types'
  OBVIOUS
<1>1. /\ calls # <<>> /\ calls' = Tail(calls) /\ ret' = <<>> /\ SealBlock
      /\ inc' = [inc EXCEPT ![Call.block] = {}]
      /\ UNCHANGED <<def, phis, users, erased, code, uses, dangling>>
  BY DEF EndSeal, Running
<1>2. UNCHANGED <<prog, last, frames>> /\ Block' = Block /\ dangling' \in BOOLEAN
  BY <1>1 DEF SealBlock, Block, Types, ErasedOK
<1>3. BodyOK' /\ DefOK' /\ PhisOK' /\ UsersOK' /\ CodeOK' /\ UsesOK' /\ ErasedOK'
      /\ \A c : CallOK(c, Block, DOMAIN phis) => CallOK(c, Block', DOMAIN phis')
  BY <1>1, <1>2, PartsKeep
<1>4. IncOK'
  <2>1. inc \in [Block -> SUBSET (Nat \X Decls)] /\ \A c \in Block : \A e \in inc[c] : e[1] \in DOMAIN phis
    BY DEF Types, IncOK
  <2>2. inc' \in [Block -> SUBSET (Nat \X Decls)] /\ \A c \in Block : inc'[c] \subseteq inc[c]
    BY <1>1, <2>1
  <2> QED
    BY <1>1, <1>2, <2>1, <2>2 DEF IncOK
<1>5. CallsOK'
  <2>1. CallsOK
    BY DEF Types
  <2> QED
    BY <1>1, <1>3, <2>1, CallsReturn
<1>6. RetOK'
  BY <1>1, ValueFacts DEF RetOK, Known
<1> QED
  BY <1>3, <1>4, <1>5, <1>6 DEF Types

\* What EmitStatement writes, if anything, and where.
LEMMA StatementFacts ==
  ASSUME TypeOK, Types, EmitStatement
  PROVE  LET v == IF Reads = NoDecl \/ Passes # NoDecl THEN Inst(Token) ELSE ret
             table == IF Writes = NoDecl \/ InMemory(Writes) THEN def
                      ELSE [def EXCEPT ![Curr] = Mapped(@, Writes, v)]
         IN  /\ def' = Extend(table, <<>>) /\ table \in [Block -> Table]
             /\ Writes # NoDecl /\ ~InMemory(Writes) => v \in Value /\ (IsPhi(v) => v = ret) /\ Writes \in Decls
             /\ \A b \in Block : b # Curr => table[b] = def[b]
             /\ \A d \in DOMAIN table[Curr] :
                  \/ d \in DOMAIN def[Curr] /\ table[Curr][d] = def[Curr][d]
                  \/ Writes # NoDecl /\ ~InMemory(Writes) /\ d = Writes /\ table[Curr][d] = v
             /\ DOMAIN def[Curr] \subseteq DOMAIN table[Curr]
<1> DEFINE v == IF Reads = NoDecl \/ Passes # NoDecl THEN Inst(Token) ELSE ret
           w == Writes # NoDecl /\ ~InMemory(Writes)
           table == IF Writes = NoDecl \/ InMemory(Writes) THEN def
                    ELSE [def EXCEPT ![Curr] = Mapped(@, Writes, v)]
<1>1. def' = Extend(table, <<>>) /\ (Reads # NoDecl => ret # <<>>)
  BY DEF EmitStatement
<1>2. def \in [Block -> Table] /\ Curr \in Block /\ def[Curr] \in Table
  BY DEF Types, DefOK, TypeOK
<1>3. Token \in Nat /\ Writes \in Variable
  BY TokenFacts DEF Types
<1>4. w => Writes \in Decls
  BY <1>3, InRegister
<1>5. v \in Value /\ (IsPhi(v) => v = ret)
  <2>1. CASE Reads = NoDecl \/ Passes # NoDecl
    BY <1>3, <2>1, ValueFacts
  <2>2. CASE ~(Reads = NoDecl \/ Passes # NoDecl)
    BY <1>1, <2>2 DEF Types, RetOK
  <2> QED
    BY <2>1, <2>2
<1> HIDE DEF v
<1>6. CASE ~w
  BY <1>1, <1>2, <1>5, <1>6 DEF v
<1>7. CASE w
  <2>1. /\ Mapped(def[Curr], Writes, v) \in Table
        /\ DOMAIN Mapped(def[Curr], Writes, v) = DOMAIN def[Curr] \cup {Writes}
        /\ Mapped(def[Curr], Writes, v)[Writes] = v
        /\ \A e \in DOMAIN def[Curr] : e # Writes => Mapped(def[Curr], Writes, v)[e] = def[Curr][e]
    BY <1>2, <1>4, <1>5, <1>7, MappedFacts
  <2> DEFINE m == Mapped(def[Curr], Writes, v)
  <2>2. table = [def EXCEPT ![Curr] = m]
    BY <1>7
  <2>3. m \in Table
    BY <2>1
  <2> HIDE DEF table, m
  <2>4. table \in [Block -> Table] /\ table[Curr] = m /\ \A b \in Block : b # Curr => table[b] = def[b]
    BY <1>2, <2>2, <2>3
  <2>5. \A d \in DOMAIN table[Curr] :
          (d \in DOMAIN def[Curr] /\ table[Curr][d] = def[Curr][d]) \/ (d = Writes /\ table[Curr][d] = v)
    BY <2>1, <2>4 DEF m
  <2>6. DOMAIN def[Curr] \subseteq DOMAIN table[Curr]
    BY <2>1, <2>4 DEF m
  <2> QED
    BY <1>1, <1>4, <1>5, <1>7, <2>4, <2>5, <2>6 DEF v, table
<1> QED
  BY <1>6, <1>7

\* A statement, whose new blocks get empty tables, keeps the types.
LEMMA TypesEmitStatement == TypeOK /\ Types /\ EmitStatement => Types'
<1> SUFFICES ASSUME TypeOK, Types, EmitStatement PROVE Types'
  OBVIOUS
<1>1. /\ calls = <<>> /\ (Reads # NoDecl => ret # <<>>) /\ Handler
      /\ inc' = Extend(inc, {})
      /\ code' = Extend(IF EmitsCode THEN [code EXCEPT ![Curr] = Append(@, Token)] ELSE code, <<>>)
      /\ uses' = (IF Reads = NoDecl THEN uses ELSE Mapped(uses, Token, ret))
      /\ dangling' = (Reads # NoDecl /\ Dead(ret)) /\ ret' = <<>>
      /\ UNCHANGED <<phis, users, erased, calls>>
  BY DEF EmitStatement, Handler
<1>2. [Next]_vars
  BY <1>1 DEF Next, Step
<1>3. prog' = prog /\ last \in Nat /\ last' \in Nat /\ last <= last' /\ Block \subseteq Block'
  BY <1>2, BodyKept
<1>4. BodyOK'
  BY <1>2, BodyNext DEF Types
<1>5. PhisOK' /\ UsersOK' /\ ErasedOK' /\ RetOK' /\ CallsOK'
  <2>1. PhisOK'
    BY <1>1, <1>3 DEF Types, PhisOK
  <2>2. UsersOK'
    BY <1>1 DEF Types, UsersOK, Within
  <2>3. ErasedOK'
    BY <1>1 DEF Types, ErasedOK, Dead
  <2>4. RetOK' /\ CallsOK'
    BY <1>1, ValueFacts DEF RetOK, CallsOK, Known
  <2> QED
    BY <2>1, <2>2, <2>3, <2>4
<1>6. UsesOK'
  <2>1. CASE Reads = NoDecl
    BY <1>1, <2>1 DEF Types, UsesOK
  <2>2. CASE Reads # NoDecl
    <3>1. ret \in Value /\ Known(ret, DOMAIN phis)
      BY <1>1, <2>2 DEF Types, RetOK
    <3> DEFINE us == uses'
    <3>2. us = [j \in DOMAIN uses \cup {Token} |-> IF j = Token THEN ret ELSE uses[j]]
      BY <1>1, <2>2 DEF Mapped
    <3> HIDE DEF us
    <3>3. \A i \in DOMAIN uses : uses[i] \in Value /\ Known(uses[i], DOMAIN phis)
      BY DEF Types, UsesOK
    <3>4. \A i \in DOMAIN us : us[i] \in Value /\ Known(us[i], DOMAIN phis)
      BY <3>1, <3>2, <3>3
    <3> QED
      BY <1>1, <3>4 DEF UsesOK, us
  <2> QED
    BY <2>1, <2>2
<1>7. IncOK'
  <2>1. inc \in [Block -> SUBSET (Nat \X Decls)] /\ \A b \in Block : \A e \in inc[b] : e[1] \in DOMAIN phis
    BY DEF Types, IncOK
  <2>2. {} \in SUBSET (Nat \X Decls)
    OBVIOUS
  <2>3. /\ inc' \in [Block' -> SUBSET (Nat \X Decls)]
        /\ \A b \in Block : inc'[b] = inc[b]
        /\ \A b \in Block' \ Block : inc'[b] = {}
    <3> DEFINE S == SUBSET (Nat \X Decls)
               all == Extend(inc, {})
    <3>1. OnBlocks(inc, S) /\ {} \in S
      BY <2>1, <2>2 DEF OnBlocks
    <3> HIDE DEF S
    <3>2. /\ all \in [Block' -> S]
          /\ \A b \in Block : all[b] = inc[b]
          /\ \A b \in Block' \ Block : all[b] = {}
      <4>1. all \in [Block' -> S]
        BY <1>3, <3>1, ExtendFacts
      <4>2. \A b \in Block : all[b] = inc[b]
        BY <1>3, <3>1, ExtendFacts
      <4>3. \A b \in Block' \ Block : all[b] = {}
        BY <1>3, <3>1, ExtendFacts
      <4> HIDE DEF all
      <4> QED
        BY <4>1, <4>2, <4>3
    <3>3. inc' = all
      BY <1>1
    <3> HIDE DEF all
    <3> QED
      BY <3>2, <3>3 DEF S
  <2>4. \A b \in Block' : \A e \in inc'[b] : e[1] \in DOMAIN phis
    BY <2>1, <2>3
  <2> QED
    BY <1>1, <2>3, <2>4 DEF IncOK
<1>8. CodeOK'
  <2> DEFINE table == IF EmitsCode THEN [code EXCEPT ![Curr] = Append(@, Token)] ELSE code
             S == Seq(DOMAIN prog)
  <2>1. code \in [Block -> S] /\ Curr \in Block
    BY DEF Types, CodeOK, TypeOK
  <2>2. EmitsCode => Token \in DOMAIN prog
    BY TokenFacts DEF EmitsCode, Types
  <2>3. EmitsCode => Append(code[Curr], Token) \in S
    BY <2>1, <2>2, AppendProperties
  <2>4. OnBlocks(table, S)
    <3>1. table \in [Block -> S]
      BY <2>1, <2>3
    <3> QED
      BY <3>1 DEF OnBlocks
  <2>5. <<>> \in S /\ code' = Extend(table, <<>>)
    BY <1>1
  <2> HIDE DEF S, table
  <2>6. code' \in [Block' -> S]
    BY <1>3, <2>4, <2>5, ExtendFacts
  <2> QED
    BY <1>3, <2>6 DEF CodeOK, S
<1>9. DefOK'
  <2> DEFINE v == IF Reads = NoDecl \/ Passes # NoDecl THEN Inst(Token) ELSE ret
             table == IF Writes = NoDecl \/ InMemory(Writes) THEN def
                      ELSE [def EXCEPT ![Curr] = Mapped(@, Writes, v)]
  <2>1. /\ def' = Extend(table, <<>>) /\ table \in [Block -> Table]
        /\ Writes # NoDecl /\ ~InMemory(Writes) => v \in Value /\ (IsPhi(v) => v = ret) /\ Writes \in Decls
        /\ \A b \in Block : b # Curr => table[b] = def[b]
        /\ \A d \in DOMAIN table[Curr] :
             \/ d \in DOMAIN def[Curr] /\ table[Curr][d] = def[Curr][d]
             \/ Writes # NoDecl /\ ~InMemory(Writes) /\ d = Writes /\ table[Curr][d] = v
    BY StatementFacts
  <2> HIDE DEF v, table
  <2>2. \A b \in Block : \A d \in DOMAIN def[b] : Known(def[b][d], DOMAIN phis)
    BY DEF Types, DefOK
  <2>3. Known(ret, DOMAIN phis) /\ Curr \in Block
    BY DEF Types, RetOK, TypeOK
  <2>4. \A b \in Block : \A d \in DOMAIN table[b] : Known(table[b][d], DOMAIN phis)
    <3> SUFFICES ASSUME NEW b \in Block, NEW d \in DOMAIN table[b] PROVE Known(table[b][d], DOMAIN phis)
      OBVIOUS
    <3>1. CASE b # Curr
      BY <2>1, <2>2, <3>1
    <3>2. CASE b = Curr
      BY <2>1, <2>2, <2>3, <3>2 DEF Known
    <3> QED
      BY <3>1, <3>2
  <2>5. <<>> \in Table
    BY TableFacts
  <2>6. /\ def' \in [Block' -> Table]
        /\ \A b \in Block : def'[b] = table[b]
        /\ \A b \in Block' \ Block : def'[b] = <<>>
    <3> DEFINE none == <<>>
               all == Extend(table, none)
    <3>1. OnBlocks(table, Table) /\ none \in Table
      BY <2>1, <2>5 DEF OnBlocks
    <3> HIDE DEF none
    <3>2. /\ all \in [Block' -> Table]
          /\ \A b \in Block : all[b] = table[b]
          /\ \A b \in Block' \ Block : all[b] = none
      <4>1. all \in [Block' -> Table]
        BY <1>3, <3>1, ExtendFacts
      <4>2. \A b \in Block : all[b] = table[b]
        BY <1>3, <3>1, ExtendFacts
      <4>3. \A b \in Block' \ Block : all[b] = none
        BY <1>3, <3>1, ExtendFacts
      <4> HIDE DEF all
      <4> QED
        BY <4>1, <4>2, <4>3
    <3>3. def' = all
      BY <2>1 DEF none
    <3> HIDE DEF all
    <3> QED
      BY <3>2, <3>3 DEF none
  <2>7. \A b \in Block' : \A d \in DOMAIN def'[b] : Known(def'[b][d], DOMAIN phis)
    <3>1. DOMAIN <<>> = {}
      OBVIOUS
    <3>2. \A b \in Block : \A d \in DOMAIN def'[b] : Known(def'[b][d], DOMAIN phis)
      BY <2>4, <2>6
    <3>3. \A b \in Block' \ Block : \A d \in DOMAIN def'[b] : Known(def'[b][d], DOMAIN phis)
      BY <2>6, <3>1
    <3> QED
      BY <3>2, <3>3
  <2> QED
    BY <1>1, <2>6, <2>7 DEF DefOK
<1> QED
  BY <1>4, <1>5, <1>6, <1>7, <1>8, <1>9 DEF Types

\* No activation, phi or value changes.
LEMMA TypesUnchanged ==
  ASSUME TypeOK, Types, UNCHANGED <<prog, last, frames, values, calls, ret>>, dangling' \in BOOLEAN
  PROVE  Types'
<1>1. UNCHANGED <<def, inc, phis, users, erased, code, uses>> /\ Block' = Block
  BY DEF values, Block
<1>2. BodyOK' /\ DefOK' /\ IncOK' /\ PhisOK' /\ UsersOK' /\ CodeOK' /\ UsesOK' /\ ErasedOK' /\ RetOK'
  BY <1>1, PartsKeep
<1>3. CallsOK'
  BY <1>1 DEF Types, CallsOK, FilledBy
<1> QED
  BY <1>2, <1>3 DEF Types

\* Every step keeps the types.
LEMMA TypesNext == TypeOK /\ Types /\ [SSANext]_allVars => Types'
<1> SUFFICES ASSUME TypeOK, Types, [SSANext]_allVars PROVE Types'
  OBVIOUS
<1>1. CASE OptimizeErased \/ EnterBlock \/ UNCHANGED allVars \/ Stopped
  <2>1. UNCHANGED <<prog, last, frames, values, calls, ret>>
    BY <1>1 DEF OptimizeErased, EnterBlock, SetCurr, Stopped, allVars, ssaVars, vars, skeleton
  <2>2. dangling' \in BOOLEAN
    BY <1>1 DEF OptimizeErased, EnterBlock, Stopped, allVars, ssaVars, Types, ErasedOK
  <2> QED
    BY <2>1, <2>2, TypesUnchanged
<1> QED
  BY <1>1, TypesReadFound, TypesReadUnsealed, TypesReadSinglePred, TypesReadJoin, TypesWriteBack,
     TypesFillRead, TypesFillAdd, TypesFillDone, TypesOptimizeKeep, TypesOptimizeReplace,
     TypesOptimizeCandidate, TypesCandidatesDone, TypesSealPhi, TypesEndSeal, TypesEvaluate,
     TypesEmitStatement DEF SSANext, Construction

\* They hold at first: one block, the parameters defined in it.
LEMMA TypesInit == SSAInit => Types
<1> SUFFICES ASSUME SSAInit PROVE Types
  OBVIOUS
<1>1. Init /\ Block = {1}
  BY DEF SSAInit, Init, Block
<1>2. BodyOK
  BY <1>1, ProgramsUseVariables DEF BodyOK, Init
<1>3. DefOK
  <2> DEFINE t == [d \in Params \ ByRefLocals |-> Arg(d)]
  <2>1. Params \ ByRefLocals \in SUBSET Decls
    BY ParamsAreDecls
  <2>2. t \in [Params \ ByRefLocals -> Value]
    BY <2>1, ValueFacts
  <2>3. t \in Table
    BY <2>1, <2>2 DEF Table
  <2>4. def = <<t>>
    BY DEF SSAInit
  <2>5. \A d \in DOMAIN t : Known(t[d], DOMAIN phis)
    BY ValueFacts DEF Known
  <2> HIDE DEF t
  <2>6. def \in [{1} -> Table] /\ def[1] = t
    BY <2>3, <2>4
  <2> QED
    BY <1>1, <2>5, <2>6 DEF DefOK
<1>4. IncOK /\ PhisOK /\ UsersOK /\ ErasedOK
  <2>1. inc = <<{}>> /\ phis = <<>> /\ users = <<>> /\ erased = {} /\ dangling = FALSE
    BY DEF SSAInit
  <2>2. inc \in [{1} -> SUBSET (Nat \X Decls)] /\ inc[1] = {}
    BY <2>1
  <2>3. IncOK
    BY <1>1, <2>2 DEF IncOK
  <2>4. PhisOK
    BY <2>1 DEF PhisOK
  <2>5. UsersOK
    BY <2>1 DEF UsersOK
  <2> QED
    BY <2>1, <2>3, <2>4, <2>5 DEF ErasedOK
<1>5. CodeOK /\ UsesOK
  <2>1. code = <<(<<>>)>> /\ uses = <<>>
    BY DEF SSAInit
  <2> DEFINE S == Seq(DOMAIN prog)
  <2>2. <<>> \in S
    BY EmptySeq
  <2> HIDE DEF S
  <2>3. code \in [{1} -> S]
    BY <2>1, <2>2
  <2> QED
    BY <1>1, <2>1, <2>3 DEF CodeOK, UsesOK, S
<1>6. RetOK /\ CallsOK
  BY ValueFacts DEF SSAInit, RetOK, CallsOK, Known
<1> QED
  BY <1>2, <1>3, <1>4, <1>5, <1>6 DEF Types

-----------------------------------------------------------------------------
\* SSAInv is inductive.
LEMMA SSAInvInit == SSAInit => SSAInv
BY TypesInit, TypeInit, DisciplineInit DEF SSAInit, SSAInv

\* Every step keeps the invariant of the blocks and of the construction.
LEMMA SSAInvNext == SSAInv /\ [SSANext]_allVars => SSAInv'
<1>1. SSAInv /\ [SSANext]_allVars => TypeOK' /\ SealingDiscipline'
  BY SkeletonStep, TypeNext, DisciplineNext DEF SSAInv, IInv
<1>2. SSAInv /\ [SSANext]_allVars => Types'
  BY TypesNext DEF SSAInv
<1> QED
  BY <1>1, <1>2 DEF SSAInv

\* The invariant of the construction, for every set of bodies; the steps of
\* BlockEmission within it are those its own invariant was proved of.
THEOREM SSAInvariant == SSASpec => []SSAInv
BY SSAInvInit, SSAInvNext, PTL DEF SSASpec

\* The tables of the construction are well formed for every set of bodies: they
\* have an entry per block, and what they refer to exists.
THEOREM SSATypeCorrect == SSASpec => []SSATypeOK
<1>1. SSAInv => SSATypeOK
  <2> SUFFICES ASSUME SSAInv PROVE SSATypeOK
    OBVIOUS
  <2>1. Types
    BY DEF SSAInv
  <2>2. DOMAIN def = Block /\ DOMAIN inc = Block /\ DOMAIN code = Block
    BY <2>1 DEF Types, DefOK, IncOK, CodeOK
  <2>3. \A b \in Block : DOMAIN def[b] \subseteq Decls
    BY <2>1, TableFacts DEF Types, DefOK
  <2>4. \A b \in Block : inc[b] \subseteq (DOMAIN phis) \X Decls
    <3>1. \A b \in Block : inc[b] \subseteq Nat \X Decls /\ \A e \in inc[b] : e[1] \in DOMAIN phis
      BY <2>1 DEF Types, IncOK
    <3> QED
      BY <3>1
  <2>5. \A p \in DOMAIN phis : phis[p].block \in Block /\ phis[p].decl \in Decls
    <3>1. \A p \in DOMAIN phis : phis[p] \in PhiNode
      BY <2>1 DEF Types, PhisOK
    <3> QED
      BY <2>1, <3>1 DEF Types, PhisOK, PhiNode
  <2>6. DOMAIN users = DOMAIN phis /\ erased \subseteq DOMAIN phis /\ dangling \in BOOLEAN
    BY <2>1 DEF Types, UsersOK, PhisOK, ErasedOK
  <2>7. \A b \in Block : code[b] \in Seq(DOMAIN prog)
    BY <2>1 DEF Types, CodeOK
  <2> QED
    BY <2>2, <2>3, <2>4, <2>5, <2>6, <2>7 DEF SSATypeOK
<1> QED
  BY <1>1, SSAInvariant, PTL

-----------------------------------------------------------------------------
(* Phis. *)

\* A value that may still be used when the phis of E have been erased.
Fresh(v, E) == IsPhi(v) => v[2] \notin E
UsedAt(ops, p) == {i \in DOMAIN ops : ops[i].val = Phi(p)}
TimesUsed(ops, p) == Cardinality(UsedAt(ops, p))

DefFresh == \A b \in Block : \A d \in DOMAIN def[b] : Fresh(def[b][d], erased)
OpsFresh ==
  \A p \in DOMAIN phis : p \notin erased => \A i \in DOMAIN phis[p].ops : Fresh(phis[p].ops[i].val, erased)
UsesFresh == \A i \in DOMAIN uses : Fresh(uses[i], erased)
UsersCount ==
  \A p, q \in DOMAIN phis : p \notin erased =>
    /\ q \in erased => Count(users[p], q) = 0
    /\ q \notin erased => Count(users[p], q) = TimesUsed(phis[q].ops, p)
References == DefFresh /\ OpsFresh /\ UsesFresh /\ UsersCount

\* They say what ReplacedEverywhere says.
LEMMA ReferencesMean == Types /\ (~dangling => References) => ReplacedEverywhere
<1> SUFFICES ASSUME Types, ~dangling => References PROVE ReplacedEverywhere
  OBVIOUS
<1>1. NoStaleReference
  BY DEF References, DefFresh, OpsFresh, UsesFresh, Fresh, NoStaleReference, Dead, Live, Incoming
<1>2. ASSUME ~dangling, NEW p \in Live, NEW q \in DOMAIN phis
      PROVE  Cardinality({i \in DOMAIN users[p] : users[p][i] = q}) =
               IF q \in erased THEN 0
               ELSE Cardinality({i \in DOMAIN phis[q].ops : phis[q].ops[i].val = Phi(p)})
  BY <1>2 DEF References, UsersCount, Live, Count, Positions, TimesUsed, UsedAt
<1> QED
  BY <1>1, <1>2 DEF ReplacedEverywhere, UsersMatchOperands

-----------------------------------------------------------------------------
(* How often a phi is an operand of another. *)

OperandsOf == Seq([val : Value, from : Nat])

\* Where a phi is an operand of another is a finite set of positions.
LEMMA UsedFinite ==
  ASSUME NEW ops \in OperandsOf, NEW p
  PROVE  IsFiniteSet(UsedAt(ops, p)) /\ TimesUsed(ops, p) \in Nat
         /\ DOMAIN ops = 1 .. Len(ops) /\ Len(ops) \in Nat /\ \A i \in DOMAIN ops : ops[i].val \in Value
<1>0. DOMAIN ops = 1 .. Len(ops) /\ Len(ops) \in Nat /\ ops \in [1 .. Len(ops) -> [val : Value, from : Nat]]
  BY LenProperties DEF OperandsOf
<1>1. IsFiniteSet(1 .. Len(ops)) /\ UsedAt(ops, p) \in SUBSET (1 .. Len(ops))
  <2>1. Len(ops) \in Int /\ 1 \in Int
    BY <1>0
  <2> QED
    BY <1>0, <2>1, FS_Interval DEF UsedAt
<1>2. IsFiniteSet(UsedAt(ops, p))
  BY <1>1, FS_Subset
<1> QED
  BY <1>0, <1>2, FS_CardinalityType DEF TimesUsed

\* A further operand.
LEMMA UsedAppend ==
  ASSUME NEW ops \in OperandsOf, NEW v \in Value, NEW b \in Nat, NEW p
  PROVE  /\ v = Phi(p) => TimesUsed(Append(ops, [val |-> v, from |-> b]), p) = TimesUsed(ops, p) + 1
         /\ v # Phi(p) => TimesUsed(Append(ops, [val |-> v, from |-> b]), p) = TimesUsed(ops, p)
<1> DEFINE op == [val |-> v, from |-> b]
           new == Append(ops, op)
           n == Len(ops)
<1>1. op \in [val : Value, from : Nat] /\ op.val = v
  OBVIOUS
<1> HIDE DEF op
<1>2. /\ DOMAIN new = 1 .. n + 1 /\ DOMAIN ops = 1 .. n /\ n \in Nat
      /\ new[n + 1] = op /\ \A i \in 1 .. n : new[i] = ops[i]
  BY <1>1, AppendProperties DEF OperandsOf
<1> HIDE DEF new, n
<1>3. n + 1 \notin UsedAt(ops, p)
  BY <1>2 DEF UsedAt
<1>4. CASE v = Phi(p)
  <2>1. UsedAt(new, p) = UsedAt(ops, p) \cup {n + 1}
    BY <1>1, <1>2, <1>4 DEF UsedAt
  <2> QED
    BY <1>3, <1>4, <2>1, UsedFinite, FS_AddElement DEF TimesUsed, new, op
<1>5. CASE v # Phi(p)
  <2>1. UsedAt(new, p) = UsedAt(ops, p)
    BY <1>1, <1>2, <1>5 DEF UsedAt
  <2> QED
    BY <1>5, <2>1 DEF TimesUsed, new, op
<1> QED
  BY <1>4, <1>5

\* Operands in which p has been replaced by s.
LEMMA UsedSubst ==
  ASSUME NEW ops \in OperandsOf, NEW new, NEW p, NEW s, NEW x, x # p,
         DOMAIN new = DOMAIN ops,
         \A i \in DOMAIN ops : new[i].val = Subst(p, s, ops[i].val)
  PROVE  /\ s = Phi(x) => TimesUsed(new, x) = TimesUsed(ops, p) + TimesUsed(ops, x)
         /\ s # Phi(x) => TimesUsed(new, x) = TimesUsed(ops, x)
<1>0. Phi(p) # Phi(x)
  BY ValueFacts
<1>1. CASE s = Phi(x)
  <2>1. UsedAt(new, x) = UsedAt(ops, p) \cup UsedAt(ops, x) /\ UsedAt(ops, p) \cap UsedAt(ops, x) = {}
    BY <1>0, <1>1 DEF UsedAt, Subst
  <2>2. IsFiniteSet(UsedAt(ops, p)) /\ IsFiniteSet(UsedAt(ops, x))
        /\ TimesUsed(ops, p) \in Nat /\ TimesUsed(ops, x) \in Nat
    BY UsedFinite
  <2>3. Cardinality(UsedAt(new, x)) =
          Cardinality(UsedAt(ops, p)) + Cardinality(UsedAt(ops, x)) - Cardinality({})
    BY <2>1, <2>2, FS_Union
  <2> QED
    BY <1>1, <2>2, <2>3, FS_EmptySet DEF TimesUsed
<1>2. CASE s # Phi(x)
  <2>1. UsedAt(new, x) = UsedAt(ops, x)
    BY <1>0, <1>2 DEF UsedAt, Subst
  <2> QED
    BY <1>2, <2>1 DEF TimesUsed
<1> QED
  BY <1>1, <1>2

\* The operands of every phi are typed and denote phis there are.
LEMMA OpsFacts ==
  ASSUME Types
  PROVE  /\ \A p \in DOMAIN phis : phis[p].ops \in OperandsOf /\ phis[p].decl \in Decls
         /\ \A p \in DOMAIN phis : \A i \in DOMAIN phis[p].ops : Known(phis[p].ops[i].val, DOMAIN phis)
         /\ DOMAIN users = DOMAIN phis /\ DOMAIN phis \subseteq Nat /\ erased \subseteq DOMAIN phis
         /\ \A p \in DOMAIN phis : users[p] \in Seq(Nat) /\ Within(users[p], DOMAIN phis)
<1>1. \A p \in DOMAIN phis : phis[p] \in PhiNode
  BY DEF Types, PhisOK
<1>2. \A p \in DOMAIN phis : phis[p].ops \in OperandsOf /\ phis[p].decl \in Decls
  BY <1>1 DEF PhiNode, OperandsOf
<1>3. DOMAIN users = DOMAIN phis /\ DOMAIN phis \subseteq Nat
  BY DEF Types, UsersOK, PhisOK
<1>4. \A p \in DOMAIN phis : users[p] \in Seq(Nat)
  BY <1>3 DEF Types, UsersOK
<1>5. \A p \in DOMAIN phis : Within(users[p], DOMAIN phis)
  BY <1>3 DEF Types, UsersOK
<1>6. \A p \in DOMAIN phis : \A i \in DOMAIN phis[p].ops : Known(phis[p].ops[i].val, DOMAIN phis)
  BY DEF Types, PhisOK
<1> QED
  BY <1>2, <1>3, <1>4, <1>5, <1>6 DEF Types, ErasedOK

-----------------------------------------------------------------------------
(* The steps. *)

\* A step that leaves phis, definitions, operands and use lists alone keeps them.
LEMMA ReferencesUnchanged ==
  ASSUME References, UNCHANGED <<def, phis, users, erased, uses, last>>
  PROVE  References'
BY DEF References, DefFresh, OpsFresh, UsesFresh, UsersCount, Block

\* Two of the steps create a phi and record it as a definition.
LEMMA ReferencesNewPhi ==
  ASSUME TypeOK, Types, References, UNCHANGED <<last, erased, uses>>,
         NEW b \in Block, NEW d \in Decls, AddEmptyPhi(b, d), Define(b, d, Phi(Len(phis) + 1))
  PROVE  References'
<1> DEFINE n == Len(phis) + 1
           ps == phis'
           us == users'
           df == def'
<1>1. /\ n \in DOMAIN ps /\ Phi(n) \in Value /\ Known(Phi(n), DOMAIN ps)
      /\ ps[n] = [block |-> b, decl |-> d, ops |-> <<>>] /\ us[n] = <<>>
      /\ \A p \in DOMAIN phis : ps[p] = phis[p] /\ us[p] = users[p]
      /\ DOMAIN ps = DOMAIN phis \cup {n} /\ DOMAIN phis \subseteq DOMAIN ps
  BY NewPhi
<1>2. /\ \A p \in DOMAIN phis : phis[p].ops \in OperandsOf
      /\ \A p \in DOMAIN phis : \A i \in DOMAIN phis[p].ops : Known(phis[p].ops[i].val, DOMAIN phis)
      /\ DOMAIN users = DOMAIN phis /\ erased \subseteq DOMAIN phis
      /\ \A p \in DOMAIN phis : users[p] \in Seq(Nat) /\ Within(users[p], DOMAIN phis)
  BY OpsFacts
<1>3. n \notin DOMAIN phis
  BY DEF Types, PhisOK
<1>4. /\ DOMAIN df[b] = DOMAIN def[b] \cup {d} /\ df[b][d] = Phi(n)
      /\ \A e \in DOMAIN def[b] : e # d => df[b][e] = def[b][e]
      /\ \A c \in Block : c # b => df[c] = def[c]
  BY <1>1, DefineFacts
<1>5. Block' = Block /\ erased' = erased /\ uses' = uses
  BY DEF Block
<1> HIDE DEF n, ps, us, df
<1>6. Fresh(Phi(n), erased)
  BY <1>2, <1>3, ValueFacts DEF Fresh
<1>7. DefFresh'
  <2>1. \A c \in Block : \A e \in DOMAIN df[c] : Fresh(df[c][e], erased)
    BY <1>4, <1>6 DEF References, DefFresh
  <2> QED
    BY <1>5, <2>1 DEF DefFresh, df
<1>8. OpsFresh'
  <2>1. \A p \in DOMAIN phis : p \notin erased => \A i \in DOMAIN ps[p].ops : Fresh(ps[p].ops[i].val, erased)
    BY <1>1 DEF References, OpsFresh
  <2>2. \A i \in DOMAIN ps[n].ops : Fresh(ps[n].ops[i].val, erased)
    BY <1>1
  <2> QED
    BY <1>1, <1>5, <2>1, <2>2 DEF OpsFresh, ps
<1>9. UsesFresh'
  BY <1>5 DEF References, UsesFresh
<1>10. ASSUME NEW p \in DOMAIN ps, NEW q \in DOMAIN ps, p \notin erased
       PROVE  /\ q \in erased => Count(us[p], q) = 0
              /\ q \notin erased => Count(us[p], q) = TimesUsed(ps[q].ops, p)
  <2>1. CASE p \in DOMAIN phis /\ q \in DOMAIN phis
    BY <1>1, <1>10, <2>1 DEF References, UsersCount
  <2>2. CASE p = n
    <3>1. Positions(us[p], q) = {}
      BY <1>1, <2>2 DEF Positions
    <3>2. Count(us[p], q) = 0
      BY <3>1, FS_EmptySet DEF Count
    <3>3. UsedAt(ps[q].ops, p) = {}
      <4>1. CASE q = n
        BY <1>1, <4>1 DEF UsedAt
      <4>2. CASE q # n
        <5>1. q \in DOMAIN phis /\ ps[q] = phis[q]
          BY <1>1, <4>2
        <5>2. \A i \in DOMAIN phis[q].ops : phis[q].ops[i].val # Phi(n)
          BY <1>2, <1>3, <5>1, ValueFacts DEF Known
        <5> QED
          BY <2>2, <5>1, <5>2 DEF UsedAt
      <4> QED
        BY <4>1, <4>2
    <3> QED
      BY <3>2, <3>3, FS_EmptySet DEF TimesUsed
  <2>3. CASE p \in DOMAIN phis /\ q = n
    <3>1. us[p] = users[p] /\ Within(users[p], DOMAIN phis)
      BY <1>1, <1>2, <2>3
    <3>2. Positions(us[p], q) = {} /\ UsedAt(ps[q].ops, p) = {}
      BY <1>1, <1>3, <2>3, <3>1 DEF Positions, UsedAt, Within
    <3> QED
      BY <3>2, FS_EmptySet DEF Count, TimesUsed
  <2> QED
    BY <1>1, <2>1, <2>2, <2>3
<1>11. UsersCount'
  BY <1>5, <1>10 DEF UsersCount, ps, us
<1> QED
  BY <1>7, <1>8, <1>9, <1>11 DEF References

\* A new phi is no operand yet: nothing refers to it but its definition.
LEMMA ReferencesRead == TypeOK /\ Types /\ References /\ (ReadUnsealed \/ ReadJoin) => References'
<1> SUFFICES ASSUME TypeOK, Types, References, ReadUnsealed \/ ReadJoin PROVE References'
  OBVIOUS
<1>1. /\ calls # <<>> /\ Call.fn = "readLocalVariable" /\ UNCHANGED <<vars, erased, uses>>
      /\ AddEmptyPhi(Call.block, Call.decl) /\ Define(Call.block, Call.decl, Phi(Len(phis) + 1))
  BY DEF ReadUnsealed, ReadJoin, Running, Call
<1>2. Call.block \in Block /\ Call.decl \in Decls
  BY <1>1, CallFacts
<1>3. last' = last
  BY <1>1 DEF vars, skeleton
<1> QED
  BY <1>1, <1>2, <1>3, ReferencesNewPhi

\* The value a read ends with may have been erased; then "dangling" is set.
LEMMA ReferencesWriteBack == TypeOK /\ Types /\ References /\ WriteBack /\ ~dangling' => References'
<1> SUFFICES ASSUME TypeOK, Types, References, WriteBack, ~dangling' PROVE References'
  OBVIOUS
<1> DEFINE b == Call.block
           d == Call.decl
           df == def'
<1>1. /\ calls # <<>> /\ Call.fn = "writeLocalVariable" /\ ret # <<>> /\ ~Dead(ret)
      /\ UNCHANGED <<vars, phis, users, erased, uses>> /\ Define(b, d, ret)
  BY DEF WriteBack, Running, Call
<1>2. b \in Block /\ d \in Decls
  BY <1>1, CallFacts
<1>3. last' = last /\ DOMAIN phis' = DOMAIN phis /\ Block' = Block
  BY <1>1 DEF vars, skeleton, Block
<1>4. ret \in Value /\ Known(ret, DOMAIN phis) /\ Fresh(ret, erased)
  BY <1>1 DEF Types, RetOK, Dead, Fresh
<1> HIDE DEF b, d
<1>5. /\ DOMAIN df[b] = DOMAIN def[b] \cup {d} /\ df[b][d] = ret
      /\ \A e \in DOMAIN def[b] : e # d => df[b][e] = def[b][e]
      /\ \A c \in Block : c # b => df[c] = def[c]
  BY <1>1, <1>2, <1>3, <1>4, DefineFacts
<1> HIDE DEF df
<1>6. \A c \in Block : \A e \in DOMAIN df[c] : Fresh(df[c][e], erased)
  BY <1>4, <1>5 DEF References, DefFresh
<1>7. DefFresh'
  BY <1>1, <1>3, <1>6 DEF DefFresh, df
<1> QED
  BY <1>1, <1>7 DEF References, OpsFresh, UsesFresh, UsersCount

\* The new operand and the new use.
LEMMA ReferencesFillAdd == TypeOK /\ Types /\ References /\ FillAdd /\ ~dangling' => References'
<1> SUFFICES ASSUME TypeOK, Types, References, FillAdd, ~dangling' PROVE References'
  OBVIOUS
<1> DEFINE p == Call.phi
           b == Head(Call.todo)
           ps == phis'
           us == users'
           op == [val |-> ret, from |-> b]
<1>1. /\ calls # <<>> /\ Call.fn = "addPhiOperands" /\ ret # <<>> /\ ~Dead(ret) /\ p \notin erased
      /\ UNCHANGED <<vars, def, erased, uses>> /\ Taken(p, ret, b)
  BY DEF FillAdd, Running, Call, Taken
<1>2. p \in DOMAIN phis /\ p \in Nat /\ Call.todo # <<>> /\ Call.todo \in Seq(Block)
  BY <1>1, CallFacts
<1>3. b \in Block /\ b \in Nat
  <2>1. b \in Block
    BY <1>2, SeqWithin
  <2> QED
    BY <2>1 DEF Block
<1>4. last' = last /\ Block' = Block /\ erased' = erased /\ def' = def /\ uses' = uses
  BY <1>1 DEF vars, skeleton, Block
<1>5. ret \in Value /\ Known(ret, DOMAIN phis) /\ Fresh(ret, erased)
  BY <1>1 DEF Types, RetOK, Dead, Fresh
<1> HIDE DEF p, b
<1>6. /\ DOMAIN ps = DOMAIN phis
      /\ ps[p].ops = Append(phis[p].ops, op)
      /\ \A q \in DOMAIN phis : q # p => ps[q] = phis[q]
      /\ IsPhi(ret) => ret[2] \in DOMAIN users /\ us[ret[2]] = <<p>> \o users[ret[2]]
      /\ \A q \in DOMAIN users : Phi(q) # ret => us[q] = users[q]
  BY <1>1, <1>2, <1>3, <1>4, <1>5, TakenFacts
<1>7. /\ \A q \in DOMAIN phis : phis[q].ops \in OperandsOf
      /\ DOMAIN users = DOMAIN phis
      /\ \A q \in DOMAIN phis : users[q] \in Seq(Nat) /\ Within(users[q], DOMAIN phis)
  BY OpsFacts
<1> HIDE DEF ps, us
<1>8. DefFresh' /\ UsesFresh'
  BY <1>4 DEF References, DefFresh, UsesFresh
<1>9. OpsFresh'
  <2>1. \A q \in DOMAIN phis : q \notin erased /\ q # p => \A i \in DOMAIN ps[q].ops : Fresh(ps[q].ops[i].val, erased)
    BY <1>6 DEF References, OpsFresh
  <2>2. \A i \in DOMAIN ps[p].ops : Fresh(ps[p].ops[i].val, erased)
    <3> DEFINE l == phis[p].ops
               m == ps[p].ops
    <3>1. l \in OperandsOf /\ m = Append(l, op) /\ op \in [val : Value, from : Nat] /\ op.val = ret
      BY <1>2, <1>3, <1>5, <1>6, <1>7
    <3>2. \A i \in DOMAIN l : Fresh(l[i].val, erased)
      BY <1>1, <1>2 DEF References, OpsFresh
    <3> HIDE DEF l, m, op
    <3>3. DOMAIN m = 1 .. Len(l) + 1 /\ m[Len(l) + 1] = op /\ DOMAIN l = 1 .. Len(l) /\ Len(l) \in Nat
          /\ \A i \in 1 .. Len(l) : m[i] = l[i]
      BY <3>1, AppendProperties DEF OperandsOf
    <3>4. \A i \in DOMAIN m : i = Len(l) + 1 \/ i \in DOMAIN l
      BY <3>3
    <3>5. \A i \in DOMAIN m : Fresh(m[i].val, erased)
      BY <1>5, <3>1, <3>2, <3>3, <3>4
    <3> QED
      BY <3>5 DEF m
  <2> QED
    BY <1>4, <1>6, <2>1, <2>2 DEF OpsFresh, ps
<1>10. ASSUME NEW x \in DOMAIN phis, NEW q \in DOMAIN phis, x \notin erased
       PROVE  /\ q \in erased => Count(us[x], q) = 0
              /\ q \notin erased => Count(us[x], q) = TimesUsed(ps[q].ops, x)
  <2>1. /\ q \in erased => Count(users[x], q) = 0
        /\ q \notin erased => Count(users[x], q) = TimesUsed(phis[q].ops, x)
    BY <1>10 DEF References, UsersCount
  <2>2. /\ ret = Phi(x) => TimesUsed(ps[p].ops, x) = TimesUsed(phis[p].ops, x) + 1
        /\ ret # Phi(x) => TimesUsed(ps[p].ops, x) = TimesUsed(phis[p].ops, x)
    <3>1. phis[p].ops \in OperandsOf
      BY <1>2, <1>7
    <3> QED
      BY <1>3, <1>5, <1>6, <3>1, UsedAppend
  <2>3. CASE ret # Phi(x)
    <3>1. us[x] = users[x]
      BY <1>6, <1>7, <2>3
    <3> QED
      BY <1>6, <2>1, <2>2, <2>3, <3>1
  <2>4. CASE ret = Phi(x)
    <3>1. us[x] = <<p>> \o users[x]
      BY <1>6, <2>4, ValueFacts
    <3>2. Count(us[x], q) = Count(<<p>>, q) + Count(users[x], q)
      <4> DEFINE l == <<p>>
                 m == users[x]
      <4>1. l \in Seq(Nat) /\ m \in Seq(Nat) /\ us[x] = l \o m
        BY <1>2, <1>7, <3>1
      <4> HIDE DEF l, m
      <4>2. Count(l \o m, q) = Count(l, q) + Count(m, q)
        BY <4>1, CountConcat
      <4> QED
        BY <4>1, <4>2 DEF l, m
    <3>3. CASE q = p
      <4>1. Positions(<<p>>, q) = {1}
        BY <3>3 DEF Positions
      <4>2. Count(<<p>>, q) = 1
        BY <4>1, FS_Singleton DEF Count
      <4>3. Count(users[x], q) \in Nat
        BY <1>7, PositionsFinite
      <4> QED
        BY <1>1, <2>1, <2>2, <2>4, <3>2, <3>3, <4>2, <4>3
    <3>4. CASE q # p
      <4>1. Positions(<<p>>, q) = {}
        BY <3>4 DEF Positions
      <4>2. Count(<<p>>, q) = 0
        BY <4>1, FS_EmptySet DEF Count
      <4>3. Count(users[x], q) \in Nat
        BY <1>7, PositionsFinite
      <4> QED
        BY <1>6, <2>1, <3>2, <3>4, <4>2, <4>3
    <3> QED
      BY <3>3, <3>4
  <2> QED
    BY <2>3, <2>4
<1>11. UsersCount'
  BY <1>4, <1>6, <1>10 DEF UsersCount, ps, us
<1> QED
  BY <1>8, <1>9, <1>11 DEF References

\* All that denoted the phi denotes its replacement, and its uses are uses of it.
LEMMA ReferencesReplace == TypeOK /\ Types /\ References /\ OptimizeReplace => References'
<1> SUFFICES ASSUME TypeOK, Types, References, OptimizeReplace PROVE References'
  OBVIOUS
<1> DEFINE p == Call.phi
           s == Same(p)
           E == erased \cup {p}
           ps == phis'
           us == users'
           df == def'
           un == uses'
<1>1. /\ calls # <<>> /\ Call.fn = "optimizePhi" /\ UNCHANGED vars /\ p \notin erased
      /\ ReplaceAllUses(p, s) /\ MoveUsers(p, s) /\ erased' = E
  BY DEF OptimizeReplace, Running, Call
<1>2. p \in DOMAIN phis
  BY <1>1, CallFacts
<1> HIDE DEF p
<1>3. s \in Value /\ Known(s, DOMAIN phis) /\ (s = Undef \/ s \in Incoming(p)) /\ s # Phi(p)
  BY <1>2, SameFacts
<1> HIDE DEF s
<1>4. last' = last /\ Block' = Block
  BY <1>1 DEF vars, skeleton, Block
<1>5. /\ DOMAIN ps = DOMAIN phis /\ Len(phis') = Len(phis)
      /\ \A q \in DOMAIN phis :
           /\ DOMAIN ps[q].ops = DOMAIN phis[q].ops
           /\ \A i \in DOMAIN phis[q].ops : ps[q].ops[i].val = Subst(p, s, phis[q].ops[i].val)
  BY <1>1, <1>2, <1>3, <1>4, ReplacedFacts
<1>6. /\ us[p] = <<>>
      /\ \A q \in DOMAIN users : q # p =>
           IF s = Phi(q) THEN us[q] = Reverse(Without(users[p], p)) \o Without(users[q], p)
           ELSE us[q] = Without(users[q], p)
  BY <1>1, <1>2, <1>3, <1>5, MovedFacts
<1>7. /\ \A q \in DOMAIN phis : phis[q].ops \in OperandsOf
      /\ DOMAIN users = DOMAIN phis /\ DOMAIN phis \subseteq Nat
      /\ \A q \in DOMAIN phis : users[q] \in Seq(Nat)
  BY OpsFacts
<1>8. df = [b \in DOMAIN def |-> [d \in DOMAIN def[b] |-> Subst(p, s, def[b][d])]]
      /\ un = [i \in DOMAIN uses |-> Subst(p, s, uses[i])] /\ DOMAIN def = Block
  BY <1>1 DEF ReplaceAllUses, Types, DefOK
<1> HIDE DEF ps, us, df, un
<1>9. Fresh(s, E)
  <2>1. CASE s = Undef
    BY <2>1, ValueFacts DEF Fresh
  <2>2. CASE s \in Incoming(p)
    <3>1. Fresh(s, erased)
      BY <1>1, <1>2, <2>2 DEF References, OpsFresh, Incoming
    <3>2. IsPhi(s) => s[2] # p
      BY <1>3, ValueFacts
    <3> QED
      BY <3>1, <3>2 DEF Fresh
  <2> QED
    BY <1>3, <2>1, <2>2
<1>10. \A v \in Value : Fresh(v, erased) => Fresh(Subst(p, s, v), E)
  BY <1>9, ValueFacts DEF Fresh, Subst
<1>11. DefFresh'
  <2>1. \A b \in Block : \A d \in DOMAIN def[b] : def[b][d] \in Value /\ Fresh(def[b][d], erased)
    <3>1. \A b \in Block : def[b] \in Table
      BY DEF Types, DefOK
    <3> QED
      BY <3>1, TableFacts DEF References, DefFresh
  <2>2. \A b \in Block : \A d \in DOMAIN df[b] : Fresh(df[b][d], E)
    BY <1>8, <1>10, <2>1
  <2> QED
    BY <1>1, <1>4, <2>2 DEF DefFresh, df
<1>12. UsesFresh'
  <2>1. \A i \in DOMAIN un : Fresh(un[i], E)
    BY <1>8, <1>10 DEF References, UsesFresh, Types, UsesOK
  <2> QED
    BY <1>1, <2>1 DEF UsesFresh, un
<1>13. OpsFresh'
  <2>1. \A q \in DOMAIN phis : \A i \in DOMAIN phis[q].ops : phis[q].ops[i].val \in Value
    BY <1>7, UsedFinite
  <2>2. \A q \in DOMAIN phis : q \notin erased => \A i \in DOMAIN phis[q].ops : Fresh(phis[q].ops[i].val, erased)
    BY DEF References, OpsFresh
  <2>3. \A q \in DOMAIN ps : q \notin E => \A i \in DOMAIN ps[q].ops : Fresh(ps[q].ops[i].val, E)
    BY <1>5, <1>10, <2>1, <2>2
  <2> QED
    BY <1>1, <2>3 DEF OpsFresh, ps
<1>14. ASSUME NEW x \in DOMAIN phis, NEW q \in DOMAIN phis, x \notin E
       PROVE  /\ q \in E => Count(us[x], q) = 0
              /\ q \notin E => Count(us[x], q) = TimesUsed(ps[q].ops, x)
  <2>1. x # p /\ x \notin erased
    BY <1>14
  <2>2. /\ q \in erased => Count(users[x], q) = 0 /\ Count(users[p], q) = 0
        /\ q \notin erased =>
             Count(users[x], q) = TimesUsed(phis[q].ops, x) /\ Count(users[p], q) = TimesUsed(phis[q].ops, p)
    BY <1>1, <1>2, <2>1 DEF References, UsersCount
  <2>3. /\ s = Phi(x) => TimesUsed(ps[q].ops, x) = TimesUsed(phis[q].ops, p) + TimesUsed(phis[q].ops, x)
        /\ s # Phi(x) => TimesUsed(ps[q].ops, x) = TimesUsed(phis[q].ops, x)
    <3> DEFINE old == phis[q].ops
               new == ps[q].ops
    <3>1. old \in OperandsOf /\ DOMAIN new = DOMAIN old /\ \A i \in DOMAIN old : new[i].val = Subst(p, s, old[i].val)
      BY <1>5, <1>7
    <3> HIDE DEF old, new
    <3>2. /\ s = Phi(x) => TimesUsed(new, x) = TimesUsed(old, p) + TimesUsed(old, x)
          /\ s # Phi(x) => TimesUsed(new, x) = TimesUsed(old, x)
      BY <2>1, <3>1, UsedSubst
    <3> QED
      BY <3>2 DEF old, new
  <2> DEFINE left(y) == Without(users[y], p)
  <2>4. \A y \in DOMAIN phis : left(y) \in Seq(Nat)
    BY <1>7, WithoutMembers
  <2>5. \A y \in DOMAIN phis : /\ q = p => Count(left(y), q) = 0
                               /\ q # p => Count(left(y), q) = Count(users[y], q)
    BY <1>7, CountWithout
  <2>6. CASE s # Phi(x)
    <3>1. us[x] = left(x)
      BY <1>6, <1>7, <2>1, <2>6
    <3> QED
      BY <2>2, <2>3, <2>5, <2>6, <3>1
  <2>7. CASE s = Phi(x)
    <3> DEFINE l == Reverse(left(p))
               m == left(x)
    <3>1. us[x] = l \o m
      BY <1>6, <1>7, <2>1, <2>7
    <3>2. l \in Seq(Nat) /\ m \in Seq(Nat) /\ Count(l, q) = Count(left(p), q)
      BY <1>2, <2>4, ReverseInto, CountReverse
    <3> HIDE DEF l
    <3>3. m \in Seq(Nat) /\ Count(m, q) = Count(left(x), q)
      BY <3>2
    <3> HIDE DEF m
    <3>4. Count(us[x], q) = Count(l, q) + Count(m, q)
      BY <3>1, <3>2, <3>3, CountConcat
    <3>5. Count(us[x], q) = Count(left(p), q) + Count(left(x), q)
      BY <3>2, <3>3, <3>4
    <3> HIDE DEF left
    <3>6. CASE q = p
      BY <1>2, <2>5, <3>5, <3>6
    <3>7. CASE q # p
      BY <1>2, <2>2, <2>3, <2>5, <2>7, <3>5, <3>7
    <3> QED
      BY <3>6, <3>7
  <2> QED
    BY <2>6, <2>7
<1>15. UsersCount'
  BY <1>1, <1>5, <1>14 DEF UsersCount, ps, us
<1> QED
  BY <1>11, <1>12, <1>13, <1>15 DEF References

\* A statement uses the value its operand has, and records what it assigns.
LEMMA ReferencesEmit == TypeOK /\ Types /\ References /\ EmitStatement /\ ~dangling' => References'
<1> SUFFICES ASSUME TypeOK, Types, References, EmitStatement, ~dangling' PROVE References'
  OBVIOUS
<1> DEFINE v == IF Reads = NoDecl \/ Passes # NoDecl THEN Inst(Token) ELSE ret
           table == IF Writes = NoDecl \/ InMemory(Writes) THEN def
                    ELSE [def EXCEPT ![Curr] = Mapped(@, Writes, v)]
           df == def'
           un == uses'
<1>1. /\ UNCHANGED <<phis, users, erased>> /\ Handler
      /\ un = (IF Reads = NoDecl THEN uses ELSE Mapped(uses, Token, ret))
      /\ Reads # NoDecl => ~Dead(ret)
  BY DEF EmitStatement, Handler
<1>2. Fresh(v, erased) /\ (Reads # NoDecl => Fresh(ret, erased))
  <2>1. Reads # NoDecl => Fresh(ret, erased)
    BY <1>1 DEF Fresh, Dead
  <2>2. CASE Reads = NoDecl \/ Passes # NoDecl
    BY <2>1, <2>2, ValueFacts DEF Fresh
  <2>3. CASE ~(Reads = NoDecl \/ Passes # NoDecl)
    BY <2>1, <2>3
  <2> QED
    BY <2>1, <2>2, <2>3
<1>3. /\ df = Extend(table, <<>>) /\ table \in [Block -> Table]
      /\ \A b \in Block : b # Curr => table[b] = def[b]
      /\ \A d \in DOMAIN table[Curr] :
           \/ d \in DOMAIN def[Curr] /\ table[Curr][d] = def[Curr][d]
           \/ Writes # NoDecl /\ ~InMemory(Writes) /\ d = Writes /\ table[Curr][d] = v
  BY StatementFacts
<1> HIDE DEF v, table, df, un
<1>4. last \in Nat /\ last' \in Nat /\ last <= last'
  <2>1. [Next]_vars
    BY <1>1 DEF Next, Step
  <2> QED
    BY <2>1, BodyKept
<1>5. \A b \in Block : \A d \in DOMAIN table[b] : Fresh(table[b][d], erased)
  <2>1. \A b \in Block : \A d \in DOMAIN def[b] : Fresh(def[b][d], erased)
    BY DEF References, DefFresh
  <2>2. Curr \in Block
    BY DEF TypeOK
  <2> QED
    BY <1>2, <1>3, <2>1, <2>2
<1>6. /\ \A b \in Block : df[b] = table[b]
      /\ \A b \in Block' \ Block : df[b] = <<>>
  <2> DEFINE none == <<>>
             all == Extend(table, none)
  <2>1. OnBlocks(table, Table) /\ none \in Table /\ df = all
    BY <1>3, TableFacts DEF OnBlocks
  <2> HIDE DEF none
  <2>2. \A b \in Block : all[b] = table[b]
    BY <1>4, <2>1, ExtendFacts
  <2>3. \A b \in Block' \ Block : all[b] = none
    BY <1>4, <2>1, ExtendFacts
  <2> HIDE DEF all
  <2> QED
    BY <2>1, <2>2, <2>3 DEF none
<1>7. DefFresh'
  <2>1. \A b \in Block : \A d \in DOMAIN df[b] : Fresh(df[b][d], erased)
    BY <1>5, <1>6
  <2>2. DOMAIN <<>> = {}
    OBVIOUS
  <2>3. \A b \in Block' \ Block : \A d \in DOMAIN df[b] : Fresh(df[b][d], erased)
    BY <1>6, <2>2
  <2> QED
    BY <1>1, <2>1, <2>3 DEF DefFresh, df
<1>8. UsesFresh'
  <2>1. CASE Reads = NoDecl
    BY <1>1, <2>1 DEF References, UsesFresh, un
  <2>2. CASE Reads # NoDecl
    <3>1. un = [j \in DOMAIN uses \cup {Token} |-> IF j = Token THEN ret ELSE uses[j]]
      BY <1>1, <2>2 DEF Mapped
    <3>2. \A i \in DOMAIN un : Fresh(un[i], erased)
      BY <1>2, <2>2, <3>1 DEF References, UsesFresh
    <3> QED
      BY <1>1, <3>2 DEF UsesFresh, un
  <2> QED
    BY <2>1, <2>2
<1> QED
  BY <1>1, <1>7, <1>8 DEF References, OpsFresh, UsersCount

\* Every step that reaches no erased phi keeps the references.
LEMMA ReferencesNext ==
  TypeOK /\ Types /\ (~dangling => References) /\ [SSANext]_allVars => (~dangling => References)'
<1> SUFFICES ASSUME TypeOK, Types, ~dangling => References, [SSANext]_allVars, ~dangling' PROVE References'
  OBVIOUS
<1>1. CASE UNCHANGED allVars \/ Stopped
  <2>1. UNCHANGED <<def, phis, users, erased, uses, last>> /\ dangling' = dangling
    BY <1>1 DEF Stopped, allVars, ssaVars, values, vars, skeleton
  <2> QED
    BY <2>1, ReferencesUnchanged
<1>2. CASE Construction
  <2>1. ~dangling
    BY <1>2 DEF Construction, ReadFound, ReadUnsealed, ReadSinglePred, ReadJoin, WriteBack,
           FillRead, FillAdd, FillDone, OptimizeKeep, OptimizeReplace, OptimizeErased,
           OptimizeCandidate, CandidatesDone, BeginSeal, SealPhi, EndSeal,
           EvalOperand, LoadOperand, EmitStatement, EnterBlock, Running
  <2>2. CASE ReadFound \/ ReadSinglePred \/ FillRead \/ FillDone \/ OptimizeKeep \/ OptimizeErased
             \/ OptimizeCandidate \/ CandidatesDone \/ BeginSeal \/ SealPhi \/ EvalOperand \/ LoadOperand
    <3>1. UNCHANGED <<vars, values>>
      BY <2>2 DEF ReadFound, ReadSinglePred, FillRead, FillDone, OptimizeKeep, OptimizeErased,
             OptimizeCandidate, CandidatesDone, BeginSeal, SealPhi, EvalOperand, LoadOperand
    <3>2. UNCHANGED <<def, phis, users, erased, uses, last>>
      BY <3>1 DEF values, vars, skeleton
    <3> QED
      BY <2>1, <3>2, ReferencesUnchanged
  <2>3. CASE EndSeal \/ EnterBlock
    <3>1. UNCHANGED <<def, phis, users, erased, uses, last>>
      BY <2>3 DEF EndSeal, SealBlock, EnterBlock, SetCurr, ssaVars, values
    <3> QED
      BY <2>1, <3>1, ReferencesUnchanged
  <2> QED
    BY <1>2, <2>1, <2>2, <2>3, ReferencesRead, ReferencesWriteBack, ReferencesFillAdd, ReferencesReplace,
       ReferencesEmit DEF Construction
<1> QED
  BY <1>1, <1>2 DEF SSANext

\* There are no phis at first.
LEMMA ReferencesInit == SSAInit => References
<1> SUFFICES ASSUME SSAInit PROVE References
  OBVIOUS
<1>1. Block = {1} /\ def = <<[d \in Params \ ByRefLocals |-> Arg(d)]>> /\ phis = <<>> /\ uses = <<>> /\ erased = {}
  BY DEF SSAInit, Init, Block
<1>2. DefFresh /\ OpsFresh /\ UsesFresh /\ UsersCount
  BY <1>1, ValueFacts DEF DefFresh, OpsFresh, UsesFresh, UsersCount, Fresh
<1> QED
  BY <1>2 DEF References

\* The invariant of the construction with what has been shown of replacing.
ReplacementInv == SSAInv /\ (~dangling => References)

\* Both invariants together, the second as long as no erased phi was reached.
THEOREM ReplacementInvariant == SSASpec => []ReplacementInv
<1>1. SSAInit => ReplacementInv
  BY SSAInvInit, ReferencesInit DEF ReplacementInv
<1>2. ReplacementInv /\ [SSANext]_allVars => ReplacementInv'
  <2> SUFFICES ASSUME ReplacementInv, [SSANext]_allVars PROVE ReplacementInv'
    OBVIOUS
  <2>1. SSAInv'
    BY SSAInvNext DEF ReplacementInv
  <2>2. (~dangling => References)'
    BY ReferencesNext DEF ReplacementInv, SSAInv
  <2> QED
    BY <2>1, <2>2 DEF ReplacementInv
<1> QED
  BY <1>1, <1>2, PTL DEF SSASpec

\* Whatever a phi is replaced by while others denote it, every definition, operand,
\* incoming value and use list follows, for every set of bodies: the TrackingVHs of
\* Defs leave nothing behind, and optimizePhi finds all its candidates.
THEOREM ReplacedEverywhereHolds == SSASpec => []ReplacedEverywhere
<1>1. ReplacementInv => ReplacedEverywhere
  BY ReferencesMean DEF ReplacementInv, SSAInv
<1> QED
  BY <1>1, ReplacementInvariant, PTL

-----------------------------------------------------------------------------
(* Sealing. *)


Sealer(c) == c.fn = "sealBlock"
OfVariable(c) == c.fn \in {"readLocalVariable", "writeLocalVariable", "addPhiOperands"}

\* An incomplete phi is a definition of its block; sealBlock is the outermost
\* activation, and those within it are about variables its block defines.
SealStack ==
  /\ \A b \in Block : \A e \in inc[b] : e[2] \in DOMAIN def[b]
  /\ \A i \in DOMAIN calls : Sealer(calls[i]) =>
       /\ i = Len(calls)
       /\ sealing # <<>> /\ calls[i].block = Head(sealing)
       /\ calls[i].todo \subseteq inc[calls[i].block]
       /\ \A j \in DOMAIN calls : OfVariable(calls[j]) => calls[j].decl \in DOMAIN def[calls[i].block]

\* Definitions are never taken back.
LEMMA DefineGrows ==
  ASSUME Types, NEW b \in Block, NEW d \in Decls, NEW v, Define(b, d, v)
  PROVE  /\ d \in DOMAIN def'[b]
         /\ \A c \in Block : DOMAIN def[c] \subseteq DOMAIN def'[c]
<1>1. DOMAIN def = Block
  BY DEF Types, DefOK
<1>2. def'[b] = Mapped(def[b], d, v) /\ \A c \in Block : c # b => def'[c] = def[c]
  BY <1>1 DEF Define
<1>3. DOMAIN Mapped(def[b], d, v) = DOMAIN def[b] \cup {d}
  BY DEF Mapped
<1> QED
  BY <1>2, <1>3

\* A step of an activation other than sealBlock, which goes on as cs.
LEMMA StackGoesOn ==
  ASSUME Types, SealStack, calls # <<>>, ~Sealer(Call), NEW cs \in Seq(Activation),
         calls' = cs \o Tail(calls),
         \A i \in DOMAIN cs : ~Sealer(cs[i]),
         \A i \in DOMAIN cs : OfVariable(cs[i]) => OfVariable(Call) /\ cs[i].decl = Call.decl,
         sealing' = sealing, last' = last,
         \A b \in Block : inc[b] \subseteq inc'[b],
         \A b \in Block : DOMAIN def[b] \subseteq DOMAIN def'[b],
         \A b \in Block : \A e \in inc'[b] : e[2] \in DOMAIN def'[b]
  PROVE  SealStack'
<1> DEFINE all == calls'
           df == def'
           ic == inc'
<1>1. /\ all \in Seq(Activation) /\ Len(all) = Len(cs) + Len(calls) - 1 /\ DOMAIN all = 1 .. Len(all)
      /\ \A i \in DOMAIN all :
           \/ i \in DOMAIN cs /\ all[i] = cs[i]
           \/ i > Len(cs) /\ i - Len(cs) + 1 \in DOMAIN calls /\ i - Len(cs) + 1 > 1
              /\ all[i] = calls[i - Len(cs) + 1]
  BY Stacked DEF Types
<1>2. calls \in Seq(Activation) /\ Len(calls) \in Nat \ {0} /\ Len(cs) \in Nat /\ DOMAIN calls = 1 .. Len(calls)
      /\ 1 \in DOMAIN calls /\ Call = calls[1]
  BY Running_ DEF Types, CallsOK
<1> HIDE DEF all, df, ic
<1>3. ASSUME NEW i \in DOMAIN all, Sealer(all[i])
      PROVE  /\ i = Len(all) /\ sealing # <<>> /\ all[i].block = Head(sealing)
             /\ all[i].todo \subseteq ic[all[i].block]
             /\ \A j \in DOMAIN all : OfVariable(all[j]) => all[j].decl \in DOMAIN df[all[i].block]
  <2> DEFINE k == i - Len(cs) + 1
  <2>1. k \in DOMAIN calls /\ k > 1 /\ all[i] = calls[k]
    BY <1>1, <1>3
  <2>2. i \in Nat /\ i = k + Len(cs) - 1
    BY <1>1, <1>2
  <2> HIDE DEF k
  <2>3. /\ k = Len(calls) /\ sealing # <<>> /\ calls[k].block = Head(sealing)
        /\ calls[k].todo \subseteq inc[calls[k].block]
        /\ \A j \in DOMAIN calls : OfVariable(calls[j]) => calls[j].decl \in DOMAIN def[calls[k].block]
    BY <1>3, <2>1 DEF SealStack
  <2> DEFINE b == calls[k].block
  <2>4. b \in Block
    BY <1>3, <2>1 DEF Types, CallsOK, CallOK, Sealer
  <2>5. inc[b] \subseteq ic[b] /\ DOMAIN def[b] \subseteq DOMAIN df[b]
    BY <2>4 DEF ic, df
  <2>6. i = Len(all)
    BY <1>1, <1>2, <2>2, <2>3
  <2>7. ASSUME NEW j \in DOMAIN all, OfVariable(all[j]) PROVE all[j].decl \in DOMAIN df[b]
    <3>1. CASE j \in DOMAIN cs /\ all[j] = cs[j]
      BY <1>2, <2>3, <2>5, <2>7, <3>1
    <3>2. CASE j - Len(cs) + 1 \in DOMAIN calls /\ all[j] = calls[j - Len(cs) + 1]
      BY <2>3, <2>5, <2>7, <3>2
    <3> QED
      BY <1>1, <3>1, <3>2
  <2> QED
    BY <2>1, <2>3, <2>5, <2>6, <2>7
<1>4. Block' = Block
  BY DEF Block
<1> QED
  BY <1>3, <1>4 DEF SealStack, all, df, ic

\* The fields of the new activations.
LEMMA NewFields ==
  /\ \A b, d : ~Sealer(ReadCall(b, d)) /\ ~Sealer(WriteBackCall(b, d))
               /\ ReadCall(b, d).decl = d /\ WriteBackCall(b, d).decl = d
  /\ \A p, d, s : ~Sealer(FillCall(p, d, s)) /\ OfVariable(FillCall(p, d, s)) /\ FilledBy(FillCall(p, d, s))
                  /\ FillCall(p, d, s).decl = d /\ FillCall(p, d, s).phi = p /\ FillCall(p, d, s).todo = s
  /\ \A p : ~Sealer(OptimizeCall(p)) /\ ~OfVariable(OptimizeCall(p)) /\ OptimizeCall(p).phi = p
  /\ \A s, v : ~Sealer(CandidatesCall(s, v)) /\ ~OfVariable(CandidatesCall(s, v)) /\ CandidatesCall(s, v).todo = s
  /\ \A b, S : Sealer(SealCall(b, S)) /\ ~OfVariable(SealCall(b, S)) /\ SealCall(b, S).block = b /\ SealCall(b, S).todo = S
BY DEF Sealer, OfVariable, FilledBy, ReadCall, WriteBackCall, FillCall, OptimizeCall, CandidatesCall, SealCall

\* As above for a step that leaves the tables alone.
LEMMA StackStep ==
  ASSUME Types, SealStack, calls # <<>>, ~Sealer(Call), NEW cs \in Seq(Activation),
         calls' = cs \o Tail(calls),
         \A i \in DOMAIN cs : ~Sealer(cs[i]),
         \A i \in DOMAIN cs : OfVariable(cs[i]) => OfVariable(Call) /\ cs[i].decl = Call.decl,
         UNCHANGED <<vars, inc>>,
         \A b \in Block : DOMAIN def[b] \subseteq DOMAIN def'[b]
  PROVE  SealStack'
<1>1. sealing' = sealing /\ last' = last /\ inc' = inc
  BY DEF vars, skeleton
<1>2. \A b \in Block : inc[b] \subseteq inc'[b]
  BY <1>1
<1>3. \A b \in Block : \A e \in inc'[b] : e[2] \in DOMAIN def'[b]
  BY <1>1 DEF SealStack
<1> QED
  BY <1>1, <1>2, <1>3, StackGoesOn

\* A step that leaves at most one activation, about no phi being sealed.
LEMMA StackAtMostOne ==
  ASSUME Types, SealStack, \A i \in DOMAIN calls' : ~Sealer(calls'[i]),
         \A b \in Block' : \A e \in inc'[b] : e[2] \in DOMAIN def'[b]
  PROVE  SealStack'
BY DEF SealStack, Sealer

\* The running activation returns.
LEMMA StackReturn ==
  ASSUME Types, SealStack, calls # <<>>, ~Sealer(Call), calls' = Tail(calls), UNCHANGED <<vars, inc>>,
         \A b \in Block : DOMAIN def[b] \subseteq DOMAIN def'[b]
  PROVE  SealStack'
<1> DEFINE cs == <<>>
<1>1. cs \in Seq(Activation) /\ DOMAIN cs = {} /\ calls' = cs \o Tail(calls)
  <2>1. Tail(calls) \in Seq(Activation)
    BY Running_ DEF Types
  <2> QED
    BY <2>1
<1> HIDE DEF cs
<1> QED
  BY <1>1, StackStep

\* A returning activation, or one that goes on, on the way through a read.
LEMMA StackReading ==
  Types /\ TypeOK /\ SealStack
    /\ (ReadFound \/ ReadSinglePred \/ FillDone \/ OptimizeKeep \/ OptimizeCandidate \/ CandidatesDone)
  => SealStack'
<1> SUFFICES ASSUME Types, TypeOK, SealStack,
         ReadFound \/ ReadSinglePred \/ FillDone \/ OptimizeKeep \/ OptimizeCandidate \/ CandidatesDone
       PROVE SealStack'
  OBVIOUS
<1>1. UNCHANGED <<vars, inc, def>> /\ calls # <<>>
  BY DEF ReadFound, ReadSinglePred, FillDone, OptimizeKeep, OptimizeCandidate, CandidatesDone, values, Running
<1>2. \A b \in Block : DOMAIN def[b] \subseteq DOMAIN def'[b]
  BY <1>1
<1>3. CASE ReadFound \/ OptimizeKeep \/ CandidatesDone
  <2>1. calls' = Tail(calls) /\ ~Sealer(Call)
    BY <1>3 DEF ReadFound, OptimizeKeep, CandidatesDone, Return, Running, Call, Sealer
  <2> QED
    BY <1>1, <1>2, <2>1, StackReturn
<1>4. CASE ReadSinglePred
  <2> DEFINE b == Call.block
             d == Call.decl
             a1 == ReadCall(preds[b][1], d)
             a2 == WriteBackCall(b, d)
             cs == <<a1, a2>>
  <2>1. calls' = cs \o Tail(calls) /\ Call.fn = "readLocalVariable" /\ Len(preds[b]) = 1
    BY <1>4 DEF ReadSinglePred, Continue, Running, Call
  <2>2. b \in Block /\ b \in Nat /\ d \in Decls
    BY <1>1, <2>1, CallFacts
  <2>3. preds[b][1] \in Nat
    <3>1. preds[b] \in Seq(Block) /\ 1 \in 1 .. Len(preds[b])
      BY <2>1, <2>2 DEF TypeOK
    <3>2. preds[b][1] \in Block
      BY <3>1, ElementOfSeq
    <3> QED
      BY <3>2 DEF Block
  <2>4. a1 \in Activation /\ a2 \in Activation
    BY <2>2, <2>3, NewActivations
  <2>5. ~Sealer(a1) /\ ~Sealer(a2) /\ a1.decl = d /\ a2.decl = d
    BY NewFields
  <2>6. OfVariable(Call) /\ ~Sealer(Call)
    BY <2>1 DEF OfVariable, Sealer
  <2> HIDE DEF a1, a2
  <2>7. cs \in Seq(Activation) /\ DOMAIN cs = {1, 2} /\ cs[1] = a1 /\ cs[2] = a2
    BY <2>4
  <2> HIDE DEF cs
  <2>8. /\ \A i \in DOMAIN cs : ~Sealer(cs[i])
        /\ \A i \in DOMAIN cs : OfVariable(cs[i]) => OfVariable(Call) /\ cs[i].decl = Call.decl
    BY <2>5, <2>6, <2>7
  <2> QED
    BY <1>1, <1>2, <2>1, <2>6, <2>7, <2>8, StackStep
<1>5. CASE FillDone
  <2> DEFINE a1 == OptimizeCall(Call.phi)
             cs == <<a1>>
  <2>1. calls' = cs \o Tail(calls) /\ Call.fn = "addPhiOperands"
    BY <1>5 DEF FillDone, Continue, Running, Call
  <2>2. Call.phi \in Nat
    BY <1>1, <2>1, CallFacts
  <2>3. a1 \in Activation /\ ~Sealer(a1) /\ ~OfVariable(a1)
    BY <2>2, NewActivations, NewFields
  <2> HIDE DEF a1
  <2>4. cs \in Seq(Activation) /\ DOMAIN cs = {1} /\ cs[1] = a1
    BY <2>3
  <2> HIDE DEF cs
  <2>5. \A i \in DOMAIN cs : ~Sealer(cs[i]) /\ ~OfVariable(cs[i])
    BY <2>3, <2>4
  <2>6. ~Sealer(Call)
    BY <2>1 DEF Sealer
  <2> QED
    BY <1>1, <1>2, <2>1, <2>4, <2>5, <2>6, StackStep
<1>6. CASE OptimizeCandidate
  <2> DEFINE s == Call.todo
             a1 == OptimizeCall(Head(s))
             a2 == CandidatesCall(Tail(s), Call.same)
             cs == <<a1, a2>>
  <2>1. calls' = cs \o Tail(calls) /\ Call.fn = "candidates" /\ s # <<>>
    BY <1>6 DEF OptimizeCandidate, Continue, Running, Call
  <2>2. s \in Seq(Nat) /\ Call.same \in Value
    BY <1>1, <2>1, CallFacts
  <2>3. Head(s) \in Nat /\ Tail(s) \in Seq(Nat)
    BY <2>1, <2>2, SeqWithin
  <2>4. a1 \in Activation /\ a2 \in Activation
    BY <2>2, <2>3, NewActivations
  <2>5. ~Sealer(a1) /\ ~Sealer(a2) /\ ~OfVariable(a1) /\ ~OfVariable(a2)
    BY NewFields
  <2>6. ~Sealer(Call)
    BY <2>1 DEF Sealer
  <2> HIDE DEF a1, a2
  <2>7. cs \in Seq(Activation) /\ DOMAIN cs = {1, 2} /\ cs[1] = a1 /\ cs[2] = a2
    BY <2>4
  <2> HIDE DEF cs
  <2>8. \A i \in DOMAIN cs : ~Sealer(cs[i]) /\ ~OfVariable(cs[i])
    BY <2>5, <2>7
  <2> QED
    BY <1>1, <1>2, <2>1, <2>6, <2>7, <2>8, StackStep
<1> QED
  BY <1>3, <1>4, <1>5, <1>6

\* addPhiOperands reads the variable in the next predecessor.
LEMMA FillReadFacts ==
  ASSUME Types, FillRead
  PROVE  LET a1 == ReadCall(Head(Call.todo), Call.decl)
             cs == <<a1, Call>>
         IN  /\ calls # <<>> /\ Call.fn = "addPhiOperands" /\ Call.todo # <<>>
             /\ cs \in Seq(Activation) /\ DOMAIN cs = {1, 2} /\ cs[1] = a1 /\ cs[2] = Call
             /\ calls' = cs \o Tail(calls) /\ UNCHANGED <<vars, values, ret, dangling>>
<1> DEFINE s == Call.todo
           d == Call.decl
           a1 == ReadCall(Head(s), d)
           a2 == Call
           cs == <<a1, a2>>
           rest == Tail(calls)
<1>1. /\ calls # <<>> /\ Call.fn = "addPhiOperands" /\ s # <<>>
      /\ UNCHANGED <<vars, values, ret, dangling>> /\ calls' = <<a1>> \o calls
  BY DEF FillRead, Running, Call
<1>2. s \in Seq(Nat) /\ d \in Decls /\ a2 \in Activation
  BY <1>1, CallFacts
<1>3. Head(s) \in Nat
  BY <1>1, <1>2, SeqWithin
<1>4. a1 \in Activation
  BY <1>2, <1>3, NewActivations
<1>5. calls = <<a2>> \o rest /\ rest \in Seq(Activation)
  BY <1>1 DEF Types, CallsOK, Call
<1>6. calls' = <<a1>> \o (<<a2>> \o rest)
  BY <1>1, <1>5
<1> HIDE DEF a1, a2, rest
<1>7. <<a1>> \o (<<a2>> \o rest) = cs \o rest
  <2>1. <<a1>> \in Seq(Activation) /\ <<a2>> \in Seq(Activation)
    BY <1>2, <1>4
  <2>2. <<a1>> \o (<<a2>> \o rest) = (<<a1>> \o <<a2>>) \o rest
    BY <1>5, <2>1, ConcatAssociative
  <2> QED
    BY <2>2, Pair
<1>8. cs \in Seq(Activation) /\ DOMAIN cs = {1, 2} /\ cs[1] = a1 /\ cs[2] = a2
  BY <1>2, <1>4
<1> QED
  BY <1>1, <1>6, <1>7, <1>8 DEF a1, a2, rest

\* addPhiOperands reads the variable it fills the phi of.
LEMMA StackFillRead == Types /\ SealStack /\ FillRead => SealStack'
<1> SUFFICES ASSUME Types, SealStack, FillRead PROVE SealStack'
  OBVIOUS
<1> DEFINE a1 == ReadCall(Head(Call.todo), Call.decl)
           cs == <<a1, Call>>
<1>1. /\ calls # <<>> /\ Call.fn = "addPhiOperands"
      /\ cs \in Seq(Activation) /\ DOMAIN cs = {1, 2} /\ cs[1] = a1 /\ cs[2] = Call
      /\ calls' = cs \o Tail(calls) /\ UNCHANGED <<vars, values, ret, dangling>>
  BY FillReadFacts
<1>2. UNCHANGED <<vars, inc, def>>
  BY <1>1 DEF values
<1>3. ~Sealer(a1) /\ a1.decl = Call.decl
  BY NewFields
<1>4. OfVariable(Call) /\ ~Sealer(Call)
  BY <1>1 DEF OfVariable, Sealer
<1> HIDE DEF a1, cs
<1>5. /\ \A i \in DOMAIN cs : ~Sealer(cs[i])
      /\ \A i \in DOMAIN cs : OfVariable(cs[i]) => OfVariable(Call) /\ cs[i].decl = Call.decl
  BY <1>1, <1>3, <1>4
<1> QED
  BY <1>1, <1>2, <1>4, <1>5, StackStep

\* It adds the operand and goes on with the other predecessors.
LEMMA StackFillAdd == Types /\ SealStack /\ FillAdd => SealStack'
<1> SUFFICES ASSUME Types, SealStack, FillAdd PROVE SealStack'
  OBVIOUS
<1> DEFINE a1 == FillCall(Call.phi, Call.decl, Tail(Call.todo))
           cs == <<a1>>
<1>1. /\ calls # <<>> /\ Call.fn = "addPhiOperands" /\ ret # <<>>
      /\ calls' = cs \o Tail(calls) /\ UNCHANGED <<vars, inc, def>>
  BY DEF FillAdd, Running, Call, Continue
<1>2. /\ Call.phi \in Nat /\ Call.decl \in Decls /\ Call.todo \in Seq(Nat) /\ Call.todo # <<>>
  BY <1>1, CallFacts
<1>3. Tail(Call.todo) \in Seq(Nat)
  BY <1>2, SeqWithin
<1>4. a1 \in Activation /\ ~Sealer(a1) /\ a1.decl = Call.decl
  <2> DEFINE s == Tail(Call.todo)
             d == Call.decl
             p == Call.phi
  <2>1. p \in Nat /\ d \in Decls /\ s \in Seq(Nat)
    BY <1>2, <1>3
  <2> HIDE DEF s, d, p
  <2>2. FillCall(p, d, s) \in Activation
    BY <2>1, NewActivations
  <2>3. ~Sealer(FillCall(p, d, s)) /\ FillCall(p, d, s).decl = d
    BY NewFields
  <2> QED
    BY <2>2, <2>3 DEF s, d, p
<1>5. OfVariable(Call) /\ ~Sealer(Call)
  BY <1>1 DEF OfVariable, Sealer
<1> HIDE DEF a1
<1>6. cs \in Seq(Activation) /\ DOMAIN cs = {1} /\ cs[1] = a1
  BY <1>4
<1> HIDE DEF cs
<1>7. /\ \A i \in DOMAIN cs : ~Sealer(cs[i])
      /\ \A i \in DOMAIN cs : OfVariable(cs[i]) => OfVariable(Call) /\ cs[i].decl = Call.decl
  BY <1>4, <1>5, <1>6
<1>8. \A b \in Block : DOMAIN def[b] \subseteq DOMAIN def'[b]
  BY <1>1
<1> QED
  BY <1>1, <1>5, <1>6, <1>7, <1>8, StackStep

\* Replacing a phi changes values of definitions, never which there are.
LEMMA StackOptimizeReplace == Types /\ SealStack /\ OptimizeReplace => SealStack'
<1> SUFFICES ASSUME Types, SealStack, OptimizeReplace PROVE SealStack'
  OBVIOUS
<1> DEFINE p == Call.phi
           s == Same(p)
           us == Without(users[p], p)
           a1 == CandidatesCall(us, s)
           cs == <<a1>>
<1>1. /\ calls # <<>> /\ Call.fn = "optimizePhi" /\ ReplaceAllUses(p, s) /\ MoveUsers(p, s)
      /\ calls' = cs \o Tail(calls) /\ UNCHANGED <<vars, inc>>
  BY DEF OptimizeReplace, Running, Call, Continue
<1>2. p \in DOMAIN phis
  BY <1>1, CallFacts
<1>3. s \in Value
  BY <1>2, SameFacts
<1>4. us \in Seq(Nat)
  BY <1>2, OpsFacts, WithoutMembers
<1>5. a1 \in Activation /\ ~Sealer(a1) /\ ~OfVariable(a1)
  BY <1>3, <1>4, NewActivations, NewFields
<1>6. ~Sealer(Call)
  BY <1>1 DEF Sealer
<1>7. \A b \in Block : DOMAIN def[b] \subseteq DOMAIN def'[b]
  BY <1>1 DEF ReplaceAllUses, Types, DefOK
<1> HIDE DEF a1
<1>8. cs \in Seq(Activation) /\ DOMAIN cs = {1} /\ cs[1] = a1
  BY <1>5
<1> HIDE DEF cs
<1>9. \A i \in DOMAIN cs : ~Sealer(cs[i]) /\ ~OfVariable(cs[i])
  BY <1>5, <1>8
<1> QED
  BY <1>1, <1>6, <1>7, <1>8, <1>9, StackStep

\* The write that ends a recursive read only adds a definition.
LEMMA StackWriteBack == Types /\ SealStack /\ WriteBack => SealStack'
<1> SUFFICES ASSUME Types, SealStack, WriteBack PROVE SealStack'
  OBVIOUS
<1>1. /\ calls # <<>> /\ Call.fn = "writeLocalVariable" /\ Define(Call.block, Call.decl, ret)
      /\ calls' = Tail(calls) /\ UNCHANGED <<vars, inc>>
  BY DEF WriteBack, Running, Call, Return
<1>2. Call.block \in Block /\ Call.decl \in Decls
  BY <1>1, CallFacts
<1>3. \A b \in Block : DOMAIN def[b] \subseteq DOMAIN def'[b]
  BY <1>1, <1>2, DefineGrows
<1>4. ~Sealer(Call)
  BY <1>1 DEF Sealer
<1> QED
  BY <1>1, <1>3, <1>4, StackReturn

\* A phi of a sealed block is no incomplete one.
LEMMA StackReadJoin == TypeOK /\ Types /\ SealStack /\ ReadJoin => SealStack'
<1> SUFFICES ASSUME TypeOK, Types, SealStack, ReadJoin PROVE SealStack'
  OBVIOUS
<1> DEFINE b == Call.block
           d == Call.decl
           p == Len(phis) + 1
           a1 == FillCall(p, d, preds[b])
           a2 == WriteBackCall(b, d)
           cs == <<a1, a2>>
<1>1. /\ calls # <<>> /\ Call.fn = "readLocalVariable" /\ Define(b, d, Phi(p))
      /\ calls' = cs \o Tail(calls) /\ UNCHANGED <<vars, inc>>
  BY DEF ReadJoin, Running, Call, Continue
<1>2. b \in Block /\ b \in Nat /\ d \in Decls
  BY <1>1, CallFacts
<1>3. preds[b] \in Seq(Nat) /\ p \in Nat
  <2>1. preds[b] \in Seq(Block) /\ Block \subseteq Nat
    BY <1>2 DEF TypeOK, Block
  <2>2. Len(phis) \in Nat
    BY LenProperties DEF Types, PhisOK
  <2>3. preds[b] \in Seq(Nat)
    BY <2>1, SeqMonotonic
  <2> QED
    BY <2>2, <2>3
<1>4. \A c \in Block : DOMAIN def[c] \subseteq DOMAIN def'[c]
  BY <1>1, <1>2, DefineGrows
<1>5. a1 \in Activation /\ a2 \in Activation
  BY <1>2, <1>3, NewActivations
<1>6. ~Sealer(a1) /\ ~Sealer(a2) /\ a1.decl = d /\ a2.decl = d
  BY NewFields
<1>7. OfVariable(Call) /\ ~Sealer(Call)
  BY <1>1 DEF OfVariable, Sealer
<1> HIDE DEF a1, a2
<1>8. cs \in Seq(Activation) /\ DOMAIN cs = {1, 2} /\ cs[1] = a1 /\ cs[2] = a2
  BY <1>5
<1> HIDE DEF cs
<1>9. /\ \A i \in DOMAIN cs : ~Sealer(cs[i])
      /\ \A i \in DOMAIN cs : OfVariable(cs[i]) => OfVariable(Call) /\ cs[i].decl = Call.decl
  BY <1>6, <1>7, <1>8
<1> QED
  BY <1>1, <1>4, <1>7, <1>8, <1>9, StackStep

\* The only step that adds an incomplete phi defines its variable as well.
LEMMA StackReadUnsealed == TypeOK /\ Types /\ SealStack /\ ReadUnsealed => SealStack'
<1> SUFFICES ASSUME TypeOK, Types, SealStack, ReadUnsealed PROVE SealStack'
  OBVIOUS
<1> DEFINE b == Call.block
           d == Call.decl
           p == Len(phis) + 1
           ic == inc'
           df == def'
           cs == <<>>
<1>1. /\ calls # <<>> /\ Call.fn = "readLocalVariable" /\ Define(b, d, Phi(p))
      /\ ic = [inc EXCEPT ![b] = @ \cup {<<p, d>>}]
      /\ calls' = Tail(calls) /\ UNCHANGED vars
  BY DEF ReadUnsealed, Running, Call, Return
<1>2. b \in Block /\ d \in Decls
  BY <1>1, CallFacts
<1>3. sealing' = sealing /\ last' = last
  BY <1>1 DEF vars, skeleton
<1>4. d \in DOMAIN df[b] /\ \A c \in Block : DOMAIN def[c] \subseteq DOMAIN df[c]
  BY <1>1, <1>2, DefineGrows
<1>5. DOMAIN inc = Block
  BY DEF Types, IncOK
<1> HIDE DEF b, d, p, ic, df
<1>6. ic[b] = inc[b] \cup {<<p, d>>} /\ \A c \in Block : c # b => ic[c] = inc[c]
  BY <1>1, <1>2, <1>5
<1>7. \A c \in Block : inc[c] \subseteq ic[c]
  BY <1>6
<1>8. \A c \in Block : \A e \in ic[c] : e[2] \in DOMAIN df[c]
  <2> SUFFICES ASSUME NEW c \in Block, NEW e \in ic[c] PROVE e[2] \in DOMAIN df[c]
    OBVIOUS
  <2>1. CASE e \in inc[c]
    BY <1>4, <2>1 DEF SealStack
  <2>2. CASE e \notin inc[c]
    <3>1. c = b /\ e = <<p, d>>
      BY <1>6, <2>2
    <3> QED
      BY <1>4, <3>1
  <2> QED
    BY <2>1, <2>2
<1>9. cs \in Seq(Activation) /\ DOMAIN cs = {} /\ calls' = cs \o Tail(calls)
  <2>1. Tail(calls) \in Seq(Activation)
    BY <1>1, Running_ DEF Types
  <2> QED
    BY <1>1, <2>1
<1>10. ~Sealer(Call)
  BY <1>1 DEF Sealer
<1> HIDE DEF cs
<1> QED
  BY <1>1, <1>3, <1>4, <1>7, <1>8, <1>9, <1>10, StackGoesOn DEF ic, df

\* sealBlock is the outermost activation.
LEMMA SealerAlone ==
  ASSUME Types, SealStack, calls # <<>>, Sealer(Call)
  PROVE  /\ Len(calls) = 1 /\ Tail(calls) = <<>> /\ calls = <<Call>>
         /\ sealing # <<>> /\ Call.block = Head(sealing) /\ Call.todo \subseteq inc[Call.block]
<1>1. calls \in Seq(Activation) /\ 1 \in DOMAIN calls /\ Call = calls[1]
  BY Running_ DEF Types, CallsOK
<1>2. Len(calls) = 1
  BY <1>1 DEF SealStack
<1>3. Tail(calls) = <<>> /\ calls = <<Call>>
  <2> DEFINE c == Call
  <2>1. Len(calls) = 1 /\ calls[1] = c /\ calls \in Seq(Activation)
    BY <1>1, <1>2
  <2> HIDE DEF c
  <2>2. calls = <<c>>
    BY <2>1
  <2>3. Tail(<<c>>) = <<>>
    OBVIOUS
  <2> QED
    BY <2>2, <2>3 DEF c
<1> QED
  BY <1>1, <1>2, <1>3 DEF SealStack

\* sealBlock fills a phi whose variable the block defines.
LEMMA StackSealPhi == TypeOK /\ Types /\ SealStack /\ SealPhi => SealStack'
<1> SUFFICES ASSUME TypeOK, Types, SealStack, SealPhi PROVE SealStack'
  OBVIOUS
<1> DEFINE b == Call.block
           S == Call.todo
<1>1. calls # <<>> /\ Call.fn = "sealBlock" /\ UNCHANGED <<vars, values>>
  BY DEF SealPhi, Running, Call
<1>2. PICK e \in S : calls' = <<FillCall(e[1], e[2], preds[b]), SealCall(b, S \ {e})>> \o Tail(calls)
  BY DEF SealPhi, Continue
<1>3. Tail(calls) = <<>> /\ sealing # <<>> /\ b = Head(sealing) /\ S \subseteq inc[b]
  BY <1>1, SealerAlone DEF Sealer
<1>4. b \in Block
  BY <1>1, CallFacts
<1> DEFINE a1 == FillCall(e[1], e[2], preds[b])
           a2 == SealCall(b, S \ {e})
           cs == calls'
<1>5. /\ ~Sealer(a1) /\ a1.decl = e[2]
      /\ Sealer(a2) /\ ~OfVariable(a2) /\ a2.block = b /\ a2.todo = S \ {e}
  BY NewFields
<1>6. cs = <<a1, a2>> \o <<>>
  BY <1>2, <1>3
<1>7. sealing' = sealing /\ inc' = inc /\ def' = def /\ Block' = Block
  BY <1>1 DEF vars, skeleton, values, Block
<1>8. e[2] \in DOMAIN def[b]
  BY <1>3, <1>4 DEF SealStack
<1> HIDE DEF a1, a2
<1>9. DOMAIN cs = {1, 2} /\ Len(cs) = 2 /\ cs[1] = a1 /\ cs[2] = a2
  BY <1>6
<1> HIDE DEF cs, b, S
<1>10. \A i \in DOMAIN cs : Sealer(cs[i]) =>
         /\ i = Len(cs) /\ cs[i].block = Head(sealing) /\ cs[i].todo \subseteq inc[cs[i].block]
         /\ \A j \in DOMAIN cs : OfVariable(cs[j]) => cs[j].decl \in DOMAIN def[cs[i].block]
  BY <1>3, <1>5, <1>8, <1>9
<1> QED
  BY <1>3, <1>7, <1>10 DEF SealStack, cs

\* sealBlock begins below nothing, with what its block has noted.
LEMMA StackBegin == TypeOK /\ Types /\ SealStack /\ (EvalOperand \/ LoadOperand \/ BeginSeal) => SealStack'
<1> SUFFICES ASSUME TypeOK, Types, SealStack, EvalOperand \/ LoadOperand \/ BeginSeal PROVE SealStack'
  OBVIOUS
<1>1. UNCHANGED <<vars, values>> /\ calls = <<>>
  BY DEF EvalOperand, LoadOperand, BeginSeal
<1>2. sealing' = sealing /\ inc' = inc /\ def' = def /\ Block' = Block
  BY <1>1 DEF vars, skeleton, values, Block
<1>3. \A b \in Block' : \A e \in inc'[b] : e[2] \in DOMAIN def'[b]
  BY <1>2 DEF SealStack
<1>4. CASE LoadOperand
  <2>1. calls' = <<>>
    BY <1>4 DEF LoadOperand
  <2> QED
    BY <1>3, <2>1, StackAtMostOne
<1>5. CASE EvalOperand
  <2>1. calls' = <<ReadCall(Curr, Reads)>>
    BY <1>5 DEF EvalOperand
  <2>2. \A i \in DOMAIN calls' : ~Sealer(calls'[i])
    BY <2>1, NewFields
  <2> QED
    BY <1>3, <2>2, StackAtMostOne
<1>6. CASE BeginSeal
  <2> DEFINE b == Head(sealing)
             a1 == SealCall(b, inc[b])
             cs == calls'
  <2>1. cs = <<a1>> /\ sealing # <<>>
    BY <1>6 DEF BeginSeal
  <2>2. ~OfVariable(a1) /\ a1.block = b /\ a1.todo = inc[b]
    BY NewFields
  <2> HIDE DEF a1
  <2>3. DOMAIN cs = {1} /\ Len(cs) = 1 /\ cs[1] = a1
    BY <2>1
  <2> HIDE DEF cs
  <2>4. \A i \in DOMAIN cs : i = Len(cs) /\ cs[i].block = Head(sealing) /\ cs[i].todo \subseteq inc[cs[i].block]
                             /\ ~OfVariable(cs[i])
    BY <2>2, <2>3
  <2>5. \A i \in DOMAIN cs : Sealer(cs[i]) =>
           /\ i = Len(cs) /\ cs[i].block = Head(sealing) /\ cs[i].todo \subseteq inc[cs[i].block]
           /\ \A j \in DOMAIN cs : OfVariable(cs[j]) => cs[j].decl \in DOMAIN def[cs[i].block]
    BY <2>4
  <2> QED
    BY <1>2, <1>3, <2>1, <2>5 DEF SealStack, cs
<1> QED
  BY <1>4, <1>5, <1>6

\* Statements run below no activation, and add definitions only.
LEMMA StackEmit == TypeOK /\ Types /\ SealStack /\ EmitStatement => SealStack'
<1> SUFFICES ASSUME TypeOK, Types, SealStack, EmitStatement PROVE SealStack'
  OBVIOUS
<1> DEFINE v == IF Reads = NoDecl \/ Passes # NoDecl THEN Inst(Token) ELSE ret
           table == IF Writes = NoDecl \/ InMemory(Writes) THEN def
                    ELSE [def EXCEPT ![Curr] = Mapped(@, Writes, v)]
           none == <<>>
           df == Extend(table, none)
           ic == Extend(inc, {})
           S == SUBSET (Nat \X Decls)
<1>1. calls' = <<>> /\ inc' = ic /\ Handler
  BY DEF EmitStatement, Handler
<1>2. /\ def' = df /\ OnBlocks(table, Table)
      /\ \A b \in Block : DOMAIN def[b] \subseteq DOMAIN table[b]
  <2>1. /\ def' = df /\ table \in [Block -> Table]
        /\ \A b \in Block : b # Curr => table[b] = def[b]
        /\ DOMAIN def[Curr] \subseteq DOMAIN table[Curr]
    BY StatementFacts
  <2> HIDE DEF table
  <2> QED
    BY <2>1 DEF OnBlocks
<1>3. OnBlocks(inc, S) /\ {} \in S /\ none \in Table
  <2>1. inc \in [Block -> S]
    BY DEF Types, IncOK
  <2> QED
    BY <2>1, TableFacts DEF OnBlocks
<1>4. last \in Nat /\ last' \in Nat /\ last <= last'
  <2>1. [Next]_vars
    BY <1>1 DEF Next, Step
  <2> QED
    BY <2>1, BodyKept
<1> HIDE DEF table, none, S
<1>5. \A b \in Block : df[b] = table[b]
  BY <1>2, <1>3, <1>4, ExtendFacts
<1>6. \A b \in Block : ic[b] = inc[b]
  BY <1>3, <1>4, ExtendFacts
<1>7. \A b \in Block' \ Block : ic[b] = {}
  BY <1>3, <1>4, ExtendFacts
<1> HIDE DEF df, ic
<1>8. \A b \in Block' : \A e \in ic[b] : e[2] \in DOMAIN df[b]
  BY <1>2, <1>5, <1>6, <1>7 DEF SealStack
<1> QED
  BY <1>1, <1>2, <1>8, StackAtMostOne

\* Every step keeps sealBlock the outermost activation.
LEMMA SealStackNext == TypeOK /\ Types /\ SealStack /\ [SSANext]_allVars => SealStack'
<1> SUFFICES ASSUME TypeOK, Types, SealStack, [SSANext]_allVars PROVE SealStack'
  OBVIOUS
<1>1. CASE OptimizeErased \/ UNCHANGED allVars \/ Stopped
  <2>1. UNCHANGED <<calls, sealing, inc, def, last>>
    BY <1>1 DEF OptimizeErased, Stopped, allVars, ssaVars, values, vars, skeleton
  <2> QED
    BY <2>1 DEF SealStack, Block, Sealer, OfVariable
<1>2. CASE EnterBlock
  <2>1. calls' = <<>> /\ UNCHANGED <<inc, def, last>>
    BY <1>2 DEF EnterBlock, SetCurr, ssaVars, values
  <2> QED
    BY <2>1 DEF SealStack, Block
<1>3. CASE EndSeal
  <2>1. calls # <<>> /\ Sealer(Call) /\ calls' = Tail(calls) /\ UNCHANGED <<def, last>>
        /\ inc' = [inc EXCEPT ![Call.block] = {}]
    BY <1>3 DEF EndSeal, Running, Call, Sealer, SealBlock
  <2>2. calls' = <<>> /\ Block' = Block /\ DOMAIN inc = Block
    BY <2>1, SealerAlone DEF Block, Types, IncOK
  <2>3. \A b \in Block : inc'[b] \subseteq inc[b]
    BY <2>1, <2>2
  <2> QED
    BY <2>1, <2>2, <2>3 DEF SealStack
<1> QED
  BY <1>1, <1>2, <1>3, StackReading, StackFillRead, StackFillAdd, StackOptimizeReplace, StackWriteBack,
     StackReadJoin, StackReadUnsealed, StackSealPhi, StackBegin, StackEmit DEF SSANext, Construction

\* The iteration over IncompletePhis is never disturbed, for every set of bodies:
\* what addPhiOperands reads meanwhile is found in the block being sealed.
THEOREM IterationIsUndisturbed == SSASpec => IterationUndisturbed
<1>1. SSAInit => SealStack
  BY DEF SSAInit, Init, SealStack, Block
<1>2. SSAInv /\ SealStack /\ [SSANext]_allVars => SealStack'
  BY SealStackNext DEF SSAInv
<1>3. SSAInv /\ SealStack /\ [SSANext]_allVars =>
        [\A i \in DOMAIN calls :
           calls[i].fn = "sealBlock" /\ calls' # <<>> => inc'[calls[i].block] = inc[calls[i].block]]_allVars
  <2> SUFFICES ASSUME SSAInv, SealStack, SSANext,
           NEW i \in DOMAIN calls, calls[i].fn = "sealBlock", calls' # <<>>
         PROVE  inc'[calls[i].block] = inc[calls[i].block]
    OBVIOUS
  <2>1. Types /\ TypeOK
    BY DEF SSAInv
  <2>2. calls # <<>>
    OBVIOUS
  <2> DEFINE B == calls[i].block
  <2>3. B \in Block /\ DOMAIN inc = Block
    BY <2>1 DEF Types, CallsOK, CallOK, IncOK
  <2>4. CASE ReadUnsealed
    <3>1. /\ Call.fn = "readLocalVariable" /\ ~Defined(Call)
          /\ inc' = [inc EXCEPT ![Call.block] = @ \cup {<<Len(phis) + 1, Call.decl>>}]
      BY <2>4 DEF ReadUnsealed, Running, Call
    <3>2. Call = calls[1] /\ 1 \in DOMAIN calls
      BY <2>1, <2>2, Running_ DEF Types
    <3>3. Call.decl \in DOMAIN def[B]
      BY <3>1, <3>2 DEF SealStack, Sealer, OfVariable
    <3>4. Call.block # B
      BY <3>1, <3>3 DEF Defined
    <3> QED
      BY <2>3, <3>1, <3>4
  <2>5. CASE EndSeal
    <3>1. Sealer(Call) /\ calls' = Tail(calls)
      BY <2>5 DEF EndSeal, Running, Call, Sealer
    <3> QED
      BY <2>1, <2>2, <3>1, SealerAlone
  <2>6. CASE ~(ReadUnsealed \/ EndSeal)
    <3>1. inc' = inc
      BY <2>2, <2>6 DEF SSANext, Stopped, Construction, ReadFound, ReadSinglePred, ReadJoin, WriteBack,
         FillRead, FillAdd, FillDone, OptimizeKeep, OptimizeReplace, OptimizeErased,
         OptimizeCandidate, CandidatesDone, BeginSeal, SealPhi,
         EvalOperand, LoadOperand, EmitStatement, EnterBlock, values, ssaVars, allVars
    <3> QED
      BY <3>1
  <2> QED
    BY <2>4, <2>5, <2>6
<1> QED
  BY <1>1, <1>2, <1>3, SSAInvariant, PTL DEF SSASpec, IterationUndisturbed

-----------------------------------------------------------------------------
(* When phis are filled. *)

\* The incomplete phis of block b that sealBlock, if it is under way, has left.
SealsOf(stack, b) == {i \in DOMAIN stack : stack[i].fn = "sealBlock" /\ stack[i].block = b}
Remaining(stack, ic, b) ==
  IF SealsOf(stack, b) = {} THEN ic[b] ELSE UNION {stack[i].todo : i \in SealsOf(stack, b)}

FromsOf(ops) == [i \in DOMAIN ops |-> ops[i].from]
Entry(p) == <<p, phis[p].decl>>

\* Activation c will come back to phi p, which it adds operands to or replaces.
Minds(c, p) ==
  \/ c.fn \in {"addPhiOperands", "optimizePhi"} /\ c.phi = p
  \/ c.fn = "candidates" /\ \E j \in DOMAIN c.todo : c.todo[j] = p
Busy(p) == \E i \in DOMAIN calls : Minds(calls[i], p)
Fills(c, p) == FilledBy(c) /\ c.phi = p
InFill(p) == \E i \in DOMAIN calls : Fills(calls[i], p)

WaitsAt(b, e) ==
  /\ b \notin sealed
  /\ e[1] \notin erased /\ phis[e[1]].block = b /\ FromsOf(phis[e[1]].ops) = <<>>
  /\ e[2] = phis[e[1]].decl
  /\ ~Busy(e[1])
\* A phi that waits is alive, empty and of no running activation.
WaitsAlone == \A b \in Block : \A e \in Waiting(b) : WaitsAt(b, e)
\* A phi of an unsealed block is noted there.
NotedAt(p) == phis[p].block \in sealed \/ Entry(p) \in inc[phis[p].block]
UnsealedNoted == \A p \in DOMAIN phis : p \notin erased => NotedAt(p)
\* What a phi being filled has and lacks is one operand per predecessor; at most
\* one activation fills it.
FillAt(c, ps) == FromsOf(ps[c.phi].ops) \o c.todo = preds[ps[c.phi].block]
FillsFit ==
  \A i \in DOMAIN calls : FilledBy(calls[i]) =>
    /\ FillAt(calls[i], phis)
    /\ \A j \in DOMAIN calls : Fills(calls[j], calls[i].phi) => i = j
\* Every phi alive waits, is being filled, or is complete.
CompleteAt(p) ==
  \/ InFill(p)
  \/ Entry(p) \in Remaining(calls, inc, phis[p].block)
  \/ FromsOf(phis[p].ops) = preds[phis[p].block]
AllComplete == \A p \in DOMAIN phis : p \notin erased => CompleteAt(p)

\* A phi a single value could replace waits, or an activation comes back to it.
Pending(p) == Busy(p) \/ Entry(p) \in Waiting(phis[p].block)
TrivialPending == \A p \in DOMAIN phis : p \notin erased /\ Trivial(p) => Pending(p)

Filling == WaitsAlone /\ UnsealedNoted /\ FillsFit /\ AllComplete /\ TrivialPending

-----------------------------------------------------------------------------
\* What waits: the rest of the seal of the block, if it is under way.
SealsNow(b) == \E i \in DOMAIN calls : Sealer(calls[i]) /\ calls[i].block = b

OneSealer(stack) == \A i, j \in DOMAIN stack : Sealer(stack[i]) /\ Sealer(stack[j]) => i = j

\* With one sealBlock under way, what it has left is what remains of its block.
LEMMA RemainingIs ==
  ASSUME NEW stack, NEW ic, NEW b, OneSealer(stack)
  PROVE  /\ \/ Remaining(stack, ic, b) = ic[b]
            \/ \E i \in DOMAIN stack : Sealer(stack[i]) /\ stack[i].block = b
                                       /\ Remaining(stack, ic, b) = stack[i].todo
         /\ \A i \in DOMAIN stack : Sealer(stack[i]) /\ stack[i].block = b =>
              Remaining(stack, ic, b) = stack[i].todo
<1> DEFINE S == SealsOf(stack, b)
<1>1. \A i \in DOMAIN stack : i \in S <=> Sealer(stack[i]) /\ stack[i].block = b
  BY DEF Sealer, SealsOf
<1>2. \A i \in S : i \in DOMAIN stack /\ S = {i}
  BY <1>1 DEF SealsOf, OneSealer
<1>3. \A i \in S : Remaining(stack, ic, b) = stack[i].todo
  <2> SUFFICES ASSUME NEW i \in S PROVE Remaining(stack, ic, b) = stack[i].todo
    OBVIOUS
  <2>1. S = {i}
    BY <1>2
  <2> DEFINE T == {stack[j].todo : j \in S}
  <2>2. Remaining(stack, ic, b) = UNION T
    BY DEF Remaining
  <2>3. T = {stack[i].todo}
    BY <2>1
  <2> HIDE DEF T
  <2> QED
    BY <2>2, <2>3
<1>4. S = {} => Remaining(stack, ic, b) = ic[b]
  BY DEF Remaining
<1> HIDE DEF S
<1> QED
  BY <1>1, <1>2, <1>3, <1>4

\* What remains is what Waiting says, before and after a step.
LEMMA RemainingWaits ==
  ASSUME NEW b
  PROVE  Waiting(b) = Remaining(calls, inc, b) /\ Waiting(b)' = Remaining(calls', inc', b)
BY DEF Waiting, Remaining, SealsOf

\* What waits in a block is noted there, or left to the sealBlock of the block.
LEMMA WaitingMeans ==
  ASSUME SealStack, NEW b \in Block
  PROVE  /\ ~SealsNow(b) => Waiting(b) = inc[b]
         /\ \A i \in DOMAIN calls : Sealer(calls[i]) /\ calls[i].block = b => Waiting(b) = calls[i].todo
         /\ Waiting(b) \subseteq inc[b]
<1>1. \A i \in DOMAIN calls : Sealer(calls[i]) => i = Len(calls) /\ calls[i].todo \subseteq inc[calls[i].block]
  BY DEF SealStack
<1>2. /\ \/ Waiting(b) = inc[b]
         \/ \E i \in DOMAIN calls : Sealer(calls[i]) /\ calls[i].block = b /\ Waiting(b) = calls[i].todo
      /\ \A i \in DOMAIN calls : Sealer(calls[i]) /\ calls[i].block = b => Waiting(b) = calls[i].todo
  <2>1. OneSealer(calls)
    BY <1>1 DEF OneSealer
  <2>2. /\ \/ Remaining(calls, inc, b) = inc[b]
           \/ \E i \in DOMAIN calls : Sealer(calls[i]) /\ calls[i].block = b
                                      /\ Remaining(calls, inc, b) = calls[i].todo
        /\ \A i \in DOMAIN calls : Sealer(calls[i]) /\ calls[i].block = b =>
             Remaining(calls, inc, b) = calls[i].todo
    BY <2>1, RemainingIs
  <2> QED
    BY <2>2, RemainingWaits
<1> QED
  BY <1>1, <1>2 DEF SealsNow

\* The same of the state after a step.
LEMMA WaitingMeansNext ==
  ASSUME SealStack', NEW b \in Block'
  PROVE  /\ (\A i \in DOMAIN calls' : ~(Sealer(calls'[i]) /\ calls'[i].block = b)) => Waiting(b)' = inc'[b]
         /\ \A i \in DOMAIN calls' : Sealer(calls'[i]) /\ calls'[i].block = b => Waiting(b)' = calls'[i].todo
<1> DEFINE stack == calls'
           ic == inc'
<1>1. \A i \in DOMAIN stack : Sealer(stack[i]) => i = Len(stack)
  BY DEF SealStack
<1>2. Waiting(b)' = Remaining(stack, ic, b)
  BY RemainingWaits
<1> HIDE DEF stack, ic
<1>3. /\ \/ Waiting(b)' = ic[b]
         \/ \E i \in DOMAIN stack : Sealer(stack[i]) /\ stack[i].block = b /\ Waiting(b)' = stack[i].todo
      /\ \A i \in DOMAIN stack : Sealer(stack[i]) /\ stack[i].block = b => Waiting(b)' = stack[i].todo
  <2>1. OneSealer(stack)
    BY <1>1 DEF OneSealer
  <2>2. /\ \/ Remaining(stack, ic, b) = ic[b]
           \/ \E i \in DOMAIN stack : Sealer(stack[i]) /\ stack[i].block = b
                                      /\ Remaining(stack, ic, b) = stack[i].todo
        /\ \A i \in DOMAIN stack : Sealer(stack[i]) /\ stack[i].block = b =>
             Remaining(stack, ic, b) = stack[i].todo
    BY <2>1, RemainingIs
  <2> QED
    BY <1>2, <2>2
<1> QED
  BY <1>3 DEF stack, ic

\* The running activation, no sealBlock, goes on as cs; of the phis there are it
\* may add an operand to the one it fills and erase only those it minds.
SameNode(p) == phis'[p].block = phis[p].block /\ phis'[p].decl = phis[p].decl
SameFroms(p) == FromsOf(phis'[p].ops) = FromsOf(phis[p].ops)
GoesOn(cs) ==
  /\ calls # <<>> /\ ~Sealer(Call) /\ cs \in Seq(Activation) /\ calls' = cs \o Tail(calls)
  /\ \A i \in DOMAIN cs : ~Sealer(cs[i])
  /\ UNCHANGED vars /\ DOMAIN phis \subseteq DOMAIN phis' /\ erased \subseteq erased'
  /\ \A b \in Block : inc[b] \subseteq inc'[b]
  /\ \A p \in DOMAIN phis : SameNode(p) /\ (SameFroms(p) \/ Fills(Call, p))
  /\ \A p \in erased' : p \in erased \/ Minds(Call, p)
  /\ \A i \in DOMAIN cs : \A p \in DOMAIN phis :
       Minds(cs[i], p) => Minds(Call, p) \/ p \in erased \/ FromsOf(phis[p].ops) # <<>>

\* cs comes back to the phis that are trivial and were minded, or are so only now.
ComesBack(cs) ==
  \A p \in DOMAIN phis : p \notin erased' /\ Trivial(p)' /\ (Minds(Call, p) \/ ~Trivial(p)) =>
    \E i \in DOMAIN cs : Minds(cs[i], p)

\* The activations after such a step.
LEMMA GoesOnCalls ==
  ASSUME Types, NEW cs, GoesOn(cs)
  PROVE  /\ \A i \in DOMAIN calls' :
              \/ i \in DOMAIN cs /\ calls'[i] = cs[i]
              \/ i > Len(cs) /\ i - Len(cs) + 1 \in DOMAIN calls /\ i - Len(cs) + 1 > 1
                 /\ calls'[i] = calls[i - Len(cs) + 1]
         /\ \A i \in DOMAIN cs : i \in DOMAIN calls' /\ calls'[i] = cs[i]
         /\ \A j \in DOMAIN calls : j > 1 =>
              j + Len(cs) - 1 \in DOMAIN calls' /\ calls'[j + Len(cs) - 1] = calls[j]
         /\ Len(cs) \in Nat /\ DOMAIN calls \subseteq Nat /\ Call = calls[1] /\ 1 \in DOMAIN calls
<1> DEFINE all == calls'
           rest == Tail(calls)
<1>1. /\ all \in Seq(Activation) /\ Len(all) = Len(cs) + Len(calls) - 1 /\ DOMAIN all = 1 .. Len(all)
      /\ \A i \in DOMAIN all :
           \/ i \in DOMAIN cs /\ all[i] = cs[i]
           \/ i > Len(cs) /\ i - Len(cs) + 1 \in DOMAIN calls /\ i - Len(cs) + 1 > 1
              /\ all[i] = calls[i - Len(cs) + 1]
  BY Stacked DEF GoesOn, Types
<1>2. /\ calls \in Seq(Activation) /\ Len(calls) \in Nat \ {0} /\ DOMAIN calls = 1 .. Len(calls)
      /\ Call = calls[1] /\ 1 \in DOMAIN calls
  BY Running_ DEF Types, CallsOK, GoesOn
<1>3. cs \in Seq(Activation) /\ Len(cs) \in Nat /\ DOMAIN cs = 1 .. Len(cs)
  BY LenProperties DEF GoesOn
<1>4. all = cs \o rest /\ rest \in Seq(Activation) /\ Len(rest) = Len(calls) - 1
      /\ \A i \in 1 .. Len(rest) : rest[i] = calls[i + 1]
  BY <1>2, HeadTailProperties DEF GoesOn
<1> HIDE DEF all, rest
<1>5. \A i \in DOMAIN cs : all[i] = cs[i]
  BY <1>3, <1>4, ConcatProperties
<1>6. \A j \in DOMAIN calls : j > 1 => all[j + Len(cs) - 1] = calls[j]
  <2> SUFFICES ASSUME NEW j \in DOMAIN calls, j > 1 PROVE all[j + Len(cs) - 1] = calls[j]
    OBVIOUS
  <2>1. j + Len(cs) - 1 \in 1 .. Len(cs) + Len(rest) /\ j + Len(cs) - 1 > Len(cs) /\ j - 1 \in 1 .. Len(rest)
    BY <1>2, <1>3, <1>4
  <2>2. all[j + Len(cs) - 1] = rest[j + Len(cs) - 1 - Len(cs)]
    BY <1>3, <1>4, <2>1, ConcatProperties
  <2>3. j + Len(cs) - 1 - Len(cs) = j - 1 /\ j - 1 + 1 = j
    BY <1>2, <1>3
  <2> QED
    BY <1>4, <2>1, <2>2, <2>3
<1>7. \A i \in DOMAIN cs : i \in DOMAIN all
  BY <1>1, <1>2, <1>3
<1>8. \A j \in DOMAIN calls : j > 1 => j + Len(cs) - 1 \in DOMAIN all
  BY <1>1, <1>2, <1>3
<1> QED
  BY <1>1, <1>2, <1>3, <1>5, <1>6, <1>7, <1>8 DEF all

\* What waits goes on waiting, but for a block whose seal is not under way an
\* entry may come.
LEMMA WaitingGoesOn ==
  ASSUME Types, SealStack, SealStack', NEW cs, GoesOn(cs), NEW b \in Block
  PROVE  /\ SealsNow(b) => Waiting(b)' = Waiting(b)
         /\ ~SealsNow(b) => Waiting(b) = inc[b] /\ Waiting(b)' = inc'[b]
         /\ Waiting(b) \subseteq Waiting(b)'
<1>1. Block' = Block /\ (\A i \in DOMAIN cs : ~Sealer(cs[i])) /\ ~Sealer(Call) /\ inc[b] \subseteq inc'[b]
  BY DEF GoesOn, vars, skeleton, Block
<1>2. /\ \A i \in DOMAIN calls' :
           \/ i \in DOMAIN cs /\ calls'[i] = cs[i]
           \/ i > Len(cs) /\ i - Len(cs) + 1 \in DOMAIN calls /\ i - Len(cs) + 1 > 1
              /\ calls'[i] = calls[i - Len(cs) + 1]
      /\ \A j \in DOMAIN calls : j > 1 =>
           j + Len(cs) - 1 \in DOMAIN calls' /\ calls'[j + Len(cs) - 1] = calls[j]
      /\ DOMAIN calls \subseteq Nat /\ Call = calls[1]
  BY GoesOnCalls
<1>3. ASSUME SealsNow(b) PROVE Waiting(b)' = Waiting(b)
  <2>1. PICK i \in DOMAIN calls : Sealer(calls[i]) /\ calls[i].block = b
    BY <1>3 DEF SealsNow
  <2>2. Waiting(b) = calls[i].todo
    BY <2>1, WaitingMeans
  <2>3. i = Len(calls) /\ i \in Nat /\ 1 \in DOMAIN calls /\ i # 1 /\ i > 1
    <3>1. i = Len(calls) /\ i # 1
      BY <1>1, <1>2, <2>1 DEF SealStack
    <3>2. i \in 1 .. Len(calls) /\ Len(calls) \in Nat /\ 1 \in DOMAIN calls
      BY Running_ DEF Types, GoesOn
    <3> QED
      BY <3>1, <3>2
  <2> DEFINE k == i + Len(cs) - 1
  <2>4. k \in DOMAIN calls' /\ calls'[k] = calls[i]
    BY <1>2, <2>3
  <2> HIDE DEF k
  <2>5. Sealer(calls'[k]) /\ calls'[k].block = b
    BY <2>1, <2>4
  <2>6. b \in Block'
    BY <1>1
  <2>7. Waiting(b)' = calls'[k].todo
    BY <2>4, <2>5, <2>6, WaitingMeansNext
  <2> QED
    BY <2>2, <2>4, <2>7
<1>4. ASSUME ~SealsNow(b) PROVE Waiting(b)' = inc'[b]
  <2>1. ASSUME NEW i \in DOMAIN calls' PROVE ~(Sealer(calls'[i]) /\ calls'[i].block = b)
    <3>1. CASE i \in DOMAIN cs /\ calls'[i] = cs[i]
      BY <1>1, <3>1
    <3>2. CASE i - Len(cs) + 1 \in DOMAIN calls /\ calls'[i] = calls[i - Len(cs) + 1]
      BY <1>4, <3>2 DEF SealsNow
    <3> QED
      BY <1>2, <3>1, <3>2
  <2>2. b \in Block'
    BY <1>1
  <2> QED
    BY <2>1, <2>2, WaitingMeansNext
<1>5. Waiting(b) \subseteq Waiting(b)'
  BY <1>1, <1>3, <1>4, WaitingMeans
<1> QED
  BY <1>3, <1>4, <1>5, WaitingMeans

-----------------------------------------------------------------------------
(* What such a step leaves of the parts, for the phis there are. *)

\* The blocks operands come from.
LEMMA FromsFacts ==
  ASSUME NEW ops \in OperandsOf
  PROVE  FromsOf(ops) \in Seq(Nat) /\ Len(FromsOf(ops)) = Len(ops) /\ (FromsOf(ops) = <<>> <=> ops = <<>>)
<1>1. ops \in [1 .. Len(ops) -> [val : Value, from : Nat]] /\ Len(ops) \in Nat
  BY LenProperties DEF OperandsOf
<1>2. FromsOf(ops) \in [1 .. Len(ops) -> Nat]
  BY <1>1 DEF FromsOf
<1>3. FromsOf(ops) \in Seq(Nat) /\ Len(FromsOf(ops)) = Len(ops)
  BY <1>1, <1>2, FunctionIsSeq
<1> QED
  BY <1>1, <1>3 DEF OperandsOf

\* A phi no activation minds is not minded after the step, unless it has operands.
LEMMA BusyGoesOn ==
  ASSUME Types, NEW cs, GoesOn(cs), NEW p \in DOMAIN phis,
         ~Busy(p), p \notin erased, FromsOf(phis[p].ops) = <<>>
  PROVE  ~Busy(p)' /\ ~Minds(Call, p)
<1>1. /\ \A i \in DOMAIN calls' :
           \/ i \in DOMAIN cs /\ calls'[i] = cs[i]
           \/ i > Len(cs) /\ i - Len(cs) + 1 \in DOMAIN calls /\ i - Len(cs) + 1 > 1
              /\ calls'[i] = calls[i - Len(cs) + 1]
      /\ Call = calls[1] /\ 1 \in DOMAIN calls
  BY GoesOnCalls
<1>2. \A i \in DOMAIN calls : ~Minds(calls[i], p)
  BY DEF Busy
<1>3. \A i \in DOMAIN cs : ~Minds(cs[i], p)
  BY <1>1, <1>2 DEF GoesOn
<1>4. \A i \in DOMAIN calls' : ~Minds(calls'[i], p)
  BY <1>1, <1>2, <1>3
<1> QED
  BY <1>1, <1>2, <1>4 DEF Busy, Minds

\* A phi that waits goes on waiting.
LEMMA WaitsOld ==
  ASSUME Types, SealStack, WaitsAlone, NEW cs, GoesOn(cs), NEW b \in Block, NEW e \in Waiting(b)
  PROVE  WaitsAt(b, e)'
<1>1. e \in inc[b] /\ e[1] \in DOMAIN phis
  BY WaitingMeans DEF Types, IncOK
<1> DEFINE p == e[1]
<1>2. /\ b \notin sealed /\ p \notin erased /\ phis[p].block = b /\ FromsOf(phis[p].ops) = <<>>
      /\ e[2] = phis[p].decl /\ ~Busy(p)
  BY DEF WaitsAlone, WaitsAt
<1> HIDE DEF p
<1>3. p \in DOMAIN phis
  BY <1>1 DEF p
<1>4. ~Busy(p)' /\ ~Minds(Call, p)
  BY <1>2, <1>3, BusyGoesOn
<1>5. ~Fills(Call, p)
  BY <1>4 DEF Minds, Fills, FilledBy
<1>6. /\ phis'[p].block = b /\ phis'[p].decl = e[2] /\ FromsOf(phis'[p].ops) = <<>>
      /\ p \notin erased' /\ sealed' = sealed
  BY <1>2, <1>3, <1>4, <1>5 DEF GoesOn, SameNode, SameFroms, vars, skeleton
<1> QED
  BY <1>2, <1>4, <1>6 DEF WaitsAt, p

\* A phi noted in an unsealed block stays noted.
LEMMA NotedOld ==
  ASSUME Types, UnsealedNoted, NEW cs, GoesOn(cs), NEW p \in DOMAIN phis, p \notin erased'
  PROVE  NotedAt(p)'
<1>1. phis'[p].block = phis[p].block /\ phis'[p].decl = phis[p].decl
      /\ sealed' = sealed /\ p \notin erased /\ \A b \in Block : inc[b] \subseteq inc'[b]
  BY DEF GoesOn, SameNode, vars, skeleton
<1>2. phis[p].block \in Block
  BY DEF Types, PhisOK
<1>3. phis[p].block \in sealed \/ <<p, phis[p].decl>> \in inc[phis[p].block]
  BY <1>1 DEF UnsealedNoted, NotedAt, Entry
<1>4. phis'[p].block \in sealed' \/ <<p, phis'[p].decl>> \in inc'[phis'[p].block]
  BY <1>1, <1>2, <1>3
<1> QED
  BY <1>4 DEF NotedAt, Entry

\* The filling activations below go on; those of cs have to fit.
LEMMA FillsStep ==
  ASSUME Types, FillsFit, NEW cs, GoesOn(cs),
         \A i \in DOMAIN cs : FilledBy(cs[i]) =>
           /\ FillAt(cs[i], phis')
           /\ \A j \in DOMAIN cs : Fills(cs[j], cs[i].phi) => i = j
           /\ cs[i].phi \notin DOMAIN phis \/ Fills(Call, cs[i].phi)
  PROVE  FillsFit'
<1> DEFINE all == calls'
           ps == phis'
           n == Len(cs)
<1>1. /\ \A i \in DOMAIN all :
           \/ i \in DOMAIN cs /\ all[i] = cs[i]
           \/ i > n /\ i - n + 1 \in DOMAIN calls /\ i - n + 1 > 1 /\ all[i] = calls[i - n + 1]
      /\ n \in Nat /\ DOMAIN calls \subseteq Nat /\ Call = calls[1] /\ 1 \in DOMAIN calls
  BY GoesOnCalls
<1>2. DOMAIN all \subseteq Nat
  <2>1. all \in Seq(Activation)
    BY Stacked DEF GoesOn, Types
  <2> QED
    BY <2>1, LenProperties
<1>3. preds' = preds /\ \A p \in DOMAIN phis : ps[p].block = phis[p].block /\ (FromsOf(ps[p].ops) = FromsOf(phis[p].ops) \/ Fills(Call, p))
  BY DEF GoesOn, SameNode, SameFroms, vars, skeleton
<1>4. \A i \in DOMAIN calls : FilledBy(calls[i]) =>
        /\ FillAt(calls[i], phis) /\ calls[i].phi \in DOMAIN phis
        /\ \A j \in DOMAIN calls : Fills(calls[j], calls[i].phi) => i = j
  BY DEF FillsFit, Types, CallsOK, CallOK, FilledBy
<1> HIDE DEF all, ps, n
\* Those below: the one running fills another phi.
<1>5. ASSUME NEW i \in DOMAIN calls, i > 1, FilledBy(calls[i])
      PROVE  FillAt(calls[i], ps) /\ ~Fills(Call, calls[i].phi) /\ calls[i].phi \in DOMAIN phis
  <2>1. ~Fills(Call, calls[i].phi)
    BY <1>1, <1>4, <1>5
  <2> QED
    BY <1>3, <1>4, <1>5, <2>1 DEF FillAt
<1>6. ASSUME NEW i \in DOMAIN all, FilledBy(all[i]) PROVE FillAt(all[i], ps)
  BY <1>1, <1>5, <1>6 DEF ps
<1>7. ASSUME NEW i \in DOMAIN all, FilledBy(all[i]), NEW j \in DOMAIN all, Fills(all[j], all[i].phi) PROVE i = j
  <2>0. i \in Nat /\ j \in Nat /\ FilledBy(all[j]) /\ all[j].phi = all[i].phi
    BY <1>2, <1>7 DEF Fills
  <2>1. CASE i \in DOMAIN cs /\ all[i] = cs[i] /\ j \in DOMAIN cs /\ all[j] = cs[j]
    BY <1>7, <2>1
  <2>2. CASE i > n /\ i - n + 1 \in DOMAIN calls /\ i - n + 1 > 1 /\ all[i] = calls[i - n + 1]
             /\ j > n /\ j - n + 1 \in DOMAIN calls /\ j - n + 1 > 1 /\ all[j] = calls[j - n + 1]
    <3>1. i - n + 1 = j - n + 1
      BY <1>4, <1>7, <2>2
    <3> QED
      BY <1>1, <2>0, <3>1
  <2>3. ASSUME NEW a \in DOMAIN cs, NEW c \in DOMAIN calls, c > 1, FilledBy(cs[a]), FilledBy(calls[c]),
               cs[a].phi = calls[c].phi
        PROVE  FALSE
    BY <1>5, <2>3
  <2>4. CASE i \in DOMAIN cs /\ all[i] = cs[i] /\ j - n + 1 \in DOMAIN calls /\ j - n + 1 > 1 /\ all[j] = calls[j - n + 1]
    BY <1>7, <2>0, <2>3, <2>4
  <2>5. CASE j \in DOMAIN cs /\ all[j] = cs[j] /\ i - n + 1 \in DOMAIN calls /\ i - n + 1 > 1 /\ all[i] = calls[i - n + 1]
    BY <1>7, <2>0, <2>3, <2>5
  <2> QED
    BY <1>1, <2>1, <2>2, <2>4, <2>5
<1> QED
  BY <1>3, <1>6, <1>7 DEF FillsFit, FillAt, all, ps, FilledBy, Fills

\* A phi being filled goes on being filled, or has got its last operand.
LEMMA CompleteOld ==
  ASSUME Types, SealStack, SealStack', WaitsAlone, FillsFit, AllComplete, NEW cs, GoesOn(cs),
         FilledBy(Call) =>
           \/ \E i \in DOMAIN cs : Fills(cs[i], Call.phi)
           \/ Call.todo = <<>> /\ SameFroms(Call.phi),
         NEW p \in DOMAIN phis, p \notin erased'
  PROVE  CompleteAt(p)'
<1>1. PICK b \in Block : b = phis[p].block
  BY DEF Types, PhisOK
<1>2. preds' = preds /\ phis'[p].block = b /\ phis'[p].decl = phis[p].decl /\ p \notin erased
      /\ (FromsOf(phis'[p].ops) = FromsOf(phis[p].ops) \/ Fills(Call, p))
  BY <1>1 DEF GoesOn, SameNode, SameFroms, vars, skeleton
<1>3. CompleteAt(p)
  BY <1>2 DEF AllComplete
<1>4. /\ \A i \in DOMAIN cs : i \in DOMAIN calls' /\ calls'[i] = cs[i]
      /\ \A j \in DOMAIN calls : j > 1 =>
           j + Len(cs) - 1 \in DOMAIN calls' /\ calls'[j + Len(cs) - 1] = calls[j]
      /\ Call = calls[1] /\ DOMAIN calls \subseteq Nat /\ 1 \in DOMAIN calls
      /\ DOMAIN calls = 1 .. Len(calls)
  BY GoesOnCalls, Running_ DEF GoesOn, Types
<1>5. CASE InFill(p)
  <2>1. PICK i \in DOMAIN calls : Fills(calls[i], p)
    BY <1>5 DEF InFill
  <2>2. CASE i > 1
    <3>1. \E k \in DOMAIN calls' : calls'[k] = calls[i]
      BY <1>4, <2>2
    <3>2. InFill(p)'
      BY <2>1, <3>1 DEF InFill, Fills, FilledBy
    <3> QED
      BY <3>2 DEF CompleteAt
  <2>3. CASE ~(i > 1)
    <3>1. i = 1 /\ FilledBy(Call) /\ Call.phi = p
      BY <1>4, <2>1, <2>3 DEF Fills
    <3>2. CASE \E k \in DOMAIN cs : Fills(cs[k], p)
      <4>1. InFill(p)'
        BY <1>4, <3>2 DEF InFill, Fills, FilledBy
      <4> QED
        BY <4>1 DEF CompleteAt
    <3>3. CASE Call.todo = <<>> /\ SameFroms(p)
      <4>1. FromsOf(phis[p].ops) \o Call.todo = preds[b]
        BY <1>1, <1>4, <3>1 DEF FillsFit, FillAt
      <4>2. FromsOf(phis[p].ops) \in Seq(Nat)
        BY OpsFacts, FromsFacts
      <4>3. FromsOf(phis'[p].ops) = preds[b]
        BY <3>3, <4>1, <4>2 DEF SameFroms
      <4> QED
        BY <1>2, <4>3 DEF CompleteAt
    <3> QED
      BY <3>1, <3>2, <3>3
  <2> QED
    BY <2>2, <2>3
<1>6. CASE Entry(p) \in Remaining(calls, inc, b)
  <2>1. Waiting(b) \subseteq Waiting(b)'
    BY WaitingGoesOn
  <2>2. <<p, phis[p].decl>> \in Remaining(calls', inc', b)
    BY <1>6, <2>1, RemainingWaits DEF Entry
  <2> QED
    BY <1>2, <2>2 DEF CompleteAt, Entry
<1>7. CASE ~InFill(p) /\ FromsOf(phis[p].ops) = preds[b]
  <2>1. ~Fills(Call, p)
    BY <1>4, <1>7 DEF InFill
  <2> QED
    BY <1>2, <1>7, <2>1 DEF CompleteAt
<1> QED
  BY <1>1, <1>3, <1>5, <1>6, <1>7 DEF CompleteAt

\* Whether a phi is trivial is a matter of its operands.
LEMMA TrivialKept ==
  ASSUME NEW p, phis'[p].ops = phis[p].ops
  PROVE  Trivial(p)' <=> Trivial(p)
BY DEF Trivial, Operands, Incoming

\* A trivial phi stays pending when cs comes back to it.
LEMMA PendingOld ==
  ASSUME Types, SealStack, SealStack', TrivialPending, NEW cs, GoesOn(cs), ComesBack(cs),
         NEW p \in DOMAIN phis, p \notin erased', Trivial(p)'
  PROVE  Pending(p)'
<1>1. PICK b \in Block : b = phis[p].block
  BY DEF Types, PhisOK
<1>2. phis'[p].block = b /\ phis'[p].decl = phis[p].decl /\ p \notin erased
  BY <1>1 DEF GoesOn, SameNode
<1>3. /\ \A i \in DOMAIN cs : i \in DOMAIN calls' /\ calls'[i] = cs[i]
      /\ \A j \in DOMAIN calls : j > 1 =>
           j + Len(cs) - 1 \in DOMAIN calls' /\ calls'[j + Len(cs) - 1] = calls[j]
      /\ Call = calls[1] /\ DOMAIN calls = 1 .. Len(calls)
  BY GoesOnCalls, Running_ DEF GoesOn, Types
<1>4. CASE \E i \in DOMAIN cs : Minds(cs[i], p)
  <2>1. \E i \in DOMAIN calls' : Minds(calls'[i], p)
    BY <1>3, <1>4
  <2> QED
    BY <2>1 DEF Pending, Busy, Minds
<1>5. CASE ~Minds(Call, p) /\ Trivial(p)
  <2>1. Busy(p) \/ Entry(p) \in Waiting(b)
    BY <1>1, <1>2, <1>5 DEF TrivialPending, Pending
  <2>2. CASE Busy(p)
    <3>1. PICK j \in DOMAIN calls : Minds(calls[j], p)
      BY <2>2 DEF Busy
    <3>2. j > 1
      BY <1>3, <1>5, <3>1
    <3>3. \E i \in DOMAIN calls' : Minds(calls'[i], p)
      BY <1>3, <3>1, <3>2
    <3> QED
      BY <3>3 DEF Pending, Busy, Minds
  <2>3. CASE Entry(p) \in Waiting(b)
    <3>1. <<p, phis[p].decl>> \in Waiting(b)'
      BY <2>3, WaitingGoesOn DEF Entry
    <3>2. Entry(p)' \in Waiting(b)'
      BY <1>2, <3>1 DEF Entry
    <3> QED
      BY <1>2, <3>2, RemainingWaits DEF Pending
  <2> QED
    BY <2>1, <2>2, <2>3
<1> QED
  BY <1>4, <1>5 DEF ComesBack

\* The plain steps: no phi comes, and none but the filled one changes.
LEMMA FillingGoesOn ==
  ASSUME Types, SealStack, SealStack', Filling, NEW cs, GoesOn(cs), ComesBack(cs),
         inc' = inc, DOMAIN phis' = DOMAIN phis,
         FilledBy(Call) =>
           \/ \E i \in DOMAIN cs : Fills(cs[i], Call.phi)
           \/ Call.todo = <<>> /\ SameFroms(Call.phi),
         \A i \in DOMAIN cs : FilledBy(cs[i]) =>
           /\ FillAt(cs[i], phis')
           /\ \A j \in DOMAIN cs : Fills(cs[j], cs[i].phi) => i = j
           /\ Fills(Call, cs[i].phi)
  PROVE  Filling'
<1>0. WaitsAlone /\ UnsealedNoted /\ FillsFit /\ AllComplete
  BY DEF Filling
<1>1. FillsFit'
  BY <1>0, FillsStep
<1>2. AllComplete'
  <2>1. \A p \in DOMAIN phis : p \notin erased' => CompleteAt(p)'
    BY <1>0, CompleteOld
  <2> QED
    BY <2>1 DEF AllComplete
<1>3. UnsealedNoted'
  <2>1. \A p \in DOMAIN phis : p \notin erased' => NotedAt(p)'
    BY <1>0, NotedOld
  <2> QED
    BY <2>1 DEF UnsealedNoted
<1>4. WaitsAlone'
  <2>1. \A b \in Block : Waiting(b)' = Waiting(b)
    BY WaitingGoesOn
  <2>2. Block' = Block
    BY DEF GoesOn, vars, skeleton, Block
  <2>3. \A b \in Block : \A e \in Waiting(b) : WaitsAt(b, e)'
    BY <1>0, WaitsOld
  <2> QED
    BY <2>1, <2>2, <2>3 DEF WaitsAlone
<1>5. TrivialPending'
  <2>1. TrivialPending
    BY DEF Filling
  <2>2. \A p \in DOMAIN phis : p \notin erased' /\ Trivial(p)' => Pending(p)'
    BY <2>1, PendingOld
  <2> QED
    BY <2>2 DEF TrivialPending
<1> QED
  BY <1>1, <1>2, <1>3, <1>4, <1>5 DEF Filling

-----------------------------------------------------------------------------
(* The steps. *)

\* A step that leaves the phis alone and minds no other goes on.
LEMMA GoesOnUntouched ==
  ASSUME Types, calls # <<>>, ~Sealer(Call), NEW cs \in Seq(Activation), calls' = cs \o Tail(calls),
         \A i \in DOMAIN cs : ~Sealer(cs[i]),
         UNCHANGED <<vars, inc, phis, erased>>,
         \A i \in DOMAIN cs : \A p \in DOMAIN phis : Minds(cs[i], p) => Minds(Call, p)
  PROVE  GoesOn(cs)
<1>1. \A p \in DOMAIN phis : SameNode(p) /\ SameFroms(p)
  BY DEF SameNode, SameFroms
<1>2. \A b \in Block : inc[b] \subseteq inc'[b]
  OBVIOUS
<1>3. DOMAIN phis \subseteq DOMAIN phis' /\ erased \subseteq erased' /\ \A p \in erased' : p \in erased
  OBVIOUS
<1> QED
  BY <1>1, <1>2, <1>3 DEF GoesOn

\* Where the operands are left alone, cs comes back to what the activation minds.
LEMMA ComesBackUntouched ==
  ASSUME phis' = phis, erased' = erased, NEW cs,
         \A p \in DOMAIN phis : p \notin erased /\ Trivial(p) /\ Minds(Call, p) =>
           \E i \in DOMAIN cs : Minds(cs[i], p)
  PROVE  ComesBack(cs)
BY TrivialKept DEF ComesBack

\* An activation that fills no phi, and minds none that is trivial, returns.
LEMMA FillingReturn ==
  ASSUME Types, SealStack, SealStack', Filling, calls # <<>>, ~Sealer(Call), ~FilledBy(Call),
         \A p \in DOMAIN phis : Trivial(p) => ~Minds(Call, p),
         calls' = Tail(calls), UNCHANGED <<vars, inc, phis, erased>>
  PROVE  Filling'
<1> DEFINE cs == <<>>
<1>1. cs \in Seq(Activation) /\ DOMAIN cs = {} /\ calls' = cs \o Tail(calls)
  <2>1. Tail(calls) \in Seq(Activation)
    BY Running_ DEF Types
  <2> QED
    BY <2>1
<1> HIDE DEF cs
<1>2. GoesOn(cs) /\ ComesBack(cs)
  BY <1>1, GoesOnUntouched, ComesBackUntouched
<1> QED
  BY <1>1, <1>2, FillingGoesOn

\* A read, and the end of optimizePhi, return without touching a phi.
LEMMA FillingPlainReturn ==
  Types /\ SealStack /\ SealStack' /\ Filling /\ (ReadFound \/ OptimizeKeep \/ CandidatesDone \/ WriteBack)
  => Filling'
<1> SUFFICES ASSUME Types, SealStack, SealStack', Filling, ReadFound \/ OptimizeKeep \/ CandidatesDone \/ WriteBack
    PROVE Filling'
  OBVIOUS
<1>1. UNCHANGED <<vars, inc, phis, erased>> /\ calls # <<>> /\ calls' = Tail(calls)
  BY DEF ReadFound, OptimizeKeep, CandidatesDone, WriteBack, values, Return, Running
<1>2. ~Sealer(Call) /\ ~FilledBy(Call)
  BY DEF ReadFound, OptimizeKeep, CandidatesDone, WriteBack, Running, Call, Sealer, FilledBy
<1>3. ASSUME NEW p \in DOMAIN phis, Trivial(p), Minds(Call, p) PROVE FALSE
  <2>1. CASE OptimizeKeep
    BY <1>3, <2>1 DEF OptimizeKeep, Running, Call, Minds
  <2>2. CASE CandidatesDone
    BY <1>3, <2>2 DEF CandidatesDone, Running, Call, Minds
  <2>3. CASE ReadFound \/ WriteBack
    BY <1>3, <2>3 DEF ReadFound, WriteBack, Running, Call, Minds
  <2> QED
    BY <2>1, <2>2, <2>3
<1> QED
  BY <1>1, <1>2, <1>3, FillingReturn

\* A read goes on in the only predecessor.
LEMMA FillingReadSinglePred ==
  TypeOK /\ Types /\ SealStack /\ SealStack' /\ Filling /\ ReadSinglePred => Filling'
<1> SUFFICES ASSUME TypeOK, Types, SealStack, SealStack', Filling, ReadSinglePred PROVE Filling'
  OBVIOUS
<1> DEFINE b == Call.block
           d == Call.decl
           a1 == ReadCall(preds[b][1], d)
           a2 == WriteBackCall(b, d)
           cs == <<a1, a2>>
<1>1. /\ UNCHANGED <<vars, inc, phis, erased>> /\ calls # <<>> /\ calls' = cs \o Tail(calls)
      /\ Call.fn = "readLocalVariable" /\ Len(preds[b]) = 1
  BY DEF ReadSinglePred, Continue, Running, Call, values
<1>2. b \in Block /\ b \in Nat /\ d \in Decls
  BY <1>1, CallFacts
<1>3. preds[b][1] \in Nat
  <2>1. preds[b] \in Seq(Block) /\ 1 \in 1 .. Len(preds[b])
    BY <1>1, <1>2 DEF TypeOK
  <2>2. preds[b][1] \in Block
    BY <2>1, ElementOfSeq
  <2> QED
    BY <2>2 DEF Block
<1>4. a1 \in Activation /\ a2 \in Activation
  BY <1>2, <1>3, NewActivations
<1>5. /\ ~Sealer(a1) /\ ~Sealer(a2) /\ ~FilledBy(a1) /\ ~FilledBy(a2)
      /\ \A p : ~Minds(a1, p) /\ ~Minds(a2, p)
  BY NewFields, NewCalls DEF Minds, ReadCall, WriteBackCall
<1>6. ~Sealer(Call) /\ ~FilledBy(Call)
  BY <1>1 DEF Sealer, FilledBy
<1> HIDE DEF a1, a2
<1>7. cs \in Seq(Activation) /\ DOMAIN cs = {1, 2} /\ cs[1] = a1 /\ cs[2] = a2
  BY <1>4
<1> HIDE DEF cs
<1>8. \A i \in DOMAIN cs : ~Sealer(cs[i]) /\ ~FilledBy(cs[i]) /\ \A p : ~Minds(cs[i], p)
  BY <1>5, <1>7
<1>9. GoesOn(cs)
  BY <1>1, <1>6, <1>7, <1>8, GoesOnUntouched
<1>10. ComesBack(cs)
  BY <1>1, ComesBackUntouched DEF Minds
<1> QED
  BY <1>1, <1>6, <1>8, <1>9, <1>10, FillingGoesOn

\* The phi being filled stays as it is while an operand is read.
LEMMA FillingFillRead == Types /\ SealStack /\ SealStack' /\ Filling /\ FillRead => Filling'
<1> SUFFICES ASSUME Types, SealStack, SealStack', Filling, FillRead PROVE Filling'
  OBVIOUS
<1> DEFINE a1 == ReadCall(Head(Call.todo), Call.decl)
           a2 == Call
           cs == <<a1, a2>>
<1>1. /\ calls # <<>> /\ Call.fn = "addPhiOperands"
      /\ cs \in Seq(Activation) /\ DOMAIN cs = {1, 2} /\ cs[1] = a1 /\ cs[2] = a2
      /\ calls' = cs \o Tail(calls) /\ UNCHANGED <<vars, values, ret, dangling>>
  BY FillReadFacts
<1>2. UNCHANGED <<vars, inc, phis, erased>>
  BY <1>1 DEF values
<1>3. ~Sealer(a1) /\ ~FilledBy(a1) /\ \A p : ~Minds(a1, p)
  BY NewFields, NewCalls DEF Minds, ReadCall
<1>4. FilledBy(Call) /\ ~Sealer(Call) /\ FillAt(Call, phis)
  <2>1. Call = calls[1] /\ 1 \in DOMAIN calls
    BY <1>1, Running_ DEF Types
  <2> QED
    BY <1>1, <2>1 DEF FilledBy, Sealer, Filling, FillsFit
<1> HIDE DEF a1, cs
<1>5. /\ \A i \in DOMAIN cs : ~Sealer(cs[i])
      /\ \A i \in DOMAIN cs : \A p \in DOMAIN phis : Minds(cs[i], p) => Minds(Call, p)
      /\ \A i \in DOMAIN cs : FilledBy(cs[i]) => i = 2
  BY <1>1, <1>3, <1>4
<1>6. GoesOn(cs)
  BY <1>1, <1>2, <1>4, <1>5, GoesOnUntouched
<1>7. FilledBy(Call) => \E i \in DOMAIN cs : Fills(cs[i], Call.phi)
  BY <1>1, <1>4 DEF Fills
<1>8. \A i \in DOMAIN cs : FilledBy(cs[i]) =>
           /\ FillAt(cs[i], phis')
           /\ \A j \in DOMAIN cs : Fills(cs[j], cs[i].phi) => i = j
           /\ Fills(Call, cs[i].phi)
  BY <1>1, <1>2, <1>4, <1>5 DEF Fills
<1>9. ComesBack(cs)
  BY <1>1, <1>2, ComesBackUntouched
<1> QED
  BY <1>2, <1>6, <1>7, <1>8, <1>9, FillingGoesOn

\* The phi has an operand per predecessor now.
LEMMA FillingFillDone == Types /\ SealStack /\ SealStack' /\ Filling /\ FillDone => Filling'
<1> SUFFICES ASSUME Types, SealStack, SealStack', Filling, FillDone PROVE Filling'
  OBVIOUS
<1> DEFINE a1 == OptimizeCall(Call.phi)
           cs == <<a1>>
<1>1. /\ UNCHANGED <<vars, inc, phis, erased>> /\ calls # <<>> /\ calls' = cs \o Tail(calls)
      /\ Call.fn = "addPhiOperands" /\ Call.todo = <<>>
  BY DEF FillDone, Continue, Running, Call, values
<1>2. Call.phi \in Nat
  BY <1>1, CallFacts
<1>3. a1 \in Activation /\ ~Sealer(a1) /\ ~FilledBy(a1) /\ a1.phi = Call.phi /\ a1.fn = "optimizePhi"
  BY <1>2, NewActivations, NewFields, NewCalls DEF OptimizeCall
<1> HIDE DEF a1
<1>4. cs \in Seq(Activation) /\ DOMAIN cs = {1} /\ cs[1] = a1
  BY <1>3
<1> HIDE DEF cs
<1>5. ~Sealer(Call) /\ FilledBy(Call) /\ SameFroms(Call.phi)
  BY <1>1 DEF Sealer, FilledBy, SameFroms
<1>6. \A i \in DOMAIN cs : ~Sealer(cs[i]) /\ ~FilledBy(cs[i])
  BY <1>3, <1>4
<1>7. \A i \in DOMAIN cs : \A p \in DOMAIN phis : Minds(cs[i], p) => Minds(Call, p)
  BY <1>1, <1>3, <1>4 DEF Minds
<1>8. GoesOn(cs)
  BY <1>1, <1>4, <1>5, <1>6, <1>7, GoesOnUntouched
<1>9. ComesBack(cs)
  <2>1. \A p : Minds(Call, p) => Minds(cs[1], p)
    BY <1>1, <1>3, <1>4 DEF Minds
  <2> QED
    BY <1>1, <1>4, <2>1, ComesBackUntouched
<1> QED
  BY <1>1, <1>5, <1>6, <1>8, <1>9, FillingGoesOn

\* A candidate has an operand, so it is none of the phis that wait.
LEMMA FillingOptimizeCandidate == Types /\ SealStack /\ SealStack' /\ Filling /\ OptimizeCandidate => Filling'
<1> SUFFICES ASSUME Types, SealStack, SealStack', Filling, OptimizeCandidate PROVE Filling'
  OBVIOUS
<1> DEFINE s == Call.todo
           a1 == OptimizeCall(Head(s))
           a2 == CandidatesCall(Tail(s), Call.same)
           cs == <<a1, a2>>
<1>1. /\ UNCHANGED <<vars, inc, phis, erased>> /\ calls # <<>> /\ calls' = cs \o Tail(calls)
      /\ Call.fn = "candidates" /\ s # <<>>
  BY DEF OptimizeCandidate, Continue, Running, Call, values
<1>2. s \in Seq(Nat) /\ Call.same \in Value
  BY <1>1, CallFacts
<1>3. Head(s) \in Nat /\ Tail(s) \in Seq(Nat)
  BY <1>1, <1>2, SeqWithin
<1>4. a1 \in Activation /\ a2 \in Activation
  BY <1>2, <1>3, NewActivations
<1>5. /\ ~Sealer(a1) /\ ~Sealer(a2) /\ ~FilledBy(a1) /\ ~FilledBy(a2)
      /\ a1.fn = "optimizePhi" /\ a1.phi = Head(s) /\ a2.fn = "candidates" /\ a2.todo = Tail(s)
  BY NewFields, NewCalls DEF OptimizeCall, CandidatesCall
<1>6. ~Sealer(Call) /\ ~FilledBy(Call)
  BY <1>1 DEF Sealer, FilledBy
<1> HIDE DEF a1, a2
<1>7. cs \in Seq(Activation) /\ DOMAIN cs = {1, 2} /\ cs[1] = a1 /\ cs[2] = a2
  BY <1>4
<1> HIDE DEF cs
<1>8. \A i \in DOMAIN cs : ~Sealer(cs[i]) /\ ~FilledBy(cs[i])
  BY <1>5, <1>7
<1>9. \A i \in DOMAIN cs : \A p \in DOMAIN phis : Minds(cs[i], p) => Minds(Call, p)
  <2> HIDE DEF s
  <2>1. /\ Len(s) \in Nat \ {0} /\ DOMAIN s = 1 .. Len(s) /\ Head(s) = s[1]
        /\ DOMAIN Tail(s) = 1 .. Len(s) - 1 /\ \A j \in 1 .. Len(s) - 1 : Tail(s)[j] = s[j + 1]
    <3>1. s \in Seq(Nat) /\ s # <<>>
      BY <1>1, <1>2
    <3> QED
      BY <3>1
  <2>2. \A p : Minds(a1, p) => p = s[1]
    BY <1>5, <2>1 DEF Minds
  <2>3. \A p : Minds(a2, p) => \E j \in DOMAIN s : s[j] = p
    <3> SUFFICES ASSUME NEW p, Minds(a2, p) PROVE \E j \in DOMAIN s : s[j] = p
      OBVIOUS
    <3>1. PICK j \in DOMAIN Tail(s) : Tail(s)[j] = p
      BY <1>5 DEF Minds
    <3>2. j + 1 \in DOMAIN s /\ s[j + 1] = p
      BY <2>1, <3>1
    <3> QED
      BY <3>2
  <2>4. \A p : (\E j \in DOMAIN s : s[j] = p) => Minds(Call, p)
    BY <1>1 DEF Minds, s
  <2>5. 1 \in DOMAIN s
    BY <2>1
  <2> QED
    BY <1>7, <2>2, <2>3, <2>4, <2>5
<1>10. GoesOn(cs)
  BY <1>1, <1>6, <1>7, <1>8, <1>9, GoesOnUntouched
\* The head is looked at next, the others remain.
<1>11. ComesBack(cs)
  <2> HIDE DEF s
  <2>1. /\ Len(s) \in Nat \ {0} /\ DOMAIN s = 1 .. Len(s) /\ Head(s) = s[1]
        /\ DOMAIN Tail(s) = 1 .. Len(s) - 1 /\ \A j \in 1 .. Len(s) - 1 : Tail(s)[j] = s[j + 1]
    <3>1. s \in Seq(Nat) /\ s # <<>>
      BY <1>1, <1>2
    <3> QED
      BY <3>1
  <2>2. ASSUME NEW p, Minds(Call, p) PROVE \E i \in DOMAIN cs : Minds(cs[i], p)
    <3>1. PICK j \in DOMAIN s : s[j] = p
      BY <1>1, <2>2 DEF Minds, s
    <3>2. CASE j = 1
      <4>1. Minds(a1, p)
        BY <1>5, <2>1, <3>1, <3>2 DEF Minds
      <4> QED
        BY <1>7, <4>1
    <3>3. CASE j # 1
      <4>1. j - 1 \in DOMAIN Tail(s) /\ Tail(s)[j - 1] = p
        BY <2>1, <3>1, <3>3
      <4>2. Minds(a2, p)
        BY <1>5, <4>1 DEF Minds
      <4> QED
        BY <1>7, <4>2
    <3> QED
      BY <3>2, <3>3
  <2> QED
    BY <1>1, <2>2, ComesBackUntouched
<1> QED
  BY <1>1, <1>6, <1>8, <1>10, <1>11, FillingGoesOn

\* What is looked at again uses the phi, so that it has operands.
LEMMA FillingOptimizeReplace ==
  Types /\ References /\ SealStack /\ SealStack' /\ Filling /\ OptimizeReplace => Filling'
<1> SUFFICES ASSUME Types, References, SealStack, SealStack', Filling, OptimizeReplace PROVE Filling'
  OBVIOUS
<1> DEFINE p == Call.phi
           s == Same(p)
           us == Without(users[p], p)
           a1 == CandidatesCall(us, s)
           cs == <<a1>>
<1>1. /\ UNCHANGED <<vars, inc>> /\ calls # <<>> /\ calls' = cs \o Tail(calls) /\ Call.fn = "optimizePhi"
      /\ p \notin erased /\ ReplaceAllUses(p, s) /\ erased' = erased \cup {p}
  BY DEF OptimizeReplace, Continue, Running, Call
<1>2. p \in DOMAIN phis /\ last' = last
  BY <1>1, CallFacts DEF vars, skeleton
<1>3. s \in Value /\ Known(s, DOMAIN phis)
  BY <1>2, SameFacts
<1>4. us \in Seq(Nat) /\ users[p] \in Seq(Nat) /\ DOMAIN users = DOMAIN phis
      /\ \A q \in DOMAIN phis : phis[q].ops \in OperandsOf
  BY <1>2, OpsFacts, WithoutMembers
<1>5. a1 \in Activation /\ ~Sealer(a1) /\ ~FilledBy(a1) /\ a1.fn = "candidates" /\ a1.todo = us
  BY <1>3, <1>4, NewActivations, NewFields, NewCalls DEF CandidatesCall
<1>6. ~Sealer(Call) /\ ~FilledBy(Call) /\ Minds(Call, p)
  BY <1>1 DEF Sealer, FilledBy, Minds
<1>7. /\ DOMAIN phis' = DOMAIN phis
      /\ \A q \in DOMAIN phis : SameNode(q) /\ SameFroms(q)
  <2> HIDE DEF p, s
  <2>1. /\ DOMAIN phis' = DOMAIN phis
        /\ \A q \in DOMAIN phis :
             /\ phis'[q].block = phis[q].block /\ phis'[q].decl = phis[q].decl
             /\ DOMAIN phis'[q].ops = DOMAIN phis[q].ops
             /\ \A i \in DOMAIN phis[q].ops : phis'[q].ops[i].from = phis[q].ops[i].from
    BY <1>1, <1>2, <1>3, ReplacedFacts
  <2> QED
    BY <2>1 DEF SameNode, SameFroms, FromsOf
<1> HIDE DEF a1
<1>8. cs \in Seq(Activation) /\ DOMAIN cs = {1} /\ cs[1] = a1
  BY <1>5
<1> HIDE DEF cs
<1>9. \A i \in DOMAIN cs : ~Sealer(cs[i]) /\ ~FilledBy(cs[i])
  BY <1>5, <1>8
<1>10. ASSUME NEW q \in DOMAIN phis, Minds(a1, q) PROVE q \in erased \/ FromsOf(phis[q].ops) # <<>>
  <2> SUFFICES ASSUME q \notin erased PROVE FromsOf(phis[q].ops) # <<>>
    OBVIOUS
  <2>1. \E j \in DOMAIN us : us[j] = q
    BY <1>5, <1>10 DEF Minds
  <2>2. Count(us, q) # 0
    <3>1. Positions(us, q) # {}
      BY <2>1 DEF Positions
    <3> QED
      BY <1>4, <3>1, PositionsFinite
  <2>3. Count(users[p], q) # 0
    BY <1>4, <2>2, CountWithout
  <2>4. TimesUsed(phis[q].ops, p) # 0
    BY <1>1, <1>2, <2>3 DEF References, UsersCount
  <2>5. UsedAt(phis[q].ops, p) # {}
    BY <2>4, FS_EmptySet DEF TimesUsed
  <2>6. DOMAIN FromsOf(phis[q].ops) # {}
    BY <2>5 DEF UsedAt, FromsOf
  <2> QED
    BY <2>6
<1>11. GoesOn(cs)
  <2>1. \A i \in DOMAIN cs : \A q \in DOMAIN phis :
          Minds(cs[i], q) => Minds(Call, q) \/ q \in erased \/ FromsOf(phis[q].ops) # <<>>
    BY <1>8, <1>10
  <2>2. /\ \A q \in erased' : q \in erased \/ Minds(Call, q)
        /\ erased \subseteq erased' /\ \A b \in Block : inc[b] \subseteq inc'[b]
    BY <1>1, <1>6
  <2> QED
    BY <1>1, <1>6, <1>7, <1>8, <1>9, <2>1, <2>2 DEF GoesOn
\* A phi that turns trivial had the replaced one among its operands, which the
\* use list tells: it is looked at again.
<1>12. ComesBack(cs)
  <2> SUFFICES ASSUME NEW q \in DOMAIN phis, q \notin erased', Trivial(q)', Minds(Call, q) \/ ~Trivial(q)
               PROVE  \E i \in DOMAIN cs : Minds(cs[i], q)
    BY DEF ComesBack
  <2>1. q # p /\ q \notin erased
    BY <1>1
  <2>2. ~Trivial(q)
    BY <1>1, <2>1 DEF Minds
  <2>3. TimesUsed(phis[q].ops, p) # 0
    <3> SUFFICES ASSUME TimesUsed(phis[q].ops, p) = 0 PROVE FALSE
      OBVIOUS
    <3> HIDE DEF p, s
    <3>1. UsedAt(phis[q].ops, p) = {}
      BY <1>4, UsedFinite, FS_EmptySet DEF TimesUsed
    <3>2. /\ DOMAIN phis'[q].ops = DOMAIN phis[q].ops
          /\ \A i \in DOMAIN phis[q].ops : phis'[q].ops[i].val = Subst(p, s, phis[q].ops[i].val)
      BY <1>1, <1>2, <1>3, ReplacedFacts
    <3>3. \A i \in DOMAIN phis[q].ops : phis'[q].ops[i].val = phis[q].ops[i].val
      BY <3>1, <3>2 DEF UsedAt, Subst
    <3>4. Incoming(q)' = Incoming(q)
      BY <3>2, <3>3 DEF Incoming
    <3> QED
      BY <2>2, <3>4 DEF Trivial, Operands
  <2>4. Count(users[p], q) # 0
    BY <1>1, <1>2, <2>1, <2>3 DEF References, UsersCount
  <2>5. Count(us, q) # 0
    BY <1>4, <2>1, <2>4, CountWithout
  <2>6. \E j \in DOMAIN us : us[j] = q
    <3>1. Positions(us, q) # {}
      BY <1>4, <2>5, PositionsFinite
    <3> QED
      BY <3>1 DEF Positions
  <2>7. Minds(a1, q)
    BY <1>5, <2>6 DEF Minds
  <2> QED
    BY <1>8, <2>7
<1> QED
  BY <1>1, <1>6, <1>7, <1>9, <1>11, <1>12, FillingGoesOn

\* One more operand comes from the next predecessor.
LEMMA FromsAppend ==
  ASSUME NEW ops \in OperandsOf, NEW op \in [val : Value, from : Nat], NEW s \in Seq(Nat), s # <<>>, op.from = Head(s)
  PROVE  FromsOf(Append(ops, op)) \o Tail(s) = FromsOf(ops) \o s
<1> DEFINE new == Append(ops, op)
           n == Len(ops)
           f == FromsOf(ops)
           g == FromsOf(new)
<1>1. /\ DOMAIN new = 1 .. n + 1 /\ DOMAIN ops = 1 .. n /\ n \in Nat
      /\ new[n + 1] = op /\ \A i \in 1 .. n : new[i] = ops[i]
      /\ new \in OperandsOf /\ Len(new) = n + 1
  BY AppendProperties DEF OperandsOf
<1> HIDE DEF new, n
<1>2. f \in Seq(Nat) /\ Len(f) = n /\ g \in Seq(Nat) /\ Len(g) = n + 1
  BY <1>1, FromsFacts DEF n
<1>3. g[n + 1] = Head(s) /\ \A i \in 1 .. n : g[i] = f[i]
  BY <1>1 DEF FromsOf
<1> HIDE DEF f, g
<1>4. Tail(s) \in Seq(Nat) /\ Len(s) \in Nat \ {0} /\ Len(Tail(s)) = Len(s) - 1 /\ Head(s) = s[1]
      /\ \A i \in 1 .. Len(s) - 1 : Tail(s)[i] = s[i + 1]
  BY HeadTailProperties
<1> DEFINE t == Tail(s)
           m == Len(s)
           l == g \o t
           r == f \o s
<1>0. t \in Seq(Nat) /\ Len(t) = m - 1 /\ m \in Nat \ {0} /\ Len(s) = m /\ s \in Seq(Nat)
  BY <1>4
<1> HIDE DEF t, m
<1>5. /\ l \in Seq(Nat) /\ Len(l) = n + m
      /\ \A i \in 1 .. n + m : l[i] = IF i <= n + 1 THEN g[i] ELSE t[i - (n + 1)]
  <2>1. /\ l \in Seq(Nat) /\ Len(l) = Len(g) + Len(t)
        /\ \A i \in 1 .. Len(g) + Len(t) : l[i] = IF i <= Len(g) THEN g[i] ELSE t[i - Len(g)]
    BY <1>0, <1>2, ConcatProperties
  <2>2. Len(g) + Len(t) = n + m
    BY <1>0, <1>1, <1>2
  <2> QED
    BY <1>2, <2>1, <2>2
<1>6. /\ r \in Seq(Nat) /\ Len(r) = n + m
      /\ \A i \in 1 .. n + m : r[i] = IF i <= n THEN f[i] ELSE s[i - n]
  <2>1. /\ r \in Seq(Nat) /\ Len(r) = Len(f) + Len(s)
        /\ \A i \in 1 .. Len(f) + Len(s) : r[i] = IF i <= Len(f) THEN f[i] ELSE s[i - Len(f)]
    BY <1>0, <1>2, ConcatProperties
  <2> QED
    BY <1>0, <1>2, <2>1
<1> HIDE DEF l, r
<1>7. m \in Nat \ {0} /\ \A i \in 1 .. m - 1 : t[i] = s[i + 1]
  BY <1>4 DEF m, t
<1>8. \A i \in 1 .. n + m : l[i] = r[i]
  <2> SUFFICES ASSUME NEW i \in 1 .. n + m PROVE l[i] = r[i]
    OBVIOUS
  <2>1. CASE i <= n
    <3>1. i \in 1 .. n /\ i <= n + 1
      BY <1>1, <1>7, <2>1
    <3> QED
      BY <1>3, <1>5, <1>6, <2>1, <3>1
  <2>2. CASE i = n + 1
    <3>1. ~(i <= n) /\ i <= n + 1 /\ i - n = 1
      BY <1>1, <2>2
    <3>2. l[i] = g[i] /\ r[i] = s[1]
      BY <1>5, <1>6, <3>1
    <3> QED
      BY <1>3, <1>4, <2>2, <3>2
  <2>3. CASE i > n + 1
    <3>1. ~(i <= n) /\ ~(i <= n + 1) /\ i - (n + 1) \in 1 .. m - 1 /\ i - (n + 1) + 1 = i - n
      BY <1>1, <1>7, <2>3
    <3>2. l[i] = t[i - (n + 1)] /\ r[i] = s[i - n]
      BY <1>5, <1>6, <3>1
    <3> QED
      BY <1>7, <3>1, <3>2
  <2> QED
    BY <1>1, <1>7, <2>1, <2>2, <2>3
<1>9. l = r
  BY <1>5, <1>6, <1>8
<1> QED
  BY <1>9 DEF l, r, f, g, t, new

\* The operand comes from the predecessor whose turn it is.
LEMMA FillingFillAdd == TypeOK /\ Types /\ SealStack /\ SealStack' /\ Filling /\ FillAdd => Filling'
<1> SUFFICES ASSUME TypeOK, Types, SealStack, SealStack', Filling, FillAdd PROVE Filling'
  OBVIOUS
<1> DEFINE p == Call.phi
           d == Call.decl
           s == Call.todo
           b == Head(s)
           op == [val |-> ret, from |-> b]
           a1 == FillCall(p, d, Tail(s))
           cs == <<a1>>
<1>1. /\ UNCHANGED <<vars, inc, erased>> /\ calls # <<>> /\ calls' = cs \o Tail(calls)
      /\ Call.fn = "addPhiOperands" /\ ret # <<>> /\ Taken(p, ret, b)
  BY DEF FillAdd, Continue, Running, Call, Taken
<1>2. p \in DOMAIN phis /\ p \in Nat /\ d \in Decls /\ s # <<>> /\ s \in Seq(Block) /\ s \in Seq(Nat)
  BY <1>1, CallFacts
<1>3. b \in Block /\ b \in Nat /\ Tail(s) \in Seq(Nat)
  BY <1>2, SeqWithin
<1>4. ret \in Value /\ Known(ret, DOMAIN phis) /\ last' = last
  BY <1>1 DEF Types, RetOK, vars, skeleton
<1>5. a1 \in Activation /\ ~Sealer(a1) /\ FilledBy(a1) /\ a1.phi = p /\ a1.todo = Tail(s) /\ a1.fn = "addPhiOperands"
  <2> DEFINE t == Tail(s)
  <2>1. t \in Seq(Nat) /\ p \in Nat /\ d \in Decls
    BY <1>2, <1>3
  <2> HIDE DEF p, d, s, t
  <2>2. FillCall(p, d, t) \in Activation /\ ~Sealer(FillCall(p, d, t)) /\ FilledBy(FillCall(p, d, t))
        /\ FillCall(p, d, t).phi = p /\ FillCall(p, d, t).todo = t
    BY <2>1, NewActivations, NewFields
  <2> QED
    BY <2>2 DEF FilledBy, t
<1>6. FilledBy(Call) /\ ~Sealer(Call) /\ Fills(Call, p)
  BY <1>1 DEF FilledBy, Sealer, Fills
<1>7. FromsOf(phis[p].ops) \o s = preds[phis[p].block]
  <2>1. Call = calls[1] /\ 1 \in DOMAIN calls
    BY <1>1, Running_ DEF Types
  <2> QED
    BY <1>6, <2>1 DEF Filling, FillsFit, FillAt
<1> HIDE DEF p, d, s, b, a1
<1>8. /\ DOMAIN phis' = DOMAIN phis
      /\ phis'[p].block = phis[p].block /\ phis'[p].decl = phis[p].decl
      /\ phis'[p].ops = Append(phis[p].ops, op)
      /\ \A q \in DOMAIN phis : q # p => phis'[q] = phis[q]
  BY <1>1, <1>2, <1>3, <1>4, TakenFacts
<1>9. FillAt(a1, phis')
  <2>1. phis[p].ops \in OperandsOf
    BY <1>2, OpsFacts
  <2>2. op \in [val : Value, from : Nat] /\ op.from = b
    BY <1>3, <1>4
  <2> HIDE DEF op
  <2>3. FromsOf(Append(phis[p].ops, op)) \o Tail(s) = FromsOf(phis[p].ops) \o s
    BY <1>2, <2>1, <2>2, FromsAppend DEF b
  <2> QED
    BY <1>5, <1>7, <1>8, <2>3 DEF FillAt
<1>10. cs \in Seq(Activation) /\ DOMAIN cs = {1} /\ cs[1] = a1
  BY <1>5
<1> HIDE DEF cs
<1>11. GoesOn(cs)
  <2>1. \A q \in DOMAIN phis : SameNode(q) /\ (SameFroms(q) \/ Fills(Call, q))
    BY <1>6, <1>8 DEF SameNode, SameFroms
  <2>2. \A i \in DOMAIN cs : \A q \in DOMAIN phis : Minds(cs[i], q) => Minds(Call, q)
    BY <1>1, <1>5, <1>10 DEF Minds, p
  <2>3. \A i \in DOMAIN cs : ~Sealer(cs[i])
    BY <1>5, <1>10
  <2> QED
    BY <1>1, <1>6, <1>8, <1>10, <2>1, <2>2, <2>3 DEF GoesOn
<1>12. FilledBy(Call) => \E i \in DOMAIN cs : Fills(cs[i], Call.phi)
  BY <1>5, <1>10 DEF Fills, p
<1>13. \A i \in DOMAIN cs : FilledBy(cs[i]) =>
           /\ FillAt(cs[i], phis')
           /\ \A j \in DOMAIN cs : Fills(cs[j], cs[i].phi) => i = j
           /\ Fills(Call, cs[i].phi)
  BY <1>5, <1>6, <1>9, <1>10
<1>14. ComesBack(cs)
  <2>1. \A q \in DOMAIN phis : q # p => phis'[q].ops = phis[q].ops
    BY <1>8
  <2>2. \A q \in DOMAIN phis : q # p => (Trivial(q)' <=> Trivial(q)) /\ ~Minds(Call, q)
    BY <1>1, <2>1, TrivialKept DEF Minds, p
  <2>3. Minds(cs[1], p)
    BY <1>5, <1>10 DEF Minds
  <2> QED
    BY <1>10, <2>2, <2>3 DEF ComesBack
<1> QED
  BY <1>1, <1>8, <1>11, <1>12, <1>13, <1>14, FillingGoesOn

\* The phi of a sealed block is filled at once.
LEMMA FillingReadJoin == TypeOK /\ Types /\ SealStack /\ SealStack' /\ Filling /\ ReadJoin => Filling'
<1> SUFFICES ASSUME TypeOK, Types, SealStack, SealStack', Filling, ReadJoin PROVE Filling'
  OBVIOUS
<1> DEFINE b == Call.block
           d == Call.decl
           s == preds[b]
<1>1. PICK p \in Nat : p = Len(phis) + 1
  <2>1. Len(phis) \in Nat
    BY LenProperties DEF Types, PhisOK
  <2> QED
    BY <2>1
<1> DEFINE a1 == FillCall(p, d, s)
           a2 == WriteBackCall(b, d)
           cs == <<a1, a2>>
<1>2. /\ UNCHANGED <<vars, inc, erased>> /\ calls # <<>> /\ calls' = cs \o Tail(calls)
      /\ Call.fn = "readLocalVariable" /\ b \in sealed /\ AddEmptyPhi(b, d)
  BY <1>1 DEF ReadJoin, Continue, Running, Call
<1>3. b \in Block /\ b \in Nat /\ d \in Decls /\ last' = last
  BY <1>2, CallFacts DEF vars, skeleton
<1>4. s \in Seq(Nat) /\ p \notin DOMAIN phis
  <2>1. s \in Seq(Block) /\ Block \subseteq Nat
    BY <1>3 DEF TypeOK, Block
  <2>2. s \in Seq(Nat)
    BY <2>1, SeqMonotonic
  <2>3. p \notin DOMAIN phis
    BY <1>1 DEF Types, PhisOK
  <2> QED
    BY <2>2, <2>3
<1>5. /\ a1 \in Activation /\ ~Sealer(a1) /\ FilledBy(a1) /\ a1.phi = p /\ a1.todo = s
      /\ a2 \in Activation /\ ~Sealer(a2) /\ ~FilledBy(a2)
      /\ (\A q : ~Minds(a2, q)) /\ \A q : Minds(a1, q) => q = p
  <2> HIDE DEF b, d, s
  <2>1. FillCall(p, d, s) \in Activation /\ ~Sealer(FillCall(p, d, s)) /\ FilledBy(FillCall(p, d, s))
        /\ FillCall(p, d, s).phi = p /\ FillCall(p, d, s).todo = s
    BY <1>3, <1>4, NewActivations, NewFields
  <2>2. WriteBackCall(b, d) \in Activation /\ ~Sealer(WriteBackCall(b, d)) /\ ~FilledBy(WriteBackCall(b, d))
    BY <1>3, NewActivations, NewFields, NewCalls
  <2>3. (\A q : ~Minds(WriteBackCall(b, d), q)) /\ \A q : Minds(FillCall(p, d, s), q) => q = p
    BY DEF Minds, WriteBackCall, FillCall
  <2> QED
    BY <2>1, <2>2, <2>3
<1>6. ~Sealer(Call) /\ ~FilledBy(Call)
  BY <1>2 DEF Sealer, FilledBy
<1> HIDE DEF b, d, s, a1, a2
<1>7. /\ p \in DOMAIN phis' /\ phis'[p] = [block |-> b, decl |-> d, ops |-> <<>>]
      /\ \A q \in DOMAIN phis : phis'[q] = phis[q]
      /\ DOMAIN phis' = DOMAIN phis \cup {p}
  BY <1>1, <1>2, <1>3, NewPhi
<1>8. cs \in Seq(Activation) /\ DOMAIN cs = {1, 2} /\ cs[1] = a1 /\ cs[2] = a2
  BY <1>5
<1> HIDE DEF cs
<1>9. GoesOn(cs)
  <2>1. \A q \in DOMAIN phis : SameNode(q) /\ SameFroms(q)
    BY <1>7 DEF SameNode, SameFroms
  <2>2. \A i \in DOMAIN cs : ~Sealer(cs[i]) /\ \A q \in DOMAIN phis : ~Minds(cs[i], q)
    BY <1>4, <1>5, <1>8
  <2> QED
    BY <1>2, <1>6, <1>7, <1>8, <2>1, <2>2 DEF GoesOn
<1>10. FillAt(a1, phis')
  <2>1. FromsOf(<<>>) = <<>> /\ <<>> \o s = s
    BY <1>4 DEF FromsOf
  <2>2. a1.phi = p /\ a1.todo = s /\ phis'[p].ops = <<>> /\ phis'[p].block = b
    BY <1>5, <1>7
  <2>3. FromsOf(phis'[p].ops) \o s = preds[phis'[p].block]
    BY <2>1, <2>2 DEF s
  <2> QED
    BY <2>2, <2>3 DEF FillAt
<1>11. FillsFit'
  <2>1. \A i \in DOMAIN cs : FilledBy(cs[i]) =>
           /\ FillAt(cs[i], phis')
           /\ \A j \in DOMAIN cs : Fills(cs[j], cs[i].phi) => i = j
           /\ cs[i].phi \notin DOMAIN phis \/ Fills(Call, cs[i].phi)
    BY <1>4, <1>5, <1>8, <1>10 DEF Fills
  <2> QED
    BY <1>9, <2>1, FillsStep DEF Filling
<1>12. AllComplete'
  <2>1. \A q \in DOMAIN phis : q \notin erased' => CompleteAt(q)'
    BY <1>6, <1>9, CompleteOld DEF Filling
  <2>2. InFill(p)'
    <3>1. 1 \in DOMAIN calls' /\ calls'[1] = a1
      BY <1>8, <1>9, GoesOnCalls
    <3> QED
      BY <1>5, <3>1 DEF InFill, Fills, FilledBy
  <2> QED
    BY <1>7, <2>1, <2>2 DEF AllComplete, CompleteAt
<1>13. UnsealedNoted'
  <2>1. \A q \in DOMAIN phis : q \notin erased' => NotedAt(q)'
    BY <1>9, NotedOld DEF Filling
  <2>2. phis'[p].block \in sealed'
    BY <1>2, <1>7 DEF vars, skeleton
  <2> QED
    BY <1>7, <2>1, <2>2 DEF UnsealedNoted, NotedAt
<1>14. WaitsAlone'
  <2>1. \A c \in Block : Waiting(c)' = Waiting(c)
    BY <1>2, <1>9, WaitingGoesOn
  <2>2. Block' = Block
    BY <1>3 DEF Block
  <2>3. \A c \in Block : \A e \in Waiting(c) : WaitsAt(c, e)'
    BY <1>9, WaitsOld DEF Filling
  <2> QED
    BY <2>1, <2>2, <2>3 DEF WaitsAlone
<1>15. TrivialPending'
  <2>1. ComesBack(cs)
    <3>1. \A q \in DOMAIN phis : (Trivial(q)' <=> Trivial(q)) /\ ~Minds(Call, q)
      BY <1>2, <1>7, TrivialKept DEF Minds
    <3> QED
      BY <3>1 DEF ComesBack
  <2>2. \A q \in DOMAIN phis : q \notin erased' /\ Trivial(q)' => Pending(q)'
    BY <1>9, <2>1, PendingOld DEF Filling
  <2>3. Pending(p)'
    <3>1. 1 \in DOMAIN calls' /\ calls'[1] = a1
      BY <1>8, <1>9, GoesOnCalls
    <3>2. Minds(a1, p)
      BY <1>5 DEF Minds, FilledBy
    <3> QED
      BY <3>1, <3>2 DEF Pending, Busy, Minds
  <2> QED
    BY <1>7, <2>2, <2>3 DEF TrivialPending
<1> QED
  BY <1>11, <1>12, <1>13, <1>14, <1>15 DEF Filling

\* The phi of an unsealed block is noted there, and waits: the block is not the
\* one being sealed.
LEMMA FillingReadUnsealed ==
  TypeOK /\ Types /\ SealStack /\ SealStack' /\ Filling /\ ReadUnsealed => Filling'
<1> SUFFICES ASSUME TypeOK, Types, SealStack, SealStack', Filling, ReadUnsealed PROVE Filling'
  OBVIOUS
<1>1. PICK p \in Nat : p = Len(phis) + 1
  <2>1. Len(phis) \in Nat
    BY LenProperties DEF Types, PhisOK
  <2> QED
    BY <2>1
<1>2. /\ UNCHANGED <<vars, erased>> /\ calls # <<>> /\ calls' = Tail(calls)
      /\ Call.fn = "readLocalVariable" /\ ~Defined(Call) /\ Call.block \notin sealed
      /\ AddEmptyPhi(Call.block, Call.decl)
      /\ inc' = [inc EXCEPT ![Call.block] = @ \cup {<<p, Call.decl>>}]
  BY <1>1 DEF ReadUnsealed, Return, Running, Call
<1>3. Call.block \in Block /\ Call.decl \in Decls /\ last' = last
  BY <1>2, CallFacts DEF vars, skeleton
<1>4. PICK b \in Block, d \in Decls : b = Call.block /\ d = Call.decl
  BY <1>3
<1>5. p \notin DOMAIN phis /\ DOMAIN inc = Block /\ erased \subseteq DOMAIN phis
  BY <1>1 DEF Types, PhisOK, IncOK, ErasedOK
<1>6. /\ p \in DOMAIN phis' /\ phis'[p] = [block |-> b, decl |-> d, ops |-> <<>>]
      /\ \A q \in DOMAIN phis : phis'[q] = phis[q]
      /\ DOMAIN phis' = DOMAIN phis \cup {p}
  BY <1>1, <1>2, <1>3, <1>4, NewPhi
<1>7. inc'[b] = inc[b] \cup {<<p, d>>} /\ \A c \in Block : c # b => inc'[c] = inc[c]
  BY <1>2, <1>4, <1>5
<1>8. ~Sealer(Call) /\ ~FilledBy(Call)
  BY <1>2 DEF Sealer, FilledBy
<1>9. ~SealsNow(b)
  <2>1. Call = calls[1] /\ 1 \in DOMAIN calls /\ OfVariable(Call)
    BY <1>2, Running_ DEF Types, OfVariable
  <2>2. ASSUME NEW i \in DOMAIN calls, Sealer(calls[i]), calls[i].block = b PROVE FALSE
    BY <1>2, <1>4, <2>1, <2>2 DEF SealStack, Defined
  <2> QED
    BY <2>2 DEF SealsNow
<1> DEFINE cs == <<>>
<1>10. cs \in Seq(Activation) /\ DOMAIN cs = {} /\ calls' = cs \o Tail(calls)
  <2>1. Tail(calls) \in Seq(Activation)
    BY <1>2, Running_ DEF Types
  <2> QED
    BY <1>2, <2>1
<1> HIDE DEF cs
<1>11. GoesOn(cs)
  <2>1. \A q \in DOMAIN phis : SameNode(q) /\ SameFroms(q)
    BY <1>6 DEF SameNode, SameFroms
  <2>2. \A c \in Block : inc[c] \subseteq inc'[c]
    BY <1>7
  <2> QED
    BY <1>2, <1>6, <1>8, <1>10, <2>1, <2>2 DEF GoesOn
<1>12. FillsFit'
  BY <1>10, <1>11, FillsStep DEF Filling
<1>13. Waiting(b)' = inc'[b] /\ Waiting(b) = inc[b]
       /\ \A c \in Block : c # b => Waiting(c)' = Waiting(c)
  BY <1>7, <1>9, <1>11, WaitingGoesOn
<1>14. AllComplete'
  <2>1. \A q \in DOMAIN phis : q \notin erased' => CompleteAt(q)'
    BY <1>8, <1>11, CompleteOld DEF Filling
  <2>2. <<p, d>> \in Remaining(calls', inc', b)
    BY <1>7, <1>13, RemainingWaits
  <2>3. CompleteAt(p)'
    BY <1>6, <2>2 DEF CompleteAt, Entry
  <2> QED
    BY <1>6, <2>1, <2>3 DEF AllComplete
<1>15. UnsealedNoted'
  <2>1. \A q \in DOMAIN phis : q \notin erased' => NotedAt(q)'
    BY <1>11, NotedOld DEF Filling
  <2>2. <<p, phis'[p].decl>> \in inc'[phis'[p].block]
    BY <1>6, <1>7
  <2> QED
    BY <1>6, <2>1, <2>2 DEF UnsealedNoted, NotedAt, Entry
<1>16. WaitsAlone'
  <2>1. Block' = Block
    BY <1>3 DEF Block
  <2>2. \A c \in Block : \A e \in Waiting(c) : WaitsAt(c, e)'
    BY <1>11, WaitsOld DEF Filling
  <2>3. ~Busy(p)'
    <3>1. \A i \in DOMAIN calls' : \E j \in DOMAIN calls : calls'[i] = calls[j]
      BY <1>10, <1>11, GoesOnCalls
    <3>2. \A j \in DOMAIN calls : ~Minds(calls[j], p)
      <4> SUFFICES ASSUME NEW j \in DOMAIN calls, Minds(calls[j], p) PROVE FALSE
        OBVIOUS
      <4>1. CallOK(calls[j], Block, DOMAIN phis)
        BY DEF Types, CallsOK
      <4> QED
        BY <1>5, <4>1 DEF CallOK, Minds, Within
    <3>3. \A i \in DOMAIN calls' : ~Minds(calls'[i], p)
      BY <3>1, <3>2
    <3> QED
      BY <3>3 DEF Busy, Minds
  <2>4. PICK e : e = <<p, d>>
    OBVIOUS
  <2>5. WaitsAt(b, e)'
    <3>1. FromsOf(<<>>) = <<>>
      BY DEF FromsOf
    <3>2. e[1] = p /\ e[2] = d /\ ~Busy(e[1])'
      BY <2>3, <2>4
    <3>3. b \notin sealed' /\ p \notin erased'
      BY <1>2, <1>4, <1>5 DEF vars, skeleton
    <3> QED
      BY <1>6, <3>1, <3>2, <3>3 DEF WaitsAt
  <2>6. \A c \in Block : \A f \in Waiting(c)' : f \in Waiting(c) \/ (c = b /\ f = e)
    BY <1>7, <1>13, <2>4
  <2>7. \A c \in Block : \A f \in Waiting(c)' : WaitsAt(c, f)'
    BY <2>2, <2>5, <2>6
  <2> QED
    BY <2>1, <2>7 DEF WaitsAlone
<1>17. TrivialPending'
  <2>1. ComesBack(cs)
    <3>1. \A q \in DOMAIN phis : (Trivial(q)' <=> Trivial(q)) /\ ~Minds(Call, q)
      BY <1>2, <1>6, TrivialKept DEF Minds
    <3> QED
      BY <3>1 DEF ComesBack
  <2>2. \A q \in DOMAIN phis : q \notin erased' /\ Trivial(q)' => Pending(q)'
    BY <1>11, <2>1, PendingOld DEF Filling
  <2>3. Entry(p)' \in Waiting(b)'
    <3>1. <<p, d>> \in Waiting(b)'
      BY <1>7, <1>13
    <3> QED
      BY <1>6, <3>1 DEF Entry
  <2>4. Pending(p)'
    BY <1>6, <2>3, RemainingWaits DEF Pending
  <2> QED
    BY <1>6, <2>2, <2>4 DEF TrivialPending
<1> QED
  BY <1>12, <1>14, <1>15, <1>16, <1>17 DEF Filling

\* A step that leaves the phis and what is noted of them alone: what there is of
\* the activations decides.
SameGraph == UNCHANGED <<phis, erased, inc, sealed, preds, last>>

\* The phi whose turn it is stops waiting and is being filled.
LEMMA FillingSealPhi == TypeOK /\ Types /\ SealStack /\ SealStack' /\ Filling /\ SealPhi => Filling'
<1> SUFFICES ASSUME TypeOK, Types, SealStack, SealStack', Filling, SealPhi PROVE Filling'
  OBVIOUS
<1>1. calls # <<>> /\ Call.fn = "sealBlock" /\ UNCHANGED <<vars, values>>
  BY DEF SealPhi, Running, Call
<1>2. Call.block \in Block /\ Sealer(Call)
  BY <1>1, CallFacts DEF Sealer
<1>3. PICK b \in Block : b = Call.block
  BY <1>2
<1>3a. PICK S : S = Call.todo
  OBVIOUS
<1>4. PICK e \in S : calls' = <<FillCall(e[1], e[2], preds[b]), SealCall(b, S \ {e})>> \o Tail(calls)
  BY <1>3, <1>3a DEF SealPhi, Continue
<1>5. Tail(calls) = <<>> /\ calls = <<Call>> /\ S \subseteq inc[b] /\ SameGraph
  BY <1>1, <1>2, <1>3, <1>3a, SealerAlone DEF SameGraph, vars, skeleton, values
<1>6. /\ Waiting(b) = S /\ \A c \in Block : c # b => Waiting(c) = inc[c]
      /\ \A q : ~InFill(q)
  <2> DEFINE k == Call
  <2>1. calls = <<k>> /\ Sealer(k) /\ k.block = b /\ k.todo = S /\ ~FilledBy(k)
    BY <1>2, <1>3, <1>3a, <1>5 DEF Sealer, FilledBy
  <2> HIDE DEF k
  <2>2. DOMAIN calls = {1} /\ calls[1] = k
    BY <2>1
  <2>3. \A c \in Block : c # b => ~SealsNow(c)
    BY <2>1, <2>2 DEF SealsNow
  <2>4. \A q : ~InFill(q)
    BY <2>1, <2>2 DEF InFill, Fills
  <2> QED
    BY <2>1, <2>2, <2>3, <2>4, WaitingMeans
<1>7. preds[b] \in Seq(Block)
  BY DEF TypeOK
<1>8. PICK p, d, s, S1 : p = e[1] /\ d = e[2] /\ s = preds[b] /\ S1 = S \ {e}
  OBVIOUS
<1>9. \A c \in Block : \A f \in inc[c] : f \in (DOMAIN phis) \X Decls
  BY DEF Types, IncOK
<1>10. e = <<p, d>> /\ p \in DOMAIN phis /\ d \in Decls /\ WaitsAt(b, e)
  BY <1>5, <1>6, <1>8, <1>9 DEF Filling, WaitsAlone
<1>11. PICK a1, a2 : a1 = FillCall(p, d, s) /\ a2 = SealCall(b, S1)
  OBVIOUS
<1>12. /\ Sealer(a2) /\ ~FilledBy(a2) /\ a2.block = b /\ a2.todo = S1 /\ \A q : ~Minds(a2, q)
       /\ ~Sealer(a1) /\ FilledBy(a1) /\ a1.phi = p /\ a1.todo = s /\ \A q : Minds(a1, q) => q = p
  BY <1>11 DEF Sealer, FilledBy, Minds, FillCall, SealCall
<1>13. PICK all : all = calls'
  OBVIOUS
<1>14. all = <<a1, a2>>
  <2>1. calls' = <<a1, a2>> \o <<>>
    BY <1>4, <1>5, <1>8, <1>11
  <2> QED
    BY <1>13, <2>1
<1>15. DOMAIN all = {1, 2} /\ all[1] = a1 /\ all[2] = a2
  BY <1>14
<1>16. Block' = Block /\ phis' = phis /\ erased' = erased /\ inc' = inc /\ sealed' = sealed /\ preds' = preds
  BY <1>5 DEF SameGraph, Block
<1>17. Waiting(b)' = S1 /\ \A c \in Block : c # b => Waiting(c)' = inc[c]
  <2>1. \A i \in DOMAIN all : Sealer(all[i]) => i = 2
    BY <1>12, <1>15
  <2>2. Waiting(b)' = all[2].todo
    BY <1>12, <1>13, <1>15, <1>16, WaitingMeansNext
  <2>3. ASSUME NEW c \in Block, c # b PROVE Waiting(c)' = inc[c]
    <3>1. \A i \in DOMAIN all : ~(Sealer(all[i]) /\ all[i].block = c)
      BY <1>12, <1>15, <2>1, <2>3
    <3> QED
      BY <1>13, <1>16, <3>1, WaitingMeansNext
  <2> QED
    BY <1>12, <1>15, <2>2, <2>3
<1>18. \A q : Busy(q)' => q = p
  <2>1. \A i \in DOMAIN all : \A q : Minds(all[i], q) => q = p
    BY <1>12, <1>15
  <2> QED
    BY <1>13, <2>1 DEF Busy, Minds
<1>19. WaitsAlone'
  <2> SUFFICES ASSUME NEW c \in Block, NEW f \in Waiting(c)' PROVE WaitsAt(c, f)'
    BY <1>16 DEF WaitsAlone
  <2>1. (f \in Waiting(c) /\ f # e) \/ c # b
    BY <1>6, <1>8, <1>17
  <2>2. f \in Waiting(c) /\ f \in inc[c]
    BY <1>5, <1>6, <1>8, <1>17
  <2>3. WaitsAt(c, f) /\ f = <<f[1], f[2]>>
    BY <1>9, <2>2 DEF Filling, WaitsAlone
  <2>4. f[1] # p
    <3> SUFFICES ASSUME f[1] = p PROVE FALSE
      OBVIOUS
    <3>1. c = b /\ f[2] = d
      BY <1>8, <1>10, <2>3 DEF WaitsAt
    <3> QED
      BY <1>10, <2>1, <2>3, <3>1
  <2>5. ~Busy(f[1])'
    BY <1>18, <2>4
  <2> QED
    BY <1>16, <2>3, <2>5 DEF WaitsAt
<1>20. UnsealedNoted'
  BY <1>16 DEF Filling, UnsealedNoted, NotedAt, Entry
<1>21. FillsFit'
  <2>1. FillAt(a1, phis)
    <3>1. FromsOf(phis[p].ops) = <<>> /\ phis[p].block = b
      BY <1>8, <1>10 DEF WaitsAt
    <3>2. <<>> \o s = s
      BY <1>7, <1>8
    <3> QED
      BY <1>8, <1>12, <3>1, <3>2 DEF FillAt
  <2>2. \A i \in DOMAIN all : FilledBy(all[i]) => i = 1
    BY <1>12, <1>15
  <2>3. \A i \in DOMAIN all : FilledBy(all[i]) =>
          /\ FillAt(all[i], phis)
          /\ \A j \in DOMAIN all : Fills(all[j], all[i].phi) => i = j
    BY <1>15, <2>1, <2>2 DEF Fills
  <2> QED
    BY <1>13, <1>16, <2>3 DEF FillsFit, FillAt, FilledBy, Fills
<1>22. AllComplete'
  <2> SUFFICES ASSUME NEW q \in DOMAIN phis, q \notin erased PROVE CompleteAt(q)'
    BY <1>16 DEF AllComplete
  <2>1. PICK c \in Block : c = phis[q].block
    BY DEF Types, PhisOK
  <2>2. Entry(q)' = Entry(q) /\ Entry(q) = <<q, phis[q].decl>>
    BY <1>16 DEF Entry
  <2>3. Entry(q) \in Waiting(c) \/ FromsOf(phis[q].ops) = preds[c]
    BY <1>6, <2>1, RemainingWaits DEF Filling, AllComplete, CompleteAt
  <2>4. CASE FromsOf(phis[q].ops) = preds[c]
    BY <1>16, <2>1, <2>4 DEF CompleteAt
  <2>5. CASE Entry(q) \in Waiting(c) /\ Entry(q) # e
    <3>1. Entry(q) \in Waiting(c)'
      BY <1>6, <1>8, <1>17, <2>5
    <3> QED
      BY <1>16, <2>1, <2>2, <3>1, RemainingWaits DEF CompleteAt
  <2>6. CASE Entry(q) = e
    <3>1. q = p
      BY <1>10, <2>2, <2>6
    <3>2. 1 \in DOMAIN all /\ Fills(all[1], q)
      BY <1>12, <1>15, <3>1 DEF Fills
    <3>3. InFill(q)'
      BY <1>13, <3>2 DEF InFill, Fills, FilledBy
    <3> QED
      BY <3>3 DEF CompleteAt
  <2> QED
    BY <2>3, <2>4, <2>5, <2>6
<1>23. TrivialPending'
  <2> SUFFICES ASSUME NEW q \in DOMAIN phis, q \notin erased, Trivial(q)' PROVE Pending(q)'
    BY <1>16 DEF TrivialPending
  <2>1. PICK c \in Block : c = phis[q].block
    BY DEF Types, PhisOK
  <2>2. Entry(q)' = Entry(q) /\ Entry(q) = <<q, phis[q].decl>> /\ Trivial(q)
    BY <1>16, TrivialKept DEF Entry
  <2>3. ~Busy(q)
    <3> DEFINE k == Call
    <3>1. calls = <<k>> /\ \A x : ~Minds(k, x)
      BY <1>1, <1>5 DEF Minds
    <3> HIDE DEF k
    <3>2. DOMAIN calls = {1} /\ calls[1] = k
      BY <3>1
    <3> QED
      BY <3>1, <3>2 DEF Busy
  <2>4. Entry(q) \in Waiting(c)
    BY <2>1, <2>2, <2>3 DEF Filling, TrivialPending, Pending
  <2>5. CASE Entry(q) # e
    <3>1. Entry(q) \in Waiting(c)'
      BY <1>6, <1>8, <1>17, <2>4, <2>5
    <3> QED
      BY <1>16, <2>1, <2>2, <3>1, RemainingWaits DEF Pending
  <2>6. CASE Entry(q) = e
    <3>1. q = p
      BY <1>10, <2>2, <2>6
    <3>2. 1 \in DOMAIN all /\ Minds(all[1], q)
      BY <1>12, <1>15, <3>1 DEF Minds, FilledBy
    <3>3. Busy(q)'
      BY <1>13, <3>2 DEF Busy, Minds
    <3> QED
      BY <3>3 DEF Pending
  <2> QED
    BY <2>5, <2>6
<1> QED
  BY <1>19, <1>20, <1>21, <1>22, <1>23 DEF Filling

\* With no activation before it and none that minds a phi after it.
LEMMA FillingBetween ==
  ASSUME Types, SealStack, Filling, calls = <<>>, SameGraph,
         \A b \in Block : Waiting(b)' = inc[b],
         \A i \in DOMAIN calls' : \A p : ~Minds(calls'[i], p)
  PROVE  Filling'
<1>1. Block' = Block /\ phis' = phis /\ erased' = erased /\ inc' = inc /\ sealed' = sealed /\ preds' = preds
  BY DEF SameGraph, Block
<1>2. \A b \in Block : Waiting(b) = inc[b]
  <2>1. \A b \in Block : ~SealsNow(b)
    BY DEF SealsNow
  <2> QED
    BY <2>1, WaitingMeans
<1>3. WaitsAlone'
  <2> SUFFICES ASSUME NEW c \in Block, NEW f \in Waiting(c)' PROVE WaitsAt(c, f)'
    BY <1>1 DEF WaitsAlone
  <2>1. WaitsAt(c, f)
    BY <1>2 DEF Filling, WaitsAlone
  <2>2. ~Busy(f[1])'
    BY DEF Busy, Minds
  <2> QED
    BY <1>1, <2>1, <2>2 DEF WaitsAt
<1>4. UnsealedNoted'
  BY <1>1 DEF Filling, UnsealedNoted, NotedAt, Entry
<1>5. FillsFit'
  <2>1. \A i \in DOMAIN calls' : ~FilledBy(calls'[i])
    <3> SUFFICES ASSUME NEW i \in DOMAIN calls', FilledBy(calls'[i]) PROVE FALSE
      OBVIOUS
    <3>1. Minds(calls'[i], calls'[i].phi)
      BY DEF Minds, FilledBy
    <3> QED
      BY <3>1
  <2> QED
    BY <2>1 DEF FillsFit, FilledBy
<1>6. AllComplete'
  <2> SUFFICES ASSUME NEW q \in DOMAIN phis, q \notin erased PROVE CompleteAt(q)'
    BY <1>1 DEF AllComplete
  <2>1. PICK c \in Block : c = phis[q].block
    BY DEF Types, PhisOK
  <2>2. Entry(q)' = Entry(q)
    BY <1>1 DEF Entry
  <2>3. ~InFill(q)
    BY DEF InFill
  <2>4. Entry(q) \in Waiting(c) \/ FromsOf(phis[q].ops) = preds[c]
    BY <2>1, <2>3, RemainingWaits DEF Filling, AllComplete, CompleteAt
  <2>5. Entry(q) \in Waiting(c)' \/ FromsOf(phis[q].ops) = preds[c]
    BY <1>2, <2>4
  <2> QED
    BY <1>1, <2>1, <2>2, <2>5, RemainingWaits DEF CompleteAt
<1>7. TrivialPending'
  <2> SUFFICES ASSUME NEW q \in DOMAIN phis, q \notin erased, Trivial(q)' PROVE Pending(q)'
    BY <1>1 DEF TrivialPending
  <2>1. PICK c \in Block : c = phis[q].block
    BY DEF Types, PhisOK
  <2>2. Entry(q)' = Entry(q) /\ Trivial(q)
    BY <1>1, TrivialKept DEF Entry
  <2>3. Entry(q) \in Waiting(c)
    BY <2>1, <2>2 DEF Filling, TrivialPending, Pending, Busy
  <2>4. Entry(q) \in Waiting(c)'
    BY <1>2, <2>3
  <2> QED
    BY <1>1, <2>1, <2>2, <2>4, RemainingWaits DEF Pending
<1> QED
  BY <1>3, <1>4, <1>5, <1>6, <1>7 DEF Filling

\* The steps that begin an activation, and those between two.
LEMMA FillingBegin ==
  TypeOK /\ Types /\ SealStack /\ SealStack' /\ Filling
    /\ (EvalOperand \/ LoadOperand \/ BeginSeal \/ EnterBlock) => Filling'
<1> SUFFICES ASSUME TypeOK, Types, SealStack, SealStack', Filling,
                    EvalOperand \/ LoadOperand \/ BeginSeal \/ EnterBlock
             PROVE  Filling'
  OBVIOUS
<1>1. SameGraph /\ calls = <<>> /\ Block' = Block /\ inc' = inc
  BY DEF EvalOperand, LoadOperand, BeginSeal, EnterBlock, SetCurr, SameGraph, vars, skeleton, values, ssaVars, Block
<1>2. PICK all : all = calls'
  OBVIOUS
<1>3. CASE EvalOperand \/ LoadOperand \/ EnterBlock
  <2>1. \A i \in DOMAIN all : ~Sealer(all[i]) /\ \A p : ~Minds(all[i], p)
    <3>1. CASE EvalOperand
      <4>1. PICK a : a = ReadCall(Curr, Reads)
        OBVIOUS
      <4>2. all = <<a>>
        BY <1>2, <3>1, <4>1 DEF EvalOperand
      <4>3. ~Sealer(a) /\ \A p : ~Minds(a, p)
        BY <4>1 DEF Sealer, Minds, ReadCall
      <4> QED
        BY <4>2, <4>3
    <3>2. CASE LoadOperand \/ EnterBlock
      BY <1>1, <1>2, <3>2 DEF LoadOperand, EnterBlock, ssaVars
    <3> QED
      BY <1>3, <3>1, <3>2
  <2>2. \A b \in Block : Waiting(b)' = inc[b]
    BY <1>1, <1>2, <2>1, WaitingMeansNext
  <2>3. \A i \in DOMAIN calls' : \A p : ~Minds(calls'[i], p)
    BY <1>2, <2>1
  <2> QED
    BY <1>1, <2>2, <2>3, FillingBetween
<1>4. CASE BeginSeal
  <2>1. PICK b, S : b = Head(sealing) /\ S = inc[b]
    OBVIOUS
  <2>2. PICK a : a = SealCall(b, S)
    OBVIOUS
  <2>3. all = <<a>>
    BY <1>2, <1>4, <2>1, <2>2 DEF BeginSeal
  <2>4. Sealer(a) /\ a.block = b /\ a.todo = S /\ \A p : ~Minds(a, p)
    BY <2>2 DEF Sealer, Minds, SealCall
  <2>5. DOMAIN all = {1} /\ all[1] = a
    BY <2>3
  <2>6. ASSUME NEW c \in Block PROVE Waiting(c)' = inc[c]
    <3>1. CASE c = b
      <4>1. Waiting(c)' = all[1].todo
        BY <1>1, <1>2, <2>4, <2>5, <3>1, WaitingMeansNext
      <4> QED
        BY <2>1, <2>4, <2>5, <3>1, <4>1
    <3>2. CASE c # b
      <4>1. \A i \in DOMAIN all : ~(Sealer(all[i]) /\ all[i].block = c)
        BY <2>4, <2>5, <3>2
      <4> QED
        BY <1>1, <1>2, <4>1, WaitingMeansNext
    <3> QED
      BY <3>1, <3>2
  <2>7. \A i \in DOMAIN calls' : \A p : ~Minds(calls'[i], p)
    BY <1>2, <2>4, <2>5
  <2> QED
    BY <1>1, <2>6, <2>7, FillingBetween
<1> QED
  BY <1>3, <1>4

\* A block is sealed when nothing waits there any more.
LEMMA FillingEndSeal == TypeOK /\ Types /\ SealStack /\ SealStack' /\ Filling /\ EndSeal => Filling'
<1> SUFFICES ASSUME TypeOK, Types, SealStack, SealStack', Filling, EndSeal PROVE Filling'
  OBVIOUS
<1>1. /\ calls # <<>> /\ Call.fn = "sealBlock" /\ Call.todo = {} /\ calls' = Tail(calls)
      /\ inc' = [inc EXCEPT ![Call.block] = {}] /\ sealed' = sealed \cup {Head(sealing)}
      /\ UNCHANGED <<phis, erased, preds, last>>
  BY DEF EndSeal, Running, Call, SealBlock
<1>2. Call.block \in Block /\ Sealer(Call)
  BY <1>1, CallFacts DEF Sealer
<1>3. PICK b \in Block : b = Call.block
  BY <1>2
<1>4. Tail(calls) = <<>> /\ calls = <<Call>> /\ b = Head(sealing) /\ Block' = Block /\ DOMAIN inc = Block
  BY <1>1, <1>2, <1>3, SealerAlone DEF Block, Types, IncOK
<1>5. /\ Waiting(b) = {} /\ \A c \in Block : c # b => Waiting(c) = inc[c]
      /\ \A q : ~InFill(q)
  <2> DEFINE k == Call
  <2>1. calls = <<k>> /\ Sealer(k) /\ k.block = b /\ k.todo = {} /\ ~FilledBy(k)
    BY <1>1, <1>2, <1>3, <1>4 DEF Sealer, FilledBy
  <2> HIDE DEF k
  <2>2. DOMAIN calls = {1} /\ calls[1] = k
    BY <2>1
  <2>3. \A c \in Block : c # b => ~SealsNow(c)
    BY <2>1, <2>2 DEF SealsNow
  <2>4. \A q : ~InFill(q)
    BY <2>1, <2>2 DEF InFill, Fills
  <2> QED
    BY <2>1, <2>2, <2>3, <2>4, WaitingMeans
<1>6. inc'[b] = {} /\ \A c \in Block : c # b => inc'[c] = inc[c]
  BY <1>1, <1>3, <1>4
<1>7. calls' = <<>> /\ sealed' = sealed \cup {b} /\ phis' = phis /\ erased' = erased /\ preds' = preds
  BY <1>1, <1>4
<1>8. \A c \in Block : Waiting(c)' = inc'[c]
  BY <1>4, <1>7, WaitingMeansNext
<1>9. WaitsAlone'
  <2> SUFFICES ASSUME NEW c \in Block, NEW f \in Waiting(c)' PROVE WaitsAt(c, f)'
    BY <1>4 DEF WaitsAlone
  <2>1. c # b /\ WaitsAt(c, f)
    BY <1>5, <1>6, <1>8 DEF Filling, WaitsAlone
  <2>2. ~Busy(f[1])'
    BY <1>7 DEF Busy
  <2> QED
    BY <1>7, <2>1, <2>2 DEF WaitsAt
<1>10. UnsealedNoted'
  <2> SUFFICES ASSUME NEW q \in DOMAIN phis, q \notin erased PROVE NotedAt(q)'
    BY <1>7 DEF UnsealedNoted
  <2>1. PICK c \in Block : c = phis[q].block
    BY DEF Types, PhisOK
  <2>2. c \in sealed \/ Entry(q) \in inc[c]
    BY <2>1 DEF Filling, UnsealedNoted, NotedAt
  <2>3. c \in sealed' \/ Entry(q) \in inc'[c]
    BY <1>6, <1>7, <2>2
  <2> QED
    BY <1>7, <2>1, <2>3 DEF NotedAt, Entry
<1>11. FillsFit'
  BY <1>7 DEF FillsFit
<1>12. AllComplete'
  <2> SUFFICES ASSUME NEW q \in DOMAIN phis, q \notin erased PROVE CompleteAt(q)'
    BY <1>7 DEF AllComplete
  <2>1. PICK c \in Block : c = phis[q].block
    BY DEF Types, PhisOK
  <2>2. Entry(q)' = Entry(q)
    BY <1>7 DEF Entry
  <2>3. Entry(q) \in Waiting(c) \/ FromsOf(phis[q].ops) = preds[c]
    BY <1>5, <2>1, RemainingWaits DEF Filling, AllComplete, CompleteAt
  <2>4. Entry(q) \in Waiting(c)' \/ FromsOf(phis[q].ops) = preds[c]
    BY <1>5, <1>6, <1>8, <2>3
  <2> QED
    BY <1>7, <2>1, <2>2, <2>4, RemainingWaits DEF CompleteAt
<1>13. TrivialPending'
  <2> SUFFICES ASSUME NEW q \in DOMAIN phis, q \notin erased, Trivial(q)' PROVE Pending(q)'
    BY <1>7 DEF TrivialPending
  <2>1. PICK c \in Block : c = phis[q].block
    BY DEF Types, PhisOK
  <2>2. Entry(q)' = Entry(q) /\ Trivial(q)
    BY <1>7, TrivialKept DEF Entry
  <2>3. ~Busy(q)
    <3> DEFINE k == Call
    <3>1. calls = <<k>> /\ \A x : ~Minds(k, x)
      BY <1>1, <1>4 DEF Minds
    <3> HIDE DEF k
    <3>2. DOMAIN calls = {1} /\ calls[1] = k
      BY <3>1
    <3> QED
      BY <3>1, <3>2 DEF Busy
  <2>4. Entry(q) \in Waiting(c)
    BY <2>1, <2>2, <2>3 DEF Filling, TrivialPending, Pending
  <2>5. Entry(q) \in Waiting(c)'
    BY <1>5, <1>6, <1>8, <2>4
  <2> QED
    BY <1>7, <2>1, <2>2, <2>5, RemainingWaits DEF Pending
<1> QED
  BY <1>9, <1>10, <1>11, <1>12, <1>13 DEF Filling

\* A statement may branch to blocks that are not sealed, and creates some: the
\* predecessors of sealed ones stay as they are, and the phis of others wait.
LEMMA FillingEmit ==
  IInv /\ Types /\ SealStack /\ SealStack' /\ Filling /\ EmitStatement => Filling'
<1> SUFFICES ASSUME IInv, Types, SealStack, SealStack', Filling, EmitStatement PROVE Filling'
  OBVIOUS
<1> DEFINE ic == Extend(inc, {})
           S == SUBSET (Nat \X Decls)
<1>1. calls = <<>> /\ calls' = <<>> /\ inc' = ic /\ Handler /\ UNCHANGED <<phis, erased>>
  BY DEF EmitStatement, Handler
<1>2. TypeOK /\ [Next]_vars
  BY <1>1 DEF Next, Step, IInv
<1>3. last \in Nat /\ last' \in Nat /\ last <= last' /\ Block \subseteq Block'
  BY <1>2, BodyKept
<1>4. sealed' = sealed
  BY <1>1 DEF Handler, ControlFlow, skeleton, EmitSimple, EmitCopy, EmitReturn, BeginIf, SwitchToElse,
              EndIf, BeginWhile, BranchWhile, EndWhile, Finish
<1>5. \A b \in sealed : preds'[b] = preds[b]
  BY <1>2, SealedPredsKept
<1>6. OnBlocks(inc, S) /\ {} \in S
  <2>1. inc \in [Block -> S]
    BY DEF Types, IncOK
  <2> QED
    BY <2>1 DEF OnBlocks
<1> HIDE DEF S
<1>7. \A b \in Block : ic[b] = inc[b]
  BY <1>3, <1>6, ExtendFacts
<1>8. \A b \in Block' \ Block : ic[b] = {}
  BY <1>3, <1>6, ExtendFacts
<1> HIDE DEF ic
<1>9. /\ \A b \in Block : Waiting(b) = inc[b]
      /\ \A b \in Block' : Waiting(b)' = ic[b]
  <2>1. \A b \in Block : ~SealsNow(b)
    BY <1>1 DEF SealsNow
  <2>2. \A b \in Block' : Waiting(b)' = ic[b]
    BY <1>1, WaitingMeansNext
  <2> QED
    BY <2>1, <2>2, WaitingMeans
<1>10. WaitsAlone'
  <2> SUFFICES ASSUME NEW c \in Block', NEW f \in Waiting(c)' PROVE WaitsAt(c, f)'
    BY DEF WaitsAlone
  <2>1. c \in Block /\ WaitsAt(c, f)
    BY <1>7, <1>8, <1>9 DEF Filling, WaitsAlone
  <2>2. ~Busy(f[1])'
    BY <1>1 DEF Busy
  <2> QED
    BY <1>1, <1>4, <2>1, <2>2 DEF WaitsAt
<1>11. UnsealedNoted'
  <2> SUFFICES ASSUME NEW q \in DOMAIN phis, q \notin erased PROVE NotedAt(q)'
    BY <1>1 DEF UnsealedNoted
  <2>1. PICK c \in Block : c = phis[q].block
    BY DEF Types, PhisOK
  <2>2. c \in sealed' \/ Entry(q) \in inc'[c]
    BY <1>1, <1>4, <1>7, <2>1 DEF Filling, UnsealedNoted, NotedAt
  <2> QED
    BY <1>1, <2>1, <2>2 DEF NotedAt, Entry
<1>12. FillsFit'
  BY <1>1 DEF FillsFit
<1>13. AllComplete'
  <2> SUFFICES ASSUME NEW q \in DOMAIN phis, q \notin erased PROVE CompleteAt(q)'
    BY <1>1 DEF AllComplete
  <2>1. PICK c \in Block : c = phis[q].block
    BY DEF Types, PhisOK
  <2>2. Entry(q)' = Entry(q)
    BY <1>1 DEF Entry
  <2>3. Entry(q) \in inc[c] \/ (c \in sealed /\ FromsOf(phis[q].ops) = preds[c])
    <3>1. ~InFill(q)
      BY <1>1 DEF InFill
    <3>2. Entry(q) \in Waiting(c) \/ FromsOf(phis[q].ops) = preds[c]
      BY <2>1, <3>1, RemainingWaits DEF Filling, AllComplete, CompleteAt
    <3>3. c \in sealed \/ Entry(q) \in inc[c]
      BY <2>1 DEF Filling, UnsealedNoted, NotedAt
    <3> QED
      BY <1>9, <3>2, <3>3
  <2>4. Entry(q) \in Waiting(c)' \/ FromsOf(phis[q].ops) = preds'[c]
    BY <1>3, <1>5, <1>7, <1>9, <2>3
  <2> QED
    BY <1>1, <2>1, <2>2, <2>4, RemainingWaits DEF CompleteAt
<1>14. TrivialPending'
  <2> SUFFICES ASSUME NEW q \in DOMAIN phis, q \notin erased, Trivial(q)' PROVE Pending(q)'
    BY <1>1 DEF TrivialPending
  <2>1. PICK c \in Block : c = phis[q].block
    BY DEF Types, PhisOK
  <2>2. Entry(q)' = Entry(q) /\ Trivial(q)
    BY <1>1, TrivialKept DEF Entry
  <2>3. Entry(q) \in Waiting(c)
    BY <1>1, <2>1, <2>2 DEF Filling, TrivialPending, Pending, Busy
  <2>4. Entry(q) \in Waiting(c)'
    BY <1>3, <1>7, <1>9, <2>3
  <2> QED
    BY <1>1, <2>1, <2>2, <2>4, RemainingWaits DEF Pending
<1> QED
  BY <1>10, <1>11, <1>12, <1>13, <1>14 DEF Filling

\* Nothing changes.
LEMMA FillingStill == Types /\ UNCHANGED allVars /\ Filling => Filling'
<1> SUFFICES ASSUME Types, UNCHANGED allVars, Filling PROVE Filling'
  OBVIOUS
<1>1. UNCHANGED <<calls, inc, phis, erased, preds, sealed, last>>
  BY DEF allVars, ssaVars, values, vars, skeleton
<1>2. Block' = Block /\ \A b \in Block : Waiting(b)' = Waiting(b)
  BY <1>1 DEF Block, Waiting
<1>3. WaitsAlone'
  BY <1>1, <1>2 DEF Filling, WaitsAlone, WaitsAt, Busy, Minds
<1>4. UnsealedNoted' /\ FillsFit'
  BY <1>1 DEF Filling, UnsealedNoted, NotedAt, Entry, FillsFit, FillAt, FilledBy, Fills
<1>5. AllComplete'
  BY <1>1 DEF Filling, AllComplete, CompleteAt, InFill, FilledBy, Fills, Entry
<1>6. TrivialPending'
  <2>1. \A p \in DOMAIN phis : phis[p].block \in Block
    BY DEF Types, PhisOK
  <2>2. \A p : Trivial(p)' <=> Trivial(p)
    BY <1>1, TrivialKept
  <2> QED
    BY <1>1, <1>2, <2>1, <2>2 DEF Filling, TrivialPending, Pending, Busy, Minds, Entry
<1> QED
  BY <1>3, <1>4, <1>5, <1>6 DEF Filling

\* Every step that reaches no erased phi keeps the filling.
LEMMA FillingNext ==
  /\ SSAInv /\ SealStack /\ SealStack' /\ (~dangling => References /\ Filling) /\ [SSANext]_allVars
  => (~dangling => Filling)'
<1> SUFFICES ASSUME SSAInv, SealStack, SealStack', ~dangling => References /\ Filling, [SSANext]_allVars, ~dangling'
             PROVE  Filling'
  OBVIOUS
<1>1. TypeOK /\ Types /\ IInv
  BY DEF SSAInv, IInv
<1>2. CASE Stopped \/ UNCHANGED allVars
  <2>1. UNCHANGED allVars /\ dangling' = dangling
    BY <1>2 DEF Stopped, allVars, ssaVars
  <2> QED
    BY <1>1, <2>1, FillingStill
<1>3. CASE Construction
  <2>1. ~dangling /\ ~OptimizeErased
    BY <1>3 DEF Construction, ReadFound, ReadUnsealed, ReadSinglePred, ReadJoin, WriteBack, FillRead, FillAdd,
       FillDone, OptimizeKeep, OptimizeReplace, OptimizeErased, OptimizeCandidate, CandidatesDone, BeginSeal,
       SealPhi, EndSeal, EvalOperand, LoadOperand, EmitStatement, EnterBlock, Running
  <2>2. References /\ Filling
    BY <2>1
  <2>3. CASE ReadFound \/ OptimizeKeep \/ CandidatesDone \/ WriteBack
    BY <1>1, <2>2, <2>3, FillingPlainReturn
  <2>4. CASE ReadUnsealed \/ ReadSinglePred \/ ReadJoin
    BY <1>1, <2>2, <2>4, FillingReadUnsealed, FillingReadSinglePred, FillingReadJoin
  <2>5. CASE FillRead \/ FillAdd \/ FillDone
    BY <1>1, <2>2, <2>5, FillingFillRead, FillingFillAdd, FillingFillDone
  <2>6. CASE OptimizeReplace \/ OptimizeCandidate
    BY <1>1, <2>2, <2>6, FillingOptimizeReplace, FillingOptimizeCandidate
  <2>7. CASE SealPhi \/ EndSeal
    BY <1>1, <2>2, <2>7, FillingSealPhi, FillingEndSeal
  <2>8. CASE EvalOperand \/ LoadOperand \/ BeginSeal \/ EnterBlock
    BY <1>1, <2>2, <2>8, FillingBegin
  <2>9. CASE EmitStatement
    BY <1>1, <2>2, <2>9, FillingEmit
  <2> QED
    BY <1>3, <2>1, <2>3, <2>4, <2>5, <2>6, <2>7, <2>8, <2>9 DEF Construction
<1> QED
  BY <1>2, <1>3 DEF SSANext

\* What the run checks of filling follows from the invariant.
LEMMA FillingMeans == Types /\ SealStack /\ Filling => FilledWhenSealed
<1> SUFFICES ASSUME Types, SealStack, Filling PROVE FilledWhenSealed
  OBVIOUS
<1>1. PhisComplete
  <2> SUFFICES ASSUME NEW p \in Live \ (Incomplete \cup BeingFilled)
               PROVE  [i \in DOMAIN phis[p].ops |-> phis[p].ops[i].from] = preds[phis[p].block]
    BY DEF PhisComplete
  <2>1. p \in DOMAIN phis /\ p \notin erased
    BY DEF Live
  <2>2. PICK b \in Block : b = phis[p].block
    BY <2>1 DEF Types, PhisOK
  <2>3. ~InFill(p)
    BY DEF InFill, Fills, BeingFilled
  <2>4. Entry(p) \notin Remaining(calls, inc, b)
    <3>1. Waiting(b) \subseteq inc[b] /\ b \in DOMAIN inc
      BY WaitingMeans DEF Types, IncOK
    <3>2. Entry(p) \notin inc[b]
      <4> SUFFICES ASSUME Entry(p) \in inc[b] PROVE FALSE
        OBVIOUS
      <4>1. Entry(p)[1] = p
        BY DEF Entry
      <4>2. p \in Incomplete
        BY <3>1, <4>1 DEF Incomplete
      <4> QED
        BY <4>2
    <3> QED
      BY <3>1, <3>2, RemainingWaits
  <2>5. FromsOf(phis[p].ops) = preds[b]
    BY <2>1, <2>2, <2>3, <2>4 DEF Filling, AllComplete, CompleteAt
  <2> QED
    BY <2>2, <2>5 DEF FromsOf
<1>2. IncompleteWaits
  <2> SUFFICES ASSUME NEW b \in Block, NEW e \in Waiting(b)
               PROVE  b \notin sealed /\ e[1] \notin erased /\ phis[e[1]].block = b /\ phis[e[1]].ops = <<>>
    BY DEF IncompleteWaits
  <2>1. WaitsAt(b, e)
    BY DEF Filling, WaitsAlone
  <2>2. e[1] \in DOMAIN phis
    BY WaitingMeans DEF Types, IncOK
  <2>3. phis[e[1]].ops = <<>>
    BY <2>1, <2>2, OpsFacts, FromsFacts DEF WaitsAt
  <2> QED
    BY <2>1, <2>3 DEF WaitsAt
<1> QED
  BY <1>1, <1>2 DEF FilledWhenSealed

\* Between the last statement and the end only sealBlock runs.
SealsLast == done /\ calls # <<>> => sealing # <<>>

\* When nothing is left to seal, no activation is left either.
LEMMA SealsLastNext ==
  Types /\ SealStack /\ SealsLast /\ [SSANext]_allVars => SealsLast'
<1> SUFFICES ASSUME Types, SealStack, SealsLast, [SSANext]_allVars PROVE SealsLast'
  OBVIOUS
<1>1. CASE EvalOperand
  BY <1>1 DEF EvalOperand, Idle, vars, SealsLast
<1>2. CASE BeginSeal
  BY <1>2 DEF BeginSeal, vars, skeleton, SealsLast
<1>3. CASE EndSeal
  <2>1. calls # <<>> /\ Sealer(Call) /\ calls' = Tail(calls)
    BY <1>3 DEF EndSeal, Running, Call, Sealer
  <2> QED
    BY <2>1, SealerAlone DEF SealsLast
<1>4. CASE EmitStatement
  BY <1>4 DEF EmitStatement, SealsLast
<1>5. CASE EnterBlock
  BY <1>5 DEF EnterBlock, ssaVars, SealsLast
<1>6. CASE LoadOperand
  BY <1>6 DEF LoadOperand, SealsLast
<1>7. CASE \/ ReadFound \/ ReadUnsealed \/ ReadSinglePred \/ ReadJoin \/ WriteBack
           \/ FillRead \/ FillAdd \/ FillDone
           \/ OptimizeKeep \/ OptimizeReplace \/ OptimizeErased
           \/ OptimizeCandidate \/ CandidatesDone \/ SealPhi
  <2>1. calls # <<>> /\ UNCHANGED vars
    BY <1>7 DEF ReadFound, ReadUnsealed, ReadSinglePred, ReadJoin, WriteBack, FillRead, FillAdd, FillDone,
       OptimizeKeep, OptimizeReplace, OptimizeErased, OptimizeCandidate, CandidatesDone, SealPhi, Running
  <2> QED
    BY <2>1 DEF vars, skeleton, SealsLast
<1>8. CASE Stopped \/ UNCHANGED allVars
  BY <1>8 DEF Stopped, allVars, ssaVars, vars, skeleton, SealsLast
<1> QED
  BY <1>1, <1>2, <1>3, <1>4, <1>5, <1>6, <1>7, <1>8 DEF SSANext, Construction

\* What holds of the phis between any two steps.
FillingInv == ReplacementInv /\ SealStack /\ SealsLast /\ (~dangling => Filling)

\* It is inductive, for every set of bodies.
THEOREM FillingInvariant == SSASpec => []FillingInv
<1> DEFINE Inv == SealStack /\ SealsLast /\ (~dangling => Filling)
<1>1. SSAInit => Inv
  <2> SUFFICES ASSUME SSAInit PROVE Inv
    OBVIOUS
  <2>1. Block = {1} /\ inc = <<{}>> /\ phis = <<>> /\ calls = <<>>
    BY DEF SSAInit, Init, Block
  <2>2. SealStack /\ SealsLast
    BY <2>1 DEF SealStack, SealsLast
  <2>3. \A b \in Block : Waiting(b) = {}
    BY <2>1 DEF Waiting
  <2> QED
    BY <2>1, <2>2, <2>3 DEF Filling, WaitsAlone, UnsealedNoted, FillsFit, AllComplete, TrivialPending
<1>2. ReplacementInv /\ Inv /\ [SSANext]_allVars => Inv'
  <2> SUFFICES ASSUME ReplacementInv, Inv, [SSANext]_allVars PROVE Inv'
    OBVIOUS
  <2>1. SSAInv /\ TypeOK /\ Types /\ (~dangling => References /\ Filling)
    BY DEF ReplacementInv, SSAInv
  <2>2. SealStack' /\ SealsLast'
    BY <2>1, SealStackNext, SealsLastNext
  <2>3. (~dangling => Filling)'
    BY <2>1, <2>2, FillingNext
  <2> QED
    BY <2>2, <2>3
<1>3. ReplacementInv /\ Inv => FillingInv
  BY DEF FillingInv
<1> QED
  BY <1>1, <1>2, <1>3, ReplacementInvariant, PTL DEF SSASpec

\* A phi is filled when its block is sealed, not before, and then with one
\* operand per predecessor, for every set of bodies: however deep the reads in
\* between, no phi that waits is filled, replaced or erased by another's.
THEOREM FilledWhenSealedHolds == SSASpec => []FilledWhenSealed
<1>1. FillingInv => FilledWhenSealed
  <2> SUFFICES ASSUME FillingInv PROVE FilledWhenSealed
    OBVIOUS
  <2>1. CASE dangling
    BY <2>1 DEF FilledWhenSealed, PhisComplete, IncompleteWaits
  <2>2. CASE ~dangling
    BY <2>2, FillingMeans DEF FillingInv, ReplacementInv, SSAInv
  <2> QED
    BY <2>1, <2>2
<1> QED
  BY <1>1, FillingInvariant, PTL

\* No phi that a single value could replace is left when the body has been
\* emitted, for every set of bodies: optimizePhi finds through the use list
\* whatever turns trivial when it replaces a phi, and at the end every block is
\* sealed and every activation over, so that nothing is pending.
THEOREM NoTrivialPhiLeftHolds == SSASpec => []NoTrivialPhiLeft
<1>1. FillingInv => NoTrivialPhiLeft
  <2> SUFFICES ASSUME FillingInv, Emitted, ~dangling, NEW p \in Live, Trivial(p) PROVE FALSE
    BY DEF NoTrivialPhiLeft
  <2>1. Filling /\ SealStack /\ SealsLast /\ Types /\ IInv
    BY DEF FillingInv, ReplacementInv, SSAInv, IInv
  <2>2. p \in DOMAIN phis /\ p \notin erased
    BY DEF Live
  <2>3. calls = <<>>
    BY <2>1 DEF SealsLast, Emitted
  <2>4. PICK b \in Block : b = phis[p].block
    BY <2>1, <2>2 DEF Types, PhisOK
  <2>5. Entry(p) \in Waiting(b)
    BY <2>1, <2>2, <2>3, <2>4 DEF Filling, TrivialPending, Pending, Busy
  <2>6. b \notin sealed
    BY <2>1, <2>5 DEF Filling, WaitsAlone, WaitsAt
  <2>7. sealed = Block
    BY <2>1, AllSealed
  <2> QED
    BY <2>6, <2>7
<1> QED
  BY <1>1, FillingInvariant, PTL
=============================================================================
