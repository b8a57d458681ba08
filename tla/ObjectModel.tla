---------------------------- MODULE ObjectModel ----------------------------
(***************************************************************************)
(* The objects of a compiled module at run time: which type descriptor     *)
(* each record carries, as the code CGModule and CGProcedure emit creates, *)
(* copies, passes and asks for it.                                         *)
(*                                                                         *)
(* Types are constants here; the assumptions on them are what RecordTypes  *)
(* shows Sema to guarantee.  A record or array is looked at from outside   *)
(* through a designator: an object, a path of component numbers into it,   *)
(* and the static type the code has for what is found there.  A VAR        *)
(* parameter is a designator whose static type may be a base of the type   *)
(* its object was declared with.                                           *)
(***************************************************************************)
EXTENDS Naturals, Sequences, SequencesExt

CONSTANTS
  Records, Arrays, Scalars, \* the types
  NoType,    \* no base
  Base,      \* the base of each record, or NoType
  Fields,    \* the types of the fields a record adds to its base
  Elem,      \* the element type of each array
  Length,    \* the number of its elements
  HasTag,    \* the records that carry a type descriptor
  Slots,     \* the method table of each record: <<name, receiver type>> pairs
  Globals,   \* the types of the module variables
  MaxCalls   \* bound: active procedures

Types == Records \cup Arrays \cup Scalars
Null == NoType \* a descriptor pointer that was never set

\* The records isExtensionOf finds on the way from r to its ultimate base.
BasesOf[r \in Records] == {r} \cup IF Base[r] = NoType THEN {} ELSE BasesOf[Base[r]]
IsExtensionOf(t, b) == t = b \/ (t \in Records /\ b \in BasesOf[t])

\* The types a declaration names.
Refers(t) ==
  CASE t \in Records -> {Base[t]} \cup Range(Fields[t])
    [] t \in Arrays -> {Elem[t]}
    [] OTHER -> {}

ASSUME TypesDiffer ==
  /\ NoType \notin Types /\ Records \cap Arrays = {}
  /\ Scalars \cap (Records \cup Arrays) = {}
ASSUME TablesTyped ==
  /\ Base \in [Records -> Records \cup {NoType}] /\ Fields \in [Records -> Seq(Types)]
  /\ Elem \in [Arrays -> Types] /\ Length \in [Arrays -> Nat]
  /\ HasTag \subseteq Records
  /\ Globals \in Seq(Records \cup Arrays)
\* The types a declaration names are looked up while it is parsed: of any set of
\* types, the one declared first names no other.
ASSUME DeclaredBeforeUse ==
  \A S \in SUBSET Types : S # {} => \E t \in S : Refers(t) \cap S = {}
ASSUME TagsFollowExtension ==
  \A r \in Records : Base[r] # NoType => {r, Base[r]} \subseteq HasTag
ASSUME MethodsNeedTags == \A r \in Records : DOMAIN Slots[r] # {} => r \in HasTag
ASSUME SlotsExtendBase ==
  \A r \in Records : Base[r] # NoType =>
    \A i \in DOMAIN Slots[Base[r]] :
      i \in DOMAIN Slots[r] /\ Slots[r][i][1] = Slots[Base[r]][i][1]
ASSUME SlotsBound ==
  \A r \in Records : \A i \in DOMAIN Slots[r] :
    Slots[r][i][2] \in Records /\ IsExtensionOf(r, Slots[r][i][2])

VARIABLES
  objects,  \* module variables, then the parameters and locals of active calls
  frames,   \* active calls: number of objects below, parameter, local
  copied,   \* a record was copied from or to an object of another declared type
  wild      \* the code has left the method table, or the object it works on

vars == <<objects, frames, copied, wild>>

-----------------------------------------------------------------------------
(* Types. *)

AllFields[r \in Records] ==
  (IF Base[r] = NoType THEN <<>> ELSE AllFields[Base[r]]) \o Fields[r]

Components(t) ==
  IF t \in Records THEN AllFields[t]
  ELSE IF t \in Arrays THEN [i \in 1 .. Length[t] |-> Elem[t]] ELSE <<>>

\* The parts of a value: the type of each, by the path that leads to it.
Layout[t \in Types] ==
  LET cs == Components(t)
      parts == [i \in DOMAIN cs |-> Layout[cs[i]]]
      inside == UNION {{<<i>> \o p : p \in DOMAIN parts[i]} : i \in DOMAIN cs}
  IN  [p \in {<<>>} \cup inside |-> IF p = <<>> THEN t ELSE parts[Head(p)][Tail(p)]]

TypeAt(t, path) == Layout[t][path]
PathsTo(t, S) == LET parts == Layout[t] IN {p \in DOMAIN parts : parts[p] \in S}
TaggedPaths(t) == PathsTo(t, HasTag)

\* Records without a tag, and arrays of anything but tagged records, are zeroed
\* as a whole.
ZeroedWhole(t) == t \notin HasTag /\ ~(t \in Arrays /\ Elem[t] \in HasTag)

\* getZeroValue: the parts whose descriptor the initial value of t sets.
ZeroValue[t \in Types] ==
  LET cs == Components(t)
      inside == UNION {{<<i>> \o p : p \in ZeroValue[cs[i]]} : i \in DOMAIN cs}
  IN  IF ZeroedWhole(t) THEN {} ELSE inside \cup IF t \in HasTag THEN {<<>>} ELSE {}

\* Variant: only the outermost record gets its descriptor.
NewOuterOnly(t) ==
  [type |-> t, tag |-> [p \in TaggedPaths(t) |-> IF p = <<>> THEN t ELSE Null]]

\* Variant: the parts get the descriptor of the whole.
NewOuterTag(t) ==
  [type |-> t, tag |-> [p \in TaggedPaths(t) |-> IF p \in ZeroValue[t] THEN t ELSE Null]]

New(t) ==
  [type |-> t,
   tag |-> [p \in TaggedPaths(t) |-> IF p \in ZeroValue[t] THEN TypeAt(t, p) ELSE Null]]

-----------------------------------------------------------------------------
(* Designators. *)

Whole(o) == [obj |-> o, path |-> <<>>, static |-> objects[o].type]
Part(d, p) == [obj |-> d.obj, path |-> d.path \o p, static |-> TypeAt(d.static, p)]
Parts(d) == {Part(d, p) : p \in PathsTo(d.static, Records \cup Arrays)}

\* The variables in scope: the module's, and those of the innermost call.
InScope ==
  {Whole(o) : o \in 1 .. Len(Globals)}
    \cup (IF frames = <<>> THEN {} ELSE {Last(frames).param, Last(frames).local})
Designators == UNION {Parts(d) : d \in InScope}

Declared(d) == TypeAt(objects[d.obj].type, d.path)
\* What the code takes the designator to be fits what is there.
Fits(d) == IsExtensionOf(Declared(d), d.static)
TagOf(d) == objects[d.obj].tag[d.path]

\* The descriptors stored in the part of an object a designator denotes, and
\* the object after they have been overwritten: what memcpy does to them.
Tags(d) == [p \in TaggedPaths(d.static) |-> objects[d.obj].tag[d.path \o p]]
Overwritten(d, tags) ==
  [objects EXCEPT ![d.obj].tag =
     [p \in DOMAIN @ |->
        IF \E q \in DOMAIN tags : p = d.path \o q
          THEN tags[CHOOSE q \in DOMAIN tags : p = d.path \o q] ELSE @[p]]]

-----------------------------------------------------------------------------
(* The emitted code. *)

Init ==
  /\ objects = [o \in DOMAIN Globals |-> New(Globals[o])]
  /\ frames = <<>>
  /\ copied = FALSE /\ wild = FALSE

\* Variant: any record can be assigned to any other.
AssignAny(d, s) ==
  /\ ~wild /\ {d.static, s.static} \subseteq Records
  /\ objects' = Overwritten(d, Tags(s))
  /\ copied' = (copied \/ Declared(d) # d.static \/ Declared(s) # s.static)
  /\ UNCHANGED <<frames, wild>>

\* emitMemCpy of a value of the static type both sides have.
Assign(d, s) ==
  /\ ~wild /\ d.static = s.static
  /\ objects' = Overwritten(d, Tags(s))
  /\ copied' = (copied \/ Declared(d) # d.static \/ Declared(s) # s.static)
  /\ UNCHANGED <<frames, wild>>

\* Variant: the local variable gets no storage.
EnterWithoutLocal(param, new) ==
  /\ Len(frames) < MaxCalls
  /\ objects' = objects \o Front(new)
  /\ frames' = Append(frames,
       [below |-> Len(objects), param |-> param,
        local |-> [obj |-> Len(objects) + Len(new), path |-> <<>>, static |-> param.static]])

\* A procedure with one parameter and a local variable of the same type.
Enter(param, new) ==
  /\ Len(frames) < MaxCalls
  /\ objects' = objects \o new
  /\ frames' = Append(frames,
       [below |-> Len(objects), param |-> param,
        local |-> [obj |-> Len(objects) + Len(new), path |-> <<>>, static |-> param.static]])

\* Variant: a VAR parameter of an extension takes a base.
CompatibleWithVarSwapped(actual, formal) ==
  actual = formal \/ (actual \in Records /\ IsExtensionOf(formal, actual))

\* isCompatibleWithFormal for VAR: an extension of a record is as good.
CompatibleWithVar(actual, formal) ==
  actual = formal \/ (actual \in Records /\ IsExtensionOf(actual, formal))

\* A VAR parameter is the actual, seen as the formal's type.
PassVar(a, formal) ==
  /\ ~wild
  /\ CompatibleWithVar(a.static, formal)
  /\ Enter([a EXCEPT !.static = formal], <<New(formal)>>)
  /\ UNCHANGED <<copied, wild>>

\* A value parameter is loaded from the actual and stored in an alloca.
PassValue(a) ==
  /\ ~wild
  /\ Enter([obj |-> Len(objects) + 1, path |-> <<>>, static |-> a.static],
           <<[type |-> a.static, tag |-> Tags(a)], New(a.static)>>)
  /\ copied' = (copied \/ Declared(a) # a.static)
  /\ UNCHANGED wild

\* Variant: the slot is off by one.
SlotPastTag(static, name) == 1 + CHOOSE i \in DOMAIN Slots[static] : Slots[static][i][1] = name

\* getMethodSlot of the static type.
Slot(static, name) == CHOOSE i \in DOMAIN Slots[static] : Slots[static][i][1] = name

\* emitMethodCall: the implementation comes from the descriptor of the object,
\* and is entered with the object as its receiver, whatever object that is.
CallMethod(d, name) ==
  LET table == IF TagOf(d) = Null THEN <<>> ELSE Slots[TagOf(d)]
      slot == Slot(d.static, name)
  IN  /\ ~wild
      /\ wild' = ~(slot \in DOMAIN table /\ IsExtensionOf(Declared(d), table[slot][2]))
      /\ IF wild' THEN UNCHANGED <<objects, frames>>
         ELSE Enter([d EXCEPT !.static = table[slot][2]], <<New(table[slot][2])>>)
      /\ UNCHANGED copied

Return ==
  /\ frames # <<>> /\ ~wild
  /\ objects' = SubSeq(objects, 1, Last(frames).below)
  /\ frames' = Front(frames)
  /\ UNCHANGED <<copied, wild>>

Halt == wild /\ UNCHANGED vars

Next ==
  \/ \E d, s \in Designators : Assign(d, s)
  \/ \E d \in Designators, formal \in Records \cup Arrays : PassVar(d, formal)
  \/ \E d \in Designators : PassValue(d)
  \/ \E d \in Designators : d.static \in Records /\ \E i \in DOMAIN Slots[d.static] :
       CallMethod(d, Slots[d.static][i][1])
  \/ Return
  \/ Halt

Spec == Init /\ [][Next]_vars

\* emitTypeTest, the value of "d IS tested": the descriptors are compared.
TypeTest(d, tested) == TagOf(d) = tested

-----------------------------------------------------------------------------
Objects == UNION {[type : {t}, tag : [TaggedPaths(t) -> Records \cup {Null}]] : t \in Records \cup Arrays}
Views == [obj : Nat, path : Seq(Nat), static : Records \cup Arrays]

TypeOK ==
  /\ objects \in Seq(Objects)
  /\ frames \in Seq([below : Nat, param : Views, local : Views])
  /\ \A i \in DOMAIN frames : {frames[i].param.obj, frames[i].local.obj} \subseteq DOMAIN objects
  /\ copied \in BOOLEAN /\ wild \in BOOLEAN

\* "A zero value of Ty that also initialises the type descriptors of extended
\* records" (CGModule.h): a record that has a descriptor is without it, however
\* deep it lies in another value and wherever it was copied to, only if a record
\* with the same ultimate base occurs in a type that is zeroed as a whole.
Family(t) == CHOOSE b \in BasesOf[t] : Base[b] = NoType
NoNullTag ==
  \A o \in DOMAIN objects : \A p \in DOMAIN objects[o].tag :
    objects[o].tag[p] = Null =>
      \E t \in Types : ZeroedWhole(t) /\ \E q \in TaggedPaths(t) :
        Family(TypeAt(t, q)) = Family(TypeAt(objects[o].type, p))

\* As long as every copy was between objects of one declared type, each record
\* carries the descriptor of the type it was declared with, or none.  So IS tells
\* the type of a variable ("True if the dynamic type of the record variable is
\* the tested type", AST.h), and unless there are records without a descriptor,
\* every method call stays within the method table and the method it reaches
\* gets a receiver that has all the fields it may touch.  A record copied through
\* a VAR parameter of a base type ends this.
SoundUntilCopied ==
  ~copied =>
    /\ \A o \in DOMAIN objects : \A p \in DOMAIN objects[o].tag :
         objects[o].tag[p] \in {TypeAt(objects[o].type, p), Null}
    /\ \A d \in Designators : \A t \in HasTag : d.static \in HasTag /\ TagOf(d) # Null =>
         (TypeTest(d, t) <=> Declared(d) = t)
    /\ wild => \E o \in DOMAIN objects : Null \in Range(objects[o].tag)

\* What the code sees through a parameter or a receiver is really there, however
\* often the variable was passed on, also where a method of an extension was
\* reached through its base; and what copies do to descriptors stays among the
\* types with the same ultimate base.
ViewsFit ==
  /\ \A d \in InScope : Fits(d)
  /\ \A o \in DOMAIN objects : \A p \in DOMAIN objects[o].tag :
       objects[o].tag[p] # Null =>
         Family(objects[o].tag[p]) = Family(TypeAt(objects[o].type, p))
=============================================================================
