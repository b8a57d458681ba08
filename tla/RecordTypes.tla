---------------------------- MODULE RecordTypes ----------------------------
(***************************************************************************)
(* Record types, their extension, and their type-bound procedures, as Sema *)
(* registers them while it parses the declarations of a module in order:   *)
(* who carries a type tag, whose method table holds what, and what a       *)
(* method call will find in the type descriptors CGModule builds later.    *)
(*                                                                         *)
(* A record type is its index in recs, which is the order of declaration;  *)
(* a procedure with a receiver, or a method prototype in a record body, is *)
(* its index in procs.  Fields, bodies and plain procedures are left out.  *)
(***************************************************************************)
EXTENDS Naturals, Sequences, SequencesExt

CONSTANTS
  Names,       \* method names
  Types,       \* formal parameter and result types, as isSameType sees them
  MaxRecords,  \* bounds: record types,
  MaxProcs,    \* procedures and prototypes,
  MaxProtos    \* and prototypes in one record body

ASSUME Bounds == {MaxRecords, MaxProcs, MaxProtos} \subseteq Nat

VARIABLES
  recs,      \* record types: base (0 if none), tagged, methods (getMethods())
  procs,     \* procedures: name, types, recv, proto (isMethodDeclaration), defn
  declared,  \* DeclaredMethods
  calls,     \* method calls in the bodies parsed so far: static type and method
  reported,  \* an error has been reported: there will be no code
  ended      \* the end of the module has been reached

vars == <<recs, procs, declared, calls, reported, ended>>

Records == DOMAIN recs
Accepted == ended /\ ~reported

Init ==
  /\ recs = <<>> /\ procs = <<>> /\ declared = {} /\ calls = {}
  /\ reported = FALSE /\ ended = FALSE

-----------------------------------------------------------------------------
(* The helpers of AST.h. *)

\* Ty is Base or extends it.
IsExtensionOf(ty, base) ==
  LET ext[t \in 0 .. Len(recs)] == t # 0 /\ (t = base \/ ext[recs[t].base])
  IN  ext[ty]

\* The methods of this name in a table, and the one a search finds.
Called(table, name) == {i \in DOMAIN table : procs[table[i]].name = name}
FirstCalled(table, name) ==
  CHOOSE i \in Called(table, name) : \A j \in Called(table, name) : i <= j

\* Variant: new methods are put before the inherited ones.
PutInFront(slots, m) ==
  IF Called(slots, procs[m].name) = {} THEN <<m>> \o slots ELSE slots

\* A method overrides the slot of its name or takes a new one at the end.
PutInSlot(slots, m) ==
  IF Called(slots, procs[m].name) = {} THEN Append(slots, m)
  ELSE [slots EXCEPT ![FirstCalled(slots, procs[m].name)] = m]

Definition(m) == IF procs[m].proto /\ procs[m].defn # 0 THEN procs[m].defn ELSE m

\* The methods of a record, put into the slots of its base one by one.
PutAll(slots, methods) ==
  LET put[k \in 0 .. Len(methods)] ==
        IF k = 0 THEN slots ELSE PutInSlot(put[k - 1], Definition(methods[k]))
  IN  put[Len(methods)]

\* collectMethodSlots(r) is Slots[r]; 0 stands for "no base".
Slots ==
  LET slotsOf[r \in 0 .. Len(recs)] ==
        IF r = 0 THEN <<>> ELSE PutAll(slotsOf[recs[r].base], recs[r].methods)
  IN  slotsOf

SlotNames(r) == [i \in DOMAIN Slots[r] |-> procs[Slots[r][i]].name]

\* getMethodSlot: the position of this name in the descriptor of r.
GetMethodSlot(r, name) == FirstCalled(Slots[r], name)

\* lookupMethod: the method of this name reachable from r, or 0.
LookupMethod(r, name) ==
  IF Called(Slots[r], name) = {} THEN 0 ELSE Slots[r][GetMethodSlot(r, name)]

\* Signatures are compared without the receiver.
SameAsInherited(r, name, types) ==
  LookupMethod(r, name) # 0 => procs[LookupMethod(r, name)].types = types

-----------------------------------------------------------------------------
(* Sema's actions. *)

Open(n) == ~ended /\ Len(procs) + n <= MaxProcs
Tagged(rs, r) == IF r = 0 THEN rs ELSE [rs EXCEPT ![r].tagged = TRUE]

\* Variant: only the new type is tagged, not the one it extends.
TaggedNever(rs, r) == rs

\* The base of a new record, which then carries a tag as the record does.
TaggedBase(rs, r) == Tagged(rs, r)

Proto(r, d) ==
  [name |-> d.name, types |-> d.types, recv |-> r, proto |-> TRUE, defn |-> 0]

\* Of the prototypes ds in a record body those are kept whose name is not taken
\* yet and whose signature is the inherited one, if there is one.
Kept(base, ds) ==
  LET Fits(kept, d) ==
        /\ \A k \in DOMAIN kept : ds[kept[k]].name # d.name
        /\ SameAsInherited(base, d.name, d.types)
      upto[i \in 0 .. Len(ds)] ==
        IF i = 0 THEN <<>>
        ELSE IF Fits(upto[i - 1], ds[i]) THEN Append(upto[i - 1], i) ELSE upto[i - 1]
  IN  upto[Len(ds)]

\* actOnRecordType: a record type, and the prototypes in its body.
DeclareRecord(base, ds) ==
  LET r == Len(recs) + 1
      kept == Kept(base, ds)
      methods == [k \in DOMAIN kept |-> Len(procs) + kept[k]]
  IN  /\ Open(Len(ds)) /\ r <= MaxRecords
      /\ procs' = procs \o [i \in DOMAIN ds |-> Proto(r, ds[i])]
      /\ recs' = Append(TaggedBase(recs, base),
                        [base |-> base, tagged |-> base # 0, methods |-> methods])
      /\ declared' = declared \cup Range(methods)
      /\ reported' = (reported \/ Len(kept) # Len(ds))
      /\ UNCHANGED <<calls, ended>>

\* The methods of r declared so far that have this name.
Own(r, name) == Called(recs[r].methods, name)
Proc(r, name, types) ==
  [name |-> name, types |-> types, recv |-> r, proto |-> FALSE, defn |-> 0]

\* actOnProcedureHeading, a name in the table of the type: a prototype is
\* implemented, and its place in the table taken by the implementation p.
Implement(r, name, types, p) ==
  \E i \in Own(r, name) :
    LET own == recs[r].methods[i] IN
    /\ procs[own].proto
    /\ procs' = Append([procs EXCEPT ![own].defn = p], Proc(r, name, types))
    /\ recs' = [Tagged(recs, r) EXCEPT ![r].methods[i] = p]
    /\ reported' = (reported \/ procs[own].types # types)

\* Variant: a second implementation replaces the first without a word.
BindAgainUnnoticed(r, name, types, p) ==
  \E i \in Own(r, name) :
    /\ ~procs[recs[r].methods[i]].proto
    /\ procs' = Append(procs, Proc(r, name, types))
    /\ recs' = [Tagged(recs, r) EXCEPT ![r].methods[i] = p]
    /\ UNCHANGED reported

\* ... and anything else of that name is an error.
BindAgain(r, name, types, p) ==
  \E i \in Own(r, name) :
    /\ ~procs[recs[r].methods[i]].proto
    /\ procs' = Append(procs, Proc(r, name, types))
    /\ recs' = Tagged(recs, r)
    /\ reported' = TRUE

\* Variant: the inherited signature is not looked at.
BindNewUnchecked(r, name, types, p) ==
  /\ Own(r, name) = {}
  /\ procs' = Append(procs, Proc(r, name, types))
  /\ recs' = [Tagged(recs, r) EXCEPT ![r].methods = Append(@, p)]
  /\ UNCHANGED reported

\* Variant: the table keeps a procedure that has been dropped.
BindNewDropped(r, name, types, p) ==
  /\ Own(r, name) = {}
  /\ recs' = [Tagged(recs, r) EXCEPT ![r].methods = Append(@, p)]
  /\ UNCHANGED <<procs, reported>>

\* A name that is not in the table: a new method, or one that overrides.
BindNew(r, name, types, p) ==
  /\ Own(r, name) = {}
  /\ procs' = Append(procs, Proc(r, name, types))
  /\ IF SameAsInherited(r, name, types)
       THEN /\ recs' = [Tagged(recs, r) EXCEPT ![r].methods = Append(@, p)]
            /\ UNCHANGED reported
       ELSE /\ recs' = Tagged(recs, r)
            /\ reported' = TRUE

\* A procedure with a receiver: actOnReceiverParameter and actOnProcedureHeading.
BindMethod(r, name, types) ==
  LET p == Len(procs) + 1 IN
  /\ Open(1)
  /\ \/ Implement(r, name, types, p)
     \/ BindAgain(r, name, types, p)
     \/ BindNew(r, name, types, p)
  /\ UNCHANGED <<declared, calls, ended>>

\* actOnMethodCall on a designator of type r, with fitting arguments.
CallMethod(r, name) ==
  LET m == LookupMethod(r, name) IN
  /\ ~ended
  /\ IF m = 0
       THEN reported' = TRUE /\ UNCHANGED <<recs, calls>>
       ELSE /\ recs' = Tagged(recs, r)
            /\ calls' = calls \cup {[static |-> r, method |-> m]}
            /\ UNCHANGED reported
  /\ UNCHANGED <<procs, declared, ended>>

\* actOnTypeTest on a designator of type r: IS compares descriptors.
TestType(r, tested) ==
  /\ ~ended
  /\ IF IsExtensionOf(tested, r)
       THEN recs' = Tagged(Tagged(recs, r), tested) /\ UNCHANGED reported
       ELSE reported' = TRUE /\ UNCHANGED recs
  /\ UNCHANGED <<procs, declared, calls, ended>>

\* Variant: prototypes that nobody implements are let through.
EndModuleUnchecked ==
  /\ ~ended
  /\ ended' = TRUE
  /\ UNCHANGED <<recs, procs, declared, calls, reported>>

\* actOnModuleDeclaration at END: every prototype must be implemented.
EndModule ==
  /\ ~ended
  /\ ended' = TRUE
  /\ reported' = (reported \/ \E m \in declared : procs[m].defn = 0)
  /\ UNCHANGED <<recs, procs, declared, calls>>

Done == ended /\ UNCHANGED vars

Next ==
  \/ \E b \in 0 .. Len(recs), n \in 0 .. MaxProtos :
       \E ds \in [1 .. n -> [name : Names, types : Types]] : DeclareRecord(b, ds)
  \/ \E r \in Records, name \in Names, types \in Types : BindMethod(r, name, types)
  \/ \E r \in Records, name \in Names : CallMethod(r, name)
  \/ \E r, tested \in Records : TestType(r, tested)
  \/ EndModule
  \/ Done

Spec == Init /\ [][Next]_vars

-----------------------------------------------------------------------------
Record == [base : Nat, tagged : BOOLEAN, methods : Seq(Nat)]
Procedure == [name : Names, types : Types, recv : Nat, proto : BOOLEAN, defn : Nat]

TypeOK ==
  /\ recs \in Seq(Record) /\ procs \in Seq(Procedure)
  /\ \A r \in Records :
       recs[r].base < r /\ \A i \in DOMAIN recs[r].methods : recs[r].methods[i] \in DOMAIN procs
  /\ \A p \in DOMAIN procs : procs[p].recv \in Records /\ procs[p].defn \in 0 .. Len(procs)
  /\ declared \subseteq DOMAIN procs
  /\ calls \subseteq [static : Records, method : DOMAIN procs]
  /\ reported \in BOOLEAN /\ ended \in BOOLEAN

\* In a module that is compiled, a record has a tag if it is extended, extends
\* another, or has methods: its objects can be asked for their descriptor.  At
\* all times the descriptor of a record starts with the slots of its base, name
\* by name, in whatever order types were declared and methods bound.
TagWherePolymorphic ==
  Accepted => \A r \in Records :
    \/ recs[r].tagged
    \/ /\ recs[r].base = 0 /\ Slots[r] = <<>>
       /\ \A d \in Records : recs[d].base # r
SlotsExtendBase ==
  \A r \in Records : recs[r].base # 0 => IsPrefix(SlotNames(recs[r].base), SlotNames(r))
DescriptorsFit == TagWherePolymorphic /\ SlotsExtendBase

\* A method call of a compiled module finds, in the slot its static type gives
\* it and in the descriptor of any type the object may have, an implementation
\* of the called name that is bound to that type or to one it extends; and that
\* implementation is the only one that gets this symbol from mangleName.
DispatchFinds ==
  Accepted => \A c \in calls : \A d \in Records :
    LET name == procs[c.method].name
        slot == GetMethodSlot(c.static, name)
    IN  IsExtensionOf(d, c.static) =>
          /\ slot \in DOMAIN Slots[d]
          /\ LET impl == procs[Slots[d][slot]] IN
             /\ impl.name = name /\ ~impl.proto /\ IsExtensionOf(d, impl.recv)
             /\ \A p \in DOMAIN procs :
                  ~procs[p].proto /\ procs[p].name = name /\ procs[p].recv = impl.recv =>
                    p = Slots[d][slot]

\* A call is emitted with the signature of the method it was resolved to when
\* it was parsed.  The implementation it reaches in an object of any type has
\* that signature, unless on the way to it a type bound the name before the type
\* it extends did: these two are never compared.  (docs/design.md 10.5 has every
\* override compared, and names this order of declaration as a legal one.)
BoundEarly(from, method) ==
  \E p \in DOMAIN procs, q \in DOMAIN procs :
    /\ procs[p].name = procs[method].name /\ procs[q].name = procs[method].name
    /\ IsExtensionOf(from, procs[p].recv)
    /\ procs[p].recv # procs[q].recv /\ IsExtensionOf(procs[p].recv, procs[q].recv)
    /\ \A o \in 1 .. p : procs[o].name = procs[q].name => procs[o].recv # procs[q].recv
CallsKeepSignature ==
  Accepted => \A c \in calls : \A d \in Records : IsExtensionOf(d, c.static) =>
    LET impl == LookupMethod(d, procs[c.method].name) IN
    procs[impl].types = procs[c.method].types \/ BoundEarly(d, c.method)
=============================================================================
