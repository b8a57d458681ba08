# A verification development for tinylang

tinylang compiles a subset of Modula-2, with Oberon-2 style extensible records and
type-bound procedures, to object code through LLVM. It is a single-threaded,
single-pass front end (lexer, recursive descent parser that calls the semantic analysis
while it parses, AST) and a code generator that builds SSA form while it walks the AST.

There is no concurrency, no network and nothing persistent here. What is hard is of
another kind: recursive functions that change tables they are in the middle of reading;
decisions taken from tables that are still incomplete because the source is read from
top to bottom; values that are replaced while others point to them; error recovery in
functions that call one another in loops; and generated code whose objects carry
descriptors that every copy, call and view has to keep meaningful.

## 1. Inventory

| Component | State | Operations | Interaction |
|---|---|---|---|
| Lexer (`lib/Lexer/Lexer.cpp`) | `CurPtr` into the buffer | `next`, `identifier`, `number`, `string`, `comment`, `formToken` | asked for tokens by the parser; reports to `Diagnostics` |
| Parser (`lib/Parser/Parser.cpp`, `Parser.h`) | the current token; the C++ stack | one `parse...` function per grammar rule, `expect`, `consume`, `advance`, `skipUntil` | calls the lexer for tokens and Sema's `actOn...` for what it has recognised |
| Sema: scopes and declarations (`lib/Sema/Sema.cpp`, `Scope.cpp`) | `CurrentScope`, `CurrentDecl`, owned types | `enterScope`, `leaveScope`, `actOn...` for declarations, headings and names | called by the parser; builds AST nodes |
| Sema: expressions and statements (same file) | none of its own | `actOn...` for expressions, designators, calls and statements; the type relations | the operands are nodes the parser holds |
| Sema: records and methods (same file, helpers in `AST.h`) | `DeclaredMethods`; per record: base, fields, method table, tag bit | `actOnRecordType`, `actOnMethodDeclaration`, `actOnReceiverParameter`, `actOnProcedureHeading`, `actOnMethodCall`, the check at the end of the module | tables are read again by CodeGen |
| CodeGen, module (`CGModule.cpp`) | globals, type ids, type descriptors | `run` (three passes), `convertType`, `mangleName`, `getTypeDescriptor`, `getZeroValue` | creates a `CGProcedure` per procedure |
| CodeGen, procedure (`CGProcedure.cpp`) | `Curr`, `CurrentDef`, `ByRefLocals`, `PromotedLocals` | `run`, `emit`, `emitStmt`, `emitExpr`, `emitLValue`, `readLocalVariable`, `writeLocalVariable`, `addPhiOperands`, `optimizePhi`, `sealBlock` | LLVM's `IRBuilder` |
| Run time of the generated code | objects with descriptors | assignment, calls, dispatch, `IS` | fixed by CodeGen, linked with C |
| Driver (`tools/driver/Driver.cpp`) | none | `main`, `emit` | file -> parser -> CodeGen -> object file, exit code |
| Basic, ASTDumper, astdump, tests, docs, build files | error counter | tables, formatting, printing | |

What makes each of them correct, and the behaviour that makes it hard:

* **Blocks of a procedure.** A block is sealed once, when and only when all its
  predecessors are known, and every block is sealed in the end; every block ends in
  exactly one terminator. Nesting and `RETURN` in every position make it hard.
* **SSA construction.** Every operand is the value its variable had on the path taken;
  no phi is incomplete, redundant, or referred to after it has been erased. Functions
  recurse over a cyclic graph of blocks and erase phis that other activations hold.
* **Variables in memory.** VAR parameters, module variables and scalars passed by
  reference may change through another name or in a call; they must be loaded each time.
* **Records and methods.** The descriptor of an extension starts with that of its base,
  tags are where objects need them, a call finds an implementation it fits. Types,
  prototypes, implementations and calls may come in many orders.
* **Objects.** A record always carries the descriptor of its type; what the code sees
  through a parameter is there; dispatch stays in the table.
* **Expressions.** Sema accepts what has a meaning and nothing else, and CodeGen makes of
  everything Sema accepts a value of the kind its user expects. The tables of the two are
  written in different places, over many combinations of types and designators.
* **Scopes.** A name means what is visible where it stands, whatever errors came before;
  nobody follows a pointer to a declaration that has been freed in a correct module.
* **Parser.** It accepts the language and nothing else, ends on every input, and does
  not let a mistake pass in silence.
* **Lexer.** Tokens are the longest the language knows, comments nest, and `CurPtr` stays
  in the buffer.
* **The compiler as a whole.** Calls reach the code of the procedure that was meant, and
  the exit code tells whether there is code.

`PROJECT.json` lists every hazard at the line where it bites, with the properties that
would catch it.

## 2. Modules

| Module | Models | Kind |
|---|---|---|
| `BlockEmission` | control skeleton of `CGProcedure` | component |
| `SSAConstruction` | variables and the SSA algorithm, EXTENDS `BlockEmission` | component, composed |
| `SSAProofs` | theorems: blocks are well formed, sealed once and terminated; the tables of the construction are well formed; replacing a phi reaches everything; phis are filled when their block is sealed; none that is trivial is left | proofs |
| `SourceExecution` | what a body means in the source language | abstract specification |
| `SSAExecution` | the built function executed; implements `SourceExecution` | refinement |
| `RecordTypes` | Sema's record types and method tables | component |
| `RecordTypesProofs` | theorems: descriptors, dispatch, signatures | proofs |
| `RecursionLemmas` | lemmas: functions defined by recursion along links that lead down, or over trees, have values | proofs |
| `ObjectModel` | objects of a running program | component |
| `ObjectModelProofs` | theorems: descriptors, views, dispatch until a copy mixes types | proofs |
| `Expressions` | Sema's and CodeGen's expressions and statements | component, composed |
| `ExpressionsProofs` | theorems: types are compared by structure, what is accepted, what is emitted | proofs |
| `Lexer` | the lexer | component |
| `LexicalGrammar` | what tokens and comments look like | reference definition |
| `LexerProofs` | theorems: tokens, comments, the lexer stays in the file | proofs |
| `Parser` | the parse functions and their recovery | component |
| `Language` | the grammar of `docs/design.md` 6.2 | reference definition |
| `ParserProofs` | theorems: the parser's stack; what it takes without a complaint is a module of the grammar | proofs |
| `Declarations` | scopes, names and who owns declarations | component |
| `Compilation` | driver and `CGModule::run`, EXTENDS `Declarations` | composition |
| `CompilationProofs` | theorems: types, names, freed declarations, calls, output and exit code; lemmas: scopes hold what the nesting of declarations says | proofs |
| `StatementLists` | enumerates procedure bodies | helper |
| `MC...` | values for the constants of each component | model checking |

In every module, an operator under the comment *Variant* is a wrong version of the one
behind it (a missing guard, a forgotten reset): substituted for it, it makes a property
fail, which shows that the property has something to say. `PROJECT.json` pairs them.

### BlockEmission

A body is the sequence of tokens a depth-first walk of its statement lists meets:
`simple`, `return`, `if`/`ifelse` ... `else` ... `endif`, `while` ... `endwhile`. An
`emitStmt` overload is one action, or, where it contains nested lists, one action per
part between them; what it keeps in C++ locals over the nested part (`ElseBB`,
`AfterIfBB`, `WhileCondBB`, ...) is a record on `frames`. `sealBlock` and the following
`setCurr` are steps of their own (`sealing`, `next`), so that `SSAConstruction` can put
the reads a seal triggers between them. `preds[b]` has the newest edge first, as LLVM's
use lists do. Expressions are left out: `AND` and `OR` are not short-circuit in this
compiler, so no expression makes blocks.

An assignment need not emit an instruction. If the target has an SSA value and the
expression is a literal or another such variable, `writeVariable` (`CGProcedure.cpp:627`,
138, 150) only changes `CurrentDef`. So a `simple` token has two actions: `EmitSimple`
appends an instruction to `Curr`, `EmitCopy` leaves it as it is. Behind a `RETURN` this
makes a difference: an instruction reopens the block, a copy leaves it ending in `ret`.
`BlockEmission` does not know the variables and allows both; `SSAConstruction` does, and
allows a copy only where there is one (`OnlyDefines`).

### SSAConstruction

Adds `CurrentDef` (`def`, `inc`), the phis with operands and use lists, and the
activations of the recursive functions (`calls`, innermost first; `ret` is what the last
one returned). Each step of one of them is an action. Memory is explicit: an erased phi
stays in `erased`, and a step that dereferences one sets `dangling`, where the behaviour
stops, since nothing can be said of what follows. `IncompletePhis` is a map keyed by
address, so `SealPhi` takes its entries in any order. `replaceAllUsesWith` moves uses one
by one to the head of the new list, which is why lists are reversed. `TrackingVH` in
`Defs` is why `ReplaceAllUses` also rewrites `def`.

Variables in memory (VAR parameters, module variables, and the scalars
`collectByRefLocals` finds among the arguments of VAR parameters) are read by
`LoadOperand` and have no entry in `def`. `collectByRefLocals` walks over statements, not
over the expressions of the constants they use, and a constant's expression is emitted
anew wherever the constant is used. So `CONST c = F(x)`, where `F` has a VAR parameter and
`x` is a local scalar, asks for the address of an SSA value: `report_fatal_error`. The
model has this (`inConst`, `GivenUp`), and it is one of the ways in which
`ConstructionEnds` allows emission to end.

### SSAExecution and SourceExecution

`SourceExecution` gives the source semantics: control moves from token to token as `IF`
and `WHILE` say, each token reads the value its variable was last given, two names may
stand for one variable, and a call may change the variables it can reach. `SSAExecution`
first builds the function (`Emit`) and then runs it (`Invoke`, `Jump`, `Execute`): phis
take the value of the edge, all at once, instructions evaluate the operands that were
chosen for them, loads read the slot at the time they stand for. The refinement mapping
(`At`) names the source token that runs next from the position in the block; branches
over empty blocks are stutters. Conditions are not interpreted, so both ways of every
branch are explored. A body with statements behind a `RETURN` gives a well-formed
function only if these emit nothing and the `RETURN` ends a branch or the body (see
`TerminatedOnce`); such bodies are executed, the others are not.

### RecordTypes

A record type is its index in the order of declaration, a procedure with a receiver or a
prototype its index in `procs`. The actions are the Sema functions in the order the
parser may call them: `DeclareRecord` (with the prototypes of the body), `BindMethod`
(which is `Implement`, `BindAgain` or `BindNew`), `CallMethod`, `TestType` (`IS`, which
gives both types a tag), `EndModule`. The helpers
of `AST.h` (`collectMethodSlots`, `lookupMethod`, `getMethodSlot`, `isExtensionOf`) are
operators of the same names, written with recursive functions. Signatures are opaque values, compared as `hasSameSignature`
compares them. Fields, bodies and plain procedures are left out.

### ObjectModel

Types are constants. The assumptions `TagsFollowExtension`, `MethodsNeedTags`,
`SlotsExtendBase` and `SlotsBound` are what `RecordTypes` shows Sema to establish
(`DescriptorsFit`, `DispatchFinds`); `DeclaredBeforeUse` says that a declaration names only
earlier ones, so that no value contains itself. `Layout` gives the type of every part of a
value by the path that leads to it (`convertType`), `ZeroValue` the parts whose descriptor
the initial value sets (`getZeroValue`); both are recursive functions on the types. An
object has a declared type and, for each tagged part inside, the descriptor stored there. A designator is an object, a path into it, and
the static type the code has for it. Actions: assignment (the memcpy of the whole
struct), passing by VAR (a view with the formal's type) and by value (a copy), method
call (slot of the static type, table of the descriptor in the object), return. Each
procedure has one parameter and one local variable of the parameter's type.

### Expressions

The parser calls Sema in postfix order, so the state is the stack of what its functions
hold (`held`). Of a tree only what its user can look at is kept: the node at the root, the
type Sema gave it, the kind of LLVM value `emitExpr` returns for it (`value`), and beside
it the type `docs/design.md` 7.3 and 7.5 give it (`meaning`). Expressions of every depth
are covered this way by finitely many states. Each action is one `actOn...` function with
the `emitExpr` or `emitLValue` that belongs to its node.

Sema omits some checks: `+`, `-` and `OR` are not looked up for their operands (though
7.3 of the document says all operators are), comparisons are passed for aggregates, a null
operand, argument, target or condition is dropped without a report, and a component of a
constant may be assigned to. A tree that owes its acceptance to one of these is `loose`;
the operators that make it so name them one by one, and everything else is compared
exactly.

Types are constants. `SameAs` and `BasesOf` are `isSameType` and `isExtensionOf`, recursive
functions over the tables of types; `Meaning` is the reference: the dimensions of an array,
down to the scalar or record that is its element. The assumptions say that a type is of
one sort (`TypesDiffer`), that the tables refer to types there are (`TablesTyped`), and
that a declaration names only types declared before it (`DeclaredBeforeUse`), since they
are looked up while it is parsed.

### Lexer and LexicalGrammar

Characters are representatives of the classes the code tells apart. `next` is one action
per case of the code, the loops inside are `Skip`; a comment is scanned delimiter by
delimiter, with `Level` and the character `comment()` looks at. `LexicalGrammar` describes
tokens and comments as sets of character sequences, without scanning.

### Parser and Language

A parse function is a list of items: ask for a token (`Expect` reports a missing one,
`Consume` does not, `Read` takes a token that is `expect`ed and then `advance`d over), move
on, call, loop, choose, return. Its handler is the set of tokens it skips to. The tokens
`;` and `,` are named "semi" and "comma". The 28 functions are the table `Functions`, in the order of
`Parser.cpp`; the machine that runs them keeps what the active functions still have to
do in `todo`. What Sema is told is left out, names are declared and of the right kind
(`M` names a module), except where the parser itself depends on the answer: the `Decl *D`
a type leaves behind (`given`), which two callers do not initialise.

`Language` is the grammar of `docs/design.md` 6.2 as data. `FollowsRules` says what its
rules mean: where a phrase that starts at a token can end, given where its parts can. Where
phrases end is the constant `EndsAt`; that it follows the rules is the hypothesis of the
proofs. For TLC, `MCParser` has a recursive recogniser, `GrammarEndsAt`, and the assumption
`GrammarEndsAtFollowsRules` checks it against the rules, for all phrases of the grammar on
the modules without a mistake. The grammar follows the text of the document in three places where the grammar is narrower: the
last field and a prototype may go without a semicolon, a method call may be a statement.

### Declarations and Compilation

`Declarations` has what `Parser` leaves out: every parse function that declares something,
with the `EnterDeclScope` it holds (`active`), the scopes, `CurrentDecl`, and the
declarations in the order of creation. A declaration is never removed from `decls` but
marked as no longer `live` when its owner is destroyed: a duplicate at once, a procedure
whose parse function gives up with all it encloses, the declarations of a module that is
given up. Looking at a dead one sets `stale`, where the behaviour stops. The body of a
procedure is the set of names its statements use.

`Compilation` puts the driver around it: read, parse, stop on errors, the three passes of
`CGModule::run` (procedures, variables, bodies), write, exit. Functions are found by the
symbol `mangleName` makes, as in the LLVM module. Several procedures can have one symbol,
since the names of the enclosing procedures do not tell methods from procedures, and then
the first that asks for it (`Asking`) gets the function. While procedures are declared
that is the first declaration (`First`); while a body is emitted it depends on the order
of its statements, which the model does not keep, so any procedure the body calls may be
the first. Procedures nested in others are declared
when they are called and never emitted (`docs/design.md:1647` says they are rejected by
`report_fatal_error`; no code does that, the symbol stays undefined), and neither are the
statements of the module. Facts of the driver that are visible here: a file that cannot
be read ends in a crash, since its buffer is moved out of an `ErrorOr` without one, and a
failed write leaves the exit code 0. The module's own name is never entered in a scope,
so the branch of `actOnQualIdentPart` for qualified names is never taken.

## 3. What the runs check

| Run | Expect | Question |
|---|---|---|
| `block_emission` | pass | Is every statement list turned into closed, once-sealed blocks? |
| `ssa_construction` | pass | Are phis complete, minimal and never stale? |
| `ssa_erased_phi` | violation | Is no erased phi ever dereferenced? |
| `ssa_execution` | pass | Does the function do what the body says? |
| `record_types` | pass | Do tags, tables and calls of an accepted module fit together? |
| `object_model` | pass | Do descriptors, views and dispatch stay sound? |
| `expressions` | pass | Do Sema, CodeGen and the language agree on expressions? |
| `aggregate_element` | violation | Is every aggregate represented by its address? |
| `lexer` | pass | Are tokens and comments what the language says, and does the lexer stay in the file? |
| `parser` | pass | Does the parser accept the language, only the language, and end? |
| `unknown_character` | violation | Does the parse of a file with an unknown character end? |
| `compilation` | pass | Do names, calls and exit codes mean what they should? |

**`block_emission`** takes all bodies of at most 6 tokens (`MaxTokens`). Six tokens hold an
`IF` with both branches filled, a `WHILE` in a `WHILE`, and `RETURN` in each position;
what longer bodies add is proved (section 5). `SealedExactlyOnce` joins the assertion of
`sealBlock` and that nothing is left unsealed; `SealedPredsFixed` is the fact
`readLocalVariableRecursive` relies on; `TerminatedOnce` says that every block gets its
terminator and precisely when the generator puts one into the middle of a block: only
behind a `RETURN` that is not the last statement of a branch or of the body. In
particular, a `RETURN` at the end of a loop body is such a case, because the back edge is
added whatever came before. `ClosingDiscipline` relates terminators to the order of
sealing and entering on the way: no block is sealed before it has its terminator or
entered when it has one, and between statements the block in hand ends in a terminator
only if a `RETURN` was emitted into it and only assignments since. That is what the test
for a terminator before the branch behind an `IF` has to tell.

**`ssa_construction`** takes bodies of up to 7 tokens over a local variable `x` and a
parameter `y`: up to 5 arbitrary tokens (`MaxTokens`) between a definition of `x` and a
use of it, shorter ones where `x` is read unassigned, and some where it comes from and
goes to a module variable. That is enough for a loop in a branch or a branch in a loop
with copies between the variables, hence for phis of both variables in one block, phis
that are operands of one another, and chains of candidates. All orders of
`IncompletePhis` are explored. The properties hold up to the first use of freed memory;
**`ssa_erased_phi`** shows that there is one. `ReplacedEverywhere` and `FilledWhenSealed`
relate the phi table to all references, use lists, edges and seals; `IterationUndisturbed`
is about `sealBlock`'s loop, which runs over a map while the code it calls creates phis.

**`ssa_execution`** adds a third variable, conditions that read variables, an exchange of
two variables in a loop (phis that must be evaluated at once), and two nested loops; and
bodies of up to 3 tokens (`MaxMemTokens`) and three uses behind them in which local
variables are passed to VAR parameters, with a module variable `g` and a VAR parameter `p`
that may stand for it. Data values are 0 and 1, enough to tell a wrong operand from the
right one, since a definition may give either. A body that names neither `g` nor `p` is
executed with one choice of what they are (`Explored`), the others with every one.

**`record_types`** takes 3 record types, 3 procedures or prototypes (at most 2 in one
record), 2 method names, 2 signatures, and one call (`MaxRecords`, `MaxProcs`, `MaxProtos`,
`MaxCalls`): a chain of three extensions or two extensions of one base, overrides in either
order, prototypes before and after. Names and signatures are interchangeable, so symmetry
is used. Behaviours end at the first error, since no code is made then.
`CallsKeepSignature` has an exception, `BoundEarly`: an override that is bound before the
method it overrides is never compared with it. `docs/design.md` 10.5 has every override
compared, and 10.2 calls this order of declaration legal. So the document's rule fails in
the code, and no property states it; `CallsKeepSignature` is about every other order.

**`object_model`** has a base, an extension with a field that is itself a tagged record,
and an array of records, and up to 2 active calls. `copied` becomes true when a record is
copied from or to an object whose declared type differs from the static type;
`SoundUntilCopied` (true descriptors and dispatch) holds until then, since such a copy
also copies the descriptor, after which `IS` answers for another type than the variable
has; `ViewsFit` and `NoNullTag` hold throughout. A tagged record inside a record without a
tag, or in an array of arrays, gets no descriptor, as `getZeroValue` (`CGModule.cpp:113`)
does not look further, although `docs/design.md` calls its loop over the fields recursive.
No property counts that as an error; `NoNullTag` and `SoundUntilCopied` say what is true then as well:
which descriptors may be missing, and that a call leaves its table before any mixed copy
only in a program where one is. Every tagged record of this instance lies in a tagged one
or in an array of tagged ones, so no descriptor may be missing in it.

**`expressions`** has two arrays of the same shape and a third, an array of arrays and one
of records, a record with an extension, an alias, and procedures with value and VAR
parameters and aggregate results. At most 3 expressions are held at once (`MaxHeld`),
which is what a statement with two operands or a call with two arguments needs; deeper
nesting repeats these states. A loose expression is followed with at most one other held
(`Explored`), since nothing is claimed of what is made of it. `AcceptedMeans` and
`MeantIsAccepted` compare Sema with the language in both directions, `EmissionFits`
compares the LLVM value with what the type calls for, except that the element of an array
of records may be a struct in place of an address, and what uses one where its address
belongs may be anything: **`aggregate_element`** shows what becomes of that.

**`lexer`** takes every file of up to 5 characters (`Longest`; 7 for comments) over the
characters of numbers, of strings, of comments and of names, and of up to 3 (`Mixed`) over
15 kinds of character together. Five characters hold a real with sign and exponent, a
range between numbers, and a hexadecimal number followed by something else; seven hold a
comment in a comment. Files of up to 6 characters of comments have NUL among them: `next`
and `comment` take the first NUL for the end of the file, and the properties judge by that
end. `TokensAsSpelled` and `CommentsAsNested` compare with `LexicalGrammar`, the latter
apart from comments that end with the file, which the code reports as open. `WithinText` holds except behind a string that is not closed, where the
lexer goes past the terminating NUL (`Lost`).

**`parser`** has six modules that together use every rule (the sixth has an import and a
method with a body inside a record, both of which the compiler rejects), and all
modules that result from leaving out one token or writing one of nine others in its
place. One mistake is enough to enter every handler, and the parse after it meets the
rest of the module in a state the grammar does not describe. `LanguageAccepted` and
`OnlyLanguageAccepted` compare with `Language`: a parse of a module of the language goes
through without a complaint, and where the parser neither reports nor passes a token in
silence, what it has read up to `Tok` is a module. `consume()` does pass over a missing
token in silence, so that some mistakes end with exit code 0 and no output.
**`unknown_character`** shows a parse that does not end.

**`compilation`** takes modules of up to 5 declarations (`MaxDecls`; the built-in type
and the module among them), nested up to 3 deep (`MaxDepth`), over 2 names and the name of the built-in type,
with one use (`MaxUses`), and lets every parse function fail at every point. Five declarations hold two
procedures of the same name in different procedures, a duplicate, a name that hides an
outer one or a built-in type, a constant that mentions a procedure, and a method whose
procedure was freed. A parse that has both reported and passed over a mistake is not
followed: each alone already gives the weaker promise. `NamesMeanVisible` compares the
scope stack with the nesting of declarations in every state; `StaleOnlyAfterReport` says
that freed declarations are read only in modules with a reported error;
`CalledIsDefined` and `ExitTellsOutput` follow procedures and diagnostics through all
stages. `CalledIsDefined` promises of a procedure in a procedure only that calls of it do
not reach the body of another: two of them can share a symbol, and neither has a body.

No run turns the deadlock check off: a state in which the component has finished
stutters explicitly (`Terminated`, `Stopped`, `Over`, `Done`, `Halt`, `Lost`).

## 4. Fairness

`SSAConstruction` and `Parser` assume weak fairness of the disjunction of all their steps
(`WF_allVars(Construction)`, `WF_vars(Step)`): one thread runs the code and does not stop
by itself, so as long as there is a next statement it is executed. No fairness is
assumed of any single action, so termination (`ConstructionEnds`, `ParseEnds`) follows
from the code making progress and not from the scheduler avoiding a loop. The other
modules assume none. That `emit` ends is no question, since it walks a finite tree;
whether the reads it triggers end is one, and that is `ConstructionEnds`. `Lexer` is asked
for tokens by the parser, and what becomes of that is `ParseEnds`. `RecordTypes`,
`Expressions` and `Compilation` depend on the file that is read and `ObjectModel` on the
program that runs; nothing needs to happen there.

## 5. What is proved

All safety properties of `BlockEmission` are proved for **every** set of bodies of any
length, well nested or not. The one assumption on the constant `Programs` is that a body
is a sequence (`ProgramsAreSequences`), and only the part of `TerminatedOnce` about
`RETURN` uses it.

The first part of `SSAProofs`, about `BlockEmission` alone:

* `TypeCorrect`: `Spec => []TypeOK`.
* `Discipline`: `Spec => [](TypeOK /\ SealingDiscipline)`.
* `SealedExactlyOnceHolds`: the assertion of `sealBlock` cannot fire, and at the end every
  block is sealed (`SealOnceHolds`, `AllSealedAtEndHolds`).
* `SealedPredsFixedHolds`: no step gives a sealed block another predecessor.
* `Closing`: `Spec => []ClosingDiscipline`, also for bodies with assignments that emit
  nothing.
* `TerminatedOnceHolds`: at the end every block has its terminator
  (`EveryBlockTerminatedHolds`), and a block gets something behind it only in a body with
  a `RETURN` that is not the last statement of a branch or of the body
  (`BrokenOnlyByReturnHolds`).

Its second part, for every set of bodies over any declarations (`ProgramsUseVariables`,
`ParamsAreDecls`, `KindsDiffer`):

* `SSATypeCorrect`: `SSASpec => []SSATypeOK`.
* `ReplacedEverywhereHolds`: up to the first use of freed memory, no definition, operand or
  recorded use denotes an erased phi, and the use lists agree with the operands.
* `IterationIsUndisturbed`: `sealBlock`'s loop runs over a map nothing is added to.
* `FilledWhenSealedHolds`: up to the first use of freed memory, a phi waits empty until its
  block is sealed and then has one operand per predecessor.
* `NoTrivialPhiLeftHolds`: if no freed memory was used, no phi that a single value could
  replace is left in a function that has been emitted.
* `FillingInvariant`: `SSASpec => []FillingInv`, on which these two rest.

`RecordTypesProofs`, for any number of record types, procedures, prototypes and calls over
any names and signatures; the assumption (`Bounds`) is that the bounds are numbers:

* `TypeCorrect`: `Spec => []TypeOK`.
* `DescriptorsAlwaysFit`: a record has a tag wherever a descriptor is asked for, and a
  descriptor starts with the slots of its base.
* `DispatchAlwaysFinds`: a method call of a compiled module finds an implementation of its
  name, of the type of the object or one it extends, in the slot the code looks at.
* `CallsAlwaysKeepSignature`: it has the signature the call was emitted with, unless the
  name was bound to an extension before it was bound to its base.
* `Invariant`: `Spec => []IInv`, on which these rest.

`CompilationProofs`, for every set of names, number of declarations and depth of nesting;
the assumption (`Bounds`) is that the built-in types are finitely many of the names and
the bounds are numbers:

* `TypeCorrect`: `Spec => []TypeOK`.
* `NamesMeanVisibleHolds`: wherever the parser is, and whatever errors came before,
  `lookup` finds what the nesting of declarations says.
* `StaleOnlyAfterReportHolds`: the compiler reads a freed declaration only after it has
  reported an error.
* `CalledIsDefinedHolds`: a call of a procedure of the module is linked to that procedure,
  which has its body, and the code generator gives up on no variable.
* `ExitTellsOutputHolds`: exit code 0 and output imply each other, unless a mistake passed
  in silence or the output could not be written, and the output has all the procedures the
  module begins. `OutputMeansSuccessHolds` is the half of it without exceptions.
* `Invariant`: `Spec => []CompInv`, on which these rest.

`LexerProofs`, for every set of files of any length and content and every set of keywords;
the assumptions are that a file ends in NUL (`TextsEndInNul`, what `MemoryBuffer`
guarantees) and that a keyword is spelled like a name (`KeywordsAreNames`, true of those
in `TokenKinds.def`):

* `TypeCorrect`: `Spec => []TypeOK`; what the lexer looks for with a loop is in the file.
* `WithinTextHolds`: the lexer reads nothing behind the file, except behind a string that
  is open at its end.
* `TokensAsSpelledHolds`: a token that is not reported is one of the grammar, of its kind,
  and the longest that begins there, but for the point of a range.
* `CommentsAsNestedHolds`: between tokens lie white space and whole comments, however
  deep they nest, and no closed comment is reported unless it ends with the file.
* `Invariance`: `Spec => []LexerInvariant`, on which these rest.

`ExpressionsProofs`, for every table of types, set of procedures and depth of expressions
(the assumptions are those of the module):

* `TypeCorrect`: `Spec => []TypeOK`.
* `SameTypeIsSameMeaning`: `isSameType` holds of two types exactly if they have the same
  structure, so it is an equivalence, whatever aliases they are reached through.
* `AcceptedMeansHolds`: what Sema accepts has the type the language gives it, unless it is
  loose.
* `MeantIsAcceptedHolds`: what the language gives a meaning, Sema accepts.
* `EmissionFitsHolds`: a statement that has a meaning is emitted with values of the kinds
  LLVM asks for, except for the aggregates named in section 3.
* `Invariance`: `Spec => []ExprInv`, on which these rest.

`ObjectModelProofs`, for every set of type declarations, every nesting of records and arrays
and every number of active calls (the assumptions are those of the module):

* `TypeCorrect`: `Spec => []TypeOK`.
* `TagsMissing`: a descriptor is missing only where a record with the same ultimate base
  occurs in a type that is zeroed as a whole.
* `SoundDispatch`: until a record is copied between objects of different declared types,
  `IS` answers for the declared type, and a method call leaves its table or gets a receiver
  that is too small only if some record never got a descriptor.
* `ViewsHold`: the type a variable is seen as is that of what is there, or a base of it,
  however often it was passed on as VAR parameter or receiver.
* `SetEverywhere`: where no type that is zeroed as a whole holds a tagged record, no
  descriptor is ever missing, and only a copy of mixed types can lead a call astray.
* `ObjectInvariance`: `Spec => []ObjectInv`, on which these rest.

`ParserProofs`, for every set of inputs of any length, right or wrong; the assumption
(`InputsAssumption`) is that an input is a sequence of tokens:

* `TypeOKHolds`: `Spec => []TypeOK`; every active function has its marker on the stack, and
  the outermost is that of the module.
* `OnlyLanguageAcceptedHolds`: a parse in which no token was missing and nothing was
  reported has read, up to `Tok`, a module the grammar derives.
* `TrackInvariant`: `Spec => []TrackInv`, on which this rests.

The last two have the hypothesis that `EndsAt` follows the rules of the grammar at every
place of every input. It holds of the least such relation, what the grammar derives, and
only of relations that contain it; so the theorem says what it should for the grammar.

`SealOnce`, `AllSealedAtEnd` and `SealedPredsFixed` are not inductive. That a block about
to be sealed is not sealed yet depends on which blocks the enclosing statements still hold
in their C++ locals and on these being different from each other and from the current
block. `SealingDiscipline` states that: every block is sealed, held by an open `IF` or
`WHILE`, or in hand (`Curr`, `next`, outstanding in `sealing`), and no block has two of
these roles, except the block of a `WHILE`'s condition while the condition is emitted.
Frames hold blocks in the order of their creation (`FramesNest`), which is what makes
the blocks of different frames distinct. The proof has one lemma per shape of step:
pushing a frame, popping it, changing the top, sealing, entering a block, finishing.
`SealOnce` and `AllSealedAtEnd` then follow from `SealingFresh` and `NoneLost`, and
`SealedPredsFixed` from the fact that edges only go to new or to held blocks.

Terminators need a second invariant, `ClosingDiscipline`, on top of the first: a block is
terminated before it is sealed and not before it is entered; the blocks a frame has still
to enter are open, and the condition block of a `WHILE` is closed once its body is begun;
between two statements the block in hand is terminated only if a `RETURN` was emitted
into it and nothing but assignments since (`BehindReturn`). The first invariant is what makes it inductive: a statement terminates only
`Curr`, and `CurrOpen` and `CondFirst` say which held block, if any, that is
(`CurrNotHeld`). `EveryBlockTerminated` follows because at the end every block is sealed,
and `BrokenOnlyByReturn` because the step that breaks a block finds `Curr` terminated, so
that behind the `RETURN` of `BehindReturn` stands an assignment or the present token: it
is the one the property asks for.

Every step of `SSAConstruction` is a step of `BlockEmission` or leaves it alone
(`SkeletonStep`), so `Discipline` carries over, and the rest builds on it in three layers.
`SSAInv` types the activations as well as the tables: each refers to blocks and phis there
are, and `addPhiOperands` waits for a value only while it has a predecessor left. What a
list of activations may look like is shown once, for an activation that goes on as others
(`TypesGoOn`) or returns (`TypesReturn`).

`References` says where a phi may still be found: no definition, operand or use denotes
an erased one, and a phi stands in another's use list as often as it is its operand.
Erasing a phi is the one step that endangers this: it rewrites the definitions, operands
and uses, and the lemmas at the head of `SSAProofs` count what becomes of the use lists, which
are filtered, reversed and joined. `Without` is a recursive function; what it does is shown by taking a
least position at which the claim fails. `NoDangling` is false (`ssa_erased_phi`), so
`References`, like the property, is about states in which no erased phi was reached.

`FilledWhenSealed` needs to know which activations there are. `SealStack` says that
`sealBlock` is the outermost one, that the phis it has left are noted in its block, and
that all activations within it are about variables its block defines. So whatever they
read, they find it there at the latest, and never note another phi: `IterationUndisturbed`.
`Filling` then has five parts: a phi that waits is alive, empty, and no activation will
come back to it (`WaitsAlone`); a phi of an unsealed block is noted (`UnsealedNoted`); what
a phi being filled has, followed by what it lacks, is the list of predecessors, and one
activation at most fills it (`FillsFit`); every phi alive waits, is being filled or is
complete (`AllComplete`); and a phi that a single value could replace waits, or is that of
an activation that will come back to it (`TrivialPending`). That nobody comes back to a waiting phi holds because the
candidates of `optimizePhi` have an operand, by `References`, and a waiting phi has none.
That complete phis stay complete is `SealedPredsFixed`. A phi turns trivial only when one
of its operands is replaced, and then it was in the use list the candidates are taken
from: `UsersCount` of `References` says so in numbers. At the end every block is sealed, so
nothing waits, and no activation is left (`SealsLast`); so nothing is pending, and
`NoTrivialPhiLeft` follows.

What Sema knows of records is computed anew from the tables each time it is asked:
`IsExtensionOf`, `Slots` and `Kept` are recursive functions, and every step changes the
tables they read. `RecursionLemmas` shows once, by least counterexample, that such a
function has values and satisfies its equations (`AlongLinks`, `RecursionSolved`,
`StepByStep`), which also serves the nesting of declarations and the tables of types below; `RecordTypesProofs` derives from it that extension is transitive, that
putting methods into slots one by one keeps the names that were there and adds each new
name once, and that records declared earlier do not change their meaning when one is
added. The invariant `IInv` builds on that. `Structure` is `TypeOK` and two facts about
method tables: a table holds methods of its own record, each name once, and prototypes only
as long as they have no implementation. `TagsFit` says who carries a tag. `AllBound` says
that, until an error is reported, an implementation stands in the table of its type, so
that nothing a call may mean is missing from it; `AllImplemented` that a compiled module has
no open prototype; `CallsFit` that a call was resolved to a method of a type its static
type extends. `SignaturesFit` says that whoever is bound first to a type under a name, and
overrides what a type further up had by then, has its signature. The properties are not
inductive without these: a method bound to a base after a call was resolved changes what
every extension finds.

`StaleOnlyAfterReport` needs three things to be inductive (`DeclInv`). What the parser
looks up must be a declaration, live or dead, or none, so scopes, active functions and
the method table must hold indices of `decls`, and there is one scope more than active
functions. Declarations that are freed while the parser goes on must have been reported:
a duplicate, a bad heading and a missing name behind `END` all are. The exception is a
module that is given up because `consume` missed a token, which frees without a report;
`FreedOnlyAfterReport` allows it because no function is active any more and the module
has begun, so that no action that looks anything up can follow. The proof has one lemma
per way in which declarations, scopes and active functions change, and one per action
that puts these together (`Combined`).

`NamesMeanVisible` compares two things that are kept in different ways: the scope stack,
which every parse function pushes and pops, and the links from declarations to what
encloses them, which only grow. `NamesInv` relates them. The i-th scope belongs to the
(i-1)-th active declaration (`Holder`) and holds, under each name, the first declaration
of that name there (`ScopesMean`); as active declarations are nested in one another,
searching the stack from the top is searching the enclosing declarations from the inside
(`AroundHolders`). It is inductive together with `Nesting`, which says what may enclose
what. A declaration joins the last scope and the present declaration at once
(`AddedKeepsNames`), a new scope belongs to something that encloses nothing yet
(`PushedKeepsNames`), and leaving one removes scope and holder together, on error paths as
well (`LeaveKeepsNames`). A procedure that is freed keeps its entry and its place, so that
freeing changes neither side (`PersistFreed`).

The other parts of `NamesInv` are for the code generator. Until an error is reported,
procedures of one place have different names (`ProceduresDiffer`), methods are in the
method table, which has each name once (`MethodsBound`), and a finished module is complete
or, after a mistake that passed in silence, empty (`AllOrNothing`). Names used in
statements or mentioned by constants were visible there (`UsesVisible`,
`MentionsVisible`).

`CompInv` adds how far `main` can be with what was parsed and reported (`MainInv`) and
what the passes that are done have left (`CodeInv`): each procedure of the module has the
function of its symbol, with a body once it is emitted, and no other function has a body
(`CodeLinked`). Resolving another procedure disturbs this only if that has the same symbol.
`SymbolsDiffer` excludes it in a module without errors: symbols of procedures of the
module have two parts and those of nested ones at least three, and two that are equal
belong to procedures, or methods, of one name in one place. That no variable is out of
reach follows from `UsesVisible` along chains of constants (`MeantVisible`): what is
visible in a procedure of the module and is a variable belongs to it or to the module.

`WithinText` rests on two facts. Scanning stops within the file, since NUL is in none of
the sets of characters that are skipped (`SkipEnds`); and a character that is not NUL is
not the last, so whatever looks one character ahead may do so (`NotLast`). The invariant
`LexInv` adds that reports lie before `CurPtr`, which is what keeps an earlier report from
being taken for one about the open string.

The other two properties compare the lexer, which counts positions, with a grammar of
sequences. The lemmas `...Shape` say once what each rule of the grammar is by position.
`TokensAsSpelled` is a statement about each token by itself, which more reports do not
harm, so that only a new token matters. What could go on where it ends is told by its
first character (`FirstTells`): behind a run of digits only an `H` or a point
(`BehindDigits`), behind a fraction only a scale factor with digits (`ScaledReal`).
`CommentsAsNested` needs an invariant inside the loop of `comment`. `CommentRead`: the
depth of the grammar, which counts all delimiters from the first character of the comment,
is `Level`; it has not been 0 before; and the delimiter at `End - 1` has been counted or
does not count, so that the star of an opening is not taken for a closing. Then the
comment that closes is a whole one (`ReadWhole`), and one in which the file ends has no
part that is (`ReadNone`). `BlankSoFar` says of the part behind the last token what
`GapsAreBlank` says of the parts before each, or that the lexer is at the end of the file.

The attempt to prove `CommentsAsNested` corrected it. It used to look for the end of an
open comment at the last character of the file; with a NUL in the middle, the lexer is done
before that, and a comment that closes behind this NUL was reported as open, rightly.

The properties of `Expressions` are about whole constructs, but what an operator does
depends on its operands. `ExprInv` therefore says of every expression that is held what the
action that uses it has to know (`Understood`): an expression Sema gave up is loose; one
that has a meaning has a type with this meaning; its value has the form of its type, unless
it was spoiled before; and what the language calls a variable is one for Sema, or part of
one. Then there is one lemma per action. Those that combine two types need
`SameTypeIsSameMeaning`, which is shown in both directions by recursion over the tables of
types (`LinkedRecursion`), through aliases first and then from arrays to their elements;
calls need it for each argument in turn (`ArgumentsAgree`). The attempt showed that guards
of a `CASE` in the model overlapped, so that it did not say which value they meant; they
are disjoint now.

`ObjectModel` computes with paths into values whose shape the declarations decide.
`RecursionLemmas` has, for this, recursion over trees: where every set of types has one
that names none of the others, a function defined by what it is on the components has
values (`TreeRecursion`), and what holds of a type if it holds of its components holds of
all (`FoundedInduction`). From the equations of `Layout` follow the two facts the rest
stands on. The parts of a part are the parts at the joined path (`LayoutComposed`); and an
extension has, at the same paths, all the parts of its base, with the same types but for
itself (`LayoutExtended`). So a designator whose static type is a base of what is there
(`ViewFits`) finds there whatever it may ask for (`ViewLayout`), and a component of it is
such a designator again (`PartFits`).

`ObjectInv` says of every descriptor that it belongs to the family of its place, that is,
has the same ultimate base, and equals its declared type as long as no copy mixed types
(`Proper`). This is inductive because both sides of an assignment have one static type:
what is at a path from it has, on both sides, a type of the family of what the static type
has there. `ObjectInv` also says that all views fit, and that whatever an active call refers
to lies below the objects of the calls it has made (`Stacked`), so that returning leaves no
view behind. A method call keeps to this without knowing which descriptor it met: the
callee takes its receiver for the type its method is bound to, which the model requires of
a call that is not lost. That calls are not lost while descriptors are true is
`CallMethodKeeps`: the descriptor is that of an extension of the static type, which has all
its slots, bound to types it extends. `TagsMissing` speaks of families and not of types,
because a copy carries a missing descriptor to every place of the family.

What `Parser` keeps is one stack of items, of all active functions. That it is well formed
(`TypeInv`) takes more than `TypeOK`: an item stands for code, so what it calls, loops over
or chooses from must be such items again, to any depth (`WellFormed`, as membership in a set
of lists that has the lists inside its lists); the last item is the module's marker; and all items of other functions have a marker of
their own above it, so that nothing returns to nobody (`Homely`).

`TrackInv` is about parses without a fault so far: the items on the stack form a chain of
sets of places in the input (`Tracked`). `Tok` is in the first set, every item leads from
each place of its set to the next set, at a marker the next set is that of the places the
caller goes on from, and the last set is where a module can end. Once something has been
missing or reported nothing is asked, so a recovery needs no proof that it finds its way
back, with one exception: the empty statement. It is accepted through `ERROR` and
`skipUntil`, without a report, and stays on track because the skipping finds a token it
looks for at once. The main work are the lemmas `Of...`, one for every parse function: its
items lead from where its phrase can start to where it then can end. A loop needs a set
of places its body comes back to, which is what the repetition in the grammar gives.
Imports and method bodies in records are always reported, so nothing is asked of them
either. `OnlyLanguageAccepted` follows at the end, when the chain has one set left. The
first attempt showed that the property said less than was meant: it only asked for the input
to begin with a module, wherever the parser had stopped. It now speaks of `pos`.

## 6. What is only model-checked

* Liveness (`ConstructionEnds`, `ParseEnds`): fairness and `ENABLED` are out of the
  prover's reach.
* `ImplementsSource`. Its initial states map easily; a step maps to one only if each operand
  has, on the path that was taken, the value its variable was last given. The invariant for
  that relates the value of every definition in every block to the blocks executed so far,
  and must survive phis that are replaced while the function is built. It is not written.
* `LanguageAccepted`, the converse of `OnlyLanguageAccepted`. It holds of the least `EndsAt`
  only, not of everything that follows the rules, so a proof would be by induction over
  derivations; and it needs that one token of lookahead tells the alternatives apart.

## 7. What is not modelled, and why

* LLVM itself (passes, object emission), the C side of the examples, AST dumping,
  message formatting, the driver's options: pure output or outside the repository.
* Constant evaluation (`evalConstInt`, the folding of literals, the values of literals):
  a fold over a tree without state. Its hazards, 64-bit overflow of array bounds and
  literals, are listed.
* The stack that the results of calls take, the order of evaluation inside one statement
  (the language leaves it open), and the numbers of types in symbols.
* The growth of LLVM's `DenseMap` while `sealBlock` holds iterators into it: whether this
  is safe is a property of that map.

## 8. Plan

Done, in this order, because each step rests on the one before: blocks and sealing, SSA
construction and its refinement; records and methods, objects; the parser; variables in
memory; the lexer; expressions; scopes and declarations; the compiler as a whole. What is
left:

1. **Proofs.** `SSAExecution`: the safety part of `ImplementsSource`, that every step maps
   to a step or a stutter. `Parser`: `LanguageAccepted`, with derivations as trees in place
   of `EndsAt`.
2. **Constant evaluation** with 64-bit integers, if array bounds ever meet the rest of
   the model.
3. **RecordTypes:** VAR in signatures, which today no code looks at.
