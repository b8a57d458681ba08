---------------------------- MODULE Compilation ----------------------------
(***************************************************************************)
(* One run of the compiler: the driver reads the file, the parser and Sema *)
(* work through it (Declarations), CGModule::run goes three times over the *)
(* declarations of the module, and the driver writes the result and ends   *)
(* with an exit code.                                                      *)
(*                                                                         *)
(* A function of the LLVM module is found by its symbol; "functions" says  *)
(* which procedure each symbol was made for and whether it got a body.     *)
(***************************************************************************)
EXTENDS Declarations

VARIABLES
  stage,      \* what main is doing
  functions,  \* symbols to [proc, body]
  globals,    \* the module variables that have storage
  todo,       \* the procedures whose bodies are still to be emitted
  calls,      \* the procedures called by the code emitted so far
  fatal,      \* report_fatal_error: the compiler has given up
  output,     \* what has become of the output: "none", "kept", "failed"
  exit        \* the exit code, once there is one; "crash" if main went wrong

codeVars == <<functions, globals, todo, calls, fatal>>
vars == <<declVars, stage, codeVars, output, exit>>

-----------------------------------------------------------------------------
(* The driver up to the parser. *)

Init ==
  /\ DeclInit
  /\ stage = "reading"
  /\ functions = << >> /\ globals = {} /\ todo = {} /\ calls = {} /\ fatal = FALSE
  /\ output = "none" /\ exit = "none"

ReadFile ==
  /\ stage = "reading"
  /\ stage' = "parsing"
  /\ UNCHANGED <<declVars, codeVars, output, exit>>

\* The error is printed; then the buffer that is not there is moved.
FileUnreadable ==
  /\ stage = "reading"
  /\ stage' = "over" /\ exit' = "crash"
  /\ UNCHANGED <<declVars, codeVars, output>>

\* No MODULE (consume) or no name behind it (expect): there is no module.
NoModule ==
  /\ stage = "parsing" /\ ~Begun
  /\ \/ reported' = TRUE /\ UNCHANGED silent
     \/ silent' = TRUE /\ UNCHANGED reported
  /\ stage' = "parsed"
  /\ UNCHANGED <<decls, scopes, current, active, uses, bound, stale, codeVars, output, exit>>

Parse ==
  /\ stage = "parsing"
  /\ DeclNext
  /\ stage' = IF Parsed' THEN "parsed" ELSE "parsing"
  /\ UNCHANGED <<codeVars, output, exit>>

\* Variant: an error does not keep the compiler from generating code.
EndOfParseRegardless ==
  /\ stage = "parsed"
  /\ stage' = IF Begun THEN "declaring" ELSE "exiting"
  /\ UNCHANGED <<declVars, codeVars, output, exit>>

EndOfParse ==
  /\ stage = "parsed"
  /\ stage' = IF Begun /\ ~reported THEN "declaring" ELSE "exiting"
  /\ UNCHANGED <<declVars, codeVars, output, exit>>

-----------------------------------------------------------------------------
(* CGModule::run. *)

\* Mod->getDecls(): the live ones; duplicates, and those of a procedure or a
\* module that was given up, are gone.
TopLevel(kinds) ==
  {d \in DOMAIN decls : decls[d].encl = Module /\ decls[d].live /\ decls[d].kind \in kinds}
Procedures == {"procedure", "method"}
First(ds) == CHOOSE d \in ds : \A o \in ds : d <= o

\* Variant: the symbol of a nested procedure does not tell where it is nested.
MangleNameFlat(d) == <<[name |-> decls[d].name, bound |-> decls[d].kind = "method"]>>

\* mangleName: the names of the enclosing declarations; methods are told from
\* procedures, except those around a procedure.
MangleName(d) ==
  LET Part(e, bind) == [name |-> decls[e].name, bound |-> bind]
      names[e \in 0 .. Len(decls)] ==
        IF e = Void THEN <<>> ELSE Append(names[decls[e].encl], Part(e, FALSE))
      symbol[e \in 0 .. Len(decls)] ==
        IF e # Void /\ decls[e].kind = "method"
          THEN Append(symbol[decls[e].encl], Part(e, TRUE)) ELSE names[e]
  IN  symbol[d]

\* resolveFunction, getFunction: a function there is, or a new declaration.  Of
\* several procedures with one symbol the first that asks for it gets it.
Asking(ds, symbol) == {d \in ds : MangleName(d) = symbol}
Resolve(fs, asks) ==
  [s \in DOMAIN fs \cup DOMAIN asks |->
    IF s \in DOMAIN fs THEN fs[s] ELSE [proc |-> asks[s], body |-> FALSE]]

DeclareProcedures ==
  LET procedures == TopLevel(Procedures)
      asks == [s \in {MangleName(d) : d \in procedures} |-> First(Asking(procedures, s))]
  IN  /\ stage = "declaring"
      /\ functions' = Resolve(functions, asks)
      /\ stage' = "variables"
      /\ UNCHANGED <<declVars, globals, todo, calls, fatal, output, exit>>

CreateVariables ==
  /\ stage = "variables"
  /\ globals' = TopLevel({"variable"})
  /\ todo' = TopLevel(Procedures)
  /\ stage' = "bodies"
  /\ UNCHANGED <<declVars, functions, calls, fatal, output, exit>>

\* What the statements of a procedure use, through constants where they are
\* used: variables and procedures.
UsedIn(p) ==
  LET meant[d \in 0 .. Len(decls)] ==
        IF d # Void /\ decls[d].kind = "constant" THEN meant[decls[d].mentions] ELSE d
  IN  {meant[u.of] : u \in {v \in uses : v.in = p}} \ {Void}

\* readVariable, emitLValue: variables of this procedure or of the module.
Reachable(p, d) == decls[d].kind = "variable" => decls[d].encl = p \/ d \in globals

EmitBody ==
  LET p == First(todo)
      called == {d \in UsedIn(p) : decls[d].kind \in Procedures}
  IN  /\ stage = "bodies" /\ todo # {} /\ ~fatal
      /\ fatal' = \E d \in UsedIn(p) : ~Reachable(p, d)
      /\ \E asks \in [{MangleName(d) : d \in called} -> called] :
           /\ \A s \in DOMAIN asks : asks[s] \in Asking(called, s)
           /\ functions' = [Resolve(functions, asks) EXCEPT ![MangleName(p)].body = TRUE]
      /\ calls' = calls \cup called
      /\ todo' = todo \ {p}
      /\ UNCHANGED <<declVars, globals, stage, output, exit>>

\* Statements of the module are not emitted.
EndOfCode ==
  /\ stage = "bodies" /\ todo = {} /\ ~fatal
  /\ stage' = "writing"
  /\ UNCHANGED <<declVars, codeVars, output, exit>>

-----------------------------------------------------------------------------
(* The output and the exit code. *)

\* emit(): a failure is printed, and makes no difference to the exit code.
Write(result) ==
  /\ stage = "writing"
  /\ output' = result
  /\ stage' = "exiting"
  /\ UNCHANGED <<declVars, codeVars, exit>>

Exit ==
  /\ stage = "exiting"
  /\ exit' = IF reported THEN "1" ELSE "0"
  /\ stage' = "over"
  /\ UNCHANGED <<declVars, codeVars, output>>

Over == (stage = "over" \/ stale \/ fatal) /\ UNCHANGED vars

Step ==
  \/ ReadFile \/ FileUnreadable \/ NoModule \/ Parse \/ EndOfParse
  \/ DeclareProcedures \/ CreateVariables \/ EmitBody \/ EndOfCode
  \/ \E result \in {"kept", "failed"} : Write(result)
  \/ Exit
Next == Step \/ Over

Spec == Init /\ [][Next]_vars

-----------------------------------------------------------------------------
Symbols == {MangleName(d) : d \in {e \in DOMAIN decls : decls[e].kind \in Procedures}}

TypeOK ==
  /\ DeclTypeOK
  /\ stage \in {"reading", "parsing", "parsed", "declaring", "variables", "bodies", "writing",
                "exiting", "over"}
  /\ DOMAIN functions \subseteq Symbols
  /\ \A s \in DOMAIN functions : functions[s] \in [proc : DOMAIN decls, body : BOOLEAN]
  /\ globals \cup todo \cup calls \subseteq DOMAIN decls
  /\ fatal \in BOOLEAN
  /\ output \in {"none", "kept", "failed"} /\ exit \in {"none", "0", "1", "crash"}

\* In a module without errors every call of a procedure of the module is linked
\* to the procedure the name stood for where the call was written, and that has
\* its body; a procedure inside another is never emitted, and no call of it is
\* linked to the body of a procedure it does not mean.  And no statement makes the
\* code generator give up on a variable.
CalledIsDefined ==
  /\ ~fatal
  /\ stage = "writing" => \A d \in calls :
       IF decls[d].encl = Module
         THEN functions[MangleName(d)] = [proc |-> d, body |-> TRUE]
         ELSE ~functions[MangleName(d)].body

\* "Checks syntax and semantics; if there is an error, diagnostics are printed
\* and 1 is returned" (docs/design.md 2.4): there is output only if nothing was
\* reported, and then the compiler says so, although the module goes on being
\* looked at, and reported upon, by the parser after the first error.
OutputMeansSuccess == stage = "over" /\ output = "kept" => exit = "0"

\* And the other way round: if the compiler ends with 0 then all procedures the
\* module begins have their code in the output, unless a mistake passed in
\* silence or the output could not be written.
ExitTellsOutput ==
  /\ OutputMeansSuccess
  /\ stage = "over" /\ exit = "0" /\ ~silent /\ output # "failed" =>
       /\ output = "kept"
       /\ \A d \in DOMAIN decls :
            decls[d].kind \in Procedures /\ decls[d].encl = Module =>
              functions[MangleName(d)] = [proc |-> d, body |-> TRUE]
=============================================================================
