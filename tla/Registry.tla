------------------------------ MODULE Registry -------------------------------
(***************************************************************************)
(* What a process knows of the program it runs: the classes, methods and   *)
(* instances of decorators.ts, the descriptors of invoke/registry.ts, and  *)
(* the statements of a program that fill both.                             *)
(*                                                                         *)
(* A statement maps a registry to the one it leaves.  One that throws      *)
(* leaves what it had written, marked as thrown.                           *)
(***************************************************************************)
EXTENDS Naturals, FiniteSets, Functions

CONSTANTS
  Fns,      \* the functions of the program
  Ctors,    \* its classes
  Names,    \* names of functions and classes
  NoFn, NoCtor, NoName,
  Blank,    \* the empty name, of the functions outside of all classes
  FnName,   \* the name a function, or a class, has in the source
  FirstPart \* what is left of a name cut at its first hyphen

ClassNames == Names \cup {Blank}

ASSUME RegistryAssumption ==
  /\ FnName \in [Fns \cup Ctors -> Names \cup {NoName}]
  /\ \A c \in Ctors : FnName[c] # NoName
  /\ FirstPart \in [Names -> Names]
  /\ NoFn \notin Fns /\ NoCtor \notin Ctors \cup ClassNames
  /\ NoName \notin ClassNames /\ Blank \notin Names
  /\ Ctors \cap ClassNames = {}

(* A ClassRegistration is the one of a constructor, or one of a name only. *)
Classes == Ctors \cup ClassNames

Unregistered == [name |-> NoName, cls |-> Blank, reg |-> NoCtor, type |-> "none"]

EmptyRegistry ==
  [ctors |-> [c \in Ctors |-> NoName],         \* classesByCtor: the alias
   named |-> [n \in ClassNames |-> NoCtor],    \* classesByName
   title |-> [c \in Classes |-> Blank],        \* ClassRegistration.name
   ops |-> [c \in Classes |-> [n \in Names |-> NoFn]],
   fns |-> [f \in Fns |-> Unregistered],       \* functionToRegistration
   wfs |-> [n \in Names |-> NoFn],             \* the registry of descriptors
   legacy |-> {},                              \* those registerWorkflow made
   instances |-> {},
   launched |-> FALSE, middleware |-> FALSE, threw |-> FALSE]

Throw(r) == [r EXCEPT !.threw = TRUE]

(* The rest of a statement is not reached when a part of it throws. *)
Then(r, Rest(_)) == IF r.threw THEN r ELSE Rest(r)

-----------------------------------------------------------------------------
(* Classes. *)

(* getClassRegistration, which creates: under its own name at first. *)
KnownCtor(r, c) ==
  IF r.ctors[c] = NoName THEN [r EXCEPT !.ctors[c] = FnName[c]] ELSE r

(* getClassRegistrationByName, which creates. *)
KnownName(r, n) ==
  IF r.named[n] # NoCtor THEN r
  ELSE [r EXCEPT !.named[n] = n, !.title[n] = n]

(* getOrCreateClassRegistration: by the name, by the class, or by both;    *)
(* the class has a name of its own already.                                *)
KnownClass(r, c, n) ==
  IF c = NoCtor THEN KnownName(r, IF n = NoName THEN Blank ELSE n)
  ELSE LET known == KnownCtor(r, c) IN
       IF n # NoName /\ known.ctors[c] # n THEN Throw(known) ELSE known

(* The registration that getOrCreateClassRegistration has found. *)
ClassOf(r, c, n) ==
  IF c = NoCtor THEN r.named[IF n = NoName THEN Blank ELSE n] ELSE c

(* registerClassInstance. *)
RegisterInstance(r, c, n) ==
  IF <<c, n>> \in r.instances THEN Throw(KnownCtor(r, c))
  ELSE [KnownCtor(r, c) EXCEPT !.instances = @ \cup {<<c, n>>}]

(* className: over the class's own name, not over another alias. *)
ClassName(r, c, n) ==
  LET known == KnownCtor(r, c)
  IN IF known.ctors[c] \notin {n, FnName[c]} THEN Throw(known)
     ELSE [known EXCEPT !.ctors[c] = n]

(* finalizeClassRegistrations: every class gets its name, which no other   *)
(* class and no registration by name may have, and so do its methods.      *)
FinalizeClasses(r) ==
  LET known == {c \in Ctors : r.ctors[c] # NoName}
      Owner(n) == CHOOSE c \in known : r.ctors[c] = n
      taken == {n \in ClassNames : \E c \in known : r.ctors[c] = n}
      clash == \/ \E c, d \in known : c # d /\ r.ctors[c] = r.ctors[d]
               \/ \E c \in known : r.named[r.ctors[c]] \notin {NoCtor, c}
      Entitled(f) == {c \in known : \E n \in Names : r.ops[c][n] = f}
  IN IF clash THEN Throw(r)
     ELSE [r EXCEPT
             !.named = [n \in ClassNames |-> IF n \in taken THEN Owner(n) ELSE @[n]],
             !.title = [c \in Classes |-> IF c \in known THEN r.ctors[c] ELSE @[c]],
             !.fns = [f \in Fns |->
                        IF Entitled(f) = {} THEN @[f]
                        ELSE [@[f] EXCEPT !.cls =
                                r.ctors[CHOOSE c \in Entitled(f) : TRUE]]]]

-----------------------------------------------------------------------------
(* Methods and functions. *)

(* Mutant: a second function takes the name over. *)
RegisterByNameAgain(r, c, n, f) == [r EXCEPT !.ops[c][n] = f]

(* registerOperationByName: a name belongs to one function. *)
RegisterByName(r, c, n, f) ==
  IF r.ops[c][n] \notin {NoFn, f} THEN Throw(r) ELSE [r EXCEPT !.ops[c][n] = f]

(* getOrCreateMethodRegistration. *)
RegisterMethod(r, c, n, f, name) ==
  Then(KnownClass(r, c, n), LAMBDA s :
    LET reg == ClassOf(s, c, n)
    IN [s EXCEPT !.fns[f] =
          [name |-> name, cls |-> s.title[reg], reg |-> reg, type |-> "none"]])

(* wrapSolidActionsFunctionAndRegister: not to be found by its name. *)
Wrap(r, c, n, f, name) ==
  IF r.launched THEN Throw(r)
  ELSE IF r.fns[f] # Unregistered THEN r ELSE RegisterMethod(r, c, n, f, name)

(* wrapSolidActionsFunctionAndRegisterByUniqueName. *)
WrapByName(r, c, n, f, name) ==
  Then(Then(Wrap(r, c, n, f, name), LAMBDA s : KnownClass(s, c, n)),
       LAMBDA s : RegisterByName(s, ClassOf(s, c, n), name, f))

(* setWorkflowConfig and setStepConfig: once. *)
SetType(r, f, type) ==
  IF r.fns[f].type # "none" THEN Throw(r) ELSE [r EXCEPT !.fns[f].type = type]

(* getClassName: the name the function was given, or its class's. *)
FullName(r, f) ==
  LET m == r.fns[f]
      own == IF m.reg = NoCtor THEN Blank ELSE r.title[m.reg]
  IN [name |-> m.name,
      cls |-> IF m.cls # Blank THEN m.cls
              ELSE IF own # Blank THEN own
              ELSE IF m.reg \in Ctors THEN FnName[m.reg] ELSE Blank]

(* getFunctionRegistrationByName: a class that is not there throws. *)
ByName(r, cls, name) ==
  IF cls \in ClassNames /\ r.named[cls] # NoCtor
  THEN r.ops[r.named[cls]][name] ELSE NoFn

-----------------------------------------------------------------------------
(* The descriptors of invoke/registry.ts. *)

(* resolveWorkflowName. *)
NameOf(f, explicit) == IF explicit # NoName THEN explicit ELSE FnName[f]

(* registerWorkflowDescriptor: again the same run function, or a new name. *)
RegisterDescriptor(r, n, f, legacy) ==
  IF r.wfs[n] # NoFn /\ (legacy \/ n \in r.legacy \/ r.wfs[n] # f) THEN Throw(r)
  ELSE [r EXCEPT !.wfs[n] = f,
                 !.legacy = IF legacy THEN @ \cup {n} ELSE @]

DefineWorkflow(r, f, explicit) ==
  IF NameOf(f, explicit) = NoName THEN Throw(r)
  ELSE RegisterDescriptor(r, NameOf(f, explicit), f, FALSE)

(* registerWorkflow: the method, the descriptor, the invoker. *)
RegisterWorkflow(r, f, explicit, c, n) ==
  LET name == NameOf(f, explicit)
  IN IF name = NoName THEN Throw(r)
     ELSE Then(Then(WrapByName(r, c, n, f, name),
                    LAMBDA s : RegisterDescriptor(s, name, f, TRUE)),
               LAMBDA s : SetType(s, f, "workflow"))

(* The decorators workflow and step. *)
Decorate(r, f, explicit, c, type) ==
  Then(WrapByName(r, c, NoName, f, NameOf(f, explicit)),
       LAMBDA s : SetType(s, f, type))

RegisterStep(r, f, explicit, c, n) == Wrap(r, c, n, f, NameOf(f, explicit))

-----------------------------------------------------------------------------
(* launch and shutdown. *)

(* insertAllMiddleware happens once in a process. *)
Launch(r) ==
  Then(FinalizeClasses(r), LAMBDA s :
       [s EXCEPT !.middleware = TRUE, !.launched = TRUE])

(* registerMiddlewareInstaller. *)
InstallMiddleware(r) == IF r.middleware THEN Throw(r) ELSE r

Shutdown(r) == [r EXCEPT !.launched = FALSE]

(* What a statement of a program makes of the registry. *)
Evaluated(r, s) ==
  CASE s.op = "defineWorkflow" -> DefineWorkflow(r, s.fn, s.name)
    [] s.op = "registerWorkflow" -> RegisterWorkflow(r, s.fn, s.name, s.ctor, s.cls)
    [] s.op \in {"workflow", "step"} -> Decorate(r, s.fn, s.name, s.ctor, s.op)
    [] s.op = "registerStep" -> RegisterStep(r, s.fn, s.name, s.ctor, s.cls)
    [] s.op = "className" -> ClassName(r, s.ctor, s.cls)
    [] s.op = "instance" -> RegisterInstance(r, s.ctor, s.name)
    [] s.op = "middleware" -> InstallMiddleware(r)
    [] s.op = "throw" -> Throw(r)
    [] OTHER -> r

=============================================================================
