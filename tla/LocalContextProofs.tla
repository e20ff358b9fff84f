------------------------- MODULE LocalContextProofs -------------------------
(* The ids of a program's calls.  The programs are plain (IsPlain) and the
   next process has the same version.  Then the place of a call in the text
   decides the function ids it takes, and with them the ids of the workflows
   it starts, whatever was answered from the log before it.                *)
EXTENDS LocalContext, FiniteSetTheorems, TLAPS

(* What the theorem supposes of the constants: plain programs that keep their
   version, and ids of theirs that are neither derived nor random.         *)
PlainPrograms == \A p \in Programs : IsPlain(p) /\ Versions[p] = {p}
NamesApart ==
  \A i \in Ids \cup {NoId} :
    /\ \A v, n : i # <<v, n>>
    /\ \A c, n : i # <<"random", c, n>>

(* ---------------------------- what the text says ------------------------ *)

Flows == {c \in Calls : Op(c) \in Starts}        \* calls that start workflows
Inside == {c \in Calls : Body(c) \in Flows}      \* calls a workflow's body makes
GivenId(c) == Given(program, c)
Startable(c) == c \in Flows \/ (Op(c) \in {"step", "send"} /\ c \notin Inside)
Shaded == UnderScope(program)

(* Whether a call is made, when every patch answers yes, and how many ids it
   takes in a workflow.                                                    *)
Made(c) == Op(c) # "absent" /\ (program[c].on = {} \/ \E o \in program[c].on : o.answer)
Width(c) ==
  IF ~Made(c) \/ Keyed(c) \/ Op(c) = "deprecatePatch" THEN 0
  ELSE IF Op(c) = "patch" THEN 1 ELSE IdsTaken(c)

Prior(c) ==
  {d \in InBody(Body(c)) : Before(d, c) \/ (program[d].group = program[c].group /\ d < c)}
Count(S) ==
  Cardinality({d \in S : Width(d) # 0}) + Cardinality({d \in S : Width(d) = 2})
Offset(c) == Count(Prior(c))

(* ----------------------------- the invariant ---------------------------- *)

(* The workflow a call starts: the id it is given, or one derived from the
   workflow it is made in and its offset, or outside a random one.         *)
RightId(c, w) ==
  /\ Startable(c)
  /\ IF c \in Inside
       THEN IF GivenId(c) # NoId THEN w = GivenId(c)
            ELSE /\ Made(c)
                 /\ \E v \in DOMAIN rows : Owner(v) = Body(c) /\ w = <<v, Offset(c)>>
       ELSE \/ GivenId(c) # NoId /\ w = GivenId(c)
            \/ \E n \in 0..crashes : w = <<"random", c, n>>

(* The places in the log that are a call's own. *)
RightKey(c, k) ==
  /\ k = <<k[1], k[2]>> /\ k[1] \in DOMAIN rows
  /\ IF c \in Inside
       THEN Owner(k[1]) = Body(c) /\ k[2] \in Offset(c)..(Offset(c) + Width(c) - 1)
       ELSE c \notin Flows /\ Owner(k[1]) = c /\ k[2] = 0

Places == {"todo", "read", "create", "body", "record", "await"} \cup Settled
Flying(c) == at[c] # "todo" /\ at[c] \notin Settled

IsCtx(x) ==
  /\ x = [wf |-> x.wf, next |-> x.next, step |-> x.step, assigned |-> x.assigned, own |-> x.own]
  /\ x.next \in Nat /\ x.step \subseteq Nat
  /\ x.assigned \in Ids \cup {NoId} /\ x.own \in BOOLEAN
StepLike(x) == x.wf # NoId /\ x.step # {}

Typed ==
  /\ program \in Programs /\ crashes \in Nat
  /\ DOMAIN ctx = Bodies /\ \A b \in Bodies : IsCtx(ctx[b])
  /\ DOMAIN copy = Calls /\ \A c \in Calls : IsCtx(copy[c])
  /\ home \in [Bodies -> Bodies]
  /\ at \in [Calls -> Places]
  /\ DOMAIN key = Calls
  /\ had \in [Calls -> BOOLEAN] /\ patched \in [Calls -> BOOLEAN]
  /\ live \subseteq Calls /\ DOMAIN seen = Calls
  /\ \A k \in DOMAIN ops : ops[k] \in Calls
  /\ \A w \in DOMAIN rows : rows[w] = [by |-> rows[w].by, over |-> rows[w].over] /\ Owner(w) \in Calls

(* The rows are the workflows their callers start, one each; the records are
   at places of the calls that made them.                                  *)
RowsRight == \A w \in DOMAIN rows : RightId(Owner(w), w)
OneEach == \A v, w \in DOMAIN rows : Owner(v) = Owner(w) => v = w
LogRight == \A k \in DOMAIN ops : RightKey(ops[k], k)

(* The ids a call holds are its own. *)
KeyRight(c) ==
  key[c] # <<>> =>
    /\ Op(c) # "deprecatePatch" => RightKey(c, key[c][1])
    /\ Op(c) \in TwoIds => RightKey(c, key[c][2])

(* The calls of a body whose ids are taken. *)
Taken(b) == {d \in InBody(b) : at[d] # "todo" /\ ~(Op(d) \in Patches /\ at[d] = "read")}
ScopeOpen(b) == \E d \in InBody(b) : Scoped(d) /\ Flying(d)

(* The context of a workflow's body: its own workflow, as many ids taken as
   the calls it issued take, and no assigned id but under an open scope.    *)
FlowCtx(b) ==
  /\ ctx[b].wf \in DOMAIN rows /\ Owner(ctx[b].wf) = b
  /\ ctx[b].step = {} /\ ctx[b].next = Count(Taken(b))
  /\ ctx[b].assigned # NoId => ScopeOpen(b)
  /\ ctx[b].own /\ b \notin Shaded => ScopeOpen(b)
FlowRight(b) == IF b \in live THEN FlowCtx(b) ELSE \A c \in InBody(b) : at[c] = "todo"

(* The calls of a workflow's body are issued in order. *)
InOrder(c) ==
  at[c] # "todo" => \A d \in Prior(c) : at[d] # "todo" /\ (Before(d, c) => at[d] \in Settled)

(* The context a call's own body or workflow is to run in. *)
MayCreate(c) ==
  /\ RightId(c, copy[c].wf)
  /\ copy[c].step = {} /\ copy[c].next = 0
  /\ c \in Flows => copy[c].assigned = NoId /\ (copy[c].own => c \in Shaded)
  /\ c \notin Inside => key[c] = <<>> /\ Own(c) = {}
RunsRight(c) ==
  /\ c \notin Flows /\ home[c] \in Calls \ Flows /\ at[home[c]] # "todo"
  /\ \/ StepLike(ctx[home[c]])
     \/ /\ c \notin Inside /\ home[c] = c /\ ctx[c] = NoCtx /\ crashes = 0
        /\ Op(c) # "step"

PlaceRight(c) ==
  /\ at[c] = "todo" => key[c] = <<>>
  /\ at[c] = "read" =>
       /\ key[c] # <<>> /\ (Op(c) \in Patches \cup Starts => c \in Inside)
       /\ Op(c) \in {"step", "runStep"} => StepLike(copy[c])
       /\ Op(c) \in Starts => c \in Inside /\ MayCreate(c)
  /\ at[c] = "create" => MayCreate(c) /\ (c \in Inside => key[c] # <<>>)
  /\ at[c] = "body" => RunsRight(c) /\ Op(c) \notin Patches
  /\ at[c] = "record" => key[c] # <<>> /\ Op(c) \notin Patches
  /\ at[c] = "await" => (key[c] = <<>> \/ Op(c) = "call") /\ Op(c) \notin Patches

HomeRight(b) ==
  IF b \in Flows \cup {Main} THEN home[b] = b ELSE home[b] \in Calls \ Flows
ScopeRight(c) == c \in Inside /\ Scoped(c) /\ Flying(c) => ~had[c]
PatchRight(c) == c \in Inside /\ Op(c) \in Patches /\ at[c] \in Settled => patched[c]

(* What runs outside of the workflows runs in the first process only. *)
FirstLife(c) ==
  /\ c \notin Inside /\ crashes = 0 /\ at[c] = "todo" => Own(c) = {}
  /\ Body(c) = Main /\ crashes > 0 => at[c] # "todo"

IInv ==
  /\ Typed /\ RowsRight /\ OneEach /\ LogRight
  /\ ctx[Main] = NoCtx /\ \A b \in Bodies : HomeRight(b)
  /\ \A b \in Flows : FlowRight(b)
  /\ \A c \in Inside : InOrder(c)
  /\ \A c \in Calls : KeyRight(c) /\ PlaceRight(c)
  /\ \A c \in Calls : ScopeRight(c) /\ PatchRight(c) /\ FirstLife(c)
  /\ EachCallItsOwn

(* ------------------------------- the text ------------------------------- *)

(* What a program is, and what a plain one is, of the program that runs. *)
LEMMA ProgramIs ==
  ASSUME PlainPrograms, program \in Programs
  PROVE  IsProgram(program) /\ IsPlain(program) /\ Versions[program] = {program}
BY ProgramsAssumption DEF PlainPrograms

LEMMA CallIs ==
  ASSUME IsProgram(program), NEW c \in Calls
  PROVE  /\ c \in Nat /\ c # Main /\ Op(c) \in Operations /\ program[c].group \in Nat
         /\ Body(c) \in Bodies /\ (Body(c) # Main => Body(c) \in Calls)
         /\ program[c].id \in Ids \cup {NoId} /\ program[c].scope \in Ids \cup {NoId}
         /\ program[c].id # NoId => Op(c) \in {"start", "send"}
         /\ \A o \in program[c].on : o.answer \in BOOLEAN /\ o.patch \in Calls
BY DEF IsProgram, IsCall, Calls, Op, Body, Bodies

LEMMA InsideIs ==
  ASSUME IsProgram(program)
  PROVE  Inside = InFlow(program)
<1>1. \A c \in Calls : Body(c) # Main => Body(c) \in Calls
  BY CallIs
<1>2. Main \notin Calls
  BY DEF IsProgram, Calls
<1> QED BY <1>1, <1>2 DEF Inside, InFlow, Flows, Op, Body, Calls

(* The numbers of ids: a call takes at most two. *)
LEMMA WidthType ==
  ASSUME IsProgram(program), NEW c \in Calls
  PROVE  Width(c) \in {0, 1, 2}
BY DEF Width, IdsTaken

LEMMA CountType ==
  ASSUME IsProgram(program), NEW S \in SUBSET Calls
  PROVE  /\ Count(S) \in Nat /\ IsFiniteSet(S)
         /\ IsFiniteSet({d \in S : Width(d) # 0}) /\ IsFiniteSet({d \in S : Width(d) = 2})
         /\ Cardinality({d \in S : Width(d) # 0}) \in Nat
         /\ Cardinality({d \in S : Width(d) = 2}) \in Nat
<1>1. IsFiniteSet(S)
  BY FS_Subset DEF IsProgram, Calls
<1>2. IsFiniteSet({d \in S : Width(d) # 0}) /\ IsFiniteSet({d \in S : Width(d) = 2})
  <2>1. {d \in S : Width(d) # 0} \in SUBSET S /\ {d \in S : Width(d) = 2} \in SUBSET S
    OBVIOUS
  <2> QED BY <1>1, <2>1, FS_Subset
<1>3. /\ Cardinality({d \in S : Width(d) # 0}) \in Nat
      /\ Cardinality({d \in S : Width(d) = 2}) \in Nat
  BY <1>2, FS_CardinalityType
<1> QED BY <1>1, <1>2, <1>3 DEF Count

LEMMA CountEmpty ==
  Count({}) = 0
<1>1. {d \in {} : Width(d) # 0} = {} /\ {d \in {} : Width(d) = 2} = {}
  OBVIOUS
<1> QED BY <1>1, FS_EmptySet DEF Count

(* The ids of one more call. *)
LEMMA CountAdd ==
  ASSUME IsProgram(program), NEW S \in SUBSET Calls, NEW c \in Calls, c \notin S
  PROVE  Count(S \cup {c}) = Count(S) + Width(c)
<1> DEFINE A(T) == {d \in T : Width(d) # 0}
           B(T) == {d \in T : Width(d) = 2}
<1>1. /\ IsFiniteSet(A(S)) /\ Cardinality(A(S)) \in Nat
      /\ IsFiniteSet(B(S)) /\ Cardinality(B(S)) \in Nat
  BY CountType
<1>2. Cardinality(A(S \cup {c})) = Cardinality(A(S)) + (IF Width(c) # 0 THEN 1 ELSE 0)
  <2>1. A(S \cup {c}) = IF Width(c) # 0 THEN A(S) \cup {c} ELSE A(S)
    OBVIOUS
  <2>2. c \notin A(S)
    OBVIOUS
  <2> HIDE DEF A
  <2>3. Cardinality(A(S) \cup {c}) = Cardinality(A(S)) + 1
    BY <1>1, <2>2, FS_AddElement
  <2> QED BY <1>1, <2>1, <2>3
<1>3. Cardinality(B(S \cup {c})) = Cardinality(B(S)) + (IF Width(c) = 2 THEN 1 ELSE 0)
  <2>1. B(S \cup {c}) = IF Width(c) = 2 THEN B(S) \cup {c} ELSE B(S)
    OBVIOUS
  <2>2. c \notin B(S)
    OBVIOUS
  <2> HIDE DEF B
  <2>3. Cardinality(B(S) \cup {c}) = Cardinality(B(S)) + 1
    BY <1>1, <2>2, FS_AddElement
  <2> QED BY <1>1, <2>1, <2>3
<1>4. /\ Count(S) = Cardinality(A(S)) + Cardinality(B(S))
      /\ Count(S \cup {c}) = Cardinality(A(S \cup {c})) + Cardinality(B(S \cup {c}))
  BY DEF Count
<1>5. Width(c) = (IF Width(c) # 0 THEN 1 ELSE 0) + (IF Width(c) = 2 THEN 1 ELSE 0)
  BY WidthType
<1> HIDE DEF A, B
<1> QED BY <1>1, <1>2, <1>3, <1>4, <1>5

LEMMA CountLeq ==
  ASSUME IsProgram(program), NEW T \in SUBSET Calls, NEW S \in SUBSET T
  PROVE  Count(S) <= Count(T)
<1> DEFINE A(U) == {d \in U : Width(d) # 0}
           B(U) == {d \in U : Width(d) = 2}
<1>1. /\ IsFiniteSet(A(T)) /\ Cardinality(A(T)) \in Nat /\ Cardinality(A(S)) \in Nat
      /\ IsFiniteSet(B(T)) /\ Cardinality(B(T)) \in Nat /\ Cardinality(B(S)) \in Nat
  BY CountType
<1>2. A(S) \in SUBSET A(T) /\ B(S) \in SUBSET B(T)
  OBVIOUS
<1>3. Count(S) = Cardinality(A(S)) + Cardinality(B(S)) /\ Count(T) = Cardinality(A(T)) + Cardinality(B(T))
  BY DEF Count
<1> HIDE DEF A, B
<1>4. Cardinality(A(S)) <= Cardinality(A(T)) /\ Cardinality(B(S)) <= Cardinality(B(T))
  BY <1>1, <1>2, FS_Subset
<1> QED BY <1>1, <1>3, <1>4

(* The calls of one body take ids apart, in the order they are issued. *)
LEMMA PriorFirst ==
  ASSUME IsProgram(program), NEW c \in Calls, NEW d \in Calls, Body(c) = Body(d), c # d
  PROVE  c \in Prior(d) \/ d \in Prior(c)
BY CallIs DEF Prior, Before, InBody

LEMMA OffsetsFollow ==
  ASSUME IsProgram(program), NEW d \in Calls, NEW c \in Prior(d)
  PROVE  /\ Offset(c) \in Nat /\ Offset(d) \in Nat
         /\ Offset(c) + Width(c) <= Offset(d)
<1>1. c \in Calls /\ Prior(d) \in SUBSET Calls /\ Prior(c) \in SUBSET Calls
  BY DEF Prior, InBody
<1>2. c \notin Prior(c) /\ Prior(c) \cup {c} \in SUBSET Prior(d)
  <2>1. /\ c \in Nat /\ d \in Nat /\ program[c].group \in Nat /\ program[d].group \in Nat
    BY <1>1, CallIs
  <2>2. \A x \in Calls : x \in Nat /\ program[x].group \in Nat
    BY CallIs
  <2>3. c \notin Prior(c)
    BY <2>1 DEF Prior, Before
  <2>4. ASSUME NEW x \in Prior(c) PROVE x \in Prior(d)
    <3>1. x \in Calls /\ Body(x) = Body(d) /\ Body(c) = Body(d)
      BY DEF Prior, InBody
    <3>2. /\ program[x].group < program[c].group \/ (program[x].group = program[c].group /\ x < c)
          /\ program[c].group < program[d].group \/ (program[c].group = program[d].group /\ c < d)
      BY DEF Prior, Before
    <3>3. program[x].group < program[d].group \/ (program[x].group = program[d].group /\ x < d)
      BY <2>1, <2>2, <3>1, <3>2
    <3> QED BY <3>1, <3>3 DEF Prior, Before, InBody
  <2> QED BY <2>3, <2>4
<1>3. Count(Prior(c) \cup {c}) = Count(Prior(c)) + Width(c)
  BY <1>1, <1>2, CountAdd
<1>4. Count(Prior(c) \cup {c}) <= Count(Prior(d))
  BY <1>1, <1>2, CountLeq
<1>5. Count(Prior(c)) \in Nat /\ Count(Prior(d)) \in Nat
  BY <1>1, CountType
<1> QED BY <1>1, <1>3, <1>4, <1>5, WidthType DEF Offset

LEMMA OffsetType ==
  ASSUME IsProgram(program), NEW c \in Calls
  PROVE  Offset(c) \in Nat /\ Prior(c) \in SUBSET Calls /\ c \notin Prior(c)
<1>1. Prior(c) \in SUBSET Calls /\ c \notin Prior(c)
  BY CallIs DEF Prior, InBody, Before
<1> QED BY <1>1, CountType DEF Offset

LEMMA IdsApart ==
  ASSUME IsProgram(program), NEW c \in Calls, NEW d \in Calls, Body(c) = Body(d),
         NEW n \in Nat, n \in Offset(c)..(Offset(c) + Width(c) - 1),
         n \in Offset(d)..(Offset(d) + Width(d) - 1)
  PROVE  c = d
<1> SUFFICES ASSUME c # d PROVE FALSE
  OBVIOUS
<1>1. /\ Offset(c) \in Nat /\ Offset(d) \in Nat
      /\ Offset(c) + Width(c) <= Offset(d) \/ Offset(d) + Width(d) <= Offset(c)
  BY PriorFirst, OffsetsFollow
<1> QED BY <1>1, WidthType

(* The text does not change, nor what is read off it. *)
LEMMA TextSame ==
  ASSUME program' = program
  PROVE  /\ Calls' = Calls /\ Bodies' = Bodies /\ Flows' = Flows /\ Inside' = Inside
         /\ Shaded' = Shaded
         /\ \A c : /\ Op(c)' = Op(c) /\ Body(c)' = Body(c) /\ Scoped(c)' = Scoped(c)
                   /\ GivenId(c)' = GivenId(c) /\ Startable(c)' = Startable(c)
                   /\ Made(c)' = Made(c) /\ Width(c)' = Width(c) /\ Offset(c)' = Offset(c)
                   /\ InBody(c)' = InBody(c) /\ Prior(c)' = Prior(c)
         /\ \A c, d : Before(c, d)' = Before(c, d)
         /\ \A S : Count(S)' = Count(S)
BY DEF Calls, Bodies, Flows, Inside, Shaded, Op, Body, Scoped, GivenId, Startable, Made,
       Width, Offset, InBody, Prior, Before, Count, Keyed, IdsTaken

(* ------------------------- the rows and the records --------------------- *)

(* The fields of tuples, and that pairs are not triples. *)
LEMMA Tuples ==
  ASSUME NEW v, NEW m, NEW w, NEW n, NEW c, NEW d, NEW k
  PROVE  /\ <<v, m>> = <<w, n>> => v = w /\ m = n
         /\ <<v, m>> # <<"random", c, k>>
         /\ <<"random", c, k>> = <<"random", d, n>> => c = d
OBVIOUS

(* Two calls start no workflow of the same id. *)
LEMMA IdOfOne ==
  ASSUME PlainPrograms, NamesApart, Typed, NEW c \in Calls, NEW d \in Calls, NEW w,
         RightId(c, w), RightId(d, w)
  PROVE  c = d
<1> DEFINE Derived(x) == \E v \in DOMAIN rows : Owner(v) = Body(x) /\ w = <<v, Offset(x)>>
           Random(x) == \E n \in 0..crashes : w = <<"random", x, n>>
<1>1. ASSUME NEW x \in Calls, RightId(x, w)
      PROVE  \/ GivenId(x) # NoId /\ w = GivenId(x)
             \/ x \in Inside /\ x \in Flows /\ Made(x) /\ Derived(x)
             \/ Random(x)
  BY <1>1 DEF RightId, Startable
<1>2. IsProgram(program) /\ IsPlain(program)
  BY ProgramIs DEF Typed
<1>3. \A x \in Calls : GivenId(x) \in Ids \cup {NoId}
  BY <1>2, CallIs DEF GivenId, Given
<1>4. \A x \in Calls : Derived(x) => \A y \in Calls : GivenId(y) # NoId => w # GivenId(y)
  BY <1>3 DEF NamesApart
<1>5. \A x \in Calls : Random(x) => \A y \in Calls : GivenId(y) # NoId => w # GivenId(y)
  BY <1>3 DEF NamesApart
<1>6. \A x, y : ~ (Derived(x) /\ Random(y))
  BY Tuples
<1>7. CASE GivenId(c) # NoId /\ w = GivenId(c) /\ GivenId(d) # NoId /\ w = GivenId(d)
  <2>1. MayStart(program, c) /\ MayStart(program, d)
    <3>1. Startable(c) /\ Startable(d)
      BY DEF RightId
    <3> QED BY <1>2, <3>1, InsideIs DEF Startable, MayStart, Flows, Op
  <2> QED BY <1>2, <1>7, <2>1 DEF IsPlain, GivenId, Calls
<1>8. CASE Random(c) /\ Random(d)
  BY <1>8, Tuples
<1>9. CASE /\ c \in Flows /\ Made(c) /\ Derived(c)
           /\ d \in Flows /\ Made(d) /\ Derived(d)
  <2>1. Body(c) = Body(d) /\ Offset(c) = Offset(d)
    BY <1>9, Tuples
  <2>2. Width(c) # 0 /\ Width(d) # 0
    BY <1>9 DEF Flows, Width, Keyed, IdsTaken, Starts, NoIds, TwoIds, Patches
  <2>3. \A x \in {c, d} : Offset(x) \in Nat /\ Offset(x) \in Offset(x)..(Offset(x) + Width(x) - 1)
    BY <1>2, <2>2, OffsetType, WidthType
  <2> QED BY <1>2, <2>1, <2>3, IdsApart
<1> HIDE DEF Derived, Random
<1> QED BY <1>1, <1>4, <1>5, <1>6, <1>7, <1>8, <1>9

(* A call starts one workflow where those it is in have one id each. *)
LEMMA OneId ==
  ASSUME OneEach, NEW c \in Inside, NEW v, NEW w, RightId(c, v), RightId(c, w)
  PROVE  v = w
BY DEF OneEach, RightId

(* A place in the log is of one call. *)
LEMMA KeyOfOne ==
  ASSUME PlainPrograms, Typed, NEW c \in Calls, NEW d \in Calls, NEW k,
         RightKey(c, k), RightKey(d, k)
  PROVE  c = d
<1>1. IsProgram(program)
  BY ProgramIs DEF Typed
<1>2. CASE c \in Inside /\ d \in Inside
  <2>1. Offset(c) \in Nat /\ Width(c) \in {0, 1, 2}
    BY <1>1, OffsetType, WidthType
  <2>2. k[2] \in Nat /\ Body(c) = Body(d)
    BY <1>2, <2>1 DEF RightKey
  <2> QED BY <1>1, <1>2, <2>2, IdsApart DEF RightKey
<1>3. CASE c \notin Inside /\ d \notin Inside
  BY <1>3 DEF RightKey
<1>4. \A x \in Inside, y \in Calls \ Inside : ~ (RightKey(x, k) /\ RightKey(y, k))
  BY DEF RightKey, Inside
<1> QED BY <1>2, <1>3, <1>4

(* What is found at a place of a call's own is the call's. *)
LEMMA OwnFound ==
  ASSUME PlainPrograms, Typed, LogRight, NEW c \in Calls, NEW k, RightKey(c, k)
  PROVE  At(k) \subseteq {c}
<1> SUFFICES ASSUME NEW j \in {k} \cap DOMAIN ops PROVE ops[j] = c
  BY DEF At
<1>1. RightKey(ops[k], k) /\ ops[k] \in Calls
  BY DEF LogRight, Typed
<1> QED BY <1>1, KeyOfOne

(* --------------------------- one step of a call ------------------------- *)

(* What a step of a call c leaves alone: the other calls, the rows there are. *)
Kept(c) ==
  /\ program' = program /\ crashes' = crashes /\ home'[Main] = home[Main]
  /\ \A d \in Calls \ {c} :
       /\ at'[d] = at[d] /\ key'[d] = key[d] /\ copy'[d] = copy[d] /\ home'[d] = home[d]
       /\ had'[d] = had[d] /\ patched'[d] = patched[d] /\ seen'[d] = seen[d]
  /\ \A w \in DOMAIN rows : w \in DOMAIN rows' /\ Owner(w)' = Owner(w)
  /\ \A w \in DOMAIN rows' \ DOMAIN rows : Owner(w)' = c

(* The contexts that bodies of calls outside of workflows' own run in stay
   what they are.                                                          *)
Steady(c) ==
  /\ ctx'[Main] = NoCtx
  /\ \A h \in Calls \ Flows :
       /\ at[h] # "todo" /\ StepLike(ctx[h]) => StepLike(ctx'[h])
       /\ h # c /\ at[h] = "body" /\ ctx[h] = NoCtx => ctx'[h] = NoCtx

(* A workflow's id and a place in the log stay right as rows are added. *)
LEMMA RightStays ==
  ASSUME program' = program, crashes \in Nat, crashes' \in Nat, crashes <= crashes',
         \A w \in DOMAIN rows : w \in DOMAIN rows' /\ Owner(w)' = Owner(w),
         NEW c, NEW w, NEW k
  PROVE  /\ RightId(c, w) => RightId(c, w)'
         /\ RightKey(c, k) => RightKey(c, k)'
<1>1. RightId(c, w) => RightId(c, w)'
  <2>1. \A n \in 0..crashes : n \in 0..crashes'
    OBVIOUS
  <2> QED BY <2>1, TextSame DEF RightId
<1>2. RightKey(c, k) => RightKey(c, k)'
  BY TextSame DEF RightKey
<1> QED BY <1>1, <1>2

(* The calls that did not move are where they may be. *)
LEMMA OthersStay ==
  ASSUME IInv, NEW c \in Calls, Kept(c), Steady(c), at[c] # "todo" => at'[c] # "todo",
         NEW d \in Calls \ {c}
  PROVE  (KeyRight(d) /\ PlaceRight(d) /\ ScopeRight(d) /\ PatchRight(d) /\ FirstLife(d))'
<1>1. /\ at'[d] = at[d] /\ key'[d] = key[d] /\ copy'[d] = copy[d] /\ home'[d] = home[d]
      /\ had'[d] = had[d] /\ patched'[d] = patched[d]
      /\ program' = program /\ crashes' = crashes /\ crashes \in Nat
  BY DEF Kept, IInv, Typed
<1>2. \A x, w : RightId(x, w) => RightId(x, w)'
  BY <1>1, RightStays DEF Kept
<1>3. \A x, k : RightKey(x, k) => RightKey(x, k)'
  BY <1>1, RightStays DEF Kept
<1>4. Own(d)' \subseteq Own(d)
  BY DEF Own, Kept
<1>5. KeyRight(d)'
  BY <1>1, <1>3, TextSame DEF KeyRight, IInv
<1>6. MayCreate(d) => MayCreate(d)'
  BY <1>1, <1>2, <1>4, TextSame DEF MayCreate
<1>7. at[d] = "body" => RunsRight(d)'
  <2> SUFFICES ASSUME at[d] = "body" PROVE RunsRight(d)'
    OBVIOUS
  <2>1. RunsRight(d)
    BY DEF IInv, PlaceRight
  <2>2. at'[home[d]] # "todo"
    BY <2>1 DEF RunsRight, Kept
  <2>3. StepLike(ctx[home[d]]) => StepLike(ctx'[home[d]])
    BY <2>1 DEF RunsRight, Steady
  <2>4. d \notin Flows /\ (ctx[d] = NoCtx => ctx'[d] = NoCtx)
    BY <2>1 DEF RunsRight, Steady
  <2> QED BY <1>1, <2>1, <2>2, <2>3, <2>4, TextSame DEF RunsRight, StepLike
<1>8. PlaceRight(d)'
  <2>1. PlaceRight(d)
    BY DEF IInv
  <2> QED BY <1>1, <1>6, <1>7, <2>1, TextSame DEF PlaceRight, StepLike
<1>9. (ScopeRight(d) /\ PatchRight(d))'
  BY <1>1, TextSame DEF ScopeRight, PatchRight, IInv, Flying
<1>10. FirstLife(d)'
  BY <1>1, <1>4, TextSame DEF FirstLife, IInv
<1> QED BY <1>5, <1>8, <1>9, <1>10

(* The order stays, if a call is issued when it is ready and settles once. *)
LEMMA OrderStays ==
  ASSUME IInv, NEW c \in Calls, Kept(c), at[c] # "todo" => at'[c] # "todo",
         c \in Inside /\ at[c] \in Settled => at'[c] \in Settled,
         c \in Inside /\ at[c] = "todo" /\ at'[c] # "todo" => Ready(c)
  PROVE  \A d \in Inside : InOrder(d)'
<1> SUFFICES ASSUME NEW d \in Inside, at'[d] # "todo", NEW x \in Prior(d)
             PROVE  at'[x] # "todo" /\ (Before(x, d) => at'[x] \in Settled)
  <2>1. program' = program
    BY DEF Kept
  <2> QED BY <2>1, TextSame DEF InOrder, Settled
<1>1. x \in Calls /\ d \in Calls /\ Body(x) = Body(d)
  BY DEF Prior, InBody, Inside
<1>2. x \in Inside
  BY <1>1 DEF Inside
<1>3. CASE at[d] # "todo"
  <2>1. at[x] # "todo" /\ (Before(x, d) => at[x] \in Settled)
    BY <1>3 DEF IInv, InOrder
  <2> QED BY <1>1, <1>2, <2>1 DEF Kept
<1>4. CASE at[d] = "todo"
  <2>1. d = c
    BY <1>1, <1>4 DEF Kept
  <2>2. at[x] # "todo" /\ (Before(x, d) => at[x] \in Settled)
    BY <1>4, <2>1 DEF Ready, Prior, Settled
  <2> QED BY <1>1, <1>2, <2>1, <2>2 DEF Kept
<1> QED BY <1>3, <1>4

(* A workflow's context stays right where its body's calls stay. *)
LEMMA FlowStays ==
  ASSUME IInv, NEW c \in Calls, Kept(c), NEW b \in Flows, c \in InBody(b) => at'[c] = at[c],
         ctx'[b] = ctx[b], b \in live' <=> b \in live
  PROVE  FlowRight(b)'
<1>1. program' = program /\ b \in Calls /\ FlowRight(b)
  BY DEF Kept, Flows, IInv
<1>2. \A d \in InBody(b) : d \in Calls /\ at'[d] = at[d]
  BY DEF Kept, InBody
<1>3. Taken(b)' = Taken(b) /\ ScopeOpen(b)' = ScopeOpen(b)
  BY <1>1, <1>2, TextSame DEF Taken, ScopeOpen, Flying
<1>4. FlowCtx(b) => FlowCtx(b)'
  BY <1>1, <1>3, TextSame DEF FlowCtx, Kept
<1> QED BY <1>1, <1>2, <1>4, TextSame DEF FlowRight

(* All of the invariant, from what a step must show of the call it moves. *)
LEMMA StepKeeps ==
  ASSUME IInv, NEW c \in Calls, Kept(c), Steady(c), at[c] # "todo" => at'[c] # "todo",
         c \in Inside /\ at[c] \in Settled => at'[c] \in Settled,
         c \in Inside /\ at[c] = "todo" /\ at'[c] # "todo" => Ready(c),
         (Typed /\ RowsRight /\ OneEach /\ LogRight)', HomeRight(c)',
         (KeyRight(c) /\ PlaceRight(c) /\ ScopeRight(c) /\ PatchRight(c) /\ FirstLife(c))',
         \A b \in Flows : FlowRight(b)',
         seen'[c] \subseteq {c}
  PROVE  IInv'
<1>1. program' = program
  BY DEF Kept
<1>2. \A d \in Calls : (KeyRight(d) /\ PlaceRight(d) /\ ScopeRight(d) /\ PatchRight(d) /\ FirstLife(d))'
  BY OthersStay
<1>3. \A d \in Inside : InOrder(d)'
  BY OrderStays
<1>4. \A b \in Bodies : HomeRight(b)'
  <2>1. \A b \in Bodies \ {c} : home'[b] = home[b]
    BY DEF Kept, Bodies
  <2>2. \A b \in Bodies \ {c} : HomeRight(b)'
    BY <1>1, <2>1, TextSame DEF HomeRight, IInv
  <2> QED BY <2>2
<1>5. EachCallItsOwn'
  BY <1>1, TextSame DEF EachCallItsOwn, IInv, Kept
<1>6. ctx'[Main] = NoCtx
  BY DEF Steady
<1> QED BY <1>1, <1>2, <1>3, <1>4, <1>5, <1>6, TextSame DEF IInv

(* ----------------------------- the contexts ----------------------------- *)

LEMMA NoCtxIs ==
  /\ IsCtx(NoCtx) /\ NoCtx.wf = NoId /\ NoCtx.step = {} /\ NoCtx.next = 0
  /\ NoCtx.assigned = NoId /\ NoCtx.own = FALSE
BY DEF IsCtx, NoCtx

LEMMA StepCtxIs ==
  ASSUME NEW x, IsCtx(x), NEW n \in Nat
  PROVE  IsCtx(StepCtx(x, n)) /\ StepCtx(x, n).wf = x.wf /\ StepCtx(x, n).step # {}
BY DEF IsCtx, StepCtx

LEMMA WorkflowCtxIs ==
  ASSUME NEW x, IsCtx(x), NEW w
  PROVE  /\ IsCtx(WorkflowCtx(x, w)) /\ WorkflowCtx(x, w).wf = w
         /\ WorkflowCtx(x, w).next = 0 /\ WorkflowCtx(x, w).step = x.step
         /\ WorkflowCtx(x, w).assigned = x.assigned /\ WorkflowCtx(x, w).own = x.own
<1> DEFINE y == [x EXCEPT !.wf = w]
<1>1. /\ y = [wf |-> y.wf, next |-> y.next, step |-> y.step, assigned |-> y.assigned, own |-> y.own]
      /\ y.wf = w /\ y.next = x.next /\ y.step = x.step
      /\ y.assigned = x.assigned /\ y.own = x.own
  BY DEF IsCtx
<1>2. WorkflowCtx(x, w) = [y EXCEPT !.next = 0]
  BY DEF WorkflowCtx
<1> HIDE DEF y
<1> QED BY <1>1, <1>2 DEF IsCtx

LEMMA NextIs ==
  ASSUME NEW x, IsCtx(x), NEW n \in Nat
  PROVE  LET y == [x EXCEPT !.next = n]
         IN  /\ IsCtx(y) /\ y.wf = x.wf /\ y.next = n /\ y.step = x.step
             /\ y.assigned = x.assigned /\ y.own = x.own
BY DEF IsCtx

LEMMA AroundIs ==
  ASSUME IsProgram(program), NEW c \in Calls, IsCtx(ctx[Stored(c)])
  PROVE  /\ IsCtx(Around(c)) /\ Around(c).wf = ctx[Stored(c)].wf
         /\ Around(c).next = ctx[Stored(c)].next /\ Around(c).step = ctx[Stored(c)].step
         /\ Scoped(c) => Around(c).assigned = program[c].scope /\ Around(c).own = TRUE
         /\ ~Scoped(c) => Around(c) = ctx[Stored(c)]
<1>1. program[c].scope \in Ids \cup {NoId}
  BY CallIs
<1> DEFINE x == ctx[Stored(c)]
<1>2. IsCtx(x)
  OBVIOUS
<1>3. Around(c) = IF ~Scoped(c) THEN x ELSE [x EXCEPT !.assigned = program[c].scope, !.own = TRUE]
  BY DEF Around
<1> HIDE DEF x
<1>4. QED BY <1>1, <1>2, <1>3 DEF IsCtx, x

LEMMA UsedUpIs ==
  ASSUME NEW c, NEW x, IsCtx(x)
  PROVE  /\ IsCtx(UsedUp(c, x)) /\ UsedUp(c, x).wf = x.wf /\ UsedUp(c, x).next = x.next
         /\ UsedUp(c, x).step = x.step /\ UsedUp(c, x).own = x.own
         /\ UsedUp(c, x).assigned = IF Assigns(c) THEN NoId ELSE x.assigned
BY DEF IsCtx, UsedUp

LEMMA LeftIs ==
  ASSUME IsProgram(program), NEW c \in Calls, NEW x, IsCtx(x), NEW found \in BOOLEAN
  PROVE  /\ IsCtx(Left(c, x, found)) /\ Left(c, x, found).wf = x.wf
         /\ Left(c, x, found).next = x.next /\ Left(c, x, found).step = x.step
         /\ ~Scoped(c) => Left(c, x, found) = x
         /\ Scoped(c) /\ found = FALSE => /\ Left(c, x, found).assigned = NoId
                                          /\ Left(c, x, found).own = FALSE
BY CallIs DEF IsCtx, Left

LEMMA TimerTakenIs ==
  ASSUME NEW c, NEW x, IsCtx(x)
  PROVE  /\ IsCtx(TimerTaken(c, x)) /\ TimerTaken(c, x).wf = x.wf
         /\ TimerTaken(c, x).step = x.step
         /\ x.wf = NoId => TimerTaken(c, x) = x
BY DEF IsCtx, TimerTaken, IsWithinWorkflow, Taking

(* Where a call goes, by the context it is made in. *)
LEMMA Ways ==
  ASSUME NEW c, Op(c) \in Operations \ {"absent"}, NEW x
  PROVE  /\ x.wf # NoId /\ x.step = {} =>
              WayOf(c, x) = IF Keyed(c) THEN "refused" ELSE "durable"
         /\ x.wf # NoId /\ x.step # {} =>
              WayOf(c, x) \in {"inline", "refused"} /\ (Op(c) \in Starts => WayOf(c, x) = "refused")
         /\ x.wf = NoId =>
              /\ WayOf(c, x) \in {"inline", "refused", "alone", "started"}
              /\ WayOf(c, x) \in {"alone", "started"} => Op(c) \in Starts \cup {"step", "send"}
              /\ WayOf(c, x) = "inline" => Op(c) \notin Starts \cup {"step"}
              /\ WayOf(c, x) = "inline" /\ Op(c) = "runStep" => NextWFID(c, x) = NoId
<1> USE DEF WayOf, From, IsWithinWorkflow, IsInWorkflow, IsInStep, StartWay, CallWay, StepWay,
            RunStepWay, NowWay, StatusWay, ManageWay, SleepWay, ResultWay, RetrieveWay, SendWay,
            RecvWay, SetEventWay, GetEventWay, RespondWay, WriteStreamWay, CloseStreamWay, PatchWay,
            Operations, Starts, Patches, TwoIds, NoIds
<1>1. x.wf # NoId /\ x.step = {} => WayOf(c, x) = IF Keyed(c) THEN "refused" ELSE "durable"
  BY DEF Keyed
<1>2. x.wf # NoId /\ x.step # {} =>
        WayOf(c, x) \in {"inline", "refused"} /\ (Op(c) \in Starts => WayOf(c, x) = "refused")
  OBVIOUS
<1>3. x.wf = NoId =>
        /\ WayOf(c, x) \in {"inline", "refused", "alone", "started"}
        /\ WayOf(c, x) \in {"alone", "started"} => Op(c) \in Starts \cup {"step", "send"}
  OBVIOUS
<1>4. x.wf = NoId =>
        /\ WayOf(c, x) = "inline" => Op(c) \notin Starts \cup {"step"}
        /\ WayOf(c, x) = "inline" /\ Op(c) = "runStep" => NextWFID(c, x) = NoId
  OBVIOUS
<1> QED BY <1>1, <1>2, <1>3, <1>4

(* ----------------------- where a call is made --------------------------- *)

LEMMA IdIsSome ==
  ASSUME NamesApart, NEW c, NEW w, RightId(c, w)
  PROVE  w # NoId
BY DEF NamesApart, RightId

(* A call of a workflow's body is made in the workflow's context. *)
LEMMA InsideStored ==
  ASSUME IInv, NEW c \in Inside
  PROVE  /\ c \in Calls /\ Body(c) \in Flows /\ Body(c) \in Calls /\ c \in InBody(Body(c))
         /\ Stored(c) = Body(c) /\ Stored(c) \in Bodies
BY DEF IInv, HomeRight, Inside, Flows, Stored, InBody, Bodies

LEMMA InsideFlow ==
  ASSUME NamesApart, IInv, NEW c \in Inside, Body(c) \in live
  PROVE  /\ FlowCtx(Body(c)) /\ IsCtx(ctx[Body(c)])
         /\ ctx[Body(c)].wf # NoId /\ ~NoneStored(c)
<1>1. Body(c) \in Flows /\ Stored(c) = Body(c) /\ Body(c) \in Bodies
  BY InsideStored
<1>2. FlowCtx(Body(c)) /\ IsCtx(ctx[Body(c)])
  BY <1>1 DEF IInv, FlowRight, Typed
<1>3. RightId(Owner(ctx[Body(c)].wf), ctx[Body(c)].wf)
  BY <1>2 DEF FlowCtx, IInv, RowsRight
<1>4. ctx[Body(c)].wf # NoId
  BY <1>3, IdIsSome
<1> QED BY <1>1, <1>2, <1>4, NoCtxIs DEF NoneStored

(* When it is issued, no scope is open, and the calls that took their ids are
   those before it.                                                        *)
LEMMA InsideReady ==
  ASSUME PlainPrograms, IInv, NEW c \in Inside, Ready(c)
  PROVE  /\ Body(c) \in live /\ ~ScopeOpen(Body(c)) /\ Taken(Body(c)) = Prior(c)
<1>1. /\ c \in Calls /\ Body(c) \in Flows /\ Body(c) \in Calls /\ at[c] = "todo"
      /\ c \in InBody(Body(c))
  BY InsideStored DEF Ready
<1>2. IsProgram(program) /\ IsPlain(program)
  BY ProgramIs DEF IInv, Typed
<1>3. Body(c) \in live
  <2>1. at[Body(c)] # "body"
    BY <1>1 DEF IInv, PlaceRight, RunsRight
  <2>2. Body(c) # Main
    BY <1>1, <1>2, CallIs
  <2> QED BY <1>1, <2>1, <2>2 DEF Ready, Running
<1>4. \A d \in InBody(Body(c)) : d \in Calls /\ d \in Inside /\ Body(d) = Body(c)
  BY <1>1 DEF InBody, Inside
<1>5. ASSUME NEW d \in InBody(Body(c)), at[d] # "todo"
      PROVE  d \in Prior(c) /\ (Before(d, c) => at[d] \in Settled)
  <2>1. d # c /\ d \in Calls /\ d \in Inside /\ Body(d) = Body(c)
    BY <1>1, <1>4, <1>5
  <2>2. c \notin Prior(d)
    BY <1>1, <1>5, <2>1 DEF IInv, InOrder
  <2>3. d \in Prior(c)
    BY <1>1, <1>2, <2>1, <2>2, PriorFirst
  <2> QED BY <2>3 DEF Ready
<1>6. ASSUME NEW d \in Calls, program[d].group = program[c].group, Body(d) = Body(c), d # c
      PROVE  Mates(program, d) # {} /\ c \in Mates(program, d)
  BY <1>1, <1>6 DEF Mates, Calls, Body
<1>7. ~ScopeOpen(Body(c))
  <2> SUFFICES ASSUME NEW d \in InBody(Body(c)), Scoped(d), Flying(d) PROVE FALSE
    BY DEF ScopeOpen
  <2>1. d \in Prior(c) /\ ~Before(d, c)
    BY <1>5 DEF Flying
  <2>2. d # c /\ d \in Calls /\ program[d].group = program[c].group /\ Body(d) = Body(c) /\ d \in Inside
    BY <1>1, <1>4, <2>1 DEF Prior, Flying
  <2>3. Mates(program, d) = {}
    <3>1. ScopeIsPlain(program, d)
      BY <1>2, <2>2 DEF IsPlain, Scoped, Calls
    <3>2. program[d].body # Main /\ program[program[d].body].op # "step"
      BY <1>1, <1>2, <2>2, CallIs DEF Flows, Op, Body, Starts
    <3> QED BY <3>1, <3>2 DEF ScopeIsPlain
  <2> QED BY <1>6, <2>2, <2>3
<1>8. Taken(Body(c)) = Prior(c)
  <2>1. ASSUME NEW d \in Taken(Body(c)) PROVE d \in Prior(c)
    BY <1>5 DEF Taken
  <2>2. ASSUME NEW d \in Prior(c) PROVE d \in Taken(Body(c))
    <3>1. d \in InBody(Body(c)) /\ d \in Calls /\ d # c /\ Body(d) = Body(c)
      BY <1>4, <1>1, <1>2, OffsetType DEF Prior
    <3>2. Before(d, c) => at[d] \in Settled
      BY <3>1 DEF Ready
    <3>3. at[d] # "todo"
      BY <3>1, <3>2 DEF Ready, Prior, Settled
    <3>4. ~ Before(d, c) => Op(d) \notin Patches
      <4> SUFFICES ASSUME ~ Before(d, c), Op(d) \in Patches PROVE FALSE
        OBVIOUS
      <4>1. program[d].group = program[c].group
        BY DEF Prior
      <4>2. PatchIsPlain(program, d)
        BY <1>2, <3>1 DEF IsPlain, Calls
      <4> QED BY <1>6, <3>1, <4>1, <4>2 DEF PatchIsPlain, Op
    <3> QED BY <3>1, <3>2, <3>3, <3>4 DEF Taken, Settled
  <2> QED BY <2>1, <2>2
<1> QED BY <1>3, <1>7, <1>8

(* A call in a step, or in none: the context is a step's, or there is none
   and this is the first process.                                          *)
LEMMA OutsideStored ==
  ASSUME IInv, PlainPrograms, NEW c \in Calls \ Inside
  PROVE  Stored(c) \in {Main} \cup (Calls \ Flows) /\ Stored(c) \in Bodies /\ IsCtx(ctx[Stored(c)])
<1>1. Body(c) \in Bodies /\ Body(c) \notin Flows
  BY CallIs, ProgramIs DEF IInv, Typed, Inside
<1>2. HomeRight(Body(c))
  BY <1>1 DEF IInv
<1>3. Main \notin Flows
  BY ProgramIs DEF IInv, Typed, IsProgram, Flows, Calls
<1>4. Stored(c) \in {Main} \cup (Calls \ Flows)
  BY <1>1, <1>2 DEF HomeRight, Stored, Bodies
<1> QED BY <1>4 DEF IInv, Typed, Bodies

LEMMA OutsideReady ==
  ASSUME PlainPrograms, IInv, NEW c \in Calls \ Inside, Ready(c)
  PROVE  \/ /\ StepLike(ctx[Stored(c)]) /\ Stored(c) \in Calls \ Flows
            /\ at[Stored(c)] # "todo" /\ Stored(c) # c
         \/ /\ NoneStored(c) /\ crashes = 0
            /\ Body(c) = Main \/ Op(Body(c)) # "step"
<1>1. Body(c) \in Bodies /\ Body(c) \notin Flows /\ at[c] = "todo"
  BY CallIs, ProgramIs DEF IInv, Typed, Inside, Ready
<1>2. CASE Body(c) = Main
  <2>1. Stored(c) = Main
    BY <1>1, <1>2 DEF IInv, HomeRight, Stored
  <2>2. crashes = 0
    BY <1>1, <1>2 DEF IInv, FirstLife, Typed
  <2> QED BY <1>2, <2>1, <2>2 DEF NoneStored, IInv
<1>3. CASE Body(c) # Main
  <2>1. Body(c) \in Calls /\ at[Body(c)] = "body"
    BY <1>1, <1>3 DEF Bodies, Ready, Running, Flows
  <2>2. RunsRight(Body(c))
    BY <2>1 DEF IInv, PlaceRight
  <2> QED BY <1>1, <2>2 DEF RunsRight, Stored, NoneStored
<1> QED BY <1>2, <1>3

(* ----------------------- what a call's step leaves ---------------------- *)

LEMMA StoredIs ==
  ASSUME PlainPrograms, IInv, NEW c \in Calls
  PROVE  /\ Stored(c) \in Bodies /\ IsCtx(ctx[Stored(c)])
         /\ c \in Inside => Stored(c) = Body(c) /\ Stored(c) \in Flows
         /\ c \notin Inside => Stored(c) \in {Main} \cup (Calls \ Flows)
<1>1. CASE c \in Inside
  BY <1>1, InsideStored DEF IInv, Typed
<1>2. CASE c \notin Inside
  BY <1>2, OutsideStored
<1> QED BY <1>1, <1>2

(* A context put back with the workflow and the step it had. *)
LEMMA StoresSteady ==
  ASSUME PlainPrograms, IInv, NEW c \in Calls, NEW x, IsCtx(x), Stores(c, x),
         x.wf = ctx[Stored(c)].wf, x.step = ctx[Stored(c)].step
  PROVE  /\ Steady(c) /\ DOMAIN ctx' = Bodies /\ \A b \in Bodies : IsCtx(ctx'[b])
         /\ \A b \in Flows : b # Body(c) => ctx'[b] = ctx[b]
         /\ ~NoneStored(c) => ctx'[Stored(c)] = x
<1>1. /\ Stored(c) \in Bodies
      /\ c \in Inside => Stored(c) = Body(c)
      /\ c \notin Inside => Stored(c) \in {Main} \cup (Calls \ Flows)
  BY StoredIs
<1>2. DOMAIN ctx = Bodies /\ \A b \in Bodies : IsCtx(ctx[b])
  BY DEF IInv, Typed
<1>3. Main \in Bodies /\ Calls \subseteq Bodies /\ Flows \subseteq Calls /\ ctx[Main] = NoCtx
  BY DEF Bodies, Flows, IInv
<1>4. Main \notin Flows
  BY ProgramIs DEF IInv, Typed, IsProgram, Flows, Calls
<1>5. CASE NoneStored(c)
  BY <1>2, <1>5 DEF Stores, Steady, IInv
<1>6. CASE ~NoneStored(c)
  <2>1. ctx' = [ctx EXCEPT ![Stored(c)] = x] /\ ctx[Stored(c)] # NoCtx
    BY <1>6 DEF Stores, NoneStored
  <2>2. Steady(c)
    BY <1>1, <1>2, <1>3, <2>1 DEF Steady, StepLike
  <2> QED BY <1>1, <1>2, <1>3, <1>4, <1>6, <2>1, <2>2
<1> QED BY <1>5, <1>6

LEMMA CtxSteady ==
  ASSUME IInv, UNCHANGED ctx, NEW c
  PROVE  Steady(c) /\ DOMAIN ctx' = Bodies /\ \A b \in Bodies : IsCtx(ctx'[b])
BY DEF IInv, Typed, Steady

(* Rows that stay make the same ids and places right. *)
LEMMA RowsSame ==
  ASSUME IInv, UNCHANGED <<program, crashes, rows>>
  PROVE  /\ \A d, w : RightId(d, w)' = RightId(d, w)
         /\ \A d, k : RightKey(d, k)' = RightKey(d, k)
         /\ \A d : Own(d)' = Own(d)
         /\ \A w : Owner(w)' = Owner(w)
         /\ (RowsRight /\ OneEach)'
<1>1. \A d, w : RightId(d, w)' = RightId(d, w)
  BY TextSame DEF RightId, Owner
<1>2. \A d, k : RightKey(d, k)' = RightKey(d, k)
  BY TextSame DEF RightKey, Owner
<1>3. (RowsRight /\ OneEach)'
  BY <1>1 DEF RowsRight, OneEach, Owner, IInv
<1> QED BY <1>1, <1>2, <1>3 DEF Own, Owner

LEMMA LogKept ==
  ASSUME IInv, UNCHANGED <<program, crashes, rows>>, NEW c \in Calls,
         UNCHANGED ops \/ \E k : RightKey(c, k) /\ ops' = Written(k, c)
  PROVE  LogRight' /\ \A k \in DOMAIN ops' : ops'[k] \in Calls
<1>1. \A d, k : RightKey(d, k)' = RightKey(d, k)
  BY RowsSame
<1>2. \A k \in DOMAIN ops : RightKey(ops[k], k) /\ ops[k] \in Calls
  BY DEF IInv, Typed, LogRight
<1>3. CASE UNCHANGED ops
  BY <1>1, <1>2, <1>3 DEF LogRight
<1>4. CASE \E k : RightKey(c, k) /\ ops' = Written(k, c)
  <2>1. PICK k : RightKey(c, k) /\ ops' = Written(k, c)
    BY <1>4
  <2>2. \A j \in DOMAIN ops' : ops'[j] \in Calls /\ RightKey(ops'[j], j)
    BY <1>2, <2>1 DEF Written
  <2> QED BY <1>1, <2>2 DEF LogRight
<1> QED BY <1>3, <1>4

(* A call under way moves on in its workflow's body, or settles there. *)
LEMMA FlowMoved ==
  ASSUME PlainPrograms, NamesApart, IInv, NEW c \in Inside, Kept(c), Flying(c),
         NEW b, b = Body(c), b \in live' <=> b \in live, Op(c) \notin Patches,
         \/ ctx'[b] = ctx[b] /\ Flying(c)'
         \/ at'[c] \in Settled /\ ctx'[b] = Left(c, ctx[b], had[c])
  PROVE  FlowRight(b)'
<1>1. /\ program' = program /\ c \in Calls /\ b \in Flows /\ b \in Calls /\ c \in InBody(b)
  BY InsideStored DEF Kept
<1>2. FlowCtx(b) /\ b \in live /\ b \in live' /\ IsCtx(ctx[b])
  <2>1. FlowRight(b)
    BY <1>1 DEF IInv
  <2>2. b \in live
    BY <1>1, <2>1 DEF FlowRight, Flying
  <2> QED BY <2>2, InsideFlow
<1>3. \A d \in InBody(b) \ {c} : d \in Calls /\ at'[d] = at[d]
  BY DEF Kept, InBody
<1>4. at[c] # "todo" /\ at'[c] # "todo"
  BY DEF Flying, Settled
<1>5. Taken(b)' = Taken(b)
  <2>1. InBody(b)' = InBody(b) /\ \A d : Op(d)' = Op(d)
    BY <1>1, TextSame
  <2> QED BY <1>1, <1>3, <1>4, <2>1 DEF Taken
<1>6. Count(Taken(b))' = Count(Taken(b))
  BY <1>1, <1>5, TextSame
<1>7. Shaded' = Shaded
  BY <1>1, TextSame
<1>8. CASE ctx'[b] = ctx[b] /\ Flying(c)'
  <2>1. ScopeOpen(b) => ScopeOpen(b)'
    BY <1>1, <1>3, <1>8, TextSame DEF ScopeOpen, Flying
  <2> QED BY <1>2, <1>6, <1>7, <1>8, <2>1 DEF FlowRight, FlowCtx, Kept
<1>9. CASE at'[c] \in Settled /\ ctx'[b] = Left(c, ctx[b], had[c])
  <2>1. IsProgram(program)
    BY ProgramIs DEF IInv, Typed
  <2>2. CASE Scoped(c)
    <3>1. had[c] = FALSE
      BY <1>1, <2>2 DEF IInv, ScopeRight, Typed
    <3>2. /\ ctx'[b].wf = ctx[b].wf /\ ctx'[b].next = ctx[b].next /\ ctx'[b].step = ctx[b].step
          /\ ctx'[b].assigned = NoId /\ ctx'[b].own = FALSE
      <4>1. had[c] \in BOOLEAN
        BY <1>1 DEF IInv, Typed
      <4> DEFINE y == Left(c, ctx[b], had[c])
      <4>2. /\ y.wf = ctx[b].wf /\ y.next = ctx[b].next /\ y.step = ctx[b].step
            /\ had[c] = FALSE => y.assigned = NoId /\ y.own = FALSE
        <5>1. \A x : IsCtx(x) =>
                /\ Left(c, x, had[c]).wf = x.wf /\ Left(c, x, had[c]).next = x.next
                /\ Left(c, x, had[c]).step = x.step
          BY <1>1, <2>1, <4>1, LeftIs
        <5>2. \A x : IsCtx(x) /\ had[c] = FALSE =>
                Left(c, x, had[c]).assigned = NoId /\ Left(c, x, had[c]).own = FALSE
          BY <1>1, <2>1, <2>2, <4>1, LeftIs
        <5> QED BY <1>2, <5>1, <5>2
      <4>3. ctx'[b] = y
        BY <1>9
      <4> HIDE DEF y
      <4> QED BY <3>1, <4>2, <4>3
    <3> QED BY <1>2, <1>6, <3>2 DEF FlowRight, FlowCtx, Kept
  <2>3. CASE ~Scoped(c)
    <3>1. ctx'[b] = ctx[b]
      <4>1. had[c] \in BOOLEAN
        BY <1>1 DEF IInv, Typed
      <4> QED BY <1>1, <1>2, <1>9, <2>1, <2>3, <4>1, LeftIs
    <3>2. ScopeOpen(b) => ScopeOpen(b)'
      BY <1>1, <1>3, <2>3, TextSame DEF ScopeOpen, Flying
    <3> QED BY <1>2, <1>6, <1>7, <3>1, <3>2 DEF FlowRight, FlowCtx, Kept
  <2> QED BY <2>2, <2>3
<1> QED BY <1>8, <1>9

LEMMA FlowsKeep ==
  ASSUME IInv, NEW c \in Calls, Kept(c), UNCHANGED live,
         \A b \in Flows : b # Body(c) => ctx'[b] = ctx[b],
         \A b \in Flows : b = Body(c) => FlowRight(b)'
  PROVE  \A b \in Flows : FlowRight(b)'
<1> SUFFICES ASSUME NEW b \in Flows PROVE FlowRight(b)'
  OBVIOUS
<1>1. CASE b = Body(c)
  BY <1>1
<1>2. CASE b # Body(c)
  BY <1>2, FlowStays DEF InBody
<1> QED BY <1>1, <1>2

(* A call that settles puts the context back as its scope found it. *)
LEMMA SettleIs ==
  ASSUME PlainPrograms, IInv, NEW c \in Calls, Settle(c)
  PROVE  /\ Stores(c, Left(c, ctx[Stored(c)], had[c])) /\ IsCtx(Left(c, ctx[Stored(c)], had[c]))
         /\ Left(c, ctx[Stored(c)], had[c]).wf = ctx[Stored(c)].wf
         /\ Left(c, ctx[Stored(c)], had[c]).step = ctx[Stored(c)].step
<1>1. IsCtx(ctx[Stored(c)]) /\ IsProgram(program) /\ had[c] \in BOOLEAN
  BY StoredIs, ProgramIs DEF IInv, Typed
<1>2. Stores(c, Left(c, ctx[Stored(c)], had[c]))
  BY DEF Settle, Stores
<1> QED BY <1>1, <1>2, LeftIs

(* A call under way is answered: it goes on or settles, with what it has. *)
LEMMA Answered ==
  ASSUME PlainPrograms, NamesApart, IInv, NEW c \in Calls, Flying(c), Op(c) \notin Patches,
         UNCHANGED <<program, copy, home, key, had, patched, live, rows, crashes>>,
         Settle(c) \/ \E place \in Places \ (Settled \cup {"todo"}) : Goes(c, place),
         PlaceRight(c)',
         UNCHANGED ops \/ \E k : RightKey(c, k) /\ ops' = Written(k, c),
         UNCHANGED seen \/ \E k : RightKey(c, k) /\ Sees(c, At(k))
  PROVE  IInv'
<1>1. /\ at \in [Calls -> Places] /\ DOMAIN seen = Calls /\ seen[c] \subseteq {c}
      /\ Main \notin Calls
  BY ProgramIs DEF IInv, Typed, EachCallItsOwn, IsProgram, Calls
<1>2. /\ at' \in [Calls -> Places] /\ at'[c] # "todo"
      /\ \A d \in Calls \ {c} : at'[d] = at[d]
  BY <1>1 DEF Settle, Goes, Places, Settled
<1>3. /\ seen'[c] \subseteq {c} /\ DOMAIN seen' = Calls
      /\ \A d \in Calls \ {c} : seen'[d] = seen[d]
  <2>1. CASE UNCHANGED seen
    BY <1>1, <2>1
  <2>2. CASE \E k : RightKey(c, k) /\ Sees(c, At(k))
    <3>1. PICK k : RightKey(c, k) /\ Sees(c, At(k))
      BY <2>2
    <3>2. At(k) \subseteq {c}
      BY <3>1, OwnFound DEF IInv
    <3> QED BY <1>1, <3>1, <3>2 DEF Sees
  <2> QED BY <2>1, <2>2
<1>4. Kept(c)
  BY <1>2, <1>3, RowsSame DEF Kept
<1>5. /\ Steady(c) /\ DOMAIN ctx' = Bodies /\ \A b \in Bodies : IsCtx(ctx'[b])
      /\ \A b \in Flows : b # Body(c) => ctx'[b] = ctx[b]
  <2>1. CASE Settle(c)
    BY <2>1, SettleIs, StoresSteady
  <2>2. CASE \E place \in Places \ (Settled \cup {"todo"}) : Goes(c, place)
    BY <2>2, CtxSteady DEF Goes
  <2> QED BY <2>1, <2>2
<1>6. \A b \in Flows : FlowRight(b)'
  <2>1. ASSUME c \in Inside, NEW b \in Flows, b = Body(c) PROVE FlowRight(b)'
    <3>1. CASE Settle(c)
      <4>1. Stored(c) = b /\ ~NoneStored(c)
        <5>1. b \in live
          BY <2>1, InsideStored DEF IInv, FlowRight, Flying
        <5> QED BY <2>1, <5>1, InsideFlow, InsideStored
      <4>2. ctx'[b] = Left(c, ctx[b], had[c])
        BY <3>1, <4>1, SettleIs, StoresSteady
      <4>3. at'[c] \in Settled
        BY <1>1, <3>1 DEF Settle, Settled
      <4> QED BY <1>4, <2>1, <4>2, <4>3, FlowMoved
    <3>2. CASE \E place \in Places \ (Settled \cup {"todo"}) : Goes(c, place)
      <4>1. ctx'[b] = ctx[b] /\ Flying(c)'
        BY <1>1, <3>2 DEF Goes, Flying, Settled
      <4> QED BY <1>4, <2>1, <4>1, FlowMoved
    <3> QED BY <3>1, <3>2
  <2>2. \A b \in Flows : b = Body(c) => c \in Inside
    BY DEF Inside
  <2> QED BY <1>4, <1>5, <2>1, <2>2, FlowsKeep
<1>7. LogRight' /\ \A k \in DOMAIN ops' : ops'[k] \in Calls
  BY LogKept
<1>8. (Typed /\ RowsRight /\ OneEach)'
  <2>1. Calls' = Calls /\ Bodies' = Bodies /\ (RowsRight /\ OneEach)' /\ \A w : Owner(w)' = Owner(w)
    BY RowsSame, TextSame
  <2>2. Typed
    BY DEF IInv
  <2> QED BY <1>2, <1>3, <1>5, <1>7, <2>1, <2>2 DEF Typed
<1>9. (KeyRight(c) /\ ScopeRight(c) /\ PatchRight(c) /\ FirstLife(c))' /\ HomeRight(c)'
  <2>1. KeyRight(c) /\ ScopeRight(c) /\ HomeRight(c)
    BY DEF IInv, Bodies
  <2>2. KeyRight(c)'
    BY <2>1, RowsSame, TextSame DEF KeyRight
  <2>3. ScopeRight(c)' /\ HomeRight(c)'
    BY <2>1, TextSame DEF ScopeRight, HomeRight
  <2>4. PatchRight(c)' /\ FirstLife(c)'
    BY <1>2, TextSame DEF PatchRight, FirstLife
  <2> QED BY <2>2, <2>3, <2>4
<1>10. at[c] \notin Settled /\ at[c] # "todo"
  BY DEF Flying
<1> QED BY <1>2, <1>3, <1>4, <1>5, <1>6, <1>7, <1>8, <1>9, <1>10, StepKeeps

(* A call that is settled has nothing to show of its place. *)
LEMMA SettledPlace ==
  ASSUME NEW c, at'[c] \in Settled
  PROVE  PlaceRight(c)'
BY DEF PlaceRight, Settled

LEMMA SettlesAt ==
  ASSUME IInv, NEW c \in Calls, Settle(c)
  PROVE  PlaceRight(c)'
<1>1. at'[c] \in Settled
  BY DEF IInv, Typed, Settle, Settled
<1> QED BY <1>1, SettledPlace

(* ------------------------------ the actions ----------------------------- *)

LEMMA ReturnKeeps ==
  ASSUME PlainPrograms, NamesApart, IInv, NEW c \in Calls, Return(c)
  PROVE  IInv'
<1>1. at[c] = "body" /\ Op(c) \notin Patches /\ Flying(c) /\ at \in [Calls -> Places]
  BY DEF Return, IInv, PlaceRight, Flying, Settled, Typed
<1>2. CASE key[c] = <<>>
  <2>1. Settle(c)
    BY <1>2 DEF Return
  <2> QED BY <1>1, <2>1, SettlesAt, Answered DEF Return
<1>3. CASE key[c] # <<>>
  <2>1. Goes(c, "record")
    BY <1>3 DEF Return
  <2>2. PlaceRight(c)'
    BY <1>1, <1>3, <2>1, TextSame DEF Return, PlaceRight, Goes
  <2>3. "record" \in Places \ (Settled \cup {"todo"})
    BY DEF Places, Settled
  <2> QED BY <1>1, <2>1, <2>2, <2>3, Answered DEF Return
<1> QED BY <1>2, <1>3

LEMMA RecordKeeps ==
  ASSUME PlainPrograms, NamesApart, IInv, NEW c \in Calls, Record(c)
  PROVE  IInv'
<1>1. /\ at[c] = "record" /\ Op(c) \notin Patches /\ Flying(c) /\ at \in [Calls -> Places]
      /\ key[c] # <<>>
  BY DEF Record, IInv, PlaceRight, Flying, Settled, Typed
<1>2. RightKey(c, key[c][1])
  BY <1>1 DEF IInv, KeyRight, Patches
<1>3. /\ UNCHANGED ops \/ \E k : RightKey(c, k) /\ ops' = Written(k, c)
      /\ \E k : RightKey(c, k) /\ Sees(c, At(k))
  BY <1>2 DEF Record
<1>4. CASE Op(c) = "call"
  <2>1. Goes(c, "await")
    BY <1>4 DEF Record
  <2>2. PlaceRight(c)'
    BY <1>1, <1>4, <2>1, TextSame DEF Record, PlaceRight, Goes
  <2>3. "await" \in Places \ (Settled \cup {"todo"})
    BY DEF Places, Settled
  <2> QED BY <1>1, <1>3, <2>1, <2>2, <2>3, Answered DEF Record
<1>5. CASE Op(c) # "call"
  <2>1. Settle(c)
    BY <1>5 DEF Record
  <2> QED BY <1>1, <1>3, <2>1, SettlesAt, Answered DEF Record
<1> QED BY <1>4, <1>5

LEMMA RecordTimeoutKeeps ==
  ASSUME PlainPrograms, NamesApart, IInv, NEW c \in Calls, RecordTimeout(c)
  PROVE  IInv'
<1>1. /\ at[c] = "record" /\ Op(c) \notin Patches /\ Flying(c) /\ at \in [Calls -> Places]
      /\ key[c] # <<>> /\ Op(c) \in TwoIds
  BY DEF RecordTimeout, IInv, PlaceRight, Flying, Settled, Typed
<1>2. RightKey(c, key[c][2])
  BY <1>1 DEF IInv, KeyRight
<1>3. /\ \E k : RightKey(c, k) /\ ops' = Written(k, c)
      /\ \E k : RightKey(c, k) /\ Sees(c, At(k))
  BY <1>2 DEF RecordTimeout
<1>4. Goes(c, "record")
  BY <1>1 DEF RecordTimeout, Goes
<1>5. PlaceRight(c)'
  BY <1>1, TextSame DEF RecordTimeout, PlaceRight
<1>6. "record" \in Places \ (Settled \cup {"todo"})
  BY DEF Places, Settled
<1> QED BY <1>1, <1>3, <1>4, <1>5, <1>6, Answered DEF RecordTimeout

LEMMA GetResultKeeps ==
  ASSUME PlainPrograms, NamesApart, IInv, NEW c \in Calls, GetResult(c)
  PROVE  IInv'
<1>1. /\ at[c] = "await" /\ Op(c) \notin Patches /\ Flying(c)
      /\ key[c] = <<>> \/ Op(c) = "call"
  BY DEF GetResult, IInv, PlaceRight, Flying, Settled
<1>2. Settle(c) /\ PlaceRight(c)'
  BY SettlesAt DEF GetResult
<1>3. CASE key[c] = <<>>
  <2>1. UNCHANGED <<ops, seen>>
    BY <1>3 DEF GetResult
  <2> QED BY <1>1, <1>2, <2>1, Answered DEF GetResult
<1>4. CASE key[c] # <<>>
  <2>1. RightKey(c, key[c][2])
    BY <1>1, <1>4 DEF IInv, KeyRight, TwoIds
  <2>2. /\ UNCHANGED ops \/ \E k : RightKey(c, k) /\ ops' = Written(k, c)
        /\ \E k : RightKey(c, k) /\ Sees(c, At(k))
    BY <1>4, <2>1 DEF GetResult
  <2> QED BY <1>1, <1>2, <2>2, Answered DEF GetResult
<1> QED BY <1>3, <1>4

(* A look that finds nothing runs a step's function in the context copied. *)
LEMMA LookKeeps ==
  ASSUME PlainPrograms, NamesApart, IInv, NEW c \in Calls, Look(c)
  PROVE  IInv'
<1>1. /\ at[c] = "read" /\ Op(c) \notin Patches /\ Flying(c) /\ at \in [Calls -> Places]
      /\ key[c] # <<>>
  BY DEF Look, IInv, PlaceRight, Flying, Settled, Typed
<1>2. RightKey(c, key[c][1]) /\ PlaceRight(c)
  BY <1>1 DEF IInv, KeyRight, Patches
<1>3. CASE key[c][1] \notin DOMAIN ops /\ Op(c) \in {"step", "runStep"}
  <2>1. /\ at' = [at EXCEPT ![c] = "body"] /\ ctx' = [ctx EXCEPT ![c] = copy[c]]
        /\ home' = [home EXCEPT ![c] = c]
        /\ UNCHANGED <<program, copy, key, had, patched, live, ops, rows, crashes>>
        /\ Sees(c, At(key[c][1]))
    BY <1>3 DEF Look
  <2>2. c \in Calls \ Flows /\ StepLike(copy[c]) /\ IsCtx(copy[c]) /\ c \in Bodies
    BY <1>1, <1>2, <1>3 DEF Flows, Starts, PlaceRight, IInv, Typed, Bodies
  <2>3. /\ DOMAIN ctx = Bodies /\ \A b \in Bodies : IsCtx(ctx[b])
        /\ ctx[Main] = NoCtx /\ Main \notin Calls /\ Main \in Bodies /\ Calls \subseteq Bodies
        /\ home \in [Bodies -> Bodies] /\ DOMAIN seen = Calls
        /\ seen[c] \subseteq {c}
    BY ProgramIs DEF IInv, Typed, IsProgram, Calls, Bodies, EachCallItsOwn
  <2>4. At(key[c][1]) \subseteq {c}
    BY <1>2, OwnFound DEF IInv
  <2>5. seen'[c] \subseteq {c} /\ DOMAIN seen' = Calls /\ \A d \in Calls \ {c} : seen'[d] = seen[d]
    BY <2>1, <2>3, <2>4 DEF Sees
  <2>6. Kept(c)
    BY <1>1, <2>1, <2>3, <2>5, RowsSame DEF Kept
  <2>7. Steady(c) /\ DOMAIN ctx' = Bodies /\ \A b \in Bodies : IsCtx(ctx'[b])
    BY <2>1, <2>2, <2>3 DEF Steady
  <2>8. \A b \in Flows : FlowRight(b)'
    <3>1. \A b \in Flows : ctx'[b] = ctx[b]
      BY <2>1, <2>2, <2>3 DEF Flows
    <3>2. ASSUME NEW b \in Flows, b = Body(c) PROVE FlowRight(b)'
      <4>1. c \in Inside
        BY <3>2 DEF Inside
      <4>2. Flying(c)'
        BY <1>1, <2>1 DEF Flying, Settled
      <4> QED BY <1>1, <2>1, <2>6, <3>1, <3>2, <4>1, <4>2, FlowMoved
    <3> QED BY <2>1, <2>6, <3>1, <3>2, FlowsKeep
  <2>9. (Typed /\ RowsRight /\ OneEach /\ LogRight)'
    <3>1. LogRight' /\ \A k \in DOMAIN ops' : ops'[k] \in Calls
      BY <2>1, LogKept
    <3>2. Calls' = Calls /\ Bodies' = Bodies /\ (RowsRight /\ OneEach)' /\ \A w : Owner(w)' = Owner(w)
      BY <2>1, RowsSame, TextSame
    <3>3. Typed /\ at' \in [Calls -> Places] /\ home' \in [Bodies -> Bodies]
      BY <1>1, <2>1, <2>2, <2>3 DEF IInv, Places
    <3> QED BY <2>1, <2>5, <2>7, <3>1, <3>2, <3>3 DEF Typed
  <2>10. HomeRight(c)' /\ PlaceRight(c)'
    <3>1. /\ home'[c] = c /\ at'[c] = "body" /\ ctx'[c] = copy[c] /\ Flows' = Flows /\ Calls' = Calls
          /\ Op(c)' = Op(c) /\ c # Main
      BY <1>1, <2>1, <2>2, <2>3, TextSame
    <3>2. RunsRight(c)'
      BY <2>2, <3>1 DEF RunsRight, StepLike
    <3> QED BY <1>1, <2>2, <3>1, <3>2 DEF HomeRight, PlaceRight
  <2>11. (KeyRight(c) /\ ScopeRight(c) /\ PatchRight(c) /\ FirstLife(c))'
    <3>1. KeyRight(c) /\ ScopeRight(c) /\ at'[c] = "body"
      BY <1>1, <2>1 DEF IInv
    <3>2. KeyRight(c)'
      BY <2>1, <3>1, RowsSame, TextSame DEF KeyRight
    <3>3. ScopeRight(c)'
      BY <1>1, <2>1, <3>1, TextSame DEF ScopeRight
    <3>4. PatchRight(c)' /\ FirstLife(c)'
      BY <3>1 DEF PatchRight, FirstLife, Settled
    <3> QED BY <3>2, <3>3, <3>4
  <2>12. at'[c] = "body"
    BY <1>1, <2>1
  <2> QED BY <1>1, <2>5, <2>6, <2>7, <2>8, <2>9, <2>10, <2>11, <2>12, StepKeeps DEF Flying
<1>4. CASE ~(key[c][1] \notin DOMAIN ops /\ Op(c) \in {"step", "runStep"})
  <2>1. /\ UNCHANGED <<program, copy, home, key, had, patched, live, ops, rows, crashes>>
        /\ \E k : RightKey(c, k) /\ Sees(c, At(k))
        /\ \/ Goes(c, "create") /\ Op(c) \in Starts
           \/ Goes(c, "record")
           \/ Goes(c, "await") /\ Op(c) = "call"
           \/ Settle(c)
    BY <1>2, <1>4 DEF Look
  <2>2. CASE Goes(c, "create") /\ Op(c) \in Starts
    <3>1. MayCreate(c)'
      <4>1. MayCreate(c)
        BY <1>1, <1>2, <2>2 DEF PlaceRight
      <4> QED BY <2>1, <4>1, RowsSame, TextSame DEF MayCreate
    <3>2. PlaceRight(c)'
      BY <1>1, <2>1, <2>2, <3>1, TextSame DEF PlaceRight, Goes
    <3>3. "create" \in Places \ (Settled \cup {"todo"})
      BY DEF Places, Settled
    <3> QED BY <1>1, <2>1, <2>2, <3>2, <3>3, Answered
  <2>3. CASE Goes(c, "record")
    <3>1. PlaceRight(c)'
      BY <1>1, <2>1, <2>3, TextSame DEF PlaceRight, Goes
    <3>2. "record" \in Places \ (Settled \cup {"todo"})
      BY DEF Places, Settled
    <3> QED BY <1>1, <2>1, <2>3, <3>1, <3>2, Answered
  <2>4. CASE Goes(c, "await") /\ Op(c) = "call"
    <3>1. PlaceRight(c)'
      BY <1>1, <2>1, <2>4, TextSame DEF PlaceRight, Goes
    <3>2. "await" \in Places \ (Settled \cup {"todo"})
      BY DEF Places, Settled
    <3> QED BY <1>1, <2>1, <2>4, <3>1, <3>2, Answered
  <2>5. CASE Settle(c)
    BY <1>1, <2>1, <2>5, SettlesAt, Answered
  <2> QED BY <2>1, <2>2, <2>3, <2>4, <2>5
<1> QED BY <1>3, <1>4

(* A call takes the ids after those taken, or none yet where it is a patch. *)
LEMMA FlowTakes ==
  ASSUME PlainPrograms, NamesApart, IInv, NEW c \in Inside, Kept(c),
         NEW b, b = Body(c), b \in live, b \in live', c \notin Taken(b), at'[c] # "todo",
         ctx'[b].wf = ctx[b].wf, ctx'[b].step = ctx[b].step,
         ctx'[b].next = ctx[b].next +
           (IF Op(c) \in Patches /\ at'[c] = "read" THEN 0 ELSE Width(c)),
         ctx'[b].assigned # NoId => ScopeOpen(b)',
         ctx'[b].own /\ b \notin Shaded => ScopeOpen(b)'
  PROVE  FlowRight(b)'
<1>1. /\ program' = program /\ c \in Calls /\ b \in Flows /\ b \in Calls /\ c \in InBody(b)
      /\ IsProgram(program)
  BY InsideStored, ProgramIs DEF Kept, IInv, Typed
<1>2. FlowCtx(b)
  BY InsideFlow
<1>3. \A d \in InBody(b) \ {c} : d \in Calls /\ at'[d] = at[d]
  BY DEF Kept, InBody
<1>4. InBody(b)' = InBody(b) /\ (\A d : Op(d)' = Op(d)) /\ Shaded' = Shaded /\ \A S : Count(S)' = Count(S)
  BY <1>1, TextSame
<1>5. Taken(b)' = IF Op(c) \in Patches /\ at'[c] = "read" THEN Taken(b) ELSE Taken(b) \cup {c}
  BY <1>1, <1>3, <1>4 DEF Taken
<1>6. Taken(b) \in SUBSET Calls
  BY DEF Taken, InBody
<1>7. Count(Taken(b))' = Count(Taken(b)) +
        (IF Op(c) \in Patches /\ at'[c] = "read" THEN 0 ELSE Width(c))
  <2>1. Count(Taken(b)) \in Nat /\ Count(Taken(b) \cup {c}) = Count(Taken(b)) + Width(c)
    BY <1>1, <1>6, CountType, CountAdd
  <2>2. Count(Taken(b))' = Count(Taken(b)')
    BY <1>4
  <2> QED BY <1>5, <2>1, <2>2
<1>8. ctx'[b].next = Count(Taken(b))'
  BY <1>2, <1>7 DEF FlowCtx
<1> QED BY <1>1, <1>2, <1>4, <1>8 DEF FlowRight, FlowCtx, Kept

LEMMA ScopeStays ==
  ASSUME NEW c \in Calls, Kept(c), NEW b, c \in InBody(b)
  PROVE  /\ Scoped(c) /\ Flying(c)' => ScopeOpen(b)'
         /\ ScopeOpen(b) /\ ~Scoped(c) => ScopeOpen(b)'
<1>1. program' = program /\ \A d \in InBody(b) \ {c} : d \in Calls /\ at'[d] = at[d]
  BY DEF Kept, InBody
<1> QED BY <1>1, TextSame DEF ScopeOpen, Flying

(* A patch takes its id with its answer, which is yes. *)
LEMMA CheckPatchKeeps ==
  ASSUME PlainPrograms, NamesApart, IInv, NEW c \in Calls, CheckPatch(c)
  PROVE  IInv'
<1> DEFINE k == key[c][1]
           enters == Op(c) = "patch" /\ k \notin DOMAIN ops
           entry == enters \/ At(k) = {c}
           z == IF entry THEN Taking(ctx[Stored(c)], 1) ELSE ctx[Stored(c)]
           y == Left(c, z, had[c])
<1>1. /\ at[c] = "read" /\ Op(c) \in Patches
      /\ ops' = IF enters THEN Written(k, c) ELSE ops
      /\ patched' = [patched EXCEPT ![c] = entry \/ Op(c) = "deprecatePatch"]
      /\ ctx' = [ctx EXCEPT ![Stored(c)] = y]
      /\ at' = [at EXCEPT ![c] = "done"]
      /\ UNCHANGED <<program, copy, home, key, had, seen, live, rows, crashes>>
  <2>1. ops' = IF enters THEN Written(k, c) ELSE ops
    BY DEF CheckPatch
  <2>2. patched' = [patched EXCEPT ![c] = entry \/ Op(c) = "deprecatePatch"]
    BY DEF CheckPatch
  <2>3. ctx' = [ctx EXCEPT ![Stored(c)] = y]
    BY DEF CheckPatch
  <2> HIDE DEF entry, enters, y
  <2> QED BY <2>1, <2>2, <2>3 DEF CheckPatch
<1>2. /\ at \in [Calls -> Places] /\ key[c] # <<>> /\ c \in Inside /\ Flying(c)
      /\ patched \in [Calls -> BOOLEAN] /\ had[c] \in BOOLEAN /\ DOMAIN seen = Calls
      /\ seen[c] \subseteq {c} /\ Main \notin Calls
  BY <1>1, ProgramIs DEF IInv, Typed, PlaceRight, Flying, Settled, EachCallItsOwn, IsProgram, Calls
<1>3. IsProgram(program) /\ IsPlain(program)
  BY ProgramIs DEF IInv, Typed
<1>4. Made(c) /\ ~Keyed(c)
  <2>1. PatchIsPlain(program, c)
    BY <1>3 DEF IsPlain, Calls
  <2> QED BY <1>1, <2>1 DEF PatchIsPlain, Made, Keyed, Patches, Op
<1>5. /\ Op(c) = "patch" => RightKey(c, k) /\ entry /\ Width(c) = 1
      /\ Op(c) = "deprecatePatch" => ~entry /\ Width(c) = 0
  <2>1. CASE Op(c) = "patch"
    <3>1. RightKey(c, k)
      BY <1>2, <2>1 DEF IInv, KeyRight
    <3>2. k \in DOMAIN ops => At(k) = {c}
      <4>1. At(k) \subseteq {c}
        BY <3>1, OwnFound DEF IInv
      <4> QED BY <4>1 DEF At
    <3> HIDE DEF k
    <3> QED BY <1>4, <2>1, <3>1, <3>2 DEF Width
  <2>2. CASE Op(c) = "deprecatePatch"
    <3>1. Width(c) = 0
      BY <2>2 DEF Width
    <3>2. At(k) = {c} => RightKey(c, k)
      BY DEF At, IInv, LogRight
    <3>3. ~ RightKey(c, k)
      BY <1>2, <1>3, <3>1, OffsetType DEF RightKey
    <3> QED BY <2>2, <3>1, <3>2, <3>3
  <2> QED BY <2>1, <2>2
<1>6. /\ IsCtx(ctx[Stored(c)]) /\ Stored(c) = Body(c) /\ Body(c) \in live /\ ~NoneStored(c)
      /\ Body(c) \in Flows /\ Body(c) \in Bodies /\ c \in InBody(Body(c)) /\ FlowCtx(Body(c))
      /\ DOMAIN ctx = Bodies
  <2>1. Body(c) \in live
    BY <1>2, InsideStored DEF IInv, FlowRight, Flying
  <2> QED BY <1>2, <2>1, InsideStored, InsideFlow DEF IInv, Typed
<1>7. /\ IsCtx(z) /\ z.wf = ctx[Body(c)].wf /\ z.step = ctx[Body(c)].step
      /\ z.next = ctx[Body(c)].next + Width(c)
      /\ z.assigned = ctx[Body(c)].assigned /\ z.own = ctx[Body(c)].own
  <2>1. ctx[Stored(c)].next \in Nat
    BY <1>6 DEF IsCtx
  <2>2. Op(c) \in {"patch", "deprecatePatch"}
    BY <1>1 DEF Patches
  <2> HIDE DEF entry
  <2> QED BY <1>5, <1>6, <2>1, <2>2, NextIs DEF Taking
<1>8. /\ IsCtx(y) /\ y.wf = z.wf /\ y.step = z.step /\ y.next = z.next
      /\ ~Scoped(c) => y = z
      /\ Scoped(c) => y.assigned = NoId /\ y.own = FALSE
  <2>1. Scoped(c) => had[c] = FALSE
    BY <1>2 DEF IInv, ScopeRight
  <2> HIDE DEF z
  <2>2. \A f \in BOOLEAN : /\ IsCtx(Left(c, z, f)) /\ Left(c, z, f).wf = z.wf
                           /\ Left(c, z, f).step = z.step /\ Left(c, z, f).next = z.next
                           /\ ~Scoped(c) => Left(c, z, f) = z
    BY <1>3, <1>7, LeftIs
  <2>3. Scoped(c) => Left(c, z, FALSE).assigned = NoId /\ Left(c, z, FALSE).own = FALSE
    BY <1>3, <1>7, LeftIs
  <2> QED BY <1>2, <2>1, <2>2, <2>3
<1> HIDE DEF entry, z, y, k
<1>9. Kept(c)
  BY <1>1, <1>2, RowsSame DEF Kept
<1>10. /\ Steady(c) /\ DOMAIN ctx' = Bodies /\ \A b \in Bodies : IsCtx(ctx'[b])
       /\ \A b \in Flows : b # Body(c) => ctx'[b] = ctx[b]
       /\ ctx'[Body(c)] = y
  <2>1. Stores(c, y)
    BY <1>1, <1>6 DEF Stores
  <2> QED BY <1>6, <1>7, <1>8, <2>1, StoresSteady
<1>11. \A b \in Flows : FlowRight(b)'
  <2>1. ASSUME NEW b \in Flows, b = Body(c) PROVE FlowRight(b)'
    <3>1. c \notin Taken(b) /\ at'[c] = "done" /\ b \in live /\ b \in live'
      BY <1>1, <1>2, <1>6, <2>1 DEF Taken
    <3>2. /\ ctx'[b].wf = ctx[b].wf /\ ctx'[b].step = ctx[b].step
          /\ ctx'[b].next = ctx[b].next + Width(c)
      BY <1>7, <1>8, <1>10, <2>1
    <3>3. /\ ctx'[b].assigned # NoId => ScopeOpen(b)'
          /\ ctx'[b].own /\ b \notin Shaded => ScopeOpen(b)'
      <4>1. CASE Scoped(c)
        BY <1>8, <1>10, <2>1, <4>1
      <4>2. CASE ~Scoped(c)
        <5>1. ScopeOpen(b) => ScopeOpen(b)'
          BY <1>6, <1>9, <2>1, <4>2, ScopeStays
        <5> QED BY <1>6, <1>7, <1>8, <1>10, <2>1, <4>2, <5>1 DEF FlowCtx
      <4> QED BY <4>1, <4>2
    <3> QED BY <1>2, <1>9, <2>1, <3>1, <3>2, <3>3, FlowTakes
  <2> QED BY <1>1, <1>9, <1>10, <2>1, FlowsKeep
<1>12. (Typed /\ RowsRight /\ OneEach /\ LogRight)'
  <2>1. LogRight' /\ \A j \in DOMAIN ops' : ops'[j] \in Calls
    BY <1>1, <1>5, LogKept DEF enters
  <2>2. Calls' = Calls /\ Bodies' = Bodies /\ (RowsRight /\ OneEach)' /\ \A w : Owner(w)' = Owner(w)
    BY <1>1, RowsSame, TextSame
  <2>3. entry \in BOOLEAN
    BY DEF entry
  <2>4. at' \in [Calls -> Places] /\ patched' \in [Calls -> BOOLEAN] /\ Typed
    BY <1>1, <1>2, <2>3 DEF Places, Settled, IInv
  <2> QED BY <1>1, <1>10, <2>1, <2>2, <2>4 DEF Typed
<1>13. at'[c] = "done" /\ at'[c] \in Settled
  BY <1>1, <1>2 DEF Settled
<1>14. (KeyRight(c) /\ PlaceRight(c) /\ ScopeRight(c) /\ PatchRight(c) /\ FirstLife(c))' /\ HomeRight(c)'
  <2>1. KeyRight(c) /\ HomeRight(c)
    BY DEF IInv, Bodies
  <2>2. KeyRight(c)'
    BY <1>1, <2>1, RowsSame, TextSame DEF KeyRight
  <2>3. HomeRight(c)'
    BY <1>1, <2>1, TextSame DEF HomeRight
  <2>4. PatchRight(c)'
    <3>1. patched'[c] = (entry \/ Op(c) = "deprecatePatch")
      BY <1>1, <1>2
    <3>2. patched'[c]
      BY <1>1, <1>5, <3>1 DEF Patches
    <3> QED BY <3>2 DEF PatchRight
  <2>5. ScopeRight(c)' /\ FirstLife(c)'
    BY <1>13 DEF ScopeRight, FirstLife, Flying
  <2> QED BY <1>13, <2>2, <2>3, <2>4, <2>5, SettledPlace
<1>15. at[c] # "todo" /\ at'[c] # "todo" /\ at'[c] \in Settled
  BY <1>1, <1>13
<1>16. seen'[c] \subseteq {c}
  BY <1>1, <1>2
<1> QED BY <1>9, <1>10, <1>11, <1>12, <1>14, <1>15, <1>16, StepKeeps

(* The row of a workflow that is over is who's it was. *)
LEMMA FinishKeeps ==
  ASSUME PlainPrograms, NamesApart, IInv, NEW c \in Calls, Finish(c)
  PROVE  IInv'
<1>1. PICK w \in Own(c) : rows' = [rows EXCEPT ![w].over = TRUE]
  BY DEF Finish
<1>2. UNCHANGED <<program, ctx, copy, home, at, key, had, patched, seen, live, ops, crashes>>
  BY DEF Finish
<1>3. /\ w \in DOMAIN rows /\ DOMAIN rows' = DOMAIN rows
      /\ \A v \in DOMAIN rows : /\ Owner(v)' = Owner(v)
                                /\ rows'[v] = [by |-> rows'[v].by, over |-> rows'[v].over]
  <2>1. w \in DOMAIN rows
    BY DEF Own
  <2>2. \A v \in DOMAIN rows : rows[v] = [by |-> rows[v].by, over |-> rows[v].over]
    BY DEF IInv, Typed
  <2> DEFINE r == [rows[w] EXCEPT !.over = TRUE]
  <2>3. r = [by |-> r.by, over |-> r.over] /\ r.by = rows[w].by
    <3> DEFINE q == rows[w]
    <3>1. q = [by |-> q.by, over |-> q.over]
      BY <2>1, <2>2
    <3>2. r = [q EXCEPT !.over = TRUE]
      OBVIOUS
    <3> HIDE DEF q, r
    <3>3. r = [by |-> r.by, over |-> r.over] /\ r.by = q.by
      BY <3>1, <3>2
    <3> QED BY <3>3 DEF q
  <2>4. rows' = [rows EXCEPT ![w] = r]
    BY <1>1
  <2> HIDE DEF r
  <2>5. \A v \in DOMAIN rows : rows'[v] = IF v = w THEN r ELSE rows[v]
    BY <2>1, <2>4
  <2> QED BY <2>1, <2>2, <2>3, <2>4, <2>5 DEF Owner
<1>13. crashes \in Nat /\ crashes <= crashes' /\ crashes' \in Nat
  BY <1>2 DEF IInv, Typed
<1>4. \A d, v : RightId(d, v) => RightId(d, v)'
  BY <1>2, <1>3, <1>13, RightStays
<1>5. \A d, k : RightKey(d, k) => RightKey(d, k)'
  BY <1>2, <1>3, <1>13, RightStays
<1>6. \A d : Own(d)' = Own(d)
  BY <1>3 DEF Own
<1>7. Kept(c) /\ Steady(c) /\ DOMAIN ctx' = Bodies /\ \A b \in Bodies : IsCtx(ctx'[b])
  BY <1>2, <1>3, CtxSteady DEF Kept
<1>8. \A b \in Flows : FlowRight(b)'
  BY <1>2, <1>7, FlowStays
<1>9. (Typed /\ RowsRight /\ OneEach /\ LogRight)'
  <2>1. Calls' = Calls /\ Bodies' = Bodies
    BY <1>2, TextSame
  <2>2. Typed'
    BY <1>2, <1>3, <2>1 DEF Typed, IInv
  <2>3. (RowsRight /\ OneEach)'
    BY <1>3, <1>4 DEF RowsRight, OneEach, IInv
  <2>4. LogRight'
    BY <1>2, <1>5 DEF LogRight, IInv
  <2> QED BY <2>2, <2>3, <2>4
<1>10. (KeyRight(c) /\ PlaceRight(c) /\ ScopeRight(c) /\ PatchRight(c) /\ FirstLife(c))' /\ HomeRight(c)'
  <2>1. /\ KeyRight(c) /\ PlaceRight(c) /\ ScopeRight(c) /\ PatchRight(c) /\ FirstLife(c) /\ HomeRight(c)
    BY DEF IInv, Bodies
  <2>2. KeyRight(c)'
    BY <1>2, <1>5, <2>1, TextSame DEF KeyRight
  <2>3. ScopeRight(c)' /\ PatchRight(c)' /\ FirstLife(c)' /\ HomeRight(c)'
    BY <1>2, <1>6, <2>1, TextSame DEF ScopeRight, PatchRight, FirstLife, HomeRight, Flying
  <2>4. MayCreate(c) => MayCreate(c)'
    BY <1>2, <1>4, <1>6, TextSame DEF MayCreate
  <2>5. RunsRight(c) => RunsRight(c)'
    BY <1>2, TextSame DEF RunsRight, StepLike
  <2>6. PlaceRight(c)'
    BY <1>2, <2>1, <2>4, <2>5, TextSame DEF PlaceRight, StepLike
  <2> QED BY <2>2, <2>3, <2>6
<1>11. seen'[c] \subseteq {c}
  BY <1>2 DEF IInv, EachCallItsOwn
<1>12. at'[c] = at[c]
  BY <1>2
<1> QED BY <1>7, <1>8, <1>9, <1>10, <1>11, <1>12, StepKeeps

(* A recovered workflow has taken no ids. *)
LEMMA RecoverKeeps ==
  ASSUME PlainPrograms, NamesApart, IInv, NEW c \in Calls, Recover(c)
  PROVE  IInv'
<1>1. /\ crashes > 0 /\ c \notin live /\ live' = live \cup {c}
      /\ UNCHANGED <<program, home, had, seen, patched, ops, rows, crashes>>
  BY DEF Recover
<1>2. PICK w \in Own(c) :
        IF Op(c) \in Starts
          THEN /\ ctx' = [ctx EXCEPT ![c] = WorkflowCtx(NoCtx, w)]
               /\ UNCHANGED <<copy, at, key>>
          ELSE /\ at' = [at EXCEPT ![c] = "read"]
               /\ key' = [key EXCEPT ![c] = <<<<w, 0>>>>]
               /\ copy' = [copy EXCEPT ![c] = StepCtx(WorkflowCtx(NoCtx, w), 0)]
               /\ UNCHANGED ctx
  BY DEF Recover
<1>3. /\ DOMAIN ctx = Bodies /\ (\A b \in Bodies : IsCtx(ctx[b])) /\ ctx[Main] = NoCtx
      /\ DOMAIN copy = Calls /\ (\A d \in Calls : IsCtx(copy[d]))
      /\ at \in [Calls -> Places] /\ DOMAIN key = Calls /\ live \subseteq Calls
      /\ Main \notin Calls /\ Calls \subseteq Bodies /\ seen[c] \subseteq {c}
      /\ Main \in Bodies
  BY ProgramIs DEF IInv, Typed, IsProgram, Calls, Bodies, EachCallItsOwn
<1>4. /\ w \in DOMAIN rows /\ Owner(w) = c /\ RightId(c, w)
  BY DEF Own, IInv, RowsRight
<1>5. w # NoId
  BY <1>4, IdIsSome
<1>6. LogRight' /\ (RowsRight /\ OneEach)' /\ Calls' = Calls /\ Bodies' = Bodies
      /\ \A v : Owner(v)' = Owner(v)
  BY <1>1, RowsSame, LogKept, TextSame
<1> DEFINE x == WorkflowCtx(NoCtx, w)
<1>7. /\ IsCtx(x) /\ x.wf = w /\ x.next = 0 /\ x.step = {} /\ x.assigned = NoId /\ x.own = FALSE
  BY NoCtxIs, WorkflowCtxIs
<1> HIDE DEF x
<1>8. KeyRight(c) /\ ScopeRight(c) /\ PatchRight(c) /\ HomeRight(c) /\ PlaceRight(c) /\ FirstLife(c)
  BY <1>3 DEF IInv
<1>9. CASE Op(c) \in Starts
  <2>1. ctx' = [ctx EXCEPT ![c] = x] /\ UNCHANGED <<copy, at, key>> /\ c \in Flows
    BY <1>2, <1>9 DEF x, Flows
  <2>2. Kept(c)
    BY <1>1, <1>6, <2>1 DEF Kept
  <2>3. Steady(c) /\ DOMAIN ctx' = Bodies /\ \A b \in Bodies : IsCtx(ctx'[b])
    BY <1>3, <1>7, <2>1 DEF Steady
  <2>4. \A b \in Flows : FlowRight(b)'
    <3>1. ASSUME NEW b \in Flows, b # c PROVE FlowRight(b)'
      <4>1. ctx'[b] = ctx[b] /\ (b \in live' <=> b \in live) /\ at'[c] = at[c]
        BY <1>1, <1>3, <2>1, <3>1 DEF Flows
      <4> QED BY <2>2, <4>1, FlowStays
    <3>2. FlowRight(c)'
      <4>1. \A d \in InBody(c) : at[d] = "todo"
        BY <1>1, <2>1 DEF IInv, FlowRight
      <4>2. InBody(c)' = InBody(c) /\ Count({})' = Count({})
        BY <1>1, TextSame
      <4>3. Taken(c)' = {}
        BY <2>1, <4>1, <4>2 DEF Taken
      <4>4. Count(Taken(c))' = 0
        BY <4>2, <4>3, CountEmpty
      <4>5. ctx'[c] = x /\ c \in live' /\ rows' = rows
        BY <1>1, <1>3, <2>1
      <4> QED BY <1>4, <1>7, <4>4, <4>5 DEF FlowRight, FlowCtx, Owner
    <3> QED BY <3>1, <3>2
  <2>5. Typed'
    BY <1>1, <1>3, <1>6, <2>1, <2>3 DEF Typed, IInv
  <2>6. MayCreate(c) => MayCreate(c)'
    BY <1>1, <2>1, RowsSame, TextSame DEF MayCreate
  <2>7. (KeyRight(c) /\ ScopeRight(c) /\ PatchRight(c) /\ FirstLife(c))' /\ HomeRight(c)'
    BY <1>1, <1>8, <2>1, RowsSame, TextSame DEF KeyRight, ScopeRight, PatchRight, FirstLife, HomeRight, Flying
  <2>8. PlaceRight(c)'
    <3>1. at[c] # "body"
      BY <1>8, <2>1 DEF PlaceRight, RunsRight
    <3> QED BY <1>1, <1>8, <2>1, <2>6, <3>1, TextSame DEF PlaceRight, StepLike
  <2>9. at'[c] = at[c] /\ seen'[c] \subseteq {c}
    BY <1>1, <1>3, <2>1
  <2> QED BY <1>6, <2>2, <2>3, <2>4, <2>5, <2>7, <2>8, <2>9, StepKeeps
<1>10. CASE Op(c) \notin Starts
  <2>1. /\ at' = [at EXCEPT ![c] = "read"] /\ key' = [key EXCEPT ![c] = <<<<w, 0>>>>]
        /\ copy' = [copy EXCEPT ![c] = StepCtx(x, 0)] /\ UNCHANGED ctx
    BY <1>2, <1>10 DEF x
  <2>2. c \notin Flows /\ c \notin Inside /\ Op(c) \in {"step", "send"}
    BY <1>4, <1>10 DEF RightId, Startable, Flows
  <2>3. Kept(c)
    BY <1>1, <1>3, <1>6, <2>1 DEF Kept
  <2>4. Steady(c) /\ DOMAIN ctx' = Bodies /\ \A b \in Bodies : IsCtx(ctx'[b])
    BY <2>1, CtxSteady
  <2>5. \A b \in Flows : FlowRight(b)'
    <3>1. \A b \in Flows : c \notin InBody(b) /\ b # c
      BY <2>2 DEF InBody, Inside
    <3> QED BY <1>1, <2>1, <2>3, <3>1, FlowStays
  <2>6. IsCtx(StepCtx(x, 0)) /\ StepLike(StepCtx(x, 0))
    BY <1>5, <1>7, StepCtxIs DEF StepLike
  <2>7. /\ at'[c] = "read" /\ key'[c] = <<<<w, 0>>>> /\ copy'[c] = StepCtx(x, 0)
        /\ at' \in [Calls -> Places] /\ DOMAIN key' = Calls
        /\ DOMAIN copy' = Calls /\ \A d \in Calls : IsCtx(copy'[d])
    BY <1>3, <2>1, <2>6 DEF Places
  <2>8. Typed'
    BY <1>1, <1>3, <1>6, <2>4, <2>7 DEF Typed, IInv
  <2>9. RightKey(c, <<w, 0>>)'
    <3>1. RightKey(c, <<w, 0>>)
      BY <1>4, <2>2 DEF RightKey
    <3> QED BY <1>1, <3>1, RowsSame
  <2>10. KeyRight(c)'
    <3>1. key'[c][1] = <<w, 0>> /\ Op(c)' = Op(c) /\ Op(c) \notin TwoIds
      BY <1>1, <2>2, <2>7, TextSame DEF TwoIds
    <3> QED BY <2>9, <3>1 DEF KeyRight
  <2>11. PlaceRight(c)'
    BY <1>1, <2>2, <2>6, <2>7, TextSame DEF PlaceRight, StepLike, Starts, Patches, Settled
  <2>12. (ScopeRight(c) /\ PatchRight(c) /\ FirstLife(c))' /\ HomeRight(c)'
    <3>1. HomeRight(c)'
      BY <1>1, <1>8, TextSame DEF HomeRight
    <3> QED BY <1>1, <2>2, <2>7, <3>1, TextSame DEF ScopeRight, PatchRight, FirstLife
  <2>13. seen'[c] \subseteq {c} /\ at'[c] # "todo"
    BY <1>1, <1>3, <2>7
  <2> QED BY <1>6, <2>2, <2>3, <2>4, <2>5, <2>8, <2>10, <2>11, <2>12, <2>13, StepKeeps
<1> QED BY <1>9, <1>10

(* The next process has the program, the rows and the log. *)
LEMMA CrashKeeps ==
  ASSUME PlainPrograms, NamesApart, IInv, Crash
  PROVE  IInv'
<1>1. program' = program /\ IsProgram(program)
  BY ProgramIs DEF Crash, IInv, Typed
<1>2. /\ crashes' = crashes + 1 /\ crashes \in Nat
      /\ ctx' = [b \in Bodies |-> NoCtx] /\ copy' = [d \in Calls |-> NoCtx]
      /\ home' = [b \in Bodies |-> b]
      /\ at' = [d \in Calls |-> IF Body(d) = Main THEN "done" ELSE "todo"]
      /\ key' = [d \in Calls |-> <<>>] /\ patched' = [d \in Calls |-> FALSE]
      /\ live' = {} /\ UNCHANGED <<had, seen, ops, rows>>
  BY DEF Crash, IInv, Typed
<1>3. /\ Calls' = Calls /\ Bodies' = Bodies /\ Flows' = Flows /\ Inside' = Inside
      /\ \A d : InBody(d)' = InBody(d) /\ Body(d)' = Body(d) /\ Op(d)' = Op(d)
      /\ \A v : Owner(v)' = Owner(v)
  BY <1>1, <1>2, TextSame DEF Owner
<1>4. Main \in Bodies /\ Calls \subseteq Bodies /\ Main \notin Calls /\ Flows \subseteq Calls
  BY <1>1 DEF Bodies, IsProgram, Calls, Flows
<1>5. \A d, v : RightId(d, v) => RightId(d, v)'
  BY <1>1, <1>2, <1>3, RightStays
<1>6. \A d, k : RightKey(d, k) => RightKey(d, k)'
  BY <1>1, <1>2, <1>3, RightStays
<1>7. Typed'
  BY <1>1, <1>2, <1>3, NoCtxIs DEF Typed, IInv, Places, Settled
<1>8. (RowsRight /\ OneEach /\ LogRight)'
  BY <1>2, <1>3, <1>5, <1>6 DEF RowsRight, OneEach, LogRight, IInv
<1>9. ctx'[Main] = NoCtx /\ \A b \in Bodies : HomeRight(b)'
  BY <1>2, <1>3, <1>4 DEF HomeRight, Bodies
<1>10. \A b \in Flows : \A d \in InBody(b) : at'[d] = "todo"
  BY <1>2, <1>4 DEF InBody
<1>11. \A b \in Flows : FlowRight(b)'
  BY <1>2, <1>3, <1>10 DEF FlowRight
<1>12. \A d \in Inside : at'[d] = "todo"
  BY <1>10 DEF Inside, InBody
<1>13. \A d \in Inside : InOrder(d)'
  BY <1>12 DEF InOrder
<1>14. \A d \in Calls : KeyRight(d)' /\ PlaceRight(d)'
  BY <1>2 DEF KeyRight, PlaceRight
<1>15. \A d \in Calls : ScopeRight(d)' /\ PatchRight(d)' /\ FirstLife(d)'
  <2> TAKE d \in Calls
  <2>1. at'[d] = (IF Body(d) = Main THEN "done" ELSE "todo") /\ crashes' # 0
    BY <1>2
  <2>2. ScopeRight(d)' /\ PatchRight(d)'
    BY <1>3, <1>12, <2>1 DEF ScopeRight, PatchRight, Flying, Settled
  <2>3. FirstLife(d)'
    BY <1>3, <2>1 DEF FirstLife
  <2> QED BY <2>2, <2>3
<1>16. EachCallItsOwn'
  BY <1>2, <1>3 DEF EachCallItsOwn, IInv
<1> QED BY <1>3, <1>7, <1>8, <1>9, <1>11, <1>13, <1>14, <1>15, <1>16 DEF IInv

(* A workflow is found by the call that created it, or is created where none
   of the call's is yet.                                                   *)
LEMMA CreateKeeps ==
  ASSUME PlainPrograms, NamesApart, IInv, NEW c \in Calls, Create(c)
  PROVE  IInv'
<1>0. PICK w : w = copy[c].wf
  OBVIOUS
<1>1. /\ at[c] = "create" /\ MayCreate(c) /\ RightId(c, w) /\ Flying(c) /\ Startable(c)
      /\ c \in Inside => key[c] # <<>>
  BY <1>0 DEF Create, IInv, PlaceRight, MayCreate, Flying, Settled, RightId
<1>2. /\ DOMAIN ctx = Bodies /\ (\A b \in Bodies : IsCtx(ctx[b])) /\ ctx[Main] = NoCtx
      /\ DOMAIN copy = Calls /\ (\A d \in Calls : IsCtx(copy[d]))
      /\ at \in [Calls -> Places] /\ DOMAIN key = Calls /\ live \subseteq Calls
      /\ Main \notin Calls /\ Calls \subseteq Bodies /\ seen[c] \subseteq {c}
      /\ Main \in Bodies /\ DOMAIN seen = Calls /\ IsProgram(program)
  BY ProgramIs DEF IInv, Typed, IsProgram, Calls, Bodies, EachCallItsOwn
<1>3. UNCHANGED <<program, home, had, patched, ops, crashes>>
  BY DEF Create
<1>4. at' = [at EXCEPT ![c] = IF Op(c) \notin Starts THEN IF w \in DOMAIN rows THEN "await" ELSE "read"
                              ELSE IF key[c] # <<>> THEN "record"
                              ELSE IF Op(c) = "call" THEN "await" ELSE "done"]
  BY <1>0 DEF Create
<1>5. /\ seen'[c] \subseteq {c} /\ DOMAIN seen' = Calls
      /\ \A d \in Calls \ {c} : seen'[d] = seen[d]
  <2>1. Sees(c, {Owner(v) : v \in {w} \cap DOMAIN rows})
    BY <1>0 DEF Create
  <2>2. \A v \in {w} \cap DOMAIN rows : Owner(v) = c
    BY <1>1, IdOfOne DEF IInv, RowsRight, Typed
  <2> QED BY <1>2, <2>1, <2>2 DEF Sees
<1>6. /\ at' \in [Calls -> Places] /\ at'[c] # "todo" /\ \A d \in Calls \ {c} : at'[d] = at[d]
      /\ at'[c] \in Settled => Op(c) \in Starts /\ key[c] = <<>>
      /\ at'[c] = "read" => Op(c) \notin Starts /\ w \notin DOMAIN rows
      /\ at'[c] = "record" => Op(c) \in Starts /\ key[c] # <<>>
      /\ at'[c] = "await" => (Op(c) \in Starts /\ key[c] = <<>>) \/ (Op(c) \notin Starts /\ w \in DOMAIN rows)
      /\ at'[c] \notin {"create", "body"}
  BY <1>2, <1>4 DEF Places, Settled
<1>7. Op(c) \notin Starts => Op(c) \in {"step", "send"} /\ c \notin Inside /\ c \notin Flows
  BY <1>1 DEF Startable, Flows
<1>8. c \notin Inside => key[c] = <<>> /\ Own(c) = {}
  BY <1>1 DEF MayCreate
<1>9. KeyRight(c) /\ ScopeRight(c) /\ HomeRight(c)
  BY <1>2 DEF IInv
<1>10. CASE w \in DOMAIN rows
  <2>1. UNCHANGED <<rows, live, ctx, copy, key>>
    BY <1>0, <1>10 DEF Create
  <2>2. Kept(c)
    BY <1>3, <1>5, <1>6, <2>1, RowsSame DEF Kept
  <2>3. Steady(c) /\ DOMAIN ctx' = Bodies /\ \A b \in Bodies : IsCtx(ctx'[b])
    BY <2>1, CtxSteady
  <2>4. \A b \in Flows : FlowRight(b)'
    <3>1. ASSUME NEW b \in Flows, b = Body(c) PROVE FlowRight(b)'
      <4>1. c \in Inside
        BY <3>1 DEF Inside
      <4>2. Flying(c)' /\ Op(c) \notin Patches
        BY <1>1, <1>6, <1>7, <4>1 DEF Flying, Starts, Patches
      <4> QED BY <1>1, <2>1, <2>2, <3>1, <4>1, <4>2, FlowMoved
    <3> QED BY <2>1, <2>2, <3>1, FlowsKeep
  <2>5. (Typed /\ RowsRight /\ OneEach /\ LogRight)'
    <3>1. LogRight' /\ (RowsRight /\ OneEach)' /\ Calls' = Calls /\ Bodies' = Bodies
          /\ \A v : Owner(v)' = Owner(v)
      BY <1>3, <2>1, RowsSame, LogKept, TextSame
    <3> QED BY <1>3, <1>5, <1>6, <2>1, <2>3, <3>1 DEF Typed, IInv
  <2>6. KeyRight(c)'
    BY <1>3, <1>9, <2>1, RowsSame, TextSame DEF KeyRight
  <2>7. PlaceRight(c)'
    <3>1. Op(c)' = Op(c) /\ key'[c] = key[c]
      BY <1>3, <2>1, TextSame
    <3>2. w \in Own(c) /\ c \in Inside
      <4>1. Owner(w) = c
        BY <1>1, <1>10, IdOfOne DEF IInv, RowsRight, Typed
      <4> QED BY <1>8, <1>10, <4>1 DEF Own
    <3>3. at'[c] = "record"
      BY <1>1, <1>2, <1>4, <1>7, <3>2
    <3> QED BY <1>1, <1>7, <3>1, <3>2, <3>3 DEF PlaceRight, Starts, Patches
  <2>8. (ScopeRight(c) /\ PatchRight(c) /\ FirstLife(c))' /\ HomeRight(c)'
    <3>1. ScopeRight(c)'
      BY <1>1, <1>3, <1>9, TextSame DEF ScopeRight
    <3>2. PatchRight(c)' /\ FirstLife(c)'
      BY <1>3, <1>6, TextSame DEF PatchRight, FirstLife, Starts, Patches
    <3>3. HomeRight(c)'
      BY <1>3, <1>9, TextSame DEF HomeRight
    <3> QED BY <3>1, <3>2, <3>3
  <2> QED BY <1>1, <1>5, <1>6, <2>2, <2>3, <2>4, <2>5, <2>6, <2>7, <2>8, StepKeeps DEF Flying
<1>11. CASE w \notin DOMAIN rows
  <2>1. /\ rows' = [v \in DOMAIN rows \cup {w} |->
                      IF v = w THEN [by |-> c, over |-> FALSE] ELSE rows[v]]
        /\ live' = live \cup {c}
    BY <1>0, <1>11 DEF Create
  <2>2. /\ DOMAIN rows' = DOMAIN rows \cup {w} /\ Owner(w)' = c
        /\ \A v \in DOMAIN rows : Owner(v)' = Owner(v) /\ rows'[v] = rows[v]
    BY <1>11, <2>1 DEF Owner
  <2>3. Own(c) = {}
    <3>1. CASE c \notin Inside
      BY <1>8, <3>1
    <3>2. CASE c \in Inside
      <4>1. ASSUME NEW v \in DOMAIN rows, Owner(v) = c PROVE FALSE
        <5>1. RightId(c, v)
          BY <4>1 DEF IInv, RowsRight
        <5>2. v = w
          BY <1>1, <3>2, <5>1, OneId DEF IInv
        <5> QED BY <1>11, <5>2
      <4> QED BY <4>1 DEF Own
    <3> QED BY <3>1, <3>2
  <2>4. \A d, v : RightId(d, v) => RightId(d, v)'
    <3>1. crashes \in Nat /\ crashes <= crashes' /\ crashes' \in Nat
      BY <1>3 DEF IInv, Typed
    <3> QED BY <1>3, <2>2, <3>1, RightStays
  <2>5. \A d, k : RightKey(d, k) => RightKey(d, k)'
    <3>1. crashes \in Nat /\ crashes <= crashes' /\ crashes' \in Nat
      BY <1>3 DEF IInv, Typed
    <3> QED BY <1>3, <2>2, <3>1, RightStays
  <2>6. (RowsRight /\ OneEach /\ LogRight)'
    <3>1. RowsRight'
      BY <1>1, <2>2, <2>4 DEF RowsRight, IInv
    <3>2. OneEach'
      BY <2>2, <2>3 DEF OneEach, IInv, Own
    <3>3. LogRight'
      BY <1>3, <2>5 DEF LogRight, IInv
    <3> QED BY <3>1, <3>2, <3>3
  <2>7. \A v \in DOMAIN rows' :
          rows'[v] = [by |-> rows'[v].by, over |-> rows'[v].over] /\ Owner(v)' \in Calls
    <3>1. \A v \in DOMAIN rows :
            rows[v] = [by |-> rows[v].by, over |-> rows[v].over] /\ Owner(v) \in Calls
      BY DEF IInv, Typed
    <3>2. rows'[w] = [by |-> c, over |-> FALSE]
      BY <2>1
    <3>3. rows'[w] = [by |-> rows'[w].by, over |-> rows'[w].over] /\ Owner(w)' \in Calls
      BY <2>2, <3>2
    <3> QED BY <2>2, <3>1, <3>3
  <2>8. CASE Op(c) \notin Starts
    <3> DEFINE u == [copy[c] EXCEPT !.next = 1]
    <3>1. /\ key' = [key EXCEPT ![c] = <<<<w, 0>>>>] /\ UNCHANGED ctx
          /\ copy' = [copy EXCEPT ![c] = StepCtx(u, 0)]
      BY <1>0, <1>11, <2>8 DEF Create
    <3>2. IsCtx(u) /\ u.wf = w
      BY <1>0, <1>2, NextIs
    <3> HIDE DEF u
    <3>3. IsCtx(StepCtx(u, 0)) /\ StepLike(StepCtx(u, 0))
      <4>1. w # NoId
        BY <1>1, IdIsSome
      <4> QED BY <3>2, <4>1, StepCtxIs DEF StepLike
    <3>4. /\ key'[c] = <<<<w, 0>>>> /\ DOMAIN key' = Calls /\ copy'[c] = StepCtx(u, 0)
          /\ DOMAIN copy' = Calls /\ (\A d \in Calls : IsCtx(copy'[d])) /\ at'[c] = "read"
          /\ \A d \in Calls \ {c} : key'[d] = key[d] /\ copy'[d] = copy[d]
      BY <1>2, <1>4, <1>11, <2>8, <3>1, <3>3
    <3>5. Kept(c)
      BY <1>3, <1>5, <1>6, <2>2, <3>4 DEF Kept
    <3>6. Steady(c) /\ DOMAIN ctx' = Bodies /\ \A b \in Bodies : IsCtx(ctx'[b])
      BY <3>1, CtxSteady
    <3>7. \A b \in Flows : FlowRight(b)'
      <4>1. \A b \in Flows : c \notin InBody(b) /\ b # c
        BY <1>7, <2>8 DEF InBody, Inside
      <4> QED BY <2>1, <3>1, <3>5, <4>1, FlowStays
    <3>8. Typed'
      <4>1. Calls' = Calls /\ Bodies' = Bodies
        BY <1>3, TextSame
      <4> QED BY <1>2, <1>3, <1>5, <1>6, <2>1, <2>7, <3>4, <3>6, <4>1 DEF Typed, IInv
    <3>9. RightKey(c, <<w, 0>>)'
      <4>1. c \notin Inside /\ c \notin Flows /\ Inside' = Inside /\ Flows' = Flows
        BY <1>3, <1>7, <2>8, TextSame
      <4> QED BY <2>2, <4>1 DEF RightKey
    <3>10. KeyRight(c)'
      <4>1. key'[c][1] = <<w, 0>> /\ Op(c)' = Op(c) /\ Op(c) \notin TwoIds
        BY <1>3, <1>7, <2>8, <3>4, TextSame DEF TwoIds
      <4> QED BY <3>9, <4>1 DEF KeyRight
    <3>11. PlaceRight(c)'
      BY <1>3, <1>7, <2>8, <3>3, <3>4, TextSame DEF PlaceRight, StepLike, Starts, Patches, Settled
    <3>12. (ScopeRight(c) /\ PatchRight(c) /\ FirstLife(c))' /\ HomeRight(c)'
      <4>1. HomeRight(c)'
        BY <1>3, <1>9, TextSame DEF HomeRight
      <4> QED BY <1>3, <1>7, <2>8, <3>4, <4>1, TextSame DEF ScopeRight, PatchRight, FirstLife
    <3> QED BY <1>5, <1>6, <1>7, <2>6, <2>8, <3>5, <3>6, <3>7, <3>8, <3>10, <3>11, <3>12, StepKeeps
  <2>9. CASE Op(c) \in Starts
    <3>1. ctx' = [ctx EXCEPT ![c] = copy[c]] /\ UNCHANGED <<copy, key>> /\ c \in Flows
      BY <1>0, <1>11, <2>9 DEF Create, Flows
    <3>2. Kept(c)
      BY <1>3, <1>5, <1>6, <2>2, <3>1 DEF Kept
    <3>3. Steady(c) /\ DOMAIN ctx' = Bodies /\ \A b \in Bodies : IsCtx(ctx'[b])
      BY <1>2, <3>1 DEF Steady
    <3>4. c \notin live
      <4> SUFFICES ASSUME c \in live PROVE FALSE
        OBVIOUS
      <4>1. FlowCtx(c)
        BY <3>1 DEF IInv, FlowRight
      <4> QED BY <2>3, <4>1 DEF FlowCtx, Own
    <3>5. \A b \in Flows : FlowRight(b)'
      <4>1. ASSUME NEW b \in Flows, b # c, b # Body(c) PROVE FlowRight(b)'
        <5>1. ctx'[b] = ctx[b] /\ (b \in live' <=> b \in live) /\ c \notin InBody(b)
          BY <1>2, <2>1, <3>1, <4>1 DEF Flows, InBody
        <5> QED BY <3>2, <5>1, FlowStays
      <4>2. ASSUME NEW b \in Flows, b # c, b = Body(c) PROVE FlowRight(b)'
        <5>1. ctx'[b] = ctx[b] /\ (b \in live' <=> b \in live) /\ c \in Inside
          BY <1>2, <2>1, <3>1, <4>2 DEF Flows, Inside
        <5>2. Flying(c)' /\ Op(c) \notin Patches
          BY <1>1, <1>6, <1>7, <2>9, <5>1 DEF Flying, Starts, Patches
        <5> QED BY <1>1, <3>2, <4>2, <5>1, <5>2, FlowMoved
      <4>3. FlowRight(c)'
        <5>1. \A d \in InBody(c) : at[d] = "todo" /\ d # c
          <6>1. \A d \in InBody(c) : d # c
            BY <1>2 DEF InBody, Body, IsProgram, IsCall, Calls
          <6> QED BY <3>1, <3>4, <6>1 DEF IInv, FlowRight
        <5>2. InBody(c)' = InBody(c) /\ Count({})' = Count({})
          BY <1>3, TextSame
        <5>3. \A d \in InBody(c) : at'[d] = "todo"
          BY <1>6, <5>1 DEF InBody
        <5>4. Taken(c)' = {}
          BY <5>2, <5>3 DEF Taken
        <5>5. Count(Taken(c))' = 0
          BY <5>2, <5>4, CountEmpty
        <5>6. ctx'[c] = copy[c] /\ c \in live' /\ Shaded' = Shaded
          BY <1>2, <1>3, <2>1, <3>1, TextSame
        <5>7. /\ copy[c].step = {} /\ copy[c].next = 0 /\ copy[c].assigned = NoId
              /\ copy[c].own => c \in Shaded
          BY <1>1, <3>1 DEF MayCreate
        <5> QED BY <1>0, <2>2, <5>5, <5>6, <5>7 DEF FlowRight, FlowCtx
      <4> QED BY <4>1, <4>2, <4>3
    <3>6. Typed'
      <4>1. Calls' = Calls /\ Bodies' = Bodies
        BY <1>3, TextSame
      <4> QED BY <1>2, <1>3, <1>5, <1>6, <2>1, <2>7, <3>1, <3>3, <4>1 DEF Typed, IInv
    <3>7. KeyRight(c)'
      BY <1>3, <1>9, <2>5, <3>1, TextSame DEF KeyRight
    <3>8. PlaceRight(c)'
      <4>1. Op(c)' = Op(c) /\ key'[c] = key[c] /\ Op(c) \notin Patches
        BY <1>3, <2>9, <3>1, TextSame DEF Starts, Patches
      <4> QED BY <1>6, <2>9, <4>1 DEF PlaceRight
    <3>9. (ScopeRight(c) /\ PatchRight(c) /\ FirstLife(c))' /\ HomeRight(c)'
      <4>1. HomeRight(c)'
        BY <1>3, <1>9, TextSame DEF HomeRight
      <4>2. ScopeRight(c)'
        BY <1>1, <1>3, <1>9, TextSame DEF ScopeRight
      <4>3. PatchRight(c)' /\ FirstLife(c)'
        BY <1>3, <1>6, <2>9, TextSame DEF PatchRight, FirstLife, Starts, Patches
      <4> QED BY <4>1, <4>2, <4>3
    <3> QED BY <1>1, <1>5, <1>6, <2>6, <3>2, <3>3, <3>5, <3>6, <3>7, <3>8, <3>9, StepKeeps DEF Flying
  <2> QED BY <2>8, <2>9
<1> QED BY <1>10, <1>11

(* ------------------------------ the issue ------------------------------- *)

(* What a call that is issued or skipped may change. *)
Moves(c, place) ==
  /\ UNCHANGED <<program, seen, patched, live, ops, rows, crashes>>
  /\ at' = [at EXCEPT ![c] = place]
  /\ UNCHANGED had \/ had' = [had EXCEPT ![c] = Found(c)]
  /\ UNCHANGED home \/ (c \notin Flows /\ \E h \in Calls \ Flows : home' = [home EXCEPT ![c] = h])
  /\ UNCHANGED key \/ \E k : key' = [key EXCEPT ![c] = k]
  /\ UNCHANGED copy \/ \E x : IsCtx(x) /\ copy' = [copy EXCEPT ![c] = x]

LEMMA MovesKept ==
  ASSUME PlainPrograms, IInv, NEW c \in Calls, NEW place \in Places \ {"todo"}, Moves(c, place)
  PROVE  /\ Kept(c) /\ at'[c] = place /\ at' \in [Calls -> Places] /\ HomeRight(c)'
         /\ DOMAIN copy' = Calls /\ (\A d \in Calls : IsCtx(copy'[d]))
         /\ home' \in [Bodies -> Bodies] /\ DOMAIN key' = Calls /\ had' \in [Calls -> BOOLEAN]
<1>1. /\ at \in [Calls -> Places] /\ had \in [Calls -> BOOLEAN] /\ home \in [Bodies -> Bodies]
      /\ DOMAIN key = Calls /\ DOMAIN copy = Calls /\ (\A d \in Calls : IsCtx(copy[d]))
      /\ Main \notin Calls /\ Main \in Bodies /\ Calls \subseteq Bodies /\ c # Main
  BY ProgramIs DEF IInv, Typed, IsProgram, Calls, Bodies
<1>2. Found(c) \in BOOLEAN
  BY StoredIs DEF Found, IsCtx
<1>3. at'[c] = place /\ at' \in [Calls -> Places] /\ \A d \in Calls \ {c} : at'[d] = at[d]
  BY <1>1 DEF Moves
<1>4. had' \in [Calls -> BOOLEAN] /\ \A d \in Calls \ {c} : had'[d] = had[d]
  BY <1>1, <1>2 DEF Moves
<1>5. home' \in [Bodies -> Bodies] /\ \A d \in Bodies \ {c} : home'[d] = home[d]
  BY <1>1 DEF Moves
<1>6. DOMAIN key' = Calls /\ \A d \in Calls \ {c} : key'[d] = key[d]
  BY <1>1 DEF Moves
<1>7. /\ DOMAIN copy' = Calls /\ (\A d \in Calls : IsCtx(copy'[d]))
      /\ \A d \in Calls \ {c} : copy'[d] = copy[d]
  BY <1>1 DEF Moves
<1>8. Kept(c)
  BY <1>1, <1>3, <1>4, <1>5, <1>6, <1>7, RowsSame DEF Kept, Moves
<1>9. HomeRight(c)'
  <2>1. HomeRight(c) /\ Flows' = Flows /\ Calls' = Calls
    BY <1>1, TextSame DEF IInv, Moves
  <2>2. CASE UNCHANGED home
    BY <2>1, <2>2 DEF HomeRight
  <2>3. CASE c \notin Flows /\ \E h \in Calls \ Flows : home' = [home EXCEPT ![c] = h]
    BY <1>1, <2>1, <2>3 DEF HomeRight
  <2> QED BY <2>2, <2>3 DEF Moves
<1> QED BY <1>3, <1>4, <1>5, <1>6, <1>7, <1>8, <1>9

LEMMA MovesKeeps ==
  ASSUME PlainPrograms, NamesApart, IInv, NEW c \in Calls, Ready(c),
         NEW place \in Places \ {"todo"}, Moves(c, place),
         Steady(c), DOMAIN ctx' = Bodies, \A b \in Bodies : IsCtx(ctx'[b]),
         \A b \in Flows : b # Body(c) => ctx'[b] = ctx[b],
         \A b \in Flows : b = Body(c) => FlowRight(b)',
         (KeyRight(c) /\ PlaceRight(c) /\ ScopeRight(c) /\ PatchRight(c))'
  PROVE  IInv'
<1>1. /\ Kept(c) /\ at'[c] = place /\ at' \in [Calls -> Places] /\ HomeRight(c)'
      /\ DOMAIN copy' = Calls /\ (\A d \in Calls : IsCtx(copy'[d]))
      /\ home' \in [Bodies -> Bodies] /\ DOMAIN key' = Calls /\ had' \in [Calls -> BOOLEAN]
  BY MovesKept
<1>2. UNCHANGED <<program, seen, patched, live, ops, rows, crashes>> /\ at[c] = "todo"
  BY DEF Moves, Ready
<1>3. \A b \in Flows : FlowRight(b)'
  BY <1>1, <1>2, FlowsKeep
<1>4. (Typed /\ RowsRight /\ OneEach /\ LogRight)'
  <2>1. LogRight' /\ (RowsRight /\ OneEach)' /\ Calls' = Calls /\ Bodies' = Bodies
        /\ \A v : Owner(v)' = Owner(v)
    BY <1>2, RowsSame, LogKept, TextSame
  <2> QED BY <1>1, <1>2, <2>1 DEF Typed, IInv
<1>5. FirstLife(c)'
  BY <1>1 DEF FirstLife
<1>6. seen'[c] \subseteq {c} /\ at'[c] # "todo" /\ at[c] \notin Settled
  BY <1>1, <1>2 DEF IInv, EachCallItsOwn, Settled
<1> QED BY <1>1, <1>3, <1>4, <1>5, <1>6, StepKeeps

(* The text says whether a call in a workflow is made: the patches before it
   have answered yes.                                                      *)
LEMMA MadeIs ==
  ASSUME PlainPrograms, IInv, NEW c \in Inside, Ready(c)
  PROVE  /\ Made(c) <=> ~Skips(c)
         /\ Op(c) \in Patches => ~Skips(c)
<1>1. /\ IsProgram(program) /\ IsPlain(program) /\ c \in Calls /\ PatchIsPlain(program, c)
  BY ProgramIs, InsideStored DEF IInv, Typed, IsPlain, Calls
<1>2. ASSUME NEW o \in program[c].on
      PROVE  patched[o.patch] = TRUE /\ o.answer \in BOOLEAN
  <2>1. o.answer \in BOOLEAN /\ o.patch \in Calls
    BY <1>1, CallIs
  <2>2. Op(o.patch) \in Patches /\ Body(o.patch) = Body(c) /\ Before(o.patch, c)
    BY <1>1 DEF PatchIsPlain, Op, Body, Before
  <2>3. o.patch \in Inside /\ o.patch \in InBody(Body(c))
    BY <2>1, <2>2 DEF Inside, InBody
  <2>4. at[o.patch] \in Settled
    BY <2>2, <2>3 DEF Ready
  <2>5. patched[o.patch]
    BY <2>1, <2>2, <2>3, <2>4 DEF IInv, PatchRight
  <2> QED BY <2>1, <2>5 DEF IInv, Typed
<1>3. Made(c) <=> ~Skips(c)
  BY <1>2 DEF Made, Skips
<1>4. Op(c) \in Patches => ~Skips(c)
  BY <1>1 DEF PatchIsPlain, Skips, Op, Patches
<1> QED BY <1>3, <1>4

(* A workflow is started under a scope where its caller is. *)
LEMMA ShadedIs ==
  ASSUME NEW c \in Flows, Scoped(c) \/ Body(c) \in Shaded
  PROVE  c \in Shaded
BY DEF Shaded, UnderScope, Flows, Op, Scoped, Body, Calls

(* Where a call of a workflow's body is issued. *)
LEMMA InsideIssue ==
  ASSUME PlainPrograms, NamesApart, IInv, NEW c \in Inside, Ready(c)
  PROVE  /\ FlowCtx(Body(c)) /\ Body(c) \in live /\ ~NoneStored(c) /\ Stored(c) = Body(c)
         /\ IsCtx(Around(c)) /\ Around(c).wf = ctx[Body(c)].wf /\ Around(c).wf # NoId
         /\ Around(c).next = Offset(c) /\ Around(c).step = {} /\ ctx[Body(c)].next = Offset(c)
         /\ ctx[Body(c)].assigned = NoId /\ (ctx[Body(c)].own => Body(c) \in Shaded)
         /\ Scoped(c) => /\ Around(c).assigned = program[c].scope
                         /\ Found(c) = FALSE /\ program[c].id = NoId
         /\ ~Scoped(c) => Around(c) = ctx[Body(c)]
         /\ c \notin Taken(Body(c))
<1>1. /\ c \in Calls /\ Body(c) \in Flows /\ Body(c) \in Calls /\ Stored(c) = Body(c)
      /\ IsProgram(program) /\ IsPlain(program) /\ Body(c) # Main /\ at[c] = "todo"
  BY InsideStored, ProgramIs, CallIs DEF IInv, Typed, Ready
<1>2. /\ Body(c) \in live /\ ~ScopeOpen(Body(c)) /\ Taken(Body(c)) = Prior(c)
  BY InsideReady
<1>3. FlowCtx(Body(c)) /\ IsCtx(ctx[Body(c)]) /\ ctx[Body(c)].wf # NoId /\ ~NoneStored(c)
  BY <1>2, InsideFlow
<1>4. /\ ctx[Body(c)].next = Offset(c) /\ ctx[Body(c)].step = {}
      /\ ctx[Body(c)].assigned = NoId /\ (ctx[Body(c)].own => Body(c) \in Shaded)
  BY <1>2, <1>3 DEF FlowCtx, Offset
<1>5. Scoped(c) => program[c].id = NoId /\ Body(c) \notin Shaded
  <2> SUFFICES ASSUME Scoped(c) PROVE program[c].id = NoId /\ Body(c) \notin Shaded
    OBVIOUS
  <2>1. ScopeIsPlain(program, c)
    BY <1>1 DEF IsPlain, Scoped, Calls
  <2>2. program[c].body # Main /\ program[program[c].body].op # "step"
    BY <1>1 DEF Flows, Op, Body, Starts
  <2> QED BY <2>1, <2>2 DEF ScopeIsPlain, Shaded, Body
<1>6. Scoped(c) => Found(c) = FALSE
  BY <1>1, <1>3, <1>4, <1>5 DEF Found, IsCtx
<1>7. /\ IsCtx(Around(c)) /\ Around(c).wf = ctx[Body(c)].wf
      /\ Around(c).next = ctx[Body(c)].next /\ Around(c).step = ctx[Body(c)].step
      /\ Scoped(c) => Around(c).assigned = program[c].scope
      /\ ~Scoped(c) => Around(c) = ctx[Body(c)]
  BY <1>1, <1>3, AroundIs
<1>8. c \notin Taken(Body(c))
  BY <1>1 DEF Taken
<1> QED BY <1>1, <1>2, <1>3, <1>4, <1>5, <1>6, <1>7, <1>8

(* A call that is not made takes no ids, nor is it there to take any. *)
LEMMA SkipKeeps ==
  ASSUME PlainPrograms, NamesApart, IInv, NEW c \in Calls, Skip(c)
  PROVE  IInv'
<1>1. /\ Ready(c) /\ Skips(c) /\ at[c] = "todo"
      /\ at' = [at EXCEPT ![c] = "done"]
      /\ UNCHANGED <<program, ctx, copy, home, key, had, seen, patched, live, ops, rows, crashes>>
  BY DEF Skip, Ready
<1>2. "done" \in Places \ {"todo"} /\ Moves(c, "done")
  BY <1>1 DEF Moves, Places, Settled
<1>3. Kept(c) /\ at'[c] = "done"
  BY <1>2, MovesKept
<1>4. Steady(c) /\ DOMAIN ctx' = Bodies /\ \A b \in Bodies : IsCtx(ctx'[b])
  BY <1>1, CtxSteady
<1>5. ASSUME NEW b \in Flows, b = Body(c) PROVE FlowRight(b)'
  <2>1. c \in Inside /\ c \in InBody(b)
    BY <1>5 DEF Inside, InBody
  <2>2. /\ FlowCtx(b) /\ b \in live /\ ctx[b].assigned = NoId /\ (ctx[b].own => b \in Shaded)
        /\ c \notin Taken(b) /\ ctx[b].next \in Nat
    BY <1>1, <1>5, <2>1, InsideIssue, OffsetType, InsideStored, ProgramIs DEF IInv, Typed
  <2>3. Width(c) = 0
    BY <1>1, <2>1, MadeIs DEF Width
  <2> QED BY <1>1, <1>3, <1>5, <2>1, <2>2, <2>3, FlowTakes
<1>6. (KeyRight(c) /\ PlaceRight(c) /\ ScopeRight(c) /\ PatchRight(c))'
  <2>1. KeyRight(c)'
    <3>1. key[c] = <<>>
      BY <1>1 DEF IInv, PlaceRight
    <3> QED BY <1>1, <3>1 DEF KeyRight
  <2>2. ScopeRight(c)'
    BY <1>3 DEF ScopeRight, Flying, Settled
  <2>3. PatchRight(c)'
    <3>1. c \in Inside => Op(c) \notin Patches
      BY <1>1, MadeIs
    <3> QED BY <1>1, <3>1, TextSame DEF PatchRight
  <2> QED BY <1>3, <2>1, <2>2, <2>3, SettledPlace DEF Settled
<1> QED BY <1>1, <1>2, <1>4, <1>5, <1>6, MovesKeeps

(* The places in the log of a call's ids. *)
KeysFrom(c, w, n) == [i \in DOMAIN IdsOf(c, n) |-> <<w, IdsOf(c, n)[i]>>]

LEMMA KeyIs ==
  ASSUME NEW c, Op(c) \in Operations, NEW n \in Nat, NEW w, NEW K, K = KeysFrom(c, w, n)
  PROVE  /\ Op(c) \in NoIds \ Patches => K = <<>>
         /\ Op(c) \notin NoIds \ Patches => K # <<>>
         /\ Op(c) \notin (NoIds \ Patches) \cup {"getResult"} => K[1] = <<w, n>>
         /\ Op(c) = "getResult" => K[1] = <<w, n + 1>> /\ K[2] = <<w, n>>
         /\ Op(c) \in TwoIds \ {"getResult"} => K[2] = <<w, n + 1>>
<1> USE DEF KeysFrom
<1>1. CASE Op(c) = "getResult"
  <2>1. IdsOf(c, n) = <<n + 1, n>>
    BY <1>1 DEF IdsOf, Patches
  <2>2. K = [i \in 1..2 |-> <<w, <<n + 1, n>>[i]>>]
    BY <2>1
  <2>3. K[1] = <<w, n + 1>> /\ K[2] = <<w, n>> /\ DOMAIN K = 1..2
    BY <2>2
  <2>4. K # <<>>
    BY <2>3
  <2> QED BY <1>1, <2>3, <2>4 DEF NoIds, Patches
<1>2. CASE Op(c) \in Patches
  <2>1. IdsOf(c, n) = <<n>>
    BY <1>2 DEF IdsOf, Patches
  <2>2. K = [i \in 1..1 |-> <<w, <<n>>[i]>>]
    BY <2>1
  <2>3. K[1] = <<w, n>> /\ DOMAIN K = 1..1
    BY <2>2
  <2>4. K # <<>>
    BY <2>3
  <2> QED BY <1>2, <2>3, <2>4 DEF NoIds, Patches, TwoIds
<1>3. CASE Op(c) \notin Patches \cup {"getResult"}
  <2>1. IdsOf(c, n) = [i \in 1..IdsTaken(c) |-> n + i - 1]
    BY <1>3 DEF IdsOf
  <2>2. CASE Op(c) \in NoIds
    <3>1. IdsOf(c, n) = [i \in 1..0 |-> n + i - 1]
      BY <2>1, <2>2 DEF IdsTaken
    <3>2. K = <<>>
      BY <3>1
    <3> QED BY <1>3, <2>2, <3>2 DEF NoIds, Patches, TwoIds
  <2>3. CASE Op(c) \in TwoIds
    <3>1. IdsOf(c, n) = [i \in 1..2 |-> n + i - 1]
      BY <2>1, <2>3 DEF IdsTaken, TwoIds, NoIds, Patches
    <3>2. K[1] = <<w, n + 1 - 1>> /\ K[2] = <<w, n + 2 - 1>> /\ DOMAIN K = 1..2
      BY <3>1
    <3>3. n + 1 - 1 = n /\ n + 2 - 1 = n + 1
      OBVIOUS
    <3>4. K # <<>>
      BY <3>2
    <3>5. Op(c) \notin NoIds
      BY <2>3 DEF NoIds, Patches, TwoIds
    <3> QED BY <1>3, <2>3, <3>2, <3>3, <3>4, <3>5
  <2>4. CASE Op(c) \notin NoIds \cup TwoIds
    <3>1. IdsOf(c, n) = [i \in 1..1 |-> n + i - 1]
      BY <2>1, <2>4 DEF IdsTaken
    <3>2. K[1] = <<w, n + 1 - 1>> /\ DOMAIN K = 1..1
      BY <3>1
    <3>3. n + 1 - 1 = n
      OBVIOUS
    <3>4. K # <<>>
      BY <3>2
    <3> QED BY <1>3, <2>4, <3>2, <3>3, <3>4
  <2> QED BY <2>2, <2>3, <2>4
<1> QED BY <1>1, <1>2, <1>3

(* A call that goes by the log is one of a workflow's body. *)
LEMMA DurableInside ==
  ASSUME PlainPrograms, NamesApart, IInv, NEW c \in Calls, Ready(c), ~Skips(c),
         WayOf(c, Around(c)) = "durable"
  PROVE  c \in Inside
<1> SUFFICES ASSUME c \notin Inside PROVE FALSE
  OBVIOUS
<1>1. /\ IsProgram(program) /\ Op(c) \in Operations \ {"absent"} /\ IsCtx(ctx[Stored(c)])
  BY StoredIs, ProgramIs, CallIs DEF IInv, Typed, Skips
<1>2. Around(c).wf = ctx[Stored(c)].wf /\ Around(c).step = ctx[Stored(c)].step
  BY <1>1, AroundIs
<1>3. CASE StepLike(ctx[Stored(c)])
  BY <1>1, <1>2, <1>3, Ways DEF StepLike
<1>4. CASE NoneStored(c)
  <2>1. Around(c).wf = NoId
    BY <1>2, <1>4, NoCtxIs DEF NoneStored
  <2> QED BY <1>1, <2>1, Ways
<1> QED BY <1>3, <1>4, OutsideReady

LEMMA IssueDurableKeeps ==
  ASSUME PlainPrograms, NamesApart, IInv, NEW c \in Calls, Ready(c), ~Skips(c),
         had' = [had EXCEPT ![c] = Found(c)], IssueDurable(c),
         UNCHANGED <<program, seen, patched, crashes>>
  PROVE  IInv'
<1> DEFINE x == Around(c)
           n == IdsTaken(c)
           w == IF Op(c) \in Starts THEN IdFor(c, x, ChildId(x)) ELSE x.wf
           u == IF Op(c) \in Starts THEN UsedUp(c, x) ELSE x
           y == Taking(u, n)
           own == IF Op(c) \in Starts THEN WorkflowCtx(y, w) ELSE StepCtx(y, x.next)
           over == Op(c) \in NoIds \ Patches
           z == IF over THEN Ends(c, y) ELSE y
           K == [i \in DOMAIN IdsOf(c, x.next) |-> <<x.wf, IdsOf(c, x.next)[i]>>]
           place == IF over THEN "done" ELSE "read"
<1>1. /\ WayOf(c, x) = "durable" /\ Stores(c, z) /\ Copies(c, own)
      /\ at' = [at EXCEPT ![c] = place] /\ key' = [key EXCEPT ![c] = K]
      /\ UNCHANGED <<home, live, ops, rows>>
  BY DEF IssueDurable
<1>2. c \in Inside
  BY <1>1, DurableInside
<1> DEFINE b == Body(c)
<1>3. /\ FlowCtx(b) /\ b \in live /\ ~NoneStored(c) /\ Stored(c) = b
      /\ IsCtx(x) /\ x.wf = ctx[b].wf /\ x.wf # NoId
      /\ x.next = Offset(c) /\ x.step = {} /\ ctx[b].next = Offset(c)
      /\ ctx[b].assigned = NoId /\ (ctx[b].own => b \in Shaded)
      /\ Scoped(c) => x.assigned = program[c].scope /\ Found(c) = FALSE /\ program[c].id = NoId
      /\ ~Scoped(c) => x = ctx[b]
      /\ c \notin Taken(b)
  BY <1>2, InsideIssue
<1>4. /\ IsProgram(program) /\ c \in InBody(b) /\ b \in Flows /\ Offset(c) \in Nat
      /\ Op(c) \in Operations \ {"absent"} /\ at[c] = "todo" /\ had \in [Calls -> BOOLEAN]
      /\ program[c].id \in Ids \cup {NoId} /\ program[c].scope \in Ids \cup {NoId}
      /\ key[c] = <<>> /\ DOMAIN key = Calls /\ DOMAIN copy = Calls
  BY <1>2, InsideStored, ProgramIs, CallIs, OffsetType DEF IInv, Typed, Ready, Skips, PlaceRight
<1>5. Made(c) /\ ~Keyed(c)
  <2>1. Made(c)
    BY <1>2, MadeIs
  <2>2. ~Keyed(c)
    BY <1>1, <1>3, <1>4, Ways
  <2> QED BY <2>1, <2>2
<1>6. /\ n \in Nat /\ (Op(c) \notin Patches => Width(c) = n) /\ (Op(c) \in Patches => n = 0)
      /\ Op(c) = "patch" => Width(c) = 1
      /\ over => n = 0
      /\ Op(c) \in TwoIds => Width(c) = 2
      /\ Op(c) \notin NoIds => Width(c) > 0
  BY <1>5 DEF Width, IdsTaken, Patches, NoIds, TwoIds
<1>7. /\ IsCtx(u) /\ u.wf = x.wf /\ u.next = x.next /\ u.step = x.step /\ u.own = x.own
      /\ u.assigned = IF Op(c) \in Starts /\ Assigns(c) THEN NoId ELSE x.assigned
  <2> HIDE DEF x
  <2> QED BY <1>3, UsedUpIs
<1>8. /\ IsCtx(y) /\ y.wf = x.wf /\ y.next = Offset(c) + n /\ y.step = {}
      /\ y.assigned = u.assigned /\ y.own = x.own
  <2>1. y = [u EXCEPT !.next = u.next + n] /\ u.next + n \in Nat
    BY <1>3, <1>4, <1>6, <1>7 DEF Taking
  <2> HIDE DEF u, y, n, x
  <2> QED BY <1>3, <1>7, <2>1, NextIs
<1>9. /\ IsCtx(z) /\ z.wf = x.wf /\ z.next = Offset(c) + n /\ z.step = {}
      /\ Scoped(c) /\ over => z.assigned = NoId /\ z.own = FALSE
      /\ ~over \/ ~Scoped(c) => z = y
  <2> HIDE DEF y, over, x, n
  <2>1. Found(c) \in BOOLEAN
    BY <1>3, InsideFlow, <1>2 DEF Found, IsCtx
  <2>4. IsProgram(program) /\ IsCtx(y)
    BY <1>4, <1>8
  <2>2. \A f \in BOOLEAN : /\ IsCtx(Left(c, y, f)) /\ Left(c, y, f).wf = y.wf
                           /\ Left(c, y, f).step = y.step /\ Left(c, y, f).next = y.next
                           /\ ~Scoped(c) => Left(c, y, f) = y
    BY <2>4, LeftIs
  <2>3. Scoped(c) => Left(c, y, FALSE).assigned = NoId /\ Left(c, y, FALSE).own = FALSE
    BY <2>4, LeftIs
  <2> QED BY <1>3, <1>8, <2>1, <2>2, <2>3 DEF Ends
<1>10. /\ Op(c) \in Starts => /\ IsCtx(own) /\ own.wf = w /\ own.next = 0 /\ own.step = {}
                              /\ own.assigned = u.assigned /\ own.own = x.own
       /\ Op(c) \notin Starts => IsCtx(own) /\ StepLike(own)
  <2> HIDE DEF y, w, u, x
  <2>1. CASE Op(c) \in Starts
    BY <1>8, <2>1, WorkflowCtxIs
  <2>2. CASE Op(c) \notin Starts
    <3>1. IsCtx(y) /\ y.wf # NoId /\ x.next \in Nat
      BY <1>3, <1>4, <1>8
    <3>2. own = StepCtx(y, x.next)
      BY <2>2
    <3> HIDE DEF own
    <3> QED BY <2>2, <3>1, <3>2, StepCtxIs DEF StepLike
  <2> QED BY <2>1, <2>2
<1>11. place \in Places \ {"todo"} /\ Moves(c, place)
  <2>1. IsCtx(own)
    BY <1>10
  <2> HIDE DEF own, K, z, x
  <2> QED BY <1>1, <2>1 DEF Moves, Places, Settled, Copies
<1>12. Kept(c) /\ at'[c] = place
  BY <1>11, MovesKept
<1>13. /\ Steady(c) /\ DOMAIN ctx' = Bodies /\ \A d \in Bodies : IsCtx(ctx'[d])
       /\ \A d \in Flows : d # b => ctx'[d] = ctx[d]
       /\ ctx'[b] = z
  <2>1. ctx[b].step = {}
    BY <1>3 DEF FlowCtx
  <2> HIDE DEF z, x
  <2> QED BY <1>1, <1>3, <1>9, <2>1, StoresSteady
<1>14. ASSUME NEW d \in Flows, d = b PROVE FlowRight(d)'
  <2>1. /\ ctx'[d].wf = ctx[d].wf /\ ctx'[d].step = ctx[d].step
        /\ ctx'[d].next = ctx[d].next +
             (IF Op(c) \in Patches /\ at'[c] = "read" THEN 0 ELSE Width(c))
    <3>1. ctx[d].step = {}
      BY <1>3, <1>14 DEF FlowCtx
    <3>2. n = IF Op(c) \in Patches /\ at'[c] = "read" THEN 0 ELSE Width(c)
      BY <1>6, <1>12
    <3> HIDE DEF z, n, x
    <3> QED BY <1>3, <1>9, <1>13, <1>14, <3>1, <3>2
  <2>2. /\ ctx'[d].assigned # NoId => ScopeOpen(d)'
        /\ ctx'[d].own /\ d \notin Shaded => ScopeOpen(d)'
    <3>1. CASE Scoped(c) /\ over
      <4> HIDE DEF z, over
      <4> QED BY <1>9, <1>13, <1>14, <3>1
    <3>2. CASE Scoped(c) /\ ~over
      <4>1. Flying(c)'
        BY <1>12, <3>2 DEF Flying, Settled
      <4> QED BY <1>4, <1>12, <1>14, <3>2, <4>1, ScopeStays
    <3>3. CASE ~Scoped(c)
      <4>1. z.assigned = NoId /\ (z.own => b \in Shaded)
        <5> HIDE DEF z, y, u, over, x
        <5> QED BY <1>3, <1>7, <1>8, <1>9, <3>3
      <4> HIDE DEF z
      <4> QED BY <1>13, <1>14, <4>1
    <3> QED BY <3>1, <3>2, <3>3
  <2>3. d \in live' /\ at'[c] # "todo"
    BY <1>1, <1>3, <1>12, <1>14
  <2> QED BY <1>2, <1>3, <1>12, <1>14, <2>1, <2>2, <2>3, FlowTakes
<1>15. \A m \in Offset(c)..(Offset(c) + Width(c) - 1) : RightKey(c, <<x.wf, m>>)
  BY <1>2, <1>3 DEF RightKey, FlowCtx
<1>16. key'[c] = K /\ copy'[c] = own
  <2> HIDE DEF K, own
  <2> QED BY <1>1, <1>4 DEF Copies
<1>17. /\ over => K = <<>>
       /\ ~over => K # <<>>
       /\ K # <<>> /\ Op(c) # "deprecatePatch" => RightKey(c, K[1])
       /\ K # <<>> /\ Op(c) \in TwoIds => RightKey(c, K[2])
  <2>1. /\ Op(c) \in NoIds \ Patches => K = <<>>
        /\ Op(c) \notin NoIds \ Patches => K # <<>>
        /\ Op(c) \notin (NoIds \ Patches) \cup {"getResult"} => K[1] = <<x.wf, Offset(c)>>
        /\ Op(c) = "getResult" => K[1] = <<x.wf, Offset(c) + 1>> /\ K[2] = <<x.wf, Offset(c)>>
        /\ Op(c) \in TwoIds \ {"getResult"} => K[2] = <<x.wf, Offset(c) + 1>>
    <3>1. K = KeysFrom(c, x.wf, Offset(c))
      BY <1>3 DEF KeysFrom
    <3> HIDE DEF K, x
    <3> QED BY <1>4, <3>1, KeyIs
  <2>2. /\ Width(c) > 0 => Offset(c) \in Offset(c)..(Offset(c) + Width(c) - 1)
        /\ Width(c) = 2 => Offset(c) + 1 \in Offset(c)..(Offset(c) + Width(c) - 1)
    BY <1>4, WidthType
  <2>3. "getResult" \in TwoIds
    BY DEF TwoIds
  <2>4. Op(c) \notin (NoIds \ Patches) /\ Op(c) # "deprecatePatch" => Width(c) > 0
    BY <1>6 DEF Patches
  <2>5. Op(c) \in TwoIds => Op(c) \notin NoIds
    BY DEF TwoIds, NoIds, Patches
  <2> HIDE DEF K, x
  <2>6. RightKey(c, <<x.wf, Offset(c)>>) \/ Width(c) = 0
    BY <1>4, <1>15, <2>2, WidthType
  <2>7. RightKey(c, <<x.wf, Offset(c) + 1>>) \/ Width(c) # 2
    BY <1>15, <2>2
  <2>8. K # <<>> /\ Op(c) # "deprecatePatch" => RightKey(c, K[1])
    <3>1. CASE Op(c) = "getResult"
      BY <1>6, <2>1, <2>3, <2>7, <3>1
    <3>2. CASE Op(c) # "getResult"
      BY <2>1, <2>4, <2>6, <3>2
    <3> QED BY <3>1, <3>2
  <2>9. Op(c) \in TwoIds => RightKey(c, K[2])
    <3>1. CASE Op(c) = "getResult"
      BY <1>6, <2>1, <2>3, <2>6, <3>1
    <3>2. CASE Op(c) \in TwoIds \ {"getResult"}
      BY <1>6, <2>1, <2>7, <3>2
    <3> QED BY <3>1, <3>2
  <2> QED BY <2>1, <2>8, <2>9
<1>18. UNCHANGED <<program, crashes, rows>>
  BY <1>1
<1>19. KeyRight(c)'
  <2> HIDE DEF K
  <2> QED BY <1>16, <1>17, <1>18, RowsSame, TextSame DEF KeyRight
<1>20. Op(c) \in Starts => MayCreate(c)'
  <2> SUFFICES ASSUME Op(c) \in Starts PROVE MayCreate(c)'
    OBVIOUS
  <2>1. c \in Flows
    BY DEF Flows
  <2>2. RightId(c, w)
    <3>1. CASE program[c].id # NoId
      <4>1. w = program[c].id
        BY <3>1 DEF IdFor, NextWFID, Assigns
      <4> HIDE DEF w
      <4> QED BY <1>2, <2>1, <3>1, <4>1 DEF RightId, Startable, GivenId, Given
    <3>2. CASE program[c].id = NoId /\ Scoped(c)
      <4>1. Assigns(c) /\ program[c].scope # NoId
        BY <3>2 DEF Assigns, Starts, Scoped
      <4>2. w = program[c].scope
        BY <1>3, <3>2, <4>1 DEF IdFor, NextWFID
      <4> HIDE DEF w
      <4> QED BY <1>2, <2>1, <3>2, <4>1, <4>2 DEF RightId, Startable, GivenId, Given
    <3>3. CASE program[c].id = NoId /\ ~Scoped(c)
      <4>1. Assigns(c) /\ program[c].scope = NoId /\ x.assigned = NoId
        BY <1>3, <3>3 DEF Assigns, Starts, Scoped
      <4>2. w = <<ctx[b].wf, Offset(c)>>
        BY <1>3, <4>1 DEF IdFor, NextWFID, ChildId
      <4>3. GivenId(c) = NoId
        BY <3>3, <4>1 DEF GivenId, Given
      <4>4. ctx[b].wf \in DOMAIN rows /\ Owner(ctx[b].wf) = Body(c)
        BY <1>3 DEF FlowCtx
      <4> HIDE DEF w
      <4> QED BY <1>2, <1>5, <2>1, <4>2, <4>3, <4>4 DEF RightId, Startable
    <3> QED BY <3>1, <3>2, <3>3
  <2>3. own.assigned = NoId
    <3>1. u.assigned = IF Assigns(c) THEN NoId ELSE x.assigned
      BY <1>7
    <3>2. ~Assigns(c) => x.assigned = NoId
      BY <1>3 DEF Assigns, Starts
    <3> HIDE DEF u, own, x
    <3> QED BY <1>10, <3>1, <3>2
  <2>4. own.own => c \in Shaded
    <3>1. ~Scoped(c) /\ x.own => b \in Shaded
      BY <1>3
    <3> HIDE DEF own, x
    <3> QED BY <1>10, <2>1, <3>1, ShadedIs
  <2>5. PICK v : v = w
    OBVIOUS
  <2>6. copy'[c].wf = v /\ copy'[c].step = {} /\ copy'[c].next = 0 /\ copy'[c].assigned = NoId
        /\ (copy'[c].own => c \in Shaded)
    <3> HIDE DEF own, w
    <3> QED BY <1>10, <1>16, <2>3, <2>4, <2>5
  <2>7. RightId(c, v)'
    <3>1. RightId(c, v)
      BY <2>2, <2>5
    <3> QED BY <1>18, <3>1, RowsSame
  <2>8. Inside' = Inside /\ Shaded' = Shaded
    BY TextSame
  <2> QED BY <1>2, <2>6, <2>7, <2>8 DEF MayCreate
<1>21. PlaceRight(c)'
  <2>1. CASE over
    <3>1. at'[c] \in Settled
      BY <1>12, <2>1 DEF Settled
    <3> QED BY <3>1, SettledPlace
  <2>2. CASE ~over
    <3>1. at'[c] = "read" /\ key'[c] # <<>> /\ Op(c)' = Op(c) /\ Inside' = Inside
      BY <1>12, <1>16, <1>17, <2>2, TextSame
    <3>2. Op(c) \in {"step", "runStep"} => StepLike(copy'[c])
      <4> HIDE DEF own
      <4> QED BY <1>10, <1>16 DEF Starts
    <3>3. Op(c) \in {"step", "runStep"} => StepLike(copy[c])'
      BY <3>2 DEF StepLike
    <3> QED BY <1>2, <1>20, <3>1, <3>3 DEF PlaceRight, Settled
  <2> QED BY <2>1, <2>2
<1>22. ScopeRight(c)'
  <2>1. Scoped(c) => had'[c] = FALSE
    BY <1>3, <1>4
  <2> QED BY <2>1, TextSame DEF ScopeRight
<1>23. PatchRight(c)'
  <2>1. Op(c) \in Patches => at'[c] = "read"
    BY <1>12
  <2> QED BY <2>1, TextSame DEF PatchRight, Settled
<1> HIDE DEF place, z, y, x, u, w, n, own, over, K
<1> QED BY <1>11, <1>13, <1>14, <1>19, <1>21, <1>22, <1>23, MovesKeeps

(* A call that is not one of a workflow's body is issued in the context of a
   step, or, in the first process, in none.                                *)
LEMMA OutsideIssue ==
  ASSUME PlainPrograms, IInv, NEW c \in Calls \ Inside, Ready(c), ~Skips(c)
  PROVE  /\ Op(c) \in Operations \ {"absent"} /\ IsCtx(Around(c)) /\ at[c] = "todo" /\ key[c] = <<>>
         /\ Around(c).wf = ctx[Stored(c)].wf /\ Around(c).step = ctx[Stored(c)].step
         /\ Stored(c) \notin Flows
         /\ \/ /\ StepLike(ctx[Stored(c)]) /\ Stored(c) \in Calls \ Flows
               /\ at[Stored(c)] # "todo" /\ Stored(c) # c /\ ~NoneStored(c)
            \/ /\ NoneStored(c) /\ crashes = 0 /\ Around(c).wf = NoId
               /\ Around(c).next = 0 /\ Around(c).step = {}
               /\ Scoped(c) => /\ Around(c).assigned = program[c].scope /\ program[c].id = NoId
                               /\ Op(c) \in Starts \cup {"step", "runStep"}
               /\ ~Scoped(c) => Around(c) = NoCtx
<1>1. /\ IsProgram(program) /\ IsPlain(program) /\ Op(c) \in Operations \ {"absent"}
      /\ IsCtx(ctx[Stored(c)]) /\ at[c] = "todo" /\ key[c] = <<>>
  BY StoredIs, ProgramIs, CallIs DEF IInv, Typed, Skips, Ready, PlaceRight
<1>2. /\ IsCtx(Around(c)) /\ Around(c).wf = ctx[Stored(c)].wf
      /\ Around(c).next = ctx[Stored(c)].next /\ Around(c).step = ctx[Stored(c)].step
      /\ Scoped(c) => Around(c).assigned = program[c].scope
      /\ ~Scoped(c) => Around(c) = ctx[Stored(c)]
  BY <1>1, AroundIs
<1>3. Stored(c) \notin Flows
  <2>1. Stored(c) \in {Main} \cup (Calls \ Flows)
    BY OutsideStored
  <2> QED BY <1>1, <2>1 DEF IsProgram, Flows, Calls
<1>4. CASE /\ StepLike(ctx[Stored(c)]) /\ Stored(c) \in Calls \ Flows
           /\ at[Stored(c)] # "todo" /\ Stored(c) # c
  BY <1>1, <1>2, <1>3, <1>4, NoCtxIs DEF StepLike, NoneStored
<1>5. CASE NoneStored(c) /\ crashes = 0 /\ (Body(c) = Main \/ Op(Body(c)) # "step")
  <2>1. ctx[Stored(c)] = NoCtx
    BY <1>5 DEF NoneStored
  <2>2. Scoped(c) => program[c].id = NoId /\ Op(c) \in Starts \cup {"step", "runStep"}
    <3> SUFFICES ASSUME Scoped(c)
                 PROVE  program[c].id = NoId /\ Op(c) \in Starts \cup {"step", "runStep"}
      OBVIOUS
    <3>1. ScopeIsPlain(program, c)
      BY <1>1 DEF IsPlain, Scoped, Calls
    <3>2. c \notin InFlow(program)
      BY <1>1, InsideIs
    <3>3. ~(program[c].body # Main /\ program[program[c].body].op = "step")
      BY <1>5 DEF Body, Op
    <3> QED BY <3>1, <3>2, <3>3 DEF ScopeIsPlain, Op
  <2> QED BY <1>1, <1>2, <1>3, <1>5, <2>1, <2>2, NoCtxIs
<1> QED BY <1>4, <1>5, OutsideReady

(* Outside of the workflows' bodies, no workflow's context is moved. *)
LEMMA OutsideKeeps ==
  ASSUME PlainPrograms, NamesApart, IInv, NEW c \in Calls \ Inside, Ready(c),
         NEW place \in Places \ {"todo"}, Moves(c, place),
         Steady(c), DOMAIN ctx' = Bodies, \A b \in Bodies : IsCtx(ctx'[b]),
         \A b \in Flows : ctx'[b] = ctx[b], UNCHANGED key, PlaceRight(c)'
  PROVE  IInv'
<1>1. \A b \in Flows : b # Body(c)
  BY DEF Inside
<1>2. KeyRight(c)'
  <2>1. key'[c] = <<>>
    BY DEF IInv, PlaceRight, Ready
  <2> QED BY <2>1 DEF KeyRight
<1>3. (ScopeRight(c) /\ PatchRight(c))'
  <2>1. Inside' = Inside
    BY TextSame DEF Moves
  <2> QED BY <2>1 DEF ScopeRight, PatchRight
<1> QED BY <1>1, <1>2, <1>3, MovesKeeps

LEMMA IssueInlineKeeps ==
  ASSUME PlainPrograms, NamesApart, IInv, NEW c \in Calls, Ready(c), ~Skips(c),
         had' = [had EXCEPT ![c] = Found(c)], IssueInline(c),
         UNCHANGED <<program, seen, patched, crashes>>
  PROVE  IInv'
<1> DEFINE x == Around(c)
           h == IF NoneStored(c) THEN c ELSE Stored(c)
           y == TimerTaken(c, x)
<1>1. /\ WayOf(c, x) = "inline" /\ at' = [at EXCEPT ![c] = "body"]
      /\ home' = [home EXCEPT ![c] = h] /\ ctx' = [ctx EXCEPT ![h] = y]
      /\ UNCHANGED <<copy, key, live, ops, rows>>
  BY DEF IssueInline
<1>2. c \notin Inside
  <2> SUFFICES ASSUME c \in Inside PROVE FALSE
    OBVIOUS
  <2>1. x.wf # NoId /\ x.step = {}
    BY InsideIssue
  <2>2. Op(c) \in Operations \ {"absent"}
    BY ProgramIs, CallIs DEF IInv, Typed, Skips
  <2> HIDE DEF x
  <2> QED BY <1>1, <2>1, <2>2, Ways
<1>3. /\ Op(c) \in Operations \ {"absent"} /\ IsCtx(x) /\ at[c] = "todo"
      /\ x.wf = ctx[Stored(c)].wf /\ x.step = ctx[Stored(c)].step
      /\ Stored(c) \notin Flows
      /\ \/ /\ StepLike(ctx[Stored(c)]) /\ Stored(c) \in Calls \ Flows
            /\ at[Stored(c)] # "todo" /\ Stored(c) # c /\ ~NoneStored(c)
         \/ /\ NoneStored(c) /\ crashes = 0 /\ x.wf = NoId /\ x.step = {}
            /\ Scoped(c) => /\ x.assigned = program[c].scope /\ program[c].id = NoId
                            /\ Op(c) \in Starts \cup {"step", "runStep"}
            /\ ~Scoped(c) => x = NoCtx
  BY <1>2, OutsideIssue
<1>4. IsCtx(y) /\ y.wf = x.wf /\ y.step = x.step /\ (x.wf = NoId => y = x)
  <2> HIDE DEF x
  <2> QED BY <1>3, TimerTakenIs
<1>5. /\ DOMAIN ctx = Bodies /\ (\A b \in Bodies : IsCtx(ctx[b])) /\ ctx[Main] = NoCtx
      /\ Main \notin Calls /\ Calls \subseteq Bodies /\ Main \in Bodies
      /\ home \in [Bodies -> Bodies] /\ at \in [Calls -> Places]
  BY ProgramIs DEF IInv, Typed, IsProgram, Calls, Bodies
<1>6. Op(c) \notin Patches
  <2> SUFFICES ASSUME Op(c) \in Patches PROVE FALSE
    OBVIOUS
  <2>1. WayOf(c, x) = PatchWay(x)
    BY DEF WayOf, Patches
  <2>2. PatchWay(x) # "inline"
    BY DEF PatchWay, From
  <2> QED BY <1>1, <2>1, <2>2
<1>7. c \notin Flows
  <2> SUFFICES ASSUME Op(c) \in Starts PROVE FALSE
    BY DEF Flows
  <2>1. (x.wf # NoId /\ x.step # {}) \/ x.wf = NoId
    BY <1>3 DEF StepLike
  <2> HIDE DEF x
  <2> QED BY <1>1, <1>3, <2>1, Ways
<1>8. CASE NoneStored(c)
  <2>1. h = c /\ x.wf = NoId /\ crashes = 0
    BY <1>3, <1>8
  <2>2. ~Scoped(c)
    <3> SUFFICES ASSUME Scoped(c) PROVE FALSE
      OBVIOUS
    <3>1. x.assigned = program[c].scope /\ program[c].id = NoId /\ program[c].scope # NoId
      BY <1>3, <1>8 DEF Scoped
    <3>2. Op(c) = "runStep"
      <4>1. Op(c) \in Starts \cup {"step", "runStep"}
        BY <1>3, <1>8
      <4> HIDE DEF x
      <4> QED BY <1>1, <1>3, <2>1, <4>1, Ways
    <3>3. NextWFID(c, x) = NoId
      <4> HIDE DEF x
      <4> QED BY <1>1, <1>3, <2>1, <3>2, Ways
    <3>4. NextWFID(c, x) = x.assigned
      BY <3>1, <3>2 DEF NextWFID, Assigns
    <3> QED BY <3>1, <3>3, <3>4
  <2>3. y = NoCtx
    BY <1>3, <1>4, <1>8, <2>1, <2>2
  <2>4. Op(c) # "step"
    <3> HIDE DEF x
    <3> QED BY <1>1, <1>3, <2>1, Ways
  <2>5. ctx' = [ctx EXCEPT ![c] = NoCtx] /\ home' = [home EXCEPT ![c] = c]
    BY <1>1, <2>1, <2>3
  <2>6. "body" \in Places \ {"todo"} /\ Moves(c, "body")
    BY <1>1, <1>7, <2>5 DEF Moves, Places
  <2>7. Steady(c) /\ DOMAIN ctx' = Bodies /\ (\A b \in Bodies : IsCtx(ctx'[b]))
        /\ \A b \in Flows : ctx'[b] = ctx[b]
    BY <1>3, <1>5, <1>7, <2>5, NoCtxIs DEF Steady, StepLike, Flows
  <2>8. PlaceRight(c)'
    <3>1. /\ at'[c] = "body" /\ home'[c] = c /\ ctx'[c] = NoCtx /\ crashes' = 0
          /\ Flows' = Flows /\ Calls' = Calls /\ Inside' = Inside /\ Op(c)' = Op(c)
      BY <1>1, <1>5, <2>1, <2>5, TextSame
    <3>2. RunsRight(c)'
      BY <1>2, <1>7, <2>4, <3>1 DEF RunsRight
    <3> QED BY <1>6, <3>1, <3>2 DEF PlaceRight
  <2> QED BY <1>1, <1>2, <2>6, <2>7, <2>8, OutsideKeeps
<1>9. CASE ~NoneStored(c)
  <2>1. /\ h = Stored(c) /\ StepLike(ctx[h]) /\ h \in Calls \ Flows /\ at[h] # "todo" /\ h # c
    BY <1>3, <1>9
  <2>2. StepLike(y)
    BY <1>3, <1>4, <2>1 DEF StepLike
  <2>3. "body" \in Places \ {"todo"} /\ Moves(c, "body")
    <3> HIDE DEF h
    <3> QED BY <1>1, <1>7, <2>1 DEF Moves, Places
  <2>4. Steady(c) /\ DOMAIN ctx' = Bodies /\ (\A b \in Bodies : IsCtx(ctx'[b]))
        /\ \A b \in Flows : ctx'[b] = ctx[b]
    <3>1. ctx[h] # NoCtx
      BY <2>1, NoCtxIs DEF StepLike
    <3> HIDE DEF h, y
    <3> QED BY <1>1, <1>4, <1>5, <2>1, <2>2, <3>1 DEF Steady, Flows
  <2>5. PlaceRight(c)'
    <3> HIDE DEF h, y
    <3>1. /\ at'[c] = "body" /\ home'[c] = h /\ ctx'[h] = y /\ at'[h] = at[h]
          /\ Flows' = Flows /\ Calls' = Calls /\ Inside' = Inside /\ Op(c)' = Op(c)
      BY <1>1, <1>5, <2>1, TextSame
    <3>2. RunsRight(c)'
      BY <1>7, <2>1, <2>2, <3>1 DEF RunsRight, StepLike
    <3> QED BY <1>6, <3>1, <3>2 DEF PlaceRight
  <2> QED BY <1>1, <1>2, <2>3, <2>4, <2>5, OutsideKeeps
<1> QED BY <1>8, <1>9

LEMMA IssueOutsideKeeps ==
  ASSUME PlainPrograms, NamesApart, IInv, NEW c \in Calls, Ready(c), ~Skips(c),
         had' = [had EXCEPT ![c] = Found(c)], IssueOutside(c),
         UNCHANGED <<program, seen, patched, crashes>>
  PROVE  IInv'
<1> DEFINE x == Around(c)
           w == IdFor(c, x, RandomId(c))
           u == UsedUp(c, x)
           own == WorkflowCtx(u, w)
<1>1. /\ WayOf(c, x) \in {"alone", "started"} /\ Stores(c, u) /\ Copies(c, own)
      /\ at' = [at EXCEPT ![c] = "create"]
      /\ UNCHANGED <<home, key, live, ops, rows>>
  BY DEF IssueOutside
<1>2. c \notin Inside
  <2> SUFFICES ASSUME c \in Inside PROVE FALSE
    OBVIOUS
  <2>1. x.wf # NoId /\ x.step = {}
    BY InsideIssue
  <2>2. Op(c) \in Operations \ {"absent"}
    BY ProgramIs, CallIs DEF IInv, Typed, Skips
  <2> HIDE DEF x
  <2> QED BY <1>1, <2>1, <2>2, Ways
<1>3. /\ Op(c) \in Operations \ {"absent"} /\ IsCtx(x) /\ at[c] = "todo" /\ key[c] = <<>>
      /\ x.wf = ctx[Stored(c)].wf /\ x.step = ctx[Stored(c)].step
      /\ \/ StepLike(ctx[Stored(c)])
         \/ /\ NoneStored(c) /\ crashes = 0 /\ x.wf = NoId /\ x.next = 0 /\ x.step = {}
            /\ Scoped(c) => /\ x.assigned = program[c].scope /\ program[c].id = NoId
                            /\ Op(c) \in Starts \cup {"step", "runStep"}
            /\ ~Scoped(c) => x = NoCtx
  BY <1>2, OutsideIssue
<1>4. /\ NoneStored(c) /\ crashes = 0 /\ x.wf = NoId /\ x.next = 0 /\ x.step = {}
      /\ Scoped(c) => x.assigned = program[c].scope /\ program[c].id = NoId
      /\ ~Scoped(c) => x = NoCtx
  <2>1. ~StepLike(ctx[Stored(c)])
    <3> SUFFICES ASSUME StepLike(ctx[Stored(c)]) PROVE FALSE
      OBVIOUS
    <3>1. x.wf # NoId /\ x.step # {}
      BY <1>3 DEF StepLike
    <3> HIDE DEF x
    <3> QED BY <1>1, <1>3, <3>1, Ways
  <2> HIDE DEF x
  <2> QED BY <1>3, <2>1
<1>5. Op(c) \in Starts \cup {"step", "send"}
  <2> HIDE DEF x
  <2> QED BY <1>1, <1>3, <1>4, Ways
<1>6. /\ IsCtx(u) /\ u.next = 0 /\ u.step = {} /\ u.own = x.own
      /\ u.assigned = IF Assigns(c) THEN NoId ELSE x.assigned
  <2> HIDE DEF x
  <2> QED BY <1>3, <1>4, UsedUpIs
<1>7. /\ IsCtx(own) /\ own.wf = w /\ own.next = 0 /\ own.step = {}
      /\ own.assigned = u.assigned /\ own.own = x.own
  <2> HIDE DEF u, w, x
  <2> QED BY <1>6, WorkflowCtxIs
<1>8. "create" \in Places \ {"todo"} /\ Moves(c, "create")
  <2> HIDE DEF own, u, w, x
  <2> QED BY <1>1, <1>7 DEF Moves, Places, Copies
<1>9. ctx' = ctx
  BY <1>1, <1>4 DEF Stores
<1>10. Steady(c) /\ DOMAIN ctx' = Bodies /\ \A b \in Bodies : IsCtx(ctx'[b])
  BY <1>9, CtxSteady
<1>11. c \in Flows \/ Op(c) \in {"step", "send"}
  BY <1>5 DEF Flows
<1>12. RightId(c, w)
  <2>1. Startable(c)
    BY <1>2, <1>11 DEF Startable
  <2>2. w = <<"random", c, crashes>> \/ (GivenId(c) # NoId /\ w = GivenId(c))
    <3>1. CASE Assigns(c)
      <4>1. NextWFID(c, x) = x.assigned /\ program[c].id = NoId
        BY <3>1 DEF NextWFID, Assigns
      <4>2. CASE Scoped(c)
        BY <1>4, <4>1, <4>2 DEF IdFor, GivenId, Given, Scoped, RandomId
      <4>3. CASE ~Scoped(c)
        <5>1. x.assigned = NoId
          BY <1>4, <4>3, NoCtxIs
        <5> QED BY <4>1, <5>1 DEF IdFor, RandomId
      <4> QED BY <4>2, <4>3
    <3>2. CASE ~Assigns(c)
      <4>1. NextWFID(c, x) = program[c].id
        BY <3>2 DEF NextWFID
      <4> QED BY <4>1 DEF IdFor, GivenId, Given, RandomId
    <3> QED BY <3>1, <3>2
  <2>3. crashes \in 0..crashes
    BY <1>4
  <2> HIDE DEF w
  <2> QED BY <1>2, <2>1, <2>2, <2>3 DEF RightId
<1>13. c \in Flows => u.assigned = NoId /\ (x.own => c \in Shaded)
  <2> SUFFICES ASSUME c \in Flows PROVE u.assigned = NoId /\ (x.own => c \in Shaded)
    OBVIOUS
  <2>1. Op(c) # "send"
    BY DEF Flows, Starts
  <2>2. ~Assigns(c) => x = NoCtx
    BY <1>4, <2>1 DEF Assigns
  <2>3. x.own => Scoped(c)
    BY <1>4, NoCtxIs
  <2> HIDE DEF u, x
  <2> QED BY <1>6, <2>2, <2>3, NoCtxIs, ShadedIs
<1>14. Own(c) = {}
  BY <1>2, <1>3, <1>4 DEF IInv, FirstLife
<1>15. PlaceRight(c)'
  <2>1. PICK v : v = w
    OBVIOUS
  <2>2. at'[c] = "create" /\ copy'[c] = own
    <3> HIDE DEF own, u, w, x
    <3> QED BY <1>1, <1>3 DEF IInv, Typed, Copies
  <2>3. RightId(c, v)'
    <3>1. RightId(c, v)
      BY <1>12, <2>1
    <3> QED BY <1>1, <3>1, RowsSame
  <2>4. Own(c)' = {} /\ key'[c] = <<>> /\ Inside' = Inside /\ Flows' = Flows /\ Shaded' = Shaded
    BY <1>1, <1>3, <1>14, RowsSame, TextSame
  <2>5. MayCreate(c)'
    <3> HIDE DEF own, u, w, x
    <3> QED BY <1>7, <1>13, <2>1, <2>2, <2>3, <2>4 DEF MayCreate
  <2> QED BY <1>2, <2>2, <2>4, <2>5 DEF PlaceRight, Settled
<1> HIDE DEF own, u, w, x
<1> QED BY <1>1, <1>2, <1>8, <1>9, <1>10, <1>15, OutsideKeeps

LEMMA IssueRefusedKeeps ==
  ASSUME PlainPrograms, NamesApart, IInv, NEW c \in Calls, Ready(c), ~Skips(c),
         had' = [had EXCEPT ![c] = Found(c)], IssueRefused(c),
         UNCHANGED <<program, seen, patched, crashes>>
  PROVE  IInv'
<1> DEFINE x == Around(c)
           u == IF Op(c) \in Starts \cup {"runStep"} THEN UsedUp(c, x) ELSE x
           z == Ends(c, u)
<1>1. /\ WayOf(c, x) = "refused" /\ Stores(c, z) /\ at' = [at EXCEPT ![c] = "refused"]
      /\ UNCHANGED <<copy, home, key, live, ops, rows>>
  BY DEF IssueRefused
<1>2. "refused" \in Places \ {"todo"} /\ Moves(c, "refused")
  <2> HIDE DEF z, x
  <2> QED BY <1>1 DEF Moves, Places, Settled
<1>3. Kept(c) /\ at'[c] = "refused"
  BY <1>2, MovesKept
<1>4. PlaceRight(c)'
  BY <1>3, SettledPlace DEF Settled
<1>5. IsProgram(program) /\ IsCtx(ctx[Stored(c)]) /\ Op(c) \in Operations \ {"absent"}
  BY StoredIs, ProgramIs, CallIs DEF IInv, Typed, Skips
<1>6. /\ IsCtx(x) /\ x.wf = ctx[Stored(c)].wf /\ x.step = ctx[Stored(c)].step
  BY <1>5, AroundIs
<1>7. /\ IsCtx(u) /\ u.wf = x.wf /\ u.step = x.step
      /\ Op(c) \notin Starts \cup {"runStep"} => u = x
  <2> HIDE DEF x
  <2> QED BY <1>6, UsedUpIs
<1>8. /\ IsCtx(z) /\ z.wf = ctx[Stored(c)].wf /\ z.step = ctx[Stored(c)].step
      /\ ~Scoped(c) => z = u
  <2>1. Found(c) \in BOOLEAN
    BY <1>5 DEF Found, IsCtx
  <2> HIDE DEF u, x
  <2>2. \A f \in BOOLEAN : /\ IsCtx(Left(c, u, f)) /\ Left(c, u, f).wf = u.wf
                           /\ Left(c, u, f).step = u.step
                           /\ ~Scoped(c) => Left(c, u, f) = u
    BY <1>5, <1>7, LeftIs
  <2> QED BY <1>6, <1>7, <2>1, <2>2 DEF Ends
<1>9. /\ Steady(c) /\ DOMAIN ctx' = Bodies /\ (\A b \in Bodies : IsCtx(ctx'[b]))
      /\ \A b \in Flows : b # Body(c) => ctx'[b] = ctx[b]
      /\ ~NoneStored(c) => ctx'[Stored(c)] = z
  <2> HIDE DEF z, x
  <2> QED BY <1>1, <1>8, StoresSteady
<1>10. CASE c \notin Inside
  <2>1. \A b \in Flows : ctx'[b] = ctx[b]
    BY <1>9, <1>10 DEF Inside
  <2> QED BY <1>1, <1>2, <1>4, <1>9, <1>10, <2>1, OutsideKeeps
<1>11. CASE c \in Inside
  <2> DEFINE b == Body(c)
  <2>1. /\ FlowCtx(b) /\ b \in live /\ ~NoneStored(c) /\ Stored(c) = b
        /\ x.wf # NoId /\ x.step = {} /\ ctx[b].next \in Nat
        /\ ctx[b].assigned = NoId /\ (ctx[b].own => b \in Shaded)
        /\ Scoped(c) => program[c].id = NoId
        /\ ~Scoped(c) => x = ctx[b]
        /\ c \notin Taken(b)
    BY <1>5, <1>11, InsideIssue, OffsetType
  <2>2. Keyed(c)
    <3> HIDE DEF x
    <3> QED BY <1>1, <1>5, <2>1, Ways
  <2>3. Op(c) = "send" /\ ~Scoped(c) /\ Width(c) = 0
    BY <2>1, <2>2 DEF Keyed, Width
  <2>4. ctx'[b] = ctx[b]
    <3>1. u = x
      BY <2>3 DEF Starts
    <3> HIDE DEF u, x, z
    <3> QED BY <1>8, <1>9, <2>1, <2>3, <3>1
  <2>5. ASSUME NEW d \in Flows, d = b PROVE FlowRight(d)'
    <3>1. d \in live' /\ Op(c) \notin Patches /\ ctx[d].next + 0 = ctx[d].next
      BY <1>1, <2>1, <2>3, <2>5 DEF Patches
    <3> HIDE DEF u, x, z
    <3> QED BY <1>3, <1>11, <2>1, <2>3, <2>4, <2>5, <3>1, FlowTakes
  <2>6. KeyRight(c)'
    <3>1. key'[c] = <<>>
      BY <1>1 DEF IInv, PlaceRight, Ready
    <3> QED BY <3>1 DEF KeyRight
  <2>7. ScopeRight(c)' /\ PatchRight(c)'
    <3>1. ScopeRight(c)'
      BY <1>3 DEF ScopeRight, Flying, Settled
    <3>2. PatchRight(c)'
      BY <2>3, TextSame DEF PatchRight, Patches
    <3> QED BY <3>1, <3>2
  <2> HIDE DEF u, x, z
  <2> QED BY <1>2, <1>4, <1>9, <2>5, <2>6, <2>7, MovesKeeps
<1> QED BY <1>10, <1>11

(* ------------------------------ the theorems ---------------------------- *)

LEMMA InitIs ==
  ASSUME PlainPrograms, Init
  PROVE  IInv
<1>1. IsProgram(program)
  BY ProgramsAssumption DEF Init
<1>2. Main \in Bodies /\ Calls \subseteq Bodies /\ Main \notin Calls /\ Flows \subseteq Calls
  BY <1>1 DEF Bodies, IsProgram, Calls, Flows
<1>3. DOMAIN ops = {} /\ DOMAIN rows = {}
  BY DEF Init
<1>4. Typed
  BY <1>3, NoCtxIs DEF Init, Typed, Places
<1>5. RowsRight /\ OneEach /\ LogRight
  BY <1>3 DEF RowsRight, OneEach, LogRight
<1>6. ctx[Main] = NoCtx /\ \A b \in Bodies : HomeRight(b)
  BY <1>2 DEF Init, HomeRight, Bodies
<1>7. \A b \in Flows : FlowRight(b)
  BY DEF Init, FlowRight, InBody
<1>8. \A c \in Inside : InOrder(c)
  BY DEF Init, InOrder, Inside
<1>9. \A c \in Calls : KeyRight(c) /\ PlaceRight(c)
  BY DEF Init, KeyRight, PlaceRight
<1>10. \A c \in Calls : ScopeRight(c) /\ PatchRight(c) /\ FirstLife(c)
  BY <1>3 DEF Init, ScopeRight, PatchRight, FirstLife, Flying, Settled, Own
<1>11. EachCallItsOwn
  BY DEF Init, EachCallItsOwn
<1> QED BY <1>4, <1>5, <1>6, <1>7, <1>8, <1>9, <1>10, <1>11 DEF IInv

LEMMA NextKeeps ==
  ASSUME PlainPrograms, NamesApart, IInv, [Next]_vars
  PROVE  IInv'
<1>1. ASSUME NEW c \in Calls, Issue(c) PROVE IInv'
  BY <1>1, IssueDurableKeeps, IssueInlineKeeps, IssueOutsideKeeps, IssueRefusedKeeps DEF Issue
<1>2. ASSUME NEW c \in Calls, Skip(c) PROVE IInv'
  BY <1>2, SkipKeeps
<1>3. ASSUME NEW c \in Calls, Continue(c) PROVE IInv'
  BY <1>3, LookKeeps, CheckPatchKeeps, CreateKeeps, ReturnKeeps, RecordKeeps,
     RecordTimeoutKeeps, GetResultKeeps, FinishKeeps, RecoverKeeps DEF Continue
<1>4. CASE Crash
  BY <1>4, CrashKeeps
<1>5. CASE UNCHANGED vars
  <2> USE <1>5 DEF vars
  <2>1. \A d, w : RightId(d, w)' = RightId(d, w)
    BY RowsSame
  <2>2. \A d, k : RightKey(d, k)' = RightKey(d, k)
    BY RowsSame
  <2>3. \A d : Own(d)' = Own(d)
    BY RowsSame
  <2>4. (Typed /\ RowsRight /\ OneEach /\ LogRight)'
    <3>1. Calls' = Calls /\ Bodies' = Bodies /\ \A v : Owner(v)' = Owner(v)
      BY RowsSame, TextSame
    <3> QED BY <2>1, <2>2, <3>1 DEF IInv, Typed, RowsRight, OneEach, LogRight
  <2>5. ctx'[Main] = NoCtx /\ \A b \in Bodies : HomeRight(b)'
    BY TextSame DEF IInv, HomeRight
  <2>6. \A b \in Flows : FlowRight(b)'
    <3>1. \A b : Taken(b)' = Taken(b) /\ ScopeOpen(b)' = ScopeOpen(b)
      BY TextSame DEF Taken, ScopeOpen, Flying
    <3>2. \A b : FlowRight(b)' = FlowRight(b)
      BY <3>1, TextSame DEF FlowRight, FlowCtx, Owner
    <3> QED BY <3>2 DEF IInv
  <2>7. \A c \in Inside : InOrder(c)'
    BY TextSame DEF IInv, InOrder
  <2>8. \A c \in Calls : KeyRight(c)' /\ PlaceRight(c)'
    <3> TAKE c \in Calls
    <3>1. KeyRight(c)'
      BY <2>2, TextSame DEF IInv, KeyRight
    <3>2. MayCreate(c)' = MayCreate(c) /\ RunsRight(c)' = RunsRight(c)
      BY <2>1, <2>3, TextSame DEF MayCreate, RunsRight, StepLike
    <3>3. PlaceRight(c)'
      BY <3>2, TextSame DEF IInv, PlaceRight, StepLike
    <3> QED BY <3>1, <3>3
  <2>9. \A c \in Calls : ScopeRight(c)' /\ PatchRight(c)' /\ FirstLife(c)'
    BY <2>3, TextSame DEF IInv, ScopeRight, PatchRight, FirstLife, Flying
  <2>10. EachCallItsOwn'
    BY TextSame DEF IInv, EachCallItsOwn
  <2>11. Calls' = Calls /\ Bodies' = Bodies /\ Flows' = Flows /\ Inside' = Inside
    BY TextSame
  <2> QED BY <2>4, <2>5, <2>6, <2>7, <2>8, <2>9, <2>10, <2>11 DEF IInv
<1> QED BY <1>1, <1>2, <1>3, <1>4, <1>5 DEF Next

(* In every plain program that keeps its version, the ids a call takes and
   the workflow it starts are what its place in the text says, across any
   number of crashes: the context of a workflow has as many ids taken as the
   calls it issued take (functionIDGetIncrement), a row is its caller's
   (getNextWFID, assignedID), a record is at an id of its call's own.       *)
THEOREM IdsFollowTheText ==
  ASSUME PlainPrograms, NamesApart
  PROVE  Spec => []IInv
<1>1. Init => IInv
  BY InitIs
<1>2. IInv /\ [Next]_vars => IInv'
  BY NextKeeps
<1> QED BY <1>1, <1>2, PTL DEF Spec

(* In every such program a call is answered by what it recorded itself, and
   given a handle to the workflow it started itself.                       *)
THEOREM EachCallGetsItsOwn ==
  ASSUME PlainPrograms, NamesApart
  PROVE  Spec => []EachCallItsOwn
<1>1. IInv => EachCallItsOwn
  BY DEF IInv
<1> QED BY <1>1, IdsFollowTheText, PTL
=============================================================================
