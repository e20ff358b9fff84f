--------------------------- MODULE ProcessProofs ----------------------------
(***************************************************************************)
(* Proofs about Process, for every set of jobs, statements, functions and  *)
(* names, and for programs, lost requests and crashes without a bound.     *)
(*                                                                         *)
(* The first part is about the one-shot runs of a process and its exit;    *)
(* the second one about its registry, and what a launched process finds in *)
(* it again for the rows an earlier process has left.                      *)
(***************************************************************************)
EXTENDS Process, SequenceTheorems, TLAPS

USE ProcessAssumption

(* A record of a run's fields, whatever its function. *)
IsRun(r) ==
  /\ DOMAIN r = {"fn", "by", "phase", "vars", "result"}
  /\ r = [field \in DOMAIN r |-> r[field]]
  /\ r.phase \in {"reporting", "reported"} =>
       r.result \in {"completed", "failed", "suspended", "cancelled"}

(* The row of a process's only run, by what it has come to. *)
RowAt(r) ==
  CASE r.phase \in {"fetching", "rejected", "creating"} -> "absent"
    [] r.phase \in {"running", "reporting", "stuck"} -> "PENDING"
    [] OTHER -> IF r.result = "suspended" THEN "PENDING" ELSE StatusFor[r.result]

RunsAre == runs \in Seq(Range(runs)) /\ \A i \in DOMAIN runs : IsRun(runs[i])

(* The first run finds all vars and no row. *)
BeforeRuns == runs = << >> => env = "full" /\ row = "absent" /\ ~ executed

(* A second run is only started where no run is the launcher's. *)
LauncherIsOver ==
  \A i \in DOMAIN runs : runs[i].by = "launcher" => main \in {"waiting", "exited"}

(* The only run still has the vars to take, and the row is as it left it. *)
OnlyRun ==
  \A i \in DOMAIN runs : Len(runs) = 1 =>
    /\ runs[i].phase = "fetching" => env = "full"
    /\ lost = 0 => row = RowAt(runs[i])

(* A run leaves its marks. *)
Marked == runs # << >> => executed /\ started

Flags ==
  /\ lost \in Nat
  /\ {executed, skipped, installed, started} \subseteq BOOLEAN
  /\ skipped => installed
  /\ started => runs # << >>

(* Before its end a process has no other code than 0 or the module's own. *)
Undecided ==
  /\ job \in Jobs
  /\ main # "exited" => code \in {0, 3} /\ exitBy = 0
  /\ main = "launched" => job.mode = "legacy"
  /\ job.mode = "launcher" /\ main = "waiting" => runs # << >>

IInv ==
  /\ RunsAre /\ BeforeRuns /\ LauncherIsOver /\ OnlyRun /\ Marked /\ Flags
  /\ Undecided
  /\ LauncherRunsAlone /\ ExitTells

-----------------------------------------------------------------------------
(* A sequence is one of its own elements. *)
LEMMA OwnRange ==
  ASSUME NEW S, NEW s \in Seq(S)
  PROVE  s \in Seq(Range(s))
<1>1. s \in [1..Len(s) -> S] /\ Len(s) \in Nat
  BY LenProperties
<1>2. s \in [1..Len(s) -> Range(s)]
  BY <1>1 DEF Range
<1> QED BY <1>1, <1>2

(* A run goes on. *)
LEMMA RunGoesOn ==
  ASSUME RunsAre, NEW i \in DOMAIN runs, NEW r, IsRun(r),
         runs' = [runs EXCEPT ![i] = r]
  PROVE  /\ RunsAre'
         /\ Len(runs') = Len(runs) /\ DOMAIN runs' = DOMAIN runs
         /\ runs'[i] = r
         /\ \A j \in DOMAIN runs : j # i => runs'[j] = runs[j]
         /\ runs # << >> /\ runs' # << >>
<1> DEFINE S == Range(runs) \cup {r}
<1>1. runs \in Seq(S) /\ DOMAIN runs = 1..Len(runs) /\ Len(runs) \in Nat
  <2>1. DOMAIN runs = 1..Len(runs) /\ Len(runs) \in Nat
    BY LenProperties DEF RunsAre
  <2> QED BY <2>1 DEF RunsAre
<1>2. /\ runs' \in Seq(S) /\ Len(runs') = Len(runs)
      /\ \A j \in 1..Len(runs) : runs'[j] = IF j = i THEN r ELSE runs[j]
  BY <1>1, ExceptSeq
<1>3. DOMAIN runs' = 1..Len(runs') /\ Len(runs') \in Nat
  BY <1>2, LenProperties
<1>4. runs # << >> /\ runs' # << >>
  BY <1>1, <1>2, <1>3
<1>5. runs' \in Seq(Range(runs'))
  BY <1>2, <1>3, OwnRange
<1> QED BY <1>1, <1>2, <1>3, <1>4, <1>5 DEF RunsAre

(* A run begins. *)
LEMMA RunBegins ==
  ASSUME RunsAre, NEW r, IsRun(r), runs' = Append(runs, r)
  PROVE  /\ RunsAre'
         /\ Len(runs') = Len(runs) + 1 /\ Len(runs) \in Nat
         /\ DOMAIN runs = 1..Len(runs) /\ DOMAIN runs' = 1..(Len(runs) + 1)
         /\ runs'[Len(runs) + 1] = r
         /\ \A j \in DOMAIN runs : runs'[j] = runs[j]
         /\ runs' # << >> /\ (Len(runs) = 0 <=> runs = << >>)
<1> DEFINE S == Range(runs) \cup {r}
<1>1. DOMAIN runs = 1..Len(runs) /\ Len(runs) \in Nat
  BY LenProperties DEF RunsAre
<1>2. runs \in Seq(S)
  BY <1>1 DEF RunsAre
<1>3. /\ runs' \in Seq(S) /\ runs' # << >> /\ Len(runs') = Len(runs) + 1
      /\ \A j \in 1..Len(runs) : runs'[j] = runs[j]
      /\ runs'[Len(runs) + 1] = r
  BY <1>2, AppendProperties
<1>4. DOMAIN runs' = 1..(Len(runs) + 1)
  BY <1>3, LenProperties
<1>5. Len(runs) = 0 <=> runs = << >>
  BY <1>2, EmptySeq
<1>6. runs' \in Seq(Range(runs'))
  BY <1>3, OwnRange
<1>7. \A j \in DOMAIN runs' : IsRun(runs'[j])
  BY <1>1, <1>3, <1>4 DEF RunsAre
<1> QED BY <1>1, <1>3, <1>4, <1>5, <1>6, <1>7 DEF RunsAre

LEMMA AdaptedRun ==
  ASSUME NEW r, IsRun(r)
  PROVE  /\ IsRun(Adapted(r)) /\ Adapted(r).by = r.by
         /\ Adapted(r).phase = "creating"
         /\ env = "full" => Adapted(r).vars = "full"
BY DEF IsRun, Adapted

LEMMA BegunRun ==
  ASSUME NEW f, NEW by
  PROVE  /\ IsRun(Begun(f, by)) /\ Begun(f, by).by = by
         /\ Begun(f, by).phase \in {"fetching", "rejected", "creating"}
         /\ env = "full" => Begun(f, by).vars # "empty"
         /\ job.input # "inline" => Begun(f, by).phase # "creating"
         /\ Begun(f, by).phase = "fetching" => job.input # "inline"
BY DEF IsRun, Begun, Adapted

(* What a process is when it starts. *)
LEMMA InitIInv == Init => IInv
<1> SUFFICES ASSUME Init PROVE IInv
  OBVIOUS
<1>1. runs = << >> /\ DOMAIN runs = {} /\ runs \in Seq(Range(runs))
  BY EmptySeq DEF Init
<1>2. main # "exited" /\ main # "launched" /\ main # "waiting"
  BY DEF Init
<1>3. RunsAre /\ LauncherIsOver /\ OnlyRun /\ LauncherRunsAlone
  BY <1>1 DEF RunsAre, LauncherIsOver, OnlyRun, LauncherRunsAlone
<1>4. BeforeRuns /\ Marked /\ Flags /\ Undecided /\ ExitTells
  BY <1>1, <1>2 DEF Init, BeforeRuns, Marked, Flags, Undecided, ExitTells
<1> QED BY <1>3, <1>4 DEF IInv

(* A run that goes on in a process that does not exit. *)
LEMMA RunStep ==
  ASSUME IInv, Alive, NEW i \in DOMAIN runs, NEW r, IsRun(r),
         runs' = [runs EXCEPT ![i] = r],
         r.by = runs[i].by, r.phase # "fetching",
         r.by = "launcher" => r.vars # "empty",
         lost' \in {lost, lost + 1},
         Len(runs) = 1 /\ lost' = 0 => row' = RowAt(r),
         UNCHANGED <<job, main, executed, skipped, installed, started, code,
                     exitBy>>
  PROVE  IInv'
<1>1. RunsAre /\ lost \in Nat
  BY DEF IInv, Flags
<1>2. /\ RunsAre' /\ Len(runs') = Len(runs) /\ DOMAIN runs' = DOMAIN runs
      /\ runs'[i] = r /\ \A j \in DOMAIN runs : j # i => runs'[j] = runs[j]
      /\ runs # << >> /\ runs' # << >>
  BY <1>1, RunGoesOn
<1>3. DOMAIN runs = 1..Len(runs) /\ Len(runs) \in Nat
  BY LenProperties, <1>1 DEF RunsAre
<1>4. BeforeRuns' /\ Marked' /\ Flags' /\ Undecided' /\ ExitTells'
  BY <1>1, <1>2 DEF IInv, Alive, BeforeRuns, Marked, Flags, Undecided, ExitTells
<1>5. LauncherIsOver' /\ LauncherRunsAlone'
  <2> SUFFICES ASSUME NEW j \in DOMAIN runs, runs'[j].by = "launcher"
               PROVE  /\ main' \in {"waiting", "exited"}
                      /\ Len(runs') = 1 /\ runs'[j].vars # "empty"
    BY <1>2 DEF LauncherIsOver, LauncherRunsAlone
  <2>1. runs[j].by = "launcher"
    BY <1>2
  <2>2. main' \in {"waiting", "exited"} /\ Len(runs') = 1
    BY <2>1, <1>2 DEF IInv, LauncherIsOver, LauncherRunsAlone
  <2>3. runs'[j].vars # "empty"
    BY <2>1, <1>2 DEF IInv, LauncherRunsAlone
  <2> QED BY <2>2, <2>3
<1>6. OnlyRun'
  <2> SUFFICES ASSUME NEW j \in DOMAIN runs, Len(runs') = 1
               PROVE  /\ runs'[j].phase = "fetching" => env' = "full"
                      /\ lost' = 0 => row' = RowAt(runs'[j])
    BY <1>2 DEF OnlyRun, RowAt
  <2>1. j = i
    BY <1>2, <1>3
  <2> QED BY <2>1, <1>2
<1> QED BY <1>2, <1>4, <1>5, <1>6 DEF IInv

(* A run that begins, while no run is the launcher's. *)
LEMMA Begins ==
  ASSUME IInv, main \notin {"waiting", "exited"}, NEW f, NEW by,
         StartRun(f, by),
         by = "launcher" => runs = << >> /\ main' = "waiting",
         main' \in {main, "waiting"},
         installed' \in {installed, TRUE},
         UNCHANGED <<job, skipped, row, lost, code, exitBy>>
  PROVE  IInv'
<1> DEFINE r == Begun(f, by)
<1>1. /\ IsRun(r) /\ r.by = by
      /\ r.phase \in {"fetching", "rejected", "creating"}
      /\ env = "full" => r.vars # "empty"
      /\ r.phase = "fetching" => job.input # "inline"
  BY BegunRun
<1>2. /\ runs' = Append(runs, r) /\ started' = TRUE /\ executed' = TRUE
      /\ env' = IF job.input = "inline" THEN Scrubbed ELSE env
  BY DEF StartRun
<1> HIDE DEF r
<1>3. /\ RunsAre' /\ Len(runs') = Len(runs) + 1 /\ Len(runs) \in Nat
      /\ DOMAIN runs = 1..Len(runs) /\ DOMAIN runs' = 1..(Len(runs) + 1)
      /\ runs'[Len(runs) + 1] = r
      /\ \A j \in DOMAIN runs : runs'[j] = runs[j]
      /\ runs' # << >> /\ (Len(runs) = 0 <=> runs = << >>)
  BY <1>1, <1>2, RunBegins DEF IInv
<1>4. \A j \in DOMAIN runs : runs'[j].by # "launcher"
  BY <1>3 DEF IInv, LauncherIsOver
<1>5. BeforeRuns' /\ Marked'
  BY <1>2, <1>3 DEF BeforeRuns, Marked
<1>6. Flags' /\ Undecided' /\ ExitTells'
  BY <1>2, <1>3 DEF IInv, Flags, Undecided, ExitTells
<1>7. LauncherIsOver' /\ LauncherRunsAlone'
  <2> SUFFICES ASSUME NEW j \in DOMAIN runs', runs'[j].by = "launcher"
               PROVE  /\ main' \in {"waiting", "exited"}
                      /\ Len(runs') = 1 /\ runs'[j].vars # "empty"
    BY DEF LauncherIsOver, LauncherRunsAlone
  <2>1. j = Len(runs) + 1
    BY <1>3, <1>4
  <2> QED BY <2>1, <1>1, <1>3 DEF IInv, BeforeRuns
<1>8. OnlyRun'
  <2> SUFFICES ASSUME NEW j \in DOMAIN runs', Len(runs') = 1
               PROVE  /\ runs'[j].phase = "fetching" => env' = "full"
                      /\ lost' = 0 => row' = RowAt(runs'[j])
    BY DEF OnlyRun, RowAt
  <2>1. j = Len(runs) + 1 /\ runs = << >>
    BY <1>3
  <2> QED BY <2>1, <1>1, <1>2, <1>3 DEF IInv, BeforeRuns, RowAt
<1> QED BY <1>3, <1>5, <1>6, <1>7, <1>8 DEF IInv

(* What leaves the runs, and the process, as they are. *)
LEMMA Idles ==
  ASSUME IInv, Alive, main' # "exited",
         main = "waiting" => main' = "waiting",
         main' = "launched" => job.mode = "legacy",
         job.mode = "launcher" /\ main' = "waiting" => runs # << >>,
         code' \in {0, 3}, installed' \in {installed, TRUE},
         skipped' = skipped \/ (skipped' = TRUE /\ installed' = TRUE),
         UNCHANGED <<job, runs, executed, started, env, row, lost, exitBy>>
  PROVE  IInv'
<1>1. /\ RunsAre' /\ BeforeRuns' /\ LauncherIsOver' /\ OnlyRun' /\ Marked'
      /\ LauncherRunsAlone'
  BY DEF IInv, Alive, RunsAre, BeforeRuns, LauncherIsOver, OnlyRun, Marked,
         LauncherRunsAlone, RowAt, Range
<1>2. Undecided' /\ ExitTells'
  BY DEF IInv, Alive, Undecided, ExitTells
<1>3. skipped' => installed'
  BY DEF IInv, Flags
<1>4. {executed', skipped', installed', started'} \subseteq BOOLEAN
  BY DEF IInv, Flags
<1>5. Flags'
  BY <1>3, <1>4 DEF IInv, Flags
<1> QED BY <1>1, <1>2, <1>5 DEF IInv

(* The end of the process. *)
LEMMA Exits ==
  ASSUME IInv, Alive, NEW c \in 0..3, NEW by, ExitWith(c, by),
         by # 0 => /\ by \in DOMAIN runs /\ runs[by].phase = "reported"
                   /\ c = ExitCodeFor(runs[by].result),
         by = 0 /\ job.mode = "launcher" /\ c = 0 => runs # << >>,
         by = 0 /\ job.mode = "launcher" /\ c = 1 =>
           \E i \in DOMAIN runs : runs[i].phase = "rejected",
         UNCHANGED <<job, runs, executed, skipped, installed, started, env, row,
                     lost>>
  PROVE  IInv'
<1>1. main' = "exited" /\ code' = FailLoud(c) /\ exitBy' = by
  BY DEF ExitWith
<1>2. runs # << >> => code' = c
  BY <1>1 DEF FailLoud, IInv, Marked
<1>3. /\ RunsAre' /\ BeforeRuns' /\ LauncherIsOver' /\ OnlyRun' /\ Marked'
      /\ LauncherRunsAlone'
  BY <1>1 DEF IInv, RunsAre, BeforeRuns, LauncherIsOver, OnlyRun, Marked,
              LauncherRunsAlone, RowAt, Range
<1>4. Flags' /\ Undecided'
  BY <1>1 DEF IInv, Flags, Undecided
<1>5. by # 0 => /\ code' = ExitCodeFor(runs[by].result)
                /\ Len(runs) = 1 /\ lost = 0 =>
                     row = IF runs[by].result = "suspended" THEN "PENDING"
                           ELSE StatusFor[runs[by].result]
  <2> SUFFICES ASSUME by # 0
               PROVE  /\ code' = ExitCodeFor(runs[by].result)
                      /\ Len(runs) = 1 /\ lost = 0 =>
                           row = IF runs[by].result = "suspended" THEN "PENDING"
                                 ELSE StatusFor[runs[by].result]
    OBVIOUS
  <2>1. runs # << >>
    BY LenProperties DEF IInv, RunsAre
  <2>2. RowAt(runs[by]) = IF runs[by].result = "suspended" THEN "PENDING"
                          ELSE StatusFor[runs[by].result]
    BY DEF RowAt
  <2> QED BY <1>2, <2>1, <2>2 DEF IInv, OnlyRun
<1>6. by = 0 /\ code' = 0 => ~ (job.oneShot /\ skipped /\ runs = << >>)
  BY <1>1 DEF FailLoud, IInv, Flags, BeforeRuns
<1>7. by = 0 /\ code' = 1 /\ job.mode = "launcher" =>
        \E i \in DOMAIN runs : runs[i].phase = "rejected"
  BY <1>1, <1>2 DEF FailLoud
<1>8. ExitTells'
  BY <1>1, <1>5, <1>6, <1>7 DEF ExitTells, ExitCodeFor, StatusFor
<1> QED BY <1>3, <1>4, <1>8 DEF IInv

-----------------------------------------------------------------------------
(* The actions of a run. *)

LEMMA FetchInputInv ==
  ASSUME IInv, NEW i \in DOMAIN runs, FetchInput(i)
  PROVE  IInv'
<1>1. /\ Alive /\ runs[i].phase = "fetching" /\ IsRun(runs[i])
      /\ UNCHANGED <<job, main, executed, skipped, installed, started, row, code,
                     exitBy>>
  BY DEF FetchInput, Runs, IInv, RunsAre
<1>2. CASE runs' = [runs EXCEPT ![i] = Adapted(@)] /\ UNCHANGED lost
  <2> DEFINE r == Adapted(runs[i])
  <2>1. IsRun(r) /\ r.by = runs[i].by /\ r.phase = "creating"
        /\ (env = "full" => r.vars = "full")
    BY <1>1, AdaptedRun
  <2>2. runs' = [runs EXCEPT ![i] = r]
    BY <1>2
  <2> HIDE DEF r
  <2>3. r.by = "launcher" => r.vars # "empty"
    BY <1>1, <2>1 DEF IInv, LauncherRunsAlone, OnlyRun
  <2>4. Len(runs) = 1 /\ lost' = 0 => row' = RowAt(r)
    BY <1>1, <1>2, <2>1 DEF IInv, OnlyRun, RowAt
  <2> QED BY <1>1, <1>2, <2>1, <2>2, <2>3, <2>4, RunStep
<1>3. CASE lost' = lost + 1 /\ runs' = [runs EXCEPT ![i].phase = "rejected"]
  <2> DEFINE r == [runs[i] EXCEPT !.phase = "rejected"]
  <2>1. IsRun(r) /\ r.by = runs[i].by /\ r.phase = "rejected"
        /\ r.vars = runs[i].vars
    BY <1>1 DEF IsRun
  <2>2. runs' = [runs EXCEPT ![i] = r]
    BY <1>3
  <2> HIDE DEF r
  <2>3. r.by = "launcher" => r.vars # "empty"
    BY <2>1 DEF IInv, LauncherRunsAlone
  <2>4. lost' # 0
    BY <1>3 DEF IInv, Flags
  <2> QED BY <1>1, <1>3, <2>1, <2>2, <2>3, <2>4, RunStep
<1> QED BY <1>2, <1>3 DEF FetchInput

(* A save that is not lost leaves the status it is to leave. *)
LEMMA SavesOrNot ==
  ASSUME IInv, NEW status, Saves(status)
  PROVE  lost' \in {lost, lost + 1} /\ (lost' = 0 => lost = 0 /\ row' = status)
BY DEF IInv, Flags, Saves

LEMMA CreateRowInv ==
  ASSUME IInv, NEW i \in DOMAIN runs, CreateRow(i)
  PROVE  IInv'
<1> DEFINE r == [runs[i] EXCEPT !.phase = "running"]
<1>1. /\ Alive /\ runs[i].phase = "creating" /\ IsRun(runs[i])
      /\ Saves(IF row = "absent" THEN "PENDING" ELSE row)
      /\ runs' = [runs EXCEPT ![i] = r]
      /\ UNCHANGED <<job, main, executed, skipped, installed, started, code,
                     exitBy>>
  BY DEF CreateRow, Runs, IInv, RunsAre
<1>2. IsRun(r) /\ r.by = runs[i].by /\ r.phase = "running"
      /\ r.vars = runs[i].vars
  BY <1>1 DEF IsRun
<1> HIDE DEF r
<1>3. r.by = "launcher" => r.vars # "empty"
  BY <1>2 DEF IInv, LauncherRunsAlone
<1>4. lost' \in {lost, lost + 1} /\ (Len(runs) = 1 /\ lost' = 0 => row' = RowAt(r))
  BY <1>1, <1>2, SavesOrNot DEF IInv, OnlyRun, RowAt
<1> QED BY <1>1, <1>2, <1>3, <1>4, RunStep

LEMMA RunBodyInv ==
  ASSUME IInv, NEW i \in DOMAIN runs, RunBody(i)
  PROVE  IInv'
<1>1. /\ Alive /\ runs[i].phase = "running" /\ IsRun(runs[i]) /\ lost \in Nat
      /\ UNCHANGED <<job, main, executed, skipped, installed, started, code,
                     exitBy, row, lost>>
  BY DEF RunBody, Runs, IInv, RunsAre, Flags
<1>2. PICK r : /\ runs' = [runs EXCEPT ![i] = r]
               /\ IsRun(r) /\ r.by = runs[i].by /\ r.vars = runs[i].vars
               /\ r.phase \in {"reporting", "stuck"}
  <2>1. CASE \E o \in Outcomes(runs[i].fn) :
               runs' = [runs EXCEPT ![i].phase = "reporting", ![i].result = o]
    <3>1. PICK o \in Outcomes(runs[i].fn) :
            runs' = [runs EXCEPT ![i].phase = "reporting", ![i].result = o]
      BY <2>1
    <3> DEFINE q == [runs[i] EXCEPT !.phase = "reporting"]
               r == [q EXCEPT !.result = o]
    <3>2. runs' = [runs EXCEPT ![i] = r]
      BY <3>1
    <3>3. /\ DOMAIN q = DOMAIN runs[i] /\ q = [field \in DOMAIN q |-> q[field]]
          /\ q.by = runs[i].by /\ q.vars = runs[i].vars /\ q.phase = "reporting"
      BY <1>1 DEF IsRun
    <3> HIDE DEF q
    <3>4. o \in {"completed", "failed", "suspended", "cancelled"}
      BY <3>1 DEF Outcomes
    <3>5. IsRun(r) /\ r.by = runs[i].by /\ r.vars = runs[i].vars
          /\ r.phase = "reporting"
      BY <1>1, <3>3, <3>4 DEF IsRun
    <3> HIDE DEF r
    <3> QED BY <3>2, <3>5
  <2>2. CASE runs' = [runs EXCEPT ![i].phase = "stuck"]
    <3> DEFINE r == [runs[i] EXCEPT !.phase = "stuck"]
    <3>1. IsRun(r) /\ r.by = runs[i].by /\ r.vars = runs[i].vars
          /\ r.phase = "stuck"
      BY <1>1 DEF IsRun
    <3>2. runs' = [runs EXCEPT ![i] = r]
      BY <2>2
    <3> HIDE DEF r
    <3> QED BY <3>1, <3>2
  <2> QED BY <2>1, <2>2 DEF RunBody
<1>3. r.by = "launcher" => r.vars # "empty"
  BY <1>2 DEF IInv, LauncherRunsAlone
<1>4. Len(runs) = 1 /\ lost' = 0 => row' = RowAt(r)
  BY <1>1, <1>2 DEF IInv, OnlyRun, RowAt
<1> QED BY <1>1, <1>2, <1>3, <1>4, RunStep

LEMMA ReportInv ==
  ASSUME IInv, NEW i \in DOMAIN runs, Report(i)
  PROVE  IInv'
<1> DEFINE r == [runs[i] EXCEPT !.phase = "reported"]
<1>1. /\ Alive /\ runs[i].phase = "reporting" /\ IsRun(runs[i]) /\ lost \in Nat
      /\ runs' = [runs EXCEPT ![i] = r]
      /\ UNCHANGED <<job, main, executed, skipped, installed, started, code,
                     exitBy>>
  BY DEF Report, Runs, IInv, RunsAre, Flags
<1>2. IsRun(r) /\ r.by = runs[i].by /\ r.phase = "reported"
      /\ r.vars = runs[i].vars /\ r.result = runs[i].result
  BY <1>1 DEF IsRun
<1> HIDE DEF r
<1>3. r.by = "launcher" => r.vars # "empty"
  BY <1>2 DEF IInv, LauncherRunsAlone
<1>4. RowAt(r) = IF runs[i].result = "suspended" THEN "PENDING"
                 ELSE StatusFor[runs[i].result]
  BY <1>2 DEF RowAt
<1>5. Len(runs) = 1 /\ lost = 0 => row = "PENDING"
  BY <1>1 DEF IInv, OnlyRun, RowAt
<1>6. CASE runs[i].result = "suspended" \/ row \in {"absent", "CANCELLED"}
  <2>1. UNCHANGED <<row, lost>>
    BY <1>6 DEF Report
  <2>2. Len(runs) = 1 /\ lost' = 0 => row' = RowAt(r)
    BY <1>4, <1>5, <1>6, <2>1
  <2> QED BY <1>1, <1>2, <1>3, <2>1, <2>2, RunStep
<1>7. CASE ~ (runs[i].result = "suspended" \/ row \in {"absent", "CANCELLED"})
  <2>1. Saves(StatusFor[runs[i].result])
    BY <1>7 DEF Report
  <2>2. lost' \in {lost, lost + 1} /\ (Len(runs) = 1 /\ lost' = 0 => row' = RowAt(r))
    BY <1>4, <1>7, <2>1, SavesOrNot
  <2> QED BY <1>1, <1>2, <1>3, <2>2, RunStep
<1> QED BY <1>6, <1>7

LEMMA RunEndsInv ==
  ASSUME IInv, NEW i \in DOMAIN runs, Rejected(i) \/ ExitRun(i)
  PROVE  IInv'
<1>1. DOMAIN runs = 1..Len(runs) /\ Len(runs) \in Nat
  BY LenProperties DEF IInv, RunsAre
<1>2. i # 0 /\ runs # << >>
  BY <1>1
<1>3. CASE Rejected(i)
  <2> DEFINE c == IF runs[i].by = "launcher" THEN 2 ELSE 1
  <2>1. Alive /\ runs[i].phase = "rejected" /\ ExitWith(c, 0)
        /\ UNCHANGED <<job, runs, executed, skipped, installed, started, env,
                       row, lost>>
    BY <1>3 DEF Rejected, Runs, oneShot
  <2>2. c \in 0..3 /\ c # 0
    OBVIOUS
  <2> HIDE DEF c
  <2> QED BY <2>1, <2>2, Exits
<1>4. CASE ExitRun(i)
  <2> DEFINE c == ExitCodeFor(runs[i].result)
  <2>1. Alive /\ runs[i].phase = "reported" /\ ExitWith(c, i)
        /\ UNCHANGED <<job, runs, executed, skipped, installed, started, env,
                       row, lost>>
    BY <1>4 DEF ExitRun, Runs, oneShot
  <2>2. c \in 0..3
    BY DEF ExitCodeFor
  <2>3. c = ExitCodeFor(runs[i].result)
    OBVIOUS
  <2> HIDE DEF c
  <2> QED BY <1>2, <2>1, <2>2, <2>3, Exits
<1> QED BY <1>3, <1>4

-----------------------------------------------------------------------------
(* The statements of a program. *)

LEMMA LegacyLaunches ==
  ASSUME IInv, NEW s \in Statements[job.mode], s.op \in {"launch", "shutdown"}
  PROVE  job.mode = "legacy"
BY DEF IInv, Undecided, IsJob, Modes

LEMMA StatementInv ==
  ASSUME IInv, Statement
  PROVE  IInv'
<1>1. PICK s \in Statements[job.mode] : Perform(s)
  BY DEF Statement
<1>2. main \in {"evaluating", "launched"} /\ UNCHANGED job
  BY DEF Statement
<1>3. /\ Alive /\ code \in {0, 3} /\ exitBy = 0
      /\ main = "launched" => job.mode = "legacy"
  BY <1>2 DEF IInv, Undecided, Alive
<1>4. CASE s.op = "runIfEntrypoint"
  <2>1. RunIfEntrypoint(s)
    BY <1>1, <1>4 DEF Perform
  <2>2. CASE s.entry /\ job.mode = "direct"
    <3>1. StartRun(s.fn, "module")
          /\ UNCHANGED <<skipped, row, lost, main, code, exitBy>>
          /\ installed' = TRUE
      BY <2>1, <2>2 DEF RunIfEntrypoint
    <3> QED BY <1>2, <3>1, Begins
  <2>3. CASE ~ (s.entry /\ job.mode = "direct")
    <3>1. /\ skipped' = TRUE /\ installed' = TRUE
          /\ UNCHANGED <<runs, executed, started, env, row, lost, main, code,
                         exitBy>>
      BY <2>1, <2>3 DEF RunIfEntrypoint
    <3> QED BY <1>2, <1>3, <3>1, Idles
  <2> QED BY <2>2, <2>3
<1>5. CASE s.op = "run"
  <2>1. StartRun(s.fn, "module")
        /\ UNCHANGED <<skipped, installed, row, lost, main, code, exitBy>>
    BY <1>1, <1>5 DEF Perform, SelfInvoke
  <2> QED BY <1>2, <2>1, Begins
<1>6. CASE s.op = "exitCode"
  <2>1. code' = 3 /\ UNCHANGED <<oneShot, main, exitBy>>
    BY <1>1, <1>6 DEF Perform, SetExitCode
  <2> QED BY <1>2, <1>3, <2>1, Idles DEF oneShot
<1>7. CASE s.op \in {"launch", "shutdown"}
  <2>1. job.mode = "legacy" /\ UNCHANGED oneShot
    BY <1>1, <1>7, LegacyLaunches DEF Perform
  <2>2. \/ ExitWith(1, 0)
        \/ main' \in {"launched", "evaluating"} /\ UNCHANGED <<code, exitBy>>
    BY <1>1, <1>7 DEF Perform, LaunchProgram, ShutdownProgram
  <2>3. CASE ExitWith(1, 0)
    BY <1>2, <1>3, <2>1, <2>3, Exits DEF oneShot
  <2>4. CASE main' \in {"launched", "evaluating"} /\ UNCHANGED <<code, exitBy>>
    BY <1>2, <1>3, <2>1, <2>4, Idles DEF oneShot
  <2> QED BY <2>2, <2>3, <2>4
<1>8. CASE s.op \notin {"runIfEntrypoint", "run", "exitCode", "launch", "shutdown"}
  <2> DEFINE c == IF job.mode = "launcher" THEN 2 ELSE 1
  <2>1. UNCHANGED oneShot /\ (ExitWith(c, 0) \/ UNCHANGED <<main, code, exitBy>>)
    BY <1>1, <1>8 DEF Perform, Register
  <2>2. c \in 0..3 /\ c # 0 /\ (job.mode = "launcher" => c = 2)
    OBVIOUS
  <2> HIDE DEF c
  <2>3. CASE ExitWith(c, 0)
    BY <1>2, <1>3, <2>1, <2>2, <2>3, Exits DEF oneShot
  <2>4. CASE UNCHANGED <<main, code, exitBy>>
    BY <1>2, <1>3, <2>1, <2>4, Idles DEF oneShot
  <2> QED BY <2>1, <2>3, <2>4
<1> QED BY <1>4, <1>5, <1>6, <1>7, <1>8

-----------------------------------------------------------------------------
(* The launcher, and the end of a module. *)

LEMMA LauncherInv ==
  ASSUME IInv, Imported \/ Misconfigured \/ Defer \/ RunSelected \/ Drain
  PROVE  IInv'
<1>1. main # "exited" => Alive /\ code \in {0, 3} /\ exitBy = 0
  BY DEF IInv, Undecided, Alive
<1>2. CASE Imported
  <2>1. /\ main = "evaluating" /\ main' \in {"imported", "waiting"}
        /\ job.mode = "launcher" => main' = "imported"
        /\ UNCHANGED <<job, oneShot, code, exitBy>>
    BY <1>2 DEF Imported
  <2> QED BY <1>1, <2>1, Idles DEF oneShot
<1>3. CASE Misconfigured
  <2>1. main = "misconfigured" /\ ExitWith(2, 0) /\ UNCHANGED <<job, oneShot>>
    BY <1>3 DEF Misconfigured
  <2> QED BY <1>1, <2>1, Exits DEF oneShot
<1>4. CASE Defer
  <2>1. /\ main = "imported" /\ started /\ main' = "waiting"
        /\ UNCHANGED <<job, oneShot, code, exitBy>>
    BY <1>4 DEF Defer
  <2>2. runs # << >>
    BY <2>1 DEF IInv, Flags
  <2> QED BY <1>1, <2>1, <2>2, Idles DEF oneShot
<1>5. CASE RunSelected
  <2>1. /\ main = "imported" /\ ~ started /\ main' = "waiting"
        /\ StartRun(Selected(reg), "launcher")
        /\ UNCHANGED <<job, skipped, installed, row, lost, code, exitBy>>
    BY <1>5 DEF RunSelected
  <2>2. runs = << >>
    BY <2>1 DEF IInv, Marked
  <2> QED BY <2>1, <2>2, Begins
<1>6. CASE Drain
  <2>1. main = "waiting" /\ ExitWith(code, 0) /\ UNCHANGED <<job, oneShot>>
    BY <1>6 DEF Drain
  <2>2. code \in 0..3 /\ code # 1 /\ (job.mode = "launcher" => runs # << >>)
    BY <1>1, <2>1 DEF IInv, Undecided
  <2> QED BY <1>1, <2>1, <2>2, Exits DEF oneShot
<1> QED BY <1>2, <1>3, <1>4, <1>5, <1>6

(* The workflows of a legacy program leave its process as it is. *)
LEMMA LegacyInv ==
  ASSUME IInv,
         \/ \E w \in Ws : \/ \E f \in Fns : StartFunction(w, f)
                          \/ StartSend(w) \/ FinishWorkflow(w)
         \/ Crash
  PROVE  IInv'
<1>1. CASE \E w \in Ws : \/ \E f \in Fns : StartFunction(w, f)
                         \/ StartSend(w) \/ FinishWorkflow(w)
  <2>1. main = "launched" /\ UNCHANGED <<job, main, oneShot, code, exitBy>>
    BY <1>1 DEF StartFunction, StartSend, FinishWorkflow, Begin
  <2>2. Alive /\ job.mode = "legacy" /\ code \in {0, 3}
    BY <2>1 DEF IInv, Undecided, Alive
  <2> QED BY <2>1, <2>2, Idles DEF oneShot
<1>2. CASE Crash
  <2>1. /\ main = "launched" /\ main' = "evaluating" /\ job.mode = "legacy"
        /\ UNCHANGED <<job, oneShot, code, exitBy>>
    BY <1>2 DEF Crash
  <2>2. Alive /\ code \in {0, 3}
    BY <2>1 DEF IInv, Undecided, Alive
  <2> QED BY <2>1, <2>2, Idles DEF oneShot
<1> QED BY <1>1, <1>2

LEMMA StutterInv == IInv /\ UNCHANGED vars => IInv'
BY DEF IInv, vars, oneShot, RunsAre, BeforeRuns, LauncherIsOver, OnlyRun, Marked,
       Flags, Undecided, LauncherRunsAlone, ExitTells, RowAt, Range

LEMMA NextInv == IInv /\ [Next]_vars => IInv'
<1> SUFFICES ASSUME IInv, [Next]_vars PROVE IInv'
  OBVIOUS
<1>1. CASE UNCHANGED vars
  BY <1>1, StutterInv
<1>2. CASE \E i \in DOMAIN runs : Execute(i)
  BY <1>2, FetchInputInv, CreateRowInv, RunBodyInv, ReportInv, RunEndsInv
     DEF Execute
<1>3. CASE Statement
  BY <1>3, StatementInv
<1>4. CASE Imported \/ Misconfigured \/ Defer \/ RunSelected \/ Drain
  BY <1>4, LauncherInv
<1>5. CASE \/ \E w \in Ws : \/ \E f \in Fns : StartFunction(w, f)
                            \/ StartSend(w) \/ FinishWorkflow(w)
           \/ Crash
  BY <1>5, LegacyInv
<1> QED BY <1>1, <1>2, <1>3, <1>4, <1>5 DEF Next

-----------------------------------------------------------------------------
(* The inductive invariant holds in every reachable state. *)
THEOREM Invariance == Spec => []IInv
<1>1. Init => IInv
  BY InitIInv
<1>2. IInv /\ [Next]_vars => IInv'
  BY NextInv
<1> QED BY <1>1, <1>2, PTL DEF Spec

(* The launcher adds no run to a module's own, and the run it starts finds *)
(* the vars that a manifest takes out of the environment                   *)
(* (launcher.ts:192-196).                                                  *)
THEOREM LauncherAlone == Spec => []LauncherRunsAlone
<1>1. IInv => LauncherRunsAlone
  BY DEF IInv
<1> QED BY <1>1, Invariance, PTL

(* The exit code, and the row of a single run, tell what became of it; a   *)
(* process that skipped what it was dispatched for fails                   *)
(* (solidactions.ts:318-341, launcher.ts:213-216).                         *)
THEOREM ExitTold == Spec => []ExitTells
<1>1. IInv => ExitTells
  BY DEF IInv
<1> QED BY <1>1, Invariance, PTL

-----------------------------------------------------------------------------
(* The registry. *)
Registries ==
  [ctors : [Ctors -> Names \cup {NoName}],
   named : [ClassNames -> Classes \cup {NoCtor}],
   title : [Classes -> ClassNames],
   ops : [Classes -> [Names -> Fns \cup {NoFn}]],
   fns : [Fns -> [name : Names \cup {NoName}, cls : ClassNames,
                  reg : Classes \cup {NoCtor},
                  type : {"none", "workflow", "step"}]],
   wfs : [Names -> Fns \cup {NoFn}], legacy : SUBSET Names,
   instances : SUBSET (Ctors \X Names),
   launched : BOOLEAN, middleware : BOOLEAN, threw : BOOLEAN]

(* A class that has a name is the one of that name: by the name alone, or  *)
(* the class that was finalized under it.                                  *)
Sound(r) ==
  /\ r \in Registries /\ ~ r.threw
  /\ \A n \in ClassNames :
       /\ r.named[n] \in {NoCtor, n} \cup Ctors
       /\ r.named[n] = n => r.title[n] = n
       /\ r.named[n] \in Ctors =>
            r.ctors[r.named[n]] = n /\ r.title[r.named[n]] = n

(* A registry knows f not at all, not by a name, or by one name in the     *)
(* class f was registered in, which has its last name once it is launched. *)
Unnamed(r, f) ==
  /\ r.fns[f].type = "none"
  /\ \A c \in Classes, n \in Names : r.ops[c][n] # f

Fresh(r, f) == Unnamed(r, f) /\ r.fns[f] = Unregistered

Placed(r, f) ==
  LET m == r.fns[f] IN
  /\ m.reg \in Classes /\ m.name \in Names
  /\ r.ops[m.reg][m.name] = f
  /\ \A c \in Classes, n \in Names : r.ops[c][n] = f => c = m.reg
  /\ m.reg \in ClassNames => m.cls = m.reg /\ r.named[m.reg] = m.reg
  /\ m.reg \in Ctors =>
       /\ r.ctors[m.reg] # NoName
       /\ r.launched => /\ m.cls = r.ctors[m.reg]
                        /\ r.named[r.ctors[m.reg]] = m.reg

Named(r, f) == Placed(r, f) /\ r.fns[f].type # "none"

(* What a registry never takes back. *)
Extends(r, r2) ==
  /\ \A n \in ClassNames : r.named[n] # NoCtor => r2.named[n] = r.named[n]
  /\ \A f \in Fns : r.fns[f].type # "none" =>
       /\ r2.fns[f].name = r.fns[f].name
       /\ r2.fns[f].reg = r.fns[f].reg
       /\ r2.fns[f].type = r.fns[f].type

KeepsBut(r, r2, F) ==
  /\ Sound(r2) /\ Extends(r, r2)
  /\ \A g \in Fns \ F : /\ Fresh(r, g) => Fresh(r2, g)
                        /\ Unnamed(r, g) => Unnamed(r2, g)
                        /\ Named(r, g) => Named(r2, g)

LEMMA KeepsOn ==
  ASSUME NEW a, NEW b, NEW d, NEW F, KeepsBut(a, b, F), KeepsBut(b, d, F)
  PROVE  KeepsBut(a, d, F)
<1>1. Extends(a, d)
  BY DEF KeepsBut, Extends
<1> QED BY <1>1 DEF KeepsBut

LEMMA KeepsLess ==
  ASSUME NEW a, NEW b, NEW F, KeepsBut(a, b, {})
  PROVE  KeepsBut(a, b, F)
BY DEF KeepsBut

(* What registers no function and forgets no class. *)
LEMMA QuietKeeps ==
  ASSUME NEW r, NEW r2, Sound(r), Sound(r2),
         r2.fns = r.fns, r2.ops = r.ops, r2.launched => r.launched,
         \A n \in ClassNames : r.named[n] # NoCtor => r2.named[n] = r.named[n],
         \A c \in Ctors : r.ctors[c] # NoName => r2.ctors[c] # NoName
  PROVE  KeepsBut(r, r2, {})
<1>1. Extends(r, r2)
  BY DEF Extends
<1>2. ASSUME NEW g \in Fns, Named(r, g) PROVE Named(r2, g)
  <2> DEFINE R == r.fns[g].reg
  <2>1. R \in ClassNames => r2.named[R] = R
    BY <1>2, RegistryAssumption DEF Named, Placed
  <2>2. ASSUME R \in Ctors, r2.launched
        PROVE  r2.ctors[R] = r.ctors[R] /\ r2.named[r2.ctors[R]] = R
    <3>1. r.named[r.ctors[R]] = R /\ r.ctors[R] \in ClassNames
      BY <1>2, <2>2 DEF Named, Placed, Sound, Registries, ClassNames
    <3>2. r2.named[r.ctors[R]] = R
      BY <2>2, <3>1, RegistryAssumption
    <3>3. r2.ctors[R] = r.ctors[R]
      BY <2>2, <3>1, <3>2 DEF Sound
    <3> QED BY <3>2, <3>3
  <2> QED BY <1>2, <2>1, <2>2 DEF Named, Placed
<1> QED BY <1>1, <1>2 DEF KeepsBut, Fresh, Unnamed

LEMMA KnownCtorKeeps ==
  ASSUME NEW r, Sound(r), NEW c \in Ctors
  PROVE  /\ KeepsBut(r, KnownCtor(r, c), {})
         /\ KnownCtor(r, c).ctors[c] # NoName
         /\ KnownCtor(r, c).launched = r.launched
         /\ KnownCtor(r, c).fns = r.fns /\ KnownCtor(r, c).ops = r.ops
         /\ KnownCtor(r, c).named = r.named
         /\ KnownCtor(r, c).title = r.title
<1> DEFINE r2 == KnownCtor(r, c)
<1>1. FnName[c] \in Names
  BY RegistryAssumption
<1>2. r2 \in Registries /\ ~ r2.threw
  BY <1>1 DEF KnownCtor, Sound, Registries
<1>3. /\ r2.fns = r.fns /\ r2.ops = r.ops /\ r2.launched = r.launched
      /\ r2.named = r.named /\ r2.title = r.title
      /\ \A d \in Ctors : r.ctors[d] # NoName => r2.ctors[d] = r.ctors[d]
      /\ r2.ctors[c] # NoName
  BY <1>1, RegistryAssumption DEF KnownCtor, Sound, Registries, ClassNames
<1>4. Sound(r2)
  BY <1>2, <1>3, RegistryAssumption DEF Sound
<1> HIDE DEF r2
<1>5. KeepsBut(r, r2, {})
  BY <1>3, <1>4, QuietKeeps
<1> QED BY <1>3, <1>5 DEF r2

LEMMA KnownNameKeeps ==
  ASSUME NEW r, Sound(r), NEW n \in ClassNames
  PROVE  /\ KeepsBut(r, KnownName(r, n), {})
         /\ KnownName(r, n).named[n] # NoCtor
         /\ KnownName(r, n).launched = r.launched
         /\ KnownName(r, n).fns = r.fns /\ KnownName(r, n).ops = r.ops
<1> DEFINE r2 == KnownName(r, n)
<1>1. r2 \in Registries /\ ~ r2.threw
  BY DEF KnownName, Sound, Registries, Classes
<1>2. /\ r2.fns = r.fns /\ r2.ops = r.ops /\ r2.launched = r.launched
      /\ r2.ctors = r.ctors
      /\ \A m \in ClassNames : r.named[m] # NoCtor => r2.named[m] = r.named[m]
      /\ r2.named[n] # NoCtor
  BY RegistryAssumption DEF KnownName, Sound, Registries, Classes
<1>3. Sound(r2)
  BY <1>1, RegistryAssumption DEF Sound, KnownName, Registries, Classes
<1> HIDE DEF r2
<1>4. KeepsBut(r, r2, {})
  BY <1>2, <1>3, QuietKeeps
<1> QED BY <1>2, <1>4 DEF r2

(* A class is found again under the name it was asked for. *)
HasClass(r, R) ==
  /\ R \in Classes
  /\ R \in ClassNames => r.named[R] = R /\ r.title[R] = R
  /\ R \in Ctors => r.ctors[R] # NoName

LEMMA KnownClassKeeps ==
  ASSUME NEW r, Sound(r), NEW c \in Ctors \cup {NoCtor},
         NEW n \in Names \cup {NoName}, ~ KnownClass(r, c, n).threw
  PROVE  LET k == KnownClass(r, c, n) IN
         /\ KeepsBut(r, k, {})
         /\ k.launched = r.launched /\ k.fns = r.fns /\ k.ops = r.ops
         /\ HasClass(k, ClassOf(k, c, n))
         /\ HasClass(r, ClassOf(r, c, n)) => ClassOf(k, c, n) = ClassOf(r, c, n)
<1> DEFINE k == KnownClass(r, c, n)
<1>1. CASE c = NoCtor
  <2> DEFINE m == IF n = NoName THEN Blank ELSE n
  <2>1. m \in ClassNames /\ k = KnownName(r, m)
    BY <1>1 DEF KnownClass, ClassNames
  <2>2. ClassOf(k, c, n) = k.named[m] /\ ClassOf(r, c, n) = r.named[m]
    BY <1>1 DEF ClassOf
  <2> HIDE DEF m, k
  <2>3. /\ KeepsBut(r, k, {}) /\ k.named[m] # NoCtor
        /\ k.launched = r.launched /\ k.fns = r.fns /\ k.ops = r.ops
    BY <2>1, KnownNameKeeps
  <2>4. HasClass(k, k.named[m])
    <3>1. /\ Sound(k) /\ k.named[m] \in {m} \cup Ctors
          /\ k.named[m] = m => k.title[m] = m
          /\ k.named[m] \in Ctors => k.ctors[k.named[m]] = m
      BY <2>1, <2>3 DEF KeepsBut, Sound
    <3> QED BY <2>1, <3>1, RegistryAssumption DEF HasClass, Classes
  <2>5. HasClass(r, r.named[m]) => k.named[m] = r.named[m]
    BY <2>1, <2>3, RegistryAssumption
       DEF HasClass, KeepsBut, Extends, Classes
  <2> QED BY <2>2, <2>3, <2>4, <2>5 DEF k
<1>2. CASE c \in Ctors
  <2>1. c # NoCtor
    BY <1>2, RegistryAssumption
  <2>2. k = KnownCtor(r, c)
    BY <2>1 DEF KnownClass, Throw, KnownCtor, Sound, Registries
  <2>3. ClassOf(k, c, n) = c /\ ClassOf(r, c, n) = c
    BY <2>1 DEF ClassOf
  <2> HIDE DEF k
  <2>4. HasClass(k, c)
    BY <1>2, <2>2, KnownCtorKeeps, RegistryAssumption DEF HasClass, Classes
  <2> QED BY <1>2, <2>2, <2>3, <2>4, KnownCtorKeeps DEF k
<1> QED BY <1>1, <1>2

(* f was registered and is not found by a name yet. *)
Housed(r, f) ==
  LET m == r.fns[f] IN
  /\ m.reg \in Classes
  /\ m.reg \in ClassNames => m.cls = m.reg /\ r.named[m.reg] = m.reg
  /\ m.reg \in Ctors => r.ctors[m.reg] # NoName

LEMMA RegisterMethodKeeps ==
  ASSUME NEW r, Sound(r), ~ r.launched, NEW c \in Ctors \cup {NoCtor},
         NEW n \in Names \cup {NoName}, NEW f \in Fns, r.fns[f].type = "none",
         NEW name \in Names \cup {NoName},
         ~ RegisterMethod(r, c, n, f, name).threw
  PROVE  LET k == RegisterMethod(r, c, n, f, name) IN
         /\ KeepsBut(r, k, {f}) /\ ~ k.launched
         /\ k.ops = r.ops /\ k.fns[f].type = "none" /\ k.fns[f].name = name
         /\ k.fns[f].reg = ClassOf(k, c, n) /\ HasClass(k, ClassOf(k, c, n))
         /\ Housed(k, f)
<1> DEFINE s == KnownClass(r, c, n)
           R == ClassOf(s, c, n)
           m == [name |-> name, cls |-> s.title[R], reg |-> R, type |-> "none"]
           k == RegisterMethod(r, c, n, f, name)
<1>1. ~ s.threw /\ k = [s EXCEPT !.fns[f] = m]
  BY DEF RegisterMethod, Then
<1>2. /\ KeepsBut(r, s, {}) /\ Sound(s)
      /\ s.launched = r.launched /\ s.fns = r.fns /\ s.ops = r.ops
      /\ HasClass(s, R)
  BY <1>1, KnownClassKeeps DEF KeepsBut
<1>3. ClassOf(k, c, n) = R
  BY <1>1, <1>2 DEF ClassOf, Sound, Registries
<1> HIDE DEF s, R, k
<1>4. m \in [name : Names \cup {NoName}, cls : ClassNames,
             reg : Classes \cup {NoCtor}, type : {"none", "workflow", "step"}]
  BY <1>2 DEF HasClass, Sound, Registries
<1>5. /\ k.ctors = s.ctors /\ k.named = s.named /\ k.title = s.title
      /\ k.ops = s.ops /\ k.launched = s.launched /\ k.threw = s.threw
      /\ k.fns = [s.fns EXCEPT ![f] = m]
      /\ k \in Registries
  BY <1>1, <1>2, <1>4 DEF Sound, Registries
<1>6. k.fns[f] = m /\ \A g \in Fns : g # f => k.fns[g] = s.fns[g]
  BY <1>2, <1>5 DEF Sound, Registries
<1>7. Sound(k)
  BY <1>2, <1>5 DEF Sound
<1>8. KeepsBut(s, k, {f})
  <2>1. Extends(s, k)
    BY <1>2, <1>5, <1>6 DEF Extends
  <2>2. ASSUME NEW g \in Fns \ {f}
        PROVE  /\ Unnamed(s, g) => Unnamed(k, g)
               /\ Fresh(s, g) => Fresh(k, g)
               /\ Named(s, g) => Named(k, g)
    <3>1. k.fns[g] = s.fns[g]
      BY <1>6
    <3> QED BY <1>5, <3>1 DEF Fresh, Unnamed, Named, Placed
  <2> QED BY <1>7, <2>1, <2>2 DEF KeepsBut
<1>9. Housed(k, f)
  BY <1>2, <1>5, <1>6 DEF Housed, HasClass
<1>10. HasClass(k, R)
  BY <1>2, <1>5 DEF HasClass
<1>11. KeepsBut(r, k, {f})
  BY <1>2, <1>8, KeepsLess, KeepsOn
<1> HIDE DEF m
<1>12. m.type = "none" /\ m.name = name /\ m.reg = R
  BY DEF m
<1> QED BY <1>2, <1>3, <1>5, <1>6, <1>9, <1>10, <1>11, <1>12 DEF k

LEMMA WrapKeeps ==
  ASSUME NEW r, Sound(r), NEW c \in Ctors \cup {NoCtor},
         NEW n \in Names \cup {NoName}, NEW f \in Fns,
         NEW name \in Names \cup {NoName}, ~ Wrap(r, c, n, f, name).threw
  PROVE  LET k == Wrap(r, c, n, f, name) IN
         /\ KeepsBut(r, k, {f}) /\ ~ k.launched /\ k.ops = r.ops
         /\ r.fns[f].type # "none" => k = r
         /\ r.fns[f].type = "none" => k.fns[f].type = "none"
         /\ Fresh(r, f) =>
              /\ k.fns[f].name = name /\ k.fns[f].reg = ClassOf(k, c, n)
              /\ HasClass(k, ClassOf(k, c, n)) /\ Housed(k, f)
<1>1. ~ r.launched
  BY DEF Wrap, Throw, Sound, Registries
<1>2. CASE r.fns[f] # Unregistered
  <2>1. Wrap(r, c, n, f, name) = r
    BY <1>1, <1>2 DEF Wrap
  <2>2. KeepsBut(r, r, {f})
    BY DEF KeepsBut, Extends
  <2> QED BY <1>1, <1>2, <2>1, <2>2 DEF Fresh
<1>3. CASE r.fns[f] = Unregistered
  <2>1. Wrap(r, c, n, f, name) = RegisterMethod(r, c, n, f, name)
    BY <1>1, <1>3 DEF Wrap
  <2>2. r.fns[f].type = "none"
    BY <1>3 DEF Unregistered
  <2> DEFINE k == RegisterMethod(r, c, n, f, name)
  <2>3. /\ KeepsBut(r, k, {f}) /\ ~ k.launched
        /\ k.ops = r.ops /\ k.fns[f].type = "none" /\ k.fns[f].name = name
        /\ k.fns[f].reg = ClassOf(k, c, n) /\ HasClass(k, ClassOf(k, c, n))
        /\ Housed(k, f)
    BY SMTT(30), <1>1, <2>1, <2>2, RegisterMethodKeeps
  <2> HIDE DEF k
  <2> QED BY <2>1, <2>2, <2>3 DEF k
<1> QED BY <1>2, <1>3

LEMMA RegisterByNameKeeps ==
  ASSUME NEW r, Sound(r), ~ r.launched, NEW R \in Classes, NEW name \in Names,
         NEW f \in Fns, ~ RegisterByName(r, R, name, f).threw
  PROVE  LET k == RegisterByName(r, R, name, f) IN
         /\ KeepsBut(r, k, {f}) /\ ~ k.launched /\ k.fns = r.fns
         /\ \A d \in Classes, m \in Names :
              r.ops[d][m] # f => (k.ops[d][m] = f <=> d = R /\ m = name)
         /\ k.ops[R][name] = f
         /\ Housed(r, f) => Housed(k, f)
<1> DEFINE k == RegisterByName(r, R, name, f)
<1>1. /\ r.ops[R][name] \in {NoFn, f}
      /\ k = [r EXCEPT !.ops[R][name] = f]
  BY DEF RegisterByName, Throw, Sound, Registries
<1>2. /\ k.ctors = r.ctors /\ k.named = r.named /\ k.title = r.title
      /\ k.fns = r.fns /\ k.launched = r.launched /\ k.threw = r.threw
      /\ k.ops = [r.ops EXCEPT ![R][name] = f]
      /\ k \in Registries
  <2> DEFINE cell == [r.ops[R] EXCEPT ![name] = f]
             ops2 == [r.ops EXCEPT ![R] = cell]
  <2>1. k = [r EXCEPT !.ops = ops2]
    BY <1>1
  <2>2. cell \in [Names -> Fns \cup {NoFn}]
    BY DEF Sound, Registries
  <2> HIDE DEF cell
  <2>3. ops2 \in [Classes -> [Names -> Fns \cup {NoFn}]]
    BY <2>2 DEF Sound, Registries
  <2> HIDE DEF ops2, k
  <2>4. /\ k.ctors = r.ctors /\ k.named = r.named /\ k.title = r.title
        /\ k.fns = r.fns /\ k.launched = r.launched /\ k.threw = r.threw
        /\ k.ops = ops2 /\ k \in Registries
    BY <2>1, <2>3 DEF Sound, Registries
  <2> QED BY <2>4 DEF cell, ops2
<1>3. \A d \in Classes, m \in Names :
        k.ops[d][m] = IF d = R /\ m = name THEN f ELSE r.ops[d][m]
  BY <1>2 DEF Sound, Registries
<1> HIDE DEF k
<1>4. Sound(k)
  BY <1>2 DEF Sound
<1>5. Extends(r, k)
  BY <1>2 DEF Extends
<1>6. ASSUME NEW g \in Fns \ {f}
      PROVE  /\ Fresh(r, g) => Fresh(k, g)
             /\ Unnamed(r, g) => Unnamed(k, g)
             /\ Named(r, g) => Named(k, g)
  <2>1. Unnamed(r, g) => Unnamed(k, g)
    BY <1>2, <1>3 DEF Unnamed
  <2>2. ASSUME Named(r, g) PROVE Named(k, g)
    <3>1. \A d \in Classes, m \in Names : k.ops[d][m] = g <=> r.ops[d][m] = g
      BY <1>1, <1>3, RegistryAssumption
    <3> QED BY <1>2, <2>2, <3>1 DEF Named, Placed
  <2> QED BY <1>2, <2>1, <2>2 DEF Fresh
<1>7. KeepsBut(r, k, {f})
  BY <1>4, <1>5, <1>6 DEF KeepsBut
<1>8. Housed(r, f) => Housed(k, f)
  BY <1>2 DEF Housed
<1> QED BY <1>2, <1>3, <1>7, <1>8 DEF k

LEMMA WrapByNameKeeps ==
  ASSUME NEW r, Sound(r), NEW c \in Ctors \cup {NoCtor},
         NEW n \in Names \cup {NoName}, NEW f \in Fns, NEW name \in Names,
         ~ WrapByName(r, c, n, f, name).threw
  PROVE  LET k == WrapByName(r, c, n, f, name) IN
         /\ KeepsBut(r, k, {f}) /\ ~ k.launched
         /\ k.fns[f].type = r.fns[f].type
         /\ Fresh(r, f) => Placed(k, f)
<1> DEFINE w == Wrap(r, c, n, f, name)
           s == KnownClass(w, c, n)
           R == ClassOf(s, c, n)
           k == RegisterByName(s, R, name, f)
<1>1. ~ w.threw /\ ~ s.threw /\ WrapByName(r, c, n, f, name) = k
  BY DEF WrapByName, Then
<1>2. /\ KeepsBut(r, w, {f}) /\ Sound(w) /\ ~ w.launched /\ w.ops = r.ops
      /\ r.fns[f].type # "none" => w = r
      /\ r.fns[f].type = "none" => w.fns[f].type = "none"
      /\ Fresh(r, f) =>
           /\ w.fns[f].name = name /\ w.fns[f].reg = ClassOf(w, c, n)
           /\ HasClass(w, ClassOf(w, c, n)) /\ Housed(w, f)
  BY <1>1, WrapKeeps DEF KeepsBut
<1> HIDE DEF w
<1>3. /\ KeepsBut(w, s, {}) /\ Sound(s)
      /\ s.launched = w.launched /\ s.fns = w.fns /\ s.ops = w.ops
      /\ HasClass(s, R)
      /\ HasClass(w, ClassOf(w, c, n)) => R = ClassOf(w, c, n)
  BY <1>1, <1>2, KnownClassKeeps DEF KeepsBut
<1>4. Fresh(r, f) => Housed(s, f)
  <2> SUFFICES ASSUME Fresh(r, f) PROVE Housed(s, f)
    OBVIOUS
  <2> DEFINE m == w.fns[f]
  <2>1. m.reg = R /\ s.fns[f] = m /\ Housed(w, f) /\ HasClass(s, R)
    BY <1>2, <1>3
  <2>2. R \in ClassNames => m.cls = R
    BY <2>1 DEF Housed
  <2> HIDE DEF m, R, s
  <2> QED BY <2>1, <2>2 DEF Housed, HasClass
<1> HIDE DEF s, R
<1>5. R \in Classes /\ ~ s.launched /\ ~ k.threw
  BY <1>1, <1>2, <1>3 DEF HasClass
<1>6. /\ KeepsBut(s, k, {f}) /\ ~ k.launched /\ k.fns = s.fns
      /\ \A d \in Classes, m \in Names :
           s.ops[d][m] # f => (k.ops[d][m] = f <=> d = R /\ m = name)
      /\ k.ops[R][name] = f
      /\ Housed(s, f) => Housed(k, f)
  BY <1>3, <1>5, RegisterByNameKeeps
<1> HIDE DEF k
<1>7. KeepsBut(r, k, {f})
  BY <1>2, <1>3, <1>6, KeepsLess, KeepsOn
<1>8. ASSUME Fresh(r, f) PROVE Placed(k, f)
  <2>1. k.fns[f].reg = R /\ k.fns[f].name = name /\ Housed(k, f)
    BY <1>2, <1>3, <1>4, <1>6, <1>8
  <2>2. \A d \in Classes, m \in Names : s.ops[d][m] # f
    BY <1>2, <1>3, <1>8 DEF Fresh, Unnamed
  <2> QED BY <1>5, <1>6, <2>1, <2>2 DEF Placed, Housed
<1> QED BY <1>1, <1>2, <1>3, <1>6, <1>7, <1>8

LEMMA SetTypeKeeps ==
  ASSUME NEW r, Sound(r), ~ r.launched, NEW f \in Fns,
         NEW type \in {"workflow", "step"}, ~ SetType(r, f, type).threw
  PROVE  LET k == SetType(r, f, type) IN
         /\ KeepsBut(r, k, {f})
         /\ Placed(r, f) => Named(k, f)
<1> DEFINE k == SetType(r, f, type)
           m == [r.fns[f] EXCEPT !.type = type]
           fns2 == [r.fns EXCEPT ![f] = m]
<1>1. r.fns[f].type = "none" /\ k = [r EXCEPT !.fns = fns2]
  BY DEF SetType, Throw, Sound, Registries
<1>2. /\ m \in [name : Names \cup {NoName}, cls : ClassNames,
                reg : Classes \cup {NoCtor},
                type : {"none", "workflow", "step"}]
      /\ m.name = r.fns[f].name /\ m.reg = r.fns[f].reg
      /\ m.cls = r.fns[f].cls /\ m.type = type
  <2>1. r.fns[f] \in [name : Names \cup {NoName}, cls : ClassNames,
                      reg : Classes \cup {NoCtor},
                      type : {"none", "workflow", "step"}]
    BY DEF Sound, Registries
  <2> QED BY <2>1
<1> HIDE DEF m
<1>3. /\ fns2 \in [Fns -> [name : Names \cup {NoName}, cls : ClassNames,
                           reg : Classes \cup {NoCtor},
                           type : {"none", "workflow", "step"}]]
      /\ fns2[f] = m /\ \A g \in Fns : g # f => fns2[g] = r.fns[g]
  BY <1>2 DEF Sound, Registries
<1> HIDE DEF fns2, k
<1>4. /\ k.ctors = r.ctors /\ k.named = r.named /\ k.title = r.title
      /\ k.ops = r.ops /\ k.launched = r.launched /\ k.threw = r.threw
      /\ k.fns = fns2 /\ k \in Registries
  BY <1>1, <1>3 DEF Sound, Registries
<1>5. Sound(k)
  BY <1>4 DEF Sound
<1>6. Extends(r, k)
  BY <1>1, <1>3, <1>4 DEF Extends
<1>7. ASSUME NEW g \in Fns \ {f}
      PROVE  /\ Unnamed(r, g) => Unnamed(k, g)
             /\ Fresh(r, g) => Fresh(k, g)
             /\ Named(r, g) => Named(k, g)
  <2>1. k.fns[g] = r.fns[g]
    BY <1>3, <1>4
  <2> QED BY <1>4, <2>1 DEF Fresh, Unnamed, Named, Placed
<1>8. Placed(r, f) => Named(k, f)
  BY <1>2, <1>3, <1>4 DEF Named, Placed
<1> QED BY <1>5, <1>6, <1>7, <1>8 DEF KeepsBut, k

(* A statement that registers f registers nothing else. *)
Registers(s, f) == s.op \in Registering /\ s.fn = f

LEMMA RegisteringKeeps ==
  ASSUME NEW r, Sound(r), NEW s, IsStatement(s), s.op \in Registering,
         ~ Evaluated(r, s).threw
  PROVE  LET k == Evaluated(r, s) IN
         /\ KeepsBut(r, k, {s.fn})
         /\ Fresh(r, s.fn) => IF s.op = "registerStep" THEN Unnamed(k, s.fn)
                              ELSE Named(k, s.fn)
<1> DEFINE f == s.fn
           name == NameOf(f, s.name)
           k == Evaluated(r, s)
<1>1. /\ f \in Fns /\ s.name \in Names \cup {NoName}
      /\ s.cls \in Names \cup {NoName} /\ s.ctor \in Ctors \cup {NoCtor}
      /\ s.op \in {"workflow", "step"} => name # NoName
  BY DEF IsStatement
<1>2. name \in Names \cup {NoName}
  BY <1>1, RegistryAssumption DEF NameOf
<1>3. CASE s.op = "registerStep"
  <2> DEFINE w == Wrap(r, s.ctor, s.cls, f, name)
  <2>1. k = w /\ ~ w.threw
    BY <1>3 DEF Evaluated, RegisterStep
  <2> HIDE DEF f, name, k
  <2>2. /\ s.ctor \in Ctors \cup {NoCtor} /\ s.cls \in Names \cup {NoName}
        /\ name \in Names \cup {NoName} /\ f \in Fns
    BY <1>1, <1>2
  <2>3. ~ Wrap(r, s.ctor, s.cls, f, name).threw
    BY <2>1
  <2>4. /\ KeepsBut(r, w, {f}) /\ w.ops = r.ops
        /\ r.fns[f].type # "none" => w = r
        /\ r.fns[f].type = "none" => w.fns[f].type = "none"
    BY <2>2, <2>3, WrapKeeps
  <2> HIDE DEF w
  <2>5. Unnamed(r, f) => Unnamed(k, f)
    BY <2>1, <2>4 DEF Unnamed
  <2> QED BY <1>3, <2>1, <2>4, <2>5 DEF Fresh, f, k
<1>4. CASE s.op \in {"workflow", "step"}
  <2> DEFINE w == WrapByName(r, s.ctor, NoName, f, name)
  <2>1. ~ w.threw /\ k = SetType(w, f, s.op)
    BY <1>4 DEF Evaluated, Decorate, Then
  <2> HIDE DEF w, f, name
  <2>2. /\ KeepsBut(r, w, {f}) /\ Sound(w) /\ ~ w.launched
        /\ Fresh(r, f) => Placed(w, f)
    BY <1>1, <1>2, <1>4, <2>1, WrapByNameKeeps DEF KeepsBut, w
  <2>3. KeepsBut(w, k, {f}) /\ (Placed(w, f) => Named(k, f))
    BY <1>1, <1>4, <2>1, <2>2, SetTypeKeeps DEF k
  <2> QED BY <1>4, <2>2, <2>3, KeepsOn DEF f
<1>5. CASE s.op = "registerWorkflow"
  <2> DEFINE w == WrapByName(r, s.ctor, s.cls, f, name)
             d == RegisterDescriptor(w, name, f, TRUE)
  <2>1. /\ name # NoName /\ ~ w.threw /\ ~ d.threw
        /\ k = SetType(d, f, "workflow")
    BY <1>5 DEF Evaluated, RegisterWorkflow, Then, Throw, Sound, Registries
  <2> HIDE DEF w, f, name
  <2>2. /\ KeepsBut(r, w, {f}) /\ Sound(w) /\ ~ w.launched
        /\ Fresh(r, f) => Placed(w, f)
    BY <1>1, <1>2, <2>1, WrapByNameKeeps DEF KeepsBut, w
  <2>3. /\ d.ctors = w.ctors /\ d.named = w.named /\ d.title = w.title
        /\ d.ops = w.ops /\ d.fns = w.fns /\ d.launched = w.launched
        /\ d \in Registries
    BY ZenonT(30), <1>1, <1>2, <2>1, <2>2 DEF RegisterDescriptor, Throw, Sound, Registries
  <2> HIDE DEF d
  <2>4. Sound(d)
    BY <2>1, <2>2, <2>3 DEF Sound
  <2>5. KeepsBut(w, d, {})
    BY <2>2, <2>3, <2>4, QuietKeeps
  <2>6. Placed(w, f) => Placed(d, f)
    BY <2>3 DEF Placed
  <2>7. KeepsBut(d, k, {f}) /\ (Placed(d, f) => Named(k, f))
    BY <1>1, <2>1, <2>2, <2>3, <2>4, SetTypeKeeps DEF k
  <2> QED BY <1>5, <2>2, <2>5, <2>6, <2>7, KeepsLess, KeepsOn DEF f
<1> QED BY <1>3, <1>4, <1>5 DEF Registering

-----------------------------------------------------------------------------
(* What a process makes of its registry, which a class name is given to    *)
(* only before the launch that knows the class.                            *)
After(r, s) ==
  CASE s.op = "launch" -> Launch(r)
    [] s.op = "shutdown" -> Shutdown(r)
    [] OTHER -> Evaluated(r, s)

MayName(r, s) == s.op = "className" => r.named[FnName[s.ctor]] # s.ctor

LEMMA OtherKeeps ==
  ASSUME NEW r, Sound(r), NEW s, IsStatement(s), s.op \notin Registering,
         MayName(r, s), ~ Evaluated(r, s).threw
  PROVE  KeepsBut(r, Evaluated(r, s), {})
<1> DEFINE k == Evaluated(r, s)
<1>1. CASE s.op = "className"
  <2> DEFINE c == s.ctor
             n == s.cls
             d == KnownCtor(r, c)
  <2>1. /\ c \in Ctors /\ n \in Names /\ r.named[FnName[c]] # c
        /\ FnName[c] \in Names
    BY <1>1, RegistryAssumption DEF IsStatement, MayName
  <2>2. /\ d.ctors[c] \in {n, FnName[c]} /\ k = [d EXCEPT !.ctors[c] = n]
    BY <1>1 DEF Evaluated, ClassName, Throw, Registering, KnownCtor, Sound,
               Registries
  <2> HIDE DEF c, n, d, k
  <2>3. /\ KeepsBut(r, d, {}) /\ Sound(d) /\ d.named = r.named
    BY <2>1, KnownCtorKeeps DEF d, KeepsBut
  <2>4. /\ k.ctors = [d.ctors EXCEPT ![c] = n] /\ k.named = d.named
        /\ k.title = d.title /\ k.ops = d.ops /\ k.fns = d.fns
        /\ k.launched = d.launched /\ k.threw = d.threw /\ k \in Registries
    BY <2>1, <2>2, <2>3 DEF Sound, Registries
  <2>5. ASSUME NEW m \in ClassNames, k.named[m] \in Ctors
        PROVE  k.ctors[k.named[m]] = m
    <3>1. d.ctors[d.named[m]] = m /\ d.ctors \in [Ctors -> Names \cup {NoName}]
      BY <2>3, <2>4, <2>5 DEF Sound, Registries
    <3>2. CASE d.named[m] = c
      BY <2>1, <2>2, <2>3, <2>4, <3>1, <3>2
    <3>3. CASE d.named[m] # c
      BY <2>4, <2>5, <3>1, <3>3
    <3> QED BY <3>2, <3>3
  <2>6. Sound(k)
    BY <2>3, <2>4, <2>5 DEF Sound
  <2>7. \A e \in Ctors : d.ctors[e] # NoName => k.ctors[e] # NoName
    BY <2>1, <2>3, <2>4, RegistryAssumption DEF Sound, Registries, ClassNames
  <2>8. KeepsBut(d, k, {})
    BY <2>3, <2>4, <2>6, <2>7, QuietKeeps
  <2> QED BY <2>3, <2>8, KeepsOn DEF k
<1>2. CASE s.op = "instance"
  <2> DEFINE c == s.ctor
             d == KnownCtor(r, c)
  <2>1. c \in Ctors /\ s.name \in Names
    BY <1>2 DEF IsStatement
  <2> DEFINE more == d.instances \cup {<<c, s.name>>}
  <2>2. k = [d EXCEPT !.instances = more]
    BY <1>2 DEF Evaluated, RegisterInstance, Throw, Registering, KnownCtor,
               Sound, Registries
  <2> HIDE DEF c, d, k
  <2>3. /\ KeepsBut(r, d, {}) /\ Sound(d)
    BY <2>1, KnownCtorKeeps DEF d, KeepsBut
  <2>4. more \in SUBSET (Ctors \X Names)
    BY <2>1, <2>3 DEF Sound, Registries
  <2> HIDE DEF more
  <2>5. /\ k.ctors = d.ctors /\ k.named = d.named
        /\ k.title = d.title /\ k.ops = d.ops /\ k.fns = d.fns
        /\ k.launched = d.launched /\ k.threw = d.threw /\ k \in Registries
    BY <2>2, <2>3, <2>4 DEF Sound, Registries
  <2>6. Sound(k)
    BY <2>3, <2>5 DEF Sound
  <2>7. KeepsBut(d, k, {})
    BY <2>3, <2>5, <2>6, QuietKeeps
  <2> QED BY <2>3, <2>7, KeepsOn DEF k
<1>3. CASE s.op = "defineWorkflow"
  <2> DEFINE name == NameOf(s.fn, s.name)
  <2>1. name # NoName /\ k = RegisterDescriptor(r, name, s.fn, FALSE)
    BY <1>3 DEF Evaluated, DefineWorkflow, Throw, Registering, Sound, Registries
  <2>2. s.fn \in Fns /\ name \in Names
    BY <1>3, <2>1, RegistryAssumption DEF IsStatement, NameOf
  <2> HIDE DEF name
  <2> DEFINE wfs2 == [r.wfs EXCEPT ![name] = s.fn]
  <2>3. k = [r EXCEPT !.wfs = wfs2, !.legacy = r.legacy]
    BY <2>1 DEF RegisterDescriptor, Throw
  <2>4. wfs2 \in [Names -> Fns \cup {NoFn}]
    BY <2>2 DEF Sound, Registries
  <2> HIDE DEF wfs2, k
  <2>5. /\ k.ctors = r.ctors /\ k.named = r.named
        /\ k.title = r.title /\ k.ops = r.ops /\ k.fns = r.fns
        /\ k.launched = r.launched /\ k.threw = r.threw /\ k \in Registries
    BY <2>3, <2>4 DEF Sound, Registries
  <2>6. Sound(k)
    BY <2>5 DEF Sound
  <2> HIDE DEF k
  <2>7. KeepsBut(r, k, {})
    BY <2>5, <2>6, QuietKeeps
  <2> QED BY <2>7 DEF k
<1>4. CASE s.op \notin {"className", "instance", "defineWorkflow"}
  <2>1. k = r
    BY <1>4 DEF Evaluated, InstallMiddleware, Throw, Registering, Sound,
               Registries
  <2> HIDE DEF k
  <2>2. KeepsBut(r, k, {})
    BY <2>1 DEF KeepsBut, Extends
  <2> QED BY <2>2 DEF k
<1> QED BY <1>1, <1>2, <1>3, <1>4

LEMMA ShutdownKeeps ==
  ASSUME NEW r, Sound(r)
  PROVE  KeepsBut(r, Shutdown(r), {})
<1> DEFINE k == Shutdown(r)
<1>1. /\ k.ctors = r.ctors /\ k.named = r.named
      /\ k.title = r.title /\ k.ops = r.ops /\ k.fns = r.fns
      /\ ~ k.launched /\ k.threw = r.threw /\ k \in Registries
  BY DEF Shutdown, Sound, Registries
<1> HIDE DEF k
<1>2. Sound(k)
  BY <1>1 DEF Sound
<1>3. KeepsBut(r, k, {})
  BY <1>1, <1>2, QuietKeeps
<1> QED BY <1>3 DEF k

(* A launch gives each class its name, and its methods theirs. *)
LEMMA LaunchKeeps ==
  ASSUME NEW r, Sound(r), ~ Launch(r).threw
  PROVE  KeepsBut(r, Launch(r), {}) /\ Launch(r).launched
<1> DEFINE known == {c \in Ctors : r.ctors[c] # NoName}
           Owner(n) == CHOOSE c \in known : r.ctors[c] = n
           taken == {n \in ClassNames : \E c \in known : r.ctors[c] = n}
           clash == \/ \E c, d \in known : c # d /\ r.ctors[c] = r.ctors[d]
                    \/ \E c \in known : r.named[r.ctors[c]] \notin {NoCtor, c}
           Entitled(f) == {c \in known : \E n \in Names : r.ops[c][n] = f}
           named2 == [n \in ClassNames |-> IF n \in taken THEN Owner(n)
                                           ELSE r.named[n]]
           title2 == [c \in Classes |-> IF c \in known THEN r.ctors[c]
                                        ELSE r.title[c]]
           fn2(f) == IF Entitled(f) = {} THEN r.fns[f]
                     ELSE [r.fns[f] EXCEPT !.cls =
                             r.ctors[CHOOSE c \in Entitled(f) : TRUE]]
           fns2 == [f \in Fns |-> fn2(f)]
           fin == [r EXCEPT !.named = named2, !.title = title2, !.fns = fns2]
           k == Launch(r)
<1>1. FinalizeClasses(r) = IF clash THEN Throw(r) ELSE fin
  BY DEF FinalizeClasses
<1>2. ~ clash /\ k = [fin EXCEPT !.middleware = TRUE, !.launched = TRUE]
  BY <1>1 DEF Launch, Then, Throw, Sound, Registries
<1>3. /\ \A c \in known : r.ctors[c] \in ClassNames /\ r.ctors[c] \in Names
      /\ known \subseteq Ctors
      /\ \A n \in taken : Owner(n) \in known /\ r.ctors[Owner(n)] = n
      /\ \A c \in known : r.ctors[c] \in taken /\ Owner(r.ctors[c]) = c
  <2>1. \A c \in known : r.ctors[c] \in Names
    BY DEF Sound, Registries
  <2>2. \A c \in known : r.ctors[c] \in taken
    BY <2>1 DEF ClassNames
  <2>3. \A n \in taken : Owner(n) \in known /\ r.ctors[Owner(n)] = n
    OBVIOUS
  <2> QED BY <1>2, <2>1, <2>2, <2>3 DEF ClassNames
<1> HIDE DEF Owner, taken
<1>4. named2 \in [ClassNames -> Classes \cup {NoCtor}]
  BY <1>3 DEF Sound, Registries, Classes
<1>5. title2 \in [Classes -> ClassNames]
  BY <1>3 DEF Sound, Registries
<1>6. ASSUME NEW f \in Fns
      PROVE  /\ fn2(f) \in [name : Names \cup {NoName}, cls : ClassNames,
                            reg : Classes \cup {NoCtor},
                            type : {"none", "workflow", "step"}]
             /\ fn2(f).name = r.fns[f].name /\ fn2(f).reg = r.fns[f].reg
             /\ fn2(f).type = r.fns[f].type
             /\ Entitled(f) = {} => fn2(f) = r.fns[f]
             /\ Entitled(f) # {} => fn2(f).cls =
                                      r.ctors[CHOOSE c \in Entitled(f) : TRUE]
  <2>1. r.fns[f] \in [name : Names \cup {NoName}, cls : ClassNames,
                      reg : Classes \cup {NoCtor},
                      type : {"none", "workflow", "step"}]
    BY DEF Sound, Registries
  <2>2. CASE Entitled(f) = {}
    BY <2>1, <2>2
  <2>3. CASE Entitled(f) # {}
    <3> DEFINE d == CHOOSE c \in Entitled(f) : TRUE
    <3>1. d \in known
      BY <2>3
    <3> HIDE DEF d, Entitled
    <3>2. r.ctors[d] \in ClassNames
      BY <1>3, <3>1
    <3>3. fn2(f) = [r.fns[f] EXCEPT !.cls = r.ctors[d]]
      BY <2>3 DEF d
    <3>4. r.ctors[d] = r.ctors[CHOOSE c \in Entitled(f) : TRUE]
      BY DEF d
    <3> DEFINE m == r.fns[f]
               v == r.ctors[d]
    <3>5. fn2(f) = [m EXCEPT !.cls = v] /\ v \in ClassNames
      BY <3>2, <3>3
    <3> HIDE DEF fn2, v
    <3>6. /\ fn2(f).cls = v /\ fn2(f).name = m.name /\ fn2(f).reg = m.reg
          /\ fn2(f).type = m.type
          /\ fn2(f) \in [name : Names \cup {NoName}, cls : ClassNames,
                         reg : Classes \cup {NoCtor},
                         type : {"none", "workflow", "step"}]
      <4> HIDE DEF m
      <4> QED BY <2>1, <3>5 DEF m
    <3> QED BY <2>3, <3>4, <3>6 DEF v
  <2> QED BY <2>2, <2>3
<1> HIDE DEF fn2
<1>7. fns2 \in [Fns -> [name : Names \cup {NoName}, cls : ClassNames,
                       reg : Classes \cup {NoCtor},
                       type : {"none", "workflow", "step"}]]
  BY <1>6
<1>8. /\ \A n \in ClassNames : named2[n] = IF n \in taken THEN Owner(n)
                                          ELSE r.named[n]
      /\ \A c \in Classes : title2[c] = IF c \in known THEN r.ctors[c]
                                       ELSE r.title[c]
      /\ \A f \in Fns : fns2[f] = fn2(f)
  OBVIOUS
<1> HIDE DEF named2, title2, fns2, known, fin
<1>9. /\ fin.ctors = r.ctors /\ fin.named = named2 /\ fin.title = title2
       /\ fin.ops = r.ops /\ fin.fns = fns2 /\ fin.threw = r.threw
       /\ fin \in Registries
  BY <1>4, <1>5, <1>7 DEF Sound, Registries, fin
<1>10. /\ k.ctors = r.ctors /\ k.named = named2 /\ k.title = title2
      /\ k.ops = r.ops /\ k.fns = fns2 /\ k.launched /\ k.threw = r.threw
      /\ k \in Registries
  BY <1>2, <1>9 DEF Registries
<1> HIDE DEF k
<1>11. ASSUME NEW n \in ClassNames, r.named[n] \in Ctors
       PROVE  r.named[n] \in known /\ r.ctors[r.named[n]] = n
  BY <1>11, RegistryAssumption DEF Sound, known
<1>12. ASSUME NEW n \in taken
       PROVE  r.named[n] \in {NoCtor, Owner(n)}
  BY <1>2, <1>3
<1>13. Sound(k)
  <2>1. ASSUME NEW n \in ClassNames
        PROVE  /\ k.named[n] \in {NoCtor, n} \cup Ctors
               /\ k.named[n] = n => k.title[n] = n
               /\ k.named[n] \in Ctors =>
                    k.ctors[k.named[n]] = n /\ k.title[k.named[n]] = n
    <3>1. CASE n \in taken
      <4>1. k.named[n] = Owner(n) /\ Owner(n) \in known /\ r.ctors[Owner(n)] = n
        BY <1>3, <1>8, <1>10, <3>1
      <4>2. Owner(n) \in Ctors /\ Owner(n) \in Classes /\ Owner(n) # n
        BY <1>3, <4>1, RegistryAssumption DEF Classes
      <4> QED BY <1>8, <1>10, <4>1, <4>2
    <3>2. CASE n \notin taken
      <4>1. k.named[n] = r.named[n] /\ r.named[n] \notin Ctors
        BY <1>3, <1>8, <1>10, <1>11, <3>2
      <4>2. n \notin known /\ n \in Classes
        BY <1>3, RegistryAssumption DEF Classes
      <4> QED BY <1>8, <1>10, <4>1, <4>2 DEF Sound
    <3> QED BY <3>1, <3>2
  <2> QED BY <1>10, <2>1 DEF Sound
<1>14. \A n \in ClassNames : r.named[n] # NoCtor => k.named[n] = r.named[n]
  BY <1>8, <1>10, <1>12
<1>15. Extends(r, k)
  BY <1>6, <1>8, <1>10, <1>14 DEF Extends
<1>16. ASSUME NEW g \in Fns, Unnamed(r, g)
       PROVE  Unnamed(k, g) /\ k.fns[g] = r.fns[g]
  <2>1. Entitled(g) = {}
    BY <1>3, <1>16 DEF Unnamed, Classes
  <2> QED BY <1>6, <1>8, <1>10, <1>16, <2>1 DEF Unnamed
<1>17. ASSUME NEW g \in Fns, Named(r, g) PROVE Named(k, g)
  <2> DEFINE R == r.fns[g].reg
  <2>1. /\ R \in Classes /\ r.fns[g].name \in Names
        /\ r.ops[R][r.fns[g].name] = g
        /\ \A c \in Classes, n \in Names : r.ops[c][n] = g => c = R
        /\ R \in ClassNames => r.fns[g].cls = R /\ r.named[R] = R
        /\ R \in Ctors => r.ctors[R] # NoName
        /\ r.fns[g].type # "none"
    BY <1>17 DEF Named, Placed
  <2>2. /\ k.fns[g].name = r.fns[g].name /\ k.fns[g].reg = R
        /\ k.fns[g].type = r.fns[g].type
    BY <1>6, <1>8, <1>10
  <2>3. Entitled(g) \subseteq {R}
    BY <1>3, <2>1 DEF Classes
  <2>4. ASSUME R \in ClassNames PROVE k.fns[g].cls = R /\ k.named[R] = R
    <3>1. Entitled(g) = {} /\ r.named[R] # NoCtor
      BY <1>3, <2>1, <2>3, <2>4, RegistryAssumption
    <3> QED BY <1>6, <1>8, <1>10, <1>14, <2>1, <2>4, <3>1
  <2>5. ASSUME R \in Ctors
        PROVE  /\ k.ctors[R] # NoName /\ k.fns[g].cls = k.ctors[R]
               /\ k.named[k.ctors[R]] = R
    <3>1. R \in known
      BY <2>1, <2>5 DEF known
    <3>2. R \in Entitled(g)
      BY <2>1, <3>1
    <3>3. (CHOOSE c \in Entitled(g) : TRUE) = R /\ Entitled(g) # {}
      BY <2>3, <3>2
    <3>4. k.fns[g].cls = r.ctors[R]
      BY <1>6, <1>8, <1>10, <3>3
    <3>5. r.ctors[R] \in taken /\ Owner(r.ctors[R]) = R /\ r.ctors[R] \in ClassNames
      BY <1>3, <3>1
    <3> QED BY <1>8, <1>10, <2>1, <2>5, <3>4, <3>5
  <2> HIDE DEF R
  <2> QED BY <1>10, <2>1, <2>2, <2>4, <2>5 DEF Named, Placed
<1> QED BY <1>10, <1>13, <1>15, <1>16, <1>17 DEF KeepsBut, Fresh, k

-----------------------------------------------------------------------------
(* One statement. *)
LEMMA AfterKeeps ==
  ASSUME NEW r, Sound(r), NEW s, IsStatement(s), MayName(r, s),
         ~ After(r, s).threw
  PROVE  /\ Sound(After(r, s)) /\ Extends(r, After(r, s))
         /\ \A f \in Fns : ~ Registers(s, f) =>
              /\ Fresh(r, f) => Fresh(After(r, s), f)
              /\ Unnamed(r, f) => Unnamed(After(r, s), f)
              /\ Named(r, f) => Named(After(r, s), f)
         /\ \A f \in Fns : Registers(s, f) /\ Fresh(r, f) =>
              IF s.op = "registerStep" THEN Unnamed(After(r, s), f)
              ELSE Named(After(r, s), f)
<1> DEFINE k == After(r, s)
<1>1. CASE s.op \in Registering
  <2>1. k = Evaluated(r, s)
    BY <1>1 DEF After, Registering
  <2>2. /\ KeepsBut(r, k, {s.fn})
        /\ Fresh(r, s.fn) => IF s.op = "registerStep" THEN Unnamed(k, s.fn)
                             ELSE Named(k, s.fn)
    BY <1>1, <2>1, RegisteringKeeps
  <2> HIDE DEF k
  <2> QED BY <1>1, <2>2 DEF KeepsBut, Registers, k
<1>2. CASE s.op \notin Registering
  <2>1. KeepsBut(r, k, {})
    <3>1. CASE s.op = "launch"
      BY <3>1, LaunchKeeps DEF After
    <3>2. CASE s.op = "shutdown"
      BY <3>2, ShutdownKeeps DEF After
    <3>3. CASE s.op \notin {"launch", "shutdown"}
      BY <1>2, <3>3, OtherKeeps DEF After
    <3> QED BY <3>1, <3>2, <3>3
  <2> HIDE DEF k
  <2> QED BY <1>2, <2>1 DEF KeepsBut, Registers, k
<1> QED BY <1>1, <1>2

(* While it is launched a process finds what it found at its launch. *)
LEMMA LaunchedStays ==
  ASSUME NEW r, Sound(r), r.launched, NEW s, IsStatement(s),
         s.op \notin {"launch", "shutdown"}, ~ Evaluated(r, s).threw
  PROVE  LET k == Evaluated(r, s) IN
         /\ k.launched /\ k.fns = r.fns /\ k.ops = r.ops /\ k.named = r.named
<1> DEFINE k == Evaluated(r, s)
           name == NameOf(s.fn, s.name)
<1>1. s.op \notin Registering
  <2> SUFFICES ASSUME s.op \in Registering PROVE FALSE
    OBVIOUS
  <2>1. /\ \A n : Wrap(r, s.ctor, n, s.fn, name) = Throw(r)
        /\ Throw(r).threw
    BY DEF Wrap, Throw, Sound, Registries
  <2>2. \A n : WrapByName(r, s.ctor, n, s.fn, name) = Throw(r)
    BY <2>1 DEF WrapByName, Then
  <2>3. k.threw
    BY <2>1, <2>2 DEF Evaluated, RegisterWorkflow, Decorate, RegisterStep, Then,
                      Registering
  <2> QED BY <2>3
<1>2. CASE s.op = "className"
  <2> DEFINE d == KnownCtor(r, s.ctor)
  <2>1. s.ctor \in Ctors
    BY <1>2 DEF IsStatement
  <2>2. k = [d EXCEPT !.ctors[s.ctor] = s.cls] /\ Sound(d)
    BY <1>2, <2>1, KnownCtorKeeps
       DEF Evaluated, ClassName, Throw, KeepsBut, Sound, Registries
  <2>3. d.launched /\ d.fns = r.fns /\ d.ops = r.ops /\ d.named = r.named
    BY <2>1, KnownCtorKeeps
  <2> HIDE DEF d, k
  <2>4. /\ k.launched = d.launched /\ k.fns = d.fns /\ k.ops = d.ops
        /\ k.named = d.named
    BY <2>2 DEF Sound, Registries
  <2> QED BY <2>3, <2>4 DEF k
<1>3. CASE s.op = "instance"
  <2> DEFINE d == KnownCtor(r, s.ctor)
             more == d.instances \cup {<<s.ctor, s.name>>}
  <2>1. s.ctor \in Ctors
    BY <1>3 DEF IsStatement
  <2>2. Sound(d)
    BY <2>1, KnownCtorKeeps DEF KeepsBut
  <2>3. k = [d EXCEPT !.instances = more]
    BY <1>3, <2>1 DEF Evaluated, RegisterInstance, Throw, KnownCtor, Registering,
                      Sound, Registries
  <2>4. d.launched /\ d.fns = r.fns /\ d.ops = r.ops /\ d.named = r.named
    BY <2>1, KnownCtorKeeps
  <2> HIDE DEF d, more, k
  <2>5. /\ k.launched = d.launched /\ k.fns = d.fns /\ k.ops = d.ops
        /\ k.named = d.named
    BY <2>2, <2>3 DEF Sound, Registries
  <2> QED BY <2>4, <2>5 DEF k
<1>4. CASE s.op = "defineWorkflow"
  <2> DEFINE wfs2 == [r.wfs EXCEPT ![name] = s.fn]
  <2>1. k = [r EXCEPT !.wfs = wfs2, !.legacy = r.legacy]
    BY <1>4 DEF Evaluated, DefineWorkflow, RegisterDescriptor, Throw, Sound,
               Registries
  <2> HIDE DEF wfs2, k
  <2>2. /\ k.launched = r.launched /\ k.fns = r.fns /\ k.ops = r.ops
        /\ k.named = r.named
    BY <2>1 DEF Sound, Registries
  <2> QED BY <2>2 DEF k
<1>5. CASE s.op \notin {"className", "instance", "defineWorkflow"}
  <2>1. k = r
    BY <1>1, <1>5 DEF Evaluated, InstallMiddleware, Throw, Registering, Sound,
                     Registries
  <2> QED BY <2>1
<1> QED BY <1>2, <1>3, <1>4, <1>5

-----------------------------------------------------------------------------
(* The registries of a process that evaluates p, statement by statement: a *)
(* later process goes through the same ones.                               *)
Knows(r, p, k, f) ==
  /\ (\A j \in 1..k : ~ Registers(p[j], f)) => Fresh(r, f)
  /\ \A i \in 1..k : (\A j \in 1..k : Registers(p[j], f) <=> j = i) =>
       IF p[i].op = "registerStep" THEN Unnamed(r, f) ELSE Named(r, f)

Tape(h, p) ==
  /\ h[0] = EmptyRegistry
  /\ \A k \in 1..Len(p) : h[k] = After(h[k - 1], p[k])
  /\ \A k \in 0..Len(p) : Sound(h[k]) /\ \A f \in Fns : Knows(h[k], p, k, f)
  /\ \A j, k \in 0..Len(p) : j <= k => Extends(h[j], h[k])

LEMMA TapeBegins ==
  ASSUME NEW h, h[0] = EmptyRegistry
  PROVE  Tape(h, << >>)
<1>1. EmptyRegistry \in Registries /\ Sound(EmptyRegistry)
  <2>1. /\ EmptyRegistry.ctors \in [Ctors -> Names \cup {NoName}]
        /\ EmptyRegistry.named \in [ClassNames -> Classes \cup {NoCtor}]
        /\ EmptyRegistry.title \in [Classes -> ClassNames]
        /\ EmptyRegistry.ops \in [Classes -> [Names -> Fns \cup {NoFn}]]
        /\ EmptyRegistry.fns \in [Fns -> [name : Names \cup {NoName},
                 cls : ClassNames, reg : Classes \cup {NoCtor},
                 type : {"none", "workflow", "step"}]]
        /\ EmptyRegistry.wfs \in [Names -> Fns \cup {NoFn}]
    BY DEF EmptyRegistry, Unregistered, ClassNames
  <2>2. EmptyRegistry \in Registries
    BY <2>1 DEF EmptyRegistry, Registries
  <2> QED BY <2>2, RegistryAssumption DEF EmptyRegistry, Sound
<1>2. \A f \in Fns : Fresh(EmptyRegistry, f)
  BY RegistryAssumption DEF Fresh, Unnamed, EmptyRegistry, Unregistered
<1>3. Extends(EmptyRegistry, EmptyRegistry)
  BY DEF Extends
<1> HIDE DEF Sound, Fresh
<1>4. \A f \in Fns : Knows(EmptyRegistry, << >>, 0, f)
  BY <1>2 DEF Knows
<1>5. Len(<< >>) = 0 /\ 0..0 = {0} /\ 1..0 = {}
  OBVIOUS
<1> QED BY <1>1, <1>3, <1>4, <1>5 DEF Tape

LEMMA TapeGrows ==
  ASSUME NEW T, NEW p \in Seq(T), NEW s, NEW h, Tape(h, p), IsStatement(s),
         MayName(h[Len(p)], s), ~ After(h[Len(p)], s).threw
  PROVE  \E h2 : /\ Tape(h2, Append(p, s))
                 /\ \A k \in 0..Len(p) : h2[k] = h[k]
                 /\ h2[Len(p) + 1] = After(h[Len(p)], s)
<1> DEFINE n == Len(p)
           p2 == Append(p, s)
           last == After(h[n], s)
           h2 == [k \in 0..(n + 1) |-> IF k <= n THEN h[k] ELSE last]
<1>1. /\ n \in Nat /\ Len(p2) = n + 1 /\ p2[n + 1] = s
      /\ \A k \in 1..n : p2[k] = p[k]
  BY LenProperties, AppendProperties
<1>2. /\ h2[n + 1] = last /\ h2[0] = h[0]
      /\ \A k \in 0..n : h2[k] = h[k]
  BY <1>1
<1> HIDE DEF h2, p2
<1>3. /\ Sound(last) /\ Extends(h[n], last)
      /\ \A f \in Fns : ~ Registers(s, f) =>
           /\ Fresh(h[n], f) => Fresh(last, f)
           /\ Unnamed(h[n], f) => Unnamed(last, f)
           /\ Named(h[n], f) => Named(last, f)
      /\ \A f \in Fns : Registers(s, f) /\ Fresh(h[n], f) =>
           IF s.op = "registerStep" THEN Unnamed(last, f) ELSE Named(last, f)
  BY <1>1, AfterKeeps DEF Tape
<1> HIDE DEF last
<1>4. \A k \in 1..(n + 1) : h2[k] = After(h2[k - 1], p2[k])
  <2> SUFFICES ASSUME NEW k \in 1..(n + 1)
               PROVE  h2[k] = After(h2[k - 1], p2[k])
    OBVIOUS
  <2>1. CASE k = n + 1
    BY <1>1, <1>2, <2>1 DEF last
  <2>2. CASE k \in 1..n
    <3>1. k - 1 \in 0..n /\ k \in 0..n
      BY <1>1, <2>2
    <3> QED BY <1>1, <1>2, <2>2, <3>1 DEF Tape
  <2> QED BY <1>1, <2>1, <2>2
<1>5. ASSUME NEW k \in 0..n, NEW f \in Fns
      PROVE  Knows(h2[k], p2, k, f)
  <2>1. \A j \in 1..k : p2[j] = p[j]
    BY <1>1
  <2>2. Knows(h[k], p, k, f) /\ h2[k] = h[k]
    BY <1>2 DEF Tape
  <2> HIDE DEF n
  <2> QED BY <2>1, <2>2 DEF Knows
<1>6. ASSUME NEW f \in Fns
      PROVE  Knows(last, p2, n + 1, f)
  <2>1. Knows(h[n], p, n, f)
    BY <1>1 DEF Tape
  <2>2. 1..(n + 1) = (1..n) \cup {n + 1} /\ n + 1 \notin 1..n
    BY <1>1
  <2>3. ASSUME \A j \in 1..(n + 1) : ~ Registers(p2[j], f)
        PROVE  Fresh(last, f)
    BY <1>1, <1>3, <2>1, <2>2, <2>3 DEF Knows
  <2>4. ASSUME NEW i \in 1..(n + 1),
               \A j \in 1..(n + 1) : Registers(p2[j], f) <=> j = i
        PROVE  IF p2[i].op = "registerStep" THEN Unnamed(last, f)
               ELSE Named(last, f)
    <3>1. CASE i = n + 1
      <4>1. Registers(s, f) /\ \A j \in 1..n : ~ Registers(p[j], f)
        BY <1>1, <2>2, <2>4, <3>1
      <4> QED BY <1>1, <1>3, <2>1, <3>1, <4>1 DEF Knows
    <3>2. CASE i \in 1..n
      <4>1. ~ Registers(s, f) /\ \A j \in 1..n : Registers(p[j], f) <=> j = i
        BY <1>1, <2>2, <2>4, <3>2
      <4>2. IF p[i].op = "registerStep" THEN Unnamed(h[n], f) ELSE Named(h[n], f)
        BY <2>1, <3>2, <4>1 DEF Knows
      <4> QED BY <1>1, <1>3, <3>2, <4>1, <4>2
    <3> QED BY <2>2, <3>1, <3>2
  <2> QED BY <2>3, <2>4 DEF Knows
<1>7. ASSUME NEW j \in 0..(n + 1), NEW k \in 0..(n + 1), j <= k
      PROVE  Extends(h2[j], h2[k])
  <2>1. CASE k \in 0..n
    BY <1>1, <1>2, <1>7, <2>1 DEF Tape
  <2>2. CASE k = n + 1 /\ j \in 0..n
    <3>1. Extends(h[j], h[n])
      BY <1>1, <2>2 DEF Tape
    <3>2. Extends(h[j], last)
      BY <1>3, <3>1 DEF Extends
    <3> QED BY <1>2, <2>2, <3>2
  <2>3. CASE k = n + 1 /\ j = n + 1
    BY <1>2, <2>3 DEF Extends
  <2> QED BY <1>1, <1>7, <2>1, <2>2, <2>3
<1>8. \A k \in 0..(n + 1) : Sound(h2[k]) /\ \A f \in Fns : Knows(h2[k], p2, k, f)
  BY <1>1, <1>2, <1>3, <1>5, <1>6 DEF Tape
<1>9. Tape(h2, p2)
  <2>1. h2[0] = EmptyRegistry
    BY <1>2 DEF Tape
  <2> HIDE DEF n
  <2> QED BY <1>1, <1>4, <1>7, <1>8, <2>1 DEF Tape
<1> QED BY <1>2, <1>9 DEF p2, last

(* The row of a function, which a launched process has started. *)
StartedAt(r, x) ==
  /\ r.launched /\ x.fn \in Fns
  /\ x.kind \in {"workflow", "step"} /\ x.kind = r.fns[x.fn].type
  /\ x.name = FullName(r, x.fn).name /\ x.cls = FullName(r, x.fn).cls

Once(p, f, n) ==
  \E i \in 1..n : \A j \in 1..Len(p) : Registers(p[j], f) <=> j = i

Uncut(x) == x.kind = "step" => FirstPart[x.name] = x.name

(* Whichever of two launches of one program is the earlier one: what the   *)
(* one has started under its name the other one finds by that name.        *)
LEMMA FoundAgain ==
  ASSUME NEW T, NEW p \in Seq(T), NEW h, Tape(h, p),
         NEW k \in 0..Len(p), NEW n \in 0..Len(p), h[n].launched,
         NEW x, StartedAt(h[k], x),
         Uncut(x), Once(p, x.fn, n)
  PROVE  Resolved(h[n], x) = x.fn
<1> DEFINE f == x.fn
           a == h[k]
           b == h[n]
           R == a.fns[f].reg
<1>1. PICK i \in 1..n : \A j \in 1..Len(p) : Registers(p[j], f) <=> j = i
  BY DEF Once
<1>2. /\ Sound(a) /\ Sound(b) /\ Knows(a, p, k, f) /\ Knows(b, p, n, f)
      /\ Len(p) \in Nat /\ k \in Nat /\ n \in Nat
  BY LenProperties DEF Tape, StartedAt
<1>3. Extends(a, b) \/ Extends(b, a)
  BY <1>2 DEF Tape
<1>4. a.fns[f].type # "none" /\ a.fns[f].type = x.kind /\ f \in Fns
  BY DEF StartedAt
<1>5. i \in 1..k
  <2>1. ~ Fresh(a, f)
    BY <1>4 DEF Fresh, Unnamed
  <2>2. \E j \in 1..k : Registers(p[j], f)
    BY <1>2, <2>1 DEF Knows
  <2> QED BY <1>1, <1>2, <2>2
<1>6. \A j \in 1..k : Registers(p[j], f) <=> j = i
  BY <1>1, <1>2
<1>7. \A j \in 1..n : Registers(p[j], f) <=> j = i
  BY <1>1, <1>2
<1>8. Named(a, f) /\ Named(b, f)
  <2>1. IF p[i].op = "registerStep" THEN Unnamed(a, f) ELSE Named(a, f)
    BY <1>2, <1>5, <1>6 DEF Knows
  <2>2. IF p[i].op = "registerStep" THEN Unnamed(b, f) ELSE Named(b, f)
    BY <1>2, <1>7 DEF Knows
  <2> QED BY <1>4, <2>1, <2>2 DEF Unnamed
<1>9. /\ b.fns[f].name = a.fns[f].name /\ b.fns[f].reg = R
      /\ b.fns[f].type = a.fns[f].type
  BY SMTT(30), <1>3, <1>4, <1>8 DEF Extends, Named
<1>10. a.launched /\ b.launched
  BY DEF StartedAt
<1>11. b.named[x.cls] = R /\ x.cls \in ClassNames
  <2>1. CASE R \in ClassNames
    <3>1. a.fns[f].cls = R /\ a.named[R] = R /\ b.named[R] = R
      BY ZenonT(30), <1>8, <1>9, <2>1 DEF Named, Placed
    <3>2. a.title[R] = R /\ R \notin Ctors
      BY <1>2, <2>1, <3>1, RegistryAssumption DEF Sound
    <3>3. x.cls = R
      BY SMTT(30), <3>1, <3>2 DEF StartedAt, FullName
    <3> QED BY SMTT(30), <2>1, <3>1, <3>3
  <2>2. CASE R \in Ctors
    <3>1. /\ a.ctors[R] # NoName /\ a.fns[f].cls = a.ctors[R]
          /\ a.named[a.ctors[R]] = R
          /\ b.ctors[R] # NoName /\ b.named[b.ctors[R]] = R
      BY <1>8, <1>9, <1>10, <2>2 DEF Named, Placed
    <3>2. a.ctors[R] \in Names /\ b.ctors[R] \in Names
      <4>1. /\ a.ctors \in [Ctors -> Names \cup {NoName}]
            /\ b.ctors \in [Ctors -> Names \cup {NoName}]
        BY SMTT(30), <1>2 DEF Sound, Registries
      <4> HIDE DEF a, b, R
      <4> QED BY <2>2, <3>1, <4>1
    <3>3. a.ctors[R] = b.ctors[R]
      <4>1. a.ctors[R] \in ClassNames /\ b.ctors[R] \in ClassNames /\ R # NoCtor
        BY <2>2, <3>2, RegistryAssumption DEF ClassNames
      <4>2. CASE Extends(a, b)
        <5>1. b.named[a.ctors[R]] = R
          BY <3>1, <4>1, <4>2 DEF Extends
        <5>2. \A m \in ClassNames : b.named[m] \in Ctors =>
                b.ctors[b.named[m]] = m
          BY <1>2 DEF Sound
        <5> HIDE DEF a, b, R
        <5> QED BY SMTT(30), <2>2, <4>1, <5>1, <5>2
      <4>3. CASE Extends(b, a)
        <5>1. a.named[b.ctors[R]] = R
          BY <3>1, <4>1, <4>3 DEF Extends
        <5>2. \A m \in ClassNames : a.named[m] \in Ctors =>
                a.ctors[a.named[m]] = m
          BY SMTT(30), <1>2 DEF Sound
        <5> HIDE DEF a, b, R
        <5> QED BY SMTT(30), <2>2, <4>1, <5>1, <5>2
      <4> QED BY SMTT(30), <1>3, <4>2, <4>3
    <3>4. x.cls = a.ctors[R]
      BY ZenonT(30), <3>1, <3>2, RegistryAssumption DEF StartedAt, FullName
    <3> QED BY ZenonT(30), <3>1, <3>2, <3>3, <3>4 DEF ClassNames
  <2> QED BY <1>8, <2>1, <2>2 DEF Named, Placed, Classes
<1>12. /\ x.name = a.fns[f].name /\ x.name \in Names
       /\ b.ops[R][x.name] = f /\ R \in Classes
  BY <1>8, <1>9 DEF Named, Placed, StartedAt, FullName
<1>13. R # NoCtor /\ x.name # NoName /\ x.kind \in {"workflow", "step"}
       /\ f # NoFn
  BY <1>4, <1>12, RegistryAssumption DEF Classes, ClassNames, StartedAt
<1> HIDE DEF a, b, f, R
<1>14. ByName(b, x.cls, x.name) = f
  BY <1>11, <1>12, <1>13 DEF ByName
<1>15. (IF x.kind = "step" THEN FirstPart[x.name] ELSE x.name) = x.name
  BY DEF Uncut
<1>16. Resolved(b, x) = f
  BY <1>4, <1>9, <1>11, <1>13, <1>14, <1>15 DEF Resolved
<1> QED BY <1>16 DEF b, f
-----------------------------------------------------------------------------
(* The rows of a legacy program, and what executes them. *)
Row ==
  [status : {"absent", "PENDING", "SUCCESS"},
   kind : {"none", "workflow", "step", "send"}, name : Names \cup {NoName},
   cls : ClassNames, version : SUBSET Fns, fn : Fns \cup {NoFn, Sender}]

RowsAre ==
  rows \in [Ws -> Row] /\ running \in [Ws -> Fns \cup {NoFn, Sender}]

(* Of a pending row some launch of the program has made. *)
Told(h, p, x) ==
  \/ x.status # "PENDING"
  \/ x.kind = "send" /\ x.fn = Sender /\ x.name = NoName /\ x.cls = Blank
  \/ \E k \in 0..Len(p) : StartedAt(h[k], x)

OnTape(h, p, n, r) == Tape(h, p) /\ r = h[n] /\ \A w \in Ws : Told(h, p, rows[w])

(* Every process of a program goes the same way. *)
Follows ==
  job.mode = "legacy" /\ main \in {"evaluating", "launched"} =>
    /\ program \in Seq(Statements["legacy"]) /\ pc \in 0..Len(program)
    /\ \E h : OnTape(h, program, pc, reg)

(* What is pending under this version is executed by the function that had *)
(* started it, or by the one that is found by its names.                   *)
Executing ==
  job.mode = "legacy" =>
    /\ main = "evaluating" => \A w \in Ws : running[w] = NoFn
    /\ main = "launched" =>
         /\ reg.launched
         /\ \A w \in Ws :
              rows[w].status = "PENDING" /\ rows[w].version = Version(reg) =>
                running[w] \in {rows[w].fn, Resolved(reg, rows[w])}

RInv == RowsAre /\ Follows /\ Executing

LEMMA NamesAre ==
  ASSUME NEW r, Sound(r), NEW f \in Fns
  PROVE  /\ FullName(r, f).name \in Names \cup {NoName}
         /\ FullName(r, f).cls \in ClassNames
<1> DEFINE m == r.fns[f]
           own == IF m.reg = NoCtor THEN Blank ELSE r.title[m.reg]
<1>1. m \in [name : Names \cup {NoName}, cls : ClassNames,
             reg : Classes \cup {NoCtor}, type : {"none", "workflow", "step"}]
  BY DEF Sound, Registries
<1>2. r.title \in [Classes -> ClassNames]
  BY DEF Sound, Registries
<1> HIDE DEF m
<1>3. own \in ClassNames
  BY <1>1, <1>2 DEF ClassNames
<1>4. m.reg \in Ctors => FnName[m.reg] \in ClassNames
  BY RegistryAssumption DEF ClassNames
<1>5. Blank \in ClassNames
  BY DEF ClassNames
<1> HIDE DEF own
<1> QED BY <1>1, <1>3, <1>4, <1>5 DEF FullName, m, own

LEMMA ResolvedIs ==
  ASSUME NEW r, Sound(r), NEW x \in Row
  PROVE  Resolved(r, x) \in Fns \cup {NoFn, Sender}
<1> DEFINE name == IF x.kind = "step" THEN FirstPart[x.name] ELSE x.name
           f == IF x.name = NoName THEN NoFn ELSE ByName(r, x.cls, name)
<1>1. x.name # NoName => name \in Names
  BY RegistryAssumption DEF Row
<1>2. /\ r.ops \in [Classes -> [Names -> Fns \cup {NoFn}]]
      /\ r.named \in [ClassNames -> Classes \cup {NoCtor}]
  BY DEF Sound, Registries
<1> HIDE DEF name
<1>3. f \in Fns \cup {NoFn}
  BY <1>1, <1>2 DEF ByName
<1> HIDE DEF f
<1>4. Resolved(r, x) \in {f, Sender, NoFn}
  BY DEF Resolved, f, name
<1> QED BY <1>3, <1>4

(* A statement, of a program that goes on or of one that is met again. *)
LEMMA StatementFollows ==
  ASSUME Follows, job.mode = "legacy", main \in {"evaluating", "launched"},
         NEW s \in Statements["legacy"], MayName(reg, s),
         IF pc < Len(program) THEN s = program[pc + 1] /\ UNCHANGED program
         ELSE program' = Append(program, s),
         reg' = After(reg, s), ~ After(reg, s).threw,
         pc' = pc + 1, UNCHANGED rows
  PROVE  /\ Follows' /\ Sound(reg) /\ IsStatement(s)
<1> DEFINE T == Statements["legacy"]
<1>1. /\ program \in Seq(T) /\ pc \in 0..Len(program) /\ Len(program) \in Nat
  BY LenProperties DEF Follows
<1>2. PICK h : OnTape(h, program, pc, reg)
  BY DEF Follows
<1>3. Tape(h, program) /\ reg = h[pc] /\ \A w \in Ws : Told(h, program, rows[w])
  BY <1>2 DEF OnTape
<1>4. Sound(reg)
  BY <1>1, <1>3 DEF Tape
<1>5. IsStatement(s)
  BY DEF Modes
<1>6. CASE pc < Len(program)
  <2>1. pc + 1 \in 1..Len(program) /\ pc + 1 \in 0..Len(program)
    BY <1>1, <1>6
  <2>2. reg' = h[pc + 1]
    <3>1. h[pc + 1] = After(h[(pc + 1) - 1], program[pc + 1])
      BY <1>3, <2>1 DEF Tape
    <3>2. (pc + 1) - 1 = pc
      BY <1>1
    <3> QED BY <1>3, <1>6, <3>1, <3>2
  <2>3. OnTape(h, program, pc, reg)'
    BY <1>3, <1>6, <2>2 DEF OnTape
  <2> QED BY <1>1, <1>4, <1>5, <1>6, <2>1, <2>3 DEF Follows
<1>7. CASE ~ pc < Len(program)
  <2>1. pc = Len(program) /\ program' = Append(program, s)
    BY <1>1, <1>7
  <2>2. PICK h2 : /\ Tape(h2, program')
                  /\ \A k \in 0..Len(program) : h2[k] = h[k]
                  /\ h2[Len(program) + 1] = reg'
    BY <1>1, <1>3, <1>5, <2>1, TapeGrows
  <2>3. /\ program' \in Seq(T) /\ Len(program') = Len(program) + 1
    BY <1>1, <2>1, AppendProperties
  <2>4. ASSUME NEW w \in Ws
        PROVE  Told(h2, program', rows[w])
    BY <1>1, <1>3, <2>2, <2>3 DEF Told
  <2>5. OnTape(h2, program, pc, reg)'
    BY <2>1, <2>2, <2>4 DEF OnTape
  <2>6. pc' \in 0..Len(program')
    BY <1>1, <2>1, <2>3
  <2> QED BY <1>4, <1>5, <2>3, <2>5, <2>6 DEF Follows
<1> QED BY <1>6, <1>7

LEMMA SoundNow ==
  ASSUME Follows, job.mode = "legacy", main \in {"evaluating", "launched"}
  PROVE  Sound(reg)
<1>1. PICK h : OnTape(h, program, pc, reg)
  BY DEF Follows
<1>2. pc \in 0..Len(program)
  BY DEF Follows
<1> QED BY <1>1, <1>2 DEF OnTape, Tape

LEMMA StatementRInv ==
  ASSUME IInv, RInv, Statement
  PROVE  RInv'
<1>1. PICK s \in Statements[job.mode] :
        /\ IF pc < Len(program) THEN s = program[pc + 1] /\ UNCHANGED program
           ELSE program' = Append(program, s)
        /\ s.op = "launch" => main = "evaluating"
        /\ s.op = "shutdown" => main = "launched"
        /\ s.op = "className" => reg.named[FnName[s.ctor]] # s.ctor
        /\ Perform(s)
  BY DEF Statement
<1>2. main \in {"evaluating", "launched"} /\ pc' = pc + 1 /\ UNCHANGED <<job, rows>>
  BY DEF Statement
<1>3. CASE job.mode # "legacy"
  <2>1. s.op \notin {"launch", "shutdown"}
    BY <1>3, LegacyLaunches
  <2>2. UNCHANGED running
    BY <1>1, <2>1 DEF Perform
  <2> QED BY <1>2, <1>3, <2>2 DEF RInv, RowsAre, Follows, Executing
<1>4. CASE job.mode = "legacy"
  <2>1. Sound(reg) /\ MayName(reg, s) /\ s \in Statements["legacy"]
    BY <1>1, <1>2, <1>4, SoundNow DEF RInv, MayName
  <2>2. ASSUME main' = "exited", UNCHANGED running
        PROVE  RInv'
    BY <1>2, <2>2 DEF RInv, RowsAre, Follows, Executing
  <2>3. ASSUME reg' = After(reg, s), ~ After(reg, s).threw
        PROVE  Follows' /\ IsStatement(s)
    BY <1>1, <1>2, <1>4, <2>1, <2>3, StatementFollows DEF RInv
  <2>4. CASE s.op = "launch"
    <3> DEFINE r == Launch(reg)
    <3>1. LaunchProgram /\ main = "evaluating"
      BY <1>1, <2>4 DEF Perform
    <3>2. CASE r.threw
      BY <2>2, <3>1, <3>2 DEF LaunchProgram, ExitWith
    <3>3. CASE ~ r.threw
      <4>1. reg' = r /\ main' = "launched" /\ Recover(r)
        BY <3>1, <3>3 DEF LaunchProgram
      <4>2. r = After(reg, s)
        BY <2>4 DEF After
      <4>3. r.launched /\ Sound(r)
        BY <2>1, <3>3, LaunchKeeps DEF KeepsBut
      <4>4. Follows'
        BY <2>3, <3>3, <4>1, <4>2
      <4> HIDE DEF r
      <4>5. \A w \in Ws : /\ rows[w] \in Row
                          /\ Resolved(r, rows[w]) \in Fns \cup {NoFn, Sender}
        BY <4>3, ResolvedIs DEF RInv, RowsAre
      <4>6. RowsAre'
        BY <1>2, <4>1, <4>5 DEF RInv, RowsAre, Recover
      <4>7. Executing'
        BY <1>2, <1>4, <3>1, <4>1, <4>3 DEF RInv, Executing, Recover
      <4> QED BY <4>4, <4>6, <4>7 DEF RInv
    <3> QED BY <3>2, <3>3
  <2>5. CASE s.op = "shutdown"
    <3>1. ShutdownProgram
      BY <1>1, <2>5 DEF Perform
    <3>2. reg' = After(reg, s) /\ After(reg, s) = Shutdown(reg)
      BY <2>5, <3>1 DEF ShutdownProgram, After
    <3>3. ~ After(reg, s).threw
      BY <2>1, <3>2, ShutdownKeeps DEF KeepsBut, Sound
    <3>4. Follows'
      BY <2>3, <3>2, <3>3
    <3> QED BY <1>2, <3>1, <3>4 DEF ShutdownProgram, RInv, RowsAre, Executing
  <2>6. CASE s.op \notin {"launch", "shutdown"}
    <3> DEFINE k == Evaluated(reg, s)
    <3>1. /\ reg' = k /\ UNCHANGED running
          /\ IF k.threw THEN main' = "exited" ELSE main' = main
      <4>1. CASE s.op \in {"runIfEntrypoint", "run", "exitCode"}
        <5>1. UNCHANGED <<reg, main, running>>
          BY <1>1, <4>1 DEF Perform, RunIfEntrypoint, SelfInvoke, SetExitCode
        <5>2. k = reg
          BY <4>1 DEF Evaluated
        <5> QED BY <2>1, <5>1, <5>2 DEF Sound
      <4>2. CASE s.op \notin {"runIfEntrypoint", "run", "exitCode"}
        BY <1>1, <2>6, <4>2 DEF Perform, Register, ExitWith
      <4> QED BY <4>1, <4>2
    <3>2. k = After(reg, s)
      BY <2>6 DEF After
    <3>3. CASE k.threw
      BY <2>2, <3>1, <3>3
    <3>4. CASE ~ k.threw
      <4>1. Follows' /\ IsStatement(s)
        BY <2>3, <3>1, <3>2, <3>4
      <4>2. main' = main /\ reg' = k
        BY <3>1, <3>4
      <4>3. ASSUME main = "launched"
            PROVE  /\ k.launched /\ Version(k) = Version(reg)
                   /\ \A x : Resolved(k, x) = Resolved(reg, x)
        <5>1. reg.launched
          BY <1>4, <4>3 DEF RInv, Executing
        <5>2. k.launched /\ k.fns = reg.fns /\ k.ops = reg.ops /\ k.named = reg.named
          BY <2>1, <2>6, <3>4, <4>1, <5>1, LaunchedStays
        <5> HIDE DEF k
        <5> QED BY <5>2 DEF Version, Resolved, ByName
      <4> HIDE DEF k
      <4>4. Executing'
        BY <1>2, <3>1, <4>2, <4>3 DEF RInv, Executing
      <4> QED BY <1>2, <3>1, <4>1, <4>4 DEF RInv, RowsAre
    <3> QED BY <3>3, <3>4
  <2> QED BY <2>4, <2>5, <2>6
<1> QED BY <1>3, <1>4

(* The one-shot runs, and the end of a process, are no part of it. *)
LEMMA OtherRInv ==
  ASSUME RInv, UNCHANGED <<job, program, pc, reg, rows, running>>,
         main' \notin {"evaluating", "launched"} \/ main' = main
  PROVE  RInv'
BY DEF RInv, RowsAre, Follows, OnTape, Executing

LEMMA BeginRInv ==
  ASSUME RInv, Undecided, NEW w \in Ws, NEW kind \in {"workflow", "step", "send"},
         NEW f \in Fns \cup {Sender}, NEW names,
         names.name \in Names \cup {NoName}, names.cls \in ClassNames,
         Begin(w, kind, f, names),
         IF kind = "send" THEN f = Sender /\ names.name = NoName /\ names.cls = Blank
         ELSE /\ f \in Fns /\ kind = reg.fns[f].type
              /\ names.name = FullName(reg, f).name
              /\ names.cls = FullName(reg, f).cls
  PROVE  RInv'
<1> DEFINE x == [status |-> "PENDING", kind |-> kind, name |-> names.name,
                 cls |-> names.cls, version |-> Version(reg), fn |-> f]
<1>1. /\ main = "launched" /\ job.mode = "legacy"
      /\ rows' = [rows EXCEPT ![w] = x] /\ running' = [running EXCEPT ![w] = f]
      /\ UNCHANGED <<job, program, pc, reg, main>>
  BY DEF Begin, Undecided
<1>2. /\ x \in Row /\ x.status = "PENDING" /\ x.kind = kind /\ x.fn = f
      /\ x.name = names.name /\ x.cls = names.cls
  BY DEF Row, Version
<1> HIDE DEF x
<1>3. /\ RowsAre'
      /\ rows'[w] = x /\ running'[w] = f
      /\ \A v \in Ws : v # w => rows'[v] = rows[v] /\ running'[v] = running[v]
  BY <1>1, <1>2 DEF RInv, RowsAre
<1>4. reg.launched /\ pc \in 0..Len(program)
  BY <1>1 DEF RInv, Follows, Executing
<1>5. PICK h : OnTape(h, program, pc, reg)
  BY <1>1 DEF RInv, Follows
<1>6. Told(h, program, x)
  BY <1>2, <1>4, <1>5 DEF Told, OnTape, StartedAt
<1>7. OnTape(h, program, pc, reg)'
  BY <1>1, <1>3, <1>5, <1>6 DEF OnTape
<1>8. Follows'
  BY <1>1, <1>7 DEF RInv, Follows
<1>9. Executing'
  BY <1>1, <1>2, <1>3 DEF RInv, Executing
<1> QED BY <1>3, <1>8, <1>9 DEF RInv

LEMMA LegacyRInv ==
  ASSUME RInv, Undecided,
         \/ \E w \in Ws : \/ \E f \in Fns : StartFunction(w, f)
                          \/ StartSend(w) \/ FinishWorkflow(w)
         \/ Crash
  PROVE  RInv'
<1>1. ASSUME NEW w \in Ws, NEW f \in Fns, StartFunction(w, f)
      PROVE  RInv'
  <2>1. main = "launched" /\ job.mode = "legacy"
    BY <1>1 DEF StartFunction, Begin, Undecided
  <2>2. Sound(reg)
    BY <2>1, SoundNow DEF RInv
  <2>3. /\ FullName(reg, f).name \in Names \cup {NoName}
        /\ FullName(reg, f).cls \in ClassNames
    BY <2>2, NamesAre
  <2> QED BY <1>1, <2>3, BeginRInv DEF StartFunction
<1>2. ASSUME NEW w \in Ws, StartSend(w)
      PROVE  RInv'
  <2> DEFINE names == [name |-> NoName, cls |-> Blank]
  <2>1. Begin(w, "send", Sender, names)
    BY <1>2 DEF StartSend
  <2>2. names.name = NoName /\ names.cls = Blank /\ Blank \in ClassNames
    BY DEF ClassNames
  <2> HIDE DEF names
  <2> QED BY <2>1, <2>2, BeginRInv
<1>3. ASSUME NEW w \in Ws, FinishWorkflow(w)
      PROVE  RInv'
  <2> DEFINE x == [rows[w] EXCEPT !.status = "SUCCESS"]
  <2>1. /\ rows' = [rows EXCEPT ![w] = x] /\ running' = [running EXCEPT ![w] = NoFn]
        /\ main = "launched"
        /\ UNCHANGED <<job, program, pc, reg, main>>
    BY <1>3 DEF FinishWorkflow
  <2>2. rows[w] \in Row
    BY DEF RInv, RowsAre
  <2>3. x \in Row /\ x.status = "SUCCESS"
    BY <2>2 DEF Row
  <2> HIDE DEF x
  <2>4. /\ RowsAre'
        /\ rows'[w] = x /\ running'[w] = NoFn
        /\ \A v \in Ws : v # w => rows'[v] = rows[v] /\ running'[v] = running[v]
    BY <2>1, <2>3 DEF RInv, RowsAre
  <2>5. ASSUME NEW h, OnTape(h, program, pc, reg)
        PROVE  OnTape(h, program, pc, reg)'
    <3>1. Told(h, program, x)
      BY <2>3 DEF Told
    <3> QED BY <2>1, <2>4, <2>5, <3>1 DEF OnTape
  <2>6. Follows'
    BY <2>1, <2>5 DEF RInv, Follows
  <2>7. Executing'
    BY <2>1, <2>3, <2>4 DEF RInv, Executing
  <2> QED BY <2>4, <2>6, <2>7 DEF RInv
<1>4. CASE Crash
  <2>1. /\ pc' = 0 /\ reg' = EmptyRegistry /\ main' = "evaluating"
        /\ main = "launched" /\ job.mode = "legacy"
        /\ running' = [w \in Ws |-> NoFn]
        /\ UNCHANGED <<job, program, rows>>
    BY <1>4 DEF Crash
  <2>2. PICK h : OnTape(h, program, pc, reg)
    BY <2>1 DEF RInv, Follows
  <2>3. OnTape(h, program, pc, reg)'
    BY <2>1, <2>2 DEF OnTape, Tape
  <2>4. 0 \in 0..Len(program) /\ program \in Seq(Statements["legacy"])
    BY <2>1, LenProperties DEF RInv, Follows
  <2>5. Follows'
    BY <2>1, <2>3, <2>4 DEF Follows
  <2> QED BY <2>1, <2>5 DEF RInv, RowsAre, Executing
<1> QED BY <1>1, <1>2, <1>3, <1>4

LEMMA InitRInv == Init => RInv
<1> SUFFICES ASSUME Init PROVE RInv
  OBVIOUS
<1>1. NoRow \in Row /\ NoRow.status = "absent"
  BY DEF NoRow, Row, ClassNames
<1>2. /\ program = << >> /\ pc = 0 /\ reg = EmptyRegistry /\ main # "launched"
      /\ rows = [w \in Ws |-> NoRow] /\ running = [w \in Ws |-> NoFn]
  BY DEF Init
<1> HIDE DEF NoRow
<1>3. RowsAre
  BY <1>1, <1>2 DEF RowsAre
<1> DEFINE h == [k \in {0} |-> EmptyRegistry]
<1>4. h[0] = EmptyRegistry
  OBVIOUS
<1> HIDE DEF h
<1>5. Tape(h, << >>)
  BY <1>4, TapeBegins
<1>6. OnTape(h, program, pc, reg)
  BY <1>1, <1>2, <1>4, <1>5 DEF OnTape, Told
<1>7. program \in Seq(Statements["legacy"]) /\ pc \in 0..Len(program)
  BY <1>2
<1>8. Follows
  BY <1>6, <1>7 DEF Follows
<1> QED BY <1>2, <1>3, <1>8 DEF RInv, Executing

LEMMA NextRInv == IInv /\ RInv /\ [Next]_vars => RInv'
<1> SUFFICES ASSUME IInv, RInv, [Next]_vars PROVE RInv'
  OBVIOUS
<1>1. CASE UNCHANGED vars
  BY <1>1, OtherRInv DEF vars, legacy
<1>2. ASSUME NEW i \in DOMAIN runs, Execute(i) PROVE RInv'
  <2>1. UNCHANGED <<job, program, pc, reg, rows, running>>
    BY <1>2 DEF Execute, FetchInput, Rejected, CreateRow, RunBody, Report, ExitRun,
                legacy
  <2>2. main' \in {main, "exited"}
    BY <1>2 DEF Execute, FetchInput, Rejected, CreateRow, RunBody, Report, ExitRun,
                ExitWith
  <2> QED BY <2>1, <2>2, OtherRInv
<1>3. CASE Statement
  BY <1>3, StatementRInv
<1>4. CASE Imported \/ Misconfigured \/ Defer \/ RunSelected \/ Drain
  <2>1. UNCHANGED <<job, program, pc, reg, rows, running>>
    BY <1>4 DEF Imported, Misconfigured, Defer, RunSelected, Drain, legacy
  <2>2. main' \in {"imported", "waiting", "exited"}
    BY <1>4 DEF Imported, Misconfigured, Defer, RunSelected, Drain, ExitWith
  <2> QED BY <2>1, <2>2, OtherRInv
<1>5. CASE \/ \E w \in Ws : \/ \E f \in Fns : StartFunction(w, f)
                            \/ StartSend(w) \/ FinishWorkflow(w)
           \/ Crash
  BY <1>5, LegacyRInv DEF IInv
<1> QED BY <1>1, <1>2, <1>3, <1>4, <1>5 DEF Next

LEMMA TapeFinds ==
  ASSUME RInv, Undecided
  PROVE  RecoveredAsStarted
<1> SUFFICES ASSUME main = "launched", NEW w \in Ws, Recoverable(w)
             PROVE  running[w] = rows[w].fn
  BY DEF RecoveredAsStarted
<1> DEFINE x == rows[w]
<1>1. /\ x.status = "PENDING" /\ x.version = Version(reg)
      /\ x.kind = "send" => reg.named[Blank] # NoCtor
      /\ x.kind # "send" => /\ RegisteredOnce(x.fn)
                            /\ x.kind = "step" => FirstPart[x.name] = x.name
  BY DEF Recoverable
<1>2. job.mode = "legacy"
  BY DEF Undecided
<1>3. /\ reg.launched /\ running[w] \in {x.fn, Resolved(reg, x)}
      /\ program \in Seq(Statements["legacy"]) /\ pc \in 0..Len(program)
  BY <1>1, <1>2 DEF RInv, Executing, Follows
<1>4. PICK h : OnTape(h, program, pc, reg)
  BY <1>2 DEF RInv, Follows
<1>5. Tape(h, program) /\ reg = h[pc] /\ Told(h, program, x)
  BY <1>4 DEF OnTape
<1>6. Resolved(reg, x) = x.fn
  <2>1. CASE x.kind = "send"
    <3>1. x.fn = Sender /\ x.cls = Blank
      BY <1>1, <1>5, <2>1 DEF Told, StartedAt
    <3> QED BY <1>1, <2>1, <3>1 DEF Resolved
  <2>2. CASE x.kind # "send"
    <3>1. PICK k \in 0..Len(program) : StartedAt(h[k], x)
      BY <1>1, <1>5, <2>2 DEF Told
    <3>2. Once(program, x.fn, pc) /\ Uncut(x)
      BY <1>1, <1>3, <2>2, LenProperties
         DEF Once, Registers, RegisteredOnce, Uncut
    <3> HIDE DEF x
    <3>3. h[pc].launched
      BY <1>3, <1>5
    <3>4. Resolved(h[pc], x) = x.fn
      BY <1>3, <1>5, <3>1, <3>2, <3>3, FoundAgain
    <3> QED BY <1>5, <3>4
  <2> QED BY <2>1, <2>2
<1> QED BY <1>3, <1>6

(* Every process of a program goes through the same registries, and a row  *)
(* tells which launch of the program has made it.                          *)
THEOREM ProgramFollowed == Spec => []RInv
<1>1. Init => IInv /\ RInv
  BY InitIInv, InitRInv
<1>2. (IInv /\ RInv) /\ [Next]_vars => (IInv /\ RInv)'
  BY NextInv, NextRInv
<1> QED BY <1>1, <1>2, PTL DEF Spec

(* A launched program executes each workflow that was pending under its    *)
(* version with the function that had started it, whatever the program has *)
(* registered, aliased and finalized, and however often it was launched    *)
(* and has crashed (solidactions-executor.ts:935-936).                     *)
THEOREM RecoveredRight == Spec => []RecoveredAsStarted
<1>1. IInv /\ RInv => RecoveredAsStarted
  BY TapeFinds DEF IInv
<1> QED BY <1>1, Invariance, ProgramFollowed, PTL
=============================================================================
