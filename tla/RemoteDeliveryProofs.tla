------------------------ MODULE RemoteDeliveryProofs ------------------------
(***************************************************************************)
(* Proofs about Remote: a stream is read as it was written, and a message  *)
(* is sent when its send returns, and once.  For every number of actors,   *)
(* any scripts, and, where nothing else is said, any number of retries,    *)
(* late requests, crashes and re-dispatches.                               *)
(***************************************************************************)
EXTENDS RemoteProofs, FiniteSetTheorems

USE RemoteAssumption

Values == Bodies \cup {Nothing}

In(m, s) == \E i \in DOMAIN s : s[i] = m

(* All that is ever written to a stream that is closed last. *)
Whole(w, s) == ClosesLast(w) => \A m \in Written(w) : In(m, s)

(* What a request may do to the streams. *)
WriteFits(r) ==
  /\ r.kind = "write" => r.wf \in Rows /\ r.body \in Values
  /\ r.kind = "close" => r.wf \in Rows /\ Whole(r.wf, stream[r.wf])

(* A body has come past its writes. *)
WritesDone(a) ==
  Busy(a) /\ InWorkflow(a) =>
    \A k \in 1..at[a] :
      /\ job.script[a][k].op = "write"
      /\ k < at[a] \/ (leg[a] = "write" /\ reply[a] = "ok")
      => In(job.script[a][k].body, stream[Me(a)])

(* The i-th value of the stream of w, or a mock's null in its place. *)
ValueAt(w, i, x) ==
  \/ i \in DOMAIN stream[w] /\ x = stream[w][i]
  \/ Mocked /\ x = Nothing

(* All that is ever written to a stream closed last was there to be read. *)
Told(w, s) ==
  ClosesLast(w) => \A m \in Written(w) : \E i \in DOMAIN s :
    \/ s[i] = m
    \/ Mocked /\ s[i] = Nothing /\ i \in DOMAIN stream[w] /\ stream[w][i] = m

(* What a reader has yielded of the stream of w, and is about to. *)
ReadSoFar(a, w) ==
  /\ \A i \in DOMAIN seen[a] : ValueAt(w, i, seen[a][i])
  /\ leg[a] = "read" /\ reply[a] = "found" =>
       ValueAt(w, Len(seen[a]) + 1, value[a])
  /\ a \in ended \/ (leg[a] = "read" /\ reply[a] = "closed") => Told(w, seen[a])

Reads(a, w) == \E c \in CallsOf(a) : c.op = "readStream" /\ c.wf = w

SInv ==
  /\ stream \in [Rows -> Seq(Values)] /\ seen \in [Actors -> Seq(Values)]
  /\ \A l \in late : WriteFits(l.request)
  /\ \A w \in closed : w \in Rows /\ Whole(w, stream[w])
  /\ \A a \in Actors : WritesDone(a)
  /\ \A a \in Actors, w \in Rows : Reads(a, w) => ReadSoFar(a, w)

-----------------------------------------------------------------------------
(* The streams only grow. *)
StreamsGrow ==
  /\ stream' \in [Rows -> Seq(Values)]
  /\ \A w \in Rows : \A i \in DOMAIN stream[w] :
       i \in DOMAIN stream'[w] /\ stream'[w][i] = stream[w][i]

LEMMA WriteGrows ==
  ASSUME SInv, NEW r, WriteFits(r), Effect(r)
  PROVE  /\ StreamsGrow
         /\ r.kind = "write" => In(r.body, stream'[r.wf])
         /\ \A w \in closed' : w \in closed \/ (r.kind = "close" /\ w = r.wf)
<1>1. /\ stream' = WriteStream(r) /\ closed' = CloseStream(r)
      /\ stream \in [Rows -> Seq(Values)]
  BY DEF Effect, SInv
<1>2. CASE r.kind = "write"
  <2> DEFINE s == stream[r.wf]
             t == Append(s, r.body)
  <2>1. s \in Seq(Values) /\ r.body \in Values /\ r.wf \in Rows
    BY <1>1, <1>2 DEF WriteFits
  <2>2. stream' = [stream EXCEPT ![r.wf] = t]
    BY <1>1, <1>2 DEF WriteStream
  <2>3. /\ t \in Seq(Values) /\ Len(t) = Len(s) + 1 /\ Len(s) \in Nat
        /\ t[Len(s) + 1] = r.body /\ \A i \in 1..Len(s) : t[i] = s[i]
    BY <2>1, AppendProperties, LenProperties
  <2>4. DOMAIN s = 1..Len(s) /\ DOMAIN t = 1..(Len(s) + 1)
    BY <2>1, <2>3, LenProperties
  <2> HIDE DEF t
  <2>5. In(r.body, t)
    <3>1. Len(s) + 1 \in DOMAIN t
      BY <2>3, <2>4
    <3> QED BY <2>3, <3>1 DEF In
  <2> HIDE DEF s
  <2>6. /\ stream'[r.wf] = t /\ stream[r.wf] = s
        /\ \A w \in Rows : w # r.wf => stream'[w] = stream[w]
        /\ stream' \in [Rows -> Seq(Values)]
    BY <1>1, <2>1, <2>2, <2>3 DEF s
  <2>7. StreamsGrow
    BY <2>3, <2>4, <2>6 DEF StreamsGrow
  <2>8. closed' = closed
    BY <1>1, <1>2 DEF CloseStream
  <2> QED BY <2>5, <2>6, <2>7, <2>8
<1>3. CASE r.kind # "write"
  BY <1>1, <1>3 DEF StreamsGrow, WriteStream, CloseStream
<1> QED BY <1>2, <1>3

LEMMA SameStreams ==
  ASSUME SInv, UNCHANGED stream
  PROVE  StreamsGrow
BY DEF SInv, StreamsGrow

LEMMA StaysIn ==
  ASSUME StreamsGrow, UNCHANGED job
  PROVE  /\ \A w \in Rows : \A m : In(m, stream[w]) => In(m, stream'[w])
         /\ \A w \in Rows : Whole(w, stream[w]) => Whole(w, stream[w])'
         /\ \A r : WriteFits(r) => WriteFits(r)'
         /\ \A a, w : Reads(a, w)' <=> Reads(a, w)
<1>1. \A w \in Rows : \A m : In(m, stream[w]) => In(m, stream'[w])
  BY DEF In, StreamsGrow
<1>2. \A w : Written(w)' = Written(w) /\ (ClosesLast(w)' <=> ClosesLast(w))
  BY DEF Written, ClosesLast, CallsOf, Me
<1>3. \A w \in Rows : Whole(w, stream[w]) => Whole(w, stream[w])'
  BY <1>1, <1>2 DEF Whole
<1>4. \A r : WriteFits(r) => WriteFits(r)'
  BY <1>3 DEF WriteFits
<1>5. \A a, w : Reads(a, w)' <=> Reads(a, w)
  BY DEF Reads, CallsOf
<1> QED BY <1>1, <1>3, <1>4, <1>5

(* What was read stays so. *)
LEMMA ReadStays ==
  ASSUME StreamsGrow, UNCHANGED job
  PROVE  /\ \A w \in Rows : \A i, x : ValueAt(w, i, x) => ValueAt(w, i, x)'
         /\ \A w \in Rows : \A s : Told(w, s) => Told(w, s)'
<1>1. \A w \in Rows : \A i, x : ValueAt(w, i, x) => ValueAt(w, i, x)'
  BY DEF ValueAt, StreamsGrow, Mocked
<1>2. \A w : Written(w)' = Written(w) /\ (ClosesLast(w)' <=> ClosesLast(w))
  BY DEF Written, ClosesLast, CallsOf, Me
<1>3. \A w \in Rows : \A s : Told(w, s) => Told(w, s)'
  BY <1>2 DEF Told, StreamsGrow, Mocked
<1> QED BY <1>1, <1>3

(* A request fits where the actor is: a body closes what it has written. *)
LEMMA AskedWrites ==
  ASSUME KInv, SInv, NEW a \in Actors
  PROVE  WriteFits(Request(a))
<1>1. CASE leg[a] \in {"write", "close"}
  <2>1. at[a] \in 1..Len(job.script[a]) /\ leg[a] \in Stages(a, at[a]) /\ Busy(a)
    BY <1>1, BusyPlace DEF Busy
  <2>2. Call(a).op = leg[a] /\ Call(a) \in Calls
    BY <1>1, <2>1, StageOps, ScriptCalls DEF KInv, Call
  <2>3. InWorkflow(a)
    BY <1>1, <2>1, <2>2, ScriptCalls DEF KInv, Allowed, Call, InWorkflow
  <2>4. Me(a) \in Rows
    BY <2>3 DEF KInv, IsJob, InWorkflow, Me
  <2>5. Request(a).wf = Me(a) /\ Request(a).body = Call(a).body
        /\ Request(a).kind = leg[a]
    BY <1>1 DEF Request, Ask
  <2>6. CASE leg[a] = "write"
    BY <2>2, <2>4, <2>5, <2>6 DEF WriteFits, Calls, Values
  <2>7. CASE leg[a] = "close"
    <3> SUFFICES ASSUME ClosesLast(Me(a)), NEW m \in Written(Me(a))
                 PROVE  In(m, stream[Me(a)])
      BY <2>4, <2>5, <2>7 DEF WriteFits, Whole
    <3>1. at[a] \in DOMAIN job.script[a]
      BY <2>1, LenProperties DEF KInv, IsJob
    <3>2. PICK k \in 1..(at[a] - 1) : /\ job.script[a][k].op = "write"
                                      /\ job.script[a][k].body = m
      BY <2>2, <2>7, <3>1 DEF ClosesLast, Call
    <3>3. k \in 1..at[a] /\ k < at[a]
      BY <2>1, <3>2
    <3> QED BY <2>1, <2>3, <3>2, <3>3 DEF SInv, WritesDone
  <2> QED BY <1>1, <2>6, <2>7
<1>2. CASE leg[a] \notin {"write", "close"}
  <2>1. Request(a).kind \notin {"write", "close"}
    BY <1>2 DEF Request, Ask
  <2> QED BY <2>1 DEF WriteFits
<1> QED BY <1>1, <1>2

(* The stream an actor reads. *)
LEMMA ReadsOne ==
  ASSUME KInv, NEW a \in Actors, leg[a] \in {"read", "status"}
  PROVE  /\ Call(a).wf \in Rows /\ \A w : Reads(a, w) <=> w = Call(a).wf
         /\ ~ InWorkflow(a)
<1>1. at[a] \in 1..Len(job.script[a]) /\ leg[a] \in Stages(a, at[a])
  BY BusyPlace DEF Busy
<1>2. Call(a).op = "readStream" /\ Allowed(job, a, Call(a))
  BY SMTT(30), <1>1, StageOps, ScriptCalls DEF KInv, Call
<1>3. IsJob(job) /\ DOMAIN job.script[a] = 1..Len(job.script[a])
  BY LenProperties DEF KInv, IsJob
<1>4. \A c \in CallsOf(a) : c.op = "readStream" => c = Call(a)
  BY <1>1, <1>2, <1>3 DEF IsJob, CallsOf, Call
<1>5. Call(a) \in CallsOf(a)
  BY <1>1, <1>3 DEF CallsOf, Call
<1> QED BY <1>2, <1>4, <1>5 DEF Reads, Allowed, InWorkflow

-----------------------------------------------------------------------------
(* An actor that reads and writes nothing. *)
Still(a) ==
  /\ seen'[a] = seen[a] /\ (a \in ended' => a \in ended)
  /\ \/ /\ at'[a] = at[a] /\ leg'[a] = leg[a]
        /\ \/ reply'[a] = reply[a] /\ value'[a] = value[a]
           \/ reply'[a] \in {"none", "threw"}
     \/ /\ reply'[a] = "none"
        /\ Busy(a)' => WritesDone(a)'

LEMMA StillFits ==
  ASSUME SInv, StreamsGrow, UNCHANGED job, NEW a \in Actors, Still(a),
         InWorkflow(a) => Me(a) \in Rows
  PROVE  /\ WritesDone(a)'
         /\ \A w \in Rows : Reads(a, w)' => ReadSoFar(a, w)'
<1>2. \A w \in Rows : \A m : In(m, stream[w]) => In(m, stream'[w])
  BY StaysIn
<1>3. WritesDone(a)'
  <2>1. CASE ~ Busy(a)' \/ WritesDone(a)'
    BY <2>1 DEF WritesDone
  <2>2. CASE /\ at'[a] = at[a] /\ leg'[a] = leg[a]
             /\ reply'[a] \in {reply[a], "none", "threw"}
    <3>1. WritesDone(a) /\ InWorkflow(a)' = InWorkflow(a) /\ Me(a)' = Me(a)
      BY StagesStay DEF SInv
    <3> QED BY <1>2, <2>2, <3>1 DEF WritesDone, Busy
  <2> QED BY <2>1, <2>2 DEF Still
<1>4. ASSUME NEW w \in Rows, Reads(a, w)
      PROVE  ReadSoFar(a, w)'
  <2>1. ReadSoFar(a, w)
    BY <1>4 DEF SInv
  <2>2. PICK s, x : s = seen[a] /\ x = value[a]
    OBVIOUS
  <2>3. /\ \A i \in DOMAIN s : ValueAt(w, i, s[i])'
        /\ ValueAt(w, Len(s) + 1, x) => ValueAt(w, Len(s) + 1, x)'
        /\ Told(w, s) => Told(w, s)'
    BY <2>1, <2>2, ReadStays DEF ReadSoFar
  <2>4. /\ seen'[a] = s /\ (a \in ended' => a \in ended)
        /\ leg'[a] = "read" /\ reply'[a] \in {"found", "closed"} =>
             leg[a] = "read" /\ reply[a] = reply'[a] /\ value'[a] = x
    BY <2>2 DEF Still
  <2> QED BY <2>1, <2>2, <2>3, <2>4 DEF ReadSoFar
<1>5. \A w : Reads(a, w)' => Reads(a, w)
  BY StaysIn
<1> QED BY <1>3, <1>4, <1>5

LEMMA JoinInv ==
  ASSUME KInv, SInv, StreamsGrow, UNCHANGED job,
         seen' \in [Actors -> Seq(Values)],
         \A l \in late' : l \in late \/ WriteFits(l.request),
         \A w \in closed' : w \in closed \/ (w \in Rows /\ Whole(w, stream[w])),
         \A a \in Actors :
           \/ Still(a)
           \/ /\ WritesDone(a)'
              /\ \A w \in Rows : Reads(a, w)' => ReadSoFar(a, w)'
  PROVE  SInv'
<1>1. \A a \in Actors : InWorkflow(a) => Me(a) \in Rows
  BY DEF KInv, IsJob, InWorkflow, Me
<1>2. \A a \in Actors : /\ WritesDone(a)'
                        /\ \A w \in Rows : Reads(a, w)' => ReadSoFar(a, w)'
  BY <1>1, StillFits
<1>3. \A l \in late' : WriteFits(l.request)'
  BY StaysIn DEF SInv
<1>4. \A w \in closed' : w \in Rows /\ Whole(w, stream[w])'
  BY StaysIn DEF SInv
<1> QED BY <1>2, <1>3, <1>4 DEF SInv, StreamsGrow

LEMMA StillInv ==
  ASSUME KInv, SInv, StreamsGrow, UNCHANGED <<job, seen>>,
         \A l \in late' : l \in late \/ WriteFits(l.request),
         \A w \in closed' : w \in closed \/ (w \in Rows /\ Whole(w, stream[w])),
         \A a \in Actors : Still(a)
  PROVE  SInv'
<1>1. seen' \in [Actors -> Seq(Values)]
  BY DEF SInv
<1> QED BY <1>1, JoinInv

-----------------------------------------------------------------------------
(* An attempt that is answered. *)
LEMMA ReadAnswered ==
  ASSUME KInv, SInv, NEW a \in Actors, leg[a] = "read", NEW w \in Rows, Reads(a, w)
  PROVE  LET r == Request(a) IN
         /\ Answer(r) = "found" => ValueAt(w, Len(seen[a]) + 1, Carries(r))
         /\ Answer(r) = "closed" => Told(w, seen[a])
<1> DEFINE r == Request(a)
           n == Len(seen[a])
<1>1. w = Call(a).wf
  BY ReadsOne
<1>2. r.kind = "read" /\ r.wf = w /\ r.id = n + 1
  BY <1>1 DEF Request, Ask
<1>3. /\ n \in Nat /\ DOMAIN seen[a] = 1..n
      /\ Len(stream[w]) \in Nat /\ DOMAIN stream[w] = 1..Len(stream[w])
  BY LenProperties DEF SInv
<1>4. Answer(r) = ReadAnswer(r)
  BY <1>2 DEF Answer
<1>5. Answer(r) = "found" => n + 1 \in DOMAIN stream[w] \/ Mocked
  BY <1>2, <1>3, <1>4 DEF ReadAnswer, Mocked
<1>6. Carries(r) = IF n + 1 \in DOMAIN stream[w] THEN stream[w][n + 1] ELSE Nothing
  BY <1>2 DEF Carries
<1>7. ASSUME Answer(r) = "closed"
      PROVE  Told(w, seen[a])
  <2>1. w \in closed /\ ~ (n + 1 <= Len(stream[w]))
    BY <1>2, <1>4, <1>7 DEF ReadAnswer
  <2>2. \A i \in DOMAIN stream[w] : i \in DOMAIN seen[a]
    BY <1>3, <2>1
  <2>3. \A i \in DOMAIN seen[a] : ValueAt(w, i, seen[a][i])
    BY DEF SInv, ReadSoFar
  <2>4. Whole(w, stream[w])
    BY <2>1 DEF SInv
  <2>5. ASSUME NEW m, In(m, stream[w])
        PROVE  \E i \in DOMAIN seen[a] :
                 \/ seen[a][i] = m
                 \/ /\ Mocked /\ seen[a][i] = Nothing
                    /\ i \in DOMAIN stream[w] /\ stream[w][i] = m
    BY <2>2, <2>3, <2>5 DEF In, ValueAt
  <2> QED BY <2>4, <2>5 DEF Whole, Told
<1> QED BY <1>5, <1>6, <1>7 DEF ValueAt

LEMMA ServeS ==
  ASSUME KInv, SInv, NEW a \in Actors, Serve(a)
  PROVE  SInv'
<1> DEFINE r == Request(a)
<1>1. /\ Effect(r) /\ reply' = [reply EXCEPT ![a] = Answer(r)]
      /\ value' = [value EXCEPT ![a] = Carries(r)]
      /\ UNCHANGED <<job, late, at, leg, seen, ended>>
  BY DEF Serve, seenOutside
<1>2. WriteFits(r)
  BY AskedWrites
<1>3. /\ StreamsGrow
      /\ r.kind = "write" => In(r.body, stream'[r.wf])
      /\ \A w \in closed' : w \in closed \/ (r.kind = "close" /\ w = r.wf)
  BY <1>1, <1>2, WriteGrows
<1>4. \A b \in Actors : b # a => Still(b)
  BY <1>1 DEF KInv, Domains, Still
<1>5. reply'[a] = Answer(r) /\ value'[a] = Carries(r)
  BY <1>1 DEF KInv, Domains
<1>6. \A w \in closed' : w \in closed \/ (w \in Rows /\ Whole(w, stream[w]))
  BY <1>2, <1>3 DEF WriteFits
<1>7. WritesDone(a)'
  <2> SUFFICES ASSUME Busy(a), InWorkflow(a), NEW k \in 1..at[a],
                      job.script[a][k].op = "write",
                      k < at[a] \/ leg[a] = "write"
               PROVE  In(job.script[a][k].body, stream'[Me(a)])
    BY <1>1 DEF WritesDone, Busy, InWorkflow, Me
  <2>1. Me(a) \in Rows
    BY DEF KInv, IsJob, InWorkflow, Me
  <2>2. CASE k < at[a]
    BY <1>1, <1>3, <2>1, <2>2, StaysIn DEF SInv, WritesDone
  <2>3. CASE k = at[a] /\ leg[a] = "write"
    <3>1. r.kind = "write" /\ r.wf = Me(a) /\ r.body = job.script[a][k].body
      BY <2>3 DEF Request, Ask, Call
    <3> QED BY <1>3, <3>1
  <2> QED BY <2>2, <2>3, BusyPlace
<1>8. ASSUME NEW w \in Rows, Reads(a, w)
      PROVE  ReadSoFar(a, w)'
  <2>1. ReadSoFar(a, w)
    BY <1>8 DEF SInv
  <2>2. leg[a] = "read" =>
          /\ Answer(r) = "found" => ValueAt(w, Len(seen[a]) + 1, Carries(r))
          /\ Answer(r) = "closed" => Told(w, seen[a])
    BY <1>8, ReadAnswered
  <2> HIDE DEF r
  <2>3. PICK s, x, l : s = seen[a] /\ x = Carries(r) /\ l = Answer(r)
    OBVIOUS
  <2>4. /\ \A i \in DOMAIN s : ValueAt(w, i, s[i])'
        /\ leg[a] = "read" /\ l = "found" => ValueAt(w, Len(s) + 1, x)'
        /\ a \in ended \/ (leg[a] = "read" /\ l = "closed") => Told(w, s)'
    BY <1>1, <1>3, <2>1, <2>2, <2>3, ReadStays DEF ReadSoFar
  <2>5. seen'[a] = s /\ value'[a] = x /\ reply'[a] = l
    BY <1>1, <1>5, <2>3
  <2> QED BY <1>1, <2>4, <2>5 DEF ReadSoFar
<1>9. \A w : Reads(a, w)' => Reads(a, w)
  BY <1>1, <1>3, StaysIn
<1>10. seen' \in [Actors -> Seq(Values)]
  BY <1>1 DEF SInv
<1> HIDE DEF r
<1> QED BY <1>1, <1>3, <1>4, <1>6, <1>7, <1>8, <1>9, <1>10, JoinInv

LEMMA AttemptS ==
  ASSUME KInv, SInv, NEW a \in Actors, Attempt(a)
  PROVE  SInv'
<1>1. CASE Serve(a)
  BY <1>1, ServeS
<1>2. CASE Refused(a) \/ ReplyLost(a) \/ Abandoned(a)
  <2>1. /\ UNCHANGED <<job, at, leg, value, seen, ended>>
        /\ reply' \in {reply, [reply EXCEPT ![a] = "threw"]}
    BY <1>2 DEF Refused, ReplyLost, Abandoned, Retry, seenOutside
  <2>2. \A b \in Actors : Still(b)
    BY <2>1 DEF KInv, Domains, Still
  <2>3. /\ StreamsGrow
        /\ \A w \in closed' : w \in closed \/ (w \in Rows /\ Whole(w, stream[w]))
    <3>1. CASE Refused(a) \/ Abandoned(a)
      BY <3>1, SameStreams DEF Refused, Abandoned, backend
    <3>2. CASE ReplyLost(a)
      BY <3>2, AskedWrites, WriteGrows DEF ReplyLost, WriteFits
    <3> QED BY <1>2, <3>1, <3>2
  <2>4. \A l \in late' : l \in late \/ WriteFits(l.request)
    BY <1>2, AskedWrites DEF Refused, ReplyLost, Abandoned
  <2> QED BY <2>1, <2>2, <2>3, <2>4, StillInv
<1> QED BY <1>1, <1>2 DEF Attempt

-----------------------------------------------------------------------------
(* A handler that goes on past no write that is not done. *)
Sideways(a) ==
  \/ \E l, m : Enter(a, at[a], l, m)
  \/ Over(a)
  \/ /\ Proceed(a)
     /\ InWorkflow(a) => Call(a).op # "write" \/ (leg[a] = "write" /\ reply[a] = "ok")

LEMMA WriteLegs ==
  ASSUME KInv, NEW a \in Actors, Busy(a), Call(a).op = "write"
  PROVE  leg[a] \in {"write", "error"}
<1>1. leg[a] \in Stages(a, at[a])
  BY BusyPlace
<1> QED BY <1>1 DEF Stages, Call

LEMMA GoesSideways ==
  ASSUME KInv, NEW a \in Actors
  PROVE  /\ \A l : AskFor(a, l) => Sideways(a)
         /\ Fail(a) => Sideways(a)
         /\ Busy(a) /\ leg[a] \notin {"write", "error"} /\ Proceed(a) => Sideways(a)
<1>1. \A l : AskFor(a, l) => Sideways(a)
  BY DEF AskFor, Sideways
<1>2. Fail(a) => Sideways(a)
  BY <1>1 DEF Fail, Sideways
<1>3. Busy(a) /\ leg[a] \notin {"write", "error"} /\ Proceed(a) => Sideways(a)
  BY WriteLegs DEF Sideways
<1> QED BY <1>1, <1>2, <1>3

LEMMA SidewaysWrites ==
  ASSUME KInv, SInv, NEW a \in Actors, Busy(a), Sideways(a), UNCHANGED <<job, stream>>
  PROVE  /\ Busy(a)' => WritesDone(a)'
         /\ reply'[a] = "none"
         /\ \A b \in Actors : b # a =>
              /\ at'[b] = at[b] /\ leg'[b] = leg[b]
              /\ reply'[b] = reply[b] /\ value'[b] = value[b]
<1>1. \E i, l, m : Enter(a, i, l, m)
  BY DEF Sideways, Over, Proceed
<1>2. /\ reply'[a] = "none"
      /\ \A b \in Actors : b # a =>
           /\ at'[b] = at[b] /\ leg'[b] = leg[b]
           /\ reply'[b] = reply[b] /\ value'[b] = value[b]
  BY <1>1 DEF Enter, KInv, Domains
<1>3. at[a] \in Nat
  BY BusyPlace
<1>4. \A k \in 1..(at[a] - 1) : InWorkflow(a) /\ job.script[a][k].op = "write" =>
        In(job.script[a][k].body, stream[Me(a)])
  <2>1. \A k \in 1..(at[a] - 1) : k \in 1..at[a] /\ k < at[a]
    BY <1>3
  <2> QED BY <2>1 DEF SInv, WritesDone
<1>5. CASE \E l, m : Enter(a, at[a], l, m)
  <2>1. at'[a] = at[a]
    BY <1>5 DEF Enter, KInv, Domains
  <2> QED BY <1>2, <1>3, <1>4, <2>1 DEF WritesDone, InWorkflow, Me, In
<1>6. CASE Over(a)
  BY <1>2, <1>6 DEF Over, Enter, Busy, KInv, Domains
<1>7. CASE /\ Proceed(a)
           /\ InWorkflow(a) => \/ Call(a).op # "write"
                               \/ leg[a] = "write" /\ reply[a] = "ok"
  <2>1. at'[a] = at[a] + 1
    BY <1>7 DEF Proceed, Enter, KInv, Domains
  <2>2. InWorkflow(a) /\ Call(a).op = "write" => In(Call(a).body, stream[Me(a)])
    BY SMTT(30), <1>3, <1>7, BusyPlace DEF SInv, WritesDone, Call
  <2> QED BY <1>2, <1>3, <1>4, <2>1, <2>2 DEF WritesDone, InWorkflow, Me, In, Call
<1> QED BY <1>2, <1>5, <1>6, <1>7 DEF Sideways

LEMMA SidewaysS ==
  ASSUME KInv, SInv, NEW a \in Actors, Busy(a), Sideways(a),
         UNCHANGED <<job, backend, late, seen, ended>>
  PROVE  SInv'
<1>1. \A b \in Actors : Still(b)
  BY SidewaysWrites DEF Still, backend
<1> QED BY <1>1, SameStreams, StillInv DEF backend

LEMMA ExitS ==
  ASSUME KInv, SInv, NEW a \in Actors, Exit(a),
         UNCHANGED <<job, backend, late, seen, ended>>
  PROVE  SInv'
<1>1. \A b \in Actors : Still(b)
  BY DEF Exit, Still, Busy
<1> QED BY <1>1, SameStreams, StillInv DEF backend

LEMMA OtherS ==
  ASSUME KInv, SInv, NEW a \in Actors, Handle(a), ~ StreamAnswered(a)
  PROVE  SInv'
<1>1. UNCHANGED <<job, backend, late, seen, ended>> /\ Busy(a)
  BY DEF Handle, SendAnswered, CreateAnswered, AwaitAnswered, ResultAnswered,
         RecvAnswered, StopsCancelled, EventAnswered, GetOpAnswered,
         ManageAnswered, PutOpAnswered, PutErrorAnswered, SweepPending,
         SweepEnqueued, Answered, seenOutside, Busy, Asking
<1> USE GoesSideways DEF Answered
<1>2. CASE SendAnswered(a) \/ CreateAnswered(a) \/ AwaitAnswered(a)
  BY <1>1, <1>2, SidewaysS DEF SendAnswered, CreateAnswered, AwaitAnswered
<1>3. CASE ResultAnswered(a)
  BY <1>1, <1>3, SidewaysS DEF ResultAnswered, Sideways
<1>4. CASE RecvAnswered(a)
  <2>1. Sideways(a) \/ Exit(a)
    BY <1>1, <1>4 DEF RecvAnswered, Sideways
  <2> QED BY <1>1, <2>1, SidewaysS, ExitS
<1>5. CASE StopsCancelled(a) \/ EventAnswered(a)
  BY <1>1, <1>5, SidewaysS DEF StopsCancelled, EventAnswered, Sideways
<1>6. CASE GetOpAnswered(a) \/ ManageAnswered(a)
  BY <1>1, <1>6, SidewaysS DEF GetOpAnswered, ManageAnswered, Sideways
<1>7. CASE PutOpAnswered(a) \/ PutErrorAnswered(a)
  BY <1>1, <1>7, SidewaysS DEF PutOpAnswered, PutErrorAnswered, Sideways
<1>8. CASE SweepPending(a) \/ SweepEnqueued(a)
  <2>1. \A l : Sweep(a, l) => Sideways(a)
    BY DEF Sweep, Sideways
  <2> QED BY <1>1, <1>8, <2>1, SidewaysS DEF SweepPending, SweepEnqueued
<1> QED BY <1>2, <1>3, <1>4, <1>5, <1>6, <1>7, <1>8 DEF Handle

-----------------------------------------------------------------------------
(* The answers of a reader. *)
LEMMA StreamS ==
  ASSUME KInv, SInv, NEW a \in Actors, StreamAnswered(a)
  PROVE  SInv'
<1>1. /\ UNCHANGED <<job, backend, late>> /\ Busy(a)
      /\ leg[a] \in {"write", "close", "read", "status"} /\ reply[a] # "none"
  BY DEF StreamAnswered, Answered, Busy
<1>2. /\ reply[a] \in {"found", "closed"} => leg[a] = "read"
      /\ leg[a] = "write" => reply[a] \in {"ok", "threw"}
  BY <1>1 DEF KInv, Learned
<1>3. Sideways(a)
  <2>1. CASE Threw(a)
    BY <2>1, GoesSideways DEF StreamAnswered, Threw
  <2>2. CASE ~ Threw(a) /\ Proceed(a)
    BY <1>1, <1>2, <2>2, GoesSideways DEF Sideways, Threw
  <2>3. CASE ~ Threw(a) /\ ~ Proceed(a)
    BY <2>3, GoesSideways DEF StreamAnswered
  <2> QED BY <2>1, <2>2, <2>3
<1>4. /\ Busy(a)' => WritesDone(a)'
      /\ reply'[a] = "none"
      /\ \A b \in Actors : b # a =>
           /\ at'[b] = at[b] /\ leg'[b] = leg[b]
           /\ reply'[b] = reply[b] /\ value'[b] = value[b]
  BY <1>1, <1>3, SidewaysWrites DEF backend
<1>5. ended' = IF reply[a] = "closed" THEN ended \cup {a} ELSE ended
  BY DEF StreamAnswered
<1>6. StreamsGrow
  BY <1>1, SameStreams DEF backend
<1>7. CASE leg[a] = "read" /\ reply[a] = "found"
  <2> DEFINE n == Len(seen[a])
             w == Call(a).wf
  <2>1. seen' = [seen EXCEPT ![a] = Append(@, value[a])]
    BY <1>7 DEF StreamAnswered
  <2>2. w \in Rows /\ \A v : Reads(a, v) <=> v = w
    BY <1>7, ReadsOne
  <2>3. ReadSoFar(a, w) /\ ValueAt(w, n + 1, value[a])
    BY <1>7, <2>2 DEF SInv, ReadSoFar
  <2>4. seen[a] \in Seq(Values) /\ stream[w] \in Seq(Values)
    BY <2>2 DEF SInv
  <2>5. value[a] \in Values
    <3>1. CASE n + 1 \in DOMAIN stream[w] /\ value[a] = stream[w][n + 1]
      BY <2>4, <3>1, ElementOfSeq, LenProperties
    <3>2. CASE value[a] = Nothing
      BY <3>2 DEF Values
    <3> QED BY <2>3, <3>1, <3>2 DEF ValueAt
  <2>6. /\ seen'[a] \in Seq(Values) /\ DOMAIN seen'[a] = 1..(n + 1) /\ n \in Nat
        /\ seen'[a][n + 1] = value[a]
        /\ DOMAIN seen[a] = 1..n /\ \A i \in 1..n : seen'[a][i] = seen[a][i]
    <3>1. seen'[a] = Append(seen[a], value[a])
      BY <2>1 DEF SInv
    <3> HIDE DEF w
    <3> QED BY <2>4, <2>5, <3>1, AppendProperties, LenProperties
  <2>7. \A b \in Actors : b # a => seen'[b] = seen[b]
    BY <2>1 DEF SInv
  <2>8. seen' \in [Actors -> Seq(Values)]
    BY <2>1, <2>6, <2>7 DEF SInv
  <2> HIDE DEF n, w
  <2>9. \A i \in DOMAIN seen'[a] : ValueAt(w, i, seen'[a][i])
    <3>1. \A i \in 1..n : ValueAt(w, i, seen'[a][i])
      BY <2>3, <2>6 DEF ReadSoFar
    <3>2. \A i \in 1..(n + 1) : i \in 1..n \/ i = n + 1
      BY <2>6
    <3>3. ValueAt(w, n + 1, seen'[a][n + 1])
      BY <2>3, <2>6
    <3> QED BY <2>6, <3>1, <3>2, <3>3
  <2>10. Told(w, seen[a]) => Told(w, seen'[a])
    <3>1. \A i \in DOMAIN seen[a] : i \in DOMAIN seen'[a] /\ seen'[a][i] = seen[a][i]
      BY <2>6
    <3> QED BY <3>1 DEF Told
  <2>12. WritesDone(a)'
    BY <1>4 DEF WritesDone
  <2>13. \A b \in Actors : b # a => Still(b)
    BY <1>4, <1>5, <2>7 DEF Still
  <2>14. \A v \in Rows : Reads(a, v)' => ReadSoFar(a, v)'
    <3>1. \A v : Reads(a, v)' => v = w
      BY <1>1, <1>6, <2>2, StaysIn
    <3> SUFFICES ASSUME NEW v \in Rows, Reads(a, v)'
                 PROVE  ReadSoFar(a, v)'
      OBVIOUS
    <3>2. v = w
      BY <3>1
    <3>3. PICK t : t = seen'[a]
      OBVIOUS
    <3>4. /\ \A i \in DOMAIN t : ValueAt(v, i, t[i])'
          /\ a \in ended' => Told(v, t)'
      BY <1>1, <1>5, <1>6, <1>7, <2>3, <2>9, <2>10, <3>2, <3>3, ReadStays
         DEF ReadSoFar
    <3> QED BY <1>4, <3>3, <3>4 DEF ReadSoFar
  <2> QED BY <1>1, <1>6, <2>8, <2>12, <2>13, <2>14, JoinInv DEF backend
<1>8. CASE ~ (leg[a] = "read" /\ reply[a] = "found")
  <2>1. UNCHANGED seen
    BY <1>8 DEF StreamAnswered
  <2>2. \A b \in Actors : b # a => Still(b)
    BY <1>4, <1>5, <2>1 DEF Still
  <2>3. WritesDone(a)'
    BY <1>4 DEF WritesDone
  <2>4. ASSUME NEW w \in Rows, Reads(a, w)
        PROVE  ReadSoFar(a, w)'
    <3>1. ReadSoFar(a, w)
      BY <2>4 DEF SInv
    <3>2. a \in ended' => Told(w, seen[a])
      BY <1>2, <1>5, <3>1 DEF ReadSoFar
    <3>3. PICK t : t = seen[a]
      OBVIOUS
    <3>4. /\ \A i \in DOMAIN t : ValueAt(w, i, t[i])'
          /\ a \in ended' => Told(w, t)'
      BY <1>1, <1>6, <3>1, <3>2, <3>3, ReadStays DEF ReadSoFar
    <3> QED BY <1>4, <2>1, <3>3, <3>4 DEF ReadSoFar
  <2>5. \A w : Reads(a, w)' => Reads(a, w)
    BY <1>1, <1>6, StaysIn
  <2>6. seen' \in [Actors -> Seq(Values)]
    BY <2>1 DEF SInv
  <2> QED BY <1>1, <1>6, <2>2, <2>3, <2>4, <2>5, <2>6, JoinInv DEF backend
<1> QED BY <1>7, <1>8

LEMMA NextSInv == KInv /\ SInv /\ [Next]_vars => SInv'
<1> SUFFICES ASSUME KInv, SInv, [Next]_vars PROVE SInv'
  OBVIOUS
<1>1. CASE UNCHANGED vars
  <2>1. UNCHANGED <<job, stream, closed, late, at, leg, reply, value, seen, ended>>
    BY <1>1 DEF vars, backend, control, seenOutside
  <2> QED BY <2>1, SameStreams, StillInv DEF Still
<1>2. CASE \E a \in Actors : Attempt(a) \/ Handle(a)
  BY <1>2, AttemptS, OtherS, StreamS
<1>3. CASE \E a \in Actors : Wake(a)
  <2>1. PICK a \in Actors : Wake(a)
    BY <1>3
  <2>2. /\ UNCHANGED <<job, stream, closed, late, seen, ended>>
        /\ Enter(a, 1, FirstLeg(a, 1), Nothing)
    BY <2>1 DEF Wake, backend, seenOutside
  <2>3. \A b \in Actors : Still(b)
    BY <2>2 DEF Enter, KInv, Domains, Still, WritesDone
  <2> QED BY <2>2, <2>3, SameStreams, StillInv
<1>4. CASE \E l \in late : Arrive(l)
  <2>1. PICK l \in late : Arrive(l)
    BY <1>4
  <2>2. WriteFits(l.request) /\ Effect(l.request) /\ late' \subseteq late
        /\ UNCHANGED <<job, at, leg, reply, value, seen, ended>>
    BY <2>1 DEF Arrive, SInv, control, seenOutside
  <2>3. \A b \in Actors : Still(b)
    BY <2>2 DEF Still
  <2> QED BY <2>2, <2>3, WriteGrows, StillInv DEF WriteFits
<1>5. CASE \E w \in Rows : Dequeue(w) \/ \E i \in 1..MaxCalls : TimeOut(w, i)
  <2>1. UNCHANGED <<job, stream, closed, late, at, leg, reply, value, seen, ended>>
    BY <1>5 DEF Dequeue, TimeOut, control, seenOutside
  <2> QED BY <2>1, SameStreams, StillInv DEF Still
<1>6. CASE \E p \in Procs : Crash(p)
  <2>1. PICK p \in Procs : Crash(p)
    BY <1>6
  <2>2. /\ UNCHANGED <<job, stream, closed, late, seen, ended>>
        /\ \A b \in Actors :
             \/ /\ at'[b] = at[b] /\ leg'[b] = leg[b]
                /\ reply'[b] = reply[b] /\ value'[b] = value[b]
             \/ /\ reply'[b] = "none" /\ (InWorkflow(b) => at'[b] = 1)
    BY <2>1 DEF Crash, backend, seenOutside
  <2>3. \A b \in Actors : Still(b)
    BY <2>2 DEF Still, WritesDone, InWorkflow
  <2> QED BY <2>2, <2>3, SameStreams, StillInv
<1> QED BY <1>1, <1>2, <1>3, <1>4, <1>5, <1>6 DEF Next

LEMMA InitSInv == Init => SInv
<1> SUFFICES ASSUME Init PROVE SInv
  OBVIOUS
<1>1. /\ stream = [w \in Rows |-> << >>] /\ seen = [a \in Actors |-> << >>]
      /\ closed = {} /\ late = {} /\ ended = {}
      /\ \A a \in Actors : at[a] = 1 /\ reply[a] = "none"
  BY DEF Init
<1>2. \A a \in Actors : WritesDone(a)
  BY <1>1 DEF WritesDone
<1>3. \A a \in Actors, w \in Rows : ReadSoFar(a, w)
  BY <1>1 DEF ReadSoFar
<1> QED BY <1>1, <1>2, <1>3 DEF SInv

-----------------------------------------------------------------------------
(* A reader yields what was written, in order and without a gap, and all   *)
(* of it when the stream has ended, whatever is retried, late, crashed or  *)
(* executed twice; where the store is the mock, its nulls in the place of  *)
(* values read too early (solidactions.ts:2096, mock_server.ts:954).       *)
THEOREM StreamsInOrder == Spec => []StreamInOrder
<1>1. KInv /\ SInv => StreamInOrder
  <2> SUFFICES ASSUME KInv, SInv, NEW a \in Actors, NEW c \in CallsOf(a),
                      c.op = "readStream"
               PROVE  /\ \A i \in DOMAIN seen[a] : ValueAt(c.wf, i, seen[a][i])
                      /\ a \in ended => Told(c.wf, seen[a])
    BY DEF StreamInOrder, ValueAt, Told, Mocked
  <2>1. c.wf \in Rows
    <3>1. job.script[a] \in Seq(Calls)
      BY DEF KInv, IsJob
    <3>2. \A i \in DOMAIN job.script[a] : Allowed(job, a, job.script[a][i])
      BY DEF KInv, IsJob
    <3> QED BY <3>2 DEF CallsOf, Allowed
  <2>2. ReadSoFar(a, c.wf)
    BY <2>1 DEF SInv, Reads
  <2> QED BY <2>2 DEF ReadSoFar
<1>2. KInv /\ SInv /\ [Next]_vars => SInv'
  BY NextSInv
<1>3. Init => SInv
  BY InitSInv
<1> QED BY <1>1, <1>2, <1>3, InvarianceK, PTL DEF Spec

-----------------------------------------------------------------------------
Delivered(m) == \E i \in DOMAIN messages : messages[i].body = m

(* The row of the key k may say that its message is sent. *)
KeyServed(k) ==
  \A c \in AllCalls :
    c.op = "sendOnce" /\ c.temp = k /\ HasItsKey(c.body) => Delivered(c.body)

SuccessFits(r) ==
  r.kind \in {"create", "result"} /\ r.status = "SUCCESS" => KeyServed(r.wf)

(* What an actor knows of the message it sends. *)
SendKnown(a) ==
  /\ leg[a] = "send" /\ reply[a] \notin {"none", "threw"} => Delivered(Call(a).body)
  /\ leg[a] = "output" /\ ~ InWorkflow(a) => Delivered(Call(a).body)
  /\ leg[a] = "await" /\ reply[a] = "ok" /\ HasItsKey(Call(a).body)
       => Delivered(Call(a).body)

AckInv ==
  /\ \A m \in acked : HasItsKey(m) => Delivered(m)
  /\ \A a \in Actors : SendKnown(a)
  /\ \A k \in Rows : row[k] = "SUCCESS" => KeyServed(k)
  /\ \A l \in late : SuccessFits(l.request)

-----------------------------------------------------------------------------
(* a is about to send m. *)
Ready(a, m) ==
  /\ Busy(a) /\ Call(a).op \in Sends /\ Call(a).body = m
  /\ \/ leg[a] = "send" /\ reply[a] = "none"
     \/ leg[a] = "create" /\ (Call(a).op = "clientSend" \/ reply[a] = "ok")

(* One of all who might sends m, and then nobody does. *)
SentBefore(m) ==
  /\ \A i, j \in DOMAIN messages :
       messages[i].body = m /\ messages[j].body = m => i = j
  /\ Delivered(m) => \A a \in Actors : ~ Ready(a, m)
  /\ \A a, b \in Actors : Ready(a, m) /\ Ready(b, m) => a = b
  /\ \A a \in Actors : \A i \in DOMAIN job.script[a] :
       LET c == job.script[a][i] IN
       c.op \in Sends /\ c.body = m =>
         IF c.op = "sendOnce"
         THEN row[c.temp] = "absent" =>
                ~ Delivered(m) /\ \A b \in Actors : ~ Ready(b, m)
         ELSE Delivered(m) => at[a] >= i

OnceInv ==
  /\ faults \in Nat /\ wakes \in Nat
  /\ faults = 0 /\ wakes = 0 =>
       /\ late = {}
       /\ \A m \in Values : HasOneSender(m) => SentBefore(m)

-----------------------------------------------------------------------------
(* What a request adds to the messages. *)
Adds(r) ==
  /\ \A i \in DOMAIN messages :
       i \in DOMAIN messages' /\ messages'[i].body = messages[i].body
  /\ \A i \in DOMAIN messages' : i \notin DOMAIN messages =>
       r.kind = "send" /\ i = Len(messages) + 1 /\ messages'[i].body = r.body
  /\ r.kind = "send" =>
       Len(messages) + 1 \in DOMAIN messages' /\ messages'[Len(messages) + 1].body = r.body

LEMMA SendAdds ==
  ASSUME MessagesAre, NEW r, r.kind = "send", messages' = SendMessage(r)
  PROVE  Adds(r)
<1> DEFINE m == [wf |-> r.wf, body |-> r.body, consumed |-> FALSE]
           S == Range(messages) \cup {m}
<1>1. DOMAIN messages = 1..Len(messages) /\ Len(messages) \in Nat
  BY LenProperties DEF MessagesAre
<1>2. messages \in Seq(S) /\ m \in S
  BY <1>1 DEF MessagesAre
<1>3. messages' = Append(messages, m)
  BY DEF SendMessage
<1>4. m.body = r.body
  OBVIOUS
<1> HIDE DEF m, S
<1>5. /\ messages' \in Seq(S) /\ Len(messages') = Len(messages) + 1
      /\ \A j \in 1..Len(messages) : messages'[j] = messages[j]
      /\ messages'[Len(messages) + 1] = m
  BY <1>2, <1>3, AppendProperties
<1>6. DOMAIN messages' = 1..(Len(messages) + 1)
  BY <1>5, LenProperties
<1> QED BY <1>1, <1>4, <1>5, <1>6 DEF Adds

LEMMA EffectAdds ==
  ASSUME MessagesAre, NEW r, Effect(r)
  PROVE  Adds(r)
<1>1. CASE r.kind = "send"
  BY <1>1, SendAdds DEF Effect, MessagesAfter
<1>2. CASE r.kind = "take" /\ ~ HasResult(r) /\ Unconsumed(r.wf) # {}
  <2> DEFINE k == First(r.wf)
             m == [messages[k] EXCEPT !.consumed = TRUE]
  <2>1. messages' = [messages EXCEPT ![k] = m]
    BY <1>2 DEF Effect, MessagesAfter, ReceiveMessage
  <2>2. k \in DOMAIN messages
    BY <1>2, FirstIsOldest DEF Unconsumed
  <2>3. m.body = messages[k].body
    BY <2>2 DEF MessagesAre, IsMessage
  <2> HIDE DEF m, k
  <2>4. /\ DOMAIN messages' = DOMAIN messages
        /\ \A j \in DOMAIN messages : messages'[j] = IF j = k THEN m ELSE messages[j]
    BY <2>1, <2>2, MessageReplaced
  <2> QED BY <1>2, <2>3, <2>4 DEF Adds
<1>3. CASE /\ r.kind # "send"
           /\ ~ (r.kind = "take" /\ ~ HasResult(r) /\ Unconsumed(r.wf) # {})
  <2>1. messages' = messages
    BY <1>3 DEF Effect, MessagesAfter, ReceiveMessage
  <2> QED BY <1>3, <2>1 DEF Adds
<1> QED BY <1>1, <1>2, <1>3

LEMMA AddsDelivers ==
  ASSUME NEW r, Adds(r)
  PROVE  /\ \A m : Delivered(m) => Delivered(m)'
         /\ r.kind = "send" => \E i \in DOMAIN messages' : messages'[i].body = r.body
         /\ \A m : ~ (r.kind = "send" /\ r.body = m) /\ Delivered(m)' => Delivered(m)
BY DEF Adds, Delivered

LEMMA KeysStay ==
  ASSUME UNCHANGED job, \A m : Delivered(m) => Delivered(m)'
  PROVE  /\ \A m : HasItsKey(m)' <=> HasItsKey(m)
         /\ \A k : KeyServed(k) => KeyServed(k)'
         /\ \A r : SuccessFits(r) => SuccessFits(r)'
<1>1. AllCalls' = AllCalls
  BY DEF AllCalls, CallsOf
<1>2. \A m : HasItsKey(m)' <=> HasItsKey(m)
  BY <1>1 DEF HasItsKey
<1>3. \A k : KeyServed(k) => KeyServed(k)'
  BY <1>1, <1>2 DEF KeyServed
<1> QED BY <1>2, <1>3 DEF SuccessFits

(* Which rows a request makes a success. *)
LEMMA Successes ==
  ASSUME KInv, NEW r, row' = RowAfter(r), NEW k \in Rows, row'[k] = "SUCCESS"
  PROVE  \/ row[k] = "SUCCESS"
         \/ r.kind \in {"create", "result"} /\ r.status = "SUCCESS" /\ k = r.wf
<1>1. DOMAIN row = Rows
  BY DEF KInv, StoreFits
<1> QED BY <1>1 DEF RowAfter, CreateWorkflow, CancelWorkflow, ResumeWorkflow,
          RecordResult, ForkWorkflow, Exists

(* The call an actor is at is one of all calls. *)
LEMMA CallIsOne ==
  ASSUME KInv, NEW a \in Actors, Busy(a)
  PROVE  /\ Call(a) \in AllCalls /\ at[a] \in DOMAIN job.script[a]
         /\ Call(a) \in Calls /\ Allowed(job, a, Call(a))
<1>1. at[a] \in 1..Len(job.script[a])
  BY BusyPlace
<1>2. at[a] \in DOMAIN job.script[a]
  BY <1>1, LenProperties DEF KInv, IsJob
<1> QED BY <1>1, <1>2, ScriptCalls DEF KInv, AllCalls, CallsOf, Call

LEMMA AllAllowed ==
  ASSUME KInv, NEW c \in AllCalls
  PROVE  c \in Calls /\ \E a \in Actors : Allowed(job, a, c)
<1>1. PICK a \in Actors : \E i \in DOMAIN job.script[a] : c = job.script[a][i]
  BY DEF AllCalls, CallsOf
<1>2. PICK i \in DOMAIN job.script[a] : c = job.script[a][i]
  BY <1>1
<1>3. i \in 1..Len(job.script[a])
  BY LenProperties DEF KInv, IsJob
<1> QED BY <1>2, <1>3, ScriptCalls DEF KInv

LEMMA AskedSuccess ==
  ASSUME KInv, AckInv, NEW a \in Actors
  PROVE  SuccessFits(Request(a))
<1> DEFINE r == Request(a)
<1>1. CASE leg[a] = "create"
  <2>1. Busy(a) /\ Call(a).op \in Keyed
    BY SMTT(30), <1>1, BusyPlace, StageOps DEF KInv, Busy, Call
  <2>2. r.wf = Call(a).temp /\ (r.status = "SUCCESS" => Call(a).op # "sendOnce")
    BY <1>1 DEF Request, Ask
  <2>3. Call(a) \in AllCalls
    BY <2>1, CallIsOne
  <2> QED BY <2>1, <2>2, <2>3 DEF SuccessFits, KeyServed, HasItsKey, Keyed
<1>2. CASE leg[a] = "output" /\ InWorkflow(a)
  <2>1. r.wf = Me(a)
    BY <1>2 DEF Request, Ask, Own
  <2>2. \A c \in AllCalls : c.op = "sendOnce" => c.temp # Me(a)
    BY AllAllowed DEF Allowed, Me
  <2> QED BY <2>1, <2>2 DEF SuccessFits, KeyServed
<1>3. CASE leg[a] = "output" /\ ~ InWorkflow(a)
  <2>1. Busy(a) /\ Call(a).op = "sendOnce"
    BY <1>3, NextStages DEF Busy
  <2>2. Call(a) \in AllCalls /\ r.wf = Call(a).temp
    BY <1>3, <2>1, CallIsOne DEF Request, Ask, Own
  <2>3. Delivered(Call(a).body)
    BY <1>3 DEF AckInv, SendKnown
  <2> QED BY <2>1, <2>2, <2>3 DEF SuccessFits, KeyServed, HasItsKey, Keyed
<1>4. CASE leg[a] = "error"
  BY <1>4 DEF Request, Ask, SuccessFits
<1>5. CASE leg[a] \notin {"create", "output", "error"}
  <2>1. leg[a] # "result"
    BY BusyPlace, StageOps DEF KInv, Busy
  <2>2. r.kind \notin {"create", "result"}
    BY <1>5, <2>1 DEF Request, Ask
  <2> QED BY <2>2 DEF SuccessFits
<1> QED BY <1>1, <1>2, <1>3, <1>4, <1>5

-----------------------------------------------------------------------------
(* An actor that learns nothing of its message. *)
Unaware(a) ==
  \/ /\ at'[a] = at[a] /\ leg'[a] = leg[a]
     /\ reply'[a] \in {reply[a], "none", "threw"}
  \/ reply'[a] = "none" /\ (leg'[a] = "output" => InWorkflow(a))

LEMMA AckStep ==
  ASSUME KInv, AckInv, UNCHANGED job, \A m : Delivered(m) => Delivered(m)',
         \A a \in Actors : Unaware(a) \/ SendKnown(a)',
         \A m \in acked' : m \in acked \/ (HasItsKey(m) => Delivered(m)),
         \A k \in Rows : row'[k] = "SUCCESS" => row[k] = "SUCCESS" \/ KeyServed(k),
         \A l \in late' : l \in late \/ SuccessFits(l.request)
  PROVE  AckInv'
<1>1. \A m : HasItsKey(m)' <=> HasItsKey(m)
  BY KeysStay
<1>2. \A m \in acked' : HasItsKey(m)' => Delivered(m)'
  BY <1>1 DEF AckInv
<1>3. \A a \in Actors : Unaware(a) => SendKnown(a)'
  <2> SUFFICES ASSUME NEW a \in Actors, Unaware(a) PROVE SendKnown(a)'
    OBVIOUS
  <2>1. SendKnown(a)
    BY DEF AckInv
  <2>2. CASE /\ at'[a] = at[a] /\ leg'[a] = leg[a]
             /\ reply'[a] \in {reply[a], "none", "threw"}
    <3>1. Call(a)' = Call(a) /\ InWorkflow(a)' = InWorkflow(a)
      BY <2>2 DEF Call, InWorkflow
    <3> QED BY <1>1, <2>1, <2>2, <3>1 DEF SendKnown
  <2>3. CASE reply'[a] = "none" /\ (leg'[a] = "output" => InWorkflow(a))
    BY <2>3 DEF SendKnown, InWorkflow
  <2> QED BY <2>2, <2>3 DEF Unaware
<1>4. \A k \in Rows : row'[k] = "SUCCESS" => KeyServed(k)'
  BY KeysStay DEF AckInv
<1>5. \A l \in late' : SuccessFits(l.request)'
  BY KeysStay DEF AckInv
<1> QED BY <1>2, <1>3, <1>4, <1>5 DEF AckInv

LEMMA ServeAck ==
  ASSUME RInv, KInv, AckInv, NEW a \in Actors, Serve(a)
  PROVE  AckInv'
<1> DEFINE r == Request(a)
<1>1. /\ Effect(r) /\ reply' = [reply EXCEPT ![a] = Answer(r)]
      /\ UNCHANGED <<job, late, at, leg, acked>>
  BY DEF Serve, seenOutside
<1>2. Adds(r)
  BY <1>1, EffectAdds DEF RInv
<1>3. /\ \A m : Delivered(m) => Delivered(m)'
      /\ r.kind = "send" => \E i \in DOMAIN messages' : messages'[i].body = r.body
  BY <1>2, AddsDelivers
<1>4. reply'[a] = Answer(r) /\ \A b \in Actors : b # a => Unaware(b)
  BY <1>1 DEF KInv, Domains, Unaware
<1>5. SuccessFits(r)
  BY AskedSuccess
<1>6. \A k \in Rows : row'[k] = "SUCCESS" => row[k] = "SUCCESS" \/ KeyServed(k)
  BY <1>1, <1>5, Successes DEF Effect, SuccessFits
<1>7. SendKnown(a)'
  <2>5. r.kind = "send" /\ r.body = Call(a).body /\ UNCHANGED <<job, at>>
          => Delivered(Call(a).body)'
    BY <1>3 DEF Delivered, Call
  <2>1. Call(a)' = Call(a) /\ InWorkflow(a)' = InWorkflow(a)
        /\ (HasItsKey(Call(a).body)' <=> HasItsKey(Call(a).body))
    BY <1>1, <1>3, KeysStay DEF Call, InWorkflow
  <2>2. leg[a] = "send" => r.kind = "send" /\ r.body = Call(a).body
    BY DEF Request, Ask
  <2>3. leg[a] = "output" /\ ~ InWorkflow(a) => Delivered(Call(a).body)
    BY DEF AckInv, SendKnown
  <2>4. ASSUME leg[a] = "await", Answer(r) = "ok", HasItsKey(Call(a).body)
        PROVE  Delivered(Call(a).body)
    <3>1. r.kind = "await" /\ r.wf = Call(a).temp
      BY <2>4 DEF Request, Ask
    <3>2. row[Call(a).temp] = "SUCCESS"
      BY <2>4, <3>1 DEF Answer
    <3>3. Busy(a) /\ Call(a).op = "sendOnce"
      BY SMTT(30), <2>4, BusyPlace, StageOps DEF KInv, Busy, Call
    <3>4. Call(a) \in AllCalls /\ Call(a).temp \in Rows
      BY <3>3, CallIsOne DEF Allowed
    <3> QED BY <2>4, <3>2, <3>3, <3>4 DEF AckInv, KeyServed
  <2> HIDE DEF r
  <2> QED BY <1>1, <1>3, <1>4, <2>1, <2>2, <2>3, <2>4, <2>5 DEF SendKnown
<1> HIDE DEF r
<1> QED BY <1>1, <1>3, <1>4, <1>6, <1>7, AckStep

LEMMA FailedAck ==
  ASSUME RInv, KInv, AckInv, NEW a \in Actors,
         Refused(a) \/ ReplyLost(a) \/ Abandoned(a)
  PROVE  AckInv'
<1>1. /\ UNCHANGED <<job, at, leg, acked>>
      /\ reply' \in {reply, [reply EXCEPT ![a] = "threw"]}
  BY DEF Refused, ReplyLost, Abandoned, Retry, seenOutside
<1>2. \A b \in Actors : Unaware(b)
  BY <1>1 DEF KInv, Domains, Unaware
<1>3. SuccessFits(Request(a))
  BY AskedSuccess
<1>4. \A l \in late' : l \in late \/ SuccessFits(l.request)
  BY <1>3 DEF Refused, ReplyLost, Abandoned
<1>5. CASE Refused(a) \/ Abandoned(a)
  <2>1. UNCHANGED <<row, messages>>
    BY <1>5 DEF Refused, Abandoned, backend
  <2> QED BY <1>1, <1>2, <1>4, <2>1, AckStep DEF Delivered
<1>6. CASE ReplyLost(a)
  <2>1. Effect(Request(a))
    BY <1>6 DEF ReplyLost
  <2>2. \A m : Delivered(m) => Delivered(m)'
    BY <2>1, EffectAdds, AddsDelivers DEF RInv
  <2>3. \A k \in Rows : row'[k] = "SUCCESS" => row[k] = "SUCCESS" \/ KeyServed(k)
    BY <1>3, <2>1, Successes DEF Effect, SuccessFits
  <2> QED BY <1>1, <1>2, <1>4, <2>2, <2>3, AckStep
<1> QED BY <1>5, <1>6

-----------------------------------------------------------------------------
(* The handlers. *)
LEMMA NoOutput ==
  ASSUME KInv, NEW a \in Actors, NEW i \in Nat, i >= 1, FirstLeg(a, i) = "output"
  PROVE  InWorkflow(a)
<1>1. Len(job.script[a]) \in Nat
  BY LenProperties DEF KInv, IsJob
<1>2. i \in 1..Len(job.script[a])
  BY <1>1 DEF FirstLeg
<1>3. job.script[a][i] \in Calls /\ Allowed(job, a, job.script[a][i])
  BY <1>2, ScriptCalls DEF KInv
<1>4. job.script[a][i].op = "return"
  BY <1>1, <1>2, <1>3 DEF FirstLeg, Calls
<1> QED BY <1>3, <1>4 DEF Allowed, InWorkflow

LEMMA GoesUnaware ==
  ASSUME KInv, NEW a \in Actors, Busy(a)
  PROVE  /\ \A i, l, m : Enter(a, i, l, m) /\ l # "output" =>
              \A b \in Actors : Unaware(b)
         /\ \A l : AskFor(a, l) /\ l # "output" => \A b \in Actors : Unaware(b)
         /\ Proceed(a) => \A b \in Actors : Unaware(b)
         /\ Over(a) => \A b \in Actors : Unaware(b)
         /\ Fail(a) => \A b \in Actors : Unaware(b)
<1>1. \A i, l, m : Enter(a, i, l, m) /\ (l = "output" => InWorkflow(a)) =>
        \A b \in Actors : Unaware(b)
  BY DEF Enter, Unaware, KInv, Domains
<1>2. \A l : AskFor(a, l) /\ l # "output" => \A b \in Actors : Unaware(b)
  BY <1>1 DEF AskFor
<1>3. Proceed(a) => \A b \in Actors : Unaware(b)
  BY <1>1, BusyPlace, NoOutput DEF Proceed
<1>4. Over(a) => \A b \in Actors : Unaware(b)
  BY <1>1 DEF Over
<1>5. Fail(a) => \A b \in Actors : Unaware(b)
  BY <1>2, <1>3, <1>4 DEF Fail
<1> QED BY <1>1, <1>2, <1>3, <1>4, <1>5

LEMMA UnawareAck ==
  ASSUME KInv, AckInv, \A b \in Actors : Unaware(b),
         UNCHANGED <<job, backend, late>>,
         \A m \in acked' : m \in acked \/ (HasItsKey(m) => Delivered(m))
  PROVE  AckInv'
<1>1. UNCHANGED <<row, messages>>
  BY DEF backend
<1>2. \A m : Delivered(m) => Delivered(m)'
  BY <1>1 DEF Delivered
<1> QED BY <1>1, <1>2, AckStep

LEMMA SendAck ==
  ASSUME KInv, AckInv, NEW a \in Actors, SendAnswered(a)
  PROVE  AckInv'
<1>1. /\ leg[a] = "send" /\ reply[a] # "none" /\ Busy(a)
      /\ UNCHANGED <<job, backend, late>>
  BY DEF SendAnswered, Answered, Busy
<1>2. ~ Threw(a) => Delivered(Call(a).body)
  BY <1>1 DEF AckInv, SendKnown, Threw
<1>3. \A m \in acked' : m \in acked \/ (HasItsKey(m) => Delivered(m))
  BY <1>2 DEF SendAnswered, Acked
<1>4. CASE ~ Threw(a) /\ Call(a).op = "sendOnce"
  <2>1. Enter(a, at[a], "output", Nothing)
    BY <1>4 DEF SendAnswered, AskFor
  <2>2. UNCHANGED <<row, messages>>
    BY <1>1 DEF backend
  <2>3. \A m : Delivered(m) => Delivered(m)'
    BY <2>2 DEF Delivered
  <2>4. \A b \in Actors : b # a => Unaware(b)
    BY <2>1 DEF Enter, Unaware, KInv, Domains
  <2>5. Call(a)' = Call(a) /\ leg'[a] = "output"
    BY <1>1, <2>1 DEF Enter, Call, KInv, Domains
  <2>6. SendKnown(a)'
    BY <1>2, <1>4, <2>3, <2>5 DEF SendKnown
  <2> QED BY <1>1, <1>3, <2>2, <2>3, <2>4, <2>6, AckStep
<1>5. CASE Threw(a) \/ Call(a).op # "sendOnce"
  <2>1. \A b \in Actors : Unaware(b)
    BY <1>1, <1>5, GoesUnaware DEF SendAnswered
  <2> QED BY <1>1, <1>3, <2>1, UnawareAck
<1> QED BY <1>4, <1>5

LEMMA AwaitAck ==
  ASSUME KInv, AckInv, NEW a \in Actors, AwaitAnswered(a) \/ ResultAnswered(a)
  PROVE  AckInv'
<1>1. UNCHANGED <<job, backend, late>> /\ Busy(a)
  BY DEF AwaitAnswered, ResultAnswered, Answered, Busy
<1>2. \A b \in Actors : Unaware(b)
  BY <1>1, GoesUnaware DEF AwaitAnswered, ResultAnswered
<1>3. \A m \in acked' : m \in acked \/ (HasItsKey(m) => Delivered(m))
  <2>1. CASE AwaitAnswered(a)
    BY <2>1 DEF AwaitAnswered, Answered, Acked, AckInv, SendKnown
  <2>2. CASE ResultAnswered(a)
    BY <2>2 DEF ResultAnswered, Answered, Acked, AckInv, SendKnown
  <2> QED BY <2>1, <2>2
<1> QED BY <1>1, <1>2, <1>3, UnawareAck

LEMMA StreamAck ==
  ASSUME KInv, AckInv, NEW a \in Actors, StreamAnswered(a)
  PROVE  AckInv'
<1>1. UNCHANGED <<job, backend, late>> /\ Busy(a)
  BY DEF StreamAnswered, Answered, Busy
<1>2. \A b \in Actors : Unaware(b)
  BY <1>1, GoesUnaware DEF StreamAnswered
<1>3. leg[a] = "write" => ~ HasItsKey(Call(a).body)
  <2> SUFFICES ASSUME leg[a] = "write" PROVE ~ HasItsKey(Call(a).body)
    OBVIOUS
  <2>1. Call(a).op = "write"
    BY SMTT(30), <1>1, BusyPlace, StageOps DEF KInv, Call
  <2>2. Call(a) \in AllCalls
    BY <1>1, CallIsOne
  <2> QED BY <2>1, <2>2 DEF HasItsKey
<1>4. \A m \in acked' : m \in acked \/ (HasItsKey(m) => Delivered(m))
  BY <1>3 DEF StreamAnswered, Acked
<1> QED BY <1>1, <1>2, <1>4, UnawareAck

LEMMA OtherAck ==
  ASSUME KInv, AckInv, NEW a \in Actors, Handle(a), ~ SendAnswered(a),
         ~ AwaitAnswered(a), ~ ResultAnswered(a), ~ StreamAnswered(a)
  PROVE  AckInv'
<1>1. UNCHANGED <<job, backend, late, acked>> /\ Busy(a)
  BY DEF Handle, CreateAnswered, RecvAnswered, StopsCancelled, EventAnswered,
         GetOpAnswered, ManageAnswered, PutOpAnswered, PutErrorAnswered,
         SweepPending, SweepEnqueued, Answered, seenOutside, Busy, Asking
<1> SUFFICES \A b \in Actors : Unaware(b)
  BY <1>1, UnawareAck
<1> USE GoesUnaware DEF Answered
<1>2. CASE CreateAnswered(a) \/ StopsCancelled(a) \/ EventAnswered(a)
  BY <1>1, <1>2 DEF CreateAnswered, StopsCancelled, EventAnswered
<1>3. CASE RecvAnswered(a)
  <2>1. Exit(a) => \A b \in Actors : Unaware(b)
    BY DEF Exit, Unaware
  <2> QED BY <1>1, <1>3, <2>1 DEF RecvAnswered
<1>4. CASE GetOpAnswered(a)
  <2>1. Call(a).op # "output"
    BY <1>1, CallIsOne DEF Calls
  <2> QED BY <1>1, <1>4, <2>1 DEF GetOpAnswered
<1>5. CASE ManageAnswered(a) \/ PutOpAnswered(a) \/ PutErrorAnswered(a)
  BY <1>1, <1>5 DEF ManageAnswered, PutOpAnswered, PutErrorAnswered
<1>6. CASE SweepPending(a) \/ SweepEnqueued(a)
  BY <1>1, <1>6 DEF SweepPending, SweepEnqueued, Sweep
<1> QED BY <1>2, <1>3, <1>4, <1>5, <1>6 DEF Handle

LEMMA NextAck == RInv /\ KInv /\ AckInv /\ [Next]_vars => AckInv'
<1> SUFFICES ASSUME RInv, KInv, AckInv, [Next]_vars PROVE AckInv'
  OBVIOUS
<1>1. CASE UNCHANGED vars
  BY <1>1, UnawareAck DEF vars, control, seenOutside, Unaware
<1>2. CASE \E a \in Actors : Attempt(a) \/ Handle(a)
  BY <1>2, ServeAck, FailedAck, SendAck, AwaitAck, StreamAck, OtherAck DEF Attempt
<1>3. CASE \E a \in Actors : Wake(a)
  <2>1. PICK a \in Actors : Wake(a)
    BY <1>3
  <2>2. \A b \in Actors : Unaware(b)
    BY <2>1, NoOutput DEF Wake, Enter, Unaware, KInv, Domains
  <2> QED BY <2>1, <2>2, UnawareAck DEF Wake, seenOutside
<1>4. CASE \E l \in late : Arrive(l)
  <2>1. PICK l \in late : Arrive(l)
    BY <1>4
  <2>2. /\ SuccessFits(l.request) /\ Effect(l.request) /\ late' \subseteq late
        /\ UNCHANGED <<job, at, leg, reply, acked>>
    BY <2>1 DEF Arrive, AckInv, control, seenOutside
  <2>3. \A m : Delivered(m) => Delivered(m)'
    BY <2>2, EffectAdds, AddsDelivers DEF RInv
  <2>4. \A k \in Rows : row'[k] = "SUCCESS" => row[k] = "SUCCESS" \/ KeyServed(k)
    BY <2>2, Successes DEF Effect, SuccessFits
  <2>5. \A b \in Actors : Unaware(b)
    BY <2>2 DEF Unaware
  <2> QED BY <2>2, <2>3, <2>4, <2>5, AckStep
<1>5. CASE \E w \in Rows : Dequeue(w)
  <2>1. PICK w \in Rows : Dequeue(w)
    BY <1>5
  <2>2. UNCHANGED <<job, messages, late, at, leg, reply, acked>>
    BY <2>1 DEF Dequeue, control, seenOutside
  <2>3. \A k \in Rows : row'[k] = "SUCCESS" => row[k] = "SUCCESS"
    BY <2>1 DEF Dequeue, KInv, StoreFits
  <2>4. \A m : Delivered(m) => Delivered(m)'
    BY <2>2 DEF Delivered
  <2>5. \A b \in Actors : Unaware(b)
    BY <2>2 DEF Unaware
  <2> QED BY <2>2, <2>3, <2>4, <2>5, AckStep
<1>6. CASE \E p \in Procs : Crash(p)
  <2>1. PICK p \in Procs : Crash(p)
    BY <1>6
  <2>2. UNCHANGED <<job, backend, late, acked>>
    BY <2>1 DEF Crash, seenOutside
  <2>3. \A b \in Actors : ~ InWorkflow(b) => Recovered(b) # "output"
    BY DEF Recovered
  <2>4. \A b \in Actors : Unaware(b)
    BY <2>1, <2>3 DEF Crash, Unaware
  <2> QED BY <2>2, <2>4, UnawareAck
<1>7. CASE \E w \in Rows : \E i \in 1..MaxCalls : TimeOut(w, i)
  <2>1. UNCHANGED <<job, row, messages, late, at, leg, reply, acked>>
    BY <1>7 DEF TimeOut, control, seenOutside
  <2>2. \A b \in Actors : Unaware(b)
    BY <2>1 DEF Unaware
  <2>3. \A m : Delivered(m) => Delivered(m)'
    BY <2>1 DEF Delivered
  <2> QED BY <2>1, <2>2, <2>3, AckStep
<1> QED BY <1>1, <1>2, <1>3, <1>4, <1>5, <1>6, <1>7 DEF Next

LEMMA InitAck == Init => AckInv
<1> SUFFICES ASSUME Init PROVE AckInv
  OBVIOUS
<1>1. IsJob(job) /\ row = job.row /\ late = {} /\ acked = {}
      /\ \A a \in Actors : reply[a] = "none" /\ leg[a] = FirstLeg(a, 1)
  BY DEF Init
<1>2. \A k \in Rows : row[k] # "SUCCESS"
  BY <1>1 DEF IsJob
<1>3. \A a \in Actors : leg[a] = "output" => InWorkflow(a)
  BY <1>1, NoOutput, InitKInv
<1> QED BY <1>1, <1>2, <1>3 DEF AckInv, SendKnown

-----------------------------------------------------------------------------
(* While nothing fails, what has one sender is sent once. *)

(* The sites of a message are one call, or calls under one key. *)
LEMMA OneSite ==
  ASSUME KInv, NEW m, HasOneSender(m), NEW a \in Actors, Busy(a),
         Call(a).op \in Sends, Call(a).body = m,
         NEW b \in Actors, NEW i \in DOMAIN job.script[b],
         job.script[b][i].op \in Sends, job.script[b][i].body = m
  PROVE  \/ a = b /\ at[a] = i
         \/ /\ Call(a).op = "sendOnce" /\ job.script[b][i].op = "sendOnce"
            /\ Call(a).temp = job.script[b][i].temp
BY CallIsOne DEF HasOneSender, Call

LEMMA SitesStay ==
  ASSUME UNCHANGED job
  PROVE  \A m : HasOneSender(m)' <=> HasOneSender(m)
BY DEF HasOneSender

(* The row of a key. *)
LEMMA KeyRows ==
  ASSUME KInv, NEW a \in Actors, NEW i \in DOMAIN job.script[a],
         job.script[a][i].op = "sendOnce"
  PROVE  job.script[a][i].temp \in Rows
<1>1. i \in 1..Len(job.script[a])
  BY LenProperties DEF KInv, IsJob
<1> QED BY <1>1, ScriptCalls DEF KInv, Allowed

(* No actor comes to send m, and no message m is added. *)
LEMMA StillBefore ==
  ASSUME KInv, UNCHANGED job, NEW m, SentBefore(m),
         \A i \in DOMAIN messages' : messages'[i].body = m =>
           i \in DOMAIN messages /\ messages[i].body = m,
         \A w \in Rows : row[w] # "absent" => row'[w] # "absent",
         \A a \in Actors : at'[a] = at[a] /\ (Ready(a, m)' => Ready(a, m))
  PROVE  SentBefore(m)'
<1>1. Delivered(m)' => Delivered(m)
  BY DEF Delivered
<1>2. \A a \in Actors : \A i \in DOMAIN job.script[a] :
        job.script[a][i].op = "sendOnce" => job.script[a][i].temp \in Rows
  BY KeyRows
<1> QED BY <1>1, <1>2 DEF SentBefore

(* An actor comes to its next call, or to its end. *)
Steps(a) ==
  /\ Busy(a) /\ reply'[a] = "none"
  /\ at'[a] \in Nat /\ at'[a] > at[a]
  /\ leg'[a] = "over" \/ (leg'[a] = FirstLeg(a, at'[a]) /\ at'[a] \in DOMAIN job.script[a])

Waits(a) == at'[a] = at[a] /\ \A m : Ready(a, m)' => Ready(a, m)

LEMMA StepBefore ==
  ASSUME KInv, UNCHANGED <<job, row, messages>>, NEW m, HasOneSender(m),
         SentBefore(m), NEW a \in Actors, Steps(a),
         \A b \in Actors : b # a => Waits(b)
  PROVE  SentBefore(m)'
<1>1. Delivered(m)' <=> Delivered(m)
  BY DEF Delivered
<1>2. Ready(a, m)' => /\ at'[a] \in DOMAIN job.script[a]
                      /\ job.script[a][at'[a]].op \in Sends \ {"sendOnce"}
                      /\ job.script[a][at'[a]].body = m
  <2> SUFFICES ASSUME Ready(a, m)'
               PROVE  /\ at'[a] \in DOMAIN job.script[a]
                      /\ job.script[a][at'[a]].op \in Sends \ {"sendOnce"}
                      /\ job.script[a][at'[a]].body = m
    OBVIOUS
  <2>1. /\ at'[a] \in DOMAIN job.script[a] /\ leg'[a] = FirstLeg(a, at'[a])
        /\ Call(a)' = job.script[a][at'[a]] /\ reply'[a] = "none"
    BY DEF Ready, Steps, Busy, Call
  <2>2. at'[a] \in 1..Len(job.script[a])
    BY <2>1, LenProperties DEF KInv, IsJob
  <2>3. ~ (at'[a] > Len(job.script[a]))
    BY <2>2, LenProperties DEF KInv, IsJob
  <2>4. Call(a)'.op = "sendOnce" => leg'[a] = "create"
    BY <2>1, <2>3 DEF FirstLeg
  <2> QED BY <2>1, <2>4 DEF Ready
<1>3. Delivered(m) => ~ Ready(a, m)'
  <2> SUFFICES ASSUME Delivered(m), Ready(a, m)' PROVE FALSE
    OBVIOUS
  <2>1. at[a] >= at'[a]
    BY <1>2 DEF SentBefore
  <2> QED BY <2>1, BusyPlace DEF Steps
<1>4. \A b \in Actors : Ready(a, m)' /\ Ready(b, m) => b = a
  <2> SUFFICES ASSUME NEW b \in Actors, Ready(a, m)', Ready(b, m) PROVE b = a
    OBVIOUS
  <2> QED BY <1>2, OneSite DEF Ready
<1>5. \A b \in Actors : Ready(b, m)' => Ready(b, m) \/ b = a
  BY DEF Waits
<1>6. \A b \in Actors : \A i \in DOMAIN job.script[b] :
        job.script[b][i].op = "sendOnce" /\ job.script[b][i].body = m
          => ~ Ready(a, m)'
  <2> SUFFICES ASSUME NEW b \in Actors, NEW i \in DOMAIN job.script[b],
                      job.script[b][i].op = "sendOnce", job.script[b][i].body = m,
                      Ready(a, m)'
               PROVE  FALSE
    OBVIOUS
  <2> QED BY <1>2 DEF HasOneSender, Sends, Keyed
<1>7. \A b \in Actors : \A i \in DOMAIN job.script[b] : at[b] >= i => at'[b] >= i
  <2> SUFFICES ASSUME NEW b \in Actors, NEW i \in DOMAIN job.script[b], at[b] >= i
               PROVE  at'[b] >= i
    OBVIOUS
  <2>1. CASE b # a
    BY <2>1 DEF Waits
  <2>2. CASE b = a
    <3>1. i \in Nat
      BY LenProperties DEF KInv, IsJob
    <3> QED BY <2>2, <3>1, BusyPlace DEF Steps
  <2> QED BY <2>1, <2>2
<1>8. \A i, j \in DOMAIN messages' :
        messages'[i].body = m /\ messages'[j].body = m => i = j
  BY DEF SentBefore
<1>9. Delivered(m) => \A b \in Actors : ~ Ready(b, m)'
  BY <1>3, <1>5 DEF SentBefore
<1>10. \A b, c \in Actors : Ready(b, m)' /\ Ready(c, m)' => b = c
  BY <1>4, <1>5 DEF SentBefore
<1>11. \A b \in Actors : \A i \in DOMAIN job.script[b] :
         job.script[b][i].op \in Sends /\ job.script[b][i].body = m =>
           IF job.script[b][i].op = "sendOnce"
           THEN row[job.script[b][i].temp] = "absent" =>
                  ~ Delivered(m) /\ \A c \in Actors : ~ Ready(c, m)'
           ELSE Delivered(m) => at'[b] >= i
  BY <1>5, <1>6, <1>7 DEF SentBefore
<1> QED BY <1>1, <1>8, <1>9, <1>10, <1>11 DEF SentBefore

(* The request that adds a message is that of a send. *)
LEMMA SendRequest ==
  ASSUME KInv, NEW a \in Actors
  PROVE  /\ Request(a).kind = "send" <=> leg[a] = "send"
         /\ leg[a] = "send" => Request(a).body = Call(a).body
<1>1. leg[a] = "send" => Request(a).kind = "send" /\ Request(a).body = Call(a).body
  BY DEF Request, Ask
<1>2. leg[a] # "send" => Request(a).kind # "send"
  BY DEF Request, Ask
<1> QED BY <1>1, <1>2

LEMMA AnswerIsOne ==
  ASSUME NEW r
  PROVE  Answer(r) # "none"
BY DEF Answer, ReadAnswer

(* m is sent. *)
LEMMA SendBefore ==
  ASSUME KInv, UNCHANGED <<job, at, leg>>, NEW m, HasOneSender(m), SentBefore(m),
         NEW a \in Actors, leg[a] = "send", Busy(a), reply[a] = "none",
         reply'[a] # "none", Call(a).body = m,
         \A b \in Actors : b # a => reply'[b] = reply[b],
         \A w \in Rows : row[w] # "absent" => row'[w] # "absent",
         \A i \in DOMAIN messages' : i \notin DOMAIN messages =>
           i = Len(messages) + 1,
         \A i \in DOMAIN messages :
           i \in DOMAIN messages' /\ messages'[i].body = messages[i].body
  PROVE  SentBefore(m)'
<1>1. Call(a).op \in Sends
  <2>1. at[a] \in 1..Len(job.script[a]) /\ "send" \in Stages(a, at[a])
    BY BusyPlace
  <2> QED BY <2>1, StageOps DEF KInv, Call
<1>2. Ready(a, m)
  BY <1>1 DEF Ready
<1>3. ~ Delivered(m)
  BY <1>2 DEF SentBefore
<1>4. \A i \in DOMAIN messages' : messages'[i].body = m => i = Len(messages) + 1
  BY <1>3 DEF Delivered
<1>5. \A b \in Actors : Busy(b)' = Busy(b) /\ Call(b)' = Call(b)
  BY DEF Busy, Call
<1>6. \A b \in Actors : ~ Ready(b, m)'
  <2> SUFFICES ASSUME NEW b \in Actors, Ready(b, m)' PROVE FALSE
    OBVIOUS
  <2>1. CASE b = a
    BY <2>1 DEF Ready
  <2>2. CASE b # a
    <3>1. Ready(b, m)
      BY <1>5, <2>2 DEF Ready
    <3> QED BY <1>2, <2>2, <3>1 DEF SentBefore
  <2> QED BY <2>1, <2>2
<1>7. \A b \in Actors : \A i \in DOMAIN job.script[b] :
        job.script[b][i].op \in Sends /\ job.script[b][i].body = m =>
          IF job.script[b][i].op = "sendOnce"
          THEN row'[job.script[b][i].temp] # "absent"
          ELSE at'[b] >= i
  <2> SUFFICES ASSUME NEW b \in Actors, NEW i \in DOMAIN job.script[b],
                      job.script[b][i].op \in Sends, job.script[b][i].body = m
               PROVE  IF job.script[b][i].op = "sendOnce"
                      THEN row'[job.script[b][i].temp] # "absent"
                      ELSE at'[b] >= i
    OBVIOUS
  <2>1. CASE job.script[b][i].op = "sendOnce"
    <3>1. row[job.script[b][i].temp] # "absent"
      BY <1>2, <2>1 DEF SentBefore
    <3> QED BY <2>1, <3>1, KeyRows
  <2>2. CASE job.script[b][i].op # "sendOnce"
    <3>1. a = b /\ at[a] = i
      BY <1>1, <2>2, OneSite
    <3> QED BY <2>2, <3>1, BusyPlace
  <2> QED BY <2>1, <2>2
<1> QED BY <1>4, <1>6, <1>7 DEF SentBefore

(* Whoever creates the row of the key is the one to send m. *)
LEMMA CreateBefore ==
  ASSUME KInv, UNCHANGED <<job, at, leg>>, NEW m, HasOneSender(m), SentBefore(m),
         NEW a \in Actors, Busy(a), Call(a).op = "sendOnce", Call(a).body = m,
         row[Call(a).temp] = "absent", row'[Call(a).temp] # "absent",
         \A b \in Actors : b # a => reply'[b] = reply[b],
         \A i \in DOMAIN messages' : messages'[i].body = m =>
           i \in DOMAIN messages /\ messages[i].body = m
  PROVE  SentBefore(m)'
<1>1. /\ at[a] \in DOMAIN job.script[a] /\ Call(a).op \in Sends
      /\ Call(a) = job.script[a][at[a]]
  BY CallIsOne DEF Sends, Keyed, Call
<1>2. ~ Delivered(m) /\ \A b \in Actors : ~ Ready(b, m)
  BY <1>1 DEF SentBefore
<1>3. ~ Delivered(m)'
  BY <1>2 DEF Delivered
<1>4. \A b \in Actors : Busy(b)' = Busy(b) /\ Call(b)' = Call(b)
  BY DEF Busy, Call
<1>5. \A b \in Actors : Ready(b, m)' => b = a
  BY <1>2, <1>4 DEF Ready
<1>6. \A b \in Actors : \A i \in DOMAIN job.script[b] :
        job.script[b][i].op = "sendOnce" /\ job.script[b][i].body = m
          => row'[job.script[b][i].temp] # "absent"
  <2> SUFFICES ASSUME NEW b \in Actors, NEW i \in DOMAIN job.script[b],
                      job.script[b][i].op = "sendOnce", job.script[b][i].body = m
               PROVE  row'[job.script[b][i].temp] # "absent"
    OBVIOUS
  <2>1. job.script[b][i].temp = Call(a).temp
    BY <1>1, OneSite DEF Sends, Keyed
  <2> QED BY <2>1
<1> QED BY <1>3, <1>5, <1>6 DEF SentBefore, Delivered

LEMMA ServeBefore ==
  ASSUME RInv, KInv, NEW m, HasOneSender(m), SentBefore(m),
         NEW a \in Actors, Serve(a)
  PROVE  SentBefore(m)'
<1> DEFINE r == Request(a)
<1>1. /\ Effect(r) /\ reply[a] = "none" /\ Busy(a)
      /\ reply' = [reply EXCEPT ![a] = Answer(r)] /\ UNCHANGED <<job, at, leg>>
  BY DEF Serve, Asking, Busy
<1>2. Adds(r)
  BY <1>1, EffectAdds DEF RInv
<1>3. \A w \in Rows : row[w] # "absent" => row'[w] # "absent"
  BY <1>1, AskedFits, EffectKept DEF Kept
<1>4. /\ reply'[a] = Answer(r) /\ reply'[a] # "none"
      /\ \A b \in Actors : b # a => reply'[b] = reply[b]
  BY <1>1, AnswerIsOne DEF KInv, Domains
<1>5. /\ r.kind = "send" <=> leg[a] = "send"
      /\ leg[a] = "send" => r.body = Call(a).body
  BY SendRequest
<1> DEFINE creates == leg[a] = "create" /\ Call(a).op = "sendOnce" /\ Answer(r) = "ok"
<1>6. ASSUME creates
      PROVE  row[Call(a).temp] = "absent" /\ row'[Call(a).temp] # "absent"
  <2>1. r.kind = "create" /\ r.wf = Call(a).temp /\ r.status = "PENDING"
    BY <1>6 DEF Request, Ask
  <2>2. Call(a).temp \in Rows /\ DOMAIN row = Rows
    BY <1>1, <1>6, CallIsOne DEF Allowed, KInv, StoreFits
  <2>3. ~ Exists(r.wf) /\ row' = CreateWorkflow(r)
    BY <1>1, <1>6, <2>1 DEF Answer, Effect, RowAfter
  <2> HIDE DEF r
  <2> QED BY <2>1, <2>2, <2>3 DEF CreateWorkflow, Exists
<1> HIDE DEF r
<1>7. \A b \in Actors : Busy(b)' = Busy(b) /\ Call(b)' = Call(b)
  BY <1>1 DEF Busy, Call
<1>8. CASE leg[a] = "send" /\ Call(a).body = m
  BY <1>1, <1>2, <1>3, <1>4, <1>8, SendBefore DEF Adds
<1>9. CASE leg[a] # "send" \/ Call(a).body # m
  <2>1. \A i \in DOMAIN messages' : messages'[i].body = m =>
          i \in DOMAIN messages /\ messages[i].body = m
    BY <1>2, <1>5, <1>9 DEF Adds
  <2>2. CASE creates /\ Call(a).body = m
    BY <1>1, <1>4, <1>6, <2>1, <2>2, CreateBefore
  <2>3. CASE ~ (creates /\ Call(a).body = m)
    <3>1. \A b \in Actors : at'[b] = at[b] /\ (Ready(b, m)' => Ready(b, m))
      <4>1. leg[a] = "create" => Call(a).op \in Keyed
        BY SMTT(30), <1>1, BusyPlace, StageOps DEF KInv, Call
      <4>2. \A b \in Actors : b # a => (Ready(b, m)' => Ready(b, m))
        BY <1>1, <1>4, <1>7 DEF Ready
      <4>3. Ready(a, m)' => Ready(a, m)
        BY <1>1, <1>4, <1>7, <2>3, <4>1 DEF Ready, Keyed
      <4> QED BY <1>1, <4>2, <4>3
    <3> QED BY <1>1, <1>3, <2>1, <3>1, StillBefore
  <2> QED BY <2>2, <2>3
<1> QED BY <1>8, <1>9

-----------------------------------------------------------------------------
(* The handlers: nobody but who goes to its next call comes to send. *)
Onward(a) ==
  /\ \A b \in Actors : b # a => Waits(b)
  /\ Waits(a) \/ Steps(a)

LEMMA EnterOnward ==
  ASSUME KInv, UNCHANGED job, NEW a \in Actors, Busy(a), NEW i, NEW l, NEW m,
         Enter(a, i, l, m)
  PROVE  /\ i = at[a] /\ l \notin {"send", "create"} => Onward(a)
         /\ i \in Nat /\ i > at[a] /\ (l = "over" \/
               (l = FirstLeg(a, i) /\ i \in DOMAIN job.script[a])) => Onward(a)
<1>1. /\ at'[a] = i /\ leg'[a] = l /\ reply'[a] = "none"
      /\ \A b \in Actors : b # a => /\ at'[b] = at[b] /\ leg'[b] = leg[b]
                                    /\ reply'[b] = reply[b]
  BY DEF Enter, KInv, Domains
<1>2. \A b \in Actors : b # a => Waits(b)
  BY <1>1 DEF Waits, Ready, Busy, Call
<1>3. i = at[a] /\ l \notin {"send", "create"} => Waits(a)
  BY <1>1 DEF Waits, Ready
<1>4. i \in Nat /\ i > at[a] /\ (l = "over" \/
        (l = FirstLeg(a, i) /\ i \in DOMAIN job.script[a])) => Steps(a)
  BY <1>1 DEF Steps
<1> QED BY <1>2, <1>3, <1>4 DEF Onward

LEMMA GoesOnward ==
  ASSUME KInv, UNCHANGED job, NEW a \in Actors, Busy(a)
  PROVE  /\ \A l, m : Enter(a, at[a], l, m) /\ l \notin {"send", "create"} => Onward(a)
         /\ \A l : AskFor(a, l) /\ l \notin {"send", "create"} => Onward(a)
         /\ Proceed(a) => Onward(a)
         /\ Over(a) => Onward(a)
         /\ Fail(a) => Onward(a)
<1>1. \A l, m : Enter(a, at[a], l, m) /\ l \notin {"send", "create"} => Onward(a)
  BY EnterOnward
<1>2. \A l : AskFor(a, l) /\ l \notin {"send", "create"} => Onward(a)
  BY <1>1 DEF AskFor
<1>3. Proceed(a) => Onward(a)
  <2> DEFINE i == at[a] + 1
  <2>1. /\ i \in Nat /\ i > at[a] /\ Len(job.script[a]) \in Nat
        /\ DOMAIN job.script[a] = 1..Len(job.script[a])
    BY BusyPlace, LenProperties DEF KInv, IsJob
  <2>2. FirstLeg(a, i) = "over" \/ i \in DOMAIN job.script[a]
    <3>1. i > Len(job.script[a]) => FirstLeg(a, i) = "over"
      BY DEF FirstLeg
    <3> QED BY <2>1, <3>1, BusyPlace
  <2> HIDE DEF i
  <2>3. Enter(a, i, FirstLeg(a, i), Nothing) => Onward(a)
    BY <2>1, <2>2, EnterOnward
  <2> QED BY <2>3 DEF Proceed, i
<1>4. Over(a) => Onward(a)
  <2>1. Len(job.script[a]) + 1 \in Nat /\ Len(job.script[a]) + 1 > at[a]
    BY BusyPlace, LenProperties DEF KInv, IsJob
  <2> QED BY <2>1, EnterOnward DEF Over
<1>5. Fail(a) => Onward(a)
  BY <1>2, <1>3, <1>4 DEF Fail
<1> QED BY <1>1, <1>2, <1>3, <1>4, <1>5

LEMMA CreateOnward ==
  ASSUME KInv, NEW a \in Actors, CreateAnswered(a)
  PROVE  Onward(a)
<1>1. leg[a] = "create" /\ reply[a] # "none" /\ Busy(a) /\ UNCHANGED job
  BY DEF CreateAnswered, Answered, Busy
<1>2. CASE Threw(a) \/ (Call(a).op = "sendOnce" /\ reply[a] = "exists")
  BY <1>1, <1>2, GoesOnward DEF CreateAnswered
<1>3. CASE ~ Threw(a) /\ ~ (Call(a).op = "sendOnce" /\ reply[a] = "exists")
  <2>1. Enter(a, at[a], "send", Nothing)
    BY <1>3 DEF CreateAnswered, AskFor
  <2>2. /\ at'[a] = at[a]
        /\ \A b \in Actors : b # a => /\ at'[b] = at[b] /\ leg'[b] = leg[b]
                                      /\ reply'[b] = reply[b]
    BY <2>1 DEF Enter, KInv, Domains
  <2>3. Call(a).op \in Keyed
    BY SMTT(30), <1>1, BusyPlace, StageOps DEF KInv, Call
  <2>4. reply[a] \in {"ok", "exists"}
    BY <1>1, <1>3 DEF KInv, Learned, Threw
  <2>5. \A m : Ready(a, m)' => Ready(a, m)
    BY <1>1, <1>3, <2>2, <2>3, <2>4 DEF Ready, Call, Keyed
  <2>6. \A b \in Actors : b # a => Waits(b)
    BY <1>1, <2>2 DEF Waits, Ready, Busy, Call
  <2> QED BY <2>2, <2>5, <2>6 DEF Onward, Waits
<1> QED BY <1>2, <1>3

LEMMA HandleOnward ==
  ASSUME KInv, NEW a \in Actors, Handle(a)
  PROVE  Onward(a)
<1>1. UNCHANGED job /\ Busy(a)
  BY DEF Handle, SendAnswered, CreateAnswered, AwaitAnswered, ResultAnswered,
         RecvAnswered, StopsCancelled, EventAnswered, StreamAnswered,
         GetOpAnswered, ManageAnswered, PutOpAnswered, PutErrorAnswered,
         SweepPending, SweepEnqueued, Answered, Busy, Asking
<1>2. CASE CreateAnswered(a)
  BY <1>2, CreateOnward
<1> USE GoesOnward DEF Answered
<1>3. CASE SendAnswered(a) \/ AwaitAnswered(a) \/ ResultAnswered(a) \/ StopsCancelled(a)
  BY <1>1, <1>3 DEF SendAnswered, AwaitAnswered, ResultAnswered, StopsCancelled
<1>4. CASE EventAnswered(a) \/ StreamAnswered(a)
  BY <1>1, <1>4 DEF EventAnswered, StreamAnswered
<1>5. CASE RecvAnswered(a)
  <2>1. Exit(a) => Onward(a)
    BY <1>1 DEF Exit, Onward, Waits, Ready, Busy, Call
  <2> QED BY SMTT(30), <1>1, <1>5, <2>1 DEF RecvAnswered
<1>6. CASE GetOpAnswered(a)
  <2>1. Call(a).op \in {"cancel", "resume", "fork"}
    BY SMTT(30), <1>1, <1>6, BusyPlace, StageOps DEF KInv, Call, GetOpAnswered, Recording
  <2> QED BY <1>1, <1>6, <2>1 DEF GetOpAnswered
<1>7. CASE ManageAnswered(a) \/ PutOpAnswered(a) \/ PutErrorAnswered(a)
  BY SMTT(30), <1>1, <1>7 DEF ManageAnswered, PutOpAnswered, PutErrorAnswered
<1>8. CASE SweepPending(a) \/ SweepEnqueued(a)
  BY <1>1, <1>8 DEF SweepPending, SweepEnqueued, Sweep
<1> QED BY <1>2, <1>3, <1>4, <1>5, <1>6, <1>7, <1>8 DEF Handle

LEMMA NextOnce == RInv /\ KInv /\ OnceInv /\ [Next]_vars => OnceInv'
<1> SUFFICES ASSUME RInv, KInv, OnceInv, [Next]_vars PROVE OnceInv'
  OBVIOUS
<1>1. CASE UNCHANGED vars \/ \E w \in Rows : \E i \in 1..MaxCalls : TimeOut(w, i)
  <2>1. UNCHANGED <<job, row, messages, late, at, leg, reply, faults, wakes>>
    BY <1>1 DEF vars, backend, control, TimeOut
  <2>2. \A m : (HasOneSender(m)' <=> HasOneSender(m)) /\ (SentBefore(m)' <=> SentBefore(m))
    BY <2>1 DEF HasOneSender, SentBefore, Delivered, Ready, Busy, Call
  <2> QED BY <2>1, <2>2 DEF OnceInv
<1>2. CASE \E a \in Actors : Serve(a)
  <2>1. PICK a \in Actors : Serve(a)
    BY <1>2
  <2>2. UNCHANGED <<job, late, faults, wakes>>
    BY <2>1 DEF Serve
  <2> QED BY <2>1, <2>2, ServeBefore, SitesStay DEF OnceInv
<1>3. CASE \E a \in Actors : Handle(a)
  <2>1. PICK a \in Actors : Handle(a)
    BY <1>3
  <2>2. UNCHANGED <<job, row, messages, late, faults, wakes>>
    BY <2>1 DEF Handle, SendAnswered, CreateAnswered, AwaitAnswered,
       ResultAnswered, RecvAnswered, StopsCancelled, EventAnswered,
       StreamAnswered, GetOpAnswered, ManageAnswered, PutOpAnswered,
       PutErrorAnswered, SweepPending, SweepEnqueued, Answered, backend
  <2>3. Onward(a)
    BY <2>1, HandleOnward
  <2>4. ASSUME NEW m \in Values, HasOneSender(m), SentBefore(m)
        PROVE  SentBefore(m)'
    <3>1. CASE Steps(a)
      BY <2>2, <2>3, <2>4, <3>1, StepBefore DEF Onward
    <3>2. CASE Waits(a)
      <4>1. \A b \in Actors : Waits(b)
        BY <2>3, <3>2 DEF Onward
      <4> QED BY <2>2, <2>4, <4>1, StillBefore DEF Waits
    <3> QED BY <2>3, <3>1, <3>2 DEF Onward
  <2> QED BY <2>2, <2>4, SitesStay DEF OnceInv
<1>4. CASE \/ \E a \in Actors : Refused(a) \/ ReplyLost(a) \/ Abandoned(a) \/ Wake(a)
           \/ \E p \in Procs : Crash(p)
  <2>1. \/ faults' = faults + 1 /\ wakes' = wakes
        \/ wakes' = wakes + 1 /\ faults' = faults
    BY <1>4 DEF Refused, ReplyLost, Abandoned, Retry, Wake, Crash
  <2> QED BY <2>1 DEF OnceInv
<1>5. CASE \E l \in late : Arrive(l)
  <2>1. PICK l \in late : Arrive(l)
    BY <1>5
  <2>2. UNCHANGED <<faults, wakes>>
    BY <2>1 DEF Arrive
  <2> QED BY <2>1, <2>2 DEF OnceInv
<1>6. CASE \E w \in Rows : Dequeue(w)
  <2>1. PICK w \in Rows : Dequeue(w)
    BY <1>6
  <2>2. UNCHANGED <<job, messages, late, at, leg, reply, faults, wakes>>
    BY <2>1 DEF Dequeue, control
  <2>3. \A k \in Rows : row[k] # "absent" => row'[k] # "absent"
    BY <2>1 DEF Dequeue, KInv, StoreFits
  <2>4. ASSUME NEW m \in Values, SentBefore(m) PROVE SentBefore(m)'
    <3>1. \A b \in Actors : Ready(b, m)' => Ready(b, m)
      BY <2>2 DEF Ready, Busy, Call
    <3> QED BY <2>2, <2>3, <2>4, <3>1, StillBefore
  <2> QED BY <2>2, <2>4, SitesStay DEF OnceInv
<1> QED BY <1>1, <1>2, <1>3, <1>4, <1>5, <1>6 DEF Next, Attempt

LEMMA InitOnce == Init => OnceInv
<1> SUFFICES ASSUME Init PROVE OnceInv
  OBVIOUS
<1>1. /\ KInv /\ late = {} /\ messages = << >> /\ faults = 0 /\ wakes = 0
      /\ row = job.row
      /\ \A a \in Actors : at[a] = 1 /\ leg[a] = FirstLeg(a, 1) /\ reply[a] = "none"
  BY InitKInv DEF Init
<1>2. DOMAIN messages = {}
  BY <1>1
<1>3. \A m : ~ Delivered(m)
  BY <1>2 DEF Delivered
<1>4. ASSUME NEW a \in Actors, NEW m, Ready(a, m)
      PROVE  Call(a).op \in Sends \ {"sendOnce"}
  <2>1. Busy(a) /\ leg[a] = FirstLeg(a, 1) /\ reply[a] = "none" /\ at[a] = 1
    BY <1>1, <1>4 DEF Ready
  <2>2. 1 \in 1..Len(job.script[a]) /\ Len(job.script[a]) \in Nat
    BY <1>1, <2>1, BusyPlace, LenProperties DEF KInv, IsJob
  <2>3. Call(a).op = "sendOnce" => leg[a] = "create"
    BY <2>1, <2>2 DEF FirstLeg, Call
  <2> QED BY <1>4, <2>1, <2>3 DEF Ready
<1>5. ASSUME NEW m \in Values, HasOneSender(m) PROVE SentBefore(m)
  <2>1. \A a, b \in Actors : Ready(a, m) /\ Ready(b, m) => a = b
    <3> SUFFICES ASSUME NEW a \in Actors, NEW b \in Actors, Ready(a, m), Ready(b, m)
                 PROVE  a = b
      OBVIOUS
    <3>1. Busy(b) /\ Call(b).op \in Sends /\ Call(b).body = m
      BY DEF Ready
    <3>2. at[b] \in DOMAIN job.script[b] /\ Call(b) = job.script[b][at[b]]
      BY <1>1, <3>1, CallIsOne DEF Call
    <3> QED BY <1>1, <1>4, <1>5, <3>1, <3>2, OneSite DEF Ready
  <2>2. \A a, b \in Actors : \A i \in DOMAIN job.script[a] :
          job.script[a][i].op = "sendOnce" /\ job.script[a][i].body = m => ~ Ready(b, m)
    <3> SUFFICES ASSUME NEW a \in Actors, NEW b \in Actors,
                        NEW i \in DOMAIN job.script[a],
                        job.script[a][i].op = "sendOnce",
                        job.script[a][i].body = m, Ready(b, m)
                 PROVE  FALSE
      OBVIOUS
    <3>1. /\ Busy(b) /\ Call(b).body = m /\ Call(b).op \in Sends \ {"sendOnce"}
      BY <1>4 DEF Ready
    <3>2. at[b] = i /\ a = b
      BY <1>1, <1>5, <3>1, OneSite DEF Sends, Keyed
    <3> QED BY <3>1, <3>2 DEF Call
  <2> QED BY <1>2, <1>3, <2>1, <2>2 DEF SentBefore
<1> QED BY <1>1, <1>5 DEF OnceInv

(* The count of what is there, and of what is there once. *)
LEMMA CopiesAre ==
  ASSUME MessagesAre, NEW m
  PROVE  /\ Delivered(m) => Copies(m) >= 1
         /\ (\A i, j \in DOMAIN messages :
               messages[i].body = m /\ messages[j].body = m => i = j)
            => Copies(m) <= 1
<1> DEFINE S == {i \in DOMAIN messages : messages[i].body = m}
<1>1. DOMAIN messages = 1..Len(messages) /\ Len(messages) \in Nat
  BY LenProperties DEF MessagesAre
<1>2. IsFiniteSet(S)
  <2>1. IsFiniteSet(1..Len(messages))
    BY <1>1, FS_Interval
  <2> QED BY <1>1, <2>1, FS_Subset
<1>3. Cardinality(S) \in Nat /\ (Cardinality(S) = 0 <=> S = {})
  BY <1>2, FS_CardinalityType, FS_EmptySet
<1>4. Delivered(m) => Cardinality(S) >= 1
  BY <1>3 DEF Delivered
<1>5. (\A i, j \in DOMAIN messages :
         messages[i].body = m /\ messages[j].body = m => i = j)
      => Cardinality(S) <= 1
  <2> SUFFICES ASSUME \A i, j \in DOMAIN messages :
                        messages[i].body = m /\ messages[j].body = m => i = j
               PROVE  Cardinality(S) <= 1
    OBVIOUS
  <2>1. CASE S = {}
    BY <1>3, <2>1
  <2>2. CASE S # {}
    <3>1. PICK i \in S : TRUE
      BY <2>2
    <3>2. S = {i}
      BY <3>1
    <3> HIDE DEF S
    <3>3. Cardinality({i}) = 1
      BY FS_Singleton
    <3> QED BY <3>2, <3>3
  <2> QED BY <2>1, <2>2
<1> QED BY <1>4, <1>5 DEF Copies

(* A send that returns has left its message with the backend, and while    *)
(* nothing fails no message of one sender, or of one key, is there twice   *)
(* (solidactions.ts:1787).                                                 *)
THEOREM MessagesSentOnce == Spec => []SentOnce
<1>1. RInv /\ KInv /\ AckInv /\ OnceInv => SentOnce
  <2> SUFFICES ASSUME RInv, KInv, AckInv, OnceInv, NEW m \in Sent
               PROVE  /\ m \in acked /\ HasItsKey(m) => Copies(m) >= 1
                      /\ faults = 0 /\ wakes = 0 /\ HasOneSender(m)
                           => Copies(m) <= 1
    BY DEF SentOnce
  <2>1. m \in Values
    BY AllAllowed DEF Sent, Values, Calls
  <2>2. /\ Delivered(m) => Copies(m) >= 1
        /\ SentBefore(m) => Copies(m) <= 1
    BY CopiesAre DEF RInv, SentBefore
  <2> QED BY <2>1, <2>2 DEF AckInv, OnceInv
<1>2. RInv /\ KInv /\ AckInv /\ OnceInv /\ [Next]_vars => AckInv' /\ OnceInv'
  BY NextAck, NextOnce
<1>3. Init => AckInv /\ OnceInv
  BY InitAck, InitOnce
<1> QED BY <1>1, <1>2, <1>3, Invariance, InvarianceK, PTL DEF Spec

=============================================================================
