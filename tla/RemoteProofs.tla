---------------------------- MODULE RemoteProofs ----------------------------
(***************************************************************************)
(* Proofs about Remote, for every set of actors, processes and workflows,  *)
(* any scripts, and any number of retries, requests given up and arriving  *)
(* late, crashes and re-dispatches.                                        *)
(*  - A recv of the server's has one result for all executions, no message *)
(*    is received twice, and a receiver's messages come in order.          *)
(*  - A management call made in a workflow returns one and the same result *)
(*    to all executions of it.                                             *)
(*  - The cache of cancellations agrees with the rows while nothing fails. *)
(***************************************************************************)
EXTENDS Remote, SequenceTheorems, WellFoundedInduction, TLAPS

(* A message, whatever it carries. *)
IsMessage(m) ==
  /\ DOMAIN m = {"wf", "body", "consumed"}
  /\ m = [field \in DOMAIN m |-> m[field]]
  /\ m.consumed \in BOOLEAN

MessagesAre ==
  /\ messages \in Seq(Range(messages))
  /\ \A i \in DOMAIN messages : IsMessage(messages[i])

(* What was sent to a workflow is consumed from its oldest on. *)
InTurn ==
  \A i, j \in DOMAIN messages :
    i < j /\ messages[i].wf = messages[j].wf /\ messages[j].consumed
      => messages[i].consumed

ActorsAre ==
  /\ DOMAIN leg = Actors /\ DOMAIN reply = Actors /\ DOMAIN value = Actors
  /\ DOMAIN got = Actors /\ \A a \in Actors : got[a] \in Seq(Range(got[a]))

(* The message i was read on behalf of a's workflow. *)
Taken(a, i) ==
  i \in DOMAIN messages /\ messages[i].wf = Me(a) /\ messages[i].consumed

GotTaken ==
  \A a \in Actors : \A i \in DOMAIN got[a] : Taken(a, got[a][i].what)

(* A message has been read and is on its way to a's body. *)
InHand(a) == leg[a] = "take" /\ reply[a] = "found"

(* It is newer than all the body has, and nobody else's. *)
HandIsNew ==
  \A a \in Actors : InHand(a) =>
    /\ Taken(a, value[a])
    /\ \A b \in Actors : \A j \in DOMAIN got[b] :
         got[b][j].what # value[a] /\ (b = a => got[b][j].what < value[a])
    /\ \A b \in Actors : InHand(b) /\ value[b] = value[a] => b = a

(* The mock gives each message to one execution. *)
Mocked == job.store = "mock"

RInv ==
  /\ MessagesAre /\ InTurn /\ ActorsAre
  /\ Mocked => GotTaken /\ HandIsNew /\ ReceivedOnce

-----------------------------------------------------------------------------
(* A set of naturals has a least one. *)
LEMMA Least ==
  ASSUME NEW S, S \subseteq Nat, S # {}
  PROVE  \E x \in S : \A y \in S : x <= y
<1> DEFINE R == {ss \in Nat \X Nat : ss[1] < ss[2]}
<1>1. IsWellFoundedOn(R, Nat)
  BY NatLessThanWellFounded DEF OpToRel
<1>2. \A x, y \in Nat : y < x => <<y, x>> \in R
  OBVIOUS
<1>3. \A x, y \in Nat : y < x \/ x <= y
  OBVIOUS
<1> HIDE DEF R
<1>4. PICK x \in S : \A y \in S : ~ (<<y, x>> \in R)
  BY <1>1, WFMin
<1> QED BY <1>2, <1>3, <1>4

(* The oldest message that is not consumed. *)
LEMMA FirstIsOldest ==
  ASSUME MessagesAre, NEW w, Unconsumed(w) # {}
  PROVE  /\ First(w) \in Unconsumed(w)
         /\ \A j \in Unconsumed(w) : First(w) <= j
<1>1. Unconsumed(w) \subseteq Nat
  BY LenProperties DEF Unconsumed, MessagesAre
<1> QED BY <1>1, Least DEF First

(* Every sequence is one of its own elements. *)
LEMMA OwnRange ==
  ASSUME NEW S, NEW s \in Seq(S)
  PROVE  s \in Seq(Range(s))
<1>1. s \in [1..Len(s) -> S] /\ Len(s) \in Nat
  BY LenProperties
<1>2. s \in [1..Len(s) -> Range(s)]
  BY <1>1 DEF Range
<1> QED BY <1>1, <1>2

(* What no request undoes. *)
Grown ==
  /\ MessagesAre' /\ InTurn'
  /\ \A i \in DOMAIN messages :
       /\ i \in DOMAIN messages' /\ messages'[i].wf = messages[i].wf
       /\ messages[i].consumed => messages'[i].consumed

LEMMA SendGrows ==
  ASSUME MessagesAre, InTurn, NEW r, messages' = SendMessage(r)
  PROVE  Grown
<1> DEFINE m == [wf |-> r.wf, body |-> r.body, consumed |-> FALSE]
           S == Range(messages) \cup {m}
<1>1. DOMAIN messages = 1..Len(messages) /\ Len(messages) \in Nat
  BY LenProperties DEF MessagesAre
<1>2. messages \in Seq(S)
  BY <1>1 DEF MessagesAre
<1>3. messages' = Append(messages, m)
  BY DEF SendMessage
<1>4. /\ messages' \in Seq(S) /\ Len(messages') = Len(messages) + 1
      /\ \A j \in 1..Len(messages) : messages'[j] = messages[j]
      /\ messages'[Len(messages) + 1] = m
  <2>1. m \in S
    OBVIOUS
  <2> HIDE DEF m, S
  <2> QED BY <1>2, <1>3, <2>1, AppendProperties
<1>5. DOMAIN messages' = 1..(Len(messages) + 1)
  BY <1>4, LenProperties
<1>6. messages' \in Seq(Range(messages'))
  BY <1>4, OwnRange
<1>7. IsMessage(m) /\ ~ m.consumed
  BY DEF IsMessage
<1>8. \A j \in DOMAIN messages' :
        j \in DOMAIN messages \/ (j = Len(messages) + 1 /\ messages'[j] = m)
  BY <1>1, <1>4, <1>5
<1> HIDE DEF m
<1>9. MessagesAre'
  BY <1>1, <1>4, <1>6, <1>7, <1>8 DEF MessagesAre
<1>10. InTurn'
  BY <1>1, <1>4, <1>7, <1>8 DEF InTurn
<1> QED BY <1>1, <1>4, <1>5, <1>9, <1>10 DEF Grown

LEMMA MessageReplaced ==
  ASSUME MessagesAre, NEW k \in DOMAIN messages, NEW m,
         messages' = [messages EXCEPT ![k] = m]
  PROVE  /\ messages' \in Seq(Range(messages'))
         /\ DOMAIN messages' = DOMAIN messages
         /\ \A j \in DOMAIN messages :
              messages'[j] = IF j = k THEN m ELSE messages[j]
<1> DEFINE S == Range(messages) \cup {m}
<1>1. DOMAIN messages = 1..Len(messages) /\ Len(messages) \in Nat
  BY LenProperties DEF MessagesAre
<1>2. messages \in Seq(S)
  BY <1>1 DEF MessagesAre
<1>3. /\ messages' \in Seq(S) /\ Len(messages') = Len(messages)
      /\ \A j \in 1..Len(messages) :
           messages'[j] = IF j = k THEN m ELSE messages[j]
  BY <1>1, <1>2, ExceptSeq
<1>4. DOMAIN messages' = DOMAIN messages
  BY <1>1, <1>3, LenProperties
<1>5. messages' \in Seq(Range(messages'))
  BY <1>3, OwnRange
<1> QED BY <1>1, <1>3, <1>4, <1>5

LEMMA ReceiveGrows ==
  ASSUME MessagesAre, InTurn, NEW w, Unconsumed(w) # {},
         messages' = [messages EXCEPT ![First(w)].consumed = TRUE]
  PROVE  /\ Grown
         /\ First(w) \in DOMAIN messages
         /\ messages[First(w)].wf = w /\ ~ messages[First(w)].consumed
         /\ messages'[First(w)].consumed
         /\ \A j \in DOMAIN messages :
              messages[j].wf = w /\ messages[j].consumed => j < First(w)
<1> DEFINE k == First(w)
           m == [messages[k] EXCEPT !.consumed = TRUE]
<1>1. DOMAIN messages = 1..Len(messages) /\ Len(messages) \in Nat
  BY LenProperties DEF MessagesAre
<1>3. /\ k \in DOMAIN messages /\ messages[k].wf = w /\ ~ messages[k].consumed
      /\ \A j \in DOMAIN messages :
           messages[j].wf = w /\ ~ messages[j].consumed => k <= j
  BY FirstIsOldest DEF Unconsumed
<1>4. IsMessage(m) /\ m.wf = w /\ m.consumed
  BY <1>3 DEF IsMessage, MessagesAre
<1>5. messages' = [messages EXCEPT ![k] = m]
  OBVIOUS
<1> HIDE DEF m, k
<1>6. /\ messages' \in Seq(Range(messages')) /\ DOMAIN messages' = DOMAIN messages
      /\ \A j \in DOMAIN messages :
           messages'[j] = IF j = k THEN m ELSE messages[j]
  BY <1>3, <1>5, MessageReplaced
<1>9. MessagesAre'
  BY <1>1, <1>4, <1>6 DEF MessagesAre
<1>10. \A j \in DOMAIN messages :
         messages[j].wf = w /\ messages[j].consumed => j < k
  BY <1>1, <1>3 DEF InTurn
<1>11. InTurn'
  BY <1>1, <1>3, <1>4, <1>6 DEF InTurn, MessagesAre, IsMessage
<1>12. Grown
  BY <1>1, <1>3, <1>4, <1>6, <1>9, <1>11 DEF Grown
<1> QED BY <1>1, <1>3, <1>4, <1>6, <1>10, <1>12 DEF k

LEMMA EffectGrows ==
  ASSUME MessagesAre, InTurn, NEW r, Effect(r)
  PROVE  Grown
<1>1. CASE r.kind = "send"
  BY <1>1, SendGrows DEF Effect, MessagesAfter
<1>2. CASE r.kind = "take" /\ ~ HasResult(r) /\ Unconsumed(r.wf) # {}
  <2>1. messages' = [messages EXCEPT ![First(r.wf)].consumed = TRUE]
    BY <1>2 DEF Effect, MessagesAfter, ReceiveMessage
  <2> QED BY <1>2, <2>1, ReceiveGrows
<1>3. CASE /\ r.kind # "send"
           /\ ~ (r.kind = "take" /\ ~ HasResult(r) /\ Unconsumed(r.wf) # {})
  <2>1. messages' = messages
    BY <1>3 DEF Effect, MessagesAfter, ReceiveMessage
  <2> QED BY <2>1 DEF Grown, MessagesAre, InTurn, Range
<1> QED BY <1>1, <1>2, <1>3

LEMMA SameGrows ==
  ASSUME MessagesAre, InTurn, UNCHANGED messages
  PROVE  Grown
BY DEF Grown, MessagesAre, InTurn, Range

-----------------------------------------------------------------------------
(* A step that gives no message to anybody. *)
LEMMA QuietInv ==
  ASSUME RInv, Grown, UNCHANGED <<job, got>>, ActorsAre',
         \A a \in Actors : InHand(a)' => InHand(a) /\ value'[a] = value[a]
  PROVE  RInv'
<1>1. \A a \in Actors : \A i : Taken(a, i) => Taken(a, i)'
  BY DEF Taken, Grown, Me
<1>2. Mocked' => GotTaken'
  BY <1>1 DEF RInv, GotTaken, Mocked
<1>3. Mocked' => HandIsNew'
  BY <1>1 DEF RInv, HandIsNew, Mocked
<1>4. Mocked' => ReceivedOnce'
  BY DEF RInv, ReceivedOnce, SameRecv, EarlierRecv, Me, Mocked
<1> QED BY <1>2, <1>3, <1>4 DEF RInv, Grown

(* An actor goes from one request to another. *)
Moves(a) ==
  \E l : /\ leg' = [leg EXCEPT ![a] = l]
         /\ reply' = [reply EXCEPT ![a] = "none"]
         /\ value' = [value EXCEPT ![a] = Nothing]

LEMMA EnterMoves ==
  ASSUME NEW a, NEW i, NEW l, NEW m, Enter(a, i, l, m)
  PROVE  Moves(a)
BY DEF Enter, Moves

LEMMA GoesOn ==
  ASSUME NEW a
  PROVE  /\ \A l : AskFor(a, l) => Moves(a)
         /\ Proceed(a) => Moves(a)
         /\ Over(a) => Moves(a)
         /\ Fail(a) => Moves(a)
<1>1. \A l : AskFor(a, l) => Moves(a)
  BY EnterMoves DEF AskFor
<1>2. Proceed(a) => Moves(a)
  BY EnterMoves DEF Proceed
<1>3. Over(a) => Moves(a)
  BY EnterMoves DEF Over
<1>4. Fail(a) => Moves(a)
  BY <1>1, <1>2, <1>3 DEF Fail
<1> QED BY <1>1, <1>2, <1>3, <1>4

LEMMA MovesInv ==
  ASSUME RInv, NEW a \in Actors, Moves(a), UNCHANGED <<job, messages, got>>
  PROVE  RInv'
<1>1. Grown
  BY SameGrows DEF RInv
<1>2. /\ DOMAIN leg' = Actors /\ DOMAIN reply' = Actors /\ DOMAIN value' = Actors
      /\ reply'[a] = "none"
      /\ \A b \in Actors : b # a => /\ leg'[b] = leg[b] /\ reply'[b] = reply[b]
                                    /\ value'[b] = value[b]
  BY DEF Moves, RInv, ActorsAre
<1>3. ActorsAre'
  BY <1>2 DEF RInv, ActorsAre
<1>4. \A b \in Actors : InHand(b)' => InHand(b) /\ value'[b] = value[b]
  BY <1>2 DEF InHand
<1> QED BY <1>1, <1>3, <1>4, QuietInv

LEMMA ExitInv ==
  ASSUME RInv, NEW a \in Actors, Exit(a), UNCHANGED <<job, messages, got>>
  PROVE  RInv'
<1>1. Grown
  BY SameGrows DEF RInv
<1>2. ActorsAre'
  BY DEF Exit, RInv, ActorsAre
<1>3. \A b \in Actors : InHand(b)' => InHand(b) /\ value'[b] = value[b]
  BY DEF Exit, InHand, RInv, ActorsAre
<1> QED BY <1>1, <1>2, <1>3, QuietInv

-----------------------------------------------------------------------------
(* The request that takes a message for a's body. *)
LEMMA TakeRequest ==
  ASSUME NEW a, leg[a] = "take"
  PROVE  Request(a).kind = "take" /\ Request(a).wf = Me(a)
BY DEF Request, Ask

LEMMA ServeInv ==
  ASSUME RInv, NEW a \in Actors, Serve(a)
  PROVE  RInv'
<1> DEFINE r == Request(a)
<1>1. Effect(r) /\ Grown
  BY EffectGrows DEF Serve, RInv
<1>2. /\ UNCHANGED <<job, leg, got>>
      /\ reply' = [reply EXCEPT ![a] = Answer(r)]
      /\ value' = [value EXCEPT ![a] = Carries(r)]
      /\ reply[a] = "none"
  BY DEF Serve, seenOutside, Asking
<1>3. ActorsAre'
  BY <1>2 DEF RInv, ActorsAre
<1>4. /\ \A b \in Actors : b # a => InHand(b)' = InHand(b) /\ value'[b] = value[b]
      /\ reply'[a] = Answer(r) /\ value'[a] = Carries(r)
  BY <1>2 DEF InHand, RInv, ActorsAre
<1>5. CASE ~ InHand(a)' \/ ~ Mocked
  <2>1. CASE ~ InHand(a)'
    BY <1>1, <1>2, <1>3, <1>4, <2>1, QuietInv
  <2>2. CASE ~ Mocked
    BY <1>1, <1>2, <1>3, <2>2 DEF RInv, Grown, Mocked
  <2> QED BY <1>5, <2>1, <2>2
<1>6. CASE InHand(a)' /\ Mocked
  <2>1. r.kind = "take" /\ r.wf = Me(a)
    BY <1>2, <1>6, TakeRequest DEF InHand
  <2> DEFINE k == First(Me(a))
  <2>10. ~ HasResult(r)
    BY <1>6 DEF HasResult, Mocked
  <2>2. Unconsumed(Me(a)) # {} /\ value'[a] = k
    BY <1>4, <1>6, <2>1, <2>10 DEF InHand, Answer, Carries
  <2>3. messages' = [messages EXCEPT ![k].consumed = TRUE]
    BY <1>1, <2>1, <2>2, <2>10 DEF Effect, MessagesAfter, ReceiveMessage
  <2>4. /\ k \in DOMAIN messages /\ messages[k].wf = Me(a)
        /\ ~ messages[k].consumed /\ messages'[k].consumed
        /\ \A j \in DOMAIN messages :
             messages[j].wf = Me(a) /\ messages[j].consumed => j < k
    BY <2>2, <2>3, ReceiveGrows DEF RInv
  <2> HIDE DEF k
  <2>5. \A b \in Actors : \A i : Taken(b, i) =>
          /\ Taken(b, i)' /\ i # k /\ (b = a => i < k)
    BY <1>1, <1>2, <2>4 DEF Taken, Grown, Me
  <2>6. Taken(a, value[a])'
    BY <1>1, <1>2, <2>2, <2>4 DEF Taken, Grown, Me
  <2>7. GotTaken'
    BY <1>2, <1>6, <2>5 DEF RInv, GotTaken
  <2>8. \A b \in Actors : b # a /\ InHand(b) => value[b] # k
    BY <1>6, <2>5 DEF RInv, HandIsNew
  <2>9. HandIsNew'
    <3> SUFFICES ASSUME NEW b \in Actors, InHand(b)'
                 PROVE  /\ Taken(b, value[b])'
                        /\ \A c \in Actors : \A j \in DOMAIN got'[c] :
                             /\ got'[c][j].what # value'[b]
                             /\ c = b => got'[c][j].what < value'[b]
                        /\ \A c \in Actors :
                             InHand(c)' /\ value'[c] = value'[b] => c = b
      BY DEF HandIsNew
    <3>1. CASE b = a
      BY <1>2, <1>4, <1>6, <2>2, <2>5, <2>6, <2>8, <3>1 DEF RInv, GotTaken
    <3>2. CASE b # a
      BY <1>2, <1>4, <1>6, <2>2, <2>5, <2>6, <2>8, <3>2 DEF RInv, HandIsNew
    <3> QED BY <3>1, <3>2
  <2>11. ReceivedOnce'
    BY <1>2, <1>6 DEF RInv, ReceivedOnce, SameRecv, EarlierRecv, Me
  <2> QED BY <1>1, <1>3, <2>7, <2>9, <2>11 DEF RInv, Grown
<1> QED BY <1>5, <1>6

(* An attempt that fails answers nothing. *)
LEMMA RetryInv ==
  ASSUME RInv, NEW a \in Actors, Asking(a), Retry(a), Grown
  PROVE  RInv'
<1>1. /\ UNCHANGED <<job, leg, value, got>>
      /\ reply' \in {reply, [reply EXCEPT ![a] = "threw"]}
      /\ reply[a] = "none"
  BY DEF Retry, seenOutside, Asking
<1>2. ActorsAre'
  BY <1>1 DEF RInv, ActorsAre
<1>3. \A b \in Actors : InHand(b)' => InHand(b) /\ value'[b] = value[b]
  BY <1>1 DEF InHand, RInv, ActorsAre
<1> QED BY <1>1, <1>2, <1>3, QuietInv

LEMMA AttemptInv ==
  ASSUME RInv, NEW a \in Actors, Attempt(a)
  PROVE  RInv'
<1>1. CASE Serve(a)
  BY <1>1, ServeInv
<1>2. CASE Refused(a) \/ Abandoned(a)
  <2>1. Asking(a) /\ Retry(a) /\ UNCHANGED messages
    BY <1>2 DEF Refused, Abandoned, backend
  <2> QED BY <2>1, SameGrows, RetryInv DEF RInv
<1>3. CASE ReplyLost(a)
  <2>1. Asking(a) /\ Retry(a) /\ Effect(Request(a))
    BY <1>3 DEF ReplyLost
  <2> QED BY <2>1, EffectGrows, RetryInv DEF RInv
<1> QED BY <1>1, <1>2, <1>3 DEF Attempt

-----------------------------------------------------------------------------
(* What is in hand is given to the body. *)
Given(a) == [at |-> at[a], what |-> value[a]]

LEMMA GotGrows ==
  ASSUME ActorsAre, NEW a \in Actors, got' = [got EXCEPT ![a] = Append(@, Given(a))]
  PROVE  /\ Len(got[a]) \in Nat /\ DOMAIN got[a] = 1..Len(got[a])
         /\ DOMAIN got' = Actors
         /\ \A b \in Actors : got'[b] \in Seq(Range(got'[b]))
         /\ \A b \in Actors : \A i \in DOMAIN got'[b] :
              \/ i \in DOMAIN got[b] /\ got'[b][i] = got[b][i]
              \/ b = a /\ i = Len(got[a]) + 1 /\ got'[b][i] = Given(a)
<1> DEFINE g == Given(a)  s == got[a]
           S == Range(s) \cup {g}
<1>1. s \in Seq(S) /\ g \in S /\ Len(s) \in Nat /\ DOMAIN s = 1..Len(s)
  <2>1. s \in Seq(Range(s))
    BY DEF ActorsAre
  <2>2. Len(s) \in Nat /\ DOMAIN s = 1..Len(s)
    BY <2>1, LenProperties
  <2> HIDE DEF s
  <2> QED BY <2>1, <2>2
<1> DEFINE t == Append(s, g)
<1>2. got'[a] = t /\ \A b \in Actors : b # a => got'[b] = got[b]
  BY DEF ActorsAre
<1>3. /\ t \in Seq(S) /\ Len(t) = Len(s) + 1
      /\ t[Len(s) + 1] = g /\ \A i \in 1..Len(s) : t[i] = s[i]
  <2> HIDE DEF g, s, S
  <2> QED BY <1>1, AppendProperties
<1> HIDE DEF g, s, S, t
<1>4. DOMAIN t = 1..(Len(s) + 1)
  BY <1>3, LenProperties
<1>5. t \in Seq(Range(t))
  BY <1>3, OwnRange
<1>6. \A b \in Actors : got'[b] \in Seq(Range(got'[b]))
  BY <1>2, <1>5 DEF ActorsAre
<1>7. \A i \in 1..(Len(s) + 1) :
        \/ i \in 1..Len(s) /\ t[i] = s[i]
        \/ i = Len(s) + 1 /\ t[i] = g
  BY <1>1, <1>3
<1>8. DOMAIN got' = Actors
  BY DEF ActorsAre
<1>9. \A b \in Actors : \A i \in DOMAIN got'[b] :
        \/ i \in DOMAIN got[b] /\ got'[b][i] = got[b][i]
        \/ b = a /\ i = Len(s) + 1 /\ got'[b][i] = g
  BY <1>1, <1>2, <1>4, <1>7 DEF s
<1> QED BY <1>1, <1>6, <1>8, <1>9 DEF s, g

LEMMA GivenInv ==
  ASSUME RInv, NEW a \in Actors, InHand(a), Moves(a), UNCHANGED <<job, messages>>,
         got' = [got EXCEPT ![a] = Append(@, Given(a))]
  PROVE  RInv'
<1> DEFINE k == value[a]  n == Len(got[a])
<1>1. /\ n \in Nat /\ DOMAIN got[a] = 1..n
      /\ DOMAIN got' = Actors /\ \A b \in Actors : got'[b] \in Seq(Range(got'[b]))
      /\ \A b \in Actors : \A i \in DOMAIN got'[b] :
           \/ i \in DOMAIN got[b] /\ got'[b][i] = got[b][i]
           \/ b = a /\ i = n + 1 /\ got'[b][i].what = k
  <2>1. Given(a).what = k
    BY DEF Given
  <2>2. ActorsAre
    BY DEF RInv
  <2>3. /\ n \in Nat /\ DOMAIN got[a] = 1..n
        /\ DOMAIN got' = Actors /\ \A b \in Actors : got'[b] \in Seq(Range(got'[b]))
        /\ \A b \in Actors : \A i \in DOMAIN got'[b] :
             \/ i \in DOMAIN got[b] /\ got'[b][i] = got[b][i]
             \/ b = a /\ i = n + 1 /\ got'[b][i] = Given(a)
    BY <2>2, GotGrows
  <2> HIDE DEF n
  <2> QED BY <2>1, <2>3
<1>2. /\ DOMAIN leg' = Actors /\ DOMAIN reply' = Actors /\ DOMAIN value' = Actors
      /\ reply'[a] = "none"
      /\ \A b \in Actors : b # a => /\ leg'[b] = leg[b] /\ reply'[b] = reply[b]
                                    /\ value'[b] = value[b]
  BY DEF Moves, RInv, ActorsAre
<1> HIDE DEF n
<1>3. MessagesAre' /\ InTurn' /\ ActorsAre'
  BY <1>1, <1>2, SameGrows DEF RInv, Grown, ActorsAre
<1>4. ASSUME Mocked
      PROVE  GotTaken' /\ HandIsNew' /\ ReceivedOnce'
  <2>1. GotTaken /\ HandIsNew /\ ReceivedOnce /\ Taken(a, k)
    BY <1>4 DEF RInv, HandIsNew
  <2>2. k \in Nat
    BY <2>1, LenProperties DEF RInv, Taken, MessagesAre
  <2>3. \A b \in Actors : \A i : Taken(b, i) => Taken(b, i)'
    BY DEF Taken, Me
  <2>4. \A b \in Actors : InHand(b)' => b # a /\ InHand(b) /\ value'[b] = value[b]
    BY <1>2 DEF InHand
  <2>5. \A b \in Actors : \A j \in DOMAIN got[b] :
          got[b][j].what # k /\ (b = a => got[b][j].what < k)
    BY <2>1 DEF HandIsNew
  <2>6. \A b \in Actors : InHand(b) /\ b # a => value[b] # k
    BY <2>1 DEF HandIsNew
  <2>7. GotTaken'
    BY <1>1, <2>1, <2>3 DEF GotTaken
  <2>8. HandIsNew'
    BY <1>1, <2>1, <2>3, <2>4, <2>6 DEF HandIsNew
  <2>9. ReceivedOnce'
    <3> SUFFICES ASSUME NEW b \in Actors, NEW c \in Actors,
                        NEW i \in DOMAIN got'[b], NEW j \in DOMAIN got'[c]
                 PROVE  /\ got'[b][i].what = got'[c][j].what => b = c /\ i = j
                        /\ b = c /\ i < j => got'[b][i].what < got'[c][j].what
      BY <1>4 DEF ReceivedOnce, SameRecv, EarlierRecv, Mocked
    <3>1. CASE i \in DOMAIN got[b] /\ got'[b][i] = got[b][i]
      <4>1. CASE j \in DOMAIN got[c] /\ got'[c][j] = got[c][j]
        <5>1. Null \notin DOMAIN messages
          <6>1. DOMAIN messages \subseteq Nat
            BY LenProperties DEF RInv, MessagesAre
          <6>2. {Nothing, Waiting, Null} \cap Nat = {}
            BY RemoteAssumption
          <6> QED BY <6>1, <6>2
        <5>2. got[b][i].what # Null /\ got[c][j].what # Null
          BY <2>1, <3>1, <4>1, <5>1 DEF GotTaken, Taken
        <5> QED BY <1>4, <2>1, <3>1, <4>1, <5>2
               DEF ReceivedOnce, SameRecv, EarlierRecv, Mocked
      <4>2. CASE c = a /\ j = n + 1 /\ got'[c][j].what = k
        BY <1>1, <2>5, <3>1, <4>2
      <4> QED BY <1>1, <4>1, <4>2
    <3>2. CASE b = a /\ i = n + 1 /\ got'[b][i].what = k
      <4>1. CASE j \in DOMAIN got[c] /\ got'[c][j] = got[c][j]
        BY <1>1, <2>5, <3>2, <4>1
      <4>2. CASE c = a /\ j = n + 1 /\ got'[c][j].what = k
        BY <1>1, <3>2, <4>2
      <4> QED BY <1>1, <4>1, <4>2
    <3> QED BY <1>1, <3>1, <3>2
  <2> QED BY <2>7, <2>8, <2>9
<1> QED BY <1>3, <1>4 DEF RInv, Mocked

LEMMA RecvInv ==
  ASSUME RInv, NEW a \in Actors, RecvAnswered(a)
  PROVE  RInv'
<1>1. UNCHANGED <<job, messages>>
  BY DEF RecvAnswered, Answered, backend
<1>2. CASE InHand(a)
  <2>1. got' = [got EXCEPT ![a] = Append(@, Given(a))]
    BY <1>2 DEF RecvAnswered, InHand, Given
  <2>2. Moves(a)
    BY <1>2, GoesOn DEF RecvAnswered, InHand, Threw
  <2> QED BY <1>1, <1>2, <2>1, <2>2, GivenInv
<1>3. CASE ~ InHand(a)
  <2>1. UNCHANGED got
    BY <1>3 DEF RecvAnswered, InHand
  <2>2. Moves(a) \/ Exit(a)
    BY GoesOn DEF RecvAnswered
  <2> QED BY <1>1, <2>1, <2>2, MovesInv, ExitInv
<1> QED BY <1>2, <1>3

(* All other answers. *)
LEMMA HandleInv ==
  ASSUME RInv, NEW a \in Actors, Handle(a)
  PROVE  RInv'
<1> USE GoesOn DEF Answered, backend, seenOutside
<1>1. CASE SendAnswered(a) \/ CreateAnswered(a)
  BY <1>1, MovesInv DEF SendAnswered, CreateAnswered
<1>2. CASE AwaitAnswered(a) \/ ResultAnswered(a)
  BY <1>2, MovesInv DEF AwaitAnswered, ResultAnswered
<1>3. CASE RecvAnswered(a)
  BY <1>3, RecvInv
<1>4. CASE StopsCancelled(a) \/ EventAnswered(a)
  BY <1>4, MovesInv DEF StopsCancelled, EventAnswered
<1>5. CASE StreamAnswered(a)
  BY <1>5, MovesInv DEF StreamAnswered
<1>6. CASE GetOpAnswered(a)
  BY <1>6, MovesInv DEF GetOpAnswered
<1>7. CASE ManageAnswered(a) \/ PutOpAnswered(a) \/ PutErrorAnswered(a)
  BY <1>7, EnterMoves, MovesInv
     DEF ManageAnswered, PutOpAnswered, PutErrorAnswered
<1>8. CASE SweepPending(a) \/ SweepEnqueued(a)
  BY <1>8, EnterMoves, MovesInv DEF SweepPending, SweepEnqueued, Sweep
<1> QED BY <1>1, <1>2, <1>3, <1>4, <1>5, <1>6, <1>7, <1>8 DEF Handle

-----------------------------------------------------------------------------
(* The rest of the world. *)
LEMMA ArriveInv ==
  ASSUME RInv, NEW l \in late, Arrive(l)
  PROVE  RInv'
<1>1. Grown /\ UNCHANGED <<job, leg, reply, value, got>>
  BY EffectGrows DEF Arrive, RInv, control, seenOutside
<1> QED BY <1>1, QuietInv DEF RInv, ActorsAre, InHand

LEMMA DequeueInv ==
  ASSUME RInv, NEW w \in Rows, Dequeue(w)
  PROVE  RInv'
<1>1. Grown /\ UNCHANGED <<job, leg, reply, value, got>>
  BY SameGrows DEF Dequeue, RInv, control, seenOutside
<1> QED BY <1>1, QuietInv DEF RInv, ActorsAre, InHand

LEMMA TimeOutInv ==
  ASSUME RInv, NEW w, NEW i, TimeOut(w, i)
  PROVE  RInv'
<1>1. Grown /\ UNCHANGED <<job, leg, reply, value, got>>
  BY SameGrows DEF TimeOut, RInv, control, seenOutside
<1> QED BY <1>1, QuietInv DEF RInv, ActorsAre, InHand

LEMMA CrashInv ==
  ASSUME RInv, NEW p \in Procs, Crash(p)
  PROVE  RInv'
<1>1. Grown /\ UNCHANGED <<job, got>>
  BY SameGrows DEF Crash, RInv, backend, seenOutside
<1>2. ActorsAre'
  BY DEF Crash, RInv, ActorsAre, seenOutside
<1>3. \A b \in Actors : InHand(b)' => InHand(b) /\ value'[b] = value[b]
  BY DEF Crash, InHand
<1> QED BY <1>1, <1>2, <1>3, QuietInv

LEMMA WakeInv ==
  ASSUME RInv, NEW a \in Actors, Wake(a)
  PROVE  RInv'
BY EnterMoves, MovesInv DEF Wake, backend, seenOutside

-----------------------------------------------------------------------------
LEMMA InitRInv == Init => RInv
<1> SUFFICES ASSUME Init PROVE RInv
  OBVIOUS
<1>1. messages = << >> /\ got = [a \in Actors |-> << >>]
  BY DEF Init
<1>2. MessagesAre /\ InTurn
  BY <1>1 DEF MessagesAre, InTurn, Range
<1>3. ActorsAre /\ GotTaken /\ ReceivedOnce
  BY <1>1 DEF Init, ActorsAre, GotTaken, ReceivedOnce, Range
<1>4. HandIsNew
  BY DEF Init, HandIsNew, InHand
<1> QED BY <1>2, <1>3, <1>4 DEF RInv

LEMMA NextRInv == RInv /\ [Next]_vars => RInv'
<1> SUFFICES ASSUME RInv, [Next]_vars PROVE RInv'
  OBVIOUS
<1>1. CASE UNCHANGED vars
  <2>1. Grown /\ UNCHANGED <<job, leg, reply, value, got>>
    BY <1>1, SameGrows DEF vars, RInv, backend, control, seenOutside
  <2> QED BY <2>1, QuietInv DEF RInv, ActorsAre, InHand
<1>2. CASE \E a \in Actors : Attempt(a) \/ Handle(a) \/ Wake(a)
  BY <1>2, AttemptInv, HandleInv, WakeInv
<1>3. CASE \E l \in late : Arrive(l)
  BY <1>3, ArriveInv
<1>4. CASE \/ \E w \in Rows : Dequeue(w) \/ \E i \in 1..MaxCalls : TimeOut(w, i)
           \/ \E p \in Procs : Crash(p)
  BY <1>4, DequeueInv, TimeOutInv, CrashInv
<1> QED BY <1>1, <1>2, <1>3, <1>4 DEF Next

-----------------------------------------------------------------------------
(* The inductive invariant holds in every reachable state. *)
THEOREM Invariance == Spec => []RInv
<1>1. Init => RInv
  BY InitRInv
<1>2. RInv /\ [Next]_vars => RInv'
  BY NextRInv
<1> QED BY <1>1, <1>2, PTL DEF Spec

(* ------------- one result of a call, and the cancellations ------------- *)

USE RemoteAssumption

(* The result x is recorded for the i-th call of the workflow w, for good. *)
Known(w, i, x) ==
  /\ w \in Rows \ Fresh /\ i \in 1..MaxCalls
  /\ x # Nothing /\ ops[w][i] = x

There(x) == x \in Rows => row[x] # "absent"

(* The store: a workflow that is executed has a row, and so has the fork   *)
(* that a recorded result names.                                           *)
StoreFits ==
  /\ DOMAIN row = Rows
  /\ DOMAIN ops = Rows /\ \A w \in Rows : DOMAIN ops[w] = 1..MaxCalls
  /\ \A a \in Actors : InWorkflow(a) => Exists(Me(a))
  /\ \A w \in Rows : \A i \in 1..MaxCalls : There(ops[w][i])

(* What a request may do: its fork takes a fresh id, it names a fork only  *)
(* once that is there, and it ends a row with a status.                    *)
RequestFits(r) ==
  /\ r.kind = "fork" => r.new \in Fresh
  /\ r.kind = "putOp" => There(r.new)
  /\ r.kind = "result" => r.status # "absent"

Recording == {"getOp", "putOp", "putError"}

(* The requests of a call, after the first one that of its failure. *)
Stages(a, i) ==
  LET op == job.script[a][i].op IN
  (IF InWorkflow(a) THEN {"error"} ELSE {}) \cup
  CASE op = "recv" -> {"cancelled", "take", "wait"}
    [] op = "readStream" -> {"read", "status"}
    [] op = "sendOnce" -> {"create", "send", "output", "error", "await"}
    [] op = "clientSend" -> {"create", "send"}
    [] op = "globalTimeout" ->
         {"listPending", "cancelPending", "listEnqueued", "cancelEnqueued"}
    [] op = "return" -> {"output"}
    [] op \in {"cancel", "resume", "fork"} ->
         {op} \cup (IF InWorkflow(a) THEN Recording ELSE {})
    [] OTHER -> {op}

(* Where an actor may be. *)
Fits(a, i, l, m) ==
  /\ l \notin {"over", "left"} =>
       i \in 1..Len(job.script[a]) /\ l \in Stages(a, i)
  /\ l \in {"cancel", "resume"} => m = Nothing
  /\ l = "fork" => m \in Fresh
  /\ l = "putOp" => There(m)

Recorded(a) == IF memo[a] = Nothing THEN Void ELSE memo[a]

(* What an actor knows from the answer it has. *)
Learned(a) ==
  /\ leg[a] = "putOp" /\ reply[a] = "ok" => Known(Me(a), at[a], Recorded(a))
  /\ leg[a] = "getOp" /\ reply[a] = "found" => Known(Me(a), at[a], value[a])
  /\ leg[a] = "fork" /\ reply[a] = "ok" => There(memo[a])
  /\ leg[a] \in {"setEvent", "write", "close"} => reply[a] \in {"none", "ok", "threw"}
  /\ leg[a] = "status" => reply[a] \in {"none", "ok", "empty", "threw"}
  /\ leg[a] = "create" => reply[a] \in {"none", "ok", "exists", "threw"}
  /\ leg[a] \in {"cancelled", "wait"} => reply[a] # "found"

Domains ==
  /\ DOMAIN at = Actors /\ DOMAIN leg = Actors /\ DOMAIN reply = Actors
  /\ DOMAIN value = Actors /\ DOMAIN memo = Actors

KInv ==
  /\ job \in Jobs /\ Domains /\ StoreFits
  /\ \A l \in late : RequestFits(l.request)
  /\ \A a \in Actors : Fits(a, at[a], leg[a], memo[a]) /\ Learned(a)
  /\ \A x \in returned : Known(x[1], x[2], x[3])

-----------------------------------------------------------------------------
(* The calls of a script. *)
LEMMA ScriptCalls ==
  ASSUME job \in Jobs, NEW a \in Actors, NEW i \in 1..Len(job.script[a])
  PROVE  job.script[a][i] \in Calls /\ Allowed(job, a, job.script[a][i])
<1>1. IsJob(job)
  OBVIOUS
<1>2. job.script[a] \in Seq(Calls)
  BY <1>1 DEF IsJob
<1>3. i \in DOMAIN job.script[a]
  BY <1>2, LenProperties
<1> QED BY <1>1, <1>2, <1>3, ElementOfSeq DEF IsJob

(* The call a request is made for. *)
LEMMA StageOps ==
  ASSUME job \in Jobs, NEW a \in Actors, NEW i \in 1..Len(job.script[a]),
         NEW l \in Stages(a, i), NEW op, op = job.script[a][i].op
  PROVE  /\ l \notin {"result", "over", "left"}
         /\ l \in Recording =>
              InWorkflow(a) /\ op \in {"cancel", "resume", "fork"}
         /\ l = "create" => op \in Keyed
         /\ l = "send" => op \in Sends
         /\ l = "await" => op = "sendOnce"
         /\ l \in {"cancelled", "take", "wait"} => op = "recv"
         /\ l \in {"read", "status"} => op = "readStream"
         /\ l \in {"listPending", "cancelPending", "listEnqueued",
                   "cancelEnqueued"} => op = "globalTimeout"
         /\ l \in {"cancel", "resume", "fork", "write", "close", "setEvent",
                   "getEvent"} => op = l
         /\ l = "output" => op \in {"return", "sendOnce"}
         /\ l = "error" => InWorkflow(a) \/ op = "sendOnce"
<1>1. op \in {"send", "recv", "setEvent", "getEvent", "write", "close",
              "readStream", "sendOnce", "clientSend", "cancel", "resume",
              "fork", "globalTimeout", "return"}
  BY ScriptCalls DEF Calls
<1> USE DEF Stages, Recording, Keyed, Sends
<1>2. CASE op \in {"recv", "readStream", "sendOnce", "clientSend"}
  BY <1>2
<1>3. CASE op \in {"globalTimeout", "return", "cancel", "resume", "fork"}
  BY <1>3
<1>4. CASE op \in {"send", "setEvent", "getEvent", "write", "close"}
  BY <1>4
<1> QED BY <1>1, <1>2, <1>3, <1>4

LEMMA StagesStay ==
  ASSUME UNCHANGED job
  PROVE  \A a : /\ InWorkflow(a)' = InWorkflow(a) /\ Me(a)' = Me(a)
                /\ \A i : Stages(a, i)' = Stages(a, i)
<1>1. \A a : InWorkflow(a)' = InWorkflow(a) /\ Me(a)' = Me(a)
  BY DEF InWorkflow, Me
<1> QED BY <1>1 DEF Stages

-----------------------------------------------------------------------------
(* What a request leaves as it is. *)
Kept ==
  /\ StoreFits'
  /\ \A w \in Rows : row[w] # "absent" => row'[w] # "absent"
  /\ \A w \in Rows \ Fresh : \A i \in 1..MaxCalls :
       ops[w][i] # Nothing => ops'[w][i] = ops[w][i]

LEMMA RowKept ==
  ASSUME StoreFits, NEW r, RequestFits(r), row' = RowAfter(r)
  PROVE  /\ DOMAIN row' = Rows
         /\ \A w \in Rows : row[w] # "absent" => row'[w] # "absent"
BY SMTT(30) DEF StoreFits, RequestFits, RowAfter, CreateWorkflow, CancelWorkflow,
       ResumeWorkflow, RecordResult, ForkWorkflow, Exists

LEMMA OpsKept ==
  ASSUME StoreFits, NEW r, RequestFits(r), ops' = OpsAfter(r)
  PROVE  /\ DOMAIN ops' = Rows /\ \A w \in Rows : DOMAIN ops'[w] = 1..MaxCalls
         /\ \A w \in Rows \ Fresh : \A i \in 1..MaxCalls :
              ops[w][i] # Nothing => ops'[w][i] = ops[w][i]
         /\ \A w \in Rows : \A i \in 1..MaxCalls :
              \/ ops'[w][i] = ops[w][i]
              \/ ops'[w][i] = Nothing
              \/ r.kind = "putOp" /\ ops'[w][i] = r.new
<1>1. CASE r.kind = "putOp" /\ Exists(r.wf) /\ ops[r.wf][r.id] = Nothing
  <2>1. ops' = [ops EXCEPT ![r.wf] = [ops[r.wf] EXCEPT ![r.id] = r.new]]
    BY <1>1 DEF OpsAfter, RecordOperation
  <2> QED BY <1>1, <2>1 DEF StoreFits, Exists
<1>2. CASE r.kind = "fork" /\ Exists(r.wf)
  <2>1. r.new \in Fresh /\ r.new \in Rows
    BY <1>2 DEF RequestFits
  <2>2. ops' = [ops EXCEPT ![r.new] = [i \in 1..MaxCalls |-> Nothing]]
    BY <1>2, <2>1 DEF OpsAfter, StoreFits
  <2> QED BY <2>1, <2>2 DEF StoreFits
<1>3. CASE ops' = ops
  BY <1>3 DEF StoreFits
<1> QED BY <1>1, <1>2, <1>3 DEF OpsAfter, RecordOperation

LEMMA EffectKept ==
  ASSUME KInv, NEW r, RequestFits(r), Effect(r), UNCHANGED job
  PROVE  Kept
<1>1. StoreFits
  BY DEF KInv
<1>2. /\ DOMAIN row' = Rows
      /\ \A w \in Rows : row[w] # "absent" => row'[w] # "absent"
  BY <1>1, RowKept DEF Effect
<1>3. /\ DOMAIN ops' = Rows /\ \A w \in Rows : DOMAIN ops'[w] = 1..MaxCalls
      /\ \A w \in Rows \ Fresh : \A i \in 1..MaxCalls :
           ops[w][i] # Nothing => ops'[w][i] = ops[w][i]
      /\ \A w \in Rows : \A i \in 1..MaxCalls :
           \/ ops'[w][i] = ops[w][i]
           \/ ops'[w][i] = Nothing
           \/ r.kind = "putOp" /\ ops'[w][i] = r.new
  BY <1>1, OpsKept DEF Effect
<1>4. \A x : There(x) => There(x)'
  BY <1>2 DEF There
<1>5. Nothing \notin Rows
  BY DEF Results
<1>6. \A w \in Rows : \A i \in 1..MaxCalls : There(ops[w][i])'
  BY <1>1, <1>2, <1>3, <1>5 DEF StoreFits, RequestFits, There
<1>7. \A a \in Actors : InWorkflow(a)' => Exists(Me(a))'
  BY <1>1, <1>2 DEF StoreFits, InWorkflow, Exists, Me
<1> QED BY <1>2, <1>3, <1>6, <1>7 DEF Kept, StoreFits

LEMMA SameKept ==
  ASSUME KInv, UNCHANGED <<job, row, ops>>
  PROVE  Kept
BY DEF KInv, Kept, StoreFits, There, InWorkflow, Exists, Me

(* A request fits where the actor is. *)
LEMMA AskedFits ==
  ASSUME KInv, NEW a \in Actors
  PROVE  RequestFits(Request(a))
<1> DEFINE l == leg[a]
<1>1. Fits(a, at[a], l, memo[a])
  BY DEF KInv
<1>2. CASE l \in {"putOp", "putError"}
  BY <1>1, <1>2 DEF RequestFits, Request, Ask, Fits, There
<1>3. CASE l = "fork"
  BY <1>1, <1>3 DEF RequestFits, Request, Ask, Fits, There
<1>4. CASE l \notin {"putOp", "putError", "fork"}
  <2>1. l # "result" \/ l \in {"over", "left"}
    BY <1>1, StageOps DEF KInv, Fits
  <2> QED BY <1>4, <2>1 DEF RequestFits, Request, Ask
<1> QED BY <1>2, <1>3, <1>4

-----------------------------------------------------------------------------
(* What is known stays known. *)
LEMMA KnownStays ==
  ASSUME Kept
  PROVE  /\ \A w, i, x : Known(w, i, x) => Known(w, i, x)'
         /\ \A x : There(x) => There(x)'
BY DEF Kept, Known, There

(* An actor that neither moves nor learns. *)
Rests(a) ==
  /\ at'[a] = at[a] /\ leg'[a] = leg[a] /\ memo'[a] = memo[a]
  /\ \/ reply'[a] = reply[a] /\ value'[a] = value[a]
     \/ reply'[a] \in {"none", "threw"}

LEMMA RestsFits ==
  ASSUME KInv, Kept, UNCHANGED job, NEW a \in Actors, Rests(a)
  PROVE  Fits(a, at[a], leg[a], memo[a])' /\ Learned(a)'
<1>1. Fits(a, at[a], leg[a], memo[a]) /\ Learned(a)
  BY DEF KInv
<1>2. Fits(a, at[a], leg[a], memo[a])'
  BY <1>1, KnownStays, StagesStay DEF Fits, Rests
<1>3. Learned(a)'
  <2>1. /\ \A w, i, x : Known(w, i, x) => Known(w, i, x)'
        /\ \A x : There(x) => There(x)'
    BY KnownStays
  <2>2. leg[a] = "putOp" /\ reply'[a] = "ok" => Known(Me(a), at[a], Recorded(a))'
    BY <1>1, <2>1 DEF Learned, Rests, Recorded, Me, Known, Kept
  <2>3. leg[a] = "getOp" /\ reply'[a] = "found" => Known(Me(a), at[a], value[a])'
    BY <1>1, <2>1 DEF Learned, Rests, Me, Known, Kept
  <2>4. leg[a] = "fork" /\ reply'[a] = "ok" => There(memo[a])'
    BY <1>1, <2>1 DEF Learned, Rests, There, Kept
  <2>5. /\ leg[a] \in {"setEvent", "write", "close"} =>
             reply'[a] \in {"none", "ok", "threw"}
        /\ leg[a] = "status" => reply'[a] \in {"none", "ok", "empty", "threw"}
        /\ leg[a] = "create" => reply'[a] \in {"none", "ok", "exists", "threw"}
        /\ leg[a] \in {"cancelled", "wait"} => reply'[a] # "found"
    BY <1>1 DEF Learned, Rests
  <2> QED BY <2>2, <2>3, <2>4, <2>5 DEF Learned, Rests
<1> QED BY <1>2, <1>3

(* An actor that goes where it fits. *)
Goes(a) ==
  /\ reply'[a] = "none"
  /\ Fits(a, at'[a], leg'[a], memo'[a])

LEMMA StepInv ==
  ASSUME KInv, Kept, UNCHANGED job, Domains',
         \A a \in Actors : Rests(a) \/ Goes(a),
         \A l \in late' : RequestFits(l.request)',
         \A x \in returned' : x \in returned \/ Known(x[1], x[2], x[3])
  PROVE  KInv'
<1>1. \A a \in Actors : Goes(a) =>
        Fits(a, at[a], leg[a], memo[a])' /\ Learned(a)'
  <2> SUFFICES ASSUME NEW a \in Actors, Goes(a)
               PROVE  Fits(a, at[a], leg[a], memo[a])' /\ Learned(a)'
    OBVIOUS
  <2>1. Fits(a, at[a], leg[a], memo[a])'
    BY KnownStays, StagesStay DEF Goes, Fits
  <2>2. Learned(a)'
    BY DEF Goes, Learned
  <2> QED BY <2>1, <2>2
<1>2. \A a \in Actors : Fits(a, at[a], leg[a], memo[a])' /\ Learned(a)'
  BY <1>1, RestsFits
<1>3. \A x \in returned' : Known(x[1], x[2], x[3])'
  BY KnownStays DEF KInv
<1>4. job' \in Jobs
  BY SMTT(30) DEF KInv
<1> QED BY <1>2, <1>3, <1>4 DEF KInv, Kept

-----------------------------------------------------------------------------
(* Where the control goes. *)
LEMMA FirstStage ==
  ASSUME job \in Jobs, NEW a \in Actors, NEW i \in 1..Len(job.script[a])
  PROVE  /\ FirstLeg(a, i) \in Stages(a, i)
         /\ FirstLeg(a, i) \notin {"putOp", "putError"}
         /\ FirstLeg(a, i) = "fork" => ~ InWorkflow(a)
<1> DEFINE op == job.script[a][i].op
<1>1. op \in {"send", "recv", "setEvent", "getEvent", "write", "close",
              "readStream", "sendOnce", "clientSend", "cancel", "resume",
              "fork", "globalTimeout", "return"}
  BY ScriptCalls DEF Calls
<1>2. Len(job.script[a]) \in Nat /\ ~ (i > Len(job.script[a]))
  BY LenProperties DEF IsJob
<1> QED BY <1>1, <1>2 DEF FirstLeg, Stages, Recording

LEMMA FirstLegFits ==
  ASSUME KInv, NEW a \in Actors, NEW i \in Nat, i >= 1
  PROVE  /\ FirstLeg(a, i) # "fork" => Fits(a, i, FirstLeg(a, i), Nothing)
         /\ FirstLeg(a, i) = "fork" =>
              /\ i \in 1..Len(job.script[a]) /\ "fork" \in Stages(a, i)
              /\ ~ InWorkflow(a)
<1>1. Len(job.script[a]) \in Nat
  BY SMTT(30), LenProperties DEF KInv, IsJob
<1>2. CASE i > Len(job.script[a])
  BY <1>1, <1>2 DEF FirstLeg, Fits
<1>3. CASE i \in 1..Len(job.script[a])
  BY <1>1, <1>3, FirstStage DEF Fits, KInv
<1> QED BY <1>1, <1>2, <1>3

(* Everyone else rests, and the places are kept. *)
Only(a) == Domains' /\ \A b \in Actors : b # a => Rests(b)

LEMMA EnterGoes ==
  ASSUME KInv, NEW a \in Actors, NEW i, NEW l, NEW m, Enter(a, i, l, m),
         l # "fork" => Fits(a, i, l, m),
         l = "fork" => i \in 1..Len(job.script[a]) /\ l \in Stages(a, i)
  PROVE  Only(a) /\ Goes(a)
<1>1. /\ at' = [at EXCEPT ![a] = i] /\ leg' = [leg EXCEPT ![a] = l]
      /\ reply' = [reply EXCEPT ![a] = "none"]
      /\ value' = [value EXCEPT ![a] = Nothing]
      /\ \E n : /\ memo' = [memo EXCEPT ![a] = n]
                /\ l = "fork" => n \in Fresh
                /\ l # "fork" => n = m
  BY DEF Enter, Unused
<1>2. Only(a)
  BY <1>1 DEF KInv, Domains, Only, Rests
<1>3. Goes(a)
  BY <1>1 DEF KInv, Domains, Goes, Fits
<1> QED BY <1>2, <1>3

Busy(a) == leg[a] \notin {"over", "left"}

LEMMA BusyPlace ==
  ASSUME KInv, NEW a \in Actors, Busy(a)
  PROVE  /\ at[a] \in 1..Len(job.script[a]) /\ leg[a] \in Stages(a, at[a])
         /\ at[a] \in Nat /\ at[a] + 1 \in Nat /\ at[a] + 1 >= 1
         /\ InWorkflow(a) => "error" \in Stages(a, at[a])
<1>1. /\ at[a] \in 1..Len(job.script[a]) /\ leg[a] \in Stages(a, at[a])
  BY DEF KInv, Busy, Fits
<1>2. InWorkflow(a) => "error" \in Stages(a, at[a])
  BY DEF Stages
<1> QED BY <1>1, <1>2

LEMMA ControlGoes ==
  ASSUME KInv, NEW a \in Actors, Busy(a)
  PROVE  /\ \A l : AskFor(a, l) /\ l \in Stages(a, at[a]) => Only(a) /\ Goes(a)
         /\ Proceed(a) => Only(a) /\ Goes(a)
         /\ Over(a) => Only(a) /\ Goes(a)
         /\ Fail(a) => Only(a) /\ Goes(a)
<1>1. \A l : AskFor(a, l) /\ l \in Stages(a, at[a]) => Only(a) /\ Goes(a)
  BY BusyPlace, EnterGoes DEF AskFor, Fits, There, Results
<1>2. Proceed(a) => Only(a) /\ Goes(a)
  BY BusyPlace, FirstLegFits, EnterGoes DEF Proceed
<1>3. Over(a) => Only(a) /\ Goes(a)
  BY EnterGoes DEF Over, Fits
<1>4. Call(a).op = "sendOnce" => "error" \in Stages(a, at[a])
  BY DEF Stages, Call
<1>5. Fail(a) => Only(a) /\ Goes(a)
  BY <1>1, <1>2, <1>3, <1>4, BusyPlace DEF Fail
<1> QED BY <1>1, <1>2, <1>3, <1>5

(* Where a request leads to within its call. *)
LEMMA NextStages ==
  ASSUME KInv, NEW a \in Actors, Busy(a)
  PROVE  /\ leg[a] = "send" /\ Call(a).op = "sendOnce" =>
              "output" \in Stages(a, at[a])
         /\ leg[a] = "create" => "send" \in Stages(a, at[a])
         /\ Call(a).op = "sendOnce" => "await" \in Stages(a, at[a])
         /\ leg[a] \in {"cancelled", "take", "wait"} =>
              {"take", "wait"} \subseteq Stages(a, at[a])
         /\ leg[a] \in {"read", "status"} =>
              {"read", "status"} \subseteq Stages(a, at[a])
         /\ leg[a] \in Recording =>
              /\ InWorkflow(a) /\ Call(a).op \in Stages(a, at[a])
              /\ Recording \subseteq Stages(a, at[a])
         /\ leg[a] \in {"cancel", "resume", "fork"} /\ InWorkflow(a) =>
              Recording \subseteq Stages(a, at[a])
         /\ leg[a] \in {"listPending", "cancelPending", "listEnqueued",
                        "cancelEnqueued"} =>
              {"cancelPending", "listEnqueued", "cancelEnqueued"}
                \subseteq Stages(a, at[a])
         /\ leg[a] = "output" /\ ~ InWorkflow(a) => Call(a).op = "sendOnce"
<1> DEFINE op == job.script[a][at[a]].op
<1>1. at[a] \in 1..Len(job.script[a]) /\ leg[a] \in Stages(a, at[a])
  BY BusyPlace
<1>2. /\ leg[a] \in Recording =>
           InWorkflow(a) /\ op \in {"cancel", "resume", "fork"}
      /\ leg[a] = "create" => op \in Keyed
      /\ leg[a] \in {"cancelled", "take", "wait"} => op = "recv"
      /\ leg[a] \in {"read", "status"} => op = "readStream"
      /\ leg[a] \in {"listPending", "cancelPending", "listEnqueued",
                     "cancelEnqueued"} => op = "globalTimeout"
      /\ leg[a] \in {"cancel", "resume", "fork"} => op = leg[a]
      /\ leg[a] = "output" => op \in {"return", "sendOnce"}
  <2>1. job \in Jobs
    BY DEF KInv
  <2> DEFINE l == leg[a]
  <2>2. l \in Stages(a, at[a]) /\ op = job.script[a][at[a]].op
    BY <1>1
  <2> HIDE DEF l, op
  <2>3. /\ l \in Recording => InWorkflow(a) /\ op \in {"cancel", "resume", "fork"}
        /\ l = "create" => op \in Keyed
        /\ l \in {"cancelled", "take", "wait"} => op = "recv"
        /\ l \in {"read", "status"} => op = "readStream"
        /\ l \in {"listPending", "cancelPending", "listEnqueued",
                  "cancelEnqueued"} => op = "globalTimeout"
        /\ l \in {"cancel", "resume", "fork"} => op = l
        /\ l = "output" => op \in {"return", "sendOnce"}
    BY <1>1, <2>1, <2>2, StageOps
  <2> QED BY <2>3 DEF l
<1>3. op = "return" => InWorkflow(a)
  BY <1>1, ScriptCalls DEF KInv, Allowed, InWorkflow
<1>4. /\ op = "recv" => {"take", "wait"} \subseteq Stages(a, at[a])
      /\ op = "readStream" => {"read", "status"} \subseteq Stages(a, at[a])
      /\ op \in Keyed => "send" \in Stages(a, at[a])
      /\ op = "sendOnce" => {"output", "await"} \subseteq Stages(a, at[a])
  BY ZenonT(30) DEF Stages, Keyed
<1>5. /\ op = "globalTimeout" =>
           {"cancelPending", "listEnqueued", "cancelEnqueued"}
             \subseteq Stages(a, at[a])
      /\ op \in {"cancel", "resume", "fork"} => op \in Stages(a, at[a])
      /\ op \in {"cancel", "resume", "fork"} /\ InWorkflow(a) =>
           Recording \subseteq Stages(a, at[a])
  BY DEF Stages
<1> HIDE DEF op
<1>6. Call(a).op = op
  BY DEF Call, op
<1> QED BY <1>2, <1>3, <1>4, <1>5, <1>6

(* A handler that moves a and tells nothing to its body. *)
LEMMA GoesInv ==
  ASSUME KInv, NEW a \in Actors, Only(a), Goes(a),
         UNCHANGED <<job, backend, late>>,
         \A x \in returned' : x \in returned \/ Known(x[1], x[2], x[3])
  PROVE  KInv'
<1>1. Kept
  BY SameKept DEF backend
<1>2. \A l \in late' : RequestFits(l.request)'
  BY DEF KInv, RequestFits, There, backend
<1> QED BY <1>1, <1>2, StepInv DEF Only

-----------------------------------------------------------------------------
(* An attempt that is answered. *)
LEMMA PutOpTells ==
  ASSUME KInv, NEW a \in Actors, leg[a] = "putOp", Effect(Request(a)),
         Answer(Request(a)) = "ok"
  PROVE  /\ Me(a) \in Rows \ Fresh /\ at[a] \in 1..MaxCalls
         /\ Recorded(a) # Nothing /\ ops'[Me(a)][at[a]] = Recorded(a)
<1> DEFINE r == Request(a)
<1>1. /\ r.kind = "putOp" /\ r.wf = Me(a) /\ r.id = at[a] /\ r.check
      /\ r.new = Recorded(a)
  BY DEF Request, Ask, Recorded
<1>2. ops[Me(a)][at[a]] = Nothing
  BY <1>1 DEF Answer
<1>3. InWorkflow(a) /\ IsJob(job) /\ at[a] \in 1..Len(job.script[a])
  BY BusyPlace, NextStages DEF KInv, Recording, Busy
<1>4. Me(a) \in Rows \ Fresh /\ Exists(Me(a)) /\ at[a] \in 1..MaxCalls
  <2>1. Len(job.script[a]) \in 1..MaxCalls /\ Me(a) \in Rows \ Fresh
    BY <1>3 DEF IsJob, InWorkflow, Me
  <2> QED BY <1>3, <2>1 DEF KInv, StoreFits
<1>5. ops' = [ops EXCEPT ![Me(a)] = [ops[Me(a)] EXCEPT ![at[a]] = Recorded(a)]]
  BY <1>1, <1>2, <1>4 DEF Effect, OpsAfter, RecordOperation
<1>6. ops'[Me(a)][at[a]] = Recorded(a)
  BY <1>4, <1>5 DEF KInv, StoreFits
<1> QED BY <1>4, <1>6 DEF Recorded, Results

LEMMA GetOpTells ==
  ASSUME KInv, NEW a \in Actors, leg[a] = "getOp", Effect(Request(a)),
         Answer(Request(a)) = "found"
  PROVE  Known(Me(a), at[a], Carries(Request(a)))
<1> DEFINE r == Request(a)
<1>1. r.kind = "getOp" /\ r.wf = Me(a) /\ r.id = at[a]
  BY DEF Request, Ask
<1>2. ops[Me(a)][at[a]] # Nothing /\ Carries(r) = ops[Me(a)][at[a]]
  BY <1>1 DEF Answer, Carries
<1>3. InWorkflow(a) /\ IsJob(job) /\ at[a] \in 1..Len(job.script[a])
  BY BusyPlace, NextStages DEF KInv, Recording, Busy
<1>4. Len(job.script[a]) \in 1..MaxCalls /\ Me(a) \in Rows \ Fresh
  BY <1>3 DEF IsJob, InWorkflow, Me
<1> QED BY <1>2, <1>3, <1>4 DEF Known

LEMMA ForkTells ==
  ASSUME KInv, NEW a \in Actors, leg[a] = "fork", Effect(Request(a)),
         Answer(Request(a)) = "ok"
  PROVE  memo[a] \in Rows => row'[memo[a]] # "absent"
<1>1. Request(a).kind = "fork" /\ Request(a).new = memo[a]
  BY DEF Request, Ask
<1>2. row' = [row EXCEPT ![memo[a]] = "PENDING"]
  BY <1>1 DEF Answer, Effect, RowAfter, ForkWorkflow
<1> QED BY <1>2 DEF KInv, StoreFits

LEMMA ServeK ==
  ASSUME KInv, NEW a \in Actors, Serve(a)
  PROVE  KInv'
<1> DEFINE r == Request(a)
<1>1. /\ Effect(r) /\ reply' = [reply EXCEPT ![a] = Answer(r)]
      /\ value' = [value EXCEPT ![a] = Carries(r)]
      /\ UNCHANGED <<job, late, at, leg, memo, returned>>
  BY DEF Serve, seenOutside
<1>2. Kept
  BY <1>1, AskedFits, EffectKept
<1>3. Domains'
  BY <1>1 DEF KInv, Domains
<1>4. \A b \in Actors : b # a => Rests(b)
  BY <1>1 DEF KInv, Domains, Rests
<1>5. reply'[a] = Answer(r) /\ value'[a] = Carries(r)
  BY <1>1 DEF KInv, Domains
<1> HIDE DEF r
<1>6. Fits(a, at[a], leg[a], memo[a])'
  BY <1>1, <1>2, KnownStays, StagesStay DEF KInv, Fits
<1>7. Learned(a)'
  <2>1. ASSUME leg[a] = "putOp", Answer(r) = "ok"
        PROVE  Known(Me(a), at[a], Recorded(a))'
    BY <1>1, <2>1, PutOpTells DEF Known, Me, Recorded, r
  <2>2. ASSUME leg[a] = "getOp", Answer(r) = "found"
        PROVE  Known(Me(a), at[a], value[a])'
    <3>1. Known(Me(a), at[a], Carries(r))
      BY <1>1, <2>2, GetOpTells DEF r
    <3> QED BY <1>1, <1>2, <1>5, <3>1 DEF Known, Kept, Me
  <2>3. ASSUME leg[a] = "fork", Answer(r) = "ok"
        PROVE  There(memo[a])'
    BY SMTT(30), <1>1, <2>3, ForkTells DEF There, r
  <2>4. /\ leg[a] \in {"setEvent", "write", "close"} => Answer(r) = "ok"
        /\ leg[a] = "status" => Answer(r) \in {"ok", "empty"}
        /\ leg[a] = "create" => Answer(r) \in {"ok", "exists"}
        /\ leg[a] \in {"cancelled", "wait"} => Answer(r) # "found"
    BY DEF Answer, Request, Ask, r
  <2> QED BY <1>1, <1>5, <2>1, <2>2, <2>3, <2>4 DEF Learned
<1>8. \A b \in Actors : Fits(b, at[b], leg[b], memo[b])' /\ Learned(b)'
  BY <1>1, <1>2, <1>4, <1>6, <1>7, RestsFits
<1>9. \A l \in late' : RequestFits(l.request)'
  BY <1>1, <1>2, KnownStays DEF KInv, RequestFits
<1>10. \A x \in returned' : Known(x[1], x[2], x[3])'
  BY <1>1, <1>2, KnownStays DEF KInv
<1> QED BY <1>1, <1>2, <1>3, <1>8, <1>9, <1>10 DEF KInv, Kept

(* An attempt that fails, and may have reached the backend all the same. *)
LEMMA RetryK ==
  ASSUME KInv, NEW a \in Actors, Retry(a), Kept,
         \A l \in late' : l \in late \/ RequestFits(l.request)
  PROVE  KInv'
<1>1. /\ UNCHANGED <<job, at, leg, value, memo, returned>>
      /\ reply' \in {reply, [reply EXCEPT ![a] = "threw"]}
  BY DEF Retry, seenOutside
<1>2. Domains' /\ \A b \in Actors : Rests(b)
  BY <1>1 DEF KInv, Domains, Rests
<1>3. \A l \in late' : RequestFits(l.request)'
  BY KnownStays DEF KInv, RequestFits
<1> QED BY <1>1, <1>2, <1>3, StepInv

LEMMA AttemptK ==
  ASSUME KInv, NEW a \in Actors, Attempt(a)
  PROVE  KInv'
<1>1. CASE Serve(a)
  BY <1>1, ServeK
<1>2. CASE Refused(a) \/ Abandoned(a)
  <2>1. /\ Retry(a) /\ UNCHANGED <<job, row, ops>>
        /\ \A l \in late' : l \in late \/ l.request = Request(a)
    BY <1>2 DEF Refused, Abandoned, Retry, backend
  <2> QED BY <2>1, AskedFits, SameKept, RetryK
<1>3. CASE ReplyLost(a)
  <2>1. Retry(a) /\ Effect(Request(a)) /\ UNCHANGED <<job, late>>
    BY <1>3 DEF ReplyLost, Retry
  <2> QED BY <2>1, AskedFits, EffectKept, RetryK
<1> QED BY <1>1, <1>2, <1>3 DEF Attempt

-----------------------------------------------------------------------------
(* The handlers that only move. *)
LEMMA MovingK ==
  ASSUME KInv, NEW a \in Actors,
         \/ SendAnswered(a) \/ CreateAnswered(a) \/ AwaitAnswered(a)
         \/ ResultAnswered(a) \/ StopsCancelled(a) \/ EventAnswered(a)
         \/ StreamAnswered(a) \/ PutErrorAnswered(a)
  PROVE  KInv'
<1>1. UNCHANGED <<job, backend, late, returned>> /\ Busy(a)
  BY DEF SendAnswered, CreateAnswered, AwaitAnswered, ResultAnswered,
         StopsCancelled, EventAnswered, StreamAnswered, PutErrorAnswered,
         Answered, Asking, Busy, seenOutside
<1>2. Only(a) /\ Goes(a)
  <2>1. CASE SendAnswered(a) \/ CreateAnswered(a)
    BY <1>1, <2>1, ControlGoes, NextStages
       DEF SendAnswered, CreateAnswered, Answered
  <2>2. CASE AwaitAnswered(a)
    <3>1. leg[a] = "await" /\ leg[a] \in Stages(a, at[a])
      BY <1>1, <2>2, BusyPlace DEF AwaitAnswered, Answered
    <3> QED BY <1>1, <2>2, <3>1, ControlGoes DEF AwaitAnswered
  <2>3. CASE ResultAnswered(a)
    BY <1>1, <2>3, ControlGoes, NextStages DEF ResultAnswered, Answered
  <2>4. CASE StopsCancelled(a) \/ PutErrorAnswered(a)
    BY <1>1, <2>4, ControlGoes DEF StopsCancelled, PutErrorAnswered
  <2>5. CASE EventAnswered(a)
    <3>1. /\ leg[a] \in Stages(a, at[a]) /\ leg[a] \in {"setEvent", "getEvent"}
          /\ reply[a] = "empty" => leg[a] = "getEvent"
      BY <1>1, <2>5, BusyPlace DEF EventAnswered, Answered, KInv, Learned
    <3> QED BY <1>1, <2>5, <3>1, ControlGoes DEF EventAnswered
  <2>6. CASE StreamAnswered(a)
    <3>1. reply[a] = "found" => leg[a] = "read"
      BY <2>6 DEF StreamAnswered, Answered, KInv, Learned
    <3> QED BY <1>1, <2>6, <3>1, ControlGoes, NextStages DEF StreamAnswered
  <2> QED BY <2>1, <2>2, <2>3, <2>4, <2>5, <2>6
<1> QED BY <1>1, <1>2, GoesInv

LEMMA ExitK ==
  ASSUME KInv, NEW a \in Actors, Exit(a), UNCHANGED <<job, backend, late, returned>>
  PROVE  KInv'
<1>1. Domains'
  BY DEF Exit, KInv, Domains
<1>2. \A b \in Actors : Rests(b) \/ Goes(b)
  <2> SUFFICES ASSUME NEW b \in Actors PROVE Rests(b) \/ Goes(b)
    OBVIOUS
  <2>1. CASE job.proc[b] = job.proc[a]
    <3>1. leg'[b] \in {"left", "over"} /\ reply'[b] = "none"
      BY <2>1 DEF Exit
    <3> QED BY <3>1 DEF Goes, Fits
  <2>2. CASE job.proc[b] # job.proc[a]
    BY <2>2 DEF Exit, Rests
  <2> QED BY <2>1, <2>2
<1>3. Kept
  BY SameKept DEF backend
<1>4. \A l \in late' : RequestFits(l.request)'
  BY DEF KInv, RequestFits, There, backend
<1> QED BY <1>1, <1>2, <1>3, <1>4, StepInv

LEMMA RecvK ==
  ASSUME KInv, NEW a \in Actors, RecvAnswered(a)
  PROVE  KInv'
<1>1. UNCHANGED <<job, backend, late, returned>> /\ Busy(a)
  BY DEF RecvAnswered, Answered, Busy
<1>2. (Only(a) /\ Goes(a)) \/ Exit(a)
  <2>1. {"take", "wait"} \subseteq Stages(a, at[a])
    BY <1>1, NextStages DEF RecvAnswered, Answered
  <2> QED BY <1>1, <2>1, ControlGoes DEF RecvAnswered
<1> QED BY <1>1, <1>2, GoesInv, ExitK

(* The handlers of a recorded call. *)
LEMMA GetOpK ==
  ASSUME KInv, NEW a \in Actors, GetOpAnswered(a)
  PROVE  KInv'
<1>1. leg[a] = "getOp" /\ UNCHANGED <<job, backend, late>> /\ Busy(a)
  BY DEF GetOpAnswered, Answered, Busy
<1>2. Call(a).op \in Stages(a, at[a])
  BY <1>1, NextStages DEF Recording
<1>3. Only(a) /\ Goes(a)
  BY <1>1, <1>2, ControlGoes DEF GetOpAnswered
<1>4. \A x \in returned' : x \in returned \/ Known(x[1], x[2], x[3])
  <2>1. reply[a] = "found" => Known(Me(a), at[a], value[a])
    BY <1>1 DEF KInv, Learned
  <2> QED BY <2>1 DEF GetOpAnswered, Returns
<1> QED BY <1>1, <1>3, <1>4, GoesInv

LEMMA ManageK ==
  ASSUME KInv, NEW a \in Actors, ManageAnswered(a)
  PROVE  KInv'
<1>1. /\ leg[a] \in {"cancel", "resume", "fork"} /\ Busy(a)
      /\ UNCHANGED <<job, backend, late, returned>>
  BY DEF ManageAnswered, Answered, Busy, seenOutside
<1>2. reply[a] = "ok" => There(memo[a])
  BY <1>1 DEF KInv, Learned, Fits, There, Results
<1>3. InWorkflow(a) /\ reply[a] = "ok" => Fits(a, at[a], "putOp", memo[a])
  BY <1>1, <1>2, BusyPlace, NextStages DEF Fits, Recording
<1>4. InWorkflow(a) => Fits(a, at[a], "putError", Thrown)
  BY <1>1, BusyPlace, NextStages DEF Fits, Recording
<1>5. Only(a) /\ Goes(a)
  BY <1>1, <1>3, <1>4, EnterGoes, ControlGoes DEF ManageAnswered
<1> QED BY <1>1, <1>5, GoesInv

LEMMA PutOpK ==
  ASSUME KInv, NEW a \in Actors, PutOpAnswered(a)
  PROVE  KInv'
<1>1. leg[a] = "putOp" /\ UNCHANGED <<job, backend, late>> /\ Busy(a)
  BY DEF PutOpAnswered, Answered, Busy
<1>2. \A m : Fits(a, at[a], "putError", m)
  BY <1>1, BusyPlace, NextStages DEF Fits, Recording
<1>3. Only(a) /\ Goes(a)
  BY <1>1, <1>2, EnterGoes, ControlGoes DEF PutOpAnswered
<1>4. \A x \in returned' : x \in returned \/ Known(x[1], x[2], x[3])
  <2>1. reply[a] = "ok" => Known(Me(a), at[a], Recorded(a))
    BY <1>1 DEF KInv, Learned
  <2> QED BY <2>1 DEF PutOpAnswered, Returns, Recorded
<1> QED BY <1>1, <1>3, <1>4, GoesInv

LEMMA SweepK ==
  ASSUME KInv, NEW a \in Actors, SweepPending(a) \/ SweepEnqueued(a)
  PROVE  KInv'
<1>1. UNCHANGED <<job, backend, late, returned>> /\ Busy(a)
  BY DEF SweepPending, SweepEnqueued, Answered, Busy, seenOutside
<1>5. {"cancelPending", "listEnqueued", "cancelEnqueued"} \subseteq Stages(a, at[a])
  BY <1>1, NextStages DEF SweepPending, SweepEnqueued, Answered
<1>2. \A l \in {"cancelPending", "cancelEnqueued"} : \A m : Fits(a, at[a], l, m)
  BY <1>1, <1>5, BusyPlace DEF Fits
<1>3. \A l \in {"cancelPending", "cancelEnqueued"} :
        Sweep(a, l) => Only(a) /\ Goes(a)
  BY <1>2, EnterGoes DEF Sweep
<1>4. Only(a) /\ Goes(a)
  BY <1>1, <1>3, <1>5, ControlGoes DEF SweepPending, SweepEnqueued
<1> QED BY <1>1, <1>4, GoesInv

LEMMA HandleK ==
  ASSUME KInv, NEW a \in Actors, Handle(a)
  PROVE  KInv'
BY MovingK, RecvK, GetOpK, ManageK, PutOpK, SweepK DEF Handle

-----------------------------------------------------------------------------
(* The rest of the world. *)
LEMMA ArriveK ==
  ASSUME KInv, NEW l \in late, Arrive(l)
  PROVE  KInv'
<1>1. /\ Effect(l.request) /\ RequestFits(l.request)
      /\ UNCHANGED <<job, at, leg, reply, value, memo, returned>>
      /\ late' \subseteq late
  BY DEF Arrive, KInv, control, seenOutside
<1>2. Kept
  BY <1>1, EffectKept
<1>3. Domains' /\ \A b \in Actors : Rests(b)
  BY <1>1 DEF KInv, Domains, Rests
<1>4. \A k \in late' : RequestFits(k.request)'
  BY <1>1, <1>2, KnownStays DEF KInv, RequestFits
<1> QED BY <1>1, <1>2, <1>3, <1>4, StepInv

LEMMA DequeueK ==
  ASSUME KInv, NEW w \in Rows, Dequeue(w)
  PROVE  KInv'
<1>1. /\ row' = [row EXCEPT ![w] = "PENDING"]
      /\ UNCHANGED <<job, ops, late, at, leg, reply, value, memo, returned>>
  BY DEF Dequeue, control, seenOutside
<1>2. Kept
  BY <1>1 DEF KInv, Kept, StoreFits, There, InWorkflow, Exists, Me
<1>3. Domains' /\ \A b \in Actors : Rests(b)
  BY <1>1 DEF KInv, Domains, Rests
<1>4. \A k \in late' : RequestFits(k.request)'
  BY <1>1, <1>2, KnownStays DEF KInv, RequestFits
<1> QED BY <1>1, <1>2, <1>3, <1>4, StepInv

LEMMA TimeOutK ==
  ASSUME KInv, NEW w, NEW i, TimeOut(w, i)
  PROVE  KInv'
<1>1. UNCHANGED <<job, row, ops, late, at, leg, reply, value, memo, returned>>
  BY DEF TimeOut, control, seenOutside
<1>2. Kept /\ Domains' /\ \A b \in Actors : Rests(b)
  BY <1>1, SameKept DEF KInv, Domains, Rests
<1>3. \A k \in late' : RequestFits(k.request)'
  BY <1>1, <1>2, KnownStays DEF KInv, RequestFits
<1> QED BY <1>1, <1>2, <1>3, StepInv

LEMMA CrashK ==
  ASSUME KInv, NEW p \in Procs, Crash(p)
  PROVE  KInv'
<1> DEFINE hit == {a \in Actors : job.proc[a] = p /\ Busy(a)}
<1>1. /\ at' = [a \in Actors |-> IF a \in hit /\ InWorkflow(a) THEN 1 ELSE at[a]]
      /\ leg' = [a \in Actors |-> IF a \in hit THEN Recovered(a) ELSE leg[a]]
      /\ reply' = [a \in Actors |-> IF a \in hit THEN "none" ELSE reply[a]]
      /\ value' = [a \in Actors |-> IF a \in hit THEN Nothing ELSE value[a]]
      /\ memo' = [a \in Actors |-> IF a \in hit THEN Nothing ELSE memo[a]]
      /\ UNCHANGED <<job, backend, late, returned>>
  BY DEF Crash, seenOutside, Busy
<1>2. Domains'
  BY <1>1 DEF Domains
<1>3. \A a \in Actors : a \notin hit => Rests(a)
  BY <1>1 DEF Rests
<1>4. \A a \in Actors : a \in hit => Goes(a)
  <2> SUFFICES ASSUME NEW a \in Actors, a \in hit PROVE Goes(a)
    OBVIOUS
  <2>1. Busy(a) /\ leg'[a] = Recovered(a) /\ reply'[a] = "none"
        /\ memo'[a] = Nothing /\ at'[a] = IF InWorkflow(a) THEN 1 ELSE at[a]
    BY <1>1
  <2>2. CASE InWorkflow(a)
    BY <2>1, <2>2, FirstLegFits DEF Recovered, Goes
  <2>3. CASE ~ InWorkflow(a)
    <3>1. leg'[a] = "send" => "send" \in Stages(a, at[a])
      BY <2>1, <2>3 DEF Recovered, Stages, Call
    <3> QED BY <2>1, <2>3, <3>1, BusyPlace DEF Recovered, Goes, Fits
  <2> QED BY <2>2, <2>3
<1>5. Kept
  BY <1>1, SameKept DEF backend
<1>6. \A l \in late' : RequestFits(l.request)'
  BY <1>1 DEF KInv, RequestFits, There, backend
<1> HIDE DEF hit
<1> QED BY <1>1, <1>2, <1>3, <1>4, <1>5, <1>6, StepInv

LEMMA WakeK ==
  ASSUME KInv, NEW a \in Actors, Wake(a)
  PROVE  KInv'
<1>1. /\ Enter(a, 1, FirstLeg(a, 1), Nothing)
      /\ UNCHANGED <<job, backend, late, returned>>
  BY DEF Wake, seenOutside
<1>2. Only(a) /\ Goes(a)
  BY <1>1, FirstLegFits, EnterGoes
<1> QED BY <1>1, <1>2, GoesInv

-----------------------------------------------------------------------------
LEMMA InitKInv == Init => KInv
<1> SUFFICES ASSUME Init PROVE KInv
  OBVIOUS
<1>1. job \in Jobs /\ IsJob(job) /\ late = {} /\ returned = {}
  BY DEF Init
<1>2. StoreFits
  <2>1. row \in [Rows -> {"absent", "ENQUEUED", "PENDING"}]
    BY <1>1 DEF Init, IsJob
  <2>2. /\ DOMAIN ops = Rows
        /\ \A w \in Rows : DOMAIN ops[w] = 1..MaxCalls
        /\ \A w \in Rows : \A i \in 1..MaxCalls : ops[w][i] = Nothing
    BY DEF Init
  <2>3. \A a \in Actors : InWorkflow(a) => Exists(Me(a))
    BY <1>1 DEF Init, IsJob, InWorkflow, Exists, Me
  <2> QED BY <2>1, <2>2, <2>3 DEF StoreFits, There, Results
<1>3. Domains
  BY DEF Init, Domains
<1>4. \A a \in Actors : at[a] = 1 /\ leg[a] = FirstLeg(a, 1) /\ reply[a] = "none"
  BY DEF Init
<1>5. \A a \in Actors : 1 \in 1..Len(job.script[a])
  BY <1>1 DEF IsJob
<1>6. \A a \in Actors : /\ FirstLeg(a, 1) \in Stages(a, 1)
                        /\ FirstLeg(a, 1) \notin {"putOp", "putError"}
  BY <1>1, <1>5, FirstStage
<1>7. \A a \in Actors : /\ leg[a] = "fork" => memo[a] \in Fresh
                        /\ leg[a] # "fork" => memo[a] = Nothing
  BY DEF Init
<1>8. \A a \in Actors : Fits(a, at[a], leg[a], memo[a])
  BY <1>4, <1>5, <1>6, <1>7 DEF Fits
<1>9. \A a \in Actors : Learned(a)
  BY <1>4 DEF Learned
<1> QED BY <1>1, <1>2, <1>3, <1>8, <1>9 DEF KInv

LEMMA NextKInv == KInv /\ [Next]_vars => KInv'
<1> SUFFICES ASSUME KInv, [Next]_vars PROVE KInv'
  OBVIOUS
<1>1. CASE UNCHANGED vars
  <2>1. UNCHANGED <<job, row, ops, late, at, leg, reply, value, memo, returned>>
    BY <1>1 DEF vars, backend, control, seenOutside
  <2>2. Kept
    BY <2>1, SameKept
  <2>3. Domains' /\ \A b \in Actors : Rests(b)
    BY <2>1 DEF KInv, Domains, Rests
  <2>4. \A k \in late' : RequestFits(k.request)'
    BY <2>1, <2>2, KnownStays DEF KInv, RequestFits
  <2> QED BY <2>1, <2>2, <2>3, <2>4, StepInv
<1>2. CASE \E a \in Actors : Attempt(a) \/ Handle(a) \/ Wake(a)
  BY <1>2, AttemptK, HandleK, WakeK
<1>3. CASE \E l \in late : Arrive(l)
  BY <1>3, ArriveK
<1>4. CASE \/ \E w \in Rows : Dequeue(w) \/ \E i \in 1..MaxCalls : TimeOut(w, i)
           \/ \E p \in Procs : Crash(p)
  BY <1>4, DequeueK, TimeOutK, CrashK
<1> QED BY <1>1, <1>2, <1>3, <1>4 DEF Next

-----------------------------------------------------------------------------
(* What is returned is recorded, in every reachable state. *)
THEOREM InvarianceK == Spec => []KInv
<1>1. Init => KInv
  BY InitKInv
<1>2. KInv /\ [Next]_vars => KInv'
  BY NextKInv
<1> QED BY <1>1, <1>2, PTL DEF Spec

(* All executions of a body are given the same result of a management      *)
(* call, and a fork that is returned is there                              *)
(* (solidactions-executor.ts, runInternalStep).                            *)
THEOREM SameResult == Spec => []OneResult
<1>1. KInv => OneResult
  <2> SUFFICES ASSUME KInv, NEW x \in returned, NEW y \in returned
               PROVE  /\ x[1] = y[1] /\ x[2] = y[2] => x[3] = y[3]
                      /\ x[3] \in Rows => row[x[3]] # "absent"
    BY DEF OneResult
  <2>1. Known(x[1], x[2], x[3]) /\ Known(y[1], y[2], y[3])
    BY DEF KInv
  <2> QED BY <2>1 DEF Known, KInv, StoreFits, There
<1> QED BY <1>1, InvarianceK, PTL

-----------------------------------------------------------------------------
(* The cache of cancellations, while nothing fails. *)
Cancelling == {"cancel", "cancelPending", "cancelEnqueued"}

Target(a) == IF leg[a] = "cancel" THEN Call(a).wf ELSE memo[a]

Manages(a, w) == Managers(w) = {a}

(* a has resumed w, and has not taken note of it yet. *)
Resumed(a, w) == leg[a] = "resume" /\ reply[a] = "ok" /\ Call(a).wf = w

(* A fork that is under way has an id of its own. *)
ForksApart ==
  /\ \A a, b \in Actors :
       leg[a] = "fork" /\ leg[b] = "fork" /\ memo[a] = memo[b] => a = b
  /\ \A a \in Actors :
       leg[a] = "fork" /\ reply[a] = "none" => row[memo[a]] = "absent"

(* A flag is its only manager's, and tells the truth until that manager    *)
(* has ended the cancellation.                                             *)
FlagsTrue ==
  \A a \in Actors, w \in Rows : Manages(a, w) =>
    /\ leg[a] \in Cancelling /\ reply[a] = "ok" /\ Target(a) = w
         => row[w] = "CANCELLED"
    /\ \A p \in Procs : <<p, w>> \in flags =>
         p = job.proc[a] /\ (row[w] = "CANCELLED" \/ Resumed(a, w))

FInv ==
  /\ faults \in Nat
  /\ faults = 0 => late = {} /\ ForksApart /\ FlagsTrue

LEMMA ManagersStay ==
  ASSUME UNCHANGED job
  PROVE  \A a, w : Manages(a, w)' <=> Manages(a, w)
BY DEF Manages, Managers, CallsOf

(* Who cancels or resumes a workflow is one of its managers. *)
LEMMA ManagersAct ==
  ASSUME KInv, NEW a \in Actors
  PROVE  /\ leg[a] \in {"cancel", "resume"} => a \in Managers(Call(a).wf)
         /\ leg[a] \in {"listPending", "cancelPending", "listEnqueued",
                        "cancelEnqueued"} => \A w : a \in Managers(w)
<1>1. CASE ~ Busy(a)
  BY <1>1 DEF Busy
<1>2. CASE Busy(a)
  <2>1. at[a] \in 1..Len(job.script[a]) /\ leg[a] \in Stages(a, at[a])
    BY <1>2, BusyPlace
  <2>2. /\ leg[a] \in {"cancel", "resume"} => Call(a).op = leg[a]
        /\ leg[a] \in {"listPending", "cancelPending", "listEnqueued",
                       "cancelEnqueued"} => Call(a).op = "globalTimeout"
    <3>1. job \in Jobs
      BY DEF KInv
    <3> DEFINE l == leg[a]
               op == job.script[a][at[a]].op
    <3>2. l \in Stages(a, at[a]) /\ op = job.script[a][at[a]].op
      BY <2>1
    <3> HIDE DEF l, op
    <3>3. /\ l \in {"cancel", "resume", "fork"} => op = l
          /\ l \in {"listPending", "cancelPending", "listEnqueued",
                    "cancelEnqueued"} => op = "globalTimeout"
      BY <2>1, <3>1, <3>2, StageOps
    <3> QED BY <3>3 DEF l, op, Call
  <2>3. Call(a) \in CallsOf(a)
    <3>1. job.script[a] \in Seq(Calls)
      BY DEF KInv, IsJob
    <3> QED BY <2>1, <3>1, LenProperties DEF CallsOf, Call
  <2> QED BY <2>2, <2>3 DEF Managers
<1> QED BY <1>1, <1>2

(* What a request does to the rows. *)
LEMMA RowsStay ==
  ASSUME KInv, ForksApart, NEW a \in Actors, reply[a] = "none",
         row' = RowAfter(Request(a))
  PROVE  /\ \A w \in Rows : row[w] = "CANCELLED" =>
              \/ row'[w] = "CANCELLED"
              \/ leg[a] = "resume" /\ Call(a).wf = w
         /\ \A w \in Fresh : row[w] = "absent" =>
              \/ row'[w] = "absent"
              \/ leg[a] = "fork" /\ memo[a] = w
         /\ leg[a] \in Cancelling /\ Exists(Target(a)) =>
              row'[Target(a)] = "CANCELLED"
<1> DEFINE r == Request(a)
<1>1. DOMAIN row = Rows
  BY DEF KInv, StoreFits
<1>2. CASE leg[a] \in {"cancel", "cancelPending", "cancelEnqueued"}
  <2>1. r.kind = "cancel" /\ r.wf = Target(a)
    BY <1>2 DEF Request, Ask, Target
  <2>2. row' = CancelWorkflow(r)
    BY <2>1 DEF RowAfter
  <2> QED BY <1>1, <1>2, <2>1, <2>2 DEF CancelWorkflow, Exists
<1>3. CASE leg[a] = "resume"
  <2>1. r.kind = "resume" /\ r.wf = Call(a).wf
    BY <1>3 DEF Request, Ask
  <2> QED BY <1>1, <1>3, <2>1 DEF RowAfter, ResumeWorkflow, Exists, Cancelling
<1>4. CASE leg[a] = "fork"
  <2>1. r.kind = "fork" /\ r.new = memo[a]
    BY <1>4 DEF Request, Ask
  <2>2. row[memo[a]] = "absent"
    BY <1>4 DEF ForksApart
  <2> QED BY <1>1, <1>4, <2>1, <2>2 DEF RowAfter, ForkWorkflow, Cancelling
<1>5. CASE leg[a] = "create"
  <2>1. r.kind = "create" /\ r.wf = Call(a).temp
    BY <1>5 DEF Request, Ask
  <2>2. Call(a).temp \notin Fresh
    <3>1. at[a] \in 1..Len(job.script[a]) /\ leg[a] \in Stages(a, at[a])
      BY <1>5, BusyPlace DEF Busy
    <3>2. Call(a).op \in Keyed
      BY <1>5, <3>1, StageOps DEF KInv, Call
    <3> QED BY <3>1, <3>2, ScriptCalls DEF KInv, Allowed, Call, Keyed
  <2> QED BY <1>1, <1>5, <2>1, <2>2 DEF RowAfter, CreateWorkflow, Exists, Cancelling
<1>6. CASE leg[a] \in {"output", "error"}
  <2>1. r.kind = "result"
    BY <1>6 DEF Request, Ask
  <2> QED BY <1>1, <1>6, <2>1 DEF RowAfter, RecordResult, Exists, Cancelling
<1>7. CASE leg[a] \notin {"cancel", "cancelPending", "cancelEnqueued", "resume",
                         "fork", "create", "output", "error"}
  <2>1. leg[a] # "result"
    BY BusyPlace, StageOps DEF KInv, Busy
  <2>2. r.kind \notin {"create", "cancel", "resume", "fork", "result"}
    BY <1>7, <2>1 DEF Request, Ask
  <2> QED BY <1>7, <2>2 DEF RowAfter, Cancelling
<1> QED BY <1>2, <1>3, <1>4, <1>5, <1>6, <1>7

LEMMA ServeF ==
  ASSUME KInv, KInv', FInv, NEW a \in Actors, Serve(a)
  PROVE  FInv'
<1> DEFINE r == Request(a)
<1> SUFFICES ASSUME faults = 0, late = {}, ForksApart, FlagsTrue
             PROVE  ForksApart' /\ FlagsTrue'
  BY DEF FInv, Serve
<1>1. /\ row' = RowAfter(r) /\ reply' = [reply EXCEPT ![a] = Answer(r)]
      /\ UNCHANGED <<job, at, leg, memo, flags>> /\ reply[a] = "none"
  BY DEF Serve, Effect, Asking
<1>2. /\ reply'[a] = Answer(r)
      /\ \A b \in Actors : b # a => reply'[b] = reply[b]
  BY <1>1 DEF KInv, Domains
<1>3. /\ \A w \in Rows : row[w] = "CANCELLED" =>
           row'[w] = "CANCELLED" \/ (leg[a] = "resume" /\ Call(a).wf = w)
      /\ \A w \in Fresh : row[w] = "absent" =>
           row'[w] = "absent" \/ (leg[a] = "fork" /\ memo[a] = w)
      /\ leg[a] \in Cancelling /\ Exists(Target(a)) => row'[Target(a)] = "CANCELLED"
  BY <1>1, RowsStay
<1>4. \A b \in Actors : Call(b)' = Call(b) /\ Target(b)' = Target(b)
  BY <1>1 DEF Call, Target
<1>5. ForksApart'
  <2>1. \A b \in Actors : leg[b] = "fork" => memo[b] \in Fresh
    BY DEF KInv, Fits
  <2>2. Answer(r) # "none"
    BY DEF Answer, ReadAnswer
  <2> QED BY <1>1, <1>2, <1>3, <2>1, <2>2 DEF ForksApart
<1>6. FlagsTrue'
  <2> SUFFICES ASSUME NEW b \in Actors, NEW w \in Rows, Manages(b, w)
               PROVE  /\ leg[b] \in Cancelling /\ reply'[b] = "ok" /\ Target(b) = w
                           => row'[w] = "CANCELLED"
                      /\ \A p \in Procs : <<p, w>> \in flags =>
                           /\ p = job.proc[b]
                           /\ row'[w] = "CANCELLED" \/ Resumed(b, w)'
    BY <1>1, <1>4, ManagersStay DEF FlagsTrue
  <2>1. leg[a] = "resume" /\ Call(a).wf = w => a = b
    BY ManagersAct DEF Manages
  <2>2. leg[a] = "resume" /\ Call(a).wf = w /\ row[w] = "CANCELLED" =>
          Answer(r) = "ok"
    BY DEF Answer, Request, Ask, Exists
  <2>3. leg[a] \in Cancelling /\ Answer(r) = "ok" => Exists(Target(a))
    <3>1. leg[a] \in Cancelling => r.kind = "cancel" /\ r.wf = Target(a)
      BY DEF Cancelling, Request, Ask, Target
    <3> QED BY <3>1 DEF Answer
  <2>4. Resumed(b, w) /\ b # a => Resumed(b, w)'
    BY <1>1, <1>2, <1>4 DEF Resumed
  <2>5. ~ Resumed(a, w)
    BY <1>1 DEF Resumed
  <2>6. row[w] = "CANCELLED" => row'[w] = "CANCELLED" \/ Resumed(b, w)'
    BY <1>1, <1>2, <1>3, <1>4, <2>1, <2>2 DEF Resumed
  <2>7. leg[b] \in Cancelling /\ reply'[b] = "ok" /\ Target(b) = w
          => row'[w] = "CANCELLED"
    <3>1. CASE b = a
      BY <1>2, <1>3, <2>3, <3>1
    <3>2. CASE b # a
      BY <1>2, <1>3, <2>1, <3>2 DEF FlagsTrue
    <3> QED BY <3>1, <3>2
  <2> QED BY <2>4, <2>5, <2>6, <2>7 DEF FlagsTrue
<1> QED BY <1>5, <1>6

(* a goes from one request to the next. *)
Enters(a) == \E i, l, m : Enter(a, i, l, m)

LEMMA GoesEnter ==
  ASSUME NEW a
  PROVE  /\ \A l : AskFor(a, l) => Enters(a)
         /\ Proceed(a) => Enters(a)
         /\ Over(a) => Enters(a)
         /\ Fail(a) => Enters(a)
BY DEF AskFor, Proceed, Over, Fail, Enters

(* What a handler does to the flags. *)
FlagsMove(a) ==
  \A p \in Procs, w \in Rows : <<p, w>> \in flags' =>
    \/ <<p, w>> \in flags /\ ~ (p = job.proc[a] /\ Resumed(a, w))
    \/ /\ p = job.proc[a] /\ leg[a] \in Cancelling /\ reply[a] = "ok"
       /\ Target(a) = w

LEMMA FewerFlags ==
  ASSUME NEW a
  PROVE  /\ UNCHANGED flags /\ ~ (leg[a] = "resume" /\ reply[a] = "ok")
              => FlagsMove(a)
         /\ \A w : Unflag(a, w) /\ leg[a] # "resume" => FlagsMove(a)
         /\ Fail(a) /\ ~ (leg[a] = "resume" /\ reply[a] = "ok") => FlagsMove(a)
         /\ Over(a) /\ ~ (leg[a] = "resume" /\ reply[a] = "ok") => FlagsMove(a)
BY DEF FlagsMove, Resumed, Unflag, Fail, Over

(* The handlers that set no flag. *)
LEMMA PlainFlags ==
  ASSUME KInv, NEW a \in Actors,
         \/ SendAnswered(a) \/ CreateAnswered(a) \/ AwaitAnswered(a)
         \/ ResultAnswered(a) \/ StopsCancelled(a) \/ EventAnswered(a)
         \/ StreamAnswered(a) \/ GetOpAnswered(a) \/ PutOpAnswered(a)
         \/ PutErrorAnswered(a)
  PROVE  Enters(a) /\ FlagsMove(a)
<1>1. CASE SendAnswered(a) \/ CreateAnswered(a) \/ AwaitAnswered(a)
  BY <1>1, GoesEnter, FewerFlags
     DEF SendAnswered, CreateAnswered, AwaitAnswered, Answered
<1>2. CASE ResultAnswered(a) \/ StopsCancelled(a) \/ EventAnswered(a)
  BY <1>2, GoesEnter, FewerFlags
     DEF ResultAnswered, StopsCancelled, EventAnswered, Answered, Asking
<1>3. CASE StreamAnswered(a) \/ GetOpAnswered(a)
  BY <1>3, GoesEnter, FewerFlags DEF StreamAnswered, GetOpAnswered, Answered
<1>4. CASE PutOpAnswered(a) \/ PutErrorAnswered(a)
  BY <1>4, GoesEnter, FewerFlags
     DEF PutOpAnswered, PutErrorAnswered, Answered, Enters
<1> QED BY <1>1, <1>2, <1>3, <1>4

LEMMA ManageFlags ==
  ASSUME KInv, NEW a \in Actors, ManageAnswered(a)
  PROVE  Enters(a) /\ FlagsMove(a)
<1>1. leg[a] \in {"cancel", "resume", "fork"}
  BY DEF ManageAnswered, Answered
<1>2. Enters(a)
  BY GoesEnter DEF ManageAnswered, Enters
<1>3. CASE reply[a] = "ok"
  <2>1. KeepFlag(a)
    BY <1>3 DEF ManageAnswered
  <2> QED BY <1>1, <1>2, <1>3, <2>1
          DEF KeepFlag, Flag, Unflag, FlagsMove, Resumed, Target, Cancelling
<1>4. CASE reply[a] # "ok"
  BY <1>2, <1>4, FewerFlags DEF ManageAnswered
<1> QED BY <1>2, <1>3, <1>4

LEMMA SweepFlags ==
  ASSUME KInv, NEW a \in Actors, SweepPending(a) \/ SweepEnqueued(a)
  PROVE  Enters(a) /\ FlagsMove(a)
<1>1. leg[a] \in {"listPending", "cancelPending", "listEnqueued", "cancelEnqueued"}
  BY DEF SweepPending, SweepEnqueued, Answered
<1>2. Enters(a)
  BY GoesEnter DEF SweepPending, SweepEnqueued, Sweep, Enters
<1>3. \/ UNCHANGED flags
      \/ reply[a] = "ok" /\ leg[a] \in Cancelling /\ Flag(a, memo[a])
  BY DEF SweepPending, SweepEnqueued, Cancelling
<1> QED BY <1>1, <1>2, <1>3, FewerFlags DEF FlagsMove, Flag, Target, Resumed

(* A step that only moves a. *)
LEMMA EnterF ==
  ASSUME KInv, FInv, NEW a \in Actors, Enters(a), FlagsMove(a),
         UNCHANGED <<job, row, late, faults>>
  PROVE  FInv'
<1> SUFFICES ASSUME faults = 0, late = {}, ForksApart, FlagsTrue
             PROVE  ForksApart' /\ FlagsTrue'
  BY DEF FInv
<1>1. PICK i, l, m : Enter(a, i, l, m)
  BY DEF Enters
<1>2. /\ leg'[a] = l /\ reply'[a] = "none" /\ DOMAIN memo' = Actors
      /\ \A b \in Actors : b # a =>
           /\ leg'[b] = leg[b] /\ reply'[b] = reply[b] /\ memo'[b] = memo[b]
           /\ at'[b] = at[b]
      /\ l = "fork" => memo'[a] \in Unused
  BY <1>1 DEF Enter, KInv, Domains
<1>3. ForksApart'
  BY <1>2 DEF ForksApart, Unused
<1>4. \A b \in Actors : b # a => /\ Call(b)' = Call(b) /\ Target(b)' = Target(b)
                                 /\ \A w : Resumed(b, w) => Resumed(b, w)'
  BY <1>2 DEF Call, Target, Resumed
<1>5. FlagsTrue'
  <2> SUFFICES ASSUME NEW b \in Actors, NEW w \in Rows, Manages(b, w)
               PROVE  /\ leg'[b] \in Cancelling /\ reply'[b] = "ok" /\ Target(b)' = w
                           => row[w] = "CANCELLED"
                      /\ \A p \in Procs : <<p, w>> \in flags' =>
                           /\ p = job.proc[b]
                           /\ row[w] = "CANCELLED" \/ Resumed(b, w)'
    BY ManagersStay DEF FlagsTrue
  <2>1. leg'[b] \in Cancelling /\ reply'[b] = "ok" /\ Target(b)' = w
          => row[w] = "CANCELLED"
    BY <1>2, <1>4 DEF FlagsTrue
  <2> SUFFICES ASSUME NEW p \in Procs, <<p, w>> \in flags'
               PROVE  p = job.proc[b] /\ (row[w] = "CANCELLED" \/ Resumed(b, w)')
    BY <2>1
  <2>2. CASE <<p, w>> \in flags /\ ~ (p = job.proc[a] /\ Resumed(a, w))
    BY <1>4, <2>2 DEF FlagsTrue
  <2>3. CASE /\ p = job.proc[a] /\ leg[a] \in Cancelling /\ reply[a] = "ok"
             /\ Target(a) = w
    <3>1. a = b
      BY <2>3, ManagersAct DEF Manages, Cancelling, Target
    <3> QED BY <2>3, <3>1 DEF FlagsTrue
  <2> QED BY <2>2, <2>3 DEF FlagsMove
<1> QED BY <1>3, <1>5

LEMMA ExitF ==
  ASSUME KInv, FInv, NEW a \in Actors, Exit(a), UNCHANGED <<job, row, late, faults>>
  PROVE  FInv'
<1> SUFFICES ASSUME faults = 0, late = {}, ForksApart, FlagsTrue
             PROVE  ForksApart' /\ FlagsTrue'
  BY DEF FInv
<1>1. /\ UNCHANGED <<at, memo>>
      /\ \A b \in Actors :
           \/ leg'[b] \in {"left", "over"} /\ reply'[b] = "none"
           \/ leg'[b] = leg[b] /\ reply'[b] = reply[b] /\ job.proc[b] # job.proc[a]
      /\ \A b \in Actors : job.proc[b] # job.proc[a] =>
           leg'[b] = leg[b] /\ reply'[b] = reply[b]
      /\ \A p, w : <<p, w>> \in flags' => <<p, w>> \in flags /\ p # job.proc[a]
  BY DEF Exit
<1>2. ForksApart'
  BY <1>1 DEF ForksApart
<1>3. FlagsTrue'
  BY <1>1, ManagersStay DEF FlagsTrue, Cancelling, Target, Call, Resumed
<1> QED BY <1>2, <1>3

LEMMA HandleF ==
  ASSUME KInv, FInv, NEW a \in Actors, Handle(a)
  PROVE  FInv'
<1>1. UNCHANGED <<job, row, late, faults>>
  BY DEF Handle, SendAnswered, CreateAnswered, AwaitAnswered, ResultAnswered,
         RecvAnswered, StopsCancelled, EventAnswered, StreamAnswered,
         GetOpAnswered, ManageAnswered, PutOpAnswered, PutErrorAnswered,
         SweepPending, SweepEnqueued, Answered, backend
<1>2. CASE RecvAnswered(a)
  <2>1. leg[a] \in {"cancelled", "take", "wait"}
    BY <1>2 DEF RecvAnswered, Answered
  <2>2. (Enters(a) /\ FlagsMove(a)) \/ Exit(a)
    BY <1>2, <2>1, GoesEnter, FewerFlags DEF RecvAnswered
  <2> QED BY <1>1, <2>2, EnterF, ExitF
<1>3. CASE ~ RecvAnswered(a)
  BY <1>1, <1>3, PlainFlags, ManageFlags, SweepFlags, EnterF DEF Handle
<1> QED BY <1>2, <1>3

LEMMA NextFInv == KInv /\ KInv' /\ FInv /\ [Next]_vars => FInv'
<1> SUFFICES ASSUME KInv, KInv', FInv, [Next]_vars PROVE FInv'
  OBVIOUS
<1>1. CASE UNCHANGED vars
  BY <1>1, ManagersStay
     DEF vars, backend, control, seenOutside, FInv, ForksApart, FlagsTrue, Target,
         Call, Resumed
<1>2. CASE \E a \in Actors : Serve(a) \/ Handle(a)
  BY <1>2, ServeF, HandleF
<1>3. CASE \E a \in Actors : Refused(a) \/ ReplyLost(a) \/ Abandoned(a)
  BY <1>3 DEF Refused, ReplyLost, Abandoned, Retry, FInv
<1>4. CASE \E a \in Actors : Wake(a)
  <2>1. PICK a \in Actors : Wake(a)
    BY <1>4
  <2>2. Enters(a) /\ FlagsMove(a)
    BY <2>1, FewerFlags DEF Wake, Enters
  <2> QED BY <2>1, <2>2, EnterF DEF Wake, backend, seenOutside
<1>5. CASE \E l \in late : Arrive(l)
  BY <1>5 DEF Arrive, FInv
<1>6. CASE \E w \in Rows : Dequeue(w)
  <2>1. PICK w \in Rows : Dequeue(w)
    BY <1>6
  <2>2. /\ \A v \in Rows : v # w => row'[v] = row[v]
        /\ row[w] = "ENQUEUED"
        /\ UNCHANGED <<job, late, at, leg, reply, memo, flags, faults>>
    BY <2>1 DEF Dequeue, control, KInv, StoreFits
  <2>3. \A a \in Actors : leg[a] = "fork" => memo[a] \in Rows
    BY DEF KInv, Fits
  <2> QED BY <2>2, <2>3, ManagersStay
          DEF FInv, ForksApart, FlagsTrue, Target, Call, Resumed
<1>7. CASE \E p \in Procs : Crash(p)
  BY <1>7 DEF Crash, FInv
<1>8. CASE \E w \in Rows : \E i \in 1..MaxCalls : TimeOut(w, i)
  BY <1>8, ManagersStay
     DEF TimeOut, control, FInv, ForksApart, FlagsTrue, Target, Call, Resumed
<1> QED BY <1>1, <1>2, <1>3, <1>4, <1>5, <1>6, <1>7, <1>8 DEF Next, Attempt

LEMMA InitFInv == Init => FInv
<1> SUFFICES ASSUME Init PROVE FInv
  OBVIOUS
<1>1. IsJob(job) /\ row = job.row /\ late = {} /\ flags = {} /\ faults = 0
  BY DEF Init
<1>2. \A w \in Fresh : row[w] = "absent"
  BY <1>1 DEF IsJob
<1>3. \A a \in Actors : leg[a] = "fork" => memo[a] \in Fresh /\ memo[a] # Nothing
  BY DEF Init
<1>4. ForksApart
  BY <1>2, <1>3 DEF Init, ForksApart
<1>5. FlagsTrue
  BY <1>1 DEF Init, FlagsTrue
<1> QED BY <1>1, <1>4, <1>5 DEF FInv

(* A flag that a workflow's only manager has left behind is of a workflow  *)
(* that is cancelled, for every number of actors, processes, forks and     *)
(* re-dispatches (http_system_database.ts:325,331).                        *)
THEOREM FlagsAreTrue == Spec => []FlagsAgree
<1>1. KInv /\ FInv => FlagsAgree
  BY DEF FInv, FlagsAgree, FlagsTrue, Manages, Resumed
<1>2. KInv /\ KInv' /\ FInv /\ [Next]_vars => FInv'
  BY NextFInv
<1>3. Init => FInv
  BY InitFInv
<1> QED BY <1>1, <1>2, <1>3, InvarianceK, PTL DEF Spec

(* ---------------- a recv of the server's has one result ---------------- *)

Served == job.store = "server"

(* The recv i of w has its result, and it is a message. *)
Decided(w, i) == received[w][i] \notin {Nothing, Waiting}
HasMessage(w, i) == Decided(w, i) /\ received[w][i] # Null

IsRecv(w, i) ==
  \E a \in Actors : /\ InWorkflow(a) /\ Me(a) = w /\ i \in 1..Len(job.script[a])
                    /\ job.script[a][i].op = "recv"

(* Who comes to the call i of w has the results of its recvs before it. *)
Reached(w, i) == \A k \in 1..MaxCalls : k < i /\ IsRecv(w, k) => Decided(w, k)

TakeFits(r) ==
  r.kind \in {"take", "wait"} =>
    /\ r.wf \in Rows /\ r.id \in 1..MaxCalls
    /\ IsRecv(r.wf, r.id) /\ Reached(r.wf, r.id)

(* A recv's message was consumed for it, after those of earlier recvs. *)
RecordsFit ==
  /\ received \in [Rows -> [1..MaxCalls -> Nat \cup {Nothing, Waiting, Null}]]
  /\ \A w \in Rows : \A i \in 1..MaxCalls : HasMessage(w, i) =>
       /\ received[w][i] \in DOMAIN messages
       /\ messages[received[w][i]].wf = w /\ messages[received[w][i]].consumed
       /\ Reached(w, i)
       /\ \A k \in 1..MaxCalls : i < k /\ HasMessage(w, k) =>
            received[w][i] < received[w][k]

(* A body is past no recv without a result. *)
InTime(a) == Busy(a) /\ InWorkflow(a) => Reached(Me(a), at[a])

IsResult(a, i, x) ==
  /\ Me(a) \in Rows /\ i \in 1..MaxCalls
  /\ Decided(Me(a), i) /\ x = received[Me(a)][i]

GotResults(a) ==
  /\ InHand(a) => IsResult(a, at[a], value[a])
  /\ \A n \in DOMAIN got[a] : IsResult(a, got[a][n].at, got[a][n].what)

VInv ==
  Served => /\ RecordsFit
            /\ \A l \in late : TakeFits(l.request)
            /\ \A a \in Actors : InTime(a) /\ GotResults(a)

-----------------------------------------------------------------------------
(* What is decided stays so. *)
ResultsKept ==
  \A w \in Rows : \A i \in 1..MaxCalls :
    Decided(w, i) => received'[w][i] = received[w][i]

LEMMA ResultsStay ==
  ASSUME ResultsKept, UNCHANGED job
  PROVE  /\ \A w \in Rows : \A i : Reached(w, i) => Reached(w, i)'
         /\ \A r : TakeFits(r) => TakeFits(r)'
         /\ \A a, i, x : IsResult(a, i, x) => IsResult(a, i, x)'
<1>1. \A w \in Rows : \A i \in 1..MaxCalls : Decided(w, i) => Decided(w, i)'
  BY DEF Decided, ResultsKept
<1>2. \A w, i : IsRecv(w, i)' <=> IsRecv(w, i)
  BY DEF IsRecv, InWorkflow, Me
<1>3. \A w \in Rows : \A i : Reached(w, i) => Reached(w, i)'
  BY <1>1, <1>2 DEF Reached
<1>4. \A r : TakeFits(r) => TakeFits(r)'
  BY <1>2, <1>3 DEF TakeFits
<1>5. \A a, i, x : IsResult(a, i, x) => IsResult(a, i, x)'
  BY <1>1 DEF IsResult, ResultsKept, Me
<1> QED BY <1>3, <1>4, <1>5

(* A step that gives no recv a message. *)
LEMMA RecordsStay ==
  ASSUME RecordsFit, Grown, ResultsKept, UNCHANGED job,
         received' \in [Rows -> [1..MaxCalls -> Nat \cup {Nothing, Waiting, Null}]],
         \A w \in Rows : \A i \in 1..MaxCalls : HasMessage(w, i)' => HasMessage(w, i)
  PROVE  RecordsFit'
<1> SUFFICES ASSUME NEW w \in Rows, NEW i \in 1..MaxCalls, HasMessage(w, i)'
             PROVE  /\ received'[w][i] \in DOMAIN messages'
                    /\ messages'[received'[w][i]].wf = w
                    /\ messages'[received'[w][i]].consumed
                    /\ Reached(w, i)'
                    /\ \A k \in 1..MaxCalls : i < k /\ HasMessage(w, k)' =>
                         received'[w][i] < received'[w][k]
  BY DEF RecordsFit
<1>1. \A k \in 1..MaxCalls : HasMessage(w, k)' =>
        HasMessage(w, k) /\ received'[w][k] = received[w][k]
  BY DEF ResultsKept, HasMessage
<1>2. HasMessage(w, i) /\ received'[w][i] = received[w][i]
  BY <1>1
<1>3. /\ received[w][i] \in DOMAIN messages
      /\ messages[received[w][i]].wf = w /\ messages[received[w][i]].consumed
      /\ Reached(w, i)
      /\ \A k \in 1..MaxCalls : i < k /\ HasMessage(w, k) =>
           received[w][i] < received[w][k]
  BY <1>2 DEF RecordsFit
<1>4. Reached(w, i)'
  BY <1>3, ResultsStay
<1>5. /\ received'[w][i] \in DOMAIN messages'
      /\ messages'[received'[w][i]].wf = w /\ messages'[received'[w][i]].consumed
  BY <1>2, <1>3 DEF Grown
<1>6. \A k \in 1..MaxCalls : i < k /\ HasMessage(w, k)' =>
        received'[w][i] < received'[w][k]
  BY <1>1, <1>2, <1>3
<1> QED BY <1>4, <1>5, <1>6

(* The oldest message is recorded as a recv's result. *)
LEMMA MessageRecorded ==
  ASSUME RecordsFit, MessagesAre, InTurn, UNCHANGED job, NEW w \in Rows,
         NEW k \in 1..MaxCalls, IsRecv(w, k), Reached(w, k), ~ Decided(w, k),
         Unconsumed(w) # {},
         messages' = [messages EXCEPT ![First(w)].consumed = TRUE],
         received' = [received EXCEPT ![w][k] = First(w)]
  PROVE  RecordsFit' /\ ResultsKept
<1> DEFINE n == First(w)
<1>1. /\ Grown /\ n \in DOMAIN messages
      /\ messages[n].wf = w /\ messages'[n].consumed
      /\ \A j \in DOMAIN messages :
           messages[j].wf = w /\ messages[j].consumed => j < n
  BY ReceiveGrows
<1> HIDE DEF n
<1>2. n \in Nat
  BY <1>1, LenProperties DEF MessagesAre
<1>3. /\ received' \in [Rows -> [1..MaxCalls -> Nat \cup {Nothing, Waiting, Null}]]
      /\ received'[w][k] = n
      /\ \A v \in Rows : \A i \in 1..MaxCalls :
           v # w \/ i # k => received'[v][i] = received[v][i]
  <2>1. received' = [received EXCEPT ![w] = [received[w] EXCEPT ![k] = n]]
    BY DEF n
  <2> QED BY <1>2, <2>1 DEF RecordsFit
<1>4. ResultsKept
  BY <1>3 DEF ResultsKept, Decided
<1>5. \A v \in Rows : \A i \in 1..MaxCalls : v # w \/ i # k =>
        (HasMessage(v, i)' <=> HasMessage(v, i))
  BY <1>3 DEF HasMessage, Decided
<1>6. \A v \in Rows : \A i : Reached(v, i) => Reached(v, i)'
  BY <1>4, ResultsStay
<1>7. \A i \in 1..MaxCalls : HasMessage(w, i) => ~ (k < i) /\ i # k
  BY DEF RecordsFit, Reached, HasMessage
<1> SUFFICES ASSUME NEW v \in Rows, NEW i \in 1..MaxCalls, HasMessage(v, i)'
             PROVE  /\ received'[v][i] \in DOMAIN messages'
                    /\ messages'[received'[v][i]].wf = v
                    /\ messages'[received'[v][i]].consumed
                    /\ Reached(v, i)'
                    /\ \A j \in 1..MaxCalls : i < j /\ HasMessage(v, j)' =>
                         received'[v][i] < received'[v][j]
  BY <1>3, <1>4 DEF RecordsFit
<1>8. CASE v = w /\ i = k
  <2>1. \A j \in 1..MaxCalls : i < j => ~ HasMessage(v, j)'
    BY <1>5, <1>7, <1>8
  <2> QED BY <1>1, <1>3, <1>6, <1>8, <2>1 DEF Grown
<1>9. CASE v # w \/ i # k
  <2>1. HasMessage(v, i) /\ received'[v][i] = received[v][i]
    BY <1>3, <1>5, <1>9
  <2>2. /\ received[v][i] \in DOMAIN messages
        /\ messages[received[v][i]].wf = v /\ messages[received[v][i]].consumed
        /\ Reached(v, i)
        /\ \A j \in 1..MaxCalls : i < j /\ HasMessage(v, j) =>
             received[v][i] < received[v][j]
    BY <2>1 DEF RecordsFit
  <2>3. ASSUME NEW j \in 1..MaxCalls, i < j, HasMessage(v, j)'
        PROVE  received'[v][i] < received'[v][j]
    <3>1. CASE v = w /\ j = k
      BY <1>1, <1>3, <2>1, <2>2, <3>1
    <3>2. CASE v # w \/ j # k
      BY <1>3, <1>5, <2>1, <2>2, <2>3, <3>2
    <3> QED BY <3>1, <3>2
  <2> QED BY <1>1, <1>6, <2>1, <2>2, <2>3 DEF Grown
<1> QED BY <1>8, <1>9

LEMMA EffectRecords ==
  ASSUME Served, RecordsFit, MessagesAre, InTurn, UNCHANGED job,
         NEW r, TakeFits(r), Effect(r)
  PROVE  RecordsFit' /\ ResultsKept
<1>1. received' = RecordReceived(r) /\ Grown /\ job.store # "mock"
  BY EffectGrows DEF Effect, Served
<1>2. CASE r.kind = "take" /\ ~ HasResult(r) /\ Unconsumed(r.wf) # {}
  <2>1. messages' = [messages EXCEPT ![First(r.wf)].consumed = TRUE]
    BY <1>2 DEF Effect, MessagesAfter, ReceiveMessage
  <2>2. received' = [received EXCEPT ![r.wf][r.id] = First(r.wf)]
    BY <1>1, <1>2 DEF RecordReceived
  <2>3. ~ Decided(r.wf, r.id)
    BY <1>2 DEF HasResult, Served, Decided
  <2> QED BY <1>2, <2>1, <2>2, <2>3, MessageRecorded DEF TakeFits
<1>3. CASE r.kind = "wait" /\ received[r.wf][r.id] = Nothing
  <2>1. received' = [received EXCEPT ![r.wf] = [received[r.wf] EXCEPT ![r.id] = Waiting]]
    BY <1>1, <1>3 DEF RecordReceived
  <2>2. /\ received' \in [Rows -> [1..MaxCalls -> Nat \cup {Nothing, Waiting, Null}]]
        /\ \A v \in Rows : \A i \in 1..MaxCalls :
             received'[v][i] = IF v = r.wf /\ i = r.id THEN Waiting ELSE received[v][i]
    BY <1>3, <2>1 DEF TakeFits, RecordsFit
  <2>3. ResultsKept
    BY <1>3, <2>2 DEF ResultsKept, Decided
  <2>4. \A v \in Rows : \A i \in 1..MaxCalls : HasMessage(v, i)' => HasMessage(v, i)
    BY <2>2 DEF HasMessage, Decided
  <2> QED BY <1>1, <2>2, <2>3, <2>4, RecordsStay
<1>4. CASE received' = received
  <2>1. /\ \A v, i : HasMessage(v, i)' => HasMessage(v, i)
        /\ received' \in [Rows -> [1..MaxCalls -> Nat \cup {Nothing, Waiting, Null}]]
    BY <1>4 DEF HasMessage, Decided, RecordsFit
  <2>2. ResultsKept
    BY <1>4 DEF ResultsKept
  <2> QED BY <1>1, <2>1, <2>2, RecordsStay
<1> QED BY <1>1, <1>2, <1>3, <1>4 DEF RecordReceived

-----------------------------------------------------------------------------
(* All executions of a workflow make the same recvs. *)
LEMMA OwnRecv ==
  ASSUME KInv, NEW a \in Actors, InWorkflow(a), NEW i, IsRecv(Me(a), i)
  PROVE  job.script[a][i].op = "recv"
<1>1. IsJob(job)
  BY DEF KInv
<1> QED BY <1>1 DEF IsJob, IsRecv, InWorkflow, Me

LEMMA RecvPlace ==
  ASSUME KInv, NEW a \in Actors, Busy(a), Call(a).op = "recv"
  PROVE  /\ InWorkflow(a) /\ Me(a) \in Rows /\ at[a] \in 1..MaxCalls
         /\ IsRecv(Me(a), at[a])
         /\ leg[a] \in {"cancelled", "take", "wait", "error"}
<1>1. IsJob(job) /\ at[a] \in 1..Len(job.script[a]) /\ leg[a] \in Stages(a, at[a])
  BY BusyPlace DEF KInv
<1>2. InWorkflow(a)
  BY <1>1, ScriptCalls DEF KInv, Allowed, Call, InWorkflow
<1>3. Me(a) \in Rows /\ Len(job.script[a]) \in 1..MaxCalls
  BY <1>1, <1>2 DEF IsJob, InWorkflow, Me
<1>4. at[a] \in 1..MaxCalls
  BY <1>1, <1>3
<1>5. leg[a] \in {"cancelled", "take", "wait", "error"}
  BY <1>1 DEF Stages, Call
<1> QED BY <1>1, <1>2, <1>3, <1>4, <1>5 DEF IsRecv, Call

(* A request fits where the actor is. *)
LEMMA AskedTakes ==
  ASSUME KInv, NEW a \in Actors, InTime(a)
  PROVE  TakeFits(Request(a))
<1>1. CASE leg[a] \in {"take", "wait"}
  <2>1. Busy(a) /\ leg[a] \in Stages(a, at[a]) /\ at[a] \in 1..Len(job.script[a])
    BY <1>1, BusyPlace DEF Busy
  <2>2. Call(a).op = "recv"
    BY <1>1, <2>1, StageOps DEF KInv, Call
  <2>3. Request(a).wf = Me(a) /\ Request(a).id = at[a]
    BY <1>1 DEF Request, Ask
  <2> QED BY <2>1, <2>2, <2>3, RecvPlace DEF TakeFits, InTime
<1>2. CASE leg[a] \notin {"take", "wait"}
  <2>1. Request(a).kind \notin {"take", "wait"}
    BY <1>2 DEF Request, Ask
  <2> QED BY <2>1 DEF TakeFits
<1> QED BY <1>1, <1>2

(* An actor that is given nothing and passes no recv without a result. *)
KeepsTime(a) ==
  /\ got'[a] = got[a]
  /\ InHand(a)' => InHand(a) /\ at'[a] = at[a] /\ value'[a] = value[a]
  /\ Busy(a)' /\ InWorkflow(a) => Reached(Me(a), at'[a])

LEMMA KeepsResults ==
  ASSUME ResultsKept, UNCHANGED job, NEW a \in Actors, GotResults(a), KeepsTime(a),
         InWorkflow(a) => Me(a) \in Rows
  PROVE  InTime(a)' /\ GotResults(a)'
<1>1. /\ \A w \in Rows : \A i : Reached(w, i) => Reached(w, i)'
      /\ \A b, i, x : IsResult(b, i, x) => IsResult(b, i, x)'
  BY ResultsStay
<1>2. InTime(a)'
  <2> SUFFICES ASSUME Busy(a)', InWorkflow(a)' PROVE Reached(Me(a), at[a])'
    BY DEF InTime
  <2>1. InWorkflow(a) /\ Me(a)' = Me(a)
    BY StagesStay
  <2>2. PICK w \in Rows : w = Me(a)
    BY <2>1
  <2>3. PICK i : i = at'[a]
    OBVIOUS
  <2>4. Reached(w, i)'
    BY <1>1, <2>1, <2>2, <2>3 DEF KeepsTime
  <2> QED BY <2>1, <2>2, <2>3, <2>4
<1>3. GotResults(a)'
  <2>1. InHand(a)' => IsResult(a, at[a], value[a])'
    <3> SUFFICES ASSUME InHand(a)' PROVE IsResult(a, at[a], value[a])'
      OBVIOUS
    <3>1. PICK i, x : i = at[a] /\ x = value[a]
      OBVIOUS
    <3>2. IsResult(a, i, x) /\ at'[a] = i /\ value'[a] = x
      BY <3>1 DEF KeepsTime, GotResults
    <3>3. IsResult(a, i, x)'
      BY <1>1, <3>2
    <3> QED BY <3>2, <3>3 DEF IsResult
  <2>2. \A n \in DOMAIN got'[a] : IsResult(a, got[a][n].at, got[a][n].what)'
    <3> SUFFICES ASSUME NEW n \in DOMAIN got[a]
                 PROVE  IsResult(a, got[a][n].at, got[a][n].what)'
      BY DEF KeepsTime
    <3>1. PICK i, x : i = got[a][n].at /\ x = got[a][n].what
      OBVIOUS
    <3>2. IsResult(a, i, x) /\ got'[a] = got[a]
      BY <3>1 DEF KeepsTime, GotResults
    <3>3. IsResult(a, i, x)'
      BY <1>1, <3>2
    <3> QED BY <3>1, <3>2, <3>3 DEF IsResult
  <2> QED BY <2>1, <2>2 DEF GotResults
<1> QED BY <1>2, <1>3

LEMMA ResultsStep ==
  ASSUME KInv, VInv, UNCHANGED job, Served => RecordsFit' /\ ResultsKept,
         Served => \A l \in late' : l \in late \/ TakeFits(l.request),
         Served => \A a \in Actors : KeepsTime(a) \/ (InTime(a)' /\ GotResults(a)')
  PROVE  VInv'
<1> SUFFICES ASSUME Served
             PROVE  /\ \A l \in late' : TakeFits(l.request)'
                    /\ \A a \in Actors : InTime(a)' /\ GotResults(a)'
  BY DEF VInv, Served
<1>1. \A l \in late' : TakeFits(l.request)'
  BY ResultsStay DEF VInv
<1>2. \A a \in Actors : InWorkflow(a) => Me(a) \in Rows
  BY DEF KInv, IsJob, InWorkflow, Me
<1>3. \A a \in Actors : InTime(a)' /\ GotResults(a)'
  BY <1>2, KeepsResults DEF VInv
<1> QED BY <1>1, <1>3

LEMMA SameRecords ==
  ASSUME RInv, VInv, UNCHANGED <<job, messages, received>>
  PROVE  Served => RecordsFit' /\ ResultsKept
<1> SUFFICES ASSUME Served PROVE RecordsFit' /\ ResultsKept
  OBVIOUS
<1>1. RecordsFit /\ Grown /\ ResultsKept
  BY SameGrows DEF VInv, RInv, ResultsKept
<1>2. \A w \in Rows : \A i \in 1..MaxCalls : HasMessage(w, i)' => HasMessage(w, i)
  BY DEF HasMessage, Decided
<1> QED BY <1>1, <1>2, RecordsStay DEF RecordsFit

-----------------------------------------------------------------------------
(* What an attempt brings back is the recv's result. *)
LEMMA TakeAnswered ==
  ASSUME RInv, KInv, Served, RecordsFit, NEW a \in Actors, leg[a] = "take",
         InTime(a),
         Effect(Request(a)), Answer(Request(a)) = "found"
  PROVE  /\ Me(a) \in Rows /\ at[a] \in 1..MaxCalls
         /\ received'[Me(a)][at[a]] = Carries(Request(a))
         /\ Carries(Request(a)) \notin {Nothing, Waiting}
<1> DEFINE r == Request(a)  w == Me(a)  i == at[a]
<1>1. r.kind = "take" /\ r.wf = w /\ r.id = i
  BY DEF Request, Ask
<1>2. w \in Rows /\ i \in 1..MaxCalls
  BY <1>1, AskedTakes DEF TakeFits
<1>3. received' = RecordReceived(r) /\ job.store # "mock"
  BY DEF Effect, Served
<1>4. CASE HasResult(r)
  <2>1. received' = received /\ Carries(r) = received[w][i]
    BY <1>1, <1>3, <1>4 DEF RecordReceived, Carries
  <2> QED BY <1>1, <1>2, <1>4, <2>1 DEF HasResult
<1>5. CASE ~ HasResult(r)
  <2>1. Unconsumed(w) # {} /\ Carries(r) = First(w)
    BY <1>1, <1>5 DEF Answer, Carries
  <2>2. received' = [received EXCEPT ![w] = [received[w] EXCEPT ![i] = First(w)]]
    BY <1>1, <1>3, <1>5, <2>1 DEF RecordReceived
  <2>3. received'[w][i] = First(w)
    BY <1>2, <2>2 DEF RecordsFit
  <2>4. First(w) \in Nat
    BY <2>1, FirstIsOldest, LenProperties DEF RInv, Unconsumed, MessagesAre
  <2> QED BY <1>2, <2>1, <2>3, <2>4
<1> QED BY <1>4, <1>5

LEMMA ServeV ==
  ASSUME RInv, KInv, VInv, NEW a \in Actors, Serve(a)
  PROVE  VInv'
<1> DEFINE r == Request(a)
<1>1. /\ Effect(r) /\ reply' = [reply EXCEPT ![a] = Answer(r)]
      /\ value' = [value EXCEPT ![a] = Carries(r)]
      /\ UNCHANGED <<job, late, at, leg, got>>
  BY DEF Serve, seenOutside
<1> SUFFICES ASSUME Served PROVE VInv'
  BY <1>1 DEF VInv, Served
<1>2. RecordsFit' /\ ResultsKept
  BY <1>1, AskedTakes, EffectRecords DEF RInv, VInv
<1>3. \A b \in Actors : InTime(b) /\ GotResults(b)
  BY DEF VInv
<1>4. \A b \in Actors : b # a => KeepsTime(b)
  BY <1>1, <1>3 DEF KInv, Domains, KeepsTime, InHand, InTime, Busy
<1>5. reply'[a] = Answer(r) /\ value'[a] = Carries(r)
  BY <1>1 DEF KInv, Domains
<1>6. CASE ~ InHand(a)'
  <2>1. KeepsTime(a)
    BY <1>1, <1>3, <1>6 DEF KeepsTime, InTime, Busy
  <2> QED BY <1>1, <1>2, <1>4, <2>1, ResultsStep
<1>7. CASE InHand(a)'
  <2>1. leg[a] = "take" /\ Answer(r) = "found"
    BY <1>1, <1>5, <1>7 DEF InHand
  <2>2. /\ Me(a) \in Rows /\ at[a] \in 1..MaxCalls
        /\ received'[Me(a)][at[a]] = Carries(r)
        /\ Carries(r) \notin {Nothing, Waiting}
    BY <1>1, <1>3, <2>1, TakeAnswered DEF VInv
  <2> HIDE DEF r
  <2>3. IsResult(a, at[a], value[a])'
    BY <1>1, <1>5, <2>2 DEF IsResult, Me, Decided
  <2>4. InTime(a)'
    <3> SUFFICES ASSUME Busy(a)', InWorkflow(a)' PROVE Reached(Me(a), at[a])'
      BY DEF InTime
    <3>1. Reached(Me(a), at[a]) /\ Me(a)' = Me(a) /\ at' = at
      BY <1>1, <1>3 DEF InTime, Busy, InWorkflow, Me
    <3>2. PICK w \in Rows : w = Me(a)
      BY <2>2
    <3>3. PICK i : i = at[a]
      OBVIOUS
    <3>4. Reached(w, i)'
      BY <1>1, <1>2, <3>1, <3>2, <3>3, ResultsStay
    <3> QED BY <3>1, <3>2, <3>3, <3>4
  <2>5. \A n \in DOMAIN got'[a] : IsResult(a, got[a][n].at, got[a][n].what)'
    <3> SUFFICES ASSUME NEW n \in DOMAIN got[a]
                 PROVE  IsResult(a, got[a][n].at, got[a][n].what)'
      BY <1>1
    <3>1. PICK i, x : i = got[a][n].at /\ x = got[a][n].what
      OBVIOUS
    <3>2. IsResult(a, i, x)
      BY <1>3, <3>1 DEF GotResults
    <3>3. IsResult(a, i, x)'
      BY <1>1, <1>2, <3>2, ResultsStay
    <3> QED BY <1>1, <3>1, <3>3 DEF IsResult
  <2>6. InTime(a)' /\ GotResults(a)'
    BY <2>3, <2>4, <2>5 DEF GotResults
  <2> QED BY <1>1, <1>2, <1>4, <2>6, ResultsStep
<1> QED BY <1>6, <1>7

LEMMA AttemptV ==
  ASSUME RInv, KInv, VInv, NEW a \in Actors, Attempt(a)
  PROVE  VInv'
<1>1. CASE Serve(a)
  BY <1>1, ServeV
<1>2. CASE Refused(a) \/ ReplyLost(a) \/ Abandoned(a)
  <2>1. /\ UNCHANGED <<job, at, leg, value, got>>
        /\ reply' \in {reply, [reply EXCEPT ![a] = "threw"]}
    BY <1>2 DEF Refused, ReplyLost, Abandoned, Retry, seenOutside
  <2>2. \A b \in Actors : InTime(b) => KeepsTime(b)
    BY <2>1 DEF KInv, Domains, KeepsTime, InHand, InTime, Busy
  <2>3. Served => InTime(a) /\ \A b \in Actors : KeepsTime(b)
    BY <2>2 DEF VInv
  <2>4. Served => RecordsFit' /\ ResultsKept
    <3>1. CASE Refused(a) \/ Abandoned(a)
      BY <2>1, <3>1, SameRecords DEF Refused, Abandoned, backend
    <3>2. CASE ReplyLost(a)
      BY <2>1, <2>3, <3>2, AskedTakes, EffectRecords DEF ReplyLost, RInv, VInv
    <3> QED BY <1>2, <3>1, <3>2
  <2>5. Served => \A l \in late' : l \in late \/ TakeFits(l.request)
    BY <1>2, <2>3, AskedTakes DEF Refused, ReplyLost, Abandoned
  <2> QED BY <2>1, <2>3, <2>4, <2>5, ResultsStep
<1> QED BY <1>1, <1>2 DEF Attempt

-----------------------------------------------------------------------------
(* A handler that passes no recv without a result. *)
Passes(a) ==
  \/ \E l, m : Enter(a, at[a], l, m)
  \/ Over(a)
  \/ Proceed(a) /\ (Call(a).op = "recv" /\ InWorkflow(a) => Decided(Me(a), at[a]))

LEMMA GoesPassing ==
  ASSUME KInv, NEW a \in Actors
  PROVE  /\ \A l : AskFor(a, l) => Passes(a)
         /\ Fail(a) => Passes(a)
         /\ Busy(a) /\ leg[a] \notin {"cancelled", "take", "wait", "error"}
              /\ Proceed(a) => Passes(a)
<1>1. \A l : AskFor(a, l) => Passes(a)
  BY DEF AskFor, Passes
<1>2. Fail(a) => Passes(a)
  BY <1>1 DEF Fail, Passes
<1>3. Busy(a) /\ leg[a] \notin {"cancelled", "take", "wait", "error"}
        /\ Proceed(a) => Passes(a)
  BY RecvPlace DEF Passes
<1> QED BY <1>1, <1>2, <1>3

LEMMA PassesKeeps ==
  ASSUME KInv, NEW a \in Actors, Busy(a), InTime(a), Passes(a)
  PROVE  /\ Busy(a)' /\ InWorkflow(a) => Reached(Me(a), at'[a])
         /\ reply'[a] = "none"
         /\ \A b \in Actors : b # a =>
              /\ at'[b] = at[b] /\ leg'[b] = leg[b]
              /\ reply'[b] = reply[b] /\ value'[b] = value[b]
<1>1. \E i, l, m : Enter(a, i, l, m)
  BY DEF Passes, Over, Proceed
<1>2. /\ reply'[a] = "none"
      /\ \A b \in Actors : b # a =>
           /\ at'[b] = at[b] /\ leg'[b] = leg[b]
           /\ reply'[b] = reply[b] /\ value'[b] = value[b]
  BY <1>1 DEF Enter, KInv, Domains
<1>3. CASE \E l, m : Enter(a, at[a], l, m)
  <2>1. at'[a] = at[a]
    BY <1>3 DEF Enter, KInv, Domains
  <2> QED BY <1>2, <2>1 DEF InTime
<1>4. CASE Over(a)
  BY <1>2, <1>4 DEF Over, Enter, Busy, KInv, Domains
<1>5. CASE Proceed(a) /\ (Call(a).op = "recv" /\ InWorkflow(a) => Decided(Me(a), at[a]))
  <2>1. at'[a] = at[a] + 1 /\ at[a] \in Nat
    BY <1>5, BusyPlace DEF Proceed, Enter, KInv, Domains
  <2>2. ASSUME InWorkflow(a), NEW k \in 1..MaxCalls, k < at[a] + 1, IsRecv(Me(a), k)
        PROVE  Decided(Me(a), k)
    <3>1. CASE k < at[a]
      BY <2>2, <3>1 DEF InTime, Reached
    <3>2. CASE k = at[a]
      BY <1>5, <2>2, <3>2, OwnRecv DEF Call
    <3> QED BY <2>1, <2>2, <3>1, <3>2
  <2> QED BY <1>2, <2>1, <2>2 DEF Reached
<1> QED BY <1>2, <1>3, <1>4, <1>5 DEF Passes

LEMMA PassesV ==
  ASSUME RInv, KInv, VInv, NEW a \in Actors, Busy(a), Served => Passes(a),
         UNCHANGED <<job, backend, late, got>>
  PROVE  VInv'
<1>1. ASSUME Served PROVE \A b \in Actors : KeepsTime(b)
  <2>1. \A b \in Actors : InTime(b)
    BY <1>1 DEF VInv
  <2>2. /\ Busy(a)' /\ InWorkflow(a) => Reached(Me(a), at'[a])
        /\ reply'[a] = "none"
        /\ \A b \in Actors : b # a =>
             /\ at'[b] = at[b] /\ leg'[b] = leg[b]
             /\ reply'[b] = reply[b] /\ value'[b] = value[b]
    BY <1>1, <2>1, PassesKeeps
  <2> QED BY <2>1, <2>2 DEF KeepsTime, InHand, InTime, Busy
<1>2. Served => RecordsFit' /\ ResultsKept
  BY SameRecords DEF backend
<1> QED BY <1>1, <1>2, ResultsStep DEF backend

LEMMA ExitV ==
  ASSUME RInv, KInv, VInv, NEW a \in Actors, Exit(a),
         UNCHANGED <<job, backend, late, got>>
  PROVE  VInv'
<1>1. Served => \A b \in Actors : KeepsTime(b)
  BY DEF Exit, VInv, KeepsTime, InHand, InTime, Busy
<1>2. Served => RecordsFit' /\ ResultsKept
  BY SameRecords DEF backend
<1> QED BY <1>1, <1>2, ResultsStep DEF backend

(* The result in hand is given to the body, which goes on. *)
LEMMA GivenV ==
  ASSUME RInv, KInv, VInv, NEW a \in Actors, InHand(a), Proceed(a),
         UNCHANGED <<job, backend, late>>,
         got' = [got EXCEPT ![a] = Append(@, Given(a))]
  PROVE  VInv'
<1>1. Served => RecordsFit' /\ ResultsKept
  BY SameRecords DEF backend
<1>2. Busy(a) /\ ActorsAre
  BY DEF InHand, Busy, RInv
<1>3. /\ \A b \in Actors : \A n \in DOMAIN got'[b] :
           \/ n \in DOMAIN got[b] /\ got'[b][n] = got[b][n]
           \/ b = a /\ got'[b][n] = Given(a)
      /\ \A b \in Actors : b # a => got'[b] = got[b]
  <2>1. \A b \in Actors : b # a => got'[b] = got[b]
    BY <1>2 DEF ActorsAre
  <2> QED BY <1>2, <2>1, GotGrows
<1>4. ASSUME Served
      PROVE  \A b \in Actors : KeepsTime(b) \/ (InTime(b)' /\ GotResults(b)')
  <2>1. \A b \in Actors : InTime(b) /\ GotResults(b)
    BY <1>4 DEF VInv
  <2>2. IsResult(a, at[a], value[a])
    BY <2>1 DEF GotResults
  <2>3. Passes(a)
    BY <2>2 DEF Passes, IsResult
  <2>4. /\ Busy(a)' /\ InWorkflow(a) => Reached(Me(a), at'[a])
        /\ reply'[a] = "none"
        /\ \A b \in Actors : b # a =>
             /\ at'[b] = at[b] /\ leg'[b] = leg[b]
             /\ reply'[b] = reply[b] /\ value'[b] = value[b]
    BY <1>2, <2>1, <2>3, PassesKeeps
  <2>5. \A b \in Actors : b # a => KeepsTime(b)
    BY <1>3, <2>1, <2>4 DEF KeepsTime, InHand, InTime, Busy
  <2>6. InTime(a)'
    <3> SUFFICES ASSUME Busy(a)', InWorkflow(a)' PROVE Reached(Me(a), at[a])'
      BY DEF InTime
    <3>1. PICK w \in Rows : w = Me(a)
      BY <2>2 DEF IsResult
    <3>2. PICK i : i = at'[a]
      OBVIOUS
    <3>3. Reached(w, i) /\ Me(a)' = w
      BY <2>4, <3>1, <3>2 DEF InWorkflow, Me
    <3>4. Reached(w, i)'
      BY <1>1, <1>4, <3>1, <3>3, ResultsStay
    <3> QED BY <3>1, <3>2, <3>3, <3>4
  <2>7. GotResults(a)'
    <3>1. ~ InHand(a)'
      BY <2>4 DEF InHand
    <3> SUFFICES ASSUME NEW n \in DOMAIN got'[a]
                 PROVE  IsResult(a, got[a][n].at, got[a][n].what)'
      BY <3>1 DEF GotResults
    <3>2. PICK i, x : i = got'[a][n].at /\ x = got'[a][n].what
      OBVIOUS
    <3>3. IsResult(a, i, x)
      <4>1. CASE n \in DOMAIN got[a] /\ got'[a][n] = got[a][n]
        BY <2>1, <3>2, <4>1 DEF GotResults
      <4>2. CASE got'[a][n] = Given(a)
        BY <2>2, <3>2, <4>2 DEF Given
      <4> QED BY <1>3, <4>1, <4>2
    <3>4. IsResult(a, i, x)'
      BY <1>1, <1>4, <3>3, ResultsStay
    <3> QED BY <3>2, <3>4 DEF IsResult
  <2> QED BY <2>5, <2>6, <2>7
<1> QED BY <1>1, <1>4, ResultsStep DEF backend

LEMMA RecvV ==
  ASSUME RInv, KInv, VInv, NEW a \in Actors, RecvAnswered(a)
  PROVE  VInv'
<1>1. /\ UNCHANGED <<job, backend, late>> /\ Busy(a)
      /\ leg[a] \in {"cancelled", "take", "wait"}
  BY DEF RecvAnswered, Answered, Busy
<1>2. CASE InHand(a)
  <2>1. Proceed(a) /\ got' = [got EXCEPT ![a] = Append(@, Given(a))]
    BY <1>2 DEF RecvAnswered, InHand, Given, Threw
  <2> QED BY <1>1, <1>2, <2>1, GivenV
<1>3. CASE ~ InHand(a)
  <2>1. UNCHANGED got /\ reply[a] # "found"
    BY <1>1, <1>3 DEF RecvAnswered, InHand, KInv, Learned
  <2>2. Passes(a) \/ Exit(a)
    BY <2>1, GoesPassing DEF RecvAnswered, Passes
  <2> QED BY <1>1, <2>1, <2>2, PassesV, ExitV
<1> QED BY <1>2, <1>3

LEMMA HandleV ==
  ASSUME RInv, KInv, VInv, NEW a \in Actors, Handle(a)
  PROVE  VInv'
<1>1. CASE RecvAnswered(a)
  BY <1>1, RecvV
<1>2. CASE ~ RecvAnswered(a)
  <2>1. UNCHANGED <<job, backend, late, got>> /\ Busy(a)
    BY <1>2 DEF Handle, SendAnswered, CreateAnswered, AwaitAnswered, ResultAnswered,
           StopsCancelled, EventAnswered, StreamAnswered, GetOpAnswered,
           ManageAnswered, PutOpAnswered, PutErrorAnswered, SweepPending,
           SweepEnqueued, Answered, seenOutside, Busy, Asking
  <2> USE GoesPassing DEF Answered
  <2>2. CASE SendAnswered(a) \/ CreateAnswered(a) \/ AwaitAnswered(a)
    BY <2>1, <2>2, PassesV DEF SendAnswered, CreateAnswered, AwaitAnswered
  <2>3. CASE ResultAnswered(a)
    <3>1. leg[a] = "error" => Over(a) \/ ~ InWorkflow(a)
      BY <2>3 DEF ResultAnswered
    <3>2. Passes(a)
      BY <2>1, <2>3, <3>1 DEF ResultAnswered, Passes
    <3> QED BY <2>1, <3>2, PassesV
  <2>4. CASE StopsCancelled(a) \/ EventAnswered(a)
    BY <2>1, <2>4, PassesV DEF StopsCancelled, EventAnswered, Passes
  <2>5. CASE StreamAnswered(a)
    BY <2>1, <2>5, PassesV DEF StreamAnswered
  <2>6. CASE GetOpAnswered(a) \/ ManageAnswered(a)
    BY <2>1, <2>6, PassesV DEF GetOpAnswered, ManageAnswered, Passes
  <2>7. CASE PutOpAnswered(a) \/ PutErrorAnswered(a)
    BY <2>1, <2>7, PassesV DEF PutOpAnswered, PutErrorAnswered, Passes
  <2>8. CASE SweepPending(a) \/ SweepEnqueued(a)
    <3>1. \A l : Sweep(a, l) => Passes(a)
      BY DEF Sweep, Passes
    <3> QED BY <2>1, <2>8, <3>1, PassesV DEF SweepPending, SweepEnqueued
  <2> QED BY <1>2, <2>2, <2>3, <2>4, <2>5, <2>6, <2>7, <2>8 DEF Handle
<1> QED BY <1>1, <1>2

-----------------------------------------------------------------------------
(* The rest of the world. *)
LEMMA TimeOutV ==
  ASSUME RInv, KInv, VInv, NEW w \in Rows, NEW i \in 1..MaxCalls, TimeOut(w, i)
  PROVE  VInv'
<1>1. /\ received[w][i] = Waiting /\ received' = [received EXCEPT ![w][i] = Null]
      /\ UNCHANGED <<job, messages, late, at, leg, reply, value, got>>
  BY DEF TimeOut, control, seenOutside
<1>2. ASSUME Served PROVE RecordsFit' /\ ResultsKept
  <2>1. received' = [received EXCEPT ![w] = [received[w] EXCEPT ![i] = Null]]
    BY <1>1
  <2>2. /\ received' \in [Rows -> [1..MaxCalls -> Nat \cup {Nothing, Waiting, Null}]]
        /\ \A v \in Rows : \A k \in 1..MaxCalls :
             received'[v][k] = IF v = w /\ k = i THEN Null ELSE received[v][k]
    BY <1>2, <2>1 DEF VInv, RecordsFit
  <2>3. ResultsKept
    BY <1>1, <2>2 DEF ResultsKept, Decided
  <2>4. \A v \in Rows : \A k \in 1..MaxCalls : HasMessage(v, k)' => HasMessage(v, k)
    BY <2>2 DEF HasMessage, Decided
  <2>5. Grown
    BY <1>1, SameGrows DEF RInv
  <2> QED BY <1>1, <1>2, <2>2, <2>3, <2>4, <2>5, RecordsStay DEF VInv
<1>3. Served => \A b \in Actors : KeepsTime(b)
  BY <1>1 DEF VInv, KeepsTime, InHand, InTime, Busy
<1> QED BY <1>1, <1>2, <1>3, ResultsStep

LEMMA NextVInv == RInv /\ KInv /\ VInv /\ [Next]_vars => VInv'
<1> SUFFICES ASSUME RInv, KInv, VInv, [Next]_vars PROVE VInv'
  OBVIOUS
<1>1. CASE UNCHANGED vars
  <2>1. UNCHANGED <<job, messages, received, late, at, leg, reply, value, got>>
    BY <1>1 DEF vars, backend, control, seenOutside
  <2>2. Served => \A b \in Actors : KeepsTime(b)
    BY <2>1 DEF VInv, KeepsTime, InHand, InTime, Busy
  <2> QED BY <2>1, <2>2, SameRecords, ResultsStep
<1>2. CASE \E a \in Actors : Attempt(a) \/ Handle(a)
  BY <1>2, AttemptV, HandleV
<1>3. CASE \E a \in Actors : Wake(a)
  <2>1. PICK a \in Actors : Wake(a)
    BY <1>3
  <2>2. /\ UNCHANGED <<job, messages, received, late, got>>
        /\ Enter(a, 1, FirstLeg(a, 1), Nothing)
    BY <2>1 DEF Wake, backend, seenOutside
  <2>3. /\ at'[a] = 1 /\ reply'[a] = "none"
        /\ \A b \in Actors : b # a =>
             /\ at'[b] = at[b] /\ leg'[b] = leg[b]
             /\ reply'[b] = reply[b] /\ value'[b] = value[b]
    BY <2>2 DEF Enter, KInv, Domains
  <2>4. Served => \A b \in Actors : KeepsTime(b)
    BY <2>2, <2>3 DEF VInv, KeepsTime, InHand, InTime, Busy, Reached
  <2> QED BY <2>2, <2>4, SameRecords, ResultsStep
<1>4. CASE \E l \in late : Arrive(l)
  <2>1. PICK l \in late : Arrive(l)
    BY <1>4
  <2>2. /\ Effect(l.request) /\ late' \subseteq late
        /\ UNCHANGED <<job, at, leg, reply, value, got>>
    BY <2>1 DEF Arrive, control, seenOutside
  <2>3. Served => RecordsFit' /\ ResultsKept
    BY <2>2, EffectRecords DEF RInv, VInv
  <2>4. Served => \A b \in Actors : KeepsTime(b)
    BY <2>2 DEF VInv, KeepsTime, InHand, InTime, Busy
  <2> QED BY <2>2, <2>3, <2>4, ResultsStep
<1>5. CASE \E w \in Rows : Dequeue(w)
  <2>1. UNCHANGED <<job, messages, received, late, at, leg, reply, value, got>>
    BY <1>5 DEF Dequeue, control, seenOutside
  <2>2. Served => \A b \in Actors : KeepsTime(b)
    BY <2>1 DEF VInv, KeepsTime, InHand, InTime, Busy
  <2> QED BY <2>1, <2>2, SameRecords, ResultsStep
<1>6. CASE \E w \in Rows : \E i \in 1..MaxCalls : TimeOut(w, i)
  BY <1>6, TimeOutV
<1>7. CASE \E p \in Procs : Crash(p)
  <2>1. PICK p \in Procs : Crash(p)
    BY <1>7
  <2>2. /\ UNCHANGED <<job, messages, received, late, got>>
        /\ \A b \in Actors :
             \/ /\ at'[b] = at[b] /\ leg'[b] = leg[b]
                /\ reply'[b] = reply[b] /\ value'[b] = value[b]
             \/ /\ reply'[b] = "none" /\ (InWorkflow(b) => at'[b] = 1)
    BY <2>1 DEF Crash, backend, seenOutside
  <2>3. Served => \A b \in Actors : KeepsTime(b)
    BY <2>2 DEF VInv, KeepsTime, InHand, InTime, Busy, Reached
  <2> QED BY <2>2, <2>3, SameRecords, ResultsStep
<1> QED BY <1>1, <1>2, <1>3, <1>4, <1>5, <1>6, <1>7 DEF Next

LEMMA InitVInv == Init => VInv
<1> SUFFICES ASSUME Init PROVE VInv
  OBVIOUS
<1>1. /\ received = [w \in Rows |-> [i \in 1..MaxCalls |-> Nothing]] /\ late = {}
      /\ \A a \in Actors : at[a] = 1 /\ reply[a] = "none" /\ got[a] = << >>
  BY DEF Init
<1>2. RecordsFit
  BY <1>1 DEF RecordsFit, HasMessage, Decided
<1>3. \A a \in Actors : InTime(a) /\ GotResults(a)
  BY <1>1 DEF InTime, GotResults, InHand, Reached
<1> QED BY <1>1, <1>2, <1>3 DEF VInv

(* What a server has recorded for the recvs of its workflows, and what is  *)
(* given to their executions, is as VInv says in every reachable state.    *)
THEOREM ResultsRecorded == Spec => []VInv
<1>1. Init => VInv
  BY InitVInv
<1>2. RInv /\ KInv /\ VInv /\ [Next]_vars => VInv'
  BY NextVInv
<1> QED BY <1>1, <1>2, Invariance, InvarianceK, PTL DEF Spec

LEMMA ResultsAreOne ==
  ASSUME Served, RInv, VInv
  PROVE  ReceivedOnce
<1> SUFFICES ASSUME NEW a \in Actors, NEW b \in Actors,
                    NEW i \in DOMAIN got[a], NEW j \in DOMAIN got[b]
             PROVE  LET x == got[a][i].what  y == got[b][j].what IN
                    /\ SameRecv(a, i, b, j) => x = y
                    /\ x = y /\ x # Null => SameRecv(a, i, b, j)
                    /\ EarlierRecv(a, i, b, j) /\ Null \notin {x, y} => x < y
  BY DEF ReceivedOnce
<1> DEFINE x == got[a][i].what  y == got[b][j].what
           m == got[a][i].at    n == got[b][j].at
<1>1. IsResult(a, m, x) /\ IsResult(b, n, y) /\ RecordsFit
  BY DEF VInv, GotResults
<1>2. /\ SameRecv(a, i, b, j) <=> Me(a) = Me(b) /\ m = n
      /\ EarlierRecv(a, i, b, j) <=> Me(a) = Me(b) /\ m < n
  BY DEF SameRecv, EarlierRecv, Served
<1> HIDE DEF x, y, m, n
<1>3. Me(a) = Me(b) /\ m = n => x = y
  BY <1>1 DEF IsResult
<1>4. /\ x # Null => HasMessage(Me(a), m) /\ x = received[Me(a)][m]
      /\ y # Null => HasMessage(Me(b), n) /\ y = received[Me(b)][n]
      /\ Me(a) \in Rows /\ m \in 1..MaxCalls /\ Me(b) \in Rows /\ n \in 1..MaxCalls
  BY <1>1 DEF IsResult, HasMessage
<1>5. Me(a) = Me(b) /\ m < n /\ x # Null /\ y # Null => x < y
  BY <1>1, <1>4 DEF RecordsFit
<1>6. Me(a) = Me(b) /\ n < m /\ x # Null /\ y # Null => y < x
  BY <1>1, <1>4 DEF RecordsFit
<1>7. x # Null => x \in Nat
  BY <1>1, <1>4, LenProperties DEF RecordsFit, RInv, MessagesAre
<1>8. x = y /\ x # Null => Me(a) = Me(b)
  BY <1>1, <1>4 DEF RecordsFit
<1>9. x = y /\ x # Null => m = n
  BY <1>4, <1>5, <1>6, <1>7, <1>8
<1> QED BY <1>2, <1>3, <1>5, <1>8, <1>9 DEF x, y

(* A recv of the server's is given one and the same result however often   *)
(* it is read and executed, no message is given to two, and a later recv   *)
(* is given a later message; with the mock, the last two hold of each      *)
(* execution (http_system_database.ts:415, mock_server.ts:881).            *)
THEOREM ReceivedInOrder == Spec => []ReceivedOnce
<1>1. KInv /\ RInv /\ VInv => ReceivedOnce
  <2> SUFFICES ASSUME KInv, RInv, VInv PROVE ReceivedOnce
    OBVIOUS
  <2>1. Served \/ Mocked
    BY DEF KInv, IsJob, Served, Mocked
  <2> QED BY <2>1, ResultsAreOne DEF RInv
<1> QED BY <1>1, Invariance, InvarianceK, ResultsRecorded, PTL
=============================================================================
