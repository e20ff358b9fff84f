------------------------------ MODULE MCRemote ------------------------------
(* Small instances of Remote: two or three actors, a few calls each. *)
EXTENDS Remote, TLC

CONSTANTS a1, a2, a3, p1, p2, w1, w2, k1, f1, f2, m1, m2

C(op, wf, body, temp) == [op |-> op, wf |-> wf, body |-> body, temp |-> temp]
Do(op, wf) == C(op, wf, Nothing, NoRow)
Return == Do("return", NoRow)

Job(kinds, mes, procs, s1, s2, s3) ==
  [store |-> "server",
   kind |-> (a1 :> kinds[1] @@ a2 :> kinds[2] @@ a3 :> kinds[3]),
   me |-> (a1 :> mes[1] @@ a2 :> mes[2] @@ a3 :> mes[3]),
   proc |-> (a1 :> procs[1] @@ a2 :> procs[2] @@ a3 :> procs[3]),
   script |-> (a1 :> s1 @@ a2 :> s2 @@ a3 :> s3),
   row |-> [w \in Rows |-> IF w \in {w1, w2} THEN "PENDING" ELSE "absent"]]

(* w2 is in a queue. *)
Queued(j) == [j EXCEPT !.row[w2] = "ENQUEUED"]

(* Two senders and a receiver. *)
Messaging ==
  Job(<<"workflow", "workflow", "client">>, <<w1, w2, NoRow>>, <<p1, p2, p2>>,
      <<Do("recv", NoRow), Do("recv", NoRow)>>,
      <<C("send", w1, m1, NoRow)>>,
      <<C("clientSend", w1, m2, k1)>>)

(* Two executions of a body that receives. *)
TwoReceivers ==
  Job(<<"workflow", "workflow", "client">>, <<w1, w1, NoRow>>, <<p1, p2, p2>>,
      <<Do("recv", NoRow)>>, <<Do("recv", NoRow)>>,
      <<C("clientSend", w1, m2, k1)>>)

(* Two who send under one key. *)
OneKey ==
  Job(<<"app", "app", "client">>, <<NoRow, NoRow, NoRow>>, <<p1, p2, p2>>,
      <<C("sendOnce", w1, m1, k1)>>,
      <<C("sendOnce", w1, m1, k1)>>,
      <<Do("getEvent", w1)>>)

Streaming ==
  Job(<<"workflow", "client", "client">>, <<w1, NoRow, NoRow>>, <<p1, p2, p2>>,
      <<C("write", NoRow, m1, NoRow), C("write", NoRow, m2, NoRow),
        Do("close", NoRow)>>,
      <<Do("readStream", w1)>>,
      <<Do("cancel", w1)>>)

(* A reader that may be ahead of the writer. *)
Following ==
  [Streaming EXCEPT
     !.script[a1] = <<C("write", NoRow, m1, NoRow), Do("close", NoRow),
                      C("setEvent", NoRow, m1, NoRow)>>,
     !.script[a3] = <<Do("getEvent", w1)>>]

(* A body that runs next to the admin server of its process. *)
Managing ==
  Job(<<"workflow", "admin", "conductor">>, <<w1, NoRow, NoRow>>, <<p1, p1, p2>>,
      <<Do("recv", NoRow), Return>>,
      <<Do("cancel", w1), Do("resume", w1), Do("cancel", w1)>>,
      <<Do("fork", w1)>>)

(* Two executions of a body that forks another workflow. *)
Forking ==
  Job(<<"workflow", "workflow", "client">>, <<w1, w1, NoRow>>, <<p1, p2, p2>>,
      <<Do("fork", w2), Do("cancel", w2), Return>>,
      <<Do("fork", w2), Do("cancel", w2), Return>>,
      <<Do("fork", k1)>>)

Sweeping ==
  Queued(Job(<<"admin", "client", "workflow">>, <<NoRow, NoRow, w1>>, <<p1, p2, p2>>,
      <<Do("globalTimeout", NoRow)>>,
      <<Do("resume", w2)>>,
      <<Do("cancel", w2), Return>>))

(* The same with the mock in the server's place. *)
Mocked(j) == [j EXCEPT !.store = "mock"]

MCJobs ==
  {Messaging, TwoReceivers, OneKey, Streaming, Managing, Forking, Sweeping,
   Mocked(Messaging), Mocked(TwoReceivers), Mocked(Following)}
=============================================================================
