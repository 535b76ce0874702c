---------------------------- MODULE TelemetryProofs ----------------------------
(***************************************************************************)
(* Proofs about the usage pipeline, for every number of records, size of   *)
(* the buffer and number of deliveries analytics handles at once.          *)
(***************************************************************************)
EXTENDS Telemetry, Usage, TLAPS

IInv == TypeOK /\ OnePlace /\ BilledOnce

\* The invariant holds before the first request arrives.
LEMMA InitInv == Init => IInv
<1> SUFFICES ASSUME Init PROVE IInv
  BY Zenon
<1>1. InQueue = {} /\ Held = {}
  BY DEF Init, InQueue, Held
<1>2. handler \in [Handlers -> Delivery]
  BY Zenon DEF Init, Free, Delivery
<1>3. TypeOK
  <2>1. queue \in Seq(Records) /\ Len(queue) <= Buffer
    BY TelemetrySettings DEF Init
  <2> QED  BY <1>2, <2>1, Zenon DEF Init, TypeOK
<1>4. OnePlace
  BY <1>1 DEF Init, OnePlace, Placed, Listening, Free
<1>5. BilledOnce
  BY DEF Init, BilledOnce
<1> QED  BY <1>3, <1>4, <1>5, Zenon DEF IInv

\* A free handler is a delivery.
LEMMA FreeTyped == Free \in Delivery
  BY Zenon DEF Free, Delivery

\* A lost record leaves the dispatcher's hand and is counted, by whichever counter.
LEMMA LostEffect ==
  ASSUME TypeOK, Lost
  PROVE  /\ pc' = "idle" /\ hand' = None
         /\ uncounted' \in Nat /\ dropped' \in Nat
         /\ dropped' + uncounted' = dropped + uncounted + 1
<1>1. CASE mode = "drain"
  BY <1>1 DEF TypeOK, Lost
<1>2. CASE mode # "drain"
  BY <1>2 DEF TypeOK, Lost
<1> QED  BY <1>1, <1>2, Zenon

\* A transient failure either loses the record or keeps it for another attempt.
LEMMA FailedEffect ==
  ASSUME TypeOK, Failed
  PROVE  \/ /\ pc' = "idle" /\ hand' = None
            /\ uncounted' \in Nat /\ dropped' \in Nat
            /\ dropped' + uncounted' = dropped + uncounted + 1
         \/ pc' = "backoff" /\ UNCHANGED <<hand, uncounted, dropped>>
  BY LostEffect, Zenon DEF Failed

\* Every step preserves the types.
LEMMA TypesKept == ASSUME IInv, [Next]_vars PROVE TypeOK'
<1> USE TelemetrySettings DEF IInv
<1>1. ASSUME NEW r \in Records, Arrive(r) PROVE TypeOK'
  BY <1>1, Zenon DEF TypeOK, Arrive, analytics
<1>2. ASSUME NEW r \in Records, Record(r) PROVE TypeOK'
  <2>1. CASE Len(queue) < Buffer
    <3>1. queue' = Append(queue, r) /\ UNCHANGED dropped
      BY <1>2, <2>1, Zenon DEF Record
    <3>2. queue' \in Seq(Records) /\ Len(queue') <= Buffer
      BY <3>1, <2>1 DEF TypeOK
    <3> QED  BY <1>2, <3>1, <3>2, Zenon DEF TypeOK, Record, analytics
  <2>2. CASE ~(Len(queue) < Buffer)
    BY <1>2, <2>2 DEF TypeOK, Record, analytics
  <2> QED  BY <2>1, <2>2, Zenon
<1>3. CASE Drain \/ Close \/ Exit
  BY <1>3, Zenon DEF TypeOK, Drain, Close, Exit, analytics
<1>4. CASE Take
  BY <1>4 DEF TypeOK, Take, analytics
<1>5. CASE BeginDrain \/ Leave \/ Retry
  BY <1>5 DEF TypeOK, BeginDrain, Leave, Retry, analytics
<1>6. CASE GiveUp
  BY <1>6, LostEffect, Zenon DEF TypeOK, GiveUp, analytics
<1>7. CASE Timeout
  <2>1. \A h \in Handlers : [handler[h] EXCEPT !.heard = FALSE] \in Delivery
    BY Zenon DEF TypeOK, Delivery
  <2>2. handler' \in [Handlers -> Delivery]
    BY <1>7, <2>1, Zenon DEF Timeout, Unheard
  <2> QED  BY <1>7, <2>2, FailedEffect, Zenon DEF TypeOK, Timeout
<1>8. ASSUME NEW h \in Handlers, Send(h) PROVE TypeOK'
  <2>1. [pc |-> "check", rec |-> hand, heard |-> TRUE] \in Delivery
    BY Zenon DEF TypeOK, Delivery
  <2> QED  BY <1>8, <2>1, Zenon DEF TypeOK, Send
<1>9. ASSUME NEW h \in Handlers, Refuse(h) PROVE TypeOK'
  BY <1>9, LostEffect, FreeTyped DEF TypeOK, Refuse, Answer
<1>10. ASSUME NEW h \in Handlers, Check(h) PROVE TypeOK'
  <2>1. [handler[h] EXCEPT !.pc = "save"] \in Delivery
    BY Zenon DEF TypeOK, Delivery
  <2>2. handler' \in [Handlers -> Delivery]
    BY <1>10, <2>1, FreeTyped, Zenon DEF TypeOK, Check, Answer
  <2>3. UNCHANGED <<pc, hand, uncounted, dropped>> \/ Delivered
    BY <1>10, Zenon DEF Check, Answer
  <2> QED  BY <1>10, <2>2, <2>3, Zenon DEF TypeOK, Check, Delivered
<1>11. ASSUME NEW h \in Handlers, Save(h) PROVE TypeOK'
  BY <1>11, FreeTyped, Zenon DEF TypeOK, Save, Answer, Delivered
<1>12. ASSUME NEW h \in Handlers, Fault(h) PROVE TypeOK'
  <2>1. UNCHANGED <<pc, hand, uncounted, dropped>> \/ (pc = "reply" /\ Failed)
    BY <1>12, Zenon DEF Fault, Answer, OnePlace, Listening
  <2>2. handler' \in [Handlers -> Delivery]
    BY <1>12, FreeTyped, Zenon DEF TypeOK, Fault, Answer
  <2> QED  BY <1>12, <2>1, <2>2, FailedEffect DEF TypeOK, Fault
<1>13. CASE Crash
  <2>1. UNCHANGED <<pc, hand, uncounted, dropped>> \/ (pc = "reply" /\ Failed)
    BY <1>13, Zenon DEF Crash
  <2> QED  BY <1>13, <2>1, FailedEffect, FreeTyped, Zenon DEF TypeOK, Crash
<1>14. CASE Restart
  BY <1>14, Zenon DEF TypeOK, Restart, gateway
<1>15. CASE UNCHANGED vars
  BY <1>15, Zenon DEF TypeOK, vars, gateway, analytics
<1> QED
  BY Zenon, <1>1, <1>2, <1>3, <1>4, <1>5, <1>6, <1>7, <1>8, <1>9, <1>10, <1>11, <1>12,
     <1>13, <1>14, <1>15 DEF Next

\* What a step of the dispatcher and of analytics has in common: the queue and the
\* requests stay as they are, and the record in hand stays or goes.
LEMMA HandOnly ==
  ASSUME IInv, UNCHANGED <<queue, req>>, UNCHANGED hand \/ pc' = "idle",
         pc = "idle" => pc' = "idle"
  PROVE  Placed'
  BY DEF IInv, OnePlace, Placed, Held, InQueue

\* Every step keeps each record in one place.
LEMMA PlacedKept == ASSUME IInv, [Next]_vars PROVE Placed'
<1> USE TelemetrySettings
<1>0. Placed
  BY Zenon DEF IInv, OnePlace
<1>1. ASSUME NEW r \in Records, Arrive(r) PROVE Placed'
  <2>1. Held' = Held /\ InQueue' = InQueue /\ r \notin Held
    BY <1>0, <1>1, Zenon DEF Arrive, Placed, Held, InQueue
  <2> QED  BY <1>0, <1>1, <2>1 DEF Placed, Arrive, IInv, TypeOK
<1>2. ASSUME NEW r \in Records, Record(r) PROVE Placed'
  <2>1. CASE Len(queue) < Buffer
    <3>1. queue' = Append(queue, r) /\ queue \in Seq(Records) /\ UNCHANGED <<pc, hand>>
      BY <1>2, <2>1, Zenon DEF Record, IInv, TypeOK
    <3>2. r \notin Held
      BY <1>0, <1>2, Zenon DEF Record, Placed
    <3>3. InQueue' = InQueue \cup {r}
      BY <3>1 DEF InQueue
    <3>4. \A i, j \in DOMAIN queue' : i # j => queue'[i] # queue'[j]
      BY <1>0, <3>1, <3>2 DEF Placed, Held, InQueue
    <3>5. \A s \in Held' : s \in Held \/ s = r
      BY <3>1, <3>3, Zenon DEF Held
    <3>6. \A s \in Held' : req'[s] = "done"
      BY <1>0, <1>2, <3>5 DEF Placed, Record, IInv, TypeOK
    <3> QED  BY <1>0, <3>1, <3>2, <3>3, <3>4, <3>6, Zenon DEF Placed, Held
  <2>2. CASE ~(Len(queue) < Buffer)
    <3>1. Held' = Held /\ InQueue' = InQueue
      BY <1>2, <2>2, Zenon DEF Record, Held, InQueue
    <3> QED  BY <1>0, <1>2, <2>2, <3>1 DEF Placed, Record, IInv, TypeOK
  <2> QED  BY <2>1, <2>2, Zenon
<1>3. CASE Take
  <2>1. /\ queue \in Seq(Records) /\ queue # <<>>
        /\ hand' = queue[1] /\ queue' = Tail(queue) /\ pc = "idle" /\ pc' = "send"
        /\ UNCHANGED req
    BY <1>3 DEF Take, IInv, TypeOK
  <2>2. \A i \in DOMAIN queue' : i + 1 \in DOMAIN queue /\ queue'[i] = queue[i + 1]
    BY <2>1
  <2>3. hand' \notin InQueue'
    BY <1>0, <2>1, <2>2 DEF Placed, InQueue
  <2>4. Held' \subseteq Held
    BY <2>1, <2>2 DEF Held, InQueue
  <2> QED  BY <1>0, <2>1, <2>2, <2>3, <2>4 DEF Placed
<1>4. CASE Drain \/ Close \/ Exit \/ BeginDrain \/ Leave \/ Retry
  BY <1>4, HandOnly, Zenon DEF Drain, Close, Exit, BeginDrain, Leave, Retry
<1>5. CASE GiveUp \/ Timeout
  BY <1>5, HandOnly, Zenon DEF GiveUp, Timeout, Failed, Lost
<1>6. ASSUME NEW h \in Handlers, Send(h) \/ Refuse(h) \/ Check(h) \/ Save(h) \/ Fault(h)
      PROVE  Placed'
  <2>1. UNCHANGED <<queue, req>>
    BY <1>6, Zenon DEF Send, Refuse, Check, Save, Fault
  <2>2. UNCHANGED hand \/ pc' = "idle"
    BY <1>6, Zenon DEF Send, Refuse, Check, Save, Fault, Answer, Delivered, Failed, Lost
  <2>3. pc = "idle" => pc' = "idle"
    BY Zenon, <1>6 DEF Send, Refuse, Check, Save, Fault, Answer, Delivered, Failed, Lost,
               IInv, OnePlace, Listening
  <2> QED  BY <2>1, <2>2, <2>3, HandOnly, Zenon
<1>7. CASE Crash \/ Restart
  BY <1>7, HandOnly, Zenon DEF Crash, Restart, Failed, Lost, gateway
<1>8. CASE UNCHANGED vars
  BY <1>8, HandOnly, Zenon DEF vars, gateway
<1> QED
  BY <1>1, <1>2, <1>3, <1>4, <1>5, <1>6, <1>7, <1>8, Zenon DEF Next

\* The end of one delivery: it is forgotten, the others are as they were, and the
\* dispatcher moves on only if it was listening to this one.
LEMMA AnswerKept ==
  ASSUME IInv, NEW h \in Handlers, handler' = [handler EXCEPT ![h] = Free], UNCHANGED req,
         handler[h].heard \/ UNCHANGED <<pc, hand>>
  PROVE  Listening'
<1>1. handler'[h] = Free /\ \A g \in Handlers \ {h} : handler'[g] = handler[g]
  BY Zenon DEF IInv, TypeOK
<1>2. \A g \in Handlers : handler'[g].heard => g # h /\ handler[g].heard
  BY <1>1 DEF Free
<1>3. \A g \in Handlers : handler'[g].heard => UNCHANGED <<pc, hand>>
  BY <1>2, Zenon DEF IInv, OnePlace, Listening
<1> QED  BY <1>1, <1>2, <1>3 DEF Listening, IInv, OnePlace, Free

\* Every step keeps the gateway listening to one delivery at most, the one for the
\* record in its hand.
LEMMA ListeningKept == ASSUME IInv, [Next]_vars PROVE Listening'
<1> USE TelemetrySettings
<1>0. Listening /\ TypeOK
  BY Zenon DEF IInv, OnePlace
<1>1. ASSUME NEW r \in Records, Arrive(r) \/ Record(r) PROVE Listening'
  <2>1. UNCHANGED <<handler, pc, hand>> /\ \A s \in Records : req[s] = "done" => req'[s] = "done"
    BY <1>0, <1>1, Zenon DEF Arrive, Record, analytics, TypeOK
  <2> QED  BY <1>0, <2>1, Zenon DEF Listening
<1>2. CASE Drain \/ Close \/ Exit \/ BeginDrain \/ Leave
  BY <1>0, <1>2, Zenon DEF Listening, Drain, Close, Exit, BeginDrain, Leave, analytics
<1>3. CASE Take \/ Retry \/ GiveUp
  <2>1. UNCHANGED <<handler, req>> /\ pc # "reply"
    BY <1>3, Zenon DEF Take, Retry, GiveUp, analytics
  <2> QED  BY <1>0, <2>1, Zenon DEF Listening
<1>4. CASE Timeout
  <2>1. \A h \in Handlers : /\ ~handler'[h].heard
                           /\ handler'[h].pc = handler[h].pc /\ handler'[h].rec = handler[h].rec
    BY <1>0, <1>4 DEF Timeout, Unheard, TypeOK, Delivery
  <2> QED  BY <1>0, <1>4, <2>1, Zenon DEF Listening, Timeout
<1>5. ASSUME NEW h \in Handlers, Send(h) PROVE Listening'
  <2>1. /\ handler'[h] = [pc |-> "check", rec |-> hand, heard |-> TRUE]
        /\ \A g \in Handlers \ {h} : handler'[g] = handler[g] /\ ~handler[g].heard
    BY <1>0, <1>5, Zenon DEF Send, TypeOK, Listening
  <2>2. hand \in Records /\ req[hand] = "done"
    BY <1>5, Zenon DEF Send, IInv, TypeOK, OnePlace, Placed, Held
  <2> QED  BY <1>0, <1>5, <2>1, <2>2 DEF Listening, Send
<1>6. ASSUME NEW h \in Handlers, Refuse(h) \/ Save(h) \/ Fault(h) PROVE Listening'
  <2>1. /\ handler' = [handler EXCEPT ![h] = Free] /\ UNCHANGED req
        /\ handler[h].heard \/ UNCHANGED <<pc, hand>>
    BY <1>6, Zenon DEF Refuse, Save, Fault, Answer
  <2> QED  BY <2>1, AnswerKept, Zenon
<1>7. ASSUME NEW h \in Handlers, Check(h) PROVE Listening'
  <2>1. CASE rows[handler[h].rec] > 0
    <3>1. /\ handler' = [handler EXCEPT ![h] = Free] /\ UNCHANGED req
          /\ handler[h].heard \/ UNCHANGED <<pc, hand>>
      BY <1>7, <2>1, Zenon DEF Check, Answer
    <3> QED  BY <3>1, AnswerKept, Zenon
  <2>2. CASE ~(rows[handler[h].rec] > 0)
    <3>1. /\ handler' = [handler EXCEPT ![h].pc = "save"]
          /\ UNCHANGED <<pc, hand, req>> /\ handler[h].pc = "check"
      BY <1>7, <2>2, Zenon DEF Check
    <3>2. \A g \in Handlers : /\ handler'[g].heard = handler[g].heard
                             /\ handler'[g].rec = handler[g].rec
                             /\ handler'[g].pc = "free" <=> handler[g].pc = "free"
      BY <1>0, <3>1, Zenon DEF TypeOK, Delivery
    <3> QED  BY <1>0, <3>1, <3>2 DEF Listening
  <2> QED  BY <2>1, <2>2, Zenon
<1>8. CASE Crash
  <2>1. \A h \in Handlers : handler'[h].pc = "free" /\ ~handler'[h].heard
    BY <1>8, Zenon DEF Crash, Free
  <2> QED  BY <2>1, Zenon DEF Listening
<1>9. CASE Restart \/ UNCHANGED vars
  BY <1>0, <1>9, Zenon DEF Listening, Restart, vars, gateway, analytics
<1> QED
  BY <1>1, <1>2, <1>3, <1>4, <1>5, <1>6, <1>7, <1>8, <1>9, Zenon DEF Next

\* Every step leaves a request billed at most once, and only after it was served.
LEMMA BilledKept == ASSUME IInv, [Next]_vars PROVE BilledOnce'
<1>0. BilledOnce /\ TypeOK /\ Listening
  BY Zenon DEF IInv, OnePlace
<1>1. ASSUME NEW h \in Handlers, Save(h) PROVE BilledOnce'
  <2>1. handler[h].rec \in Records /\ req[handler[h].rec] = "done"
    BY <1>0, <1>1, Zenon DEF Save, Listening
  <2> QED  BY <1>0, <1>1, <2>1 DEF Save, BilledOnce, TypeOK
<1>2. ASSUME UNCHANGED rows, \A s \in Records : req[s] = "done" => req'[s] = "done"
      PROVE  BilledOnce'
  BY <1>0, <1>2, Zenon DEF BilledOnce
<1>3. ASSUME NEW r \in Records, Arrive(r) \/ Record(r) PROVE BilledOnce'
  BY <1>0, <1>2, <1>3, Zenon DEF Arrive, Record, analytics, TypeOK
<1>4. CASE Drain \/ Close \/ Exit \/ Take \/ BeginDrain \/ Leave \/ Retry \/ GiveUp \/ Timeout
  BY <1>2, <1>4, Zenon DEF Drain, Close, Exit, Take, BeginDrain, Leave, Retry, GiveUp, Timeout, analytics
<1>5. ASSUME NEW h \in Handlers, Send(h) \/ Refuse(h) \/ Check(h) \/ Fault(h) PROVE BilledOnce'
  BY <1>2, <1>5, Zenon DEF Send, Refuse, Check, Fault
<1>6. CASE Crash \/ Restart \/ UNCHANGED vars
  BY <1>2, <1>6, Zenon DEF Crash, Restart, vars, gateway, analytics
<1> QED
  BY <1>1, <1>3, <1>4, <1>5, <1>6, Zenon DEF Next

\* The inductive invariant: the types, each record in one place, one delivery
\* listened to, one row per request.
THEOREM Invariance == Spec => []IInv
<1>1. IInv /\ [Next]_vars => IInv'
  BY TypesKept, PlacedKept, ListeningKept, BilledKept, Zenon DEF IInv, OnePlace
<1> QED  BY InitInv, <1>1, PTL DEF Spec

\* The queue stays within telemetry.buffer, whatever the number of requests.
THEOREM TypesHold == Spec => []TypeOK
<1>1. IInv => TypeOK
  BY Zenon DEF IInv
<1> QED  BY Invariance, <1>1, PTL

\* However many attempts are made and however late they land, a request has at most
\* one usage row.
THEOREM NeverBilledTwice == Spec => []BilledOnce
<1>1. IInv => BilledOnce
  BY Zenon DEF IInv
<1> QED  BY Invariance, <1>1, PTL

\* No record is held twice, and only the latest attempt at one is listened to.
THEOREM OnePlaceHolds == Spec => []OnePlace
<1>1. IInv => OnePlace
  BY Zenon DEF IInv
<1> QED  BY Invariance, <1>1, PTL

-----------------------------------------------------------------------------
(* Shutdown *)

\* Telemetry.Close comes once every request has ended, and the goroutine it waits for
\* leaves an empty channel and nothing uncounted behind.
Emptied ==
  /\ stop <=> phase \in {"closing", "exited"}
  /\ stop => \A r \in Records : req[r] # "running"
  /\ mode # "run" => stop
  /\ mode = "gone" => queue = <<>> /\ pc = "idle" /\ uncounted = 0
  /\ phase = "exited" => mode = "gone"

\* A delivery ends while the goroutine is inside deliver, which it has not left then.
LEMMA EndsInside ==
  ASSUME IInv, Emptied, UNCHANGED <<req, phase, queue, stop, mode>>,
         pc # "idle" \/ UNCHANGED <<pc, uncounted>>
  PROVE  Emptied'
BY Zenon DEF Emptied

LEMMA EmptiedKept ==
  ASSUME ~MayTimeOut, IInv, Emptied, [Next]_vars
  PROVE  Emptied'
<1>0. Listening /\ TypeOK
  BY Zenon DEF IInv, OnePlace
<1>1. ASSUME NEW r \in Records, Arrive(r) PROVE Emptied'
  BY <1>1, Zenon DEF Arrive, Emptied
<1>2. ASSUME NEW r \in Records, Record(r) PROVE Emptied'
  <2>1. ~stop /\ mode # "gone" /\ phase # "exited"
    BY <1>2, Zenon DEF Record, Emptied
  <2> QED  BY <1>2, <2>1, Zenon DEF Record, Emptied
<1>3. CASE Drain
  BY <1>3, Zenon DEF Drain, Emptied
<1>4. CASE Close
  BY <1>4, Zenon DEF Close, Emptied
<1>5. CASE Exit
  BY <1>5, Zenon DEF Exit, Emptied
<1>6. CASE Take
  BY <1>6, Zenon DEF Take, Emptied
<1>7. CASE BeginDrain
  BY <1>7, Zenon DEF BeginDrain, Emptied
<1>8. CASE Leave
  BY <1>8, Zenon DEF Leave, Emptied
<1>9. CASE Retry \/ GiveUp \/ Timeout
  BY <1>9, EndsInside, Zenon DEF Retry, GiveUp, Timeout
<1>10. ASSUME NEW h \in Handlers, Send(h) PROVE Emptied'
  BY <1>10, EndsInside, Zenon DEF Send
<1>11. ASSUME NEW h \in Handlers, Refuse(h) \/ Check(h) \/ Save(h) \/ Fault(h) PROVE Emptied'
  <2>1. UNCHANGED <<req, phase, queue, stop, mode>>
    BY <1>11, Zenon DEF Refuse, Check, Save, Fault
  <2>2. handler[h].heard \/ UNCHANGED <<pc, uncounted>>
    BY <1>11, Zenon DEF Refuse, Check, Save, Fault, Answer
  <2> QED  BY <1>0, <2>1, <2>2, EndsInside, Zenon DEF Listening
<1>12. CASE Crash \/ Restart \/ UNCHANGED vars
  BY <1>12, EndsInside, Zenon DEF Crash, Restart, vars, gateway
<1> QED
  BY <1>1, <1>2, <1>3, <1>4, <1>5, <1>6, <1>7, <1>8, <1>9, <1>10, <1>11, <1>12, Zenon DEF Next

\* Where requests end within drain_timeout, the process exits with an empty channel and
\* every loss counted, whatever is in flight and however analytics fails.
THEOREM ExitsEmpty == ~MayTimeOut => (Spec => []NothingLeftBehind)
<1> SUFFICES ASSUME ~MayTimeOut PROVE Spec => []NothingLeftBehind
  BY Zenon
<1>1. Init => Emptied
  BY Zenon DEF Init, Emptied
<1>2. IInv /\ Emptied /\ [Next]_vars => Emptied'
  BY EmptiedKept, Zenon
<1>3. Emptied => NothingLeftBehind
  BY Zenon DEF Emptied, NothingLeftBehind
<1> QED  BY Invariance, <1>1, <1>2, <1>3, PTL DEF Spec

-----------------------------------------------------------------------------
(* The pipeline implements the ledger *)

\* The ledger's three columns.
Billed == {r \in Records : rows[r] > 0}
Counted == dropped + uncounted

\* What leaves the dispatcher's hand leaves the set of records held, and nothing else.
LEMMA HandEmptied ==
  ASSUME IInv, UNCHANGED queue, pc # "idle", pc' = "idle"
  PROVE  hand \in Records /\ hand \in Held /\ Held' = Held \ {hand}
  BY Zenon DEF IInv, TypeOK, OnePlace, Placed, Held, InQueue

LEMMA HeldKept ==
  ASSUME UNCHANGED <<queue, hand>>, pc = "idle" <=> pc' = "idle"
  PROVE  Held' = Held
  BY Zenon DEF Held, InQueue

\* A lost record is written off the ledger.
LEMMA LostIsWriteOff ==
  ASSUME IInv, pc # "idle", Lost, UNCHANGED <<queue, rows>>
  PROVE  \E r \in Records : Books!WriteOff(r)
<1>1. hand \in Records /\ hand \in Held /\ Held' = Held \ {hand}
  BY HandEmptied, Zenon DEF Lost
<1>2. Counted' = Counted + 1
  BY LostEffect, Zenon DEF IInv, TypeOK, Counted
<1> QED  BY <1>1, <1>2, Zenon DEF Books!WriteOff, Counted

\* A transient failure is a write-off, or no change to the ledger.
LEMMA FailedBooks ==
  ASSUME IInv, pc # "idle", Failed, UNCHANGED <<queue, rows>>
  PROVE  [Books!Next]_(Books!vars)
<1>1. CASE Lost
  BY <1>1, LostIsWriteOff, Zenon DEF Books!Next
<1>2. CASE pc' = "backoff" /\ UNCHANGED <<hand, uncounted, dropped>>
  <2>1. Held' = Held
    BY <1>2, HeldKept, Zenon
  <2> QED  BY <1>2, <2>1, Zenon DEF Books!vars
<1> QED  BY <1>1, <1>2, Zenon DEF Failed

\* Every step is a step of the ledger or leaves it alone.
LEMMA StepBooks == ASSUME IInv, [Next]_vars PROVE [Books!Next]_(Books!vars)
<1> USE TelemetrySettings
<1>0. TypeOK /\ Placed /\ Listening /\ BilledOnce
  BY Zenon DEF IInv, OnePlace
<1>1. ASSUME NEW r \in Records, Arrive(r) PROVE [Books!Next]_(Books!vars)
  <2>1. Held' = Held
    BY <1>1, HeldKept, Zenon DEF Arrive
  <2> QED  BY <1>1, <2>1, Zenon DEF Arrive, analytics, Books!vars
<1>2. ASSUME NEW r \in Records, Record(r) PROVE [Books!Next]_(Books!vars)
  <2>1. CASE Len(queue) < Buffer
    <3>1. /\ queue' = Append(queue, r) /\ queue \in Seq(Records)
          /\ UNCHANGED <<pc, hand, rows, dropped, uncounted>>
      BY <1>0, <1>2, <2>1, Zenon DEF Record, TypeOK, analytics
    <3>2. InQueue' = InQueue \cup {r}
      BY <3>1 DEF InQueue
    <3>3. Held' = Held \cup {r}
      BY <3>1, <3>2, Zenon DEF Held
    <3>4. r \notin Held /\ r \notin Billed
      BY <1>0, <1>2 DEF Record, Placed, BilledOnce, Billed, TypeOK
    <3>5. Books!Meter(r)
      BY <3>1, <3>3, <3>4, Zenon DEF Books!Meter, Billed
    <3> QED  BY <3>5, Zenon DEF Books!Next
  <2>2. CASE ~(Len(queue) < Buffer)
    <3>1. Held' = Held
      BY <1>2, <2>2, HeldKept, Zenon DEF Record
    <3>2. Books!TurnAway
      BY <1>0, <1>2, <2>2, <3>1 DEF Record, analytics, TypeOK, Books!TurnAway
    <3> QED  BY <3>2, Zenon DEF Books!Next
  <2> QED  BY <2>1, <2>2, Zenon
<1>3. CASE Take
  <2>1. /\ queue \in Seq(Records) /\ queue # <<>>
        /\ hand' = queue[1] /\ queue' = Tail(queue) /\ pc = "idle" /\ pc' = "send"
    BY <1>0, <1>3 DEF Take, TypeOK
  <2>2. InQueue = InQueue' \cup {hand'}
    <3>1. \A i \in DOMAIN queue' : i + 1 \in DOMAIN queue /\ queue'[i] = queue[i + 1]
      BY <2>1
    <3>2. \A i \in DOMAIN queue : i = 1 \/ (i - 1 \in DOMAIN queue' /\ queue[i] = queue'[i - 1])
      BY <2>1
    <3>3. 1 \in DOMAIN queue
      BY <2>1
    <3>4. InQueue \subseteq InQueue' \cup {hand'}
      BY <2>1, <3>2 DEF InQueue
    <3>5. InQueue' \cup {hand'} \subseteq InQueue
      BY <2>1, <3>1, <3>3 DEF InQueue
    <3> QED  BY <3>4, <3>5, Zenon
  <2>3. Held' = Held
    BY <2>1, <2>2, Zenon DEF Held
  <2> QED  BY <1>3, <2>3, Zenon DEF Take, analytics, Books!vars
<1>4. CASE Drain \/ Close \/ Exit \/ BeginDrain \/ Leave \/ Retry
  <2>1. UNCHANGED <<queue, hand, rows>> /\ (pc = "idle" <=> pc' = "idle")
    BY <1>4, Zenon DEF Drain, Close, Exit, BeginDrain, Leave, Retry, analytics
  <2>2. Counted' = Counted
    BY <1>0, <1>4 DEF Drain, Close, Exit, BeginDrain, Leave, Retry, Counted, TypeOK
  <2>3. Held' = Held
    BY <2>1, HeldKept, Zenon
  <2> QED  BY <2>1, <2>2, <2>3, Zenon DEF Books!vars, Counted
<1>5. CASE GiveUp
  BY <1>5, LostIsWriteOff, Zenon DEF GiveUp, analytics, Books!Next
<1>6. CASE Timeout
  BY <1>6, FailedBooks, Zenon DEF Timeout
<1>7. ASSUME NEW h \in Handlers, Send(h) PROVE [Books!Next]_(Books!vars)
  <2>1. Held' = Held
    BY <1>7, HeldKept, Zenon DEF Send
  <2> QED  BY <1>7, <2>1, Zenon DEF Send, Books!vars
<1>8. ASSUME UNCHANGED <<queue, rows, pc, hand, uncounted, dropped>>
      PROVE  [Books!Next]_(Books!vars)
  <2>1. Held' = Held
    BY <1>8, HeldKept, Zenon
  <2> QED  BY <1>8, <2>1, Zenon DEF Books!vars
<1>9. ASSUME NEW h \in Handlers, Refuse(h) PROVE [Books!Next]_(Books!vars)
  <2>1. CASE handler[h].heard
    BY <1>0, <1>9, <2>1, LostIsWriteOff, Zenon DEF Refuse, Answer, Listening, Books!Next
  <2>2. CASE ~handler[h].heard
    BY <1>8, <1>9, <2>2, Zenon DEF Refuse, Answer
  <2> QED  BY <2>1, <2>2, Zenon
<1>10. ASSUME NEW h \in Handlers, Check(h) PROVE [Books!Next]_(Books!vars)
  <2>1. CASE handler[h].heard /\ rows[handler[h].rec] > 0
    <3>1. pc = "reply" /\ handler[h].rec = hand /\ Delivered /\ UNCHANGED <<queue, rows>>
      BY <1>0, <1>10, <2>1, Zenon DEF Check, Answer, Listening
    <3>2. hand \in Records /\ hand \in Held /\ Held' = Held \ {hand}
      BY <3>1, HandEmptied, Zenon DEF Delivered
    <3>3. Books!Settle(hand)
      BY <2>1, <3>1, <3>2, Zenon DEF Books!Settle, Delivered
    <3> QED  BY <3>2, <3>3, Zenon DEF Books!Next
  <2>2. CASE ~(handler[h].heard /\ rows[handler[h].rec] > 0)
    BY <1>8, <1>10, <2>2, Zenon DEF Check, Answer
  <2> QED  BY <2>1, <2>2, Zenon
<1>11. ASSUME NEW h \in Handlers, Save(h) PROVE [Books!Next]_(Books!vars)
  <2>0. PICK r \in Records : r = handler[h].rec
    BY <1>0, <1>11, Zenon DEF Save, Listening
  <2>1. Billed' = Billed \cup {r}
    BY <1>0, <1>11, <2>0 DEF Save, TypeOK, Billed
  <2>2. UNCHANGED <<uncounted, dropped>>
    BY <1>11, Zenon DEF Save, Answer, Delivered
  <2>3. Held' \in {Held, Held \ {r}}
    <3>1. CASE handler[h].heard
      <4>1. pc = "reply" /\ r = hand /\ Delivered /\ UNCHANGED queue
        BY <1>0, <1>11, <2>0, <3>1, Zenon DEF Save, Answer, Listening
      <4> QED  BY <4>1, HandEmptied, Zenon DEF Delivered
    <3>2. CASE ~handler[h].heard
      BY <1>11, <3>2, HeldKept, Zenon DEF Save, Answer
    <3> QED  BY <3>1, <3>2, Zenon
  <2>4. Books!Bill(r)
    BY <2>1, <2>2, <2>3, Zenon DEF Books!Bill, Billed
  <2> QED  BY <2>4, Zenon DEF Books!Next
<1>12. ASSUME NEW h \in Handlers, Fault(h) PROVE [Books!Next]_(Books!vars)
  <2>1. CASE handler[h].heard
    BY <1>0, <1>12, <2>1, FailedBooks, Zenon DEF Fault, Answer, Listening
  <2>2. CASE ~handler[h].heard
    BY <1>8, <1>12, <2>2, Zenon DEF Fault, Answer
  <2> QED  BY <2>1, <2>2, Zenon
<1>13. CASE Crash
  <2>1. \/ pc = "reply" /\ Failed
        \/ UNCHANGED <<pc, hand, uncounted, dropped>>
    BY <1>13, Zenon DEF Crash
  <2> QED  BY <1>8, <1>13, <2>1, FailedBooks, Zenon DEF Crash
<1>14. CASE Restart \/ UNCHANGED vars
  BY <1>8, <1>14, Zenon DEF Restart, vars, gateway, analytics
<1> QED
  BY <1>1, <1>2, <1>3, <1>4, <1>5, <1>6, <1>7, <1>9, <1>10, <1>11, <1>12, <1>13, <1>14, Zenon
  DEF Next

\* The pipeline implements the ledger: a record Telemetry.Record accepted is let go
\* only with its row in the table or with its loss counted.
THEOREM Refinement == Spec => KeepsTheBooks
<1>1. Init => Books!Init
  <2> SUFFICES ASSUME Init PROVE Books!Init
    BY Zenon
  <2>1. Held = {}
    BY DEF Init, Held, InQueue
  <2> QED  BY <2>1 DEF Init, Books!Init
<1>2. IInv /\ [Next]_vars => [Books!Next]_(Books!vars)
  BY StepBooks, Zenon
<1> QED  BY Invariance, <1>1, <1>2, PTL DEF Spec, KeepsTheBooks, Books!Spec

-----------------------------------------------------------------------------
(* Sums *)

INSTANCE WellFoundedInduction

\* A set of naturals that has an element has a least one.
LEMMA Least ==
  ASSUME NEW T, T \subseteq Nat, T # {}
  PROVE  \E x \in T : \A y \in T : x <= y
<1> DEFINE R == OpToRel(<, Nat)
<1>1. IsWellFoundedOn(R, Nat)
  BY NatLessThanWellFounded, Zenon
<1>2. PICK x \in T : \A y \in T : ~(<<y, x>> \in R)
  <2> HIDE DEF R
  <2> QED BY <1>1, WFMin, Zenon
<1>3. \A y \in T : ~(y < x)
  BY <1>2, Zenon DEF OpToRel
<1> QED BY <1>3

\* A set that has 0, and with a number below N the next one, has every number up to N.
LEMMA UpTo ==
  ASSUME NEW N \in Nat, NEW T, 0 \in T, \A n \in 0..(N - 1) : n \in T => n + 1 \in T
  PROVE  0..N \subseteq T
<1> DEFINE M == {n \in 0..N : n \notin T}
<1>1. SUFFICES ASSUME M # {} PROVE FALSE
  BY Zenon
<1>2. M \subseteq Nat
  OBVIOUS
<1>3. PICK x \in M : \A y \in M : x <= y
  <2> HIDE DEF M
  <2> QED BY <1>1, <1>2, Least, Zenon
<1>4. x \in 0..N /\ x \notin T /\ x # 0
  BY <1>3, Zenon
<1>5. x - 1 \in 0..(N - 1) /\ x - 1 + 1 = x
  BY <1>4
<1>6. x - 1 \notin T
  BY <1>4, <1>5
<1>7. x - 1 \in M
  BY <1>5, <1>6
<1> HIDE DEF M
<1>8. x <= x - 1
  BY <1>3, <1>7, Zenon
<1> QED BY <1>4, <1>8

\* What the sum over the rows is after row n, f being the sums before it.
SumStep(s, K, f, n) ==
  IF n = 0 THEN Nothing ELSE IF n \in K THEN AddUsage(f[n - 1], s[n]) ELSE f[n - 1]
SumFits(s, K, f, n) == f = [i \in 0..n |-> SumStep(s, K, f, i)]

\* The sums over the first n rows exist, for every n.
LEMMA SumsExist ==
  ASSUME NEW s, NEW K, NEW N \in Nat
  PROVE  \E f : SumFits(s, K, f, N)
<1> DEFINE T == {n \in Nat : \E f : SumFits(s, K, f, n)}
<1>1. 0 \in T
  <2> DEFINE g == [i \in 0..0 |-> Nothing]
  <2>1. \A i \in 0..0 : SumStep(s, K, g, i) = Nothing
    BY DEF SumStep
  <2>2. SumFits(s, K, g, 0)
    BY <2>1, Zenon DEF SumFits
  <2> QED BY <2>2
<1>2. ASSUME NEW m \in 0..(N - 1), m \in T PROVE m + 1 \in T
  <2>1. PICK f : SumFits(s, K, f, m)
    BY <1>2, Zenon
  <2>2. PICK n \in Nat : n = m + 1
    OBVIOUS
  <2> DEFINE g == [i \in 0..n |-> IF i = n THEN SumStep(s, K, f, n) ELSE f[i]]
  <2>3. ASSUME NEW i \in 0..n PROVE g[i] = SumStep(s, K, g, i)
    <3>1. i # 0 => g[i - 1] = f[i - 1]
      BY <2>2
    <3>2. SumStep(s, K, g, i) = SumStep(s, K, f, i)
      <4> HIDE DEF g
      <4> QED BY <3>1, Zenon DEF SumStep
    <3>3. i # n => i \in 0..m
      BY <2>2
    <3>4. i # n => f[i] = SumStep(s, K, f, i)
      BY <2>1, <3>3, Zenon DEF SumFits
    <3>5. g[i] = IF i = n THEN SumStep(s, K, f, n) ELSE f[i]
      BY Zenon
    <3> HIDE DEF g
    <3> QED BY <3>2, <3>4, <3>5, Zenon
  <2>4. g = [i \in 0..n |-> g[i]]
    BY Zenon
  <2> HIDE DEF g
  <2>5. SumFits(s, K, g, n)
    BY <2>3, <2>4, Zenon DEF SumFits
  <2> QED BY <2>2, <2>5, Zenon
<1>3. 0..N \subseteq T
  <2> HIDE DEF T
  <2> QED BY <1>1, <1>2, UpTo, Zenon
<1>4. N \in T
  <2> HIDE DEF T
  <2> QED BY <1>3
<1> QED BY <1>4, Zenon

\* Sums is that function.
LEMMA SumsStep ==
  ASSUME NEW S, NEW s \in Seq(S), NEW K, NEW n \in 0..Len(s)
  PROVE  Sums(s, K)[n] = SumStep(s, K, Sums(s, K), n)
<1> DEFINE f == CHOOSE f : SumFits(s, K, f, Len(s))
<1>1. Len(s) \in Nat
  OBVIOUS
<1>2. SumFits(s, K, f, Len(s))
  BY <1>1, SumsExist, Zenon
<1>3. Sums(s, K) = f
  BY Zenon DEF Sums, SumFits, SumStep
<1> HIDE DEF f
<1> QED BY <1>2, <1>3, Zenon DEF SumFits
\* A sum with row n, if that is one of those asked for.
Grown(x, K, n, r) == IF n \in K THEN AddUsage(x, r) ELSE x

\* From one row to the next.
LEMMA SumsNext ==
  ASSUME NEW S, NEW s \in Seq(S), NEW K, NEW n \in Nat, n < Len(s)
  PROVE  Sums(s, K)[n + 1] = Grown(Sums(s, K)[n], K, n + 1, s[n + 1])
<1>1. PICK p \in 0..Len(s) : p = n + 1 /\ p - 1 = n /\ p # 0
  OBVIOUS
<1>2. Sums(s, K)[p] = SumStep(s, K, Sums(s, K), p)
  BY SumsStep, Zenon
<1>3. Sums(s, K)[p] = Grown(Sums(s, K)[p - 1], K, p, s[p])
  BY <1>1, <1>2, Zenon DEF SumStep, Grown
<1> QED BY <1>1, <1>3, Zenon

Row == [tenant : Tenants, key : Nat \ {0}, model : Nat, label : Nat, cost : Nat, charge : Nat,
        at : Nat]
Sum == [requests : Nat, cost : Nat, charge : Nat]
AtMost(x, y) == x.requests <= y.requests /\ x.cost <= y.cost /\ x.charge <= y.charge

\* A row can only add to a sum.
LEMMA AddUsageAdds ==
  ASSUME NEW x \in Sum, NEW r \in Row
  PROVE  AddUsage(x, r) \in Sum /\ AtMost(x, AddUsage(x, r))
BY DEF Sum, Row, AddUsage, AtMost

\* The order of the sums.
LEMMA AtMostTransitive ==
  ASSUME NEW x \in Sum, NEW y \in Sum, NEW z \in Sum, AtMost(x, y), AtMost(y, z)
  PROVE  AtMost(x, z) /\ AtMost(x, x)
BY DEF AtMost, Sum

\* A sum is a sum, and nothing comes before the first row.
LEMMA SumsTyped ==
  ASSUME NEW s \in Seq(Row), NEW K
  PROVE  Sums(s, K)[0] = Nothing /\ \A n \in 0..Len(s) : Sums(s, K)[n] \in Sum
<1>1. PICK f : f = Sums(s, K)
  BY Zenon
<1>2. PICK N \in Nat : N = Len(s)
  OBVIOUS
<1> DEFINE T == {n \in 0..N : f[n] \in Sum}
<1>4. f[0] = Nothing /\ 0 \in 0..N
  <2>1. 0 \in 0..Len(s) /\ 0 \in 0..N
    BY <1>2
  <2>2. Sums(s, K)[0] = SumStep(s, K, Sums(s, K), 0)
    BY <2>1, SumsStep, Zenon
  <2> QED BY <1>1, <2>1, <2>2, Zenon DEF SumStep
<1>5. 0 \in T
  <2>1. Nothing \in Sum
    BY DEF Nothing, Sum
  <2> QED BY <1>4, <2>1, Zenon
<1>6. ASSUME NEW m \in 0..(N - 1), m \in T PROVE m + 1 \in T
  <2>1. m \in Nat /\ m < Len(s) /\ m + 1 \in 0..N /\ s[m + 1] \in Row
    BY <1>2
  <2>2. f[m + 1] = Grown(f[m], K, m + 1, s[m + 1])
    BY <1>1, <2>1, SumsNext, Zenon
  <2>3. f[m] \in Sum
    BY <1>6, Zenon
  <2>4. f[m + 1] \in Sum
    BY <2>1, <2>2, <2>3, AddUsageAdds, Zenon DEF Grown
  <2> QED BY <2>1, <2>4, Zenon
<1>7. 0..N \subseteq T
  <2> HIDE DEF T
  <2> QED BY <1>5, <1>6, UpTo, Zenon
<1>8. \A n \in 0..N : f[n] \in Sum
  BY <1>7, Zenon
<1> QED BY <1>1, <1>2, <1>4, <1>8, Zenon

\* The sums grow from row to row.
LEMMA SumsGrow ==
  ASSUME NEW s \in Seq(Row), NEW K, NEW a \in 0..Len(s), NEW b \in a..Len(s)
  PROVE  AtMost(Sums(s, K)[a], Sums(s, K)[b])
<1>1. PICK f : f = Sums(s, K)
  BY Zenon
<1>2. PICK N \in Nat : N = Len(s)
  OBVIOUS
<1>3. \A n \in 0..N : f[n] \in Sum
  BY <1>1, <1>2, SumsTyped, Zenon
<1>4. a \in 0..N /\ b \in a..N /\ N - a \in Nat
  BY <1>2
<1> DEFINE T == {m \in 0..(N - a) : AtMost(f[a], f[a + m])}
<1>5. 0 \in T
  <2>1. a + 0 = a /\ 0 \in 0..(N - a)
    BY <1>4
  <2>2. f[a] \in Sum
    BY <1>3, <1>4, Zenon
  <2>3. AtMost(f[a], f[a])
    BY <2>2 DEF AtMost, Sum
  <2> QED BY <2>1, <2>3, Zenon
<1>6. ASSUME NEW m \in 0..(N - a - 1), m \in T PROVE m + 1 \in T
  <2>1. PICK n \in 0..N : n = a + m
    BY <1>4
  <2>2. /\ n \in Nat /\ n < Len(s) /\ n + 1 \in 0..N /\ a + (m + 1) = n + 1
        /\ m + 1 \in 0..(N - a) /\ s[n + 1] \in Row
    BY <1>2, <1>4, <2>1
  <2>3. f[n + 1] = Grown(f[n], K, n + 1, s[n + 1])
    BY <1>1, <2>2, SumsNext, Zenon
  <2>4. f[n] \in Sum /\ f[n + 1] \in Sum /\ f[a] \in Sum /\ AtMost(f[a], f[n])
    BY <1>3, <1>4, <1>6, <2>1, <2>2, Zenon
  <2>5. AtMost(f[n], f[n + 1])
    <3>1. AtMost(f[n], f[n])
      BY <2>4, SMTT(30) DEF AtMost, Sum
    <3> QED BY <2>2, <2>3, <2>4, <3>1, AddUsageAdds, Zenon DEF Grown
  <2>6. AtMost(f[a], f[n + 1])
    BY <2>4, <2>5, AtMostTransitive, Zenon
  <2> QED BY <2>2, <2>6, Zenon
<1>7. 0..(N - a) \subseteq T
  <2> HIDE DEF T
  <2> QED BY <1>4, <1>5, <1>6, UpTo, Zenon
<1>8. b - a \in 0..(N - a) /\ a + (b - a) = b
  BY <1>4
<1>9. AtMost(f[a], f[b])
  BY <1>7, <1>8, Zenon
<1> QED BY <1>1, <1>9, Zenon

\* Sums over the same rows are the same.
LEMMA SumsSame ==
  ASSUME NEW s \in Seq(Row), NEW K, NEW t \in Seq(Row), NEW L, NEW N \in Nat,
         N <= Len(s), N <= Len(t),
         \A i \in 1..N : s[i] = t[i] /\ (i \in K <=> i \in L)
  PROVE  \A n \in 0..N : Sums(s, K)[n] = Sums(t, L)[n]
<1>1. PICK f, g : f = Sums(s, K) /\ g = Sums(t, L)
  BY Zenon
<1> DEFINE T == {n \in 0..N : f[n] = g[n]}
<1>4. 0 \in T
  <2>1. f[0] = Nothing /\ g[0] = Nothing
    BY <1>1, SumsTyped, Zenon
  <2>2. 0 \in 0..N
    OBVIOUS
  <2> QED BY <2>1, <2>2, Zenon
<1>5. ASSUME NEW m \in 0..(N - 1), m \in T PROVE m + 1 \in T
  <2>1. m \in Nat /\ m < Len(s) /\ m < Len(t) /\ m + 1 \in 0..N /\ m + 1 \in 1..N
    OBVIOUS
  <2>2. /\ f[m + 1] = Grown(f[m], K, m + 1, s[m + 1])
        /\ g[m + 1] = Grown(g[m], L, m + 1, t[m + 1])
    BY <1>1, <2>1, SumsNext, Zenon
  <2>3. s[m + 1] = t[m + 1] /\ (m + 1 \in K <=> m + 1 \in L) /\ f[m] = g[m]
    BY <1>5, <2>1, Zenon
  <2>4. f[m + 1] = g[m + 1]
    BY <2>2, <2>3, Zenon DEF Grown
  <2> QED BY <2>1, <2>4, Zenon
<1>6. 0..N \subseteq T
  <2> HIDE DEF T
  <2> QED BY <1>4, <1>5, UpTo, Zenon
<1> QED BY <1>1, <1>6, Zenon

\* A row at the end adds itself, if it is one of those asked for.
LEMMA SumAppended ==
  ASSUME NEW s \in Seq(Row), NEW K, NEW r \in Row, NEW L,
         \A i \in 1..Len(s) : i \in K <=> i \in L
  PROVE  SumOf(Append(s, r), L) = Grown(SumOf(s, K), L, Len(s) + 1, r)
<1>1. PICK N \in Nat : N = Len(s)
  OBVIOUS
<1>2. PICK t : t = Append(s, r)
  BY Zenon
<1>3. /\ t \in Seq(Row) /\ Len(t) = N + 1 /\ t[N + 1] = r
      /\ \A i \in 1..N : t[i] = s[i]
  BY <1>1, <1>2
<1>4. N <= Len(s) /\ N <= Len(t) /\ N < Len(t) /\ N \in 0..N
  BY <1>1, <1>3
<1>5. Sums(s, K)[N] = Sums(t, L)[N]
  <2>1. \A i \in 1..N : s[i] = t[i] /\ (i \in K <=> i \in L)
    BY <1>1, <1>3, Zenon
  <2>2. Len(s) \in Nat /\ \A n \in 0..N : Sums(s, K)[n] = Sums(t, L)[n]
    BY <1>3, <1>4, <2>1, SumsSame
  <2> QED BY <1>4, <2>2, Zenon
<1>7. Sums(t, L)[N + 1] = Grown(Sums(t, L)[N], L, N + 1, r)
  BY <1>3, <1>4, SumsNext, Zenon
<1> QED BY <1>1, <1>2, <1>3, <1>5, <1>7, Zenon DEF SumOf
\* No rows, no sum.
LEMMA SumsNone ==
  ASSUME NEW s \in Seq(Row), NEW K, NEW N \in Nat, N <= Len(s), \A i \in 1..N : i \notin K
  PROVE  \A n \in 0..N : Sums(s, K)[n] = Nothing
<1>1. PICK f : f = Sums(s, K)
  BY Zenon
<1> DEFINE T == {n \in 0..N : f[n] = Nothing}
<1>2. 0 \in T
  <2>1. f[0] = Nothing
    BY <1>1, SumsTyped, Zenon
  <2> QED BY <2>1
<1>3. ASSUME NEW m \in 0..(N - 1), m \in T PROVE m + 1 \in T
  <2>1. m \in Nat /\ m < Len(s) /\ m + 1 \in 0..N /\ m + 1 \in 1..N
    OBVIOUS
  <2>2. f[m + 1] = Grown(f[m], K, m + 1, s[m + 1])
    BY <1>1, <2>1, SumsNext, Zenon
  <2>3. f[m + 1] = Nothing
    BY <1>3, <2>1, <2>2, Zenon DEF Grown
  <2> QED BY <2>1, <2>3, Zenon
<1>4. 0..N \subseteq T
  <2> HIDE DEF T
  <2> QED BY <1>2, <1>3, UpTo, Zenon
<1> QED BY <1>1, <1>4, Zenon

-----------------------------------------------------------------------------
(* The stores *)

\* The table has the rows that landed, in the order in which they were metered.
Stored ==
  /\ now \in Nat
  /\ metered \in Seq(Row)
  /\ landed \in Nat /\ landed <= Len(metered)
  /\ table \in Seq(Row) /\ Len(table) = landed
  /\ \A i \in 1..landed : table[i] = metered[i]
  /\ memory \in [Tenants -> Seq(Row)]

\* What is charged for a cost is an amount.
LEMMA ChargeTyped == ASSUME NEW c \in Nat PROVE Charge(c) \in Nat
<1>1. PICK m \in Nat : m = c * (100 + MarkupPct)
  BY UsageSettings
<1>2. m \div 100 \in Nat
  OBVIOUS
<1> QED BY <1>1, <1>2, UsageSettings, Zenon DEF Charge

\* The row of a request, as record puts it into the queue.
RowOf(q) == [tenant |-> q.tenant, key |-> q.key, model |-> q.model, label |-> q.label,
             cost |-> q.cost, charge |-> Charge(q.cost), at |-> now]

LEMMA RowTyped == ASSUME now \in Nat, NEW q \in Requests PROVE RowOf(q) \in Row
<1>1. q \in Request
  BY UsageSettings, Zenon
<1>2. /\ q.tenant \in Tenants /\ q.key \in Nat \ {0} /\ q.model \in Nat /\ q.label \in Nat
      /\ q.cost \in Nat
  BY <1>1, Zenon DEF Request
<1>3. Charge(q.cost) \in Nat
  BY <1>2, ChargeTyped, Zenon
<1> QED BY <1>2, <1>3, Zenon DEF Row, RowOf

\* The newest rows are rows.
LEMMA NewestTyped == ASSUME NEW s \in Seq(Row) PROVE Newest(s) \in Seq(Row)
<1>1. CASE Len(s) > MaxRecords
  <2>1. PICK a \in Nat : a = Len(s) - MaxRecords + 1 /\ a >= 1
    BY <1>1, UsageSettings
  <2>2. SubSeq(s, a, Len(s)) \in Seq(Row)
    BY <2>1
  <2> QED BY <1>1, <2>1, <2>2, Zenon DEF Newest
<1>2. CASE ~(Len(s) > MaxRecords)
  BY <1>2, Zenon DEF Newest
<1> QED BY <1>1, <1>2, Zenon

\* What a request adds to the rows, and what the store makes of the next of them.
LEMMA Landing ==
  ASSUME Stored, RecordUsage
  PROVE  \E r \in Row :
           /\ landed + 1 \in 1..Len(metered) /\ r = metered[landed + 1]
           /\ landed' = landed + 1
           /\ memory' = [memory EXCEPT ![r.tenant] = Newest(Append(@, r))]
           /\ table' = Append(table, r)
           /\ UNCHANGED <<now, metered, report, job>>
<1>1. landed + 1 \in 1..Len(metered) /\ metered[landed + 1] \in Row
  BY DEF Stored, RecordUsage
<1> QED BY <1>1, Zenon DEF RecordUsage

LEMMA StoredStep == ASSUME Stored, [UsageNext]_usageVars PROVE Stored'
<1>1. ASSUME NEW q \in Requests, MeterRequest(q) PROVE Stored'
  <2>1. metered' = Append(metered, RowOf(q)) /\ UNCHANGED <<now, landed, memory, table>>
    BY <1>1, Zenon DEF MeterRequest, RowOf
  <2>2. RowOf(q) \in Row
    BY RowTyped, Zenon DEF Stored
  <2>3. PICK r \in Row, s \in Seq(Row) : r = RowOf(q) /\ s = metered
    BY <2>2, Zenon DEF Stored
  <2>4. Append(s, r) \in Seq(Row)
    OBVIOUS
  <2>5. Len(Append(s, r)) = Len(s) + 1 /\ \A i \in 1..Len(s) : Append(s, r)[i] = s[i]
    OBVIOUS
  <2>6. landed <= Len(Append(s, r)) /\ \A i \in 1..landed : i \in 1..Len(s)
    BY <2>3, <2>5 DEF Stored
  <2>7. \A i \in 1..landed : table[i] = Append(s, r)[i]
    BY <2>3, <2>5, <2>6, Zenon DEF Stored
  <2> QED BY <2>1, <2>3, <2>4, <2>6, <2>7, Zenon DEF Stored
<1>2. CASE RecordUsage
  <2>1. PICK r \in Row :
           /\ landed + 1 \in 1..Len(metered) /\ r = metered[landed + 1]
           /\ landed' = landed + 1
           /\ memory' = [memory EXCEPT ![r.tenant] = Newest(Append(@, r))]
           /\ table' = Append(table, r)
           /\ UNCHANGED <<now, metered, report, job>>
    BY <1>2, Landing, Zenon
  <2>2. PICK s \in Seq(Row), N \in Nat : s = table /\ N = landed /\ Len(s) = N
    BY Zenon DEF Stored
  <2>3. Append(s, r) \in Seq(Row)
    OBVIOUS
  <2>4. /\ Len(Append(s, r)) = N + 1 /\ Append(s, r)[N + 1] = r
        /\ \A i \in 1..N : Append(s, r)[i] = s[i]
    BY <2>2
  <2>5. \A i \in 1..(N + 1) : i \in 1..N \/ i = N + 1
    OBVIOUS
  <2>6. \A i \in 1..(N + 1) : Append(s, r)[i] = metered[i]
    BY <2>1, <2>2, <2>4, <2>5, Zenon DEF Stored
  <2>7. landed + 1 \in Nat /\ landed + 1 <= Len(metered)
    BY <2>1 DEF Stored
  <2>8. memory' \in [Tenants -> Seq(Row)]
    <3>1. \A t \in Tenants : Append(memory[t], r) \in Seq(Row)
      BY DEF Stored
    <3>2. \A t \in Tenants : Newest(Append(memory[t], r)) \in Seq(Row)
      BY <3>1, NewestTyped, Zenon
    <3> QED BY <2>1, <3>2, Zenon DEF Stored
  <2> QED BY <2>1, <2>2, <2>3, <2>4, <2>6, <2>7, <2>8, Zenon DEF Stored
<1>3. CASE UsageTick
  <2>1. now + 1 \in Nat
    BY DEF Stored
  <2> QED BY <1>3, <2>1, Zenon DEF UsageTick, Stored
<1>4. CASE UNCHANGED <<now, metered, landed, memory, table>>
  BY <1>4, Zenon DEF Stored
<1> QED
  BY <1>1, <1>2, <1>3, <1>4, Zenon
  DEF UsageNext, usageVars, AskUsage, ReadTotals, QuotaSlots, ReadWindow, Respond, Unavailable,
      RunMonthlyBilling, CalculateTenantInvoice, EndJob, JobFails
-----------------------------------------------------------------------------
(* Invoices *)

\* The rows of a tenant in a window, and what the first n rows charge it for.
DueOf(s, t, a, b) == {i \in DOMAIN s : s[i].tenant = t /\ s[i].at >= a /\ s[i].at < b}
Charged(s, t, a, b, n) == Sums(s, DueOf(s, t, a, b))[n].charge

\* A row that is metered later changes nothing about the earlier ones.
LEMMA DueKept ==
  ASSUME NEW s \in Seq(Row), NEW u \in Seq(Row), NEW N \in Nat, N <= Len(s), N <= Len(u),
         \A i \in 1..N : s[i] = u[i], NEW t, NEW a, NEW b
  PROVE  \A i \in 1..N : s[i] = u[i] /\ (i \in DueOf(s, t, a, b) <=> i \in DueOf(u, t, a, b))
<1>1. \A i \in 1..N : i \in DOMAIN s /\ i \in DOMAIN u
  OBVIOUS
<1> QED BY <1>1, Zenon DEF DueOf

LEMMA ChargedKept ==
  ASSUME NEW s \in Seq(Row), NEW u \in Seq(Row), NEW N \in Nat, N <= Len(s), N <= Len(u),
         \A i \in 1..N : s[i] = u[i], NEW t, NEW a, NEW b, NEW n \in 0..N
  PROVE  Charged(s, t, a, b, n) = Charged(u, t, a, b, n)
<1>1. PICK K, L : K = DueOf(s, t, a, b) /\ L = DueOf(u, t, a, b)
  BY Zenon
<1>2. \A i \in 1..N : s[i] = u[i] /\ (i \in K <=> i \in L)
  BY <1>1, DueKept, Zenon
<1>3. Sums(s, K)[n] = Sums(u, L)[n]
  BY <1>2, SumsSame
<1> QED BY <1>1, <1>3, Zenon DEF Charged

\* More rows charge at least as much.
LEMMA ChargedGrows ==
  ASSUME NEW s \in Seq(Row), NEW t, NEW a, NEW b, NEW m \in 0..Len(s), NEW n \in m..Len(s)
  PROVE  /\ Charged(s, t, a, b, m) \in Nat /\ Charged(s, t, a, b, n) \in Nat
         /\ Charged(s, t, a, b, m) <= Charged(s, t, a, b, n)
<1>1. PICK K : K = DueOf(s, t, a, b)
  BY Zenon
<1>2. AtMost(Sums(s, K)[m], Sums(s, K)[n])
  BY SumsGrow, Zenon
<1>3. n \in 0..Len(s)
  OBVIOUS
<1>4. Sums(s, K)[m] \in Sum /\ Sums(s, K)[n] \in Sum
  BY <1>3, SumsTyped, Zenon
<1> QED BY <1>1, <1>2, <1>4, Zenon DEF Charged, AtMost, Sum

Supported(t) == \E n \in job.seen..landed :
               job.invoices[t] = Charged(metered, t, job.start, job.end, n)
Reached(t) == (\E i \in DueOf(metered, t, job.start, job.end) : i <= job.seen)
                => t \in job.todo \/ t \in DOMAIN job.invoices

\* An invoice is what the rows up to some point of the job's run charge, and no tenant
\* with a row that had landed when the job began is left out.
Invoicing ==
  /\ job.seen \in Nat /\ job.seen <= landed
  /\ job.todo \subseteq Tenants
  /\ \A t \in DOMAIN job.invoices : Supported(t)
  /\ \A t \in Tenants : Reached(t)

JobShaped == job = [pc |-> job.pc, last |-> job.last, start |-> job.start, end |-> job.end,
                    todo |-> job.todo, invoices |-> job.invoices, seen |-> job.seen]

Billing == JobShaped /\ (job.pc = "invoicing" => Invoicing)

\* The members of a set of names include the first of them.
LEMMA LowestIn == ASSUME NEW S, S \subseteq Nat, S # {} PROVE Lowest(S) \in S /\ \A y \in S : Lowest(S) <= y
<1>1. \E x \in S : \A y \in S : x <= y
  BY Least, Zenon
<1> QED BY <1>1, Zenon DEF Lowest

\* What the table's rows add up to is what the rows that landed charge.
LEMMA TotalsCharge ==
  ASSUME Stored, NEW t, NEW a, NEW b
  PROVE  TenantTotals(t, a, b).charge = Charged(metered, t, a, b, landed)
<1>1. PICK s \in Seq(Row), N \in Nat : s = table /\ N = landed /\ Len(s) = N /\ N <= Len(metered)
  BY Zenon DEF Stored
<1>2. N \in 0..N /\ N <= Len(s)
  BY <1>1
<1>3. Charged(s, t, a, b, N) = Charged(metered, t, a, b, N)
  <2>1. \A i \in 1..N : s[i] = metered[i]
    BY <1>1, Zenon DEF Stored
  <2>2. metered \in Seq(Row)
    BY Zenon DEF Stored
  <2> QED BY <1>1, <1>2, <2>1, <2>2, ChargedKept
<1>4. Selected(t, a, b) = DueOf(s, t, a, b)
  BY <1>1, Zenon DEF Selected, DueOf, InWindow
<1> QED BY <1>1, <1>3, <1>4, Zenon DEF TenantTotals, SumOf, Charged

\* While the job stands still, the rows that are metered and land take nothing from it.
LEMMA BillingKept ==
  ASSUME Stored, Stored', Billing, job' = job, landed <= landed',
         Len(metered) <= Len(metered'), \A i \in 1..Len(metered) : metered[i] = metered'[i]
  PROVE  Billing'
<1>1. JobShaped'
  BY Zenon DEF Billing, JobShaped
<1>2. SUFFICES ASSUME job.pc = "invoicing" PROVE Invoicing'
  BY <1>1, Zenon DEF Billing
<1>3. Invoicing
  BY <1>2, Zenon DEF Billing
<1>4. PICK N \in Nat : N = Len(metered) /\ N <= Len(metered) /\ N <= Len(metered')
  BY DEF Stored
<1>5. \A i \in 1..N : metered[i] = metered'[i]
  BY <1>4, Zenon
<1>6. metered \in Seq(Row) /\ metered' \in Seq(Row)
  BY Zenon DEF Stored
<1>7. job'.seen \in Nat /\ job'.seen <= landed'
  BY <1>3 DEF Invoicing, Stored
<1>8. \A t \in DOMAIN job.invoices : Supported(t)'
  <2>1. TAKE t \in DOMAIN job.invoices
  <2>2. PICK n \in job.seen..landed :
               job.invoices[t] = Charged(metered, t, job.start, job.end, n)
    BY <1>3, Zenon DEF Invoicing, Supported
  <2>3. n \in job.seen..landed' /\ n \in 0..N
    BY <1>3, <1>4, <2>2 DEF Invoicing, Stored
  <2>4. Charged(metered, t, job.start, job.end, n) = Charged(metered', t, job.start, job.end, n)
    BY <1>4, <1>5, <1>6, <2>3, ChargedKept
  <2> QED BY <2>2, <2>3, <2>4, Zenon DEF Supported
<1>9. \A t \in Tenants : Reached(t)'
  <2>1. TAKE t \in Tenants
  <2>2. SUFFICES ASSUME NEW i \in DueOf(metered', t, job.start, job.end), i <= job.seen
                 PROVE  t \in job.todo \/ t \in DOMAIN job.invoices
    BY Zenon DEF Reached
  <2>3. i \in DOMAIN metered'
    BY Zenon DEF DueOf
  <2>4. i \in 1..N
    BY <1>3, <1>4, <1>6, <2>2, <2>3 DEF Invoicing, Stored
  <2>5. i \in DueOf(metered, t, job.start, job.end)
    BY <1>4, <1>5, <1>6, <2>2, <2>4, DueKept, Zenon
  <2> QED BY <1>3, <2>2, <2>5, Zenon DEF Invoicing, Reached
<1> QED BY <1>3, <1>7, <1>8, <1>9, Zenon DEF Invoicing
\* The job asks for the tenants with rows in its window, and so for all that are due.
LEMMA JobBegins == ASSUME Stored, RunMonthlyBilling PROVE Billing'
<1>1. PICK a, b, l : job' = [pc |-> "invoicing", last |-> l, start |-> a, end |-> b,
             todo |-> TenantIdsWithUsage(a, b), invoices |-> NoInvoices, seen |-> landed]
  BY Zenon DEF RunMonthlyBilling
<1>2. UNCHANGED <<metered, landed, table>>
  BY Zenon DEF RunMonthlyBilling
<1>3. /\ JobShaped' /\ job'.pc = "invoicing" /\ job'.start = a /\ job'.end = b /\ job'.seen = landed
      /\ job'.todo = TenantIdsWithUsage(a, b) /\ job'.invoices = NoInvoices
  BY <1>1, Zenon DEF JobShaped
<1>4. job'.seen \in Nat /\ job'.seen <= landed'
  BY <1>2, <1>3 DEF Stored
<1>5. TenantIdsWithUsage(a, b) \subseteq Tenants
  <2>1. \A i \in DOMAIN table : table[i].tenant \in Tenants
    <3>1. \A i \in DOMAIN table : table[i] \in Row
      BY DEF Stored
    <3> QED BY <3>1, Zenon DEF Row
  <2> QED BY <2>1, Zenon DEF TenantIdsWithUsage
<1>6. DOMAIN job'.invoices = {}
  BY <1>3, Zenon DEF NoInvoices
<1>7. \A t \in Tenants : Reached(t)'
  <2>1. TAKE t \in Tenants
  <2>2. SUFFICES ASSUME NEW i \in DueOf(metered, t, a, b), i <= landed
                 PROVE  t \in TenantIdsWithUsage(a, b)
    BY <1>2, <1>3, Zenon DEF Reached
  <2>3. i \in DOMAIN metered
    BY Zenon DEF DueOf
  <2>4. i \in 1..landed /\ i \in DOMAIN table
    BY <2>2, <2>3 DEF Stored
  <2>5. table[i] = metered[i]
    BY <2>4, Zenon DEF Stored
  <2> QED BY <2>2, <2>4, <2>5, Zenon DEF DueOf, TenantIdsWithUsage, InWindow
<1> QED BY <1>3, <1>4, <1>5, <1>6, <1>7, Zenon DEF Billing, Invoicing

\* One more invoice, over what has landed by now.
LEMMA JobGoesOn == ASSUME Stored, Billing, CalculateTenantInvoice PROVE Billing'
<1>1. PICK t, amount :
        /\ t = Lowest(job.todo) /\ amount = TenantTotals(t, job.start, job.end).charge
        /\ job' = [job EXCEPT !.todo = @ \ {t}, !.invoices = Invoice(t, amount)]
  BY Zenon DEF CalculateTenantInvoice
<1>2. job.pc = "invoicing" /\ job.todo # {} /\ UNCHANGED <<metered, landed, table>>
  BY Zenon DEF CalculateTenantInvoice
<1>3. Invoicing /\ JobShaped
  BY <1>2, Zenon DEF Billing
<1>4. job' = [pc |-> job.pc, last |-> job.last, start |-> job.start, end |-> job.end,
              todo |-> job.todo \ {t}, invoices |-> Invoice(t, amount), seen |-> job.seen]
  <2>1. PICK p, l, a, b, d, v, n : job = [pc |-> p, last |-> l, start |-> a, end |-> b,
                    todo |-> d, invoices |-> v, seen |-> n]
    BY <1>3, Zenon DEF JobShaped
  <2> QED BY <1>1, <2>1, Zenon
<1>5. /\ JobShaped' /\ job'.start = job.start /\ job'.end = job.end /\ job'.seen = job.seen
      /\ job'.todo = job.todo \ {t} /\ job'.invoices = Invoice(t, amount)
  BY <1>4, Zenon DEF JobShaped
<1>6. t \in job.todo
  <2>1. job.todo \subseteq Nat
    BY <1>3, UsageSettings, Zenon DEF Invoicing
  <2> QED BY <1>1, <1>2, <2>1, LowestIn, Zenon
<1>7. /\ DOMAIN job'.invoices = DOMAIN job.invoices \cup {t}
      /\ job'.invoices[t] = amount
      /\ \A x \in DOMAIN job.invoices : x # t => job'.invoices[x] = job.invoices[x]
  BY <1>5, Zenon DEF Invoice
<1>8. amount = Charged(metered, t, job.start, job.end, landed) /\ landed \in job.seen..landed
  <2>1. landed \in job.seen..landed
    BY <1>3 DEF Invoicing, Stored
  <2> QED BY <1>1, <2>1, TotalsCharge, Zenon
<1>9. \A x \in DOMAIN job'.invoices : Supported(x)'
  BY <1>2, <1>3, <1>5, <1>7, <1>8, Zenon DEF Invoicing, Supported
<1>10. \A x \in Tenants : Reached(x)'
  BY <1>2, <1>3, <1>5, <1>7, Zenon DEF Invoicing, Reached
<1>11. job'.todo \subseteq Tenants /\ job'.seen \in Nat /\ job'.seen <= landed'
  BY <1>2, <1>3, <1>5, Zenon DEF Invoicing
<1> QED BY <1>5, <1>9, <1>10, <1>11, Zenon DEF Billing, Invoicing

LEMMA BillingStep == ASSUME Stored, Billing, [UsageNext]_usageVars PROVE Billing'
<1>1. Stored'
  BY StoredStep, Zenon
<1>2. CASE RunMonthlyBilling
  BY <1>2, JobBegins, Zenon
<1>3. CASE CalculateTenantInvoice
  BY <1>3, JobGoesOn, Zenon
<1>4. CASE EndJob \/ JobFails
  <2>1. PICK l : job' = NoJob(l)
    BY <1>4, Zenon DEF EndJob, JobFails
  <2>2. JobShaped' /\ job'.pc = "idle"
    BY <2>1, Zenon DEF NoJob, JobShaped
  <2> QED BY <2>2, Zenon DEF Billing
<1>5. ASSUME NEW q \in Requests, MeterRequest(q) PROVE Billing'
  <2>1. metered' = Append(metered, RowOf(q)) /\ job' = job /\ landed' = landed
    BY <1>5, Zenon DEF MeterRequest, RowOf
  <2>2. PICK r \in Row, s \in Seq(Row) : r = RowOf(q) /\ s = metered
    BY RowTyped, Zenon DEF Stored
  <2>3. Len(s) <= Len(Append(s, r)) /\ \A i \in 1..Len(s) : s[i] = Append(s, r)[i]
    OBVIOUS
  <2>4. landed <= landed'
    BY <2>1 DEF Stored
  <2> QED BY <1>1, <2>1, <2>2, <2>3, <2>4, BillingKept, Zenon
<1>6. CASE RecordUsage
  <2>1. PICK s \in Seq(Row), N \in Nat : s = metered /\ N = landed
    BY Zenon DEF Stored
  <2>2. metered' = metered /\ job' = job /\ landed' = N + 1
    BY <1>6, <2>1, Zenon DEF RecordUsage
  <2>3. N <= N + 1 /\ Len(s) <= Len(s)
    OBVIOUS
  <2> QED BY <1>1, <2>1, <2>2, <2>3, BillingKept, Zenon
<1>7. CASE UNCHANGED <<metered, landed, job>>
  <2>1. landed <= landed' /\ Len(metered) <= Len(metered')
    BY <1>7 DEF Stored
  <2> QED BY <1>1, <1>7, <2>1, BillingKept, Zenon
<1> QED
  BY <1>2, <1>3, <1>4, <1>5, <1>6, <1>7, Zenon
  DEF UsageNext, usageVars, UsageTick, AskUsage, ReadTotals, QuotaSlots, ReadWindow, Respond, Unavailable

\* It is what the property asks of a job that has come to its end.
LEMMA Accounts == ASSUME Stored, Billing PROVE InvoicesWhatLanded
<1>1. SUFFICES ASSUME Invoiced, NEW t \in Tenants,
                      NEW due, due = DueOf(metered, t, job.start, job.end),
                      NEW invoice, invoice = IF t \in DOMAIN job.invoices THEN job.invoices[t] ELSE 0
               PROVE  /\ Sums(metered, due)[job.seen].charge <= invoice
                      /\ invoice <= Sums(metered, due)[landed].charge
                      /\ (\E i \in due : i <= job.seen) => t \in DOMAIN job.invoices
  BY Zenon DEF InvoicesWhatLanded, DueOf
<1>2. Invoicing /\ job.todo = {}
  BY <1>1, Zenon DEF Invoiced, Billing
<1>3. (\E i \in due : i <= job.seen) => t \in DOMAIN job.invoices
  BY <1>1, <1>2, Zenon DEF Invoicing, Reached
<1>4. PICK s \in Seq(Row), m \in Nat, n \in Nat :
        s = metered /\ m = job.seen /\ n = landed /\ m <= n /\ n <= Len(s)
  BY <1>2, Zenon DEF Invoicing, Stored
<1> DEFINE c(x) == Charged(s, t, job.start, job.end, x)
<1>5. \A x \in 0..Len(s) : c(x) = Sums(metered, due)[x].charge
  BY <1>1, <1>4, Zenon DEF Charged
<1>6. m \in 0..Len(s) /\ n \in m..Len(s) /\ n \in 0..Len(s)
  BY <1>4
<1>7. CASE t \in DOMAIN job.invoices
  <2>1. PICK k \in m..n : job.invoices[t] = c(k)
    BY <1>2, <1>4, <1>7, Zenon DEF Invoicing, Supported
  <2>2. k \in m..Len(s) /\ k \in 0..Len(s) /\ n \in k..Len(s)
    BY <1>4
  <2>3. c(m) <= c(k) /\ c(k) <= c(n)
    BY <1>6, <2>2, ChargedGrows, Zenon
  <2> QED BY <1>1, <1>3, <1>4, <1>5, <1>6, <1>7, <2>1, <2>3, Zenon
<1>8. CASE t \notin DOMAIN job.invoices
  <2>1. \A i \in 1..m : i \notin due
    <3>1. \A i \in 1..m : i <= m
      OBVIOUS
    <3> QED BY <1>3, <1>4, <1>8, <3>1, Zenon
  <2>2. m \in 0..m /\ m <= Len(s)
    BY <1>4
  <2>3. Sums(s, due)[m] = Nothing
    BY <2>1, <2>2, SumsNone
  <2>4. Sums(metered, due)[m].charge = 0
    <3>1. Nothing.charge = 0
      BY DEF Nothing
    <3> QED BY <1>4, <2>3, <3>1, Zenon
  <2>5. c(n) \in Nat
    BY <1>6, ChargedGrows, Zenon
  <2>6. 0 <= c(n) /\ 0 <= 0
    BY <2>5
  <2> QED BY <1>1, <1>3, <1>4, <1>5, <1>6, <1>8, <2>4, <2>6, Zenon
<1> QED BY <1>7, <1>8, Zenon

LEMMA UsageStarts == ASSUME UsageInit PROVE Stored /\ Billing
<1>1. Stored
  <2>1. << >> \in Seq(Row) /\ Len(<< >>) = 0 /\ 0 \in Nat /\ 0 <= 0 /\ 1..0 = {}
    OBVIOUS
  <2> QED BY <2>1, Zenon DEF UsageInit, Stored
<1>2. JobShaped /\ job.pc = "idle"
  BY Zenon DEF UsageInit, NoJob, JobShaped
<1> QED BY <1>1, <1>2, Zenon DEF Billing

\* A billing job that comes to its end has invoiced every tenant for all that had landed
\* when it began and for nothing outside its window or not yet landed, whatever is
\* metered and lands meanwhile (BillingService.runMonthlyBilling, UsageMetricRepo).
THEOREM Invoices == UsageSpec => []InvoicesWhatLanded
<1>1. UsageInit => Stored /\ Billing
  BY UsageStarts, Zenon
<1>2. Stored /\ Billing /\ [UsageNext]_usageVars => Stored' /\ Billing'
  BY StoredStep, BillingStep, Zenon
<1>3. Stored /\ Billing => InvoicesWhatLanded
  BY Accounts, Zenon
<1> QED BY <1>1, <1>2, <1>3, PTL DEF UsageSpec
-----------------------------------------------------------------------------
(* Periods *)

\* A bounded set of numbers has a greatest member.
LEMMA Greatest ==
  ASSUME NEW S, S \subseteq Nat, S # {}, NEW b \in Nat, \A x \in S : x <= b
  PROVE  Highest(S) \in S /\ \A y \in S : Highest(S) >= y
<1> DEFINE T == {d \in Nat : b - d \in S}
<1>1. PICK s \in S : s \in Nat /\ s <= b
  BY Zenon
<1>2. b - s \in Nat /\ b - (b - s) = s
  BY <1>1
<1>3. T # {} /\ T \subseteq Nat
  BY <1>1, <1>2, Zenon
<1>4. PICK d \in T : \A e \in T : d <= e
  BY <1>3, Least, Zenon
<1>5. d \in Nat /\ b - d \in S
  BY Zenon
<1>6. \A y \in S : b - y \in Nat /\ b - (b - y) = y
  OBVIOUS
<1>7. \A y \in S : d <= b - y
  BY <1>4, <1>6, Zenon
<1>8. \A y \in S : b - d >= y
  BY <1>5, <1>7
<1>9. \E x \in S : \A y \in S : x >= y
  BY <1>5, <1>8, Zenon
<1> QED BY <1>9, Zenon DEF Highest

\* The period of an instant starts at the last start up to it and ends at the next one.
LEMMA PeriodOf ==
  ASSUME NEW w \in Windows, NEW t \in Nat, t <= MaxTime
  PROVE  /\ Since(w, t) \in Starts(w) /\ Since(w, t) \in Nat /\ Since(w, t) <= t
         /\ \A s \in Starts(w) : s <= t => s <= Since(w, t)
         /\ Until(w, t) \in Nat /\ t < Until(w, t)
         /\ \A s \in Starts(w) : s > t => Until(w, t) <= s
<1>1. Starts(w) \subseteq Nat /\ 0 \in Starts(w) /\ \E s \in Starts(w) : s > MaxTime
  BY UsageSettings, Zenon
<1>2. PICK A : A = {s \in Starts(w) : s <= t}
  BY Zenon
<1>3. PICK B : B = {s \in Starts(w) : s > t}
  BY Zenon
<1>4. 0 <= t /\ \A s \in Nat : s > MaxTime => s > t
  BY UsageSettings
<1>5. A \subseteq Nat /\ A # {} /\ (\A s \in A : s <= t) /\ B \subseteq Nat /\ B # {}
  BY <1>1, <1>2, <1>3, <1>4, Zenon
<1>6. Highest(A) \in A /\ \A y \in A : Highest(A) >= y
  BY <1>5, Greatest, Zenon
<1>7. Lowest(B) \in B /\ \A y \in B : Lowest(B) <= y
  BY <1>5, LowestIn, Zenon
<1>8. Since(w, t) = Highest(A) /\ Until(w, t) = Lowest(B)
  BY <1>2, <1>3, Zenon DEF Since, Until
<1>9. Since(w, t) \in A /\ \A y \in A : Since(w, t) >= y
  BY <1>6, <1>8, Zenon
<1>10. \A s \in A : s <= Since(w, t)
  BY <1>5, <1>9
<1>11. Until(w, t) \in B /\ \A y \in B : Until(w, t) <= y
  BY <1>7, <1>8, Zenon
<1>12. t < Until(w, t)
  BY <1>3, <1>5, <1>11
<1> QED BY <1>1, <1>2, <1>3, <1>5, <1>9, <1>10, <1>11, <1>12, Zenon

\* Two instants with the same start are in the same period; of two with different ones,
\* the later instant's period starts when or after the earlier one's ends.
LEMMA SamePeriod ==
  ASSUME NEW w \in Windows, NEW t \in Nat, NEW u \in Nat, t <= u, u <= MaxTime
  PROVE  /\ Since(w, t) = Since(w, u) => Until(w, t) = Until(w, u)
         /\ Since(w, t) # Since(w, u) => Since(w, u) >= Until(w, t)
<1>1. t <= MaxTime
  BY UsageSettings
<1>2. /\ Since(w, u) \in Starts(w) /\ Since(w, u) \in Nat /\ Since(w, u) <= u
      /\ \A s \in Starts(w) : s <= u => s <= Since(w, u)
  BY PeriodOf, Zenon
<1>3. /\ Since(w, t) \in Starts(w) /\ Since(w, t) \in Nat /\ Since(w, t) <= t
      /\ \A s \in Starts(w) : s <= t => s <= Since(w, t)
      /\ \A s \in Starts(w) : s > t => Until(w, t) <= s
      /\ Until(w, t) \in Nat
  BY <1>1, PeriodOf, Zenon
<1>4. Starts(w) \subseteq Nat
  BY UsageSettings, Zenon
<1>5. ASSUME Since(w, t) = Since(w, u) PROVE Until(w, t) = Until(w, u)
  <2>1. \A s \in Starts(w) : s > t <=> s > u
    <3>1. ASSUME NEW s \in Starts(w), s > t PROVE s > u
      <4>1. PICK a \in Nat : a = Since(w, t) /\ a <= t /\ (s <= u => s <= a)
        BY <1>2, <1>3, <1>5, Zenon
      <4> QED BY <1>4, <3>1, <4>1
    <3>2. ASSUME NEW s \in Starts(w), s > u PROVE s > t
      BY <1>4, <3>2
    <3> QED BY <3>1, <3>2, Zenon
  <2>2. {s \in Starts(w) : s > t} = {s \in Starts(w) : s > u}
    BY <2>1, Zenon
  <2> QED BY <2>2, Zenon DEF Until
<1>6. ASSUME Since(w, t) # Since(w, u) PROVE Since(w, u) >= Until(w, t)
  <2>1. PICK a \in Nat, b \in Nat, c \in Nat :
          /\ a = Since(w, t) /\ b = Since(w, u) /\ c = Until(w, t)
          /\ a <= t /\ b <= u /\ a # b
          /\ (b <= t => b <= a) /\ (a <= u => a <= b) /\ (b > t => c <= b)
    BY <1>2, <1>3, <1>6, Zenon
  <2>2. b >= c
    BY <2>1
  <2> QED BY <2>1, <2>2, Zenon
<1> QED BY <1>5, <1>6, Zenon

\* A number is its quotient times the divisor, and the rest.
LEMMA Division ==
  ASSUME NEW v \in Nat, NEW P \in Nat, P > 0
  PROVE  v \div P \in Nat /\ v % P \in Nat /\ v % P < P /\ v = P * (v \div P) + (v % P)
<1>1. v \div P \in Nat
  OBVIOUS
<1>2. v % P \in Nat /\ v % P < P
  OBVIOUS
<1>3. v = P * (v \div P) + (v % P)
  OBVIOUS
<1> QED BY <1>1, <1>2, <1>3, Zenon
-----------------------------------------------------------------------------
(* One figure *)

PlaceStep(f, x) == IF x < 10 THEN 1 ELSE 10 * f[x \div 10]
PlaceFits(f, n) == f = [x \in 0..n |-> PlaceStep(f, x)]

\* The place of x is ten times that of x without its last figure.
LEMMA Shorter ==
  ASSUME NEW x \in Nat, x >= 10
  PROVE  \E y \in Nat : y = x \div 10 /\ 1 <= y /\ y < x /\ 10 * y <= x /\ x < 10 * y + 10
OBVIOUS

LEMMA PlacesExist == ASSUME NEW N \in Nat PROVE \E f : PlaceFits(f, N)
<1> DEFINE T == {n \in Nat : \E f : PlaceFits(f, n)}
<1>1. 0 \in T
  <2> DEFINE f == [x \in 0..0 |-> 1]
  <2>1. \A x \in 0..0 : PlaceStep(f, x) = 1
    BY DEF PlaceStep
  <2>2. PlaceFits(f, 0)
    BY <2>1, Zenon DEF PlaceFits
  <2>3. 0 \in Nat
    OBVIOUS
  <2> QED BY <2>2, <2>3, Zenon
<1>2. ASSUME NEW n \in 0..(N - 1), n \in T PROVE n + 1 \in T
  <2>1. PICK f : PlaceFits(f, n)
    BY <1>2, Zenon
  <2> DEFINE g == [x \in 0..(n + 1) |-> PlaceStep(f, x)]
  <2>2. \A x \in 0..n : f[x] = PlaceStep(f, x)
    BY <2>1, Zenon DEF PlaceFits
  <2>3. \A x \in 0..n : x \in 0..(n + 1)
    OBVIOUS
  <2>4. \A x \in 0..n : g[x] = f[x]
    BY <2>2, <2>3, Zenon
  <2>5. \A x \in 0..(n + 1) : PlaceStep(g, x) = PlaceStep(f, x)
    <3>1. TAKE x \in 0..(n + 1)
    <3>2. CASE x < 10
      BY <3>2, Zenon DEF PlaceStep
    <3>3. CASE ~(x < 10)
      <4>1. x \div 10 \in 0..n
        BY <3>3
      <4>2. g[x \div 10] = f[x \div 10]
        BY <2>4, <4>1, Zenon
      <4> HIDE DEF g
      <4> QED BY <3>3, <4>2, Zenon DEF PlaceStep
    <3> QED BY <3>2, <3>3, Zenon
  <2>6. PlaceFits(g, n + 1)
    BY <2>5, Zenon DEF PlaceFits
  <2>7. n + 1 \in Nat
    OBVIOUS
  <2> QED BY <2>6, <2>7, Zenon
<1>3. 0..N \subseteq T
  <2> HIDE DEF T
  <2> QED BY <1>1, <1>2, UpTo, Zenon
<1>4. N \in 0..N
  OBVIOUS
<1> QED BY <1>3, <1>4, Zenon

\* f gives the place of every number up to n.
Places(f, n) == \A x \in 0..n : (x < 10 => f[x] = 1) /\ (x >= 10 => f[x] = 10 * f[x \div 10])

LEMMA PlacesOf == ASSUME NEW v \in Nat PROVE \E f : Places(f, v) /\ Place(v) = f[v]
<1> DEFINE f == CHOOSE f : PlaceFits(f, v)
<1>1. PlaceFits(f, v)
  BY PlacesExist, Zenon
<1>2. Place(v) = f[v]
  BY Zenon DEF Place, PlaceFits, PlaceStep
<1> HIDE DEF f
<1>3. \A x \in 0..v : f[x] = PlaceStep(f, x)
  BY <1>1, Zenon DEF PlaceFits
<1>4. Places(f, v)
  <2>1. \A x \in 0..v : x >= 10 => ~(x < 10)
    OBVIOUS
  <2> QED BY <1>3, <2>1, Zenon DEF Places, PlaceStep
<1> QED BY <1>2, <1>4, Zenon

\* A number has as many figures as its place says.
HasPlace(x, p) == p \in Nat /\ p > 0 /\ x < 10 * p /\ (x > 0 => p <= x)

LEMMA PlacesHold ==
  ASSUME NEW v \in Nat, NEW f, Places(f, v)
  PROVE  \A x \in 0..v : HasPlace(x, f[x])
<1> DEFINE M == {x \in 0..v : ~HasPlace(x, f[x])}
<1>1. SUFFICES ASSUME M # {} PROVE FALSE
  BY Zenon
<1>2. M \subseteq Nat
  OBVIOUS
<1>3. PICK x \in M : \A y \in M : x <= y
  BY <1>1, <1>2, Least, Zenon
<1>4. x \in 0..v /\ ~HasPlace(x, f[x]) /\ x \in Nat
  BY <1>2, Zenon
<1>5. CASE x < 10
  <2>1. f[x] = 1
    BY <1>4, <1>5, Zenon DEF Places
  <2>2. HasPlace(x, 1)
    BY <1>4, <1>5 DEF HasPlace
  <2> QED BY <1>4, <2>1, <2>2, Zenon
<1>6. CASE x >= 10
  <2>1. PICK y \in Nat : y = x \div 10 /\ 1 <= y /\ y < x /\ 10 * y <= x /\ x < 10 * y + 10
    BY <1>4, <1>6, Shorter, Zenon
  <2>2. y \in 0..v /\ ~(x <= y)
    BY <1>4, <2>1
  <2>3. HasPlace(y, f[y])
    BY <1>3, <2>2, Zenon
  <2>4. f[x] = 10 * f[y]
    BY <1>4, <1>6, <2>1, Zenon DEF Places
  <2>5. PICK p \in Nat : p = f[y] /\ p > 0 /\ y < 10 * p /\ p <= y
    BY <2>1, <2>3 DEF HasPlace
  <2>6. HasPlace(x, 10 * p)
    BY <1>4, <2>1, <2>5 DEF HasPlace
  <2> QED BY <1>4, <2>4, <2>5, <2>6, Zenon
<1>7. x < 10 \/ x >= 10
  BY <1>4
<1> QED BY <1>5, <1>6, <1>7, Zenon

\* A larger number has the same place, or one ten times as large at least.
Apart(p, q) == p = q \/ 10 * p <= q

LEMMA PlacesCompare ==
  ASSUME NEW v \in Nat, NEW f, Places(f, v), NEW w \in Nat, NEW g, Places(g, w)
  PROVE  \A y \in 0..w : \A x \in 0..v : x <= y => Apart(f[x], g[y])
<1> DEFINE Bad(y) == \E x \in 0..v : x <= y /\ ~Apart(f[x], g[y])
           M == {y \in 0..w : Bad(y)}
<1>1. SUFFICES ASSUME M # {} PROVE FALSE
  BY Zenon
<1>2. M \subseteq Nat
  OBVIOUS
<1>3. PICK y \in M : \A z \in M : y <= z
  BY <1>1, <1>2, Least, Zenon
<1>4. y \in 0..w /\ y \in Nat
  BY <1>2, Zenon
<1>5. PICK x \in 0..v : x <= y /\ ~Apart(f[x], g[y])
  BY Zenon
<1>6. x \in Nat
  OBVIOUS
<1>7. CASE y < 10
  <2>1. x < 10
    BY <1>4, <1>5, <1>6, <1>7
  <2>2. f[x] = 1 /\ g[y] = 1
    BY <1>4, <1>7, <2>1, Zenon DEF Places
  <2> QED BY <1>5, <2>2, Zenon DEF Apart
<1>8. CASE y >= 10
  <2>1. PICK b \in Nat : b = y \div 10 /\ 1 <= b /\ b < y /\ 10 * b <= y /\ y < 10 * b + 10
    BY <1>4, <1>8, Shorter, Zenon
  <2>2. g[y] = 10 * g[b]
    BY <1>4, <1>8, <2>1, Zenon DEF Places
  <2>3. b \in 0..w /\ ~(y <= b)
    BY <1>4, <2>1
  <2>4. PICK q \in Nat : q = g[b] /\ q > 0
    <3>1. HasPlace(b, g[b])
      BY <2>3, PlacesHold
    <3> QED BY <3>1, Zenon DEF HasPlace
  <2>5. CASE x < 10
    <3>1. f[x] = 1
      BY <2>5, Zenon DEF Places
    <3>2. Apart(1, 10 * q)
      BY <2>4 DEF Apart
    <3> QED BY <1>5, <2>2, <2>4, <3>1, <3>2, Zenon
  <2>6. CASE x >= 10
    <3>1. PICK a \in Nat : a = x \div 10 /\ 1 <= a /\ a < x /\ 10 * a <= x /\ x < 10 * a + 10
      BY <1>6, <2>6, Shorter, Zenon
    <3>2. f[x] = 10 * f[a]
      BY <2>6, <3>1, Zenon DEF Places
    <3>3. a \in 0..v /\ a <= b
      BY <1>4, <1>5, <1>6, <2>1, <3>1
    <3>4. Apart(f[a], g[b])
      BY <1>3, <2>3, <3>3, Zenon
    <3>5. PICK p \in Nat : p = f[a]
      <4>1. HasPlace(a, f[a])
        BY <3>3, PlacesHold
      <4> QED BY <4>1, Zenon DEF HasPlace
    <3>6. Apart(10 * p, 10 * q)
      <4>1. p = q \/ 10 * p <= q
        BY <2>4, <3>4, <3>5, Zenon DEF Apart
      <4> QED BY <4>1 DEF Apart
    <3> QED BY <1>5, <2>2, <2>4, <3>2, <3>5, <3>6, Zenon
  <2>7. x < 10 \/ x >= 10
    BY <1>6
  <2> QED BY <2>5, <2>6, <2>7, Zenon
<1>9. y < 10 \/ y >= 10
  BY <1>4
<1> QED BY <1>7, <1>8, <1>9, Zenon
\* v in units of p: the multiple of p below it, or the next one.
Up(p, q, r) == 2 * r > p \/ (2 * r = p /\ q % 2 = 1)
Rounded(p, q, r) == p * (q + IF Up(p, q, r) THEN 1 ELSE 0)

LEMMA OneFigureOf ==
  ASSUME NEW v \in Nat
  PROVE  \E p \in Nat, q \in Nat, r \in Nat :
           /\ p = Place(v) /\ HasPlace(v, p) /\ v = p * q + r /\ r < p
           /\ OneFigure(v) = Rounded(p, q, r)
<1>1. PICK f : Places(f, v) /\ Place(v) = f[v]
  BY PlacesOf, Zenon
<1>2. v \in 0..v
  OBVIOUS
<1>3. HasPlace(v, f[v])
  BY <1>1, <1>2, PlacesHold
<1>4. PICK p \in Nat : p = Place(v) /\ p > 0 /\ HasPlace(v, p)
  BY <1>1, <1>3, Zenon DEF HasPlace
<1>5. v \div p \in Nat /\ v % p \in Nat /\ v % p < p /\ v = p * (v \div p) + (v % p)
  BY <1>4, Division, Zenon
<1>6. OneFigure(v) = Rounded(p, v \div p, v % p)
  BY <1>4, Zenon DEF OneFigure, Rounded, Up
<1> QED BY <1>4, <1>5, <1>6, Zenon

\* Rounding goes no further than to the multiples next to the number.
LEMMA RoundedNear ==
  ASSUME NEW p \in Nat, NEW q \in Nat, NEW r
  PROVE  /\ Rounded(p, q, r) = p * q + p \/ Rounded(p, q, r) = p * q
         /\ p * q \in Nat
<1>1. p * (q + 1) = p * q + p /\ p * (q + 0) = p * q /\ p * q \in Nat
  OBVIOUS
<1> QED BY <1>1, Zenon DEF Rounded

\* A larger multiple is larger by the unit at least.
LEMMA Multiples ==
  ASSUME NEW p \in Nat, NEW q \in Nat, NEW k \in Nat, q < k
  PROVE  p * q + p <= p * k
<1>1. PICK d \in Nat : k = q + 1 + d
  <2>1. k - q - 1 \in Nat /\ k = q + 1 + (k - q - 1)
    OBVIOUS
  <2> QED BY <2>1, Zenon
<1>2. p * d \in Nat
  OBVIOUS
<1>3. p * (q + 1 + d) = p * q + p + p * d
  OBVIOUS
<1>4. p * q \in Nat
  OBVIOUS
<1> QED BY <1>1, <1>2, <1>3, <1>4

\* In the same unit, a larger number is rounded to no less.
LEMMA RoundedOrder ==
  ASSUME NEW p \in Nat, p > 0, NEW q \in Nat, NEW r \in Nat, r < p,
         NEW k \in Nat, NEW s \in Nat, s < p, p * q + r <= p * k + s
  PROVE  Rounded(p, q, r) <= Rounded(p, k, s)
<1>1. PICK a \in Nat, b \in Nat : a = p * q /\ b = p * k
  BY RoundedNear, Zenon
<1>2. Rounded(p, q, r) = a + p \/ Rounded(p, q, r) = a
  BY <1>1, RoundedNear, Zenon
<1>3. Rounded(p, k, s) = b + p \/ Rounded(p, k, s) = b
  BY <1>1, RoundedNear, Zenon
<1>4. CASE q < k
  <2>1. a + p <= b
    BY <1>1, <1>4, Multiples, Zenon
  <2> QED BY <1>2, <1>3, <2>1
<1>5. CASE k < q
  <2>1. b + p <= a
    BY <1>1, <1>5, Multiples, Zenon
  <2>2. a + r <= b + s
    BY <1>1, Zenon
  <2> QED BY <2>1, <2>2
<1>6. CASE k = q
  <2>1. a = b
    BY <1>1, <1>6, Zenon
  <2>2. a + r <= b + s
    BY <1>1, Zenon
  <2>3. r <= s
    BY <2>1, <2>2
  <2>4. q % 2 \in Nat
    OBVIOUS
  <2>5. Up(p, q, r) => Up(p, q, s)
    BY <2>3, <2>4 DEF Up
  <2>6. Rounded(p, q, r) = (IF Up(p, q, r) THEN a + p ELSE a)
    <3>1. p * (q + 1) = p * q + p /\ p * (q + 0) = p * q
      OBVIOUS
    <3> QED BY <1>1, <3>1, Zenon DEF Rounded
  <2>7. Rounded(p, k, s) = (IF Up(p, q, s) THEN a + p ELSE a)
    <3>1. p * (q + 1) = p * q + p /\ p * (q + 0) = p * q
      OBVIOUS
    <3> QED BY <1>1, <1>6, <3>1, Zenon DEF Rounded
  <2>8. a <= a + p /\ a + p <= a + p /\ a <= a
    OBVIOUS
  <2> QED BY <2>5, <2>6, <2>7, <2>8, Zenon
<1>7. q < k \/ k < q \/ k = q
  OBVIOUS
<1> QED BY <1>4, <1>5, <1>6, <1>7, Zenon

\* More usage is never shown as less.
LEMMA OneFigureOrder ==
  ASSUME NEW v \in Nat, NEW w \in Nat, v <= w
  PROVE  OneFigure(v) <= OneFigure(w)
<1>1. PICK p \in Nat, q \in Nat, r \in Nat :
           /\ p = Place(v) /\ HasPlace(v, p) /\ v = p * q + r /\ r < p
           /\ OneFigure(v) = Rounded(p, q, r)
  BY OneFigureOf, Zenon
<1>2. PICK u \in Nat, k \in Nat, s \in Nat :
           /\ u = Place(w) /\ HasPlace(w, u) /\ w = u * k + s /\ s < u
           /\ OneFigure(w) = Rounded(u, k, s)
  BY OneFigureOf, Zenon
<1>3. Apart(p, u)
  <2>1. PICK f : Places(f, v) /\ Place(v) = f[v]
    BY PlacesOf, Zenon
  <2>2. PICK g : Places(g, w) /\ Place(w) = g[w]
    BY PlacesOf, Zenon
  <2>3. v \in 0..v /\ w \in 0..w
    OBVIOUS
  <2>4. Apart(f[v], g[w])
    BY <2>1, <2>2, <2>3, PlacesCompare
  <2> QED BY <1>1, <1>2, <2>1, <2>2, <2>4, Zenon
<1>4. p > 0 /\ u > 0 /\ v < 10 * p /\ (w > 0 => u <= w)
  BY <1>1, <1>2, Zenon DEF HasPlace
<1>5. CASE p = u
  <2>1. p * q + r <= p * k + s
    BY <1>1, <1>2, <1>5, Zenon
  <2>2. Rounded(p, q, r) <= Rounded(p, k, s)
    BY <1>1, <1>2, <1>4, <1>5, <2>1, RoundedOrder, Zenon
  <2> QED BY <1>1, <1>2, <1>5, <2>2, Zenon
<1>6. CASE 10 * p <= u
  <2>1. PICK a \in Nat : a = p * q /\ a + r = v /\ (Rounded(p, q, r) = a + p \/ Rounded(p, q, r) = a)
    <3>1. p * q \in Nat /\ (Rounded(p, q, r) = p * q + p \/ Rounded(p, q, r) = p * q)
      BY RoundedNear, Zenon
    <3>2. p * q + r = v
      BY <1>1, Zenon
    <3> QED BY <3>1, <3>2, Zenon
  <2>2. a + p <= 10 * p
    <3>1. q < 10
      <4>1. SUFFICES ASSUME ~(q < 10) PROVE FALSE
        BY Zenon
      <4>2. 9 < q
        BY <4>1
      <4>3. p * 9 + p <= p * q
        BY <4>2, Multiples
      <4> QED BY <1>4, <2>1, <4>3
    <3>2. CASE q = 9
      BY <2>1, <3>2
    <3>3. CASE q < 9
      <4>1. p * q + p <= p * 9
        BY <3>3, Multiples
      <4> QED BY <2>1, <4>1
    <3> QED BY <3>1, <3>2, <3>3
  <2>3. PICK b \in Nat : b = u * k /\ b + s = w /\ (Rounded(u, k, s) = b + u \/ Rounded(u, k, s) = b)
    <3>1. u * k \in Nat /\ (Rounded(u, k, s) = u * k + u \/ Rounded(u, k, s) = u * k)
      BY RoundedNear, Zenon
    <3>2. u * k + s = w
      BY <1>2, Zenon
    <3> QED BY <3>1, <3>2, Zenon
  <2>4. u <= b \/ w = 0
    <3>1. CASE k = 0
      <4>1. b = 0
        BY <2>3, <3>1
      <4>2. 0 + s = w /\ s < u
        BY <1>2, <2>3, <4>1, Zenon
      <4> QED BY <1>4, <4>2
    <3>2. CASE 0 < k
      <4>1. u * 0 + u <= u * k
        BY <3>2, Multiples
      <4> QED BY <2>3, <4>1
    <3> QED BY <3>1, <3>2
  <2>5. CASE w = 0
    <3>1. v = 0 /\ w = 0
      BY <2>5
    <3>2. OneFigure(v) = OneFigure(w)
      BY <3>1, Zenon
    <3>3. OneFigure(v) \in Nat
      BY <1>1, <2>1
    <3> QED BY <3>2, <3>3
  <2>6. CASE u <= b
    BY <1>1, <1>2, <1>6, <2>1, <2>2, <2>3, <2>6
  <2> QED BY <2>4, <2>5, <2>6, Zenon
<1> QED BY <1>3, <1>5, <1>6, Zenon DEF Apart
-----------------------------------------------------------------------------
(* The two stores *)

\* The rows that a query for a tenant, or one of its keys, and a window takes.
Takes(r, t, k, a, b) == r.tenant = t /\ InWindow(r, a, b) /\ (k = 0 \/ r.key = k)
Taken(s, t, k, a, b) == {i \in DOMAIN s : Takes(s[i], t, k, a, b)}
Added(x, r, t, k, a, b) == IF Takes(r, t, k, a, b) THEN AddUsage(x, r) ELSE x

\* A row that is appended is added to the totals that take it.
LEMMA TakenAppended ==
  ASSUME NEW s \in Seq(Row), NEW r \in Row, NEW t, NEW k, NEW a, NEW b
  PROVE  SumOf(Append(s, r), Taken(Append(s, r), t, k, a, b))
           = Added(SumOf(s, Taken(s, t, k, a, b)), r, t, k, a, b)
<1>1. PICK K, L, u, n : /\ K = Taken(s, t, k, a, b) /\ L = Taken(u, t, k, a, b)
                        /\ u = Append(s, r) /\ n = Len(s) + 1
  BY Zenon
<1>2. n \in DOMAIN u /\ u[n] = r /\ \A i \in 1..Len(s) : i \in DOMAIN s /\ i \in DOMAIN u /\ u[i] = s[i]
  BY <1>1
<1>3. \A i \in 1..Len(s) : i \in K <=> i \in L
  BY <1>1, <1>2, Zenon DEF Taken
<1>4. SumOf(u, L) = Grown(SumOf(s, K), L, n, r)
  BY <1>1, <1>3, SumAppended, Zenon
<1>5. n \in L <=> Takes(r, t, k, a, b)
  BY <1>1, <1>2, Zenon DEF Taken
<1> QED BY <1>1, <1>4, <1>5, Zenon DEF Grown, Added

LEMMA SumOfTyped ==
  ASSUME NEW s \in Seq(Row), NEW K
  PROVE  SumOf(s, K) \in Sum
<1>1. Len(s) \in 0..Len(s)
  OBVIOUS
<1> QED BY <1>1, SumsTyped DEF SumOf

LEMMA TableTotalsAre ==
  ASSUME NEW t, NEW k, NEW a, NEW b
  PROVE  /\ TableTotals(t, k, a, b) = SumOf(table, Taken(table, t, k, a, b))
         /\ TableTotals(t, k, a, b)' = SumOf(table', Taken(table', t, k, a, b))
<1>1. CASE k = 0
  <2>1. /\ Selected(t, a, b) = Taken(table, t, k, a, b)
        /\ Selected(t, a, b)' = Taken(table', t, k, a, b)
    BY <1>1, Zenon DEF Selected, Taken, Takes
  <2> QED BY <1>1, <2>1, Zenon DEF TableTotals, TenantTotals
<1>2. CASE k # 0
  <2>1. {i \in Selected(t, a, b) : table[i].key = k} = Taken(table, t, k, a, b)
    BY <1>2, Zenon DEF Selected, Taken, Takes
  <2>2. {i \in Selected(t, a, b)' : table'[i].key = k} = Taken(table', t, k, a, b)
    BY <1>2, Zenon DEF Selected, Taken, Takes
  <2> QED BY <1>2, <2>1, <2>2, Zenon DEF TableTotals, KeyTotals
<1> QED BY <1>1, <1>2, Zenon

\* How many rows a tenant has in the table.
RowsOf(s, t) == SumOf(s, {i \in DOMAIN s : s[i].tenant = t}).requests

LEMMA RowsAppended ==
  ASSUME NEW s \in Seq(Row), NEW r \in Row, NEW t
  PROVE  /\ RowsOf(s, t) \in Nat
         /\ r.tenant = t => RowsOf(Append(s, r), t) = RowsOf(s, t) + 1
         /\ r.tenant # t => RowsOf(Append(s, r), t) = RowsOf(s, t)
<1>1. PICK u, n : u = Append(s, r) /\ n = Len(s) + 1
  BY Zenon
<1>2. PICK K, L : K = {i \in DOMAIN s : s[i].tenant = t} /\ L = {i \in DOMAIN u : u[i].tenant = t}
  BY Zenon
<1>3. n \in DOMAIN u /\ u[n] = r /\ \A i \in 1..Len(s) : i \in DOMAIN s /\ i \in DOMAIN u /\ u[i] = s[i]
  BY <1>1
<1>4. \A i \in 1..Len(s) : i \in K <=> i \in L
  BY <1>2, <1>3, Zenon
<1>5. SumOf(u, L) = Grown(SumOf(s, K), L, n, r)
  BY <1>1, <1>4, SumAppended, Zenon
<1>6. n \in L <=> r.tenant = t
  BY <1>2, <1>3, Zenon
<1>7. PICK x \in Sum : x = SumOf(s, K) /\ x.requests \in Nat
  BY SumOfTyped, Zenon DEF Sum
<1>8. RowsOf(s, t) = x.requests /\ RowsOf(u, t) = SumOf(u, L).requests
  BY <1>2, <1>7, Zenon DEF RowsOf
<1>9. AddUsage(x, r).requests = x.requests + 1
  BY Zenon DEF AddUsage
<1> QED BY <1>1, <1>5, <1>6, <1>7, <1>8, <1>9, Zenon DEF Grown

\* While the in-process store has not dropped a row of a tenant, it gives the answers of
\* the table.
Alike(t) == \A k, a, b : MemoryTotals(t, k, a, b) = TableTotals(t, k, a, b)
Holding(t) == HoldsAll(t) => Len(memory[t]) = LandedOf(t) /\ Alike(t)
StoresAlike == \A t \in Tenants : Holding(t)

\* What the in-process store makes of a row of a tenant.
Wanted(s, k, a, b) == {i \in DOMAIN s : InWindow(s[i], a, b) /\ k \in {0, s[i].key}}
LEMMA WantedAppended ==
  ASSUME NEW s \in Seq(Row), NEW r \in Row, NEW k, NEW a, NEW b
  PROVE  SumOf(Append(s, r), Wanted(Append(s, r), k, a, b))
           = Added(SumOf(s, Wanted(s, k, a, b)), r, r.tenant, k, a, b)
<1>1. PICK K, L, u, n : /\ K = Wanted(s, k, a, b) /\ L = Wanted(u, k, a, b)
                        /\ u = Append(s, r) /\ n = Len(s) + 1
  BY Zenon
<1>2. n \in DOMAIN u /\ u[n] = r /\ \A i \in 1..Len(s) : i \in DOMAIN s /\ i \in DOMAIN u /\ u[i] = s[i]
  BY <1>1
<1>3. \A i \in 1..Len(s) : i \in K <=> i \in L
  BY <1>1, <1>2, Zenon DEF Wanted
<1>4. SumOf(u, L) = Grown(SumOf(s, K), L, n, r)
  BY <1>1, <1>3, SumAppended, Zenon
<1>5. n \in L <=> Takes(r, r.tenant, k, a, b)
  BY <1>1, <1>2, Zenon DEF Wanted, Takes
<1> QED BY <1>1, <1>4, <1>5, Zenon DEF Grown, Added

LEMMA AlikeLands == ASSUME Stored, StoresAlike, RecordUsage PROVE StoresAlike'
<1>1. PICK r \in Row :
           /\ memory' = [memory EXCEPT ![r.tenant] = Newest(Append(@, r))]
           /\ table' = Append(table, r)
  BY Landing, Zenon
<1>2. table \in Seq(Row) /\ memory \in [Tenants -> Seq(Row)] /\ r.tenant \in Tenants
  BY Zenon DEF Stored, Row
<1>3. SUFFICES ASSUME NEW t \in Tenants, HoldsAll(t)' PROVE (Len(memory[t]) = LandedOf(t))' /\ Alike(t)'
  BY Zenon DEF StoresAlike, Holding
<1>4. PICK n \in Nat : n = LandedOf(t) /\ n = RowsOf(table, t)
  <2>1. RowsOf(table, t) \in Nat
    BY <1>2, RowsAppended, Zenon
  <2>2. LandedOf(t) = RowsOf(table, t)
    BY Zenon DEF LandedOf, RowsOf
  <2> QED BY <2>1, <2>2, Zenon
<1>5. LandedOf(t)' = RowsOf(Append(table, r), t)
  BY <1>1, Zenon DEF LandedOf, RowsOf
<1>6. \A k, a, b : TableTotals(t, k, a, b)' = Added(TableTotals(t, k, a, b), r, t, k, a, b)
  <2>1. TAKE k, a, b
  <2>2. /\ TableTotals(t, k, a, b) = SumOf(table, Taken(table, t, k, a, b))
        /\ TableTotals(t, k, a, b)' = SumOf(table', Taken(table', t, k, a, b))
    BY TableTotalsAre, Zenon
  <2>3. SumOf(table', Taken(table', t, k, a, b))
           = Added(SumOf(table, Taken(table, t, k, a, b)), r, t, k, a, b)
    <3>1. SumOf(Append(table, r), Taken(Append(table, r), t, k, a, b))
           = Added(SumOf(table, Taken(table, t, k, a, b)), r, t, k, a, b)
      BY <1>2, TakenAppended
    <3> QED BY <1>1, <3>1, Zenon
  <2> QED BY <2>2, <2>3, Zenon
<1>7. CASE r.tenant # t
  <2>1. LandedOf(t)' = n /\ memory'[t] = memory[t]
    BY <1>1, <1>2, <1>4, <1>5, <1>7, RowsAppended, Zenon
  <2>2. HoldsAll(t)
    BY <1>3, <1>4, <2>1, Zenon DEF HoldsAll
  <2>3. Len(memory[t]) = n /\ Alike(t)
    BY <1>4, <2>2, Zenon DEF StoresAlike, Holding
  <2>4. \A k, a, b : MemoryTotals(t, k, a, b)' = MemoryTotals(t, k, a, b)
    BY <2>1, Zenon DEF MemoryTotals
  <2>5. \A k, a, b : TableTotals(t, k, a, b)' = TableTotals(t, k, a, b)
    BY <1>6, <1>7, Zenon DEF Added, Takes
  <2>6. Alike(t)'
    <3>1. SUFFICES ASSUME NEW k, NEW a, NEW b PROVE MemoryTotals(t, k, a, b)' = TableTotals(t, k, a, b)'
      BY Zenon DEF Alike
    <3>2. MemoryTotals(t, k, a, b) = TableTotals(t, k, a, b)
      BY <2>3, Zenon DEF Alike
    <3> QED BY <2>4, <2>5, <3>2, Zenon
  <2> QED BY <1>4, <2>1, <2>3, <2>6, Zenon
<1>8. CASE r.tenant = t
  <2>1. LandedOf(t)' = n + 1
    BY <1>2, <1>4, <1>5, <1>8, RowsAppended, Zenon
  <2>2. n + 1 <= MaxRecords /\ n <= MaxRecords
    <3>1. n + 1 <= MaxRecords
      BY <1>3, <2>1, Zenon DEF HoldsAll
    <3> QED BY <3>1, UsageSettings
  <2>3. Len(memory[t]) = n /\ Alike(t)
    BY <1>4, <2>2, Zenon DEF StoresAlike, Holding, HoldsAll
  <2>4. PICK s \in Seq(Row) : s = memory[t]
    BY <1>2, Zenon
  <2>5. Len(Append(s, r)) = n + 1 /\ ~(Len(Append(s, r)) > MaxRecords)
    <3>1. Len(Append(s, r)) = Len(s) + 1
      OBVIOUS
    <3> QED BY <2>2, <2>3, <2>4, <3>1, UsageSettings
  <2>6. memory'[t] = Append(s, r)
    BY <1>1, <1>2, <1>8, <2>4, <2>5, Zenon DEF Newest
  <2>7. \A k, a, b : MemoryTotals(t, k, a, b)' = Added(MemoryTotals(t, k, a, b), r, t, k, a, b)
    <3>1. TAKE k, a, b
    <3>2. MemoryTotals(t, k, a, b)' = SumOf(memory'[t], Wanted(memory'[t], k, a, b))
      BY Zenon DEF MemoryTotals, Wanted
    <3>3. MemoryTotals(t, k, a, b) = SumOf(memory[t], Wanted(memory[t], k, a, b))
      BY Zenon DEF MemoryTotals, Wanted
    <3>4. SumOf(memory'[t], Wanted(memory'[t], k, a, b))
           = Added(SumOf(memory[t], Wanted(memory[t], k, a, b)), r, t, k, a, b)
      <4>1. SumOf(Append(s, r), Wanted(Append(s, r), k, a, b))
              = Added(SumOf(s, Wanted(s, k, a, b)), r, r.tenant, k, a, b)
        BY WantedAppended
      <4> QED BY <1>8, <2>4, <2>6, <4>1, Zenon
    <3> QED BY <3>2, <3>3, <3>4, Zenon
  <2>8. Alike(t)'
    <3>1. SUFFICES ASSUME NEW k, NEW a, NEW b PROVE MemoryTotals(t, k, a, b)' = TableTotals(t, k, a, b)'
      BY Zenon DEF Alike
    <3>2. MemoryTotals(t, k, a, b) = TableTotals(t, k, a, b)
      BY <2>3, Zenon DEF Alike
    <3> QED BY <1>6, <2>7, <3>2, Zenon
  <2> QED BY <2>1, <2>5, <2>6, <2>8, Zenon
<1> QED BY <1>7, <1>8, Zenon

LEMMA AlikeStep == ASSUME Stored, StoresAlike, [UsageNext]_usageVars PROVE StoresAlike'
<1>1. CASE RecordUsage
  BY <1>1, AlikeLands, Zenon
<1>2. CASE UNCHANGED <<memory, table>>
  <2>1. \A t \in Tenants : LandedOf(t)' = LandedOf(t)
    BY <1>2, Zenon DEF LandedOf
  <2>2. ASSUME NEW t \in Tenants, Alike(t) PROVE Alike(t)'
    <3>1. SUFFICES ASSUME NEW k, NEW a, NEW b PROVE MemoryTotals(t, k, a, b)' = TableTotals(t, k, a, b)'
      BY Zenon DEF Alike
    <3>2. MemoryTotals(t, k, a, b) = TableTotals(t, k, a, b)
      BY <2>2, Zenon DEF Alike
    <3>3. MemoryTotals(t, k, a, b)' = MemoryTotals(t, k, a, b)
      BY <1>2, Zenon DEF MemoryTotals
    <3>4. TableTotals(t, k, a, b)' = TableTotals(t, k, a, b)
      BY <1>2, TableTotalsAre, Zenon
    <3> QED BY <3>2, <3>3, <3>4, Zenon
  <2> QED BY <1>2, <2>1, <2>2, Zenon DEF StoresAlike, Holding, HoldsAll
<1> QED
  BY <1>1, <1>2, Zenon
  DEF UsageNext, usageVars, UsageTick, MeterRequest, AskUsage, ReadTotals, QuotaSlots, ReadWindow,
      Respond, Unavailable, RunMonthlyBilling, CalculateTenantInvoice, EndJob, JobFails
-----------------------------------------------------------------------------
(* Reports *)

ReportShaped ==
  report = [pc |-> report.pc, backend |-> report.backend, tenant |-> report.tenant, key |-> report.key,
            window |-> report.window, since |-> report.since, until |-> report.until,
            totals |-> report.totals, asof |-> report.asof, todo |-> report.todo, slots |-> report.slots]

\* The report's period is that of an instant up to u.
Asked(u) == \E t \in Nat : /\ t <= u /\ report.since = Since(report.window, t)
                           /\ report.until = Until(report.window, t)
Opened == report.tenant \in Tenants /\ report.window \in Windows /\ Asked(now)

\* What the report reads is what the table has.
Trusted == report.backend = "memory" => HoldsAll(report.tenant)

\* The totals are part of what the table has by now.
Totalled ==
  /\ report.totals \in Sum
  /\ Trusted => AtMost(report.totals, TableTotals(report.tenant, 0, report.since, report.until))

\* A slot of the report's own period was read after the totals.
Covers(p) ==
  Trusted /\ p.key = 0 /\ p.window = report.window /\ p.since = report.since
    => report.totals[p.unit] <= p.used
SlotHolds(p) ==
  /\ p.window \in Windows /\ p.unit \in Units /\ p.cap \in Int /\ p.used \in Nat
  /\ p.state = Position(p.used, p.cap) /\ p.since = Since(p.window, report.asof)
  /\ Covers(p)
ReadsOn ==
  /\ report.asof \in Nat /\ report.asof <= now /\ Asked(report.asof)
  /\ report.todo \subseteq 1..4
  /\ \A p \in report.slots : SlotHolds(p)

Reporting ==
  /\ now <= MaxTime /\ ReportShaped
  /\ report.pc \in {"totals", "slots", "reading"} => Opened
  /\ report.pc \in {"slots", "reading"} => Totalled
  /\ report.pc = "reading" => ReadsOn
  /\ report.pc \in {"idle", "totals", "slots", "reading"}
  /\ report.pc \in {"totals", "slots"} => report.slots = {}

\* The table only grows.
TableKept(t, k, a, b) == AtMost(TableTotals(t, k, a, b), TableTotals(t, k, a, b)')
                         /\ TableTotals(t, k, a, b) \in Sum /\ TableTotals(t, k, a, b)' \in Sum
HoldsKept(t) == HoldsAll(t)' => HoldsAll(t)

LEMMA TableTyped ==
  ASSUME Stored, NEW t, NEW k, NEW a, NEW b PROVE TableTotals(t, k, a, b) \in Sum
<1>1. TableTotals(t, k, a, b) = SumOf(table, Taken(table, t, k, a, b))
  BY TableTotalsAre, Zenon
<1>2. table \in Seq(Row)
  BY Zenon DEF Stored
<1>3. SumOf(table, Taken(table, t, k, a, b)) \in Sum
  BY <1>2, SumOfTyped, Zenon
<1> QED BY <1>1, <1>3, Zenon

LEMMA TableGrows ==
  ASSUME Stored, [UsageNext]_usageVars, NEW t \in Tenants, NEW k, NEW a, NEW b
  PROVE  TableKept(t, k, a, b) /\ HoldsKept(t)
<1>1. /\ TableTotals(t, k, a, b) = SumOf(table, Taken(table, t, k, a, b))
      /\ TableTotals(t, k, a, b)' = SumOf(table', Taken(table', t, k, a, b))
  BY TableTotalsAre, Zenon
<1>2. PICK x \in Sum : x = TableTotals(t, k, a, b)
  BY TableTyped, Zenon
<1>3. AtMost(x, x)
  BY AtMostTransitive DEF AtMost, Sum
<1>4. CASE table' = table
  <2>1. TableTotals(t, k, a, b)' = x
    BY <1>1, <1>2, <1>4, Zenon
  <2>2. LandedOf(t)' = LandedOf(t)
    BY <1>4, Zenon DEF LandedOf
  <2> QED BY <1>2, <1>3, <2>1, <2>2, Zenon DEF TableKept, HoldsKept, HoldsAll
<1>5. CASE RecordUsage
  <2>1. PICK r \in Row : table' = Append(table, r)
    BY <1>5, Landing, Zenon
  <2>2. PICK s \in Seq(Row) : s = table
    BY Zenon DEF Stored
  <2>3. SumOf(Append(s, r), Taken(Append(s, r), t, k, a, b))
           = Added(SumOf(s, Taken(s, t, k, a, b)), r, t, k, a, b)
    BY TakenAppended
  <2>4. TableTotals(t, k, a, b)' = Added(x, r, t, k, a, b)
    BY <1>1, <1>2, <2>1, <2>2, <2>3, Zenon
  <2>5. Added(x, r, t, k, a, b) \in Sum /\ AtMost(x, Added(x, r, t, k, a, b))
    BY <1>3, AddUsageAdds, Zenon DEF Added
  <2>6. TableKept(t, k, a, b)
    BY <1>2, <2>4, <2>5, Zenon DEF TableKept
  <2>7. PICK n \in Nat : n = RowsOf(s, t) /\ (RowsOf(Append(s, r), t) = n + 1 \/ RowsOf(Append(s, r), t) = n)
    BY RowsAppended, Zenon
  <2>8. LandedOf(t) = n /\ LandedOf(t)' = RowsOf(Append(s, r), t)
    BY <2>1, <2>2, <2>7, Zenon DEF LandedOf, RowsOf
  <2>9. n + 1 <= MaxRecords => n <= MaxRecords
    BY UsageSettings
  <2>10. HoldsKept(t)
    BY <2>7, <2>8, <2>9, Zenon DEF HoldsKept, HoldsAll
  <2> QED BY <2>6, <2>10, Zenon
<1> QED
  BY <1>4, <1>5, Zenon
  DEF UsageNext, usageVars, UsageTick, MeterRequest, AskUsage, ReadTotals, QuotaSlots, ReadWindow,
      Respond, Unavailable, RunMonthlyBilling, CalculateTenantInvoice, EndJob, JobFails

\* A read of either store, as long as the report can rely on it, gives what the table has.
LEMMA ReadsTable ==
  ASSUME Stored, StoresAlike, report.tenant \in Tenants, NEW k, NEW a, NEW b
  PROVE  /\ Totals(report.backend, report.tenant, k, a, b) \in Sum
         /\ Trusted => Totals(report.backend, report.tenant, k, a, b) = TableTotals(report.tenant, k, a, b)
<1>1. PICK t \in Tenants : t = report.tenant
  BY Zenon
<1>2. MemoryTotals(t, k, a, b) \in Sum
  <2>1. memory[t] \in Seq(Row)
    BY Zenon DEF Stored
  <2> QED BY <2>1, SumOfTyped, Zenon DEF MemoryTotals
<1>3. TableTotals(t, k, a, b) \in Sum
  BY TableTyped, Zenon
<1>4. HoldsAll(t) => MemoryTotals(t, k, a, b) = TableTotals(t, k, a, b)
  BY Zenon DEF StoresAlike, Holding, Alike
<1> QED BY <1>1, <1>2, <1>3, <1>4, Zenon DEF Totals, Trusted

\* While the report stands still, all that it has stays true.
LEMMA ReportKept ==
  ASSUME Stored, Reporting, [UsageNext]_usageVars, report' = report, now <= now', now' <= MaxTime, now' \in Nat
  PROVE  Reporting'
<1>1. ReportShaped'
  BY Zenon DEF Reporting, ReportShaped
<1>2. \A u \in Nat : Asked(u) => Asked(u)'
  BY Zenon DEF Asked
<1>3. Opened => Opened'
  <2>1. SUFFICES ASSUME Opened PROVE Asked(now)'
    BY Zenon DEF Opened
  <2>2. PICK t \in Nat : /\ t <= now /\ report.since = Since(report.window, t)
                         /\ report.until = Until(report.window, t)
    BY <2>1, Zenon DEF Opened, Asked
  <2>3. t <= now'
    BY <2>2 DEF Stored
  <2> QED BY <2>2, <2>3, Zenon DEF Asked
<1>4. Opened => (Trusted' => Trusted)
  <2>1. PICK t : t = report.tenant /\ t = report'.tenant
    BY Zenon
  <2>2. Opened => HoldsKept(t)
    BY <2>1, TableGrows, Zenon DEF Opened
  <2>3. Trusted' <=> (report.backend = "memory" => HoldsAll(t)')
    BY <2>1, Zenon DEF Trusted
  <2> QED BY <2>1, <2>2, <2>3, Zenon DEF Trusted, HoldsKept
<1>5. Opened /\ Totalled => Totalled'
  <2>1. PICK t, a, b : /\ t = report.tenant /\ a = report.since /\ b = report.until
                       /\ t = report'.tenant /\ a = report'.since /\ b = report'.until
    BY Zenon
  <2>2. SUFFICES ASSUME Opened, Totalled, Trusted' PROVE AtMost(report.totals, TableTotals(t, 0, a, b)')
    BY <2>1, Zenon DEF Totalled
  <2>3. PICK x, y : x = TableTotals(t, 0, a, b) /\ y = TableTotals(t, 0, a, b)'
    BY Zenon
  <2>4. TableKept(t, 0, a, b)
    BY <2>1, <2>2, TableGrows, Zenon DEF Opened
  <2>5. AtMost(x, y) /\ x \in Sum /\ y \in Sum
    BY <2>3, <2>4, Zenon DEF TableKept
  <2>6. report.totals \in Sum /\ AtMost(report.totals, x)
    BY <1>4, <2>1, <2>2, <2>3, Zenon DEF Totalled
  <2>7. AtMost(report.totals, y)
    BY <2>5, <2>6, AtMostTransitive, Zenon
  <2> QED BY <2>3, <2>7, Zenon
<1>6. Opened /\ ReadsOn => ReadsOn'
  <2>1. SUFFICES ASSUME Opened, ReadsOn PROVE ReadsOn'
    BY Zenon
  <2>2. report.asof <= now'
    BY <2>1 DEF ReadsOn, Stored
  <2>3. \A p \in report.slots : SlotHolds(p)'
    BY <1>4, <2>1, Zenon DEF ReadsOn, SlotHolds, Covers
  <2> QED BY <1>2, <2>1, <2>2, <2>3, Zenon DEF ReadsOn
<1> QED BY <1>1, <1>3, <1>5, <1>6, Zenon DEF Reporting
\* Nothing a report does touches the stores.
LEMMA StoresStill ==
  ASSUME UNCHANGED <<memory, table>>, NEW t, NEW k, NEW a, NEW b
  PROVE  /\ HoldsAll(t)' <=> HoldsAll(t)
         /\ TableTotals(t, k, a, b)' = TableTotals(t, k, a, b)
<1>1. LandedOf(t)' = LandedOf(t)
  BY Zenon DEF LandedOf
<1>2. TableTotals(t, k, a, b)' = TableTotals(t, k, a, b)
  BY TableTotalsAre, Zenon
<1> QED BY <1>1, <1>2, Zenon DEF HoldsAll

LEMMA ReportBegins ==
  ASSUME Stored, Reporting, NEW g, NEW c \in Callers, NEW w \in Windows, AskUsage(g, c.tenant, c.key, w)
  PROVE  Reporting'
<1>1. report' = [pc |-> "totals", backend |-> g, tenant |-> c.tenant, key |-> c.key, window |-> w,
                 since |-> Since(w, now), until |-> Until(w, now), totals |-> Nothing, asof |-> 0,
                 todo |-> {}, slots |-> {}]
  BY Zenon DEF AskUsage, NoReport
<1>2. /\ ReportShaped' /\ report'.pc = "totals" /\ report'.tenant = c.tenant /\ report'.window = w
      /\ report'.since = Since(w, now) /\ report'.until = Until(w, now) /\ report'.slots = {}
  BY <1>1, Zenon DEF ReportShaped
<1>3. now' = now /\ now \in Nat /\ now <= MaxTime
  BY Zenon DEF AskUsage, Stored, Reporting
<1>4. now <= now
  BY <1>3
<1>5. c.tenant \in Tenants
  BY UsageSettings, Zenon
<1>6. Opened'
  BY <1>2, <1>3, <1>4, <1>5, Zenon DEF Opened, Asked
<1>7. "totals" \notin {"slots", "reading"} /\ "totals" # "reading"
  OBVIOUS
<1> QED BY <1>2, <1>3, <1>6, <1>7, Zenon DEF Reporting

\* The same report with other totals, slots and so on.
Goes(p, v, f, d, q) ==
  /\ ReportShaped' /\ report'.pc = p /\ report'.totals = v /\ report'.asof = f
  /\ report'.todo = d /\ report'.slots = q
  /\ report'.backend = report.backend /\ report'.tenant = report.tenant /\ report'.key = report.key
  /\ report'.window = report.window /\ report'.since = report.since /\ report'.until = report.until

LEMMA GoesOn ==
  ASSUME ReportShaped, NEW p, NEW v, NEW f, NEW d, NEW q,
         report' = [pc |-> p, backend |-> report.backend, tenant |-> report.tenant, key |-> report.key,
              window |-> report.window, since |-> report.since, until |-> report.until,
              totals |-> v, asof |-> f, todo |-> d, slots |-> q]
  PROVE  Goes(p, v, f, d, q)
BY Zenon DEF Goes, ReportShaped

LEMMA TotalsRead ==
  ASSUME Stored, StoresAlike, Reporting, ReadTotals
  PROVE  Reporting'
<1>1. PICK v : v = Totals(report.backend, report.tenant, 0, report.since, report.until)
  BY Zenon
<1>2. ReportShaped /\ report.pc = "totals" /\ Opened /\ now <= MaxTime /\ report.slots = {}
  BY Zenon DEF Reporting, ReadTotals
<1>3. report' = [pc |-> "slots", backend |-> report.backend, tenant |-> report.tenant, key |-> report.key,
              window |-> report.window, since |-> report.since, until |-> report.until,
              totals |-> v, asof |-> report.asof, todo |-> report.todo, slots |-> report.slots]
  <2>1. report' = [report EXCEPT !.pc = "slots", !.totals = v]
    BY <1>1, Zenon DEF ReadTotals
  <2>2. PICK a1, a2, a3, a4, a5, a6, a7, a8, a9, a10, a11 :
        report = [pc |-> a1, backend |-> a2, tenant |-> a3, key |-> a4, window |-> a5, since |-> a6,
                  until |-> a7, totals |-> a8, asof |-> a9, todo |-> a10, slots |-> a11]
    BY <1>2, Zenon DEF ReportShaped
  <2> QED BY <2>1, <2>2, Zenon
<1>4. Goes("slots", v, report.asof, report.todo, report.slots)
  BY <1>2, <1>3, GoesOn, Zenon
<1>5. now' = now /\ UNCHANGED <<memory, table>>
  BY Zenon DEF ReadTotals
<1>6. Opened'
  BY <1>2, <1>4, <1>5, Zenon DEF Opened, Asked, Goes
<1>7. PICK t, a, b : /\ t = report.tenant /\ a = report.since /\ b = report.until
                     /\ t = report'.tenant /\ a = report'.since /\ b = report'.until
  BY <1>4, Zenon DEF Goes
<1>8. v \in Sum /\ (Trusted => v = TableTotals(t, 0, a, b))
  BY <1>1, <1>2, <1>7, ReadsTable, Zenon DEF Opened
<1>9. AtMost(v, v)
  BY <1>8 DEF AtMost, Sum
<1>10. Totalled'
  <2>1. (HoldsAll(t)' <=> HoldsAll(t)) /\ TableTotals(t, 0, a, b)' = TableTotals(t, 0, a, b)
    BY <1>5, StoresStill
  <2>2. Trusted' <=> Trusted
    BY <1>4, <1>7, <2>1, Zenon DEF Trusted, Goes
  <2>3. Totalled' <=> v \in Sum /\ (Trusted' => AtMost(v, TableTotals(t, 0, a, b)'))
    BY <1>4, <1>7, Zenon DEF Totalled, Goes
  <2> QED BY <1>8, <1>9, <2>1, <2>2, <2>3, Zenon
<1>11. "slots" # "reading"
  OBVIOUS
<1> QED BY <1>2, <1>4, <1>5, <1>6, <1>10, <1>11, Zenon DEF Reporting, Goes
\* A report that only goes on reading keeps its totals.
LEMMA StillTotalled ==
  ASSUME UNCHANGED <<memory, table>>, Totalled,
         report'.totals = report.totals, report'.backend = report.backend,
         report'.tenant = report.tenant, report'.since = report.since, report'.until = report.until
  PROVE  Totalled' /\ (Trusted' <=> Trusted)
<1>1. PICK t, a, b : /\ t = report.tenant /\ a = report.since /\ b = report.until
                     /\ t = report'.tenant /\ a = report'.since /\ b = report'.until
  BY Zenon
<1>2. (HoldsAll(t)' <=> HoldsAll(t)) /\ TableTotals(t, 0, a, b)' = TableTotals(t, 0, a, b)
  BY StoresStill
<1>3. Trusted' <=> Trusted
  BY <1>1, <1>2, Zenon DEF Trusted
<1>4. Totalled' <=> report.totals \in Sum /\ (Trusted' => AtMost(report.totals, TableTotals(t, 0, a, b)'))
  BY <1>1, Zenon DEF Totalled
<1> QED BY <1>1, <1>2, <1>3, <1>4, Zenon DEF Totalled

LEMMA SlotsBegin ==
  ASSUME Stored, Reporting, QuotaSlots
  PROVE  Reporting'
<1>1. PICK d : d = Capped(report.tenant, report.key)
  BY Zenon
<1>2. ReportShaped /\ report.pc = "slots" /\ Opened /\ Totalled /\ now <= MaxTime
  BY Zenon DEF Reporting, QuotaSlots
<1>3. report' = [pc |-> "reading", backend |-> report.backend, tenant |-> report.tenant,
              key |-> report.key, window |-> report.window, since |-> report.since,
              until |-> report.until, totals |-> report.totals, asof |-> now, todo |-> d,
              slots |-> report.slots]
  <2>1. report' = [report EXCEPT !.pc = "reading", !.asof = now, !.todo = d]
    BY <1>1, Zenon DEF QuotaSlots
  <2>2. PICK a1, a2, a3, a4, a5, a6, a7, a8, a9, a10, a11 :
        report = [pc |-> a1, backend |-> a2, tenant |-> a3, key |-> a4, window |-> a5, since |-> a6,
                  until |-> a7, totals |-> a8, asof |-> a9, todo |-> a10, slots |-> a11]
    BY <1>2, Zenon DEF ReportShaped
  <2> QED BY <2>1, <2>2, Zenon
<1>4. Goes("reading", report.totals, now, d, report.slots)
  BY <1>2, <1>3, GoesOn, Zenon
<1>5. now' = now /\ UNCHANGED <<memory, table>> /\ now \in Nat
  BY Zenon DEF QuotaSlots, Stored
<1>6. Opened' /\ Asked(now)'
  BY <1>2, <1>4, <1>5, Zenon DEF Opened, Asked, Goes
<1>7. Totalled'
  BY <1>2, <1>4, <1>5, StillTotalled, Zenon DEF Goes
<1>8. report'.asof = now' /\ now' \in Nat /\ now' <= now'
  BY <1>4, <1>5 DEF Goes
<1>9. d \subseteq 1..4
  BY <1>1, Zenon DEF Capped
<1>10. report.slots = {}
  BY <1>2, Zenon DEF Reporting
<1>11. ReadsOn'
  BY <1>4, <1>6, <1>8, <1>9, <1>10, Zenon DEF ReadsOn, Goes, Asked
<1> QED BY <1>2, <1>4, <1>5, <1>6, <1>7, <1>11, Zenon DEF Reporting, Goes

\* A cap's window is read for the tenant or for the key.
LEMMA ScopeOf ==
  ASSUME NEW d, d \subseteq 1..4, d # {}, NEW key
  PROVE  \E k, w : w \in Windows /\ Scopes(key)[Lowest(d)] = <<k, w>>
<1>1. d \subseteq Nat
  OBVIOUS
<1>2. Lowest(d) \in 1..4
  BY <1>1, LowestIn, Zenon
<1>3. PICK i \in 1..4 : i = Lowest(d)
  BY <1>2, Zenon
<1>4. i = 1 \/ i = 2 \/ i = 3 \/ i = 4
  OBVIOUS
<1>5. /\ Scopes(key)[1] = <<0, "day">> /\ Scopes(key)[2] = <<0, "month">>
      /\ Scopes(key)[3] = <<key, "day">> /\ Scopes(key)[4] = <<key, "month">>
  BY DEF Scopes
<1>6. "day" \in Windows /\ "month" \in Windows
  BY DEF Windows
<1> QED BY <1>3, <1>4, <1>5, <1>6, Zenon

\* What is read for a window is at least what the totals were, if it is their period.
LEMMA SlotsRead ==
  ASSUME Stored, StoresAlike, Reporting, report.pc = "reading",
         NEW k, NEW w \in Windows, NEW p \in Slots(report, k, w)
  PROVE  SlotHolds(p)
<1>1. Opened /\ Totalled /\ ReadsOn
  BY Zenon DEF Reporting
<1>2. PICK a, b, used : /\ a = Since(w, report.asof) /\ b = Until(w, report.asof)
                        /\ used = Totals(report.backend, report.tenant, k, a, b)
  BY Zenon
<1>3. PICK c \in Caps :
        p = [key |-> k, window |-> w, unit |-> c.unit, cap |-> c.cap, used |-> used[c.unit],
             state |-> Position(used[c.unit], c.cap), since |-> a, resets |-> b]
  BY <1>2, Zenon DEF Slots
<1>4. /\ p.key = k /\ p.window = w /\ p.unit = c.unit /\ p.cap = c.cap /\ p.used = used[c.unit]
      /\ p.state = Position(used[c.unit], c.cap) /\ p.since = a
  BY <1>3, Zenon
<1>5. c.unit \in Units /\ c.cap \in Int
  BY UsageSettings, Zenon
<1>6. used \in Sum /\ (Trusted => used = TableTotals(report.tenant, k, a, b))
  BY <1>1, <1>2, ReadsTable, Zenon DEF Opened
<1>7. used[c.unit] \in Nat
  BY <1>5, <1>6 DEF Sum, Units
<1>8. ASSUME Trusted, k = 0, w = report.window, a = report.since
      PROVE  report.totals[c.unit] <= used[c.unit]
  <2>1. PICK t \in Nat : /\ t <= report.asof /\ report.since = Since(w, t) /\ report.until = Until(w, t)
    BY <1>1, <1>8, Zenon DEF ReadsOn, Asked
  <2>2. report.asof \in Nat /\ report.asof <= MaxTime
    <3>1. report.asof \in Nat /\ report.asof <= now /\ now <= MaxTime /\ now \in Nat
      BY <1>1, Zenon DEF ReadsOn, Reporting, Stored
    <3> QED BY <3>1, UsageSettings
  <2>3. Until(w, t) = Until(w, report.asof)
    <3>1. PICK u \in Nat : u = report.asof /\ u <= MaxTime /\ t <= u
      BY <2>1, <2>2, Zenon
    <3>2. Since(w, t) = Since(w, u)
      BY <1>2, <1>8, <2>1, <3>1, Zenon
    <3>3. Until(w, t) = Until(w, u)
      BY <3>1, <3>2, SamePeriod
    <3> QED BY <3>1, <3>3, Zenon
  <2>4. b = report.until
    BY <1>2, <2>1, <2>3, Zenon
  <2>5. report.totals \in Sum /\ AtMost(report.totals, used)
    BY <1>1, <1>6, <1>8, <2>4, Zenon DEF Totalled
  <2> QED BY <1>5, <1>6, <2>5 DEF AtMost, Units, Sum
<1>9. Covers(p)
  BY <1>4, <1>8, Zenon DEF Covers
<1> QED BY <1>2, <1>4, <1>5, <1>7, <1>9, Zenon DEF SlotHolds

LEMMA WindowRead ==
  ASSUME Stored, StoresAlike, Reporting, ReadWindow
  PROVE  Reporting'
<1>1. report.pc = "reading" /\ report.todo # {} /\ now' = now /\ UNCHANGED <<memory, table>>
  BY Zenon DEF ReadWindow
<1>2. ReportShaped /\ Opened /\ Totalled /\ ReadsOn /\ now <= MaxTime
  BY <1>1, Zenon DEF Reporting
<1>3. PICK k, w : w \in Windows /\ Scopes(report.key)[Lowest(report.todo)] = <<k, w>>
  BY <1>1, <1>2, ScopeOf, Zenon DEF ReadsOn
<1>4. PICK d, q : /\ d = report.todo \ {Lowest(report.todo)}
                  /\ q = report.slots \cup Slots(report, k, w)
  BY Zenon
<1>5. report' = [pc |-> "reading", backend |-> report.backend, tenant |-> report.tenant,
              key |-> report.key, window |-> report.window, since |-> report.since,
              until |-> report.until, totals |-> report.totals, asof |-> report.asof, todo |-> d,
              slots |-> q]
  <2>1. <<k, w>>[1] = k /\ <<k, w>>[2] = w
    OBVIOUS
  <2>2. report' = [report EXCEPT !.todo = d, !.slots = q]
    BY <1>3, <1>4, <2>1, Zenon DEF ReadWindow
  <2>3. PICK a1, a2, a3, a4, a5, a6, a7, a8, a9, a10, a11 :
        report = [pc |-> a1, backend |-> a2, tenant |-> a3, key |-> a4, window |-> a5, since |-> a6,
                  until |-> a7, totals |-> a8, asof |-> a9, todo |-> a10, slots |-> a11]
    BY <1>2, Zenon DEF ReportShaped
  <2> QED BY <1>1, <2>2, <2>3, Zenon
<1>6. Goes("reading", report.totals, report.asof, d, q)
  BY <1>2, <1>5, GoesOn, Zenon
<1>7. Opened'
  BY <1>1, <1>2, <1>6, Zenon DEF Opened, Asked, Goes
<1>8. Totalled' /\ (Trusted' <=> Trusted)
  BY <1>1, <1>2, <1>6, StillTotalled, Zenon DEF Goes
<1>9. \A p \in q : SlotHolds(p)
  BY <1>1, <1>2, <1>3, <1>4, SlotsRead, Zenon DEF ReadsOn
<1>10. \A p \in q : SlotHolds(p)'
  BY <1>6, <1>8, <1>9, Zenon DEF SlotHolds, Covers, Goes
<1>11. d \subseteq 1..4
  BY <1>2, <1>4, Zenon DEF ReadsOn
<1>12. Asked(report.asof)'
  BY <1>2, <1>6, Zenon DEF ReadsOn, Asked, Goes
<1>13. ReadsOn'
  BY <1>1, <1>2, <1>6, <1>10, <1>11, <1>12, Zenon DEF ReadsOn, Goes
<1> QED BY <1>1, <1>2, <1>6, <1>7, <1>8, <1>13, Zenon DEF Reporting, Goes
LEMMA ReportEnds ==
  ASSUME Stored, Reporting, Respond \/ Unavailable
  PROVE  Reporting'
<1>1. report' = NoReport /\ now' = now /\ now <= MaxTime
  BY Zenon DEF Respond, Unavailable, Reporting
<1>2. ReportShaped' /\ report'.pc = "idle"
  BY <1>1, Zenon DEF NoReport, ReportShaped
<1>3. "idle" \notin {"totals", "slots", "reading"} /\ "idle" \notin {"slots", "reading"}
      /\ "idle" # "reading" /\ "idle" \notin {"totals", "slots"}
  OBVIOUS
<1> QED BY <1>1, <1>2, <1>3, Zenon DEF Reporting

LEMMA ReportingStep ==
  ASSUME Stored, StoresAlike, Reporting, [UsageNext]_usageVars
  PROVE  Reporting'
<1>1. ASSUME NEW g \in {"memory", "analytics"}, NEW c \in Callers, NEW w \in Windows,
             AskUsage(g, c.tenant, c.key, w)
      PROVE  Reporting'
  BY <1>1, ReportBegins, Zenon
<1>2. CASE ReadTotals
  BY <1>2, TotalsRead, Zenon
<1>3. CASE QuotaSlots
  BY <1>3, SlotsBegin, Zenon
<1>4. CASE ReadWindow
  BY <1>4, WindowRead, Zenon
<1>5. CASE Respond \/ Unavailable
  BY <1>5, ReportEnds, Zenon
<1>6. CASE UsageTick
  <2>1. report' = report /\ now < MaxTime /\ now' = now + 1 /\ now \in Nat
    BY <1>6, Zenon DEF UsageTick, Stored
  <2>2. now <= now' /\ now' <= MaxTime /\ now' \in Nat
    BY <2>1, UsageSettings
  <2> QED BY <2>1, <2>2, ReportKept, Zenon
<1>7. CASE UNCHANGED <<now, report>>
  <2>1. now <= MaxTime /\ now \in Nat
    BY Zenon DEF Reporting, Stored
  <2>2. report' = report /\ now <= now' /\ now' <= MaxTime /\ now' \in Nat
    BY <1>7, <2>1
  <2> QED BY <2>2, ReportKept, Zenon
<1> QED
  BY <1>1, <1>2, <1>3, <1>4, <1>5, <1>6, <1>7, Zenon
  DEF UsageNext, usageVars, MeterRequest, RecordUsage, RunMonthlyBilling, CalculateTenantInvoice,
      EndJob, JobFails

\* However costs are published, more is shown as no less.
LEMMA ShownOrder ==
  ASSUME NEW v, NEW u \in Units, NEW x \in Nat, NEW y \in Nat, x <= y
  PROVE  Shown(v, u, x) <= Shown(v, u, y)
<1>1. OneFigure(x) <= OneFigure(y)
  BY OneFigureOrder, Zenon
<1> QED BY <1>1, Zenon DEF Shown, TenantCost

LEMMA ShownTyped ==
  ASSUME NEW v, NEW u, NEW x \in Nat
  PROVE  Shown(v, u, x) \in Int
<1>1. OneFigure(x) \in Int
  <2>1. PICK p \in Nat, q \in Nat, r \in Nat :
           /\ p = Place(x) /\ HasPlace(x, p) /\ x = p * q + r /\ r < p
           /\ OneFigure(x) = Rounded(p, q, r)
    BY OneFigureOf, Zenon
  <2>2. Rounded(p, q, r) = p * q + p \/ Rounded(p, q, r) = p * q
    BY RoundedNear, Zenon
  <2>3. p * q + p \in Int /\ p * q \in Int
    OBVIOUS
  <2> QED BY <2>1, <2>2, <2>3, Zenon
<1>2. x \in Int
  OBVIOUS
<1> QED BY <1>1, <1>2, Zenon DEF Shown, TenantCost

\* Of the three states, the worst one is reported.
LEMMA HighestState ==
  ASSUME NEW S, S \subseteq {0, 1, 2}, 0 \in S, Highest(S) = 2
  PROVE  2 \in S
<1>1. S \subseteq Nat /\ (\A x \in S : x <= 2) /\ 2 \in Nat
  OBVIOUS
<1>2. Highest(S) \in S
  BY <1>1, Greatest, Zenon
<1> QED BY <1>2, Zenon

LEMMA NothingLeft ==
  ASSUME NEW n \in Int, n <= 0
  PROVE  Highest({0, n}) = 0
<1>1. 0 \in {0, n} /\ \A y \in {0, n} : 0 >= y
  OBVIOUS
<1>2. \A x \in {0, n} : (\A y \in {0, n} : x >= y) => x = 0
  OBVIOUS
<1> QED BY <1>1, <1>2, Zenon DEF Highest

\* The limits of an answer, and its state.
Limit(v, p) == [slot |-> p, consumed |-> Shown(v, p.unit, p.used),
                remaining |-> Highest({0, p.cap - Shown(v, p.unit, p.used)})]
Limited == {p \in report.slots : p.cap > 0}
LEMMA LimitsAre ==
  ASSUME NEW v
  PROVE  /\ UsageAnswer(report, v).limits
              = {Limit(v, p) : p \in {x \in Limited : ~(v = "hidden" /\ x.unit = "cost")}}
         /\ UsageAnswer(report, v).state = Highest({0} \cup {p.state : p \in Limited})
<1>1. /\ UsageAnswer(report, v).limits
           = {[slot |-> p, consumed |-> Shown(v, p.unit, p.used),
                    remaining |-> Highest({0, p.cap - Shown(v, p.unit, p.used)})] :
                 p \in {x \in {p \in report.slots : p.cap > 0} : ~(v = "hidden" /\ x.unit = "cost")}}
      /\ UsageAnswer(report, v).state
           = Highest({0} \cup {p.state : p \in {p \in report.slots : p.cap > 0}})
  BY DEF UsageAnswer
<1> QED BY <1>1, Zenon DEF Limit, Limited

\* What the property asks of an answer, for one way of publishing costs.
LimitCoherent(l, rep, shown) ==
  l.slot.key = 0 /\ l.slot.window = rep.window =>
    IF l.slot.since = rep.since THEN l.consumed >= shown[l.slot.unit] ELSE l.slot.since >= rep.until

LEMMA LimitsCoherent ==
  ASSUME Stored, Reporting, Answered, Trusted, NEW v \in Visibilities,
         NEW l \in UsageAnswer(report, v).limits
  PROVE  LimitCoherent(l, report, UsageAnswer(report, v).totals)
<1>1. PICK p \in report.slots :
        /\ l.slot = p /\ l.consumed = Shown(v, p.unit, p.used)
  <2>1. UsageAnswer(report, v).limits
          = {Limit(v, p) : p \in {x \in Limited : ~(v = "hidden" /\ x.unit = "cost")}}
    BY LimitsAre, Zenon
  <2>2. PICK p \in Limited : l = Limit(v, p)
    BY <2>1, Zenon
  <2>3. l.slot = p /\ l.consumed = Shown(v, p.unit, p.used)
    BY <2>2, Zenon DEF Limit
  <2> QED BY <2>3, Zenon DEF Limited
<1>2. Opened /\ Totalled /\ ReadsOn
  BY Zenon DEF Reporting, Answered
<1>3. SlotHolds(p)
  BY <1>2, Zenon DEF ReadsOn
<1>4. SUFFICES ASSUME p.key = 0, p.window = report.window
               PROVE  IF p.since = report.since
                      THEN l.consumed >= UsageAnswer(report, v).totals[p.unit]
                      ELSE p.since >= report.until
  BY <1>1, Zenon DEF LimitCoherent
<1>5. CASE p.since = report.since
  <2>1. PICK x \in Nat, y \in Nat, u \in Units :
          x = report.totals[u] /\ y = p.used /\ u = p.unit /\ x <= y
    <3>1. p.unit \in Units /\ p.used \in Nat /\ report.totals[p.unit] <= p.used
      BY <1>3, <1>4, <1>5, Zenon DEF SlotHolds, Covers
    <3>2. report.totals[p.unit] \in Nat
      BY <1>2, <3>1 DEF Totalled, Sum, Units
    <3> QED BY <3>1, <3>2, Zenon
  <2>2. Shown(v, u, x) <= Shown(v, u, y)
    BY <2>1, ShownOrder, Zenon
  <2>3. UsageAnswer(report, v).totals[u] = Shown(v, u, x)
    <3>1. UsageAnswer(report, v).totals
            = [cost |-> TenantCost(v, report.totals.cost), requests |-> report.totals.requests]
      BY Zenon DEF UsageAnswer
    <3>2. u = "cost" \/ u = "requests"
      BY Zenon DEF Units
    <3>3. "requests" # "cost"
      OBVIOUS
    <3>4. CASE u = "cost"
      <4>1. UsageAnswer(report, v).totals[u] = TenantCost(v, report.totals.cost)
        BY <3>1, <3>4
      <4> QED BY <2>1, <3>4, <4>1, Zenon DEF Shown
    <3>5. CASE u = "requests"
      <4>1. UsageAnswer(report, v).totals[u] = report.totals.requests
        BY <3>1, <3>5
      <4> QED BY <2>1, <3>3, <3>5, <4>1, Zenon DEF Shown
    <3> QED BY <3>2, <3>4, <3>5, Zenon
  <2>4. Shown(v, u, x) \in Int /\ Shown(v, u, y) \in Int
    BY <2>1, ShownTyped, Zenon
  <2>5. Shown(v, u, y) >= Shown(v, u, x)
    BY <2>2, <2>4
  <2> QED BY <1>1, <1>5, <2>1, <2>3, <2>5, Zenon
<1>6. CASE p.since # report.since
  <2>1. PICK w \in Windows, u \in Nat, t \in Nat :
          /\ w = report.window /\ u = report.asof /\ t <= u /\ u <= now
          /\ report.since = Since(w, t) /\ report.until = Until(w, t) /\ p.since = Since(w, u)
    BY <1>2, <1>3, <1>4, Zenon DEF Opened, ReadsOn, Asked, SlotHolds
  <2>2. u <= MaxTime
    <3>1. now <= MaxTime /\ now \in Nat
      BY Zenon DEF Reporting, Stored
    <3> QED BY <2>1, <3>1, UsageSettings
  <2>3. Since(w, u) >= Until(w, t)
    BY <1>6, <2>1, <2>2, SamePeriod
  <2> QED BY <1>6, <2>1, <2>3, Zenon
<1> QED BY <1>5, <1>6, Zenon
\* Who is past a hard cap finds a limit with nothing left.
LEMMA NothingHidden ==
  ASSUME Reporting, Answered, UsageAnswer(report, "exact").state = 2
  PROVE  \E l \in UsageAnswer(report, "exact").limits : l.remaining = 0
<1>1. ReadsOn
  BY Zenon DEF Reporting, Answered
<1>2. PICK S : S = {0} \cup {p.state : p \in Limited}
  BY Zenon
<1>3. Highest(S) = 2
  BY <1>2, LimitsAre, Zenon
<1>4. \A p \in Limited : SlotHolds(p) /\ p.cap > 0
  BY <1>1, Zenon DEF ReadsOn, Limited
<1>5. \A p \in Limited : p.state \in {0, 1, 2}
  <2>1. \A p \in Limited : p.state = Position(p.used, p.cap)
    BY <1>4, Zenon DEF SlotHolds
  <2> QED BY <2>1, Zenon DEF Position
<1>6. S \subseteq {0, 1, 2} /\ 0 \in S
  BY <1>2, <1>5, Zenon
<1>7. 2 \in S
  BY <1>3, <1>6, HighestState, Zenon
<1>8. 2 # 0 /\ 2 # 1
  OBVIOUS
<1>9. PICK p \in Limited : p.state = 2
  BY <1>2, <1>7, <1>8, Zenon
<1>10. p.used \in Nat /\ p.cap \in Int /\ p.state = Position(p.used, p.cap)
  BY <1>4, Zenon DEF SlotHolds
<1>11. p.used >= p.cap
  BY <1>8, <1>9, <1>10, Zenon DEF Position
<1>12. p.cap - p.used \in Int /\ p.cap - p.used <= 0
  BY <1>10, <1>11
<1>13. Shown("exact", p.unit, p.used) = p.used
  <2>1. "exact" # "hint"
    OBVIOUS
  <2> QED BY <2>1, Zenon DEF Shown, TenantCost
<1>14. Limit("exact", p).remaining = Highest({0, p.cap - p.used})
  BY <1>13, Zenon DEF Limit
<1>15. Highest({0, p.cap - p.used}) = 0
  BY <1>12, NothingLeft
<1>16. Limit("exact", p) \in UsageAnswer(report, "exact").limits
  <2>1. "exact" # "hidden"
    OBVIOUS
  <2>2. UsageAnswer(report, "exact").limits
          = {Limit("exact", x) : x \in {x \in Limited : ~("exact" = "hidden" /\ x.unit = "cost")}}
    BY LimitsAre, Zenon
  <2> QED BY <2>1, <2>2, Zenon
<1> QED BY <1>14, <1>15, <1>16, Zenon

LEMMA Coherent == ASSUME Stored, Reporting PROVE ReportCoherent
<1>1. SUFFICES ASSUME Answered, Trusted, NEW v \in Visibilities, NEW answer, answer = UsageAnswer(report, v)
               PROVE  /\ \A l \in answer.limits : LimitCoherent(l, report, answer.totals)
                      /\ answer.state = UsageAnswer(report, "exact").state
                      /\ answer.state = 2 /\ v = "exact" => \E l \in answer.limits : l.remaining = 0
  BY Zenon DEF ReportCoherent, Trusted, LimitCoherent
<1>2. \A l \in answer.limits : LimitCoherent(l, report, answer.totals)
  BY <1>1, LimitsCoherent, Zenon
<1>3. answer.state = UsageAnswer(report, "exact").state
  BY <1>1, LimitsAre, Zenon
<1>4. answer.state = 2 /\ v = "exact" => \E l \in answer.limits : l.remaining = 0
  BY <1>1, NothingHidden, Zenon
<1> QED BY <1>2, <1>3, <1>4, Zenon

LEMMA ReportsStart == ASSUME UsageInit PROVE StoresAlike /\ Reporting
<1>1. ReportShaped /\ report.pc = "idle"
  BY Zenon DEF UsageInit, NoReport, ReportShaped
<1>2. now <= MaxTime
  BY UsageSettings DEF UsageInit
<1>3. "idle" \notin {"totals", "slots", "reading"} /\ "idle" \notin {"slots", "reading"}
      /\ "idle" # "reading" /\ "idle" \notin {"totals", "slots"}
  OBVIOUS
<1>4. Reporting
  BY <1>1, <1>2, <1>3, Zenon DEF Reporting
<1>5. PICK e \in Seq(Row) : e = << >> /\ Len(e) = 0
  <2>1. << >> \in Seq(Row) /\ Len(<< >>) = 0
    OBVIOUS
  <2> QED BY <2>1, Zenon
<1>6. \A K : SumOf(e, K) = Nothing
  BY <1>5, SumsTyped, Zenon DEF SumOf
<1>7. ASSUME NEW t \in Tenants PROVE Holding(t)
  <2>1. memory[t] = e /\ table = e
    BY <1>5, Zenon DEF UsageInit
  <2>2. LandedOf(t) = 0
    <3>1. LandedOf(t) = Nothing.requests
      BY <1>6, <2>1, Zenon DEF LandedOf
    <3> QED BY <3>1 DEF Nothing
  <2>3. ASSUME NEW k, NEW a, NEW b PROVE MemoryTotals(t, k, a, b) = TableTotals(t, k, a, b)
    <3>1. MemoryTotals(t, k, a, b) = Nothing
      BY <1>6, <2>1, Zenon DEF MemoryTotals
    <3>2. TableTotals(t, k, a, b) = Nothing
      <4>1. TableTotals(t, k, a, b) = SumOf(table, Taken(table, t, k, a, b))
        BY TableTotalsAre, Zenon
      <4> QED BY <1>6, <2>1, <4>1, Zenon
    <3> QED BY <3>1, <3>2, Zenon
  <2> QED BY <1>5, <2>1, <2>2, <2>3, Zenon DEF Holding, Alike
<1> QED BY <1>4, <1>7, Zenon DEF StoresAlike

\* A finished usage report never contradicts itself, although it is put together from
\* several reads of a store that rows keep landing in, while the clock may pass into the
\* next period (server/data.go, GET /v1/usage).
THEOREM Reports == UsageSpec => []ReportCoherent
<1> DEFINE Inv == Stored /\ StoresAlike /\ Reporting
<1>1. UsageInit => Inv
  BY UsageStarts, ReportsStart, Zenon
<1>2. Inv /\ [UsageNext]_usageVars => Inv'
  BY StoredStep, AlikeStep, ReportingStep, Zenon
<1>3. Inv => ReportCoherent
  BY Coherent, Zenon
<1> QED BY <1>1, <1>2, <1>3, PTL DEF UsageSpec

\* Up to the in-process store's limit, either store gives a tenant, or one of its keys, the
\* same totals for any stretch of time (store/memory.go, UsageMetricRepo).
THEOREM SameTotals == UsageSpec => []StoresAlike
<1>1. UsageInit => Stored /\ StoresAlike
  BY UsageStarts, ReportsStart, Zenon
<1>2. Stored /\ StoresAlike /\ [UsageNext]_usageVars => Stored' /\ StoresAlike'
  BY StoredStep, AlikeStep, Zenon
<1> QED BY <1>1, <1>2, PTL DEF UsageSpec

-----------------------------------------------------------------------------
(* Which rows the in-process store keeps *)

\* The place of row i among the rows of its tenant.
RankOf(s, t, i) == Sums(s, {j \in DOMAIN s : s[j].tenant = t})[i].requests

Room(n) == IF n <= MaxRecords THEN n ELSE MaxRecords

\* The list q holds the latest rows that t has in s, in their order.
Latest(q, s, t) ==
  /\ Len(q) = Room(RowsOf(s, t))
  /\ \A p \in 1..Len(q) : \E i \in DOMAIN s :
       s[i].tenant = t /\ s[i] = q[p] /\ RankOf(s, t, i) = RowsOf(s, t) - Len(q) + p

\* The in-process store holds the latest rows of every tenant that landed, in their order,
\* and as many of them as it may.
KeepsTheLatest == \A t \in Tenants : Latest(memory[t], table, t)

\* A further row leaves the places of those before it alone.
LEMMA RankAppended ==
  ASSUME NEW s \in Seq(Row), NEW r \in Row, NEW t
  PROVE  /\ \A i \in DOMAIN s : RankOf(Append(s, r), t, i) = RankOf(s, t, i)
         /\ RankOf(Append(s, r), t, Len(s) + 1) = RowsOf(Append(s, r), t)
<1>1. PICK u, N : u = Append(s, r) /\ N = Len(s)
  BY Zenon
<1>2. PICK K, L : K = {i \in DOMAIN s : s[i].tenant = t} /\ L = {i \in DOMAIN u : u[i].tenant = t}
  BY Zenon
<1>3. /\ u \in Seq(Row) /\ N \in Nat /\ N <= Len(s) /\ N <= Len(u) /\ Len(u) = N + 1
      /\ \A i \in 1..N : i \in DOMAIN s /\ i \in DOMAIN u /\ s[i] = u[i]
      /\ \A i \in DOMAIN s : i \in 0..N
  BY <1>1
<1>4. \A i \in 1..N : s[i] = u[i] /\ (i \in K <=> i \in L)
  BY <1>2, <1>3, Zenon
<1>5. \A n \in 0..N : Sums(s, K)[n] = Sums(u, L)[n]
  BY <1>3, <1>4, SumsSame
<1>6. \A i \in DOMAIN s : RankOf(u, t, i) = RankOf(s, t, i)
  BY <1>2, <1>3, <1>5, Zenon DEF RankOf
<1>7. RankOf(u, t, N + 1) = RowsOf(u, t)
  BY <1>3, Zenon DEF RankOf, RowsOf, SumOf
<1> QED BY <1>1, <1>6, <1>7, Zenon

\* The latest rows after one more of another tenant.
LEMMA LatestAside ==
  ASSUME NEW q \in Seq(Row), NEW s \in Seq(Row), NEW r \in Row, NEW t, Latest(q, s, t), r.tenant # t
  PROVE  Latest(q, Append(s, r), t)
<1>1. PICK u : u = Append(s, r)
  BY Zenon
<1>2. \A i \in DOMAIN s : i \in DOMAIN u /\ u[i] = s[i]
  BY <1>1
<1>3. RowsOf(u, t) = RowsOf(s, t)
  BY <1>1, RowsAppended, Zenon
<1>4. \A i \in DOMAIN s : RankOf(u, t, i) = RankOf(s, t, i)
  BY <1>1, RankAppended, Zenon
<1>5. ASSUME NEW p \in 1..Len(q)
      PROVE  \E i \in DOMAIN u : u[i].tenant = t /\ u[i] = q[p] /\ RankOf(u, t, i) = RowsOf(u, t) - Len(q) + p
  <2>1. PICK i \in DOMAIN s : s[i].tenant = t /\ s[i] = q[p] /\ RankOf(s, t, i) = RowsOf(s, t) - Len(q) + p
    BY Zenon DEF Latest
  <2> QED BY <1>2, <1>3, <1>4, <2>1, Zenon
<1>6. Len(q) = Room(RowsOf(u, t))
  BY <1>3, Zenon DEF Latest
<1> QED BY <1>1, <1>5, <1>6, Zenon DEF Latest

\* The latest rows after one more of the same tenant: it comes last, and the oldest goes
\* if there is no room.
LEMMA LatestGrows ==
  ASSUME NEW q \in Seq(Row), NEW s \in Seq(Row), NEW r \in Row, NEW t, Latest(q, s, t), r.tenant = t
  PROVE  Latest(Newest(Append(q, r)), Append(s, r), t)
<1>1. PICK u, v, w : u = Append(s, r) /\ v = Append(q, r) /\ w = Newest(v)
  BY Zenon
<1>2. PICK m \in Nat, n \in Nat : m = Len(q) /\ n = RowsOf(s, t)
  <2>1. RowsOf(s, t) \in Nat
    BY RowsAppended, Zenon
  <2> QED BY <2>1
<1>3. RowsOf(u, t) = n + 1
  BY <1>1, <1>2, RowsAppended, Zenon
<1>4. PICK N \in Nat : N = Len(s)
  OBVIOUS
<1>5. /\ \A i \in DOMAIN s : i \in DOMAIN u /\ u[i] = s[i]
      /\ N + 1 \in DOMAIN u /\ u[N + 1] = r
  BY <1>1, <1>4
<1>6. /\ \A i \in DOMAIN s : RankOf(u, t, i) = RankOf(s, t, i)
      /\ RankOf(u, t, N + 1) = n + 1
  BY <1>1, <1>3, <1>4, RankAppended, Zenon
<1>7. /\ v \in Seq(Row) /\ Len(v) = m + 1 /\ v[m + 1] = r
      /\ \A p \in 1..m : v[p] = q[p]
  BY <1>1, <1>2
<1>8. m = Room(n)
  BY <1>2, Zenon DEF Latest
<1>9. ASSUME NEW p \in 1..(m + 1)
      PROVE  \E i \in DOMAIN u : u[i].tenant = t /\ u[i] = v[p] /\ RankOf(u, t, i) = n - m + p
  <2>1. CASE p = m + 1
    <3>1. n - m + p = n + 1
      BY <1>2, <2>1
    <3> QED BY <1>5, <1>6, <1>7, <2>1, <3>1, Zenon
  <2>2. CASE p # m + 1
    <3>1. p \in 1..m
      BY <1>2, <2>2
    <3>2. PICK i \in DOMAIN s : s[i].tenant = t /\ s[i] = q[p] /\ RankOf(s, t, i) = n - m + p
      BY <1>2, <3>1, Zenon DEF Latest
    <3> QED BY <1>5, <1>6, <1>7, <3>1, <3>2, Zenon
  <2> QED BY <2>1, <2>2, Zenon
<1>10. CASE m + 1 > MaxRecords
  <2>1. m = MaxRecords /\ ~(n + 1 <= MaxRecords) /\ m + 1 - MaxRecords + 1 = 2
    BY <1>8, <1>10, UsageSettings DEF Room
  <2>2. w = SubSeq(v, 2, m + 1)
    <3>1. Len(v) > MaxRecords /\ Len(v) - MaxRecords + 1 = 2
      BY <1>7, <1>10, <2>1
    <3>2. w = SubSeq(v, Len(v) - MaxRecords + 1, Len(v))
      BY <1>1, <3>1, Zenon DEF Newest
    <3> QED BY <1>7, <3>1, <3>2, Zenon
  <2>3. Len(w) = m /\ \A p \in 1..m : w[p] = v[p + 1] /\ p + 1 \in 1..(m + 1)
    BY <1>7, <2>2
  <2>4. \A p \in 1..m : n - m + (p + 1) = (n + 1) - m + p
    BY <1>2
  <2>5. ASSUME NEW p \in 1..m
        PROVE  \E i \in DOMAIN u : u[i].tenant = t /\ u[i] = w[p] /\ RankOf(u, t, i) = (n + 1) - m + p
    <3>1. PICK i \in DOMAIN u : u[i].tenant = t /\ u[i] = v[p + 1] /\ RankOf(u, t, i) = n - m + (p + 1)
      BY <1>9, <2>3, Zenon
    <3> QED BY <2>3, <2>4, <3>1, Zenon
  <2>6. Len(w) = Room(n + 1)
    BY <2>1, <2>3, Zenon DEF Room
  <2> QED BY <1>1, <1>3, <2>3, <2>5, <2>6, Zenon DEF Latest
<1>11. CASE ~(m + 1 > MaxRecords)
  <2>1. m = n /\ n + 1 <= MaxRecords
    BY <1>8, <1>11, UsageSettings DEF Room
  <2>2. w = v
    BY <1>1, <1>7, <1>11, Zenon DEF Newest
  <2>3. \A p \in 1..(m + 1) : n - m + p = (n + 1) - (m + 1) + p
    BY <1>2
  <2>4. Len(w) = Room(n + 1)
    BY <1>7, <2>1, <2>2, Zenon DEF Room
  <2>5. ASSUME NEW p \in 1..(m + 1)
        PROVE  \E i \in DOMAIN u : u[i].tenant = t /\ u[i] = w[p] /\ RankOf(u, t, i) = (n + 1) - (m + 1) + p
    <3>1. PICK i \in DOMAIN u : u[i].tenant = t /\ u[i] = v[p] /\ RankOf(u, t, i) = n - m + p
      BY <1>9, Zenon
    <3> QED BY <2>2, <2>3, <3>1, Zenon
  <2>6. Len(w) = m + 1
    BY <1>7, <2>2, Zenon
  <2> QED BY <1>1, <1>3, <2>4, <2>5, <2>6, Zenon DEF Latest
<1> QED BY <1>10, <1>11, Zenon

LEMMA LatestStep == ASSUME Stored, KeepsTheLatest, [UsageNext]_usageVars PROVE KeepsTheLatest'
<1>1. CASE RecordUsage
  <2>1. PICK r \in Row :
           /\ memory' = [memory EXCEPT ![r.tenant] = Newest(Append(@, r))]
           /\ table' = Append(table, r)
    BY <1>1, Landing, Zenon
  <2>2. table \in Seq(Row) /\ memory \in [Tenants -> Seq(Row)] /\ r.tenant \in Tenants
    BY Zenon DEF Stored, Row
  <2>3. SUFFICES ASSUME NEW t \in Tenants PROVE Latest(memory'[t], table', t)
    BY Zenon DEF KeepsTheLatest
  <2>4. PICK q \in Seq(Row) : q = memory[t]
    BY <2>2, Zenon
  <2>5. Latest(q, table, t)
    BY <2>4, Zenon DEF KeepsTheLatest
  <2>6. CASE r.tenant # t
    <3>1. memory'[t] = q
      BY <2>1, <2>2, <2>4, <2>6, Zenon
    <3>2. Latest(q, Append(table, r), t)
      BY <2>2, <2>5, <2>6, LatestAside
    <3> QED BY <2>1, <3>1, <3>2, Zenon
  <2>7. CASE r.tenant = t
    <3>1. memory'[t] = Newest(Append(q, r))
      BY <2>1, <2>2, <2>4, <2>7, Zenon
    <3>2. Latest(Newest(Append(q, r)), Append(table, r), t)
      BY <2>2, <2>5, <2>7, LatestGrows
    <3> QED BY <2>1, <3>1, <3>2, Zenon
  <2> QED BY <2>6, <2>7, Zenon
<1>2. CASE UNCHANGED <<memory, table>>
  BY <1>2, Zenon DEF KeepsTheLatest
<1> QED
  BY <1>1, <1>2, Zenon
  DEF UsageNext, usageVars, UsageTick, MeterRequest, AskUsage, ReadTotals, QuotaSlots, ReadWindow,
      Respond, Unavailable, RunMonthlyBilling, CalculateTenantInvoice, EndJob, JobFails

LEMMA LatestStarts == ASSUME UsageInit PROVE KeepsTheLatest
<1>1. SUFFICES ASSUME NEW t \in Tenants PROVE Latest(memory[t], table, t)
  BY Zenon DEF KeepsTheLatest
<1>2. memory[t] = <<>> /\ table = <<>>
  BY Zenon DEF UsageInit
<1>3. RowsOf(<<>>, t) = 0
  <2>1. PICK K : K = {i \in DOMAIN <<>> : <<>>[i].tenant = t}
    BY Zenon
  <2>2. <<>> \in Seq(Row) /\ Len(<<>>) = 0
    OBVIOUS
  <2>3. Sums(<<>>, K)[0] = Nothing
    BY <2>2, SumsTyped, Zenon
  <2>4. RowsOf(<<>>, t) = Sums(<<>>, K)[0].requests
    BY <2>1, <2>2, Zenon DEF RowsOf, SumOf
  <2>5. Nothing.requests = 0
    BY DEF Nothing
  <2> QED BY <2>3, <2>4, <2>5, Zenon
<1>4. Len(<<>>) = 0 /\ 0 <= MaxRecords /\ \A p : p \notin 1..Len(<<>>)
  BY UsageSettings
<1> QED BY <1>2, <1>3, <1>4, Zenon DEF Latest, Room

\* At its limit and beyond, the in-process store forgets the oldest rows of a tenant and
\* no others: the list it keeps is the end of what landed for the tenant, without a gap, and
\* no row of one tenant makes another's go (store/memory.go, RecordUsage).
THEOREM OldestGoFirst == UsageSpec => []KeepsTheLatest
<1>1. UsageInit => Stored /\ KeepsTheLatest
  BY UsageStarts, LatestStarts, Zenon
<1>2. Stored /\ KeepsTheLatest /\ [UsageNext]_usageVars => Stored' /\ KeepsTheLatest'
  BY StoredStep, LatestStep, Zenon
<1> QED BY <1>1, <1>2, PTL DEF UsageSpec

\* What the other invariants leave open.
Rest == Len(metered) <= MaxRows /\ job.pc \in {"idle", "invoicing"}

LEMMA RestStep == ASSUME Stored, Billing, Rest, [UsageNext]_usageVars PROVE Rest'
<1>1. ASSUME NEW q \in Requests, MeterRequest(q) PROVE Rest'
  <2>1. PICK r : metered' = Append(metered, r) /\ Len(metered) < MaxRows /\ job' = job
    BY <1>1, Zenon DEF MeterRequest
  <2>2. Len(Append(metered, r)) <= MaxRows
    BY <2>1, UsageSettings DEF Stored
  <2> QED BY <2>1, <2>2, Zenon DEF Rest
<1>2. CASE RunMonthlyBilling
  BY <1>2, Zenon DEF RunMonthlyBilling, Rest
<1>3. CASE CalculateTenantInvoice
  <2>1. PICK a, b : job' = [job EXCEPT !.todo = a, !.invoices = b] /\ metered' = metered
    BY <1>3, Zenon DEF CalculateTenantInvoice
  <2>2. job'.pc = job.pc
    BY <2>1, Zenon DEF Billing, JobShaped
  <2> QED BY <2>1, <2>2, Zenon DEF Rest
<1>4. CASE EndJob \/ JobFails
  <2>1. PICK l : job' = NoJob(l) /\ metered' = metered
    BY <1>4, Zenon DEF EndJob, JobFails
  <2>2. job'.pc = "idle"
    BY <2>1, Zenon DEF NoJob
  <2> QED BY <2>1, <2>2, Zenon DEF Rest
<1>5. CASE UNCHANGED <<metered, job>>
  BY <1>5, Zenon DEF Rest
<1> QED
  BY <1>1, <1>2, <1>3, <1>4, <1>5, Zenon
  DEF UsageNext, usageVars, UsageTick, RecordUsage, AskUsage, ReadTotals, QuotaSlots, ReadWindow,
      Respond, Unavailable

\* The clock, the stores, a report and a billing job are of their types, and the in-process
\* store keeps to its limit (store/memory.go, server/data.go, BillingService.java).
THEOREM UsageTypes == UsageSpec => []UsageTypeOK
<1> DEFINE Inv == Stored /\ StoresAlike /\ Reporting /\ Billing /\ KeepsTheLatest /\ Rest
<1>1. UsageInit => Inv
  <2>1. ASSUME UsageInit PROVE Rest
    <3>1. metered = <<>> /\ job = NoJob(0)
      BY <2>1, Zenon DEF UsageInit
    <3>2. Len(<<>>) <= MaxRows
      BY UsageSettings
    <3> QED BY <3>1, <3>2, Zenon DEF Rest, NoJob
  <2> QED BY <2>1, UsageStarts, ReportsStart, LatestStarts, Zenon
<1>2. Inv /\ [UsageNext]_usageVars => Inv'
  BY StoredStep, AlikeStep, ReportingStep, BillingStep, LatestStep, RestStep, Zenon
<1>3. Inv => UsageTypeOK
  <2>1. SUFFICES ASSUME Inv PROVE UsageTypeOK
    BY Zenon
  <2>2. now \in 0..MaxTime /\ landed \in 0..Len(metered)
    <3>1. now \in Nat /\ now <= MaxTime /\ landed \in Nat /\ landed <= Len(metered) /\ metered \in Seq(Row)
      BY <2>1, Zenon DEF Stored, Reporting
    <3> QED BY <3>1, UsageSettings
  <2>3. ASSUME NEW t \in Tenants PROVE Len(memory[t]) <= MaxRecords
    <3>1. PICK n : n = RowsOf(table, t) /\ Len(memory[t]) = Room(n)
      BY <2>1, Zenon DEF KeepsTheLatest, Latest
    <3> QED BY <3>1, UsageSettings DEF Room
  <2> QED BY <2>1, <2>2, <2>3, Zenon DEF UsageTypeOK, Rest, Reporting
<1> QED BY <1>1, <1>2, <1>3, PTL DEF UsageSpec
=============================================================================
