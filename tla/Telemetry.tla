------------------------------- MODULE Telemetry -------------------------------
(***************************************************************************)
(* From a served request to its usage row: the bounded queue and the       *)
(* dispatcher goroutine of gateway/internal/obs/telemetry.go, the usage    *)
(* endpoint of the analytics service, and the shutdown that stops them.    *)
(*                                                                         *)
(* A delivery the gateway has given up on may still be running inside the  *)
(* analytics service: each attempt is a handler of its own, and only the   *)
(* latest one is heard.                                                    *)
(***************************************************************************)
EXTENDS Integers, Sequences, FiniteSets

CONSTANTS Records,      \* the usage record of each request, by request_id
          Buffer,       \* telemetry.buffer
          Handlers,     \* bound on the deliveries analytics handles at once
          Malformed,    \* records analytics answers with a 4xx
          Unstorable,   \* records whose row breaks a constraint other than request_id
          MayTimeOut,   \* whether requests may outlast drain_timeout
          None

ASSUME TelemetrySettings ==
  /\ Buffer \in Nat \ {0}
  /\ Malformed \subseteq Records
  /\ Unstorable \subseteq Records \ Malformed
  /\ MayTimeOut \in BOOLEAN
  /\ None \notin Records

VARIABLES req,        \* each request: none, running or done
          phase,      \* the process: serving, draining, closing, exited
          queue,      \* Telemetry.ch
          stop,       \* Telemetry.stop is closed
          mode,       \* the dispatcher goroutine: run, drain or gone
          pc,         \* where it is in deliver: idle, send, reply or backoff
          hand,       \* the record it delivers
          uncounted,  \* drain's local count of lost records
          dropped,    \* the TelemetryDropped counter
          up,         \* analytics is running
          handler,    \* the deliveries analytics is handling
          rows        \* the rows of usage_metric, by request_id

gateway == <<req, phase, queue, stop, mode, pc, hand, uncounted, dropped>>
analytics == <<up, handler, rows>>
vars == <<gateway, analytics>>

\* One delivery inside analytics: where its handler is, for which record, and
\* whether the gateway still listens.
Delivery == [pc : {"free", "check", "save"}, rec : Records \cup {None}, heard : BOOLEAN]

Free == [pc |-> "free", rec |-> None, heard |-> FALSE]

Init ==
  /\ req = [r \in Records |-> "none"]
  /\ phase = "serving"
  /\ queue = <<>> /\ stop = FALSE
  /\ mode = "run" /\ pc = "idle" /\ hand = None
  /\ uncounted = 0 /\ dropped = 0
  /\ up = TRUE
  /\ handler = [h \in Handlers |-> Free]
  /\ rows = [r \in Records |-> 0]

-----------------------------------------------------------------------------
(* Requests and shutdown *)

\* refuseWhenDraining turns away what arrives after the drain began.
Arrive(r) ==
  /\ req[r] = "none" /\ phase = "serving"
  /\ req' = [req EXCEPT ![r] = "running"]
  /\ UNCHANGED <<phase, queue, stop, mode, pc, hand, uncounted, dropped, analytics>>

RecordOverwrites(r) ==
  /\ req[r] = "running" /\ phase # "exited"
  /\ req' = [req EXCEPT ![r] = "done"]
  /\ queue' = IF Len(queue) < Buffer THEN Append(queue, r) ELSE Append(Tail(queue), r)
  /\ UNCHANGED <<phase, stop, mode, pc, hand, uncounted, dropped, analytics>>

\* Telemetry.Record at the end of a metered request: queued, or dropped and
\* counted when the buffer is full.
Record(r) ==
  /\ req[r] = "running" /\ phase # "exited"
  /\ req' = [req EXCEPT ![r] = "done"]
  /\ IF Len(queue) < Buffer
     THEN queue' = Append(queue, r) /\ UNCHANGED dropped
     ELSE dropped' = dropped + 1 /\ UNCHANGED queue
  /\ UNCHANGED <<phase, stop, mode, pc, hand, uncounted, analytics>>

\* SIGTERM: Server.Shutdown sets draining.
Drain ==
  /\ phase = "serving"
  /\ phase' = "draining"
  /\ UNCHANGED <<req, queue, stop, mode, pc, hand, uncounted, dropped, analytics>>

CloseEarly ==
  /\ phase = "draining"
  /\ phase' = "closing" /\ stop' = TRUE
  /\ UNCHANGED <<req, queue, mode, pc, hand, uncounted, dropped, analytics>>

\* ShutdownWithTimeout has returned, because every connection is done or because
\* drain_timeout has passed, and Telemetry.Close closes stop.
Close ==
  /\ phase = "draining"
  /\ MayTimeOut \/ \A r \in Records : req[r] # "running"
  /\ phase' = "closing" /\ stop' = TRUE
  /\ UNCHANGED <<req, queue, mode, pc, hand, uncounted, dropped, analytics>>

\* Close has waited for the dispatcher; the process ends.
Exit ==
  /\ phase = "closing" /\ mode = "gone"
  /\ phase' = "exited"
  /\ UNCHANGED <<req, queue, stop, mode, pc, hand, uncounted, dropped, analytics>>

-----------------------------------------------------------------------------
(* The dispatcher goroutine *)

\* run and drain: receive the next record.  While both cases of run's select are
\* ready it may take either.
Take ==
  /\ pc = "idle" /\ mode # "gone" /\ queue # <<>>
  /\ hand' = Head(queue) /\ queue' = Tail(queue) /\ pc' = "send"
  /\ UNCHANGED <<req, phase, stop, mode, uncounted, dropped, analytics>>

BeginDrain ==
  /\ pc = "idle" /\ mode = "run" /\ stop
  /\ mode' = "drain"
  /\ UNCHANGED <<req, phase, queue, stop, pc, hand, uncounted, dropped, analytics>>

\* drain finds the queue empty, reports what it lost and run returns.
Leave ==
  /\ pc = "idle" /\ mode = "drain" /\ queue = <<>>
  /\ mode' = "gone"
  /\ dropped' = dropped + uncounted /\ uncounted' = 0
  /\ UNCHANGED <<req, phase, queue, stop, pc, hand, analytics>>

\* deliver returns true, or false: run counts the loss at once, drain later.
Delivered == pc' = "idle" /\ hand' = None /\ UNCHANGED <<uncounted, dropped>>

Lost ==
  /\ pc' = "idle" /\ hand' = None
  /\ IF mode = "drain"
     THEN uncounted' = uncounted + 1 /\ UNCHANGED dropped
     ELSE dropped' = dropped + 1 /\ UNCHANGED uncounted

FailedNotRetried == Lost

\* A transient error: retried after the backoff, except by drain.
Failed ==
  IF mode = "drain" THEN Lost
  ELSE pc' = "backoff" /\ UNCHANGED <<hand, uncounted, dropped>>

RetryPastStop ==
  /\ pc = "backoff"
  /\ pc' = "send"
  /\ UNCHANGED <<req, phase, queue, stop, mode, hand, uncounted, dropped, analytics>>

\* The timer of the backoff fires first; a closed stop would have been chosen.
Retry ==
  /\ pc = "backoff" /\ ~stop
  /\ pc' = "send"
  /\ UNCHANGED <<req, phase, queue, stop, mode, hand, uncounted, dropped, analytics>>

\* Shutting down during the backoff.
GiveUp ==
  /\ pc = "backoff" /\ stop
  /\ Lost
  /\ UNCHANGED <<req, phase, queue, stop, mode, analytics>>

\* sink.RecordUsage: the request reaches analytics.
Send(h) ==
  /\ pc = "send" /\ up /\ handler[h].pc = "free"
  /\ pc' = "reply"
  /\ handler' = [handler EXCEPT ![h] = [pc |-> "check", rec |-> hand, heard |-> TRUE]]
  /\ UNCHANGED <<req, phase, queue, stop, mode, hand, uncounted, dropped, up, rows>>

Unheard == [h \in Handlers |-> [handler[h] EXCEPT !.heard = FALSE]]

\* The transport fails, or writeTimeout passes before the answer: analytics goes
\* on with what it has received.
Timeout ==
  /\ pc \in {"send", "reply"}
  /\ Failed
  /\ handler' = Unheard
  /\ UNCHANGED <<req, phase, queue, stop, mode, up, rows>>

-----------------------------------------------------------------------------
(* UsageController.record *)

\* The handler ends; its answer counts only while the gateway listens for it.
Answer(h, outcome) ==
  /\ handler' = [handler EXCEPT ![h] = Free]
  /\ IF handler[h].heard THEN outcome ELSE UNCHANGED <<pc, hand, uncounted, dropped>>

\* 400, which the client reports as permanent.
Refuse(h) ==
  /\ handler[h].pc = "check" /\ handler[h].rec \in Malformed
  /\ Answer(h, Lost)
  /\ UNCHANGED <<req, phase, queue, stop, mode, up, rows>>

\* existsByRequestId: 200 if the record is already held.
Check(h) ==
  /\ handler[h].pc = "check" /\ handler[h].rec \notin Malformed
  /\ IF rows[handler[h].rec] > 0
     THEN Answer(h, Delivered)
     ELSE /\ handler' = [handler EXCEPT ![h].pc = "save"]
          /\ UNCHANGED <<pc, hand, uncounted, dropped>>
  /\ UNCHANGED <<req, phase, queue, stop, mode, up, rows>>

SaveAgain(h) ==
  /\ handler[h].pc = "save" /\ handler[h].rec \notin Unstorable
  /\ rows' = [rows EXCEPT ![handler[h].rec] = @ + 1]
  /\ Answer(h, Delivered)
  /\ UNCHANGED <<req, phase, queue, stop, mode, up>>

\* save: 201, or 200 when the unique constraint says another delivery won.
Save(h) ==
  /\ handler[h].pc = "save" /\ handler[h].rec \notin Unstorable
  /\ rows' = [rows EXCEPT ![handler[h].rec] = 1]
  /\ Answer(h, Delivered)
  /\ UNCHANGED <<req, phase, queue, stop, mode, up>>

\* A 5xx: the database failed, or the row breaks some other constraint and the
\* exception is thrown on.
Fault(h) ==
  /\ handler[h].pc = "save"
  /\ Answer(h, Failed)
  /\ UNCHANGED <<req, phase, queue, stop, mode, up, rows>>

\* Analytics stops, taking its handlers with it, and starts again.
Crash ==
  /\ up
  /\ up' = FALSE
  /\ handler' = [h \in Handlers |-> Free]
  /\ IF pc = "reply" /\ \E h \in Handlers : handler[h].heard
     THEN Failed
     ELSE UNCHANGED <<pc, hand, uncounted, dropped>>
  /\ UNCHANGED <<req, phase, queue, stop, mode, rows>>

Restart ==
  /\ ~up
  /\ up' = TRUE
  /\ UNCHANGED <<gateway, handler, rows>>

Next ==
  \/ \E r \in Records : Arrive(r)
  \/ \E r \in Records : Record(r)
  \/ Drain \/ Close \/ Exit
  \/ Take \/ BeginDrain \/ Leave \/ Retry \/ GiveUp \/ Timeout
  \/ \E h \in Handlers : Send(h)
  \/ \E h \in Handlers : Refuse(h)
  \/ \E h \in Handlers : Check(h)
  \/ \E h \in Handlers : Save(h)
  \/ \E h \in Handlers : Fault(h)
  \/ Crash \/ Restart

Spec == Init /\ [][Next]_vars

\* The goroutine runs, its timers fire and a request ends.
Scheduled ==
  /\ WF_vars(Take) /\ WF_vars(BeginDrain) /\ WF_vars(Leave)
  /\ WF_vars(Retry) /\ WF_vars(GiveUp) /\ WF_vars(Timeout)
  /\ \A r \in Records : WF_vars(Record(r))

\* An outage of the network ends: attempts get through again, they are answered in
\* time again, and analytics finishes what it has begun.
Handles(h) == Refuse(h) \/ Check(h) \/ Save(h) \/ (handler[h].rec \in Unstorable /\ Fault(h))

Recovers ==
  \A h \in Handlers :
    /\ SF_vars(Send(h))
    /\ SF_vars(handler[h].heard /\ handler[h].pc = "check" /\ Handles(h))
    /\ SF_vars(handler[h].heard /\ handler[h].pc = "save" /\ Handles(h))
    /\ WF_vars(Handles(h))

FairSpec == Spec /\ Scheduled

-----------------------------------------------------------------------------
(* Properties *)

\* Every variable keeps its type, the queue stays within telemetry.buffer and the
\* dispatcher holds a record exactly while it is inside deliver.
TypeOK ==
  /\ req \in [Records -> {"none", "running", "done"}]
  /\ phase \in {"serving", "draining", "closing", "exited"}
  /\ queue \in Seq(Records) /\ Len(queue) <= Buffer
  /\ stop \in BOOLEAN /\ up \in BOOLEAN
  /\ mode \in {"run", "drain", "gone"}
  /\ pc \in {"idle", "send", "reply", "backoff"}
  /\ hand \in Records \cup {None} /\ (hand = None <=> pc = "idle")
  /\ uncounted \in Nat /\ dropped \in Nat
  /\ handler \in [Handlers -> Delivery]
  /\ rows \in [Records -> Nat]

\* The records the gateway still answers for: queued, or in the dispatcher's hand.
InQueue == {queue[i] : i \in DOMAIN queue}
Held == InQueue \cup (IF pc = "idle" THEN {} ELSE {hand})

Placed ==
  /\ \A i, j \in DOMAIN queue : i # j => queue[i] # queue[j]
  /\ pc # "idle" => hand \notin InQueue
  /\ \A r \in Held : req[r] = "done"

Listening ==
  /\ \A h \in Handlers : handler[h].pc # "free" =>
       handler[h].rec \in Records /\ req[handler[h].rec] = "done"
  /\ \A h \in Handlers : handler[h].heard =>
       handler[h].pc # "free" /\ pc = "reply" /\ handler[h].rec = hand
  /\ \A h, g \in Handlers : handler[h].heard /\ handler[g].heard => h = g

\* A record is in one place of the pipeline only, and only once its request is done;
\* of all the deliveries analytics is handling the gateway listens to at most one,
\* and that one is for the record in its hand.
OnePlace == Placed /\ Listening

\* However often a delivery is retried and however late a forgotten attempt lands,
\* a request is billed at most once, and only a request that was served.
BilledOnce == \A r \in Records : rows[r] <= 1 /\ (rows[r] = 1 => req[r] = "done")

\* The pipeline is a ledger: a record the gateway holds is let go only once its
\* row exists or the loss is counted.
Books == INSTANCE Ledger WITH held <- Held,
                              billed <- {r \in Records : rows[r] > 0},
                              lost <- dropped + uncounted
KeepsTheBooks == Books!Spec

\* When the process exits nothing is left in the channel: every usage record was
\* persisted or accounted for by lost.
NothingLeftBehind == phase = "exited" => queue = <<>> /\ uncounted = 0

\* Close returns although analytics may be down for good: drain makes one attempt
\* per record.
CloseReturns == stop ~> mode = "gone"

\* Usage buffered while analytics is down appears once it returns for good: unless
\* the process shuts down first, a queued record gets its row or is refused.
BacklogArrives ==
  Recovers /\ <>[]up => \A r \in Records : r \in InQueue ~> (stop \/ rows[r] = 1 \/ r \in Malformed)
=============================================================================
