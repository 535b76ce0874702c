--------------------------------- MODULE Chat ---------------------------------
(***************************************************************************)
(* One key's chat completions, from the concurrency slot to the usage      *)
(* record (gateway/internal/server: limits.go, middleware.go, chat.go).    *)
(* A buffered completion is over when its handler returns.  A streamed one *)
(* goes on in a body writer of its own that relays the upstream's lines,   *)
(* beside a watchdog that closes a silent upstream, and owns the slot.     *)
(*                                                                         *)
(* Dispatch is the module of that name and quota evaluation is Quota; here *)
(* they answer or fail.  A line's text is left out, its order is not.      *)
(***************************************************************************)
EXTENDS Integers, FiniteSets

CONSTANTS Requests,
          Limit,     \* max_concurrent_per_key, as the tenant is held to it
          Idle,      \* stream_idle_timeout, in ticks
          Clients,   \* what a client may do: "slow", "gone"
          MaxLines   \* bound on the lines of one stream

ASSUME ChatSettings ==
  /\ Idle \in Nat \ {0} /\ Limit \in Nat \ {0} /\ MaxLines \in Nat
  /\ Clients \subseteq {"slow", "gone"}
  /\ IsFiniteSet(Requests)

VARIABLES inUse,    \* concurrencyLimiter.inUse of the key
          handler,  \* [request -> where its handler is]
          relay,    \* [request -> the body writer and its watchdog]
          up,       \* [request -> the upstream's side of its stream]
          client,   \* [request -> the client's side]
          records   \* [request -> the usage records it left]

vars == <<inUse, handler, relay, up, client, records>>

NoRelay == [pc |-> "none", left |-> 0, armed |-> FALSE, stalled |-> FALSE, why |-> "none"]
NoStream == [state |-> "none", lines |-> 0, unread |-> 0, closed |-> FALSE]
NewClient == [state |-> "reading", fell |-> FALSE, ending |-> "none"]

Init ==
  /\ inUse = 0
  /\ handler = [r \in Requests |-> [pc |-> "new", adopted |-> FALSE, served |-> FALSE]]
  /\ relay = [r \in Requests |-> NoRelay]
  /\ up = [r \in Requests |-> NoStream]
  /\ client = [r \in Requests |-> NewClient]
  /\ records = [r \in Requests |-> 0]

-----------------------------------------------------------------------------
(* The handler and its middleware *)

\* limitTenant's last check, which holds something: a request that passed the
\* others takes a slot or is refused.
Acquire(r) ==
  /\ handler[r].pc = "new"
  /\ IF inUse >= Limit
     THEN handler' = [handler EXCEPT ![r].pc = "done"] /\ UNCHANGED inUse
     ELSE handler' = [handler EXCEPT ![r].pc = "handler"] /\ inUse' = inUse + 1
  /\ UNCHANGED <<relay, up, client, records>>

\* The quota refuses, the dispatch fails or the handler panics: no usage row.
Rejected(r) ==
  /\ handler[r].pc = "handler"
  /\ handler' = [handler EXCEPT ![r].pc = "return"]
  /\ UNCHANGED <<inUse, relay, up, client, records>>

\* A buffered answer, from a provider or from the cache, is metered in the handler.
Completed(r) ==
  /\ handler[r].pc = "handler"
  /\ handler' = [handler EXCEPT ![r].pc = "return", ![r].served = TRUE]
  /\ records' = [records EXCEPT ![r] = @ + 1]
  /\ UNCHANGED <<inUse, relay, up, client>>

StreamOpenedKept(r) ==
  /\ handler[r].pc = "handler"
  /\ handler' = [handler EXCEPT ![r].pc = "return", ![r].served = TRUE]
  /\ relay' = [relay EXCEPT ![r] = [NoRelay EXCEPT !.pc = "start"]]
  /\ up' = [up EXCEPT ![r].state = "open"]
  /\ UNCHANGED <<inUse, client, records>>

\* streamCompletion: the writer adopts the slot and runs on its own.
StreamOpened(r) ==
  /\ handler[r].pc = "handler"
  /\ handler' = [handler EXCEPT ![r].pc = "return", ![r].served = TRUE, ![r].adopted = TRUE]
  /\ relay' = [relay EXCEPT ![r] = [NoRelay EXCEPT !.pc = "start"]]
  /\ up' = [up EXCEPT ![r].state = "open"]
  /\ UNCHANGED <<inUse, client, records>>

\* The middleware chain unwinds: the slot goes unless it was adopted.
Return(r) ==
  /\ handler[r].pc = "return"
  /\ handler' = [handler EXCEPT ![r].pc = "done"]
  /\ inUse' = IF handler[r].adopted THEN inUse ELSE inUse - 1
  /\ UNCHANGED <<relay, up, client, records>>

-----------------------------------------------------------------------------
(* The relay: relaySSE in the body writer *)

Start(r) ==
  /\ relay[r].pc = "start"
  /\ relay' = [relay EXCEPT ![r].pc = "read", ![r].left = Idle, ![r].armed = TRUE]
  /\ UNCHANGED <<inUse, handler, up, client, records>>

\* A line restarts the watchdog, even one that has fired, before it is written on.
ReadLine(r) ==
  /\ relay[r].pc = "read" /\ up[r].unread > 0 /\ ~up[r].closed
  /\ relay' = [relay EXCEPT ![r].pc = "write", ![r].left = Idle, ![r].armed = TRUE]
  /\ up' = [up EXCEPT ![r].unread = @ - 1]
  /\ UNCHANGED <<inUse, handler, client, records>>

\* Write and Flush return when the client has taken the line.
WriteLine(r) ==
  /\ relay[r].pc = "write" /\ client[r].state = "reading"
  /\ relay' = [relay EXCEPT ![r].pc = "read"]
  /\ UNCHANGED <<inUse, handler, up, client, records>>

WriteFails(r) ==
  /\ relay[r].pc = "write" /\ client[r].state = "gone"
  /\ relay' = [relay EXCEPT ![r].pc = "end", ![r].armed = FALSE, ![r].why = "broken"]
  /\ UNCHANGED <<inUse, handler, up, client, records>>

WhyUnmarked(r) == IF up[r].state = "broken" THEN "broken" ELSE "eof"

\* Why the relay ended: the watchdog's mark is looked at before the kind of error.
Why(r) ==
  IF relay[r].stalled THEN "stalled" ELSE IF up[r].state = "complete" THEN "eof" ELSE "broken"

ReadFails(r) ==
  /\ relay[r].pc = "read"
  /\ up[r].closed \/ (up[r].unread = 0 /\ up[r].state # "open")
  /\ relay' = [relay EXCEPT ![r].pc = "end", ![r].armed = FALSE, ![r].why = Why(r)]
  /\ UNCHANGED <<inUse, handler, up, client, records>>

\* The terminal event, written to a client that reads and lost on one that left.
Announce(r) ==
  /\ relay[r].pc = "end" /\ (relay[r].why = "eof" \/ client[r].state # "slow")
  /\ relay' = [relay EXCEPT ![r].pc = "meter"]
  /\ client' = [client EXCEPT ![r].ending =
                  IF relay[r].why = "eof" THEN "complete"
                  ELSE IF client[r].state = "gone" THEN "lost" ELSE "error"]
  /\ UNCHANGED <<inUse, handler, up, records>>

MeterStreamUnlessBroken(r) ==
  /\ relay[r].pc = "meter"
  /\ records' = [records EXCEPT ![r] = IF relay[r].why = "broken" THEN @ ELSE @ + 1]
  /\ relay' = [relay EXCEPT ![r].pc = "done"]
  /\ up' = [up EXCEPT ![r].closed = TRUE]
  /\ inUse' = inUse - 1
  /\ UNCHANGED <<handler, client>>

\* meterStream, then the deferred close of the upstream and release of the slot.
MeterStream(r) ==
  /\ relay[r].pc = "meter"
  /\ records' = [records EXCEPT ![r] = @ + 1]
  /\ relay' = [relay EXCEPT ![r].pc = "done"]
  /\ up' = [up EXCEPT ![r].closed = TRUE]
  /\ inUse' = inUse - 1
  /\ UNCHANGED <<handler, client>>

FireUnclosed(r) ==
  /\ relay[r].armed /\ relay[r].left = 0
  /\ relay' = [relay EXCEPT ![r].armed = FALSE, ![r].stalled = TRUE]
  /\ UNCHANGED <<inUse, handler, up, client, records>>

\* The watchdog's callback runs.
Fire(r) ==
  /\ relay[r].armed /\ relay[r].left = 0
  /\ relay' = [relay EXCEPT ![r].armed = FALSE, ![r].stalled = TRUE]
  /\ up' = [up EXCEPT ![r].closed = TRUE]
  /\ UNCHANGED <<inUse, handler, client, records>>

-----------------------------------------------------------------------------
(* The upstream, the client and the clock *)

Flowing(r) == up[r].state = "open" /\ ~up[r].closed

UpstreamLine(r) ==
  /\ Flowing(r) /\ up[r].lines < MaxLines
  /\ up' = [up EXCEPT ![r].lines = @ + 1, ![r].unread = @ + 1]
  /\ UNCHANGED <<inUse, handler, relay, client, records>>

UpstreamEnds(r, how) ==
  /\ Flowing(r)
  /\ up' = [up EXCEPT ![r].state = how]
  /\ UNCHANGED <<inUse, handler, relay, client, records>>

\* A client falls behind at most once, and leaves for good.
ClientTurns(r, how) ==
  /\ relay[r].pc \in {"start", "read", "write", "end"} /\ client[r].state = "reading"
  /\ how = "slow" => ~client[r].fell
  /\ client' = [client EXCEPT ![r].state = how, ![r].fell = @ \/ how = "slow"]
  /\ UNCHANGED <<inUse, handler, relay, up, records>>

ClientCatchesUp(r) ==
  /\ client[r].state = "slow"
  /\ client' = [client EXCEPT ![r].state = "reading"]
  /\ UNCHANGED <<inUse, handler, relay, up, records>>

Running(r) == relay[r].armed /\ relay[r].left > 0

\* The writer can go on without the upstream or the client.
Ready(r) ==
  \/ relay[r].pc \in {"start", "meter"}
  \/ relay[r].pc = "read" /\ (up[r].closed \/ up[r].unread > 0 \/ up[r].state # "open")
  \/ relay[r].pc = "write" /\ client[r].state # "slow"
  \/ relay[r].pc = "end" /\ (relay[r].why = "eof" \/ client[r].state # "slow")

\* Timers are punctual and a goroutine that can run does so within a tick.
Tick ==
  /\ \E r \in Requests : Running(r)
  /\ \A r \in Requests : ~Ready(r) /\ (relay[r].armed => relay[r].left > 0)
  /\ relay' = [r \in Requests |-> IF Running(r) THEN [relay[r] EXCEPT !.left = @ - 1] ELSE relay[r]]
  /\ UNCHANGED <<inUse, handler, up, client, records>>

Handle(r) == Acquire(r) \/ Rejected(r) \/ Completed(r) \/ StreamOpened(r) \/ Return(r)

Relay(r) ==
  \/ Start(r) \/ ReadLine(r) \/ WriteLine(r) \/ WriteFails(r) \/ ReadFails(r)
  \/ Announce(r) \/ MeterStream(r)

Next ==
  \/ \E r \in Requests :
       \/ Handle(r) \/ Relay(r) \/ Fire(r)
       \/ UpstreamLine(r) \/ \E how \in {"complete", "broken"} : UpstreamEnds(r, how)
       \/ \E how \in Clients : ClientTurns(r, how)
       \/ ClientCatchesUp(r)
  \/ Tick

Spec == Init /\ [][Next]_vars

\* Goroutines run and time passes.  The upstream and the client owe nothing: a dispatch
\* may never answer, and a client that fell behind may neither read on nor leave.
FairSpec ==
  /\ Spec /\ WF_vars(Tick)
  /\ \A r \in Requests :
       /\ WF_vars(Return(r)) /\ WF_vars(Relay(r)) /\ WF_vars(Fire(r))

-----------------------------------------------------------------------------
(* Properties *)

\* Who holds a slot: a handler, or the writer that adopted it.
Holding(r) ==
  \/ handler[r].pc = "handler"
  \/ handler[r].pc = "return" /\ ~handler[r].adopted
  \/ handler[r].adopted /\ relay[r].pc # "done"

HandlerType == [pc : {"new", "handler", "return", "done"}, adopted : BOOLEAN, served : BOOLEAN]
RelayType ==
  [pc : {"none", "start", "read", "write", "end", "meter", "done"}, left : 0..Idle,
   armed : BOOLEAN, stalled : BOOLEAN, why : {"none", "eof", "broken", "stalled"}]
StreamType ==
  [state : {"none", "open", "complete", "broken"}, lines : 0..MaxLines, unread : 0..MaxLines,
   closed : BOOLEAN]
ClientType ==
  [state : {"reading", "slow", "gone"}, fell : BOOLEAN, ending : {"none", "complete", "lost", "error"}]

TypeOK ==
  /\ inUse \in Nat
  /\ handler \in [Requests -> HandlerType]
  /\ relay \in [Requests -> RelayType]
  /\ up \in [Requests -> StreamType]
  /\ client \in [Requests -> ClientType]
  /\ records \in [Requests -> Nat]

\* The counter of the key is the number of requests that hold one of its slots:
\* none is released twice, by the middleware and by the writer, and none is lost.
SlotsCounted == inUse = Cardinality({r \in Requests : Holding(r)})

Working(r) == handler[r].pc = "handler" \/ relay[r].pc \notin {"none", "done"}

\* No more requests of a key are at work than it is allowed, streams whose handler
\* has long returned included, and the slots are counted exactly.
InFlightBounded ==
  TypeOK /\ SlotsCounted /\ Cardinality({r \in Requests : Working(r)}) <= Limit

\* Every request that was served leaves exactly one usage record, however its stream
\* ended, and a refused one leaves none.
MeteredOnce ==
  \A r \in Requests :
    /\ records[r] <= (IF handler[r].served THEN 1 ELSE 0)
    /\ handler[r].served /\ ~Holding(r) => records[r] = 1

\* A client that stayed is told how its stream ended: what looks complete is complete
\* to the last line, and everything else ends in an error event.
EndingTruthful ==
  \A r \in Requests : relay[r].pc \in {"meter", "done"} =>
    /\ client[r].ending = "complete" => up[r].state = "complete" /\ up[r].unread = 0
    /\ client[r].ending = "lost" => client[r].state = "gone"
    /\ client[r].ending # "none"

\* Once its dispatch has answered, every request gives its slot back or waits for a
\* client that does not read: a stream that falls silent is closed by the watchdog,
\* which ends the relay that waits for it.
SlotFreed ==
  \A r \in Requests :
    (Holding(r) /\ handler[r].pc # "handler") ~> (~Holding(r) \/ client[r].state = "slow")
=============================================================================
