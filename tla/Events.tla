-------------------------------- MODULE Events --------------------------------
(***************************************************************************)
(* Webhook events: the goroutines that breaker and catalog callbacks start *)
(* (gateway/internal/events/hooks.go), Emit, the stored history, the       *)
(* bounded queue and the worker pool of events.go, and endpoints that may  *)
(* refuse a delivery or take it and fail to say so.                        *)
(***************************************************************************)
EXTENDS Integers, Sequences, Functions

CONSTANTS Sources,         \* the callbacks that fire, each with a goroutine
          Batch,           \* the event types each callback emits, in order
          Hooks,           \* webhook ids
          Registered,      \* the webhooks there are when the gateway starts
          Subscribed,      \* the event types of each webhook
          Disabled,        \* webhooks created with enabled = false
          Dead,            \* webhooks whose endpoint never takes a delivery
          Workers,
          MaxAttempts,
          Queue,           \* opts.Queue
          MaxTenantEvents,
          None

Events == UNION {{g} \X (1..Len(Batch[g])) : g \in Sources}
Jobs == Events \X Hooks

Distinct(s) == \A i, k \in DOMAIN s : i # k => s[i] # s[k]

ASSUME EventsSettings ==
  /\ MaxAttempts \in Nat \ {0} /\ Queue \in Nat \ {0} /\ MaxTenantEvents \in Nat \ {0}
  /\ \A g \in Sources : Batch[g] \in Seq(STRING)
  /\ Registered \in Seq(Hooks) /\ Distinct(Registered)
  /\ None \notin Jobs

VARIABLES hooks,     \* the tenant's registered webhooks, in the order created
          fresh,     \* the webhook ids NewID has yet to give out
          emit,      \* the goroutines: place in Emit, event reached, hooks to go
          history,   \* Memory.events of the tenant
          queue,     \* Dispatcher.queue
          worker,    \* the pool: place in deliver, job, number of the attempt
          stop,      \* Dispatcher.stop is closed
          tries,     \* how often each job was attempted
          taken      \* the jobs whose endpoint took at least one delivery

vars == <<hooks, fresh, emit, history, queue, worker, stop, tries, taken>>

Idle == [pc |-> "idle", job |-> None, n |-> 0]

Init ==
  /\ hooks = Registered /\ fresh = Hooks \ Range(Registered)
  /\ emit = [g \in Sources |-> [pc |-> "none", at |-> 0, todo |-> <<>>]]
  /\ history = <<>> /\ queue = <<>> /\ stop = FALSE
  /\ worker = [w \in Workers |-> Idle]
  /\ tries = [j \in Jobs |-> 0]
  /\ taken = {}

-----------------------------------------------------------------------------
(* Webhooks *)

CreateWebhook(h) ==
  /\ h \in fresh
  /\ hooks' = Append(hooks, h) /\ fresh' = fresh \ {h}
  /\ UNCHANGED <<emit, history, queue, worker, stop, tries, taken>>

DeleteWebhook(h) ==
  /\ \E i \in DOMAIN hooks :
       /\ hooks[i] = h
       /\ hooks' = [k \in 1..(Len(hooks) - 1) |-> IF k < i THEN hooks[k] ELSE hooks[k + 1]]
  /\ UNCHANGED <<fresh, emit, history, queue, worker, stop, tries, taken>>

-----------------------------------------------------------------------------
(* Emit *)

Event(g) == <<g, emit[g].at>>

\* The next event of the batch, if there is one.
NextEvent(g) ==
  IF emit[g].at < Len(Batch[g])
  THEN [pc |-> "record", at |-> emit[g].at + 1, todo |-> <<>>]
  ELSE [pc |-> "done", at |-> emit[g].at, todo |-> <<>>]

\* The callback fires under its owner's lock and hands the batch to a goroutine.
\* A breaker going half-open starts none: it is not announced.
Fire(g) ==
  /\ emit[g].pc = "none"
  /\ emit' = [emit EXCEPT ![g] = NextEvent(g)]
  /\ UNCHANGED <<hooks, fresh, history, queue, worker, stop, tries, taken>>

\* RecordEvent keeps the newest MaxTenantEvents.
Remembered(list, e) ==
  LET all == Append(list, e)
  IN  IF Len(all) > MaxTenantEvents
      THEN SubSeq(all, Len(all) - MaxTenantEvents + 1, Len(all)) ELSE all

RecordEventDropped(g) ==
  /\ emit[g].pc = "record"
  /\ emit' = [emit EXCEPT ![g] = [pc |-> "list", at |-> emit[g].at, todo |-> <<>>]]
  /\ UNCHANGED <<hooks, fresh, history, queue, worker, stop, tries, taken>>

\* The event enters the stored history before the webhooks are read.
RecordEvent(g) ==
  /\ emit[g].pc = "record"
  /\ history' = Remembered(history, Event(g))
  /\ emit' = [emit EXCEPT ![g] = [pc |-> "list", at |-> emit[g].at, todo |-> <<>>]]
  /\ UNCHANGED <<hooks, fresh, queue, worker, stop, tries, taken>>

Wants(h, type) == h \notin Disabled /\ type \in Subscribed[h]

ListWebhooks(g) ==
  /\ emit[g].pc = "list"
  /\ emit' = [emit EXCEPT ![g] = [pc |-> "fan", at |-> emit[g].at, todo |-> hooks]]
  /\ UNCHANGED <<hooks, fresh, history, queue, worker, stop, tries, taken>>

\* The next webhook of the list is passed over, or has a job, or none if the queue
\* is full.
Enqueue(g) ==
  /\ emit[g].pc = "fan" /\ emit[g].todo # <<>>
  /\ queue' = IF Wants(Head(emit[g].todo), Batch[g][emit[g].at]) /\ Len(queue) < Queue
              THEN Append(queue, <<Event(g), Head(emit[g].todo)>>) ELSE queue
  /\ emit' = [emit EXCEPT ![g] = [pc |-> "fan", at |-> emit[g].at, todo |-> Tail(emit[g].todo)]]
  /\ UNCHANGED <<hooks, fresh, history, worker, stop, tries, taken>>

FannedOut(g) ==
  /\ emit[g].pc = "fan" /\ emit[g].todo = <<>>
  /\ emit' = [emit EXCEPT ![g] = NextEvent(g)]
  /\ UNCHANGED <<hooks, fresh, history, queue, worker, stop, tries, taken>>

-----------------------------------------------------------------------------
(* The workers *)

\* work receives a job; with stop closed as well its select may choose either.
Receive(w) ==
  /\ worker[w].pc = "idle" /\ queue # <<>>
  /\ worker' = [worker EXCEPT ![w] = [pc |-> "attempt", job |-> Head(queue), n |-> 1]]
  /\ queue' = Tail(queue)
  /\ UNCHANGED <<hooks, fresh, emit, history, stop, tries, taken>>

Return(w) ==
  /\ worker[w].pc = "idle" /\ stop
  /\ worker' = [worker EXCEPT ![w] = [pc |-> "gone", job |-> None, n |-> 0]]
  /\ UNCHANGED <<hooks, fresh, emit, history, queue, stop, tries, taken>>

\* Counted up to one past MaxAttempts.
Attempted(w) ==
  tries' = [tries EXCEPT ![worker[w].job] = IF @ > MaxAttempts THEN @ ELSE @ + 1]

\* A 2xx arrives.
Accepted(w) ==
  /\ worker[w].pc = "attempt" /\ worker[w].job[2] \notin Dead
  /\ Attempted(w)
  /\ taken' = taken \cup {worker[w].job}
  /\ worker' = [worker EXCEPT ![w] = Idle]
  /\ UNCHANGED <<hooks, fresh, emit, history, queue, stop>>

Waiting(w) == [pc |-> "backoff", job |-> worker[w].job, n |-> worker[w].n]

AfterErrorOneOver(w) ==
  IF worker[w].n > MaxAttempts
  THEN [worker EXCEPT ![w] = Idle] ELSE [worker EXCEPT ![w] = Waiting(w)]

AfterErrorLeaves(w) ==
  IF worker[w].n = MaxAttempts
  THEN [worker EXCEPT ![w] = [Idle EXCEPT !.pc = "gone"]] ELSE [worker EXCEPT ![w] = Waiting(w)]

\* The last attempt gives up, an earlier one waits out the backoff.
AfterError(w) ==
  IF worker[w].n = MaxAttempts
  THEN [worker EXCEPT ![w] = Idle] ELSE [worker EXCEPT ![w] = Waiting(w)]

\* An error, a timeout or another status.  The endpoint may have taken the
\* delivery all the same.
Errored(w) ==
  /\ worker[w].pc = "attempt"
  /\ Attempted(w)
  /\ taken' \in {taken} \cup
       (IF worker[w].job[2] \in Dead THEN {} ELSE {taken \cup {worker[w].job}})
  /\ worker' = AfterError(w)
  /\ UNCHANGED <<hooks, fresh, emit, history, queue, stop>>

\* The backoff has passed.
Retry(w) ==
  /\ worker[w].pc = "backoff" /\ ~stop
  /\ worker' = [worker EXCEPT ![w] = [pc |-> "attempt", job |-> worker[w].job, n |-> worker[w].n + 1]]
  /\ UNCHANGED <<hooks, fresh, emit, history, queue, stop, tries, taken>>

AbandonLast(w) ==
  /\ worker[w].pc = "backoff" /\ stop /\ worker[w].n = MaxAttempts
  /\ worker' = [worker EXCEPT ![w] = Idle]
  /\ UNCHANGED <<hooks, fresh, emit, history, queue, stop, tries, taken>>

\* Close cuts the backoff short and the job is lost.
Abandon(w) ==
  /\ worker[w].pc = "backoff" /\ stop
  /\ worker' = [worker EXCEPT ![w] = Idle]
  /\ UNCHANGED <<hooks, fresh, emit, history, queue, stop, tries, taken>>

\* Close; it returns when every worker is gone.
Close ==
  /\ ~stop
  /\ stop' = TRUE
  /\ UNCHANGED <<hooks, fresh, emit, history, queue, worker, tries, taken>>

Next ==
  \/ \E h \in Hooks : CreateWebhook(h)
  \/ \E h \in Hooks : DeleteWebhook(h)
  \/ \E g \in Sources : Fire(g)
  \/ \E g \in Sources : RecordEvent(g)
  \/ \E g \in Sources : ListWebhooks(g)
  \/ \E g \in Sources : Enqueue(g)
  \/ \E g \in Sources : FannedOut(g)
  \/ \E w \in Workers : Receive(w)
  \/ \E w \in Workers : Return(w)
  \/ \E w \in Workers : Accepted(w)
  \/ \E w \in Workers : Errored(w)
  \/ \E w \in Workers : Retry(w)
  \/ \E w \in Workers : Abandon(w)
  \/ Close

Spec == Init /\ [][Next]_vars

\* Workers run, the timeout of an attempt and the timer of a backoff fire.
WorkersRun ==
  \A w \in Workers :
    /\ WF_vars(Receive(w)) /\ WF_vars(Return(w))
    /\ WF_vars(Accepted(w) \/ Errored(w))
    /\ WF_vars(Retry(w)) /\ WF_vars(Abandon(w))

FairSpec == Spec /\ WorkersRun

-----------------------------------------------------------------------------
(* Properties *)

Emitting == [pc : {"none", "record", "list", "fan", "done"}, at : Nat, todo : Seq(Hooks)]
Working == [pc : {"idle", "attempt", "backoff", "gone"}, job : Jobs \cup {None}, n : 0..MaxAttempts]

\* Every variable keeps its type; the queue and the history stay within their
\* bounds and an attempt carries a number up to MaxAttempts.
TypeOK ==
  /\ hooks \in Seq(Hooks) /\ fresh \subseteq Hooks \ Range(hooks)
  /\ emit \in [Sources -> Emitting]
  /\ \A g \in Sources : emit[g].at <= Len(Batch[g])
  /\ history \in Seq(Events) /\ Len(history) <= MaxTenantEvents
  /\ queue \in Seq(Jobs) /\ Len(queue) <= Queue
  /\ worker \in [Workers -> Working]
  /\ stop \in BOOLEAN /\ tries \in [Jobs -> Nat] /\ taken \subseteq Jobs

\* The jobs that will still be attempted, unless Close comes first.
Pending == Range(queue) \cup {worker[w].job : w \in {v \in Workers : worker[v].job # None}}

\* The history comes first: what an endpoint was sent, or is about to be sent, can
\* be read there, unless the history is full and newer events have pushed it out.
OnRecordFirst ==
  \A j \in Jobs : j \in Pending \/ tries[j] > 0 =>
    j[1] \in Range(history) \/ Len(history) = MaxTenantEvents

\* No job is in two places.
Unique ==
  /\ Distinct(queue)
  /\ \A v, w \in Workers : v # w /\ worker[v].job # None => worker[v].job # worker[w].job

\* The attempts made of a job are those its place says.
Counts ==
  /\ \A i \in DOMAIN queue : tries[queue[i]] = 0
  /\ \A w \in Workers :
       worker[w].job # None => tries[worker[w].job] = worker[w].n - (IF worker[w].pc = "attempt" THEN 1 ELSE 0)
  /\ \A j \in Jobs : tries[j] <= MaxAttempts

\* One delivery schedule per event and endpoint: no job is ever in two places or
\* taken up again once it is over, so an endpoint sees an event id at most
\* MaxAttempts times; and the queue and the history keep to their bounds.
OneSchedule == TypeOK /\ Unique /\ Counts

\* The inductive invariant.  A job is ahead of its goroutine until the fan-out passes
\* its webhook; a worker holds one while it works on it; an event is kept once it
\* is recorded.
Ahead(j) ==
  LET m == emit[j[1][1]] IN
    \/ j[1][2] > m.at
    \/ j[1][2] = m.at /\ m.pc \in {"record", "list"}
    \/ j[1][2] = m.at /\ m.pc = "fan" /\ j[2] \in Range(m.todo)

Shaped(x) ==
  \/ x.pc \in {"idle", "gone"} /\ x.job = None
  \/ x.pc = "attempt" /\ x.job \in Jobs /\ x.n \in 1..MaxAttempts
  \/ x.pc = "backoff" /\ x.job \in Jobs /\ x.n \in 1..(MaxAttempts - 1)

Snapshots ==
  /\ Distinct(hooks)
  /\ \A g \in Sources : /\ Distinct(emit[g].todo)
                        /\ emit[g].pc \in {"record", "list", "fan"} => emit[g].at > 0

Hands == \A w \in Workers : Shaped(worker[w]) /\ worker[w].job \notin Range(queue)

Untouched == \A j \in Jobs : Ahead(j) => j \notin Pending /\ tries[j] = 0

Scheduled == OneSchedule /\ Snapshots /\ Hands /\ Untouched

Kept(e) == e \in Range(history) \/ Len(history) = MaxTenantEvents

Recorded ==
  /\ \A g \in Sources : emit[g].pc \in {"list", "fan"} => Kept(Event(g))
  /\ \A j \in Jobs : j \in Pending \/ tries[j] > 0 => Kept(j[1])

\* A dead endpoint delays the others for a bounded number of attempts only: what is
\* queued for a live one is attempted, unless the dispatcher is closed.
OthersGetTheirs ==
  \A j \in Events \X (Hooks \ Dead) : j \in Range(queue) ~> tries[j] > 0 \/ stop

\* Close returns.
CloseReturns == stop ~> \A w \in Workers : worker[w].pc = "gone"
=============================================================================
