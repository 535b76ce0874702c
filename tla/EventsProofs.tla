----------------------------- MODULE EventsProofs -----------------------------
(***************************************************************************)
(* The webhook dispatcher for every set of callbacks, batches and          *)
(* webhooks, every pool of workers and every bound of the queue, the       *)
(* history and the attempts: one schedule for an event and an endpoint,    *)
(* and the history before either.                                          *)
(***************************************************************************)
EXTENDS Events, TLAPS

-----------------------------------------------------------------------------
(* Lists *)

\* What is left of a list once its head is taken.
LEMMA TailFacts ==
  ASSUME NEW S, NEW s \in Seq(S), s # <<>>
  PROVE  /\ Head(s) \in S /\ Tail(s) \in Seq(S) /\ Len(Tail(s)) = Len(s) - 1
         /\ Range(s) = {Head(s)} \cup Range(Tail(s))
         /\ Distinct(s) => Distinct(Tail(s)) /\ Head(s) \notin Range(Tail(s))
<1>1. /\ Head(s) \in S /\ Tail(s) \in Seq(S) /\ Len(Tail(s)) = Len(s) - 1
      /\ Head(s) = s[1] /\ 1 \in DOMAIN s
      /\ \A i \in DOMAIN Tail(s) : i + 1 \in DOMAIN s /\ i + 1 # 1 /\ Tail(s)[i] = s[i + 1]
      /\ \A i \in DOMAIN s : i = 1 \/ (i - 1 \in DOMAIN Tail(s) /\ s[i] = Tail(s)[i - 1])
  OBVIOUS
<1>2. Range(s) = {Head(s)} \cup Range(Tail(s))
  <2>1. ASSUME NEW y \in Range(s) PROVE y = Head(s) \/ y \in Range(Tail(s))
    <3>1. PICK i \in DOMAIN s : y = s[i]
      BY Zenon DEF Range
    <3> QED  BY <1>1, <3>1, Zenon DEF Range
  <2>2. \A y \in Range(Tail(s)) : y \in Range(s)
    BY <1>1 DEF Range
  <2>3. Head(s) \in Range(s)
    BY <1>1, Zenon DEF Range
  <2> QED  BY <2>1, <2>2, <2>3, Zenon
<1>3. ASSUME Distinct(s) PROVE Distinct(Tail(s)) /\ Head(s) \notin Range(Tail(s))
  <2>1. Head(s) \notin Range(Tail(s))
    BY <1>1, <1>3 DEF Range, Distinct
  <2>2. \A i, k \in DOMAIN Tail(s) : i # k => i + 1 # k + 1
    BY <1>1
  <2>3. Distinct(Tail(s))
    BY <1>1, <1>3, <2>2 DEF Distinct
  <2> QED  BY <2>1, <2>3, Zenon
<1> QED  BY <1>1, <1>2, <1>3, Zenon

\* A list that has grown by one.
LEMMA AppendFacts ==
  ASSUME NEW S, NEW s \in Seq(S), NEW x \in S
  PROVE  /\ Append(s, x) \in Seq(S) /\ Len(Append(s, x)) = Len(s) + 1
         /\ Range(Append(s, x)) = Range(s) \cup {x}
         /\ Distinct(s) /\ x \notin Range(s) => Distinct(Append(s, x))
<1>1. /\ Append(s, x) \in Seq(S) /\ Len(Append(s, x)) = Len(s) + 1
      /\ \A i \in DOMAIN s : i \in DOMAIN Append(s, x) /\ Append(s, x)[i] = s[i]
      /\ Len(s) + 1 \in DOMAIN Append(s, x) /\ Append(s, x)[Len(s) + 1] = x
      /\ \A i \in DOMAIN Append(s, x) : i \in DOMAIN s \/ i = Len(s) + 1
  OBVIOUS
<1>2. Range(Append(s, x)) = Range(s) \cup {x}
  BY <1>1, Zenon DEF Range
<1>3. Distinct(s) /\ x \notin Range(s) => Distinct(Append(s, x))
  BY <1>1, Zenon DEF Range, Distinct
<1> QED  BY <1>1, <1>2, <1>3, Zenon

\* A list without the element at one place.
LEMMA RemoveFacts ==
  ASSUME NEW S, NEW s \in Seq(S), NEW i \in DOMAIN s, NEW r,
         r = [k \in 1..(Len(s) - 1) |-> IF k < i THEN s[k] ELSE s[k + 1]]
  PROVE  /\ r \in Seq(S) /\ Range(r) \subseteq Range(s)
         /\ Distinct(s) => Distinct(r)
<1>5. DOMAIN r = 1..(Len(s) - 1) /\ DOMAIN s = 1..Len(s) /\ Len(s) - 1 \in Nat
  OBVIOUS
<1>4. \A k \in DOMAIN r : r[k] = s[IF k < i THEN k ELSE k + 1] /\ (IF k < i THEN k ELSE k + 1) \in DOMAIN s
  BY <1>5
<1>3. r \in Seq(S)
  BY <1>4, <1>5
<1>6. Range(r) \subseteq Range(s)
  BY <1>4, Zenon DEF Range
<1>7. Distinct(s) => Distinct(r)
  <2> SUFFICES ASSUME Distinct(s), NEW k \in DOMAIN r, NEW l \in DOMAIN r, k # l PROVE r[k] # r[l]
    BY Zenon DEF Distinct
  <2> DEFINE p(x) == IF x < i THEN x ELSE x + 1
  <2>1. p(k) \in DOMAIN s /\ p(l) \in DOMAIN s /\ p(k) # p(l)
    BY <1>5
  <2>2. r[k] = s[p(k)] /\ r[l] = s[p(l)]
    BY <1>4, <1>5, Zenon
  <2> QED  BY <2>1, <2>2, Zenon DEF Distinct
<1> QED  BY <1>3, <1>6, <1>7, Zenon

-----------------------------------------------------------------------------
(* The dispatcher *)

\* An event is a place in a callback's batch.
LEMMA EventFacts ==
  /\ \A g \in Sources : \A k \in 1..Len(Batch[g]) : <<g, k>> \in Events
  /\ \A e \in Events : /\ e = <<e[1], e[2]>> /\ e[1] \in Sources
                       /\ e[2] \in 1..Len(Batch[e[1]])
  BY DEF Events

\* A job is an event and a webhook.
LEMMA JobFacts ==
  /\ \A e \in Events, h \in Hooks : <<e, h>> \in Jobs
  /\ \A j \in Jobs : j = <<j[1], j[2]>> /\ j[1] \in Events /\ j[2] \in Hooks
  BY DEF Jobs

\* The next event of a batch.
LEMMA NextEventFacts ==
  ASSUME TypeOK, NEW g \in Sources
  PROVE  /\ NextEvent(g) \in Emitting /\ NextEvent(g).at <= Len(Batch[g])
         /\ NextEvent(g).todo = <<>>
         /\ \/ NextEvent(g).pc = "record" /\ NextEvent(g).at = emit[g].at + 1
            \/ NextEvent(g).pc = "done" /\ NextEvent(g).at = emit[g].at /\ emit[g].at = Len(Batch[g])
<1>1. Len(Batch[g]) \in Nat /\ emit[g].at \in Nat /\ emit[g].at <= Len(Batch[g])
  BY EventsSettings DEF TypeOK, Emitting
<1> QED  BY <1>1 DEF NextEvent, Emitting

\* The parts of the invariant.
LEMMA Parts ==
  Scheduled <=> TypeOK /\ Unique /\ Counts /\ Snapshots /\ Hands /\ Untouched
  BY Zenon DEF Scheduled, OneSchedule

\* A goroutine that moves on, without a job made, keeps the invariant if no job comes
\* back before it and its event is recorded by the time it reads the webhooks.
LEMMA MovesOn ==
  ASSUME Scheduled, Recorded, NEW g \in Sources, NEW m \in Emitting,
         emit' = [emit EXCEPT ![g] = m], m.at <= Len(Batch[g]), Distinct(m.todo),
         m.pc \in {"record", "list", "fan"} => m.at > 0,
         \/ m.at > emit[g].at
         \/ m.at = emit[g].at /\ m.pc \in {"done", "fan"} /\ m.todo = <<>>
         \/ m.at = emit[g].at /\ emit[g].pc \in {"record", "list"},
         history' \in Seq(Events), Len(history') <= MaxTenantEvents,
         \A e : Kept(e) => Kept(e)',
         m.pc \in {"list", "fan"} => Kept(<<g, m.at>>)',
         UNCHANGED <<hooks, fresh, queue, worker, stop, tries, taken>>
  PROVE  Scheduled' /\ Recorded'
<1>0. TypeOK /\ Unique /\ Counts /\ Snapshots /\ Hands /\ Untouched
  BY Parts, Zenon
<1>1. emit \in [Sources -> Emitting]
  BY <1>0, Zenon DEF TypeOK
<1>2. /\ emit' \in [Sources -> Emitting] /\ emit'[g] = m
      /\ \A f \in Sources : f # g => emit'[f] = emit[f]
  BY <1>1, Zenon
<1>3. \A f \in Sources : emit'[f].at <= Len(Batch[f])
  BY <1>0, <1>2, Zenon DEF TypeOK
<1>4. TypeOK'
  BY <1>0, <1>2, <1>3, Zenon DEF TypeOK
<1>5. Unique' /\ Counts' /\ Snapshots' /\ Hands'
  <2>1. Unique' /\ Counts'
    BY <1>0, Zenon DEF Unique, Counts
  <2>2. Snapshots'
    BY <1>0, <1>2, Zenon DEF Snapshots
  <2>3. Hands'
    BY <1>0, Zenon DEF Hands, Shaped
  <2> QED  BY <2>1, <2>2, <2>3, Zenon
<1>6. ASSUME NEW j \in Jobs, Ahead(j)' PROVE Ahead(j)
  <2>1. j[1][1] \in Sources /\ j[1][2] \in Nat
    BY EventFacts, JobFacts, EventsSettings
  <2>2. CASE j[1][1] # g
    BY <1>2, <1>6, <2>1, <2>2, Zenon DEF Ahead
  <2>3. CASE j[1][1] = g
    <3>1. \/ j[1][2] > m.at
          \/ j[1][2] = m.at /\ m.pc \in {"record", "list"}
          \/ j[1][2] = m.at /\ m.pc = "fan" /\ j[2] \in Range(m.todo)
      BY <1>2, <1>6, <2>3, Zenon DEF Ahead
    <3>2. m.at \in Nat /\ emit[g].at \in Nat
      BY <1>1, Zenon DEF Emitting
    <3>3. m.todo = <<>> => Range(m.todo) = {}
      BY DEF Range
    <3>4. j[1][2] >= m.at
      BY <2>1, <3>1, <3>2
    <3>5. CASE m.at > emit[g].at
      BY <2>1, <2>3, <3>2, <3>4, <3>5 DEF Ahead
    <3>6. CASE m.at = emit[g].at /\ m.pc \in {"done", "fan"} /\ m.todo = <<>>
      BY <2>3, <3>1, <3>3, <3>6, Zenon DEF Ahead
    <3>7. CASE m.at = emit[g].at /\ emit[g].pc \in {"record", "list"}
      BY <2>1, <2>3, <3>2, <3>4, <3>7 DEF Ahead
    <3> QED  BY <3>5, <3>6, <3>7, Zenon
  <2> QED  BY <2>2, <2>3, Zenon
<1>7. Pending' = Pending
  BY Zenon DEF Pending
<1>8. Scheduled'
  <2>1. Untouched'
    BY <1>0, <1>6, <1>7, Zenon DEF Untouched
  <2> QED  BY <1>4, <1>5, <2>1, Zenon DEF Scheduled, OneSchedule
<1>9. ASSUME NEW f \in Sources, emit'[f].pc \in {"list", "fan"} PROVE Kept(Event(f))'
  <2>1. CASE f = g
    <3>1. Event(f)' = <<g, m.at>>
      BY <1>2, <2>1, Zenon DEF Event
    <3> QED  BY <1>2, <1>9, <2>1, <3>1, Zenon DEF Kept
  <2>2. CASE f # g
    <3>1. Event(f)' = Event(f) /\ emit[f].pc \in {"list", "fan"}
      BY <1>2, <1>9, <2>2, Zenon DEF Event
    <3>2. Kept(Event(f))
      BY <3>1, Zenon DEF Recorded
    <3> QED  BY <3>1, <3>2, Zenon DEF Kept
  <2> QED  BY <2>1, <2>2, Zenon
<1>10. Recorded'
  BY <1>7, <1>9, Zenon DEF Recorded
<1> QED  BY <1>8, <1>10, Zenon

\* What is kept stays kept, or is pushed out by newer events; the one just recorded is
\* kept.
LEMMA KeptStays ==
  ASSUME TypeOK, NEW e \in Events, history' = Remembered(history, e)
  PROVE  /\ history' \in Seq(Events) /\ Len(history') <= MaxTenantEvents
         /\ Kept(e)' /\ \A x : Kept(x) => Kept(x)'
<1> DEFINE all == Append(history, e)
<1>1. MaxTenantEvents \in Nat \ {0} /\ history \in Seq(Events) /\ Len(history) <= MaxTenantEvents
  BY EventsSettings, Zenon DEF TypeOK
<1>2. all \in Seq(Events) /\ Len(all) = Len(history) + 1 /\ Range(all) = Range(history) \cup {e}
  BY <1>1, AppendFacts
<1>3. CASE Len(all) > MaxTenantEvents
  <2> HIDE DEF all
  <2>1. history' = SubSeq(all, Len(all) - MaxTenantEvents + 1, Len(all))
    BY <1>3, Zenon DEF Remembered, all
  <2>2. history' \in Seq(Events) /\ Len(history') = MaxTenantEvents
    BY <1>1, <1>2, <1>3, <2>1
  <2> QED  BY <1>1, <2>2 DEF Kept
<1>4. CASE ~(Len(all) > MaxTenantEvents)
  <2>1. history' = all
    BY <1>4, Zenon DEF Remembered
  <2> HIDE DEF all
  <2>2. Len(history) # MaxTenantEvents /\ Len(history') <= MaxTenantEvents
    BY <1>1, <1>2, <1>4, <2>1
  <2> QED  BY <1>2, <2>1, <2>2, Zenon DEF Kept
<1> QED  BY <1>3, <1>4, Zenon

\* A goroutine that fires, records, reads the webhooks or goes on to its next event.
LEMMA EmitKeeps ==
  ASSUME Scheduled, Recorded, NEW g \in Sources,
         Fire(g) \/ RecordEvent(g) \/ ListWebhooks(g) \/ FannedOut(g)
  PROVE  Scheduled' /\ Recorded'
<1>0. TypeOK /\ Snapshots
  BY Parts, Zenon
<1>1. TypeOK /\ emit \in [Sources -> Emitting] /\ emit[g].at <= Len(Batch[g])
  BY <1>0, Zenon DEF TypeOK
<1>2. emit[g].at \in Nat /\ (emit[g].pc \in {"record", "list", "fan"} => emit[g].at > 0)
  BY <1>0, <1>1, Zenon DEF Emitting, Snapshots
<1>3. history \in Seq(Events) /\ Len(history) <= MaxTenantEvents
  BY <1>0, Zenon DEF TypeOK
<1>4. Distinct(<<>>) /\ Distinct(hooks) /\ hooks \in Seq(Hooks)
  BY <1>0 DEF Distinct, Snapshots, TypeOK
<1>5. CASE Fire(g) \/ FannedOut(g)
  <2>1. emit' = [emit EXCEPT ![g] = NextEvent(g)]
    BY <1>5, Zenon DEF Fire, FannedOut
  <2>2. UNCHANGED <<hooks, fresh, history, queue, worker, stop, tries, taken>>
    BY <1>5, Zenon DEF Fire, FannedOut
  <2>3. NextEvent(g).at > emit[g].at \/ (NextEvent(g).at = emit[g].at /\ NextEvent(g).pc \in {"done", "fan"})
    BY <1>1, <1>2, NextEventFacts
  <2>4. \A e : Kept(e) => Kept(e)'
    BY <2>2, Zenon DEF Kept
  <2>5. NextEvent(g).pc \notin {"list", "fan"}
    BY <1>1, NextEventFacts, Zenon
  <2>6. /\ NextEvent(g) \in Emitting /\ NextEvent(g).at <= Len(Batch[g])
        /\ NextEvent(g).todo = <<>> /\ Distinct(NextEvent(g).todo)
        /\ NextEvent(g).pc \in {"record", "list", "fan"} => NextEvent(g).at > 0
    BY <1>1, <1>2, <1>4, NextEventFacts
  <2> QED  BY <1>3, <2>1, <2>2, <2>3, <2>4, <2>5, <2>6, MovesOn, Zenon
<1>6. CASE RecordEvent(g)
  <2> DEFINE m == [pc |-> "list", at |-> emit[g].at, todo |-> <<>>]
  <2>1. emit[g].pc = "record" /\ emit' = [emit EXCEPT ![g] = m]
    BY <1>6, Zenon DEF RecordEvent
  <2>2. UNCHANGED <<hooks, fresh, queue, worker, stop, tries, taken>> /\ history' = Remembered(history, <<g, emit[g].at>>)
    BY <1>6, Zenon DEF RecordEvent, Event
  <2>3. <<g, emit[g].at>> \in Events
    BY <1>1, <1>2, <2>1, EventFacts, EventsSettings
  <2>4. /\ m \in Emitting /\ m.at = emit[g].at /\ m.todo = <<>> /\ m.pc = "list"
    BY <1>2 DEF Emitting
  <2> HIDE DEF m
  <2>5. PICK a : a = emit[g].at
    BY Zenon
  <2>6. /\ history' \in Seq(Events) /\ Len(history') <= MaxTenantEvents
        /\ Kept(<<g, a>>)' /\ \A x : Kept(x) => Kept(x)'
    BY <1>1, <2>2, <2>3, <2>5, KeptStays, Zenon
  <2> QED  BY <1>1, <1>2, <1>4, <2>1, <2>2, <2>4, <2>5, <2>6, MovesOn, Zenon
<1>7. CASE ListWebhooks(g)
  <2> DEFINE m == [pc |-> "fan", at |-> emit[g].at, todo |-> hooks]
  <2>1. emit[g].pc = "list" /\ emit' = [emit EXCEPT ![g] = m]
    BY <1>7, Zenon DEF ListWebhooks
  <2>2. UNCHANGED <<hooks, fresh, history, queue, worker, stop, tries, taken>>
    BY <1>7, Zenon DEF ListWebhooks
  <2>4. /\ m \in Emitting /\ m.at = emit[g].at /\ m.todo = hooks /\ m.pc = "fan"
    BY <1>2, <1>4, Zenon DEF Emitting
  <2> HIDE DEF m
  <2>5. PICK a : a = emit[g].at
    BY Zenon
  <2>6. \A x : Kept(x) => Kept(x)'
    BY <2>2, Zenon DEF Kept
  <2>7. Kept(<<g, a>>)'
    BY <2>1, <2>5, <2>6, Zenon DEF Recorded, Event
  <2> QED  BY <1>1, <1>2, <1>3, <1>4, <2>1, <2>2, <2>4, <2>5, <2>6, <2>7, MovesOn, Zenon
<1> QED  BY <1>5, <1>6, <1>7, Zenon

\* A worker that goes on with its job, or puts it down, keeps the invariant if its
\* count of attempts stays right and no other job is counted.
LEMMA WorksOn ==
  ASSUME Scheduled, Recorded, NEW w \in Workers, NEW x \in Working,
         worker' = [worker EXCEPT ![w] = x], Shaped(x), x.job = None \/ x.job = worker[w].job,
         tries' \in [Jobs -> Nat],
         \A j \in Jobs : tries'[j] <= MaxAttempts /\ (j # worker[w].job => tries'[j] = tries[j]),
         x.job # None => tries'[x.job] = x.n - (IF x.pc = "attempt" THEN 1 ELSE 0),
         taken' \subseteq Jobs,
         UNCHANGED <<hooks, fresh, emit, history, queue, stop>>
  PROVE  Scheduled' /\ Recorded'
<1>0. TypeOK /\ Unique /\ Counts /\ Snapshots /\ Hands /\ Untouched
  BY Parts, Zenon
<1>1. worker \in [Workers -> Working] /\ queue \in Seq(Jobs)
  BY <1>0, Zenon DEF TypeOK
<1>2. /\ worker' \in [Workers -> Working] /\ worker'[w] = x
      /\ \A v \in Workers : v # w => worker'[v] = worker[v]
  BY <1>1, Zenon
<1>3. TypeOK'
  BY <1>0, <1>2, Zenon DEF TypeOK
<1>4. \A i \in DOMAIN queue : queue[i] \in Jobs /\ queue[i] \in Range(queue)
  BY <1>1 DEF Range
<1>5. \A v \in Workers : worker[v].job \notin Range(queue) /\ Shaped(worker[v])
  BY <1>0, Zenon DEF Hands
<1>6. \A i \in DOMAIN queue : tries'[queue[i]] = 0
  BY <1>0, <1>4, <1>5, Zenon DEF Counts
<1>7. \A v \in Workers : v # w /\ worker[v].job # None => worker[v].job # worker[w].job /\ worker[v].job \in Jobs
  <2>1. \A v \in Workers : worker[v].job \in Jobs \cup {None}
    BY <1>1, Zenon DEF Working
  <2> QED  BY <1>0, <2>1, Zenon DEF Unique
<1>8. \A v \in Workers : worker'[v].job # None =>
        tries'[worker'[v].job] = worker'[v].n - (IF worker'[v].pc = "attempt" THEN 1 ELSE 0)
  <2> SUFFICES ASSUME NEW v \in Workers, worker'[v].job # None
               PROVE tries'[worker'[v].job] = worker'[v].n - (IF worker'[v].pc = "attempt" THEN 1 ELSE 0)
    BY Zenon
  <2>1. CASE v = w
    BY <1>2, <2>1, Zenon
  <2>2. CASE v # w
    <3>1. worker'[v] = worker[v] /\ tries'[worker[v].job] = tries[worker[v].job]
      BY <1>2, <1>7, <2>2, Zenon
    <3>2. tries[worker[v].job] = worker[v].n - (IF worker[v].pc = "attempt" THEN 1 ELSE 0)
      BY <1>0, <3>1, Zenon DEF Counts
    <3> QED  BY <3>1, <3>2, Zenon
  <2> QED  BY <2>1, <2>2, Zenon
<1>9. \A u, v \in Workers : u # v /\ worker'[u].job # None => worker'[u].job # worker'[v].job
  BY <1>0, <1>2, <1>7 DEF Unique
<1>10. Unique' /\ Counts' /\ Snapshots'
  BY <1>0, <1>6, <1>8, <1>9, Zenon DEF Unique, Counts, Snapshots
<1>11. Hands'
  <2>1. None \notin Range(queue)
    BY <1>1, EventsSettings DEF Range
  <2> QED  BY <1>2, <1>5, <2>1, Zenon DEF Hands, Shaped
<1>12. \A j \in Jobs : j \in Pending' => j \in Pending
  BY <1>2 DEF Pending
<1>13. \A j \in Jobs : tries'[j] = tries[j] \/ j \in Pending
  BY EventsSettings, Zenon DEF Pending
<1>14. \A j \in Jobs : Ahead(j)' => Ahead(j)
  BY Zenon DEF Ahead
<1>15. \A j \in Jobs : Ahead(j)' => j \notin Pending' /\ tries'[j] = 0
  BY <1>0, <1>12, <1>13, <1>14, Zenon DEF Untouched
<1>16. Scheduled'
  BY <1>3, <1>10, <1>11, <1>15, Zenon DEF Scheduled, OneSchedule, Untouched
<1>17. \A j \in Jobs : j \in Pending' \/ tries'[j] > 0 => Kept(j[1])
  BY <1>12, <1>13, Zenon DEF Recorded
<1>18. Recorded'
  BY <1>17, Zenon DEF Recorded, Kept, Event
<1> QED  BY <1>16, <1>18, Zenon

\* A worker that returns, hears from an endpoint, retries or is told to stop.
LEMMA WorkKeeps ==
  ASSUME Scheduled, Recorded, NEW w \in Workers,
         Return(w) \/ Accepted(w) \/ Errored(w) \/ Retry(w) \/ Abandon(w)
  PROVE  Scheduled' /\ Recorded'
<1> DEFINE x == worker[w]
<1>0. TypeOK /\ Counts /\ Hands
  BY Parts, Zenon
<1>1. worker \in [Workers -> Working] /\ x \in Working /\ Shaped(x)
  BY <1>0, Zenon DEF TypeOK, Hands
<1>2. tries \in [Jobs -> Nat] /\ taken \subseteq Jobs /\ MaxAttempts \in Nat \ {0} /\ \A j \in Jobs : tries[j] <= MaxAttempts
  BY <1>0, EventsSettings, Zenon DEF TypeOK, Counts
<1>3. x.pc \in {"attempt", "backoff"} => /\ x.job \in Jobs /\ x.n \in 1..MaxAttempts
                                         /\ tries[x.job] = x.n - (IF x.pc = "attempt" THEN 1 ELSE 0)
                                         /\ x.pc = "backoff" => x.n < MaxAttempts
  <2>1. x.pc \in {"attempt", "backoff"} => x.job \in Jobs /\ x.n \in 1..MaxAttempts /\ (x.pc = "backoff" => x.n < MaxAttempts)
    BY <1>1, <1>2 DEF Shaped
  <2>2. x.job \in Jobs => x.job # None
    BY EventsSettings, Zenon
  <2> QED  BY <1>0, <2>1, <2>2, Zenon DEF Counts
<1>4. None \notin Jobs
  BY EventsSettings, Zenon
<1>5. \A p \in {"idle", "gone"} : LET y == [pc |-> p, job |-> None, n |-> 0] IN y \in Working /\ Shaped(y) /\ y.job = None
  BY <1>2 DEF Working, Shaped
<1>6. CASE Return(w)
  BY <1>2, <1>5, <1>6, WorksOn, Zenon DEF Return
<1>7. CASE Abandon(w)
  BY <1>2, <1>5, <1>7, WorksOn, Zenon DEF Abandon, Idle
<1>8. CASE Retry(w)
  <2> DEFINE y == [pc |-> "attempt", job |-> x.job, n |-> x.n + 1]
  <2>1. x.pc = "backoff" /\ worker' = [worker EXCEPT ![w] = y] /\ UNCHANGED <<hooks, fresh, emit, history, queue, stop, tries, taken>>
    BY <1>8, Zenon DEF Retry
  <2>2. y \in Working /\ Shaped(y) /\ y.job = x.job /\ y.n = x.n + 1 /\ y.pc = "attempt"
    BY <1>2, <1>3, <2>1 DEF Working, Shaped
  <2>3. tries[x.job] = y.n - (IF y.pc = "attempt" THEN 1 ELSE 0)
    BY <1>2, <1>3, <2>1, <2>2
  <2> HIDE DEF y
  <2> QED  BY <1>2, <2>1, <2>2, <2>3, WorksOn, Zenon
<1>9. ASSUME Attempted(w), x.pc = "attempt"
      PROVE  /\ tries' \in [Jobs -> Nat] /\ tries'[x.job] = x.n
             /\ \A j \in Jobs : tries'[j] <= MaxAttempts /\ (j # x.job => tries'[j] = tries[j])
  <2>1. tries' = [tries EXCEPT ![x.job] = tries[x.job] + 1]
    <3>1. ~(tries[x.job] > MaxAttempts)
      BY <1>2, <1>3, <1>9
    <3>2. tries' = [tries EXCEPT ![x.job] = IF tries[x.job] > MaxAttempts THEN tries[x.job] ELSE tries[x.job] + 1]
      BY <1>9, Zenon DEF Attempted
    <3> QED  BY <3>1, <3>2, Zenon
  <2>2. tries[x.job] + 1 = x.n
    BY <1>2, <1>3, <1>9
  <2> QED  BY <1>2, <1>3, <1>9, <2>1, <2>2
<1>10. CASE Accepted(w)
  <2>1. x.pc = "attempt" /\ Attempted(w) /\ worker' = [worker EXCEPT ![w] = Idle] /\ taken' = taken \cup {x.job}
    BY <1>10, Zenon DEF Accepted
  <2>2. taken' \subseteq Jobs /\ Idle \in Working /\ Shaped(Idle) /\ Idle.job = None
    BY <1>2, <1>3, <1>5, <2>1, Zenon DEF Idle
  <2> QED  BY <1>9, <1>10, <2>1, <2>2, WorksOn, Zenon DEF Accepted
<1>11. CASE Errored(w)
  <2>1. x.pc = "attempt" /\ Attempted(w) /\ worker' = AfterError(w) /\ UNCHANGED <<hooks, fresh, emit, history, queue, stop>>
    BY <1>11, Zenon DEF Errored
  <2>2. taken' \subseteq Jobs
    BY <1>2, <1>3, <1>11, <2>1, Zenon DEF Errored
  <2>3. CASE x.n = MaxAttempts
    <3>1. worker' = [worker EXCEPT ![w] = Idle] /\ Idle \in Working /\ Shaped(Idle) /\ Idle.job = None
      BY <1>5, <2>1, <2>3, Zenon DEF AfterError, Idle
    <3> QED  BY <1>9, <2>1, <2>2, <3>1, WorksOn, Zenon
  <2>4. CASE x.n # MaxAttempts
    <3> DEFINE y == Waiting(w)
    <3>1. worker' = [worker EXCEPT ![w] = y]
      BY <2>1, <2>4, Zenon DEF AfterError
    <3>2. y \in Working /\ Shaped(y) /\ y.job = x.job /\ y.n = x.n /\ y.pc = "backoff"
      BY <1>2, <1>3, <2>1, <2>4 DEF Working, Shaped, Waiting
    <3> HIDE DEF y
    <3>3. tries'[y.job] = y.n - (IF y.pc = "attempt" THEN 1 ELSE 0)
      BY <1>9, <1>3, <2>1, <3>2
    <3> QED  BY <1>9, <2>1, <2>2, <3>1, <3>2, <3>3, WorksOn, Zenon
  <2> QED  BY <2>3, <2>4, Zenon
<1> QED  BY <1>6, <1>7, <1>8, <1>10, <1>11, Zenon

\* A worker that takes up the oldest job of the queue.
LEMMA ReceiveKeeps ==
  ASSUME Scheduled, Recorded, NEW w \in Workers, Receive(w)
  PROVE  Scheduled' /\ Recorded'
<1> DEFINE q == Head(queue)
           x == [pc |-> "attempt", job |-> q, n |-> 1]
<1>0. TypeOK /\ Unique /\ Counts /\ Snapshots /\ Hands /\ Untouched
  BY Parts, Zenon
<1>1. worker \in [Workers -> Working] /\ queue \in Seq(Jobs) /\ queue # <<>>
  BY <1>0, Zenon DEF TypeOK, Receive
<1>2. /\ q \in Jobs /\ queue' = Tail(queue) /\ queue' \in Seq(Jobs) /\ Len(queue') = Len(queue) - 1
      /\ Range(queue) = {q} \cup Range(queue') /\ Distinct(queue') /\ q \notin Range(queue')
  BY <1>0, <1>1, TailFacts, Zenon DEF Receive, Unique
<1>3. x \in Working /\ Shaped(x) /\ x.job = q /\ x.n = 1 /\ x.pc = "attempt"
  BY <1>2, EventsSettings DEF Working, Shaped
<1>4. worker' = [worker EXCEPT ![w] = x] /\ UNCHANGED <<hooks, fresh, emit, history, stop, tries, taken>>
  BY Zenon DEF Receive
<1> HIDE DEF x, q
<1>5. /\ worker' \in [Workers -> Working] /\ worker'[w] = x
      /\ \A v \in Workers : v # w => worker'[v] = worker[v]
  BY <1>1, <1>3, <1>4, Zenon
<1>6. \A v \in Workers : worker[v].job \notin Range(queue) /\ Shaped(worker[v])
  BY <1>0, Zenon DEF Hands
<1>7. TypeOK'
  <2>1. Len(queue') <= Queue
    BY <1>0, <1>1, <1>2, EventsSettings DEF TypeOK
  <2> QED  BY <1>0, <1>2, <1>4, <1>5, <2>1, Zenon DEF TypeOK
<1>8. \A j \in Range(queue) : tries[j] = 0
  BY <1>0, Zenon DEF Counts, Range
<1>9. \A i \in DOMAIN queue' : tries[queue'[i]] = 0
  BY <1>2, <1>8, Zenon DEF Range
<1>10. \A u, v \in Workers : u # v /\ worker'[u].job # None => worker'[u].job # worker'[v].job
  <2> SUFFICES ASSUME NEW u \in Workers, NEW v \in Workers, u # v, worker'[u].job # None
               PROVE  worker'[u].job # worker'[v].job
    BY Zenon
  <2>1. CASE u = w
    BY <1>2, <1>3, <1>5, <1>6, <2>1, Zenon
  <2>2. CASE v = w
    BY <1>2, <1>3, <1>5, <1>6, <2>2, Zenon
  <2>3. CASE u # w /\ v # w
    BY <1>0, <1>5, <2>3, Zenon DEF Unique
  <2> QED  BY <2>1, <2>2, <2>3, Zenon
<1>11. \A v \in Workers : worker'[v].job # None =>
        tries[worker'[v].job] = worker'[v].n - (IF worker'[v].pc = "attempt" THEN 1 ELSE 0)
  <2> SUFFICES ASSUME NEW v \in Workers, worker'[v].job # None
               PROVE tries[worker'[v].job] = worker'[v].n - (IF worker'[v].pc = "attempt" THEN 1 ELSE 0)
    BY Zenon
  <2>1. CASE v = w
    BY <1>2, <1>3, <1>5, <1>8, <2>1
  <2>2. CASE v # w
    BY <1>0, <1>5, <2>2, Zenon DEF Counts
  <2> QED  BY <2>1, <2>2, Zenon
<1>12. Unique' /\ Counts' /\ Snapshots'
  BY <1>0, <1>2, <1>4, <1>9, <1>10, <1>11, Zenon DEF Unique, Counts, Snapshots
<1>13. Hands'
  BY <1>2, <1>3, <1>5, <1>6 DEF Hands, Shaped
<1>14. ASSUME NEW j \in Jobs, j \in Pending' PROVE j \in Pending
  <2>1. CASE j \in Range(queue')
    BY <1>2, <2>1, Zenon DEF Pending
  <2>2. CASE \E v \in Workers : worker'[v].job = j
    <3>1. PICK v \in Workers : worker'[v].job = j
      BY <2>2, Zenon
    <3>2. CASE v = w
      BY <1>2, <1>3, <1>5, <3>1, <3>2, Zenon DEF Pending
    <3>3. CASE v # w
      BY <1>5, <3>1, <3>3, EventsSettings, Zenon DEF Pending
    <3> QED  BY <3>2, <3>3, Zenon
  <2> QED  BY <1>14, <2>1, <2>2, Zenon DEF Pending
<1>15. Untouched'
  BY <1>0, <1>4, <1>14, Zenon DEF Untouched, Ahead
<1>16. Scheduled'
  BY <1>7, <1>12, <1>13, <1>15, Zenon DEF Scheduled, OneSchedule
<1>17. Recorded'
  BY <1>4, <1>14, Zenon DEF Recorded, Kept, Event
<1> QED  BY <1>16, <1>17, Zenon

\* The fan-out passes a webhook, with a job for it or without.
LEMMA EnqueueKeeps ==
  ASSUME Scheduled, Recorded, NEW g \in Sources, Enqueue(g)
  PROVE  Scheduled' /\ Recorded'
<1> DEFINE t == emit[g].todo
           a == emit[g].at
           j == <<<<g, a>>, Head(t)>>
           m == [pc |-> "fan", at |-> a, todo |-> Tail(t)]
<1>0. TypeOK /\ Unique /\ Counts /\ Snapshots /\ Hands /\ Untouched
  BY Parts, Zenon
<1>1. emit \in [Sources -> Emitting] /\ emit[g].pc = "fan" /\ t # <<>> /\ queue \in Seq(Jobs)
  BY <1>0, Zenon DEF TypeOK, Enqueue
<1>2. t \in Seq(Hooks) /\ a \in Nat /\ a > 0 /\ a <= Len(Batch[g]) /\ Len(Batch[g]) \in Nat
  <2>1. t \in Seq(Hooks) /\ a \in Nat
    BY <1>1, Zenon DEF Emitting
  <2>2. a > 0
    BY <1>0, <1>1, Zenon DEF Snapshots
  <2>3. a <= Len(Batch[g]) /\ Len(Batch[g]) \in Nat
    BY <1>0, EventsSettings DEF TypeOK
  <2> QED  BY <2>1, <2>2, <2>3, Zenon
<1>3. /\ Head(t) \in Hooks /\ Tail(t) \in Seq(Hooks) /\ Range(t) = {Head(t)} \cup Range(Tail(t))
      /\ Distinct(Tail(t)) /\ Head(t) \notin Range(Tail(t))
  BY <1>0, <1>1, <1>2, TailFacts, Zenon DEF Snapshots
<1>4. j \in Jobs /\ j[1] = <<g, a>> /\ j[1][1] = g /\ j[1][2] = a /\ j[2] = Head(t)
  BY <1>2, <1>3, EventFacts, JobFacts
<1>5. Ahead(j)
  BY <1>1, <1>3, <1>4, Zenon DEF Ahead
<1>6. m \in Emitting /\ m.pc = "fan" /\ m.at = a /\ m.todo = Tail(t)
  BY <1>2, <1>3, Zenon DEF Emitting
<1>7. /\ emit' = [emit EXCEPT ![g] = m] /\ UNCHANGED <<hooks, fresh, history, worker, stop, tries, taken>>
      /\ queue' = queue \/ (queue' = Append(queue, j) /\ Len(queue) < Queue)
  BY Zenon DEF Enqueue, Event
<1>8. Kept(<<g, a>>)
  BY <1>1, Zenon DEF Recorded, Event
<1> HIDE DEF j, m
<1>9. /\ emit' \in [Sources -> Emitting] /\ emit'[g] = m
      /\ \A f \in Sources : f # g => emit'[f] = emit[f]
  BY <1>1, <1>6, <1>7, Zenon
<1>10. \A f \in Sources : emit'[f].at <= Len(Batch[f])
  BY <1>0, <1>2, <1>6, <1>9, Zenon DEF TypeOK
<1>11. j \notin Range(queue) /\ tries[j] = 0 /\ \A w \in Workers : worker[w].job # j
  BY <1>0, <1>4, <1>5, EventsSettings, Zenon DEF Untouched, Pending
<1>12. /\ queue' \in Seq(Jobs) /\ Len(queue') <= Queue /\ Distinct(queue')
       /\ Range(queue') \subseteq Range(queue) \cup {j}
  <2>1. Queue \in Nat /\ Len(queue) \in Nat /\ Len(queue) <= Queue /\ Distinct(queue)
    BY <1>0, EventsSettings DEF TypeOK, Unique
  <2>2. CASE queue' = queue
    BY <1>1, <2>1, <2>2, Zenon
  <2>3. CASE queue' = Append(queue, j) /\ Len(queue) < Queue
    <3>1. /\ queue' \in Seq(Jobs) /\ Len(queue') = Len(queue) + 1 /\ Distinct(queue')
          /\ Range(queue') = Range(queue) \cup {j}
      BY <1>1, <1>4, <1>11, <2>1, <2>3, AppendFacts
    <3> QED  BY <2>1, <2>3, <3>1
  <2> QED  BY <1>7, <2>2, <2>3, Zenon
<1>13. TypeOK'
  BY <1>0, <1>7, <1>9, <1>10, <1>12, Zenon DEF TypeOK
<1>14. \A i \in DOMAIN queue' : tries[queue'[i]] = 0
  <2>1. \A k \in Range(queue) : tries[k] = 0
    BY <1>0, Zenon DEF Counts, Range
  <2>2. \A k \in Range(queue') : tries[k] = 0
    BY <1>11, <1>12, <2>1, Zenon
  <2> QED  BY <2>2, Zenon DEF Range
<1>15. Unique' /\ Counts'
  BY <1>0, <1>7, <1>12, <1>14, Zenon DEF Unique, Counts
<1>16. Snapshots' /\ Hands'
  <2>1. Snapshots'
    BY <1>0, <1>2, <1>3, <1>6, <1>7, <1>9, Zenon DEF Snapshots
  <2>2. Hands'
    BY <1>0, <1>7, <1>11, <1>12, Zenon DEF Hands, Shaped
  <2> QED  BY <2>1, <2>2, Zenon
<1>17. ASSUME NEW k \in Jobs, Ahead(k)' PROVE Ahead(k) /\ k # j
  <2>1. k = <<<<k[1][1], k[1][2]>>, k[2]>> /\ k[1][1] \in Sources /\ k[1][2] \in Nat
    BY EventFacts, JobFacts, EventsSettings
  <2>2. CASE k[1][1] # g
    BY <1>4, <1>9, <1>17, <2>1, <2>2, Zenon DEF Ahead
  <2>3. CASE k[1][1] = g
    <3>1. k[1][2] > a \/ (k[1][2] = a /\ k[2] \in Range(Tail(t)))
      BY <1>6, <1>9, <1>17, <2>3, Zenon DEF Ahead
    <3>2. k # j
      BY <1>2, <1>3, <1>4, <3>1
    <3>3. Ahead(k)
      BY <1>1, <1>3, <2>3, <3>1, Zenon DEF Ahead
    <3> QED  BY <3>2, <3>3, Zenon
  <2> QED  BY <2>2, <2>3, Zenon
<1>18. \A k \in Pending' : k \in Pending \/ k = j
  BY <1>7, <1>12, Zenon DEF Pending
<1>19. Scheduled'
  <2>1. Untouched'
    BY <1>0, <1>7, <1>17, <1>18, Zenon DEF Untouched
  <2> QED  BY <1>13, <1>15, <1>16, <2>1, Zenon DEF Scheduled, OneSchedule
<1>20. \A e : Kept(e)' <=> Kept(e)
  BY <1>7, Zenon DEF Kept
<1>21. ASSUME NEW f \in Sources, emit'[f].pc \in {"list", "fan"} PROVE Kept(Event(f)')
  BY <1>1, <1>6, <1>8, <1>9, <1>21, Zenon DEF Recorded, Event
<1>22. \A k \in Jobs : k \in Pending' \/ tries[k] > 0 => Kept(k[1])
  BY <1>4, <1>8, <1>18, Zenon DEF Recorded
<1>23. Recorded'
  BY <1>7, <1>21, <1>22, Zenon DEF Recorded, Kept
<1> QED  BY <1>19, <1>23, Zenon

\* A webhook comes or goes; the lists the goroutines hold are their own.
LEMMA HooksKeep ==
  ASSUME Scheduled, Recorded, NEW h \in Hooks, CreateWebhook(h) \/ DeleteWebhook(h)
  PROVE  Scheduled' /\ Recorded'
<1>0. TypeOK /\ Unique /\ Counts /\ Snapshots /\ Hands /\ Untouched
  BY Parts, Zenon
<1>1. hooks \in Seq(Hooks) /\ fresh \subseteq Hooks \ Range(hooks) /\ Distinct(hooks)
  BY <1>0, Zenon DEF TypeOK, Snapshots
<1>2. UNCHANGED <<emit, history, queue, worker, stop, tries, taken>>
  BY Zenon DEF CreateWebhook, DeleteWebhook
<1>3. hooks' \in Seq(Hooks) /\ fresh' \subseteq Hooks \ Range(hooks') /\ Distinct(hooks')
  <2>1. CASE CreateWebhook(h)
    <3>1. h \in fresh /\ hooks' = Append(hooks, h) /\ fresh' = fresh \ {h}
      BY <2>1, Zenon DEF CreateWebhook
    <3>2. hooks' \in Seq(Hooks) /\ Range(hooks') = Range(hooks) \cup {h} /\ Distinct(hooks')
      BY <1>1, <3>1, AppendFacts
    <3> QED  BY <1>1, <3>1, <3>2, Zenon
  <2>2. CASE DeleteWebhook(h)
    <3>1. PICK i \in DOMAIN hooks :
            hooks' = [k \in 1..(Len(hooks) - 1) |-> IF k < i THEN hooks[k] ELSE hooks[k + 1]]
      BY <2>2, Zenon DEF DeleteWebhook
    <3>2. hooks' \in Seq(Hooks) /\ Range(hooks') \subseteq Range(hooks) /\ Distinct(hooks')
      BY <1>1, <3>1, RemoveFacts
    <3>3. fresh' = fresh
      BY <2>2, Zenon DEF DeleteWebhook
    <3> QED  BY <1>1, <3>2, <3>3, Zenon
  <2> QED  BY <2>1, <2>2, Zenon
<1>4. TypeOK'
  BY <1>0, <1>2, <1>3, Zenon DEF TypeOK
<1>5. Unique' /\ Counts' /\ Snapshots' /\ Hands' /\ Untouched'
  <2>1. Unique' /\ Counts'
    BY <1>0, <1>2, Zenon DEF Unique, Counts
  <2>2. Snapshots'
    BY <1>0, <1>2, <1>3, Zenon DEF Snapshots
  <2>3. Hands' /\ Untouched'
    BY <1>0, <1>2 DEF Hands, Shaped, Untouched, Pending, Ahead
  <2> QED  BY <2>1, <2>2, <2>3, Zenon
<1>6. Scheduled'
  BY <1>4, <1>5, Zenon DEF Scheduled, OneSchedule
<1>7. Recorded'
  BY <1>2, Zenon DEF Recorded, Pending, Kept, Event
<1> QED  BY <1>6, <1>7, Zenon

\* Closing the dispatcher, and a step of another component.
LEMMA QuietKeeps ==
  ASSUME Scheduled, Recorded, Close \/ UNCHANGED vars
  PROVE  Scheduled' /\ Recorded'
<1>1. UNCHANGED <<hooks, fresh, emit, history, queue, worker, tries, taken>>
  BY Zenon DEF Close, vars
<1>0. TypeOK /\ Unique /\ Counts /\ Snapshots /\ Hands /\ Untouched
  BY Parts, Zenon
<1>2. stop' \in BOOLEAN
  BY <1>0, Zenon DEF Close, vars, TypeOK
<1>3. TypeOK'
  BY <1>0, <1>1, <1>2, Zenon DEF TypeOK
<1>4. Unique' /\ Counts' /\ Snapshots' /\ Hands' /\ Untouched'
  <2>1. Unique' /\ Counts' /\ Snapshots'
    BY <1>0, <1>1, Zenon DEF Unique, Counts, Snapshots
  <2>2. Hands' /\ Untouched'
    BY <1>0, <1>1 DEF Hands, Shaped, Untouched, Pending, Ahead
  <2> QED  BY <2>1, <2>2, Zenon
<1>5. Scheduled'
  BY <1>3, <1>4, Zenon DEF Scheduled, OneSchedule
<1>6. Recorded'
  BY <1>1, Zenon DEF Recorded, Pending, Kept, Event
<1> QED  BY <1>5, <1>6, Zenon

\* Nothing is scheduled before the first event.
LEMMA StartsEmpty == ASSUME Init PROVE Scheduled /\ Recorded
<1>1. Registered \in Seq(Hooks) /\ Distinct(Registered) /\ None \notin Jobs /\ MaxAttempts \in Nat \ {0}
      /\ \A g \in Sources : Len(Batch[g]) \in Nat
  BY EventsSettings
<1>2. Range(<<>>) = {} /\ Distinct(<<>>)
  BY DEF Range, Distinct
<1>3. emit \in [Sources -> Emitting] /\ \A g \in Sources : emit[g] = [pc |-> "none", at |-> 0, todo |-> <<>>]
  BY DEF Init, Emitting
<1>4. Idle \in Working /\ Shaped(Idle) /\ Idle.job = None
  BY <1>1 DEF Working, Idle, Shaped
<1>5. worker \in [Workers -> Working] /\ \A w \in Workers : worker[w] = Idle
  BY <1>4, Zenon DEF Init
<1>6. Pending = {}
  BY <1>2, <1>4, <1>5, Zenon DEF Init, Pending
<1>7. TypeOK
  <2>1. hooks \in Seq(Hooks) /\ fresh \subseteq Hooks \ Range(hooks)
    BY <1>1, Zenon DEF Init
  <2>2. history \in Seq(Events) /\ Len(history) <= MaxTenantEvents /\ queue \in Seq(Jobs) /\ Len(queue) <= Queue
    BY EventsSettings DEF Init
  <2>3. stop \in BOOLEAN /\ tries \in [Jobs -> Nat] /\ taken \subseteq Jobs
    BY Zenon DEF Init
  <2> QED  BY <1>1, <1>3, <1>5, <2>1, <2>2, <2>3 DEF TypeOK
<1>8. \A j \in Jobs : tries[j] = 0
  BY Zenon DEF Init
<1>9. OneSchedule
  <2>1. Unique /\ Counts
    BY <1>1, <1>2, <1>4, <1>5, <1>8 DEF Unique, Counts, Init
  <2> QED  BY <1>7, <2>1, Zenon DEF OneSchedule
<1>10. Scheduled
  <2>1. Snapshots
    BY <1>1, <1>2, <1>3, Zenon DEF Snapshots, Init
  <2>2. Hands
    BY <1>2, <1>4, <1>5, Zenon DEF Hands, Init
  <2>3. Untouched
    BY <1>6, <1>8, Zenon DEF Untouched
  <2> QED  BY <1>9, <2>1, <2>2, <2>3, Zenon DEF Scheduled
<1>11. Recorded
  BY <1>3, <1>6, <1>8 DEF Recorded
<1> QED  BY <1>10, <1>11, Zenon

\* The inductive invariant always holds: while webhooks come and go, callbacks emit
\* side by side and workers retry, no job is made twice, the attempts of each are
\* those its place says, and what is sent has been recorded.
THEOREM Deliveries == Spec => [](Scheduled /\ Recorded)
<1>1. Init => Scheduled /\ Recorded
  BY StartsEmpty, Zenon
<1>2. Scheduled /\ Recorded /\ [Next]_vars => (Scheduled /\ Recorded)'
  <2> SUFFICES ASSUME Scheduled, Recorded, [Next]_vars PROVE Scheduled' /\ Recorded'
    BY Zenon
  <2>1. ASSUME NEW h \in Hooks, CreateWebhook(h) \/ DeleteWebhook(h) PROVE Scheduled' /\ Recorded'
    BY <2>1, HooksKeep, Zenon
  <2>2. ASSUME NEW g \in Sources, Fire(g) \/ RecordEvent(g) \/ ListWebhooks(g) \/ FannedOut(g) PROVE Scheduled' /\ Recorded'
    BY <2>2, EmitKeeps, Zenon
  <2>3. ASSUME NEW g \in Sources, Enqueue(g) PROVE Scheduled' /\ Recorded'
    BY <2>3, EnqueueKeeps, Zenon
  <2>4. ASSUME NEW w \in Workers, Receive(w) PROVE Scheduled' /\ Recorded'
    BY <2>4, ReceiveKeeps, Zenon
  <2>5. ASSUME NEW w \in Workers, Return(w) \/ Accepted(w) \/ Errored(w) \/ Retry(w) \/ Abandon(w) PROVE Scheduled' /\ Recorded'
    BY <2>5, WorkKeeps, Zenon
  <2>6. CASE Close \/ UNCHANGED vars
    BY <2>6, QuietKeeps, Zenon
  <2> QED  BY <2>1, <2>2, <2>3, <2>4, <2>5, <2>6, Zenon DEF Next
<1> QED  BY <1>1, <1>2, PTL DEF Spec

\* An event reaches an endpoint in one schedule of at most MaxAttempts attempts, and
\* the queue and the history keep to their bounds, whatever Emit, deliver and Close do.
THEOREM Schedules == Spec => []OneSchedule
<1>1. Scheduled => OneSchedule
  BY Zenon DEF Scheduled
<1> QED  BY <1>1, Deliveries, PTL

\* Emit records an event before any endpoint is sent it, or a newer event of a full
\* history has pushed it out.
THEOREM HistoryFirst == Spec => []OnRecordFirst
<1>1. Recorded => OnRecordFirst
  BY Zenon DEF Recorded, OnRecordFirst, Kept
<1> QED  BY <1>1, Deliveries, PTL
=============================================================================
