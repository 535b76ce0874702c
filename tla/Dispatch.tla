------------------------------- MODULE Dispatch -------------------------------
(***************************************************************************)
(* Dispatcher.Dispatch of gateway/internal/routing/dispatch.go: concurrent *)
(* requests walk a chain of candidates, behind one breaker per candidate   *)
(* and a pool of keys per provider whose cursor and cool-downs all         *)
(* requests share.                                                         *)
(*                                                                         *)
(* A step is what a request does between two of the locks it takes:        *)
(* Breaker.Allow; the provider check, keyOrder and readyKeys; one upstream *)
(* call with the coolKey, Success or Failure that its answer leads to.     *)
(* The chain comes from the resolver and is an input here.                 *)
(***************************************************************************)
EXTENDS BreakerOps

CONSTANTS Requests,
          Candidates,
          Providers,
          Keys,
          ProviderOf,  \* the provider of each candidate
          Pool,        \* each provider's keys, in the order they are configured
          RoundRobin,  \* the providers whose key strategy is not failover
          Chains,      \* the chains the resolver may return
          Waits,       \* the Retry-After values a 429 may carry; 0 is none
          Streams,     \* whether requests stream: a subset of BOOLEAN
          Replies,     \* the ways an upstream may answer
          Switchable   \* the providers an admin may disable and enable

ReplyKinds == {"ok", "broken", "client", "too_large", "rate_limited"}

ASSUME DispatchInputs ==
  /\ ProviderOf \in [Candidates -> Providers]
  /\ Pool \in [Providers -> Seq(Keys)]
  /\ \A p \in Providers : Pool[p] # <<>>
  /\ RoundRobin \subseteq Providers
  /\ Chains \subseteq Seq(Candidates) \ {<<>>}
  /\ Waits \subseteq Nat
  /\ Streams \subseteq BOOLEAN
  /\ Replies \subseteq ReplyKinds
  /\ Switchable \subseteq Providers

VARIABLES entries,   \* Breaker.entries, one per candidate
          cursors,   \* Dispatcher.cursors modulo the size of the pool
          cooling,   \* Dispatcher.cooldowns, as the time that is left; 0 is none
          enabled,   \* the providers the store has enabled
          req        \* the requests

vars == <<entries, cursors, cooling, enabled, req>>

Running == {"admit", "check", "call"}
Answered == {"served", "rejected", "exhausted", "timed_out"}

\* A request that is not running has no cascade state.
Ended(how) == [pc |-> how, chain |-> <<>>, pos |-> 0, stream |-> FALSE,
               usable |-> {}, keys |-> <<>>, expired |-> FALSE]

Init ==
  /\ entries = [c \in Candidates |-> Fresh]
  /\ cursors = [p \in Providers |-> 0]
  /\ cooling = [pk \in Providers \X Keys |-> 0]
  /\ enabled = Providers
  /\ req = [r \in Requests |-> Ended("served")]

Cand(r) == req[r].chain[req[r].pos]
Prov(r) == ProviderOf[Cand(r)]
Inside(r, c) == req[r].pc \in {"check", "call"} /\ Cand(r) = c

-----------------------------------------------------------------------------
(* Keys *)

\* The pool rotated to start at the cursor.
Rotated(s, offset) ==
  [i \in 1..Len(s) |-> s[1 + ((offset + i - 1) % Len(s))]]

Rotates(p) == Len(Pool[p]) >= 2 /\ p \in RoundRobin

KeyOrderOneOver(p) ==
  IF Rotates(p)
  THEN Append(Rotated(Pool[p], cursors[p]), Pool[p][1 + cursors[p]])
  ELSE Pool[p]

KeyOrder(p) == IF Rotates(p) THEN Rotated(Pool[p], cursors[p]) ELSE Pool[p]

AdvanceCursor(p) ==
  IF Rotates(p) THEN [cursors EXCEPT ![p] = (@ + 1) % Len(Pool[p])] ELSE cursors

\* The keys outside a Retry-After window, or all of them if that leaves none.
ReadyKeys(p, order) ==
  LET ready == Picked(order, {i \in DOMAIN order : cooling[<<p, order[i]>>] = 0})
  IN  IF ready = <<>> THEN order ELSE ready

CoolKeyLatest(p, k, wait) == [cooling EXCEPT ![<<p, k>>] = wait]

\* The longest standing request wins, so a short window cannot shorten a long
\* one; a 429 without Retry-After parks nothing.
CoolKey(p, k, wait) ==
  [cooling EXCEPT ![<<p, k>>] = IF wait > @ THEN wait ELSE @]

-----------------------------------------------------------------------------
(* The cascade *)

\* Past this candidate: on to the next, or out of the chain.  The handler
\* reports an exhausted chain as a timeout when the deadline has passed.
Onward(q) ==
  IF q.pos < Len(q.chain)
  THEN [q EXCEPT !.pc = "admit", !.pos = @ + 1, !.keys = <<>>]
  ELSE Ended(IF q.expired THEN "timed_out" ELSE "exhausted")

\* A completion request enters Dispatch, which lists the providers once.
Start(r) ==
  /\ req[r].pc \in Answered
  /\ \E chain \in Chains, stream \in Streams :
       req' = [req EXCEPT ![r] = [pc |-> "admit", chain |-> chain, pos |-> 1,
                                  stream |-> stream, usable |-> enabled,
                                  keys |-> <<>>, expired |-> FALSE]]
  /\ UNCHANGED <<entries, cursors, cooling, enabled>>

SkipBlamed(r) ==
  /\ req[r].pc = "admit"
  /\ ~Allows(entries[Cand(r)])
  /\ entries' = [entries EXCEPT ![Cand(r)] = AfterFailure(@)]
  /\ req' = [req EXCEPT ![r] = Onward(@)]
  /\ UNCHANGED <<cursors, cooling, enabled>>

\* Allow refuses: the candidate is skipped without an upstream call.
Skip(r) ==
  /\ req[r].pc = "admit"
  /\ ~Allows(entries[Cand(r)])
  /\ req' = [req EXCEPT ![r] = Onward(@)]
  /\ UNCHANGED <<entries, cursors, cooling, enabled>>

\* Allow admits, and may make this request the probe.
Admit(r) ==
  /\ req[r].pc = "admit"
  /\ Allows(entries[Cand(r)])
  /\ entries' = [entries EXCEPT ![Cand(r)] = AfterAllow(@)]
  /\ req' = [req EXCEPT ![r].pc = "check"]
  /\ UNCHANGED <<cursors, cooling, enabled>>

\* The provider is gone or disabled in this request's list: the candidate counts
\* as failed, and the breaker is told nothing.
Unusable(r) ==
  /\ req[r].pc = "check"
  /\ Prov(r) \notin req[r].usable
  /\ req' = [req EXCEPT ![r] = Onward(@)]
  /\ UNCHANGED <<entries, cursors, cooling, enabled>>

\* keyOrder and readyKeys fix the keys this request will walk.
Walk(r) ==
  /\ req[r].pc = "check"
  /\ Prov(r) \in req[r].usable
  /\ cursors' = AdvanceCursor(Prov(r))
  /\ req' = [req EXCEPT ![r].pc = "call",
                        ![r].keys = ReadyKeys(Prov(r), KeyOrder(Prov(r)))]
  /\ UNCHANGED <<entries, cooling, enabled>>

\* The upstream may still be heard: the context of this request is alive.
Hears(r, reply) == req[r].pc = "call" /\ reply \in Replies /\ ~req[r].expired

\* A 2xx: Success, and the response goes to the caller.
Serve(r) ==
  /\ Hears(r, "ok")
  /\ entries' = [entries EXCEPT ![Cand(r)] = AfterSuccess(@)]
  /\ req' = [req EXCEPT ![r] = Ended("served")]
  /\ UNCHANGED <<cursors, cooling, enabled>>

\* A 4xx, or a buffered body past the limit: returned as it is, with neither
\* Success nor Failure.
Reject(r) ==
  /\ Hears(r, "client") \/ (Hears(r, "too_large") /\ ~req[r].stream)
  /\ req' = [req EXCEPT ![r] = Ended("rejected")]
  /\ UNCHANGED <<entries, cursors, cooling, enabled>>

BreakDeafToDeadline(r) ==
  /\ Hears(r, "broken")
  /\ entries' = [entries EXCEPT ![Cand(r)] = AfterFailure(@)]
  /\ req' = [req EXCEPT ![r] = Onward(@)]
  /\ UNCHANGED <<cursors, cooling, enabled>>

BreakTimeoutUnreported(r) ==
  /\ req[r].pc = "call"
  /\ req[r].expired \/ Hears(r, "broken")
  /\ entries' = IF req[r].expired THEN entries ELSE [entries EXCEPT ![Cand(r)] = AfterFailure(@)]
  /\ req' = [req EXCEPT ![r] = Onward(@)]
  /\ UNCHANGED <<cursors, cooling, enabled>>

\* A 5xx, or no exchange at all, which is also what Do makes of a context whose
\* deadline has passed: Failure, and the cascade moves on.
Break(r) ==
  /\ req[r].pc = "call"
  /\ req[r].expired \/ Hears(r, "broken")
  /\ entries' = [entries EXCEPT ![Cand(r)] = AfterFailure(@)]
  /\ req' = [req EXCEPT ![r] = Onward(@)]
  /\ UNCHANGED <<cursors, cooling, enabled>>

\* A 429: park the key if the provider said for how long, and rotate to the next
\* key; only the last key of the walk makes it the provider's failure.
RateLimited(r) ==
  /\ Hears(r, "rate_limited")
  /\ \E wait \in Waits : cooling' = CoolKey(Prov(r), Head(req[r].keys), wait)
  /\ IF Len(req[r].keys) > 1
     THEN /\ req' = [req EXCEPT ![r].keys = Tail(@)]
          /\ UNCHANGED entries
     ELSE /\ req' = [req EXCEPT ![r] = Onward(@)]
          /\ entries' = [entries EXCEPT ![Cand(r)] = AfterFailure(@)]
  /\ UNCHANGED <<cursors, enabled>>

\* The deadline opContext puts on a buffered request; a stream has none.
Expire(r) ==
  /\ req[r].pc \in Running
  /\ ~req[r].stream /\ ~req[r].expired
  /\ req' = [req EXCEPT ![r].expired = TRUE]
  /\ UNCHANGED <<entries, cursors, cooling, enabled>>

-----------------------------------------------------------------------------
(* The environment *)

\* An admin disables or enables a provider in the store.
Switch(p) ==
  /\ enabled' = IF p \in enabled THEN enabled \ {p} ELSE enabled \cup {p}
  /\ UNCHANGED <<entries, cursors, cooling, req>>

Tick ==
  /\ entries' = [c \in Candidates |-> Aged(entries[c])]
  /\ cooling' = [pk \in DOMAIN cooling |->
                   IF cooling[pk] > 0 THEN cooling[pk] - 1 ELSE 0]
  /\ UNCHANGED <<cursors, enabled, req>>

\* What a request does without waiting for an upstream: it moves on, its timer fires,
\* and a call whose context is dead returns.
Move(r) ==
  Skip(r) \/ Admit(r) \/ Unusable(r) \/ Walk(r) \/ Expire(r) \/ (req[r].expired /\ Break(r))

Next ==
  \/ \E r \in Requests : Start(r)
  \/ \E r \in Requests : Skip(r)
  \/ \E r \in Requests : Admit(r)
  \/ \E r \in Requests : Unusable(r)
  \/ \E r \in Requests : Walk(r)
  \/ \E r \in Requests : Serve(r)
  \/ \E r \in Requests : Reject(r)
  \/ \E r \in Requests : Break(r)
  \/ \E r \in Requests : RateLimited(r)
  \/ \E r \in Requests : Expire(r)
  \/ \E p \in Switchable : Switch(p)
  \/ Tick

Spec == Init /\ [][Next]_vars

\* The gateway's goroutines run and its timers fire.  Nothing is assumed of the
\* upstreams.
Gateway == (\A r \in Requests : WF_vars(Move(r))) /\ WF_vars(Tick)

-----------------------------------------------------------------------------
(* Properties *)

\* Breaker entries, cursors, cool-downs and the cascade state of every request
\* keep their types; a running request is at a position of its chain and a
\* calling one still has a key to use.
TypeOK ==
  /\ entries \in [Candidates -> Entry]
  /\ cursors \in [Providers -> Nat]
  /\ \A p \in Providers : cursors[p] < Len(Pool[p])
  /\ cooling \in [Providers \X Keys -> Waits \cup Nat]
  /\ enabled \subseteq Providers
  /\ \A r \in Requests :
       \/ \E how \in Answered : req[r] = Ended(how)
       \/ /\ req[r].pc \in Running
          /\ req[r].chain \in Chains
          /\ req[r].pos \in 1..Len(req[r].chain)
          /\ req[r].stream \in Streams
          /\ req[r].usable \subseteq Providers
          /\ req[r].keys \in Seq(Keys)
          /\ req[r].pc = "call" => req[r].keys # <<>>
          /\ req[r].expired \in BOOLEAN

\* The keys come from different places of the pool.
OnePass(keys, pool) ==
  \E at \in [DOMAIN keys -> DOMAIN pool] :
    /\ \A i \in DOMAIN keys : keys[i] = pool[at[i]]
    /\ \A i, j \in DOMAIN keys : at[i] = at[j] => i = j

\* However requests share the cursor and the cool-downs, one walk never offers
\* the same key of the pool twice and never leaves the provider's own pool.
NoKeyTwice ==
  \A r \in Requests : req[r].pc = "call" => OnePass(req[r].keys, Pool[Prov(r)])

\* A key the provider asked to rest is never brought back early: concurrent 429s
\* with different Retry-After values can lengthen a cool-down and never cut it.
CoolDownOnlyEndsByTime ==
  [][\A pk \in DOMAIN cooling :
       cooling'[pk] < cooling[pk] =>
         cooling'[pk] = cooling[pk] - 1 /\ UNCHANGED req]_vars

\* Every breaker entry stays sound under the real callers: closed below the
\* threshold, and half-open exactly while probing.
EntriesSound ==
  \A c \in Candidates :
    /\ entries[c].state = "closed" => Len(entries[c].failures) < Threshold
    /\ (entries[c].state = "half_open") <=> entries[c].probing

\* What every step of a cascade leaves intact: well-formed requests, sound breakers and
\* walks that repeat no key and stay in the pool.
CascadeInv == TypeOK /\ EntriesSound /\ NoKeyTwice

\* The requests of the dispatcher are callers of each candidate's breaker as Breaker
\* has them: every report is of a call that Allow admitted, and is made once.
Of(c) == INSTANCE Breaker WITH Calls  <- Requests,
                               entry  <- entries[c],
                               inside <- {r \in Requests : Inside(r, c)}
UsesBreaker ==
  /\ \A c \in Candidates : Of(c)!Init
  /\ [][\A c \in Candidates : [Of(c)!Next]_(Of(c)!vars)]_vars

\* The dispatcher uses each candidate's breaker as Circuit promises: nobody gets
\* to call an upstream while its circuit is open or half-open, except the one
\* request that found the cool-off over.
Promise(c) == INSTANCE Circuit WITH Calls   <- Requests,
                                    circuit <- entries[c].state,
                                    waited  <- entries[c].openAge,
                                    inside  <- {r \in Requests : Inside(r, c)}
KeepsPromise ==
  /\ \A c \in Candidates : Promise(c)!Init
  /\ [][\A c \in Candidates : [Promise(c)!Next]_(Promise(c)!vars)]_vars

\* Every buffered request is answered, even by upstreams that never reply: the
\* deadline breaks the call it waits in and all those that remain.
BufferedAnswered ==
  \A r \in Requests : req[r].pc \in Running /\ ~req[r].stream ~> req[r].pc \in Answered

\* A breaker that lets a probe through learns the outcome: half-open ends.
HalfOpenResolves ==
  \A c \in Candidates : entries[c].state = "half_open" ~> entries[c].state # "half_open"

\* The probing flag marks a probe that is in flight.
ProbingMeansInFlight ==
  \A c \in Candidates : entries[c].probing => \E r \in Requests : Inside(r, c)
=============================================================================
