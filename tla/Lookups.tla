--------------------------------- MODULE Lookups ---------------------------------
(***************************************************************************)
(* The lookup tools and the clients of the services they ask:              *)
(* threat/virustotal.py, threat/urlscan.py, and provider_from of           *)
(* osint/collectors/base.py.  A client has a token bucket of its own,      *)
(* whose callers wait for it one behind the other; the dispatchers whose   *)
(* tools call it limit themselves (module RateLimiter, whose clock, rate   *)
(* and units are used here).                                               *)
(***************************************************************************)
EXTENDS RateLimiter, SequencesExt

CONSTANTS
  Calls      \* the lookups asked for, by the tools of any agent

VARIABLES
  injected,         \* whether the context holds one client for them all
  stage,            \* lookup -> how far it is
  client,           \* lookup -> the client that serves it
  line,             \* client -> the lookups at its bucket, the first has the lock
  bucket, visited,  \* client -> its tokens and the moment they were counted
  ready,            \* client -> when the first of its line looks again
  requests          \* client -> the times of the requests it sent

lookupVars == <<injected, stage, client, line, bucket, visited, ready, requests>>

\* The bucket holds what a minute refills.
BucketCap == Limit * Minute

\* By default the context holds no client.
LookupInit ==
  /\ injected \in BOOLEAN
  /\ stage = [c \in Calls |-> "new"] /\ client = [c \in Calls |-> c]
  /\ line = [k \in Calls |-> <<>>]
  /\ bucket = [k \in Calls |-> BucketCap] /\ visited = [k \in Calls |-> 0]
  /\ ready = [k \in Calls |-> 0]
  /\ requests = [k \in Calls |-> <<>>]

\* provider_from: the client in the context, or a default one made for this
\* call.  The tool may be refused before it gets there: no key, no HTTP library,
\* an indicator of an unknown kind or one that does not parse.
TheOne == CHOOSE k \in Calls : TRUE

Refuse(c) ==
  /\ stage[c] = "new"
  /\ stage' = [stage EXCEPT ![c] = "failed"]
  /\ UNCHANGED <<client, line, bucket, visited, ready, requests>>

Ask(c) ==
  LET k == IF injected THEN TheOne ELSE c IN
  /\ stage[c] = "new" /\ Token <= BucketCap
  /\ stage' = [stage EXCEPT ![c] = "queued"]
  /\ client' = [client EXCEPT ![c] = k]
  /\ line' = [line EXCEPT ![k] = Append(@, c)]
  /\ visited' = IF injected THEN visited ELSE [visited EXCEPT ![k] = now]
  /\ ready' = IF line[k] = <<>> THEN [ready EXCEPT ![k] = now] ELSE ready
  /\ UNCHANGED <<bucket, requests>>

InBucket(k) ==
  LET refilled == bucket[k] + (now - visited[k]) * Refill IN
  IF refilled < BucketCap THEN refilled ELSE BucketCap

\* Mutated form: the time of the visit is kept only by a turn that has to wait.
TurnForgetsVisit(k) ==
  /\ line[k] # <<>> /\ now >= ready[k]
  /\ IF InBucket(k) >= Token
     THEN /\ bucket' = [bucket EXCEPT ![k] = InBucket(k) - Token]
          /\ line' = [line EXCEPT ![k] = Tail(@)]
          /\ stage' = [stage EXCEPT ![Head(line[k])] = "asking"]
          /\ requests' = [requests EXCEPT ![k] = Append(@, now)]
          /\ UNCHANGED <<ready, visited>>
     ELSE /\ bucket' = [bucket EXCEPT ![k] = InBucket(k)]
          /\ visited' = [visited EXCEPT ![k] = now]
          /\ ready' = [ready EXCEPT ![k] = now + (Token - InBucket(k) + Refill - 1) \div Refill]
          /\ UNCHANGED <<line, stage, requests>>
  /\ UNCHANGED client

\* TokenBucket.acquire: whoever has the lock takes a token and sends the
\* request, or sleeps with the lock until the deficit is refilled.
Turn(k) ==
  /\ line[k] # <<>> /\ now >= ready[k]
  /\ visited' = [visited EXCEPT ![k] = now]
  /\ IF InBucket(k) >= Token
     THEN /\ bucket' = [bucket EXCEPT ![k] = InBucket(k) - Token]
          /\ line' = [line EXCEPT ![k] = Tail(@)]
          /\ stage' = [stage EXCEPT ![Head(line[k])] = "asking"]
          /\ requests' = [requests EXCEPT ![k] = Append(@, now)]
          /\ UNCHANGED ready
     ELSE /\ bucket' = [bucket EXCEPT ![k] = InBucket(k)]
          /\ ready' = [ready EXCEPT ![k] = now + (Token - InBucket(k) + Refill - 1) \div Refill]
          /\ UNCHANGED <<line, stage, requests>>
  /\ UNCHANGED client

\* The service answers, if only that it does not know the indicator; an error
\* code, a refused key or an unreadable answer fails the call.
Answer(c) ==
  /\ stage[c] = "asking"
  /\ \E end \in {"answered", "failed"} : stage' = [stage EXCEPT ![c] = end]
  /\ UNCHANGED <<client, line, bucket, visited, ready, requests>>

\* A waiter leaves the line; if it held the lock, the next one gets it.
LeaveLine(c, k) ==
  \E i \in DOMAIN line[k] :
    /\ line[k][i] = c
    /\ line' = [line EXCEPT ![k] = RemoveAt(@, i)]
    /\ ready' = IF i = 1 THEN [ready EXCEPT ![k] = now] ELSE ready

\* The dispatcher's timeout or a cancellation ends the call where it waits.
Abandon(c) ==
  /\ stage[c] \in {"queued", "asking"}
  /\ stage' = [stage EXCEPT ![c] = "failed"]
  /\ IF stage[c] = "queued" THEN LeaveLine(c, client[c]) ELSE UNCHANGED <<line, ready>>
  /\ UNCHANGED <<client, bucket, visited, requests>>

LookupStep ==
  \/ \E c \in Calls : Refuse(c) \/ Ask(c) \/ Answer(c) \/ Abandon(c)
  \/ \E k \in Calls : Turn(k)

\* The clock is RateLimiter's.
LookupNext ==
  \/ LookupStep /\ UNCHANGED <<vars, injected>>
  \/ Tick /\ UNCHANGED lookupVars

LookupSpec == Init /\ LookupInit /\ [][LookupNext]_<<vars, lookupVars>>

-----------------------------------------------------------------------------
\* Whoever asks, waits in line or gives up there, a client sends no more than a
\* full bucket and the refill of the time its requests span, and a client in the
\* context sends them all.  This is what the bucket enforces, and it is not the
\* service's "4 requests/minute": the bucket starts full and refills while it is
\* emptied, so up to twice that in its first minute; and by default every call
\* has a client, and a full bucket, of its own, and nothing bounds them together.
BurstsBounded ==
  /\ \A c \in Calls : \A k \in 1..Len(requests[c]) : \A i \in 1..k :
       (k - i + 1) * Token <= BucketCap + Refill * (requests[c][k] - requests[c][i])
  /\ injected => \A c \in Calls \ {TheOne} : requests[c] = <<>>
=============================================================================
