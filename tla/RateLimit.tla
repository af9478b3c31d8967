------------------------------ MODULE RateLimit ------------------------------
(***************************************************************************)
(* The rate limiter (middleware/rate_limit.go): a counter in Redis for one *)
(* client address, incremented by every request, that expires one window   *)
(* after the request that found it at 1.  INCR and EXPIRE are two calls,   *)
(* and the requests of a client run concurrently.  Addresses do not share  *)
(* keys, so one is modelled; the TTL of a refusal is read and not used.    *)
(***************************************************************************)
EXTENDS Naturals, FiniteSets

CONSTANTS
  Requests,  \* slots for the concurrent requests of the client
  Limit,     \* requests admitted in a window (20 in cmd/server/main.go)
  Window,    \* the length of a window, in ticks (one minute there)
  MaxCount   \* bound: no request arrives while the counter has this value

ASSUME LimitAssumption ==
  Limit \in Nat \ {0} /\ Window \in Nat \ {0} /\ MaxCount \in Nat

VARIABLES
  count,   \* the value of the key, 0 when there is none
  ttl,     \* the ticks after which Redis deletes the key, NoExpiry if never
  req,     \* what a request has still to do
  faulty,  \* in this behaviour an EXPIRE may be lost: its error is ignored, or
           \* the server stops before it
  recent   \* the requests admitted less than a window ago: how many ticks ago
           \* and with which counter value, that no two of a tick share (a
           \* history variable: nothing in the code reads it)

vars == <<count, ttl, req, faulty, recent>>

NoExpiry == 0

Ages == 0..(Window - 1)

TypeOK ==
  /\ count \in Nat
  /\ ttl \in 0..Window
  /\ req \in [Requests -> {"idle", "expire"}]
  /\ faulty \in BOOLEAN
  /\ recent \subseteq [age : Ages, number : Nat \ {0}]

Init ==
  /\ count = 0
  /\ ttl = NoExpiry
  /\ req = [r \in Requests |-> "idle"]
  /\ faulty \in BOOLEAN
  /\ recent = {}

\* Mutant: one too many
AdmittedOneMore(n) == n <= Limit + 1

\* count > limit is refused with 429
Admitted(n) == n <= Limit

\* Mutant: EXPIRE by the first two requests
StartsWindowTwice(n) == n <= 2

\* count == 1
StartsWindow(n) == n = 1

Incr(r) ==
  /\ req[r] = "idle"
  /\ count < MaxCount
  /\ count' = count + 1
  /\ req' = IF StartsWindow(count + 1) THEN [req EXCEPT ![r] = "expire"] ELSE req
  /\ recent' = IF Admitted(count + 1)
               THEN recent \cup {[age |-> 0, number |-> count + 1]}
               ELSE recent
  /\ UNCHANGED <<ttl, faulty>>

\* Mutant: EXPIRE forgotten
ExpireForgotten(r) ==
  /\ req[r] = "expire"
  /\ req' = [req EXCEPT ![r] = "idle"]
  /\ UNCHANGED <<count, ttl, faulty, recent>>

\* Mutant: a window one tick too long
ExpireOneMore(r) ==
  /\ req[r] = "expire"
  /\ ttl' = Window + 1
  /\ req' = [req EXCEPT ![r] = "idle"]
  /\ UNCHANGED <<count, faulty, recent>>

\* EXPIRE of a key that is not there does nothing
Expire(r) ==
  /\ req[r] = "expire"
  /\ ttl' = IF count = 0 THEN NoExpiry ELSE Window
  /\ req' = [req EXCEPT ![r] = "idle"]
  /\ UNCHANGED <<count, faulty, recent>>

ExpireLost(r) ==
  /\ faulty
  /\ req[r] = "expire"
  /\ req' = [req EXCEPT ![r] = "idle"]
  /\ UNCHANGED <<count, ttl, faulty, recent>>

\* Time passes; Redis deletes the key when its TTL is over
Tick ==
  /\ recent' = {[age |-> a.age + 1, number |-> a.number] :
                  a \in {x \in recent : x.age + 1 < Window}}
  /\ \/ ttl = NoExpiry /\ UNCHANGED <<count, ttl>>
     \/ ttl = 1 /\ count' = 0 /\ ttl' = NoExpiry
     \/ ttl > 1 /\ ttl' = ttl - 1 /\ UNCHANGED count
  /\ UNCHANGED <<req, faulty>>

Next == Tick \/ \E r \in Requests : Incr(r) \/ Expire(r) \/ ExpireLost(r)

\* Time passes, and a request that has begun goes on
Fairness == WF_vars(Tick) /\ \A r \in Requests : WF_vars(Expire(r))

Spec == Init /\ [][Next]_vars /\ Fairness

-----------------------------------------------------------------------------
(* Properties *)

\* The EXPIRE of a request falls in the window that its INCR began: it never
\* prolongs or shortens a later one, however long it is delayed
ExpireIsOwn ==
  \A r \in Requests : req[r] = "expire" =>
    /\ count # 0 /\ ttl = NoExpiry
    /\ \A s \in Requests : req[s] = "expire" => s = r

\* Windows begin where a request falls, so a span as long as a window can
\* touch two of them, never three
TwiceTheLimit == Cardinality(recent) <= 2 * Limit

\* "retry_after" (middleware/rate_limit.go): a client that has used up its limit is
\* admitted again some time
EventuallyAdmitted == count >= Limit ~> count < Limit

\* ... at least if no EXPIRE is lost
AdmittedUnlessLost == count >= Limit /\ ~faulty ~> count < Limit
=============================================================================
