--------------------------- MODULE RateLimitProofs ----------------------------
(* Theorems about RateLimit, for any limit, window and requests.            *)
EXTENDS RateLimit, FiniteSetTheorems, TLAPS

\* The counter, its TTL, the requests and the history keep their types
THEOREM TypeCorrect == Spec => []TypeOK
<1> USE LimitAssumption DEF TypeOK, NoExpiry, Ages
<1>1. Init => TypeOK
  BY DEF Init
<1>2. TypeOK /\ [Next]_vars => TypeOK'
  <2> SUFFICES ASSUME TypeOK, [Next]_vars PROVE TypeOK'
    OBVIOUS
  <2>1. CASE Tick
    <3>1. recent' \subseteq [age : Ages, number : Nat \ {0}]
      BY <2>1 DEF Tick
    <3>2. QED
      BY <2>1, <3>1 DEF Tick
  <2>2. ASSUME NEW r \in Requests, Incr(r) \/ Expire(r) \/ ExpireLost(r)
        PROVE  TypeOK'
    <3>1. CASE Incr(r)
      BY <3>1 DEF Incr
    <3>2. CASE Expire(r) \/ ExpireLost(r)
      BY <3>2 DEF Expire, ExpireLost
    <3>3. QED
      BY <2>2, <3>1, <3>2
  <2>3. QED
    BY <2>1, <2>2 DEF Next, vars
<1>3. QED
  BY <1>1, <1>2, PTL DEF Spec

\* The strengthening that makes ExpireIsOwn inductive: no TTL outlives its
\* counter, so the counter of a new window has none
OwnInv == ExpireIsOwn /\ (count = 0 => ttl = NoExpiry)

LEMMA OwnInvariant == Spec => []OwnInv
<1> USE LimitAssumption DEF TypeOK, OwnInv, ExpireIsOwn, NoExpiry
<1>1. Init => OwnInv
  BY DEF Init
<1>2. TypeOK /\ OwnInv /\ [Next]_vars => OwnInv'
  <2> SUFFICES ASSUME TypeOK, OwnInv, [Next]_vars PROVE OwnInv'
    OBVIOUS
  <2>1. CASE Tick
    BY <2>1 DEF Tick
  <2>2. ASSUME NEW r \in Requests, Incr(r) \/ Expire(r) \/ ExpireLost(r)
        PROVE  OwnInv'
    <3>1. CASE Incr(r) /\ count = 0
      <4>1. \A s \in Requests : req[s] # "expire"
        BY <3>1
      <4>2. QED
        BY <3>1, <4>1 DEF Incr, StartsWindow
    <3>2. CASE Incr(r) /\ count # 0
      BY <3>2 DEF Incr, StartsWindow
    <3>3. CASE Expire(r) \/ ExpireLost(r)
      BY <3>3 DEF Expire, ExpireLost
    <3>4. QED
      BY <2>2, <3>1, <3>2, <3>3
  <2>3. QED
    BY <2>1, <2>2 DEF Next, vars
<1>3. QED
  BY <1>1, <1>2, TypeCorrect, PTL DEF Spec

\* An EXPIRE, however late and whichever others were lost, is applied to the
\* counter that its own INCR created, and to no other
THEOREM OwnWindow == Spec => []ExpireIsOwn
<1>1. OwnInv => ExpireIsOwn
  BY DEF OwnInv
<1>2. QED
  BY <1>1, OwnInvariant, PTL

-----------------------------------------------------------------------------
(* At most twice the limit *)

\* The requests of the last window that were admitted since the present counter
\* began, `since' ticks ago, and those admitted before it, are each numbered by
\* one counter; and the older a counter, the closer it is to its end
Split(since) ==
  /\ \A x, y \in recent :
       x.number = y.number /\ (x.age <= since <=> y.age <= since) => x = y
  /\ \A x \in recent : x.age <= since => x.number <= count
  /\ ttl # NoExpiry => since + ttl >= Window

WindowsInv ==
  /\ \A x \in recent : x.number <= Limit
  /\ \E since \in Nat : Split(since)

\* A request counts on the present counter, or starts one when there is none -
\* and when there is none, all of the last window were numbered by the last one
LEMMA IncrKeepsWindows ==
  ASSUME TypeOK, OwnInv, WindowsInv, NEW r \in Requests, Incr(r)
  PROVE  WindowsInv'
<1> USE LimitAssumption DEF TypeOK, NoExpiry, Ages
<1>1. \A x \in recent' : x \in recent \/ (x.age = 0 /\ x.number = count + 1)
  BY DEF Incr
<1>2. \A x, y \in recent' : x.age = y.age /\ x.number = y.number => x = y
  BY DEF Incr
<1>3. \A x \in recent' : x.number <= Limit
  BY DEF Incr, Admitted, WindowsInv
<1>4. PICK since \in Nat : Split(since)
  BY DEF WindowsInv
<1>5. CASE count = 0
  <2>1. \A x \in recent : x.age > since
    BY <1>4, <1>5 DEF Split
  <2>2. \A x, y \in recent : x.number = y.number => x = y
    BY <1>4, <2>1 DEF Split
  <2>3. count' = 1 /\ ttl' = NoExpiry
    BY <1>5 DEF Incr, OwnInv
  <2>4. Split(0)'
    BY <1>1, <1>2, <1>5, <2>1, <2>2, <2>3 DEF Split
  <2>5. QED
    BY <1>3, <2>4 DEF WindowsInv
<1>6. CASE count # 0
  <2>1. count' = count + 1 /\ ttl' = ttl
    BY DEF Incr
  <2>2. \A x \in recent : x.age <= since => x.number < count + 1
    BY <1>4 DEF Split
  <2>3. \A x, y \in recent' :
          x.number = y.number /\ (x.age <= since <=> y.age <= since) => x = y
    BY <1>1, <1>2, <1>4, <2>2 DEF Split
  <2>4. \A x \in recent' : x.age <= since => x.number <= count + 1
    BY <1>1, <2>2
  <2>5. Split(since)'
    BY <1>4, <2>1, <2>3, <2>4 DEF Split
  <2>6. QED
    BY <1>3, <2>5 DEF WindowsInv
<1>7. QED
  BY <1>5, <1>6

\* When a counter expires it is at least a window old: what was admitted before
\* it began is forgotten
LEMMA TickKeepsWindows ==
  ASSUME TypeOK, WindowsInv, Tick
  PROVE  WindowsInv'
<1> USE LimitAssumption DEF TypeOK, NoExpiry, Ages
<1>1. \A x \in recent' : \E a \in recent :
        a.age + 1 < Window /\ x = [age |-> a.age + 1, number |-> a.number]
  BY DEF Tick
<1>2. \A x \in recent' : x.number <= Limit
  BY <1>1 DEF WindowsInv
<1>3. PICK since \in Nat : Split(since)
  BY DEF WindowsInv
<1>4. CASE ttl = 1
  <2>1. count' = 0 /\ ttl' = NoExpiry
    BY <1>4 DEF Tick
  <2>2. since + 1 >= Window
    BY <1>3, <1>4 DEF Split
  <2>3. \A x \in recent' : \E a \in recent :
          a.age <= since /\ x.age = a.age + 1 /\ x.number = a.number
    BY <1>1, <2>2
  <2>4. \A x, y \in recent' : x.number = y.number => x = y
    <3> SUFFICES ASSUME NEW x \in recent', NEW y \in recent', x.number = y.number
                 PROVE  x = y
      OBVIOUS
    <3>1. PICK a \in recent : a.age + 1 < Window
                              /\ x = [age |-> a.age + 1, number |-> a.number]
      BY <1>1
    <3>2. PICK b \in recent : b.age + 1 < Window
                              /\ y = [age |-> b.age + 1, number |-> b.number]
      BY <1>1
    <3>3. a = b
      BY <1>3, <2>2, <3>1, <3>2 DEF Split
    <3>4. QED
      BY <3>1, <3>2, <3>3
  <2>5. \A x \in recent' : ~(x.age <= 0)
    BY <2>3
  <2>6. Split(0)'
    BY <2>1, <2>4, <2>5 DEF Split
  <2>7. QED
    BY <1>2, <2>6 DEF WindowsInv
<1>5. CASE ttl # 1
  <2>1. count' = count /\ (ttl' # NoExpiry => ttl # NoExpiry /\ ttl' = ttl - 1)
    BY <1>5 DEF Tick
  <2>2. \A x, y \in recent' :
          x.number = y.number /\ (x.age <= since + 1 <=> y.age <= since + 1) => x = y
    <3> SUFFICES ASSUME NEW x \in recent', NEW y \in recent', x.number = y.number,
                        x.age <= since + 1 <=> y.age <= since + 1
                 PROVE  x = y
      OBVIOUS
    <3>1. PICK a \in recent : x = [age |-> a.age + 1, number |-> a.number]
      BY <1>1
    <3>2. PICK b \in recent : y = [age |-> b.age + 1, number |-> b.number]
      BY <1>1
    <3>3. a = b
      BY <1>3, <3>1, <3>2 DEF Split
    <3>4. QED
      BY <3>1, <3>2, <3>3
  <2>3. \A x \in recent' : x.age <= since + 1 => x.number <= count
    BY <1>1, <1>3 DEF Split
  <2>4. Split(since + 1)'
    BY <1>3, <2>1, <2>2, <2>3 DEF Split
  <2>5. QED
    BY <1>2, <2>4 DEF WindowsInv
<1>6. QED
  BY <1>4, <1>5

\* Requests with different numbers up to the limit are at most as many
LEMMA OneCounter ==
  ASSUME TypeOK, NEW S \in SUBSET recent,
         \A x \in S : x.number <= Limit,
         \A x, y \in S : x.number = y.number => x = y
  PROVE  IsFiniteSet(S) /\ Cardinality(S) <= Limit
<1> DEFINE f == [x \in S |-> x.number]
<1>1. f \in Injection(S, 1..Limit)
  BY LimitAssumption DEF TypeOK, Injection, IsInjective
<1>2. IsFiniteSet(1..Limit) /\ Cardinality(1..Limit) = Limit
  BY LimitAssumption, FS_Interval
<1> HIDE DEF f
<1>3. QED
  BY <1>1, <1>2, FS_Injection

\* In every span as long as a window at most twice the limit is admitted, for
\* every limit and window, however late an EXPIRE is and if it is lost
THEOREM TwoWindows == Spec => []TwiceTheLimit
<1>1. Init => WindowsInv
  BY DEF Init, WindowsInv, Split
<1>2. TypeOK /\ OwnInv /\ WindowsInv /\ [Next]_vars => WindowsInv'
  <2> SUFFICES ASSUME TypeOK, OwnInv, WindowsInv, [Next]_vars PROVE WindowsInv'
    OBVIOUS
  <2>1. ASSUME NEW r \in Requests, Incr(r) \/ Expire(r)
        PROVE  WindowsInv'
    <3>1. CASE Incr(r)
      BY <3>1, IncrKeepsWindows
    <3>2. CASE Expire(r)
      <4>1. PICK since \in Nat : Split(since)
        BY DEF WindowsInv
      <4>2. Split(since)'
        BY <3>2, <4>1, LimitAssumption DEF Expire, Split
      <4>3. QED
        BY <3>2, <4>2 DEF Expire, WindowsInv
    <3>3. QED
      BY <2>1, <3>1, <3>2
  <2>2. CASE UNCHANGED <<count, ttl, recent>>
    BY <2>2 DEF WindowsInv, Split
  <2>3. QED
    BY <2>1, <2>2, TickKeepsWindows DEF Next, ExpireLost, vars
<1>3. TypeOK /\ WindowsInv => TwiceTheLimit
  <2> SUFFICES ASSUME TypeOK, WindowsInv PROVE TwiceTheLimit
    OBVIOUS
  <2>1. PICK since \in Nat : Split(since)
    BY DEF WindowsInv
  <2> DEFINE new == {x \in recent : x.age <= since}
             old == {x \in recent : ~(x.age <= since)}
  <2>2. IsFiniteSet(new) /\ Cardinality(new) <= Limit
    BY <2>1, OneCounter DEF WindowsInv, Split
  <2>3. IsFiniteSet(old) /\ Cardinality(old) <= Limit
    BY <2>1, OneCounter DEF WindowsInv, Split
  <2>4. /\ Cardinality(new) \in Nat /\ Cardinality(old) \in Nat
        /\ Cardinality(new \cap old) \in Nat
        /\ Cardinality(new \cup old) =
             Cardinality(new) + Cardinality(old) - Cardinality(new \cap old)
    BY <2>2, <2>3, FS_Union, FS_CardinalityType, FS_Intersection
  <2>5. recent = new \cup old
    OBVIOUS
  <2> HIDE DEF new, old
  <2>6. QED
    BY <2>2, <2>3, <2>4, <2>5, LimitAssumption DEF TwiceTheLimit
<1>4. QED
  BY <1>1, <1>2, <1>3, TypeCorrect, OwnInvariant, PTL DEF Spec
=============================================================================
