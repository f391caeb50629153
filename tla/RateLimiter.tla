----------------------------- MODULE RateLimiter -----------------------------
(***************************************************************************)
(* gateway/rate_limiter: the token buckets all listeners share.  A caller  *)
(* reads the clock before it takes the lock, so it may spend with an older *)
(* "now" than the bucket has seen.                                         *)
(*                                                                         *)
(* Tokens are counted in quanta, Price of them to a token (1.0 in the      *)
(* code), and the unit of time is the time in which rate_ yields one       *)
(* quantum: `elapsed * rate_` is then the elapsed time itself.             *)
(***************************************************************************)
EXTENDS Integers, FiniteSets

CONSTANTS
  Threads,     \* worker loops that call allow()
  Clients,     \* IPv4 addresses
  Overflow,    \* names the shared bucket
  Nobody,      \* a thread outside allow()
  kMaxBuckets, \* table size
  Price,       \* quanta per token
  Burst,       \* burst_, in quanta
  MaxLag,      \* longest time between a caller's clock reading and its turn
  MaxTime      \* bound on the clock

ASSUME ConstantsAssumption ==
  /\ IsFiniteSet(Clients) /\ Overflow \notin Clients /\ Nobody \notin Clients
  /\ kMaxBuckets \in Nat \ {0} /\ Price \in Nat \ {0}
  /\ Burst \in Nat /\ Burst >= Price
  /\ MaxLag \in Nat /\ MaxTime \in Nat

VARIABLES
  clock,     \* steady_clock
  asks,      \* asks[t]: the client thread t is asking for
  now,       \* now[t]: t's local now
  buckets,   \* buckets_
  overflow,  \* overflow_
  spent,     \* history: quanta taken by each key's served connections
  forgiven   \* history: quanta each client may have gained by being pruned

vars == <<clock, asks, now, buckets, overflow, spent, forgiven>>

Keys == Clients \cup {Overflow}
Bucket == [tokens : Int, last : 0..MaxTime]

Init ==
  /\ clock = 0
  /\ asks = [t \in Threads |-> Nobody]
  /\ now = [t \in Threads |-> 0]
  /\ buckets = [c \in {} |-> [tokens |-> 0, last |-> 0]]
  /\ overflow = [tokens |-> Burst, last |-> 0]
  /\ spent = [k \in Keys |-> 0]
  /\ forgiven = [k \in Keys |-> 0]

(* Mutant: the refill is not cut off at burst_. *)
RefillUncapped(b, n) == [tokens |-> b.tokens + (n - b.last), last |-> n]

(* spend, first half: lazy refill at the caller's now. *)
Refill(b, n) ==
  LET full == b.tokens + (n - b.last)
  IN  [tokens |-> IF full < Burst THEN full ELSE Burst, last |-> n]

CanPay(b, n) == Refill(b, n).tokens >= Price

(* spend: what is left of the bucket after the refill and the payment. *)
Spend(b, n) ==
  [Refill(b, n) EXCEPT !.tokens = IF CanPay(b, n) THEN @ - Price ELSE @]

(* Mutant: a full table throws everybody out, as an eviction would. *)
KeptNobody(n) ==
  IF Cardinality(DOMAIN buckets) >= kMaxBuckets THEN {} ELSE DOMAIN buckets

(* The clients still tracked after prune_locked, which runs only when the    *)
(* table is full.                                                            *)
Kept(n) ==
  {c \in DOMAIN buckets :
     Cardinality(DOMAIN buckets) >= kMaxBuckets
       => buckets[c].tokens + (n - buckets[c].last) < Burst}

HasRoom(n) == Cardinality(Kept(n)) < kMaxBuckets

(* allow, up to the lock: the caller reads the clock and waits. *)
ReadClock(t, c) ==
  /\ asks[t] = Nobody
  /\ asks' = [asks EXCEPT ![t] = c]
  /\ now' = [now EXCEPT ![t] = clock]
  /\ UNCHANGED <<clock, buckets, overflow, spent, forgiven>>

Pay(k, paid) == spent' = [spent EXCEPT ![k] = IF paid THEN @ + Price ELSE @]
Return(t) ==
  /\ asks' = [asks EXCEPT ![t] = Nobody]
  /\ now' = [now EXCEPT ![t] = 0]
  /\ UNCHANGED clock
Prune(n) ==
  forgiven' = [k \in Keys |-> IF k \in DOMAIN buckets \ Kept(n)
                              THEN forgiven[k] + MaxLag ELSE forgiven[k]]

(* allow for a client with a bucket of its own. *)
AllowTracked(t) ==
  LET c == asks[t] n == now[t] IN
  /\ c \in DOMAIN buckets
  /\ buckets' = [buckets EXCEPT ![c] = Spend(@, n)]
  /\ Pay(c, CanPay(buckets[c], n))
  /\ Return(t)
  /\ UNCHANGED <<overflow, forgiven>>

(* allow for a new client that finds or is made room. *)
AllowNew(t) ==
  LET c == asks[t] n == now[t] IN
  /\ c \in Clients \ DOMAIN buckets
  /\ HasRoom(n)
  /\ buckets' = [d \in Kept(n) \cup {c} |->
                   IF d = c THEN [tokens |-> Burst - Price, last |-> n] ELSE buckets[d]]
  /\ Pay(c, TRUE)
  /\ Prune(n)
  /\ Return(t)
  /\ UNCHANGED overflow

(* allow for a new client when the table is full even after pruning. *)
AllowOverflow(t) ==
  LET c == asks[t] n == now[t] IN
  /\ c \in Clients \ DOMAIN buckets
  /\ ~HasRoom(n)
  /\ buckets' = [d \in Kept(n) |-> buckets[d]]
  /\ overflow' = Spend(overflow, n)
  /\ Pay(Overflow, CanPay(overflow, n))
  /\ Prune(n)
  /\ Return(t)

(* The clock moves on; the scheduler keeps no caller waiting beyond MaxLag. *)
Tick ==
  /\ clock < MaxTime
  /\ \A t \in Threads : asks[t] # Nobody => clock - now[t] < MaxLag
  /\ clock' = clock + 1
  /\ UNCHANGED <<asks, now, buckets, overflow, spent, forgiven>>

Next ==
  \/ Tick
  \/ \E t \in Threads :
       \/ \E c \in Clients : ReadClock(t, c)
       \/ AllowTracked(t) \/ AllowNew(t) \/ AllowOverflow(t)

Spec == Init /\ [][Next]_vars
-----------------------------------------------------------------------------
(* Types, and the bound on memory: the table never holds more than           *)
(* kMaxBuckets clients, and no bucket is from the future.                    *)
TypeOK ==
  /\ clock \in 0..MaxTime
  /\ asks \in [Threads -> Clients \cup {Nobody}]
  /\ now \in [Threads -> 0..MaxTime]
  /\ DOMAIN buckets \subseteq Clients
  /\ Cardinality(DOMAIN buckets) <= kMaxBuckets
  /\ \A c \in DOMAIN buckets : buckets[c] \in Bucket
  /\ overflow \in Bucket
  /\ spent \in [Keys -> Nat] /\ forgiven \in [Keys -> Nat]

Capacity == Burst + MaxLag

(* What key k is good for at this instant: the refill its bucket would get.  *)
(* A client without a bucket is good for a full one.                         *)
Credit(k) ==
  IF k \in DOMAIN buckets \cup {Overflow}
  THEN LET b == IF k = Overflow THEN overflow ELSE buckets[k]
           full == b.tokens + (clock - b.last)
       IN  IF full < Capacity THEN full ELSE Capacity
  ELSE Capacity

(* No client gets more than its burst, plus the refill of the time that has  *)
(* passed, plus what its callers' late turns are worth: MaxLag once and once *)
(* more each time prune_locked forgot it.  With MaxLag = 0 this is burst +   *)
(* rate * t exactly, and pruning is free.                                    *)
WithinAllowance ==
  \A k \in Keys : spent[k] <= Capacity + clock + forgiven[k]

(* The two promises of rate_limiter.h: a client cannot exceed its rate, and  *)
(* clients without number cannot make the table grow.                        *)
LimitsHold == WithinAllowance /\ Cardinality(DOMAIN buckets) <= kMaxBuckets

TB == INSTANCE TokenBucket
        WITH Slack <- MaxLag, credit <- [k \in Keys |-> Credit(k)]

(* The table with its lazy refill, its stale clocks, its pruning and its     *)
(* overflow bucket implements the abstract token bucket: a served connection *)
(* always costs a token, a bucket is dropped only when it had refilled, and  *)
(* a client is refused only when it has used up its allowance.               *)
ImplementsTokenBucket == TB!Spec
=============================================================================
