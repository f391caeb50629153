-------------------------- MODULE RateLimiterProofs --------------------------
(***************************************************************************)
(* Theorems about RateLimiter, for any number of threads and clients and   *)
(* every rate, burst, table size, lag and run time: the two limits, and    *)
(* the refinement of TokenBucket.                                          *)
(***************************************************************************)
EXTENDS RateLimiter, FiniteSetTheorems, TLAPS

(* What bucket b is worth at a time, without and with the cut at Capacity. *)
Full(b, time) == b.tokens + (time - b.last)
Worth(b, time) == IF Full(b, time) < Capacity THEN Full(b, time) ELSE Capacity

(* A waiting caller's now is behind the clock, by no more than MaxLag.     *)
TurnsInTime ==
  \A t \in Threads : asks[t] # Nobody => now[t] <= clock /\ clock <= now[t] + MaxLag

(* A bucket may hold negative tokens after a late turn, but the time since *)
(* its last makes up for them.                                             *)
NoDebt ==
  /\ \A c \in DOMAIN buckets : Full(buckets[c], clock) >= 0
  /\ Full(overflow, clock) >= 0

(* The account of each key: what was spent and what is left came from the  *)
(* burst, the time that has passed and the forgiven late turns.            *)
Accounts == \A k \in Keys : spent[k] + Credit(k) <= Capacity + clock + forgiven[k]

LimiterInv == TypeOK /\ TurnsInTime /\ NoDebt /\ Accounts
-----------------------------------------------------------------------------
(* The buckets.                                                            *)

\* A late or timely turn on a bucket: its type, and what it costs.
LEMMA SpendFacts ==
  ASSUME NEW b \in Bucket, NEW n \in 0..MaxTime, NEW time \in 0..MaxTime,
         n <= time, time <= n + MaxLag, Full(b, time) >= 0
  PROVE  /\ Spend(b, n) \in Bucket
         /\ Full(Spend(b, n), time) >= 0
         /\ Worth(b, time) \in Nat /\ Worth(Spend(b, n), time) \in Nat
         /\ CanPay(b, n) =>
              /\ Worth(b, time) >= Price
              /\ Worth(Spend(b, n), time) <= Worth(b, time) - Price
              /\ \/ Worth(Spend(b, n), time) >= Burst - Price
                 \/ Worth(Spend(b, n), time) = Worth(b, time) - Price
         /\ ~CanPay(b, n) =>
              /\ Worth(Spend(b, n), time) = Worth(b, time)
              /\ Worth(b, time) < Price + MaxLag
<1>1. b.tokens \in Int /\ b.last \in 0..MaxTime
  BY DEF Bucket
<1>2. Spend(b, n) = [tokens |-> IF CanPay(b, n) THEN Refill(b, n).tokens - Price
                                                ELSE Refill(b, n).tokens, last |-> n]
  BY DEF Spend, Refill
<1>3. Refill(b, n).tokens = IF b.tokens + (n - b.last) < Burst
                            THEN b.tokens + (n - b.last) ELSE Burst
  BY DEF Refill
<1>4. /\ Refill(b, n).tokens \in Int
      /\ CanPay(b, n) <=> Refill(b, n).tokens >= Price
  BY <1>1, <1>3, ConstantsAssumption DEF CanPay
<1>5. Spend(b, n) \in Bucket
  BY <1>2, <1>4, ConstantsAssumption DEF Bucket
<1>6. /\ Full(b, time) = b.tokens + (time - b.last)
      /\ Full(Spend(b, n), time) =
           (IF CanPay(b, n) THEN Refill(b, n).tokens - Price ELSE Refill(b, n).tokens)
             + (time - n)
  BY <1>2 DEF Full
<1> HIDE DEF CanPay, Refill, Spend, Full
<1>7. QED
  BY <1>1, <1>3, <1>4, <1>5, <1>6, ConstantsAssumption DEF Worth, Capacity

\* Time adds at most one quantum to what a bucket is worth.
LEMMA TickFacts ==
  ASSUME NEW b \in Bucket, NEW time \in Nat, Full(b, time) >= 0
  PROVE  /\ Full(b, time + 1) >= 0
         /\ Worth(b, time) \in Nat
         /\ Worth(b, time + 1) =
              IF Worth(b, time) < Capacity THEN Worth(b, time) + 1 ELSE Capacity
<1>1. b.tokens \in Int /\ b.last \in Int
  BY DEF Bucket
<1>2. QED
  BY <1>1, ConstantsAssumption DEF Full, Worth, Capacity

\* A client's credit is what its bucket is worth, or a full one.
LEMMA CreditOf ==
  ASSUME LimiterInv, NEW k \in Keys
  PROVE  /\ k \in DOMAIN buckets => Credit(k) = Worth(buckets[k], clock)
         /\ k = Overflow => Credit(k) = Worth(overflow, clock)
         /\ k \notin DOMAIN buckets \cup {Overflow} => Credit(k) = Capacity
<1>1. Overflow \notin DOMAIN buckets
  BY ConstantsAssumption DEF LimiterInv, TypeOK
<1>2. QED
  BY <1>1 DEF Credit, Worth, Full

\* The same in the next state.
LEMMA CreditOfNext ==
  ASSUME TypeOK', NEW k \in Keys
  PROVE  /\ k \in DOMAIN buckets' => Credit(k)' = Worth(buckets'[k], clock')
         /\ k = Overflow => Credit(k)' = Worth(overflow', clock')
         /\ k \notin DOMAIN buckets' \cup {Overflow} => Credit(k)' = Capacity
<1>1. Overflow \notin DOMAIN buckets'
  BY ConstantsAssumption DEF TypeOK
<1>2. QED
  BY <1>1 DEF Credit, Worth, Full, Capacity

\* A credit is never negative and never above Capacity.
LEMMA CreditRange ==
  ASSUME LimiterInv, NEW k \in Keys
  PROVE  Credit(k) \in 0..Capacity
<1>1. CASE k \in DOMAIN buckets
  <2>1. buckets[k] \in Bucket /\ clock \in Nat /\ Full(buckets[k], clock) >= 0
    BY <1>1 DEF LimiterInv, TypeOK, NoDebt
  <2>2. Worth(buckets[k], clock) \in Nat
    BY <2>1, TickFacts
  <2>3. QED
    BY <1>1, <2>2, CreditOf, ConstantsAssumption DEF Worth, Capacity
<1>2. CASE k = Overflow
  <2>1. overflow \in Bucket /\ clock \in Nat /\ Full(overflow, clock) >= 0
    BY DEF LimiterInv, TypeOK, NoDebt
  <2>2. Worth(overflow, clock) \in Nat
    BY <2>1, TickFacts
  <2>3. QED
    BY <1>2, <2>2, CreditOf, ConstantsAssumption DEF Worth, Capacity
<1>3. CASE k \notin DOMAIN buckets \cup {Overflow}
  BY <1>3, CreditOf, ConstantsAssumption DEF Capacity
<1>4. QED
  BY <1>1, <1>2, <1>3

\* prune_locked: the table only shrinks, and a client is dropped only when its
\* bucket is worth a burst.
LEMMA KeptFacts ==
  ASSUME LimiterInv, NEW t \in Threads, asks[t] # Nobody
  PROVE  /\ Kept(now[t]) \subseteq DOMAIN buckets
         /\ IsFiniteSet(Kept(now[t]))
         /\ Cardinality(Kept(now[t])) \in Nat
         /\ Cardinality(Kept(now[t])) <= kMaxBuckets
         /\ \A d \in DOMAIN buckets \ Kept(now[t]) : Credit(d) >= Burst
<1>1. Kept(now[t]) \subseteq DOMAIN buckets /\ DOMAIN buckets \subseteq Clients
  BY DEF Kept, LimiterInv, TypeOK
<1>2. IsFiniteSet(DOMAIN buckets)
  BY <1>1, FS_Subset, ConstantsAssumption
<1>3. /\ IsFiniteSet(Kept(now[t]))
      /\ Cardinality(Kept(now[t])) <= Cardinality(DOMAIN buckets)
  BY <1>1, <1>2, FS_Subset
<1>4. Cardinality(Kept(now[t])) \in Nat /\ Cardinality(DOMAIN buckets) \in Nat
  BY <1>2, <1>3, FS_CardinalityType
<1>5. Cardinality(Kept(now[t])) <= kMaxBuckets
  BY <1>3, <1>4, ConstantsAssumption DEF LimiterInv, TypeOK
<1>6. ASSUME NEW d \in DOMAIN buckets \ Kept(now[t])
      PROVE  Credit(d) >= Burst
  <2>1. ~(buckets[d].tokens + (now[t] - buckets[d].last) < Burst)
    BY DEF Kept
  <2>2. buckets[d].tokens \in Int /\ buckets[d].last \in Int /\ buckets[d] \in Bucket
    BY DEF LimiterInv, TypeOK, Bucket
  <2>3. now[t] \in Int /\ clock \in Int /\ now[t] <= clock
    BY DEF LimiterInv, TypeOK, TurnsInTime
  <2>4. Full(buckets[d], clock) >= Burst /\ Full(buckets[d], clock) \in Int
    BY <2>1, <2>2, <2>3, ConstantsAssumption DEF Full
  <2>5. d \in Keys
    BY <1>1 DEF Keys
  <2>6. QED
    BY <2>4, <2>5, CreditOf, ConstantsAssumption DEF Worth, Capacity
<1>7. QED
  BY <1>1, <1>3, <1>4, <1>5, <1>6
-----------------------------------------------------------------------------
(* One turn of a caller, seen as the abstract bucket sees it: key k is     *)
(* served or refused while the keys of F are forgotten.                    *)

Forgets(k, F) ==
  /\ \A f \in F : Credit(f) >= Burst
  /\ \A j \in Keys \ {k} : Credit(j)' = IF j \in F THEN Capacity ELSE Credit(j)
  /\ forgiven' = [j \in Keys |-> IF j \in F THEN forgiven[j] + MaxLag ELSE forgiven[j]]
  /\ clock' = clock

Serves(k, F) ==
  /\ Forgets(k, F)
  /\ Credit(k) >= Price
  /\ Credit(k)' \in Nat /\ Credit(k)' <= Credit(k) - Price
  /\ Credit(k)' >= Burst - Price \/ Credit(k)' = Credit(k) - Price
  /\ spent' = [spent EXCEPT ![k] = @ + Price]

Refuses(k, F) ==
  /\ Forgets(k, F)
  /\ Credit(k)' = Credit(k)
  /\ Credit(k) < Price + MaxLag
  /\ spent' = spent

Turn == \E k \in Keys : \E F \in SUBSET (Keys \ {k}) : Serves(k, F) \/ Refuses(k, F)

\* Who gets a turn is waiting, with a clock reading that is not too old.
LEMMA Waiting ==
  ASSUME LimiterInv, NEW t \in Threads, asks[t] \in Clients
  PROVE  /\ asks[t] # Nobody /\ asks[t] \in Keys
         /\ now[t] \in 0..MaxTime /\ clock \in 0..MaxTime
         /\ now[t] <= clock /\ clock <= now[t] + MaxLag
  BY ConstantsAssumption DEF LimiterInv, TypeOK, TurnsInTime, Keys

\* The caller leaves allow(): types and turns of all threads.
LEMMA ReturnFacts ==
  ASSUME LimiterInv, NEW t \in Threads, Return(t)
  PROVE  /\ clock' = clock /\ clock' \in 0..MaxTime
         /\ asks' \in [Threads -> Clients \cup {Nobody}]
         /\ now' \in [Threads -> 0..MaxTime]
         /\ TurnsInTime'
<1>1. 0 \in 0..MaxTime
  BY ConstantsAssumption
<1>2. QED
  BY <1>1 DEF LimiterInv, TypeOK, Return, TurnsInTime

\* allow for a tracked client.
LEMMA TrackedTurn ==
  ASSUME LimiterInv, NEW t \in Threads, AllowTracked(t)
  PROVE  TypeOK' /\ TurnsInTime' /\ NoDebt' /\ Turn
<1> SUFFICES ASSUME NEW c, c = asks[t], NEW n, n = now[t], NEW old, old = buckets[c]
             PROVE  TypeOK' /\ TurnsInTime' /\ NoDebt' /\ Turn
  OBVIOUS
<1>1. /\ c \in DOMAIN buckets
      /\ buckets' = [buckets EXCEPT ![c] = Spend(old, n)]
      /\ spent' = [spent EXCEPT ![c] = IF CanPay(old, n) THEN @ + Price ELSE @]
      /\ Return(t)
      /\ overflow' = overflow /\ forgiven' = forgiven
  BY DEF AllowTracked, Pay
<1>2. c \in Clients /\ c \in Keys /\ c # Overflow
  BY <1>1, ConstantsAssumption DEF LimiterInv, TypeOK, Keys
<1>3. /\ n \in 0..MaxTime /\ clock \in 0..MaxTime
      /\ n <= clock /\ clock <= n + MaxLag
  BY <1>2, Waiting
<1>4. old \in Bucket /\ Full(old, clock) >= 0
  BY <1>1 DEF LimiterInv, TypeOK, NoDebt
<1>5. /\ clock' = clock /\ clock' \in 0..MaxTime
      /\ asks' \in [Threads -> Clients \cup {Nobody}]
      /\ now' \in [Threads -> 0..MaxTime]
      /\ TurnsInTime'
  BY <1>1, ReturnFacts
<1>6. /\ Spend(old, n) \in Bucket /\ Full(Spend(old, n), clock) >= 0
      /\ Worth(old, clock) \in Nat /\ Worth(Spend(old, n), clock) \in Nat
      /\ CanPay(old, n) =>
              /\ Worth(old, clock) >= Price
              /\ Worth(Spend(old, n), clock) <= Worth(old, clock) - Price
              /\ \/ Worth(Spend(old, n), clock) >= Burst - Price
                 \/ Worth(Spend(old, n), clock) = Worth(old, clock) - Price
      /\ ~CanPay(old, n) =>
              /\ Worth(Spend(old, n), clock) = Worth(old, clock)
              /\ Worth(old, clock) < Price + MaxLag
  BY <1>3, <1>4, SpendFacts
<1>7. /\ DOMAIN buckets' = DOMAIN buckets
      /\ buckets'[c] = Spend(old, n)
      /\ \A d \in DOMAIN buckets \ {c} : buckets'[d] = buckets[d]
  BY <1>1
<1>8. spent' \in [Keys -> Nat] /\ forgiven' \in [Keys -> Nat]
  BY <1>1, <1>2, ConstantsAssumption DEF LimiterInv, TypeOK
<1>9. TypeOK'
  BY <1>1, <1>5, <1>6, <1>7, <1>8 DEF LimiterInv, TypeOK
<1>10. NoDebt'
  BY <1>1, <1>5, <1>6, <1>7 DEF LimiterInv, NoDebt
<1>11. Credit(c) = Worth(old, clock) /\ Credit(c)' = Worth(Spend(old, n), clock)
  BY <1>1, <1>2, <1>5, <1>7, <1>9, CreditOf, CreditOfNext
<1>12. \A j \in Keys \ {c} : Credit(j)' = Credit(j)
  BY <1>1, <1>2, <1>5, <1>7, <1>9, CreditOf, CreditOfNext
<1>13. Forgets(c, {})
  <2>1. forgiven = [j \in Keys |-> forgiven[j]]
    BY DEF LimiterInv, TypeOK
  <2>2. QED
    BY <1>1, <1>5, <1>12, <2>1 DEF Forgets
<1>14. Serves(c, {}) \/ Refuses(c, {})
  <2>1. CASE CanPay(old, n)
    BY <1>1, <1>6, <1>11, <1>13, <2>1 DEF Serves
  <2>2. CASE ~CanPay(old, n)
    <3>1. spent' = spent
      BY <1>1, <2>2 DEF LimiterInv, TypeOK
    <3>2. QED
      BY <1>6, <1>11, <1>13, <2>2, <3>1 DEF Refuses
  <2>3. QED
    BY <2>1, <2>2
<1>15. Turn
  <2>1. {} \in SUBSET (Keys \ {c})
    OBVIOUS
  <2>2. QED
    BY <1>2, <1>14, <2>1 DEF Turn
<1>16. QED
  BY <1>5, <1>9, <1>10, <1>15

\* allow for a new client that gets a bucket: like a full one it then pays from.
LEMMA NewTurn ==
  ASSUME LimiterInv, NEW t \in Threads, AllowNew(t)
  PROVE  TypeOK' /\ TurnsInTime' /\ NoDebt' /\ Turn
<1> SUFFICES ASSUME NEW c, c = asks[t], NEW n, n = now[t], NEW kept, kept = Kept(n),
                    NEW F, F = DOMAIN buckets \ kept
             PROVE  TypeOK' /\ TurnsInTime' /\ NoDebt' /\ Turn
  OBVIOUS
<1> DEFINE fresh == [tokens |-> Burst - Price, last |-> n]
<1>1. /\ c \in Clients \ DOMAIN buckets
      /\ Cardinality(kept) < kMaxBuckets
      /\ buckets' = [d \in kept \cup {c} |-> IF d = c THEN fresh ELSE buckets[d]]
      /\ spent' = [spent EXCEPT ![c] = @ + Price]
      /\ forgiven' = [k \in Keys |-> IF k \in F THEN forgiven[k] + MaxLag ELSE forgiven[k]]
      /\ Return(t)
      /\ overflow' = overflow
  BY DEF AllowNew, Pay, Prune, HasRoom
<1>2. c \in Keys /\ c # Overflow /\ asks[t] # Nobody
  BY <1>1, ConstantsAssumption DEF Keys
<1>3. /\ n \in 0..MaxTime /\ clock \in 0..MaxTime
      /\ n <= clock /\ clock <= n + MaxLag
  BY <1>1, Waiting
<1>4. /\ kept \subseteq DOMAIN buckets /\ IsFiniteSet(kept) /\ Cardinality(kept) \in Nat
      /\ \A d \in F : Credit(d) >= Burst
  BY <1>2, KeptFacts
<1>5. /\ clock' = clock /\ clock' \in 0..MaxTime
      /\ asks' \in [Threads -> Clients \cup {Nobody}]
      /\ now' \in [Threads -> 0..MaxTime]
      /\ TurnsInTime'
  BY <1>1, ReturnFacts
<1>6. /\ fresh \in Bucket
      /\ Full(fresh, clock) >= 0
      /\ Worth(fresh, clock) \in Nat
      /\ Worth(fresh, clock) >= Burst - Price
      /\ Worth(fresh, clock) <= Capacity - Price
  BY <1>3, ConstantsAssumption DEF Bucket, Full, Worth, Capacity
<1> HIDE DEF fresh
<1>7. /\ DOMAIN buckets' = kept \cup {c}
      /\ buckets'[c] = fresh
      /\ \A d \in kept : d # c /\ buckets'[d] = buckets[d]
      /\ DOMAIN buckets' \subseteq Clients /\ DOMAIN buckets \subseteq Clients
  BY <1>1, <1>4 DEF LimiterInv, TypeOK
<1>8. Cardinality(DOMAIN buckets') <= kMaxBuckets
  <2>1. Cardinality(kept \cup {c}) = Cardinality(kept) + 1
    BY <1>1, <1>4, FS_AddElement
  <2>2. QED
    BY <1>1, <1>4, <1>7, <2>1, ConstantsAssumption
<1>9. spent' \in [Keys -> Nat] /\ forgiven' \in [Keys -> Nat]
  BY <1>1, <1>2, ConstantsAssumption DEF LimiterInv, TypeOK
<1>10. \A d \in DOMAIN buckets' : buckets'[d] \in Bucket
  BY <1>4, <1>6, <1>7 DEF LimiterInv, TypeOK
<1>11. TypeOK'
  BY <1>1, <1>5, <1>7, <1>8, <1>9, <1>10 DEF LimiterInv, TypeOK
<1>12. NoDebt'
  BY <1>1, <1>4, <1>5, <1>6, <1>7 DEF LimiterInv, NoDebt
<1>13. Credit(c) = Capacity /\ Credit(c)' = Worth(fresh, clock)
  BY <1>1, <1>2, <1>5, <1>7, <1>11, CreditOf, CreditOfNext
<1>14. \A j \in Keys \ {c} : Credit(j)' = IF j \in F THEN Capacity ELSE Credit(j)
  <2>1. SUFFICES ASSUME NEW j \in Keys \ {c}
                 PROVE  Credit(j)' = IF j \in F THEN Capacity ELSE Credit(j)
    OBVIOUS
  <2>2. Overflow \notin DOMAIN buckets /\ Overflow \notin F
    BY <1>7, ConstantsAssumption
  <2>3. CASE j \in F
    BY <1>7, <1>11, <2>2, <2>3, CreditOfNext
  <2>4. CASE j \in kept
    BY <1>4, <1>5, <1>7, <1>11, <2>4, CreditOf, CreditOfNext
  <2>5. CASE j = Overflow
    BY <1>1, <1>5, <1>11, <2>2, <2>5, CreditOf, CreditOfNext
  <2>6. CASE j \notin DOMAIN buckets /\ j # Overflow
    BY <1>4, <1>7, <1>11, <2>6, CreditOf, CreditOfNext
  <2>7. QED
    BY <2>3, <2>4, <2>5, <2>6
<1>15. F \in SUBSET (Keys \ {c})
  BY <1>1, <1>7 DEF Keys
<1>16. Forgets(c, F)
  BY <1>1, <1>4, <1>5, <1>14 DEF Forgets
<1>17. Serves(c, F)
  BY <1>1, <1>6, <1>13, <1>16, ConstantsAssumption DEF Serves, Capacity
<1>18. QED
  BY <1>2, <1>5, <1>11, <1>12, <1>15, <1>17 DEF Turn

\* allow for a new client without room: the overflow bucket pays, or refuses.
LEMMA OverflowTurn ==
  ASSUME LimiterInv, NEW t \in Threads, AllowOverflow(t)
  PROVE  TypeOK' /\ TurnsInTime' /\ NoDebt' /\ Turn
<1> SUFFICES ASSUME NEW c, c = asks[t], NEW n, n = now[t], NEW kept, kept = Kept(n),
                    NEW F, F = DOMAIN buckets \ kept, NEW old, old = overflow
             PROVE  TypeOK' /\ TurnsInTime' /\ NoDebt' /\ Turn
  OBVIOUS
<1>1. /\ c \in Clients \ DOMAIN buckets
      /\ buckets' = [d \in kept |-> buckets[d]]
      /\ spent' = [spent EXCEPT ![Overflow] = IF CanPay(old, n) THEN @ + Price ELSE @]
      /\ forgiven' = [k \in Keys |-> IF k \in F THEN forgiven[k] + MaxLag ELSE forgiven[k]]
      /\ Return(t)
      /\ overflow' = Spend(old, n)
  BY DEF AllowOverflow, Pay, Prune
<1>2. Overflow \in Keys /\ asks[t] # Nobody
  BY <1>1, ConstantsAssumption DEF Keys
<1>3. /\ n \in 0..MaxTime /\ clock \in 0..MaxTime
      /\ n <= clock /\ clock <= n + MaxLag
  BY <1>1, Waiting
<1>4. /\ kept \subseteq DOMAIN buckets /\ Cardinality(kept) <= kMaxBuckets
      /\ \A d \in F : Credit(d) >= Burst
  BY <1>2, KeptFacts
<1>5. /\ clock' = clock /\ clock' \in 0..MaxTime
      /\ asks' \in [Threads -> Clients \cup {Nobody}]
      /\ now' \in [Threads -> 0..MaxTime]
      /\ TurnsInTime'
  BY <1>1, ReturnFacts
<1>6. old \in Bucket /\ Full(old, clock) >= 0
  BY DEF LimiterInv, TypeOK, NoDebt
<1>7. /\ Spend(old, n) \in Bucket /\ Full(Spend(old, n), clock) >= 0
      /\ Worth(old, clock) \in Nat /\ Worth(Spend(old, n), clock) \in Nat
      /\ CanPay(old, n) =>
              /\ Worth(old, clock) >= Price
              /\ Worth(Spend(old, n), clock) <= Worth(old, clock) - Price
              /\ \/ Worth(Spend(old, n), clock) >= Burst - Price
                 \/ Worth(Spend(old, n), clock) = Worth(old, clock) - Price
      /\ ~CanPay(old, n) =>
              /\ Worth(Spend(old, n), clock) = Worth(old, clock)
              /\ Worth(old, clock) < Price + MaxLag
  BY <1>3, <1>6, SpendFacts
<1>8. /\ DOMAIN buckets' = kept
      /\ \A d \in kept : buckets'[d] = buckets[d]
      /\ DOMAIN buckets' \subseteq Clients /\ DOMAIN buckets \subseteq Clients
  BY <1>1, <1>4 DEF LimiterInv, TypeOK
<1>9. spent' \in [Keys -> Nat] /\ forgiven' \in [Keys -> Nat]
  BY <1>1, <1>2, ConstantsAssumption DEF LimiterInv, TypeOK
<1>10. \A d \in DOMAIN buckets' : buckets'[d] \in Bucket
  BY <1>4, <1>8 DEF LimiterInv, TypeOK
<1>11. TypeOK'
  BY <1>1, <1>4, <1>5, <1>7, <1>8, <1>9, <1>10 DEF LimiterInv, TypeOK
<1>12. NoDebt'
  BY <1>1, <1>4, <1>5, <1>7, <1>8 DEF LimiterInv, NoDebt
<1>13. Credit(Overflow) = Worth(old, clock) /\ Credit(Overflow)' = Worth(Spend(old, n), clock)
  BY <1>1, <1>2, <1>5, <1>11, CreditOf, CreditOfNext
<1>14. \A j \in Keys \ {Overflow} : Credit(j)' = IF j \in F THEN Capacity ELSE Credit(j)
  <2>1. SUFFICES ASSUME NEW j \in Keys \ {Overflow}
                 PROVE  Credit(j)' = IF j \in F THEN Capacity ELSE Credit(j)
    OBVIOUS
  <2>2. CASE j \in F
    BY <1>8, <1>11, <2>2, CreditOfNext
  <2>3. CASE j \in kept
    BY <1>4, <1>5, <1>8, <1>11, <2>3, CreditOf, CreditOfNext
  <2>4. CASE j \notin DOMAIN buckets
    BY <1>4, <1>8, <1>11, <2>4, CreditOf, CreditOfNext
  <2>5. QED
    BY <2>2, <2>3, <2>4
<1>15. F \in SUBSET (Keys \ {Overflow})
  BY <1>8, ConstantsAssumption DEF Keys
<1>16. Forgets(Overflow, F)
  BY <1>1, <1>4, <1>5, <1>14 DEF Forgets
<1>17. Serves(Overflow, F) \/ Refuses(Overflow, F)
  <2>1. CASE CanPay(old, n)
    BY <1>1, <1>7, <1>13, <1>16, <2>1 DEF Serves
  <2>2. CASE ~CanPay(old, n)
    <3>1. spent' = spent
      BY <1>1, <2>2 DEF LimiterInv, TypeOK
    <3>2. QED
      BY <1>7, <1>13, <1>16, <2>2, <3>1 DEF Refuses
  <2>3. QED
    BY <2>1, <2>2
<1>18. QED
  BY <1>2, <1>5, <1>11, <1>12, <1>15, <1>17 DEF Turn
-----------------------------------------------------------------------------
(* The invariant.                                                          *)

\* Time passes: every key gains at most what the clock does.
LEMMA TickStep ==
  ASSUME LimiterInv, Tick
  PROVE  /\ LimiterInv'
         /\ \A k \in Keys : Credit(k)' = IF Credit(k) < Capacity THEN Credit(k) + 1 ELSE Capacity
<1>1. /\ clock' = clock + 1 /\ clock \in 0..MaxTime /\ clock' \in 0..MaxTime
      /\ asks' = asks /\ now' = now /\ buckets' = buckets /\ overflow' = overflow
      /\ spent' = spent /\ forgiven' = forgiven
  BY ConstantsAssumption DEF Tick, LimiterInv, TypeOK
<1>2. TypeOK'
  BY <1>1 DEF LimiterInv, TypeOK
<1>3. TurnsInTime'
  <2>1. \A t \in Threads : asks[t] # Nobody =>
          now[t] \in Int /\ now[t] <= clock /\ clock - now[t] < MaxLag
    BY DEF Tick, LimiterInv, TypeOK, TurnsInTime
  <2>2. QED
    BY <1>1, <2>1, ConstantsAssumption DEF TurnsInTime
<1>4. NoDebt'
  <2>1. \A c \in DOMAIN buckets : buckets[c] \in Bucket /\ Full(buckets[c], clock) >= 0
    BY DEF LimiterInv, TypeOK, NoDebt
  <2>2. overflow \in Bucket /\ Full(overflow, clock) >= 0 /\ clock \in Nat
    BY <1>1 DEF LimiterInv, TypeOK, NoDebt
  <2>3. \A c \in DOMAIN buckets : Full(buckets[c], clock + 1) >= 0
    BY <2>1, <2>2, TickFacts
  <2>4. Full(overflow, clock + 1) >= 0
    BY <2>2, TickFacts
  <2>5. QED
    BY <1>1, <2>3, <2>4 DEF NoDebt
<1>5. ASSUME NEW k \in Keys
      PROVE  Credit(k)' = IF Credit(k) < Capacity THEN Credit(k) + 1 ELSE Capacity
  <2>1. CASE k \in DOMAIN buckets
    <3>1. buckets[k] \in Bucket /\ clock \in Nat /\ Full(buckets[k], clock) >= 0
      BY <2>1 DEF LimiterInv, TypeOK, NoDebt
    <3>2. QED
      BY <1>1, <1>2, <2>1, <3>1, CreditOf, CreditOfNext, TickFacts
  <2>2. CASE k = Overflow
    <3>1. overflow \in Bucket /\ clock \in Nat /\ Full(overflow, clock) >= 0
      BY DEF LimiterInv, TypeOK, NoDebt
    <3>2. QED
      BY <1>1, <1>2, <2>2, <3>1, CreditOf, CreditOfNext, TickFacts
  <2>3. CASE k \notin DOMAIN buckets \cup {Overflow}
    BY <1>1, <1>2, <2>3, CreditOf, CreditOfNext, ConstantsAssumption DEF Capacity
  <2>4. QED
    BY <2>1, <2>2, <2>3
<1>6. Accounts'
  <2>1. SUFFICES ASSUME NEW k \in Keys
                 PROVE  spent'[k] + Credit(k)' <= Capacity + clock' + forgiven'[k]
    BY DEF Accounts, Capacity
  <2>2. /\ spent[k] \in Nat /\ forgiven[k] \in Nat /\ Credit(k) \in 0..Capacity
        /\ spent[k] + Credit(k) <= Capacity + clock + forgiven[k]
    BY CreditRange DEF LimiterInv, TypeOK, Accounts
  <2>3. QED
    BY <1>1, <1>5, <2>2, ConstantsAssumption DEF Capacity
<1>7. QED
  BY <1>2, <1>3, <1>4, <1>5, <1>6 DEF LimiterInv

\* A caller reads the clock: no bucket changes.
LEMMA ReadClockStep ==
  ASSUME LimiterInv, NEW t \in Threads, NEW c \in Clients, ReadClock(t, c)
  PROVE  LimiterInv' /\ \A k \in Keys : Credit(k)' = Credit(k)
<1>1. /\ clock' = clock /\ buckets' = buckets /\ overflow' = overflow
      /\ spent' = spent /\ forgiven' = forgiven
      /\ asks' = [asks EXCEPT ![t] = c] /\ now' = [now EXCEPT ![t] = clock]
  BY DEF ReadClock
<1>2. TypeOK' /\ TurnsInTime' /\ NoDebt'
  BY <1>1, ConstantsAssumption DEF LimiterInv, TypeOK, TurnsInTime, NoDebt
<1>3. \A k \in Keys : Credit(k)' = Credit(k)
  BY <1>1 DEF Credit, Capacity
<1>4. Accounts'
  BY <1>1, <1>3 DEF LimiterInv, Accounts, Capacity
<1>5. QED
  BY <1>2, <1>3, <1>4 DEF LimiterInv

\* A turn keeps the accounts: a payment lowers the credit by as much, and what a
\* forgotten client gains is forgiven.
LEMMA TurnKeepsAccounts ==
  ASSUME LimiterInv, Turn
  PROVE  Accounts'
<1>1. PICK k \in Keys : \E F \in SUBSET (Keys \ {k}) : Serves(k, F) \/ Refuses(k, F)
  BY DEF Turn
<1>2. PICK F \in SUBSET (Keys \ {k}) : Serves(k, F) \/ Refuses(k, F)
  BY <1>1
<1>3. Forgets(k, F)
  BY <1>2 DEF Serves, Refuses
<1>4. SUFFICES ASSUME NEW j \in Keys
               PROVE  spent'[j] + Credit(j)' <= Capacity + clock' + forgiven'[j]
  BY DEF Accounts, Capacity
<1>5. /\ spent[j] \in Nat /\ forgiven[j] \in Nat /\ Credit(j) \in 0..Capacity /\ clock \in Nat
      /\ spent[j] + Credit(j) <= Capacity + clock + forgiven[j]
  BY CreditRange DEF LimiterInv, TypeOK, Accounts
<1>6. clock' = clock /\ forgiven'[j] = IF j \in F THEN forgiven[j] + MaxLag ELSE forgiven[j]
  BY <1>3 DEF Forgets
<1>7. CASE j # k
  <2>1. spent'[j] = spent[j]
    BY <1>2, <1>7 DEF Serves, Refuses, LimiterInv, TypeOK
  <2>2. Credit(j)' = IF j \in F THEN Capacity ELSE Credit(j)
    BY <1>3, <1>7 DEF Forgets
  <2>3. j \in F => Credit(j) >= Burst
    BY <1>3 DEF Forgets
  <2>4. QED
    BY <1>5, <1>6, <2>1, <2>2, <2>3, ConstantsAssumption DEF Capacity
<1>8. CASE j = k
  <2>1. j \notin F
    BY <1>8
  <2>2. CASE Serves(k, F)
    <3>1. /\ spent'[j] = spent[j] + Price
          /\ Credit(j)' \in Nat /\ Credit(j)' <= Credit(j) - Price
      BY <1>8, <2>2 DEF Serves, LimiterInv, TypeOK
    <3>2. QED
      BY <1>5, <1>6, <2>1, <3>1, ConstantsAssumption DEF Capacity
  <2>3. CASE Refuses(k, F)
    BY <1>5, <1>6, <1>8, <2>1, <2>3 DEF Refuses
  <2>4. QED
    BY <1>2, <2>2, <2>3
<1>9. QED
  BY <1>7, <1>8

\* Every step keeps the invariant.
LEMMA LimiterInvNext ==
  ASSUME LimiterInv, [Next]_vars
  PROVE  LimiterInv'
<1>1. CASE Tick
  BY <1>1, TickStep
<1>2. ASSUME NEW t \in Threads, NEW c \in Clients, ReadClock(t, c)
      PROVE  LimiterInv'
  BY <1>2, ReadClockStep
<1>3. ASSUME NEW t \in Threads, AllowTracked(t) \/ AllowNew(t) \/ AllowOverflow(t)
      PROVE  LimiterInv'
  BY <1>3, TrackedTurn, NewTurn, OverflowTurn, TurnKeepsAccounts DEF LimiterInv
<1>4. CASE UNCHANGED vars
  BY <1>4 DEF vars, LimiterInv, TypeOK, TurnsInTime, NoDebt, Accounts, Credit, Capacity
<1>5. QED
  BY <1>1, <1>2, <1>3, <1>4 DEF Next

\* The empty table satisfies it.
LEMMA LimiterInvInit == Init => LimiterInv
<1>1. SUFFICES ASSUME Init PROVE LimiterInv
  OBVIOUS
<1>2. DOMAIN buckets = {} /\ overflow = [tokens |-> Burst, last |-> 0] /\ clock = 0
  BY <1>1 DEF Init
<1>3. Cardinality(DOMAIN buckets) = 0
  BY <1>2, FS_EmptySet
<1>4. TypeOK
  BY <1>1, <1>2, <1>3, ConstantsAssumption DEF Init, TypeOK, Bucket
<1>5. TurnsInTime
  BY <1>1 DEF Init, TurnsInTime
<1>6. NoDebt
  BY <1>2, ConstantsAssumption DEF NoDebt, Full
<1>7. Accounts
  BY <1>1, <1>2, ConstantsAssumption DEF Init, Accounts, Credit, Capacity
<1>8. QED
  BY <1>4, <1>5, <1>6, <1>7 DEF LimiterInv

\* The inductive invariant holds throughout.
LEMMA LimiterInvariant == Spec => []LimiterInv
  BY LimiterInvInit, LimiterInvNext, PTL DEF Spec
-----------------------------------------------------------------------------
(* rate_limiter.h's promises: no client exceeds its rate, however late its *)
(* callers get their turn and whenever the table is pruned, and the table  *)
(* is bounded.                                                             *)
THEOREM LimitsKept == Spec => []LimitsHold
<1>1. LimiterInv => LimitsHold
  <2>1. SUFFICES ASSUME LimiterInv PROVE LimitsHold
    OBVIOUS
  <2>2. \A k \in Keys : /\ spent[k] \in Nat /\ forgiven[k] \in Nat /\ clock \in Nat
                        /\ Credit(k) \in 0..Capacity
                        /\ spent[k] + Credit(k) <= Capacity + clock + forgiven[k]
    BY <2>1, CreditRange DEF LimiterInv, TypeOK, Accounts
  <2>3. WithinAllowance
    BY <2>2, ConstantsAssumption DEF WithinAllowance, Capacity
  <2>4. QED
    BY <2>1, <2>3 DEF LimiterInv, TypeOK, LimitsHold
<1>2. QED
  BY <1>1, LimiterInvariant, PTL

(* The table implements the abstract token bucket: time is its Elapse, a   *)
(* turn that pays its Serve, one that does not its Refuse, and the reading *)
(* of the clock a stutter.                                                 *)
THEOREM RefinesTokenBucket == Spec => ImplementsTokenBucket
<1> DEFINE bar == [k \in Keys |-> Credit(k)]
<1>1. Init => TB!Init
  <2>1. SUFFICES ASSUME Init PROVE bar \in [Keys -> Burst .. Capacity]
    BY DEF TB!Init, TB!Capacity, Capacity
  <2>2. \A k \in Keys : Credit(k) \in Burst .. Capacity
    BY <2>1, ConstantsAssumption DEF Init, Credit, Capacity
  <2>3. QED
    BY <2>2
<1>2. LimiterInv /\ [Next]_vars => [TB!Next]_bar
  <2>1. SUFFICES ASSUME LimiterInv, [Next]_vars PROVE [TB!Next]_bar
    OBVIOUS
  <2>2. CASE Tick
    <3>1. \A k \in Keys : Credit(k)' = IF bar[k] < Capacity THEN bar[k] + 1 ELSE Capacity
      BY <2>1, <2>2, TickStep
    <3>2. TB!Elapse
      BY <3>1 DEF TB!Elapse, TB!Capacity, Capacity
    <3>3. QED
      BY <3>2 DEF TB!Next
  <2>3. ASSUME NEW t \in Threads, NEW c \in Clients, ReadClock(t, c)
        PROVE  bar' = bar
    BY <2>1, <2>3, ReadClockStep
  <2>4. ASSUME NEW t \in Threads, AllowTracked(t) \/ AllowNew(t) \/ AllowOverflow(t)
        PROVE  TB!Next
    <3>1. Turn
      BY <2>1, <2>4, TrackedTurn, NewTurn, OverflowTurn
    <3>2. PICK k \in Keys : \E F \in SUBSET (Keys \ {k}) : Serves(k, F) \/ Refuses(k, F)
      BY <3>1 DEF Turn
    <3>3. PICK F \in SUBSET (Keys \ {k}) : Serves(k, F) \/ Refuses(k, F)
      BY <3>2
    <3>4. Forgets(k, F) /\ F \subseteq Keys /\ k \notin F
      BY <3>3 DEF Serves, Refuses
    <3>5. TB!Forgettable(F)
      BY <3>4 DEF TB!Forgettable, Forgets
    <3>6. Credit(k) \in 0..Capacity
      BY <2>1, CreditRange
    <3>7. CASE Serves(k, F)
      <4>1. /\ bar' = [j \in Keys |-> IF j = k THEN Credit(k)'
                                      ELSE IF j \in F THEN Capacity ELSE bar[j]]
        BY <3>4 DEF Forgets
      <4>2. Credit(k)' \in (Burst - Price .. bar[k] - Price) \cup {bar[k] - Price}
        BY <3>6, <3>7, ConstantsAssumption DEF Serves, Capacity
      <4>3. TB!Serve(k, F)
        BY <3>5, <3>7, <4>1, <4>2 DEF TB!Serve, TB!Capacity, Capacity, Serves
      <4>4. QED
        BY <4>3 DEF TB!Next
    <3>8. CASE Refuses(k, F)
      <4>1. /\ bar' = [j \in Keys |-> IF j \in F THEN Capacity ELSE bar[j]]
            /\ bar[k] < Price + MaxLag
        BY <3>4, <3>8 DEF Forgets, Refuses
      <4>2. TB!Refuse(k, F)
        BY <3>5, <4>1 DEF TB!Refuse, TB!Capacity, Capacity
      <4>3. QED
        BY <4>2 DEF TB!Next
    <3>9. QED
      BY <3>3, <3>7, <3>8
  <2>5. CASE UNCHANGED vars
    BY <2>5 DEF vars, Credit, Capacity
  <2>6. QED
    BY <2>1, <2>2, <2>3, <2>4, <2>5 DEF Next
<1>3. QED
  BY <1>1, <1>2, LimiterInvariant, PTL DEF Spec, ImplementsTokenBucket, TB!Spec
=============================================================================
