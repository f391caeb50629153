----------------------------- MODULE TokenBucket -----------------------------
(***************************************************************************)
(* What the rate limiter promises, without tables, locks or clocks: every  *)
(* key holds credit, which time adds to and a served connection takes from.*)
(* Amounts are quanta: a connection costs Price of them and one flows back *)
(* per unit of time.  Slack is how much more than Burst a key may be good  *)
(* for because callers read the clock before they get their turn.          *)
(***************************************************************************)
EXTENDS Integers

CONSTANTS Keys, Price, Burst, Slack

VARIABLE credit

Capacity == Burst + Slack

TypeOK == credit \in [Keys -> 0..Capacity]

Init == credit \in [Keys -> Burst..Capacity]

(* Time gives every key one quantum, up to the capacity. *)
Elapse ==
  credit' = [k \in Keys |-> IF credit[k] < Capacity THEN credit[k] + 1 ELSE Capacity]

(* The keys of F are forgotten, which is as good as a full bucket: allowed   *)
(* only when they had a burst again anyway.                                  *)
Forgettable(F) == \A f \in F : credit[f] >= Burst

(* A connection of k is let in.  It costs at least Price; a key with more    *)
(* than a burst may be cut back to the burst first.                          *)
Serve(k, F) ==
  /\ credit[k] >= Price
  /\ Forgettable(F)
  /\ \E left \in (Burst - Price .. credit[k] - Price) \cup {credit[k] - Price} :
       credit' = [j \in Keys |-> IF j = k THEN left
                                 ELSE IF j \in F THEN Capacity ELSE credit[j]]

(* A connection of k is turned away: only when k has nearly nothing, and at  *)
(* no cost.                                                                  *)
Refuse(k, F) ==
  /\ credit[k] < Price + Slack
  /\ Forgettable(F)
  /\ credit' = [j \in Keys |-> IF j \in F THEN Capacity ELSE credit[j]]

Next ==
  \/ Elapse
  \/ \E k \in Keys : \E F \in SUBSET (Keys \ {k}) : Serve(k, F) \/ Refuse(k, F)

Spec == Init /\ [][Next]_credit
=============================================================================
