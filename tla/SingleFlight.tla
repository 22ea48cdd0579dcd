---------------------------- MODULE SingleFlight ----------------------------
(***************************************************************************)
(* What the exactly-once path promises, seen from the broker: per symbol    *)
(* there is at most one order alive at a time, and a nonce is submitted     *)
(* once in the whole history of the system.                                 *)
(***************************************************************************)
CONSTANTS Symbols, Nonces

VARIABLES live,   \* the nonces alive at the broker, per symbol
          spent   \* the nonces ever submitted

Init == live = [s \in Symbols |-> {}] /\ spent = {}

Submit(s, n) ==
  /\ live[s] = {} /\ n \notin spent
  /\ live' = [live EXCEPT ![s] = {n}]
  /\ spent' = spent \cup {n}

Finish(s) ==
  /\ live[s] # {}
  /\ live' = [live EXCEPT ![s] = {}]
  /\ UNCHANGED spent

Next == \E s \in Symbols : Finish(s) \/ \E n \in Nonces : Submit(s, n)

Spec == Init /\ [][Next]_<<live, spent>>
=============================================================================
