--------------------------- MODULE OfferDelivery ---------------------------
(***************************************************************************)
(* What the worker tier promises for an offer, seen from outside: it is    *)
(* delivered at most once, answered by one call at most and only after     *)
(* delivery, and acknowledged only when it was answered or can never be.   *)
(* What is not promised is part of the picture too: the call may leave two *)
(* answers, when it timed out and was sent again, and a delivered offer    *)
(* may be dropped by the group, and nothing brings it back.                *)
(***************************************************************************)
CONSTANT Offers

VARIABLES
  status,      \* of each offer
  rejectable,  \* offers no worker can answer
  answers      \* how many answers each offer got

vars == <<status, rejectable, answers>>

Init ==
  /\ status = [m \in Offers |-> "unsent"]
  /\ rejectable = {}
  /\ answers = [m \in Offers |-> 0]

Move(S, to) == status' = [m \in Offers |-> IF m \in S THEN to ELSE status[m]]

Send(m) ==
  /\ status[m] = "unsent"
  /\ Move({m}, "queued")
  /\ \/ rejectable' = rejectable \cup {m}
     \/ UNCHANGED rejectable
  /\ UNCHANGED answers

Deliver(S) ==
  /\ \A m \in S : status[m] = "queued"
  /\ Move(S, "pending")
  /\ UNCHANGED <<rejectable, answers>>

Answer(m) ==
  /\ status[m] \in {"pending", "dropped"}
  /\ answers[m] = 0
  /\ \E n \in {1, 2} : answers' = [answers EXCEPT ![m] = n]
  /\ UNCHANGED <<status, rejectable>>

Settle(m) ==
  /\ status[m] \in {"pending", "dropped"}
  /\ m \in rejectable \/ answers[m] # 0
  /\ Move({m}, "acked")
  /\ UNCHANGED <<rejectable, answers>>

Drop(S) ==
  /\ \A m \in S : status[m] = "pending"
  /\ Move(S, "dropped")
  /\ UNCHANGED <<rejectable, answers>>

Next ==
  \/ \E m \in Offers : Send(m) \/ Answer(m) \/ Settle(m)
  \/ \E S \in SUBSET Offers : Deliver(S) \/ Drop(S)

Spec == Init /\ [][Next]_vars
=============================================================================
