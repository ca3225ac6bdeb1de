------------------------------ MODULE MCCaches ------------------------------
\* Model values for the run of Caches: a behaviour is one of the one part or one
\* of the other.
EXTENDS Caches, TLC

CONSTANTS r1, r2, r3, q1, q2, k1, k2

ThreeRequests == {r1, r2, r3}

\* The router: two requests, and a stream in each of two regions.
TwoRoutes  == {q1, q2}
TwoStreams == {k1, k2}

TwoRegionOf  == k1 :> "eu-west-1" @@ k2 :> "us-east-1"
TwoKnown     == {"eu-west-1", "us-east-1"}
\* A client is in Boston, or its address says nothing.
NoPlace      == "nowhere"
TwoPlaces    == {"boston", NoPlace}
FromBoston   == [p \in {"boston"} \X {"eu-west-1", "us-east-1", "global"} |->
                   CASE p[2] = "us-east-1" -> 9 [] p[2] = "eu-west-1" -> 66 [] p[2] = "global" -> 83]
TwoKm        == [p \in {"eu-west-1", "us-east-1", "global"} \X TwoKnown |->
                   IF p[1] = p[2] THEN 0 ELSE IF p = <<"global", "us-east-1">> THEN 9 ELSE 5]
ThreeAllowed == {{"eu-west-1"}, {"us-east-1", "eu-west-1"}, {"eu-west-1", "global"}}

VARIABLE part

allVars == <<part, vars, routeVars>>

\* The router's requests are for one agent and come from one place: what one
\* request may use does not matter to the other, and neither to "config".
CachesInit ==
  /\ Init /\ Router!Init
  /\ allowed[q1] = allowed[q2] /\ client[q1] = client[q2]
  /\ client[q1] = "global" => allowed[q1] = {"us-east-1", "eu-west-1"}
  /\ \/ part = "config" /\ allowed[q1] = {"eu-west-1"} /\ client[q1] = "us-east-1"
     \/ part = "streams"

\* Requests that are alike come in order.
InOrder == (stage[r3] # "idle" => stage[r2] # "idle") /\ (stage[r2] # "idle" => stage[r1] # "idle")

CachesNext == /\ UNCHANGED part
              /\ \/ part = "config" /\ Next /\ InOrder' /\ UNCHANGED routeVars
                 \/ part = "streams" /\ Router!Next /\ UNCHANGED initVars

CachesSpec == CachesInit /\ [][CachesNext]_allVars

Symmetry == Permutations(TwoRoutes)
=============================================================================
