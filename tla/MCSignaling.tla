---------------------------- MODULE MCSignaling ----------------------------
\* Model values for the run of Signaling.  A behaviour is one of one of the
\* pieces; the others stay in their initial states, in which nothing that is
\* fair is enabled.
EXTENDS Signaling

CONSTANTS c1, c2, s1, p1, p2, page

TwoConns   == {c1, c2}
OneSession == {s1}

\* The peers of an offer and of its repetition.
TwoPeers == {p1, p2}
\* One call: calls have nothing in common but the set of those that are known.
OnePage  == {page}

VARIABLE part

SignalingInit ==
  /\ Init /\ Trickle!Init /\ Server!Init
  /\ \/ part = "token" /\ (via[c1] = "http" => via[c2] = "http")
     \/ part = "relay" /\ via[c1] = "ws" /\ via[c2] = "http"
     \/ part \in {"trickle", "server"} /\ \A c \in Conns : via[c] = "ws"

\* Connections meet at the token only, and one of them is let past it: in "token"
\* two of them race for it and say nothing after, in "relay" the first is alone.
SignalingNext ==
  /\ UNCHANGED part
  /\ \/ part = "token" /\ Next /\ inbox' = inbox /\ UNCHANGED <<trickleVars, serverVars>>
     \/ part = "relay" /\ Next /\ stage'[c2] = "idle" /\ UNCHANGED <<trickleVars, serverVars>>
     \/ part = "trickle" /\ Trickle!Next /\ UNCHANGED <<vars, serverVars>>
     \/ part = "server" /\ Server!Next /\ UNCHANGED <<vars, trickleVars>>

SignalingSpec ==
  /\ SignalingInit
  /\ [][SignalingNext]_<<part, vars, trickleVars, serverVars>>
  /\ Fairness /\ Trickle!Fairness /\ Server!Fairness
=============================================================================
