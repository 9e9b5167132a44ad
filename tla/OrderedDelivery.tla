-------------------------- MODULE OrderedDelivery --------------------------
(***************************************************************************)
(* What a collector promises about the records it accepts for InfluxDB:   *)
(* they reach the database in the order of acceptance, and the only        *)
(* records missing below a stored one are those the collector has given    *)
(* up and counted.  Storing a record twice is invisible: a point with the  *)
(* same series and timestamp replaces itself.                              *)
(***************************************************************************)
EXTENDS Naturals

VARIABLES
  accepted,   \* how many records were accepted so far; they are numbered 1..accepted
  stored,     \* the records the database holds
  abandoned   \* the records given up on overflow

vars == <<accepted, stored, abandoned>>

Settled == stored \cup abandoned

Init ==
  /\ accepted = 0
  /\ stored = {}
  /\ abandoned = {}

\* Accepting a record may force the collector to give up some of the oldest
\* unsettled ones, the new one included.
Accept ==
  /\ accepted' = accepted + 1
  /\ abandoned \subseteq abandoned'
  /\ abandoned' \subseteq 1 .. accepted'
  /\ \A g \in abandoned' \ abandoned : \A older \in 1 .. (g - 1) :
       older \in stored \cup abandoned'
  /\ UNCHANGED stored

\* The database stores the next record: no record above it is stored, every
\* record below it is settled.
Store(i) ==
  /\ i \in 1 .. accepted
  /\ \A s \in stored : s < i
  /\ \A older \in 1 .. (i - 1) : older \in Settled
  /\ stored' = stored \cup {i}
  /\ UNCHANGED <<accepted, abandoned>>

Next ==
  \/ Accept
  \/ \E i \in 1 .. accepted : Store(i)

Spec == Init /\ [][Next]_vars
=============================================================================
