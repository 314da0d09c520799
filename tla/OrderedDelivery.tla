--------------------------- MODULE OrderedDelivery ---------------------------
(***************************************************************************)
(* What a publisher promises of the events it is given: each may be lost   *)
(* before it is delivered; those that are not lost are delivered in the    *)
(* order they were given, none overtaking another.  A delivery may be      *)
(* repeated: that leaves the last delivered event as it is.                *)
(***************************************************************************)
EXTENDS Naturals

VARIABLES
    given,      \* number of events given so far; they are 1, ..., given
    lost,       \* events that will not be delivered
    delivered   \* the last event delivered, 0 before

vars == <<given, lost, delivered>>

Init ==
    /\ given = 0
    /\ lost = {}
    /\ delivered = 0

Outstanding == {k \in (delivered + 1)..given : k \notin lost}

Give ==
    /\ given' = given + 1
    /\ UNCHANGED <<lost, delivered>>

Lose ==
    /\ \E k \in Outstanding : lost' = lost \cup {k}
    /\ UNCHANGED <<given, delivered>>

(* The oldest of those outstanding. *)
Deliver ==
    /\ delivered' \in Outstanding
    /\ \A k \in Outstanding : delivered' <= k
    /\ UNCHANGED <<given, lost>>

Next ==
    \/ Give
    \/ Lose
    \/ Deliver

Spec == Init /\ [][Next]_vars
=============================================================================
