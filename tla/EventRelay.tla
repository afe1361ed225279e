----------------------------- MODULE EventRelay -----------------------------
(***************************************************************************)
(* What a replica does for the plays of its screens                        *)
(* (lib/mesh/player-termination.js, header: the outbox is durable and      *)
(* ordered): each play it takes is delivered to the primary's applier once,*)
(* in the order in which plays were taken.  A play that grew too old is    *)
(* given up; one that was on its way by then may still arrive.  What is    *)
(* delivered is logged or not as the applier likes, and is told either way *)
(* as done.                                                                *)
(***************************************************************************)
EXTENDS Integers, Sequences

VARIABLES waiting,    \* plays taken and not yet delivered
          expired,    \* plays given up and not delivered
          delivered,  \* plays delivered to the primary's applier, in its order
          unlogged,   \* delivered plays the applier left without a row
          newest      \* number of the newest event taken

vars == <<waiting, expired, delivered, unlogged, newest>>

Init == waiting = {} /\ expired = {} /\ delivered = <<>> /\ unlogged = {} /\ newest = 0

(* An event is accepted: a play waits or is refused (the outbox is full),  *)
(* any other kind only moves the numbering on.                             *)
Accept ==
  /\ newest' = newest + 1
  /\ waiting' \in {waiting, waiting \cup {newest'}}
  /\ UNCHANGED <<expired, delivered, unlogged>>

Arrives(n) ==
  /\ delivered' = Append(delivered, n)
  /\ unlogged' \in {unlogged, unlogged \cup {n}}

Deliver(n) ==
  /\ n \in waiting /\ \A m \in waiting : n <= m
  /\ waiting' = waiting \ {n} /\ Arrives(n)
  /\ UNCHANGED <<expired, newest>>

GiveUp(n) ==
  /\ n \in waiting
  /\ waiting' = waiting \ {n} /\ expired' = expired \cup {n}
  /\ UNCHANGED <<delivered, unlogged, newest>>

ArriveLate(n) ==
  /\ n \in expired
  /\ expired' = expired \ {n} /\ Arrives(n)
  /\ UNCHANGED <<waiting, newest>>

Next ==
  \/ Accept
  \/ \E n \in waiting : Deliver(n) \/ GiveUp(n)
  \/ \E n \in expired : ArriveLate(n)

Spec == Init /\ [][Next]_vars
=============================================================================
