---------------------------- MODULE AtLeastOnce ----------------------------
(***************************************************************************)
(* What a persistent output queue promises its users, with no files and no  *)
(* threads: an accepted event stays in the replay set until the consumer    *)
(* has settled it, through any number of crashes, and only events in the    *)
(* replay set are ever handed out.                                          *)
(***************************************************************************)
CONSTANT Events

VARIABLES
    accepted,   \* events whose send has been made durable
    settled,    \* events the consumer acknowledged
    replay,     \* events a restart would hand out again
    handed      \* events handed out at least once

vars == <<accepted, settled, replay, handed>>

Init == accepted = {} /\ settled = {} /\ replay = {} /\ handed = {}

\* Housekeeping may drop settled events in the same step.
Accept(e) ==
    /\ e \notin accepted
    /\ accepted' = accepted \cup {e}
    /\ \E done \in SUBSET settled : replay' = (replay \cup {e}) \ done
    /\ UNCHANGED <<settled, handed>>

Deliver(e) ==
    /\ e \in replay
    /\ handed' = handed \cup {e}
    /\ UNCHANGED <<accepted, settled, replay>>

Settle(e) ==
    /\ e \in handed
    /\ settled' = settled \cup {e}
    /\ UNCHANGED <<accepted, replay, handed>>

Forget ==
    /\ \E done \in SUBSET settled : replay' = replay \ done
    /\ UNCHANGED <<accepted, settled, handed>>

Next == \/ \E e \in Events : Accept(e) \/ Deliver(e) \/ Settle(e)
        \/ Forget

Spec == Init /\ [][Next]_vars
=============================================================================
