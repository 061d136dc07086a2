---------------------------- MODULE AckContract ----------------------------
(***************************************************************************)
(* What the queue consumer relies on in every output: an output takes the   *)
(* ack handle of an event, owns it for a while, and gives back exactly one  *)
(* disposition for it.  Several handles may be resolved in one step.  The   *)
(* peer may not say which records of a request it rejected, only how many:  *)
(* as many handles are given back as delivered as it took.                  *)
(***************************************************************************)
EXTENDS Naturals, FiniteSets

CONSTANTS Handles, Dispositions, Unresolved, Delivered

VARIABLES
    held,       \* handles the output owns
    disp,       \* the disposition of each handle, Unresolved before
    confirmed   \* records the peer has said it took

Init == held = {} /\ disp = [h \in Handles |-> Unresolved] /\ confirmed = 0

Take(h) ==
    /\ h \notin held /\ disp[h] = Unresolved
    /\ held' = held \cup {h}
    /\ UNCHANGED <<disp, confirmed>>

Resolve(S) ==
    /\ held' = held \ S
    /\ disp' \in [Handles -> Dispositions \cup {Unresolved}]
    /\ \A h \in S : disp'[h] # Unresolved
    /\ \A h \in Handles \ S : disp'[h] = disp[h]
    /\ confirmed' = Cardinality({h \in Handles : disp'[h] = Delivered})

Next == \/ \E h \in Handles : Take(h)
        \/ \E S \in SUBSET held : S # {} /\ Resolve(S)

Spec == Init /\ [][Next]_<<held, disp, confirmed>>
=============================================================================
