-------------------------- MODULE SingleSinkProofs --------------------------
(***************************************************************************)
(* The safety properties of the unbatched outputs for any number of peers,  *)
(* events and attempts.                                                     *)
(***************************************************************************)
EXTENDS SingleSink, FiniteSetTheorems, TLAPS

\* The configuration of the output and the Boolean history.
ConfigInv ==
    /\ config \in [kind : OutputKinds, backend : {"memory", "disk"},
                   error_log : BOOLEAN, healthy : SUBSET Peers]
    /\ config.healthy \subseteq PeersOf(Kind)
    /\ {partial, blurred, begun, redone} \subseteq BOOLEAN

\* What each place of consume() knows of the row of tries.
TryInv ==
    /\ ~Rotating => at = 1
    /\ Kind \in {"ltp", "kafka", "file", "stdout"} => left <= 1
    /\ pc \in {"connect", "write"} => left > 0
    /\ pc \in {"attempt", "try", "connect", "write", "backoff"} => attempt < MaxAttempts
    /\ pc = "connect" => Connects
    /\ pc = "write" /\ Connects => conn[at] # "none"

\* What is kept of a stream is what may be written behind; an output that
\* connects nowhere has its stream always.  Only two outputs try again in an
\* attempt that has got bytes out, and two never once they have begun a frame.
FrameInv ==
    /\ \A p \in Peers : /\ conn[p] \in {"none"} \cup MayFollow
                        /\ ~Connects => conn[p] # "none"
    /\ (partial /\ pc \in {"try", "connect", "write"} /\ Kind \notin {"tcp", "unix"}) =>
          pc = "try" /\ left = 0 /\ Kind # "udp"
    /\ begun /\ Kind \in {"stdout", "udp"} =>
          pc \in {"idle", "route", "stopped"} \/ (pc = "try" /\ left = 0 /\ drain)
    /\ WholeFrames /\ PreSendIsHonest

\* The handle in hand is unresolved.
HandleInv ==
    /\ drain => signal
    /\ pc \notin {"idle", "stopped"} => next >= 1 /\ disp[next] = "none"
    /\ \A e \in Handles : e > next => disp[e] = "none"

\* How many tries away a peer is from the one of this try.
Ahead(p) == IF p >= at THEN p - at ELSE p - at + NPeers

\* A healthy peer never cools down and is still to come in the row of tries.
HealthyInv ==
    \A h \in config.healthy :
        /\ h \notin cooled
        /\ ~signal /\ Kind \notin {"file", "ltp"} =>
             /\ pc \notin {"route", "stopped", "backoff"}
             /\ pc \in {"try", "connect", "write"} => Ahead(h) < left

\* The inductive invariant.
IInv == TypeOK /\ ConfigInv /\ TryInv /\ FrameInv /\ HandleInv /\ HealthyInv /\ Honest

-----------------------------------------------------------------------------
USE SingleSinkAssumption

\* PeerList's index arithmetic: the next peer, and round again.
LEMMA AfterProperties ==
    \A p \in Peers : /\ After(p) \in Peers
                     /\ After(p) = IF p = NPeers THEN 1 ELSE p + 1
  BY DEF After, Peers

\* An attempt has at least one try and no more than a peer list, or a cached
\* connection and a new one, allow.
LEMMA TriesBounded ==
    ASSUME ConfigInv
    PROVE  /\ Tries \in 1 .. NPeers + 1
           /\ Rotating => Tries = NPeers
           /\ Kind \in {"ltp", "kafka", "file", "stdout"} => Tries = 1
<1>1. CASE Rotating
  BY <1>1 DEF Tries, Rotating
<1>2. CASE ~Rotating /\ Kind = "unix" /\ conn[1] # "none"
  BY <1>2 DEF Tries, Rotating
<1>3. CASE ~Rotating /\ ~(Kind = "unix" /\ conn[1] # "none")
  BY <1>3 DEF Tries, Rotating
<1> QED
  BY <1>1, <1>2, <1>3

-----------------------------------------------------------------------------
(* What a step may do to each group of variables. *)

\* The configuration never changes.
LEMMA ConfigKept ==
    ASSUME IInv, [Next]_vars
    PROVE  config' = config
  BY DEF Next, Own, Write, Signal, StartDrain, Consume, Abort, BeginAttempt, Try, Connect,
         AttemptFails, Backoff, Route, WriteOk, WriteFails, AppendFails, WriteTimesOut,
         WriteInterrupted, DrainTimesOut, CooledDown, vars

\* The try is over and the next one begins.
Advances ==
    /\ left > 0 /\ left' = left - 1 /\ NextPeer /\ UNCHANGED cursor
    /\ pc \in {"try", "connect", "write"} /\ pc' = "try"
    /\ at \in cooled \/ Sick

\* The row of tries is left alone, set up, or goes on to its next try.
LEMMA TriesEffect ==
    ASSUME IInv, [Next]_vars
    PROVE  UNCHANGED tries \/ BeginAttempt \/ Advances
<1> USE DEF TryInv
<1>0. TypeOK /\ TryInv
  BY DEF IInv
<1>1. CASE Signal
  BY <1>0, <1>1 DEF Signal, tries, wire, outcome, history
<1>2. CASE StartDrain
  BY <1>0, <1>2 DEF StartDrain, Steady, tries, wire, outcome, history
<1>3. CASE Consume
  BY <1>0, <1>3 DEF Consume, MayReject, tries, wire, outcome, history
<1>4. CASE Abort
  BY <1>0, <1>4 DEF Abort, tries, wire, outcome, history
<1>5. CASE BeginAttempt
  BY <1>0, <1>5 DEF BeginAttempt, tries, wire, outcome, history
<1>6. CASE Try
  BY <1>0, <1>6 DEF Try, PreSendShutdown, Advances, tries, wire, outcome, history
<1>7. CASE Connect
  BY <1>0, <1>7 DEF Connect, PreSendShutdown, TryFails, Advances, tries, wire, outcome, history
<1>8. CASE AttemptFails
  BY <1>0, <1>8 DEF AttemptFails, tries, wire, outcome, history
<1>9. CASE Backoff
  BY <1>0, <1>9 DEF Backoff, tries, wire, outcome, history
<1>10. CASE Route
  BY <1>0, <1>10 DEF Route, Resolve, tries, wire, outcome, history
<1>11. CASE WriteOk
  BY <1>0, <1>11 DEF WriteOk, Resolve, BytesOut, tries, wire, outcome, history
<1>12. CASE WriteFails
  BY <1>0, <1>12 DEF WriteFails, Spill, BytesOut, BrokenDropped, Kept, Dropped, TryFails, Advances, tries, wire, outcome, history
<1>13. CASE AppendFails
  BY <1>0, <1>13 DEF AppendFails, Spill, BytesOut, Ends, TryFails, Advances, tries, wire, outcome, history
<1>14. CASE WriteTimesOut
  BY <1>0, <1>14 DEF WriteTimesOut, Spill, BytesOut, TryFails, Advances, tries, wire, outcome, history
<1>15. CASE WriteInterrupted
  BY <1>0, <1>15 DEF WriteInterrupted, Spill, BytesOut, tries, wire, outcome, history
<1>16. CASE DrainTimesOut
  BY <1>0, <1>16 DEF DrainTimesOut, Spill, BytesOut, tries, wire, outcome, history
<1>17. CASE \E p \in Peers : CooledDown(p)
  BY <1>0, <1>17 DEF CooledDown, tries, wire, outcome, history
<1>18. CASE UNCHANGED vars
  BY <1>0, <1>18 DEF vars, tries, wire, outcome, history
<1> QED
  BY <1>1, <1>2, <1>3, <1>4, <1>5, <1>6, <1>7, <1>8, <1>9, <1>10, <1>11, <1>12, <1>13, <1>14, <1>15, <1>16, <1>17, <1>18
     DEF Next, Own, Write

\* Events are given, resolved, or left alone.
LEMMA EventEffect ==
    ASSUME IInv, [Next]_vars
    PROVE  UNCHANGED <<next, outcome>> \/ Consume \/ Abort \/ Route \/ WriteOk
<1> USE DEF outcome
<1>0. TypeOK
  BY DEF IInv
<1>1. CASE Signal
  BY <1>0, <1>1 DEF Signal, tries, wire, outcome, history
<1>2. CASE StartDrain
  BY <1>0, <1>2 DEF StartDrain, Steady, tries, wire, outcome, history
<1>3. CASE Consume
  BY <1>0, <1>3 DEF Consume, MayReject, tries, wire, outcome, history
<1>4. CASE Abort
  BY <1>0, <1>4 DEF Abort, tries, wire, outcome, history
<1>5. CASE BeginAttempt
  BY <1>0, <1>5 DEF BeginAttempt, tries, wire, outcome, history
<1>6. CASE Try
  BY <1>0, <1>6 DEF Try, PreSendShutdown, NextPeer, tries, wire, outcome, history
<1>7. CASE Connect
  BY <1>0, <1>7 DEF Connect, PreSendShutdown, TryFails, NextPeer, tries, wire, outcome, history
<1>8. CASE AttemptFails
  BY <1>0, <1>8 DEF AttemptFails, tries, wire, outcome, history
<1>9. CASE Backoff
  BY <1>0, <1>9 DEF Backoff, tries, wire, outcome, history
<1>10. CASE Route
  BY <1>0, <1>10 DEF Route, Resolve, tries, wire, outcome, history
<1>11. CASE WriteOk
  BY <1>0, <1>11 DEF WriteOk, Resolve, BytesOut, tries, wire, outcome, history
<1>12. CASE WriteFails
  BY <1>0, <1>12 DEF WriteFails, Spill, BytesOut, BrokenDropped, Kept, Dropped, TryFails, NextPeer, tries, wire, outcome, history
<1>13. CASE AppendFails
  BY <1>0, <1>13 DEF AppendFails, Spill, BytesOut, Ends, TryFails, NextPeer, tries, wire, outcome, history
<1>14. CASE WriteTimesOut
  BY <1>0, <1>14 DEF WriteTimesOut, Spill, BytesOut, TryFails, NextPeer, tries, wire, outcome, history
<1>15. CASE WriteInterrupted
  BY <1>0, <1>15 DEF WriteInterrupted, Spill, BytesOut, tries, wire, outcome, history
<1>16. CASE DrainTimesOut
  BY <1>0, <1>16 DEF DrainTimesOut, Spill, BytesOut, tries, wire, outcome, history
<1>17. CASE \E p \in Peers : CooledDown(p)
  BY <1>0, <1>17 DEF CooledDown, tries, wire, outcome, history
<1>18. CASE UNCHANGED vars
  BY <1>0, <1>18 DEF vars, tries, wire, outcome, history
<1> QED
  BY <1>1, <1>2, <1>3, <1>4, <1>5, <1>6, <1>7, <1>8, <1>9, <1>10, <1>11, <1>12, <1>13, <1>14, <1>15, <1>16, <1>17, <1>18
     DEF Next, Own, Write

\* What may be written behind grows when the drain begins.
LEMMA MayFollowGrows ==
    ASSUME IInv, [Next]_vars
    PROVE  MayFollow \subseteq MayFollow' /\ MayFollow \subseteq Endings
<1>1. Kind' = Kind
  BY ConfigKept DEF Kind
<1>2. drain => drain'
  BY DEF Next, Own, Write, Signal, StartDrain, Steady, Consume, Abort, BeginAttempt, Try, Connect,
         AttemptFails, Backoff, Route, WriteOk, WriteFails, AppendFails, WriteTimesOut,
         WriteInterrupted, DrainTimesOut, CooledDown, vars
<1> QED
  BY <1>1, <1>2 DEF MayFollow, Endings

\* A stream that is kept after a write.
LEMMA KeptEffect ==
    ASSUME IInv, NEW b, NEW how, Kept(b, how), Streams => how \in MayFollow
    PROVE  \E x \in {"none"} \cup MayFollow :
             conn' = [conn EXCEPT ![at] = x] /\ (~Connects => x # "none")
<1>0. at \in Peers
  BY DEF IInv, TypeOK
<1>1. conn[at] \in {"none"} \cup MayFollow /\ (~Connects => conn[at] # "none")
  BY <1>0 DEF IInv, FrameInv
<1>2. "none" \notin MayFollow
  BY DEF MayFollow
<1>3. CASE b /\ Streams
  BY <1>2, <1>3 DEF Kept
<1>4. CASE ~(b /\ Streams)
  BY <1>0, <1>1, <1>4 DEF Kept
<1> QED
  BY <1>3, <1>4

\* What a connection is left in.
LEMMA ConnEffect ==
    ASSUME IInv, [Next]_vars
    PROVE  \/ UNCHANGED conn
           \/ \E x \in {"none"} \cup MayFollow :
                conn' = [conn EXCEPT ![at] = x] /\ (~Connects => x # "none")
<1> USE DEF wire
<1>0. at \in Peers /\ "whole" \in MayFollow /\ (pc = "connect" => Connects)
  BY DEF IInv, TypeOK, TryInv, MayFollow
<1>1. CASE Signal
  BY <1>0, <1>1 DEF Signal, tries, outcome, history
<1>2. CASE StartDrain
  BY <1>0, <1>2 DEF StartDrain, Steady, tries, outcome, history
<1>3. CASE Consume
  BY <1>0, <1>3 DEF Consume, MayReject, tries, outcome, history
<1>4. CASE Abort
  BY <1>0, <1>4 DEF Abort, tries, outcome, history
<1>5. CASE BeginAttempt
  BY <1>0, <1>5 DEF BeginAttempt, tries, outcome, history
<1>6. CASE Try
  BY <1>0, <1>6 DEF Try, PreSendShutdown, NextPeer, tries, outcome, history
<1>7. CASE Connect
  BY <1>0, <1>7 DEF Connect, PreSendShutdown, TryFails, NextPeer, tries, outcome, history
<1>8. CASE AttemptFails
  BY <1>0, <1>8 DEF AttemptFails, tries, outcome, history
<1>9. CASE Backoff
  BY <1>0, <1>9 DEF Backoff, tries, outcome, history
<1>10. CASE Route
  BY <1>0, <1>10 DEF Route, Resolve, tries, outcome, history
<1>11. CASE WriteOk
  BY <1>0, <1>11 DEF WriteOk, Resolve, BytesOut, tries, outcome, history
<1>12. CASE WriteFails
  <2>1. PICK b \in Spills : BrokenDropped(b)
    BY <1>12 DEF WriteFails
  <2>2. Connects
    BY <1>12 DEF WriteFails
  <2>3. CASE Kind = "unix" /\ drain /\ left = 1
    <3>1. Kept(b, "error") /\ "error" \in MayFollow
      BY <2>1, <2>3 DEF BrokenDropped, MayFollow
    <3> QED
      BY <3>1, KeptEffect
  <2>4. CASE ~(Kind = "unix" /\ drain /\ left = 1)
    BY <2>1, <2>2, <2>4 DEF BrokenDropped, Dropped
  <2> QED
    BY <2>3, <2>4
<1>13. CASE AppendFails
  <2>1. PICK b \in Spills : Kept(b, "error")
    BY <1>13 DEF AppendFails
  <2>2. Streams => "error" \in MayFollow
    BY <1>13 DEF AppendFails, Connects, Streams, MayFollow
  <2> QED
    BY <2>1, <2>2, KeptEffect
<1>14. CASE WriteTimesOut
  <2>1. PICK b \in Spills : IF Kind = "ltp" THEN Dropped ELSE Kept(b, "timeout")
    BY <1>14 DEF WriteTimesOut
  <2>2. Kind \in {"tcp", "ltp"}
    BY <1>14 DEF WriteTimesOut
  <2>3. CASE Kind = "ltp"
    BY <2>1, <2>3 DEF Dropped, Connects
  <2>4. CASE Kind = "tcp"
    BY <2>1, <2>4, KeptEffect DEF MayFollow
  <2> QED
    BY <2>2, <2>3, <2>4
<1>15. CASE WriteInterrupted
  <2>1. PICK b \in Spills : Kept(b, "interrupted")
    BY <1>15 DEF WriteInterrupted
  <2>2. "interrupted" \in MayFollow
    BY <1>15 DEF WriteInterrupted, MayFollow
  <2> QED
    BY <2>1, <2>2, KeptEffect
<1>16. CASE DrainTimesOut
  <2>1. CASE pc # "write"
    BY <1>16, <2>1 DEF DrainTimesOut
  <2>2. CASE pc = "write"
    <3>1. PICK b \in Spills : IF Kind = "ltp" THEN Dropped ELSE Kept(b, "deadline")
      BY <1>16, <2>2 DEF DrainTimesOut
    <3>2. Connects
      BY <1>16 DEF DrainTimesOut
    <3>3. CASE Kind = "ltp"
      BY <3>1, <3>2, <3>3 DEF Dropped
    <3>4. CASE Kind # "ltp"
      <4>1. Streams => "deadline" \in MayFollow
        BY <3>2, <3>4 DEF Streams, Connects, MayFollow
      <4> QED
        BY <3>1, <3>4, <4>1, KeptEffect
    <3> QED
      BY <3>3, <3>4
  <2> QED
    BY <2>1, <2>2
<1>17. CASE \E p \in Peers : CooledDown(p)
  BY <1>0, <1>17 DEF CooledDown, tries, outcome, history
<1>18. CASE UNCHANGED vars
  BY <1>0, <1>18 DEF vars, tries, outcome, history
<1> QED
  BY <1>1, <1>2, <1>3, <1>4, <1>5, <1>6, <1>7, <1>8, <1>9, <1>10, <1>11, <1>12, <1>13, <1>14, <1>15, <1>16, <1>17, <1>18
     DEF Next, Own, Write

\* Only a peer that failed a try cools down.
LEMMA CooledEffect ==
    ASSUME IInv, [Next]_vars
    PROVE  cooled' \subseteq cooled \/ (Sick /\ cooled' = cooled \cup {at})
<1> USE DEF wire
<1>0. cooled \subseteq Peers
  BY DEF IInv, TypeOK
<1>1. CASE Signal
  BY <1>0, <1>1 DEF Signal, tries, outcome, history
<1>2. CASE StartDrain
  BY <1>0, <1>2 DEF StartDrain, Steady, tries, outcome, history
<1>3. CASE Consume
  BY <1>0, <1>3 DEF Consume, MayReject, tries, outcome, history
<1>4. CASE Abort
  BY <1>0, <1>4 DEF Abort, tries, outcome, history
<1>5. CASE BeginAttempt
  BY <1>0, <1>5 DEF BeginAttempt, tries, outcome, history
<1>6. CASE Try
  BY <1>0, <1>6 DEF Try, PreSendShutdown, NextPeer, tries, outcome, history
<1>7. CASE Connect
  BY <1>0, <1>7 DEF Connect, PreSendShutdown, TryFails, NextPeer, tries, outcome, history
<1>8. CASE AttemptFails
  BY <1>0, <1>8 DEF AttemptFails, tries, outcome, history
<1>9. CASE Backoff
  BY <1>0, <1>9 DEF Backoff, tries, outcome, history
<1>10. CASE Route
  BY <1>0, <1>10 DEF Route, Resolve, tries, outcome, history
<1>11. CASE WriteOk
  BY <1>0, <1>11 DEF WriteOk, Resolve, BytesOut, tries, outcome, history
<1>12. CASE WriteFails
  BY <1>0, <1>12 DEF WriteFails, Spill, BytesOut, BrokenDropped, Kept, Dropped, TryFails, NextPeer, tries, outcome, history
<1>13. CASE AppendFails
  BY <1>0, <1>13 DEF AppendFails, Spill, BytesOut, Ends, TryFails, NextPeer, tries, outcome, history
<1>14. CASE WriteTimesOut
  BY <1>0, <1>14 DEF WriteTimesOut, Spill, BytesOut, TryFails, NextPeer, tries, outcome, history
<1>15. CASE WriteInterrupted
  BY <1>0, <1>15 DEF WriteInterrupted, Spill, BytesOut, tries, outcome, history
<1>16. CASE DrainTimesOut
  BY <1>0, <1>16 DEF DrainTimesOut, Spill, BytesOut, tries, outcome, history
<1>17. CASE \E p \in Peers : CooledDown(p)
  BY <1>0, <1>17 DEF CooledDown, tries, outcome, history
<1>18. CASE UNCHANGED vars
  BY <1>0, <1>18 DEF vars, tries, outcome, history
<1> QED
  BY <1>1, <1>2, <1>3, <1>4, <1>5, <1>6, <1>7, <1>8, <1>9, <1>10, <1>11, <1>12, <1>13, <1>14, <1>15, <1>16, <1>17, <1>18
     DEF Next, Own, Write

\* Bytes get out in a write only; the shutdown before a send is one of a try.
LEMMA HistoryEffect ==
    ASSUME IInv, [Next]_vars
    PROVE  \/ UNCHANGED history
           \/ BytesOut /\ pc = "write" /\ (pc' \in {"try", "connect", "write"} => Kind # "udp")
           \/ partial' = FALSE /\ UNCHANGED <<blurred, begun, redone, glued>>
           \/ Consume /\ begun' = FALSE /\ UNCHANGED <<partial, blurred, redone, glued>>
           \/ /\ pc \in {"try", "connect"} /\ (pc = "try" => left > 0)
              /\ pc' = "route" /\ blurred' = (blurred \/ partial)
              /\ UNCHANGED <<partial, begun, redone, glued>>
<1> USE DEF history
<1>0. TypeOK
  BY DEF IInv
<1>1. CASE Signal
  BY <1>0, <1>1 DEF Signal, tries, wire, outcome
<1>2. CASE StartDrain
  BY <1>0, <1>2 DEF StartDrain, Steady, tries, wire, outcome
<1>3. CASE Consume
  BY <1>0, <1>3 DEF Consume, MayReject, tries, wire, outcome
<1>4. CASE Abort
  BY <1>0, <1>4 DEF Abort, tries, wire, outcome
<1>5. CASE BeginAttempt
  BY <1>0, <1>5 DEF BeginAttempt, tries, wire, outcome
<1>6. CASE Try
  BY <1>0, <1>6 DEF Try, PreSendShutdown, NextPeer, tries, wire, outcome
<1>7. CASE Connect
  BY <1>0, <1>7 DEF Connect, PreSendShutdown, TryFails, NextPeer, tries, wire, outcome
<1>8. CASE AttemptFails
  BY <1>0, <1>8 DEF AttemptFails, tries, wire, outcome
<1>9. CASE Backoff
  BY <1>0, <1>9 DEF Backoff, tries, wire, outcome
<1>10. CASE Route
  BY <1>0, <1>10 DEF Route, Resolve, tries, wire, outcome
<1>11. CASE WriteOk
  BY <1>11 DEF WriteOk
<1>12. CASE WriteFails
  BY <1>12 DEF WriteFails, Spills, Spill
<1>13. CASE AppendFails
  BY <1>13 DEF AppendFails, Spills, Spill
<1>14. CASE WriteTimesOut
  BY <1>14 DEF WriteTimesOut, Spills, Spill
<1>15. CASE WriteInterrupted
  BY <1>15 DEF WriteInterrupted, Spills, Spill
<1>16. CASE DrainTimesOut
  BY <1>16 DEF DrainTimesOut, Spills, Spill
<1>17. CASE \E p \in Peers : CooledDown(p)
  BY <1>0, <1>17 DEF CooledDown, tries, wire, outcome
<1>18. CASE UNCHANGED vars
  BY <1>0, <1>18 DEF vars, tries, wire, outcome
<1> QED
  BY <1>1, <1>2, <1>3, <1>4, <1>5, <1>6, <1>7, <1>8, <1>9, <1>10, <1>11, <1>12, <1>13, <1>14, <1>15, <1>16, <1>17, <1>18
     DEF Next, Own, Write

\* Where consume() goes next, and the count of failed attempts.
LEMMA PhaseEffect ==
    ASSUME IInv, [Next]_vars
    PROVE  /\ pc' \in {"idle", "attempt", "try", "connect", "write", "backoff", "route", "stopped"}
           /\ attempt' \in 0 .. MaxAttempts
           /\ pc' \in {"attempt", "try", "connect", "write", "backoff"} => attempt' < MaxAttempts
<1> USE DEF TypeOK, TryInv
<1>0. TypeOK /\ TryInv
  BY DEF IInv
<1>1. CASE Signal
  BY <1>0, <1>1 DEF Signal, tries, wire, outcome, history
<1>2. CASE StartDrain
  BY <1>0, <1>2 DEF StartDrain, Steady, tries, wire, outcome, history
<1>3. CASE Consume
  BY <1>0, <1>3 DEF Consume, MayReject, tries, wire, outcome, history
<1>4. CASE Abort
  BY <1>0, <1>4 DEF Abort, tries, wire, outcome, history
<1>5. CASE BeginAttempt
  BY <1>0, <1>5 DEF BeginAttempt, tries, wire, outcome, history
<1>6. CASE Try
  BY <1>0, <1>6 DEF Try, PreSendShutdown, NextPeer, tries, wire, outcome, history
<1>7. CASE Connect
  BY <1>0, <1>7 DEF Connect, PreSendShutdown, TryFails, NextPeer, tries, wire, outcome, history
<1>8. CASE AttemptFails
  BY <1>0, <1>8 DEF AttemptFails, tries, wire, outcome, history
<1>9. CASE Backoff
  BY <1>0, <1>9 DEF Backoff, tries, wire, outcome, history
<1>10. CASE Route
  BY <1>0, <1>10 DEF Route, Resolve, tries, wire, outcome, history
<1>11. CASE WriteOk
  BY <1>0, <1>11 DEF WriteOk, Resolve, BytesOut, tries, wire, outcome, history
<1>12. CASE WriteFails
  BY <1>0, <1>12 DEF WriteFails, Spill, BytesOut, BrokenDropped, Kept, Dropped, TryFails, NextPeer, tries, wire, outcome, history
<1>13. CASE AppendFails
  BY <1>0, <1>13 DEF AppendFails, Spill, BytesOut, Ends, TryFails, NextPeer, tries, wire, outcome, history
<1>14. CASE WriteTimesOut
  BY <1>0, <1>14 DEF WriteTimesOut, Spill, BytesOut, TryFails, NextPeer, tries, wire, outcome, history
<1>15. CASE WriteInterrupted
  BY <1>0, <1>15 DEF WriteInterrupted, Spill, BytesOut, tries, wire, outcome, history
<1>16. CASE DrainTimesOut
  BY <1>0, <1>16 DEF DrainTimesOut, Spill, BytesOut, tries, wire, outcome, history
<1>17. CASE \E p \in Peers : CooledDown(p)
  BY <1>0, <1>17 DEF CooledDown, tries, wire, outcome, history
<1>18. CASE UNCHANGED vars
  BY <1>0, <1>18 DEF vars, tries, wire, outcome, history
<1> QED
  BY <1>1, <1>2, <1>3, <1>4, <1>5, <1>6, <1>7, <1>8, <1>9, <1>10, <1>11, <1>12, <1>13, <1>14, <1>15, <1>16, <1>17, <1>18
     DEF Next, Own, Write

\* The shutdown is for good, and the drain comes after it.
LEMMA SignalEffect ==
    ASSUME IInv, [Next]_vars
    PROVE  /\ signal' \in BOOLEAN /\ drain' \in BOOLEAN
           /\ signal => signal'
           /\ drain' => signal'
<1> USE DEF HandleInv
<1>0. signal \in BOOLEAN /\ drain \in BOOLEAN /\ (drain => signal)
  BY DEF IInv, TypeOK, HandleInv
<1>1. CASE Signal
  BY <1>0, <1>1 DEF Signal, tries, wire, outcome, history
<1>2. CASE StartDrain
  BY <1>0, <1>2 DEF StartDrain, Steady, tries, wire, outcome, history
<1>3. CASE Consume
  BY <1>0, <1>3 DEF Consume, MayReject, tries, wire, outcome, history
<1>4. CASE Abort
  BY <1>0, <1>4 DEF Abort, tries, wire, outcome, history
<1>5. CASE BeginAttempt
  BY <1>0, <1>5 DEF BeginAttempt, tries, wire, outcome, history
<1>6. CASE Try
  BY <1>0, <1>6 DEF Try, PreSendShutdown, NextPeer, tries, wire, outcome, history
<1>7. CASE Connect
  BY <1>0, <1>7 DEF Connect, PreSendShutdown, TryFails, NextPeer, tries, wire, outcome, history
<1>8. CASE AttemptFails
  BY <1>0, <1>8 DEF AttemptFails, tries, wire, outcome, history
<1>9. CASE Backoff
  BY <1>0, <1>9 DEF Backoff, tries, wire, outcome, history
<1>10. CASE Route
  BY <1>0, <1>10 DEF Route, Resolve, tries, wire, outcome, history
<1>11. CASE WriteOk
  BY <1>0, <1>11 DEF WriteOk, Resolve, BytesOut, tries, wire, outcome, history
<1>12. CASE WriteFails
  BY <1>0, <1>12 DEF WriteFails, Spill, BytesOut, BrokenDropped, Kept, Dropped, TryFails, NextPeer, tries, wire, outcome, history
<1>13. CASE AppendFails
  BY <1>0, <1>13 DEF AppendFails, Spill, BytesOut, Ends, TryFails, NextPeer, tries, wire, outcome, history
<1>14. CASE WriteTimesOut
  BY <1>0, <1>14 DEF WriteTimesOut, Spill, BytesOut, TryFails, NextPeer, tries, wire, outcome, history
<1>15. CASE WriteInterrupted
  BY <1>0, <1>15 DEF WriteInterrupted, Spill, BytesOut, tries, wire, outcome, history
<1>16. CASE DrainTimesOut
  BY <1>0, <1>16 DEF DrainTimesOut, Spill, BytesOut, tries, wire, outcome, history
<1>17. CASE \E p \in Peers : CooledDown(p)
  BY <1>0, <1>17 DEF CooledDown, tries, wire, outcome, history
<1>18. CASE UNCHANGED vars
  BY <1>0, <1>18 DEF vars, tries, wire, outcome, history
<1> QED
  BY <1>1, <1>2, <1>3, <1>4, <1>5, <1>6, <1>7, <1>8, <1>9, <1>10, <1>11, <1>12, <1>13, <1>14, <1>15, <1>16, <1>17, <1>18
     DEF Next, Own, Write

\* A frame is written in one of the tries, on an open connection.
LEMMA WriteReady ==
    ASSUME IInv, [Next]_vars
    PROVE  /\ pc' \in {"connect", "write"} => left' > 0
           /\ pc' = "connect" => Connects
           /\ pc' = "write" /\ Connects => conn'[at'] # "none"
<1> USE DEF TypeOK, TryInv
<1>0. TypeOK /\ TryInv
  BY DEF IInv
<1>1. CASE Signal
  BY <1>0, <1>1 DEF Signal, tries, wire, outcome, history
<1>2. CASE StartDrain
  BY <1>0, <1>2 DEF StartDrain, Steady, tries, wire, outcome, history
<1>3. CASE Consume
  BY <1>0, <1>3 DEF Consume, MayReject, tries, wire, outcome, history
<1>4. CASE Abort
  BY <1>0, <1>4 DEF Abort, tries, wire, outcome, history
<1>5. CASE BeginAttempt
  BY <1>0, <1>5 DEF BeginAttempt, tries, wire, outcome, history
<1>6. CASE Try
  BY <1>0, <1>6 DEF Try, PreSendShutdown, NextPeer, tries, wire, outcome, history
<1>7. CASE Connect
  BY <1>0, <1>7 DEF Connect, PreSendShutdown, TryFails, NextPeer, tries, wire, outcome, history
<1>8. CASE AttemptFails
  BY <1>0, <1>8 DEF AttemptFails, tries, wire, outcome, history
<1>9. CASE Backoff
  BY <1>0, <1>9 DEF Backoff, tries, wire, outcome, history
<1>10. CASE Route
  BY <1>0, <1>10 DEF Route, Resolve, tries, wire, outcome, history
<1>11. CASE WriteOk
  BY <1>0, <1>11 DEF WriteOk, Resolve, BytesOut, tries, wire, outcome, history
<1>12. CASE WriteFails
  BY <1>0, <1>12 DEF WriteFails, Spill, BytesOut, BrokenDropped, Kept, Dropped, TryFails, NextPeer, tries, wire, outcome, history
<1>13. CASE AppendFails
  BY <1>0, <1>13 DEF AppendFails, Spill, BytesOut, Ends, TryFails, NextPeer, tries, wire, outcome, history
<1>14. CASE WriteTimesOut
  BY <1>0, <1>14 DEF WriteTimesOut, Spill, BytesOut, TryFails, NextPeer, tries, wire, outcome, history
<1>15. CASE WriteInterrupted
  BY <1>0, <1>15 DEF WriteInterrupted, Spill, BytesOut, tries, wire, outcome, history
<1>16. CASE DrainTimesOut
  BY <1>0, <1>16 DEF DrainTimesOut, Spill, BytesOut, tries, wire, outcome, history
<1>17. CASE \E p \in Peers : CooledDown(p)
  BY <1>0, <1>17 DEF CooledDown, tries, wire, outcome, history
<1>18. CASE UNCHANGED vars
  BY <1>0, <1>18 DEF vars, tries, wire, outcome, history
<1> QED
  BY <1>1, <1>2, <1>3, <1>4, <1>5, <1>6, <1>7, <1>8, <1>9, <1>10, <1>11, <1>12, <1>13, <1>14, <1>15, <1>16, <1>17, <1>18
     DEF Next, Own, Write

\* An attempt that got bytes out has no further try.
LEMMA PartialTry ==
    ASSUME IInv, [Next]_vars
    PROVE  (partial' /\ pc' \in {"try", "connect", "write"} /\ Kind \notin {"tcp", "unix"}) =>
              pc' = "try" /\ left' = 0 /\ Kind # "udp"
<1> USE DEF FrameInv
<1>0. TypeOK /\ TryInv /\ FrameInv /\ partial \in BOOLEAN /\ left \in Nat
  BY DEF IInv, TypeOK, ConfigInv
<1> USE DEF TryInv
<1>1. CASE Signal
  BY <1>0, <1>1 DEF Signal, tries, wire, outcome, history
<1>2. CASE StartDrain
  BY <1>0, <1>2 DEF StartDrain, Steady, tries, wire, outcome, history
<1>3. CASE Consume
  BY <1>0, <1>3 DEF Consume, MayReject, tries, wire, outcome, history
<1>4. CASE Abort
  BY <1>0, <1>4 DEF Abort, tries, wire, outcome, history
<1>5. CASE BeginAttempt
  BY <1>0, <1>5 DEF BeginAttempt, tries, wire, outcome, history
<1>6. CASE Try
  <2>1. UNCHANGED partial /\ left > 0 /\ pc = "try"
    BY <1>6 DEF Try, PreSendShutdown, history
  <2>2. Kind \notin {"tcp", "unix"} => ~partial
    BY <1>0, <2>1
  <2> QED
    BY <2>1, <2>2
<1>7. CASE Connect
  BY <1>0, <1>7 DEF Connect, PreSendShutdown, TryFails, NextPeer, tries, wire, outcome, history
<1>8. CASE AttemptFails
  BY <1>0, <1>8 DEF AttemptFails, tries, wire, outcome, history
<1>9. CASE Backoff
  BY <1>0, <1>9 DEF Backoff, tries, wire, outcome, history
<1>10. CASE Route
  BY <1>0, <1>10 DEF Route, Resolve, tries, wire, outcome, history
<1>11. CASE WriteOk
  BY <1>0, <1>11 DEF WriteOk, Resolve, BytesOut, tries, wire, outcome, history
<1>12. CASE WriteFails
  <2>1. Kind \in {"tcp", "udp", "unix", "ltp"} /\ pc = "write" /\ pc' = "try" /\ left' = left - 1
    BY <1>12 DEF WriteFails, TryFails, Connects
  <2>2. CASE Kind = "ltp"
    BY <1>0, <2>1, <2>2
  <2>3. CASE Kind = "udp"
    <3>1. UNCHANGED partial
      BY <1>12, <2>3 DEF WriteFails, Spills, Spill, history
    <3> QED
      BY <1>0, <2>1, <2>3, <3>1
  <2> QED
    BY <2>1, <2>2, <2>3
<1>13. CASE AppendFails
  <2>1. Kind \in {"kafka", "file", "stdout"}
    BY <1>0, <1>13 DEF AppendFails, Connects, TypeOK
  <2>2. pc = "write" /\ (pc' = "route" \/ (pc' = "try" /\ left' = left - 1))
    BY <1>13 DEF AppendFails, TryFails
  <2> QED
    BY <1>0, <2>1, <2>2
<1>14. CASE WriteTimesOut
  BY <1>0, <1>14 DEF WriteTimesOut, Spill, BytesOut, TryFails, NextPeer, tries, wire, outcome, history
<1>15. CASE WriteInterrupted
  BY <1>0, <1>15 DEF WriteInterrupted, Spill, BytesOut, tries, wire, outcome, history
<1>16. CASE DrainTimesOut
  BY <1>0, <1>16 DEF DrainTimesOut, Spill, BytesOut, tries, wire, outcome, history
<1>17. CASE \E p \in Peers : CooledDown(p)
  BY <1>0, <1>17 DEF CooledDown, tries, wire, outcome, history
<1>18. CASE UNCHANGED vars
  BY <1>0, <1>18 DEF vars, tries, wire, outcome, history
<1> QED
  BY <1>1, <1>2, <1>3, <1>4, <1>5, <1>6, <1>7, <1>8, <1>9, <1>10, <1>11, <1>12, <1>13, <1>14, <1>15, <1>16, <1>17, <1>18
     DEF Next, Own, Write

\* stdout and syslog_udp do not write an event again that they have begun.
LEMMA BegunTry ==
    ASSUME IInv, [Next]_vars
    PROVE  begun' /\ Kind \in {"stdout", "udp"} =>
              pc' \in {"idle", "route", "stopped"} \/ (pc' = "try" /\ left' = 0 /\ drain')
<1> USE DEF FrameInv
<1>0. TypeOK /\ TryInv /\ FrameInv /\ begun \in BOOLEAN /\ left \in Nat
  BY DEF IInv, TypeOK, ConfigInv
<1> USE DEF TryInv
<1>1. CASE Signal
  BY <1>0, <1>1 DEF Signal, tries, wire, outcome, history
<1>2. CASE StartDrain
  BY <1>0, <1>2 DEF StartDrain, Steady, tries, wire, outcome, history
<1>3. CASE Consume
  BY <1>0, <1>3 DEF Consume, MayReject, tries, wire, outcome, history
<1>4. CASE Abort
  BY <1>0, <1>4 DEF Abort, tries, wire, outcome, history
<1>5. CASE BeginAttempt
  BY <1>0, <1>5 DEF BeginAttempt, tries, wire, outcome, history
<1>6. CASE Try
  <2>1. UNCHANGED begun /\ left > 0 /\ pc = "try"
    BY <1>6 DEF Try, PreSendShutdown, history
  <2>2. Kind \in {"stdout", "udp"} => ~begun
    BY <1>0, <2>1
  <2> QED
    BY <2>1, <2>2
<1>7. CASE Connect
  BY <1>0, <1>7 DEF Connect, PreSendShutdown, TryFails, NextPeer, tries, wire, outcome, history
<1>8. CASE AttemptFails
  BY <1>0, <1>8 DEF AttemptFails, tries, wire, outcome, history
<1>9. CASE Backoff
  BY <1>0, <1>9 DEF Backoff, tries, wire, outcome, history
<1>10. CASE Route
  BY <1>0, <1>10 DEF Route, Resolve, tries, wire, outcome, history
<1>11. CASE WriteOk
  BY <1>0, <1>11 DEF WriteOk, Resolve, BytesOut, tries, wire, outcome, history
<1>12. CASE WriteFails
  <2>1. Kind # "stdout" /\ pc = "write"
    BY <1>12 DEF WriteFails, Connects
  <2>2. Kind = "udp" => UNCHANGED begun
    BY <1>12 DEF WriteFails, Spills, Spill, history
  <2> QED
    BY <1>0, <2>1, <2>2
<1>13. CASE AppendFails
  <2>1. PICK b \in BOOLEAN : /\ IF b THEN BytesOut ELSE UNCHANGED history
                             /\ IF Ends(b) THEN pc' = "route" ELSE TryFails
    BY <1>13 DEF AppendFails, Spills, Spill
  <2>2. pc = "write" /\ Kind # "udp" /\ drain' = drain
    BY <1>13 DEF AppendFails, Connects
  <2>3. CASE ~b
    BY <1>0, <2>1, <2>2, <2>3 DEF history
  <2>4. CASE b /\ ~drain
    BY <2>1, <2>2, <2>4 DEF Ends, Steady
  <2>5. CASE b /\ drain
    <3>1. Kind = "stdout" => ~Ends(b) /\ left = 1
      BY <1>0, <2>2, <2>5 DEF Ends, Steady
    <3>2. Kind = "stdout" => pc' = "try" /\ left' = 0
      BY <2>1, <3>1 DEF TryFails
    <3> QED
      BY <2>2, <2>5, <3>2
  <2> QED
    BY <2>3, <2>4, <2>5
<1>14. CASE WriteTimesOut
  BY <1>0, <1>14 DEF WriteTimesOut, Spill, BytesOut, TryFails, NextPeer, tries, wire, outcome, history
<1>15. CASE WriteInterrupted
  BY <1>0, <1>15 DEF WriteInterrupted, Spill, BytesOut, tries, wire, outcome, history
<1>16. CASE DrainTimesOut
  BY <1>0, <1>16 DEF DrainTimesOut, Spill, BytesOut, tries, wire, outcome, history
<1>17. CASE \E p \in Peers : CooledDown(p)
  BY <1>0, <1>17 DEF CooledDown, tries, wire, outcome, history
<1>18. CASE UNCHANGED vars
  BY <1>0, <1>18 DEF vars, tries, wire, outcome, history
<1> QED
  BY <1>1, <1>2, <1>3, <1>4, <1>5, <1>6, <1>7, <1>8, <1>9, <1>10, <1>11, <1>12, <1>13, <1>14, <1>15, <1>16, <1>17, <1>18
     DEF Next, Own, Write

\* A healthy peer further on in the row comes one try nearer.
LEMMA AheadStep ==
    ASSUME NEW h \in Peers, at \in Peers, h # at, at' = After(at)
    PROVE  Ahead(h)' = Ahead(h) - 1
<1>1. at' = IF at = NPeers THEN 1 ELSE at + 1
  BY AfterProperties
<1>2. CASE at = NPeers
  BY <1>1, <1>2 DEF Ahead, Peers
<1>3. CASE at # NPeers /\ h >= at
  BY <1>1, <1>3 DEF Ahead, Peers
<1>4. CASE at # NPeers /\ h < at
  BY <1>1, <1>4 DEF Ahead, Peers
<1> QED
  BY <1>2, <1>3, <1>4 DEF Peers

\* The first try of an attempt is one of a full round.
LEMMA AheadBound ==
    ASSUME NEW h \in Peers
    PROVE  /\ at \in Peers => Ahead(h) \in 0 .. NPeers - 1
           /\ at' \in Peers => Ahead(h)' \in 0 .. NPeers - 1
  BY DEF Ahead, Peers

\* No shutdown and a try to come: the event is not given up.
LEMMA HealthyPhase ==
    ASSUME IInv, [Next]_vars
    PROVE  /\ pc' \in {"try", "connect", "write"} => pc \in {"try", "connect", "write"} \/ BeginAttempt
           /\ (/\ ~signal' /\ Kind \notin {"file", "ltp"} /\ (~Rotating => ~Sick)
               /\ pc \notin {"route", "stopped", "backoff"} /\ (pc = "try" => left > 0))
                 => pc' \notin {"route", "stopped", "backoff"}
<1> USE DEF HandleInv
<1>0. signal \in BOOLEAN /\ drain \in BOOLEAN /\ (drain => signal) /\ (signal => signal')
  BY SignalEffect DEF IInv, TypeOK, HandleInv
<1> USE DEF Told, Steady
<1>1. CASE Signal
  BY <1>0, <1>1 DEF Signal, tries, wire, outcome, history
<1>2. CASE StartDrain
  BY <1>0, <1>2 DEF StartDrain, Steady, tries, wire, outcome, history
<1>3. CASE Consume
  BY <1>0, <1>3 DEF Consume, MayReject, tries, wire, outcome, history
<1>4. CASE Abort
  BY <1>0, <1>4 DEF Abort, tries, wire, outcome, history
<1>5. CASE BeginAttempt
  BY <1>0, <1>5 DEF BeginAttempt, tries, wire, outcome, history
<1>6. CASE Try
  BY <1>0, <1>6 DEF Try, PreSendShutdown, NextPeer, tries, wire, outcome, history
<1>7. CASE Connect
  BY <1>0, <1>7 DEF Connect, PreSendShutdown, TryFails, NextPeer, tries, wire, outcome, history
<1>8. CASE AttemptFails
  BY <1>0, <1>8 DEF AttemptFails, tries, wire, outcome, history
<1>9. CASE Backoff
  BY <1>0, <1>9 DEF Backoff, tries, wire, outcome, history
<1>10. CASE Route
  BY <1>0, <1>10 DEF Route, Resolve, tries, wire, outcome, history
<1>11. CASE WriteOk
  BY <1>0, <1>11 DEF WriteOk, Resolve, BytesOut, tries, wire, outcome, history
<1>12. CASE WriteFails
  BY <1>0, <1>12 DEF WriteFails, Spill, BytesOut, BrokenDropped, Kept, Dropped, TryFails, NextPeer, tries, wire, outcome, history
<1>13. CASE AppendFails
  <2>1. ~Rotating /\ Sick
    BY <1>13 DEF AppendFails, Connects, Rotating
  <2>2. pc = "write"
    BY <1>13 DEF AppendFails
  <2> QED
    BY <2>1, <2>2
<1>14. CASE WriteTimesOut
  BY <1>0, <1>14 DEF WriteTimesOut, Spill, BytesOut, TryFails, NextPeer, tries, wire, outcome, history
<1>15. CASE WriteInterrupted
  BY <1>0, <1>15 DEF WriteInterrupted, Spill, BytesOut, tries, wire, outcome, history
<1>16. CASE DrainTimesOut
  BY <1>0, <1>16 DEF DrainTimesOut, Spill, BytesOut, tries, wire, outcome, history
<1>17. CASE \E p \in Peers : CooledDown(p)
  BY <1>0, <1>17 DEF CooledDown, tries, wire, outcome, history
<1>18. CASE UNCHANGED vars
  BY <1>0, <1>18 DEF vars, tries, wire, outcome, history
<1> QED
  BY <1>1, <1>2, <1>3, <1>4, <1>5, <1>6, <1>7, <1>8, <1>9, <1>10, <1>11, <1>12, <1>13, <1>14, <1>15, <1>16, <1>17, <1>18
     DEF Next, Own, Write

-----------------------------------------------------------------------------
(* The parts of the invariant. *)

\* Kind and the tests on it are those of the configuration.
LEMMA KindKept ==
    ASSUME IInv, [Next]_vars
    PROVE  /\ Kind' = Kind /\ (Rotating' <=> Rotating) /\ (Connects' <=> Connects)
           /\ PeersOf(Kind)' = PeersOf(Kind)
  BY ConfigKept DEF Kind, Rotating, Connects, PeersOf, Peers

\* The configuration, and the Boolean history.
LEMMA ConfigStep ==
    ASSUME IInv, [Next]_vars
    PROVE  ConfigInv'
<1>1. {partial, blurred, begun, redone} \subseteq BOOLEAN
  BY DEF IInv, ConfigInv
<1>2. partial' \in BOOLEAN /\ begun' \in BOOLEAN
  BY <1>1, HistoryEffect, Zenon DEF BytesOut, history
<1>3. blurred' \in BOOLEAN
  BY <1>1, HistoryEffect, Zenon DEF BytesOut, history
<1>4. redone' \in BOOLEAN
  BY <1>1, HistoryEffect, Zenon DEF BytesOut, history
<1> QED
  BY <1>2, <1>3, <1>4, ConfigKept, KindKept DEF IInv, ConfigInv, Peers

\* The row of tries stays on the peer list.
LEMMA TriesStep ==
    ASSUME IInv, [Next]_vars
    PROVE  /\ {cursor, at}' \subseteq Peers /\ left' \in 0 .. NPeers + 1
           /\ ~Rotating => at' = 1
           /\ Kind \in {"ltp", "kafka", "file", "stdout"} => left' <= 1
<1>1. /\ cursor \in Peers /\ at \in Peers /\ left \in 0 .. NPeers + 1 /\ 1 \in Peers
      /\ (~Rotating => at = 1) /\ (Kind \in {"ltp", "kafka", "file", "stdout"} => left <= 1)
  BY DEF IInv, TypeOK, TryInv, Peers
<1>2. CASE UNCHANGED tries
  BY <1>1, <1>2 DEF tries
<1>3. CASE BeginAttempt
  BY <1>1, <1>3, TriesBounded, AfterProperties DEF BeginAttempt, IInv
<1>4. CASE Advances
  BY <1>1, <1>4, AfterProperties DEF Advances, NextPeer
<1> QED
  BY <1>2, <1>3, <1>4, TriesEffect

\* What each place of consume() knows of the tries.
LEMMA TryStep ==
    ASSUME IInv, [Next]_vars
    PROVE  TryInv'
  BY TriesStep, PhaseEffect, WriteReady, KindKept DEF TryInv

\* The connections and the frames written on them.
LEMMA FrameStep ==
    ASSUME IInv, [Next]_vars
    PROVE  /\ FrameInv' /\ glued' \subseteq Endings
           /\ conn' \in [Peers -> {"none"} \cup Endings]
<1>0. MayFollow \subseteq MayFollow' /\ MayFollow \subseteq Endings
  BY MayFollowGrows
<1>1. /\ conn \in [Peers -> {"none"} \cup Endings] /\ at \in Peers
      /\ \A p \in Peers : /\ conn[p] \in {"none"} \cup MayFollow
                          /\ ~Connects => conn[p] # "none"
      /\ glued \subseteq MayFollow /\ (redone => Kind \notin {"stdout", "udp"})
      /\ (blurred => Kind \in {"tcp", "unix"})
  BY DEF IInv, TypeOK, FrameInv, WholeFrames, PreSendIsHonest
<1>2. /\ conn' \in [Peers -> {"none"} \cup Endings]
      /\ \A p \in Peers : /\ conn'[p] \in {"none"} \cup MayFollow
                          /\ ~Connects => conn'[p] # "none"
  <2>1. CASE UNCHANGED conn
    BY <1>1, <2>1
  <2>2. CASE ~UNCHANGED conn
    <3>1. PICK x \in {"none"} \cup MayFollow :
             conn' = [conn EXCEPT ![at] = x] /\ (~Connects => x # "none")
      BY <2>2, ConnEffect
    <3> QED
      BY <1>0, <1>1, <3>1
  <2> QED
    BY <2>1, <2>2
<1>3. glued' \subseteq MayFollow
  <2>1. CASE UNCHANGED glued
    BY <1>1, <2>1
  <2>2. CASE BytesOut /\ pc = "write"
    <3>1. conn[at] # "none"
      BY <1>1, <2>2 DEF IInv, TryInv
    <3>2. conn[at] \in MayFollow
      BY <1>1, <3>1
    <3>3. glued' = IF Streams THEN glued \cup {conn[at]} ELSE glued
      BY <2>2 DEF BytesOut
    <3> QED
      BY <1>1, <3>2, <3>3
  <2> QED
    BY <2>1, <2>2, HistoryEffect DEF history
<1>5. redone' => Kind \notin {"stdout", "udp"}
  <2>1. CASE UNCHANGED redone
    BY <1>1, <2>1
  <2>2. CASE BytesOut /\ pc = "write"
    <3>1. begun => Kind \notin {"stdout", "udp"}
      BY <2>2 DEF IInv, FrameInv
    <3>2. redone' => redone \/ begun
      BY <2>2, Zenon DEF BytesOut
    <3> QED
      BY <1>1, <3>1, <3>2
  <2> QED
    BY <2>1, <2>2, HistoryEffect DEF history
<1>4. blurred' => Kind \in {"tcp", "unix"}
  <2>1. CASE UNCHANGED blurred
    BY <1>1, <2>1
  <2>2. CASE pc \in {"try", "connect"} /\ (pc = "try" => left > 0) /\ blurred' = (blurred \/ partial)
    <3>1. partial => Kind \in {"tcp", "unix"}
      BY <2>2 DEF IInv, FrameInv, TypeOK
    <3>2. blurred' => blurred \/ partial
      BY <2>2, Zenon
    <3> QED
      BY <1>1, <3>1, <3>2
  <2> QED
    BY <2>1, <2>2, HistoryEffect DEF history, BytesOut
<1> QED
  BY <1>0, <1>2, <1>3, <1>4, <1>5, PartialTry, BegunTry, KindKept
     DEF FrameInv, WholeFrames, PreSendIsHonest

\* The healthy peer is not passed over.
LEMMA HealthyStep ==
    ASSUME IInv, [Next]_vars
    PROVE  HealthyInv' /\ cooled' \subseteq Peers
<1>1. /\ at \in Peers /\ cooled \subseteq Peers /\ config.healthy \subseteq Peers
      /\ config.healthy \subseteq PeersOf(Kind) /\ left \in 0 .. NPeers + 1
      /\ (~Rotating => at = 1) /\ at' \in Peers
  BY TriesStep DEF IInv, TypeOK, ConfigInv, TryInv
<1>2. cooled' \subseteq Peers
  BY <1>1, CooledEffect
<1>3. ASSUME NEW h \in config.healthy
      PROVE  h \notin cooled'
  BY <1>3, CooledEffect DEF IInv, HealthyInv, Sick
<1>4. ASSUME NEW h \in config.healthy, ~signal', Kind \notin {"file", "ltp"}
      PROVE  /\ pc' \notin {"route", "stopped", "backoff"}
             /\ pc' \in {"try", "connect", "write"} => Ahead(h)' < left'
  <2>1. /\ ~signal /\ h \notin cooled /\ pc \notin {"route", "stopped", "backoff"}
        /\ pc \in {"try", "connect", "write"} => Ahead(h) < left
    BY <1>4, SignalEffect DEF IInv, HealthyInv
  <2>2. h \in Peers /\ Ahead(h) \in 0 .. NPeers - 1 /\ Ahead(h)' \in 0 .. NPeers - 1
    <3>1. h \in Peers
      BY <1>1
    <3> QED
      BY <1>1, <3>1, AheadBound
  <2>3. ~Rotating => h = at
    BY <1>1 DEF PeersOf, Rotating
  <2>4. pc' \notin {"route", "stopped", "backoff"}
    BY <1>1, <1>4, <2>1, <2>2, <2>3, HealthyPhase DEF Sick
  <2>5. ASSUME pc' \in {"try", "connect", "write"}
        PROVE  Ahead(h)' < left'
    <3>1. CASE BeginAttempt
      <4>1. CASE Rotating
        BY <2>2, <3>1, <4>1, TriesBounded DEF BeginAttempt, IInv
      <4>2. CASE ~Rotating
        <5>1. h = 1 /\ at' = 1 /\ left' \in 1 .. NPeers + 1
          BY <1>1, <2>3, <3>1, <4>2, TriesBounded DEF BeginAttempt, IInv
        <5> QED
          BY <5>1 DEF Ahead
      <4> QED
        BY <4>1, <4>2
    <3>2. CASE Advances
      <4>1. h # at
        BY <2>1, <3>2 DEF Advances, Sick
      <4>2. at' = After(at)
        BY <2>3, <3>2, <4>1 DEF Advances, NextPeer
      <4>3. Ahead(h)' = Ahead(h) - 1
        BY <1>1, <2>2, <4>1, <4>2, AheadStep
      <4> QED
        BY <1>1, <2>1, <2>2, <3>2, <4>3 DEF Advances
    <3>3. CASE UNCHANGED tries /\ ~BeginAttempt
      <4>1. pc \in {"try", "connect", "write"}
        BY <2>5, <3>3, HealthyPhase
      <4> QED
        BY <2>1, <3>3, <4>1 DEF tries, Ahead
    <3> QED
      BY <3>1, <3>2, <3>3, TriesEffect
  <2> QED
    BY <2>4, <2>5
<1> QED
  BY <1>2, <1>3, <1>4, ConfigKept, KindKept DEF HealthyInv

\* Only consume() and consume_shutdown() begin on an event.
LEMMA PhaseEnters ==
    ASSUME IInv, [Next]_vars
    PROVE  pc' \notin {"idle", "stopped"} => pc \notin {"idle", "stopped"} \/ Consume
<1> USE DEF TryInv
<1>0. TypeOK
  BY DEF IInv
<1>1. CASE Signal
  BY <1>0, <1>1 DEF Signal, tries, wire, outcome, history
<1>2. CASE StartDrain
  BY <1>0, <1>2 DEF StartDrain, Steady, tries, wire, outcome, history
<1>3. CASE Consume
  BY <1>0, <1>3 DEF Consume, MayReject, tries, wire, outcome, history
<1>4. CASE Abort
  BY <1>0, <1>4 DEF Abort, tries, wire, outcome, history
<1>5. CASE BeginAttempt
  BY <1>0, <1>5 DEF BeginAttempt, tries, wire, outcome, history
<1>6. CASE Try
  BY <1>0, <1>6 DEF Try, PreSendShutdown, NextPeer, tries, wire, outcome, history
<1>7. CASE Connect
  BY <1>0, <1>7 DEF Connect, PreSendShutdown, TryFails, NextPeer, tries, wire, outcome, history
<1>8. CASE AttemptFails
  BY <1>0, <1>8 DEF AttemptFails, tries, wire, outcome, history
<1>9. CASE Backoff
  BY <1>0, <1>9 DEF Backoff, tries, wire, outcome, history
<1>10. CASE Route
  BY <1>0, <1>10 DEF Route, Resolve, tries, wire, outcome, history
<1>11. CASE WriteOk
  BY <1>0, <1>11 DEF WriteOk, Resolve, BytesOut, tries, wire, outcome, history
<1>12. CASE WriteFails
  BY <1>0, <1>12 DEF WriteFails, Spill, BytesOut, BrokenDropped, Kept, Dropped, TryFails, NextPeer, tries, wire, outcome, history
<1>13. CASE AppendFails
  BY <1>0, <1>13 DEF AppendFails, Spill, BytesOut, Ends, TryFails, NextPeer, tries, wire, outcome, history
<1>14. CASE WriteTimesOut
  BY <1>0, <1>14 DEF WriteTimesOut, Spill, BytesOut, TryFails, NextPeer, tries, wire, outcome, history
<1>15. CASE WriteInterrupted
  BY <1>0, <1>15 DEF WriteInterrupted, Spill, BytesOut, tries, wire, outcome, history
<1>16. CASE DrainTimesOut
  BY <1>0, <1>16 DEF DrainTimesOut, Spill, BytesOut, tries, wire, outcome, history
<1>17. CASE \E p \in Peers : CooledDown(p)
  BY <1>0, <1>17 DEF CooledDown, tries, wire, outcome, history
<1>18. CASE UNCHANGED vars
  BY <1>0, <1>18 DEF vars, tries, wire, outcome, history
<1> QED
  BY <1>1, <1>2, <1>3, <1>4, <1>5, <1>6, <1>7, <1>8, <1>9, <1>10, <1>11, <1>12, <1>13, <1>14, <1>15, <1>16, <1>17, <1>18
     DEF Next, Own, Write

\* The metrics are numbers.
LEMMA CountsAreNat ==
    ASSUME IInv
    PROVE  written \in Nat /\ failed \in Nat
<1>1. IsFiniteSet(Handles)
  BY FS_Interval DEF Handles
<1>2. IsFiniteSet({e \in Handles : disp[e] = "Delivered"}) /\ IsFiniteSet({e \in Handles : disp[e] = "Recovered"})
  BY <1>1, FS_Subset
<1> QED
  BY <1>2, FS_CardinalityType DEF IInv, Honest, MetricsExact

\* Resolving a handle adds it to one of the sets the metrics count.
LEMMA CountResolved ==
    ASSUME disp \in [Handles -> {"none", "Delivered", "Recovered", "Dropped"}],
           next \in Handles, disp[next] = "none",
           NEW d, NEW v \in {"Delivered", "Recovered"}
    PROVE  /\ Cardinality({h \in Handles : disp[h] = v}) \in Nat
           /\ Cardinality({h \in Handles : [disp EXCEPT ![next] = d][h] = v})
                = Cardinality({h \in Handles : disp[h] = v}) + (IF d = v THEN 1 ELSE 0)
<1> DEFINE S == {h \in Handles : disp[h] = v}
           T == {h \in Handles : [disp EXCEPT ![next] = d][h] = v}
<1>1. IsFiniteSet(S)
  <2>1. IsFiniteSet(Handles)
    BY FS_Interval DEF Handles
  <2> QED
    BY <2>1, FS_Subset
<1>2. next \notin S
  OBVIOUS
<1>3. CASE d = v
  <2>1. T = S \cup {next}
    BY <1>3
  <2> QED
    BY <1>1, <1>2, <1>3, <2>1, FS_AddElement, FS_CardinalityType
<1>4. CASE d # v
  <2>1. T = S
    BY <1>4
  <2>2. Cardinality(S) \in Nat
    BY <1>1, FS_CardinalityType
  <2> QED
    BY <1>4, <2>1, <2>2
<1> QED
  BY <1>3, <1>4

\* The handle in hand, and the types of what is resolved.
LEMMA HandleStep ==
    ASSUME IInv, [Next]_vars
    PROVE  /\ HandleInv' /\ next' \in 0 .. N /\ dlq' \subseteq Handles
           /\ disp' \in [Handles -> {"none", "Delivered", "Recovered", "Dropped"}]
<1>1. /\ next \in 0 .. N /\ dlq \subseteq Handles
      /\ disp \in [Handles -> {"none", "Delivered", "Recovered", "Dropped"}]
      /\ (pc \notin {"idle", "stopped"} => next >= 1 /\ disp[next] = "none")
      /\ \A e \in Handles : e > next => disp[e] = "none"
  BY DEF IInv, TypeOK, HandleInv
<1>2. CASE Consume
  BY <1>1, <1>2, SignalEffect DEF Consume, outcome, HandleInv, Handles
<1>3. CASE Abort
  BY <1>1, <1>3, SignalEffect DEF Abort, HandleInv, Handles
<1>4. CASE Route
  <2>1. PICK d \in {"Dropped", "Recovered"} : disp' = [disp EXCEPT ![next] = d]
    BY <1>4 DEF Route, Resolve, Disposition
  <2>2. dlq' \subseteq Handles /\ next \in Handles
    BY <1>1, <1>4 DEF Route, Handles
  <2>3. pc' = "idle" /\ next' = next
    BY <1>4 DEF Route
  <2> QED
    BY <1>1, <2>1, <2>2, <2>3, SignalEffect DEF HandleInv, Handles
<1>5. CASE WriteOk
  BY <1>1, <1>5, SignalEffect DEF WriteOk, Resolve, HandleInv, Handles
<1>6. CASE UNCHANGED <<next, outcome>>
  <2>1. pc' \notin {"idle", "stopped"} => pc \notin {"idle", "stopped"} \/ Consume
    BY PhaseEnters
  <2> QED
    BY <1>1, <1>2, <1>6, <2>1, SignalEffect DEF outcome, HandleInv
<1> QED
  BY <1>2, <1>3, <1>4, <1>5, <1>6, EventEffect

\* What the queue, the metrics and the dead-letter file are told.
LEMMA HonestStep ==
    ASSUME IInv, [Next]_vars
    PROVE  Honest'
<1> DEFINE Count(v) == Cardinality({e \in Handles : disp[e] = v})
<1>1. /\ next \in 0 .. N /\ dlq \subseteq Handles
      /\ disp \in [Handles -> {"none", "Delivered", "Recovered", "Dropped"}]
      /\ (pc \notin {"idle", "stopped"} => next \in Handles /\ disp[next] = "none")
  BY DEF IInv, TypeOK, HandleInv, Handles
<1>2. RecoveredIsOnRecord /\ MetricsExact /\ HealthyPeerDelivers
  BY DEF IInv, Honest
<1>3. CASE UNCHANGED outcome
  <2>1. RecoveredIsOnRecord' /\ MetricsExact'
    BY <1>2, <1>3, ConfigKept DEF outcome, RecoveredIsOnRecord, MetricsExact
  <2>2. HealthyPeerDelivers'
    BY <1>2, <1>3, ConfigKept, KindKept, SignalEffect DEF outcome, HealthyPeerDelivers
  <2> QED
    BY <2>1, <2>2, FrameStep DEF Honest, FrameInv
<1>4. ASSUME NEW d, disp' = [disp EXCEPT ![next] = d], pc \notin {"idle", "stopped"},
             d = "Recovered" /\ config.backend = "disk" /\ config.error_log => next \in dlq',
             dlq \subseteq dlq', d \in {"Delivered", "Recovered", "Dropped"},
             written' = written + (IF d = "Delivered" THEN 1 ELSE 0),
             failed' = failed + (IF d = "Recovered" THEN 1 ELSE 0),
             d = "Delivered" \/ pc = "route" \/ signal
      PROVE  Honest'
  <2>1. next \in Handles /\ disp[next] = "none"
    BY <1>1, <1>4
  <2>2. MetricsExact'
    <3>1. \A v \in {"Delivered", "Recovered"} :
             /\ Count(v) \in Nat
             /\ Cardinality({e \in Handles : [disp EXCEPT ![next] = d][e] = v})
                  = Count(v) + (IF d = v THEN 1 ELSE 0)
      <4> TAKE v \in {"Delivered", "Recovered"}
      <4> QED
        BY <1>1, <2>1, CountResolved
    <3>2. written = Count("Delivered") /\ failed = Count("Recovered")
      BY <1>2 DEF MetricsExact
    <3> QED
      BY <1>4, <3>1, <3>2 DEF MetricsExact
  <2>3. RecoveredIsOnRecord'
    BY <1>1, <1>2, <1>4, <2>1, ConfigKept DEF RecoveredIsOnRecord
  <2>4. HealthyPeerDelivers'
    <3> SUFFICES ASSUME config.healthy # {}, ~signal', Kind \notin {"file", "ltp"}
                 PROVE  \A e \in Handles : disp'[e] \in {"none", "Delivered"}
      BY ConfigKept, KindKept DEF HealthyPeerDelivers
    <3>1. ~signal /\ pc # "route"
      BY SignalEffect DEF IInv, HealthyInv
    <3>2. d = "Delivered"
      BY <1>4, <3>1
    <3> QED
      BY <1>1, <1>2, <1>4, <2>1, <3>1, <3>2 DEF HealthyPeerDelivers
  <2> QED
    BY <2>2, <2>3, <2>4, FrameStep DEF Honest, FrameInv
<1>5. CASE Abort
  <2>1. written \in Nat /\ failed \in Nat
    BY CountsAreNat
  <2>2. /\ written' = written + (IF "Dropped" = "Delivered" THEN 1 ELSE 0)
        /\ failed' = failed + (IF "Dropped" = "Recovered" THEN 1 ELSE 0)
    BY <1>5, <2>1 DEF Abort
  <2>3. /\ disp' = [disp EXCEPT ![next] = "Dropped"] /\ pc \notin {"idle", "stopped"}
        /\ dlq \subseteq dlq' /\ signal
    BY <1>5 DEF Abort
  <2> QED
    BY <1>4, <2>2, <2>3
<1>6. CASE Route
  <2>1. PICK recorded \in IF config.error_log THEN BOOLEAN ELSE {FALSE} :
             /\ disp' = [disp EXCEPT ![next] = Disposition(recorded)]
             /\ failed' = failed + (IF Disposition(recorded) = "Recovered" THEN 1 ELSE 0)
             /\ dlq' = IF recorded THEN dlq \cup {next} ELSE dlq
    BY <1>6 DEF Route, Resolve
  <2>2. /\ Disposition(recorded) \in {"Recovered", "Dropped"}
        /\ (Disposition(recorded) = "Recovered" /\ config.backend = "disk" /\ config.error_log => recorded)
    BY DEF Disposition
  <2>3. dlq \subseteq dlq' /\ (recorded => next \in dlq')
    BY <2>1
  <2>4. written' = written + 0 /\ pc = "route"
    <3>1. written \in Nat
      BY CountsAreNat
    <3> QED
      BY <1>6, <3>1 DEF Route
  <2> QED
    BY <1>4, <2>1, <2>2, <2>3, <2>4
<1>7. CASE WriteOk
  <2>1. written \in Nat /\ failed \in Nat
    BY CountsAreNat
  <2>2. /\ written' = written + (IF "Delivered" = "Delivered" THEN 1 ELSE 0)
        /\ failed' = failed + (IF "Delivered" = "Recovered" THEN 1 ELSE 0)
    BY <1>7, <2>1 DEF WriteOk
  <2>3. /\ disp' = [disp EXCEPT ![next] = "Delivered"] /\ pc \notin {"idle", "stopped"}
        /\ dlq \subseteq dlq'
    BY <1>7 DEF WriteOk, Resolve
  <2> QED
    BY <1>4, <2>2, <2>3
<1> QED
  BY <1>3, <1>5, <1>6, <1>7, EventEffect DEF Consume

-----------------------------------------------------------------------------
(* The theorems. *)

\* A fresh output satisfies the invariant.
LEMMA InitHolds ==
    ASSUME Init
    PROVE  IInv
<1>1. Kind \in OutputKinds
  BY DEF Init, Kind
<1>2. TypeOK
  <2>1. 1 \in Peers /\ 0 \in 0 .. NPeers + 1 /\ 0 \in 0 .. N /\ 0 \in 0 .. MaxAttempts
    BY DEF Peers
  <2> QED
    BY <1>1, <2>1 DEF Init, TypeOK, Endings
<1>3. ConfigInv
  BY DEF Init, ConfigInv
<1>4. TryInv /\ HandleInv /\ HealthyInv
  BY DEF Init, TryInv, HandleInv, HealthyInv
<1>5. FrameInv
  BY DEF Init, FrameInv, MayFollow, WholeFrames, PreSendIsHonest
<1>6. Honest
  <2>1. \A v \in {"Delivered", "Recovered"} : {e \in Handles : disp[e] = v} = {}
    BY DEF Init
  <2>2. MetricsExact
    BY <2>1, FS_EmptySet DEF Init, MetricsExact
  <2> QED
    BY <1>5, <2>2 DEF Init, Honest, HealthyPeerDelivers, RecoveredIsOnRecord, FrameInv
<1> QED
  BY <1>2, <1>3, <1>4, <1>5, <1>6 DEF IInv

\* Every step keeps the invariant.
LEMMA StepHolds ==
    ASSUME IInv, [Next]_vars
    PROVE  IInv'
<1>1. Kind' \in OutputKinds
  BY KindKept DEF IInv, TypeOK
<1>2. TypeOK'
  BY <1>1, SignalEffect, PhaseEffect, TriesStep, FrameStep, HealthyStep, HandleStep DEF TypeOK
<1> QED
  BY <1>2, ConfigStep, TryStep, FrameStep, HandleStep, HealthyStep, HonestStep DEF IInv

\* The strengthening of the output's properties is inductive.
THEOREM Invariance == Spec => []IInv
<1>1. Init => IInv
  BY InitHolds
<1>2. IInv /\ [Next]_vars => IInv'
  BY StepHolds
<1> QED
  BY <1>1, <1>2, PTL DEF Spec

\* An unbatched output's state keeps its type for any number of peers, events
\* and attempts: the peer cursor stays on the list, the count of attempts
\* within RetryConfig::max_attempts.
THEOREM TypeCorrect == Spec => []TypeOK
<1>1. IInv => TypeOK
  BY DEF IInv
<1> QED
  BY <1>1, Invariance, PTL

\* What an unbatched output reports is so, in every order of failures, retries
\* and shutdown: a healthy peer takes every event however the others fail, a
\* disk cursor passes an undelivered event only with its record written, the
\* metrics count each event once, and only syslog_tcp and unix_socket can say
\* "nothing was sent" after part of a frame.
THEOREM OutputsAreHonest == Spec => []Honest
<1>1. IInv => Honest
  BY DEF IInv
<1> QED
  BY <1>1, Invariance, PTL

\* A frame is written behind the first part of another only where the code
\* keeps using the stream: after a timer in syslog_tcp and in the drain of
\* unix_socket, after an error on the connection unix_socket made in the drain,
\* and in file and stdout, which append to what is there.  stdout never repeats
\* an event of which bytes have got out.
THEOREM FramesAreWhole == Spec => []WholeFrames
<1>1. IInv => WholeFrames
  BY DEF IInv, FrameInv
<1> QED
  BY <1>1, Invariance, PTL
=============================================================================
