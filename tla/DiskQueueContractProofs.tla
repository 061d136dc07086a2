---------------------- MODULE DiskQueueContractProofs ----------------------
(***************************************************************************)
(* What the disk queue owes its users, for any number of events, segments,  *)
(* I/O errors and crashes: recv ends only when everything was handed out,   *)
(* unless its last read failed, and in the schedules without a rotation at  *)
(* the end of file and without a failed lookup nothing is stepped over and  *)
(* the queue is the at-least-once queue of AtLeastOnce.                     *)
(***************************************************************************)
EXTENDS DiskQueueProofs

\* What recv returned is on record as handed out.
HandedInv == \A j \in 1 .. Len(in_flight) : in_flight[j].ev \in handed

\* A send is on its event once, and none runs when the senders are gone.
SendInv ==
    /\ sent \subseteq tried
    /\ appending # None => appending \in tried \ sent
    /\ closed => appending = None

\* The read recv makes once the senders are gone: the log stands still, so what
\* that read finds at its end is the end, unless it failed.
LastInv ==
    /\ call = "last" => closed
    /\ rpc = "ended" => call = "last"
    /\ call = "last" /\ rpc = "reread" => ~active
    /\ ~read_failed /\ call = "last" /\ rpc \in {"eof", "missing", "none", "ended"} =>
         Len(segs[read.seq]) <= read.off
    /\ ~read_failed /\ call = "last" /\ rpc \in {"none", "ended"} =>
         write_seq <= read.seq

\* The inductive invariant on top of that of the log.
DrainInv == IInv /\ HandedInv /\ SendInv /\ LastInv

\* In these schedules a segment that is not the writer's is still at its end
\* when the reader leaves it.
ScanInv ==
    rpc \in {"eof", "missing"} /\ read.seq # write_seq =>
        Len(segs[read.seq]) <= read.off

QuietInv == DrainInv /\ ScanInv /\ skipped = {}

-----------------------------------------------------------------------------
(* recv and the senders. *)

\* ack_to pops a prefix of what is in flight and changes no event in it.
LEMMA AckToPops ==
    ASSUME TypeOK, NEW j \in 1 .. Len(in_flight), AckTo(j)
    PROVE  \E k \in 0 .. Len(in_flight) :
             /\ Len(in_flight') = Len(in_flight) - k
             /\ \A i \in 1 .. Len(in_flight) - k : in_flight'[i].ev = in_flight[k + i].ev
<1> DEFINE n == Len(in_flight)
           marked == [in_flight EXCEPT ![j].acked = TRUE]
<1>1. /\ n \in Nat /\ in_flight \in Seq(InFlight)
      /\ \A i \in 1 .. n : in_flight[i] \in InFlight
  BY TypeFacts
<1>2. [in_flight[j] EXCEPT !.acked = TRUE] \in InFlight
  BY <1>1 DEF InFlight
<1>3. marked \in Seq(InFlight) /\ Len(marked) = n
  BY <1>1, <1>2, ExceptSeq
<1>4. \A i \in 1 .. n : marked[i] = IF i = j THEN [in_flight[j] EXCEPT !.acked = TRUE]
                                            ELSE in_flight[i]
  BY <1>1, ExceptSeq
<1>5. PICK k \in 0 .. Len(marked) : in_flight' = SubSeq(marked, k + 1, Len(marked))
  BY DEF AckTo
<1> HIDE DEF marked
<1>6. k \in 0 .. n /\ k + 1 \in 1 .. n + 1 /\ n \in k .. n
  BY <1>1, <1>3, <1>5
<1>7. Len(in_flight') = n - k /\ \A i \in 1 .. n - k : in_flight'[i] = marked[k + i]
  BY <1>1, <1>3, <1>5, <1>6, SubSeqProperties
<1>8. \A i \in 1 .. n : marked[i].ev = in_flight[i].ev
  BY <1>1, <1>4 DEF InFlight
<1>9. \A i \in 1 .. n - k : k + i \in 1 .. n
  BY <1>1, <1>6
<1> QED
  BY <1>6, <1>7, <1>8, <1>9

\* Each event is sent at most once.
LEMMA SendStep ==
    ASSUME DrainInv, [Next]_vars
    PROVE  SendInv'
<1> USE DEF disk, shared, receiver, acking, bounds, history
<1>0. SendInv /\ None \notin Events /\ sent \subseteq tried /\ (appending \in Events \cup {None})
  BY DiskQueueAssumption DEF DrainInv, IInv, TypeOK, SendInv
<1> USE DEF SendInv
<1>1. CASE \E e \in Events : BeginAppend(e)
  BY <1>0, <1>1 DEF BeginAppend, Unlocked
<1>2. CASE \E e \in Events : FailAppend(e)
  BY <1>0, <1>2 DEF FailAppend, Unlocked
<1>3. CASE BreakAppend
  BY <1>0, <1>3 DEF BreakAppend
<1>4. CASE EndAppend
  BY <1>0, <1>4 DEF EndAppend, Unlocked
<1>5. CASE Notify
  BY <1>0, <1>5 DEF Notify, NotifyOne
<1>6. CASE DropSender
  BY <1>0, <1>6 DEF DropSender, NotifyOne, Unlocked
<1>7. CASE Recv
  BY <1>0, <1>7 DEF Recv
<1>8. CASE ReadLine
  BY <1>0, <1>8 DEF ReadLine, Return
<1>9. CASE NextSegment
  BY <1>0, <1>9 DEF NextSegment
<1>10. CASE InspectTail
  BY <1>0, <1>10 DEF InspectTail
<1>11. CASE Reread
  BY <1>0, <1>11 DEF Reread, Return
<1>12. CASE NothingRead
  BY <1>0, <1>12 DEF NothingRead
<1>13. CASE CancelRecv
  BY <1>0, <1>13 DEF CancelRecv
<1>14. CASE \E j \in 1 .. Len(in_flight) : AckTo(j)
  BY <1>0, <1>14 DEF AckTo
<1>15. CASE AckDelete
  BY <1>0, <1>15 DEF AckDelete
<1>16. CASE AckSave
  BY <1>0, <1>16 DEF AckSave
<1>17. CASE AckSync
  BY <1>0, <1>17 DEF AckSync
<1>18. CASE Restart
  BY <1>0, <1>18 DEF Restart
<1>19. CASE ReadFails
  BY <1>0, <1>19 DEF ReadFails
<1>20. CASE LookupFails
  BY <1>0, <1>20 DEF LookupFails
<1>21. CASE UNCHANGED vars
  BY <1>0, <1>21 DEF vars
<1> QED
  BY <1>1, <1>2, <1>3, <1>4, <1>5, <1>6, <1>7, <1>8, <1>9, <1>10, <1>11, <1>12, <1>13, <1>14, <1>15, <1>16, <1>17, <1>18, <1>19, <1>20, <1>21
     DEF Next, Sender, Reader, Acker

\* No event is ever taken back.
LEMMA HandedGrows ==
    ASSUME DrainInv, [Next]_vars
    PROVE  handed \subseteq handed'
<1> USE DEF disk, shared, receiver, acking, bounds, history
<1>0. TRUE
  OBVIOUS
<1>1. CASE \E e \in Events : BeginAppend(e)
  BY <1>0, <1>1 DEF BeginAppend, Unlocked
<1>2. CASE \E e \in Events : FailAppend(e)
  BY <1>0, <1>2 DEF FailAppend, Unlocked
<1>3. CASE BreakAppend
  BY <1>0, <1>3 DEF BreakAppend
<1>4. CASE EndAppend
  BY <1>0, <1>4 DEF EndAppend, Unlocked
<1>5. CASE Notify
  BY <1>0, <1>5 DEF Notify, NotifyOne
<1>6. CASE DropSender
  BY <1>0, <1>6 DEF DropSender, NotifyOne, Unlocked
<1>7. CASE Recv
  BY <1>0, <1>7 DEF Recv
<1>8. CASE ReadLine
  BY <1>0, <1>8 DEF ReadLine, Return
<1>9. CASE NextSegment
  BY <1>0, <1>9 DEF NextSegment
<1>10. CASE InspectTail
  BY <1>0, <1>10 DEF InspectTail
<1>11. CASE Reread
  BY <1>0, <1>11 DEF Reread, Return
<1>12. CASE NothingRead
  BY <1>0, <1>12 DEF NothingRead
<1>13. CASE CancelRecv
  BY <1>0, <1>13 DEF CancelRecv
<1>14. CASE \E j \in 1 .. Len(in_flight) : AckTo(j)
  BY <1>0, <1>14 DEF AckTo
<1>15. CASE AckDelete
  BY <1>0, <1>15 DEF AckDelete
<1>16. CASE AckSave
  BY <1>0, <1>16 DEF AckSave
<1>17. CASE AckSync
  BY <1>0, <1>17 DEF AckSync
<1>18. CASE Restart
  BY <1>0, <1>18 DEF Restart
<1>19. CASE ReadFails
  BY <1>0, <1>19 DEF ReadFails
<1>20. CASE LookupFails
  BY <1>0, <1>20 DEF LookupFails
<1>21. CASE UNCHANGED vars
  BY <1>0, <1>21 DEF vars
<1> QED
  BY <1>1, <1>2, <1>3, <1>4, <1>5, <1>6, <1>7, <1>8, <1>9, <1>10, <1>11, <1>12, <1>13, <1>14, <1>15, <1>16, <1>17, <1>18, <1>19, <1>20, <1>21
     DEF Next, Sender, Reader, Acker

\* What is in flight was handed out.
LEMMA HandedStep ==
    ASSUME DrainInv, [Next]_vars
    PROVE  HandedInv'
<1> USE DEF disk, shared, receiver, acking, bounds, history
<1>0. HandedInv /\ in_flight \in Seq(InFlight) /\ handed \subseteq handed' /\ Len(in_flight) \in Nat
  BY HandedGrows DEF DrainInv, IInv, TypeOK
<1> USE DEF HandedInv
<1>1. CASE \E e \in Events : BeginAppend(e)
  BY <1>0, <1>1 DEF BeginAppend, Unlocked
<1>2. CASE \E e \in Events : FailAppend(e)
  BY <1>0, <1>2 DEF FailAppend, Unlocked
<1>3. CASE BreakAppend
  BY <1>0, <1>3 DEF BreakAppend
<1>4. CASE EndAppend
  BY <1>0, <1>4 DEF EndAppend, Unlocked
<1>5. CASE Notify
  BY <1>0, <1>5 DEF Notify, NotifyOne
<1>6. CASE DropSender
  BY <1>0, <1>6 DEF DropSender, NotifyOne, Unlocked
<1>7. CASE Recv
  BY <1>0, <1>7 DEF Recv
<1>8. CASE ReadLine
  <2>1. CASE UNCHANGED in_flight
    BY <1>0, <2>1
  <2>2. ASSUME NEW line, Return(line)
        PROVE  HandedInv'
    BY <1>0, <2>2 DEF Return
  <2> QED
    BY <1>8, <2>1, <2>2 DEF ReadLine
<1>9. CASE NextSegment
  BY <1>0, <1>9 DEF NextSegment
<1>10. CASE InspectTail
  BY <1>0, <1>10 DEF InspectTail
<1>11. CASE Reread
  <2>1. CASE UNCHANGED in_flight
    BY <1>0, <2>1
  <2>2. ASSUME NEW line, Return(line)
        PROVE  HandedInv'
    BY <1>0, <2>2 DEF Return
  <2> QED
    BY <1>11, <2>1, <2>2 DEF Reread
<1>12. CASE NothingRead
  BY <1>0, <1>12 DEF NothingRead
<1>13. CASE CancelRecv
  BY <1>0, <1>13 DEF CancelRecv
<1>14. CASE \E j \in 1 .. Len(in_flight) : AckTo(j)
  <2>1. PICK j \in 1 .. Len(in_flight) : AckTo(j)
    BY <1>14
  <2>2. PICK k \in 0 .. Len(in_flight) :
           /\ Len(in_flight') = Len(in_flight) - k
           /\ \A i \in 1 .. Len(in_flight) - k : in_flight'[i].ev = in_flight[k + i].ev
    BY <2>1, AckToPops DEF DrainInv, IInv
  <2> QED
    BY <1>0, <2>2
<1>15. CASE AckDelete
  BY <1>0, <1>15 DEF AckDelete
<1>16. CASE AckSave
  BY <1>0, <1>16 DEF AckSave
<1>17. CASE AckSync
  BY <1>0, <1>17 DEF AckSync
<1>18. CASE Restart
  BY <1>0, <1>18 DEF Restart
<1>19. CASE ReadFails
  BY <1>0, <1>19 DEF ReadFails
<1>20. CASE LookupFails
  BY <1>0, <1>20 DEF LookupFails
<1>21. CASE UNCHANGED vars
  BY <1>0, <1>21 DEF vars
<1> QED
  BY <1>1, <1>2, <1>3, <1>4, <1>5, <1>6, <1>7, <1>8, <1>9, <1>10, <1>11, <1>12, <1>13, <1>14, <1>15, <1>16, <1>17, <1>18, <1>19, <1>20, <1>21
     DEF Next, Sender, Reader, Acker

\* The read after the last sender is gone.
LEMMA LastStep ==
    ASSUME DrainInv, [Next]_vars
    PROVE  LastInv'
<1> USE DEF disk, shared, receiver, acking, bounds, history
<1>0. LastInv /\ SendInv /\ TypeOK /\ read.seq \in Seqs /\ read.off \in Nat
  BY TypeFacts, PositionFacts DEF DrainInv, IInv
<1> USE DEF LastInv
<1>1. CASE \E e \in Events : BeginAppend(e)
  BY <1>0, <1>1 DEF BeginAppend, Unlocked
<1>2. CASE \E e \in Events : FailAppend(e)
  BY <1>0, <1>2 DEF FailAppend, Unlocked
<1>3. CASE BreakAppend
  BY <1>0, <1>3 DEF BreakAppend
<1>4. CASE EndAppend
  BY <1>0, <1>4 DEF EndAppend, Unlocked
<1>5. CASE Notify
  BY <1>0, <1>5 DEF Notify, NotifyOne
<1>6. CASE DropSender
  BY <1>0, <1>6 DEF DropSender, NotifyOne, Unlocked
<1>7. CASE Recv
  BY <1>0, <1>7 DEF Recv
<1>8. CASE ReadLine
  <2>1. Len(segs[read.seq]) \in Nat /\ (read.seq \notin exist => Len(segs[read.seq]) = 0)
    BY <1>0, TypeFacts DEF DrainInv, IInv, FilesInv
  <2>2. /\ UNCHANGED <<segs, call, closed, active, write_seq>> /\ rpc = "check"
        /\ rpc' \in {"missing", "eof", "idle", "torn"}
        /\ rpc' \in {"missing", "eof"} => read' = read /\ (read.seq \notin exist \/ read.off >= Len(segs[read.seq]))
    BY <1>8 DEF ReadLine, Return
  <2> QED
    BY <1>0, <2>1, <2>2
<1>9. CASE NextSegment
  BY <1>0, <1>9 DEF NextSegment
<1>10. CASE InspectTail
  BY <1>0, <1>10 DEF InspectTail
<1>11. CASE Reread
  BY <1>0, <1>11 DEF Reread, Return
<1>12. CASE NothingRead
  BY <1>0, <1>12 DEF NothingRead
<1>13. CASE CancelRecv
  BY <1>0, <1>13 DEF CancelRecv
<1>14. CASE \E j \in 1 .. Len(in_flight) : AckTo(j)
  <2>1. PICK j \in 1 .. Len(in_flight) : AckTo(j)
    BY <1>14
  <2>2. rpc' \in {"idle", "ack_delete"} /\ UNCHANGED <<call, closed>>
    BY <2>1 DEF AckTo
  <2> QED
    BY <1>0, <2>2
<1>15. CASE AckDelete
  BY <1>0, <1>15 DEF AckDelete
<1>16. CASE AckSave
  BY <1>0, <1>16 DEF AckSave
<1>17. CASE AckSync
  BY <1>0, <1>17 DEF AckSync
<1>18. CASE Restart
  BY <1>0, <1>18 DEF Restart
<1>19. CASE ReadFails
  BY <1>0, <1>19 DEF ReadFails
<1>20. CASE LookupFails
  BY <1>0, <1>20 DEF LookupFails
<1>21. CASE UNCHANGED vars
  BY <1>0, <1>21 DEF vars
<1> QED
  BY <1>1, <1>2, <1>3, <1>4, <1>5, <1>6, <1>7, <1>8, <1>9, <1>10, <1>11, <1>12, <1>13, <1>14, <1>15, <1>16, <1>17, <1>18, <1>19, <1>20, <1>21
     DEF Next, Sender, Reader, Acker

\* Every step keeps the invariant of recv and the senders.
LEMMA DrainStep ==
    ASSUME DrainInv, [Next]_vars
    PROVE  DrainInv'
<1>1. IInv'
  BY StepInv DEF DrainInv
<1> QED
  BY <1>1, SendStep, HandedStep, LastStep DEF DrainInv

\* An empty queue satisfies it.
LEMMA InitDrain == Init => DrainInv
<1> SUFFICES ASSUME Init PROVE DrainInv
  OBVIOUS
<1>1. IInv
  BY InitInv
<1>2. HandedInv /\ SendInv /\ LastInv
  BY DEF Init, HandedInv, SendInv, LastInv
<1> QED
  BY <1>1, <1>2 DEF DrainInv

\* The invariant of recv and the senders holds in every reachable state.
THEOREM DrainInvariance == Spec => []DrainInv
BY InitDrain, DrainStep, PTL DEF Spec

\* recv returns None only when the last sender is gone, and unless the read it
\* makes then fails, every event whose send was made durable has been handed
\* out or settled, or the reader had stepped over it: that read sees all of the
\* log, whatever was appended, and whatever error taken for an empty log,
\* between the first read and the look at `closed`.
THEOREM RecvEndsDrained == Spec => []EndedMeansDrained
<1>1. DrainInv => EndedMeansDrained
  <2>0. DrainInv /\ rpc = "ended" => closed
    BY DEF DrainInv, LastInv
  <2> SUFFICES ASSUME DrainInv, rpc = "ended", ~read_failed
               PROVE  closed /\ sent \subseteq handed \cup settled \cup skipped
    BY <2>0 DEF EndedMeansDrained
  <2>1. /\ closed /\ Len(segs[read.seq]) <= read.off /\ write_seq <= read.seq
        /\ IInv /\ HandedInv
    BY DEF DrainInv, LastInv
  <2>2. ASSUME NEW e \in sent, e \notin settled \cup skipped
        PROVE  e \in handed
    <3>1. PICK s \in exist : \E i \in 1 .. Len(segs[s]) : segs[s][i].ev = e /\ Replayable(s, i)
      BY <2>1, <2>2 DEF IInv, KeptInv
    <3>2. PICK i \in 1 .. Len(segs[s]) : segs[s][i].ev = e /\ Replayable(s, i)
      BY <3>1
    <3>3. /\ s \in Seqs /\ s <= write_seq /\ Len(segs[s]) \in Nat /\ read \in Position
          /\ read.seq \in Seqs /\ read.off \in Nat /\ write_seq \in Seqs
      BY <2>1, TypeFacts, PositionFacts DEF IInv, FilesInv
    <3>4. Before(At(s, i - 1), read)
      BY <2>1, <3>3 DEF Before, At, Seqs
    <3>5. PICK j \in 1 .. Len(in_flight) : in_flight[j].start = At(s, i - 1)
      BY <2>1, <2>2, <3>2, <3>3, <3>4 DEF IInv, PassedInv, Replayable
    <3>6. segs[s][i].ev = in_flight[j].ev
      <4>1. segs[in_flight[j].start.seq][in_flight[j].start.off + 1] = [ev |-> in_flight[j].ev, done |-> TRUE]
        BY <2>1, <3>5 DEF IInv, EntryInv, EntryOK
      <4>2. in_flight[j].start.seq = s /\ in_flight[j].start.off + 1 = i
        BY <3>3, <3>5 DEF At
      <4> QED
        BY <4>1, <4>2
    <3> QED
      BY <2>1, <3>2, <3>5, <3>6 DEF HandedInv
  <2> QED
    BY <2>1, <2>2
<1> QED
  BY <1>1, DrainInvariance, PTL

-----------------------------------------------------------------------------
(* The schedules without a rotation at the end of file or a failed lookup. *)

\* A segment the writer has left does not grow.
LEMMA ScanStep ==
    ASSUME QuietInv, [Next /\ Quiet]_vars
    PROVE  ScanInv'
<1> USE DEF disk, shared, receiver, acking, bounds, history
<1>0. /\ TypeOK /\ ScanInv /\ FilesInv /\ read.seq \in Seqs /\ read.off \in Nat
      /\ (rpc \in {"eof", "missing"} => write_seq' = write_seq)
      /\ ~LookupFails
  BY TypeFacts, PositionFacts DEF QuietInv, DrainInv, IInv, Quiet, LookupFails, Fault, vars
<1> USE DEF ScanInv
<1>1. CASE \E e \in Events : BeginAppend(e)
  BY <1>0, <1>1 DEF BeginAppend, Unlocked
<1>2. CASE \E e \in Events : FailAppend(e)
  BY <1>0, <1>2 DEF FailAppend, Unlocked
<1>3. CASE BreakAppend
  BY <1>0, <1>3 DEF BreakAppend
<1>4. CASE EndAppend
  BY <1>0, <1>4 DEF EndAppend, Unlocked
<1>5. CASE Notify
  BY <1>0, <1>5 DEF Notify, NotifyOne
<1>6. CASE DropSender
  BY <1>0, <1>6 DEF DropSender, NotifyOne, Unlocked
<1>7. CASE Recv
  BY <1>0, <1>7 DEF Recv
<1>8. CASE ReadLine
  <2>1. Len(segs[read.seq]) \in Nat /\ (read.seq \notin exist => Len(segs[read.seq]) = 0)
    BY <1>0, TypeFacts DEF FilesInv
  <2>2. /\ UNCHANGED <<segs, write_seq>>
        /\ rpc' \in {"missing", "eof", "idle", "torn"}
        /\ rpc' \in {"missing", "eof"} => read' = read /\ (read.seq \notin exist \/ read.off >= Len(segs[read.seq]))
    BY <1>8 DEF ReadLine, Return
  <2> QED
    BY <1>0, <2>1, <2>2
<1>9. CASE NextSegment
  BY <1>0, <1>9 DEF NextSegment
<1>10. CASE InspectTail
  BY <1>0, <1>10 DEF InspectTail
<1>11. CASE Reread
  BY <1>0, <1>11 DEF Reread, Return
<1>12. CASE NothingRead
  BY <1>0, <1>12 DEF NothingRead
<1>13. CASE CancelRecv
  BY <1>0, <1>13 DEF CancelRecv
<1>14. CASE \E j \in 1 .. Len(in_flight) : AckTo(j)
  <2>1. PICK j \in 1 .. Len(in_flight) : AckTo(j)
    BY <1>14
  <2>2. rpc' \in {"idle", "ack_delete"}
    BY <2>1 DEF AckTo
  <2> QED
    BY <2>2
<1>15. CASE AckDelete
  BY <1>0, <1>15 DEF AckDelete
<1>16. CASE AckSave
  BY <1>0, <1>16 DEF AckSave
<1>17. CASE AckSync
  BY <1>0, <1>17 DEF AckSync
<1>18. CASE Restart
  BY <1>0, <1>18 DEF Restart
<1>19. CASE ReadFails
  BY <1>0, <1>19 DEF ReadFails
<1>20. CASE LookupFails
  BY <1>0, <1>20
<1>21. CASE UNCHANGED vars
  BY <1>0, <1>21 DEF vars
<1> QED
  BY <1>1, <1>2, <1>3, <1>4, <1>5, <1>6, <1>7, <1>8, <1>9, <1>10, <1>11, <1>12, <1>13, <1>14, <1>15, <1>16, <1>17, <1>18, <1>19, <1>20, <1>21
     DEF Next, Sender, Reader, Acker

\* Nothing is left behind in a segment.
LEMMA SkipStep ==
    ASSUME QuietInv, [Next /\ Quiet]_vars
    PROVE  skipped' = {}
<1> USE DEF disk, shared, receiver, acking, bounds, history
<1>0. skipped = {}
  BY DEF QuietInv
<1>1. CASE \E e \in Events : BeginAppend(e)
  BY <1>0, <1>1 DEF BeginAppend, Unlocked
<1>2. CASE \E e \in Events : FailAppend(e)
  BY <1>0, <1>2 DEF FailAppend, Unlocked
<1>3. CASE BreakAppend
  BY <1>0, <1>3 DEF BreakAppend
<1>4. CASE EndAppend
  BY <1>0, <1>4 DEF EndAppend, Unlocked
<1>5. CASE Notify
  BY <1>0, <1>5 DEF Notify, NotifyOne
<1>6. CASE DropSender
  BY <1>0, <1>6 DEF DropSender, NotifyOne, Unlocked
<1>7. CASE Recv
  BY <1>0, <1>7 DEF Recv
<1>8. CASE ReadLine
  BY <1>0, <1>8 DEF ReadLine, Return
<1>9. CASE NextSegment
  <2>1. CASE UNCHANGED skipped
    BY <1>0, <2>1
  <2>2. CASE read.seq < write_seq /\ skipped' = skipped \cup Unread /\ rpc \in {"eof", "missing"}
    <3>1. read.seq \in Seqs /\ write_seq \in Seqs /\ Len(segs[read.seq]) \in Nat /\ read.off \in Nat
      BY TypeFacts, PositionFacts DEF QuietInv, DrainInv, IInv
    <3>2. Len(segs[read.seq]) <= read.off
      BY <2>2, <3>1 DEF QuietInv, ScanInv, Seqs
    <3>3. Unread = {}
      BY <3>1, <3>2 DEF Unread
    <3> QED
      BY <1>0, <2>2, <3>3
  <2> QED
    BY <2>1, <2>2, <1>9 DEF NextSegment
<1>10. CASE InspectTail
  BY <1>0, <1>10 DEF InspectTail
<1>11. CASE Reread
  BY <1>0, <1>11 DEF Reread, Return
<1>12. CASE NothingRead
  BY <1>0, <1>12 DEF NothingRead
<1>13. CASE CancelRecv
  BY <1>0, <1>13 DEF CancelRecv
<1>14. CASE \E j \in 1 .. Len(in_flight) : AckTo(j)
  <2>1. PICK j \in 1 .. Len(in_flight) : AckTo(j)
    BY <1>14
  <2> QED
    BY <1>0, <2>1 DEF AckTo
<1>15. CASE AckDelete
  BY <1>0, <1>15 DEF AckDelete
<1>16. CASE AckSave
  BY <1>0, <1>16 DEF AckSave
<1>17. CASE AckSync
  BY <1>0, <1>17 DEF AckSync
<1>18. CASE Restart
  BY <1>0, <1>18 DEF Restart
<1>19. CASE ReadFails
  BY <1>0, <1>19 DEF ReadFails
<1>20. CASE LookupFails
  BY <1>0, <1>20 DEF LookupFails
<1>21. CASE UNCHANGED vars
  BY <1>0, <1>21 DEF vars
<1> QED
  BY <1>1, <1>2, <1>3, <1>4, <1>5, <1>6, <1>7, <1>8, <1>9, <1>10, <1>11, <1>12, <1>13, <1>14, <1>15, <1>16, <1>17, <1>18, <1>19, <1>20, <1>21
     DEF Next, Sender, Reader, Acker

\* Every step of such a schedule keeps the invariant.
LEMMA QuietStep ==
    ASSUME QuietInv, [Next /\ Quiet]_vars
    PROVE  QuietInv'
<1>1. [Next]_vars
  OBVIOUS
<1> QED
  BY <1>1, DrainStep, ScanStep, SkipStep DEF QuietInv

\* The invariant of these schedules holds in every reachable state.
THEOREM QuietInvariance == QuietSpec => []QuietInv
<1>1. Init => QuietInv
  <2>1. Init => ScanInv /\ skipped = {}
    BY DEF Init, ScanInv
  <2> QED
    BY <2>1, InitDrain DEF QuietInv
<1>2. QuietSpec => Init /\ [][Next /\ Quiet]_vars
  BY DEF QuietSpec
<1>3. QuietInv /\ [Next /\ Quiet]_vars => QuietInv'
  BY QuietStep
<1> QED
  BY <1>1, <1>2, <1>3, PTL

\* The receiver loses events in two ways only: without a rotation between its
\* look at the end of a segment and its look at write_seq, and with every
\* segment file that exists found, no complete line is ever stepped over,
\* whatever other I/O errors and crashes come.
THEOREM NoRaceNoSkip == QuietSpec => []NothingSkipped
<1>1. QuietInv => NothingSkipped
  BY DEF QuietInv, NothingSkipped
<1> QED
  BY <1>1, QuietInvariance, PTL

-----------------------------------------------------------------------------
(* The refinement: what a restart would replay, and the other three sets.   *)

\* An event of the replay set, by the line that carries it.
LEMMA ReplayElement ==
    \A e : e \in ReplaySet <=>
             \E s \in exist : \E i \in 1 .. Len(segs[s]) :
                 segs[s][i].ev = e /\ Replayable(s, i)
  BY DEF ReplaySet

\* The files and the cursor alone decide it.
LEMMA SameReplay ==
    ASSUME UNCHANGED <<exist, segs, cursor>>
    PROVE  ReplaySet' = ReplaySet
  BY DEF ReplaySet, Replayable

\* An unterminated line is not replayed.
LEMMA BeginReplay ==
    ASSUME IInv, NEW e \in Events, BeginAppend(e)
    PROVE  ReplaySet' = ReplaySet
<1>1. PICK s \in WriteTargets :
        /\ exist' = exist \cup {s}
        /\ segs' = [segs EXCEPT ![s] = Append(@, [ev |-> e, done |-> FALSE])]
  BY DEF BeginAppend
<1> DEFINE new == [ev |-> e, done |-> FALSE]
<1>2. /\ s \in Seqs /\ segs[s] \in Seq(Line) /\ Len(segs[s]) \in Nat /\ exist \subseteq Seqs
      /\ segs \in [Seqs -> Seq(Line)] /\ new \in Line /\ cursor' = cursor
  BY TypeFacts DEF IInv, TypeOK, WriteTargets, Line, BeginAppend
<1>3. /\ Len(segs'[s]) = Len(segs[s]) + 1
      /\ \A i \in 1 .. Len(segs[s]) : segs'[s][i] = segs[s][i]
      /\ segs'[s][Len(segs[s]) + 1] = new
      /\ \A u \in Seqs : u # s => segs'[u] = segs[u]
  BY <1>1, <1>2, AppendProperties
<1>4. s \notin exist => Len(segs[s]) = 0
  BY <1>2 DEF IInv, FilesInv
<1>5. ASSUME NEW x, NEW u \in exist', NEW i \in 1 .. Len(segs'[u]),
             segs'[u][i].ev = x, Replayable(u, i)'
      PROVE  x \in ReplaySet
  <2>1. segs'[u][i].done /\ NotAfter(cursor, At(u, i - 1))
    BY <1>2, <1>5 DEF Replayable
  <2>2. u \in Seqs
    BY <1>1, <1>2
  <2>3. i \in 1 .. Len(segs[u]) /\ segs'[u][i] = segs[u][i] /\ u \in exist
    BY <1>1, <1>2, <1>3, <1>4, <2>1, <2>2
  <2> QED
    BY <1>5, <2>1, <2>3, ReplayElement DEF Replayable
<1>6. ASSUME NEW x, NEW u \in exist, NEW i \in 1 .. Len(segs[u]),
             segs[u][i].ev = x, Replayable(u, i)
      PROVE  x \in ReplaySet'
  <2>1. u \in Seqs /\ u \in exist'
    BY <1>1, <1>2
  <2>2. i \in 1 .. Len(segs'[u]) /\ segs'[u][i] = segs[u][i]
    BY <1>2, <1>3, <2>1
  <2>3. Replayable(u, i)'
    BY <1>2, <1>6, <2>2 DEF Replayable
  <2> QED
    BY <1>6, <2>1, <2>2, <2>3 DEF ReplaySet
<1>7. \A x \in ReplaySet' : x \in ReplaySet
  <2> SUFFICES ASSUME NEW x \in ReplaySet' PROVE x \in ReplaySet
    OBVIOUS
  <2>1. PICK u \in exist' : \E i \in 1 .. Len(segs'[u]) : segs'[u][i].ev = x /\ Replayable(u, i)'
    BY DEF ReplaySet
  <2> QED
    BY <2>1, <1>5
<1> QED
  BY <1>6, <1>7, ReplayElement

\* Removing segments, or moving the cursor on, below a position up to which
\* everything is settled takes only settled events out of the replay set.
LEMMA ForgetReplay ==
    ASSUME QuietInv, TypeOK', NEW p \in Position, NotAfter(p, read),
           \A j \in 1 .. Len(in_flight) : NotAfter(p, in_flight[j].start),
           NEW gone, exist' = exist \ gone,
           \A s \in gone : s < p.seq,
           \A s \in Seqs \ gone : segs'[s] = segs[s],
           cursor' = cursor \/ cursor' = p, NotAfter(cursor, p)
    PROVE  /\ ReplaySet' \subseteq ReplaySet
           /\ ReplaySet \ ReplaySet' \subseteq settled
<1>0. /\ cursor \in Position /\ exist \subseteq Seqs /\ p.seq \in Seqs /\ IInv /\ skipped = {}
      /\ \A s \in Seqs : \A i \in 1 .. Len(segs[s]) : At(s, i - 1) \in Position
  BY TypeFacts, PositionFacts DEF QuietInv, DrainInv, IInv
<1>1. ASSUME NEW x \in ReplaySet'
      PROVE  x \in ReplaySet
  <2>1. PICK u \in exist' : \E i \in 1 .. Len(segs'[u]) : segs'[u][i].ev = x /\ Replayable(u, i)'
    BY DEF ReplaySet
  <2>2. PICK i \in 1 .. Len(segs'[u]) : segs'[u][i].ev = x /\ Replayable(u, i)'
    BY <2>1
  <2>3. u \in exist /\ u \in Seqs \ gone /\ segs'[u] = segs[u]
    BY <1>0, <2>1
  <2>4. NotAfter(cursor', At(u, i - 1)) /\ segs[u][i].done /\ At(u, i - 1) \in Position
    BY <1>0, <2>2, <2>3 DEF Replayable
  <2>5. NotAfter(cursor, At(u, i - 1))
    BY <1>0, <2>4, OrderFacts
  <2> QED
    BY <2>2, <2>3, <2>4, <2>5, ReplayElement DEF Replayable
<1>2. ASSUME NEW x \in ReplaySet, x \notin settled
      PROVE  x \in ReplaySet'
  <2>1. PICK u \in exist : \E i \in 1 .. Len(segs[u]) : segs[u][i].ev = x /\ Replayable(u, i)
    BY ReplayElement
  <2>2. PICK i \in 1 .. Len(segs[u]) : segs[u][i].ev = x /\ Replayable(u, i)
    BY <2>1
  <2>3. u \in Seqs /\ At(u, i - 1) \in Position /\ segs[u][i].done /\ NotAfter(cursor, At(u, i - 1))
    BY <1>0, <2>2 DEF Replayable
  <2>4. ~Before(At(u, i - 1), p)
    BY <1>0, <1>2, <2>2, <2>3, PassedSettled
  <2>5. NotAfter(p, At(u, i - 1))
    BY <2>3, <2>4, OrderFacts
  <2>6. u \notin gone
    BY <1>0, <2>3, <2>5 DEF NotAfter, At, Seqs
  <2>7. u \in exist' /\ segs'[u] = segs[u]
    BY <2>3, <2>6
  <2>8. Replayable(u, i)'
    BY <2>3, <2>5, <2>7 DEF Replayable
  <2> QED
    BY <2>2, <2>7, <2>8 DEF ReplaySet
<1> QED
  BY <1>1, <1>2

\* The abstract step that only housekeeping takes.
LEMMA Forgets ==
    ASSUME UNCHANGED <<sent, settled, handed>>, ReplaySet' \subseteq ReplaySet,
           ReplaySet \ ReplaySet' \subseteq settled
    PROVE  ALO!Next
<1> DEFINE done == ReplaySet \ ReplaySet'
<1>1. done \in SUBSET settled /\ ReplaySet' = ReplaySet \ done
  OBVIOUS
<1>2. ALO!Forget
  BY <1>1 DEF ALO!Forget
<1> QED
  BY <1>2 DEF ALO!Next

\* A complete line at the read position is in the replay set.
LEMMA ReadIsReplayed ==
    ASSUME IInv, read.seq \in exist, read.off < Len(segs[read.seq]),
           segs[read.seq][read.off + 1].done
    PROVE  segs[read.seq][read.off + 1].ev \in ReplaySet \cap Events
<1>1. /\ cursor \in Position /\ acked \in Position /\ read \in Position
      /\ read.seq \in Seqs /\ read.off \in Nat /\ Len(segs[read.seq]) \in Nat
  BY TypeFacts, PositionFacts DEF IInv
<1>2. NotAfter(cursor, read)
  BY <1>1, OrderFacts DEF IInv, OrderInv
<1>3. At(read.seq, (read.off + 1) - 1) = read /\ read.off + 1 \in 1 .. Len(segs[read.seq])
  <2>1. (read.off + 1) - 1 = read.off /\ read.off + 1 \in 1 .. Len(segs[read.seq])
    BY <1>1
  <2>2. At(read.seq, read.off) = read
    BY <1>1, PositionFacts
  <2> QED
    BY <2>1, <2>2
<1>4. segs[read.seq][read.off + 1] \in Line
  BY <1>1, <1>3, TypeFacts DEF IInv
<1>5. Replayable(read.seq, read.off + 1)
  BY <1>2, <1>3 DEF Replayable
<1> QED
  BY <1>3, <1>4, <1>5, ReplayElement DEF Line

\* The completed line enters the replay set; what goes with the segments below
\* the GC boundary was settled.
LEMMA EndReplay ==
    ASSUME QuietInv, EndAppend
    PROVE  ALO!Accept(appending) /\ appending \in Events
<1> DEFINE w == write_seq
           last == Len(segs[w])
           full == [ev |-> appending, done |-> TRUE]
<1>a. IInv /\ SendInv /\ skipped = {}
  BY DEF QuietInv, DrainInv
<1>b. /\ cursor \in Position /\ acked \in Position /\ read \in Position
      /\ w \in Seqs /\ gc_seq \in Seqs /\ exist \subseteq Seqs
      /\ acked.seq \in Seqs /\ read.seq \in Seqs
      /\ segs[w] \in Seq(Line) /\ last \in Nat
      /\ \A s \in Seqs : \A i \in 1 .. Len(segs[s]) : At(s, i - 1) \in Position
  BY <1>a, TypeFacts, PositionFacts DEF IInv
<1>c. /\ cursor' = cursor /\ settled' = settled /\ handed' = handed
      /\ appending # None /\ sent' = sent \cup {appending}
  BY DEF EndAppend, Unlocked
<1>d. appending \in Events /\ appending \notin sent /\ w \in exist
  BY <1>a, <1>c DEF IInv, TypeOK, SendInv, AppendInv, FilesInv
<1>e. /\ last \in 1 .. last /\ ~segs[w][last].done
      /\ NotAfter(read, At(w, last - 1)) /\ At(w, last - 1) \in Position
  BY <1>a, <1>b, <1>c DEF IInv, AppendInv
<1>f. /\ gc_seq <= acked.seq /\ acked.seq <= read.seq /\ read.seq <= w
      /\ NotAfter(cursor, At(w, last - 1))
  <2>1. NotAfter(cursor, acked) /\ NotAfter(acked, read) /\ gc_seq <= acked.seq
    BY <1>a DEF IInv, OrderInv
  <2>2. NotAfter(cursor, At(w, last - 1))
    BY <2>1, <1>b, <1>e, OrderFacts
  <2> QED
    BY <2>1, <2>2, <1>b, <1>e DEF NotAfter, At, Seqs
<1>1. PICK gone \in SUBSET Removable :
        /\ exist' = exist \ gone
        /\ segs' = [s \in Seqs |->
                      IF s \in gone THEN <<>>
                      ELSE IF s = w THEN [segs[s] EXCEPT ![Len(segs[s])] = full]
                           ELSE segs[s]]
  BY DEF EndAppend
<1>2. \A s \in gone : s \in Seqs /\ s < acked.seq /\ s < w
  BY <1>b, <1>f DEF Removable, Seqs
<1>3. /\ Len(segs'[w]) = last /\ w \notin gone /\ w \in exist'
      /\ \A i \in 1 .. last : segs'[w][i] = IF i = last THEN full ELSE segs[w][i]
  <2>1. w \notin gone /\ w \in exist'
    BY <1>1, <1>2, <1>b, <1>d DEF Seqs
  <2>2. full \in Line
    BY <1>d DEF Line
  <2>3. segs'[w] = [segs[w] EXCEPT ![last] = full]
    BY <2>1, <1>1, <1>b
  <2> QED
    BY <2>1, <2>2, <2>3, <1>b, <1>e, ExceptSeq
<1>4. \A s \in Seqs \ gone : s # w => segs'[s] = segs[s]
  BY <1>1
<1>g. full.ev = appending /\ full.done
  OBVIOUS
<1> HIDE DEF full, last, w
<1>5. appending \in ReplaySet'
  <2>1. PICK u \in exist', i \in Nat : u = w /\ i = last
    BY <1>3, <1>b
  <2>2. i \in 1 .. Len(segs'[u]) /\ segs'[u][i] = full /\ NotAfter(cursor', At(u, i - 1))
    BY <2>1, <1>3, <1>c, <1>e, <1>f
  <2>3. segs'[u][i].ev = appending /\ Replayable(u, i)'
    BY <2>2, <1>g DEF Replayable
  <2> QED
    BY <2>1, <2>2, <2>3 DEF ReplaySet
<1>6. ASSUME NEW x \in ReplaySet', x # appending
      PROVE  x \in ReplaySet
  <2>1. PICK u \in exist' : \E i \in 1 .. Len(segs'[u]) : segs'[u][i].ev = x /\ Replayable(u, i)'
    BY DEF ReplaySet
  <2>2. PICK i \in 1 .. Len(segs'[u]) : segs'[u][i].ev = x /\ Replayable(u, i)'
    BY <2>1
  <2>3. u \in exist /\ u \in Seqs \ gone
    BY <1>1, <1>b, <2>1
  <2>4. i \in 1 .. Len(segs[u]) /\ segs'[u][i] = segs[u][i]
    <3>1. CASE u = w
      BY <3>1, <1>3, <1>6, <1>g, <2>2 DEF last
    <3>2. CASE u # w
      BY <3>2, <1>4, <2>2, <2>3
    <3> QED
      BY <3>1, <3>2
  <2> QED
    BY <1>c, <2>2, <2>3, <2>4, ReplayElement DEF Replayable
<1>7. ASSUME NEW x \in ReplaySet, x \notin settled
      PROVE  x \in ReplaySet'
  <2>1. PICK u \in exist : \E i \in 1 .. Len(segs[u]) : segs[u][i].ev = x /\ Replayable(u, i)
    BY ReplayElement
  <2>2. PICK i \in 1 .. Len(segs[u]) : segs[u][i].ev = x /\ Replayable(u, i)
    BY <2>1
  <2>3. u \in Seqs /\ At(u, i - 1) \in Position /\ segs[u][i].done
    BY <1>b, <2>2 DEF Replayable
  <2>4. u \notin gone
    <3>1. NotAfter(acked, read) /\ \A j \in 1 .. Len(in_flight) : NotAfter(acked, in_flight[j].start)
      BY <1>a DEF IInv, OrderInv, EntryInv, EntryOK
    <3>2. ~Before(At(u, i - 1), acked)
      BY <1>a, <1>b, <1>7, <2>2, <2>3, <3>1, PassedSettled
    <3> QED
      BY <3>2, <1>2, <1>b DEF Before, At
  <2>5. u \in exist' /\ i \in 1 .. Len(segs'[u]) /\ segs'[u][i] = segs[u][i]
    <3>1. CASE u = w
      BY <3>1, <1>1, <1>3, <1>e, <2>2, <2>3, <2>4 DEF last
    <3>2. CASE u # w
      BY <3>2, <1>1, <1>4, <2>3, <2>4
    <3> QED
      BY <3>1, <3>2
  <2>6. Replayable(u, i)'
    BY <2>2, <2>5, <1>c DEF Replayable
  <2> QED
    BY <2>2, <2>5, <2>6 DEF ReplaySet
<1>8. ReplaySet' = (ReplaySet \cup {appending}) \ ((ReplaySet \cup {appending}) \ ReplaySet')
  BY <1>5, <1>6
<1>9. (ReplaySet \cup {appending}) \ ReplaySet' \in SUBSET settled
  BY <1>5, <1>7
<1> QED
  BY <1>8, <1>9, <1>c, <1>d DEF ALO!Accept

\* Every step of these schedules is a step of the at-least-once queue, or
\* leaves its four sets alone.
LEMMA StepImplements ==
    ASSUME QuietInv, QuietInv', [Next]_vars
    PROVE  [ALO!Next]_<<sent, settled, ReplaySet, handed>>
<1> USE DEF disk, shared, receiver, acking, bounds, history
<1>0. IInv /\ HandedInv /\ TypeOK' /\ TypeOK
  BY DEF QuietInv, DrainInv, IInv
<1>1. CASE UNCHANGED <<exist, segs, cursor, sent, settled, handed>>
  BY <1>1, SameReplay
<1>2. ASSUME NEW e \in Events, BeginAppend(e)
      PROVE  UNCHANGED <<sent, settled, ReplaySet, handed>>
  BY <1>0, <1>2, BeginReplay DEF BeginAppend
<1>3. ASSUME NEW e \in Events, FailAppend(e)
      PROVE  UNCHANGED <<sent, settled, ReplaySet, handed>>
  <2>1. /\ UNCHANGED <<segs, cursor, sent, settled, handed>>
        /\ exist' = exist \/ \E s \in Seqs : exist' = exist \cup {s}
    BY <1>3 DEF FailAppend, WriteTargets
  <2>2. CASE exist' = exist
    BY <2>1, <2>2, SameReplay
  <2>3. ASSUME NEW s \in Seqs, exist' = exist \cup {s}, s \notin exist
        PROVE  ReplaySet' = ReplaySet
    <3>1. segs[s] = <<>>
      BY <1>0, <2>3 DEF IInv, FilesInv
    <3>2. \A x : x \in ReplaySet' <=> x \in ReplaySet
      BY <2>1, <2>3, <3>1 DEF ReplaySet, Replayable
    <3> QED
      BY <3>2
  <2> QED
    BY <2>1, <2>2, <2>3
<1>4. CASE EndAppend
  BY <1>4, EndReplay DEF ALO!Next
<1>5. ASSUME NEW line, Return(line), line.ev \in ReplaySet \cap Events,
             UNCHANGED <<exist, segs, cursor, sent, settled>>
      PROVE  ALO!Next
  <2>1. ALO!Deliver(line.ev)
    BY <1>5, SameReplay DEF Return, ALO!Deliver
  <2> QED
    BY <1>5, <2>1 DEF ALO!Next
<1>6. CASE ReadLine
  BY <1>0, <1>1, <1>5, <1>6, ReadIsReplayed DEF ReadLine
<1>7. CASE Reread
  <2>1. read.seq \in exist /\ read.off < Len(segs[read.seq])
    BY <1>0, <1>7 DEF Reread, IInv, TailInv
  <2> QED
    BY <1>0, <1>1, <1>5, <1>7, <2>1, ReadIsReplayed DEF Reread
<1>8. ASSUME NEW j \in 1 .. Len(in_flight), AckTo(j)
      PROVE  ALO!Next
  <2>1. in_flight[j].ev \in handed /\ in_flight[j].ev \in Events
    BY <1>0, TypeFacts DEF HandedInv, InFlight
  <2>2. ALO!Settle(in_flight[j].ev)
    BY <1>8, <2>1, SameReplay DEF AckTo, ALO!Settle
  <2> QED
    BY <2>1, <2>2 DEF ALO!Next
<1>9. ASSUME rpc = "ack_delete"
      PROVE  /\ target \in Position /\ NotAfter(target, read) /\ NotAfter(cursor, target)
             /\ \A j \in 1 .. Len(in_flight) : NotAfter(target, in_flight[j].start)
  <2>1. cursor \in Position /\ acked \in Position /\ target \in Position
    BY <1>0, TypeFacts
  <2>2. NotAfter(cursor, acked) /\ NotAfter(acked, target)
    BY <1>0, <1>9 DEF IInv, OrderInv, AckInv
  <2> QED
    BY <1>0, <1>9, <2>1, <2>2, OrderFacts DEF IInv, AckInv
<1>10. CASE AckDelete
  <2>1. /\ rpc = "ack_delete" /\ stale < target.seq
        /\ UNCHANGED <<cursor, sent, settled, handed>>
    BY <1>10 DEF AckDelete
  <2>2. CASE UNCHANGED <<exist, segs>>
    BY <1>1, <2>1, <2>2
  <2>3. CASE Delete({stale})
    <3> DEFINE gone == {stale}
    <3>1. /\ exist' = exist \ gone /\ (\A s \in gone : s < target.seq)
          /\ \A s \in Seqs \ gone : segs'[s] = segs[s]
      BY <2>1, <2>3 DEF Delete
    <3> HIDE DEF gone
    <3>2. ReplaySet' \subseteq ReplaySet /\ ReplaySet \ ReplaySet' \subseteq settled
      BY <1>0, <1>9, <2>1, <3>1, ForgetReplay
    <3> QED
      BY <2>1, <3>2, Forgets
  <2> QED
    BY <1>10, <2>2, <2>3 DEF AckDelete
<1>11. CASE AckSave
  <2>1. /\ rpc = "ack_delete" /\ cursor' \in {cursor, target}
        /\ UNCHANGED <<exist, segs, sent, settled, handed>>
    BY <1>11 DEF AckSave
  <2> DEFINE gone == {}
  <2>2. /\ exist' = exist \ gone /\ (\A s \in gone : s < target.seq)
        /\ \A s \in Seqs \ gone : segs'[s] = segs[s]
    BY <2>1
  <2> HIDE DEF gone
  <2>3. ReplaySet' \subseteq ReplaySet /\ ReplaySet \ ReplaySet' \subseteq settled
    BY <1>0, <1>9, <2>1, <2>2, ForgetReplay
  <2> QED
    BY <2>1, <2>3, Forgets
<1>12. CASE BreakAppend \/ Notify \/ DropSender \/ Recv \/ NextSegment \/ InspectTail
            \/ NothingRead \/ CancelRecv \/ ReadFails \/ LookupFails
            \/ AckSync \/ Restart \/ UNCHANGED vars
  <2>1. UNCHANGED <<exist, segs, cursor, sent, settled, handed>>
    BY <1>12 DEF BreakAppend, Notify, DropSender, Recv, NextSegment, InspectTail,
       NothingRead, CancelRecv, ReadFails, LookupFails, AckSync, Restart, vars
  <2> QED
    BY <1>1, <2>1
<1> QED
  BY <1>2, <1>3, <1>4, <1>6, <1>7, <1>8, <1>10, <1>11, <1>12
     DEF Next, Sender, Reader, Acker

\* In every schedule without a rotation at the end of file and without a failed
\* lookup, the segments, the cursor file and the receiver implement the
\* at-least-once queue: an accepted event stays in the replay set, through
\* crashes and every other failed I/O, until the consumer has settled it.
THEOREM QueueKeepsContract == QuietSpec => ImplementsAtLeastOnce
<1>1. Init => ALO!Init
  BY DEF Init, ALO!Init, ReplaySet
<1>2. QuietSpec => Init /\ [][Next /\ Quiet]_vars
  BY DEF QuietSpec
<1>3. QuietInv /\ QuietInv' /\ [Next /\ Quiet]_vars
        => [ALO!Next]_<<sent, settled, ReplaySet, handed>>
  <2> SUFFICES ASSUME QuietInv, QuietInv', [Next /\ Quiet]_vars
               PROVE  [ALO!Next]_<<sent, settled, ReplaySet, handed>>
    OBVIOUS
  <2>1. [Next]_vars
    OBVIOUS
  <2> QED
    BY <2>1, StepImplements
<1> QED
  BY <1>1, <1>2, <1>3, QuietInvariance, PTL DEF ImplementsAtLeastOnce, ALO!Spec, ALO!vars
=============================================================================
